------------------------------ MODULE MCSystem -------------------------------
(* A small instance of IngestionSystem for TLC.                            *)
EXTENDS IngestionSystem

CONSTANTS s1, s2, r2

(* PostgreSQL answers every transaction.                                   *)
IndexSideFaults == FaultKinds \ {"store", "store_ack"}

(* r2 runs from a checkout with another manifest.                          *)
TwoManifests == [c \in Clients |-> IF c = r2 THEN {s2} ELSE {s1}]
==============================================================================
