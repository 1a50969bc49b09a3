---------------------------- MODULE MCIngestion ------------------------------
(* Small instances of SourceIngestion for TLC.                             *)
EXTENDS SourceIngestion, TLC

AllFaults == FaultKinds
AnyManifest == [c \in Clients |-> Snapshots]
Symmetry == Permutations(Attempts) \cup Permutations(Versions)
              \cup Permutations(Snapshots)
==============================================================================
