----------------------------- MODULE MCSnapshot ------------------------------
(* Small instances of DatasetSnapshot for TLC.                             *)
EXTENDS DatasetSnapshot, TLC

AllFaults == FaultKinds
==============================================================================
