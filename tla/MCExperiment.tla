---------------------------- MODULE MCExperiment -----------------------------
(* Small instances of RetrievalExperiment for TLC.                         *)
EXTENDS RetrievalExperiment

AllFaults == FaultKinds
==============================================================================
