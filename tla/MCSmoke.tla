------------------------------- MODULE MCSmoke --------------------------------
(* Small instances of CapabilitySmoke for TLC.                             *)
EXTENDS CapabilitySmoke, TLC

Symmetry == Permutations(Runs)
==============================================================================
