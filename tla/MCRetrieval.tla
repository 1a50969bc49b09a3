---------------------------- MODULE MCRetrieval ------------------------------
(* A small instance of HybridRetrieval for TLC.                            *)
EXTENDS HybridRetrieval
==============================================================================
