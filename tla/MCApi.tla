-------------------------------- MODULE MCApi --------------------------------
(* A small instance of ApiProcess for TLC.                                  *)
EXTENDS ApiProcess

ModelNumbers == {2, 3}
ModelCalls == Requests \X ModelNumbers
==============================================================================
