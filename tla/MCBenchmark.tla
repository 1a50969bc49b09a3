----------------------------- MODULE MCBenchmark -----------------------------
(* Small instances of RetrievalBenchmark for TLC: four questions, the      *)
(* frozen seed and one other.                                              *)
EXTENDS RetrievalBenchmark

AllFaults == FaultKinds
FourQuestions ==
    [s \in Splits |-> IF s = "development" THEN 2 ELSE 1]
FrozenSeed == <<3, 1, 4, 2>>
TwoSeeds == {FrozenSeed, <<2, 3, 1, 4>>}
Reordered == <<4, 3, 2, 1>>
==============================================================================
