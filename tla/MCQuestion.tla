------------------------------ MODULE MCQuestion -----------------------------
(* Every question of up to six words, and standalone sections.             *)
EXTENDS QueryPreparation

Tokens == {"word", "and", "stop", "citation", "mark"}
ShortQuestions ==
    UNION {[1..n -> Tokens] : n \in 1..6}
        \cup {<<"number">>, <<"section", "number">>, <<"section", "number", "mark">>}
==============================================================================
