-------------------------------- MODULE Sorting -------------------------------
(***************************************************************************)
(* sorted() and list.sort(), for the modules that put candidates, latencies *)
(* or the cuts of a text in order.                                         *)
(***************************************************************************)
EXTENDS Integers, FiniteSets

(* sorted(): each member in the place that the number of those before it   *)
(* gives it; before is a total order, as a set of pairs.                   *)
Ordered(S, before) ==
    [k \in 1..Cardinality(S) |->
        CHOOSE x \in S : Cardinality({y \in S : <<y, x>> \in before}) = k - 1]

(* Numbers, the smallest first.                                            *)
Ascending(S) == Ordered(S, {pair \in S \X S : pair[1] < pair[2]})
==============================================================================
