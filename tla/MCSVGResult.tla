------------------------------ MODULE MCSVGResult ------------------------------
(* SVGResult on small instances: an outline of two slides, and one with    *)
(* the same id twice.                                                      *)
EXTENDS SVGResult, TLC

CONSTANTS a, b

TwoSlides == {<<a, b>>, <<a, a>>}

Goroutines == Permutations(Runs) \cup Permutations(Others)

(* Of all executions and others, three at most get to work. *)
ThreeWriters == Cardinality({w \in Writers : work[w].pc # "new"}) <= 3

=============================================================================
