--------------------------- MODULE MCTraderPipeline ---------------------------
(* Finite instances of TraderPipeline for TLC. *)
EXTENDS TraderPipeline, TLC

CONSTANTS v1, v2, btc

OneTick == [t \in Timeframes |-> 1]

\* Two versions of the same kind are interchangeable.
Alike == Permutations({v1, v2})
=============================================================================
