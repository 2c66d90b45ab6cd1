---------------------------- MODULE MCTraderRunner ----------------------------
(* Finite instances of TraderRunner for TLC. *)
EXTENDS TraderRunner

TwoPhases == <<"execute", "alerts">>
EveryTwo == [k \in Kinds |-> IF k = "main" THEN 1 ELSE 2]
=============================================================================
