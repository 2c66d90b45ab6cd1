---------------------------- MODULE MCTraderLedger ----------------------------
(* Finite instances of TraderLedger for TLC. *)
EXTENDS TraderLedger, TLC

CONSTANTS v1, v2, btc

\* Versions of the same risk differ in name only.
Alike == Permutations(Versions)

FivePercent == [v \in Versions |-> 5]
=============================================================================
