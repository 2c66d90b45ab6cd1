------------------------- MODULE MCStrategyVersions -------------------------
EXTENDS StrategyVersions, TLC
\* Two rhythms: one trade in a tick, and one in two; the first in a stateful spec.
Symmetric == Permutations(Seeders)
MCExtractions == {"latch", "cross"}
MCKind  == [e \in MCExtractions |-> IF e = "latch" THEN "stateful" ELSE "plain"]
MCEvery == [e \in MCExtractions |-> IF e = "latch" THEN 1 ELSE 2]
MCWarm  == [e \in MCExtractions |-> IF e = "latch" THEN 60 ELSE 0]
=============================================================================
