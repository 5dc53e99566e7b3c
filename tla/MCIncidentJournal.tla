------------------------- MODULE MCIncidentJournal -------------------------
(* One break and one outage, two calls at a time.                          *)
EXTENDS IncidentJournal, TLC

CONSTANTS b1, c1, w1, w2

MCBreaks == {b1}
MCCrashes == {c1}
MCCallers == {w1, w2}
Callers2 == Permutations(MCCallers)
=============================================================================
