----------------------------- MODULE MCObserver -----------------------------
(* Attendance reports of one teen, on a small instance: two sporty listings *)
(* and one that is artistic and chill.                                      *)
EXTENDS Observer, TLC

CONSTANTS t1, a, b, c, h1, h2, h3

MCOpening  == {[money_total |-> 0, money_spent |-> 0, money_committed |-> 0,
                hours_per_week |-> 0, hours_committed |-> 0,
                tries_total |-> 3, tries_used |-> 0, tries_abandoned |-> 0, version |-> 0]}
MCFree     == [l \in Listing |-> 0]
MCVibes    == [l \in Listing |-> IF l = c THEN {"artistic", "chill"} ELSE {"sporty"}]
Text(pause, about, negative) == [pause |-> pause, about |-> about, negative |-> negative]
MCChips    == {{"sporty", "artistic"}}
MCSaid     == {Text(TRUE, "instance", TRUE), Text(FALSE, "activity", TRUE)}
Symmetry   == Permutations(Report)
=============================================================================
