--------------------------- MODULE MCPersonalData ---------------------------
(* The store under arbitrary callers, on a small instance. *)
EXTENDS PersonalData

CONSTANTS t1, t2, l1, l2

Fresh(m, h, n, v) ==
    [money_total |-> m, money_spent |-> 0, money_committed |-> 0,
     hours_per_week |-> h, hours_committed |-> 0,
     tries_total |-> n, tries_used |-> 0, tries_abandoned |-> 0, version |-> v]

MCCost     == [l \in Listing |-> IF l = l1 THEN 1 ELSE 2]
MCDuration == [l \in Listing |-> IF l = l1 THEN 2 ELSE 1]
MCOpening  == {Fresh(3, 3, 3, 0),
               [Fresh(4, 4, 2, 1) EXCEPT !.money_spent = 1, !.tries_used = 1]}
=============================================================================
