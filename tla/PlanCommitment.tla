--------------------------- MODULE PlanCommitment ---------------------------
(***************************************************************************)
(* What the store promises the agents, without its tables: each teen has a  *)
(* clock; a plan takes effect at most once, only at the clock value it was  *)
(* made for, and as a whole; the outcome of each of its items is settled at *)
(* most once afterwards; every effect, and nothing else, moves the clock by *)
(* one.  PersonalData implements it (docs/agent-system-prompts/             *)
(* shared-protocol.md, re-entry and transaction rules).                     *)
(***************************************************************************)
EXTENDS Naturals

CONSTANTS Teen, PlanId, OpeningClock

VARIABLES opened, clock, effective, settled

vars == <<opened, clock, effective, settled>>

Init ==
    /\ opened = {}
    /\ clock = [t \in Teen |-> 0]
    /\ effective = {}
    /\ settled = {}

(* The teen's clock starts at the version the opening ledger declares. *)
Open(t) ==
    /\ t \notin opened
    /\ opened' = opened \cup {t}
    /\ \E n \in OpeningClock : clock' = [clock EXCEPT ![t] = n]
    /\ UNCHANGED <<effective, settled>>

Tick(t) == clock' = [clock EXCEPT ![t] = @ + 1]

TakeEffect(i) ==
    /\ i.teen \in opened
    /\ i \notin effective
    /\ clock[i.teen] = i.version
    /\ effective' = effective \cup {i}
    /\ Tick(i.teen)
    /\ UNCHANGED <<opened, settled>>

Settle(i, l) ==
    /\ i \in effective
    /\ l \in i.items
    /\ <<i, l>> \notin settled
    /\ settled' = settled \cup {<<i, l>>}
    /\ Tick(i.teen)
    /\ UNCHANGED <<opened, effective>>

Next ==
    \/ \E t \in Teen : Open(t)
    \/ \E i \in PlanId : TakeEffect(i)
    \/ \E i \in PlanId : \E l \in i.items : Settle(i, l)

Spec == Init /\ [][Next]_vars
=============================================================================
