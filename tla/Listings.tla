------------------------------ MODULE Listings ------------------------------
(***************************************************************************)
(* What a listing is to the rest of the model (src/schema/listing.py): an   *)
(* id with the price and the length of its next session, which no operation *)
(* of the service changes.  Money and hours are counted in whole units.     *)
(***************************************************************************)
EXTENDS Integers, FiniteSets

CONSTANTS
    Listing,        \* listing ids
    Cost,           \* Cost[l]: cost_total_first_session, 0 when absent
    Duration,       \* Duration[l]: schedule.duration_min / 60
    MaxUnit         \* bound on a listing's cost and duration

ASSUME ListingAssumption == IsFiniteSet(Listing)
ASSUME UnitAssumption ==
    /\ MaxUnit \in Nat
    /\ Cost \in [Listing -> 0..MaxUnit]
    /\ Duration \in [Listing -> 0..MaxUnit]
=============================================================================
