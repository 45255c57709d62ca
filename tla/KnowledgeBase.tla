---------------------------- MODULE KnowledgeBase ----------------------------
(***************************************************************************)
(* The runtime listing store (src/ckb/store.py): one row per listing id,    *)
(* written by the seed, by Discovery's inserts and by Compliance's updates. *)
(* Every statement autocommits, so a method of two statements is two steps  *)
(* of its caller.  A record is abstracted to what the agents branch on: the *)
(* verification, the freshness, and whether last_seen_at was moved since    *)
(* the record was captured (it takes part in record equality).              *)
(***************************************************************************)
EXTENDS Listings, Sequences

CONSTANTS
    Seed,        \* seed artifact: a function from listing ids to records
    Replay       \* discovery_replay.json: a sequence of [listing, record]

(* ListingRecord: retired and dead go together (schema/listing.py). *)
Record ==
    {x \in [verification : {"verified", "unverified", "retired"},
            freshness : {"fresh", "stale", "dead"},
            rechecked : BOOLEAN] :
        x.verification = "retired" <=> x.freshness = "dead"}

ASSUME SeedAssumption ==
    DOMAIN Seed \subseteq Listing /\ Seed \in [DOMAIN Seed -> Record]
ASSUME ReplayAssumption == Replay \in Seq([listing : Listing, record : Record])

VARIABLE ckb      \* partial function from listing ids to records

Known      == DOMAIN ckb
Retired(l) == ckb[l].verification = "retired"

KBInit == ckb = Seed

KBTypeOK ==
    /\ Known \subseteq Listing
    /\ \A l \in Known : ckb[l] \in Record

(* upsert_discovered, first statement: what the SELECT decides. *)
IsNew(x)       == x.listing \notin Known
IsDuplicate(x) == x.listing \in Known /\ ckb[x.listing] = x.record
IsCollision(x) == x.listing \in Known /\ ckb[x.listing] # x.record

(* upsert_discovered, second statement: the INSERT, which the primary key   *)
(* refuses when another caller inserted the id since the SELECT.            *)
InsertListing(x) ==
    /\ IsNew(x)
    /\ ckb' = [l \in Known \cup {x.listing} |-> IF l = x.listing THEN x.record ELSE ckb[l]]

(* update_record: the whole row is overwritten with the caller's copy, with *)
(* no check that the row is still the one the copy was made from.           *)
UpdateRecord(l, rec) ==
    /\ l \in Known
    /\ ckb' = [ckb EXCEPT ![l] = rec]
=============================================================================
