------------------------------ MODULE MCSupply ------------------------------
(* The supply chain on a small instance: two areas and a handful of           *)
(* candidates that differ where the scripts look.                            *)
EXTENDS Supply

CONSTANTS west, north, outside, pageA, pageB, pageC, pageD, pageE, pageF, invented

Candidate(id, kind, url) ==
    [id |-> id, kind |-> kind, url |-> url, regs |-> <<>>, event |-> "event", has |-> {},
     named |-> NoArea, facility |-> NoArea, channel |-> NoArea, areas |-> {}, dates |-> {},
     ages |-> {}, text |-> {}, buckets |-> {"chill"}, activity |-> "walk"]

(* Drafts: the event 1 in both library files, once with less on it; and a    *)
(* free-play field.                                                         *)
Library == [Candidate(1, "merged_nlb_draft", pageA) EXCEPT
                !.has = {"planning_area"}, !.areas = {north}]
Fuller  == [Library EXCEPT !.has = @ \cup {"age_min", "age_max", "schedule"}, !.ages = {10, 16}]
Field   == [Candidate(2, "merged_activesg_draft", pageB) EXCEPT
                !.has = {"planning_area", "age_min", "age_max"}, !.facility = north, !.ages = {7, 14}]
MCDrafts == {<<Library, Fuller>>, <<Field, Fuller>>}

(* Posts: 3 and its repost 4 register for one event; 5 is another activity   *)
(* that is over after day 1, with a link into Telegram only; it scores what  *)
(* Fuller does.                                                             *)
Post   == [Candidate(3, "public_telegram_candidate", pageC) EXCEPT
              !.regs = <<pageF>>, !.channel = west, !.has = {"registration_urls", "dates", "ages"},
              !.ages = {13}, !.text = {"open-ended"}]
Repost == [Post EXCEPT !.id = 4, !.url = pageD]
Over   == [Candidate(5, "public_telegram_candidate", pageE) EXCEPT
              !.channel = west, !.has = {"registration_urls", "dates", "postal_codes"}, !.dates = {1}]
MCPosts == {<<Post, Repost, Over>>, <<Over>>, <<>>}

(* Web rows: the supplement 9, in the target area or outside it, on a page   *)
(* that may move; or listed twice by mistake.                               *)
Market  == [Candidate(9, "public_web_candidate", pageE) EXCEPT !.named = outside, !.text = {"all ages"}]
Moved   == [Market EXCEPT !.named = west, !.url = pageF, !.has = {"dates", "ages", "costs"}]
MCWebs  == {<<Market>>, <<Moved>>, <<Market, Moved>>}

MCAreaOrder   == <<west, north>>
MCAreaQuota   == [a \in {west, north} |-> 1]
MCSourceQuota == [a \in {west, north} |->
                    IF a = west THEN <<[kind |-> "public_telegram_candidate", quota |-> 0]>>
                    ELSE <<[kind |-> "merged_nlb_draft", quota |-> 0],
                           [kind |-> "merged_activesg_draft", quota |-> 1]>>]

DropIn  == [kind |-> "drop_in", noted |-> TRUE, evening |-> TRUE, weekend |-> TRUE]
OnDay(d) == [kind |-> "fixed_dates", dates |-> {d}, evening |-> FALSE, weekend |-> TRUE]
Weekly  == [kind |-> "weekly", first |-> 1, weekday |-> 1, duration |-> 60, sessions |-> 4,
            evening |-> TRUE, weekend |-> FALSE]
Facts(area, low, high, schedule) ==
    [unreadable |-> {}, one_off |-> 0, recurring |-> 0, equipment |-> 0, area |-> area,
     age_min |-> low, age_max |-> high, beginner |-> TRUE, alone |-> TRUE, vibes |-> {"chill"},
     provider_type |-> "cc", incumbent |-> FALSE, schedule |-> schedule]
Decision(decision, by, at, facts) ==
    [decision |-> decision, by |-> by, at |-> at, notes |-> {"#demo-retire"}, facts |-> facts]
Approve(at, facts) == Decision("approve", "reviewer", at, facts)
For(ids, review) == {[id |-> id, review |-> review] : id \in ids}
MCReviews ==
    For({1, 2}, Approve(1, Facts(north, 13, 17, DropIn))) \cup
    For({1}, Approve(2, Facts(north, -1, 17, Weekly))) \cup
    For({3}, Approve(1, Facts(west, 13, 17, OnDay(1)))) \cup
    For({3}, Decision("approve", "bot", 1, Facts(west, 13, 17, DropIn))) \cup
    For({3}, Decision("reject", "reviewer", 1, Facts(west, 13, 17, DropIn))) \cup
    For({9}, Approve(1, Facts(west, 13, 17, DropIn)))

Fixture(id) ==
    [id |-> id, url |-> invented, verified_at |-> NoDay, verified_by |-> Nobody,
     verification |-> "unverified", fictional |-> TRUE, freshness |-> "fresh", last_seen |-> 1,
     total |-> 0, notes |-> {}, facts |-> [Facts(west, 13, 17, OnDay(1)) EXCEPT !.provider_type = "private_unverified"]]
MCQuarantines == {<<Fixture(20)>>, <<Fixture(9)>>, <<Fixture(20), [Fixture(21) EXCEPT !.verification = "verified"]>>}

MCGate == [least |-> 2, most |-> 4, areas |-> 2, thin |-> 1, evenings |-> 2, weekends |-> 1,
           fixtures |-> 1, providers |-> [t \in {"cc"} |-> 2], days |-> 0]

(* The captures start out complete, with the supplement outside the areas.   *)
FullInit == SupplyInit /\ files = [drafts |-> <<Library, Fuller>>, social |-> <<Post, Repost, Over>>, web |-> <<Market>>]
FullSpec == FullInit /\ [][SupplyNext]_vars
=============================================================================
