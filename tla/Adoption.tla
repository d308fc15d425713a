------------------------------ MODULE Adoption ------------------------------
(* The listings a seller already had on a marketplace: the survey that finds *)
(* them and the seller's answer, the items they become, and the        *)
(* carousell.ai publish an item is owed (browser/survey.py, browser/adopt.py *)
(* and store/survey.py).  One marketplace.  The survey lane reads pages for  *)
(* seconds on end; the seller's buttons and tools run on threads of their    *)
(* own, and the daemon may go down between any two transactions.             *)
EXTENDS Naturals, FiniteSets

CONSTANTS Listings,
          SurveyMax,   \* SURVEY_MAX_ATTEMPTS
          AdoptMax,    \* ADOPT_MAX_ATTEMPTS
          RailMax,     \* RAIL_MAX_ATTEMPTS
          MaxReopened, MaxCrashes, MaxRearmed   \* bounds on what may happen again and again

AdoptionAssumption == {SurveyMax, AdoptMax, RailMax} \subseteq Nat \ {0}

VARIABLES
  survey,    \* market_surveys
  row,       \* discovered_listings; status "none" for no row
  live,      \* listings for sale on the seller's page
  pictured,  \* listings whose photographs can be fetched
  items,     \* how many items record the address of the listing
  created,   \* listings the lane has made an item for
  onRail,    \* listings whose item has an address on carousell.ai
  slot,      \* the one publish pass that is queued or running, and for which listing
  lane,      \* where the survey lane is
  tap,       \* a button that found nothing to move and is about to ask for a fresh look
  reopened, tried, lost, rearmed   \* counts, for the bounds and the properties

vars == <<survey, row, live, pictured, items, created, onRail, slot, lane, tap, reopened, tried, lost, rearmed>>
counts == <<reopened, tried, lost, rearmed>>

NoRow == [status |-> "none", manage |-> "none", attempts |-> 0, rail |-> "none", tries |-> 0]
Idle == [at |-> "idle", listing |-> "none", relist |-> FALSE, seen |-> {}]

Init == /\ survey = [state |-> "none", attempts |-> 0]
        /\ row = [l \in Listings |-> NoRow] /\ live \in SUBSET Listings /\ pictured \in SUBSET Listings
        /\ items = [l \in Listings |-> 0] /\ created = {} /\ onRail = {}
        /\ slot = "free" /\ lane = Idle /\ tap = FALSE
        /\ reopened = 0 /\ lost = 0 /\ rearmed = 0 /\ tried = [l \in Listings |-> 0]

Being(status) == {l \in Listings : row[l].status = status}
Goto(at) == lane' = [Idle EXCEPT !.at = at]
Lane == UNCHANGED <<live, pictured, onRail, tap, reopened, lost, rearmed>>   \* what only others change

-----------------------------------------------------------------------------
(* The survey.                                                              *)

\* request_market_survey, from the connect lane and from every clean inbox read
Request ==
  /\ survey.state = "none" /\ survey' = [state |-> "due", attempts |-> 0]
  /\ UNCHANGED <<row, live, pictured, items, created, onRail, slot, lane, tap, counts>>

\* survey_lane: a tick retires the asks that went stale, and leaves the browser to a pass
Tick ==
  /\ lane = Idle
  /\ \E stale \in {{}, Being("pending")}, pass \in BOOLEAN :
        /\ row' = [l \in Listings |-> IF l \in stale THEN [row[l] EXCEPT !.status = "expired"] ELSE row[l]]
        /\ Goto(IF pass THEN "idle" ELSE IF survey.state = "due" THEN "look" ELSE "adopt")
  /\ UNCHANGED <<survey, items, created, slot, tried>> /\ Lane

\* _survey reads the page; signed out, unreadable or truncated it is counted; a browser
\* that is gone costs nothing; a site nobody can survey is given up on
Look ==
  /\ lane.at = "look"
  /\ \/ lane' = [Idle EXCEPT !.at = "record", !.seen = live] /\ UNCHANGED survey
     \/ Goto("adopt") /\ UNCHANGED survey
     \/ Goto("adopt") /\ survey' = [survey EXCEPT !.state = "abandoned"]
     \/ /\ Goto(IF survey.attempts + 1 >= SurveyMax THEN "abandon" ELSE "adopt")
        /\ survey' = [survey EXCEPT !.attempts = @ + 1]
  /\ UNCHANGED <<row, items, created, slot, tried>> /\ Lane

\* abandon_market_survey, in a transaction of its own
Abandon ==
  /\ lane.at = "abandon" /\ Goto("adopt") /\ survey' = [survey EXCEPT !.state = "abandoned"]
  /\ UNCHANGED <<row, items, created, slot, tried>> /\ Lane

Fresh(seen) == {l \in seen : row[l].status = "none" /\ items[l] = 0}   \* _not_already_ours

\* record_survey_result: the rows, the end of the survey and the ask together
Record ==
  /\ lane.at = "record" /\ Goto("adopt")
  /\ row' = [l \in Listings |-> IF l \in Fresh(lane.seen) THEN [NoRow EXCEPT !.status = "pending"] ELSE row[l]]
  /\ survey' = [survey EXCEPT !.state = "done"]
  /\ UNCHANGED <<items, created, slot, tried>> /\ Lane

-----------------------------------------------------------------------------
(* What the seller says.                                                    *)

\* decide_discovered_listings by the tool or a button: a yes reaches what is pending, a
\* no what is not adopted yet
Decide(S, manage) ==
  LET reached == IF manage = "none" THEN Being("pending") \cup Being("accepted") ELSE Being("pending")
      status == IF manage = "none" THEN "declined" ELSE "accepted"
  IN  /\ S \cap reached # {} /\ ~tap
      /\ row' = [l \in Listings |-> IF l \in S \cap reached
                                      THEN [row[l] EXCEPT !.status = status, !.manage = manage] ELSE row[l]]
      /\ UNCHANGED <<survey, live, pictured, items, created, onRail, slot, lane, tap, counts>>

\* _retry_rail_publish
Retry(S) ==
  LET failed == {l \in S \cap Being("adopted") : row[l].rail = "failed"}
  IN  /\ failed # {} /\ rearmed < MaxRearmed /\ rearmed' = rearmed + 1
      /\ row' = [l \in Listings |-> IF l \in failed THEN [row[l] EXCEPT !.rail = "owed", !.tries = 0] ELSE row[l]]
      /\ tried' = [l \in Listings |-> IF l \in failed THEN 0 ELSE tried[l]]
      /\ UNCHANGED <<survey, live, pictured, items, created, onRail, slot, lane, tap, reopened, lost>>

\* a yes on an old button: nothing pending, nothing accepted, nothing adopted
StaleTap ==
  /\ ~tap /\ reopened < MaxReopened
  /\ Being("pending") \cup Being("accepted") \cup Being("adopted") = {} /\ tap' = TRUE
  /\ UNCHANGED <<survey, row, live, pictured, items, created, onRail, slot, lane, counts>>

\* reopen_market_survey
Reopen ==
  /\ tap /\ tap' = FALSE /\ reopened' = reopened + 1
  /\ survey' = [state |-> "due", attempts |-> 0]
  /\ row' = [l \in Listings |-> IF row[l].status = "adopted" THEN row[l] ELSE NoRow]
  /\ UNCHANGED <<live, pictured, items, created, onRail, slot, lane, tried, lost, rearmed>>

-----------------------------------------------------------------------------
(* A yes becomes an item.                                                   *)

Untried == {l \in Being("accepted") : \A k \in Being("accepted") : row[l].attempts <= row[k].attempts}
For(at, l) == [at |-> at, listing |-> l, relist |-> row[l].manage = "relist", seen |-> {}]

\* adopt_phase and the head of _adopt_one
Pick ==
  /\ lane.at = "adopt"
  /\ IF Untried = {} THEN Goto("settle")
     ELSE \E l \in Untried : lane' = For(IF row[l].attempts >= AdoptMax \/ items[l] > 1 THEN "fail"
                                       ELSE IF items[l] = 1 THEN "link" ELSE "read", l)
  /\ UNCHANGED <<survey, row, items, created, slot, tried>> /\ Lane

\* _retry_or_fail: counted, and failed once it has had its share
RetryOrFail(l) ==
  /\ row' = [row EXCEPT ![l].attempts = IF row[l] = NoRow THEN 0 ELSE @ + 1]
  /\ lane' = IF row'[l].attempts >= AdoptMax THEN [lane EXCEPT !.at = "fail"]
                                             ELSE [Idle EXCEPT !.at = "settle"]

\* the listing's page: gone, without a price, not readable, or for sale
Read ==
  /\ lane.at = "read"
  /\ LET l == lane.listing
     IN  \/ Goto("settle") /\ UNCHANGED row                        \* no browser: no attempt spent
         \/ RetryOrFail(l)
         \/ lane' = [lane EXCEPT !.at = "fail"] /\ UNCHANGED row
         \/ l \in live /\ lane' = [lane EXCEPT !.at = "create"] /\ UNCHANGED row
  /\ UNCHANGED <<survey, items, created, slot, tried>> /\ Lane

\* fail_discovered_listing writes whatever the row says by now
Fail ==
  /\ lane.at = "fail" /\ Goto("settle")
  /\ row' = [l \in Listings |-> IF l = lane.listing /\ row[l] # NoRow
                                  THEN [row[l] EXCEPT !.status = "failed"] ELSE row[l]]
  /\ UNCHANGED <<survey, items, created, slot, tried>> /\ Lane

Adopted(l, owed) ==
  row' = [row EXCEPT ![l].status = "adopted", ![l].rail = IF owed THEN "owed" ELSE "none"]

\* A variant of Create.
CreateBlind ==
  /\ lane.at = "create" /\ Goto("settle")
  /\ items' = [items EXCEPT ![lane.listing] = @ + 1] /\ created' = created \cup {lane.listing}
  /\ IF row[lane.listing].status = "accepted"
       THEN Adopted(lane.listing, lane.relist /\ lane.listing \in pictured) ELSE UNCHANGED row
  /\ UNCHANGED <<survey, slot, tried>> /\ Lane

\* adopt_discovered_listing: the item with its address and the row in one transaction,
\* or ListingGone; without photographs nothing is owed
Create ==
  /\ lane.at = "create" /\ Goto("settle")
  /\ IF row[lane.listing].status = "accepted"
       THEN /\ items' = [items EXCEPT ![lane.listing] = @ + 1]
            /\ created' = created \cup {lane.listing}
            /\ Adopted(lane.listing, lane.relist /\ lane.listing \in pictured)
       ELSE UNCHANGED <<row, items, created>>
  /\ UNCHANGED <<survey, slot, tried>> /\ Lane

\* A variant of Link.
LinkOwesNothing ==
  /\ lane.at = "link" /\ Goto("settle")
  /\ IF row[lane.listing].status = "accepted" THEN Adopted(lane.listing, FALSE) ELSE UNCHANGED row
  /\ UNCHANGED <<survey, items, created, slot, tried>> /\ Lane

\* the same with the item that records the listing already
Link ==
  /\ lane.at = "link" /\ Goto("settle")
  /\ IF row[lane.listing].status = "accepted"
       THEN Adopted(lane.listing, lane.relist /\ lane.listing \notin onRail) ELSE UNCHANGED row
  /\ UNCHANGED <<survey, items, created, slot, tried>> /\ Lane

-----------------------------------------------------------------------------
(* The publish on carousell.ai that is owed.                                *)

\* A variant of Settled.
SettledUncounted(l) == IF l \in onRail THEN "done" ELSE "owed"

\* where a publish that is over leaves its row: by the address on the item, not by its exit
Settled(l) == IF l \in onRail THEN "done" ELSE IF row[l].tries < RailMax THEN "owed" ELSE "failed"

\* _settle_queued, and then quiet hours or the cap may hold the rest
Settle ==
  /\ lane.at = "settle" /\ (Goto("owed") \/ Goto("idle"))
  /\ row' = [l \in Listings |-> IF row[l].rail = "queued" /\ slot # l
                                  THEN [row[l] EXCEPT !.rail = Settled(l)] ELSE row[l]]
  /\ UNCHANGED <<survey, items, created, slot, tried>> /\ Lane

\* _enqueue_owed: at most one, when no publish is under way
Enqueue ==
  /\ lane.at = "owed"
  /\ LET owed == {l \in Listings : row[l].rail = "owed"}
     IN  \/ (owed = {} \/ slot # "free") /\ Goto("idle") /\ UNCHANGED <<row, slot, tried>>
         \/ \E l \in owed : /\ slot = "free"
                            /\ IF l \in onRail
                                 THEN /\ row' = [row EXCEPT ![l].rail = "done"] /\ Goto("idle")
                                      /\ UNCHANGED <<slot, tried>>
                                 ELSE /\ slot' = l /\ lane' = For("queued", l)
                                      /\ tried' = [tried EXCEPT ![l] = @ + 1] /\ UNCHANGED row
  /\ UNCHANGED <<survey, items, created>> /\ Lane

\* set_rail_publish_queued, in a transaction of its own
Queued ==
  /\ lane.at = "queued" /\ Goto("idle")
  /\ row' = [row EXCEPT ![lane.listing].rail = "queued", ![lane.listing].tries = @ + 1]
  /\ UNCHANGED <<survey, items, created, slot, tried>> /\ Lane

-----------------------------------------------------------------------------
(* The passes, the seller's own doings and the daemon.                      *)

\* a publish that is not the lane's: the one slot is taken
OtherPublish ==
  /\ slot = "free" /\ slot' = "other"
  /\ UNCHANGED <<survey, row, live, pictured, items, created, onRail, lane, tap, counts>>

\* carousell_ai_publish_listing records the address on the item
RailLive(l) ==
  /\ slot \in {l, "other"} /\ items[l] > 0 /\ onRail' = onRail \cup {l}
  /\ UNCHANGED <<survey, row, live, pictured, items, created, slot, lane, tap, counts>>

\* it ends, or is given up on, with or without an address
PassEnds ==
  /\ slot # "free" /\ slot' = "free"
  /\ UNCHANGED <<survey, row, live, pictured, items, created, onRail, lane, tap, counts>>

\* record_published_listing_url by a tool: an item of the agent's own has the address
OwnItem(l) ==
  /\ items[l] = 0 /\ items' = [items EXCEPT ![l] = 1]
  /\ UNCHANGED <<survey, row, live, pictured, created, onRail, slot, lane, tap, counts>>

\* the seller puts something up on the marketplace, or it is sold there
Market(l) ==
  /\ live' = (live \ {l}) \cup ({l} \ live)
  /\ UNCHANGED <<survey, row, pictured, items, created, onRail, slot, lane, tap, counts>>

Crash ==
  /\ lane # Idle \/ tap
  /\ lost < MaxCrashes /\ lost' = lost + 1 /\ lane' = Idle /\ tap' = FALSE
  /\ UNCHANGED <<survey, row, live, pictured, items, created, onRail, slot, reopened, tried, rearmed>>

Next == \/ Request \/ Tick \/ Look \/ Abandon \/ Record \/ StaleTap \/ Reopen \/ Pick \/ Read \/ Fail
        \/ Create \/ Link \/ Settle \/ Enqueue \/ Queued \/ OtherPublish \/ PassEnds \/ Crash
        \/ \E l \in Listings : RailLive(l) \/ OwnItem(l) \/ Market(l)
        \/ \E S \in SUBSET Listings : Retry(S) \/ \E m \in {"none", "inbox", "relist"} : Decide(S, m)

Spec == Init /\ [][Next]_vars

-----------------------------------------------------------------------------
TypeOK ==
  /\ survey \in [state : {"none", "due", "done", "abandoned"}, attempts : 0..(SurveyMax + MaxCrashes)]
  /\ row \in [Listings -> [status : {"none", "pending", "accepted", "declined", "expired", "adopted", "failed"},
                           manage : {"none", "inbox", "relist"}, attempts : 0..(AdoptMax + MaxCrashes),
                           rail : {"none", "owed", "queued", "done", "failed"}, tries : 0..RailMax]]
  /\ created \subseteq Listings /\ onRail \subseteq Listings /\ items \in [Listings -> 0..2]
  /\ slot \in Listings \cup {"free", "other"} /\ tap \in BOOLEAN

(* An item that was made from a listing has its row behind it, and a row that *)
(* says adopted an item, whatever the seller said while the page was read:    *)
(* "an item with no row behind it could never be published".                  *)
ItemHasRow ==
  /\ \A l \in created : row[l].status = "adopted"
  /\ \A l \in Being("adopted") : items[l] > 0

(* An adopted listing the seller wants on carousell.ai is there, is still     *)
(* owed, is on its way or was given up on out loud; the one exception is an   *)
(* item without photographs.  In particular "done" is never a claim only.     *)
OwedIsRemembered ==
  \A l \in Being("adopted") :
     /\ row[l].rail = "done" => l \in onRail
     /\ row[l].rail = "none" => row[l].manage # "relist" \/ l \in onRail \/ l \in created \ pictured
     /\ row[l].rail = "queued" => row[l].tries > 0

(* The publish is tried RAIL_MAX_ATTEMPTS times until the seller asks for     *)
(* more, and once more for a crash between the pass and its row: "a publish   *)
(* is minutes of work and a real token bill".                                 *)
RailTriesBounded == \A l \in Listings : tried[l] <= RailMax + lost

\* What every step keeps.  While the lane works on a listing only the seller
\* writes its row, who can only take the yes back: it is not adopted, and if
\* it is still accepted then as it was when picked.  Only an adopted listing is
\* owed anything; what is owed has tries left; and each try that was made is in
\* the row, is the one the lane is about to record, or was lost in a crash.
Working == lane.at \in {"read", "create", "link", "fail"}
LaneKeepsRow ==
  /\ Working => /\ lane.listing \in Listings /\ row[lane.listing].status \notin {"pending", "adopted"}
                /\ row[lane.listing].status = "accepted" =>
                     lane.relist = (row[lane.listing].manage = "relist")
  /\ lane.at = "link" => items[lane.listing] > 0
  /\ lane.at = "queued" => lane.listing \in Listings /\ row[lane.listing].rail = "owed"
OwedHasTries ==
  \A l \in Listings : /\ row[l].rail # "none" => row[l].status = "adopted"
                      /\ row[l].rail = "none" => row[l].tries = 0
                      /\ row[l].rail = "owed" => row[l].tries < RailMax
TryUnderWay(l) == IF lane.at = "queued" /\ lane.listing = l THEN 1 ELSE 0
TriesAreCounted == \A l \in Listings : tried[l] <= row[l].tries + TryUnderWay(l) + lost
Entry == [status : {"none", "pending", "accepted", "declined", "expired", "adopted", "failed"},
          manage : {"none", "inbox", "relist"}, attempts : Nat,
          rail : {"none", "owed", "queued", "done", "failed"}, tries : 0..RailMax]
Place == [at : {"idle", "look", "abandon", "record", "adopt", "read", "create", "link", "fail",
                "settle", "owed", "queued"},
          listing : Listings \cup {"none"}, relist : BOOLEAN, seen : SUBSET Listings]
IInv == /\ row \in [Listings -> Entry] /\ lane \in Place /\ live \subseteq Listings
        /\ items \in [Listings -> Nat] /\ tried \in [Listings -> Nat] /\ lost \in Nat
        /\ created \subseteq Listings
        /\ LaneKeepsRow /\ OwedHasTries /\ TriesAreCounted /\ ItemHasRow /\ OwedIsRemembered
=============================================================================
