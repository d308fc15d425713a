----------------------------- MODULE Crosslist -----------------------------
(* Getting an item onto the other marketplaces: the fan-out lane of         *)
(* crosslist.py, the seller's own way back (tools/publish.py), the publish  *)
(* passes both of them queue, and the links pushed back onto the rail       *)
(* listing.  The lane and the tool run on threads of their own; each looks  *)
(* at the rows, makes sure of a browser for seconds on end, and queues.     *)
EXTENDS Naturals, FiniteSets

CONSTANTS Items, Markets,  \* browser marketplaces; the rail is told apart
          Passes,          \* bound on publish passes, numbered as they are queued
          MaxRail          \* bound on listings of an item on the rail

CrosslistAssumption == Passes \in Nat /\ MaxRail \in Nat

VARIABLES
  url,      \* items.listing_urls: the marketplaces recorded for each item
  rail,     \* how often an item went live on the rail; recorded while onRail
  onRail,
  enabled,  \* marketplaces the seller has switched on and that serve them
  sold, paused,
  pass,     \* the publish passes of the fan-out
  lane,     \* the lane between its look at the rows and its next write
  tool,     \* queue_marketplace_publish, likewise
  marker,   \* crosslink_pushes; None for no row
  accepted  \* the set the rail holds for the item

vars == <<url, rail, onRail, enabled, sold, paused, pass, lane, tool, marker, accepted>>

None == {"none"}
Idle == [at |-> "idle", item |-> "none", market |-> "none", links |-> {}]
Unused == [status |-> "none", item |-> "none", market |-> "none", by |-> "none", told |-> "none"]

Init == /\ url = [i \in Items |-> {}] /\ rail = [i \in Items |-> 0] /\ onRail = {}
        /\ enabled = {} /\ sold = {} /\ paused = FALSE
        /\ pass = [p \in 1..Passes |-> Unused] /\ lane = Idle /\ tool = Idle
        /\ marker = [i \in Items |-> None] /\ accepted = [i \in Items |-> {}]

rows == <<url, rail, onRail, enabled, sold, paused>>

\* every pass for an item and a marketplace, by publish_pass_index
Of(i, m) == {p \in 1..Passes : pass[p].item = i /\ pass[p].market = m}
Unsettled == {p \in 1..Passes : pass[p].status \in {"queued", "running"}}
Settled == {p \in 1..Passes : pass[p].status = "settled"}

\* A variant of Pending.
PendingUnsettled == {pair \in Items \X Markets :
  /\ pair[2] \in enabled \ url[pair[1]]
  /\ pair[1] \in onRail \ sold /\ Of(pair[1], pair[2]) \cap Unsettled = {}}

\* pending_pairs
Pending == {pair \in Items \X Markets :
  /\ pair[2] \in enabled \ url[pair[1]]
  /\ pair[1] \in onRail \ sold /\ Of(pair[1], pair[2]) = {}}

\* unreported_crosslist_passes
Unreported == {p \in Settled : pass[p].told = "none"}

\* _queued_for
QueuedFor(i, m) == Of(i, m) \cap Unsettled # {}

\* desired_external_urls
Desired(i) == url[i]

\* enqueue_pass, which checks nothing
Enqueue(i, m, by) ==
  \E p \in 1..Passes :
     /\ pass[p].status = "none" /\ \A q \in 1..(p - 1) : pass[q].status # "none"
     /\ pass' = [pass EXCEPT ![p] = [status |-> "queued", item |-> i, market |-> m, by |-> by,
                                     told |-> "none"]]

----------------------------------------------------------------------------
\* The lane.

\* report_crosslist_pass: flag and notice in one transaction
Tell(p, verdict) == pass' = [pass EXCEPT ![p].told = verdict]

\* A variant of Report.
ReportClean(p) ==
  /\ lane = Idle /\ p \in Unreported /\ Tell(p, "listed")
  /\ UNCHANGED <<rows, lane, tool, marker, accepted>>

\* report_settled: the verdict is read off the item
Report(p) ==
  /\ lane = Idle /\ p \in Unreported
  /\ Tell(p, IF pass[p].market \in url[pass[p].item] THEN "listed" ELSE "failed")
  /\ UNCHANGED <<rows, lane, tool, marker, accepted>>

\* push_crosslinks decides on an item
Link(i) ==
  /\ lane = Idle /\ ~paused /\ i \in onRail \ sold
  /\ marker[i] # Desired(i) /\ ~(marker[i] = None /\ Desired(i) = {})
  /\ lane' = [Idle EXCEPT !.at = "push", !.item = i, !.links = Desired(i)]
  /\ UNCHANGED <<rows, pass, tool, marker, accepted>>

\* A variant of Push.
PushAhead ==
  /\ lane.at = "push" /\ lane' = Idle
  /\ marker' = [marker EXCEPT ![lane.item] = lane.links]
  /\ \/ accepted' = [accepted EXCEPT ![lane.item] = lane.links]
     \/ UNCHANGED accepted
  /\ UNCHANGED <<rows, pass, tool>>

\* rail.update_listing: refused or unreachable leaves the marker for the next
\* tick; accepted, it has its marker next, if the daemon lives
Push ==
  /\ lane.at = "push"
  /\ \/ /\ accepted' = [accepted EXCEPT ![lane.item] = lane.links]
        /\ lane' = [lane EXCEPT !.at = "mark"]
     \/ lane' = Idle /\ UNCHANGED accepted
  /\ UNCHANGED <<rows, pass, tool, marker>>

\* set_crosslink_pushed
Mark ==
  /\ lane.at = "mark" /\ lane' = Idle
  /\ marker' = [marker EXCEPT ![lane.item] = lane.links]
  /\ UNCHANGED <<rows, pass, tool, accepted>>

\* enqueue_next looks at the rows; quiet hours may hold it
Look(i, m) ==
  /\ lane = Idle /\ ~paused /\ Unsettled = {} /\ <<i, m>> \in Pending
  /\ lane' = [Idle EXCEPT !.at = "queue", !.item = i, !.market = m]
  /\ UNCHANGED <<rows, pass, tool, marker, accepted>>

\* the browser is there and the publish is queued, or it is not
Queue ==
  /\ lane.at = "queue" /\ lane' = Idle
  /\ Enqueue(lane.item, lane.market, "lane") \/ UNCHANGED pass
  /\ UNCHANGED <<rows, tool, marker, accepted>>

----------------------------------------------------------------------------
\* The seller's way back.

\* queue_marketplace_publish, up to the browser
Ask(i, m) ==
  /\ tool = Idle /\ ~paused /\ m \in enabled \ url[i] /\ i \in onRail \ sold
  /\ ~QueuedFor(i, m)
  /\ tool' = [Idle EXCEPT !.at = "queue", !.item = i, !.market = m]
  /\ UNCHANGED <<rows, pass, lane, marker, accepted>>

AskQueue ==
  /\ tool.at = "queue" /\ tool' = Idle
  /\ Enqueue(tool.item, tool.market, "seller") \/ UNCHANGED pass
  /\ UNCHANGED <<rows, lane, marker, accepted>>

----------------------------------------------------------------------------
\* Passes run one at a time, and what they write.

Run(p) ==
  /\ pass[p].status = "queued" /\ \A q \in 1..Passes : pass[q].status # "running"
  /\ pass' = [pass EXCEPT ![p].status = "running"]
  /\ UNCHANGED <<rows, lane, tool, marker, accepted>>

\* record_published_listing_url
RecordUrl(p) ==
  /\ pass[p].status = "running"
  /\ url' = [url EXCEPT ![pass[p].item] = @ \cup {pass[p].market}]
  /\ UNCHANGED <<rail, onRail, enabled, sold, paused, pass, lane, tool, marker, accepted>>

\* the pass ends, whatever it says of itself, or is given up on
Settle(p) ==
  /\ p \in Unsettled
  /\ pass' = [pass EXCEPT ![p].status = "settled"]
  /\ UNCHANGED <<rows, lane, tool, marker, accepted>>

\* carousell_ai_publish_listing and the take-down of a listing there
PublishRail(i) ==
  /\ i \notin onRail /\ ~paused /\ rail[i] < MaxRail
  /\ onRail' = onRail \cup {i} /\ rail' = [rail EXCEPT ![i] = @ + 1]
  /\ UNCHANGED <<url, enabled, sold, paused, pass, lane, tool, marker, accepted>>

TakeDown(i) ==
  /\ onRail' = onRail \ {i}
  /\ UNCHANGED <<url, rail, enabled, sold, paused, pass, lane, tool, marker, accepted>>

Seller ==
  /\ \/ \E m \in Markets : enabled' = (enabled \ {m}) \cup ({m} \ enabled) /\ UNCHANGED <<sold, paused>>
     \/ \E i \in Items : sold' = sold \cup {i} /\ UNCHANGED <<enabled, paused>>
     \/ paused' = ~paused /\ UNCHANGED <<enabled, sold>>
  /\ UNCHANGED <<url, rail, onRail, pass, lane, tool, marker, accepted>>

\* the daemon goes down; the rows and the passes stay
Crash == lane' = Idle /\ tool' = Idle /\ UNCHANGED <<rows, pass, marker, accepted>>

Next == \/ Push \/ Mark \/ Queue \/ AskQueue \/ Seller \/ Crash
        \/ \E i \in Items : \/ Link(i) \/ PublishRail(i) \/ TakeDown(i)
                            \/ \E m \in Markets : Look(i, m) \/ Ask(i, m)
        \/ \E p \in 1..Passes : Report(p) \/ Run(p) \/ RecordUrl(p) \/ Settle(p)

Spec == Init /\ [][Next]_vars

----------------------------------------------------------------------------
TypeOK ==
  /\ url \in [Items -> SUBSET Markets] /\ rail \in [Items -> 0..MaxRail]
  /\ onRail \subseteq Items /\ enabled \subseteq Markets /\ sold \subseteq Items
  /\ \A p \in 1..Passes : /\ pass[p].status \in {"none", "queued", "running", "settled"}
                          /\ pass[p].by \in {"none", "lane", "seller"}
                          /\ pass[p].told \in {"none", "listed", "failed"}
  /\ lane.at \in {"idle", "push", "mark", "queue"} /\ tool.at \in {"idle", "queue"}
  /\ accepted \in [Items -> SUBSET Markets]

(* One automatic attempt for an item and a marketplace, over crashes, sales,  *)
(* switches and whatever the seller asks for in between: "a settled attempt   *)
(* is never repeated automatically" (crosslist.py).                           *)
OneShot ==
  \A i \in Items, m \in Markets : Cardinality({p \in Of(i, m) : pass[p].by = "lane"}) <= 1

(* The seller is told that a listing is up only where its address is on the   *)
(* item, and a pass that crashed or ended well without recording one is told  *)
(* as a failure.                                                              *)
ToldAsRecorded == \A p \in Settled : pass[p].told = "listed" => pass[p].market \in url[pass[p].item]

(* Of a step.  A push that the rail refused is tried again: between two pushes the marker *)
(* never claims a set that the rail has not accepted, except that a crash may *)
(* leave it behind what the rail holds.                                       *)
MarkerIsAccepted ==
  \A i \in Items : marker'[i] # marker[i] => marker'[i] = accepted'[i]

\* What every step keeps.  The lane is about to queue for a pair only when it
\* never has; what was told is on the item; a push that is to be marked is what
\* the rail holds.
QueuedOnce ==
  /\ \A p, q \in 1..Passes : /\ pass[p].by = "lane" /\ pass[q].by = "lane"
                             /\ pass[p].item = pass[q].item /\ pass[p].market = pass[q].market
                             => p = q
  /\ lane.at = "queue" => /\ lane.item \in Items /\ lane.market \in Markets
                          /\ \A p \in Of(lane.item, lane.market) : pass[p].by # "lane"
ListedIsRecorded == \A p \in 1..Passes : pass[p].told = "listed" => pass[p].market \in url[pass[p].item]
MarkIsAccepted == /\ lane.at \in {"push", "mark"} => lane.item \in Items
                  /\ lane.at = "mark" => accepted[lane.item] = lane.links
Attempt == [status : {"none", "queued", "running", "settled"}, item : Items \cup {"none"},
            market : Markets \cup {"none"}, by : {"none", "lane", "seller"},
            told : {"none", "listed", "failed"}]
Errand == [at : {"idle", "push", "mark", "queue"}, item : Items \cup {"none"},
           market : Markets \cup {"none"}, links : SUBSET Markets]
IInv == /\ url \in [Items -> SUBSET Markets] /\ accepted \in [Items -> SUBSET Markets]
        /\ DOMAIN marker = Items
        /\ pass \in [1..Passes -> Attempt] /\ lane \in Errand /\ tool \in Errand
        /\ \A p \in 1..Passes : pass[p].status # "none" \/ pass[p].told # "none"
                                => pass[p].item \in Items /\ pass[p].market \in Markets
        /\ tool.at = "queue" => tool.item \in Items /\ tool.market \in Markets
        /\ QueuedOnce /\ ListedIsRecorded /\ MarkIsAccepted
=============================================================================
