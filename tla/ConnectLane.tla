---------------------------- MODULE ConnectLane ----------------------------
(* Signing in to a browser marketplace (browser/connect.py): the seller's   *)
(* tap writes a request row, the connect lane serves the rows, and the      *)
(* control route of `sellee connect` drives the same shared tab through the *)
(* same open_and_probe.                                                     *)
EXTENDS Naturals, FiniteSets

CONSTANTS Markets, Supported,  \* market ids; those with an adapter
          MaxTaps,             \* bound on taps
          MaxCrashes

ConnectLaneAssumption ==
  Supported \subseteq Markets /\ IsFiniteSet(Markets) /\ MaxTaps \in Nat /\ MaxCrashes \in Nat

VARIABLES
  req,       \* market_connect_requests: the row of each market, or NoRow
  todo,      \* the rows of the lane's look, not yet served
  drv,       \* the lane and the route: where each is, and with what
  excl,      \* the driver in client.exclusive(), or "none"
  tab,       \* the page in the shared tab: a market, or "other"
  busy,      \* a browser pass is queued or running
  taps, told, \* taps of the seller, and the lane's notices, by market
  owed,      \* whether a market is owed a notice: no, yes, or "lost" with what was to send it
  crashes

vars == <<req, todo, drv, excl, tab, busy, taps, told, owed, crashes>>

Drivers == {"lane", "route"}
NoRow == [mode |-> "none", old |-> FALSE]
Idle == [at |-> "idle", m |-> "none", mode |-> "none",
         page |-> "none", state |-> "none",
         moved |-> FALSE]   \* the tab was lost to the seller since this driver's navigate
world == <<busy, taps, crashes>>

Init == /\ req = [m \in Markets |-> NoRow] /\ todo = {} /\ drv = [d \in Drivers |-> Idle]
        /\ excl = "none" /\ tab = "other" /\ busy = FALSE
        /\ taps = [m \in Markets |-> 0] /\ told = [m \in Markets |-> 0]
        /\ owed = [m \in Markets |-> "no"] /\ crashes = 0

Goto(d, at) == drv' = [drv EXCEPT ![d].at = at]
Answer(d, state) == drv' = [drv EXCEPT ![d].at = "answer", ![d].state = state]
------------------------------------------------------------------------------
(* The seller.                                                                *)

Tapped == {p \in Markets \X (1..MaxTaps) : p[2] <= taps[p[1]]}   \* as many as there were taps

\* request_market_connect: one row a market, the newest tap's mode and time.
Tap(m, mode) == /\ Cardinality(Tapped) < MaxTaps /\ taps' = [taps EXCEPT ![m] = @ + 1]
                /\ req' = [req EXCEPT ![m] = [mode |-> mode, old |-> FALSE]]
                /\ owed' = [owed EXCEPT ![m] = "yes"]
                /\ UNCHANGED <<todo, drv, excl, tab, busy, told, crashes>>

\* STALE_REQUEST_SEC goes by.
Age(m) == /\ req[m] # NoRow /\ ~req[m].old /\ req' = [req EXCEPT ![m].old = TRUE]
          /\ UNCHANGED <<todo, drv, excl, tab, world, told, owed>>

\* Passes come and go; the other lanes put other pages in the tab, which they
\* hold one call at a time.
World == /\ \/ busy' = ~busy /\ UNCHANGED tab
            \/ excl = "none" /\ tab' = "other" /\ UNCHANGED busy
         /\ UNCHANGED <<req, todo, drv, excl, taps, told, owed, crashes>>

\* exclusive() binds our own threads: a tab of ours that the seller closes, or a
\* server that is started anew, hands our calls to whatever tab is current then.
holding == {"front", "again", "probe"}
TabIsLost == /\ excl # "none" /\ tab' = "other"
             /\ drv' = [d \in Drivers |-> [drv[d] EXCEPT !.moved = @ \/ drv[d].at \in holding]]
             /\ UNCHANGED <<req, todo, excl, world, told, owed>>
------------------------------------------------------------------------------
(* The lane, one row at a time.                                               *)

\* connect_lane: pending_market_connects, once a tick
Look == /\ drv["lane"] = Idle /\ todo = {}
        /\ todo' = {[m |-> m, row |-> req[m]] : m \in {n \in Markets : req[n] # NoRow}}
        /\ UNCHANGED <<req, drv, excl, tab, world, told, owed>>

\* Without an adapter the row is answered; while a pass has the tab it waits,
\* or is dropped when it has waited too long; else it is served.
Take(r) == /\ drv["lane"] = Idle /\ r \in todo /\ todo' = todo \ {r}
           /\ LET put(at, state) == drv' = [drv EXCEPT !["lane"] =
                    [Idle EXCEPT !.at = at, !.m = r.m, !.mode = r.row.mode,
                                 !.state = state]]
              IN IF r.m \notin Supported THEN put("answer", "cannot")
                 ELSE IF ~busy THEN put("navigate", "none")
                 ELSE IF r.row.old THEN put("answer", "cannot") ELSE UNCHANGED drv
           /\ UNCHANGED <<req, excl, tab, world, told, owed>>

\* _serve: the row goes first ...
Clear == /\ drv["lane"].at = "answer"
         /\ req' = [req EXCEPT ![drv["lane"].m] = NoRow]
         /\ drv' = [drv EXCEPT !["lane"] = [Idle EXCEPT !.m = drv["lane"].m,
              !.at = IF drv["lane"].state = "logged_in" THEN "survey" ELSE "tell"]]
         /\ UNCHANGED <<todo, excl, tab, world, told, owed>>

\* ... then the survey, asked for once ...
Survey == /\ drv["lane"].at = "survey" /\ Goto("lane", "tell")
          /\ UNCHANGED <<req, todo, excl, tab, world, told, owed>>

\* ... then the one notice.  A tap that came after the row went has its own.
Tell == /\ drv["lane"].at = "tell" /\ drv' = [drv EXCEPT !["lane"] = Idle]
        /\ told' = [told EXCEPT ![drv["lane"].m] = @ + 1]
        /\ owed' = [owed EXCEPT ![drv["lane"].m] = IF req[drv["lane"].m] = NoRow THEN "no" ELSE @]
        /\ UNCHANGED <<req, todo, excl, tab, world>>
------------------------------------------------------------------------------
(* The route: connect-market opens, market-login only probes.                 *)

Call(m, mode) == /\ drv["route"] = Idle /\ ~busy
                 /\ drv' = [drv EXCEPT !["route"] = [Idle EXCEPT !.at = "navigate", !.m = m,
                                                                 !.mode = mode]]
                 /\ UNCHANGED <<req, todo, excl, tab, world, told, owed>>

Respond == /\ drv["route"].at = "answer" /\ drv' = [drv EXCEPT !["route"] = Idle]
           /\ UNCHANGED <<req, todo, excl, tab, world, told, owed>>
------------------------------------------------------------------------------
(* open_and_probe, in client.exclusive() from the navigate to the probe.      *)

\* A variant of Navigate.
NavigateShared(d) == /\ drv[d].at = "navigate"
                     /\ excl' = excl /\ tab' = drv[d].m
                     /\ drv' = [drv EXCEPT ![d] = [Idle EXCEPT !.m = drv[d].m,
                          !.at = IF drv[d].mode = "open" THEN "front" ELSE "probe"]]
                     /\ UNCHANGED <<req, todo, world, told, owed>>

Navigate(d) == /\ drv[d].at = "navigate" /\ excl = "none"
               /\ excl' = d /\ tab' = drv[d].m
               /\ drv' = [drv EXCEPT ![d] = [Idle EXCEPT !.m = drv[d].m,
                    !.at = IF drv[d].mode = "open" THEN "front" ELSE "probe"]]
               /\ UNCHANGED <<req, todo, world, told, owed>>

\* A variant of Front.
FrontOnce(d) == /\ drv[d].at = "front" /\ Goto(d, "probe") /\ tab' \in {drv[d].m, "other"}
                /\ UNCHANGED <<req, todo, excl, world, told, owed>>

\* ensure_frontmost selects a tab before it knows which one it got: a failure
\* may leave a page of the seller's, and the market is opened again.
Front(d) == /\ drv[d].at = "front"
            /\ \/ Goto(d, "probe") /\ UNCHANGED tab
               \/ Goto(d, "again") /\ tab' \in {drv[d].m, "other"}
            /\ UNCHANGED <<req, todo, excl, world, told, owed>>

\* The handle was given up: a tab of ours is opened for the second navigate.
Again(d) == /\ drv[d].at = "again" /\ tab' = drv[d].m
            /\ drv' = [drv EXCEPT ![d].at = "probe", ![d].moved = FALSE]
            /\ UNCHANGED <<req, todo, excl, world, told, owed>>

\* The login probe reads whatever page is there, on which the seller may have
\* signed in or out by now, and may not be able to tell.
Probe(d) == /\ drv[d].at = "probe"
            /\ \E s \in {"unknown", "logged_in", "logged_out"} :
                 drv' = [drv EXCEPT ![d].at = "answer", ![d].state = s, ![d].page = tab]
            /\ excl' = "none"
            /\ UNCHANGED <<req, todo, tab, world, told, owed>>

driving == {"navigate", "front", "again", "probe"}
Leave(d) == excl' = IF excl = d THEN "none" ELSE excl
Telling(m) == drv["lane"].at \in {"survey", "tell"} /\ drv["lane"].m = m
\* What is owed when the lane stops where it is.
Dropped == [m \in Markets |-> IF Telling(m) /\ req[m] = NoRow THEN "lost" ELSE owed[m]]

\* A variant of Detached.
DetachedTells(d) == /\ drv[d].at \in driving /\ Leave(d)
                    /\ drv' = [drv EXCEPT ![d] = Idle]
                    /\ IF d = "lane" THEN told' = [told EXCEPT ![drv[d].m] = @ + 1]
                       ELSE UNCHANGED told
                    /\ UNCHANGED <<req, todo, tab, world, owed>>

\* A variant of Detached.
DetachedClears(d) == /\ drv[d].at \in driving /\ Leave(d)
                     /\ drv' = [drv EXCEPT ![d] = Idle]
                     /\ req' = IF d = "lane" THEN [req EXCEPT ![drv[d].m] = NoRow] ELSE req
                     /\ UNCHANGED <<todo, tab, world, told, owed>>

\* BrowserDetached: no answer; the lane leaves the row for another tick.
Detached(d) == /\ drv[d].at \in driving /\ Leave(d)
               /\ drv' = [drv EXCEPT ![d] = Idle]
               /\ UNCHANGED <<req, todo, tab, world, told, owed>>

\* Any other failure is an answer, and the seller is told.
Down(d) == /\ drv[d].at \in driving /\ Leave(d) /\ Answer(d, "cannot")
           /\ UNCHANGED <<req, todo, tab, world, told, owed>>

\* Anything else that raises, a write of the lane's own among it, ends the tick.
LaneFails == /\ drv["lane"] # Idle /\ Leave("lane") /\ owed' = Dropped
             /\ drv' = [drv EXCEPT !["lane"] = Idle] /\ todo' = {}
             /\ UNCHANGED <<req, tab, world, told>>

Crash == /\ crashes < MaxCrashes /\ crashes' = crashes + 1 /\ owed' = Dropped
         /\ drv' = [d \in Drivers |-> Idle] /\ todo' = {} /\ excl' = "none" /\ tab' = "other"
         /\ UNCHANGED <<req, busy, taps, told>>
------------------------------------------------------------------------------

Next == \/ \E m \in Markets : Age(m) \/ \E mode \in {"open", "probe"} : Tap(m, mode)
        \/ \E m \in Supported, mode \in {"open", "probe"} : Call(m, mode)
        \/ \E r \in todo : Take(r)
        \/ Look \/ Clear \/ Survey \/ Tell \/ Respond \/ World \/ TabIsLost \/ LaneFails \/ Crash
        \/ \E d \in Drivers : \/ Navigate(d) \/ Front(d) \/ Again(d) \/ Probe(d)
                              \/ Detached(d) \/ Down(d)

Spec == Init /\ [][Next]_vars
------------------------------------------------------------------------------

Modes == {"none", "open", "probe"}
TypeOK ==
  /\ req \in [Markets -> [mode : Modes, old : BOOLEAN]]
  /\ todo \subseteq [m : Markets, row : [mode : Modes, old : BOOLEAN]]
  /\ drv \in [Drivers ->
       [at : driving \cup {"idle", "answer", "survey", "tell"}, m : Markets \cup {"none"},
        mode : Modes, page : Markets \cup {"other", "none"},
        state : {"none", "cannot", "unknown", "logged_in", "logged_out"},
        moved : BOOLEAN]]
  /\ excl \in Drivers \cup {"none"} /\ tab \in Markets \cup {"other"}
  /\ busy \in BOOLEAN
  /\ taps \in [Markets -> 0..MaxTaps] /\ told \in [Markets -> Nat] /\ crashes \in 0..MaxCrashes
  /\ owed \in [Markets -> {"no", "yes", "lost"}]

\* The seller is told signed in or signed out of a page that was that market's:
\* no lane, route or pass of ours comes between a navigate and its probe, and a
\* failed raise is made good.  What can is a tab the seller closes meanwhile,
\* which the code cannot see (client.py:633-636).
ProbeIsOfMarket == \A d \in Drivers : drv[d].state \in {"logged_in", "logged_out"} =>
                                        drv[d].page = drv[d].m \/ drv[d].moved

\* A tap is answered once at most: a lost server, a dead daemon and a row left
\* for the next tick never add a second notice.
OneNoticeATap == \A m \in Markets : told[m] <= taps[m]

\* Nor does a tap go unanswered, however taps, ticks, passes and lost servers
\* meet: the row stays or the notice is next, but where the lane or the daemon
\* stopped between the two.
NoTapForgotten == \A m \in Markets : owed[m] = "yes" => req[m] # NoRow \/ Telling(m)

\* What every step keeps.  A driver past its navigate holds the tab, which shows
\* its market unless a failed raise or the seller has left it elsewhere; the rows the
\* lane has looked at stay until it answers them, since only it clears a row;
\* and a notice that is to come, for a row or after one, was tapped for.
TabIsHeld ==
  \A d \in Drivers : /\ drv[d].at \in holding => excl = d /\ drv[d].state = "none"
                     /\ drv[d].at \in {"front", "probe"} => tab = drv[d].m \/ drv[d].moved
RowsStay ==
  /\ \A r \in todo : /\ r.m \in Markets /\ req[r.m] # NoRow /\ r.row \in [mode : Modes, old : BOOLEAN]
                     /\ drv["lane"].at # "idle" => r.m # drv["lane"].m
                     /\ \A q \in todo : q.m = r.m => q = r
  /\ drv["lane"].at \in driving \cup {"answer"} => req[drv["lane"].m] # NoRow
ToCome(m) == (IF req[m] # NoRow THEN 1 ELSE 0) + (IF Telling(m) THEN 1 ELSE 0)
TapsAreAhead == \A m \in Markets : told[m] + ToCome(m) <= taps[m]

IInv == /\ req \in [Markets -> [mode : Modes, old : BOOLEAN]]
        /\ drv \in [Drivers ->
             [at : driving \cup {"idle", "answer", "survey", "tell"}, m : Markets \cup {"none"},
              mode : Modes, page : Markets \cup {"other", "none"},
              state : {"none", "cannot", "unknown", "logged_in", "logged_out"},
              moved : BOOLEAN]]
        /\ \A d \in Drivers : drv[d].at # "idle" => drv[d].m \in Markets
        /\ tab \in Markets \cup {"other"}
        /\ taps \in [Markets -> Nat] /\ told \in [Markets -> Nat]
        /\ owed \in [Markets -> {"no", "yes", "lost"}] /\ NoTapForgotten
        /\ TabIsHeld /\ RowsStay /\ TapsAreAhead /\ ProbeIsOfMarket
=============================================================================
