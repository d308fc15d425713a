--------------------------- MODULE BrowserServer ---------------------------
(* How the daemon gets at the browser: the factory in daemon.py that every   *)
(* lane and every tool call goes through, the cached client of               *)
(* browser/client.py with its server process, and Chrome itself.  The client *)
(* has a lock; the factory and the dictionary it keeps its client in         *)
(* (holder) have none, so each read and each write of holder is a step.      *)
EXTENDS Naturals, FiniteSets

CONSTANTS Callers,    \* threads that call the factory
          Lane,       \* the caller the scheduler starts again for ever
          Clients,    \* names for client objects
          Ports,      \* ports Chrome may choose
          NoClient, NoCaller,
          RecycleMax, \* BROWSER_RECYCLE_MAX
          FailLimit,  \* RECYCLE_AFTER_FAILURES
          MaxFaults   \* bound on deaths of Chrome, of servers, lost links

ASSUME BrowserAssumption ==
    /\ Lane \in Callers /\ NoClient \notin Clients /\ NoCaller \notin Callers
    /\ IsFiniteSet(Callers) /\ Ports # {}
    /\ RecycleMax \in Nat \ {0} /\ FailLimit \in Nat \ {0}
    /\ MaxFaults \in Nat

VARIABLES chrome,   \* [up, port]: is it running, on which port
          client,   \* the BrowserClient objects
          lock,     \* holder of each client's RLock
          holder,   \* [client, recycles] of the factory's dictionary
          made,     \* how many recycles there were in the last hour
          hot,      \* the newest of them is younger than the cooldown
          pc, my, seen,   \* each caller: its place, its client, the count it read,
          given,    \* and the port its ensure_chrome returned
          faults    \* counter for the bound

vars == <<chrome, client, lock, holder, made, hot, pc, my, seen, given, faults>>

Fresh(p) == [port |-> p, proc |-> "none", link |-> FALSE, retired |-> FALSE,
             detached |-> FALSE, streak |-> 0]
\* an object that has been closed, or is not there yet
Corpse == [Fresh(CHOOSE p \in Ports : TRUE) EXCEPT !.retired = TRUE]

Init == /\ chrome = [up |-> FALSE, port |-> CHOOSE p \in Ports : TRUE]
        /\ client = [c \in Clients |-> Corpse]
        /\ lock = [c \in Clients |-> NoCaller]
        /\ holder = [client |-> NoClient, recycles |-> 0]
        /\ made = 0 /\ hot = FALSE
        /\ pc = [k \in Callers |-> "idle"] /\ my = [k \in Callers |-> NoClient]
        /\ seen = [k \in Callers |-> 0] /\ given = [k \in Callers |-> chrome.port]
        /\ faults = 0

At(k, here) == pc[k] = here
Goto(k, there) == pc' = [pc EXCEPT ![k] = there]
Free(k, c) == lock[c] \in {NoCaller, k}

\* a name to build with: nothing refers to what bore it (a server the race over
\* holder left behind runs on outside this model)
Unused(c) == holder.client # c /\ \A k \in Callers : my[k] # c

-----------------------------------------------------------------------------
(* The factory.                                                             *)

\* ensure_running under the launch lock: a Chrome that chose its port, or none
Launch == \/ \E p \in Ports : chrome' = [up |-> TRUE, port |-> p]
          \/ UNCHANGED chrome

\* ensure_chrome: ready, launched, or unavailable, which ends the acquisition
Ensure(k) ==
    /\ At(k, "idle")
    /\ IF chrome.up THEN UNCHANGED chrome ELSE Launch
    /\ IF chrome'.up THEN Goto(k, "pick") /\ given' = [given EXCEPT ![k] = chrome'.port]
                     ELSE UNCHANGED <<pc, given>>
    /\ UNCHANGED <<client, lock, holder, made, hot, my, seen, faults>>

\* it failed too often, and a Chrome answers on the port the caller was given
Detached(k, c) == client[c].streak >= FailLimit /\ chrome.up /\ chrome.port = given[k]

\* the cached client is used when there is one for this port: nothing is wrong
\* with it, or a pass drives the browser and it is kept for that
Pick(k) ==
    LET c == holder.client IN
    /\ At(k, "pick") /\ my' = [my EXCEPT ![k] = c]
    /\ \/ c = NoClient /\ Goto(k, "build")
       \/ c # NoClient /\ client[c].port # given[k] /\ Goto(k, "moved")
       \/ c # NoClient /\ client[c].port = given[k] /\ Goto(k, "got")
    /\ UNCHANGED <<chrome, client, lock, holder, made, hot, seen, given, faults>>

\* no pass runs, and it has lost a Chrome that is up, or it is of age
Discard(k) ==
    LET c == holder.client IN
    /\ At(k, "pick") /\ c # NoClient /\ client[c].port = given[k]
    /\ Detached(k, c) \/ client[c].proc # "none"
    /\ client' = [client EXCEPT ![c].detached = @ \/ Detached(k, c)]
    /\ my' = [my EXCEPT ![k] = c] /\ Goto(k, "recycle")
    /\ UNCHANGED <<chrome, lock, holder, made, hot, seen, given, faults>>

\* A variant of Recycle.
RecycleUnbounded(k) ==
    LET n == holder.recycles IN
    /\ At(k, "recycle")
    /\ \/ n > 0 /\ hot /\ Goto(k, "again") /\ UNCHANGED <<my, seen>>
       \/ ~(n > 0 /\ hot) /\ Goto(k, "pop") /\ seen' = [seen EXCEPT ![k] = n] /\ UNCHANGED my
    /\ UNCHANGED <<chrome, client, lock, holder, made, hot, given, faults>>

\* recycle_browser_client up to its decision: too soon, exhausted, or go on
Recycle(k) ==
    LET n == holder.recycles IN
    /\ At(k, "recycle")
    /\ \/ n > 0 /\ hot /\ Goto(k, "again") /\ UNCHANGED <<my, seen>>
       \/ /\ ~(n > 0 /\ hot) /\ n >= RecycleMax /\ Goto(k, "idle")
          /\ my' = [my EXCEPT ![k] = NoClient] /\ UNCHANGED seen
       \/ /\ ~(n > 0 /\ hot) /\ n < RecycleMax /\ Goto(k, "pop")
          /\ seen' = [seen EXCEPT ![k] = n] /\ UNCHANGED my
    /\ UNCHANGED <<chrome, client, lock, holder, made, hot, given, faults>>

\* its second half: drop whatever the holder has now, and charge the allowance
Pop(k) ==
    /\ At(k, "pop")
    /\ holder' = [client |-> NoClient, recycles |-> seen[k] + 1]
    /\ made' = made + 1
    /\ hot' = TRUE
    /\ my' = [my EXCEPT ![k] = holder.client] /\ seen' = [seen EXCEPT ![k] = 0]
    /\ Goto(k, IF holder.client = NoClient THEN "again" ELSE "stale")
    /\ UNCHANGED <<chrome, client, lock, given, faults>>

\* A variant of Close.
CloseAtOnce(k) ==
    /\ pc[k] \in {"stale", "moved"}
    /\ client' = [client EXCEPT ![my[k]] = Corpse]
    /\ my' = [my EXCEPT ![k] = NoClient]
    /\ Goto(k, IF At(k, "stale") THEN "again" ELSE "build")
    /\ holder' = [holder EXCEPT !.client = IF At(k, "stale") THEN @ ELSE NoClient]
    /\ UNCHANGED <<chrome, lock, made, hot, seen, given, faults>>

\* BrowserClient.close: waits for the lock, retires the object, ends the process
Close(k) ==
    /\ pc[k] \in {"stale", "moved"} /\ Free(k, my[k])
    /\ client' = [client EXCEPT ![my[k]] = Corpse]
    /\ my' = [my EXCEPT ![k] = NoClient]
    /\ Goto(k, IF At(k, "stale") THEN "again" ELSE "build")
    /\ holder' = [holder EXCEPT !.client = IF At(k, "stale") THEN @ ELSE NoClient]
    /\ UNCHANGED <<chrome, lock, made, hot, seen, given, faults>>

\* holder.get("client") once more after a recycle, done or declined
Again(k) ==
    /\ At(k, "again")
    /\ my' = [my EXCEPT ![k] = holder.client]
    /\ Goto(k, IF holder.client = NoClient THEN "build" ELSE "got")
    /\ UNCHANGED <<chrome, client, lock, holder, made, hot, seen, given, faults>>

\* a new client for the port the caller was given, stored over whatever is there
Build(k) ==
    /\ At(k, "build")
    /\ \E c \in Clients : Unused(c)
    /\ LET c == CHOOSE c \in Clients : Unused(c) IN
          /\ client' = [client EXCEPT ![c] = Fresh(given[k])]
          /\ holder' = [holder EXCEPT !.client = c]
          /\ my' = [my EXCEPT ![k] = c]
    /\ Goto(k, "got")
    /\ UNCHANGED <<chrome, lock, made, hot, seen, given, faults>>

-----------------------------------------------------------------------------
(* The client.                                                              *)

Leave(k) ==
    /\ At(k, "in") /\ Goto(k, "idle")
    /\ lock' = [lock EXCEPT ![my[k]] = NoCaller]
    /\ my' = [my EXCEPT ![k] = NoClient]
    /\ UNCHANGED <<chrome, client, holder, made, hot, seen, given, faults>>

\* the endpoint a server is given is that of the Chrome that is up
Answers(p) == chrome.up /\ chrome.port = p

\* _start: a dead or missing process is replaced, and with it all it had counted
Started(cl) ==
    IF cl.proc = "alive" THEN cl
    ELSE [Fresh(cl.port) EXCEPT !.proc = "alive", !.link = Answers(cl.port)]

\* A variant of Fails.
FailsAlways(cl) == [cl EXCEPT !.streak = @ + 1]

\* A variant of Fails.
FailsUncounted(cl) == [cl EXCEPT !.streak = 0]

Fails(cl) == [cl EXCEPT !.streak = IF @ < FailLimit THEN @ + 1 ELSE @]

\* A variant of Called.
CalledUnlessDetached(c) ==
    LET cl == client[c]  up == Started(cl) IN
    \/ cl.detached /\ UNCHANGED client
    \/ /\ ~cl.detached
       /\ \/ up.link /\ client' = [client EXCEPT ![c] = [up EXCEPT !.streak = 0, !.retired = cl.retired]]
          \/ client' = [client EXCEPT ![c] = [Fails(up) EXCEPT !.retired = cl.retired]]

\* _call_once, under call_tool's one recovery from a tab with modal state: a
\* detached or a retired client refuses at once; a server that does not start is
\* killed; a server without Chrome fails every tool; one with Chrome may do the
\* tool or fail it; and a call that times out changes nothing here
Called(c) ==
    LET cl == client[c]  up == Started(cl) IN
    \/ (cl.detached \/ cl.retired) /\ UNCHANGED client
    \/ /\ ~cl.detached /\ ~cl.retired
       /\ \/ up.link /\ client' = [client EXCEPT ![c] = [up EXCEPT !.streak = 0]]
          \/ client' = [client EXCEPT ![c] = Fails(up)]
          \/ cl.proc # "alive" /\ client' = [client EXCEPT ![c] = Fresh(cl.port)]

\* exclusive(), and the first call of the bracket; set_follow has waited for the
\* same lock at the end of the acquisition
Enter(k) ==
    /\ At(k, "got") /\ Free(k, my[k]) /\ Goto(k, "in")
    /\ lock' = [lock EXCEPT ![my[k]] = k] /\ Called(my[k])
    /\ UNCHANGED <<chrome, holder, made, hot, my, seen, given, faults>>

Call(k) ==
    /\ At(k, "in") /\ Called(my[k])
    /\ UNCHANGED <<chrome, lock, holder, made, hot, pc, my, seen, given, faults>>

-----------------------------------------------------------------------------
(* The world: Chrome and servers fail, time passes, passes come and go.     *)

ChromeDies ==
    /\ chrome.up /\ faults < MaxFaults /\ faults' = faults + 1
    /\ chrome' = [chrome EXCEPT !.up = FALSE]
    /\ client' = [c \in Clients |-> [client[c] EXCEPT !.link = FALSE]]
    /\ UNCHANGED <<lock, holder, made, hot, pc, my, seen, given>>

ServerFaults ==
    /\ faults < MaxFaults /\ faults' = faults + 1
    /\ \E c \in Clients :
          /\ client[c].proc = "alive"
          /\ \/ client' = [client EXCEPT ![c].link = FALSE]
             \/ client' = [client EXCEPT ![c].link = FALSE, ![c].proc = "dead"]
    /\ UNCHANGED <<chrome, lock, holder, made, hot, pc, my, seen, given>>

\* a recycle decided on is made at once: neither limit passes between two statements
Decided == \E k \in Callers : At(k, "pop")

Cool ==
    /\ hot /\ ~Decided /\ hot' = FALSE
    /\ UNCHANGED <<chrome, client, lock, holder, made, pc, my, seen, given, faults>>

\* an hour without a recycle: every entry has left the window
Expire ==
    /\ ~hot /\ ~Decided /\ made > 0 /\ made' = 0
    /\ holder' = [holder EXCEPT !.recycles = 0]
    /\ UNCHANGED <<chrome, client, lock, hot, pc, my, seen, given, faults>>

Step(k) == \/ Pick(k) \/ Discard(k) \/ Recycle(k) \/ Pop(k) \/ Close(k) \/ Again(k) \/ Build(k)
           \/ Enter(k) \/ Call(k) \/ Leave(k)

World == \/ ChromeDies \/ ServerFaults \/ Cool \/ Expire

Next == World \/ \E k \in Callers : Ensure(k) \/ Step(k)

(* The scheduler starts the lane again for ever; a caller that has begun goes *)
(* on, since every call has a timeout; a thread that waits for a lock gets it *)
(* in the end; clocks advance; and a pass does not run at every acquisition,  *)
(* since passes have deadlines.                                               *)
Fairness ==
    /\ WF_vars(Ensure(Lane)) /\ WF_vars(Cool) /\ WF_vars(Expire)
    /\ SF_vars(Discard(Lane) /\ Detached(Lane, holder.client))
    /\ \A k \in Callers :
          /\ WF_vars(Pick(k) \/ Recycle(k) \/ Pop(k) \/ Again(k) \/ Build(k) \/ Leave(k))
          /\ SF_vars(Close(k) \/ Enter(k))

Spec == Init /\ [][Next]_vars
FairSpec == Spec /\ Fairness

-----------------------------------------------------------------------------
TypeOK ==
    /\ chrome \in [up : BOOLEAN, port : Ports]
    /\ client \in [Clients -> [port : Ports, proc : {"none", "alive", "dead"}, link : BOOLEAN,
                               retired : BOOLEAN, detached : BOOLEAN, streak : 0..FailLimit]]
    /\ lock \in [Clients -> Callers \cup {NoCaller}]
    /\ holder \in [client : Clients \cup {NoClient}, recycles : Nat]
    /\ made \in Nat /\ hot \in BOOLEAN
    /\ pc \in [Callers -> {"idle", "pick", "moved", "recycle", "pop", "stale", "again",
                           "build", "got", "in"}]
    /\ my \in [Callers -> Clients \cup {NoClient}] /\ seen \in [Callers -> Nat]
    /\ given \in [Callers -> Ports]
    /\ faults \in 0..MaxFaults

(* A bracket is never cut by a recycle: a caller between its first and its   *)
(* last browser call keeps the client it entered with, not retired by anyone *)
(* since (make_browser_factory: "never landing inside a send").              *)
BracketsAreKept == \A k \in Callers :
    pc[k] = "in" => client'[my[k]].retired = client[my[k]].retired
BracketIsWhole == [][BracketsAreKept]_vars

(* A closed client is a corpse: whoever still holds a reference, and however *)
(* late it calls, no server is ever started that no holder knows of          *)
(* (BrowserClient._retired).                                                 *)
CorpseStaysDead == \A c \in Clients : client[c].retired => client[c].proc = "none"

(* The allowance over a window holds up to the race the factory permits:     *)
(* callers that decided on the same list each spend it once.                 *)
AllowanceHolds == made <= RecycleMax * Cardinality(Callers)

(* What the factory may start is bounded, by the two rules above together.   *)
ServersAreBounded == CorpseStaysDead /\ AllowanceHolds

(* No wedge is immortal: a cached server that has lost a Chrome that is up   *)
(* is replaced, or the fault goes away, without a restart of the daemon.     *)
Wedged(c) == holder.client = c /\ client[c].proc = "alive" /\ ~client[c].link /\ chrome.up
NoImmortalWedge == \A c \in Clients : Wedged(c) ~> ~Wedged(c)
=============================================================================
