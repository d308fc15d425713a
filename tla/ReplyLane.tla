----------------------------- MODULE ReplyLane -----------------------------
(***************************************************************************)
(* Who answers which buyer message: the inbox read that records it, the    *)
(* reply lane that claims every waiting thread into one pass               *)
(* (browser/inbox.py, store/passes.py), the pass that answers, and the     *)
(* cursor that says how far a thread has been handled (store/send.py).     *)
(*                                                                         *)
(* The page and the read-back of a send are SendBracket's; here a send is  *)
(* a slot that is reserved, perhaps marked, and in the end committed by    *)
(* its caller, settled by an inbox tick, or folded by the sweep.  A call's *)
(* handler runs in the daemon and outlives the pass that made the call.    *)
(***************************************************************************)
EXTENDS Naturals, FiniteSets

CONSTANTS
  Threads,        \* sell threads
  Slots,          \* sends that can be unsettled at the same time
  Markets,        \* marketplaces
  MarketOf,       \* MarketOf[t]: the market of thread t
  MaxMessages     \* bound on a buyer's messages

ASSUME LaneAssumption ==
  /\ MarketOf \in [Threads -> Markets]
  /\ MaxMessages \in Nat

VARIABLES
  \* the threads
  newest,     \* newest[t]: the newest buyer message recorded, by number
  cursor,     \* cursor[t]: the newest message marked handled
  manual,     \* manual[t]: the seller typed after that message
  owner,      \* owner[t]: "agent", or "seller" while escalated or held
  \* the send slots
  send,       \* send[s]: an intent and its caller
  \* the lane
  pass,       \* the reply pass: its status, its claim, whether it sent
  cooling,    \* the last finished pass ended no_send, under 300 s ago
  paced,      \* the markets whose next send pacing would refuse
  \* history
  given       \* given[t]: the newest message that a reply or a hold has spoken for

threadVars == <<newest, cursor, manual, owner>>
laneVars == <<pass, cooling, paced>>
vars == <<threadVars, send, laneVars, given>>

----------------------------------------------------------------------------
Message == 1 .. MaxMessages

\* An intent: where it stands, the thread, whether its caller is still in
\* send_reply, who called, the pass's claim on the thread (0 without one), the
\* message the caller named (0 for none) and the newest one it had seen.
Stage == {"pending", "sent_unverified", "unconfirmed", "committed"}
Caller == {"pass", "endedPass", "attended"}
Kind == {"reply", "holding"}
Free == [stage |-> "free"]
Send == [stage : Stage, thread : Threads, live : BOOLEAN, by : Caller, kind : Kind,
         claim : 0 .. MaxMessages, named : 0 .. MaxMessages, seen : Message]

NoPass == [status |-> "none"]
Pass == [status : {"queued", "running", "orphaned"},
         claim : [Threads -> 0 .. MaxMessages], sent : BOOLEAN]

Init == /\ newest = [t \in Threads |-> 0]
        /\ cursor = [t \in Threads |-> 0]
        /\ manual = [t \in Threads |-> FALSE]
        /\ owner = [t \in Threads |-> "agent"]
        /\ send = [s \in Slots |-> Free]
        /\ pass = NoPass
        /\ cooling = FALSE
        /\ paced = {}
        /\ given = [t \in Threads |-> 0]

On(s, t) == send[s].stage # "free" /\ send[s].thread = t
Unverified(t) == \E s \in Slots : On(s, t) /\ send[s].stage = "sent_unverified"

----------------------------------------------------------------------------
\* The inbox read and the seller.

\* record_inbound: the cursor stays where it is.
Inbound(t) ==
  /\ newest[t] < MaxMessages
  /\ newest' = [newest EXCEPT ![t] = @ + 1]
  /\ manual' = [manual EXCEPT ![t] = FALSE]
  /\ UNCHANGED <<cursor, owner, send, laneVars, given>>

\* The seller answers in the marketplace app; the read journals it.
ManualReply(t) ==
  /\ newest[t] > 0
  /\ manual' = [manual EXCEPT ![t] = TRUE]
  /\ UNCHANGED <<newest, cursor, owner, send, laneVars, given>>

\* escalate or hold_thread, and the seller's way back.
HandToSeller(t) ==
  /\ owner' = [owner EXCEPT ![t] = "seller"]
  /\ UNCHANGED <<newest, cursor, manual, send, laneVars, given>>

\* hold_thread with mark_handled_msg: the hold is the handling, and the cursor
\* goes to the time of the hold.
HoldHandled(t) ==
  /\ owner' = [owner EXCEPT ![t] = "seller"]
  /\ cursor' = [cursor EXCEPT ![t] = newest[t]]
  /\ given' = [given EXCEPT ![t] = newest[t]]
  /\ UNCHANGED <<newest, manual, send, laneVars>>

HandBack(t) ==
  /\ owner' = [owner EXCEPT ![t] = "agent"]
  /\ UNCHANGED <<newest, cursor, manual, send, laneVars, given>>

\* The pacing ledger of a market fills, or its window moves on.
PaceOut(m) == /\ paced' = paced \cup {m}
              /\ UNCHANGED <<threadVars, send, pass, cooling, given>>
PaceFree(m) == /\ paced' = paced \ {m}
               /\ UNCHANGED <<threadVars, send, pass, cooling, given>>

----------------------------------------------------------------------------
\* The lane.

\* _UNHANDLED_INBOUND_SQL.
Waiting(t) ==
  /\ cursor[t] < newest[t]
  /\ ~manual[t]
  /\ owner[t] = "agent"
  /\ ~Unverified(t)

Claimable == {t \in Threads : Waiting(t) /\ MarketOf[t] \notin paced}
Claimed(t) == pass # NoPass /\ pass.claim[t] > 0

\* A variant of Enqueue that holds the whole lane while any market is paced out.
EnqueueWhenAllFree ==
  /\ ~cooling
  /\ pass = NoPass
  /\ Claimable # {}
  /\ paced = {}
  /\ pass' = [status |-> "queued", sent |-> FALSE,
              claim |-> [t \in Threads |-> IF t \in Claimable THEN newest[t] ELSE 0]]
  /\ UNCHANGED <<threadVars, send, cooling, paced, given>>

\* reply_lane, enqueue_reply_pass: every claimable thread into one pass, with
\* the newest message of each as the claim's watermark.
Enqueue ==
  /\ ~cooling
  /\ pass = NoPass
  /\ Claimable # {}
  /\ pass' = [status |-> "queued", sent |-> FALSE,
              claim |-> [t \in Threads |-> IF t \in Claimable THEN newest[t] ELSE 0]]
  /\ UNCHANGED <<threadVars, send, cooling, paced, given>>

\* pass_lane, claim_queued_pass.
StartPass ==
  /\ pass # NoPass /\ pass.status = "queued"
  /\ pass' = [pass EXCEPT !.status = "running"]
  /\ UNCHANGED <<threadVars, send, cooling, paced, given>>

\* The pass leaves the table, and a send of its own still in the daemon goes on.
Ended == /\ pass' = NoPass
         /\ send' = [s \in Slots |-> IF send[s].stage # "free" /\ send[s].by = "pass"
                                     THEN [send[s] EXCEPT !.by = "endedPass"] ELSE send[s]]

\* run_pass ends: a clean exit without one intent is no_send, any other exit
\* (an error, a timeout, a pause) is not.
EndPass ==
  /\ pass # NoPass /\ pass.status = "running"
  /\ Ended
  /\ cooling' \in {FALSE, ~pass.sent}
  /\ UNCHANGED <<threadVars, paced, given>>

\* fail_stale_running: the daemon that ran the pass is gone.
FailStale ==
  /\ pass # NoPass /\ pass.status = "orphaned"
  /\ Ended
  /\ cooling' = FALSE
  /\ UNCHANGED <<threadVars, paced, given>>

CoolDown == /\ cooling
            /\ cooling' = FALSE
            /\ UNCHANGED <<threadVars, send, pass, paced, given>>

\* The daemon restarts: callers and the run are gone, the rows stay.
Crash ==
  /\ pass' = IF pass # NoPass /\ pass.status = "running"
             THEN [pass EXCEPT !.status = "orphaned"] ELSE pass
  /\ send' = [s \in Slots |->
                IF send[s].stage = "free" THEN Free
                ELSE IF send[s].stage = "committed" THEN Free
                ELSE [send[s] EXCEPT !.live = FALSE]]
  /\ UNCHANGED <<threadVars, cooling, paced, given>>

----------------------------------------------------------------------------
\* The sends.

\* reserve_reply on go: an intent, and the mark that the pass made progress.
\* The thread's status was read earlier and may have changed (SendBracket).  The
\* caller may name a message it has seen (in_msg_id); a name that no message has
\* is as none.
ReserveIn(s, t, by, kind, claim, seen) ==
  /\ send[s] = Free
  /\ ~Unverified(t)
  /\ MarketOf[t] \notin paced
  /\ \E named \in 0 .. seen :
       send' = [send EXCEPT ![s] =
                  [stage |-> "pending", thread |-> t, live |-> TRUE, by |-> by, kind |-> kind,
                   claim |-> claim, named |-> named, seen |-> seen]]
  /\ pass' = IF Claimed(t) /\ pass.status = "running"
             THEN [pass EXCEPT !.sent = TRUE] ELSE pass
  /\ UNCHANGED <<threadVars, cooling, paced, given>>

\* A pass was given its claim, and reads the thread again before it answers.
PassReserve(s, t, kind) ==
  /\ pass # NoPass /\ pass.status = "running" /\ Claimed(t)
  /\ \E seen \in pass.claim[t] .. newest[t] :
       ReserveIn(s, t, "pass", kind, pass.claim[t], seen)

\* The seller's own session, or the channel pass carrying their words.
AttendedReserve(s, t) ==
  \E seen \in 1 .. newest[t] : ReserveIn(s, t, "attended", "reply", 0, seen)

\* mark_intent_sent_unverified.
Mark(s) ==
  /\ send[s] # Free /\ send[s].stage = "pending" /\ send[s].live
  /\ send' = [send EXCEPT ![s].stage = "sent_unverified"]
  /\ UNCHANGED <<threadVars, laneVars, given>>

\* The sink raised: the caller returns, the row stays as it is.
GiveBack(s) ==
  /\ send[s] # Free /\ send[s].live
  /\ send' = [send EXCEPT ![s] = IF @.stage = "committed" THEN Free
                                 ELSE [@ EXCEPT !.live = FALSE]]
  /\ UNCHANGED <<threadVars, laneVars, given>>

\* A variant of CursorTarget that takes what is newest now for a pass.
CursorTargetNow(r, claim) ==
  IF r.kind = "holding" THEN cursor[r.thread]
  ELSE IF claim > 0 THEN newest[r.thread]
  ELSE IF r.named > 0 THEN r.named
  ELSE newest[r.thread]

\* _cursor_target: nothing for a holding line, the claim's watermark for a
\* pass, else the message named, else the newest on the thread.
CursorTarget(r, claim) ==
  IF r.kind = "holding" THEN cursor[r.thread]
  ELSE IF claim > 0 THEN claim
  ELSE IF r.named > 0 THEN r.named
  ELSE newest[r.thread]

\* What a reply speaks for: nothing if it is a holding line, everything if it
\* has neither a claim nor a name, and else what its sender had seen.
SpeaksFor(r, claim) ==
  IF r.kind = "holding" THEN 0
  ELSE IF claim = 0 /\ r.named = 0 THEN newest[r.thread]
  ELSE r.seen

\* _commit_reply_in_txn, with the pass's claim or without one.
Record(r, claim) ==
  /\ cursor' = [cursor EXCEPT ![r.thread] = CursorTarget(r, claim)]
  /\ given' = [given EXCEPT ![r.thread] =
                             IF SpeaksFor(r, claim) > @ THEN SpeaksFor(r, claim) ELSE @]

\* commit_reply, by the caller that read its words back.
Commit(s) ==
  /\ send[s] # Free /\ send[s].live /\ send[s].stage # "pending"
  /\ Record(send[s], send[s].claim)
  /\ send' = [send EXCEPT ![s] = Free]
  /\ UNCHANGED <<newest, manual, owner, laneVars>>

\* A variant of Settle that waits for a caller that is gone.
SettleHeld(s) ==
  /\ send[s] # Free /\ send[s].stage # "committed"
  /\ Record(send[s], 0)
  /\ send' = [send EXCEPT ![s].stage = "committed"]
  /\ UNCHANGED <<newest, manual, owner, laneVars>>

\* settle_intent_from_read: no claim stands behind it.  Withdrawing the
\* question may give the thread back (SendBracket has when).
Settle(s) ==
  /\ send[s] # Free /\ send[s].stage # "committed"
  /\ Record(send[s], 0)
  /\ send' = [send EXCEPT ![s] = IF @.live THEN [@ EXCEPT !.stage = "committed"] ELSE Free]
  /\ owner' \in {owner, [owner EXCEPT ![send[s].thread] =
                           IF send[s].stage = "unconfirmed" THEN "agent" ELSE @]}
  /\ UNCHANGED <<newest, manual, laneVars>>

\* stale_intent_sweep: unconfirmed, and the seller is asked.
Sweep(s) ==
  /\ send[s] # Free /\ send[s].stage \in {"pending", "sent_unverified"}
  /\ send' = [send EXCEPT ![s].stage = "unconfirmed"]
  /\ owner' = [owner EXCEPT ![send[s].thread] = "seller"]
  /\ UNCHANGED <<newest, cursor, manual, laneVars, given>>

\* The looks are used up: no tick reads for this intent again.
Forget(s) ==
  /\ send[s] # Free /\ send[s].stage = "unconfirmed" /\ ~send[s].live
  /\ send' = [send EXCEPT ![s] = Free]
  /\ UNCHANGED <<threadVars, laneVars, given>>

Next ==
  \/ \E t \in Threads : Inbound(t) \/ ManualReply(t)
                       \/ HandToSeller(t) \/ HoldHandled(t) \/ HandBack(t)
  \/ \E m \in Markets : PaceOut(m) \/ PaceFree(m)
  \/ Enqueue \/ StartPass \/ EndPass \/ FailStale \/ CoolDown \/ Crash
  \/ \E s \in Slots :
       \/ \E t \in Threads : AttendedReserve(s, t) \/ \E k \in Kind : PassReserve(s, t, k)
       \/ Mark(s) \/ GiveBack(s) \/ Commit(s) \/ Settle(s) \/ Sweep(s) \/ Forget(s)

Spec == Init /\ [][Next]_vars

\* The scheduler runs the lanes over and over, a pass has a deadline, and the
\* cooldown is a clock.
Fairness == /\ WF_vars(Enqueue) /\ WF_vars(StartPass) /\ WF_vars(EndPass)
            /\ WF_vars(FailStale) /\ WF_vars(CoolDown)
FairSpec == Spec /\ Fairness

----------------------------------------------------------------------------
\* Properties.

\* Every row keeps its type, and a settled intent is kept for its caller alone.
TypeOK ==
  /\ newest \in [Threads -> 0 .. MaxMessages]
  /\ cursor \in [Threads -> 0 .. MaxMessages]
  /\ manual \in [Threads -> BOOLEAN]
  /\ owner \in [Threads -> {"agent", "seller"}]
  /\ send \in [Slots -> Send \cup {Free}]
  /\ \A s \in Slots : send[s].stage = "committed" => send[s].live
  /\ pass \in Pass \cup {NoPass}
  /\ cooling \in BOOLEAN
  /\ paced \subseteq Markets
  /\ given \in [Threads -> 0 .. MaxMessages]

\* A message counts as handled only when a hold took the thread over or a reply
\* is on record whose sender had seen it: what the buyer adds while a reply is
\* composed keeps them waiting.  A reply with neither a claim nor a name speaks
\* for the whole thread, as _cursor_target says, and a holding line for nothing.
CursorWasGiven == \A t \in Threads : cursor[t] <= given[t]

\* A buyer whose market is free to send is claimed or stops waiting, whatever
\* the other markets do and however often the daemon dies.
NoBuyerStarves ==
  \A t \in Threads :
    <>[](MarketOf[t] \notin paced) => (Waiting(t) ~> Claimed(t) \/ ~Waiting(t))

============================================================================
