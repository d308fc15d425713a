---------------------------- MODULE ChannelInbox ----------------------------
(***************************************************************************)
(* The seller's channel: the poller that ingests updates and answers the   *)
(* fast paths (channel/telegram/poller.py), the claim of waiting messages  *)
(* into one channel pass (store/passes.py), the fold of settled passes     *)
(* (store/channel.py) and the delivery of notices (channel/outbound.py).   *)
(*                                                                         *)
(* Three loops and the tools of an attended session share the tables; each *)
(* keeps a little state of its own, which the death of the daemon clears.  *)
(* The channel is bound throughout; binding is not modelled here.          *)
(***************************************************************************)
EXTENDS Naturals, Sequences, FiniteSets

CONSTANTS
  MaxUpdates,   \* bound on the updates sent to the bot
  MaxOther,     \* bound on the notices that do not report a failed pass
  Batch,        \* notices one drain takes (_NOTICE_DRAIN_BATCH)
  Failures      \* the poller's ticks may raise and the daemon may die

ASSUME ChannelAssumption ==
  /\ MaxUpdates \in Nat
  /\ MaxOther \in Nat
  /\ Batch \in Nat \ {0}
  /\ Failures \in BOOLEAN

VARIABLES
  sent,       \* the updates at the server, by id: their kinds
  \* the database
  offset,     \* channel.update_offset: the next update to fetch
  row,        \* row[u]: the inbox row of update u
  passes,     \* the channel passes in the order they were queued: their status
  paused,     \* the control flag
  notices,    \* the notices in the order they were queued
  \* in memory
  poller,     \* the tick of the poller
  lane,       \* the tick of the pass lane
  drain,      \* the tick of the notice drain
  catchup,    \* the notices a get_catchup call has read and not stamped
  \* history
  answered    \* the updates whose fast path was applied

tableVars == <<offset, row, passes, paused, notices>>
memoryVars == <<poller, lane, drain, catchup>>
vars == <<sent, tableVars, memoryVars, answered>>

----------------------------------------------------------------------------
Update == 1 .. MaxUpdates
PassId == 1 .. MaxUpdates
NoticeId == 1 .. MaxUpdates + MaxOther

\* A stranger's update comes from another chat.  Pause and resume stand for
\* the fast paths; the others touch nothing modelled here.
UpdateKind == {"text", "pause", "resume", "stranger"}
FastPaths == {"pause", "resume"}

Row == [status : {"absent", "pending", "claimed", "handled", "failed"},
        pass : 0 .. MaxUpdates]
PassStatus == {"queued", "running", "done", "error"}
Terminal == {"done", "error"}

\* A notice: the failed pass it reports or 0, whether quiet hours hold it
\* back, how it was stamped, and whether the seller has got it in the chat.
Notice == [of : 0 .. MaxUpdates, holdable : BOOLEAN,
           via : {"queued", "channel", "catchup"}, shown : BOOLEAN]

\* The poller: where its tick is, the last update fetched, the fast paths to
\* answer and those answered.  The pass lane: the pass it runs.  The drain:
\* the notices it has taken and not stamped.
IdlePoller == [at |-> "idle", upto |-> 0, todo |-> {}, done |-> {}]
Poller == [at : {"idle", "fetched", "fast", "routing"}, upto : 0 .. MaxUpdates,
           todo : SUBSET Update, done : SUBSET Update]
IdleLane == [at |-> "idle", pass |-> 0]
Lane == [at : {"idle", "unpaused", "running"}, pass : 0 .. MaxUpdates]
IdleDrain == [at |-> "idle", left |-> {}]
Drain == [at : {"idle", "deliver", "stamp"}, left : SUBSET NoticeId]

Init == /\ sent = <<>>
        /\ offset = 1
        /\ row = [u \in Update |-> [status |-> "absent", pass |-> 0]]
        /\ passes = <<>>
        /\ paused = FALSE
        /\ notices = <<>>
        /\ poller = IdlePoller
        /\ lane = IdleLane
        /\ drain = IdleDrain
        /\ catchup = {}
        /\ answered = {}

IsFirst(i, S) == i \in S /\ \A j \in S : i <= j
Rows(status) == {u \in Update : row[u].status = status}
RowsOf(p) == {u \in Update : row[u].pass = p}
Active == {p \in DOMAIN passes : passes[p] \in {"queued", "running"}}
Queued == {i \in DOMAIN notices : notices[i].via = "queued"}

----------------------------------------------------------------------------
\* The seller, and whoever else writes to the bot.

Write(kind) ==
  /\ Len(sent) < MaxUpdates
  /\ sent' = Append(sent, kind)
  /\ UNCHANGED <<tableVars, memoryVars, answered>>

\* The pause flag from another door: the control server or an attended tool.
SetPaused(value) ==
  /\ paused # value
  /\ paused' = value
  /\ UNCHANGED <<sent, offset, row, passes, notices, memoryVars, answered>>

----------------------------------------------------------------------------
\* The poller.

\* get_updates: everything from the offset on, or the first part of it.  The
\* photos of the batch are downloaded in this step too.
Fetch ==
  /\ poller.at = "idle"
  /\ \E n \in offset .. Len(sent) :
       poller' = [IdlePoller EXCEPT !.at = "fetched", !.upto = n]
  /\ UNCHANGED <<sent, tableVars, lane, drain, catchup, answered>>

\* An exception anywhere in a tick: the loop backs off and polls again.
PollFails ==
  /\ Failures /\ poller.at # "idle"
  /\ poller' = IdlePoller
  /\ UNCHANGED <<sent, tableVars, lane, drain, catchup, answered>>

\* The rows an ingest inserts: updates of the bound chat that have none yet.
New == {u \in offset .. poller.upto : sent[u] # "stranger" /\ row[u].status = "absent"}

\* A variant of NextOffset that also skips what arrived since the fetch.
NextOffsetNow == Len(sent) + 1

\* The cursor an ingest stores: past the last update of the batch.
NextOffset == poller.upto + 1

\* ingest_updates: the rows and the offset in one transaction.
Ingest ==
  /\ poller.at = "fetched"
  /\ row' = [u \in Update |-> IF u \in New THEN [status |-> "pending", pass |-> 0] ELSE row[u]]
  /\ offset' = NextOffset
  /\ poller' = [poller EXCEPT !.at = "fast", !.todo = {u \in New : sent[u] \in FastPaths}]
  /\ UNCHANGED <<sent, passes, paused, notices, lane, drain, catchup, answered>>

\* _dispatch_fast_paths, one row: its effect, then the reply, which may fail
\* without consequence.
FastPath(u) ==
  /\ poller.at = "fast" /\ IsFirst(u, poller.todo)
  /\ paused' = (sent[u] = "pause")
  /\ answered' = answered \cup {u}
  /\ poller' = [poller EXCEPT !.todo = @ \ {u}, !.done = @ \cup {u}]
  /\ UNCHANGED <<sent, offset, row, passes, notices, lane, drain, catchup>>

\* A variant of Answered that marks every waiting row.
AnsweredAll == Rows("pending")

\* The rows to mark when the fast paths of a batch are through.
Answered == poller.done

\* mark_inbox_handled, once for the batch.
MarkHandled ==
  /\ poller.at = "fast" /\ poller.todo = {}
  /\ row' = [u \in Update |-> IF u \in Answered THEN [row[u] EXCEPT !.status = "handled"] ELSE row[u]]
  /\ poller' = [poller EXCEPT !.at = "routing", !.done = {}]
  /\ UNCHANGED <<sent, offset, passes, paused, notices, lane, drain, catchup, answered>>

\* A variant of Waiting that takes the batch just read alone.
WaitingNow == {u \in Rows("pending") : \A v \in Update : row[v].status # "absent" => v <= u}

\* What enqueue_channel_pass claims: every waiting row.
Waiting == Rows("pending")

\* route_channel_pass: one pass for everything that waits, unless there is
\* nothing or a channel pass is active.
Route ==
  /\ poller.at = "routing"
  /\ poller' = IdlePoller
  /\ IF Active = {} /\ Waiting # {}
       THEN /\ passes' = Append(passes, "queued")
            /\ row' = [u \in Update |->
                         IF u \in Waiting THEN [status |-> "claimed", pass |-> Len(passes')] ELSE row[u]]
       ELSE UNCHANGED <<passes, row>>
  /\ UNCHANGED <<sent, offset, paused, notices, lane, drain, catchup, answered>>

----------------------------------------------------------------------------
\* The pass lane.

\* fail_stale_running: a pass that is running in the table and old enough.  The
\* lane runs one pass at a time, so while it is idle such a pass has lost its
\* daemon.
FailStale(p) ==
  /\ lane.at = "idle"
  /\ p \in DOMAIN passes /\ passes[p] = "running"
  /\ passes' = [passes EXCEPT ![p] = "error"]
  /\ UNCHANGED <<sent, offset, row, paused, notices, memoryVars, answered>>

\* pass_lane reads the pause flag.
CheckPause ==
  /\ lane.at = "idle" /\ ~paused
  /\ \E p \in DOMAIN passes : passes[p] = "queued"
  /\ lane' = [lane EXCEPT !.at = "unpaused"]
  /\ UNCHANGED <<sent, tableVars, poller, drain, catchup, answered>>

\* claim_queued_pass: the oldest one.
ClaimPass(p) ==
  /\ lane.at = "unpaused"
  /\ IsFirst(p, {q \in DOMAIN passes : passes[q] = "queued"})
  /\ passes' = [passes EXCEPT ![p] = "running"]
  /\ lane' = [at |-> "running", pass |-> p]
  /\ UNCHANGED <<sent, offset, row, paused, notices, poller, drain, catchup, answered>>

\* A variant of FinishPass that leaves the pass with the lane.
FinishPassKeeping ==
  /\ lane.at = "running"
  /\ \E status \in Terminal : passes' = [passes EXCEPT ![lane.pass] = status]
  /\ lane' = [lane EXCEPT !.at = "idle"]
  /\ UNCHANGED <<sent, offset, row, paused, notices, poller, drain, catchup, answered>>

\* finish_pass: done when the harness ended well; error for a failure, the
\* deadline, a pause, or a pass that could not start.
FinishPass ==
  /\ lane.at = "running"
  /\ \E status \in Terminal : passes' = [passes EXCEPT ![lane.pass] = status]
  /\ lane' = IdleLane
  /\ UNCHANGED <<sent, offset, row, paused, notices, poller, drain, catchup, answered>>

----------------------------------------------------------------------------
\* The fold of settled passes.

\* A variant of Settled that overlooks the passes that failed.
SettledDone == {p \in DOMAIN passes : passes[p] = "done"
                                      /\ \E u \in RowsOf(p) : row[u].status = "claimed"}

\* The passes that have ended and still hold claimed rows.
Settled == {p \in DOMAIN passes : passes[p] \in Terminal
                                  /\ \E u \in RowsOf(p) : row[u].status = "claimed"}

\* A variant of ToReport that looks at every failed pass again.
ToReportAgain == {p \in DOMAIN passes : passes[p] = "error"}

\* The passes whose failure a fold reports.
ToReport == {p \in Settled : passes[p] = "error"}

\* How a settled pass leaves its rows.
Verdict(p) == IF passes[p] = "done" THEN "handled" ELSE "failed"

\* _insert_notice.
NewNotice(of, holdable) == [of |-> of, holdable |-> holdable, via |-> "queued", shown |-> FALSE]

\* fold_settled_inbox: every settled pass at once, its rows and its notice.
Fold ==
  /\ Settled # {}
  /\ row' = [u \in Update |->
               IF row[u].status = "claimed" /\ row[u].pass \in Settled
                 THEN [row[u] EXCEPT !.status = Verdict(row[u].pass)]
                 ELSE row[u]]
  /\ LET n == Cardinality(ToReport)
     IN  \E f \in [1 .. n -> ToReport] :
           /\ \A p \in ToReport : \E i \in 1 .. n : f[i] = p
           /\ notices' = notices \o [i \in 1 .. n |-> NewNotice(f[i], FALSE)]
  /\ UNCHANGED <<sent, offset, passes, paused, memoryVars, answered>>

----------------------------------------------------------------------------
\* Notices.

\* queue_notice from any other part of the daemon.
QueueNotice(holdable) ==
  /\ Cardinality({i \in DOMAIN notices : notices[i].of = 0}) < MaxOther
  /\ notices' = Append(notices, NewNotice(0, holdable))
  /\ UNCHANGED <<sent, offset, row, passes, paused, memoryVars, answered>>

\* claim_queued_notices: the oldest, without the holdable ones in quiet hours.
Oldest(S) == {i \in S : Cardinality({j \in S : j < i}) < Batch}

\* What may be delivered now.
Claimable(quiet) == {i \in Queued : quiet => ~notices[i].holdable}

\* A variant of DrainStart that stamps what it takes.
DrainStartStamping(quiet) ==
  /\ drain.at = "idle" /\ ~paused
  /\ Claimable(quiet) # {}
  /\ drain' = [at |-> "deliver", left |-> Oldest(Claimable(quiet))]
  /\ notices' = [i \in DOMAIN notices |->
                   IF i \in drain'.left THEN [notices[i] EXCEPT !.via = "channel"] ELSE notices[i]]
  /\ UNCHANGED <<sent, offset, row, passes, paused, poller, lane, catchup, answered>>

\* drain_notices reads the pause flag and takes a batch.
DrainStart(quiet) ==
  /\ drain.at = "idle" /\ ~paused
  /\ Claimable(quiet) # {}
  /\ drain' = [at |-> "deliver", left |-> Oldest(Claimable(quiet))]
  /\ UNCHANGED <<sent, tableVars, poller, lane, catchup, answered>>

Turn(i) == IsFirst(i, drain.left)

\* The provider's deliver: the message is in the chat.
Deliver(i) ==
  /\ drain.at = "deliver" /\ Turn(i)
  /\ notices' = [notices EXCEPT ![i].shown = TRUE]
  /\ drain' = [drain EXCEPT !.at = "stamp"]
  /\ UNCHANGED <<sent, offset, row, passes, paused, poller, lane, catchup, answered>>

\* A variant of AfterFailure that goes on with the next notice.
AfterFailureNext(i) ==
  IF drain.left = {i} THEN IdleDrain ELSE [at |-> "deliver", left |-> drain.left \ {i}]

\* What is left of a drain after a failed delivery: nothing, the lane backs off.
AfterFailure(i) == IdleDrain

\* deliver raises, before or after the message went out; the try is counted
\* and the notice stays queued.
DeliverFails(i) ==
  /\ drain.at = "deliver" /\ Turn(i)
  /\ \E out \in BOOLEAN : notices' = [notices EXCEPT ![i].shown = @ \/ out]
  /\ drain' = AfterFailure(i)
  /\ UNCHANGED <<sent, offset, row, passes, paused, poller, lane, catchup, answered>>

\* mark_notice_delivered.
Stamp(i) ==
  /\ drain.at = "stamp" /\ Turn(i)
  /\ notices' = [notices EXCEPT ![i].via = "channel"]
  /\ drain' = IF drain.left = {i} THEN IdleDrain
                                  ELSE [at |-> "deliver", left |-> drain.left \ {i}]
  /\ UNCHANGED <<sent, offset, row, passes, paused, poller, lane, catchup, answered>>

\* get_catchup reads the queued notices, and then stamps them one by one.
CatchupRead ==
  /\ catchup = {} /\ Queued # {}
  /\ catchup' = Queued
  /\ UNCHANGED <<sent, tableVars, poller, lane, drain, answered>>

CatchupStamp(i) ==
  /\ IsFirst(i, catchup)
  /\ notices' = [notices EXCEPT ![i].via = "catchup"]
  /\ catchup' = catchup \ {i}
  /\ UNCHANGED <<sent, offset, row, passes, paused, poller, lane, drain, answered>>

\* The daemon dies at any point and starts again.
Crash ==
  /\ Failures
  /\ poller' = IdlePoller
  /\ lane' = IdleLane
  /\ drain' = IdleDrain
  /\ catchup' = {}
  /\ UNCHANGED <<sent, tableVars, answered>>

Next ==
  \/ \E kind \in UpdateKind : Write(kind)
  \/ \E value \in BOOLEAN : SetPaused(value)
  \/ Fetch \/ PollFails \/ Ingest \/ MarkHandled \/ Route
  \/ \E u \in Update : FastPath(u)
  \/ CheckPause \/ FinishPass \/ Fold
  \/ \E p \in PassId : FailStale(p) \/ ClaimPass(p)
  \/ \E b \in BOOLEAN : QueueNotice(b) \/ DrainStart(b)
  \/ CatchupRead
  \/ \E i \in NoticeId : Deliver(i) \/ DeliverFails(i) \/ Stamp(i) \/ CatchupStamp(i)
  \/ Crash

Spec == Init /\ [][Next]_vars

\* The lanes come round for ever, a pass has a deadline and the sweep has an age.
\* The daemon may die again and again, but not at the same step each time, and
\* the chat takes a message now and then.
LaneFairness ==
  /\ WF_vars(CheckPause) /\ SF_vars(\E p \in PassId : ClaimPass(p)) /\ WF_vars(FinishPass)
  /\ WF_vars(\E p \in PassId : FailStale(p))
  /\ WF_vars(Fold)
  /\ WF_vars(Claimable(TRUE) # {} /\ \E quiet \in BOOLEAN : DrainStart(quiet))
  /\ SF_vars(\E i \in NoticeId : Deliver(i)) /\ SF_vars(\E i \in NoticeId : Stamp(i))
FairSpec == Spec /\ LaneFairness

\* The poller polls, and its tick goes through now and then.
PollerFairness ==
  /\ WF_vars(Fetch) /\ SF_vars(Ingest) /\ SF_vars(\E u \in Update : FastPath(u))
  /\ SF_vars(MarkHandled) /\ SF_vars(Route)
PollSpec == FairSpec /\ PollerFairness

----------------------------------------------------------------------------
\* Properties.

\* The rows, the passes and what the loops keep: the lane holds the pass it runs,
\* and one channel pass at most is active.
TypeOK ==
  /\ sent \in Seq(UpdateKind) /\ Len(sent) <= MaxUpdates
  /\ offset \in 1 .. Len(sent) + 1
  /\ row \in [Update -> Row]
  /\ passes \in Seq(PassStatus) /\ Len(passes) <= MaxUpdates
  /\ paused \in BOOLEAN
  /\ notices \in Seq(Notice) /\ Len(notices) <= MaxUpdates + MaxOther
  /\ poller \in Poller /\ lane \in Lane /\ drain \in Drain
  /\ IF lane.at = "running" THEN passes[lane.pass] = "running" ELSE lane.pass = 0
  /\ Cardinality(Active) <= 1
  /\ catchup \subseteq DOMAIN notices
  /\ answered \subseteq Update

\* An acknowledged update is in the inbox: whatever the offset has passed has a
\* row, unless it came from another chat.
CursorIsIngested ==
  \A u \in DOMAIN sent : u < offset /\ sent[u] # "stranger" => row[u].status # "absent"

\* What became of a message, in its row: handled because its fast path was
\* applied or its pass ended well, and failed because its pass failed.
VerdictIsTrue ==
  \A u \in Update :
    /\ row[u].status = "handled" =>
         IF row[u].pass = 0 THEN u \in answered ELSE passes[row[u].pass] = "done"
    /\ row[u].status = "failed" => passes[row[u].pass] = "error"

\* A pass that failed is reported once, when its rows are folded, and no other
\* pass is.
ToldOnce ==
  \A p \in DOMAIN passes :
    Cardinality({i \in DOMAIN notices : notices[i].of = p}) =
      IF \E u \in RowsOf(p) : row[u].status = "failed" THEN 1 ELSE 0

\* A notice stamped as delivered to the chat has been sent there.
DeliveredWasShown == \A i \in DOMAIN notices : notices[i].via = "channel" => notices[i].shown

\* The rows tell the truth of what became of the seller's messages and of the
\* notices to the seller, whatever failed, crashed or was paused between.
ToldTruly == VerdictIsTrue /\ ToldOnce /\ DeliveredWasShown

\* The agent reads the seller in order: when a message has reached a pass, each
\* earlier one has reached that pass or an earlier one, or was answered.
NothingOvertaken ==
  \A u, v \in Update :
    u < v /\ row[v].pass # 0 /\ sent[u] # "stranger" =>
      \/ row[u].pass \in 1 .. row[v].pass
      \/ row[u].pass = 0 /\ row[u].status = "handled"

\* Notices reach the seller in the order they were queued, but for those that
\* quiet hours hold back and those an attended session has read.
NoticesInOrder ==
  \A i, j \in DOMAIN notices :
    i < j /\ notices[j].shown /\ (notices[i].holdable => notices[j].holdable) =>
      notices[i].shown \/ notices[i].via = "catchup"

\* No crash leaves the seller's messages claimed for ever: once the agent is
\* not paused any more, a claimed message is handled, or the seller is told that
\* it was not, at any hour and behind any notice that is held back.
EveryClaimIsAnswered ==
  <>[]~paused =>
    \A u \in Update : row[u].status = "claimed" ~>
      \/ row[u].status = "handled"
      \/ /\ row[u].status = "failed"
         /\ \E i \in DOMAIN notices : /\ notices[i].of = row[u].pass
                                      /\ notices[i].shown \/ notices[i].via = "catchup"

\* What docs/channels.md says of a batch that arrives while a pass is active: it
\* waits for the next pass, which takes it.
LateArrivalIsRouted ==
  <>[]~paused =>
    \A u \in Update :
      (row[u].status = "pending" /\ sent[u] = "text" /\ Active # {} /\ poller.at = "routing")
        ~> row[u].status # "pending"

=============================================================================
