--------------------------- MODULE ReplyLaneProofs ---------------------------
(***************************************************************************)
(* What ReplyLane keeps for any number of threads, markets, messages and   *)
(* sends in flight: the types, and that a handled message was given to the *)
(* sender whose reply handled it.                                          *)
(***************************************************************************)
EXTENDS ReplyLane, TLAPS

\* A slot in use keeps what its caller was given: the claim is never ahead of
\* what the caller had seen, and neither is the message it named.
Ordered(r) == r.claim <= r.seen /\ r.named <= r.seen
SlotsOrdered == \A s \in Slots : send[s].stage # "free" => Ordered(send[s])

\* The inductive invariant.
IInv == /\ TypeOK
        /\ SlotsOrdered
        /\ CursorWasGiven

LEMMA InitInv ==
  ASSUME Init
  PROVE  IInv
<1> USE LaneAssumption DEF Init
<1>1. \A s \in Slots : send[s] = Free /\ send[s].stage = "free"
  BY DEF Free
<1>2. TypeOK
  <2>1. send \in [Slots -> Send \cup {Free}]
    OBVIOUS
  <2>2. \A s \in Slots : send[s].stage = "committed" => send[s].live
    BY <1>1
  <2>3. 0 \in 0 .. MaxMessages
    OBVIOUS
  <2> QED
    BY <2>1, <2>2, <2>3 DEF TypeOK
<1>3. SlotsOrdered
  BY <1>1 DEF SlotsOrdered
<1>4. CursorWasGiven
  BY DEF CursorWasGiven
<1> QED
  BY <1>2, <1>3, <1>4 DEF IInv

\* A slot in use holds an intent.
LEMMA UsedSlot ==
  ASSUME TypeOK, NEW s \in Slots, send[s] # Free
  PROVE  send[s] \in Send /\ send[s].stage # "free"
  BY DEF TypeOK, Send, Stage

\* Replacing one slot by an ordered intent or by a free one keeps the slots.
LEMMA SlotStep ==
  ASSUME IInv, NEW s \in Slots, NEW r \in Send \cup {Free},
         r.stage = "committed" => r.live,
         r # Free => Ordered(r),
         send' = [send EXCEPT ![s] = r]
  PROVE  /\ send' \in [Slots -> Send \cup {Free}]
         /\ \A u \in Slots : send'[u].stage = "committed" => send'[u].live
         /\ SlotsOrdered'
<1>1. send' \in [Slots -> Send \cup {Free}]
  BY DEF IInv, TypeOK
<1>2. \A u \in Slots : send'[u] = IF u = s THEN r ELSE send[u]
  BY DEF IInv, TypeOK
<1>3. \A u \in Slots : send'[u].stage = "committed" => send'[u].live
  BY <1>2 DEF IInv, TypeOK
<1>4. r.stage # "free" => r # Free
  BY DEF Free
<1>5. SlotsOrdered'
  BY <1>2, <1>4 DEF IInv, SlotsOrdered, Ordered
<1> QED
  BY <1>1, <1>3, <1>5

\* What reaches a thread from the page and the seller.
LEMMA ThreadStep ==
  ASSUME IInv, NEW t \in Threads,
         Inbound(t) \/ ManualReply(t) \/ HandToSeller(t) \/ HoldHandled(t) \/ HandBack(t)
  PROVE  IInv'
<1> USE LaneAssumption DEF IInv, laneVars, SlotsOrdered, Ordered
<1>1. CASE Inbound(t)
  BY <1>1 DEF Inbound, TypeOK, CursorWasGiven
<1>2. CASE ManualReply(t)
  BY <1>2 DEF ManualReply, TypeOK, CursorWasGiven
<1>3. CASE HandToSeller(t)
  BY <1>3 DEF HandToSeller, TypeOK, CursorWasGiven
<1>4. CASE HoldHandled(t)
  BY <1>4 DEF HoldHandled, TypeOK, CursorWasGiven
<1>5. CASE HandBack(t)
  BY <1>5 DEF HandBack, TypeOK, CursorWasGiven
<1> QED
  BY <1>1, <1>2, <1>3, <1>4, <1>5

\* A pass is queued with claims that are messages, and runs.
LEMMA LaneStep ==
  ASSUME IInv, Enqueue \/ StartPass \/ CoolDown
  PROVE  IInv'
<1> USE LaneAssumption DEF IInv, threadVars, SlotsOrdered, Ordered
<1>1. CASE Enqueue
  <2>1. pass' \in Pass
    BY <1>1 DEF Enqueue, TypeOK, Pass
  <2> QED
    BY <1>1, <2>1 DEF Enqueue, TypeOK, CursorWasGiven
<1>2. CASE StartPass
  <2>1. pass' \in Pass
    BY <1>2 DEF StartPass, TypeOK, Pass, NoPass
  <2> QED
    BY <1>2, <2>1 DEF StartPass, TypeOK, CursorWasGiven
<1>3. CASE CoolDown
  BY <1>3 DEF CoolDown, TypeOK, CursorWasGiven
<1> QED
  BY <1>1, <1>2, <1>3

\* A pass that ends leaves its sends to the daemon; a crash leaves the rows.
LEMMA EndStep ==
  ASSUME IInv, EndPass \/ FailStale \/ Crash
  PROVE  IInv'
<1> DEFINE Kept(r) == \/ r = Free
                      \/ r \in Send /\ Ordered(r) /\ (r.stage = "committed" => r.live)
<1>1. ASSUME \A s \in Slots : Kept(send'[s]), send' = [s \in Slots |-> send'[s]]
      PROVE  /\ send' \in [Slots -> Send \cup {Free}]
             /\ \A s \in Slots : send'[s].stage = "committed" => send'[s].live
             /\ SlotsOrdered'
  <2>1. send' \in [Slots -> Send \cup {Free}]
    BY <1>1
  <2>2. \A s \in Slots : send'[s].stage = "committed" => send'[s].live
    BY <1>1 DEF Free
  <2>3. SlotsOrdered'
    BY <1>1 DEF SlotsOrdered, Ordered, Free
  <2> QED
    BY <2>1, <2>2, <2>3
<1>2. ASSUME NEW s \in Slots, send[s] # Free
      PROVE  /\ send[s] \in Send /\ send[s].stage # "free" /\ Ordered(send[s])
             /\ send[s].stage = "committed" => send[s].live
  BY <1>2, UsedSlot DEF IInv, TypeOK, SlotsOrdered
<1>3. CASE EndPass \/ FailStale
  <2>1. Ended /\ cooling' \in BOOLEAN /\ UNCHANGED <<threadVars, paced, given>>
    BY <1>3 DEF EndPass, FailStale, IInv, TypeOK, Pass
  <2>2. ASSUME NEW s \in Slots
        PROVE  Kept(send'[s])
    <3>1. CASE send[s] = Free
      BY <2>1, <3>1 DEF Ended, Free
    <3>2. CASE send[s] # Free
      <4>1. send'[s] = send[s] \/ send'[s] = [send[s] EXCEPT !.by = "endedPass"]
        BY <2>1 DEF Ended
      <4> QED
        BY <1>2, <3>2, <4>1 DEF Send, Caller, Ordered
    <3> QED
      BY <3>1, <3>2
  <2>3. send' = [s \in Slots |-> send'[s]]
    BY <2>1 DEF Ended
  <2> HIDE DEF Kept
  <2> QED
    BY <1>1, <2>1, <2>2, <2>3 DEF Ended, IInv, TypeOK, CursorWasGiven, threadVars
<1>4. CASE Crash
  <2>1. ASSUME NEW s \in Slots
        PROVE  Kept(send'[s])
    <3>1. CASE send'[s] = Free
      BY <3>1
    <3>2. CASE send'[s] # Free
      <4>1. /\ send[s] # Free
            /\ send[s].stage # "committed"
            /\ send'[s] = [send[s] EXCEPT !.live = FALSE]
        BY <1>4, <3>2 DEF Crash, Free
      <4> QED
        BY <1>2, <4>1 DEF Send, Ordered
    <3> QED
      BY <3>1, <3>2
  <2>2. send' = [s \in Slots |-> send'[s]]
    BY <1>4 DEF Crash
  <2>3. pass' \in Pass \cup {NoPass}
    BY <1>4 DEF Crash, IInv, TypeOK, Pass, NoPass
  <2> HIDE DEF Kept
  <2> QED
    BY <1>1, <1>4, <2>1, <2>2, <2>3 DEF Crash, IInv, TypeOK, CursorWasGiven, threadVars
<1> QED
  BY <1>3, <1>4

\* A reservation starts from what its caller had seen.
LEMMA ReserveStep ==
  ASSUME IInv, NEW s \in Slots, NEW t \in Threads,
         NEW by \in Caller, NEW kind \in Kind,
         NEW claim \in 0 .. MaxMessages, NEW seen \in Message,
         claim <= seen, ReserveIn(s, t, by, kind, claim, seen)
  PROVE  IInv'
<1> USE LaneAssumption
<1>1. PICK named \in 0 .. seen :
        send' = [send EXCEPT ![s] =
                   [stage |-> "pending", thread |-> t, live |-> TRUE, by |-> by, kind |-> kind,
                    claim |-> claim, named |-> named, seen |-> seen]]
  BY DEF ReserveIn
<1> DEFINE r == [stage |-> "pending", thread |-> t, live |-> TRUE, by |-> by, kind |-> kind,
                 claim |-> claim, named |-> named, seen |-> seen]
<1>2. r \in Send /\ Ordered(r) /\ r.stage # "committed"
  BY <1>1 DEF Send, Stage, Message, Ordered
<1>3. send' = [send EXCEPT ![s] = r]
  BY <1>1
<1> HIDE DEF r
<1>4. /\ send' \in [Slots -> Send \cup {Free}]
      /\ \A u \in Slots : send'[u].stage = "committed" => send'[u].live
      /\ SlotsOrdered'
  BY <1>2, <1>3, SlotStep
<1>5. pass' \in Pass \cup {NoPass}
  BY DEF ReserveIn, Claimed, IInv, TypeOK, Pass, NoPass
<1> QED
  BY <1>4, <1>5 DEF ReserveIn, IInv, TypeOK, CursorWasGiven, threadVars

\* A caller or the sweep moves an intent on; no cursor moves.
LEMMA StageStep ==
  ASSUME IInv, NEW s \in Slots, Mark(s) \/ GiveBack(s) \/ Sweep(s) \/ Forget(s)
  PROVE  IInv'
<1>1. send[s] # Free
  BY DEF Mark, GiveBack, Sweep, Forget
<1>2. /\ send[s] \in Send /\ Ordered(send[s])
      /\ send[s].stage = "committed" => send[s].live
  BY <1>1, UsedSlot DEF IInv, TypeOK, SlotsOrdered
<1>3. \E r \in Send \cup {Free} :
        /\ r.stage = "committed" => r.live
        /\ r # Free => Ordered(r)
        /\ send' = [send EXCEPT ![s] = r]
  <2>1. CASE Mark(s)
    <3> DEFINE r == [send[s] EXCEPT !.stage = "sent_unverified"]
    <3>1. r \in Send /\ Ordered(r) /\ r.stage # "committed"
      BY <1>2 DEF Send, Stage, Ordered
    <3>2. send' = [send EXCEPT ![s] = r]
      BY <2>1 DEF Mark
    <3> QED
      BY <3>1, <3>2
  <2>2. CASE GiveBack(s)
    <3>1. CASE send[s].stage = "committed"
      BY <2>2, <3>1 DEF GiveBack, Free
    <3>2. CASE send[s].stage # "committed"
      <4> DEFINE r == [send[s] EXCEPT !.live = FALSE]
      <4>1. r \in Send /\ Ordered(r) /\ r.stage # "committed"
        BY <1>2, <3>2 DEF Send, Ordered
      <4>2. send' = [send EXCEPT ![s] = r]
        BY <2>2, <3>2 DEF GiveBack
      <4> QED
        BY <4>1, <4>2
    <3> QED
      BY <3>1, <3>2
  <2>3. CASE Sweep(s)
    <3> DEFINE r == [send[s] EXCEPT !.stage = "unconfirmed"]
    <3>1. r \in Send /\ Ordered(r) /\ r.stage # "committed"
      BY <1>2 DEF Send, Stage, Ordered
    <3>2. send' = [send EXCEPT ![s] = r]
      BY <2>3 DEF Sweep
    <3> QED
      BY <3>1, <3>2
  <2>4. CASE Forget(s)
    BY <2>4 DEF Forget, Free
  <2> QED
    BY <2>1, <2>2, <2>3, <2>4
<1>4. /\ send' \in [Slots -> Send \cup {Free}]
      /\ \A u \in Slots : send'[u].stage = "committed" => send'[u].live
      /\ SlotsOrdered'
  BY <1>3, SlotStep
<1>5. UNCHANGED <<newest, cursor, manual, laneVars, given>>
  BY DEF Mark, GiveBack, Sweep, Forget, threadVars
<1>6. owner' \in [Threads -> {"agent", "seller"}]
  BY DEF Mark, GiveBack, Sweep, Forget, threadVars, IInv, TypeOK
<1> QED
  BY <1>4, <1>5, <1>6 DEF IInv, TypeOK, CursorWasGiven, laneVars

\* A reply on record moves the cursor to a message its sender was given.
LEMMA RecordStep ==
  ASSUME IInv, NEW r \in Send, Ordered(r), NEW claim \in {0, r.claim}, Record(r, claim)
  PROVE  /\ cursor' \in [Threads -> 0 .. MaxMessages]
         /\ given' \in [Threads -> 0 .. MaxMessages]
         /\ CursorWasGiven'
<1> USE LaneAssumption
<1>1. /\ r.thread \in Threads /\ r.seen \in 1 .. MaxMessages
      /\ r.claim \in 0 .. MaxMessages /\ r.named \in 0 .. MaxMessages
  BY DEF Send, Message
<1>2. CursorTarget(r, claim) \in 0 .. MaxMessages
  BY <1>1 DEF CursorTarget, IInv, TypeOK
<1>3. SpeaksFor(r, claim) \in 0 .. MaxMessages
  BY <1>1 DEF SpeaksFor, IInv, TypeOK
<1>4. /\ cursor' = [cursor EXCEPT ![r.thread] = CursorTarget(r, claim)]
      /\ given' = [given EXCEPT ![r.thread] =
                     IF SpeaksFor(r, claim) > @ THEN SpeaksFor(r, claim) ELSE @]
  BY DEF Record
<1>5. cursor' \in [Threads -> 0 .. MaxMessages] /\ given' \in [Threads -> 0 .. MaxMessages]
  BY <1>1, <1>2, <1>3, <1>4 DEF IInv, TypeOK
<1>6. CursorTarget(r, claim) = cursor[r.thread] \/ CursorTarget(r, claim) <= SpeaksFor(r, claim)
  <2>1. CASE r.kind = "holding"
    BY <2>1 DEF CursorTarget
  <2>2. CASE r.kind # "holding"
    BY <1>1, <2>2 DEF CursorTarget, SpeaksFor, Ordered, IInv, TypeOK
  <2> QED
    BY <2>1, <2>2
<1>7. cursor[r.thread] <= given[r.thread]
  BY <1>1 DEF IInv, CursorWasGiven
<1>8. cursor'[r.thread] <= given'[r.thread]
  BY <1>1, <1>2, <1>3, <1>4, <1>6, <1>7 DEF IInv, TypeOK
<1>9. CursorWasGiven'
  BY <1>1, <1>4, <1>8 DEF IInv, TypeOK, CursorWasGiven
<1> QED
  BY <1>5, <1>9

\* The caller commits, or a tick settles.
LEMMA HandledStep ==
  ASSUME IInv, NEW s \in Slots, Commit(s) \/ Settle(s)
  PROVE  IInv'
<1>1. send[s] \in Send /\ Ordered(send[s])
  BY UsedSlot DEF Commit, Settle, IInv, SlotsOrdered
<1>2. /\ cursor' \in [Threads -> 0 .. MaxMessages]
      /\ given' \in [Threads -> 0 .. MaxMessages]
      /\ CursorWasGiven'
  <2>1. Record(send[s], send[s].claim) \/ Record(send[s], 0)
    BY DEF Commit, Settle
  <2> QED
    BY <1>1, <2>1, RecordStep
<1>3. \E r \in Send \cup {Free} :
        /\ r.stage = "committed" => r.live
        /\ r # Free => Ordered(r)
        /\ send' = [send EXCEPT ![s] = r]
  <2>1. CASE send' = [send EXCEPT ![s] = Free]
    BY <2>1 DEF Free
  <2>2. CASE send[s].live /\ send' = [send EXCEPT ![s] = [@ EXCEPT !.stage = "committed"]]
    <3> DEFINE r == [send[s] EXCEPT !.stage = "committed"]
    <3>1. r \in Send /\ Ordered(r) /\ r.live
      BY <1>1, <2>2 DEF Send, Stage, Ordered
    <3>2. send' = [send EXCEPT ![s] = r]
      BY <2>2
    <3> QED
      BY <3>1, <3>2
  <2> QED
    BY <2>1, <2>2 DEF Commit, Settle
<1>4. /\ send' \in [Slots -> Send \cup {Free}]
      /\ \A u \in Slots : send'[u].stage = "committed" => send'[u].live
      /\ SlotsOrdered'
  BY <1>3, SlotStep
<1>5. owner' \in [Threads -> {"agent", "seller"}]
  BY <1>1 DEF Commit, Settle, IInv, TypeOK, Send
<1> QED
  BY <1>2, <1>4, <1>5 DEF Commit, Settle, IInv, TypeOK, laneVars

\* Whatever order reads, passes, crashes, callers and ticks come in.
THEOREM Invariance == Spec => []IInv
<1>1. Init => IInv
  BY InitInv
<1>2. IInv /\ [Next]_vars => IInv'
  <2> SUFFICES ASSUME IInv, [Next]_vars
               PROVE  IInv'
    OBVIOUS
  <2>1. ASSUME NEW m \in Markets, PaceOut(m) \/ PaceFree(m)
        PROVE  IInv'
    BY <2>1 DEF PaceOut, PaceFree, IInv, TypeOK, SlotsOrdered, Ordered, CursorWasGiven, threadVars
  <2>2. ASSUME NEW s \in Slots, NEW t \in Threads, AttendedReserve(s, t)
        PROVE  IInv'
    <3>1. PICK seen \in 1 .. newest[t] : ReserveIn(s, t, "attended", "reply", 0, seen)
      BY <2>2 DEF AttendedReserve
    <3>2. seen \in Message /\ 0 <= seen /\ 0 \in 0 .. MaxMessages
      BY <3>1, LaneAssumption DEF IInv, TypeOK, Message
    <3> QED
      BY <3>1, <3>2, ReserveStep DEF Caller, Kind
  <2>3. ASSUME NEW s \in Slots, NEW t \in Threads, NEW k \in Kind, PassReserve(s, t, k)
        PROVE  IInv'
    <3>1. pass \in Pass /\ pass.claim[t] > 0
      BY <2>3 DEF PassReserve, Claimed, IInv, TypeOK
    <3>2. PICK seen \in pass.claim[t] .. newest[t] :
            ReserveIn(s, t, "pass", k, pass.claim[t], seen)
      BY <2>3 DEF PassReserve
    <3>3. /\ pass.claim[t] \in 0 .. MaxMessages
          /\ seen \in Message /\ pass.claim[t] <= seen
      BY <3>1, <3>2, LaneAssumption DEF IInv, TypeOK, Message, Pass
    <3> QED
      BY <3>2, <3>3, ReserveStep DEF Caller
  <2>4. CASE UNCHANGED vars
    BY <2>4 DEF vars, threadVars, laneVars, IInv, TypeOK, SlotsOrdered, Ordered, CursorWasGiven
  <2> QED
    BY <2>1, <2>2, <2>3, <2>4, ThreadStep, LaneStep, EndStep, StageStep, HandledStep DEF Next
<1> QED
  BY <1>1, <1>2, PTL DEF Spec

\* Every row keeps its type, and a settled intent is kept for its caller alone.
THEOREM TypeCorrect == Spec => []TypeOK
<1>1. IInv => TypeOK
  BY DEF IInv
<1> QED
  BY <1>1, Invariance, PTL

\* A message counts as handled only by a hold or by a reply whose sender had seen
\* it, or which had neither a claim nor a name (the rule of _cursor_target), for
\* any number of threads, passes, callers and messages.
THEOREM HandledWasGiven == Spec => []CursorWasGiven
<1>1. IInv => CursorWasGiven
  BY DEF IInv
<1> QED
  BY <1>1, Invariance, PTL

=============================================================================
