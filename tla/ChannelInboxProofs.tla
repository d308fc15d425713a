------------------------- MODULE ChannelInboxProofs -------------------------
(***************************************************************************)
(* What the seller's channel keeps for any number of updates and notices,  *)
(* any batch of a drain, and any failures, crashes and pauses: the cursor  *)
(* never passes a message by, messages reach the agent in order, rows and  *)
(* notices tell the truth, and notices are delivered in order.             *)
(***************************************************************************)
EXTENDS ChannelInbox, FiniteSetTheorems, SequenceTheorems, TLAPS

\* The types of the variables, one by one; the counts of TypeOK follow later.
SentType == sent \in Seq(UpdateKind) /\ Len(sent) <= MaxUpdates
OffsetType == offset \in 1 .. Len(sent) + 1
RowType == row \in [Update -> Row]
PassType == passes \in Seq(PassStatus)
NoticeType == notices \in Seq(Notice)
Drains == [at : {"idle", "deliver", "stamp"}, left : SUBSET Nat]
LoopType == poller \in Poller /\ lane \in Lane /\ drain \in Drains
Types == /\ SentType /\ OffsetType /\ RowType /\ PassType /\ NoticeType /\ LoopType
         /\ paused \in BOOLEAN /\ answered \subseteq Update
         /\ drain.left \subseteq DOMAIN notices /\ catchup \subseteq DOMAIN notices

\* A row stands for an update of the bound chat that the cursor has passed, and
\* whether it has a pass shows in its status.
RowsMatch ==
  \A u \in Update :
    /\ row[u].status # "absent" => u < offset /\ sent[u] # "stranger"
    /\ row[u].status \in {"absent", "pending"} => row[u].pass = 0
    /\ row[u].status \in {"claimed", "failed"} => row[u].pass # 0

\* Passes are numbered in the order of their messages, and none is empty, so
\* there are no more of them than messages.
PassesMatch ==
  /\ \A u \in Update : row[u].pass <= Len(passes) /\ row[u].pass <= u
  /\ \A p \in DOMAIN passes : \E u \in Update : row[u].pass = p

\* What the poller remembers of the database between its steps.
PollerKnows ==
  /\ poller.at = "fetched" => poller.upto \in offset .. Len(sent)
  /\ poller.at # "fast" => poller.todo = {} /\ poller.done = {}
  /\ \A u \in poller.todo \cup poller.done : row[u].status = "pending"
  /\ poller.done \subseteq answered

\* The lane holds the pass it runs, and no other pass is active.
LaneHolds ==
  /\ IF lane.at = "running" THEN lane.pass \in DOMAIN passes /\ passes[lane.pass] = "running"
                            ELSE lane.pass = 0
  /\ \A p, q \in Active : p = q

\* The rows of a pass are failed together, and every failed pass has one notice.
Reports(p) == {i \in DOMAIN notices : notices[i].of = p}
Others == Reports(0)
Failed(p) == \E u \in RowsOf(p) : row[u].status = "failed"
FailedTogether == \A u, v \in Update : row[u].status = "claimed" /\ row[v].status = "failed" =>
                                         row[u].pass # row[v].pass
OneReport ==
  /\ \A i \in DOMAIN notices : notices[i].of # 0 => Failed(notices[i].of)
  /\ \A u \in Update : row[u].status = "failed" => \E i \in Reports(row[u].pass) : TRUE
  /\ \A i, j \in DOMAIN notices : notices[i].of = notices[j].of /\ notices[i].of # 0 => i = j

\* What the drain remembers: the notice it stamps was sent, and the notices that
\* came before the ones it holds have reached the seller, or are held back.
Reached(i) == notices[i].shown \/ notices[i].via = "catchup"
Before(i, j) == i < j /\ (notices[i].holdable => notices[j].holdable)
DrainKnows ==
  /\ \A i \in drain.left : drain.at = "stamp" /\ Turn(i) => notices[i].shown
  /\ \A i \in DOMAIN notices, j \in drain.left :
       Before(i, j) /\ i \notin drain.left => Reached(i)

\* The inductive invariant.
InboxInv == RowsMatch /\ PassesMatch /\ CursorIsIngested /\ NothingOvertaken
VerdictInv == LaneHolds /\ VerdictIsTrue /\ FailedTogether /\ OneReport
DrainInv == DrainKnows /\ DeliveredWasShown /\ NoticesInOrder
IInv == /\ Types /\ InboxInv /\ PollerKnows /\ VerdictInv /\ DrainInv
        /\ Cardinality(Others) <= MaxOther

----------------------------------------------------------------------------
\* What the types say of the variables' parts.

Status == {"absent", "pending", "claimed", "handled", "failed"}

LEMMA RowFacts ==
  ASSUME RowType, NEW u \in Update
  PROVE  row[u] \in Row /\ row[u].status \in Status /\ row[u].pass \in 0 .. MaxUpdates
  BY DEF RowType, Row, Status

LEMMA SentFacts ==
  ASSUME SentType, OffsetType
  PROVE  /\ Len(sent) \in Nat /\ DOMAIN sent = 1 .. Len(sent)
         /\ Len(sent) <= MaxUpdates /\ DOMAIN sent \subseteq Update
         /\ offset \in Nat \ {0} /\ offset <= Len(sent) + 1
<1>1. Len(sent) \in Nat /\ DOMAIN sent = 1 .. Len(sent)
  BY LenProperties DEF SentType
<1> QED
  BY <1>1, ChannelAssumption DEF SentType, OffsetType, Update

LEMMA PassFacts ==
  ASSUME PassType
  PROVE  /\ Len(passes) \in Nat /\ DOMAIN passes = 1 .. Len(passes)
         /\ \A p \in DOMAIN passes : passes[p] \in PassStatus
  BY LenProperties, ElementOfSeq DEF PassType

LEMMA NoticeFacts ==
  ASSUME NoticeType
  PROVE  /\ Len(notices) \in Nat /\ DOMAIN notices = 1 .. Len(notices)
         /\ \A i \in DOMAIN notices :
              /\ notices[i] \in Notice
              /\ notices[i].of \in 0 .. MaxUpdates /\ notices[i].holdable \in BOOLEAN
              /\ notices[i].via \in {"queued", "channel", "catchup"} /\ notices[i].shown \in BOOLEAN
<1>1. /\ Len(notices) \in Nat /\ DOMAIN notices = 1 .. Len(notices)
      /\ \A i \in DOMAIN notices : notices[i] \in Notice
  BY LenProperties, ElementOfSeq DEF NoticeType
<1> QED
  BY <1>1 DEF Notice

\* What the actions that write rows leave in each of them.
LEMMA IngestRows ==
  ASSUME RowType, Ingest, NEW u \in Update
  PROVE  /\ row'[u] = IF u \in New THEN [status |-> "pending", pass |-> 0] ELSE row[u]
         /\ u \in New => row[u].status = "absent" /\ row'[u].status = "pending" /\ row'[u].pass = 0
         /\ u \notin New => row'[u] = row[u]
  BY DEF Ingest, New

LEMMA MarkRows ==
  ASSUME RowType, MarkHandled, NEW u \in Update
  PROVE  /\ row'[u].pass = row[u].pass
         /\ row'[u].status = IF u \in poller.done THEN "handled" ELSE row[u].status
<1>1. row[u] \in Row
  BY RowFacts
<1>2. row'[u] = IF u \in poller.done THEN [row[u] EXCEPT !.status = "handled"] ELSE row[u]
  BY DEF MarkHandled, Answered
<1> QED
  BY <1>1, <1>2 DEF Row

LEMMA RouteRows ==
  ASSUME RowType, PassType, Route
  PROVE  \/ UNCHANGED <<passes, row>>
         \/ /\ Active = {} /\ Rows("pending") # {}
            /\ passes' = Append(passes, "queued") /\ Len(passes') = Len(passes) + 1
            /\ \A u \in Update :
                 /\ row[u].status = "pending" => /\ row'[u].status = "claimed"
                                                 /\ row'[u].pass = Len(passes) + 1
                 /\ row[u].status # "pending" => row'[u] = row[u]
<1>1. CASE Active = {} /\ Waiting # {}
  <2>1. passes' = Append(passes, "queued")
    BY <1>1 DEF Route
  <2>2. Len(passes') = Len(passes) + 1
    BY <2>1, AppendProperties DEF PassType, PassStatus
  <2>3. \A u \in Update : row'[u] = IF u \in Waiting THEN [status |-> "claimed", pass |-> Len(passes')]
                                                      ELSE row[u]
    BY <1>1 DEF Route
  <2>4. \A u \in Update : u \in Waiting <=> row[u].status = "pending"
    BY DEF Waiting, Rows
  <2> QED
    BY <1>1, <2>1, <2>2, <2>3, <2>4 DEF Waiting
<1>2. CASE ~(Active = {} /\ Waiting # {})
  BY <1>2 DEF Route
<1> QED
  BY <1>1, <1>2

LEMMA FoldRows ==
  ASSUME RowType, Fold, NEW u \in Update
  PROVE  /\ row'[u].pass = row[u].pass
         /\ row'[u].status = IF row[u].status = "claimed" /\ row[u].pass \in Settled
                               THEN Verdict(row[u].pass) ELSE row[u].status
<1>1. row[u] \in Row
  BY RowFacts
<1>2. row'[u] = IF row[u].status = "claimed" /\ row[u].pass \in Settled
                  THEN [row[u] EXCEPT !.status = Verdict(row[u].pass)] ELSE row[u]
  BY DEF Fold
<1> QED
  BY <1>1, <1>2 DEF Row

\* The actions that write rows, passes and notices: every other step leaves them.
LEMMA RowWriters ==
  ASSUME [Next]_vars
  PROVE  Ingest \/ MarkHandled \/ Route \/ Fold \/ UNCHANGED row
  BY DEF Next, vars, tableVars, memoryVars, Write, SetPaused, Fetch, PollFails, FastPath, CheckPause,
         FinishPass, FailStale, ClaimPass, QueueNotice, DrainStart, CatchupRead, Deliver, DeliverFails,
         Stamp, CatchupStamp, Crash

LEMMA PassWriters ==
  ASSUME [Next]_vars
  PROVE  \/ Route \/ FinishPass \/ (\E p \in PassId : FailStale(p) \/ ClaimPass(p))
         \/ CheckPause \/ UNCHANGED <<passes, lane>>
         \/ /\ lane' = IdleLane
            /\ passes' = passes
  BY DEF Next, vars, tableVars, memoryVars, Write, SetPaused, Fetch, PollFails, FastPath, Ingest,
         MarkHandled, Fold, QueueNotice, DrainStart, CatchupRead, Deliver, DeliverFails,
         Stamp, CatchupStamp, Crash

LEMMA NoticeWriters ==
  ASSUME [Next]_vars
  PROVE  \/ Fold \/ (\E b \in BOOLEAN : QueueNotice(b) \/ DrainStart(b)) \/ CatchupRead
         \/ (\E i \in NoticeId : Deliver(i) \/ DeliverFails(i) \/ Stamp(i) \/ CatchupStamp(i))
         \/ Crash \/ UNCHANGED <<notices, drain, catchup>>
  BY DEF Next, vars, tableVars, memoryVars, Write, SetPaused, Fetch, PollFails, FastPath, Ingest,
         MarkHandled, Route, CheckPause, FinishPass, FailStale, ClaimPass

\* A function on 1 .. n is a sequence of length n.
LEMMA SequenceOf ==
  ASSUME NEW S, NEW n \in Nat, NEW g \in [1 .. n -> S]
  PROVE  g \in Seq(S) /\ Len(g) = n
<1>1. g \in Seq(S)
  BY SeqDef
<1>2. Len(g) \in Nat /\ DOMAIN g = 1 .. Len(g) /\ DOMAIN g = 1 .. n
  BY <1>1, LenProperties
<1> QED
  BY <1>1, <1>2

\* The notices after a fold: those there were, and one for each pass to report.
LEMMA FoldNotices ==
  ASSUME PassType, NoticeType, Fold, DOMAIN passes \subseteq 1 .. MaxUpdates
  PROVE  /\ NoticeType' /\ Len(notices) <= Len(notices')
         /\ \A i \in DOMAIN notices : notices'[i] = notices[i]
         /\ \A i \in DOMAIN notices' \ DOMAIN notices :
              \E p \in ToReport : notices'[i] = NewNotice(p, FALSE)
         /\ \A p \in ToReport : \E i \in DOMAIN notices' \ DOMAIN notices : notices'[i].of = p
         /\ \A i, j \in DOMAIN notices' \ DOMAIN notices : notices'[i].of = notices'[j].of => i = j
<1> DEFINE n == Cardinality(ToReport)
<1>1. IsFiniteSet(ToReport) /\ n \in Nat /\ ToReport \subseteq 1 .. MaxUpdates
  <2>1. ToReport \subseteq DOMAIN passes /\ DOMAIN passes = 1 .. Len(passes) /\ Len(passes) \in Nat
    BY PassFacts DEF ToReport, Settled
  <2>2. IsFiniteSet(1 .. Len(passes))
    BY <2>1, FS_Interval
  <2> QED
    BY <2>1, <2>2, FS_Subset, FS_CardinalityType
<1> HIDE DEF n
<1>2. PICK f \in [1 .. n -> ToReport] :
        /\ \A p \in ToReport : \E i \in 1 .. n : f[i] = p
        /\ notices' = notices \o [i \in 1 .. n |-> NewNotice(f[i], FALSE)]
  BY DEF Fold, n
<1> DEFINE added == [i \in 1 .. n |-> NewNotice(f[i], FALSE)]
<1>3. added \in Seq(Notice) /\ Len(added) = n
  <2>1. \A i \in 1 .. n : NewNotice(f[i], FALSE) \in Notice
    <3> TAKE i \in 1 .. n
    <3>1. f[i] \in ToReport
      OBVIOUS
    <3>2. f[i] \in 0 .. MaxUpdates
      BY <3>1, <1>1, 1 .. MaxUpdates \subseteq 0 .. MaxUpdates, ChannelAssumption
    <3> QED
      BY <3>2 DEF NewNotice, Notice
  <2>2. added \in [1 .. n -> Notice]
    BY <2>1
  <2> HIDE DEF added
  <2> QED
    BY <2>2, <1>1, SequenceOf
<1>4. f \in Injection(1 .. n, ToReport)
  <2>1. f \in Surjection(1 .. n, ToReport)
    BY <1>2 DEF Surjection
  <2>2. IsFiniteSet(1 .. n) /\ Cardinality(1 .. n) = n
    BY <1>1, FS_Interval
  <2> QED
    BY <1>1, <2>1, <2>2, FS_SurjSameCardinalityImpliesInj DEF n
<1>5. \A i, j \in 1 .. n : f[i] = f[j] => i = j
  BY <1>4 DEF Injection, IsInjective
<1>6. notices' = notices \o added
  BY <1>2
<1> HIDE DEF added
<1>7. /\ notices' \in Seq(Notice) /\ Len(notices') = Len(notices) + n
      /\ Len(notices) \in Nat /\ DOMAIN notices = 1 .. Len(notices)
      /\ DOMAIN notices' = 1 .. Len(notices) + n
      /\ \A i \in 1 .. Len(notices) + n :
           notices'[i] = IF i <= Len(notices) THEN notices[i] ELSE added[i - Len(notices)]
  BY <1>1, <1>3, <1>6, ConcatProperties, LenProperties DEF NoticeType
<1>8. \A i \in DOMAIN notices' \ DOMAIN notices :
        i - Len(notices) \in 1 .. n /\ notices'[i] = added[i - Len(notices)]
  BY <1>7, <1>1
<1>9. \A k \in 1 .. n : /\ added[k] = NewNotice(f[k], FALSE) /\ added[k].of = f[k]
                        /\ Len(notices) + k \in DOMAIN notices' \ DOMAIN notices
                        /\ notices'[Len(notices) + k] = added[k]
  <2> TAKE k \in 1 .. n
  <2>1. added[k] = NewNotice(f[k], FALSE)
    BY DEF added
  <2>2. added[k].of = f[k]
    BY <2>1 DEF NewNotice
  <2>3. /\ Len(notices) + k \in DOMAIN notices' \ DOMAIN notices
        /\ (Len(notices) + k) - Len(notices) = k
    BY <1>7, <1>1
  <2> QED
    BY <2>1, <2>2, <2>3, <1>8
<1>10. \A i \in DOMAIN notices' \ DOMAIN notices :
         /\ \E p \in ToReport : notices'[i] = NewNotice(p, FALSE)
         /\ notices'[i].of = f[i - Len(notices)]
  <2> TAKE i \in DOMAIN notices' \ DOMAIN notices
  <2> DEFINE k == i - Len(notices)
  <2>1. k \in 1 .. n /\ notices'[i] = added[k]
    BY <1>8
  <2> HIDE DEF k
  <2>2. f[k] \in ToReport /\ notices'[i] = NewNotice(f[k], FALSE) /\ notices'[i].of = f[k]
    BY <2>1, <1>9
  <2> QED
    BY <2>2 DEF k
<1>11. \A p \in ToReport : \E i \in DOMAIN notices' \ DOMAIN notices : notices'[i].of = p
  <2> TAKE p \in ToReport
  <2>1. PICK k \in 1 .. n : f[k] = p
    BY <1>2
  <2> QED
    BY <2>1, <1>9
<1>12. \A i, j \in DOMAIN notices' \ DOMAIN notices : notices'[i].of = notices'[j].of => i = j
  <2> TAKE i, j \in DOMAIN notices' \ DOMAIN notices
  <2> HAVE notices'[i].of = notices'[j].of
  <2> DEFINE k == i - Len(notices)
             l == j - Len(notices)
  <2>a. k \in 1 .. n /\ l \in 1 .. n
    BY <1>8
  <2>b. f[k] = f[l]
    BY <1>10
  <2> HIDE DEF k, l
  <2>c. k = l
    BY <2>a, <2>b, <1>5
  <2>1. i - Len(notices) = j - Len(notices)
    BY <2>c DEF k, l
  <2> QED
    BY <2>1, <1>7, <1>1
<1>13. \A i \in DOMAIN notices : notices'[i] = notices[i]
  BY <1>7, <1>1
<1>14. NoticeType' /\ Len(notices) <= Len(notices')
  BY <1>1, <1>7 DEF NoticeType
<1> QED
  BY <1>10, <1>11, <1>12, <1>13, <1>14

\* The notices after one more was queued.
LEMMA QueuedNotice ==
  ASSUME NoticeType, NEW b \in BOOLEAN, QueueNotice(b)
  PROVE  /\ NoticeType' /\ Len(notices') = Len(notices) + 1
         /\ \A i \in DOMAIN notices : notices'[i] = notices[i]
         /\ DOMAIN notices' = DOMAIN notices \cup {Len(notices) + 1}
         /\ Len(notices) + 1 \notin DOMAIN notices
         /\ notices'[Len(notices) + 1] = NewNotice(0, b)
<1>1. NewNotice(0, b) \in Notice
  BY ChannelAssumption DEF NewNotice, Notice
<1>2. notices' = Append(notices, NewNotice(0, b))
  BY DEF QueueNotice
<1>3. /\ notices' \in Seq(Notice) /\ Len(notices') = Len(notices) + 1
      /\ \A i \in 1 .. Len(notices) : notices'[i] = notices[i]
      /\ notices'[Len(notices) + 1] = NewNotice(0, b)
  BY <1>1, <1>2, AppendProperties DEF NoticeType
<1>4. Len(notices) \in Nat /\ DOMAIN notices = 1 .. Len(notices) /\ DOMAIN notices' = 1 .. Len(notices) + 1
  BY <1>3, LenProperties DEF NoticeType
<1> QED
  BY <1>3, <1>4 DEF NoticeType

\* The actions that mark a notice write that notice, and only that it was shown
\* or how it was stamped.
Edited(i) ==
  /\ NoticeType' /\ DOMAIN notices' = DOMAIN notices
  /\ \A j \in DOMAIN notices : j # i => notices'[j] = notices[j]
  /\ notices'[i].of = notices[i].of /\ notices'[i].holdable = notices[i].holdable
  /\ notices[i].shown => notices'[i].shown

LEMMA NoticeEdit ==
  ASSUME NoticeType, NEW i \in DOMAIN notices, NEW e \in Notice, notices' = [notices EXCEPT ![i] = e],
         e.of = notices[i].of, e.holdable = notices[i].holdable, notices[i].shown => e.shown
  PROVE  Edited(i) /\ notices'[i] = e
<1>1. Len(notices) \in Nat /\ DOMAIN notices = 1 .. Len(notices)
  BY NoticeFacts
<1>2. /\ NoticeType' /\ DOMAIN notices' = DOMAIN notices /\ notices'[i] = e
      /\ \A j \in DOMAIN notices : j # i => notices'[j] = notices[j]
  BY <1>1, ExceptSeq DEF NoticeType
<1> QED
  BY <1>2 DEF Edited

LEMMA ShownEdit ==
  ASSUME NoticeType, NEW i \in DOMAIN notices, NEW b \in BOOLEAN, notices[i].shown => b,
         notices' = [notices EXCEPT ![i].shown = b]
  PROVE  Edited(i) /\ notices'[i].via = notices[i].via /\ notices'[i].shown = b
<1> DEFINE e == [notices[i] EXCEPT !.shown = b]
<1>1. notices[i] \in Notice
  BY NoticeFacts
<1>2. /\ e \in Notice /\ e.of = notices[i].of /\ e.holdable = notices[i].holdable
      /\ e.via = notices[i].via /\ e.shown = b
  BY <1>1 DEF Notice
<1>3. notices' = [notices EXCEPT ![i] = e]
  OBVIOUS
<1> HIDE DEF e
<1> QED
  BY <1>2, <1>3, NoticeEdit

LEMMA StampEdit ==
  ASSUME NoticeType, NEW i \in DOMAIN notices, NEW via \in {"channel", "catchup"},
         notices' = [notices EXCEPT ![i].via = via]
  PROVE  Edited(i) /\ notices'[i].via = via /\ notices'[i].shown = notices[i].shown
<1> DEFINE e == [notices[i] EXCEPT !.via = via]
<1>1. notices[i] \in Notice
  BY NoticeFacts
<1>2. /\ e \in Notice /\ e.of = notices[i].of /\ e.holdable = notices[i].holdable
      /\ e.via = via /\ e.shown = notices[i].shown
  BY <1>1 DEF Notice
<1>3. notices' = [notices EXCEPT ![i] = e]
  OBVIOUS
<1> HIDE DEF e
<1> QED
  BY <1>2, <1>3, NoticeEdit

LEMMA DeliverEdit ==
  ASSUME NoticeType, NEW i \in DOMAIN notices, Deliver(i)
  PROVE  Edited(i) /\ notices'[i].via = notices[i].via /\ notices'[i].shown
<1>1. notices' = [notices EXCEPT ![i].shown = TRUE]
  BY DEF Deliver
<1> QED
  BY <1>1, ShownEdit

LEMMA DeliverFailsEdit ==
  ASSUME NoticeType, NEW i \in DOMAIN notices, DeliverFails(i)
  PROVE  Edited(i) /\ notices'[i].via = notices[i].via
<1>1. PICK out \in BOOLEAN : notices' = [notices EXCEPT ![i].shown = @ \/ out]
  BY DEF DeliverFails
<1> DEFINE b == notices[i].shown \/ out
<1>2. b \in BOOLEAN /\ (notices[i].shown => b)
  OBVIOUS
<1>3. notices' = [notices EXCEPT ![i].shown = b]
  BY <1>1
<1> HIDE DEF b
<1> QED
  BY <1>2, <1>3, ShownEdit

----------------------------------------------------------------------------
\* Types: every variable, under the conjuncts of the invariant it depends on.

\* The next pass has a number: it is no larger than the first message that waits.
LEMMA NextPass ==
  ASSUME Types, InboxInv, NEW u \in Update, row[u].status = "pending"
  PROVE  Len(passes) + 1 <= u
<1>1. u \in Nat \ {0} /\ u <= MaxUpdates
  BY ChannelAssumption DEF Update
<1>2. Len(passes) \in Nat /\ DOMAIN passes = 1 .. Len(passes)
  BY PassFacts DEF Types
<1>3. CASE Len(passes) = 0
  BY <1>1, <1>3
<1>4. CASE Len(passes) # 0
  <2>1. Len(passes) \in DOMAIN passes
    BY <1>2, <1>4
  <2>2. PICK v \in Update : row[v].pass = Len(passes)
    BY <2>1 DEF InboxInv, PassesMatch
  <2>3. v \in Nat /\ Len(passes) <= v
    BY <2>2 DEF InboxInv, PassesMatch, Update
  <2>4. sent[u] # "stranger" /\ row[u].pass = 0
    BY DEF InboxInv, RowsMatch
  <2>5. ~(u < v)
    <3> SUFFICES ASSUME u < v
                 PROVE  FALSE
      OBVIOUS
    <3>1. row[u].pass \in 1 .. row[v].pass \/ row[u].status = "handled"
      BY <2>2, <2>4, <1>4 DEF InboxInv, NothingOvertaken
    <3> QED
      BY <3>1, <2>4, <2>2, <1>2
  <2>6. u # v
    BY <2>2, <2>4, <1>4
  <2> QED
    BY <1>1, <1>2, <2>3, <2>5, <2>6
<1> QED
  BY <1>3, <1>4

LEMMA SentStep ==
  ASSUME IInv, [Next]_vars
  PROVE  SentType' /\ OffsetType'
<1> USE DEF IInv, Types
<1>1. /\ Len(sent) \in Nat /\ Len(sent) <= MaxUpdates
      /\ offset \in Nat \ {0} /\ offset <= Len(sent) + 1
  BY SentFacts
<1>2. ASSUME NEW kind \in UpdateKind, Write(kind)
      PROVE  SentType' /\ OffsetType'
  <2>1. sent' \in Seq(UpdateKind) /\ Len(sent') = Len(sent) + 1 /\ Len(sent) < MaxUpdates
    BY <1>2, AppendProperties DEF Write, SentType
  <2>2. offset' = offset
    BY <1>2 DEF Write, tableVars
  <2> QED
    BY <1>1, <2>1, <2>2, ChannelAssumption DEF SentType, OffsetType
<1>3. CASE Ingest
  <2>1. poller.upto \in offset .. Len(sent)
    BY <1>3 DEF Ingest, PollerKnows
  <2>2. offset' = poller.upto + 1 /\ sent' = sent
    BY <1>3 DEF Ingest, NextOffset
  <2> QED
    BY <1>1, <2>1, <2>2 DEF SentType, OffsetType
<1>4. CASE UNCHANGED <<sent, offset>>
  BY <1>4 DEF SentType, OffsetType
<1>5. (\E kind \in UpdateKind : Write(kind)) \/ Ingest \/ UNCHANGED <<sent, offset>>
  BY DEF Next, vars, tableVars, memoryVars, SetPaused, Fetch, PollFails, FastPath, MarkHandled, Route,
         Fold, CheckPause, FinishPass, FailStale, ClaimPass, QueueNotice, DrainStart, CatchupRead,
         Deliver, DeliverFails, Stamp, CatchupStamp, Crash
<1> QED
  BY <1>2, <1>3, <1>4, <1>5

LEMMA RowStep ==
  ASSUME IInv, [Next]_vars
  PROVE  RowType'
<1> USE DEF IInv, Types
<1>1. \A u \in Update : row[u] \in Row
  BY RowFacts
<1>2. CASE Ingest
  <2>1. [status |-> "pending", pass |-> 0] \in Row
    BY ChannelAssumption DEF Row
  <2>2. row' = [u \in Update |-> IF u \in New THEN [status |-> "pending", pass |-> 0] ELSE row[u]]
    BY <1>2 DEF Ingest
  <2> QED
    BY <1>1, <2>1, <2>2 DEF RowType
<1>3. CASE MarkHandled
  <2>1. \A u \in Update : [row[u] EXCEPT !.status = "handled"] \in Row
    BY <1>1 DEF Row
  <2>2. row' = [u \in Update |-> IF u \in Answered THEN [row[u] EXCEPT !.status = "handled"] ELSE row[u]]
    BY <1>3 DEF MarkHandled
  <2> QED
    BY <1>1, <2>1, <2>2 DEF RowType
<1>4. CASE Route
  <2>1. CASE Active = {} /\ Waiting # {}
    <3>1. PICK u \in Update : row[u].status = "pending"
      BY <2>1 DEF Waiting, Rows
    <3>2. Len(passes') = Len(passes) + 1
      BY <1>4, <2>1, AppendProperties DEF Route, PassType, PassStatus
    <3>3. Len(passes) \in Nat /\ Len(passes) + 1 <= u /\ u \in Nat /\ u <= MaxUpdates
      BY <3>1, NextPass, PassFacts, ChannelAssumption DEF Update
    <3>4. Len(passes') \in 0 .. MaxUpdates
      BY <3>2, <3>3, ChannelAssumption
    <3>5. [status |-> "claimed", pass |-> Len(passes')] \in Row
      BY <3>4 DEF Row
    <3>6. row' = [v \in Update |-> IF v \in Waiting THEN [status |-> "claimed", pass |-> Len(passes')]
                                                    ELSE row[v]]
      BY <1>4, <2>1 DEF Route
    <3> QED
      BY <1>1, <3>5, <3>6 DEF RowType
  <2>2. CASE ~(Active = {} /\ Waiting # {})
    BY <1>4, <2>2 DEF Route, RowType
  <2> QED
    BY <2>1, <2>2
<1>5. CASE Fold
  <2>1. \A u \in Update : [row[u] EXCEPT !.status = Verdict(row[u].pass)] \in Row
    BY <1>1 DEF Row, Verdict
  <2>2. row' = [u \in Update |->
                  IF row[u].status = "claimed" /\ row[u].pass \in Settled
                    THEN [row[u] EXCEPT !.status = Verdict(row[u].pass)] ELSE row[u]]
    BY <1>5 DEF Fold
  <2> QED
    BY <1>1, <2>1, <2>2 DEF RowType
<1>6. CASE UNCHANGED row
  BY <1>6 DEF RowType
<1> QED
  BY <1>2, <1>3, <1>4, <1>5, <1>6, RowWriters

\* The passes after each of the actions that write them.
LEMMA PassWrite ==
  ASSUME PassType, NEW p \in DOMAIN passes, NEW status \in PassStatus,
         passes' = [passes EXCEPT ![p] = status]
  PROVE  /\ PassType' /\ Len(passes') = Len(passes) /\ DOMAIN passes' = DOMAIN passes
         /\ \A q \in DOMAIN passes : passes'[q] = IF q = p THEN status ELSE passes[q]
<1>1. Len(passes) \in Nat /\ DOMAIN passes = 1 .. Len(passes)
  BY PassFacts
<1> QED
  BY <1>1, ExceptSeq DEF PassType

LEMMA PassAppend ==
  ASSUME PassType, passes' = Append(passes, "queued")
  PROVE  /\ PassType' /\ Len(passes') = Len(passes) + 1
         /\ DOMAIN passes' = DOMAIN passes \cup {Len(passes) + 1}
         /\ \A q \in DOMAIN passes : passes'[q] = passes[q]
         /\ passes'[Len(passes) + 1] = "queued" /\ Len(passes) + 1 \notin DOMAIN passes
<1>1. Len(passes) \in Nat /\ DOMAIN passes = 1 .. Len(passes)
  BY PassFacts
<1>2. "queued" \in PassStatus
  BY DEF PassStatus
<1>3. /\ PassType' /\ Len(passes') = Len(passes) + 1
      /\ \A q \in 1 .. Len(passes) : passes'[q] = passes[q]
      /\ passes'[Len(passes) + 1] = "queued"
  BY <1>1, <1>2, AppendProperties DEF PassType
<1>4. DOMAIN passes' = 1 .. Len(passes) + 1
  BY <1>3, LenProperties DEF PassType
<1> QED
  BY <1>1, <1>3, <1>4

\* What becomes of the status of a pass in a step.
PassMoves == \A p \in DOMAIN passes :
               /\ p \in DOMAIN passes'
               /\ passes'[p] # passes[p] =>
                    \/ passes[p] = "running" /\ passes'[p] \in Terminal
                    \/ passes[p] = "queued" /\ passes'[p] = "running"

LEMMA PassStep ==
  ASSUME IInv, [Next]_vars
  PROVE  PassType' /\ PassMoves
<1> USE DEF IInv, Types
<1>1. Len(passes) \in Nat /\ DOMAIN passes = 1 .. Len(passes)
  BY PassFacts
<1>2. CASE Route
  <2>1. CASE UNCHANGED passes
    BY <2>1 DEF PassType, PassMoves
  <2>2. CASE passes' = Append(passes, "queued")
    BY <2>2, PassAppend DEF PassMoves
  <2> QED
    BY <1>2, <2>1, <2>2 DEF Route
<1>3. CASE FinishPass
  <2>1. lane.pass \in DOMAIN passes /\ passes[lane.pass] = "running"
    BY <1>3 DEF FinishPass, VerdictInv, LaneHolds
  <2>2. PICK status \in Terminal : passes' = [passes EXCEPT ![lane.pass] = status]
    BY <1>3 DEF FinishPass
  <2>3. status \in PassStatus
    BY DEF PassStatus, Terminal
  <2> QED
    BY <2>1, <2>2, <2>3, PassWrite DEF PassMoves
<1>4. ASSUME NEW p \in PassId, FailStale(p)
      PROVE  PassType' /\ PassMoves
  <2>1. p \in DOMAIN passes /\ passes[p] = "running" /\ passes' = [passes EXCEPT ![p] = "error"]
    BY <1>4 DEF FailStale
  <2>2. "error" \in PassStatus /\ "error" \in Terminal
    BY DEF PassStatus, Terminal
  <2> QED
    BY <2>1, <2>2, PassWrite DEF PassMoves
<1>5. ASSUME NEW p \in PassId, ClaimPass(p)
      PROVE  PassType' /\ PassMoves
  <2>1. p \in DOMAIN passes /\ passes[p] = "queued" /\ passes' = [passes EXCEPT ![p] = "running"]
    BY <1>5 DEF ClaimPass, IsFirst
  <2>2. "running" \in PassStatus
    BY DEF PassStatus
  <2> QED
    BY <2>1, <2>2, PassWrite DEF PassMoves
<1>6. CASE passes' = passes
  BY <1>6 DEF PassType, PassMoves
<1>7. CheckPause => passes' = passes
  BY DEF CheckPause, tableVars
<1> QED
  BY <1>2, <1>3, <1>4, <1>5, <1>6, <1>7, PassWriters

\* A notice stays what it is, and what was shown stays shown.
NoticesKept == \A i \in DOMAIN notices :
                 /\ i \in DOMAIN notices'
                 /\ notices'[i].of = notices[i].of /\ notices'[i].holdable = notices[i].holdable
                 /\ notices[i].shown => notices'[i].shown

LEMMA MarkedNotice ==
  ASSUME Types, NEW i \in NoticeId, Deliver(i) \/ DeliverFails(i) \/ Stamp(i) \/ CatchupStamp(i)
  PROVE  i \in DOMAIN notices /\ Edited(i)
<1>1. i \in DOMAIN notices
  BY DEF Types, Deliver, DeliverFails, Stamp, CatchupStamp, Turn, IsFirst
<1>2. CASE Deliver(i) \/ DeliverFails(i)
  BY <1>1, <1>2, DeliverEdit, DeliverFailsEdit DEF Types
<1>3. CASE Stamp(i)
  <2>1. notices' = [notices EXCEPT ![i].via = "channel"]
    BY <1>3 DEF Stamp
  <2> QED
    BY <1>1, <2>1, StampEdit DEF Types
<1>4. CASE CatchupStamp(i)
  <2>1. notices' = [notices EXCEPT ![i].via = "catchup"]
    BY <1>4 DEF CatchupStamp
  <2> QED
    BY <1>1, <2>1, StampEdit DEF Types
<1> QED
  BY <1>1, <1>2, <1>3, <1>4

LEMMA PassNumbers ==
  ASSUME Types, InboxInv
  PROVE  DOMAIN passes \subseteq 1 .. MaxUpdates /\ Len(passes) <= MaxUpdates
<1>1. Len(passes) \in Nat /\ DOMAIN passes = 1 .. Len(passes)
  BY PassFacts DEF Types
<1>2. Len(passes) # 0 => Len(passes) <= MaxUpdates
  <2> SUFFICES ASSUME Len(passes) # 0
               PROVE  Len(passes) <= MaxUpdates
    OBVIOUS
  <2>1. PICK u \in Update : row[u].pass = Len(passes)
    BY <1>1 DEF InboxInv, PassesMatch
  <2> QED
    BY <2>1, <1>1, ChannelAssumption DEF InboxInv, PassesMatch, Update
<1> QED
  BY <1>1, <1>2, ChannelAssumption

LEMMA NoticeStep ==
  ASSUME IInv, [Next]_vars
  PROVE  NoticeType' /\ NoticesKept
<1> USE DEF IInv, Types
<1>1. Len(notices) \in Nat /\ DOMAIN notices = 1 .. Len(notices)
  BY NoticeFacts
<1>2. CASE Fold
  <2>1. /\ NoticeType' /\ Len(notices) <= Len(notices')
        /\ \A i \in DOMAIN notices : notices'[i] = notices[i]
    BY <1>2, FoldNotices, PassNumbers
  <2>2. Len(notices') \in Nat /\ DOMAIN notices' = 1 .. Len(notices')
    BY <2>1, LenProperties DEF NoticeType
  <2> QED
    BY <1>1, <2>1, <2>2 DEF NoticesKept
<1>3. ASSUME NEW b \in BOOLEAN, QueueNotice(b)
      PROVE  NoticeType' /\ NoticesKept
  BY <1>3, QueuedNotice DEF NoticesKept
<1>4. ASSUME NEW i \in NoticeId, Deliver(i) \/ DeliverFails(i) \/ Stamp(i) \/ CatchupStamp(i)
      PROVE  NoticeType' /\ NoticesKept
  BY <1>4, MarkedNotice DEF Edited, NoticesKept
<1>5. CASE UNCHANGED notices
  BY <1>5 DEF NoticeType, NoticesKept
<1>6. \/ \E b \in BOOLEAN : DrainStart(b)
      \/ CatchupRead \/ Crash
      => UNCHANGED notices
  BY DEF DrainStart, CatchupRead, Crash, tableVars
<1> QED
  BY <1>2, <1>3, <1>4, <1>5, <1>6, NoticeWriters

LEMMA PollerStep ==
  ASSUME IInv, [Next]_vars
  PROVE  poller' \in Poller
<1> USE DEF IInv, Types
<1>0. IdlePoller \in Poller /\ poller \in Poller
  BY ChannelAssumption DEF IdlePoller, Poller, LoopType
<1>1. CASE Fetch
  <2>1. PICK n \in offset .. Len(sent) : poller' = [IdlePoller EXCEPT !.at = "fetched", !.upto = n]
    BY <1>1 DEF Fetch
  <2>2. n \in 0 .. MaxUpdates
    BY <2>1, SentFacts, ChannelAssumption
  <2> QED
    BY <2>1, <2>2 DEF IdlePoller, Poller
<1>2. CASE Ingest
  <2>1. {u \in New : sent[u] \in FastPaths} \subseteq Update
    <3>1. poller.upto \in offset .. Len(sent)
      BY <1>2 DEF Ingest, PollerKnows
    <3> QED
      BY <3>1, SentFacts, ChannelAssumption DEF New, Update
  <2>2. poller' = [poller EXCEPT !.at = "fast", !.todo = {u \in New : sent[u] \in FastPaths}]
    BY <1>2 DEF Ingest
  <2> QED
    BY <1>0, <2>1, <2>2 DEF Poller
<1>3. ASSUME NEW u \in Update, FastPath(u)
      PROVE  poller' \in Poller
  BY <1>0, <1>3 DEF FastPath, Poller
<1>4. CASE MarkHandled
  BY <1>0, <1>4 DEF MarkHandled, Poller
<1>5. CASE poller' \in {IdlePoller, poller}
  BY <1>0, <1>5
<1>6. \/ Fetch \/ Ingest \/ MarkHandled \/ (\E u \in Update : FastPath(u))
      \/ poller' \in {IdlePoller, poller}
  BY DEF Next, vars, tableVars, memoryVars, Write, SetPaused, PollFails, Route, Fold, CheckPause,
         FinishPass, FailStale, ClaimPass, QueueNotice, DrainStart, CatchupRead, Deliver, DeliverFails,
         Stamp, CatchupStamp, Crash
<1> QED
  BY <1>1, <1>2, <1>3, <1>4, <1>5, <1>6

LEMMA LaneStep ==
  ASSUME IInv, [Next]_vars
  PROVE  lane' \in Lane
<1> USE DEF IInv, Types
<1>0. IdleLane \in Lane /\ lane \in Lane
  BY ChannelAssumption DEF IdleLane, Lane, LoopType
<1>1. CASE CheckPause
  BY <1>0, <1>1 DEF CheckPause, Lane
<1>2. ASSUME NEW p \in PassId, ClaimPass(p)
      PROVE  lane' \in Lane
  <2>1. p \in 0 .. MaxUpdates
    BY ChannelAssumption DEF PassId
  <2> QED
    BY <1>2, <2>1 DEF ClaimPass, Lane
<1>3. CASE lane' \in {IdleLane, lane}
  BY <1>0, <1>3
<1>4. Route \/ FinishPass \/ (\E p \in PassId : FailStale(p)) => lane' \in {IdleLane, lane}
  BY DEF Route, FinishPass, FailStale, memoryVars
<1> QED
  BY <1>1, <1>2, <1>3, <1>4, PassWriters

\* The drain and the catch-up hold notices that exist.
LEMMA DrainStep ==
  ASSUME IInv, [Next]_vars
  PROVE  drain' \in Drains /\ drain'.left \subseteq DOMAIN notices' /\ catchup' \subseteq DOMAIN notices'
<1> USE DEF IInv, Types
<1>0. /\ IdleDrain \in Drains /\ drain \in Drains /\ IdleDrain.left = {}
      /\ Len(notices) \in Nat /\ DOMAIN notices = 1 .. Len(notices)
      /\ DOMAIN notices \subseteq DOMAIN notices'
  BY NoticeFacts, NoticeStep DEF IdleDrain, Drains, LoopType, NoticesKept
<1>1. ASSUME NEW quiet \in BOOLEAN, DrainStart(quiet)
      PROVE  drain' \in Drains /\ drain'.left \subseteq DOMAIN notices /\ catchup' = catchup
  BY <1>0, <1>1 DEF DrainStart, Drains, Oldest, Claimable, Queued
<1>2. ASSUME NEW i \in NoticeId, Deliver(i) \/ DeliverFails(i) \/ Stamp(i)
      PROVE  drain' \in Drains /\ drain'.left \subseteq DOMAIN notices /\ catchup' = catchup
  <2>1. CASE Deliver(i)
    BY <1>0, <2>1 DEF Deliver, Drains
  <2>2. CASE DeliverFails(i)
    BY <1>0, <2>2 DEF DeliverFails, AfterFailure
  <2>3. CASE Stamp(i)
    BY <1>0, <2>3 DEF Stamp, Drains
  <2> QED
    BY <1>2, <2>1, <2>2, <2>3
<1>3. CASE CatchupRead
  BY <1>0, <1>3 DEF CatchupRead, Queued
<1>4. ASSUME NEW i \in NoticeId, CatchupStamp(i)
      PROVE  drain' = drain /\ catchup' \subseteq catchup
  BY <1>4 DEF CatchupStamp
<1>5. CASE Crash
  BY <1>0, <1>5 DEF Crash
<1>6. CASE UNCHANGED <<drain, catchup>>
  BY <1>0, <1>6
<1>7. Fold \/ (\E b \in BOOLEAN : QueueNotice(b)) => UNCHANGED <<drain, catchup>>
  BY DEF Fold, QueueNotice, memoryVars
<1> QED
  BY <1>0, <1>1, <1>2, <1>3, <1>4, <1>5, <1>6, <1>7, NoticeWriters

LEMMA TypesStep ==
  ASSUME IInv, [Next]_vars
  PROVE  Types'
<1>1. paused' \in BOOLEAN /\ answered' \subseteq Update
  BY DEF IInv, Types, Next, vars, tableVars, memoryVars, Write, SetPaused, Fetch, PollFails, FastPath,
         Ingest, MarkHandled, Route, Fold, CheckPause, FinishPass, FailStale, ClaimPass, QueueNotice,
         DrainStart, CatchupRead, Deliver, DeliverFails, Stamp, CatchupStamp, Crash
<1> QED
  BY <1>1, SentStep, RowStep, PassStep, NoticeStep, PollerStep, LaneStep, DrainStep DEF Types, LoopType

----------------------------------------------------------------------------
\* The inbox: rows, cursor and the order of the passes.

\* Only a route adds a pass.
LEMMA PassCount ==
  ASSUME IInv, [Next]_vars
  PROVE  Route \/ Len(passes') = Len(passes)
<1> USE DEF IInv, Types
<1>1. CASE FinishPass
  <2>1. PICK status \in Terminal : passes' = [passes EXCEPT ![lane.pass] = status]
    BY <1>1 DEF FinishPass
  <2>2. lane.pass \in DOMAIN passes /\ status \in PassStatus
    BY <1>1 DEF FinishPass, VerdictInv, LaneHolds, PassStatus, Terminal
  <2> QED
    BY <2>1, <2>2, PassWrite
<1>2. ASSUME NEW p \in PassId, FailStale(p)
      PROVE  Len(passes') = Len(passes)
  BY <1>2, PassWrite, "error" \in PassStatus DEF FailStale, PassStatus
<1>3. ASSUME NEW p \in PassId, ClaimPass(p)
      PROVE  Len(passes') = Len(passes)
  BY <1>3, PassWrite, "running" \in PassStatus DEF ClaimPass, IsFirst, PassStatus
<1>4. CheckPause => passes' = passes
  BY DEF CheckPause, tableVars
<1> QED
  BY <1>1, <1>2, <1>3, <1>4, PassWriters

\* What a step may do to a row.
RowMoves == \A u \in Update :
              /\ row'[u].status = "absent" => row[u].status = "absent"
              /\ row[u].pass # 0 => row'[u].pass = row[u].pass
              /\ row[u].status = "handled" => row'[u] = row[u]
              /\ row'[u].status # "absent" => row[u].status # "absent" \/ (u \in New /\ Ingest)
              /\ row'[u].pass # row[u].pass => Route

LEMMA RowMovesStep ==
  ASSUME IInv, [Next]_vars
  PROVE  RowMoves
<1> USE DEF IInv, Types
<1>1. \A u \in Update : /\ row[u].status = "absent" => row[u].pass = 0
                        /\ row[u].status = "pending" => row[u].pass = 0
  BY DEF InboxInv, RowsMatch
<1>2. CASE Ingest
  BY <1>1, <1>2, IngestRows DEF RowMoves
<1>3. CASE MarkHandled
  <2>1. \A u \in poller.done : row[u].status = "pending"
    BY DEF PollerKnows
  <2>2. row' = [u \in Update |-> IF u \in poller.done THEN [row[u] EXCEPT !.status = "handled"] ELSE row[u]]
    BY <1>3 DEF MarkHandled, Answered
  <2> QED
    BY <1>3, <2>1, <2>2, MarkRows DEF RowMoves
<1>4. CASE Route
  BY <1>1, <1>4, RouteRows DEF RowMoves
<1>5. CASE Fold
  <2>1. \A u \in Update : row[u].status # "claimed" => row'[u] = row[u]
    BY <1>5 DEF Fold
  <2> QED
    BY <1>5, <2>1, FoldRows DEF RowMoves, Verdict
<1>6. CASE UNCHANGED row
  BY <1>6 DEF RowMoves
<1> QED
  BY <1>2, <1>3, <1>4, <1>5, <1>6, RowWriters

\* What the server and the cursor do in a step.
LEMMA SentMoves ==
  ASSUME IInv, [Next]_vars
  PROVE  /\ \A u \in 1 .. Len(sent) : u \in DOMAIN sent' /\ sent'[u] = sent[u]
         /\ Ingest => sent' = sent /\ offset' = poller.upto + 1 /\ poller.upto \in offset .. Len(sent)
         /\ ~Ingest => offset' = offset
         /\ offset <= offset'
<1> USE DEF IInv, Types
<1>1. /\ Len(sent) \in Nat /\ DOMAIN sent = 1 .. Len(sent)
      /\ offset \in Nat \ {0} /\ offset <= Len(sent) + 1
  BY SentFacts
<1>2. ASSUME NEW kind \in UpdateKind, Write(kind)
      PROVE  \A u \in 1 .. Len(sent) : u \in DOMAIN sent' /\ sent'[u] = sent[u]
  <2>1. /\ sent' \in Seq(UpdateKind) /\ Len(sent') = Len(sent) + 1
        /\ \A u \in 1 .. Len(sent) : sent'[u] = sent[u]
    BY <1>2, AppendProperties DEF Write, SentType
  <2>2. DOMAIN sent' = 1 .. Len(sent')
    BY <2>1, LenProperties
  <2> QED
    BY <1>1, <2>1, <2>2
<1>3. (\E kind \in UpdateKind : Write(kind)) \/ sent' = sent
  BY DEF Next, vars, tableVars, memoryVars, SetPaused, Fetch, PollFails, FastPath, MarkHandled, Route,
         Fold, CheckPause, FinishPass, FailStale, ClaimPass, QueueNotice, DrainStart, CatchupRead,
         Deliver, DeliverFails, Stamp, CatchupStamp, Crash, Ingest
<1>4. Ingest \/ offset' = offset
  BY DEF Next, vars, tableVars, memoryVars, Write, SetPaused, Fetch, PollFails, FastPath, MarkHandled,
         Route, Fold, CheckPause, FinishPass, FailStale, ClaimPass, QueueNotice, DrainStart, CatchupRead,
         Deliver, DeliverFails, Stamp, CatchupStamp, Crash
<1>5. Ingest => sent' = sent /\ offset' = poller.upto + 1 /\ poller.upto \in offset .. Len(sent)
  BY DEF Ingest, NextOffset, PollerKnows
<1>6. offset <= offset'
  <2>1. CASE Ingest
    BY <2>1, <1>5, <1>1
  <2>2. CASE offset' = offset
    BY <2>2, <1>1
  <2> QED
    BY <2>1, <2>2, <1>4
<1> QED
  BY <1>1, <1>2, <1>3, <1>4, <1>5, <1>6

LEMMA SentAfter ==
  ASSUME SentType', OffsetType'
  PROVE  /\ Len(sent') \in Nat /\ DOMAIN sent' = 1 .. Len(sent') /\ DOMAIN sent' \subseteq Update
         /\ offset' \in Nat
<1>1. Len(sent') \in Nat /\ DOMAIN sent' = 1 .. Len(sent')
  BY LenProperties DEF SentType
<1> QED
  BY <1>1, ChannelAssumption DEF SentType, OffsetType, Update

LEMMA RowsMatchStep ==
  ASSUME IInv, [Next]_vars
  PROVE  RowsMatch' /\ CursorIsIngested'
<1> USE DEF IInv, Types
<1>1. /\ Len(sent) \in Nat /\ DOMAIN sent = 1 .. Len(sent)
      /\ offset \in Nat \ {0} /\ offset <= Len(sent) + 1
  BY SentFacts
<1>2. \A u \in Update : u \in Nat \ {0}
  BY DEF Update
<1>3. /\ \A u \in 1 .. Len(sent) : u \in DOMAIN sent' /\ sent'[u] = sent[u]
      /\ offset' \in Nat /\ offset <= offset'
      /\ Len(sent') \in Nat /\ DOMAIN sent' = 1 .. Len(sent') /\ DOMAIN sent' \subseteq Update
  BY SentMoves, SentFacts, TypesStep, SentAfter
<1>4. \A u \in Update : row'[u].status # "absent" => u < offset' /\ sent'[u] # "stranger"
  <2> SUFFICES ASSUME NEW u \in Update, row'[u].status # "absent"
               PROVE  u < offset' /\ sent'[u] # "stranger"
    OBVIOUS
  <2>1. CASE row[u].status # "absent"
    <3>1. u < offset /\ sent[u] # "stranger"
      BY <2>1 DEF InboxInv, RowsMatch
    <3> QED
      BY <3>1, <1>1, <1>2, <1>3
  <2>2. CASE u \in New /\ Ingest
    <3>1. u \in offset .. poller.upto /\ sent[u] # "stranger"
      BY <2>2 DEF New
    <3>2. offset' = poller.upto + 1 /\ sent' = sent /\ poller.upto \in offset .. Len(sent)
      BY <2>2, SentMoves
    <3> QED
      BY <3>1, <3>2, <1>1
  <2> QED
    BY <2>1, <2>2, RowMovesStep DEF RowMoves
<1>5. \A u \in Update : /\ row'[u].status \in {"absent", "pending"} => row'[u].pass = 0
                        /\ row'[u].status \in {"claimed", "failed"} => row'[u].pass # 0
  <2>1. \A u \in Update : /\ row[u].status \in {"absent", "pending"} => row[u].pass = 0
                          /\ row[u].status \in {"claimed", "failed"} => row[u].pass # 0
    BY DEF InboxInv, RowsMatch
  <2>2. CASE Ingest
    BY <2>1, <2>2, IngestRows
  <2>3. CASE MarkHandled
    BY <2>1, <2>3, MarkRows
  <2>4. CASE Route
    <3>1. Len(passes) \in Nat
      BY PassFacts
    <3> QED
      BY <2>1, <2>4, <3>1, RouteRows
  <2>5. CASE Fold
    BY <2>1, <2>5, FoldRows DEF Verdict
  <2>6. CASE UNCHANGED row
    BY <2>1, <2>6
  <2> QED
    BY <2>2, <2>3, <2>4, <2>5, <2>6, RowWriters
<1>6. CursorIsIngested'
  <2> SUFFICES ASSUME NEW u \in DOMAIN sent', u < offset', sent'[u] # "stranger"
               PROVE  row'[u].status # "absent"
    BY DEF CursorIsIngested
  <2>1. u \in Update /\ u \in Nat \ {0}
    BY <1>2, <1>3
  <2>2. CASE u < offset
    <3>1. u \in DOMAIN sent /\ sent[u] # "stranger"
      BY <2>1, <2>2, <1>1, <1>3
    <3>2. row[u].status # "absent"
      BY <3>1, <2>2 DEF InboxInv, CursorIsIngested
    <3> QED
      BY <2>1, <3>2, RowMovesStep DEF RowMoves
  <2>3. CASE ~(u < offset)
    <3>1. Ingest
      BY <2>3, SentMoves
    <3>2. u \in offset .. poller.upto /\ sent[u] # "stranger"
      BY <3>1, <2>1, <2>3, <1>1, SentMoves
    <3>3. CASE u \in New
      BY <3>1, <3>3, <2>1, IngestRows
    <3>4. CASE u \notin New
      <4>1. row[u].status # "absent"
        BY <3>2, <3>4 DEF New
      <4> QED
        BY <4>1, <2>1, RowMovesStep DEF RowMoves
    <3> QED
      BY <3>3, <3>4
  <2> QED
    BY <2>2, <2>3
<1> QED
  BY <1>4, <1>5, <1>6 DEF RowsMatch

LEMMA PassesMatchStep ==
  ASSUME IInv, [Next]_vars
  PROVE  PassesMatch'
<1> USE DEF IInv, Types
<1>1. /\ Len(passes) \in Nat /\ DOMAIN passes = 1 .. Len(passes)
      /\ \A u \in Update : u \in Nat \ {0} /\ row[u].pass \in Nat
  BY PassFacts, RowFacts, ChannelAssumption DEF Update
<1>2. DOMAIN passes' = 1 .. Len(passes') /\ Len(passes') \in Nat
  BY TypesStep, PassFacts
<1>3. /\ \A u \in Update : row[u].pass <= Len(passes) /\ row[u].pass <= u
      /\ \A p \in DOMAIN passes : \E u \in Update : row[u].pass = p
  BY DEF InboxInv, PassesMatch
<1>4. CASE \A u \in Update : row'[u].pass = row[u].pass
  <2>1. CASE Len(passes') = Len(passes)
    BY <1>1, <1>2, <1>3, <1>4, <2>1 DEF PassesMatch
  <2>2. CASE Route
    <3>1. \/ UNCHANGED <<passes, row>>
          \/ /\ Rows("pending") # {}
             /\ \A u \in Update : row[u].status = "pending" => row'[u].pass = Len(passes) + 1
      BY <2>2, RouteRows
    <3>2. CASE UNCHANGED <<passes, row>>
      BY <1>3, <3>2 DEF PassesMatch
    <3>3. ~(Rows("pending") # {} /\ \A u \in Update : row[u].status = "pending" => row'[u].pass = Len(passes) + 1)
      BY <1>1, <1>3, <1>4 DEF Rows
    <3> QED
      BY <3>1, <3>2, <3>3
  <2> QED
    BY <2>1, <2>2, PassCount
<1>5. CASE ~(\A u \in Update : row'[u].pass = row[u].pass)
  <2>1. Route
    BY <1>5, RowMovesStep DEF RowMoves
  <2>2. /\ Rows("pending") # {} /\ Len(passes') = Len(passes) + 1
        /\ \A u \in Update :
             /\ row[u].status = "pending" => row'[u].pass = Len(passes) + 1
             /\ row[u].status # "pending" => row'[u] = row[u]
    BY <1>5, <2>1, RouteRows
  <2>3. \A u \in Update : row'[u].pass <= Len(passes') /\ row'[u].pass <= u
    <3> TAKE u \in Update
    <3>1. CASE row[u].status = "pending"
      BY <3>1, <2>2, <1>1, NextPass
    <3>2. CASE row[u].status # "pending"
      BY <3>2, <2>2, <1>1, <1>3
    <3> QED
      BY <3>1, <3>2
  <2>4. ASSUME NEW p \in DOMAIN passes'
        PROVE  \E u \in Update : row'[u].pass = p
    <3>1. CASE p = Len(passes) + 1
      BY <3>1, <2>2 DEF Rows
    <3>2. CASE p # Len(passes) + 1
      <4>1. p \in DOMAIN passes
        BY <3>2, <2>2, <1>1, <1>2
      <4>2. PICK u \in Update : row[u].pass = p
        BY <4>1, <1>3
      <4>3. row[u].status # "pending"
        BY <4>1, <4>2, <1>1 DEF InboxInv, RowsMatch
      <4> QED
        BY <4>2, <4>3, <2>2
    <3> QED
      BY <3>1, <3>2
  <2> QED
    BY <2>3, <2>4 DEF PassesMatch
<1> QED
  BY <1>4, <1>5

LEMMA NothingOvertakenStep ==
  ASSUME IInv, [Next]_vars
  PROVE  NothingOvertaken'
<1> USE DEF IInv, Types
<1>1. /\ Len(passes) \in Nat
      /\ \A u \in Update : u \in Nat \ {0} /\ row[u].pass \in Nat /\ row[u].pass <= Len(passes)
      /\ Len(sent) \in Nat /\ offset \in Nat \ {0} /\ offset <= Len(sent) + 1 /\ DOMAIN sent = 1 .. Len(sent)
  BY PassFacts, SentFacts, RowFacts, ChannelAssumption DEF Update, InboxInv, PassesMatch
<1> SUFFICES ASSUME NEW u \in Update, NEW v \in Update, u < v, row'[v].pass # 0, sent'[u] # "stranger"
             PROVE  row'[u].pass \in 1 .. row'[v].pass \/ (row'[u].pass = 0 /\ row'[u].status = "handled")
  BY DEF NothingOvertaken
<1>2. CASE row[v].pass # 0
  <2>1. v < offset
    BY <1>2 DEF InboxInv, RowsMatch
  <2>2. u \in 1 .. Len(sent)
    BY <2>1, <1>1
  <2>3. sent[u] # "stranger"
    BY <2>2, SentMoves
  <2>4. \/ row[u].pass \in 1 .. row[v].pass
        \/ row[u].pass = 0 /\ row[u].status = "handled"
    BY <1>2, <2>3 DEF InboxInv, NothingOvertaken
  <2>5. row'[v].pass = row[v].pass /\ (row[u].pass # 0 => row'[u].pass = row[u].pass)
        /\ (row[u].status = "handled" => row'[u] = row[u])
    BY <1>2, RowMovesStep DEF RowMoves
  <2> QED
    BY <2>4, <2>5, <1>1
<1>3. CASE row[v].pass = 0
  <2>1. Route
    BY <1>3, RowMovesStep DEF RowMoves
  <2>2. \A w \in Update :
             /\ row[w].status = "pending" => row'[w].pass = Len(passes) + 1
             /\ row[w].status # "pending" => row'[w] = row[w]
    BY <1>3, <2>1, RouteRows
  <2>3. row[v].status = "pending" /\ row'[v].pass = Len(passes) + 1
    BY <1>3, <2>2
  <2>4. u < offset
    BY <2>3, <1>1 DEF InboxInv, RowsMatch
  <2>5. u \in DOMAIN sent /\ sent[u] # "stranger"
    BY <2>4, <1>1, SentMoves
  <2>6. row[u].status # "absent"
    BY <2>4, <2>5 DEF InboxInv, CursorIsIngested
  <2>7. CASE row[u].status = "pending"
    BY <2>7, <2>2, <2>3, <1>1
  <2>8. CASE row[u].status # "pending"
    <3>1. row'[u] = row[u]
      BY <2>8, <2>2
    <3>2. row[u].pass = 0 => row[u].status = "handled"
      BY <2>6, <2>8, RowFacts DEF InboxInv, RowsMatch, Status
    <3> QED
      BY <3>1, <3>2, <2>3, <1>1
  <2> QED
    BY <2>7, <2>8
<1> QED
  BY <1>2, <1>3

LEMMA InboxStep ==
  ASSUME IInv, [Next]_vars
  PROVE  InboxInv'
  BY RowsMatchStep, PassesMatchStep, NothingOvertakenStep DEF InboxInv

----------------------------------------------------------------------------
\* The poller: what a tick remembers stays true until it uses it.

LEMMA PollerKnowsStep ==
  ASSUME IInv, [Next]_vars
  PROVE  PollerKnows'
<1> USE DEF IInv, Types
<1>0. poller \in Poller /\ IdlePoller.at = "idle" /\ IdlePoller.todo = {} /\ IdlePoller.done = {}
  BY DEF LoopType, IdlePoller
<1>1. /\ Len(sent) \in Nat /\ DOMAIN sent = 1 .. Len(sent)
      /\ offset \in Nat \ {0} /\ offset <= Len(sent) + 1 /\ Len(sent) <= MaxUpdates
  BY SentFacts
<1>2. Len(sent') \in Nat /\ Len(sent) <= Len(sent')
  <2>1. Len(sent') \in Nat /\ DOMAIN sent' = 1 .. Len(sent')
    BY TypesStep, SentAfter
  <2>2. Len(sent) # 0 => Len(sent) \in DOMAIN sent'
    BY <1>1, SentMoves
  <2> QED
    BY <1>1, <2>1, <2>2
<1>3. CASE Fetch
  <2>1. PICK n \in offset .. Len(sent) : poller' = [IdlePoller EXCEPT !.at = "fetched", !.upto = n]
    BY <1>3 DEF Fetch
  <2>2. /\ poller'.at = "fetched" /\ poller'.upto = n /\ poller'.todo = {} /\ poller'.done = {}
    BY <2>1 DEF IdlePoller
  <2>3. offset' = offset /\ sent' = sent
    BY <1>3 DEF Fetch, tableVars
  <2> QED
    BY <2>1, <2>2, <2>3 DEF PollerKnows
<1>4. CASE Ingest
  <2>1. /\ poller'.at = "fast" /\ poller'.todo = {u \in New : sent[u] \in FastPaths}
        /\ poller'.done = poller.done /\ poller.done = {}
    BY <1>0, <1>4 DEF Ingest, Poller, PollerKnows
  <2>2. \A u \in poller'.todo : u \in New /\ u \in Update
    BY <2>1, TypesStep DEF LoopType, Poller
  <2>3. \A u \in poller'.todo : row'[u].status = "pending"
    BY <1>4, <2>2, IngestRows
  <2> QED
    BY <2>1, <2>3 DEF PollerKnows
<1>5. ASSUME NEW u \in Update, FastPath(u)
      PROVE  PollerKnows'
  <2>1. /\ poller'.at = "fast" /\ poller'.todo = poller.todo \ {u} /\ poller'.done = poller.done \cup {u}
        /\ poller.at = "fast" /\ u \in poller.todo
        /\ row' = row /\ answered' = answered \cup {u}
    BY <1>0, <1>5 DEF FastPath, IsFirst, Poller
  <2> QED
    BY <2>1 DEF PollerKnows
<1>6. CASE MarkHandled
  <2>1. poller'.at = "routing" /\ poller'.todo = {} /\ poller'.done = {}
    BY <1>0, <1>6 DEF MarkHandled, Poller
  <2> QED
    BY <2>1 DEF PollerKnows
<1>7. CASE poller' = IdlePoller
  BY <1>0, <1>7 DEF PollerKnows
<1>8. CASE poller' = poller /\ offset' = offset /\ answered' = answered /\ (row' = row \/ Fold)
  <2>1. \A u \in poller.todo \cup poller.done : u \in Update /\ row[u].status = "pending"
    BY <1>0 DEF PollerKnows, Poller
  <2>2. \A u \in poller.todo \cup poller.done : row'[u].status = "pending"
    BY <1>8, <2>1, FoldRows
  <2>3. poller.at = "fetched" => poller.upto \in offset .. Len(sent')
    BY <1>1, <1>2 DEF PollerKnows
  <2> QED
    BY <1>8, <2>2, <2>3 DEF PollerKnows
<1>9. \/ Fetch \/ Ingest \/ MarkHandled \/ (\E u \in Update : FastPath(u))
      \/ poller' = IdlePoller
      \/ poller' = poller /\ offset' = offset /\ answered' = answered /\ (row' = row \/ Fold)
  BY DEF Next, vars, tableVars, memoryVars, Write, SetPaused, PollFails, Route, Fold, CheckPause,
         FinishPass, FailStale, ClaimPass, QueueNotice, DrainStart, CatchupRead, Deliver, DeliverFails,
         Stamp, CatchupStamp, Crash
<1> QED
  BY <1>3, <1>4, <1>5, <1>6, <1>7, <1>8, <1>9

----------------------------------------------------------------------------
\* Verdicts: one pass at a time, what the rows say of it, and its report.

LEMMA LaneHoldsStep ==
  ASSUME IInv, [Next]_vars
  PROVE  LaneHolds'
<1> USE DEF IInv, Types
<1>0. /\ lane \in Lane /\ IdleLane.at = "idle" /\ IdleLane.pass = 0
      /\ Len(passes) \in Nat /\ DOMAIN passes = 1 .. Len(passes)
  BY PassFacts DEF LoopType, IdleLane
<1>1. /\ \A p, q \in Active : p = q
      /\ lane.at = "running" => lane.pass \in DOMAIN passes /\ passes[lane.pass] = "running"
      /\ lane.at # "running" => lane.pass = 0
  BY DEF VerdictInv, LaneHolds
<1>2. ASSUME DOMAIN passes' = DOMAIN passes,
             \A p \in DOMAIN passes : passes'[p] \in {"queued", "running"} => p \in Active
      PROVE  \A p, q \in Active' : p = q
  BY <1>1, <1>2 DEF Active
<1>3. CASE Route
  <2>1. lane' = lane
    BY <1>3 DEF Route
  <2>2. CASE UNCHANGED passes
    BY <1>1, <2>1, <2>2 DEF LaneHolds, Active
  <2>3. CASE Active = {} /\ passes' = Append(passes, "queued")
    <3>1. /\ DOMAIN passes' = DOMAIN passes \cup {Len(passes) + 1}
          /\ \A q \in DOMAIN passes : passes'[q] = passes[q]
      BY <2>3, PassAppend
    <3>2. Active' \subseteq {Len(passes) + 1}
      BY <2>3, <3>1 DEF Active
    <3> QED
      BY <1>1, <2>1, <3>1, <3>2 DEF LaneHolds
  <2> QED
    BY <1>3, <2>2, <2>3, RouteRows
<1>4. CASE FinishPass
  <2>1. PICK status \in Terminal : passes' = [passes EXCEPT ![lane.pass] = status]
    BY <1>4 DEF FinishPass
  <2>2. lane.pass \in DOMAIN passes /\ status \in PassStatus /\ status \notin {"queued", "running"}
    BY <1>1, <1>4 DEF FinishPass, PassStatus, Terminal
  <2>3. /\ DOMAIN passes' = DOMAIN passes
        /\ \A q \in DOMAIN passes : passes'[q] = IF q = lane.pass THEN status ELSE passes[q]
    BY <2>1, <2>2, PassWrite
  <2>4. \A p, q \in Active' : p = q
    BY <1>2, <2>2, <2>3 DEF Active
  <2> QED
    BY <1>0, <1>4, <2>4 DEF FinishPass, LaneHolds
<1>5. ASSUME NEW p \in PassId, FailStale(p)
      PROVE  LaneHolds'
  <2>1. /\ DOMAIN passes' = DOMAIN passes /\ lane' = lane /\ lane.at = "idle"
        /\ \A q \in DOMAIN passes : passes'[q] = IF q = p THEN "error" ELSE passes[q]
    BY <1>5, PassWrite, "error" \in PassStatus DEF FailStale, PassStatus, memoryVars
  <2>2. \A r, q \in Active' : r = q
    BY <1>2, <2>1 DEF Active
  <2> QED
    BY <1>1, <2>1, <2>2 DEF LaneHolds
<1>6. ASSUME NEW p \in PassId, ClaimPass(p)
      PROVE  LaneHolds'
  <2>1. /\ p \in DOMAIN passes /\ passes[p] = "queued"
        /\ DOMAIN passes' = DOMAIN passes /\ lane' = [at |-> "running", pass |-> p]
        /\ \A q \in DOMAIN passes : passes'[q] = IF q = p THEN "running" ELSE passes[q]
    BY <1>6, PassWrite, "running" \in PassStatus DEF ClaimPass, IsFirst, PassStatus
  <2>2. \A r, q \in Active' : r = q
    BY <1>2, <2>1 DEF Active
  <2> QED
    BY <2>1, <2>2 DEF LaneHolds
<1>7. CASE CheckPause
  <2>1. passes' = passes /\ lane'.at = "unpaused" /\ lane'.pass = lane.pass /\ lane.at = "idle"
    BY <1>0, <1>7 DEF CheckPause, tableVars, Lane
  <2> QED
    BY <1>1, <2>1 DEF LaneHolds, Active
<1>8. CASE passes' = passes /\ lane' \in {IdleLane, lane}
  BY <1>0, <1>1, <1>8 DEF LaneHolds, Active
<1> QED
  BY <1>3, <1>4, <1>5, <1>6, <1>7, <1>8, PassWriters

LEMMA VerdictStep ==
  ASSUME IInv, [Next]_vars
  PROVE  VerdictIsTrue'
<1> USE DEF IInv, Types
<1>0. /\ Len(passes) \in Nat /\ DOMAIN passes = 1 .. Len(passes)
      /\ \A u \in Update : row[u].pass \in Nat /\ row[u].pass <= Len(passes)
      /\ \A u \in Update : row[u].pass # 0 => row[u].pass \in DOMAIN passes
  BY PassFacts, RowFacts, ChannelAssumption DEF InboxInv, PassesMatch
<1>1. answered \subseteq answered'
  BY DEF Next, vars, tableVars, memoryVars, Write, SetPaused, Fetch, PollFails, FastPath,
         Ingest, MarkHandled, Route, Fold, CheckPause, FinishPass, FailStale, ClaimPass, QueueNotice,
         DrainStart, CatchupRead, Deliver, DeliverFails, Stamp, CatchupStamp, Crash
<1>2. \A p \in DOMAIN passes : passes[p] \in Terminal => passes'[p] = passes[p]
  BY PassStep DEF PassMoves, Terminal
<1>3. ASSUME NEW u \in Update, row'[u].status = row[u].status, row'[u].pass = row[u].pass
      PROVE  /\ row'[u].status = "handled" =>
                  IF row'[u].pass = 0 THEN u \in answered' ELSE passes'[row'[u].pass] = "done"
             /\ row'[u].status = "failed" => passes'[row'[u].pass] = "error"
  <2>1. /\ row[u].status = "handled" =>
             IF row[u].pass = 0 THEN u \in answered ELSE passes[row[u].pass] = "done"
        /\ row[u].status = "failed" => passes[row[u].pass] = "error" /\ row[u].pass # 0
    BY DEF VerdictInv, VerdictIsTrue, InboxInv, RowsMatch
  <2> QED
    BY <1>0, <1>1, <1>2, <1>3, <2>1 DEF Terminal
<1>4. ASSUME NEW u \in Update,
             ~(row'[u].status = row[u].status /\ row'[u].pass = row[u].pass)
      PROVE  /\ row'[u].status = "handled" =>
                  IF row'[u].pass = 0 THEN u \in answered' ELSE passes'[row'[u].pass] = "done"
             /\ row'[u].status = "failed" => passes'[row'[u].pass] = "error"
  <2>1. CASE Ingest
    BY <1>4, <2>1, IngestRows
  <2>2. CASE MarkHandled
    <3>1. row'[u].pass = row[u].pass /\ u \in poller.done /\ row'[u].status = "handled"
      BY <1>4, <2>2, MarkRows
    <3>2. u \in answered /\ row[u].pass = 0
      BY <3>1 DEF PollerKnows, InboxInv, RowsMatch
    <3> QED
      BY <1>1, <3>1, <3>2
  <2>3. CASE Route
    BY <1>4, <2>3, RouteRows
  <2>4. CASE Fold
    <3>1. /\ row'[u].pass = row[u].pass /\ row[u].pass \in Settled
          /\ row'[u].status = Verdict(row[u].pass) /\ row[u].status = "claimed"
      BY <1>4, <2>4, FoldRows
    <3>2. row[u].pass # 0 /\ row[u].pass \in DOMAIN passes
      BY <1>0, <3>1 DEF InboxInv, RowsMatch
    <3>3. passes' = passes /\ passes[row[u].pass] \in Terminal
      BY <2>4, <3>1 DEF Fold, Settled
    <3> QED
      BY <3>1, <3>2, <3>3 DEF Verdict, Terminal
  <2>5. CASE UNCHANGED row
    BY <1>4, <2>5
  <2> QED
    BY <2>1, <2>2, <2>3, <2>4, <2>5, RowWriters
<1> QED
  BY <1>3, <1>4 DEF VerdictIsTrue

LEMMA FailedTogetherStep ==
  ASSUME IInv, [Next]_vars
  PROVE  FailedTogether'
<1> USE DEF IInv, Types
<1>0. /\ Len(passes) \in Nat
      /\ \A u \in Update : row[u].pass \in Nat /\ row[u].pass <= Len(passes)
  BY PassFacts, RowFacts, ChannelAssumption DEF InboxInv, PassesMatch
<1>1. \A u, v \in Update : row[u].status = "claimed" /\ row[v].status = "failed" =>
                             row[u].pass # row[v].pass
  BY DEF VerdictInv, FailedTogether
<1>2. CASE Ingest
  BY <1>1, <1>2, IngestRows DEF FailedTogether
<1>3. CASE MarkHandled
  BY <1>1, <1>3, MarkRows DEF FailedTogether
<1>4. CASE Route
  BY <1>0, <1>1, <1>4, RouteRows DEF FailedTogether
<1>5. CASE Fold
  BY <1>1, <1>5, FoldRows DEF FailedTogether, Verdict
<1>6. CASE UNCHANGED row
  BY <1>1, <1>6 DEF FailedTogether
<1> QED
  BY <1>2, <1>3, <1>4, <1>5, <1>6, RowWriters

LEMMA NewNoticeParts ==
  \A of, h : /\ NewNotice(of, h).of = of /\ NewNotice(of, h).holdable = h
             /\ NewNotice(of, h).via = "queued" /\ NewNotice(of, h).shown = FALSE
  BY DEF NewNotice

\* The notices of a step that folds nothing: those there were, and at most one
\* more that reports no pass.
LEMMA NoticeDomain ==
  ASSUME IInv, [Next]_vars, ~Fold
  PROVE  \/ DOMAIN notices' = DOMAIN notices
         \/ /\ DOMAIN notices' = DOMAIN notices \cup {Len(notices) + 1}
            /\ \E b \in BOOLEAN : QueueNotice(b) /\ notices'[Len(notices) + 1] = NewNotice(0, b)
<1>1. ASSUME NEW i \in NoticeId, Deliver(i) \/ DeliverFails(i) \/ Stamp(i) \/ CatchupStamp(i)
      PROVE  DOMAIN notices' = DOMAIN notices
  BY <1>1, MarkedNotice DEF Edited, IInv
<1>2. (\E b \in BOOLEAN : DrainStart(b)) \/ CatchupRead \/ Crash => notices' = notices
  BY DEF DrainStart, CatchupRead, Crash, tableVars
<1>3. ASSUME NEW b \in BOOLEAN, QueueNotice(b)
      PROVE  /\ DOMAIN notices' = DOMAIN notices \cup {Len(notices) + 1}
             /\ notices'[Len(notices) + 1] = NewNotice(0, b)
  BY <1>3, QueuedNotice DEF IInv, Types
<1> QED
  BY <1>1, <1>2, <1>3, NoticeWriters

LEMMA FailedRow == \A p : Failed(p) <=> \E u \in Update : row[u].pass = p /\ row[u].status = "failed"
  BY DEF Failed, RowsOf

\* Only a fold fails rows, and a failed row stays as it is.
LEMMA FailedMoves ==
  ASSUME IInv, [Next]_vars, NEW u \in Update
  PROVE  /\ row[u].status = "failed" => row'[u].status = "failed" /\ row'[u].pass = row[u].pass
         /\ row'[u].status = "failed" /\ ~Fold => row[u].status = "failed" /\ row'[u].pass = row[u].pass
<1> USE DEF IInv, Types
<1>1. CASE Ingest
  BY <1>1, IngestRows
<1>2. CASE MarkHandled
  BY <1>2, MarkRows DEF PollerKnows
<1>3. CASE Route
  BY <1>3, RouteRows
<1>4. CASE Fold
  BY <1>4, FoldRows
<1>5. CASE UNCHANGED row
  BY <1>5
<1> QED
  BY <1>1, <1>2, <1>3, <1>4, <1>5, RowWriters

LEMMA OneReportStep ==
  ASSUME IInv, [Next]_vars
  PROVE  OneReport'
<1> USE DEF IInv, Types
<1>1. /\ \A i \in DOMAIN notices : notices[i].of # 0 =>
             \E u \in Update : row[u].pass = notices[i].of /\ row[u].status = "failed"
      /\ \A u \in Update : row[u].status = "failed" => \E i \in DOMAIN notices : notices[i].of = row[u].pass
      /\ \A i, j \in DOMAIN notices : notices[i].of = notices[j].of /\ notices[i].of # 0 => i = j
  BY FailedRow DEF VerdictInv, OneReport, Reports
<1>2. \A i \in DOMAIN notices : i \in DOMAIN notices' /\ notices'[i].of = notices[i].of
  BY NoticeStep DEF NoticesKept
<1>3. SUFFICES
      /\ \A i \in DOMAIN notices' : notices'[i].of # 0 =>
             \E u \in Update : row'[u].pass = notices'[i].of /\ row'[u].status = "failed"
      /\ \A u \in Update : row'[u].status = "failed" => \E i \in DOMAIN notices' : notices'[i].of = row'[u].pass
      /\ \A i, j \in DOMAIN notices' : notices'[i].of = notices'[j].of /\ notices'[i].of # 0 => i = j
  BY DEF OneReport, Failed, RowsOf, Reports
<1>4. CASE ~Fold
  <2>1. \A i \in DOMAIN notices' : i \in DOMAIN notices \/ notices'[i].of = 0
    BY <1>4, NoticeDomain, NewNoticeParts
  <2> QED
    BY <1>1, <1>2, <1>4, <2>1, FailedMoves
<1>5. CASE Fold
  <2>1. /\ \A i \in DOMAIN notices' \ DOMAIN notices : \E p \in ToReport : notices'[i] = NewNotice(p, FALSE)
        /\ \A p \in ToReport : \E i \in DOMAIN notices' \ DOMAIN notices : notices'[i].of = p
        /\ \A i, j \in DOMAIN notices' \ DOMAIN notices : notices'[i].of = notices'[j].of => i = j
    BY <1>5, FoldNotices, PassNumbers
  <2>2. \A p \in ToReport : /\ p \in Settled /\ passes[p] = "error"
                            /\ \E u \in Update : row[u].pass = p /\ row[u].status = "claimed"
    BY DEF ToReport, Settled, RowsOf
  <2>3. \A i \in DOMAIN notices' \ DOMAIN notices : notices'[i].of \in ToReport
    BY <2>1 DEF NewNotice
  <2>4. ASSUME NEW i \in DOMAIN notices', notices'[i].of # 0
        PROVE  \E u \in Update : row'[u].pass = notices'[i].of /\ row'[u].status = "failed"
    <3>1. CASE i \in DOMAIN notices
      <4>1. PICK u \in Update : row[u].pass = notices[i].of /\ row[u].status = "failed"
        BY <1>1, <1>2, <2>4, <3>1
      <4> QED
        BY <4>1, <1>2, <3>1, FailedMoves
    <3>2. CASE i \notin DOMAIN notices
      <4>1. PICK u \in Update : row[u].pass = notices'[i].of /\ row[u].status = "claimed"
        BY <2>2, <2>3, <3>2
      <4>2. row[u].pass \in Settled /\ Verdict(row[u].pass) = "failed"
        BY <4>1, <2>2, <2>3, <3>2 DEF Verdict
      <4> QED
        BY <4>1, <4>2, <1>5, FoldRows
    <3> QED
      BY <3>1, <3>2
  <2>5. ASSUME NEW u \in Update, row'[u].status = "failed"
        PROVE  \E i \in DOMAIN notices' : notices'[i].of = row'[u].pass
    <3>1. CASE row[u].status = "failed"
      BY <3>1, <1>1, <1>2, FailedMoves
    <3>2. CASE row[u].status # "failed"
      <4>1. row'[u].pass = row[u].pass /\ row[u].pass \in Settled /\ Verdict(row[u].pass) = "failed"
        BY <1>5, <2>5, <3>2, FoldRows
      <4>2. row[u].pass \in ToReport
        BY <4>1 DEF ToReport, Settled, Verdict, Terminal
      <4> QED
        BY <4>1, <4>2, <2>1
    <3> QED
      BY <3>1, <3>2
  <2>6. ASSUME NEW i \in DOMAIN notices, NEW j \in DOMAIN notices' \ DOMAIN notices
        PROVE  ~(notices'[i].of = notices'[j].of /\ notices'[i].of # 0)
    <3> SUFFICES ASSUME notices'[i].of = notices'[j].of, notices'[i].of # 0
                 PROVE  FALSE
      OBVIOUS
    <3>1. PICK v \in Update : row[v].pass = notices[i].of /\ row[v].status = "failed"
      BY <1>1, <1>2
    <3>2. PICK u \in Update : row[u].pass = notices'[j].of /\ row[u].status = "claimed"
      BY <2>2, <2>3
    <3> QED
      BY <3>1, <3>2, <1>2 DEF VerdictInv, FailedTogether
  <2>7. \A i, j \in DOMAIN notices' : notices'[i].of = notices'[j].of /\ notices'[i].of # 0 => i = j
    BY <1>1, <1>2, <2>1, <2>6
  <2> QED
    BY <2>4, <2>5, <2>7
<1> QED
  BY <1>4, <1>5

LEMMA VerdictInvStep ==
  ASSUME IInv, [Next]_vars
  PROVE  VerdictInv'
  BY LaneHoldsStep, VerdictStep, FailedTogetherStep, OneReportStep DEF VerdictInv

----------------------------------------------------------------------------
\* Notices: what the drain knows, and the order of delivery.

\* A notice below one that a drain has taken and that may be delivered too has
\* been taken with it.
LEMMA OldestBelow ==
  ASSUME NEW S \in SUBSET Nat, NEW j \in Oldest(S), NEW i \in S, i < j
  PROVE  i \in Oldest(S)
<1> DEFINE below(k) == {l \in S : l < k}
<1>1. j \in S /\ Cardinality(below(j)) < Batch
  BY DEF Oldest
<1>2. below(j) \subseteq 0 .. j
  <2> SUFFICES ASSUME NEW l \in S, l < j
               PROVE  l \in 0 .. j
    OBVIOUS
  <2>1. l \in Nat /\ j \in Nat
    BY <1>1
  <2> QED
    BY <2>1
<1>3. IsFiniteSet(below(j))
  <2>1. IsFiniteSet(0 .. j)
    BY <1>1, FS_Interval
  <2> QED
    BY <1>2, <2>1, FS_Subset
<1>4. below(i) \subseteq below(j)
  <2> SUFFICES ASSUME NEW l \in S, l < i
               PROVE  l < j
    OBVIOUS
  <2>1. l \in Nat /\ j \in Nat /\ i \in Nat
    BY <1>1
  <2> QED
    BY <2>1
<1>5. /\ Cardinality(below(i)) <= Cardinality(below(j))
      /\ Cardinality(below(i)) \in Nat /\ Cardinality(below(j)) \in Nat
  <2>1. IsFiniteSet(below(i)) /\ Cardinality(below(i)) <= Cardinality(below(j))
    BY <1>3, <1>4, FS_Subset
  <2> QED
    BY <2>1, <1>3, FS_CardinalityType
<1>6. Cardinality(below(i)) < Batch
  BY <1>1, <1>5, ChannelAssumption
<1> QED
  BY <1>6 DEF Oldest

LEMMA ShownStep ==
  ASSUME IInv, [Next]_vars
  PROVE  DeliveredWasShown'
<1> USE DEF IInv, Types
<1>1. \A i \in DOMAIN notices : notices[i].via = "channel" => notices[i].shown
  BY DEF DrainInv, DeliveredWasShown
<1>2. ASSUME NEW i \in NoticeId, Deliver(i) \/ DeliverFails(i) \/ Stamp(i) \/ CatchupStamp(i)
      PROVE  DeliveredWasShown'
  <2>1. i \in DOMAIN notices /\ Edited(i)
    BY <1>2, MarkedNotice
  <2>2. notices'[i].via = "channel" => notices'[i].shown
    <3>1. CASE Deliver(i)
      BY <2>1, <3>1, DeliverEdit
    <3>2. CASE DeliverFails(i)
      BY <1>1, <2>1, <3>2, DeliverFailsEdit DEF Edited
    <3>3. CASE Stamp(i)
      <4>1. drain.at = "stamp" /\ Turn(i) /\ i \in drain.left
        BY <3>3 DEF Stamp, Turn, IsFirst
      <4> QED
        BY <4>1, <2>1 DEF DrainInv, DrainKnows, Edited
    <3>4. CASE CatchupStamp(i)
      BY <2>1, <3>4, StampEdit DEF CatchupStamp
    <3> QED
      BY <1>2, <3>1, <3>2, <3>3, <3>4
  <2> QED
    BY <1>1, <2>1, <2>2 DEF Edited, DeliveredWasShown
<1>3. CASE Fold
  BY <1>1, <1>3, FoldNotices, PassNumbers DEF DeliveredWasShown, NewNotice
<1>4. ASSUME NEW b \in BOOLEAN, QueueNotice(b)
      PROVE  DeliveredWasShown'
  BY <1>1, <1>4, QueuedNotice, NewNoticeParts DEF DeliveredWasShown
<1>5. CASE UNCHANGED notices
  BY <1>1, <1>5 DEF DeliveredWasShown
<1>6. (\E b \in BOOLEAN : DrainStart(b)) \/ CatchupRead \/ Crash => UNCHANGED notices
  BY DEF DrainStart, CatchupRead, Crash, tableVars
<1> QED
  BY <1>2, <1>3, <1>4, <1>5, <1>6, NoticeWriters

\* What has reached the seller stays reached, and what a drain sends is its turn.
LEMMA ReachedKept ==
  ASSUME IInv, [Next]_vars, NEW i \in DOMAIN notices, Reached(i)
  PROVE  Reached(i)'
<1> USE DEF IInv, Types
<1>1. i \in DOMAIN notices' /\ (notices[i].shown => notices'[i].shown)
  BY NoticeStep DEF NoticesKept
<1>2. CASE notices[i].shown
  BY <1>1, <1>2 DEF Reached
<1>3. CASE notices[i].via = "catchup" /\ notices'[i].via # "catchup"
  <2>1. ASSUME NEW k \in NoticeId, Deliver(k) \/ DeliverFails(k) \/ CatchupStamp(k)
        PROVE  notices'[i].via = "catchup"
    <3>1. k \in DOMAIN notices /\ Edited(k)
      BY <2>1, MarkedNotice
    <3>2. i # k => notices'[i] = notices[i]
      BY <3>1 DEF Edited
    <3>3. CASE Deliver(k)
      BY <1>3, <3>1, <3>2, <3>3, DeliverEdit
    <3>4. CASE DeliverFails(k)
      BY <1>3, <3>1, <3>2, <3>4, DeliverFailsEdit
    <3>5. CASE CatchupStamp(k)
      BY <1>3, <3>1, <3>2, <3>5, StampEdit DEF CatchupStamp
    <3> QED
      BY <2>1, <3>3, <3>4, <3>5
  <2>2. ASSUME NEW k \in NoticeId, Stamp(k)
        PROVE  notices[i].shown
    <3>1. k \in DOMAIN notices /\ Edited(k)
      BY <2>2, MarkedNotice
    <3>2. i = k
      BY <1>3, <3>1 DEF Edited
    <3>3. drain.at = "stamp" /\ Turn(k) /\ k \in drain.left
      BY <2>2 DEF Stamp, Turn, IsFirst
    <3> QED
      BY <3>2, <3>3 DEF DrainInv, DrainKnows
  <2>3. Fold => notices'[i] = notices[i]
    BY FoldNotices, PassNumbers
  <2>4. ASSUME NEW b \in BOOLEAN, QueueNotice(b)
        PROVE  notices'[i] = notices[i]
    BY <2>4, QueuedNotice
  <2>5. (\E b \in BOOLEAN : DrainStart(b)) \/ CatchupRead \/ Crash => notices' = notices
    BY DEF DrainStart, CatchupRead, Crash, tableVars
  <2>6. notices[i].shown
    BY <1>3, <2>1, <2>2, <2>3, <2>4, <2>5, NoticeWriters
  <2> QED
    BY <1>1, <2>6 DEF Reached
<1> QED
  BY <1>2, <1>3 DEF Reached

LEMMA ShownBy ==
  ASSUME IInv, [Next]_vars, NEW j \in DOMAIN notices', notices'[j].shown
  PROVE  j \in DOMAIN notices /\ (notices[j].shown \/ Turn(j))
<1> USE DEF IInv, Types
<1>1. ASSUME NEW k \in NoticeId, Deliver(k) \/ DeliverFails(k) \/ Stamp(k) \/ CatchupStamp(k)
      PROVE  j \in DOMAIN notices /\ (notices[j].shown \/ Turn(j))
  <2>1. k \in DOMAIN notices /\ Edited(k)
    BY <1>1, MarkedNotice
  <2>2. j \in DOMAIN notices /\ (j # k => notices'[j] = notices[j])
    BY <2>1 DEF Edited
  <2>3. CASE Deliver(k) \/ DeliverFails(k)
    BY <2>2, <2>3 DEF Deliver, DeliverFails
  <2>4. CASE Stamp(k) \/ CatchupStamp(k)
    <3>1. notices'[k].shown = notices[k].shown
      BY <2>1, <2>4, StampEdit DEF Stamp, CatchupStamp
    <3> QED
      BY <2>2, <3>1
  <2> QED
    BY <1>1, <2>3, <2>4
<1>2. CASE Fold
  <2>1. /\ \A i \in DOMAIN notices : notices'[i] = notices[i]
        /\ \A i \in DOMAIN notices' \ DOMAIN notices : \E p \in ToReport : notices'[i] = NewNotice(p, FALSE)
    BY <1>2, FoldNotices, PassNumbers
  <2>2. ASSUME j \notin DOMAIN notices
        PROVE  FALSE
    <3>1. PICK p \in ToReport : notices'[j] = NewNotice(p, FALSE)
      BY <2>1, <2>2
    <3>2. notices'[j].shown = FALSE
      BY <3>1, NewNoticeParts
    <3> QED
      BY <3>2
  <2> QED
    BY <2>1, <2>2
<1>3. ASSUME NEW b \in BOOLEAN, QueueNotice(b)
      PROVE  j \in DOMAIN notices /\ (notices[j].shown \/ Turn(j))
  BY <1>3, QueuedNotice, NewNoticeParts
<1>4. (\E b \in BOOLEAN : DrainStart(b)) \/ CatchupRead \/ Crash => notices' = notices
  BY DEF DrainStart, CatchupRead, Crash, tableVars
<1> QED
  BY <1>1, <1>2, <1>3, <1>4, NoticeWriters

\* New notices come after all the others.
LEMMA NewNoticesLast ==
  ASSUME IInv, [Next]_vars, NEW j \in DOMAIN notices
  PROVE  /\ j \in Nat /\ \A i \in DOMAIN notices' : i \in Nat /\ (i <= j => i \in DOMAIN notices)
         /\ \A i \in DOMAIN notices : Before(i, j)' <=> Before(i, j)
<1>1. Len(notices) \in Nat /\ DOMAIN notices = 1 .. Len(notices)
  BY NoticeFacts DEF IInv, Types
<1>2. Len(notices') \in Nat /\ DOMAIN notices' = 1 .. Len(notices')
  BY TypesStep, LenProperties DEF Types, NoticeType
<1>3. \A i \in DOMAIN notices : notices'[i].holdable = notices[i].holdable
  BY NoticeStep DEF NoticesKept
<1>4. \A i \in DOMAIN notices : Before(i, j)' <=> Before(i, j)
  BY <1>3 DEF Before
<1> QED
  BY <1>1, <1>2, <1>4

LEMMA NoticesInOrderStep ==
  ASSUME IInv, [Next]_vars
  PROVE  NoticesInOrder'
<1> USE DEF IInv, Types
<1> SUFFICES ASSUME NEW i \in DOMAIN notices', NEW j \in DOMAIN notices',
                    notices'[j].shown, Before(i, j)'
             PROVE  Reached(i)'
  BY DEF NoticesInOrder, Before, Reached
<1>1. j \in DOMAIN notices /\ (notices[j].shown \/ Turn(j))
  BY ShownBy
<1>2. i \in DOMAIN notices /\ i \in Nat /\ j \in Nat /\ i < j /\ Before(i, j)
  BY <1>1, NewNoticesLast DEF Before
<1>3. CASE notices[j].shown
  <2>1. Reached(i)
    BY <1>1, <1>2, <1>3 DEF DrainInv, NoticesInOrder, Reached, Before
  <2> QED
    BY <2>1, <1>2, ReachedKept
<1>4. CASE Turn(j)
  <2>1. j \in drain.left /\ i \notin drain.left
    BY <1>2, <1>4 DEF Turn, IsFirst
  <2>2. Reached(i)
    BY <2>1, <1>2 DEF DrainInv, DrainKnows
  <2> QED
    BY <2>2, <1>2, ReachedKept
<1> QED
  BY <1>1, <1>3, <1>4

LEMMA DrainKnowsStep ==
  ASSUME IInv, [Next]_vars
  PROVE  DrainKnows'
<1> USE DEF IInv, Types
<1>0. /\ drain \in Drains /\ IdleDrain.left = {} /\ IdleDrain.at = "idle"
      /\ Len(notices) \in Nat /\ DOMAIN notices = 1 .. Len(notices)
  BY NoticeFacts DEF LoopType, IdleDrain
<1>1. /\ \A i \in drain.left : drain.at = "stamp" /\ Turn(i) => notices[i].shown
      /\ \A i \in DOMAIN notices, j \in drain.left : Before(i, j) /\ i \notin drain.left => Reached(i)
  BY DEF DrainInv, DrainKnows
\* Whoever the drain still holds, those before it are the old ones.
<1>2. ASSUME drain'.left \subseteq drain.left,
             \A i \in drain.left : i \notin drain'.left => Reached(i)'
      PROVE  \A i \in DOMAIN notices', j \in drain'.left : Before(i, j)' /\ i \notin drain'.left => Reached(i)'
  <2> SUFFICES ASSUME NEW i \in DOMAIN notices', NEW j \in drain'.left, Before(i, j)', i \notin drain'.left
               PROVE  Reached(i)'
    OBVIOUS
  <2>1. j \in DOMAIN notices /\ j \in drain.left
    BY <1>2
  <2>2. i \in DOMAIN notices /\ Before(i, j)
    BY <2>1, NewNoticesLast DEF Before
  <2>3. CASE i \in drain.left
    BY <1>2, <2>3
  <2>4. CASE i \notin drain.left
    BY <1>1, <2>1, <2>2, <2>4, ReachedKept
  <2> QED
    BY <2>3, <2>4
<1>3. ASSUME NEW quiet \in BOOLEAN, DrainStart(quiet)
      PROVE  DrainKnows'
  <2>1. drain'.at = "deliver" /\ drain'.left = Oldest(Claimable(quiet)) /\ notices' = notices
    BY <1>3 DEF DrainStart, tableVars
  <2>2. ASSUME NEW i \in DOMAIN notices, NEW j \in Oldest(Claimable(quiet)),
               Before(i, j), i \notin Oldest(Claimable(quiet))
        PROVE  Reached(i)
    <3>1. /\ j \in Claimable(quiet) /\ Claimable(quiet) \in SUBSET Nat
          /\ quiet => ~notices[j].holdable
      BY <1>0 DEF Oldest, Claimable, Queued
    <3>2. i < j /\ (quiet => ~notices[i].holdable)
      BY <2>2, <3>1 DEF Before
    <3>3. i \notin Claimable(quiet)
      BY <2>2, <3>1, <3>2, OldestBelow
    <3>4. notices[i].via # "queued"
      BY <3>2, <3>3 DEF Claimable, Queued
    <3> QED
      BY <3>4, NoticeFacts DEF DrainInv, DeliveredWasShown, Reached
  <2> QED
    BY <2>1, <2>2 DEF DrainKnows, Before, Reached
<1>4. ASSUME NEW i \in NoticeId, Deliver(i)
      PROVE  DrainKnows'
  <2>1. drain'.at = "stamp" /\ drain'.left = drain.left /\ Turn(i)
    BY <1>0, <1>4 DEF Deliver, Drains
  <2>2. i \in DOMAIN notices /\ notices'[i].shown
    BY <1>4, MarkedNotice, DeliverEdit
  <2>3. \A k \in drain'.left : Turn(k)' => k = i
    BY <1>0, <2>1 DEF Turn, IsFirst
  <2> QED
    BY <1>2, <2>1, <2>2, <2>3 DEF DrainKnows
<1>5. ASSUME NEW i \in NoticeId, DeliverFails(i)
      PROVE  DrainKnows'
  BY <1>0, <1>5 DEF DeliverFails, AfterFailure, DrainKnows
<1>6. ASSUME NEW i \in NoticeId, Stamp(i)
      PROVE  DrainKnows'
  <2>1. drain.at = "stamp" /\ Turn(i) /\ i \in drain.left
    BY <1>6 DEF Stamp, Turn, IsFirst
  <2>2. i \in DOMAIN notices /\ Reached(i)
    BY <1>1, <2>1 DEF Reached
  <2>3. drain'.at # "stamp" /\ drain'.left = drain.left \ {i}
    BY <1>0, <1>6, <2>1 DEF Stamp
  <2> QED
    BY <1>2, <2>2, <2>3, ReachedKept DEF DrainKnows
<1>7. CASE drain' = IdleDrain
  BY <1>0, <1>7 DEF DrainKnows
<1>8. CASE drain' = drain
  <2>1. \A i \in drain.left : drain.at = "stamp" /\ Turn(i) => notices'[i].shown
    BY <1>1, NoticeStep DEF NoticesKept
  <2> QED
    BY <1>2, <1>8, <2>1 DEF DrainKnows, Turn
<1>9. /\ Fold \/ CatchupRead => drain' = drain
      /\ \A b \in BOOLEAN : QueueNotice(b) => drain' = drain
      /\ \A i \in NoticeId : CatchupStamp(i) => drain' = drain
      /\ Crash => drain' = IdleDrain
  BY DEF Fold, QueueNotice, CatchupRead, CatchupStamp, Crash, memoryVars
<1> QED
  BY <1>3, <1>4, <1>5, <1>6, <1>7, <1>8, <1>9, NoticeWriters

LEMMA DrainInvStep ==
  ASSUME IInv, [Next]_vars
  PROVE  DrainInv'
  BY DrainKnowsStep, ShownStep, NoticesInOrderStep DEF DrainInv

----------------------------------------------------------------------------
\* Counting: how many notices there are, and how many passes are active.

\* The notices are numbered, so any set of them is finite.
LEMMA NoticesFinite ==
  ASSUME NoticeType, NEW S \in SUBSET DOMAIN notices
  PROVE  IsFiniteSet(S) /\ Cardinality(S) \in Nat
<1>1. IsFiniteSet(1 .. Len(notices)) /\ DOMAIN notices = 1 .. Len(notices)
  BY NoticeFacts, FS_Interval
<1> QED
  BY <1>1, FS_Subset, FS_CardinalityType

LEMMA OthersStep ==
  ASSUME IInv, [Next]_vars
  PROVE  Cardinality(Others') <= MaxOther
<1> USE DEF IInv, Types
<1>1. /\ Others = {i \in DOMAIN notices : notices[i].of = 0}
      /\ Others' = {i \in DOMAIN notices' : notices'[i].of = 0}
  BY DEF Others, Reports
<1>2. \A i \in DOMAIN notices : i \in DOMAIN notices' /\ notices'[i].of = notices[i].of
  BY NoticeStep DEF NoticesKept
<1>3. CASE Fold
  <2>1. \A i \in DOMAIN notices' \ DOMAIN notices : notices'[i].of # 0
    <3>1. \A i \in DOMAIN notices' \ DOMAIN notices : \E p \in ToReport : notices'[i] = NewNotice(p, FALSE)
      BY <1>3, FoldNotices, PassNumbers
    <3>2. 0 \notin ToReport
      BY PassNumbers DEF ToReport, Settled
    <3> TAKE i \in DOMAIN notices' \ DOMAIN notices
    <3>3. PICK p \in ToReport : notices'[i] = NewNotice(p, FALSE)
      BY <3>1
    <3>4. notices'[i].of = p
      BY <3>3, NewNoticeParts
    <3> QED
      BY <3>2, <3>4
  <2> QED
    BY <1>1, <1>2, <2>1
<1>4. ASSUME NEW b \in BOOLEAN, QueueNotice(b)
      PROVE  Cardinality(Others') <= MaxOther
  <2>1. Cardinality(Others) < MaxOther
    BY <1>1, <1>4 DEF QueueNotice
  <2>2. Others' = Others \cup {Len(notices) + 1} /\ Len(notices) + 1 \notin Others
    BY <1>1, <1>2, <1>4, QueuedNotice, NewNoticeParts
  <2>3. IsFiniteSet(Others) /\ Cardinality(Others) \in Nat
    BY <1>1, NoticesFinite
  <2>4. Cardinality(Others') = Cardinality(Others) + 1
    BY <2>2, <2>3, FS_AddElement
  <2> QED
    BY <2>1, <2>3, <2>4, ChannelAssumption
<1>5. CASE DOMAIN notices' = DOMAIN notices
  BY <1>1, <1>2, <1>5
<1> QED
  BY <1>3, <1>4, <1>5, NoticeDomain

\* Each failed pass has one notice, so there are no more of them than passes.
LEMMA NoticeCount ==
  ASSUME IInv
  PROVE  Len(notices) <= MaxUpdates + MaxOther
<1> USE DEF IInv, Types
<1> DEFINE Reporting == DOMAIN notices \ Others
           subject == [i \in Reporting |-> notices[i].of]
<1>1. Len(notices) \in Nat /\ DOMAIN notices = 1 .. Len(notices)
  BY NoticeFacts
<1>2. subject \in Injection(Reporting, 1 .. MaxUpdates)
  <2>1. \A i \in Reporting : notices[i].of \in 1 .. MaxUpdates
    BY NoticeFacts, ChannelAssumption DEF Others, Reports
  <2>2. \A i, j \in Reporting : notices[i].of = notices[j].of => i = j
    BY DEF Others, Reports, VerdictInv, OneReport
  <2> QED
    BY <2>1, <2>2 DEF Injection, IsInjective
<1>3. IsFiniteSet(1 .. MaxUpdates) /\ Cardinality(1 .. MaxUpdates) = MaxUpdates
  BY FS_Interval, ChannelAssumption
<1>4. IsFiniteSet(Reporting) /\ Cardinality(Reporting) <= MaxUpdates
  BY <1>2, <1>3, FS_Injection
<1>5. /\ Cardinality(Reporting) \in Nat
      /\ IsFiniteSet(Others) /\ Cardinality(Others) \in Nat
  BY NoticesFinite DEF Others, Reports
<1>6. Reporting \cup Others = DOMAIN notices /\ Reporting \cap Others = {}
  BY DEF Others, Reports
<1>7. Cardinality(DOMAIN notices) = Cardinality(Reporting) + Cardinality(Others)
  <2>1. Cardinality(Reporting \cup Others)
          = Cardinality(Reporting) + Cardinality(Others) - Cardinality(Reporting \cap Others)
    BY <1>4, <1>5, FS_Union
  <2>2. Cardinality(Reporting \cap Others) = 0
    BY <1>6, FS_EmptySet
  <2> HIDE DEF Reporting
  <2> QED
    BY <2>1, <2>2, <1>5, <1>6
<1>8. Cardinality(DOMAIN notices) = Len(notices)
  <2>1. Cardinality(1 .. Len(notices)) = IF 1 > Len(notices) THEN 0 ELSE Len(notices) - 1 + 1
    <3>1. 1 \in Int /\ Len(notices) \in Int
      BY <1>1
    <3> QED
      BY <3>1, FS_Interval, Zenon
  <2> HIDE DEF Reporting
  <2> QED
    BY <1>1, <2>1
<1> HIDE DEF Reporting
<1> QED
  BY <1>1, <1>4, <1>5, <1>7, <1>8, ChannelAssumption

LEMMA OneActive ==
  ASSUME \A p, q \in Active : p = q
  PROVE  Cardinality(Active) <= 1
<1>1. CASE Active = {}
  BY <1>1, FS_EmptySet
<1>2. CASE Active # {}
  <2>1. PICK p \in Active : TRUE
    BY <1>2
  <2>2. Active = {p}
    BY <2>1
  <2> QED
    BY <2>2, FS_Singleton
<1> QED
  BY <1>1, <1>2

LEMMA TypeFromInv ==
  ASSUME IInv
  PROVE  TypeOK
<1> USE DEF IInv, Types
<1>1. Len(passes) <= MaxUpdates /\ Len(notices) <= MaxUpdates + MaxOther
  BY PassNumbers, NoticeCount
<1>2. Len(notices) \in Nat /\ DOMAIN notices = 1 .. Len(notices)
  BY NoticeFacts
<1>3. drain \in Drain
  <2>1. drain.left \subseteq NoticeId
    BY <1>1, <1>2, ChannelAssumption DEF NoticeId
  <2> QED
    BY <2>1 DEF LoopType, Drains, Drain
<1>4. Cardinality(Active) <= 1
  BY OneActive DEF VerdictInv, LaneHolds
<1>5. IF lane.at = "running" THEN passes[lane.pass] = "running" ELSE lane.pass = 0
  BY DEF VerdictInv, LaneHolds
<1> QED
  BY <1>1, <1>3, <1>4, <1>5 DEF TypeOK, SentType, OffsetType, RowType, PassType, NoticeType, LoopType

LEMMA ToldOnceFromInv ==
  ASSUME IInv
  PROVE  ToldOnce
<1> USE DEF IInv, Types
<1> SUFFICES ASSUME NEW p \in DOMAIN passes
             PROVE  Cardinality(Reports(p)) = IF Failed(p) THEN 1 ELSE 0
  BY DEF ToldOnce, Reports, Failed
<1>1. p # 0
  BY PassNumbers
<1>2. /\ \A i \in DOMAIN notices : notices[i].of # 0 => Failed(notices[i].of)
      /\ \A u \in Update : row[u].status = "failed" => \E i \in Reports(row[u].pass) : TRUE
      /\ \A i, j \in Reports(p) : i = j
  BY <1>1 DEF VerdictInv, OneReport, Reports
<1>3. CASE Failed(p)
  <2>1. PICK i \in Reports(p) : TRUE
    BY <1>2, <1>3, FailedRow
  <2>2. Reports(p) = {i}
    BY <1>2, <2>1
  <2> QED
    BY <1>3, <2>2, FS_Singleton
<1>4. CASE ~Failed(p)
  <2>1. Reports(p) = {}
    BY <1>1, <1>2, <1>4 DEF Reports
  <2> QED
    BY <1>4, <2>1, FS_EmptySet
<1> QED
  BY <1>3, <1>4

----------------------------------------------------------------------------
LEMMA InitInv ==
  ASSUME Init
  PROVE  IInv
<1> USE ChannelAssumption DEF Init
<1>0. Len(<<>>) = 0 /\ DOMAIN sent = {} /\ DOMAIN passes = {} /\ DOMAIN notices = {}
  BY EmptySeq
<1>1. Types
  <2>1. SentType /\ OffsetType /\ PassType /\ NoticeType
    BY <1>0, EmptySeq DEF SentType, OffsetType, PassType, NoticeType
  <2>2. [status |-> "absent", pass |-> 0] \in Row
    BY DEF Row
  <2>3. RowType
    BY <2>2 DEF RowType
  <2>4. LoopType
    BY DEF LoopType, IdlePoller, Poller, IdleLane, Lane, IdleDrain, Drains
  <2>5. drain.left = {} /\ catchup = {}
    BY DEF IdleDrain
  <2> QED
    BY <2>1, <2>3, <2>4, <2>5 DEF Types
<1>2. \A u \in Update : row[u].status = "absent" /\ row[u].pass = 0
  OBVIOUS
<1>3. InboxInv
  <2>1. \A u \in Update : u \in Nat
    BY DEF Update
  <2> QED
    BY <1>0, <1>2, <2>1 DEF InboxInv, RowsMatch, PassesMatch, CursorIsIngested, NothingOvertaken
<1>4. PollerKnows
  BY DEF PollerKnows, IdlePoller
<1>5. VerdictInv
  BY <1>0, <1>2 DEF VerdictInv, LaneHolds, VerdictIsTrue, FailedTogether, OneReport, IdleLane, Active, Reports
<1>6. DrainInv
  BY <1>0 DEF DrainInv, DrainKnows, DeliveredWasShown, NoticesInOrder, IdleDrain
<1>7. Others = {} /\ Cardinality({}) = 0
  BY <1>0, FS_EmptySet DEF Others, Reports
<1> QED
  BY <1>1, <1>3, <1>4, <1>5, <1>6, <1>7 DEF IInv

\* The inductive invariant: what the tables say of each other, and what each loop
\* remembers of them between its steps, whatever fails, crashes or is paused.
THEOREM Inductive == Spec => []IInv
<1>1. Init => IInv
  BY InitInv
<1>2. IInv /\ [Next]_vars => IInv'
  BY TypesStep, InboxStep, PollerKnowsStep, VerdictInvStep, DrainInvStep, OthersStep DEF IInv
<1> QED
  BY <1>1, <1>2, PTL DEF Spec

\* The tables and the loops keep their types, there is never more than one active
\* channel pass, and the lane holds the pass it runs.
THEOREM TypeCorrect == Spec => []TypeOK
<1>1. IInv => TypeOK
  BY TypeFromInv
<1> QED
  BY <1>1, Inductive, PTL

\* The cursor never passes a message by: ingest_updates stores rows and offset
\* together, so a crash or a failed tick loses nothing.
THEOREM NoMessageIsSkipped == Spec => []CursorIsIngested
<1>1. IInv => CursorIsIngested
  BY DEF IInv, InboxInv
<1> QED
  BY <1>1, Inductive, PTL

\* Messages reach the agent in the order they were written, over any number of
\* passes that fail or lose their daemon.
THEOREM MessagesKeepOrder == Spec => []NothingOvertaken
<1>1. IInv => NothingOvertaken
  BY DEF IInv, InboxInv
<1> QED
  BY <1>1, Inductive, PTL

\* A row's verdict is that of its pass, a failed pass is reported exactly once, and
\* a notice stamped as delivered was sent.
THEOREM SellerIsToldTruly == Spec => []ToldTruly
<1>1. IInv => ToldTruly
  BY ToldOnceFromInv DEF IInv, VerdictInv, DrainInv, ToldTruly
<1> QED
  BY <1>1, Inductive, PTL

\* The chat gets the notices in order, for any batch, quiet hours that begin and
\* end between drains, failed deliveries and an attended session that reads along.
THEOREM NoticesKeepOrder == Spec => []NoticesInOrder
<1>1. IInv => NoticesInOrder
  BY DEF IInv, DrainInv
<1> QED
  BY <1>1, Inductive, PTL

=============================================================================
