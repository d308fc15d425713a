--------------------------- MODULE TailReconcile ---------------------------
(***************************************************************************)
(* One conversation and the transcript we keep of it: the inbox read that  *)
(* aligns the page's last bubbles with the stored rows (reconcile.new_rows *)
(* and _read_thread of browser/inbox.py), while a buyer writes, the seller *)
(* types in the marketplace app, and our own sends reach the page and are  *)
(* recorded by their callers or by the read itself.                        *)
(*                                                                         *)
(* A text stands for its normal form; time rows and banners, which         *)
(* classify_tail drops, are not on the page.                               *)
(***************************************************************************)
EXTENDS Naturals, SequencesExt

CONSTANTS
  Asks,         \* what a buyer may write
  Answers,      \* what we or the seller may write
  Intents,      \* our sends
  Cap,          \* TAIL_BUBBLES
  MaxLooks,     \* MAX_VERIFY_ATTEMPTS
  MaxBubbles    \* bound on the conversation

TailAssumption ==
  /\ Cap \in Nat \ {0}
  /\ MaxLooks \in Nat
  /\ MaxBubbles \in Nat
  /\ "read" \notin Intents

VARIABLES
  page,       \* the conversation, oldest bubble first
  unread,     \* the conversation list counts unread messages
  rows,       \* thread_messages, in the order of their ts
  says,       \* says[i]: the text of send i
  status,     \* send_intents.status
  looks,      \* send_intents.verify_attempts
  live,       \* live[i]: the caller of send i is still running
  \* the inbox read
  phase,      \* idle, settle or record
  tail,       \* the bubbles read
  seek,       \* the unsettled sends still to look for
  settled,    \* the texts this read settled
  fresh,      \* the rows still to record
  fetched,    \* what the list said of unread messages
  \* history
  seen        \* the length of the conversation when it was last read

readVars == <<phase, tail, seek, settled, fresh, fetched, seen>>
sendVars == <<says, status, looks, live>>
vars == <<page, unread, rows, sendVars, readVars>>

Bubble == [side : {"in"}, text : Asks] \cup [side : {"out"}, text : Answers]
Unsettled == {"pending", "sent_unverified"}

\* The read that creates the thread records the buyer's first message.
Init == /\ \E t \in Asks :
             /\ page = <<[side |-> "in", text |-> t]>>
             /\ rows = <<[side |-> "in", text |-> t, id |-> "read", nth |-> 1]>>
        /\ unread = FALSE
        /\ says \in [Intents -> Answers]
        /\ status = [i \in Intents |-> "none"]
        /\ looks = [i \in Intents |-> 0]
        /\ live = [i \in Intents |-> FALSE]
        /\ phase = "idle" /\ tail = <<>> /\ seek = {} /\ settled = {}
        /\ fresh = <<>> /\ fetched = FALSE /\ seen = 1

----------------------------------------------------------------------------
\* reconcile.py.

Key(row) == [side |-> row.side, text |-> row.text]
Keys(s) == [n \in DOMAIN s |-> Key(s[n])]
LastOf(s, n) == SubSeq(s, Len(s) - n + 1, Len(s))
FirstOf(s, n) == SubSeq(s, 1, n)
Least(m, n) == IF m < n THEN m ELSE n
Copies(s, k) == Cardinality({n \in DOMAIN s : s[n] = k})

\* classify_tail.
ClassifyTail(s) == LastOf(s, Least(Len(s), Cap))

\* contains_outbound.
ContainsOutbound(s, t) == [side |-> "out", text |-> t] \in Range(s)

\* A variant of Overlap that settles for the shortest match.
OverlapShortest(t, s) ==
  LET match == {n \in 1 .. Least(Len(t), Len(s)) : LastOf(s, n) = FirstOf(t, n)}
  IN IF match = {} THEN 0 ELSE Min(match)

\* The longest run that ends the stored rows and opens the tail.
Overlap(t, s) == Max({n \in 0 .. Least(Len(t), Len(s)) : LastOf(s, n) = FirstOf(t, n)})

\* A variant of Ids that numbers the copies within the tail alone.
IdsInTail(t, s, from) ==
  [n \in 1 .. Len(t) - from |->
     LET k == t[from + n]
     IN [side |-> k.side, text |-> k.text, id |-> "read",
         nth |-> Copies(SubSeq(t, from + 1, from + n), k)]]

\* message_id: a copy is numbered after the stored ones.
Ids(t, s, from) ==
  [n \in 1 .. Len(t) - from |->
     LET k == t[from + n]
     IN [side |-> k.side, text |-> k.text, id |-> "read",
         nth |-> Copies(s, k) + Copies(SubSeq(t, from + 1, from + n), k)]]

\* A variant of NewRows that counts the copies of each text.
NewRowsByCount(t, s) ==
  SelectSeq(Ids(t, <<>>, 0), LAMBDA row : row.nth > Copies(s, Key(row)))

\* new_rows: what follows the overlap.
NewRows(t, s) == Ids(t, s, Overlap(t, s))

----------------------------------------------------------------------------
\* The marketplace.

Room == Len(page) < MaxBubbles

BuyerWrites(t) == /\ Room
                  /\ page' = Append(page, [side |-> "in", text |-> t])
                  /\ unread' = TRUE
                  /\ UNCHANGED <<rows, sendVars, readVars>>

\* The seller answers in the app, or only opens the conversation there.
SellerTypes(t) == /\ Room
                  /\ page' = Append(page, [side |-> "out", text |-> t])
                  /\ unread' = FALSE
                  /\ UNCHANGED <<rows, sendVars, readVars>>

SellerLooks == /\ unread
               /\ unread' = FALSE
               /\ UNCHANGED <<page, rows, sendVars, readVars>>

----------------------------------------------------------------------------
\* Our sends (SendBracket has the whole bracket).

Reserve(i) ==
  /\ status[i] = "none"
  /\ status' = [status EXCEPT ![i] = "pending"]
  /\ live' = [live EXCEPT ![i] = TRUE]
  /\ UNCHANGED <<page, unread, rows, says, looks, readVars>>

\* The page takes the message under the browser lock.  A browser error or a
\* restart at that moment leaves the row pending and its caller gone.
PageTakes(i) ==
  /\ status[i] = "pending" /\ live[i] /\ phase = "idle" /\ Room
  /\ page' = Append(page, [side |-> "out", text |-> says[i]])
  /\ \/ /\ status' = [status EXCEPT ![i] = "sent_unverified"]
        /\ UNCHANGED live
     \/ /\ live' = [live EXCEPT ![i] = FALSE]
        /\ UNCHANGED status
  /\ UNCHANGED <<unread, rows, says, looks, readVars>>

\* The caller gives up: nothing was typed, or nothing was read back.
GiveUp(i) ==
  /\ live[i]
  /\ live' = [live EXCEPT ![i] = FALSE]
  /\ UNCHANGED <<page, unread, rows, says, status, looks, readVars>>

\* A variant of Fold that does not look for the row.
FoldAgain(i) == rows' = Append(rows, [side |-> "out", text |-> says[i], id |-> i, nth |-> 0])

\* The row of a committed reply; the second commit of a send adds none.
Fold(i) ==
  rows' = IF \E n \in DOMAIN rows : rows[n].id = i THEN rows
          ELSE Append(rows, [side |-> "out", text |-> says[i], id |-> i, nth |-> 0])

\* commit_reply, after the caller read its words back.
Commit(i) ==
  /\ live[i] /\ status[i] \in {"sent_unverified", "committed"}
  /\ Fold(i)
  /\ status' = [status EXCEPT ![i] = "committed"]
  /\ live' = [live EXCEPT ![i] = FALSE]
  /\ UNCHANGED <<page, unread, says, looks, readVars>>

----------------------------------------------------------------------------
\* _read_thread, one action per store transaction.

\* The list row, the tail and the unsettled sends, under the browser lock.
Read ==
  /\ phase = "idle"
  /\ phase' = "settle"
  /\ tail' = ClassifyTail(page)
  /\ seek' = {i \in Intents : status[i] \in Unsettled /\ looks[i] < MaxLooks}
  /\ settled' = {}
  /\ fetched' = unread
  /\ seen' = Len(page)
  /\ unread' = FALSE
  /\ UNCHANGED <<page, rows, sendVars, fresh>>

\* _settle_unsettled: found and committed, or counted as looked for.
Settle(i) ==
  /\ phase = "settle" /\ i \in seek
  /\ seek' = seek \ {i}
  /\ IF ~ContainsOutbound(tail, says[i])
     THEN /\ looks' = [looks EXCEPT ![i] = IF status[i] \in Unsettled THEN @ + 1 ELSE @]
          /\ UNCHANGED <<rows, status, settled>>
     ELSE IF status[i] \in Unsettled
     THEN /\ Fold(i)
          /\ status' = [status EXCEPT ![i] = "committed"]
          /\ settled' = settled \cup {says[i]}
          /\ UNCHANGED looks
     ELSE UNCHANGED <<rows, status, looks, settled>>
  /\ UNCHANGED <<page, unread, says, live, phase, tail, fresh, fetched, seen>>

\* The rows of s in their order, but for our own with one of these texts.
Without(s, texts) ==
  LET kept[n \in 0 .. Len(s)] ==
        IF n = 0 THEN <<>>
        ELSE IF s[n].side = "out" /\ s[n].text \in texts THEN kept[n - 1]
        ELSE Append(kept[n - 1], s[n])
  IN kept[Len(s)]

\* The texts just settled are dropped from what the read would record.
Kept == Without(NewRows(tail, Keys(rows)), settled)

\* Nothing new in a conversation with unread messages is a failed read.
Align ==
  /\ phase = "settle" /\ seek = {}
  /\ fresh' = Kept
  /\ phase' = IF Kept = <<>> THEN "idle" ELSE "record"
  /\ UNCHANGED <<page, unread, rows, sendVars, tail, seek, settled, fetched, seen>>

\* record_inbound: an id already stored is dropped by the schema.
Record ==
  /\ phase = "record"
  /\ rows' = IF \E n \in DOMAIN rows : rows[n] = Head(fresh) THEN rows
             ELSE Append(rows, Head(fresh))
  /\ fresh' = Tail(fresh)
  /\ phase' = IF Len(fresh) = 1 THEN "idle" ELSE "record"
  /\ UNCHANGED <<page, unread, sendVars, tail, seek, settled, fetched, seen>>

\* The daemon dies: callers and the read are gone, the rows stay.
Crash ==
  /\ phase # "idle" \/ \E i \in Intents : live[i]
  /\ phase' = "idle"
  /\ seek' = {} /\ fresh' = <<>>
  /\ live' = [i \in Intents |-> FALSE]
  /\ UNCHANGED <<page, unread, rows, says, status, looks, tail, settled, fetched, seen>>

Next ==
  \/ \E t \in Asks : BuyerWrites(t)
  \/ \E t \in Answers : SellerTypes(t)
  \/ SellerLooks
  \/ \E i \in Intents : Reserve(i) \/ PageTakes(i) \/ GiveUp(i) \/ Commit(i) \/ Settle(i)
  \/ Read \/ Align \/ Record \/ Crash

Spec == Init /\ [][Next]_vars

----------------------------------------------------------------------------
\* Properties.

Row == [side : {"in", "out"}, text : Asks \cup Answers, id : Intents \cup {"read"}, nth : Nat]

\* Every row keeps its type, no look is counted past the cap, and no two rows
\* of a transcript have the same id.
TypeOK ==
  /\ Range(page) \subseteq Bubble
  /\ unread \in BOOLEAN /\ fetched \in BOOLEAN
  /\ Range(rows) \subseteq Row /\ Range(fresh) \subseteq Row
  /\ Cardinality(Range(rows)) = Len(rows)
  /\ says \in [Intents -> Answers]
  /\ status \in [Intents -> Unsettled \cup {"none", "committed"}]
  /\ looks \in [Intents -> 0 .. MaxLooks]
  /\ live \in [Intents -> BOOLEAN]
  /\ phase \in {"idle", "settle", "record"}
  /\ Len(tail) <= Cap /\ seen <= Len(page)
  /\ seek \subseteq Intents /\ settled \subseteq Answers

\* What a step may not do.

\* What the read takes for new is never lost to the uniqueness of the id: the
\* numbers of repeated texts never collide, whatever is stored meanwhile.
EveryNewRowIsStored == Record => rows' # rows

\* A read that finds the transcript in step with the conversation it saw, as far
\* as it goes, records no bubble twice, however often a text is repeated.
Seen == FirstOf(page, seen)
InStep == \E n \in 0 .. seen : Keys(rows) = FirstOf(page, n)
Twice(r, p) == {k \in Range(Keys(r)) : Copies(Keys(r), k) > Copies(p, k)}
InStepReadsOnce ==
  phase = "settle" /\ phase' = "record" /\ InStep => Twice(rows \o fresh', Seen) = {}

\* After a read the transcript ends as the tail did, unless that last bubble is
\* our own reply which the same read settled: who spoke last is known.
LastWordIsKnown ==
  phase # "idle" /\ phase' = "idle" /\ ~Crash
    => LET last == tail[Len(tail)]
       IN \/ rows' # <<>> /\ Key(rows'[Len(rows')]) = last
          \/ last.side = "out" /\ last.text \in settled

\* What every step keeps.  The copies of a text are numbered: the number of a
\* stored copy is at most their count, the ones still to record come after it,
\* each after its predecessor, which is stored by then or is to be recorded
\* before it.  What was read is the end of the page as it was, and what is
\* recorded last is its last bubble, unless that one was settled.
NumberedWithin ==
  /\ \A n \in DOMAIN rows : rows[n].id = "read" => rows[n].nth <= Copies(Keys(rows), Key(rows[n]))
  /\ \A m, n \in DOMAIN rows : rows[m] = rows[n] => m = n
FreshIsNext ==
  \A j \in DOMAIN fresh :
    /\ fresh[j].id = "read" /\ fresh[j].nth > 0
    /\ \A n \in DOMAIN rows :
         rows[n].id = "read" /\ Key(rows[n]) = Key(fresh[j]) => rows[n].nth < fresh[j].nth
    /\ \A i \in 1 .. j - 1 : Key(fresh[i]) = Key(fresh[j]) => fresh[i].nth < fresh[j].nth
    /\ \/ fresh[j].nth - 1 <= Copies(Keys(rows), Key(fresh[j]))
       \/ \E i \in 1 .. j - 1 : Key(fresh[i]) = Key(fresh[j]) /\ fresh[i].nth = fresh[j].nth - 1
TailIsPage ==
  phase # "idle" =>
    /\ seen \in 1 .. Len(page) /\ Len(tail) = Least(seen, Cap)
    /\ \A n \in 1 .. Len(tail) : tail[n] = page[seen - Len(tail) + n]
LastIsLast ==
  phase = "record" =>
    LET last == tail[Len(tail)]
    IN /\ fresh # <<>>
       /\ Key(fresh[Len(fresh)]) = last \/ (last.side = "out" /\ last.text \in settled)
Shapes ==
  /\ page \in Seq(Bubble) /\ page # <<>> /\ rows \in Seq(Row) /\ fresh \in Seq(Row)
  /\ says \in [Intents -> Answers] /\ status \in [Intents -> Unsettled \cup {"none", "committed"}]
  /\ looks \in [Intents -> 0 .. MaxLooks] /\ live \in [Intents -> BOOLEAN]
  /\ unread \in BOOLEAN /\ fetched \in BOOLEAN /\ phase \in {"idle", "settle", "record"}
  /\ tail \in Seq(Bubble) /\ Len(tail) <= Cap /\ seen \in 0 .. Len(page)
  /\ seek \subseteq Intents /\ settled \subseteq Answers
  /\ \A i \in seek : looks[i] < MaxLooks
  /\ phase # "record" => fresh = <<>>
IInv == Shapes /\ NumberedWithin /\ FreshIsNext /\ TailIsPage /\ LastIsLast
============================================================================
