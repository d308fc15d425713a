----------------------------- MODULE Proactive -----------------------------
(* What the daemon tells the seller of its own accord                        *)
(* (channel/outbound.py): the one nudge towards a first listing, and word of *)
(* a buyer who waits for an answer.  Each lane reads its guards, and the     *)
(* notice that was queued before is among them, then queues; buyers, sends   *)
(* and the seller move in between, and the daemon may go down.               *)
EXTENDS Integers, Sequences

CONSTANTS
  Threads,
  WaitAge,   \* BUYER_WAITING_AGE_SEC
  NudgeAge,  \* FIRST_LISTING_NUDGE_AGE_SEC
  MaxMsgs    \* bound on the messages of a buyer

ProactiveAssumption == WaitAge \in Nat /\ NudgeAge \in Nat /\ MaxMsgs \in Nat

VARIABLES
  buyer,      \* the newest message of each thread, and its age while it is unanswered
  held,       \* threads the reply lane leaves: an open question, a send in the air
  seller,     \* paused, bound, quiet hours, listed or skipped
  boundFor,   \* time since the bind, up to NudgeAge
  queue,      \* notices queued, oldest first
  given,      \* how often each ref has been queued
  rows,       \* waits the lane read and has not looked at yet
  nudging     \* the nudge lane has passed its guards

vars == <<buyer, held, seller, boundFor, queue, given, rows, nudging>>

Waits == Threads \X (1..MaxMsgs)
Nudge == <<"first-listing-nudge">>
Refs == Waits \cup {Nudge}
Quiet == [msg |-> 0, age |-> -1]
Seller == [paused : BOOLEAN, bound : BOOLEAN, quiet : BOOLEAN, listed : BOOLEAN]

Init == /\ buyer = [t \in Threads |-> Quiet] /\ held = {}
        /\ seller = [paused |-> FALSE, bound |-> TRUE, quiet |-> FALSE, listed |-> FALSE]
        /\ boundFor = 0 /\ queue = <<>> /\ given = [r \in Refs |-> 0]
        /\ rows = {} /\ nudging = FALSE

QueueNotice(ref, holdable) ==
  /\ queue' = Append(queue, [ref |-> ref, holdable |-> holdable])
  /\ given' = [given EXCEPT ![ref] = @ + 1]

\* A variant of HasNotice.
HasNoticeQueued(ref) == \E i \in DOMAIN queue : queue[i].ref = ref

\* has_notice_with_ref: queued or delivered, and rows are never pruned
HasNotice(ref) == given[ref] > 0

-----------------------------------------------------------------------------
(* buyer_waiting_notice.                                                     *)

\* threads_with_unhandled_inbound dates a wait by its newest message
Waiting(t) == buyer[t].age >= 0 /\ t \notin held

ReadWaits ==
  /\ ~seller.paused /\ seller.bound /\ rows = {}
  /\ rows' = {<<t, buyer[t].msg>> : t \in {u \in Threads : Waiting(u) /\ buyer[u].age >= WaitAge}}
  /\ UNCHANGED <<buyer, held, seller, boundFor, queue, given, nudging>>

\* one row: said once for each message, at any hour
TellWait(w) ==
  /\ w \in rows /\ rows' = rows \ {w}
  /\ IF HasNotice(w) THEN UNCHANGED <<queue, given>> ELSE QueueNotice(w, FALSE)
  /\ UNCHANGED <<buyer, held, seller, boundFor, nudging>>

-----------------------------------------------------------------------------
(* first_listing_nudge.                                                      *)

CheckNudge ==
  /\ ~nudging /\ ~seller.paused /\ seller.bound /\ ~seller.listed /\ boundFor >= NudgeAge
  /\ ~HasNotice(Nudge) /\ nudging' = TRUE
  /\ UNCHANGED <<buyer, held, seller, boundFor, queue, given, rows>>

GiveNudge == /\ nudging /\ nudging' = FALSE /\ QueueNotice(Nudge, TRUE)
             /\ UNCHANGED <<buyer, held, seller, boundFor, rows>>

-----------------------------------------------------------------------------
\* claim_queued_notices: quiet hours hold back what is holdable, and only that
Due == {i \in DOMAIN queue : ~(seller.quiet /\ queue[i].holdable)}

\* drain_notices takes the oldest; a delivery that fails leaves the row where it is
Drain ==
  /\ ~seller.paused /\ seller.bound /\ Due # {}
  /\ LET first == CHOOSE i \in Due : \A j \in Due : i <= j IN
       queue' = SubSeq(queue, 1, first - 1) \o SubSeq(queue, first + 1, Len(queue))
  /\ UNCHANGED <<buyer, held, seller, boundFor, given, rows, nudging>>

BuyerWrites(t) ==
  /\ buyer[t].msg < MaxMsgs
  /\ buyer' = [buyer EXCEPT ![t] = [msg |-> @.msg + 1, age |-> 0]]
  /\ UNCHANGED <<held, seller, boundFor, queue, given, rows, nudging>>

\* a reply committed or the seller answering in the app
Answered(t) == /\ buyer[t].age >= 0
               /\ buyer' = [buyer EXCEPT ![t].age = -1]
               /\ UNCHANGED <<held, seller, boundFor, queue, given, rows, nudging>>

Holds(t) == /\ held' = IF t \in held THEN held \ {t} ELSE held \cup {t}
            /\ UNCHANGED <<buyer, seller, boundFor, queue, given, rows, nudging>>

\* pause and resume, a bind to another chat, the clock, a first listing or the Skip button
SellerChanges(s) ==
  /\ s # seller /\ (seller.listed => s.listed) /\ seller' = s
  /\ boundFor' = IF s.bound /\ ~seller.bound THEN 0 ELSE boundFor
  /\ UNCHANGED <<buyer, held, queue, given, rows, nudging>>

Older(age, top) == IF age \in 0..(top - 1) THEN age + 1 ELSE age

TimePasses ==
  /\ boundFor' = Older(boundFor, NudgeAge)
  /\ buyer' = [t \in Threads |-> [buyer[t] EXCEPT !.age = Older(@, WaitAge)]]
  /\ <<boundFor', buyer'>> # <<boundFor, buyer>>
  /\ UNCHANGED <<held, seller, queue, given, rows, nudging>>

Crash == /\ rows # {} \/ nudging
         /\ rows' = {} /\ nudging' = FALSE
         /\ UNCHANGED <<buyer, held, seller, boundFor, queue, given>>

Next == \/ ReadWaits \/ CheckNudge \/ GiveNudge \/ Drain \/ TimePasses \/ Crash
        \/ \E w \in Waits : TellWait(w)
        \/ \E t \in Threads : BuyerWrites(t) \/ Answered(t) \/ Holds(t)
        \/ \E s \in Seller : SellerChanges(s)

Spec == Init /\ [][Next]_vars

-----------------------------------------------------------------------------
TypeOK ==
  /\ buyer \in [Threads -> [msg : 0..MaxMsgs, age : -1..WaitAge]]
  /\ held \subseteq Threads /\ seller \in Seller /\ boundFor \in 0..NudgeAge
  /\ given \in [Refs -> Nat] /\ rows \subseteq Waits /\ nudging \in BOOLEAN
  /\ \A i \in DOMAIN queue : queue[i] \in [ref : Refs, holdable : BOOLEAN]

(* The seller is nudged once for ever and told once of each message left      *)
(* unanswered, over deliveries, restarts in the middle of a lane, a new bind  *)
(* and waits that end and begin again.                                        *)
OncePerRef == \A r \in Refs : given[r] <= 1

\* What every step keeps: the nudge that passed its guards is still owed.
IInv == /\ given \in [Refs -> Nat] /\ nudging \in BOOLEAN
        /\ (nudging => given[Nudge] = 0) /\ OncePerRef

=============================================================================
