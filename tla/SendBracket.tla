---------------------------- MODULE SendBracket ----------------------------
(***************************************************************************)
(* One sell thread and everything that decides the fate of a reply on it:  *)
(* the send_reply tool (tools/reply.py), the browser sink that drives the  *)
(* page (browser/sink.py), the durable intent rows (store/send.py), the    *)
(* inbox tick that looks for our own message later (browser/inbox.py), the *)
(* stale-intent sweep, and the escalation that asks the seller             *)
(* (store/escalations.py, store/threads.py).                               *)
(*                                                                         *)
(* Every store method runs in one transaction under one lock (db.py), so   *)
(* each is one action.  Between two store calls, and between two browser   *)
(* calls, anything else may run: several callers (a reply pass, a channel  *)
(* pass, an attended session) are inside send_reply at once, each on its   *)
(* own HTTP thread.  An element of Intents stands for one call of the tool *)
(* and for the intent row it may write.                                    *)
(***************************************************************************)
EXTENDS Naturals, FiniteSets

CONSTANTS
  Intents,      \* calls of send_reply on this thread, and their intent rows
  Texts,        \* what a reply can say, up to reconcile.same_text
  MinVerify,    \* MIN_VERIFY_ATTEMPTS: looks before the seller is asked
  MaxVerify,    \* MAX_VERIFY_ATTEMPTS: looks before the lane gives up
  Start,        \* the status the thread starts with
  Terminal,     \* terminal statuses update_thread may set ("closed")
  Lane,         \* the inbox lane, as a holder of the browser
  Nobody        \* no holder

ASSUME BracketAssumption ==
  /\ MinVerify \in Nat
  /\ MaxVerify \in Nat
  /\ MinVerify <= MaxVerify
  /\ Start \in {"active", "agreed"}
  /\ Terminal \subseteq {"closed"}
  /\ Lane \notin Intents
  /\ Nobody \notin Intents
  /\ Lane # Nobody

VARIABLES
  \* the callers' local state
  pc,         \* pc[i]: how far call i has got
  result,     \* result[i]: the status the tool returned to the model
  browser,    \* who is inside client.exclusive()
  toRead,     \* the intents the running inbox tick has still to look for
  \* the database
  text,       \* send_intents.text, chosen by the caller
  status,     \* send_intents.status, "none" before the row exists
  attempts,   \* send_intents.verify_attempts
  age,        \* created_ts against the two grace periods
  thread,     \* threads.status
  escFrom,    \* threads.escalated_from_status, "none" for NULL
  heldFrom,   \* threads.held_from_status, "none" for NULL
  open,       \* the kinds of the thread's open escalations
  \* the marketplace page
  said,       \* texts standing on the page as our own bubbles
  taken,      \* intents whose commit the page accepted
  \* history
  asked       \* intents whose fold found or opened an unconfirmed_send ask

callVars == <<pc, result, browser, toRead>>
intentVars == <<text, status, attempts, age>>
threadVars == <<thread, escFrom, heldFrom, open>>
pageVars == <<said, taken>>
vars == <<callVars, intentVars, threadVars, pageVars, asked>>

----------------------------------------------------------------------------
\* Statuses.

\* UNSETTLED_STATUSES: we still do not know whether the buyer got it.
Unsettled == {"pending", "sent_unverified", "unconfirmed"}
IntentStatus == Unsettled \cup {"none", "committed"}

\* The thread statuses a plain reply may be sent on; every other one is in
\* _SELL_REFUSED ("agreed" opens for kind "reply" alone, the kind modelled).
Sendable == {"active", "agreed"}
ThreadStatus == Sendable \cup Terminal \cup {"escalated", "held"}

\* Where a call is between two store or browser calls.
InBrowser == {"driving", "accepted", "marked"}
InFlight == {"checked", "reserved", "failed", "verified"} \cup InBrowser
Results == {"none", "refused", "send_failed", "send_unverified", "sent"}
EscKinds == {"question", "unconfirmed_send"}

Init == /\ pc = [i \in Intents |-> "idle"]
        /\ result = [i \in Intents |-> "none"]
        /\ browser = Nobody
        /\ toRead = {}
        /\ text \in [Intents -> Texts]
        /\ status = [i \in Intents |-> "none"]
        /\ attempts = [i \in Intents |-> 0]
        /\ age = [i \in Intents |-> "fresh"]
        /\ thread = Start
        /\ escFrom = "none"
        /\ heldFrom = "none"
        /\ open = {}
        /\ said = {}
        /\ taken = {}
        /\ asked = {}

----------------------------------------------------------------------------
\* send_reply, from the pause check to the reservation.

\* The pause switch and the thread's status are read here and never again:
\* everything after works on a status that may have changed since.  A pause
\* only stops this step (and an inbox tick), so a step not taken covers it.
Call(i, t) ==
  /\ pc[i] = "idle"
  /\ thread \in Sendable
  /\ pc' = [pc EXCEPT ![i] = "checked"]
  /\ text' = [text EXCEPT ![i] = t]
  /\ UNCHANGED <<result, browser, toRead, status, attempts, age, threadVars,
                 pageVars, asked>>

Return(i, r) == /\ pc' = [pc EXCEPT ![i] = "done"]
                /\ result' = [result EXCEPT ![i] = r]

UnverifiedOpen == \E j \in Intents : status[j] = "sent_unverified"

\* No sink, a pacing verdict other than go, or an unverified send on this
\* thread (no_send_path, wait, quiet, unverified_open): nothing is recorded.
Refuse(i) ==
  /\ pc[i] = "checked"
  /\ Return(i, "refused")
  /\ UNCHANGED <<browser, toRead, intentVars, threadVars, pageVars, asked>>

Reserve(i) ==
  /\ pc[i] = "checked"
  /\ ~UnverifiedOpen
  /\ pc' = [pc EXCEPT ![i] = "reserved"]
  /\ status' = [status EXCEPT ![i] = "pending"]
  /\ UNCHANGED <<result, browser, toRead, text, attempts, age, threadVars,
                 pageVars, asked>>

----------------------------------------------------------------------------
\* BrowserReplySink.send, one action per call that can fail or be seen.

\* A variant of Drive that does not wait for the reservation's verdict.
DriveUnreserved(i) ==
  /\ pc[i] \in {"checked", "reserved"}
  /\ browser = Nobody
  /\ browser' = i
  /\ pc' = [pc EXCEPT ![i] = "driving"]
  /\ UNCHANGED <<result, toRead, intentVars, threadVars, pageVars, asked>>

\* The jitter is over and the browser is free: navigate, locate, type.
Drive(i) ==
  /\ pc[i] = "reserved"
  /\ browser = Nobody
  /\ browser' = i
  /\ pc' = [pc EXCEPT ![i] = "driving"]
  /\ UNCHANGED <<result, toRead, intentVars, threadVars, pageVars, asked>>

Released(i) == IF browser = i THEN Nobody ELSE browser

\* SendNotAttempted: no adapter or URL, no composer, or the page refused.
NotAttempted(i) ==
  /\ pc[i] \in {"reserved", "driving"}
  /\ pc' = [pc EXCEPT ![i] = "failed"]
  /\ browser' = Released(i)
  /\ UNCHANGED <<result, toRead, intentVars, threadVars, pageVars, asked>>

PageTakes(i) == /\ taken' = taken \cup {i}
                /\ said' = said \cup {text[i]}

\* _commit answers true.  The page took the message, or a key press fell on
\* a page that ignored it, which a key press cannot report.
Accept(i) ==
  /\ pc[i] = "driving"
  /\ pc' = [pc EXCEPT ![i] = "accepted"]
  /\ PageTakes(i) \/ UNCHANGED pageVars
  /\ UNCHANGED <<result, browser, toRead, intentVars, threadVars, asked>>

\* The page took the message and the browser call itself then failed (the
\* server timed out or died before it answered): a BrowserError like any
\* other, turned into SendNotAttempted.
AcceptLost(i) ==
  /\ pc[i] = "driving"
  /\ pc' = [pc EXCEPT ![i] = "failed"]
  /\ browser' = Released(i)
  /\ PageTakes(i)
  /\ UNCHANGED <<result, toRead, intentVars, threadVars, asked>>

\* A variant of Mark without its status guard.
MarkAlways(i) ==
  /\ pc[i] = "accepted"
  /\ pc' = [pc EXCEPT ![i] = "marked"]
  /\ status' = [status EXCEPT ![i] = "sent_unverified"]
  /\ UNCHANGED <<result, browser, toRead, text, attempts, age, threadVars,
                 pageVars, asked>>

\* mark_intent_sent_unverified, with its own status guard.
Mark(i) ==
  /\ pc[i] = "accepted"
  /\ pc' = [pc EXCEPT ![i] = "marked"]
  /\ status' = [status EXCEPT ![i] = IF @ = "pending" THEN "sent_unverified" ELSE @]
  /\ UNCHANGED <<result, browser, toRead, text, attempts, age, threadVars,
                 pageVars, asked>>

\* A variant of Verify for which no error from the key press is success.
VerifyBlind(i) ==
  /\ pc[i] = "marked"
  /\ pc' = [pc EXCEPT ![i] = "verified"]
  /\ browser' = Released(i)
  /\ UNCHANGED <<result, toRead, intentVars, threadVars, pageVars, asked>>

\* _verify reads our words back off the page.
Verify(i) ==
  /\ pc[i] = "marked"
  /\ text[i] \in said
  /\ pc' = [pc EXCEPT ![i] = "verified"]
  /\ browser' = Released(i)
  /\ UNCHANGED <<result, toRead, intentVars, threadVars, pageVars, asked>>

\* SendUnverified: the bubble did not show in the window, or a read failed.
NotVerified(i) ==
  /\ pc[i] = "marked"
  /\ pc' = [pc EXCEPT ![i] = "failed"]
  /\ browser' = Released(i)
  /\ UNCHANGED <<result, toRead, intentVars, threadVars, pageVars, asked>>

\* The tool's except clause: the durable status names the case.
Report(i) ==
  /\ pc[i] = "failed"
  /\ Return(i, IF status[i] = "sent_unverified" THEN "send_unverified" ELSE "send_failed")
  /\ UNCHANGED <<browser, toRead, intentVars, threadVars, pageVars, asked>>

\* commit_reply: unconditional on the intent's status.
Commit(i) ==
  /\ pc[i] = "verified"
  /\ Return(i, "sent")
  /\ status' = [status EXCEPT ![i] = "committed"]
  /\ UNCHANGED <<browser, toRead, text, attempts, age, threadVars, pageVars, asked>>

\* The daemon dies and is started again: callers and the tick are gone, the
\* rows stay.
Crash ==
  /\ \/ browser # Nobody
     \/ \E i \in Intents : pc[i] \in InFlight
  /\ pc' = [i \in Intents |-> IF pc[i] \in InFlight THEN "dead" ELSE pc[i]]
  /\ browser' = Nobody
  /\ toRead' = {}
  /\ UNCHANGED <<result, intentVars, threadVars, pageVars, asked>>

----------------------------------------------------------------------------
\* The escalation ledger and the thread's status.

\* _open_escalation_in_txn: an open escalation of any kind is left as it is,
\* and the thread with it.
OpenEscalation(kind) ==
  IF open # {}
  THEN UNCHANGED threadVars
  ELSE /\ open' = {kind}
       /\ escFrom' = IF thread # "escalated" THEN thread
                     ELSE IF escFrom = "none" THEN "active" ELSE escFrom
       /\ thread' = "escalated"
       /\ UNCHANGED heldFrom

\* A variant of Withdraw that leaves a thread on hold alone.
WithdrawUnlessHeld(kind) ==
  IF thread = "held"
  THEN UNCHANGED threadVars
  ELSE /\ open' = open \ {kind}
       /\ IF kind \in open /\ open = {kind} /\ thread = "escalated"
          THEN /\ thread' = IF escFrom = "none" THEN "active" ELSE escFrom
               /\ escFrom' = "none"
          ELSE UNCHANGED <<thread, escFrom>>
       /\ UNCHANGED heldFrom

\* _resolve_escalations_in_txn: the machine withdraws one kind of question,
\* and puts the thread back only when no other is open.
Withdraw(kind) ==
  /\ open' = open \ {kind}
  /\ IF kind \in open /\ open = {kind} /\ thread = "escalated"
     THEN /\ thread' = IF escFrom = "none" THEN "active" ELSE escFrom
          /\ escFrom' = "none"
     ELSE UNCHANGED <<thread, escFrom>>
  /\ UNCHANGED heldFrom

\* The escalate tool, with any question of a pass.
Escalate ==
  /\ OpenEscalation("question")
  /\ UNCHANGED <<callVars, intentVars, pageVars, asked>>

\* resolve_escalation: closes the record and nothing else.
ResolveEscalation(kind) ==
  /\ kind \in open
  /\ open' = open \ {kind}
  /\ UNCHANGED <<thread, escFrom, heldFrom, callVars, intentVars, pageVars, asked>>

\* A variant of Reactivate that does not look at the ledger.
ReactivateAround ==
  /\ thread = "escalated"
  /\ thread' = "active"
  /\ escFrom' = "none"
  /\ UNCHANGED <<heldFrom, open, callVars, intentVars, pageVars, asked>>

\* update_thread, escalated -> active: refused while a question is open.
Reactivate ==
  /\ thread = "escalated"
  /\ open = {}
  /\ thread' = "active"
  /\ escFrom' = "none"
  /\ UNCHANGED <<heldFrom, open, callVars, intentVars, pageVars, asked>>

\* update_thread, active -> closed.
Close ==
  /\ thread = "active"
  /\ thread' \in Terminal
  /\ UNCHANGED <<escFrom, heldFrom, open, callVars, intentVars, pageVars, asked>>

\* hold_thread: from any status; a second hold keeps the first one's memory.
HoldThread ==
  /\ heldFrom' = IF thread # "held" THEN thread
                 ELSE IF heldFrom = "none" THEN "active" ELSE heldFrom
  /\ thread' = "held"
  /\ UNCHANGED <<escFrom, open, callVars, intentVars, pageVars, asked>>

\* release_thread: looks at the remembered status alone.
ReleaseThread ==
  /\ thread' = IF heldFrom = "none" THEN "active" ELSE heldFrom
  /\ heldFrom' = "none"
  /\ UNCHANGED <<escFrom, open, callVars, intentVars, pageVars, asked>>

----------------------------------------------------------------------------
\* The inbox tick, as far as it concerns our own sends.

\* A variant of ToSettle without the cap on looks.
ToSettleUncapped == {i \in Intents : status[i] \in Unsettled}

\* unsettled_intents: what a tick looks for, read once, under the browser lock.
ToSettle == {i \in Intents : status[i] \in Unsettled /\ attempts[i] < MaxVerify}

TickStart ==
  /\ browser = Nobody
  /\ ToSettle # {}
  /\ browser' = Lane
  /\ toRead' = ToSettle
  /\ UNCHANGED <<pc, result, intentVars, threadVars, pageVars, asked>>

\* settle_intent_from_read: found on the page, so committed, and the question
\* about it taken back.
Settle(i) ==
  /\ i \in toRead
  /\ text[i] \in said
  /\ toRead' = toRead \ {i}
  /\ IF status[i] \in Unsettled
     THEN /\ status' = [status EXCEPT ![i] = "committed"]
          /\ Withdraw("unconfirmed_send")
     ELSE UNCHANGED <<status, threadVars>>
  /\ UNCHANGED <<pc, result, browser, text, attempts, age, pageVars, asked>>

\* bump_verify_attempt: not seen.  A bubble the page holds may be missed too:
\* not rendered yet, or scrolled out of the eight-bubble tail.
Miss(i) ==
  /\ i \in toRead
  /\ toRead' = toRead \ {i}
  /\ attempts' = [attempts EXCEPT ![i] = IF status[i] \in Unsettled THEN @ + 1 ELSE @]
  /\ UNCHANGED <<pc, result, browser, text, status, age, threadVars, pageVars, asked>>

\* A variant of TickEnd that keeps the browser.
TickEndKeeping ==
  /\ browser = Lane
  /\ toRead # {}
  /\ toRead' = {}
  /\ UNCHANGED <<pc, result, browser, intentVars, threadVars, pageVars, asked>>

\* The tick ends, read to the end or cut short by a browser error.
TickEnd ==
  /\ browser = Lane
  /\ browser' = Nobody
  /\ toRead' = {}
  /\ UNCHANGED <<pc, result, intentVars, threadVars, pageVars, asked>>

----------------------------------------------------------------------------
\* The stale-intent sweep: one transaction over every stale row.

\* A variant of Stale without the hard grace period.
StaleOnceLooked == {i \in Intents :
                      /\ status[i] \in {"pending", "sent_unverified"}
                      /\ age[i] # "fresh" /\ attempts[i] >= MinVerify}

\* What the sweep folds: looked for often enough, or past the hard grace.
Stale == {i \in Intents :
            /\ status[i] \in {"pending", "sent_unverified"}
            /\ \/ age[i] = "grace" /\ attempts[i] >= MinVerify
               \/ age[i] = "hard"}

Sweep ==
  /\ Stale # {}
  /\ status' = [i \in Intents |-> IF i \in Stale THEN "unconfirmed" ELSE status[i]]
  /\ OpenEscalation("unconfirmed_send")
  /\ asked' = IF open \in {{}, {"unconfirmed_send"}} THEN asked \cup Stale ELSE asked
  /\ UNCHANGED <<callVars, text, attempts, age, pageVars>>

----------------------------------------------------------------------------
\* The clock and the seller.

\* An unsettled row grows past GRACE_SEC, then past HARD_GRACE_SEC.
GrowOld(i) ==
  /\ status[i] \in {"pending", "sent_unverified"}
  /\ age[i] # "hard"
  /\ age' = [age EXCEPT ![i] = IF @ = "fresh" THEN "grace" ELSE "hard"]
  /\ UNCHANGED <<callVars, text, status, attempts, threadVars, pageVars, asked>>

\* The seller writes to the buyer in the marketplace app.
SellerTypes(t) ==
  /\ t \notin said
  /\ said' = said \cup {t}
  /\ UNCHANGED <<callVars, intentVars, threadVars, taken, asked>>

Next ==
  \/ \E i \in Intents :
       \/ \E t \in Texts : Call(i, t)
       \/ Refuse(i) \/ Reserve(i)
       \/ Drive(i) \/ NotAttempted(i) \/ Accept(i) \/ AcceptLost(i) \/ Mark(i)
       \/ Verify(i) \/ NotVerified(i) \/ Report(i) \/ Commit(i)
       \/ Settle(i) \/ Miss(i) \/ GrowOld(i)
  \/ Crash
  \/ Escalate \/ Reactivate \/ Close \/ HoldThread \/ ReleaseThread
  \/ \E kind \in EscKinds : ResolveEscalation(kind)
  \/ TickStart \/ TickEnd \/ Sweep
  \/ \E t \in Texts : SellerTypes(t)

Spec == Init /\ [][Next]_vars

\* A call's own steps, but for its wait for the browser.
CallStep(i) ==
  /\ pc[i] # "reserved"
  /\ \/ Refuse(i) \/ Reserve(i) \/ NotAttempted(i) \/ Accept(i) \/ AcceptLost(i)
     \/ Mark(i) \/ Verify(i) \/ NotVerified(i) \/ Report(i) \/ Commit(i)

\* A call's thread runs, the clock advances, the sweep comes round every two
\* minutes, and a tick ends (every browser call has a timeout).  A call that
\* waits for the browser gets it in one of the gaps between ticks.  Nothing
\* makes a tick start, a caller call or the seller act.
Fairness == /\ \A i \in Intents : /\ WF_vars(CallStep(i))
                                 /\ SF_vars(Drive(i))
                                 /\ WF_vars(GrowOld(i))
            /\ WF_vars(Sweep)
            /\ WF_vars(TickEnd)

FairSpec == Spec /\ Fairness

----------------------------------------------------------------------------
\* Properties.

TypeOK ==
  /\ pc \in [Intents -> {"idle", "done", "dead"} \cup InFlight]
  /\ result \in [Intents -> Results]
  /\ browser \in Intents \cup {Lane, Nobody}
  /\ toRead \subseteq Intents
  /\ text \in [Intents -> Texts]
  /\ status \in [Intents -> IntentStatus]
  /\ attempts \in [Intents -> 0 .. MaxVerify]
  /\ age \in [Intents -> {"fresh", "grace", "hard"}]
  /\ thread \in ThreadStatus
  /\ escFrom \in (ThreadStatus \ {"escalated"}) \cup {"none"}
  /\ heldFrom \in (ThreadStatus \ {"held"}) \cup {"none"}
  /\ open \subseteq EscKinds
  /\ said \subseteq Texts
  /\ taken \subseteq Intents
  /\ asked \subseteq Intents

\* A message never reaches the marketplace without a durable row behind it:
\* whatever dies afterwards, the sweep and the inbox tick still have it.
WriteAhead == \A i \in taken : status[i] # "none"

\* A reply is recorded as sent, by the send's own read-back or by a later
\* tick, only if its words stand on the page as ours.
SettledIsOnPage == \A i \in Intents : status[i] = "committed" => text[i] \in said

\* The seller is never left with a question the machine has answered: while an
\* unconfirmed_send ask is open, one of the sends it was raised about is still
\* unconfirmed, or was confirmed by its own caller after it was raised.
AskIsAbout ==
  "unconfirmed_send" \in open =>
    \E i \in asked : \/ status[i] = "unconfirmed"
                     \/ status[i] = "committed" /\ result[i] = "sent"

\* A thread with an open question becomes sendable in one way alone, the
\* release of a hold: never by update_thread, a settled send or a sweep.
Exposed == open # {} /\ thread \in Sendable
OpenQuestionHolds == [][Exposed' /\ ~Exposed => ReleaseThread]_vars

\* The bracket keeps SendPromise, with the intent's status as the fate.
FateOf(s) == IF s \in {"pending", "sent_unverified"} THEN "unsure"
             ELSE IF s = "unconfirmed" THEN "asked"
             ELSE IF s = "committed" THEN "said" ELSE "none"
Fate == [i \in Intents |-> FateOf(status[i])]
Promise == INSTANCE SendPromise WITH fate <- Fate, words <- text, page <- said
KeepsPromise == Promise!Spec

\* No send is forgotten: a reserved reply is in the end recorded as sent or put
\* in the seller's hands, even if the inbox lane never runs again.
NeverForgotten ==
  \A i \in Intents :
    status[i] \in {"pending", "sent_unverified"} ~> status[i] \in {"committed", "unconfirmed"}

\* Every call of the tool returns or dies with the daemon: nobody waits for the
\* browser for ever.
EveryCallReturns == \A i \in Intents : pc[i] \in InFlight ~> pc[i] \in {"done", "dead"}

\* What the tool's description and docs/browser-layer.md promise of
\* send_failed: nothing reached the page, so a retry is safe.
RetrySafe == \A i \in Intents : result[i] = "send_failed" => i \notin taken

============================================================================
