------------------------- MODULE SendBracketProofs -------------------------
(***************************************************************************)
(* Theorems about SendBracket, for every number of calls and of texts.     *)
(*                                                                         *)
(* The invariants of the runs are not inductive alone.  CallInv adds what  *)
(* the position of a call says about its intent row and its result, and    *)
(* TypeInv that a running tick only looks for sends it may still count.    *)
(***************************************************************************)
EXTENDS SendBracket, TLAPS

\* A tick only holds sends whose count of looks is below the cap.
TypeInv == /\ TypeOK
           /\ \A i \in toRead : attempts[i] < MaxVerify

\* The row is written at Reserve and not before; a call that has not returned
\* has no result; the read-back leaves with the words seen on the page.
CallInv ==
  \A i \in Intents :
    /\ pc[i] \in {"idle", "checked"} => status[i] = "none"
    /\ pc[i] \in InFlight \ {"checked"} => status[i] # "none"
    /\ pc[i] \in InFlight \cup {"idle"} => result[i] = "none"
    /\ pc[i] = "verified" => text[i] \in said

\* An escalation is only opened on a thread with no open one.
OneQuestion == \A k, l \in open : k = l

IInv == /\ TypeInv
        /\ CallInv
        /\ WriteAhead
        /\ SettledIsOnPage
        /\ OneQuestion
        /\ AskIsAbout

----------------------------------------------------------------------------

USE DEF callVars, intentVars, threadVars, pageVars

\* The escalation helpers keep the types of the thread's columns.
LEMMA OpenEscalationType ==
  ASSUME TypeOK, NEW kind \in EscKinds, OpenEscalation(kind)
  PROVE  /\ thread' \in ThreadStatus
         /\ escFrom' \in (ThreadStatus \ {"escalated"}) \cup {"none"}
         /\ heldFrom' \in (ThreadStatus \ {"held"}) \cup {"none"}
         /\ open' \subseteq EscKinds
BY DEF TypeOK, OpenEscalation, ThreadStatus, Sendable

LEMMA WithdrawType ==
  ASSUME TypeOK, NEW kind \in EscKinds, Withdraw(kind)
  PROVE  /\ thread' \in ThreadStatus
         /\ escFrom' \in (ThreadStatus \ {"escalated"}) \cup {"none"}
         /\ heldFrom' \in (ThreadStatus \ {"held"}) \cup {"none"}
         /\ open' \subseteq EscKinds
BY DEF TypeOK, Withdraw, ThreadStatus, Sendable

LEMMA InitInv == Init => IInv
BY BracketAssumption DEF Init, IInv, TypeInv, TypeOK, CallInv, WriteAhead, SettledIsOnPage,
   OneQuestion, AskIsAbout, InFlight, InBrowser, Results, IntentStatus, Unsettled, ThreadStatus,
   Sendable

\* Every step keeps the types and the cap on looks.
LEMMA TypeStep == TypeInv /\ [Next]_vars => TypeInv'
<1> SUFFICES ASSUME TypeInv, [Next]_vars PROVE TypeInv'
  OBVIOUS
<1> USE DEF TypeInv
<1>1. ASSUME NEW i \in Intents, NEW t \in Texts, Call(i, t) PROVE TypeInv'
  BY <1>1 DEF Call, TypeOK, InFlight, InBrowser
<1>2. ASSUME NEW i \in Intents, Refuse(i) PROVE TypeInv'
  BY <1>2 DEF Refuse, Return, TypeOK, Results
<1>3. ASSUME NEW i \in Intents, Reserve(i) PROVE TypeInv'
  BY <1>3 DEF Reserve, TypeOK, InFlight, InBrowser, IntentStatus, Unsettled
<1>4. ASSUME NEW i \in Intents, Drive(i) PROVE TypeInv'
  BY <1>4 DEF Drive, TypeOK, InFlight, InBrowser
<1>5. ASSUME NEW i \in Intents, NotAttempted(i) PROVE TypeInv'
  BY <1>5 DEF NotAttempted, Released, TypeOK, InFlight, InBrowser
<1>6. ASSUME NEW i \in Intents, Accept(i) PROVE TypeInv'
  BY <1>6 DEF Accept, PageTakes, TypeOK, InFlight, InBrowser
<1>7. ASSUME NEW i \in Intents, AcceptLost(i) PROVE TypeInv'
  BY <1>7 DEF AcceptLost, PageTakes, Released, TypeOK, InFlight, InBrowser
<1>8. ASSUME NEW i \in Intents, Mark(i) PROVE TypeInv'
  BY <1>8 DEF Mark, TypeOK, InFlight, InBrowser, IntentStatus, Unsettled
<1>9. ASSUME NEW i \in Intents, Verify(i) PROVE TypeInv'
  BY <1>9 DEF Verify, Released, TypeOK, InFlight, InBrowser
<1>10. ASSUME NEW i \in Intents, NotVerified(i) PROVE TypeInv'
  BY <1>10 DEF NotVerified, Released, TypeOK, InFlight, InBrowser
<1>11. ASSUME NEW i \in Intents, Report(i) PROVE TypeInv'
  BY <1>11 DEF Report, Return, TypeOK, Results
<1>12. ASSUME NEW i \in Intents, Commit(i) PROVE TypeInv'
  BY <1>12 DEF Commit, Return, TypeOK, Results, IntentStatus
<1>13. ASSUME NEW i \in Intents, Settle(i) PROVE TypeInv'
  <2>1. CASE status[i] \in Unsettled
    <3>1. Withdraw("unconfirmed_send")
      BY <1>13, <2>1 DEF Settle
    <3>2. "unconfirmed_send" \in EscKinds
      BY DEF EscKinds
    <3> QED
      BY <1>13, <2>1, <3>1, <3>2, WithdrawType DEF Settle, TypeOK, IntentStatus
  <2>2. CASE status[i] \notin Unsettled
    BY <1>13, <2>2 DEF Settle, TypeOK
  <2> QED
    BY <2>1, <2>2
<1>14. ASSUME NEW i \in Intents, Miss(i) PROVE TypeInv'
  BY <1>14, BracketAssumption DEF Miss, TypeOK
<1>15. ASSUME NEW i \in Intents, GrowOld(i) PROVE TypeInv'
  BY <1>15 DEF GrowOld, TypeOK
<1>16. ASSUME Crash PROVE TypeInv'
  BY <1>16 DEF Crash, TypeOK
<1>17. ASSUME Escalate PROVE TypeInv'
  BY <1>17, OpenEscalationType DEF Escalate, TypeOK, EscKinds
<1>18. ASSUME Reactivate \/ Close \/ HoldThread \/ ReleaseThread PROVE TypeInv'
  BY <1>18 DEF Reactivate, Close, HoldThread, ReleaseThread, TypeOK, ThreadStatus, Sendable
<1>19. ASSUME NEW kind \in EscKinds, ResolveEscalation(kind) PROVE TypeInv'
  BY <1>19 DEF ResolveEscalation, TypeOK
<1>20. ASSUME TickStart PROVE TypeInv'
  BY <1>20 DEF TickStart, ToSettle, TypeOK
<1>21. ASSUME TickEnd PROVE TypeInv'
  BY <1>21 DEF TickEnd, TypeOK
<1>22. ASSUME Sweep PROVE TypeInv'
  BY <1>22, OpenEscalationType DEF Sweep, Stale, TypeOK, EscKinds, IntentStatus, Unsettled
<1>23. ASSUME NEW t \in Texts, SellerTypes(t) PROVE TypeInv'
  BY <1>23 DEF SellerTypes, TypeOK
<1>24. CASE UNCHANGED vars
  BY <1>24 DEF vars, TypeOK
<1> QED
  BY <1>1, <1>2, <1>3, <1>4, <1>5, <1>6, <1>7, <1>8, <1>9, <1>10, <1>11, <1>12, <1>13, <1>14,
     <1>15, <1>16, <1>17, <1>18, <1>19, <1>20, <1>21, <1>22, <1>23, <1>24 DEF Next

\* Every step keeps what a call's position says about its row and its result.
LEMMA CallStepInv == TypeInv /\ CallInv /\ [Next]_vars => CallInv'
<1> SUFFICES ASSUME TypeInv, CallInv, [Next]_vars PROVE CallInv'
  OBVIOUS
<1> USE DEF TypeInv, TypeOK, CallInv, InFlight, InBrowser
<1>1. ASSUME NEW i \in Intents, NEW t \in Texts, Call(i, t) PROVE CallInv'
  BY <1>1 DEF Call
<1>2. ASSUME NEW i \in Intents, Refuse(i) PROVE CallInv'
  BY <1>2 DEF Refuse, Return
<1>3. ASSUME NEW i \in Intents, Reserve(i) PROVE CallInv'
  BY <1>3 DEF Reserve
<1>4. ASSUME NEW i \in Intents, Drive(i) PROVE CallInv'
  BY <1>4 DEF Drive
<1>5. ASSUME NEW i \in Intents, NotAttempted(i) PROVE CallInv'
  BY <1>5 DEF NotAttempted
<1>6. ASSUME NEW i \in Intents, Accept(i) PROVE CallInv'
  BY <1>6 DEF Accept, PageTakes
<1>7. ASSUME NEW i \in Intents, AcceptLost(i) PROVE CallInv'
  BY <1>7 DEF AcceptLost, PageTakes
<1>8. ASSUME NEW i \in Intents, Mark(i) PROVE CallInv'
  BY <1>8 DEF Mark
<1>9. ASSUME NEW i \in Intents, Verify(i) PROVE CallInv'
  BY <1>9 DEF Verify
<1>10. ASSUME NEW i \in Intents, NotVerified(i) PROVE CallInv'
  BY <1>10 DEF NotVerified
<1>11. ASSUME NEW i \in Intents, Report(i) PROVE CallInv'
  BY <1>11 DEF Report, Return
<1>12. ASSUME NEW i \in Intents, Commit(i) PROVE CallInv'
  BY <1>12 DEF Commit, Return
<1>13. ASSUME NEW i \in Intents, Settle(i) PROVE CallInv'
  BY <1>13 DEF Settle, Unsettled
<1>14. ASSUME NEW i \in Intents, Miss(i) \/ GrowOld(i) PROVE CallInv'
  BY <1>14 DEF Miss, GrowOld
<1>15. ASSUME Crash PROVE CallInv'
  BY <1>15 DEF Crash
<1>16. ASSUME Escalate \/ Reactivate \/ Close \/ HoldThread \/ ReleaseThread PROVE CallInv'
  BY <1>16 DEF Escalate, Reactivate, Close, HoldThread, ReleaseThread
<1>17. ASSUME NEW kind \in EscKinds, ResolveEscalation(kind) PROVE CallInv'
  BY <1>17 DEF ResolveEscalation
<1>18. ASSUME TickStart \/ TickEnd PROVE CallInv'
  BY <1>18 DEF TickStart, TickEnd
<1>19. ASSUME Sweep PROVE CallInv'
  BY <1>19 DEF Sweep, Stale
<1>20. ASSUME NEW t \in Texts, SellerTypes(t) PROVE CallInv'
  BY <1>20 DEF SellerTypes
<1>21. CASE UNCHANGED vars
  BY <1>21 DEF vars
<1> QED
  BY <1>1, <1>2, <1>3, <1>4, <1>5, <1>6, <1>7, <1>8, <1>9, <1>10, <1>11, <1>12, <1>13, <1>14,
     <1>15, <1>16, <1>17, <1>18, <1>19, <1>20, <1>21 DEF Next

\* What a step may do to a row's status, to the texts and to the page.  The
\* facts the page invariants and the refinement share.
RowStep ==
  /\ said \subseteq said'
  /\ \A i \in Intents :
       /\ text'[i] # text[i] => status[i] = "none" /\ status'[i] = "none"
       /\ i \in taken' \ taken => status[i] # "none"
       /\ status[i] # "none" => status'[i] # "none"
       /\ status'[i] = "committed" /\ status[i] # "committed" => text[i] \in said
       /\ status[i] = "committed" => status'[i] = "committed"

LEMMA StepRow == TypeInv /\ CallInv /\ [Next]_vars => RowStep
<1> SUFFICES ASSUME TypeInv, CallInv, [Next]_vars PROVE RowStep
  OBVIOUS
<1> USE DEF TypeInv, TypeOK, CallInv, InFlight, InBrowser, RowStep
<1>1. ASSUME NEW i \in Intents, NEW t \in Texts, Call(i, t) PROVE RowStep
  BY <1>1 DEF Call
<1>2. ASSUME NEW i \in Intents, Reserve(i) PROVE RowStep
  BY <1>2 DEF Reserve
<1>3. ASSUME NEW i \in Intents,
             \/ Refuse(i) \/ Drive(i) \/ NotAttempted(i) \/ Verify(i) \/ NotVerified(i)
             \/ Report(i) \/ Miss(i) \/ GrowOld(i)
      PROVE  RowStep
  BY <1>3 DEF Refuse, Drive, NotAttempted, Verify, NotVerified, Report, Miss, GrowOld
<1>4. ASSUME NEW i \in Intents, Accept(i) \/ AcceptLost(i) PROVE RowStep
  BY <1>4 DEF Accept, AcceptLost, PageTakes
<1>5. ASSUME NEW i \in Intents, Mark(i) PROVE RowStep
  BY <1>5 DEF Mark
<1>6. ASSUME NEW i \in Intents, Commit(i) PROVE RowStep
  BY <1>6 DEF Commit
<1>7. ASSUME NEW i \in Intents, Settle(i) PROVE RowStep
  BY <1>7 DEF Settle, Unsettled
<1>8. ASSUME \/ Crash \/ Escalate \/ Reactivate \/ Close \/ HoldThread \/ ReleaseThread
             \/ TickStart \/ TickEnd
      PROVE  RowStep
  BY <1>8 DEF Crash, Escalate, Reactivate, Close, HoldThread, ReleaseThread, TickStart, TickEnd
<1>9. ASSUME NEW kind \in EscKinds, ResolveEscalation(kind) PROVE RowStep
  BY <1>9 DEF ResolveEscalation
<1>10. ASSUME Sweep PROVE RowStep
  BY <1>10 DEF Sweep, Stale
<1>11. ASSUME NEW t \in Texts, SellerTypes(t) PROVE RowStep
  BY <1>11 DEF SellerTypes
<1>12. CASE UNCHANGED vars
  BY <1>12 DEF vars
<1> QED
  BY <1>1, <1>2, <1>3, <1>4, <1>5, <1>6, <1>7, <1>8, <1>9, <1>10, <1>11, <1>12 DEF Next

LEMMA PageStep ==
  RowStep /\ TypeInv /\ TypeInv' /\ WriteAhead /\ SettledIsOnPage
    => WriteAhead' /\ SettledIsOnPage'
BY DEF RowStep, WriteAhead, SettledIsOnPage, TypeInv, TypeOK

\* What a step may do to the rows an ask can be about: it keeps them.
AskedKept ==
  /\ asked \subseteq asked'
  /\ \A i \in Intents :
       /\ status[i] = "unconfirmed" =>
            \/ status'[i] = "unconfirmed"
            \/ status'[i] = "committed" /\ result'[i] = "sent"
       /\ status[i] = "committed" /\ result[i] = "sent" =>
            status'[i] = "committed" /\ result'[i] = "sent"

\* An open ask is about a send that is still in doubt, or that its own caller
\* confirmed after the ask.
LEMMA AskStep == TypeInv /\ CallInv /\ OneQuestion /\ AskIsAbout /\ [Next]_vars
                   => OneQuestion' /\ AskIsAbout'
<1> SUFFICES ASSUME TypeInv, CallInv, OneQuestion, AskIsAbout, [Next]_vars
             PROVE  OneQuestion' /\ AskIsAbout'
  OBVIOUS
<1> USE DEF TypeInv, TypeOK, CallInv, InFlight, InBrowser, OneQuestion, AskIsAbout
<1>a. ASSUME AskedKept, open' \subseteq open PROVE OneQuestion' /\ AskIsAbout'
  BY <1>a DEF AskedKept
<1>1. ASSUME NEW i \in Intents, NEW t \in Texts, Call(i, t) PROVE OneQuestion' /\ AskIsAbout'
  BY <1>1, <1>a DEF Call, AskedKept
<1>2. ASSUME NEW i \in Intents, Refuse(i) \/ Report(i) PROVE OneQuestion' /\ AskIsAbout'
  BY <1>2, <1>a DEF Refuse, Report, Return, AskedKept
<1>3. ASSUME NEW i \in Intents, Reserve(i) PROVE OneQuestion' /\ AskIsAbout'
  BY <1>3, <1>a DEF Reserve, AskedKept
<1>4. ASSUME NEW i \in Intents,
             \/ Drive(i) \/ NotAttempted(i) \/ Accept(i) \/ AcceptLost(i) \/ Verify(i)
             \/ NotVerified(i) \/ Miss(i) \/ GrowOld(i)
      PROVE  OneQuestion' /\ AskIsAbout'
  <2>1. AskedKept /\ open' = open
    BY <1>4 DEF Drive, NotAttempted, Accept, AcceptLost, Verify, NotVerified, Miss, GrowOld,
                AskedKept
  <2> QED
    BY <2>1, <1>a
<1>5. ASSUME NEW i \in Intents, Mark(i) PROVE OneQuestion' /\ AskIsAbout'
  BY <1>5, <1>a DEF Mark, AskedKept
<1>6. ASSUME NEW i \in Intents, Commit(i) PROVE OneQuestion' /\ AskIsAbout'
  <2>1. AskedKept /\ open' = open
    BY <1>6 DEF Commit, Return, AskedKept
  <2> QED
    BY <2>1, <1>a
<1>7. ASSUME NEW i \in Intents, Settle(i) PROVE OneQuestion' /\ AskIsAbout'
  <2>1. CASE status[i] \in Unsettled
    BY <1>7, <2>1 DEF Settle, Withdraw
  <2>2. CASE status[i] \notin Unsettled
    BY <1>7, <2>2, <1>a DEF Settle, AskedKept
  <2> QED
    BY <2>1, <2>2
<1>8. ASSUME Crash PROVE OneQuestion' /\ AskIsAbout'
  BY <1>8, <1>a DEF Crash, AskedKept
<1>9. ASSUME Escalate PROVE OneQuestion' /\ AskIsAbout'
  BY <1>9, <1>a DEF Escalate, OpenEscalation, AskedKept
<1>10. ASSUME Reactivate \/ Close \/ HoldThread \/ ReleaseThread \/ TickStart \/ TickEnd
       PROVE  OneQuestion' /\ AskIsAbout'
  BY <1>10, <1>a DEF Reactivate, Close, HoldThread, ReleaseThread, TickStart, TickEnd, AskedKept
<1>11. ASSUME NEW kind \in EscKinds, ResolveEscalation(kind) PROVE OneQuestion' /\ AskIsAbout'
  BY <1>11, <1>a DEF ResolveEscalation, AskedKept
<1>12. ASSUME Sweep PROVE OneQuestion' /\ AskIsAbout'
  <2>1. \A i \in Intents : status[i] = "unconfirmed" \/ i \in Stale => status'[i] = "unconfirmed"
    BY <1>12 DEF Sweep, Stale
  <2>2. CASE open = {}
    <3>1. PICK i \in Stale : TRUE
      BY <1>12 DEF Sweep
    <3>2. i \in Intents /\ i \in asked' /\ status'[i] = "unconfirmed"
      BY <1>12, <2>1, <2>2, <3>1 DEF Sweep, Stale
    <3>3. open' = {"unconfirmed_send"}
      BY <1>12, <2>2 DEF Sweep, OpenEscalation
    <3> QED
      BY <3>2, <3>3
  <2>3. CASE open # {}
    <3>1. AskedKept
      BY <1>12, <2>1 DEF Sweep, Stale, AskedKept
    <3>2. open' = open
      BY <1>12, <2>3 DEF Sweep, OpenEscalation
    <3> QED
      BY <3>1, <3>2, <1>a
  <2> QED
    BY <2>2, <2>3
<1>13. ASSUME NEW t \in Texts, SellerTypes(t) PROVE OneQuestion' /\ AskIsAbout'
  BY <1>13, <1>a DEF SellerTypes, AskedKept
<1>14. CASE UNCHANGED vars
  BY <1>14, <1>a DEF vars, AskedKept
<1> QED
  BY <1>1, <1>2, <1>3, <1>4, <1>5, <1>6, <1>7, <1>8, <1>9, <1>10, <1>11, <1>12, <1>13, <1>14
     DEF Next

----------------------------------------------------------------------------
\* The inductive invariant holds in every reachable state.
THEOREM Invariance == Spec => []IInv
<1>1. IInv /\ [Next]_vars => IInv'
  BY TypeStep, CallStepInv, StepRow, PageStep, AskStep DEF IInv
<1> QED
  BY InitInv, <1>1, PTL DEF Spec

\* The types of the callers' state, of the rows and of the thread.
THEOREM TypeCorrect == Spec => []TypeOK
<1>1. IInv => TypeOK
  BY DEF IInv, TypeInv
<1> QED
  BY Invariance, <1>1, PTL

\* The page never takes a reply that no durable intent stands for.
THEOREM RowBeforePage == Spec => []WriteAhead
<1>1. IInv => WriteAhead
  BY DEF IInv
<1> QED
  BY Invariance, <1>1, PTL

\* A reply is recorded as sent only if its words stand on the page.
THEOREM SettledTruth == Spec => []SettledIsOnPage
<1>1. IInv => SettledIsOnPage
  BY DEF IInv
<1> QED
  BY Invariance, <1>1, PTL

\* An open unconfirmed_send question is about a send still in doubt, or one its
\* own slow caller confirmed after the sweep asked.
THEOREM AskTruth == Spec => []AskIsAbout
<1>1. IInv => AskIsAbout
  BY DEF IInv
<1> QED
  BY Invariance, <1>1, PTL

\* No step but the release of a hold makes a thread with an open question
\* sendable.
THEOREM QuestionHolds == Spec => OpenQuestionHolds
<1>1. ASSUME [Next]_vars PROVE Exposed' /\ ~Exposed => ReleaseThread
  <2> SUFFICES ASSUME Exposed', ~Exposed PROVE ReleaseThread
    OBVIOUS
  <2> USE DEF Exposed
  <2>1. ASSUME UNCHANGED <<thread, open>> PROVE FALSE
    BY <2>1
  <2>2. ASSUME NEW kind \in EscKinds, OpenEscalation(kind) PROVE FALSE
    BY <2>2 DEF OpenEscalation, Sendable
  <2>3. ASSUME Reactivate \/ Close \/ HoldThread PROVE FALSE
    BY <2>3, BracketAssumption DEF Reactivate, Close, HoldThread, Sendable
  <2>4. ASSUME NEW kind \in EscKinds, ResolveEscalation(kind) PROVE FALSE
    BY <2>4 DEF ResolveEscalation
  <2>5. ASSUME NEW i \in Intents, Settle(i) PROVE FALSE
    BY <2>5, <2>1 DEF Settle, Withdraw
  <2>6. ASSUME Escalate \/ Sweep PROVE FALSE
    BY <2>6, <2>2 DEF Escalate, Sweep, EscKinds
  <2>7. ASSUME NEW i \in Intents, NEW t \in Texts, Call(i, t) PROVE FALSE
    BY <2>7, <2>1 DEF Call
  <2>8. ASSUME NEW i \in Intents,
               \/ Refuse(i) \/ Reserve(i) \/ Drive(i) \/ NotAttempted(i) \/ Accept(i)
               \/ AcceptLost(i) \/ Mark(i) \/ Verify(i) \/ NotVerified(i) \/ Report(i)
               \/ Commit(i) \/ Miss(i) \/ GrowOld(i)
        PROVE  FALSE
    BY <2>8, <2>1 DEF Refuse, Reserve, Drive, NotAttempted, Accept, AcceptLost, Mark, Verify,
                      NotVerified, Report, Commit, Miss, GrowOld
  <2>9. ASSUME Crash \/ TickStart \/ TickEnd PROVE FALSE
    BY <2>9, <2>1 DEF Crash, TickStart, TickEnd
  <2>10. ASSUME NEW t \in Texts, SellerTypes(t) PROVE FALSE
    BY <2>10, <2>1 DEF SellerTypes
  <2>11. CASE UNCHANGED vars
    BY <2>11, <2>1 DEF vars
  <2> QED
    BY <1>1, <2>3, <2>4, <2>5, <2>6, <2>7, <2>8, <2>9, <2>10, <2>11 DEF Next
<1> QED
  BY <1>1, PTL DEF Spec, OpenQuestionHolds

----------------------------------------------------------------------------
\* The refinement of SendPromise.

\* Every initial state is one of the promise's.
LEMMA PromiseInit == Init => Promise!Init
BY DEF Init, Fate, FateOf, Promise!Init

\* Every step keeps the promise or leaves fate, words and page alone.
LEMMA PromiseStep == TypeInv /\ CallInv /\ SettledIsOnPage /\ [Next]_vars
                       => [Promise!Next]_(Promise!vars)
<1> SUFFICES ASSUME TypeInv, CallInv, SettledIsOnPage, [Next]_vars
             PROVE  Promise!Next \/ UNCHANGED <<Fate, text, said>>
  BY DEF Promise!vars
<1> USE DEF TypeInv, TypeOK, CallInv, InFlight, InBrowser
<1>a. ASSUME UNCHANGED <<status, text, said>> PROVE UNCHANGED <<Fate, text, said>>
  BY <1>a DEF Fate, FateOf
<1>b. ASSUME NEW i \in Intents, status[i] \notin {"none", "committed"}, text[i] \in said,
             status' = [status EXCEPT ![i] = "committed"], UNCHANGED <<text, said>>
      PROVE  Promise!Next
  <2>1. Fate[i] \in {"unsure", "asked"}
    BY <1>b DEF Fate, FateOf, IntentStatus, Unsettled
  <2>2. Fate' = [Fate EXCEPT ![i] = "said"]
    BY <1>b DEF Fate, FateOf
  <2>3. Promise!Confirm(i)
    BY <1>b, <2>1, <2>2 DEF Promise!Confirm
  <2> QED
    BY <2>3 DEF Promise!Next
<1>c. ASSUME NEW t \in Texts, said' = said \cup {t}, UNCHANGED <<status, text>>
      PROVE  Promise!Next
  <2>1. Promise!Appear(t)
    BY <1>c DEF Promise!Appear, Fate, FateOf
  <2> QED
    BY <2>1 DEF Promise!Next
<1>1. ASSUME NEW i \in Intents, NEW t \in Texts, Call(i, t) PROVE Promise!Next
  <2>1. Promise!Draft(i, t)
    BY <1>1 DEF Call, Promise!Draft, Fate, FateOf
  <2> QED
    BY <2>1 DEF Promise!Next
<1>2. ASSUME NEW i \in Intents, Reserve(i) PROVE Promise!Next
  <2>1. Promise!Reserve(i)
    BY <1>2 DEF Reserve, Promise!Reserve, Fate, FateOf
  <2> QED
    BY <2>1 DEF Promise!Next
<1>3. ASSUME NEW i \in Intents,
             \/ Refuse(i) \/ Drive(i) \/ NotAttempted(i) \/ Verify(i) \/ NotVerified(i)
             \/ Report(i) \/ Miss(i) \/ GrowOld(i)
      PROVE  UNCHANGED <<Fate, text, said>>
  BY <1>3, <1>a DEF Refuse, Drive, NotAttempted, Verify, NotVerified, Report, Miss, GrowOld
<1>4. ASSUME NEW i \in Intents, Accept(i) \/ AcceptLost(i)
      PROVE  Promise!Next \/ UNCHANGED <<Fate, text, said>>
  <2>1. CASE PageTakes(i)
    BY <1>4, <2>1, <1>c DEF Accept, AcceptLost, PageTakes
  <2>2. CASE UNCHANGED pageVars
    BY <1>4, <2>2, <1>a DEF Accept, AcceptLost
  <2> QED
    BY <1>4, <2>1, <2>2 DEF Accept, AcceptLost
<1>5. ASSUME NEW i \in Intents, Mark(i) PROVE UNCHANGED <<Fate, text, said>>
  BY <1>5 DEF Mark, Fate, FateOf
<1>6. ASSUME NEW i \in Intents, Commit(i) PROVE Promise!Next \/ UNCHANGED <<Fate, text, said>>
  <2>1. CASE status[i] = "committed"
    BY <1>6, <2>1, <1>a DEF Commit
  <2>2. CASE status[i] # "committed"
    BY <1>6, <2>2, <1>b DEF Commit
  <2> QED
    BY <2>1, <2>2
<1>7. ASSUME NEW i \in Intents, Settle(i) PROVE Promise!Next \/ UNCHANGED <<Fate, text, said>>
  <2>1. CASE status[i] \in Unsettled
    BY <1>7, <2>1, <1>b DEF Settle, Unsettled
  <2>2. CASE status[i] \notin Unsettled
    BY <1>7, <2>2, <1>a DEF Settle
  <2> QED
    BY <2>1, <2>2
<1>8. ASSUME \/ Crash \/ Escalate \/ Reactivate \/ Close \/ HoldThread \/ ReleaseThread
             \/ TickStart \/ TickEnd
      PROVE  UNCHANGED <<Fate, text, said>>
  BY <1>8, <1>a DEF Crash, Escalate, Reactivate, Close, HoldThread, ReleaseThread, TickStart, TickEnd
<1>9. ASSUME NEW kind \in EscKinds, ResolveEscalation(kind) PROVE UNCHANGED <<Fate, text, said>>
  BY <1>9, <1>a DEF ResolveEscalation
<1>10. ASSUME Sweep PROVE Promise!Next
  <2>1. Stale \in SUBSET Intents
    BY DEF Stale
  <2>2. Promise!HandOver(Stale)
    BY <1>10 DEF Sweep, Stale, Fate, Promise!HandOver, FateOf
  <2> QED
    BY <2>1, <2>2 DEF Promise!Next
<1>11. ASSUME NEW t \in Texts, SellerTypes(t) PROVE Promise!Next
  BY <1>11, <1>c DEF SellerTypes
<1>12. CASE UNCHANGED vars
  BY <1>12, <1>a DEF vars
<1> QED
  BY <1>1, <1>2, <1>3, <1>4, <1>5, <1>6, <1>7, <1>8, <1>9, <1>10, <1>11, <1>12 DEF Next

\* The bracket implements SendPromise: a reply is said only while its words are
\* on the page, asked about once, and never becomes unsure again.
THEOREM Refinement == Spec => KeepsPromise
<1>1. IInv /\ [Next]_vars => [Promise!Next]_(Promise!vars)
  BY PromiseStep DEF IInv
<1> QED
  BY Invariance, PromiseInit, <1>1, PTL DEF Spec, KeepsPromise, Promise!Spec

============================================================================
