------------------------------ MODULE BuySide ------------------------------
(* One want pursued with several sellers: the pure decisions of             *)
(* engines/buyer_negotiate.py over the ledger that store/negotiation.py     *)
(* loads and writes in one transaction, under the confidential budget of    *)
(* store/wants.py.  A call reads the budget before its transaction opens,   *)
(* so a correction of the budget may fall between the two.                  *)
EXTENDS Integers, FiniteSets

CONSTANTS
  Sellers,      \* buy threads of the want
  Prices,       \* what a seller may ask
  Aim,          \* opening_ratio of each listed price, rounded
  Budgets,      \* what the buyer may set
  Step, Rounds, \* auto_counter_step, auto_counter_rounds
  Calls         \* tool calls that may be under way at a time

Budget == [max : Nat \ {0}, target : Nat \ {0}]

BuySideAssumption ==
  /\ Prices \subseteq Nat \ {0} /\ Aim \in [Prices -> Nat] /\ Step \in Nat \ {0}
  /\ Budgets \subseteq Budget /\ \A b \in Budgets : b.target <= b.max
  /\ Rounds \in Nat \ {0} /\ "none" \notin Sellers

VARIABLES
  budget,   \* budgets row, or Unset, with its source
  read,     \* the budget a call under way has read
  want,     \* buyer_negotiations: shopping or committed
  chosen,   \* committed_thread
  seller,   \* buyer_negotiation_sellers; 0 stands for a missing amount
  said      \* the latest answer, and its thread

vars == <<budget, read, want, chosen, seller, said>>

Unset == [max |-> 0, target |-> 0, source |-> "none"]
Unread == [max |-> 0, target |-> 0]
Blank == [status |-> "none", last |-> 0, rounds |-> 0, agreed |-> 0]
Said(decision, price) == [decision |-> decision, price |-> price]
Answered(t, answer) == said' = [answer |-> answer, thread |-> t]

Larger(m, n) == IF m > n THEN m ELSE n
Smaller(m, n) == IF m < n THEN m ELSE n

Init == /\ budget = Unset /\ read = [c \in Calls |-> Unread]
        /\ want = "shopping" /\ chosen = "none" /\ seller = [s \in Sellers |-> Blank]
        /\ said = [answer |-> Said("none", 0), thread |-> "none"]

----------------------------------------------------------------------------
\* The engine.

\* decide_open
DecideOpen(listed, b) ==
  LET opening == Larger(1, Smaller(Smaller(b.target, Aim[listed]), b.max))
  IN IF listed <= b.max /\ opening >= listed THEN Said("accept", listed)
                                              ELSE Said("opening_offer", opening)

\* A variant of InBudget.
InBudgetFresh(p, s, b) ==
  LET proposed == Smaller(Larger(b.target, p - Step), b.max)
  IN IF s.rounds < Rounds /\ proposed < p THEN Said("counter", proposed) ELSE Said("accept", p)

\* decide_reply of a price above the target and within the budget
InBudget(p, s, b) ==
  LET proposed == Smaller(Larger(Larger(b.target, p - Step), s.last), b.max)
  IN IF s.rounds < Rounds /\ proposed < p THEN Said("counter", proposed) ELSE Said("accept", p)

\* A variant of OverBudget.
OverBudgetByAsk(p, s, b) ==
  LET proposed == Smaller(s.last + Step * (s.rounds + 1), p - 1)
  IN IF s.rounds >= Rounds THEN Said("walk_away", 0)
     ELSE IF s.last > 0 /\ proposed <= s.last THEN Said("hold", s.last)
     ELSE Said("counter", proposed)

\* decide_reply of a price above the budget
OverBudget(p, s, b) ==
  LET proposed == Smaller(Smaller(s.last + Step * (s.rounds + 1), b.max - 1), p - 1)
  IN IF s.rounds >= Rounds THEN Said("walk_away", 0)
     ELSE IF s.last > 0 /\ proposed <= s.last THEN Said("hold", s.last)
     ELSE Said("counter", proposed)

\* decide_reply
DecideReply(t, p, b) ==
  LET s == seller[t] IN
  IF want = "committed" /\ chosen # t THEN Said("stand_down", 0)
  ELSE IF (s.last > 0 /\ p <= s.last) \/ p <= b.target THEN Said("accept", p)
  ELSE IF p <= b.max THEN InBudget(p, s, b)
  ELSE OverBudget(p, s, b)

\* the guard raises and the transaction rolls back
Guarded(answer, b) == answer.price <= b.max

----------------------------------------------------------------------------
\* The budget.

\* set_budget: a default never replaces the buyer's, force replaces the buyer's
SetBudget(b, source, force) ==
  /\ budget.source = "buyer" => source = "buyer" /\ force
  /\ budget' = [max |-> b.max, target |-> b.target, source |-> source]
  /\ UNCHANGED <<read, want, chosen, seller, said>>

\* _budget_for_engine, outside the transaction that follows
ReadBudget(c) ==
  /\ read[c] = Unread /\ budget # Unset
  /\ read' = [read EXCEPT ![c] = [max |-> budget.max, target |-> budget.target]]
  /\ UNCHANGED <<budget, want, chosen, seller, said>>

Done(c) == read' = [read EXCEPT ![c] = Unread] /\ UNCHANGED budget

----------------------------------------------------------------------------
\* The verbs.

Entry(t) == IF seller[t].status = "none" THEN [Blank EXCEPT !.status = "negotiating"] ELSE seller[t]

Answer(t, entry, answer) == seller' = [seller EXCEPT ![t] = entry] /\ Answered(t, answer)

\* buyer_negotiate_seed: a thread the user started by hand, without the budget
Seed(t, last, rounds) ==
  /\ Answer(t, [Entry(t) EXCEPT !.status = "negotiating",
                                !.last = IF last > 0 THEN last ELSE @,
                                !.rounds = Larger(@, rounds)], Said("seeded", 0))
  /\ UNCHANGED <<budget, read, want, chosen>>

\* buyer_negotiate_open, which looks at no earlier state of the thread or the want
Open(c, t, listed) ==
  LET answer == DecideOpen(listed, read[c]) IN
  /\ read[c] # Unread /\ Done(c)
  /\ IF Guarded(answer, read[c])
       THEN Answer(t, IF answer.decision = "accept"
                        THEN [Entry(t) EXCEPT !.status = "deal_pending", !.agreed = answer.price]
                        ELSE [Entry(t) EXCEPT !.last = answer.price], answer)
       ELSE UNCHANGED <<seller, said>>
  /\ UNCHANGED <<want, chosen>>

\* buyer_negotiate_reply
Reply(c, t, p) ==
  LET answer == DecideReply(t, p, read[c])
      entry == CASE answer.decision = "counter" ->
                      [Entry(t) EXCEPT !.last = answer.price, !.rounds = @ + 1]
                 [] answer.decision = "accept" ->
                      [Entry(t) EXCEPT !.status = "deal_pending", !.agreed = answer.price]
                 [] answer.decision = "walk_away" -> [Entry(t) EXCEPT !.status = "walked"]
                 [] OTHER -> Entry(t)
  IN /\ read[c] # Unread /\ Done(c)
     /\ IF Guarded(answer, read[c]) THEN Answer(t, entry, answer) ELSE UNCHANGED <<seller, said>>
     /\ UNCHANGED <<want, chosen>>

Dropped == {"walked", "lost", "unavailable"}

\* A variant of Accept.
AcceptOnly(c, t) ==
  /\ read[c] # Unread /\ Done(c) /\ seller[t].status # "none"
  /\ want' = "committed" /\ chosen' = t
  /\ seller' = [seller EXCEPT ![t].status = "committed"]
  /\ Answered(t, Said("committed", 0))

\* buyer_negotiate_accept: the other sellers still in it are lost
Accept(c, t) ==
  /\ read[c] # Unread /\ Done(c) /\ seller[t].status # "none"
  /\ want' = "committed" /\ chosen' = t
  /\ seller' = [s \in Sellers |->
       IF s = t THEN [seller[s] EXCEPT !.status = "committed"]
       ELSE IF seller[s].status \in Dropped \cup {"none"} THEN seller[s]
       ELSE [seller[s] EXCEPT !.status = "lost"]]
  /\ Answered(t, Said("committed", 0))

\* buyer_negotiate_walk
Walk(t) ==
  /\ seller[t].status # "none"
  /\ Answer(t, [seller[t] EXCEPT !.status = "walked"], Said("walked", 0))
  /\ UNCHANGED <<budget, read, want, chosen>>

Next == \/ \E b \in Budgets, source \in {"buyer", "default"}, force \in BOOLEAN :
              SetBudget(b, source, force)
        \/ \E c \in Calls : \/ ReadBudget(c)
                            \/ \E t \in Sellers :
                                 \/ Accept(c, t)
                                 \/ \E p \in Prices : Open(c, t, p) \/ Reply(c, t, p)
        \/ \E t \in Sellers : Walk(t) \/ \E p \in Prices, n \in 0..Rounds : Seed(t, p, n)

Spec == Init /\ [][Next]_vars

----------------------------------------------------------------------------
Status == {"none", "negotiating", "deal_pending", "walked", "lost", "committed"}
TypeOK ==
  /\ budget \in [max : Nat, target : Nat, source : {"none", "buyer", "default"}]
  /\ read \in [Calls -> [max : Nat, target : Nat]]
  /\ want \in {"shopping", "committed"} /\ chosen \in Sellers \cup {"none"}
  /\ seller \in [Sellers -> [status : Status, last : Nat, rounds : 0..Rounds, agreed : Nat]]

(* The engine keeps within the budget by itself: over any ledger that seeds,  *)
(* corrections and earlier answers leave, its haggling stays strictly under   *)
(* the ceiling and under the ask, and the guard has something to refuse only  *)
(* where an offer made before already stood above the budget of now.          *)
EngineKeepsUnder ==
  \A t \in Sellers, p \in Prices, b \in Budgets :
     LET answer == DecideReply(t, p, b) IN
     /\ answer.decision = "counter" => answer.price < b.max /\ answer.price < p
     /\ ~Guarded(answer, b) => seller[t].last > b.max

(* Of a step.  An answer to a seller never takes back an offer: only the user's own seed  *)
(* or opening the thread again lowers the last offer on record.               *)
NeverLowers ==
  \A t \in Sellers :
     seller'[t].last < seller[t].last =>
        said'.answer.decision \in {"seeded", "opening_offer"}

(* The want is bought once: moving the commitment to another thread leaves no *)
(* second committed seller.                                                   *)
OneCommitment ==
  \A t \in Sellers : seller[t].status = "committed" => want = "committed" /\ chosen = t

\* A seller who is not in it yet has no offer on record.
Unopened == \A t \in Sellers : seller[t].status = "none" => seller[t].last = 0

\* What every step keeps, and what the engine is right under: a call reads a
\* budget that was set, and the amounts on record are prices.
IInv == /\ budget # Unset => [max |-> budget.max, target |-> budget.target] \in Budgets
        /\ read \in [Calls -> Budgets \cup {Unread}]
        /\ seller \in [Sellers -> [status : Status, last : Nat, rounds : Nat, agreed : Nat]]
        /\ OneCommitment /\ Unopened
=============================================================================
