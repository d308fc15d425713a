---------------------------- MODULE Negotiation ----------------------------
(***************************************************************************)
(* Selling one item to many buyers: the pure decision functions of         *)
(* engines/negotiate.py over the ledger that store/negotiation.py loads    *)
(* and writes in one transaction, so an offer is one action.  Passes and   *)
(* the seller's session call in any order, and a retrying lane calls with  *)
(* an offer that was decided before.                                       *)
(***************************************************************************)
EXTENDS Integers, FiniteSets

CONSTANTS
  Buyers,       \* the item's threads, on any marketplace
  ListPrice,    \* items.list_price
  Offers,       \* what a buyer may offer
  Floors,       \* what the seller may set as the floor
  Knobs,        \* what resolve_knobs may return, the seller's settings being
                \* read at each decision
  MaxMoves      \* bound on how often a buyer names another amount

Knob == [step : Nat, counters : Nat, low : Nat, lowballs : Nat]

ASSUME NegotiationAssumption ==
  /\ ListPrice \in Nat \ {0}
  /\ Offers \subseteq Nat \ {0}
  /\ Floors \subseteq 1 .. ListPrice
  /\ Knobs \subseteq Knob
  /\ MaxMoves \in Nat
  /\ "none" \notin Buyers /\ IsFiniteSet(Buyers)

VARIABLES
  \* negotiations
  state,      \* open, bidding, reserved_provisional or sold
  bidding,    \* is_bidding
  front,      \* front_runner
  \* negotiation_buyers; 0 stands for a missing amount
  offer,      \* the last offer on record
  held,       \* that offer waits for the floor
  high,       \* highest_offer
  rounds,     \* rounds_used
  last,       \* last_counter
  lowballs,   \* lowball_count
  status,     \* status
  \* floors
  floor,      \* the floor, 0 for no row
  \* history
  moves,      \* how often a buyer named another amount than before
  engaged     \* buyers whose latest answer left a price on the table

itemVars == <<state, bidding, front>>
buyerVars == <<offer, held, high, rounds, last, lowballs, status>>
vars == <<itemVars, buyerVars, floor, moves, engaged>>

NoFront == [buyer |-> "none", amount |-> 0, kind |-> "none"]
BuyerStatus == {"active", "passed", "front_runner", "leading_bid", "won", "outbid", "lost"}

Init == /\ state = "open" /\ bidding = FALSE /\ front = NoFront
        /\ offer = [b \in Buyers |-> 0]
        /\ held = [b \in Buyers |-> FALSE]
        /\ high = [b \in Buyers |-> 0]
        /\ rounds = [b \in Buyers |-> 0]
        /\ last = [b \in Buyers |-> 0]
        /\ lowballs = [b \in Buyers |-> 0]
        /\ status = [b \in Buyers |-> "active"]
        /\ floor = 0
        /\ moves = [b \in Buyers |-> 0]
        /\ engaged = {}

----------------------------------------------------------------------------
\* The engine.

Larger(m, n) == IF m > n THEN m ELSE n
Smaller(m, n) == IF m < n THEN m ELSE n

\* A variant of Standing that forgets a buyer as soon as they are outbid.
StandingActive(b) == {high[c] : c \in {d \in Buyers \ {b} : status[d] = "active"}} \cup {0}

\* The standing offers of the other buyers still in it.
Standing(b) == {high[c] : c \in {d \in Buyers \ {b} : status[d] \notin {"passed", "lost"}}} \cup {0}

\* other_best, and the least amount that beats it without passing the floor.
OtherBest(b) == CHOOSE n \in Standing(b) : \A m \in Standing(b) : m <= n
EffectiveMin(b, fl) == IF OtherBest(b) > 0 THEN Larger(fl, OtherBest(b) + 1) ELSE fl

\* A decision and the price it names, 0 for none.
Said(decision, price) == [decision |-> decision, price |-> price]

\* decide_below_list.
Haggle(b, o, fl, k) ==
  LET min == EffectiveMin(b, fl)
      ceiling == IF last[b] > 0 THEN last[b] ELSE ListPrice
      counter == Larger(min, Smaller(ListPrice - k.step * (rounds[b] + 1), ceiling))
  IN IF \/ last[b] > 0 /\ o >= last[b] /\ o >= min
        \/ rounds[b] < k.counters /\ o >= k.low /\ counter <= o
     THEN Said("accept_fcfs", o)
     ELSE IF rounds[b] >= k.counters THEN Said("hold_firm", Larger(ceiling, min))
     ELSE IF o >= k.low THEN Said("counter", counter)
     ELSE IF lowballs[b] + 1 >= k.lowballs THEN Said("disengage", ceiling)
     ELSE Said("deflect_lowball", 0)

TopBid == IF front.kind = "bid" THEN front.amount ELSE ListPrice

\* A variant of Decide that does not look at the item's state first.
DecideOpen(b, o, fl, k) ==
  IF o > ListPrice /\ o > (IF bidding THEN TopBid ELSE ListPrice) THEN Said("bid_lead", o)
  ELSE IF o > ListPrice \/ bidding THEN Said("bid_outbid", TopBid)
  ELSE IF front # NoFront /\ front.buyer # b THEN Said("fcfs_taken", 0)
  ELSE IF o = ListPrice THEN Said("accept_fcfs", ListPrice)
  ELSE Haggle(b, o, fl, k)

\* decide.
Decide(b, o, fl, k) ==
  IF state = "sold" THEN Said("sold", 0)
  ELSE IF o > ListPrice /\ o > (IF bidding THEN TopBid ELSE ListPrice) THEN Said("bid_lead", o)
  ELSE IF o > ListPrice \/ bidding THEN Said("bid_outbid", TopBid)
  ELSE IF front # NoFront /\ front.buyer # b THEN Said("fcfs_taken", 0)
  ELSE IF o = ListPrice THEN Said("accept_fcfs", ListPrice)
  ELSE Haggle(b, o, fl, k)

----------------------------------------------------------------------------
\* negotiate_offer.

\* A variant of Repeats that never recognises an offer.
RepeatsNever(b, o) == FALSE

\* record_offer answers False: the amount on top of the list, already decided.
Repeats(b, o) == offer[b] = o /\ ~held[b]

\* record_offer otherwise: a new row, or the hold on the same amount consumed.
Record(b, o, hold) ==
  /\ offer' = [offer EXCEPT ![b] = o]
  /\ held' = [held EXCEPT ![b] = hold]
  /\ high' = [high EXCEPT ![b] = Larger(@, o)]

Moves(b, o) ==
  /\ offer[b] = o \/ moves[b] < MaxMoves
  /\ moves' = [moves EXCEPT ![b] = IF offer[b] = o THEN @ ELSE @ + 1]

\* _hold_for_floor: below list with no floor, recorded and not decided.
HoldForFloor(b, o) ==
  /\ floor = 0 /\ o < ListPrice
  /\ state # "sold" /\ ~Repeats(b, o)
  /\ Moves(b, o)
  /\ Record(b, o, TRUE)
  /\ UNCHANGED <<itemVars, rounds, last, lowballs, status, floor, engaged>>

\* A variant of Front that lets the latest buyer at list take the item.
FrontLatest(b, said) ==
  CASE said.decision \in {"accept_fcfs", "fcfs_taken"} ->
         [buyer |-> b, amount |-> said.price, kind |-> "fcfs"]
    [] said.decision = "bid_lead" -> [buyer |-> b, amount |-> said.price, kind |-> "bid"]
    [] OTHER -> front

\* The front runner after a decision.
Front(b, said) ==
  CASE said.decision = "accept_fcfs" -> [buyer |-> b, amount |-> said.price, kind |-> "fcfs"]
    [] said.decision = "bid_lead" -> [buyer |-> b, amount |-> said.price, kind |-> "bid"]
    [] OTHER -> front

\* _apply_offer_transition.
Apply(b, said) ==
  LET d == said.decision
  IN /\ rounds' = [rounds EXCEPT ![b] = IF d = "counter" THEN @ + 1 ELSE @]
     /\ last' = [last EXCEPT ![b] = IF d = "counter" THEN said.price ELSE @]
     /\ lowballs' = [lowballs EXCEPT ![b] = IF d = "deflect_lowball" THEN @ + 1 ELSE @]
     /\ status' = [status EXCEPT ![b] = CASE d = "disengage" -> "passed"
                                          [] d = "accept_fcfs" -> "front_runner"
                                          [] d = "bid_lead" -> "leading_bid"
                                          [] OTHER -> @]
     /\ front' = Front(b, said)
     /\ bidding' = (bidding \/ d \in {"bid_lead", "bid_outbid"})
     /\ state' = CASE d = "accept_fcfs" -> "reserved_provisional"
                   [] d \in {"bid_lead", "bid_outbid"} -> "bidding"
                   [] OTHER -> state

NamesPrice == {"counter", "hold_firm", "accept_fcfs", "bid_lead"}

\* An offer with a floor, or at list or above it, which makes the list price
\* the floor.  A haggled price under the floor raises BelowFloorError, and the
\* transaction is undone.
DecideOffer(b, o, k) ==
  LET fl == IF floor = 0 THEN ListPrice ELSE floor
      said == Decide(b, o, fl, k)
  IN /\ floor > 0 \/ o >= ListPrice
     /\ ~Repeats(b, o)
     /\ said.decision = "disengage" => said.price >= fl
     /\ Moves(b, o)
     /\ Record(b, o, FALSE)
     /\ Apply(b, said)
     /\ floor' = fl
     /\ engaged' = IF said.decision = "disengage" THEN engaged \ {b}
                   ELSE IF said.decision \in NamesPrice THEN engaged \cup {b} ELSE engaged

----------------------------------------------------------------------------
\* The seller.

\* set_floor: never above the list price.
SetFloor(fl) == /\ floor' = fl
                /\ UNCHANGED <<itemVars, buyerVars, moves, engaged>>

\* negotiate_confirm_bid: the front runner wins, whatever its kind.
ConfirmBid(b) ==
  /\ front.buyer = b
  /\ state' = "reserved_provisional"
  /\ status' = [c \in Buyers |-> IF c = b THEN "won"
                                 ELSE IF status[c] # "passed" /\ offer[c] > 0 THEN "outbid"
                                 ELSE status[c]]
  /\ UNCHANGED <<bidding, front, offer, held, high, rounds, last, lowballs, floor, moves, engaged>>

\* negotiate_confirm_sold: to any of the item's threads.
ConfirmSold(b) ==
  /\ state' = "sold"
  /\ status' = [c \in Buyers |-> IF c # b /\ offer[c] > 0 /\ status[c] # "passed"
                                 THEN "lost" ELSE status[c]]
  /\ engaged' = {}
  /\ UNCHANGED <<bidding, front, offer, held, high, rounds, last, lowballs, floor, moves>>

\* A variant of Release that forgets the status of the one who backed out.
ReleaseFront ==
  /\ state' = IF bidding THEN "bidding" ELSE "open"
  /\ front' = NoFront
  /\ UNCHANGED <<bidding, buyerVars, floor, moves, engaged>>

\* negotiate_release: the holder backs out.
Release ==
  /\ state' = IF bidding THEN "bidding" ELSE "open"
  /\ front' = NoFront
  /\ status' = [c \in Buyers |-> IF status[c] \in {"front_runner", "won"} THEN "active"
                                 ELSE status[c]]
  /\ UNCHANGED <<bidding, offer, held, high, rounds, last, lowballs, floor, moves, engaged>>

Next ==
  \/ \E b \in Buyers, o \in Offers :
       \/ HoldForFloor(b, o)
       \/ \E k \in Knobs : DecideOffer(b, o, k)
  \/ \E fl \in Floors : SetFloor(fl)
  \/ \E b \in Buyers : ConfirmBid(b) \/ ConfirmSold(b)
  \/ Release

Spec == Init /\ [][Next]_vars

----------------------------------------------------------------------------
\* Properties.

\* Every column keeps its type, a floor never exceeds the list price, and a
\* front runner always has a price.
TypeOK ==
  /\ state \in {"open", "bidding", "reserved_provisional", "sold"}
  /\ bidding \in BOOLEAN
  /\ front \in [buyer : Buyers, amount : Nat \ {0}, kind : {"fcfs", "bid"}] \cup {NoFront}
  /\ offer \in [Buyers -> Nat]
  /\ held \in [Buyers -> BOOLEAN]
  /\ high \in [Buyers -> Nat]
  /\ rounds \in [Buyers -> Nat]
  /\ last \in [Buyers -> Nat]
  /\ lowballs \in [Buyers -> Nat]
  /\ status \in [Buyers -> BuyerStatus]
  /\ floor \in 0 .. ListPrice
  /\ moves \in [Buyers -> 0 .. MaxMoves]
  /\ engaged \subseteq Buyers

\* One physical item, one holder: whatever order offers, confirmations and
\* releases come in, at most one buyer holds it or has won it.  It is the
\* "FCFS single-inventory guarantee" of tools/negotiate.py, and it depends on
\* a buyer losing the hold in every path that gives it to another.
Holders == {b \in Buyers : status[b] \in {"front_runner", "won"}}
OneHolder == \A b, c \in Holders : b = c

\* A retrying lane wins nothing: the rounds and lowballs spent on a buyer never
\* exceed the times the buyer named another amount, however often the same
\* offer is decided, held for a floor or decided again when the floor lands.
MovesArePaid == \A b \in Buyers : rounds[b] + lowballs[b] <= moves[b]

\* An offer never takes a sold item from its buyer nor touches its front runner;
\* only the seller's release or confirmation can reopen it.
SoldIsSold ==
  [][(state = "sold" /\ offer' # offer) => (state' = "sold" /\ front' = front)]_vars

\* Below list the item is never given away under the standing offer of another
\* buyer the ledger counts as still in it.
StaysOverStanding ==
  (front' # front /\ front'.kind = "fcfs" /\ front'.amount < ListPrice)
    => \A c \in Buyers \ {front'.buyer} :
         status[c] \in {"passed", "lost"} \/ high[c] < front'.amount
\* No step of a sale undercuts the standing offer of a live rival.
NoUndercut == [][StaysOverStanding]_vars

\* Nor under that of a buyer whose latest answer left a price on the table.
\* tools/negotiate.py calls not accepting "BELOW a live rival's standing offer"
\* "the one guarantee the negotiation engine makes".  A buyer who was
\* disengaged and comes back is answered and stays "passed".
NoUndercutLive ==
  [][(front' # front /\ front'.kind = "fcfs" /\ front'.amount < ListPrice)
       => \A c \in engaged \ {front'.buyer} : high[c] <= front'.amount]_vars

============================================================================
