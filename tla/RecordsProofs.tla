---------------------------- MODULE RecordsProofs ---------------------------
(***************************************************************************)
(* What the sale and seven other parts of Records keep at every size: the  *)
(* lanes, the web tail, the proactive notices, the control tokens, the buy *)
(* side, the checkout and the transcript.  Each has an inductive invariant,*)
(* IInv of its module, shown to hold at first and to survive every step;   *)
(* the last sections have the shapes of these parts and of some others     *)
(* (see ShapesProofs).  The proofs name the variables as Records does;     *)
(* each section opens with what they stand for.                            *)
(***************************************************************************)
EXTENDS Records, FiniteSetTheorems, SequenceTheorems, TLAPS

-----------------------------------------------------------------------------
(* Negotiation, for any number of buyers, any prices and any firmness: one   *)
(* holder, and a price for every concession.                                *)

\* The tables are functions, as far as the proofs look at them.
Tables ==
  /\ offer \in [Buyers -> Nat]
  /\ held \in [Buyers -> BOOLEAN]
  /\ rounds \in [Buyers -> Nat]
  /\ lowballs \in [Buyers -> Nat]
  /\ moves \in [Buyers -> Nat]
  /\ status \in [Buyers -> BuyerStatus]

\* Until bidding starts, the holder is the front runner; and a holder has
\* offered, so that a confirmed bid reaches them.
HolderLeads ==
  \A b \in Holders : offer[b] > 0 /\ (~bidding => front.buyer = b)

\* An offer that waits for the floor has been counted and not been answered.
HeldIsOwed ==
  \A b \in Buyers : rounds[b] + lowballs[b] + (IF held[b] THEN 1 ELSE 0) <= moves[b]

\* The front runner has offered, so that confirming their bid spares nobody else.
FrontOffered == front = NoFront \/ (front.buyer \in Buyers /\ offer[front.buyer] > 0)

\* The inductive invariant.
IInv == Tables /\ OneHolder /\ HolderLeads /\ HeldIsOwed /\ FrontOffered

\* decide accepts below or at list only while there is no bidding, and only for
\* the front runner or without one.
LEMMA AcceptsForFront ==
  ASSUME NEW b, NEW o, NEW fl, NEW k,
         Decide(b, o, fl, k).decision = "accept_fcfs"
  PROVE  ~bidding /\ (front = NoFront \/ front.buyer = b)
  BY DEF Decide, Said

\* The first state.
LEMMA InitInv ==
  ASSUME Init
  PROVE  IInv
  BY DEF Init, IInv, Tables, OneHolder, Holders, HolderLeads, HeldIsOwed, FrontOffered, BuyerStatus

\* Recording an offer keeps the tables and what is owed.
LEMMA HoldStep ==
  ASSUME IInv, NEW b \in Buyers, NEW o \in Offers, HoldForFloor(b, o)
  PROVE  IInv'
<1> USE NegotiationAssumption
<1>1. o \in Nat /\ o > 0
  OBVIOUS
<1>2. Tables'
  BY <1>1 DEF IInv, Tables, HoldForFloor, Record, Moves
<1>3. OneHolder' /\ HolderLeads' /\ FrontOffered'
  BY <1>1 DEF IInv, Tables, HoldForFloor, Record, OneHolder, Holders, HolderLeads, FrontOffered,
              itemVars
<1>4. HeldIsOwed'
  BY DEF IInv, Tables, HoldForFloor, Record, Moves, Repeats, HeldIsOwed
<1> QED
  BY <1>2, <1>3, <1>4 DEF IInv

\* A decided offer: who holds the item afterwards.
LEMMA DecideHolders ==
  ASSUME IInv, NEW b \in Buyers, NEW o \in Offers, NEW k \in Knobs, DecideOffer(b, o, k)
  PROVE  OneHolder' /\ HolderLeads' /\ FrontOffered'
<1> USE NegotiationAssumption
<1> DEFINE fl == IF floor = 0 THEN ListPrice ELSE floor
           said == Decide(b, o, fl, k)
<1>1. Apply(b, said) /\ Record(b, o, FALSE)
  BY DEF DecideOffer
<1>2. status \in [Buyers -> BuyerStatus] /\ offer \in [Buyers -> Nat] /\ o \in Nat /\ o > 0
  BY DEF IInv, Tables
<1>3. \A c \in Buyers : offer[c] > 0 => offer'[c] > 0
  BY <1>1, <1>2 DEF Record
<1>4. offer'[b] > 0
  BY <1>1, <1>2 DEF Record
<1>5. FrontOffered'
  <2>1. front' = front \/ front'.buyer = b
    BY <1>1 DEF Apply, Front
  <2> QED
    BY <1>3, <1>4, <2>1 DEF IInv, FrontOffered
<1>6. CASE said.decision = "accept_fcfs"
  <2>1. ~bidding /\ (front = NoFront \/ front.buyer = b)
    BY <1>6, AcceptsForFront
  <2>2. Holders \subseteq {b}
    BY <2>1 DEF IInv, HolderLeads, NoFront, Holders
  <2>3. Holders' \subseteq {b}
    BY <1>1, <1>2, <1>6, <2>2 DEF Apply, Holders
  <2>4. front'.buyer = b
    BY <1>1, <1>6 DEF Apply, Front
  <2> QED
    BY <1>4, <1>5, <2>3, <2>4 DEF OneHolder, HolderLeads
<1>7. CASE said.decision # "accept_fcfs"
  <2>1. Holders' \subseteq Holders
    BY <1>1, <1>2, <1>7 DEF Apply, Holders
  <2>2. OneHolder'
    BY <2>1 DEF IInv, OneHolder
  <2>3. ~bidding' => ~bidding /\ front' = front
    BY <1>1, <1>7 DEF Apply, Front
  <2>4. \A c \in Holders' : offer'[c] > 0
    BY <1>3, <2>1 DEF IInv, HolderLeads, Holders
  <2>5. ~bidding' => \A c \in Holders' : front'.buyer = c
    BY <2>1, <2>3 DEF IInv, HolderLeads
  <2> QED
    BY <1>5, <2>2, <2>4, <2>5 DEF HolderLeads
<1> QED
  BY <1>6, <1>7

\* A decided offer: what it costs.
LEMMA DecidePays ==
  ASSUME IInv, NEW b \in Buyers, NEW o \in Offers, NEW k \in Knobs, DecideOffer(b, o, k)
  PROVE  Tables' /\ HeldIsOwed'
<1> USE NegotiationAssumption
<1> DEFINE fl == IF floor = 0 THEN ListPrice ELSE floor
           said == Decide(b, o, fl, k)
           d == said.decision
<1>1. Apply(b, said) /\ Record(b, o, FALSE) /\ Moves(b, o) /\ ~Repeats(b, o)
  BY DEF DecideOffer
<1>2. o \in Nat
  OBVIOUS
<1>3. /\ rounds' = [rounds EXCEPT ![b] = IF d = "counter" THEN @ + 1 ELSE @]
      /\ lowballs' = [lowballs EXCEPT ![b] = IF d = "deflect_lowball" THEN @ + 1 ELSE @]
  BY <1>1 DEF Apply
<1>4. /\ offer' = [offer EXCEPT ![b] = o]
      /\ held' = [held EXCEPT ![b] = FALSE]
      /\ moves' = [moves EXCEPT ![b] = IF offer[b] = o THEN @ ELSE @ + 1]
  BY <1>1 DEF Record, Moves
<1>5. status' \in [Buyers -> BuyerStatus]
  BY <1>1 DEF Apply, IInv, Tables, BuyerStatus
<1> HIDE DEF d, said
<1>6. Tables'
  <2>1. offer' \in [Buyers -> Nat] /\ held' \in [Buyers -> BOOLEAN]
    BY <1>2, <1>4 DEF IInv, Tables
  <2>2. rounds' \in [Buyers -> Nat]
    BY <1>3 DEF IInv, Tables
  <2>3. lowballs' \in [Buyers -> Nat]
    BY <1>3 DEF IInv, Tables
  <2>4. moves' \in [Buyers -> Nat]
    BY <1>4 DEF IInv, Tables
  <2> QED
    BY <1>5, <2>1, <2>2, <2>3, <2>4 DEF Tables
<1>7. ASSUME NEW c \in Buyers, c # b
      PROVE  rounds'[c] + lowballs'[c] + (IF held'[c] THEN 1 ELSE 0) <= moves'[c]
  BY <1>3, <1>4, <1>7 DEF IInv, Tables, HeldIsOwed
<1>8. rounds'[b] + lowballs'[b] <= rounds[b] + lowballs[b] + 1
  BY <1>3 DEF IInv, Tables
<1>9. rounds[b] + lowballs[b] + 1 <= moves'[b]
  BY <1>1, <1>4 DEF IInv, Tables, HeldIsOwed, Repeats
<1>10. rounds'[b] + lowballs'[b] + (IF held'[b] THEN 1 ELSE 0) <= moves'[b]
  <2>1. held'[b] = FALSE
    BY <1>4 DEF IInv, Tables
  <2>2. rounds'[b] \in Nat /\ lowballs'[b] \in Nat /\ moves'[b] \in Nat
    BY <1>6 DEF Tables
  <2> QED
    BY <1>8, <1>9, <2>1, <2>2 DEF IInv, Tables
<1> QED
  BY <1>6, <1>7, <1>10 DEF HeldIsOwed

\* What the seller does.
LEMMA SellerStep ==
  ASSUME IInv,
         \/ \E fl \in Floors : SetFloor(fl)
         \/ \E b \in Buyers : ConfirmBid(b) \/ ConfirmSold(b)
         \/ Release
  PROVE  IInv'
<1>1. ASSUME NEW fl \in Floors, SetFloor(fl)
      PROVE  IInv'
  BY <1>1 DEF SetFloor, itemVars, buyerVars, IInv, Tables, OneHolder, Holders, HolderLeads,
              HeldIsOwed, FrontOffered
<1>2. ASSUME NEW b \in Buyers, ConfirmBid(b)
      PROVE  IInv'
  <2>1. UNCHANGED <<offer, held, rounds, lowballs, moves, front>>
    BY <1>2 DEF ConfirmBid
  <2>2. Tables' /\ HeldIsOwed'
    BY <1>2, <2>1 DEF ConfirmBid, IInv, Tables, HeldIsOwed, BuyerStatus
  <2>3. Holders' \subseteq {b}
    BY <1>2 DEF ConfirmBid, IInv, Tables, Holders, HolderLeads
  <2>4. OneHolder' /\ front'.buyer = b
    BY <1>2, <2>1, <2>3 DEF ConfirmBid, OneHolder
  <2>5. offer[b] > 0
    BY <1>2, NegotiationAssumption DEF ConfirmBid, IInv, FrontOffered, NoFront
  <2>6. HolderLeads' /\ FrontOffered'
    BY <2>1, <2>3, <2>4, <2>5 DEF HolderLeads, FrontOffered, IInv
  <2> QED
    BY <2>2, <2>4, <2>6 DEF IInv
<1>3. ASSUME NEW b \in Buyers, ConfirmSold(b)
      PROVE  IInv'
  <2>1. Tables' /\ HeldIsOwed'
    BY <1>3 DEF ConfirmSold, IInv, Tables, HeldIsOwed, BuyerStatus
  <2>2. Holders' \subseteq Holders
    BY <1>3 DEF ConfirmSold, IInv, Tables, Holders
  <2> QED
    BY <1>3, <2>1, <2>2 DEF ConfirmSold, IInv, OneHolder, HolderLeads, FrontOffered, Holders
<1>4. ASSUME Release
      PROVE  IInv'
  <2>1. Tables' /\ HeldIsOwed'
    BY <1>4 DEF Release, IInv, Tables, HeldIsOwed, BuyerStatus
  <2>2. Holders' = {}
    BY <1>4 DEF Release, IInv, Tables, Holders
  <2> QED
    BY <1>4, <2>1, <2>2 DEF Release, IInv, OneHolder, HolderLeads, FrontOffered
<1> QED
  BY <1>1, <1>2, <1>3, <1>4

\* Whatever the order of offers, holds, floors, confirmations and releases.
THEOREM Invariance == Spec => []IInv
<1>1. Init => IInv
  BY InitInv
<1>2. IInv /\ [Next]_vars => IInv'
  <2> SUFFICES ASSUME IInv, [Next]_vars
               PROVE  IInv'
    OBVIOUS
  <2>1. ASSUME NEW b \in Buyers, NEW o \in Offers, HoldForFloor(b, o)
        PROVE  IInv'
    BY <2>1, HoldStep
  <2>2. ASSUME NEW b \in Buyers, NEW o \in Offers, NEW k \in Knobs, DecideOffer(b, o, k)
        PROVE  IInv'
    BY <2>2, DecideHolders, DecidePays DEF IInv
  <2>3. CASE UNCHANGED vars
    BY <2>3 DEF vars, itemVars, buyerVars, IInv, Tables, OneHolder, Holders, HolderLeads,
                HeldIsOwed, FrontOffered
  <2> QED
    BY <2>1, <2>2, <2>3, SellerStep DEF Next
<1> QED
  BY <1>1, <1>2, PTL DEF Spec

\* At most one buyer holds the item or has won it, for any number of buyers,
\* any prices and any firmness settings (tools/negotiate.py, the FCFS
\* single-inventory guarantee).
THEOREM OneHolderAlways == Spec => []OneHolder
<1>1. IInv => OneHolder
  BY DEF IInv
<1> QED
  BY <1>1, Invariance, PTL

\* The rounds and lowballs spent on a buyer never exceed the amounts the buyer
\* named, so a retried call of negotiate_offer concedes nothing.
THEOREM MovesPaid == Spec => []MovesArePaid
<1>1. IInv => MovesArePaid
  <2> SUFFICES ASSUME IInv, NEW b \in Buyers
               PROVE  rounds[b] + lowballs[b] <= moves[b]
    BY DEF MovesArePaid
  <2>1. rounds[b] \in Nat /\ lowballs[b] \in Nat /\ moves[b] \in Nat
    BY DEF IInv, Tables
  <2>2. rounds[b] + lowballs[b] + (IF held[b] THEN 1 ELSE 0) <= moves[b]
    BY DEF IInv, HeldIsOwed
  <2> QED
    BY <2>1, <2>2
<1> QED
  BY <1>1, Invariance, PTL

\* No offer reopens a sold item or changes its front runner: decide looks at the
\* state before anything else, and the hold for a floor is refused.
THEOREM SoldStays == Spec => SoldIsSold
<1>1. ASSUME [Next]_vars, state = "sold", offer' # offer
      PROVE  state' = "sold" /\ front' = front
  <2>1. ASSUME NEW b \in Buyers, NEW o \in Offers, HoldForFloor(b, o)
        PROVE  state' = "sold" /\ front' = front
    BY <1>1, <2>1 DEF HoldForFloor
  <2>2. ASSUME NEW b \in Buyers, NEW o \in Offers, NEW k \in Knobs, DecideOffer(b, o, k)
        PROVE  state' = "sold" /\ front' = front
    BY <1>1, <2>2 DEF DecideOffer, Decide, Said, Apply, Front
  <2>3. CASE UNCHANGED vars
    BY <1>1, <2>3 DEF vars, buyerVars
  <2> QED
    BY <1>1, <2>1, <2>2, <2>3 DEF Next, SetFloor, ConfirmBid, ConfirmSold, Release, buyerVars
<1> QED
  BY <1>1, PTL DEF Spec, SoldIsSold

-----------------------------------------------------------------------------
\* Below the list price.

\* A finite set of offers has a best one.  The sizes of the subsets without one
\* are natural numbers, so there would be a least.
LEMMA BestOfFinite ==
  ASSUME NEW S, S \subseteq Nat, S # {}, IsFiniteSet(S)
  PROVE  \E n \in S : \A m \in S : m <= n
<1> DEFINE Best(R) == \E n \in R : \A m \in R : m <= n
           Bad == {R \in SUBSET S : R # {} /\ ~Best(R)}
           Sizes == {Cardinality(R) : R \in Bad}
<1> SUFFICES ASSUME Bad # {}
             PROVE  FALSE
  OBVIOUS
<1>1. \A R \in SUBSET S : IsFiniteSet(R) /\ Cardinality(R) \in Nat
  BY FS_Subset, FS_CardinalityType
<1>2. Sizes \subseteq Nat /\ Sizes # {}
  BY <1>1
<1>3. PICK k \in Sizes : \A j \in Sizes : ~(<<j, k>> \in OpToRel(<, Nat))
  <2> HIDE DEF Sizes
  <2> QED
    BY <1>2, WFMin, NatLessThanWellFounded, Zenon
<1>4. \A j \in Sizes : ~(j < k)
  BY <1>2, <1>3 DEF OpToRel
<1>5. PICK R \in Bad : k = Cardinality(R)
  OBVIOUS
<1>6. PICK x \in R : TRUE
  OBVIOUS
<1>7. Cardinality(R \ {x}) = k - 1 /\ k \in Nat
  <2>1. IsFiniteSet(R) /\ Cardinality(R) \in Nat
    BY <1>1
  <2> QED
    BY <1>5, <1>6, <2>1, FS_RemoveElement
<1>8. R \ {x} \notin Bad
  <2> SUFFICES ASSUME R \ {x} \in Bad
               PROVE  FALSE
    OBVIOUS
  <2>1. Cardinality(R \ {x}) \in Sizes
    OBVIOUS
  <2> HIDE DEF Sizes, Bad
  <2> QED
    BY <1>4, <1>7, <2>1
<1>9. CASE R = {x}
  <2>1. \A m \in R : m <= x
    BY <1>9
  <2> QED
    BY <1>5, <1>6, <2>1
<1>10. CASE R # {x}
  <2>1. PICK n \in R \ {x} : \A m \in R \ {x} : m <= n
    BY <1>8, <1>10, <1>6
  <2>2. x \in Nat /\ n \in Nat /\ R \subseteq Nat
    BY <1>6, <2>1
  <2>3. CASE x <= n
    BY <2>1, <2>3, <1>5
  <2>4. CASE n < x
    <3>1. \A m \in R : m <= x
      BY <2>1, <2>2, <2>4
    <3> QED
      BY <3>1, <1>5, <1>6
  <2> QED
    BY <2>2, <2>3, <2>4
<1> QED
  BY <1>9, <1>10

\* other_best is what it is called.
LEMMA OtherBestIsBest ==
  ASSUME high \in [Buyers -> Nat], NEW b
  PROVE  /\ OtherBest(b) \in Nat
         /\ \A m \in Standing(b) : m <= OtherBest(b)
<1> DEFINE In == {d \in Buyers \ {b} : status[d] \notin {"passed", "lost"}}
           Offered == {high[c] : c \in In}
<1>1. IsFiniteSet(In)
  BY NegotiationAssumption, FS_Subset
<1>2. IsFiniteSet(Offered)
  <2> DEFINE f == [c \in In |-> high[c]]
  <2>1. f \in Surjection(In, Offered)
    BY DEF Surjection
  <2> QED
    BY <1>1, <2>1, FS_Surjection
<1>3. IsFiniteSet(Offered \cup {0})
  BY <1>2, FS_AddElement
<1>4. Standing(b) = Offered \cup {0}
  BY DEF Standing
<1>5. Standing(b) \subseteq Nat /\ Standing(b) # {}
  BY <1>4
<1>6. \E n \in Standing(b) : \A m \in Standing(b) : m <= n
  BY <1>3, <1>4, <1>5, BestOfFinite
<1>7. OtherBest(b) \in Standing(b) /\ \A m \in Standing(b) : m <= OtherBest(b)
  BY <1>6 DEF OtherBest
<1> QED
  BY <1>5, <1>7

\* An accepted haggle is at the least that beats the other buyers, or above it.
LEMMA HaggleBeats ==
  ASSUME TypeOK, NEW b \in Buyers, NEW o \in Nat, NEW fl \in Nat, NEW k \in Knob,
         OtherBest(b) \in Nat, Haggle(b, o, fl, k).decision = "accept_fcfs"
  PROVE  o >= EffectiveMin(b, fl) /\ Haggle(b, o, fl, k).price = o
<1> DEFINE min == EffectiveMin(b, fl)
           ceiling == IF last[b] > 0 THEN last[b] ELSE ListPrice
           wanted == Smaller(ListPrice - k.step * (rounds[b] + 1), ceiling)
<1>1. min \in Nat
  BY DEF EffectiveMin, Larger
<1>2. wanted \in Int
  BY NegotiationAssumption DEF TypeOK, Smaller, Knob
<1>3. Larger(min, wanted) >= min /\ Larger(min, wanted) \in Int
  BY <1>1, <1>2 DEF Larger
<1> HIDE DEF min, wanted
<1> QED
  BY <1>1, <1>3 DEF Haggle, Said, min, wanted

\* What an offer is answered: a price is a natural number, and one that is
\* accepted or leads the bids is the offer itself, never less than one.
LEMMA AnswerParts ==
  ASSUME TypeOK, NEW b \in Buyers, NEW o \in Nat \ {0}, NEW fl \in Nat, NEW k \in Knob
  PROVE  LET said == Decide(b, o, fl, k)
         IN  /\ said.price \in Nat
             /\ said.decision \in {"accept_fcfs", "bid_lead"} => said.price = o
<1> DEFINE said == Decide(b, o, fl, k)
           min == EffectiveMin(b, fl)
           ceiling == IF last[b] > 0 THEN last[b] ELSE ListPrice
           wanted == Smaller(ListPrice - k.step * (rounds[b] + 1), ceiling)
<1> USE NegotiationAssumption
<1>1. OtherBest(b) \in Nat
  BY OtherBestIsBest DEF TypeOK
<1>2. min \in Nat /\ ceiling \in Nat
  BY <1>1 DEF EffectiveMin, Larger, TypeOK
<1>3. wanted \in Int
  BY <1>2 DEF TypeOK, Smaller, Knob
<1>4. Larger(min, wanted) \in Nat /\ Larger(ceiling, min) \in Nat
  BY <1>2, <1>3 DEF Larger
<1>5. /\ Haggle(b, o, fl, k).price \in Nat
      /\ Haggle(b, o, fl, k).decision = "accept_fcfs" => Haggle(b, o, fl, k).price = o
      /\ Haggle(b, o, fl, k).decision # "bid_lead"
  <2> HIDE DEF min, ceiling, wanted
  <2> QED
    BY <1>2, <1>4 DEF Haggle, Said, min, ceiling, wanted
<1>6. TopBid \in Nat
  BY DEF TopBid, TypeOK, NoFront
<1> QED
  BY <1>5, <1>6 DEF Decide, Said

\* A decided offer keeps every column's type.
LEMMA DecideTypes ==
  ASSUME TypeOK, NEW b \in Buyers, NEW o \in Offers, NEW k \in Knobs, DecideOffer(b, o, k)
  PROVE  TypeOK'
<1> DEFINE fl == IF floor = 0 THEN ListPrice ELSE floor
           said == Decide(b, o, fl, k)
           d == said.decision
<1> USE NegotiationAssumption
<1>1. Apply(b, said) /\ Record(b, o, FALSE) /\ Moves(b, o) /\ floor' = fl
  BY DEF DecideOffer
<1>2. o \in Nat \ {0} /\ k \in Knob /\ fl \in 0 .. ListPrice
  BY DEF TypeOK
<1>3. said.price \in Nat /\ (d \in {"accept_fcfs", "bid_lead"} => said.price = o)
  BY <1>2, AnswerParts
<1>4. engaged' \subseteq Buyers
  BY DEF DecideOffer, TypeOK
<1> HIDE DEF d, said
<1>5. offer' \in [Buyers -> Nat] /\ held' \in [Buyers -> BOOLEAN] /\ high' \in [Buyers -> Nat]
  BY <1>1, <1>2 DEF Record, Larger, TypeOK
<1>6. rounds' \in [Buyers -> Nat] /\ last' \in [Buyers -> Nat] /\ lowballs' \in [Buyers -> Nat]
  BY <1>1, <1>3 DEF Apply, TypeOK
<1>7. status' \in [Buyers -> BuyerStatus]
  BY <1>1 DEF Apply, TypeOK, BuyerStatus
<1>8. /\ state' \in {"open", "bidding", "reserved_provisional", "sold"}
      /\ bidding' \in BOOLEAN
  BY <1>1 DEF Apply, TypeOK
<1>9. front' \in [buyer : Buyers, amount : Nat \ {0}, kind : {"fcfs", "bid"}] \cup {NoFront}
  BY <1>1, <1>2, <1>3 DEF Apply, Front, TypeOK, d
<1>10. moves' \in [Buyers -> 0 .. MaxMoves]
  BY <1>1 DEF Moves, TypeOK
<1> QED
  BY <1>1, <1>2, <1>4, <1>5, <1>6, <1>7, <1>8, <1>9, <1>10 DEF TypeOK

\* Every column keeps its type (store/negotiation.py), for any number of
\* buyers, any prices and any firmness settings.
THEOREM TypeCorrect == Spec => []TypeOK
<1> USE NegotiationAssumption
<1>1. Init => TypeOK
  <2> SUFFICES ASSUME Init
               PROVE  TypeOK
    OBVIOUS
  <2>1. 0 \in Nat /\ 0 \in 0 .. ListPrice /\ 0 \in 0 .. MaxMoves
    OBVIOUS
  <2>2. moves \in [Buyers -> 0 .. MaxMoves] /\ floor \in 0 .. ListPrice
    BY <2>1 DEF Init
  <2> QED
    BY <2>2 DEF Init, TypeOK, BuyerStatus
<1>2. TypeOK /\ [Next]_vars => TypeOK'
  <2> SUFFICES ASSUME TypeOK, [Next]_vars
               PROVE  TypeOK'
    OBVIOUS
  <2>1. ASSUME NEW b \in Buyers, NEW o \in Offers, HoldForFloor(b, o)
        PROVE  TypeOK'
    BY <2>1 DEF HoldForFloor, Moves, Record, Larger, TypeOK, itemVars
  <2>2. ASSUME NEW b \in Buyers, NEW o \in Offers, NEW k \in Knobs, DecideOffer(b, o, k)
        PROVE  TypeOK'
    BY <2>2, DecideTypes
  <2>3. ASSUME NEW f \in Floors, SetFloor(f)
        PROVE  TypeOK'
    BY <2>3 DEF SetFloor, TypeOK, itemVars, buyerVars
  <2>4. ASSUME NEW b \in Buyers, ConfirmBid(b)
        PROVE  TypeOK'
    BY <2>4 DEF ConfirmBid, TypeOK, BuyerStatus
  <2>5. ASSUME NEW b \in Buyers, ConfirmSold(b)
        PROVE  TypeOK'
    BY <2>5 DEF ConfirmSold, TypeOK, BuyerStatus
  <2>6. ASSUME Release
        PROVE  TypeOK'
    BY <2>6 DEF Release, TypeOK, BuyerStatus
  <2>7. CASE UNCHANGED vars
    BY <2>7 DEF vars, itemVars, buyerVars, TypeOK
  <2> QED
    BY <2>1, <2>2, <2>3, <2>4, <2>5, <2>6, <2>7 DEF Next
<1> QED
  BY <1>1, <1>2, PTL DEF Spec

\* Below list the item is never given away under the standing offer of another
\* buyer (tools/negotiate.py, "the one guarantee the negotiation engine makes"),
\* as far as the ledger counts them as still in it: the least amount that
\* Haggle takes or names beats the best of their offers.
THEOREM NeverUndercut == Spec => NoUndercut
<1> USE NegotiationAssumption
<1>1. ASSUME TypeOK, NEW b \in Buyers, NEW o \in Offers, NEW k \in Knobs, DecideOffer(b, o, k)
      PROVE  StaysOverStanding
  <2> DEFINE fl == IF floor = 0 THEN ListPrice ELSE floor
             said == Decide(b, o, fl, k)
  <2> SUFFICES ASSUME front' # front, front'.kind = "fcfs", front'.amount < ListPrice,
                      NEW c \in Buyers \ {front'.buyer}, status[c] \notin {"passed", "lost"}
               PROVE  high[c] < front'.amount
    BY DEF StaysOverStanding
  <2>1. front' = Front(b, said)
    BY <1>1 DEF DecideOffer, Apply
  <2>2. said.decision = "accept_fcfs" /\ front'.buyer = b /\ front'.amount = said.price
    BY <2>1 DEF Front
  <2>3. fl \in Nat /\ o \in Nat \ {0} /\ k \in Knob
    BY <1>1 DEF TypeOK
  <2>4. said = Haggle(b, o, fl, k)
    BY <2>2, <2>3 DEF Decide, Said
  <2>5. OtherBest(b) \in Nat /\ \A m \in Standing(b) : m <= OtherBest(b)
    BY <1>1, OtherBestIsBest DEF TypeOK
  <2>6. front'.amount >= EffectiveMin(b, fl) /\ front'.amount = o
    BY <1>1, <2>2, <2>3, <2>4, <2>5, HaggleBeats
  <2>7. high[c] \in Standing(b) /\ high[c] \in Nat
    BY <1>1, <2>2 DEF Standing, TypeOK
  <2>8. high[c] <= OtherBest(b)
    BY <2>5, <2>7
  <2>9. CASE OtherBest(b) > 0
    BY <2>3, <2>5, <2>6, <2>7, <2>8, <2>9 DEF EffectiveMin, Larger
  <2>10. CASE OtherBest(b) = 0
    BY <2>3, <2>6, <2>7, <2>8, <2>10
  <2> QED
    BY <2>5, <2>9, <2>10
<1>2. ASSUME TypeOK, [Next]_vars
      PROVE  StaysOverStanding
  <2>1. CASE front' = front
    BY <2>1 DEF StaysOverStanding
  <2>2. CASE Release
    BY <2>2 DEF Release, StaysOverStanding, NoFront
  <2>3. ASSUME NEW b \in Buyers, NEW o \in Offers, HoldForFloor(b, o)
        PROVE  front' = front
    BY <2>3 DEF HoldForFloor, itemVars
  <2> QED
    BY <1>1, <1>2, <2>1, <2>2, <2>3
       DEF Next, SetFloor, ConfirmBid, ConfirmSold, vars, itemVars
<1> QED
  BY <1>2, TypeCorrect, PTL DEF Spec, NoUndercut

-----------------------------------------------------------------------------
(* EventTail: v1 last, v2 kind, v3 rows, v4 old, v5 tail, v6 shown, v7 twice. *)

\* latest_seq is above every row.
LEMMA HighestIsAbove ==
  ASSUME NEW S, S \subseteq Nat, IsFiniteSet(S)
  PROVE  /\ WebTail!Highest(S) \in Nat
         /\ \A n \in S : n <= WebTail!Highest(S)
  BY BestOfFinite DEF WebTail!Highest

LEMMA TailInit ==
  ASSUME WebTail!Init
  PROVE  WebTail!IInv
  BY RecordsAssumption
     DEF WebTail!EventTailAssumption, WebTail!Init, WebTail!IInv, WebTail!Closed,
         WebTail!ShownIsBehind, WebTail!NeverTwice, WebTail!OutcomesAreKept, WebTail!Seqs

\* publish, the clock, the prune and the first read of a poll.
LEMMA TailTable ==
  ASSUME WebTail!IInv,
         \/ \E k \in {"routine", "info", "kept"} : WebTail!Record(k)
         \/ \E n \in WebTail!Seqs : WebTail!Grow(n)
         \/ WebTail!Prune
  PROVE  WebTail!IInv'
<1> USE RecordsAssumption DEF WebTail!EventTailAssumption, WebTail!Seqs
<1>1. ASSUME NEW k \in {"routine", "info", "kept"}, WebTail!Record(k)
      PROVE  WebTail!IInv'
  <2>1. v1' = v1 + 1 /\ v1' \in 1..MaxEvents /\ v3' = v3 \cup {v1'}
    BY <1>1 DEF WebTail!Record, WebTail!IInv
  <2>2. v1' \notin v6 /\ UNCHANGED <<v5, v6, v7>>
    BY <1>1, <2>1 DEF WebTail!Record, WebTail!IInv
  <2>3. WebTail!ShownIsBehind'
    BY <2>1, <2>2 DEF WebTail!IInv, WebTail!ShownIsBehind
  <2>4. v2' \in [1..MaxEvents -> {"none", "routine", "info", "kept"}]
    BY <1>1 DEF WebTail!Record, WebTail!IInv
  <2>5. WebTail!OutcomesAreKept'
    BY <1>1, <2>1 DEF WebTail!Record, WebTail!IInv, WebTail!OutcomesAreKept
  <2>6. v3' \subseteq 1..v1' /\ v6' \subseteq 1..v1'
    BY <2>1, <2>2 DEF WebTail!IInv
  <2> QED
    BY <2>1, <2>2, <2>3, <2>4, <2>5, <2>6 DEF WebTail!IInv, WebTail!NeverTwice
<1>2. ASSUME NEW n \in WebTail!Seqs, WebTail!Grow(n)
      PROVE  WebTail!IInv'
  BY <1>2 DEF WebTail!Grow, WebTail!IInv, WebTail!ShownIsBehind, WebTail!NeverTwice,
              WebTail!OutcomesAreKept
<1>3. ASSUME WebTail!Prune
      PROVE  WebTail!IInv'
  BY <1>3 DEF WebTail!Prune, WebTail!Expired, WebTail!IInv, WebTail!ShownIsBehind,
              WebTail!NeverTwice, WebTail!OutcomesAreKept
<1> QED
  BY <1>1, <1>2, <1>3

\* The first read of a poll: every row of the table is behind the ceiling.
LEMMA TailCeiling ==
  ASSUME WebTail!IInv, WebTail!Ceiling
  PROVE  WebTail!IInv'
<1> USE RecordsAssumption DEF WebTail!EventTailAssumption, WebTail!Seqs
<1>1. UNCHANGED <<v1, v2, v3, v4, v6, v7>>
  BY DEF WebTail!Ceiling
<1>2. v3 \subseteq Nat /\ IsFiniteSet(v3)
  <2>1. v3 \subseteq 1..v1 /\ v1 \in Nat
    BY DEF WebTail!IInv
  <2>2. 1 \in Int /\ v1 \in Int
    BY <2>1
  <2>3. IsFiniteSet(1..v1)
    BY <2>2, FS_Interval, Zenon
  <2>4. IsFiniteSet(v3)
    BY <2>1, <2>3, FS_Subset
  <2> QED
    BY <2>1, <2>4
<1>3. WebTail!Highest(v3) \in Nat /\ \A n \in v3 : n <= WebTail!Highest(v3)
  BY <1>2, HighestIsAbove
<1>4. /\ v5' \in [cursor : Nat, ceiling : Nat, at : {"closed", "seed", "rows", "open"}]
      /\ v5'.cursor = v5.cursor /\ v5'.ceiling = WebTail!Highest(v3)
  BY <1>3 DEF WebTail!Ceiling, WebTail!IInv
<1> QED
  BY <1>1, <1>3, <1>4
     DEF WebTail!IInv, WebTail!ShownIsBehind, WebTail!NeverTwice, WebTail!OutcomesAreKept

\* The answer: what it shows was ahead of the cursor, so it is new, and it is
\* not ahead of the ceiling, so the next cursor is past it.
LEMMA TailAnswer ==
  ASSUME WebTail!IInv, WebTail!Answer
  PROVE  WebTail!IInv'
<1> DEFINE page == IF v5.at = "seed" THEN WebTail!Newest(WebTail!Due)
                                     ELSE WebTail!First(WebTail!Due)
<1> USE RecordsAssumption DEF WebTail!EventTailAssumption, WebTail!Seqs
<1>1. UNCHANGED <<v1, v2, v3, v4>>
  BY DEF WebTail!Answer
<1>2. page \subseteq WebTail!Due
  BY DEF WebTail!Newest, WebTail!First
<1>3. /\ v5' = [cursor |-> WebTail!NextCursor, ceiling |-> 0, at |-> "open"]
      /\ v6' = v6 \cup page /\ v7' = v7 \cup (v6 \cap page)
      /\ v5.at \in {"seed", "rows"}
  BY DEF WebTail!Answer
<1> HIDE DEF page
<1>4. \A n \in page : n \in v3 /\ n \in 1..v1 /\ n > v5.cursor /\ n <= v5.ceiling
  BY <1>2 DEF WebTail!Due, WebTail!IInv
<1>5. v7' = {}
  <2>1. \A n \in v6 \cap page : n <= v5.cursor
    BY <1>4 DEF WebTail!IInv, WebTail!ShownIsBehind
  <2>2. v5.cursor \in Nat /\ v1 \in Nat
    BY DEF WebTail!IInv
  <2> QED
    BY <1>3, <1>4, <2>1, <2>2 DEF WebTail!IInv, WebTail!NeverTwice
<1>6. v5'.cursor \in Nat /\ v5'.at = "open" /\ v5'.ceiling = 0
  BY <1>3 DEF WebTail!NextCursor, WebTail!IInv
<1>7. ASSUME NEW n \in v3 \cap v6'
      PROVE  n <= v5'.cursor
  <2>1. n \in 1..v1 /\ v1 \in Nat /\ v5.ceiling \in Nat
    BY <1>7 DEF WebTail!IInv
  <2>2. n <= v5.ceiling
    BY <1>3, <1>4, <1>7 DEF WebTail!IInv, WebTail!ShownIsBehind
  <2>3. v5'.cursor = v5.ceiling
    BY <1>3, <2>1, <2>2 DEF WebTail!NextCursor
  <2> QED
    BY <2>2, <2>3
<1>8. WebTail!ShownIsBehind'
  BY <1>1, <1>6, <1>7 DEF WebTail!ShownIsBehind
<1>9. v6' \subseteq 1..v1
  BY <1>3, <1>4 DEF WebTail!IInv
<1> QED
  BY <1>1, <1>3, <1>5, <1>6, <1>8, <1>9
     DEF WebTail!IInv, WebTail!NeverTwice, WebTail!OutcomesAreKept

LEMMA TailCardinality == \A S : WebTail!Cardinality(S) = Cardinality(S)
  BY Zenon DEF WebTail!Cardinality, Cardinality

\* The first page of what is due is all of it, when that is no more than a page.
LEMMA FirstIsAll ==
  ASSUME NEW S, IsFiniteSet(S), Cardinality(S) <= PageSize
  PROVE  WebTail!First(S) = S
<1>1. ASSUME NEW n \in S
      PROVE  Cardinality({m \in S : m <= n}) <= PageSize
  <2> DEFINE below == {m \in S : m <= n}
  <2>1. below \subseteq S
    OBVIOUS
  <2> HIDE DEF below
  <2>2. IsFiniteSet(below) /\ Cardinality(below) <= Cardinality(S)
    BY <2>1, FS_Subset
  <2>3. Cardinality(below) \in Nat /\ Cardinality(S) \in Nat /\ PageSize \in Nat
    BY <2>2, FS_CardinalityType, RecordsAssumption DEF WebTail!EventTailAssumption
  <2>4. Cardinality(below) <= PageSize
    BY <2>2, <2>3
  <2> QED
    BY <2>4 DEF below
<1> QED
  BY <1>1, TailCardinality DEF WebTail!First

\* What comes between the two reads of a poll stays ahead of the cursor.
LEMMA TailSkipsNone ==
  ASSUME WebTail!IInv, WebTail!Next \/ UNCHANGED <<v1, v2, v3, v4, v5, v6, v7>>
  PROVE  WebTail!MidRequestIsKept
<1> SUFFICES ASSUME v5.at = "rows", v5'.at = "open", WebTail!Cardinality(WebTail!Due) <= PageSize,
                    NEW n \in WebTail!Unread
             PROVE  n \in v6' \/ n > v5'.cursor
  BY DEF WebTail!MidRequestIsKept
<1>1. WebTail!Answer
  <2>1. ASSUME WebTail!Ceiling
        PROVE  FALSE
    BY <2>1 DEF WebTail!Ceiling
  <2> QED
    BY <2>1 DEF WebTail!Next, WebTail!Record, WebTail!Grow, WebTail!Prune
<1>2. v6' = v6 \cup WebTail!First(WebTail!Due) /\ v5'.cursor = WebTail!NextCursor
  BY <1>1 DEF WebTail!Answer
<1>3. IsFiniteSet(WebTail!Due)
  <2>0. v3 \subseteq 1..v1 /\ v1 \in Nat
    BY RecordsAssumption DEF WebTail!IInv, WebTail!EventTailAssumption
  <2>1. WebTail!Due \subseteq 1..v1 /\ v1 \in Nat
    BY <2>0 DEF WebTail!Due
  <2>2. IsFiniteSet(1..v1)
    BY <2>1, FS_Interval
  <2> QED
    BY <2>1, <2>2, FS_Subset
<1>4. WebTail!First(WebTail!Due) = WebTail!Due
  BY <1>3, TailCardinality, FirstIsAll
<1>5. n \in v3 /\ v2[n] # "routine" /\ n > v5.cursor /\ n \in Nat /\ v5.ceiling \in Nat
  BY DEF WebTail!Unread, WebTail!IInv
<1>6. CASE n <= v5.ceiling
  BY <1>2, <1>4, <1>5, <1>6 DEF WebTail!Due
<1>7. CASE ~(n <= v5.ceiling)
  BY <1>2, <1>5, <1>7 DEF WebTail!NextCursor
<1> QED
  BY <1>6, <1>7

LEMMA TailStep ==
  ASSUME WebTail!IInv, WebTail!Next \/ UNCHANGED <<v1, v2, v3, v4, v5, v6, v7>>
  PROVE  WebTail!IInv'
<1>1. CASE UNCHANGED <<v1, v2, v3, v4, v5, v6, v7>>
  BY <1>1 DEF WebTail!IInv, WebTail!ShownIsBehind, WebTail!NeverTwice, WebTail!OutcomesAreKept,
              WebTail!Seqs
<1> QED
  BY <1>1, TailTable, TailCeiling, TailAnswer DEF WebTail!Next

-----------------------------------------------------------------------------
(* Scheduler: v1 on, v2 gen, v3 st, v4 runs.                                *)

LEMMA LanesInit ==
  ASSUME Lanes!Init
  PROVE  Lanes!IInv
  BY DEF Lanes!Init, Lanes!IInv, Lanes!Fresh, Lanes!MarkedWhileRunning, Lanes!StrandedTwoWays, Lanes!HasRun

\* A name is put on the table, taken off it, or comes due.
LEMMA LanesTable ==
  ASSUME Lanes!IInv, NEW n \in LaneNames, Lanes!Register(n) \/ Lanes!Deregister(n) \/ Lanes!Time(n)
  PROVE  Lanes!IInv'
<1>1. CASE Lanes!Register(n)
  <2>1. v1' = v1 \cup {n} /\ v4' = v4
    BY <1>1 DEF Lanes!Register
  <2>2. /\ v2' \in [LaneNames -> Nat] /\ v2'[n] = v2[n] + 1
        /\ \A m \in LaneNames \ {n} : v2'[m] = v2[m]
    BY <1>1 DEF Lanes!Register, Lanes!IInv
  <2>3. /\ v3' \in [LaneNames -> [due : BOOLEAN, backed : BOOLEAN, running : BOOLEAN, fails : Nat, unsaid : BOOLEAN]]
        /\ v3'[n].running = FALSE /\ \A m \in LaneNames \ {n} : v3'[m] = v3[m]
    BY <1>1 DEF Lanes!Register, Lanes!IInv, Lanes!Fresh
  <2>4. Lanes!MarkedWhileRunning'
    BY <2>1, <2>2, <2>3 DEF Lanes!IInv, Lanes!MarkedWhileRunning
  <2>5. Lanes!StrandedTwoWays'
    BY <2>1, <2>3 DEF Lanes!IInv, Lanes!StrandedTwoWays, Lanes!HasRun
  <2> QED
    BY <2>1, <2>2, <2>3, <2>4, <2>5 DEF Lanes!IInv
<1>2. CASE Lanes!Deregister(n)
  <2>1. v1' = v1 \ {n} /\ v4' = v4 /\ v2' = v2
    BY <1>2 DEF Lanes!Deregister
  <2>2. /\ v3' \in [LaneNames -> [due : BOOLEAN, backed : BOOLEAN, running : BOOLEAN, fails : Nat, unsaid : BOOLEAN]]
        /\ \A m \in LaneNames \ {n} : v3'[m] = v3[m]
    BY <1>2 DEF Lanes!Deregister, Lanes!IInv, Lanes!Fresh
  <2> QED
    BY <2>1, <2>2 DEF Lanes!IInv, Lanes!MarkedWhileRunning, Lanes!StrandedTwoWays, Lanes!HasRun
<1>3. CASE Lanes!Time(n)
  <2>1. v1' = v1 /\ v4' = v4 /\ v2' = v2
    BY <1>3 DEF Lanes!Time
  <2>2. /\ v3' \in [LaneNames -> [due : BOOLEAN, backed : BOOLEAN, running : BOOLEAN, fails : Nat, unsaid : BOOLEAN]]
        /\ \A m \in LaneNames : /\ v3'[m].running = v3[m].running
                                  /\ v3'[m].fails = v3[m].fails /\ v3'[m].unsaid = v3[m].unsaid
    <3>1. CASE v3' = [v3 EXCEPT ![n].due = TRUE]
      BY <3>1 DEF Lanes!IInv
    <3>2. CASE v3' = [v3 EXCEPT ![n].backed = FALSE]
      BY <3>2 DEF Lanes!IInv
    <3> QED
      BY <1>3, <3>1, <3>2 DEF Lanes!Time
  <2> QED
    BY <2>1, <2>2 DEF Lanes!IInv, Lanes!MarkedWhileRunning, Lanes!StrandedTwoWays, Lanes!HasRun
<1> QED
  BY <1>1, <1>2, <1>3

\* _claim_due: what it claims has no run, and is marked with the run it gets.
LEMMA LanesTick ==
  ASSUME Lanes!IInv, Lanes!Tick
  PROVE  Lanes!IInv'
<1> DEFINE New(n) == [name |-> n, id |-> Lanes!Unused(n), at |-> "queued"]
<1>1. v1' = v1 /\ v2' = v2 /\ v4' = v4 \cup {New(n) : n \in Lanes!Due}
  BY DEF Lanes!Tick
<1>2. /\ v3' \in [LaneNames -> [due : BOOLEAN, backed : BOOLEAN, running : BOOLEAN, fails : Nat, unsaid : BOOLEAN]]
      /\ \A n \in LaneNames : v3'[n].running = (n \in Lanes!Due \/ v3[n].running)
      /\ \A n \in LaneNames \ Lanes!Due : v3'[n] = v3[n]
  BY DEF Lanes!Tick, Lanes!IInv
<1>3. Lanes!Due \subseteq v1 /\ \A n \in Lanes!Due : ~v3[n].running
  BY DEF Lanes!Due
<1>4. v1 \subseteq LaneNames
  BY DEF Lanes!IInv
<1>5. \A r \in v4' : r \in v4 \/ (r.name \in Lanes!Due /\ r = New(r.name))
  BY <1>1
<1>6. \A n \in Lanes!Due : New(n) \in v4' /\ New(n).name = n
  BY <1>1
<1>7. \A r \in v4' : r \in [name : LaneNames, id : {r.id}, at : {"queued", "running"}]
  BY <1>3, <1>4, <1>5 DEF Lanes!IInv
<1> HIDE DEF New
<1>8. ASSUME NEW n \in LaneNames, v2[n] = 0
      PROVE  n \notin v1' /\ \A r \in v4' : r.name # n
  BY <1>1, <1>3, <1>5, <1>8 DEF Lanes!IInv, Lanes!MarkedWhileRunning
<1>9. ASSUME NEW n \in LaneNames, v2[n] = 1
      PROVE  /\ \A r, q \in v4' : r.name = n /\ q.name = n => r = q
             /\ n \in v1' /\ ~v3'[n].running => \A r \in v4' : r.name # n
  <2>1. CASE n \in Lanes!Due
    <3>1. \A r \in v4 : r.name # n
      BY <1>3, <1>9, <2>1 DEF Lanes!IInv, Lanes!MarkedWhileRunning
    <3> QED
      BY <1>2, <1>5, <2>1, <3>1
  <2>2. CASE n \notin Lanes!Due
    <3>1. \A r \in v4' : r.name = n => r \in v4
      BY <1>5, <2>2
    <3> QED
      BY <1>1, <1>2, <1>9, <2>2, <3>1 DEF Lanes!IInv, Lanes!MarkedWhileRunning
  <2> QED
    BY <2>1, <2>2
<1>10. Lanes!MarkedWhileRunning'
  BY <1>1, <1>8, <1>9 DEF Lanes!MarkedWhileRunning
<1>11. Lanes!StrandedTwoWays'
  BY <1>1, <1>2, <1>4, <1>6 DEF Lanes!IInv, Lanes!StrandedTwoWays, Lanes!HasRun
<1> QED
  BY <1>1, <1>2, <1>7, <1>10, <1>11 DEF Lanes!IInv

\* A worker takes a run up.
LEMMA LanesBegin ==
  ASSUME Lanes!IInv, NEW r \in v4, Lanes!Begin(r)
  PROVE  Lanes!IInv'
<1> DEFINE begun == [r EXCEPT !.at = "running"]
<1>1. v1' = v1 /\ v2' = v2 /\ v3' = v3 /\ v4' = (v4 \ {r}) \cup {begun}
  BY DEF Lanes!Begin
<1>2. r \in [name : LaneNames, id : {r.id}, at : {"queued", "running"}]
  BY DEF Lanes!IInv
<1>3. begun.name = r.name /\ begun \in [name : LaneNames, id : {begun.id}, at : {"queued", "running"}]
  BY <1>2
<1> HIDE DEF begun
<1>4. \A q \in v4' : q \in [name : LaneNames, id : {q.id}, at : {"queued", "running"}]
  BY <1>1, <1>3 DEF Lanes!IInv
<1>5. Lanes!StrandedTwoWays'
  BY <1>1, <1>3 DEF Lanes!IInv, Lanes!StrandedTwoWays, Lanes!HasRun
<1>6. Lanes!MarkedWhileRunning'
  BY <1>1, <1>3 DEF Lanes!IInv, Lanes!MarkedWhileRunning
<1> QED
  BY <1>1, <1>4, <1>5, <1>6 DEF Lanes!IInv

\* A run ends before its start is said: the mark of the name stays.
LEMMA LanesUnsaid ==
  ASSUME Lanes!IInv, NEW r \in v4, Lanes!StartUnsaid(r)
  PROVE  Lanes!IInv'
<1> DEFINE n == r.name
<1>1. n \in LaneNames /\ v1' = v1 /\ v2' = v2 /\ v4' = v4 \ {r}
  BY DEF Lanes!IInv, Lanes!StartUnsaid
<1>2. /\ v3' \in [LaneNames -> [due : BOOLEAN, backed : BOOLEAN, running : BOOLEAN, fails : Nat,
                               unsaid : BOOLEAN]]
      /\ \A m \in LaneNames : v3'[m].running = v3[m].running
      /\ \A m \in LaneNames \ {n} : v3'[m] = v3[m]
      /\ n \in v1 => v3'[n].unsaid
  BY <1>1 DEF Lanes!StartUnsaid, Lanes!IInv
<1> HIDE DEF n
<1>3. Lanes!MarkedWhileRunning'
  BY <1>1, <1>2 DEF Lanes!IInv, Lanes!MarkedWhileRunning, n
<1>4. Lanes!StrandedTwoWays'
  BY <1>1, <1>2 DEF Lanes!IInv, Lanes!StrandedTwoWays, Lanes!HasRun, n
<1> QED
  BY <1>1, <1>2, <1>3, <1>4 DEF Lanes!IInv

\* A run ends, well or not.  The name it ran for may be off the table, or stand
\* for another registration by now; the mark is taken off, but for the failure
\* whose delay is too long for a float.
LEMMA LanesEnd ==
  ASSUME Lanes!IInv, NEW r \in v4, Lanes!Succeed(r) \/ Lanes!Fail(r)
  PROVE  Lanes!IInv'
<1> DEFINE n == r.name
<1>1. n \in LaneNames /\ v1' = v1 /\ v2' = v2 /\ v4' = v4 \ {r}
  BY DEF Lanes!IInv, Lanes!Succeed, Lanes!Fail
<1>2. CASE n \notin v1
  <2>1. v3' = v3
    BY <1>2 DEF Lanes!Succeed, Lanes!Fail
  <2>2. \A m \in v1, q \in v4 : q.name = m => q # r
    BY <1>2
  <2>3. Lanes!MarkedWhileRunning'
    BY <1>1, <2>1 DEF Lanes!IInv, Lanes!MarkedWhileRunning
  <2>4. Lanes!StrandedTwoWays'
    BY <1>1, <2>1, <2>2 DEF Lanes!IInv, Lanes!StrandedTwoWays, Lanes!HasRun
  <2> QED
    BY <1>1, <2>1, <2>3, <2>4 DEF Lanes!IInv
<1>3. CASE n \in v1
  <2>1. /\ v3' \in [LaneNames -> [due : BOOLEAN, backed : BOOLEAN, running : BOOLEAN, fails : Nat,
                                 unsaid : BOOLEAN]]
        /\ v3'[n].running = FALSE \/ (v3'[n].running = v3[n].running /\ v3'[n].fails >= Overflow)
        /\ \A m \in LaneNames \ {n} : v3'[m] = v3[m]
    <3>1. CASE Lanes!Succeed(r)
      BY <1>1, <1>3, <3>1 DEF Lanes!Succeed, Lanes!IInv
    <3>2. CASE Lanes!Fail(r)
      <4>1. v3[n].fails \in Nat /\ v3[n].fails + 1 \in Nat
        BY <1>1 DEF Lanes!IInv
      <4> DEFINE fails == v3[n].fails + 1
      <4>2. \/ /\ fails >= Overflow /\ v3' = [v3 EXCEPT ![n].fails = fails]
            \/ v3' = [v3 EXCEPT ![n].fails = fails, ![n].backed = TRUE, ![n].running = FALSE]
        BY <1>3, <3>2 DEF Lanes!Fail
      <4>3. fails \in Nat
        BY <4>1
      <4> HIDE DEF fails
      <4> QED
        BY <1>1, <4>2, <4>3 DEF Lanes!IInv
    <3> QED
      BY <3>1, <3>2
  <2> HIDE DEF n
  <2>2. Lanes!MarkedWhileRunning'
    BY <1>1, <2>1 DEF Lanes!IInv, Lanes!MarkedWhileRunning, n
  <2>3. Lanes!StrandedTwoWays'
    BY <1>1, <2>1 DEF Lanes!IInv, Lanes!StrandedTwoWays, Lanes!HasRun, n
  <2> QED
    BY <1>1, <2>1, <2>2, <2>3 DEF Lanes!IInv
<1> QED
  BY <1>2, <1>3

LEMMA LanesStep ==
  ASSUME Lanes!IInv, Lanes!Next \/ UNCHANGED <<v1, v2, v3, v4>>
  PROVE  Lanes!IInv'
<1>1. CASE UNCHANGED <<v1, v2, v3, v4>>
  BY <1>1 DEF Lanes!IInv, Lanes!MarkedWhileRunning, Lanes!StrandedTwoWays, Lanes!HasRun
<1> QED
  BY <1>1, LanesTable, LanesTick, LanesBegin, LanesUnsaid, LanesEnd DEF Lanes!Next

\* Each part has its copy of FiniteSets.
LEMMA LanesCardinality == \A S : Lanes!Cardinality(S) = Cardinality(S)
  BY Zenon DEF Lanes!Cardinality, Cardinality

\* Of a name registered once all runs are the same one.
LEMMA LanesRunOnce ==
  ASSUME Lanes!IInv
  PROVE  Lanes!OneRunEach /\ Lanes!StrandedTwoWays
<1>1. Lanes!StrandedTwoWays
  BY DEF Lanes!IInv
<1>2. ASSUME NEW n \in LaneNames, v2[n] = 1
      PROVE  Cardinality({r \in v4 : r.name = n}) <= 1
  <2> DEFINE own == {r \in v4 : r.name = n}
  <2>1. \A r, q \in own : r = q
    BY <1>2 DEF Lanes!IInv, Lanes!MarkedWhileRunning
  <2>2. CASE own = {}
    BY <2>2, FS_EmptySet
  <2>3. ASSUME NEW r \in own
        PROVE  Cardinality(own) <= 1
    <3>1. own = {r}
      BY <2>1
    <3> HIDE DEF own
    <3> QED
      BY <3>1, FS_Singleton
  <2> QED
    BY <2>2, <2>3
<1>3. Lanes!OneRunEach
  BY <1>2, LanesCardinality, Zenon DEF Lanes!OneRunEach
<1> QED
  BY <1>1, <1>3

-----------------------------------------------------------------------------
(* Proactive: v5 queue, v6 given, v8 nudging; the guards read the others.   *)

LEMMA RemindingInit ==
  ASSUME Reminding!Init
  PROVE  Reminding!IInv
<1>1. v6 = [r \in Reminding!Refs |-> 0] /\ v8 = FALSE
  BY DEF Reminding!Init
<1>2. v6 \in [Reminding!Refs -> Nat] /\ Reminding!OncePerRef
  BY <1>1 DEF Reminding!OncePerRef
<1> QED
  BY <1>1, <1>2, Zenon DEF Reminding!IInv

\* A notice is queued where its ref never was, and the nudge's own guard, which
\* was passed earlier, still stands: no other step gives that ref.
LEMMA RemindingQueues ==
  ASSUME Reminding!IInv, NEW ref \in Reminding!Refs, v6[ref] = 0,
         v6' = [v6 EXCEPT ![ref] = @ + 1],
         ref = Reminding!Nudge => v8' = FALSE, v8' \in BOOLEAN, v8' => v8
  PROVE  Reminding!IInv'
  BY DEF Reminding!IInv, Reminding!OncePerRef, Reminding!Refs

LEMMA RemindingStep ==
  ASSUME Reminding!IInv, Reminding!Next \/ UNCHANGED <<v1, v2, v3, v4, v5, v6, v7, v8>>
  PROVE  Reminding!IInv'
<1>1. CASE UNCHANGED <<v6, v8>>
  BY <1>1 DEF Reminding!IInv, Reminding!OncePerRef
<1>2. CASE Reminding!CheckNudge
  BY <1>2 DEF Reminding!CheckNudge, Reminding!HasNotice, Reminding!IInv, Reminding!OncePerRef,
              Reminding!Refs
<1>3. CASE Reminding!GiveNudge
  <2>1. /\ Reminding!Nudge \in Reminding!Refs /\ v6[Reminding!Nudge] = 0
        /\ v6' = [v6 EXCEPT ![Reminding!Nudge] = @ + 1] /\ v8' = FALSE
    BY <1>3 DEF Reminding!GiveNudge, Reminding!QueueNotice, Reminding!IInv, Reminding!Refs
  <2> QED
    BY <2>1, RemindingQueues
<1>4. ASSUME NEW w \in Reminding!Waits, Reminding!TellWait(w), ~Reminding!HasNotice(w)
      PROVE  Reminding!IInv'
  <2>1. /\ w \in Reminding!Refs /\ v6[w] = 0 /\ v8' = v8 /\ v8 \in BOOLEAN
        /\ v6' = [v6 EXCEPT ![w] = @ + 1]
    BY <1>4 DEF Reminding!TellWait, Reminding!QueueNotice, Reminding!HasNotice, Reminding!Refs,
                Reminding!IInv
  <2>2. w # Reminding!Nudge
    BY DEF Reminding!Waits, Reminding!Nudge
  <2> QED
    BY <2>1, <2>2, RemindingQueues
<1>5. CASE Reminding!Crash
  BY <1>5 DEF Reminding!Crash, Reminding!IInv, Reminding!OncePerRef
<1> QED
  BY <1>1, <1>2, <1>3, <1>4, <1>5
     DEF Reminding!Next, Reminding!ReadWaits, Reminding!TellWait, Reminding!Drain,
         Reminding!TimePasses, Reminding!BuyerWrites, Reminding!Answered, Reminding!Holds,
         Reminding!SellerChanges

-----------------------------------------------------------------------------
(* ControlAuth: v1 file, v2 attended, v3 made, v4 rotation, v5 ticket,       *)
(* v6 asked, v7 page, v8 handed, v9 replaced.                                *)

LEMMA ControlInit ==
  ASSUME Control!Init
  PROVE  Control!IInv
  BY DEF Control!Init, Control!IInv, Control!Idle, Control!ComingIsNew, Control!Pending,
         Control!TicketsInHand, Control!TicketOnce, Control!NoTicket

\* The first write of a rotation: the token it makes is like no other.
LEMMA ControlWrite ==
  ASSUME Control!IInv, NEW r \in Requests, Control!Write(r)
  PROVE  Control!IInv'
<1>1. v3 \in Nat /\ v3' = v3 + 1 /\ v1' = v3 + 1 /\ v2 \in 0..v3 /\ v9 \subseteq 0..v3
  BY DEF Control!Write, Control!IInv
<1>2. UNCHANGED <<v2, v5, v6, v7, v8, v9>>
  BY DEF Control!Write
<1>3. v4' = [v4 EXCEPT ![r] = [at |-> "swap", new |-> v3 + 1]]
  BY DEF Control!Write
<1>4. /\ v4' \in [Requests -> [at : {"idle", "write", "swap"}, new : 0..v3']]
      /\ v4'[r].at = "swap" /\ v4'[r].new = v3 + 1
      /\ \A q \in Requests \ {r} : v4'[q] = v4[q] /\ v4[q].new \in 0..v3
  BY <1>1, <1>3 DEF Control!IInv
<1>5. Control!ComingIsNew'
  <2>1. v3 + 1 \notin v9 \cup {v2}
    BY <1>1
  <2>2. \A q \in Requests \ {r} : v4[q].new # v3 + 1
    BY <1>1, <1>4
  <2> QED
    BY <1>1, <1>2, <1>4, <2>1, <2>2 DEF Control!IInv, Control!ComingIsNew, Control!Pending
<1> QED
  BY <1>1, <1>2, <1>4, <1>5 DEF Control!IInv, Control!TicketsInHand, Control!TicketOnce

\* A token takes its place in memory, off a rotation or off the file.
LEMMA ControlReplaces ==
  ASSUME Control!IInv, NEW new \in 0..v3, new \notin v9, new # v2, Control!Replaces(new)
  PROVE  /\ v9' \subseteq v9 \cup {v2} /\ v9' \subseteq 0..v3
         /\ new \notin v9' /\ v1 \notin v9'
  BY DEF Control!IInv, Control!Replaces, Control!ComingIsNew

LEMMA ControlSwap ==
  ASSUME Control!IInv, NEW r \in Requests, Control!Swap(r)
  PROVE  Control!IInv'
<1> DEFINE new == v4[r].new
<1>1. new \in 0..v3 /\ new \notin v9 /\ new # v2 /\ v4[r].at = "swap"
  BY DEF Control!Swap, Control!IInv, Control!ComingIsNew, Control!Pending
<1>2. Control!Replaces(new) /\ v2' = new /\ UNCHANGED <<v1, v3, v5, v6, v7, v8>>
  BY DEF Control!Swap
<1>3. /\ v9' \subseteq v9 \cup {v2} /\ v9' \subseteq 0..v3
      /\ new \notin v9' /\ v1 \notin v9'
  BY <1>1, <1>2, ControlReplaces
<1>4. /\ v4' \in [Requests -> [at : {"idle", "write", "swap"}, new : 0..v3']]
      /\ v4'[r].at = "idle" /\ \A q \in Requests \ {r} : v4'[q] = v4[q]
  BY <1>2 DEF Control!Swap, Control!IInv, Control!Idle
<1>5. \A q \in Requests : v4'[q].at = "swap" => /\ q # r /\ v4'[q] = v4[q]
                                                /\ v4[q].new \notin v9 \cup {v2, new}
  BY <1>1, <1>4 DEF Control!IInv, Control!ComingIsNew, Control!Pending
<1>6. Control!ComingIsNew'
  BY <1>2, <1>3, <1>5 DEF Control!IInv, Control!ComingIsNew, Control!Pending
<1> HIDE DEF new
<1> QED
  BY <1>1, <1>2, <1>3, <1>4, <1>6 DEF Control!IInv, Control!TicketsInHand, Control!TicketOnce

LEMMA ControlRestart ==
  ASSUME Control!IInv, Control!Restart
  PROVE  Control!IInv'
<1>1. v2' = v1 /\ v1 = v3 /\ v3 \in Nat /\ UNCHANGED <<v1, v3, v7, v8>>
  BY DEF Control!Restart, Control!IInv
<1>2. v9' \subseteq 0..v3 /\ v1 \notin v9'
  BY <1>1 DEF Control!Restart, Control!Replaces, Control!IInv, Control!ComingIsNew
<1>3. /\ v4' \in [Requests -> [at : {"idle", "write", "swap"}, new : 0..v3']]
      /\ \A r \in Requests : v4'[r].at = "idle"
  BY <1>1 DEF Control!Restart, Control!Idle
<1>4. Control!ComingIsNew'
  BY <1>1, <1>2, <1>3 DEF Control!ComingIsNew, Control!Pending
<1>5. /\ v5' \in [Tickets -> {"unused", "live", "gone"}]
      /\ v6' \in [Pages -> Tickets \cup {Control!NoTicket}]
      /\ Control!TicketsInHand'
  BY <1>1 DEF Control!Restart, Control!IInv, Control!TicketsInHand
<1> QED
  BY <1>1, <1>2, <1>3, <1>4, <1>5 DEF Control!IInv, Control!TicketOnce

\* What passes no token on: a rotation begun, and the tickets.
LEMMA ControlTickets ==
  ASSUME Control!IInv,
         \/ \E r \in Requests : Control!Rotate(r)
         \/ \E k \in Tickets : Control!MintTicket(k) \/ Control!Expire(k)
         \/ \E p \in Pages : Control!Redeem(p) \/ \E k \in Tickets : Control!Exchange(p, k)
  PROVE  Control!IInv'
<1>1. ASSUME NEW r \in Requests, Control!Rotate(r)
      PROVE  Control!IInv'
  <2>1. UNCHANGED <<v1, v2, v3, v5, v6, v7, v8, v9>>
    BY <1>1 DEF Control!Rotate
  <2>2. /\ v4' \in [Requests -> [at : {"idle", "write", "swap"}, new : 0..v3']]
        /\ v4'[r].at = "write" /\ \A q \in Requests \ {r} : v4'[q] = v4[q]
    BY <1>1, <2>1 DEF Control!Rotate, Control!IInv
  <2>3. Control!ComingIsNew'
    BY <2>1, <2>2 DEF Control!IInv, Control!ComingIsNew, Control!Pending
  <2> QED
    BY <2>1, <2>2, <2>3 DEF Control!IInv, Control!TicketsInHand, Control!TicketOnce
<1>2. ASSUME UNCHANGED <<v1, v2, v3, v4, v9>>,
             v5' \in [Tickets -> {"unused", "live", "gone"}], v8' \in [Tickets -> Nat],
             v6' \in [Pages -> Tickets \cup {Control!NoTicket}],
             Control!TicketsInHand', Control!TicketOnce'
      PROVE  Control!IInv'
  BY <1>2 DEF Control!IInv, Control!ComingIsNew, Control!Pending
<1>3. ASSUME NEW k \in Tickets, Control!MintTicket(k) \/ Control!Expire(k)
      PROVE  Control!IInv'
  <2>1. /\ UNCHANGED <<v1, v2, v3, v4, v6, v8, v9>>
        /\ v5' \in [Tickets -> {"unused", "live", "gone"}]
    BY <1>3 DEF Control!MintTicket, Control!Expire, Control!IInv
  <2>2. \A l \in Tickets : v5'[l] # "gone" => v5[l] # "gone"
    BY <1>3 DEF Control!MintTicket, Control!Expire, Control!IInv
  <2> QED
    BY <1>2, <2>1, <2>2 DEF Control!IInv, Control!TicketsInHand, Control!TicketOnce
<1>4. ASSUME NEW p \in Pages, Control!Redeem(p)
      PROVE  Control!IInv'
  <2> DEFINE k == v6[p]
  <2>1. k \in Tickets /\ UNCHANGED <<v1, v2, v3, v4, v9>>
    BY <1>4 DEF Control!Redeem, Control!IInv
  <2>2. v6' \in [Pages -> Tickets \cup {Control!NoTicket}]
    BY <1>4 DEF Control!Redeem, Control!IInv
  <2>3. CASE v5[k] = "live"
    <3>1. v5' = [v5 EXCEPT ![k] = "gone"] /\ v8' = [v8 EXCEPT ![k] = @ + 1]
      BY <1>4, <2>3 DEF Control!Redeem
    <3>2. v8[k] = 0
      BY <2>1, <2>3 DEF Control!IInv, Control!TicketsInHand
    <3> QED
      BY <1>2, <2>1, <2>2, <3>1, <3>2 DEF Control!IInv, Control!TicketsInHand, Control!TicketOnce
  <2>4. CASE v5[k] # "live"
    <3>1. v5' = v5 /\ v8' = v8
      BY <1>4, <2>4 DEF Control!Redeem
    <3> QED
      BY <1>2, <2>1, <2>2, <3>1 DEF Control!IInv, Control!TicketsInHand, Control!TicketOnce
  <2> QED
    BY <2>3, <2>4
<1>5. ASSUME NEW p \in Pages, NEW k \in Tickets, Control!Exchange(p, k)
      PROVE  Control!IInv'
  BY <1>2, <1>5 DEF Control!Exchange, Control!IInv, Control!TicketsInHand, Control!TicketOnce
<1> QED
  BY <1>1, <1>3, <1>4, <1>5

LEMMA ControlStep ==
  ASSUME Control!IInv,
         Control!Next \/ UNCHANGED <<v1, v2, v3, v4, v5, v6, v7, v8, v9>>
  PROVE  Control!IInv'
<1>1. CASE UNCHANGED <<v1, v2, v3, v4, v5, v6, v7, v8, v9>>
  BY <1>1 DEF Control!IInv, Control!ComingIsNew, Control!Pending, Control!TicketsInHand,
              Control!TicketOnce
<1> QED
  BY <1>1, ControlWrite, ControlSwap, ControlRestart, ControlTickets DEF Control!Next

-----------------------------------------------------------------------------
(* BuySide: v1 budget, v2 read, v3 want, v4 chosen, v5 seller, v6 said.      *)

Row == [status : Buying!Status, last : Nat, rounds : Nat, agreed : Nat]

LEMMA BuyingInit ==
  ASSUME Buying!Init
  PROVE  Buying!IInv
  BY DEF Buying!Init, Buying!IInv, Buying!Unset, Buying!Blank, Buying!Status,
         Buying!OneCommitment, Buying!Unopened

\* A budget that was set is one the buyer may set.
LEMMA BudgetParts ==
  ASSUME NEW b \in Budgets
  PROVE  b.max \in Nat \ {0} /\ b.target \in Nat \ {0} /\ b.target <= b.max
  BY RecordsAssumption DEF Buying!BuySideAssumption, Buying!Budget

\* The opening offer and a reply name prices; a counter, a hold and an accept
\* stay within the budget, or where an offer made before it already stood.
LEMMA ReplyParts ==
  ASSUME NEW t, v5[t] \in Row, NEW p \in Asks, NEW b \in Budgets
  PROVE  LET answer == Buying!DecideReply(t, p, b)
         IN  /\ answer.price \in Nat
             /\ answer.decision = "counter" => answer.price < b.max /\ answer.price < p
             /\ ~(answer.price <= b.max) => v5[t].last > b.max
             /\ answer.decision = "counter" => answer.price >= v5[t].last
             /\ answer.decision \notin {"seeded", "opening_offer"}
<1> DEFINE s == v5[t]
           within == Buying!Smaller(Buying!Larger(Buying!Larger(b.target, p - Step), s.last), b.max)
           raised == s.last + Step * (s.rounds + 1)
           over == Buying!Smaller(Buying!Smaller(raised, b.max - 1), p - 1)
<1> USE RecordsAssumption DEF Buying!BuySideAssumption
<1>1. /\ b.max \in Nat \ {0} /\ b.target \in Nat \ {0} /\ b.target <= b.max
      /\ p \in Nat \ {0} /\ s.last \in Nat /\ s.rounds \in Nat
  BY BudgetParts DEF Row
<1>2. raised \in Nat
  BY <1>1
<1>3. within \in Nat /\ within <= b.max /\ (s.last <= b.max => within >= s.last)
  BY <1>1 DEF Buying!Smaller, Buying!Larger
<1> HIDE DEF raised
<1>4. over \in Nat /\ over < b.max /\ over < p
  BY <1>1, <1>2 DEF Buying!Smaller
<1> HIDE DEF within, over
<1>5. Buying!InBudget(p, s, b) = IF s.rounds < Rounds /\ within < p
                                 THEN Buying!Said("counter", within) ELSE Buying!Said("accept", p)
  BY DEF Buying!InBudget, within
<1>6. Buying!OverBudget(p, s, b) =
        IF s.rounds >= Rounds THEN Buying!Said("walk_away", 0)
        ELSE IF s.last > 0 /\ over <= s.last THEN Buying!Said("hold", s.last)
        ELSE Buying!Said("counter", over)
  BY DEF Buying!OverBudget, over, raised
<1>7. CASE v3 = "committed" /\ v4 # t
  BY <1>1, <1>7 DEF Buying!DecideReply, Buying!Said
<1>8. CASE ~(v3 = "committed" /\ v4 # t) /\ ((s.last > 0 /\ p <= s.last) \/ p <= b.target)
  <2>1. Buying!DecideReply(t, p, b) = Buying!Said("accept", p)
    BY <1>8 DEF Buying!DecideReply
  <2> QED
    BY <1>1, <1>8, <2>1 DEF Buying!Said
<1>9. CASE ~(v3 = "committed" /\ v4 # t) /\ ~((s.last > 0 /\ p <= s.last) \/ p <= b.target)
  <2>1. CASE p <= b.max
    <3>1. Buying!DecideReply(t, p, b) = Buying!InBudget(p, s, b)
      BY <1>9, <2>1 DEF Buying!DecideReply
    <3>2. within >= s.last
      BY <1>1, <1>3, <1>9, <2>1
    <3> QED
      BY <1>1, <1>3, <1>5, <2>1, <3>1, <3>2 DEF Buying!Said
  <2>2. CASE ~(p <= b.max)
    <3>1. Buying!DecideReply(t, p, b) = Buying!OverBudget(p, s, b)
      BY <1>9, <2>2 DEF Buying!DecideReply
    <3> QED
      BY <1>1, <1>4, <1>6, <2>2, <3>1 DEF Buying!Said
  <2> QED
    BY <2>1, <2>2
<1> QED
  BY <1>7, <1>8, <1>9

\* What an answer leaves on a seller's row: a price, and no commitment of its own.
LEMMA BuyingAnswer ==
  ASSUME Buying!IInv, NEW t \in BuySellers, NEW entry \in Row, NEW answer,
         entry.status # "none", entry.status = "committed" => Buying!Entry(t).status = "committed",
         Buying!Answer(t, entry, answer), v1' = v1, UNCHANGED <<v3, v4>>,
         v2' \in [BuyCalls -> Budgets \cup {Buying!Unread}]
  PROVE  /\ Buying!IInv' /\ v5'[t] = entry /\ v6'.answer = answer
         /\ \A s \in BuySellers \ {t} : v5'[s] = v5[s]
<1>1. v5' \in [BuySellers -> Row] /\ v5'[t] = entry /\ \A s \in BuySellers \ {t} : v5'[s] = v5[s]
  BY DEF Buying!Answer, Buying!IInv, Row
<1>2. entry.status = "committed" => v5[t].status = "committed"
  BY DEF Buying!Entry, Buying!Blank, Buying!IInv
<1>3. Buying!IInv'
  BY <1>1, <1>2 DEF Buying!IInv, Buying!OneCommitment, Buying!Unopened, Row
<1>4. v6'.answer = answer
  BY DEF Buying!Answer, Buying!Answered
<1> QED
  BY <1>1, <1>3, <1>4

LEMMA EntryIsRow ==
  ASSUME Buying!IInv, NEW t \in BuySellers
  PROVE  /\ Buying!Entry(t) \in Row /\ Buying!Entry(t).status # "none"
         /\ Buying!Entry(t).last = v5[t].last
  BY DEF Buying!IInv, Buying!Unopened, Buying!Entry, Buying!Blank, Buying!Status, Row

\* And an answer that lowers no offer of its own lowers none.
LEMMA AnswerRaises ==
  ASSUME NEW t \in BuySellers, Buying!IInv, Buying!IInv', \A s \in BuySellers \ {t} : v5'[s] = v5[s],
         v5'[t].last >= v5[t].last \/ v6'.answer.decision \in {"seeded", "opening_offer"}
  PROVE  Buying!NeverLowers
<1>1. \A s \in BuySellers : v5[s].last \in Nat /\ v5'[s].last \in Nat
  BY DEF Buying!IInv
<1>2. ASSUME NEW s \in BuySellers, v5'[s].last < v5[s].last
      PROVE  v6'.answer.decision \in {"seeded", "opening_offer"}
  <2>1. v5[s].last \in Nat /\ v5'[s].last \in Nat
    BY <1>1
  <2>2. s = t
    BY <1>2, <2>1
  <2> QED
    BY <1>2, <2>1, <2>2
<1> QED
  BY <1>2 DEF Buying!NeverLowers

\* The verbs that answer a seller.
LEMMA BuyingVerbs ==
  ASSUME Buying!IInv, NEW t \in BuySellers, NEW p \in Asks,
         \/ \E n \in 0..Rounds : Buying!Seed(t, p, n)
         \/ \E c \in BuyCalls : Buying!Open(c, t, p) \/ Buying!Reply(c, t, p)
  PROVE  Buying!IInv' /\ Buying!NeverLowers
<1> USE RecordsAssumption DEF Buying!BuySideAssumption
<1>1. /\ Buying!Entry(t) \in Row /\ v5[t] \in Row
      /\ Buying!Entry(t).status # "none" /\ Buying!Entry(t).last = v5[t].last
  BY EntryIsRow DEF Buying!IInv, Row
<1>2. ASSUME NEW n \in 0..Rounds, Buying!Seed(t, p, n)
      PROVE  Buying!IInv' /\ Buying!NeverLowers
  <2> DEFINE entry == [Buying!Entry(t) EXCEPT !.status = "negotiating",
                         !.last = IF p > 0 THEN p ELSE @, !.rounds = Buying!Larger(@, n)]
  <2>1. entry \in Row /\ entry.status = "negotiating"
    <3> DEFINE e == Buying!Entry(t)
    <3>1. e.rounds \in Nat /\ p \in Nat /\ n \in Nat
      BY <1>1 DEF Row
    <3>2. Buying!Larger(e.rounds, n) \in Nat
      BY <3>1 DEF Buying!Larger
    <3> QED
      BY <1>1, <3>1, <3>2 DEF Row, Buying!Status
  <2>2. /\ Buying!Answer(t, entry, Buying!Said("seeded", 0)) /\ v1' = v1
        /\ UNCHANGED <<v3, v4>> /\ v2' = v2
    BY <1>2 DEF Buying!Seed
  <2>3. v2' \in [BuyCalls -> Budgets \cup {Buying!Unread}]
    BY <2>2 DEF Buying!IInv
  <2> HIDE DEF entry
  <2>4. /\ Buying!IInv' /\ v6'.answer = Buying!Said("seeded", 0)
        /\ \A s \in BuySellers \ {t} : v5'[s] = v5[s]
    BY <2>1, <2>2, <2>3, BuyingAnswer
  <2>5. v6'.answer.decision = "seeded"
    BY <2>4 DEF Buying!Said
  <2> QED
    BY <2>4, <2>5, AnswerRaises
<1>3. ASSUME NEW c \in BuyCalls, Buying!Done(c), v2[c] # Buying!Unread
      PROVE  /\ v1' = v1 /\ v2' \in [BuyCalls -> Budgets \cup {Buying!Unread}]
             /\ v2[c] \in Budgets
  BY <1>3 DEF Buying!Done, Buying!IInv
<1>4. ASSUME UNCHANGED <<v1, v3, v4, v5>>, v2' \in [BuyCalls -> Budgets \cup {Buying!Unread}]
      PROVE  Buying!IInv' /\ Buying!NeverLowers
  BY <1>4, AnswerRaises DEF Buying!IInv, Buying!OneCommitment, Buying!Unopened
<1>5. ASSUME NEW c \in BuyCalls, Buying!Open(c, t, p)
      PROVE  Buying!IInv' /\ Buying!NeverLowers
  <2> DEFINE answer == Buying!DecideOpen(p, v2[c])
             entry == IF answer.decision = "accept"
                        THEN [Buying!Entry(t) EXCEPT !.status = "deal_pending",
                                                     !.agreed = answer.price]
                        ELSE [Buying!Entry(t) EXCEPT !.last = answer.price]
  <2>1. Buying!Done(c) /\ v2[c] # Buying!Unread /\ UNCHANGED <<v3, v4>>
    BY <1>5 DEF Buying!Open
  <2>2. v1' = v1 /\ v2' \in [BuyCalls -> Budgets \cup {Buying!Unread}] /\ v2[c] \in Budgets
    BY <1>3, <2>1
  <2>3. answer.price \in Nat
    <3>1. /\ v2[c].target \in Nat /\ v2[c].max \in Nat /\ Aim[p] \in Nat /\ p \in Nat
      BY <2>2, BudgetParts
    <3> QED
      BY <3>1 DEF Buying!DecideOpen, Buying!Said, Buying!Larger, Buying!Smaller
  <2>6. answer.decision \in {"accept", "opening_offer"}
    BY DEF Buying!DecideOpen, Buying!Said
  <2> HIDE DEF answer
  <2>4. /\ entry \in Row /\ entry.status # "none"
        /\ entry.status = "committed" => Buying!Entry(t).status = "committed"
        /\ answer.decision = "accept" => entry.last = v5[t].last
    BY <1>1, <2>3 DEF Row, Buying!Status
  <2>5. Buying!Answer(t, entry, answer) \/ v5' = v5
    BY <1>5 DEF Buying!Open, answer
  <2> HIDE DEF entry
  <2>7. CASE v5' = v5
    BY <1>4, <2>1, <2>2, <2>7
  <2>8. CASE Buying!Answer(t, entry, answer)
    <3>1. /\ Buying!IInv' /\ v5'[t] = entry /\ v6'.answer = answer
          /\ \A s \in BuySellers \ {t} : v5'[s] = v5[s]
      BY <2>1, <2>2, <2>4, <2>8, BuyingAnswer
    <3>2. v5'[t].last >= v5[t].last \/ v6'.answer.decision \in {"seeded", "opening_offer"}
      BY <1>1, <2>4, <2>6, <3>1 DEF Row
    <3> QED
      BY <3>1, <3>2, AnswerRaises
  <2> QED
    BY <2>5, <2>7, <2>8
<1>6. ASSUME NEW c \in BuyCalls, Buying!Reply(c, t, p)
      PROVE  Buying!IInv' /\ Buying!NeverLowers
  <2> DEFINE answer == Buying!DecideReply(t, p, v2[c])
             entry == CASE answer.decision = "counter" ->
                             [Buying!Entry(t) EXCEPT !.last = answer.price, !.rounds = @ + 1]
                        [] answer.decision = "accept" ->
                             [Buying!Entry(t) EXCEPT !.status = "deal_pending",
                                                     !.agreed = answer.price]
                        [] answer.decision = "walk_away" ->
                             [Buying!Entry(t) EXCEPT !.status = "walked"]
                        [] OTHER -> Buying!Entry(t)
  <2>1. Buying!Done(c) /\ v2[c] # Buying!Unread /\ UNCHANGED <<v3, v4>>
    BY <1>6 DEF Buying!Reply
  <2>2. v1' = v1 /\ v2' \in [BuyCalls -> Budgets \cup {Buying!Unread}] /\ v2[c] \in Budgets
    BY <1>3, <2>1
  <2>3. answer.price \in Nat /\ (answer.decision = "counter" => answer.price >= v5[t].last)
    BY <1>1, <2>2, ReplyParts
  <2>4. Buying!Answer(t, entry, answer) \/ v5' = v5
    BY <1>6 DEF Buying!Reply
  <2> HIDE DEF answer
  <2>5. /\ entry \in Row /\ entry.status # "none"
        /\ entry.status = "committed" => Buying!Entry(t).status = "committed"
        /\ entry.last >= v5[t].last
    <3>0. v5[t].last \in Nat
      BY <1>1 DEF Row
    <3>1. CASE answer.decision = "counter"
      <4>1. entry = [Buying!Entry(t) EXCEPT !.last = answer.price, !.rounds = @ + 1]
        BY <3>1
      <4>2. PICK e \in Row : e = Buying!Entry(t)
        BY <1>1
      <4>3. entry = [e EXCEPT !.last = answer.price, !.rounds = e.rounds + 1]
        BY <4>1, <4>2
      <4>4. e.rounds + 1 \in Nat
        BY DEF Row
      <4> HIDE DEF entry
      <4>5. entry \in Row /\ entry.status = e.status /\ entry.last = answer.price
        BY <2>3, <4>3, <4>4 DEF Row
      <4> QED
        BY <1>1, <2>3, <3>1, <4>2, <4>5
    <3>2. CASE answer.decision = "accept"
      <4>1. entry = [Buying!Entry(t) EXCEPT !.status = "deal_pending", !.agreed = answer.price]
        BY <3>2
      <4>2. PICK e \in Row : e = Buying!Entry(t)
        BY <1>1
      <4>3. entry = [e EXCEPT !.status = "deal_pending", !.agreed = answer.price]
        BY <4>1, <4>2
      <4> HIDE DEF entry
      <4>4. entry \in Row /\ entry.status = "deal_pending" /\ entry.last = e.last
        BY <2>3, <4>3 DEF Row, Buying!Status
      <4> QED
        BY <1>1, <3>0, <4>2, <4>4
    <3>3. CASE answer.decision = "walk_away"
      <4>1. entry = [Buying!Entry(t) EXCEPT !.status = "walked"]
        BY <3>3
      <4> HIDE DEF entry
      <4> QED
        BY <1>1, <3>0, <4>1 DEF Row, Buying!Status
    <3>4. CASE answer.decision \notin {"counter", "accept", "walk_away"}
      <4>1. entry = Buying!Entry(t)
        BY <3>4
      <4> HIDE DEF entry
      <4> QED
        BY <1>1, <3>0, <4>1
    <3> QED
      BY <3>1, <3>2, <3>3, <3>4
  <2> HIDE DEF entry
  <2>6. CASE v5' = v5
    BY <1>4, <2>1, <2>2, <2>6
  <2>7. CASE Buying!Answer(t, entry, answer)
    <3>1. /\ Buying!IInv' /\ v5'[t] = entry /\ \A s \in BuySellers \ {t} : v5'[s] = v5[s]
      BY <2>1, <2>2, <2>5, <2>7, BuyingAnswer
    <3> QED
      BY <2>5, <3>1, AnswerRaises
  <2> QED
    BY <2>4, <2>6, <2>7
<1> QED
  BY <1>2, <1>5, <1>6

\* The commitment moves: whoever had it is lost.
LEMMA BuyingAccept ==
  ASSUME Buying!IInv, NEW t \in BuySellers, NEW c \in BuyCalls, Buying!Accept(c, t)
  PROVE  Buying!IInv' /\ Buying!NeverLowers
<1>1. v3' = "committed" /\ v4' = t /\ v1' = v1
  BY DEF Buying!Accept, Buying!Done
<1>2. v2' \in [BuyCalls -> Budgets \cup {Buying!Unread}]
  BY DEF Buying!Accept, Buying!Done, Buying!IInv
<1>3. v5' \in [BuySellers -> [status : Buying!Status, last : Nat, rounds : Nat, agreed : Nat]]
  BY DEF Buying!Accept, Buying!IInv, Buying!Status
<1>4. \A s \in BuySellers \ {t} : v5'[s].status # "committed"
  BY DEF Buying!Accept, Buying!IInv, Buying!Dropped
<1>5. \A s \in BuySellers : v5'[s].last = v5[s].last /\ (v5'[s].status = "none" => v5[s].status = "none")
  BY DEF Buying!Accept, Buying!IInv
<1>6. Buying!NeverLowers
  BY <1>5 DEF Buying!NeverLowers, Buying!IInv
<1> QED
  BY <1>1, <1>2, <1>3, <1>4, <1>5, <1>6 DEF Buying!IInv, Buying!OneCommitment, Buying!Unopened

LEMMA BuyingStep ==
  ASSUME Buying!IInv, Buying!Next \/ UNCHANGED <<v1, v2, v3, v4, v5, v6>>
  PROVE  Buying!IInv' /\ Buying!NeverLowers
<1>1. ASSUME NEW b \in Budgets, NEW source \in {"buyer", "default"}, NEW force \in BOOLEAN,
             Buying!SetBudget(b, source, force)
      PROVE  Buying!IInv' /\ Buying!NeverLowers
  <2>1. /\ v1' = [max |-> b.max, target |-> b.target, source |-> source]
        /\ UNCHANGED <<v2, v3, v4, v5>>
    BY <1>1 DEF Buying!SetBudget
  <2>2. [max |-> b.max, target |-> b.target] = b
    BY RecordsAssumption DEF Buying!BuySideAssumption, Buying!Budget
  <2> QED
    BY <2>1, <2>2 DEF Buying!IInv, Buying!OneCommitment, Buying!Unopened, Buying!NeverLowers
<1>2. ASSUME NEW c \in BuyCalls, Buying!ReadBudget(c)
      PROVE  Buying!IInv' /\ Buying!NeverLowers
  BY <1>2 DEF Buying!ReadBudget, Buying!IInv, Buying!OneCommitment, Buying!Unopened,
              Buying!NeverLowers
<1>3. ASSUME NEW t \in BuySellers, Buying!Walk(t)
      PROVE  Buying!IInv' /\ Buying!NeverLowers
  <2> DEFINE entry == [v5[t] EXCEPT !.status = "walked"]
  <2>1. entry \in Row /\ entry.status = "walked" /\ entry.last = v5[t].last /\ entry.last \in Nat
    BY DEF Row, Buying!Status, Buying!IInv
  <2>2. /\ Buying!Answer(t, entry, Buying!Said("walked", 0)) /\ v1' = v1
        /\ UNCHANGED <<v3, v4>> /\ v2' = v2
    BY <1>3 DEF Buying!Walk
  <2>3. v2' \in [BuyCalls -> Budgets \cup {Buying!Unread}]
    BY <2>2 DEF Buying!IInv
  <2> HIDE DEF entry
  <2>4. /\ Buying!IInv' /\ v5'[t] = entry /\ \A s \in BuySellers \ {t} : v5'[s] = v5[s]
    BY <2>1, <2>2, <2>3, BuyingAnswer
  <2> QED
    BY <2>1, <2>4, AnswerRaises
<1>4. CASE UNCHANGED <<v1, v2, v3, v4, v5, v6>>
  BY <1>4 DEF Buying!IInv, Buying!OneCommitment, Buying!Unopened, Buying!NeverLowers
<1> QED
  BY <1>1, <1>2, <1>3, <1>4, BuyingVerbs, BuyingAccept DEF Buying!Next

\* What the properties of the buy side ask follows.
LEMMA BuyingKeeps ==
  ASSUME Buying!IInv
  PROVE  Buying!EngineKeepsUnder /\ Buying!OneCommitment
<1>1. ASSUME NEW t \in BuySellers
      PROVE  v5[t] \in Row
  BY DEF Buying!IInv, Row
<1> QED
  BY <1>1, ReplyParts DEF Buying!IInv, Buying!EngineKeepsUnder, Buying!Guarded

-----------------------------------------------------------------------------
(* Checkout: v1 floor, v2 published, v3 link, v4 minted, v5 call, v6 told,   *)
(* v7 lowest.                                                                *)

Under == [at : {"gate", "mint", "record"}, sale : Gate!Sales, link : Nat, listed : BOOLEAN]

LEMMA GateInit ==
  ASSUME Gate!Init
  PROVE  Gate!IInv
<1> USE RecordsAssumption DEF Gate!CheckoutAssumption
<1>1. SaleList \in Nat
  OBVIOUS
<1>2. /\ v1 = Gate!NoFloor /\ v2 = FALSE /\ v3 = [s \in Gate!Sales |-> 0] /\ v4 = 0
      /\ v5 = [c \in SaleCalls |-> Gate!Done] /\ v6 = [s \in Gate!Sales |-> {}] /\ v7 = SaleList
  BY DEF Gate!Init
<1>3. Gate!AboveLowest
  BY <1>1, <1>2 DEF Gate!AboveLowest, Gate!Done
<1>4. Gate!ToldIsRecorded /\ Gate!NoLinkBelowFloor
  BY <1>2 DEF Gate!ToldIsRecorded, Gate!NoLinkBelowFloor
<1> QED
  BY <1>1, <1>2, <1>3, <1>4 DEF Gate!IInv, Gate!NoFloor, Gate!Done

\* A sale's price is a number.
LEMMA SaleParts ==
  ASSUME NEW s \in Gate!Sales
  PROVE  s[2] \in Nat
  BY RecordsAssumption DEF Gate!Sales, Gate!CheckoutAssumption

\* A call moves on while the rows of the sale stay: it ends, or it is at a later
\* place with what it needs there.
LEMMA CallMoves ==
  ASSUME Gate!IInv, NEW c \in SaleCalls, NEW next, v5' = [v5 EXCEPT ![c] = next],
         \/ next = Gate!Done
         \/ /\ next \in Under
            /\ next.at \in {"mint", "record"} => next.sale[2] >= v7
            /\ next.at = "record" => next.link # 0
  PROVE  /\ \A d \in SaleCalls : v5'[d] = Gate!Done \/ v5'[d] \in Under
         /\ DOMAIN v5' = SaleCalls
         /\ \A d \in SaleCalls : v5'[d].at = "record" => v5'[d].link # 0
         /\ \A d \in SaleCalls : v5'[d].at \in {"mint", "record"} => v5'[d].sale[2] >= v7
<1>1. DOMAIN v5' = SaleCalls /\ v5'[c] = next /\ \A d \in SaleCalls \ {c} : v5'[d] = v5[d]
  BY DEF Gate!IInv
<1>2. /\ \A d \in SaleCalls : v5[d] = Gate!Done \/ v5[d] \in Under
      /\ \A d \in SaleCalls : v5[d].at = "record" => v5[d].link # 0
      /\ \A d \in SaleCalls : v5[d].at \in {"mint", "record"} => v5[d].sale[2] >= v7
  BY DEF Gate!IInv, Gate!AboveLowest, Under
<1>3. /\ next = Gate!Done \/ next \in Under
      /\ next.at = "record" => next.link # 0
      /\ next.at \in {"mint", "record"} => next.sale[2] >= v7
  BY DEF Gate!Done
<1>4. ASSUME NEW d \in SaleCalls
      PROVE  /\ v5'[d] = Gate!Done \/ v5'[d] \in Under
             /\ v5'[d].at = "record" => v5'[d].link # 0
             /\ v5'[d].at \in {"mint", "record"} => v5'[d].sale[2] >= v7
  <2>1. v5'[d] = next \/ v5'[d] = v5[d]
    BY <1>1
  <2>2. CASE v5'[d] = next
    BY <1>3, <2>2
  <2>3. CASE v5'[d] = v5[d]
    BY <1>2, <2>3
  <2> QED
    BY <2>1, <2>2, <2>3
<1> QED
  BY <1>1, <1>4

\* The invariant without its parts about calls under way.
LEMMA CallKeeps ==
  ASSUME Gate!IInv, NEW c \in SaleCalls, NEW next, v5' = [v5 EXCEPT ![c] = next],
         \/ next = Gate!Done
         \/ /\ next \in Under
            /\ next.at \in {"mint", "record"} => next.sale[2] >= v7
            /\ next.at = "record" => next.link # 0,
         v7' = v7, v4' \in Nat, v2' \in BOOLEAN,
         v1' \in [value : Nat, source : {"none", "seller", "default"}],
         v1' # Gate!NoFloor => v7 <= v1'.value,
         v3' \in [Gate!Sales -> Nat], v6' \in [Gate!Sales -> SUBSET Nat],
         Gate!ToldIsRecorded', Gate!NoLinkBelowFloor'
  PROVE  Gate!IInv'
<1>1. /\ \A d \in SaleCalls : v5'[d] = Gate!Done \/ v5'[d] \in Under
      /\ DOMAIN v5' = SaleCalls
      /\ \A d \in SaleCalls : v5'[d].at = "record" => v5'[d].link # 0
      /\ \A d \in SaleCalls : v5'[d].at \in {"mint", "record"} => v5'[d].sale[2] >= v7
  BY CallMoves
<1>2. Gate!AboveLowest'
  BY <1>1 DEF Gate!AboveLowest, Gate!IInv
<1> QED
  BY <1>1, <1>2 DEF Gate!IInv, Under

\* get_checkout: a link that was issued is told again.
LEMMA GateBegin ==
  ASSUME Gate!IInv, NEW c \in SaleCalls, NEW s \in Gate!Sales, Gate!Begin(c, s)
  PROVE  Gate!IInv'
<1>1. UNCHANGED <<v1, v2, v3, v4, v7>>
  BY DEF Gate!Begin
<1>2. CASE v3[s] # 0
  <2>1. v6' = [v6 EXCEPT ![s] = @ \cup {v3[s]}] /\ v5' = v5
    BY <1>2 DEF Gate!Begin, Gate!Tell
  <2>2. v6' \in [Gate!Sales -> SUBSET Nat] /\ Gate!ToldIsRecorded'
    BY <1>1, <1>2, <2>1 DEF Gate!IInv, Gate!ToldIsRecorded
  <2> QED
    BY <1>1, <2>1, <2>2 DEF Gate!IInv, Gate!AboveLowest, Gate!NoLinkBelowFloor
<1>3. CASE v3[s] = 0
  <2> DEFINE next == [at |-> "gate", sale |-> s, link |-> 0, listed |-> v2]
  <2>1. v5' = [v5 EXCEPT ![c] = next] /\ v6' = v6
    BY <1>3 DEF Gate!Begin
  <2>2. next \in Under /\ next.at = "gate"
    BY DEF Under, Gate!IInv
  <2> HIDE DEF next
  <2> QED
    BY <1>1, <2>1, <2>2, CallKeeps
       DEF Gate!IInv, Gate!AboveLowest, Gate!ToldIsRecorded, Gate!NoLinkBelowFloor
<1> QED
  BY <1>2, <1>3

\* checkout_floor_gate: what passes is at the floor or above it, and the floor
\* is never under the lowest.
LEMMA GateGate ==
  ASSUME Gate!IInv, NEW c \in SaleCalls, Gate!Gate(c)
  PROVE  Gate!IInv'
<1> DEFINE price == v5[c].sale[2]
<1> USE RecordsAssumption DEF Gate!CheckoutAssumption
<1>1. UNCHANGED <<v2, v3, v4, v6, v7>> /\ v5[c].at = "gate"
  BY DEF Gate!Gate
<1>2. v5[c] \in Under
  BY <1>1 DEF Gate!IInv, Under, Gate!Done
<1>3. price \in Nat /\ v7 \in Nat /\ v7 <= SaleList
  BY <1>2, SaleParts DEF Under, Gate!IInv, Gate!AboveLowest
<1>4. /\ v1' \in [value : Nat, source : {"none", "seller", "default"}]
      /\ v1' # Gate!NoFloor => v7 <= v1'.value
  <2>1. v1' = v1 \/ v1' = [value |-> SaleList, source |-> "default"]
    BY DEF Gate!Gate
  <2> QED
    BY <1>3, <2>1 DEF Gate!IInv, Gate!AboveLowest
<1>5. PICK next : /\ v5' = [v5 EXCEPT ![c] = next]
                  /\ \/ next = Gate!Done
                     \/ next = [v5[c] EXCEPT !.at = "mint"] /\ v1' # Gate!NoFloor /\ price >= v1'.value
  BY DEF Gate!Gate, Gate!Ends
<1>6. next = Gate!Done \/ (next \in Under /\ next.at = "mint" /\ next.sale[2] >= v7)
  BY <1>2, <1>3, <1>4, <1>5 DEF Under
<1>7. Gate!ToldIsRecorded' /\ Gate!NoLinkBelowFloor'
  BY <1>1 DEF Gate!IInv, Gate!ToldIsRecorded, Gate!NoLinkBelowFloor
<1> QED
  BY <1>1, <1>4, <1>5, <1>6, <1>7, CallKeeps DEF Gate!IInv

\* create_checkout, and every way a call ends early.
LEMMA GateMint ==
  ASSUME Gate!IInv, NEW c \in SaleCalls, Gate!Mint(c) \/ Gate!Fail(c)
  PROVE  Gate!IInv'
<1>1. UNCHANGED <<v1, v2, v3, v6, v7>> /\ v4' \in Nat
  BY DEF Gate!Mint, Gate!Fail, Gate!IInv
<1>2. PICK next : /\ v5' = [v5 EXCEPT ![c] = next]
                  /\ \/ next = Gate!Done
                     \/ /\ v5[c].at = "mint"
                        /\ next = [v5[c] EXCEPT !.at = "record", !.link = v4 + 1]
  BY DEF Gate!Mint, Gate!Fail, Gate!Ends
<1>3. \/ next = Gate!Done
      \/ next \in Under /\ next.at = "record" /\ next.sale[2] >= v7 /\ next.link # 0
  <2>1. CASE v5[c].at = "mint" /\ next = [v5[c] EXCEPT !.at = "record", !.link = v4 + 1]
    <3>1. v5[c] \in Under /\ v5[c].sale[2] >= v7 /\ v4 \in Nat
      BY <2>1 DEF Gate!IInv, Under, Gate!Done, Gate!AboveLowest
    <3>2. PICK n \in Nat : n = v4 + 1 /\ n # 0
      BY <3>1
    <3>3. next = [v5[c] EXCEPT !.at = "record", !.link = n]
      BY <2>1, <3>2
    <3>4. next \in Under /\ next.at = "record" /\ next.sale = v5[c].sale /\ next.link = n
      BY <3>1, <3>3 DEF Under
    <3> QED
      BY <3>1, <3>2, <3>4
  <2> QED
    BY <1>2, <2>1
<1>4. Gate!ToldIsRecorded' /\ Gate!NoLinkBelowFloor'
  BY <1>1 DEF Gate!IInv, Gate!ToldIsRecorded, Gate!NoLinkBelowFloor
<1> QED
  BY <1>1, <1>2, <1>3, <1>4, CallKeeps DEF Gate!IInv, Gate!AboveLowest

\* record_checkout: the first link of a sale stays, and it is the one told.
LEMMA GateRecord ==
  ASSUME Gate!IInv, NEW c \in SaleCalls, Gate!Record(c)
  PROVE  Gate!IInv'
<1> DEFINE s == v5[c].sale
           first == IF v3[s] = 0 THEN v5[c].link ELSE v3[s]
<1>1. UNCHANGED <<v1, v2, v4, v7>> /\ v5[c].at = "record" /\ v5' = [v5 EXCEPT ![c] = Gate!Done]
  BY DEF Gate!Record, Gate!Ends
<1>2. v5[c] \in Under /\ v5[c].link # 0 /\ s[2] >= v7
  BY <1>1 DEF Gate!IInv, Under, Gate!Done, Gate!AboveLowest
<1>3. s \in Gate!Sales /\ first \in Nat /\ first # 0
  BY <1>2 DEF Under, Gate!IInv
<1>4. v3' = [v3 EXCEPT ![s] = first]
  BY <1>3 DEF Gate!Record, Gate!IInv
<1> HIDE DEF first
<1>5. v3'[s] = first /\ \A q \in Gate!Sales \ {s} : v3'[q] = v3[q]
  BY <1>3, <1>4 DEF Gate!IInv
<1>6. v6' = [v6 EXCEPT ![s] = @ \cup {first}]
  BY <1>5 DEF Gate!Record, Gate!Tell
<1>7. v3' \in [Gate!Sales -> Nat] /\ v6' \in [Gate!Sales -> SUBSET Nat]
  BY <1>3, <1>4, <1>6 DEF Gate!IInv
<1>8. v6[s] \subseteq {first}
  BY <1>3 DEF Gate!IInv, Gate!ToldIsRecorded, first
<1>9. Gate!ToldIsRecorded'
  <2>1. v6'[s] = {first} /\ \A q \in Gate!Sales \ {s} : v6'[q] = v6[q]
    BY <1>3, <1>6, <1>8 DEF Gate!IInv
  <2> QED
    BY <1>3, <1>5, <2>1 DEF Gate!IInv, Gate!ToldIsRecorded
<1>10. Gate!NoLinkBelowFloor'
  BY <1>1, <1>2, <1>5 DEF Gate!IInv, Gate!NoLinkBelowFloor
<1> QED
  BY <1>1, <1>7, <1>9, <1>10, CallKeeps DEF Gate!IInv, Gate!AboveLowest

\* The seller's own changes.
LEMMA GateSeller ==
  ASSUME Gate!IInv,
         \/ \E v \in SaleFloors, source \in {"seller", "default"}, force \in BOOLEAN :
              Gate!SetFloor(v, source, force)
         \/ \E p \in BOOLEAN : Gate!SetPublished(p)
  PROVE  Gate!IInv'
<1> USE RecordsAssumption DEF Gate!CheckoutAssumption
<1>1. ASSUME NEW v \in SaleFloors, NEW source \in {"seller", "default"}, NEW force \in BOOLEAN,
             Gate!SetFloor(v, source, force)
      PROVE  Gate!IInv'
  <2>1. /\ v1' = [value |-> v, source |-> source] /\ v7' = Gate!Smaller(v7, v)
        /\ UNCHANGED <<v2, v3, v4, v5, v6>>
    BY <1>1 DEF Gate!SetFloor
  <2>2. v \in Nat /\ v7 \in Nat /\ v7' \in Nat /\ v7' <= v /\ v7' <= v7
    BY <2>1 DEF Gate!Smaller, Gate!IInv
  <2>3. /\ \A s \in Gate!Sales : v3[s] # 0 => s[2] >= v7'
        /\ \A c \in SaleCalls : v5[c].at \in {"mint", "record"} => v5[c].sale[2] >= v7'
    <3>1. \A c \in SaleCalls : v5[c].at \in {"mint", "record"} => v5[c].sale[2] \in Nat
      BY SaleParts DEF Gate!IInv, Gate!Done
    <3> QED
      BY <2>2, <3>1, SaleParts DEF Gate!IInv, Gate!NoLinkBelowFloor, Gate!AboveLowest
  <2>4. Gate!AboveLowest' /\ Gate!NoLinkBelowFloor' /\ Gate!ToldIsRecorded'
    BY <2>1, <2>2, <2>3 DEF Gate!IInv, Gate!AboveLowest, Gate!NoLinkBelowFloor, Gate!ToldIsRecorded
  <2> QED
    BY <2>1, <2>2, <2>4 DEF Gate!IInv
<1>2. ASSUME NEW p \in BOOLEAN, Gate!SetPublished(p)
      PROVE  Gate!IInv'
  BY <1>2 DEF Gate!SetPublished, Gate!IInv, Gate!AboveLowest, Gate!ToldIsRecorded,
              Gate!NoLinkBelowFloor
<1> QED
  BY <1>1, <1>2

LEMMA GateStep ==
  ASSUME Gate!IInv, Gate!Next \/ UNCHANGED <<v1, v2, v3, v4, v5, v6, v7>>
  PROVE  Gate!IInv'
<1>1. CASE UNCHANGED <<v1, v2, v3, v4, v5, v6, v7>>
  BY <1>1 DEF Gate!IInv, Gate!AboveLowest, Gate!ToldIsRecorded, Gate!NoLinkBelowFloor
<1> QED
  BY <1>1, GateBegin, GateGate, GateMint, GateRecord, GateSeller DEF Gate!Next

LEMMA GateCardinality == \A S : Gate!Cardinality(S) = Cardinality(S)
  BY Zenon DEF Gate!Cardinality, Cardinality

\* What the properties of the checkout ask follows.
LEMMA GateKeeps ==
  ASSUME Gate!IInv
  PROVE  Gate!OneLinkTold /\ Gate!NoLinkBelowFloor
<1>1. ASSUME NEW s \in Gate!Sales
      PROVE  Gate!Cardinality(v6[s]) <= 1
  <2>1. v6[s] = {} \/ v6[s] = {v3[s]}
    BY DEF Gate!IInv, Gate!ToldIsRecorded
  <2>2. Cardinality({}) = 0 /\ Cardinality({v3[s]}) = 1
    BY FS_EmptySet, FS_Singleton
  <2>3. Cardinality(v6[s]) <= 1
    BY <2>1, <2>2
  <2> QED
    BY <2>3, GateCardinality
<1> QED
  BY <1>1 DEF Gate!IInv, Gate!OneLinkTold

-----------------------------------------------------------------------------
(* TailReconcile: v1 page, v2 unread, v3 rows, v4 says, v5 status, v6 looks, *)
(* v7 live, v8 phase, v9 tail, v10 seek, v11 settled, v12 fresh, v13 fetched,*)
(* v14 seen.                                                                 *)

LEMMA TranscriptCardinality == \A S : Transcript!Cardinality(S) = Cardinality(S)
  BY Zenon DEF Transcript!Cardinality, Cardinality

\* A set of numbers that is not empty has a least one.
LEMMA LeastOf ==
  ASSUME NEW T, T \subseteq Nat, T # {}
  PROVE  \E x \in T : \A y \in T : x <= y
<1>1. PICK x \in T : \A y \in T : ~(<<y, x>> \in OpToRel(<, Nat))
  BY WFMin, NatLessThanWellFounded, Zenon
<1>2. \A y \in T : ~(y < x)
  BY <1>1 DEF OpToRel
<1> QED
  BY <1>2

\* Where a text stands among the keys, up to a place.
Marks(s, k, n) == {i \in 1..n : s[i] = k}

LEMMA MarksCount ==
  ASSUME NEW s, NEW k, NEW n \in Nat
  PROVE  /\ IsFiniteSet(Marks(s, k, n)) /\ Cardinality(Marks(s, k, n)) \in Nat
         /\ Marks(s, k, n) \subseteq 1..n
         /\ n > 0 => Cardinality(Marks(s, k, n)) = Cardinality(Marks(s, k, n - 1)) + (IF s[n] = k THEN 1 ELSE 0)
<1>1. Marks(s, k, n) \subseteq 1..n /\ IsFiniteSet(1..n)
  BY FS_Interval DEF Marks
<1>2. IsFiniteSet(Marks(s, k, n))
  BY <1>1, FS_Subset
<1>3. ASSUME n > 0
      PROVE  Cardinality(Marks(s, k, n)) = Cardinality(Marks(s, k, n - 1)) + (IF s[n] = k THEN 1 ELSE 0)
  <2>1. IsFiniteSet(Marks(s, k, n - 1)) /\ n \notin Marks(s, k, n - 1)
    <3>1. Marks(s, k, n - 1) \subseteq Marks(s, k, n)
      BY DEF Marks
    <3> QED
      BY <3>1, <1>2, FS_Subset DEF Marks
  <2>2. CASE s[n] = k
    <3>1. Marks(s, k, n) = Marks(s, k, n - 1) \cup {n}
      BY <1>3, <2>2 DEF Marks
    <3> QED
      BY <2>1, <2>2, <3>1, FS_AddElement
  <2>3. CASE s[n] # k
    <3>1. Marks(s, k, n) = Marks(s, k, n - 1)
      BY <1>3, <2>3 DEF Marks
    <3>2. Cardinality(Marks(s, k, n - 1)) \in Nat
      BY <2>1, FS_CardinalityType
    <3> QED
      BY <2>3, <3>1, <3>2
  <2> QED
    BY <2>2, <2>3
<1> QED
  BY <1>1, <1>2, <1>3, FS_CardinalityType

LEMMA CopiesAreMarks ==
  ASSUME NEW S, NEW s \in Seq(S), NEW k
  PROVE  /\ Transcript!Copies(s, k) = Cardinality(Marks(s, k, Len(s)))
         /\ Transcript!Copies(s, k) \in Nat
<1>1. DOMAIN s = 1..Len(s) /\ Len(s) \in Nat
  BY LenProperties
<1>2. {n \in DOMAIN s : s[n] = k} = Marks(s, k, Len(s))
  BY <1>1 DEF Marks
<1> QED
  BY <1>1, <1>2, MarksCount, TranscriptCardinality DEF Transcript!Copies

LEMMA SameMarks ==
  ASSUME NEW s, NEW t, NEW k, NEW n \in Nat, \A i \in 1..n : s[i] = t[i]
  PROVE  Marks(s, k, n) = Marks(t, k, n)
  BY DEF Marks

LEMMA CopiesAppend ==
  ASSUME NEW S, NEW s \in Seq(S), NEW x \in S, NEW k
  PROVE  Transcript!Copies(Append(s, x), k) = Transcript!Copies(s, k) + (IF x = k THEN 1 ELSE 0)
<1>1. /\ Append(s, x) \in Seq(S) /\ Len(Append(s, x)) = Len(s) + 1 /\ Len(s) \in Nat
      /\ \A i \in 1..Len(s) : Append(s, x)[i] = s[i]
      /\ Append(s, x)[Len(s) + 1] = x
  BY AppendProperties, LenProperties
<1>2. Marks(Append(s, x), k, Len(s)) = Marks(s, k, Len(s))
  BY <1>1, SameMarks
<1> DEFINE t == Append(s, x)
<1>3. Transcript!Copies(t, k) = Cardinality(Marks(t, k, Len(s) + 1))
  BY <1>1, CopiesAreMarks
<1>4. Transcript!Copies(s, k) = Cardinality(Marks(s, k, Len(s)))
  BY CopiesAreMarks
<1> HIDE DEF t
<1>5. Cardinality(Marks(t, k, Len(s) + 1)) =
        Cardinality(Marks(t, k, Len(s))) + (IF t[Len(s) + 1] = k THEN 1 ELSE 0)
  <2>1. Len(s) + 1 \in Nat /\ Len(s) + 1 > 0 /\ (Len(s) + 1) - 1 = Len(s)
    BY <1>1
  <2> QED
    BY <2>1, MarksCount
<1> QED
  BY <1>1, <1>2, <1>3, <1>4, <1>5 DEF t

\* The bubbles, and the keys of rows, are sequences of these.
Line == [side : {"in", "out"}, text : Pair \cup Answers]

LEMMA LinesAre ==
  /\ Transcript!Bubble \subseteq Line
  /\ \A r \in Transcript!Row : Transcript!Key(r) \in Line
  BY DEF Line, Transcript!Bubble, Transcript!Row, Transcript!Key

LEMMA KeysAre ==
  ASSUME NEW s \in Seq(Transcript!Row)
  PROVE  /\ Transcript!Keys(s) \in Seq(Line) /\ Len(Transcript!Keys(s)) = Len(s)
         /\ \A n \in 1..Len(s) : Transcript!Keys(s)[n] = Transcript!Key(s[n])
<1> DEFINE e(n) == Transcript!Key(s[n])
<1>1. Len(s) \in Nat /\ DOMAIN s = 1..Len(s) /\ \A n \in 1..Len(s) : e(n) \in Line
  BY LenProperties, ElementOfSeq, LinesAre
<1>2. Transcript!Keys(s) = [n \in 1..Len(s) |-> e(n)]
  BY <1>1 DEF Transcript!Keys
<1> HIDE DEF e
<1>3. [n \in 1..Len(s) |-> e(n)] \in Seq(Line)
  BY <1>1
<1>4. Len(Transcript!Keys(s)) = Len(s)
  BY <1>1, <1>2
<1> QED
  BY <1>2, <1>3, <1>4 DEF e

LEMMA KeysAppend ==
  ASSUME NEW s \in Seq(Transcript!Row), NEW r \in Transcript!Row
  PROVE  Transcript!Keys(Append(s, r)) = Append(Transcript!Keys(s), Transcript!Key(r))
<1>1. /\ Append(s, r) \in Seq(Transcript!Row) /\ Len(Append(s, r)) = Len(s) + 1 /\ Len(s) \in Nat
      /\ \A i \in 1..Len(s) : Append(s, r)[i] = s[i]
      /\ Append(s, r)[Len(s) + 1] = r
  BY AppendProperties, LenProperties
<1>2. /\ Transcript!Keys(s) \in Seq(Line) /\ Len(Transcript!Keys(s)) = Len(s)
      /\ Transcript!Key(r) \in Line
  BY KeysAre, LinesAre
<1> DEFINE left == Transcript!Keys(Append(s, r))
           right == Append(Transcript!Keys(s), Transcript!Key(r))
<1>3. /\ left \in Seq(Line) /\ Len(left) = Len(s) + 1
      /\ \A i \in 1..Len(s) + 1 : left[i] = Transcript!Key(Append(s, r)[i])
  BY <1>1, KeysAre
<1>4. /\ right \in Seq(Line) /\ Len(right) = Len(s) + 1
      /\ \A i \in 1..Len(s) : right[i] = Transcript!Key(s[i])
      /\ right[Len(s) + 1] = Transcript!Key(r)
  BY <1>2, KeysAre, AppendProperties
<1> HIDE DEF left, right
<1>5. \A i \in 1..Len(left) : left[i] = right[i]
  BY <1>1, <1>3, <1>4
<1>6. left = right
  BY <1>3, <1>4, <1>5, SeqEqual
<1> QED
  BY <1>6 DEF left, right

-----------------------------------------------------------------------------
\* What Without returns: the rows it keeps, in their order.

Ours(row, texts) == row.side = "out" /\ row.text \in texts

\* q is a selection from the first n of s, by the places of its elements.
Selects(q, place, s, texts, n) ==
  /\ place \in [1..Len(q) -> 1..n]
  /\ \A j \in 1..Len(q) : q[j] = s[place[j]] /\ ~Ours(q[j], texts)
  /\ \A i, j \in 1..Len(q) : i < j => place[i] < place[j]
  /\ \A m \in 1..n : ~Ours(s[m], texts) => \E j \in 1..Len(q) : place[j] = m

\* One more element of s.
LEMMA SelectMore ==
  ASSUME NEW S, NEW s \in Seq(S), NEW texts, NEW n \in 1..Len(s), NEW q \in Seq(S),
         NEW place, Selects(q, place, s, texts, n - 1)
  PROVE  \E p : Selects(IF Ours(s[n], texts) THEN q ELSE Append(q, s[n]), p, s, texts, n)
<1>1. Len(q) \in Nat /\ n \in Nat \ {0} /\ s[n] \in S /\ Len(s) \in Nat
  BY LenProperties, ElementOfSeq
<1>2. /\ place \in [1..Len(q) -> 1..n - 1]
      /\ \A j \in 1..Len(q) : q[j] = s[place[j]] /\ ~Ours(q[j], texts)
      /\ \A i, j \in 1..Len(q) : i < j => place[i] < place[j]
      /\ \A m \in 1..n - 1 : ~Ours(s[m], texts) => \E j \in 1..Len(q) : place[j] = m
  BY DEF Selects
<1>3. CASE Ours(s[n], texts)
  <2>1. place \in [1..Len(q) -> 1..n]
    BY <1>1, <1>2
  <2>2. \A m \in 1..n : ~Ours(s[m], texts) => \E j \in 1..Len(q) : place[j] = m
    <3> SUFFICES ASSUME NEW m \in 1..n, ~Ours(s[m], texts)
                 PROVE  \E j \in 1..Len(q) : place[j] = m
      OBVIOUS
    <3>1. m # n
      BY <1>3
    <3>2. m \in 1..n - 1
      BY <1>1, <3>1
    <3> QED
      BY <1>2, <3>2
  <2>3. Selects(q, place, s, texts, n)
    BY <1>2, <2>1, <2>2 DEF Selects
  <2> QED
    BY <1>3, <2>3
<1>4. CASE ~Ours(s[n], texts)
  <2> DEFINE r == Append(q, s[n])
             p == [j \in 1..Len(q) + 1 |-> IF j = Len(q) + 1 THEN n ELSE place[j]]
  <2>1. /\ Len(r) = Len(q) + 1 /\ r[Len(q) + 1] = s[n]
        /\ \A i \in 1..Len(q) : r[i] = q[i]
    BY <1>1, AppendProperties
  <2> HIDE DEF r
  <2>2. p \in [1..Len(r) -> 1..n]
    BY <1>1, <1>2, <2>1
  <2>3. \A j \in 1..Len(r) : r[j] = s[p[j]] /\ ~Ours(r[j], texts)
    <3> SUFFICES ASSUME NEW j \in 1..Len(r)
                 PROVE  r[j] = s[p[j]] /\ ~Ours(r[j], texts)
      OBVIOUS
    <3>1. CASE j = Len(q) + 1
      BY <1>1, <1>4, <2>1, <3>1
    <3>2. CASE j \in 1..Len(q)
      <4>1. j # Len(q) + 1
        BY <1>1, <3>2
      <4> QED
        BY <1>2, <2>1, <3>2, <4>1
    <3> QED
      BY <1>1, <2>1, <3>1, <3>2
  <2>4. \A i, j \in 1..Len(r) : i < j => p[i] < p[j]
    <3> SUFFICES ASSUME NEW i \in 1..Len(r), NEW j \in 1..Len(r), i < j
                 PROVE  p[i] < p[j]
      OBVIOUS
    <3>1. i \in 1..Len(q) /\ i # Len(q) + 1 /\ p[i] = place[i] /\ place[i] \in 1..n - 1
      BY <1>1, <1>2, <2>1
    <3>2. CASE j = Len(q) + 1
      <4>1. p[j] = n
        BY <1>1, <2>1, <3>2
      <4> QED
        BY <1>1, <3>1, <4>1
    <3>3. CASE j \in 1..Len(q)
      <4>1. p[j] = place[j]
        BY <1>1, <2>1, <3>3
      <4> QED
        BY <1>2, <3>1, <3>3, <4>1
    <3> QED
      BY <1>1, <2>1, <3>2, <3>3
  <2>5. \A m \in 1..n : ~Ours(s[m], texts) => \E j \in 1..Len(r) : p[j] = m
    <3> SUFFICES ASSUME NEW m \in 1..n, ~Ours(s[m], texts)
                 PROVE  \E j \in 1..Len(r) : p[j] = m
      OBVIOUS
    <3>1. CASE m = n
      <4>1. Len(q) + 1 \in 1..Len(r) /\ p[Len(q) + 1] = m
        BY <1>1, <2>1, <3>1
      <4> QED
        BY <4>1
    <3>2. CASE m \in 1..n - 1
      <4>1. PICK j \in 1..Len(q) : place[j] = m
        BY <1>2, <3>2
      <4>2. j \in 1..Len(r) /\ p[j] = m
        BY <1>1, <2>1, <4>1
      <4> QED
        BY <4>2
    <3>3. m = n \/ m \in 1..n - 1
      BY <1>1
    <3> QED
      BY <3>1, <3>2, <3>3
  <2> HIDE DEF p
  <2>6. Selects(r, p, s, texts, n)
    BY <2>2, <2>3, <2>4, <2>5 DEF Selects
  <2> QED
    BY <1>4, <2>6 DEF r
<1> QED
  BY <1>3, <1>4

\* The recursive function of Without exists, and its last value is a selection.
LEMMA WithoutSelects ==
  ASSUME NEW S, NEW s \in Seq(S), NEW texts
  PROVE  /\ Transcript!Without(s, texts) \in Seq(S)
         /\ \E p : Selects(Transcript!Without(s, texts), p, s, texts, Len(s))
<1> DEFINE Entry(n, g) == IF n = 0 THEN <<>>
                          ELSE IF Ours(s[n], texts) THEN g[n - 1] ELSE Append(g[n - 1], s[n])
           Table(g, n) == g = [m \in 0..n |-> Entry(m, g)]
<1>1. Len(s) \in Nat
  BY LenProperties
<1>2. Table([m \in 0..0 |-> <<>>], 0)
  OBVIOUS
<1>3. ASSUME NEW n \in 1..Len(s), NEW g, Table(g, n - 1)
      PROVE  Table([m \in 0..n |-> IF m = n THEN Entry(n, g) ELSE g[m]], n)
  <2> DEFINE h == [m \in 0..n |-> IF m = n THEN Entry(n, g) ELSE g[m]]
  <2>1. ASSUME NEW m \in 0..n
        PROVE  h[m] = Entry(m, h)
    <3>1. CASE m = 0
      <4>1. h[m] = g[m] /\ m \in 0..n - 1
        BY <1>1, <3>1
      <4>2. g[m] = Entry(m, g)
        BY <1>3, <4>1
      <4> QED
        BY <3>1, <4>1, <4>2
    <3>2. CASE m # 0 /\ m # n
      <4>1. h[m] = g[m] /\ m \in 0..n - 1 /\ h[m - 1] = g[m - 1]
        BY <1>1, <3>2
      <4>2. g[m] = Entry(m, g)
        BY <1>3, <4>1
      <4> HIDE DEF h
      <4> QED
        BY <3>2, <4>1, <4>2
    <3>3. CASE m = n
      <4>1. h[m] = Entry(n, g) /\ h[n - 1] = g[n - 1] /\ n # 0
        BY <1>1, <3>3
      <4> HIDE DEF h
      <4> QED
        BY <3>3, <4>1
    <3> QED
      BY <3>1, <3>2, <3>3
  <2>2. h = [m \in 0..n |-> h[m]]
    OBVIOUS
  <2> HIDE DEF h, Entry
  <2>3. Table(h, n)
    BY <2>1, <2>2
  <2> QED
    BY <2>3 DEF h
<1> DEFINE None == {n \in 0..Len(s) : ~\E g : Table(g, n)}
<1>4. None = {}
  <2> SUFFICES ASSUME None # {}
               PROVE  FALSE
    OBVIOUS
  <2>1. PICK n \in None : \A m \in None : n <= m
    <3>1. None \subseteq Nat
      BY <1>1
    <3> HIDE DEF None
    <3> QED
      BY <3>1, LeastOf
  <2> HIDE DEF Table
  <2>2. n # 0
    BY <1>2, <2>1
  <2>3. n \in 1..Len(s) /\ n - 1 \in 0..Len(s) /\ n - 1 \notin None
    BY <1>1, <2>1, <2>2
  <2>4. PICK g : Table(g, n - 1)
    BY <2>3
  <2> QED
    BY <1>3, <2>1, <2>3, <2>4
<1> DEFINE F == CHOOSE g : Table(g, Len(s))
<1>5. Table(F, Len(s))
  <2>1. \E g : Table(g, Len(s))
    <3> HIDE DEF Table
    <3> QED
      BY <1>1, <1>4
  <2> HIDE DEF Table
  <2> QED
    BY <2>1
<1>6. Transcript!Without(s, texts) = F[Len(s)]
  BY Zenon DEF Transcript!Without, Ours
<1> HIDE DEF F
<1>7. /\ F[0] = <<>>
      /\ \A n \in 1..Len(s) : F[n] = IF Ours(s[n], texts) THEN F[n - 1] ELSE Append(F[n - 1], s[n])
  <2>1. \A n \in 0..Len(s) : F[n] = Entry(n, F)
    <3> HIDE DEF Entry
    <3> QED
      BY <1>5
  <2>2. 0 \in 0..Len(s) /\ \A n \in 1..Len(s) : n \in 0..Len(s) /\ n # 0
    BY <1>1
  <2> QED
    BY <2>1, <2>2
<1> HIDE DEF Table, Entry
<1> DEFINE Chosen(n) == F[n] \in Seq(S) /\ \E p : Selects(F[n], p, s, texts, n)
           Not == {n \in 0..Len(s) : ~Chosen(n)}
<1>8. Chosen(0)
  <2>1. Len(F[0]) = 0 /\ F[0] \in Seq(S)
    BY <1>7, EmptySeq
  <2>2. Selects(F[0], [j \in 1..0 |-> 1], s, texts, 0)
    BY <2>1 DEF Selects
  <2> QED
    BY <2>1, <2>2
<1>9. ASSUME NEW n \in 1..Len(s), Chosen(n - 1)
      PROVE  Chosen(n)
  <2>1. PICK p : Selects(F[n - 1], p, s, texts, n - 1)
    BY <1>9
  <2>2. \E q : Selects(F[n], q, s, texts, n)
    <3>1. F[n - 1] \in Seq(S)
      BY <1>9
    <3> QED
      BY <1>7, <2>1, <3>1, SelectMore
  <2>3. F[n] \in Seq(S)
    <3>1. s[n] \in S
      BY ElementOfSeq
    <3> QED
      BY <1>7, <1>9, <3>1, AppendProperties
  <2> QED
    BY <2>2, <2>3
<1> HIDE DEF Chosen
<1>10. Not = {}
  <2> SUFFICES ASSUME Not # {}
               PROVE  FALSE
    OBVIOUS
  <2>1. PICK n \in Not : \A m \in Not : n <= m
    <3>1. Not \subseteq Nat
      BY <1>1
    <3> HIDE DEF Not
    <3> QED
      BY <3>1, LeastOf
  <2>2. n # 0
    BY <1>8, <2>1
  <2>3. n \in 1..Len(s) /\ n - 1 \in 0..Len(s) /\ n - 1 \notin Not
    BY <1>1, <2>1, <2>2
  <2> QED
    BY <1>9, <2>1, <2>3
<1>11. Chosen(Len(s))
  BY <1>1, <1>10
<1> QED
  BY <1>6, <1>11 DEF Chosen

-----------------------------------------------------------------------------
\* The numbers of copies within a sequence.

LEMMA CopiesAreNumbered ==
  ASSUME NEW u, NEW n \in Nat \ {0}
  PROVE  /\ Cardinality(Marks(u, u[n], n)) \in Nat \ {0}
         /\ \A i \in 1..n - 1 :
              u[i] = u[n] => Cardinality(Marks(u, u[i], i)) < Cardinality(Marks(u, u[n], n))
         /\ \/ Cardinality(Marks(u, u[n], n)) = 1
            \/ \E i \in 1..n - 1 :
                 u[i] = u[n] /\ Cardinality(Marks(u, u[i], i)) = Cardinality(Marks(u, u[n], n)) - 1
<1> DEFINE k == u[n]
           C(i) == Cardinality(Marks(u, k, i))
<1>1. \A i \in Nat : /\ C(i) \in Nat /\ IsFiniteSet(Marks(u, k, i)) /\ Marks(u, k, i) \subseteq 1..i
                     /\ i > 0 => C(i) = C(i - 1) + (IF u[i] = k THEN 1 ELSE 0)
  BY MarksCount
<1>2. C(n) = C(n - 1) + 1 /\ C(n - 1) \in Nat
  BY <1>1
<1>3. ASSUME NEW i \in 1..n - 1, u[i] = u[n]
      PROVE  Cardinality(Marks(u, u[i], i)) < C(n)
  <2>1. Marks(u, k, i) \subseteq Marks(u, k, n - 1)
    BY DEF Marks
  <2>2. IsFiniteSet(Marks(u, k, n - 1)) /\ C(i) \in Nat
    BY <1>1
  <2>3. C(i) <= C(n - 1)
    BY <2>1, <2>2, FS_Subset
  <2> QED
    BY <1>2, <1>3, <2>2, <2>3
<1>4. ASSUME C(n) # 1
      PROVE  \E i \in 1..n - 1 : u[i] = u[n] /\ Cardinality(Marks(u, u[i], i)) = C(n) - 1
  <2>1. Marks(u, k, n - 1) # {} /\ Marks(u, k, n - 1) \subseteq Nat /\ IsFiniteSet(Marks(u, k, n - 1))
    <3>1. n - 1 \in Nat
      OBVIOUS
    <3>2. IsFiniteSet(Marks(u, k, n - 1)) /\ Marks(u, k, n - 1) \subseteq 1..n - 1
      BY <1>1, <3>1
    <3>3. C(n - 1) # 0
      BY <1>2, <1>4
    <3> QED
      BY <3>2, <3>3, FS_EmptySet
  <2>2. PICK i \in Marks(u, k, n - 1) : \A m \in Marks(u, k, n - 1) : m <= i
    BY <2>1, BestOfFinite
  <2>3. i \in 1..n - 1 /\ u[i] = k
    BY <2>2 DEF Marks
  <2>4. Marks(u, k, n - 1) = Marks(u, k, i)
    BY <2>2, <2>3 DEF Marks
  <2> QED
    BY <1>2, <2>3, <2>4
<1> QED
  BY <1>1, <1>2, <1>3, <1>4

\* What follows the first m of t.
After(t, m) == [i \in 1..Len(t) - m |-> t[m + i]]

LEMMA IdsAre ==
  ASSUME NEW t \in Seq(Line), NEW s \in Seq(Line), NEW m \in 0..Len(t)
  PROVE  LET ids == Transcript!Ids(t, s, m)
         IN  /\ ids \in Seq(Transcript!Row) /\ Len(ids) = Len(t) - m
             /\ \A n \in 1..Len(ids) :
                  /\ Transcript!Key(ids[n]) = t[m + n] /\ ids[n].id = "read"
                  /\ ids[n].nth = Transcript!Copies(s, t[m + n])
                                    + Cardinality(Marks(After(t, m), After(t, m)[n], n))
<1> DEFINE count == Len(t) - m
           u == After(t, m)
           e(n) == LET k == t[m + n]
                   IN  [side |-> k.side, text |-> k.text, id |-> "read",
                        nth |-> Transcript!Copies(s, k) + Transcript!Copies(SubSeq(t, m + 1, m + n), k)]
<1>1. Len(t) \in Nat /\ m \in Nat /\ count \in Nat
  BY LenProperties
<1>2. ASSUME NEW n \in 1..count
      PROVE  /\ t[m + n] \in Line /\ t[m + n] = u[n]
             /\ Transcript!Copies(SubSeq(t, m + 1, m + n), t[m + n]) = Cardinality(Marks(u, u[n], n))
             /\ Transcript!Copies(s, t[m + n]) \in Nat
  <2>1. m + n \in 1..Len(t)
    BY <1>1
  <2>2. t[m + n] \in Line
    BY <2>1, ElementOfSeq
  <2>3. t[m + n] = u[n]
    BY <1>1 DEF After
  <2> DEFINE sub == SubSeq(t, m + 1, m + n)
  <2>4. /\ sub \in Seq(Line) /\ Len(sub) = n
        /\ \A i \in 1..n : sub[i] = t[m + i]
    <3>1. \A i \in m + 1..m + n : t[i] \in Line
      <4>1. \A i \in m + 1..m + n : i \in 1..Len(t)
        BY <1>1
      <4> QED
        BY <4>1, ElementOfSeq
    <3>2. /\ sub \in Seq(Line)
          /\ Len(sub) = IF m + 1 <= m + n THEN (m + n) - (m + 1) + 1 ELSE 0
          /\ \A i \in 1..(m + n) - (m + 1) + 1 : sub[i] = t[(m + 1) + i - 1]
      <4>1. m + 1 \in Int /\ m + n \in Int
        BY <1>1
      <4> QED
        BY <3>1, <4>1, SubSeqProperties
    <3> QED
      BY <1>1, <3>2
  <2>5. \A i \in 1..n : sub[i] = u[i]
    BY <1>1, <2>4 DEF After
  <2>6. Transcript!Copies(sub, t[m + n]) = Cardinality(Marks(sub, t[m + n], n))
    BY <2>4, CopiesAreMarks
  <2>7. Marks(sub, t[m + n], n) = Marks(u, t[m + n], n)
    <3> HIDE DEF sub, u
    <3> QED
      BY <2>5, SameMarks
  <2> QED
    BY <2>2, <2>3, <2>6, <2>7, CopiesAreMarks
<1>3. ASSUME NEW n \in 1..count
      PROVE  /\ e(n) \in Transcript!Row /\ Transcript!Key(e(n)) = t[m + n] /\ e(n).id = "read"
             /\ e(n).nth = Transcript!Copies(s, t[m + n]) + Cardinality(Marks(u, u[n], n))
  <2>1. Cardinality(Marks(u, u[n], n)) \in Nat
    <3> HIDE DEF u
    <3> QED
      BY MarksCount
  <2> HIDE DEF u
  <2> QED
    BY <1>2, <2>1 DEF Transcript!Row, Transcript!Key, Line
<1>4. Transcript!Ids(t, s, m) = [n \in 1..count |-> e(n)]
  BY DEF Transcript!Ids
<1> HIDE DEF e, u
<1>5. /\ [n \in 1..count |-> e(n)] \in Seq(Transcript!Row)
      /\ Len([n \in 1..count |-> e(n)]) = count
  BY <1>1, <1>3
<1> QED
  BY <1>3, <1>4, <1>5 DEF u

\* The overlap is the longest run that ends s and opens t.
LEMMA OverlapIs ==
  ASSUME NEW t \in Seq(Line), NEW s \in Seq(Line)
  PROVE  LET m == Transcript!Overlap(t, s)
             most == Transcript!Least(Len(t), Len(s))
         IN  /\ m \in 0..most /\ most <= Len(t) /\ most <= Len(s)
             /\ \A i \in 1..m : s[Len(s) - m + i] = t[i]
             /\ \A c \in 0..most : (\A i \in 1..c : s[Len(s) - c + i] = t[i]) => c <= m
<1> DEFINE most == Transcript!Least(Len(t), Len(s))
           Meets(c) == Transcript!LastOf(s, c) = Transcript!FirstOf(t, c)
           runs == {c \in 0..most : Meets(c)}
<1>1. Len(t) \in Nat /\ Len(s) \in Nat
  BY LenProperties
<1>2. most \in Nat /\ most <= Len(t) /\ most <= Len(s)
  BY <1>1 DEF Transcript!Least
<1> HIDE DEF most
<1>3. ASSUME NEW c \in 0..most
      PROVE  Meets(c) <=> \A i \in 1..c : s[Len(s) - c + i] = t[i]
  <2> DEFINE left == Transcript!LastOf(s, c)
             right == Transcript!FirstOf(t, c)
  <2>1. c \in Nat /\ c <= Len(t) /\ c <= Len(s)
    BY <1>1, <1>2
  <2>2. left \in Seq(Line) /\ Len(left) = c /\ \A i \in 1..c : left[i] = s[Len(s) - c + i]
    <3> DEFINE from == Len(s) - c + 1
    <3>1. from \in Int /\ Len(s) \in Int /\ from >= 1
      BY <1>1, <2>1
    <3>2. \A i \in from..Len(s) : s[i] \in Line
      BY <3>1, ElementOfSeq
    <3> HIDE DEF from
    <3>3. /\ SubSeq(s, from, Len(s)) \in Seq(Line)
          /\ Len(SubSeq(s, from, Len(s))) = IF from <= Len(s) THEN Len(s) - from + 1 ELSE 0
          /\ \A i \in 1..Len(s) - from + 1 : SubSeq(s, from, Len(s))[i] = s[from + i - 1]
      BY <3>1, <3>2, SubSeqProperties
    <3>4. left = SubSeq(s, from, Len(s))
      BY DEF Transcript!LastOf, from
    <3> QED
      BY <1>1, <2>1, <3>3, <3>4 DEF from
  <2>3. right \in Seq(Line) /\ Len(right) = c /\ \A i \in 1..c : right[i] = t[i]
    <3>1. \A i \in 1..c : t[i] \in Line
      BY <1>1, <2>1, ElementOfSeq
    <3>2. /\ SubSeq(t, 1, c) \in Seq(Line)
          /\ Len(SubSeq(t, 1, c)) = IF 1 <= c THEN c - 1 + 1 ELSE 0
          /\ \A i \in 1..c - 1 + 1 : SubSeq(t, 1, c)[i] = t[1 + i - 1]
      BY <2>1, <3>1, SubSeqProperties
    <3> QED
      BY <2>1, <3>2 DEF Transcript!FirstOf
  <2> HIDE DEF left, right
  <2>4. left = right <=> \A i \in 1..c : s[Len(s) - c + i] = t[i]
    <3>1. ASSUME \A i \in 1..c : s[Len(s) - c + i] = t[i]
          PROVE  left = right
      <4>1. \A i \in 1..Len(left) : left[i] = right[i]
        BY <2>2, <2>3, <3>1
      <4> QED
        BY <2>2, <2>3, <4>1, SeqEqual
    <3> QED
      BY <2>2, <2>3, <3>1
  <2> QED
    BY <2>4 DEF left, right
<1> HIDE DEF Meets
<1>4. 0 \in runs
  BY <1>2, <1>3
<1>5. runs \subseteq Nat /\ IsFiniteSet(runs)
  <2>1. IsFiniteSet(0..most)
    BY <1>2, FS_Interval
  <2>2. runs \subseteq 0..most
    OBVIOUS
  <2> QED
    BY <1>2, <2>1, <2>2, FS_Subset
<1>6. \E x \in runs : \A y \in runs : y <= x
  BY <1>4, <1>5, BestOfFinite
<1>7. Transcript!Overlap(t, s) = Transcript!Max(runs)
  BY DEF Transcript!Overlap, most, Meets
<1> HIDE DEF runs
<1>8. \E x \in runs : \A y \in runs : x >= y
  BY <1>5, <1>6
<1>9. Transcript!Max(runs) \in runs /\ \A y \in runs : Transcript!Max(runs) >= y
  BY <1>8, Zenon DEF Transcript!Max
<1> DEFINE m == Transcript!Overlap(t, s)
<1>10. m \in 0..most /\ Meets(m) /\ \A y \in runs : m >= y
  BY <1>7, <1>9 DEF runs
<1> HIDE DEF m
<1>11. \A c \in 0..most : (\A i \in 1..c : s[Len(s) - c + i] = t[i]) => c <= m
  <2> SUFFICES ASSUME NEW c \in 0..most, \A i \in 1..c : s[Len(s) - c + i] = t[i]
               PROVE  c <= m
    OBVIOUS
  <2>1. c \in runs
    BY <1>3 DEF runs
  <2> QED
    BY <1>2, <1>10, <2>1
<1>12. \A i \in 1..m : s[Len(s) - m + i] = t[i]
  BY <1>3, <1>10
<1> QED
  BY <1>2, <1>10, <1>11, <1>12 DEF m, most

\* One more row: its own text has one more copy, the others as many as before.
LEMMA RowAppended ==
  ASSUME NEW s \in Seq(Transcript!Row), NEW r \in Transcript!Row, NEW t, t = Append(s, r)
  PROVE  /\ t \in Seq(Transcript!Row) /\ Len(t) = Len(s) + 1 /\ Len(s) \in Nat
         /\ DOMAIN s = 1..Len(s) /\ DOMAIN t = 1..Len(s) + 1
         /\ \A i \in 1..Len(s) : t[i] = s[i] /\ s[i] \in Transcript!Row
         /\ t[Len(s) + 1] = r
<1>1. /\ t \in Seq(Transcript!Row) /\ Len(t) = Len(s) + 1 /\ Len(s) \in Nat
      /\ \A i \in 1..Len(s) : t[i] = s[i]
      /\ t[Len(s) + 1] = r
  BY AppendProperties, LenProperties
<1>2. DOMAIN s = 1..Len(s) /\ DOMAIN t = 1..Len(s) + 1 /\ \A i \in 1..Len(s) : s[i] \in Transcript!Row
  BY <1>1, LenProperties, ElementOfSeq
<1> QED
  BY <1>1, <1>2

Count(s, k) == Transcript!Copies(Transcript!Keys(s), k)

LEMMA CountAppended ==
  ASSUME NEW s \in Seq(Transcript!Row), NEW r \in Transcript!Row, NEW t, t = Append(s, r), NEW k
  PROVE  /\ Count(s, k) \in Nat /\ Count(t, k) \in Nat /\ Count(s, k) <= Count(t, k)
         /\ Count(t, Transcript!Key(r)) = Count(s, Transcript!Key(r)) + 1
<1>1. Transcript!Keys(s) \in Seq(Line) /\ Transcript!Key(r) \in Line
  BY KeysAre, LinesAre
<1>2. Transcript!Keys(t) = Append(Transcript!Keys(s), Transcript!Key(r))
  BY KeysAppend
<1>3. Count(s, k) \in Nat
  BY <1>1, CopiesAreMarks DEF Count
<1>4. Count(t, k) = Count(s, k) + (IF Transcript!Key(r) = k THEN 1 ELSE 0)
  BY <1>1, <1>2, CopiesAppend DEF Count
<1>5. Count(t, Transcript!Key(r)) = Count(s, Transcript!Key(r)) + 1
  BY <1>1, <1>2, CopiesAppend DEF Count
<1> QED
  BY <1>3, <1>4, <1>5

\* The row of a committed reply carries its send's id and disturbs no number.
LEMMA TranscriptFold ==
  ASSUME Transcript!Shapes, Transcript!NumberedWithin, Transcript!FreshIsNext, NEW i \in Pair, Transcript!Fold(i), v12' = v12
  PROVE  v3' \in Seq(Transcript!Row) /\ Transcript!NumberedWithin' /\ Transcript!FreshIsNext'
<1> DEFINE r == [side |-> "out", text |-> v4[i], id |-> i, nth |-> 0]
<1>1. v3 \in Seq(Transcript!Row) /\ v4[i] \in Answers /\ i # "read" /\ v12 \in Seq(Transcript!Row)
  BY RecordsAssumption DEF Transcript!Shapes, RecordsAssumption, Transcript!TailAssumption
<1>2. r \in Transcript!Row /\ r.id = i
  BY <1>1 DEF Transcript!Row
<1>3. CASE \E n \in DOMAIN v3 : v3[n].id = i
  <2>1. v3' = v3
    BY <1>3 DEF Transcript!Fold
  <2> QED
    BY <1>1, <2>1 DEF Transcript!NumberedWithin, Transcript!FreshIsNext
<1>4. CASE ~\E n \in DOMAIN v3 : v3[n].id = i
  <2>1. v3' = Append(v3, r)
    BY <1>4 DEF Transcript!Fold
  <2> HIDE DEF r
  <2>2. /\ v3' \in Seq(Transcript!Row) /\ Len(v3') = Len(v3) + 1 /\ Len(v3) \in Nat
        /\ DOMAIN v3 = 1..Len(v3) /\ DOMAIN v3' = 1..Len(v3) + 1
        /\ \A n \in 1..Len(v3) : v3'[n] = v3[n] /\ v3[n] \in Transcript!Row
        /\ v3'[Len(v3) + 1] = r
    BY <1>1, <1>2, <2>1, RowAppended
  <2>3. ASSUME NEW k
        PROVE  Count(v3, k) \in Nat /\ Count(v3', k) \in Nat /\ Count(v3, k) <= Count(v3', k)
    BY <1>1, <1>2, <2>1, CountAppended
  <2>4. Transcript!NumberedWithin'
    <3>1. ASSUME NEW n \in DOMAIN v3', v3'[n].id = "read"
          PROVE  v3'[n].nth <= Count(v3', Transcript!Key(v3'[n]))
      <4>1. n \in 1..Len(v3) /\ v3'[n] = v3[n]
        BY <1>1, <1>2, <2>2, <3>1
      <4>2. v3[n].nth <= Count(v3, Transcript!Key(v3[n])) /\ v3[n].nth \in Nat
        BY <2>2, <3>1, <4>1 DEF Transcript!NumberedWithin, Count, Transcript!Row
      <4> QED
        BY <2>3, <4>1, <4>2
    <3>2. ASSUME NEW m \in DOMAIN v3', NEW n \in DOMAIN v3', v3'[m] = v3'[n]
          PROVE  m = n
      <4>1. \A l \in 1..Len(v3) : v3'[l] # r
        BY <1>2, <1>4, <2>2
      <4>2. \A l \in DOMAIN v3' : l = Len(v3) + 1 \/ l \in 1..Len(v3)
        BY <2>2
      <4>3. CASE m \in 1..Len(v3) /\ n \in 1..Len(v3)
        BY <2>2, <3>2, <4>3 DEF Transcript!NumberedWithin
      <4> QED
        BY <2>2, <3>2, <4>1, <4>2, <4>3
    <3> QED
      BY <3>1, <3>2 DEF Transcript!NumberedWithin, Count
  <2>5. Transcript!FreshIsNext'
    <3> SUFFICES ASSUME NEW j \in DOMAIN v12
                 PROVE  /\ v12[j].id = "read" /\ v12[j].nth > 0
                        /\ \A n \in DOMAIN v3' :
                             v3'[n].id = "read" /\ Transcript!Key(v3'[n]) = Transcript!Key(v12[j]) => v3'[n].nth < v12[j].nth
                        /\ \A h \in 1..j - 1 : Transcript!Key(v12[h]) = Transcript!Key(v12[j]) => v12[h].nth < v12[j].nth
                        /\ \/ v12[j].nth - 1 <= Count(v3', Transcript!Key(v12[j]))
                           \/ \E h \in 1..j - 1 : Transcript!Key(v12[h]) = Transcript!Key(v12[j]) /\ v12[h].nth = v12[j].nth - 1
      BY DEF Transcript!FreshIsNext, Count
    <3>1. /\ v12[j].id = "read" /\ v12[j].nth > 0
          /\ \A n \in DOMAIN v3 :
               v3[n].id = "read" /\ Transcript!Key(v3[n]) = Transcript!Key(v12[j]) => v3[n].nth < v12[j].nth
          /\ \A h \in 1..j - 1 : Transcript!Key(v12[h]) = Transcript!Key(v12[j]) => v12[h].nth < v12[j].nth
          /\ \/ v12[j].nth - 1 <= Count(v3, Transcript!Key(v12[j]))
             \/ \E h \in 1..j - 1 : Transcript!Key(v12[h]) = Transcript!Key(v12[j]) /\ v12[h].nth = v12[j].nth - 1
      BY DEF Transcript!FreshIsNext, Count
    <3>2. v12[j].nth \in Nat
      <4>1. v12[j] \in Transcript!Row
        BY <1>1, LenProperties, ElementOfSeq
      <4> QED
        BY <4>1 DEF Transcript!Row
    <3>3. \A n \in DOMAIN v3' :
             v3'[n].id = "read" /\ Transcript!Key(v3'[n]) = Transcript!Key(v12[j]) => v3'[n].nth < v12[j].nth
      <4> SUFFICES ASSUME NEW n \in DOMAIN v3', v3'[n].id = "read", Transcript!Key(v3'[n]) = Transcript!Key(v12[j])
                   PROVE  v3'[n].nth < v12[j].nth
        OBVIOUS
      <4>1. n \in 1..Len(v3) /\ v3'[n] = v3[n]
        BY <1>1, <1>2, <2>2
      <4> QED
        BY <2>2, <3>1, <4>1
    <3>4. v12[j].nth - 1 <= Count(v3, Transcript!Key(v12[j])) => v12[j].nth - 1 <= Count(v3', Transcript!Key(v12[j]))
      BY <2>3, <3>2
    <3> QED
      BY <3>1, <3>3, <3>4
  <2> QED
    BY <2>2, <2>4, <2>5
<1> QED
  BY <1>3, <1>4

LEMMA TranscriptInit ==
  ASSUME Transcript!Init
  PROVE  Transcript!IInv
<1>1. PICK t \in Pair : /\ v1 = <<[side |-> "in", text |-> t]>>
                        /\ v3 = <<[side |-> "in", text |-> t, id |-> "read", nth |-> 1]>>
  BY DEF Transcript!Init
<1> DEFINE r == [side |-> "in", text |-> t, id |-> "read", nth |-> 1]
           b == [side |-> "in", text |-> t]
<1>2. r \in Transcript!Row /\ b \in Transcript!Bubble /\ r.id = "read" /\ r.nth = 1 /\ Transcript!Key(r) = b
  BY DEF Transcript!Row, Transcript!Bubble, Transcript!Key
<1> HIDE DEF r
<1>3. /\ v3 \in Seq(Transcript!Row) /\ v1 \in Seq(Transcript!Bubble) /\ Len(v1) = 1 /\ v1 # <<>>
      /\ DOMAIN v3 = {1} /\ v3[1] = r /\ v3 = Append(<<>>, r)
  BY <1>1, <1>2 DEF r
<1>4. Count(v3, Transcript!Key(r)) \in Nat /\ Count(v3, Transcript!Key(r)) >= 1
  <2>1. <<>> \in Seq(Transcript!Row)
    BY EmptySeq
  <2> DEFINE none == <<>>
             k == Transcript!Key(r)
  <2>2. none \in Seq(Transcript!Row) /\ v3 = Append(none, r)
    BY <1>3, <2>1
  <2> HIDE DEF none, k
  <2>3. Transcript!Key(r) = k /\ r \in Transcript!Row
    BY <1>2 DEF k
  <2>4. Count(none, k) \in Nat
    BY <2>2, <2>3, CountAppended
  <2>5. Count(v3, Transcript!Key(r)) = Count(none, Transcript!Key(r)) + 1
    BY <2>2, <2>3, CountAppended
  <2> QED
    BY <2>3, <2>4, <2>5
<1>5. Transcript!NumberedWithin
  BY <1>2, <1>3, <1>4 DEF Transcript!NumberedWithin, Count
<1>6. Transcript!Shapes /\ Transcript!FreshIsNext /\ Transcript!TailIsPage /\ Transcript!LastIsLast
  <2>1. /\ v2 = FALSE /\ v4 \in [Pair -> Answers] /\ v5 = [i \in Pair |-> "none"]
        /\ v6 = [i \in Pair |-> 0] /\ v7 = [i \in Pair |-> FALSE] /\ v8 = "idle" /\ v9 = <<>>
        /\ v10 = {} /\ v11 = {} /\ v12 = <<>> /\ v13 = FALSE /\ v14 = 1
    BY DEF Transcript!Init
  <2>2. MaxLooks \in Nat /\ Cap \in Nat
    BY RecordsAssumption DEF RecordsAssumption, Transcript!TailAssumption
  <2>3. <<>> \in Seq(Transcript!Row) /\ <<>> \in Seq(Transcript!Bubble) /\ Len(<<>>) = 0 /\ DOMAIN <<>> = {}
    OBVIOUS
  <2>4. /\ v5 \in [Pair -> Transcript!Unsettled \cup {"none", "committed"}]
        /\ v6 \in [Pair -> 0..MaxLooks] /\ v7 \in [Pair -> BOOLEAN]
    BY <2>1, <2>2 DEF Transcript!Unsettled
  <2>5. /\ v9 \in Seq(Transcript!Bubble) /\ Len(v9) <= Cap /\ v14 \in 0..Len(v1)
        /\ v12 \in Seq(Transcript!Row) /\ v10 \subseteq Pair /\ v11 \subseteq Answers
        /\ \A i \in v10 : v6[i] < MaxLooks
    BY <1>3, <2>1, <2>2, <2>3
  <2>6. Transcript!Shapes
    BY <1>3, <2>1, <2>4, <2>5, Zenon DEF Transcript!Shapes
  <2> QED
    BY <2>1, <2>3, <2>6 DEF Transcript!FreshIsNext, Transcript!TailIsPage, Transcript!LastIsLast
<1> QED
  BY <1>5, <1>6 DEF Transcript!IInv

\* A buyer writes, the seller types, the page takes a send.
LEMMA TranscriptTalk ==
  ASSUME Transcript!IInv,
         \/ \E t \in Pair : Transcript!BuyerWrites(t)
         \/ \E t \in Answers : Transcript!SellerTypes(t)
         \/ \E i \in Pair : Transcript!PageTakes(i)
  PROVE  Transcript!IInv'
<1>1. \E b \in Transcript!Bubble : v1' = Append(v1, b)
  BY DEF Transcript!BuyerWrites, Transcript!SellerTypes, Transcript!PageTakes, Transcript!Bubble,
         Transcript!IInv, Transcript!Shapes
<1>2. /\ UNCHANGED <<v3, v4, v6, v8, v9, v10, v11, v12, v13, v14>> /\ v2' \in BOOLEAN
      /\ v5' \in [Pair -> Transcript!Unsettled \cup {"none", "committed"}]
      /\ v7' \in [Pair -> BOOLEAN]
  BY DEF Transcript!BuyerWrites, Transcript!SellerTypes, Transcript!PageTakes, Transcript!sendVars,
         Transcript!readVars, Transcript!IInv, Transcript!Shapes, Transcript!Unsettled
<1>3. /\ v1' \in Seq(Transcript!Bubble) /\ v1' # <<>> /\ Len(v1') = Len(v1) + 1 /\ Len(v1) \in Nat
      /\ \A n \in 1..Len(v1) : v1'[n] = v1[n]
  BY <1>1, AppendProperties, LenProperties DEF Transcript!IInv, Transcript!Shapes
<1>4. Transcript!Shapes'
  BY <1>2, <1>3 DEF Transcript!IInv, Transcript!Shapes
<1>5. Transcript!NumberedWithin' /\ Transcript!FreshIsNext' /\ Transcript!LastIsLast'
  BY <1>2 DEF Transcript!IInv, Transcript!NumberedWithin, Transcript!FreshIsNext, Transcript!LastIsLast
<1>6. Transcript!TailIsPage'
  <2> SUFFICES ASSUME v8 # "idle"
               PROVE  /\ v14 \in 1..Len(v1') /\ Len(v9) = Transcript!Least(v14, Cap)
                      /\ \A n \in 1..Len(v9) : v9[n] = v1'[v14 - Len(v9) + n]
    BY <1>2 DEF Transcript!TailIsPage
  <2>1. /\ v14 \in 1..Len(v1) /\ Len(v9) = Transcript!Least(v14, Cap)
        /\ \A n \in 1..Len(v9) : v9[n] = v1[v14 - Len(v9) + n]
    BY DEF Transcript!TailIsPage, Transcript!IInv
  <2>2. Cap \in Nat
    BY RecordsAssumption DEF RecordsAssumption, Transcript!TailAssumption
  <2>3. \A n \in 1..Len(v9) : v14 - Len(v9) + n \in 1..Len(v1)
    BY <1>3, <2>1, <2>2 DEF Transcript!Least
  <2> QED
    BY <1>3, <2>1, <2>3
<1> QED
  BY <1>4, <1>5, <1>6 DEF Transcript!IInv

\* The seller looks, a send is reserved or given up, the daemon dies.
LEMMA TranscriptAround ==
  ASSUME Transcript!IInv,
         \/ Transcript!SellerLooks
         \/ \E i \in Pair : Transcript!Reserve(i) \/ Transcript!GiveUp(i)
         \/ Transcript!Crash
  PROVE  Transcript!IInv'
<1>1. /\ UNCHANGED <<v1, v3, v4, v6, v9, v11, v13, v14>> /\ v2' \in BOOLEAN
      /\ v5' \in [Pair -> Transcript!Unsettled \cup {"none", "committed"}]
      /\ v7' \in [Pair -> BOOLEAN]
      /\ UNCHANGED <<v8, v10, v12>> \/ (v8' = "idle" /\ v10' = {} /\ v12' = <<>>)
  BY DEF Transcript!SellerLooks, Transcript!Reserve, Transcript!GiveUp, Transcript!Crash, Transcript!sendVars,
         Transcript!readVars, Transcript!IInv, Transcript!Shapes, Transcript!Unsettled
<1>2. CASE UNCHANGED <<v8, v10, v12>>
  BY <1>1, <1>2 DEF Transcript!IInv, Transcript!Shapes, Transcript!NumberedWithin, Transcript!FreshIsNext,
                    Transcript!TailIsPage, Transcript!LastIsLast
<1>3. CASE v8' = "idle" /\ v10' = {} /\ v12' = <<>>
  <2>1. <<>> \in Seq(Transcript!Row) /\ DOMAIN <<>> = {}
    OBVIOUS
  <2> QED
    BY <1>1, <1>3, <2>1 DEF Transcript!IInv, Transcript!Shapes, Transcript!NumberedWithin,
       Transcript!FreshIsNext, Transcript!TailIsPage, Transcript!LastIsLast
<1> QED
  BY <1>1, <1>2, <1>3

\* A caller commits its send, or the read settles it or looks for it in vain.
LEMMA TranscriptCommits ==
  ASSUME Transcript!IInv, \E i \in Pair : Transcript!Commit(i) \/ Transcript!Settle(i)
  PROVE  Transcript!IInv'
<1>1. PICK i \in Pair : Transcript!Commit(i) \/ Transcript!Settle(i)
  OBVIOUS
<1>2. /\ UNCHANGED <<v1, v2, v4, v8, v9, v12, v13, v14>>
      /\ UNCHANGED v3 \/ Transcript!Fold(i)
      /\ (v10' \subseteq v10 /\ v11' \subseteq Answers /\ v8 = "settle") \/ UNCHANGED <<v10, v11>>
  BY <1>1 DEF Transcript!Commit, Transcript!Settle, Transcript!IInv, Transcript!Shapes, Transcript!readVars
<1>3. /\ v5' \in [Pair -> Transcript!Unsettled \cup {"none", "committed"}]
      /\ v7' \in [Pair -> BOOLEAN]
      /\ v6' \in [Pair -> 0..MaxLooks] /\ \A j \in v10' : v6'[j] < MaxLooks
  <2>1. MaxLooks \in Nat
    BY RecordsAssumption DEF RecordsAssumption, Transcript!TailAssumption
  <2>2. CASE Transcript!Commit(i)
    BY <2>2 DEF Transcript!Commit, Transcript!IInv, Transcript!Shapes, Transcript!Unsettled, Transcript!readVars
  <2>3. CASE Transcript!Settle(i)
    <3>1. v10' = v10 \ {i} /\ i \in v10 /\ v7' = v7
      BY <2>3 DEF Transcript!Settle
    <3>2. \/ UNCHANGED v6
          \/ v6' = [v6 EXCEPT ![i] = v6[i] + 1]
      BY <2>3 DEF Transcript!Settle, Transcript!IInv, Transcript!Shapes
    <3>3. UNCHANGED v5 \/ v5' = [v5 EXCEPT ![i] = "committed"]
      BY <2>3 DEF Transcript!Settle
    <3>4. v6[i] \in 0..MaxLooks /\ v6[i] < MaxLooks
      BY <3>1 DEF Transcript!IInv, Transcript!Shapes
    <3>5. /\ v6 \in [Pair -> 0..MaxLooks] /\ v7 \in [Pair -> BOOLEAN] /\ \A j \in v10 : v6[j] < MaxLooks
          /\ v5 \in [Pair -> Transcript!Unsettled \cup {"none", "committed"}]
      BY DEF Transcript!IInv, Transcript!Shapes
    <3>6. v6[i] + 1 \in 0..MaxLooks
      BY <2>1, <3>4
    <3>7. v6' \in [Pair -> 0..MaxLooks] /\ \A j \in v10' : v6'[j] < MaxLooks
      <4>1. CASE UNCHANGED v6
        BY <3>1, <3>5, <4>1
      <4>2. CASE v6' = [v6 EXCEPT ![i] = v6[i] + 1]
        BY <3>1, <3>5, <3>6, <4>2
      <4> QED
        BY <3>2, <4>1, <4>2
    <3>8. v5' \in [Pair -> Transcript!Unsettled \cup {"none", "committed"}]
      BY <1>1, <3>3, <3>5
    <3> QED
      BY <3>1, <3>5, <3>7, <3>8
  <2> QED
    BY <1>1, <2>2, <2>3
<1>4. v3' \in Seq(Transcript!Row) /\ Transcript!NumberedWithin' /\ Transcript!FreshIsNext'
  <2>1. CASE UNCHANGED v3
    BY <1>2, <2>1 DEF Transcript!IInv, Transcript!Shapes, Transcript!NumberedWithin, Transcript!FreshIsNext
  <2>2. CASE Transcript!Fold(i)
    BY <1>2, <2>2, TranscriptFold DEF Transcript!IInv
  <2> QED
    BY <1>2, <2>1, <2>2
<1>5. Transcript!Shapes'
  BY <1>2, <1>3, <1>4 DEF Transcript!IInv, Transcript!Shapes
<1>6. Transcript!TailIsPage' /\ Transcript!LastIsLast'
  BY <1>2 DEF Transcript!IInv, Transcript!TailIsPage, Transcript!LastIsLast
<1> QED
  BY <1>4, <1>5, <1>6 DEF Transcript!IInv

\* What is read is the end of the page.
LEMMA TranscriptRead ==
  ASSUME Transcript!IInv, Transcript!Read
  PROVE  Transcript!IInv'
<1> DEFINE n == Transcript!Least(Len(v1), Cap)
           from == Len(v1) - n + 1
<1>1. Cap \in Nat \ {0} /\ MaxLooks \in Nat
  BY RecordsAssumption DEF RecordsAssumption, Transcript!TailAssumption
<1>2. v1 \in Seq(Transcript!Bubble) /\ Len(v1) \in Nat \ {0}
  BY EmptySeq DEF Transcript!IInv, Transcript!Shapes
<1>3. n \in 1..Len(v1) /\ n <= Cap /\ from \in 1..Len(v1)
  BY <1>1, <1>2 DEF Transcript!Least
<1>4. v9' = SubSeq(v1, from, Len(v1))
  BY DEF Transcript!Read, Transcript!ClassifyTail, Transcript!LastOf
<1>5. /\ UNCHANGED <<v1, v3, v4, v5, v6, v7, v12>> /\ v2' = FALSE /\ v8 = "idle" /\ v8' = "settle"
      /\ v10' = {i \in Pair : v5[i] \in Transcript!Unsettled /\ v6[i] < MaxLooks}
      /\ v11' = {} /\ v13' = v2 /\ v14' = Len(v1)
  BY DEF Transcript!Read, Transcript!sendVars
<1> HIDE DEF n
<1>6. /\ v9' \in Seq(Transcript!Bubble) /\ Len(v9') = n
      /\ \A i \in 1..n : v9'[i] = v1[Len(v1) - n + i]
  <2>1. \A i \in from..Len(v1) : v1[i] \in Transcript!Bubble
    BY <1>2, <1>3, ElementOfSeq
  <2>2. from \in Int /\ Len(v1) \in Int
    BY <1>2, <1>3
  <2> HIDE DEF from
  <2>3. /\ SubSeq(v1, from, Len(v1)) \in Seq(Transcript!Bubble)
        /\ Len(SubSeq(v1, from, Len(v1))) = IF from <= Len(v1) THEN Len(v1) - from + 1 ELSE 0
        /\ \A i \in 1..Len(v1) - from + 1 : SubSeq(v1, from, Len(v1))[i] = v1[from + i - 1]
    BY <2>1, <2>2, SubSeqProperties
  <2> QED
    BY <1>2, <1>3, <1>4, <2>3 DEF from
<1>7. Transcript!Shapes'
  <2>1. v10' \subseteq Pair /\ \A i \in v10' : v6'[i] < MaxLooks
    BY <1>5
  <2>2. v14' \in 0..Len(v1') /\ Len(v9') <= Cap /\ v13' \in BOOLEAN /\ v11' \subseteq Answers /\ v2' \in BOOLEAN
    <3>1. v13' = v2 /\ v2' = FALSE /\ v11' = {} /\ v14' = Len(v1) /\ v1' = v1 /\ v2 \in BOOLEAN
      BY <1>5 DEF Transcript!IInv, Transcript!Shapes
    <3>2. Len(v9') <= Cap
      BY <1>3, <1>6
    <3>3. Len(v1') = Len(v1)
      BY <3>1, Zenon
    <3>4. v14' \in 0..Len(v1')
      BY <1>2, <3>1, <3>3
    <3>5. v13' \in BOOLEAN /\ v11' \subseteq Answers /\ v2' \in BOOLEAN
      BY <3>1
    <3> QED
      BY <3>2, <3>4, <3>5
  <2> QED
    BY <1>5, <1>6, <2>1, <2>2 DEF Transcript!IInv, Transcript!Shapes
<1>8. Transcript!TailIsPage'
  BY <1>2, <1>5, <1>6 DEF Transcript!TailIsPage, n
<1>9. Transcript!NumberedWithin' /\ Transcript!FreshIsNext' /\ Transcript!LastIsLast'
  BY <1>5 DEF Transcript!IInv, Transcript!NumberedWithin, Transcript!FreshIsNext, Transcript!LastIsLast
<1> QED
  BY <1>7, <1>8, <1>9 DEF Transcript!IInv

\* What Align makes of the tail: the rows after the overlap, numbered, but for
\* our own which the same read settled.
Dropped(k) == k.side = "out" /\ k.text \in v11
Numbered(q, place, m) ==
  LET u == After(v9, m)
  IN  /\ m \in 0..Len(v9) /\ place \in [1..Len(q) -> 1..Len(v9) - m]
      /\ \A j \in 1..Len(q) :
           /\ Transcript!Key(q[j]) = u[place[j]] /\ q[j].id = "read" /\ ~Dropped(u[place[j]])
           /\ q[j].nth = Count(v3, u[place[j]]) + Cardinality(Marks(u, u[place[j]], place[j]))
      /\ \A i, j \in 1..Len(q) : i < j => place[i] < place[j]
      /\ \A n \in 1..Len(v9) - m : ~Dropped(u[n]) => \E j \in 1..Len(q) : place[j] = n

LEMMA TailLines ==
  ASSUME Transcript!Shapes
  PROVE  /\ v9 \in Seq(Line) /\ v1 \in Seq(Line) /\ Transcript!Keys(v3) \in Seq(Line)
         /\ Len(Transcript!Keys(v3)) = Len(v3) /\ Len(v3) \in Nat /\ Len(v9) \in Nat
         /\ \A n \in 1..Len(v3) : Transcript!Keys(v3)[n] = Transcript!Key(v3[n])
<1>1. v9 \in Seq(Transcript!Bubble) /\ v1 \in Seq(Transcript!Bubble) /\ v3 \in Seq(Transcript!Row)
  BY DEF Transcript!Shapes
<1>2. v9 \in Seq(Line) /\ v1 \in Seq(Line)
  BY <1>1, LinesAre, SeqMonotonic
<1> QED
  BY <1>1, <1>2, KeysAre, LenProperties

LEMMA KeptIs ==
  ASSUME Transcript!Shapes
  PROVE  /\ Transcript!Kept \in Seq(Transcript!Row)
         /\ \E p : Numbered(Transcript!Kept, p, Transcript!Overlap(v9, Transcript!Keys(v3)))
<1> DEFINE s == Transcript!Keys(v3)
           m == Transcript!Overlap(v9, s)
           ids == Transcript!Ids(v9, s, m)
           q == Transcript!Without(ids, v11)
           u == After(v9, m)
<1>1. v9 \in Seq(Line) /\ s \in Seq(Line) /\ Len(v9) \in Nat
  BY TailLines
<1> HIDE DEF s
<1>2. m \in 0..Len(v9)
  <2> DEFINE most == Transcript!Least(Len(v9), Len(s))
  <2>1. m \in 0..most /\ most <= Len(v9)
    BY <1>1, OverlapIs, Zenon
  <2>2. most \in Nat
    BY <1>1, LenProperties DEF Transcript!Least
  <2> HIDE DEF most, m
  <2> QED
    BY <1>1, <2>1, <2>2
<1> HIDE DEF m
<1>3. /\ ids \in Seq(Transcript!Row) /\ Len(ids) = Len(v9) - m
      /\ \A n \in 1..Len(ids) :
           /\ Transcript!Key(ids[n]) = v9[m + n] /\ ids[n].id = "read"
           /\ ids[n].nth = Transcript!Copies(s, v9[m + n]) + Cardinality(Marks(u, u[n], n))
  BY <1>1, <1>2, IdsAre
<1>4. Transcript!Kept = q
  BY Zenon DEF Transcript!Kept, Transcript!NewRows, q, ids, m, s
<1> HIDE DEF ids
<1>5. q \in Seq(Transcript!Row) /\ \E p : Selects(q, p, ids, v11, Len(ids))
  BY <1>3, WithoutSelects
<1> HIDE DEF q
<1>6. PICK p : Selects(q, p, ids, v11, Len(ids))
  BY <1>5
<1>7. \A n \in 1..Len(v9) - m : u[n] = v9[m + n]
  BY DEF After
<1> HIDE DEF u
<1>8. ASSUME NEW n \in 1..Len(v9) - m
      PROVE  /\ Transcript!Key(ids[n]) = u[n] /\ ids[n].id = "read"
             /\ ids[n].nth = Count(v3, u[n]) + Cardinality(Marks(u, u[n], n))
             /\ Ours(ids[n], v11) <=> Dropped(u[n])
  <2>1. /\ Transcript!Key(ids[n]) = u[n] /\ ids[n].id = "read"
        /\ ids[n].nth = Count(v3, u[n]) + Cardinality(Marks(u, u[n], n))
    BY <1>3, <1>7 DEF Count, s
  <2>2. u[n].side = ids[n].side /\ u[n].text = ids[n].text
    BY <2>1 DEF Transcript!Key
  <2> QED
    BY <2>1, <2>2 DEF Ours, Dropped
<1>9. Numbered(q, p, m)
  <2>1. /\ p \in [1..Len(q) -> 1..Len(v9) - m]
        /\ \A j \in 1..Len(q) : q[j] = ids[p[j]] /\ ~Ours(q[j], v11)
        /\ \A i, j \in 1..Len(q) : i < j => p[i] < p[j]
        /\ \A n \in 1..Len(v9) - m : ~Ours(ids[n], v11) => \E j \in 1..Len(q) : p[j] = n
    BY <1>3, <1>6 DEF Selects
  <2>2. ASSUME NEW j \in 1..Len(q)
        PROVE  /\ Transcript!Key(q[j]) = u[p[j]] /\ q[j].id = "read" /\ ~Dropped(u[p[j]])
               /\ q[j].nth = Count(v3, u[p[j]]) + Cardinality(Marks(u, u[p[j]], p[j]))
    <3>1. p[j] \in 1..Len(v9) - m /\ q[j] = ids[p[j]] /\ ~Ours(ids[p[j]], v11)
      BY <2>1
    <3> QED
      BY <1>8, <3>1
  <2>3. \A n \in 1..Len(v9) - m : ~Dropped(u[n]) => \E j \in 1..Len(q) : p[j] = n
    BY <1>8, <2>1
  <2> QED
    BY <1>2, <2>1, <2>2, <2>3 DEF Numbered, u
<1> QED
  BY <1>4, <1>5, <1>9 DEF m, s

\* The rows still to record are numbered after the stored ones, each after its
\* predecessor, and the last of them is the last of the tail.
LEMMA TranscriptAlign ==
  ASSUME Transcript!IInv, Transcript!Align
  PROVE  Transcript!IInv'
<1> DEFINE q == Transcript!Kept
           m == Transcript!Overlap(v9, Transcript!Keys(v3))
           u == After(v9, m)
<1>1. Transcript!Shapes /\ Transcript!NumberedWithin /\ Transcript!TailIsPage
  BY DEF Transcript!IInv
<1>2. q \in Seq(Transcript!Row) /\ \E p : Numbered(q, p, m)
  BY <1>1, KeptIs
<1>3. /\ UNCHANGED <<v1, v2, v3, v4, v5, v6, v7, v9, v10, v11, v13, v14>>
      /\ v8 = "settle" /\ v12' = q /\ v8' = IF q = <<>> THEN "idle" ELSE "record"
  BY DEF Transcript!Align, Transcript!sendVars
<1> HIDE DEF q, m
<1>4. PICK p : Numbered(q, p, m)
  BY <1>2
<1>5. /\ m \in 0..Len(v9) /\ p \in [1..Len(q) -> 1..Len(v9) - m]
      /\ \A j \in 1..Len(q) :
           /\ Transcript!Key(q[j]) = u[p[j]] /\ q[j].id = "read" /\ ~Dropped(u[p[j]])
           /\ q[j].nth = Count(v3, u[p[j]]) + Cardinality(Marks(u, u[p[j]], p[j]))
      /\ \A i, j \in 1..Len(q) : i < j => p[i] < p[j]
      /\ \A n \in 1..Len(v9) - m : ~Dropped(u[n]) => \E j \in 1..Len(q) : p[j] = n
  BY <1>4 DEF Numbered
<1>6. \A n \in 1..Len(v9) - m : u[n] = v9[m + n]
  BY DEF After
<1> HIDE DEF u
<1>7. /\ v3 \in Seq(Transcript!Row) /\ DOMAIN v3 = 1..Len(v3) /\ \A n \in 1..Len(v3) : v3[n] \in Transcript!Row
      /\ DOMAIN q = 1..Len(q) /\ Len(q) \in Nat /\ Len(v9) \in Nat
  BY <1>1, <1>2, LenProperties, ElementOfSeq DEF Transcript!Shapes
<1>8. \A k : Count(v3, k) \in Nat
  <2>1. Transcript!Keys(v3) \in Seq(Line)
    BY <1>7, KeysAre
  <2> QED
    BY <2>1, CopiesAreMarks DEF Count
<1>9. Transcript!FreshIsNext'
  <2> SUFFICES ASSUME NEW j \in 1..Len(q)
               PROVE  /\ q[j].id = "read" /\ q[j].nth > 0
                      /\ \A n \in DOMAIN v3 :
                           v3[n].id = "read" /\ Transcript!Key(v3[n]) = Transcript!Key(q[j]) => v3[n].nth < q[j].nth
                      /\ \A h \in 1..j - 1 : Transcript!Key(q[h]) = Transcript!Key(q[j]) => q[h].nth < q[j].nth
                      /\ \/ q[j].nth - 1 <= Count(v3, Transcript!Key(q[j]))
                         \/ \E h \in 1..j - 1 : Transcript!Key(q[h]) = Transcript!Key(q[j]) /\ q[h].nth = q[j].nth - 1
    BY <1>3, <1>7, Zenon DEF Transcript!FreshIsNext, Count
  <2> DEFINE n == p[j]
             k == u[n]
             C(x) == Cardinality(Marks(u, u[x], x))
  <2>1. n \in Nat \ {0} /\ n \in 1..Len(v9) - m
    BY <1>5, <1>7
  <2>2. Transcript!Key(q[j]) = k /\ q[j].id = "read" /\ ~Dropped(k) /\ q[j].nth = Count(v3, k) + C(n)
    BY <1>5
  <2> HIDE DEF n, k
  <2>3. /\ C(n) \in Nat \ {0}
        /\ \A x \in 1..n - 1 : u[x] = u[n] => C(x) < C(n)
        /\ C(n) = 1 \/ \E x \in 1..n - 1 : u[x] = u[n] /\ C(x) = C(n) - 1
    BY <2>1, CopiesAreNumbered
  <2>4. \A x \in Nat : C(x) \in Nat
    BY MarksCount
  <2>5. \A h \in 1..Len(q) : p[h] \in Nat /\ Transcript!Key(q[h]) = u[p[h]] /\ q[h].nth = Count(v3, u[p[h]]) + C(p[h])
    BY <1>5, <1>7
  <2> HIDE DEF C
  <2>6. q[j].nth > 0
    BY <1>8, <2>2, <2>3
  <2>7. ASSUME NEW x \in DOMAIN v3, v3[x].id = "read", Transcript!Key(v3[x]) = Transcript!Key(q[j])
        PROVE  v3[x].nth < q[j].nth
    <3>1. v3[x].nth <= Count(v3, k)
      BY <1>1, <2>2, <2>7 DEF Transcript!NumberedWithin, Count
    <3>2. v3[x].nth \in Nat
      BY <1>7 DEF Transcript!Row
    <3> QED
      BY <1>8, <2>2, <2>3, <3>1, <3>2
  <2>8. ASSUME NEW h \in 1..j - 1, Transcript!Key(q[h]) = Transcript!Key(q[j])
        PROVE  q[h].nth < q[j].nth
    <3>1. h \in 1..Len(q) /\ h < j
      BY <1>7
    <3>2. p[h] \in 1..n - 1 /\ u[p[h]] = u[n]
      <4>1. p[h] < n /\ p[h] \in 1..Len(v9) - m
        BY <1>5, <3>1 DEF n
      <4> QED
        BY <1>5, <1>7, <2>1, <2>2, <2>5, <2>8, <3>1, <4>1 DEF k
    <3>3. C(p[h]) < C(n) /\ C(p[h]) \in Nat
      BY <2>3, <2>4, <2>5, <3>1, <3>2
    <3>4. q[h].nth = Count(v3, k) + C(p[h])
      BY <2>5, <3>1, <3>2 DEF k
    <3> QED
      BY <1>8, <2>2, <2>3, <3>3, <3>4
  <2>9. ASSUME q[j].nth - 1 > Count(v3, k)
        PROVE  \E h \in 1..j - 1 : Transcript!Key(q[h]) = Transcript!Key(q[j]) /\ q[h].nth = q[j].nth - 1
    <3>1. C(n) # 1
      BY <1>8, <2>2, <2>3, <2>9
    <3>2. PICK x \in 1..n - 1 : u[x] = u[n] /\ C(x) = C(n) - 1
      BY <2>3, <3>1
    <3>3. x \in 1..Len(v9) - m /\ ~Dropped(u[x])
      BY <1>5, <1>7, <2>1, <2>2, <3>2 DEF k
    <3>4. PICK h \in 1..Len(q) : p[h] = x
      BY <1>5, <3>3
    <3>5. h \in 1..j - 1
      <4>1. h # j /\ ~(j < h)
        BY <1>5, <1>7, <2>1, <3>2, <3>4 DEF n
      <4> QED
        BY <1>7, <4>1
    <3>6. Transcript!Key(q[h]) = k /\ q[h].nth = Count(v3, k) + C(x)
      BY <2>5, <3>2, <3>4 DEF k
    <3> QED
      BY <1>8, <2>2, <2>3, <3>2, <3>5, <3>6
  <2>10. q[j].nth - 1 <= Count(v3, k) \/ q[j].nth - 1 > Count(v3, k)
    BY <1>8, <2>2, <2>3
  <2> QED
    BY <2>2, <2>6, <2>7, <2>8, <2>9, <2>10
<1>10. Transcript!LastIsLast'
  <2> SUFFICES ASSUME q # <<>>
               PROVE  \/ Transcript!Key(q[Len(q)]) = v9[Len(v9)]
                      \/ (v9[Len(v9)].side = "out" /\ v9[Len(v9)].text \in v11)
    BY <1>3 DEF Transcript!LastIsLast
  <2>1. Len(q) \in Nat \ {0}
    BY <1>2, EmptySeq
  <2> DEFINE l == Len(v9) - m
  <2>2. l \in Nat \ {0} /\ u[l] = v9[Len(v9)]
    <3>1. p[1] \in 1..l
      BY <1>5, <2>1
    <3> QED
      BY <1>5, <1>6, <1>7, <3>1
  <2>3. CASE Dropped(u[l])
    BY <2>2, <2>3 DEF Dropped
  <2>4. CASE ~Dropped(u[l])
    <3>1. PICK j \in 1..Len(q) : p[j] = l
      BY <1>5, <2>2, <2>4
    <3>2. j = Len(q)
      <4>1. ~(j < Len(q))
        <5>1. Len(q) \in 1..Len(q) /\ p[Len(q)] \in 1..l
          BY <1>5, <2>1
        <5> QED
          BY <1>5, <2>2, <3>1, <5>1
      <4> QED
        BY <2>1, <4>1
    <3> QED
      BY <1>5, <2>2, <3>1, <3>2
  <2> QED
    BY <2>3, <2>4
<1>11. Transcript!Shapes' /\ Transcript!NumberedWithin' /\ Transcript!TailIsPage'
  <2>1. Transcript!Shapes'
    BY <1>1, <1>2, <1>3 DEF Transcript!Shapes
  <2>2. Transcript!NumberedWithin' /\ Transcript!TailIsPage'
    BY <1>1, <1>3 DEF Transcript!NumberedWithin, Transcript!TailIsPage
  <2> QED
    BY <2>1, <2>2
<1> QED
  BY <1>9, <1>10, <1>11 DEF Transcript!IInv

\* The next row to record is not stored yet.
LEMMA HeadIsNew ==
  ASSUME Transcript!IInv, Transcript!Record
  PROVE  /\ v3 \in Seq(Transcript!Row) /\ v12 \in Seq(Transcript!Row) /\ Len(v12) \in Nat \ {0}
         /\ Head(v12) = v12[1] /\ v12[1] \in Transcript!Row /\ v3' = Append(v3, v12[1])
         /\ \A n \in 1..Len(v3) : v3[n] # v12[1]
<1>1. v8 = "record" /\ v12 # <<>> /\ v3 \in Seq(Transcript!Row) /\ v12 \in Seq(Transcript!Row)
  BY DEF Transcript!Record, Transcript!IInv, Transcript!Shapes, Transcript!LastIsLast
<1>2. Len(v12) \in Nat \ {0} /\ DOMAIN v12 = 1..Len(v12) /\ DOMAIN v3 = 1..Len(v3)
  BY <1>1, EmptySeq, LenProperties
<1>3. Head(v12) = v12[1] /\ 1 \in DOMAIN v12 /\ v12[1] \in Transcript!Row
  BY <1>1, <1>2, ElementOfSeq
<1>4. ASSUME NEW n \in DOMAIN v3, v3[n] = v12[1]
      PROVE  FALSE
  <2>1. v12[1].id = "read"
    BY <1>3 DEF Transcript!IInv, Transcript!FreshIsNext
  <2>2. v3[n].nth < v12[1].nth
    BY <1>3, <1>4, <2>1 DEF Transcript!IInv, Transcript!FreshIsNext
  <2>3. v12[1].nth \in Nat
    BY <1>3 DEF Transcript!Row
  <2> QED
    BY <1>4, <2>2, <2>3
<1>5. v3' = Append(v3, v12[1])
  BY <1>3, <1>4 DEF Transcript!Record
<1> QED
  BY <1>1, <1>2, <1>3, <1>4, <1>5

LEMMA TranscriptRecord ==
  ASSUME Transcript!IInv, Transcript!Record
  PROVE  Transcript!IInv'
<1> DEFINE r == v12[1]
<1>1. /\ v3 \in Seq(Transcript!Row) /\ v12 \in Seq(Transcript!Row) /\ Len(v12) \in Nat \ {0}
      /\ r \in Transcript!Row /\ v3' = Append(v3, r) /\ \A n \in 1..Len(v3) : v3[n] # r
  BY HeadIsNew
<1>2. /\ UNCHANGED <<v1, v2, v4, v5, v6, v7, v9, v10, v11, v13, v14>> /\ v8 = "record"
      /\ v12' = Tail(v12) /\ v8' = IF Len(v12) = 1 THEN "idle" ELSE "record"
  BY DEF Transcript!Record, Transcript!sendVars
<1>3. /\ v3' \in Seq(Transcript!Row) /\ Len(v3') = Len(v3) + 1 /\ Len(v3) \in Nat
      /\ DOMAIN v3 = 1..Len(v3) /\ DOMAIN v3' = 1..Len(v3) + 1
      /\ \A n \in 1..Len(v3) : v3'[n] = v3[n] /\ v3[n] \in Transcript!Row
      /\ v3'[Len(v3) + 1] = r
  BY <1>1, RowAppended
<1>4. ASSUME NEW k
      PROVE  /\ Count(v3, k) \in Nat /\ Count(v3', k) \in Nat /\ Count(v3, k) <= Count(v3', k)
  <2>1. v3 \in Seq(Transcript!Row) /\ r \in Transcript!Row /\ v3' = Append(v3, r)
    BY <1>1
  <2> HIDE DEF r
  <2> QED
    BY <2>1, CountAppended
<1>41. Count(v3', Transcript!Key(r)) = Count(v3, Transcript!Key(r)) + 1
  <2>1. v3 \in Seq(Transcript!Row) /\ r \in Transcript!Row /\ v3' = Append(v3, r)
    BY <1>1
  <2> HIDE DEF r
  <2> QED
    BY <2>1, CountAppended
<1>5. /\ v12' \in Seq(Transcript!Row) /\ Len(v12') = Len(v12) - 1
      /\ \A i \in 1..Len(v12) - 1 : v12'[i] = v12[i + 1]
      /\ DOMAIN v12' = 1..Len(v12) - 1
  <2>1. v12 # <<>>
    BY <1>1
  <2>2. /\ Tail(v12) \in Seq(Transcript!Row) /\ Len(Tail(v12)) = Len(v12) - 1
        /\ \A i \in 1..Len(Tail(v12)) : Tail(v12)[i] = v12[i + 1]
    BY <1>1, <2>1, HeadTailProperties
  <2> QED
    BY <1>2, <2>2, LenProperties
<1>6. /\ DOMAIN v12 = 1..Len(v12) /\ \A j \in 1..Len(v12) : v12[j] \in Transcript!Row
      /\ \A j \in 1..Len(v12) :
           /\ v12[j].id = "read" /\ v12[j].nth > 0 /\ v12[j].nth \in Nat
           /\ \A n \in DOMAIN v3 :
                v3[n].id = "read" /\ Transcript!Key(v3[n]) = Transcript!Key(v12[j]) => v3[n].nth < v12[j].nth
           /\ \A h \in 1..j - 1 : Transcript!Key(v12[h]) = Transcript!Key(v12[j]) => v12[h].nth < v12[j].nth
           /\ \/ v12[j].nth - 1 <= Count(v3, Transcript!Key(v12[j]))
              \/ \E h \in 1..j - 1 : Transcript!Key(v12[h]) = Transcript!Key(v12[j]) /\ v12[h].nth = v12[j].nth - 1
  <2>1. DOMAIN v12 = 1..Len(v12) /\ \A j \in 1..Len(v12) : v12[j] \in Transcript!Row
    BY <1>1, LenProperties, ElementOfSeq
  <2>2. \A j \in 1..Len(v12) : v12[j].nth \in Nat
    BY <2>1 DEF Transcript!Row
  <2> QED
    BY <2>1, <2>2, Zenon DEF Transcript!IInv, Transcript!FreshIsNext, Count
<1>7. r.id = "read" /\ r.nth \in Nat /\ r.nth - 1 <= Count(v3, Transcript!Key(r))
  <2>1. 1 \in 1..Len(v12) /\ ~\E h \in 1..1 - 1 : TRUE
    BY <1>1
  <2> QED
    BY <1>6, <2>1
<1>8. Transcript!NumberedWithin'
  <2>1. ASSUME NEW n \in DOMAIN v3', v3'[n].id = "read"
        PROVE  v3'[n].nth <= Count(v3', Transcript!Key(v3'[n]))
    <3>1. CASE n = Len(v3) + 1
      <4>1. v3'[n] = r
        BY <1>3, <3>1
      <4>2. Count(v3', Transcript!Key(r)) = Count(v3, Transcript!Key(r)) + 1 /\ Count(v3, Transcript!Key(r)) \in Nat
        BY <1>4, <1>41
      <4> QED
        BY <1>7, <4>1, <4>2
    <3>2. CASE n \in 1..Len(v3)
      <4>1. v3'[n] = v3[n] /\ v3[n].nth \in Nat
        BY <1>3, <3>2 DEF Transcript!Row
      <4>2. v3[n].nth <= Count(v3, Transcript!Key(v3[n]))
        BY <1>3, <2>1, <3>2, <4>1 DEF Transcript!IInv, Transcript!NumberedWithin, Count
      <4> QED
        BY <1>4, <4>1, <4>2
    <3> QED
      BY <1>3, <3>1, <3>2
  <2>2. ASSUME NEW x \in DOMAIN v3', NEW y \in DOMAIN v3', v3'[x] = v3'[y]
        PROVE  x = y
    <3>1. \A n \in DOMAIN v3' : n = Len(v3) + 1 \/ n \in 1..Len(v3)
      BY <1>3
    <3>2. CASE x \in 1..Len(v3) /\ y \in 1..Len(v3)
      BY <1>3, <2>2, <3>2 DEF Transcript!IInv, Transcript!NumberedWithin
    <3> QED
      BY <1>1, <1>3, <2>2, <3>1, <3>2
  <2> QED
    BY <2>1, <2>2 DEF Transcript!NumberedWithin, Count
<1>9. Transcript!FreshIsNext'
  <2> DEFINE key(j) == Transcript!Key(v12'[j])
  <2> SUFFICES ASSUME NEW j \in DOMAIN v12'
               PROVE  /\ v12'[j].id = "read" /\ v12'[j].nth > 0
                      /\ \A n \in DOMAIN v3' :
                           v3'[n].id = "read" /\ Transcript!Key(v3'[n]) = key(j) => v3'[n].nth < v12'[j].nth
                      /\ \A h \in 1..j - 1 : key(h) = key(j) => v12'[h].nth < v12'[j].nth
                      /\ \/ v12'[j].nth - 1 <= Count(v3', key(j))
                         \/ \E h \in 1..j - 1 : key(h) = key(j) /\ v12'[h].nth = v12'[j].nth - 1
    BY Zenon DEF Transcript!FreshIsNext, Count
  <2> DEFINE J == j + 1
  <2>1. /\ j \in Nat \ {0} /\ J \in 1..Len(v12) /\ v12'[j] = v12[J] /\ 1 \in 1..J - 1
        /\ \A h \in 1..j - 1 : v12'[h] = v12[h + 1] /\ h + 1 \in 1..J - 1
    BY <1>1, <1>5
  <2>2. /\ v12[J].id = "read" /\ v12[J].nth > 0 /\ v12[J].nth \in Nat
        /\ \A n \in DOMAIN v3 :
             v3[n].id = "read" /\ Transcript!Key(v3[n]) = Transcript!Key(v12[J]) => v3[n].nth < v12[J].nth
        /\ \A h \in 1..J - 1 : Transcript!Key(v12[h]) = Transcript!Key(v12[J]) => v12[h].nth < v12[J].nth
        /\ \/ v12[J].nth - 1 <= Count(v3, Transcript!Key(v12[J]))
           \/ \E h \in 1..J - 1 : Transcript!Key(v12[h]) = Transcript!Key(v12[J]) /\ v12[h].nth = v12[J].nth - 1
    BY <1>6, <2>1
  <2> HIDE DEF J
  <2>3. ASSUME NEW n \in DOMAIN v3', v3'[n].id = "read", Transcript!Key(v3'[n]) = key(j)
        PROVE  v3'[n].nth < v12'[j].nth
    <3>1. CASE n = Len(v3) + 1
      BY <1>3, <2>1, <2>2, <2>3, <3>1
    <3>2. CASE n \in 1..Len(v3)
      BY <1>3, <2>1, <2>2, <2>3, <3>2
    <3> QED
      BY <1>3, <3>1, <3>2
  <2>4. ASSUME NEW h \in 1..j - 1, key(h) = key(j)
        PROVE  v12'[h].nth < v12'[j].nth
    BY <2>1, <2>2, <2>4
  <2>5. \/ v12'[j].nth - 1 <= Count(v3', key(j))
        \/ \E h \in 1..j - 1 : key(h) = key(j) /\ v12'[h].nth = v12'[j].nth - 1
    <3>1. CASE v12[J].nth - 1 <= Count(v3, Transcript!Key(v12[J]))
      BY <1>4, <2>1, <2>2, <3>1
    <3>2. ASSUME NEW h \in 1..J - 1, Transcript!Key(v12[h]) = Transcript!Key(v12[J]), v12[h].nth = v12[J].nth - 1
          PROVE  \/ v12'[j].nth - 1 <= Count(v3', key(j))
                 \/ \E i \in 1..j - 1 : key(i) = key(j) /\ v12'[i].nth = v12'[j].nth - 1
      <4>1. CASE h = 1
        <5>1. Count(v3', Transcript!Key(r)) = Count(v3, Transcript!Key(r)) + 1 /\ Count(v3, Transcript!Key(r)) \in Nat
          BY <1>4, <1>41
        <5>2. v12[J].nth - 1 <= Count(v3', Transcript!Key(r))
          BY <1>7, <3>2, <4>1, <5>1
        <5> QED
          BY <2>1, <3>2, <4>1, <5>2
      <4>2. CASE h # 1
        <5>1. h - 1 \in 1..j - 1 /\ (h - 1) + 1 = h
          BY <2>1, <4>2 DEF J
        <5>2. v12'[h - 1] = v12[h]
          BY <2>1, <5>1
        <5> QED
          BY <2>1, <3>2, <5>1, <5>2
      <4> QED
        BY <4>1, <4>2
    <3> QED
      BY <2>2, <3>1, <3>2
  <2> QED
    BY <2>1, <2>2, <2>3, <2>4, <2>5
<1>10. Transcript!LastIsLast'
  <2>1. /\ Transcript!Key(v12[Len(v12)]) = v9[Len(v9)]
           \/ (v9[Len(v9)].side = "out" /\ v9[Len(v9)].text \in v11)
    BY <1>2 DEF Transcript!IInv, Transcript!LastIsLast
  <2>2. ASSUME Len(v12) # 1
        PROVE  v12' # <<>> /\ v12'[Len(v12')] = v12[Len(v12)]
    BY <1>1, <1>5, <2>2
  <2> QED
    BY <1>2, <2>1, <2>2 DEF Transcript!LastIsLast
<1>11. Transcript!Shapes' /\ Transcript!TailIsPage'
  <2>1. v8' # "record" => v12' = <<>>
    <3>1. ASSUME Len(v12) = 1
          PROVE  v12' = <<>>
      BY <1>5, <3>1, EmptySeq
    <3> QED
      BY <1>2, <3>1
  <2> QED
    BY <1>2, <1>3, <1>5, <2>1 DEF Transcript!IInv, Transcript!Shapes, Transcript!TailIsPage
<1> QED
  BY <1>8, <1>9, <1>10, <1>11 DEF Transcript!IInv

\* What goes into another place of its own, in a sequence that has the same there,
\* is no oftener in the one than in the other.
LEMMA FewerCopies ==
  ASSUME NEW s \in Seq(Line), NEW t \in Seq(Line), NEW k,
         NEW g \in [1..Len(s) -> 1..Len(t)],
         \A i \in 1..Len(s) : t[g[i]] = s[i],
         \A i, j \in 1..Len(s) : i < j => g[i] < g[j]
  PROVE  ~(Transcript!Copies(s, k) > Transcript!Copies(t, k))
<1>1. Len(s) \in Nat /\ Len(t) \in Nat
  BY LenProperties
<1> DEFINE S == Marks(s, k, Len(s))
           T == Marks(t, k, Len(t))
           f == [i \in S |-> g[i]]
<1>2. /\ Transcript!Copies(s, k) = Cardinality(S) /\ Transcript!Copies(t, k) = Cardinality(T)
      /\ Cardinality(S) \in Nat /\ Cardinality(T) \in Nat /\ IsFiniteSet(T)
  BY <1>1, CopiesAreMarks, MarksCount
<1>3. \A i \in S : i \in 1..Len(s) /\ g[i] \in T
  BY DEF Marks
<1>4. \A i, j \in S : f[i] = f[j] => i = j
  <2> SUFFICES ASSUME NEW i \in S, NEW j \in S, g[i] = g[j]
               PROVE  i = j
    OBVIOUS
  <2>1. i \in 1..Len(s) /\ j \in 1..Len(s) /\ g[i] \in 1..Len(t) /\ g[j] \in 1..Len(t)
    BY <1>3
  <2>2. ~(i < j) /\ ~(j < i)
    <3>1. ~(g[i] < g[j]) /\ ~(g[j] < g[i])
      BY <1>1, <2>1
    <3> QED
      BY <2>1, <3>1
  <2> QED
    BY <1>1, <2>1, <2>2
<1>5. f \in Injection(S, T)
  <2>1. f \in [S -> T]
    BY <1>3
  <2> HIDE DEF S, T, f
  <2> QED
    BY <1>4, <2>1 DEF Injection, IsInjective
<1> HIDE DEF S, T, f
<1>6. Cardinality(S) <= Cardinality(T)
  BY <1>2, <1>5, FS_Injection
<1> QED
  BY <1>2, <1>6

\* A read in step takes each bubble it records from a place of its own in the
\* conversation: the stored ones have the places at its beginning, the overlap
\* reaches past the last of them, and what is recorded comes after the overlap.
LEMMA ReadsOnce ==
  ASSUME Transcript!IInv, Transcript!Align, Transcript!InStep
  PROVE  Transcript!Twice(v3 \o v12', Transcript!Seen) = {}
<1> DEFINE q == Transcript!Kept
           s == Transcript!Keys(v3)
           m == Transcript!Overlap(v9, s)
           u == After(v9, m)
           a == v14 - Len(v9)
           p == Transcript!Seen
           r == v3 \o q
<1>1. Transcript!Shapes /\ Transcript!TailIsPage
  BY DEF Transcript!IInv
<1>2. q \in Seq(Transcript!Row) /\ \E place : Numbered(q, place, m)
  BY <1>1, KeptIs
<1>3. v12' = q /\ v8 = "settle"
  BY DEF Transcript!Align
<1>4. /\ v9 \in Seq(Line) /\ v1 \in Seq(Line) /\ s \in Seq(Line) /\ Len(s) = Len(v3)
      /\ Len(v3) \in Nat /\ Len(v9) \in Nat /\ Len(v1) \in Nat /\ Len(q) \in Nat
      /\ v3 \in Seq(Transcript!Row)
      /\ \A n \in 1..Len(v3) : s[n] = Transcript!Key(v3[n])
  BY <1>1, <1>2, TailLines, LenProperties DEF Transcript!Shapes
<1>5. /\ v14 \in 1..Len(v1) /\ v14 \in Nat /\ a \in Nat /\ a + Len(v9) = v14
      /\ \A n \in 1..Len(v9) : v9[n] = v1[a + n]
  <2>1. /\ v14 \in 1..Len(v1) /\ Len(v9) = Transcript!Least(v14, Cap)
        /\ \A n \in 1..Len(v9) : v9[n] = v1[a + n]
    BY <1>1, <1>3 DEF Transcript!TailIsPage
  <2>2. Cap \in Nat
    BY RecordsAssumption DEF RecordsAssumption, Transcript!TailAssumption
  <2> QED
    BY <1>4, <2>1, <2>2 DEF Transcript!Least
<1>6. \A c \in 0..v14 : /\ Transcript!FirstOf(v1, c) \in Seq(Line) /\ Len(Transcript!FirstOf(v1, c)) = c
                        /\ \A i \in 1..c : Transcript!FirstOf(v1, c)[i] = v1[i]
  <2> SUFFICES ASSUME NEW c \in 0..v14
               PROVE  /\ Transcript!FirstOf(v1, c) \in Seq(Line) /\ Len(Transcript!FirstOf(v1, c)) = c
                      /\ \A i \in 1..c : Transcript!FirstOf(v1, c)[i] = v1[i]
    OBVIOUS
  <2>1. \A i \in 1..c : v1[i] \in Line
    <3>1. \A i \in 1..c : i \in 1..Len(v1)
      BY <1>4, <1>5
    <3> QED
      BY <1>4, <3>1, ElementOfSeq
  <2>2. /\ SubSeq(v1, 1, c) \in Seq(Line)
        /\ Len(SubSeq(v1, 1, c)) = IF 1 <= c THEN c - 1 + 1 ELSE 0
        /\ \A i \in 1..c - 1 + 1 : SubSeq(v1, 1, c)[i] = v1[1 + i - 1]
    <3>1. c \in Int
      BY <1>5
    <3> QED
      BY <2>1, <3>1, SubSeqProperties
  <2> QED
    BY <1>5, <2>2 DEF Transcript!FirstOf
<1>7. p \in Seq(Line) /\ Len(p) = v14 /\ \A i \in 1..v14 : p[i] = v1[i]
  BY <1>5, <1>6 DEF Transcript!Seen
<1>8. Len(v3) \in 0..v14 /\ \A i \in 1..Len(v3) : s[i] = v1[i]
  <2>1. PICK c \in 0..v14 : s = Transcript!FirstOf(v1, c)
    BY DEF Transcript!InStep
  <2> QED
    BY <1>4, <1>6, <2>1
<1> HIDE DEF q, s, a, p
<1>9. m \in 0..Len(v9) /\ a + m >= Len(v3)
  <2> DEFINE most == Transcript!Least(Len(v9), Len(s))
  <2>1. /\ m \in 0..most /\ most <= Len(v9)
        /\ \A c \in 0..most : (\A i \in 1..c : s[Len(s) - c + i] = v9[i]) => c <= m
    BY <1>4, OverlapIs, Zenon
  <2>2. most \in Nat /\ most = (IF Len(v9) < Len(v3) THEN Len(v9) ELSE Len(v3))
    BY <1>4 DEF Transcript!Least
  <2> HIDE DEF most, m
  <2>3. m \in 0..Len(v9)
    BY <1>4, <2>1, <2>2
  <2>4. ASSUME Len(v3) > a
        PROVE  Len(v3) - a <= m
    <3> DEFINE c == Len(v3) - a
    <3>1. c \in 0..most
      BY <1>4, <1>5, <1>8, <2>2, <2>4
    <3>2. ASSUME NEW i \in 1..c
          PROVE  s[Len(s) - c + i] = v9[i]
      <4>1. Len(s) - c + i = a + i /\ a + i \in 1..Len(v3) /\ i \in 1..Len(v9)
        BY <1>4, <1>5, <1>8, <2>4
      <4> QED
        BY <1>5, <1>8, <4>1
    <3> HIDE DEF c
    <3>3. c <= m
      BY <2>1, <3>1, <3>2
    <3> QED
      BY <3>3 DEF c
  <2> QED
    BY <1>4, <1>5, <2>3, <2>4
<1>10. PICK place : Numbered(q, place, m)
  BY <1>2
<1>11. /\ place \in [1..Len(q) -> 1..Len(v9) - m]
       /\ \A j \in 1..Len(q) : Transcript!Key(q[j]) = u[place[j]]
       /\ \A i, j \in 1..Len(q) : i < j => place[i] < place[j]
  BY <1>10 DEF Numbered
<1>12. \A n \in 1..Len(v9) - m : u[n] = v9[m + n]
  BY DEF After
<1> HIDE DEF m, u
<1>13. /\ r \in Seq(Transcript!Row) /\ Len(r) = Len(v3) + Len(q)
       /\ \A i \in 1..Len(v3) + Len(q) : r[i] = IF i <= Len(v3) THEN v3[i] ELSE q[i - Len(v3)]
  BY <1>2, <1>4, ConcatProperties
<1> HIDE DEF r
<1>14. /\ Transcript!Keys(r) \in Seq(Line) /\ Len(Transcript!Keys(r)) = Len(v3) + Len(q)
       /\ \A i \in 1..Len(v3) + Len(q) : Transcript!Keys(r)[i] = Transcript!Key(r[i])
  BY <1>13, KeysAre
<1> DEFINE g == [i \in 1..Len(v3) + Len(q) |-> IF i <= Len(v3) THEN i ELSE a + m + place[i - Len(v3)]]
<1>15. ASSUME NEW i \in 1..Len(v3) + Len(q)
       PROVE  g[i] \in 1..v14 /\ p[g[i]] = Transcript!Keys(r)[i]
  <2>1. CASE i <= Len(v3)
    <3>1. g[i] = i /\ i \in 1..Len(v3) /\ i \in 1..v14
      BY <1>4, <1>5, <1>8, <2>1
    <3> HIDE DEF g
    <3>2. p[i] = v1[i] /\ v1[i] = s[i] /\ s[i] = Transcript!Key(v3[i])
      BY <1>4, <1>7, <1>8, <3>1
    <3>3. Transcript!Keys(r)[i] = Transcript!Key(v3[i])
      BY <1>13, <1>14, <2>1
    <3> QED
      BY <3>1, <3>2, <3>3
  <2>2. CASE ~(i <= Len(v3))
    <3> DEFINE j == i - Len(v3)
    <3>1. j \in 1..Len(q) /\ g[i] = a + m + place[j] /\ r[i] = q[j]
      BY <1>4, <1>13, <2>2
    <3>2. place[j] \in 1..Len(v9) - m
      BY <1>11, <3>1
    <3>3. g[i] \in 1..v14 /\ m + place[j] \in 1..Len(v9) /\ g[i] = a + (m + place[j])
      <4> DEFINE at == place[j]
      <4>1. at \in 1..Len(v9) - m /\ g[i] = a + m + at
        BY <3>1, <3>2
      <4> HIDE DEF at, g, j
      <4>2. m + at \in 1..Len(v9) /\ a + m + at = a + (m + at) /\ a + m + at \in 1..v14
        BY <1>4, <1>5, <1>9, <4>1
      <4> QED
        BY <4>1, <4>2 DEF at
    <3> HIDE DEF g, j
    <3>4. p[g[i]] = v1[a + (m + place[j])]
      BY <1>7, <3>3
    <3>5. v1[a + (m + place[j])] = u[place[j]]
      BY <1>5, <1>12, <3>2, <3>3
    <3> QED
      BY <1>11, <1>14, <3>1, <3>3, <3>4, <3>5
  <2> QED
    BY <2>1, <2>2
<1>16. ASSUME NEW i \in 1..Len(v3) + Len(q), NEW j \in 1..Len(v3) + Len(q), i < j
       PROVE  g[i] < g[j]
  <2>1. CASE j <= Len(v3)
    BY <1>4, <1>16, <2>1
  <2>2. CASE i <= Len(v3) /\ ~(j <= Len(v3))
    <3>1. j - Len(v3) \in 1..Len(q)
      BY <1>4, <2>2
    <3>2. place[j - Len(v3)] \in 1..Len(v9) - m
      BY <1>11, <3>1
    <3>3. g[i] = i /\ g[j] = a + m + place[j - Len(v3)]
      BY <2>2
    <3> HIDE DEF g
    <3> QED
      BY <1>4, <1>5, <1>9, <2>2, <3>2, <3>3
  <2>3. CASE ~(i <= Len(v3)) /\ ~(j <= Len(v3))
    <3>1. i - Len(v3) \in 1..Len(q) /\ j - Len(v3) \in 1..Len(q) /\ i - Len(v3) < j - Len(v3)
      BY <1>4, <1>16, <2>3
    <3>2. /\ place[i - Len(v3)] \in 1..Len(v9) - m /\ place[j - Len(v3)] \in 1..Len(v9) - m
          /\ place[i - Len(v3)] < place[j - Len(v3)]
      BY <1>11, <3>1
    <3>3. g[i] = a + m + place[i - Len(v3)] /\ g[j] = a + m + place[j - Len(v3)]
      BY <2>3
    <3> HIDE DEF g
    <3> QED
      BY <1>4, <1>5, <1>9, <3>2, <3>3
  <2> QED
    BY <1>4, <1>16, <2>1, <2>2, <2>3
<1>17. g \in [1..Len(v3) + Len(q) -> 1..v14]
  <2>1. \A i \in 1..Len(v3) + Len(q) : g[i] \in 1..v14
    BY <1>15
  <2> QED
    BY <2>1
<1> HIDE DEF g
<1>18. ASSUME NEW k
       PROVE  ~(Transcript!Copies(Transcript!Keys(r), k) > Transcript!Copies(p, k))
  <2> DEFINE w == Transcript!Keys(r)
  <2>1. w \in Seq(Line) /\ Len(w) = Len(v3) + Len(q)
    BY <1>14
  <2>2. \A i \in 1..Len(w) : p[g[i]] = w[i]
    BY <1>14, <1>15
  <2> HIDE DEF w
  <2>3. g \in [1..Len(w) -> 1..Len(p)] /\ \A i, j \in 1..Len(w) : i < j => g[i] < g[j]
    BY <1>7, <1>16, <1>17, <2>1
  <2>4. ~(Transcript!Copies(w, k) > Transcript!Copies(p, k))
    BY <1>7, <2>1, <2>2, <2>3, FewerCopies
  <2> QED
    BY <2>4 DEF w
<1>19. Transcript!Twice(r, p) = {}
  BY <1>18 DEF Transcript!Twice
<1> QED
  BY <1>3, <1>19 DEF r, p

\* A read that records nothing ended where the transcript does.
LEMMA NothingNewIsKnown ==
  ASSUME Transcript!IInv, Transcript!Align, Transcript!Kept = <<>>
  PROVE  \/ v3 # <<>> /\ Transcript!Key(v3[Len(v3)]) = v9[Len(v9)]
         \/ v9[Len(v9)].side = "out" /\ v9[Len(v9)].text \in v11
<1> DEFINE s == Transcript!Keys(v3)
           m == Transcript!Overlap(v9, s)
           u == After(v9, m)
           l == Len(v9) - m
<1>1. Transcript!Shapes /\ Transcript!TailIsPage /\ v8 = "settle"
  BY DEF Transcript!IInv, Transcript!Align
<1>2. PICK place : Numbered(Transcript!Kept, place, m)
  BY <1>1, KeptIs
<1>3. /\ v9 \in Seq(Line) /\ s \in Seq(Line) /\ Len(s) = Len(v3) /\ Len(v3) \in Nat /\ Len(v9) \in Nat
      /\ \A n \in 1..Len(v3) : s[n] = Transcript!Key(v3[n])
  BY <1>1, TailLines
<1>4. Len(v9) > 0
  <2>1. v14 \in 1..Len(v1) /\ Len(v9) = Transcript!Least(v14, Cap)
    BY <1>1 DEF Transcript!TailIsPage
  <2>2. Cap \in Nat \ {0}
    BY RecordsAssumption DEF RecordsAssumption, Transcript!TailAssumption
  <2>3. v14 \in Nat \ {0}
    <3>1. Len(v1) \in Nat
      BY <1>1, LenProperties DEF Transcript!Shapes
    <3> QED
      BY <2>1, <3>1
  <2> QED
    BY <2>1, <2>2, <2>3 DEF Transcript!Least
<1>5. m \in 0..Len(v9) /\ m <= Len(v3) /\ \A i \in 1..m : s[Len(s) - m + i] = v9[i]
  <2> DEFINE most == Transcript!Least(Len(v9), Len(s))
  <2>1. m \in 0..most /\ most <= Len(v9) /\ most <= Len(s) /\ \A i \in 1..m : s[Len(s) - m + i] = v9[i]
    BY <1>3, OverlapIs, Zenon
  <2>2. most \in Nat
    BY <1>3 DEF Transcript!Least
  <2> HIDE DEF most, m, s
  <2> QED
    BY <1>3, <2>1, <2>2
<1>6. \A n \in 1..Len(v9) - m : Dropped(u[n])
  <2>1. Len(Transcript!Kept) = 0
    BY EmptySeq
  <2>2. \A n \in 1..Len(v9) - m : ~Dropped(u[n]) => \E j \in 1..Len(Transcript!Kept) : place[j] = n
    BY <1>2 DEF Numbered
  <2> HIDE DEF m, u
  <2> QED
    BY <2>1, <2>2
<1>7. \A n \in 1..Len(v9) - m : u[n] = v9[m + n]
  BY DEF After
<1> HIDE DEF s, m, u
<1>8. CASE m = Len(v9)
  <2>1. s[Len(v3)] = v9[Len(v9)]
    BY <1>3, <1>4, <1>5, <1>8
  <2>2. Len(v3) \in 1..Len(v3) /\ v3 # <<>>
    BY <1>3, <1>4, <1>5, <1>8
  <2> QED
    BY <1>3, <2>1, <2>2
<1>9. CASE m # Len(v9)
  <2>1. l \in 1..Len(v9) - m /\ m + l = Len(v9)
    BY <1>3, <1>4, <1>5, <1>9
  <2> QED
    BY <1>6, <1>7, <2>1 DEF Dropped
<1> QED
  BY <1>8, <1>9

LEMMA TranscriptStep ==
  ASSUME Transcript!IInv,
         \/ Transcript!Next
         \/ UNCHANGED <<v1, v2, v3, v4, v5, v6, v7, v8, v9, v10, v11, v12, v13, v14>>
  PROVE  /\ Transcript!IInv'
         /\ Transcript!EveryNewRowIsStored /\ Transcript!InStepReadsOnce /\ Transcript!LastWordIsKnown
<1> DEFINE Talk == \/ \E t \in Pair : Transcript!BuyerWrites(t)
                   \/ \E t \in Answers : Transcript!SellerTypes(t)
                   \/ \E i \in Pair : Transcript!PageTakes(i)
           Around == \/ Transcript!SellerLooks
                     \/ \E i \in Pair : Transcript!Reserve(i) \/ Transcript!GiveUp(i)
           Commits == \E i \in Pair : Transcript!Commit(i) \/ Transcript!Settle(i)
           Still == UNCHANGED <<v1, v2, v3, v4, v5, v6, v7, v8, v9, v10, v11, v12, v13, v14>>
<1>1. Talk \/ Around \/ Commits \/ Transcript!Crash \/ Transcript!Read \/ Transcript!Align \/ Transcript!Record \/ Still
  BY DEF Transcript!Next
<1>2. Still => Transcript!IInv'
  BY DEF Transcript!IInv, Transcript!Shapes, Transcript!NumberedWithin, Transcript!FreshIsNext,
         Transcript!TailIsPage, Transcript!LastIsLast
<1>3. Transcript!IInv'
  BY <1>1, <1>2, TranscriptTalk, TranscriptAround, TranscriptCommits, TranscriptRead, TranscriptAlign,
     TranscriptRecord
<1>4. Transcript!EveryNewRowIsStored
  <2> SUFFICES ASSUME Transcript!Record
               PROVE  v3' # v3
    BY DEF Transcript!EveryNewRowIsStored
  <2>1. v3 \in Seq(Transcript!Row) /\ v12[1] \in Transcript!Row /\ v3' = Append(v3, v12[1])
    BY HeadIsNew
  <2>2. Len(v3') = Len(v3) + 1 /\ Len(v3) \in Nat
    BY <2>1, AppendProperties, LenProperties
  <2> QED
    BY <2>2
<1>5. ASSUME v8' # v8, ~Transcript!Crash
      PROVE  \/ v8 = "idle" /\ v8' = "settle"
             \/ Transcript!Align
             \/ Transcript!Record
  <2>1. CASE Talk \/ Around \/ Commits \/ Still
    BY <1>5, <2>1 DEF Transcript!BuyerWrites, Transcript!SellerTypes, Transcript!PageTakes,
       Transcript!SellerLooks, Transcript!Reserve, Transcript!GiveUp, Transcript!Commit, Transcript!Settle,
       Transcript!readVars
  <2>2. CASE Transcript!Read
    BY <2>2 DEF Transcript!Read
  <2> QED
    BY <1>1, <1>5, <2>1, <2>2
<1>6. Transcript!InStepReadsOnce
  <2> SUFFICES ASSUME v8 = "settle", v8' = "record", Transcript!InStep
               PROVE  Transcript!Twice(v3 \o v12', Transcript!Seen) = {}
    BY DEF Transcript!InStepReadsOnce
  <2>1. Transcript!Align
    BY <1>5 DEF Transcript!Crash, Transcript!Record
  <2> QED
    BY <2>1, ReadsOnce
<1>7. Transcript!LastWordIsKnown
  <2> DEFINE word == v9[Len(v9)]
  <2> SUFFICES ASSUME v8 # "idle", v8' = "idle", ~Transcript!Crash
               PROVE  \/ v3' # <<>> /\ Transcript!Key(v3'[Len(v3')]) = word
                      \/ word.side = "out" /\ word.text \in v11
    BY DEF Transcript!LastWordIsKnown
  <2>1. CASE Transcript!Align
    <3>1. Transcript!Kept = <<>> /\ v3' = v3
      BY <2>1 DEF Transcript!Align
    <3> QED
      BY <2>1, <3>1, NothingNewIsKnown
  <2>2. CASE Transcript!Record
    <3>1. /\ v3 \in Seq(Transcript!Row) /\ v12[1] \in Transcript!Row /\ v3' = Append(v3, v12[1])
      BY <2>2, HeadIsNew
    <3>2. Len(v3') = Len(v3) + 1 /\ v3'[Len(v3) + 1] = v12[1] /\ Len(v3) \in Nat /\ v3' # <<>>
      BY <3>1, AppendProperties, LenProperties
    <3>3. Len(v12) = 1 /\ v8 = "record"
      BY <2>2 DEF Transcript!Record
    <3> QED
      BY <3>2, <3>3 DEF Transcript!IInv, Transcript!LastIsLast
  <2> QED
    BY <1>5, <2>1, <2>2
<1> QED
  BY <1>3, <1>4, <1>6, <1>7

-----------------------------------------------------------------------------
(* What TypesOK says of these parts and of four of PartsProofs.  A part whose *)
(* TypeOK is not inductive, even with its IInv, has its shapes here: TypeOK and*)
(* what bounds the values it lets through.  v1 to v14 stand for what they do in*)
(* the section of the part; of PartsProofs' they are                          *)
(*   Selectors: v1 row, v2 page, v3 todo, v4 outcome, v5 tried, v6 misses;    *)
(*   InboxWatch: v1 chat, v2 tick, v3 blind, v4 since, v5 noted, v6 unread,   *)
(*     v7 heard, v8 seen;                                                     *)
(*   Crosslist: v1 url, v2 rail, v3 onRail, v4 enabled, v5 sold, v6 paused,   *)
(*     v7 pass, v8 lane, v9 tool, v10 marker, v11 accepted;                   *)
(*   Adoption: v1 survey, v2 row, v3 live, v4 pictured, v5 items, v6 created, *)
(*     v7 onRail, v8 slot, v9 lane, v10 tap, v11 reopened, v12 tried, v13 lost,*)
(*     v14 rearmed.                                                           *)

LEMMA TranscriptTypes ==
  ASSUME Transcript!IInv
  PROVE  Transcript!TypeOK
<1>1. Transcript!Shapes /\ \A m, n \in DOMAIN v3 : v3[m] = v3[n] => m = n
  BY DEF Transcript!IInv, Transcript!NumberedWithin
<1>2. \A S : \A s \in Seq(S) : Transcript!Range(s) \subseteq S
  <2> SUFFICES ASSUME NEW S, NEW s \in Seq(S), NEW x \in Transcript!Range(s)
               PROVE  x \in S
    OBVIOUS
  <2>1. PICK n \in 1..Len(s) : x = s[n]
    BY LenProperties DEF Transcript!Range
  <2> QED
    BY <2>1, ElementOfSeq
<1>3. Transcript!Cardinality(Transcript!Range(v3)) = Len(v3)
  <2> DEFINE R == Transcript!Range(v3)
             n == Len(v3)
  <2>1. v3 \in Seq(Transcript!Row) /\ n \in Nat /\ DOMAIN v3 = 1..n
    BY <1>1, LenProperties DEF Transcript!Shapes
  <2>2. \A x : x \in R <=> \E i \in 1..n : v3[i] = x
    BY <2>1 DEF Transcript!Range
  <2> HIDE DEF R, n
  <2> DEFINE f == [i \in 1..n |-> v3[i]]
  <2>3. f \in Bijection(1..n, R)
    <3>1. f \in [1..n -> R]
      BY <2>2
    <3>2. \A x \in R : \E i \in 1..n : f[i] = x
      BY <2>2
    <3>3. \A i, j \in 1..n : f[i] = f[j] => i = j
      BY <1>1, <2>1
    <3> HIDE DEF f
    <3> QED
      BY <3>1, <3>2, <3>3 DEF Bijection, Injection, Surjection, IsInjective
  <2> HIDE DEF f
  <2>4. IsFiniteSet(1..n) /\ Cardinality(1..n) = n
    BY <2>1, FS_Interval
  <2>5. ExistsBijection(1..n, R)
    BY <2>3 DEF ExistsBijection
  <2>6. Cardinality(R) = n
    BY <2>4, <2>5, FS_Bijection
  <2> QED
    BY <2>6, TranscriptCardinality DEF R, n
<1>4. /\ v1 \in Seq(Transcript!Bubble) /\ v3 \in Seq(Transcript!Row) /\ v12 \in Seq(Transcript!Row)
      /\ v14 \in 0..Len(v1) /\ Len(v1) \in Nat
  BY <1>1, LenProperties DEF Transcript!Shapes
<1>5. /\ Transcript!Range(v1) \subseteq Transcript!Bubble /\ Transcript!Range(v3) \subseteq Transcript!Row
      /\ Transcript!Range(v12) \subseteq Transcript!Row /\ v14 <= Len(v1)
  BY <1>2, <1>4
<1> QED
  BY <1>1, <1>3, <1>5 DEF Transcript!TypeOK, Transcript!Shapes

LEMMA EventTypesInit ==
  ASSUME WebTail!Init
  PROVE  WebTail!TypeOK
  BY RecordsAssumption
     DEF WebTail!EventTailAssumption, WebTail!Init, WebTail!TypeOK, WebTail!Closed, WebTail!Seqs

LEMMA EventTypes ==
  ASSUME WebTail!IInv, WebTail!IInv', WebTail!TypeOK,
         WebTail!Next \/ UNCHANGED <<v1, v2, v3, v4, v5, v6, v7>>
  PROVE  WebTail!TypeOK'
<1> USE RecordsAssumption DEF WebTail!EventTailAssumption
<1>1. /\ v1' \in 0..MaxEvents /\ v2' \in [WebTail!Seqs -> {"none", "routine", "info", "kept"}]
      /\ v3' \subseteq 1..v1' /\ v6' \cup v7' \subseteq 1..v1'
  BY DEF WebTail!IInv, WebTail!NeverTwice
<1>2. v4' \subseteq v3'
  BY DEF WebTail!TypeOK, WebTail!Next, WebTail!Record, WebTail!Grow, WebTail!Prune, WebTail!Ceiling,
         WebTail!Answer
<1>3. /\ v1 \in Nat /\ v3 \subseteq 1..v1 /\ v1 <= MaxEvents
      /\ v5 \in [cursor : 0..MaxEvents, ceiling : 0..MaxEvents, at : {"closed", "seed", "rows", "open"}]
  BY DEF WebTail!TypeOK
<1>4. WebTail!Highest(v3) \in 0..MaxEvents
  <2>1. IsFiniteSet(v3)
    <3>1. IsFiniteSet(1..v1)
      <4>1. 1 \in Int /\ v1 \in Int
        BY <1>3
      <4> QED
        BY <4>1, FS_Interval, Zenon
    <3> QED
      BY <1>3, <3>1, FS_Subset, Zenon
  <2>2. v3 \subseteq Nat
    BY <1>3
  <2>3. CASE v3 = {}
    BY <2>3 DEF WebTail!Highest
  <2>4. CASE v3 # {}
    <3>1. \E n \in v3 : \A m \in v3 : m <= n
      BY <2>1, <2>2, <2>4, BestOfFinite, Zenon
    <3>2. WebTail!Highest(v3) \in v3
      BY <2>4, <3>1 DEF WebTail!Highest
    <3>3. WebTail!Highest(v3) \in 1..v1
      BY <1>3, <3>2
    <3> QED
      BY <1>3, <3>3
  <2> QED
    BY <2>3, <2>4
<1>5. v5' \in [cursor : 0..MaxEvents, ceiling : 0..MaxEvents, at : {"closed", "seed", "rows", "open"}]
  <2>1. CASE WebTail!Ceiling
    BY <1>3, <1>4, <2>1 DEF WebTail!Ceiling
  <2>2. CASE WebTail!Answer
    BY <1>3, <2>2 DEF WebTail!Answer, WebTail!NextCursor
  <2>3. CASE UNCHANGED v5
    BY <1>3, <2>3
  <2> QED
    BY <2>1, <2>2, <2>3 DEF WebTail!Next, WebTail!Record, WebTail!Grow, WebTail!Prune
<1> QED
  BY <1>1, <1>2, <1>5 DEF WebTail!TypeOK

\* A notice of the queue, v5; v1 is what each buyer waits for and since when.
Queued == [ref : Reminding!Refs, holdable : BOOLEAN]
\* With the queue as a sequence, and a message for every wait.
RemindingShapes ==
  Reminding!TypeOK /\ v5 \in Seq(Queued) /\ \A t \in SaleThreads : v1[t].age >= 0 => v1[t].msg > 0

LEMMA RemindingTypesInit ==
  ASSUME Reminding!Init
  PROVE  RemindingShapes
<1>1. WaitAge \in Nat /\ NudgeAge \in Nat /\ MaxMsgs \in Nat
  BY RecordsAssumption DEF Reminding!ProactiveAssumption
<1>2. /\ v1 = [t \in SaleThreads |-> [msg |-> 0, age |-> -1]] /\ v2 = {} /\ v4 = 0 /\ v5 = <<>>
      /\ v3 \in Reminding!Seller /\ v6 \in [Reminding!Refs -> Nat] /\ v7 = {} /\ v8 = FALSE
  BY DEF Reminding!Init, Reminding!Quiet, Reminding!Seller
<1>3. v5 \in Seq(Queued) /\ DOMAIN v5 = {}
  BY <1>2
<1>4. [msg |-> 0, age |-> -1] \in [msg : 0..MaxMsgs, age : -1..WaitAge]
  BY <1>1
<1>5. v1 \in [SaleThreads -> [msg : 0..MaxMsgs, age : -1..WaitAge]]
  BY <1>2, <1>4
<1>6. \A t \in SaleThreads : v1[t].age >= 0 => v1[t].msg > 0
  BY <1>2
<1>7. 0 \in 0..NudgeAge
  BY <1>1
<1>8. v7 \subseteq Reminding!Waits /\ v2 \subseteq SaleThreads /\ v8 \in BOOLEAN
  BY <1>2
<1>9. \A i \in DOMAIN v5 : v5[i] \in [ref : Reminding!Refs, holdable : BOOLEAN]
  BY <1>3
<1>10. Reminding!TypeOK
  BY <1>2, <1>5, <1>7, <1>8, <1>9, Zenon DEF Reminding!TypeOK
<1> QED
  BY <1>3, <1>6, <1>10, Zenon DEF RemindingShapes

LEMMA RemindingTypes ==
  ASSUME Reminding!IInv, Reminding!IInv', RemindingShapes,
         Reminding!Next \/ UNCHANGED <<v1, v2, v3, v4, v5, v6, v7, v8>>
  PROVE  RemindingShapes'
<1> USE RecordsAssumption DEF Reminding!ProactiveAssumption
<1> DEFINE B == [msg : 0..MaxMsgs, age : -1..WaitAge]
           Fits(b) == b \in B /\ (b.age >= 0 => b.msg > 0)
<1>1. v6' \in [Reminding!Refs -> Nat] /\ v8' \in BOOLEAN
  BY DEF Reminding!IInv
<1>2. /\ v1 \in [SaleThreads -> B] /\ v2 \subseteq SaleThreads /\ v3 \in Reminding!Seller /\ v4 \in 0..NudgeAge
      /\ v7 \subseteq Reminding!Waits /\ v5 \in Seq(Queued) /\ \A t \in SaleThreads : Fits(v1[t])
  BY DEF RemindingShapes, Reminding!TypeOK
<1>3. v1' \in [SaleThreads -> B] /\ \A t \in SaleThreads : Fits(v1'[t])
  <2>1. CASE Reminding!TimePasses
    <3>1. ASSUME NEW b \in B, Fits(b)
          PROVE  Fits([b EXCEPT !.age = Reminding!Older(@, WaitAge)])
      <4>1. b.age \in -1..WaitAge
        OBVIOUS
      <4>2. Reminding!Older(b.age, WaitAge) \in -1..WaitAge
        BY <4>1 DEF Reminding!Older
      <4>3. Reminding!Older(b.age, WaitAge) >= 0 => b.age >= 0
        BY <4>1 DEF Reminding!Older
      <4> QED
        BY <3>1, <4>2, <4>3
    <3>2. v1' = [t \in SaleThreads |-> [v1[t] EXCEPT !.age = Reminding!Older(@, WaitAge)]]
      BY <2>1 DEF Reminding!TimePasses
    <3>3. \A t \in SaleThreads : v1[t] \in B /\ Fits(v1[t])
      BY <1>2
    <3>4. \A t \in SaleThreads : v1'[t] \in B /\ Fits(v1'[t])
      BY <3>1, <3>2, <3>3
    <3> HIDE DEF Fits, B
    <3> QED
      BY <3>2, <3>4
  <2>2. ASSUME NEW t \in SaleThreads, Reminding!BuyerWrites(t)
        PROVE  v1' \in [SaleThreads -> B] /\ \A u \in SaleThreads : Fits(v1'[u])
    <3>1. v1' = [v1 EXCEPT ![t] = [msg |-> v1[t].msg + 1, age |-> 0]] /\ v1[t].msg < MaxMsgs
      BY <2>2 DEF Reminding!BuyerWrites
    <3>2. Fits([msg |-> v1[t].msg + 1, age |-> 0])
      BY <1>2, <3>1
    <3> HIDE DEF Fits, B
    <3>3. [msg |-> v1[t].msg + 1, age |-> 0] \in B
      BY <3>2 DEF Fits
    <3> QED
      BY <1>2, <3>1, <3>2, <3>3
  <2>3. ASSUME NEW t \in SaleThreads, Reminding!Answered(t)
        PROVE  v1' \in [SaleThreads -> B] /\ \A u \in SaleThreads : Fits(v1'[u])
    <3>1. v1' = [v1 EXCEPT ![t] = [v1[t] EXCEPT !.age = -1]]
      BY <1>2, <2>3 DEF Reminding!Answered
    <3>2. Fits([v1[t] EXCEPT !.age = -1])
      BY <1>2
    <3> HIDE DEF Fits, B
    <3>3. [v1[t] EXCEPT !.age = -1] \in B
      BY <3>2 DEF Fits
    <3> QED
      BY <1>2, <3>1, <3>2, <3>3
  <2>4. CASE UNCHANGED v1
    BY <1>2, <2>4
  <2> QED
    BY <2>1, <2>2, <2>3, <2>4 DEF Reminding!Next, Reminding!ReadWaits, Reminding!TellWait, Reminding!CheckNudge,
       Reminding!GiveNudge, Reminding!Drain, Reminding!Holds, Reminding!SellerChanges, Reminding!Crash
<1>4. v2' \subseteq SaleThreads
  BY <1>2 DEF Reminding!Next, Reminding!ReadWaits, Reminding!TellWait, Reminding!CheckNudge,
         Reminding!GiveNudge, Reminding!Drain, Reminding!Holds, Reminding!SellerChanges, Reminding!Crash,
         Reminding!TimePasses, Reminding!BuyerWrites, Reminding!Answered
<1>5. v3' \in Reminding!Seller /\ v4' \in 0..NudgeAge
  <2>1. CASE \E s \in Reminding!Seller : Reminding!SellerChanges(s)
    BY <1>2, <2>1 DEF Reminding!SellerChanges
  <2>2. CASE Reminding!TimePasses
    BY <1>2, <2>2 DEF Reminding!TimePasses, Reminding!Older
  <2>3. CASE UNCHANGED <<v3, v4>>
    BY <1>2, <2>3
  <2> QED
    BY <2>1, <2>2, <2>3 DEF Reminding!Next, Reminding!ReadWaits, Reminding!TellWait, Reminding!CheckNudge,
       Reminding!GiveNudge, Reminding!Drain, Reminding!Holds, Reminding!Crash, Reminding!BuyerWrites,
       Reminding!Answered
<1>6. v7' \subseteq Reminding!Waits
  <2>1. CASE Reminding!ReadWaits
    <3>1. ASSUME NEW t \in SaleThreads, v1[t].age >= 0
          PROVE  <<t, v1[t].msg>> \in Reminding!Waits
      <4>1. v1[t].msg \in 1..MaxMsgs
        BY <1>2, <3>1
      <4> QED
        BY <4>1 DEF Reminding!Waits
    <3> QED
      BY <2>1, <3>1 DEF Reminding!ReadWaits, Reminding!Waiting
  <2>2. CASE v7' \subseteq v7
    BY <1>2, <2>2
  <2> QED
    BY <2>1, <2>2 DEF Reminding!Next, Reminding!TellWait, Reminding!CheckNudge,
         Reminding!GiveNudge, Reminding!Drain, Reminding!Holds, Reminding!SellerChanges, Reminding!Crash,
         Reminding!TimePasses, Reminding!BuyerWrites, Reminding!Answered
<1>7. v5' \in Seq(Queued)
  <2>1. ASSUME NEW r \in Reminding!Refs, NEW h \in BOOLEAN, Reminding!QueueNotice(r, h)
        PROVE  v5' \in Seq(Queued)
    <3>1. [ref |-> r, holdable |-> h] \in Queued
      BY DEF Queued
    <3> QED
      BY <1>2, <2>1, <3>1, AppendProperties DEF Reminding!QueueNotice
  <2>2. CASE Reminding!Drain
    <3> DEFINE first == CHOOSE i \in Reminding!Due : \A j \in Reminding!Due : i <= j
    <3>1. Reminding!Due \subseteq 1..Len(v5) /\ Len(v5) \in Nat /\ Reminding!Due # {}
      BY <1>2, <2>2, LenProperties DEF Reminding!Due, Reminding!Drain
    <3>0. Reminding!Due \subseteq Nat
      BY <3>1
    <3>2. \E i \in Reminding!Due : \A j \in Reminding!Due : i <= j
      BY <3>0, <3>1, LeastOf, Zenon
    <3>3. first \in 1..Len(v5)
      BY <3>1, <3>2
    <3>4. v5' = SubSeq(v5, 1, first - 1) \o SubSeq(v5, first + 1, Len(v5))
      BY <2>2 DEF Reminding!Drain
    <3> HIDE DEF first
    <3>5. \A i \in 1..Len(v5) : v5[i] \in Queued
      BY <1>2, ElementOfSeq
    <3>6. SubSeq(v5, 1, first - 1) \in Seq(Queued) /\ SubSeq(v5, first + 1, Len(v5)) \in Seq(Queued)
      BY <1>2, <3>1, <3>3, <3>5, SubSeqProperties
    <3> QED
      BY <3>4, <3>6, ConcatProperties
  <2>3. CASE UNCHANGED v5
    BY <1>2, <2>3
  <2>4. ASSUME NEW w \in Reminding!Waits, Reminding!TellWait(w)
        PROVE  v5' \in Seq(Queued)
    BY <2>1, <2>3, <2>4 DEF Reminding!TellWait, Reminding!Refs
  <2>5. CASE Reminding!GiveNudge
    BY <2>1, <2>5 DEF Reminding!GiveNudge, Reminding!Refs
  <2> QED
    BY <2>2, <2>3, <2>4, <2>5 DEF Reminding!Next, Reminding!ReadWaits, Reminding!CheckNudge,
         Reminding!Holds, Reminding!SellerChanges, Reminding!Crash,
         Reminding!TimePasses, Reminding!BuyerWrites, Reminding!Answered
<1>8. \A i \in DOMAIN v5' : v5'[i] \in Queued
  BY <1>7, ElementOfSeq, LenProperties
<1> HIDE DEF B, Fits
<1>9. /\ v1' \in [SaleThreads -> [msg : 0..MaxMsgs, age : -1..WaitAge]]
      /\ \A t \in SaleThreads : v1'[t].age >= 0 => v1'[t].msg > 0
  BY <1>3 DEF B, Fits
<1> QED
  BY <1>1, <1>4, <1>5, <1>6, <1>7, <1>8, <1>9 DEF RemindingShapes, Reminding!TypeOK, Queued

\* With every token that is to be swapped in a real one.
ControlShapes == Control!TypeOK /\ \A r \in Requests : v4[r].at = "swap" => v4[r].new > 0

LEMMA ControlTypesInit ==
  ASSUME Control!Init
  PROVE  ControlShapes
  BY RecordsAssumption
     DEF Control!ControlAuthAssumption, Control!Init, ControlShapes, Control!TypeOK, Control!Idle, Control!NoTicket

LEMMA ControlTypes ==
  ASSUME Control!IInv, Control!IInv', ControlShapes,
         Control!Next \/ UNCHANGED <<v1, v2, v3, v4, v5, v6, v7, v8, v9>>
  PROVE  ControlShapes'
<1> DEFINE R == [at : {"idle", "write", "swap"}, new : 0..MaxTokens]
           Fits(r) == r \in R /\ (r.at = "swap" => r.new > 0)
<1> USE RecordsAssumption DEF Control!ControlAuthAssumption
<1>1. /\ v5' \in [Tickets -> {"unused", "live", "gone"}] /\ v8' \in [Tickets -> Nat]
      /\ v6' \in [Pages -> Tickets \cup {Control!NoTicket}] /\ v1' = v3'
  BY DEF Control!IInv
<1>2. /\ v1 \in 1..MaxTokens /\ v2 \in 1..MaxTokens /\ v3 \in 1..MaxTokens /\ v9 \subseteq 1..MaxTokens
      /\ v4 \in [Requests -> R] /\ \A r \in Requests : Fits(v4[r])
      /\ v7 \in [Pages -> 0..MaxTokens]
  BY DEF ControlShapes, Control!TypeOK
<1>3. v3' \in 1..MaxTokens
  <2>1. CASE v3' = v3 + 1 /\ v3 < MaxTokens
    BY <1>2, <2>1
  <2>2. CASE v3' = v3
    BY <1>2, <2>2
  <2> QED
    BY <2>1, <2>2 DEF Control!Next, Control!Rotate, Control!Write, Control!Swap, Control!Restart,
       Control!MintTicket, Control!Expire, Control!Redeem, Control!Exchange
<1>4. /\ v4' \in [Requests -> R] /\ \A r \in Requests : Fits(v4'[r])
  <2>1. ASSUME NEW r \in Requests, NEW e, Fits(e), v4' = [v4 EXCEPT ![r] = e]
        PROVE  v4' \in [Requests -> R] /\ \A q \in Requests : Fits(v4'[q])
    <3>1. e \in R
      BY <2>1
    <3> HIDE DEF R, Fits
    <3> QED
      BY <1>2, <2>1, <3>1
  <2>2. /\ Fits(Control!Idle) /\ Fits([at |-> "write", new |-> 0])
        /\ v3 < MaxTokens => Fits([at |-> "swap", new |-> v3 + 1])
    BY <1>2 DEF Control!Idle
  <2>3. ASSUME NEW r \in Requests, Control!Rotate(r)
        PROVE  v4' = [v4 EXCEPT ![r] = [at |-> "write", new |-> 0]]
    BY <2>3 DEF Control!Rotate
  <2>4. ASSUME NEW r \in Requests, Control!Write(r)
        PROVE  v4' = [v4 EXCEPT ![r] = [at |-> "swap", new |-> v3 + 1]] /\ v3 < MaxTokens
    BY <2>4 DEF Control!Write
  <2>5. ASSUME NEW r \in Requests, Control!Swap(r)
        PROVE  v4' = [v4 EXCEPT ![r] = Control!Idle]
    BY <2>5 DEF Control!Swap
  <2>6. Control!Restart => v4' = [r \in Requests |-> Control!Idle]
    BY DEF Control!Restart
  <2>7. Control!Idle \in R
    BY <2>2
  <2>8. \/ \E r \in Requests : Control!Rotate(r) \/ Control!Write(r) \/ Control!Swap(r)
        \/ Control!Restart \/ UNCHANGED v4
    BY DEF Control!Next, Control!MintTicket, Control!Expire, Control!Redeem, Control!Exchange
  <2> HIDE DEF Fits, R
  <2> QED
    BY <1>2, <2>1, <2>2, <2>3, <2>4, <2>5, <2>6, <2>7, <2>8
<1>5. v2' \in 1..MaxTokens
  <2>1. ASSUME NEW r \in Requests, Control!Swap(r)
        PROVE  v2' \in 1..MaxTokens
    <3>1. v2' = v4[r].new /\ v4[r].at = "swap" /\ Fits(v4[r])
      BY <1>2, <2>1 DEF Control!Swap
    <3> QED
      BY <3>1
  <2>2. CASE Control!Restart
    BY <1>2, <2>2 DEF Control!Restart
  <2>3. CASE UNCHANGED v2
    BY <1>2, <2>3
  <2> QED
    BY <2>1, <2>2, <2>3 DEF Control!Next, Control!Rotate, Control!Write, Control!MintTicket, Control!Expire,
       Control!Redeem, Control!Exchange
<1>6. v9' \subseteq 1..MaxTokens
  <2>1. v9' = v9 \/ v9' = v9 \cup {v2}
    BY DEF Control!Next, Control!Rotate, Control!Write, Control!MintTicket, Control!Expire,
       Control!Redeem, Control!Exchange, Control!Swap, Control!Restart, Control!Replaces
  <2> QED
    BY <1>2, <2>1
<1>7. v7' \in [Pages -> 0..MaxTokens]
  <2>1. v7' = v7 \/ \E p \in Pages : v7' = [v7 EXCEPT ![p] = v2]
    BY DEF Control!Next, Control!Rotate, Control!Write, Control!MintTicket, Control!Expire,
       Control!Redeem, Control!Exchange, Control!Swap, Control!Restart
  <2>2. v2 \in 0..MaxTokens
    BY <1>2
  <2> QED
    BY <1>2, <2>1, <2>2
<1> QED
  BY <1>1, <1>3, <1>4, <1>5, <1>6, <1>7 DEF ControlShapes, Control!TypeOK

\* With finitely many names registered, and so finitely many runs.
LanesShapes == Lanes!TypeOK /\ IsFiniteSet(v1) /\ IsFiniteSet(v4)

LEMMA LanesTypesInit ==
  ASSUME Lanes!Init
  PROVE  LanesShapes
<1>1. MaxRegs \in Nat /\ MaxFails \in Nat
  BY RecordsAssumption DEF Lanes!SchedulerAssumption
<1> QED
  BY <1>1, FS_EmptySet DEF Lanes!Init, LanesShapes, Lanes!TypeOK, Lanes!Fresh

\* What is made of each of finitely many runs is finite.
LEMMA ImageIsFinite ==
  ASSUME NEW R, IsFiniteSet(R)
  PROVE  IsFiniteSet({r.id : r \in R}) /\ Cardinality({r.id : r \in R}) <= Cardinality(R)
<1> DEFINE S == {r.id : r \in R}
           f == [r \in R |-> r.id]
<1>1. f \in [R -> S] /\ \A i \in S : \E r \in R : f[r] = i
  OBVIOUS
<1> HIDE DEF f, S
<1>2. f \in Surjection(R, S)
  BY <1>1 DEF Surjection
<1>3. IsFiniteSet(S) /\ Cardinality(S) <= Cardinality(R)
  BY <1>2, FS_Surjection
<1> QED
  BY <1>3 DEF S

\* Of one more number than there are runs, one is free.
LEMMA UnusedIsFree ==
  ASSUME IsFiniteSet(v4), NEW n
  PROVE  Lanes!Unused(n) \in Nat \ {0}
<1> DEFINE ids == {r.id : r \in v4}
           k == Cardinality(v4) + 1
<1>1. IsFiniteSet(ids) /\ Cardinality(ids) <= Cardinality(v4)
  BY ImageIsFinite
<1>2. Cardinality(v4) \in Nat /\ Cardinality(ids) \in Nat
  BY <1>1, FS_CardinalityType
<1>3. \A i : i \in ids <=> \E r \in v4 : r.id = i
  OBVIOUS
<1> HIDE DEF ids
<1>4. \E i \in 1..k : i \notin ids
  <2> SUFFICES ASSUME 1..k \subseteq ids PROVE FALSE
    OBVIOUS
  <2>1. Cardinality(1..k) = k
    <3>1. 1 \in Int /\ k \in Int /\ ~(1 > k) /\ k - 1 + 1 = k
      BY <1>2
    <3> QED
      BY <3>1, FS_Interval
  <2>2. Cardinality(1..k) <= Cardinality(ids)
    BY <1>1, FS_Subset
  <2> QED
    BY <1>1, <1>2, <2>1, <2>2
<1>5. Lanes!Unused(n) = CHOOSE i \in 1..k : \A r \in v4 : r.name = n => r.id # i
  BY LanesCardinality DEF Lanes!Unused
<1>6. \E i \in 1..k : \A r \in v4 : r.name = n => r.id # i
  BY <1>3, <1>4
<1>7. Lanes!Unused(n) \in 1..k
  BY <1>5, <1>6
<1> QED
  BY <1>2, <1>7

LEMMA LanesTypes ==
  ASSUME LanesShapes,
         Lanes!Next \/ UNCHANGED <<v1, v2, v3, v4>>
  PROVE  LanesShapes'
<1> DEFINE R == [name : LaneNames, id : Nat \ {0}, at : {"queued", "running"}]
           S == [due : BOOLEAN, backed : BOOLEAN, running : BOOLEAN, fails : 0..MaxFails,
                unsaid : BOOLEAN]
<1> USE RecordsAssumption DEF Lanes!SchedulerAssumption
<1>1. /\ v1 \subseteq LaneNames /\ v2 \in [LaneNames -> 0..MaxRegs] /\ v3 \in [LaneNames -> S] /\ v4 \subseteq R
      /\ IsFiniteSet(v1) /\ IsFiniteSet(v4)
  BY DEF LanesShapes, Lanes!TypeOK
<1>2. v1' \subseteq LaneNames /\ IsFiniteSet(v1')
  <2>1. \/ v1' \subseteq v1
        \/ \E n \in LaneNames : v1' = v1 \cup {n}
    BY DEF Lanes!Next, Lanes!Register, Lanes!Deregister, Lanes!Time, Lanes!Tick, Lanes!Begin, Lanes!StartUnsaid,
           Lanes!Succeed, Lanes!Fail
  <2>2. v1' \subseteq LaneNames
    BY <1>1, <2>1
  <2>3. IsFiniteSet(v1')
    BY <1>1, <2>1, FS_Subset, FS_AddElement
  <2> QED
    BY <2>2, <2>3
<1>4. v2' \in [LaneNames -> 0..MaxRegs]
  <2>1. \/ v2' = v2
        \/ \E n \in LaneNames : v2[n] < MaxRegs /\ v2' = [v2 EXCEPT ![n] = v2[n] + 1]
    BY DEF Lanes!Next, Lanes!Register, Lanes!Deregister, Lanes!Time, Lanes!Tick, Lanes!Begin, Lanes!StartUnsaid,
           Lanes!Succeed, Lanes!Fail
  <2> QED
    BY <1>1, <2>1
<1>5. v3' \in [LaneNames -> S]
  <2>0. Lanes!Fresh \in S
    BY DEF Lanes!Fresh
  <2>1. ASSUME NEW s \in S
        PROVE  /\ [s EXCEPT !.due = TRUE] \in S /\ [s EXCEPT !.backed = FALSE] \in S
               /\ [s EXCEPT !.running = TRUE, !.due = FALSE, !.unsaid = FALSE] \in S
               /\ [s EXCEPT !.fails = 0, !.backed = FALSE, !.running = FALSE] \in S
               /\ \A f \in 0..MaxFails : /\ [s EXCEPT !.fails = f] \in S
                                         /\ [s EXCEPT !.fails = f, !.backed = TRUE, !.running = FALSE] \in S
               /\ [s EXCEPT !.unsaid = TRUE] \in S
               /\ s.fails \in Nat
    <3>1. [s EXCEPT !.due = TRUE] \in S /\ [s EXCEPT !.backed = FALSE] \in S
      OBVIOUS
    <3>2. [s EXCEPT !.running = TRUE, !.due = FALSE, !.unsaid = FALSE] \in S
      OBVIOUS
    <3>3. 0 \in 0..MaxFails /\ s.fails \in 0..MaxFails
      OBVIOUS
    <3>4. ASSUME NEW f \in 0..MaxFails
          PROVE  [s EXCEPT !.fails = f] \in S
      OBVIOUS
    <3>5. ASSUME NEW f \in 0..MaxFails, NEW b \in BOOLEAN
          PROVE  [s EXCEPT !.fails = f, !.backed = b, !.running = FALSE] \in S
      OBVIOUS
    <3>9. [s EXCEPT !.unsaid = TRUE] \in S
      OBVIOUS
    <3>6. s.fails \in Nat
      BY <3>3
    <3> HIDE DEF S
    <3>7. [s EXCEPT !.fails = 0, !.backed = FALSE, !.running = FALSE] \in S
      BY <3>3, <3>5
    <3>8. \A f \in 0..MaxFails : [s EXCEPT !.fails = f, !.backed = TRUE, !.running = FALSE] \in S
      BY <3>5
    <3> QED
      BY <3>1, <3>2, <3>4, <3>6, <3>7, <3>8, <3>9, Zenon
  <2> HIDE DEF S
  <2>2. ASSUME NEW n \in LaneNames, NEW e \in S, v3' = [v3 EXCEPT ![n] = e]
        PROVE  v3' \in [LaneNames -> S]
    BY <1>1, <2>2
  <2>3. ASSUME NEW n \in LaneNames, Lanes!Register(n) \/ Lanes!Deregister(n)
        PROVE  v3' \in [LaneNames -> S]
    BY <1>1, <2>0, <2>2, <2>3 DEF Lanes!Register, Lanes!Deregister
  <2>4. ASSUME NEW n \in LaneNames, Lanes!Time(n)
        PROVE  v3' \in [LaneNames -> S]
    <3>1. v3' = [v3 EXCEPT ![n] = [v3[n] EXCEPT !.due = TRUE]] \/ v3' = [v3 EXCEPT ![n] = [v3[n] EXCEPT !.backed = FALSE]]
      BY <1>1, <2>4 DEF Lanes!Time
    <3> QED
      BY <1>1, <2>1, <2>2, <3>1
  <2>5. CASE Lanes!Tick
    <3>1. v3' = [n \in LaneNames |-> IF n \in Lanes!Due THEN [v3[n] EXCEPT !.running = TRUE, !.due = FALSE,
                                                                              !.unsaid = FALSE]
                                     ELSE v3[n]]
      BY <2>5 DEF Lanes!Tick
    <3>2. \A n \in LaneNames : v3[n] \in S
      BY <1>1
    <3> QED
      BY <2>1, <3>1, <3>2
  <2>6. ASSUME NEW r \in v4, Lanes!Succeed(r)
        PROVE  v3' \in [LaneNames -> S]
    <3>1. r.name \in LaneNames
      BY <1>1
    <3>2. v3[r.name] \in S
      BY <1>1, <3>1
    <3>3. v3' = v3 \/ v3' = [v3 EXCEPT ![r.name] = [v3[r.name] EXCEPT !.fails = 0, !.backed = FALSE, !.running = FALSE]]
      BY <1>1, <2>6, <3>1 DEF Lanes!Succeed
    <3> QED
      BY <1>1, <2>1, <2>2, <3>1, <3>2, <3>3
  <2>7. ASSUME NEW r \in v4, Lanes!Fail(r)
        PROVE  v3' \in [LaneNames -> S]
    <3> DEFINE f == v3[r.name].fails + 1
    <3>1. r.name \in LaneNames /\ f <= MaxFails
      BY <1>1, <2>7 DEF Lanes!Fail
    <3>2. v3[r.name] \in S
      BY <1>1, <3>1
    <3>3. f \in 0..MaxFails
      <4>1. v3[r.name].fails \in Nat
        BY <2>1, <3>2
      <4> QED
        BY <3>1, <4>1
    <3>4. \/ v3' = v3
          \/ v3' = [v3 EXCEPT ![r.name] = [v3[r.name] EXCEPT !.fails = f]]
          \/ v3' = [v3 EXCEPT ![r.name] = [v3[r.name] EXCEPT !.fails = f, !.backed = TRUE, !.running = FALSE]]
      BY <1>1, <2>7, <3>1 DEF Lanes!Fail
    <3> HIDE DEF f
    <3> QED
      BY <1>1, <2>1, <2>2, <3>1, <3>2, <3>3, <3>4
  <2>9. ASSUME NEW r \in v4, Lanes!StartUnsaid(r)
        PROVE  v3' \in [LaneNames -> S]
    <3>1. r.name \in LaneNames
      BY <1>1
    <3>2. v3[r.name] \in S
      BY <1>1, <3>1
    <3>3. v3' = v3 \/ v3' = [v3 EXCEPT ![r.name] = [v3[r.name] EXCEPT !.unsaid = TRUE]]
      BY <1>1, <2>9, <3>1 DEF Lanes!StartUnsaid
    <3> QED
      BY <1>1, <2>1, <2>2, <3>1, <3>2, <3>3
  <2>8. CASE UNCHANGED v3
    BY <1>1, <2>8
  <2> QED
    BY <2>3, <2>4, <2>5, <2>6, <2>7, <2>8, <2>9 DEF Lanes!Next, Lanes!Begin
<1>6. v4' \subseteq R /\ IsFiniteSet(v4')
  <2>1. CASE Lanes!Tick
    <3> DEFINE new == {[name |-> n, id |-> Lanes!Unused(n), at |-> "queued"] : n \in Lanes!Due}
    <3>1. v4' = v4 \cup new
      BY <2>1 DEF Lanes!Tick
    <3>2. Lanes!Due \subseteq v1
      BY DEF Lanes!Due
    <3>3. new \subseteq R
      BY <1>1, <3>2, UnusedIsFree
    <3>4. IsFiniteSet(Lanes!Due)
      BY <1>1, <3>2, FS_Subset
    <3>5. IsFiniteSet(new)
      <4> DEFINE f == [n \in Lanes!Due |-> [name |-> n, id |-> Lanes!Unused(n), at |-> "queued"]]
      <4>1. f \in [Lanes!Due -> new] /\ \A r \in new : \E n \in Lanes!Due : f[n] = r
        OBVIOUS
      <4> HIDE DEF f, new
      <4>2. f \in Surjection(Lanes!Due, new)
        BY <4>1 DEF Surjection
      <4> QED
        BY <3>4, <4>2, FS_Surjection
    <3> HIDE DEF new, R
    <3> QED
      BY <1>1, <3>1, <3>3, <3>5, FS_Union
  <2>2. ASSUME NEW r \in v4, Lanes!Begin(r)
        PROVE  v4' \subseteq R /\ IsFiniteSet(v4')
    <3>1. v4' = (v4 \ {r}) \cup {[r EXCEPT !.at = "running"]}
      BY <2>2 DEF Lanes!Begin
    <3>2. [r EXCEPT !.at = "running"] \in R
      BY <1>1
    <3> HIDE DEF R
    <3>3. IsFiniteSet(v4 \ {r})
      BY <1>1, FS_Subset
    <3> QED
      BY <1>1, <3>1, <3>2, <3>3, FS_AddElement
  <2>3. CASE v4' \subseteq v4
    BY <1>1, <2>3, FS_Subset
  <2> QED
    BY <2>1, <2>2, <2>3 DEF Lanes!Next, Lanes!Register, Lanes!Deregister, Lanes!Time,
       Lanes!StartUnsaid, Lanes!Succeed, Lanes!Fail
<1> QED
  BY <1>2, <1>4, <1>5, <1>6 DEF LanesShapes, Lanes!TypeOK

\* Only a seller with a round left is countered.
LEMMA CounterHasRound ==
  ASSUME Buying!IInv, Buying!TypeOK, NEW t \in BuySellers, NEW p \in Asks, NEW b \in Budgets,
         Buying!DecideReply(t, p, b).decision = "counter"
  PROVE  Buying!Entry(t).rounds + 1 <= Rounds
<1>1. Rounds \in Nat \ {0} /\ v5[t].rounds \in 0..Rounds
  BY RecordsAssumption DEF Buying!BuySideAssumption, Buying!TypeOK
<1>2. v5[t].rounds < Rounds
  BY <1>1 DEF Buying!DecideReply, Buying!InBudget, Buying!OverBudget, Buying!Said
<1> QED
  BY <1>1, <1>2 DEF Buying!Entry, Buying!Blank

LEMMA BuyingTypesInit ==
  ASSUME Buying!Init
  PROVE  Buying!TypeOK
  BY RecordsAssumption
     DEF Buying!BuySideAssumption, Buying!Init, Buying!TypeOK, Buying!Unset, Buying!Unread, Buying!Blank,
         Buying!Status

LEMMA BuyingTypes ==
  ASSUME Buying!IInv, Buying!IInv', Buying!TypeOK,
         Buying!Next \/ UNCHANGED <<v1, v2, v3, v4, v5, v6>>
  PROVE  Buying!TypeOK'
<1>0. Rounds \in Nat \ {0}
  BY RecordsAssumption DEF Buying!BuySideAssumption
<1>1. v2' \in [BuyCalls -> [max : Nat, target : Nat]]
  <2>1. v2' \in [BuyCalls -> Budgets \cup {Buying!Unread}]
    BY DEF Buying!IInv
  <2>2. \A b \in Budgets \cup {Buying!Unread} : b \in [max : Nat, target : Nat]
    BY RecordsAssumption DEF Buying!Unread, Buying!BuySideAssumption, Buying!Budget
  <2> QED
    BY <2>1, <2>2
<1>2. v1' \in [max : Nat, target : Nat, source : {"none", "buyer", "default"}]
  <2>1. ASSUME NEW b \in Budgets, NEW s \in {"buyer", "default"}, NEW f \in BOOLEAN, Buying!SetBudget(b, s, f)
        PROVE  v1' \in [max : Nat, target : Nat, source : {"none", "buyer", "default"}]
    BY <2>1, BudgetParts DEF Buying!SetBudget
  <2>2. CASE UNCHANGED v1
    BY <2>2 DEF Buying!TypeOK
  <2> QED
    BY <2>1, <2>2 DEF Buying!Next, Buying!ReadBudget, Buying!Accept, Buying!Open, Buying!Reply, Buying!Walk,
       Buying!Seed, Buying!Done
<1>3. v3' \in {"shopping", "committed"} /\ v4' \in BuySellers \cup {"none"}
  <2>1. ASSUME NEW t \in BuySellers, NEW c \in BuyCalls, Buying!Accept(c, t)
        PROVE  v3' = "committed" /\ v4' \in BuySellers
    BY <2>1 DEF Buying!Accept
  <2>2. ASSUME NEW t \in BuySellers, NEW c \in BuyCalls, NEW p \in Asks, Buying!Open(c, t, p) \/ Buying!Reply(c, t, p)
        PROVE  UNCHANGED <<v3, v4>>
    BY <2>2 DEF Buying!Open, Buying!Reply
  <2>3. ASSUME NEW t \in BuySellers, NEW p \in Asks, NEW n \in 0..Rounds, Buying!Walk(t) \/ Buying!Seed(t, p, n)
        PROVE  UNCHANGED <<v3, v4>>
    BY <2>3 DEF Buying!Walk, Buying!Seed
  <2>4. \A t \in BuySellers : Buying!Walk(t) => UNCHANGED <<v3, v4>>
    BY DEF Buying!Walk
  <2>5. v3 \in {"shopping", "committed"} /\ v4 \in BuySellers \cup {"none"}
    BY DEF Buying!TypeOK
  <2> QED
    BY <2>1, <2>2, <2>3, <2>4, <2>5 DEF Buying!Next, Buying!SetBudget, Buying!ReadBudget
<1>4. \A s \in BuySellers : v5'[s].rounds <= Rounds
  <2>1. \A s \in BuySellers : v5[s].rounds <= Rounds /\ v5[s].rounds \in Nat
    BY <1>0 DEF Buying!TypeOK
  <2>2. \A t \in BuySellers : Buying!Entry(t).rounds <= Rounds /\ Buying!Entry(t).rounds \in Nat
    BY <1>0, <2>1 DEF Buying!Entry, Buying!Blank
  <2>3. ASSUME NEW t \in BuySellers, NEW e, e.rounds <= Rounds, v5' = [v5 EXCEPT ![t] = e]
        PROVE  \A s \in BuySellers : v5'[s].rounds <= Rounds
    BY <2>1, <2>3 DEF Buying!IInv
  <2>4. \A t \in BuySellers : Buying!Entry(t) \in Row
    BY EntryIsRow
  <2>5. CASE UNCHANGED v5
    BY <2>1, <2>5
  <2>6. ASSUME NEW t \in BuySellers, NEW p \in Asks, NEW n \in 0..Rounds, Buying!Seed(t, p, n)
        PROVE  \A s \in BuySellers : v5'[s].rounds <= Rounds
    <3> DEFINE m == Buying!Larger(Buying!Entry(t).rounds, n)
               e == [Buying!Entry(t) EXCEPT !.status = "negotiating",
                         !.last = IF p > 0 THEN p ELSE @, !.rounds = Buying!Larger(@, n)]
    <3>1. v5' = [v5 EXCEPT ![t] = e]
      BY <2>6 DEF Buying!Seed, Buying!Answer
    <3>2. m <= Rounds
      BY <1>0, <2>2 DEF Buying!Larger
    <3>3. e.rounds = m
      BY <2>4 DEF Row
    <3> HIDE DEF e, m
    <3>4. e.rounds <= Rounds
      BY <3>2, <3>3
    <3> QED
      BY <2>3, <3>1, <3>4
  <2>7. ASSUME NEW t \in BuySellers, NEW c \in BuyCalls, NEW p \in Asks, Buying!Open(c, t, p)
        PROVE  \A s \in BuySellers : v5'[s].rounds <= Rounds
    <3>1. PICK e : /\ v5' = v5 \/ v5' = [v5 EXCEPT ![t] = e]
                   /\ \/ \E n : e = [Buying!Entry(t) EXCEPT !.status = "deal_pending", !.agreed = n]
                      \/ \E n : e = [Buying!Entry(t) EXCEPT !.last = n]
      BY <2>7 DEF Buying!Open, Buying!Answer
    <3>2. e.rounds = Buying!Entry(t).rounds
      BY <2>4, <3>1 DEF Row
    <3> QED
      BY <2>2, <2>3, <2>5, <3>1, <3>2
  <2>8. ASSUME NEW t \in BuySellers, NEW c \in BuyCalls, NEW p \in Asks, Buying!Reply(c, t, p)
        PROVE  \A s \in BuySellers : v5'[s].rounds <= Rounds
    <3> DEFINE answer == Buying!DecideReply(t, p, v2[c])
               entry == CASE answer.decision = "counter" ->
                      [Buying!Entry(t) EXCEPT !.last = answer.price, !.rounds = @ + 1]
                 [] answer.decision = "accept" ->
                      [Buying!Entry(t) EXCEPT !.status = "deal_pending", !.agreed = answer.price]
                 [] answer.decision = "walk_away" -> [Buying!Entry(t) EXCEPT !.status = "walked"]
                 [] OTHER -> Buying!Entry(t)
    <3>1. v5' = v5 \/ v5' = [v5 EXCEPT ![t] = entry]
      BY <2>8 DEF Buying!Reply, Buying!Answer
    <3>2. v2[c] \in Budgets
      BY <2>8 DEF Buying!Reply, Buying!IInv
    <3>3. answer.decision = "counter" => Buying!Entry(t).rounds + 1 <= Rounds
      BY <3>2, CounterHasRound
    <3>4. entry.rounds <= Rounds
      <4> HIDE DEF answer
      <4>1. CASE answer.decision = "counter"
        <5>1. entry = [Buying!Entry(t) EXCEPT !.last = answer.price, !.rounds = Buying!Entry(t).rounds + 1]
          BY <4>1, <2>4 DEF Row
        <5>2. entry.rounds = Buying!Entry(t).rounds + 1
          BY <5>1, <2>4 DEF Row
        <5> QED
          BY <3>3, <4>1, <5>2
      <4>2. CASE answer.decision # "counter"
        <5>1. \/ \E n : entry = [Buying!Entry(t) EXCEPT !.status = "deal_pending", !.agreed = n]
              \/ entry = [Buying!Entry(t) EXCEPT !.status = "walked"]
              \/ entry = Buying!Entry(t)
          BY <4>2
        <5>2. entry.rounds = Buying!Entry(t).rounds
          BY <2>4, <5>1 DEF Row
        <5> QED
          BY <2>2, <5>2
      <4> QED
        BY <4>1, <4>2
    <3> HIDE DEF entry, answer
    <3> QED
      BY <2>3, <2>5, <3>1, <3>4
  <2>9. ASSUME NEW t \in BuySellers, NEW c \in BuyCalls, Buying!Accept(c, t)
        PROVE  \A s \in BuySellers : v5'[s].rounds <= Rounds
    <3>1. \A s \in BuySellers : v5[s] \in Row
      BY DEF Buying!IInv, Row
    <3>2. \A s \in BuySellers : v5'[s].rounds = v5[s].rounds
      BY <2>9, <3>1 DEF Buying!Accept, Row
    <3> QED
      BY <2>1, <3>2
  <2>10. ASSUME NEW t \in BuySellers, Buying!Walk(t)
         PROVE  \A s \in BuySellers : v5'[s].rounds <= Rounds
    <3>1. v5' = [v5 EXCEPT ![t] = [v5[t] EXCEPT !.status = "walked"]] /\ v5[t] \in Row
      BY <2>10 DEF Buying!Walk, Buying!Answer, Buying!IInv, Row
    <3>2. [v5[t] EXCEPT !.status = "walked"].rounds = v5[t].rounds
      BY <3>1 DEF Row
    <3> QED
      BY <2>1, <2>3, <3>1, <3>2
  <2> QED
    BY <2>5, <2>6, <2>7, <2>8, <2>9, <2>10 DEF Buying!Next, Buying!SetBudget, Buying!ReadBudget
<1>5. v5' \in [BuySellers -> [status : Buying!Status, last : Nat, rounds : 0..Rounds, agreed : Nat]]
  <2>1. v5' \in [BuySellers -> [status : Buying!Status, last : Nat, rounds : Nat, agreed : Nat]]
    BY DEF Buying!IInv
  <2>2. ASSUME NEW s \in BuySellers
        PROVE  v5'[s] \in [status : Buying!Status, last : Nat, rounds : 0..Rounds, agreed : Nat]
    <3>1. v5'[s] \in [status : Buying!Status, last : Nat, rounds : Nat, agreed : Nat] /\ v5'[s].rounds <= Rounds
      BY <1>4, <2>1
    <3>2. v5'[s].rounds \in 0..Rounds
      BY <1>0, <3>1
    <3> QED
      BY <3>1, <3>2
  <2> QED
    BY <2>1, <2>2
<1> QED
  BY <1>1, <1>2, <1>3, <1>5 DEF Buying!TypeOK

\* With a link for every call that is to record one.
GateShapes == Gate!TypeOK /\ \A c \in SaleCalls : v5[c].at = "record" => v5[c].link \in 1..MaxMinted

LEMMA GateTypesInit ==
  ASSUME Gate!Init
  PROVE  GateShapes
<1>1. SaleList \in Nat \ {0} /\ MaxMinted \in Nat
  BY RecordsAssumption DEF Gate!CheckoutAssumption
<1>2. 0 \in 0..SaleList /\ 0 \in 0..MaxMinted /\ SaleList \in 1..SaleList
  BY <1>1
<1>3. Gate!TypeOK
  BY <1>2 DEF Gate!Init, Gate!TypeOK, Gate!NoFloor
<1>4. \A c \in SaleCalls : v5[c].at # "record"
  BY DEF Gate!Init, Gate!Done
<1> QED
  BY <1>3, <1>4 DEF GateShapes

LEMMA GateTypes ==
  ASSUME Gate!IInv, Gate!IInv', GateShapes,
         Gate!Next \/ UNCHANGED <<v1, v2, v3, v4, v5, v6, v7>>
  PROVE  GateShapes'
<1>0. SaleList \in Nat \ {0} /\ MaxMinted \in Nat /\ SaleFloors \subseteq 1..SaleList
  BY RecordsAssumption DEF Gate!CheckoutAssumption
<1>1. /\ v1 \in [value : 0..SaleList, source : {"none", "seller", "default"}]
      /\ v2 \in BOOLEAN /\ v4 \in 0..MaxMinted /\ v7 \in 1..SaleList
      /\ v3 \in [Gate!Sales -> 0..MaxMinted]
      /\ \A c \in SaleCalls : v5[c].at = "record" => v5[c].link \in 1..MaxMinted
  BY DEF GateShapes, Gate!TypeOK
<1>2. v1' \in [value : 0..SaleList, source : {"none", "seller", "default"}]
  <2>1. \/ v1' = v1
        \/ v1' = [value |-> SaleList, source |-> "default"]
        \/ \E v \in SaleFloors, s \in {"seller", "default"} : v1' = [value |-> v, source |-> s]
    BY DEF Gate!Next, Gate!Begin, Gate!Gate, Gate!Mint, Gate!Fail, Gate!Record, Gate!SetFloor, Gate!SetPublished
  <2> QED
    BY <1>0, <1>1, <2>1
<1>3. v2' \in BOOLEAN
  BY <1>1 DEF Gate!Next, Gate!Begin, Gate!Gate, Gate!Mint, Gate!Fail, Gate!Record, Gate!SetFloor,
              Gate!SetPublished
<1>4. v4' \in 0..MaxMinted
  <2>1. v4' = v4 \/ (v4 < MaxMinted /\ v4' = v4 + 1)
    BY DEF Gate!Next, Gate!Begin, Gate!Gate, Gate!Mint, Gate!Fail, Gate!Record, Gate!SetFloor, Gate!SetPublished
  <2> QED
    BY <1>0, <1>1, <2>1
<1>5. v7' \in 1..SaleList
  <2>1. v7' = v7 \/ \E v \in SaleFloors : v7' = Gate!Smaller(v7, v)
    BY DEF Gate!Next, Gate!Begin, Gate!Gate, Gate!Mint, Gate!Fail, Gate!Record, Gate!SetFloor, Gate!SetPublished
  <2> QED
    BY <1>0, <1>1, <2>1 DEF Gate!Smaller
<1>6. \A c \in SaleCalls : v5'[c].at = "record" => v5'[c].link \in 1..MaxMinted
  <2>0. \A c \in SaleCalls : v5[c] = Gate!Done \/ v5[c] \in Under
    BY DEF Gate!IInv, Under
  <2>1. ASSUME NEW c \in SaleCalls, NEW e, v5' = [v5 EXCEPT ![c] = e], e.at = "record" => e.link \in 1..MaxMinted
        PROVE  \A d \in SaleCalls : v5'[d].at = "record" => v5'[d].link \in 1..MaxMinted
    BY <1>1, <2>1 DEF Gate!IInv
  <2>2. Gate!Done.at # "record"
    BY DEF Gate!Done
  <2>3. CASE UNCHANGED v5
    BY <1>1, <2>3
  <2>4. ASSUME NEW c \in SaleCalls, Gate!Ends(c)
        PROVE  \A d \in SaleCalls : v5'[d].at = "record" => v5'[d].link \in 1..MaxMinted
    BY <2>1, <2>2, <2>4 DEF Gate!Ends
  <2>5. ASSUME NEW c \in SaleCalls, NEW s \in Gate!Sales, Gate!Begin(c, s)
        PROVE  \A d \in SaleCalls : v5'[d].at = "record" => v5'[d].link \in 1..MaxMinted
    <3>1. v5' = v5 \/ v5' = [v5 EXCEPT ![c] = [at |-> "gate", sale |-> s, link |-> 0, listed |-> v2]]
      BY <2>5 DEF Gate!Begin
    <3> QED
      BY <2>1, <2>3, <3>1
  <2>6. ASSUME NEW c \in SaleCalls, Gate!Gate(c)
        PROVE  \A d \in SaleCalls : v5'[d].at = "record" => v5'[d].link \in 1..MaxMinted
    <3>1. Gate!Ends(c) \/ v5' = [v5 EXCEPT ![c] = [v5[c] EXCEPT !.at = "mint"]]
      BY <2>6 DEF Gate!Gate, Gate!IInv
    <3>2. v5[c] \in Under
      BY <2>0, <2>6 DEF Gate!Gate, Gate!Done
    <3>3. [v5[c] EXCEPT !.at = "mint"].at = "mint"
      BY <3>2 DEF Under
    <3> QED
      BY <2>1, <2>4, <3>1, <3>3
  <2>7. ASSUME NEW c \in SaleCalls, Gate!Mint(c)
        PROVE  \A d \in SaleCalls : v5'[d].at = "record" => v5'[d].link \in 1..MaxMinted
    <3>1. Gate!Ends(c) \/ v5' = [v5 EXCEPT ![c] = [v5[c] EXCEPT !.at = "record", !.link = v4 + 1]]
      BY <2>7 DEF Gate!Mint, Gate!IInv
    <3>2. v5[c] \in Under /\ v4 < MaxMinted
      BY <2>0, <2>7 DEF Gate!Mint, Gate!Done
    <3>3. [v5[c] EXCEPT !.at = "record", !.link = v4 + 1].link = v4 + 1
      BY <3>2 DEF Under
    <3>4. v4 + 1 \in 1..MaxMinted
      BY <1>0, <1>1, <3>2
    <3> QED
      BY <2>1, <2>4, <3>1, <3>3, <3>4
  <2> QED
    BY <2>3, <2>4, <2>5, <2>6, <2>7
       DEF Gate!Next, Gate!Fail, Gate!Record, Gate!SetFloor, Gate!SetPublished
<1>7. v3' \in [Gate!Sales -> 0..MaxMinted]
  <2>1. ASSUME NEW c \in SaleCalls, Gate!Record(c)
        PROVE  v3' \in [Gate!Sales -> 0..MaxMinted]
    <3>1. v3' = [v3 EXCEPT ![v5[c].sale] = IF @ = 0 THEN v5[c].link ELSE @] /\ v5[c].at = "record"
      BY <2>1 DEF Gate!Record
    <3>2. v5[c].link \in 0..MaxMinted
      BY <1>1, <3>1
    <3> QED
      BY <1>1, <3>1, <3>2
  <2>2. CASE UNCHANGED v3
    BY <1>1, <2>2
  <2> QED
    BY <2>1, <2>2
       DEF Gate!Next, Gate!Begin, Gate!Gate, Gate!Mint, Gate!Fail, Gate!SetFloor, Gate!SetPublished
<1>8. v6' \in [Gate!Sales -> SUBSET (1..MaxMinted)]
  <2>1. v6' \in [Gate!Sales -> SUBSET Nat]
    BY DEF Gate!IInv
  <2>2. \A s \in Gate!Sales : v6'[s] # {} => v3'[s] # 0 /\ v6'[s] = {v3'[s]}
    BY DEF Gate!IInv, Gate!ToldIsRecorded
  <2>3. ASSUME NEW s \in Gate!Sales
        PROVE  v6'[s] \subseteq 1..MaxMinted
    <3>1. v3'[s] \in 0..MaxMinted
      BY <1>7
    <3>2. v3'[s] # 0 => v3'[s] \in 1..MaxMinted
      BY <1>0, <3>1
    <3> QED
      BY <2>2, <3>2
  <2> QED
    BY <2>1, <2>3
<1> QED
  BY <1>2, <1>3, <1>4, <1>5, <1>6, <1>7, <1>8 DEF GateShapes, Gate!TypeOK

\* With a target for every candidate to act on.
MemoryShapes == Memory!TypeOK /\ \A i \in DOMAIN v3 : v3[i].selector.target \in Targets

LEMMA MemoryTypesInit ==
  ASSUME Memory!Init
  PROVE  MemoryShapes
<1>1. StaleFails \in Nat \ {0} /\ StaleAge \in Nat /\ ShippedTarget \in Targets /\ ThreadPage \in SitePages
  BY RecordsAssumption DEF Memory!SelectorsAssumption
<1>2. -1 \in -1..StaleFails /\ 0 \in 0..(StaleAge + 1)
  BY <1>1
<1>3. Memory!NoRow \in [selector : Memory!Selector, fails : -1..StaleFails, age : 0..(StaleAge + 1)]
  BY <1>1, <1>2 DEF Memory!NoRow, Memory!Shipped, Memory!Selector
<1>4. v3 = <<>> /\ DOMAIN v3 = {} /\ Len(v3) = 0
  BY DEF Memory!Init
<1> QED
  BY <1>3, <1>4 DEF Memory!Init, MemoryShapes, Memory!TypeOK

LEMMA CandidatesAct ==
  ASSUME NEW i \in DOMAIN Memory!Candidates(v1), v1.selector \in Memory!Selector
  PROVE  Memory!Candidates(v1)[i].selector.target \in Targets
<1> DEFINE heal == IF v1 # Memory!NoRow /\ ~Memory!Stale(v1) /\ v1.selector.target # NoTarget
                   THEN <<[selector |-> v1.selector, source |-> "cache"]>> ELSE <<>>
           ship == [selector |-> Memory!Shipped, source |-> "shipped"]
<1>1. ShippedTarget \in Targets
  BY RecordsAssumption DEF Memory!SelectorsAssumption
<1>2. heal = <<>> \/ (heal = <<[selector |-> v1.selector, source |-> "cache"]>> /\ v1.selector.target \in Targets)
  BY DEF Memory!Selector
<1>3. Memory!Candidates(v1) = heal \/ Memory!Candidates(v1) = Append(heal, ship)
  BY DEF Memory!Candidates
<1>4. ship.selector.target \in Targets
  BY <1>1 DEF Memory!Shipped
<1> HIDE DEF heal, ship
<1>5. CASE heal = <<>>
  <2>1. Memory!Candidates(v1) = <<>> \/ Memory!Candidates(v1) = <<ship>>
    BY <1>3, <1>5
  <2>2. Memory!Candidates(v1) = <<ship>> /\ i = 1
    BY <2>1
  <2> QED
    BY <1>4, <2>2
<1>6. CASE heal = <<[selector |-> v1.selector, source |-> "cache"]>> /\ v1.selector.target \in Targets
  <2> DEFINE h == [selector |-> v1.selector, source |-> "cache"]
  <2>1. h.selector.target \in Targets
    BY <1>6
  <2>2. heal = <<h>>
    BY <1>6
  <2> HIDE DEF h
  <2>3. Memory!Candidates(v1) = <<h>> \/ Memory!Candidates(v1) = <<h, ship>>
    BY <1>3, <2>2
  <2>4. Memory!Candidates(v1)[i] \in {h, ship}
    BY <2>3
  <2> QED
    BY <1>4, <2>1, <2>4
<1> QED
  BY <1>2, <1>5, <1>6

LEMMA MemoryTypes ==
  ASSUME Memory!IInv, Memory!IInv', MemoryShapes,
         Memory!Next \/ UNCHANGED <<v1, v2, v3, v4, v5, v6>>
  PROVE  MemoryShapes'
<1> DEFINE Row0 == [selector : Memory!Selector, fails : -1..StaleFails, age : 0..(StaleAge + 1)]
           Candidate == [selector : Memory!Selector, source : {"cache", "shipped"}]
<1>0. StaleFails \in Nat \ {0} /\ StaleAge \in Nat
  BY RecordsAssumption DEF Memory!SelectorsAssumption
<1>1. v1 \in Row0 /\ v2 \in Memory!Page /\ v5 \subseteq Targets
      /\ \A i \in DOMAIN v3 : v3[i].selector.target \in Targets
  BY DEF MemoryShapes, Memory!TypeOK
<1>2. v3' \in Seq(Candidate) /\ Len(v3') <= 2 /\ v6' \in Nat
  BY DEF Memory!IInv
<1>3. v4' \in {"none", "looking", "found", "gave_up", "error"}
  BY DEF MemoryShapes, Memory!TypeOK, Memory!Next, Memory!Begin, Memory!Found, Memory!Missed, Memory!Broken,
         Memory!Invalidate, Memory!GrowOld, Memory!Record, Memory!PageMoves
<1>4. v2' \in Memory!Page
  BY <1>1 DEF Memory!Next, Memory!Begin, Memory!Found, Memory!Missed, Memory!Broken,
         Memory!Invalidate, Memory!GrowOld, Memory!Record, Memory!PageMoves
<1>5. v1' \in Row0
  <2>1. v1' \in [selector : Memory!Selector, fails : Int, age : Nat]
    BY DEF Memory!IInv
  <2>2. v1'.fails \in -1..StaleFails
    <3>1. CASE v1' = Memory!NoRow
      BY <1>0, <3>1 DEF Memory!NoRow
    <3>2. CASE v1' # Memory!NoRow
      BY <1>0, <3>2 DEF Memory!IInv, Memory!MissesAreCounted
    <3> QED
      BY <3>1, <3>2
  <2>3. v1'.age \in 0..(StaleAge + 1)
    <3>1. v1.age \in 0..(StaleAge + 1)
      BY <1>1
    <3>2. \/ v1' = v1 \/ v1' = Memory!NoRow \/ v1' = [v1 EXCEPT !.fails = @ + 1]
          \/ v1.age <= StaleAge /\ v1' = [v1 EXCEPT !.age = @ + 1]
          \/ \E s \in Memory!Selector : v1' = [selector |-> s, fails |-> 0, age |-> 0]
      BY DEF Memory!Next, Memory!Begin, Memory!Found, Memory!Missed, Memory!CountMiss, Memory!Broken,
             Memory!Invalidate, Memory!GrowOld, Memory!Record, Memory!PageMoves
    <3>3. \/ v1'.age = v1.age \/ v1'.age = 0 \/ (v1.age <= StaleAge /\ v1'.age = v1.age + 1)
      BY <1>1, <3>2 DEF Memory!NoRow
    <3> QED
      BY <1>0, <3>1, <3>3
  <2> QED
    BY <2>1, <2>2, <2>3
<1>6. v5' \subseteq Targets
  <2>1. \/ v5' = v5 \/ v5' = {}
        \/ v3 # <<>> /\ v5' = v5 \cup {Head(v3).selector.target}
    BY DEF Memory!Next, Memory!Begin, Memory!Found, Memory!Missed, Memory!Broken, Memory!Probed,
           Memory!Invalidate, Memory!GrowOld, Memory!Record, Memory!PageMoves
  <2>2. v3 # <<>> => Head(v3).selector.target \in Targets
    <3>1. v3 \in Seq(Candidate)
      BY DEF Memory!IInv
    <3>2. v3 # <<>> => Head(v3) = v3[1] /\ 1 \in DOMAIN v3
      BY <3>1
    <3> QED
      BY <1>1, <3>2
  <2> QED
    BY <1>1, <2>1, <2>2
<1>7. \A i \in DOMAIN v3' : v3'[i].selector.target \in Targets
  <2>1. CASE UNCHANGED v3
    BY <1>1, <2>1
  <2>2. CASE v3' = <<>>
    BY <2>2
  <2>3. CASE Memory!Begin
    <3>1. v3' = Memory!Candidates(v1) /\ v1.selector \in Memory!Selector
      BY <1>1, <2>3 DEF Memory!Begin
    <3> QED
      BY <3>1, CandidatesAct
  <2>4. CASE v3 # <<>> /\ v3' = Tail(v3)
    <3>1. v3 \in Seq(Candidate)
      BY DEF Memory!IInv
    <3>2. \A i \in DOMAIN v3' : i + 1 \in DOMAIN v3 /\ v3'[i] = v3[i + 1]
      BY <2>4, <3>1
    <3> QED
      BY <1>1, <3>2
  <2> QED
    BY <2>1, <2>2, <2>3, <2>4 DEF Memory!Next, Memory!Found, Memory!Missed, Memory!Broken,
           Memory!Invalidate, Memory!GrowOld, Memory!Record, Memory!PageMoves
<1>8. \A i \in DOMAIN v3' : v3'[i] \in Candidate
  <2> HIDE DEF Candidate
  <2> QED
    BY <1>2, ElementOfSeq, LenProperties
<1> QED
  BY <1>2, <1>3, <1>4, <1>5, <1>6, <1>7, <1>8 DEF MemoryShapes, Memory!TypeOK

\* What was read of a market is typed; what was legible there shows as known.
LEMMA AfterReadKeeps ==
  ASSUME v1 \in [Markets -> [Pair -> Watch!Chat]], NEW m \in Markets, NEW a, NEW legible, NEW illegible,
         Watch!AfterRead(m, a, legible, illegible)
  PROVE  /\ v1' \in [Markets -> [Pair -> Watch!Chat]]
         /\ \A c \in Pair : c \in legible => ~v1'[m][c].fresh /\ v1'[m][c].alike
<1> DEFINE known(c) == IF c \in a THEN Watch!Created(v1[m][c]) ELSE v1[m][c]
           next == [c \in Pair |->
              IF c \in legible THEN [known(c) EXCEPT !.marked = FALSE, !.fresh = FALSE, !.alike = TRUE]
              ELSE IF c \in illegible THEN [known(c) EXCEPT !.marked = FALSE] ELSE known(c)]
<1>1. v1' = [v1 EXCEPT ![m] = next]
  BY DEF Watch!AfterRead
<1>2. \A c \in Pair : known(c) \in Watch!Chat
  <2>1. \A c \in Pair : v1[m][c] \in Watch!Chat
    OBVIOUS
  <2> QED
    BY <2>1 DEF Watch!Created, Watch!Chat, Watch!Status
<1>3. \A k \in Watch!Chat : LET l == [k EXCEPT !.marked = FALSE, !.fresh = FALSE, !.alike = TRUE]
                            IN  /\ l \in Watch!Chat /\ ~l.fresh /\ l.alike
                                /\ [k EXCEPT !.marked = FALSE] \in Watch!Chat
  BY DEF Watch!Chat
<1> HIDE DEF known
<1>4. /\ next \in [Pair -> Watch!Chat]
      /\ \A c \in Pair : c \in legible => ~next[c].fresh /\ next[c].alike
  BY <1>2, <1>3
<1> HIDE DEF next
<1> QED
  BY <1>1, <1>4

\* A conversation keeps its shape, whoever acts.
LEMMA WatchChats ==
  ASSUME v1 \in [Markets -> [Pair -> Watch!Chat]],
         Watch!Next \/ UNCHANGED <<v1, v2, v3, v4, v5, v6, v7, v8>>
  PROVE  v1' \in [Markets -> [Pair -> Watch!Chat]]
<1>0. \A m \in Markets, c \in Pair : v1[m][c] \in Watch!Chat
  OBVIOUS
<1>2. ASSUME NEW m \in Markets, NEW c \in Pair, NEW e \in Watch!Chat, v1' = [v1 EXCEPT ![m] = [v1[m] EXCEPT ![c] = e]]
      PROVE  v1' \in [Markets -> [Pair -> Watch!Chat]]
  BY <1>2
<1>3. ASSUME NEW m \in Markets, NEW c \in Pair, NEW r \in BOOLEAN, Watch!BuyerWrites(m, c, r)
      PROVE  v1' \in [Markets -> [Pair -> Watch!Chat]]
  <2> DEFINE T == [Markets -> [Pair -> Watch!Chat]]
             f1 == [v1 EXCEPT ![m][c].fresh = TRUE]
             f2 == [f1 EXCEPT ![m][c].marked = TRUE]
  <2>1. v1' = [f2 EXCEPT ![m][c].alike = r]
    BY <1>3 DEF Watch!BuyerWrites
  <2>2. ASSUME NEW f \in T
        PROVE  /\ [f EXCEPT ![m][c].fresh = TRUE] \in T /\ [f EXCEPT ![m][c].marked = TRUE] \in T
               /\ [f EXCEPT ![m][c].alike = r] \in T
    <3> DEFINE k == f[m][c]
    <3>1. k \in Watch!Chat /\ f[m] \in [Pair -> Watch!Chat]
      OBVIOUS
    <3>2. /\ [k EXCEPT !.fresh = TRUE] \in Watch!Chat /\ [k EXCEPT !.marked = TRUE] \in Watch!Chat
          /\ [k EXCEPT !.alike = r] \in Watch!Chat
      BY <3>1 DEF Watch!Chat
    <3>3. \A e \in Watch!Chat : [f EXCEPT ![m] = [f[m] EXCEPT ![c] = e]] \in T
      BY <3>1
    <3>4. /\ [f EXCEPT ![m][c].fresh = TRUE] = [f EXCEPT ![m] = [f[m] EXCEPT ![c] = [k EXCEPT !.fresh = TRUE]]]
          /\ [f EXCEPT ![m][c].marked = TRUE] = [f EXCEPT ![m] = [f[m] EXCEPT ![c] = [k EXCEPT !.marked = TRUE]]]
          /\ [f EXCEPT ![m][c].alike = r] = [f EXCEPT ![m] = [f[m] EXCEPT ![c] = [k EXCEPT !.alike = r]]]
      OBVIOUS
    <3> HIDE DEF T, k
    <3> QED
      BY <3>2, <3>3, <3>4
  <2>3. v1 \in T
    OBVIOUS
  <2> HIDE DEF T
  <2>4. f1 \in T
    BY <2>2, <2>3
  <2>5. f2 \in T
    BY <2>2, <2>4
  <2> HIDE DEF f1, f2
  <2> QED
    BY <2>1, <2>2, <2>5 DEF T
<1>4. ASSUME NEW m \in Markets, NEW c \in Pair, Watch!SellerLooks(m, c)
      PROVE  v1' \in [Markets -> [Pair -> Watch!Chat]]
  <2>1. v1' = [v1 EXCEPT ![m] = [v1[m] EXCEPT ![c] = [v1[m][c] EXCEPT !.marked = FALSE]]]
    BY <1>4 DEF Watch!SellerLooks
  <2>2. [v1[m][c] EXCEPT !.marked = FALSE] \in Watch!Chat
    BY <1>0 DEF Watch!Chat
  <2> QED
    BY <1>2, <2>1, <2>2
<1>5. ASSUME NEW m \in Markets, NEW c \in Pair, NEW s \in Watch!Status, Watch!StatusChanges(m, c, s)
      PROVE  v1' \in [Markets -> [Pair -> Watch!Chat]]
  <2>1. v1' = [v1 EXCEPT ![m] = [v1[m] EXCEPT ![c] = [v1[m][c] EXCEPT !.status = s]]]
    BY <1>5 DEF Watch!StatusChanges
  <2>2. [v1[m][c] EXCEPT !.status = s] \in Watch!Chat
    BY <1>0 DEF Watch!Chat
  <2> QED
    BY <1>2, <2>1, <2>2
<1>6. CASE UNCHANGED v1
  BY <1>6
<1>7. ASSUME NEW m \in Markets, NEW cause, NEW a, NEW b, Watch!ReadBreaksMidway(m, cause, a, b)
      PROVE  v1' \in [Markets -> [Pair -> Watch!Chat]]
  BY <1>7, AfterReadKeeps DEF Watch!ReadBreaksMidway, Watch!ReadPart
<1>8. ASSUME NEW m \in Markets, NEW a, NEW b, Watch!ReadList(m, a, b)
      PROVE  v1' \in [Markets -> [Pair -> Watch!Chat]]
  BY <1>8, AfterReadKeeps DEF Watch!ReadList
<1>9. ASSUME NEW m \in Markets, NEW a, NEW b, Watch!ReadEndsMidway(m, a, b)
      PROVE  v1' \in [Markets -> [Pair -> Watch!Chat]]
  BY <1>9, AfterReadKeeps DEF Watch!ReadEndsMidway, Watch!ReadPart
<1> QED
  BY <1>3, <1>4, <1>5, <1>6, <1>7, <1>8, <1>9
     DEF Watch!Next, Watch!TimePasses, Watch!Restart, Watch!ListRefused, Watch!SignedOut, Watch!SignedIn,
         Watch!ReadBreaks

LEMMA WatchTypesInit ==
  ASSUME Watch!Init
  PROVE  Watch!TypeOK
<1>1. BlindAfter \in Nat \ {0} /\ SweepEvery \in Nat \ {0} /\ GapWorth \in Nat
  BY RecordsAssumption DEF Watch!InboxWatchAssumption
<1>2. 0 \in 0..(SweepEvery - 1) /\ 0 \in 0..BlindAfter /\ -1 \in -1..GapWorth
  BY <1>1
<1> QED
  BY <1>2 DEF Watch!Init, Watch!TypeOK, Watch!Chat, Watch!Status

LEMMA WatchTypes ==
  ASSUME Watch!IInv, Watch!IInv', Watch!TypeOK,
         Watch!Next \/ UNCHANGED <<v1, v2, v3, v4, v5, v6, v7, v8>>
  PROVE  Watch!TypeOK'
<1>0. GapWorth \in Nat
  BY RecordsAssumption DEF Watch!InboxWatchAssumption
<1>1. /\ v2' \in [Markets -> 0..(SweepEvery - 1)] /\ v3' \in [Markets -> 0..BlindAfter]
      /\ v6' \in [Markets -> [Pair -> Nat]]
      /\ v7' \in [Markets -> {"none", "blind", "back"}] /\ v8' \in [Markets -> BOOLEAN]
  BY DEF Watch!IInv
<1>2. v1 \in [Markets -> [Pair -> Watch!Chat]] /\ v4 \in [Markets -> -1..GapWorth]
  BY DEF Watch!TypeOK
<1>3. v4' \in [Markets -> -1..GapWorth]
  <2>0. -1 \in -1..GapWorth /\ 0 \in -1..GapWorth
    BY <1>0
  <2>1. ASSUME NEW m \in Markets, NEW cause, Watch!CountBlind(m, cause)
        PROVE  v4' \in [Markets -> -1..GapWorth]
    BY <1>2, <2>0, <2>1 DEF Watch!CountBlind
  <2>2. ASSUME NEW m \in Markets, NEW opened, Watch!ClearBlind(m, opened)
        PROVE  v4' \in [Markets -> -1..GapWorth]
    BY <1>2, <2>0, <2>2 DEF Watch!ClearBlind
  <2>3. CASE Watch!TimePasses
    <3>1. ASSUME NEW m \in Markets
          PROVE  (IF v4[m] \in 0..(GapWorth - 1) THEN v4[m] + 1 ELSE v4[m]) \in -1..GapWorth
      <4>1. v4[m] \in -1..GapWorth
        BY <1>2
      <4> QED
        BY <1>0, <4>1
    <3> QED
      BY <2>3, <3>1 DEF Watch!TimePasses
  <2>4. CASE Watch!Restart
    BY <2>0, <2>4 DEF Watch!Restart
  <2>5. CASE UNCHANGED v4
    BY <1>2, <2>5
  <2>6. ASSUME NEW m \in Markets, NEW cause \in Watch!Causes,
               \/ Watch!ListRefused(m) \/ Watch!ReadBreaks(m, cause)
               \/ \E a, b \in SUBSET Pair : Watch!ReadBreaksMidway(m, cause, a, b)
        PROVE  v4' \in [Markets -> -1..GapWorth]
    BY <2>1, <2>6 DEF Watch!ListRefused, Watch!ReadBreaks, Watch!ReadBreaksMidway
  <2>7. ASSUME NEW m \in Markets, NEW a, NEW b, Watch!ReadList(m, a, b)
        PROVE  v4' \in [Markets -> -1..GapWorth]
    BY <2>1, <2>2, <2>7 DEF Watch!ReadList
  <2>8. ASSUME NEW m \in Markets, Watch!ListRefused(m)
        PROVE  v4' \in [Markets -> -1..GapWorth]
    BY <2>1, <2>8 DEF Watch!ListRefused
  <2> QED
    BY <2>3, <2>4, <2>5, <2>6, <2>7, <2>8
       DEF Watch!Next, Watch!ReadEndsMidway, Watch!SignedOut, Watch!SignedIn, Watch!SellerLooks, Watch!BuyerWrites, Watch!StatusChanges,
           Watch!laneVars
<1>4. v1' \in [Markets -> [Pair -> Watch!Chat]]
  BY <1>2, WatchChats
<1> QED
  BY <1>1, <1>3, <1>4 DEF Watch!TypeOK

LEMMA FanoutTypesInit ==
  ASSUME Fanout!Init
  PROVE  Fanout!TypeOK
<1>1. Passes \in Nat /\ MaxRail \in Nat
  BY RecordsAssumption DEF Fanout!CrosslistAssumption
<1>2. 0 \in 0..MaxRail
  BY <1>1
<1>3. v2 \in [Items -> 0..MaxRail]
  BY <1>2 DEF Fanout!Init
<1>4. \A p \in 1..Passes : v7[p] = Fanout!Unused
  BY DEF Fanout!Init
<1> QED
  BY <1>3, <1>4 DEF Fanout!Init, Fanout!TypeOK, Fanout!Unused, Fanout!Idle

LEMMA FanoutTypes ==
  ASSUME Fanout!IInv, Fanout!IInv', Fanout!TypeOK,
         Fanout!Next \/ UNCHANGED <<v1, v2, v3, v4, v5, v6, v7, v8, v9, v10, v11>>
  PROVE  Fanout!TypeOK'
<1>0. MaxRail \in Nat
  BY RecordsAssumption DEF Fanout!CrosslistAssumption
<1>1. /\ v1' \in [Items -> SUBSET Markets] /\ v11' \in [Items -> SUBSET Markets]
      /\ v7' \in [1..Passes -> Fanout!Attempt] /\ v8' \in Fanout!Errand
  BY DEF Fanout!IInv
<1>2. \A p \in 1..Passes : /\ v7'[p].status \in {"none", "queued", "running", "settled"}
                           /\ v7'[p].by \in {"none", "lane", "seller"}
                           /\ v7'[p].told \in {"none", "listed", "failed"}
  <2>1. \A p \in 1..Passes : v7'[p] \in Fanout!Attempt
    BY <1>1
  <2> QED
    BY <2>1 DEF Fanout!Attempt
<1>3. v8'.at \in {"idle", "push", "mark", "queue"}
  BY <1>1 DEF Fanout!Errand
<1>4. v2' \in [Items -> 0..MaxRail] /\ v3' \subseteq Items
  <2>1. v2 \in [Items -> 0..MaxRail] /\ v3 \subseteq Items
    BY DEF Fanout!TypeOK
  <2>2. \/ v2' = v2 /\ v3' \subseteq v3
        \/ \E i \in Items : v2[i] < MaxRail /\ v2' = [v2 EXCEPT ![i] = @ + 1] /\ v3' = v3 \cup {i}
    BY DEF Fanout!Next, Fanout!Push, Fanout!Mark, Fanout!Queue, Fanout!AskQueue, Fanout!Seller,
           Fanout!Crash, Fanout!Link, Fanout!PublishRail, Fanout!TakeDown, Fanout!Look, Fanout!Ask,
           Fanout!Report, Fanout!Run, Fanout!RecordUrl, Fanout!Settle, Fanout!rows
  <2>3. ASSUME NEW i \in Items, v2[i] < MaxRail PROVE v2[i] + 1 \in 0..MaxRail
    BY <1>0, <2>1, <2>3
  <2> QED
    BY <2>1, <2>2, <2>3
<1>5. v4' \subseteq Markets /\ v5' \subseteq Items
  <2>1. v4 \subseteq Markets /\ v5 \subseteq Items
    BY DEF Fanout!TypeOK
  <2>2. \/ UNCHANGED <<v4, v5>>
        \/ Fanout!Seller
    BY DEF Fanout!Next, Fanout!Push, Fanout!Mark, Fanout!Queue, Fanout!AskQueue,
           Fanout!Crash, Fanout!Link, Fanout!PublishRail, Fanout!TakeDown, Fanout!Look, Fanout!Ask,
           Fanout!Report, Fanout!Run, Fanout!RecordUrl, Fanout!Settle, Fanout!rows
  <2> QED
    BY <2>1, <2>2 DEF Fanout!Seller
<1>6. v9'.at \in {"idle", "queue"}
  <2>1. v9.at \in {"idle", "queue"}
    BY DEF Fanout!TypeOK
  <2>2. \/ v9' = v9 \/ v9' = Fanout!Idle
        \/ \E i \in Items, m \in Markets :
             v9' = [Fanout!Idle EXCEPT !.at = "queue", !.item = i, !.market = m]
    BY DEF Fanout!Next, Fanout!Push, Fanout!Mark, Fanout!Queue, Fanout!AskQueue, Fanout!Seller,
           Fanout!Crash, Fanout!Link, Fanout!PublishRail, Fanout!TakeDown, Fanout!Look, Fanout!Ask,
           Fanout!Report, Fanout!Run, Fanout!RecordUrl, Fanout!Settle, Fanout!rows
  <2>3. Fanout!Idle.at = "idle"
        /\ \A i \in Items, m \in Markets :
             [Fanout!Idle EXCEPT !.at = "queue", !.item = i, !.market = m].at = "queue"
    BY DEF Fanout!Idle
  <2> QED
    BY <2>1, <2>2, <2>3
<1> QED
  BY <1>1, <1>2, <1>3, <1>4, <1>5, <1>6 DEF Fanout!TypeOK

\* How often a survey, a listing and its item are counted: an attempt is past its
\* share only on the way to the giving up of it, or for a crash on that way.
SurveyCounted ==
  /\ v1 \in [state : {"none", "due", "done", "abandoned"}, attempts : Nat]
  /\ v9.at = "look" => v1.state = "due"
  /\ v1.attempts <= SurveyMax + v13
  /\ v1.state = "due" /\ v9.at # "abandon" => v1.attempts < SurveyMax + v13
AttemptsCounted ==
  /\ \A l \in Listings : v2[l].attempts <= AdoptMax
  /\ v9.at = "read" => v2[v9.listing].attempts < AdoptMax
ItemsCounted ==
  /\ \A l \in Listings : v5[l] <= 2
  /\ v9.at \in {"read", "create"} => v5[v9.listing] <= 1
TakingRest ==
  /\ v7 \subseteq Listings /\ v8 \in Listings \cup {"free", "other"} /\ v10 \in BOOLEAN
  /\ v13 \in 0..MaxCrashes
TakingShapes == SurveyCounted /\ AttemptsCounted /\ ItemsCounted /\ TakingRest

LEMMA TakingBounds ==
  /\ SurveyMax \in Nat \ {0} /\ AdoptMax \in Nat \ {0} /\ RailMax \in Nat \ {0} /\ MaxCrashes \in Nat
  BY RecordsAssumption DEF Taking!AdoptionAssumption, Connecting!ConnectLaneAssumption

LEMMA TakingShapesInit ==
  ASSUME Taking!Init
  PROVE  TakingShapes
<1>1. SurveyCounted
  BY TakingBounds DEF Taking!Init, SurveyCounted, Taking!Idle
<1>2. AttemptsCounted
  <2>1. v9.at = "idle" /\ \A l \in Listings : v2[l] = Taking!NoRow
    BY DEF Taking!Init, Taking!Idle
  <2>2. Taking!NoRow.attempts = 0
    BY DEF Taking!NoRow
  <2> QED
    BY <2>1, <2>2, TakingBounds DEF AttemptsCounted
<1>3. ItemsCounted
  BY DEF Taking!Init, ItemsCounted, Taking!Idle
<1>4. TakingRest
  <2>1. 0 \in 0..MaxCrashes
    BY TakingBounds
  <2> QED
    BY <2>1 DEF Taking!Init, TakingRest
<1> QED
  BY <1>1, <1>2, <1>3, <1>4 DEF TakingShapes

LEMMA TakingShapesType ==
  ASSUME Taking!IInv, TakingShapes
  PROVE  Taking!TypeOK
<1>1. v2 \in [Listings -> Taking!Entry] /\ v5 \in [Listings -> Nat] /\ v6 \subseteq Listings
  BY DEF Taking!IInv
<1>2. v1 \in [state : {"none", "due", "done", "abandoned"}, attempts : 0..(SurveyMax + MaxCrashes)]
  BY TakingBounds DEF TakingShapes, SurveyCounted, TakingRest
<1>3. \A l \in Listings : v2[l] \in
        [status : {"none", "pending", "accepted", "declined", "expired", "adopted", "failed"},
         manage : {"none", "inbox", "relist"}, attempts : 0..(AdoptMax + MaxCrashes),
         rail : {"none", "owed", "queued", "done", "failed"}, tries : 0..RailMax]
  <2> TAKE l \in Listings
  <2>1. v2[l] \in Taking!Entry /\ v2[l].attempts <= AdoptMax
    BY <1>1 DEF TakingShapes, AttemptsCounted
  <2>2. v2[l].attempts \in 0..(AdoptMax + MaxCrashes)
    BY <2>1, TakingBounds DEF Taking!Entry
  <2> QED
    BY <2>1, <2>2 DEF Taking!Entry
<1>4. v5 \in [Listings -> 0..2]
  <2>1. \A l \in Listings : v5[l] \in 0..2
    BY <1>1 DEF TakingShapes, ItemsCounted
  <2> QED
    BY <1>1, <2>1
<1> QED
  BY <1>1, <1>2, <1>3, <1>4 DEF TakingShapes, TakingRest, Taking!TypeOK

\* The step that the lane takes in v9.
LEMMA PlaceAt ==
  /\ \A at : [Taking!Idle EXCEPT !.at = at].at = at /\ Taking!Idle.at = "idle"
  /\ \A at, s : [Taking!Idle EXCEPT !.at = at, !.seen = s].at = at
  /\ \A at, l : Taking!For(at, l).at = at /\ Taking!For(at, l).listing = l
  /\ \A r \in Taking!Place : \A at : [r EXCEPT !.at = at].at = at /\ [r EXCEPT !.at = at].listing = r.listing
<1>1. \A at : [Taking!Idle EXCEPT !.at = at].at = at /\ Taking!Idle.at = "idle"
  BY DEF Taking!Idle
<1>2. \A at, s : [Taking!Idle EXCEPT !.at = at, !.seen = s].at = at
  BY DEF Taking!Idle
<1>3. \A at, l : Taking!For(at, l).at = at /\ Taking!For(at, l).listing = l
  BY DEF Taking!For
<1>4. \A r \in Taking!Place : \A at : [r EXCEPT !.at = at].at = at /\ [r EXCEPT !.at = at].listing = r.listing
  BY DEF Taking!Place
<1> QED
  BY <1>1, <1>2, <1>3, <1>4

LEMMA SurveyStep ==
  ASSUME Taking!IInv, TakingShapes,
         Taking!Next \/ UNCHANGED <<v1, v2, v3, v4, v5, v6, v7, v8, v9, v10, v11, v12, v13, v14>>
  PROVE  SurveyCounted' /\ TakingRest'
<1>0. /\ v1 \in [state : {"none", "due", "done", "abandoned"}, attempts : Nat] /\ v13 \in Nat
      /\ v1.attempts \in Nat /\ v9 \in Taking!Place
  BY TakingBounds DEF TakingShapes, SurveyCounted, TakingRest, Taking!IInv
<1>r. SurveyCounted /\ TakingRest /\ SurveyMax \in Nat \ {0} /\ MaxCrashes \in Nat
  BY TakingBounds DEF TakingShapes
<1>f. /\ \A r \in [state : {"none", "due", "done", "abandoned"}, attempts : Nat] :
           r.attempts \in Nat /\ r.state \in {"none", "due", "done", "abandoned"}
      /\ \A s \in {"none", "due", "done", "abandoned"} :
           LET t == [v1 EXCEPT !.state = s]
           IN  /\ t \in [state : {"none", "due", "done", "abandoned"}, attempts : Nat]
               /\ t.state = s /\ t.attempts = v1.attempts
      /\ LET t == [v1 EXCEPT !.attempts = @ + 1]
         IN  /\ t \in [state : {"none", "due", "done", "abandoned"}, attempts : Nat]
             /\ t.state = v1.state /\ t.attempts = v1.attempts + 1
      /\ LET t == [state |-> "due", attempts |-> 0]
         IN  /\ t \in [state : {"none", "due", "done", "abandoned"}, attempts : Nat]
             /\ t.state = "due" /\ t.attempts = 0
  BY <1>0
<1>1. CASE Taking!Look
  <2>1. v13' = v13 /\ v9.at = "look"
    BY <1>1 DEF Taking!Look, Taking!Lane
  <2>2. TakingRest'
    BY <1>1, <1>r DEF Taking!Look, Taking!Lane, TakingRest
  <2>3. \/ v1' = v1 /\ v9'.at \in {"record", "adopt"}
        \/ v1' = [v1 EXCEPT !.state = "abandoned"] /\ v9'.at = "adopt"
        \/ v1' = [v1 EXCEPT !.attempts = @ + 1] /\ v9'.at = "abandon"
        \/ v1' = [v1 EXCEPT !.attempts = @ + 1] /\ v9'.at = "adopt" /\ ~(v1.attempts + 1 >= SurveyMax)
    <3>1. \/ v1' = v1 /\ v9' = [Taking!Idle EXCEPT !.at = "record", !.seen = v3]
          \/ v1' = v1 /\ v9' = [Taking!Idle EXCEPT !.at = "adopt"]
          \/ v1' = [v1 EXCEPT !.state = "abandoned"] /\ v9' = [Taking!Idle EXCEPT !.at = "adopt"]
          \/ v1' = [v1 EXCEPT !.attempts = @ + 1] /\ v9' = [Taking!Idle EXCEPT !.at = "abandon"]
          \/ /\ v1' = [v1 EXCEPT !.attempts = @ + 1] /\ v9' = [Taking!Idle EXCEPT !.at = "adopt"]
             /\ ~(v1.attempts + 1 >= SurveyMax)
      BY <1>1 DEF Taking!Look, Taking!Goto
    <3> QED
      BY <3>1 DEF Taking!Idle
  <2> QED
    BY <1>0, <1>r, <1>f, <2>1, <2>2, <2>3 DEF SurveyCounted
<1>2. CASE Taking!Abandon \/ Taking!Record
  <2>1. v13' = v13 /\ v9'.at = "adopt" /\ \E s \in {"done", "abandoned"} : v1' = [v1 EXCEPT !.state = s]
    BY <1>2, PlaceAt DEF Taking!Abandon, Taking!Record, Taking!Lane, Taking!Goto
  <2>2. TakingRest'
    BY <1>2, <1>r DEF Taking!Abandon, Taking!Record, Taking!Lane, TakingRest
  <2> QED
    BY <1>0, <1>r, <1>f, <2>1, <2>2 DEF SurveyCounted
<1>3. CASE Taking!Request \/ Taking!Reopen
  <2>1. v13' = v13 /\ v9' = v9 /\ v1' = [state |-> "due", attempts |-> 0]
    BY <1>3 DEF Taking!Request, Taking!Reopen, Taking!counts
  <2>2. TakingRest'
    BY <1>3, <1>r DEF Taking!Request, Taking!Reopen, Taking!counts, TakingRest
  <2> QED
    BY <1>0, <1>r, <1>f, <2>1, <2>2 DEF SurveyCounted
<1>4. CASE Taking!Crash
  <2>1. v13' = v13 + 1 /\ v13 < MaxCrashes /\ v9'.at = "idle" /\ v1' = v1 /\ v10' = FALSE
        /\ v7' = v7 /\ v8' = v8
    BY <1>4, PlaceAt DEF Taking!Crash
  <2>2. TakingRest'
    <3>1. v13' \in 0..MaxCrashes
      BY <1>0, <1>r, <2>1
    <3> QED
      BY <1>r, <2>1, <3>1 DEF TakingRest
  <2>3. v1'.attempts = v1.attempts /\ v1'.state = v1.state
    BY <2>1
  <2>4. v1.attempts < SurveyMax + v13'
    BY <1>0, <1>r, <2>1 DEF SurveyCounted
  <2> QED
    BY <1>0, <1>r, <2>1, <2>2, <2>3, <2>4 DEF SurveyCounted
<1>5. CASE Taking!Tick
  <2>1. v13' = v13 /\ v1' = v1 /\ v9.at = "idle" /\ (v9'.at = "look" => v1.state = "due") /\ v9'.at # "abandon"
    BY <1>5, PlaceAt DEF Taking!Tick, Taking!Lane, Taking!Goto
  <2>2. TakingRest'
    BY <1>5, <1>r DEF Taking!Tick, Taking!Lane, TakingRest
  <2> QED
    BY <1>0, <1>r, <1>f, <2>1, <2>2 DEF SurveyCounted
<1>6. CASE \/ UNCHANGED <<v1, v2, v3, v4, v5, v6, v7, v8, v9, v10, v11, v12, v13, v14>>
           \/ Taking!StaleTap \/ Taking!OtherPublish \/ Taking!PassEnds
           \/ \E l \in Listings : Taking!RailLive(l) \/ Taking!OwnItem(l) \/ Taking!Market(l)
           \/ \E S \in SUBSET Listings :
                Taking!Retry(S) \/ \E m \in {"none", "inbox", "relist"} : Taking!Decide(S, m)
  <2>1. v13' = v13 /\ v1' = v1 /\ v9' = v9
    BY <1>6 DEF Taking!StaleTap, Taking!OtherPublish, Taking!PassEnds, Taking!RailLive, Taking!OwnItem,
                Taking!Market, Taking!Retry, Taking!Decide, Taking!counts
  <2>2. TakingRest'
    BY <1>6, <1>r DEF Taking!StaleTap, Taking!OtherPublish, Taking!PassEnds, Taking!RailLive, Taking!OwnItem,
                Taking!Market, Taking!Retry, Taking!Decide, Taking!counts, TakingRest
  <2> QED
    BY <1>r, <2>1, <2>2 DEF SurveyCounted
<1>7. CASE \/ Taking!Pick \/ Taking!Read \/ Taking!Fail \/ Taking!Create \/ Taking!Link
           \/ Taking!Settle \/ Taking!Enqueue \/ Taking!Queued
  <2>1. v13' = v13 /\ v1' = v1 /\ v9.at \notin {"look", "abandon"} /\ v7' = v7 /\ v10' = v10
    BY <1>7 DEF Taking!Pick, Taking!Read, Taking!Fail, Taking!Create, Taking!Link, Taking!Settle,
                Taking!Enqueue, Taking!Queued, Taking!Lane
  <2>2. v9'.at \notin {"look", "abandon"}
    <3>1. \/ \E at \in {"settle", "owed", "idle"} : v9' = [Taking!Idle EXCEPT !.at = at]
          \/ \E at \in {"fail", "create"} : v9' = [v9 EXCEPT !.at = at]
          \/ \E at \in {"fail", "link", "read", "queued"}, l \in Listings : v9' = Taking!For(at, l)
      BY <1>7 DEF Taking!Pick, Taking!Read, Taking!Fail, Taking!Create, Taking!Link, Taking!Untried,
         Taking!Being, Taking!Settle, Taking!Enqueue, Taking!Queued, Taking!Goto, Taking!RetryOrFail
    <3>2. v9'.at \in {"settle", "owed", "idle", "fail", "create", "link", "read", "queued"}
      <4>1. CASE \E at \in {"settle", "owed", "idle"} : v9' = [Taking!Idle EXCEPT !.at = at]
        BY <4>1 DEF Taking!Idle
      <4>2. CASE \E at \in {"fail", "create"} : v9' = [v9 EXCEPT !.at = at]
        BY <1>0, <4>2 DEF Taking!Place
      <4>3. CASE \E at \in {"fail", "link", "read", "queued"}, l \in Listings : v9' = Taking!For(at, l)
        BY <4>3 DEF Taking!For
      <4> QED
        BY <3>1, <4>1, <4>2, <4>3
    <3> QED
      BY <3>2
  <2>3. v8' = v8 \/ v8' \in Listings
    BY <1>7 DEF Taking!Pick, Taking!Read, Taking!Fail, Taking!Create, Taking!Link, Taking!Settle,
                Taking!Enqueue, Taking!Queued
  <2> QED
    BY <1>r, <2>1, <2>2, <2>3 DEF SurveyCounted, TakingRest
<1> QED
  BY <1>1, <1>2, <1>3, <1>4, <1>5, <1>6, <1>7 DEF Taking!Next

LEMMA RowAttempts ==
  ASSUME NEW r \in Taking!Entry, NEW s, NEW t
  PROVE  /\ [r EXCEPT !.status = s].attempts = r.attempts
         /\ [r EXCEPT !.rail = s].attempts = r.attempts
         /\ [r EXCEPT !.status = s, !.manage = t].attempts = r.attempts
         /\ [r EXCEPT !.status = s, !.rail = t].attempts = r.attempts
         /\ [r EXCEPT !.rail = s, !.tries = t].attempts = r.attempts
  BY DEF Taking!Entry

LEMMA AttemptsStep ==
  ASSUME Taking!IInv, Taking!IInv', TakingShapes,
         Taking!Next \/ UNCHANGED <<v1, v2, v3, v4, v5, v6, v7, v8, v9, v10, v11, v12, v13, v14>>
  PROVE  AttemptsCounted'
<1>0. /\ v2 \in [Listings -> Taking!Entry] /\ v9 \in Taking!Place
      /\ Taking!LaneKeepsRow /\ v2' \in [Listings -> Taking!Entry]
  BY DEF Taking!IInv
<1>r. AttemptsCounted /\ AdoptMax \in Nat \ {0}
  BY TakingBounds DEF TakingShapes
<1>n. Taking!NoRow \in Taking!Entry /\ Taking!NoRow.attempts = 0
  BY TakingBounds DEF Taking!NoRow, Taking!Entry
<1>a. ASSUME \A l \in Listings : v2'[l].attempts <= v2[l].attempts \/ v2'[l].attempts = 0,
             \/ v9'.at # "read"
             \/ v9' = v9 /\ v9.listing \in Listings
             \/ v9'.listing \in Listings /\ v2'[v9'.listing].attempts < AdoptMax
      PROVE  AttemptsCounted'
  <2>1. \A l \in Listings : v2[l].attempts \in Nat /\ v2'[l].attempts \in Nat
    BY <1>0 DEF Taking!Entry
  <2>2. \A l \in Listings : v2'[l].attempts <= AdoptMax
    BY <1>a, <1>r, <2>1 DEF AttemptsCounted
  <2>3. ASSUME v9'.at = "read" PROVE v2'[v9'.listing].attempts < AdoptMax
    BY <1>a, <1>r, <2>1, <2>3 DEF AttemptsCounted
  <2> QED
    BY <2>2, <2>3 DEF AttemptsCounted
<1>w. v9.at = "read" => v9.listing \in Listings
  BY <1>0 DEF Taking!LaneKeepsRow, Taking!Working
<1>1. CASE Taking!Read
  <2> DEFINE l == v9.listing
  <2>1. l \in Listings /\ v2[l].attempts \in Nat /\ v2[l].attempts < AdoptMax
    BY <1>0, <1>1, <1>r, <1>w DEF Taking!Read, AttemptsCounted, Taking!Entry
  <2>2. v9'.at # "read"
    BY <1>0, <1>1 DEF Taking!Read, Taking!RetryOrFail, Taking!Goto, Taking!Idle, Taking!Place
  <2>3. \/ v2' = v2
        \/ v2' = [v2 EXCEPT ![l].attempts = IF v2[l] = Taking!NoRow THEN 0 ELSE @ + 1]
    BY <1>1 DEF Taking!Read, Taking!RetryOrFail
  <2>4. CASE v2' = v2
    BY <1>0, <1>r, <2>2, <2>4 DEF AttemptsCounted, Taking!Entry
  <2>5. CASE v2' = [v2 EXCEPT ![l].attempts = IF v2[l] = Taking!NoRow THEN 0 ELSE @ + 1]
    <3>1. v2'[l].attempts = 0 \/ v2'[l].attempts = v2[l].attempts + 1
      BY <1>0, <2>1, <2>5 DEF Taking!Entry
    <3>2. \A k \in Listings \ {l} : v2'[k] = v2[k]
      BY <1>0, <2>1, <2>5
    <3>3. \A k \in Listings : v2'[k].attempts <= AdoptMax
      BY <1>r, <2>1, <3>1, <3>2 DEF AttemptsCounted
    <3> QED
      BY <2>2, <3>3 DEF AttemptsCounted
  <2> QED
    BY <2>3, <2>4, <2>5
<1>2. CASE Taking!Pick
  <2>1. v2' = v2
    BY <1>2 DEF Taking!Pick
  <2>2. v9'.at # "read" \/ (v9'.listing \in Listings /\ v2'[v9'.listing].attempts < AdoptMax)
    <3>1. \/ v9' = [Taking!Idle EXCEPT !.at = "settle"]
          \/ \E l \in Listings, at \in {"fail", "link"} : v9' = Taking!For(at, l)
          \/ \E l \in Listings : v9' = Taking!For("read", l) /\ ~(v2[l].attempts >= AdoptMax)
      BY <1>2 DEF Taking!Pick, Taking!Goto, Taking!Untried, Taking!Being
    <3>2. CASE v9' = [Taking!Idle EXCEPT !.at = "settle"]
      BY <3>2 DEF Taking!Idle
    <3>3. CASE \E l \in Listings, at \in {"fail", "link"} : v9' = Taking!For(at, l)
      BY <3>3 DEF Taking!For
    <3>4. CASE \E l \in Listings : v9' = Taking!For("read", l) /\ ~(v2[l].attempts >= AdoptMax)
      BY <1>0, <1>r, <2>1, <3>4 DEF Taking!For, Taking!Entry
    <3> QED
      BY <3>1, <3>2, <3>3, <3>4
  <2> QED
    BY <1>0, <1>a, <2>1, <2>2 DEF Taking!Entry
<1>3. CASE \/ Taking!Tick \/ Taking!Record \/ Taking!Fail \/ Taking!Settle \/ Taking!Create \/ Taking!Link
           \/ Taking!Enqueue \/ Taking!Queued
  <2>1. v9'.at # "read"
    <3>1. \/ \E at \in {"look", "adopt", "settle", "owed", "idle"} : v9' = [Taking!Idle EXCEPT !.at = at]
          \/ \E l \in Listings : v9' = Taking!For("queued", l)
      BY <1>3 DEF Taking!Tick, Taking!Record, Taking!Fail, Taking!Settle, Taking!Create, Taking!Link,
         Taking!Enqueue, Taking!Queued, Taking!Goto
    <3> QED
      BY <3>1 DEF Taking!For, Taking!Idle
  <2>2. \A l \in Listings : v2'[l].attempts <= v2[l].attempts \/ v2'[l].attempts = 0
    <3>0. \A l \in Listings : v2[l] \in Taking!Entry /\ v2[l].attempts \in Nat
      BY <1>0 DEF Taking!Entry
    <3>1. CASE Taking!Tick
      <4>1. PICK stale \in {{}, Taking!Being("pending")} :
              v2' = [l \in Listings |-> IF l \in stale THEN [v2[l] EXCEPT !.status = "expired"] ELSE v2[l]]
        BY <3>1 DEF Taking!Tick
      <4>2. \A l \in Listings : v2'[l] = v2[l] \/ v2'[l] = [v2[l] EXCEPT !.status = "expired"]
        BY <4>1
      <4>3. \A l \in Listings : [v2[l] EXCEPT !.status = "expired"].attempts = v2[l].attempts
        BY <3>0, RowAttempts
      <4>4. \A l \in Listings : v2'[l].attempts = v2[l].attempts
        BY <4>2, <4>3, Zenon
      <4> QED
        BY <3>0, <4>4
    <3>2. CASE Taking!Record
      <4>1. \A l \in Listings : v2'[l] = v2[l] \/ v2'[l] = [Taking!NoRow EXCEPT !.status = "pending"]
        BY <3>2 DEF Taking!Record
      <4>2. [Taking!NoRow EXCEPT !.status = "pending"].attempts = 0
        BY DEF Taking!NoRow
      <4>3. \A l \in Listings : v2'[l].attempts = v2[l].attempts \/ v2'[l].attempts = 0
        BY <4>1, <4>2, Zenon
      <4> QED
        BY <3>0, <4>3
    <3>3. CASE Taking!Fail
      <4>1. \A l \in Listings : v2'[l] = v2[l] \/ v2'[l] = [v2[l] EXCEPT !.status = "failed"]
        BY <3>3 DEF Taking!Fail
      <4>2. \A l \in Listings : [v2[l] EXCEPT !.status = "failed"].attempts = v2[l].attempts
        BY <3>0, RowAttempts
      <4>3. \A l \in Listings : v2'[l].attempts = v2[l].attempts
        BY <4>1, <4>2, Zenon
      <4> QED
        BY <3>0, <4>3
    <3>4. CASE Taking!Settle
      <4>1. \A l \in Listings : v2'[l] = v2[l] \/ v2'[l] = [v2[l] EXCEPT !.rail = Taking!Settled(l)]
        BY <3>4 DEF Taking!Settle
      <4>2. \A l \in Listings : [v2[l] EXCEPT !.rail = Taking!Settled(l)].attempts = v2[l].attempts
        BY <3>0, RowAttempts
      <4>3. \A l \in Listings : v2'[l].attempts = v2[l].attempts
        BY <4>1, <4>2, Zenon
      <4> QED
        BY <3>0, <4>3
    <3>5. CASE Taking!Create \/ Taking!Link
      <4>1. CASE v2' = v2
        BY <3>0, <4>1
      <4>2. CASE v2' # v2
        <5> DEFINE k == v9.listing
        <5>1. \/ \E owed \in BOOLEAN : Taking!Adopted(k, owed)
          BY <3>5, <4>2 DEF Taking!Create, Taking!Link
        <5>2. PICK rail \in {"owed", "none"} : v2' = [v2 EXCEPT ![k].status = "adopted", ![k].rail = rail]
          BY <5>1 DEF Taking!Adopted
        <5>3. \A l \in Listings : v2'[l] = v2[l] \/ v2'[l] = [v2[l] EXCEPT !.status = "adopted", !.rail = rail]
          BY <1>0, <5>2
        <5>4. \A l \in Listings : [v2[l] EXCEPT !.status = "adopted", !.rail = rail].attempts = v2[l].attempts
          BY <3>0, RowAttempts
        <5>5. \A l \in Listings : v2'[l].attempts = v2[l].attempts
          BY <5>3, <5>4, Zenon
        <5> QED
          BY <3>0, <5>5
      <4> QED
        BY <4>1, <4>2
    <3>6. CASE Taking!Enqueue
      <4>1. v2' = v2 \/ \E k \in Listings : v2' = [v2 EXCEPT ![k].rail = "done"]
        BY <3>6 DEF Taking!Enqueue
      <4>2. \A l \in Listings : v2'[l] = v2[l] \/ v2'[l] = [v2[l] EXCEPT !.rail = "done"]
        BY <1>0, <4>1
      <4>3. \A l \in Listings : [v2[l] EXCEPT !.rail = "done"].attempts = v2[l].attempts
        BY <3>0, RowAttempts
      <4>4. \A l \in Listings : v2'[l].attempts = v2[l].attempts
        BY <4>2, <4>3, Zenon
      <4> QED
        BY <3>0, <4>4
    <3>7. CASE Taking!Queued
      <4>1. v2' = [v2 EXCEPT ![v9.listing].rail = "queued", ![v9.listing].tries = @ + 1]
        BY <3>7 DEF Taking!Queued
      <4>2. \A l \in Listings : v2'[l] = v2[l] \/ v2'[l] = [v2[l] EXCEPT !.rail = "queued", !.tries = v2[l].tries + 1]
        BY <1>0, <4>1
      <4>3. \A l \in Listings : [v2[l] EXCEPT !.rail = "queued", !.tries = v2[l].tries + 1].attempts = v2[l].attempts
        BY <3>0, RowAttempts
      <4>4. \A l \in Listings : v2'[l].attempts = v2[l].attempts
        BY <4>2, <4>3, Zenon
      <4> QED
        BY <3>0, <4>4
    <3> QED
      BY <1>3, <3>1, <3>2, <3>3, <3>4, <3>5, <3>6, <3>7
  <2> QED
    BY <1>a, <2>1, <2>2
<1>4. CASE Taking!Look \/ Taking!Abandon \/ Taking!Crash
  <2>1. v2' = v2
    BY <1>4 DEF Taking!Look, Taking!Abandon, Taking!Crash
  <2>2. v9'.at # "read"
    <3>1. \/ v9' = [Taking!Idle EXCEPT !.at = "record", !.seen = v3]
          \/ \E at \in {"abandon", "adopt"} : v9' = [Taking!Idle EXCEPT !.at = at]
          \/ v9' = Taking!Idle
      BY <1>4 DEF Taking!Look, Taking!Abandon, Taking!Crash, Taking!Goto
    <3>2. [Taking!Idle EXCEPT !.at = "record", !.seen = v3].at = "record" /\ Taking!Idle.at = "idle"
      BY DEF Taking!Idle
    <3>3. CASE \E at \in {"abandon", "adopt"} : v9' = [Taking!Idle EXCEPT !.at = at]
      BY <3>3 DEF Taking!Idle
    <3> QED
      BY <3>1, <3>2, <3>3
  <2> QED
    BY <1>0, <1>a, <2>1, <2>2 DEF Taking!Entry
<1>5. CASE \E S \in SUBSET Listings :
                Taking!Retry(S) \/ \E m \in {"none", "inbox", "relist"} : Taking!Decide(S, m)
  <2>1. v9' = v9
    BY <1>5 DEF Taking!Retry, Taking!Decide, Taking!counts
  <2>2. \A l \in Listings : v2[l] \in Taking!Entry
    BY <1>0
  <2>3. \A l \in Listings : v2'[l].attempts = v2[l].attempts
    <3>1. ASSUME NEW S \in SUBSET Listings, Taking!Retry(S)
          PROVE  \A l \in Listings : v2'[l].attempts = v2[l].attempts
      <4>1. \A l \in Listings : v2'[l] = v2[l] \/ v2'[l] = [v2[l] EXCEPT !.rail = "owed", !.tries = 0]
        BY <3>1 DEF Taking!Retry
      <4>2. \A l \in Listings : [v2[l] EXCEPT !.rail = "owed", !.tries = 0].attempts = v2[l].attempts
        BY <2>2, RowAttempts
      <4>3. \A l \in Listings : v2'[l].attempts = v2[l].attempts
        BY <4>1, <4>2, Zenon
      <4> QED
        BY <2>2, <4>3
    <3>2. ASSUME NEW S \in SUBSET Listings, NEW m \in {"none", "inbox", "relist"}, Taking!Decide(S, m)
          PROVE  \A l \in Listings : v2'[l].attempts = v2[l].attempts
      <4>1. PICK t \in {"declined", "accepted"} :
              \A l \in Listings : v2'[l] = v2[l] \/ v2'[l] = [v2[l] EXCEPT !.status = t, !.manage = m]
        BY <3>2 DEF Taking!Decide
      <4>2. \A l \in Listings : [v2[l] EXCEPT !.status = t, !.manage = m].attempts = v2[l].attempts
        BY <2>2, RowAttempts
      <4>3. \A l \in Listings : v2'[l].attempts = v2[l].attempts
        BY <4>1, <4>2, Zenon
      <4> QED
        BY <2>2, <4>3
    <3> QED
      BY <1>5, <3>1, <3>2
  <2>4. \A l \in Listings : v2[l].attempts \in Nat
    BY <1>0 DEF Taking!Entry
  <2> QED
    BY <1>a, <1>w, <2>1, <2>3, <2>4
<1>6. CASE Taking!Reopen
  <2>1. v9' = v9 /\ \A l \in Listings : v2'[l] = v2[l] \/ v2'[l] = Taking!NoRow
    BY <1>6 DEF Taking!Reopen
  <2>2. \A l \in Listings : v2[l].attempts \in Nat
    BY <1>0 DEF Taking!Entry
  <2>3. \A l \in Listings : v2'[l].attempts <= v2[l].attempts \/ v2'[l].attempts = 0
    BY <1>n, <2>1, <2>2
  <2> QED
    BY <1>a, <1>w, <2>1, <2>3
<1>7. CASE \/ UNCHANGED <<v1, v2, v3, v4, v5, v6, v7, v8, v9, v10, v11, v12, v13, v14>>
           \/ Taking!StaleTap \/ Taking!OtherPublish \/ Taking!PassEnds \/ Taking!Request
           \/ \E l \in Listings : Taking!RailLive(l) \/ Taking!OwnItem(l) \/ Taking!Market(l)
  <2>1. v2' = v2 /\ v9' = v9
    BY <1>7 DEF Taking!StaleTap, Taking!OtherPublish, Taking!PassEnds, Taking!RailLive, Taking!OwnItem,
                Taking!Market, Taking!Request, Taking!counts
  <2> QED
    BY <1>r, <2>1 DEF AttemptsCounted
<1> QED
  BY <1>1, <1>2, <1>3, <1>4, <1>5, <1>6, <1>7 DEF Taking!Next

LEMMA ItemsStep ==
  ASSUME Taking!IInv, TakingShapes,
         Taking!Next \/ UNCHANGED <<v1, v2, v3, v4, v5, v6, v7, v8, v9, v10, v11, v12, v13, v14>>
  PROVE  ItemsCounted'
<1>0. v5 \in [Listings -> Nat] /\ v9 \in Taking!Place /\ Taking!LaneKeepsRow
  BY DEF Taking!IInv
<1>r. ItemsCounted
  BY DEF TakingShapes
<1>w. v9.at \in {"read", "create"} => v9.listing \in Listings
  BY <1>0 DEF Taking!LaneKeepsRow, Taking!Working
<1>1. CASE Taking!Create
  <2>1. v9'.at = "settle"
    BY <1>1 DEF Taking!Create, Taking!Goto, Taking!Idle
  <2>2. v5' = v5 \/ v5' = [v5 EXCEPT ![v9.listing] = @ + 1]
    BY <1>1 DEF Taking!Create
  <2>3. v9.listing \in Listings /\ v5[v9.listing] <= 1
    BY <1>1, <1>r, <1>w DEF Taking!Create, ItemsCounted
  <2>4. \A l \in Listings : v5'[l] <= 2
    BY <1>0, <1>r, <2>2, <2>3 DEF ItemsCounted
  <2> QED
    BY <2>1, <2>4 DEF ItemsCounted
<1>2. CASE \E l \in Listings : Taking!OwnItem(l)
  <2>1. PICK l \in Listings : v9' = v9 /\ v5[l] = 0 /\ v5' = [v5 EXCEPT ![l] = 1]
    BY <1>2 DEF Taking!OwnItem
  <2>2. \A k \in Listings : v5'[k] = IF k = l THEN 1 ELSE v5[k]
    BY <1>0, <2>1
  <2> QED
    BY <1>r, <1>w, <2>1, <2>2 DEF ItemsCounted
<1>3. CASE Taking!Pick
  <2>1. v5' = v5
    BY <1>3 DEF Taking!Pick
  <2>2. \/ v9' = [Taking!Idle EXCEPT !.at = "settle"]
        \/ \E l \in Listings, at \in {"fail", "link"} : v9' = Taking!For(at, l)
        \/ \E l \in Listings : v9' = Taking!For("read", l) /\ v5[l] # 1 /\ ~(v5[l] > 1)
    BY <1>3 DEF Taking!Pick, Taking!Goto, Taking!Untried, Taking!Being
  <2>3. v9'.at \in {"read", "create"} => v5[v9'.listing] <= 1
    <3>1. CASE v9' = [Taking!Idle EXCEPT !.at = "settle"]
      BY <3>1 DEF Taking!Idle
    <3>2. CASE \E l \in Listings, at \in {"fail", "link"} : v9' = Taking!For(at, l)
      BY <3>2 DEF Taking!For
    <3>3. CASE \E l \in Listings : v9' = Taking!For("read", l) /\ v5[l] # 1 /\ ~(v5[l] > 1)
      BY <1>0, <3>3 DEF Taking!For
    <3> QED
      BY <2>2, <3>1, <3>2, <3>3
  <2> QED
    BY <1>r, <2>1, <2>3 DEF ItemsCounted
<1>4. CASE Taking!Read
  <2>1. v5' = v5
    BY <1>4 DEF Taking!Read
  <2>2. v9.at = "read" /\ v9'.at \in {"read", "create"} => v9'.listing = v9.listing
    BY <1>0, <1>4 DEF Taking!Read, Taking!RetryOrFail, Taking!Goto, Taking!Idle, Taking!Place
  <2>3. v9.at = "read"
    BY <1>4 DEF Taking!Read
  <2> QED
    BY <1>r, <2>1, <2>2, <2>3 DEF ItemsCounted
<1>5. CASE \/ Taking!Tick \/ Taking!Record \/ Taking!Fail \/ Taking!Settle \/ Taking!Link
           \/ Taking!Enqueue \/ Taking!Queued \/ Taking!Look \/ Taking!Abandon \/ Taking!Crash
  <2>1. v5' = v5
    BY <1>5 DEF Taking!Tick, Taking!Record, Taking!Fail, Taking!Settle, Taking!Link,
       Taking!Enqueue, Taking!Queued, Taking!Look, Taking!Abandon, Taking!Crash
  <2>2. \/ v9' = [Taking!Idle EXCEPT !.at = "record", !.seen = v3]
        \/ v9' = Taking!Idle
        \/ \E at \in {"look", "adopt", "settle", "owed", "idle", "abandon"} : v9' = [Taking!Idle EXCEPT !.at = at]
        \/ \E l \in Listings : v9' = Taking!For("queued", l)
    BY <1>5 DEF Taking!Tick, Taking!Record, Taking!Fail, Taking!Settle, Taking!Link,
       Taking!Enqueue, Taking!Queued, Taking!Look, Taking!Abandon, Taking!Crash, Taking!Goto
  <2>3. v9'.at \notin {"read", "create"}
    <3>1. [Taking!Idle EXCEPT !.at = "record", !.seen = v3].at = "record" /\ Taking!Idle.at = "idle"
      BY DEF Taking!Idle
    <3>2. CASE \E at \in {"look", "adopt", "settle", "owed", "idle", "abandon"} :
                 v9' = [Taking!Idle EXCEPT !.at = at]
      BY <3>2 DEF Taking!Idle
    <3>3. CASE \E l \in Listings : v9' = Taking!For("queued", l)
      BY <3>3 DEF Taking!For
    <3> QED
      BY <2>2, <3>1, <3>2, <3>3
  <2> QED
    BY <1>r, <2>1, <2>3 DEF ItemsCounted
<1>6. CASE \/ UNCHANGED <<v1, v2, v3, v4, v5, v6, v7, v8, v9, v10, v11, v12, v13, v14>>
           \/ Taking!StaleTap \/ Taking!OtherPublish \/ Taking!PassEnds \/ Taking!Request \/ Taking!Reopen
           \/ \E l \in Listings : Taking!RailLive(l) \/ Taking!Market(l)
           \/ \E S \in SUBSET Listings :
                Taking!Retry(S) \/ \E m \in {"none", "inbox", "relist"} : Taking!Decide(S, m)
  <2>1. v5' = v5 /\ v9' = v9
    BY <1>6 DEF Taking!StaleTap, Taking!OtherPublish, Taking!PassEnds, Taking!RailLive, Taking!Reopen,
                Taking!Market, Taking!Request, Taking!counts, Taking!Retry, Taking!Decide
  <2> QED
    BY <1>r, <2>1 DEF ItemsCounted
<1> QED
  BY <1>1, <1>2, <1>3, <1>4, <1>5, <1>6 DEF Taking!Next

LEMMA TakingShapesStep ==
  ASSUME Taking!IInv, Taking!IInv', TakingShapes,
         Taking!Next \/ UNCHANGED <<v1, v2, v3, v4, v5, v6, v7, v8, v9, v10, v11, v12, v13, v14>>
  PROVE  TakingShapes'
<1>1. SurveyCounted' /\ TakingRest'
  BY SurveyStep
<1>2. AttemptsCounted'
  BY AttemptsStep
<1>3. ItemsCounted'
  BY ItemsStep
<1> QED
  BY <1>1, <1>2, <1>3 DEF TakingShapes

-----------------------------------------------------------------------------
(* The parts together.                                                       *)

\* A behaviour begins in its part, with the rest blank.
LEMMA PartInit ==
  ASSUME RecordsInit
  PROVE  /\ Init
         /\ part = "transcript" => Transcript!Init
         /\ part = "tail" => WebTail!Init
         /\ part = "lanes" => Lanes!Init
         /\ part = "proactive" => Reminding!Init
         /\ part = "control" => Control!Init
         /\ part = "buying" => Buying!Init
         /\ part = "checkout" => Gate!Init
         /\ part = "settings" => Config!Init
         /\ part = "crosslist" => Fanout!Init
         /\ part = "adoption" => Taking!Init
         /\ part = "release" => Install!Init
         /\ part = "binding" => Binding!Init
         /\ part = "connect" => Connecting!Init
         /\ part = "selectors" => Memory!Init
         /\ part = "watch" => Watch!Init
  BY DEF RecordsInit

\* And it stays in its part, every step being one of that part.
LEMMA PartStep ==
  ASSUME [RecordsNext]_<<vars, part, Shared>>
  PROVE  /\ part' = part
         /\ [Next]_vars
         /\ part = "transcript" => Transcript!Next
              \/ UNCHANGED <<v1, v2, v3, v4, v5, v6, v7, v8, v9, v10, v11, v12, v13, v14>>
         /\ part = "tail" => WebTail!Next \/ UNCHANGED <<v1, v2, v3, v4, v5, v6, v7>>
         /\ part = "lanes" => Lanes!Next \/ UNCHANGED <<v1, v2, v3, v4>>
         /\ part = "proactive" => Reminding!Next \/ UNCHANGED <<v1, v2, v3, v4, v5, v6, v7, v8>>
         /\ part = "control" => Control!Next \/ UNCHANGED <<v1, v2, v3, v4, v5, v6, v7, v8, v9>>
         /\ part = "buying" => Buying!Next \/ UNCHANGED <<v1, v2, v3, v4, v5, v6>>
         /\ part = "checkout" => Gate!Next \/ UNCHANGED <<v1, v2, v3, v4, v5, v6, v7>>
         /\ part = "settings" => Config!Next \/ UNCHANGED <<v1, v2, v3, v4>>
         /\ part = "crosslist" =>
              Fanout!Next \/ UNCHANGED <<v1, v2, v3, v4, v5, v6, v7, v8, v9, v10, v11>>
         /\ part = "adoption" => Taking!Next
              \/ UNCHANGED <<v1, v2, v3, v4, v5, v6, v7, v8, v9, v10, v11, v12, v13, v14>>
         /\ part = "release" =>
              Install!Next \/ UNCHANGED <<v1, v2, v3, v4, v5, v6, v7, v8, v9, v10, v11>>
         /\ part = "binding" =>
              Binding!Next \/ UNCHANGED <<v1, v2, v3, v4, v5, v6, v7, v8, v9, v10, v11>>
         /\ part = "connect" =>
              Connecting!Next \/ UNCHANGED <<v1, v2, v3, v4, v5, v6, v7, v8, v9, v10>>
         /\ part = "selectors" => Memory!Next \/ UNCHANGED <<v1, v2, v3, v4, v5, v6>>
         /\ part = "watch" => Watch!Next \/ UNCHANGED <<v1, v2, v3, v4, v5, v6, v7, v8>>
<1>1. CASE RecordsNext
  BY <1>1 DEF RecordsNext
<1>2. CASE UNCHANGED <<vars, part, Shared>>
  BY <1>2 DEF Shared, From5, From6, From7, From8, From9, From10, From11, From12, From13, From14
<1> QED
  BY <1>1, <1>2

\* The sale is a part like the others: whatever Negotiation promises for its own
\* specification it promises here.
THEOREM SaleIsNegotiation == RecordsSpec => Spec
<1>1. RecordsInit => Init
  BY PartInit
<1>2. [RecordsNext]_<<vars, part, Shared>> => [Next]_vars
  BY PartStep
<1> QED
  BY <1>1, <1>2, PTL DEF RecordsSpec, Spec

\* What OnceIsOnce follows from.
OnceInv == /\ part = "tail" => WebTail!IInv
           /\ part = "proactive" => Reminding!IInv
           /\ part = "control" => Control!IInv

LEMMA OnceInvKept == RecordsSpec => []OnceInv
<1>1. RecordsInit => OnceInv
  BY PartInit, TailInit, RemindingInit, ControlInit DEF OnceInv
<1>2. OnceInv /\ [RecordsNext]_<<vars, part, Shared>> => OnceInv'
  <2> SUFFICES ASSUME OnceInv, [RecordsNext]_<<vars, part, Shared>>
               PROVE  OnceInv'
    OBVIOUS
  <2>1. part' = part
    BY PartStep
  <2>2. ASSUME part = "tail"
        PROVE  WebTail!IInv'
    BY <2>2, PartStep, TailStep DEF OnceInv
  <2>3. ASSUME part = "proactive"
        PROVE  Reminding!IInv'
    BY <2>3, PartStep, RemindingStep DEF OnceInv
  <2>4. ASSUME part = "control"
        PROVE  Control!IInv'
    BY <2>4, PartStep, ControlStep DEF OnceInv
  <2> QED
    BY <2>1, <2>2, <2>3, <2>4 DEF OnceInv
<1> QED
  BY <1>1, <1>2, PTL DEF RecordsSpec

\* An event of the web tail is shown once and an outcome never pruned, a
\* reminder given once, a ticket redeemed once, and a token that was replaced
\* lets nobody in (events.py, channel/outbound.py, http_server.py): of any
\* number of events, pages, threads, tickets and rotations.
THEOREM EverythingIsOnce == RecordsSpec => []OnceIsOnce
<1>1. OnceInv => OnceIsOnce
  BY DEF OnceInv, OnceIsOnce, WebTail!IInv, Reminding!IInv, Control!IInv, Control!ComingIsNew,
         Control!ReplacedStaysDead, Control!Resolves
<1> QED
  BY <1>1, OnceInvKept, PTL

\* What DealsAreKept follows from.
DealInv == /\ part = "buying" => Buying!IInv
           /\ part = "checkout" => Gate!IInv

LEMMA DealInvKept == RecordsSpec => []DealInv
<1>1. RecordsInit => DealInv
  BY PartInit, BuyingInit, GateInit DEF DealInv
<1>2. DealInv /\ [RecordsNext]_<<vars, part, Shared>> => DealInv'
  <2> SUFFICES ASSUME DealInv, [RecordsNext]_<<vars, part, Shared>>
               PROVE  DealInv'
    OBVIOUS
  <2>1. part' = part
    BY PartStep
  <2>2. ASSUME part = "buying"
        PROVE  Buying!IInv'
    BY <2>2, PartStep, BuyingStep DEF DealInv
  <2>3. ASSUME part = "checkout"
        PROVE  Gate!IInv'
    BY <2>3, PartStep, GateStep DEF DealInv
  <2> QED
    BY <2>1, <2>2, <2>3 DEF DealInv
<1> QED
  BY <1>1, <1>2, PTL DEF RecordsSpec

\* The buy side's haggling stays under the budget its decision was made with and
\* commits to one seller; a sale has one checkout link that is told, and none
\* below the lowest floor there has been (engines/buyer_negotiate.py,
\* tools/checkout.py): over any ledger, budgets, prices and racing calls.
THEOREM DealsStayKept == RecordsSpec => []DealsAreKept
<1>1. DealInv => DealsAreKept
  BY BuyingKeeps, GateKeeps DEF DealInv, DealsAreKept
<1> QED
  BY <1>1, DealInvKept, PTL

\* What TranscriptKeepsStep follows from.
TranscriptInv == part = "transcript" => Transcript!IInv

LEMMA TranscriptInvKept == RecordsSpec => []TranscriptInv
<1>1. RecordsInit => TranscriptInv
  BY PartInit, TranscriptInit DEF TranscriptInv
<1>2. TranscriptInv /\ [RecordsNext]_<<vars, part, Shared>> => TranscriptInv'
  BY PartStep, TranscriptStep DEF TranscriptInv
<1> QED
  BY <1>1, <1>2, PTL DEF RecordsSpec

\* A read of a conversation loses no row to an id in use, records no bubble twice
\* when the transcript began in step with what it saw, and leaves the transcript
\* ending on the page's last speaker (reconcile.new_rows, _read_thread of
\* browser/inbox.py): of any length, with texts repeated in any way, for any
\* number of sends, whoever writes, commits or dies meanwhile.
THEOREM TranscriptStaysInStep == RecordsSpec => TranscriptKeepsStep
<1> DEFINE Kept == part = "transcript" => /\ Transcript!EveryNewRowIsStored
                                          /\ Transcript!InStepReadsOnce
                                          /\ Transcript!LastWordIsKnown
<1>1. TranscriptInv /\ [RecordsNext]_<<vars, part, Shared>> => [Kept]_<<part, Shared>>
  BY PartStep, TranscriptStep DEF TranscriptInv
<1>2. TranscriptKeepsStep <=> [][Kept]_<<part, Shared>>
  BY DEF TranscriptKeepsStep
<1> HIDE DEF Kept, TranscriptInv
<1> QED
  BY <1>1, <1>2, TranscriptInvKept, PTL DEF RecordsSpec

\* A lane that stays registered has one run at most, and one that is marked
\* running has a run to settle it, whatever registrations come between: but for
\* the start that could not be published and the failure whose backoff does not
\* fit a float, after which the code takes no mark off (scheduler.py).
THEOREM LanesKeepOnRunning == RecordsSpec => []LanesKeepRunning
<1> DEFINE LaneInv == part = "lanes" => Lanes!IInv
<1>1. RecordsInit => LaneInv
  BY PartInit, LanesInit
<1>2. LaneInv /\ [RecordsNext]_<<vars, part, Shared>> => LaneInv'
  <2> SUFFICES ASSUME LaneInv, [RecordsNext]_<<vars, part, Shared>>, part' = "lanes"
               PROVE  Lanes!IInv'
    OBVIOUS
  <2> QED
    BY PartStep, LanesStep
<1>3. LaneInv => LanesKeepRunning
  BY LanesRunOnce DEF LanesKeepRunning
<1> HIDE DEF LaneInv
<1> QED
  BY <1>1, <1>2, <1>3, PTL DEF RecordsSpec

\* What is proved of a sale, of the records.
THEOREM SaleKeepsItsPromises ==
  RecordsSpec => [](TypeOK /\ OneHolder /\ MovesArePaid) /\ SoldIsSold /\ NoUndercut
  BY SaleIsNegotiation, TypeCorrect, OneHolderAlways, MovesPaid, SoldStays, NeverUndercut, PTL

=============================================================================
