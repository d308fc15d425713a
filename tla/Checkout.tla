------------------------------ MODULE Checkout ------------------------------
(* Closing a sale of one item over the carousell.ai rail (tools/checkout.py,  *)
(* the floor gate and the checkout records of store/negotiation.py, the floor *)
(* writer of store/items.py).  A call looks for an issued link, passes the    *)
(* gate, mints on the rail and records, and other calls, a retry of the same  *)
(* one and the seller's own changes may fall between any two of these.        *)
EXTENDS Integers, FiniteSets

CONSTANTS
  Threads, Prices,
  ListPrice,
  Floors,      \* what the seller may set as the floor
  MaxMinted,   \* bound on links minted on the rail
  Calls

CheckoutAssumption ==
  /\ ListPrice \in Nat \ {0} /\ Prices \subseteq Nat \ {0} /\ Floors \subseteq 1..ListPrice
  /\ MaxMinted \in Nat

\* what _sale_id hashes, the item being one
Sales == Threads \X Prices

VARIABLES
  floor,      \* floors row, its source none for no row
  published,  \* listing_urls has the rail
  link,       \* checkouts: the link of each sale, 0 for no row
  minted,     \* links the rail has issued, numbered
  call,       \* calls under way
  told,       \* links handed out for each sale
  lowest      \* the lowest floor there has been

vars == <<floor, published, link, minted, call, told, lowest>>

\* listed: whether the item, as the call read it, is on the rail
Done == [at |-> "done", sale |-> <<>>, link |-> 0, listed |-> FALSE]
NoFloor == [value |-> 0, source |-> "none"]
Smaller(m, n) == IF m < n THEN m ELSE n

Init == /\ floor = NoFloor /\ published = FALSE /\ link = [s \in Sales |-> 0] /\ minted = 0
        /\ call = [c \in Calls |-> Done] /\ told = [s \in Sales |-> {}] /\ lowest = ListPrice

Ends(c) == call' = [call EXCEPT ![c] = Done]
Tell(s, n) == told' = [told EXCEPT ![s] = @ \cup {n}]

\* the item is read; get_checkout comes first, whatever the floor is now
Begin(c, s) ==
  /\ call[c] = Done
  /\ IF link[s] # 0 THEN Tell(s, link[s]) /\ UNCHANGED call
     ELSE /\ call' = [call EXCEPT ![c] = [at |-> "gate", sale |-> s, link |-> 0, listed |-> published]]
          /\ UNCHANGED told
  /\ UNCHANGED <<floor, published, link, minted, lowest>>

\* A variant of Gate.
GateOpen(c) ==
  LET price == call[c].sale[2] IN
  /\ call[c].at = "gate"
  /\ floor' = IF floor = NoFloor /\ price >= ListPrice
                THEN [value |-> ListPrice, source |-> "default"] ELSE floor
  /\ IF price >= floor'.value /\ call[c].listed
       THEN call' = [call EXCEPT ![c].at = "mint"] ELSE Ends(c)
  /\ UNCHANGED <<published, link, minted, told, lowest>>

\* checkout_floor_gate, one transaction, and then the listing the item had when it was read
Gate(c) ==
  LET price == call[c].sale[2] IN
  /\ call[c].at = "gate"
  /\ floor' = IF floor = NoFloor /\ price >= ListPrice
                THEN [value |-> ListPrice, source |-> "default"] ELSE floor
  /\ IF floor' # NoFloor /\ price >= floor'.value /\ call[c].listed
       THEN call' = [call EXCEPT ![c].at = "mint"] ELSE Ends(c)
  /\ UNCHANGED <<published, link, minted, told, lowest>>

\* rail.create_checkout; the answer may be lost, or not sit under the checkout base
Mint(c) ==
  /\ call[c].at = "mint" /\ minted < MaxMinted
  /\ minted' = minted + 1
  /\ \/ call' = [call EXCEPT ![c].at = "record", ![c].link = minted + 1]
     \/ Ends(c)
  /\ UNCHANGED <<floor, published, link, told, lowest>>

\* the rail is unreachable or refuses, or the daemon goes down
Fail(c) == call[c] # Done /\ Ends(c) /\ UNCHANGED <<floor, published, link, minted, told, lowest>>

\* A variant of Record.
RecordLatest(c) ==
  LET s == call[c].sale IN
  /\ call[c].at = "record" /\ Ends(c)
  /\ link' = [link EXCEPT ![s] = call[c].link]
  /\ Tell(s, link'[s])
  /\ UNCHANGED <<floor, published, minted, lowest>>

\* record_checkout, and what it answers
Record(c) ==
  LET s == call[c].sale IN
  /\ call[c].at = "record" /\ Ends(c)
  /\ link' = [link EXCEPT ![s] = IF @ = 0 THEN call[c].link ELSE @]
  /\ Tell(s, link'[s])
  /\ UNCHANGED <<floor, published, minted, lowest>>

\* set_floor: a seller's floor gives way to the seller alone, and by force
SetFloor(v, source, force) ==
  /\ floor.source = "seller" => source = "seller" /\ force
  /\ floor' = [value |-> v, source |-> source] /\ lowest' = Smaller(lowest, v)
  /\ UNCHANGED <<published, link, minted, call, told>>

\* record_listing_url and archive_listing_url of the rail
SetPublished(p) == published' = p /\ UNCHANGED <<floor, link, minted, call, told, lowest>>

Next == \/ \E c \in Calls : \/ Gate(c) \/ Mint(c) \/ Fail(c) \/ Record(c)
                            \/ \E s \in Sales : Begin(c, s)
        \/ \E v \in Floors, source \in {"seller", "default"}, force \in BOOLEAN :
              SetFloor(v, source, force)
        \/ \E p \in BOOLEAN : SetPublished(p)

Spec == Init /\ [][Next]_vars

-----------------------------------------------------------------------------
TypeOK ==
  /\ floor \in [value : 0..ListPrice, source : {"none", "seller", "default"}]
  /\ published \in BOOLEAN /\ minted \in 0..MaxMinted /\ lowest \in 1..ListPrice
  /\ link \in [Sales -> 0..MaxMinted] /\ told \in [Sales -> SUBSET (1..MaxMinted)]

(* Calls for one sale that race, or retry after an answer of the rail was     *)
(* lost, mint several links there and still hand out a single one ("never a   *)
(* second link", record_checkout).                                            *)
OneLinkTold == \A s \in Sales : Cardinality(told[s]) <= 1

(* No link is recorded at a price below every floor there has been: without a *)
(* floor the list price stands, and a floor that falls or rises between the   *)
(* gate and the record is the only other way under the floor of now.          *)
NoLinkBelowFloor == \A s \in Sales : link[s] # 0 => s[2] >= lowest

\* What every step keeps.  The floor of now, and the price of a call that
\* passed the gate, are at or above the lowest floor there has been.
AboveLowest ==
  /\ lowest <= ListPrice /\ (floor # NoFloor => lowest <= floor.value)
  /\ \A c \in Calls : call[c].at \in {"mint", "record"} => call[c].sale[2] >= lowest
ToldIsRecorded == \A s \in Sales : told[s] # {} => link[s] # 0 /\ told[s] = {link[s]}

IInv == /\ floor \in [value : Nat, source : {"none", "seller", "default"}] /\ published \in BOOLEAN
        /\ minted \in Nat /\ lowest \in Nat
        /\ link \in [Sales -> Nat] /\ told \in [Sales -> SUBSET Nat]
        /\ \A c \in Calls : call[c] = Done \/
             call[c] \in [at : {"gate", "mint", "record"}, sale : Sales, link : Nat, listed : BOOLEAN]
        /\ DOMAIN call = Calls
        /\ \A c \in Calls : call[c].at = "record" => call[c].link # 0
        /\ AboveLowest /\ ToldIsRecorded /\ NoLinkBelowFloor

=============================================================================
