----------------------------- MODULE PartsProofs ----------------------------
(***************************************************************************)
(* What seven more parts of Records keep at every size: the selectors, the *)
(* inbox watch, the connect lane, the fan-out, the adoption of listings,   *)
(* the settings and the binding of a chat, each with the inductive         *)
(* invariant IInv of its module.  The proofs name the variables as Records *)
(* does; each section opens with what they stand for.                      *)
(***************************************************************************)
EXTENDS RecordsProofs

-----------------------------------------------------------------------------
(* Short sequences.                                                         *)

LEMMA OneOrTwo ==
  ASSUME NEW S, NEW a \in S, NEW b \in S
  PROVE  /\ <<a>> # <<>> /\ Append(<<a>>, b) = <<a, b>> /\ Append(<<>>, b) = <<b>>
         /\ <<a>> \in Seq(S) /\ <<a, b>> \in Seq(S) /\ Len(<<a>>) = 1 /\ Len(<<a, b>>) = 2
<1>1. <<a>> \in Seq(S) /\ Len(<<a>>) = 1 /\ <<a>>[1] = a
  OBVIOUS
<1>2. <<a, b>> \in Seq(S) /\ Len(<<a, b>>) = 2 /\ <<a, b>>[1] = a /\ <<a, b>>[2] = b
  OBVIOUS
<1>3. /\ Append(<<a>>, b) \in Seq(S) /\ Len(Append(<<a>>, b)) = 2
      /\ Append(<<a>>, b)[1] = a /\ Append(<<a>>, b)[2] = b
  BY <1>1, AppendProperties
<1>4. \A i \in 1..2 : i = 1 \/ i = 2
  OBVIOUS
<1>5. Append(<<a>>, b) = <<a, b>>
  BY <1>1, <1>2, <1>3, <1>4, SeqEqual
<1>6. Append(<<>>, b) = <<b>>
  OBVIOUS
<1>7. <<a>> # <<>>
  BY <1>1
<1> QED
  BY <1>1, <1>2, <1>5, <1>6, <1>7

LEMMA TailOf ==
  ASSUME NEW S, NEW s \in Seq(S), s # <<>>
  PROVE  /\ Tail(s) \in Seq(S) /\ Len(Tail(s)) = Len(s) - 1 /\ Len(s) \in Nat \ {0}
         /\ \A i \in 1..(Len(s) - 1) : Tail(s)[i] = s[i + 1]
         /\ Tail(s) # <<>> => Len(s) > 1
  OBVIOUS

-----------------------------------------------------------------------------
(* Small sets.                                                              *)

LEMMA AtMostOne ==
  ASSUME NEW S, \A i, j \in S : i = j
  PROVE  Cardinality(S) <= 1
<1>1. CASE S = {}
  BY <1>1, FS_EmptySet
<1>2. ASSUME NEW i \in S
      PROVE  Cardinality(S) <= 1
  <2>1. S = {i}
    OBVIOUS
  <2>2. Cardinality({i}) = 1
    BY FS_Singleton
  <2> QED
    BY <2>1, <2>2
<1> QED
  BY <1>1, <1>2

-----------------------------------------------------------------------------
(* Selectors: v1 row, v2 page, v3 todo, v4 outcome, v5 tried, v6 misses.    *)

MemoryEntry == [selector : Memory!Selector, source : {"cache", "shipped"}]

LEMMA MemoryInit ==
  ASSUME Memory!Init
  PROVE  Memory!IInv
  BY RecordsAssumption
     DEF Memory!SelectorsAssumption, Memory!Init, Memory!IInv, Memory!NoRow, Memory!Shipped,
         Memory!Selector, Memory!MissesAreCounted, Memory!RoomForAMiss, Memory!ShippedIsLast,
         Memory!ShippedHasItsTurn

\* A look begins with what the row offers, and ends on the target that shipped.
LEMMA MemoryBegin ==
  ASSUME Memory!IInv, Memory!Begin
  PROVE  Memory!IInv'
<1> DEFINE heal == [selector |-> v1.selector, source |-> "cache"]
           shipped == [selector |-> Memory!Shipped, source |-> "shipped"]
<1> USE RecordsAssumption DEF Memory!SelectorsAssumption
<1>1. v1' = v1 /\ v6' = v6 /\ v4' = "looking" /\ v3' = Memory!Candidates(v1)
  BY DEF Memory!Begin
<1>2. /\ heal \in MemoryEntry
      /\ shipped \in MemoryEntry
  BY DEF MemoryEntry, Memory!IInv, Memory!Shipped, Memory!Selector
<1>3. \/ v3' = <<heal>> /\ v1.selector.target = ShippedTarget /\ v1 # Memory!NoRow /\ ~Memory!Stale(v1)
      \/ v3' = <<heal, shipped>> /\ v1 # Memory!NoRow /\ ~Memory!Stale(v1)
      \/ v3' = <<shipped>>
  <2>1. <<heal>> # <<>> /\ Append(<<heal>>, shipped) = <<heal, shipped>>
        /\ Append(<<>>, shipped) = <<shipped>>
    BY <1>2, OneOrTwo, Zenon
  <2> QED
    BY <1>1, <2>1 DEF Memory!Candidates
<1>4. shipped.source = "shipped" /\ shipped.selector.target = ShippedTarget
      /\ heal.source = "cache" /\ heal.selector = v1.selector
  BY DEF Memory!Shipped
<1> HIDE DEF heal, shipped
<1>5. v3' \in Seq(MemoryEntry) /\ Len(v3') <= 2
  <2>1. /\ <<heal>> \in Seq(MemoryEntry) /\ <<heal, shipped>> \in Seq(MemoryEntry)
        /\ Len(<<heal>>) = 1 /\ Len(<<heal, shipped>>) = 2
    BY <1>2, OneOrTwo, Zenon
  <2>2. <<shipped>> \in Seq(MemoryEntry) /\ Len(<<shipped>>) = 1
    BY <1>2, OneOrTwo, Zenon
  <2>3. v3' \in Seq(MemoryEntry)
    BY <1>3, <2>1, <2>2, Zenon
  <2>4. Len(v3') = 1 \/ Len(v3') = 2
    BY <1>3, <2>1, <2>2, Zenon
  <2>5. \A n : n = 1 \/ n = 2 => n <= 2
    OBVIOUS
  <2>6. Len(v3') <= 2
    BY <2>4, <2>5, Zenon
  <2> QED
    BY <2>3, <2>6, Zenon
<1>9. Memory!ShippedIsLast'
  BY <1>2, <1>3, <1>4 DEF Memory!ShippedIsLast
<1>6. v1 # Memory!NoRow /\ ~Memory!Stale(v1) => v6 < StaleFails
  BY DEF Memory!Stale, Memory!IInv, Memory!MissesAreCounted
<1>7. Memory!RoomForAMiss'
  BY <1>1, <1>3, <1>4, <1>6 DEF Memory!RoomForAMiss
<1> QED
  BY <1>1, <1>5, <1>7, <1>9
     DEF MemoryEntry, Memory!IInv, Memory!MissesAreCounted, Memory!ShippedHasItsTurn

\* A probe that misses is counted if it was of a remembered selector; the last
\* one was of the target that shipped.
LEMMA MemoryMissed ==
  ASSUME Memory!IInv, Memory!Missed
  PROVE  Memory!IInv'
<1> USE RecordsAssumption DEF Memory!SelectorsAssumption
<1>1. /\ v3 # <<>> /\ v3' = Tail(v3) /\ v5' = v5 \cup {v3[1].selector.target}
      /\ v4' = IF Len(v3) = 1 THEN "gave_up" ELSE "looking"
      /\ Memory!CountMiss(v3[1].source)
  BY DEF Memory!Missed, Memory!Probed
<1>2. /\ v3' \in Seq(MemoryEntry)
      /\ Len(v3') = Len(v3) - 1 /\ Len(v3) \in 1..2
      /\ Len(v3) = 2 => v3'[1] = v3[2]
      /\ v3' # <<>> => Len(v3) = 2
  <2>1. v3 \in Seq(MemoryEntry) /\ Len(v3) <= 2
    BY DEF Memory!IInv, MemoryEntry
  <2>2. /\ v3' \in Seq(MemoryEntry) /\ Len(v3') = Len(v3) - 1 /\ Len(v3) \in Nat \ {0}
        /\ \A i \in 1..(Len(v3) - 1) : v3'[i] = v3[i + 1]
        /\ v3' # <<>> => Len(v3) > 1
    BY <1>1, <2>1, TailOf
  <2> QED
    BY <2>1, <2>2
<1>3. Memory!ShippedIsLast' /\ Memory!RoomForAMiss'
  BY <1>1, <1>2 DEF Memory!IInv, Memory!ShippedIsLast, Memory!RoomForAMiss
<1>4. Memory!ShippedHasItsTurn'
  BY <1>1, <1>2 DEF Memory!IInv, Memory!ShippedIsLast, Memory!ShippedHasItsTurn
<1>5. /\ v1' \in [selector : Memory!Selector, fails : Int, age : Nat] /\ v6' \in 0..StaleFails
      /\ v1' # Memory!NoRow => v1'.fails >= 0
      /\ Memory!MissesAreCounted'
  <2>1. CASE v3[1].source = "cache" /\ v1 # Memory!NoRow
    <3>1. v6 < StaleFails
      BY <1>1, <2>1 DEF Memory!IInv, Memory!RoomForAMiss
    <3>2. v6' = v6 + 1 /\ v1' = [v1 EXCEPT !.fails = v1.fails + 1]
      BY <1>1, <2>1 DEF Memory!CountMiss
    <3>3. v1.fails = v6 /\ v1.fails >= 0 /\ v6 \in Nat
      BY <2>1 DEF Memory!IInv, Memory!MissesAreCounted
    <3>4. /\ v1' \in [selector : Memory!Selector, fails : Int, age : Nat]
          /\ v1'.fails = v1.fails + 1
      BY <3>2, <3>3 DEF Memory!IInv
    <3>5. v1' # Memory!NoRow
      BY <3>3, <3>4 DEF Memory!NoRow
    <3> QED
      BY <3>1, <3>2, <3>3, <3>4, <3>5 DEF Memory!MissesAreCounted, Memory!IInv
  <2>2. CASE ~(v3[1].source = "cache" /\ v1 # Memory!NoRow)
    BY <1>1, <2>2 DEF Memory!CountMiss, Memory!IInv, Memory!MissesAreCounted
  <2> QED
    BY <2>1, <2>2
<1> QED
  BY <1>2, <1>3, <1>4, <1>5 DEF Memory!IInv, MemoryEntry

\* The memory is rewritten, or a look ends otherwise.
LEMMA MemoryOthers ==
  ASSUME Memory!IInv,
         \/ Memory!Found \/ Memory!Broken \/ Memory!Invalidate \/ Memory!GrowOld
         \/ \E s \in Memory!Selector : Memory!Record(s)
         \/ \E p \in Memory!Page : Memory!PageMoves(p)
  PROVE  Memory!IInv'
<1> USE RecordsAssumption
    DEF Memory!SelectorsAssumption, Memory!MissesAreCounted, Memory!RoomForAMiss,
        Memory!ShippedIsLast, Memory!ShippedHasItsTurn
<1>1. CASE Memory!Found \/ Memory!Broken
  <2>1. v3' = <<>> /\ v4' \in {"found", "error"} /\ UNCHANGED <<v1, v6>>
    BY <1>1 DEF Memory!Found, Memory!Broken
  <2>2. v3' \in Seq(MemoryEntry) /\ Len(v3') = 0
    BY <2>1
  <2> QED
    BY <2>1, <2>2 DEF Memory!IInv, MemoryEntry
<1>2. CASE Memory!Invalidate
  BY <1>2 DEF Memory!Invalidate, Memory!IInv, Memory!NoRow, Memory!Shipped, Memory!Selector
<1>3. CASE Memory!GrowOld
  <2>1. v1' = [v1 EXCEPT !.age = v1.age + 1] /\ v1 # Memory!NoRow
    BY <1>3 DEF Memory!GrowOld
  <2>2. /\ v1' \in [selector : Memory!Selector, fails : Int, age : Nat]
        /\ v1'.fails = v1.fails /\ v1'.fails >= 0
    BY <2>1 DEF Memory!IInv
  <2>3. v1' # Memory!NoRow
    BY <2>2 DEF Memory!NoRow
  <2> QED
    BY <1>3, <2>1, <2>2, <2>3 DEF Memory!GrowOld, Memory!IInv
<1>4. ASSUME NEW s \in Memory!Selector, Memory!Record(s)
      PROVE  Memory!IInv'
  <2>1. /\ v1' \in [selector : Memory!Selector, fails : Int, age : Nat] /\ v1'.fails = 0 /\ v6' = 0
        /\ UNCHANGED <<v3, v4, v5>>
    BY <1>4 DEF Memory!Record
  <2>2. v1' # Memory!NoRow
    BY <2>1 DEF Memory!NoRow
  <2> QED
    BY <2>1, <2>2 DEF Memory!IInv
<1>5. ASSUME NEW p \in Memory!Page, Memory!PageMoves(p)
      PROVE  Memory!IInv'
  BY <1>5 DEF Memory!PageMoves, Memory!IInv
<1> QED
  BY <1>1, <1>2, <1>3, <1>4, <1>5

LEMMA MemoryStep ==
  ASSUME Memory!IInv, Memory!Next \/ UNCHANGED <<v1, v2, v3, v4, v5, v6>>
  PROVE  Memory!IInv'
<1>1. CASE UNCHANGED <<v1, v2, v3, v4, v5, v6>>
  BY <1>1 DEF Memory!IInv, Memory!MissesAreCounted, Memory!RoomForAMiss, Memory!ShippedIsLast,
              Memory!ShippedHasItsTurn
<1> QED
  BY <1>1, MemoryBegin, MemoryMissed, MemoryOthers DEF Memory!Next

-----------------------------------------------------------------------------
(* ConnectLane: v1 req, v2 todo, v3 drv, v4 excl, v5 tab, v6 owed, v7 busy,   *)
(* v8 crashes, v9 taps, v10 told.                                           *)

Request == [mode : Connecting!Modes, old : BOOLEAN]
Driver == [at : Connecting!driving \cup {"idle", "answer", "survey", "tell"},
           m : AllMarkets \cup {"none"}, mode : Connecting!Modes,
           page : AllMarkets \cup {"other", "none"},
           state : {"none", "cannot", "unknown", "logged_in", "logged_out"},
           moved : BOOLEAN]
Driving == Connecting!driving \cup {"answer"}

\* The invariant in two parts: who drives what and for which row, and what is owed.
ConnectCore ==
  /\ v1 \in [AllMarkets -> Request] /\ v3 \in [Connecting!Drivers -> Driver]
  /\ \A d \in Connecting!Drivers : v3[d].at # "idle" => v3[d].m \in AllMarkets
  /\ v5 \in AllMarkets \cup {"other"}
  /\ v9 \in [AllMarkets -> Nat] /\ v10 \in [AllMarkets -> Nat]
  /\ Connecting!TabIsHeld /\ Connecting!RowsStay /\ Connecting!TapsAreAhead
  /\ Connecting!ProbeIsOfMarket
Owing == v6 \in [AllMarkets -> {"no", "yes", "lost"}] /\ Connecting!NoTapForgotten

LEMMA IdleIsDriver == Connecting!Idle \in Driver /\ Connecting!Idle.at = "idle" /\ Connecting!Idle.state = "none"
  BY DEF Driver, Connecting!Idle, Connecting!Modes

LEMMA ConnectingTypes ==
  ASSUME Connecting!IInv
  PROVE  /\ v1 \in [AllMarkets -> Request] /\ v3 \in [Connecting!Drivers -> Driver]
         /\ v5 \in AllMarkets \cup {"other"}
         /\ \A d \in Connecting!Drivers : v3[d].at # "idle" => v3[d].m \in AllMarkets
         /\ v9 \in [AllMarkets -> Nat] /\ v10 \in [AllMarkets -> Nat]
         /\ "lane" \in Connecting!Drivers
  BY DEF Connecting!IInv, Request, Driver, Connecting!Drivers

LEMMA ConnectingInit ==
  ASSUME Connecting!Init
  PROVE  Connecting!IInv
<1>1. /\ v1 = [m \in AllMarkets |-> Connecting!NoRow] /\ v2 = {}
      /\ v3 = [d \in Connecting!Drivers |-> Connecting!Idle] /\ v5 = "other"
      /\ v9 = [m \in AllMarkets |-> 0] /\ v10 = [m \in AllMarkets |-> 0]
      /\ v6 = [m \in AllMarkets |-> "no"]
  BY DEF Connecting!Init
<1>2. Connecting!NoRow \in Request
  BY DEF Connecting!NoRow, Connecting!Modes, Request
<1>3. \A d \in Connecting!Drivers : v3[d] \in Driver /\ v3[d].at = "idle" /\ v3[d].state = "none"
  BY <1>1, IdleIsDriver
<1>4. v1 \in [AllMarkets -> Request] /\ v3 \in [Connecting!Drivers -> Driver]
  BY <1>1, <1>2, <1>3
<1>5. "lane" \in Connecting!Drivers
  BY DEF Connecting!Drivers
<1>6. Connecting!TapsAreAhead
  BY <1>1, <1>3, <1>5 DEF Connecting!TapsAreAhead, Connecting!ToCome, Connecting!Telling
<1>7. Connecting!RowsStay
  BY <1>1, <1>3, <1>5 DEF Connecting!RowsStay, Connecting!driving
<1>8. Owing
  BY <1>1 DEF Owing, Connecting!NoTapForgotten
<1> QED
  BY <1>1, <1>3, <1>4, <1>6, <1>7, <1>8
     DEF Connecting!IInv, Owing, Connecting!TabIsHeld, Connecting!holding,
         Connecting!ProbeIsOfMarket, Request, Driver

\* A driver that drives on, answers or gives up moves no row and no notice.
LEMMA RowsKept ==
  ASSUME Connecting!IInv, UNCHANGED <<v1, v9, v10>>, v2' \subseteq v2,
         \/ v3'["lane"].at = v3["lane"].at /\ v3'["lane"].m = v3["lane"].m
         \/ v3'["lane"].at = "idle"
         \/ v3["lane"].at \in Driving /\ v3'["lane"].at \in Driving /\ v3'["lane"].m = v3["lane"].m
  PROVE  Connecting!RowsStay' /\ Connecting!TapsAreAhead'
<1>1. Connecting!RowsStay'
  BY DEF Connecting!IInv, Connecting!RowsStay, Driving, Connecting!driving
<1>2. \A m \in AllMarkets : Connecting!Telling(m)' => Connecting!Telling(m)
  BY DEF Connecting!Telling, Driving, Connecting!driving
<1>3. Connecting!TapsAreAhead'
  <2> SUFFICES ASSUME NEW m \in AllMarkets
               PROVE  v10[m] + Connecting!ToCome(m)' <= v9[m]
    BY DEF Connecting!TapsAreAhead
  <2>1. v10[m] + Connecting!ToCome(m) <= v9[m] /\ v10[m] \in Nat /\ v9[m] \in Nat
    BY ConnectingTypes DEF Connecting!IInv, Connecting!TapsAreAhead
  <2>2. Connecting!Telling(m) \in BOOLEAN /\ Connecting!Telling(m)' \in BOOLEAN
    BY DEF Connecting!Telling
  <2> QED
    BY <1>2, <2>1, <2>2 DEF Connecting!ToCome
<1> QED
  BY <1>1, <1>3

\* A step of driver d alone.
LEMMA DriverMoves ==
  ASSUME Connecting!IInv, NEW d \in Connecting!Drivers, NEW r \in Driver,
         v3' = [v3 EXCEPT ![d] = r], r.at # "idle" => r.m \in AllMarkets
  PROVE  /\ v3' \in [Connecting!Drivers -> Driver] /\ v3'[d] = r
         /\ \A e \in Connecting!Drivers \ {d} : v3'[e] = v3[e]
         /\ \A e \in Connecting!Drivers : v3'[e].at # "idle" => v3'[e].m \in AllMarkets
  BY ConnectingTypes

\* open_and_probe: the driver in the bracket alone moves the tab.
LEMMA ConnectingDrives ==
  ASSUME Connecting!IInv, NEW d \in Connecting!Drivers,
         \/ Connecting!Navigate(d) \/ Connecting!Front(d) \/ Connecting!Again(d)
         \/ Connecting!Probe(d) \/ Connecting!Detached(d) \/ Connecting!Down(d)
  PROVE  ConnectCore'
<1> DEFINE old == v3[d]
<1>1. old \in Driver /\ old.at # "idle" /\ old.m \in AllMarkets /\ UNCHANGED <<v1, v2, v9, v10>>
  BY ConnectingTypes
     DEF Connecting!Navigate, Connecting!Front, Connecting!Again, Connecting!Probe,
         Connecting!Detached, Connecting!Down, Connecting!driving, Connecting!world
<1>2. Connecting!TabIsHeld /\ Connecting!ProbeIsOfMarket
  BY DEF Connecting!IInv
<1>3. PICK r \in Driver :
        /\ v3' = [v3 EXCEPT ![d] = r] /\ (r = Connecting!Idle \/ r.m = old.m)
        /\ old.at \in Driving /\ r.at \in Driving \cup {"idle"}
        /\ r.state \in {"logged_in", "logged_out"} => r.page = r.m \/ r.moved
        /\ r.at \in {"front", "again", "probe"} =>
             /\ v4' = d /\ (v4 = d \/ v4 = "none") /\ r.state = "none"
             /\ r.at # "again" => v5' = r.m \/ r.moved
        /\ r.at \notin {"front", "again", "probe"} =>
             v5' = v5 /\ (v4' = v4 \/ (v4 = d /\ v4' = "none"))
        /\ v5' \in AllMarkets \cup {"other"}
        /\ v4 # d => v5' = v5 \/ v4 = "none"
  <2>1. CASE Connecting!Navigate(d)
    <3> DEFINE at == IF old.mode = "open" THEN "front" ELSE "probe"
               r == [Connecting!Idle EXCEPT !.m = old.m, !.at = at]
    <3>1. /\ old.at = "navigate" /\ v4 = "none" /\ v4' = d /\ v5' = old.m
          /\ v3' = [v3 EXCEPT ![d] = r]
      BY <2>1 DEF Connecting!Navigate
    <3>2. at \in {"front", "probe"}
      OBVIOUS
    <3>3. r \in Driver /\ r.m = old.m /\ r.at = at /\ r.state = "none"
      BY <1>1, <3>2 DEF Driver, Connecting!driving, Connecting!Idle, Connecting!Modes
    <3> HIDE DEF r, at, old
    <3> USE <3>3
    <3>4. WITNESS r \in Driver
    <3> QED
      BY <1>1, <1>2, <3>1, <3>2, <3>3
         DEF Driving, Connecting!driving, Connecting!ProbeIsOfMarket, old
  <2>2. CASE Connecting!Front(d)
    <3>1. PICK at \in {"probe", "again"} :
            /\ v3' = [v3 EXCEPT ![d].at = at] /\ (at = "probe" => v5' = v5)
            /\ v5' \in {v5, old.m, "other"}
      BY <2>2 DEF Connecting!Front, Connecting!Goto
    <3>2. /\ old.at = "front" /\ v4' = v4 /\ v4 = d /\ old.state = "none"
          /\ v5 = old.m \/ old.moved
      BY <1>2, <2>2 DEF Connecting!Front, Connecting!TabIsHeld, Connecting!holding
    <3> DEFINE r == [old EXCEPT !.at = at]
    <3>3. r \in Driver /\ r.m = old.m /\ r.at = at /\ r.state = old.state /\ r.moved = old.moved
      BY <1>1 DEF Driver, Connecting!driving
    <3>4. v3' = [v3 EXCEPT ![d] = r]
      BY <3>1
    <3> HIDE DEF r, old
    <3> USE <3>3
    <3>5. WITNESS r \in Driver
    <3> QED
      BY <1>1, <3>1, <3>2, <3>3, <3>4, ConnectingTypes DEF Driving, Connecting!driving, old
  <2>3. CASE Connecting!Again(d)
    <3> DEFINE r == [old EXCEPT !.at = "probe", !.moved = FALSE]
    <3>1. /\ old.at = "again" /\ v4' = v4 /\ v4 = d /\ v5' = old.m /\ v3' = [v3 EXCEPT ![d] = r]
          /\ old.state = "none"
      BY <1>2, <2>3 DEF Connecting!Again, Connecting!TabIsHeld, Connecting!holding
    <3>2. r \in Driver /\ r.m = old.m /\ r.at = "probe" /\ r.state = old.state
      BY <1>1 DEF Driver, Connecting!driving
    <3> HIDE DEF r, old
    <3> USE <3>2
    <3>3. WITNESS r \in Driver
    <3> QED
      BY <1>1, <1>2, <3>1, <3>2 DEF Driving, Connecting!driving, Connecting!ProbeIsOfMarket, old
  <2>4. CASE Connecting!Probe(d)
    <3>1. PICK s \in {"unknown", "logged_in", "logged_out"} :
            v3' = [v3 EXCEPT ![d].at = "answer", ![d].state = s, ![d].page = v5]
      BY <2>4 DEF Connecting!Probe
    <3>2. /\ old.at = "probe" /\ v4 = d /\ v4' = "none" /\ v5' = v5
          /\ v5 = old.m \/ old.moved
      BY <1>2, <2>4 DEF Connecting!Probe, Connecting!TabIsHeld, Connecting!holding
    <3> DEFINE r == [old EXCEPT !.at = "answer", !.state = s, !.page = v5]
    <3>3. r \in Driver /\ r.m = old.m /\ r.at = "answer" /\ r.state = s /\ r.page = v5
          /\ r.moved = old.moved
      BY <1>1, ConnectingTypes DEF Driver, Connecting!driving
    <3>4. v3' = [v3 EXCEPT ![d] = r]
      BY <3>1
    <3> HIDE DEF r, old
    <3> USE <3>3
    <3>5. WITNESS r \in Driver
    <3> QED
      BY <1>1, <3>2, <3>3, <3>4, ConnectingTypes DEF Driving, Connecting!driving
  <2>5. CASE Connecting!Detached(d)
    <3>1. /\ old.at \in Connecting!driving /\ v5' = v5 /\ v3' = [v3 EXCEPT ![d] = Connecting!Idle]
          /\ v4' = IF v4 = d THEN "none" ELSE v4
      BY <2>5 DEF Connecting!Detached, Connecting!Leave
    <3> USE IdleIsDriver
    <3>2. WITNESS Connecting!Idle \in Driver
    <3> QED
      BY <1>1, <3>1, IdleIsDriver, ConnectingTypes DEF Driving
  <2>6. CASE Connecting!Down(d)
    <3> DEFINE r == [old EXCEPT !.at = "answer", !.state = "cannot"]
    <3>1. /\ old.at \in Connecting!driving /\ v5' = v5 /\ v3' = [v3 EXCEPT ![d] = r]
          /\ v4' = IF v4 = d THEN "none" ELSE v4
      BY <2>6 DEF Connecting!Down, Connecting!Leave, Connecting!Answer
    <3>2. r \in Driver /\ r.m = old.m /\ r.at = "answer" /\ r.state = "cannot"
      BY <1>1 DEF Driver
    <3> HIDE DEF r
    <3> USE <3>2
    <3>3. WITNESS r \in Driver
    <3> QED
      BY <1>1, <3>1, <3>2, ConnectingTypes DEF Driving
  <2> QED
    BY <2>1, <2>2, <2>3, <2>4, <2>5, <2>6
<1> HIDE DEF old
<1>4. r.at # "idle" => r.m \in AllMarkets
  BY <1>1, <1>3, IdleIsDriver
<1>5. /\ v3' \in [Connecting!Drivers -> Driver] /\ v3'[d] = r
      /\ \A e \in Connecting!Drivers \ {d} : v3'[e] = v3[e]
      /\ \A e \in Connecting!Drivers : v3'[e].at # "idle" => v3'[e].m \in AllMarkets
  BY <1>3, <1>4, DriverMoves
<1>6. Connecting!RowsStay' /\ Connecting!TapsAreAhead'
  <2>1. d = "lane" => r.at = "idle" \/ (old.at \in Driving /\ r.at \in Driving /\ r.m = old.m)
    BY <1>3, IdleIsDriver
  <2>2. d # "lane" => v3'["lane"] = v3["lane"]
    BY <1>5, ConnectingTypes
  <2> QED
    BY <1>1, <1>5, <2>1, <2>2, RowsKept DEF old
<1>7. Connecting!TabIsHeld'
  <2> SUFFICES ASSUME NEW e \in Connecting!Drivers
               PROVE  /\ v3'[e].at \in {"front", "again", "probe"} => v4' = e /\ v3'[e].state = "none"
                      /\ v3'[e].at \in {"front", "probe"} => v5' = v3'[e].m \/ v3'[e].moved
    BY DEF Connecting!TabIsHeld, Connecting!holding
  <2>1. CASE e = d
    BY <1>3, <1>5, <2>1
  <2>2. CASE e # d
    <3>1. v3'[e] = v3[e]
      BY <1>5, <2>2
    <3>2. v3[e].at \in {"front", "again", "probe"} =>
            /\ v4 = e /\ v3[e].state = "none"
            /\ v3[e].at # "again" => v5 = v3[e].m \/ v3[e].moved
      BY <1>2 DEF Connecting!TabIsHeld, Connecting!holding
    <3>3. e # "none"
      BY DEF Connecting!Drivers
    <3> QED
      BY <1>3, <2>2, <3>1, <3>2, <3>3
  <2> QED
    BY <2>1, <2>2
<1>8. Connecting!ProbeIsOfMarket'
  BY <1>2, <1>3, <1>5 DEF Connecting!ProbeIsOfMarket
<1> QED
  BY <1>1, <1>3, <1>5, <1>6, <1>7, <1>8, ConnectingTypes DEF ConnectCore

\* What a step keeps when it moves no driver and no tab, or the tab alone.
LEMMA ConnectingSeller ==
  ASSUME Connecting!IInv,
         \/ \E m \in AllMarkets : Connecting!Age(m)
         \/ \E m \in AllMarkets, mode \in {"open", "probe"} : Connecting!Tap(m, mode)
         \/ Connecting!World \/ Connecting!TabIsLost
  PROVE  ConnectCore'
<1> USE ConnectingTypes
<1>0. /\ Connecting!TabIsHeld /\ Connecting!ProbeIsOfMarket /\ Connecting!RowsStay
      /\ Connecting!TapsAreAhead
  BY DEF Connecting!IInv
<1>1. ASSUME NEW m \in AllMarkets, NEW row \in Request, row # Connecting!NoRow,
             v1' = [v1 EXCEPT ![m] = row], UNCHANGED <<v2, v3, v4, v5, v10>>,
             \/ v9' = v9 /\ v1[m] # Connecting!NoRow
             \/ v9' = [v9 EXCEPT ![m] = v9[m] + 1]
      PROVE  ConnectCore'
  <2>1. v1' \in [AllMarkets -> Request] /\ v1'[m] = row
        /\ \A n \in AllMarkets \ {m} : v1'[n] = v1[n]
    BY <1>1
  <2>2. Connecting!RowsStay'
    BY <1>0, <1>1, <2>1 DEF Connecting!RowsStay, Connecting!driving
  <2>3. Connecting!TapsAreAhead'
    <3> SUFFICES ASSUME NEW n \in AllMarkets
                 PROVE  v10'[n] + Connecting!ToCome(n)' <= v9'[n]
      BY DEF Connecting!TapsAreAhead
    <3>1. v10[n] + Connecting!ToCome(n) <= v9[n] /\ v10[n] \in Nat /\ v9[n] \in Nat
      BY <1>0 DEF Connecting!TapsAreAhead
    <3>2. Connecting!Telling(n)' = Connecting!Telling(n) /\ Connecting!Telling(n) \in BOOLEAN
      BY <1>1 DEF Connecting!Telling
    <3> QED
      BY <1>1, <2>1, <3>1, <3>2 DEF Connecting!ToCome
  <2>4. Connecting!TabIsHeld' /\ Connecting!ProbeIsOfMarket'
    BY <1>0, <1>1 DEF Connecting!TabIsHeld, Connecting!ProbeIsOfMarket
  <2>5. v9' \in [AllMarkets -> Nat]
    BY <1>1
  <2> QED
    BY <1>1, <2>1, <2>2, <2>3, <2>4, <2>5 DEF ConnectCore
<1>2. ASSUME NEW m \in AllMarkets, Connecting!Age(m)
      PROVE  ConnectCore'
  <2> DEFINE row == [v1[m] EXCEPT !.old = TRUE]
  <2>1. row \in Request /\ row # Connecting!NoRow
    BY DEF Request, Connecting!NoRow
  <2>2. /\ v1' = [v1 EXCEPT ![m] = row] /\ v1[m] # Connecting!NoRow
        /\ UNCHANGED <<v2, v3, v4, v5, v9, v10>>
    BY <1>2 DEF Connecting!Age, Connecting!world
  <2> HIDE DEF row
  <2> QED
    BY <1>1, <2>1, <2>2
<1>3. ASSUME NEW m \in AllMarkets, NEW mode \in {"open", "probe"}, Connecting!Tap(m, mode)
      PROVE  ConnectCore'
  <2> DEFINE row == [mode |-> mode, old |-> FALSE]
  <2>1. row \in Request /\ row # Connecting!NoRow
    BY DEF Request, Connecting!NoRow, Connecting!Modes
  <2>2. /\ v1' = [v1 EXCEPT ![m] = row] /\ v9' = [v9 EXCEPT ![m] = v9[m] + 1]
        /\ UNCHANGED <<v2, v3, v4, v5, v10>>
    BY <1>3 DEF Connecting!Tap
  <2> HIDE DEF row
  <2> QED
    BY <1>1, <2>1, <2>2
<1>4. CASE Connecting!World
  <2>1. /\ UNCHANGED <<v1, v2, v3, v4, v9, v10>>
        /\ v5' = v5 \/ (v4 = "none" /\ v5' \in AllMarkets \cup {"other"})
    BY <1>4 DEF Connecting!World
  <2>2. Connecting!TabIsHeld'
    BY <1>0, <2>1 DEF Connecting!TabIsHeld, Connecting!holding, Connecting!Drivers
  <2>3. Connecting!RowsStay' /\ Connecting!TapsAreAhead'
    BY <2>1, RowsKept
  <2> QED
    BY <1>0, <2>1, <2>2, <2>3 DEF ConnectCore, Connecting!ProbeIsOfMarket
<1>5. CASE Connecting!TabIsLost
  <2>1. /\ v3' = [d \in Connecting!Drivers |->
                   [v3[d] EXCEPT !.moved = v3[d].moved \/ v3[d].at \in Connecting!holding]]
        /\ v5' = "other" /\ UNCHANGED <<v1, v2, v4, v9, v10>>
    BY <1>5 DEF Connecting!TabIsLost, Connecting!world
  <2>2. ASSUME NEW d \in Connecting!Drivers
        PROVE  /\ v3'[d] \in Driver /\ v3'[d].at = v3[d].at /\ v3'[d].m = v3[d].m
               /\ v3'[d].state = v3[d].state /\ v3'[d].page = v3[d].page
               /\ v3[d].moved => v3'[d].moved
               /\ v3[d].at \in Connecting!holding => v3'[d].moved
    <3> DEFINE moved == v3[d].moved \/ v3[d].at \in Connecting!holding
               r == [v3[d] EXCEPT !.moved = moved]
    <3>1. v3[d] \in Driver /\ moved \in BOOLEAN
      BY DEF Driver
    <3>2. v3'[d] = r
      BY <2>1
    <3> HIDE DEF moved
    <3>3. r \in Driver /\ r.moved = moved
      BY <3>1 DEF Driver
    <3>4. r.at = v3[d].at /\ r.m = v3[d].m /\ r.state = v3[d].state /\ r.page = v3[d].page
      BY <3>1 DEF Driver
    <3> HIDE DEF r
    <3> QED
      BY <3>2, <3>3, <3>4 DEF moved
  <2>3. v3' \in [Connecting!Drivers -> Driver]
    BY <2>1, <2>2
  <2>4. Connecting!TabIsHeld'
    BY <1>0, <2>1, <2>2 DEF Connecting!TabIsHeld, Connecting!holding
  <2>5. Connecting!RowsStay' /\ Connecting!TapsAreAhead'
    BY <2>1, <2>2, RowsKept
  <2>6. Connecting!ProbeIsOfMarket'
    BY <1>0, <2>2 DEF Connecting!ProbeIsOfMarket
  <2>7. \A d \in Connecting!Drivers : v3'[d].at # "idle" => v3'[d].m \in AllMarkets
    BY <2>2
  <2> QED
    BY <2>1, <2>3, <2>4, <2>5, <2>6, <2>7 DEF ConnectCore
<1> QED
  BY <1>2, <1>3, <1>4, <1>5

\* The lane looks, and takes a row.
LEMMA ConnectingTakes ==
  ASSUME Connecting!IInv, Connecting!Look \/ \E r \in v2 : Connecting!Take(r)
  PROVE  ConnectCore'
<1> USE ConnectingTypes
<1>0. /\ Connecting!TabIsHeld /\ Connecting!ProbeIsOfMarket /\ Connecting!RowsStay
      /\ Connecting!TapsAreAhead /\ v3["lane"].at = "idle"
      /\ UNCHANGED <<v1, v4, v5, v9, v10>>
  BY IdleIsDriver DEF Connecting!IInv, Connecting!Look, Connecting!Take, Connecting!world
<1>1. CASE Connecting!Look
  <2>1. v2' = {[m |-> m, row |-> v1[m]] : m \in {n \in AllMarkets : v1[n] # Connecting!NoRow}}
        /\ v3' = v3
    BY <1>1 DEF Connecting!Look
  <2>2. \A r \in v2' : /\ r.m \in AllMarkets /\ r.row = v1[r.m] /\ v1[r.m] # Connecting!NoRow
                       /\ r = [m |-> r.m, row |-> v1[r.m]]
    BY <2>1
  <2>3. Connecting!RowsStay'
    <3>1. \A r \in v2' : /\ r.m \in AllMarkets /\ v1[r.m] # Connecting!NoRow
                         /\ r.row \in Request
      BY <2>2
    <3>2. \A r, q \in v2' : q.m = r.m => q = r
      BY <2>2
    <3> QED
      BY <1>0, <2>1, <3>1, <3>2 DEF Connecting!RowsStay, Connecting!driving, Request
  <2>4. Connecting!TapsAreAhead'
    BY <1>0, <2>1 DEF Connecting!TapsAreAhead, Connecting!ToCome, Connecting!Telling
  <2> QED
    BY <1>0, <2>1, <2>3, <2>4
       DEF ConnectCore, Connecting!TabIsHeld, Connecting!holding, Connecting!ProbeIsOfMarket
<1>2. ASSUME NEW r \in v2, Connecting!Take(r)
      PROVE  ConnectCore'
  <2>1. v2' = v2 \ {r} /\ r.m \in AllMarkets /\ r.row \in Request /\ v1[r.m] # Connecting!NoRow
        /\ \A q \in v2 : q.m = r.m => q = r
    BY <1>0, <1>2 DEF Connecting!Take, Connecting!RowsStay, Request
  <2> DEFINE put(at, shows) == [Connecting!Idle EXCEPT !.at = at, !.m = r.m,
                                   !.mode = r.row.mode, !.state = shows]
  <2>2. \/ v3' = v3
        \/ \E at \in {"answer", "navigate"}, shows \in {"none", "cannot"} :
             v3' = [v3 EXCEPT !["lane"] = put(at, shows)]
    BY <1>2 DEF Connecting!Take
  <2>3. CASE v3' = v3
    <3>1. Connecting!RowsStay'
      BY <1>0, <2>1, <2>3 DEF Connecting!RowsStay, Connecting!driving
    <3>2. Connecting!TapsAreAhead'
      BY <1>0, <2>3 DEF Connecting!TapsAreAhead, Connecting!ToCome, Connecting!Telling
    <3> QED
      BY <1>0, <2>3, <3>1, <3>2
         DEF ConnectCore, Connecting!TabIsHeld, Connecting!holding, Connecting!ProbeIsOfMarket
  <2>4. ASSUME NEW at \in {"answer", "navigate"}, NEW shows \in {"none", "cannot"},
               v3' = [v3 EXCEPT !["lane"] = put(at, shows)]
        PROVE  ConnectCore'
    <3> DEFINE n == put(at, shows)
    <3>1. n \in Driver /\ n.at = at /\ n.m = r.m /\ n.state = shows
      BY <2>1 DEF Connecting!Idle, Driver, Connecting!driving, Request
    <3>2. v3' = [v3 EXCEPT !["lane"] = n]
      BY <2>4
    <3> HIDE DEF n, put
    <3>3. /\ v3' \in [Connecting!Drivers -> Driver] /\ v3'["lane"] = n
          /\ \A e \in Connecting!Drivers \ {"lane"} : v3'[e] = v3[e]
          /\ \A e \in Connecting!Drivers : v3'[e].at # "idle" => v3'[e].m \in AllMarkets
      BY <2>1, <3>1, <3>2, DriverMoves
    <3>4. Connecting!RowsStay'
      BY <1>0, <2>1, <3>1, <3>3 DEF Connecting!RowsStay, Connecting!driving
    <3>5. Connecting!TapsAreAhead'
      BY <1>0, <3>1, <3>3 DEF Connecting!TapsAreAhead, Connecting!ToCome, Connecting!Telling
    <3>6. Connecting!TabIsHeld' /\ Connecting!ProbeIsOfMarket'
      BY <1>0, <3>1, <3>3 DEF Connecting!TabIsHeld, Connecting!holding, Connecting!ProbeIsOfMarket
    <3> QED
      BY <1>0, <3>3, <3>4, <3>5, <3>6 DEF ConnectCore
  <2> QED
    BY <2>2, <2>3, <2>4
<1> QED
  BY <1>1, <1>2

\* _serve: the row, the survey, the notice.
LEMMA ConnectingAnswers ==
  ASSUME Connecting!IInv, Connecting!Clear \/ Connecting!Survey \/ Connecting!Tell
  PROVE  ConnectCore'
<1> DEFINE old == v3["lane"]
<1> USE ConnectingTypes
<1>0. /\ Connecting!TabIsHeld /\ Connecting!ProbeIsOfMarket /\ Connecting!RowsStay
      /\ Connecting!TapsAreAhead /\ old.at \in {"answer", "survey", "tell"}
      /\ UNCHANGED <<v2, v4, v5, v9>>
  BY DEF Connecting!IInv, Connecting!Clear, Connecting!Survey, Connecting!Tell, Connecting!world
<1>m. old \in Driver /\ old.m \in AllMarkets
  BY <1>0
<1>1. ASSUME Connecting!Survey
      PROVE  \E n \in Driver : /\ v3' = [v3 EXCEPT !["lane"] = n] /\ n.at = "tell" /\ n.m = old.m
                               /\ n.state = old.state /\ n.page = old.page /\ n.moved = old.moved
  <2> DEFINE n == [old EXCEPT !.at = "tell"]
  <2>1. n \in Driver /\ n.at = "tell" /\ n.m = old.m
        /\ n.state = old.state /\ n.page = old.page /\ n.moved = old.moved
    BY <1>m DEF Driver
  <2>2. v3' = [v3 EXCEPT !["lane"] = n]
    BY <1>1 DEF Connecting!Survey, Connecting!Goto
  <2> HIDE DEF n, old
  <2> QED
    BY <2>1, <2>2
<1>c. ASSUME Connecting!Clear
      PROVE  \E n \in Driver : /\ v3' = [v3 EXCEPT !["lane"] = n] /\ n.at \in {"survey", "tell"}
                               /\ n.m = old.m /\ n.state = "none"
  <2> DEFINE at == IF old.state = "logged_in" THEN "survey" ELSE "tell"
             n == [Connecting!Idle EXCEPT !.m = old.m, !.at = at]
  <2>1. v3' = [v3 EXCEPT !["lane"] = n] /\ at \in {"survey", "tell"}
    BY <1>c DEF Connecting!Clear
  <2> HIDE DEF at
  <2>2. n \in Driver /\ n.at = at /\ n.m = old.m /\ n.state = "none"
    BY <1>m, <2>1 DEF Driver, Connecting!Idle, Connecting!Modes
  <2> HIDE DEF n, old
  <2> QED
    BY <2>1, <2>2
<1>2. PICK n \in Driver :
        /\ v3' = [v3 EXCEPT !["lane"] = n]
        /\ \/ n = Connecting!Idle /\ old.at = "tell"
           \/ /\ n.at \in {"survey", "tell"} /\ n.m = old.m /\ old.at \in {"answer", "survey"}
              /\ \/ n.state = "none"
                 \/ n.state = old.state /\ n.page = old.page /\ n.moved = old.moved
  <2>1. CASE Connecting!Tell
    BY <2>1, IdleIsDriver DEF Connecting!Tell
  <2>2. CASE Connecting!Survey
    BY <1>1, <2>2 DEF Connecting!Survey
  <2>3. CASE Connecting!Clear
    BY <1>c, <2>3 DEF Connecting!Clear
  <2> QED
    BY <2>1, <2>2, <2>3
<1>3. /\ Connecting!Clear => old.at = "answer" /\ v1' = [v1 EXCEPT ![old.m] = Connecting!NoRow] /\ v10' = v10
      /\ Connecting!Survey => old.at = "survey" /\ v1' = v1 /\ v10' = v10
      /\ Connecting!Tell => old.at = "tell" /\ v1' = v1 /\ v10' = [v10 EXCEPT ![old.m] = v10[old.m] + 1]
  BY DEF Connecting!Clear, Connecting!Survey, Connecting!Tell
<1>n. Connecting!NoRow \in Request
  BY DEF Connecting!NoRow, Connecting!Modes, Request
<1> HIDE DEF old
<1>4. n.at # "idle" => n.m \in AllMarkets
  BY <1>2, <1>m, IdleIsDriver
<1>5. /\ v3' \in [Connecting!Drivers -> Driver] /\ v3'["lane"] = n
      /\ \A e \in Connecting!Drivers \ {"lane"} : v3'[e] = v3[e]
      /\ \A e \in Connecting!Drivers : v3'[e].at # "idle" => v3'[e].m \in AllMarkets
  BY <1>2, <1>4, DriverMoves
<1>6. Connecting!TabIsHeld' /\ Connecting!ProbeIsOfMarket'
  BY <1>0, <1>2, <1>5, IdleIsDriver
     DEF Connecting!TabIsHeld, Connecting!holding, Connecting!ProbeIsOfMarket, old
<1>7. /\ v1' \in [AllMarkets -> Request] /\ v10' \in [AllMarkets -> Nat]
      /\ \A m \in AllMarkets \ {old.m} : v1'[m] = v1[m] /\ v10'[m] = v10[m]
  BY <1>3, <1>m, <1>n
<1>8. Connecting!RowsStay'
  <2>1. \A r \in v2 : r.m # old.m
    BY <1>0 DEF Connecting!RowsStay, old
  <2>2. \A r \in v2 : v1'[r.m] # Connecting!NoRow
    BY <1>0, <1>7, <2>1 DEF Connecting!RowsStay
  <2>3. n.at \notin Connecting!driving \cup {"answer"} /\ (n.at # "idle" => n.m = old.m)
    BY <1>2, IdleIsDriver DEF Connecting!driving
  <2> QED
    BY <1>0, <1>5, <2>1, <2>2, <2>3 DEF Connecting!RowsStay
<1>9. Connecting!TapsAreAhead'
  <2> SUFFICES ASSUME NEW m \in AllMarkets
               PROVE  v10'[m] + Connecting!ToCome(m)' <= v9'[m]
    BY DEF Connecting!TapsAreAhead
  <2>1. v10[m] + Connecting!ToCome(m) <= v9[m] /\ v10[m] \in Nat /\ v9[m] \in Nat /\ v9' = v9
    BY <1>0 DEF Connecting!TapsAreAhead
  <2>2. /\ Connecting!Telling(m) <=> old.at \in {"survey", "tell"} /\ old.m = m
        /\ Connecting!Telling(m)' <=> n.at \in {"survey", "tell"} /\ n.m = m
    BY <1>5 DEF Connecting!Telling, old
  <2>3. CASE m # old.m
    <3>1. ~Connecting!Telling(m) /\ ~Connecting!Telling(m)'
      BY <1>2, <2>2, <2>3, IdleIsDriver
    <3> QED
      BY <1>7, <2>1, <2>3, <3>1 DEF Connecting!ToCome
  <2>4. CASE m = old.m
    <3>1. CASE Connecting!Clear
      <4>1. v1[m] # Connecting!NoRow
        BY <1>0, <1>3, <2>4, <3>1 DEF Connecting!RowsStay, old
      <4>2. v1'[m] = Connecting!NoRow /\ v10' = v10
        BY <1>3, <2>4, <3>1
      <4>3. Connecting!Telling(m) \in BOOLEAN /\ Connecting!Telling(m)' \in BOOLEAN
        BY DEF Connecting!Telling
      <4> QED
        BY <2>1, <4>1, <4>2, <4>3 DEF Connecting!ToCome
    <3>2. CASE Connecting!Survey
      <4>1. Connecting!Telling(m)
        BY <1>3, <2>2, <2>4, <3>2
      <4> QED
        BY <1>3, <2>1, <3>2, <4>1 DEF Connecting!ToCome
    <3>3. CASE Connecting!Tell
      <4>1. Connecting!Telling(m) /\ ~Connecting!Telling(m)'
        BY <1>2, <1>3, <2>2, <2>4, <3>3, IdleIsDriver
      <4>2. v10'[m] = v10[m] + 1 /\ v1' = v1
        BY <1>3, <2>4, <3>3
      <4> QED
        BY <2>1, <4>1, <4>2 DEF Connecting!ToCome
    <3> QED
      BY <3>1, <3>2, <3>3
  <2> QED
    BY <2>3, <2>4
<1> QED
  BY <1>0, <1>5, <1>6, <1>7, <1>8, <1>9 DEF ConnectCore

\* The route takes a call and answers it; the lane fails, the daemon dies.
LEMMA ConnectingRoute ==
  ASSUME Connecting!IInv,
         \/ \E m \in SignInMarkets, mode \in {"open", "probe"} : Connecting!Call(m, mode)
         \/ Connecting!Respond \/ Connecting!LaneFails \/ Connecting!Crash
  PROVE  ConnectCore'
<1> USE ConnectingTypes
<1>0. /\ Connecting!TabIsHeld /\ Connecting!ProbeIsOfMarket /\ Connecting!RowsStay
      /\ Connecting!TapsAreAhead /\ UNCHANGED <<v1, v9, v10>>
  BY DEF Connecting!IInv, Connecting!Call, Connecting!Respond, Connecting!LaneFails, Connecting!Crash,
         Connecting!world
<1>r. "route" \in Connecting!Drivers
  BY DEF Connecting!Drivers
<1>1. ASSUME NEW n \in Driver, v3' = [v3 EXCEPT !["route"] = n], UNCHANGED <<v2, v4, v5>>,
             n.at \in {"idle", "navigate"}, n.state = "none", n.at # "idle" => n.m \in AllMarkets
      PROVE  ConnectCore'
  <2>1. /\ v3' \in [Connecting!Drivers -> Driver] /\ v3'["route"] = n
        /\ \A e \in Connecting!Drivers \ {"route"} : v3'[e] = v3[e]
        /\ \A e \in Connecting!Drivers : v3'[e].at # "idle" => v3'[e].m \in AllMarkets
    BY <1>r, <1>1, DriverMoves
  <2>2. Connecting!RowsStay' /\ Connecting!TapsAreAhead'
    BY <1>0, <1>1, <2>1, RowsKept
  <2>3. Connecting!TabIsHeld' /\ Connecting!ProbeIsOfMarket'
    BY <1>0, <1>1, <2>1 DEF Connecting!TabIsHeld, Connecting!holding, Connecting!ProbeIsOfMarket
  <2> QED
    BY <1>0, <1>1, <2>1, <2>2, <2>3 DEF ConnectCore
<1>2. ASSUME NEW m \in SignInMarkets, NEW mode \in {"open", "probe"}, Connecting!Call(m, mode)
      PROVE  ConnectCore'
  <2> DEFINE n == [Connecting!Idle EXCEPT !.at = "navigate", !.m = m, !.mode = mode]
  <2>1. m \in AllMarkets
    BY RecordsAssumption DEF Connecting!ConnectLaneAssumption
  <2>2. n \in Driver /\ n.at = "navigate" /\ n.m = m /\ n.state = "none"
    BY <2>1 DEF Connecting!Idle, Driver, Connecting!driving, Connecting!Modes
  <2>3. v3' = [v3 EXCEPT !["route"] = n] /\ UNCHANGED <<v2, v4, v5>>
    BY <1>2 DEF Connecting!Call
  <2> HIDE DEF n
  <2> QED
    BY <1>1, <2>1, <2>2, <2>3
<1>3. CASE Connecting!Respond
  <2>1. v3' = [v3 EXCEPT !["route"] = Connecting!Idle] /\ UNCHANGED <<v2, v4, v5>>
    BY <1>3 DEF Connecting!Respond
  <2> QED
    BY <1>1, <2>1, IdleIsDriver
<1>4. CASE Connecting!Crash
  <2>1. v3' = [d \in Connecting!Drivers |-> Connecting!Idle] /\ v2' = {} /\ v5' = "other"
    BY <1>4 DEF Connecting!Crash
  <2>2. \A d \in Connecting!Drivers : v3'[d] \in Driver /\ v3'[d].at = "idle" /\ v3'[d].state = "none"
    BY <2>1, IdleIsDriver
  <2>3. v3' \in [Connecting!Drivers -> Driver]
    BY <2>1, <2>2
  <2>4. Connecting!RowsStay' /\ Connecting!TapsAreAhead'
    BY <1>0, <2>1, <2>2, RowsKept
  <2> QED
    BY <1>0, <2>1, <2>2, <2>3, <2>4
       DEF ConnectCore, Connecting!TabIsHeld, Connecting!holding, Connecting!ProbeIsOfMarket
<1>5. CASE Connecting!LaneFails
  <2>1. /\ v3' = [v3 EXCEPT !["lane"] = Connecting!Idle] /\ v2' = {} /\ v5' = v5
        /\ v4' = IF v4 = "lane" THEN "none" ELSE v4
    BY <1>5 DEF Connecting!LaneFails, Connecting!Leave
  <2>2. /\ v3' \in [Connecting!Drivers -> Driver] /\ v3'["lane"] = Connecting!Idle
        /\ \A e \in Connecting!Drivers \ {"lane"} : v3'[e] = v3[e]
        /\ \A e \in Connecting!Drivers : v3'[e].at # "idle" => v3'[e].m \in AllMarkets
    BY <2>1, IdleIsDriver, DriverMoves
  <2>3. Connecting!RowsStay' /\ Connecting!TapsAreAhead'
    BY <1>0, <2>1, <2>2, IdleIsDriver, RowsKept
  <2>4. Connecting!TabIsHeld' /\ Connecting!ProbeIsOfMarket'
    BY <1>0, <2>1, <2>2, IdleIsDriver
       DEF Connecting!TabIsHeld, Connecting!holding, Connecting!ProbeIsOfMarket
  <2> QED
    BY <1>0, <2>1, <2>2, <2>3, <2>4 DEF ConnectCore
<1> QED
  BY <1>2, <1>3, <1>4, <1>5

\* What is owed is settled by the notice and by nothing else; the lane that stops
\* on the way to it leaves it lost.
LEMMA OwingStep ==
  ASSUME Connecting!IInv, Connecting!Next
  PROVE  Owing'
<1> USE ConnectingTypes
<1>0. Owing
  BY DEF Connecting!IInv, Owing
<1> DEFINE old == v3["lane"]
<1>1. ASSUME UNCHANGED <<v1, v6>>,
             \/ old.at \notin {"survey", "tell"}
             \/ v3'["lane"].at \in {"survey", "tell"} /\ v3'["lane"].m = old.m
      PROVE  Owing'
  BY <1>0, <1>1 DEF Owing, Connecting!NoTapForgotten, Connecting!Telling
<1>2. ASSUME v1' = v1, v6' = Connecting!Dropped
      PROVE  Owing'
  BY <1>0, <1>2 DEF Owing, Connecting!NoTapForgotten, Connecting!Dropped
<1>3. ASSUME NEW m \in AllMarkets, NEW row \in Request, row # Connecting!NoRow,
             v1' = [v1 EXCEPT ![m] = row], v3' = v3, v6' = v6 \/ v6' = [v6 EXCEPT ![m] = "yes"]
      PROVE  Owing'
  BY <1>0, <1>3 DEF Owing, Connecting!NoTapForgotten, Connecting!Telling
<1>4. ASSUME NEW m \in AllMarkets, Connecting!Age(m)
      PROVE  Owing'
  <2> DEFINE row == [v1[m] EXCEPT !.old = TRUE]
  <2>1. row \in Request /\ row # Connecting!NoRow
    BY DEF Request, Connecting!NoRow
  <2>2. v1' = [v1 EXCEPT ![m] = row] /\ UNCHANGED <<v3, v6>>
    BY <1>4 DEF Connecting!Age
  <2> HIDE DEF row
  <2> QED
    BY <1>3, <2>1, <2>2
<1>5. ASSUME NEW m \in AllMarkets, NEW mode \in {"open", "probe"}, Connecting!Tap(m, mode)
      PROVE  Owing'
  <2> DEFINE row == [mode |-> mode, old |-> FALSE]
  <2>1. row \in Request /\ row # Connecting!NoRow
    BY DEF Request, Connecting!NoRow, Connecting!Modes
  <2>2. v1' = [v1 EXCEPT ![m] = row] /\ v6' = [v6 EXCEPT ![m] = "yes"] /\ v3' = v3
    BY <1>5 DEF Connecting!Tap
  <2> HIDE DEF row
  <2> QED
    BY <1>3, <2>1, <2>2
<1>6. CASE Connecting!LaneFails \/ Connecting!Crash
  BY <1>2, <1>6 DEF Connecting!LaneFails, Connecting!Crash
<1>7. CASE Connecting!Look \/ Connecting!World \/ \E r \in v2 : Connecting!Take(r)
  BY <1>1, <1>7, IdleIsDriver DEF Connecting!Look, Connecting!World, Connecting!Take
<1>8. CASE Connecting!TabIsLost
  <2>1. UNCHANGED <<v1, v6>> /\ v3'["lane"] = [old EXCEPT !.moved = @ \/ old.at \in Connecting!holding]
    BY <1>8 DEF Connecting!TabIsLost
  <2>2. old \in Driver
    OBVIOUS
  <2>3. v3'["lane"].at = old.at /\ v3'["lane"].m = old.m
    BY <2>1, <2>2 DEF Driver
  <2> QED
    BY <1>1, <2>1, <2>3
<1>9. CASE Connecting!Respond \/ \E m \in SignInMarkets, mode \in {"open", "probe"} : Connecting!Call(m, mode)
  <2>1. UNCHANGED <<v1, v6>> /\ v3'["lane"] = old
    BY <1>9 DEF Connecting!Respond, Connecting!Call
  <2> QED
    BY <1>1, <2>1
<1>10. ASSUME NEW d \in Connecting!Drivers,
              \/ Connecting!Navigate(d) \/ Connecting!Front(d) \/ Connecting!Again(d)
              \/ Connecting!Probe(d) \/ Connecting!Detached(d) \/ Connecting!Down(d)
       PROVE  Owing'
  <2>1. UNCHANGED <<v1, v6>> /\ v3[d].at \in Connecting!driving
    BY <1>10 DEF Connecting!Navigate, Connecting!Front, Connecting!Again, Connecting!Probe,
                 Connecting!Detached, Connecting!Down, Connecting!driving
  <2>2. d # "lane" => v3'["lane"] = old
    BY <1>10 DEF Connecting!Navigate, Connecting!Front, Connecting!Again, Connecting!Probe,
                 Connecting!Detached, Connecting!Down, Connecting!Goto, Connecting!Answer
  <2> QED
    BY <1>1, <2>1, <2>2 DEF Connecting!driving
<1>11. CASE Connecting!Survey
  <2>1. UNCHANGED <<v1, v6>> /\ v3'["lane"] = [old EXCEPT !.at = "tell"]
    BY <1>11 DEF Connecting!Survey, Connecting!Goto
  <2>2. old \in Driver
    OBVIOUS
  <2>3. v3'["lane"].at = "tell" /\ v3'["lane"].m = old.m
    BY <2>1, <2>2 DEF Driver
  <2> QED
    BY <1>1, <2>1, <2>3
<1>12. CASE Connecting!Clear
  <2> DEFINE at == IF old.state = "logged_in" THEN "survey" ELSE "tell"
  <2>1. /\ old.at = "answer" /\ v6' = v6 /\ v1' = [v1 EXCEPT ![old.m] = Connecting!NoRow]
        /\ v3'["lane"] = [Connecting!Idle EXCEPT !.m = old.m, !.at = at]
    BY <1>12 DEF Connecting!Clear
  <2>2. v3'["lane"].at \in {"survey", "tell"} /\ v3'["lane"].m = old.m
    BY <2>1 DEF Connecting!Idle
  <2> QED
    BY <1>0, <2>1, <2>2 DEF Owing, Connecting!NoTapForgotten, Connecting!Telling
<1>13. CASE Connecting!Tell
  <2>1. /\ v1' = v1 /\ old.m \in AllMarkets
        /\ v6' = [v6 EXCEPT ![old.m] = IF v1[old.m] = Connecting!NoRow THEN "no" ELSE v6[old.m]]
    BY <1>13 DEF Connecting!Tell
  <2> QED
    BY <1>0, <2>1 DEF Owing, Connecting!NoTapForgotten, Connecting!Telling
<1> QED
  BY <1>4, <1>5, <1>6, <1>7, <1>8, <1>9, <1>10, <1>11, <1>12, <1>13 DEF Connecting!Next

LEMMA ConnectingStep ==
  ASSUME Connecting!IInv,
         Connecting!Next \/ UNCHANGED <<v1, v2, v3, v4, v5, v6, v7, v8, v9, v10>>
  PROVE  Connecting!IInv'
<1>1. CASE UNCHANGED <<v1, v2, v3, v4, v5, v6, v7, v8, v9, v10>>
  <2>1. Connecting!RowsStay' /\ Connecting!TapsAreAhead'
    BY <1>1, RowsKept
  <2> QED
    BY <1>1, <2>1
       DEF Connecting!IInv, Connecting!TabIsHeld, Connecting!ProbeIsOfMarket,
           Connecting!NoTapForgotten, Connecting!Telling
<1>2. ASSUME ConnectCore', Owing'
      PROVE  Connecting!IInv'
  BY <1>2 DEF ConnectCore, Owing, Connecting!IInv, Request, Driver
<1>3. CASE Connecting!Next
  <2>1. ConnectCore'
    BY <1>3, ConnectingSeller, ConnectingTakes, ConnectingAnswers, ConnectingRoute, ConnectingDrives
       DEF Connecting!Next
  <2> QED
    BY <1>2, <1>3, <2>1, OwingStep
<1> QED
  BY <1>1, <1>3

LEMMA ConnectingKeeps ==
  ASSUME Connecting!IInv
  PROVE  Connecting!OneNoticeATap /\ Connecting!ProbeIsOfMarket /\ Connecting!NoTapForgotten
<1>1. ASSUME NEW m \in AllMarkets
      PROVE  v10[m] <= v9[m]
  <2>1. v10[m] + Connecting!ToCome(m) <= v9[m] /\ v10[m] \in Nat /\ v9[m] \in Nat
    BY ConnectingTypes DEF Connecting!IInv, Connecting!TapsAreAhead
  <2>2. Connecting!Telling(m) \in BOOLEAN
    BY DEF Connecting!Telling
  <2> QED
    BY <2>1, <2>2 DEF Connecting!ToCome
<1> QED
  BY <1>1 DEF Connecting!IInv, Connecting!OneNoticeATap

-----------------------------------------------------------------------------
(* InboxWatch: v1 chat, v2 tick, v3 blind, v4 since, v5 noted, v6 unread,    *)
(* v7 heard, v8 seen.  What is opened in time is about v2 and v6, what the   *)
(* seller is told about the others.                                          *)

Opens == /\ v2 \in [Markets -> 0..(SweepEvery - 1)] /\ v6 \in [Markets -> [Pair -> Nat]]
         /\ Watch!SweepsInTime
Warns == /\ v3 \in [Markets -> 0..BlindAfter] /\ v4 \in [Markets -> Int]
         /\ v7 \in [Markets -> {"none", "blind", "back"}] /\ v8 \in [Markets -> BOOLEAN]
         /\ Watch!WarnedUnseen
BlindKey(m) == <<"blind", m, "any">>
Warned(m) == BlindKey(m) \in v5

LEMMA ModOfCount ==
  ASSUME NEW k \in Nat, k # 0, NEW n \in Nat
  PROVE  n % k \in 0..(k - 1) /\ (n < k => n % k = n)
  OBVIOUS

Chats == v1 \in [Markets -> [Pair -> Watch!Chat]]

LEMMA WatchParts == Watch!IInv <=> Chats /\ Opens /\ Warns
  BY DEF Watch!IInv, Chats, Opens, Warns

\* A condition has one key a market, whatever causes it.
LEMMA KeyOfMarket ==
  /\ \A m : Watch!WarnedKeys(m) = {BlindKey(m)}
  /\ \A m, cause : Watch!Key(m, cause) = BlindKey(m)
  /\ \A m, n : BlindKey(m) = BlindKey(n) => m = n
  /\ \A m, n : BlindKey(m) # <<"signed_out", n>>
  BY DEF Watch!WarnedKeys, Watch!Key, Watch!Causes, BlindKey

\* Whether a market is warned of.
LEMMA WarnedIs ==
  /\ \A m : v5 \cap Watch!WarnedKeys(m) # {} <=> Warned(m)
  /\ \A m : v5' \cap Watch!WarnedKeys(m) # {} <=> Warned(m)'
  BY KeyOfMarket DEF Warned

LEMMA UnseenIs ==
  /\ Watch!WarnedUnseen <=> \A m \in Markets : (v8[m] \/ Warned(m)) /\ (Warned(m) => v7[m] = "blind")
  /\ Watch!WarnedUnseen' <=>
       \A m \in Markets : (v8'[m] \/ Warned(m)') /\ (Warned(m)' => v7'[m] = "blind")
  BY WarnedIs DEF Watch!WarnedUnseen

\* _count_blind: a warning is new, and of a market the lane has seen.
LEMMA CountKeeps ==
  ASSUME Warns, NEW m \in Markets, NEW cause, Watch!CountBlind(m, cause)
  PROVE  /\ Warns' /\ \A n \in Markets : v7'[n] = "back" => v7[n] = "back"
         /\ \A n \in Markets : (Warned(n)' <=> Warned(n)) \/ v8[n]
<1> DEFINE failures == IF v3[m] < BlindAfter THEN v3[m] + 1 ELSE v3[m]
           warns == failures >= BlindAfter /\ ~Warned(m)
<1>1. /\ v3' = [v3 EXCEPT ![m] = failures] /\ v4' = [v4 EXCEPT ![m] = IF v4[m] = -1 THEN 0 ELSE v4[m]]
      /\ v5' = IF warns THEN v5 \cup {BlindKey(m)} ELSE v5
      /\ v7' = IF warns THEN [v7 EXCEPT ![m] = "blind"] ELSE v7
      /\ v8' = IF warns THEN [v8 EXCEPT ![m] = FALSE] ELSE v8
  BY KeyOfMarket DEF Watch!CountBlind, Warned
<1>2. failures \in 0..BlindAfter
  BY RecordsAssumption DEF Watch!InboxWatchAssumption, Warns
<1>3. /\ \A n \in Markets \ {m} : Warned(n)' <=> Warned(n)
      /\ Warned(m)' <=> Warned(m) \/ warns
  BY <1>1, KeyOfMarket DEF Warned
<1> HIDE DEF failures
<1>4. v3' \in [Markets -> 0..BlindAfter] /\ v4' \in [Markets -> Int]
  BY <1>1, <1>2 DEF Warns
<1>5. /\ v7' \in [Markets -> {"none", "blind", "back"}] /\ v8' \in [Markets -> BOOLEAN]
      /\ \A n \in Markets \ {m} : v7'[n] = v7[n] /\ v8'[n] = v8[n]
      /\ v7'[m] = IF warns THEN "blind" ELSE v7[m]
      /\ v8'[m] = IF warns THEN FALSE ELSE v8[m]
  BY <1>1 DEF Warns
<1>6. \A n \in Markets : (v8[n] \/ Warned(n)) /\ (Warned(n) => v7[n] = "blind")
  BY UnseenIs DEF Warns
<1>7. Watch!WarnedUnseen'
  BY <1>3, <1>5, <1>6, UnseenIs
<1>8. warns => ~Warned(m)
  OBVIOUS
<1> HIDE DEF warns
<1>9. Warns'
  BY <1>4, <1>5, <1>7 DEF Warns
<1>10. \A n \in Markets : (Warned(n)' <=> Warned(n)) \/ v8[n]
  BY <1>3, <1>6, <1>8
<1> QED
  BY <1>5, <1>9, <1>10

\* _clear_blind: the warning goes with the count.
LEMMA ClearKeeps ==
  ASSUME Warns, NEW m \in Markets, NEW opened, Watch!ClearBlind(m, opened)
  PROVE  /\ Warns' /\ v3'[m] = 0 /\ \A n \in Markets \ {m} : Warned(n)' <=> Warned(n)
         /\ \A n \in Markets : v7'[n] = "back" /\ v7[n] # "back"
              => n = m /\ opened # {} /\ v7[n] = "blind"
<1> DEFINE tells == v3[m] > 0 /\ Warned(m) /\ opened # {} /\ v4[m] >= GapWorth
<1>1. /\ v3' = [v3 EXCEPT ![m] = 0] /\ v4' = [v4 EXCEPT ![m] = -1] /\ v5' = v5 \ {BlindKey(m)}
      /\ v7' = IF tells THEN [v7 EXCEPT ![m] = "back"] ELSE v7
      /\ v8' = [v8 EXCEPT ![m] = TRUE]
  BY KeyOfMarket, WarnedIs DEF Watch!ClearBlind
<1>2. ~Warned(m)' /\ \A n \in Markets \ {m} : Warned(n)' <=> Warned(n)
  BY <1>1, KeyOfMarket DEF Warned
<1>3. v3' \in [Markets -> 0..BlindAfter] /\ v3'[m] = 0 /\ v4' \in [Markets -> Int]
  BY <1>1, RecordsAssumption DEF Watch!InboxWatchAssumption, Warns
<1>4. tells => Warned(m) /\ opened # {}
  OBVIOUS
<1> HIDE DEF tells
<1>5. /\ v7' \in [Markets -> {"none", "blind", "back"}] /\ v8' \in [Markets -> BOOLEAN]
      /\ \A n \in Markets \ {m} : v7'[n] = v7[n] /\ v8'[n] = v8[n]
      /\ v7'[m] = IF tells THEN "back" ELSE v7[m]
      /\ v8'[m] = TRUE
  BY <1>1 DEF Warns
<1>6. \A n \in Markets : (v8[n] \/ Warned(n)) /\ (Warned(n) => v7[n] = "blind")
  BY UnseenIs DEF Warns
<1>7. Watch!WarnedUnseen'
  BY <1>2, <1>5, <1>6, UnseenIs
<1> QED
  BY <1>2, <1>3, <1>4, <1>5, <1>6, <1>7 DEF Warns

\* What the steps that touch no warning keep.
LEMMA WarnsKept ==
  ASSUME Warns, UNCHANGED <<v3, v5, v7, v8>>, v4' \in [Markets -> Int]
  PROVE  Warns' /\ \A n \in Markets : Warned(n)' <=> Warned(n)
<1>1. \A n : Warned(n)' <=> Warned(n)
  BY DEF Warned
<1> QED
  BY <1>1, UnseenIs DEF Warns

\* The tick that lists the conversations of m.
LEMMA ListOpens ==
  ASSUME Opens, NEW m \in Markets, NEW adopted, NEW illegible, Watch!CountTick(m, illegible),
         \/ v6' = [v6 EXCEPT ![m] = [c \in Pair |->
              IF /\ v1[m][c].fresh /\ c \notin Watch!Opened(m, adopted)
                 /\ v1[m][c].status = "active" \/ c \in adopted
                THEN v6[m][c] + 1 ELSE 0]]
         \/ v6' = [v6 EXCEPT ![m] = [c \in Pair |-> 0]]
  PROVE  Opens'
<1> DEFINE t == v2[m]
<1> USE RecordsAssumption DEF Watch!InboxWatchAssumption
<1>1. t \in Nat /\ t < SweepEvery /\ SweepEvery # 0 /\ SweepEvery \in Nat
  BY DEF Opens
<1>2. v2' = [v2 EXCEPT ![m] = (t + 1) % SweepEvery]
  BY DEF Watch!CountTick
<1>3. (t + 1) % SweepEvery \in 0..(SweepEvery - 1)
      /\ (t + 1 < SweepEvery => (t + 1) % SweepEvery = t + 1)
  <2>1. t + 1 \in Nat
    BY <1>1
  <2> QED
    BY <1>1, <2>1, ModOfCount, Zenon
<1>4. PICK next \in 0..(SweepEvery - 1) :
        v2' = [v2 EXCEPT ![m] = next] /\ (t + 1 < SweepEvery => next = t + 1)
  BY <1>2, <1>3
<1>5. v2' \in [Markets -> 0..(SweepEvery - 1)] /\ v2'[m] = next
      /\ \A n \in Markets \ {m} : v2'[n] = v2[n]
  BY <1>4 DEF Opens
<1>6. \A c \in Pair : v6[m][c] \in Nat /\ v6[m][c] <= t
  BY DEF Opens, Watch!SweepsInTime
<1>7. PICK f \in [Pair -> Nat] : v6' = [v6 EXCEPT ![m] = f] /\ \A c \in Pair : f[c] <= next
  <2>1. CASE v6' = [v6 EXCEPT ![m] = [c \in Pair |-> 0]]
    <3> DEFINE f == [c \in Pair |-> 0]
    <3>1. f \in [Pair -> Nat] /\ \A c \in Pair : f[c] <= next
      BY <1>4
    <3> HIDE DEF f
    <3> QED
      BY <2>1, <3>1 DEF f
  <2>2. CASE v6' = [v6 EXCEPT ![m] = [c \in Pair |->
              IF /\ v1[m][c].fresh /\ c \notin Watch!Opened(m, adopted)
                 /\ v1[m][c].status = "active" \/ c \in adopted
                THEN v6[m][c] + 1 ELSE 0]]
    <3> DEFINE left(c) == /\ v1[m][c].fresh /\ c \notin Watch!Opened(m, adopted)
                          /\ v1[m][c].status = "active" \/ c \in adopted
               f == [c \in Pair |-> IF left(c) THEN v6[m][c] + 1 ELSE 0]
    <3>1. \A c \in Pair : left(c) => ~Watch!FullSweep(m)
      BY DEF Watch!Opened
    <3>2. \A c \in Pair : left(c) => t + 1 < SweepEvery
      BY <1>1, <3>1 DEF Watch!FullSweep
    <3>3. v6' = [v6 EXCEPT ![m] = f]
      BY <2>2
    <3> HIDE DEF left
    <3>4. f \in [Pair -> Nat]
      BY <1>6
    <3>5. \A c \in Pair : f[c] <= next
      BY <1>1, <1>4, <1>6, <3>2
    <3> HIDE DEF f
    <3> QED
      BY <3>3, <3>4, <3>5
  <2> QED
    BY <2>1, <2>2
<1>8. v6' \in [Markets -> [Pair -> Nat]] /\ v6'[m] = f /\ \A n \in Markets \ {m} : v6'[n] = v6[n]
  BY <1>7 DEF Opens
<1>9. Watch!SweepsInTime'
  BY <1>5, <1>7, <1>8 DEF Opens, Watch!SweepsInTime
<1> QED
  BY <1>5, <1>8, <1>9 DEF Opens

LEMMA WatchInit ==
  ASSUME Watch!Init
  PROVE  Watch!IInv
<1> USE RecordsAssumption DEF Watch!InboxWatchAssumption
<1>1. /\ v2 = [m \in Markets |-> 0] /\ v3 = [m \in Markets |-> 0] /\ v4 = [m \in Markets |-> -1]
      /\ v5 = {} /\ v6 = [m \in Markets |-> [c \in Pair |-> 0]]
      /\ v7 = [m \in Markets |-> "none"] /\ v8 = [m \in Markets |-> TRUE]
  BY DEF Watch!Init
<1>2. [c \in Pair |-> 0] \in [Pair -> Nat]
  OBVIOUS
<1>3. Opens
  BY <1>1, <1>2 DEF Opens, Watch!SweepsInTime
<1>4. Watch!WarnedUnseen
  BY <1>1, UnseenIs DEF Warned
<1>5. Chats
  BY DEF Watch!Init, Chats, Watch!Chat, Watch!Status
<1> QED
  BY <1>1, <1>3, <1>4, <1>5, WatchParts DEF Warns

\* Of a step, what OneWarningARun and BackIsEarned come to.
WatchTells ==
  /\ \A m \in Markets : (Warned(m)' <=> Warned(m)) \/ v8[m] \/ v3'[m] = 0
  /\ \A m \in Markets : v7'[m] = "back" /\ v7[m] # "back"
       => /\ v7[m] = "blind" /\ Watch!Opened(m, Watch!Strangers(m)) # {}
          /\ \A c \in Watch!Opened(m, {}) : ~v1'[m][c].fresh /\ v1'[m][c].alike

\* A tick of the lane, whatever becomes of it.
LEMMA WatchTick ==
  ASSUME Chats, Opens, Warns, NEW m \in Markets,
         \/ Watch!ListRefused(m)
         \/ \E cause \in Watch!Causes : Watch!ReadBreaks(m, cause)
         \/ \E adopted, legible \in SUBSET Pair, cause \in Watch!Causes :
              Watch!ReadBreaksMidway(m, cause, adopted, legible)
         \/ \E adopted, legible \in SUBSET Pair : Watch!ReadEndsMidway(m, adopted, legible)
         \/ \E adopted, illegible \in SUBSET Pair : Watch!ReadList(m, adopted, illegible)
  PROVE  Opens' /\ Warns' /\ WatchTells
<1>1. ASSUME NEW cause, Watch!CountBlind(m, cause)
      PROVE  Warns' /\ WatchTells
  BY <1>1, CountKeeps DEF WatchTells
<1>2. CASE Watch!ListRefused(m) \/ \E cause \in Watch!Causes : Watch!ReadBreaks(m, cause)
  <2>1. PICK cause : Watch!CountBlind(m, cause)
    BY <1>2 DEF Watch!ListRefused, Watch!ReadBreaks
  <2>2. UNCHANGED <<v2, v6>>
    BY <1>2 DEF Watch!ListRefused, Watch!ReadBreaks
  <2> QED
    BY <1>1, <2>1, <2>2 DEF Opens, Watch!SweepsInTime
<1>3. ASSUME NEW adopted, NEW legible, NEW cause,
             Watch!ReadBreaksMidway(m, cause, adopted, legible)
      PROVE  Opens' /\ Warns' /\ WatchTells
  <2>1. /\ Watch!CountTick(m, {}) /\ v6' = [v6 EXCEPT ![m] = [c \in Pair |-> 0]]
        /\ Watch!CountBlind(m, cause)
    BY <1>3 DEF Watch!ReadBreaksMidway, Watch!ReadPart
  <2>2. Opens'
    BY <2>1, ListOpens
  <2> QED
    BY <1>1, <2>1, <2>2
<1>4. ASSUME NEW adopted, NEW illegible, Watch!ReadList(m, adopted, illegible)
      PROVE  Opens' /\ Warns' /\ WatchTells
  <2>1. /\ Watch!CountTick(m, illegible) /\ Watch!Adopts(m, adopted)
        /\ v6' = [v6 EXCEPT ![m] = [c \in Pair |->
              IF /\ v1[m][c].fresh /\ c \notin Watch!Opened(m, adopted)
                 /\ v1[m][c].status = "active" \/ c \in adopted
                THEN v6[m][c] + 1 ELSE 0]]
    BY <1>4 DEF Watch!ReadList
  <2>2. Opens'
    BY <2>1, ListOpens
  <2>3. CASE Watch!CountBlind(m, "tails")
    BY <1>1, <2>2, <2>3
  <2>4. CASE illegible = {} /\ Watch!ClearBlind(m, Watch!Opened(m, adopted))
    <3>1. /\ Watch!Opened(m, adopted) \subseteq Watch!Opened(m, Watch!Strangers(m))
          /\ Watch!Opened(m, {}) \subseteq Watch!Opened(m, adopted)
          /\ Watch!Opened(m, {}) \subseteq Pair
      BY <2>1 DEF Watch!Opened, Watch!Adopts
    <3>3. \A c \in Watch!Opened(m, {}) : ~v1'[m][c].fresh /\ v1'[m][c].alike
      <4>1. Watch!AfterRead(m, adopted, Watch!Opened(m, adopted) \ {}, {})
        BY <1>4, <2>4 DEF Watch!ReadList
      <4> QED
        BY <3>1, <4>1, AfterReadKeeps DEF Chats
    <3>2. /\ Warns' /\ v3'[m] = 0 /\ \A n \in Markets \ {m} : Warned(n)' <=> Warned(n)
          /\ \A n \in Markets : v7'[n] = "back" /\ v7[n] # "back"
               => n = m /\ Watch!Opened(m, adopted) # {} /\ v7[n] = "blind"
      BY <2>4, ClearKeeps
    <3> QED
      BY <2>2, <3>1, <3>2, <3>3 DEF WatchTells
  <2> QED
    BY <1>4, <2>3, <2>4 DEF Watch!ReadList
<1>5. ASSUME NEW adopted, NEW legible, Watch!ReadEndsMidway(m, adopted, legible)
      PROVE  Opens' /\ Warns' /\ WatchTells
  <2>1. /\ Watch!CountTick(m, {}) /\ v6' = [v6 EXCEPT ![m] = [c \in Pair |-> 0]]
        /\ UNCHANGED <<v3, v4, v5, v7, v8>>
    BY <1>5 DEF Watch!ReadEndsMidway, Watch!ReadPart
  <2>2. Opens'
    BY <2>1, ListOpens
  <2>3. Warns' /\ \A n \in Markets : Warned(n)' <=> Warned(n)
    BY <2>1, WarnsKept DEF Warns
  <2> QED
    BY <2>1, <2>2, <2>3 DEF WatchTells
<1> QED
  BY <1>2, <1>3, <1>4, <1>5

\* The buyer, the seller, the clock, the daemon.
LEMMA WatchAround ==
  ASSUME Opens, Warns,
         \/ Watch!TimePasses \/ Watch!Restart
         \/ \E m \in Markets : Watch!SignedOut(m) \/ Watch!SignedIn(m)
         \/ \E m \in Markets, c \in Pair :
              \/ Watch!SellerLooks(m, c)
              \/ \E repeat \in BOOLEAN : Watch!BuyerWrites(m, c, repeat)
              \/ \E st \in Watch!Status : Watch!StatusChanges(m, c, st)
  PROVE  Opens' /\ Warns' /\ WatchTells
<1>1. ASSUME UNCHANGED <<v3, v4, v5, v7, v8>>
      PROVE  Warns' /\ WatchTells
  BY <1>1, WarnsKept DEF Warns, WatchTells
<1>2. CASE Watch!TimePasses
  <2>1. UNCHANGED <<v2, v3, v5, v6, v7, v8>> /\ v4' \in [Markets -> Int]
    BY <1>2 DEF Watch!TimePasses, Warns
  <2> QED
    BY <2>1, WarnsKept DEF WatchTells, Opens, Watch!SweepsInTime
<1>3. CASE Watch!Restart
  <2> USE RecordsAssumption DEF Watch!InboxWatchAssumption
  <2>1. /\ v2' = [m \in Markets |-> 0] /\ v3' = [m \in Markets |-> 0] /\ v4' = [m \in Markets |-> -1]
        /\ v5' = {} /\ v6' = [m \in Markets |-> [c \in Pair |-> 0]]
        /\ v7' = [m \in Markets |-> "none"] /\ v8' = [m \in Markets |-> TRUE]
    BY <1>3 DEF Watch!Restart
  <2>2. [c \in Pair |-> 0] \in [Pair -> Nat]
    OBVIOUS
  <2>3. Opens'
    BY <2>1, <2>2 DEF Opens, Watch!SweepsInTime
  <2>4. Watch!WarnedUnseen'
    BY <2>1, UnseenIs DEF Warned
  <2>5. Warns'
    BY <2>1, <2>4 DEF Warns
  <2> QED
    BY <2>1, <2>3, <2>5 DEF WatchTells
<1>4. ASSUME NEW m \in Markets, Watch!SignedOut(m) \/ Watch!SignedIn(m)
      PROVE  Opens' /\ Warns' /\ WatchTells
  <2>1. /\ UNCHANGED <<v2, v3, v4, v6, v7, v8>>
        /\ v5' = v5 \cup {<<"signed_out", m>>} \/ v5' = v5 \ {<<"signed_out", m>>}
    BY <1>4 DEF Watch!SignedOut, Watch!SignedIn
  <2>2. \A n : Warned(n)' <=> Warned(n)
    BY <2>1, KeyOfMarket DEF Warned
  <2>3. Warns'
    BY <2>1, <2>2, UnseenIs DEF Warns
  <2> QED
    BY <2>1, <2>2, <2>3 DEF WatchTells, Opens, Watch!SweepsInTime
<1>5. ASSUME NEW m \in Markets, NEW c \in Pair,
             \/ Watch!SellerLooks(m, c)
             \/ \E repeat \in BOOLEAN : Watch!BuyerWrites(m, c, repeat)
             \/ \E st \in Watch!Status : Watch!StatusChanges(m, c, st)
      PROVE  Opens' /\ Warns' /\ WatchTells
  <2>1. UNCHANGED <<v2, v3, v4, v5, v7, v8>> /\ (v6' = v6 \/ v6' = [v6 EXCEPT ![m][c] = 0])
    BY <1>5 DEF Watch!SellerLooks, Watch!BuyerWrites, Watch!StatusChanges, Watch!laneVars
  <2>2. Opens'
    <3>1. CASE v6' = v6
      BY <2>1, <3>1 DEF Opens, Watch!SweepsInTime
    <3>2. CASE v6' = [v6 EXCEPT ![m][c] = 0]
      <4> DEFINE f == [v6[m] EXCEPT ![c] = 0]
      <4>1. f \in [Pair -> Nat] /\ \A d \in Pair : f[d] = 0 \/ f[d] = v6[m][d]
        BY DEF Opens
      <4>2. v6' = [v6 EXCEPT ![m] = f]
        BY <3>2
      <4> HIDE DEF f
      <4>3. v6' \in [Markets -> [Pair -> Nat]] /\ v6'[m] = f
            /\ \A n \in Markets \ {m} : v6'[n] = v6[n]
        BY <4>1, <4>2 DEF Opens
      <4> QED
        BY <2>1, <4>1, <4>3 DEF Opens, Watch!SweepsInTime
    <3> QED
      BY <2>1, <3>1, <3>2
  <2> QED
    BY <1>1, <2>1, <2>2
<1> QED
  BY <1>2, <1>3, <1>4, <1>5

LEMMA WatchStep ==
  ASSUME Watch!IInv, Watch!Next \/ UNCHANGED <<v1, v2, v3, v4, v5, v6, v7, v8>>
  PROVE  Watch!IInv' /\ Watch!OneWarningARun /\ Watch!BackIsEarned
<1>0. Chats /\ Opens /\ Warns
  BY WatchParts
<1>1. v1' \in [Markets -> [Pair -> Watch!Chat]]
  BY <1>0, WatchChats DEF Chats
<1>2. Opens' /\ Warns' /\ WatchTells
  <2>1. CASE UNCHANGED <<v1, v2, v3, v4, v5, v6, v7, v8>>
    <3>1. Opens'
      BY <1>0, <2>1 DEF Opens, Watch!SweepsInTime
    <3>2. Warns' /\ \A n \in Markets : Warned(n)' <=> Warned(n)
      BY <1>0, <2>1, WarnsKept DEF Warns
    <3> QED
      BY <2>1, <3>1, <3>2 DEF WatchTells
  <2>2. CASE Watch!Next
    BY <1>0, <2>2, WatchTick, WatchAround DEF Watch!Next
  <2> QED
    BY <2>1, <2>2
<1>3. Watch!IInv'
  BY <1>1, <1>2, WatchParts DEF Watch!IInv, Opens, Warns
<1>4. Watch!OneWarningARun
  <2> SUFFICES ASSUME NEW m \in Markets, v3'[m] > 0, ~v8[m]
               PROVE  v5' \cap Watch!WarnedKeys(m) = v5 \cap Watch!WarnedKeys(m)
    BY DEF Watch!OneWarningARun
  <2>1. Warned(m)' <=> Warned(m)
    BY <1>2 DEF WatchTells
  <2> QED
    BY <2>1, KeyOfMarket DEF Warned
<1>5. Watch!BackIsEarned
  BY <1>2 DEF WatchTells, Watch!BackIsEarned
<1> QED
  BY <1>3, <1>4, <1>5

LEMMA WatchKeeps ==
  ASSUME Watch!IInv
  PROVE  Watch!SweptInTime
<1> SUFFICES ASSUME NEW m \in Markets, NEW c \in Pair
             PROVE  v6[m][c] < SweepEvery
  BY DEF Watch!SweptInTime
<1>1. v6[m][c] <= v2[m] /\ v2[m] \in 0..(SweepEvery - 1) /\ v6[m][c] \in Nat
  BY DEF Watch!IInv, Watch!SweepsInTime
<1> QED
  BY <1>1, RecordsAssumption DEF Watch!InboxWatchAssumption

-----------------------------------------------------------------------------
(* Crosslist: v1 url, v2 rail, v3 onRail, v4 enabled, v5 sold, v6 paused,    *)
(* v7 pass, v8 lane, v9 tool, v10 marker, v11 accepted.                      *)

\* What the passes keep, whatever the lane is at, and what the rail holds.
Told == /\ v1 \in [Items -> SUBSET Markets] /\ v7 \in [1..Passes -> Fanout!Attempt]
        /\ \A p \in 1..Passes : v7[p].status # "none" \/ v7[p].told # "none"
                                => v7[p].item \in Items /\ v7[p].market \in Markets
        /\ Fanout!ListedIsRecorded
Errands == /\ v8 \in Fanout!Errand /\ v9 \in Fanout!Errand
           /\ v9.at = "queue" => v9.item \in Items /\ v9.market \in Markets
Pushed == v11 \in [Items -> SUBSET Markets] /\ DOMAIN v10 = Items /\ Fanout!MarkIsAccepted

LEMMA FanoutParts == Fanout!IInv <=> Told /\ Errands /\ Pushed /\ Fanout!QueuedOnce
  BY DEF Fanout!IInv, Told, Errands, Pushed

LEMMA IdleErrand ==
  /\ Fanout!Idle \in Fanout!Errand /\ Fanout!Idle.at = "idle"
  /\ Fanout!Unused \in Fanout!Attempt /\ Fanout!Unused.status = "none"
  /\ Fanout!Unused.told = "none" /\ Fanout!Unused.by = "none"
  BY DEF Fanout!Idle, Fanout!Errand, Fanout!Unused, Fanout!Attempt

LEMMA FanoutInit ==
  ASSUME Fanout!Init
  PROVE  Fanout!IInv
<1>1. /\ v1 = [i \in Items |-> {}] /\ v7 = [p \in 1..Passes |-> Fanout!Unused]
      /\ v8 = Fanout!Idle /\ v9 = Fanout!Idle
      /\ v10 = [i \in Items |-> Fanout!None] /\ v11 = [i \in Items |-> {}]
  BY DEF Fanout!Init
<1>2. Told
  BY <1>1, IdleErrand DEF Told, Fanout!ListedIsRecorded
<1>3. Errands /\ Pushed
  BY <1>1, IdleErrand DEF Errands, Pushed, Fanout!MarkIsAccepted
<1>4. Fanout!QueuedOnce
  BY <1>1, IdleErrand DEF Fanout!QueuedOnce
<1> QED
  BY <1>2, <1>3, <1>4, FanoutParts

\* A pass is written: settled, told, or run.
LEMMA PassWrites ==
  ASSUME Fanout!IInv, NEW p \in 1..Passes, NEW a \in Fanout!Attempt,
         v7' = [v7 EXCEPT ![p] = a], UNCHANGED <<v1, v8, v9, v10, v11>>,
         a.item = v7[p].item, a.market = v7[p].market, a.by = v7[p].by,
         v7[p].status # "none",
         a.told = v7[p].told \/ (a.told = "listed" => a.market \in v1[a.item])
  PROVE  Fanout!IInv'
<1>1. Told /\ Errands /\ Pushed /\ Fanout!QueuedOnce
  BY FanoutParts
<1>2. v7' \in [1..Passes -> Fanout!Attempt] /\ v7'[p] = a
      /\ \A q \in 1..Passes \ {p} : v7'[q] = v7[q]
  BY <1>1 DEF Told
<1>3. Told'
  BY <1>1, <1>2 DEF Told, Fanout!ListedIsRecorded
<1>4. \A q \in 1..Passes : v7'[q].item = v7[q].item /\ v7'[q].market = v7[q].market
                           /\ v7'[q].by = v7[q].by
  BY <1>2
<1>5. Fanout!QueuedOnce'
  BY <1>1, <1>4 DEF Fanout!QueuedOnce, Fanout!Of
<1> QED
  BY <1>1, <1>3, <1>5, FanoutParts
     DEF Errands, Pushed, Fanout!MarkIsAccepted, Told, Fanout!IInv

\* enqueue_pass: whoever asks, the pair has no pass of the lane's if it is the lane.
LEMMA PassQueued ==
  ASSUME Fanout!IInv, NEW i \in Items, NEW m \in Markets, NEW by \in {"lane", "seller"},
         Fanout!Enqueue(i, m, by), UNCHANGED <<v1, v10, v11>>,
         v8' = v8 \/ v8' = Fanout!Idle, v9' = v9 \/ v9' = Fanout!Idle,
         by = "lane" => v8 # v8' /\ v8.at = "queue" /\ v8.item = i /\ v8.market = m
  PROVE  Fanout!IInv'
<1>1. Told /\ Errands /\ Pushed /\ Fanout!QueuedOnce
  BY FanoutParts
<1> DEFINE a == [status |-> "queued", item |-> i, market |-> m, by |-> by, told |-> "none"]
<1>2. PICK p \in 1..Passes : v7' = [v7 EXCEPT ![p] = a]
  BY DEF Fanout!Enqueue
<1>3. a \in Fanout!Attempt /\ a.item = i /\ a.market = m /\ a.by = by /\ a.told = "none"
  BY DEF Fanout!Attempt
<1> HIDE DEF a
<1>4. v7' \in [1..Passes -> Fanout!Attempt] /\ v7'[p] = a
      /\ \A q \in 1..Passes \ {p} : v7'[q] = v7[q]
  BY <1>1, <1>2, <1>3 DEF Told
<1>5. Told'
  BY <1>1, <1>3, <1>4 DEF Told, Fanout!ListedIsRecorded
<1>6. Errands' /\ Pushed'
  BY <1>1, IdleErrand DEF Errands, Pushed, Fanout!MarkIsAccepted
<1>7. Fanout!QueuedOnce'
  <2>1. by = "lane" => \A q \in 1..Passes : v7[q].item = i /\ v7[q].market = m => v7[q].by # "lane"
    BY <1>1 DEF Fanout!QueuedOnce, Fanout!Of
  <2>2. ASSUME NEW q \in 1..Passes, NEW r \in 1..Passes, v7'[q].by = "lane", v7'[r].by = "lane",
               v7'[q].item = v7'[r].item, v7'[q].market = v7'[r].market
        PROVE  q = r
    BY <1>1, <1>3, <1>4, <2>1, <2>2 DEF Fanout!QueuedOnce
  <2>3. v8'.at = "queue" => v8' = v8 /\ by = "seller"
    BY IdleErrand
  <2>4. v8'.at = "queue" => /\ v8'.item \in Items /\ v8'.market \in Markets
                            /\ \A q \in 1..Passes : v7'[q].item = v8'.item /\ v7'[q].market = v8'.market
                                 => v7'[q].by # "lane"
    BY <1>1, <1>3, <1>4, <2>3 DEF Fanout!QueuedOnce, Fanout!Of
  <2> QED
    BY <2>2, <2>4 DEF Fanout!QueuedOnce, Fanout!Of
<1> QED
  BY <1>5, <1>6, <1>7, FanoutParts DEF Errands, Pushed, Told, Fanout!IInv

\* The passes run, write their address, end and are told of.
LEMMA FanoutPasses ==
  ASSUME Fanout!IInv, NEW p \in 1..Passes,
         Fanout!Report(p) \/ Fanout!Run(p) \/ Fanout!RecordUrl(p) \/ Fanout!Settle(p)
  PROVE  Fanout!IInv' /\ v10' = v10
<1>1. Told /\ Errands /\ Pushed /\ Fanout!QueuedOnce
  BY FanoutParts
<1>2. v7[p] \in Fanout!Attempt
  BY <1>1 DEF Told
<1>3. CASE Fanout!Report(p)
  <2> DEFINE verdict == IF v7[p].market \in v1[v7[p].item] THEN "listed" ELSE "failed"
             a == [v7[p] EXCEPT !.told = verdict]
  <2>1. /\ v7' = [v7 EXCEPT ![p] = a] /\ UNCHANGED <<v1, v8, v9, v10, v11>>
        /\ v7[p].status = "settled"
    BY <1>3 DEF Fanout!Report, Fanout!Tell, Fanout!rows, Fanout!Unreported, Fanout!Settled
  <2>2. /\ a \in Fanout!Attempt /\ a.item = v7[p].item /\ a.market = v7[p].market
        /\ a.by = v7[p].by /\ a.told = verdict
    BY <1>2 DEF Fanout!Attempt
  <2>3. a.told = "listed" => a.market \in v1[a.item]
    BY <2>2
  <2> HIDE DEF a
  <2> QED
    BY <2>1, <2>2, <2>3, PassWrites
<1>4. CASE Fanout!Run(p) \/ Fanout!Settle(p)
  <2>1. PICK st \in {"running", "settled"} : v7' = [v7 EXCEPT ![p].status = st]
    BY <1>4 DEF Fanout!Run, Fanout!Settle
  <2> DEFINE a == [v7[p] EXCEPT !.status = st]
  <2>2. v7' = [v7 EXCEPT ![p] = a]
    BY <2>1
  <2>3. /\ a \in Fanout!Attempt /\ a.item = v7[p].item /\ a.market = v7[p].market
        /\ a.by = v7[p].by /\ a.told = v7[p].told
    BY <1>2 DEF Fanout!Attempt
  <2>4. UNCHANGED <<v1, v8, v9, v10, v11>> /\ v7[p].status # "none"
    BY <1>4 DEF Fanout!Run, Fanout!Settle, Fanout!rows, Fanout!Unsettled
  <2> HIDE DEF a
  <2> QED
    BY <2>2, <2>3, <2>4, PassWrites
<1>5. CASE Fanout!RecordUrl(p)
  <2>1. /\ v7[p].item \in Items /\ UNCHANGED <<v7, v8, v9, v10, v11>>
        /\ v1' = [v1 EXCEPT ![v7[p].item] = v1[v7[p].item] \cup {v7[p].market}]
        /\ v7[p].status = "running"
    BY <1>1, <1>5 DEF Fanout!RecordUrl, Told
  <2>2. v7[p].market \in Markets
    BY <1>1, <2>1 DEF Told
  <2>3. v1' \in [Items -> SUBSET Markets] /\ \A i \in Items : v1[i] \subseteq v1'[i]
    BY <1>1, <2>1, <2>2 DEF Told
  <2>4. Told'
    BY <1>1, <2>1, <2>3 DEF Told, Fanout!ListedIsRecorded
  <2> QED
    BY <1>1, <2>1, <2>4, FanoutParts
       DEF Errands, Pushed, Fanout!MarkIsAccepted, Fanout!QueuedOnce, Fanout!Of, Told, Fanout!IInv
<1> QED
  BY <1>3, <1>4, <1>5

\* What the lane or the tool turns to, when no pass is written.
LEMMA ErrandMoves ==
  ASSUME Fanout!IInv, UNCHANGED <<v1, v7, v10>>, Errands', Pushed',
         v8'.at = "queue" => /\ v8'.item \in Items /\ v8'.market \in Markets
                             /\ \A p \in Fanout!Of(v8'.item, v8'.market) : v7[p].by # "lane"
  PROVE  Fanout!IInv'
<1>1. Told /\ Fanout!QueuedOnce
  BY FanoutParts
<1>2. Told'
  BY <1>1 DEF Told, Fanout!ListedIsRecorded
<1>3. Fanout!QueuedOnce'
  BY <1>1 DEF Fanout!QueuedOnce, Fanout!Of
<1> QED
  BY <1>2, <1>3 DEF Errands, Pushed, Told, Fanout!IInv

\* The lane.
LEMMA FanoutLane ==
  ASSUME Fanout!IInv,
         \/ Fanout!Push \/ Fanout!Mark \/ Fanout!Queue
         \/ \E i \in Items : Fanout!Link(i) \/ \E m \in Markets : Fanout!Look(i, m)
  PROVE  Fanout!IInv' /\ Fanout!MarkerIsAccepted
<1>1. Told /\ Errands /\ Pushed /\ Fanout!QueuedOnce
  BY FanoutParts
<1>2. CASE Fanout!Push
  <2>1. v8.at = "push" /\ v8.item \in Items /\ UNCHANGED <<v1, v7, v9, v10>>
    BY <1>1, <1>2 DEF Fanout!Push, Fanout!rows, Pushed, Fanout!MarkIsAccepted
  <2>2. \/ v11' = [v11 EXCEPT ![v8.item] = v8.links] /\ v8' = [v8 EXCEPT !.at = "mark"]
        \/ v8' = Fanout!Idle /\ v11' = v11
    BY <1>2 DEF Fanout!Push
  <2>3. CASE v11' = [v11 EXCEPT ![v8.item] = v8.links] /\ v8' = [v8 EXCEPT !.at = "mark"]
    <3>1. /\ v8' \in Fanout!Errand /\ v8'.at = "mark" /\ v8'.item = v8.item /\ v8'.links = v8.links
          /\ v8.links \in SUBSET Markets
      BY <1>1, <2>3 DEF Errands, Fanout!Errand
    <3>2. v11' \in [Items -> SUBSET Markets] /\ v11'[v8.item] = v8.links
      BY <1>1, <2>1, <2>3, <3>1 DEF Pushed
    <3> QED
      BY <1>1, <2>1, <3>1, <3>2, ErrandMoves
         DEF Errands, Pushed, Fanout!MarkIsAccepted, Fanout!MarkerIsAccepted
  <2>4. CASE v8' = Fanout!Idle /\ v11' = v11
    BY <1>1, <2>1, <2>4, IdleErrand, ErrandMoves
       DEF Errands, Pushed, Fanout!MarkIsAccepted, Fanout!MarkerIsAccepted
  <2> QED
    BY <2>2, <2>3, <2>4
<1>3. CASE Fanout!Mark
  <2>1. /\ v8.item \in Items /\ v11[v8.item] = v8.links /\ UNCHANGED <<v1, v7, v9, v11>>
        /\ v8' = Fanout!Idle /\ v10' = [v10 EXCEPT ![v8.item] = v8.links]
    BY <1>1, <1>3 DEF Fanout!Mark, Fanout!rows, Pushed, Fanout!MarkIsAccepted
  <2>2. /\ DOMAIN v10' = Items
        /\ \A i \in Items : v10'[i] # v10[i] => i = v8.item /\ v10'[i] = v11[i]
    BY <1>1, <2>1 DEF Pushed
  <2>3. Errands' /\ Pushed'
    BY <1>1, <2>1, <2>2, IdleErrand DEF Errands, Pushed, Fanout!MarkIsAccepted
  <2>4. Told'
    BY <1>1, <2>1 DEF Told, Fanout!ListedIsRecorded
  <2>5. Fanout!QueuedOnce'
    BY <1>1, <2>1, IdleErrand DEF Fanout!QueuedOnce, Fanout!Of
  <2> QED
    BY <2>1, <2>2, <2>3, <2>4, <2>5
       DEF Errands, Pushed, Told, Fanout!IInv, Fanout!MarkerIsAccepted
<1>4. CASE Fanout!Queue
  <2>1. /\ v8.at = "queue" /\ v8.item \in Items /\ v8.market \in Markets /\ v8' = Fanout!Idle
        /\ UNCHANGED <<v1, v9, v10, v11>>
        /\ Fanout!Enqueue(v8.item, v8.market, "lane") \/ v7' = v7
    BY <1>1, <1>4 DEF Fanout!Queue, Fanout!rows, Fanout!QueuedOnce
  <2>2. v8 # v8'
    BY <2>1, IdleErrand
  <2>3. CASE Fanout!Enqueue(v8.item, v8.market, "lane")
    BY <2>1, <2>2, <2>3, PassQueued DEF Fanout!MarkerIsAccepted
  <2>4. CASE v7' = v7
    BY <1>1, <2>1, <2>4, IdleErrand, ErrandMoves
       DEF Errands, Pushed, Fanout!MarkIsAccepted, Fanout!MarkerIsAccepted
  <2> QED
    BY <2>1, <2>3, <2>4
<1>5. ASSUME NEW i \in Items, Fanout!Link(i)
      PROVE  Fanout!IInv' /\ Fanout!MarkerIsAccepted
  <2>1. /\ v8' = [Fanout!Idle EXCEPT !.at = "push", !.item = i, !.links = v1[i]]
        /\ UNCHANGED <<v1, v7, v9, v10, v11>>
    BY <1>5 DEF Fanout!Link, Fanout!rows, Fanout!Desired
  <2>2. v1[i] \in SUBSET Markets
    BY <1>1 DEF Told
  <2>3. v8' \in Fanout!Errand /\ v8'.at = "push" /\ v8'.item = i
    BY <2>1, <2>2 DEF Fanout!Idle, Fanout!Errand
  <2> QED
    BY <1>1, <2>1, <2>3, ErrandMoves
       DEF Errands, Pushed, Fanout!MarkIsAccepted, Fanout!MarkerIsAccepted
<1>6. ASSUME NEW i \in Items, NEW m \in Markets, Fanout!Look(i, m)
      PROVE  Fanout!IInv' /\ Fanout!MarkerIsAccepted
  <2>1. /\ v8' = [Fanout!Idle EXCEPT !.at = "queue", !.item = i, !.market = m]
        /\ UNCHANGED <<v1, v7, v9, v10, v11>>
        /\ Fanout!Of(i, m) = {}
    BY <1>6 DEF Fanout!Look, Fanout!rows, Fanout!Pending
  <2>2. v8' \in Fanout!Errand /\ v8'.at = "queue" /\ v8'.item = i /\ v8'.market = m
    BY <2>1 DEF Fanout!Idle, Fanout!Errand
  <2> QED
    BY <1>1, <2>1, <2>2, ErrandMoves
       DEF Errands, Pushed, Fanout!MarkIsAccepted, Fanout!MarkerIsAccepted
<1> QED
  BY <1>2, <1>3, <1>4, <1>5, <1>6

\* The tool, the seller, the rail and the daemon.
LEMMA FanoutOthers ==
  ASSUME Fanout!IInv,
         \/ Fanout!AskQueue \/ Fanout!Seller \/ Fanout!Crash
         \/ \E i \in Items : \/ Fanout!PublishRail(i) \/ Fanout!TakeDown(i)
                             \/ \E m \in Markets : Fanout!Ask(i, m)
  PROVE  Fanout!IInv' /\ v10' = v10
<1>1. Told /\ Errands /\ Pushed /\ Fanout!QueuedOnce
  BY FanoutParts
<1>2. CASE Fanout!AskQueue
  <2>1. /\ v9.at = "queue" /\ v9.item \in Items /\ v9.market \in Markets /\ v9' = Fanout!Idle
        /\ UNCHANGED <<v1, v8, v10, v11>>
        /\ Fanout!Enqueue(v9.item, v9.market, "seller") \/ v7' = v7
    BY <1>1, <1>2 DEF Fanout!AskQueue, Fanout!rows, Errands
  <2>2. CASE Fanout!Enqueue(v9.item, v9.market, "seller")
    BY <2>1, <2>2, PassQueued
  <2>3. CASE v7' = v7
    BY <1>1, <2>1, <2>3, IdleErrand, ErrandMoves
       DEF Errands, Pushed, Fanout!MarkIsAccepted, Fanout!QueuedOnce
  <2> QED
    BY <2>1, <2>2, <2>3
<1>3. CASE Fanout!Seller \/ \E i \in Items : Fanout!PublishRail(i) \/ Fanout!TakeDown(i)
  <2>1. UNCHANGED <<v1, v7, v8, v9, v10, v11>>
    BY <1>3 DEF Fanout!Seller, Fanout!PublishRail, Fanout!TakeDown
  <2> QED
    BY <1>1, <2>1, ErrandMoves
       DEF Errands, Pushed, Fanout!MarkIsAccepted, Fanout!QueuedOnce
<1>4. CASE Fanout!Crash
  BY <1>1, <1>4, IdleErrand, ErrandMoves
     DEF Fanout!Crash, Fanout!rows, Errands, Pushed, Fanout!MarkIsAccepted
<1>5. ASSUME NEW i \in Items, NEW m \in Markets, Fanout!Ask(i, m)
      PROVE  Fanout!IInv' /\ v10' = v10
  <2>1. /\ v9' = [Fanout!Idle EXCEPT !.at = "queue", !.item = i, !.market = m]
        /\ UNCHANGED <<v1, v7, v8, v10, v11>>
    BY <1>5 DEF Fanout!Ask, Fanout!rows
  <2>2. v9' \in Fanout!Errand /\ v9'.item = i /\ v9'.market = m
    BY <2>1 DEF Fanout!Idle, Fanout!Errand
  <2> QED
    BY <1>1, <2>1, <2>2, ErrandMoves
       DEF Errands, Pushed, Fanout!MarkIsAccepted, Fanout!QueuedOnce
<1> QED
  BY <1>2, <1>3, <1>4, <1>5

LEMMA FanoutStep ==
  ASSUME Fanout!IInv,
         Fanout!Next \/ UNCHANGED <<v1, v2, v3, v4, v5, v6, v7, v8, v9, v10, v11>>
  PROVE  Fanout!IInv' /\ Fanout!MarkerIsAccepted
<1>1. CASE UNCHANGED <<v1, v2, v3, v4, v5, v6, v7, v8, v9, v10, v11>>
  <2>1. Told /\ Errands /\ Pushed /\ Fanout!QueuedOnce
    BY FanoutParts
  <2> QED
    BY <1>1, <2>1, ErrandMoves
       DEF Errands, Pushed, Fanout!MarkIsAccepted, Fanout!QueuedOnce, Fanout!MarkerIsAccepted
<1>2. CASE Fanout!Next
  BY <1>2, FanoutPasses, FanoutLane, FanoutOthers DEF Fanout!Next, Fanout!MarkerIsAccepted
<1> QED
  BY <1>1, <1>2

LEMMA FanoutCardinality == \A S : Fanout!Cardinality(S) = Cardinality(S)
  BY Zenon DEF Fanout!Cardinality, Cardinality

\* Passes of the lane for one pair are one at most.
LEMMA FanoutKeeps ==
  ASSUME Fanout!IInv
  PROVE  Fanout!OneShot /\ Fanout!ToldAsRecorded
<1>1. ASSUME NEW i \in Items, NEW m \in Markets
      PROVE  Fanout!Cardinality({p \in Fanout!Of(i, m) : v7[p].by = "lane"}) <= 1
  <2> DEFINE own == {p \in Fanout!Of(i, m) : v7[p].by = "lane"}
  <2>1. \A p, q \in own : p = q
    BY DEF Fanout!IInv, Fanout!QueuedOnce, Fanout!Of
  <2> HIDE DEF own
  <2>2. Cardinality(own) <= 1
    BY <2>1, AtMostOne
  <2> QED
    BY <2>2, FanoutCardinality DEF own
<1>2. Fanout!ToldAsRecorded
  BY DEF Fanout!IInv, Fanout!ListedIsRecorded, Fanout!ToldAsRecorded, Fanout!Settled
<1> QED
  BY <1>1, <1>2 DEF Fanout!OneShot

-----------------------------------------------------------------------------
(* Adoption: v1 survey, v2 row, v3 live, v4 pictured, v5 items, v6 created,  *)
(* v7 onRail, v8 slot, v9 lane, v10 tap, v11 reopened, v12 tried, v13 lost,  *)
(* v14 rearmed.  All that is kept is of one listing at a time, but for where *)
(* the lane is.                                                              *)

RowFits(l) ==
  /\ v2[l].rail # "none" => v2[l].status = "adopted"
  /\ v2[l].rail = "none" => v2[l].tries = 0
  /\ v2[l].rail = "owed" => v2[l].tries < RailMax
  /\ v12[l] <= v2[l].tries + Taking!TryUnderWay(l) + v13
  /\ l \in v6 => v2[l].status = "adopted"
  /\ v2[l].status = "adopted" =>
       /\ v5[l] > 0
       /\ v2[l].rail = "done" => l \in v7
       /\ v2[l].rail = "none" => v2[l].manage # "relist" \/ l \in v7 \/ l \in v6 \ v4
       /\ v2[l].rail = "queued" => v2[l].tries > 0
TakingTypes ==
  /\ v2 \in [Listings -> Taking!Entry] /\ v9 \in Taking!Place /\ v3 \subseteq Listings
  /\ v5 \in [Listings -> Nat] /\ v12 \in [Listings -> Nat] /\ v13 \in Nat /\ v6 \subseteq Listings

LEMMA TakingParts ==
  /\ Taking!IInv <=> TakingTypes /\ Taking!LaneKeepsRow /\ \A l \in Listings : RowFits(l)
  /\ Taking!IInv' <=> TakingTypes' /\ Taking!LaneKeepsRow' /\ \A l \in Listings : RowFits(l)'
<1>1. Taking!IInv <=> TakingTypes /\ Taking!LaneKeepsRow /\ \A l \in Listings : RowFits(l)
  BY DEF Taking!IInv, TakingTypes, RowFits, Taking!OwedHasTries, Taking!TriesAreCounted,
         Taking!ItemHasRow, Taking!OwedIsRemembered, Taking!Being
<1>2. Taking!IInv' <=> TakingTypes' /\ Taking!LaneKeepsRow' /\ \A l \in Listings : RowFits(l)'
  BY DEF Taking!IInv, TakingTypes, RowFits, Taking!OwedHasTries, Taking!TriesAreCounted,
         Taking!ItemHasRow, Taking!OwedIsRemembered, Taking!Being
<1> QED
  BY <1>1, <1>2

LEMMA EntryFields ==
  ASSUME NEW r \in Taking!Entry
  PROVE  /\ r.tries \in 0..RailMax /\ r.attempts \in Nat
         /\ r.status \in {"none", "pending", "accepted", "declined", "expired", "adopted", "failed"}
         /\ r.manage \in {"none", "inbox", "relist"}
         /\ r.rail \in {"none", "owed", "queued", "done", "failed"}
         /\ Taking!NoRow \in Taking!Entry /\ Taking!NoRow.status = "none"
         /\ Taking!NoRow.rail = "none" /\ Taking!NoRow.tries = 0
         /\ RailMax \in Nat \ {0}
  BY RecordsAssumption DEF Taking!AdoptionAssumption, Taking!Entry, Taking!NoRow

\* A step of the lane between two listings.
Between == {"idle", "look", "abandon", "record", "adopt", "settle", "owed"}
LEMMA LaneBetween ==
  ASSUME NEW at \in Between, v9' = [Taking!Idle EXCEPT !.at = at]
  PROVE  /\ v9' \in Taking!Place /\ v9'.at = at /\ Taking!LaneKeepsRow'
         /\ \A l : Taking!TryUnderWay(l)' = 0
<1>1. v9' \in Taking!Place /\ v9'.at = at
  BY DEF Taking!Idle, Taking!Place, Between
<1>2. Taking!LaneKeepsRow' /\ \A l : Taking!TryUnderWay(l)' = 0
  BY <1>1 DEF Taking!LaneKeepsRow, Taking!Working, Taking!TryUnderWay, Between
<1> QED
  BY <1>1, <1>2

LEMMA UnderWay ==
  /\ \A l : Taking!TryUnderWay(l) \in 0..1 /\ Taking!TryUnderWay(l)' \in 0..1
  /\ v9.at # "queued" => \A l : Taking!TryUnderWay(l) = 0
  /\ v9' = v9 => \A l : Taking!TryUnderWay(l)' = Taking!TryUnderWay(l)
  BY DEF Taking!TryUnderWay

\* What a listing keeps whose row is not written, or only where nothing is told
\* apart: no count but lost and the lane's, no address taken away.
LEMMA RowLeft ==
  ASSUME TakingTypes, NEW l \in Listings, RowFits(l),
         v2'[l].status = v2[l].status, v2'[l].manage = v2[l].manage,
         v2'[l].rail = v2[l].rail, v2'[l].tries = v2[l].tries,
         v4' = v4, v12'[l] = v12[l], v5'[l] \in Nat, v5'[l] >= v5[l], v13' \in Nat,
         l \in v7 => l \in v7', l \in v6 <=> l \in v6',
         Taking!TryUnderWay(l)' + v13' >= Taking!TryUnderWay(l) + v13
  PROVE  RowFits(l)'
<1>1. v2[l].tries \in Nat /\ v12[l] \in Nat /\ v13 \in Nat /\ v5[l] \in Nat
  BY EntryFields DEF TakingTypes
<1>2. v12'[l] <= v2'[l].tries + Taking!TryUnderWay(l)' + v13'
  BY <1>1, UnderWay DEF RowFits
<1> QED
  BY <1>1, <1>2 DEF RowFits

LEMMA TakingInit ==
  ASSUME Taking!Init
  PROVE  Taking!IInv
<1>1. /\ v2 = [l \in Listings |-> Taking!NoRow] /\ v3 \subseteq Listings
      /\ v5 = [l \in Listings |-> 0] /\ v6 = {} /\ v9 = Taking!Idle
      /\ v13 = 0 /\ v12 = [l \in Listings |-> 0]
  BY DEF Taking!Init
<1>2. /\ Taking!NoRow \in Taking!Entry /\ Taking!NoRow.status = "none"
      /\ Taking!NoRow.rail = "none" /\ Taking!NoRow.tries = 0
  BY RecordsAssumption DEF Taking!AdoptionAssumption, Taking!Entry, Taking!NoRow
<1>3. v9 \in Taking!Place /\ v9.at = "idle"
  BY <1>1 DEF Taking!Idle, Taking!Place
<1>4. Taking!LaneKeepsRow
  BY <1>3 DEF Taking!LaneKeepsRow, Taking!Working
<1>5. \A l \in Listings : RowFits(l)
  BY <1>1, <1>2, <1>3, UnderWay DEF RowFits
<1> QED
  BY <1>1, <1>2, <1>3, <1>4, <1>5, TakingParts DEF TakingTypes

\* The steps that write no row: the survey, the lane's choice, the marketplace,
\* the passes.
LEMMA TakingLooks ==
  ASSUME Taking!IInv,
         \/ Taking!Request \/ Taking!Look \/ Taking!Abandon \/ Taking!StaleTap \/ Taking!Pick
         \/ Taking!OtherPublish \/ Taking!PassEnds
         \/ \E l \in Listings : Taking!RailLive(l) \/ Taking!Market(l)
  PROVE  Taking!IInv'
<1>0. TakingTypes /\ Taking!LaneKeepsRow /\ \A l \in Listings : RowFits(l)
  BY TakingParts
<1>1. /\ UNCHANGED <<v2, v4, v5, v6, v12, v13>> /\ v7 \subseteq v7' /\ v3' \subseteq Listings
  BY <1>0 DEF Taking!Request, Taking!Look, Taking!Abandon, Taking!StaleTap, Taking!Pick,
         Taking!OtherPublish, Taking!PassEnds, Taking!RailLive, Taking!Market,
         Taking!counts, Taking!Lane, TakingTypes
<1>2. ASSUME v9' \in Taking!Place, Taking!LaneKeepsRow',
             \A l \in Listings : Taking!TryUnderWay(l)' >= Taking!TryUnderWay(l)
      PROVE  Taking!IInv'
  <2>1. TakingTypes'
    BY <1>0, <1>1, <1>2 DEF TakingTypes
  <2>2. ASSUME NEW l \in Listings
        PROVE  RowFits(l)'
    <3>1. v5[l] \in Nat /\ v13 \in Nat
      BY <1>0 DEF TakingTypes
    <3>2. Taking!TryUnderWay(l)' + v13' >= Taking!TryUnderWay(l) + v13
      BY <1>1, <1>2, <3>1, UnderWay
    <3> QED
      BY <1>0, <1>1, <3>1, <3>2, RowLeft
  <2> QED
    BY <1>2, <2>1, <2>2, TakingParts
<1>3. CASE v9' = v9
  BY <1>0, <1>1, <1>2, <1>3, UnderWay DEF TakingTypes, Taking!LaneKeepsRow, Taking!Working
<1>4. ASSUME v9.at # "queued", NEW at \in Between, v9' = [Taking!Idle EXCEPT !.at = at]
      PROVE  Taking!IInv'
  BY <1>2, <1>4, LaneBetween, UnderWay
<1>5. CASE Taking!Look
  <2>1. CASE v9' = [Taking!Idle EXCEPT !.at = "record", !.seen = v3]
    <3>1. v9' \in Taking!Place /\ v9'.at = "record"
      BY <1>0, <2>1 DEF Taking!Idle, Taking!Place, TakingTypes
    <3>2. v9.at # "queued"
      BY <1>5 DEF Taking!Look
    <3> QED
      BY <1>2, <3>1, <3>2, UnderWay
         DEF Taking!LaneKeepsRow, Taking!Working, Taking!TryUnderWay
  <2>2. CASE v9' # [Taking!Idle EXCEPT !.at = "record", !.seen = v3]
    <3>1. \E at \in Between : v9' = [Taking!Idle EXCEPT !.at = at]
      BY <1>5, <2>2 DEF Taking!Look, Taking!Goto, Between
    <3> QED
      BY <1>4, <1>5, <3>1 DEF Taking!Look
  <2> QED
    BY <2>1, <2>2
<1>6. CASE Taking!Abandon
  <2>1. v9' = [Taking!Idle EXCEPT !.at = "adopt"] /\ v9.at # "queued"
    BY <1>6 DEF Taking!Abandon, Taking!Goto
  <2> QED
    BY <1>4, <2>1 DEF Between
<1>7. CASE Taking!Pick
  <2>1. CASE v9' = [Taking!Idle EXCEPT !.at = "settle"]
    BY <1>4, <1>7, <2>1 DEF Between, Taking!Pick
  <2>2. CASE v9' # [Taking!Idle EXCEPT !.at = "settle"]
    <3>1. PICK l \in Taking!Untried, at \in {"fail", "link", "read"} :
            v9' = Taking!For(at, l) /\ (at = "link" => v5[l] = 1)
      BY <1>7, <2>2 DEF Taking!Pick, Taking!Goto
    <3>2. l \in Listings /\ v2[l].status = "accepted"
      BY <3>1 DEF Taking!Untried, Taking!Being
    <3>3. /\ v9' \in Taking!Place /\ v9'.at = at /\ v9'.listing = l
          /\ v9'.relist = (v2[l].manage = "relist")
      BY <3>1, <3>2 DEF Taking!For, Taking!Place
    <3>4. Taking!LaneKeepsRow'
      BY <1>1, <3>1, <3>2, <3>3 DEF Taking!LaneKeepsRow, Taking!Working
    <3>5. v9.at # "queued"
      BY <1>7 DEF Taking!Pick
    <3> QED
      BY <1>2, <3>3, <3>4, <3>5, UnderWay
  <2> QED
    BY <2>1, <2>2
<1> QED
  BY <1>3, <1>5, <1>6, <1>7
     DEF Taking!Request, Taking!StaleTap, Taking!OtherPublish, Taking!PassEnds, Taking!RailLive,
         Taking!Market

\* A row that is not adopted is rewritten and stays so: nothing is owed for it.
LEMMA RowUnadopted ==
  ASSUME TakingTypes, NEW l \in Listings, RowFits(l), v2[l].status # "adopted",
         v2'[l].status # "adopted", v2'[l].rail = "none", v2'[l].tries = 0,
         v12'[l] = v12[l], v13' = v13, l \in v6 <=> l \in v6',
         Taking!TryUnderWay(l)' >= Taking!TryUnderWay(l)
  PROVE  RowFits(l)'
<1>1. v2[l].tries = 0 /\ v12[l] \in Nat /\ v13 \in Nat
  BY DEF TakingTypes, RowFits
<1>2. v12'[l] <= v2'[l].tries + Taking!TryUnderWay(l)' + v13'
  BY <1>1, UnderWay DEF RowFits
<1> QED
  BY <1>2 DEF RowFits

LEMMA UnadoptedOwesNothing ==
  ASSUME NEW l \in Listings, RowFits(l), v2[l].status # "adopted"
  PROVE  v2[l].rail = "none" /\ v2[l].tries = 0
  BY DEF RowFits

\* survey_lane: the asks that went stale.
LEMMA TakingTick ==
  ASSUME Taking!IInv, Taking!Tick
  PROVE  Taking!IInv'
<1>0. TakingTypes /\ Taking!LaneKeepsRow /\ \A l \in Listings : RowFits(l)
  BY TakingParts
<1>1. PICK stale \in SUBSET Listings, at \in Between :
        /\ \A l \in stale : v2[l].status = "pending"
        /\ v2' = [l \in Listings |-> IF l \in stale THEN [v2[l] EXCEPT !.status = "expired"] ELSE v2[l]]
        /\ v9' = [Taking!Idle EXCEPT !.at = at]
  BY DEF Taking!Tick, Taking!Being, Taking!Goto, Between
<1>2. UNCHANGED <<v3, v4, v5, v6, v7, v12, v13>> /\ v9.at # "queued"
  BY DEF Taking!Tick, Taking!Lane, Taking!Idle
<1>3. /\ v9' \in Taking!Place /\ Taking!LaneKeepsRow'
      /\ \A l : Taking!TryUnderWay(l)' = 0 /\ Taking!TryUnderWay(l) = 0
  BY <1>1, <1>2, LaneBetween, UnderWay
<1>4. \A l \in stale : LET r == [v2[l] EXCEPT !.status = "expired"]
                       IN  /\ r \in Taking!Entry /\ r.status = "expired"
                           /\ r.rail = v2[l].rail /\ r.tries = v2[l].tries
  BY <1>0 DEF TakingTypes, Taking!Entry
<1>5. v2' \in [Listings -> Taking!Entry]
  BY <1>0, <1>1, <1>4 DEF TakingTypes
<1>6. ASSUME NEW l \in Listings
      PROVE  RowFits(l)'
  <2>1. CASE l \in stale
    <3>1. v2'[l].status = "expired" /\ v2'[l].rail = v2[l].rail /\ v2'[l].tries = v2[l].tries
      BY <1>1, <1>4, <2>1
    <3> QED
      BY <1>0, <1>1, <1>2, <1>3, <2>1, <3>1, RowUnadopted, UnadoptedOwesNothing
  <2>2. CASE l \notin stale
    BY <1>0, <1>1, <1>2, <1>3, <2>2, RowLeft DEF TakingTypes
  <2> QED
    BY <2>1, <2>2
<1> QED
  BY <1>0, <1>2, <1>3, <1>5, <1>6, TakingParts DEF TakingTypes

\* record_survey_result: a row is begun only where there was none.
LEMMA TakingRecord ==
  ASSUME Taking!IInv, Taking!Record
  PROVE  Taking!IInv'
<1>0. TakingTypes /\ Taking!LaneKeepsRow /\ \A l \in Listings : RowFits(l)
  BY TakingParts
<1> DEFINE begun == [Taking!NoRow EXCEPT !.status = "pending"]
           fresh == Taking!Fresh(v9.seen)
<1>1. /\ v2' = [l \in Listings |-> IF l \in fresh THEN begun ELSE v2[l]]
      /\ v9' = [Taking!Idle EXCEPT !.at = "adopt"]
      /\ UNCHANGED <<v3, v4, v5, v6, v7, v12, v13>> /\ v9.at # "queued"
  BY DEF Taking!Record, Taking!Goto, Taking!Lane
<1>2. \A l \in fresh : v2[l].status = "none"
  BY DEF Taking!Fresh
<1>3. begun \in Taking!Entry /\ begun.status = "pending" /\ begun.rail = "none" /\ begun.tries = 0
  BY RecordsAssumption DEF Taking!AdoptionAssumption, Taking!Entry, Taking!NoRow
<1> HIDE DEF begun, fresh
<1>4. /\ v9' \in Taking!Place /\ Taking!LaneKeepsRow'
      /\ \A l : Taking!TryUnderWay(l)' = 0 /\ Taking!TryUnderWay(l) = 0
  BY <1>1, LaneBetween, UnderWay DEF Between
<1>5. v2' \in [Listings -> Taking!Entry]
  BY <1>0, <1>1, <1>3 DEF TakingTypes
<1>6. ASSUME NEW l \in Listings
      PROVE  RowFits(l)'
  <2>1. CASE l \in fresh
    <3>1. v2'[l] = begun
      BY <1>1, <2>1
    <3> QED
      BY <1>0, <1>1, <1>2, <1>3, <1>4, <2>1, <3>1, RowUnadopted
  <2>2. CASE l \notin fresh
    BY <1>0, <1>1, <1>4, <2>2, RowLeft DEF TakingTypes
  <2> QED
    BY <2>1, <2>2
<1> QED
  BY <1>0, <1>1, <1>4, <1>5, <1>6, TakingParts DEF TakingTypes

\* The seller's yes and no reach only what is not adopted yet; nobody else says
\* yes, so that the lane finds the yes it picked or none.
LEMMA TakingDecide ==
  ASSUME Taking!IInv, NEW S \in SUBSET Listings, NEW manage \in {"none", "inbox", "relist"},
         Taking!Decide(S, manage)
  PROVE  Taking!IInv'
<1>0. TakingTypes /\ Taking!LaneKeepsRow /\ \A l \in Listings : RowFits(l)
  BY TakingParts
<1> DEFINE reached == IF manage = "none" THEN Taking!Being("pending") \cup Taking!Being("accepted")
                                         ELSE Taking!Being("pending")
           st == IF manage = "none" THEN "declined" ELSE "accepted"
           said(l) == [v2[l] EXCEPT !.status = st, !.manage = manage]
<1>1. /\ v2' = [l \in Listings |-> IF l \in S \cap reached THEN said(l) ELSE v2[l]]
      /\ UNCHANGED <<v3, v4, v5, v6, v7, v9, v12, v13>>
  BY DEF Taking!Decide, Taking!counts
<1>2. /\ \A l \in S \cap reached : l \in Listings /\ v2[l].status \in {"pending", "accepted"}
      /\ manage # "none" => \A l \in S \cap reached : v2[l].status = "pending"
      /\ st \in {"declined", "accepted"} /\ (manage = "none" => st = "declined")
  BY DEF Taking!Being
<1>3. \A l \in Listings : /\ said(l) \in Taking!Entry /\ said(l).status = st
                          /\ said(l).rail = v2[l].rail /\ said(l).tries = v2[l].tries
  <2>1. st \in {"declined", "accepted"}
    OBVIOUS
  <2>2. \A l \in Listings : v2[l] \in Taking!Entry
    BY <1>0 DEF TakingTypes
  <2> HIDE DEF st, reached
  <2>3. ASSUME NEW r \in Taking!Entry
        PROVE  LET t == [r EXCEPT !.status = st, !.manage = manage]
               IN  /\ t \in Taking!Entry /\ t.status = st
                   /\ t.rail = r.rail /\ t.tries = r.tries
    BY <2>1 DEF Taking!Entry
  <2> QED
    BY <2>2, <2>3
<1> HIDE DEF said, reached, st
<1>4. v2' \in [Listings -> Taking!Entry]
  BY <1>0, <1>1, <1>3 DEF TakingTypes
<1>5. \A l : Taking!TryUnderWay(l)' = Taking!TryUnderWay(l)
  BY <1>1, UnderWay
<1>6. ASSUME NEW l \in Listings
      PROVE  RowFits(l)'
  <2>1. CASE l \in S \cap reached
    <3>1. v2'[l] = said(l)
      BY <1>1, <2>1
    <3> QED
      BY <1>0, <1>1, <1>2, <1>3, <1>5, <2>1, <3>1, RowUnadopted, UnadoptedOwesNothing, UnderWay
  <2>2. CASE l \notin S \cap reached
    <3>1. v2'[l] = v2[l]
      BY <1>1, <2>2
    <3> QED
      BY <1>0, <1>1, <1>5, <3>1, RowLeft, UnderWay DEF TakingTypes
  <2> QED
    BY <2>1, <2>2
<1>7. Taking!LaneKeepsRow'
  <2> DEFINE k == v9.listing
  <2>1. CASE k \in S \cap reached
    <3>1. v2'[k] = said(k) /\ k \in Listings
      BY <1>1, <1>2, <2>1
    <3>2. v9.at # "queued"
      BY <1>0, <1>2, <2>1, UnadoptedOwesNothing DEF Taking!LaneKeepsRow
    <3>3. Taking!Working => st = "declined"
      BY <1>0, <1>2, <2>1 DEF Taking!LaneKeepsRow
    <3> QED
      BY <1>0, <1>1, <1>3, <3>1, <3>2, <3>3 DEF Taking!LaneKeepsRow, Taking!Working
  <2>2. CASE k \notin S \cap reached
    <3>1. k \in Listings => v2'[k] = v2[k]
      BY <1>1, <2>2
    <3> QED
      BY <1>0, <1>1, <3>1 DEF Taking!LaneKeepsRow, Taking!Working
  <2> QED
    BY <2>1, <2>2
<1> QED
  BY <1>0, <1>1, <1>4, <1>6, <1>7, TakingParts DEF TakingTypes

\* _retry_rail_publish begins the count again; reopen_market_survey forgets what
\* is not adopted.
LEMMA TakingAgain ==
  ASSUME Taking!IInv, Taking!Reopen \/ \E S \in SUBSET Listings : Taking!Retry(S)
  PROVE  Taking!IInv'
<1>0. TakingTypes /\ Taking!LaneKeepsRow /\ \A l \in Listings : RowFits(l)
  BY TakingParts
<1>f. /\ Taking!NoRow \in Taking!Entry /\ Taking!NoRow.status = "none"
      /\ Taking!NoRow.rail = "none" /\ Taking!NoRow.tries = 0 /\ RailMax \in Nat \ {0}
  BY RecordsAssumption DEF Taking!AdoptionAssumption, Taking!Entry, Taking!NoRow
<1>1. ASSUME NEW S \in SUBSET Listings, Taking!Retry(S)
      PROVE  Taking!IInv'
  <2> DEFINE failed == {l \in S \cap Taking!Being("adopted") : v2[l].rail = "failed"}
             again(l) == [v2[l] EXCEPT !.rail = "owed", !.tries = 0]
  <2>1. /\ v2' = [l \in Listings |-> IF l \in failed THEN again(l) ELSE v2[l]]
        /\ v12' = [l \in Listings |-> IF l \in failed THEN 0 ELSE v12[l]]
        /\ UNCHANGED <<v3, v4, v5, v6, v7, v9, v13>>
    BY <1>1 DEF Taking!Retry
  <2>2. \A l \in failed : l \in Listings /\ v2[l].status = "adopted" /\ v2[l].rail = "failed"
    BY DEF Taking!Being
  <2>3. \A l \in Listings : /\ again(l) \in Taking!Entry /\ again(l).status = v2[l].status
                            /\ again(l).rail = "owed" /\ again(l).tries = 0
    BY <1>0, <1>f DEF TakingTypes, Taking!Entry
  <2> HIDE DEF failed, again
  <2>4. v2' \in [Listings -> Taking!Entry] /\ v12' \in [Listings -> Nat]
    BY <1>0, <2>1, <2>3 DEF TakingTypes
  <2>5. \A l : Taking!TryUnderWay(l)' = Taking!TryUnderWay(l) /\ Taking!TryUnderWay(l) \in 0..1
    BY <2>1, UnderWay
  <2>6. ASSUME NEW l \in Listings
        PROVE  RowFits(l)'
    <3>1. CASE l \in failed
      <4>1. v2'[l] = again(l) /\ v12'[l] = 0 /\ v13 \in Nat
        BY <1>0, <2>1, <3>1 DEF TakingTypes
      <4> QED
        BY <1>0, <1>f, <2>1, <2>2, <2>3, <2>5, <3>1, <4>1 DEF RowFits
    <3>2. CASE l \notin failed
      <4>1. v2'[l] = v2[l] /\ v12'[l] = v12[l]
        BY <2>1, <3>2
      <4> QED
        BY <1>0, <2>1, <2>5, <4>1, RowLeft DEF TakingTypes
    <3> QED
      BY <3>1, <3>2
  <2>7. Taking!LaneKeepsRow'
    <3> DEFINE k == v9.listing
    <3>1. k \in failed => ~Taking!Working /\ v9.at # "queued"
      BY <1>0, <2>2 DEF Taking!LaneKeepsRow
    <3>2. k \in Listings /\ k \notin failed => v2'[k] = v2[k]
      BY <2>1
    <3> QED
      BY <1>0, <2>1, <3>1, <3>2 DEF Taking!LaneKeepsRow, Taking!Working
  <2> QED
    BY <1>0, <2>1, <2>4, <2>6, <2>7, TakingParts DEF TakingTypes
<1>2. CASE Taking!Reopen
  <2>1. /\ v2' = [l \in Listings |-> IF v2[l].status = "adopted" THEN v2[l] ELSE Taking!NoRow]
        /\ UNCHANGED <<v3, v4, v5, v6, v7, v9, v12, v13>>
    BY <1>2 DEF Taking!Reopen
  <2>2. v2' \in [Listings -> Taking!Entry]
    BY <1>0, <1>f, <2>1 DEF TakingTypes
  <2>3. \A l : Taking!TryUnderWay(l)' = Taking!TryUnderWay(l) /\ Taking!TryUnderWay(l) \in 0..1
    BY <2>1, UnderWay
  <2>4. ASSUME NEW l \in Listings
        PROVE  RowFits(l)'
    <3>1. CASE v2[l].status = "adopted"
      BY <1>0, <2>1, <2>3, <3>1, RowLeft DEF TakingTypes
    <3>2. CASE v2[l].status # "adopted"
      BY <1>0, <1>f, <2>1, <2>3, <3>2, RowUnadopted
    <3> QED
      BY <3>1, <3>2
  <2>5. Taking!LaneKeepsRow'
    <3>1. v9.at = "queued" => v9.listing \in Listings /\ v2[v9.listing].status = "adopted"
      BY <1>0, UnadoptedOwesNothing DEF Taking!LaneKeepsRow
    <3> QED
      BY <1>0, <1>f, <2>1, <3>1 DEF Taking!LaneKeepsRow, Taking!Working
  <2> QED
    BY <1>0, <2>1, <2>2, <2>4, <2>5, TakingParts DEF TakingTypes
<1> QED
  BY <1>1, <1>2

\* A row the lane writes alone.
LEMMA RowWritten ==
  ASSUME TakingTypes, NEW k \in Listings, NEW r \in Taking!Entry, v2' = [v2 EXCEPT ![k] = r]
  PROVE  /\ v2' \in [Listings -> Taking!Entry] /\ v2'[k] = r
         /\ \A l \in Listings \ {k} : v2'[l] = v2[l]
  BY DEF TakingTypes

\* What the listings keep that the lane is not at.
LEMMA OthersFit ==
  ASSUME TakingTypes, NEW l \in Listings, RowFits(l), v2'[l] = v2[l], v12'[l] = v12[l],
         v5'[l] = v5[l], l \in v6 <=> l \in v6', UNCHANGED <<v4, v7, v13>>,
         Taking!TryUnderWay(l)' >= Taking!TryUnderWay(l)
  PROVE  RowFits(l)'
<1>1. v5[l] \in Nat /\ v13 \in Nat
  BY DEF TakingTypes
<1>2. Taking!TryUnderWay(l)' + v13' >= Taking!TryUnderWay(l) + v13
  BY <1>1, UnderWay
<1> QED
  BY <1>1, <1>2, RowLeft

\* _retry_or_fail and fail_discovered_listing: the listing is not adopted.
LEMMA TakingReads ==
  ASSUME Taking!IInv, Taking!Read \/ Taking!Fail
  PROVE  Taking!IInv'
<1> DEFINE k == v9.listing
<1>0. TakingTypes /\ Taking!LaneKeepsRow /\ \A l \in Listings : RowFits(l)
  BY TakingParts
<1>1. /\ k \in Listings /\ v2[k].status \notin {"pending", "adopted"} /\ v9.at \in {"read", "fail"}
      /\ v2[k].status = "accepted" => v9.relist = (v2[k].manage = "relist")
      /\ UNCHANGED <<v3, v4, v5, v6, v7, v12, v13>>
  BY <1>0 DEF Taking!Read, Taking!Fail, Taking!Lane, Taking!LaneKeepsRow, Taking!Working
<1>2. v2[k] \in Taking!Entry /\ v2[k].rail = "none" /\ v2[k].tries = 0
  BY <1>0, <1>1, UnadoptedOwesNothing DEF TakingTypes
<1>3. PICK r \in Taking!Entry :
        /\ v2' = [v2 EXCEPT ![k] = r] /\ r.rail = "none" /\ r.tries = 0
        /\ r.manage = v2[k].manage
        /\ \/ r.status = v2[k].status
           \/ r.status = "failed" /\ \E at \in Between : v9' = [Taking!Idle EXCEPT !.at = at]
  <2>1. CASE v2' = v2
    <3>1. v2' = [v2 EXCEPT ![k] = v2[k]]
      BY <1>0, <2>1 DEF TakingTypes
    <3> QED
      BY <1>2, <3>1
  <2>2. CASE Taking!RetryOrFail(k)
    <3> DEFINE n == IF v2[k] = Taking!NoRow THEN 0 ELSE v2[k].attempts + 1
               r == [v2[k] EXCEPT !.attempts = n]
    <3>1. n \in Nat
      BY <1>2, EntryFields
    <3>2. v2' = [v2 EXCEPT ![k] = r]
      BY <2>2 DEF Taking!RetryOrFail
    <3> HIDE DEF n
    <3>3. /\ r \in Taking!Entry /\ r.rail = "none" /\ r.tries = 0
          /\ r.status = v2[k].status /\ r.manage = v2[k].manage
      BY <1>2, <3>1 DEF Taking!Entry
    <3> HIDE DEF r
    <3> QED
      BY <3>2, <3>3
  <2>3. CASE Taking!Fail
    <3>1. v9' = [Taking!Idle EXCEPT !.at = "settle"]
      BY <2>3 DEF Taking!Fail, Taking!Goto
    <3>2. CASE v2[k] = Taking!NoRow
      <4>1. v2' = v2
        BY <1>0, <2>3, <3>2 DEF Taking!Fail, TakingTypes
      <4> QED
        BY <2>1, <4>1
    <3>3. CASE v2[k] # Taking!NoRow
      <4> DEFINE r == [v2[k] EXCEPT !.status = "failed"]
      <4>1. v2' = [v2 EXCEPT ![k] = r]
        BY <1>0, <1>1, <2>3, <3>3 DEF Taking!Fail, TakingTypes
      <4>2. /\ r \in Taking!Entry /\ r.rail = "none" /\ r.tries = 0
            /\ r.status = "failed" /\ r.manage = v2[k].manage
        BY <1>2 DEF Taking!Entry
      <4> HIDE DEF r
      <4> QED
        BY <3>1, <4>1, <4>2 DEF Between
    <3> QED
      BY <3>2, <3>3
  <2> QED
    BY <2>1, <2>2, <2>3 DEF Taking!Read
<1>4. v9 \in Taking!Place
  BY <1>0 DEF TakingTypes
<1>5. \/ \E at \in Between : v9' = [Taking!Idle EXCEPT !.at = at]
      \/ r.status = v2[k].status /\ \E at \in {"fail", "create"} : v9' = [v9 EXCEPT !.at = at]
  BY <1>3 DEF Taking!Read, Taking!Fail, Taking!Goto, Taking!RetryOrFail, Between
<1> HIDE DEF k
<1>6. /\ v2' \in [Listings -> Taking!Entry] /\ v2'[k] = r
      /\ \A l \in Listings \ {k} : v2'[l] = v2[l]
  BY <1>0, <1>1, <1>3, RowWritten
<1>7. /\ v9' \in Taking!Place /\ Taking!LaneKeepsRow'
      /\ \A l \in Listings : Taking!TryUnderWay(l)' = 0 /\ Taking!TryUnderWay(l) = 0
  <2>1. CASE \E at \in Between : v9' = [Taking!Idle EXCEPT !.at = at]
    BY <1>1, <2>1, LaneBetween, UnderWay
  <2>2. ASSUME NEW at \in {"fail", "create"}, v9' = [v9 EXCEPT !.at = at],
               r.status = v2[k].status
        PROVE  /\ v9' \in Taking!Place /\ Taking!LaneKeepsRow'
               /\ \A l \in Listings : Taking!TryUnderWay(l)' = 0 /\ Taking!TryUnderWay(l) = 0
    <3>1. /\ v9' \in Taking!Place /\ v9'.at = at /\ v9'.listing = k /\ v9'.relist = v9.relist
      BY <1>4, <2>2 DEF Taking!Place, k
    <3>2. Taking!LaneKeepsRow'
      BY <1>1, <1>3, <1>6, <2>2, <3>1 DEF Taking!LaneKeepsRow
    <3> QED
      BY <1>1, <3>1, <3>2, UnderWay DEF Taking!TryUnderWay
  <2> QED
    BY <1>5, <2>1, <2>2
<1>8. ASSUME NEW l \in Listings
      PROVE  RowFits(l)'
  <2>1. CASE l = k
    BY <1>0, <1>1, <1>3, <1>6, <1>7, <2>1, RowUnadopted
  <2>2. CASE l # k
    BY <1>0, <1>1, <1>6, <1>7, <2>2, OthersFit
  <2> QED
    BY <2>1, <2>2
<1> QED
  BY <1>0, <1>1, <1>6, <1>7, <1>8, TakingParts DEF TakingTypes

\* adopt_discovered_listing: the row and its item together, or nothing.
LEMMA TakingAdopts ==
  ASSUME Taking!IInv, Taking!Create \/ Taking!Link
  PROVE  Taking!IInv'
<1> DEFINE k == v9.listing
<1>0. TakingTypes /\ Taking!LaneKeepsRow /\ \A l \in Listings : RowFits(l)
  BY TakingParts
<1>1. /\ k \in Listings /\ v2[k].status # "adopted"
      /\ v2[k].status = "accepted" => (v9.relist <=> v2[k].manage = "relist")
      /\ v9.at = "link" => v5[k] > 0
      /\ UNCHANGED <<v3, v4, v7, v12, v13>> /\ v9.at \in {"create", "link"}
      /\ v9' = [Taking!Idle EXCEPT !.at = "settle"]
  BY <1>0 DEF Taking!Create, Taking!Link, Taking!Goto, Taking!Lane, Taking!LaneKeepsRow, Taking!Working
<1>2. v2[k] \in Taking!Entry /\ v2[k].rail = "none" /\ v2[k].tries = 0 /\ v5[k] \in Nat
      /\ RailMax \in Nat \ {0}
  BY <1>0, <1>1, UnadoptedOwesNothing, EntryFields DEF TakingTypes
<1>3. /\ v9' \in Taking!Place /\ Taking!LaneKeepsRow'
      /\ \A l : Taking!TryUnderWay(l)' = 0 /\ Taking!TryUnderWay(l) = 0
  BY <1>1, LaneBetween, UnderWay DEF Between
<1>4. CASE v2[k].status # "accepted"
  <2>1. UNCHANGED <<v2, v5, v6>>
    BY <1>1, <1>4 DEF Taking!Create, Taking!Link
  <2> QED
    BY <1>0, <1>1, <1>3, <2>1, OthersFit, TakingParts DEF TakingTypes
<1>5. CASE v2[k].status = "accepted"
  <2>1. PICK owed \in BOOLEAN :
          /\ v2' = [v2 EXCEPT ![k].status = "adopted", ![k].rail = IF owed THEN "owed" ELSE "none"]
          /\ \/ /\ (owed <=> v9.relist /\ k \in v4) /\ v5' = [v5 EXCEPT ![k] = v5[k] + 1]
                /\ v6' = v6 \cup {k}
             \/ (owed <=> v9.relist /\ k \notin v7) /\ UNCHANGED <<v5, v6>> /\ v9.at = "link"
    <3>1. CASE Taking!Create
      <4> DEFINE owed == v9.relist /\ k \in v4
      <4>1. owed \in BOOLEAN
        BY <1>0 DEF TakingTypes, Taking!Place
      <4> QED
        BY <1>5, <3>1, <4>1 DEF Taking!Create, Taking!Adopted
    <3>2. CASE Taking!Link
      <4> DEFINE owed == v9.relist /\ k \notin v7
      <4>1. owed \in BOOLEAN
        BY <1>0 DEF TakingTypes, Taking!Place
      <4> QED
        BY <1>5, <3>2, <4>1 DEF Taking!Link, Taking!Adopted
    <3> QED
      BY <3>1, <3>2
  <2> DEFINE rail == IF owed THEN "owed" ELSE "none"
             r == [v2[k] EXCEPT !.status = "adopted", !.rail = rail]
  <2>2. v2' = [v2 EXCEPT ![k] = r]
    BY <2>1
  <2>3. rail \in {"owed", "none"} /\ (rail = "owed" <=> owed)
    OBVIOUS
  <2> HIDE DEF rail
  <2>4. /\ r \in Taking!Entry /\ r.rail = rail /\ r.tries = 0 /\ r.status = "adopted"
        /\ r.manage = v2[k].manage
    BY <1>2, <2>3 DEF Taking!Entry
  <2> HIDE DEF r, k
  <2>5. /\ v2' \in [Listings -> Taking!Entry] /\ v2'[k] = r
        /\ \A l \in Listings \ {k} : v2'[l] = v2[l]
    BY <1>0, <1>1, <2>2, <2>4, RowWritten
  <2>6. /\ v5' \in [Listings -> Nat] /\ \A l \in Listings \ {k} : v5'[l] = v5[l]
        /\ v5'[k] > 0 /\ v6' \subseteq Listings /\ \A l \in Listings \ {k} : l \in v6 <=> l \in v6'
    BY <1>0, <1>1, <1>2, <2>1 DEF TakingTypes
  <2>7. ASSUME NEW l \in Listings, l = k
        PROVE  RowFits(l)'
    <3>1. v12'[l] <= v2'[l].tries + Taking!TryUnderWay(l)' + v13'
      BY <1>0, <1>1, <1>2, <1>3, <2>4, <2>5, <2>7 DEF RowFits
    <3>2. ~owed => r.manage # "relist" \/ k \in v7 \/ k \in v6' \ v4
      BY <1>1, <1>5, <2>1, <2>4
    <3>3. r.status = "adopted" /\ r.rail \in {"owed", "none"} /\ (r.rail = "none" => ~owed)
      BY <2>3, <2>4
    <3>4. v7' = v7 /\ v4' = v4 /\ RailMax > 0
      BY <1>1, <1>2
    <3> QED
      BY <2>4, <2>5, <2>6, <2>7, <3>1, <3>2, <3>3, <3>4 DEF RowFits
  <2>8. \A l \in Listings : RowFits(l)'
    BY <1>0, <1>1, <1>3, <2>5, <2>6, <2>7, OthersFit
  <2> QED
    BY <1>0, <1>1, <1>3, <2>5, <2>6, <2>8, TakingParts DEF TakingTypes
<1> QED
  BY <1>4, <1>5

\* _settle_queued: by the address on the item, and by the tries that are left.
LEMMA TakingSettles ==
  ASSUME Taking!IInv, Taking!Settle
  PROVE  Taking!IInv'
<1>0. TakingTypes /\ Taking!LaneKeepsRow /\ \A l \in Listings : RowFits(l)
  BY TakingParts
<1> DEFINE over(l) == v2[l].rail = "queued" /\ v8 # l
           left(l) == [v2[l] EXCEPT !.rail = Taking!Settled(l)]
<1>1. /\ v2' = [l \in Listings |-> IF over(l) THEN left(l) ELSE v2[l]]
      /\ UNCHANGED <<v3, v4, v5, v6, v7, v12, v13>> /\ v9.at # "queued"
  BY DEF Taking!Settle, Taking!Lane
<1>2. PICK at \in Between : v9' = [Taking!Idle EXCEPT !.at = at]
  BY DEF Taking!Settle, Taking!Goto, Between
<1>3. /\ v9' \in Taking!Place /\ Taking!LaneKeepsRow'
      /\ \A l : Taking!TryUnderWay(l)' = 0 /\ Taking!TryUnderWay(l) = 0
  BY <1>1, <1>2, LaneBetween, UnderWay
<1>4. \A l \in Listings :
        /\ left(l) \in Taking!Entry /\ left(l).status = v2[l].status
        /\ left(l).tries = v2[l].tries /\ left(l).rail \in {"done", "owed", "failed"}
        /\ left(l).rail = "done" => l \in v7
        /\ left(l).rail = "owed" => v2[l].tries < RailMax
  BY <1>0 DEF TakingTypes, Taking!Entry, Taking!Settled
<1>5. \A l \in Listings : over(l) => v2[l].rail = "queued"
  OBVIOUS
<1> HIDE DEF over, left
<1>6. v2' \in [Listings -> Taking!Entry]
  BY <1>0, <1>1, <1>4 DEF TakingTypes
<1>7. ASSUME NEW l \in Listings
      PROVE  RowFits(l)'
  <2>1. CASE over(l)
    <3>1. v2'[l] = left(l) /\ v2[l].rail = "queued"
      BY <1>1, <1>5, <2>1
    <3>2. v2[l].status = "adopted" /\ v5[l] > 0
      BY <1>0, <3>1 DEF RowFits
    <3>3. v12'[l] <= v2'[l].tries + Taking!TryUnderWay(l)' + v13'
      BY <1>0, <1>1, <1>3, <1>4, <3>1 DEF RowFits
    <3> QED
      BY <1>1, <1>4, <3>1, <3>2, <3>3 DEF RowFits
  <2>2. CASE ~over(l)
    <3>1. v2'[l] = v2[l]
      BY <1>1, <2>2
    <3> QED
      BY <1>0, <1>1, <1>3, <3>1, OthersFit
  <2> QED
    BY <2>1, <2>2
<1> QED
  BY <1>0, <1>1, <1>3, <1>6, <1>7, TakingParts DEF TakingTypes

\* _enqueue_owed counts a try the row does not have yet ...
LEMMA TakingEnqueues ==
  ASSUME Taking!IInv, Taking!Enqueue
  PROVE  Taking!IInv'
<1>0. TakingTypes /\ Taking!LaneKeepsRow /\ \A l \in Listings : RowFits(l)
  BY TakingParts
<1>1. UNCHANGED <<v3, v4, v5, v6, v7, v13>> /\ v9.at = "owed"
  BY DEF Taking!Enqueue, Taking!Lane
<1>2. \A l : Taking!TryUnderWay(l) = 0
  BY <1>1, UnderWay
<1>3. CASE UNCHANGED <<v2, v12>> /\ v9' = [Taking!Idle EXCEPT !.at = "idle"]
  <2>1. /\ v9' \in Taking!Place /\ Taking!LaneKeepsRow' /\ \A l : Taking!TryUnderWay(l)' = 0
    BY <1>3, LaneBetween DEF Between
  <2> QED
    BY <1>0, <1>1, <1>2, <1>3, <2>1, OthersFit, TakingParts DEF TakingTypes
<1>4. ASSUME NEW k \in Listings, v2[k].rail = "owed", k \in v7, v12' = v12,
             v2' = [v2 EXCEPT ![k].rail = "done"], v9' = [Taking!Idle EXCEPT !.at = "idle"]
      PROVE  Taking!IInv'
  <2>1. /\ v9' \in Taking!Place /\ Taking!LaneKeepsRow' /\ \A l : Taking!TryUnderWay(l)' = 0
    BY <1>4, LaneBetween DEF Between
  <2> DEFINE r == [v2[k] EXCEPT !.rail = "done"]
  <2>2. /\ r \in Taking!Entry /\ r.status = v2[k].status /\ r.rail = "done"
        /\ r.tries = v2[k].tries
    BY <1>0 DEF TakingTypes, Taking!Entry
  <2>3. v2' = [v2 EXCEPT ![k] = r]
    BY <1>4
  <2> HIDE DEF r
  <2>4. /\ v2' \in [Listings -> Taking!Entry] /\ v2'[k] = r
        /\ \A l \in Listings \ {k} : v2'[l] = v2[l]
    BY <1>0, <2>2, <2>3, RowWritten
  <2>5. RowFits(k)'
    <3>1. v12'[k] <= v2'[k].tries + Taking!TryUnderWay(k)' + v13'
      BY <1>0, <1>1, <1>2, <1>4, <2>1, <2>2, <2>4 DEF RowFits
    <3>2. v2[k].status = "adopted" /\ v5[k] > 0
      BY <1>0, <1>4 DEF RowFits
    <3> QED
      BY <1>1, <1>4, <2>2, <2>4, <3>1, <3>2 DEF RowFits
  <2>6. \A l \in Listings \ {k} : RowFits(l)'
    BY <1>0, <1>1, <1>2, <1>4, <2>1, <2>4, OthersFit
  <2> QED
    BY <1>0, <1>1, <1>4, <2>1, <2>4, <2>5, <2>6, TakingParts DEF TakingTypes
<1>5. ASSUME NEW k \in Listings, v2[k].rail = "owed", v9' = Taking!For("queued", k),
             v12' = [v12 EXCEPT ![k] = v12[k] + 1], v2' = v2
      PROVE  Taking!IInv'
  <2>1. v9' \in Taking!Place /\ v9'.at = "queued" /\ v9'.listing = k
    BY <1>5 DEF Taking!For, Taking!Place
  <2>2. Taking!LaneKeepsRow'
    BY <1>5, <2>1 DEF Taking!LaneKeepsRow, Taking!Working
  <2>3. /\ v12' \in [Listings -> Nat] /\ v12'[k] = v12[k] + 1
        /\ \A l \in Listings \ {k} : v12'[l] = v12[l]
    BY <1>0, <1>5 DEF TakingTypes
  <2>4. RowFits(k)'
    <3>1. Taking!TryUnderWay(k)' = 1
      BY <2>1 DEF Taking!TryUnderWay
    <3>2. v12[k] \in Nat /\ v2[k].tries \in Nat /\ v13 \in Nat
      BY <1>0, EntryFields DEF TakingTypes
    <3>3. v12'[k] <= v2'[k].tries + Taking!TryUnderWay(k)' + v13'
      BY <1>0, <1>1, <1>2, <1>5, <2>3, <3>1, <3>2 DEF RowFits
    <3> QED
      BY <1>0, <1>1, <1>5, <3>3 DEF RowFits
  <2>5. \A l \in Listings \ {k} : RowFits(l)'
    BY <1>0, <1>1, <1>2, <1>5, <2>3, UnderWay, OthersFit
  <2> QED
    BY <1>0, <1>1, <1>5, <2>1, <2>2, <2>3, <2>4, <2>5, TakingParts DEF TakingTypes
<1> QED
  BY <1>3, <1>4, <1>5 DEF Taking!Enqueue, Taking!Goto

\* ... and set_rail_publish_queued gives it to the row.
LEMMA TakingQueued ==
  ASSUME Taking!IInv, Taking!Queued
  PROVE  Taking!IInv'
<1>0. TakingTypes /\ Taking!LaneKeepsRow /\ \A l \in Listings : RowFits(l)
  BY TakingParts
<1>1. PICK k \in Listings : k = v9.listing /\ v9.at = "queued" /\ v2[k].rail = "owed"
  BY <1>0 DEF Taking!Queued, Taking!LaneKeepsRow
<1>2. /\ v2' = [v2 EXCEPT ![k].rail = "queued", ![k].tries = v2[k].tries + 1]
      /\ v9' = [Taking!Idle EXCEPT !.at = "idle"]
      /\ UNCHANGED <<v3, v4, v5, v6, v7, v12, v13>>
  BY <1>1 DEF Taking!Queued, Taking!Goto, Taking!Lane
<1>3. /\ v9' \in Taking!Place /\ Taking!LaneKeepsRow' /\ \A l : Taking!TryUnderWay(l)' = 0
  BY <1>2, LaneBetween DEF Between
<1>4. /\ \A l \in Listings \ {k} : Taking!TryUnderWay(l) = 0
      /\ Taking!TryUnderWay(k) = 1
  BY <1>1 DEF Taking!TryUnderWay
<1>5. /\ v2[k].status = "adopted" /\ v2[k].tries \in 0..RailMax /\ v2[k].tries < RailMax
      /\ RailMax \in Nat /\ v2[k] \in Taking!Entry /\ v5[k] > 0
  BY <1>0, <1>1, EntryFields DEF RowFits, TakingTypes
<1> DEFINE n == v2[k].tries + 1
           r == [v2[k] EXCEPT !.rail = "queued", !.tries = n]
<1>6. n \in 0..RailMax /\ n > 0
  BY <1>5
<1>7. v2' = [v2 EXCEPT ![k] = r]
  BY <1>2
<1> HIDE DEF n
<1>8. r \in Taking!Entry /\ r.status = "adopted" /\ r.rail = "queued" /\ r.tries = n
  BY <1>5, <1>6 DEF Taking!Entry
<1> HIDE DEF r
<1>9. /\ v2' \in [Listings -> Taking!Entry] /\ v2'[k] = r
      /\ \A l \in Listings \ {k} : v2'[l] = v2[l]
  BY <1>0, <1>7, <1>8, RowWritten
<1>10. RowFits(k)'
  <2>1. v12[k] <= v2[k].tries + 1 + v13
    BY <1>0, <1>4 DEF RowFits
  <2>2. v12'[k] <= v2'[k].tries + Taking!TryUnderWay(k)' + v13'
    <3>1. v12[k] \in Nat /\ v13 \in Nat
      BY <1>0 DEF TakingTypes
    <3> QED
      BY <1>2, <1>3, <1>5, <1>8, <1>9, <2>1, <3>1 DEF n
  <2> QED
    BY <1>2, <1>5, <1>6, <1>8, <1>9, <2>2 DEF RowFits
<1>11. \A l \in Listings \ {k} : RowFits(l)'
  BY <1>0, <1>2, <1>3, <1>4, <1>9, OthersFit
<1> QED
  BY <1>0, <1>2, <1>3, <1>9, <1>10, <1>11, TakingParts DEF TakingTypes

\* An item of the agent's own; a crash, which may lose one try.
LEMMA TakingAround ==
  ASSUME Taking!IInv, Taking!Crash \/ \E l \in Listings : Taking!OwnItem(l)
  PROVE  Taking!IInv'
<1>0. TakingTypes /\ Taking!LaneKeepsRow /\ \A l \in Listings : RowFits(l)
  BY TakingParts
<1>1. CASE Taking!Crash
  <2>1. /\ UNCHANGED <<v2, v3, v4, v5, v6, v7, v12>> /\ v13' = v13 + 1
        /\ v9' = Taking!Idle
    BY <1>1 DEF Taking!Crash
  <2>2. Taking!Idle = [Taking!Idle EXCEPT !.at = "idle"]
    BY DEF Taking!Idle
  <2>3. /\ v9' \in Taking!Place /\ Taking!LaneKeepsRow' /\ \A l : Taking!TryUnderWay(l)' = 0
    BY <2>1, <2>2, LaneBetween DEF Between
  <2>4. ASSUME NEW l \in Listings
        PROVE  RowFits(l)'
    <3>1. v13 \in Nat /\ v5[l] \in Nat
      BY <1>0 DEF TakingTypes
    <3>2. Taking!TryUnderWay(l)' + v13' >= Taking!TryUnderWay(l) + v13
      BY <2>1, <2>3, <3>1, UnderWay
    <3> QED
      BY <1>0, <2>1, <3>1, <3>2, RowLeft
  <2> QED
    BY <1>0, <2>1, <2>3, <2>4, TakingParts DEF TakingTypes
<1>2. ASSUME NEW k \in Listings, Taking!OwnItem(k)
      PROVE  Taking!IInv'
  <2>1. /\ UNCHANGED <<v2, v3, v4, v6, v7, v9, v12, v13>> /\ v5[k] = 0
        /\ v5' = [v5 EXCEPT ![k] = 1]
    BY <1>2 DEF Taking!OwnItem, Taking!counts
  <2>2. v5' \in [Listings -> Nat] /\ \A l \in Listings : v5'[l] >= v5[l]
    BY <1>0, <2>1 DEF TakingTypes
  <2>3. \A l : Taking!TryUnderWay(l)' = Taking!TryUnderWay(l) /\ Taking!TryUnderWay(l) \in 0..1
    BY <2>1, UnderWay
  <2>4. \A l \in Listings : RowFits(l)'
    BY <1>0, <2>1, <2>2, <2>3, RowLeft DEF TakingTypes
  <2>5. Taking!LaneKeepsRow'
    BY <1>0, <2>1, <2>2 DEF Taking!LaneKeepsRow, Taking!Working, TakingTypes
  <2> QED
    BY <1>0, <2>1, <2>2, <2>4, <2>5, TakingParts DEF TakingTypes
<1> QED
  BY <1>1, <1>2

LEMMA TakingStep ==
  ASSUME Taking!IInv,
         Taking!Next \/ UNCHANGED <<v1, v2, v3, v4, v5, v6, v7, v8, v9, v10, v11, v12, v13, v14>>
  PROVE  Taking!IInv'
<1>1. CASE UNCHANGED <<v1, v2, v3, v4, v5, v6, v7, v8, v9, v10, v11, v12, v13, v14>>
  <2>0. TakingTypes /\ Taking!LaneKeepsRow /\ \A l \in Listings : RowFits(l)
    BY TakingParts
  <2>1. \A l : Taking!TryUnderWay(l)' = Taking!TryUnderWay(l) /\ Taking!TryUnderWay(l) \in 0..1
    BY <1>1, UnderWay
  <2>2. \A l \in Listings : RowFits(l)'
    BY <1>1, <2>0, <2>1, OthersFit
  <2> QED
    BY <1>1, <2>0, <2>2, TakingParts DEF TakingTypes, Taking!LaneKeepsRow, Taking!Working
<1> QED
  BY <1>1, TakingLooks, TakingTick, TakingRecord, TakingDecide, TakingAgain, TakingReads,
     TakingAdopts, TakingSettles, TakingEnqueues, TakingQueued, TakingAround DEF Taking!Next

LEMMA TakingKeeps ==
  ASSUME Taking!IInv
  PROVE  Taking!ItemHasRow /\ Taking!OwedIsRemembered /\ Taking!RailTriesBounded
<1>0. TakingTypes /\ Taking!LaneKeepsRow /\ \A l \in Listings : RowFits(l)
  BY TakingParts
<1>1. ASSUME NEW l \in Listings
      PROVE  v12[l] <= RailMax + v13
  <2>1. v2[l] \in Taking!Entry /\ v13 \in Nat /\ v12[l] \in Nat
    BY <1>0 DEF TakingTypes
  <2>2. v2[l].tries \in 0..RailMax /\ RailMax \in Nat
    BY <2>1, EntryFields
  <2>3. v12[l] <= v2[l].tries + Taking!TryUnderWay(l) + v13
    BY <1>0 DEF RowFits
  <2>4. Taking!TryUnderWay(l) = 1 => v2[l].tries < RailMax
    BY <1>0 DEF Taking!TryUnderWay, Taking!LaneKeepsRow, RowFits
  <2> QED
    BY <2>1, <2>2, <2>3, <2>4, UnderWay
<1> QED
  BY <1>1 DEF Taking!IInv, Taking!RailTriesBounded

-----------------------------------------------------------------------------
(* Settings: v1 value, v2 change, v3 region, v4 actor.                       *)

Value == SUBSET (Markets \cup {"on"})
Numbers == 1..Changes
Ledger == /\ v2 \in [Numbers -> Config!Row] /\ v1 \in [SettingKeys -> Value]
          /\ \A i \in Numbers : v2[i].status # "none" => v2[i].key \in SettingKeys
Callers == /\ v4 \in [Pair -> Config!Call]
           /\ \A a \in Pair : v4[a].via # "none" => v4[a].key \in SettingKeys

LEMMA ConfigParts ==
  /\ Config!IInv <=> /\ Ledger /\ Callers
                     /\ Config!StampsAreInOrder /\ Config!OnePending /\ Config!SellerDecides
  /\ Config!IInv' <=> /\ Ledger' /\ Callers'
                      /\ Config!StampsAreInOrder' /\ Config!OnePending' /\ Config!SellerDecides'
  BY DEF Config!IInv, Ledger, Callers, Value, Numbers

LEMMA ConfigCardinality == \A S : Config!Cardinality(S) = Cardinality(S)
  BY Zenon DEF Config!Cardinality, Cardinality

LEMMA RowFields ==
  ASSUME NEW r \in Config!Row
  PROVE  /\ r.value \in Value /\ r.prior \in Value /\ r.stale \in BOOLEAN /\ r.at \in Nat
         /\ r.key \in SettingKeys \cup {"none"}
         /\ r.status \in Config!Statuses
  BY DEF Config!Row, Value

\* The number the next change takes.
LEMMA NewIsFree ==
  ASSUME Config!Free # {}
  PROVE  Config!New \in Config!Free /\ Config!New \in Numbers /\ v2[Config!New].status = "none"
<1>1. Config!Free \in SUBSET Nat
  BY RecordsAssumption DEF Config!SettingsAssumption, Config!Free
<1>2. \E i \in Config!Free : \A j \in Config!Free : i <= j
  <2> DEFINE S == Config!Free
  <2>1. S \subseteq Nat /\ S # {}
    BY <1>1
  <2> HIDE DEF S
  <2>2. \E i \in S : \A j \in S : i <= j
    BY <2>1, LeastOf, Zenon
  <2> QED
    BY <2>2 DEF S
<1>3. Config!New \in Config!Free
  BY <1>2, Zenon DEF Config!New
<1> QED
  BY <1>3 DEF Config!Free, Numbers

\* The place of the next change in the order of those that applied.
LEMMA StampsAreFew ==
  /\ IsFiniteSet(Config!Stamped) /\ Cardinality(Config!Stamped) \in Nat
  /\ Config!Tick = Cardinality(Config!Stamped) + 1 /\ Config!Tick \in Nat \ {0}
<1>1. Config!Stamped \subseteq Numbers
  BY DEF Config!Stamped, Numbers
<1>2. IsFiniteSet(Numbers)
  <2>1. 1 \in Int /\ Changes \in Int
    BY RecordsAssumption DEF Config!SettingsAssumption
  <2> QED
    BY <2>1, FS_Interval, Zenon DEF Numbers
<1>3. IsFiniteSet(Config!Stamped) /\ Cardinality(Config!Stamped) \in Nat
  BY <1>1, <1>2, FS_Subset, FS_CardinalityType
<1>4. Config!Tick = 1 + Cardinality(Config!Stamped)
  BY ConfigCardinality, Zenon DEF Config!Tick, Config!Stamped
<1> QED
  BY <1>3, <1>4

LEMMA StampsAre ==
  /\ Config!StampsAreInOrder <=> \A i \in Numbers :
       /\ v2[i].at \in 0..Cardinality(Config!Stamped) /\ (v2[i].at > 0 <=> v2[i].status = "applied")
  /\ Config!StampsAreInOrder' <=> \A i \in Numbers :
       /\ v2'[i].at \in 0..Cardinality(Config!Stamped')
       /\ (v2'[i].at > 0 <=> v2'[i].status = "applied")
  BY ConfigCardinality DEF Config!StampsAreInOrder, Numbers

\* A step after which the same changes have applied.
LEMMA NothingApplies ==
  ASSUME Config!IInv, v1' = v1,
         \A i \in Numbers : /\ v2'[i].at = v2[i].at
                            /\ v2'[i].status = "applied" <=> v2[i].status = "applied"
                            /\ v2[i].status = "applied" => v2'[i] = v2[i]
  PROVE  Config!StampsAreInOrder' /\ Config!SellerDecides'
<1>1. Config!StampsAreInOrder /\ Config!SellerDecides
  BY ConfigParts
<1>2. Config!Stamped' = Config!Stamped
  BY DEF Config!Stamped, Numbers
<1>3. \A k \in SettingKeys : Config!Of(k, "applied")' = Config!Of(k, "applied")
  BY DEF Config!Of, Numbers
<1>4. \A k \in SettingKeys : \A i \in Config!Of(k, "applied") : v2'[i] = v2[i]
  BY DEF Config!Of, Numbers
<1>5. Config!SellerDecides'
  <2> SUFFICES ASSUME NEW k \in SettingKeys
               PROVE  LET applied == Config!Of(k, "applied")' IN
                      /\ applied = {} => v1'[k] = {}
                      /\ \A i \in applied :
                           /\ (\A j \in applied : v2'[j].at <= v2'[i].at) => v1'[k] = v2'[i].value
                           /\ k \in Config!RequiresApproval => v2'[i].via # "auto"
    BY DEF Config!SellerDecides, Config!RequiresApproval
  <2> DEFINE applied == Config!Of(k, "applied")
  <2>1. /\ applied = {} => v1[k] = {}
        /\ \A i \in applied :
             /\ (\A j \in applied : v2[j].at <= v2[i].at) => v1[k] = v2[i].value
             /\ k \in Config!RequiresApproval => v2[i].via # "auto"
    BY <1>1 DEF Config!SellerDecides
  <2>2. Config!Of(k, "applied")' = applied /\ \A i \in applied : v2'[i] = v2[i]
    BY <1>3, <1>4
  <2> HIDE DEF applied
  <2> QED
    BY <2>1, <2>2
<1> QED
  BY <1>1, <1>2, <1>5, StampsAre

\* A step at which change i applies, the last of its key.
LEMMA OneApplies ==
  ASSUME Config!IInv, NEW i \in Numbers, v2[i].status # "applied",
         v2'[i].status = "applied", v2'[i].at = Config!Tick,
         v2'[i].key \in SettingKeys, v1' = [v1 EXCEPT ![v2'[i].key] = v2'[i].value],
         v2'[i].key \in Config!RequiresApproval => v2'[i].via # "auto",
         \A j \in Numbers \ {i} : /\ v2'[j].at = v2[j].at
                                  /\ v2'[j].status = "applied" <=> v2[j].status = "applied"
                                  /\ v2[j].status = "applied" => v2'[j] = v2[j]
  PROVE  Config!StampsAreInOrder' /\ Config!SellerDecides'
<1>1. Config!StampsAreInOrder /\ Config!SellerDecides /\ Ledger
  BY ConfigParts
<1>2. /\ \A j \in Numbers : /\ v2[j].at \in 0..Cardinality(Config!Stamped)
                            /\ (v2[j].at > 0 <=> v2[j].status = "applied")
      /\ Cardinality(Config!Stamped) \in Nat /\ IsFiniteSet(Config!Stamped)
      /\ v2'[i].at = Cardinality(Config!Stamped) + 1
  BY <1>1, StampsAre, StampsAreFew
<1>3. Config!Stamped' = Config!Stamped \cup {i} /\ i \notin Config!Stamped
  BY <1>2 DEF Config!Stamped, Numbers
<1>4. Cardinality(Config!Stamped') = Cardinality(Config!Stamped) + 1
  BY <1>2, <1>3, FS_AddElement
<1>5. Config!StampsAreInOrder'
  <2>1. \A j \in Numbers : /\ v2'[j].at \in 0..(Cardinality(Config!Stamped) + 1)
                           /\ (v2'[j].at > 0 <=> v2'[j].status = "applied")
    BY <1>2
  <2> QED
    BY <1>4, <2>1, StampsAre
<1>6. ASSUME NEW k \in SettingKeys
      PROVE  LET applied == Config!Of(k, "applied")' IN
                      /\ applied = {} => v1'[k] = {}
                      /\ \A j \in applied :
                           /\ (\A h \in applied : v2'[h].at <= v2'[j].at) => v1'[k] = v2'[j].value
                           /\ k \in Config!RequiresApproval => v2'[j].via # "auto"
  <2> DEFINE applied == Config!Of(k, "applied")
             now == Config!Of(k, "applied")'
  <2>1. /\ applied = {} => v1[k] = {}
        /\ \A j \in applied :
             /\ (\A h \in applied : v2[h].at <= v2[j].at) => v1[k] = v2[j].value
             /\ k \in Config!RequiresApproval => v2[j].via # "auto"
    BY <1>1 DEF Config!SellerDecides
  <2>2. /\ i \notin applied /\ applied \subseteq Numbers
        /\ \A j \in applied : v2'[j] = v2[j]
        /\ \A j \in Numbers \ {i} : j \in now <=> j \in applied
        /\ now \subseteq Numbers /\ (i \in now <=> v2'[i].key = k)
    BY DEF Config!Of, Numbers
  <2> HIDE DEF applied, now
  <2>3. CASE v2'[i].key = k
    <3>1. v1'[k] = v2'[i].value /\ i \in now
      BY <1>1, <2>2, <2>3 DEF Ledger
    <3>2. \A j \in now \ {i} : ~(v2'[i].at <= v2'[j].at)
      BY <1>2, <2>2
    <3>3. k \in Config!RequiresApproval => \A j \in now : v2'[j].via # "auto"
      BY <2>1, <2>2, <2>3
    <3> QED
      BY <3>1, <3>2, <3>3 DEF now
  <2>4. CASE v2'[i].key # k
    <3>1. now = applied
      <4>1. \A j \in now : j \in Numbers \ {i}
        BY <2>2, <2>4, Zenon
      <4>2. \A j \in applied : j \in Numbers \ {i}
        BY <2>2, Zenon
      <4>3. \A j : j \in now <=> j \in applied
        BY <2>2, <4>1, <4>2, Zenon
      <4> QED
        BY <4>3, Zenon
    <3>2. v1'[k] = v1[k]
      BY <1>1, <2>4 DEF Ledger
    <3> QED
      BY <2>1, <2>2, <3>1, <3>2 DEF now
  <2> QED
    BY <2>3, <2>4
<1>7. Config!SellerDecides'
  BY <1>6 DEF Config!SellerDecides, Config!RequiresApproval
<1> QED
  BY <1>5, <1>7

\* No step but a proposal's makes a change pending.
LEMMA PendingKept ==
  ASSUME Config!OnePending,
         \A i \in Numbers : v2'[i].status = "pending" =>
                              v2[i].status = "pending" /\ v2'[i].key = v2[i].key
  PROVE  Config!OnePending'
  BY DEF Config!OnePending, Numbers

\* _supersede_pending_in_txn
LEMMA SupersededRows ==
  ASSUME Ledger, NEW k
  PROVE  \A j \in Numbers :
           LET s == Config!Superseded(k)[j]
           IN  /\ s \in Config!Row /\ s.at = v2[j].at /\ s.key = v2[j].key
               /\ v2[j].status # "pending" => s = v2[j]
               /\ v2[j].status = "pending" => s.status \in {"pending", "superseded"}
               /\ s.status = "pending" => v2[j].key # k
<1> SUFFICES ASSUME NEW j \in Numbers
             PROVE  LET s == Config!Superseded(k)[j]
                    IN  /\ s \in Config!Row /\ s.at = v2[j].at /\ s.key = v2[j].key
                        /\ v2[j].status # "pending" => s = v2[j]
                        /\ v2[j].status = "pending" => s.status \in {"pending", "superseded"}
                        /\ s.status = "pending" => v2[j].key # k
  OBVIOUS
<1> DEFINE gone == [v2[j] EXCEPT !.status = "superseded"]
<1>1. v2[j] \in Config!Row
  BY DEF Ledger
<1>2. gone \in Config!Row /\ gone.at = v2[j].at /\ gone.key = v2[j].key /\ gone.status = "superseded"
  BY <1>1 DEF Config!Row, Config!Statuses
<1>3. Config!Superseded(k)[j] =
        IF v2[j].key = k /\ v2[j].status = "pending" THEN gone ELSE v2[j]
  BY DEF Config!Superseded, Config!Of, Numbers
<1> HIDE DEF gone
<1> QED
  BY <1>1, <1>2, <1>3

\* What DecidedOnce comes to.
Final == \A i \in Numbers : v2[i].status \notin {"none", "pending"} => v2'[i] = v2[i]

\* One change is decided without being applied: expired, cancelled, or grown old.
LEMMA OneDecided ==
  ASSUME Config!IInv, NEW i \in Numbers, v2[i].status = "pending", NEW r \in Config!Row,
         v2' = [v2 EXCEPT ![i] = r], r.key = v2[i].key, r.at = v2[i].at,
         r.status \in {"pending", "expired", "cancelled"}, UNCHANGED <<v1, v4>>
  PROVE  Config!IInv' /\ Final
<1>1. Ledger /\ Callers /\ Config!OnePending
  BY ConfigParts
<1>2. /\ v2' \in [Numbers -> Config!Row] /\ v2'[i] = r
      /\ \A j \in Numbers \ {i} : v2'[j] = v2[j]
  BY <1>1 DEF Ledger
<1>3. Ledger' /\ Callers'
  BY <1>1, <1>2 DEF Ledger, Callers
<1>4. Config!StampsAreInOrder' /\ Config!SellerDecides'
  BY <1>2, NothingApplies
<1>5. Config!OnePending'
  BY <1>1, <1>2, PendingKept
<1> QED
  BY <1>2, <1>3, <1>4, <1>5, ConfigParts DEF Final

\* One change applies that was pending.
LEMMA OneApproved ==
  ASSUME Config!IInv, NEW i \in Numbers, v2[i].status = "pending", NEW r \in Config!Row,
         v2' = [v2 EXCEPT ![i] = r], r.key = v2[i].key, r.at = Config!Tick,
         r.status = "applied", r.via # "auto", v1' = [v1 EXCEPT ![r.key] = r.value], v4' = v4
  PROVE  Config!IInv' /\ Final
<1>1. Ledger /\ Callers /\ Config!OnePending
  BY ConfigParts
<1>2. /\ v2' \in [Numbers -> Config!Row] /\ v2'[i] = r /\ r.key \in SettingKeys
      /\ \A j \in Numbers \ {i} : v2'[j] = v2[j]
  BY <1>1 DEF Ledger
<1>3. Ledger' /\ Callers'
  BY <1>1, <1>2, RowFields DEF Ledger, Callers
<1>4. Config!StampsAreInOrder' /\ Config!SellerDecides'
  BY <1>2, OneApplies
<1>5. Config!OnePending'
  BY <1>1, <1>2, PendingKept
<1> QED
  BY <1>2, <1>3, <1>4, <1>5, ConfigParts DEF Final

\* settings.decide: a tap, a typed token, the terminal.
LEMMA ConfigDecides ==
  ASSUME Config!IInv, NEW i \in Numbers, NEW via \in {"button", "token", "cli"},
         Config!Decide(i, via)
  PROVE  Config!IInv' /\ Final
<1>1. Ledger /\ Callers /\ Config!OnePending
  BY ConfigParts
<1>2. v2[i] \in Config!Row /\ v4' = v4
  BY <1>1 DEF Ledger, Config!Decide, Config!Approve, Config!Cancel, Config!Undo
<1>3. ASSUME NEW st \in {"expired", "cancelled"}, NEW by \in {"none", "button", "token", "cli"},
             v2[i].status = "pending", v2' = [v2 EXCEPT ![i] = Config!Decided(i, st, by)], v1' = v1
      PROVE  Config!IInv' /\ Final
  <2> DEFINE r == Config!Decided(i, st, by)
  <2>1. /\ r \in Config!Row /\ r.key = v2[i].key /\ r.at = v2[i].at /\ r.status = st
    BY <1>2 DEF Config!Decided, Config!Row, Config!Statuses
  <2> HIDE DEF r
  <2> QED
    BY <1>2, <1>3, <2>1, OneDecided DEF r
<1>4. CASE Config!Cancel(i, via)
  <2>1. PICK st \in {"expired", "cancelled"}, by \in {"none", "button", "token", "cli"} :
          v2' = [v2 EXCEPT ![i] = Config!Decided(i, st, by)]
    BY <1>4 DEF Config!Cancel
  <2> QED
    BY <1>3, <1>4, <2>1 DEF Config!Cancel
<1>5. CASE Config!Approve(i, via)
  <2>1. CASE v2[i].stale
    BY <1>3, <1>5, <2>1 DEF Config!Approve
  <2>2. CASE ~v2[i].stale
    <3> DEFINE r == [Config!Decided(i, "applied", via) EXCEPT !.at = Config!Tick]
    <3>1. /\ v2[i].status = "pending" /\ v2' = [v2 EXCEPT ![i] = r]
          /\ v1' = [v1 EXCEPT ![v2[i].key] = v2[i].value]
      BY <1>5, <2>2 DEF Config!Approve
    <3>2. /\ r \in Config!Row /\ r.key = v2[i].key /\ r.at = Config!Tick /\ r.status = "applied"
          /\ r.via = via /\ r.value = v2[i].value
      BY <1>2, StampsAreFew DEF Config!Decided, Config!Row, Config!Statuses
    <3> HIDE DEF r
    <3> QED
      BY <1>2, <3>1, <3>2, OneApproved
  <2> QED
    BY <2>1, <2>2
<1>6. CASE Config!Undo(i, via)
  <2> DEFINE k == v2[i].key
             new == Config!New
             r == [status |-> "applied", key |-> k, value |-> v2[i].prior, prior |-> v2[i].value,
                   via |-> via, stale |-> FALSE, at |-> Config!Tick]
  <2>1. /\ v2[i].status = "applied" /\ Config!Free # {} /\ v2' = [v2 EXCEPT ![new] = r]
        /\ v1' = [v1 EXCEPT ![k] = v2[i].prior]
    BY <1>6 DEF Config!Undo
  <2>2. new \in Numbers /\ v2[new].status = "none"
    BY <2>1, NewIsFree
  <2>3. k \in SettingKeys
    BY <1>1, <2>1 DEF Ledger
  <2>4. /\ r \in Config!Row /\ r.key = k /\ r.status = "applied" /\ r.at = Config!Tick
        /\ r.value = v2[i].prior /\ r.via # "auto" /\ r.value \in Value
    BY <1>2, <2>3, RowFields, StampsAreFew DEF Config!Row, Config!Statuses, Value
  <2>5. PICK n \in Numbers : n = new
    BY <2>2
  <2> HIDE DEF r, k, new
  <2>6. /\ v2' \in [Numbers -> Config!Row] /\ v2'[n] = r /\ v2[n].status = "none"
        /\ \A j \in Numbers \ {n} : v2'[j] = v2[j]
    BY <1>1, <2>1, <2>2, <2>4, <2>5 DEF Ledger
  <2>7. Ledger' /\ Callers'
    BY <1>1, <1>2, <2>1, <2>3, <2>4, <2>6 DEF Ledger, Callers
  <2>8. Config!StampsAreInOrder' /\ Config!SellerDecides'
    BY <2>1, <2>3, <2>4, <2>6, OneApplies
  <2>9. Config!OnePending'
    BY <1>1, <2>4, <2>6, PendingKept
  <2> QED
    BY <2>4, <2>6, <2>7, <2>8, <2>9, ConfigParts DEF Final
<1> QED
  BY <1>4, <1>5, <1>6 DEF Config!Decide

\* The sweep, the clock, the region.
LEMMA ConfigAround ==
  ASSUME Config!IInv,
         \/ Config!Expire
         \/ \E i \in Numbers : Config!GrowStale(i)
         \/ \E g \in Regions : Config!SetRegion(g)
  PROVE  Config!IInv' /\ Final
<1>1. Ledger /\ Callers /\ Config!OnePending
  BY ConfigParts
<1>2. CASE Config!Expire
  <2> DEFINE late(j) == v2[j].status = "pending" /\ v2[j].stale
             gone(j) == Config!Decided(j, "expired", "none")
  <2>1. /\ v2' = [j \in Numbers |-> IF late(j) THEN gone(j) ELSE v2[j]]
        /\ v1' = v1 /\ v4' = v4
    BY <1>2 DEF Config!Expire, Numbers
  <2>2. \A j \in Numbers : /\ gone(j) \in Config!Row /\ gone(j).key = v2[j].key
                           /\ gone(j).at = v2[j].at /\ gone(j).status = "expired"
    BY <1>1 DEF Ledger, Config!Decided, Config!Row, Config!Statuses
  <2>3. \A j \in Numbers : late(j) => v2[j].status = "pending"
    OBVIOUS
  <2> HIDE DEF late, gone
  <2>4. /\ v2' \in [Numbers -> Config!Row]
        /\ \A j \in Numbers : /\ late(j) => v2'[j] = gone(j)
                              /\ ~late(j) => v2'[j] = v2[j]
    BY <1>1, <2>1, <2>2 DEF Ledger
  <2>5. Ledger' /\ Callers'
    BY <1>1, <2>1, <2>2, <2>3, <2>4 DEF Ledger, Callers
  <2>6. Config!StampsAreInOrder' /\ Config!SellerDecides'
    BY <2>1, <2>2, <2>3, <2>4, NothingApplies
  <2>7. Config!OnePending'
    BY <1>1, <2>2, <2>4, PendingKept
  <2> QED
    BY <2>3, <2>4, <2>5, <2>6, <2>7, ConfigParts DEF Final
<1>3. ASSUME NEW i \in Numbers, Config!GrowStale(i)
      PROVE  Config!IInv' /\ Final
  <2> DEFINE r == [v2[i] EXCEPT !.stale = TRUE]
  <2>1. /\ r \in Config!Row /\ r.key = v2[i].key /\ r.at = v2[i].at /\ r.status = v2[i].status
    BY <1>1 DEF Ledger, Config!Row
  <2>2. v2[i].status = "pending" /\ v2' = [v2 EXCEPT ![i] = r] /\ UNCHANGED <<v1, v4>>
    BY <1>3 DEF Config!GrowStale
  <2> HIDE DEF r
  <2> QED
    BY <2>1, <2>2, OneDecided
<1>4. CASE \E g \in Regions : Config!SetRegion(g)
  <2>1. UNCHANGED <<v1, v2, v4>>
    BY <1>4 DEF Config!SetRegion
  <2>2. Config!StampsAreInOrder' /\ Config!SellerDecides'
    BY <2>1, NothingApplies
  <2>3. Config!OnePending'
    BY <1>1, <2>1, PendingKept
  <2> QED
    BY <1>1, <2>1, <2>2, <2>3, ConfigParts DEF Final, Ledger, Callers
<1> QED
  BY <1>2, <1>3, <1>4

LEMMA ConfigInit ==
  ASSUME Config!Init
  PROVE  Config!IInv
<1>1. /\ v1 = [k \in SettingKeys |-> {}] /\ v2 = [i \in Numbers |-> Config!Blank]
      /\ v4 = [a \in Pair |-> Config!Idle]
  BY DEF Config!Init, Numbers
<1>2. Config!Blank \in Config!Row /\ Config!Blank.status = "none" /\ Config!Blank.at = 0
  BY DEF Config!Blank, Config!Row, Config!Statuses
<1>3. Config!Idle \in Config!Call /\ Config!Idle.via = "none"
  BY DEF Config!Idle, Config!Call
<1> HIDE DEF Config!Blank, Config!Idle
<1>4. Ledger /\ Callers
  BY <1>1, <1>2, <1>3 DEF Ledger, Callers, Value
<1>5. Config!Stamped = {}
  BY <1>1, <1>2 DEF Config!Stamped, Numbers
<1>6. Cardinality(Config!Stamped) = 0
  BY <1>5, FS_EmptySet
<1>7. Config!StampsAreInOrder
  BY <1>1, <1>2, <1>6, StampsAre
<1>8. Config!OnePending
  BY <1>1, <1>2 DEF Config!OnePending, Numbers
<1>9. Config!SellerDecides
  <2>1. \A k \in SettingKeys : Config!Of(k, "applied") = {} /\ v1[k] = {}
    BY <1>1, <1>2 DEF Config!Of, Numbers
  <2> QED
    BY <2>1 DEF Config!SellerDecides
<1> QED
  BY <1>4, <1>7, <1>8, <1>9, ConfigParts

\* A call reads the setting it may change.
LEMMA ConfigBegin ==
  ASSUME Config!IInv, NEW a \in Pair, NEW k \in SettingKeys, NEW v \in Value,
         NEW via \in {"tool", "button", "cli"}, Config!Begin(a, k, v, via)
  PROVE  Config!IInv' /\ Final
<1> DEFINE call == [via |-> via, key |-> k, value |-> v, prior |-> v1[k]]
<1>1. Ledger /\ Callers /\ Config!OnePending
  BY ConfigParts
<1>2. v4' = [v4 EXCEPT ![a] = call] /\ UNCHANGED <<v1, v2>>
  BY DEF Config!Begin
<1>3. call \in Config!Call /\ call.key = k
  BY <1>1 DEF Config!Call, Ledger, Value
<1> HIDE DEF call
<1>4. Ledger' /\ Callers'
  BY <1>1, <1>2, <1>3 DEF Ledger, Callers
<1>5. Config!StampsAreInOrder' /\ Config!SellerDecides'
  BY <1>2, NothingApplies
<1>6. Config!OnePending'
  BY <1>1, <1>2, PendingKept
<1> QED
  BY <1>2, <1>4, <1>5, <1>6, ConfigParts DEF Final

\* The write of a call: a proposal is held, another change applies at once.
LEMMA ConfigWrites ==
  ASSUME Config!IInv, NEW a \in Pair, Config!Hold(a) \/ Config!ApplyNow(a)
  PROVE  Config!IInv' /\ Final
<1> DEFINE call == v4[a]
           k == call.key
           new == Config!New
           row == Config!Superseded(k)
<1>1. Ledger /\ Callers /\ Config!OnePending
  BY ConfigParts
<1>2. call \in Config!Call /\ call.via # "none" /\ Config!Free # {} /\ v4' = [v4 EXCEPT ![a] = Config!Idle]
  BY <1>1 DEF Callers, Config!Hold, Config!ApplyNow
<1>3. k \in SettingKeys /\ call.value \in Value /\ call.prior \in Value
      /\ call.via \in {"tool", "button", "cli"}
  BY <1>1, <1>2 DEF Callers, Config!Call, Value
<1>4. Callers'
  <2>1. Config!Idle \in Config!Call /\ Config!Idle.via = "none"
    BY DEF Config!Idle, Config!Call
  <2> HIDE DEF Config!Idle
  <2> QED
    BY <1>1, <1>2, <2>1 DEF Callers
<1>5. PICK n \in Numbers : n = new /\ v2[n].status = "none"
  BY <1>2, NewIsFree
<1>6. \A j \in Numbers :
        LET s == row[j]
        IN  /\ s \in Config!Row /\ s.at = v2[j].at /\ s.key = v2[j].key
            /\ v2[j].status # "pending" => s = v2[j]
            /\ v2[j].status = "pending" => s.status \in {"pending", "superseded"}
            /\ s.status = "pending" => v2[j].key # k
  BY <1>1, SupersededRows
<1>7. row \in [Numbers -> Config!Row]
  <2>1. row = [j \in Numbers |-> row[j]]
    BY DEF Config!Superseded, Numbers
  <2> QED
    BY <1>6, <2>1
<1> HIDE DEF row, new
<1>8. ASSUME NEW r \in Config!Row, v2' = [row EXCEPT ![n] = r], r.key = k
      PROVE  /\ v2' \in [Numbers -> Config!Row] /\ v2'[n] = r
             /\ \A j \in Numbers \ {n} : v2'[j] = row[j]
             /\ v1' \in [SettingKeys -> Value] => Ledger'
             /\ Config!OnePending' /\ Final
  <2>1. /\ v2' \in [Numbers -> Config!Row] /\ v2'[n] = r
        /\ \A j \in Numbers \ {n} : v2'[j] = row[j]
    BY <1>7, <1>8
  <2>2. v1' \in [SettingKeys -> Value] => Ledger'
    <3>1. \A j \in Numbers : row[j].status # "none" => row[j].key \in SettingKeys
      BY <1>1, <1>6 DEF Ledger
    <3> QED
      BY <1>3, <1>8, <2>1, <3>1 DEF Ledger
  <2>3. \A j \in Numbers \ {n} : v2'[j].status = "pending" =>
           v2'[j].key # k /\ v2[j].status = "pending" /\ v2'[j].key = v2[j].key
    BY <1>6, <2>1
  <2>4. Config!OnePending'
    <3>1. SUFFICES ASSUME NEW i \in Numbers, NEW j \in Numbers, v2'[i].status = "pending",
                          v2'[j].status = "pending", v2'[i].key = v2'[j].key
                   PROVE  i = j
      BY DEF Config!OnePending, Numbers
    <3>2. CASE i = n
      BY <1>8, <2>1, <2>3, <3>1, <3>2
    <3>3. CASE j = n
      BY <1>8, <2>1, <2>3, <3>1, <3>3
    <3>4. CASE i # n /\ j # n
      BY <1>1, <2>3, <3>1, <3>4 DEF Config!OnePending, Numbers
    <3> QED
      BY <3>2, <3>3, <3>4
  <2>5. Final
    BY <1>5, <1>6, <2>1 DEF Final
  <2> QED
    BY <2>1, <2>2, <2>4, <2>5
<1>9. CASE Config!Hold(a)
  <2> DEFINE r == [Config!Blank EXCEPT !.status = "pending", !.key = k, !.value = call.value,
                                       !.prior = call.prior]
  <2>1. v2' = [row EXCEPT ![n] = r] /\ v1' = v1
    BY <1>5, <1>9 DEF Config!Hold, row, new
  <2>2. r \in Config!Row /\ r.key = k /\ r.status = "pending" /\ r.at = 0
    BY <1>3 DEF Config!Blank, Config!Row, Config!Statuses, Value
  <2> HIDE DEF r
  <2>3. /\ v2'[n] = r /\ \A j \in Numbers \ {n} : v2'[j] = row[j]
        /\ Ledger' /\ Config!OnePending' /\ Final
    BY <1>1, <1>8, <2>1, <2>2 DEF Ledger
  <2>4. v2[n].at = 0
    BY <1>1, <1>5, ConfigParts, StampsAre DEF Ledger, Config!Row
  <2>5. Config!StampsAreInOrder' /\ Config!SellerDecides'
    <3>1. \A i \in Numbers : /\ v2'[i].at = v2[i].at
                             /\ v2'[i].status = "applied" <=> v2[i].status = "applied"
                             /\ v2[i].status = "applied" => v2'[i] = v2[i]
      BY <1>5, <1>6, <2>2, <2>3, <2>4
    <3> QED
      BY <2>1, <3>1, NothingApplies
  <2> QED
    BY <1>4, <2>3, <2>5, ConfigParts
<1>10. CASE Config!ApplyNow(a)
  <2> DEFINE by == IF call.via = "tool" THEN "auto" ELSE call.via
             r == [status |-> "applied", key |-> k, value |-> call.value, prior |-> call.prior,
                   via |-> by, stale |-> FALSE, at |-> Config!Tick]
  <2>1. /\ v2' = [row EXCEPT ![n] = r] /\ v1' = [v1 EXCEPT ![k] = call.value] /\ ~Config!Held(call)
    BY <1>5, <1>10 DEF Config!ApplyNow, row, new
  <2>2. by \in {"auto", "button", "cli"}
    BY <1>3
  <2>3. k \in Config!RequiresApproval => by # "auto"
    BY <1>3, <2>1 DEF Config!Held
  <2>4. /\ r \in Config!Row /\ r.key = k /\ r.status = "applied" /\ r.at = Config!Tick
        /\ r.value = call.value /\ r.via = by
    BY <1>3, <2>2, StampsAreFew DEF Config!Row, Config!Statuses, Value
  <2> HIDE DEF r, by
  <2>5. v1' \in [SettingKeys -> Value]
    BY <1>1, <1>3, <2>1 DEF Ledger
  <2>6. /\ v2'[n] = r /\ \A j \in Numbers \ {n} : v2'[j] = row[j]
        /\ Ledger' /\ Config!OnePending' /\ Final
    BY <1>8, <2>1, <2>4, <2>5
  <2>7. Config!StampsAreInOrder' /\ Config!SellerDecides'
    <3>1. \A j \in Numbers \ {n} : /\ v2'[j].at = v2[j].at
                                   /\ v2'[j].status = "applied" <=> v2[j].status = "applied"
                                   /\ v2[j].status = "applied" => v2'[j] = v2[j]
      BY <1>6, <2>6
    <3> QED
      BY <1>3, <1>5, <2>1, <2>3, <2>4, <2>6, <3>1, OneApplies
  <2> QED
    BY <1>4, <2>6, <2>7, ConfigParts
<1> QED
  BY <1>9, <1>10

LEMMA ConfigStep ==
  ASSUME Config!IInv, [Config!Next]_<<v1, v2, v3, v4>>
  PROVE  Config!IInv' /\ Config!DecidedOnce
<1>1. Config!IInv' /\ Final
  <2>1. CASE UNCHANGED <<v1, v2, v3, v4>>
    <3>1. Ledger /\ Callers /\ Config!OnePending
      BY ConfigParts
    <3>2. Config!StampsAreInOrder' /\ Config!SellerDecides'
      BY <2>1, NothingApplies
    <3>3. Config!OnePending'
      BY <2>1, <3>1, PendingKept
    <3> QED
      BY <2>1, <3>1, <3>2, <3>3, ConfigParts DEF Final, Ledger, Callers
  <2>2. CASE Config!Next
    <3>1. ASSUME NEW a \in Pair, Config!Hold(a) \/ Config!ApplyNow(a)
          PROVE  Config!IInv' /\ Final
      BY <3>1, ConfigWrites
    <3>2. ASSUME NEW a \in Pair, Config!WatchToggle(a)
          PROVE  Config!IInv' /\ Final
      <4>1. PICK v \in {{}, {"on"}} : Config!Begin(a, "watch_browser", v, "button")
        BY <3>2 DEF Config!WatchToggle
      <4>2. "watch_browser" \in SettingKeys /\ v \in Value
        BY <3>2, <4>1 DEF Config!WatchToggle, Value
      <4> QED
        BY <4>1, <4>2, ConfigBegin
    <3>3. ASSUME NEW a \in Pair, NEW k \in SettingKeys, NEW v \in Config!Parsed(k),
                 Config!Begin(a, k, v, "tool") \/ Config!SetOutright(a, k, v)
          PROVE  Config!IInv' /\ Final
      <4>1. v \in Value
        BY DEF Config!Parsed, Value
      <4> QED
        BY <3>3, <4>1, ConfigBegin DEF Config!SetOutright
    <3>4. ASSUME NEW i \in Numbers, Config!ChatDoor(i) \/ Config!Terminal(i)
          PROVE  Config!IInv' /\ Final
      BY <3>4, ConfigDecides DEF Config!ChatDoor, Config!Terminal
    <3>5. ASSUME \/ Config!Expire
                 \/ \E i \in Numbers : Config!GrowStale(i)
                 \/ \E g \in Regions : Config!SetRegion(g)
          PROVE  Config!IInv' /\ Final
      BY <3>5, ConfigAround
    <3> QED
      BY <2>2, <3>1, <3>2, <3>3, <3>4, <3>5, Zenon DEF Config!Next, Numbers
  <2> QED
    BY <2>1, <2>2
<1>2. Final => Config!DecidedOnce
  BY DEF Final, Config!DecidedOnce, Numbers
<1> QED
  BY <1>1, <1>2

LEMMA ConfigKeeps ==
  ASSUME Config!IInv
  PROVE  Config!SellerDecides /\ Config!OneProposal /\ Config!EnabledServes
<1>1. Config!SellerDecides /\ Config!OnePending
  BY ConfigParts
<1>2. Config!OneProposal
  <2> SUFFICES ASSUME NEW k \in SettingKeys
               PROVE  Cardinality(Config!Of(k, "pending")) <= 1
    BY ConfigCardinality DEF Config!OneProposal
  <2> DEFINE waiting == Config!Of(k, "pending")
  <2>1. \A i, j \in waiting : i = j
    BY <1>1 DEF Config!OnePending, Config!Of
  <2> HIDE DEF waiting
  <2>2. Cardinality(waiting) <= 1
    BY <2>1, AtMostOne
  <2> QED
    BY <2>2 DEF waiting
<1>3. Config!EnabledServes
  BY DEF Config!EnabledServes, Config!Enabled, Config!Publishable
<1> QED
  BY <1>1, <1>2, <1>3

-----------------------------------------------------------------------------
(* ChannelBind: v1 token, v2 row, v3 arms, v4 call, v5 lock, v6 handles,     *)
(* v7 lanes, v8 thread, v9 mail, v10 sent, v11 crashes.                      *)

Calls == 1..MaxArms
Ears == 1..MaxThreads
Doors == v1 \in [Binding!Providers -> Binding!Bots \cup {Binding!NoBot}]
         /\ \A p \in Binding!Providers : v1[p] \in Binding!Speaks(p)
Called == /\ v3 \in Seq(Binding!Bots) /\ v4 \in [Calls -> Binding!Calling]
          /\ \A c \in Calls : v4[c].pc \in {"arm", "register", "swap"} => v4[c].bot \in Binding!Bots
Heard == v8 \in [Ears -> Binding!Thread] /\ \A t \in Ears : Binding!Fits(v8[t])
Post == v9 \in [Telegrams -> SUBSET Binding!Message] /\ v10 \in 0..MaxSent
Held == v6 \in [Binding!Providers -> 0..MaxThreads]

LEMMA BindingParts ==
  /\ Binding!IInv <=> /\ v2 \in Binding!Row /\ Doors /\ Called /\ Heard /\ Post /\ Held
                      /\ Binding!NewestNonce /\ Binding!LapsedIsOld /\ Binding!OneRuns /\ Binding!LockHolds
  /\ Binding!IInv' <=> /\ v2' \in Binding!Row /\ Doors' /\ Called' /\ Heard' /\ Post' /\ Held'
                       /\ Binding!NewestNonce' /\ Binding!LapsedIsOld' /\ Binding!OneRuns' /\ Binding!LockHolds'
  BY DEF Binding!IInv, Doors, Called, Heard, Post, Held, Calls, Ears

LEMMA RowIs ==
  ASSUME NEW r \in Binding!Row
  PROVE  /\ r.chat \in Nat /\ r.nonce \in Nat /\ r.live \in BOOLEAN /\ r.offset \in Nat
         /\ r.adapter \in Binding!Providers
  BY DEF Binding!Row

LEMMA ThreadIs ==
  ASSUME NEW r \in Binding!Thread
  PROVE  /\ r.ch \in Binding!Reading /\ r.ch.nonce \in Nat /\ r.ch.chat \in Nat /\ r.ch.live \in BOOLEAN
         /\ r.stop \in BOOLEAN /\ r.upto \in Nat /\ r.ch.offset \in Nat
         /\ r.bot \in Binding!Bots \cup {Binding!NoBot}
  BY DEF Binding!Thread, Binding!Reading

\* What a step of a thread does to the row: a nonce goes only by binding.
RowMoves == /\ v2' \in Binding!Row /\ v2'.bot = v2.bot
            /\ v2'.live => v2.live /\ v2'.nonce = v2.nonce
            /\ v2'.nonce \in {0, v2.nonce} /\ v2'.chat \in {v2.chat, v2.nonce}
            /\ v2.live => v2'.nonce = v2.nonce \/ v2'.chat = v2.nonce

\* The shapes of those steps.
LEMMA RowSteps ==
  ASSUME v2 \in Binding!Row,
         \/ v2' = v2
         \/ v2' = [v2 EXCEPT !.welcomed = TRUE]
         \/ v2' = [v2 EXCEPT !.menu = TRUE]
         \/ v2' = [v2 EXCEPT !.live = FALSE]
         \/ \E n \in Nat : v2' = [v2 EXCEPT !.offset = n]
         \/ v2' = [v2 EXCEPT !.nonce = 0, !.live = FALSE] /\ ~v2.live
         \/ \E n \in Nat : v2' = [v2 EXCEPT !.chat = v2.nonce, !.nonce = 0, !.live = FALSE, !.offset = n]
  PROVE  RowMoves
<1> USE DEF Binding!Row, RowMoves
<1>1. CASE v2' = v2
  BY <1>1
<1>2. CASE v2' = [v2 EXCEPT !.welcomed = TRUE]
  BY <1>2
<1>3. CASE v2' = [v2 EXCEPT !.menu = TRUE]
  BY <1>3
<1>4. CASE v2' = [v2 EXCEPT !.live = FALSE]
  BY <1>4
<1>5. ASSUME NEW n \in Nat, v2' = [v2 EXCEPT !.offset = n]
      PROVE  RowMoves
  BY <1>5
<1>6. CASE v2' = [v2 EXCEPT !.nonce = 0, !.live = FALSE] /\ ~v2.live
  BY <1>6
<1>7. ASSUME NEW n \in Nat,
             v2' = [v2 EXCEPT !.chat = v2.nonce, !.nonce = 0, !.live = FALSE, !.offset = n]
      PROVE  RowMoves
  BY <1>7
<1> QED
  BY <1>1, <1>2, <1>3, <1>4, <1>5, <1>6, <1>7

\* The steps that leave the arms, the calls and the manager alone.
LEMMA RoomKept ==
  ASSUME Binding!IInv, UNCHANGED <<v1, v3, v4, v5, v6, v7>>, Heard', Post', RowMoves,
         \A u \in Ears : \/ v8'[u] = v8[u]
                         \/ /\ v8'[u].ch.nonce \in 0..Len(v3)
                            /\ v8'[u].pc = "retire" =>
                                 v8'[u].ch.nonce # 0 /\ (v2.live => v2.nonce # v8'[u].ch.nonce)
  PROVE  Binding!IInv' /\ Binding!NonceIsHonoured
<1>1. /\ v2 \in Binding!Row /\ Doors /\ Called /\ Heard /\ Held /\ Binding!NewestNonce
      /\ Binding!LapsedIsOld /\ Binding!OneRuns /\ Binding!LockHolds
  BY BindingParts
<1>2. Doors' /\ Called' /\ Held'
  BY <1>1 DEF Doors, Called, Held
<1>3. Binding!NewestNonce'
  BY <1>1 DEF Binding!NewestNonce, RowMoves
<1>4. Binding!LapsedIsOld'
  <2> SUFFICES ASSUME NEW u \in Ears
               PROVE  /\ v8'[u].ch.nonce \in 0..Len(v3)
                      /\ v8'[u].pc = "retire" =>
                           v8'[u].ch.nonce # 0 /\ (v2'.live => v2'.nonce # v8'[u].ch.nonce)
    BY DEF Binding!LapsedIsOld, Ears
  <2>1. /\ v8'[u].ch.nonce \in 0..Len(v3)
        /\ v8'[u].pc = "retire" => v8'[u].ch.nonce # 0 /\ (v2.live => v2.nonce # v8'[u].ch.nonce)
    BY <1>1 DEF Binding!LapsedIsOld, Ears
  <2> QED
    BY <2>1 DEF RowMoves
<1>5. Binding!OneRuns' /\ Binding!LockHolds'
  BY <1>1 DEF Binding!OneRuns, Binding!LockHolds, Binding!Running
<1>6. Binding!NonceIsHonoured
  BY DEF Binding!NonceIsHonoured, RowMoves
<1> QED
  BY <1>2, <1>3, <1>4, <1>5, <1>6, BindingParts DEF RowMoves

\* One thread moves on.
LEMMA EarMoves ==
  ASSUME Binding!IInv, NEW t \in Ears, NEW r \in Binding!Thread, v8' = [v8 EXCEPT ![t] = r],
         Binding!Fits(r), r.ch.nonce \in 0..Len(v3),
         r.pc = "retire" => r.ch.nonce # 0 /\ (v2.live => v2.nonce # r.ch.nonce),
         UNCHANGED <<v1, v3, v4, v5, v6, v7>>, Post', RowMoves
  PROVE  Binding!IInv' /\ Binding!NonceIsHonoured
<1>1. Heard
  BY BindingParts
<1>2. v8' \in [Ears -> Binding!Thread] /\ v8'[t] = r /\ \A u \in Ears \ {t} : v8'[u] = v8[u]
  BY <1>1 DEF Heard
<1>3. Heard'
  BY <1>1, <1>2 DEF Heard, Binding!Fits
<1> QED
  BY <1>2, <1>3, RoomKept

\* A thread goes somewhere else in its loop, keeping what it read.
LEMMA EarGoes ==
  ASSUME Binding!IInv, NEW t \in Ears,
         NEW pc \in {"token", "greet", "complete", "menu", "ack", "ingest", "connect", "session"},
         Binding!Move(t, pc), v8[t].pc \notin {"none", "dead"},
         UNCHANGED <<v1, v3, v4, v5, v6, v7>>, Post', RowMoves
  PROVE  Binding!IInv' /\ Binding!NonceIsHonoured
<1> DEFINE r == [v8[t] EXCEPT !.pc = pc]
<1>1. Heard /\ Binding!LapsedIsOld
  BY BindingParts
<1>2. v8[t] \in Binding!Thread /\ Binding!Fits(v8[t]) /\ v8[t].ch.nonce \in 0..Len(v3)
  BY <1>1 DEF Heard, Binding!LapsedIsOld, Ears
<1>3. r \in Binding!Thread /\ r.ch = v8[t].ch /\ r.pc = pc /\ r.prov = v8[t].prov
  BY <1>2 DEF Binding!Thread
<1>4. v8' = [v8 EXCEPT ![t] = r]
  BY DEF Binding!Move
<1> HIDE DEF r
<1>5. Binding!Fits(r)
  BY <1>2, <1>3 DEF Binding!Fits
<1> QED
  BY <1>2, <1>3, <1>4, <1>5, EarMoves

\* The steps of a receive thread that only go on in its loop.
LEMMA EarLoops ==
  ASSUME Binding!IInv, NEW t \in Ears,
         \/ Binding!Retire(t) \/ Binding!Greet(t) \/ Binding!PollFails(t) \/ Binding!Bind(t)
         \/ Binding!EnsureMenu(t) \/ Binding!Ack(t) \/ Binding!Connect(t) \/ Binding!BindDirect(t)
         \/ Binding!Close(t)
  PROVE  Binding!IInv' /\ Binding!NonceIsHonoured
<1> DEFINE Moved == \E pc \in {"token", "greet", "complete", "menu", "ack", "ingest", "connect", "session"} :
                      Binding!Move(t, pc)
<1>1. v2 \in Binding!Row /\ Heard /\ Post /\ Binding!LapsedIsOld
  BY BindingParts
<1>2. v8[t] \in Binding!Thread /\ v8[t].upto \in Nat
  BY <1>1, ThreadIs DEF Heard
<1>3. UNCHANGED <<v1, v3, v4, v5, v6, v7, v9, v10>> /\ v8[t].pc \notin {"none", "dead"}
  BY DEF Binding!desk, Binding!manager, Binding!Retire, Binding!Greet, Binding!PollFails, Binding!Bind,
         Binding!EnsureMenu, Binding!Ack, Binding!Connect, Binding!BindDirect, Binding!Close
<1>4. Post'
  BY <1>1, <1>3 DEF Post
<1>5. ASSUME NEW pc, NEW n \in Nat, Binding!Complete(t, pc, n)
      PROVE  RowMoves
  <2>1. v2' = [v2 EXCEPT !.chat = v2.nonce, !.nonce = 0, !.live = FALSE, !.offset = n]
    BY <1>5 DEF Binding!Complete
  <2> QED
    BY <1>1, <2>1, RowSteps
<1>6. Moved /\ RowMoves
  <2>1. CASE Binding!Retire(t)
    <3>1. v2.nonce = v8[t].ch.nonce => ~v2.live
      BY <1>1, <2>1 DEF Binding!Retire, Binding!LapsedIsOld, Ears
    <3>2. RowMoves
      <4>1. CASE v2.nonce = v8[t].ch.nonce
        <5>1. v2' = [v2 EXCEPT !.nonce = 0, !.live = FALSE]
          BY <2>1, <4>1 DEF Binding!Retire
        <5> QED
          BY <1>1, <3>1, <4>1, <5>1, RowSteps
      <4>2. CASE v2.nonce # v8[t].ch.nonce
        <5>1. v2' = v2
          BY <2>1, <4>2 DEF Binding!Retire
        <5> QED
          BY <1>1, <5>1, RowSteps
      <4> QED
        BY <4>1, <4>2
    <3>3. Moved
      BY <2>1 DEF Binding!Retire
    <3> QED
      BY <3>2, <3>3
  <2>2. CASE Binding!Greet(t)
    <3>1. v2' = [v2 EXCEPT !.welcomed = TRUE]
      BY <2>2 DEF Binding!Greet
    <3>2. RowMoves
      BY <1>1, <3>1, RowSteps
    <3>3. Moved
      BY <2>2 DEF Binding!Greet
    <3> QED
      BY <3>2, <3>3
  <2>3. CASE Binding!PollFails(t) \/ Binding!Connect(t) \/ Binding!Close(t)
    <3>1. v2' = v2 /\ Moved
      BY <2>3 DEF Binding!PollFails, Binding!Connect, Binding!Close
    <3> QED
      BY <1>1, <3>1, RowSteps
  <2>4. CASE Binding!Bind(t)
    <3>1. CASE Binding!Complete(t, "menu", v8[t].upto)
      BY <1>2, <1>5, <3>1 DEF Binding!Complete
    <3>2. CASE ~Binding!Complete(t, "menu", v8[t].upto)
      <4>1. v2' = v2 /\ Moved
        BY <2>4, <3>2 DEF Binding!Bind
      <4> QED
        BY <1>1, <4>1, RowSteps
    <3> QED
      BY <3>1, <3>2
  <2>5. CASE Binding!BindDirect(t)
    <3> DEFINE then == IF v2.welcomed THEN "session" ELSE "greet"
    <3>1. CASE Binding!Complete(t, then, 0)
      BY <1>5, <3>1 DEF Binding!Complete
    <3>2. CASE ~Binding!Complete(t, then, 0)
      <4>1. v2' = v2 /\ Moved
        BY <2>5, <3>2 DEF Binding!BindDirect
      <4> QED
        BY <1>1, <4>1, RowSteps
    <3> QED
      BY <3>1, <3>2
  <2>6. CASE Binding!EnsureMenu(t)
    <3>1. Moved
      BY <2>6 DEF Binding!EnsureMenu
    <3>2. v2' = [v2 EXCEPT !.menu = TRUE] \/ v2' = v2
      BY <2>6 DEF Binding!EnsureMenu
    <3>3. RowMoves
      BY <1>1, <3>2, RowSteps
    <3> QED
      BY <3>1, <3>3
  <2>7. CASE Binding!Ack(t)
    <3>1. Moved
      BY <2>7 DEF Binding!Ack
    <3>2. v2' = [v2 EXCEPT !.offset = v8[t].upto] \/ v2' = v2
      BY <2>7 DEF Binding!Ack
    <3>3. RowMoves
      BY <1>1, <1>2, <3>2, RowSteps
    <3> QED
      BY <3>1, <3>3
  <2> QED
    BY <2>1, <2>2, <2>3, <2>4, <2>5, <2>6, <2>7
<1> QED
  BY <1>3, <1>4, <1>6, EarGoes

\* The newest and the oldest of some updates.
LEMMA UpdatesAreNumbered ==
  ASSUME NEW ms \in SUBSET Binding!Message, ms # {}
  PROVE  Binding!Last(ms) \in 1..MaxSent /\ Binding!First(ms) \in 1..MaxSent
<1> DEFINE ids == {m.id : m \in ms}
<1>1. ids \subseteq 1..MaxSent /\ ids # {} /\ \A m \in ms : m.id \in ids
  BY DEF Binding!Message
<1>2. ids \subseteq Nat /\ IsFiniteSet(ids)
  <2>1. 1 \in Int /\ MaxSent \in Int
    BY RecordsAssumption DEF Binding!ChannelBindAssumption
  <2>2. IsFiniteSet(1..MaxSent)
    BY <2>1, FS_Interval, Zenon
  <2>3. IsFiniteSet(ids)
    <3> HIDE DEF ids
    <3> QED
      BY <1>1, <2>2, FS_Subset, Zenon
  <2>4. ids \subseteq Nat
    BY <1>1
  <2> QED
    BY <2>3, <2>4
<1>3. \E n \in ids : \A k \in ids : k <= n
  <2> HIDE DEF ids
  <2> QED
    BY <1>1, <1>2, BestOfFinite, Zenon
<1>4. \E n \in ids : \A k \in ids : n <= k
  <2> HIDE DEF ids
  <2> QED
    BY <1>1, <1>2, LeastOf, Zenon
<1>5. \E n \in ids : \A m \in ms : n >= m.id
  BY <1>1, <1>2, <1>3
<1>6. \E n \in ids : \A m \in ms : n <= m.id
  BY <1>1, <1>4
<1>7. Binding!Last(ms) \in ids
  BY <1>5, Zenon DEF Binding!Last
<1>8. Binding!First(ms) \in ids
  BY <1>6, Zenon DEF Binding!First
<1> QED
  BY <1>1, <1>7, <1>8

\* The long poll returns.
LEMMA EarPolls ==
  ASSUME Binding!IInv, NEW t \in Ears, Binding!Poll(t)
  PROVE  Binding!IInv' /\ Binding!NonceIsHonoured
<1> DEFINE asked == Binding!Asked(t)
           starts == Binding!Starts(t)
           pc == IF asked = {} THEN "token"
                 ELSE IF v8[t].ch.chat # 0 THEN "ingest"
                 ELSE IF starts # {} /\ v2.live THEN "complete" ELSE "ack"
           upto == IF asked = {} THEN 0
                   ELSE IF v8[t].ch.chat = 0 /\ starts # {} THEN Binding!First(starts) + 1
                   ELSE Binding!Last(asked) + 1
           q == [v8[t] EXCEPT !.pc = pc]
           r == [q EXCEPT !.upto = upto]
<1>1. v2 \in Binding!Row /\ Heard /\ Post /\ Binding!LapsedIsOld
  BY BindingParts
<1>2. v8[t] \in Binding!Thread /\ Binding!Fits(v8[t]) /\ v8[t].ch.nonce \in 0..Len(v3)
  BY <1>1 DEF Heard, Binding!LapsedIsOld, Ears
<1>3. v8[t].pc = "poll" /\ v8[t].bot \in Telegrams
  BY <1>2 DEF Binding!Poll, Binding!Fits
<1>4. asked \in SUBSET Binding!Message /\ starts \in SUBSET Binding!Message
  BY <1>1, <1>3 DEF Post, Binding!Asked, Binding!Starts
<1>5. upto \in Nat
  BY <1>4, UpdatesAreNumbered
<1>6. pc \in {"token", "ingest", "complete", "ack"}
  OBVIOUS
<1>7. v8' = [v8 EXCEPT ![t] = r] /\ v9' = [v9 EXCEPT ![v8[t].bot] = asked]
  BY DEF Binding!Poll
<1>8. UNCHANGED <<v1, v3, v4, v5, v6, v7, v10>>
  BY DEF Binding!Poll, Binding!desk, Binding!manager
<1>9. v2' = [v2 EXCEPT !.menu = TRUE] \/ v2' = v2
  BY DEF Binding!Poll
<1> HIDE DEF asked, starts, pc, upto
<1>10. q \in Binding!Thread /\ q.ch = v8[t].ch /\ q.pc = pc /\ q.prov = v8[t].prov
  BY <1>2, <1>6 DEF Binding!Thread
<1> HIDE DEF q
<1>11. r \in Binding!Thread /\ r.ch = v8[t].ch /\ r.pc = pc /\ r.prov = v8[t].prov
  BY <1>5, <1>10 DEF Binding!Thread
<1> HIDE DEF r
<1>12. Binding!Fits(r)
  BY <1>2, <1>3, <1>6, <1>11 DEF Binding!Fits
<1>13. Post'
  BY <1>1, <1>3, <1>4, <1>7, <1>8 DEF Post
<1>14. RowMoves
  BY <1>1, <1>9, RowSteps
<1> QED
  BY <1>2, <1>6, <1>7, <1>8, <1>11, <1>12, <1>13, <1>14, EarMoves

\* The two reads a turn of the loop begins with.
LEMMA EarReads ==
  ASSUME Binding!IInv, NEW t \in Ears, Binding!ReadToken(t) \/ Binding!ReadRow(t)
  PROVE  Binding!IInv' /\ Binding!NonceIsHonoured
<1>1. v2 \in Binding!Row /\ Doors /\ Heard /\ Post /\ Binding!LapsedIsOld /\ Called
      /\ Binding!NewestNonce
  BY BindingParts
<1>2. v8[t] \in Binding!Thread /\ Binding!Fits(v8[t]) /\ v8[t].ch.nonce \in 0..Len(v3)
  BY <1>1 DEF Heard, Binding!LapsedIsOld, Ears
<1>3. UNCHANGED <<v1, v2, v3, v4, v5, v6, v7, v9, v10>>
  BY DEF Binding!ReadToken, Binding!ReadRow, Binding!desk, Binding!manager
<1>4. Post' /\ RowMoves
  BY <1>1, <1>3, RowSteps DEF Post
<1>5. CASE Binding!ReadToken(t)
  <2> DEFINE p == v8[t].prov
             q == [v8[t] EXCEPT !.pc = IF v8[t].stop THEN "dead" ELSE "row"]
             r == [q EXCEPT !.bot = v1[p]]
  <2>1. v8[t].pc = "token" /\ v8' = [v8 EXCEPT ![t] = r]
    BY <1>5 DEF Binding!ReadToken
  <2>2. p \in Binding!Providers
    BY <1>2, <2>1 DEF Binding!Fits
  <2>3. v1[p] \in Binding!Bots \cup {Binding!NoBot} /\ v1[p] \in Binding!Speaks(p)
    BY <1>1, <2>2 DEF Doors
  <2>4. q \in Binding!Thread /\ q.ch = v8[t].ch /\ q.prov = p /\ q.pc \in {"dead", "row"}
    BY <1>2 DEF Binding!Thread
  <2> HIDE DEF q, p
  <2>5. /\ r \in Binding!Thread /\ r.ch = v8[t].ch /\ r.prov = p /\ r.pc \in {"dead", "row"}
        /\ r.bot = v1[p]
    BY <2>3, <2>4 DEF Binding!Thread
  <2> HIDE DEF r
  <2>6. Binding!Fits(r)
    BY <2>2, <2>3, <2>5 DEF Binding!Fits
  <2> QED
    BY <1>2, <1>3, <1>4, <2>1, <2>5, <2>6, EarMoves
<1>6. CASE Binding!ReadRow(t)
  <2> DEFINE th == v8[t]
             off == th.bot = Binding!NoBot \/ (v2.chat = 0 /\ ~v2.live)
             latched == <<th.bot, v2.nonce>> = th.refused
             pc == IF ~off /\ ~latched
                   THEN IF th.prov = "telegram" THEN "poll" ELSE "connect"
                   ELSE IF v2.nonce # 0 /\ v2.chat = 0 /\ ~v2.live THEN "retire" ELSE "token"
             ch == [chat |-> v2.chat, nonce |-> v2.nonce, live |-> v2.live, offset |-> v2.offset]
             q == [th EXCEPT !.ch = ch]
             r == [q EXCEPT !.pc = pc]
  <2>1. th.pc = "row" /\ v8' = [v8 EXCEPT ![t] = r]
    BY <1>6 DEF Binding!ReadRow
  <2>2. ch \in Binding!Reading /\ ch.nonce = v2.nonce /\ v2.nonce \in 0..Len(v3)
    <3>1. Len(v3) \in Nat
      BY <1>1 DEF Called
    <3> QED
      BY <1>1, <3>1, RowIs DEF Binding!Reading, Binding!NewestNonce
  <2>3. pc \in {"poll", "connect", "retire", "token"}
    OBVIOUS
  <2>4. pc = "retire" => v2.nonce # 0 /\ ~v2.live
    OBVIOUS
  <2>5. th.prov \in Binding!Providers /\ th.bot \in Binding!Speaks(th.prov)
    BY <1>2, <2>1 DEF Binding!Fits
  <2>6. pc = "poll" => th.bot \in Telegrams
    BY <2>5 DEF Binding!Speaks, Binding!ProviderOf
  <2> HIDE DEF ch, pc
  <2>7. q \in Binding!Thread /\ q.ch = ch /\ q.prov = th.prov /\ q.bot = th.bot
    BY <1>2, <2>2 DEF Binding!Thread
  <2> HIDE DEF q
  <2>8. r \in Binding!Thread /\ r.ch = ch /\ r.prov = th.prov /\ r.bot = th.bot /\ r.pc = pc
    BY <2>3, <2>7 DEF Binding!Thread
  <2> HIDE DEF r
  <2>9. Binding!Fits(r)
    BY <2>3, <2>5, <2>6, <2>8 DEF Binding!Fits
  <2>10. r.ch.nonce = v2.nonce
    BY <2>2, <2>8
  <2> QED
    BY <1>3, <1>4, <2>1, <2>2, <2>4, <2>8, <2>9, <2>10, EarMoves
<1> QED
  BY <1>5, <1>6

\* A refusal is remembered; a message is heard.
LEMMA EarHears ==
  ASSUME Binding!IInv, NEW t \in Ears,
         Binding!LatchOff(t) \/ \E n \in 0..Len(v3) : Binding!Hear(t, n)
  PROVE  Binding!IInv' /\ Binding!NonceIsHonoured
<1>1. v2 \in Binding!Row /\ Heard /\ Post /\ Binding!LapsedIsOld /\ Called
  BY BindingParts
<1>2. v8[t] \in Binding!Thread /\ Binding!Fits(v8[t]) /\ v8[t].ch.nonce \in 0..Len(v3)
  BY <1>1 DEF Heard, Binding!LapsedIsOld, Ears
<1>3. UNCHANGED <<v1, v2, v3, v4, v5, v6, v7, v9>>
  BY DEF Binding!LatchOff, Binding!Hear, Binding!desk, Binding!manager
<1>4. RowMoves
  BY <1>1, <1>3, RowSteps
<1>5. Post'
  <2>1. v10' = v10 \/ (v10' = v10 + 1 /\ v10 < MaxSent)
    <3>1. CASE Binding!LatchOff(t)
      BY <3>1 DEF Binding!LatchOff, Binding!desk, Binding!manager
    <3>2. ASSUME NEW n \in 0..Len(v3), Binding!Hear(t, n)
          PROVE  v10' = v10 + 1 /\ v10 < MaxSent
      BY <3>2 DEF Binding!Hear
    <3> QED
      BY <3>1, <3>2
  <2>2. MaxSent \in Nat
    BY RecordsAssumption DEF Binding!ChannelBindAssumption
  <2> QED
    BY <1>1, <1>3, <2>1, <2>2 DEF Post
<1>6. CASE Binding!LatchOff(t)
  <2> DEFINE mark == <<v8[t].bot, v2.nonce>>
             q == [v8[t] EXCEPT !.pc = "token"]
             r == [q EXCEPT !.refused = mark]
  <2>1. v8' = [v8 EXCEPT ![t] = r] /\ v8[t].pc \in {"connect", "session"}
    BY <1>6 DEF Binding!LatchOff
  <2>2. mark \in (Binding!Bots \cup {Binding!NoBot}) \X Nat
    BY <1>1, <1>2, RowIs, ThreadIs
  <2> HIDE DEF mark
  <2>3. q \in Binding!Thread /\ q.ch = v8[t].ch /\ q.pc = "token" /\ q.prov = v8[t].prov
    BY <1>2 DEF Binding!Thread
  <2> HIDE DEF q
  <2>4. r \in Binding!Thread /\ r.ch = v8[t].ch /\ r.pc = "token" /\ r.prov = v8[t].prov
    BY <2>2, <2>3 DEF Binding!Thread
  <2> HIDE DEF r
  <2>5. Binding!Fits(r)
    BY <1>2, <2>1, <2>4 DEF Binding!Fits
  <2> QED
    BY <1>2, <1>3, <1>4, <1>5, <2>1, <2>4, <2>5, EarMoves
<1>7. ASSUME NEW n \in 0..Len(v3), Binding!Hear(t, n)
      PROVE  Binding!IInv' /\ Binding!NonceIsHonoured
  <2> DEFINE ch == [v8[t].ch EXCEPT !.nonce = n]
             q == [v8[t] EXCEPT !.pc = "complete"]
             r == [q EXCEPT !.ch = ch]
  <2>1. v8[t].pc = "session"
    BY <1>7 DEF Binding!Hear
  <2>2. \/ v8' = [v8 EXCEPT ![t] = r]
        \/ v8' = [v8 EXCEPT ![t].pc = "token"]
        \/ v8' = v8
    <3> DEFINE hit == v2.chat = 0 /\ n # 0 /\ n = v2.nonce /\ v2.live
    <3>1. v8' = IF hit THEN [v8 EXCEPT ![t].pc = "complete", ![t].ch.nonce = n]
                ELSE IF v8[t].stop THEN [v8 EXCEPT ![t].pc = "token"] ELSE v8
      BY <1>7 DEF Binding!Hear
    <3>2. [v8 EXCEPT ![t].pc = "complete", ![t].ch.nonce = n] = [v8 EXCEPT ![t] = r]
      <4>1. v8 = [u \in Ears |-> v8[u]]
        BY <1>1 DEF Heard
      <4>2. [[v8[t] EXCEPT !.pc = "complete"] EXCEPT !.ch.nonce = n] = r
        BY <1>2 DEF Binding!Thread
      <4> QED
        BY <4>1, <4>2
    <3> HIDE DEF hit, r
    <3> QED
      BY <3>1, <3>2
  <2>3. n \in Nat
    BY <1>1 DEF Called
  <2>4. ch \in Binding!Reading /\ ch.nonce = n
    BY <1>2, <2>3, ThreadIs DEF Binding!Reading
  <2> HIDE DEF ch
  <2>5. q \in Binding!Thread /\ q.pc = "complete" /\ q.prov = v8[t].prov
    BY <1>2 DEF Binding!Thread
  <2> HIDE DEF q
  <2>6. r \in Binding!Thread /\ r.ch = ch /\ r.pc = "complete" /\ r.prov = v8[t].prov
    BY <2>4, <2>5 DEF Binding!Thread
  <2> HIDE DEF r
  <2>7. Binding!Fits(r) /\ r.ch.nonce \in 0..Len(v3)
    BY <1>2, <2>1, <2>4, <2>6 DEF Binding!Fits
  <2>8. CASE v8' = [v8 EXCEPT ![t] = r]
    BY <1>3, <1>4, <1>5, <2>6, <2>7, <2>8, EarMoves
  <2>9. CASE v8' = [v8 EXCEPT ![t].pc = "token"]
    BY <1>3, <1>4, <1>5, <2>1, <2>9, EarGoes DEF Binding!Move
  <2>10. CASE v8' = v8
    BY <1>1, <1>3, <1>4, <1>5, <2>10, RoomKept DEF Heard
  <2> QED
    BY <2>2, <2>8, <2>9, <2>10
<1> QED
  BY <1>6, <1>7

\* Messages, and time.
LEMMA BindingAround ==
  ASSUME Binding!IInv,
         Binding!Lapse \/ \E b \in Telegrams, n \in 0..Len(v3) : Binding!Write(b, n)
  PROVE  Binding!IInv' /\ Binding!NonceIsHonoured
<1>1. v2 \in Binding!Row /\ Heard /\ Post /\ Called
  BY BindingParts
<1>2. UNCHANGED <<v1, v3, v4, v5, v6, v7, v8>>
  BY DEF Binding!Lapse, Binding!Write, Binding!desk, Binding!manager
<1>3. Heard'
  BY <1>1, <1>2 DEF Heard
<1>4. v2' = v2 \/ v2' = [v2 EXCEPT !.live = FALSE]
  BY DEF Binding!Lapse, Binding!Write
<1>5. RowMoves
  BY <1>1, <1>4, RowSteps
<1>6. Post'
  <2>1. CASE Binding!Lapse
    BY <1>1, <2>1 DEF Post, Binding!Lapse
  <2>2. ASSUME NEW b \in Telegrams, NEW n \in 0..Len(v3), Binding!Write(b, n)
        PROVE  Post'
    <3> DEFINE m == [id |-> v10 + 1, nonce |-> n]
    <3>1. v10 < MaxSent /\ v10' = v10 + 1 /\ v9' = [v9 EXCEPT ![b] = v9[b] \cup {m}]
      BY <2>2 DEF Binding!Write
    <3>2. MaxSent \in Nat /\ Len(v3) \in Nat
      BY <1>1, RecordsAssumption DEF Binding!ChannelBindAssumption, Called
    <3>3. m \in Binding!Message
      BY <1>1, <3>1, <3>2 DEF Post, Binding!Message
    <3> HIDE DEF m
    <3> QED
      BY <1>1, <3>1, <3>2, <3>3 DEF Post
  <2> QED
    BY <2>1, <2>2
<1> QED
  BY <1>2, <1>3, <1>5, <1>6, RoomKept

\* A connect call takes a step: what it is afterwards.
LEMMA ArmingMoves ==
  ASSUME Called, NEW c \in Calls, NEW q \in Binding!Calling, v4' = [v4 EXCEPT ![c] = q], v3' = v3,
         q.pc \in {"arm", "register", "swap"} => q.bot \in Binding!Bots
  PROVE  Called'
  BY DEF Called

LEMMA OtherCalls ==
  ASSUME Called, NEW c \in Calls, NEW q, v4' = [v4 EXCEPT ![c] = q]
  PROVE  v4'[c] = q /\ \A d \in Calls \ {c} : v4'[d] = v4[d]
  BY DEF Called

\* The token is proved, and written.
LEMMA BindingProves ==
  ASSUME Binding!IInv, NEW c \in Calls, Binding!ConnectTelegram(c) \/ Binding!ConnectDiscord(c)
  PROVE  Binding!IInv' /\ Binding!NonceIsHonoured
<1>1. /\ v2 \in Binding!Row /\ Doors /\ Called /\ Heard /\ Post /\ Held /\ Binding!NewestNonce
      /\ Binding!LapsedIsOld /\ Binding!OneRuns /\ Binding!LockHolds
  BY BindingParts
<1>2. PICK b \in Binding!Bots : Binding!Prove(c, b)
  BY DEF Binding!ConnectTelegram, Binding!ConnectDiscord, Binding!Bots
<1> DEFINE q == [Binding!NoCall EXCEPT !.pc = "arm", !.bot = b]
           p == Binding!ProviderOf(b)
<1>3. /\ v4[c].pc = "none" /\ v4' = [v4 EXCEPT ![c] = q] /\ v1' = [v1 EXCEPT ![p] = b]
      /\ UNCHANGED <<v2, v3, v5, v6, v7, v8, v9, v10>>
  BY <1>2 DEF Binding!Prove, Binding!manager
<1>4. q \in Binding!Calling /\ q.pc = "arm" /\ q.bot = b
  BY DEF Binding!NoCall, Binding!Calling
<1>5. p \in Binding!Providers /\ b \in Binding!Speaks(p)
  BY DEF Binding!ProviderOf, Binding!Providers, Binding!Speaks
<1> HIDE DEF q, p
<1>6. v4'[c] = q /\ \A d \in Calls \ {c} : v4'[d] = v4[d]
  BY <1>1, <1>3, OtherCalls
<1>12. Called'
  BY <1>1, <1>3, <1>4, ArmingMoves
<1>7. Doors'
  BY <1>1, <1>3, <1>5 DEF Doors
<1>8. Binding!LockHolds'
  BY <1>1, <1>3, <1>4, <1>6 DEF Binding!LockHolds, Binding!Running, Calls
<1>9. Binding!NewestNonce' /\ Binding!LapsedIsOld' /\ Binding!OneRuns'
  BY <1>1, <1>3 DEF Binding!NewestNonce, Binding!LapsedIsOld, Binding!OneRuns, Binding!Running
<1>10. Heard' /\ Post' /\ Held'
  BY <1>1, <1>3 DEF Heard, Post, Held
<1>11. Binding!NonceIsHonoured
  BY <1>3 DEF Binding!NonceIsHonoured
<1> QED
  BY <1>1, <1>3, <1>7, <1>8, <1>9, <1>10, <1>11, <1>12, BindingParts

\* arm_bind
LEMMA BindingArms ==
  ASSUME Binding!IInv, NEW c \in Calls, Binding!Arm(c)
  PROVE  Binding!IInv' /\ Binding!NonceIsHonoured
<1>1. /\ v2 \in Binding!Row /\ Doors /\ Called /\ Heard /\ Post /\ Held /\ Binding!NewestNonce
      /\ Binding!LapsedIsOld /\ Binding!OneRuns /\ Binding!LockHolds
  BY BindingParts
<1> DEFINE b == v4[c].bot
           n == Len(v3)
           same == v2.bot = b /\ v2.adapter = Binding!ProviderOf(b)
           row == [adapter |-> Binding!ProviderOf(b), bot |-> b, chat |-> 0,
                   nonce |-> n + 1, live |-> TRUE, offset |-> 0,
                   welcomed |-> same /\ v2.welcomed, menu |-> same /\ v2.menu]
           q == [v4[c] EXCEPT !.pc = "register"]
<1>2. /\ v4[c].pc = "arm" /\ v3' = Append(v3, b) /\ v2' = row /\ v4' = [v4 EXCEPT ![c] = q]
      /\ UNCHANGED <<v1, v5, v6, v7, v8, v9, v10>>
  BY DEF Binding!Arm, Binding!manager
<1>3. v4[c] \in Binding!Calling /\ b \in Binding!Bots /\ n \in Nat
  BY <1>1, <1>2 DEF Called
<1>4. row \in Binding!Row /\ row.nonce = n + 1 /\ row.chat = 0 /\ row.bot = b /\ row.live = TRUE
  <2>1. Binding!ProviderOf(b) \in Binding!Providers
    BY DEF Binding!ProviderOf, Binding!Providers
  <2>2. (same /\ v2.welcomed) \in BOOLEAN /\ (same /\ v2.menu) \in BOOLEAN
    OBVIOUS
  <2> HIDE DEF b, n, same
  <2> QED
    BY <1>3, <2>1, <2>2 DEF Binding!Row
<1>5. q \in Binding!Calling /\ q.pc = "register" /\ q.bot = b
  BY <1>3 DEF Binding!Calling
<1> HIDE DEF q, row, b
<1>6. v3' \in Seq(Binding!Bots) /\ Len(v3') = n + 1 /\ v3'[n + 1] = b
  BY <1>1, <1>2, <1>3, AppendProperties DEF Called
<1> HIDE DEF n
<1>7. v4'[c] = q /\ \A d \in Calls \ {c} : v4'[d] = v4[d]
  BY <1>1, <1>2, OtherCalls
<1>13. Called'
  BY <1>1, <1>3, <1>5, <1>6, <1>7, <1>2 DEF Called
<1>8. Binding!LockHolds'
  BY <1>1, <1>2, <1>5, <1>7 DEF Binding!LockHolds, Binding!Running, Calls
<1>9. Binding!NewestNonce'
  BY <1>2, <1>3, <1>4, <1>6 DEF Binding!NewestNonce
<1>10. Binding!LapsedIsOld'
  <2> SUFFICES ASSUME NEW u \in Ears
               PROVE  /\ v8'[u].ch.nonce \in 0..Len(v3')
                      /\ v8'[u].pc = "retire" =>
                           v8'[u].ch.nonce # 0 /\ (v2'.live => v2'.nonce # v8'[u].ch.nonce)
    BY DEF Binding!LapsedIsOld, Ears
  <2>1. v8[u].ch.nonce \in 0..n /\ (v8[u].pc = "retire" => v8[u].ch.nonce # 0) /\ v8' = v8
    BY <1>1, <1>2 DEF Binding!LapsedIsOld, Ears, n
  <2> QED
    BY <1>2, <1>3, <1>4, <1>6, <2>1
<1>11. Heard' /\ Post' /\ Held' /\ Doors' /\ Binding!OneRuns'
  BY <1>1, <1>2 DEF Heard, Post, Held, Doors, Binding!OneRuns, Binding!Running
<1>12. Binding!NonceIsHonoured
  BY <1>3, <1>6 DEF Binding!NonceIsHonoured, n
<1> QED
  BY <1>2, <1>4, <1>7, <1>8, <1>9, <1>10, <1>11, <1>12, <1>13, BindingParts

\* The manager takes a call's registration, and lets it take one provider down.
LEMMA BindingRegisters ==
  ASSUME Binding!IInv, NEW c \in Calls,
         Binding!Register(c) \/ \E p \in Binding!Providers : Binding!Deregister(c, p)
  PROVE  Binding!IInv' /\ Binding!NonceIsHonoured
<1>1. /\ v2 \in Binding!Row /\ Doors /\ Called /\ Heard /\ Post /\ Held /\ Binding!NewestNonce
      /\ Binding!LapsedIsOld /\ Binding!OneRuns /\ Binding!LockHolds
  BY BindingParts
<1>2. v4[c] \in Binding!Calling
  BY <1>1 DEF Called
<1>3. UNCHANGED <<v1, v2, v3, v9, v10>>
  BY DEF Binding!Register, Binding!Deregister
<1>4. Doors' /\ Post' /\ Binding!NewestNonce' /\ Binding!NonceIsHonoured
  BY <1>1, <1>3 DEF Doors, Post, Binding!NewestNonce, Binding!NonceIsHonoured
<1>5. CASE Binding!Register(c)
  <2>1. v4[c].pc = "register" /\ v5 = 0 /\ UNCHANGED <<v6, v7, v8>>
    BY <1>5 DEF Binding!Register
  <2>2. v4[c].bot \in Binding!Bots
    BY <1>1, <2>1 DEF Called
  <2>3. Heard' /\ Held' /\ Binding!LapsedIsOld' /\ Binding!OneRuns'
    BY <1>1, <1>3, <2>1 DEF Heard, Held, Binding!LapsedIsOld, Binding!OneRuns, Binding!Running
  <2> DEFINE done == [v4[c] EXCEPT !.pc = "done"]
             half == [v4[c] EXCEPT !.pc = "swap"]
             swap == [half EXCEPT !.others = Binding!Running]
  <2>4. \/ v4' = [v4 EXCEPT ![c] = done] /\ v5' = 0
        \/ v4' = [v4 EXCEPT ![c] = swap] /\ v5' = c
    BY <1>5 DEF Binding!Register
  <2>5. done \in Binding!Calling /\ done.pc = "done"
    BY <1>2 DEF Binding!Calling
  <2>6. half \in Binding!Calling /\ half.pc = "swap" /\ half.bot = v4[c].bot
    BY <1>2 DEF Binding!Calling
  <2>7. Binding!Running \in SUBSET Binding!Providers /\ Binding!Running' = Binding!Running
    BY <2>1 DEF Binding!Running
  <2> HIDE DEF half, done, Binding!Running
  <2>8. swap \in Binding!Calling /\ swap.pc = "swap" /\ swap.bot = v4[c].bot /\ swap.others = Binding!Running
    BY <2>6, <2>7 DEF Binding!Calling
  <2> HIDE DEF swap
  <2>9. CASE v4' = [v4 EXCEPT ![c] = done] /\ v5' = 0
    <3>1. v4'[c] = done /\ \A d \in Calls \ {c} : v4'[d] = v4[d]
      BY <1>1, <2>9, OtherCalls
    <3>2. Called'
      BY <1>1, <1>3, <2>5, <2>9, ArmingMoves
    <3>3. Binding!LockHolds'
      BY <1>1, <2>1, <2>5, <2>7, <2>9, <3>1 DEF Binding!LockHolds, Calls
    <3> QED
      BY <1>1, <1>3, <1>4, <2>3, <3>2, <3>3, BindingParts
  <2>10. CASE v4' = [v4 EXCEPT ![c] = swap] /\ v5' = c
    <3>1. v4'[c] = swap /\ \A d \in Calls \ {c} : v4'[d] = v4[d]
      BY <1>1, <2>10, OtherCalls
    <3>2. Called'
      BY <1>1, <1>3, <2>2, <2>8, <2>10, ArmingMoves
    <3>3. c # 0 /\ c \in 1..MaxArms
      BY RecordsAssumption DEF Calls, Binding!ChannelBindAssumption
    <3>4. Binding!LockHolds'
      BY <1>1, <2>1, <2>7, <2>8, <2>10, <3>1, <3>3 DEF Binding!LockHolds, Calls
    <3> QED
      BY <1>1, <1>3, <1>4, <2>3, <3>2, <3>4, BindingParts
  <2> QED
    BY <2>4, <2>9, <2>10
<1>6. ASSUME NEW p \in Binding!Providers, Binding!Deregister(c, p)
      PROVE  Binding!IInv' /\ Binding!NonceIsHonoured
  <2> DEFINE left == v4[c].others \ {p}
             q == [v4[c] EXCEPT !.others = left]
             t == v6[p]
  <2>1. /\ v4[c].pc = "swap" /\ v4' = [v4 EXCEPT ![c] = q] /\ v6' = [v6 EXCEPT ![p] = 0] /\ v5' = v5
        /\ t = 0 => UNCHANGED <<v7, v8>>
        /\ t # 0 => v8' = [v8 EXCEPT ![t].stop = TRUE]
    BY <1>6 DEF Binding!Deregister
  <2>2. left \in SUBSET Binding!Providers /\ v4[c].bot \in Binding!Bots
    BY <1>1, <1>2, <2>1 DEF Called, Binding!Calling
  <2> HIDE DEF left
  <2>3. q \in Binding!Calling /\ q.pc = "swap" /\ q.others = left /\ q.bot = v4[c].bot
    BY <1>2, <2>1, <2>2 DEF Binding!Calling
  <2> HIDE DEF q
  <2>4. v4'[c] = q /\ \A d \in Calls \ {c} : v4'[d] = v4[d]
    BY <1>1, <2>1, OtherCalls
  <2>5. Called'
    BY <1>1, <1>3, <2>1, <2>2, <2>3, ArmingMoves
  <2>6. Held' /\ v6'[p] = 0 /\ \A o \in Binding!Providers \ {p} : v6'[o] = v6[o]
    BY <1>1, <2>1, RecordsAssumption DEF Held, Binding!ChannelBindAssumption
  <2>7. Binding!Running' = Binding!Running \ {p}
    BY <2>6 DEF Binding!Running
  <2>8. Heard' /\ Binding!LapsedIsOld'
    <3>1. CASE t = 0
      BY <1>1, <1>3, <2>1, <3>1 DEF Heard, Binding!LapsedIsOld
    <3>2. CASE t # 0
      <4>1. t \in Ears
        BY <1>1, <3>2, RecordsAssumption DEF Held, Ears, Binding!ChannelBindAssumption
      <4>2. PICK u \in Ears : u = t
        BY <4>1
      <4> DEFINE r == [v8[u] EXCEPT !.stop = TRUE]
      <4>3. v8[u] \in Binding!Thread
        BY <1>1 DEF Heard
      <4>4. r \in Binding!Thread /\ r.ch = v8[u].ch /\ r.pc = v8[u].pc /\ r.prov = v8[u].prov
            /\ r.bot = v8[u].bot
        BY <4>3 DEF Binding!Thread
      <4>5. v8' = [v8 EXCEPT ![u] = r]
        BY <2>1, <3>2, <4>2
      <4> HIDE DEF r
      <4>6. v8' \in [Ears -> Binding!Thread] /\ v8'[u] = r /\ \A w \in Ears \ {u} : v8'[w] = v8[w]
        BY <1>1, <4>4, <4>5 DEF Heard
      <4>7. \A w \in Ears : v8'[w].ch = v8[w].ch /\ v8'[w].pc = v8[w].pc
                            /\ v8'[w].prov = v8[w].prov /\ v8'[w].bot = v8[w].bot
        BY <4>4, <4>6
      <4>8. Heard'
        BY <1>1, <4>6, <4>7 DEF Heard, Binding!Fits
      <4>9. Binding!LapsedIsOld'
        BY <1>1, <1>3, <4>7 DEF Binding!LapsedIsOld, Ears
      <4> QED
        BY <4>8, <4>9
    <3> QED
      BY <3>1, <3>2
  <2>9. Binding!OneRuns'
    BY <1>1, <2>7 DEF Binding!OneRuns
  <2>10. Binding!LockHolds'
    <3>1. v5 = c
      BY <1>1, <2>1 DEF Binding!LockHolds, Calls
    <3>2. c # 0
      BY RecordsAssumption DEF Calls, Binding!ChannelBindAssumption
    <3>3. Binding!Running' \subseteq left
      BY <1>1, <2>7, <3>1, <3>2 DEF Binding!LockHolds, left
    <3> QED
      BY <1>1, <2>1, <2>3, <2>4, <3>1, <3>2, <3>3 DEF Binding!LockHolds, Calls
  <2> QED
    BY <1>1, <1>3, <1>4, <2>5, <2>6, <2>8, <2>9, <2>10, BindingParts
<1> QED
  BY <1>5, <1>6

LEMMA NoThreadIs ==
  Binding!NoThread \in Binding!Thread /\ Binding!Fits(Binding!NoThread)
  /\ Binding!NoThread.ch.nonce = 0 /\ Binding!NoThread.pc = "none"
<1>1. Binding!Unread \in Binding!Reading /\ Binding!Unread.nonce = 0
  BY DEF Binding!Unread, Binding!Reading
<1>2. <<Binding!NoBot, 0>> \in (Binding!Bots \cup {Binding!NoBot}) \X Nat
  OBVIOUS
<1>3. /\ Binding!NoThread \in Binding!Thread /\ Binding!NoThread.ch = Binding!Unread
      /\ Binding!NoThread.pc = "none"
  <2> HIDE DEF Binding!Unread
  <2> QED
    BY <1>1, <1>2 DEF Binding!Thread, Binding!NoThread
<1> HIDE DEF Binding!NoThread, Binding!Unread
<1>4. Binding!Fits(Binding!NoThread)
  BY <1>3 DEF Binding!Fits
<1> QED
  BY <1>1, <1>3, <1>4

\* A receive thread that has just been started, or died with the daemon.
LEMMA ThreadBegins ==
  ASSUME NEW p \in Binding!Providers \cup {"none"}, NEW pc \in {"token", "dead"},
         pc = "dead" \/ p # "none"
  PROVE  LET r == [Binding!NoThread EXCEPT !.prov = p, !.pc = pc]
         IN  r \in Binding!Thread /\ Binding!Fits(r) /\ r.ch.nonce = 0 /\ r.pc = pc
<1> DEFINE q == [Binding!NoThread EXCEPT !.prov = p]
           r == [q EXCEPT !.pc = pc]
<1>1. q \in Binding!Thread /\ q.ch = Binding!NoThread.ch /\ q.prov = p
  BY NoThreadIs DEF Binding!Thread
<1> HIDE DEF q
<1>2. r \in Binding!Thread /\ r.ch = Binding!NoThread.ch /\ r.prov = p /\ r.pc = pc
  BY <1>1 DEF Binding!Thread
<1>3. r = [Binding!NoThread EXCEPT !.prov = p, !.pc = pc]
  BY DEF q
<1> HIDE DEF r
<1>4. Binding!Fits(r)
  BY <1>2 DEF Binding!Fits
<1> QED
  BY <1>2, <1>3, <1>4, NoThreadIs

\* The provider of a call is started.
LEMMA BindingBrings ==
  ASSUME Binding!IInv, NEW c \in Calls, Binding!Bring(c)
  PROVE  Binding!IInv' /\ Binding!NonceIsHonoured
<1>1. /\ v2 \in Binding!Row /\ Doors /\ Called /\ Heard /\ Post /\ Held /\ Binding!NewestNonce
      /\ Binding!LapsedIsOld /\ Binding!OneRuns /\ Binding!LockHolds
  BY BindingParts
<1> DEFINE p == Binding!ProviderOf(v4[c].bot)
           q == [v4[c] EXCEPT !.pc = "done"]
           r == [Binding!NoThread EXCEPT !.prov = p, !.pc = "token"]
<1>2. PICK t \in Ears : v8' = [v8 EXCEPT ![t] = r] /\ v6' = [v6 EXCEPT ![p] = t] /\ v7' = t
  BY DEF Binding!Bring, Binding!Start, Ears
<1>3. /\ v4[c].pc = "swap" /\ v4[c].others = {} /\ v4' = [v4 EXCEPT ![c] = q] /\ v5' = 0
      /\ UNCHANGED <<v1, v2, v3, v9, v10>>
  BY DEF Binding!Bring
<1>4. p \in Binding!Providers
  BY DEF Binding!ProviderOf, Binding!Providers
<1>5. r \in Binding!Thread /\ Binding!Fits(r) /\ r.ch.nonce = 0 /\ r.pc = "token"
  <2>1. p # "none"
    BY DEF Binding!ProviderOf
  <2> HIDE DEF p
  <2> QED
    BY <1>4, <2>1, ThreadBegins
<1>6. q \in Binding!Calling /\ q.pc = "done"
  BY <1>1 DEF Called, Binding!Calling
<1> HIDE DEF q, r, p
<1>7. v4'[c] = q /\ \A d \in Calls \ {c} : v4'[d] = v4[d]
  BY <1>1, <1>3, OtherCalls
<1>8. Called'
  BY <1>1, <1>3, <1>6, ArmingMoves
<1>9. t \in 1..MaxThreads /\ t # 0
  BY RecordsAssumption DEF Ears, Binding!ChannelBindAssumption
<1>10. Held' /\ v6'[p] = t /\ \A o \in Binding!Providers \ {p} : v6'[o] = v6[o]
  BY <1>1, <1>2, <1>4, <1>9 DEF Held
<1>11. Binding!Running = {}
  BY <1>1, <1>3 DEF Binding!LockHolds, Calls
<1>12. Binding!Running' = {p}
  BY <1>4, <1>9, <1>10, <1>11 DEF Binding!Running
<1>13. v8' \in [Ears -> Binding!Thread] /\ v8'[t] = r /\ \A u \in Ears \ {t} : v8'[u] = v8[u]
  BY <1>1, <1>2, <1>5 DEF Heard
<1>14. Heard'
  BY <1>1, <1>5, <1>13 DEF Heard, Binding!Fits
<1>15. Binding!LapsedIsOld'
  <2>1. Len(v3) \in Nat
    BY <1>1 DEF Called
  <2> QED
    BY <1>1, <1>3, <1>5, <1>13, <2>1 DEF Binding!LapsedIsOld, Ears
<1>16. Binding!LockHolds'
  <2>1. \A d \in Calls : v4'[d].pc # "swap"
    BY <1>1, <1>3, <1>6, <1>7 DEF Binding!LockHolds, Calls
  <2>2. \A d \in Calls : d # 0
    BY RecordsAssumption DEF Calls, Binding!ChannelBindAssumption
  <2> QED
    BY <1>2, <1>3, <1>10, <1>12, <2>1, <2>2 DEF Binding!LockHolds, Calls
<1>17. Binding!OneRuns'
  BY <1>12 DEF Binding!OneRuns
<1>18. Doors' /\ Post' /\ Binding!NewestNonce' /\ Binding!NonceIsHonoured
  BY <1>1, <1>3 DEF Doors, Post, Binding!NewestNonce, Binding!NonceIsHonoured
<1> QED
  BY <1>1, <1>3, <1>8, <1>10, <1>14, <1>15, <1>16, <1>17, <1>18, BindingParts

\* The daemon dies and comes back.
LEMMA BindingCrash ==
  ASSUME Binding!IInv, Binding!Crash
  PROVE  Binding!IInv' /\ Binding!NonceIsHonoured
<1>1. /\ v2 \in Binding!Row /\ Doors /\ Called /\ Heard /\ Post /\ Held /\ Binding!NewestNonce
      /\ Binding!LapsedIsOld /\ Binding!OneRuns /\ Binding!LockHolds
  BY BindingParts
<1> DEFINE over(c) == [v4[c] EXCEPT !.pc = "done", !.others = {}]
           dead(u) == [Binding!NoThread EXCEPT !.prov = v8[u].prov, !.pc = "dead"]
           new(p) == [Binding!NoThread EXCEPT !.prov = p, !.pc = "token"]
<1>2. PICK t \in Ears, p \in Binding!Providers :
        /\ v8' = [u \in Ears |-> CASE u = t -> new(p)
                                   [] v8[u] = Binding!NoThread -> Binding!NoThread
                                   [] OTHER -> dead(u)]
        /\ v6' = [q \in Binding!Providers |-> IF q = p THEN t ELSE 0]
        /\ v7' = t
  BY DEF Binding!Crash, Ears
<1>3. /\ v4' = [c \in Calls |-> IF v4[c].pc = "none" THEN Binding!NoCall ELSE over(c)]
      /\ v5' = 0 /\ UNCHANGED <<v1, v2, v3, v9, v10>>
  BY DEF Binding!Crash, Calls
<1>4. new(p) \in Binding!Thread /\ Binding!Fits(new(p)) /\ new(p).ch.nonce = 0 /\ new(p).pc = "token"
  BY ThreadBegins DEF Binding!Providers
<1>5. \A u \in Ears : dead(u) \in Binding!Thread /\ Binding!Fits(dead(u)) /\ dead(u).ch.nonce = 0
                      /\ dead(u).pc = "dead"
  <2> SUFFICES ASSUME NEW u \in Ears
               PROVE  dead(u) \in Binding!Thread /\ Binding!Fits(dead(u)) /\ dead(u).ch.nonce = 0
                      /\ dead(u).pc = "dead"
    OBVIOUS
  <2>1. v8[u].prov \in Binding!Providers \cup {"none"}
    BY <1>1 DEF Heard, Binding!Thread
  <2> QED
    BY <2>1, ThreadBegins
<1>6. \A c \in Calls : over(c) \in Binding!Calling /\ over(c).pc = "done"
  BY <1>1 DEF Called, Binding!Calling
<1>7. Binding!NoCall \in Binding!Calling /\ Binding!NoCall.pc = "none"
  BY DEF Binding!NoCall, Binding!Calling
<1> HIDE DEF over, dead, new, Binding!NoCall
<1>8. v4' \in [Calls -> Binding!Calling] /\ \A c \in Calls : v4'[c].pc \in {"none", "done"}
  BY <1>3, <1>6, <1>7
<1>9. Called'
  BY <1>1, <1>3, <1>8 DEF Called
<1>10. t # 0 /\ t \in 0..MaxThreads /\ 0 \in 0..MaxThreads
  BY RecordsAssumption DEF Ears, Binding!ChannelBindAssumption
<1>11. Held' /\ v6'[p] = t /\ \A q \in Binding!Providers \ {p} : v6'[q] = 0
  BY <1>2, <1>10 DEF Held
<1>12. Binding!Running' = {p}
  BY <1>10, <1>11 DEF Binding!Running
<1>13. \A u \in Ears : /\ v8'[u] \in Binding!Thread /\ Binding!Fits(v8'[u]) /\ v8'[u].ch.nonce = 0
                       /\ v8'[u].pc # "retire"
  <2> SUFFICES ASSUME NEW u \in Ears
               PROVE  /\ v8'[u] \in Binding!Thread /\ Binding!Fits(v8'[u]) /\ v8'[u].ch.nonce = 0
                      /\ v8'[u].pc # "retire"
    OBVIOUS
  <2>1. v8'[u] \in {new(p), Binding!NoThread, dead(u)}
    BY <1>2
  <2> QED
    BY <1>4, <1>5, <2>1, NoThreadIs
<1>14. Heard'
  BY <1>2, <1>13 DEF Heard
<1>15. Binding!LapsedIsOld'
  <2>1. Len(v3) \in Nat
    BY <1>1 DEF Called
  <2> QED
    BY <1>3, <1>13, <2>1 DEF Binding!LapsedIsOld, Ears
<1>16. Binding!LockHolds'
  <2>1. \A d \in Calls : d # 0
    BY RecordsAssumption DEF Calls, Binding!ChannelBindAssumption
  <2> QED
    BY <1>2, <1>3, <1>8, <1>11, <1>12, <2>1 DEF Binding!LockHolds, Calls
<1>17. Binding!OneRuns'
  BY <1>12 DEF Binding!OneRuns
<1>18. Doors' /\ Post' /\ Binding!NewestNonce' /\ Binding!NonceIsHonoured
  BY <1>1, <1>3 DEF Doors, Post, Binding!NewestNonce, Binding!NonceIsHonoured
<1> QED
  BY <1>1, <1>3, <1>9, <1>11, <1>14, <1>15, <1>16, <1>17, <1>18, BindingParts

LEMMA BindingInit ==
  ASSUME Binding!Init
  PROVE  Binding!IInv
<1>0. MaxArms \in Nat /\ MaxThreads \in Nat /\ MaxSent \in Nat
  BY RecordsAssumption DEF Binding!ChannelBindAssumption
<1>1. /\ v1 = [p \in Binding!Providers |-> Binding!NoBot] /\ v2 = Binding!NoRow /\ v3 = <<>>
      /\ v4 = [c \in Calls |-> Binding!NoCall] /\ v5 = 0 /\ v6 = [p \in Binding!Providers |-> 0]
      /\ v8 = [t \in Ears |-> Binding!NoThread] /\ v9 = [b \in Telegrams |-> {}] /\ v10 = 0
  BY DEF Binding!Init, Calls, Ears
<1>2. v2 \in Binding!Row /\ v2.nonce = 0 /\ v2.chat = 0 /\ v2.live = FALSE
  BY <1>1 DEF Binding!NoRow, Binding!Row, Binding!Providers
<1>3. Binding!NoCall \in Binding!Calling /\ Binding!NoCall.pc = "none"
  BY DEF Binding!NoCall, Binding!Calling
<1> HIDE DEF Binding!NoCall, Binding!NoRow, Binding!NoThread
<1>4. Called /\ Heard
  BY <1>1, <1>3, NoThreadIs DEF Called, Heard
<1>5. Doors /\ Post /\ Held
  BY <1>0, <1>1 DEF Doors, Post, Held, Binding!Speaks
<1>6. Len(v3) = 0 /\ Binding!NewestNonce
  BY <1>1, <1>2 DEF Binding!NewestNonce
<1>7. Binding!LapsedIsOld
  BY <1>1, <1>6, NoThreadIs DEF Binding!LapsedIsOld, Ears
<1>8. Binding!Running = {}
  BY <1>1 DEF Binding!Running
<1>9. Binding!OneRuns /\ Binding!LockHolds
  <2>1. \A d \in Calls : d # 0
    BY <1>0 DEF Calls
  <2> QED
    BY <1>1, <1>3, <1>8, <2>1 DEF Binding!OneRuns, Binding!LockHolds, Calls
<1> QED
  BY <1>2, <1>4, <1>5, <1>6, <1>7, <1>9, BindingParts

LEMMA BindingStep ==
  ASSUME Binding!IInv, [Binding!Next]_<<v1, v2, v3, v4, v5, v6, v7, v8, v9, v10, v11>>
  PROVE  Binding!IInv' /\ Binding!NonceIsHonoured
<1>1. CASE UNCHANGED <<v1, v2, v3, v4, v5, v6, v7, v8, v9, v10, v11>>
  <2>1. v2 \in Binding!Row /\ Heard /\ Post
    BY BindingParts
  <2>2. RowMoves
    BY <1>1, <2>1, RowSteps
  <2>3. Heard' /\ Post'
    BY <1>1, <2>1 DEF Heard, Post
  <2> QED
    BY <1>1, <2>2, <2>3, RoomKept
<1>2. CASE Binding!Next
  <2>1. ASSUME NEW c \in Calls,
               \/ Binding!ConnectTelegram(c) \/ Binding!ConnectDiscord(c)
               \/ Binding!Arm(c) \/ Binding!Register(c) \/ Binding!Bring(c)
               \/ \E p \in Binding!Providers : Binding!Deregister(c, p)
        PROVE  Binding!IInv' /\ Binding!NonceIsHonoured
    BY <2>1, BindingProves, BindingArms, BindingRegisters, BindingBrings
  <2>2. ASSUME NEW t \in Ears,
               \/ Binding!ReadToken(t) \/ Binding!ReadRow(t) \/ Binding!Retire(t) \/ Binding!Greet(t)
               \/ Binding!Poll(t) \/ Binding!PollFails(t) \/ Binding!Bind(t) \/ Binding!EnsureMenu(t)
               \/ Binding!Ack(t) \/ Binding!Connect(t) \/ Binding!LatchOff(t) \/ Binding!BindDirect(t)
               \/ Binding!Close(t) \/ \E n \in 0..Len(v3) : Binding!Hear(t, n)
        PROVE  Binding!IInv' /\ Binding!NonceIsHonoured
    BY <2>2, EarReads, EarLoops, EarPolls, EarHears
  <2>3. ASSUME NEW b \in Telegrams, NEW n \in 0..Len(v3), Binding!Write(b, n)
        PROVE  Binding!IInv' /\ Binding!NonceIsHonoured
    BY <2>3, BindingAround
  <2> QED
    BY <1>2, <2>1, <2>2, <2>3, BindingAround, BindingCrash DEF Binding!Next, Calls, Ears
<1> QED
  BY <1>1, <1>2

LEMMA BindingCardinality == \A S : Binding!Cardinality(S) = Cardinality(S)
  BY Zenon DEF Binding!Cardinality, Cardinality

LEMMA BindingKeeps ==
  ASSUME Binding!IInv
  PROVE  Binding!LatestArmBinds /\ Binding!OneProvider
<1>1. Called /\ Binding!NewestNonce /\ Binding!OneRuns /\ Binding!LockHolds
  BY BindingParts
<1>2. Binding!LatestArmBinds
  BY <1>1 DEF Called, Binding!NewestNonce, Binding!LatestArmBinds
<1>3. Cardinality(Binding!Running) <= 1
  <2>1. \A i, j \in Binding!Running : i = j
    BY <1>1 DEF Binding!OneRuns
  <2> QED
    BY <2>1, AtMostOne
<1> QED
  BY <1>1, <1>2, <1>3, BindingCardinality DEF Binding!OneProvider, Binding!LockHolds

-----------------------------------------------------------------------------
(* Of the records.                                                           *)

\* What MarketIsWatched follows from.
WatchInv == /\ part = "connect" => Connecting!IInv
            /\ part = "watch" => Watch!IInv
            /\ part = "selectors" => Memory!IInv

LEMMA WatchInvKept == RecordsSpec => []WatchInv
<1>1. RecordsInit => WatchInv
  BY PartInit, ConnectingInit, WatchInit, MemoryInit DEF WatchInv
<1>2. WatchInv /\ [RecordsNext]_<<vars, part, Shared>> => WatchInv'
  <2> SUFFICES ASSUME WatchInv, [RecordsNext]_<<vars, part, Shared>>
               PROVE  WatchInv'
    OBVIOUS
  <2>1. part' = part
    BY PartStep
  <2>2. ASSUME part = "connect"
        PROVE  Connecting!IInv'
    BY <2>2, PartStep, ConnectingStep DEF WatchInv
  <2>3. ASSUME part = "watch"
        PROVE  Watch!IInv'
    BY <2>3, PartStep, WatchStep DEF WatchInv
  <2>4. ASSUME part = "selectors"
        PROVE  Memory!IInv'
    BY <2>4, PartStep, MemoryStep DEF WatchInv
  <2> QED
    BY <2>1, <2>2, <2>3, <2>4 DEF WatchInv
<1> QED
  BY <1>1, <1>2, PTL DEF RecordsSpec

\* What the seller is told of a market is read off that market's page, once for
\* each tap; a message that shows as nothing new is opened within the sweep; a
\* remembered selector that went bad is retired, and the one that shipped has
\* its turn (browser/connect.py, browser/inbox.py, browser/selectors.py): of any
\* number of markets, chats, taps, selectors and crashes.
THEOREM MarketsAreWatched == RecordsSpec => []MarketIsWatched
<1>1. WatchInv => MarketIsWatched
  BY ConnectingKeeps, WatchKeeps DEF WatchInv, MarketIsWatched, Memory!IInv, Memory!BadHealRetires
<1> QED
  BY <1>1, WatchInvKept, PTL

\* What ListingsAreRemembered follows from.
ListingInv == /\ part = "crosslist" => Fanout!IInv
              /\ part = "adoption" => Taking!IInv

LEMMA ListingInvKept == RecordsSpec => []ListingInv
<1>1. RecordsInit => ListingInv
  BY PartInit, FanoutInit, TakingInit DEF ListingInv
<1>2. ListingInv /\ [RecordsNext]_<<vars, part, Shared>> => ListingInv'
  <2> SUFFICES ASSUME ListingInv, [RecordsNext]_<<vars, part, Shared>>
               PROVE  ListingInv'
    OBVIOUS
  <2>1. part' = part
    BY PartStep
  <2>2. ASSUME part = "crosslist"
        PROVE  Fanout!IInv'
    BY <2>2, PartStep, FanoutStep DEF ListingInv
  <2>3. ASSUME part = "adoption"
        PROVE  Taking!IInv'
    BY <2>3, PartStep, TakingStep DEF ListingInv
  <2> QED
    BY <2>1, <2>2, <2>3 DEF ListingInv
<1> QED
  BY <1>1, <1>2, PTL DEF RecordsSpec

\* A fan-out is tried once for each item and marketplace and told as it went; an
\* item taken over from a marketplace has its row, and the publish it is owed is
\* done, owed, on its way or given up on after RAIL_MAX_ATTEMPTS tries and one
\* more for each crash (crosslist.py, browser/adopt.py): of any number of items,
\* marketplaces, passes and listings, and for any limits.
THEOREM ListingsRemembered == RecordsSpec => []ListingsAreRemembered
<1>1. ListingInv => ListingsAreRemembered
  BY FanoutKeeps, TakingKeeps DEF ListingInv, ListingsAreRemembered
<1> QED
  BY <1>1, ListingInvKept, PTL

\* What SellerSets and the decisions' finality follow from.
SettingInv == part = "settings" => Config!IInv

LEMMA SettingInvKept == RecordsSpec => []SettingInv
<1>1. RecordsInit => SettingInv
  BY PartInit, ConfigInit DEF SettingInv
<1>2. SettingInv /\ [RecordsNext]_<<vars, part, Shared>> => SettingInv'
  BY PartStep, ConfigStep DEF SettingInv
<1> QED
  BY <1>1, <1>2, PTL DEF RecordsSpec

\* The value of a setting is the one its ledger of changes explains, and where
\* approval is asked for, one the seller approved; a setting has one live
\* proposal; nothing is listed where the region is not served (settings.py,
\* store/settings.py): of any settings, markets and regions, for any number of
\* calls between their read and their write, and whichever doors race.
THEOREM SellerDecidesSettings == RecordsSpec => []SellerSets
<1>1. SettingInv => SellerSets
  BY ConfigKeeps DEF SettingInv, SellerSets
<1> QED
  BY <1>1, SettingInvKept, PTL

\* What BindingHolds follows from.
BindingInv == part = "binding" => Binding!IInv

LEMMA BindingInvKept == RecordsSpec => []BindingInv
<1>1. RecordsInit => BindingInv
  BY PartInit, BindingInit DEF BindingInv
<1>2. BindingInv /\ [RecordsNext]_<<vars, part, Shared>> => BindingInv'
  BY PartStep, BindingStep DEF BindingInv
<1> QED
  BY <1>1, <1>2, PTL DEF RecordsSpec

\* A chat is bound by the nonce of the newest connect alone, on the bot that
\* connect armed, and one provider runs at a time with the delivery lanes its own
\* (channel/manager.py, store/channel.py): of any number of bots, connects,
\* receive threads, messages and crashes, in whatever order a poll or a session
\* that began before a connect comes back after it.
THEOREM BindingAlwaysHolds == RecordsSpec => []BindingHolds
<1>1. BindingInv => BindingHolds
  BY BindingKeeps DEF BindingInv, BindingHolds
<1> QED
  BY <1>1, BindingInvKept, PTL

=============================================================================
