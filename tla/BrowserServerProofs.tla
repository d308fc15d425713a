------------------------ MODULE BrowserServerProofs -------------------------
(***************************************************************************)
(* What the factory of the browser keeps for any number of callers,        *)
(* clients, ports and faults: the types, that a closed client is a corpse, *)
(* and that no bracket loses its client.                                   *)
(***************************************************************************)
EXTENDS BrowserServer, FiniteSetTheorems, TLAPS

\* The types, by the variable.
Server == [port : Ports, proc : {"none", "alive", "dead"}, link : BOOLEAN,
           retired : BOOLEAN, detached : BOOLEAN, streak : 0..FailLimit]
Places == {"idle", "pick", "moved", "recycle", "pop", "stale", "again", "build", "got", "in"}
ClientType == client \in [Clients -> Server]
CallerType == /\ pc \in [Callers -> Places] /\ my \in [Callers -> Clients \cup {NoClient}]
              /\ given \in [Callers -> Ports]
ChromeType == chrome \in [up : BOOLEAN, port : Ports]
LockType == lock \in [Clients -> Callers \cup {NoCaller}]
HolderType == holder \in [client : Clients \cup {NoClient}, recycles : Nat]
CountType == made \in Nat /\ hot \in BOOLEAN /\ seen \in [Callers -> Nat] /\ faults \in 0..MaxFaults

\* A caller that is about to close or to use a client has one.
InHand == \A k \in Callers : pc[k] \in {"moved", "stale", "got", "in"} => my[k] \in Clients

\* A caller in a bracket has the lock of its client.
LockHeld == \A k \in Callers : pc[k] = "in" => lock[my[k]] = k

\* Callers that have decided to recycle read the count that stands, or, once one
\* of them has recycled, the one before it; each of them will spend once more.
Popping == {k \in Callers : pc[k] = "pop"}
Due == IF hot THEN Cardinality(Popping) ELSE 0
SpentInStep ==
  /\ holder.recycles = 0 => ~hot
  /\ holder.recycles <= RecycleMax
  /\ \A k \in Popping : /\ seen[k] < RecycleMax
                         /\ holder.recycles = IF hot THEN seen[k] + 1 ELSE seen[k]
  /\ made + Due <= Cardinality(Callers) * holder.recycles

\* The inductive invariant.
IInv == TypeOK /\ InHand /\ LockHeld /\ CorpseStaysDead /\ SpentInStep

LEMMA Types ==
  TypeOK <=> ClientType /\ CallerType /\ ChromeType /\ LockType /\ HolderType /\ CountType
  BY DEF TypeOK, ClientType, CallerType, ChromeType, LockType, HolderType, CountType, Server, Places

LEMMA FreshServer ==
  ASSUME NEW p \in Ports
  PROVE  Fresh(p) \in Server /\ Fresh(p).proc = "none" /\ ~Fresh(p).retired
  BY BrowserAssumption DEF Fresh, Server

LEMMA CorpseServer == Corpse \in Server /\ Corpse.proc = "none" /\ Corpse.retired
<1>1. (CHOOSE p \in Ports : TRUE) \in Ports
  BY BrowserAssumption
<1>2. PICK s \in Server : s.proc = "none" /\ Corpse = [s EXCEPT !.retired = TRUE]
  BY <1>1, FreshServer DEF Corpse
<1> QED
  BY <1>2 DEF Server

\* What happens to a server or its link leaves alone whether its client is retired.
LEMMA Touched ==
  ASSUME NEW s \in Server, NEW b \in BOOLEAN
  PROVE  /\ [s EXCEPT !.detached = b] \in Server
         /\ [s EXCEPT !.detached = b].retired = s.retired
         /\ [s EXCEPT !.detached = b].proc = s.proc
         /\ [s EXCEPT !.link = b] \in Server
         /\ [s EXCEPT !.link = b].retired = s.retired
         /\ [s EXCEPT !.link = b].proc = s.proc
         /\ [s EXCEPT !.link = b, !.proc = "dead"] \in Server
         /\ [s EXCEPT !.link = b, !.proc = "dead"].retired = s.retired
  BY DEF Server

\* What a call may do to a client: it stays a client, keeps whether it is
\* retired, and a retired one is not touched.
LEMMA CallKeeps ==
  ASSUME ClientType, NEW c \in Clients, Called(c)
  PROVE  \/ client' = client
         \/ \E s \in Server : client' = [client EXCEPT ![c] = s] /\ ~s.retired /\ ~client[c].retired
<1>1. client[c] \in Server
  BY DEF ClientType
<1>2. ~client[c].retired => Started(client[c]) \in Server /\ ~Started(client[c]).retired
  <2>1. client[c].port \in Ports
    BY <1>1 DEF Server
  <2>2. Fresh(client[c].port) \in Server /\ ~Fresh(client[c].port).retired
    BY <2>1, FreshServer
  <2>3. Answers(client[c].port) \in BOOLEAN
    BY DEF Answers
  <2> QED
    BY <1>1, <2>2, <2>3 DEF Started, Server
<1>3. ASSUME NEW s \in Server, ~s.retired
      PROVE  Fails(s) \in Server /\ ~Fails(s).retired
  BY <1>3, BrowserAssumption DEF Fails, Server
<1>4. ASSUME NEW s \in Server, ~s.retired
      PROVE  [s EXCEPT !.streak = 0] \in Server /\ ~[s EXCEPT !.streak = 0].retired
  BY <1>4, BrowserAssumption DEF Server
<1>5. Fresh(client[c].port) \in Server /\ ~Fresh(client[c].port).retired
  BY <1>1, FreshServer DEF Server
<1> QED
  BY <1>1, <1>2, <1>3, <1>4, <1>5 DEF Called

LEMMA CallersCounted ==
  /\ Cardinality(Callers) \in Nat
  /\ IsFiniteSet(Popping) /\ Cardinality(Popping) \in Nat
  /\ Cardinality(Popping) <= Cardinality(Callers)
  BY FS_CardinalityType, FS_Subset, BrowserAssumption DEF Popping

LEMMA InitInv ==
  ASSUME Init
  PROVE  IInv
<1> USE BrowserAssumption DEF Init
<1>1. ClientType /\ CallerType /\ LockType /\ HolderType
  BY CorpseServer DEF ClientType, CallerType, LockType, HolderType, Places
<1>2. (CHOOSE p \in Ports : TRUE) \in Ports /\ 0 \in 0..MaxFaults
  OBVIOUS
<1>p. ChromeType /\ CountType
  BY <1>2 DEF ChromeType, CountType
<1>3. InHand /\ LockHeld
  BY DEF InHand, LockHeld
<1>4. CorpseStaysDead
  BY CorpseServer DEF CorpseStaysDead
<1>5. SpentInStep
  <2>1. Popping = {}
    BY DEF Popping
  <2>2. Due = 0 /\ Cardinality(Callers) * 0 = 0
    BY CallersCounted DEF Due
  <2> QED
    BY <2>1, <2>2 DEF SpentInStep
<1> QED
  BY <1>5, <1>1, <1>p, <1>3, <1>4, Types DEF IInv

LEMMA ClientStep ==
  ASSUME TypeOK, InHand, CorpseStaysDead, [Next]_vars
  PROVE  ClientType' /\ CorpseStaysDead'
<1>a. ClientType /\ CallerType /\ ChromeType /\ HolderType
  BY Types
<1> USE <1>a DEF ClientType, CorpseStaysDead
<1>1. ASSUME NEW k \in Callers, Discard(k)
      PROVE  ClientType' /\ CorpseStaysDead'
  <2>1. PICK b \in BOOLEAN :
          client' = [client EXCEPT ![holder.client] = [client[holder.client] EXCEPT !.detached = b]]
    BY <1>1 DEF Discard, Detached
  <2>2. holder.client \in Clients
    BY <1>1 DEF Discard, HolderType
  <2>3. client[holder.client] \in Server
    BY <2>2
  <2>4. PICK s \in Server : /\ client' = [client EXCEPT ![holder.client] = s]
                            /\ s.retired = client[holder.client].retired
                            /\ s.proc = client[holder.client].proc
    BY <2>1, <2>3, Touched
  <2> QED
    BY <2>2, <2>4
<1>2. ASSUME NEW k \in Callers, Close(k)
      PROVE  ClientType' /\ CorpseStaysDead'
  BY <1>2, CorpseServer DEF Close
<1>3. ASSUME NEW k \in Callers, Build(k)
      PROVE  ClientType' /\ CorpseStaysDead'
  <2>1. Fresh(given[k]) \in Server /\ ~Fresh(given[k]).retired
    BY FreshServer DEF CallerType
  <2> QED
    BY <1>3, <2>1 DEF Build
<1>4. ASSUME NEW k \in Callers, Enter(k) \/ Call(k)
      PROVE  ClientType' /\ CorpseStaysDead'
  <2>1. my[k] \in Clients /\ Called(my[k])
    BY <1>4 DEF Enter, Call, At, InHand
  <2> QED
    BY <2>1, CallKeeps
<1>5. CASE ChromeDies
  BY <1>5, Touched DEF ChromeDies
<1>6. CASE ServerFaults
  <2>1. PICK c \in Clients :
          /\ client[c].proc = "alive"
          /\ \/ client' = [client EXCEPT ![c].link = FALSE]
             \/ client' = [client EXCEPT ![c].link = FALSE, ![c].proc = "dead"]
    BY <1>6 DEF ServerFaults
  <2>2. client[c] \in Server /\ ~client[c].retired
    BY <2>1
  <2>3. \/ client' = [client EXCEPT ![c] = [client[c] EXCEPT !.link = FALSE]]
        \/ client' = [client EXCEPT ![c] = [client[c] EXCEPT !.link = FALSE, !.proc = "dead"]]
    BY <2>1
  <2> QED
    BY <2>2, <2>3, Touched
<1>7. CASE UNCHANGED client
  BY <1>7
<1> QED
  BY <1>1, <1>2, <1>3, <1>4, <1>5, <1>6, <1>7
     DEF Next, World, Step, vars, Ensure, Pick, Recycle, Pop, Again, Leave, Cool, Expire

LEMMA CallerStep ==
  ASSUME TypeOK, InHand, [Next]_vars
  PROVE  CallerType' /\ InHand'
<1>a. CallerType /\ HolderType
  BY Types
<1> USE <1>a, BrowserAssumption DEF CallerType, HolderType, InHand, Goto, At, Places
<1>0. ASSUME NEW k \in Callers, Ensure(k)
      PROVE  CallerType' /\ InHand'
  <2>1. chrome'.port \in Ports
    <3>1. chrome.port \in Ports
      BY Types DEF ChromeType
    <3> QED
      BY <1>0, <3>1 DEF Ensure, Launch
  <2> QED
    BY <1>0, <2>1 DEF Ensure
<1>1. ASSUME NEW k \in Callers, Recycle(k) \/ Leave(k) \/ Close(k)
      PROVE  CallerType' /\ InHand'
  BY <1>1 DEF Recycle, Leave, Close
<1>2. ASSUME NEW k \in Callers, Pick(k) \/ Discard(k) \/ Pop(k) \/ Again(k)
      PROVE  CallerType' /\ InHand'
  BY <1>2 DEF Pick, Discard, Pop, Again
<1>3. ASSUME NEW k \in Callers, Build(k)
      PROVE  CallerType' /\ InHand'
  <2>1. PICK c \in Clients : my' = [my EXCEPT ![k] = c]
    BY <1>3 DEF Build
  <2> QED
    BY <1>3, <2>1 DEF Build
<1>4. ASSUME NEW k \in Callers, Enter(k) \/ Call(k)
      PROVE  CallerType' /\ InHand'
  BY <1>4 DEF Enter, Call
<1>5. CASE UNCHANGED <<pc, my, given>>
  BY <1>5
<1> QED
  BY <1>0, <1>1, <1>2, <1>3, <1>4, <1>5
     DEF Next, World, Step, vars, ChromeDies, ServerFaults, Cool, Expire

LEMMA LockStep ==
  ASSUME TypeOK, InHand, LockHeld, [Next]_vars
  PROVE  LockType' /\ LockHeld'
<1>a. CallerType /\ LockType
  BY Types
<1> USE <1>a, BrowserAssumption DEF CallerType, LockType, LockHeld, InHand, Goto, At
<1>1. ASSUME NEW k \in Callers, Enter(k)
      PROVE  LockType' /\ LockHeld'
  BY <1>1 DEF Enter, Free
<1>2. ASSUME NEW k \in Callers, Leave(k)
      PROVE  LockType' /\ LockHeld'
  BY <1>2 DEF Leave
<1>3. ASSUME NEW k \in Callers, NEW there \in Places \ {"in"}, lock' = lock,
             pc[k] # "in", Goto(k, there), \A j \in Callers : j # k => my'[j] = my[j]
      PROVE  LockType' /\ LockHeld'
  BY <1>3
<1>4. ASSUME NEW k \in Callers, Ensure(k) \/ Pick(k) \/ Discard(k) \/ Recycle(k)
      PROVE  LockType' /\ LockHeld'
  BY <1>4 DEF Ensure, Pick, Discard, Recycle
<1>5. ASSUME NEW k \in Callers, Pop(k) \/ Close(k) \/ Again(k) \/ Build(k)
      PROVE  LockType' /\ LockHeld'
  BY <1>5 DEF Pop, Close, Again, Build
<1>6. CASE UNCHANGED <<pc, my, lock>>
  BY <1>6
<1> QED
  BY <1>1, <1>2, <1>4, <1>5, <1>6
     DEF Next, World, Step, vars, Call, ChromeDies, ServerFaults, Cool, Expire

LEMMA RestStep ==
  ASSUME TypeOK, [Next]_vars
  PROVE  ChromeType' /\ HolderType' /\ CountType'
<1>a. ChromeType /\ HolderType /\ CountType /\ CallerType
  BY Types
<1>1. ChromeType'
  <2>1. ASSUME NEW k \in Callers, Ensure(k)
        PROVE  ChromeType'
    <3>1. \/ chrome' = chrome
          \/ \E p \in Ports : chrome' = [up |-> TRUE, port |-> p]
      BY <2>1 DEF Ensure, Launch
    <3>2. ASSUME NEW p \in Ports, chrome' = [up |-> TRUE, port |-> p]
          PROVE  ChromeType'
      BY <3>2 DEF ChromeType
    <3>3. CASE chrome' = chrome
      BY <1>a, <3>3 DEF ChromeType
    <3> QED
      BY <3>1, <3>2, <3>3
  <2>2. CASE ChromeDies
    BY <1>a, <2>2 DEF ChromeType, ChromeDies
  <2>3. CASE UNCHANGED chrome
    BY <1>a, <2>3 DEF ChromeType
  <2> QED
    BY <2>1, <2>2, <2>3
       DEF Next, World, Step, vars, Pick, Discard, Recycle, Pop, Close, Again, Build, Enter, Call,
           Leave, ServerFaults, Cool, Expire
<1>2. HolderType'
  <2>1. ASSUME NEW k \in Callers, Pop(k) \/ Close(k) \/ Build(k)
        PROVE  HolderType'
    BY <1>a, <2>1 DEF HolderType, CountType, Pop, Close, Build
  <2>2. CASE Expire
    BY <1>a, <2>2 DEF HolderType, Expire
  <2>3. CASE UNCHANGED holder
    BY <1>a, <2>3 DEF HolderType
  <2> QED
    BY <2>1, <2>2, <2>3
       DEF Next, World, Step, vars, Ensure, Pick, Discard, Recycle, Again, Enter, Call, Leave,
           ChromeDies, ServerFaults, Cool
<1>3. faults' \in 0..MaxFaults
  <2>1. CASE ChromeDies \/ ServerFaults
    BY <1>a, <2>1, BrowserAssumption DEF CountType, ChromeDies, ServerFaults
  <2>2. CASE UNCHANGED faults
    BY <1>a, <2>2 DEF CountType
  <2> QED
    BY <2>1, <2>2
       DEF Next, World, Step, vars, Ensure, Pick, Discard, Recycle, Pop, Close, Again, Build,
           Enter, Call, Leave, Cool, Expire
<1>4. made' \in Nat /\ hot' \in BOOLEAN /\ seen' \in [Callers -> Nat]
  <2>1. ASSUME NEW k \in Callers, Recycle(k)
        PROVE  made' \in Nat /\ hot' \in BOOLEAN /\ seen' \in [Callers -> Nat]
    BY <1>a, <2>1 DEF HolderType, CountType, Recycle
  <2>2. ASSUME NEW k \in Callers, Pop(k)
        PROVE  made' \in Nat /\ hot' \in BOOLEAN /\ seen' \in [Callers -> Nat]
    BY <1>a, <2>2 DEF CountType, Pop
  <2>3. CASE Cool \/ Expire
    <3>1. CASE Cool
      BY <1>a, <3>1 DEF CountType, Cool
    <3>2. CASE Expire
      BY <1>a, <3>2 DEF CountType, Expire
    <3> QED
      BY <2>3, <3>1, <3>2
  <2>4. CASE UNCHANGED <<made, hot, seen>>
    BY <1>a, <2>4 DEF CountType
  <2> QED
    BY <2>1, <2>2, <2>3, <2>4
       DEF Next, World, Step, vars, Ensure, Pick, Discard, Close, Again, Build, Enter, Call,
           Leave, ChromeDies, ServerFaults
<1> QED
  BY <1>1, <1>2, <1>3, <1>4 DEF CountType

\* A recycle that was decided on costs one, and the first of them raises the count.
LEMMA SpentByPop ==
  ASSUME TypeOK, SpentInStep, NEW k \in Callers, Pop(k)
  PROVE  SpentInStep'
<1>a. CallerType /\ HolderType /\ CountType
  BY Types
<1> DEFINE N == Cardinality(Callers)
           P == Cardinality(Popping)
           n == seen[k]
<1>b. N \in Nat /\ P \in Nat /\ P <= N /\ n \in Nat /\ made \in Nat /\ holder.recycles \in Nat
  BY <1>a, CallersCounted DEF CountType, HolderType
<1>c. k \in Popping
  BY DEF Pop, At, Popping
<1>1. Popping' = Popping \ {k}
  BY <1>a DEF Pop, Goto, Popping, CallerType
<1>2. Cardinality(Popping') = P - 1
  BY <1>1, <1>c, CallersCounted, FS_RemoveElement
<1>3. hot' /\ made' = made + 1 /\ holder'.recycles = n + 1
  BY DEF Pop
<1>4. n < RecycleMax /\ holder.recycles = IF hot THEN n + 1 ELSE n
  BY <1>c DEF SpentInStep
<1>5. N * (n + 1) = N * n + N /\ N * n \in Nat
  BY <1>b
<1>6. made + 1 + (P - 1) <= N * (n + 1)
  <2>1. CASE hot
    <3>1. made + P <= N * (n + 1)
      BY <2>1, <1>4 DEF SpentInStep, Due
    <3>2. N * (n + 1) \in Nat
      BY <1>b
    <3> HIDE DEF N, P, n
    <3> QED
      BY <1>b, <3>1, <3>2
  <2>2. CASE ~hot
    <3>1. made + 0 <= N * n
      BY <2>2, <1>4 DEF SpentInStep, Due
    <3>2. N * (n + 1) \in Nat
      BY <1>b
    <3> HIDE DEF N, P, n
    <3> QED
      BY <1>b, <1>5, <3>1, <3>2
  <2> QED
    BY <2>1, <2>2
<1>7. (made + Due <= Cardinality(Callers) * holder.recycles)'
  <2>1. Due' = P - 1
    BY <1>2, <1>3 DEF Due
  <2> QED
    BY <2>1, <1>3, <1>6
<1>8. \A j \in Popping' : seen'[j] < RecycleMax /\ holder'.recycles = seen'[j] + 1
  <2>1. \A j \in Popping : seen[j] = n
    BY <1>a, <1>4, <1>c DEF SpentInStep, Popping, CountType
  <2>2. \A j \in Popping' : seen'[j] = seen[j]
    BY <1>a, <1>1 DEF Pop, CountType, Popping
  <2> QED
    BY <2>1, <2>2, <1>1, <1>3, <1>4
<1>9. holder'.recycles <= RecycleMax /\ holder'.recycles # 0
  BY <1>b, <1>3, <1>4, BrowserAssumption
<1> QED
  BY <1>3, <1>7, <1>8, <1>9 DEF SpentInStep

LEMMA SpentStep ==
  ASSUME TypeOK, SpentInStep, [Next]_vars
  PROVE  SpentInStep'
<1>a. CallerType /\ HolderType /\ CountType
  BY Types
<1>1. ASSUME NEW k \in Callers, Recycle(k)
      PROVE  SpentInStep'
  <2>1. CASE pc'[k] # "pop"
    <3>1. Popping' = Popping /\ UNCHANGED <<hot, made, holder, seen>>
      BY <1>a, <1>1, <2>1 DEF Recycle, Goto, At, Popping, CallerType
    <3> QED
      BY <3>1 DEF SpentInStep, Due
  <2>2. CASE pc'[k] = "pop"
    <3>1. /\ ~(holder.recycles > 0 /\ hot) /\ holder.recycles < RecycleMax
          /\ seen' = [seen EXCEPT ![k] = holder.recycles] /\ UNCHANGED <<hot, made, holder>>
      BY <1>a, <1>1, <2>2 DEF Recycle, Goto, CallerType
    <3>2. Popping' = Popping \cup {k}
      BY <1>a, <1>1, <2>2 DEF Recycle, Goto, Popping, CallerType
    <3>3. ~hot
      BY <1>a, <3>1 DEF SpentInStep, HolderType
    <3>4. \A j \in Popping' : seen'[j] = holder.recycles
      BY <1>a, <3>1, <3>2, <3>3 DEF SpentInStep, CountType, Popping
    <3>5. \A j \in Popping' : /\ seen'[j] < RecycleMax
                              /\ holder'.recycles = IF hot' THEN seen'[j] + 1 ELSE seen'[j]
      BY <3>1, <3>3, <3>4
    <3>6. made' + Due' <= Cardinality(Callers) * holder'.recycles
      BY <3>1, <3>3 DEF SpentInStep, Due
    <3> QED
      BY <3>1, <3>5, <3>6 DEF SpentInStep
  <2> QED
    BY <2>1, <2>2
<1>2. ASSUME NEW k \in Callers, Pop(k)
      PROVE  SpentInStep'
  BY <1>2, SpentByPop
<1>3. CASE Cool
  <2>1. Popping = {} /\ Popping' = {}
    BY <1>3 DEF Cool, Decided, At, Popping
  <2>2. Due = 0 /\ Due' = 0
    BY <2>1, <1>3, FS_EmptySet DEF Cool, Due
  <2> QED
    BY <1>3, <2>1, <2>2 DEF Cool, SpentInStep
<1>4. CASE Expire
  <2>1. Popping' = {}
    BY <1>4 DEF Expire, Decided, At, Popping
  <2>2. ~hot' /\ made' = 0 /\ holder'.recycles = 0
    BY <1>4, <1>a DEF Expire, HolderType
  <2>3. Due' = 0
    BY <2>2 DEF Due
  <2>4. Cardinality(Callers) * 0 = 0
    BY CallersCounted
  <2> QED
    BY <2>1, <2>2, <2>3, <2>4, BrowserAssumption DEF SpentInStep
<1>5. ASSUME Popping' = Popping, UNCHANGED <<hot, made, seen>>,
             holder'.recycles = holder.recycles
      PROVE  SpentInStep'
  BY <1>5 DEF SpentInStep, Due
<1>6. ASSUME NEW k \in Callers, Ensure(k) \/ Pick(k) \/ Discard(k) \/ Again(k)
      PROVE  SpentInStep'
  BY <1>5, <1>6, <1>a DEF Ensure, Pick, Discard, Again, At, Goto, Popping, CallerType
<1>7. ASSUME NEW k \in Callers, Close(k) \/ Build(k)
      PROVE  SpentInStep'
  BY <1>5, <1>7, <1>a DEF Close, Build, At, Goto, Popping, CallerType, HolderType
<1>8. ASSUME NEW k \in Callers, Enter(k) \/ Call(k) \/ Leave(k)
      PROVE  SpentInStep'
  BY <1>5, <1>8, <1>a DEF Enter, Call, Leave, At, Goto, Popping, CallerType
<1>9. CASE ChromeDies \/ ServerFaults \/ UNCHANGED vars
  BY <1>5, <1>9 DEF ChromeDies, ServerFaults, vars, Popping
<1> QED
  BY <1>1, <1>2, <1>3, <1>4, <1>6, <1>7, <1>8, <1>9 DEF Next, World, Step

\* Whatever the order in which callers, faults and clocks come.
THEOREM Invariance == Spec => []IInv
<1>1. ASSUME IInv, [Next]_vars
      PROVE  IInv'
  <2>1. ClientType' /\ CorpseStaysDead'
    BY <1>1, ClientStep DEF IInv
  <2>2. CallerType' /\ InHand'
    BY <1>1, CallerStep DEF IInv
  <2>3. LockType' /\ LockHeld'
    BY <1>1, LockStep DEF IInv
  <2>4. ChromeType' /\ HolderType' /\ CountType'
    BY <1>1, RestStep DEF IInv
  <2>5. TypeOK'
    BY <2>1, <2>2, <2>3, <2>4
       DEF TypeOK, ClientType, CallerType, ChromeType, LockType, HolderType, CountType, Server, Places
  <2>6. SpentInStep'
    BY <1>1, SpentStep DEF IInv
  <2> QED
    BY <2>1, <2>2, <2>3, <2>5, <2>6 DEF IInv
<1> QED
  BY InitInv, <1>1, PTL DEF Spec

(* Every variable keeps its type (daemon.py, browser/client.py). *)
THEOREM TypeCorrect == Spec => []TypeOK
<1>1. IInv => TypeOK
  BY DEF IInv
<1> QED
  BY Invariance, <1>1, PTL

(* What the factory may start is bounded: a client that was closed has no    *)
(* server and never gets one, whoever still holds a reference to it, and in   *)
(* an hour each caller spends the allowance at most once                      *)
(* (BrowserClient._retired, recycle_browser_client).                          *)
THEOREM ServersBounded == Spec => []ServersAreBounded
<1>1. IInv => ServersAreBounded
  <2> SUFFICES ASSUME IInv PROVE ServersAreBounded
    OBVIOUS
  <2> DEFINE N == Cardinality(Callers)
             r == holder.recycles
  <2>1. N \in Nat /\ r \in Nat /\ r <= RecycleMax /\ RecycleMax \in Nat
    BY CallersCounted, Types, BrowserAssumption DEF IInv, SpentInStep, HolderType
  <2>2. made \in Nat /\ Due \in Nat
    BY CallersCounted, Types DEF IInv, CountType, Due
  <2>3. made + Due <= N * r
    BY DEF IInv, SpentInStep
  <2>4. N * r <= RecycleMax * N /\ N * r \in Nat /\ RecycleMax * N \in Nat
    <3> HIDE DEF N, r
    <3> QED
      BY <2>1
  <2>5. made <= RecycleMax * N
    <3> HIDE DEF N, r
    <3> QED
      BY <2>2, <2>3, <2>4
  <2> QED
    BY <2>5 DEF IInv, ServersAreBounded, AllowanceHolds
<1> QED
  BY Invariance, <1>1, PTL

(* No caller's client is retired between its first and its last call of a   *)
(* bracket: close waits for the lock the bracket holds.                      *)
THEOREM BracketsAreWhole == Spec => BracketIsWhole
<1>1. ASSUME IInv, [Next]_vars
      PROVE  BracketsAreKept
  <2> SUFFICES ASSUME NEW k \in Callers, pc[k] = "in"
               PROVE  client'[my[k]].retired = client[my[k]].retired
    BY DEF BracketsAreKept
  <2>a. ClientType /\ CallerType
    BY <1>1, Types DEF IInv
  <2>b. my[k] \in Clients /\ lock[my[k]] = k /\ k # NoCaller
    BY <1>1, BrowserAssumption DEF IInv, InHand, LockHeld
  <2> USE <2>a, <2>b DEF ClientType
  <2>1. ASSUME NEW j \in Callers, Discard(j)
        PROVE  client'[my[k]].retired = client[my[k]].retired
    BY <2>1 DEF Discard, Server
  <2>2. ASSUME NEW j \in Callers, Close(j)
        PROVE  client'[my[k]].retired = client[my[k]].retired
    <3>1. my[j] # my[k]
      BY <2>2 DEF Close, Free
    <3> QED
      BY <2>2, <3>1 DEF Close
  <2>3. ASSUME NEW j \in Callers, Build(j)
        PROVE  client'[my[k]].retired = client[my[k]].retired
    <3>1. PICK c \in Clients : Unused(c) /\ client' = [client EXCEPT ![c] = Fresh(given[j])]
      BY <2>3 DEF Build
    <3>2. my[k] # c
      BY <3>1 DEF Unused
    <3> QED
      BY <3>1, <3>2
  <2>4. ASSUME NEW j \in Callers, Enter(j) \/ Call(j)
        PROVE  client'[my[k]].retired = client[my[k]].retired
    <3>1. my[j] \in Clients /\ Called(my[j])
      BY <1>1, <2>4 DEF IInv, InHand, Enter, Call, At
    <3> QED
      BY <3>1, CallKeeps DEF Server
  <2>5. CASE ChromeDies \/ ServerFaults
    <3>1. \A c \in Clients : client'[c].retired = client[c].retired
      <4>1. CASE ChromeDies
        BY <4>1, Touched DEF ChromeDies
      <4>2. ASSUME NEW c \in Clients,
                   \/ client' = [client EXCEPT ![c].link = FALSE]
                   \/ client' = [client EXCEPT ![c].link = FALSE, ![c].proc = "dead"]
            PROVE  \A d \in Clients : client'[d].retired = client[d].retired
        BY <4>2 DEF Server
      <4> QED
        BY <2>5, <4>1, <4>2 DEF ServerFaults
    <3> QED
      BY <3>1
  <2>6. CASE UNCHANGED client
    BY <2>6
  <2> QED
    BY <1>1, <2>1, <2>2, <2>3, <2>4, <2>5, <2>6
       DEF Next, World, Step, vars, Ensure, Pick, Recycle, Pop, Again, Leave, Cool, Expire
<1> QED
  BY Invariance, <1>1, PTL DEF Spec, BracketIsWhole
=============================================================================
