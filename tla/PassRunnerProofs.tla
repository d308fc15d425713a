-------------------------- MODULE PassRunnerProofs --------------------------
(***************************************************************************)
(* What the pass runner keeps for any number of passes, threads of the     *)
(* scheduler, crashes, stops and pauses: a verdict is written once, and    *)
(* only a pass that this daemon runs reaches a send tool.                  *)
(***************************************************************************)
EXTENDS PassRunner, TLAPS

\* Where a thread holds a pass, where its verdict is open, where its token lives.
Holding == {"prepare", "stage", "spawn", "watch", "finish", "revoke"}
Judging == {"prepare", "stage", "spawn", "watch", "finish"}
Armed == {"stage", "spawn", "watch", "finish", "revoke"}

\* One run of the lane at a time: the flag is up while a thread is in it.
OneRun == /\ \A w \in Workers : ~At(w, "off") => busy
          /\ \A v, w \in Workers : ~At(v, "off") /\ ~At(w, "off") => v = w

\* A thread in a run holds a pass, whose verdict is still open before it settles.
PassHeld == \A w \in Workers : worker[w].pc \in Holding => worker[w].pass \in Passes
VerdictOpen == \A w \in Workers : worker[w].pc \in Judging =>
                                       row[worker[w].pass].status = "running"

\* A token is honoured only while a thread is inside the run it was made for,
\* or for a pass that was never spawned.
TokenHeld == \A p \in token : \/ \E w \in Workers : worker[w].pc \in Armed /\ worker[w].pass = p
                             \/ proc[p] = "none"

\* A pass has no process before its run spawns it.
Unspawned == /\ \A p \in Passes : row[p].status \in {"none", "queued"} => proc[p] = "none"
             /\ \A w \in Workers : worker[w].pc \in {"prepare", "stage", "spawn"} =>
                                      proc[worker[w].pass] = "none"

\* The inductive invariant.
IInv == TypeOK /\ OneRun /\ PassHeld /\ VerdictOpen /\ TokenHeld /\ Unspawned

\* The types of a row and of a thread, by name.
Rows == [status : {"none", "queued", "running"} \cup Terminal,
         class : {"none", "ok", "no_send", "error", "spawn_error", "stale",
                  "timeout", "stopped", "paused"}]
States == [pc : {"off", "sweep", "look", "claim", "prepare", "stage", "spawn", "watch",
                 "finish", "revoke", "end"},
           pass : 0..Last, killed : {"no", "timeout", "stopped", "paused"}]
RowType == row \in [Passes -> Rows]
ThreadType == worker \in [Workers -> States]
RestType == /\ age \in [Passes -> 0..2] /\ proc \in [Passes -> {"none", "both", "child", "gone"}]
            /\ token \subseteq Passes /\ tracked \subseteq Passes /\ sent \subseteq Passes
            /\ busy \in BOOLEAN /\ daemon \in {"down", "up", "stopping"} /\ paused \in BOOLEAN
            /\ trouble \in 0..MaxTrouble

LEMMA Types == TypeOK <=> RowType /\ ThreadType /\ RestType
  BY DEF TypeOK, RowType, ThreadType, RestType, Rows, States

LEMMA OffState == Off \in States
  BY PassAssumption DEF Off, States

LEMMA PassNumber == \A p \in Passes : p \in 0..Last
  BY PassAssumption DEF Passes

\* A claim finds nothing to do, or takes one pass from the queue.
LEMMA ClaimCases ==
  ASSUME NEW w \in Workers, Claim(w)
  PROVE  /\ At(w, "claim") /\ UNCHANGED <<proc, token, tracked, sent, busy, daemon, world>>
         /\ \/ Goto(w, "end") /\ UNCHANGED <<row, age>>
            \/ \E p \in Passes :
                  /\ row[p].status = "queued"
                  /\ row' = [row EXCEPT ![p].status = "running"]
                  /\ age' = [age EXCEPT ![p] = 0]
                  /\ worker' = [worker EXCEPT ![w] = [Off EXCEPT !.pc = "prepare", !.pass = p]]
  BY DEF Claim

LEMMA ClassType ==
  ASSUME ThreadType, NEW w \in Workers, NEW rc \in {0, 1}
  PROVE  Class(w, rc) \in {"ok", "no_send", "error", "timeout", "stopped", "paused"}
<1>1. worker[w].killed \in {"no", "timeout", "stopped", "paused"}
  BY DEF ThreadType, States
<1> QED
  BY <1>1 DEF Class

LEMMA InitInv ==
  ASSUME Init
  PROVE  IInv
<1> USE PassAssumption DEF Init
<1>1. TypeOK
  <2>1. [status |-> "none", class |-> "none"] \in Rows
    BY DEF Rows
  <2>2. RowType
    BY <2>1 DEF RowType
  <2>3. 0 \in 0..2 /\ 0 \in 0..MaxTrouble
    OBVIOUS
  <2>4. RestType
    BY <2>3 DEF RestType
  <2>5. ThreadType
    BY OffState DEF ThreadType
  <2> QED
    BY <2>2, <2>4, <2>5, Types
<1>2. OneRun
  BY DEF OneRun, At, Off
<1>3. PassHeld /\ VerdictOpen /\ TokenHeld /\ Unspawned
  BY DEF PassHeld, VerdictOpen, TokenHeld, Unspawned, Holding, Judging, Off
<1> QED
  BY <1>1, <1>2, <1>3 DEF IInv

\* A row that is given a verdict, or the next status, is a row.
LEMMA RowStep ==
  ASSUME TypeOK, [Next]_vars
  PROVE  RowType'
<1>a. RowType
  BY Types
<1>b. \A p \in Passes : row[p] \in Rows
  BY <1>a DEF RowType
<1>c. ThreadType
  BY Types
<1> USE <1>a DEF RowType, Goto, world
<1>1. ASSUME NEW w \in Workers,
             \/ ClaimDue(w) \/ Look(w) \/ TaskEnd(w) \/ Revoke(w) \/ Spawn(w)
             \/ Babysit(w) \/ ConfirmDead(w) \/ Waited(w)
      PROVE  RowType'
  BY <1>1 DEF ClaimDue, Look, TaskEnd, Revoke, Spawn, Babysit, ConfirmDead, Waited
<1>2. ASSUME NEW w \in Workers, Sweep(w)
      PROVE  RowType'
  BY <1>2, <1>b DEF Sweep, Rows, Terminal
<1>3. ASSUME NEW w \in Workers, Claim(w)
      PROVE  RowType'
  <2>1. ASSUME NEW p \in Passes, row' = [row EXCEPT ![p].status = "running"]
        PROVE  RowType'
    BY <2>1, <1>b DEF Rows
  <2> QED
    BY <1>3, <2>1, ClaimCases
<1>4. ASSUME NEW w \in Workers, Prepare(w)
      PROVE  RowType'
  BY <1>4 DEF Prepare, Finish, Rows, Terminal
<1>5. ASSUME NEW w \in Workers, Stage(w)
      PROVE  RowType'
  BY <1>5 DEF Stage, Finish, Rows, Terminal
<1>6. ASSUME NEW w \in Workers, Settle(w)
      PROVE  RowType'
  <2>1. PICK rc \in {0, 1} :
            row' = [row EXCEPT ![worker[w].pass] =
                      [status |-> IF Class(w, rc) = "ok" THEN "done" ELSE "error",
                       class |-> Class(w, rc)]]
    BY <1>6 DEF Settle, Finish
  <2>2. Class(w, rc) \in {"ok", "no_send", "error", "timeout", "stopped", "paused"}
    BY <1>c, ClassType
  <2> QED
    BY <2>1, <2>2 DEF Rows, Terminal
<1>7. ASSUME NEW p \in Passes, Enqueue(p)
      PROVE  RowType'
  BY <1>7, <1>b DEF Enqueue, Rows
<1>8. ASSUME NEW p \in Passes, Exits(p) \/ Call(p) \/ Ages(p)
      PROVE  RowType'
  BY <1>8 DEF Exits, Call, Ages
<1>9. ASSUME Boot \/ Stop \/ Pause \/ Resume \/ Reap
      PROVE  RowType'
  BY <1>9 DEF Boot, Stop, Pause, Resume, Reap
<1>10. ASSUME Exit \/ Crash
      PROVE  RowType'
  BY <1>10 DEF Exit, Forget, Crash
<1>11. CASE UNCHANGED vars
  BY <1>11 DEF vars, RowType
<1> QED
  BY <1>1, <1>2, <1>3, <1>4, <1>5, <1>6, <1>7, <1>8, <1>9, <1>10, <1>11 DEF Next, Run

\* A thread that goes on, or takes a pass, or ends, is a thread.
LEMMA ThreadStep ==
  ASSUME TypeOK, [Next]_vars
  PROVE  ThreadType'
<1>a. ThreadType
  BY Types
<1>b. ASSUME NEW w \in Workers, NEW pc \in {"sweep", "look", "claim", "stage", "spawn", "watch",
                                           "finish", "revoke", "end"}, Goto(w, pc)
      PROVE  ThreadType'
  BY <1>a, <1>b DEF ThreadType, States, Goto
<1> USE <1>a DEF ThreadType, world
<1>1. ASSUME NEW w \in Workers, ClaimDue(w)
      PROVE  ThreadType'
  BY <1>1, <1>b DEF ClaimDue
<1>2. ASSUME NEW w \in Workers, Sweep(w) \/ Look(w)
      PROVE  ThreadType'
  BY <1>2, <1>b DEF Sweep, Look
<1>3. ASSUME NEW w \in Workers, Prepare(w)
      PROVE  ThreadType'
  BY <1>3, <1>b DEF Prepare, Finish
<1>4. ASSUME NEW w \in Workers, Stage(w)
      PROVE  ThreadType'
  BY <1>4, <1>b DEF Stage, Finish
<1>5. ASSUME NEW w \in Workers, Spawn(w)
      PROVE  ThreadType'
  BY <1>5, <1>b DEF Spawn
<1>6. ASSUME NEW w \in Workers, Waited(w)
      PROVE  ThreadType'
  BY <1>6, <1>b DEF Waited
<1>7. ASSUME NEW w \in Workers, Settle(w)
      PROVE  ThreadType'
  BY <1>7, <1>b DEF Settle, Finish
<1>8. ASSUME NEW w \in Workers, Revoke(w)
      PROVE  ThreadType'
  BY <1>8, <1>b DEF Revoke
<1>9. ASSUME NEW w \in Workers, Claim(w)
      PROVE  ThreadType'
  BY <1>9, <1>b, PassNumber DEF Claim, Off, States
<1>10. ASSUME NEW w \in Workers, Babysit(w)
      PROVE  ThreadType'
  BY <1>10 DEF Babysit, Reason, States
<1>11. ASSUME NEW w \in Workers, TaskEnd(w)
      PROVE  ThreadType'
  BY <1>11, OffState DEF TaskEnd
<1>12. ASSUME NEW w \in Workers, ConfirmDead(w)
      PROVE  ThreadType'
  BY <1>12 DEF ConfirmDead
<1>13. ASSUME NEW p \in Passes, Enqueue(p) \/ Exits(p) \/ Call(p) \/ Ages(p)
      PROVE  ThreadType'
  BY <1>13 DEF Enqueue, Exits, Call, Ages
<1>14. ASSUME Boot \/ Stop \/ Pause \/ Resume \/ Reap
      PROVE  ThreadType'
  BY <1>14 DEF Boot, Stop, Pause, Resume, Reap
<1>15. ASSUME Exit \/ Crash
      PROVE  ThreadType'
  BY <1>15, OffState DEF Exit, Forget, Crash
<1>16. CASE UNCHANGED vars
  BY <1>16 DEF vars, ThreadType
<1> QED
  BY <1>1, <1>2, <1>3, <1>4, <1>5, <1>6, <1>7, <1>8, <1>9, <1>10, <1>11, <1>12,
     <1>13, <1>14, <1>15, <1>16 DEF Next, Run

LEMMA RestStep ==
  ASSUME TypeOK, PassHeld, [Next]_vars
  PROVE  RestType'
<1>a. RestType
  BY Types
<1>h. \A w \in Workers : worker[w].pc \in Holding => worker[w].pass \in Passes
  BY DEF PassHeld
<1> USE PassAssumption, <1>a DEF RestType, world
<1>1. ASSUME NEW w \in Workers, ClaimDue(w) \/ Sweep(w) \/ Look(w)
      PROVE  RestType'
  BY <1>1 DEF ClaimDue, Sweep, Look
<1>2. ASSUME NEW w \in Workers, Claim(w)
      PROVE  RestType'
  <2>1. UNCHANGED <<proc, token, tracked, sent, busy, daemon, paused, trouble>>
    BY <1>2 DEF Claim
  <2>2. age' = age \/ \E p \in Passes : age' = [age EXCEPT ![p] = 0]
    BY <1>2, ClaimCases
  <2> QED
    BY <2>1, <2>2
<1>3. ASSUME NEW w \in Workers, Prepare(w)
      PROVE  RestType'
  BY <1>3, <1>h DEF Prepare, Finish, At, Holding
<1>4. ASSUME NEW w \in Workers, Stage(w)
      PROVE  RestType'
  BY <1>4 DEF Stage, Finish
<1>5. ASSUME NEW w \in Workers, Spawn(w)
      PROVE  RestType'
  BY <1>5, <1>h DEF Spawn, At, Holding
<1>6. ASSUME NEW w \in Workers,
             Babysit(w) \/ ConfirmDead(w) \/ Waited(w) \/ Settle(w) \/ Revoke(w) \/ TaskEnd(w)
      PROVE  RestType'
  BY <1>6 DEF Babysit, ConfirmDead, Waited, Settle, Finish, Revoke, TaskEnd
<1>7. ASSUME NEW p \in Passes, Enqueue(p) \/ Exits(p) \/ Call(p)
      PROVE  RestType'
  BY <1>7 DEF Enqueue, Exits, Call
<1>8. ASSUME NEW p \in Passes, Ages(p)
      PROVE  RestType'
  BY <1>8 DEF Ages
<1>9. ASSUME Boot \/ Stop \/ Pause \/ Resume \/ Reap
      PROVE  RestType'
  <2>1. CASE Boot \/ Resume
    BY <2>1 DEF Boot, Resume
  <2>2. CASE Stop \/ Pause
    <3>1. trouble' \in 0..MaxTrouble
      BY <2>2 DEF Stop, Pause
    <3> QED
      BY <2>2, <3>1 DEF Stop, Pause
  <2>3. CASE Reap
    BY <2>3 DEF Reap
  <2> QED
    BY <1>9, <2>1, <2>2, <2>3
<1>10. ASSUME Exit \/ Crash
      PROVE  RestType'
  <2>1. trouble' \in 0..MaxTrouble
    BY <1>10 DEF Exit, Crash
  <2> QED
    BY <1>10, <2>1 DEF Exit, Crash, Forget
<1>11. CASE UNCHANGED vars
  BY <1>11 DEF vars, RestType
<1> QED
  BY <1>1, <1>2, <1>3, <1>4, <1>5, <1>6, <1>7, <1>8, <1>9, <1>10, <1>11 DEF Next, Run

LEMMA TypeStep ==
  ASSUME TypeOK, PassHeld, [Next]_vars
  PROVE  TypeOK'
<1>1. RowType' /\ ThreadType' /\ RestType'
  BY RowStep, ThreadStep, RestStep
<1> QED
  BY <1>1 DEF TypeOK, RowType, ThreadType, RestType, Rows, States

\* Where a run begins, the flag was down, and where it ends the flag goes down.
LEMMA OneRunStep ==
  ASSUME TypeOK, OneRun, [Next]_vars
  PROVE  OneRun'
<1>a. RowType /\ ThreadType
  BY Types
<1> USE <1>a DEF ThreadType, States, OneRun, At, Goto, Off
<1>1. ASSUME NEW w \in Workers, ClaimDue(w)
      PROVE  OneRun'
  BY <1>1 DEF ClaimDue
<1>2. ASSUME NEW w \in Workers, TaskEnd(w)
      PROVE  OneRun'
  BY <1>2 DEF TaskEnd
<1>3. ASSUME NEW w \in Workers,
             Sweep(w) \/ Look(w) \/ Prepare(w) \/ Stage(w) \/ Spawn(w)
      PROVE  OneRun'
  BY <1>3 DEF Sweep, Look, Prepare, Finish, Stage, Spawn
<1>c. ASSUME NEW w \in Workers, Claim(w)
      PROVE  OneRun'
  <2>1. At(w, "claim") /\ busy' = busy
    BY <1>c DEF Claim
  <2>2. \A v \in Workers : v # w => worker'[v] = worker[v]
    <3>1. CASE Goto(w, "end")
      BY <3>1
    <3>2. ASSUME NEW s, worker' = [worker EXCEPT ![w] = s]
          PROVE  \A v \in Workers : v # w => worker'[v] = worker[v]
      BY <3>2
    <3> QED
      BY <1>c, <3>1, <3>2, ClaimCases
  <2>3. \A v \in Workers : ~At(v, "off")' => ~At(v, "off")
    BY <2>1, <2>2
  <2> QED
    BY <2>1, <2>3
<1>4. ASSUME NEW w \in Workers,
             Babysit(w) \/ ConfirmDead(w) \/ Waited(w) \/ Settle(w) \/ Revoke(w)
      PROVE  OneRun'
  BY <1>4 DEF Babysit, ConfirmDead, Waited, Settle, Finish, Revoke
<1>5. ASSUME NEW p \in Passes, Enqueue(p) \/ Exits(p) \/ Call(p) \/ Ages(p)
      PROVE  OneRun'
  BY <1>5 DEF Enqueue, Exits, Call, Ages
<1>6. ASSUME Boot \/ Stop \/ Pause \/ Resume \/ Reap
      PROVE  OneRun'
  BY <1>6 DEF Boot, Stop, Pause, Resume, Reap, world
<1>7. ASSUME Exit \/ Crash
      PROVE  OneRun'
  BY <1>7 DEF Exit, Forget, Crash, world
<1>8. CASE UNCHANGED vars
  BY <1>8 DEF vars, OneRun
<1> QED
  BY <1>1, <1>2, <1>3, <1>c, <1>4, <1>5, <1>6, <1>7, <1>8 DEF Next, Run

\* Claim is the only step that gives a thread a pass, and it takes it from the queue.
LEMMA HeldStep ==
  ASSUME TypeOK, PassHeld, [Next]_vars
  PROVE  PassHeld'
<1>a. RowType /\ ThreadType
  BY Types
<1> USE <1>a DEF ThreadType, States, PassHeld, Holding, At, Goto, Off
<1>1. ASSUME NEW w \in Workers, ClaimDue(w) \/ Sweep(w) \/ Look(w) \/ TaskEnd(w)
      PROVE  PassHeld'
  BY <1>1 DEF ClaimDue, Sweep, Look, TaskEnd
<1>2. ASSUME NEW w \in Workers, Claim(w)
      PROVE  PassHeld'
  BY <1>2 DEF Claim
<1>3. ASSUME NEW w \in Workers, Prepare(w) \/ Stage(w) \/ Spawn(w)
      PROVE  PassHeld'
  BY <1>3 DEF Prepare, Finish, Stage, Spawn
<1>4. ASSUME NEW w \in Workers,
             Babysit(w) \/ ConfirmDead(w) \/ Waited(w) \/ Settle(w) \/ Revoke(w)
      PROVE  PassHeld'
  BY <1>4 DEF Babysit, ConfirmDead, Waited, Settle, Finish, Revoke
<1>5. ASSUME NEW p \in Passes, Enqueue(p) \/ Exits(p) \/ Call(p) \/ Ages(p)
      PROVE  PassHeld'
  BY <1>5 DEF Enqueue, Exits, Call, Ages
<1>6. ASSUME Boot \/ Stop \/ Pause \/ Resume \/ Reap
      PROVE  PassHeld'
  BY <1>6 DEF Boot, Stop, Pause, Resume, Reap, world
<1>7. ASSUME Exit \/ Crash
      PROVE  PassHeld'
  BY <1>7 DEF Exit, Forget, Crash, world
<1>8. CASE UNCHANGED vars
  BY <1>8 DEF vars, PassHeld
<1> QED
  BY <1>1, <1>2, <1>3, <1>4, <1>5, <1>6, <1>7, <1>8 DEF Next, Run

\* The sweep writes rows only while it is the one run there is, and a run stops
\* judging as soon as it has written.
LEMMA OpenStep ==
  ASSUME TypeOK, OneRun, PassHeld, VerdictOpen, [Next]_vars
  PROVE  VerdictOpen'
<1>a. RowType /\ ThreadType
  BY Types
<1> USE <1>a DEF ThreadType, States, RowType, VerdictOpen, Judging, At, Goto, Off
<1>1. ASSUME NEW w \in Workers, ClaimDue(w) \/ Look(w) \/ TaskEnd(w) \/ Revoke(w)
      PROVE  VerdictOpen'
  BY <1>1 DEF ClaimDue, Look, TaskEnd, Revoke
<1>2. ASSUME NEW w \in Workers, Sweep(w)
      PROVE  VerdictOpen'
  BY <1>2 DEF Sweep, OneRun
<1>3. ASSUME NEW w \in Workers, Claim(w)
      PROVE  VerdictOpen'
  <2>1. \A v \in Workers : v # w => At(v, "off")
    BY <1>3 DEF Claim, OneRun
  <2>2. CASE Goto(w, "end") /\ UNCHANGED <<row, age>>
    BY <2>1, <2>2
  <2>3. ASSUME NEW p \in Passes,
               row' = [row EXCEPT ![p].status = "running"],
               worker' = [worker EXCEPT ![w] = [Off EXCEPT !.pc = "prepare", !.pass = p]]
        PROVE  VerdictOpen'
    <3>1. worker'[w].pass = p /\ row'[p].status = "running"
      BY <2>3 DEF Rows
    <3>2. \A v \in Workers : v # w => worker'[v].pc = "off"
      BY <2>1, <2>3
    <3> QED
      BY <3>1, <3>2
  <2> QED
    BY <1>3, <2>2, <2>3, ClaimCases
<1>4. ASSUME NEW w \in Workers, Prepare(w)
      PROVE  VerdictOpen'
  BY <1>4 DEF Prepare, Finish, OneRun
<1>5. ASSUME NEW w \in Workers, Stage(w)
      PROVE  VerdictOpen'
  BY <1>5 DEF Stage, Finish, OneRun
<1>6. ASSUME NEW w \in Workers, Settle(w)
      PROVE  VerdictOpen'
  BY <1>6 DEF Settle, Finish, OneRun
<1>7. ASSUME NEW w \in Workers,
             Spawn(w) \/ Babysit(w) \/ ConfirmDead(w) \/ Waited(w)
      PROVE  VerdictOpen'
  BY <1>7 DEF Spawn, Babysit, ConfirmDead, Waited
<1>8. ASSUME NEW p \in Passes, Enqueue(p)
      PROVE  VerdictOpen'
  BY <1>8 DEF Enqueue, PassHeld, Holding
<1>9. ASSUME NEW p \in Passes, Exits(p) \/ Call(p) \/ Ages(p)
      PROVE  VerdictOpen'
  BY <1>9 DEF Exits, Call, Ages
<1>10. ASSUME Boot \/ Stop \/ Pause \/ Resume \/ Reap
      PROVE  VerdictOpen'
  BY <1>10 DEF Boot, Stop, Pause, Resume, Reap, world
<1>11. ASSUME Exit \/ Crash
      PROVE  VerdictOpen'
  BY <1>11 DEF Exit, Forget, Crash, world
<1>12. CASE UNCHANGED vars
  BY <1>12 DEF vars, VerdictOpen
<1> QED
  BY <1>1, <1>2, <1>3, <1>4, <1>5, <1>6, <1>7, <1>8, <1>9, <1>10, <1>11, <1>12 DEF Next, Run

\* A token is made at the start of a run and revoked at its end, or dies with the daemon.
LEMMA TokenStep ==
  ASSUME TypeOK, OneRun, PassHeld, TokenHeld, Unspawned, [Next]_vars
  PROVE  TokenHeld'
<1>a. RowType /\ ThreadType /\ RestType
  BY Types
<1> USE <1>a DEF ThreadType, States, TokenHeld, Armed, At, Goto, Off
<1>1. ASSUME NEW w \in Workers,
             ClaimDue(w) \/ TaskEnd(w) \/ Sweep(w) \/ Look(w) \/ Claim(w)
      PROVE  TokenHeld'
  BY <1>1 DEF ClaimDue, TaskEnd, Sweep, Look, Claim, OneRun
<1>2. ASSUME NEW w \in Workers, Prepare(w)
      PROVE  TokenHeld'
  BY <1>2 DEF Prepare, Finish, PassHeld, Holding, Unspawned
<1>3. ASSUME NEW w \in Workers, Stage(w)
      PROVE  TokenHeld'
  BY <1>3 DEF Stage, Finish
<1>4. ASSUME NEW w \in Workers, Settle(w)
      PROVE  TokenHeld'
  BY <1>4 DEF Settle, Finish
<1>5. ASSUME NEW w \in Workers, Revoke(w)
      PROVE  TokenHeld'
  BY <1>5 DEF Revoke
<1>6. ASSUME NEW w \in Workers, Spawn(w)
      PROVE  TokenHeld'
  <2>1. CASE UNCHANGED <<proc, tracked>>
    BY <1>6, <2>1 DEF Spawn
  <2>2. CASE proc' = [proc EXCEPT ![worker[w].pass] = "both"] /\ Goto(w, "watch")
    <3>1. \A p \in Passes : p # worker[w].pass => proc'[p] = proc[p]
      BY <2>2 DEF RestType
    <3>2. token' = token /\ At(w, "spawn") /\ token \subseteq Passes
      BY <1>6 DEF Spawn, RestType
    <3>3. worker'[w].pc = "watch" /\ worker'[w].pass = worker[w].pass
      BY <2>2
    <3>4. \A v \in Workers : v # w => worker'[v] = worker[v]
      BY <2>2
    <3> QED
      BY <3>1, <3>2, <3>3, <3>4
  <2> QED
    BY <1>6, <2>1, <2>2 DEF Spawn
<1>7. ASSUME NEW w \in Workers, Babysit(w)
      PROVE  TokenHeld'
  BY <1>7 DEF Babysit
<1>8. ASSUME NEW w \in Workers, ConfirmDead(w)
      PROVE  TokenHeld'
  BY <1>8 DEF ConfirmDead
<1>9. ASSUME NEW w \in Workers, Waited(w)
      PROVE  TokenHeld'
  BY <1>9 DEF Waited
<1>10. ASSUME NEW p \in Passes, Enqueue(p) \/ Exits(p) \/ Call(p) \/ Ages(p)
      PROVE  TokenHeld'
  BY <1>10 DEF Enqueue, Exits, Call, Ages, RestType
<1>11. ASSUME Boot \/ Stop \/ Pause \/ Resume \/ Reap
      PROVE  TokenHeld'
  BY <1>11 DEF Boot, Stop, Pause, Resume, Reap, world, RestType
<1>12. ASSUME Exit \/ Crash
      PROVE  TokenHeld'
  BY <1>12 DEF Exit, Forget, Crash, world
<1>13. CASE UNCHANGED vars
  BY <1>13 DEF vars, TokenHeld
<1> QED
  BY <1>1, <1>2, <1>3, <1>4, <1>5, <1>6, <1>7, <1>8, <1>9, <1>10, <1>11, <1>12, <1>13 DEF Next, Run

\* A run takes its pass from the queue, and the process is born in its own run.
LEMMA SpawnStep ==
  ASSUME TypeOK, OneRun, PassHeld, VerdictOpen, Unspawned, [Next]_vars
  PROVE  Unspawned'
<1>a. RowType /\ ThreadType /\ RestType
  BY Types
<1> USE <1>a DEF RowType, Rows, ThreadType, States, RestType, Unspawned, At, Goto, Off
<1>1. ASSUME NEW w \in Workers,
             ClaimDue(w) \/ TaskEnd(w) \/ Look(w) \/ Waited(w) \/ Revoke(w) \/ Babysit(w)
      PROVE  Unspawned'
  BY <1>1 DEF ClaimDue, TaskEnd, Look, Waited, Revoke, Babysit
<1>2. ASSUME NEW w \in Workers, Sweep(w)
      PROVE  Unspawned'
  BY <1>2 DEF Sweep
<1>3. ASSUME NEW w \in Workers, Claim(w)
      PROVE  Unspawned'
  <2>1. proc' = proc
    BY <1>3, ClaimCases
  <2>2. CASE Goto(w, "end") /\ UNCHANGED <<row, age>>
    BY <2>1, <2>2
  <2>3. ASSUME NEW p \in Passes, row[p].status = "queued",
               row' = [row EXCEPT ![p].status = "running"],
               worker' = [worker EXCEPT ![w] = [Off EXCEPT !.pc = "prepare", !.pass = p]]
        PROVE  Unspawned'
    <3>1. worker'[w].pass = p /\ proc[p] = "none"
      BY <2>3
    <3>2. \A v \in Workers : v # w => worker'[v] = worker[v]
      BY <2>3
    <3>3. \A q \in Passes : row'[q].status \in {"none", "queued"} =>
                                 row[q].status \in {"none", "queued"}
      BY <2>3
    <3> QED
      BY <2>1, <3>1, <3>2, <3>3
  <2> QED
    BY <1>3, <2>2, <2>3, ClaimCases
<1>4. ASSUME NEW w \in Workers, Prepare(w) \/ Stage(w)
      PROVE  Unspawned'
  <2>1. proc' = proc
    BY <1>4 DEF Prepare, Stage
  <2>2. \A q \in Passes : row'[q].status \in {"none", "queued"} =>
                               row[q].status \in {"none", "queued"}
    BY <1>4 DEF Prepare, Stage, Finish
  <2>3. worker'[w].pass = worker[w].pass /\ worker[w].pc \in {"prepare", "stage"}
    BY <1>4 DEF Prepare, Stage
  <2>4. \A v \in Workers : v # w => worker'[v] = worker[v]
    BY <1>4 DEF Prepare, Stage
  <2> QED
    BY <2>1, <2>2, <2>3, <2>4
<1>5. ASSUME NEW w \in Workers, Spawn(w)
      PROVE  Unspawned'
  <2>1. worker[w].pass \in Passes /\ row[worker[w].pass].status = "running"
    BY <1>5 DEF Spawn, PassHeld, Holding, VerdictOpen, Judging
  <2>2. \A v \in Workers : v # w => worker[v].pc = "off"
    BY <1>5 DEF Spawn, OneRun
  <2> QED
    BY <1>5, <2>1, <2>2 DEF Spawn
<1>6. ASSUME NEW w \in Workers, Settle(w)
      PROVE  Unspawned'
  BY <1>6 DEF Settle, Finish
<1>7. ASSUME NEW w \in Workers, ConfirmDead(w)
      PROVE  Unspawned'
  BY <1>7 DEF ConfirmDead, PassHeld, Holding
<1>8. ASSUME NEW p \in Passes, Enqueue(p)
      PROVE  Unspawned'
  BY <1>8 DEF Enqueue
<1>9. ASSUME NEW p \in Passes, Exits(p) \/ Call(p) \/ Ages(p)
      PROVE  Unspawned'
  BY <1>9 DEF Exits, Call, Ages, PassHeld, Holding
<1>10. ASSUME Boot \/ Stop \/ Pause \/ Resume
      PROVE  Unspawned'
  BY <1>10 DEF Boot, Stop, Pause, Resume, world
<1>11. ASSUME Reap
      PROVE  Unspawned'
  BY <1>11 DEF Reap, PassHeld, Holding
<1>12. ASSUME Exit \/ Crash
      PROVE  Unspawned'
  BY <1>12 DEF Exit, Forget, Crash, world
<1>13. CASE UNCHANGED vars
  BY <1>13 DEF vars, Unspawned
<1> QED
  BY <1>1, <1>2, <1>3, <1>4, <1>5, <1>6, <1>7, <1>8, <1>9, <1>10, <1>11, <1>12, <1>13 DEF Next, Run

\* The inductive invariant holds in every reachable state of the pass runner.
THEOREM Invariance == Spec => []IInv
<1>1. IInv /\ [Next]_vars => IInv'
  BY TypeStep, OneRunStep, HeldStep, OpenStep, TokenStep, SpawnStep DEF IInv
<1> QED
  BY InitInv, <1>1, PTL DEF Spec

(* Every variable keeps its type (passes.py, scheduler.py, proc_tree.py). *)
THEOREM TypeCorrect == Spec => []TypeOK
<1>1. IInv => TypeOK
  BY DEF IInv
<1> QED
  BY Invariance, <1>1, PTL

(* The verdict on a pass is written once: finish_pass does not look at the row *)
(* it overwrites, and needs the single flight of the lane (store/passes.py).   *)
THEOREM VerdictStands == Spec => VerdictIsFinal
<1>a. ASSUME IInv, [Next]_vars
      PROVE  KeepsVerdicts
  <2>a. RowType
    BY <1>a, Types DEF IInv
  <2> USE <1>a, <2>a DEF IInv, RowType, KeepsVerdicts, Terminal
  <2>1. ASSUME NEW w \in Workers,
               ClaimDue(w) \/ TaskEnd(w) \/ Revoke(w) \/ Spawn(w)
        PROVE  KeepsVerdicts
    BY <2>1 DEF ClaimDue, TaskEnd, Revoke, Spawn
  <2>2. ASSUME NEW w \in Workers, Babysit(w) \/ ConfirmDead(w) \/ Waited(w)
        PROVE  KeepsVerdicts
    BY <2>2 DEF Babysit, ConfirmDead, Waited
  <2>3. ASSUME NEW w \in Workers, Sweep(w) \/ Look(w) \/ Claim(w)
        PROVE  KeepsVerdicts
    BY <2>3 DEF Sweep, Look, Claim
  <2>4. ASSUME NEW w \in Workers, Prepare(w)
        PROVE  KeepsVerdicts
    BY <2>4 DEF Prepare, Finish, PassHeld, Holding, VerdictOpen, Judging, At
  <2>5. ASSUME NEW w \in Workers, Stage(w)
        PROVE  KeepsVerdicts
    BY <2>5 DEF Stage, Finish, VerdictOpen, Judging, At
  <2>6. ASSUME NEW w \in Workers, Settle(w)
        PROVE  KeepsVerdicts
    BY <2>6 DEF Settle, Finish, VerdictOpen, Judging, At
  <2>7. ASSUME NEW p \in Passes, Enqueue(p) \/ Exits(p) \/ Call(p) \/ Ages(p)
        PROVE  KeepsVerdicts
    BY <2>7 DEF Enqueue, Exits, Call, Ages
  <2>8. ASSUME Boot \/ Stop \/ Pause \/ Resume \/ Reap
        PROVE  KeepsVerdicts
    BY <2>8 DEF Boot, Stop, Pause, Resume, Reap, world
  <2>9. ASSUME Exit \/ Crash
        PROVE  KeepsVerdicts
    BY <2>9 DEF Exit, Forget, Crash, world
  <2>10. CASE UNCHANGED vars
    BY <2>10 DEF vars, KeepsVerdicts
  <2> QED
    BY <1>a, <2>1, <2>2, <2>3, <2>4, <2>5, <2>6, <2>7, <2>8, <2>9, <2>10 DEF Next, Run
<1> QED
  BY Invariance, <1>a, PTL DEF Spec, VerdictIsFinal

(* A send tool runs only for a pass that a thread of this daemon holds: what   *)
(* outlives its daemon or its run finds its token dead (http_server.py Auth).  *)
THEOREM OrphansStayMute == Spec => OrphansAreMute
<1>a. ASSUME IInv, [Next]_vars
      PROVE  CallsAreHeld
  <2>1. ASSUME NEW p \in Passes, Call(p)
        PROVE  CallsAreHeld
    BY <1>a, <2>1 DEF IInv, TokenHeld, Alive, Call, CallsAreHeld
  <2>2. CASE sent' = sent
    BY <2>2 DEF CallsAreHeld
  <2>3. \/ \E p \in Passes : Call(p)
        \/ sent' = sent
    BY <1>a DEF Next, Run, vars, world, ClaimDue, Sweep, Look, Claim, Prepare, Stage, Spawn, Babysit,
                ConfirmDead, Waited, Settle, Revoke, TaskEnd, Enqueue, Exits, Ages, Boot, Stop,
                Exit, Crash, Pause, Resume, Reap
  <2> QED
    BY <2>1, <2>2, <2>3
<1> QED
  BY Invariance, <1>a, PTL DEF Spec, OrphansAreMute
=============================================================================
