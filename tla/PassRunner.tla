----------------------------- MODULE PassRunner -----------------------------
(* A headless pass from the queue to its row in the ledger: the lane of the  *)
(* scheduler that claims it (passes.pass_lane), the run with its token and   *)
(* its process group (run_pass, proc_tree.py), the tool calls the harness    *)
(* makes over HTTP meanwhile, the reaper, and the life of the daemon around  *)
(* them (run_daemon, Scheduler.shutdown).                                    *)
EXTENDS Naturals, FiniteSets

CONSTANTS Last,      \* passes are numbered in the order of the queue
          Reply,     \* those of type reply; the others always made progress
          Threads,   \* threads of the scheduler's pool, numbered: the lowest free one runs
          MaxTrouble \* bound on crashes, stops and pauses together

Passes == 1..Last
Workers == 1..Threads

ASSUME PassAssumption == /\ Last \in Nat \ {0} /\ Reply \subseteq Passes
                         /\ Threads \in Nat \ {0} /\ MaxTrouble \in Nat

VARIABLES row,     \* [status, class] of each row of passes
          age,     \* wall time since started_ts: 0, past the deadline 1, past its slack 2
          proc,    \* the process group: leader and child, child alone, gone
          token,   \* passes whose bearer token this daemon honours
          tracked, \* passes whose group this daemon tracks
          sent,    \* passes that reached a send path of the daemon
          worker,  \* [pc, pass, killed] of each thread in pass_lane
          busy,    \* _TaskState.running of the lane
          daemon,  \* down, up, stopping
          paused,
          trouble  \* crashes, stops and pauses so far

vars == <<row, age, proc, token, tracked, sent, worker, busy, daemon, paused, trouble>>
world == <<paused, trouble>>

Off == [pc |-> "off", pass |-> 0, killed |-> "no"]
Terminal == {"done", "error"}

Init == /\ row = [p \in Passes |-> [status |-> "none", class |-> "none"]]
        /\ age = [p \in Passes |-> 0] /\ proc = [p \in Passes |-> "none"]
        /\ token = {} /\ tracked = {} /\ sent = {}
        /\ worker = [w \in Workers |-> Off] /\ busy = FALSE
        /\ daemon = "down" /\ paused = FALSE
        /\ trouble = 0

At(w, pc) == worker[w].pc = pc
Goto(w, pc) == worker' = [worker EXCEPT ![w].pc = pc]
Alive(p) == proc[p] \in {"both", "child"}

\* A variant of Finish.
FinishSwapped(p, status, class) == row' = [row EXCEPT ![p] = [status |-> class, class |-> status]]

\* finish_pass: the row is written whatever it says
Finish(p, status, class) == row' = [row EXCEPT ![p] = [status |-> status, class |-> class]]

-----------------------------------------------------------------------------
(* The lane.                                                                *)

\* enqueue_pass behind the control route, once validate_payload is content
Enqueue(p) ==
    /\ daemon # "down" /\ row[p].status = "none" /\ \A q \in 1..p-1 : row[q].status # "none"
    /\ row' = [row EXCEPT ![p].status = "queued"]
    /\ UNCHANGED <<age, proc, token, tracked, sent, worker, busy, daemon, world>>

\* A variant of ClaimDue.
ClaimDueAgain(w) ==
    /\ daemon = "up" /\ At(w, "off") /\ (\A v \in 1..w-1 : ~At(v, "off"))
    /\ busy' = TRUE /\ Goto(w, "sweep")
    /\ UNCHANGED <<row, age, proc, token, tracked, sent, daemon, world>>

\* _claim_due, for the one task
ClaimDue(w) ==
    /\ daemon = "up" /\ At(w, "off") /\ (\A v \in 1..w-1 : ~At(v, "off"))
    /\ ~busy /\ busy' = TRUE /\ Goto(w, "sweep")
    /\ UNCHANGED <<row, age, proc, token, tracked, sent, daemon, world>>

\* A variant of Sweep.
SweepUnlessPaused(w) ==
    /\ At(w, "sweep") /\ Goto(w, "look")
    /\ row' = [p \in Passes |-> IF row[p].status = "running" /\ age[p] = 2 /\ ~paused
                                THEN [status |-> "error", class |-> "stale"] ELSE row[p]]
    /\ UNCHANGED <<age, proc, token, tracked, sent, busy, daemon, world>>

\* fail_stale_running
Sweep(w) ==
    /\ At(w, "sweep") /\ Goto(w, "look")
    /\ row' = [p \in Passes |-> IF row[p].status = "running" /\ age[p] = 2
                                THEN [status |-> "error", class |-> "stale"] ELSE row[p]]
    /\ UNCHANGED <<age, proc, token, tracked, sent, busy, daemon, world>>

\* is_paused
Look(w) ==
    /\ At(w, "look") /\ Goto(w, IF paused THEN "end" ELSE "claim")
    /\ UNCHANGED <<row, age, proc, token, tracked, sent, busy, daemon, world>>

\* claim_queued_pass
Claim(w) ==
    LET queued == {p \in Passes : row[p].status = "queued"} IN
    /\ At(w, "claim")
    /\ IF queued = {}
         THEN Goto(w, "end") /\ UNCHANGED <<row, age>>
         ELSE \E p \in queued :
              /\ \A q \in queued : p <= q
              /\ row' = [row EXCEPT ![p].status = "running"] /\ age' = [age EXCEPT ![p] = 0]
              /\ worker' = [worker EXCEPT ![w] = [Off EXCEPT !.pc = "prepare", !.pass = p]]
    /\ UNCHANGED <<proc, token, tracked, sent, busy, daemon, world>>

\* the payload is valid and the prompt is built: a token; else a spawn_error.  What
\* else raises leaves the row to the sweep, and a token that was made is kept.
Prepare(w) ==
    LET p == worker[w].pass IN
    /\ At(w, "prepare")
    /\ \/ token' = token \cup {p} /\ Goto(w, "stage") /\ UNCHANGED row
       \/ Finish(p, "error", "spawn_error") /\ Goto(w, "end") /\ UNCHANGED token
       \/ token' \in {token, token \cup {p}} /\ Goto(w, "end") /\ UNCHANGED row
    /\ UNCHANGED <<age, proc, tracked, sent, busy, daemon, world>>

\* the spec, the workspace and the argv: SpawnError is a row, any other exception
\* leaves the row running to the sweep
Stage(w) ==
    /\ At(w, "stage")
    /\ \/ Goto(w, "spawn") /\ UNCHANGED row
       \/ Finish(worker[w].pass, "error", "spawn_error") /\ Goto(w, "revoke")
       \/ Goto(w, "revoke") /\ UNCHANGED row
    /\ UNCHANGED <<age, proc, token, tracked, sent, busy, daemon, world>>

\* Popen, the group on record, the threads; a failure leaves the row running
Spawn(w) ==
    LET p == worker[w].pass IN
    /\ At(w, "spawn")
    /\ \/ /\ proc' = [proc EXCEPT ![p] = "both"] /\ tracked' = tracked \cup {p}
          /\ Goto(w, "watch")
       \/ Goto(w, "revoke") /\ UNCHANGED <<proc, tracked>>
    /\ UNCHANGED <<row, age, token, sent, busy, daemon, world>>

\* what the babysitter kills for
Reason(w) ==
    LET p == worker[w].pass IN
    (IF age[p] >= 1 THEN {"timeout"} ELSE {})
        \cup (IF daemon = "stopping" THEN {"stopped"} ELSE {})
        \cup (IF paused THEN {"paused"} ELSE {})

\* _babysitter: the leader is still there when it looks
Babysit(w) ==
    /\ At(w, "watch") /\ worker[w].killed = "no" /\ proc[worker[w].pass] = "both"
    /\ \E why \in Reason(w) : worker' = [worker EXCEPT ![w].killed = why]
    /\ UNCHANGED <<row, age, proc, token, tracked, sent, busy, daemon, world>>

\* confirm_dead: TERM, then KILL, until no one is left in the group; of a leader that
\* has just been reaped it does not learn the group, and does nothing
ConfirmDead(w) ==
    /\ At(w, "watch") /\ worker[w].killed # "no" /\ proc[worker[w].pass] = "both"
    /\ proc' = [proc EXCEPT ![worker[w].pass] = "gone"]
    /\ UNCHANGED <<row, age, token, tracked, sent, worker, busy, daemon, world>>

\* proc.wait has returned, and the babysitter has been joined
Waited(w) ==
    /\ At(w, "watch") /\ proc[worker[w].pass] # "both" /\ Goto(w, "finish")
    /\ UNCHANGED <<row, age, proc, token, tracked, sent, busy, daemon, world>>

\* _classify and made_progress, by the exit status
Class(w, rc) ==
    LET run == worker[w] IN
    CASE run.killed # "no" -> run.killed
      [] run.killed = "no" /\ rc # 0 -> "error"
      [] OTHER -> IF run.pass \in Reply /\ run.pass \notin sent THEN "no_send" ELSE "ok"

Settle(w) ==
    /\ At(w, "finish") /\ Goto(w, "revoke")
    /\ \E rc \in {0, 1} :
         Finish(worker[w].pass, IF Class(w, rc) = "ok" THEN "done" ELSE "error", Class(w, rc))
    /\ UNCHANGED <<age, proc, token, tracked, sent, busy, daemon, world>>

\* A variant of Revoke.
RevokeGroup(w) ==
    /\ At(w, "revoke") /\ Goto(w, "end")
    /\ tracked' = tracked \ {worker[w].pass}
    /\ UNCHANGED <<row, age, proc, token, sent, busy, daemon, world>>

\* the finally of run_pass
Revoke(w) ==
    /\ At(w, "revoke") /\ Goto(w, "end")
    /\ token' = token \ {worker[w].pass} /\ tracked' = tracked \ {worker[w].pass}
    /\ UNCHANGED <<row, age, proc, sent, busy, daemon, world>>

\* _run_task ends: the state is free again, after an error once its backoff is over
TaskEnd(w) ==
    /\ At(w, "end") /\ worker' = [worker EXCEPT ![w] = Off] /\ busy' = FALSE
    /\ UNCHANGED <<row, age, proc, token, tracked, sent, daemon, world>>

-----------------------------------------------------------------------------
(* The harness.                                                             *)

\* the leader exits; what it started may outlive it
Exits(p) ==
    /\ proc[p] = "both"
    /\ \E left \in {"gone", "child"} : proc' = [proc EXCEPT ![p] = left]
    /\ UNCHANGED <<row, age, token, tracked, sent, worker, busy, daemon, world>>

\* POST /mcp: Auth.resolve finds the token of the pass, not expired, and a send tool runs
Call(p) ==
    /\ daemon # "down" /\ Alive(p) /\ p \in token /\ age[p] < 2 /\ p \notin sent
    /\ sent' = sent \cup {p}
    /\ UNCHANGED <<row, age, proc, token, tracked, worker, busy, daemon, world>>

\* what ps shows of a pass: the prompt, and its marker, go in over stdin
Argv == {"claude -p", "skills", "mcp config", "allowed tools"}
Marked == "marker" \in Argv

\* stray_reaper: kills groups that are marked, untracked and old
Reap ==
    /\ daemon # "down"
    /\ proc' = [p \in Passes |-> IF proc[p] = "both" /\ Marked /\ p \notin tracked /\ age[p] = 2
                                 THEN "gone" ELSE proc[p]]
    /\ UNCHANGED <<row, age, token, tracked, sent, worker, busy, daemon, world>>

-----------------------------------------------------------------------------
(* The daemon.                                                              *)

\* run_daemon takes the lock of an instance that is gone; its memory is empty
Boot ==
    /\ daemon = "down" /\ daemon' = "up"
    /\ UNCHANGED <<row, age, proc, token, tracked, sent, worker, busy, world>>

Forget == /\ token' = {} /\ tracked' = {} /\ busy' = FALSE
          /\ worker' = [w \in Workers |-> Off] /\ daemon' = "down"

\* a signal; the scheduler claims no more
Stop ==
    /\ daemon = "up" /\ trouble < MaxTrouble /\ trouble' = trouble + 1 /\ daemon' = "stopping"
    /\ UNCHANGED <<row, age, proc, token, tracked, sent, worker, busy, paused>>

\* shutdown has drained the lanes, then the server stops and the lock is cleared
Exit ==
    /\ daemon = "stopping" /\ (\A w \in Workers : At(w, "off")) /\ Forget
    /\ UNCHANGED <<row, age, proc, sent, world>>

\* the harness leads a session of its own and survives
Crash ==
    /\ daemon # "down" /\ trouble < MaxTrouble /\ trouble' = trouble + 1 /\ Forget
    /\ UNCHANGED <<row, age, proc, sent, paused>>

Pause ==
    /\ daemon = "up" /\ ~paused /\ trouble < MaxTrouble
    /\ paused' = TRUE /\ trouble' = trouble + 1
    /\ UNCHANGED <<row, age, proc, token, tracked, sent, worker, busy, daemon>>

Resume ==
    /\ daemon = "up" /\ paused /\ paused' = FALSE
    /\ UNCHANGED <<row, age, proc, token, tracked, sent, worker, busy, daemon, trouble>>

\* wall time; a machine that slept passes both limits before anyone looks
Ages(p) ==
    /\ (row[p].status = "running" \/ Alive(p)) /\ age[p] < 2 /\ age' = [age EXCEPT ![p] = @ + 1]
    /\ UNCHANGED <<row, proc, token, tracked, sent, worker, busy, daemon, world>>

Run(w) == \/ ClaimDue(w) \/ Sweep(w) \/ Look(w) \/ Claim(w) \/ Prepare(w) \/ Stage(w) \/ Spawn(w) \/ Babysit(w)
          \/ ConfirmDead(w) \/ Waited(w) \/ Settle(w) \/ Revoke(w) \/ TaskEnd(w)

Next == \/ Boot \/ Stop \/ Exit \/ Crash \/ Pause \/ Resume \/ Reap
        \/ \E w \in Workers : Run(w)
        \/ \E p \in Passes : Enqueue(p) \/ Exits(p) \/ Call(p) \/ Ages(p)

(* The supervisor starts the daemon again, the scheduler ticks, threads run, *)
(* clocks advance and the reaper is a lane.  The harness owes nothing.       *)
Fairness == /\ WF_vars(Boot) /\ WF_vars(Exit) /\ WF_vars(Reap)
            /\ WF_vars(\E w \in Workers : Run(w))
            /\ \A p \in Passes : WF_vars(Ages(p))

Spec == Init /\ [][Next]_vars
FairSpec == Spec /\ Fairness

-----------------------------------------------------------------------------
TypeOK ==
    /\ row \in [Passes -> [status : {"none", "queued", "running"} \cup Terminal,
                           class : {"none", "ok", "no_send", "error", "spawn_error", "stale",
                                    "timeout", "stopped", "paused"}]]
    /\ age \in [Passes -> 0..2] /\ proc \in [Passes -> {"none", "both", "child", "gone"}]
    /\ token \subseteq Passes /\ tracked \subseteq Passes
    /\ sent \subseteq Passes
    /\ worker \in [Workers -> [pc : {"off", "sweep", "look", "claim", "prepare", "stage", "spawn", "watch",
                                     "finish", "revoke", "end"}, pass : 0..Last,
                               killed : {"no", "timeout", "stopped", "paused"}]]
    /\ busy \in BOOLEAN /\ daemon \in {"down", "up", "stopping"} /\ paused \in BOOLEAN
    /\ trouble \in 0..MaxTrouble

(* The verdict on a pass is final: finish_pass writes whatever the row says, *)
(* and only the single flight of the lane keeps the stale sweep and the run  *)
(* itself from judging one pass twice, and a settled pass from running again. *)
KeepsVerdicts == \A p \in Passes : row[p].status \in Terminal => row'[p] = row[p]
VerdictIsFinal == [][KeepsVerdicts]_vars

(* A send tool is called only for a pass this daemon is running: what survives  *)
(* a crash, or outlives its leader, finds its token dead.                    *)
CallsAreHeld == \A p \in sent' \ sent : \E w \in Workers : worker[w].pass = p
OrphansAreMute == [][CallsAreHeld]_vars

(* Every claimed pass gets a verdict, whatever dies, also while paused.      *)
PassSettles == \A p \in Passes : row[p].status = "running" ~> row[p].status \in Terminal

(* "A stray reaper kills untracked marked pass groups past their deadline"   *)
(* (docs/tool-surface-and-passes.md).                                        *)
Stray(p) == proc[p] = "both" /\ p \notin tracked /\ age[p] = 2 /\ daemon = "up"
StraysAreReaped == \A p \in Passes : Stray(p) ~> proc[p] # "both"
=============================================================================
