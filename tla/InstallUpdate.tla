--------------------------- MODULE InstallUpdate ---------------------------
(* Replacing the code of a running install: ./setup, `sellee update` and its *)
(* rollback (installer/update.py, installer/materialize.py), the supervisor  *)
(* that keeps the daemon alive, and the start of the daemon, which migrates  *)
(* the database of the version before (migrations/__init__.py).  The command *)
(* and the daemon are two processes, and either may die at any step.         *)
EXTENDS Naturals, Sequences, FiniteSets

CONSTANTS Versions,   \* releases, numbered in order
          Schema,     \* the number of migrations each release ships
          Kept,       \* VERSIONS_KEPT
          BackupsKeep,
          MaxTime,    \* bound on stamped events: installs and snapshots
          MaxData,    \* bound on writes of the daemon
          MaxFaults   \* bound on deaths of the daemon and of the command

InstallAssumption ==
    /\ Versions \subseteq Nat \ {0} /\ IsFiniteSet(Versions) /\ 1 \in Versions
    /\ Schema \in [Versions -> Nat] /\ Kept \in Nat \ {0} /\ BackupsKeep \in Nat \ {0}
    /\ MaxTime \in Nat /\ MaxData \in Nat /\ MaxFaults \in Nat

VARIABLES tree,     \* versions/<v>: absent, staged, or with its dependencies
          current,  \* the symlink, 0 before the first install
          db,       \* schema and newest write of sellee.db
          snaps,    \* pre-migration snapshots, oldest first
          job,      \* the supervisor's job: registered, and start at login
          daemon,   \* down, migrating or up
          beat,     \* the heartbeat is newer than the last start
          op,       \* the command that runs, and what it remembers
          torn,     \* a start died between two migrations since the command began
          clock, faults

vars == <<tree, current, db, snaps, job, daemon, beat, op, torn, clock, faults>>

Idle == [pc |-> "idle", kind |-> "none", to |-> 0, from |-> 0, after |-> 0,
         was |-> FALSE, data |-> 0, schema |-> 0]

Init == /\ tree = [v \in Versions |-> [is |-> "none", at |-> 0]] /\ current = 0
        /\ db = [schema |-> 0, data |-> 0] /\ snaps = <<>>
        /\ \E login \in BOOLEAN : job = [registered |-> FALSE, login |-> login]
        /\ daemon = "down" /\ beat = FALSE /\ op = Idle /\ torn = FALSE
        /\ clock = 0 /\ faults = 0

Live(v) == v # 0 /\ tree[v].is = "ready"
Installed == {v \in Versions : tree[v].is # "none"}   \* installed_versions
Newest(S) == CHOOSE v \in S : \A w \in S : tree[w].at <= tree[v].at

-----------------------------------------------------------------------------
(* The daemon under its supervisor.                                         *)

\* A variant of Latest.
LatestAndOne(s) == IF Len(s) <= BackupsKeep THEN s ELSE SubSeq(s, Len(s) - BackupsKeep, Len(s))

\* prune_backups
Latest(s) == IF Len(s) <= BackupsKeep THEN s ELSE SubSeq(s, Len(s) - BackupsKeep + 1, Len(s))

\* the job starts the code behind current; a pending migration takes a snapshot first
Boot ==
    /\ job.registered /\ daemon = "down" /\ Live(current)
    /\ IF db.schema < Schema[current]
         THEN /\ clock + (IF op.pc \in {"gates", "fetch", "stop"} THEN 1 ELSE 0) < MaxTime   \* room for Stage
              /\ clock' = clock + 1 /\ daemon' = "migrating"
              /\ snaps' = Latest(Append(snaps, [schema |-> db.schema, data |-> db.data, at |-> clock']))
              /\ UNCHANGED beat
         ELSE daemon' = "up" /\ beat' = TRUE /\ UNCHANGED <<snaps, clock>>
    /\ UNCHANGED <<tree, current, db, job, op, torn, faults>>

\* _apply: one migration, one transaction
Migrate ==
    /\ daemon = "migrating"
    /\ db' = [db EXCEPT !.schema = @ + 1]
    /\ IF db'.schema = Schema[current] THEN daemon' = "up" /\ beat' = TRUE
                                       ELSE UNCHANGED <<daemon, beat>>
    /\ UNCHANGED <<tree, current, snaps, job, op, torn, clock, faults>>

\* a crash, or a migration that fails and aborts the start; the job starts it again
DaemonDies ==
    /\ daemon # "down" /\ faults < MaxFaults /\ faults' = faults + 1
    /\ daemon' = "down" /\ torn' = (torn \/ daemon = "migrating")
    /\ UNCHANGED <<tree, current, db, snaps, job, beat, op, clock>>

Write ==
    /\ daemon = "up" /\ db.data < MaxData /\ db' = [db EXCEPT !.data = @ + 1]
    /\ UNCHANGED <<tree, current, snaps, job, daemon, beat, op, torn, clock, faults>>

\* supervisor.stop and supervisor.start: unregistering ends the process
Stopped == job' = [job EXCEPT !.registered = FALSE] /\ daemon' = "down"
Started == job' = [job EXCEPT !.registered = TRUE] /\ beat' = FALSE

SellerStarts == /\ op.pc = "idle" /\ current # 0 /\ ~job.registered /\ Started
                /\ UNCHANGED <<tree, current, db, snaps, daemon, op, torn, clock, faults>>
SellerStops == /\ op.pc = "idle" /\ job.registered /\ Stopped
               /\ UNCHANGED <<tree, current, db, snaps, beat, op, torn, clock, faults>>

-----------------------------------------------------------------------------
(* The command.                                                             *)

Goto(pc) == op' = [op EXCEPT !.pc = pc]
OnlyOp == UNCHANGED <<tree, current, db, snaps, job, daemon, beat, clock, faults>>
Command(kind, pc, to, from, after) ==
    /\ op' = [pc |-> pc, kind |-> kind, to |-> to, from |-> from, after |-> after,
              was |-> job.registered, data |-> db.data, schema |-> db.schema]
    /\ torn' = (daemon = "migrating") /\ OnlyOp

\* the checks of the machine before an install, each of which may refuse it
Machine == BOOLEAN

\* the checks once the heartbeat is fresh: whether one fails that did not fail before
Health == BOOLEAN

\* ./setup from the tree of any release; the gates come before the first change
Setup(v) ==
    /\ op.pc = "idle" /\ clock < MaxTime
    /\ op' = [Idle EXCEPT !.pc = "gates", !.kind = "setup", !.to = v] /\ OnlyOp
    /\ UNCHANGED torn

Gates ==
    /\ op.pc = "gates"
    /\ \E ok \in Machine :
          IF ok THEN Command("setup", "stop", op.to, 0, 0) ELSE op' = Idle /\ OnlyOp /\ UNCHANGED torn

\* A variant of Update.
UpdateAny(v) ==
    /\ op.pc = "idle" /\ clock < MaxTime /\ Live(current)
    /\ op' = [Idle EXCEPT !.pc = "fetch", !.kind = "update", !.to = v] /\ OnlyOp
    /\ UNCHANGED torn

\* _guard_updatable, discover and is_newer
Update(v) ==
    /\ op.pc = "idle" /\ clock < MaxTime /\ Live(current) /\ v > current
    /\ op' = [Idle EXCEPT !.pc = "fetch", !.kind = "update", !.to = v] /\ OnlyOp
    /\ UNCHANGED torn

\* the archive is downloaded, verified and unpacked, or refused; from here the update
\* remembers when it began and whether a job was registered
Fetch ==
    /\ op.pc = "fetch"
    /\ \/ Command("update", "stop", op.to, current, clock)
       \/ op' = Idle /\ OnlyOp /\ UNCHANGED torn

\* --rollback: to the most recently installed other version
RollBack ==
    /\ op.pc = "idle" /\ Live(current) /\ Installed \ {current} # {}
    /\ Command("rollback", "back", 0, Newest(Installed \ {current}), tree[current].at)

Stop ==
    /\ op.pc = "stop" /\ Goto(IF tree[op.to].is = "none" THEN "stage" ELSE "displace")
    /\ IF op.was THEN Stopped ELSE UNCHANGED <<job, daemon>>
    /\ UNCHANGED <<tree, current, db, snaps, beat, torn, clock, faults>>

\* stage_version over a version that is there: it is moved aside, then replaced
Displace ==
    /\ op.pc = "displace" /\ Goto("stage") /\ tree' = [tree EXCEPT ![op.to].is = "none"]
    /\ UNCHANGED <<current, db, snaps, job, daemon, beat, torn, clock, faults>>

Stage ==
    /\ op.pc = "stage" /\ clock' = clock + 1 /\ Goto("provision")
    /\ tree' = [tree EXCEPT ![op.to] = [is |-> "staged", at |-> clock']]
    /\ UNCHANGED <<current, db, snaps, job, daemon, beat, torn, faults>>

\* its dependencies, or a failure, after which the directory is removed
Provision ==
    /\ op.pc = "provision"
    /\ \/ tree' = [tree EXCEPT ![op.to].is = "ready"] /\ Goto("swap")
       \/ tree' = [tree EXCEPT ![op.to].is = "none"] /\ Goto("failed")
    /\ UNCHANGED <<current, db, snaps, job, daemon, beat, torn, clock, faults>>

\* A variant of Failed.
FailedAborts ==
    /\ op.pc = "failed" /\ op' = Idle
    /\ UNCHANGED <<tree, current, db, snaps, job, daemon, beat, torn, clock, faults>>

\* an update starts the old version again before it gives up; a setup aborts
Failed ==
    /\ op.pc = "failed" /\ op' = Idle
    /\ IF op.kind = "update" /\ op.was THEN Started ELSE UNCHANGED <<job, beat>>
    /\ UNCHANGED <<tree, current, db, snaps, daemon, torn, clock, faults>>

\* prune_versions: the newest, among them always the live one
Pruned(live) ==
    LET others == Installed \ {live}
        older(v) == {w \in others : tree[w].at > tree[v].at}
        doomed == {v \in others : Cardinality(older(v)) >= Kept - 1}
    IN  [v \in Versions |-> IF v \in doomed THEN [tree[v] EXCEPT !.is = "none"] ELSE tree[v]]

\* swap_current, and what follows for a setup and for a daemon that was not running
Swap ==
    /\ op.pc = "swap" /\ current' = op.to
    /\ IF op.kind = "update" /\ ~op.was
         THEN /\ op' = Idle /\ tree' = Pruned(current')
              /\ IF job.login THEN Started ELSE UNCHANGED <<job, beat>>
         ELSE /\ Goto("start") /\ UNCHANGED <<job, beat>>
              /\ tree' = IF op.kind = "setup" THEN Pruned(current') ELSE tree
    /\ UNCHANGED <<db, snaps, daemon, torn, clock, faults>>

Start ==
    /\ op.pc = "start" /\ Goto("wait") /\ Started
    /\ UNCHANGED <<tree, current, db, snaps, daemon, torn, clock, faults>>

\* wait_fresh, then the checks against those that failed before; or the time runs out
Judge ==
    /\ op.pc = "wait"
    /\ \E healthy \in Health :
         \/ /\ beat /\ (op.kind = "setup" \/ healthy) /\ op' = Idle
            /\ tree' = IF op.kind = "update" THEN Pruned(current) ELSE tree
         \/ op.kind = "update" /\ ~(beat /\ healthy) /\ Goto("back") /\ UNCHANGED tree
         \/ op.kind = "setup" /\ ~beat /\ op' = Idle /\ UNCHANGED tree
    /\ UNCHANGED <<current, db, snaps, job, daemon, beat, torn, clock, faults>>

(* _roll_back_to: stop, swap, restore, start.                               *)
Back ==
    /\ op.pc = "back" /\ Goto("swapback") /\ Stopped
    /\ UNCHANGED <<tree, current, db, snaps, beat, torn, clock, faults>>

SwapBack ==
    /\ op.pc = "swapback" /\ Goto("restore") /\ current' = op.from
    /\ UNCHANGED <<tree, db, snaps, job, daemon, beat, torn, clock, faults>>

\* A variant of Restore.
RestoreAny ==
    /\ op.pc = "restore" /\ Goto("restart")
    /\ IF snaps # <<>>
         THEN LET s == snaps[Len(snaps)] IN db' = [schema |-> s.schema, data |-> s.data]
         ELSE UNCHANGED db
    /\ UNCHANGED <<tree, current, snaps, job, daemon, beat, torn, clock, faults>>

\* A variant of Restore.
RestoreOlder ==
    /\ op.pc = "restore" /\ Goto("restart")
    /\ IF snaps # <<>> /\ snaps[Len(snaps)].at <= op.after
         THEN LET s == snaps[Len(snaps)] IN db' = [schema |-> s.schema, data |-> s.data]
         ELSE UNCHANGED db
    /\ UNCHANGED <<tree, current, snaps, job, daemon, beat, torn, clock, faults>>

\* the newest snapshot, when it is younger than the version that is backed out
Restore ==
    /\ op.pc = "restore" /\ Goto("restart")
    /\ IF snaps # <<>> /\ snaps[Len(snaps)].at > op.after
         THEN LET s == snaps[Len(snaps)] IN db' = [schema |-> s.schema, data |-> s.data]
         ELSE UNCHANGED db
    /\ UNCHANGED <<tree, current, snaps, job, daemon, beat, torn, clock, faults>>

Restart ==
    /\ op.pc = "restart" /\ op' = Idle /\ Started
    /\ UNCHANGED <<tree, current, db, snaps, daemon, torn, clock, faults>>

\* The command is killed, or a step that nothing catches raises: of the rollback
\* the swap, the restore (before its copy or after it) and the start.
Killed ==
    /\ op.pc # "idle" /\ faults < MaxFaults /\ faults' = faults + 1
    /\ op' = [Idle EXCEPT !.kind = "killed"]
    /\ UNCHANGED <<tree, current, db, snaps, job, daemon, beat, torn, clock>>

-----------------------------------------------------------------------------
OpStep == \/ Gates \/ Fetch \/ Stop \/ Displace \/ Stage \/ Provision \/ Failed \/ Swap \/ Start \/ Judge
          \/ Back \/ SwapBack \/ Restore \/ Restart
DaemonStep == Boot \/ Migrate

Next == \/ OpStep \/ DaemonStep \/ DaemonDies \/ Write \/ SellerStarts \/ SellerStops
        \/ Killed \/ RollBack \/ \E v \in Versions : Setup(v) \/ Update(v)

Spec == Init /\ [][Next]_vars

-----------------------------------------------------------------------------
TypeOK ==
    /\ tree \in [Versions -> [is : {"none", "staged", "ready"}, at : 0..MaxTime]]
    /\ current \in Versions \cup {0} /\ db \in [schema : Nat, data : 0..MaxData]
    /\ snaps \in Seq([schema : Nat, data : 0..MaxData, at : 1..MaxTime])
    /\ Len(snaps) <= BackupsKeep
    /\ job \in [registered : BOOLEAN, login : BOOLEAN]
    /\ daemon \in {"down", "migrating", "up"} /\ beat \in BOOLEAN /\ torn \in BOOLEAN
    /\ op \in [pc : {"idle", "gates", "fetch", "stop", "displace", "stage", "provision", "failed", "swap", "start",
                     "wait", "back", "swapback", "restore", "restart"},
               kind : {"none", "setup", "update", "rollback", "killed"}, to : Versions \cup {0},
               from : Versions \cup {0}, after : 0..MaxTime, was : BOOLEAN, data : 0..MaxData, schema : Nat]
    /\ clock \in 0..MaxTime /\ faults \in 0..MaxFaults

(* At every step of an update, its death included, the version behind current *)
(* can run: it is there with its dependencies ("a failure here leaves the    *)
(* previous version running", installer/materialize.py).                     *)
UpdateKeepsCurrent ==
    op.kind = "update" => Live(current)

(* An update that is undone costs no write from before it began: what it     *)
(* restores is a snapshot of its own migration, never an older one.          *)
UpdateKeepsData == op.kind = "update" => db.data >= op.data

(* When an update has been undone, the old version can read the database if *)
(* it could before, unless a start died between two migrations.             *)
Readable == db.schema <= Schema[op.from] \/ db.schema <= op.schema
UndoneIsReadable == op.kind = "update" /\ op.pc = "restart" => torn \/ Readable
(* Of a step.  An agent that ran before an update runs after it, whatever    *)
(* goes wrong, short of the death of the command and of a rollback that      *)
(* raises in its turn: "whatever went wrong here [...] is not a reason to    *)
(* leave the machine with no agent running", says the code of its first half.*)
AgentComesBack ==
    op.kind = "update" /\ op.was /\ op'.kind = "none" => job'.registered

\* What every step keeps.  The daemon runs only while its job is registered, and
\* an update knows of both between its stop and its start.
JobIsKnown ==
    /\ daemon # "down" => job.registered
    /\ op.pc \in {"displace", "stage", "provision", "failed", "swap", "start", "swapback", "restore",
                  "restart"} => ~job.registered
    /\ op.pc = "stop" /\ ~op.was => ~job.registered
    /\ op.pc = "wait" => job.registered

\* Up to the swap the version that ran is current and is not the one that is
\* brought; after it both are there, until one of them is done with.
Before == {"stop", "displace", "stage", "provision", "failed", "swap"}
Between == {"start", "wait", "back", "swapback"}
BothAreThere ==
    op.kind = "update" =>
      /\ op.pc \notin {"idle", "gates"} /\ (op.was => op.pc # "fetch")
      /\ op.pc = "fetch" => Live(current) /\ op.to # current /\ op.data = 0
      /\ op.pc \in Before => current = op.from /\ Live(op.from) /\ op.to # op.from
      /\ op.pc = "swap" => Live(op.to)
      /\ op.pc \in Between => current = op.to /\ Live(op.to) /\ Live(op.from)
      /\ op.pc \in {"restore", "restart"} => current = op.from /\ Live(op.from)

\* What was stamped since the update began was taken of what it found, or of
\* more; and a database it left unreadable has such a snapshot, until a restore.
Begun == op.kind = "update" /\ op.pc \notin {"idle", "gates", "fetch"}
Since == {i \in DOMAIN snaps : snaps[i].at > op.after}
NewestSince == snaps # <<>> /\ Len(snaps) \in Since
OldReads(schema) == schema <= Schema[op.from] \/ schema <= op.schema
SnapsAreDated ==
    /\ \A i \in DOMAIN snaps : snaps[i].at <= clock
    /\ Begun => /\ op.after <= clock /\ db.data >= op.data
                /\ \A i \in Since : snaps[i].data >= op.data
SnapsAreReadable ==
    Begun /\ ~torn =>
      /\ \A i \in Since : OldReads(snaps[i].schema)
      /\ daemon = "migrating" => NewestSince
      /\ OldReads(db.schema) \/ (op.pc \in Between \cup {"restore"} /\ NewestSince)
      /\ op.pc \in Between /\ daemon # "migrating" /\ ~OldReads(db.schema) =>
           op.pc = "swapback" \/ db.schema >= Schema[current]

Tree == [is : {"none", "staged", "ready"}, at : Nat]
Data == [schema : Nat, data : Nat]
Snap == [schema : Nat, data : Nat, at : Nat]
Op == [pc : {"idle", "gates", "fetch"} \cup Before \cup Between \cup {"restore", "restart"},
       kind : {"none", "setup", "update", "rollback", "killed"}, to : Versions \cup {0},
       from : Versions \cup {0}, after : Nat, was : BOOLEAN, data : Nat, schema : Nat]
IInv == /\ tree \in [Versions -> Tree] /\ current \in Versions \cup {0}
        /\ db \in Data /\ snaps \in Seq(Snap) /\ clock \in Nat
        /\ job \in [registered : BOOLEAN, login : BOOLEAN] /\ op \in Op
        /\ daemon \in {"down", "migrating", "up"} /\ torn \in BOOLEAN /\ beat \in BOOLEAN
        /\ daemon = "migrating" => current # 0 /\ db.schema < Schema[current]
        /\ op.pc \notin {"idle", "back", "swapback", "restore", "restart"} => op.to \in Versions
        /\ op.pc = "fetch" => op.kind = "update"
        /\ JobIsKnown /\ BothAreThere /\ SnapsAreDated /\ SnapsAreReadable
=============================================================================
