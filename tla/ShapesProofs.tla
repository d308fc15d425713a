---------------------------- MODULE ShapesProofs ----------------------------
(***************************************************************************)
(* What the last part of Records, the update of an install, keeps at every *)
(* size; and then of all parts together, the steps they never take, and    *)
(* that every variable keeps its shape and stays within its bounds.  Where *)
(* the TypeOK of a part is not inductive, even with what the part keeps    *)
(* besides (its IInv), its shapes are: TypeOK, or what of it IInv does not *)
(* say, and what bounds the values it lets through.  This module has the   *)
(* shapes of the settings, the binding, the connect lane and the install;  *)
(* the others are in RecordsProofs.                                        *)
(***************************************************************************)
EXTENDS PartsProofs

-----------------------------------------------------------------------------
(* InstallUpdate: v1 tree, v2 current, v3 db, v4 snaps, v5 job, v6 daemon,   *)
(* v7 beat, v8 op, v9 torn, v10 clock, v11 faults.                           *)

Site == /\ v1 \in [Versions -> Install!Tree] /\ v2 \in Versions \cup {0}
        /\ v3 \in Install!Data /\ v4 \in Seq(Install!Snap) /\ v10 \in Nat
        /\ v5 \in [registered : BOOLEAN, login : BOOLEAN]
        /\ v6 \in {"down", "migrating", "up"} /\ v9 \in BOOLEAN /\ v7 \in BOOLEAN
Migrates == v6 = "migrating" => v2 # 0 /\ v3.schema < Schema[v2]
Commanded == /\ v8 \in Install!Op
             /\ v8.pc \notin {"idle", "back", "swapback", "restore", "restart"} => v8.to \in Versions
             /\ v8.pc = "fetch" => v8.kind = "update"

LEMMA InstallParts ==
  /\ Install!IInv <=> /\ Site /\ Migrates /\ Commanded /\ Install!JobIsKnown /\ Install!BothAreThere
                      /\ Install!SnapsAreDated /\ Install!SnapsAreReadable
  /\ Install!IInv' <=> /\ Site' /\ Migrates' /\ Commanded' /\ Install!JobIsKnown' /\ Install!BothAreThere'
                       /\ Install!SnapsAreDated' /\ Install!SnapsAreReadable'
  BY DEF Install!IInv, Site, Migrates, Commanded

LEMMA VersionsAre ==
  /\ Versions \subseteq Nat \ {0} /\ IsFiniteSet(Versions) /\ \A v \in Versions : Schema[v] \in Nat
  /\ BackupsKeep \in Nat \ {0}
<1>1. Install!InstallAssumption
  BY RecordsAssumption
<1>2. Install!IsFiniteSet(Versions) <=> IsFiniteSet(Versions)
  BY Zenon DEF Install!IsFiniteSet, IsFiniteSet
<1> QED
  BY <1>1, <1>2 DEF Install!InstallAssumption

LEMMA SiteIs ==
  ASSUME Site
  PROVE  /\ v3.schema \in Nat /\ v3.data \in Nat /\ v5.registered \in BOOLEAN /\ v5.login \in BOOLEAN
         /\ \A v \in Versions : v1[v].at \in Nat /\ v1[v].is \in {"none", "staged", "ready"}
         /\ \A i \in DOMAIN v4 : /\ v4[i].schema \in Nat /\ v4[i].data \in Nat /\ v4[i].at \in Nat
<1>1. \A i \in DOMAIN v4 : v4[i] \in Install!Snap
  BY DEF Site
<1>2. \A v \in Versions : v1[v] \in Install!Tree
  BY DEF Site
<1>3. v3 \in Install!Data /\ v5 \in [registered : BOOLEAN, login : BOOLEAN]
  BY DEF Site
<1> QED
  BY <1>1, <1>2, <1>3 DEF Install!Tree, Install!Data, Install!Snap

LEMMA OpIs ==
  ASSUME NEW o \in Install!Op
  PROVE  /\ o.to \in Versions \cup {0} /\ o.from \in Versions \cup {0} /\ o.after \in Nat
         /\ o.was \in BOOLEAN /\ o.data \in Nat /\ o.schema \in Nat
         /\ o.kind \in {"none", "setup", "update", "rollback", "killed"}
         /\ o.pc \in {"idle", "gates", "fetch"} \cup Install!Before \cup Install!Between
                     \cup {"restore", "restart"}
  BY DEF Install!Op

\* The command goes to another of its steps.
LEMMA GotoIs ==
  ASSUME v8 \in Install!Op,
         NEW pc \in Install!Before \cup Install!Between \cup {"restore", "restart"}, Install!Goto(pc)
  PROVE  /\ v8' \in Install!Op /\ v8'.pc = pc /\ v8'.kind = v8.kind /\ v8'.to = v8.to /\ v8'.from = v8.from
         /\ v8'.after = v8.after /\ v8'.was = v8.was /\ v8'.data = v8.data /\ v8'.schema = v8.schema
  BY DEF Install!Goto, Install!Op

\* It is over, or has not begun.
LEMMA IdleIs == Install!Idle \in Install!Op /\ Install!Idle.pc = "idle" /\ Install!Idle.kind = "none"
  BY DEF Install!Idle, Install!Op, Install!Before, Install!Between

\* What was written down of the database survives a step that takes none away.
LEMMA DatedKept ==
  ASSUME Install!IInv, Site', v4' = v4, v3'.data >= v3.data, v10' >= v10, v8' \in Install!Op,
         Install!Begun' => Install!Begun /\ v8'.after = v8.after /\ v8'.data = v8.data
  PROVE  Install!SnapsAreDated'
<1>1. Install!SnapsAreDated /\ Site /\ Commanded
  BY InstallParts
<1>2. \A i \in DOMAIN v4 : v4[i].at \in Nat /\ v4[i].data \in Nat
  BY <1>1, SiteIs
<1>3. v10 \in Nat /\ v10' \in Nat /\ v3.data \in Nat /\ v3'.data \in Nat
  BY <1>1 DEF Site, Install!Data
<1>4. v8'.after \in Nat /\ v8'.data \in Nat
  BY OpIs
<1>5. \A i \in DOMAIN v4' : v4'[i].at <= v10'
  BY <1>1, <1>2, <1>3 DEF Install!SnapsAreDated
<1>6. ASSUME Install!Begun'
      PROVE  /\ v8'.after <= v10' /\ v3'.data >= v8'.data
             /\ \A i \in Install!Since' : v4'[i].data >= v8'.data
  <2>1. /\ v8.after <= v10 /\ v3.data >= v8.data
        /\ \A i \in Install!Since : v4[i].data >= v8.data
    BY <1>1, <1>6 DEF Install!SnapsAreDated
  <2>2. Install!Since' = Install!Since
    BY <1>6 DEF Install!Since
  <2> QED
    BY <1>3, <1>4, <1>6, <2>1, <2>2
<1> QED
  BY <1>5, <1>6 DEF Install!SnapsAreDated

\* And what can be read of it, when no snapshot is taken and none is restored.
LEMMA ReadableKept ==
  ASSUME Install!IInv, v4' = v4, v3'.schema = v3.schema, v8' \in Install!Op,
         v6' = "migrating" => v6 = "migrating",
         v9 => v9',
         Install!Begun' => /\ Install!Begun
                           /\ v8'.after = v8.after /\ v8'.from = v8.from /\ v8'.schema = v8.schema,
         v8.pc \in Install!Between \cup {"restore"} => v8'.pc \in Install!Between \cup {"restore"},
         v8'.pc \in Install!Between /\ v6' # "migrating" =>
            \/ v8'.pc = "swapback"
            \/ v8.pc \in Install!Before
            \/ v8.pc \in Install!Between \ {"swapback"} /\ v6 # "migrating" /\ v2' = v2
            \/ v9'
  PROVE  Install!SnapsAreReadable'
<1>1. Install!SnapsAreReadable
  BY InstallParts
<1> SUFFICES ASSUME Install!Begun', ~v9'
             PROVE  /\ \A i \in Install!Since' : Install!OldReads(v4[i].schema)'
                    /\ v6' = "migrating" => Install!NewestSince'
                    /\ Install!OldReads(v3.schema)' \/ (v8'.pc \in Install!Between \cup {"restore"} /\ Install!NewestSince')
                    /\ v8'.pc \in Install!Between /\ v6' # "migrating" /\ ~Install!OldReads(v3.schema)' =>
                         v8'.pc = "swapback" \/ v3'.schema >= Schema[v2']
  BY DEF Install!SnapsAreReadable
<1>2. /\ \A i \in Install!Since : Install!OldReads(v4[i].schema)
      /\ v6 = "migrating" => Install!NewestSince
      /\ Install!OldReads(v3.schema) \/ (v8.pc \in Install!Between \cup {"restore"} /\ Install!NewestSince)
      /\ v8.pc \in Install!Between /\ v6 # "migrating" /\ ~Install!OldReads(v3.schema) =>
           v8.pc = "swapback" \/ v3.schema >= Schema[v2]
  BY <1>1 DEF Install!SnapsAreReadable
<1>3. Install!Since' = Install!Since /\ (Install!NewestSince' <=> Install!NewestSince)
  BY DEF Install!Since, Install!NewestSince
<1>4. /\ \A i \in Install!Since : Install!OldReads(v4[i].schema)' <=> Install!OldReads(v4[i].schema)
      /\ Install!OldReads(v3.schema)' <=> Install!OldReads(v3.schema)
  BY DEF Install!OldReads
<1>5. v8.pc \in Install!Before => v8.pc \notin Install!Between \cup {"restore"}
  BY DEF Install!Before, Install!Between
<1> QED
  BY <1>2, <1>3, <1>4, <1>5

\* A step that begins, refuses, kills or ends a command other than an update, or
\* ends an update: nothing is promised of what is not an update.
LEMMA NoUpdate ==
  ASSUME v8'.kind # "update", v4' = v4, v10' \in Nat, v10' >= v10, Install!IInv
  PROVE  Install!BothAreThere' /\ Install!SnapsAreDated' /\ Install!SnapsAreReadable'
<1>1. Install!SnapsAreDated /\ Site
  BY InstallParts
<1>2. \A i \in DOMAIN v4 : v4[i].at \in Nat /\ v4[i].at <= v10
  BY <1>1, SiteIs DEF Install!SnapsAreDated
<1>3. \A i \in DOMAIN v4' : v4'[i].at <= v10'
  BY <1>1, <1>2 DEF Site
<1> QED
  BY <1>3 DEF Install!BothAreThere, Install!SnapsAreDated, Install!SnapsAreReadable, Install!Begun

\* Where a command is about to change something it has stopped the daemon; at
\* the other steps it may run.
LEMMA JobKept ==
  ASSUME Install!JobIsKnown, v5'.registered <=> v5.registered, v6' # "down" => v6 # "down",
         v8'.pc \in {"idle", "gates", "fetch", "back"}
  PROVE  Install!JobIsKnown'
  BY DEF Install!JobIsKnown

\* The last of a finite set of versions to be installed.
LEMMA NewestIsOne ==
  ASSUME Site, NEW S \in SUBSET Versions, S # {}
  PROVE  Install!Newest(S) \in S
<1> DEFINE ats == {v1[v].at : v \in S}
<1>1. ats \subseteq Nat /\ ats # {} /\ \A v \in S : v1[v].at \in ats
  BY SiteIs
<1>2. IsFiniteSet(S)
  BY VersionsAre, FS_Subset
<1>3. IsFiniteSet(ats)
  <2> DEFINE f == [v \in S |-> v1[v].at]
  <2>1. f \in Surjection(S, ats)
    BY DEF Surjection
  <2> HIDE DEF f
  <2> QED
    BY <1>2, <2>1, FS_Surjection
<1>4. \E n \in ats : \A m \in ats : m <= n
  <2> HIDE DEF ats
  <2> QED
    BY <1>1, <1>3, BestOfFinite, Zenon
<1>5. \E v \in S : \A w \in S : v1[w].at <= v1[v].at
  BY <1>1, <1>4
<1> QED
  BY <1>5, Zenon DEF Install!Newest

\* A command begins, is refused, or dies.
LEMMA InstallAsked ==
  ASSUME Install!IInv,
         \/ \E v \in Versions : Install!Setup(v) \/ Install!Update(v)
         \/ Install!Gates \/ Install!Fetch \/ Install!RollBack \/ Install!Killed
  PROVE  Install!IInv' /\ Install!AgentComesBack
<1>1. /\ Site /\ Migrates /\ Commanded /\ Install!JobIsKnown /\ Install!BothAreThere
      /\ Install!SnapsAreDated /\ Install!SnapsAreReadable
  BY InstallParts
<1>2. UNCHANGED <<v1, v2, v3, v4, v5, v6, v7, v10>> /\ v9' \in BOOLEAN
  <2>1. UNCHANGED <<v1, v2, v3, v4, v5, v6, v7, v10>>
    BY DEF Install!Setup, Install!Update, Install!Gates, Install!Fetch, Install!RollBack,
           Install!Killed, Install!Command, Install!OnlyOp
  <2>2. v9' = v9 \/ v9' = (v6 = "migrating")
    BY DEF Install!Setup, Install!Update, Install!Gates, Install!Fetch, Install!RollBack,
           Install!Killed, Install!Command
  <2>3. v9 \in BOOLEAN
    BY <1>1 DEF Site
  <2> QED
    BY <2>1, <2>2, <2>3
<1>3. Site' /\ Migrates' /\ v10' \in Nat /\ v10' >= v10
  BY <1>1, <1>2 DEF Site, Migrates
<1>4. v3.data \in Nat /\ v3.schema \in Nat /\ v5.registered \in BOOLEAN
  BY <1>1, SiteIs
<1>5. ASSUME NEW kind \in {"setup", "update", "rollback"}, NEW pc \in {"stop", "back"}, NEW to \in Versions \cup {0},
             NEW from \in Versions \cup {0}, NEW after \in Nat, Install!Command(kind, pc, to, from, after)
      PROVE  /\ v8' \in Install!Op /\ v8'.pc = pc /\ v8'.kind = kind /\ v8'.to = to /\ v8'.from = from
             /\ v8'.after = after /\ v8'.was = v5.registered /\ v8'.data = v3.data /\ v8'.schema = v3.schema
             /\ v9' = (v6 = "migrating")
  <2>1. /\ v8' = [pc |-> pc, kind |-> kind, to |-> to, from |-> from, after |-> after,
                  was |-> v5.registered, data |-> v3.data, schema |-> v3.schema]
        /\ v9' = (v6 = "migrating")
    BY <1>5 DEF Install!Command
  <2>2. pc \in Install!Before \cup Install!Between
    BY DEF Install!Before, Install!Between
  <2> QED
    BY <1>4, <2>1, <2>2 DEF Install!Op
<1>6. CASE v8' = Install!Idle \/ v8' = [Install!Idle EXCEPT !.kind = "killed"]
  <2>1. v8' \in Install!Op /\ v8'.pc = "idle" /\ v8'.kind \in {"none", "killed"}
    BY <1>6, IdleIs DEF Install!Idle, Install!Op
  <2>2. Commanded' /\ Install!JobIsKnown'
    BY <1>1, <1>2, <2>1, JobKept DEF Commanded
  <2>3. Install!BothAreThere' /\ Install!SnapsAreDated' /\ Install!SnapsAreReadable'
    BY <1>2, <1>3, <2>1, NoUpdate
  <2>4. Install!AgentComesBack
    <3>1. CASE Install!Killed
      <4>1. v8'.kind = "killed"
        BY <3>1 DEF Install!Killed, Install!Idle
      <4> QED
        BY <4>1 DEF Install!AgentComesBack
    <3>2. CASE ~Install!Killed
      <4>1. v8.pc \in {"idle", "gates", "fetch"}
        BY <3>2 DEF Install!Setup, Install!Update, Install!Gates, Install!Fetch, Install!RollBack
      <4> QED
        BY <1>1, <4>1 DEF Install!BothAreThere, Install!AgentComesBack
    <3> QED
      BY <3>1, <3>2
  <2> QED
    BY <1>3, <2>1, <2>2, <2>3, <2>4, InstallParts
<1>7. ASSUME NEW v \in Versions, Install!Setup(v) \/ Install!Update(v)
      PROVE  Install!IInv' /\ Install!AgentComesBack
  <2>1. PICK kind \in {"setup", "update"}, pc \in {"gates", "fetch"} :
          /\ v8' = [Install!Idle EXCEPT !.pc = pc, !.kind = kind, !.to = v]
          /\ kind = "update" <=> pc = "fetch"
          /\ kind = "update" => Install!Live(v2) /\ v > v2
    BY <1>7 DEF Install!Setup, Install!Update
  <2>2. v8' \in Install!Op /\ v8'.pc = pc /\ v8'.kind = kind /\ v8'.to = v /\ v8'.data = 0 /\ ~v8'.was
    BY <2>1 DEF Install!Idle, Install!Op, Install!Before, Install!Between
  <2>3. Commanded' /\ Install!JobIsKnown' /\ ~Install!Begun'
    BY <1>1, <1>2, <2>1, <2>2, JobKept DEF Commanded, Install!Begun
  <2>4. v2 \in Nat /\ v \in Nat
    BY <1>1, VersionsAre DEF Site
  <2>5. Install!BothAreThere'
    <3>1. kind = "update" => pc = "fetch" /\ Install!Live(v2)' /\ v # v2'
      BY <1>2, <2>1, <2>4 DEF Install!Live
    <3> QED
      BY <2>2, <3>1 DEF Install!BothAreThere, Install!Before, Install!Between, Install!Live
  <2>6. Install!SnapsAreDated' /\ Install!SnapsAreReadable'
    <3>1. v3'.data >= v3.data
      BY <1>2, <1>4
    <3> QED
      BY <1>2, <1>3, <2>2, <2>3, <3>1, DatedKept DEF Install!SnapsAreReadable
  <2>7. Install!AgentComesBack
    <3>1. v8'.kind # "none"
      BY <2>2
    <3> QED
      BY <3>1 DEF Install!AgentComesBack
  <2> QED
    BY <1>3, <2>3, <2>5, <2>6, <2>7, InstallParts
<1>8. CASE Install!Gates
  <2>1. CASE v8' = Install!Idle
    BY <1>6, <2>1
  <2>2. CASE v8' # Install!Idle
    <3>1. Install!Command("setup", "stop", v8.to, 0, 0) /\ v8.pc = "gates"
      BY <1>8, <2>2 DEF Install!Gates
    <3>2. v8.to \in Versions
      BY <1>1, <3>1 DEF Commanded
    <3>3. v8' \in Install!Op /\ v8'.pc = "stop" /\ v8'.kind = "setup" /\ v8'.to = v8.to /\ v8'.was = v5.registered
      BY <1>5, <3>1, <3>2
    <3>4. Commanded' /\ Install!JobIsKnown' /\ Install!AgentComesBack
      BY <1>1, <1>2, <3>2, <3>3 DEF Commanded, Install!JobIsKnown, Install!AgentComesBack
    <3>5. Install!BothAreThere' /\ Install!SnapsAreDated' /\ Install!SnapsAreReadable'
      BY <1>2, <1>3, <3>3, NoUpdate
    <3> QED
      BY <1>3, <3>4, <3>5, InstallParts
  <2> QED
    BY <2>1, <2>2
<1>9. CASE Install!RollBack
  <2> DEFINE others == Install!Installed \ {v2}
             from == Install!Newest(others)
             after == v1[v2].at
  <2>1. Install!Live(v2) /\ others # {} /\ Install!Command("rollback", "back", 0, from, after)
    BY <1>9 DEF Install!RollBack
  <2>2. others \in SUBSET Versions
    BY DEF Install!Installed
  <2>3. from \in Versions
    <3> HIDE DEF others
    <3> QED
      BY <1>1, <2>1, <2>2, NewestIsOne
  <2>4. v2 \in Versions
    BY <1>1, <2>1 DEF Site, Install!Live
  <2>5. after \in Nat
    BY <1>1, <2>4, SiteIs
  <2> HIDE DEF from, after
  <2>6. v8' \in Install!Op /\ v8'.pc = "back" /\ v8'.kind = "rollback"
    BY <1>5, <2>1, <2>3, <2>5
  <2>7. Commanded' /\ Install!JobIsKnown' /\ Install!AgentComesBack
    BY <1>1, <1>2, <2>6, JobKept DEF Commanded, Install!AgentComesBack
  <2>8. Install!BothAreThere' /\ Install!SnapsAreDated' /\ Install!SnapsAreReadable'
    BY <1>2, <1>3, <2>6, NoUpdate
  <2> QED
    BY <1>3, <2>7, <2>8, InstallParts
<1>10. CASE Install!Fetch
  <2>1. CASE v8' = Install!Idle
    BY <1>6, <2>1
  <2>2. CASE v8' # Install!Idle
    <3>1. Install!Command("update", "stop", v8.to, v2, v10) /\ v8.pc = "fetch"
      BY <1>10, <2>2 DEF Install!Fetch
    <3>2. v8.to \in Versions /\ v2 \in Versions \cup {0} /\ v10 \in Nat
      BY <1>1, <3>1 DEF Commanded, Site
    <3>3. /\ v8' \in Install!Op /\ v8'.pc = "stop" /\ v8'.kind = "update" /\ v8'.to = v8.to /\ v8'.from = v2
          /\ v8'.after = v10 /\ v8'.was = v5.registered /\ v8'.data = v3.data /\ v8'.schema = v3.schema
          /\ v9' = (v6 = "migrating")
      BY <1>5, <3>1, <3>2
    <3>4. Commanded' /\ Install!JobIsKnown' /\ Install!AgentComesBack
      BY <1>1, <1>2, <3>2, <3>3 DEF Commanded, Install!JobIsKnown, Install!AgentComesBack
    <3>5. Install!Live(v2) /\ v8.to # v2
      <4>1. v8.kind = "update"
        BY <1>1, <3>1 DEF Commanded
      <4> QED
        BY <1>1, <3>1, <4>1 DEF Install!BothAreThere
    <3>6. Install!BothAreThere'
      BY <1>2, <3>3, <3>5 DEF Install!BothAreThere, Install!Live, Install!Between
    <3>7. \A i \in DOMAIN v4 : v4[i].at <= v10 /\ v4[i].at \in Nat
      BY <1>1, SiteIs DEF Install!SnapsAreDated
    <3>8. Install!Since' = {}
      BY <1>2, <3>2, <3>3, <3>7 DEF Install!Since
    <3>9. Install!SnapsAreDated'
      BY <1>2, <1>4, <3>2, <3>3, <3>7, <3>8 DEF Install!SnapsAreDated
    <3>10. Install!SnapsAreReadable'
      <4>1. Install!OldReads(v3.schema)'
        BY <1>2, <1>4, <3>3 DEF Install!OldReads
      <4>2. v8'.pc \notin Install!Between /\ v6' = v6 /\ (v9' <=> v6 = "migrating")
        BY <1>2, <3>3 DEF Install!Between
      <4> QED
        BY <3>8, <4>1, <4>2 DEF Install!SnapsAreReadable
    <3> QED
      BY <1>3, <3>4, <3>6, <3>9, <3>10, InstallParts
  <2> QED
    BY <2>1, <2>2
<1>11. CASE Install!Killed
  BY <1>6, <1>11 DEF Install!Killed
<1> QED
  BY <1>7, <1>8, <1>9, <1>10, <1>11

LEMMA StoppedIs ==
  ASSUME Site, Install!Stopped
  PROVE  /\ v5' \in [registered : BOOLEAN, login : BOOLEAN] /\ ~v5'.registered /\ v6' = "down"
  BY DEF Site, Install!Stopped

LEMMA StartedIs ==
  ASSUME Site, Install!Started
  PROVE  /\ v5' \in [registered : BOOLEAN, login : BOOLEAN] /\ v5'.registered /\ v7' = FALSE
  BY DEF Site, Install!Started

\* Where the daemon is stopped it is down.
LEMMA JobOff ==
  ASSUME Site, Install!JobIsKnown,
         v8.pc \in {"displace", "stage", "provision", "failed", "swap", "start", "swapback", "restore", "restart"}
  PROVE  ~v5.registered /\ v6 = "down"
  BY DEF Site, Install!JobIsKnown

LEMMA TreeChanges ==
  ASSUME Site, NEW v \in Versions, NEW is \in {"none", "staged", "ready"}, v1' = [v1 EXCEPT ![v].is = is]
  PROVE  v1' \in [Versions -> Install!Tree] /\ v1'[v].is = is /\ \A w \in Versions \ {v} : v1'[w] = v1[w]
<1> DEFINE r == [v1[v] EXCEPT !.is = is]
<1>1. v1 \in [Versions -> Install!Tree] /\ v1[v] \in Install!Tree
  BY DEF Site
<1>2. r \in Install!Tree /\ r.is = is
  BY <1>1 DEF Install!Tree
<1>3. v1' = [v1 EXCEPT ![v] = r]
  OBVIOUS
<1> HIDE DEF r
<1> QED
  BY <1>1, <1>2, <1>3

LEMMA PrunedIs ==
  ASSUME Site, NEW live
  PROVE  Install!Pruned(live) \in [Versions -> Install!Tree]
<1>1. v1 \in [Versions -> Install!Tree]
  BY DEF Site
<1>2. \A v \in Versions : [v1[v] EXCEPT !.is = "none"] \in Install!Tree
  <2> SUFFICES ASSUME NEW v \in Versions
               PROVE  [v1[v] EXCEPT !.is = "none"] \in Install!Tree
    OBVIOUS
  <2>1. v1[v] \in Install!Tree
    BY <1>1
  <2> QED
    BY <2>1 DEF Install!Tree
<1> QED
  BY <1>1, <1>2 DEF Install!Pruned

\* A command that ends keeps what is there, and leaves its daemon as it is known.
LEMMA InstallOver ==
  ASSUME Install!IInv, Site', Migrates', v8' = Install!Idle, v4' = v4, v10' = v10,
         v6' # "down" => v5'.registered
  PROVE  Install!IInv'
<1>1. Site
  BY InstallParts
<1>2. v8' \in Install!Op /\ v8'.pc = "idle" /\ v8'.kind = "none"
  BY IdleIs
<1>3. v10' \in Nat /\ v10' >= v10
  BY <1>1 DEF Site
<1>4. Commanded' /\ Install!JobIsKnown'
  BY <1>2 DEF Commanded, Install!JobIsKnown
<1>5. Install!BothAreThere' /\ Install!SnapsAreDated' /\ Install!SnapsAreReadable'
  BY <1>2, <1>3, NoUpdate
<1> QED
  BY <1>4, <1>5, InstallParts

\* A command that goes on, and the three facts its step has to see to.
LEMMA InstallGoes ==
  ASSUME Install!IInv, NEW pc \in Install!Before \cup Install!Between \cup {"restore", "restart"},
         Install!Goto(pc), Site', Migrates', UNCHANGED <<v3, v4>>, v10' >= v10, v9' = v9,
         v6' = "migrating" => v6 = "migrating",
         v8.pc \notin {"idle", "gates", "fetch"},
         v8.pc \in {"back", "swapback", "restore", "restart"} =>
           pc \in {"back", "swapback", "restore", "restart"},
         v8.pc \in Install!Between \cup {"restore"} => pc \in Install!Between \cup {"restore"},
         pc \in Install!Between /\ v6' # "migrating" =>
            \/ pc = "swapback"
            \/ v8.pc \in Install!Before
            \/ v8.pc \in Install!Between \ {"swapback"} /\ v6 # "migrating" /\ v2' = v2,
         Install!JobIsKnown', v8.kind = "update" => Install!BothAreThere'
  PROVE  Install!IInv' /\ Install!AgentComesBack
<1>1. Commanded /\ Site
  BY InstallParts
<1>2. v8 \in Install!Op
  BY <1>1 DEF Commanded
<1>3. /\ v8' \in Install!Op /\ v8'.pc = pc /\ v8'.kind = v8.kind /\ v8'.to = v8.to /\ v8'.from = v8.from
      /\ v8'.after = v8.after /\ v8'.was = v8.was /\ v8'.data = v8.data /\ v8'.schema = v8.schema
  BY <1>2, GotoIs
<1>4. Commanded'
  BY <1>1, <1>3 DEF Commanded, Install!Before, Install!Between
<1>5. Install!BothAreThere'
  BY <1>3 DEF Install!BothAreThere
<1>6. Install!Begun' => Install!Begun
  BY <1>3 DEF Install!Begun
<1>7. v3'.data >= v3.data
  BY <1>1, SiteIs
<1>8. Install!SnapsAreDated'
  BY <1>3, <1>6, <1>7, DatedKept
<1>9. Install!SnapsAreReadable'
  BY <1>3, <1>6, ReadableKept
<1>10. Install!AgentComesBack
  BY <1>3 DEF Install!AgentComesBack
<1> QED
  BY <1>4, <1>5, <1>8, <1>9, <1>10, InstallParts

\* supervisor.stop, before a version is replaced or one is rolled back
LEMMA InstallStops ==
  ASSUME Install!IInv, Install!Stop \/ Install!Back
  PROVE  Install!IInv' /\ Install!AgentComesBack
<1>1. /\ Site /\ Migrates /\ Commanded /\ Install!JobIsKnown /\ Install!BothAreThere
  BY InstallParts
<1>2. UNCHANGED <<v1, v2, v3, v4, v7, v9, v10>> /\ v8 \in Install!Op
  BY <1>1 DEF Install!Stop, Install!Back, Commanded
<1>3. v10' >= v10
  BY <1>1, <1>2 DEF Site
<1>4. CASE Install!Stop
  <2>1. PICK pc \in {"stage", "displace"} : Install!Goto(pc)
    BY <1>4 DEF Install!Stop
  <2>2. v8.pc = "stop" /\ pc \in Install!Before /\ pc \notin Install!Between /\ v8.pc \in Install!Before
    BY <1>4 DEF Install!Stop, Install!Before, Install!Between
  <2>3. /\ v8'.pc = pc /\ v8'.kind = v8.kind /\ v8'.to = v8.to /\ v8'.from = v8.from
        /\ v8'.was = v8.was
    BY <1>2, <2>1, <2>2, GotoIs
  <2>4. (v6' = "down" /\ ~v5'.registered /\ v5' \in [registered : BOOLEAN, login : BOOLEAN])
        \/ (v5' = v5 /\ v6' = v6 /\ ~v5.registered)
    <3>1. CASE v8.was
      <4>1. Install!Stopped
        BY <1>4, <3>1 DEF Install!Stop
      <4> QED
        BY <1>1, <4>1, StoppedIs
    <3>2. CASE ~v8.was
      BY <1>1, <1>4, <3>2 DEF Install!Stop, Install!JobIsKnown
    <3> QED
      BY <3>1, <3>2
  <2>5. Site' /\ Migrates'
    BY <1>1, <1>2, <2>4 DEF Site, Migrates
  <2>6. Install!JobIsKnown'
    BY <1>1, <2>3, <2>4 DEF Install!JobIsKnown
  <2>7. v8.kind = "update" => Install!BothAreThere'
    BY <1>1, <1>2, <2>2, <2>3 DEF Install!BothAreThere, Install!Live
  <2>8. (v6' = "migrating" => v6 = "migrating")
    BY <2>4
  <2>9. v8.pc \notin Install!Between
    BY <2>2 DEF Install!Between
  <2> QED
    BY <1>2, <1>3, <2>1, <2>2, <2>5, <2>6, <2>7, <2>8, <2>9, InstallGoes
<1>5. CASE Install!Back
  <2>1. Install!Goto("swapback") /\ v8.pc = "back" /\ Install!Stopped
    BY <1>5 DEF Install!Back
  <2>2. "swapback" \in Install!Between /\ "swapback" \notin Install!Before /\ v8.pc \in Install!Between
    BY <2>1 DEF Install!Between, Install!Before
  <2>3. /\ v8'.pc = "swapback" /\ v8'.kind = v8.kind /\ v8'.to = v8.to /\ v8'.from = v8.from
        /\ v8'.was = v8.was
    BY <1>2, <2>1, <2>2, GotoIs
  <2>4. v6' = "down" /\ ~v5'.registered /\ v5' \in [registered : BOOLEAN, login : BOOLEAN]
    BY <1>1, <2>1, StoppedIs
  <2>5. Site' /\ Migrates'
    BY <1>1, <1>2, <2>4 DEF Site, Migrates
  <2>6. Install!JobIsKnown'
    BY <2>3, <2>4 DEF Install!JobIsKnown
  <2>7. v8.kind = "update" => Install!BothAreThere'
    BY <1>1, <1>2, <2>1, <2>2, <2>3 DEF Install!BothAreThere, Install!Live
  <2> QED
    BY <1>2, <1>3, <2>1, <2>2, <2>4, <2>5, <2>6, <2>7, InstallGoes
<1> QED
  BY <1>4, <1>5


\* A tree that changes only where the command puts the version it brings.
LEMMA SiteStays ==
  ASSUME Site, v1' \in [Versions -> Install!Tree], v10' \in Nat,
         UNCHANGED <<v2, v3, v4, v5, v6, v7, v9>>
  PROVE  Site'
  BY DEF Site

\* stage_version and provision: the version that runs is not touched
LEMMA InstallStages ==
  ASSUME Install!IInv, Install!Displace \/ Install!Stage \/ Install!Provision
  PROVE  Install!IInv' /\ Install!AgentComesBack
<1>1. /\ Site /\ Migrates /\ Commanded /\ Install!JobIsKnown /\ Install!BothAreThere
  BY InstallParts
<1>2. UNCHANGED <<v2, v3, v4, v5, v6, v7, v9>> /\ v8 \in Install!Op
  BY <1>1 DEF Install!Displace, Install!Stage, Install!Provision, Commanded
<1>3. v8.pc \in {"displace", "stage", "provision"} /\ v8.to \in Versions /\ v8.pc \in Install!Before
      /\ v8.pc \notin Install!Between
  BY <1>1 DEF Install!Displace, Install!Stage, Install!Provision, Commanded, Install!Before, Install!Between
<1>4. PICK pc \in {"stage", "provision", "swap", "failed"} :
        /\ Install!Goto(pc) /\ v10' \in Nat /\ v10' >= v10
        /\ v1' \in [Versions -> Install!Tree] /\ \A w \in Versions \ {v8.to} : v1'[w] = v1[w]
        /\ pc = "swap" => v1'[v8.to].is = "ready"
  <2>0. v10 \in Nat /\ v1 \in [Versions -> Install!Tree]
    BY <1>1 DEF Site
  <2>1. CASE Install!Displace
    <3>1. v1' = [v1 EXCEPT ![v8.to].is = "none"] /\ v10' = v10 /\ Install!Goto("stage")
      BY <2>1 DEF Install!Displace
    <3>2. v1' \in [Versions -> Install!Tree] /\ \A w \in Versions \ {v8.to} : v1'[w] = v1[w]
      BY <1>1, <1>3, <3>1, TreeChanges
    <3> QED
      BY <2>0, <3>1, <3>2
  <2>2. CASE Install!Stage
    <3>1. v1' = [v1 EXCEPT ![v8.to] = [is |-> "staged", at |-> v10']] /\ v10' = v10 + 1 /\ Install!Goto("provision")
      BY <2>2 DEF Install!Stage
    <3>2. [is |-> "staged", at |-> v10'] \in Install!Tree
      BY <2>0, <3>1 DEF Install!Tree
    <3> QED
      BY <1>3, <2>0, <3>1, <3>2
  <2>3. CASE Install!Provision
    <3>1. PICK is \in {"ready", "none"} :
            /\ v1' = [v1 EXCEPT ![v8.to].is = is] /\ v10' = v10
            /\ Install!Goto(IF is = "ready" THEN "swap" ELSE "failed")
      BY <2>3 DEF Install!Provision
    <3>2. /\ v1' \in [Versions -> Install!Tree] /\ v1'[v8.to].is = is
          /\ \A w \in Versions \ {v8.to} : v1'[w] = v1[w]
      BY <1>1, <1>3, <3>1, TreeChanges
    <3>3. CASE is = "ready"
      BY <2>0, <3>1, <3>2, <3>3
    <3>4. CASE is # "ready"
      BY <2>0, <3>1, <3>2, <3>4
    <3> QED
      BY <3>3, <3>4
  <2> QED
    BY <2>1, <2>2, <2>3
<1>5. pc \in Install!Before /\ pc \notin Install!Between
  BY DEF Install!Before, Install!Between
<1>6. /\ v8'.pc = pc /\ v8'.kind = v8.kind /\ v8'.to = v8.to /\ v8'.from = v8.from /\ v8'.was = v8.was
  BY <1>2, <1>4, <1>5, GotoIs
<1>7. Site' /\ Migrates'
  <2>1. Site'
    BY <1>1, <1>2, <1>4, SiteStays
  <2> QED
    BY <1>1, <1>2, <2>1 DEF Migrates
<1>8. Install!JobIsKnown'
  BY <1>1, <1>2, <1>3, <1>6 DEF Install!JobIsKnown
<1>9. v8.kind = "update" => Install!BothAreThere'
  <2> SUFFICES ASSUME v8.kind = "update"
               PROVE  Install!BothAreThere'
    OBVIOUS
  <2>1. v2 = v8.from /\ Install!Live(v8.from) /\ v8.to # v8.from
    BY <1>1, <1>3 DEF Install!BothAreThere
  <2>2. v8.from \in Versions /\ v1'[v8.from] = v1[v8.from]
    <3>1. v2 \in Versions \cup {0}
      BY <1>1 DEF Site
    <3> QED
      BY <1>4, <2>1, <3>1 DEF Install!Live
  <2>3. v8.to # 0
    BY <1>3, VersionsAre
  <2> QED
    BY <1>2, <1>4, <1>5, <1>6, <2>1, <2>2, <2>3 DEF Install!BothAreThere, Install!Live
<1>10. v8.pc \notin {"idle", "gates", "fetch", "back", "swapback", "restore", "restart"}
       /\ v8.pc \notin Install!Between \cup {"restore"}
  BY <1>3
<1>11. /\ v8.pc \notin {"idle", "gates", "fetch"}
       /\ (v8.pc \in {"back", "swapback", "restore", "restart"} => pc \in {"back", "swapback", "restore", "restart"})
       /\ (v8.pc \in Install!Between \cup {"restore"} => pc \in Install!Between \cup {"restore"})
       /\ (v6' = "migrating" => v6 = "migrating") /\ UNCHANGED <<v3, v4>> /\ v9' = v9
  BY <1>2, <1>10
<1> QED
  BY <1>4, <1>5, <1>7, <1>8, <1>9, <1>11, InstallGoes

\* swap_current, the start that follows, and the swap back
LEMMA InstallSwaps ==
  ASSUME Install!IInv, Install!Swap \/ Install!Start \/ Install!SwapBack
  PROVE  Install!IInv' /\ Install!AgentComesBack
<1>1. /\ Site /\ Migrates /\ Commanded /\ Install!JobIsKnown /\ Install!BothAreThere
  BY InstallParts
<1>2. UNCHANGED <<v3, v4, v6, v9, v10>> /\ v8 \in Install!Op /\ v10 \in Nat
  BY <1>1 DEF Install!Swap, Install!Start, Install!SwapBack, Commanded, Site
<1>3. ~v5.registered /\ v6 = "down" /\ v6' = "down"
  <2>1. v8.pc \in {"swap", "start", "swapback"} /\ v6' = v6
    BY DEF Install!Swap, Install!Start, Install!SwapBack
  <2> QED
    BY <1>1, <2>1, JobOff
<1>4. Migrates'
  BY <1>3 DEF Migrates
<1>5. v8.to \in Versions \cup {0} /\ v8.from \in Versions \cup {0}
  BY <1>2, OpIs
<1>6. CASE Install!Start
  <2>1. v8.pc = "start" /\ Install!Goto("wait") /\ Install!Started /\ UNCHANGED <<v1, v2>>
    BY <1>6 DEF Install!Start
  <2>2. {"start", "wait"} \subseteq Install!Between \ {"swapback"}
    BY DEF Install!Between
  <2>3. /\ v8'.pc = "wait" /\ v8'.kind = v8.kind /\ v8'.to = v8.to /\ v8'.from = v8.from
    BY <1>2, <2>1, <2>2, GotoIs
  <2>4. v5' \in [registered : BOOLEAN, login : BOOLEAN] /\ v5'.registered /\ v7' = FALSE
    BY <1>1, <2>1, StartedIs
  <2>5. Site'
    BY <1>1, <1>2, <2>1, <2>4 DEF Site
  <2>6. Install!JobIsKnown'
    BY <2>3, <2>4 DEF Install!JobIsKnown
  <2>7. v8.kind = "update" => Install!BothAreThere'
    BY <1>1, <2>1, <2>2, <2>3 DEF Install!BothAreThere, Install!Live, Install!Before
  <2>8. /\ v8.pc \notin {"idle", "gates", "fetch", "back", "swapback", "restore", "restart"}
        /\ v6 # "migrating" /\ v6' # "migrating" /\ v2' = v2 /\ v10' >= v10
    BY <1>2, <1>3, <2>1
  <2> QED
    BY <1>2, <1>4, <2>1, <2>2, <2>5, <2>6, <2>7, <2>8, InstallGoes
<1>7. CASE Install!SwapBack
  <2>1. v8.pc = "swapback" /\ Install!Goto("restore") /\ v2' = v8.from /\ UNCHANGED <<v1, v5, v7>>
    BY <1>7 DEF Install!SwapBack
  <2>2. "restore" \notin Install!Before /\ "restore" \notin Install!Between /\ v8.pc \in Install!Between
    BY <2>1 DEF Install!Before, Install!Between
  <2>3. /\ v8'.pc = "restore" /\ v8'.kind = v8.kind /\ v8'.to = v8.to /\ v8'.from = v8.from
    BY <1>2, <2>1, GotoIs
  <2>4. Site'
    BY <1>1, <1>2, <1>5, <2>1 DEF Site
  <2>5. Install!JobIsKnown'
    BY <1>3, <2>1, <2>3 DEF Install!JobIsKnown
  <2>6. v8.kind = "update" => Install!BothAreThere'
    BY <1>1, <2>1, <2>2, <2>3 DEF Install!BothAreThere, Install!Live
  <2>7. v8.pc \notin {"idle", "gates", "fetch"} /\ v6' # "migrating" /\ v10' >= v10
    BY <1>2, <1>3, <2>1
  <2> QED
    BY <1>2, <1>4, <2>1, <2>2, <2>4, <2>5, <2>6, <2>7, InstallGoes
<1>8. CASE Install!Swap /\ v8.kind = "update" /\ ~v8.was
  <2>1. /\ v8.pc = "swap" /\ v2' = v8.to /\ v8' = Install!Idle /\ v1' = Install!Pruned(v2')
        /\ Install!Started \/ UNCHANGED <<v5, v7>>
    BY <1>8 DEF Install!Swap
  <2>2. v1' \in [Versions -> Install!Tree]
    BY <1>1, <2>1, PrunedIs
  <2>3. v5' \in [registered : BOOLEAN, login : BOOLEAN] /\ v7' \in BOOLEAN
    BY <1>1, <2>1, StartedIs DEF Site
  <2>4. Site'
    BY <1>1, <1>2, <1>5, <2>1, <2>2, <2>3 DEF Site
  <2>5. Install!IInv'
    BY <1>2, <1>3, <1>4, <2>1, <2>4, InstallOver
  <2> QED
    BY <1>8, <2>5 DEF Install!AgentComesBack
<1>9. CASE Install!Swap /\ ~(v8.kind = "update" /\ ~v8.was)
  <2>1. /\ v8.pc = "swap" /\ v2' = v8.to /\ Install!Goto("start") /\ UNCHANGED <<v5, v7>>
        /\ v1' = IF v8.kind = "setup" THEN Install!Pruned(v2') ELSE v1
    BY <1>9 DEF Install!Swap
  <2>2. "start" \in Install!Between /\ "start" \notin Install!Before /\ v8.pc \in Install!Before
        /\ v8.pc \notin Install!Between
    BY <2>1 DEF Install!Before, Install!Between
  <2>3. /\ v8'.pc = "start" /\ v8'.kind = v8.kind /\ v8'.to = v8.to /\ v8'.from = v8.from
    BY <1>2, <2>1, <2>2, GotoIs
  <2>4. v1' \in [Versions -> Install!Tree]
    <3>1. Install!Pruned(v2') \in [Versions -> Install!Tree]
      BY <1>1, PrunedIs
    <3> QED
      BY <1>1, <2>1, <3>1 DEF Site
  <2>5. Site'
    BY <1>1, <1>2, <1>5, <2>1, <2>4 DEF Site
  <2>6. Install!JobIsKnown'
    BY <1>3, <2>1, <2>3 DEF Install!JobIsKnown
  <2>7. v8.kind = "update" => Install!BothAreThere'
    BY <1>1, <2>1, <2>2, <2>3 DEF Install!BothAreThere, Install!Live
  <2>8. /\ v8.pc \notin {"idle", "gates", "fetch", "back", "swapback", "restore", "restart"}
        /\ v6' # "migrating" /\ v10' >= v10
    BY <1>2, <1>3, <2>1
  <2> QED
    BY <1>2, <1>4, <2>1, <2>2, <2>5, <2>6, <2>7, <2>8, InstallGoes
<1> QED
  BY <1>6, <1>7, <1>8, <1>9

\* The ends of a command, and an update whose daemon is judged not to be well.
LEMMA InstallEnds ==
  ASSUME Install!IInv, Install!Failed \/ Install!Judge \/ Install!Restart
  PROVE  Install!IInv' /\ Install!AgentComesBack
<1>1. /\ Site /\ Migrates /\ Commanded /\ Install!JobIsKnown /\ Install!BothAreThere
  BY InstallParts
<1>2. UNCHANGED <<v2, v3, v4, v6, v9, v10>> /\ v8 \in Install!Op /\ v10 \in Nat
  BY <1>1 DEF Install!Failed, Install!Judge, Install!Restart, Commanded, Site
<1>3. Migrates'
  BY <1>1, <1>2 DEF Migrates
<1>4. CASE Install!Failed \/ Install!Restart
  <2>1. /\ v8.pc \in {"failed", "restart"} /\ v8' = Install!Idle /\ v1' = v1
        /\ Install!Started \/ UNCHANGED <<v5, v7>>
        /\ v8.kind = "update" /\ v8.was => Install!Started
    BY <1>4 DEF Install!Failed, Install!Restart
  <2>2. v5' \in [registered : BOOLEAN, login : BOOLEAN] /\ v7' \in BOOLEAN
        /\ (v8.kind = "update" /\ v8.was => v5'.registered)
    BY <1>1, <2>1, StartedIs DEF Site
  <2>3. Site'
    BY <1>1, <1>2, <2>1, <2>2 DEF Site
  <2>4. v6' = "down"
    BY <1>1, <1>2, <2>1, JobOff
  <2>5. Install!IInv'
    BY <1>2, <1>3, <2>1, <2>3, <2>4, InstallOver
  <2> QED
    BY <2>2, <2>5 DEF Install!AgentComesBack
<1>5. CASE Install!Judge /\ v8' = Install!Idle
  <2>1. v8.pc = "wait" /\ UNCHANGED <<v5, v7>> /\ (v1' = v1 \/ v1' = Install!Pruned(v2))
    BY <1>5 DEF Install!Judge
  <2>2. v1' \in [Versions -> Install!Tree]
    <3>1. Install!Pruned(v2) \in [Versions -> Install!Tree]
      BY <1>1, PrunedIs
    <3> QED
      BY <1>1, <2>1, <3>1 DEF Site
  <2>3. Site'
    BY <1>1, <1>2, <2>1, <2>2 DEF Site
  <2>4. v5'.registered
    BY <1>1, <2>1 DEF Install!JobIsKnown
  <2>5. Install!IInv'
    BY <1>2, <1>3, <1>5, <2>3, <2>4, InstallOver
  <2> QED
    BY <2>4, <2>5 DEF Install!AgentComesBack
<1>6. CASE Install!Judge /\ v8' # Install!Idle
  <2>1. v8.pc = "wait" /\ UNCHANGED <<v5, v7>> /\ v1' = v1 /\ Install!Goto("back") /\ v8.kind = "update"
    BY <1>6 DEF Install!Judge
  <2>2. {"wait", "back"} \subseteq Install!Between \ {"swapback"}
    BY DEF Install!Between
  <2>3. /\ v8'.pc = "back" /\ v8'.kind = v8.kind /\ v8'.to = v8.to /\ v8'.from = v8.from
    BY <1>2, <2>1, <2>2, GotoIs
  <2>4. Site'
    BY <1>1, <1>2, <2>1 DEF Site
  <2>5. Install!JobIsKnown'
    BY <1>1, <1>2, <2>1, <2>3, JobKept
  <2>6. Install!BothAreThere'
    BY <1>1, <1>2, <2>1, <2>2, <2>3 DEF Install!BothAreThere, Install!Live, Install!Before
  <2>7. /\ v8.pc \notin {"idle", "gates", "fetch", "back", "swapback", "restore", "restart"}
        /\ (v6' = "migrating" <=> v6 = "migrating") /\ v2' = v2 /\ v10' >= v10
    BY <1>2, <2>1
  <2> QED
    BY <1>2, <1>3, <2>1, <2>2, <2>4, <2>5, <2>6, <2>7, InstallGoes
<1> QED
  BY <1>4, <1>5, <1>6

\* An update is known as such at its own steps alone.
LEMMA UpdateSteps ==
  ASSUME Install!BothAreThere, v8.kind = "update", v8.pc \in {"idle", "gates"}
  PROVE  FALSE
  BY DEF Install!BothAreThere

\* _roll_back_to puts the snapshot of its own migration back, or finds none to
\* put back and nothing it would be needed for
LEMMA InstallRestores ==
  ASSUME Install!IInv, Install!Restore
  PROVE  Install!IInv' /\ Install!AgentComesBack
<1>1. /\ Site /\ Migrates /\ Commanded /\ Install!JobIsKnown /\ Install!BothAreThere
      /\ Install!SnapsAreDated /\ Install!SnapsAreReadable
  BY InstallParts
<1>2. /\ UNCHANGED <<v1, v2, v4, v5, v6, v7, v9, v10>> /\ v8 \in Install!Op /\ v10 \in Nat
      /\ v8.pc = "restore" /\ Install!Goto("restart")
  BY <1>1 DEF Install!Restore, Commanded, Site
<1>3. "restart" \notin Install!Before /\ "restart" \notin Install!Between
  BY DEF Install!Before, Install!Between
<1>4. /\ v8' \in Install!Op /\ v8'.pc = "restart" /\ v8'.kind = v8.kind /\ v8'.to = v8.to
      /\ v8'.from = v8.from /\ v8'.after = v8.after /\ v8'.was = v8.was /\ v8'.data = v8.data
      /\ v8'.schema = v8.schema
  BY <1>2, GotoIs
<1>5. ~v5.registered /\ v6 = "down"
  BY <1>1, <1>2, JobOff
<1>6. v4 \in Seq(Install!Snap) /\ DOMAIN v4 = 1..Len(v4) /\ Len(v4) \in Nat
  BY <1>1 DEF Site
<1> DEFINE s == v4[Len(v4)]
<1>7. \/ v4 # <<>> /\ s.at > v8.after /\ v3' = [schema |-> s.schema, data |-> s.data]
      \/ ~(v4 # <<>> /\ s.at > v8.after) /\ v3' = v3
  BY DEF Install!Restore
<1>8. v4 # <<>> => Len(v4) \in DOMAIN v4
  BY <1>6
<1>9. v3' \in Install!Data
  <2>1. CASE v4 # <<>> /\ s.at > v8.after /\ v3' = [schema |-> s.schema, data |-> s.data]
    <3>1. s.schema \in Nat /\ s.data \in Nat
      BY <1>1, <1>8, <2>1, SiteIs
    <3> HIDE DEF s
    <3> QED
      BY <2>1, <3>1 DEF Install!Data
  <2>2. CASE v3' = v3
    BY <1>1, <2>2 DEF Site
  <2> QED
    BY <1>7, <2>1, <2>2
<1>10. Site' /\ Migrates' /\ Commanded'
  BY <1>1, <1>2, <1>3, <1>4, <1>5, <1>9 DEF Site, Migrates, Commanded
<1>11. Install!JobIsKnown'
  BY <1>2, <1>4, <1>5 DEF Install!JobIsKnown
<1>12. Install!BothAreThere'
  BY <1>1, <1>2, <1>3, <1>4 DEF Install!BothAreThere, Install!Live
<1>13. Install!AgentComesBack
  <2>1. v8.kind = v8'.kind
    BY <1>4
  <2> QED
    BY <2>1 DEF Install!AgentComesBack
<1>14. CASE v8.kind # "update"
  <2>1. Install!SnapsAreDated' /\ Install!SnapsAreReadable'
    BY <1>2, <1>4, <1>14, NoUpdate
  <2> QED
    BY <1>10, <1>11, <1>12, <1>13, <2>1, InstallParts
<1>15. CASE v8.kind = "update"
  <2>1. Install!Begun /\ Install!Begun' /\ Install!Since' = Install!Since
    BY <1>2, <1>4, <1>15 DEF Install!Begun, Install!Since
  <2>2. (v4 # <<>> /\ s.at > v8.after) <=> Install!NewestSince
    BY <1>8 DEF Install!NewestSince, Install!Since
  <2>3. Install!NewestSince => Len(v4) \in Install!Since
    BY DEF Install!NewestSince
  <2>4. v3'.data >= v8.data
    <3>1. v3.data >= v8.data /\ \A i \in Install!Since : v4[i].data >= v8.data
      BY <1>1, <2>1 DEF Install!SnapsAreDated
    <3> QED
      BY <1>7, <2>2, <2>3, <3>1
  <2>5. Install!SnapsAreDated'
    <3>1. /\ \A i \in DOMAIN v4 : v4[i].at <= v10
          /\ v8.after <= v10 /\ \A i \in Install!Since : v4[i].data >= v8.data
      BY <1>1, <2>1 DEF Install!SnapsAreDated
    <3> QED
      BY <1>2, <1>4, <2>1, <2>4, <3>1 DEF Install!SnapsAreDated
  <2>6. Install!SnapsAreReadable'
    <3> SUFFICES ASSUME ~v9
                 PROVE  Install!SnapsAreReadable'
      BY <1>2 DEF Install!SnapsAreReadable
    <3>1. /\ \A i \in Install!Since : Install!OldReads(v4[i].schema)
          /\ Install!OldReads(v3.schema) \/ Install!NewestSince
      BY <1>1, <2>1 DEF Install!SnapsAreReadable
    <3>2. Install!OldReads(v3'.schema)
      BY <1>7, <2>2, <2>3, <3>1
    <3>3. Install!OldReads(v3.schema)' <=> Install!OldReads(v3'.schema)
      BY <1>4 DEF Install!OldReads
    <3>4. \A i \in Install!Since' : Install!OldReads(v4[i].schema)'
      BY <1>2, <1>4, <2>1, <3>1 DEF Install!OldReads
    <3> QED
      BY <1>2, <1>3, <1>4, <1>5, <3>2, <3>3, <3>4 DEF Install!SnapsAreReadable
  <2> QED
    BY <1>10, <1>11, <1>12, <1>13, <2>5, <2>6, InstallParts
<1> QED
  BY <1>14, <1>15

\* At the steps at which a job is registered an update has not begun to change
\* anything, waits for the daemon, or is about to stop it.
LEMMA UpdateRuns ==
  ASSUME Install!IInv, v5.registered, Install!Begun
  PROVE  v8.pc \in {"stop", "wait", "back"}
<1>1. Commanded /\ Install!JobIsKnown
  BY InstallParts
<1>2. v8.pc \in {"idle", "gates", "fetch"} \cup Install!Before \cup Install!Between \cup {"restore", "restart"}
  BY <1>1, OpIs DEF Commanded
<1> QED
  BY <1>1, <1>2 DEF Install!JobIsKnown, Install!Begun, Install!Before, Install!Between

\* Where a job starts the daemon on a database that is to be migrated, the old
\* version can read it.
LEMMA BootReads ==
  ASSUME Install!IInv, v5.registered, v6 = "down", Install!Begun, ~v9, v3.schema < Schema[v2], v2 \in Versions
  PROVE  Install!OldReads(v3.schema)
<1>1. Install!SnapsAreReadable /\ Site
  BY InstallParts
<1>2. v8.pc \in {"stop", "wait", "back"}
  BY UpdateRuns
<1>3. v3.schema \in Nat /\ Schema[v2] \in Nat
  BY <1>1, SiteIs, VersionsAre
<1>4. /\ Install!OldReads(v3.schema) \/ v8.pc \in Install!Between \cup {"restore"}
      /\ v8.pc \in Install!Between /\ ~Install!OldReads(v3.schema) => v8.pc = "swapback" \/ v3.schema >= Schema[v2]
  BY <1>1 DEF Install!SnapsAreReadable
<1>5. ~(v3.schema >= Schema[v2])
  BY <1>3
<1> QED
  BY <1>2, <1>4, <1>5

\* The snapshots that stay are those there were, and the newest is the one taken.
LEMMA LatestIs ==
  ASSUME v4 \in Seq(Install!Snap), NEW x \in Install!Snap, v4' = Install!Latest(Append(v4, x))
  PROVE  /\ v4' \in Seq(Install!Snap) /\ v4' # <<>> /\ v4'[Len(v4')] = x
         /\ \A i \in DOMAIN v4' : v4'[i] = x \/ \E j \in DOMAIN v4 : v4'[i] = v4[j]
<1> DEFINE a == Append(v4, x)
<1>1. BackupsKeep \in Nat \ {0}
  BY VersionsAre
<1>2. a \in Seq(Install!Snap) /\ Len(a) = Len(v4) + 1 /\ Len(v4) \in Nat /\ a[Len(v4) + 1] = x /\ DOMAIN v4 = 1..Len(v4)
      /\ \A i \in 1..Len(v4) : a[i] = v4[i]
  OBVIOUS
<1>0. v4' = Install!Latest(a)
  OBVIOUS
<1> HIDE DEF a
<1>3. CASE Len(a) <= BackupsKeep
  <2>1. v4' = a
    BY <1>0, <1>3 DEF Install!Latest
  <2> QED
    BY <1>2, <2>1 DEF a
<1>4. CASE ~(Len(a) <= BackupsKeep)
  <2> DEFINE m == Len(a) - BackupsKeep + 1
  <2>1. v4' = SubSeq(a, m, Len(a))
    BY <1>0, <1>4 DEF Install!Latest
  <2>2. m \in 1..Len(a) /\ Len(a) \in Nat
    BY <1>1, <1>2, <1>4
  <2>3. v4' \in Seq(Install!Snap) /\ Len(v4') = BackupsKeep /\ \A i \in 1..Len(v4') : v4'[i] = a[m + i - 1]
    <3>1. \A i \in m..Len(a) : a[i] \in Install!Snap
      BY <1>2, <2>2
    <3>2. SubSeq(a, m, Len(a)) \in Seq(Install!Snap) /\ Len(SubSeq(a, m, Len(a))) = Len(a) - m + 1
          /\ \A i \in 1..(Len(a) - m + 1) : SubSeq(a, m, Len(a))[i] = a[m + i - 1]
      BY <1>2, <2>2, <3>1
    <3> QED
      BY <1>1, <1>2, <2>1, <3>2
  <2>4. v4'[Len(v4')] = x /\ v4' # <<>>
    BY <1>1, <1>2, <2>3
  <2>5. \A i \in DOMAIN v4' : v4'[i] = x \/ \E j \in DOMAIN v4 : v4'[i] = v4[j]
    <3> SUFFICES ASSUME NEW i \in DOMAIN v4'
                 PROVE  v4'[i] = x \/ \E j \in DOMAIN v4 : v4'[i] = v4[j]
      OBVIOUS
    <3>1. i \in 1..BackupsKeep /\ v4'[i] = a[m + i - 1]
      BY <2>3
    <3>2. m + i - 1 \in 1..(Len(v4) + 1)
      BY <1>1, <1>2, <1>4, <3>1
    <3>3. m + i - 1 = Len(v4) + 1 \/ m + i - 1 \in 1..Len(v4)
      BY <1>2, <3>2
    <3> QED
      BY <1>2, <3>1, <3>3
  <2> QED
    BY <2>3, <2>4, <2>5
<1> QED
  BY <1>3, <1>4

\* What holds of a command that waits while the daemon takes a step.
LEMMA CommandWaits ==
  ASSUME Install!IInv, Site', v8' = v8, UNCHANGED <<v1, v2>>
  PROVE  Commanded' /\ Install!BothAreThere' /\ Install!AgentComesBack /\ v8' \in Install!Op
<1>1. Commanded /\ Install!BothAreThere
  BY InstallParts
<1>2. Commanded' /\ v8' \in Install!Op
  BY <1>1 DEF Commanded
<1>3. Install!BothAreThere'
  BY <1>1 DEF Install!BothAreThere, Install!Live
<1>4. Install!AgentComesBack
  BY DEF Install!AgentComesBack
<1> QED
  BY <1>2, <1>3, <1>4

\* A start that finds the schema of its version there
LEMMA InstallBootsUp ==
  ASSUME Install!IInv, Install!Boot, ~(v3.schema < Schema[v2])
  PROVE  Install!IInv' /\ Install!AgentComesBack
<1>1. Site /\ Commanded /\ Install!JobIsKnown
  BY InstallParts
<1>2. /\ UNCHANGED <<v1, v2, v3, v4, v5, v8, v9, v10>> /\ v6 = "down" /\ v6' = "up" /\ v7' = TRUE
      /\ v5.registered
  BY DEF Install!Boot
<1>3. Site' /\ Migrates'
  BY <1>1, <1>2 DEF Site, Migrates
<1>4. Commanded' /\ Install!BothAreThere' /\ Install!AgentComesBack /\ v8' \in Install!Op
  BY <1>2, <1>3, CommandWaits
<1>5. Install!JobIsKnown'
  BY <1>1, <1>2 DEF Install!JobIsKnown
<1>6. v3'.data >= v3.data /\ v10' >= v10
  BY <1>1, <1>2, SiteIs DEF Site
<1>7. Install!Begun' <=> Install!Begun
  BY <1>2 DEF Install!Begun
<1>8. Install!SnapsAreDated'
  BY <1>2, <1>3, <1>4, <1>6, <1>7, DatedKept
<1>9. Install!SnapsAreReadable'
  BY <1>2, <1>4, <1>7, ReadableKept
<1> QED
  BY <1>3, <1>4, <1>5, <1>8, <1>9, InstallParts

\* And one that finds an older schema, and takes a snapshot before it migrates
LEMMA InstallBootsOld ==
  ASSUME Install!IInv, Install!Boot, v3.schema < Schema[v2]
  PROVE  Install!IInv' /\ Install!AgentComesBack
<1>1. /\ Site /\ Commanded /\ Install!JobIsKnown /\ Install!SnapsAreDated /\ Install!SnapsAreReadable
  BY InstallParts
<1> DEFINE x == [schema |-> v3.schema, data |-> v3.data, at |-> v10']
<1>2. /\ UNCHANGED <<v1, v2, v3, v5, v7, v8, v9>> /\ v6 = "down" /\ v6' = "migrating" /\ v5.registered
      /\ Install!Live(v2) /\ v10' = v10 + 1 /\ v4' = Install!Latest(Append(v4, x))
  BY DEF Install!Boot
<1>3. v10 \in Nat /\ v10' \in Nat /\ v2 \in Versions \cup {0} /\ v2 # 0 /\ v3.schema \in Nat /\ v3.data \in Nat
  BY <1>1, <1>2, SiteIs DEF Site, Install!Live
<1>4. x \in Install!Snap /\ x.schema = v3.schema /\ x.data = v3.data /\ x.at = v10'
  BY <1>3 DEF Install!Snap
<1> HIDE DEF x
<1>5. v4 \in Seq(Install!Snap)
  BY <1>1 DEF Site
<1>6. /\ v4' \in Seq(Install!Snap) /\ v4' # <<>> /\ v4'[Len(v4')] = x
      /\ \A i \in DOMAIN v4' : v4'[i] = x \/ \E j \in DOMAIN v4 : v4'[i] = v4[j]
  <2>1. v4' = Install!Latest(Append(v4, x))
    BY <1>2
  <2> HIDE DEF x
  <2>2. x \in Install!Snap
    BY <1>4
  <2> QED
    BY <1>5, <2>1, <2>2, LatestIs
<1>7. Site' /\ Migrates'
  BY <1>1, <1>2, <1>3, <1>6 DEF Site, Migrates
<1>8. Commanded' /\ Install!BothAreThere' /\ Install!AgentComesBack /\ v8' \in Install!Op
  BY <1>2, <1>7, CommandWaits
<1>9. Install!JobIsKnown'
  BY <1>1, <1>2 DEF Install!JobIsKnown
<1>10. Install!Begun' <=> Install!Begun
  BY <1>2 DEF Install!Begun
<1>11. v8.after \in Nat /\ v8.data \in Nat
  BY <1>1, OpIs DEF Commanded
<1>12. \A j \in DOMAIN v4 : v4[j].at <= v10 /\ v4[j].at \in Nat
  BY <1>1, SiteIs DEF Install!SnapsAreDated
<1>13. ASSUME NEW i \in Install!Since'
       PROVE  v4'[i] = x \/ \E j \in Install!Since : v4'[i] = v4[j]
  BY <1>2, <1>6 DEF Install!Since
<1>14. Install!SnapsAreDated'
  <2>1. \A i \in DOMAIN v4' : v4'[i].at <= v10'
    BY <1>2, <1>3, <1>4, <1>6, <1>12
  <2>2. ASSUME Install!Begun
        PROVE  /\ v8.after <= v10' /\ v3.data >= v8.data
               /\ \A i \in Install!Since' : v4'[i].data >= v8.data
    <3>1. /\ v8.after <= v10 /\ v3.data >= v8.data
          /\ \A j \in Install!Since : v4[j].data >= v8.data
      BY <1>1, <2>2 DEF Install!SnapsAreDated
    <3> QED
      BY <1>2, <1>3, <1>4, <1>11, <1>13, <3>1
  <2> QED
    BY <1>2, <1>10, <2>1, <2>2 DEF Install!SnapsAreDated
<1>15. Install!SnapsAreReadable'
  <2> SUFFICES ASSUME Install!Begun, ~v9
               PROVE  Install!SnapsAreReadable'
    BY <1>2, <1>10 DEF Install!SnapsAreReadable
  <2>1. Install!OldReads(v3.schema)
    BY <1>2, <1>3, BootReads
  <2>2. Install!OldReads(v3.schema)' /\ \A n : Install!OldReads(n)' <=> Install!OldReads(n)
    BY <1>2, <2>1 DEF Install!OldReads
  <2>3. \A j \in Install!Since : Install!OldReads(v4[j].schema)
    BY <1>1 DEF Install!SnapsAreReadable
  <2>4. \A i \in Install!Since' : Install!OldReads(v4[i].schema)'
    <3> SUFFICES ASSUME NEW i \in Install!Since'
                 PROVE  Install!OldReads(v4'[i].schema)
      BY <1>2 DEF Install!OldReads
    <3> QED
      BY <1>4, <1>13, <2>1, <2>3
  <2>5. Install!NewestSince'
    <3>1. v8.after <= v10
      BY <1>1 DEF Install!SnapsAreDated
    <3>2. v4'[Len(v4')].at > v8'.after
      BY <1>2, <1>3, <1>4, <1>6, <1>11, <3>1
    <3>3. Len(v4') \in DOMAIN v4'
      BY <1>6
    <3> QED
      BY <1>6, <3>2, <3>3 DEF Install!NewestSince, Install!Since
  <2> QED
    BY <1>2, <2>2, <2>4, <2>5 DEF Install!SnapsAreReadable
<1> QED
  BY <1>7, <1>8, <1>9, <1>14, <1>15, InstallParts

\* _apply: the schema grows to that of the version that runs, of which the old
\* version needs no more when it is the one that runs
LEMMA InstallMigrates ==
  ASSUME Install!IInv, Install!Migrate
  PROVE  Install!IInv' /\ Install!AgentComesBack
<1>1. /\ Site /\ Migrates /\ Commanded /\ Install!JobIsKnown /\ Install!BothAreThere
      /\ Install!SnapsAreDated /\ Install!SnapsAreReadable
  BY InstallParts
<1>2. /\ UNCHANGED <<v1, v2, v4, v5, v8, v9, v10>> /\ v6 = "migrating"
      /\ v3' = [v3 EXCEPT !.schema = @ + 1]
      /\ \/ v3'.schema = Schema[v2] /\ v6' = "up" /\ v7' = TRUE
         \/ v3'.schema # Schema[v2] /\ v6' = v6 /\ v7' = v7
  BY DEF Install!Migrate
<1>3. v3.schema \in Nat /\ v3.data \in Nat /\ v2 \in Versions \cup {0} /\ v10 \in Nat /\ v3 \in Install!Data
      /\ v2 # 0 /\ v3.schema < Schema[v2]
  BY <1>1, <1>2, SiteIs DEF Site, Migrates
<1>4. Schema[v2] \in Nat
  BY <1>3, VersionsAre
<1>5. v3' \in Install!Data /\ v3'.schema = v3.schema + 1 /\ v3'.data = v3.data
  BY <1>2, <1>3 DEF Install!Data
<1>6. v3'.schema <= Schema[v2]
  BY <1>3, <1>4, <1>5
<1>7. Site' /\ Migrates'
  <2>1. UNCHANGED <<v1, v2, v4, v5, v9, v10>> /\ v6' \in {"migrating", "up"} /\ v7' \in BOOLEAN
    BY <1>1, <1>2 DEF Site
  <2>2. Site'
    BY <1>1, <1>5, <2>1 DEF Site
  <2>3. v6' = "migrating" => v3'.schema # Schema[v2]
    BY <1>2
  <2>4. v3'.schema \in Nat
    BY <1>3, <1>5
  <2> QED
    BY <1>3, <1>4, <1>6, <2>1, <2>2, <2>3, <2>4 DEF Migrates
<1>8. Commanded' /\ Install!BothAreThere' /\ Install!AgentComesBack /\ v8' \in Install!Op
  BY <1>2, <1>7, CommandWaits
<1>9. Install!JobIsKnown' /\ v5.registered
  BY <1>1, <1>2 DEF Install!JobIsKnown
<1>10. (Install!Begun' <=> Install!Begun) /\ v3'.data >= v3.data /\ v10' >= v10
  BY <1>2, <1>3, <1>5 DEF Install!Begun
<1>11. Install!SnapsAreDated'
  BY <1>2, <1>7, <1>8, <1>10, DatedKept
<1>12. Install!SnapsAreReadable'
  <2> SUFFICES ASSUME Install!Begun, ~v9
               PROVE  Install!SnapsAreReadable'
    BY <1>2, <1>10 DEF Install!SnapsAreReadable
  <2>1. v8.pc \in {"stop", "wait", "back"}
    BY <1>9, UpdateRuns
  <2>2. /\ \A i \in Install!Since : Install!OldReads(v4[i].schema)
        /\ Install!NewestSince
    BY <1>1, <1>2 DEF Install!SnapsAreReadable
  <2>3. Install!Since' = Install!Since /\ (Install!NewestSince' <=> Install!NewestSince)
    BY <1>2 DEF Install!Since, Install!NewestSince
  <2>4. \A i \in Install!Since' : Install!OldReads(v4[i].schema)'
    BY <1>2, <2>2, <2>3 DEF Install!OldReads
  <2>5. v8.pc = "stop" => Install!OldReads(v3.schema)'
    <3>1. v8.pc = "stop" => v2 = v8.from
      BY <1>1 DEF Install!BothAreThere, Install!Begun, Install!Before
    <3> QED
      BY <1>2, <1>6, <3>1 DEF Install!OldReads
  <2>6. v8.pc # "stop" => v8.pc \in Install!Between
    BY <2>1 DEF Install!Between
  <2>7. v8.pc = "stop" => v8.pc \notin Install!Between
    BY DEF Install!Between
  <2>8. v6' # "migrating" => v3'.schema >= Schema[v2]
    BY <1>2, <1>4
  <2> QED
    BY <1>2, <2>2, <2>3, <2>4, <2>5, <2>6, <2>7, <2>8 DEF Install!SnapsAreReadable
<1> QED
  BY <1>7, <1>8, <1>9, <1>11, <1>12, InstallParts

\* A death of the daemon, and a write of one that runs
LEMMA InstallDies ==
  ASSUME Install!IInv, Install!DaemonDies \/ Install!Write
  PROVE  Install!IInv' /\ Install!AgentComesBack
<1>1. /\ Site /\ Migrates /\ Commanded /\ Install!JobIsKnown
  BY InstallParts
<1>2. v3 \in Install!Data /\ v3.data \in Nat /\ v3.schema \in Nat /\ v9 \in BOOLEAN /\ v10 \in Nat
  BY <1>1, SiteIs DEF Site
<1>3. /\ UNCHANGED <<v1, v2, v4, v5, v7, v8, v10>>
      /\ v6' \in {"down", "up"} /\ (v6 = "down" => v6' = "down")
      /\ v6 = "migrating" => v9'
      /\ v9 => v9'
      /\ v9' \in BOOLEAN
      /\ v3' \in Install!Data /\ v3'.schema = v3.schema /\ v3'.data >= v3.data
  <2>1. CASE Install!DaemonDies
    <3>1. /\ UNCHANGED <<v1, v2, v3, v4, v5, v7, v8, v10>> /\ v6 # "down" /\ v6' = "down"
          /\ v9' = (v9 \/ v6 = "migrating")
      BY <2>1 DEF Install!DaemonDies
    <3>2. v9' \in BOOLEAN /\ (v9 => v9') /\ (v6 = "migrating" => v9')
      BY <3>1
    <3>3. v3' = v3 /\ v3.data >= v3.data
      BY <1>2, <3>1
    <3> QED
      BY <1>2, <3>1, <3>2, <3>3
  <2>2. CASE Install!Write
    <3>1. v3' = [v3 EXCEPT !.data = @ + 1] /\ UNCHANGED <<v1, v2, v4, v5, v6, v7, v8, v9, v10>> /\ v6 = "up"
      BY <2>2 DEF Install!Write
    <3>2. v3' \in Install!Data /\ v3'.schema = v3.schema /\ v3'.data = v3.data + 1
      BY <1>2, <3>1 DEF Install!Data
    <3> QED
      BY <1>2, <3>1, <3>2
  <2> QED
    BY <2>1, <2>2
<1>4. Site' /\ Migrates'
  BY <1>1, <1>3 DEF Site, Migrates
<1>5. Commanded' /\ Install!BothAreThere' /\ Install!AgentComesBack /\ v8' \in Install!Op
  BY <1>3, <1>4, CommandWaits
<1>6. Install!JobIsKnown'
  BY <1>1, <1>3 DEF Install!JobIsKnown
<1>7. (Install!Begun' <=> Install!Begun) /\ v10' >= v10
  BY <1>2, <1>3 DEF Install!Begun
<1>8. Install!SnapsAreDated'
  BY <1>3, <1>4, <1>5, <1>7, DatedKept
<1>9. Install!SnapsAreReadable'
  BY <1>3, <1>5, <1>7, ReadableKept
<1> QED
  BY <1>4, <1>5, <1>6, <1>8, <1>9, InstallParts

\* The seller starts or stops the daemon, with no command under way.
LEMMA InstallSeller ==
  ASSUME Install!IInv, Install!SellerStarts \/ Install!SellerStops
  PROVE  Install!IInv' /\ Install!AgentComesBack
<1>1. /\ Site /\ Migrates /\ Install!BothAreThere
  BY InstallParts
<1>2. /\ UNCHANGED <<v1, v2, v3, v4, v8, v9, v10>> /\ v8.pc = "idle" /\ v7' \in BOOLEAN
      /\ v5' \in [registered : BOOLEAN, login : BOOLEAN]
      /\ v6' = "down" \/ (v6' = v6 /\ v5'.registered)
  <2>1. CASE Install!SellerStarts
    <3>1. Install!Started
      BY <2>1 DEF Install!SellerStarts
    <3>2. v5' \in [registered : BOOLEAN, login : BOOLEAN] /\ v5'.registered /\ v7' = FALSE
      BY <1>1, <3>1, StartedIs
    <3> QED
      BY <2>1, <3>2 DEF Install!SellerStarts
  <2>2. CASE Install!SellerStops
    <3>1. Install!Stopped
      BY <2>2 DEF Install!SellerStops
    <3>2. v5' \in [registered : BOOLEAN, login : BOOLEAN] /\ ~v5'.registered /\ v6' = "down"
      BY <1>1, <3>1, StoppedIs
    <3> QED
      BY <1>1, <2>2, <3>2 DEF Install!SellerStops, Site
  <2> QED
    BY <2>1, <2>2
<1>3. Site' /\ Migrates'
  BY <1>1, <1>2 DEF Site, Migrates
<1>4. Commanded' /\ Install!AgentComesBack
  BY <1>2, <1>3, CommandWaits
<1>5. Install!JobIsKnown'
  BY <1>2 DEF Install!JobIsKnown
<1>6. v8'.kind # "update" /\ v10' \in Nat /\ v10' >= v10
  BY <1>1, <1>2, UpdateSteps DEF Site
<1>7. Install!BothAreThere' /\ Install!SnapsAreDated' /\ Install!SnapsAreReadable'
  BY <1>2, <1>6, NoUpdate
<1> QED
  BY <1>3, <1>4, <1>5, <1>7, InstallParts

LEMMA InstallInit ==
  ASSUME Install!Init
  PROVE  Install!IInv
<1>1. v1 = [v \in Versions |-> [is |-> "none", at |-> 0]] /\ v2 = 0 /\ v3 = [schema |-> 0, data |-> 0]
      /\ v4 = <<>> /\ v6 = "down" /\ v7 = FALSE /\ v8 = Install!Idle /\ v9 = FALSE /\ v10 = 0
      /\ \E login \in BOOLEAN : v5 = [registered |-> FALSE, login |-> login]
  BY DEF Install!Init
<1>2. v1 \in [Versions -> Install!Tree]
  BY <1>1 DEF Install!Tree
<1>3. v3 \in Install!Data
  BY <1>1 DEF Install!Data
<1>4. v5 \in [registered : BOOLEAN, login : BOOLEAN]
  BY <1>1
<1>5. Site /\ Migrates
  <2>1. v4 \in Seq(Install!Snap) /\ v2 \in Versions \cup {0}
    BY <1>1
  <2>2. v6 = "down" /\ v7 \in BOOLEAN /\ v9 \in BOOLEAN /\ v10 \in Nat
    BY <1>1
  <2> QED
    BY <1>2, <1>3, <1>4, <2>1, <2>2 DEF Site, Migrates
<1>6. v8 \in Install!Op /\ v8.pc = "idle" /\ v8.kind = "none"
  BY <1>1, IdleIs
<1>7. Commanded /\ Install!JobIsKnown
  BY <1>1, <1>6 DEF Commanded, Install!JobIsKnown
<1>8. Install!BothAreThere /\ ~Install!Begun
  BY <1>6 DEF Install!BothAreThere, Install!Begun
<1>9. Install!SnapsAreDated /\ Install!SnapsAreReadable
  BY <1>1, <1>8 DEF Install!SnapsAreDated, Install!SnapsAreReadable
<1> QED
  BY <1>5, <1>7, <1>8, <1>9, InstallParts

LEMMA InstallStill ==
  ASSUME Install!IInv, UNCHANGED <<v1, v2, v3, v4, v5, v6, v7, v8, v9, v10>>
  PROVE  Install!IInv' /\ Install!AgentComesBack
<1>1. Site /\ Migrates /\ Install!JobIsKnown
  BY InstallParts
<1>2. Site' /\ Migrates' /\ Install!JobIsKnown'
  BY <1>1 DEF Site, Migrates, Install!JobIsKnown
<1>3. Commanded' /\ Install!BothAreThere' /\ Install!AgentComesBack /\ v8' \in Install!Op
  BY <1>2, CommandWaits
<1>4. (Install!Begun' <=> Install!Begun) /\ v10' >= v10 /\ v3'.data >= v3.data
  BY <1>1, SiteIs DEF Site, Install!Begun
<1>5. Install!SnapsAreDated'
  BY <1>2, <1>3, <1>4, DatedKept
<1>6. Install!SnapsAreReadable'
  BY <1>3, <1>4, ReadableKept
<1> QED
  BY <1>2, <1>3, <1>5, <1>6, InstallParts

LEMMA InstallStep ==
  ASSUME Install!IInv, Install!Next \/ UNCHANGED <<v1, v2, v3, v4, v5, v6, v7, v8, v9, v10, v11>>
  PROVE  Install!IInv' /\ Install!AgentComesBack
<1>1. CASE Install!Next
  <2>1. CASE \/ \E v \in Versions : Install!Setup(v) \/ Install!Update(v)
             \/ Install!Gates \/ Install!Fetch \/ Install!RollBack \/ Install!Killed
    BY <2>1, InstallAsked
  <2>2. CASE Install!Stop \/ Install!Back
    BY <2>2, InstallStops
  <2>3. CASE Install!Displace \/ Install!Stage \/ Install!Provision
    BY <2>3, InstallStages
  <2>4. CASE Install!Swap \/ Install!Start \/ Install!SwapBack
    BY <2>4, InstallSwaps
  <2>5. CASE Install!Failed \/ Install!Judge \/ Install!Restart
    BY <2>5, InstallEnds
  <2>6. CASE Install!Restore
    BY <2>6, InstallRestores
  <2>7. CASE Install!Boot
    BY <2>7, InstallBootsUp, InstallBootsOld
  <2>8. CASE Install!Migrate
    BY <2>8, InstallMigrates
  <2>9. CASE Install!DaemonDies \/ Install!Write
    BY <2>9, InstallDies
  <2>10. CASE Install!SellerStarts \/ Install!SellerStops
    BY <2>10, InstallSeller
  <2> QED
    BY <1>1, <2>1, <2>2, <2>3, <2>4, <2>5, <2>6, <2>7, <2>8, <2>9, <2>10
       DEF Install!Next, Install!OpStep, Install!DaemonStep
<1>2. CASE UNCHANGED <<v1, v2, v3, v4, v5, v6, v7, v8, v9, v10, v11>>
  BY <1>2, InstallStill
<1> QED
  BY <1>1, <1>2

LEMMA InstallKeeps ==
  ASSUME Install!IInv
  PROVE  Install!UpdateKeepsCurrent /\ Install!UpdateKeepsData /\ Install!UndoneIsReadable
<1>1. /\ Site /\ Commanded /\ Install!BothAreThere /\ Install!SnapsAreDated /\ Install!SnapsAreReadable
  BY InstallParts
<1>2. v8.pc \in {"idle", "gates", "fetch"} \cup Install!Before \cup Install!Between \cup {"restore", "restart"}
  BY <1>1, OpIs DEF Commanded
<1>3. Install!UpdateKeepsCurrent
  BY <1>1, <1>2 DEF Install!UpdateKeepsCurrent, Install!BothAreThere
<1>4. Install!UpdateKeepsData
  <2> SUFFICES ASSUME v8.kind = "update"
               PROVE  v3.data >= v8.data
    BY DEF Install!UpdateKeepsData
  <2>1. v8.pc \notin {"idle", "gates"} /\ (v8.pc = "fetch" => v8.data = 0)
    BY <1>1 DEF Install!BothAreThere
  <2>2. CASE v8.pc = "fetch"
    <3>1. v3.data \in Nat
      BY <1>1, SiteIs
    <3> QED
      BY <2>1, <2>2, <3>1
  <2>3. CASE v8.pc # "fetch"
    BY <1>1, <2>1, <2>3 DEF Install!SnapsAreDated, Install!Begun
  <2> QED
    BY <2>2, <2>3
<1>5. Install!UndoneIsReadable
  <2> SUFFICES ASSUME v8.kind = "update", v8.pc = "restart", ~v9
               PROVE  Install!Readable
    BY DEF Install!UndoneIsReadable
  <2>1. Install!Begun /\ v8.pc \notin Install!Between \cup {"restore"}
    BY DEF Install!Begun, Install!Between
  <2>2. Install!OldReads(v3.schema)
    BY <1>1, <2>1 DEF Install!SnapsAreReadable
  <2> QED
    BY <2>2 DEF Install!OldReads, Install!Readable
<1> QED
  BY <1>3, <1>4, <1>5
-----------------------------------------------------------------------------
(* Settings: v1 value, v2 change, v3 region, v4 actor.                       *)

\* What a change says of its setting, and a call under way likewise.
ChangeFits(r) == r.status # "none" => /\ r.key \in SettingKeys /\ r.value \in Config!Parsed(r.key)
                                      /\ r.prior \in Config!Parsed(r.key)
CallFits(c) == c.via # "none" => /\ c.key \in SettingKeys /\ c.value \in Config!Parsed(c.key)
                                 /\ c.prior \in Config!Parsed(c.key)
ConfigShapes == /\ \A k \in SettingKeys : v1[k] \in Config!Parsed(k)
                /\ \A i \in Numbers : ChangeFits(v2[i])
                /\ v3 \in Regions \cup {"none"}
                /\ \A a \in Pair : CallFits(v4[a])

LEMMA ConfigShapesInit ==
  ASSUME Config!Init
  PROVE  ConfigShapes
<1>1. \A k : {} \in Config!Parsed(k)
  BY DEF Config!Parsed
<1>2. ChangeFits(Config!Blank) /\ CallFits(Config!Idle)
  BY DEF ChangeFits, CallFits, Config!Blank, Config!Idle
<1>3. /\ \A k \in SettingKeys : v1[k] = {}
      /\ \A i \in Numbers : v2[i] = Config!Blank
      /\ v3 = "none" /\ \A a \in Pair : v4[a] = Config!Idle
  BY DEF Config!Init, Numbers
<1> QED
  BY <1>1, <1>2, <1>3 DEF ConfigShapes

LEMMA ConfigShapesType ==
  ASSUME Config!IInv, ConfigShapes
  PROVE  Config!TypeOK
<1>1. Ledger /\ Config!StampsAreInOrder
  BY ConfigParts
<1>2. Cardinality(Config!Stamped) \in 0..Changes
  <2>1. Config!Stamped \subseteq Numbers
    BY DEF Config!Stamped, Numbers
  <2>2. 1 \in Int /\ Changes \in Nat
    BY RecordsAssumption DEF Config!SettingsAssumption
  <2>3. IsFiniteSet(Numbers) /\ Cardinality(Numbers) = Changes
    <3>1. IsFiniteSet(1..Changes) /\ Cardinality(1..Changes) = IF 1 > Changes THEN 0 ELSE Changes-1+1
      <4>1. 1 \in Int /\ Changes \in Int
        BY <2>2
      <4> QED
        BY <4>1, FS_Interval, Zenon
    <3> QED
      BY <2>2, <3>1 DEF Numbers
  <2>4. Cardinality(Config!Stamped) <= Cardinality(Numbers)
    BY <2>1, <2>3, FS_Subset, Zenon
  <2> QED
    BY <2>2, <2>3, <2>4, StampsAreFew
<1>3. \A i \in Numbers : v2[i].at \in 0..Changes
  <2>1. \A i \in Numbers : v2[i].at \in 0..Cardinality(Config!Stamped)
    BY <1>1, StampsAre
  <2>2. Changes \in Nat
    BY RecordsAssumption DEF Config!SettingsAssumption
  <2> QED
    BY <1>2, <2>1, <2>2
<1>4. \A i \in Numbers : v2[i].status \in Config!Statuses
  BY <1>1, RowFields DEF Ledger
<1> QED
  BY <1>3, <1>4 DEF ConfigShapes, ChangeFits, CallFits, Config!TypeOK, Numbers

\* What a decision, the clock and the sweep leave of a row.
LEMMA RowStillFits ==
  ASSUME NEW r \in Config!Row, ChangeFits(r), NEW s, NEW t, NEW n, r.status # "none"
  PROVE  /\ ChangeFits([r EXCEPT !.status = s])
         /\ ChangeFits([r EXCEPT !.status = s, !.via = t])
         /\ ChangeFits([[r EXCEPT !.status = s, !.via = t] EXCEPT !.at = n])
         /\ ChangeFits([r EXCEPT !.stale = TRUE])
<1>1. \A q : q.key = r.key /\ q.value = r.value /\ q.prior = r.prior => ChangeFits(q)
  BY DEF ChangeFits
<1>2. LET q == [r EXCEPT !.status = s] IN q.key = r.key /\ q.value = r.value /\ q.prior = r.prior
  BY DEF Config!Row
<1>3. LET q == [r EXCEPT !.status = s, !.via = t] IN q.key = r.key /\ q.value = r.value /\ q.prior = r.prior
  BY DEF Config!Row
<1>4. LET q == [[r EXCEPT !.status = s, !.via = t] EXCEPT !.at = n]
      IN  q.key = r.key /\ q.value = r.value /\ q.prior = r.prior
  BY DEF Config!Row
<1>5. LET q == [r EXCEPT !.stale = TRUE] IN q.key = r.key /\ q.value = r.value /\ q.prior = r.prior
  BY DEF Config!Row
<1> QED
  BY <1>1, <1>2, <1>3, <1>4, <1>5

LEMMA ConfigShapesStep ==
  ASSUME Config!IInv, Config!IInv', ConfigShapes, Config!Next \/ UNCHANGED <<v1, v2, v3, v4>>
  PROVE  ConfigShapes'
<1>0. Ledger /\ Callers /\ Ledger' /\ Callers'
  BY ConfigParts
<1>r. /\ \A j \in Numbers : v2[j] \in Config!Row /\ ChangeFits(v2[j])
      /\ \A k \in SettingKeys : v1[k] \in Config!Parsed(k)
      /\ \A b \in Pair : CallFits(v4[b])
      /\ v3 \in Regions \cup {"none"} /\ v1 \in [SettingKeys -> Value]
      /\ v2 \in [Numbers -> Config!Row] /\ v4 \in [Pair -> Config!Call]
  BY <1>0 DEF Ledger, Callers, ConfigShapes
<1>1. ASSUME NEW a \in Pair, NEW k \in SettingKeys, NEW v \in Config!Parsed(k), NEW via,
             Config!Begin(a, k, v, via)
      PROVE  ConfigShapes'
  <2> DEFINE call == [via |-> via, key |-> k, value |-> v, prior |-> v1[k]]
  <2>1. v4' = [v4 EXCEPT ![a] = call] /\ UNCHANGED <<v1, v2, v3>>
    BY <1>1 DEF Config!Begin
  <2>2. CallFits(call)
    BY <1>r DEF CallFits
  <2> HIDE DEF call
  <2>3. \A b \in Pair : CallFits(v4'[b])
    BY <1>r, <2>1, <2>2
  <2> QED
    BY <1>r, <2>1, <2>3 DEF ConfigShapes
<1>2. CASE \E a \in Pair : Config!WatchToggle(a)
  <2>1. PICK a \in Pair, v \in {{}, {"on"}} : Config!Begin(a, "watch_browser", v, "button")
    BY <1>2 DEF Config!WatchToggle
  <2>2. "watch_browser" \in SettingKeys /\ v \in Config!Parsed("watch_browser")
    BY <1>2 DEF Config!WatchToggle, Config!Parsed
  <2> QED
    BY <1>1, <2>1, <2>2
<1>3. CASE \E a \in Pair, k \in SettingKeys : \E v \in Config!Parsed(k) :
             Config!Begin(a, k, v, "tool") \/ Config!SetOutright(a, k, v)
  BY <1>1, <1>3 DEF Config!SetOutright
<1>4. ASSUME NEW a \in Pair, Config!Hold(a) \/ Config!ApplyNow(a)
      PROVE  ConfigShapes'
  <2> DEFINE call == v4[a]
             k == call.key
             row == Config!Superseded(k)
             new == Config!New
  <2>1. /\ call.via # "none" /\ Config!Free # {} /\ v3' = v3 /\ v4' = [v4 EXCEPT ![a] = Config!Idle]
    BY <1>4 DEF Config!Hold, Config!ApplyNow
  <2>2. k \in SettingKeys /\ call.value \in Config!Parsed(k) /\ call.prior \in Config!Parsed(k)
    BY <1>r, <2>1 DEF CallFits
  <2>3. CallFits(Config!Idle)
    BY DEF CallFits, Config!Idle
  <2>4. \A b \in Pair : CallFits(v4'[b])
    <3> HIDE DEF Config!Idle
    <3> QED
      BY <1>r, <2>1, <2>3
  <2>5. \A j \in Numbers : ChangeFits(row[j])
    <3> TAKE j \in Numbers
    <3>1. row[j] = v2[j] \/ (v2[j].status = "pending" /\ row[j] = [v2[j] EXCEPT !.status = "superseded"])
      BY DEF Config!Superseded, Config!Of, Numbers
    <3> HIDE DEF row
    <3>2. v2[j].status = "pending" => ChangeFits([v2[j] EXCEPT !.status = "superseded"])
      BY <1>r, RowStillFits
    <3> QED
      BY <1>r, <3>1, <3>2
  <2>6. DOMAIN row = Numbers /\ row = [j \in Numbers |-> row[j]]
    BY DEF Config!Superseded, Numbers
  <2>7. \E r : ChangeFits(r) /\ v2' = [row EXCEPT ![new] = r]
               /\ (v1' = v1 \/ v1' = [v1 EXCEPT ![k] = call.value])
    <3>1. CASE Config!Hold(a)
      <4> DEFINE r == [Config!Blank EXCEPT !.status = "pending", !.key = k, !.value = call.value,
                                           !.prior = call.prior]
      <4>1. ChangeFits(r)
        BY <2>2 DEF ChangeFits, Config!Blank
      <4>2. v2' = [row EXCEPT ![new] = r] /\ v1' = v1
        BY <3>1 DEF Config!Hold
      <4> HIDE DEF r, row, new
      <4> QED
        BY <4>1, <4>2
    <3>2. CASE Config!ApplyNow(a)
      <4> DEFINE r == [status |-> "applied", key |-> k, value |-> call.value, prior |-> call.prior,
                       via |-> IF call.via = "tool" THEN "auto" ELSE call.via, stale |-> FALSE,
                       at |-> Config!Tick]
      <4>1. ChangeFits(r)
        BY <2>2 DEF ChangeFits
      <4>2. v2' = [row EXCEPT ![new] = r] /\ v1' = [v1 EXCEPT ![k] = call.value]
        BY <3>2 DEF Config!ApplyNow
      <4> HIDE DEF r, row, new
      <4> QED
        BY <4>1, <4>2
    <3> QED
      BY <1>4, <3>1, <3>2
  <2> HIDE DEF row, new, k, call
  <2>8. PICK r : ChangeFits(r) /\ v2' = [row EXCEPT ![new] = r]
                 /\ (v1' = v1 \/ v1' = [v1 EXCEPT ![k] = call.value])
    BY <2>7
  <2>9. \A j \in Numbers : v2'[j] = row[j] \/ v2'[j] = r
    BY <2>6, <2>8
  <2>10. \A j \in Numbers : ChangeFits(v2'[j])
    BY <2>5, <2>8, <2>9, Zenon
  <2>11. \A m \in SettingKeys : v1'[m] \in Config!Parsed(m)
    BY <1>r, <2>2, <2>8
  <2> QED
    BY <1>r, <2>1, <2>4, <2>10, <2>11 DEF ConfigShapes
<1>5. ASSUME NEW i \in Numbers, NEW via, Config!Approve(i, via) \/ Config!Cancel(i, via)
      PROVE  ConfigShapes'
  <2>1. v2[i].status = "pending" /\ UNCHANGED <<v3, v4>>
    BY <1>5 DEF Config!Approve, Config!Cancel
  <2>2. \E s, t : \/ v2' = [v2 EXCEPT ![i] = [v2[i] EXCEPT !.status = s, !.via = t]]
                  \/ v2' = [v2 EXCEPT ![i] = [[v2[i] EXCEPT !.status = s, !.via = t] EXCEPT !.at = Config!Tick]]
    <3>1. CASE Config!Cancel(i, via)
      BY <3>1, Zenon DEF Config!Cancel, Config!Decided
    <3>2. CASE Config!Approve(i, via)
      <4>1. CASE v2[i].stale
        BY <3>2, <4>1, Zenon DEF Config!Approve, Config!Decided
      <4>2. CASE ~v2[i].stale
        BY <3>2, <4>2, Zenon DEF Config!Approve, Config!Decided
      <4> QED
        BY <4>1, <4>2
    <3> QED
      BY <1>5, <3>1, <3>2
  <2>3. v1' = v1 \/ v1' = [v1 EXCEPT ![v2[i].key] = v2[i].value]
    BY <1>5 DEF Config!Approve, Config!Cancel
  <2>4. PICK q : ChangeFits(q) /\ v2' = [v2 EXCEPT ![i] = q]
    <3>1. PICK s, t : \/ v2' = [v2 EXCEPT ![i] = [v2[i] EXCEPT !.status = s, !.via = t]]
                      \/ v2' = [v2 EXCEPT ![i] = [[v2[i] EXCEPT !.status = s, !.via = t] EXCEPT !.at = Config!Tick]]
      BY <2>2
    <3>2. /\ ChangeFits([v2[i] EXCEPT !.status = s, !.via = t])
          /\ ChangeFits([[v2[i] EXCEPT !.status = s, !.via = t] EXCEPT !.at = Config!Tick])
      <4>1. v2[i].status # "none"
        BY <2>1
      <4> QED
        BY <1>r, <4>1, RowStillFits
    <3> QED
      BY <3>1, <3>2, Zenon
  <2>5. \A j \in Numbers : v2'[j] = v2[j] \/ v2'[j] = q
    BY <1>r, <2>4
  <2>6. \A j \in Numbers : ChangeFits(v2'[j])
    BY <1>r, <2>4, <2>5, Zenon
  <2>7. v2[i].key \in SettingKeys /\ v2[i].value \in Config!Parsed(v2[i].key)
    BY <1>r, <2>1 DEF ChangeFits
  <2>8. \A m \in SettingKeys : v1'[m] \in Config!Parsed(m)
    BY <1>r, <2>3, <2>7
  <2> QED
    BY <1>r, <2>1, <2>6, <2>8 DEF ConfigShapes
<1>6. ASSUME NEW i \in Numbers, NEW via, Config!Undo(i, via)
      PROVE  ConfigShapes'
  <2> DEFINE k == v2[i].key
             r == [status |-> "applied", key |-> k, value |-> v2[i].prior, prior |-> v2[i].value,
                   via |-> via, stale |-> FALSE, at |-> Config!Tick]
             new == Config!New
  <2>1. v2[i].status = "applied" /\ UNCHANGED <<v3, v4>> /\ v2' = [v2 EXCEPT ![new] = r]
        /\ v1' = [v1 EXCEPT ![k] = v2[i].prior]
    BY <1>6 DEF Config!Undo
  <2>2. k \in SettingKeys /\ v2[i].value \in Config!Parsed(k) /\ v2[i].prior \in Config!Parsed(k)
    BY <1>r, <2>1 DEF ChangeFits
  <2>3. ChangeFits(r)
    BY <2>2 DEF ChangeFits
  <2> HIDE DEF r, k, new
  <2>4. \A j \in Numbers : v2'[j] = v2[j] \/ v2'[j] = r
    BY <1>r, <2>1
  <2>5. \A j \in Numbers : ChangeFits(v2'[j])
    BY <1>r, <2>3, <2>4, Zenon
  <2>6. \A m \in SettingKeys : v1'[m] \in Config!Parsed(m)
    BY <1>r, <2>1, <2>2
  <2> QED
    BY <1>r, <2>1, <2>5, <2>6 DEF ConfigShapes
<1>7. CASE Config!Expire \/ \E i \in Numbers : Config!GrowStale(i)
  <2>1. UNCHANGED <<v1, v3, v4>>
    BY <1>7 DEF Config!Expire, Config!GrowStale
  <2>2. \A j \in Numbers : \/ v2'[j] = v2[j]
                           \/ v2[j].status = "pending" /\ v2'[j] = [v2[j] EXCEPT !.status = "expired", !.via = "none"]
                           \/ v2[j].status = "pending" /\ v2'[j] = [v2[j] EXCEPT !.stale = TRUE]
    <3>1. CASE Config!Expire
      BY <3>1 DEF Config!Expire, Config!Decided, Numbers
    <3>2. ASSUME NEW i \in Numbers, Config!GrowStale(i)
          PROVE  \A j \in Numbers : \/ v2'[j] = v2[j]
                                    \/ v2[j].status = "pending" /\ v2'[j] = [v2[j] EXCEPT !.stale = TRUE]
      <4>1. v2[i].status = "pending" /\ v2' = [v2 EXCEPT ![i].stale = TRUE]
        BY <3>2 DEF Config!GrowStale
      <4> QED
        BY <1>r, <4>1
    <3> QED
      BY <1>7, <3>1, <3>2
  <2>3. \A j \in Numbers : v2[j].status = "pending" =>
          /\ ChangeFits([v2[j] EXCEPT !.status = "expired", !.via = "none"])
          /\ ChangeFits([v2[j] EXCEPT !.stale = TRUE])
    BY <1>r, RowStillFits
  <2>4. \A j \in Numbers : ChangeFits(v2'[j])
    BY <1>r, <2>2, <2>3, Zenon
  <2> QED
    BY <1>r, <2>1, <2>4 DEF ConfigShapes
<1>8. CASE \E g \in Regions : Config!SetRegion(g)
  BY <1>8, <1>r DEF Config!SetRegion, ConfigShapes
<1>9. CASE UNCHANGED <<v1, v2, v3, v4>>
  BY <1>9, <1>r DEF ConfigShapes
<1>10. ASSUME NEW i \in Numbers, Config!ChatDoor(i) \/ Config!Terminal(i)
       PROVE  ConfigShapes'
  BY <1>5, <1>6, <1>10 DEF Config!ChatDoor, Config!Terminal, Config!Decide
<1> QED
  BY <1>2, <1>3, <1>4, <1>7, <1>8, <1>9, <1>10, Zenon DEF Config!Next, Numbers

-----------------------------------------------------------------------------
(* ChannelBind: v1 token, v2 row, v3 arms, v4 call, v5 lock, v6 handles,     *)
(* v7 lanes, v8 thread, v9 mail, v10 sent, v11 crashes.                     *)

\* How far a cursor goes: past the last update there is.  A nonce is a connect
\* call's, and a call that armed one is past its arming for good.
Within(th) == th.upto <= MaxSent + 1 /\ th.ch.offset <= MaxSent + 1
CursorsWithin == v2.offset <= MaxSent + 1 /\ \A t \in Ears : Within(v8[t])
PastArming == {c \in Calls : v4[c].pc \notin {"none", "arm"}}
ArmsAreCalls == Len(v3) <= Cardinality(PastArming)
BindingRest == /\ v7 \in 0..MaxThreads /\ v11 \in 0..MaxCrashes
               /\ \A b \in Telegrams : \A m \in v9[b] : m.nonce \in 0..MaxArms
BindingShapes == CursorsWithin /\ ArmsAreCalls /\ BindingRest

LEMMA BindingBounds == MaxArms \in Nat /\ MaxThreads \in Nat /\ MaxSent \in Nat /\ MaxCrashes \in Nat
  BY RecordsAssumption DEF Binding!ChannelBindAssumption

LEMMA BindingShapesInit ==
  ASSUME Binding!Init
  PROVE  BindingShapes
<1>1. CursorsWithin
  <2>1. Within(Binding!NoThread) /\ Binding!NoRow.offset <= MaxSent + 1
    BY BindingBounds DEF Within, Binding!NoThread, Binding!NoRow, Binding!Unread
  <2>2. v2 = Binding!NoRow /\ \A t \in Ears : v8[t] = Binding!NoThread
    BY DEF Binding!Init, Ears
  <2> QED
    BY <2>1, <2>2 DEF CursorsWithin
<1>2. ArmsAreCalls
  <2>1. v3 = <<>> /\ PastArming = {}
    BY DEF Binding!Init, PastArming, Binding!NoCall, Calls
  <2>2. Len(<<>>) = 0 /\ Cardinality({}) = 0
    BY FS_EmptySet
  <2> QED
    BY <2>1, <2>2 DEF ArmsAreCalls
<1>3. BindingRest
  <2>1. 0 \in 0..MaxThreads /\ 0 \in 0..MaxCrashes
    BY BindingBounds
  <2>2. v7 = 0 /\ v11 = 0 /\ \A b \in Telegrams : v9[b] = {}
    BY DEF Binding!Init
  <2> QED
    BY <2>1, <2>2 DEF BindingRest
<1> QED
  BY <1>1, <1>2, <1>3 DEF BindingShapes

LEMMA PastArmingIsFinite ==
  /\ IsFiniteSet(PastArming) /\ Cardinality(PastArming) \in 0..MaxArms
  /\ IsFiniteSet(PastArming') /\ Cardinality(PastArming') \in 0..MaxArms
<1>1. 1 \in Int /\ MaxArms \in Int /\ MaxArms \in Nat
  BY BindingBounds
<1>2. IsFiniteSet(Calls) /\ Cardinality(Calls) = MaxArms
  <2>1. IsFiniteSet(1..MaxArms) /\ Cardinality(1..MaxArms) = IF 1 > MaxArms THEN 0 ELSE MaxArms-1+1
    BY <1>1, FS_Interval, Zenon
  <2> QED
    BY <1>1, <2>1 DEF Calls
<1>3. ASSUME NEW S, S \subseteq Calls
      PROVE  IsFiniteSet(S) /\ Cardinality(S) \in 0..MaxArms
  <2>1. IsFiniteSet(S) /\ Cardinality(S) <= Cardinality(Calls)
    BY <1>2, <1>3, FS_Subset, Zenon
  <2>2. Cardinality(S) \in Nat
    BY <2>1, FS_CardinalityType
  <2> QED
    BY <1>1, <1>2, <2>1, <2>2
<1>4. PastArming \subseteq Calls /\ PastArming' \subseteq Calls
  BY DEF PastArming
<1> QED
  BY <1>3, <1>4

LEMMA ArmsAreFew ==
  ASSUME Called, ArmsAreCalls
  PROVE  Len(v3) \in 0..MaxArms
<1>1. Len(v3) \in Nat
  BY DEF Called
<1> QED
  BY <1>1, PastArmingIsFinite, BindingBounds DEF ArmsAreCalls

LEMMA BindingShapesType ==
  ASSUME Binding!IInv, BindingShapes
  PROVE  Binding!TypeOK
<1>1. /\ v2 \in Binding!Row /\ Doors /\ Called /\ Heard /\ Post /\ Held /\ Binding!NewestNonce
      /\ Binding!LockHolds
  BY BindingParts
<1>2. CursorsWithin /\ ArmsAreCalls /\ BindingRest
  BY DEF BindingShapes
<1>3. Len(v3) \in 0..MaxArms
  BY <1>1, <1>2, ArmsAreFew
<1>4. v2 \in [adapter : Binding!Providers, bot : Binding!Bots \cup {Binding!NoBot}, chat : 0..MaxArms,
              nonce : 0..MaxArms, live : BOOLEAN, offset : 0..(MaxSent + 1),
              welcomed : BOOLEAN, menu : BOOLEAN]
  <2>1. v2.chat \in 0..MaxArms /\ v2.nonce \in 0..MaxArms
    BY <1>1, <1>3, BindingBounds DEF Binding!NewestNonce
  <2>2. v2.offset \in 0..(MaxSent + 1)
    BY <1>1, <1>2, RowIs, BindingBounds DEF CursorsWithin
  <2> QED
    BY <1>1, <2>1, <2>2 DEF Binding!Row
<1>5. \A t \in Ears : v8[t].bot \in Binding!Bots \cup {Binding!NoBot}
  BY <1>1, ThreadIs DEF Heard
<1>6. \A b \in Telegrams : \A m \in v9[b] : m.id \in 1..MaxSent /\ m.nonce \in 0..MaxArms
  BY <1>1, <1>2 DEF Post, BindingRest, Binding!Message
<1>7. v5 \in 0..MaxArms
  BY <1>1, BindingBounds DEF Binding!LockHolds
<1> QED
  BY <1>1, <1>2, <1>3, <1>4, <1>5, <1>6, <1>7
     DEF Binding!TypeOK, Doors, Called, Post, Held, BindingRest, Calls, Ears, Binding!Calling

\* What the steps of a thread leave of its cursors.
LEMMA WithinKept ==
  ASSUME NEW th \in Binding!Thread, Within(th), NEW pc, NEW x
  PROVE  /\ Within([th EXCEPT !.pc = pc]) /\ Within([th EXCEPT !.stop = TRUE])
         /\ Within([th EXCEPT !.pc = pc, !.bot = x]) /\ Within([th EXCEPT !.pc = pc, !.refused = x])
         /\ Within([th EXCEPT !.pc = pc, !.ch.nonce = x])
         /\ x \in Int /\ x <= MaxSent + 1 => Within([th EXCEPT !.pc = pc, !.upto = x])
         /\ x.offset <= MaxSent + 1 => Within([th EXCEPT !.ch = x, !.pc = pc])
<1>1. \A q : q.upto = th.upto /\ q.ch.offset = th.ch.offset => Within(q)
  BY DEF Within
<1>2. LET q == [th EXCEPT !.pc = pc] IN q.upto = th.upto /\ q.ch.offset = th.ch.offset
  BY DEF Binding!Thread
<1>3. LET q == [th EXCEPT !.stop = TRUE] IN q.upto = th.upto /\ q.ch.offset = th.ch.offset
  BY DEF Binding!Thread
<1>4. LET q == [th EXCEPT !.pc = pc, !.bot = x] IN q.upto = th.upto /\ q.ch.offset = th.ch.offset
  BY DEF Binding!Thread
<1>5. LET q == [th EXCEPT !.pc = pc, !.refused = x] IN q.upto = th.upto /\ q.ch.offset = th.ch.offset
  BY DEF Binding!Thread
<1>6. LET q == [th EXCEPT !.pc = pc, !.ch.nonce = x] IN q.upto = th.upto /\ q.ch.offset = th.ch.offset
  BY DEF Binding!Thread, Binding!Reading
<1>7. LET q == [th EXCEPT !.pc = pc, !.upto = x] IN q.upto = x /\ q.ch.offset = th.ch.offset
  BY DEF Binding!Thread
<1>8. LET q == [th EXCEPT !.ch = x, !.pc = pc] IN q.upto = th.upto /\ q.ch.offset = x.offset
  BY DEF Binding!Thread
<1>9. x \in Int /\ x <= MaxSent + 1 => Within([th EXCEPT !.pc = pc, !.upto = x])
  BY <1>7 DEF Within
<1>10. x.offset <= MaxSent + 1 => Within([th EXCEPT !.ch = x, !.pc = pc])
  BY <1>8 DEF Within
<1> QED
  BY <1>1, <1>2, <1>3, <1>4, <1>5, <1>6, <1>9, <1>10

LEMMA OneWithin ==
  ASSUME Heard, \A t \in Ears : Within(v8[t]), NEW t \in Ears, NEW x, Within(x), v8' = [v8 EXCEPT ![t] = x]
  PROVE  \A u \in Ears : Within(v8'[u])
  BY DEF Heard

\* The steps of a thread.
LEMMA EarCursors ==
  ASSUME Binding!IInv, CursorsWithin, NEW t \in Ears,
         \/ Binding!ReadToken(t) \/ Binding!ReadRow(t) \/ Binding!Retire(t) \/ Binding!Greet(t)
         \/ Binding!Poll(t) \/ Binding!PollFails(t) \/ Binding!Bind(t) \/ Binding!EnsureMenu(t)
         \/ Binding!Ack(t) \/ Binding!Connect(t) \/ Binding!LatchOff(t) \/ Binding!BindDirect(t)
         \/ Binding!Close(t) \/ \E n \in 0..Len(v3) : Binding!Hear(t, n)
  PROVE  \A u \in Ears : Within(v8'[u])
<1>0. v2 \in Binding!Row /\ Heard /\ Post
  BY BindingParts
<1>r. v8[t] \in Binding!Thread /\ Within(v8[t]) /\ Binding!Fits(v8[t]) /\ \A u \in Ears : Within(v8[u])
  BY <1>0 DEF Heard, CursorsWithin
<1>1. ASSUME NEW pc, v8' = [v8 EXCEPT ![t].pc = pc]
      PROVE  \A u \in Ears : Within(v8'[u])
  <2> DEFINE x == [v8[t] EXCEPT !.pc = pc]
  <2>1. Within(x) /\ v8' = [v8 EXCEPT ![t] = x]
    BY <1>1, <1>r, WithinKept
  <2> HIDE DEF x
  <2> QED
    BY <1>0, <1>r, <2>1, OneWithin
<1>2. CASE \/ Binding!Retire(t) \/ Binding!Greet(t) \/ Binding!PollFails(t) \/ Binding!Bind(t)
           \/ Binding!EnsureMenu(t) \/ Binding!Ack(t) \/ Binding!Connect(t) \/ Binding!BindDirect(t)
           \/ Binding!Close(t)
  <2>1. \E pc : v8' = [v8 EXCEPT ![t].pc = pc]
    <3>1. CASE Binding!Retire(t) \/ Binding!PollFails(t) \/ Binding!Ack(t) \/ Binding!Close(t)
      BY <3>1, Zenon DEF Binding!Retire, Binding!PollFails, Binding!Ack, Binding!Close, Binding!Move
    <3>2. CASE Binding!Greet(t) \/ Binding!Connect(t)
      BY <3>2, Zenon DEF Binding!Greet, Binding!Connect, Binding!Move
    <3>3. CASE Binding!Bind(t) \/ Binding!BindDirect(t)
      BY <3>3, Zenon DEF Binding!Bind, Binding!BindDirect, Binding!Complete, Binding!Move
    <3>4. CASE Binding!EnsureMenu(t)
      BY <3>4, Zenon DEF Binding!EnsureMenu, Binding!Move
    <3> QED
      BY <1>2, <3>1, <3>2, <3>3, <3>4
  <2> QED
    BY <1>1, <2>1
<1>3. CASE Binding!ReadToken(t)
  <2> DEFINE x == [v8[t] EXCEPT !.pc = IF v8[t].stop THEN "dead" ELSE "row", !.bot = v1[v8[t].prov]]
  <2>1. Within(x)
    BY <1>r, WithinKept
  <2>2. v8' = [v8 EXCEPT ![t] = x]
    BY <1>3 DEF Binding!ReadToken
  <2> HIDE DEF x
  <2> QED
    BY <1>0, <1>r, <2>1, <2>2, OneWithin
<1>4. CASE Binding!ReadRow(t)
  <2> DEFINE ch == [chat |-> v2.chat, nonce |-> v2.nonce, live |-> v2.live, offset |-> v2.offset]
  <2>1. PICK pc : v8' = [v8 EXCEPT ![t].ch = ch, ![t].pc = pc]
    BY <1>4, Zenon DEF Binding!ReadRow
  <2> DEFINE x == [v8[t] EXCEPT !.ch = ch, !.pc = pc]
  <2>2. ch.offset <= MaxSent + 1
    BY DEF CursorsWithin
  <2> HIDE DEF ch
  <2>3. Within(x)
    BY <1>r, <2>2, WithinKept
  <2>4. v8' = [v8 EXCEPT ![t] = x]
    BY <2>1
  <2> HIDE DEF x
  <2> QED
    BY <1>0, <1>r, <2>3, <2>4, OneWithin
<1>5. CASE Binding!Poll(t)
  <2> DEFINE asked == Binding!Asked(t)
             starts == Binding!Starts(t)
             upto == IF asked = {} THEN 0
                     ELSE IF v8[t].ch.chat = 0 /\ starts # {} THEN Binding!First(starts) + 1
                     ELSE Binding!Last(asked) + 1
  <2>1. v8[t].pc = "poll" /\ v8[t].bot \in Telegrams
    BY <1>5, <1>r DEF Binding!Poll, Binding!Fits
  <2>2. asked \in SUBSET Binding!Message /\ starts \in SUBSET Binding!Message
    BY <1>0, <2>1 DEF Post, Binding!Asked, Binding!Starts
  <2>3. \E pc : v8' = [v8 EXCEPT ![t].pc = pc, ![t].upto = upto]
    BY <1>5, Zenon DEF Binding!Poll
  <2> HIDE DEF asked, starts
  <2>4. /\ asked # {} => Binding!Last(asked) \in 1..MaxSent
        /\ starts # {} => Binding!First(starts) \in 1..MaxSent
    BY <2>2, UpdatesAreNumbered
  <2>5. upto \in Int /\ upto <= MaxSent + 1
    BY <2>4, BindingBounds
  <2> HIDE DEF upto
  <2>6. PICK pc : v8' = [v8 EXCEPT ![t].pc = pc, ![t].upto = upto]
    BY <2>3
  <2> DEFINE x == [v8[t] EXCEPT !.pc = pc, !.upto = upto]
  <2>7. Within(x)
    BY <1>r, <2>5, WithinKept
  <2>8. v8' = [v8 EXCEPT ![t] = x]
    BY <2>6
  <2> HIDE DEF x
  <2> QED
    BY <1>0, <1>r, <2>7, <2>8, OneWithin
<1>6. CASE Binding!LatchOff(t)
  <2> DEFINE x == [v8[t] EXCEPT !.pc = "token", !.refused = <<v8[t].bot, v2.nonce>>]
  <2>1. Within(x)
    BY <1>r, WithinKept
  <2>2. v8' = [v8 EXCEPT ![t] = x]
    BY <1>6 DEF Binding!LatchOff
  <2> HIDE DEF x
  <2> QED
    BY <1>0, <1>r, <2>1, <2>2, OneWithin
<1>7. ASSUME NEW n \in 0..Len(v3), Binding!Hear(t, n)
      PROVE  \A u \in Ears : Within(v8'[u])
  <2> DEFINE x == [v8[t] EXCEPT !.pc = "complete", !.ch.nonce = n]
  <2>1. Within(x)
    BY <1>r, WithinKept
  <2>2. \/ v8' = [v8 EXCEPT ![t].pc = "complete", ![t].ch.nonce = n]
        \/ v8' = [v8 EXCEPT ![t].pc = "token"]
        \/ v8' = v8
    BY <1>7 DEF Binding!Hear
  <2>3. CASE v8' = [v8 EXCEPT ![t].pc = "complete", ![t].ch.nonce = n]
    <3>1. v8' = [v8 EXCEPT ![t] = x]
      <4>1. v8 \in [Ears -> Binding!Thread]
        BY <1>0 DEF Heard
      <4>2. [[v8[t] EXCEPT !.pc = "complete"] EXCEPT !.ch.nonce = n] = x
        BY <1>r DEF Binding!Thread
      <4> QED
        BY <2>3, <4>1, <4>2
    <3> HIDE DEF x
    <3> QED
      BY <1>0, <1>r, <2>1, <3>1, OneWithin
  <2> QED
    BY <1>1, <1>r, <2>2, <2>3
<1> QED
  BY <1>2, <1>3, <1>4, <1>5, <1>6, <1>7

\* The steps of the others.
LEMMA ThreadCursors ==
  ASSUME Binding!IInv, CursorsWithin, Binding!Next \/ UNCHANGED <<v1, v2, v3, v4, v5, v6, v7, v8, v9, v10, v11>>
  PROVE  \A u \in Ears : Within(v8'[u])
<1>0. Heard /\ Held
  BY BindingParts
<1>r. \A u \in Ears : Within(v8[u])
  BY DEF CursorsWithin
<1>f. \A p : Within([Binding!NoThread EXCEPT !.prov = p, !.pc = "token"])
             /\ Within([Binding!NoThread EXCEPT !.prov = p, !.pc = "dead"]) /\ Within(Binding!NoThread)
  BY BindingBounds DEF Within, Binding!NoThread, Binding!Unread
<1>1. CASE v8' = v8
  BY <1>1, <1>r
<1>2. CASE \E c \in Calls, p \in Binding!Providers : Binding!Deregister(c, p)
  <2>1. PICK p \in Binding!Providers : v8' = v8 \/ (v6[p] # 0 /\ v8' = [v8 EXCEPT ![v6[p]].stop = TRUE])
    BY <1>2 DEF Binding!Deregister
  <2>2. CASE v6[p] # 0 /\ v8' = [v8 EXCEPT ![v6[p]].stop = TRUE]
    <3>1. v6[p] \in Ears
      BY <1>0, <2>2, BindingBounds DEF Held, Ears
    <3> DEFINE t == v6[p]
               x == [v8[t] EXCEPT !.stop = TRUE]
    <3>2. v8[t] \in Binding!Thread /\ Within(v8[t])
      BY <1>0, <1>r, <3>1 DEF Heard
    <3>3. Within(x)
      BY <3>2, WithinKept
    <3>4. v8' = [v8 EXCEPT ![t] = x]
      BY <2>2
    <3> HIDE DEF x
    <3> QED
      BY <1>0, <1>r, <3>1, <3>3, <3>4, OneWithin
  <2> QED
    BY <1>1, <2>1, <2>2
<1>3. CASE \E c \in Calls : Binding!Bring(c)
  <2>0. PICK t \in Ears :
          \E p : v8' = [v8 EXCEPT ![t] = [Binding!NoThread EXCEPT !.prov = p, !.pc = "token"]]
    BY <1>3 DEF Binding!Bring, Binding!Start, Ears
  <2>1. PICK p : v8' = [v8 EXCEPT ![t] = [Binding!NoThread EXCEPT !.prov = p, !.pc = "token"]]
    BY <2>0
  <2> DEFINE x == [Binding!NoThread EXCEPT !.prov = p, !.pc = "token"]
  <2>2. Within(x) /\ v8' = [v8 EXCEPT ![t] = x]
    BY <1>f, <2>1
  <2> HIDE DEF x
  <2> QED
    BY <1>0, <1>r, <2>2, OneWithin
<1>4. CASE Binding!Crash
  <2> DEFINE dead(u) == [Binding!NoThread EXCEPT !.prov = v8[u].prov, !.pc = "dead"]
             new(p) == [Binding!NoThread EXCEPT !.prov = p, !.pc = "token"]
  <2>1. PICK t \in Ears, p \in Binding!Providers :
          v8' = [u \in Ears |-> CASE u = t -> new(p)
                                  [] v8[u] = Binding!NoThread -> Binding!NoThread
                                  [] OTHER -> dead(u)]
    BY <1>4 DEF Binding!Crash, Ears
  <2>2. Within(new(p)) /\ Within(Binding!NoThread) /\ \A u \in Ears : Within(dead(u))
    BY <1>f
  <2> HIDE DEF dead, new
  <2>3. ASSUME NEW u \in Ears PROVE Within(v8'[u])
    <3>1. v8'[u] \in {new(p), Binding!NoThread, dead(u)}
      BY <2>1
    <3> QED
      BY <2>2, <3>1
  <2> QED
    BY <2>3
<1>5. ASSUME NEW t \in Ears,
         \/ Binding!ReadToken(t) \/ Binding!ReadRow(t) \/ Binding!Retire(t) \/ Binding!Greet(t)
         \/ Binding!Poll(t) \/ Binding!PollFails(t) \/ Binding!Bind(t) \/ Binding!EnsureMenu(t)
         \/ Binding!Ack(t) \/ Binding!Connect(t) \/ Binding!LatchOff(t) \/ Binding!BindDirect(t)
         \/ Binding!Close(t) \/ \E n \in 0..Len(v3) : Binding!Hear(t, n)
      PROVE  \A u \in Ears : Within(v8'[u])
  BY <1>5, EarCursors
<1>6. ASSUME NEW c \in Calls, Binding!ConnectTelegram(c) \/ Binding!ConnectDiscord(c) \/ Binding!Arm(c)
                              \/ Binding!Register(c)
      PROVE  v8' = v8
  BY <1>6 DEF Binding!ConnectTelegram, Binding!ConnectDiscord, Binding!Prove, Binding!Arm, Binding!Register
<1>7. ASSUME Binding!Lapse \/ \E b \in Telegrams, n \in 0..Len(v3) : Binding!Write(b, n)
      PROVE  v8' = v8
  BY <1>7 DEF Binding!Lapse, Binding!Write
<1>8. CASE Binding!Next
  <2>1. \/ \E c \in Calls : \/ Binding!ConnectTelegram(c) \/ Binding!ConnectDiscord(c) \/ Binding!Arm(c)
                            \/ Binding!Register(c)
        \/ \E c \in Calls : Binding!Bring(c)
        \/ \E c \in Calls, p \in Binding!Providers : Binding!Deregister(c, p)
        \/ \E t \in Ears :
             \/ Binding!ReadToken(t) \/ Binding!ReadRow(t) \/ Binding!Retire(t) \/ Binding!Greet(t)
             \/ Binding!Poll(t) \/ Binding!PollFails(t) \/ Binding!Bind(t) \/ Binding!EnsureMenu(t)
             \/ Binding!Ack(t) \/ Binding!Connect(t) \/ Binding!LatchOff(t) \/ Binding!BindDirect(t)
             \/ Binding!Close(t) \/ \E n \in 0..Len(v3) : Binding!Hear(t, n)
        \/ Binding!Lapse \/ \E b \in Telegrams, n \in 0..Len(v3) : Binding!Write(b, n)
        \/ Binding!Crash
    BY <1>8, Zenon DEF Binding!Next, Calls, Ears
  <2> QED
    BY <1>1, <1>2, <1>3, <1>4, <1>5, <1>6, <1>7, <2>1, Zenon
<1> QED
  BY <1>1, <1>8

LEMMA RowCursor ==
  ASSUME Binding!IInv, CursorsWithin, Binding!Next \/ UNCHANGED <<v1, v2, v3, v4, v5, v6, v7, v8, v9, v10, v11>>
  PROVE  v2'.offset <= MaxSent + 1
<1>0. v2 \in Binding!Row /\ v2.offset <= MaxSent + 1 /\ \A t \in Ears : v8[t].upto <= MaxSent + 1
  BY BindingParts DEF CursorsWithin, Within
<1>1. CASE v2'.offset = v2.offset
  BY <1>0, <1>1
<1>2. CASE v2'.offset = 0
  BY <1>2, BindingBounds
<1>3. ASSUME NEW t \in Ears, v2'.offset = v8[t].upto
      PROVE  v2'.offset <= MaxSent + 1
  BY <1>0, <1>3
<1>f. /\ \A n : /\ [v2 EXCEPT !.offset = n].offset = n
               /\ [v2 EXCEPT !.chat = v2.nonce, !.nonce = 0, !.live = FALSE, !.offset = n].offset = n
      /\ [v2 EXCEPT !.welcomed = TRUE].offset = v2.offset
      /\ [v2 EXCEPT !.menu = TRUE].offset = v2.offset
      /\ [v2 EXCEPT !.live = FALSE].offset = v2.offset
      /\ [v2 EXCEPT !.nonce = 0, !.live = FALSE].offset = v2.offset
  BY <1>0 DEF Binding!Row
<1>4. ASSUME NEW t \in Ears, Binding!Retire(t) \/ Binding!Greet(t) \/ Binding!Poll(t) \/ Binding!EnsureMenu(t)
      PROVE  v2'.offset = v2.offset
  <2>1. \/ v2' = v2 \/ v2' = [v2 EXCEPT !.welcomed = TRUE] \/ v2' = [v2 EXCEPT !.menu = TRUE]
        \/ v2' = [v2 EXCEPT !.nonce = 0, !.live = FALSE]
    BY <1>4 DEF Binding!Retire, Binding!Greet, Binding!Poll, Binding!EnsureMenu
  <2> QED
    BY <1>f, <2>1, Zenon
<1>5. ASSUME NEW t \in Ears, Binding!Bind(t) \/ Binding!BindDirect(t) \/ Binding!Ack(t)
      PROVE  v2'.offset <= MaxSent + 1
  <2>1. \/ v2' = v2
        \/ v2' = [v2 EXCEPT !.offset = v8[t].upto]
        \/ v2' = [v2 EXCEPT !.chat = v8[t].ch.nonce, !.nonce = 0, !.live = FALSE, !.offset = v8[t].upto]
        \/ v2' = [v2 EXCEPT !.chat = v8[t].ch.nonce, !.nonce = 0, !.live = FALSE, !.offset = 0]
    BY <1>5 DEF Binding!Bind, Binding!BindDirect, Binding!Ack, Binding!Complete
  <2>2. \A k, n : [v2 EXCEPT !.chat = k, !.nonce = 0, !.live = FALSE, !.offset = n].offset = n
    BY <1>0 DEF Binding!Row
  <2>3. v2'.offset \in {v2.offset, v8[t].upto, 0}
    <3>1. /\ [v2 EXCEPT !.offset = v8[t].upto].offset = v8[t].upto
          /\ [v2 EXCEPT !.chat = v8[t].ch.nonce, !.nonce = 0, !.live = FALSE, !.offset = v8[t].upto].offset = v8[t].upto
          /\ [v2 EXCEPT !.chat = v8[t].ch.nonce, !.nonce = 0, !.live = FALSE, !.offset = 0].offset = 0
      BY <1>0 DEF Binding!Row
    <3> QED
      BY <2>1, <3>1, Zenon
  <2> QED
    BY <1>1, <1>2, <1>3, <2>3
<1>6. ASSUME NEW t \in Ears,
         \/ Binding!ReadToken(t) \/ Binding!ReadRow(t) \/ Binding!PollFails(t) \/ Binding!Connect(t)
         \/ Binding!LatchOff(t) \/ Binding!Close(t) \/ \E n \in 0..Len(v3) : Binding!Hear(t, n)
      PROVE  v2' = v2
  BY <1>6 DEF Binding!ReadToken, Binding!ReadRow, Binding!PollFails, Binding!Connect, Binding!LatchOff,
              Binding!Close, Binding!Hear
<1>7. ASSUME NEW c \in Calls,
             \/ Binding!ConnectTelegram(c) \/ Binding!ConnectDiscord(c) \/ Binding!Register(c) \/ Binding!Bring(c)
             \/ \E p \in Binding!Providers : Binding!Deregister(c, p)
      PROVE  v2' = v2
  BY <1>7 DEF Binding!ConnectTelegram, Binding!ConnectDiscord, Binding!Prove, Binding!Register, Binding!Bring,
              Binding!Deregister
<1>8. ASSUME NEW c \in Calls, Binding!Arm(c)
      PROVE  v2'.offset = 0
  BY <1>8 DEF Binding!Arm
<1>9. ASSUME Binding!Lapse \/ Binding!Crash \/ \E b \in Telegrams, n \in 0..Len(v3) : Binding!Write(b, n)
      PROVE  v2'.offset = v2.offset
  <2>1. v2' = v2 \/ v2' = [v2 EXCEPT !.live = FALSE]
    BY <1>9 DEF Binding!Lapse, Binding!Crash, Binding!Write
  <2> QED
    BY <1>f, <2>1, Zenon
<1>10. CASE Binding!Next
  BY <1>1, <1>2, <1>4, <1>5, <1>6, <1>7, <1>8, <1>9, <1>10, Zenon DEF Binding!Next, Calls, Ears
<1> QED
  BY <1>1, <1>10

LEMMA ArmsStep ==
  ASSUME Binding!IInv, ArmsAreCalls, Binding!Next \/ UNCHANGED <<v1, v2, v3, v4, v5, v6, v7, v8, v9, v10, v11>>
  PROVE  ArmsAreCalls'
<1>0. Called
  BY BindingParts
<1>1. ASSUME v3' = v3, \A c \in Calls : v4[c].pc \notin {"none", "arm"} => v4'[c].pc \notin {"none", "arm"}
      PROVE  ArmsAreCalls'
  <2>1. PastArming \subseteq PastArming'
    BY <1>1 DEF PastArming
  <2>2. Cardinality(PastArming) <= Cardinality(PastArming')
    BY <2>1, PastArmingIsFinite, FS_Subset
  <2>3. Len(v3) \in Nat
    BY <1>0 DEF Called
  <2> QED
    BY <1>1, <2>2, <2>3, PastArmingIsFinite DEF ArmsAreCalls
<1>2. ASSUME NEW c \in Calls, Binding!Arm(c)
      PROVE  ArmsAreCalls'
  <2>1. /\ v4[c].pc = "arm" /\ v3' = Append(v3, v4[c].bot) /\ v4' = [v4 EXCEPT ![c].pc = "register"]
    BY <1>2 DEF Binding!Arm
  <2>2. v4'[c].pc = "register" /\ \A d \in Calls \ {c} : v4'[d] = v4[d]
    BY <1>0, <2>1 DEF Called, Binding!Calling
  <2>3. PastArming' = PastArming \cup {c} /\ c \notin PastArming
    BY <2>1, <2>2 DEF PastArming
  <2>4. Cardinality(PastArming \cup {c}) = Cardinality(PastArming) + 1
    BY <2>3, PastArmingIsFinite, FS_AddElement
  <2>5. v4[c].bot \in Binding!Bots
    BY <1>0, <2>1 DEF Called
  <2>6. Len(v3') = Len(v3) + 1 /\ Len(v3) \in Nat
    BY <1>0, <2>1, <2>5, AppendProperties DEF Called
  <2> QED
    BY <2>3, <2>4, <2>6, PastArmingIsFinite DEF ArmsAreCalls
<1>3. ASSUME NEW c \in Calls,
             \/ Binding!ConnectTelegram(c) \/ Binding!ConnectDiscord(c) \/ Binding!Register(c) \/ Binding!Bring(c)
             \/ \E p \in Binding!Providers : Binding!Deregister(c, p)
      PROVE  ArmsAreCalls'
  <2>1. v3' = v3
    BY <1>3 DEF Binding!ConnectTelegram, Binding!ConnectDiscord, Binding!Prove, Binding!Register, Binding!Bring,
                Binding!Deregister
  <2>2. \/ v4[c].pc = "none" /\ \E q : v4' = [v4 EXCEPT ![c] = q]
        \/ v4' = [v4 EXCEPT ![c].pc = "done"]
        \/ \E p : v4' = [v4 EXCEPT ![c].pc = "swap", ![c].others = p]
        \/ \E p : v4' = [v4 EXCEPT ![c].others = p]
    <3>1. CASE Binding!ConnectTelegram(c) \/ Binding!ConnectDiscord(c)
      BY <3>1, Zenon DEF Binding!ConnectTelegram, Binding!ConnectDiscord, Binding!Prove
    <3>2. CASE Binding!Register(c)
      BY <3>2, Zenon DEF Binding!Register
    <3>3. CASE Binding!Bring(c)
      BY <3>3, Zenon DEF Binding!Bring
    <3>4. ASSUME NEW p, Binding!Deregister(c, p)
          PROVE  \E s : v4' = [v4 EXCEPT ![c].others = s]
      <4>1. v4' = [v4 EXCEPT ![c].others = @ \ {p}]
        BY <3>4 DEF Binding!Deregister
      <4>2. v4' = [v4 EXCEPT ![c].others = v4[c].others \ {p}]
        BY <4>1
      <4> QED
        BY <4>2, Zenon
    <3> QED
      BY <1>3, <3>1, <3>2, <3>3, <3>4, Zenon
  <2>3. v4 \in [Calls -> Binding!Calling]
    BY <1>0 DEF Called
  <2>4. v4[c].pc \notin {"none", "arm"} => v4'[c].pc \notin {"none", "arm"}
    <3>1. CASE v4[c].pc = "none" /\ \E q : v4' = [v4 EXCEPT ![c] = q]
      BY <3>1
    <3>2. CASE v4' = [v4 EXCEPT ![c].pc = "done"]
      BY <2>3, <3>2 DEF Binding!Calling
    <3>3. CASE \E p : v4' = [v4 EXCEPT ![c].pc = "swap", ![c].others = p]
      BY <2>3, <3>3 DEF Binding!Calling
    <3>4. CASE \E p : v4' = [v4 EXCEPT ![c].others = p]
      BY <2>3, <3>4 DEF Binding!Calling
    <3> QED
      BY <2>2, <3>1, <3>2, <3>3, <3>4
  <2>5. \A d \in Calls \ {c} : v4'[d] = v4[d]
    BY <2>2, <2>3
  <2> QED
    BY <1>1, <2>1, <2>4, <2>5
<1>4. CASE Binding!Crash
  <2>1. v3' = v3 /\ \A c \in Calls : v4'[c] = IF v4[c].pc = "none" THEN Binding!NoCall
                                             ELSE [v4[c] EXCEPT !.pc = "done", !.others = {}]
    BY <1>4 DEF Binding!Crash, Calls
  <2>2. \A c \in Calls : v4[c] \in Binding!Calling
    BY <1>0 DEF Called
  <2>3. ASSUME NEW c \in Calls, v4[c].pc # "none" PROVE v4'[c].pc = "done"
    BY <2>1, <2>2, <2>3 DEF Binding!Calling
  <2> QED
    BY <1>1, <2>1, <2>3
<1>5. ASSUME NEW t \in Ears,
         \/ Binding!ReadToken(t) \/ Binding!ReadRow(t) \/ Binding!Retire(t) \/ Binding!Greet(t)
         \/ Binding!Poll(t) \/ Binding!PollFails(t) \/ Binding!Bind(t) \/ Binding!EnsureMenu(t)
         \/ Binding!Ack(t) \/ Binding!Connect(t) \/ Binding!LatchOff(t) \/ Binding!BindDirect(t)
         \/ Binding!Close(t) \/ \E n \in 0..Len(v3) : Binding!Hear(t, n)
      PROVE  UNCHANGED <<v3, v4>>
  BY <1>5 DEF Binding!ReadToken, Binding!ReadRow, Binding!Retire, Binding!Greet, Binding!Poll,
     Binding!PollFails, Binding!Bind, Binding!EnsureMenu, Binding!Ack, Binding!Connect, Binding!LatchOff,
     Binding!BindDirect, Binding!Close, Binding!Hear, Binding!desk
<1>6. ASSUME Binding!Lapse \/ \E b \in Telegrams, n \in 0..Len(v3) : Binding!Write(b, n)
      PROVE  UNCHANGED <<v3, v4>>
  BY <1>6 DEF Binding!Lapse, Binding!Write, Binding!desk
<1>7. CASE UNCHANGED <<v3, v4>>
  BY <1>1, <1>7
<1>8. CASE Binding!Next
  BY <1>2, <1>3, <1>4, <1>5, <1>6, <1>7, <1>8, Zenon DEF Binding!Next, Calls, Ears
<1> QED
  BY <1>7, <1>8

LEMMA BindingShapesStep ==
  ASSUME Binding!IInv, Binding!IInv', BindingShapes,
         Binding!Next \/ UNCHANGED <<v1, v2, v3, v4, v5, v6, v7, v8, v9, v10, v11>>
  PROVE  BindingShapes'
<1>0. Called /\ Post /\ CursorsWithin /\ ArmsAreCalls /\ BindingRest
  BY BindingParts DEF BindingShapes
<1>1. CursorsWithin'
  <2>1. (\A u \in Ears : Within(v8[u]))'
    BY <1>0, ThreadCursors DEF Within
  <2>2. v2'.offset <= MaxSent + 1
    BY <1>0, RowCursor
  <2> QED
    BY <2>1, <2>2 DEF CursorsWithin
<1>2. ArmsAreCalls'
  BY <1>0, ArmsStep
<1>3. v7' \in 0..MaxThreads
  <2>1. v7' = v7 \/ v7' = 0 \/ v7' \in Ears
    BY DEF Binding!Next, Binding!ConnectTelegram, Binding!ConnectDiscord, Binding!Prove, Binding!Arm,
     Binding!Register, Binding!Bring, Binding!Start, Binding!Deregister, Binding!Crash,
     Binding!ReadToken, Binding!ReadRow, Binding!Retire, Binding!Greet, Binding!Poll,
     Binding!PollFails, Binding!Bind, Binding!EnsureMenu, Binding!Ack, Binding!Connect, Binding!LatchOff,
     Binding!BindDirect, Binding!Close, Binding!Hear, Binding!Lapse, Binding!Write,
     Binding!desk, Binding!manager, Ears
  <2> QED
    BY <1>0, <2>1, BindingBounds DEF BindingRest, Ears
<1>4. v11' \in 0..MaxCrashes
  <2>1. v11' = v11 \/ (v11 < MaxCrashes /\ v11' = v11 + 1)
    BY DEF Binding!Next, Binding!ConnectTelegram, Binding!ConnectDiscord, Binding!Prove, Binding!Arm,
     Binding!Register, Binding!Bring, Binding!Start, Binding!Deregister, Binding!Crash,
     Binding!ReadToken, Binding!ReadRow, Binding!Retire, Binding!Greet, Binding!Poll,
     Binding!PollFails, Binding!Bind, Binding!EnsureMenu, Binding!Ack, Binding!Connect, Binding!LatchOff,
     Binding!BindDirect, Binding!Close, Binding!Hear, Binding!Lapse, Binding!Write,
     Binding!desk, Binding!manager
  <2> QED
    BY <1>0, <2>1, BindingBounds DEF BindingRest
<1>5. \A b \in Telegrams : \A m \in v9'[b] : m.nonce \in 0..MaxArms
  <2>1. v9 \in [Telegrams -> SUBSET Binding!Message]
    BY <1>0 DEF Post
  <2>2. \/ v9' = v9
        \/ \E t \in Ears : Binding!Poll(t)
        \/ \E b \in Telegrams, n \in 0..Len(v3) : Binding!Write(b, n)
    BY DEF Binding!Next, Binding!ConnectTelegram, Binding!ConnectDiscord, Binding!Prove, Binding!Arm,
     Binding!Register, Binding!Bring, Binding!Start, Binding!Deregister, Binding!Crash,
     Binding!ReadToken, Binding!ReadRow, Binding!Retire, Binding!Greet,
     Binding!PollFails, Binding!Bind, Binding!EnsureMenu, Binding!Ack, Binding!Connect, Binding!LatchOff,
     Binding!BindDirect, Binding!Close, Binding!Hear, Binding!Lapse, Ears
  <2>3. ASSUME NEW t \in Ears, Binding!Poll(t)
        PROVE  \A b \in Telegrams : v9'[b] \subseteq v9[b]
    BY <2>1, <2>3 DEF Binding!Poll, Binding!Asked
  <2>4. ASSUME NEW a \in Telegrams, NEW n \in 0..Len(v3), Binding!Write(a, n)
        PROVE  \A b \in Telegrams : v9'[b] \subseteq v9[b] \cup {[id |-> v10 + 1, nonce |-> n]}
    BY <2>1, <2>4 DEF Binding!Write
  <2>5. \A n \in 0..Len(v3) : [id |-> v10 + 1, nonce |-> n].nonce \in 0..MaxArms
    BY <1>0, ArmsAreFew, BindingBounds
  <2> QED
    BY <1>0, <2>2, <2>3, <2>4, <2>5 DEF BindingRest
<1> QED
  BY <1>1, <1>2, <1>3, <1>4, <1>5 DEF BindingShapes, BindingRest

-----------------------------------------------------------------------------
(* ConnectLane: v1 req, v2 todo, v3 drv, v4 excl, v5 tab, v6 owed, v7 busy,   *)
(* v8 crashes, v9 taps, v10 told.                                           *)

ConnectShapes ==
  /\ v2 \subseteq [m : AllMarkets, row : Request]
  /\ v4 \in Connecting!Drivers \cup {"none"} /\ v7 \in BOOLEAN
  /\ v8 \in 0..MaxCrashes /\ v9 \in [AllMarkets -> 0..MaxTaps]

LEMMA ConnectShapesInit ==
  ASSUME Connecting!Init
  PROVE  ConnectShapes
<1>1. 0 \in 0..MaxTaps /\ 0 \in 0..MaxCrashes
  BY RecordsAssumption DEF Connecting!ConnectLaneAssumption
<1>2. v9 = [m \in AllMarkets |-> 0]
  BY DEF Connecting!Init
<1>3. v9 \in [AllMarkets -> 0..MaxTaps]
  BY <1>1, <1>2
<1> QED
  BY <1>1, <1>3 DEF Connecting!Init, ConnectShapes

LEMMA ConnectShapesType ==
  ASSUME Connecting!IInv, ConnectShapes
  PROVE  Connecting!TypeOK
  BY DEF Connecting!IInv, ConnectShapes, Connecting!TypeOK, Request

LEMMA ConnectingFinite ==
  \A S : Connecting!Cardinality(S) = Cardinality(S) /\ (Connecting!IsFiniteSet(S) <=> IsFiniteSet(S))
<1>1. \A S : Connecting!Cardinality(S) = Cardinality(S)
  BY Zenon DEF Connecting!Cardinality, Cardinality
<1>2. \A S : Connecting!IsFiniteSet(S) <=> IsFiniteSet(S)
  BY Zenon DEF Connecting!IsFiniteSet, IsFiniteSet
<1> QED
  BY <1>1, <1>2

\* A market that was tapped as often as may be leaves no room for another tap.
LEMMA TapsFit ==
  ASSUME v9 \in [AllMarkets -> 0..MaxTaps], NEW m \in AllMarkets,
         Cardinality(Connecting!Tapped) < MaxTaps
  PROVE  v9[m] < MaxTaps
<1>1. IsFiniteSet(AllMarkets) /\ MaxTaps \in Nat
  <2>1. Connecting!ConnectLaneAssumption
    BY RecordsAssumption
  <2> QED
    BY <2>1, ConnectingFinite, Zenon DEF Connecting!ConnectLaneAssumption
<1>2. 1 \in Int /\ MaxTaps \in Int
  BY <1>1
<1>3. IsFiniteSet(1..MaxTaps) /\ Cardinality(1..MaxTaps) = IF 1 > MaxTaps THEN 0 ELSE MaxTaps-1+1
  BY <1>2, FS_Interval
<1>4. Cardinality(1..MaxTaps) = MaxTaps
  BY <1>1, <1>3
<1> DEFINE all == AllMarkets \X (1..MaxTaps)
<1>5. IsFiniteSet(all)
  BY <1>1, <1>3, FS_Product
<1>6. Connecting!Tapped \in SUBSET all
  BY DEF Connecting!Tapped
<1>7. IsFiniteSet(Connecting!Tapped) /\ Cardinality(Connecting!Tapped) \in Nat
  BY <1>5, <1>6, FS_Subset, FS_CardinalityType
<1>8. SUFFICES ASSUME v9[m] = MaxTaps PROVE FALSE
  BY <1>1
<1> DEFINE f == [k \in 1..MaxTaps |-> <<m, k>>]
<1>9. \A k \in 1..MaxTaps : <<m, k>> \in Connecting!Tapped
  BY <1>1, <1>8 DEF Connecting!Tapped
<1>10. f \in Injection(1..MaxTaps, Connecting!Tapped)
  <2>1. f \in [1..MaxTaps -> Connecting!Tapped]
    BY <1>9
  <2>2. \A k, l \in 1..MaxTaps : f[k] = f[l] => k = l
    OBVIOUS
  <2> HIDE DEF f
  <2> QED
    BY <2>1, <2>2 DEF Injection, IsInjective
<1> HIDE DEF f
<1>11. Cardinality(1..MaxTaps) <= Cardinality(Connecting!Tapped)
  BY <1>7, <1>10, FS_Injection
<1> QED
  BY <1>1, <1>4, <1>7, <1>11

LEMMA ConnectShapesStep ==
  ASSUME Connecting!IInv, ConnectShapes,
         Connecting!Next \/ UNCHANGED <<v1, v2, v3, v4, v5, v6, v7, v8, v9, v10>>
  PROVE  ConnectShapes'
<1> USE ConnectingTypes DEF ConnectShapes
<1>1. CASE UNCHANGED <<v1, v2, v3, v4, v5, v6, v7, v8, v9, v10>>
  BY <1>1
<1>2. ASSUME NEW m \in AllMarkets, Connecting!Age(m)
      PROVE  ConnectShapes'
  BY <1>2 DEF Connecting!Age, Connecting!world
<1>3. ASSUME NEW m \in AllMarkets, NEW mode \in {"open", "probe"}, Connecting!Tap(m, mode)
      PROVE  ConnectShapes'
  <2>1. Cardinality(Connecting!Tapped) < MaxTaps
    BY <1>3, ConnectingFinite, Zenon DEF Connecting!Tap
  <2>2. v9[m] + 1 \in 0..MaxTaps
    <3>1. v9[m] < MaxTaps
      BY <2>1, TapsFit
    <3>2. MaxTaps \in Nat /\ v9[m] \in 0..MaxTaps
      BY RecordsAssumption DEF Connecting!ConnectLaneAssumption
    <3> QED
      BY <3>1, <3>2
  <2>3. v9' = [v9 EXCEPT ![m] = v9[m] + 1] /\ UNCHANGED <<v2, v4, v7, v8>>
    BY <1>3, ConnectingFinite, Zenon DEF Connecting!Tap
  <2> QED
    BY <2>2, <2>3
<1>4. ASSUME NEW m \in SignInMarkets, NEW mode \in {"open", "probe"}, Connecting!Call(m, mode)
      PROVE  ConnectShapes'
  BY <1>4 DEF Connecting!Call, Connecting!world
<1>5. ASSUME NEW r \in v2, Connecting!Take(r)
      PROVE  ConnectShapes'
  BY <1>5 DEF Connecting!Take, Connecting!world
<1>6. CASE Connecting!Look
  BY <1>6 DEF Connecting!Look, Connecting!world
<1>7. CASE Connecting!Clear \/ Connecting!Survey \/ Connecting!Tell \/ Connecting!Respond
  BY <1>7 DEF Connecting!Clear, Connecting!Survey, Connecting!Tell, Connecting!Respond, Connecting!world
<1>8. CASE Connecting!TabIsLost \/ Connecting!LaneFails
  BY <1>8 DEF Connecting!TabIsLost, Connecting!LaneFails, Connecting!Leave, Connecting!world
<1>9. CASE Connecting!World
  BY <1>9, Zenon DEF Connecting!World
<1>10. CASE Connecting!Crash
  <2>1. v8 + 1 \in 0..MaxCrashes
    BY <1>10, RecordsAssumption DEF Connecting!Crash, Connecting!ConnectLaneAssumption
  <2> QED
    BY <1>10, <2>1 DEF Connecting!Crash
<1>11. ASSUME NEW d \in Connecting!Drivers,
             \/ Connecting!Navigate(d) \/ Connecting!Front(d) \/ Connecting!Again(d)
             \/ Connecting!Probe(d) \/ Connecting!Detached(d) \/ Connecting!Down(d)
      PROVE  ConnectShapes'
  BY <1>11 DEF Connecting!Navigate, Connecting!Front, Connecting!Again, Connecting!Probe,
               Connecting!Detached, Connecting!Down, Connecting!Leave, Connecting!world
<1> QED
  BY <1>1, <1>2, <1>3, <1>4, <1>5, <1>6, <1>7, <1>8, <1>9, <1>10, <1>11 DEF Connecting!Next

-----------------------------------------------------------------------------
(* InstallUpdate: v1 tree, v2 current, v3 db, v4 snaps, v5 job, v6 daemon,   *)
(* v7 beat, v8 op, v9 torn, v10 clock, v11 faults: its shapes.              *)

\* Up to its Stage a command has room for the install it stamps; what is stamped
\* was stamped by the clock, and no write is newer than the daemon's newest.
Waiting == {"gates", "fetch", "stop", "displace", "stage"}
ClockFits == v10 <= MaxTime /\ (v8.pc \in Waiting => v10 < MaxTime)
TreeFits == \A v \in Versions : v1[v].at <= v10
CommandFits == v8.data <= MaxData /\ v8.after <= MaxTime
SnapFits(s) == s.data <= MaxData /\ s.at >= 1
SnapsFit == Len(v4) <= BackupsKeep /\ \A i \in DOMAIN v4 : SnapFits(v4[i])
InstallShapes == /\ ClockFits /\ TreeFits /\ CommandFits /\ SnapsFit
                 /\ v3.data <= MaxData /\ v11 \in 0..MaxFaults

LEMMA InstallBounds ==
  MaxTime \in Nat /\ MaxData \in Nat /\ MaxFaults \in Nat /\ BackupsKeep \in Nat \ {0}
  BY RecordsAssumption DEF Install!InstallAssumption

LEMMA InstallShapesInit ==
  ASSUME Install!Init
  PROVE  InstallShapes
<1>1. /\ v1 = [v \in Versions |-> [is |-> "none", at |-> 0]] /\ v3 = [schema |-> 0, data |-> 0]
      /\ v4 = <<>> /\ v8 = Install!Idle /\ v10 = 0 /\ v11 = 0
  BY DEF Install!Init
<1>2. v8.pc = "idle" /\ v8.data = 0 /\ v8.after = 0
  BY <1>1 DEF Install!Idle
<1>3. 0 <= MaxTime /\ 0 <= MaxData /\ 0 <= BackupsKeep /\ 0 \in 0..MaxFaults
  BY InstallBounds
<1>4. ClockFits /\ CommandFits
  BY <1>1, <1>2, <1>3 DEF ClockFits, CommandFits, Waiting
<1>5. TreeFits
  BY <1>1 DEF TreeFits
<1>6. SnapsFit
  BY <1>1, <1>3 DEF SnapsFit
<1> QED
  BY <1>1, <1>3, <1>4, <1>5, <1>6 DEF InstallShapes

LEMMA InstallShapesType ==
  ASSUME Install!IInv, InstallShapes
  PROVE  Install!TypeOK
<1>1. Site /\ Commanded /\ Install!SnapsAreDated
  BY InstallParts
<1>2. ClockFits /\ TreeFits /\ CommandFits /\ SnapsFit /\ v3.data <= MaxData /\ v11 \in 0..MaxFaults
  BY DEF InstallShapes
<1>3. v10 \in 0..MaxTime
  BY <1>1, <1>2, InstallBounds DEF Site, ClockFits
<1>4. v1 \in [Versions -> [is : {"none", "staged", "ready"}, at : 0..MaxTime]]
  <2>1. v1 \in [Versions -> Install!Tree]
    BY <1>1 DEF Site
  <2>2. ASSUME NEW v \in Versions
        PROVE  v1[v] \in [is : {"none", "staged", "ready"}, at : 0..MaxTime]
    <3>1. v1[v] \in Install!Tree /\ v1[v].at <= v10
      BY <1>2, <2>1 DEF TreeFits
    <3>2. v1[v].at \in 0..MaxTime
      BY <1>3, <3>1, InstallBounds DEF Install!Tree
    <3> QED
      BY <3>1, <3>2 DEF Install!Tree
  <2> QED
    BY <2>1, <2>2
<1>5. v3 \in [schema : Nat, data : 0..MaxData]
  BY <1>1, <1>2, InstallBounds DEF Site, Install!Data
<1>6. v4 \in Seq([schema : Nat, data : 0..MaxData, at : 1..MaxTime])
  <2> DEFINE S == [schema : Nat, data : 0..MaxData, at : 1..MaxTime]
  <2>1. v4 \in Seq(Install!Snap)
    BY <1>1 DEF Site
  <2>2. ASSUME NEW i \in 1..Len(v4)
        PROVE  v4[i] \in S
    <3>1. v4[i] \in Install!Snap /\ i \in DOMAIN v4
      BY <2>1
    <3>2. v4[i].at <= v10 /\ v4[i].at >= 1 /\ v4[i].data <= MaxData
      BY <1>1, <1>2, <3>1 DEF Install!SnapsAreDated, SnapsFit, SnapFits
    <3>3. v4[i].at \in Nat /\ v4[i].data \in Nat
      BY <3>1 DEF Install!Snap
    <3>4. v4[i].at \in 1..MaxTime /\ v4[i].data \in 0..MaxData
      BY <1>3, <3>2, <3>3, InstallBounds
    <3> QED
      BY <3>1, <3>4 DEF Install!Snap
  <2> HIDE DEF S
  <2>3. Len(v4) \in Nat /\ v4 \in [1..Len(v4) -> Install!Snap]
    BY <2>1
  <2>4. v4 \in [1..Len(v4) -> S]
    BY <2>2, <2>3
  <2>5. v4 \in Seq(S)
    BY <2>3, <2>4
  <2> QED
    BY <2>5 DEF S
<1>7. v8 \in [pc : {"idle", "gates", "fetch", "stop", "displace", "stage", "provision", "failed",
                    "swap", "start", "wait", "back", "swapback", "restore", "restart"},
              kind : {"none", "setup", "update", "rollback", "killed"}, to : Versions \cup {0},
              from : Versions \cup {0}, after : 0..MaxTime, was : BOOLEAN, data : 0..MaxData,
              schema : Nat]
  <2>1. v8 \in Install!Op
    BY <1>1 DEF Commanded
  <2>2. v8.after \in 0..MaxTime /\ v8.data \in 0..MaxData
    <3>1. v8.after \in Nat /\ v8.data \in Nat
      BY <2>1, OpIs
    <3> QED
      BY <1>2, <3>1, InstallBounds DEF CommandFits
  <2> QED
    BY <2>1, <2>2 DEF Install!Op, Install!Before, Install!Between
<1>8. v2 \in Versions \cup {0} /\ v5 \in [registered : BOOLEAN, login : BOOLEAN]
      /\ v6 \in {"down", "migrating", "up"} /\ v9 \in BOOLEAN /\ v7 \in BOOLEAN
  BY <1>1 DEF Site
<1>9. Len(v4) <= BackupsKeep
  BY <1>2 DEF SnapsFit
<1> QED
  BY <1>2, <1>3, <1>4, <1>5, <1>6, <1>7, <1>8, <1>9 DEF Install!TypeOK

\* What a step may write down of the command.
LEMMA CommandSteps ==
  ASSUME Install!IInv, Install!Next
  PROVE  /\ v8'.pc \in Waiting => v8.pc \in Waiting \/ v10 < MaxTime
         /\ v8'.data \in {v8.data, v3.data, 0}
         /\ v8'.after \in {v8.after, v10, 0} \cup {v1[w].at : w \in Versions}
<1> DEFINE Ok == /\ v8'.pc \in Waiting => v8.pc \in Waiting \/ v10 < MaxTime
                 /\ v8'.data \in {v8.data, v3.data, 0}
                 /\ v8'.after \in {v8.after, v10, 0} \cup {v1[w].at : w \in Versions}
<1>0. Commanded /\ Site /\ v8 \in Install!Op
  BY InstallParts DEF Commanded
<1>1. ASSUME v8' = v8 PROVE Ok
  BY <1>1
<1>2. ASSUME v8' = Install!Idle \/ \E k : v8' = [Install!Idle EXCEPT !.kind = k] PROVE Ok
  BY <1>2 DEF Install!Idle, Waiting
<1>3. ASSUME NEW pc \in Install!Before \cup Install!Between \cup {"restore", "restart"}, Install!Goto(pc),
             v8.pc \in Waiting \/ pc \notin Waiting
      PROVE  Ok
  <2>1. v8'.pc = pc /\ v8'.data = v8.data /\ v8'.after = v8.after
    BY <1>0, <1>3, GotoIs
  <2> QED
    BY <1>3, <2>1
<1>4. ASSUME NEW v \in Versions, Install!Setup(v) \/ Install!Update(v)
      PROVE  Ok
  <2>1. v10 < MaxTime /\ v8'.data = 0 /\ v8'.after = 0
    BY <1>4 DEF Install!Setup, Install!Update, Install!Idle
  <2> QED
    BY <2>1
<1>5. CASE Install!Gates \/ Install!Fetch
  <2>1. v8.pc \in Waiting
    BY <1>5 DEF Install!Gates, Install!Fetch, Waiting
  <2>2. v8' = Install!Idle \/ (v8'.data = v3.data /\ v8'.after \in {0, v10})
    BY <1>5 DEF Install!Gates, Install!Fetch, Install!Command
  <2> QED
    BY <1>2, <2>1, <2>2
<1>6. CASE Install!RollBack
  <2>1. v8'.pc = "back" /\ v8'.data = v3.data /\ v8'.after = v1[v2].at /\ v2 # 0
    BY <1>6 DEF Install!RollBack, Install!Command, Install!Live
  <2>2. v2 \in Versions
    BY <1>0, <2>1 DEF Site
  <2> QED
    BY <2>1, <2>2 DEF Waiting
<1>7. CASE Install!Stop \/ Install!Displace \/ Install!Stage
  <2>1. v8.pc \in Waiting
    BY <1>7 DEF Install!Stop, Install!Displace, Install!Stage, Waiting
  <2>2. \E pc \in {"stage", "displace", "provision"} : Install!Goto(pc)
    BY <1>7 DEF Install!Stop, Install!Displace, Install!Stage
  <2> QED
    BY <1>3, <2>1, <2>2 DEF Install!Before
<1>8. CASE \/ Install!Provision \/ Install!Swap \/ Install!Start \/ Install!Judge \/ Install!Back
           \/ Install!SwapBack \/ Install!Restore \/ Install!Failed \/ Install!Restart
  <2>1. \/ \E pc \in {"swap", "failed", "start", "wait", "back", "swapback", "restore", "restart"} :
             Install!Goto(pc)
        \/ v8' = Install!Idle \/ v8' = v8
    BY <1>8, Zenon
       DEF Install!Provision, Install!Swap, Install!Start, Install!Judge, Install!Back,
           Install!SwapBack, Install!Restore, Install!Failed, Install!Restart
  <2> QED
    BY <1>1, <1>2, <1>3, <2>1 DEF Install!Before, Install!Between, Waiting
<1>9. CASE Install!Killed
  BY <1>2, <1>9 DEF Install!Killed
<1>10. CASE \/ Install!Boot \/ Install!Migrate \/ Install!DaemonDies \/ Install!Write
            \/ Install!SellerStarts \/ Install!SellerStops
  BY <1>1, <1>10 DEF Install!Boot, Install!Migrate, Install!DaemonDies, Install!Write,
                     Install!SellerStarts, Install!SellerStops
<1>11. CASE \E v \in Versions : Install!Setup(v) \/ Install!Update(v)
  BY <1>4, <1>11
<1> HIDE DEF Ok
<1> QED
  BY <1>5, <1>6, <1>7, <1>8, <1>9, <1>10, <1>11
     DEF Install!Next, Install!OpStep, Install!DaemonStep

\* What a step may write down of the clock and of the versions.
LEMMA ClockSteps ==
  ASSUME Install!IInv, ClockFits, TreeFits, Install!Next
  PROVE  ClockFits' /\ TreeFits'
<1>0. /\ Commanded /\ Site /\ Install!JobIsKnown /\ v10 \in Nat /\ MaxTime \in Nat
      /\ v1 \in [Versions -> Install!Tree] /\ \A v \in Versions : v1[v].at \in Nat
  BY InstallParts, InstallBounds, SiteIs DEF Site
<1>c. v8'.pc \in Waiting => v8.pc \in Waiting \/ v10 < MaxTime
  BY CommandSteps
<1>1. ASSUME v10' = v10 PROVE ClockFits'
  BY <1>c, <1>1 DEF ClockFits
<1>2. ASSUME v10' \in Nat, v10' >= v10, \A v \in Versions : v1'[v].at = v1[v].at PROVE TreeFits'
  BY <1>0, <1>2 DEF TreeFits
<1>3. ASSUME NEW v, NEW is, v1' = [v1 EXCEPT ![v].is = is]
      PROVE  \A w \in Versions : v1'[w].at = v1[w].at
  <2> TAKE w \in Versions
  <2>1. v1'[w] = v1[w] \/ v1'[w] = [v1[w] EXCEPT !.is = is]
    BY <1>0, <1>3
  <2>2. v1[w] \in Install!Tree
    BY <1>0
  <2> QED
    BY <2>1, <2>2 DEF Install!Tree
<1>4. ASSUME NEW live, v1' = Install!Pruned(live)
      PROVE  \A w \in Versions : v1'[w].at = v1[w].at
  <2> TAKE w \in Versions
  <2>1. v1'[w] = v1[w] \/ v1'[w] = [v1[w] EXCEPT !.is = "none"]
    BY <1>4 DEF Install!Pruned
  <2>2. v1[w] \in Install!Tree
    BY <1>0
  <2> QED
    BY <2>1, <2>2 DEF Install!Tree
<1>5. CASE Install!Boot
  <2>1. v1' = v1 /\ v8' = v8 /\ v5.registered
        /\ (v10' = v10 \/ (v10' = v10 + 1
              /\ v10 + (IF v8.pc \in {"gates", "fetch", "stop"} THEN 1 ELSE 0) < MaxTime))
    BY <1>5 DEF Install!Boot
  <2>2. v8.pc \notin {"displace", "stage"}
    BY <1>0, <2>1 DEF Install!JobIsKnown
  <2>3. ClockFits'
    BY <1>0, <1>1, <2>1, <2>2 DEF ClockFits, Waiting
  <2>4. TreeFits'
    BY <1>0, <1>2, <2>1
  <2> QED
    BY <2>3, <2>4
<1>6. CASE Install!Stage
  <2>1. v8.pc = "stage" /\ v10' = v10 + 1 /\ Install!Goto("provision")
        /\ v1' = [v1 EXCEPT ![v8.to] = [is |-> "staged", at |-> v10']]
    BY <1>6 DEF Install!Stage
  <2>2. v8'.pc = "provision"
    BY <1>0, <2>1, GotoIs DEF Commanded, Install!Before
  <2>3. ClockFits'
    BY <1>0, <2>1, <2>2 DEF ClockFits, Waiting
  <2>4. \A v \in Versions : v1'[v].at = v10' \/ v1'[v] = v1[v]
    BY <1>0, <2>1
  <2>5. TreeFits'
    BY <1>0, <2>1, <2>4 DEF TreeFits
  <2> QED
    BY <2>3, <2>5
<1>7. ASSUME v10' = v10, v1' = v1 \/ (\E v, is : v1' = [v1 EXCEPT ![v].is = is])
                         \/ (\E live : v1' = Install!Pruned(live))
      PROVE  ClockFits' /\ TreeFits'
  <2>1. \A w \in Versions : v1'[w].at = v1[w].at
    BY <1>3, <1>4, <1>7
  <2>2. v10' \in Nat /\ v10' >= v10
    BY <1>0, <1>7
  <2> QED
    BY <1>1, <1>2, <1>7, <2>1, <2>2
<1>8. CASE Install!Displace \/ Install!Provision \/ Install!Swap \/ Install!Judge
  <2>1. v10' = v10 /\ (v1' = v1 \/ (\E v, is : v1' = [v1 EXCEPT ![v].is = is])
                       \/ (\E live : v1' = Install!Pruned(live)))
    BY <1>8, Zenon DEF Install!Displace, Install!Provision, Install!Swap, Install!Judge
  <2> QED
    BY <1>7, <2>1
<1>9. CASE \/ Install!Stop \/ Install!Failed \/ Install!Start \/ Install!Back \/ Install!SwapBack
           \/ Install!Restore \/ Install!Restart \/ Install!Killed \/ Install!Migrate
           \/ Install!DaemonDies \/ Install!Write \/ Install!SellerStarts \/ Install!SellerStops
           \/ Install!RollBack \/ Install!Gates \/ Install!Fetch
           \/ \E v \in Versions : Install!Setup(v) \/ Install!Update(v)
  <2>1. v10' = v10 /\ v1' = v1
    BY <1>9 DEF Install!Stop, Install!Failed, Install!Start, Install!Back, Install!SwapBack,
                Install!Restore, Install!Restart, Install!Killed, Install!Migrate,
                Install!DaemonDies, Install!Write, Install!SellerStarts, Install!SellerStops,
                Install!RollBack, Install!Gates, Install!Fetch, Install!Setup, Install!Update,
                Install!Command, Install!OnlyOp
  <2> QED
    BY <1>7, <2>1
<1> QED
  BY <1>5, <1>6, <1>8, <1>9 DEF Install!Next, Install!OpStep, Install!DaemonStep

\* What a step may write down of the database and of its snapshots.
LEMMA DataSteps ==
  ASSUME Install!IInv, SnapsFit, v3.data <= MaxData, Install!Next
  PROVE  SnapsFit' /\ v3'.data <= MaxData
<1>0. Site /\ v3.data \in Nat /\ v10 \in Nat /\ MaxData \in Nat /\ BackupsKeep \in Nat \ {0}
      /\ v4 \in Seq(Install!Snap) /\ v3 \in Install!Data /\ v3.schema \in Nat
  BY InstallParts, InstallBounds, SiteIs DEF Site
<1>1. ASSUME v4' = v4 PROVE SnapsFit'
  BY <1>1 DEF SnapsFit
<1>2. CASE Install!Boot
  <2>1. v3' = v3
    BY <1>2 DEF Install!Boot
  <2>2. CASE v3.schema < Schema[v2]
    <3> DEFINE x == [schema |-> v3.schema, data |-> v3.data, at |-> v10']
    <3>1. v10' = v10 + 1 /\ v4' = Install!Latest(Append(v4, x))
      BY <1>2, <2>2 DEF Install!Boot
    <3>2. x \in Install!Snap /\ SnapFits(x)
      BY <1>0, <3>1 DEF Install!Snap, SnapFits
    <3> HIDE DEF x
    <3>3. \A i \in DOMAIN v4' : v4'[i] = x \/ \E j \in DOMAIN v4 : v4'[i] = v4[j]
      BY <1>0, <3>1, <3>2, LatestIs
    <3>4. \A i \in DOMAIN v4' : SnapFits(v4'[i])
      BY <3>2, <3>3 DEF SnapsFit
    <3>5. Len(v4') <= BackupsKeep
      <4> DEFINE a == Append(v4, x)
      <4>1. a \in Seq(Install!Snap) /\ Len(a) \in Nat
        BY <1>0, <3>2
      <4>2. v4' = Install!Latest(a)
        BY <3>1
      <4> HIDE DEF a
      <4>3. CASE Len(a) <= BackupsKeep
        BY <4>2, <4>3 DEF Install!Latest
      <4>4. CASE ~(Len(a) <= BackupsKeep)
        <5>1. v4' = SubSeq(a, Len(a) - BackupsKeep + 1, Len(a))
          BY <4>2, <4>4 DEF Install!Latest
        <5>2. Len(v4') = BackupsKeep
          BY <1>0, <4>1, <4>4, <5>1
        <5> QED
          BY <1>0, <5>2
      <4> QED
        BY <4>3, <4>4
    <3> QED
      BY <2>1, <3>4, <3>5 DEF SnapsFit
  <2>3. CASE ~(v3.schema < Schema[v2])
    <3>1. v4' = v4
      BY <1>2, <2>3 DEF Install!Boot
    <3> QED
      BY <1>1, <2>1, <3>1
  <2> QED
    BY <2>2, <2>3
<1>3. CASE Install!Migrate \/ Install!Write
  <2>1. v4' = v4 /\ (v3' = [v3 EXCEPT !.schema = @ + 1] \/ (v3.data < MaxData /\ v3' = [v3 EXCEPT !.data = @ + 1]))
    BY <1>3 DEF Install!Migrate, Install!Write
  <2>2. v3'.data = v3.data \/ (v3.data < MaxData /\ v3'.data = v3.data + 1)
    BY <1>0, <2>1 DEF Install!Data
  <2> QED
    BY <1>0, <1>1, <2>1, <2>2
<1>4. CASE Install!Restore
  <2>1. v4' = v4
    BY <1>4 DEF Install!Restore
  <2>2. v3' = v3 \/ (v4 # <<>> /\ v3'.data = v4[Len(v4)].data)
    BY <1>4 DEF Install!Restore
  <2>3. v4 # <<>> => Len(v4) \in DOMAIN v4
    BY <1>0
  <2>4. v3'.data <= MaxData
    BY <2>2, <2>3 DEF SnapsFit, SnapFits
  <2> QED
    BY <1>1, <2>1, <2>4
<1>5. CASE \/ Install!Stop \/ Install!Failed \/ Install!Start \/ Install!Back \/ Install!SwapBack
           \/ Install!Displace \/ Install!Provision \/ Install!Swap \/ Install!Judge \/ Install!Stage
           \/ Install!Restart \/ Install!Killed
           \/ Install!DaemonDies \/ Install!SellerStarts \/ Install!SellerStops
           \/ Install!RollBack \/ Install!Gates \/ Install!Fetch
           \/ \E v \in Versions : Install!Setup(v) \/ Install!Update(v)
  <2>1. v3' = v3 /\ v4' = v4
    BY <1>5 DEF Install!Stop, Install!Failed, Install!Start, Install!Back, Install!SwapBack,
                Install!Displace, Install!Provision, Install!Swap, Install!Judge, Install!Stage,
                Install!Restart, Install!Killed,
                Install!DaemonDies, Install!SellerStarts, Install!SellerStops,
                Install!RollBack, Install!Gates, Install!Fetch, Install!Setup, Install!Update,
                Install!Command, Install!OnlyOp
  <2> QED
    BY <1>1, <2>1
<1> QED
  BY <1>2, <1>3, <1>4, <1>5 DEF Install!Next, Install!OpStep, Install!DaemonStep

LEMMA InstallShapesStep ==
  ASSUME Install!IInv, InstallShapes,
         Install!Next \/ UNCHANGED <<v1, v2, v3, v4, v5, v6, v7, v8, v9, v10, v11>>
  PROVE  InstallShapes'
<1>1. CASE UNCHANGED <<v1, v2, v3, v4, v5, v6, v7, v8, v9, v10, v11>>
  BY <1>1 DEF InstallShapes, ClockFits, TreeFits, CommandFits, SnapsFit
<1>2. CASE Install!Next
  <2>0. Site /\ v10 \in Nat /\ \A v \in Versions : v1[v].at \in Nat
    BY InstallParts, SiteIs DEF Site
  <2>1. ClockFits' /\ TreeFits' /\ SnapsFit' /\ v3'.data <= MaxData
    BY <1>2, ClockSteps, DataSteps DEF InstallShapes
  <2>2. CommandFits'
    <3>1. /\ v8'.data \in {v8.data, v3.data, 0}
          /\ v8'.after \in {v8.after, v10, 0} \cup {v1[w].at : w \in Versions}
      BY <1>2, CommandSteps
    <3>2. v8'.data <= MaxData
      BY <3>1, InstallBounds DEF InstallShapes, CommandFits
    <3>3. \A w \in Versions : v1[w].at <= MaxTime
      BY <2>0, InstallBounds DEF InstallShapes, TreeFits, ClockFits
    <3>4. v8'.after <= MaxTime
      BY <2>0, <3>1, <3>3, InstallBounds DEF InstallShapes, CommandFits, ClockFits
    <3> QED
      BY <3>2, <3>4 DEF CommandFits
  <2>3. v11' \in 0..MaxFaults
    <3>1. v11' = v11 \/ (v11 < MaxFaults /\ v11' = v11 + 1)
      BY <1>2, Zenon
         DEF Install!Next, Install!OpStep, Install!DaemonStep, Install!Boot, Install!Migrate, Install!Write, Install!Restore,
             Install!Stop, Install!Failed, Install!Start, Install!Back, Install!SwapBack,
             Install!Displace, Install!Provision, Install!Swap, Install!Judge, Install!Stage,
             Install!Restart, Install!Killed,
             Install!DaemonDies, Install!SellerStarts, Install!SellerStops,
             Install!RollBack, Install!Gates, Install!Fetch, Install!Setup, Install!Update,
             Install!Command, Install!OnlyOp
    <3> QED
      BY <3>1, InstallBounds DEF InstallShapes
  <2> QED
    BY <2>1, <2>2, <2>3 DEF InstallShapes
<1> QED
  BY <1>1, <1>2

-----------------------------------------------------------------------------
(* Of the records.                                                          *)

\* What UpdateIsSafe follows from.
ReleaseInv == part = "release" => Install!IInv

LEMMA ReleaseInvKept == RecordsSpec => []ReleaseInv
<1>1. RecordsInit => ReleaseInv
  BY PartInit, InstallInit DEF ReleaseInv
<1>2. ReleaseInv /\ [RecordsNext]_<<vars, part, Shared>> => ReleaseInv'
  BY PartStep, InstallStep DEF ReleaseInv
<1> QED
  BY <1>1, <1>2, PTL DEF RecordsSpec

\* At every step of an update the version behind current can run, an update that
\* is undone loses no write from before it and leaves a database the old version
\* can read (installer/update.py, migrations/__init__.py): of any releases with
\* any number of migrations, any number of versions and snapshots kept, whatever
\* fails and whenever the daemon or the command dies.
THEOREM UpdatesAreSafe == RecordsSpec => []UpdateIsSafe
<1>1. ReleaseInv => UpdateIsSafe
  BY InstallKeeps DEF ReleaseInv, UpdateIsSafe
<1> QED
  BY <1>1, ReleaseInvKept, PTL

\* No step undoes a decision on a setting, lowers an offer to a seller, marks a
\* link the rail did not take, drops a live nonce, skips an event that came
\* between the two reads of a poll, warns twice in one run of failures or gives
\* an all-clear that was not earned, or ends an update without the agent it had
\* stopped: of parts of any size.
THEOREM StepsStayKept == RecordsSpec => StepsAreKept
<1> DEFINE Kept == /\ part = "settings" => Config!DecidedOnce
                   /\ part = "buying" => Buying!NeverLowers
                   /\ part = "crosslist" => Fanout!MarkerIsAccepted
                   /\ part = "binding" => Binding!NonceIsHonoured
                   /\ part = "tail" => WebTail!MidRequestIsKept
                   /\ part = "watch" => Watch!OneWarningARun /\ Watch!BackIsEarned
                   /\ part = "release" => Install!AgentComesBack
           Invs == SettingInv /\ DealInv /\ ListingInv /\ BindingInv /\ OnceInv /\ WatchInv /\ ReleaseInv
<1>1. Invs /\ [RecordsNext]_<<vars, part, Shared>> => [Kept]_<<part, Shared>>
  <2> SUFFICES ASSUME Invs, [RecordsNext]_<<vars, part, Shared>>
               PROVE  Kept
    OBVIOUS
  <2>1. part = "settings" => Config!DecidedOnce
    BY PartStep, ConfigStep DEF SettingInv
  <2>2. part = "buying" => Buying!NeverLowers
    BY PartStep, BuyingStep DEF DealInv
  <2>3. part = "crosslist" => Fanout!MarkerIsAccepted
    BY PartStep, FanoutStep DEF ListingInv
  <2>4. part = "binding" => Binding!NonceIsHonoured
    BY PartStep, BindingStep DEF BindingInv
  <2>5. part = "tail" => WebTail!MidRequestIsKept
    BY PartStep, TailSkipsNone DEF OnceInv
  <2>6. part = "watch" => Watch!OneWarningARun /\ Watch!BackIsEarned
    BY PartStep, WatchStep DEF WatchInv
  <2>7. part = "release" => Install!AgentComesBack
    BY PartStep, InstallStep DEF ReleaseInv
  <2> QED
    BY <2>1, <2>2, <2>3, <2>4, <2>5, <2>6, <2>7
<1>2. RecordsSpec => []Invs
  BY SettingInvKept, DealInvKept, ListingInvKept, BindingInvKept, OnceInvKept, WatchInvKept,
     ReleaseInvKept, PTL
<1>3. StepsAreKept <=> [][Kept]_<<part, Shared>>
  BY DEF StepsAreKept
<1> HIDE DEF Kept, Invs
<1> QED
  BY <1>1, <1>2, <1>3, PTL DEF RecordsSpec

\* What TypesOK follows from: the shapes, part by part.
ShapesInv == /\ part = "settings" => ConfigShapes
             /\ part = "buying" => Buying!TypeOK
             /\ part = "checkout" => GateShapes
             /\ part = "crosslist" => Fanout!TypeOK
             /\ part = "adoption" => TakingShapes
             /\ part = "release" => InstallShapes
             /\ part = "binding" => BindingShapes
             /\ part = "connect" => ConnectShapes
             /\ part = "tail" => WebTail!TypeOK
             /\ part = "lanes" => LanesShapes
             /\ part = "selectors" => MemoryShapes
             /\ part = "watch" => Watch!TypeOK
             /\ part = "proactive" => RemindingShapes
             /\ part = "control" => ControlShapes
\* And what the parts keep besides.
PartsInv == /\ SettingInv /\ DealInv /\ ListingInv /\ BindingInv /\ OnceInv /\ WatchInv /\ ReleaseInv
            /\ TranscriptInv

LEMMA PartsInvKept == RecordsSpec => []PartsInv
  BY SettingInvKept, DealInvKept, ListingInvKept, BindingInvKept, OnceInvKept, WatchInvKept,
     ReleaseInvKept, TranscriptInvKept, PTL DEF PartsInv

LEMMA ShapesInit ==
  ASSUME RecordsInit
  PROVE  ShapesInv
<1>1. /\ part = "settings" => ConfigShapes
      /\ part = "binding" => BindingShapes
      /\ part = "connect" => ConnectShapes
      /\ part = "release" => InstallShapes
  BY PartInit, ConfigShapesInit, BindingShapesInit, ConnectShapesInit, InstallShapesInit
<1>2. /\ part = "buying" => Buying!TypeOK
      /\ part = "checkout" => GateShapes
      /\ part = "crosslist" => Fanout!TypeOK
      /\ part = "adoption" => TakingShapes
  BY PartInit, BuyingTypesInit, GateTypesInit, FanoutTypesInit, TakingShapesInit
<1>3. /\ part = "tail" => WebTail!TypeOK
      /\ part = "lanes" => LanesShapes
      /\ part = "proactive" => RemindingShapes
      /\ part = "control" => ControlShapes
  BY PartInit, EventTypesInit, LanesTypesInit, RemindingTypesInit, ControlTypesInit
<1>4. /\ part = "selectors" => MemoryShapes
      /\ part = "watch" => Watch!TypeOK
  BY PartInit, MemoryTypesInit, WatchTypesInit
<1> QED
  BY <1>1, <1>2, <1>3, <1>4 DEF ShapesInv

LEMMA ShapesStep ==
  ASSUME PartsInv, PartsInv', ShapesInv, [RecordsNext]_<<vars, part, Shared>>
  PROVE  ShapesInv'
<1>0. part' = part
  BY PartStep
<1>1. ASSUME part = "settings"
      PROVE  ConfigShapes'
  <2>1. Config!IInv /\ Config!IInv' /\ ConfigShapes
    BY <1>0, <1>1 DEF PartsInv, SettingInv, ShapesInv
  <2> QED
    BY <1>1, <2>1, PartStep, ConfigShapesStep
<1>2. ASSUME part = "buying"
      PROVE  Buying!TypeOK'
  <2>1. Buying!IInv /\ Buying!IInv' /\ Buying!TypeOK
    BY <1>0, <1>2 DEF PartsInv, DealInv, ShapesInv
  <2> QED
    BY <1>2, <2>1, PartStep, BuyingTypes
<1>3. ASSUME part = "checkout"
      PROVE  GateShapes'
  <2>1. Gate!IInv /\ Gate!IInv' /\ GateShapes
    BY <1>0, <1>3 DEF PartsInv, DealInv, ShapesInv
  <2> QED
    BY <1>3, <2>1, PartStep, GateTypes
<1>4. ASSUME part = "crosslist"
      PROVE  Fanout!TypeOK'
  <2>1. Fanout!IInv /\ Fanout!IInv' /\ Fanout!TypeOK
    BY <1>0, <1>4 DEF PartsInv, ListingInv, ShapesInv
  <2> QED
    BY <1>4, <2>1, PartStep, FanoutTypes
<1>5. ASSUME part = "adoption"
      PROVE  TakingShapes'
  <2>1. Taking!IInv /\ Taking!IInv' /\ TakingShapes
    BY <1>0, <1>5 DEF PartsInv, ListingInv, ShapesInv
  <2> QED
    BY <1>5, <2>1, PartStep, TakingShapesStep
<1>6. ASSUME part = "release"
      PROVE  InstallShapes'
  <2>1. Install!IInv /\ InstallShapes
    BY <1>6 DEF PartsInv, ReleaseInv, ShapesInv
  <2> QED
    BY <1>6, <2>1, PartStep, InstallShapesStep
<1>7. ASSUME part = "binding"
      PROVE  BindingShapes'
  <2>1. Binding!IInv /\ Binding!IInv' /\ BindingShapes
    BY <1>0, <1>7 DEF PartsInv, BindingInv, ShapesInv
  <2> QED
    BY <1>7, <2>1, PartStep, BindingShapesStep
<1>8. ASSUME part = "connect"
      PROVE  ConnectShapes'
  <2>1. Connecting!IInv /\ ConnectShapes
    BY <1>8 DEF PartsInv, WatchInv, ShapesInv
  <2> QED
    BY <1>8, <2>1, PartStep, ConnectShapesStep
<1>9. ASSUME part = "tail"
      PROVE  WebTail!TypeOK'
  <2>1. WebTail!IInv /\ WebTail!IInv' /\ WebTail!TypeOK
    BY <1>0, <1>9 DEF PartsInv, OnceInv, ShapesInv
  <2> QED
    BY <1>9, <2>1, PartStep, EventTypes
<1>10. ASSUME part = "lanes"
       PROVE  LanesShapes'
  <2>1. LanesShapes
    BY <1>10 DEF ShapesInv
  <2> QED
    BY <1>10, <2>1, PartStep, LanesTypes
<1>11. ASSUME part = "selectors"
       PROVE  MemoryShapes'
  <2>1. Memory!IInv /\ Memory!IInv' /\ MemoryShapes
    BY <1>0, <1>11 DEF PartsInv, WatchInv, ShapesInv
  <2> QED
    BY <1>11, <2>1, PartStep, MemoryTypes
<1>12. ASSUME part = "watch"
       PROVE  Watch!TypeOK'
  <2>1. Watch!IInv /\ Watch!IInv' /\ Watch!TypeOK
    BY <1>0, <1>12 DEF PartsInv, WatchInv, ShapesInv
  <2> QED
    BY <1>12, <2>1, PartStep, WatchTypes
<1>13. ASSUME part = "proactive"
       PROVE  RemindingShapes'
  <2>1. Reminding!IInv /\ Reminding!IInv' /\ RemindingShapes
    BY <1>0, <1>13 DEF PartsInv, OnceInv, ShapesInv
  <2> QED
    BY <1>13, <2>1, PartStep, RemindingTypes
<1>14. ASSUME part = "control"
       PROVE  ControlShapes'
  <2>1. Control!IInv /\ Control!IInv' /\ ControlShapes
    BY <1>0, <1>14 DEF PartsInv, OnceInv, ShapesInv
  <2> QED
    BY <1>14, <2>1, PartStep, ControlTypes
<1> QED
  BY <1>0, <1>1, <1>2, <1>3, <1>4, <1>5, <1>6, <1>7, <1>8, <1>9, <1>10, <1>11, <1>12, <1>13, <1>14
     DEF ShapesInv

LEMMA ShapesType ==
  ASSUME PartsInv, ShapesInv, TypeOK
  PROVE  TypesOK
<1>1. /\ part = "transcript" => Transcript!TypeOK
      /\ part = "settings" => Config!TypeOK
      /\ part = "binding" => Binding!TypeOK
      /\ part = "connect" => Connecting!TypeOK
      /\ part = "release" => Install!TypeOK
      /\ part = "adoption" => Taking!TypeOK
  BY TranscriptTypes, ConfigShapesType, BindingShapesType, ConnectShapesType, InstallShapesType,
     TakingShapesType
     DEF PartsInv, TranscriptInv, SettingInv, BindingInv, WatchInv, ReleaseInv, ListingInv, ShapesInv
<1>2. /\ part = "buying" => Buying!TypeOK
      /\ part = "checkout" => Gate!TypeOK
      /\ part = "crosslist" => Fanout!TypeOK
      /\ part = "tail" => WebTail!TypeOK
      /\ part = "lanes" => Lanes!TypeOK
      /\ part = "selectors" => Memory!TypeOK
      /\ part = "watch" => Watch!TypeOK
      /\ part = "proactive" => Reminding!TypeOK
      /\ part = "control" => Control!TypeOK
  BY DEF ShapesInv, GateShapes, LanesShapes, MemoryShapes, RemindingShapes, ControlShapes
<1> QED
  BY <1>1, <1>2 DEF TypesOK

\* Every variable of every part keeps its shape and stays within its bounds: of a
\* sale and of parts of any size, from the cursor of a channel that goes no further
\* than the last message there is, to the clock of an install, which has room for
\* what a command is still to stamp.
THEOREM TypesStayOK == RecordsSpec => []TypesOK
<1>1. RecordsInit => ShapesInv
  BY ShapesInit
<1>2. PartsInv /\ PartsInv' /\ ShapesInv /\ [RecordsNext]_<<vars, part, Shared>> => ShapesInv'
  BY ShapesStep
<1>3. PartsInv /\ ShapesInv /\ TypeOK => TypesOK
  BY ShapesType
<1> QED
  BY <1>1, <1>2, <1>3, PartsInvKept, SaleIsNegotiation, TypeCorrect, PTL DEF RecordsSpec

=============================================================================
