----------------------------- MODULE Scheduler -----------------------------
(* The daemon's task lanes (scheduler.py): one loop claims what is due, a   *)
(* small executor runs it, a failure arms a backoff that doubles up to a    *)
(* cap.  Channel providers take their lanes off and put lanes of the same   *)
(* names back while runs are under way.                                     *)
EXTENDS Naturals, FiniteSets

CONSTANTS Names, Workers,  \* MAX_WORKERS
          MaxRegs,         \* bound on the registrations of a name
          MaxFails,        \* bound on consecutive failures
          Overflow         \* the failures at which 5.0 * 2 ** (n - 1) no longer fits a float

SchedulerAssumption ==
  Workers \in Nat \ {0} /\ MaxRegs \in Nat /\ MaxFails \in Nat /\ Overflow \in Nat

VARIABLES
  on,     \* the names registered
  gen,    \* how often each name was registered so far
  st,     \* _TaskState of each name; unsaid: its last mark's run ended before task.start
  runs    \* the runs submitted, and where each is

vars == <<on, gen, st, runs>>

Fresh == [due |-> TRUE, backed |-> FALSE, running |-> FALSE, fails |-> 0,
          unsaid |-> FALSE]

Init == /\ on = {} /\ gen = [n \in Names |-> 0] /\ st = [n \in Names |-> Fresh] /\ runs = {}

\* register: the state is replaced, due at once.
Register(n) == /\ gen[n] < MaxRegs /\ gen' = [gen EXCEPT ![n] = @ + 1]
               /\ on' = on \cup {n} /\ st' = [st EXCEPT ![n] = Fresh]
               /\ UNCHANGED runs

Deregister(n) == /\ n \in on /\ on' = on \ {n}
                 /\ st' = [st EXCEPT ![n] = Fresh] /\ UNCHANGED <<gen, runs>>

\* The clock reaches next_due, or backoff_until.
Time(n) == /\ n \in on
           /\ \/ ~st[n].due /\ st' = [st EXCEPT ![n].due = TRUE]
              \/ st[n].backed /\ st' = [st EXCEPT ![n].backed = FALSE]
           /\ UNCHANGED <<on, gen, runs>>

\* A variant of Due.
DueAnyway == {n \in on : st[n].due /\ ~st[n].backed}

Due == {n \in on : ~st[n].running /\ st[n].due /\ ~st[n].backed}

Unused(n) == CHOOSE i \in 1..(Cardinality(runs) + 1) :
               \A r \in runs : r.name = n => r.id # i

\* tick, _claim_due: everything due, under the lock, to the executor's queue
Tick == /\ Due # {}
        /\ st' = [n \in Names |-> IF n \in Due THEN [st[n] EXCEPT !.running = TRUE, !.due = FALSE,
                                                               !.unsaid = FALSE]
                                  ELSE st[n]]
        /\ runs' = runs \cup {[name |-> n, id |-> Unused(n), at |-> "queued"] : n \in Due}
        /\ UNCHANGED <<on, gen>>

Free(r) == r.at = "queued" /\ Cardinality({q \in runs : q.at = "running"}) < Workers

\* A worker takes a run up.
Begin(r) == /\ r \in runs /\ Free(r)
            /\ runs' = (runs \ {r}) \cup {[r EXCEPT !.at = "running"]}
            /\ UNCHANGED <<on, gen, st>>

\* task.start is a row of the database, published before the try: when that
\* raises, the run is over, and the error is in a future nobody reads.
StartUnsaid(r) == /\ r \in runs /\ Free(r) /\ runs' = runs \ {r}
                  /\ st' = IF r.name \notin on THEN st ELSE [st EXCEPT ![r.name].unsaid = TRUE]
                  /\ UNCHANGED <<on, gen>>

\* A variant of Succeed.
SucceedSilently(r) == /\ r \in runs /\ r.at = "running" /\ runs' = runs \ {r}
                      /\ UNCHANGED <<on, gen, st>>

\* _run_task, whichever registration the name stands for by now
Succeed(r) == /\ r \in runs /\ r.at = "running" /\ runs' = runs \ {r}
              /\ st' = IF r.name \notin on THEN st
                       ELSE [st EXCEPT ![r.name].fails = 0, ![r.name].backed = FALSE,
                                       ![r.name].running = FALSE]
              /\ UNCHANGED <<on, gen>>

\* A failure is counted, then the delay computed, then the run given up: the
\* delay of one failure too many raises, and the rest is not reached.
Fail(r) == LET fails == st[r.name].fails + 1 IN
  /\ r \in runs /\ r.at = "running" /\ fails <= MaxFails /\ runs' = runs \ {r}
  /\ st' = IF r.name \notin on THEN st
           ELSE IF fails >= Overflow THEN [st EXCEPT ![r.name].fails = fails]
           ELSE [st EXCEPT ![r.name].fails = fails, ![r.name].backed = TRUE,
                           ![r.name].running = FALSE]
  /\ UNCHANGED <<on, gen>>

Next == \/ \E n \in Names : Register(n) \/ Deregister(n) \/ Time(n)
        \/ Tick
        \/ \E r \in runs : Begin(r) \/ StartUnsaid(r) \/ Succeed(r) \/ Fail(r)

Spec == Init /\ [][Next]_vars
------------------------------------------------------------------------------

TypeOK == /\ on \subseteq Names /\ gen \in [Names -> 0..MaxRegs]
          /\ st \in [Names -> [due : BOOLEAN, backed : BOOLEAN, running : BOOLEAN,
                               fails : 0..MaxFails, unsaid : BOOLEAN]]
          /\ runs \subseteq [name : Names, id : Nat \ {0}, at : {"queued", "running"}]

\* A lane that stays registered has one run at most, queued or under way,
\* whatever its runs come to.
OneRunEach == \A n \in Names : gen[n] = 1 => Cardinality({r \in runs : r.name = n}) <= 1

HasRun(n) == \E r \in runs : r.name = n

\* A name stays marked without a run in two ways and no other, whatever runs of
\* it overlap: its start could not be said, or it failed once too often.
StrandedTwoWays ==
  \A n \in on : st[n].running => HasRun(n) \/ st[n].unsaid \/ st[n].fails >= Overflow

\* What every step keeps, and OneRunEach follows from.  A name registered once
\* is marked while it has a run, and Due leaves out what is marked.
MarkedWhileRunning ==
  \A n \in Names :
    /\ gen[n] = 0 => n \notin on /\ \A r \in runs : r.name # n
    /\ gen[n] = 1 => /\ \A r, q \in runs : r.name = n /\ q.name = n => r = q
                     /\ n \in on /\ ~st[n].running => \A r \in runs : r.name # n

IInv == /\ on \subseteq Names /\ gen \in [Names -> Nat]
        /\ st \in [Names -> [due : BOOLEAN, backed : BOOLEAN, running : BOOLEAN, fails : Nat,
                         unsaid : BOOLEAN]]
        /\ \A r \in runs : r \in [name : Names, id : {r.id}, at : {"queued", "running"}]
        /\ MarkedWhileRunning /\ StrandedTwoWays

=============================================================================
