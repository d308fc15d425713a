----------------------------- MODULE EventTail -----------------------------
(* The event record and the page that reads it: the store's append          *)
(* (events.py), the two-tier prune (retention.py) and the web tail, which   *)
(* polls /events.json with a cursor.                                        *)
EXTENDS Naturals, FiniteSets

CONSTANTS MaxEvents,  \* bound on events published
          Page        \* _PAGE_EVENTS

EventTailAssumption == MaxEvents \in Nat /\ Page \in Nat \ {0}

VARIABLES
  last,   \* the last seq given out: AUTOINCREMENT never reuses one
  kind,   \* the tier of each seq: "routine", "info", or "kept" (KEEP_KINDS)
  rows,   \* the seqs still in the table
  old,    \* those past their tier's cutoff
  tail,   \* the page: its cursor, and the ceiling of the request under way
  shown,  \* what the page has shown
  twice   \* seqs it got again

vars == <<last, kind, rows, old, tail, shown, twice>>

Seqs == 1..MaxEvents
Closed == [cursor |-> 0, ceiling |-> 0, at |-> "closed"]
Highest(s) == IF s = {} THEN 0 ELSE CHOOSE n \in s : \A m \in s : m <= n

Init == /\ last = 0 /\ kind = [n \in Seqs |-> "none"] /\ rows = {} /\ old = {}
        /\ tail = Closed /\ shown = {} /\ twice = {}

\* EventBus.publish, EventStore.record: the seq and the time are the store's.
Record(k) == /\ last < MaxEvents /\ last' = last + 1
             /\ kind' = [kind EXCEPT ![last + 1] = k] /\ rows' = rows \cup {last + 1}
             /\ UNCHANGED <<old, tail, shown, twice>>

\* Time: the older goes past its cutoff first, the routine ones sooner.
Grow(n) == /\ n \in rows \ old
           /\ \A m \in rows : m < n /\ kind[m] \in {kind[n], "routine"} => m \in old
           /\ old' = old \cup {n}
           /\ UNCHANGED <<last, kind, rows, tail, shown, twice>>

\* A variant of Expired.
ExpiredAll == old

\* delete_kinds_older_than, delete_older_than
Expired == {n \in old : kind[n] # "kept"}

\* run_retention
Prune == /\ Expired # {} /\ rows' = rows \ Expired /\ old' = old \ Expired
         /\ UNCHANGED <<last, kind, tail, shown, twice>>

\* latest_seq: the first of the two reads of a poll
Ceiling == /\ tail.at \in {"closed", "open"}
           /\ tail' = [tail EXCEPT !.ceiling = Highest(rows),
                                   !.at = IF tail.at = "closed" THEN "seed" ELSE "rows"]
           /\ UNCHANGED <<last, kind, rows, old, shown, twice>>

\* A variant of Due.
DueFrom == {n \in rows : kind[n] # "routine" /\ n >= tail.cursor /\ n <= tail.ceiling}

\* query_events
Due == {n \in rows : kind[n] # "routine" /\ n > tail.cursor /\ n <= tail.ceiling}

\* limit, newest
First(s) == {n \in s : Cardinality({m \in s : m <= n}) <= Page}
Newest(s) == {n \in s : Cardinality({m \in s : m >= n}) <= Page}

\* A variant of NextCursor.
NextCursorLatest == Highest(rows)

\* last_seq of the answer: the ceiling, or the cursor of an empty table
NextCursor == IF tail.ceiling # 0 THEN tail.ceiling ELSE tail.cursor

\* _handle_events_json: the newest page as it opens, the first page after that
Answer == /\ tail.at \in {"seed", "rows"}
          /\ LET page == IF tail.at = "seed" THEN Newest(Due) ELSE First(Due)
             IN shown' = shown \cup page /\ twice' = twice \cup (shown \cap page)
          /\ tail' = [cursor |-> NextCursor, ceiling |-> 0, at |-> "open"]
          /\ UNCHANGED <<last, kind, rows, old>>

Next == \/ \E k \in {"routine", "info", "kept"} : Record(k)
        \/ \E n \in Seqs : Grow(n)
        \/ Prune \/ Ceiling \/ Answer

Spec == Init /\ [][Next]_vars
------------------------------------------------------------------------------

TypeOK ==
  /\ last \in 0..MaxEvents /\ kind \in [Seqs -> {"none", "routine", "info", "kept"}]
  /\ rows \subseteq 1..last /\ old \subseteq rows
  /\ tail \in [cursor : 0..MaxEvents, ceiling : 0..MaxEvents,
               at : {"closed", "seed", "rows", "open"}]
  /\ shown \cup twice \subseteq 1..last

\* The page gets no event twice, though a prune can leave an older kept row as
\* the newest of the table and take the cursor back to it.
NeverTwice == twice = {}

\* A pass's outcome outlives every prune, whichever tier was cut and when.
OutcomesAreKept == \A n \in 1..last : kind[n] = "kept" => n \in rows

\* The rows an open page has yet to get.
Unread == {n \in rows : kind[n] # "routine" /\ n > tail.cursor}

\* Of a step.  Nothing that arrives between the two reads of a poll is skipped: what the
\* answer leaves out is still ahead of the cursor, unless a burst filled the page.
MidRequestIsKept ==
  tail.at = "rows" /\ tail'.at = "open" /\ Cardinality(Due) <= Page =>
    \A n \in Unread : n \in shown' \/ n > tail'.cursor

\* What every step keeps, and NeverTwice follows from.  A shown row that is
\* still in the table is behind the cursor, and behind the ceiling of the
\* request under way, which may become the cursor.
ShownIsBehind ==
  \A n \in rows \cap shown :
    n <= tail.cursor /\ (tail.at \in {"seed", "rows"} => n <= tail.ceiling)

IInv == /\ last \in 0..MaxEvents /\ kind \in [Seqs -> {"none", "routine", "info", "kept"}]
        /\ rows \subseteq 1..last /\ shown \subseteq 1..last
        /\ tail \in [cursor : Nat, ceiling : Nat, at : {"closed", "seed", "rows", "open"}]
        /\ ShownIsBehind /\ NeverTwice /\ OutcomesAreKept

=============================================================================
