----------------------------- MODULE Selectors -----------------------------
(* Finding one control of a marketplace page for a send                      *)
(* (browser/selectors.py, DaemonBrowserSink._locate, the ui_cache methods of *)
(* store/items.py): a remembered selector is tried before the one that       *)
(* shipped, and each must match one visible element of the page it names.    *)
(* The page changes, and passes and the seller's sessions rewrite the memory *)
(* while a send is looking.                                                  *)
EXTENDS Integers, Sequences

CONSTANTS
  Targets,
  ShippedTarget,
  NoTarget,        \* what a text selector resolves to: nothing to act on
  Pages,
  ThreadPage,      \* the page a send navigates to, and the guard that shipped
  StaleFails, StaleAge

SelectorsAssumption ==
  /\ ShippedTarget \in Targets /\ NoTarget \notin Targets /\ ThreadPage \in Pages
  /\ StaleFails \in Nat \ {0} /\ StaleAge \in Nat

VARIABLES
  row,      \* ui_cache row of the control
  page,     \* where the tab is, and how many visible elements each target matches
  todo,     \* candidates the send under way has left to probe
  outcome,  \* of the last send
  tried,    \* targets it probed
  misses    \* probes of a remembered selector that missed since it was recorded

vars == <<row, page, todo, outcome, tried, misses>>

Selector == [target : Targets \cup {NoTarget}, guard : Pages]
Shipped == [target |-> ShippedTarget, guard |-> ThreadPage]
NoRow == [selector |-> Shipped, fails |-> -1, age |-> 0]
Page == [at : Pages, hits : [Targets -> 0..2]]

Init == /\ row = NoRow /\ page \in Page /\ todo = <<>> /\ outcome = "none"
        /\ tried = {} /\ misses = 0

\* ui_cache_is_stale
Stale(r) == r.fails >= StaleFails \/ r.age > StaleAge

\* A variant of Candidates.
CandidatesHealOnly(r) ==
  IF r # NoRow /\ ~Stale(r) /\ r.selector.target # NoTarget
    THEN <<[selector |-> r.selector, source |-> "cache"]>>
    ELSE <<[selector |-> Shipped, source |-> "shipped"]>>

\* candidates: the shipped selector is left out when its target is there already
Candidates(r) ==
  LET heal == IF r # NoRow /\ ~Stale(r) /\ r.selector.target # NoTarget
                THEN <<[selector |-> r.selector, source |-> "cache"]>> ELSE <<>>
  IN  IF heal # <<>> /\ r.selector.target = ShippedTarget THEN heal
      ELSE Append(heal, [selector |-> Shipped, source |-> "shipped"])

\* probe and usable: the right page, and exactly one visible match
Usable(s) == page.at = s.guard /\ page.hits[s.target] = 1

Begin == /\ todo = <<>>
         /\ todo' = Candidates(row) /\ outcome' = "looking" /\ tried' = {}
         /\ UNCHANGED <<row, page, misses>>

Probed(s) == tried' = tried \cup {s.target}

Found == /\ todo # <<>> /\ Usable(Head(todo).selector)
         /\ Probed(Head(todo).selector) /\ todo' = <<>> /\ outcome' = "found"
         /\ UNCHANGED <<row, page, misses>>

\* A variant of CountMiss.
CountMissOfLast(source) ==
  IF source = "cache"
    THEN /\ misses' = misses + 1
         /\ row' = IF row = NoRow \/ Len(todo) > 1 THEN row ELSE [row EXCEPT !.fails = @ + 1]
    ELSE UNCHANGED <<row, misses>>

\* _miss and ui_cache_fail, which names the step and not the selector it was tried with
CountMiss(source) ==
  IF source = "cache" /\ row # NoRow
    THEN misses' = misses + 1 /\ row' = [row EXCEPT !.fails = @ + 1]
    ELSE UNCHANGED <<row, misses>>

\* a miss goes on to the next candidate; after the last the send was not attempted
Missed == /\ todo # <<>> /\ ~Usable(Head(todo).selector)
          /\ Probed(Head(todo).selector) /\ CountMiss(Head(todo).source)
          /\ todo' = Tail(todo) /\ outcome' = IF Len(todo) = 1 THEN "gave_up" ELSE "looking"
          /\ UNCHANGED page

\* BrowserError from a probe, or the daemon going down
Broken == /\ todo # <<>> /\ todo' = <<>> /\ outcome' = "error"
          /\ UNCHANGED <<row, page, tried, misses>>

\* ui_cache_record, which nothing makes a caller verify first
Record(s) == /\ row' = [selector |-> s, fails |-> 0, age |-> 0] /\ misses' = 0
             /\ UNCHANGED <<page, todo, outcome, tried>>

\* ui_cache_invalidate
Invalidate == /\ row # NoRow /\ row' = NoRow /\ misses' = 0
              /\ UNCHANGED <<page, todo, outcome, tried>>

GrowOld == /\ row # NoRow /\ row.age <= StaleAge /\ row' = [row EXCEPT !.age = @ + 1]
           /\ UNCHANGED <<page, todo, outcome, tried, misses>>

PageMoves(p) == page' = p /\ UNCHANGED <<row, todo, outcome, tried, misses>>

Next == \/ Begin \/ Found \/ Missed \/ Broken \/ Invalidate \/ GrowOld
        \/ \E s \in Selector : Record(s)
        \/ \E p \in Page : PageMoves(p)

Spec == Init /\ [][Next]_vars

-----------------------------------------------------------------------------
TypeOK ==
  /\ row \in [selector : Selector, fails : -1..StaleFails, age : 0..(StaleAge + 1)]
  /\ page \in Page /\ Len(todo) <= 2 /\ misses \in Nat
  /\ \A i \in DOMAIN todo : todo[i] \in [selector : Selector, source : {"cache", "shipped"}]
  /\ outcome \in {"none", "looking", "found", "gave_up", "error"}
  /\ tried \subseteq Targets

(* A heal that has gone bad is retired on its own: however the page moves and *)
(* whichever candidate then works, it misses at most StaleFails times before  *)
(* it is recorded again ("Three failures retire it").                         *)
BadHealRetires == misses <= StaleFails

(* No send gives up without having probed the target that shipped, whatever   *)
(* the memory holds and however it is rewritten meanwhile.                    *)
ShippedHasItsTurn == outcome = "gave_up" => ShippedTarget \in tried

\* What every step keeps.  The row counts the misses since it was recorded, and
\* has room for one more while a look that started from it has not tried it;
\* a look ends with the target that shipped.
MissesAreCounted == IF row = NoRow THEN misses = 0 ELSE row.fails = misses
RoomForAMiss == todo # <<>> /\ todo[1].source = "cache" => misses < StaleFails
ShippedIsLast ==
  /\ Len(todo) = 1 => todo[1].selector.target = ShippedTarget
  /\ Len(todo) = 2 => todo[2].source = "shipped" /\ todo[2].selector.target = ShippedTarget
IInv == /\ row \in [selector : Selector, fails : Int, age : Nat] /\ misses \in 0..StaleFails
        /\ todo \in Seq([selector : Selector, source : {"cache", "shipped"}]) /\ Len(todo) <= 2
        /\ row # NoRow => row.fails >= 0
        /\ MissesAreCounted /\ RoomForAMiss /\ ShippedIsLast /\ ShippedHasItsTurn
=============================================================================
