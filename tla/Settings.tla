------------------------------ MODULE Settings ------------------------------
(* The seller's runtime settings: what the model may propose, what the seller *)
(* decides through a button, a typed token or a terminal, the ledger of       *)
(* changes with its approval, expiry and undo (settings.py, store/settings.py)*)
(* and the region, which decides where a listing may go.  A proposal and a    *)
(* direct change read the setting first and write in a transaction later;     *)
(* the decisions are one transaction each.                                    *)
EXTENDS Naturals, FiniteSets

CONSTANTS Keys,      \* settings; RequiresApproval and watch_browser are told apart
          Changes,   \* how many changes there are; numbered in order of creation
          Markets,   \* marketplaces with an adapter
          Regions,
          Sites,     \* the marketplaces that serve each region
          Actors     \* calls that may be under way at a time

SettingsAssumption ==
    Changes \in Nat /\ "crosslist_markets" \in Keys /\ Sites \in [Regions -> SUBSET Markets] /\ "none" \notin Regions

VARIABLES value,   \* effective value of each setting
          change,  \* pending_setting_changes
          region,  \* of the section basics, or none
          actor    \* calls between their read and their write

vars == <<value, change, region, actor>>

\* settings the model may only propose; the others apply at once
RequiresApproval == {"quiet_hours", "crosslist_markets"}

\* what the parsers of the registry return, a switch being {} or {"on"}; what
\* they refuse changes nothing.  Every setting is off by default.
Parsed(k) == IF k = "crosslist_markets" THEN SUBSET Markets ELSE SUBSET {"on"}

\* where an adapter and a recipe serve the region
Publishable == IF region = "none" THEN {} ELSE Sites[region]
\* _check_crosslist_markets
CheckForSeller(k, v) ==
    k = "crosslist_markets" => region # "none" /\ v \subseteq Publishable

\* A variant of Enabled.
EnabledStored == value["crosslist_markets"]

\* settings.crosslist_markets: where the flows may list now
Enabled == value["crosslist_markets"] \cap Publishable

Blank == [status |-> "none", key |-> "none", value |-> {}, prior |-> {}, via |-> "none",
          stale |-> FALSE, at |-> 0]
Idle == [via |-> "none", key |-> "none", value |-> {}, prior |-> {}]

Init == /\ value = [k \in Keys |-> {}] /\ region = "none"
        /\ change = [i \in 1..Changes |-> Blank] /\ actor = [a \in Actors |-> Idle]

Free == {i \in 1..Changes : change[i].status = "none"}
New == CHOOSE i \in Free : \A j \in Free : i <= j
Of(k, status) == {i \in 1..Changes : change[i].key = k /\ change[i].status = status}
\* the order in which changes were applied
Tick == 1 + Cardinality({i \in 1..Changes : change[i].at > 0})

-----------------------------------------------------------------------------
(* Proposals of the model, and changes the seller makes outright.            *)

\* propose_setting_change, set_now from the terminal, and the watch button up to
\* their read of the current value
Begin(a, k, v, via) ==
    /\ actor[a].via = "none" /\ v # value[k] /\ CheckForSeller(k, v)
    /\ actor' = [actor EXCEPT ![a] = [via |-> via, key |-> k, value |-> v, prior |-> value[k]]]
    /\ UNCHANGED <<value, change, region>>

\* the terminal sets a value outright
SetOutright(a, k, v) == Begin(a, k, v, "cli")

\* the watch button flips what is set when it lands
WatchToggle(a) == /\ "watch_browser" \in Keys
                  /\ Begin(a, "watch_browser",
                           IF value["watch_browser"] = {} THEN {"on"} ELSE {}, "button")

\* A variant of Held.
HeldNever(call) == FALSE

\* the daemon, not the model, decides by the policy of the key
Held(call) == call.via = "tool" /\ call.key \in RequiresApproval

\* A variant of Superseded.
SupersededOlder(k) == [i \in 1..Changes |->
    IF i \in Of(k, "pending") /\ change[i].stale THEN [change[i] EXCEPT !.status = "superseded"]
                                                 ELSE change[i]]

\* _supersede_pending_in_txn
Superseded(k) == [i \in 1..Changes |->
    IF i \in Of(k, "pending") THEN [change[i] EXCEPT !.status = "superseded"] ELSE change[i]]

\* store.propose_setting_change
Hold(a) ==
    LET call == actor[a] IN
    /\ call.via # "none" /\ Held(call) /\ Free # {}
    /\ change' = [Superseded(call.key) EXCEPT ![New] =
                    [Blank EXCEPT !.status = "pending", !.key = call.key, !.value = call.value,
                                  !.prior = call.prior]]
    /\ actor' = [actor EXCEPT ![a] = Idle] /\ UNCHANGED <<value, region>>

\* store.apply_setting_now
ApplyNow(a) ==
    LET call == actor[a] IN
    /\ call.via # "none" /\ ~Held(call) /\ Free # {}
    /\ change' = [Superseded(call.key) EXCEPT ![New] =
                    [status |-> "applied", key |-> call.key, value |-> call.value,
                     prior |-> call.prior, via |-> IF call.via = "tool" THEN "auto" ELSE call.via,
                     stale |-> FALSE, at |-> Tick]]
    /\ value' = [value EXCEPT ![call.key] = call.value]
    /\ actor' = [actor EXCEPT ![a] = Idle] /\ UNCHANGED region

-----------------------------------------------------------------------------
(* The doors.  They stay open for ever: buttons live in the scrollback.      *)

\* _decide_pending_in_txn
Decided(i, status, via) == [change[i] EXCEPT !.status = status, !.via = via]

\* approve_setting_change: the row is still pending, and young enough
Approve(i, via) ==
    /\ change[i].status = "pending"
    /\ IF change[i].stale
         THEN change' = [change EXCEPT ![i] = Decided(i, "expired", "none")] /\ UNCHANGED value
         ELSE /\ change' = [change EXCEPT ![i] = [Decided(i, "applied", via) EXCEPT !.at = Tick]]
              /\ value' = [value EXCEPT ![change[i].key] = change[i].value]
    /\ UNCHANGED <<region, actor>>

\* A variant of Cancel.
CancelAny(i, via) ==
    /\ change[i].status # "none"
    /\ change' = [change EXCEPT ![i] = Decided(i, IF change[i].stale THEN "expired" ELSE "cancelled",
                                               IF change[i].stale THEN "none" ELSE via)]
    /\ UNCHANGED <<value, region, actor>>

Cancel(i, via) ==
    /\ change[i].status = "pending"
    /\ change' = [change EXCEPT ![i] = Decided(i, IF change[i].stale THEN "expired" ELSE "cancelled",
                                               IF change[i].stale THEN "none" ELSE via)]
    /\ UNCHANGED <<value, region, actor>>

\* A variant of Undo.
UndoInPlace(i, via) ==
    /\ change[i].status = "applied" /\ value[change[i].key] = change[i].value /\ Free # {}
    /\ value' = [value EXCEPT ![change[i].key] = change[i].prior]
    /\ UNCHANGED <<change, region, actor>>

\* undo_setting_change: while the stored value is still the one it set
Undo(i, via) ==
    LET k == change[i].key IN
    /\ change[i].status = "applied" /\ value[k] = change[i].value /\ Free # {}
    /\ change' = [change EXCEPT ![New] =
                    [status |-> "applied", key |-> k, value |-> change[i].prior,
                     prior |-> change[i].value, via |-> via, stale |-> FALSE, at |-> Tick]]
    /\ value' = [value EXCEPT ![k] = change[i].prior]
    /\ UNCHANGED <<region, actor>>

\* settings.decide, which every door goes through
Decide(i, via) == Approve(i, via) \/ Cancel(i, via) \/ Undo(i, via)

\* a button of the scrollback, or a text of just a verb and a change's id
ChatDoor(i) == Decide(i, "button") \/ Decide(i, "token")

\* the same from a terminal, over the control server
Terminal(i) == Decide(i, "cli")

\* PROPOSAL_TTL_SEC goes by
GrowStale(i) ==
    /\ change[i].status = "pending" /\ ~change[i].stale
    /\ change' = [change EXCEPT ![i].stale = TRUE] /\ UNCHANGED <<value, region, actor>>

\* expire_stale_proposals
Expire ==
    /\ change' = [i \in 1..Changes |-> IF change[i].status = "pending" /\ change[i].stale
                                       THEN Decided(i, "expired", "none") ELSE change[i]]
    /\ UNCHANGED <<value, region, actor>>

\* the basics, from the installer or the model
SetRegion(r) == region' = r /\ UNCHANGED <<value, change, actor>>

Next == \/ \E a \in Actors :
              \/ Hold(a) \/ ApplyNow(a) \/ WatchToggle(a)
              \/ \E k \in Keys : \E v \in Parsed(k) : Begin(a, k, v, "tool") \/ SetOutright(a, k, v)
        \/ \E i \in 1..Changes : GrowStale(i) \/ ChatDoor(i) \/ Terminal(i)
        \/ Expire \/ \E r \in Regions : SetRegion(r)

Spec == Init /\ [][Next]_vars

-----------------------------------------------------------------------------
Statuses == {"none", "pending", "applied", "cancelled", "superseded", "expired"}
TypeOK ==
    /\ \A k \in Keys : value[k] \in Parsed(k)
    /\ \A i \in 1..Changes :
          /\ change[i].status \in Statuses /\ change[i].at \in 0..Changes
          /\ change[i].status # "none" => /\ change[i].key \in Keys
                                          /\ change[i].value \in Parsed(change[i].key)
                                          /\ change[i].prior \in Parsed(change[i].key)
    /\ region \in Regions \cup {"none"}
    /\ \A a \in Actors : actor[a].via # "none" => actor[a].value \in Parsed(actor[a].key)

(* The ledger explains the setting: the value in force is that of the change *)
(* applied last, whichever doors, undos and direct changes raced, and one    *)
(* that needs approval was applied by the seller ("the LLM may only propose",*)
(* settings.py).                                                             *)
SellerDecides ==
    \A k \in Keys :
       LET applied == Of(k, "applied") IN
       /\ applied = {} => value[k] = {}
       /\ \A i \in applied :
             /\ (\A j \in applied : change[j].at <= change[i].at) => value[k] = change[i].value
             /\ k \in RequiresApproval => change[i].via # "auto"

(* One question at a time: a setting never has two live proposals, so an old *)
(* button cannot apply what a newer proposal replaced.                       *)
OneProposal == \A k \in Keys : Cardinality(Of(k, "pending")) <= 1

(* Of a step.  A decision is final: a tap, a typed token, the terminal and the sweep race *)
(* for one row, and an expired, cancelled or superseded change never applies. *)
DecidedOnce ==
    \A i \in 1..Changes :
       change[i].status \notin {"none", "pending"} => change'[i] = change[i]

(* A market approved earlier and unavailable since, because the region moved *)
(* between the proposal and the tap or after it, is never listed on.         *)
EnabledServes == region # "none" => Enabled \subseteq Sites[region]

\* What every step keeps.  The changes that apply are numbered in the order they
\* were applied, none above their count, so that the next one is the newest;
\* a call under way names a setting.
Stamped == {i \in 1..Changes : change[i].at > 0}
StampsAreInOrder == \A i \in 1..Changes :
  /\ change[i].at \in 0..Cardinality(Stamped)
  /\ change[i].at > 0 <=> change[i].status = "applied"
OnePending == \A i, j \in 1..Changes :
  change[i].status = "pending" /\ change[j].status = "pending" /\ change[i].key = change[j].key => i = j
Row == [status : Statuses, key : Keys \cup {"none"}, value : SUBSET (Markets \cup {"on"}),
        prior : SUBSET (Markets \cup {"on"}), via : {"none", "auto", "button", "token", "cli"},
        stale : BOOLEAN, at : Nat]
Call == [via : {"none", "tool", "button", "cli"}, key : Keys \cup {"none"},
         value : SUBSET (Markets \cup {"on"}), prior : SUBSET (Markets \cup {"on"})]
IInv == /\ change \in [1..Changes -> Row] /\ actor \in [Actors -> Call]
        /\ value \in [Keys -> SUBSET (Markets \cup {"on"})]
        /\ \A i \in 1..Changes : change[i].status # "none" => change[i].key \in Keys
        /\ \A a \in Actors : actor[a].via # "none" => actor[a].key \in Keys
        /\ StampsAreInOrder /\ OnePending /\ SellerDecides
=============================================================================
