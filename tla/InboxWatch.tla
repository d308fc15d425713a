---------------------------- MODULE InboxWatch ----------------------------
(* What the inbox lane opens and what it tells the seller about a market it  *)
(* cannot read (browser/inbox.py, browser/blindness.py).  A tick lists the   *)
(* conversations of each market, skips those that show nothing new, opens    *)
(* the others, and counts the reads that failed; all of its counters and     *)
(* once-guards live in the process and go with it.                           *)
EXTENDS Integers, FiniteSets

CONSTANTS
  Markets, Chats,
  BlindAfter,   \* browser_blind_after
  SweepEvery,   \* inbox_full_sweep_every
  GapWorth      \* GAP_WORTH_MENTIONING_SEC, and the bound on time counted

InboxWatchAssumption ==
  /\ BlindAfter \in Nat \ {0} /\ SweepEvery \in Nat \ {0} /\ GapWorth \in Nat

VARIABLES
  chat,        \* each conversation, on the list and in the store
  tick,        \* deps.ticks, modulo SweepEvery
  blind,       \* deps.blind, counted up to BlindAfter
  since,       \* age of deps.blind_since, -1 for none
  noted,       \* deps.notified
  unread,      \* listings since the last broken tick that left a new message unopened
  heard,       \* the last the seller was told of each market
  seen         \* whether the lane has seen the market since then

vars == <<chat, tick, blind, since, noted, unread, heard, seen>>

\* Status: one the lane reads, one it reads only to settle a send, one it leaves alone,
\* and a conversation of the list that has no thread yet.
\* alike: the preview on the list is the last text the store has.
Status == {"active", "unsettled", "closed", "stranger"}
Chat == [fresh : BOOLEAN, marked : BOOLEAN, alike : BOOLEAN, status : Status]
Causes == {"plumbing", "market", "tails"}

Init == /\ chat = [m \in Markets |-> [c \in Chats |->
                     [fresh |-> FALSE, marked |-> FALSE, alike |-> FALSE, status |-> "stranger"]]]
        /\ tick = [m \in Markets |-> 0] /\ blind = [m \in Markets |-> 0]
        /\ since = [m \in Markets |-> -1] /\ noted = {}
        /\ unread = [m \in Markets |-> [c \in Chats |-> 0]]
        /\ heard = [m \in Markets |-> "none"] /\ seen = [m \in Markets |-> TRUE]

\* A variant of Key.
KeyOfCause(m, cause) == <<"blind", m, cause>>

\* the condition a warning is given once for
Key(m, cause) == <<"blind", m, "any">>

WarnedKeys(m) == {Key(m, cause) : cause \in Causes}

\* _count_blind: a read that failed, and the warning once there have been enough
CountBlind(m, cause) ==
  LET failures == IF blind[m] < BlindAfter THEN blind[m] + 1 ELSE blind[m]
      warns == failures >= BlindAfter /\ Key(m, cause) \notin noted
  IN  /\ blind' = [blind EXCEPT ![m] = failures]
      /\ since' = [since EXCEPT ![m] = IF @ = -1 THEN 0 ELSE @]
      /\ noted' = IF warns THEN noted \cup {Key(m, cause)} ELSE noted
      /\ heard' = IF warns THEN [heard EXCEPT ![m] = "blind"] ELSE heard
      /\ seen' = IF warns THEN [seen EXCEPT ![m] = FALSE] ELSE seen

\* A variant of ClearBlind.
ClearBlindOnList(m, opened) ==
  LET tells == blind[m] > 0 /\ noted \cap WarnedKeys(m) # {} /\ since[m] >= GapWorth
  IN  /\ blind' = [blind EXCEPT ![m] = 0] /\ since' = [since EXCEPT ![m] = -1]
      /\ noted' = noted \ WarnedKeys(m)
      /\ heard' = IF tells THEN [heard EXCEPT ![m] = "back"] ELSE heard
      /\ seen' = [seen EXCEPT ![m] = @ \/ opened # {}]

\* _clear_blind: the counters go; the all-clear needs a warning, content and a gap
ClearBlind(m, opened) ==
  LET tells == /\ blind[m] > 0 /\ noted \cap WarnedKeys(m) # {}
               /\ opened # {} /\ since[m] >= GapWorth
  IN  /\ blind' = [blind EXCEPT ![m] = 0] /\ since' = [since EXCEPT ![m] = -1]
      /\ noted' = noted \ WarnedKeys(m)
      /\ heard' = IF tells THEN [heard EXCEPT ![m] = "back"] ELSE heard
      /\ seen' = [seen EXCEPT ![m] = TRUE]

-----------------------------------------------------------------------------
(* The tick: inbox_lane and _read_market.                                    *)

\* the server lost Chrome, or a call to the page failed before the list answered
ReadBreaks(m, cause) ==
  /\ cause \in {"plumbing", "market"} /\ CountBlind(m, cause)
  /\ UNCHANGED <<chat, tick, unread>>

\* the page answers with an error where the conversations should be
ListRefused(m) == CountBlind(m, "market") /\ UNCHANGED <<chat, tick, unread>>

\* login_js says logged_out: no list is read, nothing is counted
SignedOut(m) == /\ noted' = noted \cup {<<"signed_out", m>>}
                /\ UNCHANGED <<chat, tick, blind, since, unread, heard, seen>>

\* a confirmed sign-in re-arms the notice
SignedIn(m) == /\ <<"signed_out", m>> \in noted /\ noted' = noted \ {<<"signed_out", m>>}
               /\ UNCHANGED <<chat, tick, blind, since, unread, heard, seen>>

\* _can_skip
CanSkip(x) == ~x.marked /\ x.alike

FullSweep(m) == tick[m] = SweepEvery - 1

Strangers(m) == {c \in Chats : chat[m][c].status = "stranger"}

\* _adopt: the buyer approached us, has a handle, and names a listing of just one item
Adopts(m, adopted) == adopted \subseteq Strangers(m)

\* create_thread
Created(x) == [x EXCEPT !.status = "active"]

Opened(m, adopted) == {c \in Chats : LET x == chat[m][c] IN
                \/ x.status = "unsettled"
                \/ (x.status = "active" \/ c \in adopted) /\ (FullSweep(m) \/ ~CanSkip(x))}

\* A variant of CountTick.
CountTickIfLegible(m, illegible) ==
  tick' = [tick EXCEPT ![m] = IF illegible = {} THEN (@ + 1) % SweepEvery ELSE @]

CountTick(m, illegible) == tick' = [tick EXCEPT ![m] = (@ + 1) % SweepEvery]

\* opening a page takes its unread mark away, and a legible tail brings the store up to it
AfterRead(m, adopted, legible, illegible) ==
  LET known(c) == IF c \in adopted THEN Created(chat[m][c]) ELSE chat[m][c]
  IN  chat' = [chat EXCEPT ![m] = [c \in Chats |->
        IF c \in legible
          THEN [known(c) EXCEPT !.marked = FALSE, !.fresh = FALSE, !.alike = TRUE]
        ELSE IF c \in illegible THEN [known(c) EXCEPT !.marked = FALSE] ELSE known(c)]]

\* the list answers, the conversations to open are opened, and those that cannot be read
\* count against the market
ReadList(m, adopted, illegible) ==
  LET opened == Opened(m, adopted) IN
  /\ Adopts(m, adopted) /\ illegible \subseteq opened
  /\ CountTick(m, illegible) /\ AfterRead(m, adopted, opened \ illegible, illegible)
  /\ unread' = [unread EXCEPT ![m] = [c \in Chats |->
       IF /\ chat[m][c].fresh /\ c \notin opened
          /\ chat[m][c].status = "active" \/ c \in adopted
         THEN @[c] + 1 ELSE 0]]
  /\ IF illegible = {} THEN ClearBlind(m, opened) ELSE CountBlind(m, "tails")

\* a call fails between two conversations: the tick is counted, the rest is not opened
ReadPart(m, adopted, legible) ==
  /\ Adopts(m, adopted) /\ legible \subseteq Opened(m, adopted) /\ legible # Opened(m, adopted)
  /\ CountTick(m, {}) /\ AfterRead(m, adopted, legible, {})
  /\ unread' = [unread EXCEPT ![m] = [c \in Chats |-> 0]]

ReadBreaksMidway(m, cause, adopted, legible) ==
  /\ cause \in {"plumbing", "market"} /\ ReadPart(m, adopted, legible) /\ CountBlind(m, cause)

\* BrowserUnavailable: the server cannot be started again, for which no market is blamed
ReadEndsMidway(m, adopted, legible) ==
  ReadPart(m, adopted, legible) /\ UNCHANGED <<blind, since, noted, heard, seen>>

-----------------------------------------------------------------------------
(* What happens around the lane.                                             *)

laneVars == <<tick, blind, since, noted, heard, seen>>

\* the buyer may well repeat the words the store already has
BuyerWrites(m, c, repeat) ==
  /\ repeat => chat[m][c].status # "stranger"
  /\ chat' = [chat EXCEPT ![m][c].fresh = TRUE, ![m][c].marked = TRUE, ![m][c].alike = repeat]
  /\ UNCHANGED <<unread, laneVars>>

SellerLooks(m, c) == /\ chat[m][c].marked /\ chat' = [chat EXCEPT ![m][c].marked = FALSE]
                     /\ UNCHANGED <<unread, laneVars>>

\* the thread is escalated, released, closed, or holds a send that nothing accounts for
StatusChanges(m, c, status) ==
  /\ chat[m][c].status # status /\ "stranger" \notin {chat[m][c].status, status}
  /\ chat' = [chat EXCEPT ![m][c].status = status]
  /\ unread' = [unread EXCEPT ![m][c] = 0]
  /\ UNCHANGED laneVars

TimePasses ==
  /\ \E m \in Markets : since[m] \in 0..(GapWorth - 1)
  /\ since' = [m \in Markets |-> IF since[m] \in 0..(GapWorth - 1) THEN since[m] + 1 ELSE since[m]]
  /\ UNCHANGED <<chat, tick, blind, noted, unread, heard, seen>>

\* a restart takes every counter and once-guard with it
Restart ==
  /\ tick' = [m \in Markets |-> 0] /\ blind' = [m \in Markets |-> 0]
  /\ since' = [m \in Markets |-> -1] /\ noted' = {}
  /\ unread' = [m \in Markets |-> [c \in Chats |-> 0]]
  /\ seen' = [m \in Markets |-> TRUE] /\ heard' = [m \in Markets |-> "none"]
  /\ UNCHANGED chat

Next ==
  \/ TimePasses \/ Restart
  \/ \E m \in Markets :
       \/ ListRefused(m) \/ SignedOut(m) \/ SignedIn(m)
       \/ \E cause \in Causes : ReadBreaks(m, cause)
       \/ \E adopted, legible \in SUBSET Chats, cause \in Causes :
            ReadBreaksMidway(m, cause, adopted, legible)
       \/ \E adopted, legible \in SUBSET Chats : ReadEndsMidway(m, adopted, legible)
       \/ \E adopted, illegible \in SUBSET Chats : ReadList(m, adopted, illegible)
       \/ \E c \in Chats :
            \/ SellerLooks(m, c)
            \/ \E repeat \in BOOLEAN : BuyerWrites(m, c, repeat)
            \/ \E status \in Status : StatusChanges(m, c, status)

Spec == Init /\ [][Next]_vars

-----------------------------------------------------------------------------
TypeOK ==
  /\ chat \in [Markets -> [Chats -> Chat]]
  /\ tick \in [Markets -> 0..(SweepEvery - 1)] /\ blind \in [Markets -> 0..BlindAfter]
  /\ since \in [Markets -> -1..GapWorth]
  /\ unread \in [Markets -> [Chats -> Nat]]
  /\ heard \in [Markets -> {"none", "blind", "back"}] /\ seen \in [Markets -> BOOLEAN]

(* A new message that shows as nothing new on the list, because the buyer     *)
(* repeated himself and the seller opened it first, is left unopened for less *)
(* than SweepEvery listings in a row, however many of them find other         *)
(* conversations illegible.  A tick that breaks off counts as one, and its    *)
(* sweep is not made up for.                                                  *)
SweptInTime == \A m \in Markets, c \in Chats : unread[m][c] < SweepEvery

(* Of a step.  A market that stays unreadable, for whatever changing reasons, is reported *)
(* once: a second warning needs a tick that saw the market in between, or a   *)
(* restart.                                                                   *)
OneWarningARun ==
  \A m \in Markets :
    noted' \cap WarnedKeys(m) # noted \cap WarnedKeys(m) /\ blind'[m] > 0 => seen[m]

(* Of a step.  The all-clear is said only after a warning, and on a tick that *)
(* opened conversations and brought the store up to each it had to open ("on a*)
(* read that got message content back", blindness.py).                        *)
BackIsEarned ==
  \A m \in Markets : heard'[m] = "back" /\ heard[m] # "back"
    => /\ heard[m] = "blind" /\ Opened(m, Strangers(m)) # {}
       /\ \A c \in Opened(m, {}) : ~chat'[m][c].fresh /\ chat'[m][c].alike

\* What every step keeps.  The listings that left a message unopened are those
\* since the last full sweep; a market the lane has not seen since its warning
\* is still warned of, and one that is warned of was last heard of as blind.
SweepsInTime == \A m \in Markets, c \in Chats : unread[m][c] <= tick[m]
WarnedUnseen == \A m \in Markets : /\ seen[m] \/ noted \cap WarnedKeys(m) # {}
                                   /\ noted \cap WarnedKeys(m) # {} => heard[m] = "blind"
IInv == /\ chat \in [Markets -> [Chats -> Chat]]
        /\ tick \in [Markets -> 0..(SweepEvery - 1)] /\ blind \in [Markets -> 0..BlindAfter]
        /\ since \in [Markets -> Int]
        /\ unread \in [Markets -> [Chats -> Nat]] /\ SweepsInTime
        /\ heard \in [Markets -> {"none", "blind", "back"}] /\ seen \in [Markets -> BOOLEAN]
        /\ WarnedUnseen
=============================================================================
