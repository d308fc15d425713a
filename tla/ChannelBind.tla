---------------------------- MODULE ChannelBind ----------------------------
(* Binding the seller's chat to the daemon: connect_telegram and            *)
(* connect_discord on the control server's threads, the channel manager     *)
(* that starts and stops the providers, and the receive threads of both --  *)
(* Telegram's poller, Discord's gateway -- each acting on a row it read     *)
(* before a long poll or a session that outlasts it.                        *)
EXTENDS Naturals, Sequences, FiniteSets

CONSTANTS Telegrams, Discords,  \* bots, by the provider that speaks for them
          MaxArms,              \* bound on connect calls, and so on nonces
          MaxThreads,           \* bound on receive threads started
          MaxSent,              \* bound on messages sent to the bots
          MaxCrashes            \* bound on deaths of the daemon

ChannelBindAssumption ==
  /\ MaxArms \in Nat /\ MaxThreads \in Nat /\ MaxSent \in Nat /\ MaxCrashes \in Nat
  /\ Telegrams \cap Discords = {}

VARIABLES
  token,    \* the bot in each provider's token file
  row,      \* the channel singleton
  arms,     \* the bots armed so far; a nonce is an index of this sequence
  call,     \* the connect calls, and how far each has got
  lock,     \* the call that holds _register_lock
  handles,  \* the manager's running providers: the thread of each
  lanes,    \* whose delivery lanes the scheduler holds
  thread,   \* the receive threads, in the order they were started
  mail,     \* what each bot's server keeps: the update ids, and the nonce each carries
  sent,     \* messages sent
  crashes

vars == <<token, row, arms, call, lock, handles, lanes, thread, mail, sent, crashes>>

Providers == {"telegram", "discord"}
Bots == Telegrams \cup Discords
ProviderOf(b) == IF b \in Telegrams THEN "telegram" ELSE "discord"
NoBot == "none"
Unread == [chat |-> 0, nonce |-> 0, live |-> FALSE, offset |-> 0]
NoRow == [adapter |-> "telegram", bot |-> NoBot, chat |-> 0, nonce |-> 0, live |-> FALSE,
          offset |-> 0, welcomed |-> FALSE, menu |-> FALSE]
NoThread == [prov |-> "none", pc |-> "none", stop |-> FALSE, bot |-> NoBot, ch |-> Unread,
             upto |-> 0, refused |-> <<NoBot, 0>>]
NoCall == [pc |-> "none", bot |-> NoBot, others |-> {}]

Init == /\ token = [p \in Providers |-> NoBot] /\ row = NoRow /\ arms = <<>>
        /\ call = [c \in 1..MaxArms |-> NoCall] /\ lock = 0
        /\ handles = [p \in Providers |-> 0] /\ lanes = 0
        /\ thread = [t \in 1..MaxThreads |-> NoThread]
        /\ mail = [b \in Telegrams |-> {}] /\ sent = 0 /\ crashes = 0

manager == <<lock, handles, lanes>>
desk == <<token, arms, call, lock, handles, lanes, crashes>>
Running == {p \in Providers : handles[p] # 0}

------------------------------------------------------------------------------
(* The connect calls.                                                         *)

\* The control routes: the token is proved, then written.
Prove(c, b) == /\ call[c].pc = "none" /\ \A d \in 1..(c - 1) : call[d].pc # "none"
               /\ call' = [call EXCEPT ![c] = [NoCall EXCEPT !.pc = "arm", !.bot = b]]
               /\ token' = [token EXCEPT ![ProviderOf(b)] = b]
               /\ UNCHANGED <<row, arms, manager, thread, mail, sent, crashes>>

ConnectTelegram(c) == \E b \in Telegrams : Prove(c, b)
ConnectDiscord(c) == \E b \in Discords : Prove(c, b)

\* arm_bind
Arm(c) == LET b == call[c].bot
              same == row.bot = b /\ row.adapter = ProviderOf(b)
          IN /\ call[c].pc = "arm"
             /\ arms' = Append(arms, b)
             /\ row' = [adapter |-> ProviderOf(b), bot |-> b, chat |-> 0,
                        nonce |-> Len(arms) + 1, live |-> TRUE, offset |-> 0,
                        welcomed |-> same /\ row.welcomed, menu |-> same /\ row.menu]
             /\ call' = [call EXCEPT ![c].pc = "register"]
             /\ UNCHANGED <<token, manager, thread, mail, sent, crashes>>

\* Provider.start: its thread and its lanes; the lanes' names are shared.
Start(p) == \E t \in 1..MaxThreads :
  /\ thread[t] = NoThread /\ \A u \in 1..(t - 1) : thread[u] # NoThread
  /\ thread' = [thread EXCEPT ![t] = [NoThread EXCEPT !.prov = p, !.pc = "token"]]
  /\ handles' = [handles EXCEPT ![p] = t] /\ lanes' = t

\* A variant of Register.
RegisterUnlocked(c) == LET p == ProviderOf(call[c].bot) IN
  /\ call[c].pc = "register"
  /\ IF handles[p] # 0
     THEN call' = [call EXCEPT ![c].pc = "done"] /\ lock' = 0
     ELSE call' = [call EXCEPT ![c].pc = "swap", ![c].others = Running] /\ lock' = c
  /\ UNCHANGED <<token, row, arms, handles, lanes, thread, mail, sent, crashes>>

\* ChannelManager.register: the lock, and the look at the handles
Register(c) == LET p == ProviderOf(call[c].bot) IN
  /\ call[c].pc = "register" /\ lock = 0
  /\ IF handles[p] # 0
     THEN call' = [call EXCEPT ![c].pc = "done"] /\ lock' = 0
     ELSE call' = [call EXCEPT ![c].pc = "swap", ![c].others = Running] /\ lock' = c
  /\ UNCHANGED <<token, row, arms, handles, lanes, thread, mail, sent, crashes>>

\* deregister: the handle is dropped, the thread told to stop, its lanes
\* taken off the scheduler by name; the join gives up after a while.
Deregister(c, p) ==
  /\ call[c].pc = "swap" /\ p \in call[c].others
  /\ call' = [call EXCEPT ![c].others = @ \ {p}]
  /\ handles' = [handles EXCEPT ![p] = 0]
  /\ IF handles[p] = 0 THEN UNCHANGED <<thread, lanes>>
     ELSE thread' = [thread EXCEPT ![handles[p]].stop = TRUE] /\ lanes' = 0
  /\ UNCHANGED <<token, row, arms, lock, mail, sent, crashes>>

Bring(c) == /\ call[c].pc = "swap" /\ call[c].others = {}
            /\ Start(ProviderOf(call[c].bot))
            /\ call' = [call EXCEPT ![c].pc = "done"] /\ lock' = 0
            /\ UNCHANGED <<token, row, arms, mail, sent, crashes>>
------------------------------------------------------------------------------
(* A receive thread.                                                          *)

Move(t, pc) == thread' = [thread EXCEPT ![t].pc = pc]

\* The loop: the stop flag, the token file ...
ReadToken(t) == /\ thread[t].pc = "token"
                /\ thread' = [thread EXCEPT ![t].pc = IF thread[t].stop THEN "dead" ELSE "row",
                                            ![t].bot = token[thread[t].prov]]
                /\ UNCHANGED <<desk, row, mail, sent>>

\* ... and the channel row.  _state: off, awaiting bind or bound.
ReadRow(t) == LET th == thread[t]
                  off == th.bot = NoBot \/ (row.chat = 0 /\ ~row.live)
                  latched == <<th.bot, row.nonce>> = th.refused
              IN /\ th.pc = "row"
                 /\ thread' = [thread EXCEPT
                      ![t].ch = [chat |-> row.chat, nonce |-> row.nonce, live |-> row.live,
                                 offset |-> row.offset],
                      ![t].pc = IF ~off /\ ~latched
                                THEN IF th.prov = "telegram" THEN "poll" ELSE "connect"
                                ELSE IF row.nonce # 0 /\ row.chat = 0 /\ ~row.live
                                THEN "retire" ELSE "token"]
                 /\ UNCHANGED <<desk, row, mail, sent>>

\* A variant of Retire.
RetireAny(t) == /\ thread[t].pc = "retire" /\ Move(t, "token")
                /\ row' = [row EXCEPT !.nonce = 0, !.live = FALSE]
                /\ UNCHANGED <<desk, mail, sent>>

\* _retire_lapsed_nonce, clear_bind_nonce: guarded on the nonce read earlier
Retire(t) == /\ thread[t].pc = "retire" /\ Move(t, "token")
             /\ row' = IF row.nonce = thread[t].ch.nonce
                       THEN [row EXCEPT !.nonce = 0, !.live = FALSE] ELSE row
             /\ UNCHANGED <<desk, mail, sent>>

\* A variant of Complete.
CompleteAny(t, then, offset) ==
  /\ row' = [row EXCEPT !.chat = thread[t].ch.nonce, !.nonce = 0, !.live = FALSE,
                        !.offset = offset]
  /\ Move(t, then)

\* complete_bind: the nonce must still be the armed one, and live.
Complete(t, then, offset) ==
  /\ row.nonce = thread[t].ch.nonce /\ row.live
  /\ row' = [row EXCEPT !.chat = thread[t].ch.nonce, !.nonce = 0, !.live = FALSE,
                        !.offset = offset]
  /\ Move(t, then)

\* queue_welcome, once the row says nobody was welcomed
Greet(t) == /\ thread[t].pc = "greet"
            /\ row' = [row EXCEPT !.welcomed = TRUE]
            /\ Move(t, IF thread[t].prov = "telegram" THEN "token" ELSE "session")
            /\ UNCHANGED <<desk, mail, sent>>
------------------------------------------------------------------------------
(* Telegram: the poller.                                                      *)

\* get_updates: what lies before the offset is forgotten by the server.
Asked(t) == {m \in mail[thread[t].bot] : m.id >= thread[t].ch.offset}
Starts(t) == {m \in Asked(t) : m.nonce # 0 /\ m.nonce = thread[t].ch.nonce}
Last(ms) == CHOOSE n \in {m.id : m \in ms} : \A m \in ms : n >= m.id
First(ms) == CHOOSE n \in {m.id : m \in ms} : \A m \in ms : n <= m.id

\* The long poll returns.  Awaiting the bind, the first /start with the
\* nonce of the row read before the poll goes to complete_bind, if whatever
\* nonce the row has by now is live; everything else is only acknowledged.
Poll(t) == LET th == thread[t] IN
  /\ th.pc = "poll"
  /\ mail' = [mail EXCEPT ![th.bot] = Asked(t)]
  /\ thread' = [thread EXCEPT
       ![t].pc = IF Asked(t) = {} THEN "token"
                 ELSE IF th.ch.chat # 0 THEN "ingest"
                 ELSE IF Starts(t) # {} /\ row.live THEN "complete" ELSE "ack",
       ![t].upto = IF Asked(t) = {} THEN 0
                   ELSE IF th.ch.chat = 0 /\ Starts(t) # {} THEN First(Starts(t)) + 1
                   ELSE Last(Asked(t)) + 1]
  /\ row' = IF th.ch.chat # 0 THEN [row EXCEPT !.menu = TRUE] ELSE row
  /\ UNCHANGED <<desk, sent>>

\* A transport error: back to the loop, nothing consumed.
PollFails(t) == /\ thread[t].pc = "poll" /\ Move(t, "token")
                /\ UNCHANGED <<desk, row, mail, sent>>

Bind(t) == /\ thread[t].pc = "complete" /\ thread[t].prov = "telegram"
           /\ \/ Complete(t, "menu", thread[t].upto)
              \/ ~(row.nonce = thread[t].ch.nonce /\ row.live) /\ Move(t, "ack") /\ UNCHANGED row
           /\ UNCHANGED <<desk, mail, sent>>

\* _ensure_commands, which a transport error leaves by an exception
EnsureMenu(t) == /\ thread[t].pc = "menu"
                 /\ \/ /\ row' = [row EXCEPT !.menu = TRUE]
                       /\ Move(t, IF row.welcomed THEN "token" ELSE "greet")
                    \/ ~row.menu /\ UNCHANGED row /\ Move(t, "token")
                 /\ UNCHANGED <<desk, mail, sent>>

\* advance_offset never lowers the cursor; ingest_updates sets it.
Ack(t) == /\ thread[t].pc \in {"ack", "ingest"} /\ Move(t, "token")
          /\ row' = IF thread[t].pc = "ingest" \/ thread[t].upto > row.offset
                    THEN [row EXCEPT !.offset = thread[t].upto] ELSE row
          /\ UNCHANGED <<desk, mail, sent>>
------------------------------------------------------------------------------
(* Discord: the gateway session.                                              *)

\* connect_and_identify: accepted, or ended by the network
Connect(t) == /\ thread[t].pc = "connect" /\ (Move(t, "session") \/ Move(t, "token"))
              /\ UNCHANGED <<desk, row, mail, sent>>

\* _latch_off: closed with a code that will not resolve itself; the latch is
\* keyed on the nonce of that moment, which a connect may have just armed.
LatchOff(t) == /\ thread[t].pc \in {"connect", "session"}
               /\ thread' = [thread EXCEPT ![t].pc = "token",
                                           ![t].refused = <<thread[t].bot, row.nonce>>]
               /\ UNCHANGED <<desk, row, mail, sent>>

\* A message reaches the session: the row is read again for each one.  A
\* message no session hears is lost.
Hear(t, n) == LET hit == row.chat = 0 /\ n # 0 /\ n = row.nonce /\ row.live IN
  /\ thread[t].pc = "session" /\ sent < MaxSent /\ sent' = sent + 1
  /\ n # 0 => arms[n] = thread[t].bot
  /\ thread' = IF hit THEN [thread EXCEPT ![t].pc = "complete", ![t].ch.nonce = n]
               ELSE IF thread[t].stop THEN [thread EXCEPT ![t].pc = "token"] ELSE thread
  /\ UNCHANGED <<desk, row, mail>>

BindDirect(t) == /\ thread[t].pc = "complete" /\ thread[t].prov = "discord"
                 /\ \/ Complete(t, IF row.welcomed THEN "session" ELSE "greet", 0)
                    \/ /\ ~(row.nonce = thread[t].ch.nonce /\ row.live)
                       /\ Move(t, "session") /\ UNCHANGED row
                 /\ UNCHANGED <<desk, mail, sent>>

\* The session ends: the network, the server, a missed acknowledgement, a stop.
Close(t) == /\ thread[t].pc = "session" /\ Move(t, "token")
            /\ UNCHANGED <<desk, row, mail, sent>>
------------------------------------------------------------------------------
(* The world: messages, time, the daemon's death and return.                  *)

\* The seller taps a link they were given; anyone may write to a bot.
Write(b, n) == /\ sent < MaxSent /\ sent' = sent + 1
               /\ n # 0 => arms[n] = b
               /\ mail' = [mail EXCEPT ![b] = @ \cup {[id |-> sent + 1, nonce |-> n]}]
               /\ UNCHANGED <<desk, row, thread>>

\* BIND_NONCE_TTL_SEC passes.
Lapse == /\ row.live /\ row' = [row EXCEPT !.live = FALSE]
         /\ UNCHANGED <<desk, thread, mail, sent>>

\* The daemon dies, and returns with register_configured: the provider that
\* has a token, the row's own when both have one.
Crash == LET set == {p \in Providers : token[p] # NoBot} IN
  /\ crashes < MaxCrashes /\ crashes' = crashes + 1
  /\ call' = [c \in 1..MaxArms |-> IF call[c].pc = "none" THEN NoCall
                                   ELSE [call[c] EXCEPT !.pc = "done", !.others = {}]]
  /\ lock' = 0 /\ set # {}
  /\ \E t \in 1..MaxThreads, p \in Providers :
       /\ p = IF set = Providers THEN row.adapter ELSE CHOOSE q \in set : TRUE
       /\ thread[t] = NoThread /\ \A u \in 1..(t - 1) : thread[u] # NoThread
       /\ thread' = [u \in 1..MaxThreads |->
            CASE u = t -> [NoThread EXCEPT !.prov = p, !.pc = "token"]
              [] thread[u] = NoThread -> NoThread
              [] OTHER -> [NoThread EXCEPT !.prov = thread[u].prov, !.pc = "dead"]]
       /\ handles' = [q \in Providers |-> IF q = p THEN t ELSE 0] /\ lanes' = t
  /\ UNCHANGED <<token, row, arms, mail, sent>>
------------------------------------------------------------------------------

Next == \/ \E c \in 1..MaxArms :
             \/ ConnectTelegram(c) \/ ConnectDiscord(c)
             \/ Arm(c) \/ Register(c) \/ Bring(c)
             \/ \E p \in Providers : Deregister(c, p)
        \/ \E t \in 1..MaxThreads :
             \/ ReadToken(t) \/ ReadRow(t) \/ Retire(t) \/ Greet(t)
             \/ Poll(t) \/ PollFails(t) \/ Bind(t) \/ EnsureMenu(t) \/ Ack(t)
             \/ Connect(t) \/ LatchOff(t) \/ BindDirect(t) \/ Close(t)
             \/ \E n \in 0..Len(arms) : Hear(t, n)
        \/ \E b \in Telegrams, n \in 0..Len(arms) : Write(b, n)
        \/ Lapse \/ Crash

Spec == Init /\ [][Next]_vars
------------------------------------------------------------------------------

TypeOK ==
  /\ token \in [Providers -> Bots \cup {NoBot}]
  /\ row \in [adapter : Providers, bot : Bots \cup {NoBot}, chat : 0..MaxArms,
              nonce : 0..MaxArms, live : BOOLEAN, offset : 0..(MaxSent + 1),
              welcomed : BOOLEAN, menu : BOOLEAN]
  /\ arms \in Seq(Bots) /\ Len(arms) <= MaxArms
  /\ call \in [1..MaxArms -> [pc : {"none", "arm", "register", "swap", "done"},
                              bot : Bots \cup {NoBot}, others : SUBSET Providers]]
  /\ lock \in 0..MaxArms /\ lanes \in 0..MaxThreads
  /\ handles \in [Providers -> 0..MaxThreads]
  /\ \A t \in 1..MaxThreads : thread[t].bot \in Bots \cup {NoBot}
  /\ \A b \in Telegrams : \A m \in mail[b] : m.id \in 1..MaxSent /\ m.nonce \in 0..MaxArms
  /\ sent \in 0..MaxSent /\ crashes \in 0..MaxCrashes

\* A chat is bound by the nonce of the newest connect alone, on the bot that
\* connect armed: an older link cannot, however late it arrives and whatever
\* poll or session was under way when the seller connected again.
LatestArmBinds == row.chat # 0 => row.chat = Len(arms) /\ row.bot = arms[row.chat]

\* Of a step.  A live nonce goes only by binding a chat or by a newer connect: no thread
\* that set out to retire an older one takes it along.
NonceIsHonoured == row.live => \/ row'.nonce = row.nonce
                               \/ row'.chat = row.nonce
                               \/ Len(arms') > Len(arms)

\* One provider runs at a time, whichever way two connects meet, and the
\* scheduler's delivery lanes are its own.
OneProvider == /\ Cardinality(Running) <= 1
               /\ lock = 0 => \A p \in Running : lanes = handles[p]

\* What every step keeps.  The nonce of the row is the newest one or none, and
\* none that is live has been read as lapsed; the call that holds the lock has
\* yet to stop whatever runs.
NewestNonce ==
  /\ row.nonce \in {0, Len(arms)} /\ row.chat \in {0, Len(arms)}
  /\ row.live => row.nonce # 0
  /\ arms # <<>> => row.bot = arms[Len(arms)]
LapsedIsOld == \A t \in 1..MaxThreads :
  /\ thread[t].ch.nonce \in 0..Len(arms)
  /\ thread[t].pc = "retire" => thread[t].ch.nonce # 0 /\ (row.live => row.nonce # thread[t].ch.nonce)
OneRuns == \A p, q \in Running : p = q
LockHolds ==
  /\ \A c \in 1..MaxArms : call[c].pc = "swap" <=> lock = c
  /\ lock # 0 => lock \in 1..MaxArms /\ Running \subseteq call[lock].others
  /\ lock = 0 => \A p \in Running : lanes = handles[p]
Row == [adapter : Providers, bot : Bots \cup {NoBot}, chat : Nat, nonce : Nat, live : BOOLEAN,
        offset : Nat, welcomed : BOOLEAN, menu : BOOLEAN]
Reading == [chat : Nat, nonce : Nat, live : BOOLEAN, offset : Nat]
Thread == [prov : Providers \cup {"none"}, stop : BOOLEAN, bot : Bots \cup {NoBot}, ch : Reading,
           upto : Nat, refused : (Bots \cup {NoBot}) \X Nat,
           pc : {"none", "token", "row", "retire", "greet", "poll", "complete", "menu", "ack", "ingest",
                 "connect", "session", "dead"}]
Calling == [pc : {"none", "arm", "register", "swap", "done"}, bot : Bots \cup {NoBot},
           others : SUBSET Providers]
Message == [id : 1..MaxSent, nonce : Nat]
\* the bots a provider may speak for; a thread asks none but its own
Speaks(p) == {b \in Bots : ProviderOf(b) = p} \cup {NoBot}
Fits(th) == /\ th.pc \notin {"none", "dead"} => th.prov \in Providers
            /\ th.pc = "row" => th.bot \in Speaks(th.prov)
            /\ th.pc = "poll" => th.bot \in Telegrams
IInv == /\ row \in Row /\ arms \in Seq(Bots) /\ handles \in [Providers -> 0..MaxThreads]
        /\ call \in [1..MaxArms -> Calling] /\ thread \in [1..MaxThreads -> Thread]
        /\ mail \in [Telegrams -> SUBSET Message] /\ sent \in 0..MaxSent
        /\ token \in [Providers -> Bots \cup {NoBot}] /\ \A p \in Providers : token[p] \in Speaks(p)
        /\ \A c \in 1..MaxArms : call[c].pc \in {"arm", "register", "swap"} => call[c].bot \in Bots
        /\ \A t \in 1..MaxThreads : Fits(thread[t])
        /\ NewestNonce /\ LapsedIsOld /\ OneRuns /\ LockHolds
=============================================================================
