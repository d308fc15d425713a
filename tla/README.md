# A verification of sellee

This directory holds TLA+ modules for the core of the program: an agent that
sells second-hand items for a person, by reading their marketplace inbox in a
browser, letting a language model answer buyers, and asking the seller over a
chat channel whenever it must not decide alone. TLC checks the modules on small
instances and TLAPS checks proofs about them for every instance. All paths
below are under `src/src/sellee/` unless they say otherwise.

## The system

A daemon (`daemon.py`) runs a scheduler (`scheduler.py`) whose tasks, the
*lanes*, come round at their intervals on a pool of threads, and an HTTP server
(`http_server.py`) on which every tool call has a thread of its own. A *pass*
(`passes.py`) is a run of a language model in a subprocess which calls those
tools; a seller can also attach an *attended* session with the same tools. All
durable state is in one SQLite database: a store method is one transaction
under one lock (`db.py`), so it is atomic and two store methods are not. One
browser serves everybody behind one re-entrant lock (`browser/client.py`).

| component | state | operations | what is hard | what makes it correct |
|---|---|---|---|---|
| send bracket: `tools/reply.py`, `browser/sink.py`, `store/send.py`, `intent_sweep.py` | `send_intents`: status, verify attempts, age; the caller's place in the bracket | reserve, drive, commit on the page, mark, verify, commit, settle, bump, sweep | several callers at once; a crash or a browser error at any step; a tick or the sweep deciding the row meanwhile | a row before the page; "sent" only when the words stand on the page; nothing forgotten |
| escalations and thread status: `store/escalations.py`, `store/threads.py` | `threads.status` and the two statuses it remembers, open escalations | escalate, resolve, withdraw, update, hold, release | the machine and the seller answer the same question; a hold around a question | a thread with an open question is not answered behind the seller's back |
| reply lane: `browser/inbox.py`, `store/passes.py`, `passes.py` | `passes` with claims; the handled cursor of a thread | enqueue, start, end, fail stale, cool down | passes killed in mid-send, claims that are stale, paced markets | what is handled was seen; nobody waits for ever |
| inbox read: `browser/inbox.py`, `browser/reconcile.py` | `thread_messages` against the page's last eight bubbles | read, settle, align, record | repeats, a window, a crash between rows, our own bubbles | no message twice, none lost, who spoke last is known |
| negotiation: `engines/negotiate.py`, `store/negotiation.py` | the item's state and front runner, one row per buyer, the floor | offer, hold for floor, set floor, confirm bid, confirm sold, release | many buyers, retries, a floor that arrives late | one holder, no concession for a retry, no undercut |
| inbox watch: `browser/inbox.py`, `browser/blindness.py` | counters and once-guards of the process, threads | list, skip, sweep, adopt, count, warn, clear | previews that look alike, reads that fail midway, restarts | each new message is opened in time; one warning a run of failures, no unearned all-clear |
| buy side: `engines/buyer_negotiate.py`, `store/negotiation.py`, `store/wants.py` | wants, budgets, offers to sellers | seed, open, reply, accept, walk | a budget corrected in mid-call, several sellers | under the budget, our own offer never falls, one commitment |
| checkout: `tools/checkout.py`, `store/negotiation.py`, `rail/client.py` | checkout records, the floor | look, gate, mint, record | two calls for a sale, a floor that moves | one link told, none below a floor |
| cross-listing: `crosslist.py`, `tools/publish.py` | publish passes, listing addresses, markers | fan out, ask again, report, push | lane and tool at once, a refused or lost push | one automatic try, told as recorded, no marker ahead of the rail |
| adoption: `browser/survey.py`, `browser/adopt.py`, `store/survey.py` | surveys, discovered listings, items | survey, decide, adopt, publish, settle | a crash between any two rows, answers in the middle | an item has its row; a publish owed is not forgotten nor tried for ever |
| sign-in: `browser/connect.py`, `store/browser.py` | request rows, the shared tab | tap, serve, probe, tell | the lane and the command line on one tab, which the seller may close; the row goes before the notice | what is told is of that market, once a tap, and no tap is forgotten |
| selectors: `browser/selectors.py`, `browser/sink.py`, `store/items.py` | the remembered selector of a step | look, miss, record, retire | a page that changes, memory rewritten in a look | a bad memory retires, the shipped one has its turn |
| settings: `settings.py`, `store/settings.py` | settings, proposals, the ledger of changes, region | propose, approve, cancel, undo, set, expire | several doors at once, old buttons | the seller's decision holds, and once |
| channel: `store/channel.py`, `channel/` | inbox rows, notices, offset | ingest, claim, fold, deliver, remind | redelivery, crashes between send and mark | no seller message lost, a failure said once |
| binding: `channel/manager.py`, `channel/telegram/`, `channel/discord/` | the channel row, nonce, handles, receive threads | connect, arm, poll, bind, latch off, swap | rows read before a long poll and used after it | the newest connect binds, one provider runs |
| scheduler: `scheduler.py` | tasks and their states | register, tick, run, succeed, fail | removal in mid-run, backoff, a start that cannot be written | one run of a task, a marked lane has a run to settle it |
| pass runner: `passes.py`, `proc_tree.py`, `lock.py` | pass rows, process groups, tokens | claim, spawn, babysit, settle, sweep, reap | crashes, sleep, a leader with children | one verdict, and a verdict; orphans cannot act |
| browser factory: `daemon.py`, `browser/client.py`, `browser/chrome.py` | the holder of the client, its server, Chrome | ensure, pick, recycle, close, call | no lock on the holder, servers that answer and fail | no bracket cut, no server unknown, no wedge for ever |
| control server: `http_server.py`, `secrets.py` | tokens, tickets, the tail's cursor | rotate, mint, redeem, tail | rotations at once, events pruned in mid-request | a ticket once, an event once |
| updates: `installer/`, `migrations/`, `supervisor.py` | versions, the current link, database, snapshots, job | install, update, roll back, prune, start, migrate | two processes, either may die at any step | what is current can run, and read its database |

How they interact. The inbox lane reads conversations and records buyer
messages; it also looks for our own unsettled sends and settles them. The reply
lane claims every waiting thread into one pass. The pass negotiates
(`negotiate_offer`) and answers (`send_reply`), or escalates. The sweep hands
what nobody could confirm to the seller, as an escalation that the channel
delivers as a notice. The seller answers over the channel, in an attended
session, or directly in the marketplace app, where the inbox lane sees it.

## Modules

`SendPromise` is the abstract specification of a reply's fate. `SendBracket`
implements it, and is the only module with the browser lock and the details of
the thread's status. `ReplyLane` takes a send as a slot with its three ends
(committed by its caller, settled by a tick, folded by the sweep) and models who
answers which message. `TailReconcile` models what `ReplyLane` takes for
granted, that the transcript follows the conversation. `Negotiation` stands
alone: the ledger meets the rest only through the words of a reply.
`ChannelInbox` stands beside them: what the other modules hand to the seller
arrives there as a notice, and nothing of it flows back but the seller's own
calls. `PassRunner` and `BrowserServer` are the machinery under the lanes: what
`ReplyLane` calls the end of a pass, and what `SendBracket` calls a browser that
fails, come from there. The other modules meet these only through rows and
notices, and each is a specification of its own; `Records` puts them together,
one of them in a behaviour, with their sizes as constants, and `MCRecords` is
the instance of it that TLC runs.

| module | lines of code it stands for | correspondence |
|---|---|---|
| `SendBracket` | `store/send.py`, `tools/reply.py` 60-151, `browser/sink.py`, `store/escalations.py`, `store/threads.py` 218-325, `browser/inbox.py` 121-157 and 360-407, `intent_sweep.py` | one action per store call or browser call. `pc` is the place of a call inside `_send_reply` and `BrowserReplySink.send`; `status`, `attempts`, `age` are the columns of its intent; `browser` is the holder of `client.exclusive()`; `toRead` is the list a tick read when it began, which is stale when it is used; `thread`, `escFrom`, `heldFrom`, `open` are the thread's columns and its open escalations |
| `ReplyLane` | `store/passes.py` 39-225, `store/helpers.py` 139-191, `passes.py` 261-311 and 574-767, `browser/inbox.py` 534-599, `store/send.py` 141-354 | a message is its number, so the cursor, a claim and a watermark are numbers; `Record` is the cursor update of every commit and `CursorTarget` its rule |
| `TailReconcile` | `browser/reconcile.py`, `browser/inbox.py` 360-508, `store/threads.py` 126-187 | the page and the rows are sequences; `Settle`, `Align` and each `Record` are separate transactions of one read, with crashes between them |
| `Negotiation` | `engines/negotiate.py`, `store/negotiation.py` 33-314, `store/items.py` 358-417 | `Decide` and `Haggle` are the pure functions, `DecideOffer` the transaction that loads, decides and writes; the knobs are chosen at each decision because the code reads the settings each time |
| `ChannelInbox` | `channel/telegram/poller.py` 196-276, `store/channel.py` 158-400, `store/passes.py` 39-175, `channel/outbound.py` 70-90, `channel/telegram/outbound.py`, the pass lane in `passes.py`, `tools/reads.py` 60-86 | `row` is the inbox table by update, with the pass that claimed it; `passes` and `notices` are tables in the order of their ids; `poller`, `lane`, `drain` and `catchup` are what a tick, or a call of `get_catchup`, holds in memory between two store calls, and what the death of the daemon clears |
| `Proactive` | `channel/outbound.py` 69-221, `store/channel.py` 311-398, `store/helpers.py` 139-177 | the two lanes that tell the seller something unasked: `rows` is the list `buyer_waiting_notice` read, `nudging` the nudge past its guards; `given` is how often a ref was queued |
| `ChannelBind` | `http_server.py` 568-592, `channel/manager.py`, `channel/telegram/` and `channel/discord/` `bind.py`, `provider.py`, the poller and the gateway before a bind, `store/channel.py` 40-147 | `call` is a connect on its HTTP thread, `lock` and `handles` the manager, `thread` the receive threads with the row each read last, `row` the singleton, `mail` what a bot's server still keeps; a nonce is the number of its connect |
| `InboxWatch` | `browser/inbox.py` 44-656 without the reading of a conversation, `browser/blindness.py`, `store/threads.py` 27-91 | `tick`, `blind`, `since`, `noted` are `InboxDeps`; `ReadList` is a tick of a market that went through, `ReadBreaksMidway` and `ReadEndsMidway` ones that did not, `ListRefused`, `SignedOut` the others; `AfterRead` is the tail of each |
| `BuySide` | `engines/buyer_negotiate.py`, `store/negotiation.py` 318-559, `store/wants.py` 148-215 | `read` is the budget a call read before its transaction; `seller` the rows of the ledger |
| `Checkout` | `tools/checkout.py`, `store/negotiation.py` 563-621, `store/items.py` 323-417 | `call` is the place of a call in `_create_checkout_link`; `minted` what the rail made, `link` the record |
| `Crosslist` | `crosslist.py`, `tools/publish.py` 37-248, `store/passes.py`, `tools/listing.py` 43-76 | `lane` and `tool` are the two that look, wait for a browser and queue; `accepted` what the rail last took, `marker` what the store says of it |
| `Adoption` | `browser/survey.py`, `browser/adopt.py`, `store/survey.py` | one action per store call of the survey lane, with `lane` its place; `tap` a button between its two calls |
| `ConnectLane` | `browser/connect.py`, `store/browser.py` 34-61, `http_server.py` 690-763 | `drv` are the lane and the control route inside `open_and_probe`; `tab` is what the shared tab shows, `excl` the exclusive bracket, which binds our own threads; `TabIsLost` is the seller closing the tab under it, and `moved` remembers that for the driver in the bracket |
| `Selectors` | `browser/selectors.py`, `browser/sink.py` 165-204, `store/items.py` 220-330 | `todo` is the list of candidates a look has made, which the memory outruns |
| `Settings` | `settings.py`, `store/settings.py` 118-298, `tools/settings.py`, the settings routes and buttons | `change` is the ledger; `actor` a proposal or a direct change between its read and its transaction |
| `EventTail` | `events.py` 86-186, `retention.py`, `http_server.py` 896-932 | `tail` is a page between the ceiling and the rows of a request |
| `ControlAuth` | `http_server.py` 104-150 and its routes, `secrets.py` | `rotation` is a request between the file and the swap; `asked` one that has read the ticket |
| `Scheduler` | `scheduler.py` | `st` is `_TaskState` with one history field, `unsaid`; `runs` is the executor's queue and its threads; `StartUnsaid` is a run that ends at its `task.start` |
| `PassRunner` | `passes.py` 574-806, `proc_tree.py`, `store/passes.py` 39-114, `scheduler.py` 99-139, `lock.py`, `daemon.py` 407-770 | `worker` is a scheduler thread inside `pass_lane` and `run_pass`; `proc` the process group; `token` and `tracked` the daemon's memory |
| `BrowserServer` | `daemon.py` 104-350, `browser/client.py` 267-607, `browser/chrome.py` | `holder` is the dictionary of the factory; `pc`, `my`, `seen`, `given` are what a caller holds between two accesses to it |
| `InstallUpdate` | `installer/update.py`, `installer/materialize.py`, `migrations/__init__.py`, `supervisor.py`, `setup_cli.py` | `op` is the command that runs and what it remembers, `daemon` the process under its supervisor, `db` the schema and the newest write |
| `Records` | none | the sale, and one instance of each of the fifteen small parts on the variables `v1` to `v14`; `part` says which one a behaviour is about |
| `MC...` | none | the instances of TLC |
| `...Proofs` | none | the theorems |

Abstractions worth knowing.

* A text is a value of a small set. `same_text` and its tolerance for truncated
  bubbles become equality; two intents may share a text.
* The page never loses a bubble. A read may still miss one (`Miss`, `NotVerified`).
* `send_reply` is modelled for the kind `reply` in `SendBracket`; `ReplyLane`
  also has holding lines, which do not move the cursor.
* Pacing answers go or not go at any time; a pause only stops an action from
  being taken, which the models allow at every step anyway.
* `ReplyLane` assumes a faithful read: `Inbound` and `ManualReply` are what the
  reader reports. `TailReconcile` checks how far that assumption is justified.
* The tool that records a reply the seller reports (`record_manual_reply`) and
  the one that spends a pacing slot for other actions are not modelled.
* `ChannelInbox` has the Telegram poller of a bound chat. The Discord gateway
  takes the same steps with one message at a time. Passes of other types use the
  same lane and only delay it. Of the fast paths pause and resume are modelled;
  the others touch none of its state. One `get_catchup` runs at a time, and a
  notice it read counts as told, as its code says. A server may hold updates
  back, and a tick may fail between any two of its steps.
* Where code outside the repository acts (Chrome, a marketplace page, the rail, a
  bot's server, the operating system, the clock), the module says so at the
  action, and the action may happen at any time its callers allow.
* Clocks are ages with a few values, each limit of the code lying between two of
  them; a limit that only delays is left out.
* Two or three adjacent statements of the code are one step where nothing stated
  here tells them apart: the pops of the client, its command and the recycle list
  (`daemon.py` 270-272, `BrowserServer.Pop`); the check of a token and the send it
  admits (`PassRunner.Call`), so that a call caught between the two by a revoke is
  not seen; the read of an item and of its checkout (`Checkout.Begin`).
* An adopted listing stays on the rail: taking it down (`tools/listing.py` 71) is in
  `Checkout` and not in `Adoption`. What `OwedIsRemembered` says of "done" is that it was
  put there.
* `ControlAuth.Replaces` calls a token replaced by one that was made later. An older
  rotation that swaps late is the divergence of file and memory listed below.
* `EngineKeepsUnder` is about every budget, so also about one that was corrected
  while a call held it; `NoLinkBelowFloor` is about the lowest floor there has been.
  Neither says that the call used the value of now, which the code does not promise.
* Of a failing update, what is copied in part is not modelled: a step happens or
  fails as a whole, except for migrations.
* The list price of an item is constant while it is negotiated.
* `sold_to`, the take-down list and the wording of answers are left out.

## Runs

Every bound is a constant of the cfg, or a definition of the run's `MC` module
that the cfg assigns to one.

| run | instance | shows |
|---|---|---|
| `send_bracket` | 2 calls, 1 text, cap 1 look | `WriteAhead`, `SettledIsOnPage`, `AskIsAbout`, `OpenQuestionHolds`, and `KeepsPromise`: the bracket implements `SendPromise` |
| `send_bracket_live` | 1 call, 2 texts, cap 2 looks, closing allowed | `NeverForgotten`, `EveryCallReturns` |
| `send_retry` (violation) | 1 call | `RetrySafe` |
| `reply_lane` | 1 thread, 2 messages, 2 sends | `CursorWasGiven` |
| `reply_lane_live` | 2 threads on 2 markets, 1 message each, 1 send | `NoBuyerStarves` |
| `negotiation_undercut` (violation) | 2 buyers, the engine's balanced and hardline presets at list 100, in units of 5 | `NoUndercutLive` |
| `channel_inbox` | 2 updates of any kind, 1 other notice, drain batch 2, `Failures` on | `CursorIsIngested`, `NothingOvertaken`, `ToldTruly`, `NoticesInOrder`, `EveryClaimIsAnswered` |
| `channel_late` (violation) | 2 updates, no tick fails and the daemon lives | `LateArrivalIsRouted` |
| `browser_server` | 2 callers, 2 clients, 2 ports, 2 recycles an hour, 1 failure to a streak, 1 fault | `ServersAreBounded`, `BracketIsWhole`, `NoImmortalWedge` |
| `pass_runner` | 2 passes, 2 scheduler threads, 2 troubles (a crash, a stop, a pause) | `VerdictIsFinal`, `OrphansAreMute`, `PassSettles` |
| `pass_strays` (violation) | 1 pass, 1 thread, 1 crash | `StraysAreReaped` |
| `records` | 2 buyers, list 4, offers 1 to 6, floors 2 and 3, 2 firmness levels, 2 moves a buyer; the sizes of the other parts are in `MCRecords.cfg` | `OneHolder`, `MovesArePaid`, `SoldIsSold`, `NoUndercut`, and the properties of the fifteen parts below |

Every passing run on the safety of a module also checks its `TypeOK`, which
carries the bounds the code keeps: the cap on looks, a floor under the list
price, a front runner with a price, ids that are unique, a settled row held only
for a live caller, one channel pass at most that is active.

### The run `records`

Fifteen components share nothing with each other but the database they are
rows of, and each is small. `Records` draws one of them, or the sale of an
item, at the start of a behaviour and runs it to its bounds; the parts share the
variables `v1` to `v14`, each instance naming the ones it uses. A property of the
run collects the properties of one subject, each guarded by the part it is about:

| property of the run | properties of the parts |
|---|---|
| `TypesOK` | `TypeOK` of each |
| `TranscriptKeepsStep` | `TailReconcile`: `EveryNewRowIsStored`, `InStepReadsOnce`, `LastWordIsKnown` |
| `SellerSets` | `Settings`: `SellerDecides`, `OneProposal`, `EnabledServes` |
| `DealsAreKept` | `BuySide`: `EngineKeepsUnder`, `OneCommitment`; `Checkout`: `OneLinkTold`, `NoLinkBelowFloor` |
| `ListingsAreRemembered` | `Crosslist`: `OneShot`, `ToldAsRecorded`; `Adoption`: `ItemHasRow`, `OwedIsRemembered`, `RailTriesBounded` |
| `UpdateIsSafe` | `InstallUpdate`: `UpdateKeepsCurrent`, `UpdateKeepsData`, `UndoneIsReadable` |
| `BindingHolds` | `ChannelBind`: `LatestArmBinds`, `OneProvider` |
| `MarketIsWatched` | `ConnectLane`: `ProbeIsOfMarket`, `OneNoticeATap`, `NoTapForgotten`; `InboxWatch`: `SweptInTime`; `Selectors`: `BadHealRetires`, `ShippedHasItsTurn` |
| `OnceIsOnce` | `EventTail`: `NeverTwice`, `OutcomesAreKept`; `Proactive`: `OncePerRef`; `ControlAuth`: `TicketOnce`, `ReplacedStaysDead` |
| `LanesKeepRunning` | `Scheduler`: `OneRunEach`, `StrandedTwoWays` |
| `StepsAreKept` | `Settings`: `DecidedOnce`; `BuySide`: `NeverLowers`; `Crosslist`: `MarkerIsAccepted`; `ChannelBind`: `NonceIsHonoured`; `EventTail`: `MidRequestIsKept`; `InboxWatch`: `OneWarningARun`, `BackIsEarned`; `InstallUpdate`: `AgentComesBack` |

Beside a definition stands a variant of it, a plausible slip of the code. The run finds its property violated with any one of them in the place of
the definition it varies, so that no part of a conjunction is idle;
`PROJECT.json` lists one for each property of the run.

The view leaves out `engaged`, a history variable that only `NoUndercutLive`
reads. The symmetry is over two things of a kind that nothing tells apart, and
the run has no liveness property.

### Why the bounds are enough

The hazards of the bracket need two calls on a thread (one that is late and one
that is early), one unsettled row each, and a page on which the words of the one
settle the other, for which one text is the hard case; two texts are in the live
run. One look at most is below the minimum of the code, but the sweep compares
it with the minimum and the tick with the cap, and at 1 both comparisons go both
ways. In the lane a message that is seen, one that is added while a reply is
composed, and two senders with different claims are all there is to get wrong;
two markets are what one market can do to another. In the negotiation one
amount above the list, two at different distances under it, a floor between, and
a second buyer reach every branch of `decide` and every status. In the
transcript a window of three over four bubbles makes every kind of overlap
happen: none, partial, all, ambiguous because of repeats, and rows older than
the window. In the channel two updates give two passes, a batch that arrives in
another one's pass and a claim that takes rows of two batches; three notices
against a batch of two give a drain that is cut short, a holdable notice in
front of one that is not, and a catch-up that reads what a drain holds.

The factory needs two callers that decide on one list, a client in use and a new
one, and a port that Chrome leaves. With an allowance of two, one caller can recycle
between the decision and the recycle of the other at a count that is not yet the
limit and at one that is; one fault suffices to wedge a server or lose a Chrome. Two passes are one that is judged while the other is queued; two
troubles are a crash in the run that follows a stop or a crash.

In the other parts two actors race in each place where the code reads first and
writes later (settings doors, checkout calls, rotations, ticket pages, the lane
and the tool of a fan-out, the lane and the tap of an adoption), and one crash
may fall anywhere in those that survive one. Three versions, of which the second brings two migrations and the
third none, give an update that migrates, one that does not, and a rollback over
each. Three receive threads and two connects for two transports are a poll of an
old bot that ends after the swap. Of the lanes, the second failure in a row is the one whose backoff overflows
(`Overflow`), so that a lane is lost in both ways there are. Two markets to sign
in to and one without an adapter are two rows of a look and a stale button.

What stops a run: nothing is disabled for ever in `ReplyLane`, `ChannelInbox`,
`BrowserServer` and `PassRunner`, and in `SendBracket` the seller can always hold
the thread; deadlock is checked in their runs. In `records` it is not: several
parts come to an end when their bounds are used up (a sale in which no buyer has
a move left, an update after which nothing is newer).

### Fairness

`SendBracket`: a call's thread runs (each tool call has its own), so its steps
are weakly fair; the scheduler brings the sweep round for ever and time passes;
a tick ends because each browser call has a timeout. A call waiting for the
browser gets it under strong fairness: the lock is not a fair one, so this
assumes that the operating system does not starve one waiter for ever, while a
tick lets go of the lock between its intervals again and again.
Nothing is assumed of the inbox lane starting, of the page answering, of a pass
making a call, or of the seller. `NeverForgotten` therefore holds with a lane
that never runs, by the hard grace period alone.

`ReplyLane`: the lanes come round, a pass has a deadline the babysitter
enforces, and the cooldown is a clock. A pass need not send anything, the
daemon may crash for ever, and other markets may be paced out for ever.
`NoBuyerStarves` is conditional on the buyer's own market staying free.

`ChannelInbox`, `LaneFairness`: the pass lane, the fold and the drain come round,
a pass ends by its deadline, and the sweep reaches a stale pass by its age. The
drain starts when a notice waits that quiet hours do not hold back, which the
condition beside `DrainStart` says. The claim, the delivery and the stamp are
strongly fair: the daemon may die for ever, but not for ever at the same step,
and the chat accepts a message now and then. The poller has no fairness there,
so `EveryClaimIsAnswered` needs no further message; it is conditional on the
seller not leaving the agent paused, for a paused agent runs no pass and drains
no notice. `PollerFairness`, for `channel_late` alone, adds that the poller
polls and that its tick goes through, so that the violation cannot be blamed on
a poller that stands still.

`PassRunner`: the supervisor boots a daemon that is down, a daemon that stops
exits, the scheduler's threads run, the reaper comes round and time passes. A
harness owes nothing: it may hang, fork, or make no call, and what ends it is the
deadline. The daemon may crash as long as troubles are left.

`BrowserServer`: the lane asks for the browser for ever, calls have timeouts, the
cooldown and the window pass, though not between two adjacent statements. A caller that waits for a client's lock gets it
under strong fairness, as above. The streak of a client ends in its being
discarded only when a detached client is asked for while nobody is in a bracket,
which is assumed strongly fair, as a pass does not run at every acquisition.

## What the violations show

Four sentences of the repository are stated as properties that the code does
not keep; each run ends in a short counterexample.

1. `RetrySafe`: `send_failed` is documented as "nothing reached the page"; a
   browser call that fails after it pressed send gives the same answer.
2. `NoUndercutLive`: a buyer who was disengaged keeps the status `passed` when
   they come back, and their standing offer is not counted against a rival.
3. `LateArrivalIsRouted`: a message that arrives while a channel pass is active
   "waits for the next" pass, but nothing makes that pass when the first one
   settles; it waits for the seller to write again.
4. `StraysAreReaped`: the reaper looks for a marker that is in the prompt, which
   goes in over stdin; what outlives its daemon is never found.

Something near these is not a violation. `in_msg_id` is optional and no prompt
asks for it, and a settled send is committed without its pass's claim
(`store/send.py` 327-337), so a settled reply without a name marks the newest
message as handled. `_cursor_target` says so of a sender with no claim behind
it; `CursorWasGiven` therefore lets a reply with neither a claim nor a name
speak for the whole thread, and shows that nothing else passes what a sender
had seen.

## Observed, and stated by no run

Met while modelling, with the sentence each is at odds with where there is one.
Most are reachable in the modules; a property of theirs is stated so that it
allows for them.

The sale.

* `store/send.py` 99-107 looks for an unverified send when a reply is reserved.
  A reply reserved before that is delivered after it, so that a caller does
  "talk past it" (`docs/browser-layer.md` 639-641).
* A message that the buyer writes while our reply is composed is read after the
  reply was committed. The rows then stand in the other order than the page;
  the next read does not align (`reconcile.py` 186), and takes our own bubble
  for one the seller typed, against `reconcile.py` 13-16.
  `InStepReadsOnce` is therefore about reads that begin in step.
* The sweep settles a row without an ask when another kind of question is open
  on the thread (`store/send.py` 432). Two replies of one thread may commit in
  the other order than their claims (`store/send.py` 190).
* `negotiate_release` after a confirmed sale reopens the item
  (`store/negotiation.py` 308).
* The buy side's `hold` repeats our offer and counts no round, so a seller whose
  ask stays away and whose counter does not move is answered for ever, where
  `buyer_negotiate.py` 6-7 walks away "after the rounds". A walked seller stays
  walked, an agreed price may be stale, a cancelled want is still negotiated.
* The checkout sale id hashes the spelling of the price (90 and 90.0 are two
  sales), and two calls at once mint two links, of which one is told.

Channel and notices.

* A welcome whose queueing fails is never queued again, as the chat is bound
  then (`poller.py` 170-176, whose comment says a hiccup "must not eat the
  greeting").
* A poll that reads the row before a new connect compares `/start` with the old
  nonce, and acknowledges the new one's `/start` when it was in its batch
  (`poller.py` 137-162); `http_server.py` 588-589 says the live poller re-reads
  the nonce. It writes its offset to the row of the new bot.
* A binding that dies between `complete_bind` and the welcome greets nobody.
  The gateway replays nothing when it identifies anew, and `latch_off` reads the
  nonce when the failure arrives.
* A buyer who keeps writing is never reported as waiting: the wait is measured
  from the newest message (`store/helpers.py` 173-174,
  `channel/outbound.py` 189-215).

Inbox watch and sign-in.

* Every `BrowserError` outside the server's own loss of Chrome is blamed on the
  market (`inbox.py` 153-154), also one that never reached the page, against
  `blindness.py` 50-51.
* A list that answers clears the counters before any conversation was read
  (`inbox.py` 643-649); the read that follows finds nothing to take back, and
  the seller, who was warned, gets no all-clear.
* A full sweep that breaks midway counts as one, a restart begins the count of
  sweeps anew, and a market that is signed out neither counts nor clears.
* A sign-in request waits for ever on a server that loses Chrome at each try:
  the staleness test is made only while a pass is running
  (`connect.py` 169-177, against the comment at 193-194). Clearing a request
  drops a newer tap of the same market.
* The bracket of a sign-in binds our own threads only. A tab of ours that the
  seller closes between the navigate and the probe "hands our calls to whatever tab
  is left. Nothing here can see that" (`client.py` 633-636), and the market is told
  signed in or out by another page, which `connect.py` 52-53 means to rule out.
  `ConnectLane` takes the step, and `ProbeIsOfMarket` excepts the driver that it
  happened to: what it shows is that no thread of ours and no failed raise of the
  tab does the same.
* "Every outcome ends in exactly one notice" (`connect.py` 16), but the request goes
  in one transaction and the notice is queued in a later one, with two more writes
  between (`connect.py` 197-222): a lane that stops there tells nobody.
  `NoTapForgotten` excepts that stop and nothing else.
* A remembered selector with the shipped one's target and another page guard
  keeps the shipped one from being tried (`selectors.py` 88), which costs a
  send, against `selectors.py` 62-63. A miss counts against the step, whichever
  selector is remembered by then.

Publishing and adoption.

* Whether a publish is queued is read before it is queued
  (`tools/publish.py` 179-189), so that two calls at once queue two, which the
  comment there rules out.
* The marker of a fan-out is per item and not per market, and a push whose
  answer is lost is pushed again.
* `_fail` of an adoption overwrites a decline that came meanwhile, where
  `adopt.py` 84 says "Their answer wins". Reopening a survey takes two
  transactions. A listing whose publish pass died unreported is surveyed as one
  of the seller's own.

The machinery.

* A rollback that raises in its turn, at the swap, at the restore or at the start
  (`update.py` 456-467), leaves no agent running; the comment at 376-378, that this
  is never a reason to, is about the installation alone. `AgentComesBack` excepts
  it, with the death of the command, which it is like.
* "Every attempt is ledgered" (`scheduler.py` 3), but the event that starts a run is
  a row of the database, written outside the `try` (`scheduler.py` 112): when that
  is refused the lane stays marked as running with no run, no failure counted and
  no way back but a restart.
* "Consecutive failures arm a capped exponential backoff" (`scheduler.py` 5-7), but
  the power is computed before the minimum (`scheduler.py` 97): the 1025th failure
  in a row raises `OverflowError` in the thread of the run, and the lane is lost the
  same way. `StrandedTwoWays` says that a lane is lost in these two ways and in no
  other; the run reaches both, with the overflow inside its bound on failures.
* A task that is removed in mid-run and registered again under its name runs
  twice at once (`scheduler.py` 3). `OneRunEach` is about a name that was
  registered once.
* A page of the event tail that is full leaves the rest behind the cursor, which
  goes to the ceiling (`http_server.py` 912-931, against 928-930).
* Two rotations of the attended token at once may leave the file and the memory
  with different tokens until a restart.
* `confirm_dead` of a leader that was reaped kills nobody: its children live on,
  with a token that is dead.
* An undo of a setting that was changed there and back undoes (the values are
  compared, not the changes); "24:30" is taken as a time; a duration below
  an hour in its canonical form is read back as hours.


## Proofs

TLAPS proves, for every number of calls, threads, buyers, texts, messages, passes,
callers, clients, markets, listings and versions and every value of the caps, under
the named assumptions of each module:

| module | theorems |
|---|---|
| `SendBracketProofs` | `TypeCorrect`, `RowBeforePage`, `SettledTruth`, `AskTruth`, `QuestionHolds`, `Refinement` |
| `ReplyLaneProofs` | `TypeCorrect`, `HandledWasGiven` |
| `ChannelInboxProofs` | `TypeCorrect`, `NoMessageIsSkipped`, `MessagesKeepOrder`, `SellerIsToldTruly`, `NoticesKeepOrder` |
| `RecordsProofs` | `OneHolderAlways`, `MovesPaid`, `SoldStays`, `NeverUndercut`; `SaleIsNegotiation`, `EverythingIsOnce`, `DealsStayKept`, `LanesKeepOnRunning`, `TranscriptStaysInStep` |
| `PartsProofs` | `SellerDecidesSettings`, `ListingsRemembered`, `BindingAlwaysHolds`, `MarketsAreWatched` |
| `ShapesProofs` | `UpdatesAreSafe`, `StepsStayKept`, `TypesStayOK` |
| `PassRunnerProofs` | `TypeCorrect`, `VerdictStands`, `OrphansStayMute` |
| `BrowserServerProofs` | `TypeCorrect`, `ServersBounded`, `BracketsAreWhole` |

The assumptions are `BracketAssumption` (the caps are naturals in order, the
lane and nobody are not calls), `LaneAssumption` (every thread has a market),
`NegotiationAssumption` (prices are positive, a floor is at most the list
price, the knobs are naturals, the buyers are finitely many),
`ChannelAssumption` (a drain takes at least one notice), `PassAssumption`
(passes and threads are numbered from 1), `BrowserAssumption` (the callers are
finitely many, there is a port, the limits are positive) and
`RecordsAssumption`, which is the assumptions of the parts together (among them
that the markets are finitely many, and that "read", the speaker of what was
read, is no intent's name). TLC
evaluates them in the runs of their modules.No theorem has a hypothesis
besides.

The bracket. `WriteAhead` is not inductive: an accepted call must be known to
have a row, which it has because only `Reserve` leads to the browser. `CallInv`
carries this: a call that is idle or was only checked has no row, one further in
flight has one, none of them has a result yet, and a call that verified its
words has them on the page, which no later step undoes; from the last part
follows `SettledIsOnPage`. `AskIsAbout` needs `OneQuestion`, that at most one
question is open, so that the open ask is the one a row was raised for; it needs
`CallInv` for a call that commits, which has no result before; and it rests on
a tick that settles a row withdrawing its ask in the same transaction. The
refinement maps each row's status to a fate; a sweep is `HandOver`, a commit or
a settle is `Confirm`, and everything else is a page event or a stutter.

The lane. `CursorWasGiven` becomes inductive with `SlotsOrdered`: in every slot
in use neither the claim nor the named message is ahead of what the caller had
seen. `Record` then moves the cursor to the claim, to the named message, to the
newest one when there is neither, or not at all.

The negotiation. `OneHolder` alone is not inductive: an acceptance must not
meet a holder who is not the front runner. `HolderLeads` says that until
bidding starts the holder is the front runner, and once it has started `decide`
accepts nothing; `FrontOffered` says the front runner has a row, so that a
confirmed bid demotes everybody else. `MovesArePaid` needs `HeldIsOwed`: an
offer that waits for the floor has been counted and its decision is still to
come, which is what keeps a hold, its retry and its decision at one concession.
`NoUndercut` is about one step, and its content is a lemma on the best offer of
the others: a finite set of offers has a greatest one (`BestOfFinite`), none that
counts is above `OtherBest` (`OtherBestIsBest`), and what `Haggle` accepts is not
under the least that beats it (`HaggleBeats`).

The pass runner. `VerdictIsFinal` is about a store call that writes whatever the
row says, so the proof is that nobody makes it twice: `OneRun`, the flag of the
scheduler is up while a thread is in the lane, and only one is; `VerdictOpen`,
the row of a pass a thread still has to judge is running. The sweep, which judges
by age alone, is then the one run there is and cannot meet another judge.
`OrphansAreMute` needs `TokenHeld`: a token that is honoured is that of a run a
thread is inside of, since it is made and revoked there and dies with the daemon,
or of a pass that never got as far as a process (`Unspawned`), whose preparation
raised after the token was made.

The factory. `BracketIsWhole` follows from `LockHeld` (a caller in a bracket has
its client's lock, for which `close` waits) and from a client's name not being
given anew while a caller holds it. The allowance is the hard part of
`ServersAreBounded`: several callers may read one count and each write the next,
so the count says less than was spent. `SpentInStep` says how much less: those
who have decided all read the same count, which the first of them raises and
the others only repeat, so that what was spent, and is still to be spent by them,
stays under the number of callers times the count. It needs that neither the
cooldown nor the hour passes between a decision and its recycle (`Decided`).

The channel. The invariant relates the tables to each other and to what each
tick holds in memory between two store calls. `InboxInv`: a row stands for an
update that the cursor has passed, and passes are numbered in the order of their
messages, none of them empty (`RowsMatch`, `PassesMatch`), from which a later
claim cannot overtake. `PollerKnows`: what the poller is about to acknowledge
begins at the offset, and a fast path it holds is still pending. `VerdictInv`: no
pass is active but the one the lane runs, the status of a row is the end of its pass,
and the rows of a pass fail together with one notice (`LaneHolds`,
`VerdictIsTrue`, `FailedTogether`, `OneReport`). `DrainInv`: the notice about to be
stamped was sent, and what came before those the drain still holds has reached
the seller or is held back (`DrainKnows`, `DeliveredWasShown`).

The parts of `Records`. Each module has its inductive invariant `IInv`, which TLC
checked at small sizes before it was proved. The step that is not obvious is
named in each:

| part | what `IInv` adds to the property |
|---|---|
| `Scheduler` | a name registered once has one run at most, and none unless it is marked (`MarkedWhileRunning`); `StrandedTwoWays` is inductive as it stands |
| `EventTail` | a shown row that is still stored is behind the cursor, and behind the ceiling of the request under way (`ShownIsBehind`) |
| `Proactive` | a nudge that passed its guards has not been given yet |
| `ControlAuth` | the tokens yet to be swapped in differ, and none is in use or replaced (`ComingIsNew`); a ticket that is not gone was handed to nobody (`TicketsInHand`) |
| `BuySide` | the budget a call read is one the buyer set; a seller who is not in it yet has no offer on record (`Unopened`) |
| `Checkout` | the floor, and the price of a call that passed the gate, are not under the lowest floor there has been (`AboveLowest`); what was told is the recorded link (`ToldIsRecorded`) |
| `Crosslist` | the lane is about to queue only a pair it never queued (`QueuedOnce`), what was told as listed is on the item (`ListedIsRecorded`), a push about to be marked is what the rail holds (`MarkIsAccepted`) |
| `Adoption` | the listing the lane works on is neither asked about anew nor adopted meanwhile (`LaneKeepsRow`), what is owed has tries left (`OwedHasTries`), and a try is in the row, in the lane's hands or lost in a crash (`TriesAreCounted`) |
| `Settings` | the changes that apply are numbered in the order they were applied, none above their count (`StampsAreInOrder`); one is pending for a key (`OnePending`) |
| `ChannelBind` | the nonce of the row is the newest or none (`NewestNonce`), what was read as lapsed is not live (`LapsedIsOld`), one provider runs (`OneRuns`), and the holder of the lock has yet to stop whatever runs (`LockHolds`) |
| `ConnectLane` | a driver past its navigation holds the tab, which shows its market unless it was lost to the seller (`TabIsHeld`), the rows the lane has looked at stay until it answers (`RowsStay`), a notice to come was tapped for (`TapsAreAhead`) |
| `InboxWatch` | a conversation keeps its type, which the all-clear is judged by; a message was left unopened at most as often as the market was listed since its sweep (`SweepsInTime`); a market not seen since its warning is still warned of (`WarnedUnseen`) |
| `Selectors` | the row counts the misses (`MissesAreCounted`) and has room for one while a look that began with it goes on (`RoomForAMiss`); a look ends with the shipped target (`ShippedIsLast`) |
| `TailReconcile` | the copies of a text are numbered, the stored ones up to their count and each once (`NumberedWithin`), the ones to record after those and each after its predecessor (`FreshIsNext`); what was read is the end of the page as it was (`TailIsPage`), and what is recorded last is its last bubble, unless that one was settled (`LastIsLast`) |
| `InstallUpdate` | the daemon runs only while its job is registered, which the update undoes and redoes (`JobIsKnown`); the version before is there until the new one is settled (`BothAreThere`); snapshots since the update hold its writes and can be read by the version before (`SnapsAreDated`, `SnapsAreReadable`) |

`StepsStayKept`, about the steps of seven of them, follows from the same
invariants. `SaleIsNegotiation` carries the theorems of the negotiation over to
`Records`: while another part runs, the sale stands still.

The transcript is where data is searched and counted: `Without` takes one
message out of a list, `Align` looks for the overlap, copies of a text are
numbered. What such a definition returns is proved without induction, from a
least counterexample among the naturals (`LeastOf`).

Shapes. `TypesOK` says more than types: a cursor is no further than the message
after the last, there are as many nonces as calls that armed one, a clock and a
counter keep under their bound. Few of the `TypeOK`s are inductive, even with
`IInv`, because a value is bounded by where it comes from. What is proved of a
part, in `RecordsProofs` where it is short and in `ShapesProofs`, are its shapes:

| shapes | what they add |
|---|---|
| `ControlShapes`, `GateShapes` | a request about to swap holds a new token, a call about to record holds a minted link |
| `LanesShapes` | the names registered, and so the runs, are finitely many |
| `RemindingShapes`, `MemoryShapes` | a buyer who waits has a message and the queue is a sequence; every candidate of a look has a target |
| `TakingShapes` | a try is past its share only on the way to being abandoned, or when the lane died before it wrote |
| `ConfigShapes` | a value, and what a call carries, parses as one of its own setting |
| `BindingShapes` | a poll's offset, and what it may still write, is at most one past the last message (`CursorsWithin`); a nonce is of a call past its arming (`ArmsAreCalls`) |
| `ConnectShapes` | taps are as many as the pairs of a market and a number of a tap, so none is tapped past the bound (`TapsFit`) |
| `InstallShapes` | up to its stage a command has room for the stamp it is still to give (`ClockFits`), no install is newer than the clock, no snapshot holds more than was written |

`TypesStayOK` puts them together.

Only model-checked: the liveness properties (`NeverForgotten`,
`EveryCallReturns`, `NoBuyerStarves`, `EveryClaimIsAnswered`, `NoImmortalWedge`,
`PassSettles`), as fairness and `ENABLED` are outside the prover. Every
invariant and every action property of the passing runs is stated by a theorem.

## Not modelled, and the plan

In the order planned:

1. Editing and cancelling a want, the writable fields of a thread, and the fast
   paths of the channel beyond pause and resume.
2. That `ReplyLane`'s ends of a slot are what `SendBracket` does, and
   that `ReplyLane`'s ends of a pass are what `PassRunner` does, as refinements.
3. The arithmetic of pacing, of which the models only keep that it may refuse.
4. The photos of a listing, from download to upload, and price research.

Left out for good: the web pages and adapters (`browser/markets`), the text
engines (`engines/scam.py`, `engines/hosts.py`), chat protocols below an update,
downloads and platform files of the installer, log files, prompts. They hold no
state that the modelled components read back, or are plain input and output.

## Running

    tlc -config MCSendBracket.cfg MCSendBracket.tla
    tlc -workers 2 -config MCRecords.cfg MCRecords.tla
    tlapm SendBracketProofs.tla
    tlapm RecordsProofs.tla
    tlapm PartsProofs.tla
    tlapm ShapesProofs.tla

The last three take ten to fifteen minutes each, the others a few at most.

`PROJECT.json` lists every run with its module and cfg, the mutants that show
each property can fail, the source lines of each definition, the hazards and
the theorems.
