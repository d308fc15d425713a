------------------------------ MODULE Records ------------------------------
(***************************************************************************)
(* The sale of an item, and the components that meet the lanes only        *)
(* through rows, one of them in each behaviour.  The part that a behaviour *)
(* is about is drawn at the start; the parts other than the sale share the *)
(* variables v1 to v14, 0 where a part has fewer.  Their sizes are         *)
(* constants.                                                              *)
(***************************************************************************)
EXTENDS Negotiation

CONSTANTS
  Pair,                                 \* two of a kind that can be told apart and no more
  Answers, Cap, MaxLooks, MaxBubbles,                                      \* TailReconcile
  Markets,                              \* marketplaces with an adapter
  SettingKeys, Changes, Regions, Sites,                                    \* Settings
  BuySellers, Asks, Aim, Budgets, Step, Rounds, BuyCalls,                  \* BuySide
  SaleThreads, SalePrices, SaleList, SaleFloors, SaleCalls, MaxMinted,     \* Checkout
  Items, Passes, MaxRail,                                                  \* Crosslist
  Listings, SurveyMax, AdoptMax, RailMax, MaxReopened, MaxRearmed,         \* Adoption
  Versions, Schema, VersionsKept, BackupsKeep, MaxTime, MaxData, MaxFaults,  \* InstallUpdate
  Telegrams, Discords, MaxArms, MaxThreads, MaxSent,                       \* ChannelBind
  SignInMarkets, AllMarkets, MaxTaps,                                      \* ConnectLane
  MaxEvents, PageSize,                                                     \* EventTail
  LaneNames, Workers, MaxRegs, MaxFails, Overflow,                         \* Scheduler
  Targets, ShippedTarget, NoTarget, SitePages, ThreadPage, StaleFails, StaleAge,  \* Selectors
  BlindAfter, SweepEvery, GapWorth,                                        \* InboxWatch
  WaitAge, NudgeAge, MaxMsgs,                              \* Proactive, over SaleThreads
  Requests, Tickets, Pages, MaxTokens,                                     \* ControlAuth
  MaxCrashes                            \* in those that survive a crash

VARIABLES part, v1, v2, v3, v4, v5, v6, v7, v8, v9, v10, v11, v12, v13, v14

Transcript == INSTANCE TailReconcile WITH
  Asks <- Pair, Intents <- Pair,
  page <- v1, unread <- v2, rows <- v3, says <- v4, status <- v5, looks <- v6, live <- v7,
  phase <- v8, tail <- v9, seek <- v10, settled <- v11, fresh <- v12, fetched <- v13,
  seen <- v14
Config == INSTANCE Settings WITH
  Keys <- SettingKeys, Actors <- Pair, value <- v1, change <- v2, region <- v3, actor <- v4
Buying == INSTANCE BuySide WITH
  Sellers <- BuySellers, Prices <- Asks, Calls <- BuyCalls, budget <- v1, read <- v2, want <- v3, chosen <- v4,
  seller <- v5, said <- v6
Gate == INSTANCE Checkout WITH
  Threads <- SaleThreads, Prices <- SalePrices, ListPrice <- SaleList, Floors <- SaleFloors,
  Calls <- SaleCalls, floor <- v1, published <- v2, link <- v3, minted <- v4, call <- v5,
  told <- v6, lowest <- v7
Fanout == INSTANCE Crosslist WITH
  url <- v1, rail <- v2, onRail <- v3, enabled <- v4, sold <- v5, paused <- v6, pass <- v7, lane <- v8, tool <- v9,
  marker <- v10, accepted <- v11
Taking == INSTANCE Adoption WITH
  survey <- v1, row <- v2, live <- v3, pictured <- v4,
  items <- v5, created <- v6, onRail <- v7, slot <- v8, lane <- v9, tap <- v10, reopened <- v11,
  tried <- v12, lost <- v13, rearmed <- v14
Install == INSTANCE InstallUpdate WITH
  Kept <- VersionsKept, tree <- v1, current <- v2, db <- v3, snaps <- v4, job <- v5,
  daemon <- v6, beat <- v7, op <- v8, torn <- v9, clock <- v10, faults <- v11
Binding == INSTANCE ChannelBind WITH
  token <- v1, row <- v2, arms <- v3, call <- v4, lock <- v5, handles <- v6,
  lanes <- v7, thread <- v8, mail <- v9, sent <- v10, crashes <- v11
Connecting == INSTANCE ConnectLane WITH
  Markets <- AllMarkets, Supported <- SignInMarkets, req <- v1, todo <- v2, drv <- v3,
  excl <- v4, tab <- v5, owed <- v6, busy <- v7, crashes <- v8, taps <- v9, told <- v10
WebTail == INSTANCE EventTail WITH
  Page <- PageSize, last <- v1, kind <- v2, rows <- v3, old <- v4, tail <- v5,
  shown <- v6, twice <- v7
Lanes == INSTANCE Scheduler WITH
  Names <- LaneNames, on <- v1, gen <- v2, st <- v3, runs <- v4
Memory == INSTANCE Selectors WITH
  Pages <- SitePages, row <- v1, page <- v2, todo <- v3, outcome <- v4, tried <- v5, misses <- v6
Watch == INSTANCE InboxWatch WITH
  Chats <- Pair, chat <- v1, tick <- v2, blind <- v3, since <- v4, noted <- v5, unread <- v6, heard <- v7,
  seen <- v8
Reminding == INSTANCE Proactive WITH
  Threads <- SaleThreads, buyer <- v1, held <- v2, seller <- v3, boundFor <- v4, queue <- v5,
  given <- v6, rows <- v7, nudging <- v8
Control == INSTANCE ControlAuth WITH
  file <- v1, attended <- v2, made <- v3, rotation <- v4, ticket <- v5, asked <- v6, page <- v7,
  handed <- v8, replaced <- v9

ASSUME RecordsAssumption ==
  /\ Transcript!TailAssumption
  /\ Config!SettingsAssumption
  /\ Buying!BuySideAssumption
  /\ Gate!CheckoutAssumption
  /\ Fanout!CrosslistAssumption
  /\ Taking!AdoptionAssumption
  /\ Install!InstallAssumption
  /\ Binding!ChannelBindAssumption
  /\ Connecting!ConnectLaneAssumption
  /\ WebTail!EventTailAssumption
  /\ Lanes!SchedulerAssumption
  /\ Memory!SelectorsAssumption
  /\ Watch!InboxWatchAssumption
  /\ Reminding!ProactiveAssumption
  /\ Control!ControlAuthAssumption

Blank14 == v14 = 0
Blank13 == v13 = 0 /\ Blank14
Blank12 == v12 = 0 /\ Blank13
Blank11 == v11 = 0 /\ Blank12
Blank10 == v10 = 0 /\ Blank11
Blank9 == v9 = 0 /\ Blank10
Blank8 == v8 = 0 /\ Blank9
Blank7 == v7 = 0 /\ Blank8
Blank6 == v6 = 0 /\ Blank7
Blank5 == v5 = 0 /\ Blank6
From14 == <<v14>>
From13 == <<v13, From14>>
From12 == <<v12, From13>>
From11 == <<v11, From12>>
From10 == <<v10, From11>>
From9 == <<v9, From10>>
From8 == <<v8, From9>>
From7 == <<v7, From8>>
From6 == <<v6, From7>>
From5 == <<v5, From6>>

AllBlank == v1 = 0 /\ v2 = 0 /\ v3 = 0 /\ v4 = 0 /\ Blank5
Shared == <<v1, v2, v3, v4, From5>>

RecordsInit ==
  /\ Init
  /\ \/ part = "sale" /\ AllBlank
     \/ part = "transcript" /\ Transcript!Init
     \/ part = "settings" /\ Config!Init /\ Blank5
     \/ part = "buying" /\ Buying!Init /\ Blank7
     \/ part = "checkout" /\ Gate!Init /\ Blank8
     \/ part = "crosslist" /\ Fanout!Init /\ Blank12
     \/ part = "adoption" /\ Taking!Init
     \/ part = "release" /\ Install!Init /\ Blank12
     \/ part = "binding" /\ Binding!Init /\ Blank12
     \/ part = "connect" /\ Connecting!Init /\ Blank11
     \/ part = "tail" /\ WebTail!Init /\ Blank8
     \/ part = "lanes" /\ Lanes!Init /\ Blank5
     \/ part = "selectors" /\ Memory!Init /\ Blank7
     \/ part = "watch" /\ Watch!Init /\ Blank9
     \/ part = "proactive" /\ Reminding!Init /\ Blank9
     \/ part = "control" /\ Control!Init /\ Blank10

RecordsNext ==
  \/ part = "sale" /\ Next /\ UNCHANGED <<part, Shared>>
  \/ part = "transcript" /\ Transcript!Next /\ UNCHANGED <<part, vars>>
  \/ part = "settings" /\ Config!Next /\ UNCHANGED <<part, vars, From5>>
  \/ part = "buying" /\ Buying!Next /\ UNCHANGED <<part, vars, From7>>
  \/ part = "checkout" /\ Gate!Next /\ UNCHANGED <<part, vars, From8>>
  \/ part = "crosslist" /\ Fanout!Next /\ UNCHANGED <<part, vars, From12>>
  \/ part = "adoption" /\ Taking!Next /\ UNCHANGED <<part, vars>>
  \/ part = "release" /\ Install!Next /\ UNCHANGED <<part, vars, From12>>
  \/ part = "binding" /\ Binding!Next /\ UNCHANGED <<part, vars, From12>>
  \/ part = "connect" /\ Connecting!Next /\ UNCHANGED <<part, vars, From11>>
  \/ part = "tail" /\ WebTail!Next /\ UNCHANGED <<part, vars, From8>>
  \/ part = "lanes" /\ Lanes!Next /\ UNCHANGED <<part, vars, From5>>
  \/ part = "selectors" /\ Memory!Next /\ UNCHANGED <<part, vars, From7>>
  \/ part = "watch" /\ Watch!Next /\ UNCHANGED <<part, vars, From9>>
  \/ part = "proactive" /\ Reminding!Next /\ UNCHANGED <<part, vars, From9>>
  \/ part = "control" /\ Control!Next /\ UNCHANGED <<part, vars, From10>>

RecordsSpec == RecordsInit /\ [][RecordsNext]_<<vars, part, Shared>>

-----------------------------------------------------------------------------
(* Every variable of every part keeps its shape.                             *)
TypesOK ==
  /\ TypeOK
  /\ part = "transcript" => Transcript!TypeOK
  /\ part = "settings" => Config!TypeOK
  /\ part = "buying" => Buying!TypeOK
  /\ part = "checkout" => Gate!TypeOK
  /\ part = "crosslist" => Fanout!TypeOK
  /\ part = "adoption" => Taking!TypeOK
  /\ part = "release" => Install!TypeOK
  /\ part = "binding" => Binding!TypeOK
  /\ part = "connect" => Connecting!TypeOK
  /\ part = "tail" => WebTail!TypeOK
  /\ part = "lanes" => Lanes!TypeOK
  /\ part = "selectors" => Memory!TypeOK
  /\ part = "watch" => Watch!TypeOK
  /\ part = "proactive" => Reminding!TypeOK
  /\ part = "control" => Control!TypeOK

(* The value of a setting is the one its ledger explains, and where approval *)
(* is asked for, the one the seller approved; one live proposal each; nothing*)
(* is listed where the region is not served (settings.py).                   *)
SellerSets ==
  part = "settings" => Config!SellerDecides /\ Config!OneProposal /\ Config!EnabledServes

(* The engine of the buy side stays under the budget its decision was made   *)
(* with and commits to one seller; a sale has one checkout link that is told,*)
(* and none below the floor (buyer_negotiate.py, tools/checkout.py).         *)
DealsAreKept ==
  /\ part = "buying" => Buying!EngineKeepsUnder /\ Buying!OneCommitment
  /\ part = "checkout" => Gate!OneLinkTold /\ Gate!NoLinkBelowFloor

(* A fan-out is tried once and told as it went; an item taken over from a    *)
(* marketplace has its row, and the publish it is owed is done, owed, on its *)
(* way or given up on after so many tries (crosslist.py, browser/adopt.py).  *)
ListingsAreRemembered ==
  /\ part = "crosslist" => Fanout!OneShot /\ Fanout!ToldAsRecorded
  /\ part = "adoption" => Taking!ItemHasRow /\ Taking!OwedIsRemembered /\ Taking!RailTriesBounded

(* At every step of an update the current version can run, and one that is   *)
(* undone costs no write and leaves a database the old version can read      *)
(* (installer/update.py).                                                    *)
UpdateIsSafe ==
  part = "release" => Install!UpdateKeepsCurrent /\ Install!UpdateKeepsData /\ Install!UndoneIsReadable

(* Only the newest connect binds a chat, and one provider runs at a time,    *)
(* whichever way connects, polls and sessions meet (channel/manager.py).     *)
BindingHolds == part = "binding" => Binding!LatestArmBinds /\ Binding!OneProvider

(* No step of ours comes between a market's page and what is read off it, and*)
(* a tap has one notice, none only where the lane stopped before it; a       *)
(* message that shows as nothing new is opened in time; a remembered selector*)
(* that went bad is retired (browser/connect.py, inbox.py, selectors.py).    *)
MarketIsWatched ==
  /\ part = "connect" => /\ Connecting!ProbeIsOfMarket /\ Connecting!OneNoticeATap
                        /\ Connecting!NoTapForgotten
  /\ part = "watch" => Watch!SweptInTime
  /\ part = "selectors" => Memory!BadHealRetires /\ Memory!ShippedHasItsTurn

(* An event of the web tail is shown once and an outcome never pruned, a     *)
(* reminder given once, a ticket redeemed once, and a token that was         *)
(* replaced lets nobody in (events.py, http_server.py, channel/outbound.py). *)
OnceIsOnce ==
  /\ part = "tail" => WebTail!NeverTwice /\ WebTail!OutcomesAreKept
  /\ part = "proactive" => Reminding!OncePerRef
  /\ part = "control" => Control!TicketOnce /\ Control!ReplacedStaysDead

(* A registered lane has one run at most, and one that is marked running has *)
(* a run to settle it, but for a start that could not be published and the   *)
(* failure whose backoff does not fit a float (scheduler.py).                *)
LanesKeepRunning == part = "lanes" => Lanes!OneRunEach /\ Lanes!StrandedTwoWays

(* What no read of a conversation does: lose a row to an id in use, record a *)
(* bubble twice when it began in step, or end on another speaker than the    *)
(* page (browser/reconcile.py).                                              *)
TranscriptKeepsStep ==
  [][part = "transcript" => /\ Transcript!EveryNewRowIsStored
                            /\ Transcript!InStepReadsOnce
                            /\ Transcript!LastWordIsKnown]_<<part, Shared>>

(* What no step of the other parts does: undo a decision, lower an offer,    *)
(* mark a link the rail did not take, drop a live nonce, skip an event that  *)
(* came between two reads, warn twice in one run of failures or give an      *)
(* all-clear unearned, or end an update without the agent it stopped.        *)
StepsAreKept ==
  [][/\ part = "settings" => Config!DecidedOnce
     /\ part = "buying" => Buying!NeverLowers
     /\ part = "crosslist" => Fanout!MarkerIsAccepted
     /\ part = "binding" => Binding!NonceIsHonoured
     /\ part = "tail" => WebTail!MidRequestIsKept
     /\ part = "watch" => Watch!OneWarningARun /\ Watch!BackIsEarned
     /\ part = "release" => Install!AgentComesBack]_<<part, Shared>>
=============================================================================
