SPECIFICATION RecordsSpec
CONSTANTS
  Pair = {x, y}
  Answers = {"r"}
  Cap = 3
  MaxLooks = 1
  MaxBubbles = 4
  Buyers = {x, y}
  ListPrice = 4
  Offers = {1, 2, 3, 4, 5, 6}
  Floors = {2, 3}
  Knobs <- BothKnobs
  MaxMoves = 2
  Markets = {"carousell"}
  SignInMarkets = {x, y}
  AllMarkets = {x, y, "withdrawn"}
  SettingKeys = {"crosslist_markets", "watch_browser"}
  Changes = 3
  Regions = {"SG", "US"}
  Sites <- Served
  Items = {"item"}
  Passes = 3
  MaxRail = 1
  Listings = {"listing"}
  SurveyMax = 2
  AdoptMax = 2
  RailMax = 2
  MaxReopened = 1
  MaxRearmed = 1
  Versions = {1, 2, 3}
  Schema <- Migrations
  VersionsKept = 2
  BackupsKeep = 1
  MaxTime = 4
  MaxData = 2
  MaxFaults = 1
  Telegrams = {"t1"}
  Discords = {"d1"}
  MaxArms = 2
  MaxThreads = 3
  MaxSent = 2
  MaxTaps = 2
  Targets = {"box", "other"}
  ShippedTarget = "box"
  NoTarget = "no target"
  SitePages = {"thread", "elsewhere"}
  ThreadPage = "thread"
  StaleFails = 2
  StaleAge = 1
  BlindAfter = 2
  SweepEvery = 2
  GapWorth = 1
  MaxCrashes = 1
  BuySellers = {x, y}
  Asks = {5, 6}
  Aim <- Aims
  Budgets <- BuyBudgets
  Step = 2
  Rounds = 1
  BuyCalls = {"call"}
  SaleThreads = {"thread"}
  SalePrices = {1, 2, 3}
  SaleList = 3
  SaleFloors = {2}
  SaleCalls = {x, y}
  MaxMinted = 3
  MaxEvents = 4
  PageSize = 1
  LaneNames = {x, y}
  Workers = 1
  MaxRegs = 2
  MaxFails = 2
  Overflow = 2
  WaitAge = 2
  NudgeAge = 1
  MaxMsgs = 2
  Requests = {x, y}
  Tickets = {"ticket"}
  Pages = {x, y}
  MaxTokens = 3
SYMMETRY Symmetry
VIEW View
INVARIANTS
  TypesOK
  OneHolder
  MovesArePaid
  SellerSets
  DealsAreKept
  ListingsAreRemembered
  UpdateIsSafe
  BindingHolds
  MarketIsWatched
  OnceIsOnce
  LanesKeepRunning
PROPERTIES
  SoldIsSold
  NoUndercut
  TranscriptKeepsStep
  StepsAreKept
CHECK_DEADLOCK FALSE
