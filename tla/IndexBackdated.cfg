SPECIFICATION Spec
CONSTANTS
 MaxTime = 3
 MaxActions = 4
 Assets = {1, 2}
 Weights = {0, 1}
 Bars = 6
 MaxEvery = 3
 MaxDelay = 4
 Expressions = {1, 2}
 Events <- MCEvents
 Parent <- MCParent
 MaxApplied = 4
 AuctionPrices = {0, 1, 2, 3}
 AuctionQuantities = {0, 1, 2}
 AuctionSize = 3
 MaxParent = 7
 Shares = {0, 1, 2, 5}
 MaxSlices = 4
 Spans = {1, 10}
 NoTaker = NoTaker
 NoLocator = NoLocator
 References = {6, 8}
 Signals = {0, 100, 1000, 1001, 2500, 9999}
 RiskLimits <- MCLimits
 CancelLatencies = {1, 5, 6}
 FastOrder = 5
 Desks <- MCDesks
 WallDistance = 4
 MaxSteps = 7
 BasketSignals = {0, 1, 4, 9}
 MaxBasket = 4
 Caps <- MCCaps
 Ranked <- MCRanked
 Unranked = 5
 MaxIncumbents = 3
 Dates = {1, 2, 3}
 PricesOf <- MCPrices
 TargetHalves <- MCTargets
 InitialCash = 8192
 FeeDivisor = 4
 MaxBars = 3
 Intervals = {1, 2}
 ReplayWindows = {2, 3, 4}
 WindowsPerDay = 2
 DocumentCounts <- MCCounts
 MaxLines = 3
 TickPrices = {1, 2, 3}
 Gaps = {0, 1, 3}
 MaxTicks = 5
 MaxHistory = 3
 BucketSeconds = 2
 MaxDocuments = 12
 Mix = 3
 AuthorCounts <- MCAuthorCounts
 Moves <- MCMoves
 PlatformWeights = {0, 1, 2}
 HourCounts = {0, 1, 2, 5}
 Levels = {0, 1, 2, 3}
 ZSquare <- MCZSquare
 Values <- MCValues
 Indicators = {0, 1}
 Equities = {0, 1, 2, 3}
 Probability = 12
 Alpha <- MCAlpha
 Tolerance <- MCTolerance
 MaxSplit = 3
INVARIANTS KnownAtItsDate
CHECK_DEADLOCK FALSE
