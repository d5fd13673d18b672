SPECIFICATION ServiceSpec
CONSTANTS
 cry = cry
 skull = skull
 unpriced = unpriced
 Assets = {cry, skull}
 Mid <- MCMid
 Short <- MCShort
 Over <- MCOver
 Policy <- MCPolicy
 Quantities = {1, 3, 10}
 Grant = 10100
 MaxOrders = 5
 MaxBailouts = 1
 Requests = {r1, r2, r3}
 Environments <- MCEnvironments
 OrderBodies <- MCBodies
 NotANumber = NotANumber
 NoServer = NoServer
 MinuteOf <- MCMinuteOf
 Rewind = 1
 MaxSockets = 2
 MaxCrashes = 1
 MaxFailures = 1
 Posts = {1, 2}
 Tagged = {1}
 Stream <- MCStream
 Retention = 2
 LastDay = 3
 MaxRefusals = 2
 Days = {2, 3}
 Expressions = {1, 2}
 Full = 2
 Level <- MCLevel
 Finalizers = {f1, f2}
 LastDays = {0, 1}
 MaxRuns = 3
 MaxCalibrations = 2
 Migrators = {m1, m2}
 MaxFile = 3
 MaxStarts = 3
INVARIANTS LedgerFollows CashNeverNegative ProfitExplainsEquity RiskNeverEases AccountIsOne
INVARIANTS OneMinutePerBatch CountedOnce NoGap
INVARIANTS KnownWithinRetention ForgottenStaysForgotten DayIsUniform IndexIsChained CalibrationsAdvance MigratedOnce
CHECK_DEADLOCK FALSE
SYMMETRY ServiceSymmetry
