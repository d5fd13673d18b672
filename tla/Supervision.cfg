SPECIFICATION MCSpec
CONSTANTS
 HealthPeriod = 6
 StaleAfter = 12
 MaxBackoff = 3
 CloseTimeout = 3
 MaxFaults = 3
 Heartbeat = 15
 ShownAfter = 8
 DisconnectAfter = 30
 LongestBackoff = 15
 Burst = 2
 MaxFeedFaults = 2
INVARIANTS ReportedIsDurable HealthyIsHeard OneSocket SilenceShown CaughtUp HalfOpenDropped
PROPERTIES WorkerRecovers ShutdownExits ResponsiveKept TabRecovers
CHECK_DEADLOCK FALSE
