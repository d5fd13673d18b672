SPECIFICATION Spec
CONSTANTS
 MinuteOf <- MCMinuteOf
 Rewind = 1
 MaxSockets = 1
 MaxCrashes = 0
 MaxFailures = 0
INVARIANT ShutdownFlushes
CHECK_DEADLOCK FALSE
