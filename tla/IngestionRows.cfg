SPECIFICATION Spec
CONSTANTS
 MinuteOf <- MCMinuteOf
 Rewind = 1
 MaxSockets = 2
 MaxCrashes = 0
 MaxFailures = 0
PROPERTY RowsKeepDocuments
CHECK_DEADLOCK FALSE
