SPECIFICATION FairFeedSpec
CONSTANTS
  MaxReads = 2
  MaxWrites = 1
  OtherDocs = {11}
  MaxSessions = 2
  MaxLaunches = 1
  Completions <- MCCompletions
CHECK_DEADLOCK FALSE
PROPERTIES RefreshEnds
