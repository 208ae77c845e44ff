SPECIFICATION FeedSpec
CONSTANTS
  MaxReads = 1
  MaxWrites = 1
  OtherDocs = {11}
  MaxSessions = 1
  MaxLaunches = 1
  Completions <- MCCompletions
CHECK_DEADLOCK FALSE
PROPERTIES LoadAddsToList
