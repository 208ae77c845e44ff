SPECIFICATION FeedSpec
CONSTANTS
  MaxReads = 2
  MaxWrites = 1
  OtherDocs = {11}
  MaxSessions = 2
  MaxLaunches = 2
  Completions <- MCCompletions
CHECK_DEADLOCK FALSE
INVARIANTS FeedTypeOK ReadsInOrder ReadYourWrites ResultsGrow OneRowPerEvent
  CreatedEventsSurviveReads PinsMatchList FreshRowsArePrefix TrapsExplained
PROPERTIES OtherEventsStay
