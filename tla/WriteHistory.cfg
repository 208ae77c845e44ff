SPECIFICATION FairHistorySpec
CONSTANTS
  Users = {ann, nobody}
  Nobody = nobody
  MaxWrites = 3
  MaxPending = 2
  MaxEvents = 1
CHECK_DEADLOCK FALSE
INVARIANTS StreamTypeOK CommittedAsWriter PipelineIsQueue WireIsPipeline
  StoredUntilSettled CommitsInOrder WritePathAsserts
PROPERTIES WritesSettle WritesImplementEventStore
