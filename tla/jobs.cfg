\* More jobs than the registry holds, competing with a sync request.
CONSTANTS
    Jobs = {j1, j2, j3}
    Callers = {c1}
    Slots = 2
    MaxJobs = 2
SPECIFICATION FairSpec
INVARIANTS SlotsAccounted PollsAreTruthful
PROPERTIES ForwardOnly EvictsOldestOutcomes JobsSettle
CHECK_DEADLOCK FALSE
