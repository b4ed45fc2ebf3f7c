SPECIFICATION FairSpec
CONSTANTS
  Runners = {r1, r2, r3}
  N = 2
INVARIANTS
  RecordedIsExecuted
  FailsForCause
  FilledStaysUnrecorded
PROPERTIES
  EveryRunEnds
CHECK_DEADLOCK FALSE
