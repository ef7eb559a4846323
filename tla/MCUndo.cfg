SPECIFICATION HSpec
CONSTANTS
  Indexes = {idx}
  MaxId = 2
  Values = {v1, v2}
  Absent = Absent
  MaxSize = 3
  MaxSessions = 3
INVARIANTS TypeOK LevelsLink IdsNeverClash SessionsHaveStates FailsOnlyIfPoisoned
PROPERTIES ImplementsSnapshots
CHECK_DEADLOCK FALSE
