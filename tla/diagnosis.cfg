SPECIFICATION LiveSpec
CONSTANTS
  MaxTurns = 2
  Retries = 1
  MaxCalls = 2
  MockCalls = 3
INVARIANTS
  LogIsSound
  StatusIsTrue
  ActionsAreRecorded
  PostsAreBounded
PROPERTIES
  DiagnosisEnds
CHECK_DEADLOCK FALSE
