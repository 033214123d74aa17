SPECIFICATION LiveSpec
CONSTANTS
  Tasks = {t1}
  Requests = {r1, r2, r3}
  None = None
  MaxEvents = 1
  MaxFaults = 1
  MaxCrashes = 1
INVARIANTS
  TablesAreSound
  RunsAreRecorded
  RunningIsServed
PROPERTIES
  FinishedOnce
  RunningEnds
CHECK_DEADLOCK FALSE
