SPECIFICATION LiveSpec
CONSTANTS
  Requests = {r1, r2}
  Tokens = {t1, t2}
  Names = {admin, other}
  Admin = admin
  None = None
  MaxTTL = 1
  MaxClock = 1
  MaxStarts = 3
INVARIANTS
  FirstAdminOnly
  EnrollmentIsWhole
  AnswerIsTrue
  FileHoldsPassword
PROPERTIES
  EnrollEnds
CHECK_DEADLOCK FALSE
