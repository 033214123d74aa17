SPECIFICATION Spec
CONSTANTS
  good = good
  unsigned = unsigned
  drifted = drifted
  Runs = {r1, r2, r3}
  Releases = {good, unsigned, drifted}
  Signed <- SomeSigned
  Sound = {good, unsigned}
  None = None
  MaxEdits = 2
INVARIANTS
  OnlyVerifiedStarts
  UnseenIsStopped
SYMMETRY Alike
CHECK_DEADLOCK FALSE
