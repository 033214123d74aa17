SPECIFICATION Spec
CONSTANTS
  Requests = {r1, r2}
  Ids = {s1, s2}
  Passwords = {boot, long}
  Long = {long}
  Secrets = {k1, k2}
  None = None
  Lifetime = 1
  MaxClock = 2
  MaxChanges = 2
INVARIANTS
  ClosedIsRefused
  SecretsAreShown
  ReadyGate
SYMMETRY Alike
