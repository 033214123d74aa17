SPECIFICATION Spec
CONSTANTS
  Runs = {r1, r2}
  r1 = r1
  r2 = r2
  Commits = {c1}
  c1 = c1
  Commit = c1
  Manifests = {m1, m2}
  m1 = m1
  m2 = m2
  l1 = l1
  l2 = l2
  d1 = d1
  d2 = d2
  ka = ka
  kb = kb
  ks = ks
  None = None
  Repository = "ours"
  KeepVms = FALSE
  MaxFaults = 1
  MaxAggregates = 1
  MaxEdits = 3
  SignerKeys = {ks}
  LlmManifests = {l1, l2}
  About <- MCAbout
  AboutLlm <- MCAboutLlm
  Order <- MCOrder
  Identities <- MCIdentities
  Person <- MCPerson
  KeysOf <- MCKeysOf
  Hands <- MCHands
SYMMETRY Symmetry
INVARIANTS
  PassedIsEvidenced
  FailedRunLeavesNothing
  ReleaseIsTested
  AcceptedIsCrossBound
CHECK_DEADLOCK FALSE
