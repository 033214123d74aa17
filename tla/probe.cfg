SPECIFICATION Spec
CONSTANTS
  Unset = Unset
  NoFile = NoFile
  Skew = 1
  MaxSetupTtl = 1
  MaxEvidenceValidity = 2
  PricingReviewAge = 2
  PolicyReviewAge = 3
  ToolBytes = 2
  StreamBytes = 1
  ToolReply = 1
  StreamReply = 1
  MaxInput = 9
  MaxOutput = 3
  MaxRuns = 1
  MaxClock = 5
  MaxChunks = 2
  Cases <- MCCases
  Servers <- MCServers
  Answers <- MCAnswers
  Events <- MCEvents
INVARIANTS
  SpendIsCapped
  ReportCoversSpend
  VerifiedByAProbe
  PassedProbeIsAccepted
  EditIsNoticed
CHECK_DEADLOCK FALSE
