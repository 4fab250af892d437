CONSTANTS
  none = none
  TestJobs = {}
  MainJobs = {"fuzz-smoke"}
  ExtraJobs = {}
  SafeNames = {"docs"}
  OtherNames = {"code"}
  None = none
  Commits <- AllCommits
  Unstable = {"required checks", "no bypass actors"}
  PageLimit = 2
  MaxPushes = 2
  MaxRuns = 2
  MaxMainRuns = 2
  MaxIncidents = 1
SPECIFICATION Spec
INVARIANTS
  TypeOK
  MergedIsVerified
  NothingUngated
  DriftIsReported
