CONSTANTS
  none = none
  None = none
  Commits = {"base", "copied", "wrong", "differs"}
  Content <- ContentOf
  InputKeys <- Keys1
  TypedTypes = {"CookRun"}
  SelectorKind <- Kinds
  SelectorDiag <- Diags
  Nodes = {"22.1", "22.2"}
  MaxRuns = 2
  MaxIncidents = 1
  AttackCases <- Cases
  FuzzCases <- Mutated
  Baseline = "base"
  BaselineNode = "22.1"
SPECIFICATION Spec
INVARIANTS
  TypeOK
  SealedIsWhole
  VerdictIsHonest
CHECK_DEADLOCK FALSE
