CONSTANTS
  none = none
  damaged = damaged
  Commits = {"good", "next", "inner"}
  KindSeq <- Kind1And2
  Generated <- OnlyKind1
  None = none
  Damaged = damaged
  Tracked <- Files
  Supported = {"good", "next", "inner"}
  ClientOnly = {"good", "next", "inner"}
  Runners <- Machines
  MaxAttempts = 2
  MaxIncidents = 1
SPECIFICATION Spec
INVARIANTS
  TypeOK
  AttachedIsVerified
  AcceptedIsWhole
  VendoredIsVerified
CHECK_DEADLOCK FALSE
