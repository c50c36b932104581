SPECIFICATION Spec
CONSTANTS
  Admins = {a1, a2}
  Payloads = {p0, p1}
  Original = p0
  MaxSaves = 2
  MaxPublish = 2
  MaxInFlight = 2
SYMMETRY Symmetry
CHECK_DEADLOCK FALSE
INVARIANTS
  TypeOK
  PublishedAsSeen
  StatusIsTrue
  PreviewShowsItsDraft
PROPERTIES
  VersionsAreKept
