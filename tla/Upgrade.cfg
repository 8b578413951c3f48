SPECIFICATION Spec
CONSTANTS
  c1 = c1
  c2 = c2
  None = None
  Content = {c1, c2}
  Source = {"notes", "files"}
  MaxVersion = 2
  MaxRev = 1
  SchemaOf <- SchemaVersions
  Fenced = TRUE
  MaxRequests = 3
  MaxLaunches = 3
  MaxReloads = 1
  MaxFaults = 2
INVARIANTS
  ManifestHasRelease
  NothingIsLost
  FenceMeansSettled
  WritersAgree
  WriterKeptOut
PROPERTIES
  AllOrNothing
CHECK_DEADLOCK FALSE
