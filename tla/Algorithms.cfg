CONSTANTS
  MaxAttempts = 40
  MaxBytes = 20000
  EndOfLine = "n"
  Characters = {"a", "b", "n"}
  MaxCopy = 4
  MaxDonor = 3
  Meshes <- SmallMeshes
  Glyphs <- SmallGlyphs
  Scalars <- SmallScalars
  ManifestRuns <- SmallRuns
  None = "none"
  Structs <- SmallStructs
  HeadWords = {"int", "f", "inline", "template"}
  InnerWords = {"assign"}
  MaxTokens = 9
  Guards <- SmallGuards
  Units <- SmallUnits
  MaxCells = 4
  Traces <- SmallTraces
SPECIFICATION Spec
INVARIANTS DelayFollowsCounter ClassIsTight CopiesAreExact AggregatesAreSound ReplayFollowsCycle DriftIsSeen CompareIsExact ResizeAuditIsExact OmissionsAreTrue SourceAuditsAreExact
CHECK_DEADLOCK FALSE
