SPECIFICATION Spec
CONSTANTS
  RunDirs <- MCRunDirs
  Existing <- MCExisting
  Rows <- MCRows
  Metadata <- MCMetadata
  Posts <- MCPosts
  NoSource = NoSource
  Threads = {p, q}
  MaxViews = 2
  MaxRequests = 4
INVARIANTS NeverFalselyMissing SeriesAreAttributed
PROPERTIES EvictsLeastRecentlyUsed
SYMMETRY Symmetry
CHECK_DEADLOCK FALSE
