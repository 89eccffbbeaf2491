CONSTANTS
  None = None
  Blocked = Blocked
  Refs <- MCRefs
  Hunks <- MCHunks
  MaxPushes = 1
  MaxFailures = 1
SPECIFICATION Spec
INVARIANTS TypeOK OutputWhole PackagedAsResolved
PROPERTIES LastSnapshotKept BuildEnds
