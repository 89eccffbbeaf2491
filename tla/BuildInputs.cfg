CONSTANTS
  None = None
  Junk = Junk
  Torn = Torn
  Skip = Skip
  Images <- MCImages
  Stock <- MCStock
  Components <- MCComponents
  RepositoryOf <- MCRepositoryOf
  Drivers <- MCDrivers
  Faults <- MCFaults
  MaxPushes = 1
  MaxFailures = 1
SPECIFICATION Spec
INVARIANTS TypeOK BuiltAsLocked OneCommitPerRepository OneInstant
PROPERTY EndsFresh
