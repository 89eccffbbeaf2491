CONSTANTS
  None = None
  Junk = Junk
  Files <- MCFiles
  Specs <- MCSpecs
  Kernels <- MCKernels
  Urls <- MCUrls
  Fits <- MCFits
  Ports <- MCPorts
SPECIFICATION Spec
INVARIANTS TypeOK AppliedPortIsReviewed
PROPERTIES AcceptsNewestNativeFirst ApplicatorAgrees AuditAgreesOnSeries
\* A component whose upstream answers nothing usable is not resolved again.
CHECK_DEADLOCK FALSE
