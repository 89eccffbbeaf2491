SPECIFICATION Spec
CONSTANTS
  Run = {self, given, old, young}
  Self = self
  Given = {given}
  Listed = {self, old, young}
  Old = {self, given, old}
  CancelPolls = 2
  DeletePolls = 2
  NoRun = none
CHECK_DEADLOCK FALSE
PROPERTY HealthySpared
