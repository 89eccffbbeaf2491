SPECIFICATION FairSpec
CONSTANTS
  CPU = {c1}
  Proc = {p1, p2}
  Machine = {m1, m2}
  MaxSaves = 3
  MayDamage = TRUE
  NoProc = NoProc
  NoCPU = NoCPU
  Unlearned = Unlearned
  Mean = Mean
  NoFile = NoFile
  Damaged = Damaged
INVARIANT GivesUpOnlyWithoutSnapshot
PROPERTIES DamageTolerated LockReleased
