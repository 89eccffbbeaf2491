SPECIFICATION Spec
CONSTANTS
  CPU = {c1, c2}
  Proc = {p1, p2}
  Machine = {m1}
  MaxSaves = 2
  MayDamage = FALSE
  NoProc = NoProc
  NoCPU = NoCPU
  Unlearned = Unlearned
  Mean = Mean
  NoFile = NoFile
  Damaged = Damaged
SYMMETRY Symmetry
INVARIANTS TypeOK RecordsFiledRight CrashKeepsLastSave
PROPERTY StoreSpec
