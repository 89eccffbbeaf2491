SPECIFICATION Spec
CONSTANTS
  Known = {known}
  Scanned = {}
  Elsewhere = {}
  Base = Base
  Zram = Zram
  NoFile = NoFile
  Sizes = {1, 2}
INVARIANTS TypeOK ReplacementFirst NextBootReady OldFilesGone
PROPERTY BootKeepsSwap
