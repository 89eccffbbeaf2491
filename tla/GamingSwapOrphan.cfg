SPECIFICATION OrphanSpec
CONSTANTS
  Known = {}
  Scanned = {}
  Elsewhere = {elsewhere}
  Base = Base
  Zram = Zram
  NoFile = NoFile
  Sizes = {1}
INVARIANT EveryOldFileGone
