SPECIFICATION RetrySpec
CONSTANTS
  Known = {}
  Scanned = {scanned}
  Elsewhere = {elsewhere}
  Base = Base
  Zram = Zram
  NoFile = NoFile
  Sizes = {1}
INVARIANT OldFilesGone
PROPERTIES DeletesOnlyRetiredSwap Converges
