SPECIFICATION RetrySpec
CONSTANTS
  New = {kernel, headers}
  Other = {other}
  Stock = {stock}
  Kernel = {kernel, other, stock}
  Caches = {{kernel, headers, stock}, {kernel, other, stock}}
INVARIANTS TypeOK RestoredMeansPrevious UnbootableExitWarns
PROPERTIES SuccessMeansComplete ConsentedRemovals Recovers
