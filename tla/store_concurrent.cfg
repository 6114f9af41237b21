SPECIFICATION FairSpec
CONSTANTS
  a = a
  b = b
  x = x
  y = y
  f = f
  Corrupt = Corrupt
  Missing = Missing
  Callers <- Pair
  Blocks <- WithFile
  Files <- OneFile
  ChunksOf <- FileOfX
  SizeOf <- FreeSizes
  MaxBytes = 2
  Workers = 2
  Ops <- Concurrent
  MaxBoots = 2
  Faults = {"put", "unlink", "read", "save_pins"}
PROPERTIES ShieldedStays ImplementsContent CallsReturn
CHECK_DEADLOCK FALSE
