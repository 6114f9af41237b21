SPECIFICATION Spec
CONSTANTS
  a = a
  b = b
  x = x
  y = y
  f = f
  Corrupt = Corrupt
  Missing = Missing
  Callers <- Solo
  Blocks <- ThreeBlocks
  Files <- OneFile
  ChunksOf <- FileOfX
  SizeOf <- Uneven
  MaxBytes = 2
  Workers = 2
  Ops <- Sequential
  MaxBoots = 3
  Faults = {"put", "unlink", "read"}
INVARIANTS StatsExact PinsPersisted
CHECK_DEADLOCK FALSE
