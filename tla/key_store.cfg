SPECIFICATION Spec
CONSTANTS
  KeyTTL = 1
  EnvelopeTTL = 1
  FutureTTL = 0
  TokenTTLs <- TTLs
  TokenAge = 2
  Skew = 1
  MaxKeys = 5
  MaxTime = 3
INVARIANTS InFlightOpens RestartRestores RevokedStaysRevoked
CHECK_DEADLOCK FALSE
