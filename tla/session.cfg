SPECIFICATION FairSpec
CONSTANTS
  small = small
  full = full
  huge = huge
  Messages <- Texts
  SizeOf <- Sizes
  MaxMessage = 4
  Overhead = 2
  MaxSends = 3
INVARIANTS OnlyLossFails
PROPERTIES ImplementsChannel
CHECK_DEADLOCK FALSE
