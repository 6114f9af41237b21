SPECIFICATION FairSpec
CONSTANTS
  MaxPosts = 2
INVARIANTS NoneForgotten
PROPERTIES Lifo PostStops SignalExits
CHECK_DEADLOCK FALSE
