SPECIFICATION FairSpec
CONSTANTS
  c1 = c1
  c2 = c2
  c3 = c3
  l1 = l1
  l2 = l2
  small = small
  large = large
  Unnamed = Unnamed
  None = None
  Calls = {c1, c2, c3}
  Loads = {l1, l2}
  FileOf <- TwoFiles
  Permits = 2
INVARIANTS PermitsExact NamesItsModel
PROPERTIES EngineAnswers
CHECK_DEADLOCK FALSE
