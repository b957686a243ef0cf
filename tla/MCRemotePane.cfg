CONSTANTS
  Dirs = {root, home, sub}
  RootDir = root
  HomeDir = home
  Nowhere = Nowhere
  MaxRequests = 5
  MaxStarts = 2
  MaxBytes = 0
  Filled = {}

SPECIFICATION FairSpec

INVARIANTS
  TypeOK
  LoadingIsAwaited

PROPERTIES
  ShownIsTheLastAsked
  LoadingEnds

CHECK_DEADLOCK FALSE
