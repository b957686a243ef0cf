CONSTANTS
  Dirs = {root, home}
  RootDir = root
  HomeDir = home
  Nowhere = Nowhere
  MaxRequests = 4
  MaxStarts = 1
  MaxBytes = 0
  Filled = {}

SPECIFICATION Spec

PROPERTY DroppedIsLeft

CHECK_DEADLOCK FALSE
