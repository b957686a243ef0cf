CONSTANTS
  tree = tree
  inner = inner
  other = other
  ring = ring
  broken = broken
  long = long
  empty = empty
  far = far
  toFile = toFile
  toOther = toOther
  toRing = toRing
  toNothing = toNothing
  alias = alias
  Nowhere = Nowhere
  Files <- MCFiles
  Dirs <- MCDirs
  Links <- MCLinks
  Entries <- MCEntries
  Target <- MCTarget
  Size <- MCSize
  Wishes <- MCWishes
  MaxLinks = 2
  MaxRequests = 2
  MaxBytes = 4

SPECIFICATION FairSpec

INVARIANTS
  TypeOK
  CopiesAreWhole
  ProgressIsTrue

PROPERTIES
  ServesAsPipe
  RemovesOnlyInside

CHECK_DEADLOCK FALSE
