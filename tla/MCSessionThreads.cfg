CONSTANTS
  both = both
  plain = plain
  Tabs <- MCTabs
  Browsing <- MCBrowsing
  MaxOpens <- MCMaxOpens
  MaxStarts = 1
  NoWorker = NoWorker

SPECIFICATION FairSpec

INVARIANTS
  TypeOK
  AskedOnce

PROPERTY WaitersGetOn

CHECK_DEADLOCK FALSE
