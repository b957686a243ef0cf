CONSTANTS
  both = both
  plain = plain
  Tabs <- MCOneTab
  Browsing <- MCBrowsing
  MaxOpens <- MCOneOpen
  MaxStarts = 1
  NoWorker = NoWorker

SPECIFICATION FairSpec

PROPERTY GuiComesBack

CHECK_DEADLOCK FALSE
