SPECIFICATION Spec
CONSTANTS
  TabWidth = 2
  Sizes <- MCSizes
  FirstSize <- MCFirstSize
  Limit = 1
  Counts = {1, 2}
  Pens = {"plain", "bold"}
  DefaultPen = "plain"
  MaxSteps = 5
INVARIANT TypeOK
PROPERTIES
  TextIsKept
  WritingKeepsGlyphsWhole
  FlagsMoveWithLines
  LeavesNoTrace
CHECK_DEADLOCK FALSE
