CONSTANTS
  MaxJobs = 2
  MaxBytes = 0
  Filled = {}
  MaxBrowseId = 2

SPECIFICATION CloseSpec

PROPERTY ClosingCancels

CHECK_DEADLOCK FALSE
