CONSTANTS
  MaxJobs = 3
  MaxBytes = 1
  Filled = {2}
  MaxBrowseId = 3

SPECIFICATION FairSpec

INVARIANTS
  TypeOK
  RunningRowIsTheRunningJob
  RequestNeverLost
  OneTransferOut
  OnlyAskedIsCancelled

PROPERTY RunsAsSerialQueue
