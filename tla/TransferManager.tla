-------------------------- MODULE TransferManager --------------------------
(***************************************************************************)
(* files::TransferManager, the queue of copies behind the file browser, on *)
(* top of the request pipe of SftpSession.                                 *)
(*                                                                         *)
(* The manager lives on the GUI thread.  Its table holds one row per job;  *)
(* m_runningRow is a position in that table, which clearCompleted() shifts *)
(* while a transfer is in flight, and every signal names its request by an *)
(* id that is looked up in the table.  Rows are numbered from 1 here and 0 *)
(* is the code's -1.                                                       *)
(***************************************************************************)
EXTENDS SftpSession

CONSTANTS
  MaxJobs,      \* bound: jobs ever enqueued
  MaxBrowseId   \* bound: no browsing request is posted from this id on

ASSUME BoundsAssumption == MaxJobs \in Nat /\ MaxBrowseId \in Nat

VARIABLES
  jobs,         \* TransferManager::m_jobs
  runningRow,   \* TransferManager::m_runningRow, plus one
  nextJobId,    \* TransferManager::m_nextJobId
  clearRow,     \* the row clearCompleted() looks at next; 0: not in its loop
  asked         \* history: ids of the jobs the user asked to cancel

managerVars == <<jobs, runningRow, nextJobId, clearRow, asked>>

vars == <<nextRequestId, calls, worker, cancelRequests, signals,
          jobs, runningRow, nextJobId, clearRow, asked>>

Directions == {"download", "upload"}

OverStates == {"Completed", "Failed", "Cancelled"}

JobStates == {"Queued", "Running"} \cup OverStates

JobSet == [id : Nat \ {0}, dir : Directions, state : JobStates,
           requestId : Nat, moved : Nat, total : Nat]

NewJob(id, dir) ==
  [id |-> id, dir |-> dir, state |-> "Queued", requestId |-> 0, moved |-> 0, total |-> 0]

RowsIn(state) == {r \in DOMAIN jobs : jobs[r].state = state}

(* The GUI thread handles one event at a time: it is free between events. *)
GuiFree == clearRow = 0

TypeOK ==
  /\ PipeTypeOK
  /\ jobs \in Seq(JobSet)
  /\ runningRow \in Nat
  /\ nextJobId \in Nat \ {0}
  /\ clearRow \in Nat
  /\ asked \subseteq Nat

Init ==
  /\ PipeInit
  /\ jobs = <<>>
  /\ runningRow = 0
  /\ nextJobId = 1
  /\ clearRow = 0
  /\ asked = {}

-----------------------------------------------------------------------------
(* Variant of StartNext: the job enqueued last goes first. *)
StartLast(table, row, posted, next) ==
  LET queued == {r \in DOMAIN table : table[r].state = "Queued"}
  IN  \/ /\ row # 0 \/ queued = {}
         /\ jobs' = table
         /\ runningRow' = row
         /\ calls' = posted
         /\ nextRequestId' = next
      \/ /\ row = 0
         /\ \E r \in queued :
              /\ \A q \in queued : q <= r
              /\ jobs' = [table EXCEPT ![r] = [@ EXCEPT !.state = "Running",
                                                        !.requestId = next]]
              /\ runningRow' = r
         /\ calls' = Append(posted, Call("transfer", next))
         /\ nextRequestId' = next + 1

(***************************************************************************)
(* startNext(), called in a handler that has made the table `table', the   *)
(* running row `row', the posted calls `posted' and the next id `next'.    *)
(***************************************************************************)
StartNext(table, row, posted, next) ==
  LET queued == {r \in DOMAIN table : table[r].state = "Queued"}
  IN  \/ /\ row # 0 \/ queued = {}
         /\ jobs' = table
         /\ runningRow' = row
         /\ calls' = posted
         /\ nextRequestId' = next
      \/ /\ row = 0
         /\ \E r \in queued :
              /\ \A q \in queued : r <= q
              /\ jobs' = [table EXCEPT ![r] = [@ EXCEPT !.state = "Running",
                                                        !.requestId = next]]
              /\ runningRow' = r
         /\ calls' = Append(posted, Call("transfer", next))
         /\ nextRequestId' = next + 1

(* enqueueDownload() and enqueueUpload() *)
Enqueue(dir) ==
  /\ GuiFree
  /\ nextJobId <= MaxJobs
  /\ StartNext(Append(jobs, NewJob(nextJobId, dir)), runningRow, calls, nextRequestId)
  /\ nextJobId' = nextJobId + 1
  /\ UNCHANGED <<worker, cancelRequests, signals, clearRow, asked>>

(* cancel() on the row of a job *)
Cancel(row) ==
  /\ GuiFree
  /\ asked' = asked \cup {jobs[row].id}
  /\ \/ /\ jobs[row].state = "Running"
        /\ cancelRequests' = cancelRequests \cup {jobs[row].requestId}
        /\ UNCHANGED jobs
     \/ /\ jobs[row].state = "Queued"
        /\ jobs' = [jobs EXCEPT ![row] = [@ EXCEPT !.state = "Cancelled"]]
        /\ UNCHANGED cancelRequests
  /\ UNCHANGED <<nextRequestId, calls, worker, signals, runningRow, nextJobId, clearRow>>

CancelAll ==
  /\ GuiFree
  /\ asked' = asked \cup {jobs[r].id : r \in RowsIn("Running") \cup RowsIn("Queued")}
  /\ cancelRequests' = cancelRequests \cup {jobs[r].requestId : r \in RowsIn("Running")}
  /\ jobs' = [r \in DOMAIN jobs |->
                IF jobs[r].state = "Queued"
                  THEN [jobs[r] EXCEPT !.state = "Cancelled"]
                  ELSE jobs[r]]
  /\ UNCHANGED <<nextRequestId, calls, worker, signals, runningRow, nextJobId, clearRow>>

(***************************************************************************)
(* clearCompleted() walks the table from its end and removes the rows that *)
(* are over; ClearRow is one round of its loop.                            *)
(***************************************************************************)
BeginClearOneOff ==   \* variant: the loop starts one row too early
  /\ GuiFree
  /\ clearRow' = Len(jobs) - 1
  /\ UNCHANGED <<pipeVars, jobs, runningRow, nextJobId, asked>>

BeginClear ==
  /\ GuiFree
  /\ clearRow' = Len(jobs)
  /\ UNCHANGED <<pipeVars, jobs, runningRow, nextJobId, asked>>

WithoutRow(row) ==
  [r \in 1..(Len(jobs) - 1) |-> IF r < row THEN jobs[r] ELSE jobs[r + 1]]

ClearRowUnshifted ==   \* variant: the running row does not move with its job
  /\ clearRow # 0
  /\ clearRow' = clearRow - 1
  /\ jobs' = IF jobs[clearRow].state \in OverStates THEN WithoutRow(clearRow) ELSE jobs
  /\ UNCHANGED <<pipeVars, runningRow, nextJobId, asked>>

ClearRow ==
  /\ clearRow # 0
  /\ clearRow' = clearRow - 1
  /\ \/ /\ jobs[clearRow].state \notin OverStates
        /\ UNCHANGED <<jobs, runningRow>>
     \/ /\ jobs[clearRow].state \in OverStates
        /\ jobs' = WithoutRow(clearRow)
        /\ runningRow' = IF runningRow > clearRow THEN runningRow - 1 ELSE runningRow
  /\ UNCHANGED <<pipeVars, nextJobId, asked>>

-----------------------------------------------------------------------------
(***************************************************************************)
(* Other users of the same pipe: the remote pane lists directories and     *)
(* changes the remote tree at any time.                                    *)
(***************************************************************************)
Browse(kind) ==
  /\ GuiFree
  /\ nextRequestId < MaxBrowseId
  /\ calls' = Append(calls, Call(kind, nextRequestId))
  /\ nextRequestId' = nextRequestId + 1
  /\ UNCHANGED <<worker, cancelRequests, signals, managerVars>>

(***************************************************************************)
(* Signals.  indexOfRequest() finds the row of a running job by its        *)
(* request id, and a signal for no such row is none of the manager's.      *)
(***************************************************************************)
IsRequestOf(row, id) ==
  /\ id # 0
  /\ jobs[row].requestId = id
  /\ jobs[row].state = "Running"

OwnsRequest(id) == \E row \in DOMAIN jobs : IsRequestOf(row, id)

Arrives(kinds) ==
  /\ GuiFree
  /\ signals # <<>>
  /\ Head(signals).kind \in kinds
  /\ signals' = Tail(signals)

ShowTotal ==
  /\ Arrives({"transferStarted"})
  /\ \E row \in DOMAIN jobs :
       /\ IsRequestOf(row, Head(signals).id)
       /\ jobs' = [jobs EXCEPT ![row] = [@ EXCEPT !.total = Head(signals).total]]
  /\ UNCHANGED <<nextRequestId, calls, worker, cancelRequests,
                 runningRow, nextJobId, clearRow, asked>>

ShowProgress ==
  /\ Arrives({"transferProgress"})
  /\ \E row \in DOMAIN jobs :
       /\ IsRequestOf(row, Head(signals).id)
       /\ jobs' = [jobs EXCEPT ![row] = [@ EXCEPT !.moved = Head(signals).moved,
                                                  !.total = Head(signals).total]]
  /\ UNCHANGED <<nextRequestId, calls, worker, cancelRequests,
                 runningRow, nextJobId, clearRow, asked>>

(***************************************************************************)
(* finishCurrent() acts on the row remembered, not on the row looked up.   *)
(* A completed upload makes the remote pane re-read its directory before   *)
(* the next job is started, if the pane shows one.                         *)
(***************************************************************************)
FinishCurrent(state) ==
  LET job   == jobs[runningRow]
      over  == [job EXCEPT !.state = state, !.requestId = 0,
                           !.moved = IF state = "Completed" THEN job.total ELSE @]
      table == [jobs EXCEPT ![runningRow] = over]
  IN  \/ StartNext(table, 0, calls, nextRequestId)
      \/ /\ state = "Completed"
         /\ job.dir = "upload"
         /\ nextRequestId < MaxBrowseId
         /\ StartNext(table, 0, Append(calls, Call("list", nextRequestId)),
                      nextRequestId + 1)

Answers == {"transferFinished", "operationFailed", "operationCancelled"}

Outcome(kind) ==
  CASE kind = "transferFinished"   -> "Completed"
    [] kind = "operationFailed"    -> "Failed"
    [] kind = "operationCancelled" -> "Cancelled"

EndTransferUnchecked ==   \* variant: any answer ends the running transfer
  /\ Arrives(Answers)
  /\ runningRow \in DOMAIN jobs
  /\ FinishCurrent(Outcome(Head(signals).kind))
  /\ UNCHANGED <<worker, cancelRequests, nextJobId, clearRow, asked>>

EndTransfer ==
  /\ Arrives(Answers)
  /\ OwnsRequest(Head(signals).id)
  /\ runningRow \in DOMAIN jobs
  /\ FinishCurrent(Outcome(Head(signals).kind))
  /\ UNCHANGED <<worker, cancelRequests, nextJobId, clearRow, asked>>

(* A signal about a request that is not a running transfer. *)
IgnoreSignal ==
  /\ Arrives(SignalKinds \ {"operationFinished"})
  /\ \/ ~OwnsRequest(Head(signals).id)
     \/ Head(signals).kind \in Answers /\ runningRow \notin DOMAIN jobs
  /\ UNCHANGED <<nextRequestId, calls, worker, cancelRequests, managerVars>>

(* A mutation of the remote tree landed: the remote pane re-reads. *)
MutationDone ==
  /\ Arrives({"operationFinished"})
  /\ \/ UNCHANGED <<calls, nextRequestId>>
     \/ /\ nextRequestId < MaxBrowseId
        /\ calls' = Append(calls, Call("list", nextRequestId))
        /\ nextRequestId' = nextRequestId + 1
  /\ UNCHANGED <<worker, cancelRequests, managerVars>>

Deliver ==
  \/ ShowTotal
  \/ ShowProgress
  \/ EndTransfer
  \/ IgnoreSignal
  \/ MutationDone

UserStep ==
  \/ \E dir \in Directions : Enqueue(dir)
  \/ \E row \in RowsIn("Running") \cup RowsIn("Queued") : Cancel(row)
  \/ CancelAll
  \/ BeginClear
  \/ \E kind \in {"list", "mutate"} : Browse(kind)

Work == WorkerStep /\ UNCHANGED managerVars

Next == Work \/ Deliver \/ ClearRow \/ UserStep

Spec == Init /\ [][Next]_vars

(***************************************************************************)
(* The worker's event loop serves what is posted to it, and a loop once    *)
(* begun is run through.  The GUI's event loop delivers what is posted to  *)
(* it between the user's actions, however often the user acts: strong      *)
(* fairness, for a signal waits while a handler runs.  Nothing makes the   *)
(* user act.                                                               *)
(***************************************************************************)
Fairness == WF_vars(Work) /\ WF_vars(ClearRow) /\ SF_vars(Deliver)

FairSpec == Spec /\ Fairness

-----------------------------------------------------------------------------
(***************************************************************************)
(* Safety.                                                                 *)
(***************************************************************************)

(***************************************************************************)
(* The remembered row is the row of the one running job, whatever rows     *)
(* clearCompleted() has removed around it (TransferManager.cpp:320).       *)
(***************************************************************************)
RunningRowIsTheRunningJob ==
  /\ runningRow \in 0..Len(jobs)
  /\ \A row \in DOMAIN jobs : jobs[row].state = "Running" <=> row = runningRow

(* Where the request of a job can be: posted, being served, or answered. *)
Posted(id) == {i \in DOMAIN calls : calls[i] = Call("transfer", id)}

Served(id) == Busy /\ worker.id = id

Answered(id) == {i \in DOMAIN signals : /\ signals[i].id = id
                                        /\ signals[i].kind \in Answers}

(***************************************************************************)
(* The request of the running job is somewhere on its way round, so the    *)
(* answer that lets the queue go on is still to come: neither a deletion   *)
(* of rows, nor a failed listing, nor a late cancellation swallows it.     *)
(***************************************************************************)
RequestNeverLost ==
  runningRow # 0 =>
    LET id == jobs[runningRow].requestId
    IN  Posted(id) # {} \/ Served(id) \/ Answered(id) # {}

(***************************************************************************)
(* The connection the jobs share never has two transfers to carry: every   *)
(* transfer posted or being served is the running job's, and it is in one  *)
(* place only ("Jobs run strictly one at a time", TransferManager.hpp:35). *)
(***************************************************************************)
OneTransferOut ==
  LET posted == {i \in DOMAIN calls : calls[i].kind = "transfer"}
  IN  /\ posted # {} \/ Busy => runningRow # 0
      /\ runningRow # 0 =>
           LET id == jobs[runningRow].requestId
           IN  /\ \A i \in posted : calls[i].id = id
               /\ Busy => worker.id = id
               /\ \A i, j \in posted : i = j
               /\ \A i, j \in Answered(id) : i = j
               /\ ~(posted # {} /\ (Busy \/ Answered(id) # {}))
               /\ ~(Busy /\ Answered(id) # {})

(***************************************************************************)
(* A job ends as cancelled only if the user asked for that very job: ids   *)
(* left behind in the cancel set by a cancellation that came too late      *)
(* never stop a later transfer.                                            *)
(***************************************************************************)
OnlyAskedIsCancelled ==
  \A row \in DOMAIN jobs : jobs[row].state = "Cancelled" => jobs[row].id \in asked

(***************************************************************************)
(* What the queue promises: the abstract queue of SerialTransfers, where a *)
(* job whose row is gone is over.                                          *)
(***************************************************************************)
StatusIn(state) ==
  CASE state = "Queued"     -> "waiting"
    [] state = "Running"    -> "running"
    [] state \in OverStates -> "over"

Status(job) ==
  IF job >= nextJobId THEN "absent"
  ELSE IF \E row \in DOMAIN jobs : jobs[row].id = job
    THEN StatusIn(jobs[CHOOSE row \in DOMAIN jobs : jobs[row].id = job].state)
    ELSE "over"

Serial == INSTANCE SerialTransfers
            WITH status <- [job \in 1..MaxJobs |-> Status(job)]

(***************************************************************************)
(* Every step of the queue is a step of the abstract queue, or none; and a *)
(* job that was enqueued completes, fails or is cancelled.                 *)
(***************************************************************************)
RunsAsSerialQueue == Serial!LiveSpec

=============================================================================
