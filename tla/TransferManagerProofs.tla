----------------------- MODULE TransferManagerProofs -----------------------
(***************************************************************************)
(* Proofs about TransferManager for every value of its constants.          *)
(***************************************************************************)
EXTENDS TransferManager, TLAPS

(* The loop of clearCompleted() stays in the table. *)
ClearInTable == clearRow <= Len(jobs)

-----------------------------------------------------------------------------
(***************************************************************************)
(* Type correctness.                                                       *)
(***************************************************************************)
LEMMA InitType == Init => TypeOK /\ ClearInTable
  BY DEF Init, PipeInit, TypeOK, PipeTypeOK, ClearInTable, Idle, WorkerSet

(* startNext() keeps the types of the table and of the pipe it is given. *)
LEMMA StartNextType ==
  ASSUME NEW table \in Seq(JobSet), NEW row \in Nat,
         NEW posted \in Seq(CallSet), NEW next \in Nat \ {0},
         StartNext(table, row, posted, next)
  PROVE  /\ jobs' \in Seq(JobSet)
         /\ Len(jobs') = Len(table)
         /\ runningRow' \in Nat
         /\ calls' \in Seq(CallSet)
         /\ nextRequestId' \in Nat \ {0}
  <1>1. CASE row # 0 \/ {r \in DOMAIN table : table[r].state = "Queued"} = {}
    BY <1>1 DEF StartNext
  <1>2. CASE /\ row = 0
             /\ {r \in DOMAIN table : table[r].state = "Queued"} # {}
    <2>1. PICK r \in DOMAIN table :
            /\ jobs' = [table EXCEPT ![r] = [@ EXCEPT !.state = "Running",
                                                      !.requestId = next]]
            /\ runningRow' = r
            /\ calls' = Append(posted, Call("transfer", next))
            /\ nextRequestId' = next + 1
      BY <1>2 DEF StartNext
    <2>2. Call("transfer", next) \in CallSet
      BY DEF Call, CallSet, RequestKinds
    <2>3. r \in Nat /\ table[r] \in JobSet
      OBVIOUS
    <2>4. [table[r] EXCEPT !.state = "Running", !.requestId = next] \in JobSet
      BY <2>3 DEF JobSet, JobStates
    <2>5. QED
      BY <2>1, <2>2, <2>3, <2>4
  <1>3. QED
    BY <1>1, <1>2

(* The records that travel through the pipe. *)
LEMMA SignalTyped ==
  ASSUME NEW kind \in SignalKinds, NEW id \in Nat, NEW moved \in Nat, NEW total \in Nat
  PROVE  Signal(kind, id, moved, total) \in SignalSet /\ Answer(kind, id) \in SignalSet
  BY DEF Signal, Answer, SignalSet

LEMMA HeadTyped ==
  ASSUME NEW S, NEW s \in Seq(S), s # <<>>
  PROVE  Head(s) \in S /\ Tail(s) \in Seq(S)
  OBVIOUS

LEMMA OneOrTwoTyped ==
  ASSUME NEW S, NEW a \in S, NEW b \in S
  PROVE  <<a>> \in Seq(S) /\ <<a, b>> \in Seq(S)
  OBVIOUS

LEMMA UpdatedTyped ==
  ASSUME NEW S, NEW s \in Seq(S), NEW i \in DOMAIN s, NEW x \in S
  PROVE  [s EXCEPT ![i] = x] \in Seq(S) /\ Len([s EXCEPT ![i] = x]) = Len(s)
  OBVIOUS

LEMMA RowTyped ==
  ASSUME TypeOK, NEW row \in DOMAIN jobs
  PROVE  /\ jobs[row] \in JobSet
         /\ jobs[row].id \in Nat
         /\ jobs[row].requestId \in Nat
         /\ jobs[row].total \in Nat
  <1>1. jobs[row] \in JobSet
    BY DEF TypeOK
  <1>2. QED
    BY <1>1 DEF JobSet

(* An answer leaves the worker idle and adds to the signals. *)
LEMMA AnswerTransferType ==
  ASSUME TypeOK, NEW answers \in Seq(SignalSet), AnswerTransfer(answers)
  PROVE  PipeTypeOK'
  <1>1. Idle \in WorkerSet
    BY DEF Idle, WorkerSet
  <1>2. signals \o answers \in Seq(SignalSet)
    BY DEF TypeOK, PipeTypeOK
  <1>3. QED
    BY <1>1, <1>2 DEF AnswerTransfer, TypeOK, PipeTypeOK

LEMMA WorkType == TypeOK /\ Work => PipeTypeOK'
  <1> SUFFICES ASSUME TypeOK, Work
               PROVE  PipeTypeOK'
    OBVIOUS
  <1> USE MaxBytesAssumption
  <1>0. worker.id \in Nat /\ worker.moved \in Nat /\ worker.total \in Nat
    BY DEF TypeOK, PipeTypeOK, WorkerSet
  <1>1. ASSUME calls # <<>>
        PROVE  Head(calls) \in CallSet /\ Tail(calls) \in Seq(CallSet)
                 /\ Head(calls).id \in Nat
    <2>1. Head(calls) \in CallSet /\ Tail(calls) \in Seq(CallSet)
      BY <1>1, HeadTyped DEF TypeOK, PipeTypeOK
    <2>2. QED
      BY <2>1 DEF CallSet
  <1>2. CASE ServeList
    <2>1. PICK kind \in {"listingReady", "operationFailed"} :
            signals' = Append(signals, Answer(kind, Head(calls).id))
      BY <1>2 DEF ServeList
    <2>2. Answer(kind, Head(calls).id) \in SignalSet
      BY <1>1, <1>2, <2>1, SignalTyped DEF ServeList, SignalKinds
    <2>3. signals' \in Seq(SignalSet)
      BY <2>1, <2>2 DEF TypeOK, PipeTypeOK
    <2>4. QED
      BY <1>1, <1>2, <2>3 DEF ServeList, TypeOK, PipeTypeOK
  <1>3. CASE ServeMutation
    <2>1. PICK kind \in {"operationFinished", "operationFailed"} :
            signals' = Append(signals, Answer(kind, Head(calls).id))
      BY <1>3 DEF ServeMutation
    <2>2. Answer(kind, Head(calls).id) \in SignalSet
      BY <1>1, <1>3, <2>1, SignalTyped DEF ServeMutation, SignalKinds
    <2>3. signals' \in Seq(SignalSet)
      BY <2>1, <2>2 DEF TypeOK, PipeTypeOK
    <2>4. QED
      BY <1>1, <1>3, <2>3 DEF ServeMutation, TypeOK, PipeTypeOK
  <1>4. CASE TakeTransfer
    <2>1. worker' \in WorkerSet
      BY <1>1, <1>4 DEF TakeTransfer, Idle, WorkerSet
    <2>2. QED
      BY <1>1, <1>4, <2>1 DEF TakeTransfer, TypeOK, PipeTypeOK
  <1>5. CASE SizingFails \/ MovingFails
    <2>1. Answer("operationFailed", worker.id) \in SignalSet
      BY <1>0, SignalTyped DEF SignalKinds
    <2>2. QED
      BY <1>5, <2>1, OneOrTwoTyped, AnswerTransferType DEF SizingFails, MovingFails
  <1>6. CASE NoticeCancel
    <2>1. Answer("operationCancelled", worker.id) \in SignalSet
      BY <1>0, SignalTyped DEF SignalKinds
    <2>2. QED
      BY <1>6, <2>1, OneOrTwoTyped, AnswerTransferType DEF NoticeCancel
  <1>7. CASE StartMoving
    <2>1. PICK total \in 0..MaxBytesOf(worker.id) :
            /\ worker' = [worker EXCEPT !.phase = "moving", !.total = total]
            /\ signals' = Append(signals, Signal("transferStarted", worker.id, 0, total))
      BY <1>7 DEF StartMoving
    <2>2. Signal("transferStarted", worker.id, 0, total) \in SignalSet
      BY <1>0, SignalTyped DEF SignalKinds
    <2>3. worker' \in WorkerSet
      <3>1. total \in Nat /\ worker \in WorkerSet
        BY DEF TypeOK, PipeTypeOK
      <3>2. QED
        BY <2>1, <3>1 DEF WorkerSet
    <2>4. signals' \in Seq(SignalSet)
      BY <2>1, <2>2 DEF TypeOK, PipeTypeOK
    <2>5. QED
      BY <1>7, <2>3, <2>4 DEF StartMoving, TypeOK, PipeTypeOK
  <1>8. CASE MoveChunk
    <2>1. Signal("transferProgress", worker.id, worker.moved + 1, worker.total) \in SignalSet
      BY <1>0, SignalTyped DEF SignalKinds
    <2>2. worker' \in WorkerSet
      <3>1. worker \in WorkerSet /\ worker' = [worker EXCEPT !.moved = @ + 1]
        BY <1>8 DEF MoveChunk, TypeOK, PipeTypeOK
      <3>2. QED
        BY <3>1 DEF WorkerSet
    <2>3. signals' \in Seq(SignalSet)
      BY <1>8, <2>1, SMTT(30) DEF MoveChunk, TypeOK, PipeTypeOK
    <2>4. QED
      BY <1>8, <2>2, <2>3 DEF MoveChunk, TypeOK, PipeTypeOK
  <1>9. CASE ReachEnd
    <2>1. worker' \in WorkerSet
      <3>1. worker \in WorkerSet /\ worker' = [worker EXCEPT !.phase = "closing"]
        BY <1>9 DEF ReachEnd, TypeOK, PipeTypeOK
      <3>2. QED
        BY <3>1 DEF WorkerSet
    <2>2. QED
      BY <1>9, <2>1 DEF ReachEnd, TypeOK, PipeTypeOK
  <1>10. CASE FinishTransfer
    <2>1. /\ Signal("transferProgress", worker.id, worker.total, worker.total) \in SignalSet
          /\ Answer("transferFinished", worker.id) \in SignalSet
      BY <1>0, SignalTyped DEF SignalKinds
    <2>2. QED
      BY <1>10, <2>1, OneOrTwoTyped, AnswerTransferType DEF FinishTransfer
  <1>11. QED
    BY <1>2, <1>3, <1>4, <1>5, <1>6, <1>7, <1>8, <1>9, <1>10 DEF Work, WorkerStep

(* The GUI's handlers keep the types. *)
LEMMA EnqueueType ==
  ASSUME TypeOK, ClearInTable, NEW dir \in Directions, Enqueue(dir)
  PROVE  TypeOK' /\ ClearInTable'
  <1>1. NewJob(nextJobId, dir) \in JobSet
    BY DEF NewJob, JobSet, JobStates, TypeOK
  <1>2. Append(jobs, NewJob(nextJobId, dir)) \in Seq(JobSet)
    BY <1>1 DEF TypeOK
  <1>3. /\ jobs' \in Seq(JobSet)
        /\ runningRow' \in Nat
        /\ calls' \in Seq(CallSet)
        /\ nextRequestId' \in Nat \ {0}
    BY <1>2, StartNextType DEF Enqueue, TypeOK, PipeTypeOK
  <1>4. QED
    BY <1>3 DEF Enqueue, TypeOK, PipeTypeOK, ClearInTable, GuiFree

LEMMA CancelType ==
  ASSUME TypeOK, ClearInTable, NEW row \in DOMAIN jobs, Cancel(row)
  PROVE  TypeOK' /\ ClearInTable'
  <1>1. jobs[row] \in JobSet /\ jobs[row].id \in Nat /\ jobs[row].requestId \in Nat
    BY RowTyped
  <1>2. [jobs[row] EXCEPT !.state = "Cancelled"] \in JobSet
    BY <1>1 DEF JobSet, JobStates, OverStates
  <1>3. jobs' \in Seq(JobSet)
    BY <1>2, SMTT(30) DEF Cancel, TypeOK
  <1>4. QED
    BY <1>1, <1>3 DEF Cancel, TypeOK, PipeTypeOK, ClearInTable, GuiFree

LEMMA CancelAllType ==
  ASSUME TypeOK, ClearInTable, CancelAll
  PROVE  TypeOK' /\ ClearInTable'
  <1>1. \A r \in DOMAIN jobs : /\ jobs[r] \in JobSet
                              /\ jobs[r].id \in Nat
                              /\ jobs[r].requestId \in Nat
    BY RowTyped
  <1>2. \A r \in DOMAIN jobs : [jobs[r] EXCEPT !.state = "Cancelled"] \in JobSet
    BY <1>1 DEF JobSet, JobStates, OverStates
  <1>3. jobs' \in Seq(JobSet)
    BY <1>1, <1>2 DEF CancelAll, TypeOK
  <1>4. asked' \subseteq Nat /\ cancelRequests' \subseteq Nat
    BY <1>1 DEF CancelAll, TypeOK, PipeTypeOK, RowsIn
  <1>5. QED
    BY <1>3, <1>4 DEF CancelAll, TypeOK, PipeTypeOK, ClearInTable, GuiFree

(* One round of clearCompleted(): the table stays a table, one row shorter. *)
LEMMA WithoutRowType ==
  ASSUME NEW row \in 1..Len(jobs), jobs \in Seq(JobSet)
  PROVE  WithoutRow(row) \in Seq(JobSet) /\ Len(WithoutRow(row)) = Len(jobs) - 1
  BY DEF WithoutRow

LEMMA ClearRowType ==
  ASSUME TypeOK, ClearInTable, ClearRow
  PROVE  TypeOK' /\ ClearInTable'
  <1>1. clearRow \in 1..Len(jobs)
    BY DEF TypeOK, ClearInTable, ClearRow
  <1>2. \/ jobs' = jobs
        \/ jobs' = WithoutRow(clearRow)
    BY DEF ClearRow
  <1>3. jobs' \in Seq(JobSet) /\ Len(jobs') >= Len(jobs) - 1
    BY <1>1, <1>2, WithoutRowType DEF TypeOK
  <1>4. clearRow' \in Nat /\ clearRow' <= Len(jobs')
    BY <1>1, <1>3 DEF ClearRow, TypeOK
  <1>5. runningRow' \in Nat
    BY <1>1 DEF ClearRow, TypeOK
  <1>6. QED
    BY <1>3, <1>4, <1>5 DEF ClearRow, TypeOK, PipeTypeOK, ClearInTable, pipeVars

LEMMA ShowType ==
  ASSUME TypeOK, ClearInTable, ShowTotal \/ ShowProgress
  PROVE  TypeOK' /\ ClearInTable'
  <1>1. Head(signals) \in SignalSet /\ signals' \in Seq(SignalSet)
    <2>1. signals # <<>> /\ signals' = Tail(signals)
      BY DEF ShowTotal, ShowProgress, Arrives
    <2>2. QED
      BY <2>1, HeadTyped DEF TypeOK, PipeTypeOK
  <1>2. Head(signals).moved \in Nat /\ Head(signals).total \in Nat
    BY <1>1 DEF SignalSet
  <1>3. PICK row \in DOMAIN jobs, moved \in Nat, total \in Nat :
          jobs' = [jobs EXCEPT ![row] = [@ EXCEPT !.moved = moved, !.total = total]]
    <2>1. CASE ShowTotal
      <3>1. PICK row \in DOMAIN jobs :
              jobs' = [jobs EXCEPT ![row] = [@ EXCEPT !.total = Head(signals).total]]
        BY <2>1 DEF ShowTotal
      <3>2. jobs[row] \in JobSet
        BY RowTyped
      <3>3. /\ jobs[row].moved \in Nat
            /\ [jobs[row] EXCEPT !.total = Head(signals).total]
                 = [jobs[row] EXCEPT !.moved = jobs[row].moved, !.total = Head(signals).total]
        BY <3>2, <1>2 DEF JobSet
      <3>4. QED
        BY <3>1, <3>3, <1>2
    <2>2. CASE ShowProgress
      BY <2>2, <1>2 DEF ShowProgress
    <2>3. QED
      BY <2>1, <2>2
  <1>4. jobs[row] \in JobSet
    BY RowTyped
  <1>5. [jobs[row] EXCEPT !.moved = moved, !.total = total] \in JobSet
    BY <1>4 DEF JobSet
  <1>6. jobs' \in Seq(JobSet) /\ Len(jobs') = Len(jobs)
    BY <1>3, <1>5 DEF TypeOK
  <1>7. QED
    BY <1>1, <1>6 DEF ShowTotal, ShowProgress, TypeOK, PipeTypeOK, ClearInTable

(* finishCurrent() and the start of the next job. *)
LEMMA EndTransferType ==
  ASSUME TypeOK, ClearInTable, EndTransfer
  PROVE  TypeOK' /\ ClearInTable'
  <1> DEFINE state == Outcome(Head(signals).kind)
             job   == jobs[runningRow]
             over  == [job EXCEPT !.state = state, !.requestId = 0,
                                  !.moved = IF state = "Completed" THEN job.total ELSE @]
             table == [jobs EXCEPT ![runningRow] = over]
  <1>1. Head(signals).kind \in Answers /\ signals' \in Seq(SignalSet)
    BY HeadTyped DEF EndTransfer, Arrives, TypeOK, PipeTypeOK
  <1>2. state \in OverStates
    BY <1>1 DEF Outcome, Answers, OverStates
  <1>3. job \in JobSet
    BY RowTyped DEF EndTransfer
  <1>4. over \in JobSet
    BY <1>2, <1>3 DEF JobSet, JobStates
  <1>5. table \in Seq(JobSet) /\ Len(table) = Len(jobs)
    <2>1. jobs \in Seq(JobSet) /\ runningRow \in DOMAIN jobs
      BY DEF EndTransfer, TypeOK
    <2> HIDE DEF over
    <2>2. QED
      BY <1>4, <2>1, UpdatedTyped
  <1>6. PICK posted \in Seq(CallSet), next \in Nat \ {0} : StartNext(table, 0, posted, next)
    <2>1. /\ calls \in Seq(CallSet)
          /\ nextRequestId \in Nat \ {0}
          /\ nextRequestId + 1 \in Nat \ {0}
      BY DEF TypeOK, PipeTypeOK
    <2>2. Call("list", nextRequestId) \in CallSet
      BY <2>1 DEF Call, CallSet, RequestKinds
    <2>3. Append(calls, Call("list", nextRequestId)) \in Seq(CallSet)
      BY <2>1, <2>2
    <2>4. \/ StartNext(table, 0, calls, nextRequestId)
          \/ StartNext(table, 0, Append(calls, Call("list", nextRequestId)), nextRequestId + 1)
      BY DEF EndTransfer, FinishCurrent
    <2>5. QED
      BY <2>1, <2>3, <2>4
  <1>7. /\ jobs' \in Seq(JobSet)
        /\ Len(jobs') = Len(jobs)
        /\ runningRow' \in Nat
        /\ calls' \in Seq(CallSet)
        /\ nextRequestId' \in Nat \ {0}
    <2> HIDE DEF table
    <2>1. QED
      BY <1>5, <1>6, StartNextType
  <1>8. QED
    BY <1>1, <1>7 DEF EndTransfer, TypeOK, PipeTypeOK, ClearInTable

(* The manager's other handlers. *)
LEMMA QuietType ==
  ASSUME TypeOK, ClearInTable,
         \/ BeginClear
         \/ \E kind \in {"list", "mutate"} : Browse(kind)
         \/ IgnoreSignal
         \/ MutationDone
         \/ UNCHANGED vars
  PROVE  TypeOK' /\ ClearInTable'
  <1>1. CASE BeginClear
    BY <1>1 DEF BeginClear, TypeOK, PipeTypeOK, ClearInTable, pipeVars
  <1>2. ASSUME NEW kind \in {"list", "mutate"}
        PROVE  Append(calls, Call(kind, nextRequestId)) \in Seq(CallSet)
    <2>1. Call(kind, nextRequestId) \in CallSet
      BY DEF Call, CallSet, RequestKinds, TypeOK, PipeTypeOK
    <2>2. QED
      BY <2>1 DEF TypeOK, PipeTypeOK
  <1>3. ASSUME NEW kind \in {"list", "mutate"}, Browse(kind)
        PROVE  TypeOK' /\ ClearInTable'
    BY <1>2, <1>3 DEF Browse, TypeOK, PipeTypeOK, ClearInTable, managerVars
  <1>4. ASSUME signals # <<>>
        PROVE  Tail(signals) \in Seq(SignalSet)
    BY <1>4, HeadTyped DEF TypeOK, PipeTypeOK
  <1>5. CASE IgnoreSignal
    BY <1>4, <1>5 DEF IgnoreSignal, Arrives, TypeOK, PipeTypeOK, ClearInTable, managerVars
  <1>6. CASE MutationDone
    <2>1. \/ calls' = calls /\ nextRequestId' = nextRequestId
          \/ /\ calls' = Append(calls, Call("list", nextRequestId))
             /\ nextRequestId' = nextRequestId + 1
      BY <1>6 DEF MutationDone
    <2>2. calls' \in Seq(CallSet) /\ nextRequestId' \in Nat \ {0}
      <3>1. Append(calls, Call("list", nextRequestId)) \in Seq(CallSet)
        BY <1>2
      <3>2. calls \in Seq(CallSet) /\ nextRequestId \in Nat \ {0}
        BY DEF TypeOK, PipeTypeOK
      <3>3. nextRequestId' \in Nat \ {0}
        BY <2>1, <3>2
      <3>4. QED
        BY <2>1, <3>1, <3>2, <3>3
    <2>3. QED
      BY <1>4, <1>6, <2>2 DEF MutationDone, Arrives, TypeOK, PipeTypeOK, ClearInTable,
                              managerVars
  <1>7. CASE UNCHANGED vars
    BY <1>7 DEF vars, TypeOK, PipeTypeOK, ClearInTable
  <1>8. QED
    BY <1>1, <1>3, <1>5, <1>6, <1>7

LEMMA StepType ==
  ASSUME TypeOK, ClearInTable, [Next]_vars
  PROVE  TypeOK' /\ ClearInTable'
  <1>1. CASE Work
    BY <1>1, WorkType DEF Work, managerVars, TypeOK, ClearInTable
  <1>2. CASE Deliver
    BY <1>2, ShowType, EndTransferType, QuietType DEF Deliver
  <1>3. CASE ClearRow
    BY <1>3, ClearRowType
  <1>4. CASE UserStep
    BY <1>4, EnqueueType, CancelType, CancelAllType, QuietType DEF UserStep, RowsIn
  <1>5. CASE UNCHANGED vars
    BY <1>5, QuietType
  <1>6. QED
    BY <1>1, <1>2, <1>3, <1>4, <1>5 DEF Next

(***************************************************************************)
(* Every variable keeps its type; in particular the loop of                *)
(* clearCompleted() never reads a row outside the table it is shrinking.   *)
(***************************************************************************)
THEOREM TypeCorrect == Spec => [](TypeOK /\ ClearInTable)
  BY InitType, StepType, PTL DEF Spec

-----------------------------------------------------------------------------
(***************************************************************************)
(* The running row.  It is inductive together with the types: no handler   *)
(* needs to know where the running job's request is.                       *)
(***************************************************************************)
LEMMA StartNextRow ==
  ASSUME NEW table \in Seq(JobSet), NEW row \in 0..Len(table), NEW posted, NEW next,
         \A r \in DOMAIN table : table[r].state = "Running" <=> r = row,
         StartNext(table, row, posted, next)
  PROVE  RunningRowIsTheRunningJob'
  <1>1. CASE jobs' = table /\ runningRow' = row
    BY <1>1 DEF RunningRowIsTheRunningJob
  <1>2. CASE row = 0 /\ ~(jobs' = table /\ runningRow' = row)
    <2>1. PICK r \in DOMAIN table :
            /\ jobs' = [table EXCEPT ![r] = [@ EXCEPT !.state = "Running",
                                                      !.requestId = next]]
            /\ runningRow' = r
      BY <1>2 DEF StartNext
    <2>2. /\ DOMAIN jobs' = DOMAIN table
          /\ Len(jobs') = Len(table)
          /\ \A q \in DOMAIN table : q # r => jobs'[q] = table[q]
      BY <2>1
    <2>3. jobs'[r].state = "Running"
      <3>1. table[r] \in JobSet
        OBVIOUS
      <3>2. [table[r] EXCEPT !.state = "Running", !.requestId = next].state = "Running"
        BY <3>1 DEF JobSet
      <3>3. QED
        BY <2>1, <3>2
    <2>4. QED
      BY <1>2, <2>1, <2>2, <2>3 DEF RunningRowIsTheRunningJob
  <1>3. QED
    BY <1>1, <1>2 DEF StartNext

(* A handler that rewrites rows but not which one is running. *)
LEMMA SameRunning ==
  ASSUME TypeOK, RunningRowIsTheRunningJob, runningRow' = runningRow,
         DOMAIN jobs' = DOMAIN jobs, Len(jobs') = Len(jobs),
         \A r \in DOMAIN jobs : jobs'[r].state = "Running" <=> jobs[r].state = "Running"
  PROVE  RunningRowIsTheRunningJob'
  BY DEF RunningRowIsTheRunningJob

LEMMA StepRow ==
  ASSUME TypeOK, ClearInTable, RunningRowIsTheRunningJob, [Next]_vars
  PROVE  RunningRowIsTheRunningJob'
  <1>1. ASSUME NEW dir \in Directions, Enqueue(dir)
        PROVE  RunningRowIsTheRunningJob'
    <2> DEFINE table == Append(jobs, NewJob(nextJobId, dir))
    <2>1. NewJob(nextJobId, dir) \in JobSet /\ NewJob(nextJobId, dir).state = "Queued"
      BY DEF NewJob, JobSet, JobStates, TypeOK
    <2>2. /\ table \in Seq(JobSet)
          /\ runningRow \in 0..Len(table)
          /\ \A r \in DOMAIN table : table[r].state = "Running" <=> r = runningRow
      BY <2>1 DEF TypeOK, RunningRowIsTheRunningJob
    <2>3. StartNext(table, runningRow, calls, nextRequestId)
      BY <1>1 DEF Enqueue
    <2>4. QED
      <3> HIDE DEF table
      <3>1. QED
        BY <2>2, <2>3, StartNextRow
  <1>2. ASSUME NEW row \in RowsIn("Running") \cup RowsIn("Queued"), Cancel(row)
        PROVE  RunningRowIsTheRunningJob'
    <2>1. row \in DOMAIN jobs /\ jobs[row] \in JobSet
      BY RowTyped DEF RowsIn
    <2>2. [jobs[row] EXCEPT !.state = "Cancelled"].state = "Cancelled"
      BY <2>1 DEF JobSet
    <2>3. CASE UNCHANGED jobs
      BY <1>2, <2>3, SameRunning DEF Cancel
    <2>4. CASE /\ jobs[row].state = "Queued"
               /\ jobs' = [jobs EXCEPT ![row] = [@ EXCEPT !.state = "Cancelled"]]
      <3>1. /\ DOMAIN jobs' = DOMAIN jobs
            /\ Len(jobs') = Len(jobs)
            /\ jobs'[row].state = "Cancelled"
            /\ \A r \in DOMAIN jobs : r # row => jobs'[r] = jobs[r]
        <4>1. PICK job : job.state = "Cancelled" /\ jobs' = [jobs EXCEPT ![row] = job]
          BY <2>2, <2>4
        <4>2. QED
          BY <2>1, <4>1 DEF TypeOK
      <3>2. runningRow' = runningRow
        BY <1>2 DEF Cancel
      <3>3. QED
        BY <2>4, <3>1, <3>2, SameRunning
    <2>5. QED
      BY <1>2, <2>3, <2>4 DEF Cancel
  <1>3. CASE CancelAll
    <2>1. ASSUME NEW r \in DOMAIN jobs
          PROVE  [jobs[r] EXCEPT !.state = "Cancelled"].state = "Cancelled"
      BY RowTyped DEF JobSet
    <2>2. QED
      BY <1>3, <2>1, SameRunning DEF CancelAll, TypeOK
  <1>4. CASE ClearRow
    <2>1. clearRow \in 1..Len(jobs)
      BY <1>4 DEF TypeOK, ClearInTable, ClearRow
    <2>2. CASE jobs' = jobs /\ runningRow' = runningRow
      BY <2>2, SameRunning
    <2>3. CASE /\ jobs[clearRow].state \in OverStates
               /\ jobs' = WithoutRow(clearRow)
               /\ runningRow' = IF runningRow > clearRow THEN runningRow - 1 ELSE runningRow
      <3>1. runningRow # clearRow
        BY <2>1, <2>3 DEF RunningRowIsTheRunningJob, OverStates
      <3>2. /\ Len(jobs') = Len(jobs) - 1
            /\ DOMAIN jobs' = 1..(Len(jobs) - 1)
            /\ \A r \in 1..(Len(jobs) - 1) :
                 jobs'[r] = IF r < clearRow THEN jobs[r] ELSE jobs[r + 1]
        BY <2>1, <2>3, WithoutRowType DEF WithoutRow, TypeOK
      <3>3. runningRow \in 0..Len(jobs) /\ Len(jobs) \in Nat
        BY DEF RunningRowIsTheRunningJob, TypeOK
      <3>4. runningRow' \in 0..Len(jobs')
        BY <2>1, <2>3, <3>1, <3>2, <3>3
      <3>5. ASSUME NEW r \in DOMAIN jobs'
            PROVE  jobs'[r].state = "Running" <=> r = runningRow'
        <4>1. CASE r < clearRow
          <5>1. r \in DOMAIN jobs /\ jobs'[r] = jobs[r]
            BY <2>1, <3>2, <3>3, <4>1
          <5>2. r = runningRow <=> r = runningRow'
            BY <2>1, <2>3, <3>1, <3>2, <3>3, <4>1
          <5>3. QED
            BY <5>1, <5>2 DEF RunningRowIsTheRunningJob
        <4>2. CASE r >= clearRow
          <5>1. r + 1 \in DOMAIN jobs /\ jobs'[r] = jobs[r + 1]
            BY <2>1, <3>2, <3>3, <4>2
          <5>2. r + 1 = runningRow <=> r = runningRow'
            BY <2>1, <2>3, <3>1, <3>2, <3>3, <4>2
          <5>3. QED
            BY <5>1, <5>2 DEF RunningRowIsTheRunningJob
        <4>3. QED
          BY <2>1, <3>2, <4>1, <4>2
      <3>6. QED
        BY <3>4, <3>5 DEF RunningRowIsTheRunningJob
    <2>4. QED
      BY <1>4, <2>2, <2>3 DEF ClearRow
  <1>5. CASE ShowTotal \/ ShowProgress
    <2>1. PICK row \in DOMAIN jobs :
            \/ jobs' = [jobs EXCEPT ![row] = [@ EXCEPT !.total = Head(signals).total]]
            \/ jobs' = [jobs EXCEPT ![row] = [@ EXCEPT !.moved = Head(signals).moved,
                                                       !.total = Head(signals).total]]
      BY <1>5 DEF ShowTotal, ShowProgress
    <2>2. /\ [jobs[row] EXCEPT !.total = Head(signals).total].state = jobs[row].state
          /\ [jobs[row] EXCEPT !.moved = Head(signals).moved,
                               !.total = Head(signals).total].state = jobs[row].state
      BY RowTyped DEF JobSet
    <2>3. /\ DOMAIN jobs' = DOMAIN jobs
          /\ Len(jobs') = Len(jobs)
          /\ \A r \in DOMAIN jobs : jobs'[r].state = jobs[r].state
      <3>1. PICK job : job.state = jobs[row].state /\ jobs' = [jobs EXCEPT ![row] = job]
        BY <2>1, <2>2
      <3>2. QED
        BY <3>1 DEF TypeOK
    <2>4. QED
      BY <1>5, <2>3, SameRunning DEF ShowTotal, ShowProgress
  <1>6. CASE EndTransfer
    <2> DEFINE state == Outcome(Head(signals).kind)
               job   == jobs[runningRow]
               over  == [job EXCEPT !.state = state, !.requestId = 0,
                                    !.moved = IF state = "Completed" THEN job.total ELSE @]
               table == [jobs EXCEPT ![runningRow] = over]
    <2>1. runningRow \in DOMAIN jobs /\ job \in JobSet
      BY <1>6, RowTyped DEF EndTransfer
    <2>2. state \in OverStates
      BY <1>6 DEF EndTransfer, Arrives, Outcome, Answers, OverStates
    <2>3. over \in JobSet /\ over.state # "Running"
      BY <2>1, <2>2 DEF JobSet, JobStates, OverStates
    <2>4. /\ table \in Seq(JobSet)
          /\ 0 \in 0..Len(table)
          /\ \A r \in DOMAIN table : table[r].state = "Running" <=> r = 0
      <3> HIDE DEF over
      <3>1. table \in Seq(JobSet) /\ Len(table) = Len(jobs)
        BY <2>1, <2>3, UpdatedTyped DEF TypeOK
      <3>2. \A r \in DOMAIN jobs : table[r] = IF r = runningRow THEN over ELSE jobs[r]
        BY <2>1
      <3>3. QED
        BY <2>1, <2>3, <3>1, <3>2 DEF RunningRowIsTheRunningJob, TypeOK
    <2>5. \/ StartNext(table, 0, calls, nextRequestId)
          \/ StartNext(table, 0, Append(calls, Call("list", nextRequestId)), nextRequestId + 1)
      BY <1>6 DEF EndTransfer, FinishCurrent
    <2>6. QED
      <3> HIDE DEF table
      <3>1. QED
        BY <2>4, <2>5, StartNextRow
  <1>7. CASE UNCHANGED <<jobs, runningRow>>
    BY <1>7, SameRunning
  <1>8. QED
    BY <1>1, <1>2, <1>3, <1>4, <1>5, <1>6, <1>7
       DEF Next, Work, Deliver, UserStep, BeginClear, Browse, IgnoreSignal, MutationDone,
           managerVars, vars

(***************************************************************************)
(* m_runningRow names the row of the one running job in every reachable    *)
(* state: also between two rounds of clearCompleted(), which moves rows    *)
(* under it (TransferManager.cpp:309-323), and after every answer.         *)
(***************************************************************************)
THEOREM RunningRowCorrect == Spec => []RunningRowIsTheRunningJob
  <1>1. Init => RunningRowIsTheRunningJob
    BY DEF Init, RunningRowIsTheRunningJob
  <1>2. TypeOK /\ ClearInTable /\ RunningRowIsTheRunningJob /\ [Next]_vars
          => RunningRowIsTheRunningJob'
    BY StepRow
  <1>3. QED
    BY <1>1, <1>2, TypeCorrect, PTL DEF Spec

-----------------------------------------------------------------------------
(***************************************************************************)
(* The queue implements SerialTransfers.  Its mapping looks jobs up by id, *)
(* so the ids in the table must be distinct; and the job that is started   *)
(* next is the first row that is queued, so they must be in the order in   *)
(* which they were given out.                                              *)
(***************************************************************************)
InOrder(table) == \A q, r \in DOMAIN table : q < r => table[q].id < table[r].id

Below(table, next) == \A r \in DOMAIN table : table[r].id < next

NeverIdle(table, row) == \A r \in DOMAIN table : table[r].state = "Queued" => row # 0

QueueInv ==
  /\ nextJobId <= MaxJobs + 1
  /\ InOrder(jobs)
  /\ Below(jobs, nextJobId)
  /\ NeverIdle(jobs, runningRow)

(* What startNext() does to the table: nothing, or it starts the first row *)
(* that is queued, and none is left waiting for nobody.                    *)
LEMMA StartNextTable ==
  ASSUME NEW table \in Seq(JobSet), NEW row \in Nat, NEW posted, NEW next \in Nat,
         StartNext(table, row, posted, next)
  PROVE  /\ DOMAIN jobs' = DOMAIN table
         /\ \A q \in DOMAIN table : jobs'[q].id = table[q].id
         /\ NeverIdle(jobs', runningRow')
         /\ \/ /\ jobs' = table /\ runningRow' = row
               /\ row = 0 => \A q \in DOMAIN table : table[q].state # "Queued"
            \/ /\ row = 0
               /\ \E r \in DOMAIN table :
                    /\ table[r].state = "Queued"
                    /\ \A q \in DOMAIN table : table[q].state = "Queued" => r <= q
                    /\ \A q \in DOMAIN table :
                         jobs'[q].state = IF q = r THEN "Running" ELSE table[q].state
  <1>1. CASE /\ row # 0 \/ {r \in DOMAIN table : table[r].state = "Queued"} = {}
             /\ jobs' = table /\ runningRow' = row
    BY <1>1 DEF NeverIdle
  <1>2. CASE /\ row = 0
             /\ ~ (/\ row # 0 \/ {r \in DOMAIN table : table[r].state = "Queued"} = {}
                   /\ jobs' = table /\ runningRow' = row)
    <2>1. PICK r \in {r \in DOMAIN table : table[r].state = "Queued"} :
            /\ \A q \in {q \in DOMAIN table : table[q].state = "Queued"} : r <= q
            /\ jobs' = [table EXCEPT ![r] = [@ EXCEPT !.state = "Running",
                                                      !.requestId = next]]
            /\ runningRow' = r
      BY <1>2 DEF StartNext
    <2>2. table[r] \in JobSet /\ r # 0
      OBVIOUS
    <2> DEFINE started == [table[r] EXCEPT !.state = "Running", !.requestId = next]
    <2>3. started.state = "Running" /\ started.id = table[r].id
      BY <2>2 DEF JobSet
    <2>4. /\ DOMAIN jobs' = DOMAIN table
          /\ \A q \in DOMAIN table : jobs'[q] = IF q = r THEN started ELSE table[q]
      BY <2>1
    <2>5. QED
      <3> HIDE DEF started
      <3>1. QED
        BY <1>2, <2>1, <2>2, <2>3, <2>4 DEF NeverIdle
  <1>3. QED
    BY <1>1, <1>2 DEF StartNext

(* A handler that keeps rows and ids, and makes no row wait. *)
LEMMA SameIds ==
  ASSUME QueueInv, nextJobId' = nextJobId, DOMAIN jobs' = DOMAIN jobs,
         \A r \in DOMAIN jobs : jobs'[r].id = jobs[r].id,
         NeverIdle(jobs', runningRow')
  PROVE  QueueInv'
  BY DEF QueueInv, InOrder, Below

(* finishCurrent() marks the running row as over and starts the next. *)
LEMMA EndTransferTable ==
  ASSUME TypeOK, EndTransfer
  PROVE  \E table \in Seq(JobSet), next \in Nat : \E posted :
           /\ DOMAIN table = DOMAIN jobs
           /\ runningRow \in DOMAIN jobs
           /\ \A r \in DOMAIN jobs :
                /\ table[r].id = jobs[r].id
                /\ r # runningRow => table[r].state = jobs[r].state
           /\ table[runningRow].state \in OverStates
           /\ StartNext(table, 0, posted, next)
  <1> DEFINE state == Outcome(Head(signals).kind)
             job   == jobs[runningRow]
             over  == [job EXCEPT !.state = state, !.requestId = 0,
                                  !.moved = IF state = "Completed" THEN job.total ELSE @]
             table == [jobs EXCEPT ![runningRow] = over]
  <1>1. runningRow \in DOMAIN jobs /\ job \in JobSet
    BY RowTyped DEF EndTransfer
  <1>2. state \in OverStates
    BY DEF EndTransfer, Arrives, Outcome, Answers, OverStates
  <1>3. over \in JobSet /\ over.state \in OverStates /\ over.id = job.id
    BY <1>1, <1>2 DEF JobSet, JobStates
  <1>4. /\ table \in Seq(JobSet)
        /\ DOMAIN table = DOMAIN jobs
        /\ \A r \in DOMAIN jobs : table[r] = IF r = runningRow THEN over ELSE jobs[r]
    <2> HIDE DEF over
    <2>1. QED
      BY <1>1, <1>3, UpdatedTyped DEF TypeOK
  <1>5. /\ nextRequestId \in Nat
        /\ \/ StartNext(table, 0, calls, nextRequestId)
           \/ StartNext(table, 0, Append(calls, Call("list", nextRequestId)), nextRequestId + 1)
    BY DEF EndTransfer, FinishCurrent, TypeOK, PipeTypeOK
  <1>6. /\ \A r \in DOMAIN jobs :
             /\ table[r].id = jobs[r].id
             /\ r # runningRow => table[r].state = jobs[r].state
        /\ table[runningRow].state \in OverStates
    <2> HIDE DEF over
    <2>1. QED
      BY <1>1, <1>3, <1>4
  <1>7. PICK next \in Nat : \E posted : StartNext(table, 0, posted, next)
    <2> HIDE DEF table
    <2>1. nextRequestId + 1 \in Nat
      BY <1>5
    <2>2. QED
      BY <1>5, <2>1
  <1>8. QED
    <2> HIDE DEF table
    <2>1. QED
      BY <1>1, <1>4, <1>6, <1>7

-----------------------------------------------------------------------------
(***************************************************************************)
(* What the handlers do to the ids and states of the rows, which is all    *)
(* the abstract queue sees of the table.                                   *)
(***************************************************************************)
SameIdsBut(rows, state) ==
  /\ DOMAIN jobs' = DOMAIN jobs
  /\ nextJobId' = nextJobId
  /\ \A r \in DOMAIN jobs :
       /\ jobs'[r].id = jobs[r].id
       /\ jobs'[r].state = IF r \in rows THEN state ELSE jobs[r].state

Withdrawn(rows) ==
  /\ rows \subseteq RowsIn("Queued")
  /\ SameIdsBut(rows, "Cancelled")
  /\ runningRow' = runningRow

Appended ==
  /\ nextJobId <= MaxJobs
  /\ nextJobId' = nextJobId + 1
  /\ DOMAIN jobs' = 1..(Len(jobs) + 1)
  /\ \A r \in DOMAIN jobs : jobs'[r].id = jobs[r].id /\ jobs'[r].state = jobs[r].state
  /\ jobs'[Len(jobs) + 1].id = nextJobId
  /\ jobs'[Len(jobs) + 1].state = IF runningRow = 0 THEN "Running" ELSE "Queued"
  /\ NeverIdle(jobs', runningRow')

Ended ==
  /\ runningRow \in DOMAIN jobs
  /\ DOMAIN jobs' = DOMAIN jobs
  /\ nextJobId' = nextJobId
  /\ \A r \in DOMAIN jobs : jobs'[r].id = jobs[r].id
  /\ jobs'[runningRow].state \in OverStates
  /\ \A r \in DOMAIN jobs \ {runningRow} :
       jobs'[r].state =
         IF jobs[r].state = "Queued" /\ \A q \in RowsIn("Queued") : r <= q
           THEN "Running" ELSE jobs[r].state
  /\ NeverIdle(jobs', runningRow')

Removed(row) ==
  /\ row \in DOMAIN jobs
  /\ jobs[row].state \in OverStates
  /\ nextJobId' = nextJobId
  /\ DOMAIN jobs' = 1..(Len(jobs) - 1)
  /\ \A r \in 1..(Len(jobs) - 1) : jobs'[r] = IF r < row THEN jobs[r] ELSE jobs[r + 1]
  /\ runningRow' = IF runningRow > row THEN runningRow - 1 ELSE runningRow

(* Handlers that touch no row, or not what the queue is about. *)
LEMMA QuietRows ==
  ASSUME TypeOK,
         \/ Work \/ ShowTotal \/ ShowProgress \/ BeginClear
         \/ \E kind \in {"list", "mutate"} : Browse(kind)
         \/ IgnoreSignal \/ MutationDone \/ UNCHANGED vars
  PROVE  Withdrawn({})
  <1>1. CASE ShowTotal \/ ShowProgress
    <2>1. PICK row \in DOMAIN jobs :
            \/ jobs' = [jobs EXCEPT ![row] = [@ EXCEPT !.total = Head(signals).total]]
            \/ jobs' = [jobs EXCEPT ![row] = [@ EXCEPT !.moved = Head(signals).moved,
                                                       !.total = Head(signals).total]]
      BY <1>1 DEF ShowTotal, ShowProgress
    <2>2. jobs[row] \in JobSet
      BY RowTyped
    <2>3. PICK job : /\ job.state = jobs[row].state /\ job.id = jobs[row].id
                     /\ jobs' = [jobs EXCEPT ![row] = job]
      BY <2>1, <2>2 DEF JobSet
    <2>4. /\ DOMAIN jobs' = DOMAIN jobs
          /\ \A r \in DOMAIN jobs : jobs'[r].id = jobs[r].id /\ jobs'[r].state = jobs[r].state
      BY <2>3 DEF TypeOK
    <2>5. QED
      BY <1>1, <2>4 DEF ShowTotal, ShowProgress, Withdrawn, SameIdsBut
  <1>2. CASE UNCHANGED <<jobs, runningRow, nextJobId>>
    BY <1>2 DEF Withdrawn, SameIdsBut
  <1>3. QED
    BY <1>1, <1>2 DEF Work, BeginClear, Browse, IgnoreSignal, MutationDone, managerVars, vars

LEMMA CancelRows ==
  ASSUME TypeOK, NEW row \in DOMAIN jobs, Cancel(row)
  PROVE  Withdrawn({}) \/ Withdrawn({row})
  <1>1. CASE UNCHANGED jobs
    BY <1>1 DEF Cancel, Withdrawn, SameIdsBut
  <1>2. CASE /\ jobs[row].state = "Queued"
             /\ jobs' = [jobs EXCEPT ![row] = [@ EXCEPT !.state = "Cancelled"]]
    <2>1. jobs[row] \in JobSet
      BY RowTyped
    <2>2. PICK job : /\ job.state = "Cancelled" /\ job.id = jobs[row].id
                     /\ jobs' = [jobs EXCEPT ![row] = job]
      BY <1>2, <2>1 DEF JobSet
    <2>3. /\ DOMAIN jobs' = DOMAIN jobs
          /\ \A r \in DOMAIN jobs : jobs'[r] = IF r = row THEN job ELSE jobs[r]
      BY <2>2 DEF TypeOK
    <2>4. QED
      BY <1>2, <2>2, <2>3 DEF Cancel, Withdrawn, SameIdsBut, RowsIn
  <1>3. QED
    BY <1>1, <1>2 DEF Cancel

LEMMA CancelAllRows ==
  ASSUME TypeOK, CancelAll
  PROVE  Withdrawn(RowsIn("Queued"))
  <1>1. \A r \in DOMAIN jobs :
          /\ [jobs[r] EXCEPT !.state = "Cancelled"].state = "Cancelled"
          /\ [jobs[r] EXCEPT !.state = "Cancelled"].id = jobs[r].id
    BY RowTyped DEF JobSet
  <1>2. QED
    BY <1>1 DEF CancelAll, Withdrawn, SameIdsBut, RowsIn

LEMMA EnqueueRows ==
  ASSUME TypeOK, QueueInv, RunningRowIsTheRunningJob, NEW dir \in Directions, Enqueue(dir)
  PROVE  Appended
  <1> DEFINE table == Append(jobs, NewJob(nextJobId, dir))
  <1>1. /\ NewJob(nextJobId, dir) \in JobSet
        /\ NewJob(nextJobId, dir).state = "Queued"
        /\ NewJob(nextJobId, dir).id = nextJobId
    BY DEF NewJob, JobSet, JobStates, TypeOK
  <1>2. /\ table \in Seq(JobSet)
        /\ DOMAIN table = 1..(Len(jobs) + 1)
        /\ \A r \in DOMAIN jobs : table[r] = jobs[r]
        /\ table[Len(jobs) + 1].state = "Queued"
        /\ table[Len(jobs) + 1].id = nextJobId
    BY <1>1 DEF TypeOK
  <1>3. /\ StartNext(table, runningRow, calls, nextRequestId)
        /\ nextJobId <= MaxJobs /\ nextJobId' = nextJobId + 1
        /\ runningRow \in Nat /\ nextRequestId \in Nat /\ Len(jobs) \in Nat
    BY DEF Enqueue, TypeOK, PipeTypeOK
  <1>4. DOMAIN jobs = 1..Len(jobs)
    BY DEF TypeOK
  <1>5. runningRow = 0 => \A q \in DOMAIN jobs : table[q].state # "Queued"
    BY <1>2 DEF QueueInv, NeverIdle
  <1> HIDE DEF table
  <1>6. /\ DOMAIN jobs' = DOMAIN table
        /\ \A q \in DOMAIN table : jobs'[q].id = table[q].id
        /\ NeverIdle(jobs', runningRow')
    BY <1>2, <1>3, StartNextTable
  <1>7. CASE /\ jobs' = table /\ runningRow' = runningRow
             /\ runningRow = 0 => \A q \in DOMAIN table : table[q].state # "Queued"
    BY <1>2, <1>3, <1>4, <1>6, <1>7 DEF Appended
  <1>8. CASE /\ runningRow = 0
             /\ \E r \in DOMAIN table :
                  /\ table[r].state = "Queued"
                  /\ \A q \in DOMAIN table : table[q].state = "Queued" => r <= q
                  /\ \A q \in DOMAIN table :
                       jobs'[q].state = IF q = r THEN "Running" ELSE table[q].state
    <2>1. PICK r \in DOMAIN table :
            /\ table[r].state = "Queued"
            /\ \A q \in DOMAIN table :
                 jobs'[q].state = IF q = r THEN "Running" ELSE table[q].state
      BY <1>8
    <2>2. r = Len(jobs) + 1
      BY <1>2, <1>3, <1>4, <1>5, <1>8, <2>1
    <2>3. QED
      BY <1>2, <1>3, <1>4, <1>6, <1>8, <2>1, <2>2 DEF Appended
  <1>9. QED
    BY <1>2, <1>3, <1>7, <1>8, StartNextTable

LEMMA EndTransferRows ==
  ASSUME TypeOK, RunningRowIsTheRunningJob, EndTransfer
  PROVE  Ended
  <1>1. PICK table \in Seq(JobSet), next \in Nat :
          /\ DOMAIN table = DOMAIN jobs
          /\ runningRow \in DOMAIN jobs
          /\ \A r \in DOMAIN jobs :
               /\ table[r].id = jobs[r].id
               /\ r # runningRow => table[r].state = jobs[r].state
          /\ table[runningRow].state \in OverStates
          /\ \E posted : StartNext(table, 0, posted, next)
    BY EndTransferTable
  <1>2. /\ DOMAIN jobs' = DOMAIN table
        /\ \A q \in DOMAIN table : jobs'[q].id = table[q].id
        /\ NeverIdle(jobs', runningRow')
        /\ \/ /\ jobs' = table /\ runningRow' = 0
              /\ \A q \in DOMAIN table : table[q].state # "Queued"
           \/ \E r \in DOMAIN table :
                /\ table[r].state = "Queued"
                /\ \A q \in DOMAIN table : table[q].state = "Queued" => r <= q
                /\ \A q \in DOMAIN table :
                     jobs'[q].state = IF q = r THEN "Running" ELSE table[q].state
    BY <1>1, StartNextTable
  <1>3. /\ nextJobId' = nextJobId
        /\ jobs[runningRow].state = "Running"
        /\ table[runningRow].state # "Queued"
        /\ DOMAIN jobs \subseteq Nat
    BY <1>1 DEF EndTransfer, RunningRowIsTheRunningJob, OverStates, TypeOK
  <1>4. \A r \in DOMAIN jobs : table[r].state = "Queued" <=> jobs[r].state = "Queued"
    BY <1>1, <1>3
  <1>5. CASE /\ jobs' = table
             /\ \A q \in DOMAIN table : table[q].state # "Queued"
    BY <1>1, <1>2, <1>3, <1>4, <1>5 DEF Ended, RowsIn
  <1>6. CASE \E r \in DOMAIN table :
               /\ table[r].state = "Queued"
               /\ \A q \in DOMAIN table : table[q].state = "Queued" => r <= q
               /\ \A q \in DOMAIN table :
                    jobs'[q].state = IF q = r THEN "Running" ELSE table[q].state
    <2>1. PICK r \in DOMAIN table :
            /\ table[r].state = "Queued"
            /\ \A q \in DOMAIN table : table[q].state = "Queued" => r <= q
            /\ \A q \in DOMAIN table :
                 jobs'[q].state = IF q = r THEN "Running" ELSE table[q].state
      BY <1>6
    <2>2. r # runningRow /\ jobs'[runningRow].state \in OverStates
      BY <1>1, <1>3, <2>1
    <2>3. \A q \in DOMAIN jobs :
            (jobs[q].state = "Queued" /\ \A p \in RowsIn("Queued") : q <= p) <=> q = r
      BY <1>1, <1>3, <1>4, <2>1 DEF RowsIn
    <2>4. \A q \in DOMAIN jobs \ {runningRow} :
            jobs'[q].state = IF q = r THEN "Running" ELSE jobs[q].state
      BY <1>1, <2>1
    <2>5. QED
      BY <1>1, <1>2, <1>3, <2>2, <2>3, <2>4 DEF Ended
  <1>7. QED
    BY <1>2, <1>5, <1>6

LEMMA ClearRowRows ==
  ASSUME TypeOK, ClearInTable, ClearRow
  PROVE  Withdrawn({}) \/ Removed(clearRow)
  <1>1. clearRow \in 1..Len(jobs) /\ DOMAIN jobs = 1..Len(jobs)
    BY DEF TypeOK, ClearInTable, ClearRow
  <1>2. CASE UNCHANGED <<jobs, runningRow>>
    BY <1>2 DEF ClearRow, Withdrawn, SameIdsBut
  <1>3. CASE ~UNCHANGED <<jobs, runningRow>>
    BY <1>1, <1>3, WithoutRowType DEF ClearRow, WithoutRow, Removed, TypeOK
  <1>4. QED
    BY <1>2, <1>3

LEMMA StepRows ==
  ASSUME TypeOK, ClearInTable, RunningRowIsTheRunningJob, QueueInv, [Next]_vars
  PROVE  \/ \E rows : Withdrawn(rows)
         \/ Appended
         \/ Ended
         \/ Removed(clearRow)
  <1>1. CASE Deliver
    BY <1>1, QuietRows, EndTransferRows DEF Deliver
  <1>2. CASE UserStep
    BY <1>2, QuietRows, EnqueueRows, CancelRows, CancelAllRows DEF UserStep, RowsIn
  <1>3. CASE Work \/ ClearRow \/ UNCHANGED vars
    BY <1>3, QuietRows, ClearRowRows
  <1>4. QED
    BY <1>1, <1>2, <1>3 DEF Next

LEMMA StepQueue ==
  ASSUME TypeOK, ClearInTable, RunningRowIsTheRunningJob, QueueInv, [Next]_vars
  PROVE  QueueInv'
  <1>0. /\ nextJobId \in Nat /\ MaxJobs \in Nat /\ runningRow \in Nat
        /\ Len(jobs) \in Nat /\ DOMAIN jobs = 1..Len(jobs)
        /\ \A r \in DOMAIN jobs : jobs[r].id \in Nat
    BY RowTyped, BoundsAssumption DEF TypeOK
  <1>1. ASSUME NEW rows, Withdrawn(rows)
        PROVE  QueueInv'
    <2>1. NeverIdle(jobs', runningRow')
      BY <1>1 DEF Withdrawn, SameIdsBut, QueueInv, NeverIdle, RowsIn
    <2>2. QED
      BY <1>1, <2>1, SameIds DEF Withdrawn, SameIdsBut
  <1>2. CASE Appended
    <2>1. /\ InOrder(jobs) /\ Below(jobs, nextJobId)
          /\ DOMAIN jobs' = 1..(Len(jobs) + 1)
          /\ \A r \in DOMAIN jobs : jobs'[r].id = jobs[r].id
          /\ jobs'[Len(jobs) + 1].id = nextJobId
          /\ nextJobId' = nextJobId + 1 /\ nextJobId <= MaxJobs
      BY <1>2 DEF Appended, QueueInv
    <2>2. InOrder(jobs')
      BY <1>0, <2>1 DEF InOrder, Below
    <2>3. Below(jobs', nextJobId')
      BY <1>0, <2>1 DEF Below
    <2>4. nextJobId' <= MaxJobs + 1
      BY <1>0, <2>1
    <2>5. QED
      BY <1>2, <2>2, <2>3, <2>4 DEF QueueInv, Appended
  <1>3. CASE Ended
    BY <1>3, SameIds DEF Ended
  <1>4. CASE Removed(clearRow)
    <2>1. ASSUME NEW r \in DOMAIN jobs'
          PROVE  \E q \in DOMAIN jobs : /\ q = IF r < clearRow THEN r ELSE r + 1
                                        /\ jobs'[r] = jobs[q]
      BY <1>0, <1>4 DEF Removed
    <2>2. /\ InOrder(jobs) /\ Below(jobs, nextJobId) /\ NeverIdle(jobs, runningRow)
          /\ nextJobId' = nextJobId
          /\ clearRow \in Nat \ {0} /\ DOMAIN jobs' \subseteq Nat
          /\ runningRow' = IF runningRow > clearRow THEN runningRow - 1 ELSE runningRow
      BY <1>0, <1>4 DEF Removed, QueueInv
    <2>3. InOrder(jobs')
      BY <1>0, <2>1, <2>2, SMTT(30) DEF InOrder
    <2>4. Below(jobs', nextJobId')
      BY <2>1, <2>2 DEF Below
    <2>5. NeverIdle(jobs', runningRow')
      BY <1>0, <2>1, <2>2 DEF NeverIdle
    <2>6. QED
      BY <2>2, <2>3, <2>4, <2>5 DEF QueueInv
  <1>5. QED
    BY <1>1, <1>2, <1>3, <1>4, StepRows

-----------------------------------------------------------------------------
(***************************************************************************)
(* The mapping, on any table: a job has the status of its row, if it has   *)
(* one.                                                                    *)
(***************************************************************************)
TableStatus(table, next, job) ==
  IF job >= next THEN "absent"
  ELSE IF \E row \in DOMAIN table : table[row].id = job
    THEN StatusIn(table[CHOOSE row \in DOMAIN table : table[row].id = job].state)
    ELSE "over"

LEMMA RowStatus ==
  ASSUME NEW table, DOMAIN table \subseteq Nat, NEW next \in Nat,
         \A r \in DOMAIN table : table[r].id \in Nat,
         InOrder(table), Below(table, next), NEW row \in DOMAIN table
  PROVE  TableStatus(table, next, table[row].id) = StatusIn(table[row].state)
  <1>1. \A q \in DOMAIN table : table[q].id = table[row].id => q = row
    BY DEF InOrder
  <1>2. ~(table[row].id >= next)
    BY DEF Below
  <1>3. (CHOOSE r \in DOMAIN table : table[r].id = table[row].id) = row
    BY <1>1
  <1>4. QED
    BY <1>2, <1>3 DEF TableStatus

(* The words for a state, told apart. *)
LEMMA StateWords ==
  /\ StatusIn("Queued") = "waiting"
  /\ StatusIn("Running") = "running"
  /\ \A state \in OverStates : StatusIn(state) = "over"
  /\ \A state \in JobStates :
       /\ StatusIn(state) = "waiting" <=> state = "Queued"
       /\ StatusIn(state) = "running" <=> state = "Running"
       /\ StatusIn(state) # "absent"
  BY DEF StatusIn, JobStates, OverStates

Mapped(table, next) == [job \in 1..MaxJobs |-> TableStatus(table, next, job)]

(* What the abstract queue reads: which jobs are in a given status. *)
LEMMA MappedQueue ==
  ASSUME TypeOK, RunningRowIsTheRunningJob, QueueInv, NEW status,
         status = Mapped(jobs, nextJobId)
  PROVE  /\ {job \in 1..MaxJobs : status[job] = "absent"}
              = {job \in 1..MaxJobs : job >= nextJobId}
         /\ {job \in 1..MaxJobs : status[job] = "waiting"}
              = {jobs[r].id : r \in RowsIn("Queued")}
         /\ {job \in 1..MaxJobs : status[job] = "running"}
              = IF runningRow = 0 THEN {} ELSE {jobs[runningRow].id}
  <1>0. /\ nextJobId \in Nat /\ MaxJobs \in Nat /\ DOMAIN jobs \subseteq Nat
        /\ \A r \in DOMAIN jobs : jobs[r].id \in 1..MaxJobs /\ jobs[r].state \in JobStates
        /\ InOrder(jobs) /\ Below(jobs, nextJobId)
    <2>1. \A r \in DOMAIN jobs : jobs[r].id \in Nat \ {0} /\ jobs[r].state \in JobStates
      BY RowTyped DEF JobSet
    <2>2. QED
      BY <2>1, BoundsAssumption DEF TypeOK, QueueInv, Below
  <1>1. \A r \in DOMAIN jobs : status[jobs[r].id] = StatusIn(jobs[r].state)
    BY <1>0, RowStatus DEF Mapped
  <1>2. \A job \in 1..MaxJobs :
          /\ job >= nextJobId => status[job] = "absent"
          /\ \/ job >= nextJobId
             \/ \E r \in DOMAIN jobs : jobs[r].id = job
             \/ status[job] = "over"
    BY <1>0 DEF Mapped, TableStatus
  <1>3. \A r \in DOMAIN jobs : ~(jobs[r].id >= nextJobId)
    BY <1>0 DEF Below
  <1>4. \A job \in 1..MaxJobs : status[job] = "absent" <=> job >= nextJobId
    BY <1>0, <1>1, <1>2, StateWords
  <1>5. \A job \in 1..MaxJobs :
          status[job] = "waiting" <=> \E r \in DOMAIN jobs : jobs[r].id = job /\ jobs[r].state = "Queued"
    BY <1>0, <1>1, <1>2, <1>3, StateWords
  <1>6. \A job \in 1..MaxJobs :
          status[job] = "running" <=> \E r \in DOMAIN jobs : jobs[r].id = job /\ jobs[r].state = "Running"
    BY <1>0, <1>1, <1>2, <1>3, StateWords
  <1>7. \A r \in DOMAIN jobs : jobs[r].state = "Running" <=> r = runningRow
    BY DEF RunningRowIsTheRunningJob
  <1>8. runningRow = 0 \/ runningRow \in DOMAIN jobs
    BY DEF RunningRowIsTheRunningJob, TypeOK
  <1>9. 0 \notin DOMAIN jobs
    BY DEF TypeOK
  <1>10. QED
    BY <1>0, <1>4, <1>5, <1>6, <1>7, <1>8, <1>9 DEF RowsIn

(* Two tables with the same jobs map alike, but for rows that changed. *)
LEMMA MappedRows ==
  ASSUME NEW table, DOMAIN table \subseteq Nat, NEW next \in Nat,
         \A r \in DOMAIN table : table[r].id \in Nat,
         InOrder(table), Below(table, next),
         NEW job \in 1..MaxJobs
  PROVE  /\ job >= next => Mapped(table, next)[job] = "absent"
         /\ job < next /\ (\A r \in DOMAIN table : table[r].id # job)
              => Mapped(table, next)[job] = "over"
         /\ \A r \in DOMAIN table :
              table[r].id = job => Mapped(table, next)[job] = StatusIn(table[r].state)
  BY RowStatus, BoundsAssumption DEF Mapped, TableStatus

(* The relations between the old and the new table, on the mapped jobs. *)
LEMMA MappedStep ==
  ASSUME TypeOK, QueueInv, QueueInv', TypeOK', NEW job \in 1..MaxJobs,
         NEW old, NEW new,
         old = Mapped(jobs, nextJobId), new = Mapped(jobs', nextJobId')
  PROVE  /\ \A rows : Withdrawn(rows) =>
              new[job] = IF job \in {jobs[r].id : r \in rows} THEN "over" ELSE old[job]
         /\ Appended =>
              new[job] = IF job = nextJobId
                           THEN IF runningRow = 0 THEN "running" ELSE "waiting"
                           ELSE old[job]
         /\ Removed(clearRow) => new[job] = old[job]
         /\ Ended =>
              new[job] =
                IF job = jobs[runningRow].id THEN "over"
                ELSE IF \E r \in RowsIn("Queued") : /\ job = jobs[r].id
                                                   /\ \A q \in RowsIn("Queued") : r <= q
                  THEN "running"
                  ELSE old[job]
  <1>1. /\ nextJobId \in Nat /\ MaxJobs \in Nat /\ DOMAIN jobs \subseteq Nat
        /\ \A r \in DOMAIN jobs : jobs[r].id \in Nat /\ jobs[r].state \in JobStates
        /\ InOrder(jobs) /\ Below(jobs, nextJobId)
    <2>1. \A r \in DOMAIN jobs : jobs[r].id \in Nat /\ jobs[r].state \in JobStates
      BY RowTyped DEF JobSet
    <2>2. QED
      BY <2>1, BoundsAssumption DEF TypeOK, QueueInv
  <1>2. /\ nextJobId' \in Nat /\ DOMAIN jobs' \subseteq Nat
        /\ \A r \in DOMAIN jobs' : jobs'[r].id \in Nat
        /\ InOrder(jobs') /\ Below(jobs', nextJobId')
    <2>1. \A r \in DOMAIN jobs' : jobs'[r] \in JobSet
      BY DEF TypeOK
    <2>2. \A r \in DOMAIN jobs' : jobs'[r].id \in Nat
      BY <2>1 DEF JobSet
    <2>3. QED
      BY <2>2 DEF TypeOK, QueueInv
  <1>3. /\ job >= nextJobId => old[job] = "absent"
        /\ job < nextJobId /\ (\A r \in DOMAIN jobs : jobs[r].id # job) => old[job] = "over"
        /\ \A r \in DOMAIN jobs : jobs[r].id = job => old[job] = StatusIn(jobs[r].state)
    BY <1>1, MappedRows
  <1>4. /\ job >= nextJobId' => new[job] = "absent"
        /\ job < nextJobId' /\ (\A r \in DOMAIN jobs' : jobs'[r].id # job) => new[job] = "over"
        /\ \A r \in DOMAIN jobs' : jobs'[r].id = job => new[job] = StatusIn(jobs'[r].state)
    BY <1>2, MappedRows
  <1>5. \A q, r \in DOMAIN jobs : jobs[q].id = jobs[r].id => q = r
    BY <1>1 DEF InOrder
  <1>6. ASSUME NEW rows, Withdrawn(rows)
        PROVE  new[job] = IF job \in {jobs[r].id : r \in rows} THEN "over" ELSE old[job]
    <2>1. /\ DOMAIN jobs' = DOMAIN jobs /\ nextJobId' = nextJobId
          /\ rows \subseteq DOMAIN jobs
          /\ \A r \in DOMAIN jobs :
               /\ jobs'[r].id = jobs[r].id
               /\ jobs'[r].state = IF r \in rows THEN "Cancelled" ELSE jobs[r].state
      BY <1>6 DEF Withdrawn, SameIdsBut, RowsIn
    <2>2. StatusIn("Cancelled") = "over"
      BY StateWords DEF OverStates
    <2>3. CASE \E r \in DOMAIN jobs : jobs[r].id = job
      BY <1>3, <1>4, <1>5, <2>1, <2>2, <2>3
    <2>4. CASE \A r \in DOMAIN jobs : jobs[r].id # job
      BY <1>1, <1>3, <1>4, <2>1, <2>4
    <2>5. QED
      BY <2>3, <2>4
  <1>7. ASSUME Appended
        PROVE  new[job] = IF job = nextJobId
                            THEN IF runningRow = 0 THEN "running" ELSE "waiting"
                            ELSE old[job]
    <2>1. /\ nextJobId' = nextJobId + 1
          /\ Len(jobs) \in Nat /\ DOMAIN jobs = 1..Len(jobs)
          /\ DOMAIN jobs' = 1..(Len(jobs) + 1)
          /\ \A r \in DOMAIN jobs : jobs'[r].id = jobs[r].id /\ jobs'[r].state = jobs[r].state
          /\ jobs'[Len(jobs) + 1].id = nextJobId
          /\ jobs'[Len(jobs) + 1].state = IF runningRow = 0 THEN "Running" ELSE "Queued"
      BY <1>7 DEF Appended, TypeOK
    <2>2. CASE job = nextJobId
      BY <1>4, <2>1, <2>2, StateWords
    <2>3. CASE \E r \in DOMAIN jobs : jobs[r].id = job
      <3>1. PICK r \in DOMAIN jobs : jobs[r].id = job
        BY <2>3
      <3>2. r \in DOMAIN jobs' /\ job # nextJobId
        BY <1>1, <2>1, <3>1 DEF Below
      <3>3. QED
        BY <1>3, <1>4, <2>1, <3>1, <3>2
    <2>4. CASE job # nextJobId /\ \A r \in DOMAIN jobs : jobs[r].id # job
      <3>1. \A r \in DOMAIN jobs' : jobs'[r].id # job
        BY <2>1, <2>4
      <3>2. QED
        BY <1>1, <1>3, <1>4, <2>1, <2>4, <3>1
    <2>5. QED
      BY <2>2, <2>3, <2>4
  <1>8. ASSUME Removed(clearRow)
        PROVE  new[job] = old[job]
    <2>1. /\ nextJobId' = nextJobId /\ clearRow \in DOMAIN jobs
          /\ StatusIn(jobs[clearRow].state) = "over"
          /\ Len(jobs) \in Nat /\ DOMAIN jobs = 1..Len(jobs)
          /\ DOMAIN jobs' = 1..(Len(jobs) - 1)
          /\ \A r \in 1..(Len(jobs) - 1) :
               jobs'[r] = IF r < clearRow THEN jobs[r] ELSE jobs[r + 1]
      BY <1>8, StateWords DEF Removed, TypeOK
    <2>2. \A r \in DOMAIN jobs \ {clearRow} : \E q \in DOMAIN jobs' : jobs'[q] = jobs[r]
      <3>1. TAKE r \in DOMAIN jobs \ {clearRow}
      <3>2. CASE r < clearRow
        BY <2>1, <3>2
      <3>3. CASE r > clearRow
        <4>1. r - 1 \in DOMAIN jobs' /\ jobs'[r - 1] = jobs[r]
          BY <2>1, <3>3
        <4>2. QED
          BY <4>1
      <3>4. QED
        BY <2>1, <3>2, <3>3
    <2>3. \A q \in DOMAIN jobs' : \E r \in DOMAIN jobs \ {clearRow} : jobs'[q] = jobs[r]
      BY <2>1
    <2>4. CASE job = jobs[clearRow].id
      <3>1. \A q \in DOMAIN jobs' : jobs'[q].id # job
        BY <1>5, <2>1, <2>3, <2>4
      <3>2. job < nextJobId
        BY <1>1, <2>1, <2>4 DEF Below
      <3>3. QED
        BY <1>3, <1>4, <2>1, <2>4, <3>1, <3>2
    <2>5. CASE \E r \in DOMAIN jobs \ {clearRow} : jobs[r].id = job
      BY <1>3, <1>4, <2>2, <2>5
    <2>6. CASE \A r \in DOMAIN jobs : jobs[r].id # job
      <3>1. \A q \in DOMAIN jobs' : jobs'[q].id # job
        BY <2>3, <2>6
      <3>2. QED
        BY <1>1, <1>3, <1>4, <2>1, <2>6, <3>1
    <2>7. QED
      BY <2>4, <2>5, <2>6
  <1>9. ASSUME Ended
        PROVE  new[job] =
                 IF job = jobs[runningRow].id THEN "over"
                 ELSE IF \E r \in RowsIn("Queued") : /\ job = jobs[r].id
                                                    /\ \A q \in RowsIn("Queued") : r <= q
                   THEN "running"
                   ELSE old[job]
    <2>1. /\ runningRow \in DOMAIN jobs /\ nextJobId' = nextJobId
          /\ DOMAIN jobs' = DOMAIN jobs
          /\ \A r \in DOMAIN jobs : jobs'[r].id = jobs[r].id
          /\ StatusIn(jobs'[runningRow].state) = "over"
          /\ \A r \in DOMAIN jobs \ {runningRow} :
               jobs'[r].state =
                 IF jobs[r].state = "Queued" /\ \A q \in RowsIn("Queued") : r <= q
                   THEN "Running" ELSE jobs[r].state
      BY <1>9, StateWords DEF Ended
    <2>2. CASE \A r \in DOMAIN jobs : jobs[r].id # job
      BY <1>1, <1>3, <1>4, <2>1, <2>2 DEF RowsIn
    <2>3. CASE job = jobs[runningRow].id
      BY <1>4, <2>1, <2>3
    <2>4. ASSUME NEW r \in DOMAIN jobs \ {runningRow}, job = jobs[r].id
          PROVE  new[job] = IF r \in RowsIn("Queued") /\ \A q \in RowsIn("Queued") : r <= q
                              THEN "running" ELSE old[job]
      BY <1>3, <1>4, <2>1, <2>4, StateWords DEF RowsIn
    <2>5. ASSUME NEW r \in DOMAIN jobs \ {runningRow}, job = jobs[r].id
          PROVE  /\ job # jobs[runningRow].id
                 /\ (\E p \in RowsIn("Queued") : /\ job = jobs[p].id
                                                 /\ \A q \in RowsIn("Queued") : p <= q)
                      <=> r \in RowsIn("Queued") /\ \A q \in RowsIn("Queued") : r <= q
      BY <1>5, <2>1, <2>5 DEF RowsIn
    <2>6. QED
      BY <2>2, <2>3, <2>4, <2>5
  <1>10. QED
    BY <1>6, <1>7, <1>8, <1>9

LEMMA InitSerial == Init => Serial!Init
  BY BoundsAssumption DEF Init, Serial!Init, Serial!Jobs, Status

(***************************************************************************)
(* Each handler is a step of the abstract queue or leaves it alone: to     *)
(* cancel is to withdraw, to enqueue is to submit, the answer of the       *)
(* running transfer ends it and starts the next in line; and              *)
(* clearCompleted(), which only removes what is over, is no step at all.   *)
(***************************************************************************)
LEMMA StepSerial ==
  ASSUME TypeOK, ClearInTable, RunningRowIsTheRunningJob, QueueInv,
         TypeOK', QueueInv', [Next]_vars
  PROVE  [Serial!Next]_([job \in 1..MaxJobs |-> Status(job)])
  <1> DEFINE old == Mapped(jobs, nextJobId)
             new == Mapped(jobs', nextJobId')
  <1> SUFFICES ASSUME new # old
               PROVE  Serial!Next
    BY DEF Status, Mapped, TableStatus
  <1>1. /\ [job \in 1..MaxJobs |-> Status(job)] = old
        /\ [job \in 1..MaxJobs |-> Status(job)]' = new
    BY DEF Status, Mapped, TableStatus
  <1>2. old = [job \in 1..MaxJobs |-> old[job]] /\ new = [job \in 1..MaxJobs |-> new[job]]
    BY DEF Mapped
  <1>3. /\ Serial!In("absent") = {job \in 1..MaxJobs : job >= nextJobId}
        /\ Serial!In("waiting") = {jobs[r].id : r \in RowsIn("Queued")}
        /\ Serial!In("running") = IF runningRow = 0 THEN {} ELSE {jobs[runningRow].id}
    <2>1. \A s : Serial!In(s) = {job \in 1..MaxJobs : old[job] = s}
      BY <1>1 DEF Serial!In, Serial!Jobs
    <2> HIDE DEF old
    <2>2. QED
      BY <2>1, MappedQueue DEF old
  <1>4. /\ nextJobId \in Nat \ {0} /\ DOMAIN jobs \subseteq Nat \ {0} /\ runningRow \in Nat
        /\ \A r \in DOMAIN jobs : jobs[r].id \in 1..MaxJobs
    <2>1. \A r \in DOMAIN jobs : jobs[r].id \in Nat \ {0}
      BY RowTyped DEF JobSet
    <2>2. QED
      BY <2>1, BoundsAssumption DEF TypeOK, QueueInv, Below
  <1> HIDE DEF old, new
  <1>5. ASSUME NEW rows, Withdrawn(rows)
        PROVE  Serial!Next
    <2> DEFINE withdrawn == {jobs[r].id : r \in rows}
    <2>1. \A job \in 1..MaxJobs : new[job] = IF job \in withdrawn THEN "over" ELSE old[job]
      BY <1>5, MappedStep DEF old, new
    <2>2. rows # {}
      BY <1>2, <2>1
    <2>3. rows \subseteq RowsIn("Queued")
      BY <1>5 DEF Withdrawn
    <2>4. withdrawn \in SUBSET Serial!In("waiting")
      BY <1>3, <2>3
    <2>5. Serial!In("running") # {}
      BY <1>3, <2>2, <2>3 DEF QueueInv, NeverIdle, RowsIn
    <2>6. new = [job \in 1..MaxJobs |-> IF job \in withdrawn THEN "over" ELSE old[job]]
      BY <1>2, <2>1
    <2>7. Serial!Withdraw(withdrawn)
      <3> HIDE DEF withdrawn
      <3>1. QED
        BY <1>1, <2>5, <2>6 DEF Serial!Withdraw, Serial!Jobs
    <2>8. QED
      BY <2>4, <2>7 DEF Serial!Next
  <1>6. CASE Appended
    <2>1. nextJobId \in Serial!First(Serial!In("absent"))
      BY <1>3, <1>4, <1>6 DEF Appended, Serial!First
    <2>2. \A job \in 1..MaxJobs :
            new[job] = IF job = nextJobId
                         THEN IF runningRow = 0 THEN "running" ELSE "waiting"
                         ELSE old[job]
      BY <1>6, MappedStep DEF old, new
    <2>3. Serial!In("running") = {} <=> runningRow = 0
      BY <1>3
    <2>4. new = [old EXCEPT ![nextJobId] = IF Serial!In("running") = {} THEN "running"
                                           ELSE "waiting"]
      BY <1>2, <2>2, <2>3
    <2>5. Serial!Submit
      BY <1>1, <2>1, <2>4 DEF Serial!Submit
    <2>6. QED
      BY <2>5 DEF Serial!Next
  <1>7. CASE Ended
    <2>1. runningRow \in DOMAIN jobs
      BY <1>7 DEF Ended
    <2> DEFINE done == jobs[runningRow].id
    <2>2. done \in Serial!In("running")
      BY <1>3, <1>4, <2>1
    <2>3. \A job \in 1..MaxJobs :
            new[job] =
              IF job = done THEN "over"
              ELSE IF \E r \in RowsIn("Queued") : /\ job = jobs[r].id
                                                 /\ \A q \in RowsIn("Queued") : r <= q
                THEN "running"
                ELSE old[job]
      BY <1>7, MappedStep DEF old, new
    <2>4. \A q, r \in DOMAIN jobs : q <= r <=> jobs[q].id <= jobs[r].id
      BY <1>4 DEF QueueInv, InOrder
    <2>5. \A job \in 1..MaxJobs :
            job \in Serial!First(Serial!In("waiting")) <=>
              \E r \in RowsIn("Queued") : /\ job = jobs[r].id
                                         /\ \A q \in RowsIn("Queued") : r <= q
      BY <1>3, <2>4 DEF Serial!First, RowsIn
    <2>6. new = [job \in 1..MaxJobs |->
                   IF job = done THEN "over"
                   ELSE IF job \in Serial!First(Serial!In("waiting")) THEN "running"
                   ELSE old[job]]
      BY <1>2, <2>3, <2>5
    <2>7. Serial!Finish(done)
      <3> HIDE DEF done
      <3>1. QED
        BY <1>1, <2>6 DEF Serial!Finish, Serial!Jobs
    <2>8. QED
      BY <2>2, <2>7 DEF Serial!Next
  <1>8. CASE Removed(clearRow)
    <2>1. \A job \in 1..MaxJobs : new[job] = old[job]
      BY <1>8, MappedStep DEF old, new
    <2>2. QED
      BY <1>2, <2>1
  <1>9. QED
    BY <1>5, <1>6, <1>7, <1>8, StepRows

(***************************************************************************)
(* In every run of the queue, whatever is cancelled, cleared or refused    *)
(* and however late the answers come, the jobs pass through the states of  *)
(* SerialTransfers: one at a time, in the order of submission, never idle  *)
(* while a job waits, and never back from what is over                     *)
(* ("Jobs run strictly one at a time", TransferManager.hpp:35).  It is the *)
(* safety of RunsAsSerialQueue.                                            *)
(***************************************************************************)
THEOREM ImplementsSerialQueue == Spec => Serial!Spec
  <1>1. Init => QueueInv
    BY BoundsAssumption DEF Init, QueueInv, InOrder, Below, NeverIdle
  <1>2. TypeOK /\ ClearInTable /\ RunningRowIsTheRunningJob /\ QueueInv /\ [Next]_vars
          => QueueInv'
    BY StepQueue
  <1>3. Spec => []QueueInv
    BY <1>1, <1>2, TypeCorrect, RunningRowCorrect, PTL DEF Spec
  <1>4. TypeOK /\ ClearInTable /\ RunningRowIsTheRunningJob /\ QueueInv
          /\ TypeOK' /\ QueueInv' /\ [Next]_vars
        => [Serial!Next]_([job \in 1..MaxJobs |-> Status(job)])
    BY StepSerial
  <1>5. QED
    BY <1>3, <1>4, InitSerial, TypeCorrect, RunningRowCorrect, PTL DEF Spec, Serial!Spec

-----------------------------------------------------------------------------
(***************************************************************************)
(* Where the request of the running job is, for every value of the         *)
(* constants of TransferManager: it is in exactly one place, so the        *)
(* connection never has two transfers to carry and no answer is lost; and  *)
(* only jobs the user asked to cancel end as cancelled.                    *)
(***************************************************************************)

Current == jobs[runningRow].requestId

Asked == jobs[runningRow].id \in asked

IsAnswer(i) ==
  runningRow # 0 /\ signals[i].id = Current /\ signals[i].kind \in Answers

(***************************************************************************)
(* The inductive invariant.  The request of the running job is posted, or  *)
(* served, or answered; or no job is running and none of this is the case. *)
(***************************************************************************)
NonePosted == \A i \in 1..Len(calls) : calls[i].kind # "transfer"

NoneAnswered == \A i \in 1..Len(signals) : ~IsAnswer(i)

Nowhere == runningRow = 0 /\ NonePosted /\ ~Busy

AtPost ==
  /\ runningRow # 0
  /\ ~Busy
  /\ NoneAnswered
  /\ \E p \in 1..Len(calls) :
       /\ calls[p].id = Current
       /\ \A i \in 1..Len(calls) : calls[i].kind = "transfer" <=> i = p

AtWorker ==
  /\ runningRow # 0
  /\ Busy
  /\ worker.id = Current
  /\ NonePosted
  /\ NoneAnswered

AtGui ==
  /\ runningRow # 0
  /\ ~Busy
  /\ NonePosted
  /\ \E p \in 1..Len(signals) : \A i \in 1..Len(signals) : IsAnswer(i) <=> i = p

Place == Nowhere \/ AtPost \/ AtWorker \/ AtGui

(* Ids are handed out once: whatever carries an id got it earlier. *)
IdsAreOld ==
  /\ \A i \in 1..Len(calls) : calls[i].id < nextRequestId
  /\ \A i \in 1..Len(signals) : signals[i].id < nextRequestId
  /\ worker.id < nextRequestId
  /\ \A id \in cancelRequests : id < nextRequestId
  /\ runningRow # 0 => Current \in 1..(nextRequestId - 1)

(* The request of the running job is nobody else's. *)
CurrentIsATransfer ==
  \A i \in 1..Len(calls) :
    runningRow # 0 /\ calls[i].id = Current => calls[i].kind = "transfer"

(* A cancellation on its way to the running job was asked for. *)
CancelIsAsked ==
  runningRow # 0 =>
    /\ Current \in cancelRequests => Asked
    /\ \A i \in 1..Len(signals) :
         signals[i].id = Current /\ signals[i].kind = "operationCancelled" => Asked

Pipe == IdsAreOld /\ CurrentIsATransfer /\ Place /\ CancelIsAsked

Typed == TypeOK /\ ClearInTable /\ RunningRowIsTheRunningJob

IInv == Typed /\ Pipe /\ OnlyAskedIsCancelled

-----------------------------------------------------------------------------
(* One element at either end of a FIFO. *)
LEMMA TailRows ==
  ASSUME NEW S, NEW s \in Seq(S), s # <<>>
  PROVE  /\ Len(s) \in Nat \ {0}
         /\ Head(s) = s[1]
         /\ Len(Tail(s)) = Len(s) - 1
         /\ \A i \in 1..(Len(s) - 1) : Tail(s)[i] = s[i + 1]
  OBVIOUS

LEMMA AppendRows ==
  ASSUME NEW S, NEW s \in Seq(S), NEW x
  PROVE  /\ Len(s) \in Nat
         /\ Len(Append(s, x)) = Len(s) + 1
         /\ \A i \in 1..Len(s) : Append(s, x)[i] = s[i]
         /\ Append(s, x)[Len(s) + 1] = x
  OBVIOUS

LEMMA PipeTyped ==
  ASSUME TypeOK
  PROVE  /\ calls \in Seq(CallSet)
         /\ signals \in Seq(SignalSet)
         /\ Len(calls) \in Nat
         /\ Len(signals) \in Nat
         /\ \A i \in 1..Len(calls) : calls[i].id \in Nat
         /\ \A i \in 1..Len(signals) : signals[i].id \in Nat
         /\ worker.id \in Nat
         /\ nextRequestId \in Nat \ {0}
         /\ cancelRequests \subseteq Nat
  <1>1. /\ calls \in Seq(CallSet)
        /\ signals \in Seq(SignalSet)
        /\ worker \in WorkerSet
        /\ nextRequestId \in Nat \ {0}
        /\ cancelRequests \subseteq Nat
    BY DEF TypeOK, PipeTypeOK
  <1>2. /\ \A i \in 1..Len(calls) : calls[i] \in CallSet
        /\ \A i \in 1..Len(signals) : signals[i] \in SignalSet
        /\ Len(calls) \in Nat
        /\ Len(signals) \in Nat
    BY <1>1
  <1>3. QED
    BY <1>1, <1>2 DEF CallSet, SignalSet, WorkerSet

-----------------------------------------------------------------------------
(* The invariant is what the two safety properties say, and more. *)
LEMMA PlaceIsOne ==
  ASSUME TypeOK, Pipe
  PROVE  RequestNeverLost /\ OneTransferOut
  <1>1. DOMAIN calls = 1..Len(calls) /\ DOMAIN signals = 1..Len(signals)
    BY PipeTyped
  <1>2. \A i \in 1..Len(calls) : calls[i] = Call(calls[i].kind, calls[i].id)
    <2>1. \A i \in 1..Len(calls) : calls[i] \in CallSet
      BY PipeTyped
    <2>2. QED
      BY <2>1 DEF CallSet, Call
  <1>3. CASE Nowhere
    BY <1>1, <1>3 DEF Nowhere, NonePosted, RequestNeverLost, OneTransferOut
  <1>4. CASE AtPost
    <2>1. PICK p \in 1..Len(calls) :
            /\ calls[p].id = Current
            /\ \A i \in 1..Len(calls) : calls[i].kind = "transfer" <=> i = p
      BY <1>4 DEF AtPost
    <2>2. p \in Posted(Current)
      BY <1>1, <1>2, <2>1 DEF Posted
    <2>3. Answered(Current) = {}
      BY <1>1, <1>4 DEF AtPost, NoneAnswered, IsAnswer, Answered
    <2>4. RequestNeverLost
      BY <2>2 DEF RequestNeverLost, Current
    <2>5. OneTransferOut
      BY <1>1, <1>4, <2>1, <2>3 DEF OneTransferOut, AtPost, Current
    <2>6. QED
      BY <2>4, <2>5
  <1>5. CASE AtWorker
    <2>1. Answered(Current) = {}
      BY <1>1, <1>5 DEF AtWorker, NoneAnswered, IsAnswer, Answered
    <2>2. QED
      BY <1>1, <1>5, <2>1
         DEF AtWorker, NonePosted, RequestNeverLost, OneTransferOut, Served, Current
  <1>6. CASE AtGui
    <2>1. PICK p \in 1..Len(signals) : \A i \in 1..Len(signals) : IsAnswer(i) <=> i = p
      BY <1>6 DEF AtGui
    <2>2. p \in Answered(Current) /\ \A i \in Answered(Current) : i = p
      BY <1>1, <1>6, <2>1 DEF AtGui, Answered, IsAnswer
    <2>3. QED
      BY <1>1, <1>6, <2>2 DEF AtGui, NonePosted, RequestNeverLost, OneTransferOut, Current
  <1>7. QED
    BY <1>3, <1>4, <1>5, <1>6 DEF Pipe, Place

-----------------------------------------------------------------------------
(***************************************************************************)
(* Steps that leave the running job and its request what they are.         *)
(***************************************************************************)
SameJob ==
  /\ runningRow' # 0 <=> runningRow # 0
  /\ runningRow # 0 => Current' = Current /\ (jobs[runningRow].id)' = jobs[runningRow].id

(* The manager's handlers: a call posted, a signal consumed, or neither. *)
ManagerFrame ==
  /\ UNCHANGED worker
  /\ \/ UNCHANGED <<calls, nextRequestId>>
     \/ /\ nextRequestId' = nextRequestId + 1
        /\ \E c \in CallSet : /\ c.kind # "transfer"
                              /\ c.id = nextRequestId
                              /\ calls' = Append(calls, c)
  /\ \/ UNCHANGED signals
     \/ /\ signals # <<>>
        /\ signals' = Tail(signals)
        /\ ~IsAnswer(1)

LEMMA CallsFrame ==
  ASSUME TypeOK, IdsAreOld, ManagerFrame
  PROVE  /\ Len(calls) \in Nat
         /\ Len(calls') \in {Len(calls), Len(calls) + 1}
         /\ \A i \in 1..Len(calls) : calls'[i] = calls[i]
         /\ \A i \in 1..Len(calls') : i \notin 1..Len(calls) =>
              calls'[i].kind # "transfer" /\ calls'[i].id = nextRequestId
         /\ nextRequestId' \in {nextRequestId, nextRequestId + 1}
         /\ \A i \in 1..Len(calls') : calls'[i].id < nextRequestId'
  <1>1. calls \in Seq(CallSet) /\ Len(calls) \in Nat /\ nextRequestId \in Nat
    BY PipeTyped
  <1>2. CASE UNCHANGED <<calls, nextRequestId>>
    BY <1>1, <1>2 DEF IdsAreOld
  <1>3. CASE /\ nextRequestId' = nextRequestId + 1
             /\ \E c \in CallSet : /\ c.kind # "transfer"
                                   /\ c.id = nextRequestId
                                   /\ calls' = Append(calls, c)
    <2>1. PICK c \in CallSet : /\ c.kind # "transfer"
                               /\ c.id = nextRequestId
                               /\ calls' = Append(calls, c)
      BY <1>3
    <2>2. /\ Len(calls') = Len(calls) + 1
          /\ \A i \in 1..Len(calls) : calls'[i] = calls[i]
          /\ calls'[Len(calls) + 1] = c
      BY <1>1, <2>1, AppendRows
    <2>3. \A i \in 1..Len(calls') : i \in 1..Len(calls) \/ i = Len(calls) + 1
      BY <1>1, <2>2
    <2>4. \A i \in 1..Len(calls) : calls[i].id \in Nat /\ calls[i].id < nextRequestId
      BY PipeTyped DEF IdsAreOld
    <2>5. \A i \in 1..Len(calls') : calls'[i].id < nextRequestId'
      BY <1>1, <1>3, <2>1, <2>2, <2>3, <2>4
    <2>6. QED
      BY <1>1, <1>3, <2>1, <2>2, <2>3, <2>5
  <1>4. QED
    BY <1>2, <1>3 DEF ManagerFrame

LEMMA SignalsFrame ==
  ASSUME TypeOK, ManagerFrame
  PROVE  \E d \in {0, 1} :
           /\ Len(signals') = Len(signals) - d
           /\ \A i \in 1..Len(signals') : signals'[i] = signals[i + d]
           /\ d = 1 => ~IsAnswer(1) /\ 1 \in 1..Len(signals)
           /\ Len(signals) \in Nat
  <1>1. signals \in Seq(SignalSet) /\ Len(signals) \in Nat
    BY PipeTyped
  <1>2. CASE UNCHANGED signals
    <2>1. /\ Len(signals') = Len(signals) - 0
          /\ \A i \in 1..Len(signals') : signals'[i] = signals[i + 0]
      BY <1>1, <1>2
    <2>2. QED
      BY <1>1, <2>1
  <1>3. CASE signals # <<>> /\ signals' = Tail(signals) /\ ~IsAnswer(1)
    <2>1. /\ Len(signals) \in Nat \ {0}
          /\ Len(signals') = Len(signals) - 1
          /\ \A i \in 1..(Len(signals) - 1) : signals'[i] = signals[i + 1]
      BY <1>1, <1>3, TailRows
    <2>2. /\ \A i \in 1..Len(signals') : signals'[i] = signals[i + 1]
          /\ 1 \in 1..Len(signals)
      BY <1>1, <2>1
    <2>3. QED
      BY <1>1, <1>3, <2>1, <2>2
  <1>4. QED
    BY <1>2, <1>3 DEF ManagerFrame

LEMMA ManagerKeepsPlace ==
  ASSUME TypeOK, Pipe, SameJob, ManagerFrame
  PROVE  Place' /\ CurrentIsATransfer'
  <1>1. IdsAreOld /\ CurrentIsATransfer /\ Place
    BY DEF Pipe
  <1>2. /\ \A i \in 1..Len(calls) : i \in 1..Len(calls') /\ calls'[i] = calls[i]
        /\ \A i \in 1..Len(calls') : i \notin 1..Len(calls) =>
             calls'[i].kind # "transfer" /\ calls'[i].id = nextRequestId
    BY <1>1, CallsFrame
  <1>3. PICK d \in {0, 1} :
          /\ Len(signals') = Len(signals) - d
          /\ \A i \in 1..Len(signals') : signals'[i] = signals[i + d]
          /\ d = 1 => ~IsAnswer(1) /\ 1 \in 1..Len(signals)
          /\ Len(signals) \in Nat
    BY SignalsFrame
  <1>4. \A i \in 1..Len(signals') : /\ i + d \in 1..Len(signals)
                                    /\ IsAnswer(i)' <=> IsAnswer(i + d)
    BY <1>3 DEF SameJob, IsAnswer
  <1>5. NonePosted => NonePosted'
    BY <1>2 DEF NonePosted
  <1>6. NoneAnswered => NoneAnswered'
    BY <1>4 DEF NoneAnswered
  <1>7. (Busy' <=> Busy) /\ worker' = worker
    BY DEF ManagerFrame, Busy
  <1>8. runningRow # 0 => Current < nextRequestId /\ Current \in Nat
    BY <1>1, PipeTyped DEF IdsAreOld
  <1>9. CurrentIsATransfer'
    BY <1>1, <1>2, <1>8, PipeTyped DEF CurrentIsATransfer, SameJob
  <1>10. CASE Nowhere
    BY <1>5, <1>7, <1>9, <1>10 DEF Nowhere, Place, SameJob
  <1>11. CASE AtPost
    <2>1. PICK p \in 1..Len(calls) :
            /\ calls[p].id = Current
            /\ \A i \in 1..Len(calls) : calls[i].kind = "transfer" <=> i = p
      BY <1>11 DEF AtPost
    <2>2. /\ p \in 1..Len(calls')
          /\ calls'[p].id = Current'
          /\ \A i \in 1..Len(calls') : calls'[i].kind = "transfer" <=> i = p
      BY <1>2, <1>11, <2>1 DEF AtPost, SameJob
    <2>3. QED
      BY <1>6, <1>7, <1>9, <1>11, <2>2 DEF AtPost, Place, SameJob
  <1>12. CASE AtWorker
    BY <1>5, <1>6, <1>7, <1>9, <1>12 DEF AtWorker, Place, SameJob
  <1>13. CASE AtGui
    <2>1. PICK p \in 1..Len(signals) : \A i \in 1..Len(signals) : IsAnswer(i) <=> i = p
      BY <1>13 DEF AtGui
    <2>2. /\ p - d \in 1..Len(signals')
          /\ \A i \in 1..Len(signals') : IsAnswer(i)' <=> i = p - d
      BY <1>3, <1>4, <2>1
    <2>3. QED
      BY <1>5, <1>7, <1>9, <1>13, <2>2 DEF AtGui, Place, SameJob
  <1>14. QED
    BY <1>1, <1>10, <1>11, <1>12, <1>13 DEF Place

(***************************************************************************)
(* The cancel set may grow by the running job's request, if it was asked.  *)
(***************************************************************************)
LEMMA ManagerKeepsPipe ==
  ASSUME TypeOK, Pipe, SameJob, ManagerFrame, asked \subseteq asked',
         \A id \in cancelRequests' : \/ id \in cancelRequests
                                     \/ runningRow # 0 /\ id = Current /\ Asked'
  PROVE  Pipe'
  <1>1. IdsAreOld /\ CancelIsAsked
    BY DEF Pipe
  <1>2. Place' /\ CurrentIsATransfer'
    BY ManagerKeepsPlace
  <1>3. /\ nextRequestId \in Nat
        /\ nextRequestId' \in {nextRequestId, nextRequestId + 1}
        /\ \A i \in 1..Len(calls') : calls'[i].id < nextRequestId'
    BY <1>1, CallsFrame, PipeTyped
  <1>4. PICK d \in {0, 1} :
          /\ Len(signals') = Len(signals) - d
          /\ \A i \in 1..Len(signals') : signals'[i] = signals[i + d]
          /\ Len(signals) \in Nat
    BY SignalsFrame
  <1>5. \A i \in 1..Len(signals') : i + d \in 1..Len(signals) /\ signals'[i] = signals[i + d]
    BY <1>4
  <1>6. IdsAreOld'
    <2>1. \A i \in 1..Len(signals') : signals'[i].id < nextRequestId'
      <3>1. \A i \in 1..Len(signals) : signals[i].id \in Nat /\ signals[i].id < nextRequestId
        BY <1>1, PipeTyped DEF IdsAreOld
      <3>2. QED
        BY <1>3, <1>5, <3>1
    <2>2. worker'.id < nextRequestId'
      BY <1>1, <1>3, PipeTyped DEF IdsAreOld, ManagerFrame
    <2>3. runningRow' # 0 => Current' \in 1..(nextRequestId' - 1)
      BY <1>1, <1>3 DEF IdsAreOld, SameJob
    <2>4. \A id \in cancelRequests' : id < nextRequestId'
      BY <1>1, <1>3, PipeTyped DEF IdsAreOld
    <2>5. QED
      BY <1>3, <2>1, <2>2, <2>3, <2>4 DEF IdsAreOld
  <1>7. CancelIsAsked'
    <2>1. SUFFICES ASSUME runningRow' # 0
                   PROVE  /\ Current' \in cancelRequests' => Asked'
                          /\ \A i \in 1..Len(signals') :
                               signals'[i].id = Current' /\ signals'[i].kind = "operationCancelled"
                                 => Asked'
      BY DEF CancelIsAsked
    <2>2. runningRow # 0 /\ Current' = Current /\ (Asked => Asked')
      BY <2>1 DEF SameJob, Asked
    <2>3. QED
      BY <1>1, <1>5, <2>2 DEF CancelIsAsked
  <1>8. QED
    BY <1>2, <1>6, <1>7 DEF Pipe

-----------------------------------------------------------------------------
(* Steps of the worker. *)
LEMMA OneAdded ==
  ASSUME TypeOK, NEW signal, signals' = Append(signals, signal)
  PROVE  /\ Len(signals) \in Nat
         /\ Len(signals') = Len(signals) + 1
         /\ \A i \in 1..Len(signals) : signals'[i] = signals[i]
         /\ signals'[Len(signals) + 1] = signal
  BY PipeTyped, AppendRows

(* Old signals keep their meaning while the manager's table stands still. *)
LEMMA SameAnswers ==
  ASSUME TypeOK, UNCHANGED managerVars, NEW n \in Nat, Len(signals') = Len(signals) + n,
         \A i \in 1..Len(signals) : signals'[i] = signals[i]
  PROVE  /\ runningRow' = runningRow /\ Current' = Current /\ (Asked' <=> Asked)
         /\ \A i \in 1..Len(signals) : i \in 1..Len(signals') /\ (IsAnswer(i)' <=> IsAnswer(i))
         /\ \A i \in 1..Len(signals') : i \in 1..Len(signals) \/ i - Len(signals) \in 1..n
  BY PipeTyped DEF managerVars, Current, Asked, IsAnswer

(* The head of the FIFO of calls is gone. *)
LEMMA CallTaken ==
  ASSUME TypeOK, calls # <<>>, calls' = Tail(calls)
  PROVE  /\ Head(calls) = calls[1]
         /\ 1 \in 1..Len(calls)
         /\ Len(calls') = Len(calls) - 1
         /\ \A i \in 1..Len(calls') : i + 1 \in 1..Len(calls) /\ calls'[i] = calls[i + 1]
         /\ \A i \in 1..Len(calls) : i # 1 => i - 1 \in 1..Len(calls')
  <1>1. /\ Len(calls) \in Nat \ {0}
        /\ Head(calls) = calls[1]
        /\ Len(calls') = Len(calls) - 1
        /\ \A i \in 1..(Len(calls) - 1) : calls'[i] = calls[i + 1]
    BY PipeTyped, TailRows
  <1>2. QED
    BY <1>1

(* A call that is no transfer is served: the request stays where it is. *)
LEMMA ServedKeepsPipe ==
  ASSUME TypeOK, Pipe, UNCHANGED managerVars, UNCHANGED <<nextRequestId, worker>>,
         cancelRequests' \subseteq cancelRequests,
         calls # <<>>, calls' = Tail(calls), Head(calls).kind # "transfer",
         NEW kind \in SignalKinds \ {"operationCancelled"},
         signals' = Append(signals, Answer(kind, Head(calls).id))
  PROVE  Pipe'
  <1>1. IdsAreOld /\ CurrentIsATransfer /\ Place /\ CancelIsAsked
    BY DEF Pipe
  <1>2. /\ Head(calls) = calls[1]
        /\ 1 \in 1..Len(calls)
        /\ Len(calls') = Len(calls) - 1
        /\ \A i \in 1..Len(calls') : i + 1 \in 1..Len(calls) /\ calls'[i] = calls[i + 1]
        /\ \A i \in 1..Len(calls) : i # 1 => i - 1 \in 1..Len(calls')
    BY CallTaken
  <1>3. /\ Len(signals) \in Nat
        /\ Len(signals') = Len(signals) + 1
        /\ \A i \in 1..Len(signals) : signals'[i] = signals[i]
        /\ signals'[Len(signals) + 1] = Answer(kind, Head(calls).id)
    BY OneAdded
  <1>4. /\ runningRow' = runningRow /\ Current' = Current /\ (Asked' <=> Asked)
        /\ \A i \in 1..Len(signals) :
             i \in 1..Len(signals') /\ (IsAnswer(i)' <=> IsAnswer(i))
        /\ \A i \in 1..Len(signals') : i \in 1..Len(signals) \/ i = Len(signals) + 1
    <2>1. \A i \in 1..Len(signals') : i \in 1..Len(signals) \/ i - Len(signals) \in 1..1
      BY <1>3, SameAnswers
    <2>2. QED
      BY <1>3, <2>1, SameAnswers
  <1>5. /\ Answer(kind, Head(calls).id).id = Head(calls).id
        /\ Answer(kind, Head(calls).id).kind = kind
    BY DEF Answer, Signal
  <1>6. runningRow # 0 => Head(calls).id # Current
    BY <1>1, <1>2 DEF CurrentIsATransfer
  <1>7. \A i \in 1..Len(signals') : i \notin 1..Len(signals) => ~IsAnswer(i)'
    BY <1>3, <1>4, <1>5, <1>6 DEF IsAnswer
  <1>8. Busy' <=> Busy
    BY DEF Busy
  <1>9. (NonePosted => NonePosted') /\ (NoneAnswered => NoneAnswered')
    BY <1>2, <1>4, <1>7 DEF NonePosted, NoneAnswered
  <1>10. Place'
    <2>1. CASE Nowhere
      BY <1>4, <1>8, <1>9, <2>1 DEF Nowhere, Place
    <2>2. CASE AtPost
      <3>1. PICK p \in 1..Len(calls) :
              /\ calls[p].id = Current
              /\ \A i \in 1..Len(calls) : calls[i].kind = "transfer" <=> i = p
        BY <2>2 DEF AtPost
      <3>2. p # 1
        BY <1>2, <3>1
      <3>3. /\ p - 1 \in 1..Len(calls')
            /\ calls'[p - 1].id = Current'
            /\ \A i \in 1..Len(calls') : calls'[i].kind = "transfer" <=> i = p - 1
        BY <1>2, <1>4, <3>1, <3>2
      <3>4. QED
        BY <1>4, <1>8, <1>9, <2>2, <3>3 DEF AtPost, Place
    <2>3. CASE AtWorker
      BY <1>4, <1>8, <1>9, <2>3 DEF AtWorker, Place
    <2>4. CASE AtGui
      <3>1. PICK p \in 1..Len(signals) : \A i \in 1..Len(signals) : IsAnswer(i) <=> i = p
        BY <2>4 DEF AtGui
      <3>2. /\ p \in 1..Len(signals')
            /\ \A i \in 1..Len(signals') : IsAnswer(i)' <=> i = p
        BY <1>3, <1>4, <1>7, <3>1
      <3>3. QED
        BY <1>4, <1>8, <1>9, <2>4, <3>2 DEF AtGui, Place
    <2>5. QED
      BY <1>1, <2>1, <2>2, <2>3, <2>4 DEF Place
  <1>11. CurrentIsATransfer'
    BY <1>1, <1>2, <1>4 DEF CurrentIsATransfer
  <1>12. IdsAreOld'
    <2>1. \A i \in 1..Len(signals') : signals'[i].id < nextRequestId
      BY <1>1, <1>2, <1>3, <1>4, <1>5 DEF IdsAreOld
    <2>2. \A i \in 1..Len(calls') : calls'[i].id < nextRequestId
      BY <1>1, <1>2 DEF IdsAreOld
    <2>3. QED
      BY <1>1, <1>4, <2>1, <2>2 DEF IdsAreOld
  <1>13. CancelIsAsked'
    BY <1>1, <1>3, <1>4, <1>5 DEF CancelIsAsked
  <1>14. QED
    BY <1>10, <1>11, <1>12, <1>13 DEF Pipe

(* The worker takes the running job's request. *)
LEMMA TakeKeepsPipe ==
  ASSUME TypeOK, Pipe, UNCHANGED managerVars, TakeTransfer
  PROVE  Pipe'
  <1>1. IdsAreOld /\ CurrentIsATransfer /\ Place /\ CancelIsAsked
    BY DEF Pipe
  <1>2. /\ Head(calls) = calls[1]
        /\ 1 \in 1..Len(calls)
        /\ Len(calls') = Len(calls) - 1
        /\ \A i \in 1..Len(calls') : i + 1 \in 1..Len(calls) /\ calls'[i] = calls[i + 1]
    BY CallTaken DEF TakeTransfer
  <1>3. AtPost
    <2>1. ~NonePosted
      BY <1>2 DEF TakeTransfer, NonePosted
    <2>2. QED
      BY <1>1, <2>1 DEF Place, Nowhere, AtWorker, AtGui
  <1>4. /\ calls[1].id = Current
        /\ \A i \in 1..Len(calls) : calls[i].kind = "transfer" <=> i = 1
    <2>1. PICK p \in 1..Len(calls) :
            /\ calls[p].id = Current
            /\ \A i \in 1..Len(calls) : calls[i].kind = "transfer" <=> i = p
      BY <1>3 DEF AtPost
    <2>2. p = 1
      BY <1>2, <2>1 DEF TakeTransfer
    <2>3. QED
      BY <2>1, <2>2
  <1>5. /\ worker'.id = Head(calls).id
        /\ worker'.phase = "sizing"
    BY DEF TakeTransfer, Idle
  <1>6. /\ runningRow' = runningRow /\ Current' = Current /\ (Asked' <=> Asked)
        /\ Len(signals') = Len(signals)
        /\ \A i \in 1..Len(signals) : IsAnswer(i)' <=> IsAnswer(i)
    BY DEF TakeTransfer, managerVars, Current, Asked, IsAnswer
  <1>7. Busy' /\ NonePosted' /\ NoneAnswered'
    <2>1. Busy'
      BY <1>5 DEF Busy
    <2>2. NonePosted'
      BY <1>2, <1>4 DEF NonePosted
    <2>3. NoneAnswered'
      BY <1>3, <1>6 DEF AtPost, NoneAnswered
    <2>4. QED
      BY <2>1, <2>2, <2>3
  <1>8. AtWorker'
    BY <1>2, <1>3, <1>4, <1>5, <1>6, <1>7 DEF AtPost, AtWorker
  <1>9. CurrentIsATransfer'
    BY <1>1, <1>2, <1>6 DEF CurrentIsATransfer
  <1>10. IdsAreOld'
    <2>1. \A i \in 1..Len(calls') : calls'[i].id < nextRequestId
      BY <1>1, <1>2 DEF IdsAreOld
    <2>2. worker'.id < nextRequestId
      BY <1>1, <1>2, <1>5 DEF IdsAreOld
    <2>3. QED
      BY <1>1, <1>6, <2>1, <2>2 DEF IdsAreOld, TakeTransfer
  <1>11. CancelIsAsked'
    BY <1>1, <1>6 DEF CancelIsAsked, TakeTransfer
  <1>12. QED
    BY <1>8, <1>9, <1>10, <1>11 DEF Pipe, Place

(* The worker announces a size or a chunk, or finds the end. *)
LEMMA MoveKeepsPipe ==
  ASSUME TypeOK, Pipe, UNCHANGED managerVars, UNCHANGED <<nextRequestId, calls>>,
         UNCHANGED cancelRequests, Busy, Busy', worker'.id = worker.id,
         \/ UNCHANGED signals
         \/ \E kind \in {"transferStarted", "transferProgress"} : \E moved, total :
              signals' = Append(signals, Signal(kind, worker.id, moved, total))
  PROVE  Pipe'
  <1>1. IdsAreOld /\ CurrentIsATransfer /\ Place /\ CancelIsAsked
    BY DEF Pipe
  <1>2. AtWorker
    BY <1>1 DEF Place, Nowhere, AtPost, AtGui
  <1>3. /\ Len(signals) \in Nat
        /\ \A i \in 1..Len(signals) : signals'[i] = signals[i]
        /\ \A i \in 1..Len(signals') :
             \/ i \in 1..Len(signals)
             \/ signals'[i].kind \in {"transferStarted", "transferProgress"}
                  /\ signals'[i].id = worker.id
    <2>1. CASE UNCHANGED signals
      BY <2>1, PipeTyped
    <2>2. CASE \E kind \in {"transferStarted", "transferProgress"} : \E moved, total :
                 signals' = Append(signals, Signal(kind, worker.id, moved, total))
      <3>1. PICK kind \in {"transferStarted", "transferProgress"} :
              \E moved, total :
                signals' = Append(signals, Signal(kind, worker.id, moved, total))
        BY <2>2
      <3>2. PICK moved, total :
              signals' = Append(signals, Signal(kind, worker.id, moved, total))
        BY <3>1
      <3>3. /\ Len(signals) \in Nat
            /\ Len(signals') = Len(signals) + 1
            /\ \A i \in 1..Len(signals) : signals'[i] = signals[i]
            /\ signals'[Len(signals) + 1] = Signal(kind, worker.id, moved, total)
        BY <3>2, OneAdded
      <3>4. /\ Signal(kind, worker.id, moved, total).kind = kind
            /\ Signal(kind, worker.id, moved, total).id = worker.id
        BY DEF Signal
      <3>5. \A i \in 1..Len(signals') : i \in 1..Len(signals) \/ i = Len(signals) + 1
        BY <3>3
      <3>6. QED
        BY <3>3, <3>4, <3>5
    <2>3. QED
      BY <2>1, <2>2
  <1>4. runningRow' = runningRow /\ Current' = Current /\ (Asked' <=> Asked)
    BY DEF managerVars, Current, Asked
  <1>5. NoneAnswered'
    <2>1. ASSUME NEW i \in 1..Len(signals')
          PROVE  ~IsAnswer(i)'
      <3>1. CASE i \in 1..Len(signals)
        BY <1>2, <1>3, <1>4, <3>1 DEF AtWorker, NoneAnswered, IsAnswer
      <3>2. CASE i \notin 1..Len(signals)
        BY <1>3, <3>2 DEF IsAnswer, Answers
      <3>3. QED
        BY <3>1, <3>2
    <2>2. QED
      BY <2>1 DEF NoneAnswered
  <1>6. AtWorker'
    BY <1>2, <1>4, <1>5 DEF AtWorker, NonePosted
  <1>7. CurrentIsATransfer'
    BY <1>1, <1>4 DEF CurrentIsATransfer
  <1>8. IdsAreOld'
    <2>1. \A i \in 1..Len(signals') : signals'[i].id < nextRequestId
      BY <1>1, <1>3 DEF IdsAreOld
    <2>2. QED
      BY <1>1, <1>4, <2>1 DEF IdsAreOld
  <1>9. CancelIsAsked'
    BY <1>1, <1>3, <1>4 DEF CancelIsAsked
  <1>10. QED
    BY <1>6, <1>7, <1>8, <1>9 DEF Pipe, Place

(***************************************************************************)
(* The worker answers: whatever it says last is the answer, and what it    *)
(* may say before is none.                                                 *)
(***************************************************************************)
LEMMA AnswerKeepsPipe ==
  ASSUME TypeOK, Pipe, UNCHANGED managerVars, Busy, NEW kind \in Answers,
         kind = "operationCancelled" => worker.id \in cancelRequests,
         NEW n \in {1, 2}, NEW answers \in Seq(SignalSet), Len(answers) = n,
         answers[n] = Answer(kind, worker.id),
         n = 2 => answers[1].kind = "transferProgress" /\ answers[1].id = worker.id,
         AnswerTransfer(answers)
  PROVE  Pipe'
  <1>1. IdsAreOld /\ CurrentIsATransfer /\ Place /\ CancelIsAsked
    BY DEF Pipe
  <1>2. AtWorker
    BY <1>1 DEF Place, Nowhere, AtPost, AtGui
  <1>3. /\ Answer(kind, worker.id).kind = kind
        /\ Answer(kind, worker.id).id = worker.id
    BY DEF Answer, Signal
  <1>4. /\ Len(signals) \in Nat
        /\ Len(signals') = Len(signals) + n
        /\ \A i \in 1..Len(signals) : signals'[i] = signals[i]
        /\ signals'[Len(signals) + n] = Answer(kind, worker.id)
        /\ \A i \in 1..Len(signals') :
             \/ i \in 1..Len(signals)
             \/ i = Len(signals) + n
             \/ signals'[i].kind = "transferProgress" /\ signals'[i].id = worker.id
    <2>1. signals' = signals \o answers /\ signals \in Seq(SignalSet)
      BY PipeTyped DEF AnswerTransfer
    <2>2. /\ Len(signals) \in Nat
          /\ Len(signals') = Len(signals) + n
          /\ \A i \in 1..Len(signals) : signals'[i] = signals[i]
          /\ \A i \in 1..n : signals'[Len(signals) + i] = answers[i]
      BY <2>1
    <2>3. \A i \in 1..Len(signals') :
            \/ i \in 1..Len(signals)
            \/ i = Len(signals) + n
            \/ i = Len(signals) + 1 /\ n = 2
      BY <2>2
    <2>4. n = 2 => signals'[Len(signals) + 1] = answers[1]
      BY <2>2
    <2>5. QED
      BY <2>2, <2>3, <2>4
  <1>5. runningRow' = runningRow /\ Current' = Current /\ (Asked' <=> Asked)
    BY DEF managerVars, Current, Asked
  <1>6. ~Busy' /\ NonePosted' /\ worker' = Idle
    BY <1>2 DEF AtWorker, NonePosted, AnswerTransfer, Busy, Idle
  <1>7. \A i \in 1..Len(signals') : IsAnswer(i)' <=> i = Len(signals) + n
    <2>1. ASSUME NEW i \in 1..Len(signals')
          PROVE  IsAnswer(i)' <=> i = Len(signals) + n
      <3>1. CASE i \in 1..Len(signals)
        BY <1>2, <1>4, <1>5, <3>1 DEF AtWorker, NoneAnswered, IsAnswer
      <3>2. CASE i = Len(signals) + n
        BY <1>2, <1>3, <1>4, <1>5, <3>2 DEF AtWorker, IsAnswer
      <3>3. CASE signals'[i].kind = "transferProgress" /\ i # Len(signals) + n
        BY <3>3 DEF IsAnswer, Answers
      <3>4. QED
        BY <1>4, <3>1, <3>2, <3>3
    <2>2. QED
      BY <2>1
  <1>8. AtGui'
    <2>1. Len(signals) + n \in 1..Len(signals')
      BY <1>4
    <2>2. QED
      BY <1>2, <1>5, <1>6, <1>7, <2>1 DEF AtWorker, AtGui
  <1>9. CurrentIsATransfer'
    BY <1>1, <1>5 DEF CurrentIsATransfer, AnswerTransfer
  <1>10. IdsAreOld'
    <2>1. \A i \in 1..Len(signals') : signals'[i].id < nextRequestId
      BY <1>1, <1>3, <1>4 DEF IdsAreOld
    <2>2. worker'.id < nextRequestId
      BY <1>6, PipeTyped DEF Idle
    <2>3. QED
      BY <1>1, <1>5, <2>1, <2>2 DEF IdsAreOld, AnswerTransfer
  <1>11. CancelIsAsked'
    BY <1>1, <1>2, <1>3, <1>4, <1>5 DEF AtWorker, CancelIsAsked, AnswerTransfer
  <1>12. QED
    BY <1>8, <1>9, <1>10, <1>11 DEF Pipe, Place

LEMMA WorkKeepsPipe ==
  ASSUME TypeOK, Pipe, Work
  PROVE  Pipe'
  <1>1. UNCHANGED managerVars /\ worker.id \in Nat
    BY PipeTyped DEF Work
  <1>2. CASE ServeList
    <2>1. PICK kind \in {"listingReady", "operationFailed"} :
            signals' = Append(signals, Answer(kind, Head(calls).id))
      BY <1>2 DEF ServeList
    <2>2. kind \in SignalKinds \ {"operationCancelled"}
      BY DEF SignalKinds
    <2>3. QED
      BY <1>1, <1>2, <2>1, <2>2, ServedKeepsPipe DEF ServeList
  <1>3. CASE ServeMutation
    <2>1. PICK kind \in {"operationFinished", "operationFailed"} :
            signals' = Append(signals, Answer(kind, Head(calls).id))
      BY <1>3 DEF ServeMutation
    <2>2. kind \in SignalKinds \ {"operationCancelled"}
      BY DEF SignalKinds
    <2>3. cancelRequests' \subseteq cancelRequests
      BY <1>3 DEF ServeMutation
    <2>4. QED
      BY <1>1, <1>3, <2>1, <2>2, <2>3, ServedKeepsPipe DEF ServeMutation
  <1>4. CASE TakeTransfer
    BY <1>1, <1>4, TakeKeepsPipe
  <1>5. CASE StartMoving \/ MoveChunk \/ ReachEnd
    <2>1. worker \in WorkerSet
      BY DEF TypeOK, PipeTypeOK
    <2>2. worker'.id = worker.id /\ Busy /\ Busy'
      BY <1>5, <2>1 DEF StartMoving, MoveChunk, ReachEnd, Busy, WorkerSet
    <2>3. \/ UNCHANGED signals
          \/ \E kind \in {"transferStarted", "transferProgress"} : \E moved, total :
               signals' = Append(signals, Signal(kind, worker.id, moved, total))
      BY <1>5 DEF StartMoving, MoveChunk, ReachEnd
    <2>4. UNCHANGED <<nextRequestId, calls>> /\ UNCHANGED cancelRequests
      BY <1>5 DEF StartMoving, MoveChunk, ReachEnd
    <2>5. QED
      BY <1>1, <2>2, <2>3, <2>4, MoveKeepsPipe
  <1>6. ASSUME NEW kind \in Answers, Busy, AnswerTransfer(<<Answer(kind, worker.id)>>),
               kind = "operationCancelled" => worker.id \in cancelRequests
        PROVE  Pipe'
    <2> DEFINE answers == <<Answer(kind, worker.id)>>
    <2>1. Answer(kind, worker.id) \in SignalSet
      BY <1>1, SignalTyped DEF Answers, SignalKinds
    <2>2. /\ answers \in Seq(SignalSet)
          /\ Len(answers) = 1
          /\ answers[1] = Answer(kind, worker.id)
      BY <2>1, OneOrTwoTyped
    <2>3. AnswerTransfer(answers)
      BY <1>6
    <2> HIDE DEF answers
    <2>4. QED
      BY <1>1, <1>6, <2>2, <2>3, AnswerKeepsPipe
  <1>7. CASE SizingFails \/ MovingFails \/ NoticeCancel
    <2>1. Busy
      BY <1>7 DEF SizingFails, MovingFails, NoticeCancel, Busy
    <2>2. "operationFailed" \in Answers /\ "operationCancelled" \in Answers
      BY DEF Answers
    <2>3. \/ AnswerTransfer(<<Answer("operationFailed", worker.id)>>)
          \/ /\ worker.id \in cancelRequests
             /\ AnswerTransfer(<<Answer("operationCancelled", worker.id)>>)
      BY <1>7 DEF SizingFails, MovingFails, NoticeCancel
    <2>4. QED
      BY <1>6, <2>1, <2>2, <2>3
  <1>8. CASE FinishTransfer
    <2> DEFINE shown   == Signal("transferProgress", worker.id, worker.total, worker.total)
               answers == <<shown, Answer("transferFinished", worker.id)>>
    <2>1. worker.total \in Nat
      BY DEF TypeOK, PipeTypeOK, WorkerSet
    <2>2. shown \in SignalSet /\ Answer("transferFinished", worker.id) \in SignalSet
      BY <1>1, <2>1, SignalTyped DEF SignalKinds
    <2>3. shown.kind = "transferProgress" /\ shown.id = worker.id
      BY DEF Signal
    <2>4. AnswerTransfer(answers) /\ Busy
      BY <1>8 DEF FinishTransfer, Busy
    <2> HIDE DEF shown
    <2>5. /\ answers \in Seq(SignalSet)
          /\ Len(answers) = 2
          /\ answers[1] = shown
          /\ answers[2] = Answer("transferFinished", worker.id)
      BY <2>2, OneOrTwoTyped
    <2>6. "transferFinished" \in Answers
      BY DEF Answers
    <2> HIDE DEF answers
    <2>7. QED
      BY <1>1, <2>3, <2>4, <2>5, <2>6, AnswerKeepsPipe
  <1>9. QED
    BY <1>2, <1>3, <1>4, <1>5, <1>7, <1>8 DEF Work, WorkerStep

-----------------------------------------------------------------------------
(***************************************************************************)
(* startNext() with no job running and no transfer on its way: the next    *)
(* job's request is new, and it is posted behind the other calls.          *)
(***************************************************************************)
LEMMA StartNextPipe ==
  ASSUME NEW table \in Seq(JobSet), NEW posted \in Seq(CallSet), NEW next \in Nat \ {0},
         StartNext(table, 0, posted, next), ~Busy', worker'.id < next,
         \A i \in 1..Len(posted) : posted[i].kind # "transfer" /\ posted[i].id < next,
         signals' \in Seq(SignalSet), \A i \in 1..Len(signals') : signals'[i].id < next,
         cancelRequests' \subseteq Nat, \A id \in cancelRequests' : id < next,
         worker'.id \in Nat
  PROVE  Pipe'
  <1>0. /\ \A i \in 1..Len(posted) : posted[i].id \in Nat
        /\ \A i \in 1..Len(signals') : signals'[i].id \in Nat
        /\ Len(posted) \in Nat
        /\ Len(signals') \in Nat
    <2>1. /\ \A i \in 1..Len(posted) : posted[i] \in CallSet
          /\ \A i \in 1..Len(signals') : signals'[i] \in SignalSet
          /\ Len(posted) \in Nat
          /\ Len(signals') \in Nat
      OBVIOUS
    <2>2. QED
      BY <2>1 DEF CallSet, SignalSet
  <1>1. CASE runningRow' = 0 /\ calls' = posted /\ nextRequestId' = next
    <2>1. Place'
      BY <1>1 DEF Place, Nowhere, NonePosted
    <2>2. CurrentIsATransfer' /\ IdsAreOld' /\ CancelIsAsked'
      BY <1>1 DEF CurrentIsATransfer, IdsAreOld, CancelIsAsked
    <2>3. QED
      BY <2>1, <2>2 DEF Pipe
  <1>2. CASE /\ \E r \in DOMAIN table :
                  /\ jobs' = [table EXCEPT ![r] = [@ EXCEPT !.state = "Running",
                                                            !.requestId = next]]
                  /\ runningRow' = r
             /\ calls' = Append(posted, Call("transfer", next))
             /\ nextRequestId' = next + 1
    <2>1. runningRow' # 0 /\ Current' = next
      <3>1. PICK r \in DOMAIN table :
              /\ jobs' = [table EXCEPT ![r] = [@ EXCEPT !.state = "Running",
                                                        !.requestId = next]]
              /\ runningRow' = r
        BY <1>2
      <3>2. table[r] \in JobSet /\ r # 0
        OBVIOUS
      <3>3. [table[r] EXCEPT !.state = "Running", !.requestId = next].requestId = next
        BY <3>2 DEF JobSet
      <3>4. jobs'[r] = [table[r] EXCEPT !.state = "Running", !.requestId = next]
        BY <3>1
      <3>5. QED
        BY <3>1, <3>2, <3>3, <3>4 DEF Current
    <2>2. Call("transfer", next).kind = "transfer" /\ Call("transfer", next).id = next
      BY DEF Call
    <2>3. /\ Len(calls') = Len(posted) + 1
          /\ \A i \in 1..Len(posted) : calls'[i] = posted[i]
          /\ calls'[Len(posted) + 1] = Call("transfer", next)
          /\ \A i \in 1..Len(calls') : i \in 1..Len(posted) \/ i = Len(posted) + 1
      BY <1>0, <1>2, AppendRows
    <2>4. /\ Len(posted) + 1 \in 1..Len(calls')
          /\ \A i \in 1..Len(calls') : calls'[i].kind = "transfer" <=> i = Len(posted) + 1
      BY <1>0, <2>2, <2>3, SMTT(30)
    <2>5. \A i \in 1..Len(signals') : ~IsAnswer(i)'
      BY <1>0, <2>1 DEF IsAnswer
    <2>6. AtPost'
      BY <2>1, <2>2, <2>3, <2>4, <2>5 DEF AtPost, NoneAnswered
    <2>7. CurrentIsATransfer'
      BY <1>0, <2>1, <2>2, <2>3, SMTT(30) DEF CurrentIsATransfer
    <2>8. IdsAreOld'
      <3>1. \A i \in 1..Len(calls') : calls'[i].id < next + 1
        BY <1>0, <2>2, <2>3, SMTT(30)
      <3>2. \A i \in 1..Len(signals') : signals'[i].id < next + 1
        BY <1>0
      <3>3. \A id \in cancelRequests' : id < next + 1
        OBVIOUS
      <3>4. QED
        BY <1>2, <2>1, <3>1, <3>2, <3>3 DEF IdsAreOld
    <2>9. CancelIsAsked'
      BY <1>0, <2>1 DEF CancelIsAsked
    <2>10. QED
      BY <2>6, <2>7, <2>8, <2>9 DEF Pipe, Place
  <1>3. QED
    BY <1>1, <1>2 DEF StartNext

(* What the pipe holds while no job runs. *)
LEMMA NothingOut ==
  ASSUME Pipe, runningRow = 0
  PROVE  NonePosted /\ ~Busy
  BY DEF Pipe, Place, Nowhere, AtPost, AtWorker, AtGui

LEMMA EnqueueKeepsPipe ==
  ASSUME Typed, Pipe, NEW dir \in Directions, Enqueue(dir)
  PROVE  Pipe'
  <1> DEFINE table == Append(jobs, NewJob(nextJobId, dir))
  <1>1. TypeOK /\ RunningRowIsTheRunningJob /\ IdsAreOld
    BY DEF Typed, Pipe
  <1>2. NewJob(nextJobId, dir) \in JobSet
    BY <1>1 DEF NewJob, JobSet, JobStates, TypeOK
  <1>3. table \in Seq(JobSet) /\ \A r \in DOMAIN jobs : table[r] = jobs[r]
    BY <1>1, <1>2 DEF TypeOK
  <1>4. StartNext(table, runningRow, calls, nextRequestId)
    BY DEF Enqueue
  <1>5. UNCHANGED <<worker, cancelRequests, signals, asked>>
    BY DEF Enqueue
  <1> HIDE DEF table
  <1>6. CASE runningRow # 0
    <2>1. /\ jobs' = table
          /\ UNCHANGED <<runningRow, calls, nextRequestId>>
      BY <1>4, <1>6 DEF StartNext
    <2>2. runningRow \in DOMAIN jobs
      BY <1>1, <1>6 DEF RunningRowIsTheRunningJob, TypeOK
    <2>3. SameJob
      BY <1>3, <2>1, <2>2 DEF SameJob, Current
    <2>4. ManagerFrame
      BY <1>5, <2>1 DEF ManagerFrame
    <2>5. QED
      BY <1>1, <1>5, <2>3, <2>4, ManagerKeepsPipe
  <1>7. CASE runningRow = 0
    <2>1. StartNext(table, 0, calls, nextRequestId)
      BY <1>4, <1>7
    <2>2. ~Busy' /\ worker'.id < nextRequestId /\ worker'.id \in Nat
      BY <1>1, <1>5, <1>7, NothingOut, PipeTyped DEF IdsAreOld, Busy
    <2>3. \A i \in 1..Len(calls) : calls[i].kind # "transfer" /\ calls[i].id < nextRequestId
      BY <1>1, <1>7, NothingOut DEF IdsAreOld, NonePosted
    <2>4. /\ signals' \in Seq(SignalSet)
          /\ \A i \in 1..Len(signals') : signals'[i].id < nextRequestId
          /\ cancelRequests' \subseteq Nat
          /\ \A id \in cancelRequests' : id < nextRequestId
      BY <1>1, <1>5, PipeTyped DEF IdsAreOld
    <2>5. QED
      BY <1>1, <1>3, <2>1, <2>2, <2>3, <2>4, StartNextPipe, PipeTyped
  <1>8. QED
    BY <1>6, <1>7

(* The answer taken is the running job's, and nothing else is on its way. *)
LEMMA EndTransferKeepsPipe ==
  ASSUME Typed, Pipe, EndTransfer
  PROVE  Pipe' /\ IsAnswer(1) /\ signals # <<>> /\ Head(signals) = signals[1]
  <1> DEFINE state == Outcome(Head(signals).kind)
             job   == jobs[runningRow]
             over  == [job EXCEPT !.state = state, !.requestId = 0,
                                  !.moved = IF state = "Completed" THEN job.total ELSE @]
             table == [jobs EXCEPT ![runningRow] = over]
             more  == Append(calls, Call("list", nextRequestId))
  <1>1. TypeOK /\ RunningRowIsTheRunningJob /\ IdsAreOld /\ Place
    BY DEF Typed, Pipe
  <1>2. /\ signals # <<>>
        /\ signals' = Tail(signals)
        /\ Head(signals).kind \in Answers
        /\ UNCHANGED <<worker, cancelRequests>>
    BY DEF EndTransfer, Arrives
  <1>3. /\ Head(signals) = signals[1]
        /\ 1 \in 1..Len(signals)
        /\ signals' \in Seq(SignalSet)
        /\ Len(signals') = Len(signals) - 1
        /\ \A i \in 1..Len(signals') : i + 1 \in 1..Len(signals) /\ signals'[i] = signals[i + 1]
    <2>1. /\ Len(signals) \in Nat \ {0}
          /\ Head(signals) = signals[1]
          /\ Len(signals') = Len(signals) - 1
          /\ \A i \in 1..(Len(signals) - 1) : signals'[i] = signals[i + 1]
          /\ signals' \in Seq(SignalSet)
      BY <1>1, <1>2, PipeTyped, TailRows, HeadTyped
    <2>2. QED
      BY <2>1
  <1>4. runningRow \in DOMAIN jobs /\ runningRow # 0 /\ Head(signals).id = Current
    <2>1. PICK row \in DOMAIN jobs : IsRequestOf(row, Head(signals).id)
      BY DEF EndTransfer, OwnsRequest
    <2>2. row = runningRow
      BY <1>1, <2>1 DEF IsRequestOf, RunningRowIsTheRunningJob
    <2>3. row # 0
      BY <1>1, <2>1 DEF TypeOK
    <2>4. QED
      BY <2>1, <2>2, <2>3 DEF IsRequestOf, Current
  <1>5. IsAnswer(1)
    BY <1>2, <1>3, <1>4 DEF IsAnswer
  <1>6. NonePosted /\ ~Busy
    BY <1>1, <1>3, <1>5 DEF Place, Nowhere, AtPost, AtWorker, AtGui, NoneAnswered
  <1>7. job \in JobSet /\ state \in OverStates
    BY <1>1, <1>2, <1>4, RowTyped DEF Outcome, Answers, OverStates
  <1>8. over \in JobSet
    BY <1>7 DEF JobSet, JobStates
  <1>9. table \in Seq(JobSet)
    <2> HIDE DEF over
    <2>1. QED
      BY <1>1, <1>4, <1>8, UpdatedTyped DEF TypeOK
  <1>10. \/ StartNext(table, 0, calls, nextRequestId)
         \/ StartNext(table, 0, more, nextRequestId + 1)
    BY DEF EndTransfer, FinishCurrent
  <1>11. /\ nextRequestId \in Nat \ {0}
         /\ calls \in Seq(CallSet)
         /\ Len(calls) \in Nat
         /\ \A i \in 1..Len(calls) :
              calls[i].kind # "transfer" /\ calls[i].id < nextRequestId /\ calls[i].id \in Nat
    BY <1>1, <1>6, PipeTyped DEF NonePosted, IdsAreOld
  <1>12. /\ more \in Seq(CallSet)
         /\ \A i \in 1..Len(more) :
              more[i].kind # "transfer" /\ more[i].id < nextRequestId + 1
    <2>1. /\ Call("list", nextRequestId) \in CallSet
          /\ Call("list", nextRequestId).kind = "list"
          /\ Call("list", nextRequestId).id = nextRequestId
      BY <1>11 DEF Call, CallSet, RequestKinds
    <2>2. /\ more \in Seq(CallSet)
          /\ Len(more) = Len(calls) + 1
          /\ \A i \in 1..Len(calls) : more[i] = calls[i]
          /\ more[Len(calls) + 1] = Call("list", nextRequestId)
      BY <1>11, <2>1, AppendRows
    <2> HIDE DEF more
    <2>3. \A i \in 1..Len(more) : i \in 1..Len(calls) \/ i = Len(calls) + 1
      BY <1>11, <2>2
    <2>4. QED
      BY <1>11, <2>1, <2>2, <2>3
  <1>13. /\ ~Busy' /\ worker'.id \in Nat /\ cancelRequests' \subseteq Nat
         /\ worker'.id < nextRequestId
         /\ \A id \in cancelRequests' : id < nextRequestId
         /\ \A i \in 1..Len(signals') : signals'[i].id < nextRequestId
    BY <1>1, <1>2, <1>3, <1>6, PipeTyped DEF IdsAreOld, Busy
  <1>14. /\ nextRequestId + 1 \in Nat \ {0}
         /\ worker'.id < nextRequestId + 1
         /\ \A id \in cancelRequests' : id < nextRequestId + 1
         /\ \A i \in 1..Len(signals') : signals'[i].id < nextRequestId + 1
    <2>1. \A i \in 1..Len(signals') : signals'[i].id \in Nat
      BY <1>1, <1>3, PipeTyped
    <2>2. QED
      BY <1>11, <1>13, <2>1
  <1>15. Pipe'
    <2> HIDE DEF table, more
    <2>1. CASE StartNext(table, 0, calls, nextRequestId)
      BY <1>3, <1>9, <1>11, <1>13, <2>1, StartNextPipe
    <2>2. CASE StartNext(table, 0, more, nextRequestId + 1)
      BY <1>3, <1>9, <1>12, <1>13, <1>14, <2>2, StartNextPipe
    <2>3. QED
      BY <1>10, <2>1, <2>2
  <1>16. QED
    BY <1>2, <1>3, <1>5, <1>15

-----------------------------------------------------------------------------
(***************************************************************************)
(* The handlers that start nothing.                                        *)
(***************************************************************************)
LEMMA CancelKeepsPipe ==
  ASSUME Typed, Pipe, NEW row \in RowsIn("Running") \cup RowsIn("Queued"), Cancel(row)
  PROVE  Pipe'
  <1>1. TypeOK /\ RunningRowIsTheRunningJob
    BY DEF Typed
  <1>2. row \in DOMAIN jobs /\ jobs[row] \in JobSet
    BY <1>1, RowTyped DEF RowsIn
  <1>3. ManagerFrame /\ asked \subseteq asked' /\ runningRow' = runningRow
    BY DEF Cancel, ManagerFrame
  <1>4. CASE /\ jobs[row].state = "Running"
             /\ cancelRequests' = cancelRequests \cup {jobs[row].requestId}
             /\ UNCHANGED jobs
    <2>1. row = runningRow /\ runningRow # 0
      BY <1>1, <1>2, <1>4 DEF RunningRowIsTheRunningJob, TypeOK
    <2>2. SameJob /\ Asked'
      BY <1>3, <1>4, <2>1 DEF SameJob, Current, Asked, Cancel
    <2>3. \A id \in cancelRequests' : \/ id \in cancelRequests
                                      \/ runningRow # 0 /\ id = Current /\ Asked'
      BY <1>4, <2>1, <2>2 DEF Current
    <2>4. QED
      BY <1>1, <1>3, <2>2, <2>3, ManagerKeepsPipe
  <1>5. CASE /\ jobs[row].state = "Queued"
             /\ jobs' = [jobs EXCEPT ![row] = [@ EXCEPT !.state = "Cancelled"]]
             /\ UNCHANGED cancelRequests
    <2>1. row # runningRow
      BY <1>1, <1>2, <1>5 DEF RunningRowIsTheRunningJob
    <2>2. jobs'[runningRow] = jobs[runningRow]
      BY <1>5, <2>1
    <2>3. SameJob
      BY <1>3, <2>2 DEF SameJob, Current
    <2>4. QED
      BY <1>1, <1>3, <1>5, <2>3, ManagerKeepsPipe
  <1>6. QED
    BY <1>4, <1>5 DEF Cancel

LEMMA CancelAllKeepsPipe ==
  ASSUME Typed, Pipe, CancelAll
  PROVE  Pipe'
  <1>1. TypeOK /\ RunningRowIsTheRunningJob
    BY DEF Typed
  <1>2. ManagerFrame /\ asked \subseteq asked' /\ runningRow' = runningRow
    BY DEF CancelAll, ManagerFrame
  <1>3. \A row \in RowsIn("Running") : row = runningRow /\ runningRow # 0
    BY <1>1 DEF RunningRowIsTheRunningJob, TypeOK, RowsIn
  <1>4. runningRow # 0 => jobs'[runningRow] = jobs[runningRow]
    BY <1>1 DEF CancelAll, RunningRowIsTheRunningJob, TypeOK
  <1>5. SameJob
    BY <1>2, <1>4 DEF SameJob, Current
  <1>6. runningRow \in RowsIn("Running") => Asked'
    <2>1. SUFFICES ASSUME runningRow \in RowsIn("Running")
                   PROVE  Asked'
      OBVIOUS
    <2>2. jobs[runningRow].id \in asked'
      BY <2>1 DEF CancelAll
    <2>3. QED
      BY <1>2, <1>3, <1>4, <2>1, <2>2 DEF Asked
  <1>7. \A id \in cancelRequests' : \/ id \in cancelRequests
                                    \/ runningRow # 0 /\ id = Current /\ Asked'
    BY <1>3, <1>6 DEF CancelAll, Current
  <1>8. QED
    BY <1>1, <1>2, <1>5, <1>7, ManagerKeepsPipe

LEMMA ClearRowKeepsPipe ==
  ASSUME Typed, Pipe, ClearRow
  PROVE  Pipe'
  <1>1. TypeOK /\ ClearInTable /\ RunningRowIsTheRunningJob
    BY DEF Typed
  <1>2. ManagerFrame /\ asked \subseteq asked' /\ cancelRequests' = cancelRequests
    BY DEF ClearRow, ManagerFrame, pipeVars
  <1>3. clearRow \in 1..Len(jobs) /\ Len(jobs) \in Nat /\ runningRow \in 0..Len(jobs)
    BY <1>1 DEF TypeOK, ClearInTable, ClearRow, RunningRowIsTheRunningJob
  <1>4. SameJob
    <2>1. CASE UNCHANGED <<jobs, runningRow>>
      BY <2>1 DEF SameJob, Current
    <2>2. CASE /\ jobs[clearRow].state \in OverStates
               /\ jobs' = WithoutRow(clearRow)
               /\ runningRow' = IF runningRow > clearRow THEN runningRow - 1 ELSE runningRow
      <3>1. runningRow # clearRow
        BY <1>1, <1>3, <2>2 DEF RunningRowIsTheRunningJob, OverStates, TypeOK
      <3>2. \A r \in 1..(Len(jobs) - 1) :
              jobs'[r] = IF r < clearRow THEN jobs[r] ELSE jobs[r + 1]
        BY <2>2 DEF WithoutRow
      <3>3. runningRow' # 0 <=> runningRow # 0
        BY <1>3, <2>2, <3>1
      <3>4. runningRow # 0 => jobs'[runningRow'] = jobs[runningRow]
        <4>1. CASE runningRow > clearRow
          BY <1>3, <2>2, <3>1, <3>2, <4>1
        <4>2. CASE runningRow < clearRow
          BY <1>3, <2>2, <3>1, <3>2, <4>2
        <4>3. QED
          BY <1>3, <3>1, <4>1, <4>2
      <3>5. QED
        BY <3>3, <3>4 DEF SameJob, Current
    <2>3. QED
      BY <2>1, <2>2 DEF ClearRow
  <1>5. QED
    BY <1>1, <1>2, <1>4, ManagerKeepsPipe

(* A signal that is not the running job's answer is consumed. *)
LEMMA SignalKeepsPipe ==
  ASSUME Typed, Pipe, ShowTotal \/ ShowProgress \/ IgnoreSignal \/ MutationDone
  PROVE  Pipe'
  <1>1. TypeOK /\ RunningRowIsTheRunningJob /\ IdsAreOld
    BY DEF Typed, Pipe
  <1>2. /\ signals # <<>>
        /\ signals' = Tail(signals)
        /\ UNCHANGED <<worker, cancelRequests, runningRow, asked>>
    BY DEF ShowTotal, ShowProgress, IgnoreSignal, MutationDone, Arrives, managerVars
  <1>3. Head(signals) = signals[1]
    BY <1>1, <1>2, PipeTyped, TailRows
  <1>4. ~IsAnswer(1)
    <2>1. CASE ShowTotal \/ ShowProgress \/ MutationDone
      BY <1>3, <2>1 DEF ShowTotal, ShowProgress, MutationDone, Arrives, IsAnswer, Answers
    <2>2. CASE IgnoreSignal
      <3>1. SUFFICES ASSUME IsAnswer(1)
                     PROVE  FALSE
        OBVIOUS
      <3>2. runningRow \in DOMAIN jobs /\ jobs[runningRow].state = "Running"
        BY <1>1, <3>1 DEF IsAnswer, RunningRowIsTheRunningJob, TypeOK
      <3>3. Current # 0
        BY <1>1, <3>1, PipeTyped DEF IsAnswer, IdsAreOld
      <3>4. OwnsRequest(Head(signals).id)
        BY <1>3, <3>1, <3>2, <3>3 DEF IsAnswer, OwnsRequest, IsRequestOf, Current
      <3>5. QED
        BY <2>2, <3>2, <3>4 DEF IgnoreSignal
    <2>3. QED
      BY <2>1, <2>2
  <1>5. SameJob
    <2>1. CASE ShowTotal \/ ShowProgress
      <3>1. PICK row \in DOMAIN jobs :
              \/ jobs' = [jobs EXCEPT ![row] = [@ EXCEPT !.total = Head(signals).total]]
              \/ jobs' = [jobs EXCEPT ![row] = [@ EXCEPT !.moved = Head(signals).moved,
                                                         !.total = Head(signals).total]]
        BY <2>1 DEF ShowTotal, ShowProgress
      <3>2. jobs[row] \in JobSet
        BY <1>1, RowTyped
      <3>3. /\ [jobs[row] EXCEPT !.total = Head(signals).total].id = jobs[row].id
            /\ [jobs[row] EXCEPT !.total = Head(signals).total].requestId = jobs[row].requestId
            /\ [jobs[row] EXCEPT !.moved = Head(signals).moved,
                                 !.total = Head(signals).total].id = jobs[row].id
            /\ [jobs[row] EXCEPT !.moved = Head(signals).moved,
                                 !.total = Head(signals).total].requestId = jobs[row].requestId
        BY <3>2 DEF JobSet
      <3>4. PICK job : /\ job.id = jobs[row].id /\ job.requestId = jobs[row].requestId
                       /\ jobs' = [jobs EXCEPT ![row] = job]
        BY <3>1, <3>3
      <3>5. /\ jobs'[runningRow].id = jobs[runningRow].id
            /\ jobs'[runningRow].requestId = jobs[runningRow].requestId
        BY <3>4
      <3>6. QED
        BY <1>2, <3>5 DEF SameJob, Current
    <2>2. CASE IgnoreSignal \/ MutationDone
      BY <2>2 DEF IgnoreSignal, MutationDone, managerVars, SameJob, Current
    <2>3. QED
      BY <2>1, <2>2
  <1>6. ManagerFrame
    <2>1. CASE ShowTotal \/ ShowProgress \/ IgnoreSignal
      BY <1>2, <1>4, <2>1 DEF ShowTotal, ShowProgress, IgnoreSignal, ManagerFrame
    <2>2. CASE MutationDone
      <3>1. nextRequestId \in Nat
        BY <1>1, PipeTyped
      <3>2. /\ Call("list", nextRequestId) \in CallSet
            /\ Call("list", nextRequestId).kind # "transfer"
            /\ Call("list", nextRequestId).id = nextRequestId
        BY <3>1 DEF Call, CallSet, RequestKinds
      <3>3. QED
        BY <1>2, <1>4, <2>2, <3>2 DEF MutationDone, ManagerFrame
    <2>3. QED
      BY <2>1, <2>2
  <1>7. QED
    BY <1>1, <1>2, <1>5, <1>6, ManagerKeepsPipe

LEMMA BrowseKeepsPipe ==
  ASSUME Typed, Pipe, NEW kind \in {"list", "mutate"}, Browse(kind)
  PROVE  Pipe'
  <1>1. TypeOK /\ nextRequestId \in Nat
    BY PipeTyped DEF Typed
  <1>2. /\ Call(kind, nextRequestId) \in CallSet
        /\ Call(kind, nextRequestId).kind # "transfer"
        /\ Call(kind, nextRequestId).id = nextRequestId
    BY <1>1 DEF Call, CallSet, RequestKinds
  <1>3. ManagerFrame /\ SameJob /\ UNCHANGED <<asked, cancelRequests>>
    BY <1>2 DEF Browse, ManagerFrame, SameJob, Current, managerVars
  <1>4. QED
    BY <1>1, <1>3, ManagerKeepsPipe

LEMMA BeginClearKeepsPipe ==
  ASSUME Typed, Pipe, BeginClear \/ UNCHANGED vars
  PROVE  Pipe'
  <1>1. ManagerFrame /\ SameJob /\ UNCHANGED <<asked, cancelRequests>>
    BY DEF BeginClear, ManagerFrame, SameJob, Current, pipeVars, vars
  <1>2. QED
    BY <1>1, ManagerKeepsPipe DEF Typed

LEMMA StepPipe ==
  ASSUME Typed, Pipe, [Next]_vars
  PROVE  Pipe'
  <1>1. CASE Work
    BY <1>1, WorkKeepsPipe DEF Typed
  <1>2. CASE Deliver
    BY <1>2, SignalKeepsPipe, EndTransferKeepsPipe DEF Deliver
  <1>3. CASE ClearRow
    BY <1>3, ClearRowKeepsPipe
  <1>4. CASE UserStep
    BY <1>4, EnqueueKeepsPipe, CancelKeepsPipe, CancelAllKeepsPipe, BeginClearKeepsPipe,
       BrowseKeepsPipe DEF UserStep
  <1>5. CASE UNCHANGED vars
    BY <1>5, BeginClearKeepsPipe
  <1>6. QED
    BY <1>1, <1>2, <1>3, <1>4, <1>5 DEF Next

-----------------------------------------------------------------------------
(* Rows that end as cancelled: startNext() makes none. *)
LEMMA StartNextCancelsNone ==
  ASSUME NEW table \in Seq(JobSet), NEW row, NEW posted, NEW next, UNCHANGED asked,
         \A r \in DOMAIN table : table[r].state = "Cancelled" => table[r].id \in asked,
         StartNext(table, row, posted, next)
  PROVE  OnlyAskedIsCancelled'
  <1>1. CASE jobs' = table
    BY <1>1 DEF OnlyAskedIsCancelled
  <1>2. CASE \E r \in DOMAIN table :
               jobs' = [table EXCEPT ![r] = [@ EXCEPT !.state = "Running", !.requestId = next]]
    <2>1. PICK r \in DOMAIN table :
            jobs' = [table EXCEPT ![r] = [@ EXCEPT !.state = "Running", !.requestId = next]]
      BY <1>2
    <2>2. table[r] \in JobSet
      OBVIOUS
    <2>3. [table[r] EXCEPT !.state = "Running", !.requestId = next].state = "Running"
      BY <2>2 DEF JobSet
    <2>4. PICK job : job.state = "Running" /\ jobs' = [table EXCEPT ![r] = job]
      BY <2>1, <2>3
    <2>5. QED
      BY <2>4 DEF OnlyAskedIsCancelled
  <1>3. QED
    BY <1>1, <1>2 DEF StartNext

LEMMA StepOnlyAsked ==
  ASSUME Typed, Pipe, OnlyAskedIsCancelled, [Next]_vars
  PROVE  OnlyAskedIsCancelled'
  <1>1. TypeOK /\ ClearInTable /\ RunningRowIsTheRunningJob
    BY DEF Typed
  <1>2. ASSUME NEW dir \in Directions, Enqueue(dir)
        PROVE  OnlyAskedIsCancelled'
    <2> DEFINE table == Append(jobs, NewJob(nextJobId, dir))
    <2>1. NewJob(nextJobId, dir) \in JobSet /\ NewJob(nextJobId, dir).state = "Queued"
      BY <1>1 DEF NewJob, JobSet, JobStates, TypeOK
    <2>2. /\ table \in Seq(JobSet)
          /\ \A r \in DOMAIN table : table[r].state = "Cancelled" => table[r].id \in asked
      BY <1>1, <2>1 DEF TypeOK, OnlyAskedIsCancelled
    <2>3. StartNext(table, runningRow, calls, nextRequestId) /\ UNCHANGED asked
      BY <1>2 DEF Enqueue
    <2> HIDE DEF table
    <2>4. QED
      BY <2>2, <2>3, StartNextCancelsNone
  <1>3. ASSUME NEW row \in RowsIn("Running") \cup RowsIn("Queued"), Cancel(row)
        PROVE  OnlyAskedIsCancelled'
    <2>1. row \in DOMAIN jobs /\ jobs[row] \in JobSet
      BY <1>1, RowTyped DEF RowsIn
    <2>2. [jobs[row] EXCEPT !.state = "Cancelled"].id = jobs[row].id
      BY <2>1 DEF JobSet
    <2>3. asked' = asked \cup {jobs[row].id}
      BY <1>3 DEF Cancel
    <2>4. CASE UNCHANGED jobs
      BY <2>3, <2>4 DEF OnlyAskedIsCancelled
    <2>5. CASE jobs' = [jobs EXCEPT ![row] = [@ EXCEPT !.state = "Cancelled"]]
      <3>1. PICK job : job.id = jobs[row].id /\ jobs' = [jobs EXCEPT ![row] = job]
        BY <2>2, <2>5
      <3>2. QED
        BY <2>1, <2>3, <3>1 DEF OnlyAskedIsCancelled
    <2>6. QED
      BY <1>3, <2>4, <2>5 DEF Cancel
  <1>4. CASE CancelAll
    <2>1. ASSUME NEW r \in DOMAIN jobs, jobs[r].state = "Queued"
          PROVE  [jobs[r] EXCEPT !.state = "Cancelled"].id = jobs[r].id /\ jobs[r].id \in asked'
      <3>1. r \in RowsIn("Queued")
        BY <2>1 DEF RowsIn
      <3>2. jobs[r].id \in asked'
        BY <1>4, <3>1 DEF CancelAll
      <3>3. jobs[r] \in JobSet
        BY <1>1, RowTyped
      <3>4. QED
        BY <3>2, <3>3 DEF JobSet
    <2>2. asked \subseteq asked'
      BY <1>4 DEF CancelAll
    <2>3. QED
      BY <1>4, <2>1, <2>2 DEF CancelAll, OnlyAskedIsCancelled
  <1>5. CASE ClearRow
    <2>1. \A r \in DOMAIN jobs' : \E q \in DOMAIN jobs : jobs'[r] = jobs[q]
      <3>1. CASE UNCHANGED jobs
        BY <3>1
      <3>2. CASE jobs' = WithoutRow(clearRow)
        <4>1. /\ DOMAIN jobs' = 1..(Len(jobs) - 1)
              /\ \A r \in 1..(Len(jobs) - 1) :
                   jobs'[r] = IF r < clearRow THEN jobs[r] ELSE jobs[r + 1]
              /\ DOMAIN jobs = 1..Len(jobs)
              /\ Len(jobs) \in Nat
          BY <1>1, <3>2 DEF WithoutRow, TypeOK
        <4>2. \A r \in 1..(Len(jobs) - 1) : r \in 1..Len(jobs) /\ r + 1 \in 1..Len(jobs)
          BY <4>1
        <4>3. QED
          BY <4>1, <4>2
      <3>3. QED
        BY <1>5, <3>1, <3>2 DEF ClearRow
    <2>2. QED
      BY <1>5, <2>1 DEF ClearRow, OnlyAskedIsCancelled
  <1>6. CASE ShowTotal \/ ShowProgress
    <2>1. PICK row \in DOMAIN jobs :
            \/ jobs' = [jobs EXCEPT ![row] = [@ EXCEPT !.total = Head(signals).total]]
            \/ jobs' = [jobs EXCEPT ![row] = [@ EXCEPT !.moved = Head(signals).moved,
                                                       !.total = Head(signals).total]]
      BY <1>6 DEF ShowTotal, ShowProgress
    <2>2. jobs[row] \in JobSet
      BY <1>1, RowTyped
    <2>3. /\ [jobs[row] EXCEPT !.total = Head(signals).total].state = jobs[row].state
          /\ [jobs[row] EXCEPT !.total = Head(signals).total].id = jobs[row].id
          /\ [jobs[row] EXCEPT !.moved = Head(signals).moved,
                               !.total = Head(signals).total].state = jobs[row].state
          /\ [jobs[row] EXCEPT !.moved = Head(signals).moved,
                               !.total = Head(signals).total].id = jobs[row].id
      BY <2>2 DEF JobSet
    <2>4. PICK job : /\ job.state = jobs[row].state /\ job.id = jobs[row].id
                     /\ jobs' = [jobs EXCEPT ![row] = job]
      BY <2>1, <2>3
    <2>5. UNCHANGED asked
      BY <1>6 DEF ShowTotal, ShowProgress
    <2>6. QED
      BY <2>4, <2>5 DEF OnlyAskedIsCancelled
  <1>7. CASE EndTransfer
    <2> DEFINE state == Outcome(Head(signals).kind)
               job   == jobs[runningRow]
               over  == [job EXCEPT !.state = state, !.requestId = 0,
                                    !.moved = IF state = "Completed" THEN job.total ELSE @]
               table == [jobs EXCEPT ![runningRow] = over]
    <2>1. IsAnswer(1) /\ Head(signals) = signals[1] /\ signals # <<>>
      BY <1>7, EndTransferKeepsPipe
    <2>2. 1 \in 1..Len(signals)
      BY <1>1, <2>1, PipeTyped
    <2>3. state = "Cancelled" => Asked
      <3>1. CASE signals[1].kind = "operationCancelled"
        BY <2>1, <2>2, <3>1 DEF Pipe, CancelIsAsked, IsAnswer
      <3>2. CASE signals[1].kind \in {"transferFinished", "operationFailed"}
        BY <2>1, <3>2 DEF Outcome
      <3>3. QED
        BY <2>1, <3>1, <3>2 DEF IsAnswer, Answers
    <2>4. runningRow \in DOMAIN jobs /\ job \in JobSet
      BY <1>1, <1>7, RowTyped DEF EndTransfer
    <2>5. state \in OverStates
      BY <1>7 DEF EndTransfer, Arrives, Outcome, Answers, OverStates
    <2>6. over \in JobSet /\ over.state = state /\ over.id = job.id
      BY <2>4, <2>5 DEF JobSet, JobStates
    <2> HIDE DEF state, over
    <2>7. /\ table \in Seq(JobSet)
          /\ \A r \in DOMAIN table : table[r].state = "Cancelled" => table[r].id \in asked
      <3>1. table \in Seq(JobSet)
        BY <1>1, <2>4, <2>6, UpdatedTyped DEF TypeOK
      <3>2. \A r \in DOMAIN table : table[r] = IF r = runningRow THEN over ELSE jobs[r]
        BY <2>4
      <3>3. QED
        BY <2>3, <2>4, <2>6, <3>1, <3>2 DEF OnlyAskedIsCancelled, Asked
    <2>8. \/ StartNext(table, 0, calls, nextRequestId)
          \/ StartNext(table, 0, Append(calls, Call("list", nextRequestId)), nextRequestId + 1)
      BY <1>7 DEF EndTransfer, FinishCurrent, over, state
    <2>9. UNCHANGED asked
      BY <1>7 DEF EndTransfer
    <2> HIDE DEF table
    <2>10. QED
      BY <2>7, <2>8, <2>9, StartNextCancelsNone
  <1>8. CASE UNCHANGED <<jobs, asked>>
    BY <1>8 DEF OnlyAskedIsCancelled
  <1>9. QED
    BY <1>2, <1>3, <1>4, <1>5, <1>6, <1>7, <1>8
       DEF Next, Work, Deliver, UserStep, BeginClear, Browse, IgnoreSignal, MutationDone,
           managerVars, vars

LEMMA InitIInv == Init => IInv
  BY InitType
     DEF Init, PipeInit, IInv, Typed, Pipe, RunningRowIsTheRunningJob, IdsAreOld,
         CurrentIsATransfer, Place, Nowhere, NonePosted, Busy, Idle, CancelIsAsked,
         OnlyAskedIsCancelled

LEMMA StepIInv == IInv /\ [Next]_vars => IInv'
  <1> SUFFICES ASSUME IInv, [Next]_vars
               PROVE  IInv'
    OBVIOUS
  <1>1. TypeOK' /\ ClearInTable'
    BY StepType DEF IInv, Typed
  <1>2. RunningRowIsTheRunningJob'
    BY StepRow DEF IInv, Typed
  <1>3. Pipe' /\ OnlyAskedIsCancelled'
    BY StepPipe, StepOnlyAsked DEF IInv
  <1>4. QED
    BY <1>1, <1>2, <1>3 DEF IInv, Typed

(***************************************************************************)
(* The inductive invariant holds in every reachable state.                 *)
(***************************************************************************)
THEOREM RequestPlaceCorrect == Spec => []IInv
  BY InitIInv, StepIInv, PTL DEF Spec

(***************************************************************************)
(* The request of the running job is always posted, served or answered: no *)
(* removal of rows, no failed listing and no cancellation that comes too   *)
(* late makes the queue wait for an answer that never comes.               *)
(***************************************************************************)
THEOREM RequestNeverLostCorrect == Spec => []RequestNeverLost
  <1>1. IInv => RequestNeverLost
    BY PlaceIsOne DEF IInv, Typed
  <1>2. QED
    BY <1>1, RequestPlaceCorrect, PTL

(***************************************************************************)
(* The connection never has two transfers to carry, and the one it has is  *)
(* the running job's ("Jobs run strictly one at a time",                   *)
(* TransferManager.hpp:35).                                                *)
(***************************************************************************)
THEOREM OneTransferOutCorrect == Spec => []OneTransferOut
  <1>1. IInv => OneTransferOut
    BY PlaceIsOne DEF IInv, Typed
  <1>2. QED
    BY <1>1, RequestPlaceCorrect, PTL

(***************************************************************************)
(* Only jobs the user asked to cancel end as cancelled: request ids left   *)
(* in the worker's cancel set never stop a later transfer.                 *)
(***************************************************************************)
THEOREM OnlyAskedIsCancelledCorrect == Spec => []OnlyAskedIsCancelled
  <1>1. IInv => OnlyAskedIsCancelled
    BY DEF IInv
  <1>2. QED
    BY <1>1, RequestPlaceCorrect, PTL

=============================================================================
