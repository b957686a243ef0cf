---------------------------- MODULE SftpSession ----------------------------
(***************************************************************************)
(* The request pipe of the file browser: session::RemoteFileService, the   *)
(* facade on the GUI thread, and ssh::SftpSession, the worker that serves  *)
(* its requests one after another on a thread of its own.                  *)
(*                                                                         *)
(* The facade numbers a request and posts it with a queued invocation, so  *)
(* posted requests form a FIFO (`calls').  What the worker emits comes     *)
(* back as events of the GUI thread, a second FIFO (`signals').  A         *)
(* cancellation goes neither way: requestCancel() writes the id into a set *)
(* under a mutex, straight from the GUI thread.                            *)
(*                                                                         *)
(* The module has the worker's actions.  Who posts requests and who        *)
(* consumes the signals is the business of the modules that extend it.     *)
(***************************************************************************)
EXTENDS Naturals, Sequences, FiniteSets

CONSTANTS
  MaxBytes,   \* sizes of a transfer, in units of a chunk: 0..MaxBytes
  Filled      \* requests that find data; the others copy empty files

ASSUME MaxBytesAssumption == MaxBytes \in Nat

(* A bound: how much request id may measure, and how much it may copy. *)
MaxBytesOf(id) == IF id \in Filled THEN MaxBytes ELSE 0

VARIABLES
  nextRequestId,    \* RemoteFileService::m_nextRequestId
  calls,            \* requests posted to the worker's event loop, oldest first
  worker,           \* the transfer being served; phase "idle": none
  cancelRequests,   \* SftpSession::m_cancelRequests
  signals           \* signals posted to the GUI thread, oldest first

pipeVars == <<nextRequestId, calls, worker, cancelRequests, signals>>

(***************************************************************************)
(* A "list" request only reads (listDirectory, resolvePath), a "mutate"    *)
(* request changes the remote tree (makeDirectory, renameEntry,            *)
(* changePermissions, removeEntry) and a "transfer" is a download or an    *)
(* upload.                                                                 *)
(***************************************************************************)
RequestKinds == {"list", "mutate", "transfer"}

Call(kind, id) == [kind |-> kind, id |-> id]

CallSet == [kind : RequestKinds, id : Nat]

(***************************************************************************)
(* operationFailed carries an Error; all its receivers ask of it is        *)
(* whether it is a cancellation, so it is two kinds of signal here.        *)
(***************************************************************************)
SignalKinds == {"listingReady", "operationFinished", "operationFailed",
                "operationCancelled", "transferStarted", "transferProgress",
                "transferFinished"}

Signal(kind, id, moved, total) ==
  [kind |-> kind, id |-> id, moved |-> moved, total |-> total]

Answer(kind, id) == Signal(kind, id, 0, 0)

SignalSet == [kind : SignalKinds, id : Nat, moved : Nat, total : Nat]

Idle == [phase |-> "idle", id |-> 0, moved |-> 0, total |-> 0]

WorkerSet ==
  [phase : {"idle", "sizing", "moving", "closing"}, id : Nat, moved : Nat, total : Nat]

Busy == worker.phase # "idle"

PipeInit ==
  /\ nextRequestId = 1
  /\ calls = <<>>
  /\ worker = Idle
  /\ cancelRequests = {}
  /\ signals = <<>>

PipeTypeOK ==
  /\ nextRequestId \in Nat \ {0}
  /\ calls \in Seq(CallSet)
  /\ worker \in WorkerSet
  /\ cancelRequests \subseteq Nat
  /\ signals \in Seq(SignalSet)

-----------------------------------------------------------------------------
(***************************************************************************)
(* Requests that are one call: the worker runs them to the end and         *)
(* answers.  Only removeEntry looks at the cancel set, and forgets its id. *)
(***************************************************************************)
ServeList ==
  /\ ~Busy
  /\ calls # <<>>
  /\ Head(calls).kind = "list"
  /\ calls' = Tail(calls)
  /\ \E kind \in {"listingReady", "operationFailed"} :
       signals' = Append(signals, Answer(kind, Head(calls).id))
  /\ UNCHANGED <<nextRequestId, worker, cancelRequests>>

ServeMutation ==
  /\ ~Busy
  /\ calls # <<>>
  /\ Head(calls).kind = "mutate"
  /\ calls' = Tail(calls)
  /\ cancelRequests' = cancelRequests \ {Head(calls).id}
  /\ \E kind \in {"operationFinished", "operationFailed"} :
       signals' = Append(signals, Answer(kind, Head(calls).id))
  /\ UNCHANGED <<nextRequestId, worker>>

(***************************************************************************)
(* download() and upload(): measure the source tree, announce its size,    *)
(* copy chunk by chunk, and answer.  The walk and the copy are separate    *)
(* passes over trees that others may change, so what is copied has no      *)
(* fixed relation to the size that was announced.                          *)
(***************************************************************************)
TakeTransfer ==
  /\ ~Busy
  /\ calls # <<>>
  /\ Head(calls).kind = "transfer"
  /\ calls' = Tail(calls)
  /\ worker' = [Idle EXCEPT !.phase = "sizing", !.id = Head(calls).id]
  /\ UNCHANGED <<nextRequestId, cancelRequests, signals>>

(* Every way out of a transfer forgets the cancellation, then answers. *)
AnswerTransfer(answers) ==
  /\ cancelRequests' = cancelRequests \ {worker.id}
  /\ worker' = Idle
  /\ signals' = signals \o answers
  /\ UNCHANGED <<nextRequestId, calls>>

SizingFails ==
  /\ worker.phase = "sizing"
  /\ AnswerTransfer(<<Answer("operationFailed", worker.id)>>)

StartMoving ==
  /\ worker.phase = "sizing"
  /\ \E total \in 0..MaxBytesOf(worker.id) :
       /\ worker' = [worker EXCEPT !.phase = "moving", !.total = total]
       /\ signals' = Append(signals, Signal("transferStarted", worker.id, 0, total))
  /\ UNCHANGED <<nextRequestId, calls, cancelRequests>>

(***************************************************************************)
(* Variants of NoticeCancel: the copy stops without an answer, and any     *)
(* cancellation stops it.                                                  *)
(***************************************************************************)
NoticeCancelSilently ==
  /\ worker.phase = "moving"
  /\ worker.id \in cancelRequests
  /\ AnswerTransfer(<<>>)

NoticeAnyCancel ==
  /\ worker.phase = "moving"
  /\ cancelRequests # {}
  /\ AnswerTransfer(<<Answer("operationCancelled", worker.id)>>)

(***************************************************************************)
(* A chunk boundary.  A cancellation may also fall between the look at the *)
(* set and the read, and SCP looks only after a chunk: the chunk that      *)
(* follows, or the end of the file, then comes first.                      *)
(***************************************************************************)
NoticeCancel ==
  /\ worker.phase = "moving"
  /\ worker.id \in cancelRequests
  /\ AnswerTransfer(<<Answer("operationCancelled", worker.id)>>)

(***************************************************************************)
(* publishProgress() drops an update that follows the last too closely,    *)
(* unless everything announced has been moved.                             *)
(***************************************************************************)
MoveChunk ==
  /\ worker.phase = "moving"
  /\ worker.moved < MaxBytesOf(worker.id)
  /\ worker' = [worker EXCEPT !.moved = @ + 1]
  /\ \/ signals' = Append(signals, Signal("transferProgress", worker.id,
                                          worker.moved + 1, worker.total))
     \/ worker.moved + 1 < worker.total /\ UNCHANGED signals
  /\ UNCHANGED <<nextRequestId, calls, cancelRequests>>

(* The last read finds no more data and nothing is left to enter. *)
ReachEnd ==
  /\ worker.phase = "moving"
  /\ worker' = [worker EXCEPT !.phase = "closing"]
  /\ UNCHANGED <<nextRequestId, calls, cancelRequests, signals>>

(* A read, a write or the flush fails. *)
MovingFails ==
  /\ worker.phase \in {"moving", "closing"}
  /\ AnswerTransfer(<<Answer("operationFailed", worker.id)>>)

FinishTransfer ==
  /\ worker.phase = "closing"
  /\ AnswerTransfer(<<Signal("transferProgress", worker.id, worker.total, worker.total),
                      Answer("transferFinished", worker.id)>>)

WorkerStep ==
  \/ ServeList
  \/ ServeMutation
  \/ TakeTransfer
  \/ SizingFails
  \/ StartMoving
  \/ NoticeCancel
  \/ MoveChunk
  \/ ReachEnd
  \/ MovingFails
  \/ FinishTransfer

=============================================================================
