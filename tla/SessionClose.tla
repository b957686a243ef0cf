---------------------------- MODULE SessionClose ----------------------------
(***************************************************************************)
(* Closing a tab, or quitting, while its file browser has transfers: the   *)
(* queue and the pipe of TransferManager, and RemoteFileService::stop().   *)
(*                                                                         *)
(* stop() posts a shutdown behind the requests that wait, blocks the GUI   *)
(* thread until the worker has come to it, and ends the worker's thread.   *)
(* A tab that is closed lives on until the GUI's event loop has delivered  *)
(* what was posted to it before its deletion; one that is quit is deleted  *)
(* in the same handler.  The shell's worker is stopped before and has no   *)
(* part here.                                                              *)
(***************************************************************************)
EXTENDS TransferManager

VARIABLES
  closing,   \* how far the tab is: "open", "stopping", "stopped", "deleted"
  quitting   \* the window is closed, not only the tab

closeVars == <<closing, quitting>>

allVars == <<vars, closing, quitting>>

(* The thread of the worker has ended. *)
Ended == closing \in {"stopped", "deleted"}

CloseInit ==
  /\ Init
  /\ closing = "open"
  /\ quitting \in BOOLEAN

-----------------------------------------------------------------------------
(* The user confirms; the handler posts the shutdown and waits. *)
BeginStop ==
  /\ closing = "open"
  /\ GuiFree
  /\ closing' = "stopping"
  /\ calls' = Append(calls, Call("shutdown", 0))
  /\ UNCHANGED <<nextRequestId, worker, cancelRequests, signals, managerVars, quitting>>

(* The worker comes to the shutdown, ends, and the handler goes on. *)
Shutdown ==
  /\ closing = "stopping"
  /\ ~Busy
  /\ calls # <<>>
  /\ Head(calls).kind = "shutdown"
  /\ calls' = Tail(calls)
  /\ closing' = IF quitting THEN "deleted" ELSE "stopped"
  /\ UNCHANGED <<nextRequestId, worker, cancelRequests, signals, managerVars, quitting>>

(* The deletion of a closed tab waits behind the signals. *)
Delete ==
  /\ closing = "stopped"
  /\ signals = <<>>
  /\ closing' = "deleted"
  /\ UNCHANGED <<vars, quitting>>

CloseStep == BeginStop \/ Shutdown \/ Delete

WorkerRuns == ~Ended /\ Work /\ UNCHANGED closeVars

GuiRuns ==
  /\ \/ closing = "open" /\ (Deliver \/ ClearRow \/ UserStep)
     \/ closing = "stopped" /\ Deliver
  /\ UNCHANGED closeVars

CloseNext == WorkerRuns \/ GuiRuns \/ CloseStep

CloseSpec == CloseInit /\ [][CloseNext]_allVars

-----------------------------------------------------------------------------
(***************************************************************************)
(* "Transfers are still running on this session. Closing it cancels them." *)
(* (MainWindow.cpp:314): once the user has confirmed, no transfer passes   *)
(* its last look at the cancellations, and none is started.                *)
(***************************************************************************)
ClosingCancels ==
  [][closing # "open" =>
       /\ ~(worker.phase = "moving" /\ worker'.phase = "closing")
       /\ \A row \in DOMAIN jobs :
            jobs'[row].state = "Running" => jobs[row].state = "Running"]_allVars

=============================================================================
