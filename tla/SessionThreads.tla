--------------------------- MODULE SessionThreads ---------------------------
(***************************************************************************)
(* The threads of the sessions and what they wait for.  A tab has two      *)
(* workers, one for the shell and one for the files, each with an event    *)
(* loop on a thread of its own.  A worker that opens its connection may    *)
(* need an answer of the user's: ssh::SessionInteraction locks a mutex     *)
(* that all workers share, posts the question to the GUI thread and parks  *)
(* until it is answered.  Closing a tab makes the GUI thread wait, in      *)
(* turn, for each of its workers to shut down.                             *)
(***************************************************************************)
EXTENDS Naturals, Sequences, FiniteSets

CONSTANTS
  Tabs,        \* the hosts, each with at most one tab at a time
  Browsing,    \* bound: the hosts whose file browser is shown at some time
  MaxOpens,    \* bound: times a tab is opened for each host
  MaxStarts,   \* bound: starts posted to the files worker of a tab
  NoWorker     \* the owner of a mutex that is free

Parts == {"shell", "files"}

Workers == Tabs \X Parts

ASSUME ThreadsAssumption ==
  /\ NoWorker \notin Workers
  /\ Browsing \subseteq Tabs
  /\ MaxOpens \in [Tabs -> Nat]
  /\ MaxStarts \in Nat

Questions == {"hostKey", "credential"}

(***************************************************************************)
(* What is known of a question.  A password is right or wrong for the      *)
(* server; the program finds out by offering it.                           *)
(***************************************************************************)
Replies == [hostKey |-> {"accepted", "rejected"}, credential |-> {"right", "wrong", "declined"}]

AllReplies == Replies["hostKey"] \cup Replies["credential"]

VARIABLES
  inbox,       \* the calls posted to each worker's event loop
  phase,       \* where each worker is
  question,    \* what the worker asks, or the next thing it may ask
  reply,       \* the answer a worker has in hand
  connected,   \* the worker holds an open connection
  mutex,       \* owner of SessionInteraction::m_promptMutex
  posted,      \* questions posted to the GUI thread, by their workers
  answers,     \* the answers SessionInteraction remembers
  gui,         \* what the GUI thread is doing, and for which worker
  opens,       \* tabs opened for each host
  starts,      \* starts posted to the files worker of the present tab
  filesReady,  \* RemoteFileService::m_connected of the present tab
  notices,     \* ready() and failed() of the files workers, not yet delivered
  shown        \* history: dialogs shown for each question

vars == <<inbox, phase, question, reply, connected, mutex, posted, answers, gui, opens,
          starts, filesReady, notices, shown>>

TabOf(w) == w[1]

Phases ==
  {"absent",    \* no tab, or the thread has ended
   "loop",      \* in its event loop
   "opening",   \* in SshConnection::open()
   "locking",   \* waits for the mutex
   "parked",    \* owns the mutex and waits for the GUI thread
   "told"}      \* owns the mutex and has the answer

GuiFree == gui.at = "free"

GuiAt(at, w) == [at |-> at, worker |-> w]

(***************************************************************************)
(* A worker whose thread has ended holds no connection: "the session is    *)
(* torn down before the event loop quits" (RemoteFileService.cpp:73).      *)
(***************************************************************************)
EndedIsTornDown == \A w \in Workers : phase[w] = "absent" => ~connected[w]

(* Types, and what a thread that has ended leaves. *)
TypeOK ==
  /\ inbox \in [Workers -> Seq({"start", "shutdown"})]
  /\ phase \in [Workers -> Phases]
  /\ question \in [Workers -> Questions]
  /\ reply \in [Workers -> AllReplies \cup {"none"}]
  /\ connected \in [Workers -> BOOLEAN]
  /\ EndedIsTornDown
  /\ mutex \in Workers \cup {NoWorker}
  /\ posted \in Seq(Workers)
  /\ answers \in [Tabs \X Questions -> AllReplies \cup {"none"}]
  /\ gui \in [at : {"free"}, worker : {NoWorker}]
             \cup [at : {"dialog", "stopping", "joining"}, worker : Workers]
  /\ \A t \in Tabs : opens[t] \in 0..MaxOpens[t]
  /\ starts \in [Tabs -> 0..MaxStarts]
  /\ filesReady \in [Tabs -> BOOLEAN]
  /\ notices \in [Tabs -> Seq({"ready", "failed"})]
  /\ shown \in [Tabs \X Questions -> Nat]

Init ==
  /\ inbox = [w \in Workers |-> <<>>]
  /\ phase = [w \in Workers |-> "absent"]
  /\ question = [w \in Workers |-> "hostKey"]
  /\ reply = [w \in Workers |-> "none"]
  /\ connected = [w \in Workers |-> FALSE]
  /\ mutex = NoWorker
  /\ posted = <<>>
  /\ answers = [q \in Tabs \X Questions |-> "none"]
  /\ gui = GuiAt("free", NoWorker)
  /\ opens = [t \in Tabs |-> 0]
  /\ starts = [t \in Tabs |-> 0]
  /\ filesReady = [t \in Tabs |-> FALSE]
  /\ notices = [t \in Tabs |-> <<>>]
  /\ shown = [q \in Tabs \X Questions |-> 0]

-----------------------------------------------------------------------------
(***************************************************************************)
(* The workers.                                                            *)
(***************************************************************************)
TakeStart(w) ==
  /\ phase[w] = "loop"
  /\ inbox[w] # <<>>
  /\ Head(inbox[w]) = "start"
  /\ inbox' = [inbox EXCEPT ![w] = Tail(@)]
  /\ phase' = [phase EXCEPT ![w] = "opening"]
  /\ question' = [question EXCEPT ![w] = "hostKey"]
  /\ connected' = [connected EXCEPT ![w] = FALSE]
  /\ UNCHANGED <<reply, mutex, posted, answers, gui, opens, starts, filesReady, notices,
                 shown>>

(* Back in the event loop; the outcome is announced to the GUI thread. *)
EndOpening(w, success) ==
  /\ phase' = [phase EXCEPT ![w] = "loop"]
  /\ connected' = [connected EXCEPT ![w] = success]
  /\ notices' = IF w[2] = "files"
                  THEN [notices EXCEPT ![TabOf(w)] =
                          Append(@, IF success THEN "ready" ELSE "failed")]
                  ELSE notices

(* open() and what follows it succeed or fail without another question. *)
OpenUnasked(w) ==
  /\ phase[w] = "opening"
  /\ \E success \in BOOLEAN : EndOpening(w, success)
  /\ UNCHANGED <<inbox, question, reply, mutex, posted, answers, gui, opens, starts,
                 filesReady, shown>>

(* The host key is asked about first, unless it is known. *)
Ask(w) ==
  /\ phase[w] = "opening"
  /\ phase' = [phase EXCEPT ![w] = "locking"]
  /\ \E q \in {question[w], "credential"} : question' = [question EXCEPT ![w] = q]
  /\ UNCHANGED <<inbox, reply, connected, mutex, posted, answers, gui, opens, starts,
                 filesReady, notices, shown>>

Asked(w) == <<TabOf(w), question[w]>>

(* Variant of Lock: the remembered answer is looked up before the mutex. *)
LockUnremembered(w) ==
  /\ phase[w] = "locking"
  /\ mutex = NoWorker
  /\ mutex' = w
  /\ phase' = [phase EXCEPT ![w] = "parked"]
  /\ posted' = Append(posted, w)
  /\ UNCHANGED <<inbox, question, reply, connected, answers, gui, opens, starts, filesReady,
                 notices, shown>>

Lock(w) ==
  /\ phase[w] = "locking"
  /\ mutex = NoWorker
  /\ mutex' = w
  /\ \/ /\ answers[Asked(w)] # "none"
        /\ phase' = [phase EXCEPT ![w] = "told"]
        /\ reply' = [reply EXCEPT ![w] = answers[Asked(w)]]
        /\ UNCHANGED posted
     \/ /\ answers[Asked(w)] = "none"
        /\ phase' = [phase EXCEPT ![w] = "parked"]
        /\ posted' = Append(posted, w)
        /\ UNCHANGED reply
  /\ UNCHANGED <<inbox, question, connected, answers, gui, opens, starts, filesReady,
                 notices, shown>>

(* Variant of Settle: a declined question leaves the mutex locked. *)
SettleUnreleased(w) ==
  /\ phase[w] = "told"
  /\ answers' = [answers EXCEPT ![Asked(w)] = reply[w]]
  /\ mutex' = IF reply[w] = "declined" THEN mutex ELSE NoWorker
  /\ reply' = [reply EXCEPT ![w] = "none"]
  /\ EndOpening(w, reply[w] \in {"accepted", "right"})
  /\ UNCHANGED <<inbox, question, posted, gui, opens, starts, filesReady, shown>>

(***************************************************************************)
(* The answer is remembered, the mutex released, and the connection goes   *)
(* on.  A password the server rejects may still be followed by a method    *)
(* that works without one.                                                 *)
(***************************************************************************)
Settle(w) ==
  /\ phase[w] = "told"
  /\ answers' = [answers EXCEPT ![Asked(w)] = reply[w]]
  /\ mutex' = NoWorker
  /\ reply' = [reply EXCEPT ![w] = "none"]
  /\ \/ /\ reply[w] = "accepted"
        /\ phase' = [phase EXCEPT ![w] = "opening"]
        /\ question' = [question EXCEPT ![w] = "credential"]
        /\ UNCHANGED <<connected, notices>>
     \/ /\ reply[w] \in {"rejected", "declined"}
        /\ EndOpening(w, FALSE)
        /\ UNCHANGED question
     \/ /\ reply[w] \in {"right", "wrong"}
        /\ \E success \in BOOLEAN : EndOpening(w, success)
        /\ UNCHANGED question
  /\ UNCHANGED <<inbox, posted, gui, opens, starts, filesReady, shown>>

(* shutdown(): the caller, parked in a blocking call, is released. *)
TakeShutdown(w) ==
  /\ phase[w] = "loop"
  /\ inbox[w] # <<>>
  /\ Head(inbox[w]) = "shutdown"
  /\ inbox' = [inbox EXCEPT ![w] = Tail(@)]
  /\ connected' = [connected EXCEPT ![w] = FALSE]
  /\ gui' = GuiAt("joining", w)
  /\ UNCHANGED <<phase, question, reply, mutex, posted, answers, opens, starts, filesReady,
                 notices, shown>>

WorkerStep(w) ==
  \/ TakeStart(w)
  \/ OpenUnasked(w)
  \/ Ask(w)
  \/ Lock(w)
  \/ Settle(w)
  \/ TakeShutdown(w)

-----------------------------------------------------------------------------
(***************************************************************************)
(* The GUI thread.                                                         *)
(***************************************************************************)
ShowDialog ==
  /\ GuiFree
  /\ posted # <<>>
  /\ gui' = GuiAt("dialog", Head(posted))
  /\ posted' = Tail(posted)
  /\ shown' = [shown EXCEPT ![Asked(Head(posted))] = @ + 1]
  /\ UNCHANGED <<inbox, phase, question, reply, connected, mutex, answers, opens, starts,
                 filesReady, notices>>

AnswerDialog ==
  /\ gui.at = "dialog"
  /\ \E r \in Replies[question[gui.worker]] : reply' = [reply EXCEPT ![gui.worker] = r]
  /\ phase' = [phase EXCEPT ![gui.worker] = "told"]
  /\ gui' = GuiAt("free", NoWorker)
  /\ UNCHANGED <<inbox, question, connected, mutex, posted, answers, opens, starts,
                 filesReady, notices, shown>>

IsOpen(tab) == phase[<<tab, "shell">>] # "absent"

(***************************************************************************)
(* A new tab for the host: two fresh workers, both told to start, or the   *)
(* shell's only if the profile does not open the file browser.             *)
(***************************************************************************)
OpenTab(tab) ==
  /\ GuiFree
  /\ ~IsOpen(tab)
  /\ opens[tab] < MaxOpens[tab]
  /\ opens' = [opens EXCEPT ![tab] = @ + 1]
  /\ phase' = [w \in Workers |-> IF TabOf(w) = tab THEN "loop" ELSE phase[w]]
  /\ \E first \in {<<>>, <<"start">>} :
       /\ Len(first) <= IF tab \in Browsing THEN MaxStarts ELSE 0
       /\ inbox' = [inbox EXCEPT ![<<tab, "shell">>] = <<"start">>, ![<<tab, "files">>] = first]
       /\ starts' = [starts EXCEPT ![tab] = Len(first)]
  /\ filesReady' = [filesReady EXCEPT ![tab] = FALSE]
  /\ notices' = [notices EXCEPT ![tab] = <<>>]
  /\ UNCHANGED <<question, reply, connected, mutex, posted, answers, gui, shown>>

(* Showing the file browser starts its worker, if it is not known to run. *)
ShowFileBrowser(tab) ==
  /\ GuiFree
  /\ IsOpen(tab)
  /\ tab \in Browsing
  /\ ~filesReady[tab]
  /\ starts[tab] < MaxStarts
  /\ starts' = [starts EXCEPT ![tab] = @ + 1]
  /\ inbox' = [inbox EXCEPT ![<<tab, "files">>] = Append(@, "start")]
  /\ UNCHANGED <<phase, question, reply, connected, mutex, posted, answers, gui, opens,
                 filesReady, notices, shown>>

(* A signal is delivered between handlers, also while a dialog is open. *)
Notice(tab) ==
  /\ gui.at \in {"free", "dialog"}
  /\ notices[tab] # <<>>
  /\ filesReady' = [filesReady EXCEPT ![tab] = Head(notices[tab]) = "ready"]
  /\ notices' = [notices EXCEPT ![tab] = Tail(@)]
  /\ UNCHANGED <<inbox, phase, question, reply, connected, mutex, posted, answers, gui,
                 opens, starts, shown>>

(* stop() of a service: post the shutdown and wait until it has been run. *)
BeginStop(w) ==
  /\ inbox' = [inbox EXCEPT ![w] = Append(@, "shutdown")]
  /\ gui' = GuiAt("stopping", w)

CloseTab(tab) ==
  /\ GuiFree
  /\ IsOpen(tab)
  /\ BeginStop(<<tab, "shell">>)
  /\ UNCHANGED <<phase, question, reply, connected, mutex, posted, answers, opens, starts,
                 filesReady, notices, shown>>

(* Variant of JoinShell: the files worker is quit, not shut down. *)
JoinBoth ==
  /\ gui.at = "joining"
  /\ gui.worker[2] = "shell"
  /\ phase[gui.worker] = "loop"
  /\ phase[<<TabOf(gui.worker), "files">>] = "loop"
  /\ phase' = [w \in Workers |-> IF TabOf(w) = TabOf(gui.worker) THEN "absent" ELSE phase[w]]
  /\ gui' = GuiAt("free", NoWorker)
  /\ UNCHANGED <<inbox, question, reply, connected, mutex, posted, answers, opens, starts,
                 filesReady, notices, shown>>

(* The shell's thread has ended; the files worker is next. *)
JoinShell ==
  /\ gui.at = "joining"
  /\ gui.worker[2] = "shell"
  /\ phase' = [phase EXCEPT ![gui.worker] = "absent"]
  /\ BeginStop(<<TabOf(gui.worker), "files">>)
  /\ UNCHANGED <<question, reply, connected, mutex, posted, answers, opens, starts,
                 filesReady, notices, shown>>

JoinFiles ==
  /\ gui.at = "joining"
  /\ gui.worker[2] = "files"
  /\ phase' = [phase EXCEPT ![gui.worker] = "absent"]
  /\ gui' = GuiAt("free", NoWorker)
  /\ UNCHANGED <<inbox, question, reply, connected, mutex, posted, answers, opens, starts,
                 filesReady, notices, shown>>

GuiStep ==
  \/ ShowDialog
  \/ AnswerDialog
  \/ JoinShell
  \/ JoinFiles
  \/ \E tab \in Tabs : Notice(tab)

UserStep ==
  \E tab \in Tabs : OpenTab(tab) \/ ShowFileBrowser(tab) \/ CloseTab(tab)

Next == GuiStep \/ UserStep \/ \E w \in Workers : WorkerStep(w)

Spec == Init /\ [][Next]_vars

(***************************************************************************)
(* Each thread runs on, and the user answers the dialogs that are shown.   *)
(* A question posted to the GUI thread is handled in spite of whatever     *)
(* else the user does between: strong fairness.                            *)
(***************************************************************************)
Fairness ==
  /\ \A w \in Workers : WF_vars(WorkerStep(w))
  /\ SF_vars(GuiStep)

FairSpec == Spec /\ Fairness

-----------------------------------------------------------------------------
(***************************************************************************)
(* Safety.                                                                 *)
(***************************************************************************)

(***************************************************************************)
(* Questions go to the user one at a time, asked by the worker that owns   *)
(* the mutex, and a worker that parks has its question before the GUI      *)
(* thread: posted or on the screen, never lost (SessionInteraction.cpp:27, *)
(* 52).                                                                    *)
(***************************************************************************)
OneQuestionAtATime ==
  \A w \in Workers :
    /\ phase[w] \in {"parked", "told"} => mutex = w
    /\ phase[w] = "parked" <=> (posted = <<w>> \/ gui = GuiAt("dialog", w))

(***************************************************************************)
(* The user is asked one thing at a time, and once about a host key and    *)
(* once for a password, whichever of a tab's two connections, or of the    *)
(* next tab's, gets there first: "without this both would race to put up   *)
(* their own dialog" (SessionInteraction.hpp:54-60).                       *)
(***************************************************************************)
AskedOnce ==
  /\ OneQuestionAtATime
  /\ \A q \in Tabs \X Questions : shown[q] <= 1

(***************************************************************************)
(* Liveness: as long as the GUI thread keeps coming back to its event      *)
(* loop, a worker that waits for its turn to ask gets on: the workers do   *)
(* not wait for each other in a circle.                                    *)
(***************************************************************************)
WaitersGetOn ==
  []<>GuiFree =>
    \A w \in Workers : phase[w] = "locking" ~> phase[w] \in {"loop", "absent"}

(***************************************************************************)
(* "nothing here ever blocks the GUI thread" (RemoteFileService.hpp:25):   *)
(* having asked the files worker to shut down, the GUI thread comes back   *)
(* to its event loop.                                                      *)
(***************************************************************************)
GuiComesBack ==
  \A w \in Workers : w[2] = "files" => (gui = GuiAt("stopping", w) ~> GuiFree)

=============================================================================
