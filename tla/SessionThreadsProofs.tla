------------------------ MODULE SessionThreadsProofs ------------------------
(***************************************************************************)
(* Proofs about SessionThreads for every number of hosts and every value   *)
(* of the bounds.                                                          *)
(***************************************************************************)
EXTENDS SessionThreads, TLAPS

(***************************************************************************)
(* Workers end in the order in which they are told to.  The shutdown of a  *)
(* worker is the last call posted to it, so a thread that is joined is     *)
(* back in its loop with nothing left to do; and a tab loses its shell's   *)
(* worker first, with the GUI thread waiting for the other.                *)
(***************************************************************************)
ShutdownIsLast ==
  \A w \in Workers : \A i \in DOMAIN inbox[w] :
    inbox[w][i] = "shutdown" => i = Len(inbox[w]) /\ gui = GuiAt("stopping", w)

JoinedIsDone ==
  \A w \in Workers :
    gui = GuiAt("joining", w) => phase[w] = "loop" /\ inbox[w] = <<>> /\ ~connected[w]

EndedIsIdle == \A w \in Workers : phase[w] = "absent" => inbox[w] = <<>>

ShellEndsFirst ==
  \A t \in Tabs :
    /\ phase[<<t, "files">>] = "absent" => phase[<<t, "shell">>] = "absent"
    /\ phase[<<t, "shell">>] = "absent" /\ phase[<<t, "files">>] # "absent"
         <=> gui \in {GuiAt("stopping", <<t, "files">>), GuiAt("joining", <<t, "files">>)}

Lifetimes == ShutdownIsLast /\ JoinedIsDone /\ EndedIsIdle /\ ShellEndsFirst

(***************************************************************************)
(* The question being asked is the question of the worker that owns the    *)
(* mutex, and it is in one place: on its way to the GUI thread, on the     *)
(* screen, or answered.                                                    *)
(***************************************************************************)
OwnerAsks == \A w \in Workers : mutex = w <=> phase[w] \in {"parked", "told"}

QuestionIsSomewhere ==
  /\ posted = <<>> \/ (posted = <<mutex>> /\ gui.at # "dialog")
  /\ gui.at = "dialog" => gui.worker = mutex
  /\ \A w \in Workers :
       phase[w] = "parked" <=> (posted = <<w>> \/ gui = GuiAt("dialog", w))

TellsAnAnswer == \A w \in Workers : phase[w] = "told" => reply[w] # "none"

(* What was shown is answered and remembered, or is being settled. *)
ShownIsSettled ==
  /\ \A w \in Workers : phase[w] = "parked" => answers[Asked(w)] = "none"
  /\ \A q \in Tabs \X Questions :
       \/ shown[q] = 0
       \/ /\ shown[q] = 1
          /\ \/ answers[q] # "none"
             \/ \E w \in Workers : /\ Asked(w) = q
                                   /\ phase[w] = "told" \/ gui = GuiAt("dialog", w)

Asking == OwnerAsks /\ QuestionIsSomewhere /\ TellsAnAnswer /\ ShownIsSettled

Types == TypeOK /\ opens \in [Tabs -> Nat]

Inv == Types /\ Lifetimes /\ Asking

-----------------------------------------------------------------------------
(***************************************************************************)
(* Names: workers and tabs, calls and what the GUI thread does.            *)
(***************************************************************************)
LEMMA WorkerNames ==
  /\ \A t \in Tabs : <<t, "shell">> \in Workers /\ <<t, "files">> \in Workers
  /\ \A w \in Workers : /\ TabOf(w) \in Tabs
                        /\ w[2] \in {"shell", "files"}
                        /\ w = <<TabOf(w), w[2]>>
                        /\ w # NoWorker
  BY ThreadsAssumption DEF Workers, Parts, TabOf

LEMMA GuiNames ==
  ASSUME TypeOK
  PROVE  /\ gui = GuiAt(gui.at, gui.worker)
         /\ gui.at \in {"free", "dialog", "stopping", "joining"}
         /\ gui.at # "free" => gui.worker \in Workers
         /\ gui.at = "free" => gui.worker = NoWorker
  BY DEF TypeOK, GuiAt

LEMMA GuiFields ==
  \A at, w : GuiAt(at, w).at = at /\ GuiAt(at, w).worker = w
  BY DEF GuiAt

GuiTypes == [at : {"free"}, worker : {NoWorker}]
              \cup [at : {"dialog", "stopping", "joining"}, worker : Workers]

LEMMA GuiTyped ==
  /\ GuiAt("free", NoWorker) \in GuiTypes
  /\ \A w \in Workers : \A at \in {"dialog", "stopping", "joining"} :
       GuiAt(at, w) \in GuiTypes
  BY DEF GuiAt, GuiTypes

LEMMA AnswerTyped ==
  /\ "none" \notin AllReplies
  /\ \A q \in Questions : Replies[q] \subseteq AllReplies
  BY DEF AllReplies, Replies, Questions

LEMMA QuestionTyped ==
  ASSUME TypeOK, NEW w \in Workers
  PROVE  Asked(w) \in Tabs \X Questions
  BY WorkerNames DEF TypeOK, Asked

(* Updates of one entry. *)
LEMMA EntryTyped ==
  ASSUME NEW S, NEW T, NEW f \in [S -> T], NEW x \in S, NEW y \in T
  PROVE  [f EXCEPT ![x] = y] \in [S -> T]
  OBVIOUS

LEMMA EmptyIsEmpty ==
  ASSUME NEW S, NEW s \in Seq(S), Len(s) = 0
  PROVE  s = <<>>
  OBVIOUS

LEMMA TailOfOne ==
  ASSUME NEW S, NEW s \in Seq(S), Len(s) = 1
  PROVE  Tail(s) = <<>>
  <1>1. Tail(s) \in Seq(S) /\ Len(Tail(s)) = 0
    OBVIOUS
  <1>2. QED
    BY <1>1, EmptyIsEmpty, Zenon

LEMMA CallsTyped ==
  ASSUME TypeOK, NEW w \in Workers, inbox[w] # <<>>
  PROVE  [inbox EXCEPT ![w] = Tail(@)] \in [Workers -> Seq({"start", "shutdown"})]
  <1>1. inbox[w] \in Seq({"start", "shutdown"})
    BY DEF TypeOK
  <1>2. Tail(inbox[w]) \in Seq({"start", "shutdown"})
    BY <1>1
  <1>3. QED
    BY <1>2 DEF TypeOK

LEMMA PostTyped ==
  ASSUME TypeOK, NEW w \in Workers, NEW call \in {"start", "shutdown"}
  PROVE  [inbox EXCEPT ![w] = Append(@, call)] \in [Workers -> Seq({"start", "shutdown"})]
  <1>1. inbox[w] \in Seq({"start", "shutdown"})
    BY DEF TypeOK
  <1>2. Append(inbox[w], call) \in Seq({"start", "shutdown"})
    BY <1>1
  <1>3. QED
    BY <1>2 DEF TypeOK

LEMMA EndOpeningTyped ==
  ASSUME TypeOK, NEW w \in Workers, NEW success \in BOOLEAN, EndOpening(w, success)
  PROVE  /\ phase' \in [Workers -> Phases]
         /\ connected' \in [Workers -> BOOLEAN]
         /\ notices' \in [Tabs -> Seq({"ready", "failed"})]
  <1>1. TabOf(w) \in Tabs
    BY WorkerNames
  <1>2. \A notice \in {"ready", "failed"} :
          [notices EXCEPT ![TabOf(w)] = Append(@, notice)] \in [Tabs -> Seq({"ready", "failed"})]
    <2>1. TAKE notice \in {"ready", "failed"}
    <2>2. notices[TabOf(w)] \in Seq({"ready", "failed"})
      BY <1>1 DEF TypeOK
    <2>3. Append(notices[TabOf(w)], notice) \in Seq({"ready", "failed"})
      BY <2>2
    <2>4. QED
      BY <1>1, <2>3 DEF TypeOK
  <1>3. notices' \in [Tabs -> Seq({"ready", "failed"})]
    BY <1>2 DEF EndOpening, TypeOK
  <1>4. QED
    BY <1>3 DEF EndOpening, TypeOK, Phases

-----------------------------------------------------------------------------
(***************************************************************************)
(* Type correctness of each thread's steps.                                *)
(***************************************************************************)
LEMMA WorkerTypes ==
  ASSUME Types, Lifetimes, Asking, NEW w \in Workers, WorkerStep(w)
  PROVE  Types'
  <1> USE DEF Types
  <1>1. CASE TakeStart(w)
    <2>1. inbox' \in [Workers -> Seq({"start", "shutdown"})]
      BY <1>1, CallsTyped DEF TakeStart
    <2>2. EndedIsTornDown'
      BY <1>1 DEF TakeStart, TypeOK, EndedIsTornDown
    <2>3. QED
      BY <1>1, <2>1, <2>2 DEF TakeStart, TypeOK, Phases, Questions
  <1>2. ASSUME NEW success \in BOOLEAN, EndOpening(w, success)
        PROVE  EndedIsTornDown'
    BY <1>2 DEF EndOpening, TypeOK, EndedIsTornDown
  <1>3. CASE OpenUnasked(w)
    <2>1. PICK success \in BOOLEAN : EndOpening(w, success)
      BY <1>3 DEF OpenUnasked
    <2>2. QED
      BY <1>2, <1>3, <2>1, EndOpeningTyped DEF OpenUnasked, TypeOK
  <1>4. CASE Ask(w)
    <2>1. question' \in [Workers -> Questions]
      BY <1>4 DEF Ask, TypeOK, Questions
    <2>2. EndedIsTornDown'
      BY <1>4 DEF Ask, TypeOK, EndedIsTornDown
    <2>3. QED
      BY <1>4, <2>1, <2>2 DEF Ask, TypeOK, Phases
  <1>5. CASE Lock(w)
    <2>1. answers[Asked(w)] \in AllReplies \cup {"none"}
      BY QuestionTyped DEF TypeOK
    <2>2. phase' \in [Workers -> Phases] /\ phase'[w] # "absent"
            /\ \A v \in Workers : v # w => phase'[v] = phase[v]
      BY <1>5 DEF Lock, TypeOK, Phases
    <2>3. EndedIsTornDown'
      BY <1>5, <2>2 DEF Lock, TypeOK, EndedIsTornDown
    <2>4. posted' \in Seq(Workers) /\ mutex' \in Workers \cup {NoWorker}
      <3>1. mutex' = w /\ (posted' = posted \/ posted' = Append(posted, w))
        BY <1>5 DEF Lock
      <3>2. posted \in Seq(Workers)
        BY DEF TypeOK
      <3>3. QED
        BY <3>1, <3>2
    <2>5. reply' \in [Workers -> AllReplies \cup {"none"}]
      BY <1>5, <2>1, EntryTyped DEF Lock, TypeOK
    <2>6. QED
      BY <1>5, <2>2, <2>3, <2>4, <2>5 DEF Lock, TypeOK
  <1>6. CASE Settle(w)
    <2>1. answers' \in [Tabs \X Questions -> AllReplies \cup {"none"}]
      BY <1>6, QuestionTyped DEF Settle, TypeOK
    <2>2. reply' \in [Workers -> AllReplies \cup {"none"}]
      BY <1>6 DEF Settle, TypeOK
    <2>3. \/ \E success \in BOOLEAN : EndOpening(w, success) /\ UNCHANGED question
          \/ /\ phase' = [phase EXCEPT ![w] = "opening"]
             /\ question' = [question EXCEPT ![w] = "credential"]
             /\ UNCHANGED <<connected, notices>>
      BY <1>6 DEF Settle
    <2>4. /\ phase' \in [Workers -> Phases]
          /\ connected' \in [Workers -> BOOLEAN]
          /\ notices' \in [Tabs -> Seq({"ready", "failed"})]
          /\ question' \in [Workers -> Questions]
          /\ EndedIsTornDown'
      <3>1. CASE \E success \in BOOLEAN : EndOpening(w, success) /\ UNCHANGED question
        BY <1>2, <3>1, EndOpeningTyped DEF TypeOK
      <3>2. CASE /\ phase' = [phase EXCEPT ![w] = "opening"]
                 /\ question' = [question EXCEPT ![w] = "credential"]
                 /\ UNCHANGED <<connected, notices>>
        BY <3>2 DEF TypeOK, EndedIsTornDown, Phases, Questions
      <3>3. QED
        BY <2>3, <3>1, <3>2
    <2>5. QED
      BY <1>6, <2>1, <2>2, <2>4 DEF Settle, TypeOK
  <1>7. CASE TakeShutdown(w)
    <2>1. inbox' \in [Workers -> Seq({"start", "shutdown"})]
      BY <1>7, CallsTyped DEF TakeShutdown
    <2>2. gui' \in GuiTypes
      BY <1>7, GuiTyped DEF TakeShutdown
    <2>3. EndedIsTornDown' /\ connected' \in [Workers -> BOOLEAN]
      BY <1>7 DEF TakeShutdown, TypeOK, EndedIsTornDown
    <2>4. QED
      BY <1>7, <2>1, <2>2, <2>3 DEF TakeShutdown, TypeOK, GuiTypes
  <1>8. QED
    BY <1>1, <1>3, <1>4, <1>5, <1>6, <1>7 DEF WorkerStep

LEMMA GuiStepTypes ==
  ASSUME Types, Lifetimes, Asking, GuiStep
  PROVE  Types'
  <1> USE DEF Types
  <1>1. CASE ShowDialog
    <2>1. Head(posted) \in Workers /\ posted' \in Seq(Workers)
      BY <1>1 DEF ShowDialog, TypeOK
    <2>2. gui' \in GuiTypes
      BY <1>1, <2>1, GuiTyped DEF ShowDialog
    <2>3. shown' \in [Tabs \X Questions -> Nat]
      <3>1. PICK q \in Tabs \X Questions : shown' = [shown EXCEPT ![q] = @ + 1]
        BY <1>1, <2>1, QuestionTyped DEF ShowDialog
      <3>2. shown[q] + 1 \in Nat /\ shown \in [Tabs \X Questions -> Nat]
        BY DEF TypeOK
      <3>3. QED
        BY <3>1, <3>2, EntryTyped
    <2>4. EndedIsTornDown'
      BY <1>1 DEF ShowDialog, TypeOK, EndedIsTornDown
    <2>5. QED
      BY <1>1, <2>1, <2>2, <2>3, <2>4 DEF ShowDialog, TypeOK, GuiTypes
  <1>2. CASE AnswerDialog
    <2>1. gui.worker \in Workers
      BY <1>2, GuiNames DEF AnswerDialog
    <2>2. PICK r \in Replies[question[gui.worker]] : reply' = [reply EXCEPT ![gui.worker] = r]
      BY <1>2 DEF AnswerDialog
    <2>3. r \in AllReplies
      BY <2>1, <2>2, AnswerTyped DEF TypeOK
    <2>4. reply' \in [Workers -> AllReplies \cup {"none"}]
      BY <2>2, <2>3 DEF TypeOK
    <2>5. gui' \in GuiTypes
      BY <1>2, GuiTyped DEF AnswerDialog
    <2>6. phase' \in [Workers -> Phases] /\ EndedIsTornDown'
      BY <1>2 DEF AnswerDialog, TypeOK, EndedIsTornDown, Phases
    <2>7. QED
      BY <1>2, <2>4, <2>5, <2>6 DEF AnswerDialog, TypeOK, GuiTypes
  <1>3. CASE JoinShell
    <2>1. gui.worker \in Workers /\ ~connected[gui.worker]
      BY <1>3, GuiNames DEF JoinShell, Lifetimes, JoinedIsDone
    <2>2. <<TabOf(gui.worker), "files">> \in Workers
      BY <2>1, WorkerNames
    <2>3. inbox' \in [Workers -> Seq({"start", "shutdown"})] /\ gui' \in GuiTypes
      BY <1>3, <2>2, PostTyped, GuiTyped DEF JoinShell, BeginStop
    <2>4. phase' \in [Workers -> Phases] /\ EndedIsTornDown'
      BY <1>3, <2>1 DEF JoinShell, TypeOK, EndedIsTornDown, Phases
    <2>5. QED
      BY <1>3, <2>3, <2>4 DEF JoinShell, TypeOK, GuiTypes
  <1>4. CASE JoinFiles
    <2>1. gui.worker \in Workers /\ ~connected[gui.worker]
      BY <1>4, GuiNames DEF JoinFiles, Lifetimes, JoinedIsDone
    <2>2. gui' \in GuiTypes
      BY <1>4, GuiTyped DEF JoinFiles
    <2>3. phase' \in [Workers -> Phases] /\ EndedIsTornDown'
      BY <1>4, <2>1 DEF JoinFiles, TypeOK, EndedIsTornDown, Phases
    <2>4. QED
      BY <1>4, <2>2, <2>3 DEF JoinFiles, TypeOK, GuiTypes
  <1>5. ASSUME NEW tab \in Tabs, Notice(tab)
        PROVE  Types'
    <2>1. notices[tab] \in Seq({"ready", "failed"}) /\ notices[tab] # <<>>
      BY <1>5 DEF Notice, TypeOK
    <2>2. Tail(notices[tab]) \in Seq({"ready", "failed"})
      BY <2>1
    <2>3. /\ notices' \in [Tabs -> Seq({"ready", "failed"})]
          /\ filesReady' \in [Tabs -> BOOLEAN]
      BY <1>5, <2>2 DEF Notice, TypeOK
    <2>4. EndedIsTornDown'
      BY <1>5 DEF Notice, TypeOK, EndedIsTornDown
    <2>5. QED
      BY <1>5, <2>3, <2>4 DEF Notice, TypeOK
  <1>6. QED
    BY <1>1, <1>2, <1>3, <1>4, <1>5 DEF GuiStep

LEMMA UserTypes ==
  ASSUME Types, Lifetimes, Asking, NEW tab \in Tabs,
         OpenTab(tab) \/ ShowFileBrowser(tab) \/ CloseTab(tab)
  PROVE  Types'
  <1> USE DEF Types
  <1>0. /\ <<tab, "shell">> \in Workers /\ <<tab, "files">> \in Workers
        /\ MaxOpens \in [Tabs -> Nat] /\ MaxStarts \in Nat
    BY WorkerNames, ThreadsAssumption
  <1>1. CASE OpenTab(tab)
    <2>1. opens' \in [Tabs -> Nat] /\ \A t \in Tabs : opens'[t] \in 0..MaxOpens[t]
      BY <1>0, <1>1 DEF OpenTab, TypeOK
    <2>2. phase' \in [Workers -> Phases]
      BY <1>1 DEF OpenTab, TypeOK, Phases
    <2>3. EndedIsTornDown'
      BY <1>1 DEF OpenTab, TypeOK, EndedIsTornDown
    <2>4. PICK first \in {<<>>, <<"start">>} :
            /\ Len(first) <= IF tab \in Browsing THEN MaxStarts ELSE 0
            /\ inbox' = [inbox EXCEPT ![<<tab, "shell">>] = <<"start">>,
                                      ![<<tab, "files">>] = first]
            /\ starts' = [starts EXCEPT ![tab] = Len(first)]
      BY <1>1 DEF OpenTab
    <2>5. first \in Seq({"start", "shutdown"}) /\ <<"start">> \in Seq({"start", "shutdown"})
      <3>1. <<>> \in Seq({"start", "shutdown"}) /\ <<"start">> \in Seq({"start", "shutdown"})
        OBVIOUS
      <3>2. QED
        BY <3>1
    <2>6. inbox' \in [Workers -> Seq({"start", "shutdown"})]
      BY <1>0, <2>4, <2>5 DEF TypeOK
    <2>7. Len(first) \in 0..MaxStarts
      BY <1>0, <2>4
    <2>8. starts' \in [Tabs -> 0..MaxStarts]
      BY <2>4, <2>7 DEF TypeOK
    <2>9. /\ filesReady' \in [Tabs -> BOOLEAN]
          /\ notices' \in [Tabs -> Seq({"ready", "failed"})]
      BY <1>1 DEF OpenTab, TypeOK
    <2>10. QED
      BY <1>1, <2>1, <2>2, <2>3, <2>6, <2>8, <2>9 DEF OpenTab, TypeOK
  <1>2. CASE ShowFileBrowser(tab)
    <2>1. inbox' \in [Workers -> Seq({"start", "shutdown"})]
      BY <1>0, <1>2, PostTyped DEF ShowFileBrowser
    <2>2. starts' \in [Tabs -> 0..MaxStarts]
      BY <1>0, <1>2 DEF ShowFileBrowser, TypeOK
    <2>3. EndedIsTornDown'
      BY <1>2 DEF ShowFileBrowser, TypeOK, EndedIsTornDown
    <2>4. QED
      BY <1>2, <2>1, <2>2, <2>3 DEF ShowFileBrowser, TypeOK
  <1>3. CASE CloseTab(tab)
    <2>1. inbox' \in [Workers -> Seq({"start", "shutdown"})] /\ gui' \in GuiTypes
      BY <1>0, <1>3, PostTyped, GuiTyped DEF CloseTab, BeginStop
    <2>2. EndedIsTornDown'
      BY <1>3 DEF CloseTab, TypeOK, EndedIsTornDown
    <2>3. QED
      BY <1>3, <2>1, <2>2 DEF CloseTab, TypeOK, GuiTypes
  <1>4. QED
    BY <1>1, <1>2, <1>3

-----------------------------------------------------------------------------
(***************************************************************************)
(* How workers end.                                                        *)
(***************************************************************************)

(* A worker that does not end, and takes no call, disturbs nothing. *)
LEMMA LifetimesKept ==
  ASSUME Types, Lifetimes, NEW w \in Workers,
         phase[w] # "absent", phase'[w] # "absent", gui # GuiAt("joining", w),
         \A v \in Workers : v # w => phase'[v] = phase[v] /\ connected'[v] = connected[v],
         inbox' = inbox, gui' = gui
  PROVE  Lifetimes'
  <1>1. ShutdownIsLast' /\ JoinedIsDone' /\ EndedIsIdle'
    BY DEF Lifetimes, ShutdownIsLast, JoinedIsDone, EndedIsIdle
  <1>2. ShellEndsFirst'
    BY WorkerNames DEF Lifetimes, ShellEndsFirst
  <1>3. QED
    BY <1>1, <1>2 DEF Lifetimes

LEMMA EndOpeningKeeps ==
  ASSUME TypeOK, NEW w \in Workers, NEW success \in BOOLEAN, EndOpening(w, success)
  PROVE  /\ phase'[w] = "loop"
         /\ \A v \in Workers : v # w => phase'[v] = phase[v] /\ connected'[v] = connected[v]
  BY DEF EndOpening, TypeOK

LEMMA WorkerLifetimes ==
  ASSUME Types, Lifetimes, Asking, NEW w \in Workers, WorkerStep(w)
  PROVE  Lifetimes'
  <1>0. TypeOK /\ inbox[w] \in Seq({"start", "shutdown"})
    BY DEF Types, TypeOK
  <1>1. ASSUME phase[w] \notin {"absent", "loop"}
        PROVE  gui # GuiAt("joining", w)
    BY <1>1 DEF Lifetimes, JoinedIsDone
  <1>2. ASSUME inbox[w] # <<>>
        PROVE  gui # GuiAt("joining", w)
    BY <1>2 DEF Lifetimes, JoinedIsDone
  <1>3. CASE TakeStart(w)
    <2>1. /\ inbox[w] # <<>> /\ gui' = gui /\ phase[w] = "loop" /\ phase'[w] = "opening"
          /\ \A v \in Workers : v # w => /\ phase'[v] = phase[v]
                                         /\ connected'[v] = connected[v]
                                         /\ inbox'[v] = inbox[v]
          /\ inbox'[w] = Tail(inbox[w])
      BY <1>0, <1>3 DEF TakeStart, TypeOK
    <2>2. /\ DOMAIN inbox'[w] = 1..Len(inbox'[w])
          /\ \A i \in 1..Len(inbox'[w]) :
               /\ i + 1 \in DOMAIN inbox[w]
               /\ inbox'[w][i] = inbox[w][i + 1]
               /\ i + 1 = Len(inbox[w]) => i = Len(inbox'[w])
      BY <1>0, <2>1
    <2>3. ShutdownIsLast'
      <3>1. ASSUME NEW i \in 1..Len(inbox'[w]), inbox'[w][i] = "shutdown"
            PROVE  i = Len(inbox'[w]) /\ gui = GuiAt("stopping", w)
        <4>1. i + 1 \in DOMAIN inbox[w] /\ inbox[w][i + 1] = "shutdown"
          BY <2>2, <3>1
        <4>2. i + 1 = Len(inbox[w]) /\ gui = GuiAt("stopping", w)
          BY <4>1 DEF Lifetimes, ShutdownIsLast
        <4>3. QED
          BY <2>2, <4>2
      <3>2. QED
        BY <2>1, <2>2, <3>1 DEF Lifetimes, ShutdownIsLast
    <2>4. JoinedIsDone' /\ EndedIsIdle'
      BY <1>2, <2>1 DEF Lifetimes, JoinedIsDone, EndedIsIdle
    <2>5. ShellEndsFirst'
      BY <2>1, WorkerNames DEF Lifetimes, ShellEndsFirst
    <2>6. QED
      BY <2>3, <2>4, <2>5 DEF Lifetimes
  <1>4. CASE OpenUnasked(w)
    BY <1>0, <1>1, <1>4, EndOpeningKeeps, LifetimesKept DEF OpenUnasked
  <1>5. CASE Ask(w)
    BY <1>0, <1>1, <1>5, LifetimesKept DEF Ask, TypeOK
  <1>6. CASE Lock(w)
    <2>1. phase'[w] # "absent" /\ \A v \in Workers : v # w => phase'[v] = phase[v]
      BY <1>0, <1>6 DEF Lock, TypeOK
    <2>2. QED
      BY <1>1, <1>6, <2>1, LifetimesKept DEF Lock
  <1>7. CASE Settle(w)
    <2>1. /\ phase'[w] # "absent"
          /\ \A v \in Workers : v # w => phase'[v] = phase[v] /\ connected'[v] = connected[v]
      <3>1. CASE \E success \in BOOLEAN : EndOpening(w, success)
        BY <1>0, <3>1, EndOpeningKeeps
      <3>2. CASE phase' = [phase EXCEPT ![w] = "opening"] /\ UNCHANGED connected
        BY <1>0, <3>2 DEF TypeOK
      <3>3. QED
        BY <1>7, <3>1, <3>2 DEF Settle
    <2>2. QED
      BY <1>1, <1>7, <2>1, LifetimesKept DEF Settle
  <1>8. CASE TakeShutdown(w)
    <2>1. /\ phase[w] = "loop" /\ phase' = phase /\ gui' = GuiAt("joining", w)
          /\ \A v \in Workers : v # w => inbox'[v] = inbox[v]
          /\ inbox'[w] = Tail(inbox[w])
          /\ ~connected'[w]
      BY <1>0, <1>8 DEF TakeShutdown, TypeOK
    <2>2. 1 \in DOMAIN inbox[w] /\ inbox[w][1] = "shutdown"
      BY <1>0, <1>8 DEF TakeShutdown
    <2>3. Len(inbox[w]) = 1 /\ gui = GuiAt("stopping", w)
      BY <2>2 DEF Lifetimes, ShutdownIsLast
    <2>4. inbox'[w] = <<>>
      BY <1>0, <2>1, <2>3, TailOfOne
    <2>5. ShutdownIsLast'
      <3>1. \A v \in Workers : v # w => gui # GuiAt("stopping", v)
        BY <2>3, GuiFields
      <3>2. QED
        BY <2>1, <2>4, <3>1 DEF Lifetimes, ShutdownIsLast
    <2>6. JoinedIsDone'
      BY <2>1, <2>4, GuiFields DEF JoinedIsDone
    <2>7. EndedIsIdle'
      BY <2>1, <2>4 DEF Lifetimes, EndedIsIdle
    <2>8. ShellEndsFirst'
      <3>1. \A u \in Tabs :
              gui \in {GuiAt("stopping", <<u, "files">>), GuiAt("joining", <<u, "files">>)}
                <=> gui' \in {GuiAt("stopping", <<u, "files">>), GuiAt("joining", <<u, "files">>)}
        BY <2>1, <2>3, GuiFields
      <3>2. QED
        BY <2>1, <3>1 DEF Lifetimes, ShellEndsFirst
    <2>9. QED
      BY <2>5, <2>6, <2>7, <2>8 DEF Lifetimes
  <1>9. QED
    BY <1>3, <1>4, <1>5, <1>6, <1>7, <1>8 DEF WorkerStep

(* The GUI thread posts the shutdown of a worker that has none yet. *)
LEMMA StopIsLast ==
  ASSUME Types, ShutdownIsLast, NEW w \in Workers, gui.at # "stopping", BeginStop(w)
  PROVE  ShutdownIsLast'
  <1>1. /\ gui' = GuiAt("stopping", w)
        /\ \A v \in Workers : v # w => inbox'[v] = inbox[v]
        /\ inbox[w] \in Seq({"start", "shutdown"})
        /\ inbox'[w] = Append(inbox[w], "shutdown")
    BY DEF BeginStop, Types, TypeOK
  <1>2. \A v \in Workers : \A i \in DOMAIN inbox[v] : inbox[v][i] # "shutdown"
    BY GuiFields DEF ShutdownIsLast
  <1>3. \A i \in DOMAIN inbox'[w] : \/ i \in DOMAIN inbox[w] /\ inbox'[w][i] = inbox[w][i]
                                   \/ i = Len(inbox'[w])
    BY <1>1
  <1>4. QED
    BY <1>1, <1>2, <1>3 DEF ShutdownIsLast

NoFilesStop(g, tab) ==
  g \notin {GuiAt("stopping", <<tab, "files">>), GuiAt("joining", <<tab, "files">>)}

LEMMA GuiLifetimes ==
  ASSUME Types, Lifetimes, Asking, GuiStep
  PROVE  Lifetimes'
  <1>0. TypeOK
    BY DEF Types
  <1>1. CASE ShowDialog
    <2>1. /\ gui.at = "free" /\ gui'.at = "dialog" /\ inbox' = inbox /\ phase' = phase
          /\ connected' = connected
      BY <1>1, GuiFields DEF ShowDialog, GuiFree
    <2>2. QED
      BY <2>1, GuiFields
         DEF Lifetimes, ShutdownIsLast, JoinedIsDone, EndedIsIdle, ShellEndsFirst
  <1>2. CASE AnswerDialog
    <2>1. gui.worker \in Workers /\ gui = GuiAt("dialog", gui.worker)
      BY <1>0, <1>2, GuiNames DEF AnswerDialog
    <2>2. phase[gui.worker] = "parked"
      BY <2>1 DEF Asking, QuestionIsSomewhere
    <2>3. /\ gui.at = "dialog" /\ gui'.at = "free" /\ inbox' = inbox
          /\ connected' = connected
          /\ \A v \in Workers : phase'[v] = "absent" <=> phase[v] = "absent"
      BY <1>0, <1>2, <2>1, <2>2, GuiFields DEF AnswerDialog, TypeOK
    <2>4. ShutdownIsLast' /\ JoinedIsDone' /\ EndedIsIdle'
      BY <2>3, GuiFields DEF Lifetimes, ShutdownIsLast, JoinedIsDone, EndedIsIdle
    <2>5. ShellEndsFirst'
      <3>1. \A u \in Tabs : NoFilesStop(gui, u) /\ NoFilesStop(gui', u)
        BY <2>3, GuiFields DEF NoFilesStop
      <3>2. QED
        BY <2>3, <3>1, WorkerNames DEF Lifetimes, ShellEndsFirst, NoFilesStop
    <2>6. QED
      BY <2>4, <2>5 DEF Lifetimes
  <1>3. CASE JoinShell
    <2> DEFINE t     == TabOf(gui.worker)
               shell == <<t, "shell">>
               files == <<t, "files">>
    <2>1. /\ t \in Tabs /\ shell \in Workers /\ files \in Workers /\ shell # files
          /\ gui.worker = shell /\ gui = GuiAt("joining", shell)
      BY <1>0, <1>3, GuiNames, WorkerNames DEF JoinShell
    <2>2. phase[shell] = "loop" /\ inbox[shell] = <<>> /\ phase[files] # "absent"
      BY <2>1 DEF Lifetimes, JoinedIsDone, ShellEndsFirst
    <2>3. /\ \A v \in Workers : phase'[v] = IF v = shell THEN "absent" ELSE phase[v]
          /\ gui' = GuiAt("stopping", files)
          /\ inbox' = [inbox EXCEPT ![files] = Append(@, "shutdown")]
          /\ connected' = connected
      BY <1>0, <1>3, <2>1 DEF JoinShell, BeginStop, TypeOK
    <2> HIDE DEF t, shell, files
    <2>4. ShutdownIsLast'
      <3>1. BeginStop(files) /\ gui.at # "stopping" /\ ShutdownIsLast
        BY <2>1, <2>3, GuiFields DEF BeginStop, Lifetimes
      <3>2. QED
        BY <2>1, <3>1, StopIsLast
    <2>5. JoinedIsDone'
      BY <2>3, GuiFields DEF JoinedIsDone
    <2>6. EndedIsIdle'
      BY <1>0, <2>1, <2>2, <2>3 DEF Lifetimes, EndedIsIdle, TypeOK
    <2>7. ShellEndsFirst'
      <3>1. ASSUME NEW u \in Tabs
            PROVE  /\ phase'[<<u, "files">>] = phase[<<u, "files">>]
                   /\ phase'[<<u, "shell">>] = IF u = t THEN "absent" ELSE phase[<<u, "shell">>]
                   /\ <<u, "files">> = files <=> u = t
                   /\ gui \notin {GuiAt("stopping", <<u, "files">>),
                                  GuiAt("joining", <<u, "files">>)}
                   /\ gui' \in {GuiAt("stopping", <<u, "files">>),
                                GuiAt("joining", <<u, "files">>)} <=> u = t
        <4>1. <<u, "files">> \in Workers /\ <<u, "shell">> \in Workers
          BY WorkerNames
        <4>2. /\ <<u, "files">> # shell
              /\ <<u, "files">> = files <=> u = t
              /\ <<u, "shell">> = shell <=> u = t
          BY DEF shell, files
        <4>3. QED
          BY <2>1, <2>3, <4>1, <4>2, GuiFields
      <3>2. QED
        BY <2>2, <3>1 DEF Lifetimes, ShellEndsFirst, files
    <2>8. QED
      BY <2>4, <2>5, <2>6, <2>7 DEF Lifetimes
  <1>4. CASE JoinFiles
    <2> DEFINE t     == TabOf(gui.worker)
               files == <<t, "files">>
    <2>1. /\ t \in Tabs /\ files \in Workers
          /\ gui.worker = files /\ gui = GuiAt("joining", files)
      BY <1>0, <1>4, GuiNames, WorkerNames DEF JoinFiles
    <2>2. inbox[files] = <<>> /\ phase[<<t, "shell">>] = "absent"
      BY <2>1 DEF Lifetimes, JoinedIsDone, ShellEndsFirst
    <2>3. /\ \A v \in Workers : phase'[v] = IF v = files THEN "absent" ELSE phase[v]
          /\ gui'.at = "free" /\ inbox' = inbox /\ connected' = connected
      BY <1>0, <1>4, <2>1, GuiFields DEF JoinFiles, TypeOK
    <2> HIDE DEF t, files
    <2>4. ShutdownIsLast' /\ JoinedIsDone'
      BY <2>1, <2>3, GuiFields DEF Lifetimes, ShutdownIsLast, JoinedIsDone
    <2>5. EndedIsIdle'
      BY <2>2, <2>3 DEF Lifetimes, EndedIsIdle
    <2>6. ShellEndsFirst'
      <3>1. ASSUME NEW u \in Tabs
            PROVE  /\ phase'[<<u, "shell">>] = phase[<<u, "shell">>]
                   /\ phase'[<<u, "files">>] = IF u = t THEN "absent" ELSE phase[<<u, "files">>]
                   /\ u # t => gui \notin {GuiAt("stopping", <<u, "files">>),
                                           GuiAt("joining", <<u, "files">>)}
                   /\ gui' \notin {GuiAt("stopping", <<u, "files">>),
                                   GuiAt("joining", <<u, "files">>)}
        <4>1. <<u, "files">> \in Workers /\ <<u, "shell">> \in Workers
          BY WorkerNames
        <4>2. /\ <<u, "shell">> # files
              /\ <<u, "files">> = files <=> u = t
          BY DEF files
        <4>3. QED
          BY <2>1, <2>3, <4>1, <4>2, GuiFields
      <3>2. QED
        BY <2>2, <3>1 DEF Lifetimes, ShellEndsFirst
    <2>7. QED
      BY <2>4, <2>5, <2>6 DEF Lifetimes
  <1>5. ASSUME NEW tab \in Tabs, Notice(tab)
        PROVE  Lifetimes'
    BY <1>5 DEF Notice, Lifetimes, ShutdownIsLast, JoinedIsDone, EndedIsIdle, ShellEndsFirst
  <1>6. QED
    BY <1>1, <1>2, <1>3, <1>4, <1>5 DEF GuiStep

LEMMA UserLifetimes ==
  ASSUME Types, Lifetimes, Asking, NEW tab \in Tabs,
         OpenTab(tab) \/ ShowFileBrowser(tab) \/ CloseTab(tab)
  PROVE  Lifetimes'
  <1> DEFINE shell == <<tab, "shell">>
             files == <<tab, "files">>
  <1>0. TypeOK /\ shell \in Workers /\ files \in Workers /\ shell # files
    BY WorkerNames DEF Types
  <1>1. gui.at = "free"
    BY DEF OpenTab, ShowFileBrowser, CloseTab, GuiFree
  <1>2. \A v \in Workers : \A i \in DOMAIN inbox[v] : inbox[v][i] # "shutdown"
    BY <1>1, GuiFields DEF Lifetimes, ShutdownIsLast
  <1>3. CASE OpenTab(tab)
    <2>1. gui' = gui
      BY <1>3 DEF OpenTab
    <2>2. \A v \in Workers : phase'[v] = IF TabOf(v) = tab THEN "loop" ELSE phase[v]
      BY <1>3 DEF OpenTab
    <2>3. PICK first \in {<<>>, <<"start">>} :
            inbox' = [inbox EXCEPT ![shell] = <<"start">>, ![files] = first]
      BY <1>3 DEF OpenTab
    <2>4. \A v \in Workers : inbox'[v] = IF v = shell THEN <<"start">>
                                         ELSE IF v = files THEN first ELSE inbox[v]
      BY <1>0, <2>3 DEF TypeOK
    <2>5. TabOf(shell) = tab /\ TabOf(files) = tab
      BY DEF TabOf
    <2> HIDE DEF shell, files
    <2>6. ShutdownIsLast'
      <3>1. \A v \in Workers : \A i \in DOMAIN inbox'[v] : inbox'[v][i] # "shutdown"
        <4>1. \A i \in DOMAIN first : first[i] = "start"
          BY <2>3
        <4>2. \A i \in DOMAIN <<"start">> : <<"start">>[i] = "start"
          OBVIOUS
        <4>3. QED
          BY <1>2, <2>4, <4>1, <4>2
      <3>2. QED
        BY <3>1 DEF ShutdownIsLast
    <2>7. JoinedIsDone'
      BY <1>1, <2>1, GuiFields DEF JoinedIsDone
    <2>8. EndedIsIdle'
      BY <2>2, <2>4, <2>5 DEF Lifetimes, EndedIsIdle
    <2>9. ShellEndsFirst'
      <3>1. \A u \in Tabs : TabOf(<<u, "shell">>) = u /\ TabOf(<<u, "files">>) = u
        BY DEF TabOf
      <3>2. \A u \in Tabs : NoFilesStop(gui, u)
        BY <1>1, GuiFields DEF NoFilesStop
      <3>3. QED
        BY <2>1, <2>2, <3>1, <3>2, WorkerNames, ZenonT(40) DEF Lifetimes, ShellEndsFirst, NoFilesStop
    <2>10. QED
      BY <2>6, <2>7, <2>8, <2>9 DEF Lifetimes
  <1>4. CASE ShowFileBrowser(tab)
    <2>1. /\ gui' = gui /\ phase' = phase /\ connected' = connected
          /\ \A v \in Workers : v # files => inbox'[v] = inbox[v]
          /\ inbox'[files] = Append(inbox[files], "start")
          /\ inbox[files] \in Seq({"start", "shutdown"})
      BY <1>0, <1>4 DEF ShowFileBrowser, TypeOK
    <2>2. phase[files] # "absent"
      BY <1>0, <1>1, <1>4, GuiFields DEF ShowFileBrowser, IsOpen, Lifetimes, ShellEndsFirst
    <2> HIDE DEF shell, files
    <2>3. \A i \in DOMAIN inbox'[files] : inbox'[files][i] # "shutdown"
      BY <1>0, <1>2, <2>1
    <2>4. ShutdownIsLast'
      BY <1>2, <2>1, <2>3 DEF ShutdownIsLast
    <2>5. JoinedIsDone' /\ EndedIsIdle' /\ ShellEndsFirst'
      BY <1>1, <2>1, <2>2, GuiFields DEF Lifetimes, JoinedIsDone, EndedIsIdle, ShellEndsFirst
    <2>6. QED
      BY <2>4, <2>5 DEF Lifetimes
  <1>5. CASE CloseTab(tab)
    <2>1. /\ BeginStop(shell) /\ phase' = phase /\ phase[shell] # "absent"
          /\ gui' = GuiAt("stopping", shell)
          /\ \A v \in Workers : v # shell => inbox'[v] = inbox[v]
      BY <1>0, <1>5 DEF CloseTab, IsOpen, BeginStop, TypeOK
    <2>2. ShutdownIsLast'
      BY <1>0, <1>1, <2>1, StopIsLast DEF Lifetimes
    <2>3. JoinedIsDone'
      BY <2>1, GuiFields DEF JoinedIsDone
    <2>4. EndedIsIdle'
      BY <2>1 DEF Lifetimes, EndedIsIdle
    <2>5. ShellEndsFirst'
      <3>1. \A u \in Tabs : /\ gui' \notin {GuiAt("stopping", <<u, "files">>),
                                            GuiAt("joining", <<u, "files">>)}
                            /\ gui \notin {GuiAt("stopping", <<u, "files">>),
                                           GuiAt("joining", <<u, "files">>)}
        BY <1>1, <2>1, GuiFields
      <3>2. QED
        BY <2>1, <3>1 DEF Lifetimes, ShellEndsFirst
    <2>6. QED
      BY <2>2, <2>3, <2>4, <2>5 DEF Lifetimes
  <1>6. QED
    BY <1>3, <1>4, <1>5

-----------------------------------------------------------------------------
(***************************************************************************)
(* How questions are asked.                                                *)
(***************************************************************************)
IsAsking(w) == phase[w] \in {"parked", "told"}

(* A step of a worker that asks nothing, or of a GUI thread that shows     *)
(* nothing, leaves the question being asked alone.                         *)
LEMMA AskingKept ==
  ASSUME Types, Asking,
         \A v \in Workers : IsAsking(v) \/ IsAsking(v)' =>
           phase'[v] = phase[v] /\ question'[v] = question[v] /\ reply'[v] = reply[v],
         UNCHANGED <<mutex, posted, answers, shown>>,
         gui' = gui \/ (gui.at # "dialog" /\ gui'.at # "dialog")
  PROVE  Asking'
  <1>1. \A v \in Workers : /\ phase'[v] = "parked" <=> phase[v] = "parked"
                           /\ phase'[v] = "told" <=> phase[v] = "told"
                           /\ IsAsking(v) => Asked(v)' = Asked(v) /\ reply'[v] = reply[v]
                           /\ gui' = GuiAt("dialog", v) <=> gui = GuiAt("dialog", v)
    BY GuiFields DEF IsAsking, Asked
  <1>2. gui'.at = "dialog" => gui.at = "dialog" /\ gui' = gui
    OBVIOUS
  <1>3. OwnerAsks' /\ QuestionIsSomewhere' /\ TellsAnAnswer'
    BY <1>1, <1>2 DEF Asking, OwnerAsks, QuestionIsSomewhere, TellsAnAnswer, IsAsking
  <1>4. ShownIsSettled'
    <2>1. \A v \in Workers : phase'[v] = "parked" => answers'[Asked(v)'] = "none"
      BY <1>1 DEF Asking, ShownIsSettled, IsAsking
    <2>2. ASSUME NEW v \in Workers, phase[v] = "told" \/ gui = GuiAt("dialog", v)
          PROVE  Asked(v)' = Asked(v)
      BY <1>1, <2>2 DEF Asking, QuestionIsSomewhere, IsAsking
    <2>3. QED
      BY <1>1, <2>1, <2>2 DEF Asking, ShownIsSettled
  <1>5. QED
    BY <1>3, <1>4 DEF Asking

(* Only the owner of the mutex is asking. *)
LEMMA OnlyOwner ==
  ASSUME Types, Asking, NEW w \in Workers, IsAsking(w)
  PROVE  /\ mutex = w
         /\ \A v \in Workers : v # w => ~IsAsking(v) /\ gui # GuiAt("dialog", v)
  BY DEF Asking, OwnerAsks, QuestionIsSomewhere, IsAsking

LEMMA LockAsking ==
  ASSUME Types, Asking, NEW w \in Workers, Lock(w)
  PROVE  Asking'
  <1>0. TypeOK /\ mutex = NoWorker /\ mutex' = w /\ phase[w] = "locking" /\ gui' = gui
          /\ w # NoWorker
    BY WorkerNames DEF Types, Lock
  <1>1. \A v \in Workers : ~IsAsking(v)
    BY <1>0, WorkerNames DEF Asking, OwnerAsks, IsAsking
  <1>2. posted = <<>> /\ \A v \in Workers : gui # GuiAt("dialog", v)
    <2>1. \A v \in Workers : gui # GuiAt("dialog", v) /\ posted # <<v>>
      BY <1>1 DEF Asking, QuestionIsSomewhere, IsAsking
    <2>2. posted # <<NoWorker>>
      <3>1. \A i \in DOMAIN posted : posted[i] # NoWorker
        BY <1>0, ThreadsAssumption DEF TypeOK
      <3>2. 1 \in DOMAIN <<NoWorker>> /\ <<NoWorker>>[1] = NoWorker
        OBVIOUS
      <3>3. QED
        BY <3>1, <3>2
    <2>3. QED
      BY <1>0, <2>1, <2>2 DEF Asking, QuestionIsSomewhere
  <1>3. gui.at # "dialog"
    BY <1>0, <1>2, GuiNames
  <1>4. \A v \in Workers : Asked(v)' = Asked(v)
    BY DEF Lock, Asked
  <1>5. answers' = answers /\ shown' = shown
    BY DEF Lock
  <1>6. \A v \in Workers : v # w => phase'[v] = phase[v]
    BY <1>0 DEF Lock, TypeOK
  <1>7. CASE /\ phase' = [phase EXCEPT ![w] = "told"]
             /\ answers[Asked(w)] # "none"
             /\ reply' = [reply EXCEPT ![w] = answers[Asked(w)]]
             /\ UNCHANGED posted
    <2>1. phase'[w] = "told" /\ reply'[w] # "none"
      BY <1>0, <1>7 DEF TypeOK
    <2>2. OwnerAsks' /\ TellsAnAnswer'
      BY <1>0, <1>1, <1>6, <2>1 DEF OwnerAsks, TellsAnAnswer, IsAsking
    <2>3. QuestionIsSomewhere'
      BY <1>0, <1>1, <1>2, <1>3, <1>6, <1>7, <2>1 DEF QuestionIsSomewhere, IsAsking
    <2>4. ShownIsSettled'
      BY <1>0, <1>1, <1>2, <1>4, <1>5, <1>6, <2>1 DEF Asking, ShownIsSettled, IsAsking
    <2>5. QED
      BY <2>2, <2>3, <2>4 DEF Asking
  <1>8. CASE /\ phase' = [phase EXCEPT ![w] = "parked"]
             /\ answers[Asked(w)] = "none"
             /\ posted' = Append(posted, w)
             /\ UNCHANGED reply
    <2>1. phase'[w] = "parked" /\ posted' = <<w>>
      BY <1>0, <1>2, <1>8 DEF TypeOK
    <2>2. OwnerAsks' /\ TellsAnAnswer'
      BY <1>0, <1>1, <1>6, <2>1 DEF OwnerAsks, TellsAnAnswer, IsAsking
    <2>3. QuestionIsSomewhere'
      BY <1>0, <1>1, <1>2, <1>3, <1>6, <2>1 DEF QuestionIsSomewhere, IsAsking
    <2>4. ShownIsSettled'
      BY <1>0, <1>1, <1>2, <1>4, <1>5, <1>6, <1>8, <2>1 DEF Asking, ShownIsSettled, IsAsking
    <2>5. QED
      BY <2>2, <2>3, <2>4 DEF Asking
  <1>9. QED
    BY <1>7, <1>8 DEF Lock

LEMMA SettleAsking ==
  ASSUME Types, Asking, NEW w \in Workers, Settle(w)
  PROVE  Asking'
  <1>0. /\ TypeOK /\ phase[w] = "told" /\ mutex' = NoWorker /\ gui' = gui
        /\ posted' = posted /\ shown' = shown
        /\ answers' = [answers EXCEPT ![Asked(w)] = reply[w]]
        /\ reply[w] # "none" /\ Asked(w) \in Tabs \X Questions
    BY QuestionTyped DEF Types, Settle, Asking, TellsAnAnswer
  <1>1. /\ mutex = w
        /\ \A v \in Workers : v # w => ~IsAsking(v)
        /\ \A v \in Workers : gui # GuiAt("dialog", v) /\ posted # <<v>>
    BY <1>0, OnlyOwner DEF Asking, QuestionIsSomewhere, IsAsking
  <1>2. posted = <<>> /\ gui.at # "dialog"
    BY <1>0, <1>1, GuiNames DEF Asking, QuestionIsSomewhere
  <1>3. phase'[w] \notin {"parked", "told"} /\ \A v \in Workers : v # w => phase'[v] = phase[v]
    <2>1. CASE \E success \in BOOLEAN : EndOpening(w, success)
      BY <1>0, <2>1, EndOpeningKeeps
    <2>2. CASE phase' = [phase EXCEPT ![w] = "opening"]
      BY <1>0, <2>2 DEF TypeOK
    <2>3. QED
      BY <2>1, <2>2 DEF Settle
  <1>4. \A v \in Workers : ~IsAsking(v)' /\ NoWorker # v
    BY <1>1, <1>3, WorkerNames DEF IsAsking
  <1>5. OwnerAsks' /\ TellsAnAnswer'
    BY <1>0, <1>4 DEF OwnerAsks, TellsAnAnswer, IsAsking
  <1>6. QuestionIsSomewhere'
    BY <1>0, <1>1, <1>2, <1>4 DEF QuestionIsSomewhere, IsAsking
  <1>7. ShownIsSettled'
    <2>1. \A q \in Tabs \X Questions :
            answers[q] # "none" \/ q = Asked(w) => answers'[q] # "none"
      BY <1>0 DEF TypeOK
    <2>2. \A v \in Workers :
            phase[v] = "told" \/ gui = GuiAt("dialog", v) => v = w
      BY <1>1 DEF IsAsking
    <2>3. \A q \in Tabs \X Questions :
            shown'[q] = 0 \/ (shown'[q] = 1 /\ answers'[q] # "none")
      BY <1>0, <2>1, <2>2 DEF Asking, ShownIsSettled
    <2>4. QED
      BY <1>4, <2>3 DEF ShownIsSettled, IsAsking
  <1>8. QED
    BY <1>5, <1>6, <1>7 DEF Asking

LEMMA ShowAsking ==
  ASSUME Types, Asking, ShowDialog
  PROVE  Asking'
  <1>0. /\ TypeOK /\ posted # <<>> /\ phase' = phase /\ reply' = reply /\ mutex' = mutex
        /\ answers' = answers /\ question' = question /\ gui.at = "free"
    BY DEF ShowDialog, Types, GuiFree
  <1>1. posted = <<mutex>>
    BY <1>0 DEF Asking, QuestionIsSomewhere
  <1>2. mutex \in Workers /\ phase[mutex] = "parked" /\ Asked(mutex) \in Tabs \X Questions
    <2>1. mutex \in Workers
      BY <1>0, <1>1 DEF TypeOK
    <2>2. QED
      BY <1>0, <1>1, <2>1, QuestionTyped DEF Asking, QuestionIsSomewhere
  <1>3. /\ gui' = GuiAt("dialog", mutex)
        /\ posted' = <<>>
        /\ shown' = [shown EXCEPT ![Asked(mutex)] = @ + 1]
    BY <1>1 DEF ShowDialog
  <1>4. \A v \in Workers : gui' = GuiAt("dialog", v) <=> v = mutex
    BY <1>3, GuiFields
  <1>5. \A v \in Workers : v # mutex => ~IsAsking(v)
    BY <1>2, OnlyOwner DEF IsAsking
  <1>6. OwnerAsks' /\ TellsAnAnswer'
    BY <1>0 DEF Asking, OwnerAsks, TellsAnAnswer
  <1>7. QuestionIsSomewhere'
    BY <1>0, <1>2, <1>3, <1>4, <1>5, GuiFields DEF QuestionIsSomewhere, IsAsking
  <1>8. ShownIsSettled'
    <2>1. answers[Asked(mutex)] = "none"
      BY <1>2 DEF Asking, ShownIsSettled
    <2>2. \A v \in Workers : phase[v] # "told" /\ gui # GuiAt("dialog", v)
      BY <1>0, <1>2, <1>5, GuiFields DEF IsAsking
    <2>3. \A q \in Tabs \X Questions : shown[q] = 0 \/ (shown[q] = 1 /\ answers[q] # "none")
      BY <2>2 DEF Asking, ShownIsSettled
    <2>4. shown[Asked(mutex)] = 0
      BY <1>2, <2>1, <2>3
    <2>5. shown'[Asked(mutex)] = 1
            /\ \A q \in Tabs \X Questions : q # Asked(mutex) => shown'[q] = shown[q]
      BY <1>0, <1>2, <1>3, <2>4 DEF TypeOK
    <2>6. \A v \in Workers : Asked(v)' = Asked(v)
      BY <1>0 DEF Asked
    <2>7. \A v \in Workers : phase'[v] = "parked" => answers'[Asked(v)'] = "none"
      BY <1>0, <2>6 DEF Asking, ShownIsSettled
    <2>8. QED
      BY <1>0, <1>2, <1>4, <2>3, <2>5, <2>6, <2>7 DEF ShownIsSettled
  <1>9. QED
    BY <1>6, <1>7, <1>8 DEF Asking

LEMMA AnswerAsking ==
  ASSUME Types, Asking, AnswerDialog
  PROVE  Asking'
  <1> DEFINE w == gui.worker
  <1>0. /\ TypeOK /\ w \in Workers /\ gui = GuiAt("dialog", w) /\ gui.at = "dialog"
        /\ gui' = GuiAt("free", NoWorker) /\ gui'.at = "free"
        /\ UNCHANGED <<mutex, posted, question, answers, shown>>
        /\ phase' = [phase EXCEPT ![w] = "told"]
    BY GuiNames, GuiFields DEF AnswerDialog, Types
  <1> HIDE DEF w
  <1>1. phase[w] = "parked" /\ mutex = w
    BY <1>0 DEF Asking, QuestionIsSomewhere, OwnerAsks
  <1>2. \A v \in Workers : v # w => ~IsAsking(v)
    BY <1>0, <1>1, OnlyOwner DEF IsAsking
  <1>3. phase'[w] = "told" /\ \A v \in Workers : v # w => phase'[v] = phase[v]
    BY <1>0 DEF TypeOK
  <1>4. reply'[w] # "none"
    <2>1. PICK r \in Replies[question[w]] : reply' = [reply EXCEPT ![w] = r]
      BY DEF AnswerDialog, w
    <2>2. r # "none"
      BY <1>0, <2>1, AnswerTyped DEF TypeOK
    <2>3. QED
      BY <1>0, <2>1, <2>2 DEF TypeOK
  <1>5. OwnerAsks' /\ TellsAnAnswer'
    BY <1>0, <1>1, <1>2, <1>3, <1>4 DEF OwnerAsks, TellsAnAnswer, IsAsking
  <1>6. posted = <<>> /\ \A v \in Workers : gui' # GuiAt("dialog", v)
    BY <1>0, GuiFields DEF Asking, QuestionIsSomewhere
  <1>7. QuestionIsSomewhere'
    BY <1>0, <1>2, <1>3, <1>6 DEF QuestionIsSomewhere, IsAsking
  <1>8. ShownIsSettled'
    <2>1. \A v \in Workers : Asked(v)' = Asked(v)
      BY <1>0 DEF Asked
    <2>2. \A v \in Workers : phase[v] = "told" \/ gui = GuiAt("dialog", v) => v = w
      BY <1>0, <1>2, GuiFields DEF IsAsking
    <2>3. \A v \in Workers : phase'[v] # "parked"
      BY <1>2, <1>3 DEF IsAsking
    <2>4. QED
      BY <1>0, <1>3, <2>1, <2>2, <2>3 DEF Asking, ShownIsSettled
  <1>9. QED
    BY <1>5, <1>7, <1>8 DEF Asking

LEMMA WorkerAsking ==
  ASSUME Types, Lifetimes, Asking, NEW w \in Workers, WorkerStep(w)
  PROVE  Asking'
  <1>0. TypeOK
    BY DEF Types
  <1>1. CASE TakeStart(w)
    BY <1>0, <1>1, AskingKept DEF TakeStart, TypeOK, IsAsking
  <1>2. CASE OpenUnasked(w)
    BY <1>0, <1>2, AskingKept, EndOpeningKeeps DEF OpenUnasked, IsAsking
  <1>3. CASE Ask(w)
    <2>1. phase'[w] = "locking" /\ \A v \in Workers : v # w => /\ phase'[v] = phase[v]
                                                               /\ question'[v] = question[v]
      BY <1>0, <1>3 DEF Ask, TypeOK
    <2>2. QED
      BY <1>3, <2>1, AskingKept DEF Ask, IsAsking
  <1>4. CASE Lock(w)
    BY <1>4, LockAsking
  <1>5. CASE Settle(w)
    BY <1>5, SettleAsking
  <1>6. CASE TakeShutdown(w)
    <2>1. 1 \in DOMAIN inbox[w] /\ inbox[w][1] = "shutdown"
      BY <1>0, <1>6 DEF TakeShutdown, TypeOK
    <2>2. gui.at = "stopping" /\ gui'.at = "joining"
      BY <1>6, <2>1, GuiFields DEF TakeShutdown, Lifetimes, ShutdownIsLast
    <2>3. QED
      BY <1>6, <2>2, AskingKept DEF TakeShutdown, IsAsking
  <1>7. QED
    BY <1>1, <1>2, <1>3, <1>4, <1>5, <1>6 DEF WorkerStep

LEMMA GuiAsking ==
  ASSUME Types, Lifetimes, Asking, GuiStep
  PROVE  Asking'
  <1>0. TypeOK
    BY DEF Types
  <1>1. CASE JoinShell \/ JoinFiles
    <2>1. gui.worker \in Workers /\ phase[gui.worker] = "loop"
      BY <1>0, <1>1, GuiNames DEF JoinShell, JoinFiles, Lifetimes, JoinedIsDone
    <2>2. gui.at # "dialog" /\ gui'.at # "dialog"
      BY <1>1, GuiFields DEF JoinShell, JoinFiles, BeginStop
    <2>3. \A v \in Workers : phase'[v] = IF v = gui.worker THEN "absent" ELSE phase[v]
      BY <1>0, <1>1 DEF JoinShell, JoinFiles, TypeOK
    <2>4. UNCHANGED <<question, reply, mutex, posted, answers, shown>>
      BY <1>1 DEF JoinShell, JoinFiles
    <2>5. QED
      BY <2>1, <2>2, <2>3, <2>4, AskingKept DEF IsAsking
  <1>2. ASSUME NEW tab \in Tabs, Notice(tab)
        PROVE  Asking'
    BY <1>2, AskingKept DEF Notice
  <1>3. QED
    BY <1>1, <1>2, ShowAsking, AnswerAsking DEF GuiStep

LEMMA UserAsking ==
  ASSUME Types, Lifetimes, Asking, NEW tab \in Tabs,
         OpenTab(tab) \/ ShowFileBrowser(tab) \/ CloseTab(tab)
  PROVE  Asking'
  <1>0. TypeOK /\ gui.at = "free"
    BY DEF Types, OpenTab, ShowFileBrowser, CloseTab, GuiFree
  <1>1. CASE OpenTab(tab)
    <2>1. NoFilesStop(gui, tab)
      BY <1>0, GuiFields DEF NoFilesStop
    <2>2. phase[<<tab, "shell">>] = "absent" /\ phase[<<tab, "files">>] = "absent"
      BY <1>1, <2>1 DEF OpenTab, IsOpen, Lifetimes, ShellEndsFirst, NoFilesStop
    <2>3. \A v \in Workers : TabOf(v) = tab => phase[v] = "absent"
      BY <2>2, WorkerNames
    <2>4. \A v \in Workers : phase'[v] = IF TabOf(v) = tab THEN "loop" ELSE phase[v]
      BY <1>1 DEF OpenTab
    <2>5. UNCHANGED <<question, reply, mutex, posted, answers, gui, shown>>
      BY <1>1 DEF OpenTab
    <2>6. QED
      BY <2>3, <2>4, <2>5, AskingKept DEF IsAsking
  <1>2. CASE ShowFileBrowser(tab)
    BY <1>2, AskingKept DEF ShowFileBrowser
  <1>3. CASE CloseTab(tab)
    <2>1. gui'.at # "dialog"
      BY <1>3, GuiFields DEF CloseTab, BeginStop
    <2>2. QED
      BY <1>0, <1>3, <2>1, AskingKept DEF CloseTab
  <1>4. QED
    BY <1>1, <1>2, <1>3

-----------------------------------------------------------------------------
LEMMA InitInv == Init => Inv
  <1> SUFFICES ASSUME Init
               PROVE  Inv
    OBVIOUS
  <1>1. gui.at = "free"
    BY GuiFields DEF Init
  <1>2. Types
    <2>1. gui \in GuiTypes
      BY GuiTyped DEF Init
    <2>2. /\ opens \in [Tabs -> Nat] /\ \A t \in Tabs : opens[t] \in 0..MaxOpens[t]
          /\ starts \in [Tabs -> 0..MaxStarts]
      BY ThreadsAssumption DEF Init
    <2>3. QED
      BY <2>1, <2>2 DEF Init, Types, TypeOK, EndedIsTornDown, GuiTypes, Phases, Questions
  <1>3. Lifetimes
    BY <1>1, WorkerNames, GuiFields
       DEF Init, Lifetimes, ShutdownIsLast, JoinedIsDone, EndedIsIdle, ShellEndsFirst
  <1>4. Asking
    BY <1>1, WorkerNames, GuiFields
       DEF Init, Asking, OwnerAsks, QuestionIsSomewhere, TellsAnAnswer, ShownIsSettled
  <1>5. QED
    BY <1>2, <1>3, <1>4 DEF Inv

LEMMA StepInv ==
  ASSUME Inv, [Next]_vars
  PROVE  Inv'
  <1>0. Types /\ Lifetimes /\ Asking
    BY DEF Inv
  <1>1. CASE GuiStep
    BY <1>0, <1>1, GuiStepTypes, GuiLifetimes, GuiAsking DEF Inv
  <1>2. CASE UserStep
    BY <1>0, <1>2, UserTypes, UserLifetimes, UserAsking DEF Inv, UserStep
  <1>3. CASE \E w \in Workers : WorkerStep(w)
    BY <1>0, <1>3, WorkerTypes, WorkerLifetimes, WorkerAsking DEF Inv
  <1>4. CASE UNCHANGED vars
    <2>1. Types' /\ Lifetimes'
      BY <1>0, <1>4
         DEF vars, Types, TypeOK, EndedIsTornDown, Lifetimes, ShutdownIsLast, JoinedIsDone,
             EndedIsIdle, ShellEndsFirst
    <2>2. Asking'
      BY <1>0, <1>4, AskingKept DEF vars
    <2>3. QED
      BY <2>1, <2>2 DEF Inv
  <1>5. QED
    BY <1>1, <1>2, <1>3, <1>4 DEF Next

(***************************************************************************)
(* The types, the order in which the threads end, and where a question to  *)
(* the user is, hold in every reachable state.                             *)
(***************************************************************************)
THEOREM Invariance == Spec => []Inv
  BY InitInv, StepInv, PTL DEF Spec

(***************************************************************************)
(* Every variable keeps its type and a thread that has ended holds no      *)
(* connection: the shutdown is the last call its event loop runs, so       *)
(* nothing can open the connection again behind it                         *)
(* (RemoteFileService.cpp:73).                                             *)
(***************************************************************************)
THEOREM TypeCorrect == Spec => []TypeOK
  <1>1. Inv => TypeOK
    BY DEF Inv, Types
  <1>2. QED
    BY <1>1, Invariance, PTL

(***************************************************************************)
(* Of any number of sessions that connect at the same time, one asks at a  *)
(* time, its question is never lost between the threads, and no question   *)
(* about a host is put to the user twice (SessionInteraction.cpp:27, 52).  *)
(***************************************************************************)
THEOREM AskedOnceCorrect == Spec => []AskedOnce
  <1>1. Inv => AskedOnce
    BY DEF Inv, Types, Asking, OwnerAsks, QuestionIsSomewhere, ShownIsSettled, AskedOnce,
           OneQuestionAtATime
  <1>2. QED
    BY <1>1, Invariance, PTL

=============================================================================
