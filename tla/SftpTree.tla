------------------------------ MODULE SftpTree ------------------------------
(***************************************************************************)
(* What ssh::SftpSession does to files: the walks of removeEntry(),        *)
(* download() and upload() over directory trees with symbolic links, and   *)
(* the copy loops of SFTP and of ssh::scp.  SftpSession.tla is the pipe    *)
(* that this worker serves; ServesAsPipe says that it serves it so.        *)
(*                                                                         *)
(* A tree is constant, the same one on the local and on the remote side,   *)
(* except for what the worker removes from the remote one (`gone').  A     *)
(* path is the sequence of names from the entry that was asked for; as     *)
(* links lead into the tree again, one node has many paths.  The           *)
(* recursions of the code end at the first failure, so a list of what is   *)
(* still to be entered (`todo') stands for their stack.                    *)
(***************************************************************************)
EXTENDS Naturals, FiniteSets, SequencesExt

CONSTANTS
  Files, Dirs, Links,   \* the nodes of the tree
  Nowhere,              \* no node
  Entries,              \* what a directory holds, in the order of names
  Target,               \* where a link leads; to Nowhere when it dangles
  Size,                 \* the size of each node itself; of a file, in chunks
  MaxLinks,             \* a path through more links is refused (ELOOP)
  Wishes,               \* what the user may ask for: a kind and an entry
  MaxRequests,          \* how often
  MaxBytes              \* no copy is larger

Nodes == Files \cup Dirs \cup Links

Kinds == {"remove", "download", "upload"}

ASSUME TreeAssumption ==
  /\ Files \cap Dirs = {} /\ Links \cap (Files \cup Dirs) = {}
  /\ IsFiniteSet(Nodes)
  /\ Entries \in [Dirs -> Seq(Nodes)]
  /\ Target \in [Links -> Files \cup Dirs \cup {Nowhere}]
  /\ Size \in [Nodes -> Nat]
  /\ Nowhere \notin Nodes
  /\ MaxLinks \in Nat \ {0, 1}
  /\ Wishes \subseteq Kinds \X Nodes
  /\ MaxRequests \in Nat /\ MaxBytes \in Nat

VARIABLES
  backend,         \* SftpSession::m_backend, set before the first request
  nextRequestId,   \* RemoteFileService::m_nextRequestId
  calls,           \* requests posted to the worker, oldest first
  job,             \* the request being served
  cancelRequests,  \* SftpSession::m_cancelRequests
  signals,         \* signals posted to the GUI thread, oldest first
  awaited,         \* requests whose answer the GUI thread has not handled
  closing,         \* how far the tab is: "open", "stopping", "stopped"
  gone,            \* nodes removed from the remote side
  copied,          \* copies made: what by and where -> chunks in it, 0 for a directory
  excused          \* copies reported or left although they may be short (history)

vars == <<backend, nextRequestId, calls, job, cancelRequests, signals,
          awaited, closing, gone, copied, excused>>

guiVars == <<nextRequestId, awaited, closing>>

treeVars == <<gone, copied, excused>>

-----------------------------------------------------------------------------
(* Where a name leads when links are followed. *)
Resolved(name) == IF name \in Links THEN Target[name] ELSE name

(* The node a path leads to, if all of the way is there; its links count. *)
Stat(side, path) ==
  LET node  == Resolved(Last(path))
      links == {i \in DOMAIN path : path[i] \in Links}
  IN  IF \/ Cardinality(links) > MaxLinks
         \/ side = "remote" /\ (ToSet(path) \cup {node}) \cap gone # {}
      THEN Nowhere
      ELSE node

(* The members of a sequence that are in a set, in their order. *)
Among(s, set) ==
  LET kept[i \in 0..Len(s)] ==
        IF i = 0 THEN <<>>
        ELSE IF s[i] \in set THEN Append(kept[i - 1], s[i]) ELSE kept[i - 1]
  IN  kept[Len(s)]

(***************************************************************************)
(* The entries of a directory as paths.  A remote listing has directories  *)
(* first, also linked ones, and links that lead nowhere; a local one       *)
(* leaves those out (QDir without System).                                 *)
(***************************************************************************)
Listing(side, path) ==
  LET node  == Stat(side, path)
      paths == [i \in DOMAIN Entries[node] |-> Append(path, Entries[node][i])]
      here  == {p \in ToSet(paths) : Last(p) \notin gone}
      dirs  == {p \in here : Stat(side, p) \in Dirs}
  IN  IF side = "local"
      THEN Among(paths, {p \in ToSet(paths) : Stat("local", p) # Nowhere})
      ELSE Among(paths, dirs) \o Among(paths, here \ dirs)

(* What lies in a node when no link is followed: no set that is closed under *)
(* the entries of its directories and has the node is without it.            *)
Closed == {S \in SUBSET Nodes : \A d \in S \cap Dirs : ToSet(Entries[d]) \subseteq S}

Inside == [node \in Nodes |-> {n \in Nodes : \A S \in Closed : node \in S => n \in S}]

(* A name is an entry of one directory and once, and no directory lies in an *)
(* entry of its own: only links lead to a place in more than one way.        *)
ASSUME ForestAssumption ==
  /\ \A d, e \in Dirs : \A i \in DOMAIN Entries[d], j \in DOMAIN Entries[e] :
       Entries[d][i] = Entries[e][j] => d = e /\ i = j
  /\ \A d \in Dirs : \A n \in ToSet(Entries[d]) : d \notin Inside[n]

(* The sum of the sizes of all that is in a table. *)
TotalOf(sizes) == MapThenSumSet(LAMBDA x : sizes[x], DOMAIN sizes)

(***************************************************************************)
(* remoteTreeSize() and localTreeSize() follow the first link, none that   *)
(* they meet.  A linked file counts as the file.  Of a linked directory,   *)
(* or a dangling link, the remote walk counts what stat or readdir says    *)
(* of the entry itself, the local one nothing.                             *)
(***************************************************************************)
Weight(side, name) ==
  LET node == Stat(side, <<name>>)
  IN  IF node \in Files THEN Size[node]
      ELSE IF side = "local" THEN 0
      ELSE IF node \in Dirs THEN Size[node] ELSE Size[name]

TreeSize(side, top) ==
  LET all == Inside[Stat(side, <<top>>)] \ Dirs
      met == IF side = "remote" THEN all \ gone ELSE all
  IN  TotalOf([n \in met |-> Weight(side, n)])

(* The side a request reads or removes from. *)
Side(kind) == IF kind = "upload" THEN "local" ELSE "remote"

NoFile == [path |-> <<>>, point |-> "none"]

NoJob ==
  [kind |-> "none", id |-> 0, top |-> Nowhere, phase |-> "idle", todo |-> <<>>,
   file |-> NoFile, moved |-> 0, total |-> 0, ticked |-> FALSE,
   opened |-> {}, late |-> 0]

Began(call, phase, todo) ==
  [kind |-> call.kind, id |-> call.id, top |-> call.top, phase |-> phase, todo |-> todo,
   file |-> NoFile, moved |-> 0, total |-> 0, ticked |-> FALSE,
   opened |-> {}, late |-> 0]

Task(op, path) == [op |-> op, path |-> path]

TaskSet == [op : {"enter", "unlink", "rmdir"}, path : Seq(Nodes) \ {<<>>}]

-----------------------------------------------------------------------------
(***************************************************************************)
(* The state of SftpSession.tla: a removal counts as waiting until it is   *)
(* answered, and a transfer is closing when nothing is left to copy.       *)
(***************************************************************************)
NothingLeft == job.phase = "copying" /\ job.todo = <<>> /\ job.file = NoFile

PipeCall(call) == [kind |-> IF call.kind = "remove" THEN "mutate" ELSE "transfer",
                   id |-> call.id]

PipeCalls ==
  LET requests == IF calls # <<>> /\ Last(calls).kind = "shutdown" THEN Front(calls) ELSE calls
      waiting  == [i \in DOMAIN requests |-> PipeCall(requests[i])]
  IN  IF job.phase = "removing" THEN <<PipeCall(job)>> \o waiting ELSE waiting

PipePhase ==
  CASE job.phase \in {"idle", "removing"} -> "idle"
    [] job.phase = "sizing"               -> "sizing"
    [] NothingLeft                        -> "closing"
    [] OTHER                              -> "moving"

PipeWorker ==
  [phase |-> PipePhase, id |-> IF PipePhase = "idle" THEN 0 ELSE job.id,
   moved |-> job.moved, total |-> job.total]

Pipe == INSTANCE SftpSession WITH
          calls <- PipeCalls, worker <- PipeWorker, Filled <- 1..MaxRequests

-----------------------------------------------------------------------------
Init ==
  /\ backend \in {"Sftp", "Scp"}
  /\ nextRequestId = 1
  /\ calls = <<>>
  /\ job = NoJob
  /\ cancelRequests = {}
  /\ signals = <<>>
  /\ awaited = {}
  /\ closing = "open"
  /\ gone = {}
  /\ copied = <<>>
  /\ excused = {}

(* RemoteFileService: requests are posted, cancellations are not. *)
Post ==
  /\ closing = "open"
  /\ nextRequestId <= MaxRequests
  /\ \E wish \in Wishes :
       LET call == [kind |-> wish[1], id |-> nextRequestId, top |-> wish[2]]
       IN  /\ calls' = Append(calls, call)
           /\ awaited' = awaited \cup {call}
  /\ nextRequestId' = nextRequestId + 1
  /\ UNCHANGED <<backend, closing, job, cancelRequests, signals, treeVars>>

(* Only transfers are cancelled, by the queue, until it has their answer. *)
RequestCancel ==
  /\ closing = "open"
  /\ \E call \in awaited :
       /\ call.kind # "remove"
       /\ call.id \notin cancelRequests
       /\ cancelRequests' = cancelRequests \cup {call.id}
  /\ UNCHANGED <<backend, guiVars, calls, job, signals, treeVars>>

AnswerKinds == {"operationFinished", "operationFailed", "operationCancelled",
                "transferFinished"}

Deliver ==
  /\ closing # "stopping"
  /\ signals # <<>>
  /\ signals' = Tail(signals)
  /\ awaited' = IF Head(signals).kind \in AnswerKinds
                THEN {call \in awaited : call.id # Head(signals).id}
                ELSE awaited
  /\ UNCHANGED <<backend, nextRequestId, closing, calls, job, cancelRequests, treeVars>>

(***************************************************************************)
(* stop() posts the shutdown behind the requests and blocks the GUI thread *)
(* until the worker has run it.  As a bound, it takes the place of the     *)
(* last request.                                                           *)
(***************************************************************************)
BeginStop ==
  /\ closing = "open"
  /\ nextRequestId <= MaxRequests
  /\ closing' = "stopping"
  /\ calls' = Append(calls, [kind |-> "shutdown", id |-> nextRequestId, top |-> Nowhere])
  /\ UNCHANGED <<backend, nextRequestId, awaited, job, cancelRequests, signals, treeVars>>

-----------------------------------------------------------------------------
(* Every way out of a request: its cancellation is forgotten, it is answered. *)
End(answers) ==
  /\ job' = NoJob
  /\ cancelRequests' = cancelRequests \ {job.id}
  /\ signals' = signals \o answers
  /\ UNCHANGED <<backend, guiVars, calls>>

Fail == End(<<Pipe!Answer("operationFailed", job.id)>>)

Takes(kinds) ==
  /\ job = NoJob
  /\ calls # <<>>
  /\ Head(calls).kind \in kinds
  /\ calls' = Tail(calls)

(* The worker lets go of its connection, and its thread ends. *)
Shutdown ==
  /\ Takes({"shutdown"})
  /\ closing' = "stopped"
  /\ UNCHANGED <<backend, nextRequestId, awaited, job, cancelRequests, signals, treeVars>>

(***************************************************************************)
(* removeEntry() asks stat, which follows a link: one to a directory is    *)
(* taken for the directory.  (removeTree() polls the cancellations as      *)
(* well; nothing in the program cancels a removal.)                        *)
(***************************************************************************)
TakeRemoval ==
  LET path == <<Head(calls).top>>
      node == Stat("remote", path)
  IN  /\ Takes({"remove"})
      /\ node # Nowhere
      /\ job' = Began(Head(calls), "removing",
                      <<Task(IF node \in Dirs THEN "enter" ELSE "unlink", path)>>)
      /\ UNCHANGED <<backend, guiVars, cancelRequests, signals, treeVars>>

RefuseRemoval ==
  /\ Takes({"remove"})
  /\ signals' = Append(signals, Pipe!Answer("operationFailed", Head(calls).id))
  /\ UNCHANGED <<backend, guiVars, job, cancelRequests, treeVars>>

Removing(op) == job.phase = "removing" /\ job.todo # <<>> /\ Head(job.todo).op = op

(* Variant of EnterRemoved: links are resolved here as the listing has them. *)
EnterRemovedLinks ==
  /\ Removing("enter")
  /\ Stat("remote", Head(job.todo).path) \in Dirs
  /\ LET path    == Head(job.todo).path
         entries == Listing("remote", path)
         tasks   == [i \in DOMAIN entries |->
                       Task(IF Stat("remote", entries[i]) \in Dirs THEN "enter" ELSE "unlink",
                            entries[i])]
     IN  job' = [job EXCEPT !.todo = tasks \o <<Task("rmdir", path)>> \o Tail(@)]
  /\ UNCHANGED <<backend, guiVars, calls, cancelRequests, signals, treeVars>>

(* removeTree() reads a directory; links in it are entries, not directories. *)
EnterRemoved ==
  /\ Removing("enter")
  /\ Stat("remote", Head(job.todo).path) \in Dirs
  /\ LET path    == Head(job.todo).path
         entries == Listing("remote", path)
         tasks   == [i \in DOMAIN entries |->
                       Task(IF Last(entries[i]) \in Dirs THEN "enter" ELSE "unlink",
                            entries[i])]
     IN  job' = [job EXCEPT !.todo = tasks \o <<Task("rmdir", path)>> \o Tail(@)]
  /\ UNCHANGED <<backend, guiVars, calls, cancelRequests, signals, treeVars>>

(* The server removes what is there: a directory only when it is empty, and *)
(* no link as a directory.                                                  *)
Removable(task) ==
  LET name == Last(task.path)
  IN  /\ name \notin gone
      /\ task.op = "rmdir" => name \in Dirs /\ ToSet(Entries[name]) \subseteq gone

RemoveOne ==
  /\ Removing("unlink") \/ Removing("rmdir")
  /\ Removable(Head(job.todo))
  /\ gone' = gone \cup {Last(Head(job.todo).path)}
  /\ job' = [job EXCEPT !.todo = Tail(@)]
  /\ UNCHANGED <<backend, guiVars, calls, cancelRequests, signals, copied, excused>>

RemovalFails ==
  /\ job.phase = "removing" /\ job.todo # <<>>
  /\ Fail
  /\ UNCHANGED treeVars

RemovalDone ==
  /\ job.phase = "removing" /\ job.todo = <<>>
  /\ End(<<Pipe!Answer("operationFinished", job.id)>>)
  /\ UNCHANGED treeVars

-----------------------------------------------------------------------------
TakeTransfer ==
  /\ Takes({"download", "upload"})
  /\ job' = Began(Head(calls), "sizing", <<>>)
  /\ UNCHANGED <<backend, guiVars, cancelRequests, signals, treeVars>>

Top == <<job.top>>

(* A local tree is measured without failure, if it exists. *)
SizingFails ==
  /\ job.phase = "sizing"
  /\ job.kind = "upload" => Stat("local", Top) = Nowhere
  /\ Fail
  /\ UNCHANGED treeVars

StartCopying ==
  /\ job.phase = "sizing"
  /\ Stat(Side(job.kind), Top) # Nowhere
  /\ LET total == TreeSize(Side(job.kind), job.top)
     IN  /\ job' = [job EXCEPT !.phase = "copying", !.todo = <<Top>>, !.total = total]
         /\ signals' = Append(signals, Pipe!Signal("transferStarted", job.id, 0, total))
  /\ UNCHANGED <<backend, guiVars, calls, cancelRequests, treeVars>>

Cancelled == job.id \in cancelRequests

Copy(path) == <<job.kind, path>>

Source(path) == Stat(Side(job.kind), path)

AtEntry == job.phase = "copying" /\ job.file = NoFile /\ job.todo # <<>>

(* A chunk or the end is read next; the cancellations are looked at next. *)
AtRead  == job.file.point = "read"
AtCheck == job.file.point = "check"

(* Variant of Discarded: a partial file stays. *)
DiscardedNever == copied

(* A download that breaks off removes its file; an upload leaves what it sent. *)
Discarded ==
  IF job.kind = "download"
  THEN Restrict(copied, DOMAIN copied \ {Copy(job.file.path)})
  ELSE copied

(* Variant of NoticeCancel: nothing is answered. *)
NoticeCancelSilently ==
  /\ Cancelled
  /\ \/ AtEntry /\ UNCHANGED copied
     \/ AtCheck /\ copied' = Discarded
  /\ End(<<>>)
  /\ UNCHANGED <<gone, excused>>

NoticeCancel ==
  /\ Cancelled
  /\ \/ AtEntry /\ UNCHANGED copied
     \/ AtCheck /\ copied' = Discarded
  /\ End(<<Pipe!Answer("operationCancelled", job.id)>>)
  /\ UNCHANGED <<gone, excused>>

(* A directory that is made, a file that is opened and truncated. *)
WithEmpty(path) ==
  [copy \in DOMAIN copied \cup {Copy(path)} |-> IF copy = Copy(path) THEN 0 ELSE copied[copy]]

(* mkpath or mkdir, then the entries, each to be entered like this one. *)
EnterDirectory ==
  LET path == Head(job.todo)
  IN  /\ AtEntry /\ ~Cancelled
      /\ Source(path) \in Dirs
      /\ copied' = WithEmpty(path)
      /\ job' = [job EXCEPT !.todo = Listing(Side(job.kind), path) \o Tail(@)]
      /\ UNCHANGED <<backend, guiVars, calls, cancelRequests, signals, gone, excused>>

(* Both ends are opened, and what was there before is truncated. *)
OpenFile ==
  LET path  == Head(job.todo)
      point == IF backend = "Sftp" THEN "check" ELSE "read"
  IN  /\ AtEntry /\ ~Cancelled
      /\ Source(path) \in Files
      /\ copied' = WithEmpty(path)
      /\ excused' = excused \ {Copy(path)}
      /\ job' = [job EXCEPT !.todo = Tail(@), !.opened = @ \cup {path},
                            !.file = [path |-> path, point |-> point]]
      /\ UNCHANGED <<backend, guiVars, calls, cancelRequests, signals, gone>>

(***************************************************************************)
(* stat, mkdir or an opening fails; or, with the directory made, reading   *)
(* its entries.  A remote link that leads nowhere always ends here.        *)
(***************************************************************************)
EntryFails ==
  LET path == Head(job.todo)
  IN  /\ AtEntry /\ ~Cancelled
      /\ \/ UNCHANGED copied
         \/ Source(path) \in Dirs /\ copied' = WithEmpty(path)
      /\ Fail
      /\ UNCHANGED <<gone, excused>>

(* Variant of CheckFile: passed whatever was asked. *)
CheckFileNever ==
  /\ AtCheck
  /\ job' = [job EXCEPT !.file.point = "read"]
  /\ UNCHANGED <<backend, guiVars, calls, cancelRequests, signals, treeVars>>

CheckFile ==
  /\ AtCheck /\ ~Cancelled
  /\ job' = [job EXCEPT !.file.point = "read"]
  /\ UNCHANGED <<backend, guiVars, calls, cancelRequests, signals, treeVars>>

Chunks == copied[Copy(job.file.path)]

AtEnd == Chunks = Size[Source(job.file.path)]

(***************************************************************************)
(* One round of a copy loop.  publishProgress() drops what follows the     *)
(* last update too closely, but neither the first nor one that reaches     *)
(* the total.                                                              *)
(***************************************************************************)
ReadChunk ==
  LET moved == job.moved + 1
  IN  /\ AtRead /\ ~AtEnd
      /\ copied' = [copied EXCEPT ![Copy(job.file.path)] = @ + 1]
      /\ \E published \in BOOLEAN :
           /\ ~published => job.ticked /\ moved < job.total
           /\ job' = [job EXCEPT !.moved = moved, !.file.point = "check",
                                 !.ticked = @ \/ published,
                                 !.late = IF Cancelled THEN @ + 1 ELSE @]
           /\ signals' = IF published
                         THEN Append(signals, Pipe!Signal("transferProgress", job.id,
                                                          moved, job.total))
                         ELSE signals
      /\ UNCHANGED <<backend, guiVars, calls, cancelRequests, gone, excused>>

(* A read or a write fails; after its last chunk SCP reads no more. *)
ReadFails ==
  /\ AtRead
  /\ AtEnd => backend = "Sftp"
  /\ copied' = Discarded
  /\ Fail
  /\ UNCHANGED <<gone, excused>>

(* Variant of EndFile: each file counts its own bytes. *)
EndFileAnew ==
  /\ AtRead /\ AtEnd
  /\ job' = [job EXCEPT !.file = NoFile, !.moved = 0]
  /\ UNCHANGED <<backend, guiVars, calls, cancelRequests, signals, treeVars>>

EndFile ==
  /\ AtRead /\ AtEnd
  /\ job' = [job EXCEPT !.file = NoFile]
  /\ UNCHANGED <<backend, guiVars, calls, cancelRequests, signals, treeVars>>

(* SCP takes the end of its channel, or of a file that has shrunk, for the end. *)
EndFileEarly ==
  /\ backend = "Scp"
  /\ AtRead /\ ~AtEnd
  /\ job' = [job EXCEPT !.file = NoFile]
  /\ excused' = excused \cup {Copy(job.file.path)}
  /\ UNCHANGED <<backend, guiVars, calls, cancelRequests, signals, gone, copied>>

(* A download's flush fails: an error, but the file stays, with what got there. *)
FlushFails ==
  /\ job.kind = "download"
  /\ AtRead
  /\ AtEnd \/ backend = "Scp"
  /\ \E flushed \in 0..Chunks : copied' = [copied EXCEPT ![Copy(job.file.path)] = flushed]
  /\ excused' = excused \cup {Copy(job.file.path)}
  /\ Fail
  /\ UNCHANGED gone

Finish ==
  /\ NothingLeft
  /\ End(<<Pipe!Signal("transferProgress", job.id, job.total, job.total),
           Pipe!Answer("transferFinished", job.id)>>)
  /\ UNCHANGED treeVars

WorkerStep ==
  \/ TakeRemoval \/ RefuseRemoval \/ EnterRemoved \/ RemoveOne
  \/ RemovalFails \/ RemovalDone
  \/ TakeTransfer \/ SizingFails \/ StartCopying
  \/ NoticeCancel \/ EnterDirectory \/ OpenFile \/ EntryFails
  \/ CheckFile \/ ReadChunk \/ ReadFails
  \/ EndFile \/ EndFileEarly \/ FlushFails \/ Finish
  \/ Shutdown

GuiStep == Post \/ RequestCancel \/ Deliver \/ BeginStop

Next == WorkerStep \/ GuiStep

Spec == Init /\ [][Next]_vars

(* The worker goes on, and so does the event loop of the GUI thread. *)
Fairness == WF_vars(WorkerStep) /\ WF_vars(Deliver)

FairSpec == Spec /\ Fairness

-----------------------------------------------------------------------------
(***************************************************************************)
(* A thread never ends inside a request, nor with one unserved that was    *)
(* posted before: each has its answer, handled or on its way ("torn down   *)
(* before the event loop quits", RemoteFileService.cpp:73).                *)
(***************************************************************************)
EndedIsAnswered ==
  closing = "stopped" =>
    /\ job = NoJob /\ calls = <<>>
    /\ \A call \in awaited :
         \E i \in DOMAIN signals : signals[i].id = call.id /\ signals[i].kind \in AnswerKinds

(***************************************************************************)
(* "A running transfer notices at the next chunk boundary"                 *)
(* (SftpSession.hpp:40): at most one chunk is moved after the cancellation,*)
(* whichever loop copies it and wherever in the tree it comes.             *)
(***************************************************************************)
CancelNoticed == job.late <= 1

JobSet(kinds, phases, tops, items) ==
  [kind : kinds, id : Nat, top : tops, phase : phases, todo : Seq(items),
   file : [path : Seq(Nodes), point : {"none", "read", "check"}],
   moved : Nat, total : Nat, ticked : BOOLEAN, opened : SUBSET Seq(Nodes), late : Nat]

RequestSet(kinds, tops) == [kind : kinds, id : Nat \ {0}, top : tops]

JobTypeOK ==
  /\ CASE job.phase = "idle"     -> job = NoJob
       [] job.phase = "removing" -> job \in JobSet({"remove"}, {"removing"}, Nodes, TaskSet)
       [] OTHER                  -> job \in JobSet({"download", "upload"}, {"sizing", "copying"},
                                                   Nodes, Seq(Nodes))
  /\ job.phase # "copying" => job.file = NoFile

QueueTypeOK ==
  /\ backend \in {"Sftp", "Scp"}
  /\ nextRequestId \in Nat \ {0}
  /\ calls \in Seq(RequestSet(Kinds, Nodes) \cup RequestSet({"shutdown"}, {Nowhere}))
  /\ cancelRequests \subseteq Nat
  /\ signals \in Seq(Pipe!SignalSet)
  /\ awaited \subseteq RequestSet(Kinds, Nodes)
  /\ closing \in {"open", "stopping", "stopped"}

\* No copy is larger than what it is a copy of.
CopiesTypeOK ==
  /\ gone \subseteq Nodes
  /\ DOMAIN copied \subseteq {"download", "upload"} \X Seq(Nodes)
  /\ \A copy \in DOMAIN copied : copied[copy] \in 0..Size[Resolved(Last(copy[2]))]
  /\ excused \subseteq DOMAIN copied
  /\ job.file # NoFile => Copy(job.file.path) \in DOMAIN copied

TypeOK == QueueTypeOK /\ JobTypeOK /\ CopiesTypeOK /\ EndedIsAnswered /\ CancelNoticed

(***************************************************************************)
(* A walk ends although links lead back into the tree: nobody waits for    *)
(* ever, neither for an answer nor, in stop(), for the walk to be over     *)
(* (SftpSession.cpp:516).  One formula for all requests, as only so many   *)
(* are posted.                                                             *)
(***************************************************************************)
WalksEnd ==
  awaited # {} \/ closing = "stopping"
    ~> closing = "stopped" \/ (closing = "open" /\ awaited = {})

(***************************************************************************)
(* Whatever the trees and the failures, the worker is the one of           *)
(* SftpSession.tla: one request at a time, in order, each answered once,   *)
(* a removal at its end, progress only between the start of a transfer and *)
(* its answer; and it comes to the answer (SftpSession.cpp:352, 488, 615). *)
(***************************************************************************)
ServesAsPipe ==
  Pipe!PipeInit /\ [][Pipe!WorkerStep \/ GuiStep]_(Pipe!pipeVars) /\ WalksEnd

(***************************************************************************)
(* When a transfer is about to be reported as finished, each entry of the  *)
(* tree has been copied, through links too, and each file whole; and at no *)
(* time is there part of a file on the local side but of the one that is   *)
(* being written.  Excepted are the files SCP ended early and those whose  *)
(* flush failed (SftpSession.cpp:516, 644, ScpTransfer.cpp:68).            *)
(***************************************************************************)
Whole(kind, path) ==
  LET node == Resolved(Last(path))
  IN  \/ node \in Dirs
      \/ <<kind, path>> \in excused
      \/ copied[<<kind, path>>] = Size[node]

CopiesAreWhole ==
  /\ \A copy \in DOMAIN copied :
       copy[1] = "download" /\ copy # Copy(job.file.path) => Whole(copy[1], copy[2])
  /\ NothingLeft =>
       \A path \in {Top} \cup {copy[2] : copy \in DOMAIN copied} :
         Head(path) = job.top /\ Source(path) # Nowhere =>
           /\ Copy(path) \in DOMAIN copied
           /\ Whole(job.kind, path)
           /\ Source(path) \in Dirs =>
                \A entry \in ToSet(Entries[Source(path)]) :
                  LET sub == Append(path, entry)
                  IN  Source(sub) # Nowhere => Copy(sub) \in DOMAIN copied

(***************************************************************************)
(* What is announced as moved is what lies at the other end, across all    *)
(* files of a tree.  It never exceeds the announced total, and reaches it, *)
(* unless the tree holds a link to a directory, which is copied but was    *)
(* not measured, or SCP ended a file early (SftpSession.cpp:445, 603).     *)
(***************************************************************************)
LinkedDirectory ==
  \E name \in Inside[Source(Top)] \cap Links : Source(<<name>>) \in Dirs

ProgressIsTrue ==
  job.phase = "copying" =>
    /\ job.moved = TotalOf([path \in job.opened |-> copied[Copy(path)]])
    /\ ~LinkedDirectory =>
         /\ job.moved <= job.total
         /\ NothingLeft /\ {Copy(path) : path \in job.opened} \cap excused = {} =>
              job.moved = job.total

(***************************************************************************)
(* A removal takes what lies in the entry without following a link, and    *)
(* reports success only when all of it is gone.  Excepted is an entry that *)
(* is itself a link to a directory: then the contents of that directory    *)
(* are taken, and the link stays (SftpSession.cpp:361).                    *)
(***************************************************************************)
Doomed(name) ==
  IF name \in Links /\ Target[name] \in Dirs THEN Inside[Target[name]] ELSE Inside[name]

RemovesOnlyInside ==
  [][/\ gone' # gone => job.kind = "remove" /\ gone' \ gone \subseteq Doomed(job.top)
     /\ Pipe!Answer("operationFinished", job.id) \in ToSet(signals') \ ToSet(signals)
          => Inside[job.top] \subseteq gone]_vars

=============================================================================
