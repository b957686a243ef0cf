----------------------------- MODULE RemotePane -----------------------------
(***************************************************************************)
(* The remote half of the file browser: files::RemoteFileModel, which      *)
(* shows one directory and asks for others through the request pipe of     *)
(* SftpSession, and files::FilePane, which keeps the history of what was   *)
(* shown.                                                                  *)
(*                                                                         *)
(* A directory is asked for with a numbered request; the model remembers   *)
(* the number of the last one (m_pendingListingId) and takes no other      *)
(* answer.  What asks is not only the user: the start of the session asks  *)
(* for the home directory, and a mutation or an upload that has landed     *)
(* asks for the present directory again.                                   *)
(*                                                                         *)
(* FilePane::m_navigatingHistory is set and reset around a call that only  *)
(* posts a request, so no listing ever arrives while it is set: it has no  *)
(* part in the remote pane.                                                *)
(***************************************************************************)
EXTENDS SftpSession

CONSTANTS
  Dirs,         \* remote directories
  RootDir,      \* "/"
  HomeDir,      \* SftpSession::m_homeDirectory
  Nowhere,      \* an empty path
  MaxRequests,  \* bound: the user asks for nothing after this many requests
  MaxStarts     \* bound: starts of the session

ASSUME PaneAssumption ==
  /\ RootDir \in Dirs /\ HomeDir \in Dirs /\ Nowhere \notin Dirs
  /\ MaxRequests \in Nat /\ MaxStarts \in Nat

VARIABLES
  connected,  \* RemoteFileModel::m_connected, and the service's m_connected
  starts,     \* starts posted
  listed,     \* the directory each request is for, by its id
  path,       \* RemoteFileModel::m_path
  shown,      \* the directory m_allEntries lists
  pending,    \* RemoteFileModel::m_pendingListingId
  loading,    \* FileListModel::m_loading
  history,    \* FilePane::m_history
  at,         \* FilePane::m_historyIndex, plus one
  buttons,    \* the enabled ones of Back and Forward
  wanted      \* history: the directory the user last asked to see

modelVars == <<connected, starts, listed, path, shown, pending, loading>>

viewVars == <<history, at, buttons, wanted>>

vars == <<pipeVars, modelVars, viewVars>>

Places == Dirs \cup {Nowhere}

(***************************************************************************)
(* Back and Forward, whose listings arrive after m_navigatingHistory has   *)
(* been reset (FilePane.cpp:485-487), do not enter what they show into the *)
(* history again: two neighbours are never the same directory.             *)
(***************************************************************************)
NeighboursDiffer == \A i \in 1..(Len(history) - 1) : history[i] # history[i + 1]

(* Types, and what every history looks like. *)
TypeOK ==
  /\ nextRequestId = Len(listed) + 1
  /\ listed \in Seq(Places)
  /\ connected \in BOOLEAN
  /\ starts \in 0..MaxStarts
  /\ path \in Places
  /\ shown \in {path, Nowhere}
  /\ pending \in 0..Len(listed)
  /\ loading \in BOOLEAN
  /\ history \in Seq(Places)
  /\ NeighboursDiffer
  /\ at \in DOMAIN history
  /\ buttons \subseteq {"back", "forward"}
  /\ wanted \in Places

Init ==
  /\ PipeInit
  /\ connected = FALSE
  /\ starts = 0
  /\ listed = <<>>
  /\ path = Nowhere
  /\ shown = Nowhere
  /\ pending = 0
  /\ loading = FALSE
  /\ history = <<Nowhere>>   \* setModel() enters the path of a model that has none yet
  /\ at = 1
  /\ buttons = {}
  /\ wanted = Nowhere

-----------------------------------------------------------------------------
(* A request is numbered and posted. *)
Post(kind, dir) ==
  /\ calls' = Append(calls, Call(kind, nextRequestId))
  /\ nextRequestId' = nextRequestId + 1
  /\ listed' = Append(listed, dir)

(* setCurrentPath() and refresh() of a model that is connected *)
AskFor(dir) ==
  /\ Post("list", dir)
  /\ pending' = nextRequestId
  /\ loading' = TRUE

(* setCurrentPath() takes an empty path for the root. *)
Destination(dir) == IF dir = Nowhere THEN RootDir ELSE dir

CanRefresh == connected /\ path # Nowhere

(* The bound on what the user asks for. *)
MayAsk == nextRequestId <= MaxRequests

(* The path field, a double click and Up. *)
Navigate(dir) ==
  /\ connected
  /\ MayAsk
  /\ AskFor(dir)
  /\ wanted' = dir
  /\ UNCHANGED <<worker, cancelRequests, signals, connected, starts, path, shown, history,
                 at, buttons>>

(***************************************************************************)
(* Back and Forward move in the history at once, whether or not the model  *)
(* is connected and whatever will come of the listing.  Their buttons      *)
(* stay as they are until a new directory is shown.                        *)
(***************************************************************************)
MoveInHistory(to) ==
  /\ at' = to
  /\ \/ /\ connected
        /\ MayAsk
        /\ AskFor(Destination(history[to]))
        /\ wanted' = Destination(history[to])
     \/ /\ ~connected
        /\ UNCHANGED <<calls, nextRequestId, listed, pending, loading, wanted>>
  /\ UNCHANGED <<worker, cancelRequests, signals, connected, starts, path, shown, history,
                 buttons>>

Back == "back" \in buttons /\ at > 1 /\ MoveInHistory(at - 1)

Forward == "forward" \in buttons /\ at < Len(history) /\ MoveInHistory(at + 1)

Refresh ==
  /\ CanRefresh
  /\ MayAsk
  /\ AskFor(path)
  /\ wanted' = path
  /\ UNCHANGED <<worker, cancelRequests, signals, connected, starts, path, shown, history,
                 at, buttons>>

(* New folder, rename, remove and moving by drag and drop. *)
Mutate ==
  /\ connected
  /\ MayAsk
  /\ Post("mutate", Nowhere)
  /\ UNCHANGED <<worker, cancelRequests, signals, connected, starts, path, shown, pending,
                 loading, viewVars>>

(* The transfer queue reports a finished upload. *)
UploadLanded ==
  /\ CanRefresh
  /\ MayAsk
  /\ AskFor(path)
  /\ UNCHANGED <<worker, cancelRequests, signals, connected, starts, path, shown, viewVars>>

(* The tab starts the session, again if it is not known to run. *)
Start ==
  /\ ~connected
  /\ starts < MaxStarts
  /\ starts' = starts + 1
  /\ calls' = Append(calls, Call("start", 0))
  /\ UNCHANGED <<nextRequestId, worker, cancelRequests, signals, connected, listed, path,
                 shown, pending, loading, viewVars>>

UserStep ==
  \/ \E dir \in Dirs : Navigate(dir)
  \/ Back
  \/ Forward
  \/ Refresh
  \/ Mutate
  \/ UploadLanded
  \/ Start

-----------------------------------------------------------------------------
(***************************************************************************)
(* The worker: it starts, lists and mutates.  Transfers only delay it.     *)
(***************************************************************************)
ServeStart ==
  /\ calls # <<>>
  /\ Head(calls).kind = "start"
  /\ calls' = Tail(calls)
  /\ \E kind \in {"ready", "failed"} : signals' = Append(signals, Answer(kind, 0))
  /\ UNCHANGED <<nextRequestId, worker, cancelRequests>>

Serve ==
  /\ ServeStart \/ ServeList \/ ServeMutation
  /\ UNCHANGED <<modelVars, viewVars>>

-----------------------------------------------------------------------------
(***************************************************************************)
(* Signals.                                                                *)
(***************************************************************************)
Arrives(kind) ==
  /\ signals # <<>>
  /\ Head(signals).kind = kind
  /\ signals' = Tail(signals)

BecomeReady ==
  /\ Arrives("ready")
  /\ connected' = TRUE
  /\ AskFor(HomeDir)
  /\ wanted' = HomeDir
  /\ UNCHANGED <<worker, cancelRequests, starts, path, shown, history, at, buttons>>

(* What was loading goes on loading. *)
BecomeFailed ==
  /\ Arrives("failed")
  /\ connected' = FALSE
  /\ shown' = Nowhere
  /\ UNCHANGED <<nextRequestId, calls, worker, cancelRequests, starts, listed, path, pending,
                 loading, viewVars>>

PushHistoryAlways(dir) ==   \* variant: also when the history is there already
  /\ history' = Append(SubSeq(history, 1, at), dir)
  /\ at' = at + 1

(***************************************************************************)
(* pushHistory(): a new destination drops what was forward of the present  *)
(* one.  After Back or Forward the present one is the destination, unless  *)
(* it is the empty path the history begins with.                           *)
(***************************************************************************)
PushHistory(dir) ==
  \/ /\ history[at] = dir
     /\ UNCHANGED <<history, at>>
  \/ /\ history[at] # dir
     /\ history' = Append(SubSeq(history, 1, at), dir)
     /\ at' = at + 1

(* applyListing(), and FilePane::applyPath() if the directory is another one *)
Apply(dir) ==
  /\ path' = dir
  /\ shown' = dir
  /\ loading' = FALSE
  /\ pending' = 0
  /\ \/ /\ dir # path
        /\ PushHistory(dir)
        /\ buttons' = (IF at' > 1 THEN {"back"} ELSE {})
                      \cup (IF at' < Len(history') THEN {"forward"} ELSE {})
     \/ dir = path /\ UNCHANGED <<history, at, buttons>>
  /\ UNCHANGED <<nextRequestId, calls, worker, cancelRequests, connected, starts, listed,
                 wanted>>

ShowAnyListing ==   \* variant: the answer to any request is shown
  /\ Arrives("listingReady")
  /\ Apply(listed[Head(signals).id])

ShowListing ==
  /\ Arrives("listingReady")
  /\ Head(signals).id = pending
  /\ Apply(listed[pending])

(* The answer to a request that is not the last one. *)
DropListing ==
  /\ Arrives("listingReady")
  /\ Head(signals).id # pending
  /\ UNCHANGED <<nextRequestId, calls, worker, cancelRequests, modelVars, viewVars>>

ReportFailureOnly ==   \* variant: the failure of the last request is not noticed
  /\ Arrives("operationFailed")
  /\ UNCHANGED <<nextRequestId, calls, worker, cancelRequests, modelVars, viewVars>>

ReportFailure ==
  /\ Arrives("operationFailed")
  /\ \/ /\ Head(signals).id = pending
        /\ pending' = 0
        /\ loading' = FALSE
     \/ /\ Head(signals).id # pending
        /\ UNCHANGED <<pending, loading>>
  /\ UNCHANGED <<nextRequestId, calls, worker, cancelRequests, connected, starts, listed,
                 path, shown, viewVars>>

(* A mutation has landed: the directory is read again. *)
MutationLanded ==
  /\ Arrives("operationFinished")
  /\ \/ CanRefresh /\ AskFor(path)
     \/ ~CanRefresh /\ UNCHANGED <<calls, nextRequestId, listed, pending, loading>>
  /\ UNCHANGED <<worker, cancelRequests, connected, starts, path, shown, viewVars>>

Deliver ==
  \/ BecomeReady
  \/ BecomeFailed
  \/ ShowListing
  \/ DropListing
  \/ ReportFailure
  \/ MutationLanded

Next == UserStep \/ Serve \/ Deliver

Spec == Init /\ [][Next]_vars

(* Both event loops handle what is posted to them. *)
FairSpec == Spec /\ WF_vars(Serve) /\ WF_vars(Deliver)

-----------------------------------------------------------------------------
(***************************************************************************)
(* The pane waits for exactly one answer while it shows that it is loading *)
(* and that answer is still on its way, whatever was asked in between and  *)
(* whichever start of the session failed (RemoteFileModel.cpp:29-44).      *)
(***************************************************************************)
LoadingIsAwaited ==
  /\ loading <=> pending # 0
  /\ loading =>
       \/ \E i \in DOMAIN calls : calls[i] = Call("list", pending)
       \/ \E i \in DOMAIN signals :
            /\ signals[i].id = pending
            /\ signals[i].kind \in {"listingReady", "operationFailed"}

(***************************************************************************)
(* A directory comes up only if it is the last one asked for: no request   *)
(* for another is posted, or answered and not yet delivered, when it does  *)
(* ("so a stale reply arriving after the user navigated away can be        *)
(* discarded", RemoteFileModel.hpp:64).  And the history then stands at    *)
(* it, wherever Back and Forward, whose listings may fail or be            *)
(* superseded, have moved to before; nothing but they takes it away from   *)
(* what is shown (FilePane.cpp:484).                                       *)
(***************************************************************************)
ShownIsTheLastAsked ==
  [][/\ path' # path =>
          /\ \A i \in DOMAIN calls : calls[i].kind # "list"
          /\ \A i \in 2..Len(signals) :
               signals[i].id # 0 => listed[signals[i].id] = Nowhere
          /\ history'[at'] = path'
     /\ history[at] = path /\ history'[at'] # path' => Back \/ Forward]_vars

(***************************************************************************)
(* Liveness: the pane does not load for ever.                              *)
(***************************************************************************)
LoadingEnds == loading ~> ~loading

(***************************************************************************)
(* "A listing for a directory the user already left"                       *)
(* (RemoteFileModel.cpp:32): an answer that is thrown away is not for the  *)
(* directory the user last asked to see, or that one is asked for again.   *)
(***************************************************************************)
DroppedIsLeft ==
  [][(/\ signals # <<>>
       /\ Head(signals).kind = "listingReady"
       /\ Head(signals).id # pending
       /\ listed[Head(signals).id] = wanted
       /\ signals' = Tail(signals))
      => pending # 0 /\ listed[pending] = wanted]_vars

=============================================================================
