---------------------------- MODULE ShellChannel ----------------------------
(***************************************************************************)
(* ShellSession on its worker thread, between the GUI thread (ShellService *)
(* and SessionTab) and the remote shell.  The GUI posts start, write,      *)
(* resize and shutdown; the worker serves one post after the other, drains *)
(* the channel when it has none, and emits signals.  What takes time is a  *)
(* task of its own: opening, writing against a full window, draining after *)
(* the start, and closing the channel.                                     *)
(*                                                                         *)
(* Bytes of input are numbered as the shell should get them, the start-up  *)
(* command first.  The questions that opening may ask are SessionThreads'  *)
(* subject.  Keep-alives and the state banner change nothing here.         *)
(***************************************************************************)
EXTENDS Integers, Sequences

CONSTANTS
  Startup,      \* bytes of the profile's start-up command; 0 if it has none
  WriteSize,    \* bytes of one write the user makes
  MaxWrites,    \* bound: writes
  Sizes,        \* sizes of the terminal
  DefaultSize,  \* the size both sides begin with
  MaxResizes,   \* bound: changes of size
  Room,         \* bytes the remote window takes
  MaxPackets,   \* bound: packets of output
  MaxWaits      \* kMaxStalledWaits

ASSUME ShellAssumption ==
  /\ Startup \in Nat /\ WriteSize \in Nat \ {0} /\ MaxWrites \in Nat
  /\ DefaultSize \in Sizes /\ MaxResizes \in Nat
  /\ Room \in Nat \ {0} /\ MaxPackets \in Nat /\ MaxWaits \in Nat \ {0}

VARIABLES
  posts,    \* event queue of the worker
  signals,  \* event queue of the GUI thread
  session,  \* members of ShellSession
  task,     \* what the worker is in the middle of
  peer,     \* the remote side and the connection
  gui       \* SessionTab, and what the user has done

vars == <<posts, signals, session, task, peer, gui>>

Idle == [in |-> "idle"]

Over == {"Closed", "Failed"}

\* Bytes i+1 to j.
Bytes(i, j) == [k \in 1..(j - i) |-> i + k]

Init ==
  /\ posts = <<>> /\ signals = <<>>
  /\ session = [state |-> "Idle", channel |-> FALSE, watching |-> FALSE,
                pendingSize |-> DefaultSize, pendingWrite |-> <<>>]
  /\ task = Idle
  /\ peer = [link |-> "up", input |-> <<>>, room |-> Room, size |-> DefaultSize,
             refused |-> FALSE, printed |-> <<>>, wire |-> <<>>, seen |-> 0]
  /\ gui = [phase |-> "new", size |-> DefaultSize, resizes |-> 0, typed |-> 0,
            shellReady |-> FALSE, screen |-> <<>>, ended |-> 0]

-----------------------------------------------------------------------------
(* The GUI thread.                                                         *)

Post(call) == posts' = Append(posts, call)

ConnectToHost ==
  /\ gui.phase = "new"
  /\ gui' = [gui EXCEPT !.phase = "open"]
  /\ Post([call |-> "start"])
  /\ UNCHANGED <<signals, session, task, peer>>

\* Keys, pasted text and the terminal's own replies.
Type ==
  /\ gui.phase = "open"
  /\ gui.typed < MaxWrites * WriteSize
  /\ gui' = [gui EXCEPT !.typed = @ + WriteSize]
  /\ Post([call |-> "write",
           data |-> Bytes(Startup + gui.typed, Startup + gui.typed + WriteSize)])
  /\ UNCHANGED <<signals, session, task, peer>>

ResizeTerminal(size) ==
  /\ gui.phase \in {"new", "open"}
  /\ gui.resizes < MaxResizes
  /\ size # gui.size
  /\ gui' = [gui EXCEPT !.size = size, !.resizes = @ + 1]
  /\ Post([call |-> "resize", size |-> size])
  /\ UNCHANGED <<signals, session, task, peer>>

\* ShellService::stop: the GUI thread waits until the shutdown has been served.
Stop ==
  /\ gui.phase = "open"
  /\ gui' = [gui EXCEPT !.phase = "stopping"]
  /\ Post([call |-> "shutdown"])
  /\ UNCHANGED <<signals, session, task, peer>>

TabEnded(tab, kind) == [tab EXCEPT !.shellReady = FALSE, !.ended = @ + 1]

Deliver ==
  /\ gui.phase = "open"
  /\ signals # <<>>
  /\ signals' = Tail(signals)
  /\ LET signal == Head(signals)
     IN  \/ /\ signal.kind = "connected"
            /\ gui' = [gui EXCEPT !.shellReady = TRUE]
            /\ Post([call |-> "resize", size |-> gui.size])
         \/ /\ signal.kind = "data"
            /\ gui' = [gui EXCEPT !.screen = Append(@, signal.packet)]
            /\ UNCHANGED posts
         \/ /\ signal.kind \in {"failed", "closed"}
            /\ gui' = TabEnded(gui, signal.kind)
            /\ UNCHANGED posts
  /\ UNCHANGED <<session, task, peer>>

-----------------------------------------------------------------------------
(* The end of a session.                                                   *)

NoPacket == [stream |-> "none", n |-> 0]

Emit(kind) == [kind |-> kind, packet |-> NoPacket]

Data(packets) == [i \in 1..Len(packets) |-> [kind |-> "data", packet |-> packets[i]]]

\* The members when teardown() is through and the new state is set.
AfterTeardown(state) ==
  [session EXCEPT !.state = state, !.channel = FALSE, !.watching = FALSE]

\* teardown(), and what its caller does next.  Closing the channel waits for
\* the peer, and is a task; without a channel all happens at once.  `first` is
\* what the caller has emitted before.
TearDown(cause, state, kind, first) ==
  IF session.channel
  THEN /\ task' = [in |-> "close", cause |-> cause, state |-> state, kind |-> kind]
       /\ session' = [session EXCEPT !.watching = FALSE,
                                     !.state = IF cause = "shutdown" THEN "Closing" ELSE @]
       /\ signals' = signals \o first
       /\ UNCHANGED gui
  ELSE /\ task' = Idle
       /\ session' = AfterTeardown(state)
       /\ signals' = signals \o first \o <<Emit(kind)>>
       /\ gui' = [gui EXCEPT !.phase = IF cause = "shutdown" THEN "gone" ELSE @]

HasClosed == \E i \in 1..Len(peer.wire) : peer.wire[i].stream = "close"

\* libssh2_channel_close blocks until the peer's close has come as well.
CloseReturns ==
  /\ task.in = "close"
  /\ peer.link # "wedged" \/ HasClosed
  /\ task' = Idle
  /\ session' = AfterTeardown(task.state)
  /\ signals' = Append(signals, Emit(task.kind))
  /\ gui' = [gui EXCEPT !.phase = IF task.cause = "shutdown" THEN "gone" ELSE @]
  /\ UNCHANGED <<posts, peer>>

\* variant: a session that is over ends once more.
EndsQuietlyNever == FALSE

\* A session that is over has said so.
EndsQuietly == session.state \in Over

Shutdown ==
  \/ /\ EndsQuietly
     /\ session' = AfterTeardown(session.state)
     /\ gui' = [gui EXCEPT !.phase = "gone"]
     /\ UNCHANGED <<signals, task>>
  \/ /\ ~EndsQuietly
     /\ TearDown("shutdown", "Closed", "closed", <<>>)

-----------------------------------------------------------------------------
(* Starting and writing.                                                   *)

Start ==
  /\ IF session.state = "Idle"
     THEN task' = [in |-> "open"] /\ session' = [session EXCEPT !.state = "Authenticating"]
     ELSE UNCHANGED <<task, session>>
  /\ UNCHANGED <<signals, peer, gui>>

Writing(data, drains) ==
  [in |-> "write", data |-> data, waits |-> 0, drains |-> drains]

\* open() or openShell() fails, before or after there is a channel.  Only the
\* handshake has a timeout: a peer that answers no more may keep the worker here.
OpenFails ==
  /\ task.in = "open"
  /\ peer.link # "wedged"
  /\ \/ /\ task' = Idle
        /\ session' = AfterTeardown("Failed")
        /\ signals' = Append(signals, Emit("failed"))
     \/ /\ session' = [session EXCEPT !.channel = TRUE]
        /\ task' = [in |-> "close", cause |-> "open", state |-> "Failed", kind |-> "failed"]
        /\ UNCHANGED signals
  /\ UNCHANGED <<posts, peer, gui>>

OpenSucceeds ==
  LET buffered == session.pendingWrite \o Bytes(0, Startup)
  IN  /\ task.in = "open"
      /\ peer.link = "up"
      /\ session' = [session EXCEPT !.state = "Ready", !.channel = TRUE,
                                    !.watching = TRUE, !.pendingWrite = <<>>]
      /\ peer' = [peer EXCEPT !.size = session.pendingSize]
      /\ signals' = Append(signals, Emit("connected"))
      /\ task' = IF buffered = <<>> THEN [in |-> "drain"] ELSE Writing(buffered, TRUE)
      /\ UNCHANGED <<posts, gui>>

\* While the session opens, the worker serves no post: what is typed then waits
\* in the queue of posts, and the second case does not occur.
Write(data) ==
  /\ IF session.state = "Ready"
     THEN task' = Writing(data, FALSE) /\ UNCHANGED session
     ELSE /\ UNCHANGED task
          /\ session' = IF session.state \in {"Connecting", "Authenticating"}
                        THEN [session EXCEPT !.pendingWrite = @ \o data] ELSE session
  /\ UNCHANGED <<signals, peer, gui>>

\* variant: what the window took is sent again.
AfterWritten(data, n) == IF n = Len(data) THEN <<>> ELSE data

Unwritten(data, n) == SubSeq(data, n + 1, Len(data))

\* The channel takes n bytes.
WriteSome ==
  /\ task.in = "write"
  /\ peer.link # "broken"
  /\ \E n \in 1..Len(task.data) :
       /\ n <= peer.room
       /\ peer' = [peer EXCEPT !.room = @ - n,
                               !.input = @ \o SubSeq(task.data, 1, n)]
       /\ LET rest == Unwritten(task.data, n)
          IN  task' = IF rest # <<>> THEN [task EXCEPT !.data = rest, !.waits = 0]
                      ELSE IF task.drains THEN [in |-> "drain"] ELSE Idle
  /\ UNCHANGED <<posts, signals, session, gui>>

\* variant: a wait that timed out is not counted.
Stalled(waits) == waits

CountWait(waits) == waits + 1

\* waitSocket returns because the peer has sent something, which the next call
\* takes in, or it times out.
WriteWaits ==
  /\ task.in = "write"
  /\ peer.link # "broken" /\ peer.room = 0
  /\ \/ /\ peer.seen < Len(peer.wire)
        /\ peer' = [peer EXCEPT !.seen = Len(peer.wire)]
        /\ UNCHANGED <<task, signals, session, gui>>
     \/ /\ peer.seen = Len(peer.wire)
        /\ LET waits == CountWait(task.waits)
           IN  IF waits < MaxWaits
               THEN /\ task' = [task EXCEPT !.waits = waits]
                    /\ UNCHANGED <<signals, session, gui>>
               ELSE TearDown("write", "Failed", "failed", <<>>)
        /\ UNCHANGED peer
  /\ UNCHANGED posts

\* The connection is lost, or the peer has closed the channel.
WriteFails ==
  /\ task.in = "write"
  /\ peer.link = "broken" \/ HasClosed
  /\ TearDown("write", "Failed", "failed", <<>>)
  /\ UNCHANGED <<posts, peer>>

\* variant: the size asked for before is sent.
RequestedStale(size) == session.pendingSize

Requested(size) == size

\* The request is given up when the socket stays blocked, or rejected.
Resize(size) ==
  /\ session' = [session EXCEPT !.pendingSize = size]
  /\ \/ /\ session.state = "Ready" /\ peer.link = "up"
        /\ peer' = [peer EXCEPT !.size = Requested(size), !.refused = FALSE]
     \/ /\ session.state = "Ready"
        /\ peer' = [peer EXCEPT !.refused = TRUE]
     \/ /\ session.state # "Ready"
        /\ UNCHANGED peer
  /\ UNCHANGED <<signals, task, gui>>

-----------------------------------------------------------------------------
(* Draining.                                                               *)

\* The packets of one stream, in order.
Of(packets, stream) ==
  LET of[i \in 0..Len(packets)] ==
        IF i = 0 THEN <<>>
        ELSE IF packets[i].stream = stream THEN Append(of[i - 1], packets[i])
        ELSE of[i - 1]
  IN  of[Len(packets)]

First(n) == SubSeq(peer.wire, 1, n)

\* libssh2_channel_eof: the peer has closed and nothing is left to read.
Exhausted(unread) == unread # <<>> /\ unread[1].stream = "close"

\* variant: a read that fails is tried again later.
ReadErrorIgnored == FALSE

ReadError == peer.link = "broken"

\* n packets have come when the first stream is empty, m when the second is.
Drain ==
  /\ \/ task.in = "drain"
     \/ task.in = "idle" /\ session.watching
  /\ session.state = "Ready" /\ session.channel
  /\ \E n, m \in peer.seen..Len(peer.wire) :
       /\ n <= m
       /\ LET unread == Of(SubSeq(peer.wire, n + 1, m), "out") \o Of(First(m), "close")
              got    == Data(Of(First(n), "out"))
                        \o IF peer.link = "broken" THEN <<>> ELSE Data(Of(First(m), "err"))
          IN  /\ peer' = [peer EXCEPT
                            !.wire = unread \o SubSeq(peer.wire, m + 1, Len(peer.wire)),
                            !.seen = Len(unread)]
              /\ \/ /\ ReadError
                    /\ TearDown("error", "Closed", "closed", got)
                 \/ /\ ~ReadError /\ Exhausted(unread)
                    /\ TearDown("end", "Closed", "closed", got)
                 \/ /\ ~ReadError /\ ~Exhausted(unread)
                    /\ signals' = signals \o got
                    /\ task' = Idle
                    /\ UNCHANGED <<session, gui>>
  /\ UNCHANGED posts

-----------------------------------------------------------------------------
(* The worker's event loop, the peer, and a step.                          *)

TakePost ==
  /\ task.in = "idle"
  /\ gui.phase # "gone"
  /\ posts # <<>>
  /\ posts' = Tail(posts)
  /\ LET post == Head(posts)
     IN  \/ post.call = "start"    /\ Start
         \/ post.call = "write"    /\ Write(post.data)
         \/ post.call = "resize"   /\ Resize(post.size)
         \/ post.call = "shutdown" /\ Shutdown /\ UNCHANGED peer

Worker ==
  \/ TakePost \/ OpenFails \/ OpenSucceeds \/ Drain
  \/ WriteSome \/ WriteWaits \/ WriteFails \/ CloseReturns

Prints(stream) ==
  /\ peer.link = "up" /\ session.channel /\ task.in # "open"
  /\ ~HasClosed
  /\ Len(peer.printed) < MaxPackets
  /\ LET packet == [stream |-> stream, n |-> Len(peer.printed) + 1]
     IN  peer' = [peer EXCEPT !.printed = Append(@, packet), !.wire = Append(@, packet)]
  /\ UNCHANGED <<posts, signals, session, task, gui>>

Closes ==
  /\ peer.link = "up" /\ session.channel /\ ~HasClosed
  /\ peer' = [peer EXCEPT !.wire = Append(@, [stream |-> "close", n |-> 0])]
  /\ UNCHANGED <<posts, signals, session, task, gui>>

\* The program on the other side reads what it was sent.
Reads ==
  /\ peer.link = "up" /\ peer.room < Room
  /\ peer' = [peer EXCEPT !.room = Room]
  /\ UNCHANGED <<posts, signals, session, task, gui>>

\* The connection is lost, or the peer stops answering for good.
Fails(link) ==
  /\ peer.link = "up"
  /\ peer' = [peer EXCEPT !.link = link]
  /\ UNCHANGED <<posts, signals, session, task, gui>>

Peer ==
  \/ \E stream \in {"out", "err"} : Prints(stream)
  \/ Closes \/ Reads
  \/ \E link \in {"broken", "wedged"} : Fails(link)

User == ConnectToHost \/ Type \/ Stop \/ \E size \in Sizes : ResizeTerminal(size)

Next == User \/ Deliver \/ Worker \/ Peer

Spec == Init /\ [][Next]_vars

\* The worker and the GUI's event loop go on; the user and the peer need not.
FairSpec == Spec /\ WF_vars(Worker) /\ WF_vars(Deliver)

-----------------------------------------------------------------------------
(* Properties.                                                             *)

Posted(call) == \E i \in 1..Len(posts) : posts[i].call = call

Signalled(kind) == \E i \in 1..Len(signals) : signals[i].kind = kind

Ends == {"failed", "closed"}

EndIsNext == signals # <<>> /\ signals[Len(signals)].kind \in Ends

States == {"Idle", "Authenticating", "Ready", "Closing"} \cup Over

\* A session that was started ends once: one "failed" or one "closed" is emitted when
\* it is over, none before, none after, and nothing follows it, though shutdown,
\* end of file and failures can meet.
EndsOnce ==
  /\ gui.ended = IF session.state \in Over /\ ~EndIsNext THEN 1 ELSE 0
  /\ EndIsNext => session.state \in Over
  /\ \A i \in 1..(Len(signals) - 1) : signals[i].kind \notin Ends

\* There is a channel as long as the session is ready or on its way out, the
\* timers run only with one, a session that is over has neither, and it has said so
\* once.
TypeOK ==
  /\ session.state \in States
  /\ session.watching => session.channel /\ session.state = "Ready"
  /\ session.state = "Ready" => session.channel
  /\ session.state \in Over => ~session.channel /\ ~session.watching
  /\ task.in \in {"idle", "open", "write", "drain", "close"}
  /\ task.in = "write" => task.waits < MaxWaits /\ task.data # <<>>
  /\ gui.phase = "gone" => posts = <<>> /\ task = Idle
  /\ EndsOnce

\* The shell gets the start-up command and then what was typed, in order, no
\* byte twice and none left out: keys typed while the session opens, partial
\* writes and full windows included (ShellSession.cpp:201 "Keep early keystrokes
\* instead of dropping them on the floor").  All of it has arrived when a ready
\* session has nothing left to write.
InputAsTyped ==
  /\ peer.input = Bytes(0, Len(peer.input))
  /\ session.state = "Ready" /\ task.in \in {"idle", "drain"} /\ ~Posted("write")
       => Len(peer.input) = Startup + gui.typed

\* What has been emitted, delivered or not.
Emitted == gui.screen \o [i \in 1..Len(signals) |-> signals[i].packet]

Begins(s, t) == Len(s) <= Len(t) /\ s = SubSeq(t, 1, Len(s))

\* The output of each stream comes to the terminal in order and without gaps, and
\* a session that ends because the shell did has shown all of both first.
OutputAsPrinted ==
  \A stream \in {"out", "err"} :
    /\ Begins(Of(Emitted, stream), Of(peer.printed, stream))
    /\ task.in = "close" /\ task.cause = "end"
         => Of(Emitted, stream) = Of(peer.printed, stream)

\* Nothing is lost, repeated or reordered in either direction.
StreamsAreWhole == InputAsTyped /\ OutputAsPrinted

\* When all is quiet the remote terminal has the size of the local one, whether that
\* changed before, while or after the session opened, unless the last request
\* was given up (SessionTab.cpp:114 "push the real size").
SizeSettles ==
  /\ session.state = "Ready" /\ task = Idle /\ gui.phase = "open"
  /\ ~Posted("resize") /\ ~Signalled("connected")
  => peer.refused \/ peer.size = gui.size

\* A tab learns of the end of its session: when the shell has ended or the
\* connection is lost, it is marked or closed, though the worker is writing.
EndIsReported ==
  gui.shellReady /\ (peer.link = "broken" \/ HasClosed)
    ~> ~gui.shellReady \/ gui.phase # "open"

\* The GUI thread comes back from stop(), whatever the worker was doing, unless the
\* peer stops answering for good: closing the channel waits for it without a
\* timeout (ShellSession.cpp:317).
StopReturns ==
  gui.phase = "stopping" ~> gui.phase = "gone" \/ peer.link = "wedged"

=============================================================================
