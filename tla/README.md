# ArTerm in TLA+

Models, model-checking runs and proofs about ArTerm, an SSH terminal with a
dual-pane file browser (C++/Qt, libssh2). Sources are named relative to the
repository: `src/src/...` is its implementation, `src/tests/...` its tests.

The interesting part of ArTerm is not the protocol, which libssh2 speaks, but
what surrounds it: every session has two worker threads, the GUI thread talks to
them with queued calls and gets queued signals back, workers may block the GUI
and the GUI may block for a worker, and the file browser keeps tables, ids and
histories about requests that are still on their way.

## 1. Inventory

| Component | State | Operations | Talks to |
|---|---|---|---|
| `session/RemoteFileService` | request counter, connected flag, worker thread | start, stop, cancel, one post per request | posts to `SftpSession`, re-emits its signals |
| `ssh/SftpSession` | connection, SFTP handle, set of cancelled ids (mutex) | start, shutdown, list, mkdir, rename, chmod, remove tree, download, upload | libssh2, `SessionInteraction` |
| `files/TransferManager` | table of jobs, running row, job counter | enqueue, cancel, cancelAll, clearCompleted, four signal handlers | `RemoteFileService`, panes |
| `files/RemoteFileModel` | path, listing, pending request id, connected, loading | setCurrentPath, refresh, mutations, three signal handlers | `RemoteFileService`, `FilePane` |
| `files/FilePane` | history and its index, buttons | back, forward, up, refresh, applyPath | its model |
| `files/FileBrowser` | the two panes and the queue | drops, uploads, downloads, refresh after an upload | all of `files/` |
| `ssh/SessionInteraction` | prompt mutex, remembered answers | confirmHostKey, askCredential | parks workers until the GUI thread has answered |
| `ssh/SshConnection` | socket, libssh2 session | open: socket, handshake, host key, authentication | `SessionInteraction`, `KnownHosts` |
| `session/ShellService`, `ssh/ShellSession` | shell state, channel, pending input | start, write, resize, drain, keep-alive, shutdown | libssh2, terminal |
| `ui/SessionTab`, `ui/MainWindow` | tabs, banner | open, close, reconnect, quit, show file browser | both services |
| `ssh/KnownHosts` | the known_hosts file | check, store, remove | file |
| `ssh/ScpTransfer` | none | receiveFile, sendFile | libssh2 |
| `terminal/Screen`, `VtParser`, `Terminal` | cell grid, cursor, scroll region, modes, parser state | characters and control sequences | terminal widget |
| `model/HostStore`, `SecretStore` | profiles, hosts file, keychain | load, save, add, update, remove, import | sidebar, window |
| widgets, theme, icons, dialogs | presentation | painting, layout | - |

What is hard about it, and so what the properties are about:

* **Two FIFOs and a side door.** Requests are posted to the worker, signals are
  posted back, and a cancellation goes past both, under a mutex, at any moment.
  Positions in a table and ids of requests are remembered across all of this.
* **Threads that wait for each other.** Four blocking waits exist: worker for the
  prompt mutex, worker for the GUI thread (a dialog), GUI thread for the shell
  worker, GUI thread for the files worker.
* **Ends.** A tab is closed, the window quit, or a start fails while requests,
  transfers and questions are under way.
* **Supersession.** A newer request makes an older answer stale; the program, not
  only the user, makes such requests.
* **A grid that everybody writes to.** Cursor, margins, tab stops, wrap flags, history
  and the halves of double-width characters must fit each other after any sequence of
  control functions and changes of size, on two screens.
* **Bytes in any order.** Sequences and characters are broken off anywhere.
* **Files that outlive the program.** `known_hosts` is rewritten as a whole by whoever
  accepts a key; the list of hosts is one file and its passwords are in another store,
  and a crash or a failure may come between the two.
* **Secrets and methods.** A password may come from the profile, from an earlier answer or from
  a question; it may go only to a host whose key is trusted, and no method may be skipped.
* **Walks over trees.** A removal or a copy is a recursion over directories in which links
  lead out, round in a circle, or nowhere. It is measured in one walk and done in another, may fail or be
  cancelled at any entry and between any two chunks, and leaves behind what is done by then.

Correctness, per component: the queue runs jobs one at a time, in order, loses no
request, cancels only what was asked for, and ends every job; the worker serves one request at a
time and never ends inside one; what is reported as copied is whole, progress is what was
copied, a removal takes nothing outside its entry; the pane shows the last directory asked for and stops loading;
questions come one at a time and once each; closing a tab comes to an end; no secret
leaves for an untrusted key and no method of authentication is forgotten; saved hosts survive
the program's end and take their passwords with them; the screens
keep their text and their indices in range; the parser reads what was written.
`PROJECT.json` lists every component and every hazard, with its line.

## 2. Modules

```
SftpSession ------------- the request pipe and the worker that serves it
  |-- TransferManager --- the queue on top of it --------> SerialTransfers (abstract)
  |     |-- SessionClose  closing and quitting with transfers under way
  |     |-- TransferManagerProofs
  |-- RemotePane -------- the remote pane on top of it
  |     |-- RemotePaneProofs
  |-- SftpTree ---------- what the worker does to files; implements SftpSession
        |-- SftpTreeProofs
SessionThreads ---------- workers, prompt mutex, dialogs, stop()
  |-- SessionThreadsProofs
Connection -------------- opening a connection: host key, methods, answers
  |-- ConnectionProofs
ShellChannel ------------ one shell session between its tab and the remote side
  |-- ShellChannelProofs
Screen ------------------ operations of one cell grid (operators, no variables)
  |-- Terminal ---------- control functions, two screens, saved cursors, resizing
        |-- TerminalProofs
VtParser ---------------- bytes become calls of the terminal
HostStore --------------- the list of hosts, its file, the keychain, the import
  |-- HostStoreProofs
MC*.tla, MC*.cfg -------- instances for TLC
```

**SftpSession.** `calls` is the event queue of the worker, `signals` that of the GUI
thread, `cancelRequests` the shared set, `worker` the transfer in progress with its
phase: *sizing* (measuring the tree), *moving* (copying), *closing* (past its last
look at the cancel set). A chunk is one step, so a cancellation can fall between
any two; one more chunk may follow it, as the SCP loops look at the cancel set
after a chunk and not before. `Filled` bounds which requests find data to copy. Listings and mutations are one step: the worker looks at nothing
shared during them (`removeEntry` polls the cancel set, but only transfers are ever
cancelled). What is copied is not related to the announced size: they come from two
walks over trees that others may change. Failures are possible wherever the code
has an error return. Dropping a progress signal (`publishProgress` throttles by
time) is a choice.

**TransferManager.** One action per public operation and per signal handler.
`StartNext` and `FinishCurrent` are the whole of the code's helpers, including the
refresh that a completed upload causes before the next job is started. Rows are
numbered from 1, and 0 is the code's -1. `clearCompleted()` is one handler, but each
round of its loop is a step of the model (`BeginClear`, `ClearRow`), so that the
invariants are checked between rounds, where `beginRemoveRows`/`endRemoveRows` call
out to views; the worker goes on meanwhile. `Browse` is the rest of the file browser
using the same pipe and the same id space. `asked` is a history variable.

**SerialTransfers** is what the queue promises: jobs in order of submission, one at
a time, no idling while one waits, withdrawal of waiting jobs, over is over, and
(`LiveSpec`) every job that was submitted is over one day.
TransferManager implements it under the mapping `Status`, where a job whose
row has been cleared is over.

**SftpTree** is the detail of that worker: `removeEntry`, `download` and `upload` with their
recursive walks, and the copy loops of SFTP and of `ScpTransfer`. A tree of files, directories
and links is constant and the same on both sides; `gone` is what has been removed from the
remote one, `copied` what lies at the other end. A path is a sequence of names, as links
give one node many. The recursions end at the first failure, so a list of entries (`todo`)
stands for their stack. Which listing leaves out what, and which call follows a link, is as in the code
(`Listing`, `Stat`, `TreeSize`). `excused` is history: copies that may be short although
they were reported, by SCP, or left, by a failed flush. `job.opened` and `job.late` are
history, too. The GUI thread is reduced to what reaches the worker: requests, cancellations and
the shutdown of `stop()`. `PipeCalls` and `PipeWorker` map all this to SftpSession.

**SessionClose** adds `RemoteFileService::stop()` to the queue, and the two ways it is reached:
closing a tab (deleted later, after the signals that are queued) and quitting
(deleted at once). While the GUI thread waits only the worker runs. It serves
`closing_cancels`; that every request is answered when a thread ends, and that `stop()` returns, are
properties of SftpTree, where the worker has all its steps.

**RemotePane** is `RemoteFileModel` and `FilePane`. `listed` remembers what each
request id is for; a listing is applied only if its id is `pending`. The history
begins with the empty path that `setModel()` enters, Back and Forward move its
index before the listing arrives, and their buttons are only updated when
a new directory is shown. `UploadLanded` may occur at any time: it stands for any
upload of the queue. A second `Start` covers `setFileBrowserVisible` while the
first start is still connecting.

**SessionThreads.** Each worker is in its event loop, opening its connection,
waiting for the mutex, parked, or told its answer. `gui` says whether the GUI
thread is free, in a dialog, waiting in `stop()` for a shutdown to be run, or
joining a thread. While a dialog is open its nested event loop delivers signals.
The dialogs are application-modal, so the user does nothing else then.

**Connection** is `SshConnection::open()` with `KnownHosts` and what `SessionInteraction`
remembers, for several connections at once. Each action is a stage or one try of a method, and
storing a key is two: the whole file is read (`image`), changed, and written back, and another
connection may come between (`ReadKnownHosts`, `WriteKnownHosts`). A server is a name, a port and a key.
`knownHostsHost()` writes the line of port 22 under the plain name and any other as `[host]:port` (`StoredAs`);
`libssh2_knownhost_checkp` looks for both forms (`Found`), when a key is checked and when stale
lines are removed, so the plain line of a name speaks for all its ports. A
reading that fails leaves any part of the lines, as store() does not ask; a
write happens or does not. The user's answers are remembered by name, port and key, prompts for secrets show
the name without the port. A secret is none, right or
wrong; a profile is the fields on which `open()` branches. `left` is the list of methods
in its order, `tried` the history of what the server refused. That only one
question is shown at a time belongs to SessionThreads, so a question is a single step here.

**HostStore** has the list in memory (`profiles`), `hosts.json` (`file`) and the keychain. A
change of the list and the save that follows are two steps, and the program may end
between them, or before. An id (a UUID) is a number that was never given before. The parser of
`~/.ssh/config` reads directives one after the other by `ReadLine`; what is imported is
compared with `Described`, which computes each block's endpoint from the text. `safe`, `blind`
and `lost` are history: hosts that were saved, a file that could not be read, and a save or
a removal from the keychain that did not happen.

**ShellChannel** is `ShellSession` on its worker, with `ShellService` and `SessionTab` as
the GUI end and the remote shell as the other. What takes time is a `task`: opening,
writing against a full window one channel call at a time, the drain that ends
`start()`, and closing the channel. `start()` runs through without serving the queue, so
what is typed meanwhile waits there and `m_pendingWrite` only ever holds the start-up command;
the second case of `Write` is in the code and is never taken. `Drain` distinguishes
what had come when the first stream was found empty from what had come when
the second was; `Exhausted` is `libssh2_channel_eof`, which is false while anything is unread.
The peer (`Prints`, `Closes`, `Reads`, `Fails`) is external: it may stall, close, lose the
connection or stop answering. Keep-alives change no state.

**Screen** is `term::Screen` as a record with one operator per method; lines, columns
and the cursor are numbered from 0 as in the code. A cell is blank, a character, or one
half of a wide glyph. `revision` is left out.

**Terminal** has one action per control function that changes a screen, the cursor
or what is saved of it. `pen` is all that a saved cursor keeps besides the position and
the origin mode: the rendition and the active character set, which only travel
together. `useAlternateScreen`, `saveCursor` and `restoreCursor` are called by 47, 1047,
1048 and 1049 as `setPrivateMode` does; their nesting is free. `entry` is a
history variable: what a full-screen program found when it came with 1049.
`TerminalAssumption` excludes a window of one column. `updateGridSize`
(`TerminalWidget.cpp:251`) allows it, but there a wide glyph's second half is written
behind the end of its line (`Screen.cpp:222`): undefined behaviour, which has no model.
`setScrollbackLimit` has no caller and so no action.

**VtParser** is the parser's state as a record; `Advance` is one byte, with one operator
per state, and `out` the calls this byte made. ESC c makes the terminal reset the
parser within the call, so `EscDispatch` does. `body` and `unit` are history: the bytes of
the present sequence and of the present character, from which the properties compute
what should be dispatched by other definitions: `FieldOf` and `Value` count separators and digits of
what was sent, `TextOf` is an OSC without its control characters, `Encoded` is the shortest
encoding of a number and `Meaning` what UTF-8 says of a character's bytes. Its definitions have names of
their own (`ParserSpec`, `ParserTypeOK`), as one module proves things of it and of Terminal.

Where one clause of an invariant deserves a name of its own but not a run of its own, it is a
named conjunct of the type invariant: `EndedIsTornDown` of SessionThreads (no thread ends
with its connection open), `NeighboursDiffer` of RemotePane (the history holds no directory twice in
a row), `PendingWrapAtEdge` and `ReportLeadsBack` of Terminal (a program finds the cursor where it
was told that it is), `EndsOnce` of ShellChannel (one end is reported), `EndedIsAnswered` and
`CancelNoticed` of SftpTree (no thread ends with a request unanswered; one chunk at most after
a cancellation). `DispatchedAsWritten` of VtParser and `StreamsAreWhole` of ShellChannel each join two
properties, of parameters and OSC payloads and of input and output.

Names follow the source. Where a handler's detail is not told apart by any
property (paths, sizes in bytes, error texts, layout) it is left out.
`PROJECT.json` "map" gives the lines of every definition. Definitions called
*variant* in a module are not part of any specification: they are wrong versions
of the action beside them, and each property is known to fail with one of them.

## 3. Runs

| Run | Instance | Checks | States |
|---|---|---|---|
| `transfer_queue` | 3 jobs, 2 browsing ids, a chunk in the second request | types, the running row, the request's whereabouts, one transfer out, cancellations, refinement of SerialTransfers, in which every job ends | 969 k |
| `sftp_tree` | 2 requests of 8, or 1 and the shutdown, over 5 directories, 3 files and 5 links, SFTP or SCP | types, no thread ends with a request unanswered, cancellations noticed, copies whole, progress, removals, refinement of SftpSession with the walks' ends | 727 k |
| `remote_pane` | 3 directories, 5 requests of the user, 2 starts | stale listings, loading mark, history and its index, loading ends | 369 k |
| `session_threads` | a tab with both connections, opened twice, and one with the shell only | one question at a time and each once, no thread ends connected, a worker that waits for the mutex gets on | 509 k |
| `connection` | 2 connections, 2 ports of one host and another host, 2 keys, 2 profiles, 2 offers of methods | secrets only behind a trusted key, every method tried before giving up, storing a key takes only stale lines of its name and port or of the plain name, nothing open after a failure | 6.2 M |
| `shell_channel` | start-up command of 2 bytes, 2 writes, 2 packets of output, 1 change of size | input and output complete and in order, one end, size settles; the end is reported and stop() returns | 1.4 M |
| `terminal` | windows of 3x2, 2x2 and 2x3, one line of history, 5 control functions | indices and margins in range, pending wrap, text kept, wide glyphs written whole, wrap flags, the alternate screen leaves no trace | 212 k |
| `parser` | 20 bytes, 2 parameters, sequences of 3 bytes | parameters, OSC payloads, UTF-8, a new sequence is read in any state | 155 k |
| `host_store` | 2 hosts, 2 users, 3 ids, 4 configurations, 3 files in the beginning | saved hosts survive, passwords go with their hosts, ids differ, an import adds each host once | 410 k |
| `threads_gui_blocks` | 1 host | violated: the GUI thread and a worker wait for each other | |
| `closing_cancels` | 2 jobs | violated: closing does not cancel | |
| `pane_dropped` | 2 directories | violated: a refresh loses a navigation | |

*Bounds.* Three jobs are a running one and two that wait, which order, withdrawal
and the shift of rows on both sides of the running one need. Chunks only multiply
interleavings of one transfer with itself; one request of `transfer_queue` has one, for the
cancellation in front of it and behind it; the walks of `sftp_tree` have up to four.
Browsing ids are enough for one failing listing in front of a transfer and one
behind it. In `sftp_tree` the trees have a directory in a directory and a linked one, a circle, a link to a file
and one to nowhere, an empty file and one of two chunks; two requests are what one may leave
behind for the next, or a removal before a copy of the same tree. A path through a third link is refused
where the system allows forty.
Three workers that ask are all pairs that can meet at the
mutex, the two of a tab and one each of two tabs, and one more that waits meanwhile. In the pane, five
requests of the user are two navigations, a third one that supersedes the second, a step
back, and a mutation; what the program itself asks for is not bounded.
Two connections are the two of a session or one each of two tabs. They reach port 22 of a host, another
port of it, or a second host, whose line must not be lost; `known_hosts` begins with no line, any
one that a server is found under, or the plain line of the first host and one other. Connections and keys are
symmetric there, hosts are not, and only safety is checked. One profile has nothing and asks the user, and does not
insist on a usable file; the other has an agent, a key file and a wrong password and insists. Three ids are two hosts of the file and one that is
added, or three imported; the configurations repeat, rename, complete and end blocks, and are
directives already: how a line is split is not modelled.
A grid of three columns is the smallest in which a wide glyph can be cut on either side
and also wrap; two and three rows have a partial scroll region and a full one. Five
control functions are enough to write, wrap, save, switch, resize and come back; each
operation of the grid is checked from every state four others can make. Three bytes make a
sequence of two parameters, one of them with two digits or omitted, and a separator too
many for the array; a UTF-8 character is not bounded. The 20 bytes are one of each
class the states tell apart.

*Deadlock.* TransferManager, VtParser and HostStore are checked for deadlock. The other runs say
`CHECK_DEADLOCK FALSE`: a tab that is closed, a worker whose requests are served, a connection that is open or has failed, a pane or a terminal whose bound is used up,
and the circle of waits that `threads_gui_blocks` is about do stop.

*Shell.* A start-up command of two bytes against a window of one is written in parts; two
packets can be one of each stream, in either order, on either side of the end; a wait is
given up at the second time-out instead of the sixtieth.

*Fairness.* `WF(Work)`, `WF(Serve)`, `WF(WorkerStep)`, `WF(WorkerStep(w))`, `WF(Worker)`: a thread with
something in its event queue goes on; libssh2 calls return. `WF(Deliver)` of RemotePane and
SftpTree: signals that are queued for the GUI thread are handled. `WF(ClearRow)`: a loop is run through.
`SF(Deliver)` and `SF(GuiStep)`: the event loop of the GUI thread is a FIFO, so a posted
event is handled although user events come between; strong fairness is needed because
the step is disabled while another handler runs. `AnswerDialog` is part of `GuiStep`: a
dialog that is shown is answered. No action of the user's is fair otherwise.
`WaitersGetOn` assumes in its own statement that the GUI thread keeps coming back,
because without it the deadlock below would refute it.

## 4. Disagreements of code and comments

1. **The GUI thread can wait for ever** (`threads_gui_blocks`). `stop()` blocks the
   GUI thread until the worker has run `shutdown` (`RemoteFileService.cpp:75`); the
   worker may be parked for a dialog the GUI thread has not come to show, or behind a
   worker that is. `RemoteFileService.hpp:25`: "nothing here ever blocks the GUI thread".
2. **Closing does not cancel** (`closing_cancels`). The shutdown is queued behind the
   transfer, which may complete; until then the GUI thread waits.
   `MainWindow.cpp:314`: "Closing it cancels them."
3. **A refresh loses a navigation** (`pane_dropped`). A completed upload or mutation
   re-reads the old directory and overwrites the id of the listing the user is
   waiting for, which is then dropped as "a listing for a directory the user already
   left" (`RemoteFileModel.cpp:32`).
Noticed on the way, and not run. *Terminal:* only `writeCharacter` blanks the other
half of a wide glyph it overwrites, and insert mode undoes even that; erasing, inserting,
deleting and narrowing leave halves behind (`Screen.cpp:198`: "otherwise a stale trailer is left on
screen"). *Hosts:* a password that the user empties or unticks stays in the keychain and is used
again, because `saveSecrets()` stores and never removes (`HostStore.cpp:209`; the dialog says
"Leave empty to be asked on every connection", `HostEditorDialog.cpp:164`); a `hosts.json` that cannot be
read becomes an empty list, which the next change saves over it (`HostStore.cpp:240`), the
exception in `HostsSurvive`; the import splits a line at a space only, where its comment says whitespace (`HostStore.cpp:345`). *Connection:* two connections that store a key at once, or a `known_hosts`
that libssh2 cannot parse (`KnownHosts.cpp:182` does not look), lose lines of other hosts,
the exceptions in `RewriteIsLocal`; libssh2 falls back to the plain name (`KnownHosts.cpp:146`), so
the key of `host:22` is accepted from `host:2222` without a question, and a mismatch at `host:2222`
that the user accepts removes the line of `host:22`, at which the user is asked again (`KnownHosts.cpp:190`; `KnownHosts.hpp:26`
speaks of "the entry for this host", and what is written there is by port): both are
named in `OnlyTrustedKeys` and `RewriteIsLocal`, and stricter forms of the two, with the exact port, are violated; the session has no time-out from the handshake on
(`SshConnection.cpp:202`), so a server that falls silent during authentication holds the
worker. *Sessions:* `forgetCachedAnswers()` has no caller, so a rejected password is
offered again (`SessionInteraction.hpp:36` says the remembered ones are dropped "after one
was rejected"); `teardown()` waits for the peer's close without a timeout, so a peer that stops
answering pins the worker, and the GUI thread in `stop()`, although `writeAll()`
bounds its own wait (`ShellSession.cpp:216`); `write()` keeps "early keystrokes" in states in which
it is never called; a lost connection is reported as a session that ended with status 0. *Files:*
a link to a directory that is itself removed loses what the directory holds, then the
removal fails and the link stays (`SftpSession.cpp:361`, whose `isSymlink` is never set
because `stat` follows links; the local side asks first, `LocalFileModel.cpp:278`), and a link
to nowhere cannot be removed there at all; it makes a download of its directory fail, while an upload
skips it; a download that goes round in a circle ends in an error, an upload finishes at the limit of
the system; after a linked directory, which is copied but not measured, the last progress
falls back to the total (`SftpSession.hpp:81`: "so progress stays monotonic") and the speed comes
from an unsigned difference below zero (`SftpSession.cpp:436`): the exceptions in `RemovesOnlyInside`
and `ProgressIsTrue`. An SCP channel that ends early makes a short file that is reported as copied, and a flush
that fails leaves a partial one: the exceptions in `CopiesAreWhole`. A cancelled or failed upload
leaves part of the remote file. A second `start()` that fails leaves `m_sftp` of the first
(`SftpSession.cpp:82`). And where
no line of the repository promises otherwise:
`Screen::resize` takes the surplus off the top wherever the cursor is
(`cursorSlack`, line 109, cannot change `toScroll`); the test for a full array of parameters
(`VtParser.cpp:106`) comes before the test for a begun one, so the 32nd parameter of a
sequence gets its first digit only, which `ParametersAsWritten` excepts; `restoreCursor` drops the saved pending
wrap; a byte 0x9C within a UTF-8 title ends the OSC; a character that is cut short by a
control character is reported only when the next text arrives; lines in the
history lose their wrap flags, and a selection does not move with the lines; a cursor above the top
margin in origin mode is reported in row 0 or less, the exception in `ReportLeadsBack`; and
`navigateBack` moves the index of the history before its listing, which may fail, after which
Back goes from the wrong place (`FilePane.cpp:484`).

## 5. Proofs

All proofs hold for every value of the constants: any number of jobs, hosts, tabs,
connections or writes, windows and files of any size, trees of any shape, and every bound. The assumptions
(`...Assumption` in each module) say that numbers are numbers and records have the fields the code has, and
six things more: the window has two columns or more (`TerminalAssumption`, see above), a
node is one of a file, a directory and a link, and there are finitely many (`TreeAssumption`), it
is in one directory and no directory lies in itself, so that only links lead to a place in more than one
way (`ForestAssumption`: files with several hard links are several nodes here), the parser
has room for a parameter and for a byte of a payload (`ParserAssumption`), a
file of hosts that `load()` finds in the beginning names each id once, and one that cannot be
read gives no entries (`HostStoreAssumption`; the code hands out ids that are UUIDs, and `load()`
leaves the list empty when it fails).

| Module | Theorem | Property |
|---|---|---|
| `TransferManagerProofs` | `TypeCorrect` | `TypeOK`, and the loop of `clearCompleted()` stays in the table |
| | `RunningRowCorrect` | `RunningRowIsTheRunningJob` |
| | `ImplementsSerialQueue` | `Serial!Spec`: the safety of `RunsAsSerialQueue` |
| | `RequestPlaceCorrect` | the inductive invariant `IInv` |
| | `RequestNeverLostCorrect` | `RequestNeverLost` |
| | `OneTransferOutCorrect` | `OneTransferOut` |
| | `OnlyAskedIsCancelledCorrect` | `OnlyAskedIsCancelled` |
| `RemotePaneProofs` | `TypeCorrect` | `TypeOK` with `NeighboursDiffer` |
| | `LoadingIsAwaitedCorrect` | `LoadingIsAwaited` |
| | `ShownIsTheLastAskedCorrect` | `ShownIsTheLastAsked`, an action property |
| `SftpTreeProofs` | `TypeCorrect` | `TypeOK` with `EndedIsAnswered` and `CancelNoticed` |
| | `CopiesAreWholeCorrect` | `CopiesAreWhole` |
| | `RemovesOnlyInsideCorrect` | `RemovesOnlyInside`, an action property |
| | `ProgressIsTrueCorrect` | `ProgressIsTrue` |
| | `ImplementsPipe` | the safety of `ServesAsPipe`, within `MaxBytes` |
| `SessionThreadsProofs` | `TypeCorrect` | `TypeOK` with `EndedIsTornDown` |
| | `AskedOnceCorrect` | `AskedOnce` |
| `ConnectionProofs` | `TypeCorrect` | `TypeOK`: types, and what is open at which stage |
| | `OnlyTrustedKeysCorrect` | `OnlyTrustedKeys` |
| | `RewriteIsLocalCorrect` | `RewriteIsLocal`, an action property |
| | `FailedHasTriedAllCorrect` | `FailedHasTriedAll` |
| `ShellChannelProofs` | `TypeCorrect` | `TypeOK` with `EndsOnce` |
| | `StreamsAreWholeCorrect` | `StreamsAreWhole` |
| | `SizeSettlesCorrect` | `SizeSettles` |
| `HostStoreProofs` | `TypeCorrect` | `TypeOK` |
| | `HostsSurviveCorrect` | `HostsSurvive` |
| | `SecretsHaveHostsCorrect` | `SecretsHaveHosts` |
| | `ImportAddsEachOnceCorrect` | `ImportAddsEachOnce`, an action property |
| `TerminalProofs` | `TypeCorrect` | `TypeOK` with `PendingWrapAtEdge` and `ReportLeadsBack` |
| | `TextIsKeptCorrect` | `TextIsKept`, an action property |
| | `WritingKeepsGlyphsWholeCorrect` | `WritingKeepsGlyphsWhole`, an action property |
| | `FlagsMoveWithLinesCorrect` | `FlagsMoveWithLines`, an action property |
| | `LeavesNoTraceCorrect` | `LeavesNoTrace`, an action property |
| | `ParserTypeCorrect` | `ParserTypeOK` |
| | `DispatchedAsWrittenCorrect` | `DispatchedAsWritten`, an action property |
| | `CharactersDecodedCorrect` | `CharactersDecoded`, an action property |
| | `AnyStateResyncsCorrect` | `AnyStateResyncs` |

In each module that has one, `Invariance` says that the inductive invariant holds, and the other theorems follow from it.

*The queue.* `RunningRowIsTheRunningJob` is inductive once `clearRow` is known to
be in the table: each round of the loop removes a row on one side of the running one
or the other. `RequestNeverLost` and `OneTransferOut` are not inductive. They say where
the request of the running job is, but nothing of the others, and a step of the worker
turns "posted" into "served" only if the head of the queue is that very request.
`IInv` therefore describes the whole pipe: the request of the running job is in exactly
one place (`Nowhere` when no job runs, `AtPost`, `AtWorker`, `AtGui`), every other id in the pipe
belongs to a request that is no transfer, no id has been given out that is not below
`nextRequestId` (`IdsAreOld`), and the cancel set holds, of the running
job's id, only what was asked for (`CancelIsAsked`). From a fresh id being above all ids in use
follows that a new transfer meets no old cancellation and no old answer. The
proof has one lemma per action, and the lemmas about `StartNext` and
`FinishCurrent` carry the place from the old job to the new one.

*The refinement.* A step of the queue is a step of SerialTransfers or a stutter under the mapping `Status`.
It needs that job ids rise along the table, so that the first queued row is
the oldest job, and that no row is queued while nothing runs. A handler that ends one job and starts
the next is two steps of the table but one of the abstract queue, which
hands over in one step as well.

*The pane.* A listing that is awaited is the last that was asked for, and ids rise along the way:
answers come in the order of the calls, so that signals, the worker and the calls hold ascending ids
(`PipeIsInOrder`). `pending` is then in the pipe exactly once (`Awaiting`), nothing behind it is
a listing (`PendingIsLast`), and an answer with another id is older.

*The walks.* Three invariants, one for each thing the worker keeps. `AnswerInv`: each request that the GUI thread
awaits is in the calls, being served, or answered by a queued signal, the shutdown comes after all calls, and a chunk that
is moved after a cancellation stands in front of the next look at it. `RemovalInv`: what is removed is
closed under the entries of directories (`GoneClosed`), each task is for a node of the entry or for the link
that was taken for its directory (`TasksOK`), and each node of the entry is gone or covered by a task (`AllCovered`): from
these follow both halves of `RemovesOnlyInside`. `WalkInv`: a path of the tree that leads
somewhere is still ahead of the walk (a prefix of it is in `todo`), is the file being written, or is copied and whole (`Visited`).
A step of the walk replaces a path by those of its entries, so that it keeps this needs what `Listing` leaves out, which is
what leads nowhere. No induction over the tree is needed, as `Visited` speaks of all paths at once, and
paths have any length: nothing in it depends on the circles that links make. `Inside` is the least set closed under
entries; to show that a removal stays in it is to show that it is closed.
The attempt found an error of the model: `Stat` looked for removed nodes on the way of a path but not for the
removed links on it, so that a third request could find a tree through a link that was no longer there; with two requests no
run could show it. It now asks for every name on the way, and the instance was also checked with three.
`ProgressIsTrue` (the tree does not change while it is copied: what others add or remove between the two walks is not modelled) compares two sums: over the nodes that were measured, which follows no link but the first, and over the paths that
were opened. `ProgressInv` keeps that no path is in `todo` twice or behind another that is there (`Apart`), so
that a file is opened once, and that a path to a file is ahead of the walk or was opened (`Met`). Without a
linked directory one path leads to each node (`WaysBack`, `WayTo`): opened paths map one to one into measured nodes (`OpenedFits`), a
copy is no longer than its source, and in the end only nodes of no weight are left over
(`OpenedFills`). `Compared` draws the conclusion about any two such sums. The sums of the library add in an order that is
chosen; `SumWithout` shows by induction over the size of the set that the order does not matter.
The attempt found another error of the model: `Weight` was a CASE in which a linked file on the local side met two
branches, so that its value was TLC's choice and not the formula's; it says the order of the branches now.
`ImplementsPipe` maps each step of the walks to one of the worker of SftpSession, or to none. It needs that a
removal is never in the set of cancellations and moves nothing (`PipeInv`), and has one hypothesis, `Bounded`: SftpSession announces
no total above its bound `MaxBytes`, so the walks implement it while theirs are below it as well.

*The threads.* `EndedIsTornDown` needs that the shutdown is the last call in an inbox
(`ShutdownIsLast`), that a thread which is joined is back in its loop (`JoinedIsDone`), and that a tab's shell ends
before its files worker. `AskedOnce` needs where a question is: with the worker that holds the
mutex, in the event queue, or in the dialog, and no other worker is parked.

*The connection.* `OnlyTrustedKeys` speaks of a connection that authenticates, and needs two facts about
earlier stages: a line in `known_hosts`, or in what a connection has read of it, was there in the beginning or is how an accepted
server is stored (`FileIsTrusted`, `Agreed`), and a key about which the user is asked was found
unknown or changed (`AskedIsNew`); together they are `TrustInv`. `FoundIsVouched` turns a line that is found into one of the
beginning or an answer for the same port or for port 22; it needs that no port is the -1 that stands for the plain
name (`PortAssumption`). For `RewriteIsLocal`, `RewrittenIs` says which lines come and go. `FailedHasTriedAll` needs that,
while a connection authenticates, every method it can use is still `left` or was `tried`
(`NoneForgotten`, in `TriedInv`).

*The shell.* A byte of input is in exactly one place: read by the peer, with the worker that is writing, kept
as the start-up command, or in a post; put together in this order they are
what was typed. A byte of output is printed, on the wire, emitted, or on the screen, and what is
emitted of each stream is a front of what was printed; the proof is a split of sequences at every
step. `Of`, which picks one stream out of a sequence of packets, is shown to commute with
concatenation, by induction. `EndsOnce` needs how far a session has come (`Life`) against the signals that are queued and the posts
that are left; `SizeSettles` that a size which is not yet the peer's is in a post, in the
pending size, or was refused.

*The hosts.* Ids in the list, in the file and in the keychain are below the next id, and those of a list are
distinct. What was saved is in the file or in the list that the next save writes, or the
program has lost the file (`blind`). `Named` and `Imported` are loops; what they return
for entries and directives of any number is proved by induction over the lines read so far, with what
`Described` computes from the text as the loop's invariant.

*The terminal.* For each operator of Screen one lemma says what becomes of the twelve fields (`...Is`) and one that a
good screen becomes a good one (`...Good`): its vectors have its size (`Sized`), the cursor, the region and the tab stops are on it (`Sound`), a wrap is
pending in the last column only. A control function is then one step from a good screen to
another (`...Turns`), and only modes, saved cursors, the two screens' switch and the resets are argued at the level of
`Inv`. `Inv` says further that both screens have one size, that the active one is the
one the mode flag names, and (`Untouched`) that as long as a program which came with 1049 runs,
the normal screen is as it was found and the saved cursor is the one on it; from this
`LeavesNoTrace` follows. (A change of the window's size, 47, 1047 and a full reset clear `entry`, so nothing is claimed of a visit
they come into.) For `TextIsKept` history and rows are one page (`At`, `Page`), of which
scrolling, shrinking and growing show another part (`PageEnds`). For `WritingKeepsGlyphsWhole`
a line is whole if each pair of neighbours is joined (`Joined`); a glyph that is placed
changes at most four neighbours. Saved rows and columns are integers and nothing more: a saved cursor may be off the screen
after the window got smaller, and restoring it clamps.

*The parser.* `Advance` has a branch for each state and class of byte. What they have in common is one relation
(`Follows`): at most one call, or two of `print`; a sequence goes on with the byte collected, or is
dispatched, or nothing of it is left; a character begins, goes on or ends. `ParserInv` relates the
members to the bytes so far. `ParametersKept`: as many parameters are stored as fields were written, each with its `Value`,
and a digit continues the last of them if and only if `started` says so. `PayloadKept`: the payload is the text
up to the cap. `CharacterKept`: the bits collected are those of `unit`, and as many bytes are awaited as
its first byte asks for. `Value` and `TextOf` are recursive functions of the whole body;
that a byte more changes them as it changes the parser (`ValueOfMore`, `TextOfMore`) is proved with `Recursion`.
For `CharactersDecoded` two, three and four bytes are taken apart by division (`EncodedTwo`, `EncodedThree`,
`EncodedFour`): a number encodes as the bytes it came from if and only if it is not below the
minimum that the first byte set, which is how the code finds overlong forms. `AnyStateResyncs`
needs no more of the state before than that its members are in range.

*Induction.* The library's induction theorems take an operator as a parameter and cannot be used here. The
modules use the theorem that every non-empty set of numbers has a least element
(`LeastOf`, from `NatLessThanWellFounded` and `WFMin`), from which follow
induction over a set (`Induct`) and that a recursive function on 0..n has the values of its equations
(`Recursion`, with `IsTable`). A model that is reasoned about says its loops
as recursive functions, not with `SelectSeq` or folds. The one exception is the sum over a set (`TotalOf`): its
definition in the library is a function over the subsets, which `TotalTable` turns into equations.

*Only model-checked.* SessionClose, whose runs refute what they check; and all liveness: that every job ends (`LiveSpec`
of SerialTransfers), that every walk does (`WalksEnd`, the other part of `ServesAsPipe`), `LoadingEnds`, `WaitersGetOn`, `EndIsReported`, `StopReturns`. Fairness and ENABLED are out of
the provers' reach.

## 6. Plan

Done: the pipe, the queue and its abstract specification; threads and questions; closing; the walks and
copies of the worker; the remote pane; opening a connection, with `known_hosts`; the shell's
channel; the terminal's screens and its parser; the list of hosts. Proved: all safety properties of the queue, the
walks, the pane, the threads, the connection, the shell, the hosts, the terminal and its parser. Next, in this order:

1. A composition of SessionThreads and Connection: the threads that open connections, and the questions
   they ask.
2. The scroll bar, the selection and the mouse reports of the terminal widget, over the
   lines of Screen.

Not to be modelled: painting, key and colour tables, layout, dialogs beyond their
answers, formatting, the local file system model (synchronous: nothing comes between its
steps), a second `start()` of a worker that runs, and libssh2 itself, whose calls are outcomes.
