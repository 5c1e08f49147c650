# sambam: a TLA+ verification project

sambam is a single-binary SMB2/3 file server. This directory holds TLA+ models
of the parts whose correctness depends on interleaving, on message order, on
long sequences of legal calls or on the exact place of every byte, the TLC
configurations that check them, and
TLAPS proofs of the properties of eight of them for every size of the system.
`PROJECT.json` maps every definition to the lines it stands for.

## 1. The system

| part | source | state it keeps | operations |
|---|---|---|---|
| connection pipeline | `smb/server/conn.go`, `server.go` | per connection: the map of outstanding requests and its channel, the channels `write`, `werr`, `rdone`, `wdone`, the context | `runReciever`, `Run`, `sendPacket`, `runSender`, `shutdown` |
| negotiation and session setup | `server.go`, `conn.go`, `spnego.go`, `authenticator.go`, `internal/ntlm/server.go` | per connection: `serverState`, dialect, pre-authentication hashes, sessions, `pendingSetup`; per server: one SPNEGO object, one NTLM challenge | NEGOTIATE, SESSION_SETUP, bindings, LOGOFF |
| request routing, signing and encryption | `server.go`, `conn.go`, `session.go` | active session and tree, `_useSession` | `setActiveSession`, `setActiveTree`, `enableSession`, `tryVerify`, encryption in `sendPacket` |
| compound requests | `compound.go`, `conn.go`, `server.go` | per chain: the status so far, the file id, `lastMsgId` and the responses collected | the cut of a frame in `runReciever`, `Run`, `addResponse`, `sendPacket` |
| trees | `tree.go`, `server.go` | trees by name and by id, reference counts | TREE_CONNECT, TREE_DISCONNECT |
| opens and file operations | `file_tree.go`, `server.go` | the table of opens by file and durable id, `deleteAfterClose` | CREATE, CLOSE, READ, WRITE, SET_INFO, QUERY_INFO, IOCTL, LOCK |
| directory enumeration | `file_tree.go`, `fs.go` | `dirPos` and `dirBuffer` of a handle | QUERY_DIRECTORY |
| change notification | `file_tree.go`, `server.go` | watch counts per path, per handle an event channel and a cancel channel | CHANGE_NOTIFY, CANCEL, CLOSE, the watcher goroutine |
| PassthroughFS | `fs.go` | table of open files, per file `closing` and `ioWG` | Open, Read, Write, Close, rename, unlink |
| packets and their buffers | `internal/smb2`, `info_fs.go`, `acl.go`, `internal/msrpc` | none | encoders and decoders of requests, responses, information classes, security descriptors, RPC messages |
| IPC$ and DCE/RPC | `ipc_tree.go` | the last RPC request of a pipe | share enumeration |
| daemon | `main.go` | PID file and its lock, status file, the processes | start, stop, status, expiry |
| command line and configuration | `main.go` | shares, users, allow-list | parsing and merging |
| discovery | `main.go` | none | mDNS and WS-Discovery answers |
| cryptography, NTLM messages, SPNEGO tokens, errors | `internal/...` | none | conversions |

How they interact: for every accepted connection three goroutines run. The
receiver decrypts, verifies and hands requests to `Run`, which serves one
request at a time and calls the handlers; handlers call `PassthroughFS`, which
all connections share, and answer with `sendPacket`, which queues for the
sender goroutine. CHANGE_NOTIFY starts a goroutine per request that answers
later, also with `sendPacket`. The server-wide tables (opens, trees, watch
counts), the SPNEGO object and the NTLM authenticator are shared by every
connection. A watcher goroutine turns file system events into notifications.

What is hard here, and what a unit test hardly reaches: a Close against reads
in progress; requests, results and shutdown racing on the channels of a
connection; two logons overlapping over shared state; a handshake hash that
must contain exactly the right messages whatever else the connection does; a
notification goroutine racing CANCEL, CLOSE and the next request; handlers of
two connections between a lookup and the open, a rename and its new path, the
two removals of a CLOSE; the put-back buffer of an enumeration under arbitrary
buffer sizes; a chain of requests whose context receiver, `Run` and a
notification goroutine share; layouts whose offsets depend on lengths, counts
and alignment; two commands and a dying daemon that clean up the same files.
`PROJECT.json` lists these as hazards, each at its line.

## 2. Modules

Each `MC*` module adds what TLC needs: a symmetry set, the forms of CREATE, the
frames and messages to send. Definitions commented "Faulty"
are variants with a plausible bug. No specification uses them; each shows that
the property it belongs to is able to fail.

### HandleIO: open files of PassthroughFS

`openFiles` is the key set of the `sync.Map`; `file[h]` the descriptor;
`closing[h]` and `ioWG[h]` the fields of `OpenFile`. The WaitGroup is the *set*
of goroutines it counts, since each adds itself once; `waiters[h]` are those
registered in `Wait`. Each atomic access of `Read`/`Write` is an action
(`IoLoad`, `IoCheck`, `IoAdd`, `IoRecheck`, `IoAccess`, `IoDone`, `IoRelease`)
and so is each of `Close` (`CloseLoad` ... `CloseDelete`). `Open` inserts a
handle, `Symlink` takes the descriptor away. What `sync.WaitGroup` does when it
is misused (an `Add` from zero with waiters registered, a counter that moved
between release and return) is modelled from its implementation: it panics.

`FileLife` is the abstract specification: per handle a descriptor and the set of
goroutines inside `ReadAt`/`WriteAt`, with atomic `Begin`, `End` and `CloseFile`.
HandleIO implements it under the mapping `active <- Active`, the goroutines at
`pc = "io"`.

### ConnPipe: the goroutines of a connection

`requests` is the map of `outstandingRequests`, `cur` the id in the receiver's
hands, `got` the id `pop` received, `held` the mutex that `pop` keeps when it
retries. `pc` says where each caller of `sendPacket` is: `Run` and the
asynchronous goroutines. `write` and `werr` are the buffered channels, `snd` the
sender, `tcp` the transport. `SetRequest`/`PopReceive`/`PopLookup` are the three
steps of handing a request over, `Encode`/`Put`/`TakeResult`/`SendCancelled` the
steps of `sendPacket`, `SenderTake`/`SenderWrite`/`SenderReport`/`SenderExit`
the sender's loop. A client may use an id twice, as CANCEL does; `reused`
remembers that it happened.

### Handshake: NEGOTIATE and SESSION_SETUP

A hash is the sequence of messages hashed into it, so that "same hash" means
"same messages, same order". `conn[c]` holds the fields of `conn`; `client[c]`
what the client knows, in particular its own hash of each handshake. `mech` and
`ntlm` are the state the connections share. A handler is one action, except that
the second step of a setup reads the shared authenticator again after
`authenticate` returned; this is `Setup2` then `Finish`. A session key is the
logon it comes from: `Finish` takes that of `ntlm.session`, which is whatever
logon the authenticator saw last. A session keeps that key and the hash its keys
are derived from. The nil dereferences the code can reach are actions of their
own (`Setup1Down`, `Setup2Down`, `FinishDown`), which end the process (`down`).

### ChangeNotify

A request `r` is the goroutine `req[r]`, whose cancel channel is `token[r]`.
`open[o].notifyCancel` is the channel stored in the handle: one per handle. The
goroutine's `select` becomes one action per case. A handler is several steps,
remembered in `task[c]`: `ChangeNotify` looks the handle up and answers PENDING,
`Register` stores the channel and takes the watch; `Close` looks it up,
`CloseDelete` takes it out of the table, `CloseEnd` wakes the goroutine and gives
back the watch, after the response. As in `getOpen` and `deleteOpen`, nobody asks
whose handle it is, so two connections may be in these handlers with one handle.
`fsWatcher.Add` may fail. `seen` records what a client was told, to compare it
with what was queued; `mark` whether two connections had the handle in hand at
once, whether watching failed for it and whether the watch was given back.

### DirScan

Entries are numbers in kernel order; `off` is how far the kernel has read,
`dirBuffer` the entries put back. `ReadDir`, `Consumed` and
`PutBackDirEntries` are functions; `StartScan` and `NextEntries` are
QUERY_DIRECTORY, `SetDisposition` the emptiness check of `setDispositionInfo`,
which reads through the same handle.

### OpenFiles: CREATE, CLOSE, SET_INFO, WRITE and the reparse-point requests

`names` and `obj` are the share on disk: the object (inode) behind each name, and
of each object its kind, content, attributes and stream. `fsh[h]` is the
`OpenFile` of a handle, `fsOpen` and `opens` the keys of
`PassthroughFS.openFiles` and of `Server.opens`. `req[c]` is the request a
connection is serving, with what its lookup saw and the path it read. A handler
takes a step per system call on names and per access to a table or field: CREATE
is `Create` (lookup and tests), `CreateMkdir`/`CreateMade`, `CreateOpen`,
`CreateAttr` (`GetAttr` of the new descriptor, which may fail), `CreateEa`,
`CreateAdd`; CLOSE is `Close`, `CloseTest` (the mark), `CloseLoad` (the table),
`ReadPath`, `CloseRemove`, `CloseDelete`, `CloseFile`; renames, symbolic links and
the removal of reparse points are split in the same way. One step are the first
look at a request with its lookups and, in a rename, the test of the target; a
SET_INFO of attributes, a size, a stream or a disposition; and the test and the
setting of a stream in CREATE. What open(2) and rename(2) do is `MayOpen` and
`MayMove`. History: `moved`, the handles whose name another request took away, for
which the code, going by path, promises nothing; `leaked`, the handles of a CREATE
whose `GetAttr` failed; `late`, those whose mark was withdrawn while a CLOSE that
had seen it was under way. Directories stay empty, links are dangling, and
permissions of the host are not modelled: apart from `GetAttr`, a system call
fails only for what the share contains.

### Wire, Requests, Responses, Packet, InfoClasses, Security, Rpc, Codec: the packets

`Wire` is a byte buffer without the bytes: an encoder is its `Size()` and the
sequence of its writes, each with an offset, a width and a value, and a decoder
reads at offsets. The value of a field is the field's name, so "the decoder
returns the field" is an equation; offsets, counts and lengths, by which a
decoder finds its way, are numbers and are truncated to their width. A read that
meets parts of several writes is `Torn`, one beyond the buffer is `Panic`.
`Requests` and `Responses` are `request.go` and `response.go` (with the negotiate
contexts of `smb2.go`), `InfoClasses` the structures of `info_fs.go` and
`fscc.go`, `Security` SIDs, ACLs and descriptors with `queryInfoSec` and
`setSecInfo`, `Rpc` the srvsvc messages of `dcerpc.go` and `msrpc.go`, `Packet`
the headers and the checks of a frame. Each structure stands next to its decoder,
under the source's names. `Codec` sends them: `Append1` adds a message to a
compound, `Send` encodes, pads and links the packets and may encrypt, `Receive`
is the loop of `runReciever` with the decoders. Where one side is not in the
repository (a client's CHANGE_NOTIFY) it is modelled from what the decoder reads.

### Dispatch: from a frame to its answers

A request is its command, the ids of its header and its place in the frame;
`ctxs` are the `compoundContext`s (`fids` their file ids), `cur` the receiver's
current one, `active` is `conn.session`, `refs` the reference counts of the trees.
`ReadFrame` and `Enqueue` are the receiver's loop, which is a request
ahead of `Run`; `Run` looks up session and tree, refuses or calls the handler, and
the answer goes through `addResponse` or leaves. `writing` is the point between
the interim and the final answer of a write, `waiting` the goroutines of
CHANGE_NOTIFY, which answer through the context of a chain that `Run` may still
be working on. `sent` is what the client sees.

### Daemon: start, stop and status

A process is its pid, and pids are used again. `dir` is the inode that has the
PID file's name, `content` the pid in each inode, `lock` who holds its flock.
Start, daemon, stop and status take a step per system call that another process
can see. `Reborn`, `WritePid` and `Release` belong to the go-daemon library and
are modelled from how `main.go` uses them: open or create, lock without waiting,
fork with the lock inherited, write the pid; unlock, then remove the name.
Any process may be killed at any point (`Crash`), a starter after its fork
included, and the starter's write of the status file may fail, which the code only
warns about. `raced` remembers that a start overlapped with something that removes
the file, `rivals` that two starts overlapped, `unwritten` the daemons whose
starter ended without writing their status.

## 3. Runs

| run | configuration | shows |
|---|---|---|
| `handle` | 3 goroutines, 2 handles | `NoIoOnClosedFile`: a descriptor is never closed under an access; `TableMatchesFiles`; `CloseReturns`; `ImplementsFileLife`, the refinement of `FileLife` |
| `pipe` | Run and 2 asynchronous senders, queue of 1, 2 requests | `OneResultPerCaller`, `NoRequestLost`, `SendReturns`, `RunEnds` |
| `pipe_cancel` | no asynchronous senders, 4 requests | violation of `RequestsGetThrough`: a reused id makes `pop` wait with the mutex locked |
| `handshake_one` | 1 connection, 11 messages, two dialects, three kinds of first token | `KeysAgree`: hash and session key of every session are its own logon's; `GoodLogonSucceeds`, `SessionsSurvive` |
| `handshake_pair` | 2 connections, 6 messages each, 2 handshakes at once | `HashesAgree`: the hashes under interference; the session keys do not stay right (section 4) |
| `notify_safety` | 2 connections that share 2 handles, 2 requests, 2 events, channel of 1, watching may fail, the constraint `Few` | `TypeOK`; `WatchesMatchHandles`, `EventStreamIntact`, `CancelReachesAll` |
| `notify_live` | 1 handle, 2 requests at once, watching may fail | `EventAnswered`; `RequestsEnd`: what was cancelled or lost its handle ends |
| `scan` | up to 6 files, batches of 2, two patterns, two buffer sizes | `ScanExact`: every entry once, in order, and NO_MORE_FILES is true; `ScanProgress` |
| `openfiles` | 2 connections, 2 names, 3 objects, 2 handles, 4 requests, 11 forms of CREATE | `TablesAgree`: no descriptor leaks, but those of a failed `GetAttr`; `ExclusiveCreate`; `PathsFollow`: a handle's path stays with its file; `ReadOnlyUnchanged`; `NoLostFile` |
| `codec` | every structure with names and buffers of up to four lengths and lists of up to three entries, alone; eight messages in compounds of up to three; with and without encryption | `WithinBuffer`, `FieldsIntact`, `FrameCutExact`, `FieldsReturned`, `ListsReturned` |
| `dispatch` | 2 sessions, frames of one to three requests, 4 requests in all | `ChainsAnswered`, `AnsweredOnce`, `FramesWellFormed`, `NothingAfterFailure`, `OwnSession`; `TypeOK` with at most one connected tree of the share |
| `daemon` | 3 pids, 3 starts, 2 PID files, 2 commands, the constraint `Few` | `OneDaemon`, `FilesDescribe`, `StopEndsDaemon` |

`TypeOK` of HandleIO, ConnPipe, OpenFiles and Handshake and the inductive
invariants of the proofs hold for every instance (section 5), so no run repeats
them.

Bounds. Three goroutines are a reader, a second reader and a closer; with them
every pair of accesses can straddle every step of `Close`, and two handles let a
goroutine move on to another while the first is still waited for. Three callers
of `sendPacket` over a queue of one fill the sender, the queue and leave one
blocked, which the code's queue of ten does at twelve callers. Two requests are
one handled and one on offer, all that can be outstanding between the receiver
and `Run`. Eleven messages are a NEGOTIATE, a first logon of two messages and
more than two further handshakes, with other requests between them. Two changes
with room for one reach the full channel; two requests per handle reach the
replaced cancel channel. Batches of two with six files and entries of two sizes
give scans in which the buffer is empty, partly full, and longer than a batch.
Four requests are enough for two opens of one file and two requests that race
over the handles, or for an open, a close and two racing opens of the name; the
forms of CREATE are every disposition with and without a directory, write
access, a stream and delete on close, as far as the handler distinguishes them.

The lengths in `codec` are nothing, one that needs no padding, one that does and
an odd one; three entries are a first, a middle and a last one. Four requests in
`dispatch` are a chain of three and one request before or after it, on the same
or on another session; pairs contain every command. Three pids are a daemon, a
start and a command at once, or three starts; three starts are a daemon that
dies, its successor and a rival; the second inode is the file made after the
first was removed.

Two runs have a constraint. `Few` of MCChangeNotify: with both handles in use,
requests, changes and lost connections are two in all; with one handle in use
they are bounded by the configuration only. What two handles share is the watch
count of their directory, for which their creation, closing and watching matter
and those are not restricted. `Few` of MCDaemon: once `raced` there is no third
start; the two invariants promise nothing any more then, and `StopEndsDaemon` is
still checked with two starts and two commands.

Deadlock is checked in `codec` only. Elsewhere a connection that ended, a closed handle and a client
that has nothing to say are legitimate ends, and the bounds stop every model.

Fairness. Goroutines that can run do (the Go scheduler); timers fire, so the
quiet period of a notification ends although events may keep coming and the
liveness check happens; a `select` with `ctx.Done()` ready again and again
takes it some time (Go chooses uniformly), hence the one strong fairness
condition in ConnPipe. A daemon's own steps go on (WF), but nobody has to start
one, type a command or wait for an expiry. A handler finishes its request.
The client owes nothing: it may stay silent for ever, so reading a request is not
fair, and it may stop reading, so `conn.t.Write`, which has no deadline, need not
return while the connection is up: then the transport is `"stalled"`, and
`SendReturns` excepts a connection that stays stalled for ever (section 4). A
write returns if the client reads again or the connection ends.

## 4. Where the code deviates

* `pipe_cancel`: `pop` finds no request for an id (a CANCEL that came right
  behind its request) and jumps back with the map's mutex locked; the receiver
  needs the mutex for the next request.

Further deviations the models contain, for which no run is kept. Each is
exempted by name in the property it would break, so that the property says
exactly how far the code goes.

Open files and connections:
* `Read` tests `closing`, then calls `ioWG.Add(1)`. A `Close` between the two
  waits on a counter that goes up from zero, which `sync.WaitGroup` answers with
  a panic (`panicked` in HandleIO is reachable). The property that matters still
  holds: the second test keeps the read away from the closed descriptor.
* The receiver can block in `set`, and the sender on `werr`, once `Run` has
  returned.
* `conn.t.Write` (`conn.go:416`) has no deadline. A client that stays connected and
  stops reading blocks `runSender`, then every caller of `sendPacket` and `Run`,
  for as long as it likes.
* When `GetAttr` of a new descriptor fails, CREATE answers ACCESS_DENIED and returns
  without `t.fs.Close(h)` (`file_tree.go:270-278`; line 283 has it): descriptor and
  table entry stay for ever (`leaked` in `TablesAgree`).
* CLOSE tests the mark, finds the handle, reads its path and removes the file in
  steps of their own. A deletion withdrawn, and the withdrawal confirmed, after the
  test happens all the same (`late` in `NoLostFile`); one asked for after the test
  is confirmed and forgotten. The handle's file renamed between the reading of its
  path and `os.Remove`, or the handle closed by another channel meanwhile, makes
  the removal hit whatever has that name by then (`Overtaken`). The bounds of the
  run do not let a removal meet a handle that a second CLOSE has closed, and
  replace the file, all in four requests; the proof includes it.
* A rename that may not replace replaces a file made between its test and
  `os.Rename` (`saw` in `NoLostFile`); opening or writing a stream
  changes a read-only share (`Files` in `ReadOnlyUnchanged` leaves streams out).
* The emptiness check of a deletion takes entries from the handle's enumeration
  (`asked` in `ScanExact`), and after a complete scan it sees none. A batch of
  1000 entries without a match is answered NO_SUCH_FILE although later entries
  may match.

Logon:
* SPNEGO object and NTLM challenge are the server's, so overlapping logons of two
  connections disturb each other, up to a nil dereference (`GoodLogonSucceeds`
  fails with the constants of `handshake_pair`), although a comment at
  `server.go:1344` calls the object connection-level.
* The session key is read from the shared authenticator after `authenticate` has
  returned (`server.go:1206` and `1462`). A logon that another connection completes
  in between gives the session its key: client and server then sign and encrypt
  with different keys. `KeysAgree` holds on a server with one connection only and
  fails with two; what holds for any number is `HashesAgree`.
* A first token of an unknown mechanism stays in the connection's hash (`stained`
  in `HashesAgree`). With a mechanism selected already, such a token also replaces
  the authenticator's NTLM server by one without a challenge (`authenticator.go:38`),
  and a second token that reaches it meets a nil challenge (`ntlm/server.go:281`).
* After a refused logon `serverState` is `STATE_SESSION_SETUP`, for which
  SESSION_SETUP is taken as the second step, so that the first message of a retry
  is refused although a comment at `server.go:1161` wants it accepted. If the client
  sends NEGOTIATE before, and its first token is a raw NTLM message, the server
  dies: NEGOTIATE has made `selectedMech` nil and `spnego.go:85-86` calls it
  (`Setup1Down`; one connection is enough). `GoodLogonSucceeds` speaks of second
  tokens.
* `authenticate` reads the shared `i.ntlm` twice (`authenticator.go:54` and `56`);
  the models take both as one step.

Change notification:
* A second CHANGE_NOTIFY on a handle hides the first from CANCEL (set
  `MaxOutstanding = 2` in `notify_safety`), and CANCEL reaches only the handles of
  its own connection, although another one may wait on them too.
* Two CLOSEs of one handle by two connections both find it and both call
  `removeFsWatch` (`file_tree.go:673-674`): the second gives back another handle's
  reference (`raced` in `WatchesMatchHandles`). So does a handle whose
  `fsWatcher.Add` failed, which never had one (`failed`). There are then fewer
  references than handles and a directory may go unwatched while a handle waits for
  its changes; never more, and the count does not go below zero.
* Changes answered to a connection that is gone are lost to the others that have
  the handle, as are those in hand when a request is cancelled (`lost` in
  `EventStreamIntact`).
* The liveness check, "if the open handle is gone (connection dropped), exit the
  goroutine", asks whether the handle is in `Server.opens`, from which a dropped
  connection's handles are never removed; `RequestsEnd` speaks of closed handles.

Chains of requests (Dispatch):
* The answers of a chain leave with the answer to `lastMsgId`, which only a
  *related* last request sets. Requests chained without the flag, and chains that
  end in ECHO, LOGOFF, a tree command (answered outside of the chain) or CANCEL
  (not answered), are executed and never answered (`Delivered`, `Outside`).
* The second answer of a CHANGE_NOTIFY goes through the context of its chain, from
  its own goroutine: it can fall between two other answers, overwrite the status
  by which the next request is judged and, at the end of a chain, send the whole
  frame again (`Notifies`). PENDING counts as a failure.
* Late answers, and those of ECHO, go out under the session of whatever request
  came meanwhile (`OwnSession`).
* A frame whose first request is marked as related has no chain to relate to. If
  it is the last of its frame, `conn.go:508-509` dereferences a nil `compCtx` and
  the server dies. The models leave such frames out (`FramesAssumption`).
* A related request that leaves session and tree to the chain (ids of all ones) is
  looked up by its own header: USER_SESSION_DELETED, and the frame leaves
  unprotected.

### Layout gaps

`Overlapping`, `FieldGap` and `ListGap` of Codec are equivalences, so what is not
listed here is checked right by the run, and what is listed does go wrong.
* `FileFsFullSizeInformation` writes ActualAvailableAllocationUnits at 18 instead
  of 16; its upper bytes are overwritten (`info_fs.go:473`).
* `ErrorResponse` writes the length of its data over the count of contexts at
  2..4 and leaves ByteCount at 4..8 zero, so a decoder finds neither data nor
  contexts (`response.go:33`): the size a BUFFER_TOO_SMALL asks for is not learnt.
  `SymbolicLinkErrorResponse` writes its flags over the name.
* `NegotiateRequestDecoder` subtracts 36 where the offset counts from the header
  (64): a context list of less than 28 bytes is refused (`request.go:88`).
  `ReadRequestDecoder` misses the same 64 for channel information.
* `CreateRequest` (the client's encoder) counts padding before the contexts in
  their length and links contexts without the padding between them.
* `IoctlRequestDecoder.Data` and `SetInfoRequestDecoder.Buffer` run to the end of
  the packet, which includes the padding before the next request of a compound.
* `makeUnicodeStr` counts UTF-8 bytes and writes UTF-16 units: a share name with
  non-ASCII letters is followed by zeros (`dcerpc.go:418`).
  `NetShareGetInfoRequestDecoder.ShareName` adds the offset of the name twice and
  returns nothing for a request of its exact length (`dcerpc.go:469`).
* The descriptor `queryInfoSec` returns, written back, sets mode 000: its only
  entry has none of the bits `setSecInfo` derives a mode from.
* In the packet header a TreeId other than zero suppresses the AsyncId
  (`packet.go:41-46`). `conn.go:360-361` sets the TreeId of every answer in a tree,
  the asynchronous ones included, to which `PrepareAsyncResponse` has given an
  AsyncId: the client finds the TreeId where the AsyncId of its CHANGE_NOTIFY or
  write should be (`HeaderGap`). A ChannelSequence other than zero suppresses the
  Status; the server sets none.

### Daemon

* After a crash the PID file stays. From the next start until the new daemon has
  written its pid, `status` and `stop` read the dead pid and `status` removes the
  new daemon's file. `Release` unlocks before it removes the name: a start in
  between runs on an unlinked file, and a third start finds no lock. `stop` and
  `status` remove whatever file is there by then. All three are overlaps of a
  start with a removal (`raced`); without them both invariants hold.
* A slow parent writes the status of its daemon over that of a later one
  (`rivals`).
* If the status file cannot be written the parent warns (`main.go:1374-1376`); if it
  is killed after the fork, by Ctrl-C or a closed pipe, not even that. The daemon
  goes on in both cases and the status file is missing or describes an earlier
  daemon (`unwritten` in `FilesDescribe`); the PID file is right all the same.
* SIGTERM before `signal.Notify` ends the daemon without `Release`: the files stay
  until the next start or command.

## 5. Proofs

Assumptions on the constants are named `ASSUME`s of the modules. Sets whose
members are counted are finite (asynchronous senders, pids, handles of
ChangeNotify), `Run` is no asynchronous sender, a missing value is none of the
values, channels and batches of ReadDir have a positive size, and the forms of CREATE and the frames
of Dispatch have their type; a frame has a first request, which is not marked as
related (nothing in the code ensures this, see section 4). Everything else is arbitrary, the bounds of the runs included. Where a
theorem has a further hypothesis it is the one under which the run checks the
property, because the code does not keep it otherwise (section 4).

* **HandleIOProofs**, for any sets of goroutines and handles. `TypeCorrect`;
  `InvariantHolds` for the inductive invariant `IInv`; `NoIoOnClosed` and
  `TableMatches` from it. The property alone is not inductive: that nobody is
  inside an access when the descriptor is closed follows from the fact that a
  goroutine between `Add` and `Done` is counted (`Counted`), that a closer has
  set the flag (`ClosersMark`), and that once a waiter was released no access
  is in progress and none can begin, because the second test sees the flag
  (`ReleasedIsQuiet`, `ClosedIsQuiet`). `Implementation`: HandleIO refines
  FileLife; `StepSimulation` shows from these invariants, and from the fact that
  a goroutine at work holds an opened handle (`Held`), that the second test of
  the flag maps to `Begin`, the end of the access to `End`, the close of an open
  descriptor to `CloseFile` and every other step to a stutter.
* **ConnPipeProofs**, for any number of senders, requests and any capacity.
  `TypeCorrect`, with `Bounded` (never more answered than received) as its
  strengthening. `RequestsKept`: while ids are unique the map holds exactly the
  id on offer and the id received but not looked up, and these differ
  (`KeysInv`); `NoRequestLost` follows. `ResultsMatch`: the number of responses
  and results in flight equals the number of callers that wait, until a
  shutdown; it needs that the sender only ends on a shutdown (`SenderTold`) and
  the cardinality lemmas of the library.
* **OpenFilesProofs**, for any number of connections, names, objects, handles and
  requests. `TypeCorrect`, with the strengthening `Good`: a request past its first
  step knows its handle, name or path (`Prepared`) and such a handle belongs to a
  file (`Taken`). `TablesAlwaysAgree`, up to the handles of a failed `GetAttr`: needs
  that a handle being given out by a CREATE is in no other request's hands
  (`Private`, over the steps `Opening`), so that nobody closes it before it is in
  the server's table; the steps that only look, remove or rename leave both tables
  alone (`Quiet`). `CreateIsExclusive`: needs that a file opened
  exclusively was made, so that no later exclusive open can make it again
  (`ExclusiveMade`). `ReadOnlyShare`: needs that on a read-only share no request
  is between the steps of making or moving a name (`NoMaking`).
  `PathsAlwaysFollow`: between `os.Rename` and the store of the new path the
  handle's path is wrong; `Settling` says that then the new name has the file and
  that only one request is at this point, so that the store puts it right.
  `FilesNotLost`: by cases over the requests, with `MayReplace`, that a rename at
  its move may replace or saw no target, and `Marked`, that from the test to the
  removal the handle is marked or its mark was withdrawn since: by a SET_INFO only,
  as a CREATE sets the mark of a handle that is in no CLOSE. That the removal hits
  the handle's own file follows from `PathsFollow` unless the path read is no longer
  the handle's.
* **HandshakeProofs**, for any number of connections, messages and handshakes in
  progress, `HandshakeInvariant`: connection and client agree on which sessions
  and half-done setups there are (`Paired`), and in each state of the server on
  the hashes (`Agreed`: before the first setup on that of the negotiation, during
  it on that of the only handshake, afterwards on that of the pending binding and
  of every session). Each handler is shown to keep this relation between one
  connection and its client, in lemmas without state; the shared `mech` and
  `ntlm` do not occur in it, which is why `HashesAgreeHolds` needs nothing about the
  other connections. `SessionsSurviveHolds` is an action property from the same
  lemmas. `KeysAgreeHolds` adds the session key and is for a server with one
  connection, with any number of handshakes in progress: while a setup is half done
  the authenticator's session is its own (`Owned`), since nobody else is there to
  replace it. `GoodLogonHolds` is for one connection with one handshake at a time,
  where the shared challenge is that handshake's (`Ready`); it says that no second
  token meets a nil state, and leaves out the first tokens of `Setup1Down`.
* **ChangeNotifyProofs**, for any number of connections, handles, directories,
  requests and events, whichever connection a handle belongs to. `NotifyInvariant`
  (tables and handlers under way refer to known handles) and `NotifyTypes`.
  `WatchesHold`, with failures of `Add` and shared handles: a path is watched while
  its count is positive; unless two connections had one of its handles at once, the
  count is at most the number of handles that hold the path, and exactly that if no
  `Add` failed. By the cardinality lemmas, and `Marks`: a handle in the table that
  watches has not given its watch back, and only one CLOSE is to give it back.
  `EventStreamHolds` and `CancelReachesHolds`,
  with one request pending per handle: the goroutines of a handle take turns
  (`Alone`), the handle's cancel channel is that of the goroutine that may still
  need it (`Reachable`), and what was told, is in hand and is queued is, in this
  order, what was put (`Stream`).
* **DaemonProofs**, for any number of processes, starts, files and commands.
  `DaemonInvariant`: while no start overlaps with a removal (`Apart`), the
  daemon, or its starter past `LockFile`, holds the lock of the file that has the
  name (`HoldersHaveLock`), the file a starter opened still has the name when it
  locks it (`OpenedIsNamed`), nobody removes files while a daemon lives
  (`NobodyUnlinked`) and a command that has read the PID file knows the daemon
  there is (`TargetIsDaemon`), wherever a process is killed; with one starter at a
  time the status file is the daemon's, or its starter is about to write it or ended
  without (`Described`). `OneDaemonHolds` and `FilesDescribeHolds`
  follow.
* **DispatchProofs**, for any frames, sessions and number of requests.
  `DispatchInvariant`: requests are numbered as they come, and while more of a
  chain is to come its context has no last request yet (`Numbers`), so the answers
  given before the receiver knew it carry the right flag; the answers in a context
  are of its requests, under their sessions, in order, flagged for their place,
  and after a failed one come only refused ones with a status to match
  (`CtxGood`); a frame sent is the context at that moment or a single answer
  (`FrameGood`); a write between its answers keeps its session active (`Owed`).
  `DispatchTypes` (with the one tree of the share, `OneTree`), `SessionsOwn`,
  `FramesHold` and `FailureStops` follow. `AnswersKept` is what each way of
  answering (`AloneAnswer`, `ChainAnswer`, `WriteAnswer`, `NotifyAnswer`) is shown
  to give.

  That a request is answered, and once, needs to know where each frame sent came
  from and what is still to come; `AnswersInvariant` adds two invariants to the
  first. `Chains` is about requests and contexts: the requests of a frame know
  its last one (`Blocks`), the receiver's context is that of the request enqueued
  last (`Coming`), requests share a context when all between them are related
  (`Joined`) and do not when one between them starts a chain (`Parted`), and a
  context has a last request exactly when a related request ended it (`Ended`):
  an unrelated one does not, which is why the answers of such chains are never
  sent. `Once` is about answers: a frame is a single answer or what the context
  had collected when its last request was answered (`Sources`); two frames end in
  an answer to the same request only where one of the two is pending, or the
  request is a chain's CHANGE_NOTIFY (`FramesOnce`); a context has one final
  answer to a request (`CtxOnce`); a CHANGE_NOTIFY that waits and a write between
  its answers have only been answered as pending (`Open`); every request `Run` is
  through with is answered, on its own or in its context, and a context whose
  last request is answered has been sent (`All`). `FinalOnce` and
  `ChainsComplete` follow.
* **DirScanProofs**, for any directory, batch size, hidden names and buffer sizes;
  what the two patterns match and how large an entry is plays no part in the proofs.
  `ScanInvariant`: of the entries the client wants and that are still there, what
  it got, then what is buffered, then what the kernel has not returned, is the
  listing of the directory (`ScanKept`), and a handle that was not read from is at
  the start and in no scan (`Fresh`), so that the dots come first and once. The
  proof is algebra with filters: the filter of a concatenation is that of its
  parts (`FilterConcat`), which makes the place where a batch is cut and put back
  irrelevant, and the filter of a filter keeps what is in both sets
  (`FilterFilter`), which is why a file that disappears takes the same place out
  of both sides. `ReadIs` says what ReadDir returns and leaves in these terms, for
  a buffer longer than a batch and for one made up by the kernel. `ScanTypes`,
  with the bound of the buffer, `ScansExactly` and, as an action property,
  `ScansProgress` follow. `Filter` is a recursive function; what it computes is
  proved by induction over sets of numbers and of sequences (`NatSetInduction`,
  `SeqSetInduction`), which rest on the least element of a set of numbers.

Only model-checked: the liveness properties (fairness is out of the prover's
reach) and the properties of the packets, whose encoders and decoders are
recursive operators, which the prover does not read.

## 6. Not modelled

* NTLM messages, SPNEGO tokens, cryptographic primitives and key derivation:
  computations on bytes, with no control beyond what Handshake has. Signing and
  encryption themselves, and the moment from which the receiver decrypts
  (`enableSession` after the final SESSION_SETUP response left).
* Status codes: a table. Credits: the account of a connection is opened but
  nothing charges it or borrows from it, so there is no behaviour.
* The handlers of the IPC$ tree: they keep the last RPC request of a handle and
  answer from the share list; only the messages are modelled (`Rpc`).
* Command line and configuration: strings taken apart and merged by a sequential
  program. Discovery: stateless answers through a third-party library.
* Extended attributes and the values of attributes: the layouts are in
  `InfoClasses`, what `fs.go` and the kernel put into them is not.
* `activeConns` of the server, which only grows; statistics and log output.

## 7. What is left

1. An abstract share (a set of names with at most one file each, atomic
   operations) that OpenFiles implements as far as it does; durable handles.
2. The window between the final SESSION_SETUP response and `enableSession`,
   composed with Dispatch's routing.
3. Proofs about the packets, with the encoders written as folds or recursive
   functions.
