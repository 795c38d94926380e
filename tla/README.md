# UniversalServerLib in TLA+

UniversalServerLib is a Windows server library. At its bottom `CSTXIOCPServer`
(`src/UniversalServerLib/Network`) drives TCP clients, outgoing TCP connections, UDP
sockets, monitored folders, file reads, HTTP requests and custom operations through one
I/O completion port, a pool of worker threads and a queue of timers. On it
`CUniversalIOCPServer` dispatches the messages of clients to Lua scripts that are reloaded
when their files change. The modules here model the parts of it whose correctness depends
on the order in which threads, completions and timers interleave.

## Inventory

| Part | State | Operations | Interacts with | What makes it correct |
|---|---|---|---|---|
| Client send pipeline | `m_nBufferedSendDataLength`, `_queuedSendData`, writes in flight | `SendClientData`, `IssueClientWrite`, `IssueClientWriteForceSend`, the write completions | any thread sends; workers complete; the tear-down closes the socket | per sender order, nothing sent twice, nothing lost silently, bounded memory, no message left behind |
| Operations and timers | `m_nRef`, `hTimerHandle`, the mutex of an operation, `m_mapTimerDataAlt` | `EnqueueOperation`, `DequeueOperation`, `AddTimerObject`, `DeleteTimerObject`, `OnTimerTimeout` | submitter, finishing worker, timer thread | an operation is not used after it was freed; every completed one is freed; timeouts are handled |
| Client connections | reference counts, `m_bDisconnected`, `m_mapClientContext`, `_mapClients`, `_currentClientCount` | `Accept`, `IssueClientRead`, `DisconnectClient`, `OnClientDisconnect`, `ReleaseClient` | accept workers, read workers, scripts (by uid), the timer thread | one disconnect event per client, no dangling pointer, the limit, a place given back |
| Listeners | `nAcceptPending`, `m_bClosed`, `m_mapServerContext` | `BeginTcpServer`, `IssueAccept`, `KillTcpServer` | accept workers, callers | the listener is freed once, after its last accept |
| Read buffers | a queue of buffers, two counters | `GetBuffer`, `ReleaseBuffer`, `ExpandBuffers` | readers, destructors of contexts | a buffer has one owner; growth is bounded by demand |
| Receive timeout | `_lastDataReceiveTime`, the timer of the READ | `DisconnectClientByTimeout` | timer thread, read workers | a silent client is disconnected |
| Outgoing connections | `m_mapTcpConnections`, keep-connect flag | `CreateTcpConnection`, `PendingTcpConnection`, the reconnect | workers, callers | one disconnect per connect; a kept connection is retried |
| Start and termination | `dwStatus`, worker handles, termination event | `Run`, `Terminate`, `CanTerminateWorkThreads`, `KillAll*` | everything | nothing runs after the end; the end is reached |
| Script cache | cached text and byte code, need-update flag, dependencies | `LoadScriptCache`, `UpdateAndRunScriptCache`, `ProcessInternalScriptFileChange` | folder monitor, workers | a change is not forgotten; a broken script leaves the previous one in use |
| Folder monitor | pending directory read, context key, notices | `MonitorFolder`, `WTProcessDirMonitor`, `CloseAllMonitoredFolder` | workers, script cache | every change reported, no context used after its end |
| UDP servers | two sockets, `nUdpServerPending` | `BeginUdpServer`, `SendUdpData`, `KillUdpServer` | workers, callers | the context freed after its last READ |
| Uploads and downloads | cookies, upload buffers, file contexts | `OnClientInternalDataTransfer`, `IssueReadFile`, `WTProcessFileRead` | the worker that reads, buffer pool, tear-down | uploads kept apart; files arrive in order; buffers come back |
| Custom operations | the operation and its timer | `PostCustomOperation`, `DoCustomOperation` | timer thread, workers | completed once |
| Framing | receive buffer and offset per client | `AppendRecvData`, `PreClientReceive`, `IsClientDataReadable` | the worker that reads | progress; messages cut where the sender put the boundaries |
| Roles and monitors | role of a client, two counters, two maps | `SetTcpClientRole`, `OnClientDisconnect` | scripts, tear-down | the counters equal the monitors |
| Statistics, variable tree, hash maps | ring buffers; nodes; buckets | add, average; get, set; find, erase | all threads | no torn or stale value |

Hard to test in all of them: threads meet at a handful of unlocked reads and late writes;
the completion of an operation may overtake the thread that submitted it; a timer may fire
while its operation completes; a client is torn down by whichever thread notices first.
`PROJECT.json` lists each such place with its line.

## Modules

Four specifications stand on their own (`ClientSend`, `OperationTimer`, `ClientSession`,
`ScriptCache`). Two compose modules of several components: `Server` has everything that
`Terminate` closes, over the status and the workers they share; `Receive` has what the server
does with what one client sends. Each has an `MC` module with the instances for TLC and
proofs in a `_proofs` module of its name; those of `Server` are in two, `Server_proofs` and
`ServerRaces_proofs`, which builds on it. `Induction` has the lemmas that several proofs need.

### SendChannel and ClientSend

`SendChannel` is what a sending thread may expect: a FIFO channel in which a message is
accepted and later, or at once, handed to the transport. `ClientSend` is the pipeline of one
client. A call of `IssueClientWrite` is split where other threads can come in between: the
test of `m_socket` before `LockSend` (`CallSend`), everything under `LockSend` (`Refuse`,
`Enqueue`, `SubmitDirect`, `SubmitFails`), and the addition of the length after
`UnlockSend` (`Account`). A write completion runs under `LockSend` as one step
(`WriteCompleted`, `WriteZero`) with the dequeue and the forced send (`SendNext`,
`ForceSend`). `_queuedSendData` is a moodycamel queue: FIFO per producing thread, free
among threads, which is why `queue` is a function on threads. `wire` and `accepted` are
history variables. The transport may go down at any point (`LinkDown`).

### OperationTimer

One overlapped operation with a timeout, and the three threads that meet on it. The
submitter runs `EnqueueOperation` (two references, an entry in the alternative map, a
timer, then the handle stored without the mutex) and the system call. The finisher (a
worker, or the submitter after a refusal) runs `DequeueOperation`: a test of the handle, a
test under the mutex, `DeleteTimerObject` under the mutex and the bucket, three releases.
The timer thread runs `ServerBaseTimerCallback`, which keeps the bucket locked, and
`OnTimerTimeout`, which takes the mutex. The freed memory of an operation is modelled by
`Freed`; what the callback reads there is a free choice.

### ClientSession

A connection from the completed AcceptEx to the destructor of its context. `Referenced`
names who holds the context (context key, address map, READ, DISCONNECT operations, a
timer callback at work) and `Reap`, part of every action that may drop one, is the
destructor. Three kinds of callers disconnect a client at any time: a thread that looks its
uid up and keeps the lock of the map entry, the timeout of its READ, and the worker inside
its callbacks. `IssueClientDisconnectEx` issues the operation first and marks the client
afterwards (`DisconnectEx`, `MarkDisconnected`), as the code does.

### ScriptCache

One script, the modules it requires and the threads that run it. A file has a version,
which a save counts up; the editor holds the file until it closes it. Each thread has its
own `package.loaded` (`loaded`) and its entry of `_scriptVersions` (`seen`). A run requires any
part of what its version requires at most, because it may end at an error, and the index is
updated whatever `lua_pcall` returned (`RunUpdated`). A request is
either a run without the lock (`Check`, `Load`, `Run`) or a reload under the lock of the
cache, split at every point where a notice of the folder monitor or a thread without the
lock may come in between: `ReadText`, `Compile` (`SetByteCode`), `Publish`
(`SetStringPtr`, which counts `_ver`), `ClearMark`, `CheckLocked`, `RunUpdated`,
`UpdateIndex`. Of the lists of modules the newest two are kept, which are all the code
looks at. Names are compared as the code does it: a changed file is looked up by its base name
(`Marks`, with `BaseName`: a module in a folder is indexed as `lib.util` and looked up as
`util`), and the set of modules that are no longer required may contain one that is, if the
order of names differs with case (`Removed`, with `MixedCase`). `missed` is a history variable that records in which window a change may have
been missed: the mark was set while it was about to be removed (`raced`), the script could not
be read (`unreadable`), the module was not found in the index (`unindexed`), or a thread did
not forget it (`kept`). `marked` says that the mark was set since the file was read.

### ServerStatus and Server

`ServerStatus` has what the parts share: `dwStatus`, the calls of `Terminate` with their
stages (`stopping`), the worker threads (`workers`, and `busy` while they handle a
completion), `m_hServerUnlockEvent` and the end of `Run`. A step of a worker that another
thread can observe is an action; a worker leaves only when its wait on the port timed out
and the status says so (`WorkerLeaves`). `Server` composes it with the four parts below: each
stage of `Terminate` closes one kind of them (`CloseAllMonitoredFolder`, `KillAllServers`,
`KillAllClient`, `KillAllConnections`), and `Shutdown` is the rest of `Run`. Nothing that begins
something tests `PRETERMINATE`; `late` records what came to be after its kind was closed, and
`undefined` what touched memory that was freed.

- `TcpListener`: `BeginTcpServer` posts its accepts one by one, each accept is counted after
  `AcceptEx` (`counting`), the worker of a completed one posts the next, and the failing accept
  that brings `nAcceptPending` to zero frees the context key. Clients are open, being closed
  or gone; the rest of their life is in `ClientSession`.
- `TcpConnection`: one connection through its successive sockets. An operation belongs to the
  socket it was issued on, so that a late completion meets a connection that has moved on.
  `PreTcpDisconnect` runs in two steps around `m_csKillAllConnectionsLock`.
- `UdpServer`: both sockets, the READ of each, WRITEs, and `nUdpServerPending`, which a
  completion of nothing counts down whichever operation it was.
- `FolderMonitor`: the directory read is issued before the handle is recorded; notices travel
  as custom operations and keep the key of the folder alive through
  `m_setMonitoredDirToRemove`.

### Receive

The parts of `Receive` share no state; `part` says which one a behaviour exercises, and a
single run checks them all.

- `ReceiveBuffer`: the binary framings. READs of any length up to `ReadSize` are appended
  (`AppendRecvData`), and `PreClientReceive` takes messages off the front. Bytes are counted:
  messages have a kind and a size, and where one begins follows from the stream. Messages may
  be empty or, under a compact length, announce a negative length (both are never taken, nor
  what is behind them) or have a length field that a READ cuts. A client sends no internal
  messages here, of which these readers would take the first bytes for a length.
- `HttpBuffer`: the HTTP framing, where the boundaries are searched for. The buffer is a row of
  cells (a line of text, the line that announces a body, the two halves of the end of a header,
  a NUL), and the reader searches all of it, up to a NUL, as `stristr` does: the content-length
  it finds may be that of a later request. Internal messages begin with a header that holds a
  NUL and are taken by a second loop. Past the data the buffer holds what it held before, which
  may look like the missing half of the end of a header. All bodies that a client announces
  are of one length; a line of a header is never cut inside; `stristr` folds case by
  clearing a bit, so that other bytes may pass for the end of a header, and a body may contain
  what looks like a header: the cells leave these out. When more is skipped than is buffered
  `memmove` is given a negative length, and nothing is modelled after that.
- `ReceiveTimeout`: the READs of a client, each with its own one-shot timer, the time in half
  seconds and the local clock, which somebody may set once. `DisconnectClientByTimeout`
  compares the whole seconds of the local clock.
- `Uploads`: cookies and `m_mapUploadBuffers`; a block is known by its upload, so that it
  shows where it ended up.
- `BufferPool` and `FileRead`: the queue of buffers, and the passive downloads that take
  buffers from it: `IssueReadFile` against `WTProcessFileRead`, which may finish the file before
  the thread that began it has answered the client, or after the client is gone.
- `ClientRoles`: `SetTcpClientRole` step by step (role, counters, maps) against itself and
  against `OnClientDisconnect`.

## Runs

| Run | Bounds | Shows |
|---|---|---|
| `Server_stop` | 1 listener with 2 accepts and 1 peer; 1 connection with 2 sockets and 1 send; a UDP server with 2 sockets and 1 datagram; 1 folder with 1 notice; 2 workers, 1 refusal | through a stop at any moment: accepts and UDP reads are accounted, a connection hangs by one thread, only what came late survives `Run`, undefined behaviour needs a named race, `Terminate` returns |
| `Receive_client` | 3 binary framings, 3 messages of size 1, 3 or 5, READs of 2, limit 4; HTTP with 4 messages, bodies of 0 or 2 cells, READs of 4, limit 8; timeouts of 3 and 4 half seconds, 8 half seconds, 3 READs, the clock set by 2 either way; 3 uploads of 1 block, desired cookies 1 and 2; an empty pool, 1 refusal, 2 downloads of 0 or 2 blocks; 1 client, 2 threads that set its role | every binary stream is delivered, up to a message that is never taken; an HTTP request is held back or cut wrongly only next to an internal message or a later body; who is watched by a timer and when a timer disconnects; uploads stay apart; no buffer is lost; downloads arrive in order; roles, maps and counters agree |
| `ClientSend_safety` | 2 threads, 5 messages (one empty), limit 2 | accounting, memory bound, no duplicate, no silent loss, overtaking only in the unlocked window |
| `ClientSend_alone` | 1 thread, 5 messages, limit 4 | refinement of `SendChannel`; queued data is sent |
| `ClientSend_stall` | 2 threads | **violated**: a queued message may stay queued on a healthy connection |
| `OperationTimer_refs` | 1 socket and 1 custom operation in one bucket | no access to a freed operation; each one submitted is completed and freed unless its timer could not be created or locks are crossed |
| `OperationTimer_crossed` | 2 socket operations | **violated**: crossed locks end all timeouts |
| `ClientSession_life` | 2 clients of one address, 3 kinds of callers | disconnect event exactly once; the place is given back |
| `ClientSession_limit` | 3 clients, 2 addresses, limit 1, 2 accepts | limit, uid map, address map |
| `ClientSession_event` | 1 client | **violated**: deleted without its disconnect event |
| `ScriptCache_reload` | 2 threads, 2 modules, one of them under a name of mixed case in a folder, 3 versions of the script, one broken, runs that end early | changes are missed in four windows only; what the index may lack; no reload goes back |
| `ScriptCache_module` | 1 thread, the script comes to require one module more | **violated**: a newly required module stays stale |

The bounds are the smallest that let the cases meet. Two senders suffice for the window
after `UnlockSend`, which concerns a sender and one other; five messages let one be in
flight, several queue up and one be empty. One client more than AcceptEx operations posted
on the listener, under a limit of one, lets the limit be exceeded and then refused. Two clients of one address are needed
for the reuse of a port. Two operations are needed for a deadlock that stops a timer other
than its own. Three versions let a script go from a working to a broken and to one that requires
more, and two threads are what it takes to reload at once or to run one version while the
other is put in use.


`Server_stop` runs one part at a time under `Terminate`: the parts share the status, the
workers and the refusals, so a second part would add interleavings and busy workers, which
the first one has already, but no new meeting. Two posts let one accept be under way while
another completes; two sockets are one reconnect; one refusal reaches each error path; the
folder is closed by two calls of `Terminate`, because that is where a second call meets the
first. In `Receive_client` the sizes lie below, between and above the READ size and the limit,
so that messages are cut by READs, several arrive in one, and one is too long; a timeout of
three half seconds is one that whole seconds cannot express; four messages are an internal one between requests, and
two pipelined ones behind it, bodies of two cells can be cut, and a READ of four brings a whole
request and the beginning of the next; three uploads over two desired
cookies let a cookie be desired, given and shared; an empty pool makes each GetBuffer expand.

Deadlock is not checked where the system really stops: all messages sent and the
connection down, all operations finished, all connections over, the server ended, the client
having sent what it has.

## Fairness

A thread inside a library function runs on unless it waits for a lock; a submitted
operation completes and some worker takes the completion (weak fairness). Strong fairness is
assumed of a timer that is due, though the one timer thread may be busy with others, and of
a worker that waits for a lock others take and release again (`ClientSession`). In `Server` threads inside a handler or a call go on, the thread of `Terminate` that
waits for `m_csKillAllConnectionsLock` gets it though workers take it again and again (strong
fairness), and a worker whose port is empty times out. `Receive` has safety properties only.
Peers, callers, the application and failures are never assumed to act.

## Proofs

`ClientSend_proofs` proves, for every set of threads and messages, every length and limit:
the type invariant; that no message is handed over twice (`MessageSentOnce`), from an
inductive invariant which says that unsent, current, queued and handed-over messages are
disjoint and that the message in a sender's hands appears nowhere else while it waits for
the lock; and that nothing accepted is lost while the connection is up (`AcceptedIsKept`),
for which the invariant adds that a closed socket means a link that is down. The counter is
exact up to what senders owe (`CounterExact`): each step adds to the sum over the messages held
what it adds to the counter or to the debt of one thread, and a write in flight was handed
over and is therefore in no queue (`HeldOnce`), so that no length enters the sum twice. From it follow that what is held passes
the limit by at most one message per thread (`MemoryBounded`: before a message is held its sender
has seen a counter below the limit, and only the debts of the others can be missing from it)
and that a message is sent past queued ones only while another thread is in debt
(`OvertakingNeedsWindow`: otherwise the counter would not be zero). `AloneIsFifo` is the refinement:
a thread that alone sends, and nothing empty, gets the channel of `SendChannel`. Its two
hypotheses are those of the run `ClientSend_alone`, and both are needed: an empty message that
is queued is not counted, so a later one could pass it, and with two senders completions take
the queues in any order. Its invariant (`Fifo`) says that while the link is up what was accepted
is the wire followed by the queue.

`OperationTimer_proofs` proves type correctness, that a late callback finds nothing and that
a socket operation is outlived only by the unlocking of its mutex, from an invariant that
ties the position of the three threads to the reference count, the entry, the handle and
the two locks.

`ScriptCache_proofs` proves, for every set of threads and modules, whatever each version
requires and whichever versions are broken: type correctness, which includes that only
versions that compile are in use; that a module which the index lacks while the lock is free
is one that the run after the last reload did not get to, or one listed twice in a row under
a name of mixed case (`IndexComplete`); and that the byte code never goes back (`ReloadsMoveForward`). The
invariant says that a thread inside the reload is the holder of the lock, that the text it
is about to compile lies between the version in use and the one on disk, and that the index
may lack modules of the last list only by their names (`Indexed`), from what the set difference
may return (`RemovedFacts`). `MissedOnlyInWindows` says, without a hypothesis about what versions
require, that a change is missed in four windows only. Its invariant (`MissInv`) follows a change to where it must be noticed: it is in
the notices, or the cache is marked for it, or a reload that has not read its file yet is
under way, or it fell into a window and is recorded as missed.

`ClientSession_proofs` proves, for every set of clients, assignment of addresses, limit and
number of accepts: types, with a count that is never negative; the bound on admissions
(`LimitHolds`); one disconnect event per client (`EventOnce`); that a uid leads to a context that
exists (`UidSafe`); and that `DebugBreak` needs a reused address (`BreakNeedsReuse`). The
invariant says that the count is the number of contexts (`Books`), that a context key keeps its
context until the READ that found the client lost has been handled (`Held`), that the event has
run exactly when that READ is past it (`Reported`), that the address leads to the client until
one is reused (`Registered`), and that clients let in but not yet counted are among those
being accepted (`Bounded`): the limit is exceeded because these are counted late, and by no
more than they are.

`Server_proofs` proves of the whole composition, for every set of parts and threads: that `nAcceptPending` is
the number of accepts outstanding up to those not counted yet and those that failed early
(`AcceptsAccounted`), so that the accept that frees the key is the last one counted
(`KeyOutlivesAccepts`); that an open listener keeps the accepts it posted (`PostsAreKept`, from
an invariant that places each accept in the system, with the worker of a peer or on its way
back); and that `nUdpServerPending` counts the sockets that are read, less the
WRITEs taken for the end of a READ (`UdpReadsAccounted`, from the disjointness of sockets to be
read, being read and silent).

`ServerRaces_proofs` proves what of `Server` is about several operations at once. `ServerTypes`
carries the workers that are inside handlers as a sum over all parts. `OnlyLateSurvives` says
what is open when `Run` has returned: for each kind the invariant (`SurviveInv`) follows the
stages that `Terminate` has passed, and says that whatever of a kind is open once that kind was
closed is `late` or no longer known to the server, that a known connection has only its
current socket open, and that no worker leaves before a `Terminate` has closed everything.
`OneThread` says that a connection on which nothing was sent hangs by one thread; `LifeInv`
makes the six counts add up at every point of the caller, too, and sums over sockets change
by what a step does to one socket. `OnlyRacesUseFreed` (`RaceInv`) shows for each kind that an
access to what was freed needs the meeting that `UndefinedOnlyByRace` names: without a send, a
connection is torn down by the one thread it hangs by, which is why the invariant contains
`LifeInv`.

`Receive_proofs` has an invariant for each part. Timeouts, clock shifts and numbers of READs
are arbitrary in `ReadIsWatched` and `SilenceBeforeTimeout`: the invariant relates the noted local
time to the real one and orders the READs, at most the last of which is pending, and the timer
of a READ that waits is armed or has fired and was not believed. Uploads are kept apart unless
a desired cookie is shared (`UploadsApart`: a cookie that the server counts up is given once).
Every buffer is in the queue, with a read, or spilled by a download that ended
(`BuffersAccounted`), and a download sends its blocks in order, its end and its answer once
(`BlocksInOrder`, from what a download at each stage has sent, and that no request is handled
for a client that is gone). Roles, maps and counters agree (`RolesKept`): one thread at a time
sets the role of a client that nobody overtook, and the counters count each client for the role
its setter counted last. `WholeMessagesServed` is about the binary framings: while the loop of
`PreClientReceive` runs no more is buffered than one READ can have added to a message that was
not whole, unless one is stuck (`Fits`), which is why only a long message, one the last READ
carries over the limit, or a length field that was cut disconnects a client. `ReceiveTypes`
collects the types.

Values that fold or recur over data (the sum over the messages held, the operations on the
sockets of a connection, where a message of a stream begins, what a download has sent) are
reached without the induction theorems of the library, whose operator parameters the
provers cannot instantiate. `Induction` derives from the well-foundedness of finite subsets
that a non-empty set of finite sets has a minimal member (`SmallestSet`), and from this
induction on the naturals over a set instead of a predicate (`Induct`) and the laws of sums
over finite sets (an element added, changed or taken out; bounds). A recursive function is
then shown to exist on each prefix and to agree with that of a longer sequence, so that a
step appends one value to it.

The constants need only the assumptions stated in the modules. `ThreadsAssumption` of
`ClientSend`, that sending threads are finitely many, is needed for the sum of their debts.
Every invariant and action property of the runs is stated by a theorem, but for `RequestsServed`,
which is about what a search finds in a row of cells and is only model-checked (its types are
proved, `HttpTypes`). Only model-checked, too, are the four properties under fairness (`QueuedIsSentLater`, `TerminateReturns`, `PlaceIsGivenBack`,
`StallsOnlyWhenCrossed`), which are out of the prover's reach.

## What disagrees with the code's own words

1. "Data is buffered and will be sent later" (`STXIOCPServer.cpp:2088`): not always
   (`ClientSend_stall`).
2. "Within this time new data must arrive, otherwise the connection is disconnected"
   (`STXServerBase.h:69`): not after a completion and its timeout have crossed
   (`OperationTimer_crossed`).
3. "delete without processing Disconnect Event!! Did you forget ..." (`STXIOCPServer.cpp:5183`): the
   library itself forgets it when the first READ fails (`ClientSession_event`).
4. "Changes on scripts take effect immediately" (`README.md:23`): not those of a module
   that the version before did not require, or whose run did not get to it
   (`ScriptCache_module`), and not those in the other windows of `MissedInWindowsOnly`: a save
   between the reading of a file and the removal of the mark, a script that the editor still
   holds, a module that the index does not have or that is in a folder. A change inside one
   of the windows takes effect with a later change only.


Two more were met without a run of their own. A status that "prepares to terminate"
(`STXServerBase.h:61-62`) stops nothing from beginning: what begins after its kind was closed
survives, as `OnlyLateSurvive` says. And the receive timeout of 2. fails without crossed locks
too, in the cases that `IdleClientIsWatched` names: the first READ of a client, fractions of a
second, a clock set back.

## Not modelled

Listed with reasons in `PROJECT.json`. Of the repository's source lines about nine in ten
belong to vendored libraries (SQLite, fastdb, Lua and its extensions, WTL, the concurrent
queue) and to RPC stubs the MIDL compiler generated; the modules cover the server library, of
which most lines in turn are wrappers, logging, text and byte layout.

Left out of the server library: HTTP requests and HTTP sub servers (WinInet and HTTP.sys
callbacks); web sockets (masking and frames); the stream framing, which hands over whatever
was read; IPv6 listeners, which repeat the IPv4 code with another map; statistics, whose sums
nothing depends on; the shared variable tree and the partitioned hash map, whose calls are
single steps under one lock and are modelled so where other modules use them; the registry of
custom operations, which nothing fills; `InternalTerminate`, which nothing calls;
`ClearBuffers`, which runs when the workers have left; the serialiser, logging, the Windows
clients and the test program; and the calls by which the application gives an outgoing
connection its scripts. Two of these call `LockConnectionMap` a second time where they should
unlock (`UniversalIOCPServer.cpp:1936-1946` and `1998-2008`): the map stays locked by the calling
thread, and `KillAllConnections` on another one would wait for ever. `TerminateReturns` holds for
a server in which they are not called. The limit of clients is a constant of `ClientSession`;
the data tree may lower it while clients are connected (`UniversalIOCPServer.cpp:3120-3125`), which
disconnects nobody: `AdmissionBound` is then about the limit that was in force.

The system is modelled by what the code relies on: completion packets, timer queue, sockets,
the concurrent queue. Use of freed memory is a free choice where the code goes on (the timer
callback), recorded and the end of the behaviour in `Server` (`undefined`), and left out where
it would simply crash (`_mapClients`). Two hazards have no property: the lock just named, and a send that read a socket
handle just before `CloseSocket` (`STXIOCPServer.cpp:2103`) could reach another connection when
the system gives the handle out again, which would need a model of handle reuse.

## Plan

1. Done: all parts with concurrent or multi-step protocols named in the inventory are
   modelled and checked; proofs for each specification.
2. Done: proofs of every safety property. Left to prove: nothing the provers can reach; the
   liveness properties stay with TLC.
3. Left to model: handle reuse under the send pipeline, web socket framing, the scripts of
   outgoing connections with the lock they leave taken, and the parts of `Server` two at a time
   on larger instances.
