# A TLA+ verification of EAWebKit's resource loading

EAWebKit 12 is a port of WebKit to game consoles and, here, to Linux. Most of
the tree is upstream WebCore and JavaScriptCore and vendored libraries. The
port's own logic with state and with a protocol is the resource loading under
`src/WebCore/platform/network/ea` and the public API around it in
`src/WebKit/ea/Api`. This directory holds TLA+ models of that part, TLC
configurations that check them and TLAPS proofs about them.

- [The system](#the-system)
- [Modules](#modules)
- [JobManager](#jobmanager)
- [HttpTransport](#httptransport)
- [DiskCache](#diskcache)
- [SocketTransport](#sockettransport)
- [CookieManager](#cookiemanager)
- [Runs](#runs) and [what they found](#what-the-code-does-not-do)
- [Proofs](#proofs)
- [What is not modelled](#what-is-not-modelled)
- [Plan](#plan)
- [Running it](#running-it)

## The system

Everything runs on one thread. The application calls `View::Tick`, which in
this order runs functions posted to the main thread, `TickDownload` (the job
loop), `TickTransportHandlers` (the network library, which calls back with
response headers), the socket handler's `Tick`, the shared timer, and paints.
What makes the system hard is re-entrancy: a transport calls the
`TransportServer` interface, that calls a `ResourceHandleClient`, the client is
WebCore, it runs script, and script may start and cancel loads, load
synchronously, or stop at a breakpoint of the inspector, where `EventLoop::cycle`
asks the application to go on ticking, inside the callback.

| Component | State | Operations | Talks to | Hard parts | Correct if |
|---|---|---|---|---|---|
| `ResourceHandleManager` | queue of handles, list of jobs with a state each, running count, condemned flag, one-shot timer | `add`, `cancel`, `changeResourceHandleState`, `downloadTimerCallback`, `ProcessJobs`, `RemoveDependentJobs`, `handleDataURL`, `loadResourceSynchronously` | handlers (calls), clients (callbacks), Views (shutdown), timer | nested loops over one list, cancellation and pausing from anywhere | every load ends, once, is dereferenced once, within the limit, shut down in its handler, never driven while deferred |
| Transport handlers | per-job data | `InitJob`, `Connect`, `Transfer`, `Disconnect`, `ShutdownJob`, `Tick` | manager (`DataReceived`, `DataDone`, `HeadersReceived`, `ReadData`) | callbacks outside the loop, return values against calls made | bracketed by the manager, one result per job |
| DirtySDK transfer, form data, decompression | pool of HTTP connections with their queues, a command, an upload and a decompressor per job | `Connect`, `HttpManagerUpdate`, header callback, `Transfer`, `HttpManagerFree` | servers, manager, form data | connections shared, taken over and waited for; bodies cut anywhere; deadlines and failures | callbacks go to live jobs, the verdict is right, an upload is sent once and whole, every transfer ends |
| `TransportHandlerDiskCache` | map of entries, files, ini file, counters, shared buffer, statics | `Init`, `Shutdown`, `CacheToDisk`, maintenance, `ClearCache`, `SetCacheDirectory`, the handler functions | manager, file system | crashes, failed writes, entries that change under a job | serves only what a server gave for the URL, map and files agree, limits kept |
| `CookieManager` | cookie list, parameters, file | header in and out, parameter change, init, shutdown | manager, file system | eviction, expiry, order of save and parameter change | within a session the last cookie given, from one to the next what the file was last given |
| Socket transport, `SocketStreamHandle` | list of sockets, client pointers | open, send, close, tick | DirtySDK, WebSocket channel | close from inside a callback | no call to a client that is gone, close and error told once |
| Synchronous loads | per job | a loop over the above | manager | spins, failures in the middle | ends, with one result |
| Cache directives, dates, MIME, domain filter | none | pure functions | cache, cookies, manager | text | agree with the grammar they cite |
| View life cycle, library start and stop | initialised flags | init, shutdown, tick | all | order of teardown | nothing refers to what was deleted |
| WebCoreSupport clients, platform UI, allocator, file system, threads, navigation, JS binding | little | forwarding, drawing, geometry | WebCore, application | none of ordering | - |

`PROJECT.json` lists all components with their status, and under `hazards`
every place in this code where something can go wrong that a test hardly
reaches, with the properties that cover it or the reason none does.

## Modules

| Module | Role |
|---|---|
| `JobManager` | the resource handle manager, its clients and the handlers seen from it |
| `MCJobManager` | instances of it for TLC: handles `a` to `d`, pages `p` and `q` |
| `JobManagerProofs` | inductive invariant and four theorems about `JobManager` |
| `JobStackProofs` | who calls whom in `JobManager`, and two theorems that follow |
| `JobNestingProofs` | what an interrupted load keeps and what a nested job loop leaves, with three theorems; the outcome of a load, with six |
| `SequenceLemmas` | `Front`, `Last`, `RemoveAt`, `SubSeq`, concatenation, sequences without repetition, and counting places in a sequence, as the proofs need them |
| `HttpTransport` | the inside of `TransportHandlerDirtySDK`: HTTP pool, uploads, responses, decompression |
| `MCHttpTransport` | an instance of it: an upload and a download over one connection |
| `HttpTransportProofs` | inductive invariants and four theorems about it |
| `DiskCache` | the disk cache, the disk, and the jobs it serves |
| `MCDiskCache` | instances of it for TLC |
| `DiskCacheProofs` | inductive invariants and six theorems about `DiskCache` |
| `SocketTransport` | the socket handler, `SocketStreamHandle`, `WebSocketChannel` and `WebSocket` |
| `WebSocketAPI` | what a page may see of a WebSocket, the specification `SocketTransport` implements |
| `MCSocketTransport` | instances of it: a server that speaks and one that is silent |
| `SocketTransportProofs` | inductive invariant, five safety theorems, and the refinement of `WebSocketAPI` |
| `CookieManager` | the cookie list, its file, and the process |
| `CookieStore` | what a cookie manager owes to servers, the specification `CookieManager` implements |
| `MCCookieManager` | an instance of it |
| `CookieManagerProofs` | inductive invariant, four safety theorems, and the refinement of `CookieStore` |

`JobManager` and `DiskCache` are separate state machines: the manager sees of
the cache handler only what its functions return and call (kind `"cache"`), the
cache sees of the manager only the order in which it calls a job's functions.
`DiskCache` assumes the order that `HandlerBracket` of `JobManager` states (the
theorem says for which behaviours), and so does `HttpTransport`, which opens the kind `"http"` of `JobManager`: there the
handler may answer anything, here its answers are derived from the network. The
socket handler and the cookie manager share only the thread with the others.

Definitions named `Wrong...` are mistakes a property exists to catch. No
specification uses them; `PROJECT.json` says which definition each replaces.

## JobManager

**State.** `pending`, `jobs`, `running`, `condemned`, `timer` are the members of
`ResourceHandleManager`. `info[h]` is the `JobInfo` of handle `h` and `rh[h]` the
`ResourceHandleInternal` with what the handle's transport still holds; `refs[h]`
is what `add` has `ref`ed. `stack` is the program's call stack, as far as it
concerns the manager: activations of the job loop with their iterator, of
`Transfer`, and of the client with the callback it was called by. A variable in
the middle of a C++ function (`it`, `started`, what `DataDone` was called with)
is a field of a frame. `loaded`, `gaveUp`, `open`, `verdicts` are history.

**Steps.** An action is what the code does between two points where other code
can run. `StartJob`, `StartRefused`, `StartDataURL` are the ways through
`startPendingJob`; `CondemnCancelled`, `SkipPaused`, `CallHandler`,
`CallTransfer`, `CondemnAgain` through one turn of the first loop of
`ProcessJobs` with `ProcessJobState`; `DataReceived`, `DataDone`, `TransferEnds`
are a handler's `Transfer`; `KeepJob`, `NotifyJobFailed`, `RemoveJob` are the
removal loop; `ReturnFrom...` what follows a client callback in the code that
made it. `Add`, `Cancel`, `Break`, `Resume`, `RunScript` are WebCore and its
script, `Tick`, `TimerFires`, `HeadersReceived`, `ShutdownView`,
`RemoveTransportHandler` the application.

**Data abstracted.** A URL is its kind (`KindOf`): which handler it goes to, or
why it goes to none. Headers are "none", "redirected" or "seen". A body is a
number of reads, `Chunks`. A handler of the application (`"custom"`) returns
whatever it likes, except that it does not report success and then fail.

**Left out.** One redirect per load; one custom handler; `ShutdownView` and
`RemoveTransportHandler` are called by the application outside callbacks;
breakpoints need an inspector View, and the pages they pause are all but the
inspector's. A page deferred by `window.close()`, synchronous loads and the
destructor are not modelled.

**Fairness** (`FairSpec`, only for `EveryLoadEnds`). The code has no scheduler;
each assumption is about who calls it. The thread goes on with what is on its
stack (`WF` of the loop and of each job's steps). Script ends (`SF` of
`ClientReturns`; strong because script may stop at a breakpoint in between) and
a developer resumes it (`SF` of `Resume`). The application ticks again and again
when nothing runs, which is how the library gets its time (`SF` of `Idle /\ Tick`). A transport does not send data for ever and ends with an
answer, an error or the page timeout (`SF` of `DataDone` per handle). No
fairness is given to the one-shot timer: the application's tick drives the same
loop, and `NoLostWakeup` says that the timer alone would do.

## HttpTransport

**State.** `refs[r]` is a connection of the pool (`HttpRefs`, `ProtoHttp`): idle
or busy, how many commands it serves or will serve, the job its callbacks name,
the state of its request, what the server has still to send and what lies in its
buffer. `jobs[j]` is a load: where it stands in the job loop, its command in the
pool (idle, waiting for its connection, or active), its form, its decompressor
and the last response's encoding. `limit` is `m_maxConcurrentJobs`, which
follows the parameters; the pool keeps the size it was created with.
`overcommitted`, `got` and `uploads` are history.

**Steps.** `InitJob`, `Connect`, `Transfer`, `Disconnect`, `ShutdownJob` are the
handler's functions as the job loop calls them, one job at a time.
`StartQueued` and `Update` are the two halves of a turn of `HttpManagerUpdate`;
`Respond`, `Redirect`, `Arrive`, `ServerCloses`, `ConnectionFails` are what
`ProtoHttpUpdate` finds on a connection, with the header callback (`RecvHeader`)
inside. `Cancel`, `DeadlinePasses`, `SetParameters` come from outside.

**Data abstracted.** A body is two pieces of content. They travel as they are or
packed; gzip puts a head, which may be cut in two, before them and a trailer
behind; "raw" is deflate without zlib's head. A receive brings any number of
pieces. What zlib makes of pieces of another load's response is left open
(`Outcomes`). A form is a few elements, of which the code reads those before the
first it cannot read, and any file is one of these: `FormDataStream::read` leaves
when the file *could* be opened (`FormDataStreamEA.cpp:114`). Which of the least
used connections is chosen depends on hosts and is left open. PUT and DELETE go
the way of POST and GET. Chunked bodies count as bodies of unknown length.

**Bounds.** One connection and two loads: the second finds the connection free,
busy (after the limit was raised), or left in the middle of a response. `Room` is
two form elements, and there is a form of three. One redirection. Which methods
and encodings a load may have differs per load, so that both occur with each.

**Fairness** (`FairSpec`, for `TransfersEnd`). The application ticks while loads
run, so the job loop handles each of them (`WF` of `Handle(j)`) and
`HttpManagerUpdate` each connection (`WF` of `StartQueued(r)`, `Update(r)`). That
`Update` does anything on a silent connection is `mPageTimeoutSeconds`, after
which `ProtoHttpUpdate` fails it (`protohttp.c:1278`). No fairness is given to
deadlines, cancellation or the parameters.

## DiskCache

**State.** `cache` is a record: the handler's members, its statics and the disk;
`cache.disk[d]` is a directory with its `*.cache` files by name and what its
ini file lists. `jobs[j]` is a job's `FileInfo` and where it stands. `openJobs`,
`openFiles`, `buffer` are the statics `sOpenJobCount`, `sOpenFileCount` and
`spCacheDownloadBuffer`. `calls` holds the jobs inside `DataReceived`, which is
where other code can run in the middle of a job.

**Operations and crashes.** An operator like `CacheToDisk` or
`DoPeriodicCacheMaintenance` gives the set of states it can end in, with, in
`images`, every state of the disk on the way. `Does` lets it end in one of them
or lets the program die and start again with one of the images. So a crash may
come between any two writes of any operation, and `Write` and
`UpdateCacheIniFile` also have the outcomes of a failed write. Nothing is
assumed about what the file system reorders: a write is durable when the call
returns.

**Data abstracted.** A body is the URL it was given for and a version; equal
bodies have equal size and checksum, different ones have different checksums,
so a checksum collision is left out. `MakeTempPathName` takes its name from a
clock other than the one of the entries, so any name no file has may come up.
One MIME type, and only answers that may be cached. A file opened by a job stays
readable after it is removed (POSIX `unlink`). An ini file that is half written
lists nothing, because its checksum fails.

**Left out.** The 4 MB filter on files named in the ini file;
`SetDiskCacheUsage` from inside a callback; cancelling a job inside its own
`DataReceived` (`JobManager` has that).

## SocketTransport

**State.** `list` is `mSocketInfoList`. `sock[s]` holds, for one WebSocket the
page makes, the fields of its `SocketInfoT`, `SocketStreamHandle`, its `Private`,
`WebSocketChannel` and `WebSocket`. `stack` is the call stack: `Tick` with its
iterator, the channel's loop over its buffer, and script in an event, which may
stop at a breakpoint. `sent` and `heard` are history.

**Steps.** `Update`, `Receive`, `ReceiveEnds`, `Keep`, `TellError`, `Erase` are
one turn of `SocketTransportHandlerDirtySDK::Tick`. `DiscardData` to `ProcessDone`
are `WebSocketChannel::processBuffer`. `Make`, `SendMessage`, `Close` are script's
calls and `Stop` the page's end; `Break`, `Resume`, `ResumeTimerFires` are the
debugger's suspension, `ClosingTimerFires` the timeout of a closing handshake. An
event runs script (`Dispatch`), and what the code does after it is
`ScriptReturns`.

**Data abstracted.** What a server sends is cut into the pieces the channel tells
apart: its handshake, a message, the closing frame, a frame it cannot read, one
whose length it cannot read. A piece does not arrive in halves, a send is
accepted whole or refused, and buffers have no limit.

**Bounds.** `MaxTicks = 1`: with a nested `Tick` the iterator of the outer one may
dangle, where the model stops; the proofs cover any nesting up to there. Two
sockets, since `Tick` walks a list from which callbacks take and to which they
add; the server of one sends its handshake and one piece more.

**Fairness.** As for `JobManager`: the thread goes on with its stack (`WF`), script
ends and a developer resumes it (`SF`, because a breakpoint may come in between),
the application ticks and fires timers when nothing runs (`SF` of `Idle /\ ...`).

## CookieManager

**State.** `cm` is the manager (parameters, list, whether it is initialised, the
size of its parse buffer) and the files by path; `now` the clock; `faulty` says
whether this is a behaviour with faults, and never changes.

**Steps.** A function of the code is an operator from a manager to the managers
it may become: `WriteCookiesToFile` has the outcomes of a failed write,
`SetParametersAndInitialize` those of its `Shutdown`. The actions are the calls:
`OnHeadersRead`, `OnHeadersSend`, `AddCookie`, `SetCookieUsage`, `RemoveAll`,
`Exit` (the library is shut down and used again); `Die` and `DieWriting` end the
process at any time, also between opening the file and closing it. These two, and
a failed write, occur when `faulty` is true.

**Specification.** `CookieStore` has what is sent for each name (`jar`), the file in
use and what every file holds (`copies`). Within a session a name is given a cookie
or loses it; the cookie in the jar is thus always the last one given. A session
starts in `Use(f)`, with what `f` holds or a part of it; a file changes only when
it is saved, removed or lost to a crash, and `Save` puts into it what is sent at that
moment and has a lifetime. An old cookie can so come back in one way, from a file
that was not written since it had it: another file was in use, or nothing was sent
when the session ended (`jar = Empty`; the code then writes nothing, which is what
`CookieRevived` is about), or there were faults.

**Data abstracted.** A cookie is identified by name, domain and path together;
whether a header is valid and for which page a cookie is sent are matters of
text, and the model's cookies are valid and all of one page. Lines of the file
have one length for `mMaxCookieFileSize`, and a length of their own against the
parse buffer.

**Bounds.** Two cookies and two values, two files, three sets of parameters: small
and large limits, and cookies disabled. The clock reaches 1, so that a lifetime
of 0 (withdrawn) and of 1 both occur and expire. `Cookies` has behaviours with
faults and without: without them `CookieStore` asks more of a `Save`.

## Runs

Bounds are constants: `MaxTicks` (job loops active at once), `Chunks`,
`MaxTime`, `MaxCalls` (jobs inside `DataReceived` at once), and the sets of
handles, URLs, names and jobs; those of the other modules are given with them
above. Two handles are enough for everything a pass over
the list can do to another job of it; four make a queue with a refused load and
a data URL among loads that run. Two ticks are one interruption, and a third
would only interrupt that one in the same way. Two names and two URLs allow a
name to be used again for another URL, and a clock up to 2 allows an entry to
expire and a later one to live.

Deadlock is checked except in `JobsNested`, where the model may stop because the
code would go on with the iterator of an erased job, which is undefined, and in
`Transfers`, which stops when every load is over.

| Run | Instance | Checks |
|---|---|---|
| `JobsTransports` | a POST and a load by a custom handler, two pages, one slot | `TypeOK`; `QueuedOnce`: no handle is in two places; `HandlerBracket`: who was initialised is shut down; `ViewForgotten`: a View that is shut down leaves nothing; `NoneLeftCondemned`: condemned jobs do not outlive the loop; `CancelRespected`: a client that cancelled hears only of a failure on record, or the rest of a data: URL |
| `JobsQueue` | two files, a refused load and a data URL of one page, one slot, bodies empty | `RunningCount`, `JobLimit`, `NoLostWakeup`; `RefsMatch`: references balance; `OneVerdict`, `SuccessIsTold`: a client is told the end at most once, and a success always |
| `JobsNested` | cache and file, two pages, ticks at a breakpoint | `NoReentrantTransfer`, `NoLostWakeup`, `DataNotDeferred`: no `Transfer` moves data of a load that is deferred or paused |
| `JobsLiveness` | http and file of a page, one slot, fairness | `EveryLoadEnds` |
| `DiskEntries` | two URLs, two names, limits that shrink, crashes | `TypeOK`; `EntriesBacked`: every entry has a file of its own; `NothingLeaks`: every complete file has an entry; `InitSweeps`: a start leaves only the files of entries |
| `DiskServes` | two URLs, one name, two jobs, crashes | `ServesOwnBody`: a load that ends well was served a body given for its URL; `OpenCounts` |
| `Transfers` | an upload and a download, one connection, fairness | `TypeOK`; `CallbackAlive`: DirtySDK calls back for a load that is there and has the connection; `VerdictIsRight`: a load that ends well has its own whole body, one that fails has a cause; `UploadIsWhole`: a form is sent once and as it is; `TransfersEnd` |
| `Sockets` | two WebSockets, one Tick | `TypeOK`; `HandleInList`, `LetGoIsClosing`: who holds what of a connection; `ClientAlive`: no call to a deleted stream; `BufferIsLost`: nothing waits on a healthy connection; `ImplementsAPI`: script hears what `WebSocketAPI` allows |
| `SocketEnds` | one WebSocket, fairness | `CloseCarriedOut`; `ErrorTold`: an error reaches script, at once or after a breakpoint |
| `Cookies` | two cookies, failures and crashes | `TypeOK`; `UniqueCookies`; `BufferFits`; `DisabledIsClean`; `ImplementsStore`: within a session what is sent was given last, and from one to the next it is what the file in use was last given |

`DiskServes` has a single name on purpose: every file then reuses the name of
the last, which is the worst case for serving the wrong body.

`HandlerBracket`, `ViewForgotten`, `RefsMatch`, `OneVerdict` and `SuccessIsTold` are
checked with `MaxTicks = 1`. With a second tick each of them fails: `pop_back` may
remove another job (see below), a nested loop finds a condemned job again while its
client is still being told of the failure, and a loop run by `ShutdownView` skips the
jobs of pages paused at a breakpoint and lets a nested tick start more. The theorems
say which breakpoints these are, and that nothing else stands in the way.

`VerdictIsRight` and `UploadIsWhole` say nothing once more loads have run at a
time than the pool has connections: then requests are started without their
data, and again, as described below. `CallbackAlive` and `TransfersEnd` hold all
the same.

### What the code does not do

Each run below checks one property that a comment states, and TLC finds a
behaviour of the code that breaks it. `PROJECT.json` quotes the lines.

| Run | Stated | What happens |
|---|---|---|
| `DisconnectUntold` | `disconnect()` will call `didClose()` | the stream forgets its socket, `Tick` destroys it without a word, and script never hears that it is closed |
| `CookieRevived` | a max-age of zero discards a cookie at once | an empty list is not written, so the file of an earlier run brings the withdrawn cookie back |

Further disagreements of code and comments that the models contain, for which no
run is kept:

- `ResourceHandleManagerEA.cpp:650` protects a cancelled client in the first
  loop only; the removal loop still calls its `didFail` if the load had failed
  before, and `handleDataURL` makes the calls that are left (`CancelRespected`
  admits these and no other).
- `ResourceHandleManagerEA.cpp:905` asserts that headers do not arrive while
  deferred; they come from the transport's tick, which no pause stops
  (`HeadersReceived`).
- `ResourceHandleManagerEA.cpp:371` handles a data: URL without asking whether the
  page has deferred loading: one that a nested tick starts gives its data to a
  deferred page (`StartDataURL`). `DataNotDeferred` is about `Transfer`, and says
  nothing of these two.
- `ResourceHandleManagerEA.cpp:703` asserts that count and list size agree; not
  while the client of a refused load ticks (`RunningCount` says what holds).
- `EAWebKitTransport.cpp:375`: the file handler reports a failure, which condemns
  the job, and returns success, which takes it on to Disconnect. It is shut down
  and its client told all the same.
- `ResourceHandleManagerEA.cpp:1059`: a POST whose body cannot be read is cancelled
  by the manager itself; it ends with `mbSuccess` and without a word to its client
  (`SuccessIsTold` excepts it).
- `TransportHandlerDiskCacheEA.cpp:1753` evicts only while both limits are exceeded,
  so the size limit alone evicts nothing.
- `TransportHandlerDiskCacheEA.cpp:848` means to remove an entry with a wrong
  checksum by a function that ignores GET (`End` calls `Invalidate` with it).
- `TransportHandlerDiskCacheEA.cpp:855` asserts that the entry of a file being
  served exists; a POST to the URL takes it away.

Jobs:

- `ResourceHandleManagerEA.cpp:690`, with `EAWebKitClient.h:735`: a tick at a
  breakpoint, which the client is asked for, erases the job the outer loop stands
  on. The model stops there.
- `ResourceHandleManagerEA.cpp:389`: while the client of a refused load is told, a
  nested tick appends another job; `pop_back` then removes that one, which never
  runs and whose handle is never dereferenced, and the refused one stays without
  its reference.

The disk cache:

- `TransportHandlerDiskCacheEA.cpp:1647` counts `sCurFileCount` down for files it
  never counted, and more files than the limit are stored.
- `TransportHandlerDiskCacheEA.cpp:1162`: the comparison is the wrong way round,
  the cache is cleared when the directory stays the same.
- `TransportHandlerDiskCacheEA.cpp:810`: a cached load run from inside
  `DataReceived` overwrites the shared buffer before it is summed.
- `TransportHandlerDiskCacheEA.cpp:920`: a full cache never reaches the maintenance
  that would remove what has expired.

The HTTP transport:

- `EAWebKit.h:173` says the buffer size "does not put any limit on the actual
  resource size", but a form that does not fit behind the headers is cut to what
  does (`protohttp.c:340`) and the rest is never sent; `Connect` only tests for
  a negative result. The Content-Length announces all of it.
- `EAWebKitTransport.h:90` promises a negative value for an error of `ReadData`; the
  code returns 0, and the form is sent up to there.
- `FormDataStreamEA.cpp:114` has its test inverted: a file that could be opened is
  not read.
- `ResourceHandleManagerEA.cpp:1322` lets the limit grow beyond the pool. Requests
  then wait, are started without their data (`protohttpmanager.c:650`), and freeing one
  that waits makes the pool start the connection's current request again.
- `TransportHandlerDirtySDKEA.cpp:612` tests the handle for 0, `HttpManagerAlloc`
  returns -1.
- `TransportHandlerDirtySDKEA.cpp:779`: this DirtySDK has no OPTIONS, so no request
  is made and the load waits for its deadline (`TransfersEnd` excepts it).
- `TransportHandlerDirtySDKEA.cpp:1166` waits for a 304 that `ProtoHttp` turns into a
  failure (a redirection without a location).
- `protohttp.c:1364`: the retry on a kept connection sends what is left of the
  request, which is nothing once it had been sent, and runs into the timeout.
- `StreamDecompressorEA.cpp:338` fails a load of which less than the gzip head has
  come in the first receive; `FailureHasCause` names it.
- A body without a length that is cut off counts as whole, as HTTP/1.0 has it.

Web sockets:

- `SocketStreamHandleBase.h:51` says `close` disconnects "after all data in buffer are
  sent"; nobody calls `sendPendingData`, so such a stream stays `Closing`.
- `TransportHandlerDirtySDKEA.cpp:1424` reports a short write as a whole one.
- `TransportHandlerDirtySDKEA.cpp:1482`: a nested `Tick` erases the socket the outer
  one stands on. The model stops there.

Cookies:

- Cookies saved under a larger limit are all read back, so the count exceeds
  `mMaxCookieCount` until the next change.
- Disabling cookies at the first call deletes the file of the parameters before,
  not the one that is named.
- `AddCookie` before the manager is initialised is dropped.
- Lowering the limit cuts the newest cookies, where eviction drops the oldest
  (`CookieManagerEA.cpp:567`).
- Session cookies do not survive a change of parameters, which writes and reads the
  file; a cookie whose line in the file is longer than its header may be lost.
- `CookieManagerEA.cpp:500` opens, and so empties, the file before it tests whether
  anything may be written.

## Proofs

`JobManagerProofs` proves, for every set of handles and Views, every assignment
of kinds and Views to handles, every limit and every nesting depth:

| Theorem | States |
|---|---|
| `TypeCorrect` | `Spec => []TypeOK` |
| `RunningJobsCounted` | `Spec => []RunningCount` |
| `NoLoadLeftAsleep` | `Spec => []NoLostWakeup` |
| `LimitKept` | `Spec => []JobLimit` |

They rest on the assumptions named in `JobManager` (`KindAssumption`,
`ViewAssumption`, `HandleAssumption`, `BoundAssumption`), which say no more than
that the constants have their types and the limit is at least one.

None of these invariants is inductive. `IInv` adds to the types of the variables:

- `WellStacked`: what a frame may be (`GoodFrame`: a callback names a handle,
  only `downloadTimerCallback` starts jobs), that `Transfer` is always called by
  the first loop (`TransferInRun`; its return advances the iterator of the frame
  below), and that a `downloadTimerCallback` interrupted in its second
  `startPendingJobs` has noted that it must arm the timer (`BusyBelow`);
- the count, relative to the refused loads whose clients are on the stack;
- `RestartBusy`: a callback about to leave has seen a job, or there is none;
- the wakeup itself, in terms of the stack.

The interesting case is a nested tick inside a refusal: `pop_back` then removes
whichever job is last. The proof shows that the *count* survives that, which is
what `RunningCount` says, although the job removed is not always the right one.

Layout: lemmas on frames, then three on what a call, a step of the top frame and
a return do to a stack (`Calls`, `TopSteps`, `StackReturns`); one lemma per
action, `...Keeps`; `NextIInv` puts them together. `LimitKept` needs an induction
of its own on top of `IInv`.

`JobStackProofs` and `JobNestingProofs` go on from `IInv`, under the same assumptions
and again for any nesting depth:

| Theorem | States |
|---|---|
| `CallersRight` | `Spec => []Stacked` |
| `QueuedOnceHolds` | `Spec => []QueuedOnce` |
| `CancelledLeftAlone` | `Spec => CancelRespected` |
| `InterruptedLoadsRest` | `Spec => []Suspended` |
| `TransferNotReentered` | `Spec => []NoReentrantTransfer` |
| `NoDataWhileDeferred` | `Spec => DataNotDeferred` |
| `CondemnedLookedFor` | `Spec => []Condemnation` |
| `CondemnedAllGone` | `Spec => []NoneLeftCondemned` |
| `HandlersBracketed` | `Spec /\ []Unbroken({"refused"}) => []HandlerBracket` |
| `ReferencesMatched` | `Spec /\ []Unbroken({"refused"}) => []RefsMatch` |
| `SuccessesTold` | `Spec /\ []Unbroken({"refused"}) => []SuccessIsTold` |
| `ToldOnce` | `Spec /\ []Unbroken({"refused", "fail"}) => []OneVerdict` |
| `ViewsForgotten` | `Spec /\ []Unbroken({"refused"}) /\ []Unhindered => []ViewForgotten` |
| `OneLoopEnough` | `Spec` implies these five if `MaxTicks <= 1` |

`Unbroken(cbs)` says that no client is at a breakpoint in one of the callbacks `cbs`:
`"refused"` is the failure that `startPendingJob` tells itself, `"fail"` the one that
the removal loop tells. `Unhindered` says that no client is at a breakpoint while the
job loop of `ShutdownView` runs. These are conditions on what a behaviour does, and
any number of loops may still be active inside one another, at a breakpoint in a
response, in data, in a successful end or in a data URL. None of them can be left out:
on instances with a nested tick TLC violates each of the five without its condition,
`OneVerdict` also with `Unbroken({"refused"})` alone, and `ViewForgotten` also without
`Unhindered`. They are what the code needs and does not see to. With one loop at a
time (`OneLoopEnough`) they hold of themselves, and the theorem covers the instances
of the runs for every set of handles.

Each is about a step deep in a stack of loops, transfers and clients, and each needs
to know what that stack may be. The arguments, in the order they build on each other:

- `Stacked` says who calls whom (`CalledBy`): a loop runs from outside or at a
  breakpoint, a `Transfer` under the loop that stands on its job, a client under the
  code that calls it. At most one client is at a breakpoint, and it is of a page that
  is not the inspector's. The lemmas before it give every step of the program one of a
  few forms: it calls (`CallOf`), marks the frame on top (`Marked`), returns, or leaves
  the loops alone (`Calm`, `Moved`).
- `Queued` adds to `QueuedOnce` that a handle not yet begun is untouched and that one
  whose client has given it up is marked cancelled or known to nobody. So a job that
  `RemoveJob` takes away cannot come back, and a client that is called has not given
  up (`CancelledLeftAlone`).
- `Suspended` is about a load interrupted by a breakpoint, in the middle of its
  `Transfer` or of its client. Its parts: a load whose client is being told of its
  opening or of its failure is told nothing else (`Opened`, `Failed`) and is condemned
  if it failed (`FailedCondemned`); one whose client is being given an answer is still
  in the state Transfer and paused exactly while that client is at the breakpoint
  (`Answering`); the `Transfer` in control belongs to a job that is not paused
  (`InControl`), and there is one `Transfer` per job (`OneTransfer`); a handle is
  deferred exactly while its page is (`Deferred`), and its job paused with it
  (`Paused`). A nested loop skips paused jobs, so it enters no `Transfer` again.
- `Condemnation` is about loops that share `m_condemned`. While it is set a loop will
  look again (`LooksAgain`), it is set while a job is dead (`DeadIsNoted`), the
  innermost loop beyond its removals has found none (`AllRemoved`), and one that is
  removing has the dead still ahead of its iterator (`StillAhead`), so that the
  outermost leaves none behind although inner ones clear the flag.
- `Bracket` says where between `InitJob` and `ShutdownJob` a job stands by its state,
  that a `Transfer` on the stack has its handler open, and that a load being refused
  is still the last in the list (`RefusedLast`), with nothing above its client: so
  `pop_back` removes that load, and a job that leaves has been shut down.
- `Referenced` gives for each handle the references due, by where it is: in the queue,
  in the list, being told in a data URL (`DataApart` keeps these two apart), or gone.
- `Verdicts` says that a client that has been told its end, and is still there, is
  being told or has cancelled, and that its job succeeded or is about to be removed
  (`Told`); before that nothing has failed and nothing was said (`Intact`, `Untold`).
- `Answers` is the converse. A client that is gone has been told (`Heard`), and a load
  that has not failed and whose client has not been told is still going on, and has
  not got beyond its `Transfer` (`GoesOn`).
- `Closing` follows `ShutdownView`: while its loop runs, every job of the page that is
  listed is condemned, none is in a `Transfer`, and nothing starts more
  (`NoStartInShutdown`); afterwards nothing of the page waits or is worked on.

`DiskCacheProofs` proves, for any URLs, names, jobs, limits and clock, and through
failed writes, crashes in the middle of an operation and restarts:

| Theorem | States | Needs |
|---|---|---|
| `TypeCorrect` | `Spec => []TypeOK` | |
| `CountersRight` | `Spec => []OpenCounts` | |
| `EntriesAreBacked` | `Spec => []EntriesBacked` | one directory |
| `NothingIsLeaked` | `Spec => []NothingLeaks` | one directory |
| `InitLeavesNoOther` | `Spec => InitSweeps` | one directory |
| `OwnBodyServed` | `Spec => []ServesOwnBody` | `MaxCalls <= 1` |

The two hypotheses are what the code needs, not what the proof needs. With two
directories `SetCacheDirectory` moves on while the map names files of the directory
before (the comparison described above is the wrong way round), and TLC refutes
`EntriesBacked`; with `MaxCalls = 2` a load run from inside `DataReceived` overwrites
the shared buffer, and TLC refutes `ServesOwnBody`. The theorems cover every use that
stays clear of the two. `OwnBodyServed` is about loads that end well: with an ini file
older than the files a client may be handed the body of another URL, and its load
fails at the end, on the checksum.

`Sound` is what each operation keeps: the map and every ini file on the disk, in the
present and in every image a crash may leave, give each entry a body of its own URL
and, in one directory, a file of its own (`Listable`, `Durable`); and while the cache
is on every entry has its file and every complete file its entry (`Consistent`).
There is one lemma per operator, `...Does`, saying which states it may end in, and
one per action, `...Keeps`. `JobsInv` relates what a job holds to where it stands
(`InStep`) and the counters to that; `Receivers` says that the jobs inside
`DataReceived` are distinct; `Serving` follows the shared buffer from the read to the
client.

`HttpTransportProofs` proves, for any loads, pool, limits and changes of the limit:

| Theorem | States |
|---|---|
| `TypeCorrect` | `Spec => []TypeOK` |
| `CallbacksAlive` | `Spec => []CallbackAlive` |
| `UploadsAreWhole` | `Spec => []UploadIsWhole` |
| `VerdictsAreRight` | `Spec => []VerdictIsRight` |

`IInv` counts: the `transactions` of a connection are the loads that have it
(`Counted`), which run and have been through `Connect` (`Placed`); and while no more
loads have run than there are connections, no two loads share one and each of
them was served as it should (`Alone`). That `Request` then finds a connection nobody
has is the pigeonhole principle (`FreeConnection`): the loads that run, without the
one that asks, are fewer than the connections.

`TypeCorrect` needs that a load with a command has a connection (`Linked`), and what
reading a form and inflating a response make of a sequence. Neither is an induction:
what is readable of a form ends where the first missing file is, and `Inflate` counts,
so that its n-th piece is there because counting the packed pieces up to each is an
injection between two sets of one size (`NthExists` in `SequenceLemmas`).

`VerdictsAreRight` has an invariant of its own (`AllRight`), for each load (`Right`):
what is in its connection's buffer and what it has taken out of it make up the
beginning of the server's answer to it and to nobody else (`Received`), what it has
handed on is that answer decoded (`Handed`), and when it has failed there was a cause
(`Caused`). The first of these holds for a load that never shared its connection,
which is what `Alone` gives while no more loads have run than there are connections.

`SocketTransportProofs` proves, for any sockets, servers and nesting of ticks:

| Theorem | States |
|---|---|
| `TypeCorrect` | `Spec => []TypeOK` |
| `HandlesAreInList` | `Spec => []HandleInList` |
| `LetGoMeansClosing` | `Spec => []LetGoIsClosing` |
| `ClientsLive` | `Spec => []ClientAlive` |
| `BuffersAreLost` | `Spec => []BufferIsLost` |
| `SpeaksWebSocket` | `Spec => ImplementsAPI` |

`Sound` relates the objects of one socket to each other, `Listed` to the list,
`Fine` to the frames that are telling its end; `WellStacked` says that script below
the top of the stack is stopped at a breakpoint, which is why a `Tick` finds nobody
in the middle of a call; `NoRepeats` that a socket is in the list once. For the
refinement (`LiveIsOpen`) a channel that still has its client belongs to a WebSocket
that has not closed, so that an event of the channel is one its page may hear.
Each action maps to one step of `WebSocketAPI` or to a stutter.

`CookieManagerProofs` proves, for any cookies, files and parameters:

| Theorem | States |
|---|---|
| `TypeCorrect` | `Spec => []TypeOK` |
| `NoNameTwice` | `Spec => []UniqueCookies` |
| `BufferAlwaysFits` | `Spec => []BufferFits` |
| `DisabledStaysClean` | `Spec => []DisabledIsClean` |
| `StoreImplemented` | `Spec => ImplementsStore` |

`Fits` also covers a manager that is not initialised, whose buffer
`SetParametersAndInitialize` may have allocated; `Clean` covers the file. `Stocked`
says of the list, and of every file that is whole, that no name is in it twice. `Idle`
says that a manager nobody has initialised holds nothing, so that what
`ReadCookiesFromFile` appends to is empty: without it the list would have a name from
before and from the file. Cutting, filtering, evicting and removing leave a list
`Within` the one before, an injection of places, and that keeps all of it.

For the refinement each function has a lemma that says what it does to the content
of the files: `RemoveCookies` leaves the file in use empty and no other touched
(`Emptied`), `WriteCookiesToFile` puts nothing into it but what is sent and has a
lifetime, or leaves it as it was (`Saves`), reading changes no content (`Same`) and
brings nothing that is not in the file. `NextStep` gives every action one of the six
forms `Loses`, `Gives`, `Clears`, `Ends`, `Uses` and `Dies`, which say this of sets of
cookies, and each is an action of `CookieStore`; a set in which no name is twice is a
jar (`JarIs`). `Quiet` says that a manager nobody has initialised has no file: a header
that initialises it, with the default parameters, then neither writes nor reads one,
and is one step, not two.

The proofs rest on the assumptions named in the modules, which give the constants
their types and say that `None` is none of them.

Only model-checked is liveness (`EveryLoadEnds`, `TransfersEnd`, `CloseCarriedOut`,
`ErrorTold`), as fairness and `ENABLED` are out of the prover's reach. Every other
property of a passing run is a theorem, five of them under the conditions given with
them.

## What is not modelled

Synchronous loads run to their end inside one call, on a pool of their own; they and
the parsing of cache directives are next (see the plan). Dates, MIME sniffing,
cookie text and headers are text formats. The domain filter and text wrapper are
stateless string functions, of which the manager needs the verdict only. Document
navigation is geometry. Allocator, file system and threads are wrappers; the file
system appears in `DiskCache` and `CookieManager` as files. WebCoreSupport and the
private API forward calls between WebCore and the application. WebCore,
JavaScriptCore and everything in `src/EAWebKitSupportPackages` are upstream or
vendored and far larger than the port: of them, `WebSocketChannel` and `WebSocket`
are in `SocketTransport`, and DirtySDK's `HttpManager` and `ProtoHttp` in
`HttpTransport`, because what the port promises depends on them; the rest is
modelled by what the port uses of it, or not at all. zlib is an operator.

## Plan

In the order of importance to a page being loaded right; 1 to 6 are done.

1. `JobManager`, its runs, its first proofs.
2. `DiskCache` and its runs.
3. `SocketTransport`, its abstract specification and their proofs.
4. `CookieManager`, its abstract specification and their proofs.
5. `HttpTransport`, its run and its proofs.
6. Proofs of `DiskCache`, and of the outcome of a load in `JobManager` for
   behaviours in which its client does not stop at a breakpoint where it must not.
7. `SyncLoad`: `loadResourceSynchronously` over the state machine of a job.
8. `CacheDirectives`: `SetDirectivesFromHeader` and
   `ExtractCacheControlDirectives` as operators over sequences of tokens, checked
   against the grammar of RFC 2616, 14.9 that the source quotes.
9. Abstract specifications and refinements: `LoadService` (a load is requested,
   answered in pieces, ended once or given up), implemented by `JobManager`
   with one tick; `UrlCache` (a map from URLs to bodies that may lose entries
   at any time and never invents one), implemented by `DiskCache`.

## Running it

    tlc -config JobsQueue.cfg MCJobManager
    tlapm JobManagerProofs.tla

The proofs of `JobNestingProofs` take about ten minutes, the others less. Each run
finishes within three minutes on two workers; the longest are
`JobsLiveness` and `JobsQueue`.
