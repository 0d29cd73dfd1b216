------------------------------ MODULE JobManager ------------------------------
(***************************************************************************)
(* WebCore::ResourceHandleManager: the queue of ResourceHandles waiting    *)
(* for a transport, the list of running jobs and the loop that drives each *)
(* job through its TransportHandler.  The program has one thread, so       *)
(* everything that can interleave does so through the call stack: a job's  *)
(* handler calls the TransportServer interface, that calls the             *)
(* ResourceHandleClient, and the client is WebCore, which may start and    *)
(* cancel loads, and, at a JavaScript breakpoint, hands the thread to the  *)
(* application, which ticks the inspector's View and so re-enters the job  *)
(* loop.  `stack' is that call stack; a step of this module is what the    *)
(* code does between two points at which other code can run.               *)
(***************************************************************************)
EXTENDS Integers, FiniteSets, SequencesExt

CONSTANTS
  Handle,             \* the ResourceHandles that are ever started
  View,               \* the EA::WebKit::Views (a page each)
  Inspector,          \* those of them that show the inspector
  None,               \* no handle, no view
  KindOf,             \* the kind of transport each handle's URL asks for
  ViewOf,             \* the View each handle loads for
  MaxConcurrentJobs,  \* Parameters::mMaxTransportJobs
  MaxTicks,           \* bound: job loops active at the same time
  Chunks              \* bound: reads that return data, per handle

(* What becomes of a URL: "http" and "post" go to TransportHandlerDirtySDK, *)
(* "file" to TransportHandlerFileScheme, "cache" is an http URL that        *)
(* IsCachedDataValid sends to TransportHandlerDiskCache, "custom" goes to a *)
(* handler of the application, "data" is a data: URL, "nohandler" has a     *)
(* scheme nobody handles and "filtered" is rejected by the domain filter.   *)
Kinds == {"http", "post", "file", "cache", "custom", "data", "nohandler", "filtered"}

DirtySDK == {"http", "post"}

ASSUME HandleAssumption == None \notin Handle /\ None \notin View
ASSUME KindAssumption   == KindOf \in [Handle -> Kinds]
ASSUME ViewAssumption   == ViewOf \in [Handle -> View] /\ Inspector \subseteq View
ASSUME BoundAssumption  == /\ MaxConcurrentJobs \in Nat \ {0}
                           /\ MaxTicks \in Nat
                           /\ Chunks \in Nat

VARIABLES
  pending,    \* m_pendingResourceHandleList
  jobs,       \* m_JobInfoList, each job named by its handle
  info,       \* the JobInfo of each handle that has had one
  running,    \* m_runningJobs
  condemned,  \* m_CondemnedJobsExist
  timer,      \* m_downloadTimer.isActive()
  installed,  \* the custom handler is in m_THInfoList
  rh,         \* ResourceHandleInternal, and what the handle's transport holds
  refs,       \* references the manager holds on each handle
  closed,     \* Views whose ShutdownView has returned
  stack,      \* the call stack
  loaded,     \* history: handles start() was called on
  gaveUp,     \* history: handles whose client called cancel()
  open,       \* history: jobs the handler initialised and has not shut down
  verdicts    \* history: terminal callbacks (didFinishLoading, didFail) per handle

hist == <<loaded, gaveUp, open, verdicts>>
vars == <<pending, jobs, info, running, condemned, timer, installed, rh, refs,
          closed, stack, hist>>

-----------------------------------------------------------------------------
(* State.                                                                    *)

JobState == {"Init", "Connect", "Transfer", "Disconnect", "Shutdown", "Remove"}

JobInfo == [state : JobState, inited : BOOLEAN, shut : BOOLEAN,
            success : BOOLEAN, paused : BOOLEAN]

NewJob(paused) == [state |-> "Init", inited |-> FALSE, shut |-> FALSE,
                   success |-> TRUE, paused |-> paused]

(* headers: what the handler has seen of the response headers; a server may  *)
(* redirect once (bound) before it answers.  left: reads still to come.      *)
ResourceHandle == [cancelled : BOOLEAN, defers : BOOLEAN, fired : BOOLEAN,
                   client : BOOLEAN, headers : {"none", "redirected", "seen"},
                   left : 0..Chunks]

LoopAt == {"start", "run", "remove", "check", "restart"}
Source == {"tick", "timer", "view", "handler"}

(* An activation of ProcessJobs: for downloadTimerCallback (src "tick" or    *)
(* "timer") with the two startPendingJobs around it, or for                  *)
(* RemoveDependentJobs (src "view" or "handler").  it is the iterator, told  *)
(* says notifyJobFailed was called for *it, busy is                          *)
(* (started || runningHandles > 0).                                          *)
LoopFrame == [at : LoopAt, src : Source, view : View \cup {None},
              it : Handle \cup {None}, told : BOOLEAN, busy : BOOLEAN]

(* An activation of TransportHandler::Transfer.  got: a read returned data   *)
(* in this call; done: DataDone was called, with that result.                *)
TransferFrame == [at : {"transfer"}, it : Handle, got : BOOLEAN,
                  done : {"no", "ok", "bad"}]

(* An activation of the client, called as cb, or the page's script run       *)
(* outside the manager.  brk: stopped at a breakpoint (EventLoop::cycle).    *)
Callback == {"response", "data", "finish", "fail", "refused", "headers",
             "redirect", "urlResponse", "urlData", "urlDone", "script"}
ClientFrame == [at : {"client"}, it : Handle \cup {None}, cb : Callback,
                view : View, brk : BOOLEAN]

Frame == LoopFrame \cup TransferFrame \cup ClientFrame

TypeOK ==
  /\ pending \in Seq(Handle)
  /\ jobs \in Seq(Handle)
  /\ info \in [Handle -> JobInfo]
  /\ running \in Int
  /\ condemned \in BOOLEAN /\ timer \in BOOLEAN /\ installed \in BOOLEAN
  /\ rh \in [Handle -> ResourceHandle]
  /\ refs \in [Handle -> Int]
  /\ closed \subseteq View
  /\ stack \in Seq(Frame)
  /\ loaded \subseteq Handle /\ gaveUp \subseteq Handle
  /\ open \subseteq Handle
  /\ verdicts \in [Handle -> Nat]

Init ==
  /\ pending = <<>> /\ jobs = <<>>
  /\ info = [h \in Handle |-> NewJob(FALSE)]
  /\ running = 0 /\ condemned = FALSE /\ timer = FALSE /\ installed = TRUE
  /\ rh = [h \in Handle |-> [cancelled |-> FALSE, defers |-> FALSE, fired |-> FALSE,
                             client |-> TRUE, headers |-> "none", left |-> Chunks]]
  /\ refs = [h \in Handle |-> 0]
  /\ closed = {} /\ stack = <<>>
  /\ loaded = {} /\ gaveUp = {} /\ open = {}
  /\ verdicts = [h \in Handle |-> 0]

-----------------------------------------------------------------------------
(* The call stack.                                                           *)

Idle == stack = <<>>
Top == Last(stack)
TopAt(l) == stack # <<>> /\ Top.at = l
Becomes(f) == [stack EXCEPT ![Len(stack)] = f]
Return == Front(stack)

Loops == {i \in DOMAIN stack : stack[i].at \in LoopAt}

(* A breakpoint pauses every page of the page's group: all pages but the     *)
(* inspector's are in one group.                                             *)
Group(v) == IF v \in Inspector THEN Inspector ELSE View \ Inspector
Broken == UNION {Group(stack[i].view) :
                   i \in {j \in DOMAIN stack : stack[j].at = "client" /\ stack[j].brk}}

(* Code outside the manager runs: nothing is active, or a client is.  When   *)
(* the client is at a breakpoint the application runs, and ticks.            *)
ScriptRuns == TopAt("client") /\ ~Top.brk
AppRuns == Idle \/ (TopAt("client") /\ Top.brk)
Acting == IF Idle THEN View ELSE IF Top.brk THEN View \ Broken ELSE {Top.view}

(* Some operators are followed or preceded by a wrong variant of themselves, *)
(* named Wrong...: the mistake a property exists to catch.  No specification *)
(* uses them.                                                                *)

(* The iteration over m_JobInfoList.                                         *)
InJobs(h) == \E i \in DOMAIN jobs : jobs[i] = h
Position(h) == CHOOSE i \in DOMAIN jobs : jobs[i] = h
FirstJob == IF jobs = <<>> THEN None ELSE jobs[1]
JobAfter(h) == IF Position(h) < Len(jobs) THEN jobs[Position(h) + 1] ELSE None
Advance == Becomes([Top EXCEPT !.it = JobAfter(Top.it), !.told = FALSE])

NewLoop(at, src, v) == [at |-> at, src |-> src, view |-> v,
                        it |-> IF at = "run" THEN FirstJob ELSE None,
                        told |-> FALSE, busy |-> FALSE]

(* Calling the client of h: the frame, and what the history keeps of it.     *)
ClientCall(h, cb) == [at |-> "client", it |-> h, cb |-> cb, view |-> ViewOf[h], brk |-> FALSE]
Terminal == {"finish", "fail", "refused", "urlDone"}
Called(h, cb) ==
  /\ verdicts' = IF cb \in Terminal THEN [verdicts EXCEPT ![h] = @ + 1] ELSE verdicts
  /\ UNCHANGED <<loaded, gaveUp, open>>

(* CondemnJob, for one job and for several.                                  *)
Condemn(S) == /\ info' = [h \in Handle |-> IF h \in S THEN [info[h] EXCEPT !.state = "Remove"]
                                           ELSE info[h]]
              /\ condemned' = (condemned \/ S # {})

-----------------------------------------------------------------------------
(* What WebCore and the application do.                                      *)

(* ResourceHandle::start calls add.  While its page is deferred a            *)
(* ResourceLoader creates no handle.                                         *)
Add(h) ==
  /\ Idle \/ TopAt("client")
  /\ h \notin loaded /\ ViewOf[h] \in Acting \ (closed \cup Broken)
  /\ loaded' = loaded \cup {h}
  /\ refs' = [refs EXCEPT ![h] = @ + 1]
  /\ pending' = Append(pending, h)
  /\ timer' = TRUE
  /\ UNCHANGED <<jobs, info, running, condemned, installed, rh, closed, stack,
                 gaveUp, open, verdicts>>

WrongCancelOnlyMarks(h) ==
  /\ gaveUp' = gaveUp \cup {h}
  /\ rh' = [rh EXCEPT ![h].cancelled = TRUE]
  /\ UNCHANGED <<pending, refs>>

(* cancel: a pending handle is taken off the queue, a running one is only    *)
(* marked.                                                                   *)
CancelHandle(h) ==
  /\ gaveUp' = gaveUp \cup {h}
  /\ \/ \E i \in DOMAIN pending :
            /\ pending[i] = h /\ pending' = RemoveAt(pending, i)
            /\ refs' = [refs EXCEPT ![h] = @ - 1]
            /\ UNCHANGED rh
     \/ /\ \A i \in DOMAIN pending : pending[i] # h
        /\ rh' = [rh EXCEPT ![h].cancelled = TRUE]
        /\ UNCHANGED <<pending, refs>>

(* A client may cancel as long as it holds the handle.                       *)
Holds(h) == h \in loaded \ gaveUp /\ rh[h].client

Cancel(h) ==
  /\ Idle \/ TopAt("client")
  /\ Holds(h) /\ ViewOf[h] \in Acting
  /\ CancelHandle(h)
  /\ UNCHANGED <<jobs, info, running, condemned, timer, installed, closed, stack,
                 loaded, open, verdicts>>

WrongDeferForgetsJobs(V, paused) ==
  LET S == {h \in Handle : ViewOf[h] \in V /\ Holds(h)}
  IN /\ rh' = [h \in Handle |-> IF h \in S THEN [rh[h] EXCEPT !.defers = paused] ELSE rh[h]]
     /\ UNCHANGED info

WrongDeferNeverResumes(V, paused) ==
  LET S == {h \in Handle : ViewOf[h] \in V /\ Holds(h)}
  IN /\ rh' = [h \in Handle |-> IF h \in S THEN [rh[h] EXCEPT !.defers = paused] ELSE rh[h]]
     /\ info' = [h \in Handle |-> IF h \in S /\ InJobs(h) /\ paused
                                  THEN [info[h] EXCEPT !.paused = TRUE] ELSE info[h]]

(* changeResourceHandleState for every handle the loaders of V's pages hold. *)
Defer(V, paused) ==
  LET S == {h \in Handle : ViewOf[h] \in V /\ Holds(h)}
  IN /\ rh' = [h \in Handle |-> IF h \in S THEN [rh[h] EXCEPT !.defers = paused] ELSE rh[h]]
     /\ info' = [h \in Handle |-> IF h \in S /\ InJobs(h)
                                  THEN [info[h] EXCEPT !.paused = paused] ELSE info[h]]

(* The script of an inspected page hits a breakpoint: the pages of its group *)
(* are deferred and the thread handed to the application (EventLoop::cycle); *)
(* the debugger stops nothing more until the script goes on.                 *)
Break ==
  /\ ScriptRuns /\ Broken = {} /\ Inspector # {} /\ Top.view \notin Inspector
  /\ Cardinality(Loops) < MaxTicks
  /\ Defer(Group(Top.view), TRUE)
  /\ stack' = Becomes([Top EXCEPT !.brk = TRUE])
  /\ UNCHANGED <<pending, jobs, running, condemned, timer, installed, refs, closed, hist>>

Resume ==
  /\ TopAt("client") /\ Top.brk
  /\ Defer(Group(Top.view), FALSE)
  /\ stack' = Becomes([Top EXCEPT !.brk = FALSE])
  /\ UNCHANGED <<pending, jobs, running, condemned, timer, installed, refs, closed, hist>>

(* A page's script runs outside the manager, from an event or a timer.       *)
RunScript(v) ==
  /\ Idle /\ v \notin closed
  /\ stack' = Append(stack, [at |-> "client", it |-> None, cb |-> "script",
                             view |-> v, brk |-> FALSE])
  /\ UNCHANGED <<pending, jobs, info, running, condemned, timer, installed, rh, refs,
                 closed, hist>>

(* View::Tick calls TickDownload.                                            *)
Tick ==
  /\ AppRuns /\ Cardinality(Loops) < MaxTicks
  /\ stack' = Append(stack, NewLoop("start", "tick", None))
  /\ UNCHANGED <<pending, jobs, info, running, condemned, timer, installed, rh, refs,
                 closed, hist>>

(* View::Tick calls fireTimerIfNeeded: the one-shot timer is inactive while  *)
(* it fires; ThreadTimers does not fire timers re-entrantly, but a           *)
(* breakpoint lifts that guard (fireTimersInNestedEventLoop).                *)
TimerFires ==
  /\ AppRuns /\ Cardinality(Loops) < MaxTicks
  /\ timer
  /\ timer' = FALSE
  /\ stack' = Append(stack, NewLoop("start", "timer", None))
  /\ UNCHANGED <<pending, jobs, info, running, condemned, installed, rh, refs, closed, hist>>

(* View::Tick calls TickTransportHandlers: DirtySDK reports the headers of   *)
(* an outstanding request, a redirect or the answer.                         *)
HeadersReceived(h) ==
  /\ AppRuns
  /\ InJobs(h) /\ KindOf[h] \in DirtySDK /\ h \in open
  /\ info[h].state \in {"Transfer", "Remove"} /\ rh[h].headers # "seen"
  /\ \E redirect \in (IF rh[h].headers = "none" THEN BOOLEAN ELSE {FALSE}) :
       LET cb == IF redirect THEN "redirect" ELSE "headers"
           told == /\ ~rh[h].cancelled /\ rh[h].client
                   /\ redirect \/ info[h].state # "Remove"
       IN /\ rh' = [rh EXCEPT ![h].headers = IF redirect THEN "redirected" ELSE "seen",
                              ![h].fired = @ \/ (~redirect /\ ~told /\ ~rh[h].cancelled)]
          /\ IF told THEN stack' = Append(stack, ClientCall(h, cb)) /\ Called(h, cb)
                     ELSE UNCHANGED <<stack, hist>>
  /\ UNCHANGED <<pending, jobs, info, running, condemned, timer, installed, refs, closed>>

(* RemoveDependentJobs, from View::ShutdownView and from                     *)
(* RemoveTransportHandler: the jobs are condemned, then ProcessJobs runs.    *)
Purge(S, src, v) ==
  /\ Idle
  /\ Condemn({h \in S : InJobs(h)})
  /\ stack' = Append(stack, NewLoop("run", src, v))
  /\ UNCHANGED <<pending, jobs, running, timer, installed, rh, refs, closed, hist>>

ShutdownView(v) == v \notin closed /\ Purge({h \in Handle : ViewOf[h] = v}, "view", v)

RemoveTransportHandler ==
  installed /\ Purge({h \in Handle : KindOf[h] = "custom"}, "handler", None)

-----------------------------------------------------------------------------
(* startPendingJobs.                                                         *)

WrongMayStartAtLimit == pending # <<>> /\ running <= MaxConcurrentJobs
MayStart == pending # <<>> /\ running < MaxConcurrentJobs
Starting == TopAt("start") \/ TopAt("restart")
WrongStartedUnnoted == stack
Started == Becomes([Top EXCEPT !.busy = (Top.at = "restart")])
NoHandler(h) == KindOf[h] = "nohandler" \/ (KindOf[h] = "custom" /\ ~installed)

WrongDataURLStaysQueued(h) ==
  /\ Starting /\ MayStart /\ h = Head(pending) /\ KindOf[h] = "data"
  /\ \E cb \in {"urlResponse", "urlDone"} :
       stack' = Append(Started, ClientCall(h, cb)) /\ Called(h, cb)
  /\ UNCHANGED <<pending, jobs, info, running, condemned, timer, installed, rh, refs, closed>>

(* startPendingJob of a data: URL: handleDataURL makes all the calls at      *)
(* once; the first of them may already be the last (cannotShowURL).          *)
StartDataURL(h) ==
  /\ Starting /\ MayStart /\ h = Head(pending) /\ KindOf[h] = "data"
  /\ pending' = Tail(pending)
  /\ \E cb \in {"urlResponse", "urlDone"} :
       stack' = Append(Started, ClientCall(h, cb)) /\ Called(h, cb)
  /\ UNCHANGED <<jobs, info, running, condemned, timer, installed, rh, refs, closed>>

WrongJobStaysQueued(h) ==
  /\ Starting /\ MayStart /\ h = Head(pending)
  /\ KindOf[h] \notin {"data", "filtered"} /\ ~NoHandler(h)
  /\ jobs' = Append(jobs, h)
  /\ info' = [info EXCEPT ![h] = NewJob(rh[h].defers)]
  /\ running' = running + 1
  /\ stack' = Started
  /\ UNCHANGED <<pending, condemned, timer, installed, rh, refs, closed, hist>>

(* initializeJob succeeded; a job of a deferred page starts paused.          *)
StartJob(h) ==
  /\ Starting /\ MayStart /\ h = Head(pending)
  /\ KindOf[h] \notin {"data", "filtered"} /\ ~NoHandler(h)
  /\ pending' = Tail(pending)
  /\ jobs' = Append(jobs, h)
  /\ info' = [info EXCEPT ![h] = NewJob(rh[h].defers)]
  /\ running' = running + 1
  /\ stack' = Started
  /\ UNCHANGED <<condemned, timer, installed, rh, refs, closed, hist>>

(* initializeJob failed: without a handler it returns before it has looked   *)
(* at m_defersLoading.  The job is in the list while its client is told.     *)
StartRefused(h) ==
  /\ Starting /\ MayStart /\ h = Head(pending)
  /\ KindOf[h] = "filtered" \/ NoHandler(h)
  /\ pending' = Tail(pending)
  /\ jobs' = Append(jobs, h)
  /\ info' = [info EXCEPT ![h] = [NewJob(rh[h].defers /\ ~NoHandler(h)) EXCEPT !.success = FALSE]]
  /\ stack' = Append(Started, ClientCall(h, "refused"))
  /\ Called(h, "refused")
  /\ UNCHANGED <<running, condemned, timer, installed, rh, refs, closed>>

StartDone ==
  /\ TopAt("start") /\ ~MayStart
  /\ stack' = Becomes([Top EXCEPT !.at = "run", !.it = FirstJob])
  /\ UNCHANGED <<pending, jobs, info, running, condemned, timer, installed, rh, refs,
                 closed, hist>>

(* The end of downloadTimerCallback.                                         *)
RestartDone ==
  /\ TopAt("restart") /\ ~MayStart
  /\ timer' = (timer \/ Top.busy)
  /\ stack' = Return
  /\ UNCHANGED <<pending, jobs, info, running, condemned, installed, rh, refs, closed, hist>>

-----------------------------------------------------------------------------
(* ProcessJobs, the first loop: one state of every job.                      *)

AtJob(h) == TopAt("run") /\ Top.it = h /\ InJobs(h)

CondemnCancelled(h) ==
  /\ AtJob(h) /\ rh[h].cancelled
  /\ Condemn({h})
  /\ stack' = Advance
  /\ UNCHANGED <<pending, jobs, running, timer, installed, rh, refs, closed, hist>>

SkipPaused(h) ==
  /\ AtJob(h) /\ ~rh[h].cancelled /\ info[h].paused
  /\ stack' = Advance
  /\ UNCHANGED <<pending, jobs, info, running, condemned, timer, installed, rh, refs,
                 closed, hist>>

WrongAtStateOfPaused(h, s) == AtJob(h) /\ ~rh[h].cancelled /\ info[h].state = s
AtState(h, s) == AtJob(h) /\ ~rh[h].cancelled /\ ~info[h].paused /\ info[h].state = s

(* ProcessJobState after the handler's function for state s returned r.      *)
Successor == [Init |-> "Connect", Connect |-> "Transfer", Transfer |-> "Disconnect",
              Disconnect |-> "Shutdown", Shutdown |-> "Remove"]
WrongReturnedUncondemned(h, s, r) ==
  LET removed == ~r.ok \/ (r.complete /\ s = "Shutdown")
  IN /\ info' = [info EXCEPT
            ![h].inited  = @ \/ (s = "Init" /\ r.ok),
            ![h].shut    = @ \/ (s = "Shutdown" /\ r.ok),
            ![h].success = @ /\ (r.ok \/ s \in {"Disconnect", "Shutdown"}),
            ![h].state   = IF removed THEN "Remove"
                           ELSE IF r.complete THEN Successor[s] ELSE @]
     /\ UNCHANGED condemned
Returned(h, s, r) ==
  LET removed == ~r.ok \/ (r.complete /\ s = "Shutdown")
  IN /\ info' = [info EXCEPT
            ![h].inited  = @ \/ (s = "Init" /\ r.ok),
            ![h].shut    = @ \/ (s = "Shutdown" /\ r.ok),
            ![h].success = @ /\ (r.ok \/ s \in {"Disconnect", "Shutdown"}),
            ![h].state   = IF removed THEN "Remove"
                           ELSE IF r.complete THEN Successor[s] ELSE @]
     /\ condemned' = (condemned \/ removed)

(* What InitJob, Connect, Disconnect and ShutdownJob return, per handler.    *)
Returns(h, s) ==
  CASE KindOf[h] = "custom" -> [ok : BOOLEAN, complete : BOOLEAN]
    [] KindOf[h] = "nohandler" -> {}   \* mpTH is NULL
    [] OTHER -> [ok : IF s \in {"Init", "Connect"} THEN BOOLEAN ELSE {TRUE},
                 complete : {TRUE}]

(* DirtySDK's Connect reads the body of a POST first: when FormDataStream    *)
(* cannot deliver it ReadData cancels the handle, and the request goes out.  *)
BodyLost(h, s, lost) == lost => s = "Connect" /\ KindOf[h] = "post"

CallHandler(h) ==
  \E s \in {"Init", "Connect", "Disconnect", "Shutdown"}, r \in [ok : BOOLEAN, complete : BOOLEAN],
     lost \in BOOLEAN :
    /\ AtState(h, s) /\ r \in Returns(h, s) /\ BodyLost(h, s, lost)
    /\ Returned(h, s, r)
    /\ rh' = [rh EXCEPT ![h].cancelled = @ \/ lost]
    /\ open' = IF s = "Init" /\ r.ok THEN open \cup {h}
               ELSE IF s = "Shutdown" THEN open \ {h} ELSE open
    /\ stack' = Advance
    /\ UNCHANGED <<pending, jobs, running, timer, installed, refs, closed,
                   loaded, gaveUp, verdicts>>

CallTransfer(h) ==
  /\ AtState(h, "Transfer")
  /\ stack' = Append(stack, [at |-> "transfer", it |-> h, got |-> FALSE, done |-> "no"])
  /\ UNCHANGED <<pending, jobs, info, running, condemned, timer, installed, rh, refs,
                 closed, hist>>

CondemnAgain(h) ==
  /\ AtState(h, "Remove")
  /\ Condemn({h})
  /\ stack' = Advance
  /\ UNCHANGED <<pending, jobs, running, timer, installed, rh, refs, closed, hist>>

RunDone ==
  /\ TopAt("run") /\ Top.it = None
  /\ stack' = Becomes([Top EXCEPT !.at = IF condemned THEN "remove" ELSE "check",
                                  !.it = IF condemned THEN FirstJob ELSE None])
  /\ UNCHANGED <<pending, jobs, info, running, condemned, timer, installed, rh, refs,
                 closed, hist>>

-----------------------------------------------------------------------------
(* TransportHandler::Transfer and the TransportServer interface it calls.    *)

InTransfer(h) == TopAt("transfer") /\ Top.it = h /\ InJobs(h) /\ Top.done = "no"

(* The file handler reads at most once per call, DirtySDK asserts that the   *)
(* headers came before the data.                                             *)
MayRead(h) == /\ KindOf[h] = "file" => ~Top.got
              /\ KindOf[h] \in DirtySDK => rh[h].headers = "seen"

WrongReadPastEnd(h) ==
  /\ InTransfer(h) /\ MayRead(h)
  /\ rh' = [rh EXCEPT ![h].left = @ - 1]
  /\ stack' = Becomes([Top EXCEPT !.got = TRUE])
  /\ UNCHANGED <<pending, jobs, info, running, condemned, timer, installed, refs, closed, hist>>

(* A read returned data: DataReceived.                                       *)
DataReceived(h) ==
  /\ InTransfer(h) /\ MayRead(h) /\ rh[h].left > 0
  /\ LET read == [rh EXCEPT ![h].left = @ - 1]
         frames == Becomes([Top EXCEPT !.got = TRUE])
         cb == IF rh[h].fired THEN "data" ELSE "response"
     IN IF rh[h].client /\ ~rh[h].cancelled
        THEN rh' = read /\ stack' = Append(frames, ClientCall(h, cb)) /\ Called(h, cb)
        ELSE /\ rh' = [read EXCEPT ![h].fired = @ \/ ~rh[h].cancelled]
             /\ stack' = frames /\ UNCHANGED hist
  /\ UNCHANGED <<pending, jobs, info, running, condemned, timer, installed, refs, closed>>

WrongDataDoneUnmarked(h, result) ==
  /\ InTransfer(h)
  /\ KindOf[h] = "file" => ~Top.got
  /\ result => MayRead(h) /\ rh[h].left = 0
  /\ LET frames == Becomes([Top EXCEPT !.done = IF result THEN "ok" ELSE "bad"])
         heard == rh[h].client /\ ~rh[h].cancelled
     IN IF heard /\ result
        THEN /\ stack' = Append(frames, ClientCall(h, "finish")) /\ Called(h, "finish")
             /\ UNCHANGED <<info, condemned>>
        ELSE /\ stack' = frames /\ UNCHANGED hist
             /\ IF heard THEN Condemn({h}) ELSE UNCHANGED <<info, condemned>>
  /\ UNCHANGED <<pending, jobs, running, timer, installed, rh, refs, closed>>

(* DataDone: success is told to the client, failure condemns the job.        *)
DataDone(h, result) ==
  /\ InTransfer(h)
  /\ KindOf[h] = "file" => ~Top.got
  /\ result => MayRead(h) /\ rh[h].left = 0
  /\ LET frames == Becomes([Top EXCEPT !.done = IF result THEN "ok" ELSE "bad"])
         heard == rh[h].client /\ ~rh[h].cancelled
     IN IF heard /\ result
        THEN /\ stack' = Append(frames, ClientCall(h, "finish")) /\ Called(h, "finish")
             /\ UNCHANGED <<info, condemned>>
        ELSE /\ stack' = frames /\ UNCHANGED hist
             /\ info' = IF heard THEN [info EXCEPT ![h].success = FALSE, ![h].state = "Remove"]
                        ELSE info
             /\ condemned' = (condemned \/ heard)
  /\ UNCHANGED <<pending, jobs, running, timer, installed, rh, refs, closed>>

(* What Transfer returns: DirtySDK fails the call when the transport failed  *)
(* or timed out; the file and cache handlers return true even then.  A custom *)
(* handler that reported success does not then report a failure.             *)
TransferReturns(h) ==
  CASE KindOf[h] = "custom" ->
         [ok : IF Top.done = "ok" THEN {TRUE} ELSE BOOLEAN, complete : BOOLEAN]
    [] KindOf[h] # "custom" /\ Top.done = "no" ->
         [ok : IF KindOf[h] \in DirtySDK THEN BOOLEAN ELSE {TRUE}, complete : {FALSE}]
    [] OTHER -> [ok : {Top.done = "ok" \/ KindOf[h] \notin DirtySDK}, complete : {TRUE}]

TransferEnds(h) ==
  /\ TopAt("transfer") /\ Top.it = h /\ InJobs(h)
  /\ KindOf[h] = "file" => Top.got \/ Top.done # "no"
  /\ \E r \in TransferReturns(h) : Returned(h, "Transfer", r)
  /\ LET loop == Last(Front(stack))
     IN stack' = [Front(stack) EXCEPT ![Len(stack) - 1] =
                    [loop EXCEPT !.it = JobAfter(h), !.told = FALSE]]
  /\ UNCHANGED <<pending, jobs, running, timer, installed, rh, refs, closed, hist>>

-----------------------------------------------------------------------------
(* ProcessJobs, the second loop: condemned jobs leave the list.              *)

AtRemove(h) == TopAt("remove") /\ Top.it = h /\ InJobs(h)

KeepJob(h) ==
  /\ AtRemove(h) /\ info[h].state # "Remove"
  /\ stack' = Advance
  /\ UNCHANGED <<pending, jobs, info, running, condemned, timer, installed, rh, refs,
                 closed, hist>>

(* notifyJobFailed.                                                          *)
NotifyJobFailed(h) ==
  /\ AtRemove(h) /\ info[h].state = "Remove" /\ ~info[h].success /\ ~Top.told
  /\ LET frames == Becomes([Top EXCEPT !.told = TRUE])
     IN IF rh[h].client THEN stack' = Append(frames, ClientCall(h, "fail")) /\ Called(h, "fail")
                        ELSE stack' = frames /\ UNCHANGED hist
  /\ UNCHANGED <<pending, jobs, info, running, condemned, timer, installed, rh, refs, closed>>

WrongRemoveUnshut(h) ==
  /\ AtRemove(h) /\ info[h].state = "Remove" /\ (info[h].success \/ Top.told)
  /\ refs' = [refs EXCEPT ![h] = @ - 1]
  /\ running' = running - 1
  /\ jobs' = RemoveAt(jobs, Position(h))
  /\ stack' = Advance
  /\ UNCHANGED <<pending, info, condemned, timer, installed, rh, closed, hist>>

(* The promised ShutdownJob, the deref() and the erase.                      *)
RemoveJob(h) ==
  /\ AtRemove(h) /\ info[h].state = "Remove" /\ (info[h].success \/ Top.told)
  /\ open' = IF info[h].inited /\ ~info[h].shut THEN open \ {h} ELSE open
  /\ refs' = [refs EXCEPT ![h] = @ - 1]
  /\ running' = running - 1
  /\ jobs' = RemoveAt(jobs, Position(h))
  /\ stack' = Advance
  /\ UNCHANGED <<pending, info, condemned, timer, installed, rh, closed,
                 loaded, gaveUp, verdicts>>

RemoveDone ==
  /\ TopAt("remove") /\ Top.it = None
  /\ condemned' = FALSE
  /\ stack' = Becomes([Top EXCEPT !.at = "check"])
  /\ UNCHANGED <<pending, jobs, info, running, timer, installed, rh, refs, closed, hist>>

WrongOnlyNewJobsArm ==
  /\ TopAt("check") /\ Top.src \in {"tick", "timer"}
  /\ stack' = Becomes([Top EXCEPT !.at = "restart", !.busy = FALSE])
  /\ UNCHANGED <<pending, jobs, info, running, condemned, timer, installed, rh, refs,
                 closed, hist>>

(* ProcessJobs returns the number of jobs: to downloadTimerCallback ...      *)
ProcessJobsDone ==
  /\ TopAt("check") /\ Top.src \in {"tick", "timer"}
  /\ stack' = Becomes([Top EXCEPT !.at = "restart", !.busy = (jobs # <<>>)])
  /\ UNCHANGED <<pending, jobs, info, running, condemned, timer, installed, rh, refs,
                 closed, hist>>

(* ... or to RemoveDependentJobs: RemoveTransportHandler then forgets the    *)
(* handler ...                                                               *)
HandlerRemoved ==
  /\ TopAt("check") /\ Top.src = "handler"
  /\ installed' = FALSE
  /\ stack' = Return
  /\ UNCHANGED <<pending, jobs, info, running, condemned, timer, rh, refs, closed, hist>>

(* ... and ShutdownView deletes the page, which cancels the loads it holds,  *)
(* one after the other.                                                      *)
DeletingPage(h) == TopAt("check") /\ Top.src = "view" /\ ViewOf[h] = Top.view /\ Holds(h)

PageCancels(h) ==
  /\ DeletingPage(h)
  /\ CancelHandle(h)
  /\ UNCHANGED <<jobs, info, running, condemned, timer, installed, closed, stack,
                 loaded, open, verdicts>>

PageDeleted ==
  /\ TopAt("check") /\ Top.src = "view"
  /\ \A h \in Handle : ~DeletingPage(h)
  /\ closed' = closed \cup {Top.view}
  /\ stack' = Return
  /\ UNCHANGED <<pending, jobs, info, running, condemned, timer, installed, rh, refs, hist>>

-----------------------------------------------------------------------------
(* The client returns from the callback cb to what called it.                *)

Returning(cb) == TopAt("client") /\ ~Top.brk /\ Top.cb = cb

(* A client lets go of its handle in a terminal callback, unless it had      *)
(* cancelled it: ResourceLoader forgets the handle without setClient(0).     *)
LetGo(h) == rh' = IF h \in gaveUp THEN rh ELSE [rh EXCEPT ![h].client = FALSE]

WrongResponseGoesOn ==
  /\ Returning("response")
  /\ rh' = [rh EXCEPT ![Top.it].fired = TRUE]
  /\ IF rh[Top.it].client
     THEN stack' = Becomes(ClientCall(Top.it, "data")) /\ Called(Top.it, "data")
     ELSE stack' = Return /\ UNCHANGED hist
  /\ UNCHANGED <<pending, jobs, info, running, condemned, timer, installed, refs, closed>>

(* DataReceived goes on to didReceiveData unless the client has cancelled.   *)
ReturnFromResponse ==
  /\ Returning("response")
  /\ rh' = [rh EXCEPT ![Top.it].fired = TRUE]
  /\ IF rh[Top.it].client /\ ~rh[Top.it].cancelled
     THEN stack' = Becomes(ClientCall(Top.it, "data")) /\ Called(Top.it, "data")
     ELSE stack' = Return /\ UNCHANGED hist
  /\ UNCHANGED <<pending, jobs, info, running, condemned, timer, installed, refs, closed>>

ReturnFromHeaders ==
  /\ Returning("headers")
  /\ rh' = [rh EXCEPT ![Top.it].fired = TRUE]
  /\ stack' = Return
  /\ UNCHANGED <<pending, jobs, info, running, condemned, timer, installed, refs, closed, hist>>

ReturnFromCall ==
  /\ \E cb \in {"data", "redirect", "script"} : Returning(cb)
  /\ stack' = Return
  /\ UNCHANGED <<pending, jobs, info, running, condemned, timer, installed, rh, refs,
                 closed, hist>>

ReturnFromVerdict ==
  /\ Returning("finish") \/ Returning("fail")
  /\ LetGo(Top.it)
  /\ stack' = Return
  /\ UNCHANGED <<pending, jobs, info, running, condemned, timer, installed, refs, closed, hist>>

WrongRefusedStaysInList ==
  /\ Returning("refused") /\ jobs # <<>>
  /\ LetGo(Top.it)
  /\ refs' = [refs EXCEPT ![Top.it] = @ - 1]
  /\ stack' = Return
  /\ UNCHANGED <<pending, jobs, info, running, condemned, timer, installed, closed, hist>>

(* startPendingJob after notifyJobFailed: deref() and pop_back().            *)
ReturnFromRefused ==
  /\ Returning("refused") /\ jobs # <<>>
  /\ LetGo(Top.it)
  /\ refs' = [refs EXCEPT ![Top.it] = @ - 1]
  /\ jobs' = Front(jobs)
  /\ stack' = Return
  /\ UNCHANGED <<pending, info, running, condemned, timer, installed, closed, hist>>

(* handleDataURL goes on to its next call whatever the client did in the     *)
(* last one; there is no didReceiveData for an empty body.                   *)
NextURLCall ==
  /\ Returning("urlResponse") \/ Returning("urlData")
  /\ \E cb \in (IF Top.cb = "urlResponse" THEN {"urlData", "urlDone"} ELSE {"urlDone"}) :
       stack' = Becomes(ClientCall(Top.it, cb)) /\ Called(Top.it, cb)
  /\ UNCHANGED <<pending, jobs, info, running, condemned, timer, installed, rh, refs, closed>>

WrongURLDoneKeepsRef ==
  /\ Returning("urlDone")
  /\ LetGo(Top.it)
  /\ stack' = Return
  /\ UNCHANGED <<pending, jobs, info, running, condemned, timer, installed, refs, closed, hist>>

ReturnFromURLDone ==
  /\ Returning("urlDone")
  /\ LetGo(Top.it)
  /\ refs' = [refs EXCEPT ![Top.it] = @ - 1]
  /\ stack' = Return
  /\ UNCHANGED <<pending, jobs, info, running, condemned, timer, installed, closed, hist>>

-----------------------------------------------------------------------------
ClientReturns ==
  \/ ReturnFromResponse \/ ReturnFromHeaders \/ ReturnFromCall \/ ReturnFromVerdict
  \/ ReturnFromRefused \/ NextURLCall \/ ReturnFromURLDone

LoopSteps ==
  \/ StartDone \/ RestartDone \/ RunDone \/ RemoveDone
  \/ ProcessJobsDone \/ HandlerRemoved \/ PageDeleted

JobSteps(h) ==
  \/ StartDataURL(h) \/ StartJob(h) \/ StartRefused(h)
  \/ CondemnCancelled(h) \/ SkipPaused(h) \/ CallHandler(h) \/ CallTransfer(h)
  \/ CondemnAgain(h) \/ KeepJob(h) \/ NotifyJobFailed(h) \/ RemoveJob(h)
  \/ PageCancels(h)

TransferSteps(h) ==
  DataReceived(h) \/ (\E result \in BOOLEAN : DataDone(h, result)) \/ TransferEnds(h)

Environment ==
  \/ \E h \in Handle : Add(h) \/ Cancel(h) \/ HeadersReceived(h)
  \/ \E v \in View : RunScript(v) \/ ShutdownView(v)
  \/ Break \/ Resume \/ Tick \/ TimerFires \/ RemoveTransportHandler

Next ==
  \/ Environment \/ ClientReturns \/ LoopSteps
  \/ \E h \in Handle : JobSteps(h) \/ TransferSteps(h)

Spec == Init /\ [][Next]_vars

(* The scheduling the code relies on: the thread runs what is on its stack,  *)
(* the application keeps ticking, a developer does not sit at a breakpoint   *)
(* for ever, and a transport ends, with an answer or with an error.          *)
Fairness ==
  /\ WF_vars(LoopSteps) /\ SF_vars(ClientReturns) /\ SF_vars(Resume) /\ SF_vars(Idle /\ Tick)
  /\ \A h \in Handle : /\ WF_vars(JobSteps(h)) /\ WF_vars(TransferSteps(h))
                       /\ SF_vars(\E result \in BOOLEAN : DataDone(h, result))

FairSpec == Spec /\ Fairness

-----------------------------------------------------------------------------
(* Properties.                                                               *)

Waiting(h) == \E i \in DOMAIN pending : pending[i] = h
Calling(h, cbs) == \E i \in DOMAIN stack : stack[i].at = "client" /\ stack[i].it = h
                                           /\ stack[i].cb \in cbs
URLCalls == {"urlResponse", "urlData", "urlDone"}

(* m_runningJobs counts the jobs in m_JobInfoList, except those that         *)
(* startPendingJob put there only to tell their client of a failed start.    *)
Refusals == {i \in DOMAIN stack : stack[i].at = "client" /\ stack[i].cb = "refused"}
RunningCount == running = Len(jobs) - Cardinality(Refusals)

(* ... and never exceeds m_maxConcurrentJobs.                                *)
JobLimit == running <= MaxConcurrentJobs

(* Every ref() of add() is matched by one deref(): the manager holds one     *)
(* reference while it waits on, runs or decodes the handle, and none after.  *)
RefsMatch ==
  \A h \in Handle : refs[h] = IF Waiting(h) \/ InJobs(h) \/ Calling(h, URLCalls) THEN 1 ELSE 0

(* A handle is never both queued and running, nor twice in either list.      *)
QueuedOnce ==
  /\ \A i, j \in DOMAIN pending : pending[i] = pending[j] => i = j
  /\ \A i, j \in DOMAIN jobs : jobs[i] = jobs[j] => i = j
  /\ \A h \in Handle : ~(Waiting(h) /\ InJobs(h))

(* A client is told the end of its load, by didFinishLoading or by didFail,  *)
(* at most once.                                                             *)
OneVerdict == \A h \in Handle : verdicts[h] <= 1

(* "We promise the TransportHandler that if we Init it then eventually we    *)
(* will Shutdown it": a job leaves the list shut down, on every path, and    *)
(* the handler is asked to connect, transfer or disconnect only in between.  *)
HandlerBracket ==
  \A h \in Handle : /\ InJobs(h) /\ info[h].state \in {"Connect", "Transfer", "Disconnect"}
                         => h \in open
                    /\ h \in open => InJobs(h)

(* While a load waits or runs, the download timer is armed or a              *)
(* downloadTimerCallback that will look at it again is on the stack.         *)
Driving == \E i \in DOMAIN stack : stack[i].at \in LoopAt /\ stack[i].src \in {"tick", "timer"}
NoLostWakeup == pending # <<>> \/ jobs # <<>> => timer \/ Driving

(* Once ShutdownView has returned, the manager keeps nothing of that View:   *)
(* no queued handle, no job, no reference.                                   *)
ViewForgotten ==
  \A h \in Handle : ViewOf[h] \in closed => refs[h] = 0 /\ ~Waiting(h) /\ ~InJobs(h)

(* Every condemned job is gone when ProcessJobs has returned to the          *)
(* application, so that what it depends on may be destroyed.                 *)
NoneLeftCondemned ==
  Idle => ~condemned /\ \A h \in Handle : InJobs(h) => info[h].state # "Remove"

(* Re-entrancy: the Transfer of one job is never active twice.               *)
NoReentrantTransfer ==
  \A i, j \in DOMAIN stack :
    stack[i].at = "transfer" /\ stack[j].at = "transfer" /\ stack[i].it = stack[j].it => i = j

(* DataReceived "should not be called when deferred loading is activated":   *)
(* Transfer moves no data of a load that is deferred or paused, whichever    *)
(* tick it runs in.  Headers, which the transport's Tick brings, and data:   *)
(* URLs, which a nested tick starts, do reach the client of such a load.     *)
DataNotDeferred ==
  [][\A h \in Handle : rh'[h].left # rh[h].left /\ ~rh[h].cancelled
                         => ~rh[h].defers /\ ~info[h].paused]_vars

(* A client that has cancelled is left alone: nothing is told to it any more *)
(* but a failure that was on record already, by the removal loop, and the    *)
(* rest of a data: URL, by handleDataURL.                                    *)
InClient(s, h) == IF s # <<>> /\ Last(s).at = "client" /\ Last(s).it = h THEN {Last(s).cb} ELSE {}
CancelRespected ==
  [][\A h \in gaveUp : Len(stack') >= Len(stack)
       => InClient(stack', h) \subseteq InClient(stack, h) \cup {"fail"} \cup URLCalls]_vars

(* A load ends for its client when it ends for the manager: a job that has   *)
(* left the list as a success, and not because its client cancelled or its   *)
(* View is shut down, has told its client so.  A custom handler may end      *)
(* without a word, and ReadData cancels a POST whose body it cannot read.    *)
Leaving == closed \cup {stack[i].view : i \in {j \in Loops : stack[j].src = "view"}}
SuccessIsTold ==
  \A h \in loaded \ gaveUp :
    /\ KindOf[h] \notin {"post", "custom"} /\ ViewOf[h] \notin Leaving
    /\ ~Waiting(h) /\ ~InJobs(h) /\ ~Calling(h, Callback) /\ info[h].success
    => verdicts[h] > 0

(* Every load the manager took on leaves it again.                           *)
EveryLoadEnds == \A h \in Handle : (Waiting(h) \/ InJobs(h)) ~> ~(Waiting(h) \/ InJobs(h))
=============================================================================
