-------------------------- MODULE JobNestingProofs --------------------------
(***************************************************************************)
(* Proofs about JobManager where one activation of the job loop runs       *)
(* inside another, at a breakpoint: the loads whose activations are        *)
(* interrupted are left as they were (Suspended), so that no Transfer is   *)
(* entered twice and no deferred page is given data; and no loop returns   *)
(* before the jobs that were condemned are gone (Condemnation).            *)
(*                                                                         *)
(* And about the outcome of a load, whose InitJob and ShutdownJob calls,   *)
(* references and callbacks stay balanced as long as no client stops at a  *)
(* breakpoint in one of the callbacks that cannot be interrupted there     *)
(* (Unbroken), nor any while the job loop of ShutdownView runs             *)
(* (Unhindered); OneLoopEnough states what is left of those conditions     *)
(* when the bound on the loops active at once is one, namely nothing.      *)
(***************************************************************************)
EXTENDS JobStackProofs

-----------------------------------------------------------------------------
(* What a step other than Break and Resume does to a handle and its job:     *)
(* nothing a Transfer that a breakpoint interrupts could notice, unless it   *)
(* is one of these steps.                                                    *)

Leaves(h) == /\ TopAt("client") /\ ~Top.brk /\ Top.it = h
             /\ Top.cb \in {"finish", "fail", "refused", "urlDone"}
             /\ stack' = Return /\ UNCHANGED info
Works(h) ==
  /\ \/ CondemnCancelled(h) \/ CallHandler(h) \/ CondemnAgain(h)
     \/ (\E result \in BOOLEAN : DataDone(h, result)) \/ TransferEnds(h)
     \/ Leaves(h) \/ Idle
  /\ info'[h].paused = info[h].paused /\ (InJobs(h)' => InJobs(h))

Calmly(h) == info'[h] = info[h] /\ rh'[h].client = rh[h].client /\ (InJobs(h)' => InJobs(h))
Lasting(h) ==
  /\ rh'[h].defers = rh[h].defers
  /\ rh[h].cancelled => rh'[h].cancelled
  /\ h \in loaded => h \in loaded'
  /\ rh'[h].left = rh[h].left \/ DataReceived(h)
  /\ Holds(h)' => Holds(h) \/ (h \notin loaded /\ ViewOf[h] \notin Broken)
Effects ==
  \A h \in Handle : /\ Lasting(h)
                    /\ Calmly(h) \/ StartJob(h) \/ StartRefused(h) \/ Works(h)

LEMMA Unaffected ==
  ASSUME UNCHANGED <<rh, info, jobs, loaded, gaveUp>>, NEW h \in Handle
  PROVE  Lasting(h) /\ Calmly(h)
BY DEF Lasting, Calmly, InJobs, Holds

(* The handle of a step that changes no job.                                 *)
LEMMA RhEffects ==
  ASSUME UNCHANGED <<info, jobs, loaded, gaveUp>>,
         NEW x \in Handle, \A h \in Handle \ {x} : rh'[h] = rh[h],
         rh'[x].defers = rh[x].defers, rh[x].cancelled => rh'[x].cancelled,
         rh'[x].left = rh[x].left \/ DataReceived(x), rh'[x].client => rh[x].client,
         rh'[x].client = rh[x].client \/ (Leaves(x) /\ info'[x].paused = info[x].paused)
  PROVE  Effects
<1>1. ASSUME NEW h \in Handle PROVE InJobs(h)' => InJobs(h)
  BY DEF InJobs
<1>2. ASSUME NEW h \in Handle PROVE Lasting(h)
  BY <1>2 DEF Lasting, Holds
<1>3. ASSUME NEW h \in Handle PROVE Calmly(h) \/ Works(h)
  BY <1>1, <1>3 DEF Calmly, Works
<1>4. QED
  BY <1>2, <1>3 DEF Effects

(* The job of a step that leaves the handles alone.                          *)
LEMMA JobEffects ==
  ASSUME UNCHANGED <<rh, loaded, gaveUp>>,
         NEW x \in Handle, \A h \in Handle \ {x} : info'[h] = info[h] /\ (InJobs(h)' => InJobs(h)),
         StartJob(x) \/ StartRefused(x) \/ Works(x) \/ (info'[x] = info[x] /\ (InJobs(x)' => InJobs(x)))
  PROVE  Effects
<1>1. ASSUME NEW h \in Handle PROVE Lasting(h)
  BY <1>1 DEF Lasting, Holds
<1>2. ASSUME NEW h \in Handle PROVE Calmly(h) \/ StartJob(h) \/ StartRefused(h) \/ Works(h)
  BY <1>2 DEF Calmly
<1>3. QED
  BY <1>1, <1>2 DEF Effects

LEMMA CondemnIs ==
  ASSUME IInv, NEW S, Condemn(S), NEW h \in Handle
  PROVE  /\ h \notin S => info'[h] = info[h]
         /\ h \in S => info'[h].state = "Remove"
         /\ info'[h].paused = info[h].paused
<1>1. info[h] \in JobInfo
  BY DEF IInv, DataOK
<1>2. info'[h] = IF h \in S THEN [info[h] EXCEPT !.state = "Remove"] ELSE info[h]
  BY DEF Condemn
<1>3. QED
  BY <1>1, <1>2 DEF JobInfo

LEMMA ReturnedIs ==
  ASSUME IInv, NEW x \in Handle, NEW s, NEW r, Returned(x, s, r)
  PROVE  /\ \A h \in Handle \ {x} : info'[h] = info[h]
         /\ info'[x].paused = info[x].paused
<1>1. info \in [Handle -> JobInfo]
  BY DEF IInv, DataOK
<1>2. PICK a, b, c, d : info' = [info EXCEPT ![x].inited = a, ![x].shut = b, ![x].success = c, ![x].state = d]
  BY DEF Returned
<1>3. QED
  BY <1>1, <1>2 DEF JobInfo

LEMMA CancelEffects ==
  ASSUME IInv, NEW x \in Handle, CancelHandle(x), UNCHANGED <<info, jobs, loaded>> PROVE Effects
<1>1. rh \in [Handle -> ResourceHandle]
  BY DEF IInv, DataOK
<1>2. rh' = rh \/ rh' = [rh EXCEPT ![x].cancelled = TRUE]
  BY DEF CancelHandle
<1>3. gaveUp' = gaveUp \cup {x}
  BY DEF CancelHandle
<1>4. ASSUME NEW h \in Handle
      PROVE  /\ rh'[h].defers = rh[h].defers /\ rh'[h].client = rh[h].client /\ rh'[h].left = rh[h].left
             /\ rh[h].cancelled => rh'[h].cancelled
  BY <1>1, <1>2, <1>4 DEF ResourceHandle
<1>5. ASSUME NEW h \in Handle PROVE Lasting(h) /\ Calmly(h)
  BY <1>3, <1>4, <1>5 DEF Lasting, Calmly, Holds, InJobs
<1>6. QED
  BY <1>5 DEF Effects

LEMMA EnvironmentEffects == ASSUME IInv, Environment PROVE Break \/ Resume \/ Effects
<1>0. rh \in [Handle -> ResourceHandle] /\ info \in [Handle -> JobInfo]
  BY DEF IInv, DataOK
<1>1. ASSUME NEW x \in Handle, Add(x) PROVE Effects
  <2>1. UNCHANGED <<rh, info, jobs, gaveUp>> /\ loaded' = loaded \cup {x}
        /\ x \notin loaded /\ ViewOf[x] \notin Broken
    BY <1>1 DEF Add
  <2>2. ASSUME NEW h \in Handle PROVE Lasting(h) /\ Calmly(h)
    BY <2>1, <2>2 DEF Lasting, Calmly, Holds, InJobs
  <2>3. QED
    BY <2>2 DEF Effects
<1>2. ASSUME NEW x \in Handle, Cancel(x) PROVE Effects
  BY <1>2, CancelEffects DEF Cancel
<1>3. ASSUME NEW x \in Handle, HeadersReceived(x) PROVE Effects
  <2>1. PICK r, f : rh' = [rh EXCEPT ![x].headers = r, ![x].fired = f]
    BY <1>3 DEF HeadersReceived
  <2>2. /\ \A h \in Handle \ {x} : rh'[h] = rh[h]
        /\ rh'[x].defers = rh[x].defers /\ rh'[x].cancelled = rh[x].cancelled
        /\ rh'[x].left = rh[x].left /\ rh'[x].client = rh[x].client
    BY <1>0, <2>1 DEF ResourceHandle
  <2>3. UNCHANGED <<info, jobs, loaded, gaveUp>>
    BY <1>3 DEF HeadersReceived, Called, hist
  <2>4. QED
    BY <2>2, <2>3, RhEffects
<1>4. ASSUME NEW S, NEW src, NEW v, Purge(S, src, v) PROVE Effects
  <2>1. Idle /\ Condemn({h \in S : InJobs(h)}) /\ UNCHANGED <<rh, jobs, loaded, gaveUp>>
    BY <1>4 DEF Purge, hist
  <2>2. ASSUME NEW h \in Handle PROVE Works(h)
    BY <2>1, <2>2, CondemnIs DEF Works, InJobs
  <2>3. ASSUME NEW h \in Handle PROVE Lasting(h)
    BY <2>1, <2>3 DEF Lasting, Holds
  <2>4. QED
    BY <2>2, <2>3 DEF Effects
<1>5. CASE Tick \/ TimerFires \/ \E v \in View : RunScript(v)
  <2>1. UNCHANGED <<rh, info, jobs, loaded, gaveUp>>
    BY <1>5 DEF Tick, TimerFires, RunScript, hist
  <2>2. QED
    BY <2>1, Unaffected DEF Effects
<1>6. QED
  BY <1>1, <1>2, <1>3, <1>4, <1>5 DEF Environment, ShutdownView, RemoveTransportHandler

LEMMA ReturnEffects == ASSUME IInv, ClientReturns PROVE Effects
<1>0. rh \in [Handle -> ResourceHandle] /\ info \in [Handle -> JobInfo]
  BY DEF IInv, DataOK
<1>1. CASE ReturnFromResponse \/ ReturnFromHeaders
  <2>1. TopAt("client") /\ Top.cb # "script"
    BY <1>1 DEF ReturnFromResponse, ReturnFromHeaders, Returning
  <2>2. Top.it \in Handle
    BY <2>1, ClientOnTop
  <2>3. rh' = [rh EXCEPT ![Top.it].fired = TRUE] /\ UNCHANGED <<info, jobs, loaded, gaveUp>>
    BY <1>1 DEF ReturnFromResponse, ReturnFromHeaders, Called, hist
  <2>4. /\ \A h \in Handle \ {Top.it} : rh'[h] = rh[h]
        /\ rh'[Top.it].defers = rh[Top.it].defers /\ rh'[Top.it].cancelled = rh[Top.it].cancelled
        /\ rh'[Top.it].left = rh[Top.it].left /\ rh'[Top.it].client = rh[Top.it].client
    BY <1>0, <2>2, <2>3 DEF ResourceHandle
  <2>5. QED
    BY <2>2, <2>3, <2>4, RhEffects
<1>2. CASE ReturnFromCall \/ NextURLCall
  <2>1. UNCHANGED <<rh, info, jobs, loaded, gaveUp>>
    BY <1>2 DEF ReturnFromCall, NextURLCall, Called, hist
  <2>2. QED
    BY <2>1, Unaffected DEF Effects
<1>3. CASE ReturnFromVerdict \/ ReturnFromURLDone \/ ReturnFromRefused
  <2>1. /\ TopAt("client") /\ ~Top.brk /\ Top.cb \in {"finish", "fail", "refused", "urlDone"}
        /\ stack' = Return /\ UNCHANGED <<info, loaded, gaveUp>> /\ LetGo(Top.it)
    BY <1>3 DEF ReturnFromVerdict, ReturnFromURLDone, ReturnFromRefused, Returning, hist
  <2>2. Top.it \in Handle
    BY <2>1, ClientOnTop
  <2>3. PICK x \in Handle : x = Top.it
    BY <2>2
  <2>4. Leaves(x)
    BY <2>1, <2>3 DEF Leaves
  <2>5. /\ \A h \in Handle \ {x} : rh'[h] = rh[h]
        /\ rh'[x].defers = rh[x].defers /\ rh'[x].cancelled = rh[x].cancelled
        /\ rh'[x].client => rh[x].client
        /\ \A h \in Handle : rh'[h].left = rh[h].left
    BY <1>0, <2>1, <2>3 DEF LetGo, ResourceHandle
  <2>6. ASSUME NEW h \in Handle PROVE InJobs(h)' => InJobs(h)
    <3>1. CASE jobs' = jobs
      BY <3>1 DEF InJobs
    <3>2. CASE jobs # <<>> /\ jobs' = Front(jobs)
      <4>1. jobs \in Seq(Handle) /\ Len(jobs) \in Nat
        BY DEF IInv, DataOK
      <4>2. Front(jobs) \in Seq(Handle) /\ Len(Front(jobs)) = Len(jobs) - 1
            /\ \A i \in 1..(Len(jobs) - 1) : Front(jobs)[i] = jobs[i]
        BY <3>2, <4>1, FrontFacts
      <4>3. QED
        BY <3>2, <4>1, <4>2 DEF InJobs
    <3>3. QED
      BY <1>3, <3>1, <3>2 DEF ReturnFromVerdict, ReturnFromURLDone, ReturnFromRefused
  <2>7. ASSUME NEW h \in Handle PROVE Lasting(h) /\ (Calmly(h) \/ Works(h))
    <3>1. Lasting(h)
      BY <2>1, <2>5, <2>7 DEF Lasting, Holds
    <3>2. CASE h = x
      <4>1. info'[x].paused = info[x].paused /\ (InJobs(x)' => InJobs(x))
        BY <2>1, <2>6
      <4>2. Works(x)
        BY <2>4, <4>1 DEF Works
      <4>3. QED
        BY <3>1, <3>2, <4>2
    <3>3. CASE h # x
      <4>1. rh'[h] = rh[h] /\ info'[h] = info[h] /\ (InJobs(h)' => InJobs(h))
        BY <2>1, <2>5, <2>6, <3>3
      <4>2. QED
        BY <3>1, <4>1 DEF Calmly
    <3>4. QED
      BY <3>1, <3>2, <3>3
  <2>8. QED
    BY <2>7 DEF Effects
<1>4. QED
  BY <1>1, <1>2, <1>3 DEF ClientReturns

LEMMA JobStepsEffects == ASSUME IInv, NEW x \in Handle, JobSteps(x) PROVE Effects
<1>0. rh \in [Handle -> ResourceHandle] /\ info \in [Handle -> JobInfo] /\ jobs \in Seq(Handle)
  BY DEF IInv, DataOK
<1>1. CASE StartDataURL(x) \/ SkipPaused(x) \/ CallTransfer(x) \/ KeepJob(x) \/ NotifyJobFailed(x)
  <2>1. UNCHANGED <<rh, info, jobs, loaded, gaveUp>>
    BY <1>1 DEF StartDataURL, SkipPaused, CallTransfer, KeepJob, NotifyJobFailed, Called, hist
  <2>2. QED
    BY <2>1, Unaffected DEF Effects
<1>2. CASE StartJob(x) \/ StartRefused(x)
  <2>1. UNCHANGED <<rh, loaded, gaveUp>> /\ jobs' = Append(jobs, x)
    BY <1>2 DEF StartJob, StartRefused, Called, hist
  <2>2. PICK j : info' = [info EXCEPT ![x] = j]
    BY <1>2 DEF StartJob, StartRefused
  <2>3. ASSUME NEW h \in Handle \ {x} PROVE info'[h] = info[h] /\ (InJobs(h)' => InJobs(h))
    BY <1>0, <2>1, <2>2, <2>3 DEF InJobs
  <2>4. QED
    BY <1>2, <2>1, <2>3, JobEffects
<1>3. CASE CondemnCancelled(x) \/ CondemnAgain(x)
  <2>1. UNCHANGED <<rh, loaded, gaveUp, jobs>> /\ Condemn({x})
    BY <1>3 DEF CondemnCancelled, CondemnAgain, hist
  <2>2. ASSUME NEW h \in Handle
        PROVE  /\ h # x => info'[h] = info[h]
               /\ info'[h].paused = info[h].paused /\ (InJobs(h)' => InJobs(h))
    BY <2>1, <2>2, CondemnIs DEF InJobs
  <2>3. Works(x)
    BY <1>3, <2>2 DEF Works
  <2>4. QED
    BY <2>1, <2>2, <2>3, JobEffects
<1>4. CASE CallHandler(x)
  <2>1. PICK s \in {"Init", "Connect", "Disconnect", "Shutdown"},
             r \in [ok : BOOLEAN, complete : BOOLEAN], lost \in BOOLEAN :
          Returned(x, s, r) /\ rh' = [rh EXCEPT ![x].cancelled = @ \/ lost]
    BY <1>4 DEF CallHandler
  <2>2. UNCHANGED <<loaded, gaveUp, jobs>>
    BY <1>4 DEF CallHandler
  <2>3. ASSUME NEW h \in Handle
        PROVE  /\ h # x => info'[h] = info[h]
               /\ info'[x].paused = info[x].paused /\ (InJobs(h)' => InJobs(h))
    BY <2>1, <2>2, <2>3, ReturnedIs DEF InJobs
  <2>4. ASSUME NEW h \in Handle
        PROVE  /\ rh'[h].defers = rh[h].defers /\ rh'[h].client = rh[h].client /\ rh'[h].left = rh[h].left
               /\ rh[h].cancelled => rh'[h].cancelled
    BY <1>0, <2>1, <2>4 DEF ResourceHandle
  <2>5. ASSUME NEW h \in Handle PROVE Lasting(h)
    BY <2>2, <2>4, <2>5 DEF Lasting, Holds
  <2>6. ASSUME NEW h \in Handle PROVE Calmly(h) \/ Works(h)
    BY <1>4, <2>3, <2>4, <2>6 DEF Calmly, Works
  <2>7. QED
    BY <2>5, <2>6 DEF Effects
<1>5. CASE RemoveJob(x)
  <2>1. UNCHANGED <<rh, info, loaded, gaveUp>> /\ jobs' = RemoveAt(jobs, Position(x)) /\ InJobs(x)
    BY <1>5 DEF RemoveJob, AtRemove
  <2>2. Position(x) \in 1..Len(jobs)
    BY <1>0, <2>1 DEF InJobs, Position
  <2>3. RemoveAt(jobs, Position(x)) \in Seq(Handle) /\ Len(RemoveAt(jobs, Position(x))) = Len(jobs) - 1
        /\ \A j \in 1..(Len(jobs) - 1) :
             RemoveAt(jobs, Position(x))[j] = IF j < Position(x) THEN jobs[j] ELSE jobs[j + 1]
    BY <1>0, <2>2, RemoveAtFacts
  <2>4. ASSUME NEW h \in Handle PROVE InJobs(h)' => InJobs(h)
    <3>1. ASSUME NEW j \in 1..(Len(jobs) - 1), RemoveAt(jobs, Position(x))[j] = h PROVE InJobs(h)
      <4>1. Len(jobs) \in Nat /\ j \in 1..Len(jobs) /\ j + 1 \in 1..Len(jobs)
        BY <1>0, <3>1
      <4>2. QED
        BY <1>0, <2>3, <3>1, <4>1 DEF InJobs
    <3>2. QED
      BY <1>0, <2>1, <2>3, <3>1 DEF InJobs
  <2>5. QED
    BY <2>1, <2>4, JobEffects
<1>6. CASE PageCancels(x)
  BY <1>6, CancelEffects DEF PageCancels
<1>7. QED
  BY <1>1, <1>2, <1>3, <1>4, <1>5, <1>6 DEF JobSteps

LEMMA TransferStepsEffects == ASSUME IInv, NEW x \in Handle, TransferSteps(x) PROVE Effects
<1>0. rh \in [Handle -> ResourceHandle] /\ info \in [Handle -> JobInfo] /\ jobs \in Seq(Handle)
  BY DEF IInv, DataOK
<1>1. CASE DataReceived(x)
  <2>1. \/ rh' = [rh EXCEPT ![x].left = @ - 1]
        \/ rh' = [[rh EXCEPT ![x].left = @ - 1] EXCEPT ![x].fired = @ \/ ~rh[x].cancelled]
    BY <1>1 DEF DataReceived
  <2>2. /\ \A h \in Handle \ {x} : rh'[h] = rh[h]
        /\ rh'[x].defers = rh[x].defers /\ rh'[x].cancelled = rh[x].cancelled
        /\ rh'[x].client = rh[x].client
    BY <1>0, <2>1 DEF ResourceHandle
  <2>3. UNCHANGED <<info, jobs, loaded, gaveUp>>
    BY <1>1 DEF DataReceived, Called, hist
  <2>4. QED
    BY <1>1, <2>2, <2>3, RhEffects
<1>2. ASSUME NEW result \in BOOLEAN, DataDone(x, result) PROVE Effects
  <2>1. UNCHANGED <<rh, loaded, gaveUp, jobs>>
    BY <1>2 DEF DataDone, Called, hist
  <2>2. info' = info \/ info' = [info EXCEPT ![x].success = FALSE, ![x].state = "Remove"]
    BY <1>2 DEF DataDone
  <2>3. (\A h \in Handle \ {x} : info'[h] = info[h]) /\ info'[x].paused = info[x].paused
    BY <1>0, <2>2 DEF JobInfo
  <2>4. \A h \in Handle : InJobs(h)' => InJobs(h)
    BY <2>1 DEF InJobs
  <2>5. Works(x)
    BY <1>2, <2>3, <2>4 DEF Works
  <2>6. QED
    BY <2>1, <2>3, <2>4, <2>5, JobEffects
<1>3. CASE TransferEnds(x)
  <2>1. UNCHANGED <<rh, loaded, gaveUp, jobs>>
    BY <1>3 DEF TransferEnds, hist
  <2>2. PICK r : Returned(x, "Transfer", r)
    BY <1>3 DEF TransferEnds
  <2>3. (\A h \in Handle \ {x} : info'[h] = info[h]) /\ info'[x].paused = info[x].paused
    BY <2>2, ReturnedIs
  <2>4. \A h \in Handle : InJobs(h)' => InJobs(h)
    BY <2>1 DEF InJobs
  <2>5. Works(x)
    BY <1>3, <2>3, <2>4 DEF Works
  <2>6. QED
    BY <2>1, <2>3, <2>4, <2>5, JobEffects
<1>4. QED
  BY <1>1, <1>2, <1>3 DEF TransferSteps

LEMMA NextEffects == ASSUME IInv, [Next]_vars PROVE Break \/ Resume \/ Effects
<1>1. CASE UNCHANGED vars \/ LoopSteps
  <2>1. UNCHANGED <<rh, info, jobs, loaded, gaveUp>>
    BY <1>1 DEF vars, hist, LoopSteps, StartDone, RestartDone, RunDone, RemoveDone, ProcessJobsDone,
       HandlerRemoved, PageDeleted
  <2>2. QED
    BY <2>1, Unaffected DEF Effects
<1>2. QED
  BY <1>1, EnvironmentEffects, ReturnEffects, JobStepsEffects, TransferStepsEffects DEF Next

-----------------------------------------------------------------------------
(* The calls a step makes: none, or one, the frame on top of the next stack. *)

Answer == {"response", "data", "finish"}
Opening == {"refused"} \cup URLCalls
IsCall(f, h, cbs) == f.at = "client" /\ f.it = h /\ f.cb \in cbs

NoneNew == \A i \in 1..Height' : stack'[i].at \notin LoopAt => i \in 1..Height /\ Alike(i)
SameFor(h) == info'[h] = info[h] /\ rh'[h].client = rh[h].client /\ rh'[h].cancelled = rh[h].cancelled

AnswerComes(h) ==
  /\ TopAt("transfer") /\ Top.it = h /\ InJobs(h) /\ Top.done = "no"
  /\ rh[h].client /\ ~rh[h].cancelled /\ SameFor(h)
  /\ \E cb \in Answer : CallOf(ClientCall(h, cb))
AnswerGoesOn ==
  /\ Top.cb = "response" /\ CallsNext("data")
  /\ rh[Top.it].client /\ ~rh[Top.it].cancelled /\ SameFor(Top.it)
Arrives ==
  \/ \E h \in Handle :
       \/ AnswerComes(h)
       \/ CallTransfer(h) /\ \E g : CallOf(g) /\ g.at = "transfer" /\ g.it = h
       \/ NotifyJobFailed(h) /\ CallOf(ClientCall(h, "fail"))
       \/ Taken(h) /\ \E cb \in Opening : CallOf(ClientCall(h, cb))
       \/ \E cb \in {"headers", "redirect"} : CallOf(ClientCall(h, cb))
  \/ \E g : CallOf(g) /\ g.at = "client" /\ g.cb = "script"
  \/ \E next \in URLCalls : CallsNext(next) /\ Top.cb \in URLCalls
  \/ AnswerGoesOn

LEMMA CalmNoneNew == ASSUME Calm PROVE NoneNew
BY DEF Calm, NothingNew, NoneNew, Alike

LEMMA MarkedNoneNew == ASSUME Marked PROVE NoneNew
BY DEF Marked, Stays, NoneNew

LEMMA StaysNoneNew == ASSUME UNCHANGED stack PROVE NoneNew
BY DEF NoneNew, Alike, Height

LEMMA NextArrives ==
  ASSUME IInv, IInv', Stacked, [Next]_vars PROVE Break \/ Resume \/ NoneNew \/ Arrives
<1>0. /\ {"response", "data", "finish"} = Answer /\ "refused" \in Opening
      /\ {"urlResponse", "urlData", "urlDone"} = URLCalls /\ URLCalls \subseteq Opening
      /\ rh \in [Handle -> ResourceHandle]
  BY DEF Answer, Opening, URLCalls, IInv, DataOK
<1>1. CASE UNCHANGED vars \/ LoopSteps
  BY <1>1, StaysNoneNew, LoopCalm, CalmNoneNew DEF vars
<1>2. CASE Environment
  <2>1. ASSUME NEW h \in Handle, Add(h) \/ Cancel(h) PROVE NoneNew
    BY <2>1, StaysNoneNew DEF Add, Cancel
  <2>2. ASSUME NEW h \in Handle, HeadersReceived(h) PROVE NoneNew \/ Arrives
    BY <2>2, HeadersReceivedIs, CalmNoneNew DEF Arrives
  <2>3. ASSUME NEW v \in View, RunScript(v) PROVE Arrives
    BY <2>3, RunScriptIs DEF Arrives
  <2>4. ASSUME NEW S, NEW src, NEW v, Purge(S, src, v) PROVE NoneNew
    BY <2>4, PurgeCalm, CalmNoneNew
  <2>5. CASE Tick \/ TimerFires
    BY <2>5, TickCalm, CalmNoneNew
  <2>6. QED
    BY <1>2, <2>1, <2>2, <2>3, <2>4, <2>5 DEF Environment, ShutdownView, RemoveTransportHandler
<1>3. CASE ClientReturns
  <2>1. CASE ReturnSteps
    BY <2>1, ReturnStepsCalm, CalmNoneNew
  <2>2. CASE NextURLCall
    BY <1>0, <2>2, NextURLCallIs DEF Arrives
  <2>3. CASE ReturnFromResponse /\ CallsNext("data") /\ rh[Top.it].client /\ ~rh[Top.it].cancelled
    <3>1. Top.cb = "response" /\ Top.it \in Handle
      BY <2>3, ReturnFromResponseIs
    <3>2. rh' = [rh EXCEPT ![Top.it].fired = TRUE] /\ info' = info
      BY <2>3 DEF ReturnFromResponse
    <3>3. SameFor(Top.it)
      BY <1>0, <3>1, <3>2, FiredIs DEF SameFor
    <3>4. QED
      BY <2>3, <3>1, <3>3 DEF Arrives, AnswerGoesOn
  <2>4. QED
    BY <1>3, <2>1, <2>2, <2>3, ClientReturnsIs
<1>4. ASSUME NEW h \in Handle, JobSteps(h) PROVE NoneNew \/ Arrives
  <2>1. CASE StartDataURL(h)
    BY <1>0, <2>1, StartDataURLIs DEF Arrives
  <2>2. CASE StartJob(h)
    BY <2>2, StartJobCalm, CalmNoneNew
  <2>3. CASE StartRefused(h)
    BY <1>0, <2>3, StartRefusedIs DEF Arrives
  <2>4. CASE CallTransfer(h)
    BY <2>4, CallTransferIs DEF Arrives
  <2>5. CASE NotifyJobFailed(h)
    BY <2>5, NotifyJobFailedIs, MarkedNoneNew DEF Arrives
  <2>6. CASE PageCancels(h)
    BY <2>6, StaysNoneNew DEF PageCancels
  <2>7. CASE AdvanceSteps(h)
    BY <2>7, AdvanceIs, CalmNoneNew
  <2>8. QED
    BY <1>4, <2>1, <2>2, <2>3, <2>4, <2>5, <2>6, <2>7 DEF JobSteps, AdvanceSteps
<1>5. ASSUME NEW h \in Handle, TransferSteps(h) PROVE NoneNew \/ Arrives
  <2>1. CASE DataReceived(h)
    <3>1. CASE Marked
      BY <3>1, MarkedNoneNew
    <3>2. ASSUME NEW cb \in {"data", "response"}, CallOf(ClientCall(h, cb)), rh[h].client, ~rh[h].cancelled
          PROVE  Arrives
      <4>1. rh' = [rh EXCEPT ![h].left = @ - 1] /\ info' = info
        BY <2>1, <3>2 DEF DataReceived
      <4>2. SameFor(h)
        BY <1>0, <4>1 DEF SameFor, ResourceHandle
      <4>3. TopAt("transfer") /\ Top.it = h /\ InJobs(h) /\ Top.done = "no"
        BY <2>1, DataReceivedIs
      <4>4. QED
        BY <1>0, <3>2, <4>2, <4>3 DEF Arrives, AnswerComes
    <3>3. QED
      BY <2>1, <3>1, <3>2, DataReceivedIs
  <2>2. ASSUME NEW result \in BOOLEAN, DataDone(h, result) PROVE NoneNew \/ Arrives
    <3>1. CASE Marked
      BY <3>1, MarkedNoneNew
    <3>2. ASSUME CallOf(ClientCall(h, "finish")), rh[h].client, ~rh[h].cancelled, result
          PROVE  Arrives
      <4>1. rh' = rh /\ info' = info
        BY <2>2, <3>2 DEF DataDone
      <4>2. SameFor(h)
        BY <4>1 DEF SameFor
      <4>3. TopAt("transfer") /\ Top.it = h /\ InJobs(h) /\ Top.done = "no"
        BY <2>2, DataDoneIs
      <4>4. QED
        BY <1>0, <3>2, <4>2, <4>3 DEF Arrives, AnswerComes
    <3>3. QED
      BY <2>2, <3>1, <3>2, DataDoneIs
  <2>3. CASE TransferEnds(h)
    BY <2>3, TransferEndsIs, CalmNoneNew
  <2>4. QED
    BY <1>5, <2>1, <2>2, <2>3 DEF TransferSteps
<1>6. QED
  BY <1>1, <1>2, <1>3, <1>4, <1>5 DEF Next

(* What leads to a Transfer being in control.                                *)
LEMMA NextInTransfer ==
  ASSUME IInv, IInv', Stacked, [Next]_vars, stack' # <<>>, Top'.at = "transfer"
  PROVE  \/ UNCHANGED vars
         \/ \E h \in Handle : CallTransfer(h) \/ DataReceived(h) \/ \E result \in BOOLEAN : DataDone(h, result)
         \/ ReturnSteps
<1>0. "transfer" \notin LoopAt /\ "client" # "transfer"
  BY DEF LoopAt
<1>1. ASSUME UNCHANGED stack PROVE Top.at = "transfer" /\ stack # <<>>
  BY <1>1 DEF Top
<1>a. ASSUME NEW h, NEW cb, CallOf(ClientCall(h, cb)) PROVE FALSE
  BY <1>a DEF CallOf, ClientCall
<1>2. ASSUME stack # <<>>, Top.at \in LoopAt, stack' = Return PROVE FALSE
  <2>1. Height \in Nat /\ Height > 0 /\ Top = stack[Height] /\ Height' = Height - 1
        /\ (Height > 1 => Top' = stack[Height - 1])
    BY <1>2, StackTypes, ReturnMoves DEF Under
  <2>2. Height > 1
    BY <2>1, NextTypes
  <2>3. CalledBy(stack[Height - 1], Top) /\ Top' = stack[Height - 1]
    BY <2>1, <2>2 DEF Stacked
  <2>4. QED
    BY <1>2, <2>3 DEF CalledBy, Brk, LoopAt
<1>3. ASSUME Environment PROVE FALSE
  <2>1. ASSUME NEW h \in Handle, Add(h) \/ Cancel(h) PROVE FALSE
    BY <1>0, <1>1, <2>1 DEF Add, Cancel, Idle, TopAt
  <2>2. ASSUME NEW h \in Handle, HeadersReceived(h) PROVE FALSE
    <3>1. CASE UNCHANGED stack
      BY <1>0, <1>1, <2>2, <3>1 DEF HeadersReceived, AppRuns, Idle, TopAt
    <3>2. CASE \E cb : CallOf(ClientCall(h, cb))
      BY <3>2 DEF CallOf, ClientCall
    <3>3. QED
      BY <2>2, <3>1, <3>2, HeadersReceivedIs
  <2>3. ASSUME NEW v \in View, RunScript(v) PROVE FALSE
    BY <2>3, RunScriptIs DEF CallOf
  <2>4. ASSUME NEW S, NEW src, NEW v, Purge(S, src, v) PROVE FALSE
    BY <1>0, <2>4, PurgeCalm
  <2>5. CASE Tick \/ TimerFires
    BY <2>5, TickCalm
  <2>6. CASE Break
    BY <2>6, BrkSteps DEF Break, ScriptRuns
  <2>7. CASE Resume
    BY <2>7, BrkSteps DEF Resume
  <2>8. ASSUME NEW h \in Handle, Add(h) \/ Cancel(h) \/ HeadersReceived(h) PROVE FALSE
    BY <2>1, <2>2, <2>8
  <2>9. ASSUME NEW v \in View, RunScript(v) \/ ShutdownView(v) PROVE FALSE
    BY <2>3, <2>4, <2>9 DEF ShutdownView
  <2>10. QED
    BY <1>3, <2>4, <2>5, <2>6, <2>7, <2>8, <2>9 DEF Environment, RemoveTransportHandler
<1>4. ASSUME ClientReturns PROVE ReturnSteps
  <2>1. ASSUME NEW next, CallsNext(next) PROVE FALSE
    BY <2>1, CallsOn DEF CallsNext, ClientCall
  <2>2. QED
    BY <1>4, <2>1, ClientReturnsIs, NextURLCallIs
<1>5. ASSUME LoopSteps PROVE FALSE
  <2>1. CASE StartDone
    BY <2>1, StartDoneCalm
  <2>2. CASE RunDone
    BY <2>2, RunDoneCalm
  <2>3. CASE RemoveDone
    BY <2>3, RemoveDoneCalm
  <2>4. CASE ProcessJobsDone
    BY <2>4, ProcessJobsDoneCalm
  <2>5. CASE RestartDone \/ HandlerRemoved \/ PageDeleted
    BY <1>2, <2>5 DEF RestartDone, HandlerRemoved, PageDeleted, TopAt, LoopAt
  <2>6. QED
    BY <1>5, <2>1, <2>2, <2>3, <2>4, <2>5 DEF LoopSteps
<1>6. ASSUME NEW h \in Handle, JobSteps(h) PROVE CallTransfer(h)
  <2>1. CASE StartDataURL(h)
    BY <2>1, StartDataURLIs, <1>a
  <2>2. CASE StartJob(h)
    BY <2>2, StartJobCalm DEF StartJob, Starting, TopAt
  <2>3. CASE StartRefused(h)
    BY <2>3, StartRefusedIs, <1>a
  <2>4. CASE NotifyJobFailed(h)
    BY <2>4, NotifyJobFailedIs, <1>a
  <2>5. CASE PageCancels(h)
    BY <1>1, <2>5 DEF PageCancels, DeletingPage, TopAt
  <2>6. CASE AdvanceSteps(h)
    BY <2>6, AdvanceIs
  <2>7. QED
    BY <1>6, <2>1, <2>2, <2>3, <2>4, <2>5, <2>6 DEF JobSteps, AdvanceSteps
<1>7. ASSUME NEW h \in Handle, TransferSteps(h)
      PROVE  DataReceived(h) \/ \E result \in BOOLEAN : DataDone(h, result)
  <2>1. CASE TransferEnds(h)
    BY <2>1, TransferEndsIs
  <2>2. QED
    BY <1>7, <2>1 DEF TransferSteps
<1>8. QED
  BY <1>3, <1>4, <1>5, <1>6, <1>7 DEF Next

(* The frame a step puts on top, with the step that does.                    *)
Kept(i) == i \in 1..Height /\ Alike(i)
NewCall(f, h, cb) == f.at = "client" /\ f.it = h /\ f.cb = cb /\ ~f.brk
Appears(f) ==
  \/ \E h \in Handle, cb \in Answer : AnswerComes(h) /\ NewCall(f, h, cb)
  \/ \E h \in Handle : CallTransfer(h) /\ f.at = "transfer" /\ f.it = h
  \/ \E h \in Handle : NotifyJobFailed(h) /\ NewCall(f, h, "fail")
  \/ \E h \in Handle, cb \in Opening : Taken(h) /\ NewCall(f, h, cb)
  \/ f.at = "client" /\ f.cb \in {"headers", "redirect", "script"}
Follows(f) ==
  \/ AnswerGoesOn /\ NewCall(f, Top.it, "data")
  \/ \E next \in URLCalls : CallsNext(next) /\ Top.cb \in URLCalls /\ NewCall(f, Top.it, next)
NewOnTop(i) ==
  i = Height' /\ ((i = Height + 1 /\ Appears(stack'[i])) \/ (i = Height /\ Follows(stack'[i])))

LEMMA NewCalls == ASSUME NEW h, NEW cb PROVE NewCall(ClientCall(h, cb), h, cb)
BY DEF NewCall, ClientCall

LEMMA Newcomers ==
  ASSUME IInv, IInv', Stacked, NoneNew \/ Arrives,
         NEW i \in 1..Height', stack'[i].at \in {"client", "transfer"}
  PROVE  Kept(i) \/ NewOnTop(i)
<1>0. Height \in Nat /\ Height' \in Nat /\ stack'[i].at \notin LoopAt
  BY StackTypes, NextTypes DEF LoopAt
<1>1. CASE NoneNew
  BY <1>0, <1>1 DEF NoneNew, Kept
<1>2. ASSUME NEW g, CallOf(g) PROVE Kept(i) \/ (i = Height' /\ i = Height + 1 /\ stack'[i] = g)
  BY <1>0, <1>2 DEF CallOf, Stays, Kept
<1>3. ASSUME NEW next, CallsNext(next)
      PROVE  Kept(i) \/ (i = Height' /\ i = Height /\ stack'[i] = ClientCall(Top.it, next))
  <2>1. Height > 0 /\ Height' = Height /\ Agree(Height - 1) /\ stack'[Height] = ClientCall(Top.it, next)
    BY <1>3, CallsOn DEF CallsNext
  <2>2. CASE i = Height
    BY <2>1, <2>2
  <2>3. CASE i # Height
    <3>1. i \in 1..(Height - 1) /\ i \in 1..Height
      BY <1>0, <2>1, <2>3
    <3>2. stack'[i] = stack[i]
      BY <2>1, <3>1 DEF Agree
    <3>3. QED
      BY <3>1, <3>2 DEF Kept, Alike
  <2>4. QED
    BY <2>2, <2>3
<1>4. ASSUME Arrives PROVE Kept(i) \/ NewOnTop(i)
  <2>1. ASSUME NEW h \in Handle, AnswerComes(h) PROVE Kept(i) \/ NewOnTop(i)
    <3>1. PICK cb \in Answer : CallOf(ClientCall(h, cb))
      BY <2>1 DEF AnswerComes
    <3>2. QED
      BY <1>2, <2>1, <3>1, NewCalls DEF NewOnTop, Appears
  <2>2. ASSUME NEW h \in Handle, CallTransfer(h), NEW g, CallOf(g), g.at = "transfer", g.it = h
        PROVE  Kept(i) \/ NewOnTop(i)
    BY <1>2, <2>2 DEF NewOnTop, Appears
  <2>3. ASSUME NEW h \in Handle, NotifyJobFailed(h), CallOf(ClientCall(h, "fail")) PROVE Kept(i) \/ NewOnTop(i)
    BY <1>2, <2>3, NewCalls DEF NewOnTop, Appears
  <2>4. ASSUME NEW h \in Handle, Taken(h), NEW cb \in Opening, CallOf(ClientCall(h, cb))
        PROVE  Kept(i) \/ NewOnTop(i)
    BY <1>2, <2>4, NewCalls DEF NewOnTop, Appears
  <2>5. ASSUME NEW h \in Handle, NEW cb \in {"headers", "redirect"}, CallOf(ClientCall(h, cb))
        PROVE  Kept(i) \/ NewOnTop(i)
    <3>1. ClientCall(h, cb).at = "client" /\ ClientCall(h, cb).cb = cb
      BY DEF ClientCall
    <3>2. QED
      BY <1>2, <2>5, <3>1 DEF NewOnTop, Appears
  <2>6. ASSUME NEW g, CallOf(g), g.at = "client", g.cb = "script" PROVE Kept(i) \/ NewOnTop(i)
    BY <1>2, <2>6 DEF NewOnTop, Appears
  <2>7. ASSUME NEW next \in URLCalls, CallsNext(next), Top.cb \in URLCalls PROVE Kept(i) \/ NewOnTop(i)
    BY <1>3, <2>7, NewCalls DEF NewOnTop, Follows
  <2>8. CASE AnswerGoesOn
    <3>1. CallsNext("data")
      BY <2>8 DEF AnswerGoesOn
    <3>2. QED
      BY <1>3, <2>8, <3>1, NewCalls DEF NewOnTop, Follows
  <2>9. QED
    BY <1>4, <2>1, <2>2, <2>3, <2>4, <2>5, <2>6, <2>7, <2>8 DEF Arrives
<1>5. QED
  BY <1>1, <1>4

LEMMA TakenIs ==
  ASSUME IInv, Queued, NEW h \in Handle, Taken(h)
  PROVE  ~Touched(h) /\ Holds(h) /\ h \in loaded
<1>1. Waiting(h)
  <2>1. pending \in Seq(Handle) /\ pending # <<>> /\ h = Head(pending)
    BY DEF IInv, DataOK, Taken
  <2>2. 1 \in DOMAIN pending /\ pending[1] = h
    BY <2>1
  <2>3. QED
    BY <2>2 DEF Waiting
<1>2. QED
  BY <1>1 DEF Queued, Begun, Untouched, Holds

-----------------------------------------------------------------------------
(* What holds of the loads whose activations are on the stack.               *)

(* The first call of a client that startPendingJob makes is below everything *)
(* else that is about its handle, a Transfer below the failure it led to.    *)
Opened == \A i, j \in 1..Height, h \in Handle :
            IsCall(stack[j], h, Opening) /\ About(stack[i], h) => j <= i
Failed == \A i, j \in 1..Height, h \in Handle :
            stack[i].at = "transfer" /\ stack[i].it = h /\ IsCall(stack[j], h, {"fail"}) => i < j
FailedCondemned == \A j \in 1..Height, h \in Handle :
                     IsCall(stack[j], h, {"fail"}) /\ InJobs(h) => info[h].state = "Remove"

(* While a client hears of its data nothing happens to the job, unless it is *)
(* cancelled, and it is paused just as long as the client is at a            *)
(* breakpoint.                                                               *)
Answering ==
  \A i \in 1..Height, h \in Handle :
    IsCall(stack[i], h, Answer) /\ InJobs(h) /\ ~rh[h].cancelled
      => rh[h].client /\ info[h].state = "Transfer" /\ (info[h].paused <=> stack[i].brk)

(* The Transfer in control is that of a job which is not paused.             *)
InControl ==
  stack # <<>> /\ Top.at = "transfer" =>
    \A h \in Handle : Top.it = h /\ InJobs(h) /\ ~rh[h].cancelled
      => ~info[h].paused /\ (Top.done = "no" => info[h].state = "Transfer")

OneTransfer ==
  \A i, j \in 1..Height, h \in Handle :
    (stack[i].at = "transfer" /\ stack[i].it = h) /\ (stack[j].at = "transfer" /\ stack[j].it = h) => i = j

(* A handle that its client holds is deferred exactly while its page is, and *)
(* its job paused exactly while it is deferred; but not a job without a      *)
(* handler, while its client is told.                                        *)
Deferred ==
  /\ \A h \in Handle : h \notin loaded => ~rh[h].defers
  /\ \A h \in Handle : Holds(h) => (rh[h].defers <=> ViewOf[h] \in Broken)
Refusing(h) == /\ TopAt("client") /\ Top.cb = "refused" /\ Top.it = h /\ ~Top.brk
               /\ Broken # {} /\ jobs # <<>> /\ Last(jobs) = h
Paused == \A h \in Handle : InJobs(h) => info[h].paused = rh[h].defers \/ Refusing(h)

Suspended == /\ Opened /\ Failed /\ FailedCondemned /\ Answering /\ InControl /\ OneTransfer
             /\ Deferred /\ Paused

-----------------------------------------------------------------------------
(* Each part of it, through a step that is neither Break nor Resume.         *)

LEMMA KeptIs ==
  ASSUME NEW i, Kept(i)
  PROVE  /\ i \in 1..Height
         /\ \A h : About(stack'[i], h) => About(stack[i], h)
         /\ \A h, cbs : IsCall(stack'[i], h, cbs) => IsCall(stack[i], h, cbs) /\ stack'[i] = stack[i]
         /\ stack'[i].at = stack[i].at /\ stack'[i].it = stack[i].it
BY DEF Kept, Alike, About, IsCall

LEMMA NewAnswers ==
  ASSUME NEW i, NewOnTop(i), NEW h, IsCall(stack'[i], h, Answer)
  PROVE  \/ AnswerComes(h)
         \/ AnswerGoesOn /\ Top.it = h
BY DEF NewOnTop, Appears, Follows, IsCall, Answer, Opening, URLCalls, NewCall

LEMMA NewOpens ==
  ASSUME NEW i, NewOnTop(i), NEW h, IsCall(stack'[i], h, Opening)
  PROVE  \/ Taken(h) /\ i = Height + 1
         \/ i = Height /\ TopAt("client") /\ Top.it = h /\ Top.cb \in Opening
BY DEF NewOnTop, Appears, Follows, IsCall, Answer, Opening, URLCalls, NewCall, CallsNext

LEMMA NewFails ==
  ASSUME NEW i, NewOnTop(i), NEW h, IsCall(stack'[i], h, {"fail"})
  PROVE  NotifyJobFailed(h)
BY DEF NewOnTop, Appears, Follows, IsCall, Answer, Opening, URLCalls, NewCall

LEMMA NewTransfers ==
  ASSUME NEW i, NewOnTop(i), NEW h, stack'[i].at = "transfer", stack'[i].it = h
  PROVE  CallTransfer(h) /\ i = Height + 1 /\ i = Height'
BY DEF NewOnTop, Appears, Follows, NewCall

LEMMA OpenedKept ==
  ASSUME IInv, IInv', Stacked, Queued, Opened, NoneNew \/ Arrives
  PROVE  Opened'
<1>0. Height \in Nat /\ Height' \in Nat
  BY StackTypes, NextTypes
<1>1. ASSUME NEW i \in 1..Height', NEW j \in 1..Height', NEW h \in Handle,
             IsCall(stack'[j], h, Opening), About(stack'[i], h)
      PROVE  j <= i
  <2>1. Kept(i) \/ NewOnTop(i)
    BY <1>1, Newcomers DEF About
  <2>2. Kept(j) \/ NewOnTop(j)
    BY <1>1, Newcomers DEF IsCall
  <2>3. CASE NewOnTop(i)
    BY <1>0, <1>1, <2>3 DEF NewOnTop
  <2>4. CASE Kept(i) /\ Kept(j)
    BY <1>1, <2>4, KeptIs DEF Opened
  <2>5. CASE Kept(i) /\ NewOnTop(j)
    <3>1. i \in 1..Height /\ About(stack[i], h)
      BY <1>1, <2>5, KeptIs
    <3>2. Touched(h)
      BY <3>1 DEF Touched
    <3>3. ~Taken(h)
      BY <3>2, TakenIs
    <3>4. j = Height /\ TopAt("client") /\ Top.it = h /\ Top.cb \in Opening
      BY <1>1, <2>5, <3>3, NewOpens
    <3>5. j \in 1..Height /\ IsCall(stack[j], h, Opening)
      BY <3>4, TopTypes DEF IsCall, TopAt
    <3>6. QED
      BY <3>1, <3>5 DEF Opened
  <2>6. QED
    BY <2>1, <2>2, <2>3, <2>4, <2>5
<1>2. QED
  BY <1>1 DEF Opened

LEMMA FailedKept ==
  ASSUME IInv, IInv', Stacked, Failed, FailedCondemned, NoneNew \/ Arrives
  PROVE  Failed'
<1>0. Height \in Nat /\ Height' \in Nat
  BY StackTypes, NextTypes
<1>1. ASSUME NEW i \in 1..Height', NEW j \in 1..Height', NEW h \in Handle,
             stack'[i].at = "transfer", stack'[i].it = h, IsCall(stack'[j], h, {"fail"})
      PROVE  i < j
  <2>1. Kept(i) \/ NewOnTop(i)
    BY <1>1, Newcomers
  <2>2. Kept(j) \/ NewOnTop(j)
    BY <1>1, Newcomers DEF IsCall
  <2>3. i # j
    BY <1>1 DEF IsCall
  <2>4. CASE NewOnTop(j)
    BY <1>0, <1>1, <2>3, <2>4 DEF NewOnTop
  <2>5. CASE Kept(i) /\ Kept(j)
    BY <1>1, <2>5, KeptIs DEF Failed
  <2>6. CASE NewOnTop(i) /\ Kept(j)
    <3>1. CallTransfer(h)
      BY <1>1, <2>6, NewTransfers
    <3>2. InJobs(h) /\ info[h].state = "Transfer"
      BY <3>1 DEF CallTransfer, AtState, AtJob
    <3>3. j \in 1..Height /\ IsCall(stack[j], h, {"fail"})
      BY <1>1, <2>6, KeptIs
    <3>4. QED
      BY <3>2, <3>3 DEF FailedCondemned
  <2>7. QED
    BY <2>1, <2>2, <2>4, <2>5, <2>6
<1>2. QED
  BY <1>1 DEF Failed

LEMMA OneTransferKept ==
  ASSUME IInv, IInv', Stacked, Answering, OneTransfer, NoneNew \/ Arrives
  PROVE  OneTransfer'
<1>0. Height \in Nat /\ Height' \in Nat
  BY StackTypes, NextTypes
<1>1. ASSUME NEW i \in 1..Height', NEW j \in 1..Height', NEW h \in Handle,
             stack'[i].at = "transfer", stack'[i].it = h, Kept(i), NewOnTop(j),
             stack'[j].at = "transfer", stack'[j].it = h
      PROVE  FALSE
  <2>1. CallTransfer(h)
    BY <1>1, NewTransfers
  <2>2. InJobs(h) /\ ~rh[h].cancelled /\ ~info[h].paused /\ stack # <<>> /\ Top.at = "run"
    BY <2>1 DEF CallTransfer, AtState, AtJob, TopAt
  <2>3. i \in 1..Height /\ stack[i].at = "transfer" /\ stack[i].it = h
    BY <1>1, KeptIs
  <2>4. Top = stack[Height] /\ Height > 0
    BY <2>2, StackTypes
  <2>5. i # Height /\ i + 1 \in 2..Height /\ i + 1 \in 1..Height /\ (i + 1) - 1 = i
    BY <1>0, <2>2, <2>3, <2>4
  <2>6. CalledBy(stack[i], stack[i + 1])
    BY <2>5 DEF Stacked
  <2>7. IsCall(stack[i + 1], h, Answer)
    BY <2>3, <2>6 DEF CalledBy, IsCall, Answer, Brk, LoopAt
  <2>8. i + 1 < Height /\ stack[i + 1].at = "client"
    BY <1>0, <2>2, <2>4, <2>5, <2>7 DEF IsCall
  <2>9. Brk(stack[i + 1])
    BY <2>5, <2>8, ClientBelow
  <2>10. QED
    BY <2>2, <2>5, <2>7, <2>9 DEF Answering, Brk
<1>2. ASSUME NEW i \in 1..Height', NEW j \in 1..Height', NEW h \in Handle,
             stack'[i].at = "transfer", stack'[i].it = h,
             stack'[j].at = "transfer", stack'[j].it = h
      PROVE  i = j
  <2>1. (Kept(i) \/ NewOnTop(i)) /\ (Kept(j) \/ NewOnTop(j))
    BY <1>2, Newcomers
  <2>2. CASE Kept(i) /\ Kept(j)
    BY <1>2, <2>2, KeptIs DEF OneTransfer
  <2>3. CASE NewOnTop(i) /\ NewOnTop(j)
    BY <2>3 DEF NewOnTop
  <2>4. QED
    BY <1>1, <1>2, <2>1, <2>2, <2>3
<1>3. QED
  BY <1>2 DEF OneTransfer

(* A job that a frame of the stack is about was in the list before.          *)
LEMMA StillInJobs ==
  ASSUME IInv, Queued, Effects, NEW h \in Handle, NEW i \in 1..Height, About(stack[i], h)
  PROVE  /\ InJobs(h)' => InJobs(h)
         /\ Calmly(h) \/ Works(h)
<1>1. Touched(h)
  BY DEF Touched
<1>2. ~Taken(h)
  BY <1>1, TakenIs
<1>3. ~StartJob(h) /\ ~StartRefused(h)
  BY <1>2 DEF StartJob, StartRefused, Taken, MayStart
<1>4. QED
  BY <1>3 DEF Effects, Calmly, Works

LEMMA CondemnSteps ==
  ASSUME IInv, NEW h \in Handle, CondemnCancelled(h) \/ CondemnAgain(h)
  PROVE  info'[h].state = "Remove"
BY CondemnIs DEF CondemnCancelled, CondemnAgain

LEMMA DataDoneInfo ==
  ASSUME IInv, NEW h \in Handle, NEW result, DataDone(h, result)
  PROVE  info'[h] = info[h] \/ info'[h].state = "Remove"
<1>1. info' = info \/ info' = [info EXCEPT ![h].success = FALSE, ![h].state = "Remove"]
  BY DEF DataDone
<1>2. QED
  BY <1>1 DEF IInv, DataOK, JobInfo

LEMMA FailedCondemnedKept ==
  ASSUME IInv, IInv', Stacked, Queued, Failed, FailedCondemned, NoneNew \/ Arrives, Effects
  PROVE  FailedCondemned'
<1>0. Height \in Nat /\ Height' \in Nat /\ (Idle => Height = 0) /\ (stack # <<>> => Top = stack[Height])
  BY StackTypes, NextTypes DEF Idle
<1>1. ASSUME NEW j \in 1..Height', NEW h \in Handle, IsCall(stack'[j], h, {"fail"}), InJobs(h)'
      PROVE  info'[h].state = "Remove"
  <2>1. Kept(j) \/ NewOnTop(j)
    BY <1>1, Newcomers DEF IsCall
  <2>2. CASE NewOnTop(j)
    BY <1>1, <2>2, NewFails DEF NotifyJobFailed
  <2>3. CASE Kept(j)
    <3>1. j \in 1..Height /\ IsCall(stack[j], h, {"fail"})
      BY <1>1, <2>3, KeptIs
    <3>2. About(stack[j], h)
      BY <3>1 DEF IsCall, About
    <3>3. InJobs(h) /\ (Calmly(h) \/ Works(h))
      BY <1>1, <3>1, <3>2, StillInJobs
    <3>4. info[h].state = "Remove"
      BY <3>1, <3>3 DEF FailedCondemned
    <3>5. CASE Calmly(h)
      BY <3>4, <3>5 DEF Calmly
    <3>6. CASE CondemnCancelled(h) \/ CondemnAgain(h)
      BY <3>6, CondemnSteps
    <3>7. CASE CallHandler(h)
      BY <3>4, <3>7 DEF CallHandler, AtState
    <3>8. ASSUME NEW result, DataDone(h, result) PROVE info'[h].state = "Remove"
      BY <3>4, <3>8, DataDoneInfo
    <3>9. ASSUME TransferEnds(h) PROVE FALSE
      <4>1. Top.at = "transfer" /\ Top.it = h /\ Top = stack[Height] /\ Height > 0
        BY <1>0, <3>9, StackTypes DEF TransferEnds, TopAt
      <4>2. Height \in 1..Height
        BY <1>0, <4>1
      <4>3. Height < j
        BY <3>1, <4>1, <4>2 DEF Failed
      <4>4. QED
        BY <1>0, <3>1, <4>3
    <3>10. CASE Leaves(h)
      BY <3>4, <3>10 DEF Leaves
    <3>11. ~Idle
      BY <1>0, <3>1
    <3>12. QED
      BY <3>3, <3>5, <3>6, <3>7, <3>8, <3>9, <3>10, <3>11 DEF Works
  <2>4. QED
    BY <2>1, <2>2, <2>3
<1>2. QED
  BY <1>1 DEF FailedCondemned

(* While a Transfer is in control its client is not.                         *)
LEMMA NotAnswering ==
  ASSUME IInv, Stacked, Answering, InControl, TopAt("transfer"),
         NEW h \in Handle, Top.it = h, InJobs(h), ~rh[h].cancelled,
         NEW i \in 1..Height, IsCall(stack[i], h, Answer)
  PROVE  FALSE
<1>1. Height \in Nat /\ Top = stack[Height] /\ Top.at = "transfer"
  BY StackTypes DEF TopAt
<1>2. i # Height /\ stack[i].at = "client"
  BY <1>1 DEF IsCall
<1>3. i < Height
  BY <1>1, <1>2
<1>4. Brk(stack[i])
  BY <1>2, <1>3, ClientBelow
<1>5. info[h].paused
  BY <1>4 DEF Answering, Brk
<1>6. QED
  BY <1>5 DEF InControl, TopAt

LEMMA AnsweringKept ==
  ASSUME IInv, IInv', Stacked, Queued, Opened, FailedCondemned, Answering, InControl,
         NoneNew \/ Arrives, Effects
  PROVE  Answering'
<1>0. Height \in Nat /\ Height' \in Nat /\ (Idle => Height = 0) /\ (stack # <<>> => Top = stack[Height])
  BY StackTypes, NextTypes DEF Idle
<1>1. ASSUME NEW i \in 1..Height', NEW h \in Handle, IsCall(stack'[i], h, Answer), InJobs(h)',
             ~rh'[h].cancelled
      PROVE  rh'[h].client /\ info'[h].state = "Transfer" /\ (info'[h].paused <=> stack'[i].brk)
  <2>0. ~rh[h].cancelled
    BY <1>1 DEF Effects, Lasting
  <2>1. Kept(i) \/ NewOnTop(i)
    BY <1>1, Newcomers DEF IsCall
  <2>2. CASE Kept(i)
    <3>1. i \in 1..Height /\ IsCall(stack[i], h, Answer) /\ stack'[i] = stack[i] /\ stack[i].at = "client"
      BY <1>1, <2>2, KeptIs DEF IsCall
    <3>2. About(stack[i], h)
      BY <3>1 DEF IsCall, About
    <3>3. InJobs(h) /\ (Calmly(h) \/ Works(h))
      BY <1>1, <3>1, <3>2, StillInJobs
    <3>4. rh[h].client /\ info[h].state = "Transfer" /\ (info[h].paused <=> stack[i].brk)
      BY <2>0, <3>1, <3>3 DEF Answering
    <3>5. CASE Calmly(h)
      BY <3>1, <3>4, <3>5 DEF Calmly
    <3>6. ASSUME CondemnCancelled(h) \/ CondemnAgain(h) \/ CallHandler(h) PROVE FALSE
      BY <2>0, <3>4, <3>6 DEF CondemnCancelled, CondemnAgain, CallHandler, AtState
    <3>7. ASSUME (\E result \in BOOLEAN : DataDone(h, result)) \/ TransferEnds(h) PROVE FALSE
      <4>1. TopAt("transfer") /\ Top.it = h
        BY <3>7 DEF DataDone, InTransfer, TransferEnds
      <4>2. QED
        BY <2>0, <3>1, <3>3, <4>1, NotAnswering
    <3>8. ASSUME Leaves(h) PROVE FALSE
      <4>1. /\ Top.at = "client" /\ ~Top.brk /\ Top.it = h /\ stack' = Return /\ stack # <<>>
            /\ Top.cb \in {"finish", "fail", "refused", "urlDone"}
        BY <3>8 DEF Leaves, TopAt
      <4>2. Height' = Height - 1 /\ Height > 0 /\ Height \in 1..Height /\ Top = stack[Height]
        BY <1>0, <4>1, ReturnMoves, StackTypes
      <4>3. i < Height
        BY <1>0, <1>1, <4>2
      <4>4. Brk(stack[i])
        BY <3>1, <4>3, ClientBelow
      <4>5. info[h].paused
        BY <3>4, <4>4 DEF Brk
      <4>6. CASE Top.cb = "finish"
        <5>1. IsCall(stack[Height], h, Answer)
          BY <4>1, <4>2, <4>6 DEF IsCall, Answer
        <5>2. QED
          BY <2>0, <3>3, <4>1, <4>2, <4>5, <5>1 DEF Answering
      <4>7. CASE Top.cb = "fail"
        <5>1. IsCall(stack[Height], h, {"fail"})
          BY <4>1, <4>2, <4>7 DEF IsCall
        <5>2. QED
          BY <3>3, <3>4, <4>2, <5>1 DEF FailedCondemned
      <4>8. CASE Top.cb \in {"refused", "urlDone"}
        <5>1. IsCall(stack[Height], h, Opening)
          BY <4>1, <4>2, <4>8 DEF IsCall, Opening, URLCalls
        <5>2. Height <= i
          BY <3>1, <3>2, <4>2, <5>1 DEF Opened
        <5>3. QED
          BY <1>0, <3>1, <4>3, <5>2
      <4>9. QED
        BY <4>1, <4>6, <4>7, <4>8
    <3>9. ~Idle
      BY <1>0, <3>1
    <3>10. QED
      BY <3>3, <3>5, <3>6, <3>7, <3>8, <3>9 DEF Works
  <2>3. CASE NewOnTop(i)
    <3>1. ~stack'[i].brk /\ (AnswerComes(h) \/ (AnswerGoesOn /\ Top.it = h))
      <4>1. AnswerComes(h) \/ (AnswerGoesOn /\ Top.it = h)
        BY <1>1, <2>3, NewAnswers
      <4>2. ~stack'[i].brk
        BY <1>1, <2>3 DEF NewOnTop, Appears, Follows, IsCall, Answer, NewCall, Opening, URLCalls
      <4>3. QED
        BY <4>1, <4>2
    <3>2. CASE AnswerComes(h)
      <4>1. SameFor(h) /\ ~info[h].paused /\ info[h].state = "Transfer" /\ rh[h].client
        BY <2>0, <3>2 DEF AnswerComes, InControl, TopAt
      <4>2. QED
        BY <3>1, <4>1 DEF SameFor
    <3>3. CASE AnswerGoesOn /\ Top.it = h
      <4>1. /\ TopAt("client") /\ Top.cb = "response" /\ ~Top.brk /\ SameFor(h) /\ Top.it = h
        BY <3>3 DEF AnswerGoesOn, CallsNext
      <4>2. Height \in 1..Height /\ Top = stack[Height] /\ Top.at = "client"
        BY <1>0, <4>1, StackTypes DEF TopAt
      <4>3. IsCall(stack[Height], h, Answer) /\ About(stack[Height], h)
        BY <4>1, <4>2 DEF IsCall, Answer, About
      <4>4. InJobs(h)
        BY <1>1, <4>2, <4>3, StillInJobs
      <4>5. rh[h].client /\ info[h].state = "Transfer" /\ ~info[h].paused
        BY <2>0, <4>1, <4>2, <4>3, <4>4 DEF Answering
      <4>6. QED
        BY <3>1, <4>1, <4>5 DEF SameFor
    <3>4. QED
      BY <3>1, <3>2, <3>3
  <2>4. QED
    BY <2>1, <2>2, <2>3
<1>2. QED
  BY <1>1 DEF Answering

LEMMA InControlKept ==
  ASSUME IInv, IInv', Stacked, Queued, Answering, InControl, Effects, [Next]_vars
  PROVE  InControl'
<1>0. Height \in Nat
  BY StackTypes
<1>a. ASSUME NEW h, NEW cb, Top'.at = "transfer", CallOf(ClientCall(h, cb)) PROVE FALSE
  BY <1>a DEF CallOf, ClientCall
<1>1. ASSUME stack' # <<>>, Top'.at = "transfer", NEW h \in Handle, Top'.it = h, InJobs(h)',
             ~rh'[h].cancelled
      PROVE  ~info'[h].paused /\ (Top'.done = "no" => info'[h].state = "Transfer")
  <2>0. ~rh[h].cancelled
    BY <1>1 DEF Effects, Lasting
  <2>1. CASE UNCHANGED vars
    <3>1. Top' = Top /\ info' = info /\ stack # <<>> /\ InJobs(h)
      BY <1>1, <2>1 DEF vars, Top, InJobs
    <3>2. QED
      BY <1>1, <2>0, <3>1 DEF InControl
  <2>2. ASSUME NEW x \in Handle, CallTransfer(x)
        PROVE  ~info'[h].paused /\ (Top'.done = "no" => info'[h].state = "Transfer")
    <3>1. x = h
      BY <1>1, <2>2, CallTransferIs DEF CallOf
    <3>2. QED
      BY <2>2, <3>1 DEF CallTransfer, AtState
  <2>3. ASSUME NEW x \in Handle, DataReceived(x)
        PROVE  ~info'[h].paused /\ (Top'.done = "no" => info'[h].state = "Transfer")
    <3>1. x = h /\ TopAt("transfer") /\ Top.it = h /\ InJobs(h) /\ Top.done = "no"
      BY <1>1, <1>a, <2>3, DataReceivedIs
    <3>2. info' = info
      BY <2>3 DEF DataReceived
    <3>3. QED
      BY <2>0, <3>1, <3>2 DEF InControl, TopAt
  <2>4. ASSUME NEW x \in Handle, NEW result \in BOOLEAN, DataDone(x, result)
        PROVE  ~info'[h].paused /\ (Top'.done = "no" => info'[h].state = "Transfer")
    <3>1. /\ x = h /\ TopAt("transfer") /\ Top.it = h /\ InJobs(h) /\ Top.done = "no"
          /\ Top'.done # "no"
      BY <1>1, <1>a, <2>4, DataDoneIs
    <3>2. info'[h].paused = info[h].paused
      BY <2>4, <3>1 DEF DataDone, IInv, DataOK, JobInfo
    <3>3. QED
      BY <2>0, <3>1, <3>2 DEF InControl, TopAt
  <2>5. CASE ReturnSteps
    <3>1. /\ Height' = Height - 1 /\ Agree(Height - 1) /\ TopAt("client") /\ ~Top.brk
      BY <2>5, ReturnStepsCalm
    <3>2. Top = stack[Height] /\ Height > 1 /\ Height - 1 \in 1..(Height - 1) /\ Height \in 2..Height
          /\ Top' = stack'[Height - 1]
      BY <1>0, <1>1, <3>1, StackTypes, NextTypes DEF TopAt
    <3>3. Top' = stack[Height - 1] /\ CalledBy(stack[Height - 1], Top)
      BY <3>1, <3>2 DEF Agree, Stacked
    <3>4. IsCall(stack[Height], h, Answer)
      BY <1>1, <3>1, <3>2, <3>3 DEF CalledBy, IsCall, Answer, TopAt, Brk, LoopAt
    <3>5. About(stack[Height], h) /\ Height \in 1..Height
      BY <3>2, <3>4 DEF IsCall, About
    <3>6. InJobs(h)
      BY <1>1, <3>5, StillInJobs
    <3>7. info[h].state = "Transfer" /\ ~info[h].paused
      BY <2>0, <3>1, <3>2, <3>4, <3>5, <3>6 DEF Answering
    <3>8. info' = info
      BY <2>5 DEF ReturnSteps, ReturnFromResponse, ReturnFromHeaders, ReturnFromCall,
         ReturnFromVerdict, ReturnFromRefused, ReturnFromURLDone
    <3>9. QED
      BY <3>7, <3>8
  <2>6. QED
    BY <1>1, <2>1, <2>2, <2>3, <2>4, <2>5, NextInTransfer
<1>2. QED
  BY <1>1 DEF InControl

LEMMA DeferredKept ==
  ASSUME IInv, IInv', Deferred, \E m : Moved(m), Effects PROVE Deferred'
<1>1. Broken' = Broken
  BY MovedKeepsBroken
<1>2. ASSUME NEW h \in Handle
      PROVE  /\ h \notin loaded' => ~rh'[h].defers
             /\ Holds(h)' => (rh'[h].defers <=> ViewOf[h] \in Broken)
  <2>1. Lasting(h)
    BY <1>2 DEF Effects
  <2>2. QED
    BY <1>2, <2>1 DEF Lasting, Deferred
<1>3. QED
  BY <1>1, <1>2 DEF Deferred

(* While a client is told that its job was refused and a page is deferred,   *)
(* nothing else happens to the list of jobs.                                 *)
LEMMA WhileRefusing ==
  ASSUME NEW h \in Handle, Refusing(h), [Next]_vars
  PROVE  ReturnFromRefused \/ UNCHANGED <<stack, jobs>>
<1>1. ~Idle /\ ~AppRuns /\ Top.at = "client" /\ Top.cb = "refused" /\ ~Top.brk /\ Broken # {}
  BY DEF Refusing, TopAt, Idle, AppRuns
<1>2. ASSUME NEW x \in Handle PROVE ~JobSteps(x) /\ ~TransferSteps(x)
  BY <1>1 DEF JobSteps, TransferSteps, StartDataURL, StartJob, StartRefused, CondemnCancelled,
     SkipPaused, CallHandler, CallTransfer, CondemnAgain, KeepJob, NotifyJobFailed, RemoveJob,
     PageCancels, DeletingPage, Starting, AtState, AtJob, AtRemove, TopAt, InTransfer,
     DataReceived, DataDone, TransferEnds
<1>3. ~LoopSteps
  BY <1>1 DEF LoopSteps, StartDone, RestartDone, RunDone, RemoveDone, ProcessJobsDone,
     HandlerRemoved, PageDeleted, TopAt
<1>4. CASE ClientReturns
  BY <1>1, <1>4 DEF ClientReturns, ReturnFromResponse, ReturnFromHeaders, ReturnFromCall,
     ReturnFromVerdict, NextURLCall, ReturnFromURLDone, Returning
<1>5. CASE Environment
  BY <1>1, <1>5 DEF Environment, Add, Cancel, HeadersReceived, RunScript, ShutdownView, Purge,
     Break, Resume, Tick, TimerFires, RemoveTransportHandler
<1>6. QED
  BY <1>2, <1>3, <1>4, <1>5 DEF Next, vars

LEMMA PausedKept ==
  ASSUME IInv, IInv', Stacked, Queued, Deferred, Paused, \E m : Moved(m), Effects, [Next]_vars
  PROVE  Paused'
<1>0. Broken' = Broken /\ jobs \in Seq(Handle) /\ info \in [Handle -> JobInfo]
  BY MovedKeepsBroken DEF IInv, DataOK
<1>1. ASSUME NEW h \in Handle, InJobs(h)'
      PROVE  info'[h].paused = rh'[h].defers \/ Refusing(h)'
  <2>0. rh'[h].defers = rh[h].defers
    BY DEF Effects, Lasting
  <2>1. ASSUME Calmly(h) \/ Works(h) PROVE info'[h].paused = rh'[h].defers \/ Refusing(h)'
    <3>1. InJobs(h) /\ info'[h].paused = info[h].paused
      BY <1>1, <2>1 DEF Calmly, Works
    <3>2. CASE ~Refusing(h)
      BY <2>0, <3>1, <3>2 DEF Paused
    <3>3. CASE Refusing(h) /\ UNCHANGED <<stack, jobs>>
      BY <1>0, <3>3 DEF Refusing, TopAt, Top
    <3>4. CASE Refusing(h) /\ ReturnFromRefused
      <4>1. jobs # <<>> /\ h = Last(jobs) /\ jobs' = Front(jobs) /\ Distinct(jobs)
        BY <3>4, QueueIs DEF Refusing, ReturnFromRefused, Queued
      <4>2. ~In(h, Front(jobs))
        BY <1>0, <4>1, FrontDistinct
      <4>3. QED
        BY <1>1, <4>1, <4>2 DEF InJobs, In
    <3>5. QED
      BY <3>2, <3>3, <3>4, WhileRefusing
  <2>2. CASE StartJob(h)
    <3>1. info' = [info EXCEPT ![h] = NewJob(rh[h].defers)]
      BY <2>2 DEF StartJob
    <3>2. info'[h].paused = rh[h].defers
      BY <1>0, <3>1 DEF NewJob
    <3>3. QED
      BY <2>0, <3>2
  <2>3. CASE StartRefused(h)
    <3> DEFINE p == rh[h].defers /\ ~NoHandler(h)
    <3>1. info' = [info EXCEPT ![h] = [NewJob(p) EXCEPT !.success = FALSE]]
      BY <2>3 DEF StartRefused
    <3>2. [NewJob(p) EXCEPT !.success = FALSE].paused = p
      BY DEF NewJob
    <3>3. info'[h].paused = p
      BY <1>0, <3>1, <3>2
    <3>4. CASE p = rh[h].defers
      BY <2>0, <3>3, <3>4
    <3>5. CASE p # rh[h].defers
      <4>1. rh[h].defers \in BOOLEAN
        BY DEF IInv, DataOK, ResourceHandle
      <4>2. rh[h].defers
        BY <3>5, <4>1
      <4>3. Taken(h)
        BY <2>3 DEF StartRefused, Taken, MayStart
      <4>4. Holds(h)
        BY <4>3, TakenIs
      <4>5. Broken # {}
        BY <4>2, <4>4 DEF Deferred
      <4>6. CallOf(ClientCall(h, "refused"))
        BY <2>3, StartRefusedIs
      <4>7. stack' # <<>> /\ Top' = ClientCall(h, "refused")
        <5>1. Height' > 0
          BY <4>6 DEF CallOf
        <5>2. QED
          BY <4>6, <5>1, NextTypes DEF CallOf
      <4>8. Top'.at = "client" /\ Top'.cb = "refused" /\ Top'.it = h /\ ~Top'.brk
        BY <4>7 DEF ClientCall
      <4>9. jobs' = Append(jobs, h)
        BY <2>3 DEF StartRefused
      <4>10. jobs' # <<>> /\ Last(jobs') = h
        BY <1>0, <4>9 DEF Last
      <4>11. Broken' # {}
        BY <1>0, <4>5
      <4>12. QED
        BY <4>7, <4>8, <4>10, <4>11 DEF Refusing, TopAt
    <3>6. QED
      BY <3>4, <3>5
  <2>4. QED
    BY <2>1, <2>2, <2>3 DEF Effects
<1>2. QED
  BY <1>1 DEF Paused

-----------------------------------------------------------------------------
(* A breakpoint.                                                             *)

LEMMA DeferIs ==
  ASSUME IInv, NEW V, NEW b \in BOOLEAN, Defer(V, b), NEW h \in Handle
  PROVE  /\ rh'[h].client = rh[h].client /\ rh'[h].cancelled = rh[h].cancelled
         /\ rh'[h].left = rh[h].left
         /\ info'[h].state = info[h].state
         /\ rh'[h].defers = IF ViewOf[h] \in V /\ Holds(h) THEN b ELSE rh[h].defers
         /\ info'[h].paused = IF ViewOf[h] \in V /\ Holds(h) /\ InJobs(h) THEN b ELSE info[h].paused
<1> DEFINE S == {x \in Handle : ViewOf[x] \in V /\ Holds(x)}
<1>0. rh[h] \in ResourceHandle /\ info[h] \in JobInfo /\ (h \in S <=> ViewOf[h] \in V /\ Holds(h))
  BY DEF IInv, DataOK
<1>1. rh'[h] = IF h \in S THEN [rh[h] EXCEPT !.defers = b] ELSE rh[h]
  BY DEF Defer
<1>2. info'[h] = IF h \in S /\ InJobs(h) THEN [info[h] EXCEPT !.paused = b] ELSE info[h]
  BY DEF Defer
<1> HIDE DEF S
<1>3. /\ rh'[h].client = rh[h].client /\ rh'[h].cancelled = rh[h].cancelled
      /\ rh'[h].left = rh[h].left /\ rh'[h].defers = IF h \in S THEN b ELSE rh[h].defers
  BY <1>0, <1>1 DEF ResourceHandle
<1>4. /\ info'[h].state = info[h].state
      /\ info'[h].paused = IF h \in S /\ InJobs(h) THEN b ELSE info[h].paused
  BY <1>0, <1>2 DEF JobInfo
<1>5. QED
  BY <1>0, <1>3, <1>4

(* Only the client on top can come to a breakpoint or leave it: no other is  *)
(* at one, and no other is running.                                          *)
LEMMA OnlyTopBreaks ==
  ASSUME IInv, Stacked, TopAt("client"), NEW b \in BOOLEAN, b => Broken = {} /\ ~Top.brk, ~b => Top.brk,
         NEW i \in 1..Height, stack[i].at = "client"
  PROVE  i = Height
<1>1. Height \in Nat /\ Height \in 1..Height /\ Top = stack[Height] /\ Top.at = "client"
  BY TopTypes DEF TopAt
<1>2. CASE i < Height
  <2>1. Brk(stack[i])
    BY <1>2, ClientBelow
  <2>2. stack[i].view \in View \ Inspector
    BY <2>1 DEF Stacked
  <2>3. stack[i].view \in Group(stack[i].view)
    BY <2>2 DEF Group
  <2>4. Broken # {}
    BY <2>1, <2>3, BrokenIs
  <2>5. Brk(stack[Height])
    BY <1>1, <2>4 DEF Brk
  <2>6. QED
    BY <1>1, <1>2, <2>1, <2>5 DEF Stacked
<1>3. QED
  BY <1>1, <1>2

LEMMA BrkBroken ==
  ASSUME IInv, IInv', Stacked, TopAt("client"), NEW b \in BOOLEAN,
         b => Broken = {} /\ ~Top.brk, ~b => Top.brk,
         stack' = Becomes([Top EXCEPT !.brk = b])
  PROVE  /\ Broken = IF b THEN {} ELSE Group(Top.view)
         /\ Broken' = IF b THEN Group(Top.view) ELSE {}
<1>1. /\ Height \in Nat /\ Height > 0 /\ Height' = Height /\ Agree(Height - 1)
      /\ Top' = stack'[Height] /\ Top = stack[Height] /\ Top.at = "client"
      /\ Top'.at = "client" /\ Top'.view = Top.view /\ Top'.brk = b
  BY BrkSteps DEF TopAt
<1>2. \A i \in 1..Height : Brk(stack[i]) => i = Height
  BY OnlyTopBreaks DEF Brk
<1>3. \A i \in 1..Height : Brk(stack'[i]) => i = Height
  <2>1. ASSUME NEW i \in 1..Height, Brk(stack'[i]), i # Height PROVE FALSE
    <3>1. i \in 1..(Height - 1)
      BY <1>1, <2>1
    <3>2. stack'[i] = stack[i]
      BY <1>1, <3>1 DEF Agree
    <3>3. QED
      BY <1>2, <2>1, <3>2
  <2>2. QED
    BY <2>1
<1>4. \A v : v \in Broken' <=> \E i \in 1..Height' : Brk(stack'[i]) /\ v \in Group(stack'[i].view)
  BY NextTypes DEF Broken, Brk
<1>5. \A v : v \in Broken' <=> b /\ v \in Group(Top.view)
  BY <1>1, <1>3, <1>4 DEF Brk
<1>6. \A v : v \in Broken <=> Top.brk /\ v \in Group(Top.view)
  BY <1>1, <1>2, BrokenIs DEF Brk
<1>7. CASE b
  BY <1>5, <1>7
<1>8. CASE ~b
  <2>1. Broken \subseteq Group(Top.view) /\ Group(Top.view) \subseteq Broken
    BY <1>6, <1>8
  <2>2. Broken' = {}
    BY <1>5, <1>8
  <2>3. QED
    BY <1>8, <2>1, <2>2
<1>9. QED
  BY <1>7, <1>8

LEMMA BrkSuspends ==
  ASSUME IInv, IInv', Stacked, Queued, Suspended, TopAt("client"), NEW b \in BOOLEAN,
         b => Broken = {} /\ ~Top.brk, ~b => Top.brk,
         Defer(Group(Top.view), b), stack' = Becomes([Top EXCEPT !.brk = b]),
         UNCHANGED <<pending, jobs, running, condemned, timer, installed, refs, closed, hist>>
  PROVE  Suspended'
<1>1. /\ Height \in Nat /\ Height > 0 /\ Height' = Height /\ Agree(Height - 1)
      /\ Top' = stack'[Height] /\ Top = stack[Height] /\ Top.at = "client"
      /\ Top'.at = "client" /\ Top'.it = Top.it /\ Top'.cb = Top.cb /\ Top'.brk = b
  BY BrkSteps DEF TopAt
<1>2. \A i \in 1..Height : /\ stack'[i].at = stack[i].at /\ stack'[i].it = stack[i].it
                           /\ stack[i].at = "client" => stack'[i].cb = stack[i].cb
  <2>1. \A i \in 1..Height : i \in 1..(Height - 1) \/ i = Height
    BY <1>1
  <2>2. QED
    BY <1>1, <2>1 DEF Agree
<1>3. \A i \in 1..Height : /\ \A h : About(stack'[i], h) <=> About(stack[i], h)
                           /\ \A h, cbs : IsCall(stack'[i], h, cbs) <=> IsCall(stack[i], h, cbs)
  BY <1>2 DEF About, IsCall
<1>4. \A h \in Handle : (InJobs(h)' <=> InJobs(h)) /\ (Holds(h)' <=> Holds(h))
  BY DeferIs DEF InJobs, Holds, hist
<1>5. Broken = (IF b THEN {} ELSE Group(Top.view)) /\ Broken' = (IF b THEN Group(Top.view) ELSE {})
  BY BrkBroken
<1>6. Opened'
  BY <1>1, <1>3 DEF Suspended, Opened
<1>7. Failed'
  BY <1>1, <1>2, <1>3 DEF Suspended, Failed
<1>8. FailedCondemned'
  BY <1>1, <1>3, <1>4, DeferIs DEF Suspended, FailedCondemned
<1>9. Answering'
  <2>1. ASSUME NEW i \in 1..Height, NEW h \in Handle, IsCall(stack[i], h, Answer), InJobs(h), ~rh[h].cancelled
        PROVE  rh'[h].client /\ info'[h].state = "Transfer" /\ (info'[h].paused <=> stack'[i].brk)
    <3>1. rh[h].client /\ info[h].state = "Transfer"
      BY <2>1 DEF Suspended, Answering
    <3>2. i = Height /\ stack[i].at = "client" /\ Top.it = h /\ Top.cb \in Answer
      BY <1>1, <2>1, OnlyTopBreaks DEF IsCall
    <3>3. Touched(h)
      BY <2>1 DEF Touched
    <3>4. Holds(h)
      BY <2>1, <3>1, <3>3 DEF Queued, Begun, Untouched, Holds
    <3>5. ViewOf[h] = Top.view /\ Top.view \in View
      BY <1>1, <3>2, ClientOnTop DEF Stacked, OwnView, Answer
    <3>6. ViewOf[h] \in Group(Top.view)
      BY <3>5 DEF Group
    <3>7. info'[h].paused = b
      BY <2>1, <3>4, <3>6, DeferIs
    <3>8. QED
      BY <1>1, <3>1, <3>2, <3>7, DeferIs
  <2>2. \A h \in Handle : rh'[h].cancelled = rh[h].cancelled
    BY DeferIs
  <2>3. QED
    BY <1>1, <1>3, <1>4, <2>1, <2>2 DEF Answering
<1>10. InControl'
  BY <1>1 DEF InControl
<1>11. OneTransfer'
  BY <1>1, <1>2 DEF Suspended, OneTransfer
<1>12. Deferred'
  <2>1. \A h \in Handle : h \notin loaded' => ~rh'[h].defers
    BY DeferIs DEF Suspended, Deferred, Holds, hist
  <2>2. ASSUME NEW h \in Handle, Holds(h) PROVE rh'[h].defers <=> ViewOf[h] \in Broken'
    <3>1. rh[h].defers <=> ViewOf[h] \in Broken
      BY <2>2 DEF Suspended, Deferred
    <3>2. rh'[h].defers = IF ViewOf[h] \in Group(Top.view) THEN b ELSE rh[h].defers
      BY <2>2, DeferIs
    <3>3. CASE b
      BY <1>5, <3>1, <3>2, <3>3
    <3>4. CASE ~b
      BY <1>5, <3>1, <3>2, <3>4
    <3>5. QED
      BY <3>3, <3>4
  <2>3. QED
    BY <1>4, <2>1, <2>2 DEF Deferred
<1>13. Paused'
  <2>1. ASSUME NEW h \in Handle, InJobs(h) PROVE info'[h].paused = rh'[h].defers
    <3>1. ~Refusing(h)
      BY DEF Refusing
    <3>2. info[h].paused = rh[h].defers
      BY <2>1, <3>1 DEF Suspended, Paused
    <3>3. QED
      BY <2>1, <3>2, DeferIs
  <2>2. QED
    BY <1>4, <2>1 DEF Paused
<1>14. QED
  BY <1>6, <1>7, <1>8, <1>9, <1>10, <1>11, <1>12, <1>13 DEF Suspended

LEMMA NextSuspended == ASSUME IInv, IInv', Stacked, Queued, Suspended, [Next]_vars PROVE Suspended'
<1>1. CASE Break
  <2>1. /\ TopAt("client") /\ ~Top.brk /\ Broken = {} /\ Defer(Group(Top.view), TRUE)
        /\ stack' = Becomes([Top EXCEPT !.brk = TRUE])
        /\ UNCHANGED <<pending, jobs, running, condemned, timer, installed, refs, closed, hist>>
    BY <1>1 DEF Break, ScriptRuns
  <2>2. QED
    BY <2>1, BrkSuspends
<1>2. CASE Resume
  <2>1. /\ TopAt("client") /\ Top.brk /\ Defer(Group(Top.view), FALSE)
        /\ stack' = Becomes([Top EXCEPT !.brk = FALSE])
        /\ UNCHANGED <<pending, jobs, running, condemned, timer, installed, refs, closed, hist>>
    BY <1>2 DEF Resume
  <2>2. QED
    BY <2>1, BrkSuspends
<1>3. CASE ~Break /\ ~Resume
  <2>1. (NoneNew \/ Arrives) /\ Effects /\ \E m : Moved(m)
    BY <1>3, NextArrives, NextEffects, NextMoved
  <2>2. Opened' /\ Failed' /\ OneTransfer'
    BY <2>1, OpenedKept, FailedKept, OneTransferKept DEF Suspended
  <2>3. FailedCondemned' /\ Answering' /\ InControl'
    BY <2>1, FailedCondemnedKept, AnsweringKept, InControlKept DEF Suspended
  <2>4. Deferred' /\ Paused'
    BY <2>1, DeferredKept, PausedKept DEF Suspended
  <2>5. QED
    BY <2>2, <2>3, <2>4 DEF Suspended
<1>4. QED
  BY <1>1, <1>2, <1>3

(* A breakpoint suspends the loads whose activations it interrupts.          *)
THEOREM InterruptedLoadsRest == Spec => []Suspended
<1>1. Init => Suspended
  BY DEF Init, Suspended, Height, Opened, Failed, FailedCondemned, Answering, InControl, OneTransfer,
     Deferred, Paused, Holds, InJobs
<1>2. IInv /\ IInv' /\ Stacked /\ Queued /\ Suspended /\ [Next]_vars => Suspended'
  BY NextSuspended
<1>3. QED
  BY <1>1, <1>2, Invariance, CallersRight, QueueKept, PTL DEF Spec

(* Re-entrancy: however deep ticks nest at breakpoints, the Transfer of one  *)
(* job is never active twice.                                                *)
THEOREM TransferNotReentered == Spec => []NoReentrantTransfer
<1>1. IInv /\ Suspended => NoReentrantTransfer
  <2> SUFFICES ASSUME IInv, Suspended, NEW i \in DOMAIN stack, NEW j \in DOMAIN stack,
                      stack[i].at = "transfer", stack[j].at = "transfer", stack[i].it = stack[j].it
               PROVE  i = j
    BY DEF NoReentrantTransfer
  <2>1. i \in 1..Height /\ j \in 1..Height /\ stack[i] \in GoodFrame
    BY StackTypes
  <2>2. stack[i].it \in Handle
    BY <2>1 DEF GoodFrame, Frame, LoopFrame, TransferFrame, ClientFrame, LoopAt
  <2>3. QED
    BY <2>1, <2>2 DEF Suspended, OneTransfer
<1>2. QED
  BY <1>1, Invariance, InterruptedLoadsRest, PTL

(* No Transfer moves data of a load that is deferred or paused, in a tick    *)
(* nested at a breakpoint or not.  This is not said of headers, nor of the   *)
(* data: URLs that a nested tick starts.                                     *)
THEOREM NoDataWhileDeferred == Spec => DataNotDeferred
<1>1. IInv /\ Suspended /\ [Next]_vars
        => [\A h \in Handle : rh'[h].left # rh[h].left /\ ~rh[h].cancelled
                               => ~rh[h].defers /\ ~info[h].paused]_vars
  <2> SUFFICES ASSUME IInv, Suspended, [Next]_vars, NEW h \in Handle,
                      rh'[h].left # rh[h].left, ~rh[h].cancelled
               PROVE  ~rh[h].defers /\ ~info[h].paused
    OBVIOUS
  <2>1. DataReceived(h)
    <3>1. CASE Break \/ Resume
      BY <3>1, DeferIs DEF Break, Resume
    <3>2. CASE Effects
      BY <3>2 DEF Effects, Lasting
    <3>3. QED
      BY <3>1, <3>2, NextEffects
  <2>2. stack # <<>> /\ Top.at = "transfer" /\ Top.it = h /\ InJobs(h)
    BY <2>1 DEF DataReceived, InTransfer, TopAt
  <2>3. ~info[h].paused
    BY <2>2 DEF Suspended, InControl
  <2>4. ~Refusing(h)
    BY <2>2 DEF Refusing, TopAt
  <2>5. QED
    BY <2>2, <2>3, <2>4 DEF Suspended, Paused
<1>2. QED
  BY <1>1, Invariance, InterruptedLoadsRest, PTL DEF Spec, DataNotDeferred

-----------------------------------------------------------------------------
(* The condemned jobs.  Whatever condemns a job leaves a loop on the stack   *)
(* that will still look for it, and the innermost loop, if it is removing    *)
(* jobs already, has every one of them still before it.                      *)

Dead(h) == InJobs(h) /\ info[h].state = "Remove"
Innermost(i) == /\ i \in 1..Height /\ stack[i].at \in LoopAt
                /\ \A j \in 1..Height : j > i => stack[j].at \notin LoopAt
Ahead(it, h) == \E m, n \in DOMAIN jobs : m <= n /\ jobs[m] = it /\ jobs[n] = h

LooksAgain == condemned => \E i \in 1..Height : stack[i].at \in {"run", "remove"}
DeadIsNoted == (\E h \in Handle : Dead(h)) => condemned
AllRemoved == \A i : Innermost(i) /\ stack[i].at \in {"check", "restart"} => ~condemned
StillAhead == \A i : Innermost(i) /\ stack[i].at = "remove"
                       => \A h \in Handle : Dead(h) => Ahead(stack[i].it, h)

Condemnation == LooksAgain /\ DeadIsNoted /\ AllRemoved /\ StillAhead

(* The steps that leave the loops where they are, up to the iterator of the  *)
(* first one of ProcessJobs.                                                 *)
SameLoop(i) == stack'[i].at = stack[i].at /\ (stack[i].at = "remove" => stack'[i].it = stack[i].it)
LoopsStay ==
  /\ \A i \in 1..Height : stack[i].at \in LoopAt => i \in 1..Height' /\ SameLoop(i)
  /\ \A i \in 1..Height' : stack'[i].at \in LoopAt => i \in 1..Height /\ SameLoop(i)

LEMMA StackStaysLoops == ASSUME UNCHANGED stack PROVE LoopsStay
BY DEF LoopsStay, SameLoop, Height

LEMMA CallStaysLoops == ASSUME IInv, IInv', NEW g, CallOf(g), g.at \notin LoopAt PROVE LoopsStay
<1>1. /\ Height \in Nat /\ Height' = Height + 1 /\ stack'[Height + 1].at \notin LoopAt
      /\ \A i \in 1..Height : stack'[i].at = stack[i].at /\ stack'[i].it = stack[i].it
  BY DEF CallOf, Stays, Alike
<1>2. \A i \in 1..Height : i \in 1..Height' /\ SameLoop(i)
  BY <1>1 DEF SameLoop
<1>3. \A i \in 1..Height' : i \in 1..Height \/ i = Height + 1
  BY <1>1
<1>4. QED
  BY <1>1, <1>2, <1>3 DEF LoopsStay

LEMMA ClientCallStaysLoops ==
  ASSUME IInv, IInv', NEW h, NEW cb, CallOf(ClientCall(h, cb)) PROVE LoopsStay
<1>1. ClientCall(h, cb).at \notin LoopAt
  BY DEF ClientCall, LoopAt
<1>2. QED
  BY <1>1, CallStaysLoops

LEMMA MarkStaysLoops == ASSUME Marked PROVE LoopsStay
BY DEF Marked, Stays, Alike, LoopsStay, SameLoop

LEMMA TopStaysLoops ==
  ASSUME IInv, IInv', stack # <<>>, Height' = Height, Agree(Height - 1),
         \/ Top.at = Top'.at /\ Top.at # "remove"
         \/ Top.at \notin LoopAt /\ Top'.at \notin LoopAt
  PROVE  LoopsStay
<1>1. /\ Height \in Nat /\ Height > 0 /\ Top = stack[Height] /\ Top' = stack'[Height]
  BY StackTypes, NextTypes
<1>2. \A i \in 1..Height : i = Height \/ stack'[i] = stack[i]
  <2>1. \A i \in 1..Height : i = Height \/ i \in 1..(Height - 1)
    BY <1>1
  <2>2. QED
    BY <2>1 DEF Agree
<1>3. QED
  BY <1>1, <1>2 DEF LoopsStay, SameLoop

LEMMA ReturnStaysLoops ==
  ASSUME IInv, IInv', stack # <<>>, Height' = Height - 1, Agree(Height - 1), Top.at \notin LoopAt
  PROVE  LoopsStay
<1>1. Height \in Nat /\ Height > 0 /\ Top = stack[Height]
  BY StackTypes
<1>2. /\ \A i \in 1..Height : i = Height \/ (i \in 1..Height' /\ stack'[i] = stack[i])
      /\ \A i \in 1..Height' : i \in 1..Height /\ stack'[i] = stack[i]
  <2>1. \A i \in 1..Height : i = Height \/ i \in 1..(Height - 1)
    BY <1>1
  <2>2. \A i \in 1..(Height - 1) : i \in 1..Height
    BY <1>1
  <2>3. QED
    BY <2>1, <2>2 DEF Agree
<1>3. QED
  BY <1>1, <1>2 DEF LoopsStay, SameLoop

LEMMA TransferEndsStaysLoops ==
  ASSUME IInv, IInv', Stacked, NEW h \in Handle, TransferEnds(h) PROVE LoopsStay
<1>1. /\ Height \in Nat /\ Height > 1 /\ Height' = Height - 1 /\ Agree(Height - 2)
      /\ Top.at = "transfer" /\ Under.at = "run" /\ Top'.at = "run" /\ stack # <<>>
  BY TransferEndsIs DEF TransferEnds, TopAt
<1>2. Top = stack[Height] /\ Under = stack[Height - 1] /\ Top' = stack'[Height - 1]
  BY <1>1, StackTypes, NextTypes DEF Under
<1>3. \A i \in 1..Height : i = Height \/ (i = Height - 1 /\ i \in 1..Height')
                           \/ (i \in 1..Height' /\ stack'[i] = stack[i])
  <2>1. \A i \in 1..Height : i = Height \/ i = Height - 1 \/ i \in 1..(Height - 2)
    BY <1>1
  <2>2. Height - 1 \in 1..Height' /\ \A i \in 1..(Height - 2) : i \in 1..Height'
    BY <1>1
  <2>3. QED
    BY <1>1, <2>1, <2>2 DEF Agree
<1>4. \A i \in 1..Height' : i \in 1..Height /\ (i = Height - 1 \/ stack'[i] = stack[i])
  <2>1. \A i \in 1..(Height - 1) : i \in 1..Height /\ (i = Height - 1 \/ i \in 1..(Height - 2))
    BY <1>1
  <2>2. QED
    BY <1>1, <2>1 DEF Agree
<1>5. QED
  BY <1>1, <1>2, <1>3, <1>4 DEF LoopsStay, SameLoop, LoopAt

(* The loop on top is the innermost one.                                     *)
LEMMA TopInnermost ==
  ASSUME IInv, stack # <<>>, Top.at \in LoopAt
  PROVE  Innermost(Height) /\ Top = stack[Height] /\ \A i : Innermost(i) => i = Height
<1>1. Height \in Nat /\ Height > 0 /\ Top = stack[Height]
  BY StackTypes
<1>2. QED
  BY <1>1 DEF Innermost

LEMMA NextTopInnermost ==
  ASSUME IInv', stack' # <<>>, Top'.at \in LoopAt
  PROVE  Top' = stack'[Height'] /\ Height' \in 1..Height' /\ \A i : Innermost(i)' <=> i = Height'
<1>1. Height' \in Nat /\ Height' > 0 /\ Top' = stack'[Height']
  BY NextTypes
<1>2. QED
  BY <1>1 DEF Innermost

LEMMA UnderInnermost ==
  ASSUME IInv, Stacked, Height > 1, Top.at \notin LoopAt, stack[Height - 1].at \in LoopAt
  PROVE  Innermost(Height - 1) /\ \A i : Innermost(i) => i = Height - 1
<1>1. Height \in Nat /\ Top = stack[Height]
  BY StackTypes
<1>2. \A i \in 1..Height : i > Height - 1 => i = Height
  BY <1>1
<1>3. Height - 1 \in 1..Height
  BY <1>1
<1>4. ASSUME NEW i, Innermost(i) PROVE i = Height - 1
  <2>1. i \in 1..Height /\ i # Height /\ ~(Height - 1 > i)
    BY <1>1, <1>3, <1>4 DEF Innermost
  <2>2. QED
    BY <1>1, <2>1
<1>5. QED
  BY <1>1, <1>2, <1>3, <1>4 DEF Innermost

LEMMA SameInnermost ==
  ASSUME LoopsStay, NEW i, Innermost(i)' PROVE Innermost(i) /\ SameLoop(i)
BY DEF LoopsStay, SameLoop, Innermost

-----------------------------------------------------------------------------
(* How a step keeps the four.                                                *)

(* Nothing is condemned.                                                     *)
LEMMA NothingCondemned ==
  ASSUME ~condemned', \A h \in Handle : ~Dead(h)' PROVE Condemnation'
BY DEF Condemnation, LooksAgain, DeadIsNoted, AllRemoved, StillAhead

(* Nothing more is condemned, and the loops go on as they were.              *)
LEMMA NoMoreCondemned ==
  ASSUME IInv, Condemnation, LoopsStay, condemned' = condemned,
         \A h \in Handle : Dead(h)' => Dead(h),
         jobs' = jobs \/ \A i : Innermost(i) => stack[i].at # "remove"
  PROVE  Condemnation'
<1>1. LooksAgain'
  <2>1. ASSUME condemned PROVE \E i \in 1..Height' : stack'[i].at \in {"run", "remove"}
    <3>1. PICK i \in 1..Height : stack[i].at \in {"run", "remove"}
      BY <2>1 DEF Condemnation, LooksAgain
    <3>2. i \in 1..Height' /\ stack'[i].at = stack[i].at
      BY <3>1 DEF LoopsStay, SameLoop, LoopAt
    <3>3. QED
      BY <3>1, <3>2
  <2>2. QED
    BY <2>1 DEF LooksAgain
<1>2. DeadIsNoted'
  BY DEF Condemnation, DeadIsNoted
<1>3. AllRemoved'
  BY SameInnermost DEF Condemnation, AllRemoved, SameLoop
<1>4. StillAhead'
  <2>1. ASSUME NEW i, Innermost(i)', stack'[i].at = "remove", NEW h \in Handle, Dead(h)'
        PROVE  Ahead(stack[i].it, h) /\ stack'[i].it = stack[i].it /\ jobs' = jobs
    BY <2>1, SameInnermost DEF Condemnation, StillAhead, SameLoop
  <2>2. QED
    BY <2>1 DEF StillAhead, Ahead
<1>5. QED
  BY <1>1, <1>2, <1>3, <1>4 DEF Condemnation

(* The innermost loop has yet to come to the jobs that are condemned.        *)
LEMMA CondemnedAhead ==
  ASSUME IInv, IInv', DeadIsNoted', NEW i, Innermost(i)', stack'[i].at \in {"start", "run"},
         condemned' => \E k \in 1..Height' : stack'[k].at \in {"run", "remove"}
  PROVE  Condemnation'
<1>1. \A j : Innermost(j)' => j = i
  <2>1. ASSUME NEW j, Innermost(j)' PROVE j = i
    <3>1. Height' \in Nat /\ i \in 1..Height' /\ j \in 1..Height' /\ ~(j > i) /\ ~(i > j)
      BY <2>1, NextTypes DEF Innermost
    <3>2. QED
      BY <3>1
  <2>2. QED
    BY <2>1
<1>2. QED
  BY <1>1 DEF Condemnation, LooksAgain, AllRemoved, StillAhead

LEMMA CondemnedAtRun ==
  ASSUME IInv, IInv', DeadIsNoted', NEW i, Innermost(i), stack[i].at = "run", LoopsStay
  PROVE  Condemnation'
<1>1. Innermost(i)' /\ stack'[i].at = "run"
  BY DEF LoopsStay, SameLoop, Innermost, LoopAt
<1>2. i \in 1..Height'
  BY <1>1 DEF Innermost
<1>3. QED
  BY <1>1, <1>2, CondemnedAhead

(* A step that touches neither the jobs nor the flag.                        *)
LEMMA Undisturbed ==
  ASSUME IInv, Condemnation, LoopsStay, UNCHANGED <<jobs, condemned>>,
         \A h \in Handle : info'[h].state = info[h].state
  PROVE  Condemnation'
<1>1. \A h \in Handle : Dead(h)' => Dead(h)
  BY DEF Dead, InJobs
<1>2. QED
  BY <1>1, NoMoreCondemned

-----------------------------------------------------------------------------
(* The steps.                                                                *)

LEMMA BrkStaysLoops ==
  ASSUME IInv, IInv', TopAt("client"), NEW b \in BOOLEAN, stack' = Becomes([Top EXCEPT !.brk = b])
  PROVE  LoopsStay
<1>1. /\ Height' = Height /\ Agree(Height - 1) /\ Top.at = "client" /\ Top'.at = "client" /\ stack # <<>>
  BY BrkSteps DEF TopAt
<1>2. QED
  BY <1>1, TopStaysLoops DEF LoopAt

LEMMA EnvironmentCondemns ==
  ASSUME IInv, IInv', Stacked, Condemnation, Environment PROVE Condemnation'
<1>1. ASSUME NEW h \in Handle, Add(h) \/ Cancel(h) PROVE Condemnation'
  BY <1>1, StackStaysLoops, Undisturbed DEF Add, Cancel
<1>2. ASSUME NEW h \in Handle, HeadersReceived(h) PROVE Condemnation'
  <2>1. UNCHANGED <<jobs, info, condemned>>
    BY <1>2 DEF HeadersReceived
  <2>2. LoopsStay
    BY <1>2, HeadersReceivedIs, StackStaysLoops, ClientCallStaysLoops
  <2>3. QED
    BY <2>1, <2>2, Undisturbed
<1>3. ASSUME NEW v \in View, RunScript(v) PROVE Condemnation'
  <2>1. UNCHANGED <<jobs, info, condemned>>
    BY <1>3 DEF RunScript
  <2>2. LoopsStay
    BY <1>3, RunScriptIs, CallStaysLoops DEF LoopAt
  <2>3. QED
    BY <2>1, <2>2, Undisturbed
<1>4. ASSUME NEW S, NEW src, NEW v, Purge(S, src, v) PROVE Condemnation'
  <2>1. Height' = 1 /\ Top'.at = "run"
    BY <1>4, PurgeCalm
  <2>2. /\ stack'[1].at = "run" /\ 1 \in 1..Height'
        /\ \A i : i = 1 => Innermost(i)'
    BY <2>1, NextTypes, NextTopInnermost DEF LoopAt
  <2>3. DeadIsNoted'
    <3>1. Condemn({h \in S : InJobs(h)}) /\ jobs' = jobs
      BY <1>4 DEF Purge
    <3>2. condemned' = (condemned \/ {h \in S : InJobs(h)} # {})
      BY <3>1 DEF Condemn
    <3>3. ASSUME NEW h \in Handle, Dead(h)' PROVE condemned'
      <4>1. InJobs(h)
        BY <3>1, <3>3 DEF Dead, InJobs
      <4>2. CASE h \in S
        BY <3>2, <4>1, <4>2
      <4>3. CASE h \notin S
        <5>1. info'[h] = info[h]
          BY <3>1, <4>3, CondemnIs
        <5>2. QED
          BY <3>2, <3>3, <4>1, <5>1 DEF Dead, Condemnation, DeadIsNoted
      <4>4. QED
        BY <4>2, <4>3
    <3>4. QED
      BY <3>3 DEF DeadIsNoted
  <2>4. QED
    BY <2>2, <2>3, CondemnedAhead
<1>5. CASE Tick \/ TimerFires
  <2>1. Agree(Height) /\ Height' = Height + 1 /\ Top'.at = "start" /\ Height \in Nat
    BY <1>5, TickCalm, StackTypes
  <2>2. stack' # <<>> /\ (\A i : i = Height' => Innermost(i)') /\ stack'[Height'].at = "start"
    BY <2>1, NextTypes, NextTopInnermost DEF LoopAt
  <2>3. UNCHANGED <<jobs, info, condemned>>
    BY <1>5 DEF Tick, TimerFires
  <2>4. DeadIsNoted'
    BY <2>3 DEF Condemnation, DeadIsNoted, Dead, InJobs
  <2>5. ASSUME condemned' PROVE \E k \in 1..Height' : stack'[k].at \in {"run", "remove"}
    <3>1. PICK k \in 1..Height : stack[k].at \in {"run", "remove"}
      BY <2>3, <2>5 DEF Condemnation, LooksAgain
    <3>2. k \in 1..Height' /\ stack'[k] = stack[k]
      BY <2>1 DEF Agree
    <3>3. QED
      BY <3>1, <3>2
  <2>6. QED
    BY <2>2, <2>4, <2>5, CondemnedAhead
<1>6. ASSUME NEW b \in BOOLEAN, TopAt("client"), Defer(Group(Top.view), b),
             stack' = Becomes([Top EXCEPT !.brk = b]), UNCHANGED <<jobs, condemned>>
      PROVE  Condemnation'
  BY <1>6, BrkStaysLoops, DeferIs, Undisturbed
<1>7. CASE Break \/ Resume
  BY <1>6, <1>7 DEF Break, Resume, ScriptRuns
<1>8. QED
  BY <1>1, <1>2, <1>3, <1>4, <1>5, <1>7 DEF Environment, ShutdownView, RemoveTransportHandler

LEMMA ReturnsCondemn ==
  ASSUME IInv, IInv', Stacked, Queued, Condemnation, ClientReturns PROVE Condemnation'
<1>0. UNCHANGED <<info, condemned>> /\ (jobs' = jobs \/ ReturnFromRefused)
  BY DEF ClientReturns, ReturnFromResponse, ReturnFromHeaders, ReturnFromCall, ReturnFromVerdict,
     ReturnFromRefused, NextURLCall, ReturnFromURLDone
<1>1. LoopsStay
  <2>1. CASE ReturnSteps
    <3>1. Height' = Height - 1 /\ Agree(Height - 1) /\ Top.at = "client" /\ stack # <<>>
      BY <2>1, ReturnStepsCalm DEF TopAt
    <3>2. QED
      BY <3>1, ReturnStaysLoops DEF LoopAt
  <2>2. ASSUME NEW next, CallsNext(next) PROVE LoopsStay
    <3>1. /\ Height' = Height /\ Agree(Height - 1) /\ Top' = ClientCall(Top.it, next)
          /\ stack # <<>> /\ Top.at = "client"
      BY <2>2, CallsOn DEF CallsNext, TopAt
    <3>2. Top'.at = "client"
      BY <3>1 DEF ClientCall
    <3>3. QED
      BY <3>1, <3>2, TopStaysLoops DEF LoopAt
  <2>3. QED
    BY <2>1, <2>2, ClientReturnsIs, NextURLCallIs
<1>2. CASE jobs' = jobs
  BY <1>0, <1>1, <1>2, Undisturbed
<1>3. CASE ReturnFromRefused
  <2>1. /\ stack # <<>> /\ Top.at = "client" /\ Top.cb = "refused"
        /\ \A x : In(x, jobs') => In(x, jobs)
    BY <1>3, ReturnFromRefusedIs, QueueIs DEF TopAt, Queued
  <2>2. \A h \in Handle : InJobs(h)' => InJobs(h)
    BY <2>1, QueueIs, NextQueueIs
  <2>3. Height > 1 /\ stack[Height - 1].at \in {"start", "restart"}
    <3>1. Height \in Nat /\ Height > 0 /\ Top = stack[Height]
      BY <2>1, StackTypes
    <3>2. Height # 1
      BY <2>1, <3>1 DEF Stacked, Outermost, LoopAt
    <3>3. Height \in 2..Height
      BY <3>1, <3>2
    <3>4. CalledBy(stack[Height - 1], Top)
      BY <3>1, <3>3 DEF Stacked
    <3>5. QED
      BY <2>1, <3>3, <3>4 DEF CalledBy, LoopAt
  <2>4. \A i : Innermost(i) => stack[i].at # "remove"
    <3>1. Top.at \notin LoopAt /\ stack[Height - 1].at \in LoopAt
      BY <2>1, <2>3 DEF LoopAt
    <3>2. QED
      BY <2>3, <3>1, UnderInnermost
  <2>5. \A h \in Handle : Dead(h)' => Dead(h)
    BY <1>0, <2>2 DEF Dead
  <2>6. QED
    BY <1>0, <1>1, <2>4, <2>5, NoMoreCondemned
<1>4. QED
  BY <1>0, <1>2, <1>3

LEMMA LoopsCondemn ==
  ASSUME IInv, IInv', Stacked, Condemnation, LoopSteps PROVE Condemnation'
<1>1. /\ stack # <<>> /\ Top.at \in LoopAt /\ UNCHANGED <<jobs, info>>
  BY DEF LoopSteps, StartDone, RestartDone, RunDone, RemoveDone, ProcessJobsDone,
     HandlerRemoved, PageDeleted, TopAt, LoopAt
<1>2. Innermost(Height) /\ Top = stack[Height]
  BY <1>1, TopInnermost
<1>3. \A h \in Handle : Dead(h)' <=> Dead(h)
  BY <1>1 DEF Dead, InJobs
<1>4. CASE Top.at \in {"check", "restart"}
  <2>1. ~condemned
    BY <1>2, <1>4 DEF Condemnation, AllRemoved
  <2>2. condemned' = condemned
    BY <1>4 DEF LoopSteps, StartDone, RestartDone, RunDone, RemoveDone, ProcessJobsDone,
       HandlerRemoved, PageDeleted, TopAt
  <2>3. \A h \in Handle : ~Dead(h)
    BY <2>1 DEF Condemnation, DeadIsNoted
  <2>4. QED
    BY <1>3, <2>1, <2>2, <2>3, NothingCondemned
<1>5. CASE StartDone
  <2>1. Height' = Height /\ Top'.at = "run" /\ condemned' = condemned
    BY <1>5, StartDoneCalm DEF StartDone
  <2>2. /\ stack' # <<>> /\ stack'[Height'].at = "run" /\ Height' \in 1..Height'
        /\ \A i : i = Height' => Innermost(i)'
    BY <1>1, <2>1, StackTypes, NextTypes, NextTopInnermost DEF LoopAt
  <2>3. DeadIsNoted'
    BY <1>3, <2>1 DEF Condemnation, DeadIsNoted
  <2>4. QED
    BY <2>2, <2>3, CondemnedAhead
<1>6. CASE RunDone /\ ~condemned
  <2>1. ~condemned' /\ \A h \in Handle : ~Dead(h)
    BY <1>6 DEF RunDone, Condemnation, DeadIsNoted
  <2>2. QED
    BY <1>3, <2>1, NothingCondemned
<1>7. CASE RunDone /\ condemned
  <2>1. Height' = Height /\ Top'.at = "remove" /\ Top'.it = FirstJob /\ condemned'
    BY <1>7, RunDoneCalm DEF RunDone
  <2>2. /\ stack' # <<>> /\ Height' \in 1..Height' /\ Top' = stack'[Height']
        /\ \A i : Innermost(i)' => i = Height'
    BY <1>1, <2>1, StackTypes, NextTypes, NextTopInnermost DEF LoopAt
  <2>3. LooksAgain'
    BY <2>1, <2>2 DEF LooksAgain
  <2>4. DeadIsNoted' /\ AllRemoved'
    BY <2>1, <2>2 DEF DeadIsNoted, AllRemoved
  <2>5. ASSUME NEW h \in Handle, Dead(h) PROVE Ahead(FirstJob, h)
    <3>1. jobs \in Seq(Handle)
      BY DEF IInv, DataOK
    <3>2. PICK n \in 1..Len(jobs) : jobs[n] = h
      BY <2>5, <3>1 DEF Dead, InJobs
    <3>3. 1 \in DOMAIN jobs /\ n \in DOMAIN jobs /\ 1 <= n /\ FirstJob = jobs[1]
      BY <3>1, <3>2 DEF FirstJob
    <3>4. QED
      BY <3>2, <3>3 DEF Ahead
  <2>6. StillAhead'
    BY <1>1, <1>3, <2>1, <2>2, <2>5 DEF StillAhead, Ahead
  <2>7. QED
    BY <2>3, <2>4, <2>6 DEF Condemnation
<1>8. CASE RemoveDone
  <2>1. ~condemned' /\ Top.at = "remove" /\ Top.it = None
    BY <1>8 DEF RemoveDone, TopAt
  <2>2. ASSUME NEW h \in Handle, Dead(h) PROVE FALSE
    <3>1. Ahead(None, h)
      BY <1>2, <2>1, <2>2 DEF Condemnation, StillAhead
    <3>2. PICK m \in DOMAIN jobs : jobs[m] = None
      BY <3>1 DEF Ahead
    <3>3. jobs[m] \in Handle
      BY DEF IInv, DataOK
    <3>4. QED
      BY <3>2, <3>3, HandleAssumption
  <2>3. QED
    BY <1>3, <2>1, <2>2, NothingCondemned
<1>9. QED
  BY <1>4, <1>5, <1>6, <1>7, <1>8 DEF LoopSteps, RestartDone, ProcessJobsDone, HandlerRemoved,
     PageDeleted, TopAt

(* The second loop of ProcessJobs goes on to the job after h.                *)
LEMMA RemovingCondemns ==
  ASSUME IInv, IInv', Stacked, Queued, Condemnation, NEW h \in Handle, KeepJob(h) \/ RemoveJob(h)
  PROVE  Condemnation'
<1>0. jobs \in Seq(Handle) /\ Len(jobs) \in Nat /\ Distinct(jobs) /\ DOMAIN jobs = 1..Len(jobs)
  BY QueueIs DEF IInv, DataOK, Queued
<1>1. /\ Height' = Height /\ stack # <<>> /\ Top.at = "remove" /\ Top'.at = "remove"
      /\ Top'.it = JobAfter(h) /\ Top.it = h /\ InJobs(h)
  BY AdvanceIs DEF AdvanceSteps
<1>2. Innermost(Height) /\ Top = stack[Height]
  BY <1>1, TopInnermost DEF LoopAt
<1>3. /\ stack' # <<>> /\ Height' \in 1..Height' /\ Top' = stack'[Height']
      /\ \A i : Innermost(i)' => i = Height'
  BY <1>1, StackTypes, NextTypes, NextTopInnermost DEF LoopAt
<1>4. UNCHANGED <<info, condemned>>
  BY DEF KeepJob, RemoveJob
<1>5. ASSUME NEW x \in Handle, Dead(x)'
      PROVE  /\ Dead(x) /\ x # h
             /\ \E m, n \in DOMAIN jobs' : m <= n /\ jobs'[m] = JobAfter(h) /\ jobs'[n] = x
  <2>1. Position(h) \in 1..Len(jobs) /\ jobs[Position(h)] = h
    BY <1>0, <1>1 DEF InJobs, Position
  <2>2. Dead(x) /\ x # h
    <3>1. CASE KeepJob(h)
      BY <1>4, <1>5, <3>1 DEF KeepJob, Dead, InJobs
    <3>2. CASE RemoveJob(h)
      <4>1. In(x, jobs') /\ \A y : In(y, jobs') <=> In(y, jobs) /\ y # h
        BY <1>0, <1>5, <3>2, RemoveJobIs, NextQueueIs DEF Dead
      <4>2. QED
        BY <1>4, <1>5, <4>1, QueueIs DEF Dead
    <3>3. QED
      BY <3>1, <3>2
  <2>3. Ahead(h, x)
    BY <1>1, <1>2, <2>2 DEF Condemnation, StillAhead
  <2>4. PICK m \in 1..Len(jobs), n \in 1..Len(jobs) : m <= n /\ jobs[m] = h /\ jobs[n] = x
    BY <1>0, <2>3 DEF Ahead
  <2>5. m = Position(h)
    BY <1>0, <2>1, <2>4 DEF Distinct
  <2>6. m < n /\ m < Len(jobs) /\ m + 1 \in 1..Len(jobs) /\ m + 1 <= n
    BY <1>0, <2>2, <2>4
  <2>7. JobAfter(h) = jobs[m + 1]
    BY <2>5, <2>6 DEF JobAfter
  <2>8. CASE KeepJob(h)
    <3>1. jobs' = jobs
      BY <2>8 DEF KeepJob
    <3>2. QED
      BY <1>0, <2>2, <2>4, <2>6, <2>7, <3>1
  <2>9. CASE RemoveJob(h)
    <3>1. jobs' = RemoveAt(jobs, m)
      BY <2>5, <2>9 DEF RemoveJob
    <3>2. jobs' \in Seq(Handle) /\ Len(jobs') = Len(jobs) - 1
          /\ \A j \in 1..(Len(jobs) - 1) : jobs'[j] = IF j < m THEN jobs[j] ELSE jobs[j + 1]
      BY <1>0, <2>4, <3>1, RemoveAtFacts
    <3>3. m \in 1..(Len(jobs) - 1) /\ n - 1 \in 1..(Len(jobs) - 1) /\ m <= n - 1 /\ ~(n - 1 < m)
          /\ (n - 1) + 1 = n
      BY <1>0, <2>4, <2>6
    <3>4. jobs'[m] = jobs[m + 1] /\ jobs'[n - 1] = x
      BY <2>4, <3>2, <3>3
    <3>5. m \in DOMAIN jobs' /\ n - 1 \in DOMAIN jobs'
      BY <3>2, <3>3
    <3>6. QED
      BY <2>2, <2>7, <3>3, <3>4, <3>5
  <2>10. QED
    BY <2>2, <2>8, <2>9
<1>6. QED
  <2>1. LooksAgain' /\ AllRemoved'
    BY <1>1, <1>3 DEF LooksAgain, AllRemoved
  <2>2. DeadIsNoted'
    BY <1>4, <1>5 DEF Condemnation, DeadIsNoted
  <2>3. StillAhead'
    BY <1>1, <1>3, <1>5 DEF StillAhead, Ahead
  <2>4. QED
    BY <2>1, <2>2, <2>3 DEF Condemnation

(* ProcessJobState condemns a job only by saying so.                         *)
LEMMA ReturnedCondemns ==
  ASSUME IInv, Condemnation, NEW x \in Handle, NEW s \in {"Init", "Connect", "Transfer", "Disconnect", "Shutdown"},
         NEW r, Returned(x, s, r), info[x].state = "Remove" => condemned, jobs' = jobs
  PROVE  DeadIsNoted'
<1> DEFINE removed == ~r.ok \/ (r.complete /\ s = "Shutdown")
           next == IF removed THEN "Remove" ELSE IF r.complete THEN Successor[s] ELSE info[x].state
<1>0. info \in [Handle -> JobInfo] /\ condemned \in BOOLEAN
  BY DEF IInv, DataOK
<1>1. condemned' = (condemned \/ removed)
  BY DEF Returned
<1>2. PICK a, b, c : info' = [info EXCEPT ![x].inited = a, ![x].shut = b, ![x].success = c, ![x].state = next]
  BY DEF Returned
<1>3. next = "Remove" => removed \/ condemned
  BY DEF Successor
<1> HIDE DEF removed, next
<1>4. info'[x].state = next /\ \A h \in Handle \ {x} : info'[h] = info[h]
  BY <1>0, <1>2 DEF JobInfo
<1>5. ASSUME NEW h \in Handle, Dead(h)' PROVE condemned'
  <2>1. CASE h = x
    BY <1>0, <1>1, <1>3, <1>4, <1>5, <2>1 DEF Dead
  <2>2. CASE h # x
    <3>1. Dead(h)
      BY <1>4, <1>5, <2>2 DEF Dead, InJobs
    <3>2. QED
      BY <1>0, <1>1, <3>1 DEF Condemnation, DeadIsNoted
  <2>3. QED
    BY <2>1, <2>2
<1>6. QED
  BY <1>5 DEF DeadIsNoted

(* A job that starts is not condemned.                                       *)
LEMMA StartsCondemn ==
  ASSUME IInv, Condemnation, LoopsStay, stack # <<>>, Top.at \in {"start", "restart"},
         NEW x \in Handle, NEW j, j.state # "Remove", info' = [info EXCEPT ![x] = j],
         jobs' = Append(jobs, x), UNCHANGED condemned
  PROVE  Condemnation'
<1>0. info \in [Handle -> JobInfo] /\ jobs \in Seq(Handle)
  BY DEF IInv, DataOK
<1>1. \A h \in Handle : Dead(h)' => Dead(h)
  <2>1. info'[x] = j /\ \A h \in Handle \ {x} : info'[h] = info[h]
    BY <1>0
  <2>2. \A h \in Handle : h # x => (InJobs(h)' => InJobs(h))
    BY <1>0 DEF InJobs
  <2>3. QED
    BY <2>1, <2>2 DEF Dead
<1>2. \A i : Innermost(i) => stack[i].at # "remove"
  BY TopInnermost DEF LoopAt
<1>3. QED
  BY <1>1, <1>2, NoMoreCondemned

LEMMA JobStepsCondemn ==
  ASSUME IInv, IInv', Stacked, Queued, Condemnation, NEW x \in Handle, JobSteps(x)
  PROVE  Condemnation'
<1>1. CASE StartDataURL(x)
  <2>1. UNCHANGED <<jobs, info, condemned>>
    BY <1>1 DEF StartDataURL
  <2>2. QED
    BY <1>1, <2>1, StartDataURLIs, ClientCallStaysLoops, Undisturbed
<1>2. CASE StartJob(x)
  <2>1. Height' = Height /\ Agree(Height - 1) /\ Top'.at = Top.at /\ Top.at \in {"start", "restart"} /\ stack # <<>>
    BY <1>2, StartJobCalm DEF StartJob, Starting, TopAt
  <2>2. LoopsStay
    BY <2>1, TopStaysLoops
  <2>3. /\ info' = [info EXCEPT ![x] = NewJob(rh[x].defers)]
        /\ jobs' = Append(jobs, x) /\ UNCHANGED condemned
    BY <1>2 DEF StartJob
  <2>4. NewJob(rh[x].defers).state # "Remove"
    BY DEF NewJob
  <2>5. QED
    BY <2>1, <2>2, <2>3, <2>4, StartsCondemn
<1>3. CASE StartRefused(x)
  <2> DEFINE p == rh[x].defers /\ ~NoHandler(x)
             j == [NewJob(p) EXCEPT !.success = FALSE]
  <2>1. Top.at \in {"start", "restart"} /\ stack # <<>> /\ LoopsStay
    BY <1>3, StartRefusedIs, ClientCallStaysLoops DEF StartRefused, Starting, TopAt
  <2>2. info' = [info EXCEPT ![x] = j] /\ jobs' = Append(jobs, x) /\ UNCHANGED condemned
    BY <1>3 DEF StartRefused
  <2>3. j.state # "Remove"
    BY DEF NewJob
  <2> HIDE DEF j
  <2>4. QED
    BY <2>1, <2>2, <2>3, StartsCondemn
<1>4. ASSUME Top.at = "run", stack # <<>>, LoopsStay, DeadIsNoted' PROVE Condemnation'
  BY <1>4, TopInnermost, CondemnedAtRun DEF LoopAt
<1>5. ASSUME CondemnCancelled(x) \/ CondemnAgain(x) \/ CallHandler(x) \/ SkipPaused(x)
      PROVE  /\ Top.at = "run" /\ stack # <<>> /\ LoopsStay
             /\ jobs' = jobs
  <2>1. /\ Top.at = "run" /\ stack # <<>> /\ Height' = Height /\ Agree(Height - 1) /\ Top'.at = Top.at
    <3>1. Top.at = "run"
      BY <1>5 DEF CondemnCancelled, CondemnAgain, CallHandler, SkipPaused, AtState, AtJob, TopAt
    <3>2. QED
      BY <1>5, <3>1, AdvanceIs DEF AdvanceSteps
  <2>2. QED
    BY <1>5, <2>1, TopStaysLoops DEF CondemnCancelled, CondemnAgain, CallHandler, SkipPaused
<1>6. CASE CondemnCancelled(x) \/ CondemnAgain(x)
  <2>1. Condemn({x}) /\ condemned'
    BY <1>6 DEF CondemnCancelled, CondemnAgain, Condemn
  <2>2. DeadIsNoted'
    BY <2>1 DEF DeadIsNoted
  <2>3. QED
    BY <1>4, <1>5, <1>6, <2>2
<1>7. CASE CallHandler(x)
  <2>1. PICK s \in {"Init", "Connect", "Disconnect", "Shutdown"}, r \in [ok : BOOLEAN, complete : BOOLEAN] :
          AtState(x, s) /\ Returned(x, s, r)
    BY <1>7 DEF CallHandler
  <2>2. info[x].state # "Remove"
    BY <2>1 DEF AtState
  <2>3. DeadIsNoted'
    BY <1>5, <1>7, <2>1, <2>2, ReturnedCondemns
  <2>4. QED
    BY <1>4, <1>5, <1>7, <2>3
<1>8. CASE SkipPaused(x)
  <2>1. UNCHANGED <<jobs, info, condemned>>
    BY <1>8 DEF SkipPaused
  <2>2. QED
    BY <1>5, <1>8, <2>1, Undisturbed
<1>9. CASE CallTransfer(x)
  <2>1. UNCHANGED <<jobs, info, condemned>>
    BY <1>9 DEF CallTransfer
  <2>2. QED
    BY <1>9, <2>1, CallTransferIs, CallStaysLoops, Undisturbed DEF LoopAt
<1>10. CASE NotifyJobFailed(x)
  <2>1. UNCHANGED <<jobs, info, condemned>>
    BY <1>10 DEF NotifyJobFailed
  <2>2. QED
    BY <1>10, <2>1, NotifyJobFailedIs, ClientCallStaysLoops, MarkStaysLoops, Undisturbed
<1>11. CASE PageCancels(x)
  BY <1>11, StackStaysLoops, Undisturbed DEF PageCancels
<1>12. QED
  BY <1>1, <1>2, <1>3, <1>6, <1>7, <1>8, <1>9, <1>10, <1>11, RemovingCondemns DEF JobSteps

LEMMA TransferStepsCondemn ==
  ASSUME IInv, IInv', Stacked, Condemnation, NEW x \in Handle, TransferSteps(x)
  PROVE  Condemnation'
<1>0. /\ Height \in Nat /\ Height > 1 /\ Top.at = "transfer" /\ stack # <<>>
      /\ stack[Height - 1].at = "run" /\ Innermost(Height - 1)
  <2>1. TopAt("transfer")
    BY DEF TransferSteps, DataReceived, DataDone, TransferEnds, InTransfer
  <2>2. /\ Height \in Nat /\ Top = stack[Height] /\ Height \in DOMAIN stack
        /\ Top.at = "transfer" /\ stack # <<>>
    BY <2>1, StackTypes DEF TopAt
  <2>3. Height > 1 /\ stack[Height - 1].at = "run"
    BY <2>2 DEF IInv, WellStacked, TransferInRun
  <2>4. Innermost(Height - 1)
    BY <2>2, <2>3, UnderInnermost DEF LoopAt
  <2>5. QED
    BY <2>2, <2>3, <2>4
<1>1. ASSUME LoopsStay, DeadIsNoted' PROVE Condemnation'
  BY <1>0, <1>1, CondemnedAtRun
<1>2. CASE DataReceived(x)
  <2>1. UNCHANGED <<jobs, info, condemned>>
    BY <1>2 DEF DataReceived
  <2>2. QED
    BY <1>2, <2>1, DataReceivedIs, ClientCallStaysLoops, MarkStaysLoops, Undisturbed
<1>3. ASSUME NEW result \in BOOLEAN, DataDone(x, result) PROVE Condemnation'
  <2>1. LoopsStay
    BY <1>3, DataDoneIs, ClientCallStaysLoops, MarkStaysLoops
  <2>2. jobs' = jobs /\ (UNCHANGED <<info, condemned>> \/ (info' = info /\ condemned' = condemned) \/ condemned')
    <3>1. condemned \in BOOLEAN
      BY DEF IInv, DataOK
    <3>2. QED
      BY <1>3, <3>1 DEF DataDone
  <2>3. DeadIsNoted'
    BY <2>2 DEF Condemnation, DeadIsNoted, Dead, InJobs
  <2>4. QED
    BY <1>1, <2>1, <2>3
<1>4. CASE TransferEnds(x)
  <2>1. PICK r : Returned(x, "Transfer", r)
    BY <1>4 DEF TransferEnds
  <2>2. InJobs(x) /\ jobs' = jobs
    BY <1>4 DEF TransferEnds
  <2>3. info[x].state = "Remove" => condemned
    BY <2>2 DEF Condemnation, DeadIsNoted, Dead
  <2>4. DeadIsNoted'
    BY <2>1, <2>2, <2>3, ReturnedCondemns
  <2>5. QED
    BY <1>1, <1>4, <2>4, TransferEndsStaysLoops
<1>5. QED
  BY <1>2, <1>3, <1>4 DEF TransferSteps

LEMMA NextCondemns ==
  ASSUME IInv, IInv', Stacked, Queued, Condemnation, [Next]_vars PROVE Condemnation'
<1>1. CASE UNCHANGED vars
  BY <1>1, StackStaysLoops, Undisturbed DEF vars
<1>2. QED
  BY <1>1, EnvironmentCondemns, ReturnsCondemn, LoopsCondemn, JobStepsCondemn, TransferStepsCondemn DEF Next

(* Whatever is condemned is still looked for by a loop that is active.       *)
THEOREM CondemnedLookedFor == Spec => []Condemnation
<1>1. Init => Condemnation
  BY DEF Init, Condemnation, LooksAgain, DeadIsNoted, AllRemoved, StillAhead, Dead, InJobs, Innermost, Height
<1>2. IInv /\ IInv' /\ Stacked /\ Queued /\ Condemnation /\ [Next]_vars => Condemnation'
  BY NextCondemns
<1>3. QED
  BY <1>1, <1>2, Invariance, CallersRight, QueueKept, PTL DEF Spec

(* When ProcessJobs has returned to the application no condemned job is      *)
(* left, so that the page or the handler it depends on may be destroyed.     *)
THEOREM CondemnedAllGone == Spec => []NoneLeftCondemned
<1>1. Condemnation /\ IInv => NoneLeftCondemned
  <2> SUFFICES ASSUME Condemnation, IInv, Idle PROVE ~condemned /\ \A h \in Handle : ~Dead(h)
    BY DEF NoneLeftCondemned, Dead
  <2>1. Height = 0
    BY DEF Idle, Height
  <2>2. ~condemned
    BY <2>1 DEF Condemnation, LooksAgain
  <2>3. QED
    BY <2>2 DEF Condemnation, DeadIsNoted
<1>2. QED
  BY <1>1, Invariance, CondemnedLookedFor, PTL

-----------------------------------------------------------------------------
(* The outcome of a load.  The client of a load that startPendingJob could   *)
(* not start must not stop at a breakpoint while it is told: startPendingJob *)
(* then takes back from the list what a nested loop has put last there.      *)
(* Unbroken says of a state that no client is at a breakpoint in one of the  *)
(* callbacks cbs.                                                            *)
Unbroken(cbs) == \A i \in 1..Height : Brk(stack[i]) => stack[i].cb \notin cbs

(* The list ends with the load that is being refused, and with nothing above *)
(* its client.                                                               *)
RefusedLast ==
  \A i \in 1..Height : Refused(stack[i]) =>
    i = Height /\ jobs # <<>> /\ Last(jobs) = stack[i].it /\ stack[i].it \notin open

(* Where a job stands between the InitJob and the ShutdownJob of its handler.*)
BracketOf(h) ==
  /\ h \in open => InJobs(h) /\ info[h].inited /\ ~info[h].shut
  /\ InJobs(h) /\ info[h].state \in {"Connect", "Transfer", "Disconnect"} => h \in open
  /\ InJobs(h) /\ info[h].shut => info[h].state \in {"Shutdown", "Remove"}
  /\ \A i \in 1..Height : stack[i].at = "transfer" /\ stack[i].it = h /\ InJobs(h) => h \in open

Bracket == RefusedLast /\ \A h \in Handle : BracketOf(h)

(* A step that neither starts, drives nor removes a job.                     *)
Fails(h) == /\ DataDone(h, FALSE) /\ rh[h].client /\ ~rh[h].cancelled
            /\ info'[h].state = "Remove" /\ ~info'[h].success
Changes(h) == StartJob(h) \/ StartRefused(h) \/ CallHandler(h) \/ TransferEnds(h) \/ RemoveJob(h)
JobRests(h) == /\ info'[h].inited = info[h].inited /\ info'[h].shut = info[h].shut
               /\ info'[h].state \in {info[h].state, "Remove"}
               /\ info'[h].success = info[h].success \/ Fails(h)
Rests == jobs' = jobs /\ open' = open /\ \A h \in Handle : JobRests(h)

LEMMA CondemnRests ==
  ASSUME IInv, NEW S, Condemn(S), UNCHANGED <<jobs, open>> PROVE Rests
<1>1. ASSUME NEW h \in Handle PROVE JobRests(h)
  <2>1. info[h] \in JobInfo
    BY DEF IInv, DataOK
  <2>2. info'[h] = IF h \in S THEN [info[h] EXCEPT !.state = "Remove"] ELSE info[h]
    BY DEF Condemn
  <2>3. QED
    BY <2>1, <2>2 DEF JobInfo, JobRests
<1>2. QED
  BY <1>1 DEF Rests

LEMMA DeferRests ==
  ASSUME IInv, NEW V, NEW b, Defer(V, b), UNCHANGED <<jobs, open>> PROVE Rests
<1>1. ASSUME NEW h \in Handle PROVE JobRests(h)
  <2>1. info[h] \in JobInfo
    BY DEF IInv, DataOK
  <2>2. info'[h] = info[h] \/ info'[h] = [info[h] EXCEPT !.paused = b]
    BY DEF Defer
  <2>3. QED
    BY <2>1, <2>2 DEF JobInfo, JobRests
<1>2. QED
  BY <1>1 DEF Rests

LEMMA StaysRests == ASSUME UNCHANGED <<jobs, open, info>> PROVE Rests
BY DEF Rests, JobRests

LEMMA DataDoneRests ==
  ASSUME IInv, NEW x \in Handle, NEW result \in BOOLEAN, DataDone(x, result) PROVE Rests
<1>1. info \in [Handle -> JobInfo]
  BY DEF IInv, DataOK
<1>2. CASE info' = info
  BY <1>2, StaysRests DEF DataDone, hist, Called
<1>3. ASSUME info' = [info EXCEPT ![x].success = FALSE, ![x].state = "Remove"], ~result,
             rh[x].client, ~rh[x].cancelled
      PROVE  Rests
  <2>1. \A h \in Handle \ {x} : info'[h] = info[h]
    BY <1>1, <1>3
  <2>2. /\ info'[x].inited = info[x].inited /\ info'[x].shut = info[x].shut
        /\ info'[x].state = "Remove" /\ ~info'[x].success
    BY <1>1, <1>3 DEF JobInfo
  <2>3. result = FALSE /\ UNCHANGED <<jobs, open>>
    BY <1>3 DEF DataDone, hist, Called
  <2>4. Fails(x)
    BY <1>3, <2>2, <2>3 DEF Fails
  <2>5. \A h \in Handle : JobRests(h)
    BY <2>1, <2>2, <2>4 DEF JobRests
  <2>6. QED
    BY <2>3, <2>5 DEF Rests
<1>4. QED
  BY <1>2, <1>3 DEF DataDone

LEMMA NextRests ==
  ASSUME IInv, [Next]_vars
  PROVE  Rests \/ ReturnFromRefused \/ \E h \in Handle : Changes(h)
<1>1. CASE UNCHANGED vars \/ LoopSteps
  BY <1>1, StaysRests DEF vars, hist, LoopSteps, StartDone, RestartDone, RunDone, RemoveDone, ProcessJobsDone,
       HandlerRemoved, PageDeleted
<1>2. CASE Environment
  <2>1. ASSUME NEW h \in Handle, Add(h) \/ Cancel(h) \/ HeadersReceived(h) PROVE Rests
    BY <2>1, StaysRests DEF Add, Cancel, HeadersReceived, Called, hist
  <2>2. CASE Break \/ Resume
    BY <2>2, DeferRests DEF Break, Resume, hist
  <2>3. CASE Tick \/ TimerFires \/ \E v \in View : RunScript(v)
    BY <2>3, StaysRests DEF Tick, TimerFires, RunScript, hist
  <2>4. ASSUME NEW S, NEW src, NEW v, Purge(S, src, v) PROVE Rests
    BY <2>4, CondemnRests DEF Purge, hist
  <2>5. QED
    BY <1>2, <2>1, <2>2, <2>3, <2>4 DEF Environment, ShutdownView, RemoveTransportHandler
<1>3. CASE ClientReturns
  BY <1>3, StaysRests DEF ClientReturns, ReturnFromResponse, ReturnFromHeaders, ReturnFromCall,
     ReturnFromVerdict, NextURLCall, ReturnFromURLDone, Called, hist
<1>4. ASSUME NEW h \in Handle, JobSteps(h) PROVE Rests \/ Changes(h)
  <2>1. CASE CondemnCancelled(h) \/ CondemnAgain(h)
    BY <2>1, CondemnRests DEF CondemnCancelled, CondemnAgain, hist
  <2>2. CASE StartDataURL(h) \/ SkipPaused(h) \/ CallTransfer(h) \/ KeepJob(h) \/ NotifyJobFailed(h) \/ PageCancels(h)
    BY <2>2, StaysRests DEF StartDataURL, SkipPaused, CallTransfer, KeepJob, NotifyJobFailed, PageCancels, Called, hist
  <2>3. QED
    BY <1>4, <2>1, <2>2 DEF JobSteps, Changes
<1>5. ASSUME NEW h \in Handle, TransferSteps(h) PROVE Rests \/ Changes(h)
  <2>1. CASE DataReceived(h)
    BY <2>1, StaysRests DEF DataReceived, Called, hist
  <2>2. QED
    BY <1>5, <2>1, DataDoneRests DEF TransferSteps, Changes
<1>6. QED
  BY <1>1, <1>2, <1>3, <1>4, <1>5 DEF Next

(* Nothing above a refused client but the client itself, and nothing moves   *)
(* while it runs.                                                            *)
LEMMA WhileRefused ==
  ASSUME [Next]_vars, TopAt("client"), Top.cb = "refused", ~Top.brk
  PROVE  ReturnFromRefused \/ (UNCHANGED <<stack, jobs, info, open, running>>) \/ Break
<1>1. ~Idle /\ ~AppRuns /\ Top.at = "client"
  BY DEF TopAt, Idle, AppRuns
<1>2. ASSUME NEW x \in Handle PROVE ~JobSteps(x) /\ ~TransferSteps(x)
  BY <1>1 DEF JobSteps, TransferSteps, StartDataURL, StartJob, StartRefused, CondemnCancelled,
     SkipPaused, CallHandler, CallTransfer, CondemnAgain, KeepJob, NotifyJobFailed, RemoveJob,
     PageCancels, DeletingPage, Starting, AtState, AtJob, AtRemove, TopAt, InTransfer,
     DataReceived, DataDone, TransferEnds
<1>3. ~LoopSteps
  BY <1>1 DEF LoopSteps, StartDone, RestartDone, RunDone, RemoveDone, ProcessJobsDone,
     HandlerRemoved, PageDeleted, TopAt
<1>4. CASE ClientReturns
  BY <1>1, <1>4 DEF ClientReturns, ReturnFromResponse, ReturnFromHeaders, ReturnFromCall,
     ReturnFromVerdict, NextURLCall, ReturnFromURLDone, Returning
<1>5. CASE Environment
  BY <1>1, <1>5 DEF Environment, Add, Cancel, HeadersReceived, RunScript, ShutdownView, Purge,
     Resume, Tick, TimerFires, RemoveTransportHandler
<1>6. QED
  BY <1>2, <1>3, <1>4, <1>5 DEF Next, vars, hist

(* The frames of the next state that matter are those of this one, or the    *)
(* call that the step makes.                                                 *)
LEMMA NextFrames ==
  ASSUME IInv, IInv', Stacked, [Next]_vars, NEW i \in 1..Height', stack'[i].at \in {"client", "transfer"}
  PROVE  \/ i \in 1..Height /\ stack'[i].at = stack[i].at /\ stack'[i].it = stack[i].it
            /\ (stack[i].at = "client" => stack'[i].cb = stack[i].cb)
         \/ NewOnTop(i)
<1>1. CASE Break \/ Resume
  <2>1. PICK b \in BOOLEAN : TopAt("client") /\ stack' = Becomes([Top EXCEPT !.brk = b])
    BY <1>1 DEF Break, Resume, ScriptRuns
  <2>2. /\ Height \in Nat /\ Height > 0 /\ Height' = Height /\ Agree(Height - 1)
        /\ Top' = stack'[Height] /\ Top = stack[Height]
        /\ Top'.at = "client" /\ Top'.it = Top.it /\ Top'.cb = Top.cb
    BY <2>1, BrkSteps
  <2>3. TopAt("client") => Top.at = "client"
    BY DEF TopAt
  <2>4. CASE i = Height
    BY <2>1, <2>2, <2>3, <2>4
  <2>5. CASE i # Height
    BY <2>2, <2>5 DEF Agree
  <2>6. QED
    BY <2>4, <2>5
<1>2. CASE NoneNew \/ Arrives
  BY <1>2, Newcomers, KeptIs DEF Kept, Alike
<1>3. QED
  BY <1>1, <1>2, NextArrives

LEMMA NewRefusal ==
  ASSUME NEW i, NewOnTop(i), Refused(stack'[i])
  PROVE  /\ i = Height' /\ i = Height + 1
         /\ \E h \in Handle : Taken(h) /\ IsCall(stack'[i], h, Opening)
BY DEF NewOnTop, Appears, Follows, NewCall, Refused, Answer, Opening, URLCalls, CallsNext, IsCall

LEMMA TransferNamesOpen ==
  ASSUME IInv, IInv', Stacked, [Next]_vars, NEW h \in Handle, BracketOf(h),
         InJobs(h)' => InJobs(h), h \in open => h \in open',
         NEW i \in 1..Height', stack'[i].at = "transfer", stack'[i].it = h, InJobs(h)'
  PROVE  h \in open'
<1>1. CASE i \in 1..Height /\ stack[i].at = "transfer" /\ stack[i].it = h
  BY <1>1 DEF BracketOf
<1>2. CASE CallTransfer(h)
  BY <1>2 DEF BracketOf, CallTransfer, AtState, AtJob
<1>3. QED
  BY <1>1, <1>2, NextFrames, NewTransfers

LEMMA BracketRests ==
  ASSUME IInv, IInv', Stacked, [Next]_vars, NEW h \in Handle, BracketOf(h),
         InJobs(h)' <=> InJobs(h), h \in open' <=> h \in open, JobRests(h)
  PROVE  BracketOf(h)'
<1>1. ASSUME NEW i \in 1..Height', stack'[i].at = "transfer", stack'[i].it = h, InJobs(h)' PROVE h \in open'
  BY <1>1, TransferNamesOpen
<1>2. (h \in open => InJobs(h) /\ info[h].inited /\ ~info[h].shut)'
  BY DEF BracketOf, JobRests
<1>3. (InJobs(h) /\ info[h].state \in {"Connect", "Transfer", "Disconnect"} => h \in open)'
  BY DEF BracketOf, JobRests
<1>4. (InJobs(h) /\ info[h].shut => info[h].state \in {"Shutdown", "Remove"})'
  BY DEF BracketOf, JobRests
<1>5. QED
  BY <1>1, <1>2, <1>3, <1>4 DEF BracketOf

LEMMA ReturnedBy ==
  ASSUME IInv, NEW x \in Handle, NEW s, NEW r, Returned(x, s, r)
  PROVE  /\ \A h \in Handle \ {x} : info'[h] = info[h]
         /\ info'[x].inited <=> info[x].inited \/ (s = "Init" /\ r.ok)
         /\ info'[x].shut <=> info[x].shut \/ (s = "Shutdown" /\ r.ok)
         /\ info'[x].success <=> info[x].success /\ (r.ok \/ s \in {"Disconnect", "Shutdown"})
         /\ info'[x].state = IF ~r.ok \/ (r.complete /\ s = "Shutdown") THEN "Remove"
                             ELSE IF r.complete THEN Successor[s] ELSE info[x].state
<1>1. info \in [Handle -> JobInfo]
  BY DEF IInv, DataOK
<1> DEFINE a == info[x].inited \/ (s = "Init" /\ r.ok)
           b == info[x].shut \/ (s = "Shutdown" /\ r.ok)
           c == info[x].success /\ (r.ok \/ s \in {"Disconnect", "Shutdown"})
           d == IF ~r.ok \/ (r.complete /\ s = "Shutdown") THEN "Remove"
                ELSE IF r.complete THEN Successor[s] ELSE info[x].state
<1>2. info' = [info EXCEPT ![x].inited = a, ![x].shut = b, ![x].success = c, ![x].state = d]
  BY <1>1 DEF Returned, JobInfo
<1> HIDE DEF a, b, c, d
<1>3. /\ \A h \in Handle \ {x} : info'[h] = info[h]
      /\ info'[x].inited = a /\ info'[x].shut = b /\ info'[x].success = c /\ info'[x].state = d
  BY <1>1, <1>2 DEF JobInfo
<1>4. QED
  BY <1>3 DEF a, b, c, d

LEMMA StartedJob ==
  ASSUME IInv, Queued, NEW x \in Handle, StartJob(x) \/ StartRefused(x)
  PROVE  /\ Taken(x) /\ ~Touched(x) /\ open' = open
         /\ jobs' = Append(jobs, x) /\ jobs' # <<>> /\ Last(jobs') = x
         /\ \A h : InJobs(h)' <=> InJobs(h) \/ h = x
         /\ \A h \in Handle \ {x} : info'[h] = info[h]
         /\ info'[x].state = "Init" /\ ~info'[x].inited /\ ~info'[x].shut
         /\ info'[x].success <=> StartJob(x)
<1>1. Taken(x) /\ jobs' = Append(jobs, x) /\ open' = open
  BY DEF StartJob, StartRefused, Taken, MayStart, Called, hist
<1>2. info \in [Handle -> JobInfo] /\ jobs \in Seq(Handle)
  BY DEF IInv, DataOK
<1>3. \E j : /\ info' = [info EXCEPT ![x] = j]
             /\ j.state = "Init" /\ ~j.inited /\ ~j.shut /\ (j.success <=> StartJob(x))
  <2>1. CASE StartJob(x)
    <3>1. info' = [info EXCEPT ![x] = NewJob(rh[x].defers)]
      BY <2>1 DEF StartJob
    <3> DEFINE j == NewJob(rh[x].defers)
    <3>2. j = [state |-> "Init", inited |-> FALSE, shut |-> FALSE, success |-> TRUE, paused |-> rh[x].defers]
      BY DEF NewJob
    <3>3. j.state = "Init" /\ ~j.inited /\ ~j.shut /\ j.success
      BY <3>2
    <3> HIDE DEF j
    <3>4. info' = [info EXCEPT ![x] = j]
      BY <3>1 DEF j
    <3>5. QED
      BY <2>1, <3>3, <3>4
  <2>2. CASE StartRefused(x)
    <3> DEFINE j == NewJob(rh[x].defers /\ ~NoHandler(x))
               k == [j EXCEPT !.success = FALSE]
    <3>1. info' = [info EXCEPT ![x] = k]
      BY <2>2 DEF StartRefused
    <3>2. j = [state |-> "Init", inited |-> FALSE, shut |-> FALSE, success |-> TRUE,
               paused |-> rh[x].defers /\ ~NoHandler(x)]
      BY DEF NewJob
    <3>3. k.state = "Init" /\ ~k.inited /\ ~k.shut /\ ~k.success
      BY <3>2
    <3>4. ~StartJob(x)
      BY <2>2 DEF StartRefused, StartJob
    <3> HIDE DEF j, k
    <3>5. QED
      BY <3>1, <3>3, <3>4
  <2>3. QED
    BY <2>1, <2>2
<1>4. /\ \A h \in Handle \ {x} : info'[h] = info[h]
      /\ info'[x].state = "Init" /\ ~info'[x].inited /\ ~info'[x].shut
      /\ info'[x].success <=> StartJob(x)
  BY <1>2, <1>3
<1>5. /\ jobs' # <<>> /\ Last(jobs') = x
      /\ \A h : InJobs(h)' <=> InJobs(h) \/ h = x
  <2>1. /\ Len(jobs') = Len(jobs) + 1 /\ jobs'[Len(jobs) + 1] = x
        /\ \A i \in 1..Len(jobs) : jobs'[i] = jobs[i]
        /\ jobs' # <<>> /\ Last(jobs') = x
    BY <1>1, <1>2, AppendIs
  <2>2. DOMAIN jobs = 1..Len(jobs) /\ DOMAIN jobs' = 1..(Len(jobs) + 1) /\ Len(jobs) \in Nat
    BY <1>1, <1>2
  <2>3. \A h : InJobs(h)' <=> InJobs(h) \/ h = x
    BY <2>1, <2>2 DEF InJobs
  <2>4. QED
    BY <2>1, <2>3
<1>6. ~Touched(x)
  BY <1>1, TakenIs
<1>7. QED
  BY <1>1, <1>4, <1>5, <1>6

LEMMA RemovedJob ==
  ASSUME IInv, Queued, NEW x \in Handle, RemoveJob(x)
  PROVE  /\ InJobs(x) /\ \A h : InJobs(h)' <=> InJobs(h) /\ h # x
         /\ info' = info
         /\ open' = IF info[x].inited /\ ~info[x].shut THEN open \ {x} ELSE open
<1>1. Distinct(jobs)
  BY QueueIs DEF Queued
<1>2. \A h : In(h, jobs') <=> In(h, jobs) /\ h # x
  BY <1>1, RemoveJobIs
<1>3. QED
  BY <1>2, QueueIs, NextQueueIs DEF RemoveJob, AtRemove

LEMMA RefusedLeaves ==
  ASSUME IInv, Queued, RefusedLast, ReturnFromRefused
  PROVE  /\ TopAt("client") /\ Top.cb = "refused" /\ ~Top.brk /\ Top.it \in Handle
         /\ Top.it \notin open /\ InJobs(Top.it)
         /\ \A h : InJobs(h)' <=> InJobs(h) /\ h # Top.it
         /\ UNCHANGED <<info, open>>
<1>1. Distinct(jobs) /\ jobs \in Seq(Handle)
  BY QueueIs DEF Queued, IInv, DataOK
<1>2. /\ \A h : In(h, jobs') <=> In(h, jobs) /\ h # Last(jobs)
      /\ TopAt("client") /\ Top.cb = "refused" /\ Top.it \in Handle /\ jobs # <<>>
  BY <1>1, ReturnFromRefusedIs
<1>3. Last(jobs) = Top.it /\ Top.it \notin open
  BY <1>2, TopTypes DEF RefusedLast, Refused, TopAt
<1>4. In(Last(jobs), jobs)
  BY <1>1, <1>2 DEF In, Last
<1>5. ~Top.brk /\ UNCHANGED <<info, open>>
  BY DEF ReturnFromRefused, Returning, hist
<1>6. QED
  BY <1>2, <1>3, <1>4, <1>5, QueueIs, NextQueueIs

LEMMA WhileStarting ==
  ASSUME [Next]_vars, Starting
  PROVE  \/ UNCHANGED vars \/ StartDone \/ RestartDone
         \/ \E h \in Handle : StartDataURL(h) \/ StartJob(h) \/ StartRefused(h)
<1>1. ~Idle /\ ~AppRuns /\ stack # <<>> /\ Top.at \in {"start", "restart"}
  BY DEF Starting, TopAt, Idle, AppRuns
<1>2. ASSUME NEW x \in Handle, JobSteps(x) \/ TransferSteps(x)
      PROVE  StartDataURL(x) \/ StartJob(x) \/ StartRefused(x)
  BY <1>1, <1>2 DEF JobSteps, TransferSteps, CondemnCancelled,
     SkipPaused, CallHandler, CallTransfer, CondemnAgain, KeepJob, NotifyJobFailed, RemoveJob,
     PageCancels, DeletingPage, AtState, AtJob, AtRemove, TopAt, InTransfer,
     DataReceived, DataDone, TransferEnds
<1>3. CASE LoopSteps
  BY <1>1, <1>3 DEF LoopSteps, RunDone, RemoveDone, ProcessJobsDone, HandlerRemoved, PageDeleted, TopAt
<1>4. ~ClientReturns
  BY <1>1 DEF ClientReturns, ReturnFromResponse, ReturnFromHeaders, ReturnFromCall,
     ReturnFromVerdict, ReturnFromRefused, NextURLCall, ReturnFromURLDone, Returning, TopAt
<1>5. ~Environment
  BY <1>1 DEF Environment, Add, Cancel, HeadersReceived, RunScript, ShutdownView, Purge,
     Break, Resume, Tick, TimerFires, RemoveTransportHandler, ScriptRuns, TopAt
<1>6. QED
  BY <1>2, <1>3, <1>4, <1>5 DEF Next

LEMMA OpeningStarts ==
  ASSUME IInv, IInv', Stacked, [Next]_vars, NEW i \in 1..Height', i = Height + 1,
         NEW x \in Handle, IsCall(stack'[i], x, Opening), Taken(x)
  PROVE  \/ StartRefused(x) /\ stack'[i].cb = "refused"
         \/ StartDataURL(x) /\ stack'[i].cb \in URLCalls
<1>1. Height \in Nat /\ Height' > Height /\ Starting /\ stack # <<>>
  BY StackTypes, NextTypes DEF Taken, Starting, TopAt
<1>2. ~UNCHANGED vars
  BY <1>1 DEF vars, Height
<1>3. ~StartDone
  <2>1. SUFFICES ASSUME StartDone PROVE FALSE
    OBVIOUS
  <2>2. PICK f : stack' = Becomes(f)
    BY <2>1 DEF StartDone
  <2>3. QED
    BY <1>1, <2>2, StepMoves
<1>4. ~RestartDone
  <2>1. SUFFICES ASSUME RestartDone PROVE FALSE
    OBVIOUS
  <2>2. stack' = Return
    BY <2>1 DEF RestartDone
  <2>3. QED
    BY <1>1, <2>2, ReturnMoves
<1>5. ASSUME NEW y \in Handle, StartJob(y) PROVE FALSE
  <2>1. stack' = Started
    BY <1>5 DEF StartJob
  <2>2. PICK f : Started = Becomes(f)
    BY <1>1, StartedIs
  <2>3. QED
    BY <1>1, <2>1, <2>2, StepMoves
<1>6. ASSUME NEW y \in Handle, StartDataURL(y) PROVE y = x /\ stack'[i].cb \in URLCalls
  <2>1. PICK cb \in {"urlResponse", "urlDone"} : CallOf(ClientCall(y, cb))
    BY <1>6, StartDataURLIs
  <2>2. stack'[i].cb = cb /\ stack'[i].it = y
    BY <2>1 DEF CallOf, ClientCall
  <2>3. QED
    BY <2>1, <2>2 DEF IsCall, URLCalls
<1>7. ASSUME NEW y \in Handle, StartRefused(y) PROVE y = x /\ stack'[i].cb = "refused"
  <2>1. CallOf(ClientCall(y, "refused"))
    BY <1>7, StartRefusedIs
  <2>2. stack'[i].it = y /\ stack'[i].cb = "refused"
    BY <2>1 DEF CallOf, ClientCall
  <2>3. QED
    BY <2>2 DEF IsCall
<1>8. QED
  BY <1>1, <1>2, <1>3, <1>4, <1>5, <1>6, <1>7, WhileStarting

LEMMA RefusedLastKept ==
  ASSUME IInv, IInv', Stacked, Queued, RefusedLast, \A h \in Handle : BracketOf(h),
         Unbroken({"refused"}), Unbroken({"refused"})', [Next]_vars
  PROVE  RefusedLast'
<1>1. SUFFICES ASSUME NEW i \in 1..Height', Refused(stack'[i])
               PROVE  i = Height' /\ jobs' # <<>> /\ Last(jobs') = stack'[i].it /\ stack'[i].it \notin open'
  BY DEF RefusedLast
<1>2. stack'[i].at \in {"client", "transfer"} /\ stack'[i].at = "client" /\ stack'[i].cb = "refused"
  BY <1>1 DEF Refused
<1>3. CASE i \in 1..Height /\ stack'[i].at = stack[i].at /\ stack'[i].it = stack[i].it
            /\ (stack[i].at = "client" => stack'[i].cb = stack[i].cb)
  <2>1. Refused(stack[i])
    BY <1>2, <1>3 DEF Refused
  <2>2. i = Height /\ stack # <<>> /\ Top = stack[i] /\ Height \in Nat
    BY <1>3, <2>1, StackTypes DEF RefusedLast
  <2>3. TopAt("client") /\ Top.cb = "refused" /\ ~Top.brk
    BY <1>3, <2>1, <2>2 DEF TopAt, Refused, Unbroken, Brk
  <2>4. CASE ReturnFromRefused
    <3>1. stack' = Return
      BY <2>4 DEF ReturnFromRefused
    <3>2. Height' = Height - 1
      BY <2>2, <3>1, ReturnMoves
    <3>3. QED
      BY <1>1, <2>2, <3>2
  <2>5. CASE Break
    <3>1. stack' = Becomes([Top EXCEPT !.brk = TRUE])
      BY <2>5 DEF Break
    <3>2. Height' = Height /\ stack'[Height].at = "client" /\ stack'[Height].cb = "refused" /\ stack'[Height].brk
      BY <2>3, <3>1, BrkSteps
    <3>3. QED
      BY <1>1, <2>2, <3>2 DEF Unbroken, Brk
  <2>6. CASE UNCHANGED <<stack, jobs, info, open, running>>
    <3>1. Height' = Height /\ stack' = stack /\ jobs' = jobs /\ open' = open
      BY <2>6 DEF Height
    <3>2. QED
      BY <2>1, <2>2, <3>1 DEF RefusedLast
  <2>7. QED
    BY <2>3, <2>4, <2>5, <2>6, WhileRefused
<1>4. CASE NewOnTop(i)
  <2>1. i = Height' /\ i = Height + 1
    BY <1>1, <1>4, NewRefusal
  <2>2. PICK x \in Handle : Taken(x) /\ IsCall(stack'[i], x, Opening)
    BY <1>1, <1>4, NewRefusal
  <2>3. ~Touched(x)
    BY <2>2, TakenIs
  <2>4. x \notin open
    BY <2>3 DEF BracketOf, Touched
  <2>5. StartRefused(x) /\ stack'[i].it = x
    BY <1>1, <1>2, <2>1, <2>2, OpeningStarts DEF URLCalls, IsCall
  <2>6. jobs' # <<>> /\ Last(jobs') = x /\ open' = open
    BY <2>5, StartedJob
  <2>7. QED
    BY <2>1, <2>4, <2>5, <2>6
<1>5. QED
  BY <1>2, <1>3, <1>4, NextFrames

LEMMA BracketStarts ==
  ASSUME IInv, IInv', Stacked, Queued, [Next]_vars, NEW x \in Handle, BracketOf(x),
         StartJob(x) \/ StartRefused(x)
  PROVE  BracketOf(x)'
<1>1. /\ ~Touched(x) /\ open' = open /\ InJobs(x)'
      /\ info'[x].state = "Init" /\ ~info'[x].inited /\ ~info'[x].shut
  BY StartedJob
<1>2. x \notin open'
  BY <1>1 DEF BracketOf, Touched
<1>3. ASSUME NEW i \in 1..Height', stack'[i].at = "transfer", stack'[i].it = x PROVE FALSE
  <2>1. CASE i \in 1..Height /\ stack[i].at = "transfer" /\ stack[i].it = x
    BY <1>1, <2>1 DEF Touched, About
  <2>2. CASE CallTransfer(x)
    BY <1>1, <2>2 DEF CallTransfer, AtState, AtJob, Touched
  <2>3. QED
    BY <1>3, <2>1, <2>2, NextFrames, NewTransfers
<1>4. QED
  BY <1>1, <1>2, <1>3 DEF BracketOf

LEMMA InterruptedAnswers ==
  ASSUME IInv, Stacked, Suspended, stack # <<>>, Top.at # "transfer", NEW i \in 1..Height,
         stack[i].at = "transfer", NEW h \in Handle, stack[i].it = h, InJobs(h), ~rh[h].cancelled
  PROVE  /\ i + 1 \in 1..Height /\ IsCall(stack[i + 1], h, Answer)
         /\ info[h].state = "Transfer"
<1>1. Height \in Nat /\ Top = stack[Height]
  BY StackTypes
<1>2. i + 1 \in 2..Height /\ i + 1 \in 1..Height
  BY <1>1
<1>3. CalledBy(stack[(i + 1) - 1], stack[i + 1])
  BY <1>2 DEF Stacked
<1>4. IsCall(stack[i + 1], h, Answer)
  BY <1>1, <1>3 DEF CalledBy, IsCall, Answer, Brk
<1>5. QED
  BY <1>2, <1>4 DEF Suspended, Answering

LEMMA BracketWorks ==
  ASSUME IInv, IInv', Stacked, Suspended, [Next]_vars, NEW x \in Handle, BracketOf(x), CallHandler(x)
  PROVE  BracketOf(x)'
<1>1. PICK s \in {"Init", "Connect", "Disconnect", "Shutdown"}, r \in [ok : BOOLEAN, complete : BOOLEAN] :
        /\ AtState(x, s) /\ Returned(x, s, r)
        /\ open' = IF s = "Init" /\ r.ok THEN open \cup {x}
                   ELSE IF s = "Shutdown" THEN open \ {x} ELSE open
  BY DEF CallHandler
<1>2. InJobs(x) /\ info[x].state = s /\ (InJobs(x)' <=> InJobs(x))
  BY <1>1 DEF CallHandler, AtState, AtJob, InJobs
<1>3. /\ info'[x].inited <=> info[x].inited \/ (s = "Init" /\ r.ok)
      /\ info'[x].shut <=> info[x].shut \/ (s = "Shutdown" /\ r.ok)
      /\ info'[x].state = IF ~r.ok \/ (r.complete /\ s = "Shutdown") THEN "Remove"
                          ELSE IF r.complete THEN Successor[s] ELSE info[x].state
  BY <1>1, ReturnedBy
<1>4. /\ s = "Init" => Successor[s] = "Connect"
      /\ s = "Connect" => Successor[s] = "Transfer"
      /\ s = "Disconnect" => Successor[s] = "Shutdown"
  BY DEF Successor
<1>5. s \in {"Connect", "Disconnect"} => x \in open
  BY <1>2 DEF BracketOf
<1>6. (x \in open => InJobs(x) /\ info[x].inited /\ ~info[x].shut)'
  <2>1. CASE s = "Init"
    <3>1. ~info[x].shut
      BY <1>2, <2>1 DEF BracketOf
    <3>2. QED
      BY <1>1, <1>2, <1>3, <2>1, <3>1 DEF BracketOf
  <2>2. CASE s # "Init"
    BY <1>1, <1>2, <1>3, <2>2 DEF BracketOf
  <2>3. QED
    BY <2>1, <2>2
<1>7. (InJobs(x) /\ info[x].state \in {"Connect", "Transfer", "Disconnect"} => x \in open)'
  BY <1>1, <1>2, <1>3, <1>4, <1>5
<1>8. (InJobs(x) /\ info[x].shut => info[x].state \in {"Shutdown", "Remove"})'
  <2>1. s # "Shutdown" => ~info[x].shut
    BY <1>2 DEF BracketOf
  <2>2. QED
    BY <1>2, <1>3, <2>1
<1>9. ASSUME NEW i \in 1..Height', stack'[i].at = "transfer", stack'[i].it = x, InJobs(x)' PROVE x \in open'
  <2>1. CASE s # "Shutdown"
    <3>1. x \in open => x \in open'
      BY <1>1, <2>1
    <3>2. QED
      BY <1>2, <1>9, <3>1, TransferNamesOpen
  <2>2. CASE s = "Shutdown"
    <3>1. i \in 1..Height /\ stack[i].at = "transfer" /\ stack[i].it = x
      <4>1. ~CallTransfer(x)
        BY <1>2, <2>2 DEF CallTransfer, AtState
      <4>2. QED
        BY <1>9, <4>1, NextFrames, NewTransfers
    <3>2. TopAt("run") /\ ~rh[x].cancelled
      BY <1>1 DEF AtState, AtJob
    <3>3. QED
      BY <1>2, <2>2, <3>1, <3>2, InterruptedAnswers DEF TopAt
  <2>3. QED
    BY <2>1, <2>2
<1>10. QED
  BY <1>6, <1>7, <1>8, <1>9 DEF BracketOf

LEMMA BracketEnds ==
  ASSUME IInv, IInv', Stacked, [Next]_vars, NEW x \in Handle, BracketOf(x), TransferEnds(x)
  PROVE  BracketOf(x)'
<1>1. PICK r : Returned(x, "Transfer", r)
  BY DEF TransferEnds
<1>2. TopAt("transfer") /\ Top.it = x /\ InJobs(x) /\ UNCHANGED <<jobs, open>>
  BY DEF TransferEnds, hist
<1>3. x \in open
  BY <1>2, TopTypes DEF TopAt, BracketOf
<1>4. /\ info'[x].inited <=> info[x].inited
      /\ info'[x].shut <=> info[x].shut
  BY <1>1, ReturnedBy
<1>5. InJobs(x)' /\ x \in open' /\ info'[x].inited /\ ~info'[x].shut
  BY <1>2, <1>3, <1>4 DEF BracketOf, InJobs
<1>6. QED
  BY <1>5 DEF BracketOf

LEMMA BracketKept ==
  ASSUME IInv, IInv', Stacked, Queued, Suspended, RefusedLast, [Next]_vars, NEW h \in Handle, BracketOf(h)
  PROVE  BracketOf(h)'
<1>1. CASE Rests
  BY <1>1, BracketRests DEF Rests, InJobs
<1>2. ASSUME ~InJobs(h)', h \notin open' PROVE BracketOf(h)'
  BY <1>2 DEF BracketOf
<1>3. ASSUME InJobs(h)' <=> InJobs(h), h \in open' <=> h \in open, info'[h] = info[h] PROVE BracketOf(h)'
  BY <1>3, BracketRests DEF JobRests
<1>4. CASE ReturnFromRefused
  BY <1>2, <1>3, <1>4, RefusedLeaves
<1>5. ASSUME NEW x \in Handle, StartJob(x) \/ StartRefused(x) PROVE BracketOf(h)'
  <2>1. CASE x = h
    BY <1>5, <2>1, BracketStarts
  <2>2. CASE x # h
    <3>1. (InJobs(h)' <=> InJobs(h)) /\ (h \in open' <=> h \in open) /\ info'[h] = info[h]
      BY <1>5, <2>2, StartedJob
    <3>2. QED
      BY <1>3, <3>1
  <2>3. QED
    BY <2>1, <2>2
<1>6. ASSUME NEW x \in Handle, CallHandler(x) PROVE BracketOf(h)'
  <2>1. CASE x = h
    BY <1>6, <2>1, BracketWorks
  <2>2. CASE x # h
    <3>1. info'[h] = info[h] /\ (InJobs(h)' <=> InJobs(h)) /\ (h \in open' <=> h \in open)
      BY <1>6, <2>2, ReturnedBy DEF CallHandler, InJobs
    <3>2. QED
      BY <1>3, <3>1
  <2>3. QED
    BY <2>1, <2>2
<1>7. ASSUME NEW x \in Handle, TransferEnds(x) PROVE BracketOf(h)'
  <2>1. CASE x = h
    BY <1>7, <2>1, BracketEnds
  <2>2. CASE x # h
    <3>1. info'[h] = info[h] /\ (InJobs(h)' <=> InJobs(h)) /\ (h \in open' <=> h \in open)
      BY <1>7, <2>2, ReturnedBy DEF TransferEnds, InJobs, hist
    <3>2. QED
      BY <1>3, <3>1
  <2>3. QED
    BY <2>1, <2>2
<1>8. ASSUME NEW x \in Handle, RemoveJob(x) PROVE BracketOf(h)'
  <2>1. CASE x = h
    <3>1. ~InJobs(h)' /\ open' = IF info[h].inited /\ ~info[h].shut THEN open \ {h} ELSE open
      BY <1>8, <2>1, RemovedJob
    <3>2. h \notin open'
      BY <3>1 DEF BracketOf
    <3>3. QED
      BY <1>2, <3>1, <3>2
  <2>2. CASE x # h
    <3>1. info'[h] = info[h] /\ (InJobs(h)' <=> InJobs(h)) /\ (h \in open' <=> h \in open)
      BY <1>8, <2>2, RemovedJob
    <3>2. QED
      BY <1>3, <3>1
  <2>3. QED
    BY <2>1, <2>2
<1>9. QED
  BY <1>1, <1>4, <1>5, <1>6, <1>7, <1>8, NextRests DEF Changes

(* As long as no client of a refused load stops at a breakpoint, a handler   *)
(* that was asked to begin is asked to end, and works only in between.       *)
THEOREM JobsBracketed == Spec /\ []Unbroken({"refused"}) => []Bracket
<1>1. Init => Bracket
  BY DEF Init, Bracket, RefusedLast, BracketOf, Height, InJobs, NewJob
<1>2. ASSUME IInv, IInv', Stacked, Queued, Suspended, Unbroken({"refused"}), Unbroken({"refused"})',
             Bracket, [Next]_vars
      PROVE  Bracket'
  <2>1. RefusedLast'
    BY <1>2, RefusedLastKept DEF Bracket
  <2>2. \A h \in Handle : BracketOf(h)'
    BY <1>2, BracketKept DEF Bracket
  <2>3. QED
    BY <2>1, <2>2 DEF Bracket
<1>3. QED
  BY <1>1, <1>2, Invariance, CallersRight, QueueKept, InterruptedLoadsRest, PTL DEF Spec

THEOREM HandlersBracketed == Spec /\ []Unbroken({"refused"}) => []HandlerBracket
<1>1. Bracket => HandlerBracket
  BY DEF Bracket, BracketOf, HandlerBracket
<1>2. QED
  BY <1>1, JobsBracketed, PTL

-----------------------------------------------------------------------------
(* What stays on the stack: a client that has not returned.                  *)

LEMMA NextForms ==
  ASSUME [Next]_vars
  PROVE  \/ stack' = stack
         \/ \E g : stack' = WithCall(g)
         \/ stack # <<>> /\ \E f : stack' = Becomes(f)
         \/ stack # <<>> /\ \E f, g : stack' = SteppedCalling(f, g)
         \/ stack # <<>> /\ stack' = Return
         \/ \E h \in Handle : TransferEnds(h)
<1>1. CASE UNCHANGED vars \/ LoopSteps
  BY <1>1 DEF vars, LoopSteps, StartDone, RestartDone, RunDone, RemoveDone, ProcessJobsDone,
       HandlerRemoved, PageDeleted, TopAt
<1>2. CASE Environment
  <2>1. ASSUME NEW h \in Handle, HeadersReceived(h)
        PROVE  stack' = stack \/ \E g : stack' = WithCall(g)
    BY <2>1 DEF HeadersReceived, WithCall
  <2>2. CASE Break \/ Resume
    BY <2>2 DEF Break, Resume, ScriptRuns, TopAt
  <2>3. CASE Tick \/ TimerFires \/ \E v \in View : RunScript(v)
    BY <2>3 DEF Tick, TimerFires, RunScript, WithCall
  <2>4. ASSUME NEW S, NEW src, NEW v, Purge(S, src, v) PROVE \E g : stack' = WithCall(g)
    BY <2>4 DEF Purge, WithCall
  <2>5. QED
    BY <1>2, <2>1, <2>2, <2>3, <2>4 DEF Environment, ShutdownView, RemoveTransportHandler, Add, Cancel
<1>3. CASE ClientReturns
  BY <1>3 DEF ClientReturns, ReturnFromResponse, ReturnFromHeaders, ReturnFromCall, ReturnFromRefused,
     ReturnFromVerdict, NextURLCall, ReturnFromURLDone, Returning, TopAt
<1>4. ASSUME NEW h \in Handle, JobSteps(h)
      PROVE  \/ stack' = stack
             \/ \E g : stack' = WithCall(g)
             \/ stack # <<>> /\ \E f : stack' = Becomes(f)
             \/ stack # <<>> /\ \E f, g : stack' = SteppedCalling(f, g)
  <2>1. CASE StartDataURL(h) \/ StartJob(h) \/ StartRefused(h)
    <3>1. stack # <<>>
      BY <2>1 DEF StartDataURL, StartJob, StartRefused, Starting, TopAt
    <3>2. \E f : Started = Becomes(f)
      BY DEF Started
    <3>3. stack' = Started \/ \E g : stack' = Append(Started, g)
      BY <2>1 DEF StartDataURL, StartJob, StartRefused
    <3>4. QED
      BY <3>1, <3>2, <3>3 DEF SteppedCalling
  <2>2. CASE AdvanceSteps(h)
    BY <2>2 DEF AdvanceSteps, CondemnCancelled, SkipPaused, CallHandler, CondemnAgain, KeepJob, RemoveJob,
       AtState, AtJob, AtRemove, TopAt, Advance
  <2>3. CASE NotifyJobFailed(h)
    BY <2>3 DEF NotifyJobFailed, AtRemove, TopAt, SteppedCalling
  <2>4. CASE CallTransfer(h) \/ PageCancels(h)
    BY <2>4 DEF CallTransfer, PageCancels, WithCall
  <2>5. QED
    BY <1>4, <2>1, <2>2, <2>3, <2>4 DEF JobSteps, AdvanceSteps
<1>5. ASSUME NEW h \in Handle, TransferSteps(h), ~TransferEnds(h)
      PROVE  stack # <<>> /\ ((\E f : stack' = Becomes(f)) \/ \E f, g : stack' = SteppedCalling(f, g))
  BY <1>5 DEF TransferSteps, DataReceived, DataDone, InTransfer, TopAt, SteppedCalling
<1>6. QED
  BY <1>1, <1>2, <1>3, <1>4, <1>5 DEF Next

LEMMA WhileClient ==
  ASSUME [Next]_vars, TopAt("client")
  PROVE  ClientReturns \/ stack' = stack \/ Break \/ Resume \/ \E g : stack' = WithCall(g)
<1>1. ~Idle /\ Top.at = "client"
  BY DEF TopAt, Idle
<1>2. ASSUME NEW x \in Handle PROVE ~JobSteps(x) /\ ~TransferSteps(x)
  BY <1>1 DEF JobSteps, TransferSteps, StartDataURL, StartJob, StartRefused, CondemnCancelled,
     SkipPaused, CallHandler, CallTransfer, CondemnAgain, KeepJob, NotifyJobFailed, RemoveJob,
     PageCancels, DeletingPage, Starting, AtState, AtJob, AtRemove, TopAt, InTransfer,
     DataReceived, DataDone, TransferEnds
<1>3. ~LoopSteps
  BY <1>1 DEF LoopSteps, StartDone, RestartDone, RunDone, RemoveDone, ProcessJobsDone,
     HandlerRemoved, PageDeleted, TopAt
<1>4. CASE Environment
  <2>1. ASSUME NEW h \in Handle, HeadersReceived(h)
        PROVE  stack' = stack \/ \E g : stack' = WithCall(g)
    BY <2>1 DEF HeadersReceived, WithCall
  <2>3. CASE Tick \/ TimerFires
    BY <2>3 DEF Tick, TimerFires, WithCall
  <2>5. QED
    BY <1>1, <1>4, <2>1, <2>3 DEF Environment, ShutdownView, RemoveTransportHandler, Purge, RunScript, Add, Cancel
<1>6. QED
  BY <1>2, <1>3, <1>4 DEF Next, vars

LEMMA BelowStays ==
  ASSUME IInv, IInv', Stacked, [Next]_vars, NEW i \in 1..(Height - 1)
  PROVE  \/ i \in 1..Height' /\ stack'[i] = stack[i]
         \/ i = Height - 1 /\ stack[i].at = "run" /\ \E h \in Handle : TransferEnds(h)
<1>1. Height \in Nat /\ Height' \in Nat /\ stack # <<>> /\ i \in 1..Height
  BY StackTypes, NextTypes
<1>2. ASSUME Agree(Height - 1), Height' \in {Height - 1, Height, Height + 1}
      PROVE  i \in 1..Height' /\ stack'[i] = stack[i]
  BY <1>1, <1>2 DEF Agree
<1>3. CASE stack' = stack
  BY <1>1, <1>3 DEF Height
<1>4. ASSUME NEW g, stack' = WithCall(g) PROVE i \in 1..Height' /\ stack'[i] = stack[i]
  BY <1>1, <1>4, CallMoves DEF Agree
<1>5. ASSUME NEW f, stack' = Becomes(f) PROVE i \in 1..Height' /\ stack'[i] = stack[i]
  BY <1>1, <1>2, <1>5, StepMoves
<1>6. ASSUME NEW f, NEW g, stack' = SteppedCalling(f, g) PROVE i \in 1..Height' /\ stack'[i] = stack[i]
  BY <1>1, <1>2, <1>6, StepCallMoves
<1>7. CASE stack' = Return
  BY <1>1, <1>2, <1>7, ReturnMoves
<1>8. ASSUME NEW h \in Handle, TransferEnds(h)
      PROVE  \/ i \in 1..Height' /\ stack'[i] = stack[i]
             \/ i = Height - 1 /\ stack[i].at = "run"
  <2>1. Height > 1 /\ Under.at = "run" /\ Height' = Height - 1 /\ Agree(Height - 2)
    BY <1>8, TransferEndsIs
  <2>2. CASE i = Height - 1
    BY <2>1, <2>2 DEF Under
  <2>3. CASE i # Height - 1
    <3>1. i \in 1..(Height - 2)
      BY <1>1, <2>3
    <3>2. QED
      BY <1>1, <2>1, <3>1 DEF Agree
  <2>4. QED
    BY <2>2, <2>3
<1>9. QED
  BY <1>3, <1>4, <1>5, <1>6, <1>7, <1>8, NextForms

LEMMA ClientStays ==
  ASSUME IInv, IInv', Stacked, [Next]_vars, NEW i \in 1..Height, stack[i].at = "client",
         i = Height => ~ClientReturns
  PROVE  i \in 1..Height' /\ stack'[i].at = "client" /\ stack'[i].it = stack[i].it /\ stack'[i].cb = stack[i].cb
<1>1. Height \in Nat /\ Height' \in Nat /\ stack # <<>> /\ Top = stack[Height]
  BY StackTypes, NextTypes
<1>2. CASE i = Height
  <2>1. TopAt("client")
    BY <1>1, <1>2 DEF TopAt
  <2>2. CASE stack' = stack
    BY <2>2 DEF Height
  <2>3. ASSUME NEW g, stack' = WithCall(g)
        PROVE  i \in 1..Height' /\ stack'[i] = stack[i]
    BY <1>1, <2>3, CallMoves DEF Agree
  <2>4. CASE Break \/ Resume
    <3>1. PICK b \in BOOLEAN : stack' = Becomes([Top EXCEPT !.brk = b])
      BY <2>4 DEF Break, Resume
    <3>2. QED
      BY <1>1, <1>2, <2>1, <3>1, BrkSteps
  <2>5. QED
    BY <1>2, <2>1, <2>2, <2>3, <2>4, WhileClient
<1>3. CASE i # Height
  <2>1. i \in 1..(Height - 1)
    BY <1>1, <1>3
  <2>2. QED
    BY <2>1, BelowStays
<1>4. QED
  BY <1>2, <1>3

(* What becomes of a Transfer: its done is set by DataDone.                  *)
LEMMA WhileTransfer ==
  ASSUME [Next]_vars, TopAt("transfer")
  PROVE  \/ stack' = stack
         \/ \E h \in Handle : TransferEnds(h) \/ DataReceived(h) \/ \E result \in BOOLEAN : DataDone(h, result)
<1>1. ~Idle /\ ~AppRuns /\ Top.at = "transfer"
  BY DEF TopAt, Idle, AppRuns
<1>2. ASSUME NEW x \in Handle PROVE ~JobSteps(x)
  BY <1>1 DEF JobSteps, StartDataURL, StartJob, StartRefused, CondemnCancelled,
     SkipPaused, CallHandler, CallTransfer, CondemnAgain, KeepJob, NotifyJobFailed, RemoveJob,
     PageCancels, DeletingPage, Starting, AtState, AtJob, AtRemove, TopAt
<1>3. ~LoopSteps
  BY <1>1 DEF LoopSteps, StartDone, RestartDone, RunDone, RemoveDone, ProcessJobsDone,
     HandlerRemoved, PageDeleted, TopAt
<1>4. ~ClientReturns
  BY <1>1 DEF ClientReturns, ReturnFromResponse, ReturnFromHeaders, ReturnFromCall,
     ReturnFromVerdict, ReturnFromRefused, NextURLCall, ReturnFromURLDone, Returning, TopAt
<1>5. ~Environment
  BY <1>1 DEF Environment, Add, Cancel, HeadersReceived, RunScript, ShutdownView, Purge,
     Break, Resume, Tick, TimerFires, RemoveTransportHandler, ScriptRuns, TopAt
<1>6. QED
  BY <1>2, <1>3, <1>4, <1>5 DEF Next, vars, TransferSteps

IsTransfer(f, h) == f.at = "transfer" /\ f.it = h
DoneAs(result) == IF result THEN "ok" ELSE "bad"

LEMMA TransferGoesOn ==
  ASSUME IInv, IInv', Stacked, [Next]_vars, NEW h \in Handle,
         NEW i \in 1..Height', IsTransfer(stack'[i], h)
  PROVE  \/ CallTransfer(h) /\ i = Height + 1
         \/ /\ i \in 1..Height /\ IsTransfer(stack[i], h)
            /\ \/ stack'[i].done = stack[i].done
               \/ \E result \in BOOLEAN :
                    DataDone(h, result) /\ stack[i].done = "no" /\ stack'[i].done = DoneAs(result)
<1>1. Height \in Nat /\ Height' \in Nat
  BY StackTypes, NextTypes
<1>2. (i \in 1..Height /\ IsTransfer(stack[i], h)) \/ (CallTransfer(h) /\ i = Height + 1)
  BY NextFrames, NewTransfers DEF IsTransfer
<1>3. CASE i \in 1..(Height - 1) /\ IsTransfer(stack[i], h)
  <2>1. stack'[i] = stack[i]
    BY <1>3, BelowStays DEF IsTransfer
  <2>2. QED
    BY <1>1, <1>3, <2>1
<1>4. CASE i = Height /\ i \in 1..Height /\ IsTransfer(stack[i], h)
  <2>1. stack # <<>> /\ Top = stack[i] /\ TopAt("transfer") /\ Top.it = h
    BY <1>1, <1>4, StackTypes DEF TopAt, IsTransfer
  <2>2. Top \in TransferFrame
    BY <2>1, TransferOnTop
  <2>3. CASE stack' = stack
    BY <1>4, <2>3
  <2>4. ASSUME NEW x \in Handle, TransferEnds(x) PROVE FALSE
    BY <1>1, <1>4, <2>4, TransferEndsIs
  <2>5. ASSUME NEW f, stack' = Becomes(f) \/ \E g : stack' = SteppedCalling(f, g) PROVE stack'[i] = f
    BY <1>4, <2>1, <2>5, StepMoves, StepCallMoves
  <2>6. ASSUME NEW x \in Handle, DataReceived(x) PROVE stack'[i].done = stack[i].done
    <3> DEFINE f == [Top EXCEPT !.got = TRUE]
    <3>1. stack' = Becomes(f) \/ \E g : stack' = SteppedCalling(f, g)
      BY <2>6 DEF DataReceived, SteppedCalling
    <3>2. f.done = Top.done
      BY <2>2 DEF TransferFrame
    <3> HIDE DEF f
    <3>3. stack'[i] = f
      BY <2>5, <3>1
    <3>4. QED
      BY <2>1, <3>2, <3>3
  <2>7. ASSUME NEW x \in Handle, NEW result \in BOOLEAN, DataDone(x, result)
        PROVE  DataDone(h, result) /\ stack[i].done = "no" /\ stack'[i].done = DoneAs(result)
    <3> DEFINE d == DoneAs(result)
               f == [Top EXCEPT !.done = d]
    <3>1. stack' = Becomes(f) \/ \E g : stack' = SteppedCalling(f, g)
      BY <2>7 DEF DataDone, SteppedCalling, DoneAs
    <3>2. x = h /\ Top.done = "no"
      BY <2>1, <2>7 DEF DataDone, InTransfer
    <3>3. f.done = d
      BY <2>2 DEF TransferFrame
    <3> HIDE DEF f
    <3>4. stack'[i] = f
      BY <2>5, <3>1
    <3>5. QED
      BY <2>1, <2>7, <3>2, <3>3, <3>4
  <2>8. QED
    BY <1>4, <2>1, <2>3, <2>4, <2>6, <2>7, WhileTransfer
<1>5. QED
  BY <1>1, <1>2, <1>3, <1>4

-----------------------------------------------------------------------------
(* The references the manager holds.                                         *)

(* A data: URL is decoded on the spot and never becomes a job.               *)
DataApart ==
  /\ \A h \in Handle : InJobs(h) => KindOf[h] # "data"
  /\ \A i \in 1..Height, h \in Handle : IsCall(stack[i], h, URLCalls) => KindOf[h] = "data"

LEMMA MoreJobs ==
  ASSUME IInv, Queued, [Next]_vars, NEW h \in Handle, InJobs(h)'
  PROVE  InJobs(h) \/ StartJob(h) \/ StartRefused(h)
<1>1. CASE Break \/ Resume
  BY <1>1 DEF Break, Resume, InJobs
<1>2. CASE Effects
  <2>1. CASE Calmly(h) \/ Works(h)
    BY <2>1 DEF Calmly, Works
  <2>2. QED
    BY <1>2, <2>1 DEF Effects
<1>3. QED
  BY <1>1, <1>2, NextEffects

LEMMA DataApartKept ==
  ASSUME IInv, IInv', Stacked, Queued, DataApart, [Next]_vars PROVE DataApart'
<1>1. ASSUME NEW h \in Handle, InJobs(h)' PROVE KindOf[h] # "data"
  BY <1>1, MoreJobs DEF DataApart, StartJob, StartRefused, NoHandler
<1>2. ASSUME NEW i \in 1..Height', NEW h \in Handle, IsCall(stack'[i], h, URLCalls)
      PROVE  KindOf[h] = "data"
  <2>1. CASE i \in 1..Height /\ IsCall(stack[i], h, URLCalls)
    BY <2>1 DEF DataApart
  <2>2. CASE NewOnTop(i)
    <3>1. IsCall(stack'[i], h, Opening)
      BY <1>2 DEF IsCall, Opening
    <3>2. CASE Taken(h) /\ i = Height + 1
      <4>1. StartDataURL(h)
        BY <1>2, <3>1, <3>2, OpeningStarts DEF IsCall, URLCalls
      <4>2. QED
        BY <4>1 DEF StartDataURL
    <3>3. CASE i = Height /\ TopAt("client") /\ Top.it = h /\ Top.cb \in Opening
      <4>1. Follows(stack'[i]) \/ Height = Height + 1
        BY <2>2, <3>3 DEF NewOnTop
      <4>2. Height \in Nat
        BY StackTypes
      <4>3. Follows(stack'[i])
        BY <4>1, <4>2
      <4>4. Top.cb \in URLCalls
        BY <1>2, <4>3 DEF Follows, NewCall, IsCall, URLCalls
      <4>5. i \in 1..Height /\ IsCall(stack[i], h, URLCalls)
        BY <3>3, <4>4, TopTypes DEF TopAt, IsCall
      <4>6. QED
        BY <2>1, <4>5
    <3>4. QED
      BY <2>2, <3>1, <3>2, <3>3, NewOpens
  <2>3. QED
    BY <1>2, <2>1, <2>2, NextFrames DEF IsCall
<1>3. QED
  BY <1>1, <1>2 DEF DataApart

RefsRight(h) == refs[h] = IF Waiting(h) \/ InJobs(h) \/ Calling(h, URLCalls) THEN 1 ELSE 0

LEMMA CallingIs ==
  ASSUME IInv, IInv', NEW h, NEW cbs
  PROVE  /\ Calling(h, cbs) <=> \E i \in 1..Height : IsCall(stack[i], h, cbs)
         /\ Calling(h, cbs)' <=> \E i \in 1..Height' : IsCall(stack'[i], h, cbs')
BY StackTypes, NextTypes DEF Calling, IsCall

LEMMA ReturnsFromURL ==
  ASSUME ClientReturns, Top.cb \in URLCalls PROVE NextURLCall \/ ReturnFromURLDone
BY DEF ClientReturns, ReturnFromResponse, ReturnFromHeaders, ReturnFromCall,
     ReturnFromVerdict, ReturnFromRefused, Returning, URLCalls

LEMMA CallingStarts ==
  ASSUME IInv, IInv', Stacked, [Next]_vars, NEW h \in Handle, Calling(h, URLCalls)', ~StartDataURL(h)
  PROVE  Calling(h, URLCalls)
<1>1. PICK i \in 1..Height' : IsCall(stack'[i], h, URLCalls)
  BY CallingIs DEF URLCalls
<1>2. CASE i \in 1..Height /\ IsCall(stack[i], h, URLCalls)
  BY <1>2, CallingIs
<1>3. CASE NewOnTop(i)
  <2>1. IsCall(stack'[i], h, Opening)
    BY <1>1 DEF IsCall, Opening
  <2>2. Height \in Nat
    BY StackTypes
  <2>3. ~(Taken(h) /\ i = Height + 1)
    BY <1>1, <2>1, OpeningStarts DEF IsCall, URLCalls
  <2>4. i = Height /\ TopAt("client") /\ Top.it = h
    BY <1>3, <2>1, <2>3, NewOpens
  <2>5. Top.cb \in URLCalls
    BY <1>1, <1>3, <2>2, <2>4 DEF NewOnTop, Follows, NewCall, IsCall, URLCalls
  <2>6. i \in 1..Height /\ IsCall(stack[i], h, URLCalls)
    BY <2>4, <2>5, TopTypes DEF TopAt, IsCall
  <2>7. QED
    BY <1>2, <2>6
<1>4. QED
  BY <1>1, <1>2, <1>3, NextFrames DEF IsCall

LEMMA CallingGoesOn ==
  ASSUME IInv, IInv', Stacked, [Next]_vars, NEW h \in Handle, Calling(h, URLCalls),
         ~(ReturnFromURLDone /\ Top.it = h)
  PROVE  Calling(h, URLCalls)'
<1>1. PICK i \in 1..Height : IsCall(stack[i], h, URLCalls)
  BY CallingIs
<1>2. CASE ~(i = Height /\ ClientReturns)
  <2>1. i \in 1..Height' /\ IsCall(stack'[i], h, URLCalls)
    BY <1>1, <1>2, ClientStays DEF IsCall
  <2>2. QED
    BY <2>1, CallingIs DEF URLCalls
<1>3. CASE i = Height /\ ClientReturns
  <2>1. Top = stack[i] /\ Top.it = h /\ Top.cb \in URLCalls
    BY <1>1, <1>3, StackTypes DEF IsCall
  <2>2. NextURLCall
    BY <1>3, <2>1, ReturnsFromURL
  <2>3. PICK cb \in URLCalls : CallsNext(cb)
    BY <2>2, NextURLCallIs DEF URLCalls
  <2>4. stack'[Height] = ClientCall(h, cb) /\ Height \in 1..Height'
    BY <2>1, <2>3, CallsOn, StackTypes DEF CallsNext
  <2>5. IsCall(stack'[Height], h, URLCalls)
    BY <2>4 DEF IsCall, ClientCall
  <2>6. QED
    BY <2>4, <2>5, CallingIs DEF URLCalls
<1>4. QED
  BY <1>2, <1>3

LEMMA DerefIs ==
  ASSUME IInv, NEW x \in Handle, refs' = [refs EXCEPT ![x] = @ - 1]
  PROVE  refs'[x] = refs[x] - 1 /\ \A h \in Handle \ {x} : refs'[h] = refs[h]
BY DEF IInv, DataOK

(* The one handle whose references a step changes.                           *)
LEMMA OneRef ==
  ASSUME \A h \in Handle : RefsRight(h), NEW x \in Handle, RefsRight(x)',
         \A h \in Handle \ {x} : /\ refs'[h] = refs[h] /\ (Waiting(h)' <=> Waiting(h))
                                 /\ (InJobs(h)' <=> InJobs(h)) /\ (Calling(h, URLCalls)' <=> Calling(h, URLCalls))
  PROVE  \A h \in Handle : RefsRight(h)'
<1>1. ASSUME NEW h \in Handle \ {x} PROVE RefsRight(h)'
  BY <1>1 DEF RefsRight
<1>2. QED
  BY <1>1

LEMMA WaitingIs ==
  ASSUME IInv, Queued, NEW x \in Handle, Waiting(x)
  PROVE  ~Touched(x) /\ ~InJobs(x) /\ ~Calling(x, URLCalls)
<1>1. ~Touched(x)
  BY DEF Queued, Begun, Untouched
<1>2. ~Calling(x, URLCalls)
  BY <1>1, StackTypes DEF Calling, Touched, About
<1>3. QED
  BY <1>1, <1>2 DEF Touched

LEMMA AddRefs ==
  ASSUME IInv, Queued, NEW x \in Handle, Add(x), \A h \in Handle : RefsRight(h)
  PROVE  \A h \in Handle : RefsRight(h)'
<1>1. ~Waiting(x) /\ ~Touched(x)
  BY DEF Queued, Begun, Untouched, Add
<1>2. ~InJobs(x) /\ ~Calling(x, URLCalls)
  BY <1>1, StackTypes DEF Calling, Touched, About
<1>3. refs[x] = 0
  BY <1>1, <1>2 DEF RefsRight
<1>4. pending \in Seq(Handle) /\ pending' = Append(pending, x) /\ refs' = [refs EXCEPT ![x] = @ + 1]
      /\ UNCHANGED <<jobs, stack>> /\ refs \in [Handle -> Int]
  BY DEF Add, IInv, DataOK
<1>5. /\ Len(pending') = Len(pending) + 1 /\ pending'[Len(pending) + 1] = x
      /\ \A i \in 1..Len(pending) : pending'[i] = pending[i]
  BY <1>4, AppendIs
<1>6. DOMAIN pending = 1..Len(pending) /\ DOMAIN pending' = 1..(Len(pending) + 1) /\ Len(pending) \in Nat
  BY <1>4
<1>7. \A h : Waiting(h)' <=> Waiting(h) \/ h = x
  BY <1>5, <1>6 DEF Waiting
<1>8. \A h : (InJobs(h)' <=> InJobs(h)) /\ (Calling(h, URLCalls)' <=> Calling(h, URLCalls))
  BY <1>4 DEF InJobs, Calling, URLCalls
<1>9. refs'[x] = 1 /\ \A h \in Handle \ {x} : refs'[h] = refs[h]
  BY <1>3, <1>4
<1>10. RefsRight(x)'
  BY <1>7, <1>9 DEF RefsRight
<1>11. QED
  BY <1>7, <1>8, <1>9, <1>10, OneRef

LEMMA CancelHandleRefs ==
  ASSUME IInv, Queued, NEW x \in Handle, CancelHandle(x), UNCHANGED <<jobs, stack>>,
         \A h \in Handle : RefsRight(h)
  PROVE  \A h \in Handle : RefsRight(h)'
<1>1. \A h : (InJobs(h)' <=> InJobs(h)) /\ (Calling(h, URLCalls)' <=> Calling(h, URLCalls))
  BY DEF InJobs, Calling, URLCalls
<1>2. CASE UNCHANGED <<pending, refs>>
  BY <1>1, <1>2 DEF RefsRight, Waiting
<1>3. ASSUME NEW i \in DOMAIN pending, pending[i] = x, pending' = RemoveAt(pending, i),
             refs' = [refs EXCEPT ![x] = @ - 1]
      PROVE  \A h \in Handle : RefsRight(h)'
  <2>1. pending \in Seq(Handle) /\ Distinct(pending) /\ i \in 1..Len(pending)
    BY <1>3, QueueIs DEF IInv, DataOK, Queued
  <2>2. \A h : In(h, pending') <=> In(h, pending) /\ h # pending[i]
    BY <1>3, <2>1, RemoveAtDistinct
  <2>3. \A h : Waiting(h)' <=> Waiting(h) /\ h # x
    BY <1>3, <2>2, QueueIs, NextQueueIs
  <2>4. Waiting(x)
    BY <1>3 DEF Waiting
  <2>5. ~InJobs(x) /\ ~Calling(x, URLCalls)
    BY <2>4, WaitingIs
  <2>6. refs'[x] = refs[x] - 1 /\ \A h \in Handle \ {x} : refs'[h] = refs[h]
    BY <1>3, DerefIs
  <2>7. RefsRight(x)'
    BY <1>1, <2>3, <2>4, <2>5, <2>6 DEF RefsRight
  <2>8. QED
    BY <1>1, <2>3, <2>6, <2>7, OneRef
<1>4. QED
  BY <1>2, <1>3 DEF CancelHandle

LEMMA StartRefs ==
  ASSUME IInv, IInv', Stacked, Queued, [Next]_vars, NEW x \in Handle,
         StartDataURL(x) \/ StartJob(x) \/ StartRefused(x), \A h \in Handle : RefsRight(h)
  PROVE  \A h \in Handle : RefsRight(h)'
<1>1. pending \in Seq(Handle) /\ pending # <<>> /\ Distinct(pending) /\ pending' = Tail(pending)
      /\ x = Head(pending) /\ Taken(x) /\ UNCHANGED refs
  BY QueueIs DEF IInv, DataOK, Queued, StartDataURL, StartJob, StartRefused, MayStart, Taken
<1>2. \A h : In(h, pending') <=> In(h, pending) /\ h # x
  BY <1>1, TailDistinct
<1>3. \A h : Waiting(h)' <=> Waiting(h) /\ h # x
  BY <1>2, QueueIs, NextQueueIs
<1>4. Waiting(x)
  <2>1. 1 \in DOMAIN pending /\ pending[1] = x
    BY <1>1
  <2>2. QED
    BY <2>1 DEF Waiting
<1>5. refs[x] = 1 /\ ~InJobs(x) /\ ~Calling(x, URLCalls)
  BY <1>4, WaitingIs DEF RefsRight
<1>6. ASSUME NEW h \in Handle \ {x} PROVE InJobs(h)' <=> InJobs(h)
  BY <1>6, StartedJob DEF StartDataURL, InJobs
<1>7. ASSUME NEW h \in Handle \ {x} PROVE Calling(h, URLCalls)' <=> Calling(h, URLCalls)
  <2>1. ~ClientReturns
    BY <1>1 DEF Taken, Starting, TopAt, ClientReturns, ReturnFromResponse, ReturnFromHeaders, ReturnFromCall,
     ReturnFromVerdict, ReturnFromRefused, NextURLCall, ReturnFromURLDone, Returning
  <2>2. ~StartDataURL(h)
    BY <1>1, <1>7 DEF StartDataURL
  <2>3. QED
    BY <1>7, <2>1, <2>2, CallingStarts, CallingGoesOn DEF ClientReturns
<1>8. InJobs(x)' \/ Calling(x, URLCalls)'
  <2>1. CASE StartDataURL(x)
    <3>1. PICK cb \in {"urlResponse", "urlDone"} : CallOf(ClientCall(x, cb))
      BY <2>1, StartDataURLIs
    <3>2. Height + 1 \in 1..Height' /\ stack'[Height + 1] = ClientCall(x, cb)
      BY <3>1 DEF CallOf
    <3>3. IsCall(stack'[Height + 1], x, URLCalls)
      BY <3>2 DEF IsCall, ClientCall, URLCalls
    <3>4. QED
      BY <3>2, <3>3, CallingIs DEF URLCalls
  <2>2. QED
    BY <2>1, StartedJob
<1>9. RefsRight(x)'
  BY <1>1, <1>5, <1>8 DEF RefsRight
<1>10. QED
  BY <1>1, <1>3, <1>6, <1>7, <1>9, OneRef

(* A job leaves the list.                                                    *)
LEMMA LeavingRefs ==
  ASSUME IInv, IInv', Stacked, Queued, DataApart, [Next]_vars, NEW x \in Handle, InJobs(x),
         \A h \in Handle : InJobs(h)' <=> InJobs(h) /\ h # x,
         refs' = [refs EXCEPT ![x] = @ - 1], UNCHANGED pending, ~ReturnFromURLDone,
         \A h \in Handle : RefsRight(h)
  PROVE  \A h \in Handle : RefsRight(h)'
<1>1. ASSUME NEW h \in Handle PROVE ~StartDataURL(h)
  <2>1. SUFFICES ASSUME StartDataURL(h) PROVE FALSE
    OBVIOUS
  <2>2. pending \in Seq(Handle) /\ pending # <<>> /\ pending' = Tail(pending)
    BY <2>1 DEF StartDataURL, MayStart, IInv, DataOK
  <2>3. Len(pending') # Len(pending)
    BY <2>2
  <2>4. QED
    BY <2>3
<1>2. ASSUME NEW h \in Handle PROVE Calling(h, URLCalls)' <=> Calling(h, URLCalls)
  BY <1>1, <1>2, CallingStarts, CallingGoesOn
<1>3. \A h \in Handle : Waiting(h)' <=> Waiting(h)
  BY DEF Waiting
<1>4. ~Calling(x, URLCalls)
  BY CallingIs DEF DataApart
<1>5. ~Waiting(x) /\ refs[x] = 1
  BY DEF RefsRight, Queued, QueuedOnce
<1>6. refs'[x] = refs[x] - 1 /\ \A h \in Handle \ {x} : refs'[h] = refs[h]
  BY DerefIs
<1>7. RefsRight(x)'
  BY <1>2, <1>3, <1>4, <1>5, <1>6 DEF RefsRight
<1>8. QED
  BY <1>2, <1>3, <1>6, <1>7, OneRef

LEMMA URLDoneRefs ==
  ASSUME IInv, IInv', Stacked, Queued, Opened, DataApart, [Next]_vars, ReturnFromURLDone,
         \A h \in Handle : RefsRight(h)
  PROVE  \A h \in Handle : RefsRight(h)'
<1>1. /\ TopAt("client") /\ Top.cb = "urlDone" /\ stack # <<>> /\ Top.at = "client"
      /\ refs' = [refs EXCEPT ![Top.it] = @ - 1] /\ stack' = Return /\ UNCHANGED <<pending, jobs>>
  BY DEF ReturnFromURLDone, Returning, TopAt
<1>2. PICK x \in Handle : Top.it = x
  BY <1>1, ClientOnTop
<1>3. Height \in Nat /\ Height \in 1..Height /\ Top = stack[Height]
  BY <1>1, TopTypes
<1>4. IsCall(stack[Height], x, URLCalls) /\ IsCall(stack[Height], x, Opening)
  BY <1>1, <1>2, <1>3 DEF IsCall, Opening, URLCalls
<1>5. Calling(x, URLCalls) /\ Touched(x) /\ ~InJobs(x)
  BY <1>3, <1>4, CallingIs DEF Touched, About, IsCall, DataApart
<1>6. ~Waiting(x) /\ refs[x] = 1
  BY <1>5, WaitingIs DEF RefsRight
<1>7. ~Calling(x, URLCalls)'
  <2>1. SUFFICES ASSUME NEW i \in 1..Height', IsCall(stack'[i], x, URLCalls) PROVE FALSE
    BY CallingIs DEF URLCalls
  <2>2. i \in 1..(Height - 1) /\ stack'[i] = stack[i]
    BY <1>1, ReturnMoves DEF Agree
  <2>3. i \in 1..Height /\ About(stack[i], x)
    BY <1>3, <2>1, <2>2 DEF About, IsCall
  <2>4. Height <= i
    BY <1>3, <1>4, <2>3 DEF Opened
  <2>5. QED
    BY <1>3, <2>2, <2>4
<1>8. ASSUME NEW h \in Handle \ {x} PROVE Calling(h, URLCalls)' <=> Calling(h, URLCalls)
  <2>1. ~StartDataURL(h)
    BY <1>1 DEF StartDataURL, Starting, TopAt
  <2>2. QED
    BY <1>2, <1>8, <2>1, CallingStarts, CallingGoesOn
<1>9. \A h \in Handle : (Waiting(h)' <=> Waiting(h)) /\ (InJobs(h)' <=> InJobs(h))
  BY <1>1 DEF Waiting, InJobs
<1>10. refs'[x] = refs[x] - 1 /\ \A h \in Handle \ {x} : refs'[h] = refs[h]
  BY <1>1, <1>2, DerefIs
<1>11. RefsRight(x)'
  BY <1>5, <1>6, <1>7, <1>9, <1>10 DEF RefsRight
<1>12. QED
  BY <1>8, <1>9, <1>10, <1>11, OneRef

LEMMA NextRefs ==
  ASSUME IInv, [Next]_vars
  PROVE  \/ UNCHANGED <<pending, jobs, refs>>
         \/ ReturnFromRefused \/ ReturnFromURLDone
         \/ \E x \in Handle : \/ Add(x) \/ (CancelHandle(x) /\ UNCHANGED <<jobs, stack>>)
                              \/ StartDataURL(x) \/ StartJob(x) \/ StartRefused(x) \/ RemoveJob(x)
<1>1. CASE UNCHANGED vars \/ LoopSteps
  BY <1>1 DEF vars, LoopSteps, StartDone, RestartDone, RunDone, RemoveDone, ProcessJobsDone,
       HandlerRemoved, PageDeleted
<1>2. CASE Environment
  BY <1>2 DEF Environment, Cancel, HeadersReceived, RunScript, ShutdownView, Purge,
     Break, Resume, Tick, TimerFires, RemoveTransportHandler
<1>3. CASE ClientReturns
  BY <1>3 DEF ClientReturns, ReturnFromResponse, ReturnFromHeaders, ReturnFromCall, ReturnFromVerdict, NextURLCall
<1>4. ASSUME NEW x \in Handle, JobSteps(x)
      PROVE  \/ UNCHANGED <<pending, jobs, refs>>
             \/ CancelHandle(x) /\ UNCHANGED <<jobs, stack>>
             \/ StartDataURL(x) \/ StartJob(x) \/ StartRefused(x) \/ RemoveJob(x)
  BY <1>4 DEF JobSteps, CondemnCancelled, SkipPaused, CallHandler, CallTransfer, CondemnAgain, KeepJob,
     NotifyJobFailed, PageCancels
<1>5. ASSUME NEW x \in Handle, TransferSteps(x) PROVE UNCHANGED <<pending, jobs, refs>>
  BY <1>5 DEF TransferSteps, DataReceived, DataDone, TransferEnds
<1>6. QED
  BY <1>1, <1>2, <1>3, <1>4, <1>5 DEF Next

LEMMA RefsKept ==
  ASSUME IInv, IInv', Stacked, Queued, Opened, RefusedLast, DataApart, [Next]_vars,
         \A h \in Handle : RefsRight(h)
  PROVE  \A h \in Handle : RefsRight(h)'
<1>1. CASE ReturnFromRefused
  <2>1. /\ Top.it \in Handle /\ InJobs(Top.it) /\ Top.cb = "refused"
        /\ \A h : InJobs(h)' <=> InJobs(h) /\ h # Top.it
    BY <1>1, RefusedLeaves
  <2>2. refs' = [refs EXCEPT ![Top.it] = @ - 1] /\ UNCHANGED pending
    BY <1>1 DEF ReturnFromRefused
  <2>3. ~ReturnFromURLDone
    BY <2>1 DEF ReturnFromURLDone, Returning
  <2>4. QED
    BY <2>1, <2>2, <2>3, LeavingRefs
<1>2. ASSUME NEW x \in Handle, RemoveJob(x) PROVE \A h \in Handle : RefsRight(h)'
  <2>1. InJobs(x) /\ \A h : InJobs(h)' <=> InJobs(h) /\ h # x
    BY <1>2, RemovedJob
  <2>2. refs' = [refs EXCEPT ![x] = @ - 1] /\ UNCHANGED pending
    BY <1>2 DEF RemoveJob
  <2>3. ~ReturnFromURLDone
    BY <1>2 DEF RemoveJob, AtRemove, ReturnFromURLDone, Returning, TopAt
  <2>4. QED
    BY <2>1, <2>2, <2>3, LeavingRefs
<1>3. CASE UNCHANGED <<pending, jobs, refs>> /\ ~ReturnFromURLDone /\ ~\E x \in Handle : StartDataURL(x)
  <2>1. \A h \in Handle : (Waiting(h)' <=> Waiting(h)) /\ (InJobs(h)' <=> InJobs(h))
    BY <1>3 DEF Waiting, InJobs
  <2>2. ASSUME NEW h \in Handle PROVE Calling(h, URLCalls)' <=> Calling(h, URLCalls)
    BY <1>3, <2>2, CallingStarts, CallingGoesOn
  <2>3. ASSUME NEW h \in Handle PROVE RefsRight(h)'
    BY <1>3, <2>1, <2>2, <2>3 DEF RefsRight
  <2>4. QED
    BY <2>3
<1>4. QED
  BY <1>1, <1>2, <1>3, NextRefs, AddRefs, CancelHandleRefs, StartRefs, URLDoneRefs

(* As long as no client of a refused load stops at a breakpoint, the manager *)
(* holds one reference on the handles it has to do with, and no other.       *)
Referenced == DataApart /\ \A h \in Handle : RefsRight(h)

THEOREM JobsReferenced == Spec /\ []Unbroken({"refused"}) => []Referenced
<1>1. Init => Referenced
  BY DEF Init, Referenced, DataApart, RefsRight, Height, InJobs, Waiting, Calling
<1>2. ASSUME IInv, IInv', Stacked, Queued, Suspended, Bracket, Referenced, [Next]_vars
      PROVE  Referenced'
  BY <1>2, DataApartKept, RefsKept DEF Bracket, Referenced, Suspended
<1>3. QED
  BY <1>1, <1>2, Invariance, CallersRight, QueueKept, InterruptedLoadsRest, JobsBracketed, PTL DEF Spec

THEOREM ReferencesMatched == Spec /\ []Unbroken({"refused"}) => []RefsMatch
<1>1. Referenced => RefsMatch
  BY DEF Referenced, RefsRight, RefsMatch
<1>2. QED
  BY <1>1, JobsReferenced, PTL

-----------------------------------------------------------------------------
(* What a step does to a job, and what it tells a client.                    *)

LEMMA WorkIs ==
  ASSUME IInv, NEW x \in Handle, CallHandler(x)
  PROVE  /\ TopAt("run") /\ Top.it = x /\ InJobs(x) /\ ~rh[x].cancelled /\ ~info[x].paused
         /\ \/ /\ info[x].state \in {"Init", "Connect"} /\ (info'[x].success <=> info[x].success)
               /\ info'[x].state \in {"Init", "Connect", "Transfer"}
            \/ info[x].state \in {"Init", "Connect"} /\ ~info'[x].success /\ info'[x].state = "Remove"
            \/ /\ info[x].state \in {"Disconnect", "Shutdown"} /\ (info'[x].success <=> info[x].success)
               /\ info'[x].state \in {"Disconnect", "Shutdown", "Remove"}
<1>1. PICK s \in {"Init", "Connect", "Disconnect", "Shutdown"}, r \in [ok : BOOLEAN, complete : BOOLEAN] :
        AtState(x, s) /\ Returned(x, s, r)
  BY DEF CallHandler
<1>2. /\ info'[x].success <=> info[x].success /\ (r.ok \/ s \in {"Disconnect", "Shutdown"})
      /\ info'[x].state = IF ~r.ok \/ (r.complete /\ s = "Shutdown") THEN "Remove"
                          ELSE IF r.complete THEN Successor[s] ELSE info[x].state
  BY <1>1, ReturnedBy
<1>3. /\ s = "Init" => Successor[s] = "Connect"
      /\ s = "Connect" => Successor[s] = "Transfer"
      /\ s = "Disconnect" => Successor[s] = "Shutdown"
  BY DEF Successor
<1>4. /\ TopAt("run") /\ Top.it = x /\ InJobs(x) /\ ~rh[x].cancelled /\ ~info[x].paused
      /\ info[x].state = s
  BY <1>1 DEF AtState, AtJob
<1>5. CASE s \in {"Init", "Connect"}
  BY <1>2, <1>3, <1>4, <1>5
<1>6. CASE s \in {"Disconnect", "Shutdown"}
  BY <1>2, <1>3, <1>4, <1>6
<1>7. QED
  BY <1>5, <1>6

LEMMA EndIs ==
  ASSUME IInv, NEW x \in Handle, TransferEnds(x)
  PROVE  /\ TopAt("transfer") /\ Top.it = x /\ InJobs(x)
         /\ \/ ~info'[x].success /\ info'[x].state = "Remove" /\ Top.done # "ok"
            \/ (info'[x].success <=> info[x].success) /\ info'[x].state = info[x].state
            \/ /\ (info'[x].success <=> info[x].success) /\ info'[x].state = "Disconnect"
               /\ Top.done # "no" \/ KindOf[x] = "custom"
<1>1. PICK r \in TransferReturns(x) : Returned(x, "Transfer", r)
  BY DEF TransferEnds
<1>2. /\ info'[x].success <=> info[x].success /\ r.ok
      /\ info'[x].state = IF ~r.ok THEN "Remove" ELSE IF r.complete THEN "Disconnect" ELSE info[x].state
  BY <1>1, ReturnedBy DEF Successor
<1>3. ~r.ok => Top.done # "ok"
  BY <1>1 DEF TransferReturns
<1>4. r.complete => Top.done # "no" \/ KindOf[x] = "custom"
  BY <1>1 DEF TransferReturns
<1>5. TopAt("transfer") /\ Top.it = x /\ InJobs(x)
  BY DEF TransferEnds
<1>6. CASE ~r.ok
  BY <1>2, <1>3, <1>5, <1>6
<1>7. CASE r.ok
  BY <1>2, <1>4, <1>5, <1>7
<1>8. QED
  BY <1>6, <1>7

LEMMA NextJob ==
  ASSUME IInv, Queued, [Next]_vars, NEW h \in Handle
  PROVE  \/ JobRests(h) /\ (InJobs(h)' => InJobs(h))
         \/ StartJob(h) \/ StartRefused(h) \/ CallHandler(h) \/ TransferEnds(h)
<1>1. InJobs(h)' => InJobs(h) \/ StartJob(h) \/ StartRefused(h)
  BY MoreJobs
<1>2. info'[h] = info[h] => JobRests(h)
  BY DEF JobRests
<1>3. CASE Rests
  BY <1>1, <1>3 DEF Rests
<1>4. CASE ReturnFromRefused
  BY <1>1, <1>2, <1>4 DEF ReturnFromRefused
<1>5. ASSUME NEW x \in Handle, x # h, Changes(x) PROVE info'[h] = info[h]
  <2>1. CASE CallHandler(x) \/ TransferEnds(x)
    BY <1>5, <2>1, ReturnedBy DEF CallHandler, TransferEnds
  <2>2. QED
    BY <1>5, <2>1, StartedJob DEF Changes, RemoveJob
<1>6. CASE RemoveJob(h)
  BY <1>1, <1>2, <1>6 DEF RemoveJob
<1>7. QED
  BY <1>1, <1>2, <1>3, <1>4, <1>5, <1>6, NextRests DEF Changes

(* The client of h is told the end of its load.                              *)
Speaks(h) ==
  \/ DataDone(h, TRUE) /\ CallOf(ClientCall(h, "finish")) /\ rh[h].client /\ ~rh[h].cancelled
  \/ NotifyJobFailed(h) /\ CallOf(ClientCall(h, "fail")) /\ rh[h].client
  \/ StartRefused(h) /\ CallOf(ClientCall(h, "refused"))
  \/ StartDataURL(h) /\ CallOf(ClientCall(h, "urlDone"))
  \/ CallsNext("urlDone") /\ Top.it = h /\ Top.cb \in URLCalls

LEMMA CalledVerdicts ==
  ASSUME IInv, NEW x \in Handle, NEW cb, Called(x, cb), NEW h \in Handle
  PROVE  verdicts'[h] = IF h = x /\ cb \in Terminal THEN verdicts[h] + 1 ELSE verdicts[h]
<1>1. verdicts \in [Handle -> Nat]
  BY DEF IInv, DataOK
<1>2. QED
  BY <1>1 DEF Called

LEMMA NextVerdicts ==
  ASSUME IInv, IInv', Stacked, [Next]_vars, NEW h \in Handle
  PROVE  verdicts'[h] = verdicts[h] \/ (verdicts'[h] = verdicts[h] + 1 /\ Speaks(h))
<1>1. CASE UNCHANGED vars \/ LoopSteps
  BY <1>1 DEF vars, hist, LoopSteps, StartDone, RestartDone, RunDone, RemoveDone, ProcessJobsDone,
       HandlerRemoved, PageDeleted
<1>2. CASE Environment
  <2>1. ASSUME NEW x \in Handle, HeadersReceived(x) PROVE verdicts' = verdicts
    BY <2>1 DEF HeadersReceived, Called, Terminal, hist
  <2>2. QED
    BY <1>2, <2>1 DEF Environment, Add, Cancel, RunScript, ShutdownView, Purge,
     Break, Resume, Tick, TimerFires, RemoveTransportHandler, hist
<1>3. CASE ClientReturns
  <2>1. CASE NextURLCall
    <3>1. PICK next \in {"urlData", "urlDone"} : CallsNext(next)
      BY <2>1, NextURLCallIs
    <3>2. Top.it \in Handle /\ Called(Top.it, next) /\ Top.cb \in URLCalls
      BY <2>1, <3>1, NextURLCallIs DEF CallsNext, URLCalls
    <3>3. CASE next = "urlDone"
      BY <3>1, <3>2, <3>3, CalledVerdicts DEF Speaks, Terminal
    <3>4. CASE next = "urlData"
      BY <3>2, <3>4, CalledVerdicts DEF Terminal
    <3>5. QED
      BY <3>3, <3>4
  <2>2. CASE ReturnFromResponse
    BY <2>2 DEF ReturnFromResponse, Called, Terminal, hist
  <2>3. QED
    BY <1>3, <2>1, <2>2 DEF ClientReturns, ReturnFromHeaders, ReturnFromCall,
     ReturnFromVerdict, ReturnFromRefused, ReturnFromURLDone, hist
<1>4. ASSUME NEW x \in Handle, JobSteps(x)
      PROVE  verdicts'[h] = verdicts[h] \/ (verdicts'[h] = verdicts[h] + 1 /\ Speaks(h))
  <2>1. CASE StartDataURL(x)
    <3>1. PICK cb \in {"urlResponse", "urlDone"} : CallOf(ClientCall(x, cb)) /\ Called(x, cb)
      BY <2>1, StartDataURLIs
    <3>2. QED
      BY <2>1, <3>1, CalledVerdicts DEF Speaks, Terminal
  <2>2. CASE StartRefused(x)
    <3>1. Called(x, "refused") /\ CallOf(ClientCall(x, "refused"))
      BY <2>2, StartRefusedIs DEF StartRefused
    <3>2. QED
      BY <2>2, <3>1, CalledVerdicts DEF Speaks
  <2>3. CASE NotifyJobFailed(x)
    <3>1. CASE UNCHANGED hist
      BY <3>1 DEF hist
    <3>2. CASE rh[x].client /\ CallOf(ClientCall(x, "fail")) /\ Called(x, "fail")
      BY <2>3, <3>2, CalledVerdicts DEF Speaks
    <3>3. QED
      BY <2>3, <3>1, <3>2, NotifyJobFailedIs
  <2>4. QED
    BY <1>4, <2>1, <2>2, <2>3 DEF JobSteps, StartJob, CondemnCancelled, SkipPaused, CallHandler, CallTransfer,
       CondemnAgain, KeepJob, RemoveJob, PageCancels, hist
<1>5. ASSUME NEW x \in Handle, TransferSteps(x)
      PROVE  verdicts'[h] = verdicts[h] \/ (verdicts'[h] = verdicts[h] + 1 /\ Speaks(h))
  <2>1. CASE DataReceived(x)
    BY <2>1 DEF DataReceived, Called, Terminal, hist
  <2>2. ASSUME NEW result \in BOOLEAN, DataDone(x, result)
        PROVE  verdicts'[h] = verdicts[h] \/ (verdicts'[h] = verdicts[h] + 1 /\ Speaks(h))
    <3>1. CASE UNCHANGED hist
      BY <3>1 DEF hist
    <3>2. CASE rh[x].client /\ ~rh[x].cancelled /\ result /\ CallOf(ClientCall(x, "finish")) /\ Called(x, "finish")
      <4>1. result = TRUE
        BY <3>2
      <4>2. QED
        BY <2>2, <3>2, <4>1, CalledVerdicts DEF Speaks
    <3>3. QED
      BY <2>2, <3>1, <3>2, DataDoneIs
  <2>3. QED
    BY <1>5, <2>1, <2>2 DEF TransferSteps, TransferEnds, hist
<1>6. QED
  BY <1>1, <1>2, <1>3, <1>4, <1>5 DEF Next

(* One verdict.  The clients that are told of a failure, by the removal loop *)
(* or by startPendingJob, must not stop at a breakpoint meanwhile: the job   *)
(* is still in the list, and a nested loop would tell its client again.      *)
Telling(h) == \E i \in 1..Height : IsCall(stack[i], h, {"finish", "fail", "refused"})
OnTop(h, cb) == TopAt("client") /\ Top.cb = cb /\ Top.it = h
Noted(h) == TopAt("remove") /\ Top.it = h /\ Top.told /\ info[h].state = "Remove"

(* A job that has not got beyond its transfer has not failed.                *)
Intact(h) ==
  InJobs(h) /\ info[h].state \in {"Init", "Connect", "Transfer"} => info[h].success \/ OnTop(h, "refused")
Sound(h) ==
  \A i \in 1..Height : IsTransfer(stack[i], h) /\ stack[i].done \in {"no", "ok"} /\ InJobs(h) => info[h].success

(* A client has not been told while the transfer goes on, nor while a data:  *)
(* URL is being decoded.                                                     *)
Untold(h) ==
  \A i \in 1..Height :
    /\ IsTransfer(stack[i], h) /\ stack[i].done \in {"no", "bad"} /\ InJobs(h) /\ rh[h].client => verdicts[h] = 0
    /\ IsCall(stack[i], h, {"urlResponse", "urlData"}) => verdicts[h] = 0

(* A client that has been told and is still there is being told, or has      *)
(* cancelled; the job it was told of is a success, or about to be removed.   *)
Told(h) ==
  rh[h].client /\ InJobs(h) /\ verdicts[h] # 0 =>
    /\ rh[h].cancelled \/ Telling(h)
    /\ info[h].success \/ OnTop(h, "fail") \/ OnTop(h, "refused") \/ Noted(h)

VerdictOf(h) == verdicts[h] <= 1 /\ Intact(h) /\ Sound(h) /\ Untold(h) /\ Told(h)

LEMMA ClientKept ==
  ASSUME IInv, [Next]_vars, NEW h \in Handle
  PROVE  /\ rh'[h].client => rh[h].client
         /\ rh[h].cancelled => rh'[h].cancelled
<1>1. CASE Break \/ Resume
  BY <1>1, DeferIs DEF Break, Resume
<1>2. CASE ~Break /\ ~Resume
  <2>1. rh[h].cancelled => rh'[h].cancelled
    BY <1>2, NextEffects DEF Effects, Lasting
  <2> SUFFICES rh'[h].client => rh[h].client
    BY <2>1
  <2>2. rh \in [Handle -> ResourceHandle]
    BY DEF IInv, DataOK
  <2>3. ASSUME NEW x \in Handle,
               \/ rh' = rh \/ rh' = [rh EXCEPT ![x].cancelled = TRUE] \/ rh' = [rh EXCEPT ![x].fired = TRUE]
               \/ rh' = [rh EXCEPT ![x].client = FALSE]
        PROVE  rh'[h].client => rh[h].client
    BY <2>2, <2>3 DEF ResourceHandle
  <2>4. CASE UNCHANGED vars \/ LoopSteps
    BY <2>4 DEF vars, LoopSteps, StartDone, RestartDone, RunDone, RemoveDone, ProcessJobsDone,
       HandlerRemoved, PageDeleted
  <2>5. CASE Environment
    <3>1. ASSUME NEW x \in Handle, HeadersReceived(x) PROVE rh'[h].client => rh[h].client
      <4>1. PICK hd, f : rh' = [rh EXCEPT ![x].headers = hd, ![x].fired = f]
        BY <3>1 DEF HeadersReceived
      <4>2. QED
        BY <2>2, <4>1 DEF ResourceHandle
    <3>2. ASSUME NEW x \in Handle, Cancel(x) PROVE rh'[h].client => rh[h].client
      BY <2>3, <3>2 DEF Cancel, CancelHandle
    <3>3. QED
      <4>1. CASE rh' = rh
        BY <4>1
      <4>2. QED
        BY <1>2, <2>5, <3>1, <3>2, <4>1 DEF Environment, Add, RunScript, ShutdownView, Purge,
          Tick, TimerFires, RemoveTransportHandler
  <2>6. CASE ClientReturns
    <3>1. TopAt("client")
      BY <2>6 DEF ClientReturns, ReturnFromResponse, ReturnFromHeaders, ReturnFromCall,
        ReturnFromVerdict, ReturnFromRefused, NextURLCall, ReturnFromURLDone, Returning
    <3>2. Top.cb # "script" => Top.it \in Handle
      BY <3>1, ClientOnTop
    <3>3. CASE rh' = rh
      BY <3>3
    <3>4. CASE Top.it \in Handle
      <4>1. CASE rh' = [rh EXCEPT ![Top.it].fired = TRUE] \/ LetGo(Top.it)
        <5> DEFINE x == Top.it
        <5>1. x \in Handle /\ (rh' = rh \/ rh' = [rh EXCEPT ![x].fired = TRUE] \/ rh' = [rh EXCEPT ![x].client = FALSE])
          BY <3>4, <4>1 DEF LetGo
        <5> HIDE DEF x
        <5>2. QED
          BY <2>3, <5>1
      <4>2. QED
        BY <2>6, <4>1 DEF ClientReturns, ReturnFromResponse, ReturnFromHeaders, ReturnFromCall,
          ReturnFromVerdict, ReturnFromRefused, NextURLCall, ReturnFromURLDone
    <3>5. QED
      BY <2>6, <3>2, <3>3, <3>4 DEF ClientReturns, ReturnFromResponse, ReturnFromHeaders, ReturnFromCall,
        ReturnFromVerdict, ReturnFromRefused, NextURLCall, ReturnFromURLDone, Returning
  <2>7. ASSUME NEW x \in Handle, JobSteps(x) PROVE rh'[h].client => rh[h].client
    <3>1. CASE CallHandler(x)
      <4>1. PICK b : rh' = [rh EXCEPT ![x].cancelled = @ \/ b]
        BY <3>1 DEF CallHandler
      <4>2. QED
        BY <2>2, <4>1 DEF ResourceHandle
    <3>2. QED
      BY <2>3, <2>7, <3>1 DEF JobSteps, StartDataURL, StartJob, StartRefused, CondemnCancelled, SkipPaused,
       CallTransfer, CondemnAgain, KeepJob, NotifyJobFailed, RemoveJob, PageCancels, CancelHandle
  <2>8. ASSUME NEW x \in Handle, TransferSteps(x) PROVE rh'[h].client => rh[h].client
    <3>1. CASE DataReceived(x)
      <4>1. \/ rh' = [rh EXCEPT ![x].left = @ - 1]
            \/ rh' = [[rh EXCEPT ![x].left = @ - 1] EXCEPT ![x].fired = @ \/ ~rh[x].cancelled]
        BY <3>1 DEF DataReceived
      <4>2. QED
        BY <2>2, <4>1 DEF ResourceHandle
    <3>2. QED
      BY <2>8, <3>1 DEF TransferSteps, DataDone, TransferEnds
  <2>9. QED
    BY <1>2, <2>1, <2>4, <2>5, <2>6, <2>7, <2>8 DEF Next
<1>3. QED
  BY <1>1, <1>2

(* While a client runs that is not at a breakpoint.                          *)
LEMMA WhileHeard ==
  ASSUME [Next]_vars, TopAt("client"), ~Top.brk
  PROVE  ClientReturns \/ UNCHANGED <<stack, jobs, info, verdicts>> \/ Break
<1>1. ~Idle /\ ~AppRuns /\ Top.at = "client"
  BY DEF TopAt, Idle, AppRuns
<1>2. ASSUME NEW x \in Handle PROVE ~JobSteps(x) /\ ~TransferSteps(x)
  BY <1>1 DEF JobSteps, TransferSteps, StartDataURL, StartJob, StartRefused, CondemnCancelled,
     SkipPaused, CallHandler, CallTransfer, CondemnAgain, KeepJob, NotifyJobFailed, RemoveJob,
     PageCancels, DeletingPage, Starting, AtState, AtJob, AtRemove, TopAt, InTransfer,
     DataReceived, DataDone, TransferEnds
<1>3. ~LoopSteps
  BY <1>1 DEF LoopSteps, StartDone, RestartDone, RunDone, RemoveDone, ProcessJobsDone,
     HandlerRemoved, PageDeleted, TopAt
<1>4. CASE Environment
  BY <1>1, <1>4 DEF Environment, Add, Cancel, HeadersReceived, RunScript, ShutdownView, Purge,
     Resume, Tick, TimerFires, RemoveTransportHandler
<1>5. QED
  BY <1>2, <1>3, <1>4 DEF Next, vars, hist

LEMMA ClientReturnsBy ==
  ASSUME ClientReturns
  PROVE  /\ TopAt("client") /\ ~Top.brk /\ UNCHANGED info
         /\ Top.cb = "refused" => ReturnFromRefused
         /\ Top.cb \in {"finish", "fail"} => ReturnFromVerdict
BY DEF ClientReturns, ReturnFromResponse, ReturnFromHeaders, ReturnFromCall, ReturnFromVerdict,
     ReturnFromRefused, NextURLCall, ReturnFromURLDone, Returning

LEMMA WhileRemoving ==
  ASSUME [Next]_vars, TopAt("remove"), Top.told, NEW x \in Handle, Top.it = x
  PROVE  UNCHANGED vars \/ KeepJob(x) \/ RemoveJob(x)
<1>1. ~Idle /\ ~AppRuns /\ stack # <<>> /\ Top.at = "remove" /\ Top.it # None
  BY HandleAssumption DEF TopAt, Idle, AppRuns
<1>2. ASSUME NEW y \in Handle, JobSteps(y) \/ TransferSteps(y) PROVE KeepJob(x) \/ RemoveJob(x)
  BY <1>1, <1>2 DEF JobSteps, TransferSteps, StartDataURL, StartJob, StartRefused, CondemnCancelled,
     SkipPaused, CallHandler, CallTransfer, CondemnAgain, KeepJob, NotifyJobFailed, RemoveJob,
     PageCancels, DeletingPage, Starting, AtState, AtJob, AtRemove, TopAt, InTransfer,
     DataReceived, DataDone, TransferEnds
<1>3. ~LoopSteps
  BY <1>1 DEF LoopSteps, StartDone, RestartDone, RunDone, RemoveDone, ProcessJobsDone,
     HandlerRemoved, PageDeleted, TopAt
<1>4. ~ClientReturns
  BY <1>1 DEF ClientReturns, ReturnFromResponse, ReturnFromHeaders, ReturnFromCall,
     ReturnFromVerdict, ReturnFromRefused, NextURLCall, ReturnFromURLDone, Returning, TopAt
<1>5. ~Environment
  BY <1>1 DEF Environment, Add, Cancel, HeadersReceived, RunScript, ShutdownView, Purge,
     Break, Resume, Tick, TimerFires, RemoveTransportHandler, ScriptRuns, TopAt
<1>6. QED
  BY <1>2, <1>3, <1>4, <1>5 DEF Next

LEMMA TakenUntold ==
  ASSUME IInv, Queued, NEW h \in Handle, Taken(h)
  PROVE  /\ verdicts[h] = 0 /\ ~InJobs(h)
         /\ \A i \in 1..Height : ~About(stack[i], h)
<1>1. ~Touched(h)
  BY TakenIs
<1>2. Waiting(h)
  <2>1. pending \in Seq(Handle) /\ pending # <<>> /\ h = Head(pending)
    BY DEF Taken, IInv, DataOK
  <2>2. 1 \in DOMAIN pending /\ pending[1] = h
    BY <2>1
  <2>3. QED
    BY <2>2 DEF Waiting
<1>3. QED
  BY <1>1, <1>2 DEF Queued, Begun, Untouched, Touched

LEMMA StartsTake ==
  ASSUME NEW h, StartJob(h) \/ StartRefused(h) \/ StartDataURL(h)
  PROVE  Taken(h)
BY DEF StartJob, StartRefused, StartDataURL, Taken, MayStart

LEMMA DoneBecomes ==
  ASSUME IInv, IInv', NEW x \in Handle, NEW result \in BOOLEAN, DataDone(x, result)
  PROVE  /\ TopAt("transfer") /\ Top.it = x /\ Top.done = "no" /\ InJobs(x)
         /\ Height \in 1..Height /\ Top = stack[Height] /\ stack'[Height].done = DoneAs(result)
<1>1. TopAt("transfer") /\ Top.it = x /\ Top.done = "no" /\ InJobs(x)
  BY DEF DataDone, InTransfer
<1>2. stack # <<>> /\ Top \in TransferFrame /\ Height \in 1..Height /\ Top = stack[Height]
  BY <1>1, TransferOnTop, TopTypes
<1> DEFINE d == DoneAs(result)
           f == [Top EXCEPT !.done = d]
<1>3. stack' = Becomes(f) \/ \E g : stack' = SteppedCalling(f, g)
  BY DEF DataDone, SteppedCalling, DoneAs
<1>4. f.done = d
  BY <1>2 DEF TransferFrame
<1> HIDE DEF f
<1>5. stack'[Height] = f
  BY <1>2, <1>3, StepMoves, StepCallMoves
<1>6. QED
  BY <1>1, <1>2, <1>4, <1>5

(* A job that the first loop is about to drive has not told its client.      *)
LEMMA AtWork ==
  ASSUME IInv, Stacked, Suspended, Unbroken({"refused", "fail"}), NEW h \in Handle, Told(h),
         TopAt("run"), InJobs(h), ~rh[h].cancelled, ~info[h].paused, rh[h].client
  PROVE  verdicts[h] = 0
<1>1. SUFFICES ASSUME verdicts[h] # 0 PROVE FALSE
  OBVIOUS
<1>2. PICK i \in 1..Height : IsCall(stack[i], h, {"finish", "fail", "refused"})
  BY <1>1 DEF Told, Telling
<1>3. stack # <<>> /\ Top.at = "run" /\ Height \in Nat /\ Top = stack[Height]
  BY StackTypes DEF TopAt
<1>4. i < Height /\ stack[i].at = "client"
  BY <1>2, <1>3 DEF IsCall
<1>5. Brk(stack[i])
  BY <1>4, ClientBelow
<1>6. IsCall(stack[i], h, Answer) /\ stack[i].brk
  BY <1>2, <1>5 DEF Unbroken, IsCall, Answer, Brk
<1>7. QED
  BY <1>6 DEF Suspended, Answering

LEMMA TellsOnce ==
  ASSUME IInv, IInv', Stacked, Queued, DataApart, NEW h \in Handle, VerdictOf(h), Speaks(h)
  PROVE  verdicts[h] = 0
<1>1. CASE DataDone(h, TRUE) /\ rh[h].client
  <2>1. Height \in 1..Height /\ IsTransfer(stack[Height], h) /\ stack[Height].done = "no" /\ InJobs(h)
    BY <1>1, DoneBecomes DEF IsTransfer, TopAt
  <2>2. QED
    BY <1>1, <2>1 DEF VerdictOf, Untold
<1>2. CASE NotifyJobFailed(h) /\ rh[h].client
  <2>1. TopAt("remove") /\ InJobs(h) /\ ~info[h].success /\ ~Top.told
    BY <1>2 DEF NotifyJobFailed, AtRemove
  <2>2. ~OnTop(h, "fail") /\ ~OnTop(h, "refused") /\ ~Noted(h)
    BY <2>1 DEF OnTop, TopAt, Noted
  <2>3. QED
    BY <1>2, <2>1, <2>2 DEF VerdictOf, Told
<1>3. CASE StartRefused(h) \/ StartDataURL(h)
  BY <1>3, StartsTake, TakenUntold
<1>4. CASE CallsNext("urlDone") /\ Top.it = h /\ Top.cb \in URLCalls
  <2>1. /\ Height \in 1..Height /\ Top = stack[Height] /\ Top.at = "client"
        /\ Top.cb \in {"urlResponse", "urlData"}
    BY <1>4, TopTypes DEF CallsNext, TopAt, NextCall, URLCalls
  <2>2. IsCall(stack[Height], h, {"urlResponse", "urlData"})
    BY <1>4, <2>1 DEF IsCall
  <2>3. QED
    BY <2>1, <2>2 DEF VerdictOf, Untold
<1>5. QED
  BY <1>1, <1>2, <1>3, <1>4 DEF Speaks

LEMMA NewVerdict ==
  ASSUME IInv, IInv', Stacked, Queued, DataApart, [Next]_vars, NEW h \in Handle, VerdictOf(h)
  PROVE  /\ verdicts'[h] = verdicts[h] \/ (verdicts[h] = 0 /\ verdicts'[h] = 1 /\ Speaks(h))
         /\ verdicts'[h] <= 1
<1>1. verdicts'[h] = verdicts[h] \/ (verdicts'[h] = verdicts[h] + 1 /\ Speaks(h))
  BY NextVerdicts
<1>2. verdicts[h] <= 1
  BY DEF VerdictOf
<1>3. QED
  BY <1>1, <1>2, TellsOnce

LEMMA RefusedNext ==
  ASSUME IInv, IInv', Stacked, Queued, RefusedLast, Unbroken({"refused", "fail"}), Unbroken({"refused", "fail"})',
         [Next]_vars, NEW h \in Handle, OnTop(h, "refused"), InJobs(h)'
  PROVE  OnTop(h, "refused")'
<1>1. /\ stack # <<>> /\ Top = stack[Height] /\ Height \in 1..Height /\ Top.at = "client" /\ Top.cb = "refused"
      /\ TopAt("client") /\ Top.it = h
  BY TopTypes DEF OnTop, TopAt
<1>2. ~Top.brk
  BY <1>1 DEF Unbroken, Brk
<1>3. ~ReturnFromRefused
  BY <1>1, RefusedLeaves
<1>4. ~Break
  <2>1. SUFFICES ASSUME Break PROVE FALSE
    OBVIOUS
  <2>2. stack' = Becomes([Top EXCEPT !.brk = TRUE])
    BY <2>1 DEF Break
  <2>3. /\ Height \in Nat /\ Height > 0 /\ Height' = Height /\ Top' = stack'[Height]
        /\ Top'.at = "client" /\ Top'.cb = "refused" /\ Top'.brk
    BY <1>1, <2>2, BrkSteps
  <2>4. QED
    BY <2>3 DEF Unbroken, Brk
<1>5. ~ClientReturns
  BY <1>1, <1>3, ClientReturnsBy
<1>6. stack' = stack
  BY <1>1, <1>2, <1>4, <1>5, WhileHeard
<1>7. QED
  BY <1>6 DEF OnTop, TopAt, Top

LEMMA IntactKept ==
  ASSUME IInv, IInv', Stacked, Queued, RefusedLast, Unbroken({"refused", "fail"}), Unbroken({"refused", "fail"})',
         [Next]_vars, NEW h \in Handle, Intact(h)
  PROVE  Intact(h)'
<1>1. SUFFICES ASSUME InJobs(h)', info'[h].state \in {"Init", "Connect", "Transfer"}
               PROVE  info'[h].success \/ OnTop(h, "refused")'
  BY DEF Intact
<1>2. CASE StartJob(h)
  BY <1>2, StartedJob
<1>3. CASE StartRefused(h)
  <2>1. stack' # <<>> /\ Top' = ClientCall(h, "refused")
    BY <1>3, StartRefusedIs, NextTypes DEF CallOf
  <2>2. QED
    BY <2>1 DEF OnTop, TopAt, ClientCall
<1>4. CASE CallHandler(h)
  <2>1. TopAt("run") /\ InJobs(h)
    BY <1>4, WorkIs
  <2>2. ~OnTop(h, "refused")
    BY <2>1 DEF OnTop, TopAt
  <2>3. QED
    BY <1>1, <1>4, <2>1, <2>2, WorkIs DEF Intact
<1>5. CASE TransferEnds(h)
  <2>1. TopAt("transfer") /\ InJobs(h)
    BY <1>5, EndIs
  <2>2. ~OnTop(h, "refused")
    BY <2>1 DEF OnTop, TopAt
  <2>3. QED
    BY <1>1, <1>5, <2>1, <2>2, EndIs DEF Intact
<1>6. CASE JobRests(h) /\ (InJobs(h)' => InJobs(h))
  <2>1. info'[h].state = info[h].state /\ (info[h].success => info'[h].success)
    BY <1>1, <1>6 DEF JobRests, Fails
  <2>2. info[h].success \/ OnTop(h, "refused")
    BY <1>1, <1>6, <2>1 DEF Intact
  <2>3. QED
    BY <1>1, <2>1, <2>2, RefusedNext
<1>7. QED
  BY <1>2, <1>3, <1>4, <1>5, <1>6, NextJob

(* A transfer that goes on, or has just begun.                               *)
LEMMA TransferWas ==
  ASSUME IInv, IInv', Stacked, Queued, [Next]_vars, NEW h \in Handle,
         NEW i \in 1..Height', IsTransfer(stack'[i], h), ~CallTransfer(h), InJobs(h)'
  PROVE  /\ InJobs(h) /\ i \in 1..Height /\ IsTransfer(stack[i], h)
         /\ ~StartJob(h) /\ ~StartRefused(h) /\ ~StartDataURL(h) /\ ~Taken(h)
         /\ \/ stack'[i].done = stack[i].done
            \/ \E result \in BOOLEAN :
                 DataDone(h, result) /\ stack[i].done = "no" /\ stack'[i].done = DoneAs(result)
<1>1. /\ i \in 1..Height /\ IsTransfer(stack[i], h)
      /\ \/ stack'[i].done = stack[i].done
         \/ \E result \in BOOLEAN :
              DataDone(h, result) /\ stack[i].done = "no" /\ stack'[i].done = DoneAs(result)
  BY TransferGoesOn
<1>2. About(stack[i], h)
  BY <1>1 DEF About, IsTransfer
<1>3. ~Taken(h)
  BY <1>1, <1>2, TakenUntold
<1>4. QED
  BY <1>1, <1>3, StartsTake, MoreJobs

LEMMA SoundKept ==
  ASSUME IInv, IInv', Stacked, Queued, Suspended, Suspended', [Next]_vars, NEW h \in Handle,
         Intact(h), Sound(h)
  PROVE  Sound(h)'
<1>1. SUFFICES ASSUME NEW i \in 1..Height', IsTransfer(stack'[i], h), stack'[i].done \in {"no", "ok"}, InJobs(h)'
               PROVE  info'[h].success
  BY DEF Sound, IsTransfer
<1>2. CASE CallTransfer(h)
  <2>1. TopAt("run") /\ InJobs(h) /\ info[h].state = "Transfer" /\ info' = info
    BY <1>2 DEF CallTransfer, AtState, AtJob
  <2>2. ~OnTop(h, "refused")
    BY <2>1 DEF OnTop, TopAt
  <2>3. QED
    BY <2>1, <2>2 DEF Intact
<1>3. CASE ~CallTransfer(h)
  <2>1. /\ InJobs(h) /\ i \in 1..Height /\ IsTransfer(stack[i], h) /\ stack[i].done \in {"no", "ok"}
        /\ ~StartJob(h) /\ ~StartRefused(h)
    BY <1>1, <1>3, TransferWas
  <2>2. info[h].success
    BY <2>1 DEF Sound
  <2>3. Height \in Nat
    BY StackTypes
  <2>4. ~TransferEnds(h)
    <3>1. SUFFICES ASSUME TransferEnds(h) PROVE FALSE
      OBVIOUS
    <3>2. Height' = Height - 1 /\ Height > 1 /\ Top.at = "transfer" /\ Top.it = h
      BY <3>1, TransferEndsIs
    <3>3. Top = stack[Height] /\ Height \in 1..Height
      BY <2>3, <3>2, StackTypes
    <3>4. i = Height
      BY <2>1, <3>2, <3>3 DEF Suspended, OneTransfer, IsTransfer
    <3>5. QED
      BY <2>3, <3>2, <3>4
  <2>5. ~CallHandler(h)
    <3>1. SUFFICES ASSUME CallHandler(h) PROVE FALSE
      OBVIOUS
    <3>2. TopAt("run") /\ ~rh[h].cancelled /\ info[h].state # "Transfer"
      BY <3>1, WorkIs
    <3>3. stack # <<>> /\ Top.at # "transfer"
      BY <3>2 DEF TopAt
    <3>4. QED
      BY <2>1, <3>2, <3>3, InterruptedAnswers DEF IsTransfer
  <2>6. ~Fails(h)
    <3>1. SUFFICES ASSUME DataDone(h, FALSE) PROVE FALSE
      BY DEF Fails
    <3>2. /\ TopAt("transfer") /\ Top.it = h /\ Height \in 1..Height /\ Top = stack[Height]
          /\ stack'[Height].done = DoneAs(FALSE)
      BY <3>1, DoneBecomes
    <3>3. IsTransfer(stack[Height], h)
      BY <3>2 DEF TopAt, IsTransfer
    <3>4. i = Height
      BY <2>1, <3>2, <3>3 DEF Suspended, OneTransfer, IsTransfer
    <3>5. QED
      BY <1>1, <3>2, <3>4 DEF DoneAs
  <2>7. JobRests(h)
    BY <2>1, <2>4, <2>5, NextJob
  <2>8. QED
    BY <2>2, <2>6, <2>7 DEF JobRests
<1>4. QED
  BY <1>2, <1>3

(* A client that calls out of a transfer has been told nothing yet.          *)
LEMMA UntoldKept ==
  ASSUME IInv, IInv', Stacked, Stacked', Queued, Suspended, DataApart, DataApart',
         Unbroken({"refused", "fail"}), [Next]_vars, NEW h \in Handle, VerdictOf(h)
  PROVE  Untold(h)'
<1>1. ASSUME NEW i \in 1..Height', IsTransfer(stack'[i], h), stack'[i].done \in {"no", "bad"}, InJobs(h)', rh'[h].client
      PROVE  verdicts'[h] = 0
  <2>1. rh[h].client
    BY <1>1, ClientKept
  <2>2. CASE CallTransfer(h)
    <3>1. TopAt("run") /\ InJobs(h) /\ ~rh[h].cancelled /\ ~info[h].paused /\ verdicts' = verdicts
      BY <2>2 DEF CallTransfer, AtState, AtJob, hist
    <3>2. QED
      BY <2>1, <3>1, AtWork DEF VerdictOf
  <2>3. CASE ~CallTransfer(h)
    <3>1. /\ InJobs(h) /\ i \in 1..Height /\ IsTransfer(stack[i], h) /\ stack[i].done \in {"no", "bad"}
          /\ ~StartJob(h) /\ ~StartRefused(h) /\ ~StartDataURL(h)
      BY <1>1, <2>3, TransferWas
    <3>2. verdicts[h] = 0
      BY <2>1, <3>1 DEF VerdictOf, Untold
    <3>3. Height \in Nat
      BY StackTypes
    <3>4. ~DataDone(h, TRUE)
      <4>1. SUFFICES ASSUME DataDone(h, TRUE) PROVE FALSE
        OBVIOUS
      <4>2. /\ TopAt("transfer") /\ Top.it = h /\ Height \in 1..Height /\ Top = stack[Height]
            /\ stack'[Height].done = DoneAs(TRUE)
        BY <4>1, DoneBecomes
      <4>3. IsTransfer(stack[Height], h)
        BY <4>2 DEF TopAt, IsTransfer
      <4>4. i = Height
        BY <3>1, <4>2, <4>3 DEF Suspended, OneTransfer, IsTransfer
      <4>5. QED
        BY <1>1, <4>2, <4>4 DEF DoneAs
    <3>5. ~NotifyJobFailed(h)
      <4>1. SUFFICES ASSUME NotifyJobFailed(h) PROVE FALSE
        OBVIOUS
      <4>2. TopAt("remove") /\ ~info[h].success /\ stack # <<>> /\ Top.at = "remove" /\ Top = stack[Height]
        BY <4>1, TopTypes DEF NotifyJobFailed, AtRemove, TopAt
      <4>3. i < Height /\ i + 1 \in 2..Height
        BY <3>1, <3>3, <4>2 DEF IsTransfer
      <4>4. CalledBy(stack[(i + 1) - 1], stack[i + 1])
        BY <4>3 DEF Stacked
      <4>5. stack[i].done \in {"no", "ok"}
        BY <3>1, <4>4 DEF CalledBy, IsTransfer, Brk
      <4>6. QED
        BY <3>1, <4>2, <4>5 DEF VerdictOf, Sound
    <3>6. ~(CallsNext("urlDone") /\ Top.it = h /\ Top.cb \in URLCalls)
      <4>1. SUFFICES ASSUME CallsNext("urlDone"), Top.it = h, Top.cb \in URLCalls PROVE FALSE
        OBVIOUS
      <4>2. Height \in 1..Height /\ IsCall(stack[Height], h, URLCalls)
        BY <4>1, TopTypes DEF CallsNext, TopAt, IsCall
      <4>3. QED
        BY <3>1, <4>2 DEF DataApart
    <3>7. ~Speaks(h)
      BY <3>1, <3>4, <3>5, <3>6 DEF Speaks
    <3>8. QED
      BY <3>2, <3>7, NewVerdict
  <2>4. QED
    BY <2>2, <2>3
<1>2. ASSUME NEW i \in 1..Height', IsCall(stack'[i], h, {"urlResponse", "urlData"})
      PROVE  verdicts'[h] = 0
  <2>1. KindOf[h] = "data" /\ ~InJobs(h) /\ ~InJobs(h)' /\ IsCall(stack'[i], h, URLCalls)
    BY <1>2 DEF DataApart, IsCall, URLCalls
  <2>2. ~DataDone(h, TRUE) /\ ~NotifyJobFailed(h)
    BY <2>1 DEF DataDone, InTransfer, NotifyJobFailed, AtRemove
  <2>3. ~StartRefused(h)
    BY <2>1, StartedJob
  <2>4. stack'[i].at \in {"client", "transfer"} /\ stack'[i].at = "client"
    BY <1>2 DEF IsCall
  <2>5. Height \in Nat /\ Height' \in Nat
    BY StackTypes, NextTypes
  <2>6. CASE StartDataURL(h) /\ CallOf(ClientCall(h, "urlDone"))
    <3>1. Height' = Height + 1 /\ stack'[Height + 1] = ClientCall(h, "urlDone")
      BY <2>6 DEF CallOf
    <3>2. i # Height'
      BY <1>2, <3>1 DEF IsCall, ClientCall
    <3>3. i \in 1..Height /\ IsCall(stack[i], h, {"urlResponse", "urlData"})
      BY <1>2, <2>4, <3>2, NextFrames DEF NewOnTop, IsCall
    <3>4. QED
      BY <2>6, <3>3, StartsTake, TakenUntold DEF IsCall, About
  <2>7. CASE CallsNext("urlDone") /\ Top.it = h /\ Top.cb \in URLCalls
    <3>1. /\ Height \in 1..Height /\ IsCall(stack[Height], h, Opening)
          /\ Height' = Height /\ stack'[Height] = ClientCall(h, "urlDone")
      BY <2>7, TopTypes, CallsOn DEF CallsNext, TopAt, IsCall, Opening
    <3>2. i # Height'
      BY <1>2, <3>1 DEF IsCall, ClientCall
    <3>3. i \in 1..Height /\ About(stack[i], h)
      BY <1>2, <2>4, <3>2, NextFrames DEF NewOnTop, IsCall, About
    <3>4. Height <= i
      BY <3>1, <3>3 DEF Suspended, Opened
    <3>5. QED
      BY <2>5, <3>1, <3>2, <3>3, <3>4
  <2>8. CASE ~Speaks(h)
    <3>1. verdicts'[h] = verdicts[h]
      BY <2>8, NewVerdict
    <3>2. CASE i \in 1..Height /\ IsCall(stack[i], h, {"urlResponse", "urlData"})
      BY <3>1, <3>2 DEF VerdictOf, Untold
    <3>3. CASE NewOnTop(i)
      <4>1. CASE Taken(h)
        BY <3>1, <4>1, TakenUntold
      <4>2. CASE \E next \in URLCalls : CallsNext(next) /\ Top.cb \in URLCalls /\ NewCall(stack'[i], Top.it, next)
        <5>1. PICK next \in URLCalls : CallsNext(next) /\ Top.cb \in URLCalls /\ NewCall(stack'[i], Top.it, next)
          BY <4>2
        <5>2. Top.it = h /\ next = "urlData"
          BY <1>2, <5>1 DEF NewCall, IsCall, CallsNext, NextCall, URLCalls
        <5>3. /\ Height \in 1..Height /\ Top = stack[Height] /\ Top.at = "client"
              /\ Top.cb \in {"urlResponse", "urlData"}
          BY <5>1, <5>2, TopTypes DEF CallsNext, TopAt, NextCall, URLCalls
        <5>4. IsCall(stack[Height], h, {"urlResponse", "urlData"})
          BY <5>2, <5>3 DEF IsCall
        <5>5. QED
          BY <3>1, <5>3, <5>4 DEF VerdictOf, Untold
      <4>3. QED
        BY <1>2, <3>3, <4>1, <4>2 DEF NewOnTop, Appears, Follows, NewCall, IsCall, Answer
    <3>4. QED
      BY <1>2, <2>4, <3>2, <3>3, NextFrames DEF IsCall
  <2>9. QED
    BY <2>2, <2>3, <2>6, <2>7, <2>8 DEF Speaks
<1>3. QED
  BY <1>1, <1>2 DEF Untold, IsTransfer, IsCall

(* What is on record of a job whose client has been told.                    *)
Recorded(h) == info[h].success \/ OnTop(h, "fail") \/ OnTop(h, "refused") \/ Noted(h)

LEMMA SpeaksTold ==
  ASSUME IInv, IInv', DataApart', Suspended', NEW h \in Handle, VerdictOf(h), Speaks(h), InJobs(h)'
  PROVE  Telling(h)' /\ Recorded(h)'
<1>1. ASSUME NEW cb \in {"finish", "fail", "refused"}, CallOf(ClientCall(h, cb))
      PROVE  Telling(h)' /\ (TopAt("client") /\ Top.cb = cb /\ Top.it = h)'
  <2>1. /\ Height' \in 1..Height' /\ stack'[Height'] = ClientCall(h, cb) /\ Top' = ClientCall(h, cb)
        /\ stack' # <<>>
    BY <1>1, NextTypes DEF CallOf
  <2>2. IsCall(stack'[Height'], h, {"finish", "fail", "refused"})
    BY <2>1 DEF IsCall, ClientCall
  <2>3. QED
    BY <2>1, <2>2 DEF Telling, TopAt, ClientCall
<1>2. KindOf[h] # "data"
  BY DEF DataApart
<1>3. CASE DataDone(h, TRUE) /\ CallOf(ClientCall(h, "finish")) /\ rh[h].client /\ ~rh[h].cancelled
  <2>1. Height \in 1..Height /\ IsTransfer(stack[Height], h) /\ stack[Height].done = "no" /\ InJobs(h)
    BY <1>3, DoneBecomes DEF IsTransfer, TopAt
  <2>2. info[h].success /\ info' = info
    BY <1>3, <2>1 DEF VerdictOf, Sound, DataDone
  <2>3. QED
    BY <1>1, <1>3, <2>2 DEF Recorded
<1>4. CASE NotifyJobFailed(h) /\ CallOf(ClientCall(h, "fail"))
  BY <1>1, <1>4 DEF Recorded, OnTop
<1>5. CASE StartRefused(h) /\ CallOf(ClientCall(h, "refused"))
  BY <1>1, <1>5 DEF Recorded, OnTop
<1>6. ~StartDataURL(h)
  <2>1. SUFFICES ASSUME StartDataURL(h) PROVE FALSE
    OBVIOUS
  <2>2. KindOf[h] = "data"
    BY <2>1 DEF StartDataURL
  <2>3. QED
    BY <1>2, <2>2
<1>7. ~(CallsNext("urlDone") /\ Top.it = h /\ Top.cb \in URLCalls)
  <2>1. SUFFICES ASSUME CallsNext("urlDone"), Top.it = h, Top.cb \in URLCalls PROVE FALSE
    OBVIOUS
  <2>2. /\ Height \in Nat /\ Height > 0 /\ Height' = Height /\ stack'[Height] = ClientCall(h, "urlDone")
    <3>1. stack # <<>> /\ stack' = Becomes(ClientCall(h, "urlDone"))
      BY <2>1 DEF CallsNext, TopAt
    <3>2. QED
      BY <3>1, StepMoves, StackTypes
  <2>3. Height \in 1..Height' /\ IsCall(stack'[Height], h, URLCalls)
    BY <2>2 DEF IsCall, ClientCall, URLCalls
  <2>4. QED
    BY <1>2, <2>3 DEF DataApart
<1>8. QED
  BY <1>3, <1>4, <1>5, <1>6, <1>7 DEF Speaks

LEMMA TellingKept ==
  ASSUME IInv, IInv', Stacked, Queued, RefusedLast, [Next]_vars, NEW h \in Handle,
         Telling(h), InJobs(h), InJobs(h)', rh'[h].client, ~rh[h].cancelled
  PROVE  Telling(h)'
<1>1. PICK i \in 1..Height : IsCall(stack[i], h, {"finish", "fail", "refused"})
  BY DEF Telling
<1>2. h \notin gaveUp
  BY DEF Queued, Touched
<1>3. CASE i = Height /\ ClientReturns
  <2>1. Top = stack[Height] /\ Top.it = h /\ Top.cb \in {"finish", "fail", "refused"}
    BY <1>1, <1>3, TopTypes, ClientReturnsBy DEF IsCall, TopAt
  <2>2. CASE Top.cb = "refused"
    BY <1>3, <2>1, <2>2, ClientReturnsBy, RefusedLeaves
  <2>3. CASE Top.cb # "refused"
    <3>1. ReturnFromVerdict
      BY <1>3, <2>1, <2>3, ClientReturnsBy
    <3>2. rh' = [rh EXCEPT ![h].client = FALSE] /\ rh \in [Handle -> ResourceHandle]
      BY <1>2, <2>1, <3>1 DEF ReturnFromVerdict, LetGo, IInv, DataOK
    <3>3. QED
      BY <3>2 DEF ResourceHandle
  <2>4. QED
    BY <2>2, <2>3
<1>4. CASE ~(i = Height /\ ClientReturns)
  <2>1. i \in 1..Height' /\ stack'[i].at = "client" /\ stack'[i].it = stack[i].it /\ stack'[i].cb = stack[i].cb
    BY <1>1, <1>4, ClientStays DEF IsCall
  <2>2. IsCall(stack'[i], h, {"finish", "fail", "refused"})
    BY <1>1, <2>1 DEF IsCall
  <2>3. QED
    BY <2>1, <2>2 DEF Telling
<1>5. QED
  BY <1>3, <1>4

LEMMA FailNext ==
  ASSUME IInv, IInv', Stacked, Suspended, Unbroken({"refused", "fail"}), Unbroken({"refused", "fail"})',
         [Next]_vars, NEW h \in Handle, OnTop(h, "fail"), InJobs(h)
  PROVE  OnTop(h, "fail")' \/ Noted(h)'
<1>1. /\ stack # <<>> /\ Top = stack[Height] /\ Height \in 1..Height /\ Top.at = "client" /\ Top.cb = "fail"
      /\ TopAt("client") /\ Top.it = h /\ Height \in Nat
  BY TopTypes DEF OnTop, TopAt
<1>2. ~Top.brk
  BY <1>1 DEF Unbroken, Brk
<1>3. ~Break
  <2>1. SUFFICES ASSUME Break PROVE FALSE
    OBVIOUS
  <2>2. stack' = Becomes([Top EXCEPT !.brk = TRUE])
    BY <2>1 DEF Break
  <2>3. /\ Height \in Nat /\ Height > 0 /\ Height' = Height /\ Top' = stack'[Height]
        /\ Top'.at = "client" /\ Top'.cb = "fail" /\ Top'.brk
    BY <1>1, <2>2, BrkSteps
  <2>4. QED
    BY <2>3 DEF Unbroken, Brk
<1>4. CASE ClientReturns
  <2>1. ReturnFromVerdict
    BY <1>1, <1>4, ClientReturnsBy
  <2>2. stack' = Return /\ info' = info
    BY <2>1 DEF ReturnFromVerdict
  <2>3. info[h].state = "Remove"
    <3>1. IsCall(stack[Height], h, {"fail"})
      BY <1>1 DEF IsCall
    <3>2. QED
      BY <1>1, <3>1 DEF Suspended, FailedCondemned
  <2>4. Height > 1
    BY <1>1 DEF Stacked, Outermost, LoopAt
  <2>5. CalledBy(stack[Height - 1], stack[Height])
    BY <1>1, <2>4 DEF Stacked
  <2>6. Under.at = "remove" /\ Under.it = h /\ Under.told
    BY <1>1, <2>5 DEF CalledBy, Under, LoopAt
  <2>7. Top' = Under /\ stack' # <<>>
    BY <1>1, <2>2, <2>4, ReturnMoves, NextTypes
  <2>8. QED
    BY <2>2, <2>3, <2>6, <2>7 DEF Noted, TopAt
<1>5. CASE stack' = stack
  BY <1>5 DEF OnTop, TopAt, Top
<1>6. QED
  BY <1>1, <1>2, <1>3, <1>4, <1>5, WhileHeard

LEMMA RecordedKept ==
  ASSUME IInv, IInv', Stacked, Queued, Suspended, RefusedLast,
         Unbroken({"refused", "fail"}), Unbroken({"refused", "fail"})',
         [Next]_vars, NEW h \in Handle, VerdictOf(h), Recorded(h), verdicts[h] # 0,
         InJobs(h), InJobs(h)', rh[h].client
  PROVE  Recorded(h)'
<1>1. CASE OnTop(h, "refused")
  BY <1>1, RefusedNext DEF Recorded
<1>2. CASE OnTop(h, "fail")
  BY <1>2, FailNext DEF Recorded
<1>3. CASE Noted(h)
  <2>1. ~RemoveJob(h)
    BY RemovedJob
  <2>2. ~KeepJob(h)
    BY <1>3 DEF Noted, KeepJob
  <2>3. UNCHANGED vars
    BY <1>3, <2>1, <2>2, WhileRemoving DEF Noted
  <2>4. QED
    BY <1>3, <2>3 DEF Noted, Recorded, vars, TopAt, Top
<1>4. CASE info[h].success
  <2>1. ~StartJob(h) /\ ~StartRefused(h)
    BY StartsTake, TakenUntold
  <2>2. CASE JobRests(h)
    <3>1. ~Fails(h)
      <4>1. SUFFICES ASSUME DataDone(h, FALSE) PROVE FALSE
        BY DEF Fails
      <4>2. Height \in 1..Height /\ IsTransfer(stack[Height], h) /\ stack[Height].done = "no"
        BY <4>1, DoneBecomes DEF IsTransfer, TopAt
      <4>3. QED
        BY <4>2 DEF VerdictOf, Untold
    <3>2. QED
      BY <1>4, <2>2, <3>1 DEF JobRests, Recorded
  <2>3. ~CallHandler(h)
    BY WorkIs, AtWork DEF VerdictOf
  <2>4. CASE TransferEnds(h)
    <3>1. TopAt("transfer") /\ Top.it = h
      BY <2>4, EndIs
    <3>2. Height \in 1..Height /\ Top = stack[Height] /\ IsTransfer(stack[Height], h) /\ Top \in TransferFrame
      BY <3>1, TopTypes, TransferOnTop DEF TopAt, IsTransfer
    <3>3. Top.done \notin {"no", "bad"}
      BY <3>2 DEF VerdictOf, Untold
    <3>4. Top.done = "ok"
      BY <3>2, <3>3 DEF TransferFrame
    <3>5. QED
      BY <1>4, <2>4, <3>4, EndIs DEF Recorded
  <2>5. QED
    BY <2>1, <2>2, <2>3, <2>4, NextJob
<1>5. QED
  BY <1>1, <1>2, <1>3, <1>4 DEF Recorded

LEMMA ToldKept ==
  ASSUME IInv, IInv', Stacked, Queued, Suspended, Suspended', RefusedLast, DataApart, DataApart',
         Unbroken({"refused", "fail"}), Unbroken({"refused", "fail"})',
         [Next]_vars, NEW h \in Handle, VerdictOf(h)
  PROVE  Told(h)'
<1>1. SUFFICES ASSUME rh'[h].client, InJobs(h)', verdicts'[h] # 0
               PROVE  (rh'[h].cancelled \/ Telling(h)') /\ Recorded(h)'
  BY DEF Told, Recorded
<1>2. CASE Speaks(h)
  BY <1>1, <1>2, SpeaksTold
<1>3. CASE ~Speaks(h)
  <2>1. verdicts[h] # 0
    BY <1>1, <1>3, NewVerdict
  <2>2. InJobs(h)
    BY <1>1, <2>1, MoreJobs, StartsTake, TakenUntold
  <2>3. rh[h].client /\ (rh[h].cancelled => rh'[h].cancelled)
    BY <1>1, ClientKept
  <2>4. (rh[h].cancelled \/ Telling(h)) /\ Recorded(h)
    BY <2>1, <2>2, <2>3 DEF VerdictOf, Told, Recorded
  <2>5. QED
    BY <1>1, <2>1, <2>2, <2>3, <2>4, TellingKept, RecordedKept
<1>4. QED
  BY <1>2, <1>3

(* As long as no client that is told of a failure stops at a breakpoint, a   *)
(* client is told the end of its load at most once.                          *)
Verdicts == \A h \in Handle : VerdictOf(h)

THEOREM JobsToldOnce == Spec /\ []Unbroken({"refused", "fail"}) => []Verdicts
<1>1. Init => Verdicts
  BY DEF Init, Verdicts, VerdictOf, Intact, Sound, Untold, Told, InJobs, Height
<1>2. ASSUME IInv, IInv', Stacked, Stacked', Queued, Suspended, Suspended', Bracket, Referenced, Referenced',
             Unbroken({"refused", "fail"}), Unbroken({"refused", "fail"})', Verdicts, [Next]_vars
      PROVE  Verdicts'
  <2>1. ASSUME NEW h \in Handle PROVE VerdictOf(h)'
    <3>1. VerdictOf(h) /\ RefusedLast /\ DataApart /\ DataApart'
      BY <1>2 DEF Verdicts, Bracket, Referenced
    <3>2. Intact(h)'
      BY <1>2, <3>1, IntactKept DEF VerdictOf
    <3>3. Sound(h)'
      BY <1>2, <3>1, SoundKept DEF VerdictOf
    <3>4. Untold(h)'
      BY <1>2, <3>1, UntoldKept
    <3>5. Told(h)'
      BY <1>2, <3>1, ToldKept
    <3>6. verdicts'[h] <= 1
      BY <1>2, <3>1, NewVerdict
    <3>7. QED
      BY <3>2, <3>3, <3>4, <3>5, <3>6 DEF VerdictOf
  <2>2. QED
    BY <2>1 DEF Verdicts
<1>3. Unbroken({"refused", "fail"}) => Unbroken({"refused"})
  BY DEF Unbroken
<1>4. QED
  BY <1>1, <1>2, <1>3, Invariance, CallersRight, QueueKept, InterruptedLoadsRest, JobsBracketed, JobsReferenced,
     PTL DEF Spec

THEOREM ToldOnce == Spec /\ []Unbroken({"refused", "fail"}) => []OneVerdict
<1>1. Verdicts => OneVerdict
  BY DEF Verdicts, VerdictOf, OneVerdict
<1>2. QED
  BY <1>1, JobsToldOnce, PTL

-----------------------------------------------------------------------------
(* The outermost activation.                                                 *)

LEMMA WhileLooping ==
  ASSUME [Next]_vars, stack # <<>>, Top.at \in LoopAt
  PROVE  UNCHANGED vars \/ LoopSteps \/ \E h \in Handle : JobSteps(h)
<1>1. ~Idle /\ ~AppRuns
  BY DEF TopAt, Idle, AppRuns, LoopAt
<1>2. ASSUME NEW x \in Handle PROVE ~TransferSteps(x)
  BY DEF TransferSteps, DataReceived, DataDone, TransferEnds, InTransfer, TopAt, LoopAt
<1>3. ~ClientReturns
  BY DEF ClientReturns, ReturnFromResponse, ReturnFromHeaders, ReturnFromCall,
     ReturnFromVerdict, ReturnFromRefused, NextURLCall, ReturnFromURLDone, Returning, TopAt, LoopAt
<1>4. ~Environment
  BY <1>1 DEF Environment, Add, Cancel, HeadersReceived, RunScript, ShutdownView, Purge,
     Break, Resume, Tick, TimerFires, RemoveTransportHandler, ScriptRuns, TopAt, LoopAt
<1>5. QED
  BY <1>2, <1>3, <1>4 DEF Next

(* The loop on top of the stack goes on with what it was called for, or ends.*)
SameErrand(f, g) == f.at \in LoopAt /\ f.src = g.src /\ f.view = g.view

LEMMA LoopSteady ==
  ASSUME IInv, IInv', [Next]_vars, stack # <<>>, Top.at \in LoopAt
  PROVE  \/ stack' = Return /\ (RestartDone \/ HandlerRemoved \/ PageDeleted)
         \/ /\ Height \in 1..Height' /\ Agree(Height - 1) /\ SameErrand(stack'[Height], Top)
            /\ stack'[Height].at = Top.at \/ StartDone \/ RunDone \/ RemoveDone \/ ProcessJobsDone
<1>1. Top \in LoopFrame /\ Height \in 1..Height /\ Height \in Nat /\ Top = stack[Height]
  BY LoopOnTop, TopTypes
<1> DEFINE Steady == Height \in 1..Height' /\ Agree(Height - 1) /\ SameErrand(stack'[Height], Top)
<1>2. ASSUME NEW f, SameErrand(f, Top), stack' = Becomes(f) \/ \E g : stack' = SteppedCalling(f, g)
      PROVE  Steady /\ stack'[Height] = f
  BY <1>1, <1>2, StepMoves, StepCallMoves
<1>3. ASSUME stack' = stack \/ \E g : stack' = WithCall(g)
      PROVE  Steady /\ stack'[Height].at = Top.at
  <2>1. CASE stack' = stack
    <3>1. Height' = Height /\ stack'[Height] = Top
      BY <1>1, <2>1 DEF Height
    <3>2. Agree(Height - 1)
      BY <2>1 DEF Agree
    <3>3. QED
      BY <1>1, <3>1, <3>2 DEF SameErrand
  <2>2. ASSUME NEW g, stack' = WithCall(g) PROVE Steady /\ stack'[Height].at = Top.at
    <3>1. Height' = Height + 1 /\ Agree(Height)
      BY <2>2, CallMoves
    <3>2. stack'[Height] = Top /\ Agree(Height - 1) /\ Height \in 1..Height'
      BY <1>1, <3>1 DEF Agree
    <3>3. QED
      BY <3>2 DEF SameErrand
  <2>3. QED
    BY <1>3, <2>1, <2>2
<1> HIDE DEF Steady
<1>4. ASSUME NEW x, NEW t PROVE LET f == [Top EXCEPT !.it = x, !.told = t] IN SameErrand(f, Top) /\ f.at = Top.at
  BY <1>1 DEF LoopFrame, SameErrand
<1>5. LET f == [Top EXCEPT !.told = TRUE]
      IN SameErrand(f, Top) /\ f.at = Top.at
  BY <1>1 DEF LoopFrame, SameErrand
<1>6. ASSUME NEW b PROVE LET f == [Top EXCEPT !.busy = b] IN SameErrand(f, Top) /\ f.at = Top.at
  BY <1>1 DEF LoopFrame, SameErrand
<1>7. CASE LoopSteps
  <2>1. CASE RestartDone \/ HandlerRemoved \/ PageDeleted
    BY <2>1 DEF RestartDone, HandlerRemoved, PageDeleted
  <2>2. ASSUME NEW l \in LoopAt, NEW x, stack' = Becomes([Top EXCEPT !.at = l, !.it = x]) PROVE Steady
    <3> DEFINE f == [Top EXCEPT !.at = l, !.it = x]
    <3>1. SameErrand(f, Top)
      BY <1>1 DEF LoopFrame, SameErrand
    <3> HIDE DEF f
    <3>2. QED
      BY <1>2, <2>2, <3>1 DEF f
  <2>3. CASE StartDone
    BY <2>2, <2>3 DEF StartDone, LoopAt, Steady
  <2>4. CASE RunDone
    <3> DEFINE l == IF condemned THEN "remove" ELSE "check"
               x == IF condemned THEN FirstJob ELSE None
    <3>1. l \in LoopAt /\ stack' = Becomes([Top EXCEPT !.at = l, !.it = x])
      BY <2>4 DEF RunDone, LoopAt
    <3> HIDE DEF l, x
    <3>2. QED
      BY <2>2, <2>4, <3>1 DEF Steady
  <2>5. CASE RemoveDone
    <3> DEFINE f == [Top EXCEPT !.at = "check"]
    <3>1. SameErrand(f, Top)
      BY <1>1 DEF LoopFrame, SameErrand, LoopAt
    <3>2. stack' = Becomes(f)
      BY <2>5 DEF RemoveDone
    <3> HIDE DEF f
    <3>3. QED
      BY <1>2, <2>5, <3>1, <3>2 DEF Steady
  <2>6. CASE ProcessJobsDone
    <3> DEFINE b == (jobs # <<>>)
               f == [Top EXCEPT !.at = "restart", !.busy = b]
    <3>1. stack' = Becomes(f)
      BY <2>6 DEF ProcessJobsDone
    <3> HIDE DEF b
    <3>2. SameErrand(f, Top)
      BY <1>1 DEF LoopFrame, SameErrand, LoopAt
    <3> HIDE DEF f
    <3>3. QED
      BY <1>2, <2>6, <3>1, <3>2 DEF Steady
  <2>7. QED
    BY <1>7, <2>1, <2>3, <2>4, <2>5, <2>6 DEF LoopSteps, Steady
<1>8. ASSUME NEW h \in Handle, JobSteps(h) PROVE Steady /\ stack'[Height].at = Top.at
  <2>1. CASE StartDataURL(h) \/ StartJob(h) \/ StartRefused(h)
    <3> DEFINE b == (Top.at = "restart")
               f == [Top EXCEPT !.busy = b]
    <3>1. Started = Becomes(f)
      BY DEF Started
    <3>2. stack' = Started \/ \E g : stack' = Append(Started, g)
      BY <2>1 DEF StartDataURL, StartJob, StartRefused
    <3> HIDE DEF b
    <3>3. SameErrand(f, Top) /\ f.at = Top.at
      BY <1>6
    <3> HIDE DEF f
    <3>4. QED
      BY <1>2, <3>1, <3>2, <3>3 DEF SteppedCalling
  <2>2. CASE stack' = Advance
    <3> DEFINE x == JobAfter(Top.it)
               f == [Top EXCEPT !.it = x, !.told = FALSE]
    <3>1. stack' = Becomes(f)
      BY <2>2 DEF Advance
    <3> HIDE DEF x
    <3>2. SameErrand(f, Top) /\ f.at = Top.at
      BY <1>4
    <3> HIDE DEF f
    <3>3. QED
      BY <1>2, <3>1, <3>2
  <2>3. CASE NotifyJobFailed(h)
    <3> DEFINE f == [Top EXCEPT !.told = TRUE]
    <3>1. stack' = Becomes(f) \/ \E g : stack' = SteppedCalling(f, g)
      BY <2>3 DEF NotifyJobFailed, SteppedCalling
    <3>2. SameErrand(f, Top) /\ f.at = Top.at
      BY <1>5
    <3> HIDE DEF f
    <3>3. QED
      BY <1>2, <3>1, <3>2
  <2>4. CASE stack' = stack \/ \E g : stack' = WithCall(g)
    BY <1>3, <2>4
  <2>5. QED
    BY <1>8, <2>1, <2>2, <2>3, <2>4 DEF JobSteps, CondemnCancelled, SkipPaused, CallHandler, CallTransfer,
      CondemnAgain, KeepJob, RemoveJob, PageCancels, WithCall
<1>9. CASE UNCHANGED vars
  BY <1>3, <1>9 DEF vars, Steady
<1>10. QED
  BY <1>7, <1>8, <1>9, WhileLooping DEF Steady

(* What is below or on top, and no loop, is none afterwards.                 *)
LEMMA NoLoopSteady ==
  ASSUME IInv, IInv', Stacked, [Next]_vars, stack # <<>>, Top.at \notin LoopAt, Height' >= Height
  PROVE  stack'[Height].at \notin LoopAt
<1>1. Height \in Nat /\ Height \in 1..Height /\ Top = stack[Height] /\ Top \in GoodFrame
  BY TopTypes
<1>2. Top.at \in {"client", "transfer"}
  BY <1>1 DEF GoodFrame, Frame, LoopFrame, TransferFrame, ClientFrame
<1>3. ASSUME NEW f, f.at \notin LoopAt, stack' = Becomes(f) \/ \E g : stack' = SteppedCalling(f, g)
      PROVE  stack'[Height].at \notin LoopAt
  BY <1>1, <1>3, StepMoves, StepCallMoves
<1>4. CASE stack' = stack \/ \E g : stack' = WithCall(g)
  BY <1>1, <1>4, CallMoves DEF Agree
<1>5. CASE TopAt("client")
  <2>1. CASE Break \/ Resume
    <3>1. PICK b \in BOOLEAN : stack' = Becomes([Top EXCEPT !.brk = b])
      BY <2>1 DEF Break, Resume
    <3>2. Top'.at = "client" /\ Top' = stack'[Height]
      BY <1>5, <3>1, BrkSteps
    <3>3. QED
      BY <3>2 DEF LoopAt
  <2>2. CASE ClientReturns
    <3>1. ~ReturnSteps
      BY <1>1, ReturnStepsCalm
    <3>2. PICK next : CallsNext(next)
      BY <2>2, <3>1, ClientReturnsIs, NextURLCallIs
    <3> DEFINE f == ClientCall(Top.it, next)
    <3>3. stack' = Becomes(f)
      BY <3>2 DEF CallsNext
    <3>4. f.at \notin LoopAt
      BY DEF ClientCall, LoopAt
    <3> HIDE DEF f
    <3>5. QED
      BY <1>3, <3>3, <3>4
  <2>3. QED
    BY <1>4, <1>5, <2>1, <2>2, WhileClient
<1>6. CASE TopAt("transfer")
  <2>1. ~\E h \in Handle : TransferEnds(h)
    BY <1>1, TransferEndsIs
  <2>2. Top \in TransferFrame
    BY <1>6, TransferOnTop
  <2>3. ASSUME NEW x, NEW y
        PROVE  [Top EXCEPT !.got = x].at \notin LoopAt /\ [Top EXCEPT !.done = y].at \notin LoopAt
    BY <2>2 DEF TransferFrame, LoopAt
  <2>4. ASSUME NEW h \in Handle, DataReceived(h) PROVE stack'[Height].at \notin LoopAt
    <3> DEFINE f == [Top EXCEPT !.got = TRUE]
    <3>1. stack' = Becomes(f) \/ \E g : stack' = SteppedCalling(f, g)
      BY <2>4 DEF DataReceived, SteppedCalling
    <3>2. f.at \notin LoopAt
      BY <2>3
    <3> HIDE DEF f
    <3>3. QED
      BY <1>3, <3>1, <3>2
  <2>5. ASSUME NEW h \in Handle, NEW result \in BOOLEAN, DataDone(h, result) PROVE stack'[Height].at \notin LoopAt
    <3> DEFINE y == DoneAs(result)
               f == [Top EXCEPT !.done = y]
    <3>1. stack' = Becomes(f) \/ \E g : stack' = SteppedCalling(f, g)
      BY <2>5 DEF DataDone, SteppedCalling, DoneAs
    <3>2. f.at \notin LoopAt
      BY <2>3
    <3> HIDE DEF f
    <3>3. QED
      BY <1>3, <3>1, <3>2
  <2>6. QED
    BY <1>4, <1>6, <2>1, <2>4, <2>5, WhileTransfer
<1>7. QED
  BY <1>2, <1>5, <1>6 DEF TopAt

-----------------------------------------------------------------------------
(* ShutdownView.  Its loop is outermost, and goes on until the page is       *)
(* deleted.                                                                  *)
ViewLoop(v) == Height > 0 /\ stack[1].at \in LoopAt /\ stack[1].src = "view" /\ stack[1].view = v

LEMMA ViewLoopOutermost ==
  ASSUME IInv, Stacked, NEW i \in 1..Height, stack[i].at \in LoopAt, stack[i].src = "view"
  PROVE  i = 1
<1>1. Height \in Nat
  BY StackTypes
<1>2. ASSUME i # 1 PROVE FALSE
  <2>1. i \in 2..Height
    BY <1>1, <1>2
  <2>2. CalledBy(stack[i - 1], stack[i])
    BY <2>1 DEF Stacked
  <2>3. QED
    BY <2>2 DEF CalledBy, LoopAt
<1>3. QED
  BY <1>2

LEMMA LeavingIs ==
  ASSUME IInv, Stacked, NEW v PROVE v \in Leaving <=> v \in closed \/ ViewLoop(v)
<1>1. Height \in Nat /\ DOMAIN stack = 1..Height
  BY StackTypes
<1>2. v \in Leaving <=> v \in closed \/ \E i \in 1..Height : stack[i].at \in LoopAt /\ stack[i].src = "view" /\ stack[i].view = v
  BY <1>1 DEF Leaving, Loops
<1>3. QED
  BY <1>1, <1>2, ViewLoopOutermost DEF ViewLoop

LEMMA BottomBelow ==
  ASSUME IInv, IInv', Stacked, [Next]_vars, Height > 1
  PROVE  /\ Height' > 0
         /\ \/ stack'[1] = stack[1]
            \/ stack[1].at = "run" /\ stack'[1].at = "run" /\ SameErrand(stack'[1], stack[1])
<1>1. Height \in Nat /\ 1 \in 1..(Height - 1)
  BY StackTypes
<1>2. CASE 1 \in 1..Height' /\ stack'[1] = stack[1]
  BY <1>2, NextTypes
<1>3. ASSUME NEW h \in Handle, TransferEnds(h), 1 = Height - 1, stack[1].at = "run"
      PROVE  Height' > 0 /\ stack'[1].at = "run" /\ SameErrand(stack'[1], stack[1])
  <2>1. Under = stack[1] /\ Last(Front(stack)) = stack[1] /\ Len(stack) - 1 = 1
    <3>1. Len(stack) = 2 /\ stack # <<>> /\ Last(stack).at = "transfer"
      BY <1>1, <1>3, StackTypes DEF Height, TransferEnds, TopAt, Top
    <3>2. WellStacked(stack)
      BY DEF IInv
    <3>3. Last(Front(stack)) = stack[Len(stack) - 1]
      BY <3>1, <3>2, StackReturns
    <3>4. QED
      BY <3>1, <3>3 DEF Under, Height
  <2> DEFINE x == JobAfter(h)
             f == [stack[1] EXCEPT !.it = x, !.told = FALSE]
  <2>2. stack' = ReturnedTo(f)
    BY <1>3, <2>1 DEF TransferEnds, ReturnedTo
  <2> HIDE DEF x
  <2>3. stack[1] \in LoopFrame
    <3>1. stack[1] \in GoodFrame
      BY <1>1, StackTypes
    <3>2. QED
      BY <1>3, <3>1 DEF GoodFrame, Frame, LoopFrame, TransferFrame, ClientFrame
  <2>4. f.at = "run" /\ SameErrand(f, stack[1])
    BY <1>3, <2>3 DEF LoopFrame, SameErrand, LoopAt
  <2> HIDE DEF f
  <2>5. Height' = Height - 1 /\ stack'[Height - 1] = f
    BY <1>1, <2>2, ReturnStepMoves
  <2>6. QED
    BY <1>1, <1>3, <2>4, <2>5
<1>4. QED
  BY <1>1, <1>2, <1>3, BelowStays

(* The loop of ShutdownView goes on for the same View, in the same place     *)
(* unless it is on top of the stack.                                         *)
LEMMA ViewLoopGoesOn ==
  ASSUME IInv, IInv', Stacked, [Next]_vars, NEW v, ViewLoop(v)
  PROVE  \/ PageDeleted /\ Height = 1 /\ v = Top.view
         \/ /\ ViewLoop(v)'
            /\ \/ stack'[1].at = stack[1].at
               \/ Height = 1 /\ TopAt("run") /\ RunDone
               \/ Height = 1 /\ TopAt("remove") /\ RemoveDone
<1>1. Height \in Nat /\ Height > 0
  BY StackTypes DEF ViewLoop
<1>2. CASE Height > 1
  <2>1. Height' > 0 /\ (stack'[1] = stack[1] \/ (stack[1].at = "run" /\ stack'[1].at = "run" /\ SameErrand(stack'[1], stack[1])))
    BY <1>2, BottomBelow
  <2>2. QED
    BY <2>1 DEF ViewLoop, SameErrand
<1>3. CASE Height = 1
  <2>1. stack # <<>> /\ Top = stack[1] /\ Top \in GoodFrame
    BY <1>3, StackTypes
  <2>2. Top.at \in LoopAt /\ Top.src = "view" /\ Top.view = v /\ Top.at \notin {"start", "restart"}
    BY <2>1 DEF ViewLoop, GoodFrame
  <2>3. ~StartDone /\ ~RestartDone /\ ~ProcessJobsDone /\ ~HandlerRemoved
    BY <2>2 DEF StartDone, RestartDone, ProcessJobsDone, HandlerRemoved, TopAt
  <2>4. CASE PageDeleted
    BY <1>3, <2>2, <2>4
  <2>5. CASE /\ Height \in 1..Height' /\ Agree(Height - 1) /\ SameErrand(stack'[Height], Top)
             /\ stack'[Height].at = Top.at \/ RunDone \/ RemoveDone
    <3>1. Height' > 0
      BY <1>3, <2>5, NextTypes
    <3>2. ViewLoop(v)'
      BY <1>3, <2>2, <2>5, <3>1 DEF ViewLoop, SameErrand
    <3>3. QED
      BY <1>3, <2>1, <2>5, <3>2 DEF RunDone, RemoveDone
  <2>6. QED
    BY <2>1, <2>2, <2>3, <2>4, <2>5, LoopSteady
<1>4. QED
  BY <1>1, <1>2, <1>3

LEMMA ViewLoopStarts ==
  ASSUME IInv, IInv', Stacked, [Next]_vars, NEW v, ViewLoop(v)'
  PROVE  ViewLoop(v) \/ ShutdownView(v)
<1>1. Height \in Nat
  BY StackTypes
<1>2. CASE Height > 1
  <2>1. stack'[1] = stack[1] \/ (stack[1].at = "run" /\ stack'[1].at = "run" /\ SameErrand(stack'[1], stack[1]))
    BY <1>2, BottomBelow
  <2>2. stack'[1].at \in LoopAt /\ stack'[1].src = "view" /\ stack'[1].view = v
    BY DEF ViewLoop
  <2>3. stack[1].at \in LoopAt /\ stack[1].src = "view" /\ stack[1].view = v
    BY <2>1, <2>2 DEF SameErrand, LoopAt
  <2>4. QED
    BY <1>1, <1>2, <2>3 DEF ViewLoop
<1>3. CASE Height = 1
  <2>1. stack # <<>> /\ Top = stack[1]
    BY <1>3, StackTypes
  <2>2. Height' >= Height
    BY <1>3, NextTypes DEF ViewLoop
  <2>3. Top.at \in LoopAt
    BY <1>3, <2>1, <2>2, NoLoopSteady DEF ViewLoop
  <2>4. stack' # Return
    <3>1. ASSUME stack' = Return PROVE Height' = Height - 1
      BY <2>1, <3>1, ReturnMoves
    <3>2. QED
      BY <1>3, <2>2, <3>1
  <2>5. SameErrand(stack'[1], stack[1])
    BY <1>3, <2>1, <2>3, <2>4, LoopSteady
  <2>6. QED
    BY <1>3, <2>1, <2>3, <2>5 DEF ViewLoop, SameErrand
<1>4. CASE Height = 0
  <2>1. Idle /\ stack = <<>>
    BY <1>4, StackTypes DEF Idle
  <2>2. Height' > 0
    BY NextTypes DEF ViewLoop
  <2>3. stack' # stack
    BY <1>4, <2>2 DEF Height
  <2>4. ~ClientReturns /\ ~LoopSteps
    BY <2>1 DEF ClientReturns, ReturnFromResponse, ReturnFromHeaders, ReturnFromCall,
     ReturnFromVerdict, ReturnFromRefused, NextURLCall, ReturnFromURLDone, Returning, TopAt,
     LoopSteps, StartDone, RestartDone, RunDone, RemoveDone, ProcessJobsDone, HandlerRemoved, PageDeleted
  <2>5. ASSUME NEW x \in Handle PROVE ~JobSteps(x) /\ ~TransferSteps(x)
    BY <2>1 DEF JobSteps, TransferSteps, StartDataURL, StartJob, StartRefused, CondemnCancelled,
     SkipPaused, CallHandler, CallTransfer, CondemnAgain, KeepJob, NotifyJobFailed, RemoveJob,
     PageCancels, DeletingPage, Starting, AtState, AtJob, AtRemove, TopAt, InTransfer,
     DataReceived, DataDone, TransferEnds
  <2>6. ASSUME NEW g, stack' = Append(stack, g) PROVE stack'[1] = g
    BY <1>4, <2>6, CallMoves DEF WithCall
  <2>7. ASSUME NEW at, NEW src, NEW w, stack' = Append(stack, NewLoop(at, src, w))
        PROVE  src = "view" /\ w = v
    BY <2>6, <2>7 DEF NewLoop, ViewLoop
  <2>8. ~Tick /\ ~TimerFires /\ ~RemoveTransportHandler
    BY <2>7 DEF Tick, TimerFires, RemoveTransportHandler, Purge
  <2>9. ASSUME NEW x \in Handle PROVE ~Add(x) /\ ~Cancel(x) /\ ~HeadersReceived(x)
    <3>1. ~Add(x) /\ ~Cancel(x)
      BY <2>3 DEF Add, Cancel
    <3>2. ASSUME NEW cb, stack' = Append(stack, ClientCall(x, cb)) PROVE FALSE
      BY <2>6, <3>2 DEF ClientCall, ViewLoop, LoopAt
    <3>3. ~HeadersReceived(x)
      BY <2>3, <3>2 DEF HeadersReceived
    <3>4. QED
      BY <3>1, <3>3
  <2>10. ASSUME NEW w \in View, RunScript(w) PROVE FALSE
    <3> DEFINE g == [at |-> "client", it |-> None, cb |-> "script", view |-> w, brk |-> FALSE]
    <3>1. stack' = Append(stack, g)
      BY <2>10 DEF RunScript
    <3>2. g.at = "client"
      OBVIOUS
    <3> HIDE DEF g
    <3>3. QED
      BY <2>6, <3>1, <3>2 DEF ViewLoop, LoopAt
  <2>11. ASSUME NEW w \in View, ShutdownView(w) PROVE w = v
    BY <2>7, <2>11 DEF ShutdownView, Purge
  <2>12. ~Break /\ ~Resume
    BY <2>1 DEF Break, Resume, ScriptRuns, TopAt
  <2>13. QED
    BY <2>3, <2>4, <2>5, <2>8, <2>9, <2>10, <2>11, <2>12 DEF Next, Environment, vars
<1>5. QED
  BY <1>1, <1>2, <1>3, <1>4

LEMMA MoreWaiting ==
  ASSUME IInv, Queued, [Next]_vars, NEW h \in Handle, Waiting(h)'
  PROVE  Waiting(h) \/ Add(h)
<1>1. pending \in Seq(Handle) /\ Distinct(pending)
  BY QueueIs DEF IInv, DataOK, Queued
<1>2. ASSUME pending' = pending PROVE Waiting(h)
  BY <1>2 DEF Waiting
<1>3. ASSUME NEW x \in Handle, Add(x) PROVE Waiting(h) \/ h = x
  <2>1. pending' = Append(pending, x)
    BY <1>3 DEF Add
  <2>2. /\ Len(pending') = Len(pending) + 1 /\ pending'[Len(pending) + 1] = x
        /\ \A i \in 1..Len(pending) : pending'[i] = pending[i]
    BY <1>1, <2>1, AppendIs
  <2>3. DOMAIN pending = 1..Len(pending) /\ DOMAIN pending' = 1..(Len(pending) + 1) /\ Len(pending) \in Nat
    BY <1>1, <2>1
  <2>4. QED
    BY <2>2, <2>3 DEF Waiting
<1>4. ASSUME NEW x \in Handle, CancelHandle(x) PROVE Waiting(h)
  <2>1. ASSUME NEW i \in DOMAIN pending, pending' = RemoveAt(pending, i) PROVE Waiting(h)
    <3>1. \A y : In(y, pending') <=> In(y, pending) /\ y # pending[i]
      BY <1>1, <2>1, RemoveAtDistinct
    <3>2. QED
      BY <3>1, QueueIs, NextQueueIs
  <2>2. pending' = pending \/ \E i \in DOMAIN pending : pending' = RemoveAt(pending, i)
    BY <1>4 DEF CancelHandle
  <2>3. QED
    BY <1>2, <2>1, <2>2
<1>5. ASSUME NEW x \in Handle, StartDataURL(x) \/ StartJob(x) \/ StartRefused(x) PROVE Waiting(h)
  <2>1. pending # <<>> /\ pending' = Tail(pending)
    BY <1>5 DEF StartDataURL, StartJob, StartRefused, MayStart
  <2>2. \A y : In(y, pending') <=> In(y, pending) /\ y # Head(pending)
    BY <1>1, <2>1, TailDistinct
  <2>3. QED
    BY <2>2, QueueIs, NextQueueIs
<1>6. QED
  BY <1>2, <1>3, <1>4, <1>5, NextRefs DEF ReturnFromRefused, ReturnFromURLDone, RemoveJob

LEMMA TakenWaits == ASSUME IInv, NEW h \in Handle, Taken(h) PROVE Waiting(h)
<1>1. pending \in Seq(Handle) /\ pending # <<>> /\ h = Head(pending)
  BY DEF IInv, DataOK, Taken
<1>2. 1 \in DOMAIN pending /\ pending[1] = h
  BY <1>1
<1>3. QED
  BY <1>2 DEF Waiting

LEMMA MoreTouched ==
  ASSUME IInv, IInv', Stacked, Queued, [Next]_vars, NEW h \in Handle, Touched(h)'
  PROVE  Touched(h) \/ Taken(h)
<1>1. CASE InJobs(h)'
  BY <1>1, MoreJobs, StartsTake DEF Touched
<1>2. ASSUME NEW i \in 1..Height', About(stack'[i], h) PROVE Touched(h) \/ Taken(h)
  <2>1. CASE \E m : Moved(m)
    BY <1>2, <2>1, MovedKeepsNames
  <2>2. CASE Break \/ Resume
    <3>1. PICK b \in BOOLEAN : TopAt("client") /\ stack' = Becomes([Top EXCEPT !.brk = b])
      BY <2>2 DEF Break, Resume, ScriptRuns
    <3>2. /\ Height \in Nat /\ Height > 0 /\ Height' = Height /\ Agree(Height - 1)
          /\ Top' = stack'[Height] /\ Top = stack[Height] /\ Top'.it = Top.it
      BY <3>1, BrkSteps
    <3>3. Top.at = "client"
      BY <3>1 DEF TopAt
    <3>4. About(stack[i], h)
      BY <1>2, <3>2, <3>3 DEF About, Agree
    <3>5. QED
      BY <1>2, <3>2, <3>4 DEF Touched
  <2>3. QED
    BY <2>1, <2>2, NextMoved
<1>3. Touched(h)' <=> InJobs(h)' \/ \E i \in 1..Height' : About(stack'[i], h)
  BY DEF Touched, About
<1>4. QED
  BY <1>1, <1>2, <1>3

(* While a View is shut down no client is at a breakpoint: a nested loop     *)
(* could start what the View's script has just asked for.                    *)
Unhindered == \A v \in View : ViewLoop(v) => \A i \in 1..Height : ~Brk(stack[i])

(* The jobs of a View that is shut down are condemned, and gone when the     *)
(* removal loop has ended; of a closed View nothing is left.                 *)
Clearing(h) ==
  ViewLoop(ViewOf[h]) => /\ InJobs(h) => info[h].state = "Remove" /\ stack[1].at \in {"run", "remove"}
                         /\ \A i \in 1..Height : ~IsTransfer(stack[i], h)
Cleared(h) == ViewOf[h] \in closed => ~Waiting(h) /\ ~Touched(h)

LEMMA NoStartInShutdown ==
  ASSUME IInv, Stacked, Unhindered, NEW v \in View, ViewLoop(v) PROVE ~Starting
<1>1. SUFFICES ASSUME Starting PROVE FALSE
  OBVIOUS
<1>2. stack # <<>> /\ Top.at \in {"start", "restart"} /\ Top \in GoodFrame /\ Top = stack[Height] /\ Height \in Nat
  BY <1>1, TopTypes DEF Starting, TopAt
<1>3. CASE Height = 1
  BY <1>2, <1>3 DEF ViewLoop, GoodFrame
<1>4. CASE Height > 1
  <2>1. Height \in 2..Height /\ Height - 1 \in 1..Height
    BY <1>2, <1>4
  <2>2. CalledBy(stack[Height - 1], Top)
    BY <1>2, <2>1 DEF Stacked
  <2>3. QED
    BY <1>2, <2>1, <2>2 DEF CalledBy, Unhindered
<1>5. QED
  BY <1>2, <1>3, <1>4 DEF ViewLoop

LEMMA ClearingStarts ==
  ASSUME IInv, IInv', NEW h \in Handle, ShutdownView(ViewOf[h]) PROVE Clearing(h)'
<1> DEFINE v == ViewOf[h]
           S == {x \in Handle : ViewOf[x] = v}
           f == NewLoop("run", "view", v)
<1>1. Purge(S, "view", v)
  BY DEF ShutdownView
<1>2. stack = <<>> /\ stack' = WithCall(f) /\ jobs' = jobs /\ Condemn({x \in S : InJobs(x)})
  BY <1>1 DEF Purge, Idle, WithCall
<1>3. f.at = "run"
  BY DEF NewLoop
<1> HIDE DEF f
<1>4. Height = 0 /\ Height' = 1 /\ stack'[1] = f
  BY <1>2, CallMoves DEF Height
<1>5. InJobs(h)' => info'[h].state = "Remove"
  <2>1. h \in {x \in S : InJobs(x)} => info'[h].state = "Remove"
    BY <1>2, CondemnIs
  <2>2. QED
    BY <1>2, <2>1 DEF InJobs
<1>6. \A i \in 1..Height' : ~IsTransfer(stack'[i], h)
  BY <1>3, <1>4 DEF IsTransfer
<1>7. QED
  BY <1>3, <1>4, <1>5, <1>6 DEF Clearing

LEMMA ClearingKept ==
  ASSUME IInv, IInv', Stacked, Queued, Condemnation, Unhindered, [Next]_vars, NEW h \in Handle, Clearing(h)
  PROVE  Clearing(h)'
<1> DEFINE v == ViewOf[h]
<1>1. SUFFICES ASSUME ViewLoop(v)', ~ShutdownView(v) PROVE Clearing(h)'
  BY ClearingStarts DEF Clearing
<1>2. ViewLoop(v) /\ v \in View
  BY <1>1, ViewLoopStarts, ViewAssumption
<1>3. ~StartJob(h) /\ ~StartRefused(h)
  BY <1>2, NoStartInShutdown DEF StartJob, StartRefused
<1>4. ~CallTransfer(h) /\ ~CallHandler(h)
  BY <1>2 DEF CallTransfer, CallHandler, AtState, AtJob, Clearing
<1>5. ~TransferEnds(h)
  <2>1. SUFFICES ASSUME TransferEnds(h) PROVE FALSE
    OBVIOUS
  <2>2. TopAt("transfer") /\ Top.it = h
    BY <2>1 DEF TransferEnds
  <2>3. Height \in 1..Height /\ IsTransfer(stack[Height], h)
    BY <2>2, TopTypes DEF TopAt, IsTransfer
  <2>4. QED
    BY <1>2, <2>3 DEF Clearing
<1>6. JobRests(h) /\ (InJobs(h)' => InJobs(h))
  BY <1>3, <1>4, <1>5, NextJob
<1>7. \A i \in 1..Height' : ~IsTransfer(stack'[i], h)
  BY <1>2, <1>4, TransferGoesOn DEF Clearing
<1>8. ASSUME InJobs(h)' PROVE info'[h].state = "Remove" /\ stack'[1].at \in {"run", "remove"}
  <2>1. InJobs(h) /\ info[h].state = "Remove" /\ stack[1].at \in {"run", "remove"} /\ Dead(h)
    BY <1>2, <1>6, <1>8 DEF Clearing, Dead
  <2>2. info'[h].state = "Remove"
    BY <1>6, <2>1 DEF JobRests
  <2>3. ~(Height = 1 /\ PageDeleted)
    <3>1. SUFFICES ASSUME Height = 1, PageDeleted PROVE FALSE
      OBVIOUS
    <3>2. Top.at = "check" /\ Top = stack[1]
      BY <3>1, TopTypes DEF PageDeleted, TopAt
    <3>3. QED
      BY <2>1, <3>2
  <2>4. CASE stack'[1].at = stack[1].at
    BY <2>1, <2>2, <2>4
  <2>5. CASE RunDone /\ Height = 1
    <3>1. condemned
      BY <2>1 DEF Condemnation, DeadIsNoted
    <3>2. Top'.at = "remove" /\ Height' = 1 /\ Top' = stack'[1]
      BY <2>5, <3>1, RunDoneCalm, NextTypes
    <3>3. QED
      BY <2>2, <3>2
  <2>6. CASE RemoveDone /\ Height = 1
    <3>1. TopAt("remove") /\ Top.it = None /\ stack # <<>> /\ Top.at = "remove"
      BY <2>6 DEF RemoveDone, TopAt
    <3>2. Innermost(1) /\ Top = stack[1]
      BY <2>6, <3>1, TopInnermost DEF LoopAt
    <3>3. Ahead(None, h)
      BY <2>1, <3>1, <3>2 DEF Condemnation, StillAhead
    <3>4. \E m \in DOMAIN jobs : jobs[m] = None
      BY <3>3 DEF Ahead
    <3>5. jobs \in Seq(Handle)
      BY DEF IInv, DataOK
    <3>6. None \in Handle
      BY <3>4, <3>5
    <3>7. QED
      BY <3>6, HandleAssumption
  <2>7. QED
    BY <1>2, <2>3, <2>4, <2>5, <2>6, ViewLoopGoesOn
<1>9. QED
  BY <1>7, <1>8 DEF Clearing

LEMMA ClosedBy ==
  ASSUME [Next]_vars, NEW v, v \in closed' PROVE v \in closed \/ (PageDeleted /\ v = Top.view)
<1>1. CASE UNCHANGED vars \/ LoopSteps
  BY <1>1 DEF vars, LoopSteps, StartDone, RestartDone, RunDone, RemoveDone, ProcessJobsDone,
       HandlerRemoved, PageDeleted
<1>2. CASE Environment
  BY <1>2 DEF Environment, Add, Cancel, HeadersReceived, RunScript, ShutdownView, Purge,
     Break, Resume, Tick, TimerFires, RemoveTransportHandler
<1>3. CASE ClientReturns
  BY <1>3 DEF ClientReturns, ReturnFromResponse, ReturnFromHeaders, ReturnFromCall, ReturnFromVerdict,
     ReturnFromRefused, NextURLCall, ReturnFromURLDone
<1>4. ASSUME NEW x \in Handle, JobSteps(x) PROVE closed' = closed
  BY <1>4 DEF JobSteps, StartDataURL, StartJob, StartRefused, CondemnCancelled, SkipPaused, CallHandler,
     CallTransfer, CondemnAgain, KeepJob, NotifyJobFailed, RemoveJob, PageCancels
<1>5. ASSUME NEW x \in Handle, TransferSteps(x) PROVE closed' = closed
  BY <1>5 DEF TransferSteps, DataReceived, DataDone, TransferEnds
<1>6. QED
  BY <1>1, <1>2, <1>3, <1>4, <1>5 DEF Next

LEMMA ClearedKept ==
  ASSUME IInv, IInv', Stacked, Queued, [Next]_vars, NEW h \in Handle, Clearing(h), Cleared(h)
  PROVE  Cleared(h)'
<1>1. SUFFICES ASSUME ViewOf[h] \in closed' PROVE ~Waiting(h)' /\ ~Touched(h)'
  BY DEF Cleared
<1>2. ASSUME ~Waiting(h), ~Touched(h), ~Add(h) PROVE ~Waiting(h)' /\ ~Touched(h)'
  BY <1>2, MoreWaiting, MoreTouched, TakenWaits
<1>3. CASE ViewOf[h] \in closed
  BY <1>2, <1>3 DEF Cleared, Add
<1>4. CASE PageDeleted /\ ViewOf[h] = Top.view
  <2>1. /\ stack # <<>> /\ Top.at = "check" /\ Top.src = "view" /\ ~DeletingPage(h) /\ TopAt("check")
        /\ Top = stack[Height] /\ Height \in 1..Height
    BY <1>4, TopTypes DEF PageDeleted, TopAt
  <2>2. Height = 1
    BY <2>1, ViewLoopOutermost DEF LoopAt
  <2>3. ViewLoop(ViewOf[h])
    BY <1>4, <2>1, <2>2 DEF ViewLoop, LoopAt
  <2>4. ~InJobs(h)
    BY <2>1, <2>2, <2>3 DEF Clearing
  <2>5. ~Touched(h)
    BY <2>1, <2>2, <2>4 DEF Touched, About
  <2>6. ~Holds(h)
    BY <1>4, <2>1 DEF DeletingPage
  <2>7. ~Waiting(h)
    BY <2>6 DEF Queued, Begun, Untouched, Holds
  <2>8. ~Add(h)
    BY <2>1 DEF Add, Idle, TopAt
  <2>9. QED
    BY <1>2, <2>5, <2>7, <2>8
<1>5. QED
  BY <1>1, <1>3, <1>4, ClosedBy

Closing == \A h \in Handle : Clearing(h) /\ Cleared(h)

(* As long as no client stops at a breakpoint while a View is shut down, its *)
(* jobs are condemned until they are gone, and what its page asks for in the *)
(* meantime goes with the page.                                              *)
THEOREM ClosedViewsCleared == Spec /\ []Unhindered => []Closing
<1>1. Init => Closing
  BY DEF Init, Closing, Clearing, Cleared, ViewLoop, Height
<1>2. ASSUME IInv, IInv', Stacked, Queued, Condemnation, Unhindered, Closing, [Next]_vars
      PROVE  Closing'
  <2>1. \A h \in Handle : Clearing(h)' /\ Cleared(h)'
    BY <1>2, ClearingKept, ClearedKept DEF Closing
  <2>2. QED
    BY <2>1 DEF Closing
<1>3. QED
  BY <1>1, <1>2, Invariance, CallersRight, QueueKept, CondemnedLookedFor, PTL DEF Spec

(* ViewForgotten: after ShutdownView the manager keeps nothing of the View,  *)
(* if no client has stopped at a breakpoint in the meantime, nor, ever, in   *)
(* the callback of a refused load.                                           *)
THEOREM ViewsForgotten == Spec /\ []Unbroken({"refused"}) /\ []Unhindered => []ViewForgotten
<1>1. ASSUME IInv, Closing, Referenced PROVE ViewForgotten
  <2>1. ASSUME NEW h \in Handle, ViewOf[h] \in closed PROVE refs[h] = 0 /\ ~Waiting(h) /\ ~InJobs(h)
    <3>1. ~Waiting(h) /\ ~Touched(h)
      BY <1>1, <2>1 DEF Closing, Cleared
    <3>2. ~InJobs(h) /\ ~Calling(h, URLCalls)
      BY <1>1, <3>1, StackTypes DEF Calling, Touched, About
    <3>3. QED
      BY <1>1, <3>1, <3>2 DEF Referenced, RefsRight
  <2>2. QED
    BY <2>1 DEF ViewForgotten
<1>2. QED
  BY <1>1, Invariance, ClosedViewsCleared, JobsReferenced, PTL

-----------------------------------------------------------------------------
(* What the client of a load has been told when the load has ended.          *)

(* A client leaves its handle in a terminal callback; a handle is cancelled  *)
(* by its client, or with a POST.                                            *)
LEMMA HandleChanges ==
  ASSUME IInv, [Next]_vars, NEW h \in Handle
  PROVE  /\ \/ rh'[h].client <=> rh[h].client
            \/ TopAt("client") /\ Top.cb \in Terminal /\ Top.it = h
         /\ \/ rh'[h].cancelled <=> rh[h].cancelled
            \/ CancelHandle(h) \/ KindOf[h] = "post"
<1> DEFINE Same == (rh'[h].client <=> rh[h].client) /\ (rh'[h].cancelled <=> rh[h].cancelled)
           Goal == /\ \/ rh'[h].client <=> rh[h].client
                      \/ TopAt("client") /\ Top.cb \in Terminal /\ Top.it = h
                   /\ \/ rh'[h].cancelled <=> rh[h].cancelled
                      \/ CancelHandle(h) \/ KindOf[h] = "post"
<1>1. rh \in [Handle -> ResourceHandle]
  BY DEF IInv, DataOK
<1>2. Same => Goal
  OBVIOUS
<1>3. rh' = rh => Same
  OBVIOUS
<1>4. ASSUME NEW x \in Handle,
             \/ rh' = [rh EXCEPT ![x].fired = TRUE]
             \/ rh' = [rh EXCEPT ![x].left = @ - 1]
             \/ \E b, c : rh' = [rh EXCEPT ![x].headers = b, ![x].fired = c]
             \/ \E b : rh' = [[rh EXCEPT ![x].left = @ - 1] EXCEPT ![x].fired = b]
      PROVE  Same
  <2>1. CASE rh' = [rh EXCEPT ![x].fired = TRUE] \/ rh' = [rh EXCEPT ![x].left = @ - 1]
    BY <1>1, <2>1 DEF ResourceHandle
  <2>2. ASSUME NEW b, NEW c, rh' = [rh EXCEPT ![x].headers = b, ![x].fired = c] PROVE Same
    BY <1>1, <2>2 DEF ResourceHandle
  <2>3. ASSUME NEW b, rh' = [[rh EXCEPT ![x].left = @ - 1] EXCEPT ![x].fired = b] PROVE Same
    BY <1>1, <2>3 DEF ResourceHandle
  <2>4. QED
    BY <1>4, <2>1, <2>2, <2>3
<1>5. ASSUME NEW x \in Handle, CancelHandle(x) PROVE Goal
  <2>1. CASE rh' = rh
    BY <1>2, <1>3, <2>1
  <2>2. CASE rh' = [rh EXCEPT ![x].cancelled = TRUE]
    <3>1. (rh'[h].client <=> rh[h].client) /\ (x # h => (rh'[h].cancelled <=> rh[h].cancelled))
      BY <1>1, <2>2 DEF ResourceHandle
    <3>2. QED
      BY <1>5, <3>1
  <2>3. QED
    BY <1>5, <2>1, <2>2 DEF CancelHandle
<1>6. ASSUME NEW x \in Handle, CallHandler(x) PROVE Goal
  <2>1. PICK s, lost : rh' = [rh EXCEPT ![x].cancelled = @ \/ lost] /\ BodyLost(x, s, lost) /\ lost \in BOOLEAN
    BY <1>6 DEF CallHandler
  <2>2. rh'[h].client <=> rh[h].client
    BY <1>1, <2>1 DEF ResourceHandle
  <2>3. CASE lost /\ x = h
    BY <2>1, <2>2, <2>3 DEF BodyLost
  <2>4. CASE ~lost \/ x # h
    <3>1. rh'[h].cancelled <=> rh[h].cancelled
      BY <1>1, <2>1, <2>4 DEF ResourceHandle
    <3>2. QED
      BY <2>2, <3>1
  <2>5. QED
    BY <2>3, <2>4
<1>7. ASSUME NEW x \in Handle, LetGo(x), TopAt("client"), Top.cb \in Terminal, Top.it = x PROVE Goal
  <2>1. CASE h = x
    BY <1>7, <2>1, LetGoIs
  <2>2. CASE h # x
    BY <1>2, <1>3, <1>7, <2>2, LetGoIs
  <2>3. QED
    BY <2>1, <2>2
<1> HIDE DEF Goal
<1>8. ASSUME UNCHANGED vars \/ LoopSteps PROVE Goal
  BY <1>2, <1>3, <1>8 DEF vars, LoopSteps, StartDone, RestartDone, RunDone, RemoveDone, ProcessJobsDone,
       HandlerRemoved, PageDeleted
<1>9. ASSUME Break \/ Resume PROVE Goal
  BY <1>2, <1>9, DeferIs DEF Break, Resume
<1>10. ASSUME Environment PROVE Goal
  <2>1. ASSUME NEW x \in Handle, HeadersReceived(x) PROVE Goal
    <3>1. \E b, c : rh' = [rh EXCEPT ![x].headers = b, ![x].fired = c]
      BY <2>1 DEF HeadersReceived
    <3>2. QED
      BY <1>2, <1>4, <3>1
  <2>2. ASSUME NEW x \in Handle, Cancel(x) PROVE Goal
    BY <1>5, <2>2 DEF Cancel
  <2>3. QED
    BY <1>2, <1>3, <1>9, <1>10, <2>1, <2>2 DEF Environment, Add, RunScript, ShutdownView, Purge,
      Tick, TimerFires, RemoveTransportHandler
<1>11. ASSUME ClientReturns PROVE Goal
  <2>1. TopAt("client") /\ (Top.cb # "script" => Top.it \in Handle)
    BY <1>11, ClientOnTop DEF ClientReturns, ReturnFromResponse, ReturnFromHeaders, ReturnFromCall,
      ReturnFromVerdict, ReturnFromRefused, NextURLCall, ReturnFromURLDone, Returning
  <2> DEFINE x == Top.it
  <2>2. CASE ReturnFromResponse \/ ReturnFromHeaders
    <3>1. x \in Handle /\ rh' = [rh EXCEPT ![x].fired = TRUE]
      BY <2>1, <2>2 DEF ReturnFromResponse, ReturnFromHeaders, Returning
    <3> HIDE DEF x
    <3>2. QED
      BY <1>2, <1>4, <3>1
  <2>3. CASE ReturnFromVerdict \/ ReturnFromRefused \/ ReturnFromURLDone
    <3>1. x \in Handle /\ LetGo(x) /\ Top.cb \in Terminal /\ Top.it = x
      BY <2>1, <2>3 DEF ReturnFromVerdict, ReturnFromRefused, ReturnFromURLDone, Returning, Terminal
    <3> HIDE DEF x
    <3>2. QED
      BY <1>7, <2>1, <3>1
  <2>4. QED
    BY <1>2, <1>3, <1>11, <2>2, <2>3 DEF ClientReturns, ReturnFromCall, NextURLCall
<1>12. ASSUME NEW x \in Handle, JobSteps(x) PROVE Goal
  BY <1>2, <1>3, <1>5, <1>6, <1>12 DEF JobSteps, StartDataURL, StartJob, StartRefused, CondemnCancelled, SkipPaused,
     CallTransfer, CondemnAgain, KeepJob, NotifyJobFailed, RemoveJob, PageCancels
<1>13. ASSUME NEW x \in Handle, TransferSteps(x) PROVE Goal
  <2>1. CASE DataReceived(x)
    <3>1. \/ rh' = [rh EXCEPT ![x].left = @ - 1]
          \/ \E b : rh' = [[rh EXCEPT ![x].left = @ - 1] EXCEPT ![x].fired = b]
      BY <2>1 DEF DataReceived
    <3>2. QED
      BY <1>2, <1>4, <3>1
  <2>2. QED
    BY <1>2, <1>3, <1>13, <2>1 DEF TransferSteps, DataDone, TransferEnds
<1>14. QED
  BY <1>8, <1>10, <1>11, <1>12, <1>13 DEF Next, Goal

LEMMA GivesUp ==
  ASSUME IInv, [Next]_vars
  PROVE  /\ gaveUp \subseteq gaveUp'
         /\ \A x \in Handle : CancelHandle(x) => x \in gaveUp'
         /\ \A x \in Handle : x \in loaded' => x \in loaded \/ Add(x)
<1>1. \A x \in Handle : CancelHandle(x) => x \in gaveUp'
  BY DEF CancelHandle
<1>2. gaveUp \subseteq gaveUp' /\ \A x \in Handle : x \in loaded' => x \in loaded \/ Add(x)
  <2>1. CASE UNCHANGED vars \/ LoopSteps
    BY <2>1 DEF vars, hist, LoopSteps, StartDone, RestartDone, RunDone, RemoveDone, ProcessJobsDone,
         HandlerRemoved, PageDeleted
  <2>2. CASE Environment
    BY <2>2 DEF Environment, Add, Cancel, CancelHandle, HeadersReceived, RunScript, ShutdownView, Purge,
       Break, Resume, Tick, TimerFires, RemoveTransportHandler, Called, hist
  <2>3. CASE ClientReturns
    BY <2>3 DEF ClientReturns, ReturnFromResponse, ReturnFromHeaders, ReturnFromCall, ReturnFromVerdict,
       ReturnFromRefused, NextURLCall, ReturnFromURLDone, Called, hist
  <2>4. ASSUME NEW x \in Handle, JobSteps(x)
        PROVE gaveUp \subseteq gaveUp' /\ loaded' = loaded
    BY <2>4 DEF JobSteps, StartDataURL, StartJob, StartRefused, CondemnCancelled, SkipPaused, CallHandler,
       CallTransfer, CondemnAgain, KeepJob, NotifyJobFailed, RemoveJob, PageCancels, CancelHandle, Called, hist
  <2>5. ASSUME NEW x \in Handle, TransferSteps(x) PROVE gaveUp' = gaveUp /\ loaded' = loaded
    BY <2>5 DEF TransferSteps, DataReceived, DataDone, TransferEnds, Called, hist
  <2>6. QED
    BY <2>1, <2>2, <2>3, <2>4, <2>5 DEF Next
<1>3. QED
  BY <1>1, <1>2

LEMMA LeavingStays ==
  ASSUME IInv, IInv', Stacked, Stacked', [Next]_vars, NEW v, v \in Leaving PROVE v \in Leaving'
<1>1. v \in closed \/ ViewLoop(v)
  BY LeavingIs
<1>2. v \in Leaving' <=> v \in closed' \/ ViewLoop(v)'
  <2>1. Height' \in Nat /\ DOMAIN stack' = 1..Height'
    BY NextTypes
  <2>2. ViewLoop(v)' => v \in Leaving'
    BY <2>1 DEF Leaving, Loops, ViewLoop
  <2>3. v \in closed' => v \in Leaving'
    BY DEF Leaving
  <2>4. v \in Leaving' => v \in closed' \/ ViewLoop(v)'
    <3>1. SUFFICES ASSUME NEW i \in 1..Height', stack'[i].at \in LoopAt, stack'[i].src = "view", stack'[i].view = v
                   PROVE  ViewLoop(v)'
      BY <2>1 DEF Leaving, Loops
    <3>2. CASE i = 1
      BY <2>1, <3>1, <3>2 DEF ViewLoop
    <3>3. CASE i # 1
      <4>1. i \in 2..Height'
        BY <2>1, <3>3
      <4>2. CalledBy(stack'[i - 1], stack'[i])
        BY <4>1 DEF Stacked
      <4>3. QED
        BY <3>1, <4>2 DEF CalledBy, LoopAt
    <3>4. QED
      BY <3>2, <3>3
  <2>5. QED
    BY <2>2, <2>3, <2>4
<1>3. closed \subseteq closed'
  <2>1. CASE UNCHANGED vars \/ LoopSteps
    BY <2>1 DEF vars, LoopSteps, StartDone, RestartDone, RunDone, RemoveDone, ProcessJobsDone,
         HandlerRemoved, PageDeleted
  <2>2. CASE Environment
    BY <2>2 DEF Environment, Add, Cancel, HeadersReceived, RunScript, ShutdownView, Purge,
       Break, Resume, Tick, TimerFires, RemoveTransportHandler
  <2>3. CASE ClientReturns
    BY <2>3 DEF ClientReturns, ReturnFromResponse, ReturnFromHeaders, ReturnFromCall, ReturnFromVerdict,
       ReturnFromRefused, NextURLCall, ReturnFromURLDone
  <2>4. ASSUME NEW x \in Handle, JobSteps(x) PROVE closed' = closed
    BY <2>4 DEF JobSteps, StartDataURL, StartJob, StartRefused, CondemnCancelled, SkipPaused, CallHandler,
       CallTransfer, CondemnAgain, KeepJob, NotifyJobFailed, RemoveJob, PageCancels
  <2>5. ASSUME NEW x \in Handle, TransferSteps(x) PROVE closed' = closed
    BY <2>5 DEF TransferSteps, DataReceived, DataDone, TransferEnds
  <2>6. QED
    BY <2>1, <2>2, <2>3, <2>4, <2>5 DEF Next
<1>4. CASE v \in closed
  BY <1>2, <1>3, <1>4
<1>5. CASE ViewLoop(v)
  <2>1. CASE PageDeleted /\ v = Top.view
    BY <1>2, <2>1 DEF PageDeleted
  <2>2. QED
    BY <1>2, <1>5, <2>1, ViewLoopGoesOn
<1>6. QED
  BY <1>1, <1>4, <1>5


(* A client is called for the last time.                                     *)
LEMMA NewTerminal ==
  ASSUME IInv, IInv', Stacked, [Next]_vars, NEW h \in Handle,
         NEW i \in 1..Height', NewOnTop(i), IsCall(stack'[i], h, Terminal)
  PROVE  verdicts'[h] > 0
<1>1. Height \in Nat /\ verdicts[h] \in Nat /\ i = Height'
  BY StackTypes DEF IInv, DataOK, NewOnTop
<1>2. ASSUME NEW cb, Called(h, cb), cb \in Terminal PROVE verdicts'[h] > 0
  BY <1>1, <1>2, CalledVerdicts
<1>3. ASSUME NEW x, NEW cb, i = Height + 1, CallOf(ClientCall(x, cb)) PROVE x = h /\ cb \in Terminal
  BY <1>3 DEF CallOf, ClientCall, IsCall
<1>4. Marked => i # Height + 1
  BY <1>1 DEF Marked
<1>5. CASE i = Height + 1 /\ Appears(stack'[i])
  <2>1. ASSUME NEW x \in Handle, NEW cb \in Answer, AnswerComes(x), NewCall(stack'[i], x, cb)
        PROVE  verdicts'[h] > 0
    <3>1. TopAt("transfer")
      BY <2>1 DEF AnswerComes
    <3>2. stack' # stack
      <4>1. stack' = stack => Height' = Height
        BY DEF Height
      <4>2. QED
        BY <1>1, <1>5, <4>1
    <3>3. ASSUME NEW y \in Handle, TransferEnds(y) PROVE FALSE
      BY <1>1, <1>5, <3>3, TransferEndsIs
    <3>4. ASSUME NEW y \in Handle, DataReceived(y) PROVE FALSE
      <4>1. PICK c \in {"data", "response"} : CallOf(ClientCall(y, c))
        BY <1>4, <1>5, <3>4, DataReceivedIs
      <4>2. c \in Terminal
        BY <1>3, <1>5, <4>1
      <4>3. QED
        BY <4>2 DEF Terminal
    <3>5. ASSUME NEW y \in Handle, NEW result \in BOOLEAN, DataDone(y, result) PROVE verdicts'[h] > 0
      <4>1. CallOf(ClientCall(y, "finish")) /\ Called(y, "finish")
        BY <1>4, <1>5, <3>5, DataDoneIs
      <4>2. y = h
        BY <1>3, <1>5, <4>1
      <4>3. QED
        BY <1>2, <4>1, <4>2 DEF Terminal
    <3>6. QED
      BY <3>1, <3>2, <3>3, <3>4, <3>5, WhileTransfer
  <2>2. ASSUME NEW x \in Handle, NotifyJobFailed(x) PROVE verdicts'[h] > 0
    <3>1. CallOf(ClientCall(x, "fail")) /\ Called(x, "fail")
      BY <1>4, <1>5, <2>2, NotifyJobFailedIs
    <3>2. x = h
      BY <1>3, <1>5, <3>1
    <3>3. QED
      BY <1>2, <3>1, <3>2 DEF Terminal
  <2>3. ASSUME NEW x \in Handle, NEW cb \in Opening, Taken(x), NewCall(stack'[i], x, cb) PROVE verdicts'[h] > 0
    <3>1. IsCall(stack'[i], x, Opening) /\ x = h
      BY <2>3 DEF NewCall, IsCall
    <3>2. CASE StartRefused(x)
      <4>1. Called(x, "refused")
        BY <3>2 DEF StartRefused
      <4>2. QED
        BY <1>2, <3>1, <4>1 DEF Terminal
    <3>3. CASE StartDataURL(x)
      <4>1. PICK c \in {"urlResponse", "urlDone"} : CallOf(ClientCall(x, c)) /\ Called(x, c)
        BY <3>3, StartDataURLIs
      <4>2. c \in Terminal
        BY <1>3, <1>5, <4>1
      <4>3. QED
        BY <1>2, <3>1, <4>1, <4>2
    <3>4. QED
      BY <1>5, <2>3, <3>1, <3>2, <3>3, OpeningStarts
  <2>4. stack'[i].at # "transfer" /\ stack'[i].cb \notin {"headers", "redirect", "script"}
    BY DEF IsCall, Terminal
  <2>5. QED
    BY <1>5, <2>1, <2>2, <2>3, <2>4 DEF Appears
<1>6. CASE i = Height /\ Follows(stack'[i])
  <2>1. stack'[i].cb # "data"
    BY DEF IsCall, Terminal
  <2>2. PICK next \in URLCalls : CallsNext(next) /\ NewCall(stack'[i], Top.it, next)
    BY <1>6, <2>1 DEF Follows, NewCall
  <2>3. Called(h, next) /\ next \in Terminal
    BY <2>2 DEF CallsNext, NewCall, IsCall
  <2>4. QED
    BY <1>2, <2>3
<1>7. QED
  BY <1>5, <1>6 DEF NewOnTop

LEMMA VerdictsGrow ==
  ASSUME IInv, IInv', Stacked, [Next]_vars, NEW h \in Handle
  PROVE  verdicts[h] \in Nat /\ verdicts'[h] \in Nat /\ (verdicts[h] > 0 => verdicts'[h] > 0)
<1>1. verdicts[h] \in Nat
  BY DEF IInv, DataOK
<1>2. verdicts'[h] = verdicts[h] \/ verdicts'[h] = verdicts[h] + 1
  BY NextVerdicts
<1>3. QED
  BY <1>1, <1>2

(* Who condemns a job.                                                       *)
LEMMA CondemnedBy ==
  ASSUME IInv, [Next]_vars, NEW h \in Handle, info'[h].state = "Remove", info[h].state # "Remove"
  PROVE  \/ rh[h].cancelled \/ KindOf[h] = "custom" \/ ShutdownView(ViewOf[h])
         \/ StartJob(h) \/ StartRefused(h) \/ CallHandler(h) \/ TransferEnds(h)
         \/ \E result \in BOOLEAN : DataDone(h, result)
<1>1. info' # info
  OBVIOUS
<1>2. CASE UNCHANGED vars \/ LoopSteps
  BY <1>1, <1>2 DEF vars, LoopSteps, StartDone, RestartDone, RunDone, RemoveDone, ProcessJobsDone,
       HandlerRemoved, PageDeleted
<1>3. CASE Environment
  <2>1. ~Break /\ ~Resume
    BY DeferIs DEF Break, Resume
  <2>2. ASSUME NEW v \in View, ShutdownView(v) PROVE v = ViewOf[h]
    <3> DEFINE S == {x \in Handle : ViewOf[x] = v}
               T == {x \in S : InJobs(x)}
    <3>1. Condemn(T)
      BY <2>2 DEF ShutdownView, Purge
    <3>2. h \notin T => info'[h] = info[h]
      BY <3>1, CondemnIs
    <3>3. QED
      BY <3>2
  <2>3. ASSUME RemoveTransportHandler PROVE KindOf[h] = "custom"
    <3> DEFINE S == {x \in Handle : KindOf[x] = "custom"}
               T == {x \in S : InJobs(x)}
    <3>1. Condemn(T)
      BY <2>3 DEF RemoveTransportHandler, Purge
    <3>2. h \notin T => info'[h] = info[h]
      BY <3>1, CondemnIs
    <3>3. QED
      BY <3>2
  <2>4. QED
    BY <1>1, <1>3, <2>1, <2>2, <2>3 DEF Environment, Add, Cancel, HeadersReceived, RunScript, Tick, TimerFires
<1>4. CASE ClientReturns
  BY <1>1, <1>4 DEF ClientReturns, ReturnFromResponse, ReturnFromHeaders, ReturnFromCall, ReturnFromVerdict,
     ReturnFromRefused, NextURLCall, ReturnFromURLDone
<1>5. ASSUME NEW x \in Handle, JobSteps(x)
      PROVE  rh[h].cancelled \/ StartJob(h) \/ StartRefused(h) \/ CallHandler(h)
  <2>1. CASE CondemnCancelled(x) \/ CondemnAgain(x)
    <3>1. Condemn({x})
      BY <2>1 DEF CondemnCancelled, CondemnAgain
    <3>2. x = h
      BY <3>1, CondemnIs
    <3>3. QED
      BY <2>1, <3>2 DEF CondemnCancelled, CondemnAgain, AtState
  <2>2. CASE StartJob(x) \/ StartRefused(x)
    <3>1. info \in [Handle -> JobInfo] /\ \E j : info' = [info EXCEPT ![x] = j]
      BY <2>2 DEF StartJob, StartRefused, IInv, DataOK
    <3>2. x = h
      BY <3>1
    <3>3. QED
      BY <2>2, <3>2
  <2>3. CASE CallHandler(x)
    <3>1. PICK s, r : Returned(x, s, r)
      BY <2>3 DEF CallHandler
    <3>2. x = h
      BY <3>1, ReturnedBy
    <3>3. QED
      BY <2>3, <3>2
  <2>4. QED
    BY <1>1, <1>5, <2>1, <2>2, <2>3 DEF JobSteps, StartDataURL, SkipPaused, CallTransfer, KeepJob, NotifyJobFailed,
       RemoveJob, PageCancels
<1>6. ASSUME NEW x \in Handle, TransferSteps(x)
      PROVE  TransferEnds(h) \/ \E result \in BOOLEAN : DataDone(h, result)
  <2>1. ASSUME NEW result \in BOOLEAN, DataDone(x, result) PROVE x = h
    BY <1>1, <2>1 DEF DataDone, IInv, DataOK
  <2>2. CASE TransferEnds(x)
    <3>1. PICK r : Returned(x, "Transfer", r)
      BY <2>2 DEF TransferEnds
    <3>2. x = h
      BY <3>1, ReturnedBy
    <3>3. QED
      BY <2>2, <3>2
  <2>3. QED
    BY <1>1, <1>6, <2>1, <2>2 DEF TransferSteps, DataReceived
<1>7. QED
  BY <1>2, <1>3, <1>4, <1>5, <1>6 DEF Next

LEMMA LessWaiting ==
  ASSUME IInv, Queued, [Next]_vars, NEW h \in Handle, Waiting(h), ~Waiting(h)'
  PROVE  CancelHandle(h) \/ StartDataURL(h) \/ StartJob(h) \/ StartRefused(h)
<1>1. pending \in Seq(Handle) /\ Distinct(pending)
  BY QueueIs DEF IInv, DataOK, Queued
<1>2. pending' # pending
  BY DEF Waiting
<1>3. ASSUME NEW x \in Handle, Add(x) PROVE FALSE
  <2>1. pending' = Append(pending, x)
    BY <1>3 DEF Add
  <2>2. /\ \A i \in 1..Len(pending) : pending'[i] = pending[i]
        /\ Len(pending') = Len(pending) + 1
    BY <1>1, <2>1, AppendIs
  <2>3. DOMAIN pending = 1..Len(pending) /\ DOMAIN pending' = 1..(Len(pending) + 1) /\ Len(pending) \in Nat
    BY <1>1, <2>1
  <2>4. QED
    BY <2>2, <2>3 DEF Waiting
<1>4. ASSUME NEW x \in Handle, CancelHandle(x) PROVE x = h
  <2>1. PICK i \in DOMAIN pending : pending[i] = x /\ pending' = RemoveAt(pending, i)
    BY <1>2, <1>4 DEF CancelHandle
  <2>2. \A y : In(y, pending') <=> In(y, pending) /\ y # pending[i]
    BY <1>1, <2>1, RemoveAtDistinct
  <2>3. QED
    BY <2>1, <2>2, QueueIs, NextQueueIs
<1>5. ASSUME NEW x \in Handle, StartDataURL(x) \/ StartJob(x) \/ StartRefused(x) PROVE x = h
  <2>1. pending # <<>> /\ pending' = Tail(pending) /\ x = Head(pending)
    BY <1>5 DEF StartDataURL, StartJob, StartRefused, MayStart
  <2>2. \A y : In(y, pending') <=> In(y, pending) /\ y # Head(pending)
    BY <1>1, <2>1, TailDistinct
  <2>3. QED
    BY <2>1, <2>2, QueueIs, NextQueueIs
<1>6. QED
  BY <1>2, <1>3, <1>4, <1>5, NextRefs DEF ReturnFromRefused, ReturnFromURLDone, RemoveJob

LEMMA LessJobs ==
  ASSUME IInv, Queued, RefusedLast, [Next]_vars, NEW h \in Handle, InJobs(h), ~InJobs(h)'
  PROVE  RemoveJob(h) \/ OnTop(h, "refused")
<1>1. CASE Rests
  BY <1>1 DEF Rests, InJobs
<1>2. CASE ReturnFromRefused
  BY <1>2, RefusedLeaves DEF OnTop
<1>3. ASSUME NEW x \in Handle, Changes(x) PROVE RemoveJob(h)
  <2>1. CASE StartJob(x) \/ StartRefused(x)
    BY <2>1, StartedJob
  <2>2. CASE RemoveJob(x)
    <3>1. x = h
      BY <2>2, RemovedJob
    <3>2. QED
      BY <2>2, <3>1
  <2>3. CASE CallHandler(x) \/ TransferEnds(x)
    BY <2>3 DEF CallHandler, TransferEnds, InJobs
  <2>4. QED
    BY <1>3, <2>1, <2>2, <2>3 DEF Changes
<1>4. QED
  BY <1>1, <1>2, <1>3, NextRests


(* A load that the manager owes an answer: its client has not cancelled, its *)
(* View is not being shut down, and it is not left to itself: a custom       *)
(* handler may end without a word, and ReadData cancels a POST.              *)
Owed(h) == h \in loaded \ gaveUp /\ KindOf[h] \notin {"post", "custom"} /\ ViewOf[h] \notin Leaving
Going(h) == Waiting(h) \/ InJobs(h) \/ Calling(h, URLCalls)

(* A client that is gone, or is being called for the last time, has been     *)
(* told.  A load that has not failed and whose client has not been told is   *)
(* going on, and has not got beyond its transfer.                            *)
Heard(h) ==
  /\ rh[h].client \/ verdicts[h] > 0
  /\ rh[h].cancelled => h \in gaveUp \/ KindOf[h] = "post"
  /\ \A i \in 1..Height : IsCall(stack[i], h, Terminal) => verdicts[h] > 0
GoesOn(h) ==
  Owed(h) /\ info[h].success /\ verdicts[h] = 0 =>
    /\ Going(h)
    /\ InJobs(h) => info[h].state \notin {"Disconnect", "Shutdown", "Remove"}
    /\ \A i \in 1..Height : IsTransfer(stack[i], h) /\ InJobs(h) => stack[i].done = "no"
Accounted(h) == Heard(h) /\ GoesOn(h)

LEMMA HeardKept ==
  ASSUME IInv, IInv', Stacked, [Next]_vars, NEW h \in Handle, Heard(h)
  PROVE  Heard(h)'
<1>1. ASSUME TopAt("client"), Top.cb \in Terminal, Top.it = h PROVE verdicts[h] > 0
  <2>1. IsCall(Top, h, Terminal) /\ Height \in 1..Height /\ Top = stack[Height]
    BY <1>1, TopTypes DEF TopAt, IsCall
  <2>2. QED
    BY <2>1 DEF Heard
<1>2. rh'[h].client \/ verdicts'[h] > 0
  BY <1>1, HandleChanges, VerdictsGrow DEF Heard
<1>3. rh'[h].cancelled => h \in gaveUp' \/ KindOf[h] = "post"
  BY HandleChanges, GivesUp DEF Heard
<1>4. ASSUME NEW i \in 1..Height', IsCall(stack'[i], h, Terminal) PROVE verdicts'[h] > 0
  <2>1. CASE NewOnTop(i)
    BY <1>4, <2>1, NewTerminal
  <2>2. CASE i \in 1..Height /\ stack'[i].at = stack[i].at /\ stack'[i].it = stack[i].it
             /\ (stack[i].at = "client" => stack'[i].cb = stack[i].cb)
    <3>1. IsCall(stack[i], h, Terminal)
      BY <1>4, <2>2 DEF IsCall
    <3>2. QED
      BY <2>2, <3>1, VerdictsGrow DEF Heard
  <2>3. stack'[i].at = "client"
    BY <1>4 DEF IsCall
  <2>4. QED
    BY <2>1, <2>2, <2>3, NextFrames
<1>5. (\A i \in 1..Height : IsCall(stack[i], h, Terminal) => verdicts[h] > 0)'
  BY <1>4 DEF IsCall, Terminal
<1>6. QED
  BY <1>2, <1>3, <1>5 DEF Heard

LEMMA DoneTold ==
  ASSUME IInv, IInv', Stacked, [Next]_vars, NEW h \in Handle, Heard(h), Owed(h), verdicts'[h] = 0, info'[h].success
  PROVE  ~\E result \in BOOLEAN : DataDone(h, result)
<1>1. SUFFICES ASSUME NEW result \in BOOLEAN, DataDone(h, result) PROVE FALSE
  OBVIOUS
<1>2. verdicts[h] \in Nat /\ verdicts[h] = 0
  BY VerdictsGrow
<1>3. rh[h].client /\ ~rh[h].cancelled
  BY <1>2 DEF Heard, Owed
<1>4. CASE result
  <2>1. Called(h, "finish")
    BY <1>1, <1>3, <1>4 DEF DataDone
  <2>2. QED
    BY <1>2, <2>1, CalledVerdicts DEF Terminal
<1>5. CASE ~result
  <2>1. info' = [info EXCEPT ![h].success = FALSE, ![h].state = "Remove"]
    BY <1>1, <1>3, <1>5 DEF DataDone
  <2>2. ~info'[h].success
    BY <2>1 DEF IInv, DataOK, JobInfo
  <2>3. QED
    BY <2>2
<1>6. QED
  BY <1>4, <1>5

LEMMA OwedWas ==
  ASSUME IInv, IInv', Stacked, Stacked', Queued, [Next]_vars, NEW h \in Handle, Owed(h)', ~Add(h)
  PROVE  Owed(h)
<1>1. h \in loaded \ gaveUp
  BY GivesUp DEF Owed
<1>2. ViewOf[h] \notin Leaving
  BY LeavingStays DEF Owed
<1>3. QED
  BY <1>1, <1>2 DEF Owed

LEMMA AddedGoesOn ==
  ASSUME IInv, IInv', Queued, NEW h \in Handle, Add(h) PROVE GoesOn(h)'
<1>1. ~InJobs(h)'
  BY DEF Queued, Begun, Untouched, Touched, Add, InJobs
<1>2. pending \in Seq(Handle) /\ pending' = Append(pending, h)
  BY DEF Add, IInv, DataOK
<1>3. Len(pending) + 1 \in DOMAIN pending' /\ pending'[Len(pending) + 1] = h
  BY <1>2
<1>4. Going(h)'
  BY <1>3 DEF Going, Waiting
<1>5. QED
  BY <1>1, <1>4 DEF GoesOn

LEMMA StartedGoesOn ==
  ASSUME IInv, IInv', Stacked, Queued, [Next]_vars, NEW h \in Handle, StartJob(h) \/ StartRefused(h)
  PROVE  GoesOn(h)'
<1>1. SUFFICES ASSUME info'[h].success PROVE GoesOn(h)'
  BY DEF GoesOn
<1>2. /\ InJobs(h)' /\ info'[h].state = "Init" /\ Taken(h)
  BY StartedJob
<1>3. ~InJobs(h) /\ \A i \in 1..Height : ~About(stack[i], h)
  BY <1>2, TakenUntold
<1>4. ~CallTransfer(h)
  BY <1>3 DEF CallTransfer, AtState, AtJob
<1>5. \A i \in 1..Height' : ~IsTransfer(stack'[i], h)
  BY <1>3, <1>4, TransferGoesOn DEF About, IsTransfer
<1>6. Going(h)'
  BY <1>2 DEF Going
<1>7. QED
  BY <1>2, <1>5, <1>6 DEF GoesOn

LEMMA StillGoing ==
  ASSUME IInv, IInv', Stacked, Queued, RefusedLast, [Next]_vars, NEW h \in Handle, Heard(h),
         h \notin gaveUp', verdicts[h] = 0, Going(h), InJobs(h) => info[h].state # "Remove"
  PROVE  Going(h)'
<1>1. ASSUME TopAt("client"), Top.cb \in Terminal, Top.it = h PROVE FALSE
  <2>1. IsCall(Top, h, Terminal) /\ Height \in 1..Height /\ Top = stack[Height]
    BY <1>1, TopTypes DEF TopAt, IsCall
  <2>2. QED
    BY <2>1 DEF Heard
<1>2. CASE Waiting(h) /\ ~Waiting(h)'
  <2>1. CASE StartJob(h) \/ StartRefused(h)
    BY <2>1, StartedJob DEF Going
  <2>2. CASE StartDataURL(h)
    <3>1. PICK cb \in {"urlResponse", "urlDone"} : CallOf(ClientCall(h, cb))
      BY <2>2, StartDataURLIs
    <3>2. Height + 1 \in 1..Height' /\ stack'[Height + 1] = ClientCall(h, cb)
      BY <3>1 DEF CallOf
    <3>3. IsCall(stack'[Height + 1], h, URLCalls)
      BY <3>2 DEF IsCall, ClientCall, URLCalls
    <3>4. Calling(h, URLCalls)'
      BY <3>2, <3>3, CallingIs DEF URLCalls
    <3>5. QED
      BY <3>4 DEF Going
  <2>3. ~CancelHandle(h)
    BY GivesUp
  <2>4. QED
    BY <1>2, <2>1, <2>2, <2>3, LessWaiting
<1>3. CASE InJobs(h)
  <2>1. ~RemoveJob(h)
    BY <1>3 DEF RemoveJob
  <2>2. ~OnTop(h, "refused")
    BY <1>1 DEF OnTop, Terminal
  <2>3. QED
    BY <1>3, <2>1, <2>2, LessJobs DEF Going
<1>4. CASE Calling(h, URLCalls)
  <2>1. ~(ReturnFromURLDone /\ Top.it = h)
    BY <1>1 DEF ReturnFromURLDone, Returning, Terminal
  <2>2. Calling(h, URLCalls)'
    BY <1>4, <2>1, CallingGoesOn
  <2>3. QED
    BY <2>2 DEF Going
<1>5. QED
  BY <1>2, <1>3, <1>4 DEF Going

LEMMA GoesOnKept ==
  ASSUME IInv, IInv', Stacked, Stacked', Queued, RefusedLast, [Next]_vars, NEW h \in Handle, Accounted(h)
  PROVE  GoesOn(h)'
<1>1. CASE Add(h) \/ StartJob(h) \/ StartRefused(h)
  BY <1>1, AddedGoesOn, StartedGoesOn
<1>2. ASSUME ~Add(h), ~StartJob(h), ~StartRefused(h), Owed(h)', info'[h].success, verdicts'[h] = 0
      PROVE  /\ Going(h)'
             /\ InJobs(h)' => info'[h].state \notin {"Disconnect", "Shutdown", "Remove"}
             /\ \A i \in 1..Height' : IsTransfer(stack'[i], h) /\ InJobs(h)' => stack'[i].done = "no"
  <2>1. Owed(h) /\ verdicts[h] = 0 /\ Heard(h) /\ h \notin gaveUp'
    BY <1>2, OwedWas, VerdictsGrow DEF Accounted, Owed
  <2>2. ~\E result \in BOOLEAN : DataDone(h, result)
    BY <1>2, <2>1, DoneTold
  <2>3. info[h].success
    BY <1>2, NextJob, WorkIs, EndIs DEF JobRests, Fails
  <2>4. /\ Going(h)
        /\ InJobs(h) => info[h].state \notin {"Disconnect", "Shutdown", "Remove"}
        /\ \A i \in 1..Height : IsTransfer(stack[i], h) /\ InJobs(h) => stack[i].done = "no"
    BY <2>1, <2>3 DEF Accounted, GoesOn
  <2>5. Going(h)'
    BY <2>1, <2>4, StillGoing
  <2>6. ASSUME NEW i \in 1..Height', IsTransfer(stack'[i], h), InJobs(h)' PROVE stack'[i].done = "no"
    <3>1. InJobs(h)
      BY <1>2, <2>6, MoreJobs
    <3>2. ASSUME CallTransfer(h), i = Height + 1 PROVE stack'[i].done = "no"
      BY <3>2, CallTransferIs DEF CallOf
    <3>3. QED
      BY <2>2, <2>4, <2>6, <3>1, <3>2, TransferGoesOn
  <2>7. ASSUME InJobs(h)' PROVE info'[h].state \notin {"Disconnect", "Shutdown", "Remove"}
    <3>1. InJobs(h) /\ info[h].state \notin {"Disconnect", "Shutdown", "Remove"}
      BY <1>2, <2>4, <2>7, MoreJobs
    <3>2. CASE CallHandler(h)
      BY <1>2, <3>1, <3>2, WorkIs
    <3>3. CASE TransferEnds(h)
      <4>1. TopAt("transfer") /\ Top.it = h
        BY <3>3, EndIs
      <4>2. IsTransfer(Top, h) /\ Height \in 1..Height /\ Top = stack[Height]
        BY <4>1, TopTypes DEF TopAt, IsTransfer
      <4>3. Top.done = "no"
        BY <2>4, <3>1, <4>2
      <4>4. KindOf[h] # "custom"
        BY <2>1 DEF Owed
      <4>5. info'[h].state = info[h].state
        BY <1>2, <3>3, <4>3, <4>4, EndIs
      <4>6. QED
        BY <3>1, <4>5
    <3>4. CASE JobRests(h) /\ ~CallHandler(h) /\ ~TransferEnds(h)
      <4>1. info'[h].state \in {info[h].state, "Remove"}
        BY <3>4 DEF JobRests
      <4>2. ~rh[h].cancelled /\ KindOf[h] # "custom"
        BY <2>1 DEF Heard, Owed
      <4>3. ~ShutdownView(ViewOf[h])
        <5>1. SUFFICES ASSUME ShutdownView(ViewOf[h]) PROVE FALSE
          OBVIOUS
        <5> DEFINE f == NewLoop("run", "view", ViewOf[h])
        <5>2. stack' = WithCall(f) /\ stack = <<>>
          BY <5>1 DEF ShutdownView, Purge, Idle, WithCall
        <5>3. f.at = "run" /\ f.src = "view" /\ f.view = ViewOf[h]
          BY DEF NewLoop
        <5> HIDE DEF f
        <5>4. Height = 0 /\ Height' = 1 /\ stack'[1] = f
          BY <5>2, CallMoves DEF Height
        <5>5. 1 \in DOMAIN stack'
          BY <5>4, NextTypes
        <5>6. ViewOf[h] \in Leaving'
          BY <5>3, <5>4, <5>5 DEF Leaving, Loops, LoopAt
        <5>7. QED
          BY <1>2, <5>6 DEF Owed
      <4>4. info'[h].state # "Remove"
        BY <1>2, <2>2, <3>1, <3>4, <4>2, <4>3, CondemnedBy
      <4>5. QED
        BY <3>1, <4>1, <4>4
    <3>5. QED
      BY <1>2, <3>2, <3>3, <3>4, NextJob
  <2>8. QED
    BY <2>5, <2>6, <2>7
<1>3. QED
  BY <1>1, <1>2 DEF GoesOn

Answers == \A h \in Handle : Accounted(h)

(* As long as no client of a refused load stops at a breakpoint, a load that *)
(* has not failed goes on until its client has been told.                    *)
THEOREM JobsAccounted == Spec /\ []Unbroken({"refused"}) => []Answers
<1>1. Init => Answers
  <2>1. SUFFICES ASSUME Init, NEW h \in Handle PROVE Accounted(h)
    BY DEF Answers
  <2>2. rh[h].client /\ ~rh[h].cancelled /\ Height = 0 /\ loaded = {}
    BY <2>1 DEF Init, Height
  <2>3. QED
    BY <2>2 DEF Accounted, Heard, GoesOn, Owed
<1>2. ASSUME IInv, IInv', Stacked, Stacked', Queued, Bracket, Answers, [Next]_vars
      PROVE  Answers'
  <2>1. \A h \in Handle : Accounted(h)'
    BY <1>2, HeardKept, GoesOnKept DEF Answers, Accounted, Bracket
  <2>2. QED
    BY <2>1 DEF Answers
<1>3. QED
  BY <1>1, <1>2, Invariance, CallersRight, QueueKept, JobsBracketed, PTL DEF Spec

(* SuccessIsTold: what left the list as a success was told to its client.    *)
THEOREM SuccessesTold == Spec /\ []Unbroken({"refused"}) => []SuccessIsTold
<1>1. ASSUME IInv, Answers PROVE SuccessIsTold
  <2>1. ASSUME NEW h \in loaded \ gaveUp, KindOf[h] \notin {"post", "custom"}, ViewOf[h] \notin Leaving,
               ~Waiting(h), ~InJobs(h), ~Calling(h, Callback), info[h].success
        PROVE  verdicts[h] > 0
    <3>1. h \in Handle
      BY <1>1, <2>1 DEF IInv, DataOK
    <3>2. verdicts[h] \in Nat
      BY <1>1, <3>1 DEF IInv, DataOK
    <3>3. Owed(h)
      BY <2>1 DEF Owed
    <3>4. ~Calling(h, URLCalls)
      BY <2>1 DEF Calling, URLCalls, Callback
    <3>5. verdicts[h] # 0
      BY <1>1, <2>1, <3>1, <3>3, <3>4 DEF Answers, Accounted, GoesOn, Going
    <3>6. QED
      BY <3>2, <3>5
  <2>2. QED
    BY <2>1 DEF SuccessIsTold
<1>2. QED
  BY <1>1, Invariance, JobsAccounted, PTL


-----------------------------------------------------------------------------
(* One job loop at a time.  The conditions above hold of themselves when a   *)
(* client that a loop has called, at whatever remove, does not stop at a     *)
(* breakpoint.                                                               *)
LoopsUnbroken == \A i \in 1..Height : Brk(stack[i]) => \A j \in 1..i : stack[j].at \notin LoopAt

LEMMA BreaksAlone ==
  ASSUME IInv, MaxTicks <= 1, Break PROVE \A j \in 1..Height : stack[j].at \notin LoopAt
<1>1. Height \in Nat /\ DOMAIN stack = 1..Height
  BY StackTypes
<1>2. Loops \subseteq 1..Height
  BY <1>1 DEF Loops
<1>3. IsFiniteSet(Loops) /\ Cardinality(Loops) \in Nat
  <2>1. IsFiniteSet(1..Height)
    BY <1>1, FS_Interval
  <2>2. IsFiniteSet(Loops)
    BY <1>2, <2>1, FS_Subset
  <2>3. QED
    BY <2>2, FS_CardinalityType
<1>4. Cardinality(Loops) = 0
  BY <1>3, BoundAssumption DEF Break
<1>5. Loops = {}
  BY <1>3, <1>4, FS_EmptySet
<1>6. QED
  BY <1>1, <1>5 DEF Loops

LEMMA LoopsUnbrokenKept ==
  ASSUME IInv, IInv', Stacked, MaxTicks <= 1, LoopsUnbroken, [Next]_vars
  PROVE  LoopsUnbroken'
<1>1. ASSUME NEW m, Moved(m) PROVE LoopsUnbroken'
  <2>1. m \in Nat /\ m <= Height /\ Height \in Nat /\ Height' \in Nat
    BY <1>1, StackTypes, NextTypes DEF Moved
  <2>2. ASSUME NEW i \in 1..Height', Brk(stack'[i]) PROVE \A j \in 1..i : stack'[j].at \notin LoopAt
    <3>1. i \in 1..m
      BY <1>1, <2>1, <2>2 DEF Moved, Fresh
    <3>2. \A j \in 1..i : stack'[j] = stack[j]
      BY <1>1, <2>1, <3>1 DEF Moved, Agree
    <3>3. i \in 1..Height /\ Brk(stack[i])
      BY <2>1, <2>2, <3>1, <3>2
    <3>4. QED
      BY <3>2, <3>3 DEF LoopsUnbroken
  <2>3. QED
    BY <2>2 DEF LoopsUnbroken, Brk
<1>2. CASE Break \/ Resume
  <2>1. PICK b \in BOOLEAN : TopAt("client") /\ stack' = Becomes([Top EXCEPT !.brk = b]) /\ (Break \/ ~b)
    BY <1>2 DEF Break, Resume, ScriptRuns
  <2>2. /\ Height \in Nat /\ Height > 0 /\ Height' = Height /\ Agree(Height - 1)
        /\ Top' = stack'[Height] /\ Top = stack[Height] /\ Top'.at = "client" /\ Top'.brk = b
    BY <2>1, BrkSteps
  <2>3. Top.at = "client"
    BY <2>1 DEF TopAt
  <2>4. \A j \in 1..Height : stack'[j].at \in LoopAt => stack[j].at \in LoopAt
    BY <2>2 DEF Agree, LoopAt
  <2>5. ASSUME NEW i \in 1..Height, Brk(stack'[i]) PROVE \A j \in 1..i : stack'[j].at \notin LoopAt
    <3>1. CASE Break
      BY <2>2, <2>4, <2>5, <3>1, BreaksAlone
    <3>2. CASE ~b
      <4>1. i # Height
        BY <2>2, <2>5, <3>2 DEF Brk
      <4>2. stack'[i] = stack[i]
        BY <2>2, <4>1 DEF Agree
      <4>3. \A j \in 1..i : stack[j].at \notin LoopAt
        BY <2>5, <4>2 DEF LoopsUnbroken
      <4>4. QED
        BY <2>2, <2>4, <4>3
    <3>3. QED
      BY <2>1, <3>1, <3>2
  <2>6. QED
    BY <2>2, <2>5 DEF LoopsUnbroken, Brk
<1>3. QED
  BY <1>1, <1>2, NextMoved

LEMMA UnbrokenAlone ==
  ASSUME IInv, Stacked, LoopsUnbroken PROVE Unbroken({"refused", "fail"}) /\ Unbroken({"refused"}) /\ Unhindered
<1>1. Height \in Nat
  BY StackTypes
<1>2. ASSUME NEW i \in 1..Height, Brk(stack[i]), stack[i].cb \in {"refused", "fail"} PROVE FALSE
  <2>1. stack[i].at = "client"
    BY <1>2 DEF Brk
  <2>2. CASE i = 1
    BY <1>1, <1>2, <2>1, <2>2 DEF Stacked, Outermost, LoopAt
  <2>3. CASE i # 1
    <3>1. i \in 2..Height /\ i - 1 \in 1..i
      BY <1>1, <2>3
    <3>2. CalledBy(stack[i - 1], stack[i])
      BY <3>1 DEF Stacked
    <3>3. stack[i - 1].at \in LoopAt
      BY <1>2, <2>1, <3>2 DEF CalledBy, LoopAt
    <3>4. QED
      BY <1>2, <3>1, <3>3 DEF LoopsUnbroken
  <2>4. QED
    BY <2>2, <2>3
<1>3. Unbroken({"refused", "fail"}) /\ Unbroken({"refused"})
  BY <1>2 DEF Unbroken
<1>4. Unhindered
  <2>1. ASSUME NEW v, ViewLoop(v), NEW i \in 1..Height, Brk(stack[i]) PROVE FALSE
    <3>1. 1 \in 1..i
      BY <1>1
    <3>2. QED
      BY <2>1, <3>1 DEF LoopsUnbroken, ViewLoop
  <2>2. QED
    BY <2>1 DEF Unhindered
<1>5. QED
  BY <1>3, <1>4

(* With at most one job loop active at a time, the instances that TLC checks *)
(* these properties on, they hold without further conditions.                *)
THEOREM OneLoopEnough ==
  ASSUME MaxTicks <= 1
  PROVE  Spec => [](HandlerBracket /\ RefsMatch /\ OneVerdict /\ ViewForgotten /\ SuccessIsTold)
<1>1. Init => LoopsUnbroken
  BY DEF Init, LoopsUnbroken, Height
<1>2. ASSUME IInv, IInv', Stacked, LoopsUnbroken, [Next]_vars PROVE LoopsUnbroken'
  BY <1>2, LoopsUnbrokenKept
<1>3. Spec => [](Unbroken({"refused", "fail"}) /\ Unbroken({"refused"}) /\ Unhindered)
  <2>1. Spec => []LoopsUnbroken
    BY <1>1, <1>2, Invariance, CallersRight, PTL DEF Spec
  <2>2. IInv /\ Stacked /\ LoopsUnbroken => Unbroken({"refused", "fail"}) /\ Unbroken({"refused"}) /\ Unhindered
    BY UnbrokenAlone
  <2>3. QED
    BY <2>1, <2>2, Invariance, CallersRight, PTL
<1>4. QED
  BY <1>3, HandlersBracketed, ReferencesMatched, ToldOnce, ViewsForgotten, SuccessesTold, PTL

=============================================================================
