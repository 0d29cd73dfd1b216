-------------------------- MODULE JobManagerProofs --------------------------
(***************************************************************************)
(* Proofs about JobManager, for any handles, views, kinds and bounds.      *)
(*                                                                         *)
(* TypeOK alone is not inductive: an action reads the frame below the top  *)
(* of the stack (TransferEnds) and takes the handle or the View it works   *)
(* for from a frame.  GoodFrame and Shape say what those frames are.       *)
(***************************************************************************)
EXTENDS JobManager, SequenceLemmas, FiniteSetTheorems

(* A frame that made a call into the client names a handle, ShutdownView     *)
(* names its View, and only downloadTimerCallback starts jobs.               *)
GoodFrame == {f \in Frame :
  /\ f.at = "client" /\ f.cb # "script" => f.it \in Handle
  /\ f.at \in LoopAt /\ f.src = "view" => f.view \in View
  /\ f.at \in {"start", "restart"} => f.src \in {"tick", "timer"}}

(* Transfer is only called by the first loop of ProcessJobs, and the second  *)
(* startPendingJobs of downloadTimerCallback makes a call only after it has  *)
(* taken a handle off the queue, which the callback remembers.               *)
TransferInRun(s) == \A i \in DOMAIN s : s[i].at = "transfer" => i > 1 /\ s[i - 1].at = "run"
BusyBelow(s) == \A i \in 1..(Len(s) - 1) : s[i].at = "restart" => s[i].busy
WellStacked(s) == s \in Seq(GoodFrame) /\ TransferInRun(s) /\ BusyBelow(s)

Refused(f) == f.at = "client" /\ f.cb = "refused"
RefusedIn(s) == {i \in DOMAIN s : Refused(s[i])}
Count(s) == Cardinality(RefusedIn(s))
Drives(f) == f.at \in LoopAt /\ f.src \in {"tick", "timer"}
DrivenBy(s) == \E i \in DOMAIN s : Drives(s[i])

-----------------------------------------------------------------------------
(* Frames.                                                                   *)

LEMMA LoopFrames ==
  ASSUME NEW f \in GoodFrame, f.at \in LoopAt
  PROVE  /\ f \in LoopFrame /\ ~Refused(f)
         /\ \A x \in Handle \cup {None}, t \in BOOLEAN :
              LET g == [f EXCEPT !.it = x, !.told = t]
              IN g \in GoodFrame /\ g.at = f.at /\ g.src = f.src /\ g.busy = f.busy
<1>1. f \in LoopFrame
  BY DEF GoodFrame, Frame, LoopFrame, TransferFrame, ClientFrame, LoopAt
<1>2. ~Refused(f)
  BY DEF Refused, LoopAt
<1>3. ASSUME NEW x \in Handle \cup {None}, NEW t \in BOOLEAN
      PROVE  LET g == [f EXCEPT !.it = x, !.told = t]
             IN g \in GoodFrame /\ g.at = f.at /\ g.src = f.src /\ g.busy = f.busy
  <2> DEFINE g == [f EXCEPT !.it = x, !.told = t]
  <2>1. g \in LoopFrame /\ g.at = f.at /\ g.src = f.src /\ g.busy = f.busy /\ g.view = f.view
    BY <1>1 DEF LoopFrame
  <2> HIDE DEF g
  <2>2. g \in GoodFrame
    BY <2>1 DEF GoodFrame, Frame, LoopAt
  <2>3. QED
    BY <2>1, <2>2 DEF g
<1>4. QED
  BY <1>1, <1>2, <1>3

LEMMA ClientCalls ==
  ASSUME NEW h \in Handle, NEW cb \in Callback
  PROVE  /\ ClientCall(h, cb) \in GoodFrame
         /\ ClientCall(h, cb).at = "client"
         /\ Refused(ClientCall(h, cb)) <=> cb = "refused"
         /\ ~Drives(ClientCall(h, cb))
<1>1. ViewOf[h] \in View
  BY ViewAssumption
<1>2. ClientCall(h, cb) \in ClientFrame
  BY <1>1 DEF ClientCall, ClientFrame
<1>3. ClientCall(h, cb) \in GoodFrame
  BY <1>2 DEF ClientCall, GoodFrame, Frame, LoopAt
<1>4. QED
  BY <1>3 DEF ClientCall, Refused, Drives, LoopAt

-----------------------------------------------------------------------------
(* The stack after a call, a step of the top frame and a return.             *)

LEMMA Counts ==
  ASSUME NEW s \in Seq(GoodFrame)
  PROVE  /\ Count(s) \in Nat
         /\ Cardinality(RefusedIn(s) \cup {Len(s) + 1}) = Count(s) + 1
         /\ Cardinality(RefusedIn(s) \ {Len(s)})
              = IF Len(s) \in RefusedIn(s) THEN Count(s) - 1 ELSE Count(s)
<1>1. Len(s) \in Nat /\ RefusedIn(s) \subseteq 1..Len(s) /\ Len(s) + 1 \notin RefusedIn(s)
  BY DEF RefusedIn
<1>2. IsFiniteSet(1..Len(s))
  BY <1>1, FS_Interval
<1>3. IsFiniteSet(RefusedIn(s))
  BY <1>1, <1>2, FS_Subset
<1>4. QED
  BY <1>1, <1>3, FS_CardinalityType, FS_AddElement, FS_RemoveElement DEF Count

LEMMA Calls ==
  ASSUME NEW s, WellStacked(s), NEW f \in GoodFrame,
         s # <<>> /\ Last(s).at = "restart" => Last(s).busy,
         f.at = "transfer" => s # <<>> /\ Last(s).at = "run"
  PROVE  /\ WellStacked(Append(s, f)) /\ Append(s, f) # <<>> /\ Last(Append(s, f)) = f
         /\ Count(Append(s, f)) = IF Refused(f) THEN Count(s) + 1 ELSE Count(s)
         /\ DrivenBy(Append(s, f)) <=> DrivenBy(s) \/ Drives(f)
<1> DEFINE t == Append(s, f)
<1>0. s \in Seq(GoodFrame) /\ TransferInRun(s) /\ BusyBelow(s)
  BY DEF WellStacked
<1>1. /\ t \in Seq(GoodFrame) /\ Len(t) = Len(s) + 1 /\ Len(s) \in Nat
      /\ DOMAIN t = 1..(Len(s) + 1) /\ DOMAIN s = 1..Len(s)
      /\ t[Len(s) + 1] = f /\ \A i \in 1..Len(s) : t[i] = s[i]
  BY <1>0
<1>2. /\ s # <<>> => Len(s) \in 1..Len(s) /\ Last(s) = s[Len(s)]
      /\ s = <<>> => Len(s) = 0
      /\ t # <<>> /\ Last(t) = t[Len(t)]
  BY <1>0 DEF Last
<1> HIDE DEF t
<1>3. TransferInRun(t)
  <2> SUFFICES ASSUME NEW i \in 1..(Len(s) + 1), t[i].at = "transfer"
               PROVE  i > 1 /\ t[i - 1].at = "run"
    BY <1>1 DEF TransferInRun
  <2>1. CASE i = Len(s) + 1
    BY <1>1, <1>2, <2>1
  <2>2. CASE i \in 1..Len(s)
    <3>1. i > 1 /\ s[i - 1].at = "run"
      BY <1>0, <1>1, <2>2 DEF TransferInRun
    <3>2. i - 1 \in 1..Len(s)
      BY <1>1, <2>2, <3>1
    <3>3. QED
      BY <1>1, <3>1, <3>2
  <2>3. QED
    BY <1>1, <2>1, <2>2
<1>4. RefusedIn(t) = IF Refused(f) THEN RefusedIn(s) \cup {Len(s) + 1} ELSE RefusedIn(s)
  BY <1>1 DEF RefusedIn, Refused
<1>5. DrivenBy(t) <=> DrivenBy(s) \/ Drives(f)
  BY <1>1 DEF DrivenBy, Drives
<1>6. Count(t) = IF Refused(f) THEN Count(s) + 1 ELSE Count(s)
  BY <1>0, <1>4, Counts DEF Count
<1>7. BusyBelow(t)
  <2> SUFFICES ASSUME NEW i \in 1..Len(s), t[i].at = "restart"
               PROVE  t[i].busy
    BY <1>1 DEF BusyBelow
  <2>1. CASE i = Len(s)
    BY <1>1, <1>2, <2>1
  <2>2. CASE i \in 1..(Len(s) - 1)
    BY <1>0, <1>1, <2>2 DEF BusyBelow
  <2>3. QED
    BY <1>1, <2>1, <2>2
<1>8. QED
  BY <1>1, <1>2, <1>3, <1>5, <1>6, <1>7 DEF t, WellStacked

LEMMA TopSteps ==
  ASSUME NEW s, WellStacked(s), s # <<>>, NEW f \in GoodFrame,
         f.at = "transfer" <=> Last(s).at = "transfer"
  PROVE  LET t == [s EXCEPT ![Len(s)] = f]
         IN /\ WellStacked(t) /\ t # <<>> /\ Last(t) = f
            /\ (Refused(f) <=> Refused(Last(s))) => Count(t) = Count(s)
            /\ (Drives(Last(s)) => Drives(f)) => (DrivenBy(s) => DrivenBy(t))
<1> DEFINE t == [s EXCEPT ![Len(s)] = f]
<1>0. s \in Seq(GoodFrame) /\ TransferInRun(s) /\ BusyBelow(s)
  BY DEF WellStacked
<1>1. Len(s) \in 1..Len(s) /\ Len(s) \in Nat /\ Last(s) = s[Len(s)]
  BY <1>0, LastFacts
<1>2. /\ t \in Seq(GoodFrame) /\ Len(t) = Len(s)
      /\ DOMAIN t = 1..Len(s) /\ DOMAIN s = 1..Len(s)
      /\ \A i \in 1..Len(s) : t[i] = IF i = Len(s) THEN f ELSE s[i]
  BY <1>0, <1>1
<1> HIDE DEF t
<1>3. t # <<>> /\ Last(t) = f
  <2>1. t # <<>>
    <3> SUFFICES ASSUME t = <<>> PROVE FALSE
      OBVIOUS
    <3>1. Len(<<>>) = 0
      OBVIOUS
    <3>2. Len(t) = Len(<<>>)
      BY Zenon
    <3>3. Len(s) = 0
      BY <1>2, <3>1, <3>2, Zenon
    <3>4. QED
      BY <1>1, <3>3
  <2>2. Last(t) = t[Len(s)]
    BY <1>2 DEF Last
  <2>3. QED
    BY <1>1, <1>2, <2>1, <2>2
<1>4. TransferInRun(t)
  <2> SUFFICES ASSUME NEW i \in 1..Len(s), t[i].at = "transfer"
               PROVE  i > 1 /\ t[i - 1].at = "run"
    BY <1>2 DEF TransferInRun
  <2>1. s[i].at = "transfer"
    BY <1>1, <1>2
  <2>2. i > 1 /\ s[i - 1].at = "run"
    BY <1>0, <1>2, <2>1 DEF TransferInRun
  <2>3. i - 1 \in 1..Len(s) /\ i - 1 # Len(s)
    BY <1>1, <2>2
  <2>4. QED
    BY <1>2, <2>2, <2>3
<1>5. ASSUME Refused(f) <=> Refused(Last(s))
      PROVE  Count(t) = Count(s)
  <2>1. RefusedIn(t) = RefusedIn(s)
    BY <1>1, <1>2, <1>5 DEF RefusedIn, Refused
  <2>2. QED
    BY <2>1 DEF Count
<1>6. ASSUME Drives(Last(s)) => Drives(f), DrivenBy(s)
      PROVE  DrivenBy(t)
  BY <1>1, <1>2, <1>6 DEF DrivenBy, Drives
<1>7. BusyBelow(t)
  <2> SUFFICES ASSUME NEW i \in 1..(Len(s) - 1), t[i].at = "restart"
               PROVE  t[i].busy
    BY <1>2 DEF BusyBelow
  <2>1. i \in 1..Len(s) /\ i # Len(s)
    BY <1>1
  <2>2. QED
    BY <1>0, <1>2, <2>1 DEF BusyBelow
<1>8. QED
  BY <1>2, <1>3, <1>4, <1>5, <1>6, <1>7 DEF t, WellStacked

LEMMA StackReturns ==
  ASSUME NEW s, WellStacked(s), s # <<>>
  PROVE  /\ WellStacked(Front(s)) /\ Len(Front(s)) = Len(s) - 1
         /\ Front(s) # <<>> /\ Last(Front(s)).at = "restart" => Last(Front(s)).busy
         /\ Count(Front(s)) = IF Refused(Last(s)) THEN Count(s) - 1 ELSE Count(s)
         /\ DrivenBy(s) <=> DrivenBy(Front(s)) \/ Drives(Last(s))
         /\ Last(s).at = "transfer" =>
              Front(s) # <<>> /\ Last(Front(s)) \in GoodFrame /\ Last(Front(s)).at = "run"
              /\ Last(Front(s)) = s[Len(s) - 1]
<1> DEFINE t == Front(s)
<1>0. s \in Seq(GoodFrame) /\ TransferInRun(s) /\ BusyBelow(s)
  BY DEF WellStacked
<1>1. Len(s) \in 1..Len(s) /\ Len(s) \in Nat /\ Last(s) = s[Len(s)]
  BY <1>0, LastFacts
<1>2. /\ t \in Seq(GoodFrame) /\ Len(t) = Len(s) - 1
      /\ \A i \in 1..(Len(s) - 1) : t[i] = s[i]
  BY <1>0, FrontFacts
<1> HIDE DEF t
<1>3. DOMAIN t = 1..(Len(s) - 1) /\ DOMAIN s = 1..Len(s)
  BY <1>0, <1>2
<1>4. TransferInRun(t)
  <2> SUFFICES ASSUME NEW i \in 1..(Len(s) - 1), t[i].at = "transfer"
               PROVE  i > 1 /\ t[i - 1].at = "run"
    BY <1>3 DEF TransferInRun
  <2>1. i > 1 /\ s[i - 1].at = "run"
    BY <1>0, <1>2, <1>3 DEF TransferInRun
  <2>2. i - 1 \in 1..(Len(s) - 1)
    BY <1>1, <2>1
  <2>3. QED
    BY <1>2, <2>1, <2>2
<1>5. RefusedIn(t) = RefusedIn(s) \ {Len(s)}
  BY <1>1, <1>2, <1>3 DEF RefusedIn, Refused
<1>6. DrivenBy(s) <=> DrivenBy(t) \/ Drives(Last(s))
  BY <1>1, <1>2, <1>3 DEF DrivenBy, Drives
<1>7. ASSUME Last(s).at = "transfer"
      PROVE  t # <<>> /\ Last(t) \in GoodFrame /\ Last(t).at = "run" /\ Last(t) = s[Len(s) - 1]
  <2>1. Len(s) > 1 /\ s[Len(s) - 1].at = "run"
    BY <1>0, <1>1, <1>3, <1>7 DEF TransferInRun
  <2>2. t # <<>> /\ Last(t) = t[Len(s) - 1] /\ Len(s) - 1 \in 1..(Len(s) - 1)
    BY <1>1, <1>2, <2>1 DEF Last
  <2>3. QED
    BY <1>2, <2>1, <2>2
<1>8. Count(t) = IF Refused(Last(s)) THEN Count(s) - 1 ELSE Count(s)
  <2>1. Len(s) \in RefusedIn(s) <=> Refused(Last(s))
    BY <1>1, <1>3 DEF RefusedIn
  <2>2. QED
    BY <1>0, <1>5, <2>1, Counts DEF Count
<1>9. BusyBelow(t)
  BY <1>0, <1>1, <1>2 DEF BusyBelow
<1>10. ASSUME t # <<>>, Last(t).at = "restart"
       PROVE  Last(t).busy
  <2>1. Last(t) = t[Len(s) - 1] /\ Len(s) - 1 \in 1..(Len(s) - 1)
    BY <1>1, <1>2, <1>10 DEF Last
  <2>2. QED
    BY <1>0, <1>2, <1>10, <2>1 DEF BusyBelow
<1>11. QED
  BY <1>2, <1>4, <1>6, <1>7, <1>8, <1>9, <1>10 DEF t, WellStacked

-----------------------------------------------------------------------------
(* The inductive invariant.                                                  *)

DataOK ==
  /\ pending \in Seq(Handle)
  /\ jobs \in Seq(Handle)
  /\ info \in [Handle -> JobInfo]
  /\ running \in Int
  /\ condemned \in BOOLEAN /\ timer \in BOOLEAN /\ installed \in BOOLEAN
  /\ rh \in [Handle -> ResourceHandle]
  /\ refs \in [Handle -> Int]
  /\ closed \subseteq View
  /\ loaded \subseteq Handle /\ gaveUp \subseteq Handle
  /\ open \subseteq Handle
  /\ verdicts \in [Handle -> Nat]

(* A callback about to leave finds no job, or has noted that it must arm the *)
(* timer.                                                                    *)
RestartBusy == TopAt("restart") => Top.busy \/ jobs = <<>>

IInv ==
  /\ DataOK
  /\ WellStacked(stack)
  /\ running = Len(jobs) - Count(stack)
  /\ RestartBusy
  /\ pending # <<>> \/ jobs # <<>> => timer \/ DrivenBy(stack)

(* A stack reached without losing a refusal or a callback.                   *)
Step(s) == WellStacked(s) /\ Count(s) = Count(stack) /\ (DrivenBy(stack) => DrivenBy(s))

LEMMA Start == ASSUME IInv PROVE Step(stack)
BY DEF IInv, Step

LEMMA StepTop ==
  ASSUME NEW s, Step(s), s # <<>>, NEW f \in GoodFrame,
         f.at = "transfer" <=> Last(s).at = "transfer",
         Refused(f) <=> Refused(Last(s)), Drives(Last(s)) => Drives(f)
  PROVE  LET t == [s EXCEPT ![Len(s)] = f]
         IN Step(t) /\ t # <<>> /\ Last(t) = f
BY TopSteps DEF Step

LEMMA StepCall ==
  ASSUME NEW s, Step(s), NEW f \in GoodFrame, ~Refused(f),
         s # <<>> /\ Last(s).at = "restart" => Last(s).busy,
         f.at = "transfer" => s # <<>> /\ Last(s).at = "run"
  PROVE  LET t == Append(s, f)
         IN Step(t) /\ t # <<>> /\ Last(t) = f
BY Calls DEF Step

LEMMA StepReturn ==
  ASSUME NEW s, Step(s), s # <<>>, ~Refused(Last(s)), ~Drives(Last(s))
  PROVE  /\ Step(Front(s))
         /\ Front(s) # <<>> /\ Last(Front(s)).at = "restart" => Last(Front(s)).busy
BY StackReturns DEF Step

(* Most actions neither start nor remove a job.                              *)
LEMMA Quiet ==
  ASSUME IInv, DataOK', Step(stack'), UNCHANGED <<jobs, running, timer>>,
         pending' # <<>> => pending # <<>>, RestartBusy'
  PROVE  IInv'
BY DEF IInv, Step

-----------------------------------------------------------------------------
(* The steps of WebCore and of the application.                              *)

LEMMA AddKeeps == ASSUME IInv, NEW h \in Handle, Add(h) PROVE IInv'
<1>1. DataOK'
  BY DEF IInv, DataOK, Add
<1>2. QED
  BY <1>1 DEF IInv, Add, RestartBusy, TopAt, Top

LEMMA DerefTypes ==
  ASSUME IInv, NEW h \in Handle, refs' = [refs EXCEPT ![h] = @ - 1]
  PROVE  refs' \in [Handle -> Int]
<1>1. refs \in [Handle -> Int] /\ refs[h] - 1 \in Int
  BY DEF IInv, DataOK
<1>2. QED
  BY <1>1

LEMMA CancelHandleKeeps ==
  ASSUME IInv, NEW h \in Handle, CancelHandle(h),
         UNCHANGED <<jobs, info, running, condemned, timer, installed, closed, stack,
                     loaded, open, verdicts>>
  PROVE  IInv'
<1>1. /\ pending' \in Seq(Handle) /\ (pending' # <<>> => pending # <<>>)
      /\ refs' \in [Handle -> Int] /\ rh' \in [Handle -> ResourceHandle]
  <2> USE DEF IInv, DataOK
  <2>1. CASE \A i \in DOMAIN pending : pending[i] # h
    <3>1. [rh[h] EXCEPT !.cancelled = TRUE] \in ResourceHandle
      BY DEF ResourceHandle
    <3>2. rh' = [rh EXCEPT ![h].cancelled = TRUE] /\ UNCHANGED <<pending, refs>>
      BY <2>1 DEF CancelHandle
    <3>3. QED
      BY <3>1, <3>2
  <2>2. CASE ~(\A i \in DOMAIN pending : pending[i] # h)
    <3>1. PICK i \in DOMAIN pending : pending' = RemoveAt(pending, i)
      BY <2>2 DEF CancelHandle
    <3>2. pending # <<>> /\ i \in 1..Len(pending)
      BY <3>1
    <3>3. RemoveAt(pending, i) \in Seq(Handle)
      BY <3>2, RemoveAtFacts
    <3>4. refs' = [refs EXCEPT ![h] = @ - 1] /\ rh' = rh
      BY <2>2 DEF CancelHandle
    <3>5. refs' \in [Handle -> Int] /\ rh' \in [Handle -> ResourceHandle]
      BY <3>4, DerefTypes
    <3>6. QED
      BY <3>1, <3>2, <3>3, <3>5
  <2>3. QED
    BY <2>1, <2>2
<1>2. DataOK'
  BY <1>1 DEF IInv, DataOK, CancelHandle
<1>3. QED
  BY <1>1, <1>2 DEF IInv, RestartBusy, TopAt, Top

LEMMA DeferTypes ==
  ASSUME IInv, NEW V, NEW b \in BOOLEAN, Defer(V, b),
         UNCHANGED <<pending, jobs, running, condemned, timer, installed, refs, closed, hist>>
  PROVE  DataOK'
<1> USE DEF IInv, DataOK
<1> DEFINE S == {h \in Handle : ViewOf[h] \in V /\ Holds(h)}
<1> HIDE DEF S
<1>1. rh' = [h \in Handle |-> IF h \in S THEN [rh[h] EXCEPT !.defers = b] ELSE rh[h]]
  BY DEF Defer, S
<1>2. info' = [h \in Handle |-> IF h \in S /\ InJobs(h)
                                THEN [info[h] EXCEPT !.paused = b] ELSE info[h]]
  BY DEF Defer, S
<1>3. rh' \in [Handle -> ResourceHandle]
  <2>1. \A h \in Handle : [rh[h] EXCEPT !.defers = b] \in ResourceHandle
    BY DEF ResourceHandle
  <2>2. QED
    BY <1>1, <2>1
<1>4. info' \in [Handle -> JobInfo]
  <2>1. \A h \in Handle : [info[h] EXCEPT !.paused = b] \in JobInfo
    BY DEF JobInfo
  <2>2. QED
    BY <1>2, <2>1
<1>5. QED
  BY <1>3, <1>4 DEF hist

(* The client on top of the stack.                                           *)
LEMMA ClientOnTop ==
  ASSUME IInv, TopAt("client")
  PROVE  /\ stack # <<>> /\ Top \in ClientFrame /\ Top.view \in View /\ ~Drives(Top)
         /\ Refused(Top) <=> Top.cb = "refused"
         /\ Top.cb # "script" => Top.it \in Handle
         /\ \A b \in BOOLEAN :
              LET f == [Top EXCEPT !.brk = b]
              IN f \in GoodFrame /\ f.at = "client" /\ f.cb = Top.cb
<1>1. stack # <<>> /\ Top \in GoodFrame /\ Top.at = "client"
  BY LastFacts DEF IInv, WellStacked, TopAt, Top
<1>2. Top \in ClientFrame
  BY <1>1 DEF GoodFrame, Frame, LoopFrame, TransferFrame, LoopAt
<1>3. ASSUME NEW b \in BOOLEAN
      PROVE  LET f == [Top EXCEPT !.brk = b]
             IN f \in GoodFrame /\ f.at = "client" /\ f.cb = Top.cb
  <2> DEFINE f == [Top EXCEPT !.brk = b]
  <2>1. f \in ClientFrame /\ f.at = "client" /\ f.cb = Top.cb /\ f.it = Top.it
    BY <1>2 DEF ClientFrame
  <2> HIDE DEF f
  <2>2. f \in GoodFrame
    BY <1>1, <2>1 DEF GoodFrame, Frame, LoopAt
  <2>3. QED
    BY <2>1, <2>2 DEF f
<1>4. QED
  BY <1>1, <1>2, <1>3 DEF GoodFrame, ClientFrame, Refused, Drives, LoopAt

LEMMA BrkKeeps ==
  ASSUME IInv, TopAt("client"), NEW b \in BOOLEAN, Defer(Group(Top.view), b),
         stack' = Becomes([Top EXCEPT !.brk = b]),
         UNCHANGED <<pending, jobs, running, condemned, timer, installed, refs, closed, hist>>
  PROVE  IInv'
<1> DEFINE f == [Top EXCEPT !.brk = b]
<1>1. /\ stack # <<>> /\ Top.view \in View /\ ~Drives(Top)
      /\ f \in GoodFrame /\ f.at = "client" /\ f.cb = Top.cb /\ Top.at = "client"
  BY ClientOnTop DEF TopAt
<1>2. DataOK'
  BY <1>1, DeferTypes
<1> HIDE DEF f
<1>3. Step(stack') /\ stack' # <<>> /\ Last(stack') = f
  BY <1>1, Start, StepTop DEF Becomes, Refused, f, Top
<1>4. RestartBusy'
  BY <1>1, <1>3 DEF RestartBusy, TopAt, Top
<1>5. QED
  BY <1>2, <1>3, <1>4, Quiet

LEMMA RunScriptKeeps == ASSUME IInv, NEW v \in View, RunScript(v) PROVE IInv'
<1> DEFINE f == [at |-> "client", it |-> None, cb |-> "script", view |-> v, brk |-> FALSE]
<1>1. f \in GoodFrame /\ f.at = "client" /\ ~Refused(f)
  BY DEF GoodFrame, Frame, ClientFrame, Callback, LoopAt, Refused
<1>2. stack' = Append(stack, f) /\ stack = <<>>
  BY DEF RunScript, Idle
<1> HIDE DEF f
<1>3. Step(stack') /\ stack' # <<>> /\ Last(stack') = f
  BY <1>1, <1>2, Start, StepCall
<1>4. RestartBusy'
  BY <1>1, <1>3 DEF RestartBusy, TopAt, Top
<1>5. DataOK'
  BY DEF IInv, DataOK, RunScript, hist
<1>6. QED
  BY <1>3, <1>4, <1>5, Quiet DEF RunScript

-----------------------------------------------------------------------------
(* Loop frames on top of the stack.                                          *)

LEMMA LoopGood ==
  ASSUME NEW g \in LoopFrame, g.src = "view" => g.view \in View,
         g.at \in {"start", "restart"} => g.src \in {"tick", "timer"}
  PROVE  /\ g \in GoodFrame /\ ~Refused(g) /\ g.at # "transfer" /\ g.at # "client"
         /\ Drives(g) <=> g.src \in {"tick", "timer"}
<1>1. g.at \in LoopAt
  BY DEF LoopFrame
<1>2. g.at # "client" /\ g.at # "transfer"
  BY <1>1 DEF LoopAt
<1>3. g \in GoodFrame
  BY <1>2 DEF GoodFrame, Frame
<1>4. QED
  BY <1>1, <1>2, <1>3 DEF Refused, Drives

LEMMA LoopOnTop ==
  ASSUME IInv, stack # <<>>, Top.at \in LoopAt
  PROVE  /\ Top \in LoopFrame /\ ~Refused(Top) /\ Top.at # "transfer"
         /\ Top.src = "view" => Top.view \in View
         /\ Top.at \in {"start", "restart"} => Top.src \in {"tick", "timer"}
         /\ Drives(Top) <=> Top.src \in {"tick", "timer"}
<1>1. Top \in GoodFrame
  BY LastFacts DEF IInv, WellStacked, Top
<1>2. QED
  BY <1>1, LoopFrames DEF GoodFrame, Drives, LoopAt

(* A step of the loop on top.                                                *)
LEMMA LoopTop ==
  ASSUME IInv, stack # <<>>, Top.at \in LoopAt, NEW g \in LoopFrame,
         g.src = Top.src, g.view = Top.view,
         g.at \in {"start", "restart"} => g.src \in {"tick", "timer"}
  PROVE  Step(Becomes(g)) /\ Becomes(g) # <<>> /\ Last(Becomes(g)) = g
<1>1. /\ ~Refused(Top) /\ Top.at # "transfer" /\ (Drives(Top) <=> Top.src \in {"tick", "timer"})
      /\ Top.src = "view" => Top.view \in View
  BY LoopOnTop
<1>2. /\ g \in GoodFrame /\ ~Refused(g) /\ g.at # "transfer"
      /\ Drives(g) <=> g.src \in {"tick", "timer"}
  BY <1>1, LoopGood
<1>3. QED
  BY <1>1, <1>2, Start, StepTop DEF Becomes, Top

LEMMA JobTypes ==
  ASSUME IInv
  PROVE  /\ FirstJob \in Handle \cup {None}
         /\ \A h \in Handle : InJobs(h) => JobAfter(h) \in Handle \cup {None}
                                           /\ Position(h) \in 1..Len(jobs)
<1>1. jobs \in Seq(Handle)
  BY DEF IInv, DataOK
<1>2. FirstJob \in Handle \cup {None}
  BY <1>1 DEF FirstJob
<1>3. ASSUME NEW h \in Handle, InJobs(h)
      PROVE  JobAfter(h) \in Handle \cup {None} /\ Position(h) \in 1..Len(jobs)
  <2>1. Position(h) \in DOMAIN jobs
    BY <1>3 DEF InJobs, Position
  <2>2. Position(h) \in 1..Len(jobs)
    BY <1>1, <2>1
  <2>3. QED
    BY <1>1, <2>2 DEF JobAfter
<1>4. QED
  BY <1>2, <1>3

LEMMA Advances ==
  ASSUME IInv, NEW l \in {"run", "remove"}, TopAt(l), NEW h \in Handle, Top.it = h, InJobs(h)
  PROVE  Step(Advance) /\ Advance # <<>> /\ Last(Advance).at = l
<1> DEFINE g == [Top EXCEPT !.it = JobAfter(Top.it), !.told = FALSE]
<1>1. stack # <<>> /\ Top.at = l /\ Top.at \in LoopAt
  BY DEF TopAt, LoopAt
<1>2. Top \in LoopFrame
  BY <1>1, LoopOnTop
<1>3. JobAfter(Top.it) \in Handle \cup {None}
  BY JobTypes
<1>4. g \in LoopFrame /\ g.src = Top.src /\ g.view = Top.view /\ g.at = l
  BY <1>1, <1>2, <1>3 DEF LoopFrame
<1> HIDE DEF g
<1>5. QED
  BY <1>1, <1>4, LoopTop DEF Advance, g

LEMMA CondemnTypes ==
  ASSUME IInv, NEW S, Condemn(S)
  PROVE  info' \in [Handle -> JobInfo] /\ condemned' \in BOOLEAN
<1>1. info \in [Handle -> JobInfo] /\ condemned \in BOOLEAN
  BY DEF IInv, DataOK
<1>2. \A h \in Handle : [info[h] EXCEPT !.state = "Remove"] \in JobInfo
  BY <1>1 DEF JobInfo, JobState
<1>3. QED
  BY <1>1, <1>2 DEF Condemn

LEMMA CalledTypes ==
  ASSUME IInv, NEW h \in Handle, NEW cb \in Callback, Called(h, cb)
  PROVE  /\ loaded' \subseteq Handle /\ gaveUp' \subseteq Handle /\ open' \subseteq Handle
         /\ verdicts' \in [Handle -> Nat]
BY DEF IInv, DataOK, Called

(* A call of the loop, of Transfer or of the application into other code.    *)
LEMMA CallsClient ==
  ASSUME IInv, NEW s, Step(s), s # <<>> /\ Last(s).at = "restart" => Last(s).busy,
         NEW h \in Handle, NEW cb \in Callback, cb # "refused",
         stack' = Append(s, ClientCall(h, cb))
  PROVE  Step(stack') /\ RestartBusy'
<1>1. /\ ClientCall(h, cb) \in GoodFrame /\ ~Refused(ClientCall(h, cb))
      /\ ClientCall(h, cb).at = "client"
  BY ClientCalls
<1>2. Step(stack') /\ stack' # <<>> /\ Last(stack') = ClientCall(h, cb)
  BY <1>1, StepCall
<1>3. QED
  BY <1>1, <1>2 DEF RestartBusy, TopAt, Top

LEMMA AppCalls == ASSUME IInv, AppRuns PROVE ~(stack # <<>> /\ Last(stack).at = "restart")
BY DEF AppRuns, Idle, TopAt, Top

LEMMA TickKeeps == ASSUME IInv, Tick PROVE IInv'
<1> DEFINE f == NewLoop("start", "tick", None)
<1>1. f \in GoodFrame /\ ~Refused(f) /\ f.at = "start"
  BY LoopGood DEF NewLoop, LoopFrame, LoopAt, Source
<1> HIDE DEF f
<1>2. Step(stack') /\ stack' # <<>> /\ Last(stack') = f
  BY <1>1, Start, StepCall, AppCalls DEF Tick, f
<1>3. RestartBusy'
  BY <1>1, <1>2 DEF RestartBusy, TopAt, Top
<1>4. DataOK'
  BY DEF IInv, DataOK, Tick, hist
<1>5. QED
  BY <1>2, <1>3, <1>4, Quiet DEF Tick

LEMMA TimerFiresKeeps == ASSUME IInv, TimerFires PROVE IInv'
<1> DEFINE f == NewLoop("start", "timer", None)
<1>1. f \in GoodFrame /\ ~Refused(f) /\ f.at = "start" /\ Drives(f)
  BY LoopGood DEF NewLoop, LoopFrame, LoopAt, Source
<1> HIDE DEF f
<1>2. /\ WellStacked(stack') /\ stack' # <<>> /\ Last(stack') = f
      /\ Count(stack') = Count(stack) /\ DrivenBy(stack')
  BY <1>1, Calls, AppCalls DEF TimerFires, f, IInv
<1>3. RestartBusy'
  BY <1>1, <1>2 DEF RestartBusy, TopAt, Top
<1>4. DataOK'
  BY DEF IInv, DataOK, TimerFires, hist
<1>5. QED
  BY <1>2, <1>3, <1>4 DEF IInv, TimerFires

LEMMA PurgeKeeps ==
  ASSUME IInv, NEW S, NEW src \in {"view", "handler"}, NEW v \in View \cup {None},
         src = "view" => v \in View, Purge(S, src, v)
  PROVE  IInv'
<1> DEFINE f == NewLoop("run", src, v)
<1>1. f \in GoodFrame /\ ~Refused(f) /\ f.at = "run"
  BY LoopGood, JobTypes DEF NewLoop, LoopFrame, LoopAt, Source
<1> HIDE DEF f
<1>2. Step(stack') /\ stack' # <<>> /\ Last(stack') = f
  BY <1>1, Start, StepCall DEF Purge, Idle, f
<1>3. RestartBusy'
  BY <1>1, <1>2 DEF RestartBusy, TopAt, Top
<1>4. info' \in [Handle -> JobInfo] /\ condemned' \in BOOLEAN
  BY CondemnTypes DEF Purge
<1>5. DataOK'
  BY <1>4 DEF IInv, DataOK, Purge, hist
<1>6. QED
  BY <1>2, <1>3, <1>5, Quiet DEF Purge

LEMMA HeadersKeeps == ASSUME IInv, NEW h \in Handle, HeadersReceived(h) PROVE IInv'
<1>1. PICK redirect \in BOOLEAN :
        LET cb == IF redirect THEN "redirect" ELSE "headers"
            told == /\ ~rh[h].cancelled /\ rh[h].client
                    /\ redirect \/ info[h].state # "Remove"
        IN /\ rh' = [rh EXCEPT ![h].headers = IF redirect THEN "redirected" ELSE "seen",
                               ![h].fired = @ \/ (~redirect /\ ~told /\ ~rh[h].cancelled)]
           /\ IF told THEN stack' = Append(stack, ClientCall(h, cb)) /\ Called(h, cb)
                      ELSE UNCHANGED <<stack, hist>>
  BY DEF HeadersReceived
<1>2. rh' \in [Handle -> ResourceHandle]
  <2>1. rh \in [Handle -> ResourceHandle] /\ rh[h] \in ResourceHandle
    BY DEF IInv, DataOK
  <2>2. \A x \in {"redirected", "seen"}, y \in BOOLEAN :
          [rh[h] EXCEPT !.headers = x, !.fired = y] \in ResourceHandle
    BY <2>1 DEF ResourceHandle
  <2>3. rh[h].fired \in BOOLEAN
    BY <2>1 DEF ResourceHandle
  <2>4. QED
    BY <1>1, <2>1, <2>2, <2>3
<1>3. /\ loaded' \subseteq Handle /\ gaveUp' \subseteq Handle /\ open' \subseteq Handle
      /\ verdicts' \in [Handle -> Nat]
  BY <1>1, CalledTypes DEF IInv, DataOK, hist, Callback
<1>4. DataOK'
  BY <1>2, <1>3 DEF IInv, DataOK, HeadersReceived
<1>5. CASE UNCHANGED stack
  BY <1>4, <1>5 DEF IInv, HeadersReceived, RestartBusy, TopAt, Top
<1>6. ASSUME NEW cb \in {"redirect", "headers"}, stack' = Append(stack, ClientCall(h, cb))
      PROVE  IInv'
  <2>1. Step(stack') /\ RestartBusy'
    BY <1>6, Start, CallsClient, AppCalls DEF HeadersReceived, Callback
  <2>2. QED
    BY <1>4, <2>1, Quiet DEF HeadersReceived
<1>7. QED
  BY <1>1, <1>5, <1>6

-----------------------------------------------------------------------------
(* startPendingJobs.                                                         *)

(* Taking the first handle off the queue.                                    *)
LEMMA Starts ==
  ASSUME IInv, Starting, NEW h \in Handle, h = Head(pending), pending # <<>>
  PROVE  /\ Tail(pending) \in Seq(Handle)
         /\ Step(Started) /\ Started # <<>> /\ Drives(Last(Started))
         /\ DrivenBy(stack) /\ DrivenBy(Started)
         /\ Last(Started).at = "restart" => Last(Started).busy
         /\ Last(Started).at \in {"start", "restart"}
<1> DEFINE g == [Top EXCEPT !.busy = (Top.at = "restart")]
<1>1. stack # <<>> /\ Top.at \in {"start", "restart"} /\ Top.at \in LoopAt
  BY DEF Starting, TopAt, LoopAt
<1>2. Top \in LoopFrame /\ Top.src \in {"tick", "timer"} /\ Drives(Top)
  BY <1>1, LoopOnTop
<1>3. /\ g \in LoopFrame /\ g.src = Top.src /\ g.view = Top.view /\ g.at = Top.at
      /\ g.at = "restart" => g.busy
  BY <1>2 DEF LoopFrame
<1> HIDE DEF g
<1>4. Step(Started) /\ Started # <<>> /\ Last(Started) = g
  BY <1>1, <1>2, <1>3, LoopTop DEF Started, g
<1>5. Drives(g)
  BY <1>1, <1>2, <1>3 DEF Drives
<1>6. DrivenBy(stack)
  <2>1. stack \in Seq(GoodFrame)
    BY DEF IInv, WellStacked
  <2>2. Len(stack) \in DOMAIN stack /\ Top = stack[Len(stack)]
    BY <1>1, <2>1, LastFacts DEF Top
  <2>3. QED
    BY <1>2, <2>2 DEF DrivenBy
<1>7. Tail(pending) \in Seq(Handle)
  BY DEF IInv, DataOK
<1>8. QED
  BY <1>1, <1>3, <1>4, <1>5, <1>6, <1>7 DEF Step

LEMMA StartDataURLKeeps == ASSUME IInv, NEW h \in Handle, StartDataURL(h) PROVE IInv'
<1>1. /\ Starting /\ pending # <<>> /\ h = Head(pending) /\ pending' = Tail(pending)
      /\ UNCHANGED <<jobs, info, running, condemned, timer, installed, rh, refs, closed>>
  BY DEF StartDataURL, MayStart
<1>2. PICK cb \in {"urlResponse", "urlDone"} :
        stack' = Append(Started, ClientCall(h, cb)) /\ Called(h, cb)
  BY DEF StartDataURL
<1>3. cb \in Callback /\ cb # "refused"
  BY DEF Callback
<1>4. Step(stack') /\ RestartBusy'
  BY <1>1, <1>2, <1>3, Starts, CallsClient
<1>5. DataOK'
  BY <1>1, <1>2, <1>3, Starts, CalledTypes DEF IInv, DataOK
<1>6. QED
  BY <1>1, <1>4, <1>5, Quiet

LEMMA AppendedJob ==
  ASSUME IInv, NEW h \in Handle
  PROVE  Append(jobs, h) \in Seq(Handle) /\ Len(Append(jobs, h)) = Len(jobs) + 1
BY DEF IInv, DataOK

LEMMA StartJobKeeps == ASSUME IInv, NEW h \in Handle, StartJob(h) PROVE IInv'
<1>1. /\ Starting /\ pending # <<>> /\ h = Head(pending) /\ pending' = Tail(pending)
      /\ jobs' = Append(jobs, h) /\ running' = running + 1 /\ stack' = Started
      /\ info' = [info EXCEPT ![h] = NewJob(rh[h].defers)]
      /\ UNCHANGED <<condemned, timer, installed, rh, refs, closed, hist>>
  BY DEF StartJob, MayStart
<1>2. NewJob(rh[h].defers) \in JobInfo
  <2>1. rh[h].defers \in BOOLEAN
    BY DEF IInv, DataOK, ResourceHandle
  <2>2. QED
    BY <2>1 DEF NewJob, JobInfo, JobState
<1>3. DataOK'
  <2>1. info' \in [Handle -> JobInfo] /\ running' \in Int
    BY <1>1, <1>2 DEF IInv, DataOK
  <2>2. QED
    BY <1>1, <2>1, Starts, AppendedJob DEF IInv, DataOK, hist
<1>4. /\ Step(stack') /\ DrivenBy(stack')
      /\ Last(stack').at = "restart" => Last(stack').busy
  BY <1>1, Starts
<1>5. Len(jobs') = Len(jobs) + 1 /\ Count(stack') = Count(stack) /\ Len(jobs) \in Nat
  BY <1>1, <1>4, AppendedJob DEF Step, IInv, DataOK
<1>6. Count(stack) \in Nat
  BY Counts DEF IInv, WellStacked
<1>7. running' = Len(jobs') - Count(stack')
  BY <1>1, <1>5, <1>6 DEF IInv
<1>8. RestartBusy'
  BY <1>4 DEF RestartBusy, TopAt, Top
<1>9. QED
  BY <1>3, <1>4, <1>7, <1>8 DEF IInv, Step

LEMMA StartRefusedKeeps == ASSUME IInv, NEW h \in Handle, StartRefused(h) PROVE IInv'
<1> DEFINE j == [NewJob(rh[h].defers /\ ~NoHandler(h)) EXCEPT !.success = FALSE]
           f == ClientCall(h, "refused")
<1>1. /\ Starting /\ pending # <<>> /\ h = Head(pending) /\ pending' = Tail(pending)
      /\ jobs' = Append(jobs, h) /\ info' = [info EXCEPT ![h] = j]
      /\ stack' = Append(Started, f) /\ Called(h, "refused")
      /\ UNCHANGED <<running, condemned, timer, installed, rh, refs, closed>>
  BY DEF StartRefused, MayStart
<1>2. j \in JobInfo
  <2>1. rh[h].defers \in BOOLEAN /\ NoHandler(h) \in BOOLEAN
    BY DEF IInv, DataOK, ResourceHandle, NoHandler
  <2> DEFINE b == rh[h].defers /\ ~NoHandler(h)
  <2>2. b \in BOOLEAN
    BY <2>1
  <2> HIDE DEF b
  <2>3. [NewJob(b) EXCEPT !.success = FALSE] \in JobInfo
    BY <2>2 DEF NewJob, JobInfo, JobState
  <2>4. QED
    BY <2>3 DEF b
<1>3. f \in GoodFrame /\ f.at = "client" /\ Refused(f) /\ "refused" \in Callback
  BY ClientCalls DEF Callback
<1> HIDE DEF f, j
<1>4. DataOK'
  BY <1>1, <1>2, <1>3, Starts, AppendedJob, CalledTypes DEF IInv, DataOK
<1>5. /\ Step(Started) /\ DrivenBy(Started)
      /\ Started # <<>> /\ Last(Started).at = "restart" => Last(Started).busy
  BY <1>1, Starts
<1>6. /\ WellStacked(stack') /\ stack' # <<>> /\ Last(stack') = f
      /\ Count(stack') = Count(Started) + 1 /\ DrivenBy(stack')
  BY <1>1, <1>3, <1>5, Calls DEF Step
<1>7. Len(jobs') = Len(jobs) + 1 /\ Count(stack') = Count(stack) + 1 /\ Len(jobs) \in Nat
  BY <1>1, <1>5, <1>6, AppendedJob DEF Step, IInv, DataOK
<1>8. Count(stack) \in Nat
  BY Counts DEF IInv, WellStacked
<1>9. running' = Len(jobs') - Count(stack')
  BY <1>1, <1>7, <1>8 DEF IInv
<1>10. RestartBusy'
  BY <1>3, <1>6 DEF RestartBusy, TopAt, Top
<1>11. QED
  BY <1>4, <1>6, <1>9, <1>10 DEF IInv

LEMMA StartDoneKeeps == ASSUME IInv, StartDone PROVE IInv'
<1> DEFINE g == [Top EXCEPT !.at = "run", !.it = FirstJob]
<1>1. stack # <<>> /\ Top.at \in LoopAt /\ stack' = Becomes(g)
  BY DEF StartDone, TopAt, LoopAt
<1>2. g \in LoopFrame /\ g.src = Top.src /\ g.view = Top.view /\ g.at = "run"
  BY <1>1, LoopOnTop, JobTypes DEF LoopFrame, LoopAt
<1> HIDE DEF g
<1>3. Step(stack') /\ Last(stack') = g
  BY <1>1, <1>2, LoopTop
<1>4. RestartBusy'
  BY <1>2, <1>3 DEF RestartBusy, TopAt, Top
<1>5. DataOK'
  BY DEF IInv, DataOK, StartDone, hist
<1>6. QED
  BY <1>3, <1>4, <1>5, Quiet DEF StartDone

(* The callback leaves: if a load is left, it waits because the limit is     *)
(* reached, so there is a job, so the callback is busy and arms the timer.   *)
LEMMA RestartDoneKeeps == ASSUME IInv, RestartDone PROVE IInv'
<1>1. /\ stack # <<>> /\ Top.at = "restart" /\ ~MayStart
      /\ timer' = (timer \/ Top.busy) /\ stack' = Front(stack)
      /\ UNCHANGED <<pending, jobs, info, running, condemned, installed, rh, refs, closed, hist>>
  BY DEF RestartDone, TopAt, Return
<1>2. Top \in LoopFrame /\ ~Refused(Top)
  BY <1>1, LoopOnTop DEF LoopAt
<1>3. DataOK'
  <2>1. Top.busy \in BOOLEAN
    BY <1>2 DEF LoopFrame
  <2>2. timer' \in BOOLEAN
    BY <1>1
  <2>3. QED
    BY <1>1, <2>2 DEF IInv, DataOK, hist
<1>4. /\ WellStacked(stack') /\ Count(stack') = Count(stack)
      /\ stack' # <<>> /\ Last(stack').at = "restart" => Last(stack').busy
  BY <1>1, <1>2, StackReturns DEF Top, IInv
<1>5. RestartBusy'
  BY <1>4 DEF RestartBusy, TopAt, Top
<1>6. ASSUME pending # <<>> \/ jobs # <<>> PROVE timer'
  <2>1. jobs # <<>>
    <3>1. CASE running >= MaxConcurrentJobs
      <4>1. Count(stack) \in Nat
        BY Counts DEF IInv, WellStacked
      <4>2. jobs \in Seq(Handle) /\ Len(jobs) \in Nat
        BY DEF IInv, DataOK
      <4>3. Len(jobs) # 0
        BY <3>1, <4>1, <4>2, BoundAssumption DEF IInv
      <4>4. QED
        BY <4>2, <4>3
    <3>2. CASE pending = <<>>
      BY <1>6, <3>2
    <3>3. QED
      BY <1>1, <3>1, <3>2, BoundAssumption DEF MayStart, IInv, DataOK
  <2>2. QED
    BY <1>1, <2>1 DEF IInv, RestartBusy, TopAt
<1>7. QED
  BY <1>1, <1>3, <1>4, <1>5, <1>6 DEF IInv

-----------------------------------------------------------------------------
(* ProcessJobs, the first loop.                                              *)

(* A step that only looks at or changes the JobInfo of *it and goes on.      *)
LEMMA AdvanceKeeps ==
  ASSUME IInv, NEW l \in {"run", "remove"}, TopAt(l), NEW h \in Handle, Top.it = h, InJobs(h),
         stack' = Advance, DataOK', UNCHANGED <<pending, jobs, running, timer>>
  PROVE  IInv'
<1>1. Step(stack') /\ Last(stack').at # "restart"
  BY Advances
<1>2. RestartBusy'
  BY <1>1 DEF RestartBusy, TopAt, Top
<1>3. QED
  BY <1>1, <1>2, Quiet

LEMMA CondemnAdvances ==
  ASSUME IInv, NEW h \in Handle, AtJob(h), Condemn({h}), stack' = Advance,
         UNCHANGED <<pending, jobs, running, timer, installed, rh, refs, closed, hist>>
  PROVE  IInv'
<1>1. info' \in [Handle -> JobInfo] /\ condemned' \in BOOLEAN
  BY CondemnTypes
<1>2. DataOK'
  BY <1>1 DEF IInv, DataOK, hist
<1>3. QED
  BY <1>2, AdvanceKeeps DEF AtJob

LEMMA CondemnCancelledKeeps == ASSUME IInv, NEW h \in Handle, CondemnCancelled(h) PROVE IInv'
BY CondemnAdvances DEF CondemnCancelled

LEMMA CondemnAgainKeeps == ASSUME IInv, NEW h \in Handle, CondemnAgain(h) PROVE IInv'
BY CondemnAdvances DEF CondemnAgain, AtState

LEMMA SkipPausedKeeps == ASSUME IInv, NEW h \in Handle, SkipPaused(h) PROVE IInv'
<1>1. DataOK'
  BY DEF IInv, DataOK, SkipPaused, hist
<1>2. QED
  BY <1>1, AdvanceKeeps DEF SkipPaused, AtJob

LEMMA ReturnedTypes ==
  ASSUME IInv, NEW h \in Handle, NEW s \in JobState \ {"Remove"},
         NEW r \in [ok : BOOLEAN, complete : BOOLEAN], Returned(h, s, r)
  PROVE  info' \in [Handle -> JobInfo] /\ condemned' \in BOOLEAN
<1>1. info \in [Handle -> JobInfo] /\ info[h] \in JobInfo /\ condemned \in BOOLEAN
  BY DEF IInv, DataOK
<1>2. r.ok \in BOOLEAN /\ r.complete \in BOOLEAN
  OBVIOUS
<1>3. Successor[s] \in JobState
  BY DEF Successor, JobState
<1> DEFINE removed == ~r.ok \/ (r.complete /\ s = "Shutdown")
           inited == info[h].inited \/ (s = "Init" /\ r.ok)
           shut == info[h].shut \/ (s = "Shutdown" /\ r.ok)
           success == info[h].success /\ (r.ok \/ s \in {"Disconnect", "Shutdown"})
           next == IF removed THEN "Remove" ELSE IF r.complete THEN Successor[s]
                   ELSE info[h].state
<1>4. /\ removed \in BOOLEAN /\ inited \in BOOLEAN /\ shut \in BOOLEAN /\ success \in BOOLEAN
      /\ next \in JobState
  BY <1>1, <1>2, <1>3 DEF JobInfo, JobState
<1>5. /\ info' = [info EXCEPT ![h].inited = inited, ![h].shut = shut, ![h].success = success,
                              ![h].state = next]
      /\ condemned' = (condemned \/ removed)
  BY DEF Returned
<1> HIDE DEF removed, inited, shut, success, next
<1>6. [info[h] EXCEPT !.inited = inited, !.shut = shut, !.success = success, !.state = next]
        \in JobInfo
  BY <1>1, <1>4 DEF JobInfo
<1>7. QED
  BY <1>1, <1>4, <1>5, <1>6

LEMMA CallHandlerKeeps == ASSUME IInv, NEW h \in Handle, CallHandler(h) PROVE IInv'
<1>1. PICK s \in {"Init", "Connect", "Disconnect", "Shutdown"},
           r \in [ok : BOOLEAN, complete : BOOLEAN], lost \in BOOLEAN :
        /\ AtState(h, s) /\ Returned(h, s, r)
        /\ rh' = [rh EXCEPT ![h].cancelled = @ \/ lost]
        /\ open' = IF s = "Init" /\ r.ok THEN open \cup {h}
                   ELSE IF s = "Shutdown" THEN open \ {h} ELSE open
        /\ stack' = Advance
        /\ UNCHANGED <<pending, jobs, running, timer, installed, refs, closed,
                       loaded, gaveUp, verdicts>>
  BY DEF CallHandler
<1>2. info' \in [Handle -> JobInfo] /\ condemned' \in BOOLEAN
  BY <1>1, ReturnedTypes DEF JobState
<1>3. rh' \in [Handle -> ResourceHandle]
  <2>1. rh \in [Handle -> ResourceHandle] /\ rh[h] \in ResourceHandle /\ rh[h].cancelled \in BOOLEAN
    BY DEF IInv, DataOK, ResourceHandle
  <2>2. \A x \in BOOLEAN : [rh[h] EXCEPT !.cancelled = x] \in ResourceHandle
    BY <2>1 DEF ResourceHandle
  <2>3. QED
    BY <1>1, <2>1, <2>2
<1>4. open' \subseteq Handle
  BY <1>1 DEF IInv, DataOK
<1>5. DataOK'
  BY <1>1, <1>2, <1>3, <1>4 DEF IInv, DataOK
<1>6. QED
  BY <1>1, <1>5, AdvanceKeeps DEF AtState, AtJob

LEMMA TransferFrames ==
  ASSUME NEW h \in Handle, NEW got \in BOOLEAN, NEW done \in {"no", "ok", "bad"}
  PROVE  LET f == [at |-> "transfer", it |-> h, got |-> got, done |-> done]
         IN f \in GoodFrame /\ f.at = "transfer" /\ ~Refused(f) /\ ~Drives(f)
BY DEF GoodFrame, Frame, TransferFrame, LoopAt, Refused, Drives

LEMMA CallTransferKeeps == ASSUME IInv, NEW h \in Handle, CallTransfer(h) PROVE IInv'
<1> DEFINE f == [at |-> "transfer", it |-> h, got |-> FALSE, done |-> "no"]
<1>1. f \in GoodFrame /\ f.at = "transfer" /\ ~Refused(f)
  BY TransferFrames
<1>2. stack' = Append(stack, f) /\ stack # <<>> /\ Last(stack).at = "run"
  BY DEF CallTransfer, AtState, AtJob, TopAt, Top
<1> HIDE DEF f
<1>3. Step(stack') /\ Last(stack') = f
  BY <1>1, <1>2, Start, StepCall
<1>4. RestartBusy'
  BY <1>1, <1>3 DEF RestartBusy, TopAt, Top
<1>5. DataOK'
  BY DEF IInv, DataOK, CallTransfer, hist
<1>6. QED
  BY <1>3, <1>4, <1>5, Quiet DEF CallTransfer

LEMMA RunDoneKeeps == ASSUME IInv, RunDone PROVE IInv'
<1> DEFINE g == [Top EXCEPT !.at = IF condemned THEN "remove" ELSE "check",
                            !.it = IF condemned THEN FirstJob ELSE None]
<1>1. stack # <<>> /\ Top.at \in LoopAt /\ stack' = Becomes(g)
  BY DEF RunDone, TopAt, LoopAt
<1>2. g \in LoopFrame /\ g.src = Top.src /\ g.view = Top.view /\ g.at \in {"remove", "check"}
  BY <1>1, LoopOnTop, JobTypes DEF LoopFrame, LoopAt
<1> HIDE DEF g
<1>3. Step(stack') /\ Last(stack') = g
  BY <1>1, <1>2, LoopTop
<1>4. RestartBusy'
  BY <1>2, <1>3 DEF RestartBusy, TopAt, Top
<1>5. DataOK'
  BY DEF IInv, DataOK, RunDone, hist
<1>6. QED
  BY <1>3, <1>4, <1>5, Quiet DEF RunDone

-----------------------------------------------------------------------------
(* Transfer and the TransportServer interface.                               *)

LEMMA TransferOnTop ==
  ASSUME IInv, TopAt("transfer")
  PROVE  /\ stack # <<>> /\ Top \in TransferFrame /\ ~Refused(Top) /\ ~Drives(Top)
         /\ Top.at = "transfer"
<1>1. stack # <<>> /\ Top \in GoodFrame /\ Top.at = "transfer"
  BY LastFacts DEF IInv, WellStacked, TopAt, Top
<1>2. QED
  BY <1>1 DEF GoodFrame, Frame, LoopFrame, TransferFrame, ClientFrame, LoopAt, Refused, Drives

LEMMA TransferTop ==
  ASSUME IInv, TopAt("transfer"), NEW g \in TransferFrame
  PROVE  Step(Becomes(g)) /\ Becomes(g) # <<>> /\ Last(Becomes(g)).at = "transfer"
<1>1. g \in GoodFrame /\ g.at = "transfer" /\ ~Refused(g)
  BY DEF GoodFrame, Frame, TransferFrame, LoopAt, Refused
<1>2. QED
  BY <1>1, TransferOnTop, Start, StepTop DEF Becomes, Top

LEMMA DataReceivedKeeps == ASSUME IInv, NEW h \in Handle, DataReceived(h) PROVE IInv'
<1> DEFINE g == [Top EXCEPT !.got = TRUE]
           read == [rh EXCEPT ![h].left = @ - 1]
           cb == IF rh[h].fired THEN "data" ELSE "response"
<1>1. TopAt("transfer") /\ rh[h].left > 0
  BY DEF DataReceived, InTransfer
<1>2. g \in TransferFrame
  BY <1>1, TransferOnTop DEF TransferFrame
<1>3. Step(Becomes(g)) /\ Becomes(g) # <<>> /\ Last(Becomes(g)).at = "transfer"
  BY <1>1, <1>2, TransferTop
<1>4. rh \in [Handle -> ResourceHandle] /\ rh[h] \in ResourceHandle /\ rh[h].left - 1 \in 0..Chunks
  <2>1. rh \in [Handle -> ResourceHandle] /\ rh[h] \in ResourceHandle
    BY DEF IInv, DataOK
  <2>2. rh[h].left \in 0..Chunks
    BY <2>1 DEF ResourceHandle
  <2>3. QED
    BY <1>1, <2>1, <2>2, BoundAssumption
<1>5. \A y \in BOOLEAN : [rh[h] EXCEPT !.left = rh[h].left - 1, !.fired = y] \in ResourceHandle
  BY <1>4 DEF ResourceHandle
<1>6. [rh[h] EXCEPT !.left = rh[h].left - 1] \in ResourceHandle
  BY <1>4 DEF ResourceHandle
<1>7. read \in [Handle -> ResourceHandle]
  BY <1>4, <1>6
<1>8. CASE rh[h].client /\ ~rh[h].cancelled
  <2>1. /\ rh' = read /\ stack' = Append(Becomes(g), ClientCall(h, cb)) /\ Called(h, cb)
        /\ UNCHANGED <<pending, jobs, info, running, condemned, timer, installed, refs, closed>>
    BY <1>8 DEF DataReceived
  <2>2. cb \in Callback /\ cb # "refused"
    BY DEF Callback
  <2> HIDE DEF g, read, cb
  <2>3. Step(stack') /\ RestartBusy'
    BY <1>3, <2>1, <2>2, CallsClient
  <2>4. DataOK'
    BY <1>7, <2>1, <2>2, CalledTypes DEF IInv, DataOK
  <2>5. QED
    BY <2>1, <2>3, <2>4, Quiet
<1>9. CASE ~(rh[h].client /\ ~rh[h].cancelled)
  <2>1. /\ rh' = [read EXCEPT ![h].fired = @ \/ ~rh[h].cancelled]
        /\ stack' = Becomes(g)
        /\ UNCHANGED <<pending, jobs, info, running, condemned, timer, installed, refs, closed,
                       hist>>
    BY <1>9 DEF DataReceived
  <2>2. rh' \in [Handle -> ResourceHandle]
    <3>1. rh[h].fired \in BOOLEAN /\ rh[h].cancelled \in BOOLEAN
      BY <1>4 DEF ResourceHandle
    <3>2. read[h] = [rh[h] EXCEPT !.left = rh[h].left - 1] /\ read[h].fired = rh[h].fired
      BY <1>4 DEF ResourceHandle
    <3>3. rh' = [read EXCEPT ![h] = [read[h] EXCEPT !.fired = rh[h].fired \/ ~rh[h].cancelled]]
      BY <2>1, <3>2
    <3>4. [read[h] EXCEPT !.fired = rh[h].fired \/ ~rh[h].cancelled] \in ResourceHandle
      BY <1>6, <3>1, <3>2 DEF ResourceHandle
    <3>5. QED
      BY <1>7, <3>3, <3>4
  <2> HIDE DEF g, read, cb
  <2>3. DataOK'
    BY <2>1, <2>2 DEF IInv, DataOK, hist
  <2>4. RestartBusy'
    BY <1>3, <2>1 DEF RestartBusy, TopAt, Top
  <2>5. QED
    BY <1>3, <2>1, <2>3, <2>4, Quiet
<1>10. QED
  BY <1>8, <1>9

LEMMA DataDoneKeeps ==
  ASSUME IInv, NEW h \in Handle, NEW result \in BOOLEAN, DataDone(h, result)
  PROVE  IInv'
<1> DEFINE g == [Top EXCEPT !.done = IF result THEN "ok" ELSE "bad"]
           heard == rh[h].client /\ ~rh[h].cancelled
<1>1. TopAt("transfer")
  BY DEF DataDone, InTransfer
<1>2. g \in TransferFrame
  BY <1>1, TransferOnTop DEF TransferFrame
<1>3. Step(Becomes(g)) /\ Becomes(g) # <<>> /\ Last(Becomes(g)).at = "transfer"
  BY <1>1, <1>2, TransferTop
<1>4. CASE heard /\ result
  <2>1. /\ stack' = Append(Becomes(g), ClientCall(h, "finish")) /\ Called(h, "finish")
        /\ UNCHANGED <<pending, jobs, info, running, condemned, timer, installed, rh, refs, closed>>
    BY <1>4 DEF DataDone
  <2>2. "finish" \in Callback
    BY DEF Callback
  <2> HIDE DEF g, heard
  <2>3. Step(stack') /\ RestartBusy'
    BY <1>3, <2>1, <2>2, CallsClient
  <2>4. DataOK'
    BY <2>1, <2>2, CalledTypes DEF IInv, DataOK
  <2>5. QED
    BY <2>1, <2>3, <2>4, Quiet
<1>5. CASE ~(heard /\ result)
  <2>1. /\ stack' = Becomes(g)
        /\ info' = IF heard THEN [info EXCEPT ![h].success = FALSE, ![h].state = "Remove"]
                   ELSE info
        /\ condemned' = (condemned \/ heard)
        /\ UNCHANGED <<pending, jobs, running, timer, installed, rh, refs, closed, hist>>
    BY <1>5 DEF DataDone
  <2>2. heard \in BOOLEAN
    BY DEF IInv, DataOK, ResourceHandle
  <2> HIDE DEF g, heard
  <2>3. info' \in [Handle -> JobInfo]
    <3>1. info \in [Handle -> JobInfo]
      BY DEF IInv, DataOK
    <3>2. [info[h] EXCEPT !.success = FALSE, !.state = "Remove"] \in JobInfo
      BY <3>1 DEF JobInfo, JobState
    <3>3. QED
      BY <2>1, <3>1, <3>2
  <2>4. DataOK'
    BY <2>1, <2>2, <2>3 DEF IInv, DataOK, hist
  <2>5. RestartBusy'
    BY <1>3, <2>1 DEF RestartBusy, TopAt, Top
  <2>6. QED
    BY <1>3, <2>1, <2>4, <2>5, Quiet
<1>6. QED
  BY <1>4, <1>5

LEMMA TransferEndsKeeps == ASSUME IInv, NEW h \in Handle, TransferEnds(h) PROVE IInv'
<1> DEFINE s == Front(stack)
           loop == Last(s)
           g == [loop EXCEPT !.it = JobAfter(h), !.told = FALSE]
<1>1. /\ TopAt("transfer") /\ Top.it = h /\ InJobs(h)
      /\ stack' = [s EXCEPT ![Len(stack) - 1] = g]
      /\ UNCHANGED <<pending, jobs, running, timer, installed, rh, refs, closed, hist>>
  BY DEF TransferEnds
<1>2. /\ stack # <<>> /\ Last(stack).at = "transfer"
      /\ ~Refused(Last(stack)) /\ ~Drives(Last(stack))
  BY <1>1, TransferOnTop DEF Top
<1>3. Step(s)
  BY <1>2, Start, StepReturn
<1>4. s # <<>> /\ loop \in GoodFrame /\ loop.at = "run" /\ Len(s) = Len(stack) - 1
  BY <1>2, StackReturns DEF IInv
<1>5. JobAfter(h) \in Handle \cup {None}
  BY <1>1, JobTypes
<1>6. /\ g \in GoodFrame /\ g.at = "run" /\ ~Refused(g) /\ ~Refused(loop)
      /\ Drives(loop) => Drives(g)
  BY <1>4, <1>5, LoopFrames DEF LoopAt, Drives, Refused
<1> HIDE DEF s, loop, g
<1>7. Step(stack') /\ Last(stack') = g
  BY <1>1, <1>3, <1>4, <1>6, StepTop DEF loop
<1>8. RestartBusy'
  BY <1>6, <1>7 DEF RestartBusy, TopAt, Top
<1>9. info' \in [Handle -> JobInfo] /\ condemned' \in BOOLEAN
  <2>1. PICK r \in TransferReturns(h) : Returned(h, "Transfer", r)
    BY DEF TransferEnds
  <2>2. r \in [ok : BOOLEAN, complete : BOOLEAN]
    BY DEF TransferReturns, DirtySDK
  <2>3. QED
    BY <2>1, <2>2, ReturnedTypes DEF JobState
<1>10. DataOK'
  BY <1>1, <1>9 DEF IInv, DataOK, hist
<1>11. QED
  BY <1>1, <1>7, <1>8, <1>10, Quiet

-----------------------------------------------------------------------------
(* ProcessJobs, the second loop, and what follows it.                        *)

LEMMA KeepJobKeeps == ASSUME IInv, NEW h \in Handle, KeepJob(h) PROVE IInv'
<1>1. DataOK'
  BY DEF IInv, DataOK, KeepJob, hist
<1>2. QED
  BY <1>1, AdvanceKeeps DEF KeepJob, AtRemove

LEMMA NotifyJobFailedKeeps == ASSUME IInv, NEW h \in Handle, NotifyJobFailed(h) PROVE IInv'
<1> DEFINE g == [Top EXCEPT !.told = TRUE]
<1>1. /\ stack # <<>> /\ Top.at = "remove" /\ Top.at \in LoopAt
      /\ UNCHANGED <<pending, jobs, info, running, condemned, timer, installed, rh, refs, closed>>
  BY DEF NotifyJobFailed, AtRemove, TopAt, LoopAt
<1>2. g \in LoopFrame /\ g.src = Top.src /\ g.view = Top.view /\ g.at = "remove"
  BY <1>1, LoopOnTop DEF LoopFrame
<1>3. Step(Becomes(g)) /\ Becomes(g) # <<>> /\ Last(Becomes(g)).at = "remove"
  BY <1>1, <1>2, LoopTop
<1>4. CASE rh[h].client
  <2>1. stack' = Append(Becomes(g), ClientCall(h, "fail")) /\ Called(h, "fail")
    BY <1>4 DEF NotifyJobFailed
  <2>2. "fail" \in Callback
    BY DEF Callback
  <2> HIDE DEF g
  <2>3. Step(stack') /\ RestartBusy'
    BY <1>3, <2>1, <2>2, CallsClient
  <2>4. DataOK'
    BY <1>1, <2>1, <2>2, CalledTypes DEF IInv, DataOK
  <2>5. QED
    BY <1>1, <2>3, <2>4, Quiet
<1>5. CASE ~rh[h].client
  <2>1. stack' = Becomes(g) /\ UNCHANGED hist
    BY <1>5 DEF NotifyJobFailed
  <2> HIDE DEF g
  <2>2. DataOK'
    BY <1>1, <2>1 DEF IInv, DataOK, hist
  <2>3. RestartBusy'
    BY <1>3, <2>1 DEF RestartBusy, TopAt, Top
  <2>4. QED
    BY <1>1, <1>3, <2>1, <2>2, <2>3, Quiet
<1>6. QED
  BY <1>4, <1>5

LEMMA RemoveJobKeeps == ASSUME IInv, NEW h \in Handle, RemoveJob(h) PROVE IInv'
<1>1. /\ AtRemove(h) /\ stack' = Advance /\ jobs' = RemoveAt(jobs, Position(h))
      /\ running' = running - 1 /\ refs' = [refs EXCEPT ![h] = @ - 1]
      /\ open' = IF info[h].inited /\ ~info[h].shut THEN open \ {h} ELSE open
      /\ UNCHANGED <<pending, info, condemned, timer, installed, rh, closed,
                     loaded, gaveUp, verdicts>>
  BY DEF RemoveJob
<1>2. Step(stack') /\ Last(stack').at # "restart"
  BY <1>1, Advances DEF AtRemove
<1>3. jobs \in Seq(Handle) /\ Position(h) \in 1..Len(jobs)
  BY <1>1, JobTypes DEF AtRemove, IInv, DataOK
<1>4. jobs' \in Seq(Handle) /\ Len(jobs') = Len(jobs) - 1 /\ jobs # <<>> /\ Len(jobs) \in Nat
  BY <1>1, <1>3, RemoveAtFacts
<1>5. DataOK'
  <2>1. refs' \in [Handle -> Int]
    BY <1>1, DerefTypes
  <2>2. running' \in Int /\ open' \subseteq Handle
    BY <1>1 DEF IInv, DataOK
  <2>3. QED
    BY <1>1, <1>4, <2>1, <2>2 DEF IInv, DataOK
<1>6. RestartBusy'
  BY <1>2 DEF RestartBusy, TopAt, Top
<1>7. running' = Len(jobs') - Count(stack')
  <2>1. Count(stack) \in Nat
    BY Counts DEF IInv, WellStacked
  <2>2. QED
    BY <1>1, <1>2, <1>4, <2>1 DEF IInv, Step
<1>8. QED
  BY <1>1, <1>2, <1>4, <1>5, <1>6, <1>7 DEF IInv, Step

LEMMA RemoveDoneKeeps == ASSUME IInv, RemoveDone PROVE IInv'
<1> DEFINE g == [Top EXCEPT !.at = "check"]
<1>1. stack # <<>> /\ Top.at \in LoopAt /\ stack' = Becomes(g)
  BY DEF RemoveDone, TopAt, LoopAt
<1>2. g \in LoopFrame /\ g.src = Top.src /\ g.view = Top.view /\ g.at = "check"
  BY <1>1, LoopOnTop DEF LoopFrame, LoopAt
<1> HIDE DEF g
<1>3. Step(stack') /\ Last(stack') = g
  BY <1>1, <1>2, LoopTop
<1>4. RestartBusy'
  BY <1>2, <1>3 DEF RestartBusy, TopAt, Top
<1>5. DataOK'
  BY DEF IInv, DataOK, RemoveDone, hist
<1>6. QED
  BY <1>3, <1>4, <1>5, Quiet DEF RemoveDone

LEMMA ProcessJobsDoneKeeps == ASSUME IInv, ProcessJobsDone PROVE IInv'
<1> DEFINE g == [Top EXCEPT !.at = "restart", !.busy = (jobs # <<>>)]
<1>1. /\ stack # <<>> /\ Top.at \in LoopAt /\ stack' = Becomes(g)
      /\ Top.src \in {"tick", "timer"} /\ UNCHANGED jobs
  BY DEF ProcessJobsDone, TopAt, LoopAt
<1>2. /\ g \in LoopFrame /\ g.src = Top.src /\ g.view = Top.view
      /\ g.at = "restart" /\ g.busy = (jobs # <<>>)
  BY <1>1, LoopOnTop DEF LoopFrame, LoopAt
<1> HIDE DEF g
<1>3. Step(stack') /\ Last(stack') = g
  BY <1>1, <1>2, LoopTop
<1>4. RestartBusy'
  BY <1>1, <1>2, <1>3 DEF RestartBusy, TopAt, Top
<1>5. DataOK'
  BY DEF IInv, DataOK, ProcessJobsDone, hist
<1>6. QED
  BY <1>3, <1>4, <1>5, Quiet DEF ProcessJobsDone

(* RemoveDependentJobs returns: it was not a downloadTimerCallback.          *)
LEMMA LoopReturns ==
  ASSUME IInv, TopAt("check"), Top.src \in {"view", "handler"}, stack' = Return, DataOK',
         UNCHANGED <<pending, jobs, running, timer>>
  PROVE  IInv'
<1>1. stack # <<>> /\ Top.at \in LoopAt
  BY DEF TopAt, LoopAt
<1>2. ~Refused(Top) /\ ~Drives(Top)
  BY <1>1, LoopOnTop
<1>3. /\ Step(stack')
      /\ stack' # <<>> /\ Last(stack').at = "restart" => Last(stack').busy
  BY <1>1, <1>2, Start, StepReturn DEF Top, Return
<1>4. RestartBusy'
  BY <1>3 DEF RestartBusy, TopAt, Top
<1>5. QED
  BY <1>3, <1>4, Quiet

LEMMA HandlerRemovedKeeps == ASSUME IInv, HandlerRemoved PROVE IInv'
<1>1. DataOK'
  BY DEF IInv, DataOK, HandlerRemoved, hist
<1>2. QED
  BY <1>1, LoopReturns DEF HandlerRemoved

LEMMA PageCancelsKeeps == ASSUME IInv, NEW h \in Handle, PageCancels(h) PROVE IInv'
BY CancelHandleKeeps DEF PageCancels

LEMMA PageDeletedKeeps == ASSUME IInv, PageDeleted PROVE IInv'
<1>1. TopAt("check") /\ Top.src = "view" /\ stack # <<>> /\ Top.at \in LoopAt
  BY DEF PageDeleted, TopAt, LoopAt
<1>2. Top.view \in View
  BY <1>1, LoopOnTop
<1>3. DataOK'
  BY <1>2 DEF IInv, DataOK, PageDeleted, hist
<1>4. QED
  BY <1>1, <1>3, LoopReturns DEF PageDeleted

-----------------------------------------------------------------------------
(* The client returns.                                                       *)

LEMMA LetGoTypes ==
  ASSUME IInv, NEW h \in Handle, LetGo(h)
  PROVE  rh' \in [Handle -> ResourceHandle]
<1>1. rh \in [Handle -> ResourceHandle] /\ rh[h] \in ResourceHandle
  BY DEF IInv, DataOK
<1>2. [rh[h] EXCEPT !.client = FALSE] \in ResourceHandle
  BY <1>1 DEF ResourceHandle
<1>3. QED
  BY <1>1, <1>2 DEF LetGo

LEMMA FiredTypes ==
  ASSUME IInv, NEW h \in Handle, rh' = [rh EXCEPT ![h].fired = TRUE]
  PROVE  rh' \in [Handle -> ResourceHandle]
<1>1. rh \in [Handle -> ResourceHandle] /\ rh[h] \in ResourceHandle
  BY DEF IInv, DataOK
<1>2. [rh[h] EXCEPT !.fired = TRUE] \in ResourceHandle
  BY <1>1 DEF ResourceHandle
<1>3. QED
  BY <1>1, <1>2

LEMMA ClientReturnKeeps ==
  ASSUME IInv, TopAt("client"), Top.cb # "refused", stack' = Return, DataOK',
         UNCHANGED <<pending, jobs, running, timer>>
  PROVE  IInv'
<1>1. stack # <<>> /\ ~Refused(Last(stack)) /\ ~Drives(Last(stack))
  BY ClientOnTop DEF Top
<1>2. /\ Step(stack')
      /\ stack' # <<>> /\ Last(stack').at = "restart" => Last(stack').busy
  BY <1>1, Start, StepReturn DEF Return
<1>3. RestartBusy'
  BY <1>2 DEF RestartBusy, TopAt, Top
<1>4. QED
  BY <1>2, <1>3, Quiet

LEMMA NextCallKeeps ==
  ASSUME IInv, TopAt("client"), Top.cb # "refused", NEW h \in Handle,
         NEW cb \in Callback, cb # "refused", stack' = Becomes(ClientCall(h, cb)), DataOK',
         UNCHANGED <<pending, jobs, running, timer>>
  PROVE  IInv'
<1> DEFINE f == ClientCall(h, cb)
<1>1. f \in GoodFrame /\ f.at = "client" /\ ~Refused(f)
  BY ClientCalls
<1>2. stack # <<>> /\ ~Refused(Top) /\ ~Drives(Top) /\ Top.at = "client"
  BY ClientOnTop DEF TopAt
<1> HIDE DEF f
<1>3. Step(stack') /\ Last(stack') = f
  BY <1>1, <1>2, Start, StepTop DEF Becomes, Top, f
<1>4. RestartBusy'
  BY <1>1, <1>3 DEF RestartBusy, TopAt, Top
<1>5. QED
  BY <1>3, <1>4, Quiet

LEMMA ReturnFromResponseKeeps == ASSUME IInv, ReturnFromResponse PROVE IInv'
<1>1. /\ TopAt("client") /\ Top.cb = "response" /\ rh' = [rh EXCEPT ![Top.it].fired = TRUE]
      /\ UNCHANGED <<pending, jobs, info, running, condemned, timer, installed, refs, closed>>
  BY DEF ReturnFromResponse, Returning
<1>2. Top.it \in Handle
  BY <1>1, ClientOnTop
<1>3. rh' \in [Handle -> ResourceHandle]
  BY <1>1, <1>2, FiredTypes
<1>4. CASE stack' = Return /\ UNCHANGED hist
  <2>1. DataOK'
    BY <1>1, <1>3, <1>4 DEF IInv, DataOK, hist
  <2>2. QED
    BY <1>1, <1>4, <2>1, ClientReturnKeeps
<1>5. CASE stack' = Becomes(ClientCall(Top.it, "data")) /\ Called(Top.it, "data")
  <2>1. "data" \in Callback
    BY DEF Callback
  <2>2. DataOK'
    BY <1>1, <1>2, <1>3, <1>5, <2>1, CalledTypes DEF IInv, DataOK
  <2>3. QED
    BY <1>1, <1>2, <1>5, <2>1, <2>2, NextCallKeeps
<1>6. QED
  BY <1>4, <1>5 DEF ReturnFromResponse

LEMMA NextURLCallKeeps == ASSUME IInv, NextURLCall PROVE IInv'
<1>1. /\ TopAt("client") /\ Top.cb \in {"urlResponse", "urlData"}
      /\ UNCHANGED <<pending, jobs, info, running, condemned, timer, installed, rh, refs, closed>>
  BY DEF NextURLCall, Returning
<1>2. PICK cb \in {"urlData", "urlDone"} :
        stack' = Becomes(ClientCall(Top.it, cb)) /\ Called(Top.it, cb)
  BY DEF NextURLCall
<1>3. Top.it \in Handle /\ cb \in Callback
  BY <1>1, ClientOnTop DEF Callback
<1>4. DataOK'
  BY <1>1, <1>2, <1>3, CalledTypes DEF IInv, DataOK
<1>5. QED
  BY <1>1, <1>2, <1>3, <1>4, NextCallKeeps

LEMMA ReturnFromHeadersKeeps == ASSUME IInv, ReturnFromHeaders PROVE IInv'
<1>1. TopAt("client") /\ Top.cb = "headers" /\ rh' = [rh EXCEPT ![Top.it].fired = TRUE]
  BY DEF ReturnFromHeaders, Returning
<1>2. Top.it \in Handle
  BY <1>1, ClientOnTop
<1>3. DataOK'
  BY <1>1, <1>2, FiredTypes DEF IInv, DataOK, ReturnFromHeaders, hist
<1>4. QED
  BY <1>1, <1>3, ClientReturnKeeps DEF ReturnFromHeaders

LEMMA ReturnFromCallKeeps == ASSUME IInv, ReturnFromCall PROVE IInv'
<1>1. TopAt("client") /\ Top.cb \in {"data", "redirect", "script"}
  BY DEF ReturnFromCall, Returning
<1>2. DataOK'
  BY DEF IInv, DataOK, ReturnFromCall, hist
<1>3. QED
  BY <1>1, <1>2, ClientReturnKeeps DEF ReturnFromCall

LEMMA ReturnFromVerdictKeeps == ASSUME IInv, ReturnFromVerdict PROVE IInv'
<1>1. TopAt("client") /\ Top.cb \in {"finish", "fail"} /\ LetGo(Top.it)
  BY DEF ReturnFromVerdict, Returning
<1>2. Top.it \in Handle
  BY <1>1, ClientOnTop
<1>3. DataOK'
  BY <1>1, <1>2, LetGoTypes DEF IInv, DataOK, ReturnFromVerdict, hist
<1>4. QED
  BY <1>1, <1>3, ClientReturnKeeps DEF ReturnFromVerdict

LEMMA ReturnFromURLDoneKeeps == ASSUME IInv, ReturnFromURLDone PROVE IInv'
<1>1. TopAt("client") /\ Top.cb = "urlDone" /\ LetGo(Top.it)
  BY DEF ReturnFromURLDone, Returning
<1>2. Top.it \in Handle
  BY <1>1, ClientOnTop
<1>3. DataOK'
  <2>1. refs' \in [Handle -> Int]
    BY <1>2, DerefTypes DEF ReturnFromURLDone
  <2>2. QED
    BY <1>1, <1>2, <2>1, LetGoTypes DEF IInv, DataOK, ReturnFromURLDone, hist
<1>4. QED
  BY <1>1, <1>3, ClientReturnKeeps DEF ReturnFromURLDone

LEMMA ReturnFromRefusedKeeps == ASSUME IInv, ReturnFromRefused PROVE IInv'
<1>1. /\ TopAt("client") /\ Top.cb = "refused" /\ jobs # <<>> /\ LetGo(Top.it)
      /\ refs' = [refs EXCEPT ![Top.it] = @ - 1] /\ jobs' = Front(jobs) /\ stack' = Front(stack)
      /\ UNCHANGED <<pending, info, running, condemned, timer, installed, closed, hist>>
  BY DEF ReturnFromRefused, Returning, Return
<1>2. /\ Top.it \in Handle /\ stack # <<>>
      /\ Refused(Last(stack)) /\ ~Drives(Last(stack))
  BY <1>1, ClientOnTop DEF Top
<1>3. jobs' \in Seq(Handle) /\ Len(jobs') = Len(jobs) - 1 /\ Len(jobs) \in Nat
  BY <1>1, FrontFacts DEF IInv, DataOK
<1>4. DataOK'
  <2>1. rh' \in [Handle -> ResourceHandle]
    BY <1>1, <1>2, LetGoTypes
  <2>2. refs' \in [Handle -> Int]
    BY <1>1, <1>2 DEF IInv, DataOK
  <2>3. QED
    BY <1>1, <1>3, <2>1, <2>2 DEF IInv, DataOK, hist
<1>5. /\ WellStacked(stack') /\ Count(stack') = Count(stack) - 1
      /\ DrivenBy(stack) => DrivenBy(stack')
      /\ stack' # <<>> /\ Last(stack').at = "restart" => Last(stack').busy
  BY <1>1, <1>2, StackReturns DEF IInv
<1>6. RestartBusy'
  BY <1>5 DEF RestartBusy, TopAt, Top
<1>7. running' = Len(jobs') - Count(stack')
  <2>1. Count(stack) \in Nat
    BY Counts DEF IInv, WellStacked
  <2>2. QED
    BY <1>1, <1>3, <1>5, <2>1 DEF IInv
<1>8. QED
  BY <1>1, <1>4, <1>5, <1>6, <1>7 DEF IInv

-----------------------------------------------------------------------------
(* The theorems.                                                             *)

LEMMA InitIInv == Init => IInv
<1> SUFFICES ASSUME Init PROVE IInv
  OBVIOUS
<1>1. DataOK
  <2>1. info \in [Handle -> JobInfo]
    BY DEF Init, NewJob, JobInfo, JobState
  <2>2. rh \in [Handle -> ResourceHandle]
    <3>1. Chunks \in 0..Chunks
      BY BoundAssumption
    <3>2. [cancelled |-> FALSE, defers |-> FALSE, fired |-> FALSE, client |-> TRUE,
           headers |-> "none", left |-> Chunks] \in ResourceHandle
      BY <3>1 DEF ResourceHandle
    <3>3. QED
      BY <3>2 DEF Init
  <2>3. refs \in [Handle -> Int] /\ verdicts \in [Handle -> Nat]
    BY DEF Init
  <2>4. pending \in Seq(Handle) /\ jobs \in Seq(Handle)
    BY EmptySeq DEF Init
  <2>5. condemned \in BOOLEAN /\ timer \in BOOLEAN /\ installed \in BOOLEAN
    BY Zenon DEF Init
  <2>6. running \in Int
    BY DEF Init
  <2>7. /\ closed \subseteq View /\ loaded \subseteq Handle /\ gaveUp \subseteq Handle
        /\ open \subseteq Handle
    BY Zenon DEF Init
  <2>8. QED
    BY <2>1, <2>2, <2>3, <2>4, <2>5, <2>6, <2>7 DEF DataOK
<1>2. WellStacked(stack)
  BY DEF Init, WellStacked, TransferInRun, BusyBelow
<1>3. Count(stack) = 0
  <2>1. RefusedIn(stack) = {}
    BY DEF Init, RefusedIn
  <2>2. QED
    BY <2>1, FS_EmptySet DEF Count
<1>4. QED
  BY <1>1, <1>2, <1>3 DEF Init, IInv, RestartBusy, TopAt

LEMMA NextIInv == IInv /\ [Next]_vars => IInv'
<1> SUFFICES ASSUME IInv, [Next]_vars PROVE IInv'
  OBVIOUS
<1>1. CASE UNCHANGED vars
  BY <1>1 DEF vars, hist, IInv, DataOK, RestartBusy, TopAt, Top
<1>2. CASE Environment
  <2>1. ASSUME NEW h \in Handle, Add(h) PROVE IInv'
    BY <2>1, AddKeeps
  <2>2. ASSUME NEW h \in Handle, Cancel(h) PROVE IInv'
    BY <2>2, CancelHandleKeeps DEF Cancel
  <2>3. ASSUME NEW h \in Handle, HeadersReceived(h) PROVE IInv'
    BY <2>3, HeadersKeeps
  <2>4. ASSUME NEW v \in View, RunScript(v) PROVE IInv'
    BY <2>4, RunScriptKeeps
  <2>5. ASSUME NEW v \in View, ShutdownView(v) PROVE IInv'
    BY <2>5, PurgeKeeps DEF ShutdownView
  <2>6. CASE Break
    BY <2>6, BrkKeeps DEF Break, ScriptRuns
  <2>7. CASE Resume
    BY <2>7, BrkKeeps DEF Resume
  <2>8. CASE RemoveTransportHandler
    BY <2>8, PurgeKeeps DEF RemoveTransportHandler
  <2>9. QED
    BY <1>2, <2>1, <2>2, <2>3, <2>4, <2>5, <2>6, <2>7, <2>8, TickKeeps, TimerFiresKeeps
       DEF Environment
<1>3. CASE ClientReturns
  BY <1>3, ReturnFromResponseKeeps, ReturnFromHeadersKeeps, ReturnFromCallKeeps,
     ReturnFromVerdictKeeps, ReturnFromRefusedKeeps, NextURLCallKeeps, ReturnFromURLDoneKeeps
     DEF ClientReturns
<1>4. CASE LoopSteps
  BY <1>4, StartDoneKeeps, RestartDoneKeeps, RunDoneKeeps, RemoveDoneKeeps,
     ProcessJobsDoneKeeps, HandlerRemovedKeeps, PageDeletedKeeps DEF LoopSteps
<1>5. ASSUME NEW h \in Handle, JobSteps(h) PROVE IInv'
  BY <1>5, StartDataURLKeeps, StartJobKeeps, StartRefusedKeeps, CondemnCancelledKeeps,
     SkipPausedKeeps, CallHandlerKeeps, CallTransferKeeps, CondemnAgainKeeps, KeepJobKeeps,
     NotifyJobFailedKeeps, RemoveJobKeeps, PageCancelsKeeps DEF JobSteps
<1>6. ASSUME NEW h \in Handle, TransferSteps(h) PROVE IInv'
  BY <1>6, DataReceivedKeeps, DataDoneKeeps, TransferEndsKeeps DEF TransferSteps
<1>7. QED
  BY <1>1, <1>2, <1>3, <1>4, <1>5, <1>6 DEF Next

THEOREM Invariance == Spec => []IInv
<1>1. QED
  BY InitIInv, NextIInv, PTL DEF Spec

(* Every variable keeps its type, whatever the handles, kinds and bounds.    *)
THEOREM TypeCorrect == Spec => []TypeOK
<1>1. IInv => TypeOK
  <2> SUFFICES ASSUME IInv PROVE TypeOK
    OBVIOUS
  <2>1. GoodFrame \subseteq Frame
    BY DEF GoodFrame
  <2>2. stack \in Seq(Frame)
    BY <2>1, SeqMonotonic DEF IInv, WellStacked
  <2>3. QED
    BY <2>2 DEF IInv, DataOK, TypeOK
<1>2. QED
  BY <1>1, Invariance, PTL

(* m_runningJobs counts the jobs in the list, but for refusals being told:   *)
(* nested ticks included, where startPendingJob's pop_back takes off         *)
(* whichever job is last.                                                    *)
THEOREM RunningJobsCounted == Spec => []RunningCount
<1>1. IInv => RunningCount
  BY DEF IInv, Count, RefusedIn, Refused, RunningCount, Refusals
<1>2. QED
  BY <1>1, Invariance, PTL

(* As long as a load waits or runs, the download timer is armed or a         *)
(* callback that will restart it is active: no load is left asleep.          *)
THEOREM NoLoadLeftAsleep == Spec => []NoLostWakeup
<1>1. IInv => NoLostWakeup
  BY DEF IInv, DrivenBy, Drives, NoLostWakeup, Driving
<1>2. QED
  BY <1>1, Invariance, PTL

(* m_runningJobs never exceeds m_maxConcurrentJobs.                          *)
THEOREM LimitKept == Spec => []JobLimit
<1>1. Init => JobLimit
  BY BoundAssumption DEF Init, JobLimit
<1>2. IInv /\ JobLimit /\ [Next]_vars => JobLimit'
  <2> SUFFICES ASSUME IInv, JobLimit, [Next]_vars PROVE JobLimit'
    OBVIOUS
  <2>1. running \in Int /\ MaxConcurrentJobs \in Nat
    BY BoundAssumption DEF IInv, DataOK
  <2>2. CASE UNCHANGED running
    BY <2>2 DEF JobLimit
  <2>3. ASSUME NEW h \in Handle, StartJob(h) PROVE JobLimit'
    BY <2>1, <2>3 DEF StartJob, MayStart, JobLimit
  <2>4. ASSUME NEW h \in Handle, RemoveJob(h) PROVE JobLimit'
    BY <2>1, <2>4 DEF RemoveJob, JobLimit
  <2>5. CASE Environment
    BY <2>2, <2>5 DEF Environment, Add, Cancel, HeadersReceived, RunScript, ShutdownView,
       Purge, Break, Resume, Tick, TimerFires, RemoveTransportHandler
  <2>6. CASE ClientReturns
    BY <2>2, <2>6 DEF ClientReturns, ReturnFromResponse, ReturnFromHeaders, ReturnFromCall,
       ReturnFromVerdict, ReturnFromRefused, NextURLCall, ReturnFromURLDone
  <2>7. CASE LoopSteps
    BY <2>2, <2>7 DEF LoopSteps, StartDone, RestartDone, RunDone, RemoveDone,
       ProcessJobsDone, HandlerRemoved, PageDeleted
  <2>8. ASSUME NEW h \in Handle, JobSteps(h) PROVE JobLimit'
    BY <2>2, <2>3, <2>4, <2>8 DEF JobSteps, StartDataURL, StartRefused, CondemnCancelled,
       SkipPaused, CallHandler, CallTransfer, CondemnAgain, KeepJob, NotifyJobFailed, PageCancels
  <2>9. ASSUME NEW h \in Handle, TransferSteps(h) PROVE JobLimit'
    BY <2>2, <2>9 DEF TransferSteps, DataReceived, DataDone, TransferEnds
  <2>10. QED
    BY <2>2, <2>5, <2>6, <2>7, <2>8, <2>9 DEF Next, vars
<1>3. QED
  BY <1>1, <1>2, Invariance, PTL DEF Spec
=============================================================================
