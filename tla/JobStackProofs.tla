--------------------------- MODULE JobStackProofs ---------------------------
(***************************************************************************)
(* Proofs about JobManager that need the whole call stack: who called whom *)
(* (Stacked), and what becomes of a handle once the manager has taken it   *)
(* off the queue (Queued), so that no handle is in the lists twice and a   *)
(* client that has cancelled is left alone.  They hold for any handles,    *)
(* Views, kinds, limits and nesting, whatever callback the debugger stops  *)
(* in.                                                                     *)
(***************************************************************************)
EXTENDS JobManagerProofs

Height == Len(stack)
Brk(f) == f.at = "client" /\ f.brk

(* The frames up to m stay what they are.                                    *)
Agree(m) == \A i \in 1..m : stack'[i] = stack[i]
Under == stack[Height - 1]

(* The stack after a call of g, a step to f and a call of g, and a return to *)
(* a step to f.                                                              *)
WithCall(g) == Append(stack, g)
SteppedCalling(f, g) == Append(Becomes(f), g)
ReturnedTo(f) == [Front(stack) EXCEPT ![Len(stack) - 1] = f]

(* g may be called by f.                                                     *)
CalledBy(f, g) ==
  \/ g.at \in LoopAt /\ Brk(f) /\ g.src \in {"tick", "timer"}
  \/ g.at = "transfer" /\ f.at = "run" /\ f.it = g.it
  \/ /\ g.at = "client"
     /\ \/ g.cb \in {"response", "data"} /\ f.at = "transfer" /\ f.it = g.it /\ f.done = "no"
        \/ g.cb = "finish" /\ f.at = "transfer" /\ f.it = g.it /\ f.done = "ok"
        \/ g.cb = "fail" /\ f.at = "remove" /\ f.it = g.it /\ f.told
        \/ g.cb \in {"refused", "urlResponse", "urlData", "urlDone"} /\ f.at \in {"start", "restart"}
        \/ g.cb \in {"headers", "redirect"} /\ Brk(f)

(* g may be at the bottom of the stack.                                      *)
Outermost(g) == \/ g.at \in LoopAt
                \/ g.at = "client" /\ g.cb \in {"script", "headers", "redirect"}

OwnView(f) == f.at = "client" /\ f.cb # "script" => f.view = ViewOf[f.it]

Stacked ==
  /\ Height > 0 => Outermost(stack[1])
  /\ \A i \in 2..Height : CalledBy(stack[i - 1], stack[i])
  /\ \A i \in 1..Height : OwnView(stack[i])
  /\ \A i, j \in 1..Height : Brk(stack[i]) /\ Brk(stack[j]) => i = j
  /\ \A i \in 1..Height : Brk(stack[i]) => stack[i].view \in View \ Inspector

-----------------------------------------------------------------------------
(* The stack, frame by frame.                                                *)

LEMMA StackTypes ==
  ASSUME IInv
  PROVE  /\ stack \in Seq(GoodFrame) /\ Height \in Nat /\ DOMAIN stack = 1..Height
         /\ \A i \in 1..Height : stack[i] \in GoodFrame
         /\ stack # <<>> <=> Height > 0
         /\ stack # <<>> => Top = stack[Height]
<1>1. stack \in Seq(GoodFrame)
  BY DEF IInv, WellStacked
<1>2. QED
  BY <1>1 DEF Height, Top, Last

LEMMA NextTypes ==
  ASSUME IInv'
  PROVE  /\ Height' \in Nat /\ DOMAIN stack' = 1..Height'
         /\ \A i \in 1..Height' : stack'[i] \in GoodFrame
         /\ stack' # <<>> <=> Height' > 0
         /\ stack' # <<>> => Top' = stack'[Height']
<1>1. stack' \in Seq(GoodFrame)
  BY DEF IInv, WellStacked
<1>2. QED
  BY <1>1 DEF Height, Top, Last

LEMMA AppendIs ==
  ASSUME NEW S, NEW s \in Seq(S), NEW f
  PROVE  /\ Len(Append(s, f)) = Len(s) + 1 /\ Append(s, f)[Len(s) + 1] = f
         /\ \A i \in 1..Len(s) : Append(s, f)[i] = s[i]
         /\ Append(s, f) # <<>> /\ Last(Append(s, f)) = f
<1>1. /\ Len(Append(s, f)) = Len(s) + 1 /\ Append(s, f)[Len(s) + 1] = f /\ Len(s) \in Nat
      /\ \A i \in 1..Len(s) : Append(s, f)[i] = s[i]
  OBVIOUS
<1>2. Len(<<>>) = 0
  OBVIOUS
<1>3. Append(s, f) # <<>>
  BY <1>1, <1>2
<1>4. QED
  BY <1>1, <1>3 DEF Last

LEMMA ReplaceIs ==
  ASSUME NEW S, NEW s \in Seq(S), s # <<>>, NEW f
  PROVE  LET t == [s EXCEPT ![Len(s)] = f]
         IN /\ t \in Seq(S \cup {f}) /\ Len(t) = Len(s) /\ t[Len(s)] = f
            /\ \A i \in 1..(Len(s) - 1) : t[i] = s[i]
            /\ t # <<>> /\ Last(t) = f
<1> DEFINE P(t) == /\ t \in Seq(S \cup {f}) /\ Len(t) = Len(s) /\ t[Len(s)] = f
                   /\ \A i \in 1..(Len(s) - 1) : t[i] = s[i]
                   /\ t # <<>> /\ Last(t) = f
<1>1. ASSUME NEW t, t = [s EXCEPT ![Len(s)] = f]
      PROVE  P(t)
  <2>1. s \in Seq(S \cup {f}) /\ Len(s) # 0
    OBVIOUS
  <2>2. /\ t \in Seq(S \cup {f}) /\ Len(t) = Len(s) /\ t[Len(s)] = f
        /\ \A i \in 1..(Len(s) - 1) : t[i] = s[i]
    BY <1>1, <2>1
  <2>3. t # <<>> /\ Last(t) = f
    BY <2>1, <2>2 DEF Last
  <2>4. QED
    BY <2>2, <2>3
<1> HIDE DEF P
<1>2. P([s EXCEPT ![Len(s)] = f])
  BY <1>1
<1>3. QED
  BY <1>2 DEF P

(* Calls, returns and steps of the frame on top.                             *)
LEMMA CallMoves ==
  ASSUME IInv, NEW f, stack' = WithCall(f)
  PROVE  Height' = Height + 1 /\ Agree(Height) /\ Top' = f /\ stack'[Height + 1] = f
BY StackTypes, AppendIs DEF Height, Agree, Top, WithCall

LEMMA StepMoves ==
  ASSUME IInv, stack # <<>>, NEW f, stack' = Becomes(f)
  PROVE  Height' = Height /\ Agree(Height - 1) /\ Top' = f /\ stack'[Height] = f
<1> DEFINE s == [stack EXCEPT ![Len(stack)] = f]
<1>0. stack \in Seq(GoodFrame)
  BY StackTypes
<1>1. /\ Len(s) = Len(stack) /\ s[Len(stack)] = f /\ Last(s) = f
      /\ \A i \in 1..(Len(stack) - 1) : s[i] = stack[i]
  BY <1>0, ReplaceIs, Zenon
<1>2. stack' = s
  BY DEF Becomes
<1> HIDE DEF s
<1>3. QED
  BY <1>1, <1>2 DEF Height, Agree, Top

LEMMA ReturnMoves ==
  ASSUME IInv, stack # <<>>, stack' = Return
  PROVE  Height' = Height - 1 /\ Agree(Height - 1) /\ (Height > 1 => Top' = Under)
<1>1. /\ stack \in Seq(GoodFrame) /\ Len(stack) \in Nat /\ Len(stack) > 0
      /\ Front(stack) \in Seq(GoodFrame)
      /\ Len(Front(stack)) = Len(stack) - 1
      /\ \A i \in 1..(Len(stack) - 1) : Front(stack)[i] = stack[i]
  BY StackTypes, FrontFacts DEF Height
<1>2. QED
  BY <1>1 DEF Height, Agree, Top, Under, Return, Last

LEMMA StepCallMoves ==
  ASSUME IInv, stack # <<>>, NEW f, NEW g, stack' = SteppedCalling(f, g)
  PROVE  /\ Height' = Height + 1 /\ Agree(Height - 1)
         /\ stack'[Height] = f /\ stack'[Height + 1] = g /\ Top' = g
<1> DEFINE s == Becomes(f)
<1>1. /\ s \in Seq(GoodFrame \cup {f}) /\ Len(s) = Len(stack) /\ s[Len(stack)] = f
      /\ \A i \in 1..(Len(stack) - 1) : s[i] = stack[i]
  BY StackTypes, ReplaceIs DEF Becomes
<1>2. Len(stack) \in Nat /\ Len(stack) > 0
  BY StackTypes DEF Height
<1> HIDE DEF s
<1>3. /\ Len(stack') = Len(s) + 1 /\ stack'[Len(s) + 1] = g /\ Last(stack') = g
      /\ \A i \in 1..Len(s) : stack'[i] = s[i]
  BY <1>1, AppendIs DEF s, SteppedCalling
<1>4. QED
  BY <1>1, <1>2, <1>3 DEF Height, Agree, Top

LEMMA ReturnStepMoves ==
  ASSUME IInv, Height > 1, NEW f, stack' = ReturnedTo(f)
  PROVE  Height' = Height - 1 /\ Agree(Height - 2) /\ Top' = f /\ stack'[Height - 1] = f
<1> DEFINE s == Front(stack)
<1>1. /\ s \in Seq(GoodFrame) /\ Len(s) = Len(stack) - 1 /\ Len(stack) \in Nat /\ Len(stack) > 1
      /\ \A i \in 1..(Len(stack) - 1) : s[i] = stack[i]
  <2>1. stack \in Seq(GoodFrame) /\ stack # <<>> /\ Len(stack) \in Nat /\ Len(stack) > 1
    BY StackTypes DEF Height
  <2>2. QED
    BY <2>1, FrontFacts
<1> HIDE DEF s
<1>2. s # <<>>
  BY <1>1
<1>3. stack' = [s EXCEPT ![Len(s)] = f]
  BY <1>1 DEF s, ReturnedTo
<1>4. /\ Len(stack') = Len(s) /\ stack'[Len(s)] = f /\ Last(stack') = f
      /\ \A i \in 1..(Len(s) - 1) : stack'[i] = s[i]
  <2> DEFINE t == [s EXCEPT ![Len(s)] = f]
  <2>0. s \in Seq(GoodFrame)
    BY <1>1
  <2>1. /\ Len(t) = Len(s) /\ t[Len(s)] = f /\ Last(t) = f
        /\ \A i \in 1..(Len(s) - 1) : t[i] = s[i]
    BY <1>2, <2>0, ReplaceIs, Zenon
  <2>2. QED
    BY <1>3, <2>1, Zenon
<1>5. QED
  BY <1>1, <1>4 DEF Height, Agree, Top

-----------------------------------------------------------------------------
(* What a step other than Break and Resume does to the stack.                *)

(* The handles that a frame of the manager or a client works for.            *)
About(f, h) == f.at \in {"client", "transfer"} /\ f.it = h
Touched(h) == InJobs(h) \/ \E i \in 1..Height : About(stack[i], h)
Taken(h) == Starting /\ pending # <<>> /\ h = Head(pending)

(* Frame i of the next state may be there.                                   *)
Fresh(i) ==
  /\ ~Brk(stack'[i]) /\ OwnView(stack'[i])
  /\ i = 1 => Outermost(stack'[i])
  /\ i > 1 => CalledBy(stack'[i - 1], stack'[i])
  /\ \A h \in Handle : About(stack'[i], h) => Touched(h) \/ Taken(h)

(* The frames above m were not at a breakpoint and have left; others came.   *)
Moved(m) ==
  /\ m \in 0..Height /\ m <= Height'
  /\ Agree(m)
  /\ \A i \in (m + 1)..Height : ~Brk(stack[i])
  /\ \A i \in (m + 1)..Height' : Fresh(i)

LEMMA TopTypes ==
  ASSUME IInv, stack # <<>>
  PROVE  Height \in Nat /\ Height \in 1..Height /\ Top = stack[Height] /\ Top \in GoodFrame
BY StackTypes

LEMMA MovedKeepsStacked == ASSUME IInv, IInv', Stacked, NEW m, Moved(m) PROVE Stacked'
<1>1. /\ Height \in Nat /\ Height' \in Nat /\ m \in 0..Height /\ m <= Height' /\ m \in Nat
      /\ \A i \in 1..m : stack'[i] = stack[i]
      /\ \A i \in (m + 1)..Height : ~Brk(stack[i])
      /\ \A i \in (m + 1)..Height' : Fresh(i)
  BY StackTypes, NextTypes DEF Moved, Agree
<1>2. ASSUME Height' > 0 PROVE Outermost(stack'[1])
  BY <1>1, <1>2 DEF Stacked, Fresh
<1>3. ASSUME NEW i \in 2..Height' PROVE CalledBy(stack'[i - 1], stack'[i])
  <2>1. CASE i > m
    BY <1>1, <1>3, <2>1 DEF Fresh
  <2>2. CASE i <= m
    <3>1. i \in 2..Height /\ i \in 1..m /\ i - 1 \in 1..m
      BY <1>1, <1>3, <2>2
    <3>2. QED
      BY <1>1, <3>1 DEF Stacked
  <2>3. QED
    BY <1>1, <1>3, <2>1, <2>2
<1>4. ASSUME NEW i \in 1..Height'
      PROVE  /\ OwnView(stack'[i])
             /\ Brk(stack'[i]) => i \in 1..Height /\ Brk(stack[i]) /\ stack'[i] = stack[i]
  <2>1. CASE i > m
    <3>1. Fresh(i)
      BY <1>1, <1>4, <2>1
    <3>2. QED
      BY <3>1 DEF Fresh
  <2>2. CASE i <= m
    <3>1. i \in 1..Height /\ i \in 1..m
      BY <1>1, <1>4, <2>2
    <3>2. QED
      BY <1>1, <3>1 DEF Stacked
  <2>3. QED
    BY <1>1, <1>4, <2>1, <2>2
<1>5. \A i, j \in 1..Height' : Brk(stack'[i]) /\ Brk(stack'[j]) => i = j
  BY <1>4 DEF Stacked
<1>6. \A i \in 1..Height' : Brk(stack'[i]) => stack'[i].view \in View \ Inspector
  BY <1>4 DEF Stacked
<1>7. QED
  BY <1>2, <1>3, <1>4, <1>5, <1>6 DEF Stacked

(* Which pages are deferred depends on the breakpoints only.                 *)
LEMMA BrokenIs ==
  ASSUME IInv
  PROVE  \A v : v \in Broken <=> \E i \in 1..Height : Brk(stack[i]) /\ v \in Group(stack[i].view)
BY StackTypes DEF Broken, Brk

LEMMA MovedKeepsBroken == ASSUME IInv, IInv', NEW m, Moved(m) PROVE Broken' = Broken
<1>1. /\ Height \in Nat /\ Height' \in Nat /\ m \in 0..Height /\ m <= Height' /\ m \in Nat
      /\ \A i \in 1..m : stack'[i] = stack[i]
      /\ \A i \in (m + 1)..Height : ~Brk(stack[i])
      /\ \A i \in (m + 1)..Height' : Fresh(i)
  BY StackTypes, NextTypes DEF Moved, Agree
<1>2. \A i \in 1..Height : Brk(stack[i]) => i \in 1..Height' /\ stack'[i] = stack[i]
  BY <1>1
<1>3. \A i \in 1..Height' : Brk(stack'[i]) => i \in 1..Height /\ stack'[i] = stack[i]
  BY <1>1 DEF Fresh
<1>4. \A v : v \in Broken' <=> \E i \in 1..Height' : Brk(stack'[i]) /\ v \in Group(stack'[i].view)
  BY NextTypes DEF Broken, Brk
<1>5. \A v : v \in Broken' <=> v \in Broken
  BY <1>2, <1>3, <1>4, BrokenIs
<1>6. QED
  <2>1. Broken \subseteq Broken' /\ Broken' \subseteq Broken
    BY <1>5
  <2>2. QED
    BY <2>1

LEMMA MovedKeepsNames ==
  ASSUME IInv, IInv', NEW m, Moved(m), NEW h \in Handle,
         NEW i \in 1..Height', About(stack'[i], h)
  PROVE  Touched(h) \/ Taken(h)
<1>1. /\ Height \in Nat /\ Height' \in Nat /\ m \in 0..Height /\ m <= Height' /\ m \in Nat
      /\ \A j \in 1..m : stack'[j] = stack[j]
      /\ \A j \in (m + 1)..Height' : Fresh(j)
  BY StackTypes, NextTypes DEF Moved, Agree
<1>2. CASE i > m
  BY <1>1, <1>2 DEF Fresh
<1>3. CASE i <= m
  <2>1. i \in 1..Height /\ i \in 1..m
    BY <1>1, <1>3
  <2>2. QED
    BY <1>1, <2>1 DEF Touched
<1>4. QED
  BY <1>1, <1>2, <1>3

-----------------------------------------------------------------------------
(* The forms a step takes: a call, a step or a return of the frame on top,   *)
(* and their combinations.                                                   *)

(* f may be where g was.                                                     *)
Replaces(f, g) == /\ Outermost(g) => Outermost(f)
                  /\ \A e : CalledBy(e, g) => CalledBy(e, f)
Named(f) == \A h \in Handle : About(f, h) => Touched(h) \/ Taken(h)
Running(f) == ~Brk(f) /\ OwnView(f) /\ Named(f)

LEMMA StaysMoved == ASSUME IInv, IInv', stack' = stack PROVE Moved(Height)
<1>1. Height \in Nat /\ Height' = Height
  BY StackTypes DEF Height
<1>2. QED
  BY <1>1 DEF Moved, Agree

LEMMA CallMoved ==
  ASSUME IInv, IInv', NEW f, Running(f), stack' = WithCall(f),
         Height = 0 => Outermost(f), Height > 0 => CalledBy(Top, f)
  PROVE  Moved(Height)
<1>1. /\ Height \in Nat /\ Height' = Height + 1 /\ Agree(Height) /\ stack'[Height + 1] = f
      /\ Height > 0 => Top = stack[Height]
  BY CallMoves, StackTypes
<1>2. Fresh(Height + 1)
  <2>1. Height > 0 => stack'[Height] = Top
    BY <1>1 DEF Agree
  <2>2. QED
    BY <1>1, <2>1 DEF Fresh, Running, Named
<1>3. QED
  BY <1>1, <1>2 DEF Moved

LEMMA StepMoved ==
  ASSUME IInv, IInv', Stacked, stack # <<>>, ~Brk(Top), NEW f, Running(f), Replaces(f, Top),
         stack' = Becomes(f)
  PROVE  Moved(Height - 1)
<1>1. /\ Height \in Nat /\ Height > 0 /\ Height' = Height /\ Agree(Height - 1)
      /\ stack'[Height] = f /\ Top = stack[Height]
  BY StepMoves, StackTypes
<1>2. Fresh(Height)
  <2>1. Height = 1 => Outermost(f)
    BY <1>1 DEF Stacked, Replaces
  <2>2. ASSUME Height > 1 PROVE CalledBy(stack'[Height - 1], f)
    <3>1. CalledBy(stack[Height - 1], Top) /\ stack'[Height - 1] = stack[Height - 1]
      BY <1>1, <2>2 DEF Stacked, Agree
    <3>2. QED
      BY <3>1 DEF Replaces
  <2>3. QED
    BY <1>1, <2>1, <2>2 DEF Fresh, Running, Named
<1>3. QED
  BY <1>1, <1>2 DEF Moved

LEMMA ReturnMoved ==
  ASSUME IInv, IInv', stack # <<>>, ~Brk(Top), stack' = Return
  PROVE  Moved(Height - 1)
<1>1. /\ Height \in Nat /\ Height > 0 /\ Height' = Height - 1 /\ Agree(Height - 1)
      /\ Top = stack[Height]
  BY ReturnMoves, StackTypes
<1>2. QED
  BY <1>1 DEF Moved

LEMMA StepCallMoved ==
  ASSUME IInv, IInv', Stacked, stack # <<>>, ~Brk(Top),
         NEW f, Running(f), Replaces(f, Top), NEW g, Running(g), CalledBy(f, g),
         stack' = SteppedCalling(f, g)
  PROVE  Moved(Height - 1)
<1>1. /\ Height \in Nat /\ Height > 0 /\ Height' = Height + 1 /\ Agree(Height - 1)
      /\ stack'[Height] = f /\ stack'[Height + 1] = g /\ Top = stack[Height]
  BY StepCallMoves, StackTypes
<1>2. Fresh(Height)
  <2>1. Height = 1 => Outermost(f)
    BY <1>1 DEF Stacked, Replaces
  <2>2. ASSUME Height > 1 PROVE CalledBy(stack'[Height - 1], f)
    <3>1. CalledBy(stack[Height - 1], Top) /\ stack'[Height - 1] = stack[Height - 1]
      BY <1>1, <2>2 DEF Stacked, Agree
    <3>2. QED
      BY <3>1 DEF Replaces
  <2>3. QED
    BY <1>1, <2>1, <2>2 DEF Fresh, Running, Named
<1>3. Fresh(Height + 1)
  BY <1>1 DEF Fresh, Running, Named
<1>4. QED
  BY <1>1, <1>2, <1>3 DEF Moved

LEMMA ReturnStepMoved ==
  ASSUME IInv, IInv', Stacked, Height > 1, ~Brk(Top), ~Brk(Under),
         NEW f, Running(f), Replaces(f, Under),
         stack' = ReturnedTo(f)
  PROVE  Moved(Height - 2)
<1>1. /\ Height \in Nat /\ Height > 1 /\ Height' = Height - 1 /\ Agree(Height - 2)
      /\ stack'[Height - 1] = f /\ Top = stack[Height] /\ Under = stack[Height - 1]
  BY ReturnStepMoves, StackTypes DEF Under
<1>2. Fresh(Height - 1)
  <2>1. Height = 2 => Outermost(f)
    BY <1>1 DEF Stacked, Replaces
  <2>2. ASSUME Height > 2 PROVE CalledBy(stack'[Height - 2], f)
    <3>1. CalledBy(stack[Height - 2], Under) /\ stack'[Height - 2] = stack[Height - 2]
      BY <1>1, <2>2 DEF Stacked, Agree
    <3>2. QED
      BY <3>1 DEF Replaces
  <2>3. QED
    BY <1>1, <2>1, <2>2 DEF Fresh, Running, Named
<1>3. \A i \in (Height - 1)..Height : ~Brk(stack[i])
  BY <1>1
<1>4. QED
  BY <1>1, <1>2, <1>3 DEF Moved

(* A loop goes on; a client is called.                                       *)
LEMMA LoopRuns ==
  ASSUME NEW f, f.at \in LoopAt
  PROVE  Running(f) /\ Outermost(f)
BY DEF LoopAt, Running, Brk, OwnView, Named, About, Outermost

LEMMA LoopReplaces ==
  ASSUME NEW f, f.at \in LoopAt, NEW g, g.at \in LoopAt, f.src = g.src
  PROVE  Replaces(f, g)
BY DEF LoopAt, Replaces, CalledBy, Outermost

LEMMA CallRuns ==
  ASSUME NEW h \in Handle, NEW cb, Touched(h) \/ Taken(h)
  PROVE  Running(ClientCall(h, cb))
BY DEF ClientCall, Running, Brk, OwnView, Named, About

LEMMA TransferRuns ==
  ASSUME NEW f, f.at = "transfer", NEW h, f.it = h, Touched(h)
  PROVE  Running(f)
BY DEF Running, Brk, OwnView, Named, About

LEMMA TransferReplaces ==
  ASSUME NEW f, f.at = "transfer", NEW g, g.at = "transfer", f.it = g.it
  PROVE  Replaces(f, g)
BY DEF Replaces, CalledBy, Outermost, LoopAt

-----------------------------------------------------------------------------
(* The steps that leave no new frame but a loop's: every frame of a client   *)
(* or of a Transfer was there before.                                        *)

NothingNew == \A i \in 1..Height' : stack'[i].at \notin LoopAt => i \in 1..Height /\ stack'[i] = stack[i]
Calm == NothingNew /\ \E m : Moved(m)

LEMMA StaysCalm == ASSUME IInv, IInv', stack' = stack PROVE Calm
<1>1. Height' = Height
  BY DEF Height
<1>2. QED
  BY <1>1, StaysMoved DEF Calm, NothingNew

LEMMA LoopGoesOn ==
  ASSUME IInv, IInv', Stacked, stack # <<>>, Top.at \in LoopAt,
         NEW f, f.at \in LoopAt, f.src = Top.src, stack' = Becomes(f)
  PROVE  Calm /\ Height' = Height /\ Top' = f /\ Agree(Height - 1)
<1>1. /\ Height \in Nat /\ Height > 0 /\ Height' = Height /\ Agree(Height - 1)
      /\ stack'[Height] = f /\ Top' = f
  BY StepMoves, StackTypes
<1>2. ~Brk(Top) /\ Running(f) /\ Replaces(f, Top)
  BY LoopRuns, LoopReplaces DEF Running
<1>3. Moved(Height - 1)
  BY <1>2, StepMoved
<1>4. NothingNew
  BY <1>1 DEF NothingNew, Agree
<1>5. QED
  BY <1>1, <1>3, <1>4 DEF Calm

LEMMA LoopBegins ==
  ASSUME IInv, IInv', NEW f, f.at \in LoopAt, stack' = WithCall(f),
         Idle \/ (TopAt("client") /\ Top.brk /\ f.src \in {"tick", "timer"})
  PROVE  Calm /\ Height' = Height + 1 /\ Top' = f /\ Agree(Height)
<1>1. /\ Height \in Nat /\ Height' = Height + 1 /\ Agree(Height) /\ stack'[Height + 1] = f
      /\ Top' = f /\ (Idle => Height = 0)
  BY CallMoves, StackTypes DEF Idle
<1>2. Running(f) /\ Outermost(f)
  BY LoopRuns
<1>3. Height > 0 => CalledBy(Top, f)
  BY <1>1 DEF TopAt, CalledBy, Brk
<1>4. Moved(Height)
  BY <1>2, <1>3, CallMoved
<1>5. NothingNew
  BY <1>1 DEF NothingNew, Agree
<1>6. QED
  BY <1>1, <1>4, <1>5 DEF Calm

LEMMA ReturnCalm ==
  ASSUME IInv, IInv', stack # <<>>, ~Brk(Top), stack' = Return
  PROVE  Calm /\ Height' = Height - 1 /\ Agree(Height - 1)
<1>1. /\ Height \in Nat /\ Height > 0 /\ Height' = Height - 1 /\ Agree(Height - 1)
  BY ReturnMoves, StackTypes
<1>2. Moved(Height - 1)
  BY ReturnMoved
<1>3. NothingNew
  BY <1>1 DEF NothingNew, Agree
<1>4. QED
  BY <1>1, <1>2, <1>3 DEF Calm

LEMMA Advanced ==
  ASSUME IInv, IInv', Stacked, NEW l \in {"run", "remove"}, TopAt(l), stack' = Advance
  PROVE  /\ Calm /\ Height' = Height /\ Agree(Height - 1)
         /\ Top'.at = l /\ Top'.src = Top.src /\ Top'.it = JobAfter(Top.it)
<1> DEFINE f == [Top EXCEPT !.it = JobAfter(Top.it), !.told = FALSE]
<1>1. stack # <<>> /\ Top.at = l /\ Top.at \in LoopAt /\ stack' = Becomes(f)
  BY DEF TopAt, LoopAt, Advance
<1>2. f.at = Top.at /\ f.src = Top.src /\ f.it = JobAfter(Top.it)
  BY <1>1, LoopOnTop DEF LoopFrame
<1> HIDE DEF f
<1>3. Calm /\ Height' = Height /\ Top' = f /\ Agree(Height - 1)
  BY <1>1, <1>2, LoopGoesOn
<1>4. QED
  BY <1>1, <1>2, <1>3

LEMMA StartedIs ==
  ASSUME IInv, Starting
  PROVE  \E f : /\ Started = Becomes(f) /\ stack # <<>> /\ Top.at \in {"start", "restart"}
                /\ f.at = Top.at /\ f.src = Top.src /\ f.it = Top.it
<1> DEFINE b == Top.at = "restart"
           f == [Top EXCEPT !.busy = b]
<1>1. stack # <<>> /\ Top.at \in {"start", "restart"} /\ Top.at \in LoopAt
  BY DEF Starting, TopAt, LoopAt
<1>3. Started = Becomes(f)
  BY DEF Started
<1> HIDE DEF b
<1>2. f.at = Top.at /\ f.src = Top.src /\ f.it = Top.it
  BY <1>1, LoopOnTop DEF LoopFrame
<1> HIDE DEF f
<1>4. QED
  BY <1>1, <1>2, <1>3

LEMMA TickCalm == ASSUME IInv, IInv', Tick \/ TimerFires PROVE Calm /\ Agree(Height) /\ Height' = Height + 1 /\ Top'.at = "start"
<1>1. PICK src \in {"tick", "timer"} : AppRuns /\ stack' = Append(stack, NewLoop("start", src, None))
  BY DEF Tick, TimerFires
<1> DEFINE f == NewLoop("start", src, None)
<1>2. f.at = "start" /\ f.at \in LoopAt /\ f.src = src
  BY DEF NewLoop, LoopAt
<1>3. stack' = WithCall(f)
  BY <1>1 DEF WithCall
<1> HIDE DEF f
<1>4. Idle \/ (TopAt("client") /\ Top.brk)
  BY <1>1 DEF AppRuns
<1>5. QED
  BY <1>2, <1>3, <1>4, LoopBegins

LEMMA PurgeCalm ==
  ASSUME IInv, IInv', NEW S, NEW src, NEW v, Purge(S, src, v)
  PROVE  Calm /\ Height = 0 /\ Height' = 1 /\ Top'.at = "run"
<1> DEFINE f == NewLoop("run", src, v)
<1>1. f.at = "run" /\ f.at \in LoopAt
  BY DEF NewLoop, LoopAt
<1>2. stack' = WithCall(f) /\ Idle
  BY DEF WithCall, Purge
<1> HIDE DEF f
<1>3. Calm /\ Height' = Height + 1 /\ Top' = f
  BY <1>1, <1>2, LoopBegins
<1>4. Height = 0
  BY <1>2, StackTypes DEF Idle
<1>5. QED
  BY <1>1, <1>3, <1>4

LEMMA StartJobCalm ==
  ASSUME IInv, IInv', Stacked, NEW h \in Handle, StartJob(h)
  PROVE  Calm /\ Height' = Height /\ Agree(Height - 1) /\ Top'.at = Top.at /\ Top'.it = Top.it
<1>1. Starting /\ stack' = Started
  BY DEF StartJob
<1>2. PICK f : /\ Started = Becomes(f) /\ stack # <<>> /\ Top.at \in {"start", "restart"}
               /\ f.at = Top.at /\ f.src = Top.src /\ f.it = Top.it
  BY <1>1, StartedIs
<1>3. f.at \in LoopAt
  BY <1>2 DEF LoopAt
<1>4. QED
  BY <1>1, <1>2, <1>3, LoopGoesOn

LEMMA StartDoneCalm ==
  ASSUME IInv, IInv', Stacked, StartDone
  PROVE  Calm /\ Height' = Height /\ Agree(Height - 1) /\ Top'.at = "run" /\ Top'.it = FirstJob
<1> DEFINE f == [Top EXCEPT !.at = "run", !.it = FirstJob]
<1>1. stack # <<>> /\ Top.at \in LoopAt /\ stack' = Becomes(f)
  BY DEF StartDone, TopAt, LoopAt
<1>2. f.at = "run" /\ f.at \in LoopAt /\ f.src = Top.src /\ f.it = FirstJob
  BY <1>1, LoopOnTop DEF LoopFrame, LoopAt
<1> HIDE DEF f
<1>3. QED
  BY <1>1, <1>2, LoopGoesOn

LEMMA RunDoneCalm ==
  ASSUME IInv, IInv', Stacked, RunDone
  PROVE  /\ Calm /\ Height' = Height /\ Agree(Height - 1)
         /\ Top'.at = IF condemned THEN "remove" ELSE "check"
         /\ condemned => Top'.it = FirstJob
<1> DEFINE f == [Top EXCEPT !.at = IF condemned THEN "remove" ELSE "check",
                            !.it = IF condemned THEN FirstJob ELSE None]
<1>1. stack # <<>> /\ Top.at \in LoopAt /\ stack' = Becomes(f)
  BY DEF RunDone, TopAt, LoopAt
<1>2. /\ f.at = IF condemned THEN "remove" ELSE "check"
      /\ f.at \in LoopAt /\ f.src = Top.src /\ f.it = IF condemned THEN FirstJob ELSE None
  BY <1>1, LoopOnTop DEF LoopFrame, LoopAt
<1> HIDE DEF f
<1>3. QED
  BY <1>1, <1>2, LoopGoesOn

LEMMA RemoveDoneCalm ==
  ASSUME IInv, IInv', Stacked, RemoveDone
  PROVE  Calm /\ Height' = Height /\ Agree(Height - 1) /\ Top'.at = "check"
<1> DEFINE f == [Top EXCEPT !.at = "check"]
<1>1. stack # <<>> /\ Top.at \in LoopAt /\ stack' = Becomes(f)
  BY DEF RemoveDone, TopAt, LoopAt
<1>2. f.at = "check" /\ f.at \in LoopAt /\ f.src = Top.src
  BY <1>1, LoopOnTop DEF LoopFrame, LoopAt
<1> HIDE DEF f
<1>3. QED
  BY <1>1, <1>2, LoopGoesOn

LEMMA ProcessJobsDoneCalm ==
  ASSUME IInv, IInv', Stacked, ProcessJobsDone
  PROVE  Calm /\ Height' = Height /\ Agree(Height - 1) /\ Top'.at = "restart"
<1> DEFINE b == jobs # <<>>
           f == [Top EXCEPT !.at = "restart", !.busy = b]
<1>1. stack # <<>> /\ Top.at \in LoopAt /\ stack' = Becomes(f)
  BY DEF ProcessJobsDone, TopAt, LoopAt
<1> HIDE DEF b
<1>2. f.at = "restart" /\ f.at \in LoopAt /\ f.src = Top.src
  BY <1>1, LoopOnTop DEF LoopFrame, LoopAt
<1> HIDE DEF f
<1>3. QED
  BY <1>1, <1>2, LoopGoesOn

LEMMA ReturnsCalm ==
  ASSUME IInv, IInv', stack' = Return, stack # <<>>, Top.at \in LoopAt \/ (TopAt("client") /\ ~Top.brk)
  PROVE  Calm /\ Height' = Height - 1 /\ Agree(Height - 1)
<1>1. ~Brk(Top)
  BY DEF Brk, LoopAt
<1>2. QED
  BY <1>1, ReturnCalm

LEMMA TransferEndsIs ==
  ASSUME IInv, IInv', Stacked, NEW h \in Handle, TransferEnds(h)
  PROVE  /\ Calm /\ Height \in Nat /\ Height > 1 /\ Height' = Height - 1 /\ Agree(Height - 2)
         /\ Top.at = "transfer" /\ Top.it = h
         /\ Under.at = "run" /\ Top'.at = "run" /\ Top'.src = Under.src
<1> DEFINE f == [Under EXCEPT !.it = JobAfter(h), !.told = FALSE]
<1>1. /\ stack # <<>> /\ Top.at = "transfer" /\ Top.it = h
      /\ stack' = [Front(stack) EXCEPT ![Len(stack) - 1] =
                     [Last(Front(stack)) EXCEPT !.it = JobAfter(h), !.told = FALSE]]
  BY DEF TransferEnds, TopAt
<1>2. /\ Front(stack) # <<>> /\ Last(Front(stack)) \in GoodFrame /\ Last(Front(stack)).at = "run"
      /\ Last(Front(stack)) = stack[Len(stack) - 1] /\ Len(Front(stack)) = Len(stack) - 1
  BY <1>1, StackReturns DEF IInv, Top
<1>3. Under = Last(Front(stack)) /\ Under \in GoodFrame /\ Under.at = "run"
  BY <1>2 DEF Under, Height
<1>4. stack' = ReturnedTo(f)
  BY <1>1, <1>3 DEF ReturnedTo
<1>5. Height > 1 /\ Height \in Nat
  <2>1. Front(stack) \in Seq(GoodFrame)
    BY <1>1, StackTypes, FrontFacts
  <2>2. Len(Front(stack)) # 0
    BY <1>2, <2>1
  <2>3. QED
    BY <1>1, <1>2, <2>2, StackTypes DEF Height
<1>6. f.at = "run" /\ f.src = Under.src
  <2>1. Under \in LoopFrame
    BY <1>3, LoopFrames DEF LoopAt
  <2>2. QED
    BY <1>3, <2>1 DEF LoopFrame
<1> HIDE DEF f
<1>7. ~Brk(Top) /\ ~Brk(Under) /\ Running(f) /\ Replaces(f, Under)
  <2>1. f.at \in LoopAt /\ Under.at \in LoopAt
    BY <1>3, <1>6 DEF LoopAt
  <2>2. QED
    BY <1>1, <1>3, <1>6, <2>1, LoopRuns, LoopReplaces DEF Brk
<1>8. Moved(Height - 2)
  BY <1>4, <1>5, <1>7, ReturnStepMoved
<1>9. /\ Height' = Height - 1 /\ Agree(Height - 2) /\ Top' = f /\ stack'[Height - 1] = f
  BY <1>4, <1>5, ReturnStepMoves
<1>10. NothingNew
  BY <1>5, <1>6, <1>9 DEF NothingNew, Agree, LoopAt
<1>11. QED
  BY <1>1, <1>3, <1>5, <1>6, <1>8, <1>9, <1>10 DEF Calm

-----------------------------------------------------------------------------
(* The steps that call a client or Transfer, or mark the frame on top: the   *)
(* frames that were there stay, for the same handle.                         *)

Alike(i) == /\ stack'[i].at = stack[i].at /\ stack'[i].it = stack[i].it
            /\ stack[i].at = "client" => stack'[i] = stack[i]
Stays == \A i \in 1..Height : Alike(i)
CallOf(g) == /\ Stays /\ Height \in Nat /\ Height' = Height + 1 /\ stack'[Height + 1] = g /\ Top' = g
             /\ \E m : Moved(m)
Marked == Stays /\ Height \in Nat /\ Height' = Height /\ \E m : Moved(m)

LEMMA PlainCall ==
  ASSUME IInv, IInv', NEW g, Running(g), stack' = WithCall(g),
         Height = 0 => Outermost(g), Height > 0 => CalledBy(Top, g)
  PROVE  CallOf(g) /\ Agree(Height)
<1>1. /\ Height \in Nat /\ Height' = Height + 1 /\ Agree(Height) /\ stack'[Height + 1] = g
      /\ Top' = g
  BY CallMoves, StackTypes
<1>2. Moved(Height)
  BY CallMoved
<1>3. Stays
  BY <1>1 DEF Stays, Alike, Agree
<1>4. QED
  BY <1>1, <1>2, <1>3 DEF CallOf

LEMMA MarkedCall ==
  ASSUME IInv, IInv', Stacked, stack # <<>>, NEW f, f.at = Top.at, f.it = Top.it, Running(f),
         Top.at # "client", Replaces(f, Top), NEW g, Running(g), CalledBy(f, g),
         stack' = SteppedCalling(f, g)
  PROVE  CallOf(g)
<1>1. /\ Height \in Nat /\ Height > 0 /\ Height' = Height + 1 /\ Agree(Height - 1)
      /\ stack'[Height] = f /\ stack'[Height + 1] = g /\ Top' = g /\ Top = stack[Height]
  BY StepCallMoves, StackTypes
<1>2. Moved(Height - 1)
  BY StepCallMoved DEF Brk
<1>3. Stays
  BY <1>1 DEF Stays, Alike, Agree
<1>4. QED
  BY <1>1, <1>2, <1>3 DEF CallOf

LEMMA PlainMark ==
  ASSUME IInv, IInv', Stacked, stack # <<>>, NEW f, f.at = Top.at, f.it = Top.it, Running(f),
         Top.at # "client", Replaces(f, Top), stack' = Becomes(f)
  PROVE  Marked /\ Top' = f
<1>1. /\ Height \in Nat /\ Height > 0 /\ Height' = Height /\ Agree(Height - 1)
      /\ stack'[Height] = f /\ Top' = f /\ Top = stack[Height]
  BY StepMoves, StackTypes
<1>2. Moved(Height - 1)
  BY StepMoved DEF Brk
<1>3. Stays
  BY <1>1 DEF Stays, Alike, Agree
<1>4. QED
  BY <1>1, <1>2, <1>3 DEF Marked

LEMMA RunScriptIs ==
  ASSUME IInv, IInv', NEW v \in View, RunScript(v)
  PROVE  \E g : CallOf(g) /\ Height = 0 /\ g.at = "client" /\ g.it = None /\ g.cb = "script" /\ ~g.brk
<1> DEFINE g == [at |-> "client", it |-> None, cb |-> "script", view |-> v, brk |-> FALSE]
<1>1. g.at = "client" /\ g.it = None /\ g.cb = "script" /\ ~g.brk
  OBVIOUS
<1>2. stack' = WithCall(g) /\ Idle
  BY DEF RunScript, WithCall
<1> HIDE DEF g
<1>3. Height = 0
  BY <1>2, StackTypes DEF Idle
<1>4. Running(g) /\ Outermost(g)
  BY <1>1, HandleAssumption DEF Running, Brk, OwnView, Named, About, Outermost
<1>5. QED
  BY <1>1, <1>2, <1>3, <1>4, PlainCall

LEMMA HeadersReceivedIs ==
  ASSUME IInv, IInv', NEW h \in Handle, HeadersReceived(h)
  PROVE  \/ Calm /\ UNCHANGED <<stack, hist>>
         \/ \E cb \in {"headers", "redirect"} :
              CallOf(ClientCall(h, cb)) /\ Agree(Height) /\ Called(h, cb)
              /\ ~rh[h].cancelled /\ rh[h].client
<1>1. CASE UNCHANGED <<stack, hist>>
  BY <1>1, StaysCalm
<1>2. ASSUME NEW cb \in {"headers", "redirect"}, stack' = Append(stack, ClientCall(h, cb)), Called(h, cb),
             ~rh[h].cancelled, rh[h].client
      PROVE  CallOf(ClientCall(h, cb)) /\ Agree(Height)
  <2> DEFINE g == ClientCall(h, cb)
  <2>1. Idle \/ (TopAt("client") /\ Top.brk)
    BY DEF HeadersReceived, AppRuns
  <2>2. Touched(h)
    BY DEF HeadersReceived, Touched
  <2>3. Running(g) /\ g.at = "client" /\ g.cb = cb
    BY <2>2, CallRuns DEF ClientCall
  <2>4. stack' = WithCall(g)
    BY <1>2 DEF WithCall
  <2> HIDE DEF g
  <2>5. Outermost(g)
    BY <2>3 DEF Outermost
  <2>6. Height > 0 => CalledBy(Top, g)
    BY <2>1, <2>3, StackTypes DEF CalledBy, Idle, TopAt, Brk
  <2>7. QED
    BY <2>3, <2>4, <2>5, <2>6, PlainCall DEF g
<1>3. PICK redirect \in BOOLEAN :
        LET cb == IF redirect THEN "redirect" ELSE "headers"
            told == /\ ~rh[h].cancelled /\ rh[h].client
                    /\ redirect \/ info[h].state # "Remove"
        IN IF told THEN stack' = Append(stack, ClientCall(h, cb)) /\ Called(h, cb)
                   ELSE UNCHANGED <<stack, hist>>
  BY DEF HeadersReceived
<1>4. QED
  BY <1>1, <1>2, <1>3

(* startPendingJob calls a client.                                           *)
LEMMA StartCalls ==
  ASSUME IInv, IInv', Stacked, Starting, NEW h \in Handle, Taken(h),
         NEW cb \in {"refused", "urlResponse", "urlDone"},
         stack' = Append(Started, ClientCall(h, cb))
  PROVE  CallOf(ClientCall(h, cb)) /\ Top.at \in {"start", "restart"}
<1> DEFINE g == ClientCall(h, cb)
<1>1. PICK f : /\ Started = Becomes(f) /\ stack # <<>> /\ Top.at \in {"start", "restart"}
               /\ f.at = Top.at /\ f.src = Top.src /\ f.it = Top.it
  BY StartedIs
<1>2. f.at \in LoopAt /\ Top.at \in LoopAt /\ Top.at # "client"
  BY <1>1 DEF LoopAt
<1>3. Running(f) /\ Replaces(f, Top)
  BY <1>1, <1>2, LoopRuns, LoopReplaces
<1>4. Running(g) /\ g.at = "client" /\ g.cb = cb
  BY CallRuns DEF ClientCall
<1>5. stack' = SteppedCalling(f, g)
  BY <1>1 DEF SteppedCalling
<1> HIDE DEF g
<1>6. CalledBy(f, g)
  BY <1>1, <1>4 DEF CalledBy
<1>7. CallOf(g)
  BY <1>1, <1>2, <1>3, <1>4, <1>5, <1>6, MarkedCall
<1>8. QED
  BY <1>1, <1>7 DEF g

LEMMA StartDataURLIs ==
  ASSUME IInv, IInv', Stacked, NEW h \in Handle, StartDataURL(h)
  PROVE  /\ Taken(h) /\ Top.at \in {"start", "restart"}
         /\ \E cb \in {"urlResponse", "urlDone"} : CallOf(ClientCall(h, cb)) /\ Called(h, cb)
<1>1. PICK cb \in {"urlResponse", "urlDone"} :
        stack' = Append(Started, ClientCall(h, cb)) /\ Called(h, cb)
  BY DEF StartDataURL
<1>2. Starting /\ Taken(h)
  BY DEF StartDataURL, Taken, MayStart
<1>3. QED
  BY <1>1, <1>2, StartCalls

LEMMA StartRefusedIs ==
  ASSUME IInv, IInv', Stacked, NEW h \in Handle, StartRefused(h)
  PROVE  Taken(h) /\ Top.at \in {"start", "restart"} /\ CallOf(ClientCall(h, "refused"))
<1>1. Starting /\ Taken(h) /\ stack' = Append(Started, ClientCall(h, "refused"))
  BY DEF StartRefused, Taken, MayStart
<1>2. QED
  BY <1>1, StartCalls

LEMMA NotifyJobFailedIs ==
  ASSUME IInv, IInv', Stacked, NEW h \in Handle, NotifyJobFailed(h)
  PROVE  /\ Top.at = "remove" /\ Top.it = h /\ InJobs(h)
         /\ \/ rh[h].client /\ CallOf(ClientCall(h, "fail")) /\ Called(h, "fail")
            \/ ~rh[h].client /\ Marked /\ Top'.at = "remove" /\ UNCHANGED hist
<1> DEFINE f == [Top EXCEPT !.told = TRUE]
           g == ClientCall(h, "fail")
<1>1. stack # <<>> /\ Top.at = "remove" /\ Top.it = h /\ InJobs(h) /\ Top.at \in LoopAt
  BY DEF NotifyJobFailed, AtRemove, TopAt, LoopAt
<1>2. f.at = "remove" /\ f.at \in LoopAt /\ f.src = Top.src /\ f.it = Top.it /\ f.told
  BY <1>1, LoopOnTop DEF LoopFrame, LoopAt
<1>3. Running(f) /\ Replaces(f, Top)
  BY <1>1, <1>2, LoopRuns, LoopReplaces
<1>4. Running(g) /\ g.at = "client" /\ g.cb = "fail" /\ g.it = h
  BY <1>1, CallRuns DEF ClientCall, Touched
<1>5. CASE rh[h].client
  <2>1. stack' = Append(Becomes(f), g) /\ Called(h, "fail")
    BY <1>5 DEF NotifyJobFailed
  <2> HIDE DEF f, g
  <2>2. CalledBy(f, g)
    BY <1>1, <1>2, <1>4 DEF CalledBy
  <2>3. stack' = SteppedCalling(f, g)
    BY <2>1 DEF SteppedCalling
  <2>4. CallOf(g)
    BY <1>1, <1>2, <1>3, <1>4, <2>2, <2>3, MarkedCall
  <2>5. QED
    BY <1>1, <1>5, <2>1, <2>4 DEF g
<1>6. CASE ~rh[h].client
  <2>1. stack' = Becomes(f) /\ UNCHANGED hist
    BY <1>6 DEF NotifyJobFailed
  <2> HIDE DEF f
  <2>2. Marked /\ Top' = f
    BY <1>1, <1>2, <1>3, <2>1, PlainMark
  <2>3. QED
    BY <1>1, <1>2, <1>6, <2>1, <2>2
<1>7. QED
  BY <1>5, <1>6

LEMMA CallTransferIs ==
  ASSUME IInv, IInv', NEW h \in Handle, CallTransfer(h)
  PROVE  /\ Top.at = "run"
         /\ \E g : CallOf(g) /\ Agree(Height) /\ g.at = "transfer" /\ g.it = h /\ g.done = "no"
<1> DEFINE g == [at |-> "transfer", it |-> h, got |-> FALSE, done |-> "no"]
<1>1. /\ stack # <<>> /\ Top.at = "run" /\ Top.it = h /\ Touched(h)
      /\ stack' = WithCall(g)
  BY DEF CallTransfer, AtState, AtJob, TopAt, WithCall, Touched
<1>2. g.at = "transfer" /\ g.it = h /\ g.done = "no"
  OBVIOUS
<1> HIDE DEF g
<1>3. Running(g)
  BY <1>1, <1>2, TransferRuns
<1>4. CalledBy(Top, g) /\ Height # 0
  BY <1>1, <1>2, StackTypes DEF CalledBy
<1>5. QED
  BY <1>1, <1>2, <1>3, <1>4, PlainCall

(* Transfer marks what it has done, and may call its client.                 *)
LEMMA TransferMarks ==
  ASSUME IInv, IInv', Stacked, TopAt("transfer"), NEW h \in Handle, Top.it = h, InJobs(h),
         NEW f, f.at = "transfer", f.it = h
  PROVE  /\ stack' = Becomes(f) => Marked /\ Top' = f
         /\ \A cb : /\ stack' = SteppedCalling(f, ClientCall(h, cb))
                     /\ \/ cb \in {"response", "data"} /\ f.done = "no"
                        \/ cb = "finish" /\ f.done = "ok"
                   => CallOf(ClientCall(h, cb))
<1>1. stack # <<>> /\ Top.at = "transfer" /\ Touched(h)
  BY DEF TopAt, Touched
<1>2. Running(f) /\ Replaces(f, Top)
  BY <1>1, TransferRuns, TransferReplaces
<1>3. ASSUME stack' = Becomes(f) PROVE Marked /\ Top' = f
  BY <1>1, <1>2, <1>3, PlainMark
<1>4. ASSUME NEW cb, stack' = SteppedCalling(f, ClientCall(h, cb)),
             \/ cb \in {"response", "data"} /\ f.done = "no"
             \/ cb = "finish" /\ f.done = "ok"
      PROVE  CallOf(ClientCall(h, cb))
  <2> DEFINE g == ClientCall(h, cb)
  <2>1. Running(g) /\ g.at = "client" /\ g.cb = cb /\ g.it = h
    BY <1>1, CallRuns DEF ClientCall
  <2>2. stack' = SteppedCalling(f, g)
    BY <1>4
  <2> HIDE DEF g
  <2>3. CalledBy(f, g)
    BY <1>4, <2>1 DEF CalledBy
  <2>4. CallOf(g)
    BY <1>1, <1>2, <2>1, <2>2, <2>3, MarkedCall
  <2>5. QED
    BY <2>4 DEF g
<1>5. QED
  BY <1>3, <1>4

LEMMA DataReceivedIs ==
  ASSUME IInv, IInv', Stacked, NEW h \in Handle, DataReceived(h)
  PROVE  /\ TopAt("transfer") /\ Top.it = h /\ InJobs(h) /\ Top.done = "no"
         /\ \/ /\ rh[h].client /\ ~rh[h].cancelled
               /\ \E cb \in {"data", "response"} : CallOf(ClientCall(h, cb)) /\ Called(h, cb)
            \/ ~(rh[h].client /\ ~rh[h].cancelled) /\ UNCHANGED hist
               /\ Marked /\ Top'.at = "transfer" /\ Top'.it = h /\ Top'.done = "no"
<1> DEFINE f == [Top EXCEPT !.got = TRUE]
           cb == IF rh[h].fired THEN "data" ELSE "response"
<1>1. TopAt("transfer") /\ Top.it = h /\ InJobs(h) /\ Top.done = "no"
  BY DEF DataReceived, InTransfer
<1>2. f.at = "transfer" /\ f.it = h /\ f.done = "no"
  BY <1>1, TransferOnTop DEF TransferFrame
<1>3. cb \in {"data", "response"}
  OBVIOUS
<1>4. CASE rh[h].client /\ ~rh[h].cancelled
  <2>1. stack' = SteppedCalling(f, ClientCall(h, cb)) /\ Called(h, cb)
    BY <1>4 DEF DataReceived, SteppedCalling
  <2> HIDE DEF f, cb
  <2>2. CallOf(ClientCall(h, cb))
    BY <1>1, <1>2, <1>3, <2>1, TransferMarks
  <2>3. QED
    BY <1>1, <1>3, <1>4, <2>1, <2>2
<1>5. CASE ~(rh[h].client /\ ~rh[h].cancelled)
  <2>1. stack' = Becomes(f) /\ UNCHANGED hist
    BY <1>5 DEF DataReceived
  <2> HIDE DEF f, cb
  <2>2. Marked /\ Top' = f
    BY <1>1, <1>2, <2>1, TransferMarks
  <2>3. QED
    BY <1>1, <1>2, <1>5, <2>1, <2>2
<1>6. QED
  BY <1>4, <1>5

LEMMA DataDoneIs ==
  ASSUME IInv, IInv', Stacked, NEW h \in Handle, NEW result \in BOOLEAN, DataDone(h, result)
  PROVE  /\ TopAt("transfer") /\ Top.it = h /\ InJobs(h) /\ Top.done = "no"
         /\ \/ /\ rh[h].client /\ ~rh[h].cancelled /\ result
               /\ CallOf(ClientCall(h, "finish")) /\ Called(h, "finish")
            \/ /\ ~(rh[h].client /\ ~rh[h].cancelled /\ result) /\ UNCHANGED hist
               /\ Marked /\ Top'.at = "transfer" /\ Top'.it = h
               /\ Top'.done = IF result THEN "ok" ELSE "bad"
<1> DEFINE f == [Top EXCEPT !.done = IF result THEN "ok" ELSE "bad"]
<1>1. TopAt("transfer") /\ Top.it = h /\ InJobs(h) /\ Top.done = "no"
  BY DEF DataDone, InTransfer
<1>2. f.at = "transfer" /\ f.it = h /\ f.done = IF result THEN "ok" ELSE "bad"
  BY <1>1, TransferOnTop DEF TransferFrame
<1>4. CASE rh[h].client /\ ~rh[h].cancelled /\ result
  <2>1. stack' = SteppedCalling(f, ClientCall(h, "finish")) /\ Called(h, "finish")
    BY <1>4 DEF DataDone, SteppedCalling
  <2> HIDE DEF f
  <2>2. CallOf(ClientCall(h, "finish"))
    BY <1>1, <1>2, <1>4, <2>1, TransferMarks
  <2>3. QED
    BY <1>1, <1>4, <2>1, <2>2
<1>5. CASE ~(rh[h].client /\ ~rh[h].cancelled /\ result)
  <2>1. stack' = Becomes(f) /\ UNCHANGED hist
    BY <1>5 DEF DataDone
  <2> HIDE DEF f
  <2>2. Marked /\ Top' = f
    BY <1>1, <1>2, <2>1, TransferMarks
  <2>3. QED
    BY <1>1, <1>2, <1>5, <2>1, <2>2
<1>6. QED
  BY <1>4, <1>5

-----------------------------------------------------------------------------
(* One call of the client follows another.                                   *)

NextCall(cb, next) ==
  \/ cb = "response" /\ next = "data"
  \/ cb \in {"urlResponse", "urlData"} /\ next \in {"urlData", "urlDone"}

LEMMA CallsOn ==
  ASSUME IInv, IInv', Stacked, TopAt("client"), ~Top.brk, Top.it \in Handle,
         NEW next, NextCall(Top.cb, next), stack' = Becomes(ClientCall(Top.it, next))
  PROVE  /\ Height \in Nat /\ Height > 0 /\ Height' = Height /\ Agree(Height - 1)
         /\ Top' = ClientCall(Top.it, next) /\ stack'[Height] = ClientCall(Top.it, next)
         /\ Moved(Height - 1)
<1> DEFINE g == ClientCall(Top.it, next)
<1>1. stack # <<>> /\ Top.at = "client" /\ ~Brk(Top)
  BY DEF TopAt, Brk
<1>2. Touched(Top.it)
  BY <1>1, TopTypes DEF Touched, About
<1>3. Running(g) /\ Replaces(g, Top)
  <2>1. Running(g)
    BY <1>2, CallRuns
  <2>2. Replaces(g, Top)
    BY <1>1 DEF ClientCall, Replaces, CalledBy, Outermost, LoopAt, NextCall
  <2>3. QED
    BY <2>1, <2>2
<1> HIDE DEF g
<1>4. stack' = Becomes(g)
  BY DEF g
<1>5. /\ Height \in Nat /\ Height > 0 /\ Height' = Height /\ Agree(Height - 1)
      /\ stack'[Height] = g /\ Top' = g
  BY <1>1, <1>4, StepMoves, StackTypes
<1>6. Moved(Height - 1)
  BY <1>1, <1>3, <1>4, StepMoved
<1>7. QED
  BY <1>5, <1>6 DEF g

LEMMA ReturnFromResponseIs ==
  ASSUME IInv, IInv', Stacked, ReturnFromResponse
  PROVE  /\ TopAt("client") /\ ~Top.brk /\ Top.cb = "response" /\ Top.it \in Handle
         /\ \/ stack' = Return /\ UNCHANGED hist
            \/ /\ rh[Top.it].client /\ ~rh[Top.it].cancelled /\ Called(Top.it, "data")
               /\ stack' = Becomes(ClientCall(Top.it, "data"))
<1>1. TopAt("client") /\ ~Top.brk /\ Top.cb = "response"
  BY DEF ReturnFromResponse, Returning
<1>2. QED
  BY <1>1, ClientOnTop DEF ReturnFromResponse

-----------------------------------------------------------------------------
(* A breakpoint is hit and left.                                             *)

LEMMA BrkSteps ==
  ASSUME IInv, IInv', TopAt("client"), NEW b \in BOOLEAN, stack' = Becomes([Top EXCEPT !.brk = b])
  PROVE  /\ Height \in Nat /\ Height > 0 /\ Height' = Height /\ Agree(Height - 1)
         /\ Top' = stack'[Height] /\ Top = stack[Height]
         /\ Top'.at = "client" /\ Top'.it = Top.it /\ Top'.cb = Top.cb /\ Top'.view = Top.view
         /\ Top'.brk = b
<1> DEFINE f == [Top EXCEPT !.brk = b]
<1>1. stack # <<>> /\ Top.at = "client" /\ Top \in ClientFrame
  BY ClientOnTop DEF TopAt
<1>2. f.at = "client" /\ f.it = Top.it /\ f.cb = Top.cb /\ f.view = Top.view /\ f.brk = b
  BY <1>1 DEF ClientFrame
<1> HIDE DEF f
<1>3. /\ Height' = Height /\ Agree(Height - 1) /\ stack'[Height] = f /\ Top' = f
      /\ Height \in Nat /\ Height > 0 /\ Top = stack[Height]
  BY <1>1, StepMoves, StackTypes DEF f
<1>4. QED
  BY <1>2, <1>3

(* Only the frame on top of a stack may be a client that is not at a         *)
(* breakpoint.                                                               *)
LEMMA ClientBelow ==
  ASSUME IInv, Stacked, NEW i \in 1..Height, i < Height, stack[i].at = "client"
  PROVE  Brk(stack[i])
<1>1. Height \in Nat
  BY StackTypes
<1>2. i + 1 \in 2..Height /\ (i + 1) - 1 = i
  BY <1>1
<1>3. CalledBy(stack[i], stack[i + 1])
  BY <1>2 DEF Stacked
<1>4. QED
  BY <1>3 DEF CalledBy, Brk

LEMMA BrkKeepsStacked ==
  ASSUME IInv, IInv', Stacked, TopAt("client"), NEW b \in BOOLEAN,
         b => Broken = {} /\ Top.view \notin Inspector,
         stack' = Becomes([Top EXCEPT !.brk = b])
  PROVE  Stacked'
<1>1. /\ Height \in Nat /\ Height > 0 /\ Height' = Height /\ Agree(Height - 1)
      /\ Top' = stack'[Height] /\ Top = stack[Height] /\ Top.at = "client"
      /\ Top'.at = "client" /\ Top'.it = Top.it /\ Top'.cb = Top.cb /\ Top'.view = Top.view
      /\ Top'.brk = b
  BY BrkSteps DEF TopAt
<1>2. \A i \in 1..(Height - 1) : stack'[i] = stack[i]
  BY <1>1 DEF Agree
<1>3. Top.view \in View
  BY ClientOnTop
<1>4. Outermost(stack'[1])
  BY <1>1, <1>2 DEF Stacked, Outermost, LoopAt
<1>5. ASSUME NEW i \in 2..Height PROVE CalledBy(stack'[i - 1], stack'[i])
  <2>1. CalledBy(stack[i - 1], stack[i]) /\ stack'[i - 1] = stack[i - 1]
    BY <1>1, <1>2, <1>5 DEF Stacked
  <2>2. CASE i < Height
    BY <1>1, <1>2, <1>5, <2>1, <2>2
  <2>3. CASE i = Height
    BY <1>1, <2>1, <2>3 DEF CalledBy, LoopAt
  <2>4. QED
    BY <1>1, <2>2, <2>3
<1>6. \A i \in 1..Height : OwnView(stack'[i])
  BY <1>1, <1>2 DEF Stacked, OwnView
<1>7. ASSUME NEW i \in 1..Height, Brk(stack'[i])
      PROVE  stack'[i].view \in View \ Inspector /\ (b => i = Height) /\ (~b => i # Height /\ Brk(stack[i]))
  <2>1. CASE i < Height
    <3>1. Brk(stack[i]) /\ stack'[i] = stack[i]
      BY <1>1, <1>2, <1>7, <2>1
    <3>2. Broken # {}
      <4>1. stack[i].view \in View \ Inspector
        BY <3>1 DEF Stacked
      <4>2. stack[i].view \in Group(stack[i].view)
        BY <4>1 DEF Group
      <4>3. QED
        BY <3>1, <4>2, BrokenIs
    <3>3. QED
      BY <1>1, <2>1, <3>1, <3>2 DEF Stacked
  <2>2. CASE i = Height
    BY <1>1, <1>3, <1>7, <2>2 DEF Brk
  <2>3. QED
    BY <1>1, <2>1, <2>2
<1>8. \A i, j \in 1..Height : Brk(stack'[i]) /\ Brk(stack'[j]) => i = j
  BY <1>7 DEF Stacked
<1>9. QED
  BY <1>1, <1>4, <1>5, <1>6, <1>7, <1>8 DEF Stacked

-----------------------------------------------------------------------------
(* Every step moves the stack.                                               *)

LEMMA CallMoving == ASSUME NEW g, CallOf(g) PROVE \E m : Moved(m)
BY DEF CallOf

LEMMA CalmMoving == ASSUME Calm PROVE \E m : Moved(m)
BY DEF Calm

LEMMA LoopCalm == ASSUME IInv, IInv', Stacked, LoopSteps PROVE Calm
<1>1. CASE StartDone
  BY <1>1, StartDoneCalm
<1>2. CASE RestartDone
  BY <1>2, ReturnsCalm DEF RestartDone, TopAt, LoopAt
<1>3. CASE RunDone
  BY <1>3, RunDoneCalm
<1>4. CASE RemoveDone
  BY <1>4, RemoveDoneCalm
<1>5. CASE ProcessJobsDone
  BY <1>5, ProcessJobsDoneCalm
<1>6. CASE HandlerRemoved
  BY <1>6, ReturnsCalm DEF HandlerRemoved, TopAt, LoopAt
<1>7. CASE PageDeleted
  BY <1>7, ReturnsCalm DEF PageDeleted, TopAt, LoopAt
<1>8. QED
  BY <1>1, <1>2, <1>3, <1>4, <1>5, <1>6, <1>7 DEF LoopSteps

(* The steps of the two loops of ProcessJobs that go on to the next job.     *)
AdvanceSteps(h) ==
  \/ CondemnCancelled(h) \/ SkipPaused(h) \/ CallHandler(h) \/ CondemnAgain(h)
  \/ KeepJob(h) \/ RemoveJob(h)

LEMMA AdvanceIs ==
  ASSUME IInv, IInv', Stacked, NEW h \in Handle, AdvanceSteps(h)
  PROVE  /\ Calm /\ Height' = Height /\ Agree(Height - 1) /\ stack # <<>>
         /\ Top.at = IF KeepJob(h) \/ RemoveJob(h) THEN "remove" ELSE "run"
         /\ Top'.at = Top.at /\ Top'.src = Top.src /\ Top'.it = JobAfter(Top.it)
         /\ Top.it = h /\ InJobs(h)
<1>1. stack' = Advance /\ Top.it = h /\ InJobs(h)
  BY DEF AdvanceSteps, CondemnCancelled, SkipPaused, CallHandler, CondemnAgain, KeepJob, RemoveJob,
     AtState, AtJob, AtRemove
<1>2. TopAt(IF KeepJob(h) \/ RemoveJob(h) THEN "remove" ELSE "run")
  BY DEF AdvanceSteps, CondemnCancelled, SkipPaused, CallHandler, CondemnAgain, KeepJob, RemoveJob,
     AtState, AtJob, AtRemove
<1>3. QED
  BY <1>1, <1>2, Advanced DEF TopAt

ReturnSteps ==
  \/ ReturnFromResponse /\ stack' = Return
  \/ ReturnFromHeaders \/ ReturnFromCall
  \/ ReturnFromVerdict \/ ReturnFromRefused \/ ReturnFromURLDone

LEMMA ReturnStepsCalm ==
  ASSUME IInv, IInv', ReturnSteps
  PROVE  /\ Calm /\ Height' = Height - 1 /\ Agree(Height - 1)
         /\ TopAt("client") /\ ~Top.brk
<1>1. TopAt("client") /\ ~Top.brk /\ stack' = Return
  BY DEF ReturnSteps, ReturnFromResponse, ReturnFromHeaders, ReturnFromCall, ReturnFromVerdict,
     ReturnFromRefused, ReturnFromURLDone, Returning
<1>2. QED
  BY <1>1, ReturnsCalm DEF TopAt

(* handleDataURL and DataReceived call on.                                   *)
CallsNext(next) ==
  /\ TopAt("client") /\ ~Top.brk /\ Top.it \in Handle /\ NextCall(Top.cb, next)
  /\ stack' = Becomes(ClientCall(Top.it, next)) /\ Called(Top.it, next)

LEMMA NextURLCallIs ==
  ASSUME IInv, NextURLCall
  PROVE  Top.cb \in {"urlResponse", "urlData"} /\ \E next \in {"urlData", "urlDone"} : CallsNext(next)
<1>1. TopAt("client") /\ ~Top.brk /\ Top.cb \in {"urlResponse", "urlData"}
  BY DEF NextURLCall, Returning
<1>2. PICK cb \in {"urlData", "urlDone"} :
        stack' = Becomes(ClientCall(Top.it, cb)) /\ Called(Top.it, cb)
  BY DEF NextURLCall
<1>3. QED
  BY <1>1, <1>2, ClientOnTop DEF CallsNext, NextCall

LEMMA ClientReturnsIs ==
  ASSUME IInv, IInv', Stacked, ClientReturns
  PROVE  \/ ReturnSteps
         \/ ReturnFromResponse /\ CallsNext("data") /\ rh[Top.it].client /\ ~rh[Top.it].cancelled
         \/ NextURLCall
BY ReturnFromResponseIs DEF ClientReturns, ReturnSteps, CallsNext, NextCall

LEMMA NextMoved ==
  ASSUME IInv, IInv', Stacked, [Next]_vars
  PROVE  Break \/ Resume \/ \E m : Moved(m)
<1>1. CASE UNCHANGED vars
  BY <1>1, StaysMoved DEF vars
<1>2. CASE Environment
  <2>1. ASSUME NEW h \in Handle, Add(h) \/ Cancel(h) PROVE \E m : Moved(m)
    BY <2>1, StaysMoved DEF Add, Cancel
  <2>2. ASSUME NEW h \in Handle, HeadersReceived(h) PROVE \E m : Moved(m)
    BY <2>2, HeadersReceivedIs, CallMoving, CalmMoving
  <2>3. ASSUME NEW v \in View, RunScript(v) PROVE \E m : Moved(m)
    BY <2>3, RunScriptIs, CallMoving
  <2>4. ASSUME NEW v \in View, ShutdownView(v) PROVE \E m : Moved(m)
    BY <2>4, PurgeCalm, CalmMoving DEF ShutdownView
  <2>5. ASSUME Tick \/ TimerFires PROVE \E m : Moved(m)
    BY <2>5, TickCalm, CalmMoving
  <2>6. ASSUME RemoveTransportHandler PROVE \E m : Moved(m)
    BY <2>6, PurgeCalm, CalmMoving DEF RemoveTransportHandler
  <2>7. QED
    BY <1>2, <2>1, <2>2, <2>3, <2>4, <2>5, <2>6 DEF Environment
<1>3. CASE ClientReturns
  <2>1. CASE ReturnSteps
    BY <2>1, ReturnStepsCalm, CalmMoving
  <2>2. ASSUME NEW next, CallsNext(next) PROVE \E m : Moved(m)
    BY <2>2, CallsOn DEF CallsNext
  <2>3. QED
    BY <1>3, <2>1, <2>2, ClientReturnsIs, NextURLCallIs
<1>4. CASE LoopSteps
  BY <1>4, LoopCalm, CalmMoving
<1>5. ASSUME NEW h \in Handle, JobSteps(h) PROVE \E m : Moved(m)
  <2>1. CASE StartDataURL(h)
    BY <2>1, StartDataURLIs, CallMoving
  <2>2. CASE StartJob(h)
    BY <2>2, StartJobCalm, CalmMoving
  <2>3. CASE StartRefused(h)
    BY <2>3, StartRefusedIs, CallMoving
  <2>4. CASE CallTransfer(h)
    BY <2>4, CallTransferIs, CallMoving
  <2>5. CASE NotifyJobFailed(h)
    BY <2>5, NotifyJobFailedIs, CallMoving DEF Marked
  <2>6. CASE PageCancels(h)
    BY <2>6, StaysMoved DEF PageCancels
  <2>7. CASE AdvanceSteps(h)
    BY <2>7, AdvanceIs, CalmMoving
  <2>8. QED
    BY <1>5, <2>1, <2>2, <2>3, <2>4, <2>5, <2>6, <2>7 DEF JobSteps, AdvanceSteps
<1>6. ASSUME NEW h \in Handle, TransferSteps(h) PROVE \E m : Moved(m)
  <2>1. CASE DataReceived(h)
    BY <2>1, DataReceivedIs, CallMoving DEF Marked
  <2>2. ASSUME NEW result \in BOOLEAN, DataDone(h, result) PROVE \E m : Moved(m)
    BY <2>2, DataDoneIs, CallMoving DEF Marked
  <2>3. CASE TransferEnds(h)
    BY <2>3, TransferEndsIs, CalmMoving
  <2>4. QED
    BY <1>6, <2>1, <2>2, <2>3 DEF TransferSteps
<1>7. QED
  BY <1>1, <1>2, <1>3, <1>4, <1>5, <1>6 DEF Next, Environment

LEMMA NextStacked == ASSUME IInv, IInv', Stacked, [Next]_vars PROVE Stacked'
<1>1. CASE Break
  BY <1>1, BrkKeepsStacked DEF Break, ScriptRuns
<1>2. CASE Resume
  BY <1>2, BrkKeepsStacked DEF Resume
<1>3. ASSUME NEW m, Moved(m) PROVE Stacked'
  BY <1>3, MovedKeepsStacked
<1>4. QED
  BY <1>1, <1>2, <1>3, NextMoved

(* Who may have called whom, at most one breakpoint at a time, and that one  *)
(* in a page that is not the inspector's: every activation on the stack was  *)
(* called by one that makes such calls, at the point where it makes them.    *)
THEOREM CallersRight == Spec => []Stacked
<1>1. Init => Stacked
  BY DEF Init, Stacked, Height
<1>2. IInv /\ IInv' /\ Stacked /\ [Next]_vars => Stacked'
  BY NextStacked
<1>3. QED
  BY <1>1, <1>2, Invariance, PTL DEF Spec

-----------------------------------------------------------------------------
(* The queue.  A handle that has not been taken off it yet is unknown to the *)
(* rest of the manager; one whose client has given it up is either marked    *)
(* cancelled or known to nobody any more.                                    *)

Begun(h) == h \in loaded /\ ~Waiting(h)
Untouched(h) == rh[h].client /\ ~rh[h].cancelled /\ h \notin gaveUp /\ verdicts[h] = 0 /\ ~Touched(h)

Queued ==
  /\ QueuedOnce
  /\ \A h \in Handle : Waiting(h) => h \in loaded
  /\ \A h \in Handle : ~Begun(h) => Untouched(h)
  /\ \A h \in gaveUp : rh[h].cancelled \/ ~Touched(h)

LEMMA QueueIs ==
  /\ QueuedOnce <=> /\ Distinct(pending) /\ Distinct(jobs)
                    /\ \A h \in Handle : ~(Waiting(h) /\ InJobs(h))
  /\ \A h : (Waiting(h) <=> In(h, pending)) /\ (InJobs(h) <=> In(h, jobs))
BY DEF QueuedOnce, Distinct, Waiting, InJobs, In

LEMMA NextQueueIs ==
  /\ QueuedOnce' <=> /\ Distinct(pending') /\ Distinct(jobs')
                     /\ \A h \in Handle : ~(Waiting(h)' /\ InJobs(h)')
  /\ \A h : (Waiting(h)' <=> In(h, pending')) /\ (InJobs(h)' <=> In(h, jobs'))
BY DEF QueuedOnce, Distinct, Waiting, InJobs, In

LEMMA CalmNames ==
  ASSUME IInv, IInv', Calm, NEW h \in Handle, Touched(h)', InJobs(h)' => InJobs(h)
  PROVE  Touched(h)
<1>1. CASE InJobs(h)'
  BY <1>1 DEF Touched
<1>2. ASSUME NEW i \in 1..Height', About(stack'[i], h) PROVE Touched(h)
  BY <1>2 DEF Calm, NothingNew, About, LoopAt, Touched
<1>3. QED
  BY <1>1, <1>2 DEF Touched

LEMMA MovedNames ==
  ASSUME IInv, IInv', \E m : Moved(m), ~Starting, NEW h \in Handle, Touched(h)', UNCHANGED jobs
  PROVE  Touched(h)
<1>1. CASE InJobs(h)'
  BY <1>1 DEF Touched, InJobs
<1>2. ASSUME NEW i \in 1..Height', About(stack'[i], h) PROVE Touched(h)
  BY <1>2, MovedKeepsNames DEF Taken
<1>3. QED
  BY <1>1, <1>2 DEF Touched

(* A step that leaves the queue alone, and touches no handle anew.           *)
LEMMA QueueQuiet ==
  ASSUME IInv, IInv', Queued, UNCHANGED <<pending, loaded, gaveUp>>,
         Distinct(jobs'),
         \A h \in Handle : Touched(h)' => Touched(h),
         \A h \in Handle : rh[h].cancelled => rh'[h].cancelled,
         \A h \in Handle : ~Touched(h) => /\ rh'[h].client = rh[h].client
                                         /\ rh'[h].cancelled = rh[h].cancelled
                                         /\ verdicts'[h] = verdicts[h]
  PROVE  Queued'
<1>1. \A h \in Handle : Waiting(h)' <=> Waiting(h)
  BY DEF Waiting
<1>2. ASSUME NEW h \in Handle, ~Begun(h)' PROVE Untouched(h)' /\ ~Touched(h)
  <2>1. Untouched(h)
    BY <1>1, <1>2 DEF Queued, Begun
  <2>2. QED
    BY <2>1 DEF Untouched
<1>3. ASSUME NEW h \in Handle PROVE ~(Waiting(h)' /\ InJobs(h)')
  <2>1. InJobs(h)' => Touched(h)'
    BY DEF Touched
  <2>2. Waiting(h)' => ~Begun(h)'
    BY DEF Begun
  <2>3. QED
    BY <1>2, <2>1, <2>2
<1>4. QueuedOnce'
  BY <1>3, QueueIs, NextQueueIs DEF Queued
<1>5. \A h \in Handle : Waiting(h)' => h \in loaded'
  BY <1>1 DEF Queued
<1>6. \A h \in gaveUp' : rh'[h].cancelled \/ ~Touched(h)'
  <2>1. gaveUp \subseteq Handle
    BY DEF IInv, DataOK
  <2>2. QED
    BY <2>1 DEF Queued
<1>7. QED
  BY <1>2, <1>4, <1>5, <1>6 DEF Queued

LEMMA AppendedOnce ==
  ASSUME IInv, NEW h \in Handle, Distinct(jobs), ~In(h, jobs), jobs' = Append(jobs, h)
  PROVE  Distinct(jobs') /\ \A x : In(x, jobs') <=> In(x, jobs) \/ x = h
<1>1. jobs \in Seq(Handle)
  BY DEF IInv, DataOK
<1>2. \A t : t = Append(jobs, h) => Distinct(t) /\ \A x : In(x, t) <=> In(x, jobs) \/ x = h
  BY <1>1, AppendDistinct
<1>3. QED
  BY <1>2

(* A handle is taken off the queue.                                          *)
LEMMA QueueTakes ==
  ASSUME IInv, IInv', Queued, NEW h \in Handle, pending # <<>>, h = Head(pending),
         UNCHANGED <<loaded, gaveUp, rh>>, pending' = Tail(pending),
         jobs' = jobs \/ jobs' = Append(jobs, h),
         \A x \in Handle \ {h} : Touched(x)' => Touched(x),
         \A x \in Handle \ {h} : verdicts'[x] = verdicts[x]
  PROVE  Queued'
<1>1. pending \in Seq(Handle) /\ jobs \in Seq(Handle) /\ Distinct(pending) /\ Distinct(jobs)
      /\ gaveUp \subseteq Handle
  BY QueueIs DEF IInv, DataOK, Queued
<1>2. Distinct(pending') /\ \A x : In(x, pending') <=> In(x, pending) /\ x # h
  BY <1>1, TailDistinct
<1>3. Waiting(h)
  <2>1. 1 \in DOMAIN pending /\ pending[1] = h
    BY <1>1
  <2>2. QED
    BY <2>1 DEF Waiting
<1>4. Untouched(h) /\ ~InJobs(h)
  BY <1>3 DEF Queued, Begun, Untouched, Touched
<1>5. Distinct(jobs') /\ \A x : In(x, jobs') => In(x, jobs) \/ x = h
  <2>1. CASE jobs' = jobs
    BY <1>1, <2>1
  <2>2. CASE jobs' = Append(jobs, h)
    <3>1. ~In(h, jobs)
      BY <1>4, QueueIs
    <3>2. QED
      BY <1>1, <2>2, <3>1, AppendedOnce
  <2>3. QED
    BY <2>1, <2>2
<1>6. \A x \in Handle : Waiting(x)' <=> Waiting(x) /\ x # h
  BY <1>2, QueueIs, NextQueueIs
<1>7. \A x \in Handle : InJobs(x)' => InJobs(x) \/ x = h
  BY <1>5, QueueIs, NextQueueIs
<1>8. QueuedOnce'
  <2>1. \A x \in Handle : ~(Waiting(x) /\ InJobs(x))
    BY QueueIs DEF Queued
  <2>2. QED
    BY <1>2, <1>5, <1>6, <1>7, <2>1, NextQueueIs
<1>9. \A x \in Handle : Waiting(x)' => x \in loaded'
  BY <1>6 DEF Queued
<1>10. ASSUME NEW x \in Handle, ~Begun(x)' PROVE Untouched(x)'
  <2>1. x # h
    BY <1>3, <1>6, <1>10 DEF Begun, Queued
  <2>2. Untouched(x)
    BY <1>6, <1>10, <2>1 DEF Begun, Queued
  <2>3. QED
    BY <2>1, <2>2 DEF Untouched
<1>11. \A x \in gaveUp' : rh'[x].cancelled \/ ~Touched(x)'
  BY <1>1, <1>4 DEF Queued, Untouched
<1>12. QED
  BY <1>8, <1>9, <1>10, <1>11 DEF Queued

LEMMA AddQueues == ASSUME IInv, IInv', Queued, NEW h \in Handle, Add(h) PROVE Queued'
<1>1. pending \in Seq(Handle) /\ Distinct(pending) /\ gaveUp \subseteq Handle /\ h \notin loaded
      /\ \A x \in Handle : ~(Waiting(x) /\ InJobs(x))
  BY QueueIs DEF IInv, DataOK, Queued, Add
<1>2. /\ pending' = Append(pending, h) /\ loaded' = loaded \cup {h}
      /\ UNCHANGED <<jobs, stack, rh, gaveUp, verdicts>>
  BY DEF Add
<1>3. ~Waiting(h) /\ Untouched(h) /\ ~InJobs(h)
  BY <1>1 DEF Queued, Begun, Untouched, Touched
<1>4. Distinct(pending') /\ \A x : In(x, pending') <=> In(x, pending) \/ x = h
  <2>1. ~In(h, pending)
    BY <1>3, QueueIs
  <2>2. \A t : t = Append(pending, h) => Distinct(t) /\ \A x : In(x, t) <=> In(x, pending) \/ x = h
    BY <1>1, <2>1, AppendDistinct
  <2>3. QED
    BY <1>2, <2>2
<1>5. \A x \in Handle : Waiting(x)' <=> Waiting(x) \/ x = h
  BY <1>4, QueueIs, NextQueueIs
<1>6. \A x \in Handle : (InJobs(x)' <=> InJobs(x)) /\ (Touched(x)' <=> Touched(x))
                        /\ (Untouched(x)' <=> Untouched(x))
  BY <1>2 DEF InJobs, Touched, Untouched, Height
<1>7. QueuedOnce'
  <2>1. Distinct(jobs')
    BY <1>2, QueueIs DEF Queued
  <2>2. QED
    BY <1>1, <1>3, <1>4, <1>5, <1>6, <2>1, NextQueueIs
<1>8. QED
  BY <1>1, <1>2, <1>3, <1>5, <1>6, <1>7 DEF Queued, Begun, Untouched

LEMMA CancelHandleQueues ==
  ASSUME IInv, IInv', Queued, NEW h \in Handle, CancelHandle(h), Holds(h),
         UNCHANGED <<jobs, stack, loaded, verdicts>>
  PROVE  Queued'
<1>1. pending \in Seq(Handle) /\ Distinct(pending) /\ Distinct(jobs) /\ gaveUp \subseteq Handle
      /\ h \in loaded /\ \A x \in Handle : ~(Waiting(x) /\ InJobs(x))
  BY QueueIs DEF IInv, DataOK, Queued, Holds
<1>2. \A x \in Handle : (InJobs(x)' <=> InJobs(x)) /\ (Touched(x)' <=> Touched(x))
  BY DEF InJobs, Touched, Height
<1>3. gaveUp' = gaveUp \cup {h}
  BY DEF CancelHandle
<1>4. CASE ~Waiting(h)
  <2>1. /\ rh' = [rh EXCEPT ![h].cancelled = TRUE] /\ pending' = pending
    BY <1>4 DEF CancelHandle, Waiting
  <2>2. rh \in [Handle -> ResourceHandle]
    BY DEF IInv, DataOK
  <2>3. rh'[h].cancelled
    BY <2>1, <2>2 DEF ResourceHandle
  <2>4. \A x \in Handle \ {h} : rh'[x] = rh[x]
    BY <2>1, <2>2
  <2>5. \A x \in Handle : Waiting(x)' <=> Waiting(x)
    BY <2>1 DEF Waiting
  <2>6. Begun(h)'
    BY <1>1, <1>4, <2>5 DEF Begun
  <2>7. QueuedOnce'
    BY <1>1, <1>2, <2>1, <2>5, NextQueueIs
  <2>8. ASSUME NEW x \in Handle, ~Begun(x)' PROVE Untouched(x)'
    <3>1. x # h /\ Untouched(x)
      BY <2>5, <2>6, <2>8 DEF Queued, Begun
    <3>2. QED
      BY <1>2, <1>3, <2>4, <3>1 DEF Untouched
  <2>9. \A x \in gaveUp' : rh'[x].cancelled \/ ~Touched(x)'
    BY <1>1, <1>2, <1>3, <2>3, <2>4 DEF Queued
  <2>10. QED
    BY <2>5, <2>7, <2>8, <2>9 DEF Queued
<1>5. CASE Waiting(h)
  <2>1. PICK i \in DOMAIN pending : pending[i] = h /\ pending' = RemoveAt(pending, i) /\ UNCHANGED rh
    BY <1>5 DEF CancelHandle, Waiting
  <2>2. Distinct(pending') /\ \A x : In(x, pending') <=> In(x, pending) /\ x # h
    <3>1. i \in 1..Len(pending)
      BY <1>1
    <3>2. \A t : t = RemoveAt(pending, i) => Distinct(t) /\ \A x : In(x, t) <=> In(x, pending) /\ x # pending[i]
      BY <1>1, <3>1, RemoveAtDistinct
    <3>3. QED
      BY <2>1, <3>2
  <2>3. \A x \in Handle : Waiting(x)' <=> Waiting(x) /\ x # h
    BY <2>2, QueueIs, NextQueueIs
  <2>4. Untouched(h)
    BY <1>5 DEF Queued, Begun
  <2>5. QueuedOnce'
    BY <1>1, <1>2, <2>2, <2>3, NextQueueIs
  <2>6. ASSUME NEW x \in Handle, ~Begun(x)' PROVE Untouched(x)'
    <3>1. x # h /\ Untouched(x)
      BY <1>1, <2>3, <2>6 DEF Queued, Begun
    <3>2. QED
      BY <1>2, <1>3, <2>1, <3>1 DEF Untouched
  <2>7. \A x \in gaveUp' : rh'[x].cancelled \/ ~Touched(x)'
    BY <1>1, <1>2, <1>3, <2>1, <2>4 DEF Queued, Untouched
  <2>8. QED
    BY <2>3, <2>5, <2>6, <2>7 DEF Queued
<1>6. QED
  BY <1>4, <1>5

(* The handle a call is about is the only one whose verdicts change.         *)
LEMMA CalledIs ==
  ASSUME IInv, NEW h \in Handle, NEW cb, Called(h, cb)
  PROVE  /\ UNCHANGED <<loaded, gaveUp, open>>
         /\ \A x \in Handle \ {h} : verdicts'[x] = verdicts[x]
BY DEF Called, IInv, DataOK

LEMMA QueueCalm ==
  ASSUME IInv, IInv', Queued, Calm, UNCHANGED <<pending, jobs, loaded, gaveUp, verdicts, rh>>
  PROVE  Queued'
<1>1. \A h \in Handle : Touched(h)' => Touched(h)
  BY CalmNames DEF InJobs
<1>2. Distinct(jobs')
  BY QueueIs DEF Queued
<1>3. QED
  BY <1>1, <1>2, QueueQuiet

(* A step that works for h, which is known already.                          *)
LEMMA QueueWorks ==
  ASSUME IInv, IInv', Queued, \E m : Moved(m), ~Starting, NEW h \in Handle, Touched(h),
         UNCHANGED <<pending, jobs, loaded, gaveUp>>,
         rh[h].cancelled => rh'[h].cancelled,
         \A x \in Handle \ {h} : rh'[x] = rh[x] /\ verdicts'[x] = verdicts[x]
  PROVE  Queued'
<1>1. \A x \in Handle : Touched(x)' => Touched(x)
  BY MovedNames
<1>2. Distinct(jobs')
  BY QueueIs DEF Queued
<1>3. QED
  BY <1>1, <1>2, QueueQuiet

(* A job leaves the list.                                                    *)
LEMMA QueueLeaves ==
  ASSUME IInv, IInv', Queued, Calm, NEW h \in Handle, Touched(h),
         UNCHANGED <<pending, loaded, gaveUp, verdicts>>,
         rh[h].cancelled => rh'[h].cancelled,
         \A x \in Handle \ {h} : rh'[x] = rh[x],
         Distinct(jobs'), \A x : In(x, jobs') => In(x, jobs)
  PROVE  Queued'
<1>1. \A x \in Handle : InJobs(x)' => InJobs(x)
  BY QueueIs, NextQueueIs
<1>2. \A x \in Handle : Touched(x)' => Touched(x)
  BY <1>1, CalmNames
<1>3. QED
  BY <1>2, QueueQuiet

LEMMA LetGoIs ==
  ASSUME IInv, NEW h \in Handle, LetGo(h)
  PROVE  /\ \A x \in Handle \ {h} : rh'[x] = rh[x]
         /\ rh'[h].cancelled = rh[h].cancelled /\ rh'[h].defers = rh[h].defers
         /\ rh'[h].client => rh[h].client
BY DEF LetGo, IInv, DataOK, ResourceHandle

LEMMA FiredIs ==
  ASSUME IInv, NEW h \in Handle, rh' = [rh EXCEPT ![h].fired = TRUE]
  PROVE  /\ \A x \in Handle \ {h} : rh'[x] = rh[x]
         /\ rh'[h].cancelled = rh[h].cancelled /\ rh'[h].defers = rh[h].defers
         /\ rh'[h].client = rh[h].client
BY DEF IInv, DataOK, ResourceHandle

LEMMA RemoveJobIs ==
  ASSUME IInv, Distinct(jobs), NEW h \in Handle, RemoveJob(h)
  PROVE  /\ Distinct(jobs') /\ \A x : In(x, jobs') <=> In(x, jobs) /\ x # h
         /\ Position(h) \in 1..Len(jobs) /\ jobs[Position(h)] = h
<1>1. jobs \in Seq(Handle) /\ InJobs(h)
  BY DEF IInv, DataOK, RemoveJob, AtRemove
<1>2. Position(h) \in DOMAIN jobs /\ jobs[Position(h)] = h
  BY <1>1 DEF InJobs, Position
<1>3. Position(h) \in 1..Len(jobs)
  BY <1>1, <1>2
<1>4. \A t : t = RemoveAt(jobs, Position(h))
               => Distinct(t) /\ \A x : In(x, t) <=> In(x, jobs) /\ x # jobs[Position(h)]
  BY <1>1, <1>3, RemoveAtDistinct
<1>5. jobs' = RemoveAt(jobs, Position(h))
  BY DEF RemoveJob
<1>6. QED
  BY <1>2, <1>3, <1>4, <1>5

LEMMA ReturnFromRefusedIs ==
  ASSUME IInv, Distinct(jobs), ReturnFromRefused
  PROVE  /\ Distinct(jobs') /\ \A x : In(x, jobs') <=> In(x, jobs) /\ x # Last(jobs)
         /\ jobs # <<>> /\ jobs' = Front(jobs)
         /\ TopAt("client") /\ Top.cb = "refused" /\ Top.it \in Handle /\ LetGo(Top.it)
<1>1. jobs \in Seq(Handle) /\ jobs # <<>> /\ jobs' = Front(jobs)
  BY DEF IInv, DataOK, ReturnFromRefused
<1>2. \A t : t = Front(jobs) => Distinct(t) /\ \A x : In(x, t) <=> In(x, jobs) /\ x # Last(jobs)
  BY <1>1, FrontDistinct
<1>3. TopAt("client") /\ Top.cb = "refused" /\ LetGo(Top.it)
  BY DEF ReturnFromRefused, Returning
<1>4. QED
  BY <1>1, <1>2, <1>3, ClientOnTop

LEMMA TopTouched ==
  ASSUME IInv, TopAt("client"), Top.it \in Handle
  PROVE  Touched(Top.it) /\ ~Starting
BY TopTypes DEF Touched, About, TopAt, Starting

LEMMA StartNames ==
  ASSUME IInv, IInv', \E m : Moved(m), NEW h \in Handle, Taken(h),
         jobs' = jobs \/ jobs' = Append(jobs, h), NEW x \in Handle \ {h}, Touched(x)'
  PROVE  Touched(x)
<1>1. CASE InJobs(x)'
  <2>1. jobs \in Seq(Handle)
    BY DEF IInv, DataOK
  <2>2. InJobs(x)
    BY <1>1, <2>1 DEF InJobs
  <2>3. QED
    BY <2>2 DEF Touched
<1>2. ASSUME NEW i \in 1..Height', About(stack'[i], x) PROVE Touched(x)
  BY <1>2, MovedKeepsNames DEF Taken
<1>3. QED
  BY <1>1, <1>2 DEF Touched

LEMMA StartsQueue ==
  ASSUME IInv, IInv', Queued, \E m : Moved(m), NEW h \in Handle, Taken(h),
         jobs' = jobs \/ jobs' = Append(jobs, h), pending' = Tail(pending),
         UNCHANGED <<rh, loaded, gaveUp>>,
         \A x \in Handle \ {h} : verdicts'[x] = verdicts[x]
  PROVE  Queued'
<1>1. \A x \in Handle \ {h} : Touched(x)' => Touched(x)
  BY StartNames
<1>2. QED
  BY <1>1, QueueTakes DEF Taken

(* A breakpoint.                                                             *)
LEMMA BrkQueues ==
  ASSUME IInv, IInv', Queued, TopAt("client"), NEW b \in BOOLEAN, Defer(Group(Top.view), b),
         stack' = Becomes([Top EXCEPT !.brk = b]), UNCHANGED <<pending, jobs, hist>>
  PROVE  Queued'
<1>1. /\ Height \in Nat /\ Height > 0 /\ Height' = Height /\ Agree(Height - 1)
      /\ Top' = stack'[Height] /\ Top = stack[Height]
      /\ Top'.at = "client" /\ Top'.it = Top.it /\ Top.at = "client"
  BY BrkSteps DEF TopAt
<1>2. ASSUME NEW h \in Handle, Touched(h)' PROVE Touched(h)
  <2>1. \A i \in 1..Height : About(stack'[i], h) => About(stack[i], h)
    <3>1. \A i \in 1..Height : i \in 1..(Height - 1) \/ i = Height
      BY <1>1
    <3>2. QED
      BY <1>1, <3>1 DEF About, Agree
  <2>2. InJobs(h)' => InJobs(h)
    BY DEF InJobs
  <2>3. QED
    BY <1>1, <1>2, <2>1, <2>2 DEF Touched
<1>3. \A h \in Handle : rh'[h].client = rh[h].client /\ rh'[h].cancelled = rh[h].cancelled
  <2>1. \A h \in Handle : rh'[h] = rh[h] \/ rh'[h] = [rh[h] EXCEPT !.defers = b]
    BY DEF Defer
  <2>2. \A h \in Handle : rh[h] \in ResourceHandle
    BY DEF IInv, DataOK
  <2>3. QED
    BY <2>1, <2>2 DEF ResourceHandle
<1>4. Distinct(jobs')
  BY QueueIs DEF Queued
<1>5. QED
  BY <1>2, <1>3, <1>4, QueueQuiet DEF hist

LEMMA HeadersReceivedQueues ==
  ASSUME IInv, IInv', Stacked, Queued, NEW h \in Handle, HeadersReceived(h) PROVE Queued'
<1>1. Touched(h) /\ ~Starting /\ UNCHANGED <<pending, jobs>>
  BY StackTypes DEF HeadersReceived, Touched, Starting, AppRuns, Idle, TopAt
<1>2. \E m : Moved(m)
  BY HeadersReceivedIs, CallMoving, CalmMoving
<1>3. UNCHANGED <<loaded, gaveUp>> /\ \A x \in Handle \ {h} : verdicts'[x] = verdicts[x]
  BY HeadersReceivedIs, CalledIs DEF hist
<1>4. rh'[h].cancelled = rh[h].cancelled /\ \A x \in Handle \ {h} : rh'[x] = rh[x]
  <2>1. PICK r, f : rh' = [rh EXCEPT ![h].headers = r, ![h].fired = f]
    BY DEF HeadersReceived
  <2>2. QED
    BY <2>1 DEF IInv, DataOK, ResourceHandle
<1>5. QED
  BY <1>1, <1>2, <1>3, <1>4, QueueWorks

LEMMA EnvironmentQueues ==
  ASSUME IInv, IInv', Stacked, Queued, Environment PROVE Queued'
<1>1. ASSUME NEW h \in Handle, Add(h) PROVE Queued'
  BY <1>1, AddQueues
<1>2. ASSUME NEW h \in Handle, Cancel(h) PROVE Queued'
  BY <1>2, CancelHandleQueues DEF Cancel
<1>3. ASSUME NEW h \in Handle, HeadersReceived(h) PROVE Queued'
  BY <1>3, HeadersReceivedQueues
<1>4. ASSUME NEW v \in View, RunScript(v) PROVE Queued'
  <2>1. \E m : Moved(m)
    BY <1>4, RunScriptIs, CallMoving
  <2>2. ~Starting /\ UNCHANGED <<pending, jobs, rh, hist>>
    BY <1>4 DEF RunScript, Idle, Starting, TopAt
  <2>3. \A x \in Handle : Touched(x)' => Touched(x)
    BY <2>1, <2>2, MovedNames
  <2>4. Distinct(jobs')
    BY <2>2, QueueIs DEF Queued
  <2>5. QED
    BY <2>2, <2>3, <2>4, QueueQuiet DEF hist
<1>5. ASSUME NEW v \in View, ShutdownView(v) PROVE Queued'
  BY <1>5, PurgeCalm, QueueCalm DEF ShutdownView, Purge, hist
<1>6. CASE Break
  BY <1>6, BrkQueues DEF Break, ScriptRuns
<1>7. CASE Resume
  BY <1>7, BrkQueues DEF Resume
<1>8. CASE Tick \/ TimerFires
  BY <1>8, TickCalm, QueueCalm DEF Tick, TimerFires, hist
<1>9. CASE RemoveTransportHandler
  BY <1>9, PurgeCalm, QueueCalm DEF RemoveTransportHandler, Purge, hist
<1>10. QED
  BY <1>1, <1>2, <1>3, <1>4, <1>5, <1>6, <1>7, <1>8, <1>9 DEF Environment

LEMMA ClientReturnsQueues ==
  ASSUME IInv, IInv', Stacked, Queued, ClientReturns PROVE Queued'
<1>0. Distinct(jobs)
  BY QueueIs DEF Queued
<1>1. CASE ReturnFromResponse
  <2>1. TopAt("client") /\ Top.it \in Handle
    BY <1>1, ReturnFromResponseIs
  <2>2. Touched(Top.it) /\ ~Starting
    BY <2>1, TopTouched
  <2>3. \E m : Moved(m)
    <3>1. ReturnSteps \/ CallsNext("data")
      BY <1>1, ReturnFromResponseIs DEF ReturnSteps, CallsNext, NextCall
    <3>2. QED
      BY <3>1, ReturnStepsCalm, CalmMoving, CallsOn DEF CallsNext
  <2>4. UNCHANGED <<loaded, gaveUp>> /\ \A x \in Handle \ {Top.it} : verdicts'[x] = verdicts[x]
    BY <1>1, ReturnFromResponseIs, CalledIs DEF hist
  <2>5. QED
    BY <1>1, <2>1, <2>2, <2>3, <2>4, FiredIs, QueueWorks DEF ReturnFromResponse
<1>2. CASE ReturnFromHeaders \/ ReturnFromVerdict \/ ReturnFromURLDone
  <2>1. TopAt("client") /\ Top.it \in Handle
    BY <1>2, ClientOnTop DEF ReturnFromHeaders, ReturnFromVerdict, ReturnFromURLDone, Returning
  <2>2. Touched(Top.it) /\ ~Starting
    BY <2>1, TopTouched
  <2>3. \E m : Moved(m)
    BY <1>2, ReturnStepsCalm, CalmMoving DEF ReturnSteps
  <2>4. rh'[Top.it].cancelled = rh[Top.it].cancelled /\ \A x \in Handle \ {Top.it} : rh'[x] = rh[x]
    BY <1>2, <2>1, FiredIs, LetGoIs DEF ReturnFromHeaders, ReturnFromVerdict, ReturnFromURLDone
  <2>5. UNCHANGED <<pending, jobs, hist>>
    BY <1>2 DEF ReturnFromHeaders, ReturnFromVerdict, ReturnFromURLDone
  <2>6. QED
    BY <2>1, <2>2, <2>3, <2>4, <2>5, QueueWorks DEF hist
<1>3. CASE ReturnFromCall
  BY <1>3, ReturnStepsCalm, QueueCalm DEF ReturnSteps, ReturnFromCall, hist
<1>4. CASE ReturnFromRefused
  <2>1. Calm
    BY <1>4, ReturnStepsCalm DEF ReturnSteps
  <2>2. /\ Distinct(jobs') /\ \A x : In(x, jobs') => In(x, jobs)
        /\ TopAt("client") /\ Top.it \in Handle /\ LetGo(Top.it)
    BY <1>0, <1>4, ReturnFromRefusedIs
  <2>3. UNCHANGED <<pending, loaded, gaveUp, verdicts>>
    BY <1>4 DEF ReturnFromRefused, hist
  <2>4. QED
    BY <2>1, <2>2, <2>3, TopTouched, LetGoIs, QueueLeaves
<1>5. CASE NextURLCall
  <2>1. PICK next : CallsNext(next)
    BY <1>5, NextURLCallIs
  <2>2. TopAt("client") /\ Top.it \in Handle /\ Called(Top.it, next)
    BY <2>1 DEF CallsNext
  <2>3. \E m : Moved(m)
    BY <2>1, CallsOn DEF CallsNext
  <2>4. UNCHANGED <<pending, jobs, rh>>
    BY <1>5 DEF NextURLCall
  <2>5. UNCHANGED <<loaded, gaveUp>> /\ \A x \in Handle \ {Top.it} : verdicts'[x] = verdicts[x]
    BY <2>2, CalledIs
  <2>6. QED
    BY <2>2, <2>3, <2>4, <2>5, TopTouched, QueueWorks
<1>6. QED
  BY <1>1, <1>2, <1>3, <1>4, <1>5 DEF ClientReturns

LEMMA JobStepsQueue ==
  ASSUME IInv, IInv', Stacked, Queued, NEW h \in Handle, JobSteps(h) PROVE Queued'
<1>0. Distinct(jobs)
  BY QueueIs DEF Queued
<1>1. CASE StartDataURL(h)
  <2>1. Taken(h) /\ \E m : Moved(m)
    BY <1>1, StartDataURLIs, CallMoving
  <2>2. UNCHANGED <<loaded, gaveUp>> /\ \A x \in Handle \ {h} : verdicts'[x] = verdicts[x]
    BY <1>1, StartDataURLIs, CalledIs
  <2>3. QED
    BY <1>1, <2>1, <2>2, StartsQueue DEF StartDataURL
<1>2. CASE StartJob(h)
  <2>1. Taken(h) /\ \E m : Moved(m)
    BY <1>2, StartJobCalm, CalmMoving DEF StartJob, Taken, MayStart
  <2>2. QED
    BY <1>2, <2>1, StartsQueue DEF StartJob, hist
<1>3. CASE StartRefused(h)
  <2>1. Taken(h) /\ \E m : Moved(m)
    BY <1>3, StartRefusedIs, CallMoving
  <2>2. UNCHANGED <<loaded, gaveUp>> /\ \A x \in Handle \ {h} : verdicts'[x] = verdicts[x]
    BY <1>3, CalledIs DEF StartRefused
  <2>3. QED
    BY <1>3, <2>1, <2>2, StartsQueue DEF StartRefused
<1>4. CASE CondemnCancelled(h) \/ SkipPaused(h) \/ CondemnAgain(h) \/ KeepJob(h)
  BY <1>4, AdvanceIs, QueueCalm
     DEF AdvanceSteps, CondemnCancelled, SkipPaused, CondemnAgain, KeepJob, hist
<1>5. CASE CallHandler(h)
  <2>1. Calm /\ InJobs(h) /\ Top.at = "run" /\ stack # <<>>
    <3>1. AdvanceSteps(h) /\ TopAt("run")
      BY <1>5 DEF AdvanceSteps, CallHandler, AtState, AtJob
    <3>2. QED
      BY <3>1, AdvanceIs DEF TopAt
  <2>2. Touched(h) /\ ~Starting /\ \E m : Moved(m)
    BY <2>1, CalmMoving DEF Touched, Starting, TopAt
  <2>3. UNCHANGED <<pending, jobs, loaded, gaveUp, verdicts>>
    BY <1>5 DEF CallHandler
  <2>4. PICK lost \in BOOLEAN : rh' = [rh EXCEPT ![h].cancelled = @ \/ lost]
    BY <1>5 DEF CallHandler
  <2>5. (rh[h].cancelled => rh'[h].cancelled) /\ \A x \in Handle \ {h} : rh'[x] = rh[x]
    BY <2>4 DEF IInv, DataOK, ResourceHandle
  <2>6. QED
    BY <2>2, <2>3, <2>5, QueueWorks
<1>6. CASE CallTransfer(h)
  <2>1. Touched(h) /\ ~Starting /\ \E m : Moved(m)
    BY <1>6, CallTransferIs, CallMoving DEF CallTransfer, AtState, AtJob, Touched, Starting, TopAt
  <2>2. QED
    BY <1>6, <2>1, QueueWorks DEF CallTransfer, hist
<1>7. CASE NotifyJobFailed(h)
  <2>1. Touched(h) /\ ~Starting /\ \E m : Moved(m)
    BY <1>7, NotifyJobFailedIs, CallMoving DEF Touched, Starting, TopAt, Marked
  <2>2. UNCHANGED <<loaded, gaveUp>> /\ \A x \in Handle \ {h} : verdicts'[x] = verdicts[x]
    BY <1>7, NotifyJobFailedIs, CalledIs DEF hist
  <2>3. QED
    BY <1>7, <2>1, <2>2, QueueWorks DEF NotifyJobFailed
<1>8. CASE RemoveJob(h)
  <2>1. Calm /\ InJobs(h)
    BY <1>8, AdvanceIs DEF AdvanceSteps
  <2>2. Distinct(jobs') /\ \A x : In(x, jobs') => In(x, jobs)
    BY <1>0, <1>8, RemoveJobIs
  <2>3. UNCHANGED <<pending, loaded, gaveUp, verdicts, rh>>
    BY <1>8 DEF RemoveJob
  <2>4. QED
    BY <2>1, <2>2, <2>3, QueueLeaves DEF Touched
<1>9. CASE PageCancels(h)
  BY <1>9, CancelHandleQueues DEF PageCancels, DeletingPage
<1>10. QED
  BY <1>1, <1>2, <1>3, <1>4, <1>5, <1>6, <1>7, <1>8, <1>9 DEF JobSteps

LEMMA TransferStepsQueue ==
  ASSUME IInv, IInv', Stacked, Queued, NEW h \in Handle, TransferSteps(h) PROVE Queued'
<1>1. CASE DataReceived(h)
  <2>1. Touched(h) /\ ~Starting /\ \E m : Moved(m)
    BY <1>1, DataReceivedIs, CallMoving DEF Touched, Starting, TopAt, Marked
  <2>2. UNCHANGED <<loaded, gaveUp>> /\ \A x \in Handle \ {h} : verdicts'[x] = verdicts[x]
    BY <1>1, DataReceivedIs, CalledIs DEF hist
  <2>3. rh'[h].cancelled = rh[h].cancelled /\ \A x \in Handle \ {h} : rh'[x] = rh[x]
    <3>1. \/ rh' = [rh EXCEPT ![h].left = @ - 1]
          \/ rh' = [[rh EXCEPT ![h].left = @ - 1] EXCEPT ![h].fired = @ \/ ~rh[h].cancelled]
      BY <1>1 DEF DataReceived
    <3>2. QED
      BY <3>1 DEF IInv, DataOK, ResourceHandle
  <2>4. QED
    BY <1>1, <2>1, <2>2, <2>3, QueueWorks DEF DataReceived
<1>2. ASSUME NEW result \in BOOLEAN, DataDone(h, result) PROVE Queued'
  <2>1. Touched(h) /\ ~Starting /\ \E m : Moved(m)
    BY <1>2, DataDoneIs, CallMoving DEF Touched, Starting, TopAt, Marked
  <2>2. UNCHANGED <<loaded, gaveUp>> /\ \A x \in Handle \ {h} : verdicts'[x] = verdicts[x]
    BY <1>2, DataDoneIs, CalledIs DEF hist
  <2>3. QED
    BY <1>2, <2>1, <2>2, QueueWorks DEF DataDone
<1>3. CASE TransferEnds(h)
  BY <1>3, TransferEndsIs, QueueCalm DEF TransferEnds, hist
<1>4. QED
  BY <1>1, <1>2, <1>3 DEF TransferSteps

LEMMA NextQueued == ASSUME IInv, IInv', Stacked, Queued, [Next]_vars PROVE Queued'
<1>1. CASE UNCHANGED vars
  BY <1>1, StaysCalm, QueueCalm DEF vars, hist
<1>2. CASE LoopSteps
  BY <1>2, LoopCalm, QueueCalm DEF LoopSteps, StartDone, RestartDone, RunDone, RemoveDone,
     ProcessJobsDone, HandlerRemoved, PageDeleted, hist
<1>3. QED
  BY <1>1, <1>2, EnvironmentQueues, ClientReturnsQueues, JobStepsQueue, TransferStepsQueue DEF Next

(* The queue is kept in order: what it holds has not begun, what has not     *)
(* begun is known to nobody else, and what was given up is marked or gone.   *)
THEOREM QueueKept == Spec => []Queued
<1>1. Init => Queued
  BY DEF Init, Queued, QueuedOnce, Waiting, InJobs, Begun, Untouched, Touched, Height
<1>2. IInv /\ IInv' /\ Stacked /\ Queued /\ [Next]_vars => Queued'
  BY NextQueued
<1>3. QED
  BY <1>1, <1>2, Invariance, CallersRight, PTL DEF Spec

(* A handle is never both queued and running, nor twice in either list, in   *)
(* whatever order pages start and cancel loads and the manager takes them.   *)
THEOREM QueuedOnceHolds == Spec => []QueuedOnce
BY QueueKept, PTL DEF Queued

-----------------------------------------------------------------------------
(* What a client that has cancelled still hears.                             *)

-----------------------------------------------------------------------------
(* What a step tells the client of h, if it is left in control.              *)
Tells(h, cbs) ==
  stack' # <<>> /\ Top'.at = "client" /\ Top'.it = h
    => Top'.cb \in cbs \/ (stack # <<>> /\ Top.at = "client" /\ Top.it = h /\ Top'.cb = Top.cb)

LEMMA TellsIs ==
  ASSUME NEW h, NEW cbs, Tells(h, cbs)
  PROVE  InClient(stack', h) \subseteq InClient(stack, h) \cup cbs
BY DEF Tells, InClient, Top

LEMMA StaysTells == ASSUME UNCHANGED stack, NEW h, NEW cbs PROVE Tells(h, cbs)
BY DEF Tells, Top

LEMMA LoopTells == ASSUME Top'.at \in LoopAt \cup {"transfer"}, NEW h, NEW cbs PROVE Tells(h, cbs)
BY DEF Tells, LoopAt

LEMMA CallTells ==
  ASSUME NEW x, NEW cb, Top' = ClientCall(x, cb), NEW h, NEW cbs, x = h => cb \in cbs
  PROVE  Tells(h, cbs)
<1>1. Top'.it = x /\ Top'.cb = cb
  BY DEF ClientCall
<1>2. QED
  BY <1>1 DEF Tells

LEMMA GivenUp ==
  ASSUME IInv, Queued, NEW h \in gaveUp
  PROVE  h \in Handle /\ (Touched(h) => rh[h].cancelled) /\ ~Taken(h)
<1>1. h \in Handle /\ pending \in Seq(Handle)
  BY DEF IInv, DataOK
<1>2. Touched(h) => rh[h].cancelled
  BY DEF Queued
<1>3. ASSUME Taken(h) PROVE FALSE
  <2>1. 1 \in DOMAIN pending /\ pending[1] = h
    BY <1>1, <1>3 DEF Taken
  <2>2. Waiting(h)
    BY <2>1 DEF Waiting
  <2>3. QED
    BY <1>1, <2>2 DEF Queued, Begun, Untouched
<1>4. QED
  BY <1>1, <1>2, <1>3

LEMMA NextTells ==
  ASSUME IInv, IInv', Stacked, Queued, [Next]_vars, NEW h \in gaveUp, Height' >= Height
  PROVE  Tells(h, {"fail"} \cup URLCalls)
<1> DEFINE allowed == {"fail"} \cup URLCalls
<1>a. "fail" \in allowed /\ URLCalls \subseteq allowed
  OBVIOUS
<1>b. URLCalls = {"urlResponse", "urlData", "urlDone"}
  BY DEF URLCalls
<1>c. h \in Handle /\ (Touched(h) => rh[h].cancelled) /\ ~Taken(h)
  BY GivenUp
<1>d. Height \in Nat
  BY StackTypes
<1> HIDE DEF allowed
<1>1. CASE UNCHANGED vars
  BY <1>1, StaysTells DEF vars
<1>2. CASE Environment
  <2>1. ASSUME NEW x \in Handle, Add(x) \/ Cancel(x) PROVE Tells(h, allowed)
    BY <2>1, StaysTells DEF Add, Cancel
  <2>2. ASSUME NEW x \in Handle, HeadersReceived(x) PROVE Tells(h, allowed)
    <3>1. Touched(x)
      BY <2>2 DEF HeadersReceived, Touched
    <3>2. CASE UNCHANGED stack
      BY <3>2, StaysTells
    <3>3. ASSUME NEW cb, CallOf(ClientCall(x, cb)), ~rh[x].cancelled PROVE Tells(h, allowed)
      BY <1>c, <3>1, <3>3, CallTells DEF CallOf
    <3>4. QED
      BY <2>2, <3>2, <3>3, HeadersReceivedIs
  <2>3. ASSUME NEW v \in View, RunScript(v) PROVE Tells(h, allowed)
    BY <1>c, <2>3, RunScriptIs, HandleAssumption DEF CallOf, Tells
  <2>4. ASSUME NEW v \in View, ShutdownView(v) PROVE Tells(h, allowed)
    BY <2>4, PurgeCalm, LoopTells DEF ShutdownView, LoopAt
  <2>5. CASE Tick \/ TimerFires
    BY <2>5, TickCalm, LoopTells DEF LoopAt
  <2>6. CASE RemoveTransportHandler
    BY <2>6, PurgeCalm, LoopTells DEF RemoveTransportHandler, LoopAt
  <2>7. CASE Break
    BY <2>7, BrkSteps DEF Break, ScriptRuns, TopAt, Tells
  <2>8. CASE Resume
    BY <2>8, BrkSteps DEF Resume, TopAt, Tells
  <2>9. ASSUME NEW x \in Handle, Add(x) \/ Cancel(x) \/ HeadersReceived(x) PROVE Tells(h, allowed)
    BY <2>1, <2>2, <2>9
  <2>10. ASSUME NEW v \in View, RunScript(v) \/ ShutdownView(v) PROVE Tells(h, allowed)
    BY <2>3, <2>4, <2>10
  <2>11. QED
    BY <1>2, <2>5, <2>6, <2>7, <2>8, <2>9, <2>10 DEF Environment, allowed
<1>3. CASE ClientReturns
  <2>1. CASE ReturnSteps
    BY <1>d, <2>1, ReturnStepsCalm
  <2>2. CASE CallsNext("data") /\ ~rh[Top.it].cancelled
    <3>1. Touched(Top.it) /\ Top' = ClientCall(Top.it, "data")
      BY <2>2, TopTouched, CallsOn DEF CallsNext
    <3>2. QED
      BY <1>c, <2>2, <3>1, CallTells
  <2>3. ASSUME NEW next \in URLCalls, CallsNext(next) PROVE Tells(h, allowed)
    <3>1. Top' = ClientCall(Top.it, next)
      BY <2>3, CallsOn DEF CallsNext
    <3>2. QED
      BY <1>a, <2>3, <3>1, CallTells
  <2>4. ASSUME NextURLCall PROVE Tells(h, allowed)
    BY <1>b, <2>3, <2>4, NextURLCallIs
  <2>5. QED
    BY <1>3, <2>1, <2>2, <2>4, ClientReturnsIs DEF allowed
<1>4. CASE LoopSteps
  <2>1. CASE StartDone
    BY <2>1, StartDoneCalm, LoopTells DEF LoopAt
  <2>2. CASE RunDone
    BY <2>2, RunDoneCalm, LoopTells DEF LoopAt
  <2>3. CASE RemoveDone
    BY <2>3, RemoveDoneCalm, LoopTells DEF LoopAt
  <2>4. CASE ProcessJobsDone
    BY <2>4, ProcessJobsDoneCalm, LoopTells DEF LoopAt
  <2>5. CASE RestartDone \/ HandlerRemoved \/ PageDeleted
    BY <1>d, <2>5, ReturnsCalm DEF RestartDone, HandlerRemoved, PageDeleted, TopAt, LoopAt
  <2>6. QED
    BY <1>4, <2>1, <2>2, <2>3, <2>4, <2>5 DEF LoopSteps
<1>5. ASSUME NEW x \in Handle, JobSteps(x) PROVE Tells(h, allowed)
  <2>1. CASE StartDataURL(x)
    BY <1>a, <1>b, <2>1, StartDataURLIs, CallTells DEF CallOf
  <2>2. CASE StartJob(x)
    BY <2>2, StartJobCalm, LoopTells DEF StartJob, Starting, TopAt, LoopAt
  <2>3. CASE StartRefused(x)
    BY <1>c, <2>3, StartRefusedIs, CallTells DEF CallOf
  <2>4. CASE CallTransfer(x)
    BY <2>4, CallTransferIs, LoopTells DEF CallOf
  <2>5. CASE NotifyJobFailed(x)
    BY <1>a, <2>5, NotifyJobFailedIs, CallTells, LoopTells DEF CallOf, LoopAt
  <2>6. CASE PageCancels(x)
    BY <2>6, StaysTells DEF PageCancels
  <2>7. CASE AdvanceSteps(x)
    BY <2>7, AdvanceIs, LoopTells DEF LoopAt
  <2>8. QED
    BY <1>5, <2>1, <2>2, <2>3, <2>4, <2>5, <2>6, <2>7 DEF JobSteps, AdvanceSteps
<1>6. ASSUME NEW x \in Handle, TransferSteps(x) PROVE Tells(h, allowed)
  <2>1. CASE DataReceived(x)
    BY <1>c, <2>1, DataReceivedIs, CallTells, LoopTells DEF CallOf, Touched
  <2>2. ASSUME NEW result \in BOOLEAN, DataDone(x, result) PROVE Tells(h, allowed)
    BY <1>c, <2>2, DataDoneIs, CallTells, LoopTells DEF CallOf, Touched
  <2>3. CASE TransferEnds(x)
    BY <1>d, <2>3, TransferEndsIs
  <2>4. QED
    BY <1>6, <2>1, <2>2, <2>3 DEF TransferSteps
<1>7. QED
  BY <1>1, <1>2, <1>3, <1>4, <1>5, <1>6 DEF Next, allowed

(* A client that has cancelled its load hears no more of it, with two        *)
(* exceptions: the removal loop tells it of a failure that was on record     *)
(* before, and handleDataURL makes the calls that are left of a data: URL.   *)
THEOREM CancelledLeftAlone == Spec => CancelRespected
<1>1. IInv /\ IInv' /\ Stacked /\ Queued /\ [Next]_vars
        => [\A h \in gaveUp : Len(stack') >= Len(stack)
              => InClient(stack', h) \subseteq InClient(stack, h) \cup {"fail"} \cup URLCalls]_vars
  <2> SUFFICES ASSUME IInv, IInv', Stacked, Queued, [Next]_vars, NEW h \in gaveUp,
                      Len(stack') >= Len(stack)
               PROVE  InClient(stack', h) \subseteq InClient(stack, h) \cup {"fail"} \cup URLCalls
    OBVIOUS
  <2>1. Tells(h, {"fail"} \cup URLCalls)
    BY NextTells DEF Height
  <2>2. QED
    BY <2>1, TellsIs
<1>2. QED
  BY <1>1, Invariance, CallersRight, QueueKept, PTL DEF Spec, CancelRespected
=============================================================================
