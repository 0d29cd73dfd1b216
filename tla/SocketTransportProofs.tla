----------------------- MODULE SocketTransportProofs -----------------------
(***************************************************************************)
(* Proofs about SocketTransport, for any sockets, servers and nesting.     *)
(*                                                                         *)
(* None of the invariants is inductive: a socket is let go, and its client *)
(* told, in steps of several frames.  Sound says what holds of the objects *)
(* of a socket, Listed what holds while it is in the list of the transport,*)
(* and WellStacked that script below the top of the stack is stopped.      *)
(***************************************************************************)
EXTENDS SocketTransport, SequenceLemmas

Tells(f, s) == f.at = "erase" /\ f.it = s
TellingIn(st, s) == \E i \in DOMAIN st : Tells(st[i], s)
Script(f) == f.at = "script"

(* The close event of s is being dispatched; if it is stopped at a           *)
(* breakpoint, its channel is suspended.                                     *)
Ends(f, s) == f.at = "script" /\ f.it = s /\ f.event = "close"
Ending(st, s, suspended) == \E i \in DOMAIN st : Ends(st[i], s) /\ (st[i].brk => suspended)

AllBreak(st) == \A i \in DOMAIN st : Script(st[i]) => st[i].brk
OneBreaks(st) ==
  \A i, j \in DOMAIN st : Script(st[i]) /\ st[i].brk /\ Script(st[j]) /\ st[j].brk => i = j
NoneBreaks(st) == \A i \in DOMAIN st : Script(st[i]) => ~st[i].brk
WellStacked(st) ==
  /\ st \in Seq(Frame) /\ OneBreaks(st)
  /\ \A i \in 1..(Len(st) - 1) : Script(st[i]) => st[i].brk

Sound(c) == /\ c.handle => c.held /\ c.live /\ ~c.told /\ ~c.closing /\ c.state # "Closed"
            /\ c.buffered => c.failed \/ ~c.handle
            /\ c.live => c.ready # "none"
            /\ c.shaken => c.heard # "none"
Listed(c, telling) == /\ c.handle \/ c.closing \/ telling
                      /\ c.told \/ ~c.attached \/ ~c.held => telling
                      /\ c.ready # "none"
                      /\ c.handle => ~telling
Fine(s) == /\ Sound(sock[s])
           /\ sock[s].handle => InList(s)
           /\ InList(s) => Listed(sock[s], TellingIn(stack, s))
           /\ TellingIn(stack, s) => sock[s].ready # "none"
           /\ sock[s].live /\ sock[s].ready = "CLOSED" => Ending(stack, s, sock[s].suspended)

NoRepeats == \A i, j \in DOMAIN list : list[i] = list[j] => i = j

IInv == /\ TypeOK /\ WellStacked(stack) /\ NoRepeats
        /\ \A s \in Socket : Fine(s)

-----------------------------------------------------------------------------
(* The stack.                                                                *)

LEMMA Frames ==
  ASSUME NEW f \in Frame
  PROVE  /\ f.at \in {"update", "recv", "end", "erase", "process", "script"}
         /\ f.it \in Socket \cup {None}
         /\ f.at = "script" => f.brk \in BOOLEAN
         /\ f.at = "script" /\ f.event # "none" => f.it \in Socket
         /\ f.at = "process" => f.it \in Socket
BY DEF Frame, TickFrame, ProcessFrame, ScriptFrame, Event

LEMMA UpTo ==
  ASSUME NEW n \in Nat
  PROVE  /\ \A i \in 1..(n - 1) : i \in 1..n /\ i # n
         /\ \A i \in 1..n : i = n \/ i \in 1..(n - 1)
OBVIOUS

LEMMA Splits ==
  ASSUME NEW st \in Seq(Frame), st # <<>>
  PROVE  /\ Front(st) \in Seq(Frame) /\ Last(st) \in Frame
         /\ st = Append(Front(st), Last(st))
         /\ \A g \in Frame : [st EXCEPT ![Len(st)] = g] = Append(Front(st), g)
<1>1. /\ Front(st) \in Seq(Frame) /\ Len(Front(st)) = Len(st) - 1
      /\ \A i \in 1..(Len(st) - 1) : Front(st)[i] = st[i]
  BY FrontFacts
<1>2. /\ Last(st) \in Frame /\ Last(st) = st[Len(st)] /\ Len(st) \in 1..Len(st)
      /\ Len(st) \in Nat /\ DOMAIN st = 1..Len(st)
  BY LastFacts
<1>3. ASSUME NEW g \in Frame
      PROVE  [st EXCEPT ![Len(st)] = g] = Append(Front(st), g)
  <2> DEFINE u == [st EXCEPT ![Len(st)] = g]
             v == Append(Front(st), g)
  <2>1. /\ v \in Seq(Frame) /\ Len(v) = Len(st) /\ v[Len(st)] = g
        /\ \A i \in 1..(Len(st) - 1) : v[i] = st[i]
    BY <1>1, <1>2
  <2>2. /\ u \in Seq(Frame) /\ Len(u) = Len(st) /\ u[Len(st)] = g
        /\ \A i \in 1..(Len(st) - 1) : u[i] = st[i]
    <3>1. u \in Seq(Frame) /\ Len(u) = Len(st)
      BY LastFacts
    <3>2. u[Len(st)] = g
      BY <1>2
    <3>3. \A i \in 1..(Len(st) - 1) : i \in DOMAIN st /\ i # Len(st)
      BY <1>2, UpTo
    <3>4. QED
      BY <3>1, <3>2, <3>3
  <2> HIDE DEF u, v
  <2>3. \A i \in 1..Len(u) : u[i] = v[i]
    <3> SUFFICES ASSUME NEW i \in 1..Len(u) PROVE u[i] = v[i]
      OBVIOUS
    <3>1. CASE i = Len(st)
      BY <2>1, <2>2, <3>1
    <3>2. CASE i \in 1..(Len(st) - 1)
      BY <2>1, <2>2, <3>2
    <3>3. i = Len(st) \/ i \in 1..(Len(st) - 1)
      BY <1>2, <2>2, UpTo
    <3>4. QED
      BY <3>1, <3>2, <3>3
  <2>4. u = v
    BY <2>1, <2>2, <2>3, SeqEqual
  <2>5. QED
    BY <2>4 DEF u, v
<1>4. [st EXCEPT ![Len(st)] = Last(st)] = st
  BY <1>2
<1>5. QED
  BY <1>1, <1>2, <1>3, <1>4

(* What holds of a stack with one frame more.                                *)
LEMMA Appended ==
  ASSUME NEW r \in Seq(Frame), NEW f \in Frame
  PROVE  /\ Append(r, f) \in Seq(Frame) /\ Append(r, f) # <<>>
         /\ Last(Append(r, f)) = f
         /\ \A s : TellingIn(Append(r, f), s) <=> TellingIn(r, s) \/ Tells(f, s)
         /\ \A s, b : Ending(Append(r, f), s, b) <=> Ending(r, s, b) \/ (Ends(f, s) /\ (f.brk => b))
         /\ AllBreak(Append(r, f)) <=> AllBreak(r) /\ (Script(f) => f.brk)
         /\ OneBreaks(Append(r, f)) <=> OneBreaks(r) /\ (Script(f) /\ f.brk => NoneBreaks(r))
         /\ WellStacked(Append(r, f)) <=> AllBreak(r) /\ OneBreaks(Append(r, f))
<1> DEFINE t == Append(r, f)
<1>1. /\ t \in Seq(Frame) /\ Len(t) = Len(r) + 1 /\ Len(r) \in Nat
      /\ DOMAIN t = 1..(Len(r) + 1) /\ DOMAIN r = 1..Len(r)
      /\ t[Len(r) + 1] = f /\ \A i \in 1..Len(r) : t[i] = r[i]
  OBVIOUS
<1>2. t # <<>> /\ Last(t) = f
  BY <1>1 DEF Last
<1> HIDE DEF t
<1>3. \A s : TellingIn(t, s) <=> TellingIn(r, s) \/ Tells(f, s)
  BY <1>1 DEF TellingIn, Tells
<1>4. \A s, b : Ending(t, s, b) <=> Ending(r, s, b) \/ (Ends(f, s) /\ (f.brk => b))
  BY <1>1 DEF Ending, Ends
<1>5. AllBreak(t) <=> AllBreak(r) /\ (Script(f) => f.brk)
  BY <1>1 DEF AllBreak, Script
<1>6. OneBreaks(t) <=> OneBreaks(r) /\ (Script(f) /\ f.brk => NoneBreaks(r))
  BY <1>1 DEF OneBreaks, NoneBreaks, Script
<1>7. WellStacked(t) <=> AllBreak(r) /\ OneBreaks(t)
  BY <1>1 DEF WellStacked, AllBreak, Script
<1>8. QED
  BY <1>1, <1>2, <1>3, <1>4, <1>5, <1>6, <1>7 DEF t

-----------------------------------------------------------------------------
(* What the objects above the transport may do to the record of a socket.    *)
Gentle(c, d) ==
  /\ d \in WebSocket /\ Sound(d)
  /\ d.handle => c.handle
  /\ c.handle \/ c.closing => d.handle \/ d.closing
  /\ d.told \/ ~d.attached \/ ~d.held => c.told \/ ~c.attached \/ ~c.held
  /\ d.ready = "none" => c.ready = "none"

Same(c, d) == d.ready = c.ready /\ d.heard = c.heard /\ d.suspended = c.suspended

(* The fields the invariant is about, but for some, are those of c.          *)
Else(c, d) == /\ d.attached = c.attached /\ d.shaken = c.shaken /\ d.told = c.told
              /\ d.failed = c.failed /\ Same(c, d)

LEMMA DisconnectGentle ==
  ASSUME NEW c \in WebSocket, Sound(c)
  PROVE  /\ Gentle(c, Disconnect(c)) /\ Same(c, Disconnect(c)) /\ ~Disconnect(c).handle
         /\ Disconnect(c).live = c.live
<1> DEFINE x == c.closing \/ c.handle
           d == [c EXCEPT !.state = "Closed", !.handle = FALSE, !.closing = x]
<1>1. x \in BOOLEAN
  OBVIOUS
<1>2. Disconnect(c) = d
  BY DEF Disconnect
<1> HIDE DEF x
<1>3. d \in WebSocket
  BY <1>1 DEF WebSocket, StreamState
<1>4. /\ d.state = "Closed" /\ d.handle = FALSE /\ d.closing = x
      /\ d.live = c.live /\ d.held = c.held /\ d.buffered = c.buffered /\ Else(c, d)
  BY DEF WebSocket, Else, Same
<1> HIDE DEF d
<1>5. QED
  BY <1>2, <1>3, <1>4 DEF x, Else, Same, Gentle, Sound

LEMMA CloseStreamGentle ==
  ASSUME NEW c \in WebSocket, Sound(c)
  PROVE  /\ Gentle(c, CloseStream(c)) /\ Same(c, CloseStream(c))
         /\ CloseStream(c).live = c.live
<1>1. CASE c.state = "Closed" \/ ~c.buffered
  <2>1. CloseStream(c) = c \/ CloseStream(c) = Disconnect(c)
    BY <1>1 DEF CloseStream
  <2>2. QED
    BY <2>1, DisconnectGentle DEF Gentle, Same
<1>2. CASE c.state # "Closed" /\ c.buffered
  <2> DEFINE d == [c EXCEPT !.state = "Closing"]
  <2>1. CloseStream(c) = d
    BY <1>2 DEF CloseStream
  <2>2. d \in WebSocket
    BY DEF WebSocket, StreamState
  <2>3. /\ d.state = "Closing" /\ d.handle = c.handle /\ d.closing = c.closing
        /\ d.live = c.live /\ d.held = c.held /\ d.buffered = c.buffered /\ Else(c, d)
    BY DEF WebSocket, Else, Same
  <2> HIDE DEF d
  <2>4. QED
    BY <2>1, <2>2, <2>3 DEF Else, Same, Gentle, Sound
<1>3. QED
  BY <1>1, <1>2

LEMMA SendGentle ==
  ASSUME NEW c \in WebSocket, Sound(c), NEW fails \in BOOLEAN
  PROVE  /\ Gentle(c, Send(c, fails)) /\ Same(c, Send(c, fails))
         /\ Send(c, fails).live = c.live
<1> DEFINE f == [c EXCEPT !.failed = TRUE, !.buffered = TRUE]
           b == [c EXCEPT !.buffered = TRUE]
<1>1. \/ Send(c, fails) = c
      \/ Send(c, fails) = f
      \/ Send(c, fails) = b /\ (c.state = "Closed" \/ ~c.handle)
  BY DEF Send, MaySend
<1>2. f \in WebSocket /\ b \in WebSocket
  BY DEF WebSocket
<1>3. /\ f.state = c.state /\ f.handle = c.handle /\ f.closing = c.closing
      /\ f.live = c.live /\ f.held = c.held /\ f.failed = TRUE
      /\ f.attached = c.attached /\ f.shaken = c.shaken /\ f.told = c.told /\ Same(c, f)
  BY DEF WebSocket, Same
<1>4. /\ b.state = c.state /\ b.handle = c.handle /\ b.closing = c.closing
      /\ b.live = c.live /\ b.held = c.held /\ Else(c, b)
  BY DEF WebSocket, Else, Same
<1> HIDE DEF f, b
<1>5. QED
  BY <1>1, <1>2, <1>3, <1>4 DEF Else, Same, Gentle, Sound

LEMMA FailGentle ==
  ASSUME NEW c \in WebSocket, Sound(c)
  PROVE  /\ Gentle(c, Fail(c)) /\ Same(c, Fail(c)) /\ Fail(c).live = c.live
<1>1. Fail(c) = c \/ Fail(c) = Disconnect(c)
  BY DEF Fail
<1>2. QED
  BY <1>1, DisconnectGentle DEF Gentle, Same

LEMMA AbandonGentle ==
  ASSUME NEW c \in WebSocket, Sound(c)
  PROVE  /\ Gentle(c, Abandon(c)) /\ Same(c, Abandon(c)) /\ ~Abandon(c).live
<1> DEFINE e == IF c.held THEN Disconnect(c) ELSE c
           d == [e EXCEPT !.live = FALSE]
<1>1. Abandon(c) = d
  BY DEF Abandon
<1>2. e \in WebSocket /\ Sound(e) /\ Gentle(c, e) /\ Same(c, e) /\ ~e.handle
  BY DisconnectGentle DEF Gentle, Same, Sound
<1> HIDE DEF e
<1>3. d \in WebSocket
  BY <1>2 DEF WebSocket
<1>4. /\ d.state = e.state /\ d.handle = e.handle /\ d.closing = e.closing
      /\ d.live = FALSE /\ d.held = e.held /\ d.buffered = e.buffered /\ Else(e, d)
  BY <1>2 DEF WebSocket, Else, Same
<1> HIDE DEF d
<1>5. QED
  BY <1>1, <1>2, <1>3, <1>4 DEF Else, Same, Gentle, Sound

LEMMA HandshakeGentle ==
  ASSUME NEW c \in WebSocket, Sound(c), NEW fails \in BOOLEAN
  PROVE  LET d == StartClosingHandshake(c, fails)
         IN  /\ Gentle(c, d) /\ d.heard = c.heard /\ d.suspended = c.suspended /\ d.live = c.live
             /\ d.ready = c.ready \/ (c.live /\ d.ready = "CLOSING")
<1> DEFINE d == StartClosingHandshake(c, fails)
           e == Send(c, fails)
           f == [e EXCEPT !.handshake = TRUE, !.ready = IF c.live THEN "CLOSING" ELSE @]
<1>1. d = c \/ d = Disconnect(c) \/ d = f
  BY DEF StartClosingHandshake
<1>2. CASE d = c \/ d = Disconnect(c)
  BY <1>2, DisconnectGentle DEF Gentle, Same
<1>3. CASE d = f
  <2>1. /\ e \in WebSocket /\ Sound(e) /\ Gentle(c, e) /\ Same(c, e) /\ e.live = c.live
    BY SendGentle DEF Gentle
  <2> HIDE DEF e
  <2>2. f \in WebSocket
    BY <2>1 DEF WebSocket, Ready
  <2>3. /\ f.state = e.state /\ f.handle = e.handle /\ f.closing = e.closing /\ f.live = e.live
        /\ f.held = e.held /\ f.buffered = e.buffered /\ f.attached = e.attached
        /\ f.shaken = e.shaken /\ f.told = e.told /\ f.failed = e.failed
        /\ f.heard = e.heard /\ f.suspended = e.suspended
        /\ f.ready = IF c.live THEN "CLOSING" ELSE e.ready
    BY <2>1 DEF WebSocket
  <2> HIDE DEF f
  <2>4. Gentle(c, f)
    BY <2>1, <2>2, <2>3 DEF Gentle, Sound, Same
  <2>5. QED
    BY <1>3, <2>1, <2>3, <2>4 DEF Same
<1>4. QED
  BY <1>1, <1>2, <1>3

LEMMA ConnectedGentle ==
  ASSUME NEW c \in WebSocket, Sound(c), NEW fails \in BOOLEAN
  PROVE  /\ Gentle(c, Connected(c, fails)) /\ Same(c, Connected(c, fails))
         /\ Connected(c, fails).live = c.live
<1> DEFINE o == [c EXCEPT !.connected = TRUE, !.state = IF c.attached THEN "Open" ELSE @]
<1>1. o \in WebSocket
  BY DEF WebSocket, StreamState
<1>2. /\ o.state = (IF c.attached THEN "Open" ELSE c.state)
      /\ o.handle = c.handle /\ o.closing = c.closing /\ o.buffered = c.buffered
      /\ o.live = c.live /\ o.held = c.held /\ Else(c, o)
  BY DEF WebSocket, Else, Same
<1>3. Connected(c, fails) = o \/ Connected(c, fails) = Send(o, fails)
  BY DEF Connected
<1> HIDE DEF o
<1>4. Gentle(c, o) /\ Same(c, o) /\ Sound(o)
  BY <1>1, <1>2 DEF Else, Same, Gentle, Sound
<1>5. Gentle(o, Send(o, fails)) /\ Same(o, Send(o, fails)) /\ Send(o, fails).live = o.live
  BY <1>1, <1>4, SendGentle
<1>6. QED
  BY <1>2, <1>3, <1>4, <1>5 DEF Gentle, Same

(* didCloseSocketStream, once the stream has let go of its socket.           *)
LEMMA DidCloseSound ==
  ASSUME NEW c \in WebSocket, Sound(c), ~c.handle
  PROVE  LET d == DidClose(c)
         IN  /\ d \in WebSocket /\ Sound(d) /\ ~d.handle /\ d.told
             /\ d.closing = c.closing /\ d.heard = c.heard /\ d.suspended = c.suspended
             /\ IF ClosesNow(c) THEN d.ready = "CLOSED" /\ ~d.live
                                ELSE d.ready = c.ready /\ (d.live => c.live)
<1> DEFINE t == [c EXCEPT !.told = TRUE, !.timeout = FALSE]
           r == IF c.live THEN "CLOSED" ELSE t.ready
           e == [t EXCEPT !.held = FALSE, !.live = FALSE, !.ready = r]
           d == DidClose(c)
<1>1. t \in WebSocket
  BY DEF WebSocket
<1>2. /\ t.handle = c.handle /\ t.closing = c.closing /\ t.held = c.held /\ t.live = c.live
      /\ t.told = TRUE /\ t.state = c.state /\ t.buffered = c.buffered /\ t.failed = c.failed
      /\ t.ready = c.ready /\ t.heard = c.heard /\ t.shaken = c.shaken /\ t.suspended = c.suspended
  BY DEF WebSocket
<1>3. IF c.suspended \/ ~c.held THEN d = t ELSE d = e
  BY DEF DidClose
<1>r. r \in Ready
  BY <1>1 DEF WebSocket, Ready
<1> HIDE DEF t, r
<1>4. e \in WebSocket
  BY <1>1, <1>r DEF WebSocket
<1>5. /\ e.handle = t.handle /\ e.closing = t.closing /\ e.held = FALSE /\ e.live = FALSE
      /\ e.told = t.told /\ e.state = t.state /\ e.buffered = t.buffered /\ e.failed = t.failed
      /\ e.ready = r
      /\ e.heard = t.heard /\ e.shaken = t.shaken /\ e.suspended = t.suspended
  BY <1>1, <1>r DEF WebSocket
<1> HIDE DEF e, d
<1>6. /\ d \in WebSocket /\ Sound(d) /\ ~d.handle /\ d.told
      /\ d.closing = c.closing /\ d.heard = c.heard /\ d.suspended = c.suspended
  BY <1>1, <1>2, <1>3, <1>4, <1>5 DEF Sound
<1>7. IF ClosesNow(c) THEN d.ready = "CLOSED" /\ ~d.live
                      ELSE d.ready = c.ready /\ (d.live => c.live)
  BY <1>2, <1>3, <1>5 DEF ClosesNow, r
<1>8. QED
  BY <1>6, <1>7 DEF d

-----------------------------------------------------------------------------
(* Steps of the stack from a state that satisfies the invariant.             *)
Free == stack = <<>> \/ ~Script(Top) \/ Top.brk

LEMMA Pushes ==
  ASSUME WellStacked(stack), Free, NEW f \in Frame, ~(Script(f) /\ f.brk)
  PROVE  /\ WellStacked(Append(stack, f)) /\ AllBreak(stack)
         /\ \A x : TellingIn(Append(stack, f), x) <=> TellingIn(stack, x) \/ Tells(f, x)
         /\ \A x, b : Ending(Append(stack, f), x, b) <=> Ending(stack, x, b) \/ (Ends(f, x) /\ (f.brk => b))
<1>1. stack \in Seq(Frame) /\ OneBreaks(stack)
  BY DEF WellStacked
<1>2. AllBreak(stack)
  <2>1. Len(stack) \in Nat /\ DOMAIN stack = 1..Len(stack)
    BY <1>1
  <2>2. CASE stack = <<>>
    BY <2>2 DEF AllBreak
  <2>3. CASE stack # <<>>
    <3>1. Last(stack) = stack[Len(stack)]
      BY <1>1, <2>3, LastFacts
    <3>2. ASSUME NEW i \in 1..Len(stack), Script(stack[i])
          PROVE  stack[i].brk
      BY <2>1, <2>3, <3>1, <3>2, UpTo DEF WellStacked, Free, Top
    <3>3. QED
      BY <2>1, <3>2 DEF AllBreak
  <2>4. QED
    BY <2>2, <2>3
<1>3. QED
  BY <1>1, <1>2, Appended

(* r is what lies below the top of the stack.                                *)
LEMMA Tops ==
  ASSUME WellStacked(stack), stack # <<>>
  PROVE  LET r == Front(stack) IN
         /\ r \in Seq(Frame) /\ Top \in Frame /\ WellStacked(r) /\ AllBreak(r) /\ OneBreaks(r)
         /\ Script(Top) /\ Top.brk => NoneBreaks(r)
         /\ \A x : TellingIn(stack, x) <=> TellingIn(r, x) \/ Tells(Top, x)
         /\ \A x, b : Ending(stack, x, b) <=> Ending(r, x, b) \/ (Ends(Top, x) /\ (Top.brk => b))
         /\ \A g \in Frame : Becomes(g) = Append(r, g)
<1> DEFINE r == Front(stack)
<1>1. stack \in Seq(Frame)
  BY DEF WellStacked
<1>2. /\ r \in Seq(Frame) /\ Top \in Frame /\ stack = Append(r, Top)
      /\ \A g \in Frame : Becomes(g) = Append(r, g)
  BY <1>1, Splits DEF Top, Becomes
<1> HIDE DEF r
<1>3. /\ \A x : TellingIn(stack, x) <=> TellingIn(r, x) \/ Tells(Top, x)
      /\ \A x, b : Ending(stack, x, b) <=> Ending(r, x, b) \/ (Ends(Top, x) /\ (Top.brk => b))
      /\ AllBreak(r) /\ OneBreaks(r) /\ (Script(Top) /\ Top.brk => NoneBreaks(r))
  BY <1>2, Appended
<1>4. WellStacked(r)
  BY <1>2, <1>3, UpTo DEF WellStacked, AllBreak
<1>5. QED
  BY <1>2, <1>3, <1>4 DEF r

LEMMA Replaces ==
  ASSUME WellStacked(stack), stack # <<>>, NEW g \in Frame, ~(Script(g) /\ g.brk)
  PROVE  LET r == Front(stack) IN
         /\ WellStacked(Becomes(g)) /\ Becomes(g) # <<>> /\ Last(Becomes(g)) = g
         /\ \A x : TellingIn(Becomes(g), x) <=> TellingIn(r, x) \/ Tells(g, x)
         /\ \A x, b : Ending(Becomes(g), x, b) <=> Ending(r, x, b) \/ (Ends(g, x) /\ (g.brk => b))
         /\ ~Script(g) => AllBreak(Becomes(g)) /\ OneBreaks(Becomes(g))
<1>1. Becomes(g) = Append(Front(stack), g)
  BY Tops
<1>2. /\ Front(stack) \in Seq(Frame) /\ AllBreak(Front(stack)) /\ OneBreaks(Front(stack))
  BY Tops
<1>3. QED
  BY <1>1, <1>2, Appended

(* The same for a step that replaces the top and makes a call.               *)
LEMMA ReplacesAndPushes ==
  ASSUME WellStacked(stack), stack # <<>>, NEW g \in Frame, ~Script(g),
         NEW f \in Frame, ~(Script(f) /\ f.brk)
  PROVE  LET t == Append(Becomes(g), f)
             r == Front(stack)
         IN  /\ WellStacked(t)
             /\ \A x : TellingIn(t, x) <=> TellingIn(r, x) \/ Tells(g, x) \/ Tells(f, x)
             /\ \A x, b : Ending(t, x, b) <=> Ending(r, x, b) \/ (Ends(f, x) /\ (f.brk => b))
<1>1. /\ WellStacked(Becomes(g)) /\ AllBreak(Becomes(g)) /\ OneBreaks(Becomes(g))
      /\ \A x : TellingIn(Becomes(g), x) <=> TellingIn(Front(stack), x) \/ Tells(g, x)
      /\ \A x, b : Ending(Becomes(g), x, b) <=> Ending(Front(stack), x, b)
  BY Replaces DEF Ends, Script
<1>2. Becomes(g) \in Seq(Frame)
  BY <1>1 DEF WellStacked
<1>3. QED
  BY <1>1, <1>2, Appended

-----------------------------------------------------------------------------
(* A step that changes the record of one socket keeps the invariant.         *)
LEMMA OneSocket ==
  ASSUME IInv, NEW s \in Socket, NEW d \in WebSocket, Sound(d),
         Sets(s, d), list' = list, WellStacked(stack'),
         d.handle => InList(s),
         InList(s) => Listed(d, TellingIn(stack', s)),
         TellingIn(stack', s) => d.ready # "none",
         d.live /\ d.ready = "CLOSED" => Ending(stack', s, d.suspended),
         \A x \in Socket \ {s} : TellingIn(stack', x) <=> TellingIn(stack, x),
         \A x \in Socket \ {s} : \A b : Ending(stack, x, b) => Ending(stack', x, b)
  PROVE  IInv'
<1>1. /\ sock \in [Socket -> WebSocket] /\ list \in Seq(Socket)
      /\ sock' = [sock EXCEPT ![s] = d]
  BY DEF IInv, TypeOK, Sets
<1>2. sock'[s] = d /\ \A x \in Socket \ {s} : sock'[x] = sock[x]
  BY <1>1
<1>3. sock' \in [Socket -> WebSocket]
  BY <1>1
<1>4. TypeOK' /\ NoRepeats'
  BY <1>1, <1>3 DEF IInv, TypeOK, NoRepeats, WellStacked
<1>5. \A x : InList(x)' <=> InList(x)
  BY DEF InList
<1>6. Fine(s)'
  BY <1>2, <1>5 DEF Fine
<1>7. ASSUME NEW x \in Socket \ {s}
      PROVE  Fine(x)'
  <2>1. Fine(x)
    BY DEF IInv
  <2>2. QED
    BY <1>2, <1>5, <2>1 DEF Fine, Listed
<1>8. QED
  BY <1>4, <1>6, <1>7 DEF IInv

LEMMA GentleStep ==
  ASSUME IInv, NEW s \in Socket, NEW d, Gentle(sock[s], d),
         Sets(s, d), list' = list, WellStacked(stack'),
         d.live /\ d.ready = "CLOSED" => Ending(stack', s, d.suspended),
         \A x \in Socket : TellingIn(stack', x) <=> TellingIn(stack, x),
         \A x \in Socket \ {s} : \A b : Ending(stack, x, b) => Ending(stack', x, b)
  PROVE  IInv'
<1>1. Fine(s)
  BY DEF IInv
<1>2. d \in WebSocket /\ Sound(d)
  BY DEF Gentle
<1>3. /\ d.handle => InList(s)
      /\ InList(s) => Listed(d, TellingIn(stack', s))
      /\ TellingIn(stack', s) => d.ready # "none"
  BY <1>1 DEF Fine, Gentle, Listed
<1>4. QED
  BY <1>2, <1>3, OneSocket

(* ... and one that tells script nothing new.                                *)
LEMMA SilentStep ==
  ASSUME IInv, NEW s \in Socket, NEW d, Gentle(sock[s], d), Same(sock[s], d),
         d.live => sock[s].live,
         Sets(s, d), list' = list, WellStacked(stack'),
         \A x \in Socket : TellingIn(stack', x) <=> TellingIn(stack, x),
         \A x \in Socket : \A b : Ending(stack, x, b) => Ending(stack', x, b)
  PROVE  IInv'
<1>1. Fine(s)
  BY DEF IInv
<1>2. d.live /\ d.ready = "CLOSED" => Ending(stack', s, d.suspended)
  BY <1>1 DEF Fine, Same
<1>3. QED
  BY <1>2, GentleStep

(* A step of the stack alone.                                                *)
LEMMA StackStep ==
  ASSUME IInv, UNCHANGED <<list, sock>>, WellStacked(stack'),
         \A x \in Socket : TellingIn(stack', x) <=> TellingIn(stack, x),
         \A x \in Socket : \A b : Ending(stack, x, b) => Ending(stack', x, b)
  PROVE  IInv'
<1>1. TypeOK' /\ NoRepeats'
  BY DEF IInv, TypeOK, NoRepeats, WellStacked
<1>2. \A x : InList(x)' <=> InList(x)
  BY DEF InList
<1>3. ASSUME NEW x \in Socket
      PROVE  Fine(x)'
  <2>1. Fine(x)
    BY DEF IInv
  <2>2. QED
    BY <1>2, <2>1 DEF Fine, Listed
<1>4. QED
  BY <1>1, <1>3 DEF IInv

-----------------------------------------------------------------------------
(* The actions.                                                              *)

LEMMA Parts ==
  ASSUME IInv
  PROVE  /\ WellStacked(stack) /\ stack \in Seq(Frame) /\ list \in Seq(Socket)
         /\ sock \in [Socket -> WebSocket]
         /\ \A s \in Socket : sock[s] \in WebSocket /\ Sound(sock[s]) /\ Fine(s)
BY DEF IInv, TypeOK, WellStacked, Fine

LEMMA EventFrames ==
  ASSUME NEW s \in Socket, NEW event \in Event
  PROVE  LET f == EventFrame(s, event)
         IN  /\ f \in Frame /\ Script(f) /\ ~f.brk
             /\ \A x : ~Tells(f, x)
             /\ \A x : Ends(f, x) <=> x = s /\ event = "close"
BY DEF EventFrame, Frame, ScriptFrame, Script, Tells, Ends

LEMMA NoSocketSound ==
  /\ NoSocket \in WebSocket /\ Sound(NoSocket)
  /\ ~NoSocket.handle /\ ~NoSocket.live /\ NoSocket.ready = "none" /\ NoSocket.heard = "none"
<1>1. <<>> \in Seq(Item)
  OBVIOUS
<1>2. NoSocket \in WebSocket
  BY <1>1 DEF NoSocket, WebSocket, StreamState, Ready
<1>3. QED
  BY <1>2 DEF NoSocket, Sound

LEMMA MakeKeeps ==
  ASSUME IInv, NEW s \in Socket, Make(s)
  PROVE  IInv'
<1> USE Parts
<1>1. PICK opened \in BOOLEAN :
        /\ sock' = [sock EXCEPT ![s] =
                      [NoSocket EXCEPT !.handle = opened, !.attached = TRUE, !.live = TRUE,
                                       !.held = TRUE, !.ready = "CONNECTING"]]
        /\ list' = IF opened THEN Append(list, s) ELSE list
  BY DEF Make, Sets
<1> DEFINE d == [NoSocket EXCEPT !.handle = opened, !.attached = TRUE, !.live = TRUE,
                                 !.held = TRUE, !.ready = "CONNECTING"]
<1>2. /\ sock[s].ready = "none" /\ stack' = stack
  BY DEF Make
<1>3. ~InList(s) /\ ~TellingIn(stack, s)
  BY <1>2 DEF Fine, Listed
<1>4. d \in WebSocket
  BY NoSocketSound DEF WebSocket, Ready
<1>5. /\ d.handle = opened /\ d.attached /\ d.live /\ d.held /\ d.ready = "CONNECTING"
      /\ ~d.told /\ ~d.closing /\ d.state = "Connecting" /\ ~d.buffered /\ ~d.shaken
  BY DEF NoSocket
<1> HIDE DEF d
<1>6. sock' \in [Socket -> WebSocket] /\ sock'[s] = d /\ \A x \in Socket \ {s} : sock'[x] = sock[x]
  BY <1>1, <1>4 DEF d
<1>7. /\ list' \in Seq(Socket)
      /\ \A x : InList(x)' <=> InList(x) \/ (opened /\ x = s)
      /\ NoRepeats'
  <2>1. NoRepeats
    BY DEF IInv
  <2>2. CASE opened
    <3>1. /\ list' = Append(list, s) /\ Len(list') = Len(list) + 1 /\ list' \in Seq(Socket)
          /\ DOMAIN list = 1..Len(list) /\ DOMAIN list' = 1..(Len(list) + 1)
          /\ list'[Len(list) + 1] = s /\ \A i \in 1..Len(list) : list'[i] = list[i]
          /\ Len(list) \in Nat
      BY <1>1, <2>2
    <3>2. \A x : InList(x)' <=> InList(x) \/ x = s
      BY <3>1 DEF InList
    <3>3. NoRepeats'
      BY <1>3, <2>1, <3>1 DEF NoRepeats, InList
    <3>4. QED
      BY <2>2, <3>1, <3>2, <3>3
  <2>3. CASE ~opened
    BY <1>1, <2>1, <2>3 DEF InList, NoRepeats
  <2>4. QED
    BY <2>2, <2>3
<1>8. TypeOK' /\ WellStacked(stack')
  BY <1>2, <1>6, <1>7 DEF IInv, TypeOK
<1>9. Fine(s)'
  BY <1>2, <1>3, <1>5, <1>6, <1>7 DEF Fine, Sound, Listed
<1>10. ASSUME NEW x \in Socket \ {s}
       PROVE  Fine(x)'
  BY <1>2, <1>6, <1>7 DEF Fine, Listed
<1>11. QED
  BY <1>7, <1>8, <1>9, <1>10 DEF IInv

LEMMA SendMessageKeeps ==
  ASSUME IInv, NEW s \in Socket, SendMessage(s)
  PROVE  IInv'
<1>1. PICK fails \in BOOLEAN : Sets(s, Send(sock[s], fails)) /\ UNCHANGED <<list, stack>>
  BY DEF SendMessage
<1>2. QED
  BY <1>1, Parts, SendGentle, SilentStep

LEMMA CloseKeeps ==
  ASSUME IInv, NEW s \in Socket, Close(s)
  PROVE  IInv'
<1> DEFINE c == sock[s]
<1>0. UNCHANGED <<list, stack>> /\ c \in WebSocket /\ Sound(c) /\ WellStacked(stack)
  BY Parts DEF Close
<1>1. PICK e : /\ Gentle(c, e) /\ e.live = c.live
               /\ \E t \in BOOLEAN : Sets(s, [e EXCEPT !.ready = "CLOSING", !.timeout = t])
  <2>1. CASE Sets(s, [Fail(c) EXCEPT !.ready = "CLOSING"])
    <3>1. Gentle(c, Fail(c)) /\ Fail(c).live = c.live /\ Fail(c) \in WebSocket
      BY <1>0, FailGentle DEF Gentle
    <3>2. [Fail(c) EXCEPT !.ready = "CLOSING"]
             = [Fail(c) EXCEPT !.ready = "CLOSING", !.timeout = Fail(c).timeout]
      BY <3>1 DEF WebSocket
    <3>3. Fail(c).timeout \in BOOLEAN
      BY <3>1 DEF WebSocket
    <3>4. QED
      BY <2>1, <3>1, <3>2, <3>3
  <2>2. ASSUME NEW fails \in BOOLEAN,
               Sets(s, [StartClosingHandshake(c, fails) EXCEPT
                          !.ready = "CLOSING",
                          !.timeout = @ \/ StartClosingHandshake(c, fails).handshake])
        PROVE  \E e : /\ Gentle(c, e) /\ e.live = c.live
                      /\ \E t \in BOOLEAN : Sets(s, [e EXCEPT !.ready = "CLOSING", !.timeout = t])
    <3> DEFINE e == StartClosingHandshake(c, fails)
               t == e.timeout \/ e.handshake
    <3>1. Gentle(c, e) /\ e.live = c.live
      BY <1>0, HandshakeGentle
    <3>2. t \in BOOLEAN /\ Sets(s, [e EXCEPT !.ready = "CLOSING", !.timeout = t])
      BY <2>2
    <3>3. QED
      BY <3>1, <3>2
  <2>3. QED
    BY <2>1, <2>2 DEF Close
<1>2. PICK t \in BOOLEAN : Sets(s, [e EXCEPT !.ready = "CLOSING", !.timeout = t])
  BY <1>1
<1> DEFINE d == [e EXCEPT !.ready = "CLOSING", !.timeout = t]
<1>3. e \in WebSocket /\ Sound(e)
  BY <1>1 DEF Gentle
<1>4. d \in WebSocket
  BY <1>3 DEF WebSocket, Ready
<1>5. /\ d.state = e.state /\ d.handle = e.handle /\ d.closing = e.closing /\ d.live = e.live
      /\ d.held = e.held /\ d.buffered = e.buffered /\ d.attached = e.attached
      /\ d.shaken = e.shaken /\ d.told = e.told /\ d.failed = e.failed /\ d.heard = e.heard
      /\ d.ready = "CLOSING"
  BY <1>3 DEF WebSocket
<1> HIDE DEF d, c
<1>6. Gentle(c, d)
  BY <1>1, <1>3, <1>4, <1>5 DEF Gentle, Sound
<1>7. QED
  BY <1>0, <1>2, <1>5, <1>6, GentleStep DEF d, c

LEMMA StopKeeps ==
  ASSUME IInv, NEW s \in Socket, Stop(s)
  PROVE  IInv'
<1> DEFINE c == sock[s]
           e == IF c.live THEN Abandon(c) ELSE c
           d == [e EXCEPT !.ready = "CLOSED"]
<1>0. /\ UNCHANGED <<list, stack>> /\ c \in WebSocket /\ Sound(c) /\ WellStacked(stack)
      /\ Sets(s, d)
  BY Parts DEF Stop
<1>1. Gentle(c, e) /\ ~e.live
  BY <1>0, AbandonGentle DEF Gentle
<1> HIDE DEF e
<1>2. e \in WebSocket /\ Sound(e)
  BY <1>1 DEF Gentle
<1>3. d \in WebSocket
  BY <1>2 DEF WebSocket, Ready
<1>4. /\ d.state = e.state /\ d.handle = e.handle /\ d.closing = e.closing /\ d.live = e.live
      /\ d.held = e.held /\ d.buffered = e.buffered /\ d.attached = e.attached
      /\ d.shaken = e.shaken /\ d.told = e.told /\ d.failed = e.failed /\ d.heard = e.heard
      /\ d.ready = "CLOSED"
  BY <1>2 DEF WebSocket
<1> HIDE DEF d, c
<1>5. Gentle(c, d)
  BY <1>1, <1>2, <1>3, <1>4 DEF Gentle, Sound
<1>6. QED
  BY <1>0, <1>1, <1>4, <1>5, GentleStep DEF c

LEMMA TickFrames ==
  ASSUME NEW at \in {"update", "recv", "end"}, NEW it \in Socket \cup {None}
  PROVE  LET f == [at |-> at, it |-> it]
         IN  f \in Frame /\ ~Script(f) /\ (\A x : ~Tells(f, x) /\ ~Ends(f, x))
BY DEF Frame, TickFrame, Script, Tells, Ends

LEMMA ProcessFrames ==
  ASSUME NEW s \in Socket, NEW timer \in BOOLEAN, NEW stop \in BOOLEAN
  PROVE  LET f == [at |-> "process", it |-> s, timer |-> timer, stop |-> stop]
         IN  f \in Frame /\ ~Script(f) /\ (\A x : ~Tells(f, x) /\ ~Ends(f, x))
BY DEF Frame, ProcessFrame, Script, Tells, Ends

(* Where Tick goes, from a frame of its own, to another; and the channel.    *)
LEMMA Gotos ==
  ASSUME IInv, stack # <<>>, Top.at \in {"update", "recv", "end"}
  PROVE  /\ \A at \in {"recv", "end", "erase"} : Goto(at) = Becomes([at |-> at, it |-> Top.it])
         /\ Top.it \in Socket \cup {None}
         /\ \A x : ~Tells(Top, x) /\ ~Ends(Top, x)
<1>1. Top \in Frame
  BY Parts, Tops
<1>2. Top \in TickFrame
  BY <1>1 DEF Frame, ProcessFrame, ScriptFrame
<1>3. \A at \in {"recv", "end", "erase"} : [Top EXCEPT !.at = at] = [at |-> at, it |-> Top.it]
  BY <1>2 DEF TickFrame
<1>4. QED
  BY <1>2, <1>3 DEF Goto, TickFrame, Tells, Ends

LEMMA Stops ==
  ASSUME IInv, NEW s, At("process", s)
  PROVE  LET g == [Top EXCEPT !.stop = TRUE]
         IN  /\ Stopped = Becomes(g) /\ g \in Frame /\ ~Script(g) /\ \A x : ~Tells(g, x) /\ ~Ends(g, x)
             /\ stack # <<>> /\ s \in Socket /\ \A x : ~Tells(Top, x) /\ ~Ends(Top, x)
<1>1. Top \in Frame /\ Top.at = "process" /\ Top.it = s /\ stack # <<>>
  BY Parts, Tops DEF At, TopAt
<1>2. Top \in ProcessFrame
  BY <1>1 DEF Frame, TickFrame, ScriptFrame
<1> DEFINE g == [Top EXCEPT !.stop = TRUE]
<1>3. g \in ProcessFrame
  BY <1>2 DEF ProcessFrame
<1>4. s \in Socket
  BY <1>1, <1>2 DEF ProcessFrame
<1> HIDE DEF g
<1>5. g \in Frame /\ ~Script(g) /\ \A x : ~Tells(g, x) /\ ~Ends(g, x)
  BY <1>3 DEF Frame, ProcessFrame, Script, Tells, Ends
<1>6. \A x : ~Tells(Top, x) /\ ~Ends(Top, x)
  BY <1>1 DEF Tells, Ends
<1>7. QED
  BY <1>1, <1>4, <1>5, <1>6 DEF g, Stopped

(* The top frame becomes another, or returns, that neither tells an error    *)
(* nor is an event.                                                          *)
LEMMA TopMoves ==
  ASSUME IInv, stack # <<>>, \A x : ~Tells(Top, x) /\ ~Ends(Top, x),
         \/ stack' = Front(stack)
         \/ \E g \in Frame : /\ stack' = Becomes(g) /\ ~Script(g)
                             /\ \A x : ~Tells(g, x) /\ ~Ends(g, x)
  PROVE  /\ WellStacked(stack')
         /\ \A x : TellingIn(stack', x) <=> TellingIn(stack, x)
         /\ \A x, b : Ending(stack', x, b) <=> Ending(stack, x, b)
<1>1. /\ WellStacked(Front(stack))
      /\ \A x : TellingIn(Front(stack), x) <=> TellingIn(stack, x)
      /\ \A x, b : Ending(Front(stack), x, b) <=> Ending(stack, x, b)
  BY Parts, Tops
<1>2. CASE stack' = Front(stack)
  BY <1>1, <1>2
<1>3. ASSUME NEW g \in Frame, stack' = Becomes(g), ~Script(g), \A x : ~Tells(g, x) /\ ~Ends(g, x)
      PROVE  /\ WellStacked(stack')
             /\ \A x : TellingIn(stack', x) <=> TellingIn(stack, x)
             /\ \A x, b : Ending(stack', x, b) <=> Ending(stack, x, b)
  BY <1>1, <1>3, Parts, Replaces
<1>4. QED
  BY <1>2, <1>3

LEMMA UpdateKeeps ==
  ASSUME IInv, NEW s \in Socket, Update(s)
  PROVE  IInv'
<1>1. Top.at = "update" /\ Top.it = s /\ stack # <<>> /\ list' = list
  BY DEF Update, At, TopAt
<1>2. stack' = Goto("recv") \/ stack' = Goto("end")
  BY DEF Update
<1>3. /\ WellStacked(stack')
      /\ \A x : TellingIn(stack', x) <=> TellingIn(stack, x)
      /\ \A x, b : Ending(stack', x, b) <=> Ending(stack, x, b)
  BY <1>1, <1>2, Gotos, TickFrames, TopMoves
<1>4. CASE UNCHANGED sock
  BY <1>1, <1>3, <1>4, StackStep
<1>5. ASSUME NEW fails \in BOOLEAN, Sets(s, Connected(sock[s], fails))
      PROVE  IInv'
  BY <1>1, <1>3, <1>5, Parts, ConnectedGentle, SilentStep
<1>6. QED
  BY <1>4, <1>5 DEF Update

LEMMA ReceiveEndsKeeps ==
  ASSUME IInv, NEW s \in Socket, ReceiveEnds(s)
  PROVE  IInv'
<1>1. Top.at = "recv" /\ Top.it = s /\ stack # <<>> /\ list' = list /\ stack' = Goto("end")
  BY DEF ReceiveEnds, At, TopAt
<1>2. /\ WellStacked(stack')
      /\ \A x : TellingIn(stack', x) <=> TellingIn(stack, x)
      /\ \A x, b : Ending(stack', x, b) <=> Ending(stack, x, b)
  BY <1>1, Gotos, TickFrames, TopMoves
<1>3. PICK fails \in BOOLEAN : Sets(s, [sock[s] EXCEPT !.failed = @ \/ fails])
  BY DEF ReceiveEnds
<1> DEFINE c == sock[s]
           y == c.failed \/ fails
           d == [c EXCEPT !.failed = y]
<1>4. c \in WebSocket /\ Sound(c) /\ y \in BOOLEAN /\ Sets(s, d)
  BY <1>3, Parts
<1> HIDE DEF y, c
<1>5. d \in WebSocket
  BY <1>4 DEF WebSocket
<1>6. /\ d.state = c.state /\ d.handle = c.handle /\ d.closing = c.closing /\ d.live = c.live
      /\ d.held = c.held /\ d.buffered = c.buffered /\ d.attached = c.attached
      /\ d.shaken = c.shaken /\ d.told = c.told /\ d.failed = y /\ Same(c, d)
  BY <1>4 DEF WebSocket, Same
<1> HIDE DEF d
<1>7. Gentle(c, d)
  BY <1>4, <1>5, <1>6 DEF Gentle, Sound, y, Same
<1>8. QED
  BY <1>1, <1>2, <1>4, <1>6, <1>7, SilentStep DEF c

LEMMA KeepKeeps ==
  ASSUME IInv, NEW s \in Socket, Keep(s)
  PROVE  IInv'
<1>1. Top.at = "end" /\ Top.it = s /\ stack # <<>> /\ UNCHANGED <<list, sock>>
  BY DEF Keep, At, TopAt
<1>2. stack' = Becomes([at |-> "update", it |-> Following(s)]) /\ Following(s) \in Socket \cup {None}
  <2>1. list \in Seq(Socket) /\ InList(s)
    BY Parts DEF Keep
  <2>2. Position(s) \in DOMAIN list
    BY <2>1 DEF Position, InList
  <2>3. Following(s) \in Socket \cup {None}
    BY <2>1, <2>2 DEF Following
  <2>4. QED
    BY <2>3 DEF Keep
<1>3. /\ WellStacked(stack')
      /\ \A x : TellingIn(stack', x) <=> TellingIn(stack, x)
      /\ \A x, b : Ending(stack', x, b) <=> Ending(stack, x, b)
  BY <1>1, <1>2, Gotos, TickFrames, TopMoves
<1>4. QED
  BY <1>1, <1>3, StackStep

(* Fields no part of the invariant is about.                                 *)
Like(c, d) == /\ d.state = c.state /\ d.handle = c.handle /\ d.closing = c.closing
              /\ d.live = c.live /\ d.held = c.held /\ d.buffered = c.buffered /\ Else(c, d)

LEMMA LikeGentle ==
  ASSUME NEW c \in WebSocket, Sound(c), NEW d \in WebSocket, Like(c, d)
  PROVE  Gentle(c, d) /\ Same(c, d) /\ d.live = c.live
BY DEF Like, Else, Same, Gentle, Sound

(* What Tick and the loop of the channel do with a piece.                    *)
LEMMA Pieces ==
  ASSUME NEW c \in WebSocket, Sound(c)
  PROVE  /\ \A item \in Item : LET d == [c EXCEPT !.sent = @ + 1]
                                   e == [d EXCEPT !.data = Append(@, item)]
                               IN  d \in WebSocket /\ Like(c, d) /\ e \in WebSocket /\ Like(c, e)
         /\ c.data # <<>> => LET d == [c EXCEPT !.data = Tail(@)]
                             IN  d \in WebSocket /\ Like(c, d)
         /\ LET d == [c EXCEPT !.data = <<>>] IN d \in WebSocket /\ Like(c, d)
<1>1. c.sent + 1 \in Nat /\ c.data \in Seq(Item)
  BY DEF WebSocket
<1>2. [c EXCEPT !.sent = @ + 1] \in WebSocket /\ Like(c, [c EXCEPT !.sent = @ + 1])
  BY <1>1 DEF WebSocket, Like, Else, Same
<1>3. ASSUME NEW l \in Seq(Item), NEW b \in WebSocket
      PROVE  [b EXCEPT !.data = l] \in WebSocket /\ Like(b, [b EXCEPT !.data = l])
  BY DEF WebSocket, Like, Else, Same
<1>4. ASSUME NEW item \in Item
      PROVE  LET d == [c EXCEPT !.sent = @ + 1]
                 e == [d EXCEPT !.data = Append(@, item)]
             IN  d \in WebSocket /\ Like(c, d) /\ e \in WebSocket /\ Like(c, e)
  <2> DEFINE d == [c EXCEPT !.sent = @ + 1]
  <2>1. d \in WebSocket /\ Like(c, d)
    BY <1>2
  <2> HIDE DEF d
  <2>2. Append(d.data, item) \in Seq(Item)
    BY <2>1 DEF WebSocket
  <2>3. LET e == [d EXCEPT !.data = Append(@, item)] IN e \in WebSocket /\ Like(d, e)
    BY <1>3, <2>1, <2>2
  <2>4. QED
    BY <2>1, <2>3 DEF d, Like, Else, Same
<1>5. c.data # <<>> => Tail(c.data) \in Seq(Item)
  BY <1>1
<1>6. <<>> \in Seq(Item)
  OBVIOUS
<1>7. QED
  BY <1>3, <1>4, <1>5, <1>6

LEMMA ReceiveKeeps ==
  ASSUME IInv, NEW s \in Socket, Receive(s)
  PROVE  IInv'
<1> DEFINE c == sock[s]
           f == [at |-> "process", it |-> s, timer |-> FALSE, stop |-> FALSE]
<1>1. c \in WebSocket /\ Sound(c) /\ WellStacked(stack) /\ list' = list /\ Free
  BY Parts DEF Receive, Free, At, TopAt, Script
<1>2. PICK d : /\ d \in WebSocket /\ Like(c, d) /\ Sets(s, d)
               /\ stack' = stack \/ stack' = Append(stack, f)
  <2>1. PICK item \in Coming(c) :
          LET e == [c EXCEPT !.sent = @ + 1]
          IN  \/ Sets(s, [e EXCEPT !.data = Append(@, item)]) /\ stack' = Append(stack, f)
              \/ Sets(s, e) /\ UNCHANGED stack
    BY DEF Receive
  <2>2. item \in Item
    BY DEF Coming, Item
  <2>3. QED
    BY <1>1, <2>1, <2>2, Pieces
<1>3. /\ WellStacked(stack')
      /\ \A x : TellingIn(stack', x) <=> TellingIn(stack, x)
      /\ \A x, b : Ending(stack', x, b) <=> Ending(stack, x, b)
  BY <1>1, <1>2, ProcessFrames, Pushes
<1>4. QED
  BY <1>1, <1>2, <1>3, LikeGentle, SilentStep

(* The list once a socket is taken off it.                                   *)
LEMMA Removal ==
  ASSUME IInv, NEW s \in Socket, InList(s)
  PROVE  LET l == RemoveAt(list, Position(s))
         IN  /\ l \in Seq(Socket) /\ Following(s) \in Socket \cup {None}
             /\ \A i, j \in DOMAIN l : l[i] = l[j] => i = j
             /\ \A x : (\E i \in DOMAIN l : l[i] = x) <=> InList(x) /\ x # s
<1> DEFINE p == Position(s)
           n == Len(list)
           l == RemoveAt(list, p)
<1>1. list \in Seq(Socket) /\ n \in Nat /\ DOMAIN list = 1..n
  BY Parts
<1>2. p \in 1..n /\ list[p] = s
  BY <1>1 DEF Position, InList
<1>3. \A i, j \in 1..n : list[i] = list[j] => i = j
  BY <1>1 DEF IInv, NoRepeats
<1>4. Following(s) \in Socket \cup {None}
  BY <1>1, <1>2 DEF Following
<1> HIDE DEF p
<1>5. /\ l \in Seq(Socket) /\ Len(l) = n - 1 /\ DOMAIN l = 1..(n - 1)
      /\ \A j \in 1..(n - 1) : l[j] = IF j < p THEN list[j] ELSE list[j + 1]
  <2>1. /\ l \in Seq(Socket) /\ Len(l) = n - 1
        /\ \A j \in 1..(n - 1) : l[j] = IF j < p THEN list[j] ELSE list[j + 1]
    BY <1>1, <1>2, RemoveAtFacts
  <2> HIDE DEF l
  <2>2. QED
    BY <2>1
<1> HIDE DEF l
<1>6. ASSUME NEW i \in 1..(n - 1), NEW j \in 1..(n - 1), l[i] = l[j]
      PROVE  i = j
  <2>1. PICK u \in 1..n : u = (IF i < p THEN i ELSE i + 1) /\ l[i] = list[u]
    BY <1>1, <1>5
  <2>2. PICK v \in 1..n : v = (IF j < p THEN j ELSE j + 1) /\ l[j] = list[v]
    BY <1>1, <1>5
  <2>3. u = v
    BY <1>3, <1>6, <2>1, <2>2
  <2>4. QED
    BY <1>1, <1>2, <2>1, <2>2, <2>3
<1>7. ASSUME NEW x
      PROVE  (\E i \in 1..(n - 1) : l[i] = x) <=> (\E i \in 1..n : list[i] = x) /\ x # s
  <2>1. ASSUME NEW i \in 1..(n - 1), l[i] = x
        PROVE  (\E k \in 1..n : list[k] = x) /\ x # s
    <3>1. PICK u \in 1..n : u = (IF i < p THEN i ELSE i + 1) /\ l[i] = list[u]
      BY <1>1, <1>5
    <3>2. u # p
      BY <1>2, <3>1
    <3>3. QED
      BY <1>2, <1>3, <2>1, <3>1, <3>2
  <2>2. ASSUME NEW k \in 1..n, list[k] = x, x # s
        PROVE  \E i \in 1..(n - 1) : l[i] = x
    <3>1. k # p
      BY <1>2, <2>2
    <3>2. CASE k < p
      <4>1. k \in 1..(n - 1)
        BY <1>2, <3>2
      <4>2. QED
        BY <1>5, <2>2, <3>2, <4>1
    <3>3. CASE k > p
      <4>1. k - 1 \in 1..(n - 1) /\ ~(k - 1 < p) /\ (k - 1) + 1 = k
        BY <1>2, <3>3
      <4>2. l[k - 1] = list[k]
        BY <1>5, <4>1
      <4>3. QED
        BY <2>2, <4>1, <4>2
    <3>4. QED
      BY <1>2, <3>1, <3>2, <3>3
  <2>3. QED
    BY <2>1, <2>2
<1>8. QED
  BY <1>1, <1>4, <1>5, <1>6, <1>7 DEF l, p, InList

(* didCloseSocketStream, called in a Tick or by the resume timer.            *)
LEMMA ClosingStep ==
  ASSUME IInv, NEW s \in Socket, NEW c \in WebSocket, Sound(c), ~c.handle,
         c.ready = sock[s].ready, c.live = sock[s].live, c.suspended = sock[s].suspended,
         Sets(s, DidClose(c)), list' = list, WellStacked(stack'),
         InList(s) => TellingIn(stack', s),
         TellingIn(stack', s) => c.ready # "none",
         Ending(stack, s, c.suspended) => Ending(stack', s, c.suspended),
         \A x \in Socket \ {s} : TellingIn(stack', x) <=> TellingIn(stack, x),
         \A x \in Socket \ {s} : \A b : Ending(stack, x, b) => Ending(stack', x, b)
  PROVE  IInv'
<1> DEFINE d == DidClose(c)
<1>1. /\ d \in WebSocket /\ Sound(d) /\ ~d.handle /\ d.told
      /\ d.closing = c.closing /\ d.heard = c.heard /\ d.suspended = c.suspended
      /\ IF ClosesNow(c) THEN d.ready = "CLOSED" /\ ~d.live
                         ELSE d.ready = c.ready /\ (d.live => c.live)
  BY DidCloseSound
<1>2. Fine(s)
  BY Parts
<1> HIDE DEF d
<1>3. InList(s) => Listed(d, TellingIn(stack', s))
  BY <1>1, <1>2 DEF Listed, Fine
<1>4. d.live /\ d.ready = "CLOSED" => Ending(stack', s, d.suspended)
  BY <1>1, <1>2 DEF Fine
<1>5. TellingIn(stack', s) => d.ready # "none"
  BY <1>1
<1>6. Sets(s, d)
  BY DEF d
<1>7. QED
  BY <1>1, <1>3, <1>4, <1>5, <1>6, OneSocket

LEMMA TellErrorKeeps ==
  ASSUME IInv, NEW s \in Socket, TellError(s)
  PROVE  IInv'
<1> DEFINE c == sock[s]
           d == [c EXCEPT !.attached = FALSE, !.handle = FALSE]
           g == [at |-> "erase", it |-> s]
           f == EventFrame(s, "close")
           r == Front(stack)
<1>1. /\ Top.at = "end" /\ Top.it = s /\ stack # <<>> /\ list' = list /\ InList(s)
      /\ c \in WebSocket /\ Sound(c) /\ WellStacked(stack) /\ Fine(s)
  BY Parts DEF TellError, At, TopAt
<1>2. Goto("erase") = Becomes(g) /\ \A x : ~Tells(Top, x) /\ ~Ends(Top, x)
  BY <1>1, Gotos
<1>3. g \in Frame /\ ~Script(g) /\ \A x : (Tells(g, x) <=> x = s) /\ ~Ends(g, x)
  BY DEF Frame, TickFrame, Script, Tells, Ends
<1>4. /\ \A x : TellingIn(stack, x) <=> TellingIn(r, x)
      /\ \A x, b : Ending(stack, x, b) <=> Ending(r, x, b)
  BY <1>1, <1>2, Tops
<1>5. f \in Frame /\ Script(f) /\ ~f.brk /\ \A x : ~Tells(f, x) /\ (Ends(f, x) <=> x = s)
  BY EventFrames DEF Event
<1>6. /\ WellStacked(Becomes(g))
      /\ \A x : TellingIn(Becomes(g), x) <=> TellingIn(r, x) \/ x = s
      /\ \A x, b : Ending(Becomes(g), x, b) <=> Ending(r, x, b)
  BY <1>1, <1>3, Replaces
<1>7. /\ WellStacked(Append(Becomes(g), f))
      /\ \A x : TellingIn(Append(Becomes(g), f), x) <=> TellingIn(r, x) \/ x = s
      /\ \A x, b : Ending(Append(Becomes(g), f), x, b) <=> Ending(r, x, b) \/ x = s
  BY <1>1, <1>3, <1>5, ReplacesAndPushes
<1>8. c.ready # "none"
  BY <1>1 DEF Fine, Listed
<1> HIDE DEF g, f, r
<1>9. CASE ~c.attached
  <2>1. sock' = sock /\ stack' = Becomes(g)
    BY <1>2, <1>9 DEF TellError
  <2>2. sock \in [Socket -> WebSocket]
    BY Parts
  <2>3. Sets(s, c)
    BY <2>1, <2>2 DEF Sets
  <2>4. ~c.handle /\ TellingIn(stack, s)
    BY <1>1, <1>9 DEF Fine, Listed
  <2>5. Listed(c, TellingIn(stack', s))
    BY <1>1, <1>4, <1>6, <2>1, <2>4 DEF Fine, Listed
  <2>6. c.live /\ c.ready = "CLOSED" => Ending(stack', s, c.suspended)
    BY <1>1, <1>4, <1>6, <2>1 DEF Fine
  <2>7. QED
    BY <1>1, <1>4, <1>6, <1>8, <2>1, <2>3, <2>4, <2>5, <2>6, OneSocket
<1>10. CASE c.attached
  <2>1. d \in WebSocket
    BY <1>1 DEF WebSocket
  <2>2. /\ d.handle = FALSE /\ d.closing = c.closing /\ d.live = c.live /\ d.held = c.held
        /\ d.state = c.state /\ d.buffered = c.buffered /\ d.attached = FALSE
        /\ d.shaken = c.shaken /\ d.told = c.told /\ d.failed = c.failed /\ Same(c, d)
    BY <1>1 DEF WebSocket, Same
  <2>3. CallDidClose(s, d, Becomes(g))
    BY <1>2, <1>10 DEF TellError
  <2> HIDE DEF d
  <2>4. Sound(d)
    BY <1>1, <2>2 DEF Sound, Same
  <2>5. CASE ClosesNow(d)
    <3>1. Dispatch(s, DidClose(d), "close", Becomes(g))
      BY <2>3, <2>5 DEF CallDidClose
    <3> DEFINE e == DidClose(d)
               h == [e EXCEPT !.heard = "close"]
    <3>2. Sets(s, h) /\ stack' = Append(Becomes(g), f)
      BY <3>1 DEF Dispatch, f
    <3>3. e \in WebSocket /\ Sound(e) /\ ~e.handle /\ e.ready = "CLOSED" /\ ~e.live /\ e.told
      BY <2>1, <2>2, <2>4, <2>5, DidCloseSound
    <3> HIDE DEF e
    <3>4. h \in WebSocket
      BY <3>3 DEF WebSocket, Event
    <3>5. /\ h.handle = e.handle /\ h.closing = e.closing /\ h.live = e.live /\ h.held = e.held
          /\ h.state = e.state /\ h.buffered = e.buffered /\ h.shaken = e.shaken
          /\ h.told = e.told /\ h.failed = e.failed /\ h.ready = e.ready /\ h.heard = "close"
      BY <3>3 DEF WebSocket
    <3> HIDE DEF h
    <3>6. Sound(h)
      BY <3>3, <3>5 DEF Sound
    <3>7. TellingIn(stack', s) /\ Listed(h, TellingIn(stack', s))
      BY <1>7, <3>2, <3>3, <3>5 DEF Listed
    <3>8. /\ \A x \in Socket \ {s} : TellingIn(stack', x) <=> TellingIn(stack, x)
          /\ \A x \in Socket \ {s} : \A b : Ending(stack, x, b) => Ending(stack', x, b)
      BY <1>4, <1>7, <3>2
    <3>9. QED
      BY <1>1, <1>7, <3>2, <3>3, <3>4, <3>5, <3>6, <3>7, <3>8, OneSocket
  <2>6. CASE ~ClosesNow(d)
    <3>1. Sets(s, DidClose(d)) /\ stack' = Becomes(g)
      BY <2>3, <2>6 DEF CallDidClose
    <3>2. QED
      BY <1>1, <1>4, <1>6, <1>8, <2>1, <2>2, <2>4, <3>1, ClosingStep DEF Same
  <2>7. QED
    BY <2>5, <2>6
<1>11. QED
  BY <1>1, <1>9, <1>10 DEF WebSocket

LEMMA EraseKeeps ==
  ASSUME IInv, NEW s \in Socket, Erase(s)
  PROVE  IInv'
<1> DEFINE c == sock[s]
           d == Deleted(c)
           g == [at |-> "update", it |-> Following(s)]
           r == Front(stack)
<1>1. /\ stack # <<>> /\ Top.it = s /\ InList(s) /\ Sets(s, d)
      /\ list' = RemoveAt(list, Position(s)) /\ stack' = Becomes(g)
      /\ c \in WebSocket /\ Sound(c) /\ WellStacked(stack) /\ Fine(s)
      /\ sock \in [Socket -> WebSocket]
      /\ Top.at = "erase" \/ (Top.at = "end" /\ c.closing)
  BY Parts DEF Erase, At, TopAt
<1>2. /\ list' \in Seq(Socket) /\ Following(s) \in Socket \cup {None} /\ NoRepeats'
      /\ \A x : InList(x)' <=> InList(x) /\ x # s
  <2> DEFINE l == RemoveAt(list, Position(s))
  <2>1. /\ l \in Seq(Socket) /\ Following(s) \in Socket \cup {None}
        /\ \A i, j \in DOMAIN l : l[i] = l[j] => i = j
        /\ \A x : (\E i \in DOMAIN l : l[i] = x) <=> InList(x) /\ x # s
    BY <1>1, Removal
  <2> HIDE DEF l
  <2>2. list' = l
    BY <1>1 DEF l
  <2>3. \A x : InList(x)' <=> (\E i \in DOMAIN l : l[i] = x)
    BY <2>2 DEF InList
  <2>4. NoRepeats'
    BY <2>1, <2>2 DEF NoRepeats
  <2>5. QED
    BY <2>1, <2>2, <2>3, <2>4
<1>3. g \in Frame /\ ~Script(g) /\ \A x : ~Tells(g, x) /\ ~Ends(g, x)
  BY <1>2, TickFrames
<1>4. \A x : (Tells(Top, x) => x = s) /\ ~Ends(Top, x)
  BY <1>1 DEF Tells, Ends
<1> HIDE DEF g
<1>5. /\ WellStacked(stack')
      /\ \A x \in Socket \ {s} : TellingIn(stack', x) <=> TellingIn(stack, x)
      /\ \A x, b : Ending(stack', x, b) <=> Ending(stack, x, b)
  <2>1. /\ WellStacked(stack')
        /\ \A x : TellingIn(stack', x) <=> TellingIn(r, x)
        /\ \A x, b : Ending(stack', x, b) <=> Ending(r, x, b)
    BY <1>1, <1>3, Replaces
  <2>2. /\ \A x : TellingIn(stack, x) <=> TellingIn(r, x) \/ Tells(Top, x)
        /\ \A x, b : Ending(stack, x, b) <=> Ending(r, x, b)
    BY <1>1, <1>4, Tops
  <2>3. QED
    BY <1>4, <2>1, <2>2
<1>6. ~c.handle /\ c.ready # "none"
  <2>1. Top.at = "erase" => TellingIn(stack, s)
    BY <1>1, Tops DEF Tells
  <2>2. QED
    BY <1>1, <2>1 DEF Fine, Listed, Sound
<1>7. d \in WebSocket
  BY <1>1 DEF WebSocket, Deleted
<1>8. /\ d.handle = c.handle /\ d.live = c.live /\ d.held = c.held /\ d.told = c.told
      /\ d.state = c.state /\ d.buffered = c.buffered /\ d.shaken = c.shaken /\ Same(c, d)
  BY <1>1 DEF WebSocket, Deleted, Same
<1> HIDE DEF d
<1>9. sock' \in [Socket -> WebSocket] /\ sock'[s] = d /\ \A x \in Socket \ {s} : sock'[x] = sock[x]
  BY <1>1, <1>7 DEF Sets
<1>10. TypeOK'
  BY <1>2, <1>5, <1>9 DEF TypeOK, WellStacked
<1>11. Fine(s)'
  BY <1>1, <1>2, <1>5, <1>6, <1>8, <1>9 DEF Fine, Sound, Same
<1>12. ASSUME NEW x \in Socket \ {s}
       PROVE  Fine(x)'
  <2>1. Fine(x)
    BY Parts
  <2>2. QED
    BY <1>2, <1>5, <1>9, <2>1 DEF Fine, Listed
<1>13. QED
  BY <1>2, <1>5, <1>10, <1>11, <1>12 DEF IInv

LEMMA TickKeeps ==
  ASSUME IInv, Tick
  PROVE  IInv'
<1>1. Free /\ UNCHANGED <<list, sock>> /\ WellStacked(stack)
  BY Parts DEF Tick, AppRuns, Idle, Free, TopAt
<1>2. stack' = Append(stack, [at |-> "update", it |-> First(list)]) /\ First(list) \in Socket \cup {None}
  <2>1. list \in Seq(Socket)
    BY Parts
  <2>2. QED
    BY <2>1 DEF Tick, First
<1>3. /\ WellStacked(stack')
      /\ \A x : TellingIn(stack', x) <=> TellingIn(stack, x)
      /\ \A x, b : Ending(stack', x, b) <=> Ending(stack, x, b)
  BY <1>1, <1>2, TickFrames, Pushes
<1>4. QED
  BY <1>1, <1>3, StackStep

LEMMA TickDoneKeeps ==
  ASSUME IInv, TickDone
  PROVE  IInv'
<1>1. /\ stack # <<>> /\ Top.at = "update" /\ stack' = Front(stack) /\ UNCHANGED <<list, sock>>
  BY DEF TickDone, At, TopAt
<1>2. \A x : ~Tells(Top, x) /\ ~Ends(Top, x)
  BY <1>1, Gotos
<1>3. QED
  BY <1>1, <1>2, TopMoves, StackStep

LEMMA ShutdownKeeps ==
  ASSUME IInv, Shutdown
  PROVE  IInv'
<1>1. /\ stack = <<>> /\ stack' = <<>> /\ list' = <<>>
      /\ sock' = [s \in Socket |-> Deleted(sock[s])]
      /\ \A s \in Socket : ~sock[s].live
  BY DEF Shutdown, Idle
<1>2. ASSUME NEW s \in Socket
      PROVE  /\ Deleted(sock[s]) \in WebSocket /\ Sound(Deleted(sock[s]))
             /\ ~Deleted(sock[s]).handle /\ ~Deleted(sock[s]).live
  <2> DEFINE c == sock[s]
             d == Deleted(c)
  <2>1. c \in WebSocket /\ Sound(c) /\ ~c.live
    BY <1>1, Parts
  <2> HIDE DEF c
  <2>2. d \in WebSocket
    BY <2>1 DEF WebSocket, Deleted
  <2>3. /\ d.handle = c.handle /\ d.live = c.live /\ d.held = c.held /\ d.told = c.told
        /\ d.state = c.state /\ d.buffered = c.buffered /\ d.shaken = c.shaken /\ Same(c, d)
    BY <2>1 DEF WebSocket, Deleted, Same
  <2> HIDE DEF d
  <2>4. Sound(d) /\ ~d.handle /\ ~d.live
    BY <2>1, <2>3 DEF Sound, Same
  <2>5. QED
    BY <2>2, <2>4 DEF c, d
<1>3. /\ sock' \in [Socket -> WebSocket]
      /\ \A s \in Socket : Sound(sock'[s]) /\ ~sock'[s].handle /\ ~sock'[s].live
  BY <1>1, <1>2
<1>4. /\ <<>> \in Seq(Socket) /\ <<>> \in Seq(Frame) /\ DOMAIN <<>> = {}
  OBVIOUS
<1>5. TypeOK' /\ WellStacked(stack') /\ NoRepeats'
  BY <1>1, <1>3, <1>4 DEF TypeOK, WellStacked, NoRepeats, OneBreaks, IInv
<1>6. \A x : ~InList(x)' /\ ~TellingIn(stack', x)
  BY <1>1, <1>4 DEF InList, TellingIn
<1>7. \A s \in Socket : Fine(s)'
  BY <1>3, <1>6 DEF Fine
<1>8. QED
  BY <1>5, <1>7 DEF IInv

LEMMA RunScriptKeeps ==
  ASSUME IInv, RunScript
  PROVE  IInv'
<1> DEFINE f == [at |-> "script", it |-> None, event |-> "none", brk |-> FALSE]
<1>1. Free /\ UNCHANGED <<list, sock>> /\ WellStacked(stack) /\ stack' = Append(stack, f)
  BY Parts DEF RunScript, Idle, Free
<1>2. f \in Frame /\ ~f.brk /\ \A x : ~Tells(f, x) /\ ~Ends(f, x)
  BY DEF Frame, ScriptFrame, Tells, Ends
<1> HIDE DEF f
<1>3. /\ WellStacked(stack')
      /\ \A x : TellingIn(stack', x) <=> TellingIn(stack, x)
      /\ \A x, b : Ending(stack', x, b) <=> Ending(stack, x, b)
  BY <1>1, <1>2, Pushes
<1>4. QED
  BY <1>1, <1>3, StackStep

(* Script is stopped, or goes on: the top frame changes in brk alone.        *)
LEMMA BrkFrames ==
  ASSUME IInv, TopAt("script"), NEW b \in BOOLEAN
  PROVE  LET g == [Top EXCEPT !.brk = b]
         IN  /\ g \in Frame /\ Script(g) /\ g.brk = b
             /\ \A x : (Ends(g, x) <=> Ends(Top, x)) /\ ~Tells(g, x) /\ ~Tells(Top, x)
<1>1. Top \in Frame /\ Top.at = "script"
  BY Parts, Tops DEF TopAt
<1>2. Top \in ScriptFrame
  BY <1>1 DEF Frame, TickFrame, ProcessFrame
<1> DEFINE g == [Top EXCEPT !.brk = b]
<1>3. g \in ScriptFrame /\ g.brk = b /\ g.at = Top.at /\ g.it = Top.it /\ g.event = Top.event
  BY <1>2 DEF ScriptFrame
<1> HIDE DEF g
<1>4. g \in Frame /\ Script(g)
  BY <1>1, <1>3 DEF Frame, Script
<1>5. \A x : ~Tells(g, x) /\ ~Tells(Top, x)
  BY <1>1, <1>3 DEF Tells
<1>6. \A x : Ends(g, x) <=> Ends(Top, x)
  BY <1>3 DEF Ends
<1>7. QED
  BY <1>3, <1>4, <1>5, <1>6 DEF g

(* Suspending and resuming leaves what the invariant is about.               *)
LEMMA AllSockets ==
  ASSUME IInv, list' = list, WellStacked(stack'), sock' \in [Socket -> WebSocket],
         \A x \in Socket :
           LET c == sock[x]
               d == sock'[x]
           IN  /\ d.state = c.state /\ d.handle = c.handle /\ d.closing = c.closing
               /\ d.live = c.live /\ d.held = c.held /\ d.buffered = c.buffered
               /\ d.attached = c.attached /\ d.shaken = c.shaken /\ d.told = c.told
               /\ d.failed = c.failed /\ d.ready = c.ready /\ d.heard = c.heard
               /\ c.live /\ c.ready = "CLOSED" => Ending(stack', x, d.suspended),
         \A x : TellingIn(stack', x) <=> TellingIn(stack, x)
  PROVE  IInv'
<1>1. TypeOK' /\ NoRepeats'
  BY DEF IInv, TypeOK, NoRepeats, WellStacked
<1>2. \A x : InList(x)' <=> InList(x)
  BY DEF InList
<1>3. ASSUME NEW x \in Socket
      PROVE  Fine(x)'
  <2>1. Fine(x)
    BY Parts
  <2>2. QED
    BY <1>2, <2>1 DEF Fine, Listed, Sound
<1>4. QED
  BY <1>1, <1>3 DEF IInv

LEMMA BreakKeeps ==
  ASSUME IInv, Break
  PROVE  IInv'
<1> DEFINE g == [Top EXCEPT !.brk = TRUE]
           r == Front(stack)
<1>1. /\ TopAt("script") /\ ~Broken /\ stack # <<>> /\ list' = list /\ stack' = Becomes(g)
      /\ WellStacked(stack) /\ sock \in [Socket -> WebSocket]
      /\ sock' = [s \in Socket |-> [sock[s] EXCEPT !.suspended = @ \/ sock[s].live]]
  BY Parts DEF Break, ScriptRuns, TopAt
<1>2. /\ g \in Frame /\ Script(g) /\ g.brk
      /\ \A x : (Ends(g, x) <=> Ends(Top, x)) /\ ~Tells(g, x) /\ ~Tells(Top, x)
  BY <1>1, BrkFrames
<1> HIDE DEF g
<1>3. /\ r \in Seq(Frame) /\ AllBreak(r) /\ OneBreaks(r) /\ stack' = Append(r, g)
      /\ \A x : TellingIn(stack, x) <=> TellingIn(r, x)
      /\ \A x, b : Ending(stack, x, b) <=> Ending(r, x, b) \/ (Ends(Top, x) /\ (Top.brk => b))
  BY <1>1, <1>2, Tops
<1>4. NoneBreaks(r)
  <2>1. stack \in Seq(Frame)
    BY Parts
  <2>2. /\ Len(r) = Len(stack) - 1 /\ \A i \in 1..(Len(stack) - 1) : r[i] = stack[i]
        /\ Len(stack) \in Nat /\ DOMAIN stack = 1..Len(stack) /\ DOMAIN r = 1..Len(r)
    BY <1>1, <1>3, <2>1, FrontFacts
  <2>3. QED
    BY <1>1, <2>2, UpTo DEF Broken, NoneBreaks, Script
<1> HIDE DEF r
<1>5. /\ WellStacked(stack')
      /\ \A x : TellingIn(stack', x) <=> TellingIn(stack, x)
      /\ \A x, b : Ending(stack, x, b) => Ending(stack', x, TRUE)
  <2>1. \A x, b : Ending(r, x, b) => Ending(r, x, TRUE)
    BY DEF Ending
  <2>2. /\ \A x : TellingIn(stack', x) <=> TellingIn(r, x) \/ Tells(g, x)
        /\ \A x, b : Ending(stack', x, b) <=> Ending(r, x, b) \/ (Ends(g, x) /\ (g.brk => b))
        /\ WellStacked(stack')
    BY <1>2, <1>3, <1>4, Appended
  <2>3. \A x, b : Ending(stack, x, b) => Ending(stack', x, TRUE)
    BY <1>2, <1>3, <2>1, <2>2
  <2>4. QED
    BY <1>2, <1>3, <2>2, <2>3
<1>6. ASSUME NEW x \in Socket
      PROVE  LET c == sock[x]
                 d == sock'[x]
             IN  /\ d \in WebSocket /\ d.suspended = (c.suspended \/ c.live)
                 /\ d.state = c.state /\ d.handle = c.handle /\ d.closing = c.closing
                 /\ d.live = c.live /\ d.held = c.held /\ d.buffered = c.buffered
                 /\ d.attached = c.attached /\ d.shaken = c.shaken /\ d.told = c.told
                 /\ d.failed = c.failed /\ d.ready = c.ready /\ d.heard = c.heard
  <2> DEFINE c == sock[x]
             y == c.suspended \/ c.live
             d == [c EXCEPT !.suspended = y]
  <2>1. c \in WebSocket /\ y \in BOOLEAN /\ sock'[x] = d
    BY <1>1
  <2> HIDE DEF c, y
  <2>2. d \in WebSocket
    BY <2>1 DEF WebSocket
  <2>3. /\ d.suspended = y /\ d.state = c.state /\ d.handle = c.handle /\ d.closing = c.closing
        /\ d.live = c.live /\ d.held = c.held /\ d.buffered = c.buffered
        /\ d.attached = c.attached /\ d.shaken = c.shaken /\ d.told = c.told
        /\ d.failed = c.failed /\ d.ready = c.ready /\ d.heard = c.heard
    BY <2>1 DEF WebSocket
  <2> HIDE DEF d
  <2>4. QED
    BY <2>1, <2>2, <2>3 DEF c, y
<1>7. sock' \in [Socket -> WebSocket]
  BY <1>1, <1>6
<1>8. \A x \in Socket : sock[x].live /\ sock[x].ready = "CLOSED" => Ending(stack', x, sock'[x].suspended)
  <2> SUFFICES ASSUME NEW x \in Socket, sock[x].live, sock[x].ready = "CLOSED"
               PROVE  Ending(stack', x, sock'[x].suspended)
    OBVIOUS
  <2>1. Ending(stack, x, sock[x].suspended)
    BY Parts DEF Fine
  <2>2. sock'[x].suspended = TRUE
    BY <1>6
  <2>3. QED
    BY <1>5, <2>1, <2>2
<1>9. QED
  BY <1>1, <1>5, <1>6, <1>7, <1>8, AllSockets

LEMMA ResumeKeeps ==
  ASSUME IInv, Resume
  PROVE  IInv'
<1> DEFINE g == [Top EXCEPT !.brk = FALSE]
           r == Front(stack)
<1>1. /\ TopAt("script") /\ Top.brk /\ stack # <<>> /\ list' = list /\ stack' = Becomes(g)
      /\ WellStacked(stack) /\ sock \in [Socket -> WebSocket]
      /\ sock' = [s \in Socket |->
           IF sock[s].live
           THEN [sock[s] EXCEPT !.suspended = FALSE,
                                !.resuming = @ \/ sock[s].data # <<>> \/ sock[s].told]
           ELSE sock[s]]
  BY Parts DEF Resume, TopAt
<1>2. /\ g \in Frame /\ Script(g) /\ ~g.brk /\ Script(Top)
      /\ \A x : (Ends(g, x) <=> Ends(Top, x)) /\ ~Tells(g, x) /\ ~Tells(Top, x)
  BY <1>1, BrkFrames DEF TopAt, Script
<1> HIDE DEF g
<1>3. /\ r \in Seq(Frame) /\ AllBreak(r) /\ OneBreaks(r) /\ NoneBreaks(r) /\ stack' = Append(r, g)
      /\ \A x : TellingIn(stack, x) <=> TellingIn(r, x)
      /\ \A x, b : Ending(stack, x, b) <=> Ending(r, x, b) \/ (Ends(Top, x) /\ (Top.brk => b))
  BY <1>1, <1>2, Tops
<1> HIDE DEF r
<1>4. \A x, b : ~Ending(r, x, b)
  BY <1>3 DEF Ending, Ends, AllBreak, NoneBreaks, Script
<1>5. /\ WellStacked(stack')
      /\ \A x : TellingIn(stack', x) <=> TellingIn(stack, x)
      /\ \A x, b : Ending(stack, x, b) => Ending(stack', x, FALSE)
  <2>1. /\ \A x : TellingIn(stack', x) <=> TellingIn(r, x) \/ Tells(g, x)
        /\ \A x, b : Ending(stack', x, b) <=> Ending(r, x, b) \/ (Ends(g, x) /\ (g.brk => b))
        /\ WellStacked(stack')
    BY <1>2, <1>3, Appended
  <2>2. QED
    BY <1>2, <1>3, <1>4, <2>1
<1>6. ASSUME NEW x \in Socket
      PROVE  LET c == sock[x]
                 d == sock'[x]
             IN  /\ d \in WebSocket /\ (c.live => d.suspended = FALSE)
                 /\ d.state = c.state /\ d.handle = c.handle /\ d.closing = c.closing
                 /\ d.live = c.live /\ d.held = c.held /\ d.buffered = c.buffered
                 /\ d.attached = c.attached /\ d.shaken = c.shaken /\ d.told = c.told
                 /\ d.failed = c.failed /\ d.ready = c.ready /\ d.heard = c.heard
  <2> DEFINE c == sock[x]
             y == c.resuming \/ c.data # <<>> \/ c.told
             d == [c EXCEPT !.suspended = FALSE, !.resuming = y]
  <2>1. c \in WebSocket /\ y \in BOOLEAN /\ sock'[x] = IF c.live THEN d ELSE c
    BY <1>1
  <2> HIDE DEF c, y
  <2>2. d \in WebSocket
    BY <2>1 DEF WebSocket
  <2>3. /\ d.suspended = FALSE /\ d.state = c.state /\ d.handle = c.handle /\ d.closing = c.closing
        /\ d.live = c.live /\ d.held = c.held /\ d.buffered = c.buffered
        /\ d.attached = c.attached /\ d.shaken = c.shaken /\ d.told = c.told
        /\ d.failed = c.failed /\ d.ready = c.ready /\ d.heard = c.heard
    BY <2>1 DEF WebSocket
  <2> HIDE DEF d
  <2>4. CASE c.live
    BY <2>1, <2>2, <2>3, <2>4 DEF c
  <2>5. CASE ~c.live
    BY <2>1, <2>5 DEF c
  <2>6. QED
    BY <2>4, <2>5
<1>7. sock' \in [Socket -> WebSocket]
  BY <1>1, <1>6
<1>8. \A x \in Socket : sock[x].live /\ sock[x].ready = "CLOSED" => Ending(stack', x, sock'[x].suspended)
  <2> SUFFICES ASSUME NEW x \in Socket, sock[x].live, sock[x].ready = "CLOSED"
               PROVE  Ending(stack', x, sock'[x].suspended)
    OBVIOUS
  <2>1. Ending(stack, x, sock[x].suspended)
    BY Parts DEF Fine
  <2>2. sock'[x].suspended = FALSE
    BY <1>6
  <2>3. QED
    BY <1>5, <2>1, <2>2
<1>9. QED
  BY <1>1, <1>5, <1>6, <1>7, <1>8, AllSockets

LEMMA ScriptReturnsKeeps ==
  ASSUME IInv, ScriptReturns
  PROVE  IInv'
<1> DEFINE r == Front(stack)
<1>1. /\ stack # <<>> /\ Top.at = "script" /\ ~Top.brk /\ stack' = r /\ list' = list
      /\ WellStacked(stack) /\ sock \in [Socket -> WebSocket]
  BY Parts DEF ScriptReturns, ScriptRuns, TopAt
<1>2. /\ WellStacked(r) /\ Top \in Frame
      /\ \A x : TellingIn(r, x) <=> TellingIn(stack, x)
      /\ \A x, b : Ending(stack, x, b) <=> Ending(r, x, b) \/ Ends(Top, x)
  BY <1>1, Tops DEF Tells
<1> HIDE DEF r
<1>3. Top.event # "none" => Top.it \in Socket
  BY <1>1, <1>2, Frames
<1>4. \/ Top.event = "error" /\ Sets(Top.it, Fail(sock[Top.it]))
      \/ Top.event = "close" /\ Sets(Top.it, Abandon(sock[Top.it]))
      \/ Top.event # "close" /\ UNCHANGED sock
  BY DEF ScriptReturns
<1>5. CASE Top.event = "error" /\ Sets(Top.it, Fail(sock[Top.it]))
  <2>1. \A x : ~Ends(Top, x)
    BY <1>5 DEF Ends
  <2>2. QED
    BY <1>1, <1>2, <1>3, <1>5, <2>1, Parts, FailGentle, SilentStep
<1>6. CASE Top.event = "close" /\ Sets(Top.it, Abandon(sock[Top.it]))
  <2>1. \A x \in Socket \ {Top.it} : ~Ends(Top, x)
    BY DEF Ends
  <2>2. QED
    BY <1>1, <1>2, <1>3, <1>6, <2>1, Parts, AbandonGentle, GentleStep
<1>7. CASE Top.event # "close" /\ UNCHANGED sock
  <2>1. \A x : ~Ends(Top, x)
    BY <1>7 DEF Ends
  <2>2. QED
    BY <1>1, <1>2, <1>7, <2>1, StackStep
<1>8. QED
  BY <1>4, <1>5, <1>6, <1>7

LEMMA GentleThen ==
  ASSUME NEW c, NEW d, NEW e, Gentle(c, d), Gentle(d, e)
  PROVE  Gentle(c, e)
BY DEF Gentle

(* A step of the loop of the channel that calls no script.                   *)
LEMMA LoopMoves ==
  ASSUME IInv, NEW s \in Socket, At("process", s), stack' = Stopped \/ stack' = Front(stack)
  PROVE  /\ WellStacked(stack')
         /\ \A x : TellingIn(stack', x) <=> TellingIn(stack, x)
         /\ \A x, b : Ending(stack', x, b) <=> Ending(stack, x, b)
<1> DEFINE g == [Top EXCEPT !.stop = TRUE]
<1>1. /\ Stopped = Becomes(g) /\ g \in Frame /\ ~Script(g) /\ \A x : ~Tells(g, x) /\ ~Ends(g, x)
      /\ stack # <<>> /\ \A x : ~Tells(Top, x) /\ ~Ends(Top, x)
  BY Stops
<1> HIDE DEF g
<1>2. QED
  BY <1>1, TopMoves

(* What the loop makes of the record before it goes on.                      *)
LEMMA Marks ==
  ASSUME NEW c \in WebSocket, Sound(c)
  PROVE  /\ LET d == [c EXCEPT !.discard = TRUE] IN d \in WebSocket /\ Like(c, d)
         /\ LET d == [c EXCEPT !.received = TRUE] IN d \in WebSocket /\ Like(c, d)
         /\ LET d == [c EXCEPT !.data = <<>>, !.discard = TRUE] IN d \in WebSocket /\ Like(c, d)
         /\ LET d == [c EXCEPT !.resuming = FALSE] IN d \in WebSocket /\ Like(c, d)
         /\ LET d == [c EXCEPT !.timeout = FALSE] IN d \in WebSocket /\ Like(c, d)
<1>0. <<>> \in Seq(Item)
  OBVIOUS
<1>1. LET d == [c EXCEPT !.discard = TRUE] IN d \in WebSocket /\ Like(c, d)
  BY DEF WebSocket, Like, Else, Same
<1>2. LET d == [c EXCEPT !.received = TRUE] IN d \in WebSocket /\ Like(c, d)
  BY DEF WebSocket, Like, Else, Same
<1>3. LET d == [c EXCEPT !.data = <<>>, !.discard = TRUE] IN d \in WebSocket /\ Like(c, d)
  BY <1>0 DEF WebSocket, Like, Else, Same
<1>4. LET d == [c EXCEPT !.resuming = FALSE] IN d \in WebSocket /\ Like(c, d)
  BY DEF WebSocket, Like, Else, Same
<1>5. LET d == [c EXCEPT !.timeout = FALSE] IN d \in WebSocket /\ Like(c, d)
  BY DEF WebSocket, Like, Else, Same
<1>6. QED
  BY <1>1, <1>2, <1>3, <1>4, <1>5

LEMMA LoopState ==
  ASSUME IInv, NEW s \in Socket, Processing(s)
  PROVE  /\ At("process", s) /\ Free /\ WellStacked(stack) /\ sock[s].live /\ ~sock[s].suspended
         /\ sock[s] \in WebSocket /\ Sound(sock[s])
         /\ LET t == Taken(s) IN t \in WebSocket /\ Like(sock[s], t) /\ Sound(t)
<1>1. /\ At("process", s) /\ Free /\ WellStacked(stack) /\ sock[s].live /\ ~sock[s].suspended
      /\ sock[s] \in WebSocket /\ Sound(sock[s]) /\ sock[s].data # <<>>
  BY Parts DEF Processing, At, TopAt, Free, Script
<1>2. LET t == Taken(s) IN t \in WebSocket /\ Like(sock[s], t)
  BY <1>1, Pieces DEF Taken
<1>3. QED
  BY <1>1, <1>2, LikeGentle DEF Gentle

LEMMA DiscardDataKeeps ==
  ASSUME IInv, NEW s \in Socket, DiscardData(s)
  PROVE  IInv'
<1>1. /\ At("process", s) /\ sock[s] \in WebSocket /\ Sound(sock[s])
      /\ stack' = Stopped /\ list' = list
  BY LoopState DEF DiscardData
<1>2. Sets(s, sock[s]) \/ Sets(s, [sock[s] EXCEPT !.data = <<>>])
  BY DEF DiscardData
<1>3. Like(sock[s], sock[s])
  BY DEF Like, Else, Same
<1>4. QED
  BY <1>1, <1>2, <1>3, LoopMoves, Pieces, LikeGentle, SilentStep

(* The channel fails, as a handshake or a frame is wrong.                    *)
LEMMA LoopFails ==
  ASSUME IInv, NEW s \in Socket, At("process", s), stack' = Stopped, list' = list,
         NEW d \in WebSocket, Like(sock[s], d), Sets(s, Fail(d))
  PROVE  IInv'
<1>1. sock[s] \in WebSocket /\ Sound(sock[s])
  BY Parts
<1>2. Gentle(sock[s], d) /\ Same(sock[s], d) /\ d.live = sock[s].live /\ Sound(d)
  BY <1>1, LikeGentle DEF Gentle
<1>3. Gentle(d, Fail(d)) /\ Same(d, Fail(d)) /\ Fail(d).live = d.live
  BY <1>2, FailGentle
<1>4. Gentle(sock[s], Fail(d)) /\ Same(sock[s], Fail(d)) /\ Fail(d).live = sock[s].live
  BY <1>2, <1>3, GentleThen DEF Same
<1>5. QED
  BY <1>4, LoopMoves, SilentStep

LEMMA RefuseHandshakeKeeps ==
  ASSUME IInv, NEW s \in Socket, RefuseHandshake(s)
  PROVE  IInv'
<1> DEFINE t == Taken(s)
           d == [t EXCEPT !.discard = TRUE]
<1>1. /\ At("process", s) /\ stack' = Stopped /\ list' = list /\ Sets(s, Fail(d))
      /\ t \in WebSocket /\ Like(sock[s], t) /\ Sound(t)
  BY LoopState DEF RefuseHandshake, Reads
<1> HIDE DEF t
<1>2. d \in WebSocket /\ Like(t, d)
  BY <1>1, Marks
<1>3. Like(sock[s], d)
  BY <1>1, <1>2 DEF Like, Else, Same
<1>4. QED
  BY <1>1, <1>2, <1>3, LoopFails

(* An event is dispatched: the record but for ready, shaken and heard is c.  *)
Base(c, d) == /\ d.state = c.state /\ d.handle = c.handle /\ d.closing = c.closing
              /\ d.live = c.live /\ d.held = c.held /\ d.buffered = c.buffered
              /\ d.attached = c.attached /\ d.told = c.told /\ d.failed = c.failed
              /\ d.suspended = c.suspended

LEMMA HeardGentle ==
  ASSUME NEW c \in WebSocket, Sound(c), NEW d \in WebSocket, Base(c, d), d.ready # "none",
         NEW event \in Event
  PROVE  LET h == [d EXCEPT !.heard = event]
         IN  Gentle(c, h) /\ h.ready = d.ready /\ h.live = c.live /\ h.suspended = c.suspended
<1> DEFINE h == [d EXCEPT !.heard = event]
<1>1. h \in WebSocket
  BY DEF WebSocket
<1>2. Base(d, h) /\ h.ready = d.ready /\ h.heard = event /\ h.shaken = d.shaken
  BY DEF WebSocket, Base
<1>3. event # "none"
  BY DEF Event
<1> HIDE DEF h
<1>4. QED
  BY <1>1, <1>2, <1>3 DEF Base, Gentle, Sound, h

LEMMA DispatchKeeps ==
  ASSUME IInv, NEW s \in Socket, NEW d \in WebSocket, Base(sock[s], d), d.ready # "none",
         NEW event \in Event, d.ready = "CLOSED" => event = "close",
         NEW frames \in Seq(Frame), AllBreak(frames), OneBreaks(frames),
         \A x : TellingIn(frames, x) <=> TellingIn(stack, x),
         \A x, b : Ending(frames, x, b) <=> Ending(stack, x, b),
         Dispatch(s, d, event, frames), list' = list
  PROVE  IInv'
<1> DEFINE h == [d EXCEPT !.heard = event]
           f == EventFrame(s, event)
<1>1. sock[s] \in WebSocket /\ Sound(sock[s])
  BY Parts
<1>2. /\ Gentle(sock[s], h) /\ h.ready = d.ready
  BY <1>1, HeardGentle
<1>3. f \in Frame /\ Script(f) /\ ~f.brk /\ \A x : ~Tells(f, x) /\ (Ends(f, x) <=> x = s /\ event = "close")
  BY EventFrames
<1>4. Sets(s, h) /\ stack' = Append(frames, f)
  BY DEF Dispatch
<1> HIDE DEF h, f
<1>5. /\ WellStacked(stack')
      /\ \A x : TellingIn(stack', x) <=> TellingIn(frames, x) \/ Tells(f, x)
      /\ \A x, b : Ending(stack', x, b) <=> Ending(frames, x, b) \/ (Ends(f, x) /\ (f.brk => b))
  BY <1>3, <1>4, Appended
<1>6. h.ready = "CLOSED" => Ending(stack', s, h.suspended)
  BY <1>2, <1>3, <1>5
<1>7. QED
  BY <1>2, <1>3, <1>4, <1>5, <1>6, GentleStep

LEMMA ShakeHandsKeeps ==
  ASSUME IInv, NEW s \in Socket, ShakeHands(s)
  PROVE  IInv'
<1> DEFINE t == Taken(s)
           e == [t EXCEPT !.shaken = TRUE]
<1>1. /\ Free /\ WellStacked(stack) /\ list' = list
      /\ t \in WebSocket /\ Like(sock[s], t)
  BY LoopState DEF ShakeHands, Reads
<1>2. \/ Dispatch(s, [e EXCEPT !.ready = "OPEN"], "open", stack)
      \/ Dispatch(s, [e EXCEPT !.ready = "CLOSED"], "close", stack)
  BY DEF ShakeHands
<1> HIDE DEF t
<1>3. e \in WebSocket /\ Base(t, e)
  BY <1>1 DEF WebSocket, Base
<1> HIDE DEF e
<1>4. ASSUME NEW ready \in {"OPEN", "CLOSED"}
      PROVE  LET d == [e EXCEPT !.ready = ready]
             IN  d \in WebSocket /\ Base(sock[s], d) /\ d.ready = ready
  <2> DEFINE d == [e EXCEPT !.ready = ready]
  <2>1. d \in WebSocket
    BY <1>3 DEF WebSocket, Ready
  <2>2. Base(e, d) /\ d.ready = ready
    BY <1>3 DEF WebSocket, Base
  <2> HIDE DEF d
  <2>3. Base(sock[s], d)
    BY <1>1, <1>3, <2>2 DEF Base, Like, Else, Same
  <2>4. QED
    BY <2>1, <2>2, <2>3 DEF d
<1>5. stack \in Seq(Frame) /\ AllBreak(stack) /\ OneBreaks(stack)
  <2> DEFINE f == EventFrame(s, "open")
  <2>1. f \in Frame /\ ~f.brk
    BY EventFrames DEF Event
  <2> HIDE DEF f
  <2>2. QED
    BY <1>1, <2>1, Pushes DEF WellStacked
<1>6. "open" \in Event /\ "close" \in Event
  BY DEF Event
<1>7. CASE Dispatch(s, [e EXCEPT !.ready = "OPEN"], "open", stack)
  BY <1>1, <1>4, <1>5, <1>6, <1>7, DispatchKeeps
<1>8. CASE Dispatch(s, [e EXCEPT !.ready = "CLOSED"], "close", stack)
  BY <1>1, <1>4, <1>5, <1>6, <1>8, DispatchKeeps
<1>9. QED
  BY <1>2, <1>7, <1>8

LEMMA FreeStack ==
  ASSUME IInv, Free
  PROVE  stack \in Seq(Frame) /\ AllBreak(stack) /\ OneBreaks(stack)
<1> DEFINE f == [at |-> "update", it |-> None]
<1>1. f \in Frame /\ ~Script(f)
  BY TickFrames
<1> HIDE DEF f
<1>2. QED
  BY <1>1, Pushes, Parts DEF WellStacked

LEMMA DeliverMessageKeeps ==
  ASSUME IInv, NEW s \in Socket, DeliverMessage(s)
  PROVE  IInv'
<1> DEFINE t == Taken(s)
<1>1. /\ Free /\ WellStacked(stack) /\ list' = list /\ sock[s] \in WebSocket /\ Sound(sock[s])
      /\ t \in WebSocket /\ Like(sock[s], t)
  BY LoopState DEF DeliverMessage, Reads
<1>2. PICK event \in {"message", "error"} :
        IF Hears(s) THEN Dispatch(s, t, event, stack) ELSE Sets(s, t) /\ UNCHANGED stack
  BY DEF DeliverMessage
<1> HIDE DEF t
<1>3. CASE Hears(s)
  <2>1. Base(sock[s], t) /\ t.ready \in {"OPEN", "CLOSING"}
    BY <1>1, <1>3 DEF Base, Like, Else, Same, Hears
  <2>2. event \in Event
    BY DEF Event
  <2>3. QED
    BY <1>1, <1>2, <1>3, <2>1, <2>2, FreeStack, DispatchKeeps
<1>4. CASE ~Hears(s)
  BY <1>1, <1>2, <1>4, LikeGentle, SilentStep
<1>5. QED
  BY <1>3, <1>4

LEMMA ReceiveClosingKeeps ==
  ASSUME IInv, NEW s \in Socket, ReceiveClosing(s)
  PROVE  IInv'
<1> DEFINE t == Taken(s)
           a == [t EXCEPT !.received = TRUE]
<1>1. /\ UNCHANGED <<list, stack>> /\ WellStacked(stack) /\ sock[s] \in WebSocket /\ Sound(sock[s])
      /\ t \in WebSocket /\ Like(sock[s], t) /\ Sound(t)
  BY LoopState DEF ReceiveClosing, Reads
<1>2. PICK fails \in BOOLEAN :
        LET c == StartClosingHandshake(a, fails)
        IN  Sets(s, IF c.handshake THEN CloseStream(c) ELSE c)
  BY DEF ReceiveClosing
<1> HIDE DEF t
<1>3. a \in WebSocket /\ Like(t, a)
  BY <1>1, Marks
<1>4. /\ Gentle(sock[s], a) /\ Same(sock[s], a) /\ a.live = sock[s].live /\ Sound(a)
  BY <1>1, <1>3, LikeGentle, GentleThen DEF Same, Gentle
<1> HIDE DEF a
<1> DEFINE c == StartClosingHandshake(a, fails)
           d == IF c.handshake THEN CloseStream(c) ELSE c
<1>5. /\ Gentle(a, c) /\ c.heard = a.heard /\ c.suspended = a.suspended /\ c.live = a.live
      /\ c.ready = a.ready \/ c.ready = "CLOSING"
  BY <1>3, <1>4, HandshakeGentle
<1>6. c \in WebSocket /\ Sound(c) /\ Sets(s, d)
  BY <1>2, <1>5 DEF Gentle
<1> HIDE DEF c
<1>7. Gentle(c, CloseStream(c)) /\ Same(c, CloseStream(c)) /\ CloseStream(c).live = c.live
  BY <1>6, CloseStreamGentle
<1>8. Gentle(c, d) /\ Same(c, d) /\ d.live = c.live
  BY <1>6, <1>7 DEF Same, Gentle
<1> HIDE DEF d
<1>9. Gentle(sock[s], d)
  BY <1>4, <1>5, <1>8, GentleThen
<1>10. d.live /\ d.ready = "CLOSED" => Ending(stack, s, d.suspended)
  BY <1>4, <1>5, <1>8, Parts DEF Same, Fine
<1>11. QED
  BY <1>1, <1>6, <1>9, <1>10, GentleStep

LEMMA ReceiveBadKeeps ==
  ASSUME IInv, NEW s \in Socket, ReceiveBad(s)
  PROVE  IInv'
<1> DEFINE c == sock[s]
           d == [c EXCEPT !.data = <<>>, !.discard = TRUE]
           g == [Top EXCEPT !.stop = TRUE]
<1>1. /\ At("process", s) /\ WellStacked(stack) /\ list' = list /\ c \in WebSocket /\ Sound(c)
      /\ d \in WebSocket /\ Like(c, d)
  BY LoopState, Marks DEF ReceiveBad, Reads
<1>2. IF Hears(s) THEN Dispatch(s, d, "error", Stopped) ELSE Sets(s, Fail(d)) /\ stack' = Stopped
  BY DEF ReceiveBad
<1> HIDE DEF d
<1>3. CASE Hears(s)
  <2>1. Base(c, d) /\ d.ready \in {"OPEN", "CLOSING"}
    BY <1>1, <1>3 DEF Base, Like, Else, Same, Hears
  <2>2. /\ Stopped = Becomes(g) /\ g \in Frame /\ ~Script(g) /\ \A x : ~Tells(g, x) /\ ~Ends(g, x)
        /\ stack # <<>> /\ \A x : ~Tells(Top, x) /\ ~Ends(Top, x)
    BY <1>1, Stops
  <2> HIDE DEF g
  <2>3. /\ AllBreak(Becomes(g)) /\ OneBreaks(Becomes(g)) /\ WellStacked(Becomes(g))
        /\ \A x : TellingIn(Becomes(g), x) <=> TellingIn(Front(stack), x)
        /\ \A x, b : Ending(Becomes(g), x, b) <=> Ending(Front(stack), x, b)
    BY <1>1, <2>2, Replaces
  <2>4. /\ \A x : TellingIn(stack, x) <=> TellingIn(Front(stack), x)
        /\ \A x, b : Ending(stack, x, b) <=> Ending(Front(stack), x, b)
    BY <1>1, <2>2, Tops
  <2>5. "error" \in Event /\ Becomes(g) \in Seq(Frame)
    BY <2>3 DEF Event, WellStacked
  <2>6. Dispatch(s, d, "error", Becomes(g))
    BY <1>2, <1>3, <2>2
  <2>7. QED
    BY <1>1, <2>1, <2>3, <2>4, <2>5, <2>6, DispatchKeeps
<1>4. CASE ~Hears(s)
  BY <1>1, <1>2, <1>4, LoopFails
<1>5. QED
  BY <1>3, <1>4

LEMMA ProcessDoneKeeps ==
  ASSUME IInv, NEW s \in Socket, ProcessDone(s)
  PROVE  IInv'
<1> DEFINE c == sock[s]
           r == Front(stack)
           f == EventFrame(s, "close")
<1>1. /\ At("process", s) /\ WellStacked(stack) /\ list' = list /\ c \in WebSocket /\ Sound(c)
      /\ Fine(s)
  BY Parts DEF ProcessDone
<1>2. stack # <<>> /\ \A x : ~Tells(Top, x) /\ ~Ends(Top, x)
  BY <1>1, Stops
<1>3. /\ r \in Seq(Frame) /\ AllBreak(r) /\ OneBreaks(r)
      /\ \A x : TellingIn(r, x) <=> TellingIn(stack, x)
      /\ \A x, b : Ending(r, x, b) <=> Ending(stack, x, b)
  BY <1>1, <1>2, Tops
<1>4. \/ UNCHANGED sock /\ stack' = r
      \/ ~c.suspended /\ c.live /\ c.told /\ c.held /\ CallDidClose(s, c, r)
  BY DEF ProcessDone
<1>5. CASE UNCHANGED sock /\ stack' = r
  BY <1>1, <1>2, <1>5, TopMoves, StackStep
<1>6. CASE ~c.suspended /\ c.live /\ c.told /\ c.held /\ CallDidClose(s, c, r)
  <2> DEFINE e == DidClose(c)
             h == [e EXCEPT !.heard = "close"]
  <2>1. ~c.handle /\ ClosesNow(c)
    BY <1>1, <1>6 DEF Sound, ClosesNow
  <2>2. Sets(s, h) /\ stack' = Append(r, f)
    BY <1>6, <2>1 DEF CallDidClose, Dispatch
  <2>3. /\ e \in WebSocket /\ Sound(e) /\ ~e.handle /\ e.ready = "CLOSED" /\ ~e.live /\ e.told
        /\ e.closing = c.closing
    BY <1>1, <2>1, DidCloseSound
  <2> HIDE DEF e
  <2>4. h \in WebSocket
    BY <2>3 DEF WebSocket, Event
  <2>5. /\ h.handle = e.handle /\ h.closing = e.closing /\ h.live = e.live /\ h.held = e.held
        /\ h.state = e.state /\ h.buffered = e.buffered /\ h.shaken = e.shaken
        /\ h.told = e.told /\ h.failed = e.failed /\ h.ready = e.ready /\ h.heard = "close"
    BY <2>3 DEF WebSocket
  <2> HIDE DEF h
  <2>6. Sound(h)
    BY <2>3, <2>5 DEF Sound
  <2>7. f \in Frame /\ Script(f) /\ ~f.brk /\ \A x : ~Tells(f, x)
    BY EventFrames DEF Event
  <2> HIDE DEF f, r
  <2>8. /\ WellStacked(stack')
        /\ \A x : TellingIn(stack', x) <=> TellingIn(stack, x)
        /\ \A x, b : Ending(stack, x, b) => Ending(stack', x, b)
    <3>1. /\ WellStacked(stack')
          /\ \A x : TellingIn(stack', x) <=> TellingIn(r, x) \/ Tells(f, x)
          /\ \A x, b : Ending(stack', x, b) <=> Ending(r, x, b) \/ (Ends(f, x) /\ (f.brk => b))
      BY <1>3, <2>2, <2>7, Appended
    <3>2. QED
      BY <1>3, <2>7, <3>1
  <2>9. InList(s) => Listed(h, TellingIn(stack', s))
    BY <1>1, <1>6, <2>1, <2>3, <2>5, <2>8 DEF Fine, Listed
  <2>10. QED
    BY <1>1, <2>2, <2>3, <2>4, <2>5, <2>6, <2>8, <2>9, OneSocket
<1>7. QED
  BY <1>4, <1>5, <1>6

LEMMA ResumeTimerFiresKeeps ==
  ASSUME IInv, NEW s \in Socket, ResumeTimerFires(s)
  PROVE  IInv'
<1> DEFINE c == sock[s]
           d == [c EXCEPT !.resuming = FALSE]
           f == [at |-> "process", it |-> s, timer |-> TRUE, stop |-> FALSE]
<1>1. /\ Free /\ WellStacked(stack) /\ list' = list /\ c \in WebSocket /\ Sound(c)
      /\ Sets(s, d) /\ stack' = Append(stack, f)
  BY Parts DEF ResumeTimerFires, AppRuns, Idle, Free, TopAt
<1>2. d \in WebSocket /\ Like(c, d)
  BY <1>1, Marks
<1>3. /\ WellStacked(stack')
      /\ \A x : TellingIn(stack', x) <=> TellingIn(stack, x)
      /\ \A x, b : Ending(stack', x, b) <=> Ending(stack, x, b)
  BY <1>1, ProcessFrames, Pushes
<1>4. QED
  BY <1>1, <1>2, <1>3, LikeGentle, SilentStep

LEMMA ClosingTimerFiresKeeps ==
  ASSUME IInv, NEW s \in Socket, ClosingTimerFires(s)
  PROVE  IInv'
<1> DEFINE c == sock[s]
           t == [c EXCEPT !.timeout = FALSE]
           d == IF t.held THEN Disconnect(t) ELSE t
<1>1. /\ WellStacked(stack) /\ UNCHANGED <<list, stack>> /\ c \in WebSocket /\ Sound(c)
      /\ Sets(s, d)
  BY Parts DEF ClosingTimerFires
<1>2. t \in WebSocket /\ Like(c, t)
  BY <1>1, Marks
<1> HIDE DEF t
<1>3. Gentle(c, t) /\ Same(c, t) /\ t.live = c.live /\ Sound(t)
  BY <1>1, <1>2, LikeGentle DEF Gentle
<1>4. Gentle(t, d) /\ Same(t, d) /\ d.live = t.live
  BY <1>2, <1>3, DisconnectGentle DEF Gentle, Same
<1> HIDE DEF d
<1>5. Gentle(c, d) /\ Same(c, d) /\ d.live = c.live
  BY <1>3, <1>4, GentleThen DEF Same
<1>6. QED
  BY <1>1, <1>5, SilentStep

-----------------------------------------------------------------------------
LEMMA InitIInv == Init => IInv
<1> SUFFICES ASSUME Init PROVE IInv
  OBVIOUS
<1>1. /\ list = <<>> /\ stack = <<>> /\ \A s \in Socket : sock[s] = NoSocket
      /\ sock \in [Socket -> WebSocket]
  BY NoSocketSound DEF Init
<1>2. /\ <<>> \in Seq(Socket) /\ <<>> \in Seq(Frame) /\ DOMAIN <<>> = {}
  OBVIOUS
<1>3. TypeOK /\ WellStacked(stack) /\ NoRepeats
  BY <1>1, <1>2 DEF TypeOK, WellStacked, NoRepeats, OneBreaks
<1>4. \A s \in Socket : ~InList(s) /\ ~TellingIn(stack, s)
  BY <1>1, <1>2 DEF InList, TellingIn
<1>5. \A s \in Socket : Fine(s)
  BY <1>1, <1>4, NoSocketSound DEF Fine
<1>6. QED
  BY <1>3, <1>5 DEF IInv

LEMMA NextIInv == IInv /\ [Next]_vars => IInv'
<1> SUFFICES ASSUME IInv, [Next]_vars PROVE IInv'
  OBVIOUS
<1>1. CASE UNCHANGED vars
  BY <1>1 DEF vars, IInv, TypeOK, WellStacked, OneBreaks, NoRepeats, Fine, InList
<1>2. ASSUME NEW s \in Socket, TickSteps(s) PROVE IInv'
  BY <1>2, UpdateKeeps, ReceiveKeeps, ReceiveEndsKeeps, KeepKeeps, TellErrorKeeps, EraseKeeps
     DEF TickSteps
<1>3. ASSUME NEW s \in Socket, ChannelSteps(s) PROVE IInv'
  BY <1>3, DiscardDataKeeps, ShakeHandsKeeps, RefuseHandshakeKeeps, DeliverMessageKeeps,
     ReceiveClosingKeeps, ReceiveBadKeeps, ProcessDoneKeeps DEF ChannelSteps
<1>4. ASSUME NEW s \in Socket, TimerSteps(s) PROVE IInv'
  BY <1>4, ResumeTimerFiresKeeps, ClosingTimerFiresKeeps DEF TimerSteps
<1>5. ASSUME NEW s \in Socket, ScriptSteps(s) PROVE IInv'
  BY <1>5, MakeKeeps, SendMessageKeeps, CloseKeeps, StopKeeps DEF ScriptSteps
<1>6. CASE RunScript \/ Break \/ Resume \/ ScriptReturns \/ Tick \/ TickDone \/ Shutdown
  BY <1>6, RunScriptKeeps, BreakKeeps, ResumeKeeps, ScriptReturnsKeeps, TickKeeps, TickDoneKeeps,
     ShutdownKeeps
<1>7. QED
  BY <1>1, <1>2, <1>3, <1>4, <1>5, <1>6 DEF Next

LEMMA Inductive == Spec => []IInv
BY InitIInv, NextIInv, PTL DEF Spec

(* Every variable is what its declaration says, for any number of sockets,   *)
(* any servers and any nesting of Tick in breakpoints.                       *)
THEOREM TypeCorrect == Spec => []TypeOK
<1>1. IInv => TypeOK
  BY DEF IInv
<1>2. QED
  BY <1>1, Inductive, PTL

(* CloseSocket and SendData always find the socket they are called for.      *)
THEOREM HandlesAreInList == Spec => []HandleInList
<1>1. IInv => HandleInList
  BY DEF IInv, Fine, HandleInList
<1>2. QED
  BY <1>1, Inductive, PTL

LEMMA TellingSame == \A s : Telling(s) <=> TellingIn(stack, s)
BY DEF Telling, TellingIn, Tells

(* No connection stays in the list with nobody to close it.                  *)
THEOREM LetGoMeansClosing == Spec => []LetGoIsClosing
<1>1. IInv => LetGoIsClosing
  BY TellingSame DEF IInv, Fine, Listed, LetGoIsClosing
<1>2. QED
  BY <1>1, Inductive, PTL

(* Tick never calls a SocketStreamHandle that has been deleted, however      *)
(* often script opens and closes sockets, stops and is resumed.              *)
THEOREM ClientsLive == Spec => []ClientAlive
<1>1. IInv => ClientAlive
  BY TellingSame DEF IInv, Fine, Listed, ClientAlive
<1>2. QED
  BY <1>1, Inductive, PTL

(* Nothing is buffered for a connection that could still send it.            *)
THEOREM BuffersAreLost == Spec => []BufferIsLost
<1>1. IInv => BufferIsLost
  BY DEF IInv, Fine, Sound, BufferIsLost
<1>2. QED
  BY <1>1, Inductive, PTL

-----------------------------------------------------------------------------
(* The events of script: SocketTransport implements WebSocketAPI.            *)

LEMMA Mapped ==
  ASSUME NEW s \in Socket, sock \in [Socket -> WebSocket], NEW d, Sets(s, d)
  PROVE  API!Goes(s, d.ready, d.heard)
BY DEF API!Goes, Sets

LEMMA Quiet ==
  ASSUME NEW s \in Socket, sock \in [Socket -> WebSocket], NEW d, Sets(s, d), Same(sock[s], d)
  PROVE  UNCHANGED API!avars
<1>1. \A x \in Socket : sock'[x].ready = sock[x].ready /\ sock'[x].heard = sock[x].heard
  BY DEF Sets, Same
<1>2. QED
  BY <1>1 DEF API!avars

LEMMA Unchanged ==
  ASSUME UNCHANGED sock
  PROVE  UNCHANGED API!avars
BY DEF API!avars

(* A channel that may call its client has not told it the end.               *)
LEMMA LiveIsOpen ==
  ASSUME IInv, Free, NEW s \in Socket, sock[s].live, ~sock[s].suspended
  PROVE  sock[s].ready \in {"CONNECTING", "OPEN", "CLOSING"}
<1>1. sock[s] \in WebSocket /\ Sound(sock[s]) /\ Fine(s) /\ sock[s].suspended = FALSE
  BY Parts DEF WebSocket
<1>2. AllBreak(stack)
  BY FreeStack
<1>3. ~Ending(stack, s, FALSE)
  BY <1>2 DEF Ending, Ends, AllBreak, Script
<1>4. sock[s].ready # "CLOSED"
  BY <1>1, <1>3 DEF Fine
<1>5. sock[s].ready # "none"
  BY <1>1 DEF Sound
<1>6. QED
  BY <1>1, <1>4, <1>5 DEF WebSocket, Ready

LEMMA TickSpeaks ==
  ASSUME IInv, NEW s \in Socket, TickSteps(s)
  PROVE  API!Next \/ UNCHANGED API!avars
<1> DEFINE c == sock[s]
<1>0. c \in WebSocket /\ Sound(c) /\ sock \in [Socket -> WebSocket]
  BY Parts
<1>1. CASE Update(s)
  BY <1>0, <1>1, ConnectedGentle, Quiet, Unchanged DEF Update
<1>2. CASE Receive(s)
  <2>1. PICK item \in Coming(c) :
          LET e == [c EXCEPT !.sent = @ + 1]
          IN  Sets(s, [e EXCEPT !.data = Append(@, item)]) \/ Sets(s, e)
    BY <1>2 DEF Receive
  <2>2. item \in Item
    BY DEF Coming, Item
  <2>3. PICK d : Like(c, d) /\ Sets(s, d)
    BY <1>0, <2>1, <2>2, Pieces
  <2>4. QED
    BY <1>0, <2>3, Quiet DEF Like, Else
<1>3. CASE ReceiveEnds(s)
  <2>1. PICK fails \in BOOLEAN : Sets(s, [c EXCEPT !.failed = @ \/ fails])
    BY <1>3 DEF ReceiveEnds
  <2> DEFINE y == c.failed \/ fails
             d == [c EXCEPT !.failed = y]
  <2>2. Sets(s, d)
    BY <2>1
  <2> HIDE DEF y
  <2>3. Same(c, d)
    BY <1>0 DEF WebSocket, Same
  <2>4. QED
    BY <1>0, <2>2, <2>3, Quiet
<1>4. CASE Keep(s)
  BY <1>4, Unchanged DEF Keep
<1>5. CASE TellError(s)
  <2> DEFINE d == [c EXCEPT !.attached = FALSE, !.handle = FALSE]
  <2>1. CASE UNCHANGED sock
    BY <2>1, Unchanged
  <2>2. CASE CallDidClose(s, d, Goto("erase"))
    <3>1. d \in WebSocket
      BY <1>0 DEF WebSocket
    <3>2. /\ d.handle = FALSE /\ d.closing = c.closing /\ d.live = c.live /\ d.held = c.held
          /\ d.state = c.state /\ d.buffered = c.buffered /\ d.attached = FALSE
          /\ d.shaken = c.shaken /\ d.told = c.told /\ d.failed = c.failed /\ Same(c, d)
      BY <1>0 DEF WebSocket, Same
    <3> HIDE DEF d
    <3>3. Sound(d)
      BY <1>0, <3>2 DEF Sound, Same
    <3> DEFINE e == DidClose(d)
    <3>4. /\ e \in WebSocket /\ e.heard = d.heard /\ e.suspended = d.suspended
          /\ IF ClosesNow(d) THEN e.ready = "CLOSED" ELSE e.ready = d.ready
      BY <3>1, <3>2, <3>3, DidCloseSound
    <3>5. CASE ClosesNow(d)
      <4>1. Sets(s, [e EXCEPT !.heard = "close"])
        BY <2>2, <3>5 DEF CallDidClose, Dispatch
      <4>2. Free
        BY <1>5 DEF TellError, At, TopAt, Free, Script
      <4>3. c.ready \in {"CONNECTING", "OPEN", "CLOSING"}
        BY <3>2, <3>5, <4>2, LiveIsOpen DEF ClosesNow, Same
      <4> HIDE DEF e
      <4>4. LET h == [e EXCEPT !.heard = "close"] IN h.ready = "CLOSED" /\ h.heard = "close"
        BY <3>4, <3>5 DEF WebSocket
      <4>5. API!Goes(s, "CLOSED", "close")
        BY <1>0, <4>1, <4>4, Mapped
      <4>6. QED
        BY <4>3, <4>5 DEF API!Next, API!Closes
    <3>6. CASE ~ClosesNow(d)
      <4>1. Sets(s, e) /\ Same(c, e)
        BY <2>2, <3>2, <3>4, <3>6 DEF CallDidClose, Same
      <4>2. QED
        BY <1>0, <4>1, Quiet
    <3>7. QED
      BY <3>5, <3>6
  <2>3. QED
    BY <1>5, <2>1, <2>2 DEF TellError
<1>6. CASE Erase(s)
  <2>1. Sets(s, Deleted(c))
    BY <1>6 DEF Erase
  <2>2. Same(c, Deleted(c))
    BY <1>0 DEF WebSocket, Deleted, Same
  <2>3. QED
    BY <1>0, <2>1, <2>2, Quiet
<1>7. QED
  BY <1>1, <1>2, <1>3, <1>4, <1>5, <1>6 DEF TickSteps

LEMMA FailSame ==
  ASSUME NEW c \in WebSocket, Sound(c), NEW d \in WebSocket, Like(c, d)
  PROVE  Same(c, Fail(d))
<1>1. Sound(d) /\ Same(c, d)
  BY LikeGentle DEF Gentle
<1>2. QED
  BY <1>1, FailGentle DEF Same

LEMMA ShakeHandsSpeaks ==
  ASSUME IInv, NEW s \in Socket, ShakeHands(s)
  PROVE  API!Next
<1> DEFINE c == sock[s]
           t == Taken(s)
           e == [t EXCEPT !.shaken = TRUE]
<1>0. /\ sock \in [Socket -> WebSocket] /\ Free /\ c.live /\ ~c.suspended
      /\ t \in WebSocket /\ Like(c, t)
  BY LoopState, Parts DEF ShakeHands, Reads
<1>1. c.ready \in {"CONNECTING", "OPEN", "CLOSING"}
  BY <1>0, LiveIsOpen
<1>2. \/ e.ready = "CONNECTING" /\ Sets(s, [[e EXCEPT !.ready = "OPEN"] EXCEPT !.heard = "open"])
      \/ Sets(s, [[e EXCEPT !.ready = "CLOSED"] EXCEPT !.heard = "close"])
  BY DEF ShakeHands, Dispatch
<1> HIDE DEF t
<1>3. e.ready = c.ready /\ e \in WebSocket
  BY <1>0 DEF WebSocket, Like, Else, Same
<1> HIDE DEF e, c
<1>4. ASSUME NEW ready \in Ready, NEW event \in Event,
             Sets(s, [[e EXCEPT !.ready = ready] EXCEPT !.heard = event])
      PROVE  API!Goes(s, ready, event)
  <2> DEFINE d == [[e EXCEPT !.ready = ready] EXCEPT !.heard = event]
  <2>1. d.ready = ready /\ d.heard = event
    BY <1>3 DEF WebSocket
  <2> HIDE DEF d
  <2>2. QED
    BY <1>0, <1>4, <2>1, Mapped DEF d
<1>5. {"OPEN", "CLOSED"} \subseteq Ready /\ {"open", "close"} \subseteq Event
  BY DEF Ready, Event
<1>6. \/ c.ready = "CONNECTING" /\ API!Goes(s, "OPEN", "open")
      \/ API!Goes(s, "CLOSED", "close")
  BY <1>2, <1>3, <1>4, <1>5
<1>7. QED
  BY <1>1, <1>6 DEF c, API!Next, API!Opens, API!Closes

LEMMA TalkSpeaks ==
  ASSUME IInv, NEW s \in Socket, sock[s].shaken, Hears(s), NEW d \in WebSocket, Like(sock[s], d),
         NEW event \in {"message", "error"}, NEW frames, Dispatch(s, d, event, frames)
  PROVE  API!Next
<1> DEFINE h == [d EXCEPT !.heard = event]
<1>1. /\ sock \in [Socket -> WebSocket] /\ sock[s].heard # "none" /\ Sets(s, h)
      /\ sock[s].ready \in {"OPEN", "CLOSING"}
  BY Parts DEF Dispatch, Sound, Hears
<1>2. h.ready = sock[s].ready /\ h.heard = event
  BY DEF WebSocket, Like, Else, Same
<1> HIDE DEF h
<1>3. API!Goes(s, sock[s].ready, event)
  BY <1>1, <1>2, Mapped
<1>4. QED
  BY <1>1, <1>3 DEF API!Next, API!Talks

LEMMA ReceiveClosingSpeaks ==
  ASSUME IInv, NEW s \in Socket, ReceiveClosing(s)
  PROVE  API!Next \/ UNCHANGED API!avars
<1> DEFINE t == Taken(s)
           a == [t EXCEPT !.received = TRUE]
<1>1. /\ Free /\ sock[s].live /\ ~sock[s].suspended /\ sock \in [Socket -> WebSocket]
      /\ sock[s] \in WebSocket /\ Sound(sock[s])
      /\ t \in WebSocket /\ Like(sock[s], t) /\ Sound(t)
  BY LoopState, Parts DEF ReceiveClosing, Reads
<1>2. PICK fails \in BOOLEAN :
        LET c == StartClosingHandshake(a, fails)
        IN  Sets(s, IF c.handshake THEN CloseStream(c) ELSE c)
  BY DEF ReceiveClosing
<1> HIDE DEF t
<1>3. a \in WebSocket /\ Like(t, a)
  BY <1>1, Marks
<1>4. Same(sock[s], a) /\ Sound(a)
  BY <1>1, <1>3, LikeGentle DEF Same, Gentle
<1> HIDE DEF a
<1> DEFINE c == StartClosingHandshake(a, fails)
           d == IF c.handshake THEN CloseStream(c) ELSE c
<1>5. Gentle(a, c) /\ c.heard = a.heard /\ (c.ready = a.ready \/ c.ready = "CLOSING")
      /\ c.suspended = a.suspended
  BY <1>3, <1>4, HandshakeGentle
<1>6. c \in WebSocket /\ Sound(c) /\ Sets(s, d)
  BY <1>2, <1>5 DEF Gentle
<1> HIDE DEF c
<1>7. d.ready = c.ready /\ d.heard = c.heard /\ d.suspended = c.suspended
  BY <1>6, CloseStreamGentle DEF Same
<1> HIDE DEF d
<1>8. d.heard = sock[s].heard /\ (d.ready = sock[s].ready \/ d.ready = "CLOSING")
      /\ d.suspended = sock[s].suspended
  BY <1>4, <1>5, <1>7 DEF Same
<1>9. CASE d.ready = sock[s].ready
  BY <1>1, <1>6, <1>8, <1>9, Quiet DEF Same
<1>10. CASE d.ready = "CLOSING" /\ d.ready # sock[s].ready
  <2>1. sock[s].ready \in {"CONNECTING", "OPEN"}
    BY <1>1, <1>10, LiveIsOpen
  <2>2. PICK e : e = d
    OBVIOUS
  <2>3. API!Goes(s, e.ready, e.heard)
    BY <1>1, <1>6, <2>2, Mapped
  <2>4. API!Closing(s)
    BY <1>8, <1>10, <2>1, <2>2, <2>3 DEF API!Closing, API!Goes
  <2>5. QED
    BY <2>4 DEF API!Next
<1>11. QED
  BY <1>8, <1>9, <1>10

LEMMA ProcessDoneSpeaks ==
  ASSUME IInv, NEW s \in Socket, ProcessDone(s)
  PROVE  API!Next \/ UNCHANGED API!avars
<1> DEFINE c == sock[s]
           e == DidClose(c)
           h == [e EXCEPT !.heard = "close"]
<1>1. /\ sock \in [Socket -> WebSocket] /\ c \in WebSocket /\ Sound(c) /\ Free
  BY Parts DEF ProcessDone, At, TopAt, Free, Script
<1>2. CASE UNCHANGED sock
  BY <1>2, Unchanged
<1>3. CASE ~c.suspended /\ c.live /\ c.told /\ c.held /\ CallDidClose(s, c, Front(stack))
  <2>1. ~c.handle /\ ClosesNow(c)
    BY <1>1, <1>3 DEF Sound, ClosesNow
  <2>2. Sets(s, h)
    BY <1>3, <2>1 DEF CallDidClose, Dispatch
  <2>3. e \in WebSocket /\ e.ready = "CLOSED"
    BY <1>1, <2>1, DidCloseSound
  <2>4. c.ready \in {"CONNECTING", "OPEN", "CLOSING"}
    BY <1>1, <1>3, LiveIsOpen
  <2> HIDE DEF e
  <2>5. h.ready = "CLOSED" /\ h.heard = "close"
    BY <2>3 DEF WebSocket
  <2> HIDE DEF h
  <2>6. API!Goes(s, "CLOSED", "close")
    BY <1>1, <2>2, <2>5, Mapped
  <2>7. QED
    BY <2>4, <2>6 DEF API!Next, API!Closes
<1>4. QED
  BY <1>2, <1>3 DEF ProcessDone

LEMMA ChannelSpeaks ==
  ASSUME IInv, NEW s \in Socket, ChannelSteps(s)
  PROVE  API!Next \/ UNCHANGED API!avars
<1> DEFINE c == sock[s]
           t == Taken(s)
<1>0. c \in WebSocket /\ Sound(c) /\ sock \in [Socket -> WebSocket]
  BY Parts
<1>t. Processing(s) => t \in WebSocket /\ Like(c, t) /\ Sound(t) /\ Same(c, t)
  BY LoopState DEF Like, Else
<1>1. CASE DiscardData(s)
  <2>1. Sets(s, c) \/ Sets(s, [c EXCEPT !.data = <<>>])
    BY <1>1 DEF DiscardData
  <2>2. Same(c, c) /\ Same(c, [c EXCEPT !.data = <<>>])
    BY <1>0 DEF WebSocket, Same
  <2>3. QED
    BY <1>0, <2>1, <2>2, Quiet
<1>2. CASE ShakeHands(s)
  BY <1>2, ShakeHandsSpeaks
<1>3. CASE RefuseHandshake(s)
  <2> DEFINE d == [t EXCEPT !.discard = TRUE]
  <2>1. Sets(s, Fail(d)) /\ Processing(s)
    BY <1>3 DEF RefuseHandshake, Reads
  <2> HIDE DEF t
  <2>2. d \in WebSocket /\ Like(t, d)
    BY <1>t, <2>1, Marks
  <2> HIDE DEF d
  <2>3. Like(c, d)
    BY <1>t, <2>1, <2>2 DEF Like, Else, Same
  <2>4. QED
    BY <1>0, <2>1, <2>2, <2>3, FailSame, Quiet
<1>4. CASE DeliverMessage(s)
  <2>1. /\ Processing(s) /\ c.shaken
        /\ \E event \in {"message", "error"} :
             IF Hears(s) THEN Dispatch(s, t, event, stack) ELSE Sets(s, t)
    BY <1>4 DEF DeliverMessage, Reads
  <2>2. PICK event \in {"message", "error"} :
             IF Hears(s) THEN Dispatch(s, t, event, stack) ELSE Sets(s, t)
    BY <2>1
  <2> HIDE DEF t
  <2>3. CASE Hears(s)
    BY <1>t, <2>1, <2>2, <2>3, TalkSpeaks
  <2>4. CASE ~Hears(s)
    BY <1>0, <1>t, <2>1, <2>2, <2>4, Quiet
  <2>5. QED
    BY <2>3, <2>4
<1>5. CASE ReceiveClosing(s)
  BY <1>5, ReceiveClosingSpeaks
<1>6. CASE ReceiveBad(s)
  <2> DEFINE d == [c EXCEPT !.data = <<>>, !.discard = TRUE]
  <2>1. d \in WebSocket /\ Like(c, d)
    BY <1>0, Marks
  <2>2. c.shaken /\ IF Hears(s) THEN Dispatch(s, d, "error", Stopped) ELSE Sets(s, Fail(d))
    BY <1>6 DEF ReceiveBad, Reads
  <2> HIDE DEF d
  <2>3. CASE Hears(s)
    BY <2>1, <2>2, <2>3, TalkSpeaks
  <2>4. CASE ~Hears(s)
    BY <1>0, <2>1, <2>2, <2>4, FailSame, Quiet
  <2>5. QED
    BY <2>3, <2>4
<1>7. CASE ProcessDone(s)
  BY <1>7, ProcessDoneSpeaks
<1>8. QED
  BY <1>1, <1>2, <1>3, <1>4, <1>5, <1>6, <1>7 DEF ChannelSteps

LEMMA TimerSpeaks ==
  ASSUME IInv, NEW s \in Socket, TimerSteps(s)
  PROVE  UNCHANGED API!avars
<1> DEFINE c == sock[s]
           r == [c EXCEPT !.resuming = FALSE]
           t == [c EXCEPT !.timeout = FALSE]
           d == IF t.held THEN Disconnect(t) ELSE t
<1>1. /\ c \in WebSocket /\ Sound(c) /\ sock \in [Socket -> WebSocket]
      /\ r \in WebSocket /\ Like(c, r) /\ t \in WebSocket /\ Like(c, t)
  BY Parts, Marks
<1>2. Sets(s, r) \/ Sets(s, d)
  BY DEF TimerSteps, ResumeTimerFires, ClosingTimerFires
<1> HIDE DEF r, t
<1>3. Same(c, r) /\ Same(c, t) /\ Sound(t)
  BY <1>1, LikeGentle DEF Gentle
<1>4. Same(t, d)
  BY <1>1, <1>3, DisconnectGentle DEF Same
<1> HIDE DEF d
<1>5. Same(c, d)
  BY <1>3, <1>4 DEF Same
<1>6. QED
  BY <1>1, <1>2, <1>3, <1>5, Quiet

LEMMA CloseSpeaks ==
  ASSUME IInv, NEW s \in Socket, Close(s)
  PROVE  API!Next
<1> DEFINE c == sock[s]
<1>1. /\ c \in WebSocket /\ Sound(c) /\ sock \in [Socket -> WebSocket]
      /\ c.ready \in {"CONNECTING", "OPEN"}
  BY Parts DEF Close
<1>2. ASSUME NEW e \in WebSocket, e.heard = c.heard, NEW y \in BOOLEAN,
             Sets(s, [e EXCEPT !.ready = "CLOSING", !.timeout = y])
      PROVE  API!Closing(s)
  <2> DEFINE d == [e EXCEPT !.ready = "CLOSING", !.timeout = y]
  <2>1. d.ready = "CLOSING" /\ d.heard = c.heard
    BY <1>2 DEF WebSocket
  <2>2. Sets(s, d)
    BY <1>2
  <2> HIDE DEF d
  <2>3. API!Goes(s, d.ready, d.heard)
    BY <1>1, <2>2, Mapped
  <2>4. QED
    BY <1>1, <2>1, <2>3 DEF API!Closing, API!Goes
<1>3. CASE Sets(s, [Fail(c) EXCEPT !.ready = "CLOSING"])
  <2>1. Fail(c) \in WebSocket /\ Fail(c).heard = c.heard
    BY <1>1, FailGentle DEF Gentle, Same
  <2>2. /\ Fail(c).timeout \in BOOLEAN
        /\ [Fail(c) EXCEPT !.ready = "CLOSING"]
             = [Fail(c) EXCEPT !.ready = "CLOSING", !.timeout = Fail(c).timeout]
    BY <2>1 DEF WebSocket
  <2>3. API!Closing(s)
    BY <1>2, <1>3, <2>1, <2>2
  <2>4. QED
    BY <2>3 DEF API!Next
<1>4. ASSUME NEW fails \in BOOLEAN,
             Sets(s, [StartClosingHandshake(c, fails) EXCEPT
                        !.ready = "CLOSING",
                        !.timeout = @ \/ StartClosingHandshake(c, fails).handshake])
      PROVE  API!Closing(s)
  <2> DEFINE e == StartClosingHandshake(c, fails)
             y == e.timeout \/ e.handshake
  <2>1. e \in WebSocket /\ e.heard = c.heard
    BY <1>1, HandshakeGentle DEF Gentle
  <2>2. y \in BOOLEAN /\ Sets(s, [e EXCEPT !.ready = "CLOSING", !.timeout = y])
    BY <1>4
  <2> HIDE DEF e, y
  <2>3. QED
    BY <1>2, <2>1, <2>2
<1>5. QED
  BY <1>3, <1>4 DEF Close, API!Next

LEMMA ScriptSpeaks ==
  ASSUME IInv, NEW s \in Socket, ScriptSteps(s)
  PROVE  API!Next \/ UNCHANGED API!avars
<1> DEFINE c == sock[s]
<1>0. c \in WebSocket /\ Sound(c) /\ sock \in [Socket -> WebSocket]
  BY Parts
<1>1. CASE Make(s)
  <2>1. PICK opened \in BOOLEAN :
          Sets(s, [NoSocket EXCEPT !.handle = opened, !.attached = TRUE, !.live = TRUE,
                                   !.held = TRUE, !.ready = "CONNECTING"])
    BY <1>1 DEF Make
  <2> DEFINE d == [NoSocket EXCEPT !.handle = opened, !.attached = TRUE, !.live = TRUE,
                                   !.held = TRUE, !.ready = "CONNECTING"]
  <2>2. d.ready = "CONNECTING" /\ d.heard = "none"
    BY DEF NoSocket
  <2>3. Sets(s, d)
    BY <2>1
  <2> HIDE DEF d
  <2>4. API!Goes(s, d.ready, d.heard)
    BY <1>0, <2>3, Mapped
  <2>5. API!Make(s)
    BY <1>1, <2>2, <2>4 DEF Make, API!Make, API!Goes
  <2>6. QED
    BY <2>5 DEF API!Next
<1>2. CASE SendMessage(s)
  <2>1. PICK fails \in BOOLEAN : Sets(s, Send(c, fails))
    BY <1>2 DEF SendMessage
  <2>2. QED
    BY <1>0, <2>1, SendGentle, Quiet
<1>3. CASE Close(s)
  BY <1>3, CloseSpeaks
<1>4. CASE Stop(s)
  <2> DEFINE e == IF c.live THEN Abandon(c) ELSE c
             d == [e EXCEPT !.ready = "CLOSED"]
  <2>1. c.ready # "none" /\ Sets(s, d)
    BY <1>4 DEF Stop
  <2>2. e \in WebSocket /\ e.heard = c.heard
    BY <1>0, AbandonGentle DEF Gentle, Same
  <2> HIDE DEF e
  <2>3. d.ready = "CLOSED" /\ d.heard = c.heard
    BY <2>2 DEF WebSocket
  <2> HIDE DEF d
  <2>4. PICK f : f = d
    OBVIOUS
  <2>5. API!Goes(s, f.ready, f.heard)
    BY <1>0, <2>1, <2>4, Mapped
  <2>6. API!Stops(s)
    BY <2>1, <2>3, <2>4, <2>5 DEF API!Stops, API!Goes
  <2>7. QED
    BY <2>6 DEF API!Next
<1>5. QED
  BY <1>1, <1>2, <1>3, <1>4 DEF ScriptSteps

LEMMA OthersSpeak ==
  ASSUME IInv, RunScript \/ Break \/ Resume \/ ScriptReturns \/ Tick \/ TickDone \/ Shutdown
  PROVE  UNCHANGED API!avars
<1>0. sock \in [Socket -> WebSocket] /\ \A s \in Socket : sock[s] \in WebSocket /\ Sound(sock[s])
  BY Parts
<1>1. CASE RunScript \/ Tick \/ TickDone
  BY <1>1, Unchanged DEF RunScript, Tick, TickDone
<1>2. ASSUME \A s \in Socket : sock'[s].ready = sock[s].ready /\ sock'[s].heard = sock[s].heard
      PROVE  UNCHANGED API!avars
  BY <1>2 DEF API!avars
<1>3. CASE Break
  <2>1. \A s \in Socket : sock'[s] = [sock[s] EXCEPT !.suspended = @ \/ sock[s].live]
    BY <1>3 DEF Break
  <2>2. QED
    BY <1>0, <1>2, <2>1 DEF WebSocket
<1>4. CASE Resume
  <2>1. \A s \in Socket :
          \/ sock'[s] = sock[s]
          \/ \E y : sock'[s] = [sock[s] EXCEPT !.suspended = FALSE, !.resuming = y]
    BY <1>4 DEF Resume
  <2>2. QED
    BY <1>0, <1>2, <2>1 DEF WebSocket
<1>5. CASE Shutdown
  <2>1. \A s \in Socket : sock'[s] = Deleted(sock[s])
    BY <1>5 DEF Shutdown
  <2>2. QED
    BY <1>0, <1>2, <2>1 DEF WebSocket, Deleted
<1>6. CASE ScriptReturns
  <2>1. stack # <<>> /\ Top.at = "script" /\ Top \in Frame
    BY <1>6, Parts, Tops DEF ScriptReturns, ScriptRuns, TopAt
  <2>2. Top.event # "none" => Top.it \in Socket
    BY <2>1, Frames
  <2>3. \/ Top.event = "error" /\ Sets(Top.it, Fail(sock[Top.it]))
        \/ Top.event = "close" /\ Sets(Top.it, Abandon(sock[Top.it]))
        \/ UNCHANGED sock
    BY <1>6 DEF ScriptReturns
  <2>4. QED
    BY <1>0, <2>2, <2>3, FailGentle, AbandonGentle, Quiet, Unchanged
<1>7. QED
  BY <1>1, <1>3, <1>4, <1>5, <1>6

(* Script hears what the abstract WebSocket lets it hear: open once, messages*)
(* and errors between open and close, close last and once - although the     *)
(* channel is suspended, abandoned, failed and closed from under its own     *)
(* loops.                                                                    *)
THEOREM SpeaksWebSocket == Spec => ImplementsAPI
<1>1. Init => API!Init
  BY DEF Init, API!Init, NoSocket
<1>2. IInv /\ [Next]_vars => [API!Next]_API!avars
  <2> SUFFICES ASSUME IInv, [Next]_vars PROVE API!Next \/ UNCHANGED API!avars
    BY DEF API!avars
  <2>1. CASE UNCHANGED vars
    BY <2>1, Unchanged DEF vars
  <2>2. CASE Next
    BY <2>2, TickSpeaks, ChannelSpeaks, TimerSpeaks, ScriptSpeaks, OthersSpeak DEF Next
  <2>3. QED
    BY <2>1, <2>2
<1>3. QED
  BY <1>1, <1>2, Inductive, PTL DEF Spec, ImplementsAPI, API!Spec
=============================================================================
