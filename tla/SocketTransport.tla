--------------------------- MODULE SocketTransport ---------------------------
(***************************************************************************)
(* WebSockets: SocketTransportHandlerDirtySDK, which keeps a list of open  *)
(* ProtoSSL connections and polls them in Tick, SocketStreamHandle, which  *)
(* is its client, and above it WebSocketChannel and WebSocket, which run   *)
(* the page's script.  The protocol is the default of Settings, hixie-76.  *)
(* As in JobManager, the program has one thread and `stack' is its call    *)
(* stack: inside an event script may open and close sockets or stop at a   *)
(* breakpoint, where the application ticks again.  A Tick whose iterator   *)
(* stands on a SocketInfoT that a nested Tick has erased takes no step any *)
(* more: what it would do is undefined.                                    *)
(***************************************************************************)
EXTENDS Integers, FiniteSets, SequencesExt

CONSTANTS
  Socket,    \* the WebSockets the page ever makes
  None,      \* no socket
  MaxTicks,  \* bound: Ticks active at the same time
  Items      \* bound, per WebSocket: how much its server sends

ASSUME SocketAssumption == None \notin Socket
ASSUME BoundAssumption  == MaxTicks \in Nat /\ Items \in [Socket -> Nat]

VARIABLES
  list,   \* mSocketInfoList
  sock,   \* per WebSocket: SocketInfoT and the objects above it (see WebSocket)
  stack   \* the call stack

vars == <<list, sock, stack>>

-----------------------------------------------------------------------------
(* What a server sends, cut into the pieces the channel understands: the     *)
(* handshake, a message, FF 00, a frame it cannot read and goes on, or one   *)
(* whose length it cannot, which ends the connection.  A piece does not come *)
(* in halves.                                                                *)
Item == {"hello", "message", "closing", "garbled", "bad"}

(* connected, failed, closing: SocketInfoT (errorCode < 0, closeRequested).  *)
(* state, buffered: SocketStreamHandleBase (m_state, !m_buffer.isEmpty()).   *)
(* handle, attached: m_socketHandle and m_streamHandle of the Private.       *)
(* live: WebSocketChannel has its m_client and m_context.  held: it has its  *)
(* m_handle, and the reference on itself that goes with it; without it the   *)
(* SocketStreamHandle and its Private are deleted.  told, suspended, shaken, *)
(* handshake, received, discard, data: m_closed, m_suspended, the mode of    *)
(* m_handshake, m_closing, m_receivedClosingHandshake,                       *)
(* m_shouldDiscardReceivedData and m_buffer.  resuming, timeout: m_resume-   *)
(* and m_closingTimer.  ready: WebSocket::m_state.  sent and heard are       *)
(* history: pieces the server has sent, the last event script was given.     *)
StreamState == {"Connecting", "Open", "Closing", "Closed"}
Ready == {"none", "CONNECTING", "OPEN", "CLOSING", "CLOSED"}
Event == {"open", "message", "error", "close"}

WebSocket == [connected : BOOLEAN, failed : BOOLEAN, closing : BOOLEAN,
              state : StreamState, buffered : BOOLEAN,
              handle : BOOLEAN, attached : BOOLEAN,
              live : BOOLEAN, held : BOOLEAN, told : BOOLEAN, suspended : BOOLEAN,
              shaken : BOOLEAN, handshake : BOOLEAN, received : BOOLEAN, discard : BOOLEAN,
              data : Seq(Item), resuming : BOOLEAN, timeout : BOOLEAN,
              ready : Ready, sent : Nat, heard : Event \cup {"none"}]

(* Mutant: the constructor of SocketStreamHandleBase leaves m_state alone.   *)
WrongStateUnset ==
  [connected |-> FALSE, failed |-> FALSE, closing |-> FALSE,
   state |-> None, buffered |-> FALSE, handle |-> FALSE, attached |-> FALSE,
   live |-> FALSE, held |-> FALSE, told |-> FALSE, suspended |-> FALSE,
   shaken |-> FALSE, handshake |-> FALSE, received |-> FALSE, discard |-> FALSE,
   data |-> <<>>, resuming |-> FALSE, timeout |-> FALSE,
   ready |-> "none", sent |-> 0, heard |-> "none"]

NoSocket ==
  [connected |-> FALSE, failed |-> FALSE, closing |-> FALSE,
   state |-> "Connecting", buffered |-> FALSE, handle |-> FALSE, attached |-> FALSE,
   live |-> FALSE, held |-> FALSE, told |-> FALSE, suspended |-> FALSE,
   shaken |-> FALSE, handshake |-> FALSE, received |-> FALSE, discard |-> FALSE,
   data |-> <<>>, resuming |-> FALSE, timeout |-> FALSE,
   ready |-> "none", sent |-> 0, heard |-> "none"]

(* Frames: Tick with its iterator; the channel's loop over its buffer, in a  *)
(* Tick or in the resume timer; script, in an event of a socket or on its    *)
(* own, possibly stopped at a breakpoint.                                    *)
TickFrame    == [at : {"update", "recv", "end", "erase"}, it : Socket \cup {None}]
ProcessFrame == [at : {"process"}, it : Socket, timer : BOOLEAN, stop : BOOLEAN]
ScriptFrame  == [at : {"script"}, it : Socket, event : Event, brk : BOOLEAN]
                  \cup [at : {"script"}, it : {None}, event : {"none"}, brk : BOOLEAN]
Frame        == TickFrame \cup ProcessFrame \cup ScriptFrame

TypeOK == /\ list \in Seq(Socket)
          /\ sock \in [Socket -> WebSocket]
          /\ stack \in Seq(Frame)

Init == /\ list = <<>>
        /\ sock = [s \in Socket |-> NoSocket]
        /\ stack = <<>>

Top == Last(stack)
TopAt(where) == stack # <<>> /\ Top.at = where
At(where, s) == TopAt(where) /\ Top.it = s
Becomes(frame) == [stack EXCEPT ![Len(stack)] = frame]
Idle == stack = <<>>
Ticks == {i \in DOMAIN stack : stack[i].at \in {"update", "recv", "end", "erase"}}
Broken == \E i \in DOMAIN stack : stack[i].at = "script" /\ stack[i].brk
AppRuns == Idle \/ (TopAt("script") /\ Top.brk)
ScriptRuns == TopAt("script") /\ ~Top.brk

InList(s) == \E i \in DOMAIN list : list[i] = s
Position(s) == CHOOSE i \in DOMAIN list : list[i] = s
First(l) == IF l = <<>> THEN None ELSE l[1]
Following(s) == IF Position(s) < Len(list) THEN list[Position(s) + 1] ELSE None

-----------------------------------------------------------------------------
(* Steps of the objects above the transport, on the record c of a socket.    *)

(* Mutants: only a connected socket is closed; the client is told at once,   *)
(* as in the other ports of WebKit.                                          *)
WrongDisconnectUnasked(c) ==
  [c EXCEPT !.state = "Closed", !.handle = FALSE, !.closing = @ \/ (c.handle /\ c.connected)]
WrongDisconnectTells(c) ==
  [c EXCEPT !.state = "Closed", !.handle = FALSE, !.closing = @ \/ c.handle, !.held = FALSE]

(* SocketStreamHandlePrivate::Close with CloseSocket, and disconnect.        *)
Disconnect(c) == [c EXCEPT !.state = "Closed", !.handle = FALSE, !.closing = @ \/ c.handle]

(* SocketStreamHandleBase::close waits for a buffer nobody will send.        *)
CloseStream(c) ==
  IF c.state = "Closed" THEN c
  ELSE IF c.buffered THEN [c EXCEPT !.state = "Closing"] ELSE Disconnect(c)

(* Mutant: what ProtoSSLSend refused is buffered, and the error forgotten.   *)
WrongSendForgetsError(c, fails) ==
  IF c.state \notin {"Open", "Closed"} \/ c.buffered THEN c
  ELSE [c EXCEPT !.buffered = fails \/ c.state = "Closed" \/ ~c.handle]

(* SocketStreamHandleBase::send with SendData, when ProtoSSLSend fails or    *)
(* does not: data that are not accepted are buffered, if the state allows.   *)
MaySend(c) == c.state \in {"Open", "Closed"}
Send(c, fails) ==
  IF ~MaySend(c) \/ c.buffered THEN c
  ELSE IF c.state = "Open" /\ c.handle
       THEN IF fails THEN [c EXCEPT !.failed = TRUE, !.buffered = TRUE] ELSE c
       ELSE [c EXCEPT !.buffered = TRUE]

(* WebSocketChannel::fail and disconnect.                                    *)
Fail(c) == IF c.held /\ ~c.told THEN Disconnect(c) ELSE c
Abandon(c) == IF c.held THEN [Disconnect(c) EXCEPT !.live = FALSE] ELSE [c EXCEPT !.live = FALSE]

(* WebSocketChannel::startClosingHandshake.                                  *)
StartClosingHandshake(c, fails) ==
  IF c.handshake THEN c
  ELSE IF ~MaySend(c) THEN Disconnect(c)
  ELSE [Send(c, fails) EXCEPT !.handshake = TRUE, !.ready = IF c.live THEN "CLOSING" ELSE @]

(* WebSocketChannel::didCloseSocketStream: put off while suspended, else the *)
(* handle goes, and WebSocket::didClose has an event to dispatch.            *)
DidClose(c) ==
  LET t == [c EXCEPT !.told = TRUE, !.timeout = FALSE]
  IN  IF c.suspended \/ ~c.held THEN t
      ELSE [t EXCEPT !.held = FALSE, !.live = FALSE, !.ready = IF c.live THEN "CLOSED" ELSE @]
ClosesNow(c) == c.held /\ ~c.suspended /\ c.live

-----------------------------------------------------------------------------
Sets(s, c) == sock' = [sock EXCEPT ![s] = c]
EventFrame(s, event) == [at |-> "script", it |-> s, event |-> event, brk |-> FALSE]

(* An event is dispatched from the frames given: script runs.                *)
Dispatch(s, c, event, frames) ==
  /\ Sets(s, [c EXCEPT !.heard = event])
  /\ stack' = Append(frames, EventFrame(s, event))

(* didCloseSocketStream on s, called from the frames given.                  *)
CallDidClose(s, c, frames) ==
  IF ClosesNow(c) THEN Dispatch(s, DidClose(c), "close", frames)
                  ELSE Sets(s, DidClose(c)) /\ stack' = frames

(* Script or the application makes a WebSocket: OpenSocket may fail, and the *)
(* channel does not notice.                                                  *)
Make(s) ==
  /\ ScriptRuns
  /\ sock[s].ready = "none"
  /\ \E opened \in BOOLEAN :
       /\ Sets(s, [NoSocket EXCEPT !.handle = opened, !.attached = TRUE, !.live = TRUE,
                                   !.held = TRUE, !.ready = "CONNECTING"])
       /\ list' = IF opened THEN Append(list, s) ELSE list
  /\ UNCHANGED stack

(* WebSocket::send, once open.                                               *)
SendMessage(s) ==
  /\ ScriptRuns
  /\ sock[s].ready = "OPEN"
  /\ \E fails \in BOOLEAN : Sets(s, Send(sock[s], fails))
  /\ UNCHANGED <<list, stack>>

(* WebSocket::close with WebSocketChannel::close or fail.                    *)
Close(s) ==
  /\ ScriptRuns
  /\ \/ /\ sock[s].ready = "CONNECTING"
        /\ Sets(s, [Fail(sock[s]) EXCEPT !.ready = "CLOSING"])
     \/ /\ sock[s].ready = "OPEN"
        /\ \E fails \in BOOLEAN :
             LET c == StartClosingHandshake(sock[s], fails)
             IN  Sets(s, [c EXCEPT !.ready = "CLOSING", !.timeout = @ \/ c.handshake])
  /\ UNCHANGED <<list, stack>>

(* WebSocket::stop, when its document goes away.                             *)
Stop(s) ==
  /\ Idle \/ ScriptRuns
  /\ sock[s].ready # "none"
  /\ Sets(s, [(IF sock[s].live THEN Abandon(sock[s]) ELSE sock[s]) EXCEPT !.ready = "CLOSED"])
  /\ UNCHANGED <<list, stack>>

(* Script runs from an event or a timer of the page.                         *)
RunScript ==
  /\ Idle
  /\ stack' = Append(stack, [at |-> "script", it |-> None, event |-> "none", brk |-> FALSE])
  /\ UNCHANGED <<list, sock>>

(* At a breakpoint the page's WebSockets are suspended ...                   *)
Break ==
  /\ ScriptRuns /\ ~Broken
  /\ sock' = [s \in Socket |-> [sock[s] EXCEPT !.suspended = @ \/ sock[s].live]]
  /\ stack' = Becomes([Top EXCEPT !.brk = TRUE])
  /\ UNCHANGED list

(* Mutant: a close that came in the meantime is not made up for.             *)
WrongResumeForgetsClose ==
  /\ TopAt("script") /\ Top.brk
  /\ sock' = [s \in Socket |->
       IF sock[s].live
       THEN [sock[s] EXCEPT !.suspended = FALSE, !.resuming = @ \/ sock[s].data # <<>>]
       ELSE sock[s]]
  /\ stack' = Becomes([Top EXCEPT !.brk = FALSE])
  /\ UNCHANGED list

(* ... and resumed, by a timer if something came in the meantime.            *)
Resume ==
  /\ TopAt("script") /\ Top.brk
  /\ sock' = [s \in Socket |->
       IF sock[s].live
       THEN [sock[s] EXCEPT !.suspended = FALSE,
                            !.resuming = @ \/ sock[s].data # <<>> \/ sock[s].told]
       ELSE sock[s]]
  /\ stack' = Becomes([Top EXCEPT !.brk = FALSE])
  /\ UNCHANGED list

-----------------------------------------------------------------------------
(* SocketTransportHandlerDirtySDK::Tick.                                     *)

Tick ==
  /\ AppRuns /\ Cardinality(Ticks) < MaxTicks
  /\ stack' = Append(stack, [at |-> "update", it |-> First(list)])
  /\ UNCHANGED <<list, sock>>

Goto(where) == Becomes([Top EXCEPT !.at = where])

(* kSocketConnected: the channel sends its handshake.                        *)
Connected(c, fails) ==
  LET o == [c EXCEPT !.connected = TRUE, !.state = IF c.attached THEN "Open" ELSE @]
  IN  IF c.attached /\ c.live THEN Send(o, fails) ELSE o

Update(s) ==
  /\ At("update", s) /\ InList(s)
  /\ \/ sock[s].connected /\ UNCHANGED sock /\ stack' = Goto("recv")
     \/ /\ ~sock[s].connected
        /\ \E fails \in BOOLEAN : Sets(s, Connected(sock[s], fails))
        /\ stack' = Goto("recv")
     \/ ~sock[s].connected /\ UNCHANGED sock /\ stack' = Goto("end")
  /\ UNCHANGED list

(* What a server may send next, and didReceiveSocketStreamData.              *)
Coming(c) == IF c.sent = 0 THEN {"hello", "bad"} ELSE {"message", "closing", "garbled", "bad"}
Receive(s) ==
  /\ At("recv", s) /\ InList(s) /\ sock[s].sent < Items[s]
  /\ \E item \in Coming(sock[s]) :
       LET c == [sock[s] EXCEPT !.sent = @ + 1]
       IN  IF c.attached /\ c.live /\ ~c.discard
           THEN /\ Sets(s, [c EXCEPT !.data = Append(@, item)])
                /\ stack' = Append(stack, [at |-> "process", it |-> s, timer |-> FALSE, stop |-> FALSE])
           ELSE Sets(s, c) /\ UNCHANGED stack
  /\ UNCHANGED list

(* ProtoSSLRecv has nothing more, or an error.                               *)
ReceiveEnds(s) ==
  /\ At("recv", s) /\ InList(s)
  /\ \E fails \in BOOLEAN : Sets(s, [sock[s] EXCEPT !.failed = @ \/ fails])
  /\ stack' = Goto("end")
  /\ UNCHANGED list

(* Mutants: Tick looks at errors only; a told error leaves m_socketHandle.   *)
WrongKeepClosing(s) ==
  /\ At("end", s) /\ InList(s)
  /\ ~sock[s].failed
  /\ stack' = Becomes([at |-> "update", it |-> Following(s)])
  /\ UNCHANGED <<list, sock>>
WrongTellErrorKeepsHandle(s) ==
  /\ At("end", s) /\ InList(s) /\ sock[s].failed
  /\ IF sock[s].attached
     THEN CallDidClose(s, [sock[s] EXCEPT !.attached = FALSE], Goto("erase"))
     ELSE UNCHANGED sock /\ stack' = Goto("erase")
  /\ UNCHANGED list

Keep(s) ==
  /\ At("end", s) /\ InList(s)
  /\ ~sock[s].failed /\ ~sock[s].closing
  /\ stack' = Becomes([at |-> "update", it |-> Following(s)])
  /\ UNCHANGED <<list, sock>>

(* kSocketError: the client lets go of the socket, and its owner of it.      *)
TellError(s) ==
  /\ At("end", s) /\ InList(s) /\ sock[s].failed
  /\ IF sock[s].attached
     THEN CallDidClose(s, [sock[s] EXCEPT !.attached = FALSE, !.handle = FALSE], Goto("erase"))
     ELSE UNCHANGED sock /\ stack' = Goto("erase")
  /\ UNCHANGED list

(* ProtoSSLDestroy, delete and erase.                                        *)
Deleted(c) == [c EXCEPT !.connected = FALSE, !.failed = FALSE, !.closing = FALSE]
Erase(s) ==
  /\ InList(s)
  /\ At("erase", s) \/ (At("end", s) /\ ~sock[s].failed /\ sock[s].closing)
  /\ list' = RemoveAt(list, Position(s))
  /\ Sets(s, Deleted(sock[s]))
  /\ stack' = Becomes([at |-> "update", it |-> Following(s)])

TickDone ==
  /\ At("update", None)
  /\ stack' = Front(stack)
  /\ UNCHANGED <<list, sock>>

(* EA::WebKit::Shutdown, when the Views are gone.                            *)
Shutdown ==
  /\ Idle
  /\ \A s \in Socket : ~sock[s].live
  /\ list' = <<>>
  /\ sock' = [s \in Socket |-> Deleted(sock[s])]
  /\ UNCHANGED stack

-----------------------------------------------------------------------------
(* WebSocketChannel: while (!m_suspended && m_client && m_buffer)            *)
(*   if (!processBuffer()) break;                                            *)
Processing(s) == At("process", s) /\ ~Top.stop /\ ~sock[s].suspended /\ sock[s].live
                 /\ sock[s].data # <<>>
Piece(s) == Head(sock[s].data)
Taken(s) == [sock[s] EXCEPT !.data = Tail(@)]
Stopped == Becomes([Top EXCEPT !.stop = TRUE])
Hears(s) == sock[s].ready \in {"OPEN", "CLOSING"}

(* Data of a channel that has failed, or seen FF 00.                         *)
DiscardData(s) ==
  /\ Processing(s)
  /\ sock[s].discard \/ sock[s].received
  /\ Sets(s, IF sock[s].discard THEN sock[s] ELSE [sock[s] EXCEPT !.data = <<>>])
  /\ stack' = Stopped
  /\ UNCHANGED list

Reads(s) == Processing(s) /\ ~sock[s].discard /\ ~sock[s].received

(* Mutant: a socket that script has closed is opened all the same.           *)
WrongShakeHandsAlways(s) ==
  /\ Reads(s) /\ ~sock[s].shaken /\ Piece(s) = "hello"
  /\ Dispatch(s, [Taken(s) EXCEPT !.shaken = TRUE, !.ready = "OPEN"], "open", stack)
  /\ UNCHANGED list

(* The server's handshake: WebSocket::didConnect, which closes a socket that *)
(* script has closed meanwhile.                                              *)
ShakeHands(s) ==
  /\ Reads(s) /\ ~sock[s].shaken /\ Piece(s) = "hello"
  /\ LET c == [Taken(s) EXCEPT !.shaken = TRUE]
     IN  IF c.ready = "CONNECTING" THEN Dispatch(s, [c EXCEPT !.ready = "OPEN"], "open", stack)
                                   ELSE Dispatch(s, [c EXCEPT !.ready = "CLOSED"], "close", stack)
  /\ UNCHANGED list

RefuseHandshake(s) ==
  /\ Reads(s) /\ ~sock[s].shaken /\ Piece(s) # "hello"
  /\ Sets(s, Fail([Taken(s) EXCEPT !.discard = TRUE]))
  /\ stack' = Stopped
  /\ UNCHANGED list

DeliverMessage(s) ==
  /\ Reads(s) /\ sock[s].shaken /\ Piece(s) \in {"message", "garbled"}
  /\ LET event == IF Piece(s) = "message" THEN "message" ELSE "error"
     IN  IF Hears(s) THEN Dispatch(s, Taken(s), event, stack)
                     ELSE Sets(s, Taken(s)) /\ UNCHANGED stack
  /\ UNCHANGED list

(* FF 00: answered if script has not sent it first, then the stream closes.  *)
ReceiveClosing(s) ==
  /\ Reads(s) /\ sock[s].shaken /\ Piece(s) = "closing"
  /\ \E fails \in BOOLEAN :
       LET c == StartClosingHandshake([Taken(s) EXCEPT !.received = TRUE], fails)
       IN  Sets(s, IF c.handshake THEN CloseStream(c) ELSE c)
  /\ UNCHANGED <<list, stack>>

ReceiveBad(s) ==
  /\ Reads(s) /\ sock[s].shaken /\ Piece(s) = "bad"
  /\ LET c == [sock[s] EXCEPT !.data = <<>>, !.discard = TRUE]
     IN  IF Hears(s) THEN Dispatch(s, c, "error", Stopped)
                     ELSE Sets(s, Fail(c)) /\ stack' = Stopped
  /\ UNCHANGED list

(* The loop ends; the resume timer makes up for a close put off.             *)
ProcessDone(s) ==
  /\ At("process", s) /\ ~Processing(s)
  /\ IF Top.timer /\ ~sock[s].suspended /\ sock[s].live /\ sock[s].told /\ sock[s].held
     THEN CallDidClose(s, sock[s], Front(stack))
     ELSE UNCHANGED sock /\ stack' = Front(stack)
  /\ UNCHANGED list

ResumeTimerFires(s) ==
  /\ AppRuns
  /\ sock[s].resuming
  /\ Sets(s, [sock[s] EXCEPT !.resuming = FALSE])
  /\ stack' = Append(stack, [at |-> "process", it |-> s, timer |-> TRUE, stop |-> FALSE])
  /\ UNCHANGED list

ClosingTimerFires(s) ==
  /\ AppRuns
  /\ sock[s].timeout
  /\ Sets(s, LET c == [sock[s] EXCEPT !.timeout = FALSE] IN IF c.held THEN Disconnect(c) ELSE c)
  /\ UNCHANGED <<list, stack>>

(* Script returns: the error event of a loop that stops to fail, a close     *)
(* event to the end of WebSocket::didClose, others to the loop they are in.  *)
Below == stack[Len(stack) - 1]
ScriptReturns ==
  /\ ScriptRuns
  /\ stack' = Front(stack)
  /\ CASE Top.event = "error" /\ Below.stop -> Sets(Top.it, Fail(sock[Top.it]))
       [] Top.event = "close" -> Sets(Top.it, Abandon(sock[Top.it]))
       [] OTHER -> UNCHANGED sock
  /\ UNCHANGED list

-----------------------------------------------------------------------------
TickSteps(s) == \/ Update(s) \/ Receive(s) \/ ReceiveEnds(s)
                \/ Keep(s) \/ TellError(s) \/ Erase(s)
ChannelSteps(s) == \/ DiscardData(s) \/ ShakeHands(s) \/ RefuseHandshake(s)
                   \/ DeliverMessage(s) \/ ReceiveClosing(s) \/ ReceiveBad(s) \/ ProcessDone(s)
TimerSteps(s) == ResumeTimerFires(s) \/ ClosingTimerFires(s)
ScriptSteps(s) == Make(s) \/ SendMessage(s) \/ Close(s) \/ Stop(s)

Next == \/ RunScript \/ Break \/ Resume \/ ScriptReturns \/ Tick \/ TickDone \/ Shutdown
        \/ \E s \in Socket : TickSteps(s) \/ ChannelSteps(s) \/ TimerSteps(s) \/ ScriptSteps(s)

Spec == Init /\ [][Next]_vars

(* The thread goes on, script returns, a developer resumes it, and the       *)
(* application ticks and fires timers when nothing else runs.                *)
Fairness ==
  /\ WF_vars(TickDone) /\ SF_vars(ScriptReturns) /\ SF_vars(Resume) /\ SF_vars(Idle /\ Tick)
  /\ \A s \in Socket : /\ WF_vars(TickSteps(s)) /\ WF_vars(ChannelSteps(s))
                       /\ SF_vars(Idle /\ ResumeTimerFires(s))
                       /\ SF_vars(Idle /\ ClosingTimerFires(s))

FairSpec == Spec /\ Fairness

-----------------------------------------------------------------------------
Telling(s) == \E i \in DOMAIN stack : stack[i].at = "erase" /\ stack[i].it = s

(* CloseSocket and SendData are only called for a socket in the list:        *)
(* "Unable to find the socket to close.  Are you closing it multiple times?" *)
(* is never said, and no data go to a destroyed ProtoSSL connection.         *)
HandleInList == \A s \in Socket : sock[s].handle => InList(s)

(* A connection nobody holds any more is on its way out: what stays in the   *)
(* list is held by its stream or marked to be closed ("All instances should  *)
(* have close requested").                                                   *)
LetGoIsClosing == \A s \in Socket : InList(s) => sock[s].handle \/ sock[s].closing \/ Telling(s)

(* Tick only calls clients that exist: as long as a socket is in the list,   *)
(* its SocketStreamHandle is not deleted, except while its own error is      *)
(* being told.                                                               *)
ClientAlive == \A s \in Socket : InList(s) => (sock[s].held /\ sock[s].attached) \/ Telling(s)

(* No data wait for ever on a healthy connection: the stream buffers only    *)
(* when the transport has failed or is gone, as nobody calls                 *)
(* sendPendingData.                                                          *)
BufferIsLost == \A s \in Socket : sock[s].buffered => sock[s].failed \/ ~sock[s].handle

(* The events script hears are those of the abstract WebSocket.              *)
API == INSTANCE WebSocketAPI WITH ready <- [s \in Socket |-> sock[s].ready],
                                  heard <- [s \in Socket |-> sock[s].heard]
ImplementsAPI == API!Spec

(* A close that was asked for is carried out.                                *)
CloseCarriedOut == \A s \in Socket : (InList(s) /\ sock[s].closing) ~> ~InList(s)

(* An error is told to script, at once or when the page is resumed, unless   *)
(* the page goes away.                                                       *)
ErrorTold == \A s \in Socket : (InList(s) /\ sock[s].failed) ~> ~sock[s].live

-----------------------------------------------------------------------------
(* What the documentation says, and the code does not do.                    *)

(* "m_handle->disconnect(); // Will call didClose().": a channel that has    *)
(* disconnected an open stream is told that it is closed, or its page stops. *)
DisconnectTold ==
  \A s \in Socket : (InList(s) /\ sock[s].live /\ sock[s].state = "Closed") ~> ~sock[s].live
=============================================================================
