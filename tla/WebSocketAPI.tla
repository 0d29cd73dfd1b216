---------------------------- MODULE WebSocketAPI ----------------------------
(***************************************************************************)
(* What a page's script may rely on of its WebSockets, whatever transport  *)
(* carries them: the order of readyState and of the events it is sent.     *)
(***************************************************************************)
CONSTANT Socket

VARIABLES
  ready,  \* WebSocket::readyState of each socket, "none" before it is made
  heard   \* the last event dispatched to its script

avars == <<ready, heard>>

Init == /\ ready = [s \in Socket |-> "none"]
        /\ heard = [s \in Socket |-> "none"]

Goes(s, state, event) == /\ ready' = [ready EXCEPT ![s] = state]
                         /\ heard' = [heard EXCEPT ![s] = event]

Make(s) == ready[s] = "none" /\ Goes(s, "CONNECTING", "none")

Opens(s) == ready[s] = "CONNECTING" /\ Goes(s, "OPEN", "open")

(* Messages and errors come after the open event and before the close event. *)
Talks(s) == /\ ready[s] \in {"OPEN", "CLOSING"} /\ heard[s] # "none"
            /\ \E event \in {"message", "error"} : Goes(s, ready[s], event)

(* WebSocket::close, or the server's closing handshake.                      *)
Closing(s) == ready[s] \in {"CONNECTING", "OPEN"} /\ Goes(s, "CLOSING", heard[s])

(* The close event is the last, and comes once.                              *)
Closes(s) == ready[s] \in {"CONNECTING", "OPEN", "CLOSING"} /\ Goes(s, "CLOSED", "close")

(* The page goes away: no event any more.                                    *)
Stops(s) == ready[s] # "none" /\ Goes(s, "CLOSED", heard[s])

Next == \E s \in Socket : \/ Make(s) \/ Opens(s) \/ Talks(s)
                          \/ Closing(s) \/ Closes(s) \/ Stops(s)

Spec == Init /\ [][Next]_avars
=============================================================================
