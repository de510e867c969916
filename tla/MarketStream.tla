----------------------------- MODULE MarketStream -----------------------------
(* The price socket of packages/soul/src/sensors/MarketStream.ts.  Events of a
   socket arrive some time after what caused them, stop() may come in between,
   and a handler looks at this.ws, not at the socket it belongs to. *)
EXTENDS Integers

CONSTANT MaxSockets   \* WebSocket objects ever made

VARIABLES
  socket,           \* state of each socket: "none", "connecting", "open", "closing", "closed"
  ws,               \* this.ws, 0 for null
  reconnectTimer,   \* "none", "armed", or "spent": it has fired but is still held
  stopped           \* stop() was the last thing asked

streamVars == <<socket, ws, reconnectTimer, stopped>>

Sockets == 1..MaxSockets

Init ==
  /\ socket = [i \in Sockets |-> "none"]
  /\ ws = 0 /\ reconnectTimer = "none" /\ stopped = TRUE

scheduleReconnect(timer) == IF timer = "none" THEN "armed" ELSE timer

(* A new socket, or a constructor that throws.  The timer is as given. *)
connect(timer) ==
  \/ \E i \in Sockets :
       /\ socket[i] = "none" /\ \A j \in 1..(i - 1) : socket[j] # "none"
       /\ socket' = [socket EXCEPT ![i] = "connecting"]
       /\ ws' = i /\ reconnectTimer' = timer
  \/ /\ reconnectTimer' = scheduleReconnect(timer)
     /\ UNCHANGED <<socket, ws>>

start == connect(reconnectTimer) /\ stopped' = FALSE

opens(i) ==
  /\ socket[i] = "connecting"
  /\ socket' = [socket EXCEPT ![i] = "open"]
  /\ UNCHANGED <<ws, reconnectTimer, stopped>>

Live(i) == socket[i] \in {"connecting", "open", "closing"}

Closing(states, i) == IF i = 0 \/ states[i] = "closed" THEN states ELSE [states EXCEPT ![i] = "closing"]

(* An error of one socket closes the one in this.ws; the broken one is closed by
   the platform. *)
fails(i) ==
  /\ socket[i] \in {"connecting", "open"}
  /\ socket' = Closing(Closing(socket, ws), i)
  /\ UNCHANGED <<ws, reconnectTimer, stopped>>

(* The close event, of any socket and for any reason. *)
closes(i) ==
  /\ Live(i)
  /\ socket' = [socket EXCEPT ![i] = "closed"]
  /\ reconnectTimer' = scheduleReconnect(reconnectTimer)
  /\ UNCHANGED <<ws, stopped>>

timerFires_held == reconnectTimer = "armed" /\ connect("spent") /\ UNCHANGED stopped

timerFires == reconnectTimer = "armed" /\ connect("none") /\ UNCHANGED stopped

(* stop() closes the current socket and disarms the timer, but the close event
   is still to come. *)
stop ==
  /\ socket' = Closing(socket, ws)
  /\ ws' = 0 /\ reconnectTimer' = "none" /\ stopped' = TRUE

Next ==
  \/ start \/ stop \/ timerFires
  \/ \E i \in Sockets : opens(i) \/ fails(i) \/ closes(i)

Spec == Init /\ [][Next]_streamVars

(* A stream that was started and not stopped has a socket or is about to open
   one: no order of failures, late close events and restarts leaves it dead. *)
NeverDead == stopped \/ reconnectTimer = "armed" \/ \E i \in Sockets : Live(i)
=============================================================================
