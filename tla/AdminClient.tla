------------------------------ MODULE AdminClient ------------------------------
(***************************************************************************)
(* The client of the admin console: lib/client/client.js on its MqttClient.*)
(* Like MonitorAgent, its listeners run inside the events of the           *)
(* MqttClient. It has no listener for 'reconnect', its listener for        *)
(* 'disconnect' sets a field of the MqttClient and not its own state, and  *)
(* nothing in it looks at that state before a write.                       *)
(***************************************************************************)
EXTENDS MqttClient, Sequences

CONSTANT MaxAsk  \* bound: requests and commands of the client

ASSUME MaxAskAssumption == MaxAsk \in Nat

Ask == 1 .. MaxAsk

VARIABLES
  cstate,   \* Client.state
  login,    \* what connect()'s callback was told: none, ok or error
  askId,    \* Client.reqId
  asking,   \* ids of Client.callbacks
  out,      \* messages written to each stream and not yet carried
  written,  \* history: the stream each request was written to; 0 if it threw
  called    \* history: calls of each callback

adminVars == <<cstate, login, askId, asking, out, written, called>>
vars == <<clientVars, adminVars>>

Message == [topic : {"register", "disconnect"}, id : {0}]
           \cup [topic : {"client"}, id : Ask]

Plain(t) == [topic |-> t, id |-> 0]

Init ==
  /\ ClientInit
  /\ cstate = "inited"
  /\ login = "none"
  /\ askId = 1
  /\ asking = {}
  /\ out = [s \in Stream |-> <<>>]
  /\ written = [q \in Ask |-> 0]
  /\ called = [q \in Ask |-> 0]

-----------------------------------------------------------------------------
(* doSend: without a socket the write throws. *)
Send(m) == out' = IF socket' = 0 THEN out ELSE [out EXCEPT ![socket'] = Append(@, m)]

ClientConnect == Connect /\ UNCHANGED adminVars

(* on 'connect'. A connection that came back greets nobody.                 *)
ClientConnack(s) ==
  /\ Connack(s)
  /\ IF ~connected /\ connectedTimes = 1
     THEN cstate' = "connected" /\ Send(Plain("register"))
     ELSE UNCHANGED <<cstate, out>>
  /\ UNCHANGED <<login, askId, asking, written, called>>

Receives(s) == Reports(s) /\ stream[s] = "open" /\ UNCHANGED clientVars

(* on 'register' *)
OnRegister(s, ok) ==
  /\ Receives(s)
  /\ cstate' = IF ok THEN "registered" ELSE cstate
  /\ login' = IF ok THEN "ok" ELSE "error"
  /\ UNCHANGED <<askId, asking, out, written, called>>

(* Mutant: the callback stays. *)
OnClientKeeping(s, q) ==
  /\ Receives(s)
  /\ called' = [called EXCEPT ![q] = IF q \in asking THEN @ + 1 ELSE @]
  /\ UNCHANGED <<cstate, login, askId, asking, out, written>>

(* on 'client' with a response: an id without a callback is nothing.        *)
OnClient(s, q) ==
  /\ Receives(s)
  /\ asking' = asking \ {q}
  /\ called' = [called EXCEPT ![q] = IF q \in asking THEN @ + 1 ELSE @]
  /\ UNCHANGED <<cstate, login, askId, out, written>>

(* The master's DISCONNECT leaves the client's own state as it is.          *)
ClientDisconnectPacket(s) == DisconnectPacket(s) /\ UNCHANGED adminVars

(* request() and command(), once connect() has called back as their users   *)
(* wait for: the callback is stored before the write, and stays when the    *)
(* write throws. (notify() writes in the same way and keeps nothing.)       *)
ClientAsk ==
  /\ login # "none"
  /\ askId \in Ask
  /\ askId' = askId + 1
  /\ asking' = asking \cup {askId}
  /\ UNCHANGED clientVars
  /\ Send([topic |-> "client", id |-> askId])
  /\ written' = [written EXCEPT ![askId] = socket]
  /\ UNCHANGED <<cstate, login, called>>

(* The client gives up a silent connection: it writes a DISCONNECT.         *)
ClientKeepAliveTimeout(k) ==
  /\ KeepAliveTimeout(k)
  /\ Send(Plain("disconnect"))
  /\ UNCHANGED <<cstate, login, askId, asking, written, called>>

(* Events of the MqttClient that the client does not hear of. *)
ClientAlone ==
  /\ \/ TimeoutFires
     \/ \E k \in intervals : SendPing(k)
     \/ \E n \in retries : RetryFires(n)
  /\ UNCHANGED adminVars

(* The network takes the next message of a stream. *)
Carry(s) ==
  /\ out[s] # <<>>
  /\ out' = [out EXCEPT ![s] = Tail(@)]
  /\ UNCHANGED <<clientVars, cstate, login, askId, asking, written, called>>
=============================================================================
