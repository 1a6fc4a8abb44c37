------------------------------ MODULE MqttClient ------------------------------
(***************************************************************************)
(* The connection keeper of a monitor process and of the admin client:     *)
(* lib/protocol/mqtt/mqttClient.js.  One MqttClient opens a new stream for *)
(* every attempt, never ends an old one, and gives every stream handlers   *)
(* that act on the client and not on the stream.  The network is the       *)
(* environment: any stream that was opened may acknowledge, end, or carry  *)
(* a DISCONNECT, in any order with the timers.                             *)
(***************************************************************************)
EXTENDS Integers, FiniteSets

CONSTANTS
  MaxStream,   \* bound: attempts to connect
  LateEvents,  \* environment: see Reports
  LatePong     \* environment: a pong may take longer than 2 * keepalive

ASSUME MaxStreamAssumption == MaxStream \in Nat
ASSUME EnvironmentAssumption == LateEvents \in BOOLEAN /\ LatePong \in BOOLEAN

Stream == 1 .. MaxStream

VARIABLES
  connected,       \* MqttClient.connected
  closed,          \* MqttClient.closed
  connectedTimes,  \* MqttClient.connectedTimes, which starts at 1
  socket,          \* the stream of MqttClient.socket; 0 is null
  timeoutFlag,     \* MqttClient.timeoutFlag
  connectTimer,    \* the timer of timeoutId: off, or what it does when it fires
  reconnectId,     \* the last reconnect timer set: the one clearTimeout clears
  retries,         \* the reconnect timers that are pending
  keepaliveTimer,  \* the last interval set: the one clearInterval clears; 0 is null
  intervals,       \* the keepalive intervals that are running
  ping,            \* lastPing and lastPong: none, waiting or ponged
  opened,          \* number of streams opened
  stream,          \* state of each stream
  exited,          \* process.exit was called
  threw            \* history: operations that threw on a null socket

clientVars ==
  <<connected, closed, connectedTimes, socket, timeoutFlag, connectTimer, reconnectId,
    retries, keepaliveTimer, intervals, ping, opened, stream, exited, threw>>

(* new MqttClient() *)
ClientInit ==
  /\ connected = FALSE
  /\ closed = FALSE
  /\ connectedTimes = 1
  /\ socket = 0
  /\ timeoutFlag = FALSE
  /\ connectTimer = "off"
  /\ reconnectId = 0
  /\ retries = {}
  /\ keepaliveTimer = 0
  /\ intervals = {}
  /\ ping = "none"
  /\ opened = 0
  /\ stream = [s \in Stream |-> "unused"]
  /\ exited = FALSE
  /\ threw = {}

-----------------------------------------------------------------------------
(* connect(): the previous stream, if any, is only forgotten. *)
OpenStream ==
  /\ opened < MaxStream
  /\ opened' = opened + 1
  /\ socket' = opened'
  /\ stream' = [stream EXCEPT ![opened'] = "connecting"]
  /\ closed' = FALSE

(* Mutant: the flag is not read. *)
AddTimeoutAgain(onFire) == timeoutFlag' = TRUE /\ connectTimer' = onFire

(* addTimeout: the timer does what the caller wants that finds timeoutFlag  *)
(* clear. Clearing the timer does not clear the flag, firing does.          *)
AddTimeout(onFire) ==
  /\ timeoutFlag' = TRUE
  /\ connectTimer' = IF timeoutFlag THEN connectTimer ELSE onFire

(* The application's one call of connect(). *)
Connect ==
  /\ socket = 0 /\ ~closed
  /\ ~exited
  /\ OpenStream
  /\ AddTimeout("exit")
  /\ UNCHANGED <<connected, connectedTimes, reconnectId, retries, keepaliveTimer,
                 intervals, ping, exited, threw>>

(* Mutant: the timer's id is not kept. *)
ReconnectUntracked == retries' = retries \cup {reconnectId + 1} /\ UNCHANGED reconnectId

(* reconnect(): the delay only decides when the timer fires. *)
Reconnect ==
  /\ reconnectId' = reconnectId + 1
  /\ retries' = retries \cup {reconnectId'}

(* Mutant: the interval goes on. *)
ClearNotInterval ==
  /\ keepaliveTimer' = 0
  /\ connectTimer' = "off"
  /\ ping' = "none"
  /\ connected' = FALSE
  /\ closed' = TRUE
  /\ socket' = 0
  /\ UNCHANGED intervals

(* Mutant: the client still counts as connected. *)
ClearNotConnected ==
  /\ intervals' = intervals \ {keepaliveTimer}
  /\ keepaliveTimer' = 0
  /\ connectTimer' = "off"
  /\ ping' = "none"
  /\ closed' = TRUE
  /\ socket' = 0
  /\ UNCHANGED connected

(* What onSocketClose clears. *)
Clear ==
  /\ intervals' = intervals \ {keepaliveTimer}
  /\ keepaliveTimer' = 0
  /\ connectTimer' = "off"
  /\ ping' = "none"
  /\ connected' = FALSE
  /\ closed' = TRUE
  /\ socket' = 0

(* Mutant: a client that is already closed is not left alone. *)
OnSocketCloseAlways ==
  /\ Clear
  /\ IF connectedTimes > 1
     THEN Reconnect /\ UNCHANGED exited
     ELSE exited' = TRUE /\ UNCHANGED <<reconnectId, retries>>

(* Mutant: the first lost connection counts as a first attempt. *)
OnSocketCloseLate ==
  IF closed
  THEN UNCHANGED <<connected, closed, socket, connectTimer, reconnectId, retries,
                   keepaliveTimer, intervals, ping, exited>>
  ELSE /\ Clear
       /\ IF connectedTimes > 2
          THEN Reconnect /\ UNCHANGED exited
          ELSE exited' = TRUE /\ UNCHANGED <<reconnectId, retries>>

OnSocketClose ==
  IF closed
  THEN UNCHANGED <<connected, closed, socket, connectTimer, reconnectId, retries,
                   keepaliveTimer, intervals, ping, exited>>
  ELSE /\ Clear
       /\ IF connectedTimes > 1
          THEN Reconnect /\ UNCHANGED exited
          ELSE exited' = TRUE /\ UNCHANGED <<reconnectId, retries>>

-----------------------------------------------------------------------------
(* Events of the streams *)

(* The environment: without LateEvents, a stream that the client has        *)
(* abandoned never reports again.                                           *)
Reports(s) == ~exited /\ (LateEvents \/ s = socket)

SetupKeepAlive ==
  /\ retries' = retries \ {reconnectId}
  /\ connectTimer' = "off"
  /\ keepaliveTimer' = connectedTimes
  /\ intervals' = intervals \cup {keepaliveTimer'}

(* Mutant: an acknowledged client is no longer closed. *)
ConnackReopens(s) ==
  /\ Reports(s)
  /\ stream[s] = "connecting"
  /\ stream' = [stream EXCEPT ![s] = "open"]
  /\ closed' = FALSE
  /\ IF connected
     THEN UNCHANGED <<connected, connectedTimes, retries, connectTimer, keepaliveTimer,
                      intervals>>
     ELSE /\ connected' = TRUE
          /\ SetupKeepAlive
          /\ connectedTimes' = connectedTimes + 1
  /\ UNCHANGED <<socket, timeoutFlag, reconnectId, ping, opened, exited, threw>>

(* on 'connack'. It leaves closed as it is. *)
Connack(s) ==
  /\ Reports(s)
  /\ stream[s] = "connecting"
  /\ stream' = [stream EXCEPT ![s] = "open"]
  /\ IF connected
     THEN UNCHANGED <<connected, connectedTimes, retries, connectTimer, keepaliveTimer,
                      intervals>>
     ELSE /\ connected' = TRUE
          /\ SetupKeepAlive
          /\ connectedTimes' = connectedTimes + 1
  /\ UNCHANGED <<closed, socket, timeoutFlag, reconnectId, ping, opened, exited, threw>>

(* on 'close', or on 'error' and the 'close' that comes with it. *)
StreamEnds(s) ==
  /\ Reports(s)
  /\ stream[s] \in {"connecting", "open"}
  /\ stream' = [stream EXCEPT ![s] = "ended"]
  /\ OnSocketClose
  /\ UNCHANGED <<connectedTimes, timeoutFlag, opened, threw>>

(* on 'disconnect': the master's DISCONNECT packet; the stream stays open.  *)
DisconnectPacket(s) ==
  /\ Reports(s)
  /\ stream[s] = "open"
  /\ OnSocketClose
  /\ UNCHANGED <<connectedTimes, timeoutFlag, opened, stream, threw>>

(* on 'pingresp' *)
Pingresp(s) ==
  /\ Reports(s)
  /\ stream[s] = "open"
  /\ ping = "waiting"
  /\ ping' = "ponged"
  /\ UNCHANGED <<connected, closed, connectedTimes, socket, timeoutFlag, connectTimer,
                 reconnectId, retries, keepaliveTimer, intervals, opened, stream, exited,
                 threw>>

-----------------------------------------------------------------------------
(* Timers and close *)

(* close(), in an operation: no timer is cleared; without a socket it throws *)
(* after the assignments.                                                   *)
CloseClient(operation) ==
  /\ connected' = FALSE
  /\ closed' = TRUE
  /\ threw' = IF socket = 0 THEN threw \cup {operation} ELSE threw
  /\ UNCHANGED <<connectedTimes, socket, timeoutFlag, connectTimer, reconnectId, retries,
                 keepaliveTimer, intervals, ping, opened, stream, exited>>

(* disconnect(), called by the owner of the client *)
Disconnect ==
  /\ socket # 0 \/ closed
  /\ ~exited
  /\ CloseClient("close")

(* checkKeepAlive: a ping, unless one is waiting for its pong. *)
SendPing(k) ==
  /\ k \in intervals
  /\ ~exited /\ ~closed
  /\ ping # "waiting"
  /\ IF socket = 0
     THEN threw' = threw \cup {"pingreq"} /\ UNCHANGED ping
     ELSE ping' = "waiting" /\ UNCHANGED threw
  /\ UNCHANGED <<connected, closed, connectedTimes, socket, timeoutFlag, connectTimer,
                 reconnectId, retries, keepaliveTimer, intervals, opened, stream, exited>>

(* checkKeepAlive: the pong has not come in 2 * keepalive. *)
KeepAliveTimeout(k) ==
  /\ LatePong
  /\ k \in intervals
  /\ ~exited /\ ~closed
  /\ ping = "waiting"
  /\ CloseClient("keepalive")

(* The timer of reconnect(). connect() returns at once when connected. *)
RetryFires(n) ==
  /\ ~exited
  /\ n \in retries
  /\ retries' = retries \ {n}
  /\ AddTimeout("reconnect")
  /\ IF connected THEN UNCHANGED <<closed, socket, opened, stream>> ELSE OpenStream
  /\ UNCHANGED <<connected, connectedTimes, reconnectId, keepaliveTimer, intervals, ping,
                 exited, threw>>

(* The timer of addTimeout. *)
TimeoutFires ==
  /\ ~exited
  /\ connectTimer # "off"
  /\ connectTimer' = "off"
  /\ timeoutFlag' = FALSE
  /\ IF socket = 0
     THEN threw' = threw \cup {"timeout"} /\ UNCHANGED <<exited, reconnectId, retries>>
     ELSE /\ UNCHANGED threw
          /\ IF connectTimer = "exit"
             THEN exited' = TRUE /\ UNCHANGED <<reconnectId, retries>>
             ELSE Reconnect /\ UNCHANGED exited
  /\ UNCHANGED <<connected, closed, connectedTimes, socket, keepaliveTimer, intervals,
                 ping, opened, stream>>

ClientNext ==
  \/ Connect
  \/ Disconnect
  \/ TimeoutFires
  \/ \E s \in Stream : Connack(s) \/ StreamEnds(s) \/ DisconnectPacket(s) \/ Pingresp(s)
  \/ \E k \in intervals : SendPing(k) \/ KeepAliveTimeout(k)
  \/ \E n \in retries : RetryFires(n)

ClientSpec == ClientInit /\ [][ClientNext]_clientVars

-----------------------------------------------------------------------------
(* Type correctness. *)
ClientTypeOK ==
  /\ connected \in BOOLEAN /\ closed \in BOOLEAN
  /\ connectedTimes \in Nat \ {0}
  /\ socket \in 0 .. opened
  /\ timeoutFlag \in BOOLEAN
  /\ connectTimer \in {"off", "exit", "reconnect"}
  /\ reconnectId \in Nat
  /\ retries \subseteq 1 .. reconnectId
  /\ keepaliveTimer \in Nat
  /\ intervals \subseteq 1 .. connectedTimes
  /\ ping \in {"none", "waiting", "ponged"}
  /\ opened \in 0 .. MaxStream
  /\ stream \in [Stream -> {"unused", "connecting", "open", "ended"}]
  /\ exited \in BOOLEAN
  /\ threw \subseteq {"close", "keepalive", "pingreq", "timeout"}

(* Once a connection has been acknowledged, nothing the network, the timers *)
(* or the owner do makes the client end the process.                        *)
ExitsOnlyBeforeConnect == exited => connectedTimes = 1

(* Reconnection never runs twice at a time: one timer at most, the one that *)
(* setupKeepAlive clears, and only while nothing is connected.              *)
OneRetry ==
  /\ retries \subseteq {reconnectId}
  /\ retries # {} => closed /\ ~connected

(* A live connection is watched by exactly one keepalive interval, the one  *)
(* onSocketClose clears, whatever close() and late acknowledgements leave   *)
(* behind.                                                                  *)
LiveHasOneKeepAlive ==
  connected /\ ~closed => keepaliveTimer # 0 /\ intervals = {keepaliveTimer}

(* Timers never find the socket missing, the keepalive that gives up a      *)
(* silent connection included; only the owner's close() can, in the wait    *)
(* before a reconnect.                                                      *)
TimersHaveSocket == threw \subseteq {"close"}

(* Only the first attempt is timed: timeoutFlag stays set, so an attempt to *)
(* reconnect that hangs is never given up, and 'timeout' never reconnects.  *)
OnlyFirstAttemptIsTimed == connectTimer # "off" => connectTimer = "exit" /\ connectedTimes = 1
=============================================================================
