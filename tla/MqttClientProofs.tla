--------------------------- MODULE MqttClientProofs ---------------------------
(***************************************************************************)
(* Proofs about MqttClient, for any number of attempts and any environment *)
(* (LateEvents, LatePong).                                                 *)
(***************************************************************************)
EXTENDS MqttClient, TLAPS

(* What makes the invariants of MqttClient inductive. A client without a    *)
(* socket is closed or has not begun; once it has begun, timeoutFlag stays  *)
(* set, which is why only the first attempt is timed; until the first       *)
(* acknowledgement there is one stream at most; and where an attempt is     *)
(* under way or waited for, no keepalive interval is left over.             *)
Fresh == socket = 0 /\ ~closed
Live(s) == stream[s] \in {"connecting", "open"}

Begun ==
  /\ \A s \in Stream : stream[s] # "unused" => s =< opened
  /\ Fresh => ~connected /\ connectedTimes = 1 /\ \A s \in Stream : ~Live(s)
  /\ ~Fresh => timeoutFlag \/ exited

FirstTry ==
  connectedTimes = 1 =>
    /\ ~connected /\ retries = {}
    /\ \A s \in Stream : stream[s] # "open" /\ (stream[s] = "connecting" => s = socket)

NoneLeftOver ==
  /\ connectTimer # "off" => socket # 0
  /\ ~closed /\ ~connected => intervals = {}
  /\ retries # {} => intervals = {} /\ socket = 0

(* What holds of the client in every incarnation of its process; of the     *)
(* first one, as long as nothing else ends it, ClientInv.                   *)
ClientCore ==
  /\ ClientTypeOK
  /\ OneRetry
  /\ OnlyFirstAttemptIsTimed
  /\ LiveHasOneKeepAlive
  /\ TimersHaveSocket
  /\ Begun
  /\ FirstTry
  /\ NoneLeftOver

ClientInv == ClientCore /\ ExitsOnlyBeforeConnect

(* Type correctness in two parts: the flags, and the rest. *)
Flags ==
  /\ connected \in BOOLEAN /\ closed \in BOOLEAN
  /\ timeoutFlag \in BOOLEAN /\ exited \in BOOLEAN

Values ==
  /\ connectedTimes \in Nat \ {0}
  /\ socket \in 0 .. opened
  /\ connectTimer \in {"off", "exit", "reconnect"}
  /\ reconnectId \in Nat /\ retries \subseteq 1 .. reconnectId
  /\ keepaliveTimer \in Nat /\ intervals \subseteq 1 .. connectedTimes
  /\ ping \in {"none", "waiting", "ponged"}
  /\ opened \in 0 .. MaxStream
  /\ stream \in [Stream -> {"unused", "connecting", "open", "ended"}]
  /\ threw \subseteq {"close", "keepalive", "pingreq", "timeout"}

(* The two parts of the type invariant.                                     *)
LEMMA TypeParts == ClientTypeOK <=> Flags /\ Values
BY DEF ClientTypeOK, Flags, Values

(* The same of the next state.                                              *)
LEMMA TypePartsNext == ClientTypeOK' <=> Flags' /\ Values'
BY DEF ClientTypeOK, Flags, Values

(* The invariants hold initially. *)
LEMMA InitClientInv == ASSUME ClientInit PROVE ClientInv
<1>1. ClientTypeOK
  <2>1. Flags
    BY DEF ClientInit, Flags
  <2>2. Values
    BY MaxStreamAssumption DEF ClientInit, Values
  <2> QED BY <2>1, <2>2, TypeParts
<1>2. OneRetry /\ OnlyFirstAttemptIsTimed /\ ExitsOnlyBeforeConnect
  BY DEF ClientInit, OneRetry, OnlyFirstAttemptIsTimed, ExitsOnlyBeforeConnect
<1>3. LiveHasOneKeepAlive /\ TimersHaveSocket /\ NoneLeftOver
  BY DEF ClientInit, LiveHasOneKeepAlive, TimersHaveSocket, NoneLeftOver
<1>4. Begun /\ FirstTry
  BY DEF ClientInit, Begun, Fresh, Live, FirstTry
<1> QED BY <1>1, <1>2, <1>3, <1>4 DEF ClientInv, ClientCore

(* connect() opens one more stream and makes it the current one.            *)
LEMMA OpenStreamType ==
  ASSUME ClientCore, OpenStream
  PROVE  /\ opened' \in 1 .. MaxStream /\ socket' = opened' /\ opened' = opened + 1
         /\ opened' \in Stream /\ stream[opened'] = "unused"
         /\ stream' = [stream EXCEPT ![opened'] = "connecting"]
         /\ stream' \in [Stream -> {"unused", "connecting", "open", "ended"}]
         /\ \A s \in Stream : stream'[s] # "unused" => s =< opened'
         /\ closed' = FALSE
<1>1. /\ opened \in 0 .. MaxStream /\ opened < MaxStream /\ opened' = opened + 1
      /\ socket' = opened' /\ closed' = FALSE
      /\ stream' = [stream EXCEPT ![opened'] = "connecting"]
      /\ stream \in [Stream -> {"unused", "connecting", "open", "ended"}]
      /\ \A s \in Stream : stream[s] # "unused" => s =< opened
  BY DEF OpenStream, ClientCore, ClientTypeOK, Begun
<1>2. opened' \in 1 .. MaxStream /\ opened' \in Stream
  BY <1>1, MaxStreamAssumption DEF Stream
<1>3. stream[opened'] = "unused"
  BY <1>1, <1>2
<1>4. \A s \in Stream : stream'[s] # "unused" => s =< opened'
  BY <1>1, <1>2 DEF Stream
<1> QED BY <1>1, <1>2, <1>3, <1>4

(* What the end of the current connection does, whoever reports it, once    *)
(* the client has begun.                                                    *)
LEMMA SocketCloseKeeps ==
  ASSUME ClientCore, OnSocketClose, ~exited, ~Fresh,
         UNCHANGED <<connectedTimes, timeoutFlag, opened, threw>>,
         stream' \in [Stream -> {"unused", "connecting", "open", "ended"}],
         \A s \in Stream : stream'[s] # "unused" => s =< opened,
         connectedTimes = 1 => \A s \in Stream : ~Live(s)'
  PROVE  ClientCore'
<1>1. CASE closed
  <2>1. UNCHANGED <<connected, closed, connectedTimes, socket, timeoutFlag, connectTimer,
                    reconnectId, retries, keepaliveTimer, intervals, ping, opened, exited, threw>>
    BY <1>1 DEF OnSocketClose
  <2>2. ClientTypeOK' /\ OneRetry' /\ OnlyFirstAttemptIsTimed' /\ LiveHasOneKeepAlive'
    BY <2>1 DEF ClientCore, ClientTypeOK, OneRetry, OnlyFirstAttemptIsTimed, LiveHasOneKeepAlive
  <2>3. TimersHaveSocket' /\ NoneLeftOver'
    BY <2>1 DEF ClientCore, TimersHaveSocket, NoneLeftOver
  <2>4. Begun'
    BY <1>1, <2>1 DEF ClientCore, Begun, Fresh
  <2>5. FirstTry'
    BY <2>1 DEF ClientCore, FirstTry, Live
  <2> QED BY <2>2, <2>3, <2>4, <2>5 DEF ClientCore
<1>2. CASE ~closed
  <2>1. /\ intervals' = intervals \ {keepaliveTimer} /\ keepaliveTimer' = 0
        /\ connectTimer' = "off" /\ ping' = "none" /\ connected' = FALSE
        /\ closed' = TRUE /\ socket' = 0
    BY <1>2 DEF OnSocketClose, Clear
  <2>2. /\ \/ reconnectId' = reconnectId + 1 /\ retries' = retries \cup {reconnectId'}
           \/ UNCHANGED <<reconnectId, retries>>
        /\ exited' \in BOOLEAN
        /\ exited' => connectedTimes =< 1
        /\ connectedTimes = 1 => retries' = retries
    <3>1. CASE connectedTimes > 1
      <4>1. /\ reconnectId' = reconnectId + 1 /\ retries' = retries \cup {reconnectId'}
            /\ exited' = exited
        BY <1>2, <3>1 DEF OnSocketClose, Reconnect
      <4>2. exited' = FALSE
        BY <4>1 DEF ClientCore, ClientTypeOK
      <4>3. connectedTimes # 1
        BY <3>1
      <4> QED BY <4>1, <4>2, <4>3
    <3>2. CASE ~(connectedTimes > 1)
      <4>1. UNCHANGED <<reconnectId, retries>> /\ exited' = TRUE
        BY <1>2, <3>2 DEF OnSocketClose
      <4>2. connectedTimes =< 1
        BY <3>2 DEF ClientCore, ClientTypeOK
      <4> QED BY <4>1, <4>2
    <3> QED BY <3>1, <3>2
  <2>3. retries = {} /\ intervals' = {}
    BY <1>2, <2>1 DEF ClientCore, OneRetry, LiveHasOneKeepAlive, NoneLeftOver, ClientTypeOK
  <2>4. /\ connectedTimes \in Nat \ {0} /\ reconnectId \in Nat /\ opened \in 0 .. MaxStream
        /\ timeoutFlag \in BOOLEAN /\ exited \in BOOLEAN
        /\ threw \subseteq {"close"} /\ (timeoutFlag \/ exited)
    BY DEF ClientCore, ClientTypeOK, TimersHaveSocket, Begun
  <2>5. ClientTypeOK'
    <3>1. Flags'
      BY <2>1, <2>2, <2>4 DEF Flags
    <3>2. Values'
      <4>1. Values
        BY TypeParts DEF ClientCore
      <4> QED BY <2>1, <2>2, <2>3, <4>1 DEF Values
    <3> QED BY <3>1, <3>2, TypePartsNext
  <2>6. OneRetry' /\ OnlyFirstAttemptIsTimed' /\ LiveHasOneKeepAlive' /\ NoneLeftOver'
    BY <2>1, <2>2, <2>3, <2>4
       DEF OneRetry, OnlyFirstAttemptIsTimed, LiveHasOneKeepAlive, NoneLeftOver
  <2>7. FirstTry'
    BY <2>1, <2>2, <2>3 DEF FirstTry, Live
  <2>8. TimersHaveSocket' /\ Begun'
    BY <2>1, <2>2, <2>4 DEF TimersHaveSocket, Begun, Fresh
  <2> QED BY <2>5, <2>6, <2>7, <2>8 DEF ClientCore
<1> QED BY <1>1, <1>2

(* close() keeps the invariants, by whichever of its callers: the owner,    *)
(* who has begun, or a keepalive interval, which has a socket.              *)
LEMMA CloseKeeps ==
  ASSUME ClientCore, socket # 0 \/ closed, NEW operation, CloseClient(operation),
         operation = "close" \/ (operation = "keepalive" /\ socket # 0)
  PROVE  ClientCore'
<1>1. /\ connected' = FALSE /\ closed' = TRUE
      /\ threw' = IF socket = 0 THEN threw \cup {"close"} ELSE threw
      /\ UNCHANGED <<connectedTimes, socket, timeoutFlag, connectTimer, reconnectId, retries,
                     keepaliveTimer, intervals, ping, opened, stream, exited>>
  BY DEF CloseClient
<1>2. ClientTypeOK' /\ OneRetry' /\ OnlyFirstAttemptIsTimed' /\ LiveHasOneKeepAlive'
  BY <1>1 DEF ClientCore, ClientTypeOK, OneRetry, OnlyFirstAttemptIsTimed, LiveHasOneKeepAlive
<1>3. TimersHaveSocket' /\ NoneLeftOver'
  BY <1>1 DEF ClientCore, TimersHaveSocket, NoneLeftOver
<1>4. Begun' /\ FirstTry'
  BY <1>1 DEF ClientCore, Begun, Fresh, Live, FirstTry
<1> QED BY <1>2, <1>3, <1>4 DEF ClientCore

(* Pings and pongs only change ping. *)
LEMMA PingKeeps ==
  ASSUME ClientCore, ping' \in {"none", "waiting", "ponged"},
         UNCHANGED <<connected, closed, connectedTimes, socket, timeoutFlag, connectTimer,
                     reconnectId, retries, keepaliveTimer, intervals, opened, stream, exited,
                     threw>>
  PROVE  ClientCore'
<1>1. ClientTypeOK' /\ OneRetry' /\ OnlyFirstAttemptIsTimed' /\ LiveHasOneKeepAlive'
  BY DEF ClientCore, ClientTypeOK, OneRetry, OnlyFirstAttemptIsTimed, LiveHasOneKeepAlive
<1>2. TimersHaveSocket' /\ NoneLeftOver'
  BY DEF ClientCore, TimersHaveSocket, NoneLeftOver
<1>3. Begun' /\ FirstTry'
  BY DEF ClientCore, Begun, Fresh, Live, FirstTry
<1> QED BY <1>1, <1>2, <1>3 DEF ClientCore

(* Every event, timer and call keeps the invariants.                        *)
LEMMA NextClientCore == ASSUME ClientCore, ClientNext PROVE ClientCore'
<1>1. ASSUME Connect PROVE ClientCore'
  <2>1. /\ socket = 0 /\ ~closed /\ ~exited /\ OpenStream
        /\ timeoutFlag' = TRUE
        /\ connectTimer' = IF timeoutFlag THEN connectTimer ELSE "exit"
        /\ UNCHANGED <<connected, connectedTimes, reconnectId, retries, keepaliveTimer,
                       intervals, ping, exited, threw>>
    BY <1>1 DEF Connect, AddTimeout
  <2>2. /\ ~connected /\ connectedTimes = 1 /\ intervals = {} /\ retries = {}
        /\ \A s \in Stream : ~Live(s)
    BY <2>1 DEF ClientCore, Begun, Fresh, FirstTry, NoneLeftOver
  <2>3. /\ opened' \in 1 .. MaxStream /\ socket' = opened' /\ closed' = FALSE
        /\ stream' = [stream EXCEPT ![opened'] = "connecting"]
        /\ stream' \in [Stream -> {"unused", "connecting", "open", "ended"}]
        /\ \A s \in Stream : stream'[s] # "unused" => s =< opened'
    BY <2>1, OpenStreamType
  <2>4. connectTimer' \in {"off", "exit"}
    BY <2>1 DEF ClientCore, OnlyFirstAttemptIsTimed
  <2>5. ClientTypeOK'
    <3>1. Flags /\ Values
      BY TypeParts DEF ClientCore
    <3>2. Flags'
      BY <2>1, <2>3, <3>1 DEF Flags
    <3>3. Values'
      BY <2>1, <2>3, <2>4, <3>1 DEF Values
    <3> QED BY <3>2, <3>3, TypePartsNext
  <2>6. OneRetry' /\ OnlyFirstAttemptIsTimed'
    BY <2>1, <2>2, <2>4 DEF OneRetry, OnlyFirstAttemptIsTimed
  <2>7. LiveHasOneKeepAlive' /\ TimersHaveSocket' /\ NoneLeftOver'
    BY <2>1, <2>2, <2>3 DEF LiveHasOneKeepAlive, TimersHaveSocket, NoneLeftOver, ClientCore
  <2>8. Begun'
    BY <2>1, <2>3 DEF Begun, Fresh
  <2>9. FirstTry'
    BY <2>1, <2>2, <2>3 DEF FirstTry, Live, ClientCore, ClientTypeOK
  <2> QED BY <2>5, <2>6, <2>7, <2>8, <2>9 DEF ClientCore
<1>2. ASSUME Disconnect PROVE ClientCore'
  BY <1>2, CloseKeeps DEF Disconnect
<1>3. ASSUME TimeoutFires PROVE ClientCore'
  <2>1. connectTimer = "exit" /\ connectedTimes = 1 /\ socket # 0
    BY <1>3 DEF TimeoutFires, ClientCore, OnlyFirstAttemptIsTimed, NoneLeftOver
  <2>2. /\ connectTimer' = "off" /\ timeoutFlag' = FALSE /\ exited' = TRUE
        /\ UNCHANGED <<connected, closed, connectedTimes, socket, reconnectId, retries,
                       keepaliveTimer, intervals, ping, opened, stream, threw>>
    BY <1>3, <2>1 DEF TimeoutFires
  <2>3. ClientTypeOK' /\ OneRetry' /\ OnlyFirstAttemptIsTimed' /\ LiveHasOneKeepAlive'
    BY <2>2 DEF ClientCore, ClientTypeOK, OneRetry, OnlyFirstAttemptIsTimed, LiveHasOneKeepAlive
  <2>4. TimersHaveSocket' /\ NoneLeftOver'
    BY <2>2 DEF ClientCore, TimersHaveSocket, NoneLeftOver
  <2>5. Begun' /\ FirstTry'
    BY <2>1, <2>2 DEF ClientCore, Begun, Fresh, Live, FirstTry
  <2> QED BY <2>3, <2>4, <2>5 DEF ClientCore
<1>4. ASSUME NEW s \in Stream, Connack(s) PROVE ClientCore'
  <2>1. /\ ~exited /\ s =< opened /\ Live(s) /\ ~Fresh
        /\ stream' \in [Stream -> {"unused", "connecting", "open", "ended"}]
        /\ \A t \in Stream : stream'[t] # "unused" => t =< opened
        /\ UNCHANGED <<closed, socket, timeoutFlag, reconnectId, ping, opened, exited, threw>>
    BY <1>4 DEF Connack, Reports, ClientCore, ClientTypeOK, Begun, Live
  <2>2. CASE connected
    <3>1. UNCHANGED <<connected, connectedTimes, retries, connectTimer, keepaliveTimer, intervals>>
      BY <1>4, <2>2 DEF Connack
    <3>2. ClientTypeOK' /\ OneRetry' /\ OnlyFirstAttemptIsTimed' /\ LiveHasOneKeepAlive'
      BY <2>1, <3>1 DEF ClientCore, ClientTypeOK, OneRetry, OnlyFirstAttemptIsTimed,
         LiveHasOneKeepAlive
    <3>3. TimersHaveSocket' /\ NoneLeftOver'
      BY <2>1, <3>1 DEF ClientCore, TimersHaveSocket, NoneLeftOver
    <3>4. Begun' /\ FirstTry'
      BY <2>1, <2>2, <3>1 DEF ClientCore, Begun, Fresh, FirstTry
    <3> QED BY <3>2, <3>3, <3>4 DEF ClientCore
  <2>3. CASE ~connected
    <3>1. /\ connected' = TRUE /\ connectedTimes' = connectedTimes + 1
          /\ retries' = retries \ {reconnectId} /\ connectTimer' = "off"
          /\ keepaliveTimer' = connectedTimes
          /\ intervals' = intervals \cup {connectedTimes}
      BY <1>4, <2>3 DEF Connack, SetupKeepAlive
    <3>2. retries' = {}
      BY <3>1 DEF ClientCore, OneRetry
    <3>3. ~closed => intervals = {}
      BY <2>3 DEF ClientCore, NoneLeftOver
    <3>4. ClientTypeOK'
      BY <2>1, <3>1, <3>2 DEF ClientCore, ClientTypeOK
    <3>5. OneRetry' /\ OnlyFirstAttemptIsTimed' /\ NoneLeftOver'
      BY <3>1, <3>2 DEF OneRetry, OnlyFirstAttemptIsTimed, NoneLeftOver
    <3>6. LiveHasOneKeepAlive'
      BY <2>1, <3>1, <3>3 DEF LiveHasOneKeepAlive, ClientCore, ClientTypeOK
    <3>7. TimersHaveSocket' /\ Begun'
      BY <2>1 DEF TimersHaveSocket, Begun, Fresh, ClientCore
    <3>8. FirstTry'
      BY <3>1 DEF FirstTry, ClientCore, ClientTypeOK
    <3> QED BY <3>4, <3>5, <3>6, <3>7, <3>8 DEF ClientCore
  <2> QED BY <2>2, <2>3
<1>5. ASSUME NEW s \in Stream, StreamEnds(s) \/ DisconnectPacket(s) PROVE ClientCore'
  <2>1. /\ ~exited /\ OnSocketClose /\ s =< opened /\ Live(s) /\ ~Fresh
        /\ UNCHANGED <<connectedTimes, timeoutFlag, opened, threw>>
        /\ stream' \in [Stream -> {"unused", "connecting", "open", "ended"}]
        /\ \A t \in Stream : stream'[t] # "unused" => t =< opened
    BY <1>5 DEF StreamEnds, DisconnectPacket, Reports, ClientCore, ClientTypeOK, Begun, Live
  <2>2. ASSUME connectedTimes = 1 PROVE \A t \in Stream : ~Live(t)'
    <3>1. /\ stream[s] # "open" /\ s = socket
          /\ \A t \in Stream : t # s => ~Live(t)
      BY <2>1, <2>2 DEF ClientCore, FirstTry, Live
    <3>2. stream' = [stream EXCEPT ![s] = "ended"]
      BY <1>5, <3>1 DEF StreamEnds, DisconnectPacket
    <3> QED BY <3>1, <3>2 DEF Live, ClientCore, ClientTypeOK
  <2> QED BY <2>1, <2>2, SocketCloseKeeps
<1>6. ASSUME NEW s \in Stream, Pingresp(s) PROVE ClientCore'
  <2>1. /\ ping' = "ponged"
        /\ UNCHANGED <<connected, closed, connectedTimes, socket, timeoutFlag, connectTimer,
                       reconnectId, retries, keepaliveTimer, intervals, opened, stream, exited,
                       threw>>
    BY <1>6 DEF Pingresp
  <2> QED BY <2>1, PingKeeps
<1>7. ASSUME NEW k \in intervals, SendPing(k) PROVE ClientCore'
  <2>1. socket # 0
    BY <1>7 DEF SendPing, ClientCore, Begun, Fresh, FirstTry, NoneLeftOver
  <2>2. /\ ping' = "waiting"
        /\ UNCHANGED <<connected, closed, connectedTimes, socket, timeoutFlag, connectTimer,
                       reconnectId, retries, keepaliveTimer, intervals, opened, stream, exited,
                       threw>>
    BY <1>7, <2>1 DEF SendPing
  <2> QED BY <2>2, PingKeeps
<1>8. ASSUME NEW k \in intervals, KeepAliveTimeout(k) PROVE ClientCore'
  <2>1. socket # 0
    BY <1>8 DEF KeepAliveTimeout, ClientCore, Begun, Fresh, FirstTry, NoneLeftOver
  <2> QED BY <1>8, <2>1, CloseKeeps DEF KeepAliveTimeout
<1>9. ASSUME NEW n \in retries, RetryFires(n) PROVE ClientCore'
  <2>1. /\ ~exited /\ ~connected /\ retries' = {} /\ intervals = {}
        /\ connectedTimes # 1 /\ timeoutFlag
    BY <1>9 DEF RetryFires, ClientCore, OneRetry, FirstTry, NoneLeftOver, Begun, Fresh
  <2>2. /\ OpenStream /\ timeoutFlag' = TRUE
        /\ connectTimer' = IF timeoutFlag THEN connectTimer ELSE "reconnect"
        /\ UNCHANGED <<connected, connectedTimes, reconnectId, keepaliveTimer, intervals, ping,
                       exited, threw>>
    BY <1>9, <2>1 DEF RetryFires, AddTimeout
  <2>3. /\ opened' \in 1 .. MaxStream /\ socket' = opened' /\ closed' = FALSE
        /\ stream' \in [Stream -> {"unused", "connecting", "open", "ended"}]
        /\ \A s \in Stream : stream'[s] # "unused" => s =< opened'
    BY <2>2, OpenStreamType
  <2>4. connectTimer' = connectTimer
    BY <2>1, <2>2
  <2>5. ClientTypeOK'
    <3>1. Flags /\ Values
      BY TypeParts DEF ClientCore
    <3>2. Flags'
      BY <2>2, <2>3, <3>1 DEF Flags
    <3>3. Values'
      BY <2>1, <2>2, <2>3, <2>4, <3>1 DEF Values
    <3> QED BY <3>2, <3>3, TypePartsNext
  <2>6. OneRetry' /\ OnlyFirstAttemptIsTimed'
    BY <2>1, <2>2, <2>4 DEF OneRetry, OnlyFirstAttemptIsTimed, ClientCore
  <2>7. LiveHasOneKeepAlive' /\ TimersHaveSocket' /\ NoneLeftOver'
    BY <2>1, <2>2, <2>3 DEF LiveHasOneKeepAlive, TimersHaveSocket, NoneLeftOver, ClientCore
  <2>8. Begun' /\ FirstTry'
    BY <2>1, <2>2, <2>3 DEF Begun, Fresh, FirstTry
  <2> QED BY <2>5, <2>6, <2>7, <2>8 DEF ClientCore
<1> QED
  BY <1>1, <1>2, <1>3, <1>4, <1>5, <1>6, <1>7, <1>8, <1>9 DEF ClientNext

(* A client that was connected is not ended by what it does itself.         *)
LEMMA NextClientInv == ASSUME ClientInv, ClientNext PROVE ClientInv'
<1>1. ClientCore'
  BY NextClientCore DEF ClientInv
<1>2. ASSUME exited' PROVE connectedTimes' = 1
  <2>1. CASE exited
    <3>1. ~\E s \in Stream : Connack(s)
      BY <2>1 DEF Connack, Reports
    <3>2. connectedTimes' = connectedTimes
      BY <3>1 DEF ClientNext, Connect, Disconnect, CloseClient, TimeoutFires, StreamEnds,
         DisconnectPacket, Pingresp, SendPing, KeepAliveTimeout, RetryFires
    <3> QED BY <2>1, <3>2 DEF ClientInv, ExitsOnlyBeforeConnect
  <2>2. CASE ~exited
    <3>1. CASE TimeoutFires
      BY <3>1 DEF TimeoutFires, ClientInv, ClientCore, OnlyFirstAttemptIsTimed
    <3>2. CASE \E s \in Stream : StreamEnds(s) \/ DisconnectPacket(s)
      <4>1. OnSocketClose /\ connectedTimes' = connectedTimes /\ connectedTimes \in Nat \ {0}
        BY <3>2 DEF StreamEnds, DisconnectPacket, ClientInv, ClientCore, ClientTypeOK
      <4>2. ~(connectedTimes > 1)
        BY <1>2, <2>2, <4>1 DEF OnSocketClose
      <4> QED BY <4>1, <4>2
    <3>3. CASE ~TimeoutFires /\ ~\E s \in Stream : StreamEnds(s) \/ DisconnectPacket(s)
      <4>1. exited' = exited
        BY <3>3 DEF ClientNext, Connect, Disconnect, CloseClient, Connack, Pingresp, SendPing,
           KeepAliveTimeout, RetryFires
      <4> QED BY <1>2, <2>2, <4>1
    <3> QED BY <3>1, <3>2, <3>3
  <2> QED BY <2>1, <2>2
<1> QED BY <1>1, <1>2 DEF ClientInv, ExitsOnlyBeforeConnect

(* The invariants look at the variables of the client only.                 *)
LEMMA StutterClientCore == ASSUME ClientCore, UNCHANGED clientVars PROVE ClientCore'
<1>1. ClientTypeOK' /\ OneRetry' /\ OnlyFirstAttemptIsTimed' /\ LiveHasOneKeepAlive'
  BY DEF clientVars, ClientCore, ClientTypeOK, OneRetry, OnlyFirstAttemptIsTimed,
     LiveHasOneKeepAlive
<1>2. TimersHaveSocket' /\ NoneLeftOver' /\ Begun' /\ FirstTry'
  BY DEF clientVars, ClientCore, TimersHaveSocket, NoneLeftOver, Begun, Fresh, Live, FirstTry
<1> QED BY <1>1, <1>2 DEF ClientCore

(* The invariant is a predicate of the variables alone.                     *)
LEMMA StutterClientInv == ASSUME ClientInv, UNCHANGED clientVars PROVE ClientInv'
BY StutterClientCore DEF ClientInv, ExitsOnlyBeforeConnect, clientVars

(* connect() is the first step of a client and comes once in its life.      *)
LEMMA FreshOnce == ASSUME ClientCore, [ClientNext]_clientVars, Fresh' PROVE Fresh
<1>1. OpenStream => socket' # 0
  BY OpenStreamType DEF Stream
<1>2. OnSocketClose => UNCHANGED <<socket, closed>> \/ closed'
  BY DEF OnSocketClose, Clear
<1> QED
  BY <1>1, <1>2 DEF Fresh, ClientNext, clientVars, Connect, Disconnect, CloseClient,
     TimeoutFires, Connack, StreamEnds, DisconnectPacket, Pingresp, SendPing,
     KeepAliveTimeout, RetryFires

(* The inductive invariant of the client: its type, its flags and its timers *)
(* together, since each event acts on all of them.                          *)
THEOREM ClientInvariant == ClientSpec => []ClientInv
<1>1. ClientInv /\ [ClientNext]_clientVars => ClientInv'
  BY NextClientInv, StutterClientInv
<1> QED BY <1>1, InitClientInv, PTL DEF ClientSpec

-----------------------------------------------------------------------------
(* The first connection *)

(* Until the first acknowledgement, and as long as the connection it made   *)
(* lasts, no second stream was opened: the attempt that fails exits.        *)
FirstAttempt ==
  /\ Fresh => opened = 0
  /\ connectedTimes = 1 \/ (connected /\ connectedTimes = 2) => opened =< 1

(* Every step keeps FirstAttempt.                                           *)
LEMMA NextFirstAttempt == ASSUME ClientInv, FirstAttempt, ClientNext PROVE FirstAttempt'
<1>0. connectedTimes \in Nat \ {0} /\ opened \in Nat /\ ClientCore
  BY MaxStreamAssumption DEF ClientInv, ClientCore, ClientTypeOK
<1>1. CASE Connect
  <2>1. opened = 0 /\ ~connected
    BY <1>1 DEF Connect, ClientInv, ClientCore, Begun, Fresh, FirstAttempt
  <2>2. opened' = 1 /\ socket' = 1
    BY <1>1, <2>1 DEF Connect, OpenStream
  <2> QED BY <2>2 DEF FirstAttempt, Fresh
<1>2. CASE Disconnect \/ \E k \in intervals : SendPing(k) \/ KeepAliveTimeout(k)
  <2>1. /\ UNCHANGED <<connectedTimes, socket, opened>>
        /\ (connected' => connected) /\ (closed => closed')
    BY <1>2 DEF Disconnect, SendPing, KeepAliveTimeout, CloseClient
  <2> QED BY <2>1 DEF FirstAttempt, Fresh
<1>3. CASE TimeoutFires
  <2>1. connectTimer = "exit" /\ socket # 0
    BY <1>0, <1>3 DEF TimeoutFires, ClientCore, OnlyFirstAttemptIsTimed, NoneLeftOver
  <2>2. UNCHANGED <<connectedTimes, socket, closed, opened, connected>>
    BY <1>3, <2>1 DEF TimeoutFires
  <2> QED BY <2>2 DEF FirstAttempt, Fresh
<1>4. ASSUME NEW s \in Stream, Connack(s) PROVE FirstAttempt'
  <2>1. UNCHANGED <<opened, socket, closed>>
    BY <1>4 DEF Connack
  <2>2. CASE connected
    <3>1. UNCHANGED <<connected, connectedTimes>>
      BY <1>4, <2>2 DEF Connack
    <3> QED BY <2>1, <3>1 DEF FirstAttempt, Fresh
  <2>3. CASE ~connected
    <3>1. connectedTimes' = connectedTimes + 1
      BY <1>4, <2>3 DEF Connack
    <3> QED BY <1>0, <2>1, <3>1 DEF FirstAttempt, Fresh
  <2> QED BY <2>2, <2>3
<1>5. ASSUME NEW s \in Stream, StreamEnds(s) \/ DisconnectPacket(s) PROVE FirstAttempt'
  <2>1. OnSocketClose /\ UNCHANGED <<connectedTimes, opened>>
    BY <1>5 DEF StreamEnds, DisconnectPacket
  <2>2. closed'
    BY <2>1 DEF OnSocketClose, Clear
  <2>3. connected' => connected
    BY <2>1 DEF OnSocketClose, Clear
  <2> QED BY <2>1, <2>2, <2>3 DEF FirstAttempt, Fresh
<1>6. ASSUME NEW s \in Stream, Pingresp(s) PROVE FirstAttempt'
  BY <1>6 DEF Pingresp, FirstAttempt, Fresh
<1>7. ASSUME NEW n \in retries, RetryFires(n) PROVE FirstAttempt'
  <2>1. ~connected /\ connectedTimes # 1
    BY <1>0, <1>7 DEF ClientCore, OneRetry, FirstTry
  <2>2. UNCHANGED <<connected, connectedTimes>> /\ OpenStream
    BY <1>7, <2>1 DEF RetryFires
  <2>3. socket' # 0
    BY <1>0, <2>2, OpenStreamType DEF Stream
  <2> QED BY <2>1, <2>2, <2>3 DEF FirstAttempt, Fresh
<1> QED BY <1>1, <1>2, <1>3, <1>4, <1>5, <1>6, <1>7 DEF ClientNext

(* What a client did first it did on its first stream.                      *)
THEOREM FirstStreamIsFirst == ClientSpec => []FirstAttempt
<1>1. ClientInit => FirstAttempt
  BY DEF ClientInit, FirstAttempt
<1>2. FirstAttempt /\ UNCHANGED clientVars => FirstAttempt'
  BY DEF FirstAttempt, Fresh, clientVars
<1> QED BY <1>1, <1>2, NextFirstAttempt, ClientInvariant, PTL DEF ClientSpec

-----------------------------------------------------------------------------
(* Every reachable state of the client is well typed.                       *)
THEOREM ClientTypeCorrect == ClientSpec => []ClientTypeOK
BY ClientInvariant, PTL DEF ClientInv, ClientCore

(* However events of abandoned streams, late pongs, timers and close()      *)
(* interleave: a client that was connected once never ends the process.     *)
THEOREM ExitOnlyBeforeConnect == ClientSpec => []ExitsOnlyBeforeConnect
BY ClientInvariant, PTL DEF ClientInv, ClientCore

(* There is one pending reconnect at most, and none while connected.        *)
THEOREM OneReconnectAtATime == ClientSpec => []OneRetry
BY ClientInvariant, PTL DEF ClientInv, ClientCore

(* One keepalive interval watches a live connection.                        *)
THEOREM OneKeepAliveAtATime == ClientSpec => []LiveHasOneKeepAlive
BY ClientInvariant, PTL DEF ClientInv, ClientCore

(* No timer finds the socket gone.                                          *)
THEOREM NoTimerWithoutSocket == ClientSpec => []TimersHaveSocket
BY ClientInvariant, PTL DEF ClientInv, ClientCore

(* No attempt after the first is timed.                                     *)
THEOREM ReconnectsAreNotTimed == ClientSpec => []OnlyFirstAttemptIsTimed
BY ClientInvariant, PTL DEF ClientInv, ClientCore
=============================================================================
