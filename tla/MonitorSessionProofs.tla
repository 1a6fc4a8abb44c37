------------------------- MODULE MonitorSessionProofs -------------------------
(***************************************************************************)
(* Proofs about MonitorSession: what the monitored process and the master  *)
(* believe of each other, for any number of streams, cuts, deaths and      *)
(* requests.  The client's part of the state is covered by MqttClientProofs*)
(* (ClientCore holds in every life of the process).  Four layers of        *)
(* invariants build on it:                                                 *)
(*   Sound, Registry   the types, and who may be registered on which stream*)
(*   Talk              the state the conversation of the current stream is *)
(*                     in (Dialing, Greeting, Admitted, Refused, Serving)  *)
(*   Ordered           what a stream carries until its greeting was heard  *)
(*   Ledger, Once      requests and answers under way against what is owed *)
(***************************************************************************)
EXTENDS MonitorSession, MqttClientProofs, SequenceTheorems, FiniteSetTheorems

(* What the process sends. *)
Word ==
  [topic : {"register", "reconnect", "notify", "disconnect", "response", "request"}, id : Nat]

(* The master's record of the process on s. *)
Rec(s) == [id |-> Id, type |-> "connector", info |-> Address, socket |-> s]

-----------------------------------------------------------------------------
(* The master's registry *)

(* The master registers the process on an open stream only, the one its     *)
(* primary record names, and keeps no other record.                         *)
Owns ==
  /\ auth = {}
  /\ slaveMap = [i \in {Id} |-> <<>>]
  /\ DOMAIN idMap = {Id} /\ DOMAIN msock = Stream
  /\ conn \in [Stream -> {"idle", "open", "left", "closed"}]
  /\ \A s \in Stream : msock[s].registered =>
       /\ msock[s] = M!Greeted(Id, "connector", Address, TRUE)
       /\ M!Open(s)
       /\ idMap[Id] = Rec(s)
  /\ M!HasPrimary(Id) => \E s \in Stream : msock[s].registered

(* The record of the process on a stream is a record.                       *)
LEMMA RecIsRecord == ASSUME NEW s PROVE Rec(s) # M!NoRecord /\ Rec(s).info = Address /\ Rec(s).socket = s
<1>1. Rec(s).id = Id /\ M!NoRecord.id = None /\ Id # None
  BY SessionAssumption DEF Rec, M!NoRecord
<1> QED BY <1>1 DEF Rec

(* A registered stream is the primary's, and the only one.                  *)
LEMMA RegisteredIsPrimary ==
  ASSUME Owns, NEW s \in Stream, msock[s].registered
  PROVE  /\ M!HasPrimary(Id) /\ idMap[Id].socket = s /\ M!Open(s)
         /\ \A t \in Stream : msock[t].registered => t = s
<1>1. idMap[Id] = Rec(s) /\ M!Open(s)
  BY DEF Owns
<1>2. M!HasPrimary(Id) /\ idMap[Id].socket = s
  BY <1>1, RecIsRecord DEF M!HasPrimary
<1>3. ASSUME NEW t \in Stream, msock[t].registered PROVE t = s
  <2>1. idMap[Id] = Rec(t)
    BY <1>3 DEF Owns
  <2> QED BY <1>1, <2>1, RecIsRecord
<1> QED BY <1>1, <1>2, <1>3

(* onDisconnect forgets the stream, and the primary when it was on it.      *)
LEMMA DisconnectForgets ==
  ASSUME Owns, NEW s \in Stream, M!OnDisconnect(s), NEW c \in {"left", "closed"},
         conn' = [conn EXCEPT ![s] = c]
  PROVE  /\ Owns' /\ ~msock'[s].registered
         /\ \A t \in Stream \ {s} : msock'[t] = msock[t] /\ conn'[t] = conn[t]
         /\ M!HasPrimary(Id)' => M!HasPrimary(Id)
         /\ UNCHANGED <<reqId, callbacks, msgMap, answers>>
<1>1. auth' = auth /\ UNCHANGED <<reqId, callbacks, msgMap, answers>>
  BY DEF M!OnDisconnect, M!qos
<1>2. CASE ~msock[s].registered
  <2>1. UNCHANGED <<idMap, slaveMap, msock>>
    BY <1>2 DEF M!OnDisconnect, M!registry
  <2> QED BY <1>1, <1>2, <2>1 DEF Owns, M!Open, M!HasPrimary
<1>3. CASE msock[s].registered
  <2>1. /\ msock[s] = M!Greeted(Id, "connector", Address, TRUE) /\ idMap[Id] = Rec(s)
        /\ M!HasPrimary(Id) /\ idMap[Id].info = Address
    BY <1>3, RegisteredIsPrimary, RecIsRecord DEF Owns
  <2>2. /\ msock[s].id = Id /\ msock[s].type = "connector" /\ msock[s].info = Address
        /\ msock[s].type # M!TYPE_CLIENT
    BY <2>1 DEF M!Greeted, M!TYPE_CLIENT
  <2>3. ~M!RemoveThrows(Id, Address)
    BY <2>1, SessionAssumption DEF M!RemoveThrows
  <2>4. /\ M!RemoveMonitor(Id, "connector", Address)
        /\ msock' = [msock EXCEPT ![s] = M!Greeted(None, None, Address, FALSE)]
    BY <1>3, <2>2, <2>3 DEF M!OnDisconnect
  <2>5. idMap' = [idMap EXCEPT ![Id] = M!NoRecord] /\ slaveMap' = slaveMap
    BY <2>1, <2>4 DEF M!RemoveMonitor
  <2>6. ~M!HasPrimary(Id)'
    BY <2>5 DEF M!HasPrimary, Owns
  <2>7. ~msock'[s].registered /\ \A t \in Stream \ {s} : msock'[t] = msock[t]
    BY <2>4 DEF Owns, M!Greeted
  <2>8. \A t \in Stream : ~msock'[t].registered
    BY <1>3, <2>7, RegisteredIsPrimary
  <2>9. Owns'
    BY <1>1, <2>4, <2>5, <2>6, <2>8 DEF Owns
  <2> QED BY <1>1, <2>6, <2>7, <2>9 DEF Owns
<1> QED BY <1>2, <1>3

(* An admission when nobody has the id makes the stream the primary's.      *)
LEMMA AdmissionRecords ==
  ASSUME Owns, NEW s \in Stream, M!Open(s), ~M!HasPrimary(Id), M!AddMonitor(Id, Address, s),
         msock' = [msock EXCEPT ![s] = M!Greeted(Id, "connector", Address, TRUE)],
         UNCHANGED <<conn, auth>>
  PROVE  /\ Owns' /\ msock'[s].registered
         /\ \A t \in Stream \ {s} : msock'[t] = msock[t]
<1>1. \A t \in Stream : ~msock[t].registered
  BY RegisteredIsPrimary
<1>2. idMap' = [idMap EXCEPT ![Id] = Rec(s)] /\ slaveMap' = slaveMap
  BY DEF M!AddMonitor, Rec
<1>3. idMap'[Id] = Rec(s) /\ DOMAIN idMap' = {Id}
  BY <1>2 DEF Owns
<1>4. msock'[s].registered /\ \A t \in Stream \ {s} : msock'[t] = msock[t]
  BY DEF Owns, M!Greeted
<1>5. \A t \in Stream : msock'[t].registered => t = s
  BY <1>1, <1>4
<1>6. Owns'
  BY <1>2, <1>3, <1>4, <1>5 DEF Owns, M!Open
<1> QED BY <1>4, <1>6

-----------------------------------------------------------------------------
(* Steps of the session *)

Topic ==
  {"connack", "register", "register_fail", "reconnect_ok", "refused", "monitor", "answer",
   "disconnect"}
Packet == [topic : Topic, id : Nat]
Packets == down \in [Stream -> Seq(Packet)]

(* The disjuncts of SessionNext, for proofs that take one case each.        *)
LEMMA SessionCases ==
  ASSUME SessionNext, NEW P,
         ProcessDies => P, ProcessStarts => P, MasterReboots => P,
         MasterListen => P, MasterRequest => P, ProcessSteps => P,
         ASSUME NEW s \in Stream, MasterAccepts(s) PROVE P,
         ASSUME NEW s \in Stream, MasterHandles(s) PROVE P,
         ASSUME NEW s \in Stream, MasterSeesEnd(s) PROVE P,
         ASSUME NEW s \in Stream, ProcessHandles(s) PROVE P,
         ASSUME NEW s \in Stream, ProcessSeesEnd(s) PROVE P,
         ASSUME NEW s \in Stream, ProcessPonged(s) PROVE P,
         ASSUME NEW s \in Stream, Cut(s) PROVE P,
         ASSUME NEW s \in Stream, LosesWrite(s) PROVE P
  PROVE  P
BY DEF SessionNext

(* The disjuncts of ProcessSteps.                                           *)
LEMMA ProcessCases ==
  ASSUME ProcessSteps, NEW P,
         AgentConnect => P, TokenReady => P, Notify => P, Request => P,
         MayClose /\ AgentClose => P,
         TimeoutFires /\ UNCHANGED agentVars => P,
         ASSUME NEW k \in intervals, SendPing(k), UNCHANGED agentVars PROVE P,
         ASSUME NEW n \in retries, RetryFires(n), UNCHANGED agentVars PROVE P,
         ASSUME NEW k \in intervals, socket \in cut, AgentKeepAliveTimeout(k) PROVE P,
         ASSUME NEW r \in Req, HandlerDone(r) PROVE P
  PROVE  P
BY DEF ProcessSteps, ProcessTimer

(* The next message of s, of topic t, reaches the process. *)
Delivers(s, t) ==
  /\ down[s] # <<>> /\ Head(down[s]) \in Packet /\ Head(down[s]).topic = t
  /\ down' = [down EXCEPT ![s] = Tail(@)]
  /\ UNCHANGED <<masterVars, cut, faults>>

(* The messages that may be first on their way to the process.              *)
LEMMA DeliveryCases ==
  ASSUME Packets, NEW s \in Stream, ProcessHandles(s), NEW P,
         Delivers(s, "connack") /\ AgentConnack(s) => P,
         Delivers(s, "register") /\ OnRegister(s, TRUE) => P,
         Delivers(s, "register_fail") /\ OnRegister(s, FALSE) => P,
         Delivers(s, "reconnect_ok") /\ OnReconnectOk(s, TRUE) => P,
         Delivers(s, "refused") /\ OnReconnectOk(s, FALSE) => P,
         Delivers(s, "monitor") /\ OnRequest(s, Head(down[s]).id) => P,
         Delivers(s, "answer") /\ OnAnswer(s, Head(down[s]).id) => P,
         Delivers(s, "disconnect") /\ AgentDisconnectPacket(s) => P
  PROVE  P
<1> DEFINE m == Head(down[s])
<1>1. m \in Packet /\ m.topic \in Topic
  <2>1. down[s] \in Seq(Packet) /\ down[s] # <<>>
    BY DEF Packets, ProcessHandles
  <2>2. Head(down[s]) \in Packet
    BY <2>1, HeadTailProperties
  <2> QED BY <2>2 DEF Packet
<1>2. Delivers(s, m.topic)
  BY <1>1 DEF ProcessHandles, Delivers
<1>3. CASE m.topic = "connack"
  BY <1>2, <1>3 DEF ProcessHandles
<1>4. CASE m.topic = "register"
  BY <1>2, <1>4 DEF ProcessHandles
<1>5. CASE m.topic = "reconnect_ok"
  BY <1>2, <1>5 DEF ProcessHandles
<1>6. CASE m.topic = "refused"
  BY <1>2, <1>6 DEF ProcessHandles
<1>7. CASE m.topic = "monitor"
  BY <1>2, <1>7 DEF ProcessHandles
<1>8. CASE m.topic = "answer"
  BY <1>2, <1>8 DEF ProcessHandles
<1>9. CASE m.topic = "disconnect"
  BY <1>2, <1>9 DEF ProcessHandles
<1>10. CASE m.topic = "register_fail"
  BY <1>2, <1>10 DEF ProcessHandles
<1> QED BY <1>1, <1>3, <1>4, <1>5, <1>6, <1>7, <1>8, <1>9, <1>10 DEF Topic

-----------------------------------------------------------------------------
(* Each incarnation of the process is a client *)

(* A process that starts begins with a new client.                          *)
LEMMA StartIsFresh == ASSUME ClientCore, ProcessStarts PROVE ClientCore'
<1>1. /\ connected' = FALSE /\ closed' = FALSE /\ connectedTimes' = 1
      /\ socket' = 0 /\ timeoutFlag' = FALSE /\ connectTimer' = "off"
      /\ reconnectId' = 0 /\ retries' = {}
      /\ keepaliveTimer' = 0 /\ intervals' = {} /\ ping' = "none"
      /\ exited' = FALSE /\ threw' = {} /\ opened' = opened /\ opened \in 0 .. MaxStream
      /\ stream' = [s \in Stream |-> IF s \in Used THEN "ended" ELSE "unused"]
      /\ \A s \in Stream : stream[s] # "unused" => s =< opened
  BY DEF ProcessStarts, ClientCore, ClientTypeOK, Begun
<1>2. ClientTypeOK'
  <2>1. Flags'
    BY <1>1 DEF Flags
  <2>2. Values'
    BY <1>1, MaxStreamAssumption DEF Values
  <2> QED BY <2>1, <2>2, TypePartsNext
<1>3. OneRetry' /\ OnlyFirstAttemptIsTimed' /\ LiveHasOneKeepAlive'
  BY <1>1 DEF OneRetry, OnlyFirstAttemptIsTimed, LiveHasOneKeepAlive
<1>4. TimersHaveSocket' /\ NoneLeftOver'
  BY <1>1 DEF TimersHaveSocket, NoneLeftOver
<1>5. Begun' /\ FirstTry'
  BY <1>1 DEF Begun, Fresh, Live, FirstTry, Used
<1> QED BY <1>2, <1>3, <1>4, <1>5 DEF ClientCore

(* The death of a process leaves nothing of its client running.             *)
LEMMA DeathKeepsClient == ASSUME ClientCore, ProcessDies PROVE ClientCore'
<1>1. ClientTypeOK' /\ OneRetry' /\ OnlyFirstAttemptIsTimed' /\ LiveHasOneKeepAlive'
  BY DEF ProcessDies, ClientCore, ClientTypeOK, OneRetry, OnlyFirstAttemptIsTimed,
     LiveHasOneKeepAlive
<1>2. TimersHaveSocket' /\ NoneLeftOver' /\ Begun' /\ FirstTry'
  BY DEF ProcessDies, ClientCore, TimersHaveSocket, NoneLeftOver, Begun, Fresh, Live, FirstTry
<1> QED BY <1>1, <1>2 DEF ClientCore

(* A message that reaches the process is an event of its client, or none.   *)
LEMMA DeliveryClient ==
  ASSUME Packets, NEW s \in Stream, ProcessHandles(s)
  PROVE  [ClientNext]_clientVars
<1> DEFINE P == [ClientNext]_clientVars
<1>1. AgentConnack(s) \/ AgentDisconnectPacket(s) => P
  BY DEF AgentConnack, AgentDisconnectPacket, ClientNext
<1>2. \A ok \in BOOLEAN : OnRegister(s, ok) \/ OnReconnectOk(s, ok) => P
  BY DEF OnRegister, OnReconnectOk, Receives
<1>3. OnRequest(s, Head(down[s]).id) \/ OnAnswer(s, Head(down[s]).id) => P
  BY DEF OnRequest, OnAnswer, Receives
<1> HIDE DEF P
<1>4. P
  BY <1>1, <1>2, <1>3, DeliveryCases
<1> QED BY <1>4 DEF P

(* Between a start and the next, the session only does what a client does.  *)
LEMMA SessionClient ==
  ASSUME Packets, SessionNext
  PROVE  [ClientNext]_clientVars \/ ProcessDies \/ ProcessStarts
<1> DEFINE P == [ClientNext]_clientVars \/ ProcessDies \/ ProcessStarts
<1>1. MasterReboots \/ MasterListen \/ MasterRequest => P
  BY DEF MasterReboots, MasterListen, MasterRequest, vars
<1>2. ASSUME ProcessSteps PROVE P
  <2>1. AgentConnect \/ AgentClose \/ TimeoutFires => P
    BY DEF AgentConnect, AgentClose, ClientNext
  <2>2. TokenReady \/ Notify \/ Request => P
    BY DEF TokenReady, Notify, Request
  <2>3. ASSUME NEW k \in intervals, SendPing(k) \/ AgentKeepAliveTimeout(k) PROVE P
    BY <2>3 DEF AgentKeepAliveTimeout, ClientNext
  <2>4. ASSUME NEW n \in retries, RetryFires(n) PROVE P
    BY <2>4 DEF ClientNext
  <2>5. ASSUME NEW r \in Req, HandlerDone(r) PROVE P
    BY <2>5 DEF HandlerDone
  <2> HIDE DEF P
  <2> QED BY <1>2, <2>1, <2>2, <2>3, <2>4, <2>5, ProcessCases
<1>3. ASSUME NEW s \in Stream, MasterAccepts(s) \/ MasterSeesEnd(s) PROVE P
  BY <1>3 DEF MasterAccepts, MasterSeesEnd, vars
<1>4. ASSUME NEW s \in Stream, MasterHandles(s) PROVE P
  BY <1>4 DEF MasterHandles, MasterOnRegister, MasterOnReconnect, MasterOnDisconnect,
     MasterOnResponse, MasterOnNotify, MasterOnRequest, Arrives, Carry
<1>5. ASSUME NEW s \in Stream, ProcessHandles(s) PROVE P
  BY <1>5, DeliveryClient
<1>6. ASSUME NEW s \in Stream, ProcessSeesEnd(s) \/ ProcessPonged(s) PROVE P
  BY <1>6 DEF ProcessSeesEnd, ProcessPonged, ClientNext
<1>7. ASSUME NEW s \in Stream, Cut(s) \/ LosesWrite(s) PROVE P
  BY <1>7 DEF Cut, LosesWrite, Carry
<1>8. ProcessDies \/ ProcessStarts => P
  OBVIOUS
<1> HIDE DEF P
<1>9. P
  BY <1>1, <1>2, <1>3, <1>4, <1>5, <1>6, <1>7, <1>8, SessionCases
<1> QED BY <1>9 DEF P

(* ClientCore is kept across the lives of the process.                      *)
LEMMA NextSessionClient ==
  ASSUME Packets, ClientCore, [SessionNext]_sessionVars
  PROVE  ClientCore'
<1>1. CASE UNCHANGED sessionVars
  BY <1>1, StutterClientCore DEF sessionVars, vars
<1>2. CASE SessionNext
  BY <1>2, SessionClient, NextClientCore, StutterClientCore, StartIsFresh, DeathKeepsClient
<1> QED BY <1>1, <1>2

-----------------------------------------------------------------------------
(* Messages are well formed *)

Ids == reqId \in Nat /\ msgMap \in [{Id} -> SUBSET Req]
Writes == out \in [Stream -> Seq(Word)] /\ notified \in Nat /\ restarts \in Nat

(* What the master writes on a stream are packets.                          *)
LEMMA ReplyType ==
  ASSUME Packets, NEW s, NEW ms \in Seq(Packet), Reply(s, ms)
  PROVE  Packets'
<1>1. \A t \in Stream : down[t] \o ms \in Seq(Packet)
  BY ConcatProperties DEF Packets
<1> QED BY <1>1 DEF Reply, Packets

(* A reply of one message.                                                  *)
LEMMA MsgType ==
  ASSUME NEW t \in Topic, NEW n \in Nat
  PROVE  <<Msg(t, n)>> \in Seq(Packet) /\ Len(<<Msg(t, n)>>) = 1
<1>1. Msg(t, n) \in Packet
  BY DEF Msg, Packet
<1> QED BY <1>1

(* What is owed is finite, so there is a sequence of it.                    *)
LEMMA OwedIsFinite == ASSUME Ids PROVE Cardinality(msgMap[Id]) \in Nat
<1>1. IsFiniteSet(Req)
  BY FS_Interval, AgentAssumption DEF Req
<1>2. msgMap[Id] \subseteq Req
  BY DEF Ids
<1> QED BY <1>1, <1>2, FS_Subset, FS_CardinalityType

(* The messages of a repush. *)
Again(q) == [n \in DOMAIN q |-> Msg("monitor", q[n])]

(* What a repush sends are requests, each owed.                             *)
LEMMA AgainType ==
  ASSUME Ids, NEW q \in Repushed
  PROVE  /\ Again(q) \in Seq(Packet) /\ Len(Again(q)) = Cardinality(msgMap[Id])
         /\ DOMAIN Again(q) = 1 .. Len(Again(q)) /\ DOMAIN q = 1 .. Len(Again(q))
         /\ \A n \in DOMAIN q : Again(q)[n] = Msg("monitor", q[n]) /\ q[n] \in msgMap[Id]
<1> DEFINE N == Cardinality(msgMap[Id])
<1>1. N \in Nat /\ q \in [1 .. N -> msgMap[Id]] /\ msgMap[Id] \subseteq Nat
  BY OwedIsFinite DEF Repushed, Ids, Req
<1>2. \A n \in 1 .. N : Msg("monitor", q[n]) \in Packet
  BY <1>1 DEF Msg, Packet, Topic
<1>3. Again(q) \in [1 .. N -> Packet]
  BY <1>1, <1>2 DEF Again
<1>4. Again(q) \in Seq(Packet) /\ Len(Again(q)) = N
  <2> HIDE DEF N
  <2> QED BY <1>1, <1>3, SeqDef
<1> QED BY <1>1, <1>3, <1>4 DEF Again

(* The answer to a greeting and the repush after it are packets.            *)
LEMMA RepliesType ==
  ASSUME Packets, Ids, NEW s, NEW ms \in Seq(Packet), RepliesThenRepush(s, ms) PROVE Packets'
<1>1. PICK q \in Repushed : Reply(s, ms \o Again(q))
  BY DEF RepliesThenRepush, Again
<1>2. ms \o Again(q) \in Seq(Packet)
  BY AgainType, ConcatProperties
<1> QED BY <1>1, <1>2, ReplyType

(* What a process is told that is admitted, and one that is refused.        *)
Fails == <<Msg("register_fail", 0), Msg("disconnect", 0)>>

LEMMA VerdictType ==
  /\ \A v \in Topic : <<Msg(v, 0)>> \in Seq(Packet)
  /\ Fails \in Seq(Packet) /\ Len(Fails) = 2
  /\ \A n \in DOMAIN Fails : Fails[n].topic \in {"register_fail", "disconnect"}
<1>1. Msg("register_fail", 0) \in Packet /\ Msg("disconnect", 0) \in Packet
  BY DEF Msg, Packet, Topic
<1>2. Msg("register_fail", 0).topic = "register_fail" /\ Msg("disconnect", 0).topic = "disconnect"
  BY DEF Msg
<1> QED BY <1>1, <1>2, MsgType DEF Fails

(* Every step leaves packets on their way to the process.                   *)
LEMMA NextPackets == ASSUME Packets, Writes, Ids, SessionNext PROVE Packets'
<1>1. ProcessDies \/ ProcessStarts \/ MasterListen \/ ProcessSteps => Packets'
  BY DEF ProcessDies, ProcessStarts, MasterListen, ProcessSteps, Packets
<1>2. MasterReboots => Packets'
  <2>1. <<>> \in Seq(Packet)
    BY EmptySeq
  <2> QED BY <2>1 DEF MasterReboots, Packets
<1>3. MasterRequest => Packets'
  <2>1. <<Msg("monitor", reqId)>> \in Seq(Packet)
    BY MsgType DEF Ids, Topic
  <2> QED BY <2>1, ReplyType DEF MasterRequest, Packets
<1>4. ASSUME NEW s \in Stream, MasterAccepts(s) PROVE Packets'
  BY <1>4, MsgType, ReplyType DEF MasterAccepts, Topic
<1>5. ASSUME NEW s \in Stream, MasterHandles(s) PROVE Packets'
  <2>1. CASE MasterOnRegister(s)
    BY <2>1, RepliesType, VerdictType
       DEF MasterOnRegister, RegisterAccepted, RegisterRefused, Admits, Fails, Topic
  <2>2. CASE MasterOnReconnect(s)
    BY <2>2, RepliesType, VerdictType, MsgType, ReplyType DEF MasterOnReconnect, Admits, Topic
  <2>3. CASE MasterOnDisconnect(s)
    BY <2>3 DEF MasterOnDisconnect, Packets
  <2>4. Kick(s) => Packets'
    BY MsgType, ReplyType DEF Kick, Topic
  <2>5. CASE MasterOnResponse(s) \/ MasterOnNotify(s)
    BY <2>4, <2>5 DEF MasterOnResponse, MasterOnNotify, Packets
  <2>6. CASE MasterOnRequest(s)
    <3>1. Head(out[s]) \in Word
      BY <2>6, HeadTailProperties DEF MasterOnRequest, Arrives, Writes
    <3>2. Head(out[s]).id \in Nat
      BY <3>1 DEF Word
    <3>3. <<Msg("answer", Head(out[s]).id)>> \in Seq(Packet)
      BY <3>2, MsgType DEF Topic
    <3> QED BY <2>4, <2>6, <3>3, ReplyType DEF MasterOnRequest
  <2> QED BY <1>5, <2>1, <2>2, <2>3, <2>5, <2>6 DEF MasterHandles
<1>6. ASSUME NEW s \in Stream, ProcessHandles(s) PROVE Packets'
  <2>1. Tail(down[s]) \in Seq(Packet)
    BY <1>6, HeadTailProperties DEF ProcessHandles, Packets
  <2> QED BY <1>6, <2>1 DEF ProcessHandles, Packets
<1>7. ASSUME NEW s \in Stream,
             MasterSeesEnd(s) \/ ProcessSeesEnd(s) \/ ProcessPonged(s) \/ LosesWrite(s)
      PROVE  Packets'
  BY <1>7 DEF MasterSeesEnd, ProcessSeesEnd, ProcessPonged, LosesWrite, Packets
<1>8. ASSUME NEW s \in Stream, Cut(s) PROVE Packets'
  <2>1. <<>> \in Seq(Packet)
    BY EmptySeq
  <2> QED BY <1>8, <2>1 DEF Cut, Packets
<1> QED BY <1>1, <1>2, <1>3, <1>4, <1>5, <1>6, <1>7, <1>8, SessionCases

(* The ids of requests are what the QoS table holds.                        *)
LEMMA NextIds == ASSUME Ids, Packets, SessionNext PROVE Ids'
<1>1. ProcessDies \/ ProcessStarts \/ ProcessSteps => Ids'
  BY DEF ProcessDies, ProcessStarts, ProcessSteps, masterVars, Ids
<1>2. MasterReboots => Ids'
  BY DEF MasterReboots, Ids
<1>3. MasterListen => Ids'
  BY DEF MasterListen, M!Listen, M!qos, Ids
<1>4. MasterRequest => Ids'
  BY DEF MasterRequest, M!Request, M!Req, Req, Ids
<1>5. ASSUME NEW s \in Stream, MasterAccepts(s) PROVE Ids'
  BY <1>5 DEF MasterAccepts, M!Connection, M!qos, Ids
<1>6. ASSUME NEW s \in Stream, MasterHandles(s) PROVE Ids'
  <2>1. CASE MasterOnRegister(s) \/ MasterOnReconnect(s) \/ MasterOnDisconnect(s)
    BY <2>1 DEF MasterOnRegister, RegisterAccepted, RegisterRefused, MasterOnReconnect,
       MasterOnDisconnect, M!OnRegisterMonitor, M!OnReconnect, M!OnDisconnect, M!qos, masterVars,
       Ids
  <2>2. CASE MasterOnResponse(s)
    BY <2>2 DEF MasterOnResponse, M!OnMonitorResponse, Kick, masterVars, Ids
  <2>3. CASE MasterOnNotify(s) \/ MasterOnRequest(s)
    BY <2>3 DEF MasterOnNotify, MasterOnRequest, Kick, masterVars, Ids
  <2> QED BY <1>6, <2>1, <2>2, <2>3 DEF MasterHandles
<1>7. ASSUME NEW s \in Stream, MasterSeesEnd(s) \/ Cut(s) PROVE Ids'
  BY <1>7 DEF MasterSeesEnd, Cut, M!StreamClose, M!OnDisconnect, M!qos, masterVars, Ids
<1>8. ASSUME NEW s \in Stream,
             ProcessHandles(s) \/ ProcessSeesEnd(s) \/ ProcessPonged(s) \/ LosesWrite(s)
      PROVE  Ids'
  BY <1>8 DEF ProcessHandles, ProcessSeesEnd, ProcessPonged, LosesWrite, masterVars, Ids
<1> QED BY <1>1, <1>2, <1>3, <1>4, <1>5, <1>6, <1>7, <1>8, SessionCases

(* The next socket of a client is none or a stream. *)
LEMMA NextSocket == ASSUME ClientCore' PROVE socket' = 0 \/ socket' \in Stream
BY MaxStreamAssumption DEF ClientCore, ClientTypeOK, Stream

(* What is written is written at the end of the current stream.             *)
LEMMA AppendKeepsWrites ==
  ASSUME Writes, NEW s \in Stream, NEW m \in Word, out' = [out EXCEPT ![s] = Append(@, m)],
         UNCHANGED <<notified, restarts>>
  PROVE  Writes'
<1>1. Append(out[s], m) \in Seq(Word)
  BY AppendProperties DEF Writes
<1> QED BY <1>1 DEF Writes

(* A send of the client writes a word or drops it.                          *)
LEMMA SendKeepsWrites ==
  ASSUME Writes, ClientCore', NEW m \in Word, Send(m), notified' \in Nat, restarts' = restarts
  PROVE  Writes'
<1>1. out' \in [Stream -> Seq(Word)]
  <2>1. CASE socket' = 0
    BY <2>1 DEF Send, Writes
  <2>2. CASE socket' # 0
    <3>1. out' = [out EXCEPT ![socket'] = Append(@, m)] /\ socket' \in Stream
      BY <2>2, NextSocket DEF Send
    <3>2. Append(out[socket'], m) \in Seq(Word)
      BY <3>1, AppendProperties DEF Writes
    <3> QED BY <3>1, <3>2 DEF Writes
  <2> QED BY <2>1, <2>2
<1> QED BY <1>1 DEF Writes

(* A message that leaves its stream leaves words.                           *)
LEMMA CarryKeepsWrites ==
  ASSUME Writes, NEW s \in Stream, Carry(s), restarts' = restarts
  PROVE  Writes'
<1>1. Tail(out[s]) \in Seq(Word)
  BY HeadTailProperties DEF Carry, Writes
<1> QED BY <1>1 DEF Carry, Writes

(* The DISCONNECT of a client that closes is a word.                        *)
LEMMA DisconnectKeepsWrites ==
  ASSUME Writes, ClientCore, SendDisconnect, UNCHANGED <<notified, restarts>>
  PROVE  Writes'
<1>1. CASE socket = 0
  BY <1>1 DEF SendDisconnect, Writes
<1>2. CASE socket # 0
  <2>1. out' = [out EXCEPT ![socket] = Append(@, Plain("disconnect"))] /\ socket \in Stream
    BY <1>2, MaxStreamAssumption DEF SendDisconnect, ClientCore, ClientTypeOK, Stream
  <2>2. Plain("disconnect") \in Word
    BY DEF Plain, Word
  <2> QED BY <2>1, <2>2, AppendKeepsWrites
<1> QED BY <1>1, <1>2

(* The messages the process writes are words.                               *)
LEMMA Words ==
  /\ Plain("register") \in Word /\ Plain("reconnect") \in Word
  /\ Plain("notify") \in Word /\ Plain("disconnect") \in Word
  /\ \A r \in Nat : [topic |-> "response", id |-> r] \in Word
                    /\ [topic |-> "request", id |-> r] \in Word
<1>1. \A r \in Nat : /\ [topic |-> "response", id |-> r] \in Word
                     /\ [topic |-> "request", id |-> r] \in Word
  BY DEF Word
<1>2. Plain("register") \in Word /\ Plain("reconnect") \in Word
  BY DEF Plain, Word
<1>3. Plain("notify") \in Word /\ Plain("disconnect") \in Word
  BY DEF Plain, Word
<1> QED BY <1>1, <1>2, <1>3

(* Every step leaves words on their way to the master.                      *)
LEMMA NextWrites == ASSUME Writes, Packets, ClientCore, ClientCore', SessionNext PROVE Writes'
<1>1. ProcessDies \/ MasterListen \/ MasterRequest => Writes'
  BY DEF ProcessDies, MasterListen, MasterRequest, vars, agentVars, faults, Writes
<1>2. ASSUME ProcessStarts \/ MasterReboots PROVE Writes'
  <2>1. out' = [s \in Stream |-> <<>>]
    BY <1>2 DEF ProcessStarts, MasterReboots
  <2>2. notified' \in Nat
    BY <1>2 DEF ProcessStarts, MasterReboots, Writes
  <2>3. restarts' \in Nat
    BY <1>2 DEF ProcessStarts, MasterReboots, Writes
  <2>4. <<>> \in Seq(Word)
    BY EmptySeq
  <2> QED BY <2>1, <2>2, <2>3, <2>4 DEF Writes
<1>3. ASSUME ProcessSteps PROVE Writes'
  <2>0. restarts' = restarts
    BY <1>3 DEF ProcessSteps, faults
  <2>1. AgentConnect \/ UNCHANGED agentVars => Writes'
    BY <2>0 DEF AgentConnect, agentVars, Writes
  <2>2. TokenReady => Writes'
    BY <2>0, SendKeepsWrites, Words DEF TokenReady, Writes
  <2>3. Notify => Writes'
    BY <2>0, SendKeepsWrites, Words DEF Notify, Writes
  <2>4. Request => Writes'
    <3> SUFFICES ASSUME Request PROVE Writes'
      OBVIOUS
    <3>1. notified' \in Nat
      BY DEF Request, Writes
    <3> QED BY <2>0, <3>1, SendKeepsWrites, Words DEF Request
  <2>5. AgentClose => Writes'
    BY <2>0, DisconnectKeepsWrites DEF AgentClose
  <2>6. ASSUME NEW k \in intervals, AgentKeepAliveTimeout(k) PROVE Writes'
    BY <2>0, <2>6, DisconnectKeepsWrites DEF AgentKeepAliveTimeout
  <2>7. ASSUME NEW r \in Req, HandlerDone(r) PROVE Writes'
    <3>1. r \in Nat /\ notified' \in Nat /\ Send([topic |-> "response", id |-> r])
      BY <2>7 DEF HandlerDone, Writes, Req
    <3>2. [topic |-> "response", id |-> r] \in Word
      BY <3>1, Words
    <3> QED BY <2>0, <3>1, <3>2, SendKeepsWrites
  <2> QED BY <1>3, <2>1, <2>2, <2>3, <2>4, <2>5, <2>6, <2>7, ProcessCases
<1>4. ASSUME NEW s \in Stream, MasterAccepts(s) \/ MasterSeesEnd(s) PROVE Writes'
  BY <1>4 DEF MasterAccepts, MasterSeesEnd, vars, agentVars, faults, Writes
<1>5. ASSUME NEW s \in Stream, MasterHandles(s) \/ LosesWrite(s) PROVE Writes'
  BY <1>5, CarryKeepsWrites DEF MasterHandles, MasterOnRegister, MasterOnReconnect,
     MasterOnDisconnect, MasterOnResponse, MasterOnNotify, MasterOnRequest, Arrives,
     LosesWrite, faults
<1>6. ASSUME NEW s \in Stream, ProcessHandles(s) PROVE Writes'
  <2>0. restarts' = restarts
    BY <1>6 DEF ProcessHandles, faults
  <2>1. SendNothing /\ notified' = notified => Writes'
    BY <2>0 DEF SendNothing, Writes
  <2>2. AgentConnack(s) => Writes'
    BY <2>0, <2>1, SendKeepsWrites, Words DEF AgentConnack, OnConnect, OnReconnect, Writes
  <2>3. OnRegister(s, TRUE) \/ OnRegister(s, FALSE) \/ OnReconnectOk(s, TRUE)
        \/ OnReconnectOk(s, FALSE)
        \/ AgentDisconnectPacket(s) \/ OnAnswer(s, Head(down[s]).id) => Writes'
    BY <2>1 DEF OnRegister, OnReconnectOk, AgentDisconnectPacket, OnAnswer, SendNothing
  <2>4. Delivers(s, "monitor") /\ OnRequest(s, Head(down[s]).id) => Writes'
    <3>1. Delivers(s, "monitor") => Head(down[s]).id \in Nat
      BY DEF Delivers, Packet
    <3> QED BY <2>0, <2>1, <3>1, SendKeepsWrites, Words DEF OnRequest, Writes
  <2> QED BY <1>6, <2>2, <2>3, <2>4, DeliveryCases
<1>7. ASSUME NEW s \in Stream, ProcessSeesEnd(s) \/ ProcessPonged(s) PROVE Writes'
  BY <1>7 DEF ProcessSeesEnd, ProcessPonged, agentVars, faults, Writes
<1>8. ASSUME NEW s \in Stream, Cut(s) PROVE Writes'
  <2>1. <<>> \in Seq(Word)
    BY EmptySeq
  <2> QED BY <1>8, <2>1 DEF Cut, faults, Writes
<1> QED BY <1>1, <1>2, <1>3, <1>4, <1>5, <1>6, <1>7, <1>8, SessionCases

-----------------------------------------------------------------------------
(* Links and registrations *)

(* The ends of a stream: nothing is carried on a stream that is cut or that *)
(* one end has not opened, an ended stream was cut, and with PromptClose    *)
(* the master has seen the end of a stream that is cut.                     *)
Links ==
  /\ \A s \in Stream :
       /\ down[s] # <<>> => s \notin cut /\ conn[s] # "idle"
       /\ stream[s] = "unused" => conn[s] = "idle" /\ s \notin cut /\ out[s] = <<>>
       /\ stream[s] = "ended" => s \in cut
       /\ PromptClose /\ s \in cut => ~M!Open(s)
  /\ socket # 0 => stream[socket] # "unused"

Registering(s) == out[s] # <<>> /\ out[s][1].topic = "register"

(* Nobody is registered, and nothing but the messages of s is under way.    *)
Alone(s) ==
  /\ s = socket /\ s \notin cut /\ conn[s] # "idle" /\ down[s] = <<>>
  /\ ~M!HasPrimary(Id) /\ retries = {} /\ astate # "inited"
  /\ \A t \in Stream \ {s} : ~Live(t) /\ out[t] = <<>>

(* A registration is the first message of its stream, and while it is under *)
(* way nothing else is.                                                     *)
Registration ==
  /\ \A s \in Stream : \A n \in DOMAIN out[s] : out[s][n].topic = "register" => n = 1
  /\ \A s \in Stream : Registering(s) => Alone(s)

(* An agent that has not been connected finds nobody registered, and was    *)
(* sent an acknowledgement at most.                                         *)
Inited ==
  /\ token = FALSE
  /\ astate = "inited" =>
       /\ ~connected /\ connectedTimes = 1 /\ ~M!HasPrimary(Id)
       /\ \A r \in Req : handling[r] = 0
       /\ \A s \in Stream : out[s] = <<>> /\ down[s] \in {<<>>, <<Msg("connack", 0)>>}

(* Streams that carry something are live at the process's end.              *)
LEMMA CarryingIsLive ==
  ASSUME Links, ClientTypeOK, NEW s \in Stream, s \notin cut, conn[s] # "idle" \/ stream[s] # "unused"
  PROVE  Live(s)
BY DEF Links, Live, ClientTypeOK

Sound == Packets /\ Writes /\ Ids /\ ClientCore
Registry == Owns /\ Links /\ Inited /\ Registration

(* Nobody is registered while a registration arrives.                       *)
LEMMA ArrivesFirst ==
  ASSUME Sound, Registry, NEW s \in Stream, Arrives(s, "register")
  PROVE  Registering(s) /\ ~M!HasPrimary(Id)
<1>1. out[s] \in Seq(Word) /\ out[s] # <<>> /\ Head(out[s]).topic = "register"
  BY DEF Arrives, Sound, Writes
<1>2. Head(out[s]) = out[s][1]
  BY <1>1, HeadTailProperties
<1>3. Registering(s)
  BY <1>1, <1>2 DEF Registering
<1> QED BY <1>3 DEF Registry, Registration, Alone

(* Owns only looks at the state of the master.                              *)
LEMMA SameMaster == ASSUME Owns, UNCHANGED masterVars PROVE Owns'
BY DEF Owns, masterVars, M!Open, M!HasPrimary

(* The two greetings that admit the process. *)
LEMMA GreetingAdmits ==
  ASSUME Sound, Registry, NEW s \in Stream,
         \/ Arrives(s, "register") /\ RegisterAccepted(s)
         \/ MasterOnReconnect(s) /\ ~M!HasPrimary(Id)
  PROVE  /\ Owns' /\ msock'[s].registered /\ conn' = conn /\ ~M!HasPrimary(Id)
         /\ \A t \in Stream \ {s} : msock'[t] = msock[t]
         /\ UNCHANGED <<reqId, callbacks, msgMap, answers>>
<1>1. ~M!HasPrimary(Id)
  BY ArrivesFirst
<1>2. M!OnRegisterMonitor(s, Id, Address, TRUE) \/ M!OnReconnect(s, Id, Address)
  BY DEF RegisterAccepted, MasterOnReconnect
<1>3. /\ M!Open(s) /\ M!AddMonitor(Id, Address, s) /\ UNCHANGED <<conn, auth>>
      /\ UNCHANGED <<reqId, callbacks, msgMap, answers>>
  BY <1>2 DEF M!OnRegisterMonitor, M!OnReconnect, M!MayGreetAs, M!MayGreet
<1>4. msock' = [msock EXCEPT ![s] = M!Greeted(Id, "connector", Address, TRUE)]
  BY <1>2, SessionAssumption DEF M!OnRegisterMonitor, M!OnReconnect
<1> QED BY <1>1, <1>3, <1>4, AdmissionRecords DEF Registry

(* A registration that is refused leaves nobody registered. *)
LEMMA RefusalRecordsNothing ==
  ASSUME Sound, Registry, NEW s \in Stream, Arrives(s, "register"), RegisterRefused(s)
  PROVE  /\ Owns' /\ ~msock'[s].registered /\ conn' = conn
         /\ \A t \in Stream \ {s} : msock'[t] = msock[t]
         /\ UNCHANGED <<reqId, callbacks, msgMap, answers>>
<1>1. /\ UNCHANGED <<conn, auth, idMap, slaveMap, reqId, callbacks, msgMap, answers>>
      /\ msock' = [msock EXCEPT ![s] = M!Greeted(Id, "connector", Address, FALSE)]
  BY SessionAssumption DEF RegisterRefused, M!OnRegisterMonitor, M!registry
<1>2. \A t \in Stream : ~msock[t].registered
  BY ArrivesFirst, RegisteredIsPrimary DEF Registry
<1>3. ~msock'[s].registered /\ \A t \in Stream \ {s} : msock'[t] = msock[t]
  BY <1>1 DEF Registry, Owns, M!Greeted
<1>4. \A t \in Stream : ~msock'[t].registered
  BY <1>2, <1>3
<1>5. ~M!HasPrimary(Id)'
  BY <1>1, ArrivesFirst DEF M!HasPrimary
<1>6. Owns'
  BY <1>1, <1>4, <1>5 DEF Registry, Owns
<1> QED BY <1>1, <1>3, <1>6

(* The master's end of a stream that ends. *)
LEMMA EndForgets ==
  ASSUME Owns, NEW s \in Stream, M!StreamClose(s)
  PROVE  /\ Owns' /\ ~msock'[s].registered
         /\ conn' = [conn EXCEPT ![s] = "closed"]
         /\ \A t \in Stream \ {s} : msock'[t] = msock[t] /\ conn'[t] = conn[t]
         /\ M!HasPrimary(Id)' => M!HasPrimary(Id)
         /\ UNCHANGED <<reqId, callbacks, msgMap, answers>>
BY DisconnectForgets DEF M!StreamClose

(* Every step keeps the master to one record of the process, on an open     *)
(* stream.                                                                  *)
LEMMA NextOwns == ASSUME Sound, Registry, SessionNext PROVE Owns'
<1>1. ProcessDies \/ ProcessStarts \/ ProcessSteps => Owns'
  BY SameMaster DEF ProcessDies, ProcessStarts, ProcessSteps, Registry
<1>2. ASSUME MasterReboots PROVE Owns'
  <2>1. /\ idMap' = [i \in {Id} |-> M!NoRecord] /\ slaveMap' = [i \in {Id} |-> <<>>]
        /\ auth' = {} /\ conn' = [s \in Stream |-> IF s \in Used THEN "closed" ELSE "idle"]
    BY <1>2 DEF MasterReboots
  <2>2. msock' = [s \in Stream |-> M!FreshSocket]
    BY <1>2 DEF MasterReboots
  <2>3. \A s \in Stream : ~msock'[s].registered
    BY <2>2 DEF M!FreshSocket
  <2>4. ~M!HasPrimary(Id)'
    BY <2>1 DEF M!HasPrimary
  <2> QED BY <2>1, <2>2, <2>3, <2>4 DEF Owns
<1>3. MasterListen => Owns'
  BY DEF MasterListen, M!Listen, M!registry, M!links, Registry, Owns, M!Open, M!HasPrimary
<1>4. MasterRequest => Owns'
  BY DEF MasterRequest, M!Request, M!registry, M!links, Registry, Owns, M!Open, M!HasPrimary
<1>5. ASSUME NEW s \in Stream, MasterAccepts(s) PROVE Owns'
  BY <1>5 DEF MasterAccepts, M!Connection, M!registry, Registry, Owns, M!Open, M!HasPrimary
<1>6. ASSUME NEW s \in Stream, MasterHandles(s) PROVE Owns'
  <2>1. CASE MasterOnRegister(s)
    BY <2>1, GreetingAdmits, RefusalRecordsNothing DEF MasterOnRegister
  <2>2. CASE MasterOnReconnect(s)
    BY <2>2, GreetingAdmits, SameMaster DEF MasterOnReconnect, Registry
  <2>3. CASE MasterOnDisconnect(s)
    BY <2>3, DisconnectForgets DEF MasterOnDisconnect, Registry
  <2>4. M!OnMonitorResponse(s, Head(out[s]).id) => Owns'
    BY DEF M!OnMonitorResponse, M!registry, M!links, Registry, Owns, M!Open, M!HasPrimary
  <2>5. CASE MasterOnResponse(s) \/ MasterOnNotify(s) \/ MasterOnRequest(s)
    BY <2>4, <2>5, SameMaster DEF MasterOnResponse, MasterOnNotify, MasterOnRequest, Kick,
       Registry
  <2> QED BY <1>6, <2>1, <2>2, <2>3, <2>5 DEF MasterHandles
<1>7. ASSUME NEW s \in Stream, MasterSeesEnd(s) \/ Cut(s) PROVE Owns'
  BY <1>7, EndForgets, SameMaster DEF MasterSeesEnd, Cut, Registry
<1>8. ASSUME NEW s \in Stream,
             ProcessHandles(s) \/ ProcessSeesEnd(s) \/ ProcessPonged(s) \/ LosesWrite(s)
      PROVE  Owns'
  BY <1>8, SameMaster DEF ProcessHandles, ProcessSeesEnd, ProcessPonged, LosesWrite, Registry
<1> QED BY <1>1, <1>2, <1>3, <1>4, <1>5, <1>6, <1>7, <1>8, SessionCases

(* A write goes to the current stream only. *)
LEMMA SendIsLocal ==
  ASSUME Writes, NEW m, Send(m) \/ SendNothing
  PROVE  \A s \in Stream : s # socket' => out'[s] = out[s]
BY DEF Send, SendNothing, Writes

(* A DISCONNECT is written on the current stream.                           *)
LEMMA DisconnectIsLocal ==
  ASSUME Writes, SendDisconnect
  PROVE  \A s \in Stream : s # socket => out'[s] = out[s]
BY DEF SendDisconnect, Writes

(* What a step of the process must not do to keep the ends joined.          *)
LEMMA ProcessKeepsLinks ==
  ASSUME Links, conn' = conn, cut' = cut,
         \A s \in Stream : down'[s] # <<>> => down[s] # <<>>,
         \A s \in Stream : stream'[s] = "unused" => stream[s] = "unused" /\ out'[s] = out[s],
         \A s \in Stream : stream'[s] = "ended" => s \in cut,
         socket' # 0 => stream'[socket'] # "unused"
  PROVE  Links'
BY DEF Links, M!Open

(* The same, for steps that leave the streams as they are.                  *)
LEMMA SameStreamsKeepLinks ==
  ASSUME Links, UNCHANGED <<conn, cut, stream>>, socket' \in {0, socket},
         \A s \in Stream : down'[s] # <<>> => down[s] # <<>>,
         \A s \in Stream : out'[s] # out[s] => s = socket \/ out[s] # <<>>
  PROVE  Links'
<1>1. \A s \in Stream : stream[s] = "unused" => out'[s] = out[s]
  BY DEF Links, Stream
<1> QED BY <1>1, ProcessKeepsLinks DEF Links

(* A stream that is opened has nothing at the other end yet.                *)
LEMMA OpeningKeepsLinks ==
  ASSUME Links, ClientCore, OpenStream, UNCHANGED <<conn, cut, down, out>>
  PROVE  Links'
<1>1. /\ socket' \in Stream /\ stream' = [stream EXCEPT ![socket'] = "connecting"]
      /\ stream \in [Stream -> {"unused", "connecting", "open", "ended"}]
  BY OpenStreamType DEF ClientCore, ClientTypeOK
<1>2. \A s \in Stream : stream'[s] = "ended" => s \in cut
  BY <1>1 DEF Links
<1> QED BY <1>1, <1>2, ProcessKeepsLinks

(* Every step of the process keeps the ends joined.                         *)
LEMMA StepsKeepLinks == ASSUME Sound, Registry, ProcessSteps PROVE Links'
<1>0. Links /\ Writes /\ ClientCore /\ UNCHANGED <<conn, cut, down>>
  BY DEF ProcessSteps, Sound, Registry, masterVars
<1>1. AgentConnect => Links'
  BY <1>0, OpeningKeepsLinks DEF AgentConnect, Connect, agentVars
<1>2. UNCHANGED clientVars => UNCHANGED <<stream, socket>>
  BY DEF clientVars
<1>3. TokenReady \/ Notify \/ Request => Links'
  BY <1>0, <1>2, SendIsLocal, SameStreamsKeepLinks DEF TokenReady, Notify, Request
<1>4. AgentClose => Links'
  BY <1>0, DisconnectIsLocal, SameStreamsKeepLinks DEF AgentClose, Disconnect, CloseClient
<1>5. TimeoutFires /\ UNCHANGED agentVars => Links'
  BY <1>0, SameStreamsKeepLinks DEF TimeoutFires, agentVars
<1>6. ASSUME NEW k \in intervals, SendPing(k), UNCHANGED agentVars PROVE Links'
  BY <1>0, <1>6, SameStreamsKeepLinks DEF SendPing, agentVars
<1>7. ASSUME NEW n \in retries, RetryFires(n), UNCHANGED agentVars PROVE Links'
  BY <1>0, <1>7, SameStreamsKeepLinks, OpeningKeepsLinks DEF RetryFires, agentVars
<1>8. ASSUME NEW k \in intervals, AgentKeepAliveTimeout(k) PROVE Links'
  BY <1>0, <1>8, DisconnectIsLocal, SameStreamsKeepLinks
     DEF AgentKeepAliveTimeout, KeepAliveTimeout, CloseClient
<1>9. ASSUME NEW r \in Req, HandlerDone(r) PROVE Links'
  BY <1>0, <1>2, <1>9, SendIsLocal, SameStreamsKeepLinks DEF HandlerDone
<1> QED BY <1>1, <1>3, <1>4, <1>5, <1>6, <1>7, <1>8, <1>9, ProcessCases

(* So does every message that reaches it.                                   *)
LEMMA DeliveriesKeepLinks ==
  ASSUME Sound, Registry, NEW s \in Stream, ProcessHandles(s)
  PROVE  Links'
<1>0. Links /\ Writes /\ ClientCore /\ UNCHANGED <<conn, cut>>
  BY DEF ProcessHandles, Sound, Registry, masterVars
<1>1. \A u \in Stream : down'[u] # <<>> => down[u] # <<>>
  BY DEF ProcessHandles
<1>2. ASSUME AgentConnack(s) PROVE Links'
  <2>1. /\ stream[s] = "connecting" /\ stream' = [stream EXCEPT ![s] = "open"]
        /\ socket' = socket
        /\ stream \in [Stream -> {"unused", "connecting", "open", "ended"}]
    BY <1>0, <1>2 DEF AgentConnack, Connack, ClientCore, ClientTypeOK
  <2>2. \A t \in Stream : t # socket' => out'[t] = out[t]
    BY <1>0, <1>2, SendIsLocal DEF AgentConnack, OnConnect, OnReconnect
  <2>3. socket' # 0 => socket' \in Stream /\ stream'[socket'] # "unused"
    BY <1>0, <2>1, MaxStreamAssumption DEF Links, ClientCore, ClientTypeOK, Stream
  <2>4. \A t \in Stream : stream'[t] = "unused" => stream[t] = "unused" /\ out'[t] = out[t]
    <3>1. ASSUME NEW t \in Stream, stream'[t] = "unused"
          PROVE  stream[t] = "unused" /\ out'[t] = out[t]
      <4>1. t # 0
        BY DEF Stream
      <4>2. t # socket'
        BY <2>3, <3>1, <4>1
      <4> QED BY <2>1, <2>2, <3>1, <4>2
    <3> QED BY <3>1
  <2>5. \A t \in Stream : stream'[t] = "ended" => t \in cut
    BY <1>0, <2>1 DEF Links
  <2> QED BY <1>0, <1>1, <2>3, <2>4, <2>5, ProcessKeepsLinks
<1>3. ASSUME NEW ok \in BOOLEAN, OnRegister(s, ok) \/ OnReconnectOk(s, ok) PROVE Links'
  BY <1>0, <1>1, <1>3, SameStreamsKeepLinks
     DEF OnRegister, OnReconnectOk, Receives, clientVars
<1>4. ASSUME NEW r, OnRequest(s, r) \/ OnAnswer(s, r) PROVE Links'
  <2>1. UNCHANGED <<stream, socket>>
    BY <1>4 DEF OnRequest, OnAnswer, Receives, clientVars
  <2>2. \A t \in Stream : t # socket' => out'[t] = out[t]
    BY <1>0, <1>4, SendIsLocal DEF OnRequest, OnAnswer
  <2> QED BY <1>0, <1>1, <2>1, <2>2, SameStreamsKeepLinks
<1>5. ASSUME AgentDisconnectPacket(s) PROVE Links'
  BY <1>0, <1>1, <1>5, SameStreamsKeepLinks
     DEF AgentDisconnectPacket, DisconnectPacket, OnSocketClose, Clear
<1> QED BY <1>2, <1>3, <1>4, <1>5, DeliveryCases DEF Sound

(* What the master writes goes to an open stream.                           *)
LEMMA ReplyKeepsLinks ==
  ASSUME Links, Packets, NEW s \in Stream, conn[s] # "idle" \/ s \in cut, NEW ms,
         Reply(s, ms) \/ down' = down,
         conn' \in [Stream -> {"idle", "open", "left", "closed"}],
         UNCHANGED <<cut, stream, socket>>,
         \A t \in Stream : /\ conn[t] = "idle" <=> conn'[t] = "idle"
                           /\ M!Open(t)' => M!Open(t)
                           /\ out[t] = <<>> => out'[t] = <<>>
  PROVE  Links'
<1>1. \A t \in Stream : t # s \/ s \in cut => down'[t] = down[t]
  BY DEF Reply, Packets
<1> QED BY <1>1 DEF Links

(* A message that leaves its stream leaves the other streams alone.         *)
LEMMA CarryShrinks ==
  ASSUME Writes, NEW s \in Stream, Carry(s)
  PROVE  /\ \A t \in Stream : out[t] = <<>> => out'[t] = <<>>
         /\ \A t \in Stream : t # s => out'[t] = out[t]
         /\ UNCHANGED clientVars
BY DEF Writes, Carry

(* Every message that reaches the master keeps the ends joined.             *)
LEMMA HandlersKeepLinks ==
  ASSUME Sound, Registry, Owns', NEW s \in Stream, MasterHandles(s)
  PROVE  Links'
<1>0. /\ Links /\ Packets /\ Owns
      /\ conn' \in [Stream -> {"idle", "open", "left", "closed"}]
  BY DEF Sound, Registry, Owns
<1>1. \E t : Arrives(s, t)
  BY DEF MasterHandles, MasterOnRegister, MasterOnReconnect, MasterOnDisconnect,
     MasterOnResponse, MasterOnNotify, MasterOnRequest
<1>2. /\ UNCHANGED <<cut, stream, socket>> /\ M!Open(s) /\ conn[s] # "idle"
      /\ \A t \in Stream : out[t] = <<>> => out'[t] = <<>>
  BY <1>1, CarryShrinks DEF Arrives, Sound, clientVars, M!Open
<1>3. CASE conn' = conn
  <2>1. \E ms : Reply(s, ms) \/ down' = down
    <3>1. MasterOnRegister(s) \/ MasterOnReconnect(s) => \E ms : Reply(s, ms)
      BY DEF MasterOnRegister, RegisterAccepted, RegisterRefused, MasterOnReconnect, Admits,
         RepliesThenRepush
    <3>2. MasterOnResponse(s) \/ MasterOnNotify(s) \/ MasterOnRequest(s)
          => \E ms : Reply(s, ms) \/ down' = down
      BY DEF MasterOnResponse, MasterOnNotify, MasterOnRequest, Kick
    <3>3. MasterOnDisconnect(s) => down' = down
      BY DEF MasterOnDisconnect
    <3> QED BY <3>1, <3>2, <3>3 DEF MasterHandles
  <2> QED BY <1>0, <1>2, <1>3, <2>1, ReplyKeepsLinks DEF M!Open
<1>4. CASE conn' # conn
  <2>1. MasterOnDisconnect(s)
    BY <1>4, GreetingAdmits, RefusalRecordsNothing
       DEF MasterHandles, MasterOnRegister, MasterOnReconnect, masterVars, MasterOnResponse, MasterOnNotify, MasterOnRequest, Kick, M!OnMonitorResponse, M!links
  <2>2. conn' = [conn EXCEPT ![s] = "left"] /\ down' = down
    BY <2>1 DEF MasterOnDisconnect
  <2> QED BY <1>0, <1>2, <2>2, ReplyKeepsLinks DEF M!Open, Owns
<1> QED BY <1>3, <1>4

(* Every step keeps the ends joined.                                        *)
LEMMA NextLinks == ASSUME Sound, Registry, Owns', SessionNext PROVE Links'
<1>0. Links /\ ClientCore /\ Owns /\ Packets
  BY DEF Sound, Registry
<1>1. ProcessDies \/ MasterListen => Links'
  BY <1>0 DEF ProcessDies, MasterListen, M!Listen, M!links, agentVars, masterVars, vars,
     clientVars, Links, M!Open
<1>2. ASSUME ProcessStarts PROVE Links'
  <2>1. /\ stream' = [s \in Stream |-> IF s \in Used THEN "ended" ELSE "unused"]
        /\ \A s \in Used : stream[s] = "ended" \/ s \in cut
        /\ socket' = 0 /\ out' = [s \in Stream |-> <<>>] /\ UNCHANGED <<conn, down, cut>>
    BY <1>2 DEF ProcessStarts, masterVars
  <2> QED BY <1>0, <2>1 DEF Links, M!Open, Used
<1>3. ASSUME MasterReboots PROVE Links'
  <2>1. /\ conn' = [s \in Stream |-> IF s \in Used THEN "closed" ELSE "idle"]
        /\ cut' = cut \cup {s \in Used : stream[s] # "ended"}
        /\ down' = [s \in Stream |-> <<>>] /\ out' = [s \in Stream |-> <<>>]
        /\ UNCHANGED <<stream, socket>>
    BY <1>3 DEF MasterReboots, clientVars
  <2> QED BY <1>0, <2>1 DEF Links, M!Open, Used
<1>4. ASSUME MasterRequest PROVE Links'
  <2>1. UNCHANGED <<conn, cut, stream, socket, out>>
    BY <1>4 DEF MasterRequest, M!Request, M!links, vars, clientVars, agentVars
  <2>2. CASE M!HasPrimary(Id)
    <3>1. PICK s \in Stream : idMap[Id].socket = s /\ M!Open(s)
      BY <1>0, <2>2, RegisteredIsPrimary DEF Owns
    <3>2. conn[s] # "idle" /\ Reply(s, <<Msg("monitor", reqId)>>)
      BY <1>4, <2>2, <3>1 DEF MasterRequest, M!Open
    <3> QED BY <1>0, <2>1, <3>2, ReplyKeepsLinks DEF Owns, M!Open
  <2>3. CASE ~M!HasPrimary(Id)
    BY <1>0, <1>4, <2>1, <2>3 DEF MasterRequest, Links, M!Open
  <2> QED BY <2>2, <2>3
<1>5. ASSUME NEW s \in Stream, MasterAccepts(s) PROVE Links'
  <2>1. /\ s \notin cut /\ stream[s] # "unused" /\ conn' = [conn EXCEPT ![s] = "open"]
        /\ UNCHANGED <<cut, stream, socket, out>>
        /\ \A t \in Stream \ {s} : down'[t] = down[t]
    BY <1>0, <1>5 DEF MasterAccepts, M!Connection, vars, clientVars, agentVars, Reply, Packets
  <2> QED BY <1>0, <2>1 DEF Links, M!Open, Owns
<1>6. ASSUME NEW s \in Stream, MasterSeesEnd(s) PROVE Links'
  <2>1. /\ s \in cut /\ conn' = [conn EXCEPT ![s] = "closed"]
        /\ UNCHANGED <<cut, stream, socket, out, down>> /\ M!Open(s)
    BY <1>6 DEF MasterSeesEnd, M!StreamClose, vars, clientVars, agentVars
  <2> QED BY <1>0, <2>1 DEF Links, M!Open, Owns
<1>7. ASSUME NEW s \in Stream, ProcessSeesEnd(s) PROVE Links'
  <2>1. /\ s \in cut /\ UNCHANGED <<conn, cut, down, out>>
        /\ stream' = [stream EXCEPT ![s] = "ended"] /\ Live(s) /\ socket' \in {0, socket}
    BY <1>7 DEF ProcessSeesEnd, StreamEnds, OnSocketClose, Clear, masterVars, agentVars, Live
  <2>2. \A t \in Stream : stream'[t] = "unused" => stream[t] = "unused"
    BY <1>0, <2>1 DEF ClientCore, ClientTypeOK
  <2>3. \A t \in Stream : stream'[t] = "ended" => t \in cut
    BY <1>0, <2>1 DEF Links, ClientCore, ClientTypeOK
  <2>4. socket' # 0 => stream'[socket'] # "unused"
    BY <1>0, <2>1 DEF Links, ClientCore, ClientTypeOK
  <2> QED BY <1>0, <2>1, <2>2, <2>3, <2>4, ProcessKeepsLinks
<1>8. ASSUME NEW s \in Stream, ProcessPonged(s) PROVE Links'
  BY <1>0, <1>8 DEF ProcessPonged, Pingresp, masterVars, agentVars, Links, M!Open
<1>9. ASSUME NEW s \in Stream, Cut(s) PROVE Links'
  <2>1. /\ cut' = cut \cup {s} /\ stream[s] \in {"connecting", "open"}
        /\ down' = [down EXCEPT ![s] = <<>>] /\ out' = [out EXCEPT ![s] = <<>>]
        /\ UNCHANGED <<stream, socket>>
    BY <1>9 DEF Cut, clientVars
  <2>2. CASE PromptClose /\ M!Open(s)
    <3>1. conn' = [conn EXCEPT ![s] = "closed"]
      BY <1>9, <2>2 DEF Cut, M!StreamClose
    <3> QED BY <1>0, <2>1, <3>1 DEF Links, Owns, M!Open, Packets, Sound, Writes
  <2>3. CASE ~(PromptClose /\ M!Open(s))
    <3>1. conn' = conn
      BY <1>9, <2>3 DEF Cut, masterVars
    <3> QED BY <1>0, <2>1, <2>3, <3>1 DEF Links, Owns, M!Open, Packets, Sound, Writes
  <2> QED BY <2>2, <2>3
<1>10. ASSUME NEW s \in Stream, LosesWrite(s) PROVE Links'
  <2>1. UNCHANGED <<conn, cut, down, stream, socket>>
        /\ \A t \in Stream : out[t] = <<>> => out'[t] = <<>>
    BY <1>10, CarryShrinks DEF LosesWrite, masterVars, clientVars, Sound
  <2> QED BY <1>0, <2>1 DEF Links, M!Open
<1> QED
  BY <1>1, <1>2, <1>3, <1>4, <1>5, <1>6, <1>7, <1>8, <1>9, <1>10, StepsKeepLinks,
     DeliveriesKeepLinks, HandlersKeepLinks, SessionCases

-----------------------------------------------------------------------------
(* The first registration *)

(* A step that sends, registers and connects nothing keeps an agent that has*)
(* not greeted.                                                             *)
LEMMA InitedKept ==
  ASSUME Inited, UNCHANGED <<astate, token, handling, connectedTimes>>,
         connected' => connected, M!HasPrimary(Id)' => M!HasPrimary(Id),
         \A s \in Stream : out[s] = <<>> => out'[s] = <<>>,
         astate = "inited" => \A s \in Stream : down'[s] \in {<<>>, <<Msg("connack", 0)>>}
  PROVE  Inited'
BY DEF Inited

(* Inited says nothing of an agent that has greeted.                        *)
LEMMA InitedLeft == ASSUME token' = FALSE, astate' # "inited" PROVE Inited'
BY DEF Inited

(* The same as InitedKept, for a step that leaves the master and the packets*)
(* alone.                                                                   *)
LEMMA InitedStep ==
  ASSUME Inited, UNCHANGED <<astate, token, handling, connectedTimes, down, masterVars>>,
         connected' => connected,
         \A s \in Stream : out[s] = <<>> => out'[s] = <<>>
  PROVE  Inited'
<1>1. M!HasPrimary(Id)' => M!HasPrimary(Id)
  BY DEF masterVars, M!HasPrimary
<1>2. astate = "inited" => \A s \in Stream : down'[s] \in {<<>>, <<Msg("connack", 0)>>}
  BY DEF Inited
<1> QED BY <1>1, <1>2, InitedKept

(* Every step of the process keeps an agent that has not greeted.           *)
LEMMA StepsKeepInited == ASSUME Sound, Registry, ~AsyncToken, ProcessSteps PROVE Inited'
<1>0. Inited /\ ClientCore /\ UNCHANGED <<down, masterVars>> /\ token = FALSE
  BY DEF ProcessSteps, Sound, Registry, Inited
<1>1. AgentConnect => Inited'
  BY <1>0, InitedStep DEF AgentConnect, Connect, agentVars
<1>2. ~TokenReady
  BY <1>0 DEF TokenReady
<1>3. Notify \/ Request => Inited'
  BY <1>0, InitedLeft DEF Notify, Request
<1>4. AgentClose => Inited'
  BY <1>0, InitedLeft DEF AgentClose
<1>5. TimeoutFires /\ UNCHANGED agentVars => Inited'
  BY <1>0, InitedStep DEF TimeoutFires, agentVars
<1>6. ASSUME NEW k \in intervals, SendPing(k), UNCHANGED agentVars PROVE Inited'
  BY <1>0, <1>6, InitedStep DEF SendPing, agentVars
<1>7. ASSUME NEW n \in retries, RetryFires(n), UNCHANGED agentVars PROVE Inited'
  BY <1>0, <1>7, InitedStep DEF RetryFires, agentVars
<1>8. ASSUME NEW k \in intervals, AgentKeepAliveTimeout(k) PROVE Inited'
  <2>1. connected
    BY <1>0, <1>8 DEF AgentKeepAliveTimeout, KeepAliveTimeout, ClientCore, NoneLeftOver
  <2>2. astate # "inited"
    BY <1>0, <2>1 DEF Inited
  <2> QED BY <1>0, <1>8, <2>2, InitedLeft DEF AgentKeepAliveTimeout
<1>9. ASSUME NEW r \in Req, HandlerDone(r) PROVE Inited'
  <2>1. astate # "inited"
    BY <1>0, <1>9 DEF HandlerDone, Inited
  <2> QED BY <1>0, <1>9, <2>1, InitedLeft DEF HandlerDone
<1> QED BY <1>1, <1>2, <1>3, <1>4, <1>5, <1>6, <1>7, <1>8, <1>9, ProcessCases

(* So does every message that reaches it: before it greets that is a        *)
(* CONNACK.                                                                 *)
LEMMA DeliveriesKeepInited ==
  ASSUME Sound, Registry, ~AsyncToken, NEW s \in Stream, ProcessHandles(s)
  PROVE  Inited'
<1>0. Inited /\ ClientCore /\ Packets /\ token = FALSE /\ down[s] # <<>>
  BY DEF ProcessHandles, Sound, Registry, Inited
<1>1. CASE astate # "inited"
  <2>1. AgentConnack(s) => token' = token /\ astate' # "inited"
    BY <1>1 DEF AgentConnack, OnConnect, OnReconnect
  <2>2. \A r : OnRequest(s, r) \/ OnAnswer(s, r) => token' = token /\ astate' # "inited"
    BY <1>1 DEF OnRequest, OnAnswer
  <2>3. \A ok \in BOOLEAN :
          OnRegister(s, ok) \/ OnReconnectOk(s, ok) => token' = token /\ astate' # "inited"
    BY <1>1 DEF OnRegister, OnReconnectOk
  <2>4. AgentDisconnectPacket(s) => token' = token /\ astate' # "inited"
    BY DEF AgentDisconnectPacket
  <2> QED BY <1>0, <2>1, <2>2, <2>3, <2>4, InitedLeft, DeliveryCases
<1>2. CASE astate = "inited"
  <2>1. down[s] = <<Msg("connack", 0)>> /\ ~connected /\ connectedTimes = 1
    BY <1>0, <1>2 DEF Inited
  <2>2. Head(down[s]).topic = "connack"
    BY <2>1 DEF Msg
  <2>3. AgentConnack(s) => token' = token /\ astate' = "connected"
    BY <1>2, <2>1 DEF AgentConnack, OnConnect
  <2> QED BY <1>0, <2>2, <2>3, InitedLeft, DeliveryCases DEF Delivers
<1> QED BY <1>1, <1>2

(* An agent that has not greeted stands for nobody, because the master has  *)
(* forgotten its earlier lives.                                             *)
LEMMA NextInited ==
  ASSUME Sound, Registry, ~AsyncToken, PromptClose \/ MaxRestart = 0, SessionNext
  PROVE  Inited'
<1>0. Inited /\ Links /\ Owns /\ Writes /\ Packets /\ token = FALSE
  BY DEF Sound, Registry, Inited
<1>1. ProcessDies => Inited'
  BY <1>0, InitedStep DEF ProcessDies, agentVars
<1>2. ASSUME ProcessStarts PROVE Inited'
  <2>1. /\ token' = FALSE /\ connected' = FALSE /\ connectedTimes' = 1
        /\ handling' = [r \in Req |-> 0] /\ out' = [s \in Stream |-> <<>>]
        /\ UNCHANGED <<down, idMap>>
        /\ \A s \in Used : stream[s] = "ended" \/ s \in cut
    BY <1>2 DEF ProcessStarts, masterVars
  <2>2. PromptClose
    BY <1>0, <1>2 DEF ProcessStarts, Writes
  <2>3. ASSUME NEW s \in Stream PROVE ~M!Open(s) /\ down[s] = <<>>
    <3>1. CASE stream[s] = "unused"
      BY <1>0, <3>1 DEF Links, M!Open
    <3>2. CASE stream[s] # "unused"
      <4>1. s \in cut
        BY <1>0, <2>1, <3>2 DEF Used, Links
      <4> QED BY <1>0, <2>2, <4>1 DEF Links
    <3> QED BY <3>1, <3>2
  <2>4. ~M!HasPrimary(Id)'
    BY <1>0, <2>1, <2>3 DEF Owns, M!HasPrimary
  <2> QED BY <2>1, <2>3, <2>4 DEF Inited
<1>3. ASSUME MasterReboots PROVE Inited'
  <2>1. /\ idMap' = [i \in {Id} |-> M!NoRecord] /\ out' = [s \in Stream |-> <<>>]
        /\ down' = [s \in Stream |-> <<>>]
        /\ UNCHANGED <<astate, token, handling, connectedTimes, connected>>
    BY <1>3 DEF MasterReboots, clientVars
  <2>2. ~M!HasPrimary(Id)'
    BY <2>1 DEF M!HasPrimary
  <2> QED BY <1>0, <2>1, <2>2, InitedKept
<1>4. MasterListen => Inited'
  BY <1>0 DEF MasterListen, M!Listen, M!registry, vars, agentVars, clientVars, Inited,
     M!HasPrimary
<1>5. MasterRequest => Inited'
  BY <1>0 DEF MasterRequest, M!Request, M!registry, vars, agentVars, clientVars, Inited,
     M!HasPrimary
<1>6. ASSUME NEW s \in Stream, MasterAccepts(s) PROVE Inited'
  <2>1. /\ UNCHANGED <<idMap, astate, token, handling, connectedTimes, connected, out>>
        /\ \A t \in Stream \ {s} : down'[t] = down[t]
    BY <1>0, <1>6 DEF MasterAccepts, M!Connection, M!registry, vars, agentVars, clientVars,
       Reply, Packets
  <2>2. down'[s] = <<Msg("connack", 0)>>
    <3>1. down[s] = <<>> /\ s \notin cut
      BY <1>0, <1>6 DEF MasterAccepts, M!Connection, Links
    <3> QED BY <1>0, <1>6, <3>1 DEF MasterAccepts, Reply, Packets
  <2> QED BY <1>0, <2>1, <2>2 DEF Inited, M!HasPrimary
<1>7. ASSUME NEW s \in Stream, MasterHandles(s) PROVE Inited'
  <2>1. out[s] # <<>> /\ UNCHANGED <<astate, token>>
    BY <1>7 DEF MasterHandles, MasterOnRegister, MasterOnReconnect, MasterOnDisconnect,
       MasterOnResponse, MasterOnNotify, MasterOnRequest, Arrives, Carry
  <2>2. astate # "inited"
    BY <1>0, <2>1 DEF Inited
  <2> QED BY <1>0, <2>1, <2>2, InitedLeft
<1>8. ASSUME NEW s \in Stream, MasterSeesEnd(s) PROVE Inited'
  <2>1. M!HasPrimary(Id)' => M!HasPrimary(Id)
    BY <1>0, <1>8, EndForgets DEF MasterSeesEnd
  <2> QED BY <1>0, <1>8, <2>1 DEF MasterSeesEnd, vars, agentVars, clientVars, Inited
<1>9. ASSUME NEW s \in Stream, ProcessSeesEnd(s) PROVE Inited'
  BY <1>0, <1>9, InitedStep DEF ProcessSeesEnd, StreamEnds, OnSocketClose, Clear, agentVars
<1>10. ASSUME NEW s \in Stream, ProcessPonged(s) PROVE Inited'
  BY <1>0, <1>10, InitedStep DEF ProcessPonged, Pingresp, agentVars
<1>11. ASSUME NEW s \in Stream, Cut(s) PROVE Inited'
  <2>1. M!HasPrimary(Id)' => M!HasPrimary(Id)
    BY <1>0, <1>11, EndForgets DEF Cut, masterVars, M!HasPrimary
  <2>2. \A t \in Stream : (out'[t] = out[t] \/ out'[t] = <<>>) /\ (down'[t] = down[t] \/ down'[t] = <<>>)
    BY <1>0, <1>11 DEF Cut, Writes, Packets
  <2>3. UNCHANGED <<astate, token, handling, connectedTimes, connected>>
    BY <1>11 DEF Cut, clientVars
  <2>4. astate = "inited" => \A t \in Stream : down'[t] \in {<<>>, <<Msg("connack", 0)>>}
    BY <1>0, <2>2 DEF Inited
  <2> QED BY <1>0, <2>1, <2>2, <2>3, <2>4, InitedKept
<1>12. ASSUME NEW s \in Stream, LosesWrite(s) PROVE Inited'
  <2>1. out[s] # <<>> /\ UNCHANGED <<astate, token>>
    BY <1>12 DEF LosesWrite, Carry
  <2>2. astate # "inited"
    BY <1>0, <2>1 DEF Inited
  <2> QED BY <1>0, <2>1, <2>2, InitedLeft
<1> QED
  BY <1>1, <1>2, <1>3, <1>4, <1>5, <1>6, <1>7, <1>8, <1>9, <1>10, <1>11, <1>12,
     StepsKeepInited, DeliveriesKeepInited, SessionCases

(* A step that writes nothing, or something else than a registration at the *)
(* end of the current stream, keeps a registration when it leaves it alone. *)
LEMMA RegistrationKept ==
  ASSUME Writes, Registration,
         \A s \in Stream :
           \/ out'[s] = out[s] \/ out'[s] = <<>>
           \/ \E m \in Word : m.topic # "register" /\ out'[s] = Append(out[s], m),
         \A s \in Stream : Registering(s) /\ Registering(s)' /\ Alone(s) => Alone(s)'
  PROVE  Registration'
<1>1. ASSUME NEW s \in Stream
      PROVE  /\ \A n \in DOMAIN out'[s] : out'[s][n].topic = "register" => n = 1
             /\ Registering(s)' => Registering(s)
  <2>1. CASE out'[s] = out[s]
    BY <2>1 DEF Registration, Registering
  <2>2. CASE out'[s] = <<>>
    BY <2>2 DEF Registering
  <2>3. ASSUME NEW m \in Word, m.topic # "register", out'[s] = Append(out[s], m)
        PROVE  /\ \A n \in DOMAIN out'[s] : out'[s][n].topic = "register" => n = 1
               /\ Registering(s)' => Registering(s)
    <3>1. /\ out[s] \in Seq(Word) /\ Len(out[s]) \in Nat /\ DOMAIN out[s] = 1 .. Len(out[s])
          /\ DOMAIN out'[s] = 1 .. Len(out[s]) + 1
          /\ \A n \in 1 .. Len(out[s]) : out'[s][n] = out[s][n]
          /\ out'[s][Len(out[s]) + 1] = m
      BY <2>3, AppendProperties, LenProperties DEF Writes
    <3>2. out[s] = <<>> => Len(out[s]) = 0
      BY <3>1, EmptySeq
    <3>3. \A n \in DOMAIN out'[s] : out'[s][n].topic = "register" => n = 1
      BY <2>3, <3>1 DEF Registration
    <3>4. Registering(s)' => Registering(s)
      <4>1. CASE out[s] = <<>>
        BY <2>3, <3>1, <3>2, <4>1 DEF Registering
      <4>2. CASE out[s] # <<>>
        <5>1. Len(out[s]) # 0
          BY <3>1, <4>2, EmptySeq
        <5> QED BY <3>1, <4>2, <5>1 DEF Registering
      <4> QED BY <4>1, <4>2
    <3> QED BY <3>3, <3>4
  <2> QED BY <2>1, <2>2, <2>3
<1> QED BY <1>1 DEF Registration

(* Nothing was registering, and nothing begins to.                          *)
LEMMA StillNone ==
  ASSUME Writes, Registration, \A s \in Stream : ~(Registering(s) /\ Registering(s)'),
         \A s \in Stream :
           \/ out'[s] = out[s] \/ out'[s] = <<>>
           \/ \E m \in Word : m.topic # "register" /\ out'[s] = Append(out[s], m)
  PROVE  Registration'
BY RegistrationKept

(* A message that leaves its stream was the registration, or there was none.*)
LEMMA CarryEndsRegistration ==
  ASSUME Writes, Registration, NEW s \in Stream, Carry(s)
  PROVE  Registration'
<1>1. /\ out[s] \in Seq(Word) /\ out[s] # <<>>
      /\ \A t \in Stream : t # s => out'[t] = out[t]
      /\ out'[s] = Tail(out[s])
  BY CarryShrinks DEF Writes, Carry
<1>2. /\ Len(out[s]) \in Nat /\ DOMAIN out[s] = 1 .. Len(out[s])
      /\ DOMAIN out'[s] = 1 .. Len(out[s]) - 1
      /\ \A n \in 1 .. Len(out[s]) - 1 : out'[s][n] = out[s][n + 1]
      /\ out'[s] = <<>> \/ 1 \in DOMAIN out'[s]
  <2>1. /\ out'[s] \in Seq(Word) /\ Len(out'[s]) = Len(out[s]) - 1
        /\ \A n \in 1 .. Len(out[s]) - 1 : out'[s][n] = out[s][n + 1]
    BY <1>1, HeadTailProperties
  <2>2. Len(out[s]) \in Nat /\ DOMAIN out[s] = 1 .. Len(out[s])
        /\ DOMAIN out'[s] = 1 .. Len(out'[s]) /\ Len(out'[s]) \in Nat
    BY <1>1, <2>1, LenProperties
  <2>3. out'[s] # <<>> => Len(out'[s]) # 0
    BY <2>1, EmptySeq
  <2> QED BY <2>1, <2>2, <2>3
<1>3. \A n \in DOMAIN out'[s] : out'[s][n].topic # "register"
  BY <1>2 DEF Registration
<1>4. \A t \in Stream : ~Registering(t)'
  <2>1. ~Registering(s)'
    BY <1>2, <1>3 DEF Registering
  <2>2. ASSUME NEW t \in Stream, t # s, Registering(t)' PROVE FALSE
    <3>1. Registering(t)
      BY <1>1, <2>2 DEF Registering
    <3> QED BY <1>1, <2>2, <3>1 DEF Registration, Alone
  <2> QED BY <2>1, <2>2
<1> QED BY <1>1, <1>3, <1>4 DEF Registration

(* What a write adds. *)
LEMMA SendAdds ==
  ASSUME Writes, ClientCore', NEW m \in Word, m.topic # "register", Send(m) \/ SendNothing
  PROVE  \A s \in Stream :
           \/ out'[s] = out[s] \/ out'[s] = <<>>
           \/ \E w \in Word : w.topic # "register" /\ out'[s] = Append(out[s], w)
BY NextSocket DEF Send, SendNothing, Writes

(* A DISCONNECT is not a registration.                                      *)
LEMMA DisconnectAdds ==
  ASSUME Writes, ClientCore, SendDisconnect
  PROVE  \A s \in Stream :
           \/ out'[s] = out[s] \/ out'[s] = <<>>
           \/ \E w \in Word : w.topic # "register" /\ out'[s] = Append(out[s], w)
<1>1. Plain("disconnect") \in Word /\ Plain("disconnect").topic # "register"
  BY DEF Plain, Word
<1> QED BY <1>1 DEF SendDisconnect, Writes

(* A step of another stream leaves a registering stream alone.              *)
LEMMA AloneKept ==
  ASSUME NEW s \in Stream, Alone(s), UNCHANGED <<socket, cut, conn, down, idMap>>, retries' = {},
         astate' # "inited", \A t \in Stream : Live(t)' => Live(t),
         \A t \in Stream : t # s => out'[t] = out[t]
  PROVE  Alone(s)'
BY DEF Alone, M!HasPrimary

(* Every step of the process keeps a registration under way alone.          *)
LEMMA StepsKeepRegistration ==
  ASSUME Sound, Registry, ClientCore', ProcessSteps PROVE Registration'
<1>0. /\ Registration /\ Writes /\ ClientCore /\ token = FALSE
      /\ UNCHANGED <<conn, idMap, cut, down>>
  BY DEF ProcessSteps, Sound, Registry, Inited, masterVars
<1>1. AgentConnect => Registration'
  <2>1. AgentConnect => \A s \in Stream : ~Registering(s)
    BY <1>0 DEF AgentConnect, Registration, Alone
  <2> QED BY <1>0, <2>1, StillNone DEF AgentConnect, agentVars
<1>2. ~TokenReady
  BY <1>0 DEF TokenReady
<1>3. ASSUME NEW m \in Word, m.topic # "register", Send(m), UNCHANGED clientVars,
             astate' = astate
      PROVE  Registration'
  <2>1. \A s \in Stream : s # socket => out'[s] = out[s]
    BY <1>0, <1>3, SendIsLocal DEF clientVars
  <2>2. \A s \in Stream : Alone(s) => Alone(s)'
    BY <1>0, <1>3, <2>1, AloneKept DEF Alone, clientVars, Live
  <2> QED BY <1>0, <1>3, <2>2, SendAdds, RegistrationKept
<1>4. Notify \/ Request => Registration'
  <2>1. Plain("notify") \in Word /\ Plain("notify").topic # "register"
    BY DEF Plain, Word
  <2>2. Request => notified' \in Nat
    BY <1>0 DEF Request, Writes
  <2>3. ASSUME notified' \in Nat
        PROVE  /\ [topic |-> "request", id |-> notified'] \in Word
               /\ [topic |-> "request", id |-> notified'].topic # "register"
    BY <2>3 DEF Word
  <2> QED BY <1>3, <2>1, <2>2, <2>3 DEF Notify, Request
<1>5. AgentClose => Registration'
  <2> SUFFICES ASSUME AgentClose PROVE Registration'
    OBVIOUS
  <2>1. UNCHANGED <<socket, retries, stream>> /\ astate' = "closed" /\ SendDisconnect
    BY DEF AgentClose, Disconnect, CloseClient
  <2>2. \A s \in Stream : s # socket => out'[s] = out[s]
    BY <1>0, <2>1, DisconnectIsLocal
  <2>3. \A s \in Stream : Alone(s) => Alone(s)'
    BY <1>0, <2>1, <2>2, AloneKept DEF Alone, Live
  <2> QED BY <1>0, <2>1, <2>3, DisconnectAdds, RegistrationKept
<1>6. ASSUME UNCHANGED <<socket, retries, stream>>, UNCHANGED agentVars PROVE Registration'
  <2>1. \A s \in Stream : Alone(s) => Alone(s)'
    BY <1>0, <1>6, AloneKept DEF Alone, agentVars, Live
  <2> QED BY <1>0, <1>6, <2>1, RegistrationKept DEF agentVars
<1>7. TimeoutFires => UNCHANGED <<socket, retries, stream>>
  BY <1>0 DEF TimeoutFires, ClientCore, OnlyFirstAttemptIsTimed, NoneLeftOver
<1>8. \A k \in intervals : SendPing(k) => UNCHANGED <<socket, retries, stream>>
  BY DEF SendPing
<1>9. ASSUME NEW n \in retries, RetryFires(n), UNCHANGED agentVars PROVE Registration'
  <2>1. \A s \in Stream : ~Registering(s)
    BY <1>0 DEF Registration, Alone
  <2> QED BY <1>0, <1>9, <2>1, StillNone DEF agentVars
<1>10. ASSUME NEW k \in intervals, socket \in cut, AgentKeepAliveTimeout(k) PROVE Registration'
  <2>1. \A s \in Stream : ~Registering(s)
    BY <1>0, <1>10 DEF Registration, Alone
  <2> QED BY <1>0, <1>10, <2>1, StillNone, DisconnectAdds DEF AgentKeepAliveTimeout
<1>11. ASSUME NEW r \in Req, HandlerDone(r) PROVE Registration'
  <2>1. /\ [topic |-> "response", id |-> r] \in Word
        /\ [topic |-> "response", id |-> r].topic # "register"
    BY DEF Word, Req
  <2> QED BY <1>3, <1>11, <2>1 DEF HandlerDone
<1> QED
  BY <1>1, <1>2, <1>4, <1>5, <1>6, <1>7, <1>8, <1>9, <1>10, <1>11, ProcessCases

(* A list of one message.                                                   *)
LEMMA OneMessage ==
  ASSUME NEW x
  PROVE  Append(<<>>, x) = <<x>> /\ Tail(<<x>>) = <<>> /\ Head(<<x>>) = x
OBVIOUS

(* A CONNACK begins a registration, when the agent is new; no other message *)
(* does.                                                                    *)
LEMMA DeliveriesKeepRegistration ==
  ASSUME Sound, Registry, ClientCore', ~AsyncToken, NEW s \in Stream, ProcessHandles(s)
  PROVE  Registration'
<1>0. /\ Registration /\ Links /\ Inited /\ Writes /\ ClientCore /\ ClientTypeOK /\ Packets
      /\ UNCHANGED <<conn, idMap, cut>> /\ down[s] # <<>> /\ s \notin cut /\ Live(s)
      /\ conn[s] # "idle" /\ down' = [down EXCEPT ![s] = Tail(@)]
  BY CarryingIsLive DEF ProcessHandles, masterVars, Sound, Registry, ClientCore, Links
<1>1. \A t \in Stream : ~Registering(t)
  BY <1>0 DEF Registration, Alone
<1>2. SendNothing => Registration'
  BY <1>0, <1>1, StillNone DEF SendNothing
<1>3. ASSUME NEW m \in Word, m.topic # "register", Send(m) PROVE Registration'
  BY <1>0, <1>1, <1>3, SendAdds, StillNone
<1>4. OnRegister(s, TRUE) \/ OnRegister(s, FALSE) \/ OnReconnectOk(s, TRUE)
      \/ OnReconnectOk(s, FALSE)
      \/ AgentDisconnectPacket(s) \/ OnAnswer(s, Head(down[s]).id) => Registration'
  BY <1>2 DEF OnRegister, OnReconnectOk, AgentDisconnectPacket, OnAnswer, SendNothing
<1>5. Delivers(s, "monitor") /\ OnRequest(s, Head(down[s]).id) => Registration'
  <2>1. Delivers(s, "monitor") => [topic |-> "response", id |-> Head(down[s]).id] \in Word
    BY Words DEF Delivers, Packet
  <2> QED BY <1>2, <1>3, <2>1 DEF OnRequest
<1>6. ASSUME AgentConnack(s) PROVE Registration'
  <2>1. CASE connected
    BY <1>2, <1>6, <2>1 DEF AgentConnack
  <2>2. CASE ~connected /\ connectedTimes # 1
    <3>1. Plain("reconnect") \in Word /\ Plain("reconnect").topic # "register"
      BY DEF Plain, Word
    <3> QED BY <1>3, <1>6, <2>2, <3>1 DEF AgentConnack, OnReconnect
  <2>3. CASE ~connected /\ connectedTimes = 1 /\ astate # "inited"
    BY <1>2, <1>6, <2>3 DEF AgentConnack, OnConnect
  <2>4. CASE ~connected /\ connectedTimes = 1 /\ astate = "inited"
    <3>1. /\ s = socket /\ s # 0 /\ retries = {}
          /\ \A t \in Stream \ {s} : ~Live(t)
      BY <1>0, <1>6, <2>4 DEF AgentConnack, Connack, ClientCore, FirstTry, Live, Stream
    <3>2. /\ down[s] = <<Msg("connack", 0)>> /\ ~M!HasPrimary(Id)
          /\ \A t \in Stream : out[t] = <<>>
      BY <1>0, <2>4 DEF Inited
    <3>3. down'[s] = <<>>
      BY <1>0, <3>2 DEF Packets
    <3>4. /\ astate' = "connected" /\ socket' = s /\ retries' = {}
          /\ stream' = [stream EXCEPT ![s] = "open"] /\ Send(Plain("register"))
      BY <1>6, <2>4, <3>1 DEF AgentConnack, Connack, SetupKeepAlive, OnConnect
    <3>5. out' = [out EXCEPT ![s] = Append(@, Plain("register"))]
      BY <3>1, <3>4 DEF Send
    <3>6. /\ out'[s] = <<Plain("register")>>
          /\ \A t \in Stream \ {s} : out'[t] = <<>>
      BY <1>0, <3>2, <3>5, OneMessage DEF Writes
    <3>7. \A t \in Stream \ {s} : ~Live(t)'
      BY <1>0, <3>1, <3>4 DEF Live, ClientTypeOK
    <3>8. Alone(s)'
      BY <1>0, <3>2, <3>3, <3>4, <3>6, <3>7 DEF Alone, M!HasPrimary
    <3> QED BY <3>6, <3>8 DEF Registration, Registering
  <2> QED BY <2>1, <2>2, <2>3, <2>4
<1> QED BY <1>0, <1>4, <1>5, <1>6, DeliveryCases

(* A registration under way ends by its arrival, by a cut or by a death.     *)
LEMMA NextRegistration ==
  ASSUME Sound, Registry, ClientCore', ~AsyncToken, SessionNext
  PROVE  Registration'
<1>0. Registration /\ Links /\ Owns /\ Writes /\ ClientCore /\ Packets
  BY DEF Sound, Registry
<1>1. ASSUME UNCHANGED <<out, socket, cut, conn, down, retries, astate, stream>>,
             M!HasPrimary(Id)' => M!HasPrimary(Id)
      PROVE  Registration'
  BY <1>0, <1>1 DEF Registration, Registering, Alone, Live
<1>2. ProcessDies => Registration'
  BY <1>1 DEF ProcessDies, agentVars, masterVars, M!HasPrimary
<1>3. ASSUME ProcessStarts \/ MasterReboots PROVE Registration'
  <2>1. out' = [s \in Stream |-> <<>>]
    BY <1>3 DEF ProcessStarts, MasterReboots
  <2> QED BY <2>1 DEF Registration, Registering
<1>4. MasterListen => Registration'
  BY <1>1 DEF MasterListen, M!Listen, M!registry, M!links, M!HasPrimary, vars, clientVars,
     agentVars
<1>5. ASSUME MasterRequest PROVE Registration'
  <2>1. UNCHANGED <<out, socket, cut, conn, retries, astate, stream, idMap>>
    BY <1>5 DEF MasterRequest, M!Request, M!registry, M!links, vars, clientVars, agentVars
  <2>2. ~M!HasPrimary(Id) => down' = down
    BY <1>5 DEF MasterRequest
  <2> QED BY <1>0, <2>1, <2>2 DEF Registration, Registering, Alone, Live, M!HasPrimary
<1>6. ASSUME NEW s \in Stream, MasterAccepts(s) PROVE Registration'
  <2>1. /\ UNCHANGED <<out, socket, cut, retries, astate, stream, idMap>> /\ conn[s] = "idle"
        /\ \A t \in Stream \ {s} : conn'[t] = conn[t] /\ down'[t] = down[t]
    BY <1>0, <1>6 DEF MasterAccepts, M!Connection, M!registry, vars, clientVars, agentVars,
       Reply, Packets, Owns
  <2>2. \A t \in Stream : Registering(t) => t # s
    BY <1>0, <2>1 DEF Registration, Alone
  <2> QED BY <1>0, <2>1, <2>2 DEF Registration, Registering, Alone, Live, M!HasPrimary
<1>7. ASSUME NEW s \in Stream, MasterHandles(s) \/ LosesWrite(s) PROVE Registration'
  <2>1. Carry(s)
    BY <1>7 DEF MasterHandles, MasterOnRegister, MasterOnReconnect, MasterOnDisconnect,
       MasterOnResponse, MasterOnNotify, MasterOnRequest, Arrives, LosesWrite
  <2> QED BY <1>0, <2>1, CarryEndsRegistration
<1>8. ASSUME NEW s \in Stream, MasterSeesEnd(s) PROVE Registration'
  <2>1. /\ UNCHANGED <<out, socket, cut, retries, astate, stream, down>> /\ s \in cut
        /\ M!HasPrimary(Id)' => M!HasPrimary(Id)
        /\ \A t \in Stream \ {s} : conn'[t] = conn[t]
    BY <1>0, <1>8, EndForgets DEF MasterSeesEnd, vars, clientVars, agentVars
  <2>2. \A t \in Stream : Registering(t) => t # s
    BY <1>0, <2>1 DEF Registration, Alone
  <2> QED BY <1>0, <2>1, <2>2 DEF Registration, Registering, Alone, Live
<1>9. ASSUME NEW s \in Stream, ProcessSeesEnd(s) PROVE Registration'
  <2>1. s \in cut /\ Live(s) /\ out' = out
    BY <1>9 DEF ProcessSeesEnd, StreamEnds, Live, agentVars
  <2>2. \A t \in Stream : ~Registering(t)
    BY <1>0, <2>1 DEF Registration, Alone
  <2> QED BY <1>0, <2>1, <2>2, StillNone
<1>10. ASSUME NEW s \in Stream, ProcessPonged(s) PROVE Registration'
  BY <1>1, <1>10 DEF ProcessPonged, Pingresp, agentVars, masterVars, M!HasPrimary
<1>11. ASSUME NEW s \in Stream, Cut(s) PROVE Registration'
  <2>1. Live(s) /\ out' = [out EXCEPT ![s] = <<>>]
    BY <1>11 DEF Cut, Live
  <2>2. \A t \in Stream : Registering(t) => t = s
    BY <1>0, <2>1 DEF Registration, Alone
  <2>3. \A t \in Stream : (out'[t] = out[t] /\ t # s) \/ out'[t] = <<>>
    BY <1>0, <2>1 DEF Writes
  <2> QED BY <1>0, <2>2, <2>3, StillNone DEF Registering
<1> QED
  BY <1>2, <1>3, <1>4, <1>5, <1>6, <1>7, <1>8, <1>9, <1>10, <1>11, StepsKeepRegistration,
     DeliveriesKeepRegistration, SessionCases

-----------------------------------------------------------------------------
(* The invariant of the session *)

(* The invariant holds before the process and the master are started.       *)
LEMMA SessionStarts == ASSUME SessionInit PROVE Sound /\ Registry
<1>1. Packets /\ Ids /\ Writes
  <2>1. <<>> \in Seq(Packet) /\ <<>> \in Seq(Word)
    BY EmptySeq
  <2>2. /\ down = [s \in Stream |-> <<>>] /\ out = [s \in Stream |-> <<>>]
        /\ reqId = 1 /\ msgMap = [i \in {Id} |-> {}] /\ notified = 0 /\ restarts = 0
    BY DEF SessionInit, Init, M!Init
  <2> QED BY <2>1, <2>2 DEF Packets, Ids, Writes
<1>2. ClientCore
  BY InitClientInv DEF SessionInit, Init, ClientInv
<1>3. /\ idMap = [i \in {Id} |-> M!NoRecord] /\ slaveMap = [i \in {Id} |-> <<>>] /\ auth = {}
      /\ conn = [s \in Stream |-> "idle"] /\ msock = [s \in Stream |-> M!FreshSocket]
      /\ cut = {} /\ down = [s \in Stream |-> <<>>] /\ out = [s \in Stream |-> <<>>]
      /\ stream = [s \in Stream |-> "unused"] /\ socket = 0 /\ token = FALSE
      /\ connected = FALSE /\ connectedTimes = 1 /\ handling = [r \in Req |-> 0]
  BY DEF SessionInit, Init, M!Init, ClientInit
<1>4. ~M!HasPrimary(Id)
  BY <1>3 DEF M!HasPrimary
<1>5. Owns
  BY <1>3, <1>4 DEF Owns, M!FreshSocket
<1>6. Links /\ Inited /\ Registration
  BY <1>3, <1>4 DEF Links, Inited, Registration, Registering, M!Open
<1> QED BY <1>1, <1>2, <1>5, <1>6 DEF Sound, Registry

(* The invariant is a predicate of the variables alone.                     *)
LEMMA StutterSession ==
  ASSUME Sound, Registry, UNCHANGED sessionVars
  PROVE  Sound' /\ Registry'
<1>1. /\ UNCHANGED <<clientVars, agentVars, masterVars, down, cut, restarts>>
  BY DEF sessionVars, vars, faults
<1>2. Packets' /\ Ids' /\ Writes'
  BY <1>1 DEF Sound, Packets, Ids, Writes, agentVars, masterVars
<1>3. ClientCore'
  BY <1>1, StutterClientCore DEF Sound
<1>4. Owns'
  BY <1>1, SameMaster DEF Registry
<1>5. Links' /\ Inited' /\ Registration'
  BY <1>1 DEF Registry, Links, Inited, Registration, Registering, Alone, Live, M!Open,
     M!HasPrimary, agentVars, masterVars, clientVars
<1> QED BY <1>2, <1>3, <1>4, <1>5 DEF Sound, Registry

(* Every step keeps the invariant.                                          *)
LEMMA NextSession ==
  ASSUME ~AsyncToken, PromptClose \/ MaxRestart = 0,
         Sound, Registry, [SessionNext]_sessionVars
  PROVE  Sound' /\ Registry'
<1>1. CASE UNCHANGED sessionVars
  BY <1>1, StutterSession
<1>2. CASE SessionNext
  <2>1. ClientCore'
    BY <1>2, NextSessionClient DEF Sound
  <2>2. Sound'
    BY <1>2, <2>1, NextPackets, NextIds, NextWrites DEF Sound
  <2>3. Owns'
    BY <1>2, NextOwns
  <2>4. Registry'
    BY <1>2, <2>1, <2>3, NextLinks, NextInited, NextRegistration DEF Registry
  <2> QED BY <2>2, <2>4
<1> QED BY <1>1, <1>2

(* What both ends believe, and what is under way between them, fit together *)
(* in every reachable state, as long as authServer answers at once and a    *)
(* process that is started again finds its old connections ended.           *)
THEOREM SessionInvariant ==
  ASSUME ~AsyncToken, PromptClose \/ MaxRestart = 0
  PROVE  SafeSpec => [](Sound /\ Registry)
<1>1. SessionInit => Sound /\ Registry
  BY SessionStarts
<1>2. Sound /\ Registry /\ [SessionNext]_sessionVars => (Sound /\ Registry)'
  BY NextSession
<1> QED BY <1>1, <1>2, PTL DEF SafeSpec

(* However streams are cut and the master restarted, the process never      *)
(* becomes a slave of its own earlier connection: it greets with a          *)
(* registration only when nobody holds its id, and a reconnection is        *)
(* refused as long as somebody does.                                        *)
THEOREM ProcessIsNoSlave ==
  ASSUME ~AsyncToken, PromptClose \/ MaxRestart = 0
  PROVE  SafeSpec => []NeverItsOwnSlave
<1>1. Sound /\ Registry => NeverItsOwnSlave
  BY DEF Registry, Owns, NeverItsOwnSlave
<1> QED BY <1>1, SessionInvariant, PTL

(* A greeting that reaches the master comes on a connection that has not    *)
(* been registered, or is a reconnection that is refused: the handlers of   *)
(* masterAgent.js never see the second greeting they do not check for.      *)
THEOREM GreetingsFindTheMasterReady ==
  ASSUME ~AsyncToken, PromptClose \/ MaxRestart = 0
  PROVE  SafeSpec => []GreetingsAreExpected
<1>1. ASSUME Sound, Registry, NEW s \in Stream, M!Open(s), out[s] # <<>>
      PROVE  CASE Head(out[s]).topic = "register"  -> M!MayGreet(s)
               [] Head(out[s]).topic = "reconnect" -> M!HasPrimary(Id) \/ M!MayGreet(s)
               [] OTHER -> TRUE
  <2>1. ~M!HasPrimary(Id) => M!MayGreet(s)
    BY <1>1, RegisteredIsPrimary DEF Registry, Owns, M!MayGreet
  <2>2. Head(out[s]).topic = "register" => ~M!HasPrimary(Id)
    <3>1. Head(out[s]) = out[s][1]
      BY <1>1, HeadTailProperties DEF Sound, Writes
    <3> QED BY <1>1, <3>1 DEF Registry, Registration, Registering, Alone
  <2> QED BY <2>1, <2>2
<1>2. Sound /\ Registry => GreetingsAreExpected
  BY <1>1 DEF GreetingsAreExpected
<1> QED BY <1>2, SessionInvariant, PTL

-----------------------------------------------------------------------------
(* The conversation on the current stream, when handlers and authServer     *)
(* answer at once and the process sends nothing of its own accord           *)

Responses(ms) == \A n \in DOMAIN ms : ms[n].topic = "response"
Monitors(ms) == \A n \in DOMAIN ms : ms[n].topic = "monitor"

(* The stream has been opened; the acknowledgement has not arrived.         *)
Dialing(s) ==
  /\ ~connected /\ stream[s] = "connecting" /\ ~msock[s].registered
  /\ out[s] = <<>> /\ down[s] \in {<<>>, <<Msg("connack", 0)>>}
  /\ connectedTimes = 1 => astate = "inited"

Standing(s) == connected /\ stream[s] = "open" /\ conn[s] # "idle"

(* The greeting is on its way; *)
Greeting(s) ==
  /\ Standing(s) /\ astate = "connected" /\ ~msock[s].registered
  /\ out[s] \in {<<Plain("register")>>, <<Plain("reconnect")>>} /\ down[s] = <<>>

(* the process was admitted, and what is owed follows the verdict;          *)
Admitted(s) ==
  /\ Standing(s) /\ astate = "connected" /\ msock[s].registered
  /\ out[s] = <<>> /\ down[s] # <<>> /\ Head(down[s]).topic \in {"register", "reconnect_ok"}
  /\ Monitors(Tail(down[s]))

(* it was refused, and what it hears changes nothing, but for the kick that *)
(* follows the refusal of a registration;                                   *)
Idle == {"refused", "register_fail", "monitor"} \cup (IF LateEvents THEN {} ELSE {"disconnect"})

Refused(s) ==
  /\ Standing(s) /\ astate \in {"connected", "closed"} /\ ~msock[s].registered
  /\ out[s] = <<>> /\ \A n \in DOMAIN down[s] : down[s][n].topic \in Idle

(* or it knows that it is registered, and answers requests.                 *)
Serving(s) ==
  /\ Standing(s) /\ astate = "registered" /\ msock[s].registered
  /\ Responses(out[s]) /\ Monitors(down[s])

Conv(s) == Dialing(s) \/ Greeting(s) \/ Admitted(s) \/ Refused(s) \/ Serving(s)

(* The process was told to leave the stream, and hears nothing of it again. *)
Shed(s) ==
  /\ ~LateEvents /\ s # socket /\ stream[s] # "unused"
  /\ out[s] = <<>> /\ ~msock[s].registered

ShedKept == \A s \in Stream : Shed(s) => Shed(s)'

(* The process is live on one stream at most, but for those it was told to  *)
(* leave, and unless it is cut, the two ends are in one of these states.    *)
Conversing ==
  \A s \in Stream : Live(s) => Shed(s) \/ (s = socket /\ (s \notin cut => Conv(s)))

(* After close() nothing is opened again. *)
Over == MayClose /\ closed /\ retries = {}

Prompt == \A r \in Req : handling[r] = 0

Talk == Prompt /\ (Over \/ Conversing)

(* What a step leaves of the conversation on s. *)
Undisturbed(s) ==
  /\ UNCHANGED <<connected, connectedTimes, astate>>
  /\ stream'[s] = stream[s] /\ out'[s] = out[s] /\ down'[s] = down[s]
  /\ msock'[s].registered = msock[s].registered
  /\ conn[s] # "idle" => conn'[s] # "idle"

(* A client opens unused streams only.                                      *)
LEMMA ClientKeepsLeft ==
  ASSUME ClientCore, NEW s \in Stream, stream[s] # "unused", s # socket, [ClientNext]_clientVars
  PROVE  stream'[s] # "unused" /\ s # socket'
<1>0. s # 0 /\ stream \in [Stream -> {"unused", "connecting", "open", "ended"}]
  BY DEF Stream, ClientCore, ClientTypeOK
<1>1. OpenStream => stream'[s] # "unused" /\ s # socket'
  BY <1>0, OpenStreamType
<1>2. UNCHANGED <<stream, socket>> => stream'[s] # "unused" /\ s # socket'
  OBVIOUS
<1>3. OnSocketClose => socket' \in {0, socket}
  BY DEF OnSocketClose, Clear
<1>4. UNCHANGED clientVars => UNCHANGED <<stream, socket>>
  BY DEF clientVars
<1>5. Connect => OpenStream
  BY DEF Connect
<1>6. ASSUME NEW n \in retries, RetryFires(n) PROVE stream'[s] # "unused" /\ s # socket'
  BY <1>1, <1>2, <1>6 DEF RetryFires
<1>7. Disconnect => UNCHANGED <<stream, socket>>
  BY DEF Disconnect, CloseClient
<1>8. TimeoutFires => UNCHANGED <<stream, socket>>
  BY DEF TimeoutFires, ClientCore, OnlyFirstAttemptIsTimed, NoneLeftOver
<1>9. ASSUME NEW u \in Stream, Connack(u) \/ StreamEnds(u) \/ DisconnectPacket(u) \/ Pingresp(u)
      PROVE  stream'[s] # "unused" /\ s # socket'
  BY <1>0, <1>3, <1>9 DEF Connack, StreamEnds, DisconnectPacket, Pingresp
<1>10. ASSUME NEW k \in intervals, SendPing(k) \/ KeepAliveTimeout(k)
       PROVE  UNCHANGED <<stream, socket>>
  BY <1>10 DEF SendPing, KeepAliveTimeout, CloseClient
<1> QED BY <1>1, <1>2, <1>4, <1>5, <1>6, <1>7, <1>8, <1>9, <1>10 DEF ClientNext

(* A stream that the process was told to leave is left.                     *)
LEMMA NextShed ==
  ASSUME Sound, Registry, [SessionNext]_sessionVars
  PROVE  ShedKept
<1> SUFFICES ASSUME NEW s \in Stream, Shed(s) PROVE Shed(s)'
  BY DEF ShedKept
<1>0. /\ Owns /\ Packets /\ Writes /\ ClientCore /\ 0 \notin Stream
      /\ ~LateEvents /\ s # socket /\ stream[s] # "unused" /\ out[s] = <<>>
      /\ ~msock[s].registered
  BY DEF Sound, Registry, Shed, Stream
<1>1. ASSUME out'[s] = <<>>, ~msock'[s].registered, stream'[s] # "unused", s # socket'
      PROVE  Shed(s)'
  BY <1>0, <1>1 DEF Shed
<1>2. CASE UNCHANGED sessionVars
  BY <1>0, <1>1, <1>2 DEF sessionVars, vars, agentVars, clientVars, masterVars
<1>3. ASSUME SessionNext PROVE stream'[s] # "unused" /\ s # socket'
  <2>1. CASE ProcessStarts
    BY <1>0, <2>1 DEF ProcessStarts, Used
  <2>2. CASE ProcessDies
    BY <1>0, <2>2 DEF ProcessDies
  <2>3. CASE [ClientNext]_clientVars
    BY <1>0, <2>3, ClientKeepsLeft
  <2> QED BY <1>0, <1>3, <2>1, <2>2, <2>3, SessionClient
<1>4. ASSUME UNCHANGED msock \/ msock' = [u \in Stream |-> M!FreshSocket] PROVE ~msock'[s].registered
  BY <1>0, <1>4 DEF M!FreshSocket
<1>5. ASSUME ProcessDies \/ ProcessStarts \/ MasterReboots \/ MasterListen \/ MasterRequest
      PROVE  out'[s] = <<>> /\ ~msock'[s].registered
  <2>1. out'[s] = <<>>
    BY <1>0, <1>5 DEF ProcessDies, ProcessStarts, MasterReboots, MasterListen, MasterRequest,
       vars, agentVars
  <2>2. UNCHANGED msock \/ msock' = [u \in Stream |-> M!FreshSocket]
    BY <1>5 DEF ProcessDies, ProcessStarts, MasterReboots, MasterListen, MasterRequest, M!Listen,
       M!Request, M!links, masterVars
  <2> QED BY <1>4, <2>1, <2>2
<1>6. ASSUME ProcessSteps PROVE out'[s] = <<>> /\ ~msock'[s].registered
  <2>1. \A m : Send(m) /\ UNCHANGED clientVars => out'[s] = <<>>
    BY <1>0, SendIsLocal DEF clientVars
  <2>2. SendDisconnect => out'[s] = <<>>
    BY <1>0, DisconnectIsLocal
  <2>3. out'[s] = <<>>
    <3>1. AgentConnect \/ UNCHANGED agentVars => out'[s] = <<>>
      BY <1>0 DEF AgentConnect, agentVars
    <3>2. TokenReady \/ Notify \/ Request => out'[s] = <<>>
      BY <2>1 DEF TokenReady, Notify, Request
    <3>3. AgentClose => out'[s] = <<>>
      BY <2>2 DEF AgentClose
    <3>4. ASSUME NEW k \in intervals, AgentKeepAliveTimeout(k) PROVE out'[s] = <<>>
      BY <2>2, <3>4 DEF AgentKeepAliveTimeout
    <3>5. ASSUME NEW r \in Req, HandlerDone(r) PROVE out'[s] = <<>>
      BY <2>1, <3>5 DEF HandlerDone
    <3> QED BY <1>6, <3>1, <3>2, <3>3, <3>4, <3>5, ProcessCases
  <2> QED BY <1>4, <1>6, <2>3 DEF ProcessSteps, masterVars
<1>7. ASSUME NEW u \in Stream, MasterHandles(u) PROVE out'[s] = <<>> /\ ~msock'[s].registered
  <2>1. Carry(u) /\ out[u] # <<>>
    BY <1>7 DEF MasterHandles, MasterOnRegister, MasterOnReconnect, MasterOnDisconnect,
       MasterOnResponse, MasterOnNotify, MasterOnRequest, Arrives
  <2>2. out'[s] = <<>> /\ u # s
    BY <1>0, <2>1, CarryShrinks
  <2>3. CASE MasterOnRegister(u)
    BY <1>0, <2>2, <2>3, GreetingAdmits, RefusalRecordsNothing DEF MasterOnRegister
  <2>4. CASE MasterOnReconnect(u)
    BY <1>0, <2>2, <2>4, GreetingAdmits DEF MasterOnReconnect, masterVars
  <2>5. CASE MasterOnDisconnect(u)
    BY <1>0, <2>2, <2>5, DisconnectForgets DEF MasterOnDisconnect
  <2>6. CASE MasterOnResponse(u) \/ MasterOnNotify(u) \/ MasterOnRequest(u)
    BY <1>0, <2>2, <2>6 DEF MasterOnResponse, MasterOnNotify, MasterOnRequest, Kick, masterVars,
       M!OnMonitorResponse, M!links
  <2> QED BY <1>7, <2>2, <2>3, <2>4, <2>5, <2>6 DEF MasterHandles
<1>8. ASSUME NEW u \in Stream, ProcessHandles(u) PROVE out'[s] = <<>> /\ ~msock'[s].registered
  <2>1. s # socket'
    BY <1>3, <1>8 DEF SessionNext
  <2>2. \A m : Send(m) \/ SendNothing => out'[s] = <<>>
    BY <1>0, <2>1, SendIsLocal
  <2>3. out' = out => out'[s] = <<>>
    BY <1>0
  <2>4. AgentConnack(u) => out'[s] = <<>>
    BY <2>2 DEF AgentConnack, OnConnect, OnReconnect
  <2>5. \A r : OnRequest(u, r) \/ OnAnswer(u, r) => out'[s] = <<>>
    BY <2>2, <2>3 DEF OnRequest, OnAnswer
  <2>6. \A ok \in BOOLEAN : OnRegister(u, ok) \/ OnReconnectOk(u, ok) => out'[s] = <<>>
    BY <2>3 DEF OnRegister, OnReconnectOk
  <2>7. AgentDisconnectPacket(u) => out'[s] = <<>>
    BY <2>3 DEF AgentDisconnectPacket
  <2>8. out'[s] = <<>>
    BY <1>0, <1>8, <2>4, <2>5, <2>6, <2>7, DeliveryCases
  <2> QED BY <1>4, <1>8, <2>8 DEF ProcessHandles, masterVars
<1>9. ASSUME NEW u \in Stream, MasterAccepts(u) \/ ProcessSeesEnd(u) \/ ProcessPonged(u)
      PROVE  out'[s] = <<>> /\ ~msock'[s].registered
  <2>1. out' = out
    BY <1>9 DEF MasterAccepts, ProcessSeesEnd, ProcessPonged, vars, agentVars
  <2>2. msock' = msock
    BY <1>9 DEF MasterAccepts, M!Connection, ProcessSeesEnd, ProcessPonged, masterVars
  <2> QED BY <1>0, <2>1, <2>2
<1>10. ASSUME NEW u \in Stream, MasterSeesEnd(u) \/ Cut(u) \/ LosesWrite(u)
       PROVE  out'[s] = <<>> /\ ~msock'[s].registered
  <2>1. out'[s] = <<>>
    BY <1>0, <1>10, CarryShrinks DEF MasterSeesEnd, Cut, LosesWrite, vars, agentVars, Writes
  <2>2. CASE msock' = msock
    BY <1>0, <2>1, <2>2
  <2>3. CASE M!StreamClose(u)
    BY <1>0, <2>1, <2>3, EndForgets
  <2> QED BY <1>10, <2>2, <2>3 DEF MasterSeesEnd, Cut, LosesWrite, masterVars
<1>11. CASE SessionNext
  <2>1. out'[s] = <<>> /\ ~msock'[s].registered
    BY <1>5, <1>6, <1>7, <1>8, <1>9, <1>10, <1>11, SessionCases
  <2> QED BY <1>1, <1>3, <1>11, <2>1
<1> QED BY <1>2, <1>11

(* A step that leaves the conversation of the current stream in a state of a*)
(* conversation.                                                            *)
LEMMA TalkGoesOn ==
  ASSUME Conversing, ShedKept, socket' = socket, cut \subseteq cut',
         \A s \in Stream : Live(s)' => Live(s),
         \A s \in Stream :
           s = socket /\ Live(s) /\ s \notin cut' => Undisturbed(s) \/ (Conv(s) => Conv(s)')
  PROVE  Conversing'
<1>1. ASSUME NEW s \in Stream, Undisturbed(s), Conv(s) PROVE Conv(s)'
  <2>1. Standing(s) => Standing(s)'
    BY <1>1 DEF Undisturbed, Standing
  <2>2. Dialing(s) => Dialing(s)'
    BY <1>1 DEF Undisturbed, Dialing
  <2>3. Greeting(s) => Greeting(s)'
    BY <1>1, <2>1 DEF Undisturbed, Greeting
  <2>4. Admitted(s) => Admitted(s)'
    BY <1>1, <2>1 DEF Undisturbed, Admitted
  <2>5. Refused(s) => Refused(s)'
    BY <1>1, <2>1 DEF Undisturbed, Refused
  <2>6. Serving(s) => Serving(s)'
    BY <1>1, <2>1 DEF Undisturbed, Serving
  <2> QED BY <1>1, <2>2, <2>3, <2>4, <2>5, <2>6 DEF Conv
<1> QED BY <1>1 DEF Conversing, ShedKept

(* The same, for a step that leaves everything the conversation reads.      *)
LEMMA SilentStep ==
  ASSUME Conversing, ShedKept, cut \subseteq cut',
         UNCHANGED <<socket, connected, connectedTimes, astate, stream, out, down, conn, msock>>
  PROVE  Conversing'
BY TalkGoesOn DEF Undisturbed, Live

(* Without a live stream there is no conversation.                          *)
LEMMA NoLiveTalks ==
  ASSUME ShedKept, \A s \in Stream : Live(s)' => Shed(s) PROVE Conversing'
BY DEF Conversing, ShedKept

(* A client that is closed for good stays so. *)
LEMMA OverStays ==
  ASSUME ClientCore, Over, [ClientNext]_clientVars
  PROVE  Over'
<1>1. UNCHANGED clientVars => Over'
  BY DEF clientVars, Over
<1>2. ~Connect /\ \A n \in retries : ~RetryFires(n)
  BY DEF Over, Connect
<1>3. Disconnect => Over'
  BY DEF Disconnect, CloseClient, Over
<1>4. TimeoutFires => Over'
  BY DEF TimeoutFires, Over, ClientCore, OnlyFirstAttemptIsTimed
<1>5. ASSUME NEW s \in Stream, Connack(s) \/ StreamEnds(s) \/ DisconnectPacket(s) \/ Pingresp(s)
      PROVE  Over'
  BY <1>5 DEF Connack, SetupKeepAlive, StreamEnds, DisconnectPacket, OnSocketClose, Pingresp, Over
<1>6. ASSUME NEW k \in intervals, SendPing(k) \/ KeepAliveTimeout(k) PROVE Over'
  BY <1>6 DEF SendPing, KeepAliveTimeout, CloseClient, Over
<1> QED BY <1>1, <1>2, <1>3, <1>4, <1>5, <1>6 DEF ClientNext

(* Dialing: a new stream carries nothing yet. *)
LEMMA OpeningTalks ==
  ASSUME Owns, Links, Writes, Packets, ClientCore, ShedKept, OpenStream,
         \A s \in Stream : Live(s) => Shed(s),
         ~connected, connectedTimes = 1 => astate = "inited",
         UNCHANGED <<connected, connectedTimes, astate, out, down, msock, cut>>
  PROVE  Conversing'
<1>1. /\ socket' \in Stream /\ stream[socket'] = "unused"
      /\ stream' = [stream EXCEPT ![socket'] = "connecting"]
  BY OpenStreamType
<1>2. /\ conn[socket'] = "idle" /\ out[socket'] = <<>> /\ down[socket'] = <<>>
      /\ ~msock[socket'].registered
  BY <1>1 DEF Links, Owns, M!Open
<1>3. ASSUME NEW s \in Stream, Live(s)' PROVE s = socket' \/ Shed(s)'
  <2>1. s = socket' \/ Live(s)
    BY <1>1, <1>3 DEF Live, ClientCore, ClientTypeOK
  <2> QED BY <2>1 DEF ShedKept
<1>4. stream'[socket'] = "connecting"
  BY <1>1 DEF ClientCore, ClientTypeOK
<1>5. \A s \in Stream : s = socket' => Dialing(s)'
  BY <1>1, <1>2, <1>4 DEF Dialing
<1> QED BY <1>3, <1>5 DEF Conversing, Conv

(* Every step of the process keeps the conversation.                        *)
LEMMA StepsTalk ==
  ASSUME Sound, Registry, Talk, ShedKept, ~AsyncHandler, MaxNotify = 0, ProcessSteps
  PROVE  Talk'
<1>0. /\ ClientCore /\ Owns /\ Links /\ Inited /\ Writes /\ Packets /\ Prompt
      /\ UNCHANGED <<masterVars, down, cut>> /\ 0 \notin Stream
  BY DEF ProcessSteps, Sound, Registry, Talk, Stream
<1>1. UNCHANGED <<down, cut, conn, msock>>
  BY <1>0 DEF masterVars
<1>2. ASSUME AgentConnect \/ (\E n \in retries : RetryFires(n) /\ UNCHANGED agentVars) PROVE Talk'
  <2>1. /\ UNCHANGED <<connected, connectedTimes, agentVars>>
    BY <1>2 DEF AgentConnect, Connect, RetryFires
  <2>2. AgentConnect => /\ OpenStream /\ ~connected /\ astate = "inited"
                        /\ \A s \in Stream : ~Live(s)
    BY <1>0 DEF AgentConnect, Connect, ClientCore, Begun, Fresh
  <2>3. ASSUME NEW n \in retries, RetryFires(n)
        PROVE  /\ ~Over /\ OpenStream /\ ~connected /\ connectedTimes # 1 /\ socket = 0
    BY <1>0, <2>3 DEF RetryFires, ClientCore, OneRetry, NoneLeftOver, FirstTry, Over
  <2>4. OpenStream /\ ~connected /\ (connectedTimes = 1 => astate = "inited")
    BY <1>2, <2>2, <2>3
  <2>5. \A s \in Stream : Live(s) => Shed(s)
    BY <1>0, <1>2, <2>2, <2>3 DEF Talk, Conversing
  <2>6. Conversing'
    BY <1>0, <1>1, <2>1, <2>4, <2>5, OpeningTalks DEF agentVars
  <2> QED BY <1>0, <2>1, <2>6 DEF Talk, Prompt, agentVars
<1>3. ~TokenReady /\ ~Notify /\ ~Request /\ \A r \in Req : ~HandlerDone(r)
  BY <1>0 DEF TokenReady, Inited, Notify, Request, Writes, HandlerDone, Prompt
<1>4. ASSUME MayClose, AgentClose PROVE Talk'
  <2>1. /\ closed' = TRUE /\ UNCHANGED <<retries, stream, handling, socket>>
    BY <1>4 DEF AgentClose, Disconnect, CloseClient
  <2>2. CASE retries = {}
    BY <1>0, <1>4, <2>1, <2>2 DEF Talk, Over, Prompt
  <2>3. CASE retries # {}
    <3>1. socket = 0 /\ ~Over
      BY <1>0, <2>3 DEF ClientCore, NoneLeftOver, Over
    <3>2. \A s \in Stream : Live(s)' => Shed(s)
      BY <1>0, <2>1, <3>1 DEF Talk, Conversing, Live
    <3> QED BY <1>0, <2>1, <3>2, NoLiveTalks DEF Talk, Prompt
  <2> QED BY <2>2, <2>3
<1>5. ASSUME NEW k \in intervals, socket \in cut, AgentKeepAliveTimeout(k) PROVE Talk'
  <2>1. /\ closed' = TRUE /\ UNCHANGED <<retries, stream, handling, socket>>
    BY <1>5 DEF AgentKeepAliveTimeout, KeepAliveTimeout, CloseClient
  <2>2. Conversing => Conversing'
    BY <1>1, <1>5, <2>1 DEF Conversing, ShedKept, Live
  <2> QED BY <1>0, <2>1, <2>2 DEF Talk, Over, Prompt
<1>6. ASSUME TimeoutFires \/ (\E k \in intervals : SendPing(k)), UNCHANGED agentVars PROVE Talk'
  <2>1. /\ UNCHANGED <<retries, closed, socket, connected, connectedTimes, stream, astate,
                       out, handling>>
    BY <1>0, <1>6 DEF TimeoutFires, SendPing, ClientCore, OnlyFirstAttemptIsTimed, agentVars
  <2>2. Conversing => Conversing'
    BY <1>1, <2>1, SilentStep
  <2> QED BY <1>0, <2>1, <2>2 DEF Talk, Over, Prompt
<1> QED BY <1>2, <1>3, <1>4, <1>5, <1>6, ProcessCases

(* The first message leaves a list; the others move up.                     *)
LEMMA TailShifts ==
  ASSUME NEW S, NEW q \in Seq(S), q # <<>>
  PROVE  /\ 1 \in DOMAIN q /\ Head(q) = q[1]
         /\ \A n \in DOMAIN Tail(q) : /\ n \in Int /\ n + 1 # 1 /\ n + 1 \in DOMAIN q
                                      /\ Tail(q)[n] = q[n + 1]
<1>1. Len(q) \in Nat \ {0} /\ DOMAIN q = 1 .. Len(q)
  BY EmptySeq, LenProperties
<1>2. /\ Tail(q) \in Seq(S) /\ Len(Tail(q)) = Len(q) - 1 /\ Head(q) = q[1]
      /\ \A n \in 1 .. Len(Tail(q)) : Tail(q)[n] = q[n + 1]
  BY HeadTailProperties
<1>3. DOMAIN Tail(q) = 1 .. Len(Tail(q))
  BY <1>2, LenProperties
<1> QED BY <1>1, <1>2, <1>3

(* The process hears its current stream, or all of them.                    *)
LEMMA DeliveredIsHeard ==
  ASSUME Packets, NEW s \in Stream, ProcessHandles(s)
  PROVE  LateEvents \/ s = socket
<1>1. AgentConnack(s) => Reports(s)
  BY DEF AgentConnack, Connack
<1>2. AgentDisconnectPacket(s) => Reports(s)
  BY DEF AgentDisconnectPacket, DisconnectPacket
<1>3. \A ok \in BOOLEAN : OnRegister(s, ok) \/ OnReconnectOk(s, ok) => Reports(s)
  BY DEF OnRegister, OnReconnectOk, Receives
<1>4. \A r : OnRequest(s, r) \/ OnAnswer(s, r) => Reports(s)
  BY DEF OnRequest, OnAnswer, Receives
<1>5. Reports(s)
  BY <1>1, <1>2, <1>3, <1>4, DeliveryCases
<1> QED BY <1>5 DEF Reports

(* A message that reaches the process takes the conversation to its next    *)
(* state.                                                                   *)
LEMMA DeliveriesTalk ==
  ASSUME Sound, Registry, Talk, ShedKept, ~AsyncToken, ~AsyncHandler, NEW s \in Stream,
         ProcessHandles(s)
  PROVE  Talk'
<1>0. /\ ClientCore /\ ClientTypeOK /\ Links /\ Writes /\ Packets /\ Prompt
      /\ UNCHANGED <<masterVars, cut>> /\ down[s] # <<>> /\ s \notin cut /\ Live(s)
      /\ conn[s] # "idle" /\ down' = [down EXCEPT ![s] = Tail(@)] /\ s # 0
  BY CarryingIsLive DEF ProcessHandles, masterVars, Sound, Registry, ClientCore, Links, Talk,
     Stream
<1>1. Prompt'
  <2>1. AgentConnack(s) \/ OnRegister(s, TRUE) \/ OnRegister(s, FALSE)
        \/ OnReconnectOk(s, TRUE) \/ OnReconnectOk(s, FALSE) \/ AgentDisconnectPacket(s)
        => handling' = handling
    BY DEF AgentConnack, OnRegister, OnReconnectOk, AgentDisconnectPacket
  <2>2. OnRequest(s, Head(down[s]).id) \/ OnAnswer(s, Head(down[s]).id) => handling' = handling
    BY DEF OnRequest, OnAnswer
  <2> QED BY <1>0, <2>1, <2>2, DeliveryCases DEF Prompt
<1>2. CASE Over
  <2>1. [ClientNext]_clientVars
    BY <1>0, DeliveryClient
  <2> QED BY <1>0, <1>1, <1>2, <2>1, OverStays DEF Talk
<1>3. CASE Conversing
  <2>1. s = socket /\ Conv(s)
    BY <1>0, <1>3, DeliveredIsHeard DEF Conversing, Shed
  <2>2. ASSUME \A t \in Stream : t # s => stream'[t] = stream[t],
               \/ socket' = socket /\ Conv(s)'
               \/ Shed(s)'
        PROVE  Conversing'
    <3>1. \A t \in Stream : t # s /\ Live(t)' => Shed(t)'
      BY <1>3, <2>1, <2>2 DEF Conversing, Live, ShedKept
    <3> QED BY <2>1, <2>2, <3>1 DEF Conversing
  <2>3. down'[s] = Tail(down[s]) /\ UNCHANGED <<msock, conn>>
    BY <1>0 DEF Packets, masterVars
  <2>4. ASSUME AgentConnack(s) PROVE Conversing'
    <3>1. Dialing(s)
      BY <2>1, <2>4 DEF AgentConnack, Connack, Conv, Greeting, Admitted, Refused, Serving, Standing
    <3>2. /\ connected' = TRUE /\ socket' = s /\ stream' = [stream EXCEPT ![s] = "open"]
          /\ astate' = "connected" /\ (Send(Plain("register")) \/ Send(Plain("reconnect")))
      BY <2>1, <2>4, <3>1 DEF AgentConnack, Connack, Dialing, OnConnect, OnReconnect
    <3>3. out'[s] \in {<<Plain("register")>>, <<Plain("reconnect")>>} /\ down'[s] = <<>>
      <4>1. down[s] = <<Msg("connack", 0)>> /\ out[s] = <<>>
        BY <1>0, <3>1 DEF Dialing
      <4>2. \E m \in {Plain("register"), Plain("reconnect")} :
              out' = [out EXCEPT ![s] = Append(@, m)]
        BY <1>0, <3>2 DEF Send
      <4> QED BY <1>0, <2>3, <4>1, <4>2, OneMessage DEF Writes
    <3>4. Greeting(s)'
      BY <1>0, <2>3, <3>1, <3>2, <3>3 DEF Greeting, Standing, Dialing, ClientTypeOK
    <3> QED BY <2>1, <2>2, <3>2, <3>4, <1>0 DEF Conv, ClientTypeOK
  <2>5. ASSUME UNCHANGED <<connected, socket, stream>>,
               Greeting(s)' \/ Admitted(s)' \/ Refused(s)' \/ Serving(s)'
        PROVE  Conversing'
    BY <2>2, <2>5 DEF Conv
  <2>6. /\ 1 \in DOMAIN down[s] /\ Head(down[s]) = down[s][1]
        /\ \A n \in DOMAIN down'[s] : n + 1 \in DOMAIN down[s] /\ down'[s][n] = down[s][n + 1]
    <3>1. down[s] \in Seq(Packet) /\ down[s] # <<>>
      BY <1>0 DEF Packets
    <3> QED BY <2>3, <3>1, TailShifts
  <2>7. ASSUME Refused(s), stream'[s] = "open", out'[s] = out[s], connected' = connected,
               astate' \in {astate, "closed"}
        PROVE  Refused(s)'
    <3>1. Standing(s)'
      BY <1>0, <2>3, <2>7 DEF Refused, Standing
    <3>2. \A n \in DOMAIN down'[s] : down'[s][n].topic \in Idle
      BY <2>6, <2>7 DEF Refused
    <3> QED BY <2>3, <2>7, <3>1, <3>2 DEF Refused
  <2>8. ASSUME \/ OnRegister(s, TRUE) /\ Delivers(s, "register")
               \/ OnReconnectOk(s, TRUE) /\ Delivers(s, "reconnect_ok")
        PROVE  Conversing'
    <3>1. /\ stream[s] = "open" /\ UNCHANGED <<connected, socket, stream, out>>
          /\ astate' = "registered" /\ Head(down[s]).topic \in {"register", "reconnect_ok"}
      BY <2>8 DEF OnRegister, OnReconnectOk, Receives, clientVars, Delivers
    <3>2. Admitted(s)
      <4>1. ~Dialing(s) /\ ~Greeting(s)
        BY <1>0, <3>1 DEF Dialing, Greeting
      <4>2. ~Refused(s)
        BY <2>6, <3>1 DEF Refused, Idle
      <4>3. ~Serving(s)
        BY <2>6, <3>1 DEF Serving, Monitors
      <4> QED BY <2>1, <4>1, <4>2, <4>3 DEF Conv
    <3>3. Serving(s)'
      BY <2>3, <3>1, <3>2 DEF Serving, Admitted, Standing, Responses, Monitors
    <3> QED BY <2>5, <3>1, <3>3
  <2>9. ASSUME Head(down[s]).topic \in {"refused", "register_fail", "answer", "disconnect"}
        PROVE  Refused(s) /\ Head(down[s]).topic \in Idle
    <3>1. ~Dialing(s) /\ ~Greeting(s) /\ ~Admitted(s)
      BY <1>0, <2>9 DEF Dialing, Greeting, Admitted, Msg
    <3>2. ~Serving(s)
      BY <2>6, <2>9 DEF Serving, Monitors
    <3> QED BY <2>1, <2>6, <3>1, <3>2 DEF Conv, Refused
  <2>10. ASSUME \/ OnReconnectOk(s, FALSE) /\ Delivers(s, "refused")
                \/ OnRegister(s, FALSE) /\ Delivers(s, "register_fail")
         PROVE  Conversing'
    <3>1. /\ stream[s] = "open" /\ UNCHANGED <<connected, socket, stream, out, astate>>
          /\ Head(down[s]).topic \in {"refused", "register_fail"}
      BY <2>10 DEF OnReconnectOk, OnRegister, Receives, clientVars, Delivers
    <3> QED BY <2>5, <2>7, <2>9, <3>1
  <2>11. ASSUME Delivers(s, "monitor"), OnRequest(s, Head(down[s]).id), Refused(s)
         PROVE  Conversing'
    <3>1. /\ stream[s] = "open" /\ UNCHANGED <<connected, socket, stream, astate>> /\ out' = out
      BY <2>11 DEF OnRequest, Receives, clientVars, SendNothing, Refused
    <3> QED BY <2>5, <2>7, <2>11, <3>1
  <2>12. ASSUME Delivers(s, "monitor"), OnRequest(s, Head(down[s]).id), ~Refused(s)
         PROVE  Conversing'
    <3>1. /\ stream[s] = "open" /\ UNCHANGED <<connected, socket, stream, astate>>
          /\ Head(down[s]).topic = "monitor" /\ Head(down[s]).id \in Nat
      BY <2>12 DEF OnRequest, Receives, clientVars, Delivers, Packet
    <3>2. Serving(s)
      BY <1>0, <2>1, <2>12, <3>1 DEF Conv, Dialing, Greeting, Admitted, Msg
    <3>3. Monitors(down'[s])
      <4>1. down[s] \in Seq(Packet) /\ down[s] # <<>>
        BY <1>0 DEF Packets
      <4>2. /\ DOMAIN down[s] = 1 .. Len(down[s]) /\ DOMAIN Tail(down[s]) = 1 .. Len(down[s]) - 1
            /\ \A n \in 1 .. Len(down[s]) - 1 : Tail(down[s])[n] = down[s][n + 1]
            /\ Len(down[s]) \in Nat
        BY <4>1, HeadTailProperties, LenProperties
      <4> QED BY <2>3, <3>2, <4>2 DEF Serving, Monitors
    <3>4. Responses(out'[s])
      <4> DEFINE m == [topic |-> "response", id |-> Head(down[s]).id]
      <4>1. m \in Word /\ out[s] \in Seq(Word)
        BY <1>0, <3>1, Words DEF Writes
      <4>2. out' = [out EXCEPT ![s] = Append(@, m)]
        BY <1>0, <2>1, <2>12, <3>1, <3>2 DEF OnRequest, Send, Serving
      <4>3. out'[s] = Append(out[s], m)
        BY <1>0, <4>2 DEF Writes
      <4>4. /\ DOMAIN out'[s] = 1 .. Len(out[s]) + 1 /\ DOMAIN out[s] = 1 .. Len(out[s])
            /\ \A n \in 1 .. Len(out[s]) : out'[s][n] = out[s][n]
            /\ out'[s][Len(out[s]) + 1] = m /\ Len(out[s]) \in Nat
        BY <4>1, <4>3, AppendProperties, LenProperties
      <4> QED BY <3>2, <4>4 DEF Serving, Responses
    <3>5. Serving(s)'
      BY <2>3, <3>1, <3>2, <3>3, <3>4 DEF Serving, Standing
    <3> QED BY <2>5, <3>1, <3>5
  <2>13. ~Delivers(s, "answer")
    BY <2>9 DEF Delivers, Idle
  <2>14. ASSUME Delivers(s, "disconnect"), AgentDisconnectPacket(s) PROVE Conversing'
    <3>1. Refused(s) /\ ~LateEvents
      BY <2>9, <2>14 DEF Delivers, Idle
    <3>2. stream[s] = "open" /\ UNCHANGED <<stream, out>> /\ astate' = "closed"
      BY <2>14 DEF AgentDisconnectPacket, DisconnectPacket
    <3>3. CASE closed
      <4>1. UNCHANGED <<connected, socket>>
        BY <2>14, <3>3 DEF AgentDisconnectPacket, DisconnectPacket, OnSocketClose
      <4> QED BY <2>5, <2>7, <3>1, <3>2, <4>1
    <3>4. CASE ~closed
      <4>1. socket' = 0
        BY <2>14, <3>4 DEF AgentDisconnectPacket, DisconnectPacket, OnSocketClose, Clear
      <4>2. Shed(s)'
        BY <1>0, <2>3, <3>1, <3>2, <4>1 DEF Shed, Refused
      <4> QED BY <2>2, <3>2, <4>2
    <3> QED BY <3>3, <3>4
  <2> QED BY <1>0, <1>1, <2>4, <2>8, <2>10, <2>11, <2>12, <2>13, <2>14, DeliveryCases DEF Talk
<1> QED BY <1>2, <1>3 DEF Talk

(* A message that arrives comes from the current stream. *)
LEMMA ArrivingTalks ==
  ASSUME Sound, Registry, Conversing, NEW s \in Stream, NEW t, Arrives(s, t)
  PROVE  /\ Live(s) /\ s = socket /\ s \notin cut /\ Head(out[s]).topic = t
         /\ out[s] # <<>> /\ out[s] \in Seq(Word)
         /\ \/ /\ Greeting(s) /\ out'[s] = <<>>
               /\ t \in {"register", "reconnect"}
            \/ /\ Serving(s) /\ Responses(out'[s]) /\ t = "response"
         /\ \A u \in Stream \ {s} : out'[u] = out[u]
         /\ UNCHANGED <<clientVars, astate, handling, cut>>
<1>1. /\ s \notin cut /\ out[s] # <<>> /\ Head(out[s]).topic = t /\ Carry(s)
      /\ out[s] \in Seq(Word) /\ Live(s) /\ cut' = cut
  <2>1. conn[s] # "idle"
    BY DEF Arrives, M!Open
  <2> QED BY <2>1, CarryingIsLive DEF Arrives, Sound, Registry, Writes, ClientCore
<1>2. s = socket /\ Conv(s)
  BY <1>1 DEF Conversing, Shed
<1>3. /\ Len(out[s]) \in Nat /\ DOMAIN out[s] = 1 .. Len(out[s]) /\ 1 \in DOMAIN out[s]
      /\ Head(out[s]) = out[s][1] /\ out'[s] = Tail(out[s])
      /\ DOMAIN out'[s] = 1 .. Len(out[s]) - 1
      /\ \A n \in 1 .. Len(out[s]) - 1 : out'[s][n] = out[s][n + 1]
  <2>1. out'[s] = Tail(out[s])
    BY <1>1 DEF Carry, Sound, Writes
  <2>2. Len(out[s]) # 0
    BY <1>1, EmptySeq
  <2> QED BY <1>1, <2>1, <2>2, HeadTailProperties, LenProperties
<1>4. CASE Greeting(s)
  <2>1. out[s] \in {<<Plain("register")>>, <<Plain("reconnect")>>}
    BY <1>4 DEF Greeting
  <2>2. out'[s] = <<>> /\ Head(out[s]) \in {Plain("register"), Plain("reconnect")}
    BY <1>3, <2>1, OneMessage
  <2>3. t \in {"register", "reconnect"}
    BY <1>1, <2>2 DEF Plain
  <2> QED BY <1>1, <1>2, <1>4, <2>2, <2>3, CarryShrinks DEF Carry, Sound
<1>5. CASE Serving(s)
  <2>1. t = "response" /\ Responses(out'[s])
    BY <1>1, <1>3, <1>5 DEF Serving, Responses
  <2> QED BY <1>1, <1>2, <1>5, <2>1, CarryShrinks DEF Carry, Sound
<1> QED BY <1>1, <1>2, <1>4, <1>5 DEF Conv, Dialing, Admitted, Refused

(* A list with a message put before it.                                     *)
LEMMA FirstOfConcat ==
  ASSUME NEW S, NEW x \in S, NEW t \in Seq(S)
  PROVE  <<x>> \o t # <<>> /\ Head(<<x>> \o t) = x /\ Tail(<<x>> \o t) = t
<1> DEFINE q == <<x>> \o t
<1>1. /\ <<x>> \in Seq(S) /\ Len(<<x>>) = 1 /\ <<x>>[1] = x
  OBVIOUS
<1>2. /\ q \in Seq(S) /\ Len(q) = 1 + Len(t) /\ Len(t) \in Nat
      /\ \A n \in 1 .. Len(q) : q[n] = IF n =< 1 THEN <<x>>[n] ELSE t[n - 1]
  BY <1>1, ConcatProperties, LenProperties
<1>3. q # <<>> /\ Head(q) = x
  <2> HIDE DEF q
  <2>1. q # <<>>
    BY <1>2, EmptySeq
  <2> QED BY <1>1, <1>2, <2>1, HeadTailProperties
<1>4. /\ Tail(q) \in Seq(S) /\ Len(Tail(q)) = Len(t)
      /\ \A n \in 1 .. Len(t) : Tail(q)[n] = t[n]
  <2> HIDE DEF q
  <2> QED BY <1>2, <1>3, HeadTailProperties
<1>5. Tail(q) = t
  <2> HIDE DEF q
  <2> QED BY <1>4, SeqEqual
<1> QED BY <1>3, <1>5

(* An admission, and the repush after it. *)
LEMMA AdmissionTalks ==
  ASSUME Ids, Packets, NEW s \in Stream, s \notin cut, down[s] = <<>>,
         NEW v \in {"register", "reconnect_ok"}, Admits(s, v)
  PROVE  /\ down'[s] # <<>> /\ Head(down'[s]).topic \in {"register", "reconnect_ok"}
         /\ Monitors(Tail(down'[s]))
         /\ \A u \in Stream \ {s} : down'[u] = down[u]
<1>1. PICK q \in Repushed : Reply(s, <<Msg(v, 0)>> \o Again(q))
  BY DEF Admits, RepliesThenRepush, Again
<1>2. /\ Again(q) \in Seq(Packet) /\ <<Msg(v, 0)>> \in Seq(Packet) /\ Len(<<Msg(v, 0)>>) = 1
      /\ Monitors(Again(q))
  <2>1. \A n \in DOMAIN Again(q) : Again(q)[n].topic = "monitor"
    <3>1. DOMAIN Again(q) = DOMAIN q /\ \A n \in DOMAIN q : Again(q)[n] = Msg("monitor", q[n])
      BY AgainType
    <3>2. \A n : Msg("monitor", n).topic = "monitor"
      BY DEF Msg
    <3> QED BY <3>1, <3>2
  <2>2. v \in Topic
    BY DEF Topic
  <2> QED BY <2>1, <2>2, AgainType, MsgType DEF Monitors
<1>3. down' = [down EXCEPT ![s] = down[s] \o (<<Msg(v, 0)>> \o Again(q))]
  BY <1>1 DEF Reply
<1>4. <<Msg(v, 0)>> \o Again(q) \in Seq(Packet)
  BY <1>2, ConcatProperties
<1>5. down'[s] = <<Msg(v, 0)>> \o Again(q)
  <2>1. <<>> \o (<<Msg(v, 0)>> \o Again(q)) = <<Msg(v, 0)>> \o Again(q)
    BY <1>4, ConcatEmptySeq
  <2> QED BY <1>3, <2>1 DEF Packets
<1>6. /\ down'[s] # <<>> /\ Head(down'[s]) = Msg(v, 0) /\ Tail(down'[s]) = Again(q)
  <2>1. Msg(v, 0) \in Packet
    BY DEF Msg, Packet, Topic
  <2> DEFINE a == Again(q)
  <2>2. a \in Seq(Packet)
    BY <1>2
  <2> HIDE DEF a
  <2>3. <<Msg(v, 0)>> \o a # <<>> /\ Head(<<Msg(v, 0)>> \o a) = Msg(v, 0)
        /\ Tail(<<Msg(v, 0)>> \o a) = a
    BY <2>1, <2>2, FirstOfConcat
  <2> QED BY <1>5, <2>3 DEF a
<1>7. \A u \in Stream \ {s} : down'[u] = down[u]
  BY <1>3 DEF Packets
<1>8. Msg(v, 0).topic \in {"register", "reconnect_ok"}
  BY DEF Msg
<1>9. Monitors(Tail(down'[s]))
  BY <1>2, <1>6
<1> QED BY <1>6, <1>7, <1>8, <1>9

(* A refusal, and the repush after it all the same. *)
LEMMA RefusalTalks ==
  ASSUME Ids, Packets, NEW s \in Stream, s \notin cut, down[s] = <<>>,
         RepliesThenRepush(s, Fails)
  PROVE  /\ \A n \in DOMAIN down'[s] : down'[s][n].topic \in {"register_fail", "disconnect", "monitor"}
         /\ \A u \in Stream \ {s} : down'[u] = down[u]
<1>1. PICK q \in Repushed : Reply(s, Fails \o Again(q))
  BY DEF RepliesThenRepush, Again
<1> DEFINE a == Again(q)
<1>2. /\ a \in Seq(Packet) /\ \A n \in DOMAIN a : a[n].topic = "monitor"
  <2>1. \A n : Msg("monitor", n).topic = "monitor"
    BY DEF Msg
  <2>2. DOMAIN a = DOMAIN q /\ \A n \in DOMAIN q : a[n] = Msg("monitor", q[n])
    BY AgainType
  <2> QED BY <2>1, <2>2, AgainType
<1>3. down' = [down EXCEPT ![s] = <<>> \o (Fails \o a)]
  BY <1>1 DEF Reply
<1> HIDE DEF a
<1>4. /\ Fails \o a \in Seq(Packet) /\ Len(Fails \o a) = 2 + Len(a) /\ Len(a) \in Nat
      /\ \A n \in 1 .. 2 + Len(a) : (Fails \o a)[n] = IF n <= 2 THEN Fails[n] ELSE a[n - 2]
  <2>1. Fails \in Seq(Packet) /\ Len(Fails) = 2 /\ Len(a) \in Nat
    BY <1>2, VerdictType, LenProperties
  <2>2. /\ Fails \o a \in Seq(Packet) /\ Len(Fails \o a) = Len(Fails) + Len(a)
        /\ \A n \in 1 .. Len(Fails) + Len(a) :
             (Fails \o a)[n] = IF n <= Len(Fails) THEN Fails[n] ELSE a[n - Len(Fails)]
    BY <1>2, <2>1, ConcatProperties
  <2> QED BY <2>1, <2>2
<1> DEFINE d == Fails \o a
<1> HIDE DEF d
<1>5. down'[s] = d
  <2>1. <<>> \o d = d
    BY <1>4, ConcatEmptySeq DEF d
  <2> QED BY <1>3, <2>1 DEF Packets, d
<1>6. DOMAIN d = 1 .. 2 + Len(a) /\ DOMAIN a = 1 .. Len(a) /\ DOMAIN Fails = 1 .. 2
  BY <1>2, <1>4, VerdictType, LenProperties DEF d
<1>7. ASSUME NEW n \in DOMAIN d PROVE d[n].topic \in {"register_fail", "disconnect", "monitor"}
  <2>1. n \in 1 .. 2 + Len(a) /\ d[n] = IF n <= 2 THEN Fails[n] ELSE a[n - 2]
    BY <1>4, <1>6, <1>7 DEF d
  <2>2. CASE n <= 2
    BY <1>6, <2>1, <2>2, VerdictType
  <2>3. CASE ~(n <= 2)
    <3>1. n - 2 \in DOMAIN a
      BY <1>4, <1>6, <2>1, <2>3
    <3> QED BY <1>2, <2>1, <2>3, <3>1
  <2> QED BY <2>2, <2>3
<1> QED BY <1>3, <1>5, <1>7 DEF Packets

(* A message that reaches the master takes the conversation to its next     *)
(* state.                                                                   *)
LEMMA HandlersTalk ==
  ASSUME Sound, Registry, Talk, ShedKept, ~MayRefuse \/ ~LateEvents, NEW s \in Stream,
         MasterHandles(s)
  PROVE  Talk'
<1>0. /\ Owns /\ Packets /\ Ids /\ Writes
  BY DEF Sound, Registry
<1>1. UNCHANGED <<clientVars, astate, handling>>
  BY DEF MasterHandles, MasterOnRegister, MasterOnReconnect, MasterOnDisconnect,
     MasterOnResponse, MasterOnNotify, MasterOnRequest, Arrives, Carry
<1>2. CASE Over
  BY <1>1, <1>2 DEF Talk, Over, Prompt, clientVars
<1>3. CASE Conversing
  <2>1. ASSUME NEW t, Arrives(s, t), Conv(s)',
               \A u \in Stream \ {s} :
                 /\ down'[u] = down[u] /\ msock'[u].registered = msock[u].registered
                 /\ conn[u] # "idle" => conn'[u] # "idle"
        PROVE  Conversing'
    <3>1. /\ socket' = socket /\ cut' = cut /\ \A u \in Stream : Live(u)' => Live(u)
      BY <1>1, <2>1 DEF Arrives, clientVars, Live
    <3>2. \A u \in Stream : u # s => Undisturbed(u)
      BY <1>1, <1>3, <2>1, ArrivingTalks DEF Undisturbed, clientVars
    <3> QED BY <1>3, <2>1, <3>1, <3>2, TalkGoesOn
  <2>2. ASSUME \/ Arrives(s, "register") /\ RegisterAccepted(s)
               \/ MasterOnReconnect(s) /\ ~M!HasPrimary(Id)
        PROVE  Conversing'
    <3>1. /\ msock'[s].registered /\ conn' = conn
          /\ \A u \in Stream \ {s} : msock'[u] = msock[u]
      BY <2>2, GreetingAdmits
    <3>2. PICK v \in {"register", "reconnect_ok"} : Admits(s, v)
      BY <2>2 DEF RegisterAccepted, MasterOnReconnect
    <3>3. PICK t \in {"register", "reconnect"} : Arrives(s, t)
      BY <2>2 DEF MasterOnReconnect
    <3>4. Greeting(s) /\ out'[s] = <<>> /\ s \notin cut
      BY <1>3, <3>3, ArrivingTalks
    <3>5. /\ down'[s] # <<>> /\ Head(down'[s]).topic \in {"register", "reconnect_ok"}
          /\ Monitors(Tail(down'[s]))
          /\ \A u \in Stream \ {s} : down'[u] = down[u]
      BY <1>0, <3>2, <3>4, AdmissionTalks DEF Greeting
    <3>6. Admitted(s)'
      BY <1>1, <3>1, <3>4, <3>5 DEF Greeting, Standing, Admitted, clientVars
    <3> QED BY <2>1, <3>1, <3>3, <3>5, <3>6 DEF Conv
  <2>3. ASSUME MasterOnReconnect(s), M!HasPrimary(Id) PROVE Conversing'
    <3>1. Arrives(s, "reconnect") /\ Reply(s, <<Msg("refused", 0)>>) /\ UNCHANGED masterVars
      BY <2>3 DEF MasterOnReconnect
    <3>2. Greeting(s) /\ out'[s] = <<>> /\ s \notin cut
      BY <1>3, <3>1, ArrivingTalks
    <3>3. down'[s] = <<Msg("refused", 0)>> /\ \A u \in Stream \ {s} : down'[u] = down[u]
      BY <1>0, <3>1, <3>2 DEF Reply, Packets, Greeting
    <3>4. \A n \in DOMAIN down'[s] : down'[s][n].topic \in Idle
      BY <3>3 DEF Idle, Msg
    <3>5. Refused(s)'
      BY <1>1, <3>1, <3>2, <3>4 DEF Greeting, Standing, Refused, clientVars, masterVars
    <3> QED BY <2>1, <3>1, <3>3, <3>5 DEF Conv, masterVars
  <2>4. ASSUME Arrives(s, "register"), RegisterRefused(s) PROVE Conversing'
    <3>1. /\ ~msock'[s].registered /\ conn' = conn
          /\ \A u \in Stream \ {s} : msock'[u] = msock[u]
      BY <2>4, RefusalRecordsNothing
    <3>2. Greeting(s) /\ out'[s] = <<>> /\ s \notin cut
      BY <1>3, <2>4, ArrivingTalks
    <3>3. ~LateEvents /\ RepliesThenRepush(s, Fails)
      BY <2>4 DEF RegisterRefused, Fails
    <3>4. /\ \A n \in DOMAIN down'[s] : down'[s][n].topic \in Idle
          /\ \A u \in Stream \ {s} : down'[u] = down[u]
      BY <1>0, <3>2, <3>3, RefusalTalks DEF Greeting, Idle
    <3>5. Refused(s)'
      BY <1>1, <3>1, <3>2, <3>4 DEF Greeting, Standing, Refused, clientVars
    <3> QED BY <2>1, <2>4, <3>1, <3>4, <3>5 DEF Conv
  <2>5. ASSUME MasterOnResponse(s) PROVE Conversing'
    <3>1. Arrives(s, "response")
      BY <2>5 DEF MasterOnResponse
    <3>2. Serving(s) /\ Responses(out'[s])
      BY <1>3, <3>1, ArrivingTalks
    <3>3. down' = down /\ UNCHANGED <<conn, msock>>
      BY <2>5, <3>2 DEF MasterOnResponse, Serving, M!OnMonitorResponse, M!links, masterVars
    <3>4. Serving(s)'
      BY <1>1, <3>2, <3>3 DEF Serving, Standing, clientVars
    <3> QED BY <2>1, <3>1, <3>3, <3>4 DEF Conv
  <2>6. ~MasterOnDisconnect(s) /\ ~MasterOnNotify(s) /\ ~MasterOnRequest(s)
    <3>1. \A t \in {"disconnect", "notify", "request"} : ~Arrives(s, t)
      BY <1>3, ArrivingTalks
    <3> QED BY <3>1 DEF MasterOnDisconnect, MasterOnNotify, MasterOnRequest
  <2> QED BY <1>1, <2>2, <2>3, <2>5, <2>6, <2>4 DEF MasterHandles, MasterOnRegister, Talk, Prompt
<1> QED BY <1>2, <1>3 DEF Talk

(* A write at the end of a queue leaves its head. *)
LEMMA AppendToQueue ==
  ASSUME NEW S, NEW x \in S, NEW t \in Seq(S), t # <<>>
  PROVE  /\ Append(t, x) # <<>> /\ Head(Append(t, x)) = Head(t)
         /\ Tail(Append(t, x)) = Append(Tail(t), x)
<1> DEFINE q == Append(t, x)
<1>1. /\ q \in Seq(S) /\ Len(q) = Len(t) + 1 /\ Len(t) \in Nat \ {0}
      /\ \A n \in 1 .. Len(t) : q[n] = t[n]
      /\ q[Len(t) + 1] = x
  BY EmptySeq, AppendProperties
<1>2. /\ Tail(t) \in Seq(S) /\ Len(Tail(t)) = Len(t) - 1 /\ Head(t) = t[1]
      /\ \A n \in 1 .. Len(Tail(t)) : Tail(t)[n] = t[n + 1]
  BY HeadTailProperties
<1>3. q # <<>> /\ Head(q) = Head(t)
  <2> HIDE DEF q
  <2>1. q # <<>>
    BY <1>1, EmptySeq
  <2> QED BY <1>1, <1>2, <2>1, HeadTailProperties
<1>4. /\ Tail(q) \in Seq(S) /\ Len(Tail(q)) = Len(t)
      /\ \A n \in 1 .. Len(t) : Tail(q)[n] = q[n + 1]
  <2> HIDE DEF q
  <2> QED BY <1>1, <1>3, HeadTailProperties
<1> DEFINE r == Append(Tail(t), x)
<1>5. /\ r \in Seq(S) /\ Len(r) = Len(t)
      /\ \A n \in 1 .. Len(t) - 1 : r[n] = Tail(t)[n]
      /\ r[Len(t)] = x
  <2> DEFINE u == Tail(t)
  <2> HIDE DEF u
  <2>1. u \in Seq(S) /\ Len(u) = Len(t) - 1
    BY <1>2 DEF u
  <2>2. /\ Append(u, x) \in Seq(S) /\ Len(Append(u, x)) = Len(u) + 1
        /\ \A n \in 1 .. Len(u) : Append(u, x)[n] = u[n]
        /\ Append(u, x)[Len(u) + 1] = x
    BY <2>1, AppendProperties
  <2>3. Len(u) + 1 = Len(t)
    BY <1>1, <2>1
  <2> QED BY <2>1, <2>2, <2>3 DEF u
<1>6. \A n \in 1 .. Len(t) : Tail(q)[n] = r[n]
  <2> HIDE DEF q, r
  <2> QED BY <1>1, <1>2, <1>4, <1>5
<1>7. Tail(q) = r
  <2> HIDE DEF q, r
  <2> QED BY <1>4, <1>5, <1>6, SeqEqual
<1> QED BY <1>3, <1>7

(* A request goes to the stream that is registered. *)
LEMMA RequestTalks ==
  ASSUME Sound, Registry, Conversing, ShedKept, MasterRequest PROVE Conversing'
<1>0. /\ Owns /\ Packets /\ UNCHANGED <<clientVars, agentVars, cut, conn, msock>>
  BY DEF Sound, Registry, MasterRequest, M!Request, M!links, vars
<1>1. CASE ~M!HasPrimary(Id)
  <2>1. down' = down
    BY <1>1 DEF MasterRequest
  <2> QED BY <1>0, <2>1, SilentStep DEF clientVars, agentVars
<1>2. CASE M!HasPrimary(Id)
  <2>1. PICK s \in Stream : msock[s].registered /\ idMap[Id].socket = s
    BY <1>0, <1>2, RegisteredIsPrimary DEF Owns
  <2>2. Reply(s, <<Msg("monitor", reqId)>>)
    BY <1>2, <2>1 DEF MasterRequest
  <2>3. \A u \in Stream \ {s} : down'[u] = down[u]
    BY <1>0, <2>2 DEF Reply, Packets
  <2>4. ASSUME Live(s), s \notin cut, Conv(s) PROVE Conv(s)'
    <3>1. /\ down[s] \in Seq(Packet) /\ <<Msg("monitor", reqId)>> \in Seq(Packet)
          /\ Msg("monitor", reqId) \in Packet /\ Msg("monitor", reqId).topic = "monitor"
      BY <1>0, MsgType DEF Packets, Sound, Ids, Topic, Msg, Packet
    <3>2. down'[s] = Append(down[s], Msg("monitor", reqId))
      <4>1. down'[s] = down[s] \o <<Msg("monitor", reqId)>>
        BY <1>0, <2>2, <2>4 DEF Reply, Packets
      <4> QED BY <3>1, <4>1, AppendIsConcat
    <3>3. CASE Serving(s)
      <4>1. Monitors(down'[s])
        <5>1. /\ DOMAIN down'[s] = 1 .. Len(down[s]) + 1 /\ DOMAIN down[s] = 1 .. Len(down[s])
              /\ \A n \in 1 .. Len(down[s]) : down'[s][n] = down[s][n]
              /\ down'[s][Len(down[s]) + 1] = Msg("monitor", reqId) /\ Len(down[s]) \in Nat
          BY <3>1, <3>2, AppendProperties, LenProperties
        <5> QED BY <3>1, <3>3, <5>1 DEF Serving, Monitors
      <4>2. Serving(s)'
        BY <1>0, <3>3, <4>1 DEF Serving, Standing, clientVars, agentVars
      <4> QED BY <4>2 DEF Conv
    <3>4. CASE Admitted(s)
      <4>1. /\ down[s] # <<>> /\ Monitors(Tail(down[s]))
        BY <3>4 DEF Admitted
      <4>2. /\ down'[s] # <<>> /\ Head(down'[s]) = Head(down[s])
            /\ Tail(down'[s]) = Append(Tail(down[s]), Msg("monitor", reqId))
        BY <3>1, <3>2, <4>1, AppendToQueue
      <4>3. Monitors(Tail(down'[s]))
        <5>1. Tail(down[s]) \in Seq(Packet)
          BY <3>1, <4>1, HeadTailProperties
        <5> DEFINE q == Tail(down[s])
        <5>2. /\ DOMAIN Append(q, Msg("monitor", reqId)) = 1 .. Len(q) + 1
              /\ DOMAIN q = 1 .. Len(q) /\ Len(q) \in Nat
              /\ \A n \in 1 .. Len(q) : Append(q, Msg("monitor", reqId))[n] = q[n]
              /\ Append(q, Msg("monitor", reqId))[Len(q) + 1] = Msg("monitor", reqId)
          <6> HIDE DEF q
          <6>1. q \in Seq(Packet)
            BY <5>1 DEF q
          <6> QED BY <3>1, <6>1, AppendProperties, LenProperties
        <5>3. Monitors(q)
          BY <4>1
        <5> HIDE DEF q
        <5>4. Monitors(Append(q, Msg("monitor", reqId)))
          BY <3>1, <5>2, <5>3 DEF Monitors
        <5> QED BY <4>2, <5>4 DEF q
      <4>4. Admitted(s)'
        BY <1>0, <3>4, <4>2, <4>3 DEF Admitted, Standing, clientVars, agentVars
      <4> QED BY <4>4 DEF Conv
    <3> QED BY <2>1, <2>4, <3>3, <3>4 DEF Conv, Dialing, Greeting, Refused
  <2>5. /\ socket' = socket /\ cut' = cut /\ \A u \in Stream : Live(u)' => Live(u)
    BY <1>0 DEF clientVars, Live
  <2>6. \A u \in Stream : u # s => Undisturbed(u)
    BY <1>0, <2>3 DEF Undisturbed, clientVars, agentVars
  <2>7. \A u \in Stream : Live(u) /\ u \notin cut' => Undisturbed(u) \/ (Conv(u) => Conv(u)')
    BY <1>0, <2>4, <2>6
  <2> QED BY <2>5, <2>7, TalkGoesOn
<1> QED BY <1>1, <1>2

(* Steps of the master's end and of the network. *)
LEMMA NetworkTalks ==
  ASSUME Sound, Registry, Conversing, ShedKept, NEW s \in Stream,
         \/ MasterAccepts(s) \/ MasterSeesEnd(s) \/ ProcessSeesEnd(s)
         \/ ProcessPonged(s) \/ Cut(s) \/ LosesWrite(s)
  PROVE  Conversing'
<1>0. /\ Owns /\ Links /\ Packets /\ Writes /\ ClientCore /\ ClientTypeOK
  BY DEF Sound, Registry, ClientCore
<1>1. CASE MasterAccepts(s)
  <2>1. /\ UNCHANGED <<clientVars, agentVars, cut, msock>> /\ s \notin cut /\ conn[s] = "idle"
        /\ \A u \in Stream \ {s} : down'[u] = down[u] /\ conn'[u] = conn[u]
    BY <1>0, <1>1 DEF MasterAccepts, M!Connection, vars, Reply, Packets, Owns
  <2>2. down'[s] = <<Msg("connack", 0)>>
    <3>1. down[s] = <<>>
      BY <1>0, <2>1 DEF Links
    <3> QED BY <1>0, <1>1, <2>1, <3>1 DEF MasterAccepts, Reply, Packets
  <2>3. Conv(s) => Conv(s)'
    <3>1. Conv(s) => Dialing(s)
      BY <2>1 DEF Conv, Greeting, Admitted, Refused, Serving, Standing
    <3>2. Dialing(s) => Dialing(s)'
      BY <2>1, <2>2 DEF Dialing, clientVars, agentVars
    <3> QED BY <3>1, <3>2 DEF Conv
  <2>4. \A u \in Stream : u # s => Undisturbed(u)
    BY <2>1 DEF Undisturbed, clientVars, agentVars
  <2>5. socket' = socket /\ \A u \in Stream : Live(u)' => Live(u)
    BY <2>1 DEF clientVars, Live
  <2> QED BY <2>1, <2>3, <2>4, <2>5, TalkGoesOn
<1>2. CASE MasterSeesEnd(s)
  <2>1. /\ UNCHANGED <<clientVars, agentVars, cut, down>> /\ s \in cut
        /\ \A u \in Stream \ {s} : msock'[u] = msock[u] /\ conn'[u] = conn[u]
    BY <1>0, <1>2, EndForgets DEF MasterSeesEnd, vars
  <2>2. \A u \in Stream : u # s => Undisturbed(u)
    BY <2>1 DEF Undisturbed, clientVars, agentVars
  <2>3. socket' = socket /\ \A u \in Stream : Live(u)' => Live(u)
    BY <2>1 DEF clientVars, Live
  <2> QED BY <2>1, <2>2, <2>3, TalkGoesOn
<1>3. CASE ProcessSeesEnd(s)
  <2>1. Live(s) /\ stream' = [stream EXCEPT ![s] = "ended"] /\ (LateEvents \/ s = socket)
    BY <1>3 DEF ProcessSeesEnd, StreamEnds, Reports, Live
  <2>2. \A u \in Stream : Live(u)' => Shed(u)
    BY <1>0, <2>1 DEF Conversing, Live, Shed, ClientTypeOK
  <2> QED BY <2>2, NoLiveTalks
<1>4. CASE ProcessPonged(s)
  BY <1>4, SilentStep DEF ProcessPonged, Pingresp, agentVars, masterVars
<1>5. CASE Cut(s)
  <2>1. /\ UNCHANGED <<clientVars, astate>> /\ cut' = cut \cup {s}
        /\ down' = [down EXCEPT ![s] = <<>>] /\ out' = [out EXCEPT ![s] = <<>>]
    BY <1>5 DEF Cut
  <2>2. \A u \in Stream \ {s} : msock'[u] = msock[u] /\ conn'[u] = conn[u]
    BY <1>0, <1>5, EndForgets DEF Cut, masterVars
  <2>3. \A u \in Stream : u # s => Undisturbed(u)
    BY <1>0, <2>1, <2>2 DEF Undisturbed, clientVars, Packets, Writes
  <2>4. socket' = socket /\ \A u \in Stream : Live(u)' => Live(u)
    BY <2>1 DEF clientVars, Live
  <2> QED BY <2>1, <2>3, <2>4, TalkGoesOn
<1>6. CASE LosesWrite(s)
  <2>1. /\ UNCHANGED <<clientVars, astate, cut, down, conn, msock>> /\ s \in cut
        /\ \A u \in Stream : u # s => out'[u] = out[u]
    BY <1>0, <1>6, CarryShrinks DEF LosesWrite, Carry, masterVars
  <2>2. \A u \in Stream : u # s => Undisturbed(u)
    BY <2>1 DEF Undisturbed, clientVars
  <2>3. socket' = socket /\ \A u \in Stream : Live(u)' => Live(u)
    BY <2>1 DEF clientVars, Live
  <2> QED BY <2>1, <2>2, <2>3, TalkGoesOn
<1> QED BY <1>1, <1>2, <1>3, <1>4, <1>5, <1>6

(* Every step keeps the conversation.                                       *)
LEMMA NextTalk ==
  ASSUME Sound, Registry, Talk, ~AsyncToken, ~AsyncHandler, MaxNotify = 0,
         ~MayRefuse \/ ~LateEvents, SessionNext
  PROVE  Talk'
<1>0. ClientCore /\ Packets /\ Prompt /\ ShedKept
  BY NextShed DEF Sound, Talk
<1>1. ASSUME [ClientNext]_clientVars, handling' = handling, Conversing => Conversing'
      PROVE  Talk'
  BY <1>0, <1>1, OverStays DEF Talk, Prompt
<1>2. ProcessDies => Talk'
  <2> SUFFICES ASSUME ProcessDies PROVE Talk'
    OBVIOUS
  <2>1. /\ UNCHANGED <<closed, retries, handling, socket, connected, connectedTimes, astate,
                       stream, out, down, conn, msock, cut>>
    BY DEF ProcessDies, agentVars, masterVars
  <2> QED BY <1>0, <2>1, SilentStep DEF Talk, Prompt, Over
<1>3. ASSUME ProcessStarts PROVE Talk'
  <2>1. /\ handling' = [r \in Req |-> 0]
        /\ stream' = [s \in Stream |-> IF s \in Used THEN "ended" ELSE "unused"]
    BY <1>3 DEF ProcessStarts
  <2>2. \A s \in Stream : ~Live(s)'
    BY <2>1 DEF Live
  <2> QED BY <1>0, <2>1, <2>2, NoLiveTalks DEF Talk, Prompt
<1>4. ASSUME MasterReboots PROVE Talk'
  <2>1. UNCHANGED clientVars /\ handling' = handling
        /\ cut' = cut \cup {s \in Used : stream[s] # "ended"}
    BY <1>4 DEF MasterReboots
  <2>2. \A s \in Stream : Live(s)' => Live(s) /\ s \in cut'
    BY <2>1 DEF Live, Used, clientVars
  <2>3. Conversing => Conversing'
    BY <1>0, <2>1, <2>2 DEF Conversing, ShedKept, clientVars
  <2> QED BY <1>1, <2>1, <2>3
<1>5. MasterListen => Talk'
  <2> SUFFICES ASSUME MasterListen PROVE Talk'
    OBVIOUS
  <2>1. UNCHANGED <<clientVars, agentVars, down, conn, msock, cut>>
    BY DEF MasterListen, M!Listen, M!links, vars
  <2> QED BY <1>0, <1>1, <2>1, SilentStep DEF agentVars, clientVars
<1>6. MasterRequest => Talk'
  <2> SUFFICES ASSUME MasterRequest PROVE Talk'
    OBVIOUS
  <2>1. UNCHANGED <<clientVars, agentVars>>
    BY DEF MasterRequest, vars
  <2> QED BY <1>0, <1>1, <2>1, RequestTalks DEF agentVars
<1>7. ASSUME NEW s \in Stream,
             \/ MasterAccepts(s) \/ MasterSeesEnd(s) \/ ProcessSeesEnd(s)
             \/ ProcessPonged(s) \/ Cut(s) \/ LosesWrite(s)
      PROVE  Talk'
  <2>1. [ClientNext]_clientVars /\ handling' = handling
    BY <1>7 DEF MasterAccepts, MasterSeesEnd, ProcessSeesEnd, ProcessPonged, Cut, LosesWrite,
       Carry, ClientNext, vars, agentVars
  <2> QED BY <1>0, <1>1, <1>7, <2>1, NetworkTalks
<1> QED
  BY <1>0, <1>2, <1>3, <1>4, <1>5, <1>6, <1>7, StepsTalk, DeliveriesTalk, HandlersTalk, SessionCases

(* When handlers and authServer answer at once, and the process writes      *)
(* nothing of its own accord, the current stream is in one of the states of *)
(* a conversation, unless it is cut or the agent was closed; a process that *)
(* may be refused hears nothing of the streams it has left.                 *)
LEMMA TalkInvariant ==
  ASSUME ~AsyncToken, PromptClose \/ MaxRestart = 0, ~AsyncHandler, MaxNotify = 0,
         ~MayRefuse \/ ~LateEvents
  PROVE  SafeSpec => []Talk
<1>1. SessionInit => Talk
  BY DEF SessionInit, Init, ClientInit, Talk, Prompt, Conversing, Live
<1>2. Sound /\ Registry /\ Talk /\ [SessionNext]_sessionVars => Talk'
  <2>1. ASSUME Talk, ShedKept, UNCHANGED sessionVars PROVE Talk'
    <3>1. UNCHANGED <<clientVars, agentVars, masterVars, down, cut>>
      BY <2>1 DEF sessionVars, vars
    <3> QED BY <2>1, <3>1, SilentStep DEF Talk, Prompt, Over, clientVars, agentVars, masterVars
  <2> QED BY <2>1, NextShed, NextTalk
<1> QED BY <1>1, <1>2, SessionInvariant, PTL DEF SafeSpec

(* Then an agent that believes it is registered is the primary of its id,   *)
(* on the stream it writes to, as soon as nothing is under way: no cut,     *)
(* death, reboot or refusal leaves the two ends at odds. A notification that*)
(* finds the next stream before its greeting, or a handler that answers     *)
(* there, would be taken for an intruder's, and a process that hears of     *)
(* streams it has left takes the DISCONNECT of a refusal for its next one.  *)
THEOREM EndsAgree ==
  ASSUME ~AsyncToken, PromptClose \/ MaxRestart = 0, ~AsyncHandler, MaxNotify = 0,
         ~MayRefuse \/ ~LateEvents
  PROVE  SafeSpec => []AgreeWhenQuiet
<1>1. ASSUME Sound, Registry, Talk PROVE AgreeWhenQuiet
  <2> SUFFICES ASSUME Quiet, astate = "registered"
               PROVE  M!HasPrimary(Id) /\ idMap[Id].socket = socket
    BY DEF AgreeWhenQuiet
  <2>1. /\ connected /\ ~Over /\ socket \in Stream /\ socket \notin cut
        /\ conn[socket] # "idle"
    BY <1>1, MaxStreamAssumption DEF Quiet, Over, Sound, ClientCore, ClientTypeOK, Stream
  <2>2. Live(socket)
    BY <1>1, <2>1, CarryingIsLive DEF Sound, Registry, ClientCore
  <2>3. Conv(socket)
    BY <1>1, <2>1, <2>2 DEF Talk, Conversing, Shed
  <2>4. msock[socket].registered
    BY <2>1, <2>3 DEF Conv, Dialing, Greeting, Admitted, Refused, Serving
  <2> QED BY <1>1, <2>1, <2>4, RegisteredIsPrimary DEF Registry
<1> QED BY <1>1, TalkInvariant, SessionInvariant, PTL

-----------------------------------------------------------------------------
(* A stream until the master has heard its greeting, after close() too: a   *)
(* closed client may still be acknowledged, greet and be admitted           *)

Greets(s, n) == n \in DOMAIN out[s] /\ out[s][n].topic \in {"register", "reconnect"}

(* A stream that was not acknowledged carries DISCONNECTs only, and so does *)
(* one that greets, but for the one greeting; nothing is written to it.     *)
Unheard(s) ==
  /\ stream[s] = "connecting" =>
       /\ ~msock[s].registered /\ down[s] \in {<<>>, <<Msg("connack", 0)>>}
       /\ \A n \in DOMAIN out[s] : out[s][n].topic = "disconnect"
  /\ stream[s] = "open" => conn[s] # "idle"
  /\ \A n : Greets(s, n) =>
       /\ stream[s] = "open" /\ ~msock[s].registered /\ down[s] = <<>>
       /\ \A m \in DOMAIN out[s] : m # n => out[s][m].topic = "disconnect"

Ordered ==
  \A s \in Stream : Live(s) => Shed(s) \/ (s = socket /\ (s \notin cut => Unheard(s)))

(* What a step leaves of the order on s. *)
Still(s) ==
  /\ stream'[s] = stream[s] /\ out'[s] = out[s] /\ down'[s] = down[s]
  /\ msock'[s].registered => msock[s].registered
  /\ conn[s] # "idle" => conn'[s] # "idle"

(* A conversation is in order. *)
LEMMA ConversingIsOrdered == (Conversing => Ordered) /\ (Conversing' => Ordered')
<1>1. ASSUME NEW s, Conv(s) PROVE Unheard(s)
  <2>1. \A m, n \in DOMAIN <<Plain("register")>> : m = n
    OBVIOUS
  <2>2. \A m, n \in DOMAIN <<Plain("reconnect")>> : m = n
    OBVIOUS
  <2>3. Dialing(s) => Unheard(s)
    BY DEF Dialing, Unheard, Greets
  <2>4. Greeting(s) => Unheard(s)
    BY <2>1, <2>2 DEF Greeting, Standing, Unheard, Greets
  <2>5. Admitted(s) \/ Refused(s) => Unheard(s)
    BY DEF Admitted, Refused, Standing, Unheard, Greets
  <2>6. Serving(s) => Unheard(s)
    BY DEF Serving, Standing, Responses, Unheard, Greets
  <2> QED BY <1>1, <2>3, <2>4, <2>5, <2>6 DEF Conv
<1>2. Conversing => Ordered
  BY <1>1 DEF Conversing, Ordered
<1> QED BY <1>2, PTL

(* A step that leaves the current stream in order.                          *)
LEMMA OrderedGoesOn ==
  ASSUME Ordered, ShedKept, socket' = socket, cut \subseteq cut',
         \A s \in Stream : Live(s)' => Live(s),
         \A s \in Stream :
           s = socket /\ Live(s) /\ s \notin cut' => Still(s) \/ (Unheard(s) => Unheard(s)')
  PROVE  Ordered'
<1>1. ASSUME NEW s \in Stream, Still(s), Unheard(s) PROVE Unheard(s)'
  <2>1. \A n : Greets(s, n)' <=> Greets(s, n)
    BY <1>1 DEF Still, Greets
  <2> QED BY <1>1, <2>1 DEF Still, Unheard
<1> QED BY <1>1 DEF Ordered, ShedKept

(* A message is put after a list. *)
LEMMA AppendAdds ==
  ASSUME NEW S, NEW q \in Seq(S), NEW x \in S
  PROVE  /\ \A n \in DOMAIN Append(q, x) :
              n \notin DOMAIN q => Append(q, x)[n] = x
         /\ \A n \in DOMAIN q : n \in DOMAIN Append(q, x) /\ Append(q, x)[n] = q[n]
<1> DEFINE a == Append(q, x)
<1>1. /\ a \in Seq(S) /\ Len(a) = Len(q) + 1 /\ Len(q) \in Nat /\ DOMAIN q = 1 .. Len(q)
      /\ \A n \in 1 .. Len(q) : a[n] = q[n]
      /\ a[Len(q) + 1] = x
  BY AppendProperties, LenProperties
<1>2. DOMAIN a = 1 .. Len(a)
  <2> HIDE DEF a
  <2> QED BY <1>1, LenProperties
<1> HIDE DEF a
<1>3. /\ \A n \in DOMAIN a : n \notin DOMAIN q => a[n] = x
      /\ \A n \in DOMAIN q : n \in DOMAIN a /\ a[n] = q[n]
  BY <1>1, <1>2
<1> QED BY <1>3 DEF a

(* A DISCONNECT may follow anything. *)
LEMMA PartingIsOrdered ==
  ASSUME Writes, NEW s \in Stream, out'[s] = Append(out[s], Plain("disconnect")),
         stream' = stream, down' = down, msock' = msock, conn' = conn, Unheard(s)
  PROVE  Unheard(s)'
<1>1. /\ \A n \in DOMAIN out'[s] : n \notin DOMAIN out[s] => out'[s][n] = Plain("disconnect")
      /\ \A n \in DOMAIN out[s] : n \in DOMAIN out'[s] /\ out'[s][n] = out[s][n]
  BY Words, AppendAdds DEF Writes
<1>2. Plain("disconnect").topic = "disconnect"
  BY DEF Plain
<1>3. \A n : Greets(s, n)' => Greets(s, n)
  BY <1>1, <1>2 DEF Greets
<1>4. \A m \in DOMAIN out'[s] :
        out'[s][m].topic = "disconnect" \/ (m \in DOMAIN out[s] /\ out'[s][m] = out[s][m])
  BY <1>1, <1>2
<1> QED BY <1>3, <1>4 DEF Unheard

(* No step of a process whose client is closed for good puts a stream out of*)
(* order.                                                                   *)
LEMMA StepsOrdered ==
  ASSUME Sound, Registry, Ordered, ShedKept, Prompt, MaxNotify = 0, Over', ProcessSteps
  PROVE  Ordered'
<1>0. /\ Writes /\ Inited /\ ClientCore /\ closed' = TRUE
      /\ UNCHANGED <<down, cut, conn, msock>>
  BY DEF ProcessSteps, Sound, Registry, masterVars, Over, ClientCore, ClientTypeOK
<1>1. ~TokenReady /\ ~Notify /\ ~Request /\ \A r \in Req : ~HandlerDone(r)
  BY <1>0 DEF TokenReady, Inited, Notify, Request, Writes, HandlerDone, Prompt
<1>2. ~AgentConnect
  BY <1>0 DEF AgentConnect, Connect, OpenStream
<1>3. ASSUME UNCHANGED <<socket, stream, out>> PROVE Ordered'
  BY <1>0, <1>3, OrderedGoesOn DEF Still, Live
<1>4. ASSUME SendDisconnect, UNCHANGED <<socket, stream>> PROVE Ordered'
  <2>1. CASE socket = 0
    BY <1>3, <1>4, <2>1 DEF SendDisconnect
  <2>2. CASE socket # 0
    <3>1. /\ socket \in Stream /\ out'[socket] = Append(out[socket], Plain("disconnect"))
          /\ \A t \in Stream : t # socket => out'[t] = out[t]
      BY <1>0, <1>4, <2>2, DisconnectIsLocal, MaxStreamAssumption
         DEF SendDisconnect, Writes, ClientCore, ClientTypeOK, Stream
    <3>2. Unheard(socket) => Unheard(socket)'
      BY <1>0, <1>4, <3>1, PartingIsOrdered
    <3>3. \A t \in Stream : t # socket => Still(t)
      BY <1>0, <1>4, <3>1 DEF Still
    <3> QED BY <1>0, <1>4, <3>2, <3>3, OrderedGoesOn DEF Live
  <2> QED BY <2>1, <2>2
<1>5. AgentClose => Ordered'
  BY <1>4 DEF AgentClose, Disconnect, CloseClient
<1>6. ASSUME NEW k \in intervals, AgentKeepAliveTimeout(k) PROVE Ordered'
  BY <1>4, <1>6 DEF AgentKeepAliveTimeout, KeepAliveTimeout, CloseClient
<1>7. ASSUME NEW n \in retries, RetryFires(n), UNCHANGED agentVars PROVE Ordered'
  BY <1>0, <1>3, <1>7 DEF RetryFires, OpenStream, agentVars
<1>8. TimeoutFires \/ (\E k \in intervals : SendPing(k)) => UNCHANGED <<socket, stream>>
  BY <1>0 DEF TimeoutFires, SendPing, ClientCore, OnlyFirstAttemptIsTimed, NoneLeftOver
<1> QED BY <1>1, <1>2, <1>3, <1>5, <1>6, <1>7, <1>8, ProcessCases DEF agentVars

(* A message that reaches the process leaves its stream in order: only an   *)
(* acknowledgement lets it greet.                                           *)
LEMMA DeliveriesOrdered ==
  ASSUME Sound, Registry, Ordered, ShedKept, Over', ~AsyncToken, ~AsyncHandler,
         NEW s \in Stream, ProcessHandles(s)
  PROVE  Ordered'
<1>0. /\ ClientTypeOK /\ Links /\ Writes /\ Packets /\ UNCHANGED <<cut, conn, msock>>
      /\ down[s] # <<>> /\ s \notin cut /\ Live(s) /\ conn[s] # "idle"
      /\ down' = [down EXCEPT ![s] = Tail(@)]
  BY CarryingIsLive DEF ProcessHandles, masterVars, Sound, Registry, ClientCore, Links
<1>1. s = socket /\ Unheard(s) /\ down'[s] = Tail(down[s])
  BY <1>0, DeliveredIsHeard DEF Ordered, Shed, Packets
<1>2. ASSUME socket' = s, stream'[s] = "open", \A n : ~Greets(s, n)',
             \A t \in Stream : t # s => stream'[t] = stream[t]
      PROVE  Ordered'
  <2>1. Unheard(s)'
    BY <1>0, <1>2 DEF Unheard
  <2> QED BY <1>0, <1>1, <1>2, <2>1, OrderedGoesOn DEF Live
<1>3. ASSUME stream[s] = "open", socket' = socket, stream' = stream,
             \/ out'[s] = out[s]
             \/ \E w \in Word : w.topic = "response" /\ out'[s] = Append(out[s], w)
      PROVE  Ordered'
  <2>1. \A n : ~Greets(s, n)
    BY <1>0, <1>1 DEF Unheard
  <2>2. CASE out'[s] = out[s]
    BY <1>1, <1>2, <1>3, <2>1, <2>2 DEF Greets
  <2>3. ASSUME NEW w \in Word, w.topic = "response", out'[s] = Append(out[s], w) PROVE Ordered'
    <3>1. /\ \A n \in DOMAIN out'[s] : n \notin DOMAIN out[s] => out'[s][n] = w
          /\ \A n \in DOMAIN out[s] : n \in DOMAIN out'[s] /\ out'[s][n] = out[s][n]
      BY <2>3, AppendAdds DEF Writes, Sound
    <3> QED BY <1>1, <1>2, <1>3, <2>1, <2>3, <3>1 DEF Greets
  <2> QED BY <1>3, <2>2, <2>3
<1>4. OnRegister(s, TRUE) \/ OnRegister(s, FALSE) \/ OnReconnectOk(s, TRUE)
      \/ OnReconnectOk(s, FALSE) \/ OnAnswer(s, Head(down[s]).id) => Ordered'
  BY <1>3 DEF OnRegister, OnReconnectOk, OnAnswer, Receives, clientVars
<1>5. ASSUME AgentDisconnectPacket(s) PROVE Ordered'
  <2>1. stream[s] = "open" /\ stream' = stream /\ out' = out
    BY <1>5 DEF AgentDisconnectPacket, DisconnectPacket
  <2>2. CASE closed
    BY <1>3, <1>5, <2>1, <2>2 DEF AgentDisconnectPacket, DisconnectPacket, OnSocketClose
  <2>3. CASE ~closed
    <3>1. connectedTimes > 1 /\ \A n \in Nat : n + 1 \in retries \cup {n + 1}
      BY <1>0, <2>1 DEF Sound, ClientCore, FirstTry, ClientTypeOK
    <3>2. retries' # {}
      BY <1>5, <2>3, <3>1 DEF AgentDisconnectPacket, DisconnectPacket, OnSocketClose, Reconnect
    <3> QED BY <3>2 DEF Over
  <2> QED BY <2>2, <2>3
<1>6. ASSUME Delivers(s, "monitor"), OnRequest(s, Head(down[s]).id) PROVE Ordered'
  <2> DEFINE m == [topic |-> "response", id |-> Head(down[s]).id]
  <2>1. stream[s] = "open" /\ UNCHANGED <<socket, stream>> /\ Head(down[s]).id \in Nat
    BY <1>6 DEF OnRequest, Receives, clientVars, Delivers, Packet
  <2>2. out'[s] = out[s] \/ out'[s] = Append(out[s], m)
    BY <1>0, <1>6 DEF OnRequest, Send, SendNothing, Writes
  <2>3. m \in Word
    BY <2>1, Words
  <2> QED BY <1>3, <2>1, <2>2, <2>3
<1>7. ASSUME AgentConnack(s) PROVE Ordered'
  <2>1. /\ stream[s] = "connecting" /\ socket' = socket
        /\ stream' = [stream EXCEPT ![s] = "open"]
    BY <1>7 DEF AgentConnack, Connack
  <2>2. /\ down[s] = <<Msg("connack", 0)>> /\ ~msock[s].registered
        /\ \A n \in DOMAIN out[s] : out[s][n].topic = "disconnect"
    BY <1>0, <1>1, <2>1 DEF Unheard
  <2>3. down'[s] = <<>>
    BY <1>1, <2>2, OneMessage
  <2>4. \/ out'[s] = out[s]
        \/ \E w \in Word : out'[s] = Append(out[s], w)
    <3>1. \/ out' = out
          \/ out' = [out EXCEPT ![s] = Append(@, Plain("register"))]
          \/ out' = [out EXCEPT ![s] = Append(@, Plain("reconnect"))]
      BY <1>0, <1>1, <1>7, <2>1 DEF AgentConnack, OnConnect, OnReconnect, Send, SendNothing,
         Stream
    <3> QED BY <1>0, <3>1, Words DEF Writes
  <2>5. \A m, n \in DOMAIN out'[s] :
          out'[s][m].topic # "disconnect" /\ out'[s][n].topic # "disconnect" => m = n
    <3>1. CASE out'[s] = out[s]
      BY <2>2, <3>1
    <3>2. ASSUME NEW w \in Word, out'[s] = Append(out[s], w),
                 NEW n \in DOMAIN out'[s], out'[s][n].topic # "disconnect"
          PROVE  n = Len(out[s]) + 1
      <4>1. /\ Len(out[s]) \in Nat /\ DOMAIN out[s] = 1 .. Len(out[s])
            /\ DOMAIN out'[s] = 1 .. Len(out[s]) + 1
            /\ \A i \in 1 .. Len(out[s]) : out'[s][i] = out[s][i]
        <5>1. out[s] \in Seq(Word)
          BY <1>0 DEF Writes
        <5>2. /\ Append(out[s], w) \in Seq(Word) /\ Len(Append(out[s], w)) = Len(out[s]) + 1
              /\ \A i \in 1 .. Len(out[s]) : Append(out[s], w)[i] = out[s][i]
          BY <5>1, AppendProperties
        <5> QED BY <3>2, <5>1, <5>2, LenProperties
      <4> QED BY <2>2, <3>2, <4>1
    <3> QED BY <2>4, <3>1, <3>2
  <2>6. Unheard(s)'
    <3>1. stream'[s] = "open" /\ conn'[s] # "idle" /\ ~msock'[s].registered
      BY <1>0, <2>1, <2>2 DEF ClientTypeOK
    <3>2. \A n : Greets(s, n)' => \A m \in DOMAIN out'[s] : m # n => out'[s][m].topic = "disconnect"
      BY <2>5 DEF Greets
    <3> QED BY <2>3, <3>1, <3>2 DEF Unheard
  <2>7. stream'[s] = "open" /\ \A t \in Stream : t # s => stream'[t] = stream[t]
    BY <1>0, <2>1 DEF ClientTypeOK
  <2>8. \A t \in Stream : Live(t)' => Live(t)
    BY <1>0, <2>7 DEF Live
  <2>9. cut' = cut
    BY <1>0
  <2> QED BY <1>1, <2>1, <2>6, <2>8, <2>9, OrderedGoesOn
<1> QED BY <1>0, <1>4, <1>5, <1>6, <1>7, DeliveryCases

(* So does a message that reaches the master: its verdict follows the       *)
(* greeting, and nothing but a greeting gets the stream registered.         *)
LEMMA HandlersOrdered ==
  ASSUME Sound, Registry, Ordered, ShedKept, NEW s \in Stream, MasterHandles(s)
  PROVE  Ordered'
<1>0. Owns /\ Links /\ Packets /\ Writes /\ ClientTypeOK
  BY DEF Sound, Registry, ClientCore
<1>1. PICK t : Arrives(s, t)
  BY DEF MasterHandles, MasterOnRegister, MasterOnReconnect, MasterOnDisconnect,
     MasterOnResponse, MasterOnNotify, MasterOnRequest
<1>2. /\ UNCHANGED <<clientVars, cut>> /\ s \notin cut /\ conn[s] # "idle" /\ Live(s)
      /\ out[s] \in Seq(Word) /\ out[s] # <<>> /\ out'[s] = Tail(out[s])
      /\ Head(out[s]).topic = t
  BY <1>0, <1>1, CarryingIsLive DEF Arrives, Carry, Writes, M!Open
<1>3. s = socket /\ Unheard(s)
  BY <1>2 DEF Ordered, Shed
<1>4. /\ 1 \in DOMAIN out[s] /\ out[s][1].topic = t
      /\ \A n \in DOMAIN out'[s] : /\ n + 1 # 1 /\ n + 1 \in DOMAIN out[s]
                                   /\ out'[s][n] = out[s][n + 1]
  BY <1>2, TailShifts
<1>5. ASSUME Unheard(s)' PROVE Ordered'
  BY <1>2, <1>3, <1>5, OrderedGoesOn DEF clientVars, Live
<1>6. ASSUME t # "disconnect", conn' = conn PROVE Ordered'
  <2>1. stream'[s] = "open"
    BY <1>2, <1>3, <1>4, <1>6 DEF Unheard, Live, clientVars
  <2>2. \A n : ~Greets(s, n)'
    <3>1. ASSUME NEW n, Greets(s, n)' PROVE FALSE
      <4>1. Greets(s, n + 1) /\ n + 1 # 1
        BY <1>4, <3>1 DEF Greets
      <4> QED BY <1>3, <1>4, <1>6, <4>1 DEF Unheard
    <3> QED BY <3>1
  <2>3. Unheard(s)'
    BY <1>2, <1>6, <2>1, <2>2 DEF Unheard
  <2> QED BY <1>5, <2>3
<1>7. ASSUME MasterOnDisconnect(s) PROVE Ordered'
  <2>1. /\ ~msock'[s].registered /\ conn'[s] # "idle" /\ down' = down
    BY <1>0, <1>7, DisconnectForgets DEF MasterOnDisconnect, Owns
  <2>2. stream'[s] = "connecting" =>
          \A n \in DOMAIN out'[s] : out'[s][n].topic = "disconnect"
    BY <1>2, <1>3, <1>4 DEF Unheard, clientVars
  <2>3. ASSUME NEW n, Greets(s, n)'
        PROVE  /\ stream[s] = "open" /\ down[s] = <<>>
               /\ \A m \in DOMAIN out'[s] : m # n => out'[s][m].topic = "disconnect"
    <3>1. n \in Int /\ Greets(s, n + 1)
      BY <1>2, <1>4, <2>3, TailShifts DEF Greets
    <3>2. ASSUME NEW m \in DOMAIN out'[s], m # n PROVE out'[s][m].topic = "disconnect"
      <4>1. m \in Int /\ m + 1 \in DOMAIN out[s] /\ out'[s][m] = out[s][m + 1]
        BY <1>2, <1>4, TailShifts
      <4>2. m + 1 # n + 1
        BY <3>1, <3>2, <4>1
      <4> QED BY <1>3, <3>1, <4>1, <4>2 DEF Unheard
    <3> QED BY <1>3, <3>1, <3>2 DEF Unheard
  <2>4. Unheard(s)'
    BY <1>2, <1>3, <2>1, <2>2, <2>3 DEF Unheard, clientVars
  <2> QED BY <1>5, <2>4
<1>8. ASSUME MasterOnRegister(s) \/ MasterOnReconnect(s) PROVE Ordered'
  <2>1. conn' = conn
    BY <1>8, GreetingAdmits, RefusalRecordsNothing
       DEF MasterOnRegister, MasterOnReconnect, masterVars
  <2>2. Head(out[s]).topic # "disconnect"
    BY <1>8 DEF MasterOnRegister, MasterOnReconnect, Arrives
  <2> QED BY <1>2, <1>6, <2>1, <2>2
<1>9. ASSUME MasterOnResponse(s) \/ MasterOnNotify(s) \/ MasterOnRequest(s) PROVE Ordered'
  <2>1. conn' = conn
    BY <1>9 DEF MasterOnResponse, MasterOnNotify, MasterOnRequest, Kick, masterVars,
       M!OnMonitorResponse, M!links
  <2>2. Head(out[s]).topic # "disconnect"
    BY <1>9 DEF MasterOnResponse, MasterOnNotify, MasterOnRequest, Arrives
  <2> QED BY <1>2, <1>6, <2>1, <2>2
<1> QED BY <1>7, <1>8, <1>9 DEF MasterHandles

(* Every step leaves the streams in order: a conversation is, and of a      *)
(* client that is closed for good each step was looked at.                  *)
LEMMA NextOrdered ==
  ASSUME Sound, Registry, Talk, Ordered, ~AsyncToken, ~AsyncHandler, MaxNotify = 0,
         ~MayRefuse \/ ~LateEvents, SessionNext
  PROVE  Ordered'
<1>0. Talk' /\ ShedKept /\ Prompt /\ Packets /\ Writes /\ Owns /\ Links /\ ClientTypeOK
  BY NextTalk, NextShed DEF Talk, Sound, Registry, ClientCore
<1> SUFFICES ASSUME Over' PROVE Ordered'
  BY <1>0, ConversingIsOrdered DEF Talk
<1>1. ASSUME ProcessDies \/ MasterListen PROVE Ordered'
  <2>1. UNCHANGED <<socket, stream, out, down, conn, msock, cut>>
    BY <1>1 DEF ProcessDies, MasterListen, M!Listen, M!links, vars, agentVars, clientVars,
       masterVars
  <2> QED BY <1>0, <2>1, OrderedGoesOn DEF Still, Live
<1>2. ~ProcessStarts
  BY DEF ProcessStarts, Over
<1>3. ASSUME MasterReboots PROVE Ordered'
  <2>1. UNCHANGED clientVars /\ cut' = cut \cup {s \in Used : stream[s] # "ended"}
    BY <1>3 DEF MasterReboots
  <2>2. \A s \in Stream : Live(s)' => Live(s) /\ s \in cut'
    BY <2>1 DEF Live, Used, clientVars
  <2> QED BY <1>0, <2>1, <2>2 DEF Ordered, ShedKept, clientVars
<1>4. ASSUME MasterRequest PROVE Ordered'
  <2>1. UNCHANGED <<socket, stream, out, cut, conn, msock>>
    BY <1>4 DEF MasterRequest, M!Request, M!links, vars, clientVars, agentVars
  <2>2. CASE ~M!HasPrimary(Id)
    BY <1>0, <1>4, <2>1, <2>2, OrderedGoesOn DEF MasterRequest, Still, Live
  <2>3. CASE M!HasPrimary(Id)
    <3>1. PICK s \in Stream : idMap[Id].socket = s /\ msock[s].registered
      BY <1>0, <2>3, RegisteredIsPrimary DEF Owns
    <3>2. \A t \in Stream : t # s => down'[t] = down[t]
      BY <1>0, <1>4, <2>3, <3>1 DEF MasterRequest, Reply, Packets
    <3>3. Unheard(s) => Unheard(s)'
      BY <2>1, <3>1 DEF Unheard, Greets
    <3> QED BY <1>0, <2>1, <3>2, <3>3, OrderedGoesOn DEF Still, Live
  <2> QED BY <2>2, <2>3
<1>5. ASSUME NEW s \in Stream, MasterAccepts(s) PROVE Ordered'
  <2>1. /\ UNCHANGED <<socket, stream, out, cut, msock>> /\ s \notin cut /\ conn[s] = "idle"
        /\ conn'[s] # "idle"
        /\ \A u \in Stream : u # s => down'[u] = down[u] /\ conn'[u] = conn[u]
    BY <1>0, <1>5
       DEF MasterAccepts, M!Connection, vars, clientVars, agentVars, Reply, Packets, Owns
  <2>2. down'[s] = <<Msg("connack", 0)>>
    <3>1. down[s] = <<>>
      BY <1>0, <2>1 DEF Links
    <3> QED BY <1>0, <1>5, <2>1, <3>1 DEF MasterAccepts, Reply, Packets
  <2>3. Unheard(s) => Unheard(s)'
    BY <2>1, <2>2 DEF Unheard, Greets
  <2> QED BY <1>0, <2>1, <2>3, OrderedGoesOn DEF Still, Live
<1>6. ASSUME NEW s \in Stream, MasterSeesEnd(s) \/ Cut(s) PROVE Ordered'
  <2>1. /\ UNCHANGED <<socket, stream>> /\ cut \subseteq cut' /\ s \in cut'
        /\ \A u \in Stream : u # s => down'[u] = down[u] /\ out'[u] = out[u]
    BY <1>0, <1>6
       DEF MasterSeesEnd, Cut, vars, clientVars, agentVars, masterVars, Packets, Writes
  <2>2. \A u \in Stream \ {s} : msock'[u] = msock[u] /\ conn'[u] = conn[u]
    BY <1>0, <1>6, EndForgets DEF MasterSeesEnd, Cut, masterVars
  <2>3. \A u \in Stream : u # s => Still(u)
    BY <2>1, <2>2 DEF Still
  <2> QED BY <1>0, <2>1, <2>3, OrderedGoesOn DEF Live
<1>7. ASSUME NEW s \in Stream, ProcessSeesEnd(s) PROVE Ordered'
  <2>1. Live(s) /\ stream' = [stream EXCEPT ![s] = "ended"] /\ (LateEvents \/ s = socket)
    BY <1>7 DEF ProcessSeesEnd, StreamEnds, Reports, Live
  <2>2. \A u \in Stream : Live(u)' => Shed(u)
    BY <1>0, <2>1 DEF Ordered, Live, Shed, ClientTypeOK
  <2> QED BY <1>0, <2>2 DEF Ordered, ShedKept
<1>8. ASSUME NEW s \in Stream, ProcessPonged(s) PROVE Ordered'
  BY <1>0, <1>8, OrderedGoesOn DEF ProcessPonged, Pingresp, agentVars, masterVars, Still, Live
<1>9. ASSUME NEW s \in Stream, LosesWrite(s) PROVE Ordered'
  <2>1. /\ UNCHANGED <<clientVars, cut, down, conn, msock>> /\ s \in cut
        /\ \A u \in Stream : u # s => out'[u] = out[u]
    BY <1>0, <1>9, CarryShrinks DEF LosesWrite, Carry, masterVars
  <2>2. \A u \in Stream : u # s => Still(u)
    BY <2>1 DEF Still, clientVars
  <2> QED BY <1>0, <2>1, <2>2, OrderedGoesOn DEF clientVars, Live
<1> QED
  BY <1>0, <1>1, <1>2, <1>3, <1>4, <1>5, <1>6, <1>7, <1>8, <1>9, StepsOrdered, DeliveriesOrdered,
     HandlersOrdered, SessionCases

-----------------------------------------------------------------------------
(* What is answered is not asked again *)

(* The QoS table holds what has a callback, and nothing that was answered.  *)
Ledger ==
  /\ msgMap[Id] = callbacks
  /\ answers \in [Req -> Nat]
  /\ \A r \in callbacks : r < reqId
  /\ \A r \in Req : answers[r] > 0 => r < reqId /\ r \notin callbacks

Asks(s, n) == n \in DOMAIN down[s] /\ down[s][n].topic = "monitor"
Answers(s, n) == n \in DOMAIN out[s] /\ out[s][n].topic = "response"

(* A request under way on s, to the process or as its answer, is under way  *)
(* once and has its callback.                                               *)
OnceOn(s) ==
  /\ \A m, n : Asks(s, m) /\ Asks(s, n) /\ down[s][m].id = down[s][n].id => m = n
  /\ \A m, n : Answers(s, m) /\ Answers(s, n) /\ out[s][m].id = out[s][n].id => m = n
  /\ \A m, n : Asks(s, m) /\ Answers(s, n) => down[s][m].id # out[s][n].id
  /\ \A n : Asks(s, n) => down[s][n].id \in callbacks
  /\ \A n : Answers(s, n) => out[s][n].id \in callbacks

Once == \A s \in Stream : s \notin cut => OnceOn(s) \/ Shed(s)

(* Every step keeps the QoS table to what is owed.                          *)
LEMMA NextLedger ==
  ASSUME Sound, Registry, Ledger, SessionNext
  PROVE  Ledger'
<1>0. Ids /\ Owns
  BY DEF Sound, Registry
<1>1. ASSUME UNCHANGED <<reqId, callbacks, msgMap, answers>> PROVE Ledger'
  BY <1>1 DEF Ledger
<1>2. ProcessDies \/ ProcessStarts \/ ProcessSteps => Ledger'
  BY <1>1 DEF ProcessDies, ProcessStarts, ProcessSteps, masterVars
<1>3. ASSUME MasterReboots PROVE Ledger'
  <2>1. /\ reqId' = 1 /\ callbacks' = {} /\ msgMap' = [i \in {Id} |-> {}]
        /\ answers' = [r \in Req |-> 0]
    BY <1>3 DEF MasterReboots
  <2> QED BY <2>1 DEF Ledger
<1>4. MasterListen => Ledger'
  BY <1>1 DEF MasterListen, M!Listen, M!qos
<1>5. ASSUME MasterRequest PROVE Ledger'
  <2>1. /\ reqId \in Req /\ reqId' = reqId + 1 /\ callbacks' = callbacks \cup {reqId}
        /\ msgMap' = [msgMap EXCEPT ![Id] = @ \cup {reqId}] /\ answers' = answers
    BY <1>5 DEF MasterRequest, M!Request, M!Req, Req
  <2> QED BY <1>0, <2>1 DEF Ledger, Ids, Req
<1>6. ASSUME NEW s \in Stream, MasterAccepts(s) PROVE Ledger'
  BY <1>1, <1>6 DEF MasterAccepts, M!Connection, M!qos
<1>7. ASSUME NEW s \in Stream, MasterHandles(s) PROVE Ledger'
  <2>1. CASE MasterOnRegister(s) \/ MasterOnReconnect(s) \/ MasterOnDisconnect(s)
    BY <1>1, <2>1 DEF MasterOnRegister, RegisterAccepted, RegisterRefused, MasterOnReconnect,
       MasterOnDisconnect, M!OnRegisterMonitor, M!OnReconnect, M!OnDisconnect, M!qos, masterVars
  <2>2. CASE MasterOnResponse(s)
    <3>1. UNCHANGED masterVars => Ledger'
      BY <1>1 DEF masterVars
    <3>2. ASSUME NEW r, M!OnMonitorResponse(s, r) PROVE Ledger'
      <4>1. msock[s].registered /\ r \in callbacks /\ callbacks' = callbacks \ {r}
            /\ msgMap' = [msgMap EXCEPT ![msock[s].id] = @ \ {r}]
            /\ answers' = [answers EXCEPT ![r] = @ + 1] /\ reqId' = reqId
        BY <3>2 DEF M!OnMonitorResponse, M!MayAnswer
      <4>2. msock[s].id = Id
        BY <1>0, <4>1 DEF Owns, M!Greeted
      <4>3. r \in Req
        BY <1>0, <4>1 DEF Ledger, Ids
      <4> QED BY <1>0, <4>1, <4>2, <4>3 DEF Ledger, Ids
    <3> QED BY <2>2, <3>1, <3>2 DEF MasterOnResponse, Kick
  <2>3. CASE MasterOnNotify(s) \/ MasterOnRequest(s)
    BY <1>1, <2>3 DEF MasterOnNotify, MasterOnRequest, Kick, masterVars
  <2> QED BY <1>7, <2>1, <2>2, <2>3 DEF MasterHandles
<1>8. ASSUME NEW s \in Stream, MasterSeesEnd(s) \/ Cut(s) PROVE Ledger'
  BY <1>1, <1>8 DEF MasterSeesEnd, Cut, M!StreamClose, M!OnDisconnect, M!qos, masterVars
<1>9. ASSUME NEW s \in Stream,
             ProcessHandles(s) \/ ProcessSeesEnd(s) \/ ProcessPonged(s) \/ LosesWrite(s)
      PROVE  Ledger'
  BY <1>1, <1>9 DEF ProcessHandles, ProcessSeesEnd, ProcessPonged, LosesWrite, masterVars
<1> QED BY <1>2, <1>3, <1>4, <1>5, <1>6, <1>7, <1>8, <1>9, SessionCases

(* What both directions of a stream keep of OnceOn.                         *)
LEMMA OnceKept ==
  ASSUME NEW s, OnceOn(s), down'[s] = down[s], out'[s] = out[s], callbacks \subseteq callbacks'
  PROVE  OnceOn(s)'
BY DEF OnceOn, Asks, Answers

(* A stream that carries neither requests nor answers.                      *)
LEMMA NothingIsOnce ==
  ASSUME NEW s, \A n : ~Asks(s, n)', \A n : ~Answers(s, n)'
  PROVE  OnceOn(s)'
BY DEF OnceOn

(* Streams other than the current one carry nothing, but for those the      *)
(* process was told to leave.                                               *)
LEMMA OthersAreEmpty ==
  ASSUME Links, ClientTypeOK, Ordered, NEW s \in Stream, s \notin cut, s # socket
  PROVE  Shed(s) \/ (out[s] = <<>> /\ down[s] = <<>>)
BY CarryingIsLive DEF Links, Ordered

(* What the master takes is answered by no request. *)
LEMMA TakenOnce ==
  ASSUME Packets, Writes, NEW s \in Stream, out[s] # <<>>, out'[s] = Tail(out[s]),
         \/ down'[s] = down[s]
         \/ \E p \in Packet : p.topic # "monitor" /\ down'[s] = Append(down[s], p),
         callbacks' = callbacks, OnceOn(s)
  PROVE  OnceOn(s)'
<1>1. \A n : Answers(s, n)' =>
        n \in Int /\ Answers(s, n + 1) /\ out'[s][n] = out[s][n + 1]
  BY TailShifts DEF Answers, Writes
<1>2. ASSUME NEW n, Asks(s, n)' PROVE Asks(s, n) /\ down'[s][n] = down[s][n]
  <2>1. ASSUME NEW p \in Packet, p.topic # "monitor", down'[s] = Append(down[s], p)
        PROVE  n \in DOMAIN down[s] /\ down'[s][n] = down[s][n]
    <3>1. down[s] \in Seq(Packet)
      BY DEF Packets
    <3>2. n \in DOMAIN down[s]
      BY <1>2, <2>1, <3>1, AppendAdds DEF Asks
    <3> QED BY <2>1, <3>1, <3>2, AppendAdds
  <2> QED BY <1>2, <2>1 DEF Asks
<1>3. \A m, n : Asks(s, m)' /\ Asks(s, n)' /\ down'[s][m].id = down'[s][n].id => m = n
  BY <1>2 DEF OnceOn
<1>4. ASSUME NEW m, NEW n, Answers(s, m)', Answers(s, n)', out'[s][m].id = out'[s][n].id
      PROVE  m = n
  <2>1. /\ m \in Int /\ n \in Int /\ Answers(s, m + 1) /\ Answers(s, n + 1)
        /\ out[s][m + 1].id = out[s][n + 1].id
    BY <1>1, <1>4
  <2>2. m + 1 = n + 1
    BY <2>1 DEF OnceOn
  <2> QED BY <2>1, <2>2
<1>5. ASSUME NEW m, NEW n, Asks(s, m)', Answers(s, n)' PROVE down'[s][m].id # out'[s][n].id
  <2>1. /\ Asks(s, m) /\ down'[s][m] = down[s][m]
        /\ Answers(s, n + 1) /\ out'[s][n] = out[s][n + 1]
    BY <1>1, <1>2, <1>5
  <2> QED BY <2>1 DEF OnceOn
<1>6. /\ \A n : Asks(s, n)' => down'[s][n].id \in callbacks'
      /\ \A n : Answers(s, n)' => out'[s][n].id \in callbacks'
  BY <1>1, <1>2 DEF OnceOn
<1> QED BY <1>3, <1>4, <1>5, <1>6 DEF OnceOn

(* A DISCONNECT is no answer. *)
LEMMA PartedOnce ==
  ASSUME Writes, NEW s \in Stream, out'[s] = Append(out[s], Plain("disconnect")),
         down'[s] = down[s], callbacks \subseteq callbacks', OnceOn(s)
  PROVE  OnceOn(s)'
<1>1. Plain("disconnect").topic # "response" /\ Plain("disconnect") \in Word
  BY Words DEF Plain
<1>2. ASSUME NEW n, Answers(s, n)' PROVE Answers(s, n) /\ out'[s][n] = out[s][n]
  <2>1. out[s] \in Seq(Word)
    BY DEF Writes
  <2>2. n \in DOMAIN out[s]
    BY <1>1, <1>2, <2>1, AppendAdds DEF Answers
  <2> QED BY <1>1, <1>2, <2>1, <2>2, AppendAdds DEF Answers
<1>3. \A n : Asks(s, n)' => Asks(s, n) /\ down'[s][n] = down[s][n]
  BY DEF Asks
<1> QED BY <1>2, <1>3 DEF OnceOn

(* The first message of a stream leaves. *)
LEMMA DeliveredOnce ==
  ASSUME Packets, NEW s \in Stream, down[s] # <<>>, down'[s] = Tail(down[s]), out'[s] = out[s],
         callbacks' = callbacks, OnceOn(s)
  PROVE  OnceOn(s)'
<1>1. /\ DOMAIN down[s] = 1 .. Len(down[s]) /\ DOMAIN down'[s] = 1 .. Len(down[s]) - 1
      /\ \A n \in 1 .. Len(down[s]) - 1 : down'[s][n] = down[s][n + 1]
      /\ Len(down[s]) \in Nat
  <2>1. down[s] \in Seq(Packet)
    BY DEF Packets
  <2> QED BY <2>1, HeadTailProperties, LenProperties
<1>2. \A n : Asks(s, n)' => n \in Int /\ Asks(s, n + 1) /\ down'[s][n] = down[s][n + 1]
  BY <1>1 DEF Asks
<1>3. \A m, n : Asks(s, m)' /\ Asks(s, n)' /\ down'[s][m].id = down'[s][n].id => m = n
  <2> SUFFICES ASSUME NEW m, NEW n, Asks(s, m)', Asks(s, n)', down'[s][m].id = down'[s][n].id
               PROVE  m = n
    OBVIOUS
  <2>1. m \in Int /\ n \in Int /\ m + 1 = n + 1
    BY <1>2 DEF OnceOn
  <2> QED BY <2>1
<1>4. \A n : (Answers(s, n)' <=> Answers(s, n)) /\ out'[s][n] = out[s][n]
  BY DEF Answers
<1>5. \A m, n : Answers(s, m)' /\ Answers(s, n)' /\ out'[s][m].id = out'[s][n].id => m = n
  BY <1>4 DEF OnceOn
<1>6. ASSUME NEW m, NEW n, Asks(s, m)', Answers(s, n)' PROVE down'[s][m].id # out'[s][n].id
  <2>1. Asks(s, m + 1) /\ Answers(s, n)
    BY <1>2, <1>4, <1>6
  <2>2. down[s][m + 1].id # out[s][n].id
    BY <2>1 DEF OnceOn
  <2> QED BY <1>2, <1>4, <1>6, <2>2
<1>7. \A n : Asks(s, n)' => down'[s][n].id \in callbacks'
  BY <1>2 DEF OnceOn
<1>8. \A n : Answers(s, n)' => out'[s][n].id \in callbacks'
  BY <1>4 DEF OnceOn
<1> QED BY <1>3, <1>5, <1>6, <1>7, <1>8 DEF OnceOn

(* A request is delivered and its answer written at once. *)
LEMMA AnsweredOnce ==
  ASSUME Packets, Writes, NEW s \in Stream, down[s] # <<>>, down'[s] = Tail(down[s]),
         Head(down[s]).topic = "monitor",
         out'[s] = Append(out[s], [topic |-> "response", id |-> Head(down[s]).id]),
         callbacks' = callbacks, OnceOn(s)
  PROVE  OnceOn(s)'
<1> DEFINE w == [topic |-> "response", id |-> Head(down[s]).id]
<1>1. /\ DOMAIN down[s] = 1 .. Len(down[s]) /\ DOMAIN down'[s] = 1 .. Len(down[s]) - 1
      /\ \A n \in 1 .. Len(down[s]) - 1 : down'[s][n] = down[s][n + 1]
      /\ Len(down[s]) \in Nat \ {0} /\ Head(down[s]) = down[s][1] /\ Head(down[s]) \in Packet
  <2>1. down[s] \in Seq(Packet)
    BY DEF Packets
  <2> QED BY <2>1, HeadTailProperties, LenProperties, EmptySeq
<1>2. /\ DOMAIN out[s] = 1 .. Len(out[s]) /\ DOMAIN out'[s] = 1 .. Len(out[s]) + 1
      /\ \A n \in 1 .. Len(out[s]) : out'[s][n] = out[s][n]
      /\ out'[s][Len(out[s]) + 1] = w /\ Len(out[s]) \in Nat
  <2>1. out[s] \in Seq(Word) /\ w \in Word
    BY <1>1, Words DEF Writes, Packet
  <2> HIDE DEF w
  <2>2. out'[s] = Append(out[s], w)
    BY DEF w
  <2> QED BY <2>1, <2>2, AppendProperties, LenProperties
<1>3. \A n : Asks(s, n)' => n \in Int /\ n + 1 # 1 /\ Asks(s, n + 1) /\ down'[s][n] = down[s][n + 1]
  BY <1>1 DEF Asks
<1>4. Asks(s, 1) /\ w.id = down[s][1].id
  BY <1>1 DEF Asks
<1>5. ASSUME NEW n, Answers(s, n)'
      PROVE  \/ Answers(s, n) /\ out'[s][n] = out[s][n] /\ n # Len(out[s]) + 1
             \/ n = Len(out[s]) + 1 /\ out'[s][n] = w
  BY <1>2, <1>5 DEF Answers
<1> HIDE DEF w
<1>6. \A m, n : Asks(s, m)' /\ Asks(s, n)' /\ down'[s][m].id = down'[s][n].id => m = n
  <2> SUFFICES ASSUME NEW m, NEW n, Asks(s, m)', Asks(s, n)', down'[s][m].id = down'[s][n].id
               PROVE  m = n
    OBVIOUS
  <2>1. m \in Int /\ n \in Int /\ m + 1 = n + 1
    BY <1>3 DEF OnceOn
  <2> QED BY <2>1
<1>7. ASSUME NEW m, NEW n, Answers(s, m)', Answers(s, n)', out'[s][m].id = out'[s][n].id
      PROVE  m = n
  <2>1. \A i : Answers(s, i) => out[s][i].id # w.id
    BY <1>4 DEF OnceOn
  <2>2. CASE Answers(s, m) /\ Answers(s, n) /\ out'[s][m] = out[s][m] /\ out'[s][n] = out[s][n]
    BY <1>7, <2>2 DEF OnceOn
  <2>3. CASE ~(Answers(s, m) /\ Answers(s, n) /\ out'[s][m] = out[s][m] /\ out'[s][n] = out[s][n])
    <3>1. out'[s][m] = w \/ out'[s][n] = w
      BY <1>5, <1>7, <2>3
    <3>2. out'[s][m].id = w.id /\ out'[s][n].id = w.id
      BY <1>7, <3>1
    <3>3. /\ ~(Answers(s, m) /\ out'[s][m] = out[s][m])
          /\ ~(Answers(s, n) /\ out'[s][n] = out[s][n])
      BY <2>1, <3>2
    <3>4. m = Len(out[s]) + 1 /\ n = Len(out[s]) + 1
      BY <1>5, <1>7, <3>3
    <3> QED BY <3>4
  <2> QED BY <2>2, <2>3
<1>8. ASSUME NEW m, NEW n, Asks(s, m)', Answers(s, n)' PROVE down'[s][m].id # out'[s][n].id
  <2>1. Asks(s, m + 1) /\ m + 1 # 1 /\ down'[s][m] = down[s][m + 1]
    BY <1>3, <1>8
  <2>2. down[s][m + 1].id # w.id
    BY <1>4, <2>1 DEF OnceOn
  <2>3. Answers(s, n) => down[s][m + 1].id # out[s][n].id
    BY <2>1 DEF OnceOn
  <2> QED BY <1>5, <1>8, <2>1, <2>2, <2>3
<1>9. \A n : Asks(s, n)' => down'[s][n].id \in callbacks'
  BY <1>3 DEF OnceOn
<1>10. \A n : Answers(s, n)' => out'[s][n].id \in callbacks'
  BY <1>4, <1>5 DEF OnceOn
<1> QED BY <1>6, <1>7, <1>8, <1>9, <1>10 DEF OnceOn

(* An answer arrives and its callback is called. *)
LEMMA ArrivedOnce ==
  ASSUME Writes, NEW s \in Stream, out[s] # <<>>, out'[s] = Tail(out[s]), down'[s] = down[s],
         Head(out[s]).topic = "response", callbacks' = callbacks \ {Head(out[s]).id}, OnceOn(s)
  PROVE  OnceOn(s)'
<1>1. /\ DOMAIN out[s] = 1 .. Len(out[s]) /\ DOMAIN out'[s] = 1 .. Len(out[s]) - 1
      /\ \A n \in 1 .. Len(out[s]) - 1 : out'[s][n] = out[s][n + 1]
      /\ Len(out[s]) \in Nat \ {0} /\ Head(out[s]) = out[s][1]
  <2>1. out[s] \in Seq(Word)
    BY DEF Writes
  <2> QED BY <2>1, HeadTailProperties, LenProperties, EmptySeq
<1>2. \A n : Answers(s, n)' => n \in Int /\ n + 1 # 1 /\ Answers(s, n + 1) /\ out'[s][n] = out[s][n + 1]
  BY <1>1 DEF Answers
<1>3. Answers(s, 1) /\ callbacks' = callbacks \ {out[s][1].id}
  BY <1>1 DEF Answers
<1>4. \A n : (Asks(s, n)' <=> Asks(s, n)) /\ down'[s][n] = down[s][n]
  BY DEF Asks
<1>5. \A m, n : Asks(s, m)' /\ Asks(s, n)' /\ down'[s][m].id = down'[s][n].id => m = n
  BY <1>4 DEF OnceOn
<1>6. \A m, n : Answers(s, m)' /\ Answers(s, n)' /\ out'[s][m].id = out'[s][n].id => m = n
  <2> SUFFICES ASSUME NEW m, NEW n, Answers(s, m)', Answers(s, n)', out'[s][m].id = out'[s][n].id
               PROVE  m = n
    OBVIOUS
  <2>1. m \in Int /\ n \in Int /\ m + 1 = n + 1
    BY <1>2 DEF OnceOn
  <2> QED BY <2>1
<1>7. ASSUME NEW m, NEW n, Asks(s, m)', Answers(s, n)' PROVE down'[s][m].id # out'[s][n].id
  <2>1. Asks(s, m) /\ Answers(s, n + 1)
    BY <1>2, <1>4, <1>7
  <2>2. down[s][m].id # out[s][n + 1].id
    BY <2>1 DEF OnceOn
  <2> QED BY <1>2, <1>4, <1>7, <2>2
<1>8. ASSUME NEW n, Asks(s, n)' PROVE down'[s][n].id \in callbacks'
  <2>1. Asks(s, n) /\ down'[s][n] = down[s][n]
    BY <1>4, <1>8
  <2>2. down[s][n].id \in callbacks /\ down[s][n].id # out[s][1].id
    BY <1>3, <2>1 DEF OnceOn
  <2> QED BY <1>3, <2>1, <2>2
<1>9. ASSUME NEW n, Answers(s, n)' PROVE out'[s][n].id \in callbacks'
  <2>1. n + 1 # 1 /\ Answers(s, n + 1) /\ out'[s][n] = out[s][n + 1]
    BY <1>2, <1>9
  <2>2. out[s][n + 1].id \in callbacks /\ out[s][n + 1].id # out[s][1].id
    BY <1>3, <2>1 DEF OnceOn
  <2> QED BY <1>3, <2>1, <2>2
<1> QED BY <1>5, <1>6, <1>7, <1>8, <1>9 DEF OnceOn

(* The master asks with a new id. *)
LEMMA AskedOnce ==
  ASSUME Packets, Ids, Ledger, NEW s \in Stream, OnceOn(s), out'[s] = out[s],
         down'[s] = Append(down[s], Msg("monitor", reqId)),
         callbacks' = callbacks \cup {reqId}
  PROVE  OnceOn(s)'
<1> DEFINE w == Msg("monitor", reqId)
<1>1. w.id = reqId /\ w \in Packet /\ reqId \notin callbacks
  <2>1. \A r \in callbacks : r < reqId /\ r \in Int /\ reqId \in Int
    BY DEF Ledger, Ids, Req
  <2> QED BY <2>1 DEF Msg, Packet, Topic, Ids
<1>2. /\ DOMAIN down[s] = 1 .. Len(down[s]) /\ DOMAIN down'[s] = 1 .. Len(down[s]) + 1
      /\ \A n \in 1 .. Len(down[s]) : down'[s][n] = down[s][n]
      /\ down'[s][Len(down[s]) + 1] = w /\ Len(down[s]) \in Nat
  <2> HIDE DEF w
  <2>1. down[s] \in Seq(Packet) /\ down'[s] = Append(down[s], w)
    BY DEF Packets, w
  <2> QED BY <1>1, <2>1, AppendProperties, LenProperties
<1> HIDE DEF w
<1>3. ASSUME NEW n, Asks(s, n)'
      PROVE  \/ Asks(s, n) /\ down'[s][n] = down[s][n] /\ n # Len(down[s]) + 1
             \/ n = Len(down[s]) + 1 /\ down'[s][n] = w
  BY <1>2, <1>3 DEF Asks
<1>4. \A n : (Answers(s, n)' <=> Answers(s, n)) /\ out'[s][n] = out[s][n]
  BY DEF Answers
<1>5. \A n : Asks(s, n) => down[s][n].id # w.id
  BY <1>1 DEF OnceOn
<1>6. \A n : Answers(s, n) => out[s][n].id # w.id
  BY <1>1 DEF OnceOn
<1>7. ASSUME NEW m, NEW n, Asks(s, m)', Asks(s, n)', down'[s][m].id = down'[s][n].id
      PROVE  m = n
  <2>1. CASE Asks(s, m) /\ Asks(s, n) /\ down'[s][m] = down[s][m] /\ down'[s][n] = down[s][n]
    BY <1>7, <2>1 DEF OnceOn
  <2>2. CASE ~(Asks(s, m) /\ Asks(s, n) /\ down'[s][m] = down[s][m] /\ down'[s][n] = down[s][n])
    <3>1. down'[s][m] = w \/ down'[s][n] = w
      BY <1>3, <1>7, <2>2
    <3>2. down'[s][m].id = w.id /\ down'[s][n].id = w.id
      BY <1>7, <3>1
    <3>3. /\ ~(Asks(s, m) /\ down'[s][m] = down[s][m])
          /\ ~(Asks(s, n) /\ down'[s][n] = down[s][n])
      BY <1>5, <3>2
    <3>4. m = Len(down[s]) + 1 /\ n = Len(down[s]) + 1
      BY <1>3, <1>7, <3>3
    <3> QED BY <3>4
  <2> QED BY <2>1, <2>2
<1>8. \A m, n : Answers(s, m)' /\ Answers(s, n)' /\ out'[s][m].id = out'[s][n].id => m = n
  BY <1>4 DEF OnceOn
<1>9. ASSUME NEW m, NEW n, Asks(s, m)', Answers(s, n)' PROVE down'[s][m].id # out'[s][n].id
  <2>1. Answers(s, n) /\ out'[s][n] = out[s][n] /\ out[s][n].id # w.id
    BY <1>4, <1>6, <1>9
  <2>2. Asks(s, m) => down[s][m].id # out[s][n].id
    BY <2>1 DEF OnceOn
  <2> QED BY <1>3, <1>9, <2>1, <2>2
<1>10. \A n : Asks(s, n)' => down'[s][n].id \in callbacks'
  BY <1>1, <1>3 DEF OnceOn
<1>11. \A n : Answers(s, n)' => out'[s][n].id \in callbacks'
  BY <1>4 DEF OnceOn
<1> QED BY <1>7, <1>8, <1>9, <1>10, <1>11 DEF OnceOn

(* The repush after the answer to a greeting holds what is owed, once. *)
LEMMA RepushedOnce ==
  ASSUME Packets, Ids, Ledger, NEW s \in Stream, s \notin cut, down[s] = <<>>,
         \A n : ~Answers(s, n)',
         NEW h \in Seq(Packet), \A n \in DOMAIN h : h[n].topic # "monitor",
         RepliesThenRepush(s, h), callbacks' = callbacks
  PROVE  OnceOn(s)'
<1>1. PICK q \in Repushed : Reply(s, h \o Again(q))
  BY DEF RepliesThenRepush, Again
<1> DEFINE a == Again(q)
<1>2. /\ a \in Seq(Packet) /\ Len(a) \in Nat /\ DOMAIN q = 1 .. Len(a)
      /\ \A n \in DOMAIN q : a[n] = Msg("monitor", q[n]) /\ q[n] \in callbacks
  <2>1. a \in Seq(Packet)
    BY AgainType
  <2>2. Len(a) \in Nat
    BY <2>1, LenProperties
  <2> QED BY <2>1, <2>2, AgainType DEF Ledger
<1>3. \A m, n \in DOMAIN q : q[m] = q[n] => m = n
  <2>1. \A m, n \in DOMAIN q : m \in Int /\ n \in Int /\ q[m] \in Int /\ q[n] \in Int
    BY <1>2 DEF Ledger, Ids, Req
  <2>2. \A m, n \in DOMAIN q : m < n => q[m] < q[n]
    BY DEF Repushed
  <2> QED BY <2>1, <2>2
<1>4. down' = [down EXCEPT ![s] = <<>> \o (h \o a)]
  BY <1>1 DEF Reply
<1> HIDE DEF a
<1> DEFINE d == h \o a
<1> HIDE DEF d
<1>5. /\ d \in Seq(Packet) /\ DOMAIN d = 1 .. Len(h) + Len(a)
      /\ Len(h) \in Nat /\ DOMAIN h = 1 .. Len(h)
      /\ \A n \in 1 .. Len(h) + Len(a) : d[n] = IF n <= Len(h) THEN h[n] ELSE a[n - Len(h)]
  <2>1. /\ d \in Seq(Packet) /\ Len(d) = Len(h) + Len(a)
        /\ \A n \in 1 .. Len(h) + Len(a) : d[n] = IF n <= Len(h) THEN h[n] ELSE a[n - Len(h)]
    BY <1>2, ConcatProperties DEF d
  <2> QED BY <2>1, LenProperties
<1>6. down'[s] = d
  <2>1. <<>> \o d = d
    BY <1>5, ConcatEmptySeq
  <2>2. down' = [down EXCEPT ![s] = <<>> \o d]
    BY <1>4 DEF d
  <2> QED BY <2>1, <2>2 DEF Packets
<1>7. ASSUME NEW n, Asks(s, n)'
      PROVE  n \in Int /\ n - Len(h) \in DOMAIN q /\ down'[s][n].id = q[n - Len(h)]
  <2>1. n \in 1 .. Len(h) + Len(a) /\ d[n].topic = "monitor"
    BY <1>5, <1>6, <1>7 DEF Asks
  <2>2. ASSUME n <= Len(h) PROVE FALSE
    <3>1. d[n] = h[n] /\ n \in DOMAIN h
      BY <1>5, <2>1, <2>2
    <3> QED BY <2>1, <3>1
  <2>3. n - Len(h) \in DOMAIN q /\ d[n] = a[n - Len(h)]
    BY <1>2, <1>5, <2>1, <2>2
  <2>4. d[n] = Msg("monitor", q[n - Len(h)])
    BY <1>2, <2>3
  <2>5. d[n].id = q[n - Len(h)]
    BY <2>4 DEF Msg
  <2> QED BY <1>6, <2>1, <2>3, <2>5
<1>8. \A m, n : Asks(s, m)' /\ Asks(s, n)' /\ down'[s][m].id = down'[s][n].id => m = n
  <2> SUFFICES ASSUME NEW m, NEW n, Asks(s, m)', Asks(s, n)', down'[s][m].id = down'[s][n].id
               PROVE  m = n
    OBVIOUS
  <2>1. m \in Int /\ n \in Int /\ m - Len(h) = n - Len(h)
    BY <1>3, <1>7
  <2> QED BY <1>5, <2>1
<1>9. \A n : Asks(s, n)' => down'[s][n].id \in callbacks'
  BY <1>2, <1>7
<1> QED BY <1>8, <1>9 DEF OnceOn

(* A step that writes on one stream, or on one that is cut. *)
LEMMA OnceUnless ==
  ASSUME Once, ShedKept, NEW s, cut \subseteq cut', callbacks \subseteq callbacks',
         \A t \in Stream : t # s => down'[t] = down[t] /\ out'[t] = out[t],
         s \in Stream /\ s \notin cut' /\ ~Shed(s) => OnceOn(s)'
  PROVE  Once'
BY OnceKept DEF Once, ShedKept

(* A step that leaves what is under way alone.                              *)
LEMMA SameWordsOnce ==
  ASSUME Once, ShedKept, UNCHANGED <<down, out>>, cut \subseteq cut',
         callbacks \subseteq callbacks'
  PROVE  Once'
BY OnceKept DEF Once, ShedKept

(* Every step of the process writes nothing that was answered.              *)
LEMMA StepsOnce ==
  ASSUME Sound, Registry, Once, ShedKept, Prompt, MaxNotify = 0, ProcessSteps
  PROVE  Once'
<1>0. /\ Writes /\ Inited /\ ClientCore /\ UNCHANGED <<down, cut, callbacks>>
  BY DEF ProcessSteps, Sound, Registry, masterVars
<1>1. out' = out => Once'
  BY <1>0, SameWordsOnce
<1>2. ~TokenReady /\ ~Notify /\ ~Request /\ \A r \in Req : ~HandlerDone(r)
  BY <1>0 DEF TokenReady, Inited, Notify, Request, Writes, HandlerDone, Prompt
<1>3. AgentConnect \/ UNCHANGED agentVars => out' = out
  BY DEF AgentConnect, agentVars
<1>4. ASSUME SendDisconnect PROVE Once'
  <2>1. CASE socket = 0
    BY <1>1, <1>4, <2>1 DEF SendDisconnect
  <2>2. CASE socket # 0
    <3>1. PICK s \in Stream : /\ s = socket /\ out'[s] = Append(out[s], Plain("disconnect"))
                              /\ \A t \in Stream : t # s => out'[t] = out[t]
      BY <1>0, <1>4, <2>2, DisconnectIsLocal, MaxStreamAssumption
         DEF SendDisconnect, Writes, ClientCore, ClientTypeOK, Stream
    <3>2. s \notin cut /\ ~Shed(s) => OnceOn(s)'
      BY <1>0, <3>1, PartedOnce DEF Once
    <3> QED BY <1>0, <3>1, <3>2, OnceUnless
  <2> QED BY <2>1, <2>2
<1>5. AgentClose => SendDisconnect
  BY DEF AgentClose
<1>6. \A k \in intervals : AgentKeepAliveTimeout(k) => SendDisconnect
  BY DEF AgentKeepAliveTimeout
<1> QED BY <1>1, <1>2, <1>3, <1>4, <1>5, <1>6, ProcessCases

(* A request that reaches the process is answered once.                     *)
LEMMA DeliveriesOnce ==
  ASSUME Sound, Registry, Once, Ordered, ShedKept, ~AsyncHandler, NEW s \in Stream,
         ProcessHandles(s)
  PROVE  Once'
<1>0. /\ ClientTypeOK /\ Links /\ Writes /\ Packets
      /\ UNCHANGED <<cut, callbacks>> /\ down[s] # <<>> /\ s \notin cut /\ Live(s)
      /\ down' = [down EXCEPT ![s] = Tail(@)] /\ s # 0
  BY CarryingIsLive DEF ProcessHandles, masterVars, Sound, Registry, ClientCore, Links, Stream
<1>1. /\ s = socket /\ Unheard(s) /\ OnceOn(s) /\ down'[s] = Tail(down[s])
      /\ \A t \in Stream : t # s => down'[t] = down[t]
  BY <1>0, DeliveredIsHeard DEF Ordered, Once, Shed, Packets
<1>2. ASSUME out' = out PROVE Once'
  <2>1. OnceOn(s)'
    BY <1>0, <1>1, <1>2, DeliveredOnce
  <2> QED BY <1>0, <1>1, <1>2, <2>1, OnceUnless
<1>3. OnRegister(s, TRUE) \/ OnRegister(s, FALSE) \/ OnReconnectOk(s, TRUE)
      \/ OnReconnectOk(s, FALSE) \/ AgentDisconnectPacket(s) \/ OnAnswer(s, Head(down[s]).id)
      => out' = out
  BY DEF OnRegister, OnReconnectOk, AgentDisconnectPacket, OnAnswer
<1>4. ASSUME Delivers(s, "monitor"), OnRequest(s, Head(down[s]).id) PROVE Once'
  <2>1. SendNothing => Once'
    BY <1>2 DEF SendNothing
  <2>2. ASSUME Send([topic |-> "response", id |-> Head(down[s]).id]) PROVE Once'
    <3>1. socket' = s
      BY <1>1, <1>4 DEF OnRequest, Receives, clientVars
    <3>2. /\ out'[s] = Append(out[s], [topic |-> "response", id |-> Head(down[s]).id])
          /\ \A t \in Stream : t # s => out'[t] = out[t]
      BY <1>0, <2>2, <3>1 DEF Send, Writes
    <3>3. Head(down[s]).topic = "monitor"
      BY <1>4 DEF Delivers
    <3>4. OnceOn(s)'
      BY <1>0, <1>1, <3>2, <3>3, AnsweredOnce
    <3> QED BY <1>0, <1>1, <3>2, <3>4, OnceUnless
  <2> QED BY <1>4, <2>1, <2>2 DEF OnRequest
<1>5. ASSUME AgentConnack(s) PROVE Once'
  <2>1. stream[s] = "connecting" /\ socket' = s
    BY <1>1, <1>5 DEF AgentConnack, Connack
  <2>2. /\ down'[s] = <<>> /\ \A n \in DOMAIN out[s] : out[s][n].topic = "disconnect"
    BY <1>0, <1>1, <2>1, OneMessage DEF Unheard
  <2>3. PICK w \in {Plain("register"), Plain("reconnect")} :
          out' = out \/ out' = [out EXCEPT ![s] = Append(@, w)]
    BY <1>0, <1>5, <2>1 DEF AgentConnack, OnConnect, OnReconnect, Send, SendNothing
  <2>4. \A t \in Stream : t # s => out'[t] = out[t]
    BY <1>0, <2>3 DEF Writes
  <2>5. ASSUME NEW n, Answers(s, n)' PROVE FALSE
    <3>1. out[s] \in Seq(Word) /\ w \in Word /\ w.topic # "response"
      BY <1>0, Words DEF Writes, Plain
    <3>2. out'[s] = out[s] \/ out'[s] = Append(out[s], w)
      BY <1>0, <2>3 DEF Writes
    <3>3. CASE out'[s] = out[s]
      BY <2>2, <2>5, <3>3 DEF Answers
    <3>4. CASE out'[s] = Append(out[s], w)
      <4>1. n \in DOMAIN out[s]
        BY <2>5, <3>1, <3>4, AppendAdds DEF Answers
      <4> QED BY <2>2, <2>5, <3>1, <3>4, <4>1, AppendAdds DEF Answers
    <3> QED BY <3>2, <3>3, <3>4
  <2>6. \A n : ~Asks(s, n)'
    BY <2>2 DEF Asks
  <2> QED BY <1>0, <1>1, <2>4, <2>5, <2>6, NothingIsOnce, OnceUnless
<1> QED BY <1>0, <1>2, <1>3, <1>4, <1>5, DeliveryCases

(* A greeting that arrives leaves no answer behind it. *)
LEMMA GreetedAlone ==
  ASSUME NEW s, Unheard(s), out[s] \in Seq(Word), out[s] # <<>>, out'[s] = Tail(out[s]),
         Head(out[s]).topic \in {"register", "reconnect"}
  PROVE  down[s] = <<>> /\ \A n : ~Answers(s, n)'
<1>1. Greets(s, 1)
  BY TailShifts DEF Greets
<1>2. ASSUME NEW n, Answers(s, n)' PROVE FALSE
  <2>1. n + 1 # 1 /\ n + 1 \in DOMAIN out[s] /\ out'[s][n] = out[s][n + 1]
    BY <1>2, TailShifts DEF Answers
  <2> QED BY <1>1, <1>2, <2>1 DEF Unheard, Answers
<1> QED BY <1>1, <1>2 DEF Unheard

(* A message that reaches the master, and what it sends back.               *)
LEMMA HandlersOnce ==
  ASSUME Sound, Registry, Ledger, Once, Ordered, ShedKept, NEW s \in Stream, MasterHandles(s)
  PROVE  Once'
<1>0. /\ ClientTypeOK /\ Links /\ Owns /\ Packets /\ Ids /\ Writes
  BY DEF Sound, Registry, ClientCore
<1>1. PICK t : Arrives(s, t)
  BY DEF MasterHandles, MasterOnRegister, MasterOnReconnect, MasterOnDisconnect,
     MasterOnResponse, MasterOnNotify, MasterOnRequest
<1>2. /\ s = socket /\ s \notin cut /\ cut' = cut /\ OnceOn(s) /\ Unheard(s)
      /\ \A u \in Stream \ {s} : out'[u] = out[u]
      /\ out[s] \in Seq(Word) /\ out[s] # <<>> /\ out'[s] = Tail(out[s])
  <2>1. s \notin cut /\ cut' = cut /\ conn[s] # "idle" /\ Carry(s)
    BY <1>1 DEF Arrives, M!Open
  <2>2. Live(s)
    BY <1>0, <2>1, CarryingIsLive
  <2>3. ~Shed(s)
    BY <1>1 DEF Arrives, Shed
  <2> QED BY <1>0, <1>1, <2>1, <2>2, <2>3, CarryShrinks DEF Arrives, Ordered, Once, Carry, Writes
<1>3. ASSUME OnceOn(s)', \A u \in Stream \ {s} : down'[u] = down[u] PROVE Once'
  <2>1. ASSUME NEW u \in Stream, u \notin cut, u # s, ~Shed(u) PROVE OnceOn(u)'
    <3>1. out'[u] = <<>> /\ down'[u] = <<>>
      BY <1>0, <1>2, <1>3, <2>1, OthersAreEmpty
    <3> QED BY <3>1, NothingIsOnce DEF Asks, Answers
  <2> QED BY <1>2, <1>3, <2>1 DEF Once, ShedKept
<1>4. ASSUME MasterOnRegister(s) \/ (MasterOnReconnect(s) /\ ~M!HasPrimary(Id)) PROVE Once'
  <2>1. callbacks' = callbacks
    BY <1>4, GreetingAdmits, RefusalRecordsNothing DEF MasterOnRegister
  <2>2. down[s] = <<>> /\ \A n : ~Answers(s, n)'
    <3>1. Head(out[s]).topic \in {"register", "reconnect"}
      BY <1>4 DEF MasterOnRegister, MasterOnReconnect, Arrives
    <3> QED BY <1>2, <3>1, GreetedAlone
  <2>3. ASSUME NEW v \in {"register", "reconnect_ok"}, Admits(s, v) PROVE Once'
    <3>1. <<Msg(v, 0)>> \in Seq(Packet) /\ \A n \in DOMAIN <<Msg(v, 0)>> :
            <<Msg(v, 0)>>[n].topic # "monitor"
      BY VerdictType DEF Topic, Msg
    <3>2. \A u \in Stream \ {s} : down'[u] = down[u]
      BY <1>0, <1>2, <2>2, <2>3, AdmissionTalks
    <3>3. RepliesThenRepush(s, <<Msg(v, 0)>>)
      BY <2>3 DEF Admits
    <3> QED BY <1>0, <1>2, <1>3, <2>1, <2>2, <3>1, <3>2, <3>3, RepushedOnce
  <2>4. ASSUME RepliesThenRepush(s, Fails) PROVE Once'
    <3>1. Fails \in Seq(Packet) /\ \A n \in DOMAIN Fails : Fails[n].topic # "monitor"
      BY VerdictType
    <3>2. \A u \in Stream \ {s} : down'[u] = down[u]
      BY <1>0, <1>2, <2>2, <2>4, RefusalTalks
    <3> QED BY <1>0, <1>2, <1>3, <2>1, <2>2, <2>4, <3>1, <3>2, RepushedOnce
  <2> QED BY <1>4, <2>3, <2>4
          DEF MasterOnRegister, RegisterAccepted, RegisterRefused, MasterOnReconnect, Fails
<1>5. ASSUME callbacks' = callbacks,
             down' = down \/ \E p \in Packet : p.topic # "monitor" /\ Reply(s, <<p>>)
      PROVE  Once'
  <2>1. ASSUME NEW p \in Packet, Reply(s, <<p>>)
        PROVE  down' = [down EXCEPT ![s] = Append(@, p)]
    <3>1. down[s] \in Seq(Packet)
      BY <1>0 DEF Packets
    <3> QED BY <1>2, <2>1, <3>1, AppendIsConcat DEF Reply
  <2>2. /\ \/ down'[s] = down[s]
           \/ \E p \in Packet : p.topic # "monitor" /\ down'[s] = Append(down[s], p)
        /\ \A u \in Stream \ {s} : down'[u] = down[u]
    BY <1>0, <1>5, <2>1 DEF Packets
  <2> QED BY <1>0, <1>2, <1>3, <1>5, <2>2, TakenOnce
<1>6. \A v \in {"refused", "disconnect", "answer"} : \A n \in Nat :
        Msg(v, n) \in Packet /\ Msg(v, n).topic # "monitor"
  BY MsgType DEF Topic, Msg
<1>7. ASSUME MasterOnReconnect(s), M!HasPrimary(Id) PROVE Once'
  BY <1>5, <1>6, <1>7 DEF MasterOnReconnect, masterVars
<1>8. ASSUME Kick(s) PROVE Once'
  BY <1>5, <1>6, <1>8 DEF Kick, masterVars
<1>9. ASSUME MasterOnResponse(s), msock[s].registered PROVE Once'
  <2>1. Head(out[s]).topic = "response" /\ down' = down
    BY <1>9 DEF MasterOnResponse, Arrives
  <2>2. CASE Head(out[s]).id \in callbacks
    <3>1. callbacks' = callbacks \ {Head(out[s]).id}
      BY <1>9, <2>2 DEF MasterOnResponse, M!OnMonitorResponse
    <3> QED BY <1>0, <1>2, <1>3, <2>1, <3>1, ArrivedOnce
  <2>3. CASE Head(out[s]).id \notin callbacks
    BY <1>5, <1>9, <2>1, <2>3 DEF MasterOnResponse, masterVars
  <2> QED BY <2>2, <2>3
<1>10. ASSUME MasterOnNotify(s) \/ MasterOnRequest(s), msock[s].registered PROVE Once'
  <2>1. Head(out[s]).id \in Nat
    <3>1. Head(out[s]) \in Word
      BY <1>2, HeadTailProperties
    <3> QED BY <3>1 DEF Word
  <2> QED BY <1>5, <1>6, <1>10, <2>1 DEF MasterOnNotify, MasterOnRequest, masterVars
<1>11. ASSUME MasterOnDisconnect(s) PROVE Once'
  BY <1>5, <1>11 DEF MasterOnDisconnect, M!OnDisconnect, M!qos
<1> QED
  BY <1>4, <1>7, <1>8, <1>9, <1>10, <1>11
     DEF MasterHandles, MasterOnResponse, MasterOnNotify, MasterOnRequest

(* Every step keeps requests and answers on streams to what is owed.        *)
LEMMA NextOnce ==
  ASSUME Sound, Registry, Ledger, Once, Prompt, Ordered, ~AsyncHandler, MaxNotify = 0, SessionNext
  PROVE  Once'
<1>0. /\ ClientTypeOK /\ Links /\ Owns /\ Packets /\ Ids /\ Writes /\ ShedKept
  BY NextShed DEF Sound, Registry, ClientCore
<1>1. ProcessDies \/ MasterListen => Once'
  BY <1>0, SameWordsOnce DEF ProcessDies, MasterListen, M!Listen, M!qos, vars, agentVars, masterVars
<1>2. ASSUME ProcessStarts \/ MasterReboots PROVE Once'
  <2>1. out' = [s \in Stream |-> <<>>]
    BY <1>2 DEF ProcessStarts, MasterReboots
  <2>2. ASSUME NEW s \in Stream, s \notin cut' PROVE down'[s] = <<>>
    <3>1. CASE MasterReboots
      BY <3>1 DEF MasterReboots
    <3>2. CASE ProcessStarts
      <4>1. \A t \in Used : stream[t] = "ended" \/ t \in cut
        BY <3>2 DEF ProcessStarts
      <4>2. down' = down /\ cut' = cut
        BY <3>2 DEF ProcessStarts
      <4>3. stream[s] = "unused"
        BY <1>0, <2>2, <4>1, <4>2 DEF Links, Used
      <4> QED BY <1>0, <4>2, <4>3 DEF Links
    <3> QED BY <1>2, <3>1, <3>2
  <2> QED BY <2>1, <2>2, NothingIsOnce DEF Once, Asks, Answers
<1>3. ASSUME MasterRequest PROVE Once'
  <2>1. out' = out /\ cut' = cut /\ callbacks' = callbacks \cup {reqId}
    BY <1>3 DEF MasterRequest, M!Request, vars, agentVars
  <2>2. CASE ~M!HasPrimary(Id)
    BY <1>0, <1>3, <2>1, <2>2, SameWordsOnce DEF MasterRequest
  <2>3. CASE M!HasPrimary(Id)
    <3>1. PICK s \in Stream : idMap[Id].socket = s
      BY <1>0, <2>3, RegisteredIsPrimary DEF Owns
    <3>2. Reply(s, <<Msg("monitor", reqId)>>)
      BY <1>3, <2>3, <3>1 DEF MasterRequest
    <3>3. /\ \A t \in Stream : t # s => down'[t] = down[t]
          /\ s \notin cut => down'[s] = down[s] \o <<Msg("monitor", reqId)>>
      BY <1>0, <3>2 DEF Reply, Packets
    <3>4. s \notin cut => down'[s] = Append(down[s], Msg("monitor", reqId))
      <4>1. down[s] \in Seq(Packet) /\ Msg("monitor", reqId) \in Packet
        BY <1>0 DEF Packets, Ids, Msg, Packet, Topic
      <4> QED BY <3>3, <4>1, AppendIsConcat
    <3>5. s \notin cut' /\ ~Shed(s) => OnceOn(s)'
      BY <1>0, <2>1, <3>4, AskedOnce DEF Once
    <3> QED BY <1>0, <2>1, <3>3, <3>5, OnceUnless
  <2> QED BY <2>2, <2>3
<1>4. ASSUME NEW s \in Stream, MasterAccepts(s) PROVE Once'
  <2>1. /\ UNCHANGED <<out, cut, callbacks>> /\ s \notin cut /\ conn[s] = "idle"
        /\ stream[s] # "unused" /\ \A t \in Stream : t # s => down'[t] = down[t]
    BY <1>0, <1>4 DEF MasterAccepts, M!Connection, M!qos, vars, agentVars, Reply, Packets
  <2>2. down'[s] = <<Msg("connack", 0)>>
    <3>1. down[s] = <<>>
      BY <1>0, <2>1 DEF Links
    <3> QED BY <1>0, <1>4, <2>1, <3>1 DEF MasterAccepts, Reply, Packets
  <2>3. ~Shed(s) => \A n \in DOMAIN out[s] : out[s][n].topic = "disconnect"
    <3>1. Live(s) /\ (~Shed(s) => Unheard(s))
      BY <1>0, <2>1, CarryingIsLive DEF Ordered
    <3> QED BY <2>1, <3>1 DEF Unheard, Live
  <2>4. ~Shed(s) => \A n : ~Asks(s, n)' /\ ~Answers(s, n)'
    BY <2>1, <2>2, <2>3 DEF Asks, Answers, Msg
  <2> QED BY <1>0, <2>1, <2>4, NothingIsOnce, OnceUnless
<1>5. ASSUME NEW s \in Stream, MasterSeesEnd(s) \/ ProcessSeesEnd(s) \/ ProcessPonged(s)
      PROVE  Once'
  BY <1>0, <1>5, SameWordsOnce DEF MasterSeesEnd, M!StreamClose, M!OnDisconnect, M!qos,
     ProcessSeesEnd, ProcessPonged, vars, agentVars, masterVars
<1>6. ASSUME NEW s \in Stream, Cut(s) PROVE Once'
  <2>1. /\ cut' = cut \cup {s} /\ callbacks' = callbacks
        /\ down' = [down EXCEPT ![s] = <<>>] /\ out' = [out EXCEPT ![s] = <<>>]
    BY <1>0, <1>6, EndForgets DEF Cut, masterVars
  <2>2. \A t \in Stream : t # s => down'[t] = down[t] /\ out'[t] = out[t]
    BY <1>0, <2>1 DEF Packets, Writes
  <2> QED BY <1>0, <2>1, <2>2, OnceUnless
<1>7. ASSUME NEW s \in Stream, LosesWrite(s) PROVE Once'
  BY <1>0, <1>7, CarryShrinks, OnceUnless DEF LosesWrite, masterVars
<1> QED
  BY <1>0, <1>1, <1>2, <1>3, <1>4, <1>5, <1>6, <1>7, StepsOnce, DeliveriesOnce, HandlersOnce,
     SessionCases

(* While handlers answer at once, what the QoS table sends again after a    *)
(* cut, a death, a reboot or a refusal is only what is still owed: a request*)
(* whose callback was called is not on its way on a stream the process      *)
(* hears, so it is not run twice. The agent may be closed by its owner at   *)
(* any moment. The master may refuse the process if that one hears nothing  *)
(* of the streams it has left: what is sent on the refused stream would     *)
(* otherwise be run after the next stream has brought its answer.           *)
THEOREM NothingAnsweredIsAskedAgain ==
  ASSUME ~AsyncToken, PromptClose \/ MaxRestart = 0, ~AsyncHandler, MaxNotify = 0,
         ~MayRefuse \/ ~LateEvents
  PROVE  SafeSpec => []AnsweredIsNotRunAgain
<1>1. SessionInit => Ledger /\ Once /\ Ordered
  <2> SUFFICES ASSUME SessionInit PROVE Ledger /\ Once /\ Ordered
    OBVIOUS
  <2>1. /\ msgMap = [i \in {Id} |-> {}] /\ callbacks = {} /\ reqId = 1
        /\ answers = [r \in Req |-> 0]
        /\ down = [s \in Stream |-> <<>>] /\ out = [s \in Stream |-> <<>>]
    BY DEF SessionInit, Init, M!Init, M!Req, Req
  <2>2. Once
    BY <2>1 DEF Once, OnceOn, Asks, Answers
  <2>3. Ordered
    BY DEF SessionInit, Init, ClientInit, Ordered, Live
  <2> QED BY <2>1, <2>2, <2>3 DEF Ledger
<1>2. Sound /\ Registry /\ Talk /\ Ledger /\ Once /\ Ordered /\ [SessionNext]_sessionVars
      => Ledger' /\ Once' /\ Ordered'
  <2>1. ASSUME Ledger, Once, Ordered, ShedKept, UNCHANGED sessionVars
        PROVE  Ledger' /\ Once' /\ Ordered'
    <3>1. UNCHANGED <<agentVars, masterVars, down, cut>>
      BY <2>1 DEF sessionVars, vars
    <3>2. Ledger'
      BY <2>1, <3>1 DEF Ledger, masterVars
    <3>3. Once'
      BY <2>1, <3>1, SameWordsOnce DEF agentVars, masterVars
    <3>4. Ordered'
      BY <2>1, <3>1, OrderedGoesOn DEF sessionVars, vars, clientVars, agentVars, masterVars,
         Still, Live
    <3> QED BY <3>2, <3>3, <3>4
  <2> QED BY <2>1, NextShed, NextLedger, NextOnce, NextOrdered DEF Talk
<1>3. ASSUME Sound, Registry, Ledger, Once PROVE AnsweredIsNotRunAgain
  <2> SUFFICES ASSUME NEW r \in Req, answers[r] > 0, NEW s \in Stream, ~Shed(s),
                      Msg("monitor", r) \in ToSet(down[s])
               PROVE  FALSE
    BY DEF AnsweredIsNotRunAgain, Shed
  <2>1. PICK n \in DOMAIN down[s] : down[s][n] = Msg("monitor", r)
    BY DEF ToSet
  <2>2. Asks(s, n) /\ down[s][n].id = r
    BY <2>1 DEF Asks, Msg
  <2>3. s \notin cut
    BY <1>3, <2>1 DEF Registry, Links
  <2>4. r \in callbacks
    BY <1>3, <2>2, <2>3 DEF Once, OnceOn
  <2> QED BY <1>3, <2>4 DEF Ledger
<1> QED BY <1>1, <1>2, <1>3, TalkInvariant, SessionInvariant, PTL DEF SafeSpec
=============================================================================
