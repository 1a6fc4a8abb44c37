-------------------------- MODULE MonitorAgentProofs --------------------------
(***************************************************************************)
(* Proofs about MonitorAgent: it runs its MqttClient as MqttClient says,   *)
(* so what is proved there holds in it, for any master and any network;    *)
(* and what it writes is lost only between connections.                    *)
(***************************************************************************)
EXTENDS MonitorAgent, MqttClientProofs, SequenceTheorems

(* The disjuncts of Next, for proofs that take one case each.               *)
LEMMA AgentCases ==
  ASSUME Next, NEW P,
         AgentConnect => P, TokenReady => P, Notify => P, Request => P, AgentClose => P,
         ClientAlone => P,
         ASSUME NEW s \in Stream, AgentConnack(s) PROVE P,
         ASSUME NEW s \in Stream, AgentDisconnectPacket(s) PROVE P,
         ASSUME NEW k \in intervals, AgentKeepAliveTimeout(k) PROVE P,
         ASSUME NEW r \in Req, HandlerDone(r) PROVE P,
         ASSUME NEW s \in Stream, Carry(s) PROVE P,
         ASSUME NEW s \in Stream, NEW ok \in BOOLEAN, OnRegister(s, ok) PROVE P,
         ASSUME NEW s \in Stream, NEW ok \in BOOLEAN, OnReconnectOk(s, ok) PROVE P,
         ASSUME NEW s \in Stream, NEW r \in Req, OnRequest(s, r) PROVE P,
         ASSUME NEW s \in Stream, NEW q \in owed, OnAnswer(s, q) PROVE P
  PROVE  P
BY DEF Next, AgentSteps

-----------------------------------------------------------------------------
(* The agent and its client *)

(* What the agent does beside its client's own steps leaves it alone.       *)
LEMMA AgentStepsClient == ASSUME Next PROVE [ClientNext]_clientVars
<1> DEFINE P == [ClientNext]_clientVars
<1>1. AgentConnect => P
  BY DEF AgentConnect, ClientNext
<1>2. TokenReady \/ Notify \/ Request => P
  BY DEF TokenReady, Notify, Request
<1>3. AgentClose => P
  BY DEF AgentClose, ClientNext
<1>4. ClientAlone => P
  BY DEF ClientAlone, ClientNext
<1>5. ASSUME NEW s \in Stream, AgentConnack(s) \/ AgentDisconnectPacket(s) PROVE P
  BY <1>5 DEF AgentConnack, AgentDisconnectPacket, ClientNext
<1>6. ASSUME NEW k \in intervals, AgentKeepAliveTimeout(k) PROVE P
  BY <1>6 DEF AgentKeepAliveTimeout, ClientNext
<1>7. ASSUME NEW r \in Req, HandlerDone(r) PROVE P
  BY <1>7 DEF HandlerDone
<1>8. ASSUME NEW s \in Stream, Carry(s) PROVE P
  BY <1>8 DEF Carry
<1>9. ASSUME NEW s \in Stream, NEW ok \in BOOLEAN, OnRegister(s, ok) \/ OnReconnectOk(s, ok)
      PROVE  P
  BY <1>9 DEF OnRegister, OnReconnectOk, Receives
<1>10. ASSUME NEW s \in Stream, NEW r \in Req, OnRequest(s, r) PROVE P
  BY <1>10 DEF OnRequest, Receives
<1>11. ASSUME NEW s \in Stream, NEW q \in owed, OnAnswer(s, q) PROVE P
  BY <1>11 DEF OnAnswer, Receives
<1> HIDE DEF P
<1>12. P
  BY <1>1, <1>2, <1>3, <1>4, <1>5, <1>6, <1>7, <1>8, <1>9, <1>10, <1>11, AgentCases
<1> QED BY <1>12 DEF P

(* The agent's behaviours are behaviours of its client: the client's        *)
(* invariants hold under the agent, whatever listeners do inside its events.*)
THEOREM AgentImplementsClient == Spec => ClientSpec
<1>1. Init => ClientInit
  BY DEF Init
<1>2. [Next]_vars => [ClientNext]_clientVars
  BY AgentStepsClient DEF vars
<1> QED BY <1>1, <1>2, PTL DEF Spec, ClientSpec

(* What MqttClientProofs shows of a client holds of the agent's.            *)
THEOREM AgentKeepsClientInvariants == Spec => []ClientInv
BY AgentImplementsClient, ClientInvariant, PTL

-----------------------------------------------------------------------------
(* Type correctness *)

Agent ==
  /\ astate \in {"inited", "connected", "registered", "closed"}
  /\ connectCb \in {"none", "ok", "error"}
  /\ token \in BOOLEAN
  /\ handling \in [Req -> Nat]
  /\ notified \in 0 .. MaxNotify
  /\ owed \subseteq 1 .. MaxNotify

Writes ==
  /\ out \in [Stream -> Seq(Message)]
  /\ lost \subseteq {"register", "reconnect", "response", "notify", "request"}

(* doSend writes a message to the current stream or loses it.               *)
LEMMA SendType ==
  ASSUME Writes, NEW m \in Message, Send(m), socket' = 0 \/ socket' \in Stream,
         m.topic # "disconnect"
  PROVE  Writes'
<1>1. m.topic \in {"register", "reconnect", "response", "notify", "request"}
  BY DEF Message
<1>2. CASE socket' = 0
  BY <1>1, <1>2 DEF Send, Writes
<1>3. CASE socket' # 0
  <2>1. out' = [out EXCEPT ![socket'] = Append(@, m)] /\ lost' = lost /\ socket' \in Stream
    BY <1>3 DEF Send
  <2>2. Append(out[socket'], m) \in Seq(Message)
    BY <2>1, AppendProperties DEF Writes
  <2> QED BY <2>1, <2>2 DEF Writes
<1> QED BY <1>2, <1>3

(* The DISCONNECT of close() is written too.                                *)
LEMMA DisconnectType ==
  ASSUME ClientTypeOK, Writes, SendDisconnect, lost' = lost
  PROVE  Writes'
<1>1. CASE socket = 0
  BY <1>1 DEF SendDisconnect, Writes
<1>2. CASE socket # 0
  <2>1. out' = [out EXCEPT ![socket] = Append(@, Plain("disconnect"))] /\ socket \in Stream
    BY <1>2, MaxStreamAssumption DEF SendDisconnect, ClientTypeOK, Stream
  <2>2. Plain("disconnect") \in Message
    BY DEF Plain, Message
  <2>3. Append(out[socket], Plain("disconnect")) \in Seq(Message)
    BY <2>1, <2>2, AppendProperties DEF Writes
  <2> QED BY <2>1, <2>3 DEF Writes
<1> QED BY <1>1, <1>2

(* The messages of the agent. *)
LEMMA MessageTypes ==
  /\ Plain("register") \in Message /\ Plain("register").topic = "register"
  /\ Plain("reconnect") \in Message /\ Plain("reconnect").topic = "reconnect"
  /\ Plain("notify") \in Message /\ Plain("notify").topic = "notify"
  /\ \A r \in Req : [topic |-> "response", id |-> r] \in Message
  /\ \A q \in 1 .. MaxNotify : [topic |-> "request", id |-> q] \in Message
BY DEF Plain, Message

(* Every step of the agent keeps its own state well typed.                  *)
LEMMA NextAgent == ASSUME ClientTypeOK, ClientTypeOK', Agent, Next PROVE Agent'
<1>1. AgentConnect \/ ClientAlone => Agent'
  BY DEF AgentConnect, ClientAlone, agentVars, Agent
<1>2. TokenReady => Agent'
  BY DEF TokenReady, Agent
<1>3. Notify => Agent'
  BY AgentAssumption DEF Notify, Agent
<1>4. Request => Agent'
  BY AgentAssumption DEF Request, Agent
<1>5. AgentClose => Agent'
  BY DEF AgentClose, Agent
<1>6. ASSUME NEW s \in Stream, AgentConnack(s) PROVE Agent'
  <2>1. astate' \in {astate, "connected"} /\ token' \in {token, TRUE}
    BY <1>6 DEF AgentConnack, OnConnect, OnReconnect
  <2>2. UNCHANGED <<connectCb, handling, notified, owed>>
    BY <1>6 DEF AgentConnack
  <2> QED BY <2>1, <2>2 DEF Agent
<1>7. ASSUME NEW s \in Stream, AgentDisconnectPacket(s) PROVE Agent'
  BY <1>7 DEF AgentDisconnectPacket, Agent
<1>8. ASSUME NEW k \in intervals, AgentKeepAliveTimeout(k) PROVE Agent'
  BY <1>8 DEF AgentKeepAliveTimeout, Agent
<1>9. ASSUME NEW r \in Req, HandlerDone(r) PROVE Agent'
  BY <1>9 DEF HandlerDone, Agent
<1>10. ASSUME NEW s \in Stream, Carry(s) PROVE Agent'
  BY <1>10 DEF Carry, Agent
<1>11. ASSUME NEW s \in Stream, NEW ok \in BOOLEAN, OnRegister(s, ok) \/ OnReconnectOk(s, ok)
       PROVE  Agent'
  BY <1>11 DEF OnRegister, OnReconnectOk, Agent
<1>12. ASSUME NEW s \in Stream, NEW r \in Req, OnRequest(s, r) PROVE Agent'
  BY <1>12 DEF OnRequest, Agent
<1>13. ASSUME NEW s \in Stream, NEW q \in owed, OnAnswer(s, q) PROVE Agent'
  BY <1>13 DEF OnAnswer, Agent
<1> QED
  BY <1>1, <1>2, <1>3, <1>4, <1>5, <1>6, <1>7, <1>8, <1>9, <1>10, <1>11, <1>12, <1>13, AgentCases

(* Every step of the agent writes messages, to streams there are.           *)
LEMMA NextWrites == ASSUME ClientTypeOK, ClientTypeOK', Agent, Writes, Next PROVE Writes'
<1>0. socket' = 0 \/ socket' \in Stream
  BY MaxStreamAssumption DEF ClientTypeOK, Stream
<1> DEFINE Silent == UNCHANGED <<out, lost>>
<1>s. Silent => Writes'
  BY DEF Writes
<1>1. AgentConnect \/ ClientAlone => Writes'
  BY <1>s DEF AgentConnect, ClientAlone, agentVars
<1>2. TokenReady => Writes'
  BY <1>0, SendType, MessageTypes DEF TokenReady
<1>3. Notify => Writes'
  BY <1>0, SendType, MessageTypes DEF Notify
<1>4. Request => Writes'
  <2> SUFFICES ASSUME Request PROVE Writes'
    OBVIOUS
  <2>1. notified' \in 1 .. MaxNotify /\ Send([topic |-> "request", id |-> notified'])
    BY AgentAssumption DEF Request, Agent
  <2> QED BY <1>0, <2>1, SendType, MessageTypes
<1>5. AgentClose => Writes'
  BY DisconnectType DEF AgentClose
<1>6. ASSUME NEW s \in Stream, AgentConnack(s) PROVE Writes'
  <2>1. \/ SendNothing \/ Send(Plain("register")) \/ Send(Plain("reconnect"))
    BY <1>6 DEF AgentConnack, OnConnect, OnReconnect
  <2> QED BY <1>0, <1>s, <2>1, SendType, MessageTypes DEF SendNothing
<1>7. ASSUME NEW s \in Stream, AgentDisconnectPacket(s) PROVE Writes'
  BY <1>7, <1>s DEF AgentDisconnectPacket
<1>8. ASSUME NEW k \in intervals, AgentKeepAliveTimeout(k) PROVE Writes'
  BY <1>8, DisconnectType DEF AgentKeepAliveTimeout
<1>9. ASSUME NEW r \in Req, HandlerDone(r) PROVE Writes'
  BY <1>0, <1>9, SendType, MessageTypes DEF HandlerDone
<1>10. ASSUME NEW s \in Stream, Carry(s) PROVE Writes'
  <2>1. Tail(out[s]) \in Seq(Message)
    BY <1>10, HeadTailProperties DEF Carry, Writes
  <2> QED BY <1>10, <2>1 DEF Carry, Writes
<1>11. ASSUME NEW s \in Stream, NEW ok \in BOOLEAN, OnRegister(s, ok) \/ OnReconnectOk(s, ok)
       PROVE  Writes'
  BY <1>11, <1>s DEF OnRegister, OnReconnectOk
<1>12. ASSUME NEW s \in Stream, NEW r \in Req, OnRequest(s, r) PROVE Writes'
  <2>1. SendNothing \/ Send([topic |-> "response", id |-> r])
    BY <1>12 DEF OnRequest
  <2> QED BY <1>0, <1>s, <2>1, SendType, MessageTypes DEF SendNothing
<1>13. ASSUME NEW s \in Stream, NEW q \in owed, OnAnswer(s, q) PROVE Writes'
  BY <1>13, <1>s DEF OnAnswer
<1> QED
  BY <1>1, <1>2, <1>3, <1>4, <1>5, <1>6, <1>7, <1>8, <1>9, <1>10, <1>11, <1>12, <1>13, AgentCases

(* Every reachable state of the agent and its client is well typed.         *)
THEOREM AgentTypeCorrect == Spec => []AgentTypeOK
<1>1. Init => Agent /\ Writes
  <2> SUFFICES ASSUME Init PROVE Agent /\ Writes
    OBVIOUS
  <2>1. token \in BOOLEAN
    BY DEF Init
  <2>2. /\ astate = "inited" /\ connectCb = "none" /\ handling = [r \in Req |-> 0]
        /\ notified = 0 /\ owed = {} /\ out = [s \in Stream |-> <<>>] /\ lost = {}
    BY DEF Init
  <2>3. <<>> \in Seq(Message)
    BY EmptySeq
  <2>4. handling \in [Req -> Nat] /\ notified \in 0 .. MaxNotify
    BY <2>2, AgentAssumption
  <2>5. Agent
    BY <2>1, <2>2, <2>4 DEF Agent
  <2> QED BY <2>2, <2>3, <2>5 DEF Writes
<1>2. ClientInv /\ ClientInv' /\ Agent /\ Writes /\ [Next]_vars => Agent' /\ Writes'
  <2>1. ASSUME Agent, Writes, UNCHANGED vars PROVE Agent' /\ Writes'
    BY <2>1 DEF vars, agentVars, Agent, Writes
  <2> QED BY <2>1, NextAgent, NextWrites DEF ClientInv, ClientCore
<1>3. ClientInv /\ Agent /\ Writes => AgentTypeOK
  BY DEF ClientInv, ClientCore, Agent, Writes, AgentTypeOK
<1> QED BY <1>1, <1>2, <1>3, AgentKeepsClientInvariants, PTL DEF Spec

-----------------------------------------------------------------------------
(* What is lost *)

(* Nothing waits to be written before the first connection is tried, and a  *)
(* client counts as connected only while it has a socket: an acknowledgement*)
(* of an abandoned stream is what could break the second.                   *)
Idle == Fresh => astate # "registered" /\ ~token /\ \A r \in Req : handling[r] = 0
Gap == ~LateEvents => (socket = 0 => ~connected)

(* Every step keeps Idle.                                                   *)
LEMMA NextIdle == ASSUME ClientCore, Agent, Idle, Next PROVE Idle'
<1> SUFFICES ASSUME Fresh' PROVE Idle'
  BY DEF Idle
<1>1. Fresh /\ astate # "registered" /\ ~token /\ \A r \in Req : handling[r] = 0
  BY AgentStepsClient, FreshOnce DEF Idle
<1>2. AgentConnect \/ ClientAlone => Idle'
  BY <1>1 DEF AgentConnect, ClientAlone, agentVars, Idle
<1>3. ~TokenReady /\ ~Notify /\ ~Request
  BY <1>1 DEF TokenReady, Notify, Request
<1>4. AgentClose => Idle'
  BY <1>1 DEF AgentClose, Idle
<1>5. ASSUME NEW s \in Stream
      PROVE  ~AgentConnack(s) /\ ~AgentDisconnectPacket(s) /\ ~Receives(s)
  BY <1>1 DEF AgentConnack, Connack, AgentDisconnectPacket, DisconnectPacket, Receives,
     ClientCore, Begun, Live
<1>6. ASSUME NEW k \in intervals, AgentKeepAliveTimeout(k) PROVE Idle'
  BY <1>1, <1>6 DEF AgentKeepAliveTimeout, Idle
<1>7. ASSUME NEW r \in Req PROVE ~HandlerDone(r)
  BY <1>1 DEF HandlerDone
<1>8. ASSUME NEW s \in Stream, Carry(s) PROVE Idle'
  BY <1>1, <1>8 DEF Carry, Idle
<1> QED
  BY <1>2, <1>3, <1>4, <1>5, <1>6, <1>7, <1>8, AgentCases
     DEF OnRegister, OnReconnectOk, OnRequest, OnAnswer

(* Every step of the client keeps Gap.                                      *)
LEMMA NextGap == ASSUME ClientCore, Gap, [ClientNext]_clientVars PROVE Gap'
<1> SUFFICES ASSUME ~LateEvents, socket' = 0 PROVE ~connected'
  BY DEF Gap
<1>1. OpenStream => socket' # 0
  BY OpenStreamType
<1>2. ASSUME NEW s \in Stream, Connack(s) PROVE FALSE
  BY <1>2 DEF Connack, Reports, Stream
<1>3. ASSUME OnSocketClose PROVE ~connected'
  BY <1>3 DEF OnSocketClose, Clear, Gap
<1> QED
  BY <1>1, <1>2, <1>3 DEF Gap, ClientNext, clientVars, Connect, Disconnect, CloseClient,
     TimeoutFires, StreamEnds, DisconnectPacket, Pingresp, SendPing, KeepAliveTimeout, RetryFires

(* A write that throws finds the client between two connections.            *)
LEMMA LossInGap ==
  ASSUME ClientCore, Idle, Gap, ~LateEvents, Next, lost' # lost
  PROVE  closed' /\ ~connected'
<1> DEFINE Loss == UNCHANGED clientVars /\ ~Fresh /\ socket' = 0
<1>1. ASSUME Loss PROVE closed' /\ ~connected'
  BY <1>1 DEF clientVars, Fresh, Gap
<1>2. ASSUME NEW m, Send(m) PROVE socket' = 0
  BY <1>2 DEF Send
<1>3. SendNothing => FALSE
  BY DEF SendNothing
<1>4. AgentConnect \/ ClientAlone \/ AgentClose => FALSE
  BY DEF AgentConnect, ClientAlone, agentVars, AgentClose
<1>5. TokenReady \/ Notify \/ Request => Loss
  BY <1>2 DEF TokenReady, Notify, Request, Idle
<1>6. ASSUME NEW s \in Stream, AgentConnack(s) PROVE FALSE
  <2>1. socket' = s /\ s # 0
    BY <1>6 DEF AgentConnack, Connack, Reports, Stream
  <2>2. SendNothing \/ \E m \in Message : Send(m)
    BY <1>6, MessageTypes DEF AgentConnack, OnConnect, OnReconnect
  <2> QED BY <1>2, <1>3, <2>1, <2>2
<1>7. ASSUME NEW r \in Req, HandlerDone(r) PROVE Loss
  <2>1. UNCHANGED clientVars /\ socket' = 0
    BY <1>2, <1>7 DEF HandlerDone
  <2>2. ~Fresh
    BY <1>7 DEF HandlerDone, Idle
  <2> QED BY <2>1, <2>2
<1>8. ASSUME NEW s \in Stream, NEW r \in Req, OnRequest(s, r) PROVE Loss
  <2>1. UNCHANGED clientVars /\ ~Fresh
    BY <1>8 DEF OnRequest, Receives, ClientCore, Begun, Live
  <2>2. SendNothing \/ Send([topic |-> "response", id |-> r])
    BY <1>8 DEF OnRequest
  <2> QED BY <1>2, <1>3, <2>1, <2>2
<1>9. ASSUME NEW s \in Stream, NEW ok \in BOOLEAN, OnRegister(s, ok) \/ OnReconnectOk(s, ok)
       PROVE  FALSE
  BY <1>9 DEF OnRegister, OnReconnectOk
<1>10. ASSUME NEW s \in Stream, NEW q \in owed, OnAnswer(s, q) PROVE FALSE
  BY <1>10 DEF OnAnswer
<1>11. ASSUME NEW k \in intervals, AgentKeepAliveTimeout(k) PROVE FALSE
  BY <1>11 DEF AgentKeepAliveTimeout
<1>12. ASSUME NEW s \in Stream, AgentDisconnectPacket(s) \/ Carry(s) PROVE FALSE
  BY <1>12 DEF AgentDisconnectPacket, Carry
<1> HIDE DEF Loss
<1> QED
  BY <1>1, <1>4, <1>5, <1>6, <1>7, <1>8, <1>9, <1>10, <1>11, <1>12, AgentCases

(* While abandoned streams keep silent, a write throws only between a lost  *)
(* connection and the next one, whichever handler, token or notification is *)
(* late and whatever the master sends.                                      *)
THEOREM LossesAreBetweenConnections ==
  ASSUME ~LateEvents PROVE Spec => LostOnlyBetweenConnections
<1> DEFINE Step == lost' # lost => closed' /\ ~connected'
<1>1. Init => Idle /\ Gap
  BY DEF Init, ClientInit, Idle, Gap
<1>2. ClientCore /\ AgentTypeOK /\ Idle /\ Gap /\ [Next]_vars => Idle' /\ Gap'
  <2>1. ClientCore /\ Gap /\ [Next]_vars => Gap'
    BY NextGap, AgentStepsClient DEF vars
  <2>2. ASSUME Idle, UNCHANGED vars PROVE Idle'
    BY <2>2 DEF vars, agentVars, clientVars, Idle, Fresh
  <2>3. AgentTypeOK => Agent
    BY DEF AgentTypeOK, Agent
  <2> QED BY <2>1, <2>2, <2>3, NextIdle
<1>3. ClientCore /\ Idle /\ Gap /\ [Next]_vars => [Step]_vars
  BY LossInGap
<1>4. ClientInv => ClientCore
  BY DEF ClientInv
<1> QED
  BY <1>1, <1>2, <1>3, <1>4, AgentKeepsClientInvariants, AgentTypeCorrect, PTL
     DEF Spec, LostOnlyBetweenConnections
=============================================================================
