----------------------------- MODULE MonitorAgent -----------------------------
(***************************************************************************)
(* The agent of a monitored process: lib/monitor/monitorAgent.js on top of *)
(* its MqttClient.  Its listeners run inside the events of the client, so  *)
(* an action here is an action of MqttClient joined with what the agent    *)
(* does in the same turn, its writes included.  Whatever stream a message  *)
(* arrives on, the listeners act on the one agent, and doSend writes to    *)
(* the stream that is current at that moment.                              *)
(***************************************************************************)
EXTENDS MqttClient, Sequences

CONSTANTS
  MaxReq,        \* bound: ids of the master's requests
  AsyncHandler,  \* module handlers call back in a later turn
  AsyncToken,    \* opts.authServer calls back in a later turn
  MaxNotify      \* bound: notifications and requests of the agent

ASSUME AgentAssumption ==
  /\ MaxReq \in Nat /\ MaxNotify \in Nat
  /\ AsyncHandler \in BOOLEAN /\ AsyncToken \in BOOLEAN

Req == 1 .. MaxReq

VARIABLES
  astate,     \* MonitorAgent.state
  connectCb,  \* what connect()'s callback was told: none, ok or error
  token,      \* authServer has not called back yet
  handling,   \* executions of monitorHandler that have not called back
  notified,   \* count of notify() and request() calls that were sent or threw
  owed,       \* ids of MonitorAgent.callbacks
  out,        \* messages written to each stream and not yet carried
  lost        \* history: topics of the writes that threw, the socket being null

agentVars == <<astate, connectCb, token, handling, notified, owed, out, lost>>
vars == <<clientVars, agentVars>>

Message == [topic : {"register", "reconnect", "notify", "disconnect"}, id : {0}]
           \cup [topic : {"response"}, id : Req]
           \cup [topic : {"request"}, id : 1 .. MaxNotify]

Plain(t) == [topic |-> t, id |-> 0]

(* new MonitorAgent(); nothing is under way. *)
Init ==
  /\ ClientInit
  /\ astate = "inited"
  /\ connectCb = "none"
  /\ token = FALSE
  /\ handling = [r \in Req |-> 0]
  /\ notified = 0
  /\ owed = {}
  /\ out = [s \in Stream |-> <<>>]
  /\ lost = {}

-----------------------------------------------------------------------------
(* doSend: without a socket the write throws. *)
Send(m) ==
  IF socket' = 0
  THEN lost' = lost \cup {m.topic} /\ UNCHANGED out
  ELSE out' = [out EXCEPT ![socket'] = Append(@, m)] /\ UNCHANGED lost

SendNothing == UNCHANGED <<out, lost>>

(* connect() of the agent and, in it, of the client. The bound on the       *)
(* client's first call keeps a second call out.                             *)
AgentConnect ==
  /\ astate = "inited"
  /\ Connect
  /\ UNCHANGED agentVars

(* on 'connect': register, once authServer has given the token. *)
OnConnect ==
  IF astate # "inited"
  THEN UNCHANGED <<astate, token>> /\ SendNothing
  ELSE /\ astate' = "connected"
       /\ IF AsyncToken THEN token' = TRUE /\ SendNothing
                        ELSE UNCHANGED token /\ Send(Plain("register"))

(* Mutant: a connection that came back registers anew. *)
OnReconnectRegisters ==
  /\ astate' = "connected"
  /\ Send(Plain("register"))
  /\ UNCHANGED token

(* Mutant: a connection that came back is greeted in both ways. *)
OnReconnectGreetsTwice ==
  /\ astate' = "connected"
  /\ out' = [out EXCEPT ![socket'] = @ \o <<Plain("reconnect"), Plain("register")>>]
  /\ UNCHANGED <<token, lost>>

(* on 'reconnect', whatever the state is. *)
OnReconnect ==
  /\ astate' = "connected"
  /\ Send(Plain("reconnect"))
  /\ UNCHANGED token

AgentConnack(s) ==
  /\ Connack(s)
  /\ CASE connected -> UNCHANGED <<astate, token>> /\ SendNothing
       [] ~connected /\ connectedTimes = 1 -> OnConnect
       [] ~connected /\ connectedTimes # 1 -> OnReconnect
  /\ UNCHANGED <<connectCb, handling, notified, owed>>

TokenReady ==
  /\ ~exited
  /\ token
  /\ token' = FALSE
  /\ UNCHANGED clientVars
  /\ Send(Plain("register"))
  /\ UNCHANGED <<astate, connectCb, handling, notified, owed>>

(* A message of the master arrives on s. *)
Receives(s) == Reports(s) /\ stream[s] = "open" /\ UNCHANGED clientVars

(* on 'register'. A refusal only emits 'close'. *)
OnRegister(s, ok) ==
  /\ Receives(s)
  /\ astate' = IF ok THEN "registered" ELSE astate
  /\ connectCb' = IF ok THEN "ok" ELSE connectCb
  /\ UNCHANGED <<token, handling, notified, owed, out, lost>>

(* on 'reconnect_ok'. A refusal is ignored. *)
OnReconnectOk(s, ok) ==
  /\ Receives(s)
  /\ astate' = IF ok THEN "registered" ELSE astate
  /\ UNCHANGED <<connectCb, token, handling, notified, owed, out, lost>>

(* on 'monitor' with a request: dropped unless registered. *)
OnRequest(s, r) ==
  /\ Receives(s)
  /\ IF astate # "registered" THEN UNCHANGED handling /\ SendNothing
     ELSE IF AsyncHandler
          THEN handling' = [handling EXCEPT ![r] = @ + 1] /\ SendNothing
          ELSE UNCHANGED handling /\ Send([topic |-> "response", id |-> r])
  /\ UNCHANGED <<astate, connectCb, token, notified, owed>>

(* The callback of a handler: it answers without a look at the state. *)
HandlerDone(r) ==
  /\ ~exited
  /\ handling[r] > 0
  /\ handling' = [handling EXCEPT ![r] = @ - 1]
  /\ UNCHANGED clientVars
  /\ Send([topic |-> "response", id |-> r])
  /\ UNCHANGED <<astate, connectCb, token, notified, owed>>

(* on 'monitor' with the answer to a request of the agent. *)
OnAnswer(s, q) ==
  /\ Receives(s)
  /\ owed' = IF astate = "registered" THEN owed \ {q} ELSE owed
  /\ UNCHANGED <<astate, connectCb, token, handling, notified, out, lost>>

(* notify(), and request(), which stores its callback before it writes. *)
Notify ==
  /\ ~exited
  /\ astate = "registered"
  /\ notified < MaxNotify
  /\ notified' = notified + 1
  /\ UNCHANGED clientVars
  /\ Send(Plain("notify"))
  /\ UNCHANGED <<astate, connectCb, token, handling, owed>>

(* Mutant: the id is the one given last. *)
RequestOldId ==
  /\ ~exited
  /\ astate = "registered"
  /\ notified < MaxNotify
  /\ notified' = notified + 1
  /\ owed' = owed \cup {notified}
  /\ UNCHANGED clientVars
  /\ Send([topic |-> "request", id |-> notified])
  /\ UNCHANGED <<astate, connectCb, token, handling>>

Request ==
  /\ ~exited
  /\ astate = "registered"
  /\ notified < MaxNotify
  /\ notified' = notified + 1
  /\ owed' = owed \cup {notified'}
  /\ UNCHANGED clientVars
  /\ Send([topic |-> "request", id |-> notified'])
  /\ UNCHANGED <<astate, connectCb, token, handling>>

(* The master's DISCONNECT: 'disconnect' is emitted before onSocketClose.   *)
AgentDisconnectPacket(s) ==
  /\ DisconnectPacket(s)
  /\ astate' = "closed"
  /\ UNCHANGED <<connectCb, token, handling, notified, owed, out, lost>>

(* The client's close() writes a DISCONNECT when it has a socket. *)
SendDisconnect == IF socket = 0 THEN UNCHANGED out
                                ELSE out' = [out EXCEPT ![socket] = Append(@, Plain("disconnect"))]

(* close() of the agent, after connect(). *)
AgentClose ==
  /\ astate # "closed"
  /\ Disconnect
  /\ astate' = "closed"
  /\ SendDisconnect
  /\ UNCHANGED <<connectCb, token, handling, notified, owed, lost>>

(* The client gives up a silent connection by itself: the agent is not told.*)
AgentKeepAliveTimeout(k) ==
  /\ KeepAliveTimeout(k)
  /\ SendDisconnect
  /\ UNCHANGED <<astate, connectCb, token, handling, notified, owed, lost>>

(* Events of the client that emit nothing: the agent is not told of them.   *)
ClientAlone ==
  /\ \/ TimeoutFires
     \/ \E s \in Stream : StreamEnds(s) \/ Pingresp(s)
     \/ \E k \in intervals : SendPing(k)
     \/ \E n \in retries : RetryFires(n)
  /\ UNCHANGED agentVars

(* The network takes the next message of a stream. *)
Carry(s) ==
  /\ out[s] # <<>>
  /\ out' = [out EXCEPT ![s] = Tail(@)]
  /\ UNCHANGED <<clientVars, astate, connectCb, token, handling, notified, owed, lost>>

AgentSteps ==
  \/ AgentConnect
  \/ TokenReady
  \/ Notify
  \/ Request
  \/ AgentClose
  \/ ClientAlone
  \/ \E s \in Stream : AgentConnack(s) \/ AgentDisconnectPacket(s)
  \/ \E k \in intervals : AgentKeepAliveTimeout(k)
  \/ \E r \in Req : HandlerDone(r)

(* A master that sends what it likes, on any stream, once it has taken what *)
(* was written (bounds: Taken, one execution of a handler at a time).       *)
Taken == \A s \in Stream : out[s] = <<>>

Next ==
  \/ AgentSteps
  \/ \E s \in Stream :
       \/ Carry(s)
       \/ Taken /\ \E ok \in BOOLEAN : OnRegister(s, ok) \/ OnReconnectOk(s, ok)
       \/ Taken /\ \E r \in Req : handling[r] = 0 /\ OnRequest(s, r)
       \/ \E q \in owed : OnAnswer(s, q)

Spec == Init /\ [][Next]_vars

-----------------------------------------------------------------------------
(* Type correctness. *)
AgentTypeOK ==
  /\ ClientTypeOK
  /\ astate \in {"inited", "connected", "registered", "closed"}
  /\ connectCb \in {"none", "ok", "error"}
  /\ token \in BOOLEAN
  /\ handling \in [Req -> Nat]
  /\ notified \in 0 .. MaxNotify
  /\ owed \subseteq 1 .. MaxNotify
  /\ out \in [Stream -> Seq(Message)]
  /\ lost \subseteq {"register", "reconnect", "response", "notify", "request"}

(* While abandoned streams keep silent, a write throws only in the gap      *)
(* between a lost connection and the next one: whatever handlers, tokens,   *)
(* notifications and greetings come late, none is lost on a connection that *)
(* stands.                                                                  *)
LostOnlyBetweenConnections == [][lost' # lost => closed' /\ ~connected']_vars
=============================================================================
