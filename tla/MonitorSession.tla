---------------------------- MODULE MonitorSession ----------------------------
(***************************************************************************)
(* One monitored process and the master, joined by the streams the         *)
(* process opens: MonitorAgent (with its MqttClient) and MasterAgent run   *)
(* on the two ends, each stream carries messages in order both ways, and   *)
(* the network may cut a stream.  Either process may die at any moment and *)
(* be started again with nothing but its configuration.  The environments  *)
(* of the two components are gone: what one receives is what the other has *)
(* written.                                                                *)
(***************************************************************************)
EXTENDS MonitorAgent, SequencesExt

CONSTANTS
  Id,           \* the id of the server
  Address,      \* its {host, port}
  None,
  MaxCut,       \* bound: streams the network cuts
  MaxRestart,   \* bound: times the process is started again
  MaxReboot,    \* bound: deaths of the master
  PromptClose,  \* the master sees the end of a cut stream at once
  MayRefuse,    \* environment: the master's authServer may refuse the process
  MayClose      \* the owner of the agent may call close()

ASSUME SessionAssumption ==
  /\ MaxCut \in Nat /\ MaxRestart \in Nat /\ MaxReboot \in Nat
  /\ PromptClose \in BOOLEAN /\ MayRefuse \in BOOLEAN /\ MayClose \in BOOLEAN
  /\ None \notin {Id, Address}

VARIABLES state, server, idMap, typeMap, slaveMap, clients, conn, msock, auth,
          reqId, callbacks, msgMap, sent, target, refused, answers

M == INSTANCE MasterAgent WITH
       Server <- {Id}, Client <- {}, Socket <- Stream, Type <- {"connector"},
       TypeOf <- [i \in {Id} |-> "connector"], Info <- {Address}, NoInfo <- None,
       AsyncAuth <- FALSE, NoOverlap <- FALSE

VARIABLES
  down,  \* messages written by the master to each stream and not yet carried
  cut,   \* streams the network has cut
  restarts, reboots  \* times the process and the master were started again

masterVars ==
  <<state, server, idMap, typeMap, slaveMap, clients, conn, msock, auth,
    reqId, callbacks, msgMap, sent, target, refused, answers>>
faults == <<restarts, reboots>>
sessionVars == <<vars, masterVars, down, cut, faults>>

(* The master has been started; the process has not connected yet. *)
SessionInit ==
  /\ Init
  /\ M!Init
  /\ down = [s \in Stream |-> <<>>]
  /\ cut = {}
  /\ restarts = 0
  /\ reboots = 0

-----------------------------------------------------------------------------
(* The master's end of a stream *)

Msg(t, n) == [topic |-> t, id |-> n]

(* What is written to a cut stream is lost. *)
Reply(s, ms) == down' = [down EXCEPT ![s] = IF s \in cut THEN @ ELSE @ \o ms]

(* Mutant: nothing is sent again. *)
RepushedNothing == {<<>>}

(* What is owed, in the order of the ids: there is one such sequence.       *)
Repushed ==
  {q \in [1 .. Cardinality(msgMap[Id]) -> msgMap[Id]] :
     \A m, n \in DOMAIN q : m < n => q[m] < q[n]}

(* What a greeting is told, and the repush that follows it.                 *)
RepliesThenRepush(s, ms) ==
  \E q \in Repushed : Reply(s, ms \o [n \in DOMAIN q |-> Msg("monitor", q[n])])

Admits(s, verdict) == RepliesThenRepush(s, <<Msg(verdict, 0)>>)

(* The next message of s reaches the master. *)
Arrives(s, t) ==
  /\ s \notin cut
  /\ M!Open(s)
  /\ out[s] # <<>> /\ Head(out[s]).topic = t
  /\ Carry(s)
  /\ UNCHANGED <<cut, faults>>

(* net.Server's 'connection', and the CONNECT packet, which is acknowledged *)
(* whatever the state of the master agent.                                  *)
MasterAccepts(s) ==
  /\ s \notin cut
  /\ stream[s] # "unused"
  /\ M!Connection(s)
  /\ Reply(s, <<Msg("connack", 0)>>)
  /\ UNCHANGED <<vars, cut, faults>>

RegisterAccepted(s) ==
  /\ M!OnRegisterMonitor(s, Id, Address, TRUE)
  /\ Admits(s, "register")

(* A process that is refused is told so and disconnected, and is sent what  *)
(* is owed all the same.                                                    *)
RegisterRefused(s) ==
  /\ MayRefuse
  /\ M!OnRegisterMonitor(s, Id, Address, FALSE)
  /\ RepliesThenRepush(s, <<Msg("register_fail", 0), Msg("disconnect", 0)>>)

MasterOnRegister(s) ==
  /\ Arrives(s, "register")
  /\ RegisterAccepted(s) \/ RegisterRefused(s)

(* Mutant: the reconnection is confirmed and not recorded. *)
MasterOnReconnectForgets(s) ==
  /\ Arrives(s, "reconnect")
  /\ Reply(s, <<Msg("reconnect_ok", 0)>>)
  /\ UNCHANGED masterVars

MasterOnReconnect(s) ==
  /\ Arrives(s, "reconnect")
  /\ IF M!HasPrimary(Id)
     THEN Reply(s, <<Msg("refused", 0)>>) /\ UNCHANGED masterVars
     ELSE M!OnReconnect(s, Id, Address) /\ Admits(s, "reconnect_ok")

(* onMonitor on a connection that is not registered: the kick. *)
Kick(s) == Reply(s, <<Msg("disconnect", 0)>>) /\ UNCHANGED masterVars

MasterOnResponse(s) ==
  /\ Arrives(s, "response")
  /\ LET r == Head(out[s]).id
     IN IF ~msock[s].registered THEN Kick(s)
        ELSE /\ UNCHANGED down
             /\ IF r \in callbacks THEN M!OnMonitorResponse(s, r) ELSE UNCHANGED masterVars

(* A notification is handled and leaves no trace here. *)
MasterOnNotify(s) ==
  /\ Arrives(s, "notify")
  /\ IF ~msock[s].registered THEN Kick(s) ELSE UNCHANGED <<masterVars, down>>

MasterOnRequest(s) ==
  /\ Arrives(s, "request")
  /\ IF ~msock[s].registered THEN Kick(s)
     ELSE Reply(s, <<Msg("answer", Head(out[s]).id)>>) /\ UNCHANGED masterVars

(* A process may disconnect more than once on a stream, and greet between.  *)
MasterOnDisconnect(s) ==
  /\ Arrives(s, "disconnect")
  /\ M!OnDisconnect(s)
  /\ conn' = [conn EXCEPT ![s] = "left"]
  /\ UNCHANGED down

MasterSeesEnd(s) ==
  /\ s \in cut
  /\ M!StreamClose(s)
  /\ UNCHANGED <<vars, down, cut, faults>>

MasterListen == M!Listen /\ UNCHANGED <<vars, down, cut, faults>>

MasterRequest ==
  /\ M!Request(Id)
  /\ IF M!HasPrimary(Id) THEN Reply(idMap[Id].socket, <<Msg("monitor", reqId)>>)
                         ELSE UNCHANGED down
  /\ UNCHANGED <<vars, cut, faults>>

MasterHandles(s) ==
  \/ MasterOnRegister(s) \/ MasterOnReconnect(s) \/ MasterOnDisconnect(s)
  \/ MasterOnResponse(s) \/ MasterOnNotify(s) \/ MasterOnRequest(s)

-----------------------------------------------------------------------------
(* The process's end of a stream *)

ProcessHandles(s) ==
  /\ down[s] # <<>>
  /\ LET m == Head(down[s])
     IN CASE m.topic = "connack"       -> AgentConnack(s)
          [] m.topic = "register"      -> OnRegister(s, TRUE)
          [] m.topic = "register_fail" -> OnRegister(s, FALSE)
          [] m.topic = "reconnect_ok"  -> OnReconnectOk(s, TRUE)
          [] m.topic = "refused"       -> OnReconnectOk(s, FALSE)
          [] m.topic = "monitor"       -> OnRequest(s, m.id)
          [] m.topic = "answer"        -> OnAnswer(s, m.id)
          [] m.topic = "disconnect"    -> AgentDisconnectPacket(s)
  /\ down' = [down EXCEPT ![s] = Tail(@)]
  /\ UNCHANGED <<masterVars, cut, faults>>

ProcessSeesEnd(s) ==
  /\ s \in cut
  /\ StreamEnds(s)
  /\ UNCHANGED <<agentVars, masterVars, down, cut, faults>>

(* Pings are answered by the master's end of a stream that is not cut. *)
ProcessPonged(s) ==
  /\ s \notin cut
  /\ Pingresp(s)
  /\ UNCHANGED <<agentVars, masterVars, down, cut, faults>>

ProcessTimer ==
  /\ \/ TimeoutFires
     \/ \E k \in intervals : SendPing(k)
     \/ \E n \in retries : RetryFires(n)
  /\ UNCHANGED agentVars

(* The process is started after the master listens. A pong is late only     *)
(* when its stream was cut.                                                 *)
ProcessSteps ==
  /\ \/ server.listening /\ AgentConnect
     \/ TokenReady
     \/ Notify
     \/ Request
     \/ MayClose /\ AgentClose
     \/ ProcessTimer
     \/ \E k \in intervals : socket \in cut /\ AgentKeepAliveTimeout(k)
     \/ \E r \in Req : HandlerDone(r)
  /\ UNCHANGED <<masterVars, down, cut, faults>>

-----------------------------------------------------------------------------
(* Faults *)

(* The network, or the end of the process, cuts a stream: what is under way *)
(* in both directions is lost.                                              *)
Cut(s) ==
  /\ s \notin cut
  /\ stream[s] \in {"connecting", "open"}
  /\ exited \/ Cardinality(cut) < MaxCut
  /\ cut' = cut \cup {s}
  /\ down' = [down EXCEPT ![s] = <<>>]
  /\ out' = [out EXCEPT ![s] = <<>>]
  /\ IF PromptClose /\ M!Open(s) THEN M!StreamClose(s) ELSE UNCHANGED masterVars
  /\ UNCHANGED <<clientVars, astate, connectCb, token, handling, notified, owed, lost, faults>>

LosesWrite(s) ==
  /\ s \in cut
  /\ Carry(s)
  /\ UNCHANGED <<masterVars, down, cut, faults>>

(* The process dies; what it has written may still arrive. *)
ProcessDies ==
  /\ restarts < MaxRestart
  /\ ~exited
  /\ exited' = TRUE
  /\ UNCHANGED <<connected, closed, connectedTimes, socket, timeoutFlag, connectTimer,
                 reconnectId, retries, keepaliveTimer, intervals, ping, opened, stream, threw,
                 agentVars, masterVars, down, cut, faults>>

Used == {s \in Stream : stream[s] # "unused"}

(* A process that has ended is started again. Its streams have gone with it; *)
(* without PromptClose the master may not have seen that.                   *)
ProcessStarts ==
  /\ exited
  /\ restarts < MaxRestart
  /\ restarts' = restarts + 1
  /\ \A s \in Used : stream[s] = "ended" \/ s \in cut
  /\ stream' = [s \in Stream |-> IF s \in Used THEN "ended" ELSE "unused"]
  /\ connected' = FALSE /\ closed' = FALSE /\ connectedTimes' = 1
  /\ socket' = 0 /\ timeoutFlag' = FALSE /\ connectTimer' = "off"
  /\ reconnectId' = 0 /\ retries' = {}
  /\ keepaliveTimer' = 0 /\ intervals' = {} /\ ping' = "none"
  /\ exited' = FALSE /\ threw' = {}
  /\ astate' = "inited" /\ connectCb' = "none" /\ token' = FALSE
  /\ handling' = [r \in Req |-> 0]
  /\ notified' = 0 /\ owed' = {}
  /\ out' = [s \in Stream |-> <<>>] /\ lost' = {}
  /\ UNCHANGED <<opened, masterVars, down, cut, reboots>>

(* The master dies and a new one is started: every stream is cut, registry, *)
(* callbacks and QoS table are lost, the request ids begin again at 1.      *)
MasterReboots ==
  /\ reboots < MaxReboot
  /\ state = "started"
  /\ reboots' = reboots + 1
  /\ state' = "inited" /\ server' = M!FreshServer
  /\ idMap' = [i \in {Id} |-> M!NoRecord] /\ slaveMap' = [i \in {Id} |-> <<>>]
  /\ typeMap' = [t \in DOMAIN typeMap |-> <<>>] /\ UNCHANGED clients
  /\ msock' = [s \in Stream |-> M!FreshSocket] /\ auth' = {}
  /\ reqId' = 1 /\ callbacks' = {} /\ msgMap' = [i \in {Id} |-> {}]
  /\ sent' = [s \in Stream |-> {}] /\ target' = [r \in Req |-> None]
  /\ refused' = {} /\ answers' = [r \in Req |-> 0]
  /\ conn' = [s \in Stream |-> IF s \in Used THEN "closed" ELSE "idle"]
  /\ cut' = cut \cup {s \in Used : stream[s] # "ended"}
  /\ down' = [s \in Stream |-> <<>>]
  /\ out' = [s \in Stream |-> <<>>]
  /\ UNCHANGED <<clientVars, astate, connectCb, token, handling, notified, owed, lost, restarts>>

SessionNext ==
  \/ ProcessDies
  \/ ProcessStarts
  \/ MasterReboots
  \/ MasterListen
  \/ MasterRequest
  \/ ProcessSteps
  \/ \E s \in Stream :
       \/ MasterAccepts(s) \/ MasterHandles(s) \/ MasterSeesEnd(s)
       \/ ProcessHandles(s) \/ ProcessSeesEnd(s) \/ ProcessPonged(s)
       \/ Cut(s) \/ LosesWrite(s)

SafeSpec == SessionInit /\ [][SessionNext]_sessionVars
(* Every message, timer and callback that is due comes; a cut, a request, a *)
(* notification, a close or the timeout of the first attempt need not.      *)
Fairness ==
  /\ WF_sessionVars(MasterListen)
  /\ WF_sessionVars(ProcessSteps /\ \/ AgentConnect
                                    \/ TokenReady
                                    \/ \E n \in retries : RetryFires(n))
  /\ \A r \in Req : WF_sessionVars(ProcessSteps /\ HandlerDone(r))
  /\ WF_sessionVars(ProcessStarts)
  /\ \A s \in Stream :
       /\ WF_sessionVars(MasterAccepts(s))
       /\ WF_sessionVars(MasterHandles(s))
       /\ WF_sessionVars(MasterSeesEnd(s))
       /\ WF_sessionVars(ProcessHandles(s))
       /\ WF_sessionVars(ProcessSeesEnd(s))
       /\ WF_sessionVars(exited /\ Cut(s))

FairSpec == SafeSpec /\ Fairness

-----------------------------------------------------------------------------
(* Nothing is under way on the stream the process uses. *)
Quiet ==
  /\ connected /\ ~closed
  /\ socket # 0 /\ socket \notin cut /\ conn[socket] # "idle"
  /\ out[socket] = <<>> /\ down[socket] = <<>>

(* When handlers answer at once, the process sends nothing of its own       *)
(* (MaxNotify = 0) and nothing is under way, the two ends agree: an agent   *)
(* that believes it is registered is the primary of its id, on the stream   *)
(* it writes to, whatever died, came back or was refused before. (It needs  *)
(* LateEvents or MayRefuse to be FALSE: the late DISCONNECT of a refusal is *)
(* taken for one of the next stream.)                                       *)
AgreeWhenQuiet ==
  Quiet /\ astate = "registered" => M!HasPrimary(Id) /\ idMap[Id].socket = socket

(* A greeting that reaches the master finds what MasterAgent assumes: a     *)
(* connection that is not registered, or an id that is refused.             *)
GreetingsAreExpected ==
  \A s \in Stream : M!Open(s) /\ out[s] # <<>> =>
    CASE Head(out[s]).topic = "register"  -> M!MayGreet(s)
      [] Head(out[s]).topic = "reconnect" -> M!HasPrimary(Id) \/ M!MayGreet(s)
      [] OTHER -> TRUE

(* A process never becomes a slave of its own earlier connection, although  *)
(* the master may still hold that connection when the next one greets.      *)
NeverItsOwnSlave == slaveMap[Id] = <<>>

(* The process has ended for good. *)
Gone == exited /\ restarts = MaxRestart

(* When handlers answer at once and the process sends nothing of its own    *)
(* (MaxNotify = 0), a request that was answered is not on its way again on  *)
(* a stream the process still hears: what the QoS table sends after a cut   *)
(* or a death is only what is still owed, so nothing a monitor did and      *)
(* confirmed is done twice. It needs LateEvents or MayRefuse to be FALSE:   *)
(* what is sent again on a stream that was refused, and is heard after the  *)
(* next stream has carried it and its answer, is run twice.                 *)
AnsweredIsNotRunAgain ==
  \A r \in Req : answers[r] > 0 =>
    \A s \in Stream : (LateEvents \/ s = socket) => Msg("monitor", r) \notin ToSet(down[s])

(* A master's request is answered however often the streams are cut or the  *)
(* process is refused, dies and comes back, by the QoS table and its repush;*)
(* or the process has ended for good, or the master has died and forgotten  *)
(* it. (A refused process must not hear of the stream it left: a late close *)
(* may leave it connected without a socket.)                                *)
RequestsAreAnswered ==
  \A r \in Req : (r < reqId) ~> (answers[r] = 1 \/ Gone \/ reqId =< r)

(* The agent is registered again after the last cut, the last refusal, the  *)
(* last death of the process and the last death of the master, for good,    *)
(* under the same condition.                                                *)
FinallyRegistered ==
  <>[](Gone \/ (astate = "registered" /\ M!HasPrimary(Id) /\ idMap[Id].socket = socket))
=============================================================================
