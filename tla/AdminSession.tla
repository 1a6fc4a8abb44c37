------------------------------ MODULE AdminSession ------------------------------
(***************************************************************************)
(* One admin client and the master, joined by the streams the client opens *)
(* (compare MonitorSession). The master's end is MasterAgent without       *)
(* servers, whose authUser calls back at once; a module handler or a       *)
(* command that has received a question calls back once or, as watchServer *)
(* may for an unknown id, twice.                                           *)
(***************************************************************************)
EXTENDS AdminClient, SequencesExt

CONSTANTS
  Id,         \* the client's id
  None,
  MaxCut,     \* bound: streams the network cuts
  MaxAnswer   \* bound: calls of a handler's callback

ASSUME SessionAssumption == MaxCut \in Nat /\ MaxAnswer \in Nat \ {0}

VARIABLES state, server, idMap, typeMap, slaveMap, clients, conn, msock, auth,
          reqId, callbacks, msgMap, sent, target, refused, answers

M == INSTANCE MasterAgent WITH
       Server <- {}, Client <- {Id}, Socket <- Stream, Type <- {}, TypeOf <- <<>>,
       Info <- {}, NoInfo <- None, MaxReq <- 0, AsyncAuth <- FALSE, NoOverlap <- FALSE

VARIABLES
  down,   \* messages written by the master to each stream and not yet carried
  cut,    \* streams the network has cut
  calls   \* calls the handler of each question may still make

masterVars ==
  <<state, server, idMap, typeMap, slaveMap, clients, conn, msock, auth,
    reqId, callbacks, msgMap, sent, target, refused, answers>>
sessionVars == <<vars, masterVars, down, cut, calls>>

SessionInit ==
  /\ Init
  /\ M!Init
  /\ down = [s \in Stream |-> <<>>]
  /\ cut = {}
  /\ calls = [q \in Ask |-> 0]

-----------------------------------------------------------------------------
(* The master's end of a stream *)

Msg(t, n) == [topic |-> t, id |-> n]

(* What is written to a cut stream is lost. *)
Reply(s, ms) == down' = [down EXCEPT ![s] = IF s \in cut THEN @ ELSE @ \o ms]

(* The next message of s reaches the master. *)
Arrives(s, t) ==
  /\ s \notin cut
  /\ M!Open(s)
  /\ out[s] # <<>> /\ Head(out[s]).topic = t
  /\ Carry(s)
  /\ UNCHANGED cut

MasterListen == M!Listen /\ UNCHANGED <<vars, down, cut, calls>>

MasterAccepts(s) ==
  /\ s \notin cut
  /\ stream[s] # "unused"
  /\ M!Connection(s)
  /\ Reply(s, <<Msg("connack", 0)>>)
  /\ UNCHANGED <<vars, cut, calls>>

(* The verdict of doAuthUser: a refused client is told so and disconnected. *)
Verdict(s, user) ==
  Reply(s, IF user /\ clients[Id] = None
           THEN <<Msg("register", 1)>>
           ELSE <<Msg("register", 0), Msg("disconnect", 0)>>)

MasterOnRegister(s) ==
  /\ Arrives(s, "register")
  /\ \E user \in BOOLEAN : M!OnRegisterClient(s, Id, user) /\ Verdict(s, user)
  /\ UNCHANGED calls

(* onClient of a connection that is not registered: the kick. *)
Kick(s) == Reply(s, <<Msg("disconnect", 0)>>)

(* onClient: execute or command runs a handler. *)
MasterOnClient(s) ==
  /\ Arrives(s, "client")
  /\ IF ~msock[s].registered
     THEN Kick(s) /\ UNCHANGED calls
     ELSE calls' = [calls EXCEPT ![Head(out[s]).id] = MaxAnswer] /\ UNCHANGED down
  /\ UNCHANGED masterVars

(* The callback of the handler writes to the connection the question came   *)
(* on, whatever became of it.                                               *)
HandlerCalls(q) ==
  /\ calls[q] > 0
  /\ calls' = [calls EXCEPT ![q] = @ - 1]
  /\ Reply(written[q], <<Msg("client", q)>>)
  /\ UNCHANGED <<vars, masterVars, cut>>

MasterSeesEnd(s) ==
  /\ s \in cut
  /\ M!StreamClose(s)
  /\ UNCHANGED <<vars, down, cut, calls>>

MasterHandles(s) == MasterOnRegister(s) \/ MasterOnClient(s)

-----------------------------------------------------------------------------
(* The client's end of a stream *)

ClientHandles(s) ==
  /\ down[s] # <<>>
  /\ LET m == Head(down[s])
     IN CASE m.topic = "connack"    -> ClientConnack(s)
          [] m.topic = "register"   -> OnRegister(s, m.id = 1)
          [] m.topic = "client"     -> OnClient(s, m.id)
          [] m.topic = "disconnect" -> ClientDisconnectPacket(s)
  /\ down' = [down EXCEPT ![s] = Tail(@)]
  /\ UNCHANGED <<masterVars, cut, calls>>

ClientSeesEnd(s) ==
  /\ s \in cut
  /\ StreamEnds(s)
  /\ UNCHANGED <<adminVars, masterVars, down, cut, calls>>

(* Pings are answered by the master's end of a stream that is not cut. *)
ClientPonged(s) ==
  /\ s \notin cut
  /\ Pingresp(s)
  /\ UNCHANGED <<adminVars, masterVars, down, cut, calls>>

(* The client is started after the master listens. A pong is late only when *)
(* its stream was cut, and the DISCONNECT written then is lost.             *)
ClientSteps ==
  /\ \/ server.listening /\ ClientConnect
     \/ ClientAsk
     \/ ClientAlone
     \/ \E k \in intervals : socket \in cut /\ ClientKeepAliveTimeout(k)
  /\ UNCHANGED <<masterVars, down, cut, calls>>

-----------------------------------------------------------------------------
(* The network: a cut loses what is under way in both directions.           *)
Cut(s) ==
  /\ s \notin cut
  /\ stream[s] \in {"connecting", "open"}
  /\ Cardinality(cut) < MaxCut
  /\ cut' = cut \cup {s}
  /\ down' = [down EXCEPT ![s] = <<>>]
  /\ out' = [out EXCEPT ![s] = <<>>]
  /\ UNCHANGED <<clientVars, cstate, login, askId, asking, written, called,
                 masterVars, calls>>

LosesWrite(s) ==
  /\ s \in cut
  /\ Carry(s)
  /\ UNCHANGED <<masterVars, down, cut, calls>>

SessionNext ==
  \/ MasterListen
  \/ ClientSteps
  \/ \E s \in Stream :
       \/ MasterAccepts(s) \/ MasterHandles(s) \/ MasterSeesEnd(s)
       \/ ClientHandles(s) \/ ClientSeesEnd(s) \/ ClientPonged(s)
       \/ Cut(s) \/ LosesWrite(s)
  \/ \E q \in Ask : HandlerCalls(q)

Spec == SessionInit /\ [][SessionNext]_sessionVars

(* Every message and timer that is due comes, and a handler calls           *)
(* back at least once; a cut, a question or a second answer need not come.  *)
Fairness ==
  /\ WF_sessionVars(MasterListen)
  /\ WF_sessionVars(ClientSteps /\ (ClientConnect \/ \E n \in retries : RetryFires(n)))
  /\ \A q \in Ask : WF_sessionVars(calls[q] = MaxAnswer /\ HandlerCalls(q))
  /\ \A s \in Stream :
       /\ WF_sessionVars(MasterAccepts(s))
       /\ WF_sessionVars(MasterHandles(s))
       /\ WF_sessionVars(MasterSeesEnd(s))
       /\ WF_sessionVars(ClientHandles(s))
       /\ WF_sessionVars(ClientSeesEnd(s))

FairSpec == Spec /\ Fairness

-----------------------------------------------------------------------------
(* A callback is called once at most, although its handler may answer twice *)
(* and requests, cuts and kicks come in any order; until then it is kept.   *)
CallbackIsOwedOrCalled ==
  \A q \in Ask : called[q] = IF q < askId /\ q \notin asking THEN 1 ELSE 0

(* When nothing is under way on the stream it logged in on, a client that   *)
(* believes it is registered owns its id at the master, on that stream.     *)
LoginIsHeld ==
  /\ connected /\ ~closed /\ connectedTimes = 2
  /\ cstate = "registered" /\ login = "ok"
  /\ socket \notin cut
  /\ out[socket] = <<>> /\ down[socket] = <<>>
  => clients[Id] = socket

(* A question that is written to the stream the client logged in on is      *)
(* answered, or the login failed or that stream was lost.                   *)
QuestionsAreAnswered ==
  \A q \in Ask : (written[q] = 1) ~> (called[q] = 1 \/ login = "error" \/ 1 \in cut)

(* The id is free again for another login once its connection is lost,      *)
(* whatever the client goes on doing on other streams.                      *)
IdIsReleased == 1 \in cut ~> [](clients[Id] = None)
=============================================================================
