----------------------------- MODULE MasterAgent -----------------------------
(***************************************************************************)
(* The master process: lib/master/masterAgent.js (registry of monitors and *)
(* admin clients, request/callback table, QoS table of unanswered          *)
(* requests), lib/master/masterSocket.js (the handlers of one accepted     *)
(* connection) and lib/protocol/mqtt/mqttServer.js (the listener).         *)
(*                                                                         *)
(* The peers are the environment: any accepted connection may greet with   *)
(* 'register' or 'reconnect', answer a request it was sent, send           *)
(* DISCONNECT or close.  What the environment may not do is stated by      *)
(* MayGreet and NoOverlap.                                                 *)
(***************************************************************************)
EXTENDS Integers, Sequences, SequencesExt

CONSTANTS
  Server,      \* ids of the monitored servers
  Client,      \* ids of admin clients
  Socket,      \* ids of accepted connections; curId++ never reuses one
  Type,        \* server types
  TypeOf,      \* the type of each server id, fixed by the cluster's config
  Info,        \* the {host, port} a monitor reports in msg.info
  NoInfo,      \* the info of a monitor that reports none; it may be in Info
  MaxReq,      \* bound: requests the master may issue
  AsyncAuth,   \* opts.authUser / opts.authServer call back in a later tick
  NoOverlap,   \* environment: see MayGreetAs
  None

TYPE_CLIENT == "client"
Req == 1 .. MaxReq

ASSUME MaxReqAssumption == MaxReq \in Nat
ASSUME TypeOfAssumption == TypeOf \in [Server -> Type] /\ TYPE_CLIENT \notin Type
ASSUME NoneAssumption   == None \notin Server \cup Client \cup Socket \cup Type \cup Info \cup {NoInfo}
ASSUME IdsAssumption    == Server \cap Client = {}
ASSUME FlagsAssumption  == AsyncAuth \in BOOLEAN /\ NoOverlap \in BOOLEAN

(* A registry record, as addConnection builds it. The pid is never read.    *)
Record == [id : Server, type : Type, info : Info, socket : Socket]
NoRecord == [id |-> None, type |-> None, info |-> None, socket |-> None]

VARIABLES
  state,       \* MasterAgent.state
  server,      \* MqttServer's inited and closed flags, and its net.Server
  idMap,       \* primary record of each server id
  typeMap,     \* primary records of each type, in order of arrival
  slaveMap,    \* the other records of each server id, in order of arrival
  clients,     \* socket of the record of each client id
  conn,        \* environment: the stream of each connection, see Open
  msock,       \* the MasterSocket of each connection
  auth,        \* connections whose auth callback is still to come
  reqId,       \* MasterAgent.reqId
  callbacks,   \* ids whose callback is in MasterAgent.callbacks
  msgMap,      \* unanswered request ids kept for each server id
  sent,        \* history: request ids written to each connection
  target,      \* history: the server each request() was for
  refused,     \* history: request ids whose callback got 'unknown server id'
  answers      \* history: calls of the callback of each id by a response

registry == <<idMap, typeMap, slaveMap, clients>>
links    == <<conn, msock, auth>>
qos      == <<reqId, callbacks, msgMap, sent, target, refused, answers>>
vars     == <<state, server, registry, links, qos>>

-----------------------------------------------------------------------------
(* A missing key of typeMap and slaveMap is the empty sequence: the code    *)
(* deletes the key of a list that becomes empty.                            *)

(* new MqttServer(): closed starts true and nothing ever clears it. *)
FreshServer == [inited |-> FALSE, closed |-> TRUE, listening |-> FALSE]
FreshSocket == [id |-> None, type |-> None, info |-> None, registered |-> FALSE]

Init ==
  /\ state = "inited"
  /\ server = FreshServer
  /\ idMap = [i \in Server |-> NoRecord]
  /\ typeMap = [t \in Type |-> <<>>]
  /\ slaveMap = [i \in Server |-> <<>>]
  /\ clients = [c \in Client |-> None]
  /\ conn = [s \in Socket |-> "idle"]
  /\ msock = [s \in Socket |-> FreshSocket]
  /\ auth = {}
  /\ reqId = 1
  /\ callbacks = {}
  /\ msgMap = [i \in Server |-> {}]
  /\ sent = [s \in Socket |-> {}]
  /\ target = [r \in Req |-> None]
  /\ refused = {}
  /\ answers = [r \in Req |-> 0]

-----------------------------------------------------------------------------
(* Life of the agent *)

Listen ==
  /\ state = "inited"
  /\ state' = "started"
  /\ server' = [server EXCEPT !.inited = TRUE, !.listening = TRUE]
  /\ UNCHANGED <<registry, links, qos>>

MqttServerClose ==
  IF server.closed THEN server
                   ELSE [server EXCEPT !.closed = TRUE, !.listening = FALSE]

(* close() before listen() sets the state and then throws: server is null.  *)
Close ==
  /\ state # "closed"
  /\ state' = "closed"
  /\ server' = MqttServerClose
  /\ UNCHANGED <<registry, links, qos>>

Connection(s) ==
  /\ server.listening
  /\ conn[s] = "idle"
  /\ conn' = [conn EXCEPT ![s] = "open"]
  /\ UNCHANGED <<state, server, registry, msock, auth, qos>>

(* A stream stays open when its peer has "left" with a DISCONNECT packet.   *)
Open(s) == conn[s] \in {"open", "left"}

-----------------------------------------------------------------------------
(* Registry *)

HasPrimary(i) == idMap[i] # NoRecord

(* Mutant: the record takes the type the connection had before it greeted.  *)
AddMonitorOfOldType(i, x, s) ==
  LET record == [id |-> i, type |-> msock[s].type, info |-> x, socket |-> s]
  IN /\ idMap' = [idMap EXCEPT ![i] = IF HasPrimary(i) THEN @ ELSE record]
     /\ UNCHANGED <<typeMap, slaveMap, clients>>

(* Mutant: a later record of an id replaces the primary. *)
AddMonitorReplacing(i, x, s) ==
  /\ idMap' = [idMap EXCEPT ![i] = [id |-> i, type |-> TypeOf[i], info |-> x, socket |-> s]]
  /\ typeMap' = [typeMap EXCEPT ![TypeOf[i]] = Append(@, idMap'[i])]
  /\ UNCHANGED <<slaveMap, clients>>

(* addConnection of a monitor: the first record of an id is its primary,    *)
(* the later ones are slaves.                                               *)
AddMonitor(i, x, s) ==
  LET record == [id |-> i, type |-> TypeOf[i], info |-> x, socket |-> s]
  IN IF ~HasPrimary(i)
     THEN /\ idMap' = [idMap EXCEPT ![i] = record]
          /\ typeMap' = [typeMap EXCEPT ![TypeOf[i]] = Append(@, record)]
          /\ UNCHANGED <<slaveMap, clients>>
     ELSE /\ slaveMap' = [slaveMap EXCEPT ![i] = Append(@, record)]
          /\ UNCHANGED <<idMap, typeMap, clients>>

AddClient(c, s) ==
  /\ clients' = [clients EXCEPT ![c] = s]
  /\ UNCHANGED <<idMap, typeMap, slaveMap>>

(* Mutant: the splice is one place late. *)
RemoveAfterFirstOf(list, hits) == IF hits = {} THEN list ELSE RemoveAt(list, Min(hits) + 1)

(* for (...) if (matches) { list.splice(i, 1); break; }                     *)
RemoveFirstOf(list, hits) == IF hits = {} THEN list ELSE RemoveAt(list, Min(hits))

(* compareServer reads host and port of both its arguments: it throws when  *)
(* one is undefined. removeConnection compares with the primary, and then   *)
(* with the slaves up to the first that matches.                            *)
RemoveThrows(i, x) ==
  /\ HasPrimary(i)
  /\ \/ NoInfo \in {idMap[i].info, x}
     \/ /\ idMap[i].info # x
        /\ \E n \in DOMAIN slaveMap[i] :
             /\ slaveMap[i][n].info = NoInfo
             /\ \A k \in 1 .. n - 1 : slaveMap[i][k].info # x

(* Mutant: the slaves are searched before the primary. *)
RemoveMonitorSlavesFirst(i, t, x) ==
  LET slaves == {n \in DOMAIN slaveMap[i] : slaveMap[i][n].info = x}
  IN /\ IF slaves # {}
        THEN /\ slaveMap' = [slaveMap EXCEPT ![i] = RemoveFirstOf(@, slaves)]
             /\ UNCHANGED <<idMap, typeMap>>
        ELSE /\ idMap' = [idMap EXCEPT ![i] = IF @.info = x THEN NoRecord ELSE @]
             /\ typeMap' = [typeMap EXCEPT
                  ![t] = SelectSeq(@, LAMBDA r : r.id # i \/ r.info # x)]
             /\ UNCHANGED slaveMap
     /\ UNCHANGED clients

(* removeConnection of a monitor. Records are told apart by host and port   *)
(* only; nothing says which connection is gone.                             *)
RemoveMonitor(i, t, x) ==
  /\ UNCHANGED clients
  /\ \/ /\ ~HasPrimary(i)
        /\ UNCHANGED <<idMap, typeMap, slaveMap>>
     \/ /\ HasPrimary(i) /\ idMap[i].info = x
        /\ idMap' = [idMap EXCEPT ![i] = NoRecord]
        /\ typeMap' = [typeMap EXCEPT ![t] = RemoveFirstOf(@, {n \in DOMAIN @ : @[n].id = i})]
        /\ UNCHANGED slaveMap
     \/ /\ HasPrimary(i) /\ idMap[i].info # x
        /\ slaveMap' = [slaveMap EXCEPT
             ![i] = RemoveFirstOf(@, {n \in DOMAIN @ : @[n].info = x})]
        /\ UNCHANGED <<idMap, typeMap>>

RemoveClient(c) ==
  /\ clients' = [clients EXCEPT ![c] = None]
  /\ UNCHANGED <<idMap, typeMap, slaveMap>>

(* Mutant: nothing is sent again. *)
RepushNothing(s, i) == UNCHANGED sent

(* repushQosMessage: every unanswered request of the id goes to s again.    *)
Repush(s, i) == sent' = [sent EXCEPT ![s] = @ \cup msgMap[i]]

-----------------------------------------------------------------------------
(* Handlers of a connection *)

(* What the peers do: MonitorAgent and the admin client greet once on a     *)
(* connection until the master forgets them.                                *)
MayGreet(s) ==
  /\ Open(s)
  /\ ~msock[s].registered
  /\ s \notin auth

(* With NoOverlap, the connections that speak for one id at one time have   *)
(* different {host, port}: the master has seen the end of a server's old    *)
(* connection before the server greets on a new one.                        *)
MayGreetAs(s, i, x) ==
  /\ MayGreet(s)
  /\ NoOverlap => ~\E p \in Socket \ {s} :
                     /\ msock[p].registered \/ p \in auth
                     /\ msock[p].id = i /\ msock[p].info = x

Greeted(i, t, x, registered) ==
  [id |-> i, type |-> t, info |-> x, registered |-> registered]

(* onRegister of a monitor; ok is the verdict of an authServer that calls   *)
(* back at once. The repush follows whatever the verdict is.                *)
OnRegisterMonitor(s, i, x, ok) ==
  /\ ~AsyncAuth
  /\ MayGreetAs(s, i, x)
  /\ msock' = [msock EXCEPT ![s] = Greeted(i, TypeOf[i], x, ok)]
  /\ IF ok THEN AddMonitor(i, x, s) ELSE UNCHANGED registry
  /\ Repush(s, i)
  /\ UNCHANGED <<state, server, conn, auth,
                 reqId, callbacks, msgMap, target, refused, answers>>

(* onRegister of a monitor whose authServer answers later: the repush comes *)
(* before the verdict.                                                      *)
OnRegisterMonitorAsync(s, i, x) ==
  /\ AsyncAuth
  /\ MayGreetAs(s, i, x)
  /\ msock' = [msock EXCEPT ![s] = Greeted(i, TypeOf[i], x, FALSE)]
  /\ auth' = auth \cup {s}
  /\ Repush(s, i)
  /\ UNCHANGED <<state, server, registry, conn,
                 reqId, callbacks, msgMap, target, refused, answers>>

(* The callback of authServer, whatever became of the connection meanwhile. *)
AuthServerDone(s, ok) ==
  /\ s \in auth
  /\ msock[s].type # TYPE_CLIENT
  /\ auth' = auth \ {s}
  /\ IF ok THEN /\ AddMonitor(msock[s].id, msock[s].info, s)
                /\ msock' = [msock EXCEPT ![s].registered = TRUE]
           ELSE UNCHANGED <<registry, msock>>
  /\ UNCHANGED <<state, server, conn, qos>>

(* Mutant: the id is not looked up. *)
AdmitClientTwice(s, c, user, unregistered) ==
  /\ msock' = [msock EXCEPT ![s] = [unregistered EXCEPT !.registered = user]]
  /\ IF user THEN AddClient(c, s) ELSE UNCHANGED registry

(* Mutant: the connection is not marked as registered. *)
AdmitClientUnmarked(s, c, user, unregistered) ==
  /\ msock' = [msock EXCEPT ![s] = unregistered]
  /\ IF user /\ clients[c] = None THEN AddClient(c, s) ELSE UNCHANGED registry

(* Mutant: the connection is not recorded. *)
AdmitClientUnlisted(s, c, user, unregistered) ==
  /\ msock' = [msock EXCEPT ![s] = [unregistered EXCEPT !.registered = user]]
  /\ UNCHANGED registry

(* The verdict on a client: its user is known and its id is free. *)
AdmitClient(s, c, user, unregistered) ==
  LET ok == user /\ clients[c] = None
  IN /\ msock' = [msock EXCEPT ![s] = [unregistered EXCEPT !.registered = ok]]
     /\ IF ok THEN AddClient(c, s) ELSE UNCHANGED registry

(* onRegister of a client; this.info is the word 'client'. *)
OnRegisterClient(s, c, user) ==
  /\ ~AsyncAuth
  /\ MayGreet(s)
  /\ AdmitClient(s, c, user, Greeted(c, TYPE_CLIENT, None, FALSE))
  /\ UNCHANGED <<state, server, conn, auth, qos>>

OnRegisterClientAsync(s, c) ==
  /\ AsyncAuth
  /\ MayGreet(s)
  /\ msock' = [msock EXCEPT ![s] = Greeted(c, TYPE_CLIENT, None, FALSE)]
  /\ auth' = auth \cup {s}
  /\ UNCHANGED <<state, server, registry, conn, qos>>

AuthUserDone(s, user) ==
  /\ s \in auth
  /\ msock[s].type = TYPE_CLIENT
  /\ auth' = auth \ {s}
  /\ AdmitClient(s, msock[s].id, user, msock[s])
  /\ UNCHANGED <<state, server, conn, qos>>

(* onReconnect: no authentication; an id that has a primary is refused.     *)
(* Without info the handler throws half way: registered, but not told so.   *)
OnReconnect(s, i, x) ==
  /\ MayGreetAs(s, i, x)
  /\ ~HasPrimary(i)
  /\ AddMonitor(i, x, s)
  /\ IF x = NoInfo
     THEN /\ msock' = [msock EXCEPT ![s] = Greeted(i, TypeOf[i], @.info, TRUE)]
          /\ UNCHANGED sent
     ELSE /\ msock' = [msock EXCEPT ![s] = Greeted(i, TypeOf[i], x, TRUE)]
          /\ Repush(s, i)
  /\ UNCHANGED <<state, server, conn, auth,
                 reqId, callbacks, msgMap, target, refused, answers>>

(* onDisconnect. An unregistered connection keeps the id it greeted with; a *)
(* throw in removeConnection leaves the connection registered.              *)
OnDisconnect(s) ==
  LET m == msock[s]
      client == m.type = TYPE_CLIENT
      forget == m.registered /\ (client \/ ~RemoveThrows(m.id, m.info))
  IN /\ IF forget
        THEN /\ IF client THEN RemoveClient(m.id) ELSE RemoveMonitor(m.id, m.type, m.info)
             /\ msock' = [msock EXCEPT ![s] = Greeted(None, None, m.info, FALSE)]
        ELSE UNCHANGED <<registry, msock>>
     /\ UNCHANGED <<state, server, auth, qos>>

(* The peer's DISCONNECT packet (bound: one on each connection). The peer   *)
(* may greet again on the same stream.                                      *)
DisconnectPacket(s) ==
  /\ conn[s] = "open"
  /\ conn' = [conn EXCEPT ![s] = "left"]
  /\ OnDisconnect(s)

(* Mutant: the end of a stream is not handled. *)
StreamCloseUnseen(s) ==
  /\ Open(s)
  /\ conn' = [conn EXCEPT ![s] = "closed"]
  /\ UNCHANGED <<state, server, registry, msock, auth, qos>>

StreamClose(s) ==
  /\ Open(s)
  /\ conn' = [conn EXCEPT ![s] = "closed"]
  /\ OnDisconnect(s)

(* A server answers only what some connection of the master carried, but it *)
(* may answer on any of its connections, once for each copy it received.    *)
MayAnswer(s, r) ==
  /\ Open(s)
  /\ msock[s].registered
  /\ msock[s].id = target[r]
  /\ \E p \in Socket : r \in sent[p]

(* Mutant: an answered request stays in the QoS table. *)
OnMonitorResponseKeepingQos(s, r) ==
  /\ MayAnswer(s, r)
  /\ r \in callbacks
  /\ callbacks' = callbacks \ {r}
  /\ answers' = [answers EXCEPT ![r] = @ + 1]
  /\ UNCHANGED <<state, server, registry, links, reqId, msgMap, sent, target, refused>>

(* Mutant: an answered request keeps its callback. *)
OnMonitorResponseKeepingCallback(s, r) ==
  /\ MayAnswer(s, r)
  /\ r \in callbacks
  /\ answers[r] < 2
  /\ msgMap' = [msgMap EXCEPT ![msock[s].id] = @ \ {r}]
  /\ answers' = [answers EXCEPT ![r] = @ + 1]
  /\ UNCHANGED <<state, server, registry, links, reqId, callbacks, sent, target, refused>>

(* onMonitor with a respId: an answer without a callback changes nothing.   *)
OnMonitorResponse(s, r) ==
  /\ MayAnswer(s, r)
  /\ r \in callbacks
  /\ msgMap' = [msgMap EXCEPT ![msock[s].id] = @ \ {r}]
  /\ callbacks' = callbacks \ {r}
  /\ answers' = [answers EXCEPT ![r] = @ + 1]
  /\ UNCHANGED <<state, server, registry, links, reqId, sent, target, refused>>

-----------------------------------------------------------------------------
(* Calls of the application *)

(* request(): the callback and the QoS entry are stored before the server   *)
(* id is looked up, and stay when the callback is told 'unknown server id'. *)
Request(i) ==
  /\ state # "closed"
  /\ reqId \in Req
  /\ reqId' = reqId + 1
  /\ callbacks' = callbacks \cup {reqId}
  /\ msgMap' = [msgMap EXCEPT ![i] = @ \cup {reqId}]
  /\ target' = [target EXCEPT ![reqId] = i]
  /\ \/ /\ HasPrimary(i)
        /\ sent' = [sent EXCEPT ![idMap[i].socket] = @ \cup {reqId}]
        /\ UNCHANGED refused
     \/ /\ ~HasPrimary(i)
        /\ refused' = refused \cup {reqId}
        /\ UNCHANGED sent
  /\ UNCHANGED <<state, server, registry, links, answers>>

(* The {host, port} compareServer reads from its first argument in          *)
(* requestServer and notifyByServer: the record itself, which has neither   *)
(* field, and not record.info.                                              *)
AddressOf(record) == None

(* The records of i that requestServer and notifyByServer send to: the      *)
(* primary, or else the first slave. Without slaves the loop throws.        *)
ByServer(i, x) ==
  IF AddressOf(idMap[i]) = x
  THEN {idMap[i].socket}
  ELSE LET n == SelectInSeq(slaveMap[i], LAMBDA r : AddressOf(r) = x)
       IN IF n = 0 THEN {} ELSE {slaveMap[i][n].socket}

(* requestServer(): the callback is stored, the QoS table is not used.      *)
RequestServer(i, x) ==
  /\ state # "closed"
  /\ HasPrimary(i)
  /\ reqId \in Req
  /\ reqId' = reqId + 1
  /\ callbacks' = callbacks \cup {reqId}
  /\ sent' = [s \in Socket |-> IF s \in ByServer(i, x) THEN sent[s] \cup {reqId}
                                                       ELSE sent[s]]
  /\ UNCHANGED <<state, server, registry, links, msgMap, target, refused, answers>>

(* Who receives a notification: connections, in sending order where the     *)
(* code has one. A closed agent, or an unknown id or type, sends nothing.   *)
Sending == state # "closed"
NotifyById(i)       == {idMap[j].socket : j \in {j \in {i} : Sending /\ HasPrimary(j)}}
NotifyAll           == {idMap[j].socket : j \in {j \in Server : Sending /\ HasPrimary(j)}}
NotifyByType(t)     == [n \in 1 .. (IF Sending THEN Len(typeMap[t]) ELSE 0) |->
                          typeMap[t][n].socket]
NotifySlavesById(i) == [n \in 1 .. (IF Sending THEN Len(slaveMap[i]) ELSE 0) |->
                          slaveMap[i][n].socket]
NotifyClient(c)     == {clients[d] : d \in {d \in {c} : Sending /\ clients[d] # None}}

-----------------------------------------------------------------------------
Next ==
  \/ Listen
  \/ Close
  \/ \E s \in Socket :
       \/ Connection(s)
       \/ DisconnectPacket(s)
       \/ StreamClose(s)
       \/ \E i \in Server, x \in Info :
            \/ \E ok \in BOOLEAN : OnRegisterMonitor(s, i, x, ok)
            \/ OnRegisterMonitorAsync(s, i, x)
            \/ OnReconnect(s, i, x)
       \/ \E c \in Client :
            \/ \E user \in BOOLEAN : OnRegisterClient(s, c, user)
            \/ OnRegisterClientAsync(s, c)
       \/ \E ok \in BOOLEAN : AuthServerDone(s, ok) \/ AuthUserDone(s, ok)
       \/ \E r \in Req : OnMonitorResponse(s, r)
  \/ \E i \in Server : Request(i) \/ \E x \in Info : RequestServer(i, x)

Spec == Init /\ [][Next]_vars

(* What is left of the agent without records, connections and QoS entries.  *)
Table == INSTANCE RequestTable WITH
           closed    <- state = "closed",
           present   <- {i \in Server : HasPrimary(i)},
           delivered <- UNION {sent[s] : s \in Socket},
           called    <- {r \in Req : answers[r] > 0}

-----------------------------------------------------------------------------
RegistryTypeOK ==
  /\ idMap \in [Server -> Record \cup {NoRecord}]
  /\ typeMap \in [Type -> Seq(Record)]
  /\ slaveMap \in [Server -> Seq(Record)]
  /\ clients \in [Client -> Socket \cup {None}]

LinksTypeOK ==
  /\ conn \in [Socket -> {"idle", "open", "left", "closed"}]
  /\ msock \in [Socket -> [id : Server \cup Client \cup {None},
                           type : Type \cup {TYPE_CLIENT, None},
                           info : Info \cup {None},
                           registered : BOOLEAN]]
  /\ auth \subseteq Socket

QosTypeOK ==
  /\ reqId \in 1 .. MaxReq + 1
  /\ callbacks \subseteq Req
  /\ msgMap \in [Server -> SUBSET Req]
  /\ sent \in [Socket -> SUBSET Req]
  /\ target \in [Req -> Server \cup {None}]
  /\ refused \subseteq Req
  /\ answers \in [Req -> Nat]

(* Type correctness. *)
TypeOK ==
  /\ state \in {"inited", "started", "closed"}
  /\ server \in [inited : BOOLEAN, closed : BOOLEAN, listening : BOOLEAN]
  /\ RegistryTypeOK
  /\ LinksTypeOK
  /\ QosTypeOK

MonitorIs(s, i) == msock[s].registered /\ msock[s].type # TYPE_CLIENT /\ msock[s].id = i

(* The primary of an id is a connection that is registered under that id    *)
(* with the {host, port} of the record: however registrations, takeovers    *)
(* and disconnects of connections that share ids and addresses interleave,  *)
(* removing a record never leaves as primary a connection whose end was     *)
(* handled. (A verdict that comes after the end of its connection registers *)
(* that connection all the same; RecipientsAreOpen speaks of the others.)   *)
PrimaryIsRegistered ==
  \A i \in Server : HasPrimary(i) =>
    LET record == idMap[i]
    IN /\ record.id = i /\ record.type = TypeOf[i]
       /\ MonitorIs(record.socket, i)
       /\ msock[record.socket].info = record.info

(* When authentication answers at once, what request, notifyById,           *)
(* notifyByType, notifyAll and notifyClient write goes to a connection that *)
(* is still open.                                                           *)
RecipientsAreOpen ==
  \A s \in NotifyAll \cup UNION ({NotifyById(i) : i \in Server}
                               \cup {ToSet(NotifyByType(t)) : t \in Type}
                               \cup {NotifyClient(c) : c \in Client}) : Open(s)

(* typeMap is an index of idMap: notifyByType reaches each primary of the   *)
(* type, once, and nobody else, after any order of arrivals, departures     *)
(* and takeovers.                                                           *)
ByTypeIndexesPrimaries ==
  \A t \in Type :
    /\ ToSet(typeMap[t]) = {idMap[i] : i \in {j \in Server : HasPrimary(j) /\ TypeOf[j] = t}}
    /\ \A m, n \in DOMAIN typeMap[t] : typeMap[t][m] = typeMap[t][n] => m = n

(* A client id belongs to one registered connection, and every registered   *)
(* client connection owns its id: a second login cannot take an id over, a  *)
(* rejected or late one cannot release it.                                  *)
ClientOwnsId ==
  \A c \in Client, s \in Socket :
    clients[c] = s <=> /\ msock[s].registered
                       /\ msock[s].type = TYPE_CLIENT
                       /\ msock[s].id = c

(* While the addresses of live connections differ (NoOverlap), a registered *)
(* monitor can be found: it is the primary of its id or one of its slaves.  *)
(* removeConnection searches by {host, port}, so what could go wrong is     *)
(* that the end of one connection removes the record of another.            *)
RegisteredHasRecord ==
  \A s \in Socket, i \in Server : MonitorIs(s, i) =>
    \/ HasPrimary(i) /\ idMap[i].socket = s
    \/ \E n \in DOMAIN slaveMap[i] : slaveMap[i][n].socket = s

(* The QoS table of a server holds exactly the requests to it whose         *)
(* callback is still owed, across disconnects, reconnects and repeated      *)
(* answers: none is forgotten and none is repushed after its answer.        *)
OutstandingIsQueued ==
  \A i \in Server : msgMap[i] = {r \in callbacks : target[r] = i}

(* A callback is called by at most one response although a request may be   *)
(* written to several connections and answered from each.                   *)
AnsweredAtMostOnce ==
  \A r \in Req : answers[r] = IF r < reqId /\ r \notin callbacks THEN 1 ELSE 0

(* When authentication answers at once, the primary of a server has been    *)
(* sent every outstanding request to it, those issued while it was away     *)
(* included.                                                                *)
PrimaryHasOutstanding ==
  \A i \in Server : HasPrimary(i) => msgMap[i] \subseteq sent[idMap[i].socket]

(* The agent keeps the promise WatchServer relies on: whatever becomes of   *)
(* connections and records, a callback is owed until the first answer and   *)
(* called once, what is outstanding is sent to a server that is admitted,   *)
(* and nothing but a connection of its own makes a server present or absent.*)
ImplementsRequestTable == Table!TableSpec

-----------------------------------------------------------------------------
(* What the repository says of the master and its code does not do.         *)

(* test/console-service-test.js:204 "should fail if the monitor not exists" *)
(* and 218-221: the callback gets an error and no response.                 *)
RefusedIsNotAnswered == \A r \in refused : answers[r] = 0
=============================================================================
