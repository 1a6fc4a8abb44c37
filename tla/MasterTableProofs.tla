-------------------------- MODULE MasterTableProofs --------------------------
(***************************************************************************)
(* MasterAgent implements RequestTable, for every value of the constants:  *)
(* the proof of ImplementsRequestTable.                                    *)
(***************************************************************************)
EXTENDS MasterAgentProofs

-----------------------------------------------------------------------------
(* The refinement mapping *)

Present   == {i \in Server : HasPrimary(i)}
Delivered == UNION {sent[s] : s \in Socket}
Called    == {r \in Req : answers[r] > 0}

(* What a step of the table reads and writes, besides who is present.       *)
requests == <<reqId, callbacks, target, refused, answers>>

(* The ids of the table and those of the agent are the same.                *)
LEMMA SameReq == Table!Req = Req
BY DEF Table!Req, Req

(* A step that changes nothing the table sees. *)
LEMMA TableStutters ==
  ASSUME UNCHANGED <<Present, requests, Delivered>>, state' = "closed" <=> state = "closed"
  PROVE  UNCHANGED Table!tableVars
<1>1. Called' = Called
  BY DEF requests, Called
<1>2. (state' = "closed") = (state = "closed")
  OBVIOUS
<1> QED BY <1>1, <1>2 DEF Table!tableVars, Present, Delivered, Called, requests

(* The end of a connection, or its DISCONNECT, is the departure of a server *)
(* or nothing.                                                              *)
LEMMA DisconnectDeparts ==
  ASSUME TypeInv, NEW s \in Socket, OnDisconnect(s)
  PROVE  \/ \E i \in Server : Table!Depart(i)
         \/ UNCHANGED Table!tableVars
<1> DEFINE m == msock[s]
<1>1. UNCHANGED <<state, requests, Delivered>>
  BY DEF OnDisconnect, qos, requests, Delivered
<1>2. CASE idMap' = idMap
  BY <1>1, <1>2, TableStutters DEF Present, HasPrimary
<1>3. CASE idMap' # idMap
  <2>1. m.registered /\ m.type # TYPE_CLIENT /\ RemoveMonitor(m.id, m.type, m.info)
    BY <1>3 DEF OnDisconnect, RemoveClient, registry
  <2>2. m.id \in Server
    BY <2>1 DEF TypeInv, GreetedOK, Identity
  <2>3. idMap' = [idMap EXCEPT ![m.id] = NoRecord]
    BY <1>3, <2>1 DEF RemoveMonitor
  <2>4. Present' = Present \ {m.id}
    BY <2>2, <2>3 DEF Present, HasPrimary, TypeInv, TypeOK, RegistryTypeOK
  <2>5. UNCHANGED Called
    BY <1>1 DEF requests, Called
  <2>6. Table!Depart(m.id)
    BY <1>1, <2>4, <2>5 DEF Table!Depart, Present, Delivered, Called, requests
  <2> QED BY <2>2, <2>6
<1> QED BY <1>2, <1>3

(* What a repush writes is what is outstanding in the table.                *)
LEMMA RepushDelivers ==
  ASSUME TypeInv, QosInv, NEW s \in Socket, NEW i \in Server, Repush(s, i)
  PROVE  Delivered' = Delivered \cup Table!Outstanding(i)
<1>1. msgMap[i] = Table!Outstanding(i)
  BY DEF QosInv, OutstandingIsQueued, Table!Outstanding
<1>2. sent' = [sent EXCEPT ![s] = @ \cup msgMap[i]]
  BY DEF Repush
<1>3. \A p \in Socket : sent'[p] = IF p = s THEN sent[p] \cup msgMap[i] ELSE sent[p]
  BY <1>2 DEF TypeInv, TypeOK, QosTypeOK
<1>4. ASSUME NEW r
      PROVE  r \in Delivered' <=> r \in Delivered \/ r \in msgMap[i]
  <2>1. r \in Delivered' <=> \E p \in Socket : r \in sent'[p]
    BY DEF Delivered
  <2>2. r \in Delivered <=> \E p \in Socket : r \in sent[p]
    BY DEF Delivered
  <2> QED BY <1>3, <2>1, <2>2
<1> QED BY <1>1, <1>4

(* A record that is added makes its server present. *)
LEMMA AddMakesPresent ==
  ASSUME TypeInv, NEW i \in Server, NEW x \in Info, NEW s \in Socket, AddMonitor(i, x, s)
  PROVE  Present' = Present \cup {i}
<1>1. CASE HasPrimary(i)
  BY <1>1 DEF AddMonitor, Present, HasPrimary
<1>2. CASE ~HasPrimary(i)
  <2> DEFINE record == [id |-> i, type |-> TypeOf[i], info |-> x, socket |-> s]
  <2>1. idMap' = [idMap EXCEPT ![i] = record]
    BY <1>2 DEF AddMonitor
  <2>2. record # NoRecord
    <3>1. record.id = i /\ NoRecord.id = None
      BY DEF NoRecord
    <3> QED BY <3>1, NoneAssumption
  <2> QED BY <2>1, <2>2 DEF Present, HasPrimary, TypeInv, TypeOK, RegistryTypeOK
<1> QED BY <1>1, <1>2

-----------------------------------------------------------------------------
(* Every step of the agent is a step of the table, or none. *)
LEMMA NextImplements ==
  ASSUME TypeInv, QosInv, Next
  PROVE  [Table!TableNext]_(Table!tableVars)
<1> DEFINE Implemented == [Table!TableNext]_(Table!tableVars)
<1>1. ASSUME Listen PROVE Implemented
  BY <1>1, TableStutters DEF Listen, registry, qos, Present, HasPrimary, Delivered, requests
<1>2. ASSUME Close PROVE Implemented
  <2>1. UNCHANGED <<Present, requests, Delivered, Called>> /\ state' = "closed"
    BY <1>2 DEF Close, registry, qos, Present, HasPrimary, Delivered, requests, Called
  <2>2. Table!Stop
    BY <2>1 DEF Table!Stop, Present, Delivered, Called, requests
  <2> QED BY <2>2 DEF Table!TableNext
<1>3. ASSUME NEW s \in Socket, Connection(s) PROVE Implemented
  BY <1>3, TableStutters DEF Connection, registry, qos, Present, HasPrimary, Delivered, requests
<1>4. ASSUME NEW s \in Socket, DisconnectPacket(s) \/ StreamClose(s) PROVE Implemented
  BY <1>4, DisconnectDeparts DEF DisconnectPacket, StreamClose, Table!TableNext
<1>5. ASSUME NEW s \in Socket, NEW i \in Server, NEW x \in Info, NEW ok \in BOOLEAN,
             OnRegisterMonitor(s, i, x, ok)
      PROVE  Implemented
  <2>1. Delivered' = Delivered \cup Table!Outstanding(i)
    BY <1>5, RepushDelivers DEF OnRegisterMonitor
  <2>2. UNCHANGED <<state, requests, Called>>
    BY <1>5 DEF OnRegisterMonitor, requests, Called
  <2>3. CASE ok
    <3>1. Present' = Present \cup {i}
      BY <1>5, <2>3, AddMakesPresent DEF OnRegisterMonitor
    <3>2. Table!Arrive(i)
      BY <2>1, <2>2, <3>1 DEF Table!Arrive, Present, Delivered, Called, requests
    <3> QED BY <3>2 DEF Table!TableNext
  <2>4. CASE ~ok
    <3>1. Present' = Present
      BY <1>5, <2>4 DEF OnRegisterMonitor, registry, Present, HasPrimary
    <3>2. Table!Deliver(i)
      BY <2>1, <2>2, <3>1 DEF Table!Deliver, Present, Delivered, Called, requests
    <3> QED BY <3>2 DEF Table!TableNext
  <2> QED BY <2>3, <2>4
<1>6. ASSUME NEW s \in Socket, NEW i \in Server, NEW x \in Info, OnRegisterMonitorAsync(s, i, x)
      PROVE  Implemented
  <2>1. Delivered' = Delivered \cup Table!Outstanding(i)
    BY <1>6, RepushDelivers DEF OnRegisterMonitorAsync
  <2>2. UNCHANGED <<state, requests, Called, Present>>
    BY <1>6 DEF OnRegisterMonitorAsync, requests, Called, registry, Present, HasPrimary
  <2>3. Table!Deliver(i)
    BY <2>1, <2>2 DEF Table!Deliver, Present, Delivered, Called, requests
  <2> QED BY <2>3 DEF Table!TableNext
<1>7. ASSUME NEW s \in Socket, NEW i \in Server, NEW x \in Info, OnReconnect(s, i, x)
      PROVE  Implemented
  <2>1. Present' = Present \cup {i}
    BY <1>7, AddMakesPresent DEF OnReconnect
  <2>2. UNCHANGED <<state, requests, Called>>
    BY <1>7 DEF OnReconnect, requests, Called
  <2>3. CASE x = NoInfo
    <3>1. UNCHANGED Delivered
      BY <1>7, <2>3 DEF OnReconnect, Delivered
    <3>2. Table!Admit(i)
      BY <2>1, <2>2, <3>1 DEF Table!Admit, Present, Delivered, Called, requests
    <3> QED BY <3>2 DEF Table!TableNext
  <2>4. CASE x # NoInfo
    <3>1. Delivered' = Delivered \cup Table!Outstanding(i)
      BY <1>7, <2>4, RepushDelivers DEF OnReconnect
    <3>2. Table!Arrive(i)
      BY <2>1, <2>2, <3>1 DEF Table!Arrive, Present, Delivered, Called, requests
    <3> QED BY <3>2 DEF Table!TableNext
  <2> QED BY <2>3, <2>4
<1>8. ASSUME NEW s \in Socket, NEW ok \in BOOLEAN, AuthServerDone(s, ok) PROVE Implemented
  <2>1. UNCHANGED <<state, requests, Called, Delivered>>
    BY <1>8 DEF AuthServerDone, qos, requests, Called, Delivered
  <2>2. msock[s].id \in Server /\ msock[s].info \in Info
    BY <1>8 DEF AuthServerDone, TypeInv, GreetedOK, Identity
  <2>3. CASE ok
    <3>1. Present' = Present \cup {msock[s].id}
      BY <1>8, <2>2, <2>3, AddMakesPresent DEF AuthServerDone
    <3>2. Table!Admit(msock[s].id)
      BY <2>1, <3>1 DEF Table!Admit, Present, Delivered, Called, requests
    <3> QED BY <2>2, <3>2 DEF Table!TableNext
  <2>4. CASE ~ok
    BY <1>8, <2>1, <2>4, TableStutters DEF AuthServerDone, registry, Present, HasPrimary
  <2> QED BY <2>3, <2>4
<1>9. ASSUME NEW s \in Socket, NEW c \in Client,
             OnRegisterClientAsync(s, c) \/ \E user \in BOOLEAN : OnRegisterClient(s, c, user)
      PROVE  Implemented
  <2>1. UNCHANGED <<state, qos, idMap>>
    BY <1>9 DEF OnRegisterClientAsync, OnRegisterClient, AdmitClient, AddClient, registry, qos
  <2> QED BY <2>1, TableStutters DEF qos, Present, HasPrimary, Delivered, requests
<1>10. ASSUME NEW s \in Socket, NEW user \in BOOLEAN, AuthUserDone(s, user) PROVE Implemented
  <2>1. UNCHANGED <<state, qos, idMap>>
    BY <1>10 DEF AuthUserDone, AdmitClient, AddClient, registry, qos
  <2> QED BY <2>1, TableStutters DEF qos, Present, HasPrimary, Delivered, requests
<1>11. ASSUME NEW s \in Socket, NEW r \in Req, OnMonitorResponse(s, r) PROVE Implemented
  <2>1. UNCHANGED <<state, Present, reqId, target, refused, Delivered>>
    BY <1>11 DEF OnMonitorResponse, registry, Present, HasPrimary, Delivered
  <2>2. r \in callbacks \cap Delivered /\ callbacks' = callbacks \ {r}
    BY <1>11 DEF OnMonitorResponse, MayAnswer, Delivered
  <2>3. target[r] # None
    BY <1>11, NoneAssumption DEF OnMonitorResponse, MayAnswer, TypeInv, GreetedOK, Identity
  <2>4. Called' = Called \cup {r}
    BY <1>11 DEF OnMonitorResponse, Called, TypeInv, TypeOK, QosTypeOK
  <2>5. Table!Answer(r)
    BY <2>1, <2>2, <2>3, <2>4 DEF Table!Answer, Present, Delivered, Called
  <2> QED BY <2>5, SameReq DEF Table!TableNext
<1>12. ASSUME NEW i \in Server, Request(i) PROVE Implemented
  <2>0. PICK f : f = [r \in reqId .. reqId |-> i]
    OBVIOUS
  <2>1. reqId \in Req /\ reqId \in Nat /\ reqId .. reqId = {reqId} /\ DOMAIN f = {reqId}
    BY <1>12, <2>0 DEF Request, Req
  <2>2. /\ state # "closed" /\ UNCHANGED <<state, Present, Called>>
        /\ reqId' = reqId + 1 /\ callbacks' = callbacks \cup {reqId}
    BY <1>12 DEF Request, registry, Present, HasPrimary, Called
  <2>3. target' = [r \in Req |-> IF r \in DOMAIN f THEN f[r] ELSE target[r]]
    BY <1>12, <2>0, <2>1 DEF Request, TypeInv, TypeOK, QosTypeOK
  <2>4. /\ Delivered' = Delivered \cup {r \in DOMAIN f : f[r] \in Present}
        /\ refused' = refused \cup {r \in DOMAIN f : f[r] \notin Present}
    <3>1. CASE HasPrimary(i)
      <4>1. /\ idMap[i].socket \in Socket /\ refused' = refused
            /\ sent' = [sent EXCEPT ![idMap[i].socket] = @ \cup {reqId}]
        BY <1>12, <3>1 DEF Request, HasPrimary, Record, TypeInv, TypeOK, RegistryTypeOK
      <4>2. Delivered' = Delivered \cup {reqId}
        BY <4>1 DEF Delivered, TypeInv, TypeOK, QosTypeOK
      <4> QED BY <2>0, <2>1, <3>1, <4>1, <4>2 DEF Present
    <3>2. CASE ~HasPrimary(i)
      BY <1>12, <2>0, <2>1, <3>2 DEF Request, Present, Delivered
    <3> QED BY <3>1, <3>2
  <2>5. f \in [reqId .. reqId -> Server]
    BY <2>0
  <2>6. Table!Ask(reqId, f)
    BY <2>1, <2>2, <2>3, <2>4, <2>5, SameReq DEF Table!Ask, Present, Delivered, Called
  <2>7. reqId \in Table!Req
    BY <2>1, SameReq
  <2>8. \E n \in Table!Req : \E g \in [reqId .. n -> Server] : Table!Ask(n, g)
    BY <2>5, <2>6, <2>7
  <2>9. Table!TableNext
    BY ONLY <2>8 DEF Table!TableNext
  <2> QED BY <2>9
<1>13. ASSUME NEW i \in Server, NEW x \in Info, RequestServer(i, x) PROVE Implemented
  <2>1. /\ state # "closed" /\ UNCHANGED <<state, Present, Called, target, refused>>
        /\ reqId \in Req /\ reqId' = reqId + 1 /\ callbacks' = callbacks \cup {reqId}
    BY <1>13 DEF RequestServer, registry, Present, HasPrimary, Called
  <2>2. sent' = [s \in Socket |-> IF s \in ByServer(i, x) THEN sent[s] \cup {reqId} ELSE sent[s]]
    BY <1>13 DEF RequestServer
  <2>3. Delivered' \in {Delivered, Delivered \cup {reqId}}
    <3>1. CASE ByServer(i, x) \cap Socket = {}
      BY <2>2, <3>1 DEF Delivered
    <3>2. CASE ByServer(i, x) \cap Socket # {}
      BY <2>2, <3>2 DEF Delivered
    <3> QED BY <3>1, <3>2
  <2>4. Table!AskUntracked
    BY <2>1, <2>3, SameReq DEF Table!AskUntracked, Present, Delivered, Called
  <2> QED BY <2>4 DEF Table!TableNext
<1> QED
  BY <1>1, <1>2, <1>3, <1>4, <1>5, <1>6, <1>7, <1>8, <1>9, <1>10, <1>11, <1>12, <1>13, NextCases

(* For any numbers of servers, connections and requests, with              *)
(* authentication at once or late: whatever the handlers do, a module that  *)
(* asks monitors sees a table of requests in which a callback is owed until *)
(* the first answer, is called once, and what is owed is sent to a server   *)
(* that is admitted.                                                        *)
THEOREM AgentImplementsTable == Spec => ImplementsRequestTable
<1>1. Init => Table!TableInit
  BY SameReq DEF Init, Table!TableInit, HasPrimary
<1>2. TypeInv /\ QosInv /\ [Next]_vars => [Table!TableNext]_(Table!tableVars)
  <2>1. ASSUME UNCHANGED vars PROVE UNCHANGED Table!tableVars
    BY <2>1, TableStutters DEF vars, registry, qos, Present, HasPrimary, Delivered, requests
  <2> QED BY <2>1, NextImplements
<1> QED
  BY <1>1, <1>2, TypeInvariant, QosInvariant, PTL
     DEF Spec, ImplementsRequestTable, Table!TableSpec
=============================================================================
