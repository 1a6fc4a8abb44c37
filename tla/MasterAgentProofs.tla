-------------------------- MODULE MasterAgentProofs --------------------------
(***************************************************************************)
(* Proofs about MasterAgent for every value of its constants.              *)
(***************************************************************************)
EXTENDS MasterAgent, SequenceTheorems, WellFoundedInduction, TLAPS

-----------------------------------------------------------------------------
(* Lists *)

(* A set of naturals that is not empty has a least element, Min.            *)
LEMMA MinOfNaturals ==
  ASSUME NEW S \in SUBSET Nat, S # {}
  PROVE  Min(S) \in S /\ \A n \in S : Min(S) =< n
<1>1. PICK m \in S : \A n \in S : <<n, m>> \notin OpToRel(<, Nat)
  BY WFMin, NatLessThanWellFounded
<1>2. \A n \in S : m =< n
  <2> SUFFICES ASSUME NEW n \in S, ~ (m =< n) PROVE FALSE
    OBVIOUS
  <2>1. n \in Nat /\ m \in Nat /\ n < m
    OBVIOUS
  <2>2. <<n, m>> \in OpToRel(<, Nat)
    BY <2>1 DEF OpToRel
  <2> QED BY <1>1, <2>2
<1> QED BY <1>2 DEF Min

(* RemoveAt drops the element at one place and keeps the others in order.   *)
LEMMA RemoveAtProperties ==
  ASSUME NEW S, NEW list \in Seq(S), NEW n \in DOMAIN list
  PROVE  /\ RemoveAt(list, n) \in Seq(S)
         /\ Len(RemoveAt(list, n)) = Len(list) - 1
         /\ \A k \in 1 .. Len(list) - 1 :
              RemoveAt(list, n)[k] = IF k < n THEN list[k] ELSE list[k + 1]
<1> DEFINE front == SubSeq(list, 1, n - 1)
           back  == SubSeq(list, n + 1, Len(list))
<1>1. Len(list) \in Nat /\ n \in 1 .. Len(list) /\ \A k \in 1 .. Len(list) : list[k] \in S
  BY LenProperties, ElementOfSeq
<1>2. /\ front \in Seq(S) /\ Len(front) = n - 1
      /\ \A k \in 1 .. n - 1 : front[k] = list[k]
  <2>1. \A k \in 1 .. n - 1 : list[k] \in S
    BY <1>1
  <2>2. n - 1 \in Int /\ 1 \in Int
    BY <1>1
  <2>3. /\ SubSeq(list, 1, n - 1) \in Seq(S)
        /\ Len(SubSeq(list, 1, n - 1)) = IF 1 <= n - 1 THEN n - 1 - 1 + 1 ELSE 0
        /\ \A k \in 1 .. n - 1 - 1 + 1 : SubSeq(list, 1, n - 1)[k] = list[1 + k - 1]
    BY <2>1, <2>2, SubSeqProperties
  <2> QED BY <1>1, <2>3
<1>3. /\ back \in Seq(S) /\ Len(back) = Len(list) - n
      /\ \A k \in 1 .. Len(list) - n : back[k] = list[n + k]
  <2>1. \A k \in n + 1 .. Len(list) : list[k] \in S
    BY <1>1
  <2>2. n + 1 \in Int /\ Len(list) \in Int
    BY <1>1
  <2>3. /\ SubSeq(list, n + 1, Len(list)) \in Seq(S)
        /\ Len(SubSeq(list, n + 1, Len(list))) =
             IF n + 1 <= Len(list) THEN Len(list) - (n + 1) + 1 ELSE 0
        /\ \A k \in 1 .. Len(list) - (n + 1) + 1 :
             SubSeq(list, n + 1, Len(list))[k] = list[n + 1 + k - 1]
    BY <2>1, <2>2, SubSeqProperties
  <2> QED BY <1>1, <2>3
<1> HIDE DEF front, back
<1>4. /\ front \o back \in Seq(S)
      /\ Len(front \o back) = Len(front) + Len(back)
      /\ \A k \in 1 .. Len(front) + Len(back) :
           (front \o back)[k] = IF k <= Len(front) THEN front[k] ELSE back[k - Len(front)]
  BY <1>2, <1>3, ConcatProperties
<1>5. RemoveAt(list, n) = front \o back
  BY DEF RemoveAt, front, back
<1>6. Len(front) + Len(back) = Len(list) - 1
  BY <1>1, <1>2, <1>3
<1>7. ASSUME NEW k \in 1 .. Len(list) - 1
      PROVE  (front \o back)[k] = IF k < n THEN list[k] ELSE list[k + 1]
  <2>1. (front \o back)[k] = IF k <= n - 1 THEN front[k] ELSE back[k - (n - 1)]
    BY <1>2, <1>4, <1>6
  <2>2. CASE k < n
    BY <1>1, <1>2, <2>1, <2>2
  <2>3. CASE ~ (k < n)
    <3>1. k - (n - 1) \in 1 .. Len(list) - n /\ n + (k - (n - 1)) = k + 1
      BY <1>1, <2>3
    <3> QED BY <1>1, <1>3, <2>1, <2>3, <3>1
  <2> QED BY <2>2, <2>3
<1> QED BY <1>4, <1>5, <1>6, <1>7

(* RemoveFirstOf stays within the type of the list.                         *)
LEMMA RemoveFirstOfType ==
  ASSUME NEW S, NEW list \in Seq(S), NEW hits \in SUBSET DOMAIN list
  PROVE  RemoveFirstOf(list, hits) \in Seq(S)
<1>1. hits \in SUBSET Nat /\ (hits # {} => Min(hits) \in DOMAIN list)
  BY LenProperties, MinOfNaturals
<1> QED BY <1>1, RemoveAtProperties DEF RemoveFirstOf

-----------------------------------------------------------------------------
(* Type correctness *)

(* addConnection of a monitor keeps the registry well typed.                *)
LEMMA AddMonitorType ==
  ASSUME RegistryTypeOK, NEW i \in Server, NEW x \in Info, NEW s \in Socket,
         AddMonitor(i, x, s)
  PROVE  RegistryTypeOK'
<1> DEFINE record == [id |-> i, type |-> TypeOf[i], info |-> x, socket |-> s]
<1>1. TypeOf[i] \in Type /\ record \in Record
  BY TypeOfAssumption DEF Record
<1>2. CASE ~HasPrimary(i)
  <2>1. /\ idMap' = [idMap EXCEPT ![i] = record]
        /\ typeMap' = [typeMap EXCEPT ![TypeOf[i]] = Append(@, record)]
        /\ UNCHANGED <<slaveMap, clients>>
    BY <1>2 DEF AddMonitor
  <2>2. Append(typeMap[TypeOf[i]], record) \in Seq(Record)
    BY <1>1, AppendProperties DEF RegistryTypeOK
  <2> QED BY <1>1, <2>1, <2>2 DEF RegistryTypeOK
<1>3. CASE HasPrimary(i)
  <2>1. /\ slaveMap' = [slaveMap EXCEPT ![i] = Append(@, record)]
        /\ UNCHANGED <<idMap, typeMap, clients>>
    BY <1>3 DEF AddMonitor
  <2>2. Append(slaveMap[i], record) \in Seq(Record)
    BY <1>1, AppendProperties DEF RegistryTypeOK
  <2> QED BY <2>1, <2>2 DEF RegistryTypeOK
<1> QED BY <1>2, <1>3

(* removeConnection of a monitor keeps the registry well typed.             *)
LEMMA RemoveMonitorType ==
  ASSUME RegistryTypeOK, NEW i \in Server, NEW t \in Type, NEW x,
         RemoveMonitor(i, t, x)
  PROVE  RegistryTypeOK'
<1>1. CASE ~HasPrimary(i)
  BY <1>1 DEF RemoveMonitor, RegistryTypeOK
<1>2. CASE HasPrimary(i) /\ idMap[i].info = x
  <2> DEFINE hits == {n \in DOMAIN typeMap[t] : typeMap[t][n].id = i}
  <2>1. /\ idMap' = [idMap EXCEPT ![i] = NoRecord]
        /\ typeMap' = [typeMap EXCEPT ![t] = RemoveFirstOf(@, hits)]
        /\ UNCHANGED <<slaveMap, clients>>
    BY <1>2 DEF RemoveMonitor
  <2>2. RemoveFirstOf(typeMap[t], hits) \in Seq(Record)
    BY RemoveFirstOfType DEF RegistryTypeOK
  <2> QED BY <2>1, <2>2 DEF RegistryTypeOK
<1>3. CASE HasPrimary(i) /\ idMap[i].info # x
  <2> DEFINE hits == {n \in DOMAIN slaveMap[i] : slaveMap[i][n].info = x}
  <2>1. /\ slaveMap' = [slaveMap EXCEPT ![i] = RemoveFirstOf(@, hits)]
        /\ UNCHANGED <<idMap, typeMap, clients>>
    BY <1>3 DEF RemoveMonitor
  <2>2. RemoveFirstOf(slaveMap[i], hits) \in Seq(Record)
    BY RemoveFirstOfType DEF RegistryTypeOK
  <2> QED BY <2>1, <2>2 DEF RegistryTypeOK
<1> QED BY <1>1, <1>2, <1>3

(* What a connection says of itself once it has greeted: a client id, or a  *)
(* server id with its type and, when NoInfo is not reported, its address.   *)
Identity(m) ==
  \/ m.type = TYPE_CLIENT /\ m.id \in Client
  \/ m.id \in Server /\ m.type = TypeOf[m.id] /\ (NoInfo \notin Info => m.info \in Info)

GreetedOK ==
  /\ \A s \in Socket : msock[s].registered \/ s \in auth => Identity(msock[s])
  /\ \A s \in auth : ~msock[s].registered /\ (msock[s].type # TYPE_CLIENT => msock[s].info \in Info)
  /\ ~AsyncAuth => auth = {}

TypeInv == TypeOK /\ GreetedOK

(* The disjuncts of Next, for proofs that take one case each.               *)
LEMMA NextCases ==
  ASSUME Next, NEW P,
         Listen => P, Close => P,
         ASSUME NEW s \in Socket, Connection(s) PROVE P,
         ASSUME NEW s \in Socket, DisconnectPacket(s) PROVE P,
         ASSUME NEW s \in Socket, StreamClose(s) PROVE P,
         ASSUME NEW s \in Socket, NEW i \in Server, NEW x \in Info, NEW ok \in BOOLEAN,
                OnRegisterMonitor(s, i, x, ok) PROVE P,
         ASSUME NEW s \in Socket, NEW i \in Server, NEW x \in Info,
                OnRegisterMonitorAsync(s, i, x) PROVE P,
         ASSUME NEW s \in Socket, NEW i \in Server, NEW x \in Info,
                OnReconnect(s, i, x) PROVE P,
         ASSUME NEW s \in Socket, NEW c \in Client, NEW user \in BOOLEAN,
                OnRegisterClient(s, c, user) PROVE P,
         ASSUME NEW s \in Socket, NEW c \in Client, OnRegisterClientAsync(s, c) PROVE P,
         ASSUME NEW s \in Socket, NEW ok \in BOOLEAN, AuthServerDone(s, ok) PROVE P,
         ASSUME NEW s \in Socket, NEW ok \in BOOLEAN, AuthUserDone(s, ok) PROVE P,
         ASSUME NEW s \in Socket, NEW r \in Req, OnMonitorResponse(s, r) PROVE P,
         ASSUME NEW i \in Server, Request(i) PROVE P,
         ASSUME NEW i \in Server, NEW x \in Info, RequestServer(i, x) PROVE P
  PROVE  P
BY DEF Next

(* The verdict on a client.                                                 *)
LEMMA AdmitClientType ==
  ASSUME TypeInv, NEW s \in Socket, ~msock[s].registered, NEW c \in Client, NEW user \in BOOLEAN,
         NEW x \in Info \cup {None},
         AdmitClient(s, c, user, Greeted(c, TYPE_CLIENT, x, FALSE))
  PROVE  /\ RegistryTypeOK'
         /\ msock' \in [Socket -> [id : Server \cup Client \cup {None},
                                   type : Type \cup {TYPE_CLIENT, None},
                                   info : Info \cup {None},
                                   registered : BOOLEAN]]
         /\ \A p \in Socket \ {s} : msock'[p] = msock[p]
         /\ Identity(msock'[s])
<1> DEFINE ok == user /\ clients[c] = None
           after == [id |-> c, type |-> TYPE_CLIENT, info |-> x, registered |-> ok]
<1>1. msock' = [msock EXCEPT ![s] = after]
  <2>1. msock' = [msock EXCEPT ![s] = [Greeted(c, TYPE_CLIENT, x, FALSE) EXCEPT !.registered = ok]]
    BY DEF AdmitClient
  <2>2. [Greeted(c, TYPE_CLIENT, x, FALSE) EXCEPT !.registered = ok] = after
    BY DEF Greeted
  <2> QED BY <2>1, <2>2
<1>2. RegistryTypeOK'
  BY DEF AdmitClient, AddClient, registry, TypeInv, TypeOK, RegistryTypeOK
<1>3. ok \in BOOLEAN
  OBVIOUS
<1> QED BY <1>1, <1>2, <1>3 DEF TypeInv, TypeOK, LinksTypeOK, Identity

(* onDisconnect forgets one connection and what it stood for.               *)
LEMMA OnDisconnectType ==
  ASSUME TypeInv, NEW s \in Socket, OnDisconnect(s)
  PROVE  /\ RegistryTypeOK'
         /\ msock' \in [Socket -> [id : Server \cup Client \cup {None},
                                   type : Type \cup {TYPE_CLIENT, None},
                                   info : Info \cup {None},
                                   registered : BOOLEAN]]
         /\ GreetedOK'
<1> DEFINE m == msock[s]
           client == m.type = TYPE_CLIENT
           forget == m.registered /\ (client \/ ~RemoveThrows(m.id, m.info))
<1>1. CASE ~forget
  BY <1>1 DEF OnDisconnect, registry, TypeInv, TypeOK, RegistryTypeOK, LinksTypeOK,
              GreetedOK, Identity
<1>2. CASE forget
  <2>1. /\ IF client THEN RemoveClient(m.id) ELSE RemoveMonitor(m.id, m.type, m.info)
        /\ msock' = [msock EXCEPT ![s] = [id |-> None, type |-> None, info |-> m.info,
                                          registered |-> FALSE]]
        /\ auth' = auth
    BY <1>2 DEF OnDisconnect, Greeted
  <2>2. m.info \in Info \cup {None} /\ Identity(m)
    BY <1>2 DEF TypeInv, TypeOK, LinksTypeOK, GreetedOK
  <2>3. RegistryTypeOK'
    <3>1. CASE client
      BY <2>1, <3>1 DEF RemoveClient, TypeInv, TypeOK, RegistryTypeOK
    <3>2. CASE ~client
      <4>1. m.id \in Server /\ m.type \in Type
        BY <2>2, <3>2, TypeOfAssumption DEF Identity
      <4> QED BY <2>1, <3>2, <4>1, RemoveMonitorType DEF TypeInv, TypeOK
    <3> QED BY <3>1, <3>2
  <2>4. s \notin auth
    BY <1>2 DEF TypeInv, GreetedOK
  <2>5. \A p \in Socket \ {s} : msock'[p] = msock[p]
    BY <2>1 DEF TypeInv, TypeOK, LinksTypeOK
  <2>6. msock'[s] = [id |-> None, type |-> None, info |-> m.info, registered |-> FALSE]
    BY <2>1 DEF TypeInv, TypeOK, LinksTypeOK
  <2>7. GreetedOK'
    BY <2>1, <2>4, <2>5, <2>6 DEF TypeInv, TypeOK, LinksTypeOK, GreetedOK, Identity
  <2> QED BY <2>1, <2>2, <2>3, <2>7 DEF TypeInv, TypeOK, LinksTypeOK
<1> QED BY <1>1, <1>2

(* Both records of what has been said hold initially.                       *)
LEMMA InitTypeInv == ASSUME Init PROVE TypeInv
<1>1. RegistryTypeOK
  BY EmptySeq DEF Init, RegistryTypeOK
<1>2. LinksTypeOK
  BY DEF Init, LinksTypeOK, FreshSocket
<1>3. QosTypeOK
  BY MaxReqAssumption DEF Init, QosTypeOK, Req
<1>4. GreetedOK
  BY DEF Init, GreetedOK, FreshSocket
<1> QED BY <1>1, <1>2, <1>3, <1>4 DEF Init, FreshServer, TypeInv, TypeOK

(* Every handler and every call of the application keeps the types.         *)
LEMMA NextTypeInv == ASSUME TypeInv, Next PROVE TypeInv'
<1> USE DEF TypeInv, TypeOK
<1>1. ASSUME Listen PROVE TypeInv'
  BY <1>1 DEF Listen, registry, links, qos, RegistryTypeOK, LinksTypeOK, QosTypeOK, GreetedOK,
     Identity
<1>2. ASSUME Close PROVE TypeInv'
  BY <1>2 DEF Close, MqttServerClose, registry, links, qos, RegistryTypeOK, LinksTypeOK,
     QosTypeOK, GreetedOK, Identity
<1>3. ASSUME NEW s \in Socket, Connection(s) PROVE TypeInv'
  BY <1>3 DEF Connection, registry, qos, RegistryTypeOK, LinksTypeOK, QosTypeOK, GreetedOK,
     Identity
<1>4. ASSUME NEW s \in Socket, DisconnectPacket(s) PROVE TypeInv'
  <2>1. RegistryTypeOK' /\ LinksTypeOK' /\ GreetedOK'
    BY <1>4, OnDisconnectType DEF DisconnectPacket, OnDisconnect, LinksTypeOK
  <2> QED BY <1>4, <2>1 DEF DisconnectPacket, OnDisconnect, qos, QosTypeOK
<1>5. ASSUME NEW s \in Socket, StreamClose(s) PROVE TypeInv'
  <2>1. RegistryTypeOK' /\ LinksTypeOK' /\ GreetedOK'
    BY <1>5, OnDisconnectType DEF StreamClose, OnDisconnect, LinksTypeOK
  <2> QED BY <1>5, <2>1 DEF StreamClose, OnDisconnect, qos, QosTypeOK
<1>6. ASSUME NEW s \in Socket, NEW i \in Server, NEW x \in Info, NEW ok \in BOOLEAN,
             OnRegisterMonitor(s, i, x, ok)
      PROVE  TypeInv'
  <2>1. RegistryTypeOK'
    <3>1. CASE ok
      BY <1>6, <3>1, AddMonitorType DEF OnRegisterMonitor
    <3>2. CASE ~ok
      BY <1>6, <3>2 DEF OnRegisterMonitor, registry, RegistryTypeOK
    <3> QED BY <3>1, <3>2
  <2>2. LinksTypeOK'
    BY <1>6, TypeOfAssumption DEF OnRegisterMonitor, Greeted, LinksTypeOK
  <2>3. QosTypeOK'
    BY <1>6 DEF OnRegisterMonitor, Repush, QosTypeOK
  <2>4. GreetedOK'
    BY <1>6 DEF OnRegisterMonitor, MayGreetAs, MayGreet, Greeted, GreetedOK, Identity,
       LinksTypeOK
  <2> QED BY <1>6, <2>1, <2>2, <2>3, <2>4 DEF OnRegisterMonitor
<1>7. ASSUME NEW s \in Socket, NEW i \in Server, NEW x \in Info,
             OnRegisterMonitorAsync(s, i, x)
      PROVE  TypeInv'
  <2>1. RegistryTypeOK' /\ QosTypeOK'
    BY <1>7 DEF OnRegisterMonitorAsync, Repush, registry, RegistryTypeOK, QosTypeOK
  <2>2. LinksTypeOK'
    BY <1>7, TypeOfAssumption DEF OnRegisterMonitorAsync, Greeted, LinksTypeOK
  <2>3. GreetedOK'
    BY <1>7 DEF OnRegisterMonitorAsync, MayGreetAs, MayGreet, Greeted, GreetedOK, Identity,
       LinksTypeOK
  <2> QED BY <1>7, <2>1, <2>2, <2>3 DEF OnRegisterMonitorAsync
<1>8. ASSUME NEW s \in Socket, NEW i \in Server, NEW x \in Info, OnReconnect(s, i, x)
      PROVE  TypeInv'
  <2>1. RegistryTypeOK'
    BY <1>8, AddMonitorType DEF OnReconnect
  <2>2. LinksTypeOK'
    <3>1. \E y \in Info \cup {None} :
             msock' = [msock EXCEPT ![s] = [id |-> i, type |-> TypeOf[i], info |-> y,
                                            registered |-> TRUE]]
      BY <1>8 DEF OnReconnect, Greeted, LinksTypeOK
    <3> QED BY <1>8, <3>1, TypeOfAssumption DEF OnReconnect, LinksTypeOK
  <2>3. QosTypeOK'
    BY <1>8 DEF OnReconnect, Repush, QosTypeOK
  <2>4. GreetedOK'
    BY <1>8 DEF OnReconnect, MayGreetAs, MayGreet, Greeted, GreetedOK, Identity, LinksTypeOK
  <2> QED BY <1>8, <2>1, <2>2, <2>3, <2>4 DEF OnReconnect
<1>9. ASSUME NEW s \in Socket, NEW c \in Client, NEW user \in BOOLEAN,
             OnRegisterClient(s, c, user)
      PROVE  TypeInv'
  <2>1. /\ RegistryTypeOK' /\ LinksTypeOK'
        /\ \A p \in Socket \ {s} : msock'[p] = msock[p]
        /\ Identity(msock'[s])
    <3>1. /\ AdmitClient(s, c, user, Greeted(c, TYPE_CLIENT, None, FALSE))
          /\ ~msock[s].registered /\ None \in Info \cup {None}
      BY <1>9 DEF OnRegisterClient, MayGreet
    <3>2. /\ RegistryTypeOK'
          /\ msock' \in [Socket -> [id : Server \cup Client \cup {None},
                                    type : Type \cup {TYPE_CLIENT, None},
                                    info : Info \cup {None},
                                    registered : BOOLEAN]]
          /\ \A p \in Socket \ {s} : msock'[p] = msock[p]
          /\ Identity(msock'[s])
      BY <3>1, AdmitClientType
    <3> QED BY <1>9, <3>2 DEF OnRegisterClient, LinksTypeOK
  <2>2. QosTypeOK'
    BY <1>9 DEF OnRegisterClient, qos, QosTypeOK
  <2>3. GreetedOK'
    BY <1>9, <2>1 DEF OnRegisterClient, MayGreet, GreetedOK, Identity
  <2> QED BY <1>9, <2>1, <2>2, <2>3 DEF OnRegisterClient
<1>10. ASSUME NEW s \in Socket, NEW c \in Client, OnRegisterClientAsync(s, c) PROVE TypeInv'
  <2>1. RegistryTypeOK' /\ QosTypeOK'
    BY <1>10 DEF OnRegisterClientAsync, registry, qos, RegistryTypeOK, QosTypeOK
  <2>2. LinksTypeOK'
    BY <1>10 DEF OnRegisterClientAsync, Greeted, LinksTypeOK
  <2>3. GreetedOK'
    BY <1>10 DEF OnRegisterClientAsync, MayGreet, Greeted, GreetedOK, Identity, LinksTypeOK
  <2> QED BY <1>10, <2>1, <2>2, <2>3 DEF OnRegisterClientAsync
<1>11. ASSUME NEW s \in Socket, NEW ok \in BOOLEAN, AuthServerDone(s, ok) PROVE TypeInv'
  <2>1. msock[s].id \in Server /\ msock[s].info \in Info
    BY <1>11 DEF AuthServerDone, GreetedOK, Identity
  <2>2. RegistryTypeOK'
    <3>1. CASE ok
      BY <1>11, <2>1, <3>1, AddMonitorType DEF AuthServerDone
    <3>2. CASE ~ok
      BY <1>11, <3>2 DEF AuthServerDone, registry, RegistryTypeOK
    <3> QED BY <3>1, <3>2
  <2>3. LinksTypeOK'
    <3>1. msock' = msock \/ msock' = [msock EXCEPT ![s] = [@ EXCEPT !.registered = TRUE]]
      BY <1>11 DEF AuthServerDone, registry
    <3>2. [msock[s] EXCEPT !.registered = TRUE] \in
             [id : Server \cup Client \cup {None}, type : Type \cup {TYPE_CLIENT, None},
              info : Info \cup {None}, registered : BOOLEAN]
      BY DEF LinksTypeOK
    <3>3. msock' \in [Socket -> [id : Server \cup Client \cup {None},
                                type : Type \cup {TYPE_CLIENT, None},
                                info : Info \cup {None},
                                registered : BOOLEAN]]
      <4>1. CASE msock' = msock
        BY <4>1 DEF LinksTypeOK
      <4>2. CASE msock' = [msock EXCEPT ![s] = [@ EXCEPT !.registered = TRUE]]
        BY <3>2, <4>2 DEF LinksTypeOK
      <4> QED BY <3>1, <4>1, <4>2
    <3>4. conn' = conn /\ auth' \subseteq auth
      BY <1>11 DEF AuthServerDone
    <3> QED BY <3>3, <3>4 DEF LinksTypeOK
  <2>4. QosTypeOK'
    BY <1>11 DEF AuthServerDone, qos, QosTypeOK
  <2>5. GreetedOK'
    BY <1>11 DEF AuthServerDone, GreetedOK, Identity, LinksTypeOK
  <2> QED BY <1>11, <2>2, <2>3, <2>4, <2>5 DEF AuthServerDone
<1>12. ASSUME NEW s \in Socket, NEW user \in BOOLEAN, AuthUserDone(s, user) PROVE TypeInv'
  <2>1. /\ msock[s].id \in Client /\ ~msock[s].registered
        /\ msock[s].info \in Info \cup {None}
        /\ msock[s] = Greeted(msock[s].id, TYPE_CLIENT, msock[s].info, FALSE)
    <3>1. ~msock[s].registered /\ Identity(msock[s]) /\ msock[s].type = TYPE_CLIENT
      BY <1>12 DEF AuthUserDone, GreetedOK
    <3>2. msock[s].id \in Client
      BY <3>1, TypeOfAssumption DEF Identity
    <3> QED BY <3>1, <3>2 DEF LinksTypeOK, Greeted
  <2>2. AdmitClient(s, msock[s].id, user, Greeted(msock[s].id, TYPE_CLIENT, msock[s].info, FALSE))
    BY <1>12, <2>1 DEF AuthUserDone
  <2>3. /\ RegistryTypeOK'
        /\ msock' \in [Socket -> [id : Server \cup Client \cup {None},
                                  type : Type \cup {TYPE_CLIENT, None},
                                  info : Info \cup {None},
                                  registered : BOOLEAN]]
        /\ \A p \in Socket \ {s} : msock'[p] = msock[p]
        /\ Identity(msock'[s])
    BY <2>1, <2>2, AdmitClientType
  <2>4. LinksTypeOK'
    BY <1>12, <2>3 DEF AuthUserDone, LinksTypeOK
  <2>5. QosTypeOK'
    BY <1>12 DEF AuthUserDone, qos, QosTypeOK
  <2>6. GreetedOK'
    <3>1. auth' = auth \ {s} /\ s \in auth
      BY <1>12 DEF AuthUserDone
    <3>2. \A p \in Socket : msock'[p].registered \/ p \in auth' => Identity(msock'[p])
      BY <2>3, <3>1 DEF GreetedOK, Identity
    <3> QED BY <2>3, <3>1, <3>2 DEF GreetedOK, LinksTypeOK, Identity
  <2> QED BY <1>12, <2>3, <2>4, <2>5, <2>6 DEF AuthUserDone
<1>13. ASSUME NEW s \in Socket, NEW r \in Req, OnMonitorResponse(s, r) PROVE TypeInv'
  <2>1. msock[s].id \in Server
    BY <1>13, TypeOfAssumption, NoneAssumption, IdsAssumption
       DEF OnMonitorResponse, MayAnswer, GreetedOK, Identity, QosTypeOK, Req
  <2>2. QosTypeOK'
    BY <1>13, <2>1 DEF OnMonitorResponse, QosTypeOK
  <2> QED BY <1>13, <2>2 DEF OnMonitorResponse, registry, links, RegistryTypeOK, LinksTypeOK,
          GreetedOK, Identity
<1>14. ASSUME NEW i \in Server, Request(i) PROVE TypeInv'
  <2>1. reqId \in Req /\ reqId' = reqId + 1 /\ reqId' \in 1 .. MaxReq + 1
    BY <1>14, MaxReqAssumption DEF Request, Req, QosTypeOK
  <2>2. QosTypeOK'
    <3>1. sent' \in [Socket -> SUBSET Req] /\ refused' \subseteq Req
      <4>1. CASE HasPrimary(i)
        <5>1. idMap[i].socket \in Socket
          BY <4>1 DEF HasPrimary, RegistryTypeOK, Record
        <5>2. /\ refused' = refused
              /\ sent' = [sent EXCEPT ![idMap[i].socket] = @ \cup {reqId}]
          BY <1>14, <4>1 DEF Request
        <5> QED BY <2>1, <5>1, <5>2 DEF QosTypeOK
      <4>2. CASE ~HasPrimary(i)
        BY <1>14, <2>1, <4>2 DEF Request, QosTypeOK
      <4> QED BY <4>1, <4>2
    <3>2. /\ callbacks' \subseteq Req /\ answers' \in [Req -> Nat]
          /\ msgMap' \in [Server -> SUBSET Req] /\ target' \in [Req -> Server \cup {None}]
      BY <1>14, <2>1 DEF Request, QosTypeOK
    <3> QED BY <2>1, <3>1, <3>2 DEF QosTypeOK
  <2> QED BY <1>14, <2>2 DEF Request, registry, links, RegistryTypeOK, LinksTypeOK, GreetedOK,
          Identity
<1>15. ASSUME NEW i \in Server, NEW x \in Info, RequestServer(i, x) PROVE TypeInv'
  <2>1. reqId \in Req /\ reqId' = reqId + 1 /\ reqId' \in 1 .. MaxReq + 1
    BY <1>15, MaxReqAssumption DEF RequestServer, Req, QosTypeOK
  <2>2. QosTypeOK'
    BY <1>15, <2>1 DEF RequestServer, QosTypeOK
  <2> QED BY <1>15, <2>2 DEF RequestServer, registry, links, RegistryTypeOK, LinksTypeOK,
          GreetedOK, Identity
<1> QED
  BY <1>1, <1>2, <1>3, <1>4, <1>5, <1>6, <1>7, <1>8, <1>9, <1>10, <1>11, <1>12, <1>13, <1>14,
     <1>15, NextCases

(* TypeInv is a predicate of the variables alone.                           *)
LEMMA StutterTypeInv == ASSUME TypeInv, UNCHANGED vars PROVE TypeInv'
BY DEF TypeInv, TypeOK, RegistryTypeOK, LinksTypeOK, QosTypeOK, GreetedOK, Identity, vars,
   registry, links, qos

(* Every reachable state is well typed, and each connection that greeted has*)
(* a matching id, type and address.                                         *)
THEOREM TypeInvariant == Spec => []TypeInv
<1>1. TypeInv /\ [Next]_vars => TypeInv'
  BY NextTypeInv, StutterTypeInv
<1> QED BY InitTypeInv, <1>1, PTL DEF Spec

(* Every reachable state is well typed, whatever the numbers of servers,    *)
(* clients, connections, addresses and requests.                            *)
THEOREM TypeCorrect == Spec => []TypeOK
BY TypeInvariant, PTL DEF TypeInv

-----------------------------------------------------------------------------
(* The request tables *)

(* What makes OutstandingIsQueued and AnsweredAtMostOnce inductive: an id   *)
(* that has not been given has neither a callback nor a target.             *)
QosInv ==
  /\ OutstandingIsQueued
  /\ AnsweredAtMostOnce
  /\ \A r \in callbacks : r < reqId
  /\ \A r \in Req : r >= reqId => target[r] = None

(* QosInv only looks at these variables.                                    *)
LEMMA QosInvFrame ==
  ASSUME QosInv, UNCHANGED <<reqId, callbacks, msgMap, target, answers>>
  PROVE  QosInv'
BY DEF QosInv, OutstandingIsQueued, AnsweredAtMostOnce

(* Every handler and every call keeps the request tables consistent.        *)
LEMMA NextQosInv == ASSUME TypeInv, QosInv, Next PROVE QosInv'
<1> USE DEF TypeInv, TypeOK
<1>1. ASSUME NEW s \in Socket, NEW r \in Req, OnMonitorResponse(s, r) PROVE QosInv'
  <2>1. /\ msock[s].id = target[r] /\ r \in callbacks
        /\ msgMap' = [msgMap EXCEPT ![target[r]] = @ \ {r}]
        /\ callbacks' = callbacks \ {r}
        /\ answers' = [answers EXCEPT ![r] = @ + 1]
        /\ reqId' = reqId /\ target' = target
    BY <1>1 DEF OnMonitorResponse, MayAnswer
  <2>2. OutstandingIsQueued'
    BY <2>1 DEF QosInv, OutstandingIsQueued, QosTypeOK
  <2>3. AnsweredAtMostOnce'
    BY <2>1 DEF QosInv, AnsweredAtMostOnce, QosTypeOK
  <2> QED BY <2>1, <2>2, <2>3 DEF QosInv
<1>2. ASSUME NEW i \in Server, Request(i) PROVE QosInv'
  <2>1. /\ reqId \in Req /\ reqId' = reqId + 1 /\ reqId \in Nat
        /\ callbacks' = callbacks \cup {reqId}
        /\ msgMap' = [msgMap EXCEPT ![i] = @ \cup {reqId}]
        /\ target' = [target EXCEPT ![reqId] = i]
        /\ answers' = answers
        /\ reqId \notin callbacks /\ target[reqId] = None
        /\ \A r \in Req : r \in Nat
    BY <1>2 DEF Request, QosInv, Req
  <2>2. OutstandingIsQueued'
    <3> SUFFICES ASSUME NEW j \in Server
                 PROVE  msgMap'[j] = {r \in callbacks' : target'[r] = j}
      BY DEF OutstandingIsQueued
    <3>1. msgMap[j] = {r \in callbacks : target[r] = j}
      BY DEF QosInv, OutstandingIsQueued
    <3>2. \A r \in Req : target'[r] = IF r = reqId THEN i ELSE target[r]
      BY <2>1 DEF QosTypeOK
    <3>3. msgMap'[j] = IF j = i THEN msgMap[j] \cup {reqId} ELSE msgMap[j]
      BY <2>1 DEF QosTypeOK
    <3> QED BY <2>1, <3>1, <3>2, <3>3 DEF QosTypeOK
  <2>3. AnsweredAtMostOnce'
    <3> SUFFICES ASSUME NEW r \in Req
                 PROVE answers'[r] = IF r < reqId' /\ r \notin callbacks' THEN 1 ELSE 0
      BY DEF AnsweredAtMostOnce
    <3>1. answers[r] = IF r < reqId /\ r \notin callbacks THEN 1 ELSE 0
      BY DEF QosInv, AnsweredAtMostOnce
    <3> QED BY <2>1, <3>1
  <2>4. /\ \A r \in callbacks' : r < reqId'
        /\ \A r \in Req : r >= reqId' => target'[r] = None
    BY <2>1 DEF QosInv, QosTypeOK
  <2> QED BY <2>2, <2>3, <2>4 DEF QosInv
<1>3. ASSUME NEW i \in Server, NEW x \in Info, RequestServer(i, x) PROVE QosInv'
  <2>1. /\ reqId \in Req /\ reqId' = reqId + 1 /\ reqId \in Nat
        /\ callbacks' = callbacks \cup {reqId}
        /\ UNCHANGED <<msgMap, target, answers>>
        /\ reqId \notin callbacks /\ target[reqId] = None
        /\ \A r \in Req : r \in Nat
    BY <1>3 DEF RequestServer, QosInv, Req
  <2>2. OutstandingIsQueued'
    BY <2>1, NoneAssumption DEF QosInv, OutstandingIsQueued
  <2>3. AnsweredAtMostOnce'
    <3> SUFFICES ASSUME NEW r \in Req
                 PROVE answers'[r] = IF r < reqId' /\ r \notin callbacks' THEN 1 ELSE 0
      BY DEF AnsweredAtMostOnce
    <3>1. answers[r] = IF r < reqId /\ r \notin callbacks THEN 1 ELSE 0
      BY DEF QosInv, AnsweredAtMostOnce
    <3> QED BY <2>1, <3>1
  <2>4. /\ \A r \in callbacks' : r < reqId'
        /\ \A r \in Req : r >= reqId' => target'[r] = None
    BY <2>1 DEF QosInv, QosTypeOK
  <2> QED BY <2>2, <2>3, <2>4 DEF QosInv
<1>4. ASSUME NEW s \in Socket, DisconnectPacket(s) \/ StreamClose(s) PROVE QosInv'
  BY <1>4, QosInvFrame DEF DisconnectPacket, StreamClose, OnDisconnect, qos
<1>5. ASSUME NEW s \in Socket, NEW i \in Server, NEW x \in Info, NEW ok \in BOOLEAN,
             OnRegisterMonitor(s, i, x, ok)
      PROVE  QosInv'
  BY <1>5, QosInvFrame DEF OnRegisterMonitor
<1>6. ASSUME NEW s \in Socket, NEW i \in Server, NEW x \in Info,
             OnRegisterMonitorAsync(s, i, x) \/ OnReconnect(s, i, x)
      PROVE  QosInv'
  BY <1>6, QosInvFrame DEF OnRegisterMonitorAsync, OnReconnect
<1>7. ASSUME NEW s \in Socket, NEW ok \in BOOLEAN, AuthServerDone(s, ok) \/ AuthUserDone(s, ok)
      PROVE  QosInv'
  BY <1>7, QosInvFrame DEF AuthServerDone, AuthUserDone, qos
<1>8. ASSUME NEW s \in Socket, NEW c \in Client,
             OnRegisterClientAsync(s, c) \/ \E user \in BOOLEAN : OnRegisterClient(s, c, user)
      PROVE  QosInv'
  BY <1>8, QosInvFrame DEF OnRegisterClientAsync, OnRegisterClient, qos
<1>9. ASSUME Listen \/ Close \/ \E s \in Socket : Connection(s) PROVE QosInv'
  BY <1>9, QosInvFrame DEF Listen, Close, Connection, qos
<1> QED BY <1>1, <1>2, <1>3, <1>4, <1>5, <1>6, <1>7, <1>8, <1>9, NextCases

(* The request tables stay consistent in every behaviour.                   *)
THEOREM QosInvariant == Spec => []QosInv
<1>1. Init => QosInv
  BY DEF Init, QosInv, OutstandingIsQueued, AnsweredAtMostOnce, Req
<1>2. TypeInv /\ QosInv /\ [Next]_vars => QosInv'
  BY NextQosInv, QosInvFrame DEF vars, qos
<1> QED BY <1>1, <1>2, TypeInvariant, PTL DEF Spec

(* For any number of servers and requests, the QoS table of a server holds  *)
(* exactly the requests to it whose callback is owed: repushQosMessage      *)
(* sends what it must, and nothing that was answered.                       *)
THEOREM QosTableIsExact == Spec => []OutstandingIsQueued
BY QosInvariant, PTL DEF QosInv

(* For any number of connections a request was written to, its callback is  *)
(* called once at most.                                                     *)
THEOREM CallbacksAreCalledOnce == Spec => []AnsweredAtMostOnce
BY QosInvariant, PTL DEF QosInv

-----------------------------------------------------------------------------
(* Client ids *)

ClientIs(m, c) == m.registered /\ m.type = TYPE_CLIENT /\ m.id = c

(* A step that changes no record of a client and makes no connection a      *)
(* client, or a client no more, keeps the ids owned.                        *)
LEMMA ClientFrame ==
  ASSUME ClientOwnsId, clients' = clients,
         \A s \in Socket, c \in Client : ClientIs(msock'[s], c) <=> ClientIs(msock[s], c)
  PROVE  ClientOwnsId'
BY DEF ClientOwnsId, ClientIs

(* The verdict on a client gives it an id that was free, or nothing.        *)
LEMMA AdmitKeepsOwners ==
  ASSUME TypeInv, ClientOwnsId, NEW s \in Socket, ~msock[s].registered,
         NEW c \in Client, NEW user \in BOOLEAN, NEW x,
         AdmitClient(s, c, user, Greeted(c, TYPE_CLIENT, x, FALSE))
  PROVE  ClientOwnsId'
<1> DEFINE ok == user /\ clients[c] = None
<1>1. msock' = [msock EXCEPT ![s] = [id |-> c, type |-> TYPE_CLIENT, info |-> x, registered |-> ok]]
  <2>1. [Greeted(c, TYPE_CLIENT, x, FALSE) EXCEPT !.registered = ok]
          = [id |-> c, type |-> TYPE_CLIENT, info |-> x, registered |-> ok]
    BY DEF Greeted
  <2> QED BY <2>1 DEF AdmitClient
<1>2. \A p \in Socket \ {s} : msock'[p] = msock[p]
  BY <1>1 DEF TypeInv, TypeOK, LinksTypeOK
<1>3. msock'[s] = [id |-> c, type |-> TYPE_CLIENT, info |-> x, registered |-> ok]
  BY <1>1 DEF TypeInv, TypeOK, LinksTypeOK
<1>6. \A d \in Client : ClientIs(msock'[s], d) <=> ok /\ d = c
  <2>1. /\ msock'[s].registered = ok
        /\ msock'[s].type = TYPE_CLIENT /\ msock'[s].id = c
    BY <1>3
  <2>2. ok \in BOOLEAN
    OBVIOUS
  <2> QED BY <2>1, <2>2 DEF ClientIs
<1>7. \A d \in Client : ~ClientIs(msock[s], d)
  BY DEF ClientIs
<1>4. CASE ok
  <2>1. clients' = [clients EXCEPT ![c] = s]
    BY <1>4 DEF AdmitClient, AddClient
  <2>2. \A p \in Socket : p # None
    BY NoneAssumption
  <2>3. ASSUME NEW d \in Client, NEW p \in Socket
        PROVE  clients'[d] = p <=> ClientIs(msock'[p], d)
    <3>1. clients[d] = p <=> ClientIs(msock[p], d)
      BY DEF ClientOwnsId, ClientIs
    <3>2. clients'[d] = IF d = c THEN s ELSE clients[d]
      BY <2>1 DEF TypeInv, TypeOK, RegistryTypeOK
    <3>3. CASE p = s
      BY <1>4, <1>6, <1>7, <3>1, <3>2, <3>3
    <3>4. CASE p # s
      BY <1>2, <1>4, <2>2, <3>1, <3>2, <3>4
    <3> QED BY <3>3, <3>4
  <2> QED BY <2>3 DEF ClientOwnsId, ClientIs
<1>5. CASE ~ok
  <2>1. clients' = clients
    BY <1>5 DEF AdmitClient, registry
  <2>2. ASSUME NEW p \in Socket, NEW d \in Client
        PROVE  ClientIs(msock'[p], d) <=> ClientIs(msock[p], d)
    BY <1>2, <1>5, <1>6, <1>7
  <2> QED BY <2>1, <2>2, ClientFrame
<1> QED BY <1>4, <1>5

(* The end of a connection frees the client id it owned and no other.       *)
LEMMA DisconnectKeepsOwners ==
  ASSUME TypeInv, ClientOwnsId, NEW s \in Socket, OnDisconnect(s)
  PROVE  ClientOwnsId'
<1> DEFINE m == msock[s]
           client == m.type = TYPE_CLIENT
           forget == m.registered /\ (client \/ ~RemoveThrows(m.id, m.info))
<1>1. CASE ~forget
  BY <1>1, ClientFrame DEF OnDisconnect, registry
<1>2. CASE forget
  <2>1. /\ IF client THEN RemoveClient(m.id) ELSE RemoveMonitor(m.id, m.type, m.info)
        /\ msock' = [msock EXCEPT ![s] = [id |-> None, type |-> None, info |-> m.info,
                                          registered |-> FALSE]]
    BY <1>2 DEF OnDisconnect, Greeted
  <2>2. \A p \in Socket \ {s} : msock'[p] = msock[p]
    BY <2>1 DEF TypeInv, TypeOK, LinksTypeOK
  <2>3. ~msock'[s].registered
    BY <2>1 DEF TypeInv, TypeOK, LinksTypeOK
  <2>4. CASE client
    <3>1. m.id \in Client /\ clients[m.id] = s
      BY <1>2, <2>4, TypeOfAssumption DEF ClientOwnsId, TypeInv, GreetedOK, Identity
    <3>2. clients' = [clients EXCEPT ![m.id] = None]
      BY <2>1, <2>4 DEF RemoveClient
    <3>3. ASSUME NEW d \in Client, NEW p \in Socket
          PROVE  clients'[d] = p <=> ClientIs(msock'[p], d)
      <4>1. clients[d] = p <=> ClientIs(msock[p], d)
        BY DEF ClientOwnsId, ClientIs
      <4>2. clients'[d] = IF d = m.id THEN None ELSE clients[d]
        BY <3>2 DEF TypeInv, TypeOK, RegistryTypeOK
      <4>3. p # None
        BY NoneAssumption
      <4>4. CASE p = s
        BY <2>3, <3>1, <4>1, <4>2, <4>3, <4>4 DEF ClientIs
      <4>5. CASE p # s
        BY <2>2, <3>1, <4>1, <4>2, <4>3, <4>5
      <4> QED BY <4>4, <4>5
    <3> QED BY <3>3 DEF ClientOwnsId, ClientIs
  <2>5. CASE ~client
    <3>1. clients' = clients
      BY <2>1, <2>5 DEF RemoveMonitor
    <3>2. ASSUME NEW p \in Socket, NEW d \in Client
          PROVE  ClientIs(msock'[p], d) <=> ClientIs(msock[p], d)
      BY <2>2, <2>3, <2>5 DEF ClientIs
    <3> QED BY <3>1, <3>2, ClientFrame
  <2> QED BY <2>4, <2>5
<1> QED BY <1>1, <1>2

(* Every handler and every call keeps the client ids owned.                 *)
LEMMA NextOwners == ASSUME TypeInv, ClientOwnsId, Next PROVE ClientOwnsId'
<1>1. ASSUME NEW s \in Socket, DisconnectPacket(s) \/ StreamClose(s) PROVE ClientOwnsId'
  BY <1>1, DisconnectKeepsOwners DEF DisconnectPacket, StreamClose
<1>2. ASSUME NEW s \in Socket, NEW i \in Server, NEW x \in Info, NEW ok \in BOOLEAN,
             OnRegisterMonitor(s, i, x, ok)
      PROVE  ClientOwnsId'
  <2>1. clients' = clients
    BY <1>2 DEF OnRegisterMonitor, AddMonitor, registry
  <2>2. /\ ~msock[s].registered /\ msock'[s].type = TypeOf[i]
        /\ \A p \in Socket \ {s} : msock'[p] = msock[p]
    BY <1>2 DEF OnRegisterMonitor, MayGreetAs, MayGreet, Greeted, TypeInv, TypeOK, LinksTypeOK
  <2>3. TypeOf[i] # TYPE_CLIENT
    BY TypeOfAssumption
  <2>4. ASSUME NEW p \in Socket, NEW d \in Client
        PROVE  ClientIs(msock'[p], d) <=> ClientIs(msock[p], d)
    BY <2>2, <2>3 DEF ClientIs
  <2> QED BY <2>1, <2>4, ClientFrame
<1>3. ASSUME NEW s \in Socket, NEW i \in Server, NEW x \in Info,
             OnRegisterMonitorAsync(s, i, x) \/ OnReconnect(s, i, x)
      PROVE  ClientOwnsId'
  <2>1. clients' = clients
    BY <1>3 DEF OnRegisterMonitorAsync, OnReconnect, AddMonitor, registry
  <2>2. /\ ~msock[s].registered /\ msock'[s].type = TypeOf[i]
        /\ \A p \in Socket \ {s} : msock'[p] = msock[p]
    BY <1>3 DEF OnRegisterMonitorAsync, OnReconnect, MayGreetAs, MayGreet, Greeted,
       TypeInv, TypeOK, LinksTypeOK
  <2>3. TypeOf[i] # TYPE_CLIENT
    BY TypeOfAssumption
  <2>4. ASSUME NEW p \in Socket, NEW d \in Client
        PROVE  ClientIs(msock'[p], d) <=> ClientIs(msock[p], d)
    BY <2>2, <2>3 DEF ClientIs
  <2> QED BY <2>1, <2>4, ClientFrame
<1>4. ASSUME NEW s \in Socket, NEW ok \in BOOLEAN, AuthServerDone(s, ok) PROVE ClientOwnsId'
  <2>1. clients' = clients
    BY <1>4 DEF AuthServerDone, AddMonitor, registry
  <2>2. /\ msock[s].type # TYPE_CLIENT /\ msock'[s].type = msock[s].type
        /\ \A p \in Socket \ {s} : msock'[p] = msock[p]
    BY <1>4 DEF AuthServerDone, TypeInv, TypeOK, LinksTypeOK
  <2>3. ASSUME NEW p \in Socket, NEW d \in Client
        PROVE  ClientIs(msock'[p], d) <=> ClientIs(msock[p], d)
    BY <2>2 DEF ClientIs
  <2> QED BY <2>1, <2>3, ClientFrame
<1>5. ASSUME NEW s \in Socket, NEW c \in Client, NEW user \in BOOLEAN,
             OnRegisterClient(s, c, user)
      PROVE  ClientOwnsId'
  BY <1>5, AdmitKeepsOwners DEF OnRegisterClient, MayGreet
<1>6. ASSUME NEW s \in Socket, NEW c \in Client, OnRegisterClientAsync(s, c)
      PROVE  ClientOwnsId'
  <2>1. clients' = clients
    BY <1>6 DEF OnRegisterClientAsync, registry
  <2>2. /\ ~msock[s].registered /\ ~msock'[s].registered
        /\ \A p \in Socket \ {s} : msock'[p] = msock[p]
    BY <1>6 DEF OnRegisterClientAsync, MayGreet, Greeted, TypeInv, TypeOK, LinksTypeOK
  <2>3. ASSUME NEW p \in Socket, NEW d \in Client
        PROVE  ClientIs(msock'[p], d) <=> ClientIs(msock[p], d)
    BY <2>2 DEF ClientIs
  <2> QED BY <2>1, <2>3, ClientFrame
<1>7. ASSUME NEW s \in Socket, NEW user \in BOOLEAN, AuthUserDone(s, user)
      PROVE  ClientOwnsId'
  <2>1. /\ msock[s].id \in Client /\ ~msock[s].registered
        /\ msock[s] = Greeted(msock[s].id, TYPE_CLIENT, msock[s].info, FALSE)
    <3>1. ~msock[s].registered /\ Identity(msock[s]) /\ msock[s].type = TYPE_CLIENT
      BY <1>7 DEF AuthUserDone, TypeInv, GreetedOK
    <3>2. msock[s].id \in Client
      BY <3>1, TypeOfAssumption DEF Identity
    <3> QED BY <3>1, <3>2 DEF TypeInv, TypeOK, LinksTypeOK, Greeted
  <2>2. AdmitClient(s, msock[s].id, user, Greeted(msock[s].id, TYPE_CLIENT, msock[s].info, FALSE))
    BY <1>7, <2>1 DEF AuthUserDone
  <2> QED BY <2>1, <2>2, AdmitKeepsOwners
<1>8. ASSUME UNCHANGED <<clients, msock>> PROVE ClientOwnsId'
  BY <1>8, ClientFrame
<1>9. ASSUME NEW s \in Socket, NEW r \in Req, OnMonitorResponse(s, r) PROVE ClientOwnsId'
  BY <1>8, <1>9 DEF OnMonitorResponse, registry, links
<1>10. ASSUME NEW i \in Server, Request(i) \/ \E x \in Info : RequestServer(i, x)
       PROVE  ClientOwnsId'
  BY <1>8, <1>10 DEF Request, RequestServer, registry, links
<1>11. ASSUME Listen \/ Close \/ \E s \in Socket : Connection(s) PROVE ClientOwnsId'
  BY <1>8, <1>11 DEF Listen, Close, Connection, registry, links
<1> QED BY <1>1, <1>2, <1>3, <1>4, <1>5, <1>6, <1>7, <1>9, <1>10, <1>11, NextCases

(* For any number of clients and connections, a client id belongs to the    *)
(* one registered connection that logged in with it, also when logins are   *)
(* verified late.                                                           *)
THEOREM ClientIdsAreOwned == Spec => []ClientOwnsId
<1>1. Init => ClientOwnsId
  BY NoneAssumption DEF Init, ClientOwnsId, FreshSocket
<1>2. TypeInv /\ ClientOwnsId /\ [Next]_vars => ClientOwnsId'
  <2>1. UNCHANGED vars /\ ClientOwnsId => ClientOwnsId'
    BY ClientFrame DEF vars, registry, links
  <2> QED BY <2>1, NextOwners
<1> QED BY <1>1, <1>2, TypeInvariant, PTL DEF Spec

-----------------------------------------------------------------------------
(* Primaries *)

Injective(list) == \A m, n \in DOMAIN list : list[m] = list[n] => m = n

(* Appending a new element to a list without repetitions.                   *)
LEMMA AppendToIndex ==
  ASSUME NEW S, NEW list \in Seq(S), Injective(list), NEW e \in S, e \notin ToSet(list)
  PROVE  Injective(Append(list, e)) /\ ToSet(Append(list, e)) = ToSet(list) \cup {e}
<1>1. /\ Append(list, e) \in Seq(S)
      /\ DOMAIN list = 1 .. Len(list) /\ Len(list) \in Nat
      /\ DOMAIN Append(list, e) = 1 .. Len(list) + 1
      /\ \A n \in 1 .. Len(list) : Append(list, e)[n] = list[n]
      /\ Append(list, e)[Len(list) + 1] = e
  BY AppendProperties, LenProperties
<1>2. \A n \in 1 .. Len(list) : list[n] # e
  BY <1>1 DEF ToSet
<1>3. Injective(Append(list, e))
  <2> SUFFICES ASSUME NEW m \in 1 .. Len(list) + 1, NEW n \in 1 .. Len(list) + 1,
                      Append(list, e)[m] = Append(list, e)[n]
               PROVE  m = n
    BY <1>1 DEF Injective
  <2>1. (m \in 1 .. Len(list) \/ m = Len(list) + 1) /\ (n \in 1 .. Len(list) \/ n = Len(list) + 1)
    BY <1>1
  <2> QED BY <1>1, <1>2, <2>1 DEF Injective
<1>4. ToSet(Append(list, e)) = ToSet(list) \cup {e}
  <2>1. \A n \in 1 .. Len(list) + 1 : n \in 1 .. Len(list) \/ n = Len(list) + 1
    BY <1>1
  <2>2. Len(list) + 1 \in 1 .. Len(list) + 1 /\ \A n \in 1 .. Len(list) : n \in 1 .. Len(list) + 1
    BY <1>1
  <2> QED BY <1>1, <2>1, <2>2 DEF ToSet
<1> QED BY <1>3, <1>4

(* Removing one element of a list without repetitions.                      *)
LEMMA RemoveFromIndex ==
  ASSUME NEW S, NEW list \in Seq(S), Injective(list), NEW n \in DOMAIN list
  PROVE  /\ Injective(RemoveFirstOf(list, {n}))
         /\ ToSet(RemoveFirstOf(list, {n})) = ToSet(list) \ {list[n]}
<1> DEFINE new == RemoveAt(list, n)
<1>1. DOMAIN list = 1 .. Len(list) /\ Len(list) \in Nat /\ n \in Nat
  BY LenProperties
<1>2. RemoveFirstOf(list, {n}) = new
  <2>1. {n} \in SUBSET Nat /\ {n} # {}
    BY <1>1
  <2> QED BY <2>1, MinOfNaturals DEF RemoveFirstOf
<1>3. /\ DOMAIN new = 1 .. Len(list) - 1
      /\ \A k \in 1 .. Len(list) - 1 : new[k] = IF k < n THEN list[k] ELSE list[k + 1]
  <2>1. new \in Seq(S) /\ Len(new) = Len(list) - 1
    BY RemoveAtProperties
  <2> QED BY <2>1, LenProperties, RemoveAtProperties
<1> HIDE DEF new
<1> DEFINE from(k) == IF k < n THEN k ELSE k + 1
<1>4. \A k \in 1 .. Len(list) - 1 : /\ from(k) \in 1 .. Len(list) /\ from(k) # n
                                   /\ new[k] = list[from(k)]
  BY <1>1, <1>3
<1>5. \A j, k \in 1 .. Len(list) - 1 : from(j) = from(k) => j = k
  BY <1>1
<1>6. \A m \in 1 .. Len(list) : m # n => \E k \in 1 .. Len(list) - 1 : from(k) = m
  <2> SUFFICES ASSUME NEW m \in 1 .. Len(list), m # n
               PROVE  \E k \in 1 .. Len(list) - 1 : from(k) = m
    OBVIOUS
  <2>1. CASE m < n
    BY <1>1, <2>1
  <2>2. CASE m > n
    <3>1. m - 1 \in 1 .. Len(list) - 1 /\ ~ (m - 1 < n) /\ (m - 1) + 1 = m
      BY <1>1, <2>2
    <3> QED BY <3>1
  <2> QED BY <1>1, <2>1, <2>2
<1> HIDE DEF from
<1>7. Injective(new)
  BY <1>1, <1>3, <1>4, <1>5 DEF Injective
<1>8. ToSet(new) \subseteq ToSet(list) \ {list[n]}
  BY <1>1, <1>3, <1>4 DEF Injective, ToSet
<1>9. ToSet(list) \ {list[n]} \subseteq ToSet(new)
  <2> SUFFICES ASSUME NEW m \in 1 .. Len(list), m # n
               PROVE  list[m] \in ToSet(new)
    BY <1>1 DEF ToSet
  <2>1. PICK k \in 1 .. Len(list) - 1 : from(k) = m
    BY <1>6
  <2>2. new[k] = list[m] /\ k \in DOMAIN new
    BY <1>3, <1>4, <2>1
  <2> QED BY <2>2 DEF ToSet
<1> QED BY <1>2, <1>7, <1>8, <1>9

Primaries(t) == {idMap[i] : i \in {j \in Server : HasPrimary(j) /\ TypeOf[j] = t}}
PrimaryInv == PrimaryIsRegistered /\ ByTypeIndexesPrimaries

(* addConnection puts the record it adds to idMap into typeMap.             *)
LEMMA AddKeepsIndex ==
  ASSUME TypeInv, PrimaryInv, NEW i \in Server, NEW x \in Info, NEW s \in Socket,
         AddMonitor(i, x, s)
  PROVE  ByTypeIndexesPrimaries'
<1> DEFINE record == [id |-> i, type |-> TypeOf[i], info |-> x, socket |-> s]
<1>1. CASE HasPrimary(i)
  <2>1. idMap' = idMap /\ typeMap' = typeMap
    BY <1>1 DEF AddMonitor
  <2> QED BY <2>1 DEF PrimaryInv, ByTypeIndexesPrimaries, HasPrimary
<1>2. CASE ~HasPrimary(i)
  <2>1. /\ idMap' = [idMap EXCEPT ![i] = record]
        /\ typeMap' = [typeMap EXCEPT ![TypeOf[i]] = Append(@, record)]
    BY <1>2 DEF AddMonitor
  <2>2. TypeOf[i] \in Type /\ record \in Record /\ record # NoRecord
    BY TypeOfAssumption, NoneAssumption DEF Record, NoRecord
  <2>3. \A j \in Server : /\ idMap'[j] = IF j = i THEN record ELSE idMap[j]
                          /\ HasPrimary(j)' <=> (j = i \/ HasPrimary(j))
    BY <2>1, <2>2 DEF HasPrimary, TypeInv, TypeOK, RegistryTypeOK
  <2>4. \A t \in Type : ToSet(typeMap[t]) = Primaries(t) /\ Injective(typeMap[t])
    BY DEF PrimaryInv, ByTypeIndexesPrimaries, Primaries, Injective
  <2>5. SUFFICES ASSUME NEW t \in Type
                 PROVE  ToSet(typeMap'[t]) = Primaries(t)' /\ Injective(typeMap'[t])
    BY DEF ByTypeIndexesPrimaries, Primaries, Injective
  <2>6. CASE t # TypeOf[i]
    <3>1. typeMap'[t] = typeMap[t]
      BY <2>1, <2>6 DEF TypeInv, TypeOK, RegistryTypeOK
    <3>2. Primaries(t)' = Primaries(t)
      BY <2>3, <2>6 DEF Primaries
    <3> QED BY <2>4, <3>1, <3>2
  <2>7. CASE t = TypeOf[i]
    <3>1. typeMap'[t] = Append(typeMap[t], record)
      BY <2>1, <2>2, <2>7 DEF TypeInv, TypeOK, RegistryTypeOK
    <3>2. Primaries(t)' = Primaries(t) \cup {record}
      BY <1>2, <2>3, <2>7 DEF Primaries
    <3>3. record \notin ToSet(typeMap[t])
      <4>1. \A j \in Server : HasPrimary(j) => idMap[j].id = j
        BY DEF PrimaryInv, PrimaryIsRegistered
      <4>2. \A j \in Server : HasPrimary(j) => idMap[j] # record
        BY <1>2, <4>1
      <4> QED BY <2>4, <4>2 DEF Primaries
    <3>4. typeMap[t] \in Seq(Record)
      BY DEF TypeInv, TypeOK, RegistryTypeOK
    <3> QED BY <2>2, <2>4, <3>1, <3>2, <3>3, <3>4, AppendToIndex
  <2> QED BY <2>6, <2>7
<1> QED BY <1>1, <1>2

(* removeConnection takes the same record out of typeMap and idMap.         *)
LEMMA RemoveKeepsIndex ==
  ASSUME TypeInv, PrimaryInv, NEW i \in Server, NEW x, RemoveMonitor(i, TypeOf[i], x)
  PROVE  ByTypeIndexesPrimaries'
<1>1. CASE UNCHANGED <<idMap, typeMap>>
  BY <1>1 DEF PrimaryInv, ByTypeIndexesPrimaries, HasPrimary
<1>2. CASE /\ HasPrimary(i)
           /\ idMap' = [idMap EXCEPT ![i] = NoRecord]
           /\ typeMap' = [typeMap EXCEPT ![TypeOf[i]] =
                           RemoveFirstOf(@, {n \in DOMAIN @ : @[n].id = i})]
  <2> DEFINE t == TypeOf[i]
             list == typeMap[t]
  <2>1. t \in Type /\ list \in Seq(Record)
    BY TypeOfAssumption DEF TypeInv, TypeOK, RegistryTypeOK
  <2>2. \A u \in Type : ToSet(typeMap[u]) = Primaries(u) /\ Injective(typeMap[u])
    BY DEF PrimaryInv, ByTypeIndexesPrimaries, Primaries, Injective
  <2>3. \A j \in Server : HasPrimary(j) => idMap[j].id = j
    BY DEF PrimaryInv, PrimaryIsRegistered
  <2>4. idMap[i] \in ToSet(list)
    BY <1>2, <2>1, <2>2 DEF Primaries
  <2>5. PICK n \in DOMAIN list : list[n] = idMap[i]
    BY <2>4 DEF ToSet
  <2>6. {k \in DOMAIN list : list[k].id = i} = {n}
    <3>1. \A k \in DOMAIN list : \E j \in Server : HasPrimary(j) /\ list[k] = idMap[j]
      BY <2>1, <2>2 DEF ToSet, Primaries
    <3>2. \A k \in DOMAIN list : list[k].id = i => list[k] = idMap[i]
      BY <2>3, <3>1
    <3>3. list[n].id = i
      BY <1>2, <2>3, <2>5
    <3> QED BY <2>1, <2>2, <2>5, <3>2, <3>3 DEF Injective
  <2>7. typeMap' = [typeMap EXCEPT ![t] = RemoveFirstOf(list, {n})]
    BY <1>2, <2>6
  <2>8. \A j \in Server : /\ idMap'[j] = IF j = i THEN NoRecord ELSE idMap[j]
                          /\ HasPrimary(j)' <=> (j # i /\ HasPrimary(j))
    BY <1>2 DEF HasPrimary, TypeInv, TypeOK, RegistryTypeOK
  <2>9. SUFFICES ASSUME NEW u \in Type
                 PROVE  ToSet(typeMap'[u]) = Primaries(u)' /\ Injective(typeMap'[u])
    BY DEF ByTypeIndexesPrimaries, Primaries, Injective
  <2>10. CASE u # t
    <3>1. typeMap'[u] = typeMap[u]
      BY <2>7, <2>10 DEF TypeInv, TypeOK, RegistryTypeOK
    <3>2. Primaries(u)' = Primaries(u)
      BY <2>8, <2>10 DEF Primaries
    <3> QED BY <2>2, <3>1, <3>2
  <2>11. CASE u = t
    <3>1. typeMap'[u] = RemoveFirstOf(list, {n})
      BY <2>1, <2>7, <2>11 DEF TypeInv, TypeOK, RegistryTypeOK
    <3>2. Primaries(t)' = Primaries(t) \ {idMap[i]}
      BY <1>2, <2>3, <2>8 DEF Primaries
    <3>3. /\ Injective(RemoveFirstOf(list, {n}))
          /\ ToSet(RemoveFirstOf(list, {n})) = ToSet(list) \ {list[n]}
      BY <2>1, <2>2, <2>5, RemoveFromIndex
    <3> QED BY <2>1, <2>2, <2>5, <2>11, <3>1, <3>2, <3>3
  <2> QED BY <2>10, <2>11
<1> QED BY <1>1, <1>2 DEF RemoveMonitor

(* A primary record and the connection it names agree.                      *)
Agree(record, m, i) ==
  /\ record.id = i /\ record.type = TypeOf[i]
  /\ m.registered /\ m.type # TYPE_CLIENT /\ m.id = i
  /\ m.info = record.info

(* PrimaryIsRegistered in terms of Agree, in this state and in the next.    *)
LEMMA PrimariesAgree ==
  /\ PrimaryIsRegistered <=>
       \A i \in Server : HasPrimary(i) => Agree(idMap[i], msock[idMap[i].socket], i)
  /\ PrimaryIsRegistered' <=>
       \A i \in Server : idMap'[i] # NoRecord => Agree(idMap'[i], msock'[idMap'[i].socket], i)
BY DEF PrimaryIsRegistered, Agree, MonitorIs, HasPrimary, NoRecord

(* PrimaryInv only looks at these variables.                                *)
LEMMA PrimariesFrame ==
  ASSUME PrimaryInv, UNCHANGED <<idMap, typeMap, msock>>
  PROVE  PrimaryInv'
BY DEF PrimaryInv, PrimaryIsRegistered, ByTypeIndexesPrimaries, HasPrimary, MonitorIs

(* A connection that was not registered stands for no primary, so whatever  *)
(* happens to it, the other records agree with their connections.           *)
LEMMA KeepPrimaries ==
  ASSUME TypeInv, PrimaryIsRegistered, NEW s \in Socket, ~msock[s].registered,
         \A p \in Socket \ {s} : msock'[p] = msock[p],
         NEW i \in Server, HasPrimary(i), idMap'[i] = idMap[i]
  PROVE  Agree(idMap'[i], msock'[idMap'[i].socket], i)
<1>1. Agree(idMap[i], msock[idMap[i].socket], i)
  BY PrimariesAgree
<1>2. idMap[i].socket \in Socket
  BY DEF TypeInv, TypeOK, RegistryTypeOK, HasPrimary, Record
<1>3. idMap[i].socket # s
  BY <1>1 DEF Agree
<1>4. msock'[idMap[i].socket] = msock[idMap[i].socket]
  BY <1>2, <1>3
<1> QED BY <1>1, <1>4

(* A step on an unregistered connection that leaves idMap and typeMap alone.*)
LEMMA UnregisteredFrame ==
  ASSUME TypeInv, PrimaryInv, NEW s \in Socket, ~msock[s].registered,
         \A p \in Socket \ {s} : msock'[p] = msock[p],
         UNCHANGED <<idMap, typeMap>>
  PROVE  PrimaryInv'
<1>1. ByTypeIndexesPrimaries'
  BY DEF PrimaryInv, ByTypeIndexesPrimaries, HasPrimary
<1>2. ASSUME NEW i \in Server, HasPrimary(i)
      PROVE  Agree(idMap'[i], msock'[idMap'[i].socket], i)
  BY <1>2, KeepPrimaries DEF PrimaryInv
<1>3. PrimaryIsRegistered'
  BY <1>2, PrimariesAgree DEF HasPrimary
<1> QED BY <1>1, <1>3 DEF PrimaryInv

(* addConnection of a monitor that is registered with what it reported.     *)
LEMMA AddKeepsPrimaries ==
  ASSUME TypeInv, PrimaryInv, NEW s \in Socket, ~msock[s].registered,
         \A p \in Socket \ {s} : msock'[p] = msock[p],
         NEW i \in Server, NEW x \in Info, AddMonitor(i, x, s),
         msock'[s] = [id |-> i, type |-> TypeOf[i], info |-> x, registered |-> TRUE]
  PROVE  PrimaryInv'
<1>1. ByTypeIndexesPrimaries'
  BY AddKeepsIndex
<1>2. CASE HasPrimary(i)
  <2>1. idMap' = idMap /\ typeMap' = typeMap
    BY <1>2 DEF AddMonitor
  <2> QED BY <2>1, UnregisteredFrame
<1>3. CASE ~HasPrimary(i)
  <2> DEFINE record == [id |-> i, type |-> TypeOf[i], info |-> x, socket |-> s]
  <2>1. idMap' = [idMap EXCEPT ![i] = record]
    BY <1>3 DEF AddMonitor
  <2>2. \A j \in Server : idMap'[j] = IF j = i THEN record ELSE idMap[j]
    BY <2>1 DEF TypeInv, TypeOK, RegistryTypeOK
  <2>3. ASSUME NEW j \in Server, idMap'[j] # NoRecord
        PROVE  Agree(idMap'[j], msock'[idMap'[j].socket], j)
    <3>1. CASE j = i
      <4>1. idMap'[j] = record
        BY <2>2, <3>1
      <4> QED BY <3>1, <4>1, TypeOfAssumption DEF Agree
    <3>2. CASE j # i
      <4>1. idMap'[j] = idMap[j] /\ HasPrimary(j)
        BY <2>2, <2>3, <3>2 DEF HasPrimary
      <4> QED BY <4>1, KeepPrimaries DEF PrimaryInv
    <3> QED BY <3>1, <3>2
  <2> QED BY <1>1, <2>3, PrimariesAgree DEF PrimaryInv
<1> QED BY <1>2, <1>3

(* The end of a connection. When it stood for a primary, the addresses that *)
(* removeConnection compares are equal, so that primary is what it removes; *)
(* when it did not, a primary it removes by mistake is removed from typeMap *)
(* too.                                                                     *)
LEMMA DisconnectKeepsPrimaries ==
  ASSUME NoInfo \notin Info, TypeInv, PrimaryInv, NEW s \in Socket, OnDisconnect(s)
  PROVE  PrimaryInv'
<1> DEFINE m == msock[s]
           client == m.type = TYPE_CLIENT
           forget == m.registered /\ (client \/ ~RemoveThrows(m.id, m.info))
<1>1. CASE ~forget
  <2>1. idMap' = idMap /\ typeMap' = typeMap /\ msock' = msock
    BY <1>1 DEF OnDisconnect, registry
  <2> QED BY <2>1, PrimariesFrame
<1>2. CASE forget
  <2>1. /\ IF client THEN RemoveClient(m.id) ELSE RemoveMonitor(m.id, m.type, m.info)
        /\ msock' = [msock EXCEPT ![s] = [id |-> None, type |-> None, info |-> m.info,
                                          registered |-> FALSE]]
    BY <1>2 DEF OnDisconnect, Greeted
  <2>2. \A p \in Socket \ {s} : msock'[p] = msock[p]
    BY <2>1 DEF TypeInv, TypeOK, LinksTypeOK
  <2>3. ASSUME NEW j \in Server, HasPrimary(j), idMap'[j] = idMap[j], idMap[j].socket # s
        PROVE  Agree(idMap'[j], msock'[idMap'[j].socket], j)
    <3>1. idMap[j].socket \in Socket
      BY <2>3 DEF TypeInv, TypeOK, RegistryTypeOK, HasPrimary, Record
    <3>2. msock'[idMap[j].socket] = msock[idMap[j].socket]
      BY <2>2, <2>3, <3>1
    <3>3. Agree(idMap[j], msock[idMap[j].socket], j)
      BY <2>3, PrimariesAgree DEF PrimaryInv
    <3> QED BY <2>3, <3>2, <3>3
  <2>4. CASE client
    <3>1. idMap' = idMap /\ typeMap' = typeMap
      BY <2>1, <2>4 DEF RemoveClient
    <3>2. \A j \in Server : HasPrimary(j) => idMap[j].socket # s
      BY <2>4 DEF PrimaryInv, PrimaryIsRegistered, MonitorIs
    <3>3. PrimaryIsRegistered'
      BY <2>3, <3>1, <3>2, PrimariesAgree DEF HasPrimary
    <3> QED BY <3>1, <3>3 DEF PrimaryInv, ByTypeIndexesPrimaries, HasPrimary
  <2>5. CASE ~client
    <3>1. m.id \in Server /\ m.type = TypeOf[m.id]
      BY <1>2, <2>5 DEF TypeInv, GreetedOK, Identity
    <3>2. RemoveMonitor(m.id, TypeOf[m.id], m.info)
      BY <2>1, <2>5, <3>1
    <3>3. ByTypeIndexesPrimaries'
      BY <3>1, <3>2, RemoveKeepsIndex
    <3>4. ASSUME NEW j \in Server, idMap'[j] # NoRecord
          PROVE  idMap'[j] = idMap[j] /\ HasPrimary(j) /\ idMap[j].socket # s
      <4>1. idMap' = idMap \/ idMap' = [idMap EXCEPT ![m.id] = NoRecord]
        BY <3>2 DEF RemoveMonitor
      <4>2. idMap'[j] = idMap[j] /\ HasPrimary(j)
        BY <3>4, <4>1 DEF HasPrimary, TypeInv, TypeOK, RegistryTypeOK
      <4>3. ASSUME idMap[j].socket = s PROVE FALSE
        <5>1. m.id = j /\ m.info = idMap[j].info
          BY <4>2, <4>3, PrimariesAgree DEF PrimaryInv, Agree
        <5>2. idMap' = [idMap EXCEPT ![j] = NoRecord]
          BY <3>2, <4>2, <5>1 DEF RemoveMonitor
        <5> QED BY <3>4, <5>2 DEF HasPrimary, TypeInv, TypeOK, RegistryTypeOK
      <4> QED BY <4>2, <4>3
    <3>5. PrimaryIsRegistered'
      BY <2>3, <3>4, PrimariesAgree
    <3> QED BY <3>3, <3>5 DEF PrimaryInv
  <2> QED BY <2>4, <2>5
<1> QED BY <1>1, <1>2

(* Every step keeps the primaries, if every monitor reports its address.    *)
LEMMA NextPrimaries == ASSUME NoInfo \notin Info, TypeInv, PrimaryInv, Next PROVE PrimaryInv'
<1>1. ASSUME NEW s \in Socket, DisconnectPacket(s) \/ StreamClose(s) PROVE PrimaryInv'
  BY <1>1, DisconnectKeepsPrimaries DEF DisconnectPacket, StreamClose
<1>2. ASSUME NEW s \in Socket, NEW i \in Server, NEW x \in Info, NEW ok \in BOOLEAN,
             OnRegisterMonitor(s, i, x, ok)
      PROVE  PrimaryInv'
  <2>1. /\ ~msock[s].registered /\ \A p \in Socket \ {s} : msock'[p] = msock[p]
        /\ msock'[s] = [id |-> i, type |-> TypeOf[i], info |-> x, registered |-> ok]
    BY <1>2 DEF OnRegisterMonitor, MayGreetAs, MayGreet, Greeted, TypeInv, TypeOK, LinksTypeOK
  <2>2. CASE ok
    BY <1>2, <2>1, <2>2, AddKeepsPrimaries DEF OnRegisterMonitor
  <2>3. CASE ~ok
    <3>1. UNCHANGED <<idMap, typeMap>>
      BY <1>2, <2>3 DEF OnRegisterMonitor, registry
    <3> QED BY <2>1, <3>1, UnregisteredFrame
  <2> QED BY <2>2, <2>3
<1>3. ASSUME NEW s \in Socket, NEW i \in Server, NEW x \in Info,
             OnRegisterMonitorAsync(s, i, x)
      PROVE  PrimaryInv'
  <2>1. /\ ~msock[s].registered /\ \A p \in Socket \ {s} : msock'[p] = msock[p]
        /\ UNCHANGED <<idMap, typeMap>>
    BY <1>3 DEF OnRegisterMonitorAsync, MayGreetAs, MayGreet, registry, TypeInv, TypeOK,
       LinksTypeOK
  <2> QED BY <2>1, UnregisteredFrame
<1>4. ASSUME NEW s \in Socket, NEW i \in Server, NEW x \in Info, OnReconnect(s, i, x)
      PROVE  PrimaryInv'
  <2>1. x # NoInfo
    OBVIOUS
  <2>2. /\ ~msock[s].registered /\ \A p \in Socket \ {s} : msock'[p] = msock[p]
        /\ msock'[s] = [id |-> i, type |-> TypeOf[i], info |-> x, registered |-> TRUE]
    BY <1>4, <2>1 DEF OnReconnect, MayGreetAs, MayGreet, Greeted, TypeInv, TypeOK, LinksTypeOK
  <2> QED BY <1>4, <2>2, AddKeepsPrimaries DEF OnReconnect
<1>5. ASSUME NEW s \in Socket, NEW ok \in BOOLEAN, AuthServerDone(s, ok) PROVE PrimaryInv'
  <2>1. /\ ~msock[s].registered /\ msock[s].id \in Server /\ msock[s].info \in Info
        /\ msock[s].type = TypeOf[msock[s].id]
    BY <1>5 DEF AuthServerDone, TypeInv, GreetedOK, Identity
  <2>2. CASE ok
    <3>1. /\ AddMonitor(msock[s].id, msock[s].info, s)
          /\ msock' = [msock EXCEPT ![s].registered = TRUE]
      BY <1>5, <2>2 DEF AuthServerDone
    <3>2. /\ \A p \in Socket \ {s} : msock'[p] = msock[p]
          /\ msock'[s] = [id |-> msock[s].id, type |-> TypeOf[msock[s].id],
                          info |-> msock[s].info, registered |-> TRUE]
      BY <2>1, <3>1 DEF TypeInv, TypeOK, LinksTypeOK
    <3> QED BY <2>1, <3>1, <3>2, AddKeepsPrimaries
  <2>3. CASE ~ok
    BY <1>5, <2>3, PrimariesFrame DEF AuthServerDone, registry
  <2> QED BY <2>2, <2>3
<1>6. ASSUME NEW s \in Socket, NEW c \in Client,
             OnRegisterClientAsync(s, c) \/ \E user \in BOOLEAN : OnRegisterClient(s, c, user)
      PROVE  PrimaryInv'
  <2>1. /\ ~msock[s].registered /\ \A p \in Socket \ {s} : msock'[p] = msock[p]
        /\ UNCHANGED <<idMap, typeMap>>
    BY <1>6 DEF OnRegisterClientAsync, OnRegisterClient, AdmitClient, AddClient, MayGreet,
       registry, TypeInv, TypeOK, LinksTypeOK
  <2> QED BY <2>1, UnregisteredFrame
<1>7. ASSUME NEW s \in Socket, NEW user \in BOOLEAN, AuthUserDone(s, user) PROVE PrimaryInv'
  <2>1. /\ ~msock[s].registered /\ \A p \in Socket \ {s} : msock'[p] = msock[p]
        /\ UNCHANGED <<idMap, typeMap>>
    BY <1>7 DEF AuthUserDone, AdmitClient, AddClient, registry, TypeInv, TypeOK, LinksTypeOK,
       GreetedOK
  <2> QED BY <2>1, UnregisteredFrame
<1>8. ASSUME NEW s \in Socket, NEW r \in Req, OnMonitorResponse(s, r) PROVE PrimaryInv'
  BY <1>8, PrimariesFrame DEF OnMonitorResponse, registry, links
<1>9. ASSUME NEW i \in Server, Request(i) \/ \E x \in Info : RequestServer(i, x)
      PROVE  PrimaryInv'
  BY <1>9, PrimariesFrame DEF Request, RequestServer, registry, links
<1>10. ASSUME Listen \/ Close \/ \E s \in Socket : Connection(s) PROVE PrimaryInv'
  BY <1>10, PrimariesFrame DEF Listen, Close, Connection, registry, links
<1> QED
  BY <1>1, <1>2, <1>3, <1>4, <1>5, <1>6, <1>7, <1>8, <1>9, <1>10, NextCases

(* The primaries stay right in every behaviour in which every monitor       *)
(* reports its address; connections may share addresses.                    *)
THEOREM PrimariesInvariant == ASSUME NoInfo \notin Info PROVE Spec => []PrimaryInv
<1>1. Init => PrimaryInv
  <2>1. ASSUME Init PROVE PrimaryIsRegistered
    BY <2>1 DEF Init, PrimaryIsRegistered, HasPrimary
  <2>2. ASSUME Init PROVE ByTypeIndexesPrimaries
    BY <2>2, EmptySeq DEF Init, ByTypeIndexesPrimaries, HasPrimary, ToSet
  <2> QED BY <2>1, <2>2 DEF PrimaryInv
<1>2. TypeInv /\ PrimaryInv /\ [Next]_vars => PrimaryInv'
  BY NextPrimaries, PrimariesFrame DEF vars, registry, links
<1> QED BY <1>1, <1>2, TypeInvariant, PTL DEF Spec

(* For any number of servers, connections and addresses: a server's primary *)
(* record names a connection registered for that server.                    *)
THEOREM PrimariesAreRegistered ==
  ASSUME NoInfo \notin Info PROVE Spec => []PrimaryIsRegistered
BY PrimariesInvariant, PTL DEF PrimaryInv

(* Under the same assumption typeMap indexes the primaries by type, so that *)
(* notifyByType reaches each of them once.                                  *)
THEOREM TypeMapIsAnIndex ==
  ASSUME NoInfo \notin Info PROVE Spec => []ByTypeIndexesPrimaries
BY PrimariesInvariant, PTL DEF PrimaryInv

-----------------------------------------------------------------------------
(* When authentication answers at once *)

RegisteredAreOpen == \A s \in Socket : msock[s].registered => Open(s)

(* onDisconnect always forgets a registered connection: compareServer has   *)
(* an address on either side.                                               *)
LEMMA DisconnectForgets ==
  ASSUME NoInfo \notin Info, TypeInv, NEW s \in Socket, OnDisconnect(s)
  PROVE  /\ ~msock'[s].registered
         /\ \A p \in Socket \ {s} : msock'[p] = msock[p]
<1> DEFINE m == msock[s]
           client == m.type = TYPE_CLIENT
           forget == m.registered /\ (client \/ ~RemoveThrows(m.id, m.info))
<1>1. CASE forget
  <2>1. msock' = [msock EXCEPT ![s] = [id |-> None, type |-> None, info |-> m.info,
                                       registered |-> FALSE]]
    BY <1>1 DEF OnDisconnect, Greeted
  <2> QED BY <2>1 DEF TypeInv, TypeOK, LinksTypeOK
<1>2. CASE ~m.registered
  BY <1>2 DEF OnDisconnect
<1>3. ASSUME m.registered, ~client, RemoveThrows(m.id, m.info) PROVE FALSE
  <2>1. m.id \in Server /\ m.info \in Info
    BY <1>3 DEF TypeInv, GreetedOK, Identity
  <2>2. idMap[m.id].info \in Info
    BY <1>3, <2>1 DEF RemoveThrows, HasPrimary, TypeInv, TypeOK, RegistryTypeOK, Record
  <2>3. \A n \in DOMAIN slaveMap[m.id] : slaveMap[m.id][n].info \in Info
    <3>1. slaveMap[m.id] \in Seq(Record)
      BY <2>1 DEF TypeInv, TypeOK, RegistryTypeOK
    <3>2. \A n \in DOMAIN slaveMap[m.id] : slaveMap[m.id][n] \in Record
      BY <3>1, ElementOfSeq, LenProperties
    <3> QED BY <3>2 DEF Record
  <2> QED BY <1>3, <2>1, <2>2, <2>3 DEF RemoveThrows
<1> QED BY <1>1, <1>2, <1>3

(* RegisteredAreOpen only looks at these variables.                         *)
LEMMA OpenFrame ==
  ASSUME RegisteredAreOpen, UNCHANGED <<conn, msock>> PROVE RegisteredAreOpen'
BY DEF RegisteredAreOpen, Open

(* A connection that greets is open.                                        *)
LEMMA GreetingIsOpen ==
  ASSUME RegisteredAreOpen, NEW s \in Socket, Open(s), UNCHANGED conn,
         \A p \in Socket \ {s} : msock'[p] = msock[p]
  PROVE  RegisteredAreOpen'
BY DEF RegisteredAreOpen, Open

(* Every step keeps the registered connections open.                        *)
LEMMA NextOpen ==
  ASSUME NoInfo \notin Info, ~AsyncAuth, TypeInv, RegisteredAreOpen, Next
  PROVE  RegisteredAreOpen'
<1>1. ASSUME NEW s \in Socket, DisconnectPacket(s) \/ StreamClose(s) PROVE RegisteredAreOpen'
  <2>1. /\ ~msock'[s].registered /\ \A p \in Socket \ {s} : msock'[p] = msock[p]
    BY <1>1, DisconnectForgets DEF DisconnectPacket, StreamClose
  <2>2. \A p \in Socket \ {s} : conn'[p] = conn[p]
    BY <1>1 DEF DisconnectPacket, StreamClose, TypeInv, TypeOK, LinksTypeOK
  <2> QED BY <2>1, <2>2 DEF RegisteredAreOpen, Open
<1>2. ASSUME NEW s \in Socket, NEW i \in Server, NEW x \in Info,
             OnReconnect(s, i, x) \/ \E ok \in BOOLEAN : OnRegisterMonitor(s, i, x, ok)
      PROVE  RegisteredAreOpen'
  <2>1. Open(s) /\ UNCHANGED conn /\ \A p \in Socket \ {s} : msock'[p] = msock[p]
    BY <1>2 DEF OnReconnect, OnRegisterMonitor, MayGreetAs, MayGreet, TypeInv, TypeOK, LinksTypeOK
  <2> QED BY <2>1, GreetingIsOpen
<1>3. ASSUME NEW s \in Socket, NEW c \in Client, NEW user \in BOOLEAN,
             OnRegisterClient(s, c, user)
      PROVE  RegisteredAreOpen'
  <2>1. Open(s) /\ UNCHANGED conn /\ \A p \in Socket \ {s} : msock'[p] = msock[p]
    BY <1>3 DEF OnRegisterClient, AdmitClient, MayGreet, TypeInv, TypeOK, LinksTypeOK
  <2> QED BY <2>1, GreetingIsOpen
<1>4. ASSUME NEW s \in Socket, Connection(s) PROVE RegisteredAreOpen'
  BY <1>4 DEF Connection, RegisteredAreOpen, Open, TypeInv, TypeOK, LinksTypeOK
<1>5. ASSUME NEW s \in Socket, NEW i \in Server, NEW x \in Info, OnRegisterMonitorAsync(s, i, x)
      PROVE  RegisteredAreOpen'
  BY <1>5 DEF OnRegisterMonitorAsync
<1>6. ASSUME NEW s \in Socket, NEW c \in Client, OnRegisterClientAsync(s, c)
      PROVE  RegisteredAreOpen'
  BY <1>6 DEF OnRegisterClientAsync
<1>7. ASSUME NEW s \in Socket, NEW ok \in BOOLEAN, AuthServerDone(s, ok) \/ AuthUserDone(s, ok)
      PROVE  RegisteredAreOpen'
  BY <1>7 DEF AuthServerDone, AuthUserDone, TypeInv, GreetedOK
<1>8. ASSUME NEW s \in Socket, NEW r \in Req, OnMonitorResponse(s, r) PROVE RegisteredAreOpen'
  BY <1>8, OpenFrame DEF OnMonitorResponse, links
<1>9. ASSUME NEW i \in Server, Request(i) \/ \E x \in Info : RequestServer(i, x)
      PROVE  RegisteredAreOpen'
  BY <1>9, OpenFrame DEF Request, RequestServer, links
<1>10. ASSUME Listen \/ Close PROVE RegisteredAreOpen'
  BY <1>10, OpenFrame DEF Listen, Close, links
<1> QED
  BY <1>1, <1>2, <1>3, <1>4, <1>5, <1>6, <1>7, <1>8, <1>9, <1>10, NextCases

(* A recipient is the connection of a primary or of a client id, and both   *)
(* are registered.                                                          *)
LEMMA RecipientsAreRegistered ==
  ASSUME TypeInv, PrimaryInv, ClientOwnsId, RegisteredAreOpen
  PROVE  RecipientsAreOpen
<1>1. ASSUME NEW j \in Server, HasPrimary(j) PROVE Open(idMap[j].socket)
  <2>1. idMap[j].socket \in Socket
    BY <1>1 DEF TypeInv, TypeOK, RegistryTypeOK, HasPrimary, Record
  <2>2. msock[idMap[j].socket].registered
    BY <1>1 DEF PrimaryInv, PrimaryIsRegistered, MonitorIs
  <2> QED BY <2>1, <2>2 DEF RegisteredAreOpen
<1>2. ASSUME NEW t \in Type, NEW s \in ToSet(NotifyByType(t)) PROVE Open(s)
  <2>1. PICK n \in 1 .. (IF Sending THEN Len(typeMap[t]) ELSE 0) : s = typeMap[t][n].socket
    BY DEF ToSet, NotifyByType
  <2>2. typeMap[t] \in Seq(Record)
    BY DEF TypeInv, TypeOK, RegistryTypeOK
  <2>3. n \in DOMAIN typeMap[t]
    BY <2>1, <2>2, LenProperties
  <2>4. typeMap[t][n] \in ToSet(typeMap[t])
    BY <2>3 DEF ToSet
  <2>5. PICK j \in Server : HasPrimary(j) /\ typeMap[t][n] = idMap[j]
    <3>1. ToSet(typeMap[t]) = {idMap[i] : i \in {j \in Server : HasPrimary(j) /\ TypeOf[j] = t}}
      BY DEF PrimaryInv, ByTypeIndexesPrimaries
    <3> QED BY <2>4, <3>1
  <2> QED BY <1>1, <2>1, <2>5
<1>3. ASSUME NEW c \in Client, clients[c] # None PROVE Open(clients[c])
  <2>1. clients[c] \in Socket
    BY <1>3 DEF TypeInv, TypeOK, RegistryTypeOK
  <2>2. msock[clients[c]].registered
    BY <2>1 DEF ClientOwnsId
  <2> QED BY <2>1, <2>2 DEF RegisteredAreOpen
<1> QED BY <1>1, <1>2, <1>3 DEF RecipientsAreOpen, NotifyAll, NotifyById, NotifyClient

(* For any number of servers, clients and connections: when authentication  *)
(* answers at once and every monitor reports its address, request and the   *)
(* notifications are never written to the connection of a peer that has     *)
(* gone.                                                                    *)
THEOREM RecipientsStayOpen ==
  ASSUME NoInfo \notin Info, ~AsyncAuth PROVE Spec => []RecipientsAreOpen
<1>1. Init => RegisteredAreOpen
  BY DEF Init, FreshSocket, RegisteredAreOpen
<1>2. TypeInv /\ RegisteredAreOpen /\ [Next]_vars => RegisteredAreOpen'
  BY NextOpen, OpenFrame DEF vars, links
<1>3. TypeInv /\ PrimaryInv /\ ClientOwnsId /\ RegisteredAreOpen => RecipientsAreOpen
  BY RecipientsAreRegistered
<1>4. Spec => []PrimaryInv
  BY PrimariesInvariant
<1> QED BY <1>1, <1>2, <1>3, <1>4, TypeInvariant, ClientIdsAreOwned, PTL DEF Spec

(* A step that takes no primary in, adds no request and takes back nothing  *)
(* that was sent.                                                           *)
LEMMA OutstandingFrame ==
  ASSUME TypeInv, PrimaryHasOutstanding,
         \A i \in Server : idMap'[i] = idMap[i] \/ idMap'[i] = NoRecord,
         \A i \in Server : msgMap'[i] \subseteq msgMap[i],
         \A s \in Socket : sent[s] \subseteq sent'[s]
  PROVE  PrimaryHasOutstanding'
<1> SUFFICES ASSUME NEW i \in Server, idMap'[i] # NoRecord
             PROVE  msgMap'[i] \subseteq sent'[idMap'[i].socket]
  BY DEF PrimaryHasOutstanding, HasPrimary
<1>1. idMap'[i] = idMap[i] /\ HasPrimary(i)
  BY DEF HasPrimary
<1>2. idMap[i].socket \in Socket
  BY <1>1 DEF TypeInv, TypeOK, RegistryTypeOK, HasPrimary, Record
<1> QED BY <1>1, <1>2 DEF PrimaryHasOutstanding

(* A monitor that is added has been sent what is outstanding.               *)
LEMMA AddKeepsOutstanding ==
  ASSUME TypeInv, PrimaryHasOutstanding, NEW s \in Socket, NEW i \in Server, NEW x \in Info,
         AddMonitor(i, x, s), Repush(s, i), UNCHANGED msgMap
  PROVE  PrimaryHasOutstanding'
<1>1. /\ \A p \in Socket : sent[p] \subseteq sent'[p]
      /\ msgMap[i] \subseteq sent'[s]
  BY DEF Repush, TypeInv, TypeOK, QosTypeOK
<1>2. CASE HasPrimary(i)
  <2>1. idMap' = idMap
    BY <1>2 DEF AddMonitor
  <2> QED BY <1>1, <2>1, OutstandingFrame
<1>3. CASE ~HasPrimary(i)
  <2>1. /\ idMap'[i].socket = s
        /\ \A j \in Server \ {i} : idMap'[j] = idMap[j]
    BY <1>3 DEF AddMonitor, TypeInv, TypeOK, RegistryTypeOK
  <2> SUFFICES ASSUME NEW j \in Server, idMap'[j] # NoRecord
               PROVE  msgMap[j] \subseteq sent'[idMap'[j].socket]
    BY DEF PrimaryHasOutstanding, HasPrimary
  <2>2. CASE j = i
    BY <1>1, <2>1, <2>2
  <2>3. CASE j # i
    <3>1. idMap'[j] = idMap[j] /\ HasPrimary(j)
      BY <2>1, <2>3 DEF HasPrimary
    <3>2. idMap[j].socket \in Socket
      BY <3>1 DEF TypeInv, TypeOK, RegistryTypeOK, HasPrimary, Record
    <3> QED BY <1>1, <3>1, <3>2 DEF PrimaryHasOutstanding
  <2> QED BY <2>2, <2>3
<1> QED BY <1>2, <1>3

(* Every step leaves the primaries with what is outstanding.                *)
LEMMA NextOutstanding ==
  ASSUME NoInfo \notin Info, ~AsyncAuth, TypeInv, PrimaryHasOutstanding, Next
  PROVE  PrimaryHasOutstanding'
<1>1. ASSUME NEW s \in Socket, DisconnectPacket(s) \/ StreamClose(s) PROVE PrimaryHasOutstanding'
  <2>1. /\ msgMap' = msgMap /\ sent' = sent
        /\ \/ idMap' = idMap \/ RemoveClient(msock[s].id)
           \/ RemoveMonitor(msock[s].id, msock[s].type, msock[s].info)
    BY <1>1 DEF DisconnectPacket, StreamClose, OnDisconnect, qos, registry
  <2>2. \A i \in Server : idMap'[i] = idMap[i] \/ idMap'[i] = NoRecord
    BY <2>1 DEF RemoveClient, RemoveMonitor, TypeInv, TypeOK, RegistryTypeOK
  <2> QED BY <2>1, <2>2, OutstandingFrame
<1>2. ASSUME NEW s \in Socket, NEW i \in Server, NEW x \in Info, NEW ok \in BOOLEAN,
             OnRegisterMonitor(s, i, x, ok)
      PROVE  PrimaryHasOutstanding'
  <2>1. Repush(s, i) /\ UNCHANGED msgMap
    BY <1>2 DEF OnRegisterMonitor
  <2>2. CASE ok
    BY <1>2, <2>1, <2>2, AddKeepsOutstanding DEF OnRegisterMonitor
  <2>3. CASE ~ok
    <3>1. idMap' = idMap /\ \A p \in Socket : sent[p] \subseteq sent'[p]
      BY <1>2, <2>1, <2>3 DEF OnRegisterMonitor, registry, Repush, TypeInv, TypeOK, QosTypeOK
    <3> QED BY <2>1, <3>1, OutstandingFrame
  <2> QED BY <2>2, <2>3
<1>3. ASSUME NEW s \in Socket, NEW i \in Server, NEW x \in Info, OnReconnect(s, i, x)
      PROVE  PrimaryHasOutstanding'
  <2>1. x # NoInfo
    OBVIOUS
  <2> QED BY <1>3, <2>1, AddKeepsOutstanding DEF OnReconnect
<1>4. ASSUME NEW i \in Server, Request(i) PROVE PrimaryHasOutstanding'
  <2>1. /\ idMap' = idMap
        /\ msgMap' = [msgMap EXCEPT ![i] = @ \cup {reqId}]
        /\ IF HasPrimary(i) THEN sent' = [sent EXCEPT ![idMap[i].socket] = @ \cup {reqId}]
                            ELSE sent' = sent
    BY <1>4 DEF Request, registry
  <2> SUFFICES ASSUME NEW j \in Server, HasPrimary(j)
               PROVE  msgMap'[j] \subseteq sent'[idMap[j].socket]
    BY <2>1 DEF PrimaryHasOutstanding, HasPrimary
  <2>2. \A k \in Server : HasPrimary(k) => idMap[k].socket \in Socket
    BY DEF TypeInv, TypeOK, RegistryTypeOK, HasPrimary, Record
  <2>3. msgMap[j] \subseteq sent[idMap[j].socket] /\ idMap[j].socket \in Socket
    BY <2>2 DEF PrimaryHasOutstanding
  <2>4. \A p \in Socket : sent[p] \subseteq sent'[p]
    BY <2>1, <2>2 DEF TypeInv, TypeOK, QosTypeOK
  <2>5. CASE j = i
    <3>1. msgMap'[j] = msgMap[j] \cup {reqId}
      BY <2>1, <2>5 DEF TypeInv, TypeOK, QosTypeOK
    <3>2. reqId \in sent'[idMap[j].socket]
      BY <2>1, <2>3, <2>5 DEF TypeInv, TypeOK, QosTypeOK
    <3> QED BY <2>3, <2>4, <3>1, <3>2
  <2>6. CASE j # i
    <3>1. msgMap'[j] = msgMap[j]
      BY <2>1, <2>6 DEF TypeInv, TypeOK, QosTypeOK
    <3> QED BY <2>3, <2>4, <3>1
  <2> QED BY <2>5, <2>6
<1>5. ASSUME NEW i \in Server, NEW x \in Info, RequestServer(i, x) PROVE PrimaryHasOutstanding'
  <2>1. /\ idMap' = idMap /\ msgMap' = msgMap
        /\ \A p \in Socket : sent[p] \subseteq sent'[p]
    BY <1>5 DEF RequestServer, registry
  <2> QED BY <2>1, OutstandingFrame
<1>6. ASSUME NEW s \in Socket, NEW r \in Req, OnMonitorResponse(s, r)
      PROVE  PrimaryHasOutstanding'
  <2>1. /\ idMap' = idMap /\ sent' = sent
        /\ \A i \in Server : msgMap'[i] \subseteq msgMap[i]
    BY <1>6 DEF OnMonitorResponse, registry, TypeInv, TypeOK, QosTypeOK
  <2> QED BY <2>1, OutstandingFrame
<1>7. ASSUME NEW s \in Socket, NEW c \in Client, NEW user \in BOOLEAN,
             OnRegisterClient(s, c, user)
      PROVE  PrimaryHasOutstanding'
  <2>1. idMap' = idMap /\ msgMap' = msgMap /\ sent' = sent
    BY <1>7 DEF OnRegisterClient, AdmitClient, AddClient, registry, qos
  <2> QED BY <2>1, OutstandingFrame
<1>8. ASSUME NEW s \in Socket, NEW i \in Server, NEW x \in Info, OnRegisterMonitorAsync(s, i, x)
      PROVE  PrimaryHasOutstanding'
  BY <1>8 DEF OnRegisterMonitorAsync
<1>9. ASSUME NEW s \in Socket, NEW c \in Client, OnRegisterClientAsync(s, c)
      PROVE  PrimaryHasOutstanding'
  BY <1>9 DEF OnRegisterClientAsync
<1>10. ASSUME NEW s \in Socket, NEW ok \in BOOLEAN, AuthServerDone(s, ok) \/ AuthUserDone(s, ok)
       PROVE  PrimaryHasOutstanding'
  BY <1>10 DEF AuthServerDone, AuthUserDone, TypeInv, GreetedOK
<1>11. ASSUME Listen \/ Close \/ \E s \in Socket : Connection(s) PROVE PrimaryHasOutstanding'
  <2>1. idMap' = idMap /\ msgMap' = msgMap /\ sent' = sent
    BY <1>11 DEF Listen, Close, Connection, registry, qos
  <2> QED BY <2>1, OutstandingFrame
<1> QED
  BY <1>1, <1>2, <1>3, <1>4, <1>5, <1>6, <1>7, <1>8, <1>9, <1>10, <1>11, NextCases

(* For any number of servers, connections and requests: when authentication *)
(* answers at once, the primary of a server has been sent every request the *)
(* callback of which is owed, however often the server came and went.       *)
THEOREM OutstandingReachesPrimary ==
  ASSUME NoInfo \notin Info, ~AsyncAuth PROVE Spec => []PrimaryHasOutstanding
<1>1. Init => PrimaryHasOutstanding
  BY DEF Init, PrimaryHasOutstanding, HasPrimary
<1>2. TypeInv /\ PrimaryHasOutstanding /\ [Next]_vars => PrimaryHasOutstanding'
  <2>1. ASSUME TypeInv, PrimaryHasOutstanding, UNCHANGED vars PROVE PrimaryHasOutstanding'
    <3>1. idMap' = idMap /\ msgMap' = msgMap /\ sent' = sent
      BY <2>1 DEF vars, registry, qos
    <3> QED BY <2>1, <3>1, OutstandingFrame
  <2> QED BY <2>1, NextOutstanding
<1> QED BY <1>1, <1>2, TypeInvariant, PTL DEF Spec

-----------------------------------------------------------------------------
(* Records found by address *)

(* The connections MayGreetAs compares: they stand for a monitor, or will   *)
(* once authServer has answered.                                            *)
Speaks(s) == (msock[s].registered \/ s \in auth) /\ msock[s].type # TYPE_CLIENT

AddressesDiffer ==
  \A p, q \in Socket :
    p # q /\ Speaks(p) /\ Speaks(q) /\ msock[p].id = msock[q].id => msock[p].info # msock[q].info

Found(s, i) ==
  \/ HasPrimary(i) /\ idMap[i].socket = s
  \/ \E n \in DOMAIN slaveMap[i] : slaveMap[i][n].socket = s /\ slaveMap[i][n].info = msock[s].info

(* What makes RegisteredHasRecord inductive: a slave record also has the    *)
(* address of its connection, and no other connection of the id has it, so  *)
(* that a search by address removes the record of the connection that ends. *)
RecordInv ==
  /\ AddressesDiffer
  /\ \A s \in Socket, i \in Server : MonitorIs(s, i) => Found(s, i)

(* A splice leaves every element that was not looked for in the list.       *)
LEMMA SpliceKeepsOthers ==
  ASSUME NEW S, NEW list \in Seq(S), NEW hits \in SUBSET DOMAIN list,
         NEW k \in DOMAIN list, k \notin hits
  PROVE  \E n \in DOMAIN RemoveFirstOf(list, hits) : RemoveFirstOf(list, hits)[n] = list[k]
<1>1. DOMAIN list = 1 .. Len(list) /\ Len(list) \in Nat
  BY LenProperties
<1>2. CASE hits = {}
  BY <1>2 DEF RemoveFirstOf
<1>3. CASE hits # {}
  <2> DEFINE m == Min(hits)
             new == RemoveAt(list, m)
  <2>1. m \in DOMAIN list /\ m # k
    BY <1>1, <1>3, MinOfNaturals
  <2>2. /\ DOMAIN new = 1 .. Len(list) - 1
        /\ \A n \in 1 .. Len(list) - 1 : new[n] = IF n < m THEN list[n] ELSE list[n + 1]
    <3>1. new \in Seq(S) /\ Len(new) = Len(list) - 1
      BY <2>1, RemoveAtProperties
    <3> QED BY <2>1, <3>1, LenProperties, RemoveAtProperties
  <2>3. RemoveFirstOf(list, hits) = new
    BY <1>3 DEF RemoveFirstOf
  <2> HIDE DEF m, new
  <2>4. CASE k < m
    <3>1. k \in 1 .. Len(list) - 1
      BY <1>1, <2>1, <2>4
    <3> QED BY <2>2, <2>3, <2>4, <3>1
  <2>5. CASE ~ (k < m)
    <3>1. k - 1 \in 1 .. Len(list) - 1 /\ ~ (k - 1 < m) /\ (k - 1) + 1 = k
      BY <1>1, <2>1, <2>5
    <3> QED BY <2>2, <2>3, <3>1
  <2> QED BY <2>4, <2>5
<1> QED BY <1>2, <1>3

(* A step of one connection keeps addresses different if that connection,   *)
(* when it stands for a monitor afterwards, has an address of its own.      *)
LEMMA AddressesFrame ==
  ASSUME AddressesDiffer, NEW s \in Socket,
         \A p \in Socket \ {s} : msock'[p] = msock[p],
         auth' \subseteq auth \cup {s},
         Speaks(s)' => \A p \in Socket \ {s} :
           Speaks(p) /\ msock[p].id = msock'[s].id => msock[p].info # msock'[s].info
  PROVE  AddressesDiffer'
<1>1. \A p \in Socket \ {s} : Speaks(p)' => Speaks(p)
  BY DEF Speaks
<1> SUFFICES ASSUME NEW p \in Socket, NEW q \in Socket, p # q, Speaks(p)', Speaks(q)',
                    msock'[p].id = msock'[q].id
             PROVE  msock'[p].info # msock'[q].info
  BY DEF AddressesDiffer
<1>2. CASE p = s
  BY <1>1, <1>2
<1>3. CASE q = s
  BY <1>1, <1>3
<1>4. CASE p # s /\ q # s
  BY <1>1, <1>4 DEF AddressesDiffer
<1> QED BY <1>2, <1>3, <1>4

(* RecordInv only looks at these variables.                                 *)
LEMMA RecordFrame ==
  ASSUME RecordInv, UNCHANGED <<idMap, slaveMap, msock, auth>>
  PROVE  RecordInv'
BY DEF RecordInv, AddressesDiffer, Speaks, MonitorIs, Found, HasPrimary

(* A step that leaves the records alone and a connection unregistered.      *)
LEMMA RecordUnregistered ==
  ASSUME RecordInv, NEW s \in Socket, AddressesDiffer',
         \A p \in Socket \ {s} : msock'[p] = msock[p],
         \A i \in Server : ~MonitorIs(s, i)',
         UNCHANGED <<idMap, slaveMap>>
  PROVE  RecordInv'
<1> SUFFICES ASSUME NEW p \in Socket, NEW i \in Server, MonitorIs(p, i)'
             PROVE  Found(p, i)'
  BY DEF RecordInv
<1>1. msock'[p] = msock[p]
  OBVIOUS
<1>2. Found(p, i)
  BY <1>1 DEF RecordInv, MonitorIs
<1> QED BY <1>1, <1>2 DEF Found, HasPrimary

(* addConnection of a monitor that is registered with an address of its own.*)
LEMMA AddKeepsRecords ==
  ASSUME TypeInv, RecordInv, NEW s \in Socket, ~msock[s].registered,
         \A p \in Socket \ {s} : msock'[p] = msock[p],
         auth' \subseteq auth,
         NEW i \in Server, NEW x \in Info, AddMonitor(i, x, s),
         msock'[s] = [id |-> i, type |-> TypeOf[i], info |-> x, registered |-> TRUE],
         \A p \in Socket \ {s} : Speaks(p) /\ msock[p].id = i => msock[p].info # x
  PROVE  RecordInv'
<1> DEFINE record == [id |-> i, type |-> TypeOf[i], info |-> x, socket |-> s]
<1>1. AddressesDiffer'
  BY AddressesFrame DEF RecordInv
<1>2. record \in Record /\ record # NoRecord
  BY TypeOfAssumption, NoneAssumption DEF Record, NoRecord
<1> SUFFICES ASSUME NEW p \in Socket, NEW j \in Server, MonitorIs(p, j)'
             PROVE  Found(p, j)'
  BY <1>1 DEF RecordInv
<1>3. CASE ~HasPrimary(i)
  <2>1. /\ \A k \in Server : idMap'[k] = IF k = i THEN record ELSE idMap[k]
        /\ slaveMap' = slaveMap
    BY <1>3 DEF AddMonitor, TypeInv, TypeOK, RegistryTypeOK
  <2>2. CASE p = s
    <3>1. j = i
      BY <2>2 DEF MonitorIs
    <3> QED BY <1>2, <2>1, <2>2, <3>1 DEF Found, HasPrimary
  <2>3. CASE p # s
    <3>1. msock'[p] = msock[p]
      BY <2>3
    <3>2. Found(p, j)
      BY <3>1 DEF RecordInv, MonitorIs
    <3>3. HasPrimary(j) => idMap'[j] = idMap[j]
      BY <1>3, <2>1
    <3> QED BY <2>1, <3>1, <3>2, <3>3 DEF Found, HasPrimary
  <2> QED BY <2>2, <2>3
<1>4. CASE HasPrimary(i)
  <2>1. /\ idMap' = idMap
        /\ \A k \in Server : slaveMap'[k] = IF k = i THEN Append(slaveMap[i], record)
                                                   ELSE slaveMap[k]
    BY <1>4 DEF AddMonitor, TypeInv, TypeOK, RegistryTypeOK
  <2>2. /\ slaveMap[i] \in Seq(Record)
        /\ DOMAIN slaveMap[i] = 1 .. Len(slaveMap[i]) /\ Len(slaveMap[i]) \in Nat
    BY LenProperties DEF TypeInv, TypeOK, RegistryTypeOK
  <2>3. /\ DOMAIN Append(slaveMap[i], record) = 1 .. Len(slaveMap[i]) + 1
        /\ \A n \in 1 .. Len(slaveMap[i]) : Append(slaveMap[i], record)[n] = slaveMap[i][n]
        /\ Append(slaveMap[i], record)[Len(slaveMap[i]) + 1] = record
    BY <1>2, <2>2, AppendProperties, LenProperties
  <2>4. CASE p = s
    <3>1. j = i
      BY <2>4 DEF MonitorIs
    <3>2. slaveMap'[i] = Append(slaveMap[i], record)
      BY <2>1
    <3>3. Len(slaveMap[i]) + 1 \in DOMAIN slaveMap'[i]
      <4>1. Len(slaveMap[i]) + 1 \in DOMAIN Append(slaveMap[i], record)
        BY <2>2, <2>3
      <4> QED BY <3>2, <4>1
    <3>4. slaveMap'[i][Len(slaveMap[i]) + 1] = record
      BY <2>1, <2>3
    <3> QED BY <2>4, <3>1, <3>3, <3>4 DEF Found
  <2>5. CASE p # s
    <3>1. msock'[p] = msock[p]
      BY <2>5
    <3>2. Found(p, j)
      BY <3>1 DEF RecordInv, MonitorIs
    <3>3. \A n \in DOMAIN slaveMap[j] : n \in DOMAIN slaveMap'[j] /\ slaveMap'[j][n] = slaveMap[j][n]
      <4>1. CASE j = i
        <5>1. slaveMap'[j] = Append(slaveMap[i], record)
          BY <2>1, <4>1
        <5>2. \A n \in DOMAIN slaveMap[i] :
                /\ n \in DOMAIN Append(slaveMap[i], record)
                /\ Append(slaveMap[i], record)[n] = slaveMap[i][n]
          BY <2>2, <2>3
        <5> QED BY <4>1, <5>1, <5>2
      <4>2. CASE j # i
        <5>1. slaveMap'[j] = slaveMap[j]
          BY <2>1, <4>2
        <5> QED BY <5>1
      <4> QED BY <4>1, <4>2
    <3> QED BY <2>1, <3>1, <3>2, <3>3 DEF Found, HasPrimary
  <2> QED BY <2>4, <2>5
<1> QED BY <1>3, <1>4

(* The end of a connection. A primary with its address is its own, because  *)
(* primaries are registered with the address of their record; and a slave   *)
(* record with its address cannot be that of another registered connection. *)
LEMMA DisconnectKeepsRecords ==
  ASSUME TypeInv, PrimaryInv, RecordInv, NEW s \in Socket, OnDisconnect(s)
  PROVE  RecordInv'
<1> DEFINE m == msock[s]
           client == m.type = TYPE_CLIENT
           forget == m.registered /\ (client \/ ~RemoveThrows(m.id, m.info))
<1>1. CASE ~forget
  BY <1>1, RecordFrame DEF OnDisconnect, registry
<1>2. CASE forget
  <2>1. /\ IF client THEN RemoveClient(m.id) ELSE RemoveMonitor(m.id, m.type, m.info)
        /\ msock' = [msock EXCEPT ![s] = [id |-> None, type |-> None, info |-> m.info,
                                          registered |-> FALSE]]
        /\ auth' = auth
    BY <1>2 DEF OnDisconnect, Greeted
  <2>2. /\ \A p \in Socket \ {s} : msock'[p] = msock[p]
        /\ ~msock'[s].registered /\ s \notin auth
    BY <1>2, <2>1 DEF TypeInv, TypeOK, LinksTypeOK, GreetedOK
  <2>3. AddressesDiffer'
    BY <2>1, <2>2, AddressesFrame DEF RecordInv, Speaks
  <2>4. \A i \in Server : ~MonitorIs(s, i)'
    BY <2>2 DEF MonitorIs
  <2>5. CASE UNCHANGED <<idMap, slaveMap>>
    BY <2>2, <2>3, <2>4, <2>5, RecordUnregistered
  <2>6. CASE ~client
    <3>1. m.id \in Server /\ m.type = TypeOf[m.id] /\ MonitorIs(s, m.id)
      BY <1>2, <2>6 DEF TypeInv, GreetedOK, Identity, MonitorIs
    <3>2. RemoveMonitor(m.id, m.type, m.info)
      BY <2>1, <2>6
    <3> SUFFICES ASSUME NEW p \in Socket, NEW i \in Server, MonitorIs(p, i)'
                 PROVE  Found(p, i)'
      BY <2>3 DEF RecordInv
    <3>3. p # s /\ msock'[p] = msock[p] /\ MonitorIs(p, i) /\ Found(p, i)
      BY <2>2, <2>4 DEF RecordInv, MonitorIs
    <3>4. i = m.id => msock[p].info # m.info
      <4>1. Speaks(s) /\ Speaks(p)
        BY <1>2, <2>6, <3>3 DEF Speaks, MonitorIs
      <4> QED BY <3>3, <4>1 DEF RecordInv, AddressesDiffer, MonitorIs
    <3>5. CASE HasPrimary(m.id) /\ idMap[m.id].info = m.info
      <4>1. idMap' = [idMap EXCEPT ![m.id] = NoRecord] /\ slaveMap' = slaveMap
        BY <3>2, <3>5 DEF RemoveMonitor
      <4>2. \A j \in Server : j # m.id => idMap'[j] = idMap[j]
        BY <4>1 DEF TypeInv, TypeOK, RegistryTypeOK
      <4>3. HasPrimary(i) /\ idMap[i].socket = p => i # m.id
        BY <3>4, <3>5 DEF PrimaryInv, PrimaryIsRegistered
      <4> QED BY <3>3, <4>1, <4>2, <4>3 DEF Found, HasPrimary
    <3>6. CASE HasPrimary(m.id) /\ idMap[m.id].info # m.info
      <4> DEFINE hits == {n \in DOMAIN slaveMap[m.id] : slaveMap[m.id][n].info = m.info}
      <4>1. /\ idMap' = idMap
            /\ slaveMap' = [slaveMap EXCEPT ![m.id] = RemoveFirstOf(@, hits)]
        BY <3>2, <3>6 DEF RemoveMonitor
      <4>2. \A j \in Server : slaveMap'[j] = IF j = m.id THEN RemoveFirstOf(slaveMap[j], hits)
                                                         ELSE slaveMap[j]
        BY <4>1 DEF TypeInv, TypeOK, RegistryTypeOK
      <4>3. CASE HasPrimary(i) /\ idMap[i].socket = p
        BY <4>1, <4>3 DEF Found, HasPrimary
      <4>4. CASE i # m.id
        BY <3>3, <4>1, <4>2, <4>4 DEF Found, HasPrimary
      <4>5. CASE i = m.id /\ \E n \in DOMAIN slaveMap[i] :
                   slaveMap[i][n].socket = p /\ slaveMap[i][n].info = msock[p].info
        <5>1. PICK k \in DOMAIN slaveMap[i] :
                slaveMap[i][k].socket = p /\ slaveMap[i][k].info = msock[p].info
          BY <4>5
        <5>2. k \notin hits /\ hits \in SUBSET DOMAIN slaveMap[i]
          BY <3>4, <4>5, <5>1
        <5>3. slaveMap[i] \in Seq(Record)
          BY DEF TypeInv, TypeOK, RegistryTypeOK
        <5> HIDE DEF hits
        <5>4. \E n \in DOMAIN RemoveFirstOf(slaveMap[i], hits) :
                RemoveFirstOf(slaveMap[i], hits)[n] = slaveMap[i][k]
          BY <5>2, <5>3, SpliceKeepsOthers
        <5> QED BY <3>3, <4>2, <4>5, <5>1, <5>4 DEF Found
      <4> QED BY <3>3, <4>3, <4>4, <4>5 DEF Found
    <3>7. CASE ~HasPrimary(m.id)
      BY <2>2, <2>3, <2>4, <3>2, <3>3, <3>7, RecordUnregistered DEF RemoveMonitor, RecordInv
    <3> QED BY <3>5, <3>6, <3>7
  <2>7. CASE client
    BY <2>1, <2>5, <2>7 DEF RemoveClient
  <2> QED BY <2>6, <2>7
<1> QED BY <1>1, <1>2

(* Every step keeps the registered monitors findable.                       *)
LEMMA NextRecords ==
  ASSUME NoOverlap, NoInfo \notin Info, TypeInv, PrimaryInv, RecordInv, Next
  PROVE  RecordInv'
<1> DEFINE Alone(s, i, x) ==
             \A p \in Socket \ {s} : Speaks(p) /\ msock[p].id = i => msock[p].info # x
<1>1. ASSUME NEW s \in Socket, DisconnectPacket(s) \/ StreamClose(s) PROVE RecordInv'
  BY <1>1, DisconnectKeepsRecords DEF DisconnectPacket, StreamClose
<1>2. ASSUME NEW s \in Socket, NEW i \in Server, NEW x \in Info, MayGreetAs(s, i, x)
      PROVE  Alone(s, i, x)
  BY <1>2 DEF MayGreetAs, Speaks
<1>3. ASSUME NEW s \in Socket, NEW i \in Server, NEW x \in Info, NEW ok \in BOOLEAN,
             OnRegisterMonitor(s, i, x, ok)
      PROVE  RecordInv'
  <2>1. /\ ~msock[s].registered /\ \A p \in Socket \ {s} : msock'[p] = msock[p]
        /\ msock'[s] = [id |-> i, type |-> TypeOf[i], info |-> x, registered |-> ok]
        /\ auth' = auth /\ s \notin auth
    BY <1>3 DEF OnRegisterMonitor, MayGreetAs, MayGreet, Greeted, TypeInv, TypeOK, LinksTypeOK
  <2>2. Alone(s, i, x)
    BY <1>2, <1>3 DEF OnRegisterMonitor
  <2>3. CASE ok
    BY <1>3, <2>1, <2>2, <2>3, AddKeepsRecords DEF OnRegisterMonitor
  <2>4. CASE ~ok
    <3>1. UNCHANGED <<idMap, slaveMap>>
      BY <1>3, <2>4 DEF OnRegisterMonitor, registry
    <3>2. AddressesDiffer'
      BY <2>1, <2>4, AddressesFrame DEF RecordInv, Speaks
    <3> QED BY <2>1, <2>4, <3>1, <3>2, RecordUnregistered DEF MonitorIs
  <2> QED BY <2>3, <2>4
<1>4. ASSUME NEW s \in Socket, NEW i \in Server, NEW x \in Info,
             OnRegisterMonitorAsync(s, i, x)
      PROVE  RecordInv'
  <2>1. /\ \A p \in Socket \ {s} : msock'[p] = msock[p]
        /\ msock'[s] = [id |-> i, type |-> TypeOf[i], info |-> x, registered |-> FALSE]
        /\ auth' = auth \cup {s} /\ UNCHANGED <<idMap, slaveMap>>
    BY <1>4 DEF OnRegisterMonitorAsync, Greeted, registry, TypeInv, TypeOK, LinksTypeOK
  <2>2. Alone(s, i, x)
    BY <1>2, <1>4 DEF OnRegisterMonitorAsync
  <2>3. AddressesDiffer'
    BY <2>1, <2>2, AddressesFrame DEF RecordInv
  <2> QED BY <2>1, <2>3, RecordUnregistered DEF MonitorIs
<1>5. ASSUME NEW s \in Socket, NEW i \in Server, NEW x \in Info, OnReconnect(s, i, x)
      PROVE  RecordInv'
  <2>1. x # NoInfo
    OBVIOUS
  <2>2. /\ ~msock[s].registered /\ \A p \in Socket \ {s} : msock'[p] = msock[p]
        /\ msock'[s] = [id |-> i, type |-> TypeOf[i], info |-> x, registered |-> TRUE]
        /\ auth' = auth
    BY <1>5, <2>1 DEF OnReconnect, MayGreetAs, MayGreet, Greeted, TypeInv, TypeOK, LinksTypeOK
  <2>3. Alone(s, i, x)
    BY <1>2, <1>5 DEF OnReconnect
  <2> QED BY <1>5, <2>2, <2>3, AddKeepsRecords DEF OnReconnect
<1>6. ASSUME NEW s \in Socket, NEW ok \in BOOLEAN, AuthServerDone(s, ok) PROVE RecordInv'
  <2>1. /\ ~msock[s].registered /\ msock[s].id \in Server /\ msock[s].info \in Info
        /\ msock[s].type = TypeOf[msock[s].id] /\ Speaks(s)
        /\ auth' = auth \ {s}
    BY <1>6 DEF AuthServerDone, Speaks, TypeInv, GreetedOK, Identity
  <2>2. Alone(s, msock[s].id, msock[s].info)
    BY <2>1 DEF RecordInv, AddressesDiffer
  <2>3. CASE ok
    <3>1. /\ AddMonitor(msock[s].id, msock[s].info, s)
          /\ msock' = [msock EXCEPT ![s].registered = TRUE]
      BY <1>6, <2>3 DEF AuthServerDone
    <3>2. /\ \A p \in Socket \ {s} : msock'[p] = msock[p]
          /\ msock'[s] = [id |-> msock[s].id, type |-> TypeOf[msock[s].id],
                          info |-> msock[s].info, registered |-> TRUE]
      BY <2>1, <3>1 DEF TypeInv, TypeOK, LinksTypeOK
    <3> QED BY <2>1, <2>2, <3>1, <3>2, AddKeepsRecords
  <2>4. CASE ~ok
    <3>1. UNCHANGED <<idMap, slaveMap, msock>>
      BY <1>6, <2>4 DEF AuthServerDone, registry
    <3>2. AddressesDiffer'
      BY <2>1, <3>1, AddressesFrame DEF RecordInv, Speaks
    <3> QED BY <2>1, <3>1, <3>2, RecordUnregistered DEF MonitorIs
  <2> QED BY <2>3, <2>4
<1>7. ASSUME NEW s \in Socket, NEW c \in Client,
             OnRegisterClientAsync(s, c) \/ \E user \in BOOLEAN : OnRegisterClient(s, c, user)
      PROVE  RecordInv'
  <2>1. /\ \A p \in Socket \ {s} : msock'[p] = msock[p]
        /\ msock'[s].type = TYPE_CLIENT
        /\ auth' \subseteq auth \cup {s} /\ UNCHANGED <<idMap, slaveMap>>
    BY <1>7 DEF OnRegisterClientAsync, OnRegisterClient, AdmitClient, AddClient, Greeted,
       registry, TypeInv, TypeOK, LinksTypeOK
  <2>2. AddressesDiffer'
    BY <2>1, AddressesFrame DEF RecordInv, Speaks
  <2> QED BY <2>1, <2>2, RecordUnregistered DEF MonitorIs
<1>8. ASSUME NEW s \in Socket, NEW user \in BOOLEAN, AuthUserDone(s, user) PROVE RecordInv'
  <2>1. /\ \A p \in Socket \ {s} : msock'[p] = msock[p]
        /\ msock'[s].type = TYPE_CLIENT
        /\ auth' \subseteq auth \cup {s} /\ UNCHANGED <<idMap, slaveMap>>
    BY <1>8 DEF AuthUserDone, AdmitClient, AddClient, registry, TypeInv, TypeOK, LinksTypeOK
  <2>2. AddressesDiffer'
    BY <2>1, AddressesFrame DEF RecordInv, Speaks
  <2> QED BY <2>1, <2>2, RecordUnregistered DEF MonitorIs
<1>9. ASSUME NEW s \in Socket, NEW r \in Req, OnMonitorResponse(s, r) PROVE RecordInv'
  BY <1>9, RecordFrame DEF OnMonitorResponse, registry, links
<1>10. ASSUME NEW i \in Server, Request(i) \/ \E x \in Info : RequestServer(i, x)
       PROVE  RecordInv'
  BY <1>10, RecordFrame DEF Request, RequestServer, registry, links
<1>11. ASSUME Listen \/ Close \/ \E s \in Socket : Connection(s) PROVE RecordInv'
  BY <1>11, RecordFrame DEF Listen, Close, Connection, registry, links
<1> QED
  BY <1>1, <1>3, <1>4, <1>5, <1>6, <1>7, <1>8, <1>9, <1>10, <1>11, NextCases

(* While the connections that speak for one id have different addresses,    *)
(* and report them, every registered monitor can be found: no order of      *)
(* registrations, takeovers, late verdicts and disconnects makes the end of *)
(* one connection remove the record of another. Dead records that stay in   *)
(* slaveMap do no harm here.                                                *)
THEOREM RegisteredAreRecorded ==
  ASSUME NoOverlap, NoInfo \notin Info PROVE Spec => []RegisteredHasRecord
<1>1. Init => RecordInv
  BY DEF Init, RecordInv, AddressesDiffer, Speaks, MonitorIs, FreshSocket
<1>2. TypeInv /\ PrimaryInv /\ RecordInv /\ [Next]_vars => RecordInv'
  BY NextRecords, RecordFrame DEF vars, registry, links
<1>3. RecordInv => RegisteredHasRecord
  BY DEF RecordInv, RegisteredHasRecord, Found
<1> QED BY <1>1, <1>2, <1>3, TypeInvariant, PrimariesInvariant, PTL DEF Spec

=============================================================================
