--------------------------- MODULE AdminSessionProofs ---------------------------
(***************************************************************************)
(* Proofs about AdminSession, for any number of streams, cuts, questions   *)
(* and calls of a handler's callback.                                      *)
(***************************************************************************)
EXTENDS AdminSession, MqttClientProofs, SequenceTheorems

(* The disjuncts of SessionNext, for proofs that take one case each.        *)
LEMMA SessionCases ==
  ASSUME SessionNext, NEW P,
         MasterListen => P, ClientSteps => P,
         ASSUME NEW s \in Stream, MasterAccepts(s) PROVE P,
         ASSUME NEW s \in Stream, MasterOnRegister(s) PROVE P,
         ASSUME NEW s \in Stream, MasterOnClient(s) PROVE P,
         ASSUME NEW s \in Stream, MasterSeesEnd(s) PROVE P,
         ASSUME NEW s \in Stream, ClientHandles(s) PROVE P,
         ASSUME NEW s \in Stream, ClientSeesEnd(s) \/ ClientPonged(s) PROVE P,
         ASSUME NEW s \in Stream, Cut(s) PROVE P,
         ASSUME NEW s \in Stream, LosesWrite(s) PROVE P,
         ASSUME NEW q \in Ask, HandlerCalls(q) PROVE P
  PROVE  P
BY DEF SessionNext, MasterHandles

-----------------------------------------------------------------------------
(* What the master sends *)

Packet == [topic : {"connack", "register", "client", "disconnect"}, id : Nat]
Packets == down \in [Stream -> Seq(Packet)]

(* What the master writes to the client are packets.                        *)
LEMMA ReplyType ==
  ASSUME Packets, NEW s, NEW ms \in Seq(Packet), Reply(s, ms)
  PROVE  Packets'
<1>1. \A t \in Stream : down[t] \o ms \in Seq(Packet)
  BY ConcatProperties DEF Packets
<1> QED BY <1>1 DEF Reply, Packets

(* A reply of one message.                                                  *)
LEMMA MsgType ==
  ASSUME NEW t \in {"connack", "register", "client", "disconnect"}, NEW n \in Nat
  PROVE  <<Msg(t, n)>> \in Seq(Packet)
<1>1. Msg(t, n) \in Packet
  BY DEF Msg, Packet
<1> QED BY <1>1

(* Every step leaves packets on the way to the client.                      *)
LEMMA NextPackets == ASSUME Packets, [SessionNext]_sessionVars PROVE Packets'
<1>1. UNCHANGED sessionVars => Packets'
  BY DEF sessionVars, Packets
<1>2. MasterListen \/ ClientSteps => Packets'
  BY DEF MasterListen, ClientSteps, Packets
<1>3. ASSUME NEW s \in Stream, MasterAccepts(s) PROVE Packets'
  BY <1>3, MsgType, ReplyType DEF MasterAccepts
<1>4. ASSUME NEW s \in Stream, MasterOnRegister(s) PROVE Packets'
  <2>1. \E ms \in {<<Msg("register", 1)>>, <<Msg("register", 0), Msg("disconnect", 0)>>} : Reply(s, ms)
    BY <1>4 DEF MasterOnRegister, Verdict
  <2>2. Msg("register", 0) \in Packet /\ Msg("disconnect", 0) \in Packet
    BY DEF Msg, Packet
  <2>3. <<Msg("register", 0), Msg("disconnect", 0)>> \in Seq(Packet)
    BY <2>2
  <2> QED BY <2>1, <2>3, MsgType, ReplyType
<1>5. ASSUME NEW s \in Stream, MasterOnClient(s) PROVE Packets'
  <2>1. down' = down \/ Reply(s, <<Msg("disconnect", 0)>>)
    BY <1>5 DEF MasterOnClient, Kick
  <2> QED BY <2>1, MsgType, ReplyType DEF Packets
<1>6. ASSUME NEW s \in Stream, MasterSeesEnd(s) PROVE Packets'
  BY <1>6 DEF MasterSeesEnd, Packets
<1>7. ASSUME NEW s \in Stream, ClientHandles(s) PROVE Packets'
  <2>1. down[s] # <<>> /\ down' = [down EXCEPT ![s] = Tail(@)]
    BY <1>7 DEF ClientHandles
  <2>2. Tail(down[s]) \in Seq(Packet)
    BY <2>1, HeadTailProperties DEF Packets
  <2> QED BY <2>1, <2>2 DEF Packets
<1>8. ASSUME NEW s \in Stream, ClientSeesEnd(s) \/ ClientPonged(s) PROVE Packets'
  BY <1>8 DEF ClientSeesEnd, ClientPonged, Packets
<1>9. ASSUME NEW s \in Stream, Cut(s) PROVE Packets'
  BY <1>9, EmptySeq DEF Cut, Packets
<1>10. ASSUME NEW s \in Stream, LosesWrite(s) PROVE Packets'
  BY <1>10 DEF LosesWrite, Packets
<1>11. ASSUME NEW q \in Ask, HandlerCalls(q) PROVE Packets'
  <2>1. q \in Nat /\ Reply(written[q], <<Msg("client", q)>>)
    BY <1>11 DEF HandlerCalls, Ask
  <2> QED BY <2>1, MsgType, ReplyType
<1> QED
  BY <1>1, <1>2, <1>3, <1>4, <1>5, <1>6, <1>7, <1>8, <1>9, <1>10, <1>11, SessionCases

(* What one packet of the master does at the client.                        *)
LEMMA HandlesCases ==
  ASSUME Packets, NEW s \in Stream, ClientHandles(s)
  PROVE  \/ ClientConnack(s)
         \/ \E ok : OnRegister(s, ok)
         \/ \E q : OnClient(s, q)
         \/ ClientDisconnectPacket(s)
<1>1. Head(down[s]).topic \in {"connack", "register", "client", "disconnect"}
  <2>1. down[s] \in Seq(Packet) /\ down[s] # <<>>
    BY DEF ClientHandles, Packets
  <2>2. Head(down[s]) \in Packet
    BY <2>1, HeadTailProperties
  <2> QED BY <2>2 DEF Packet
<1>2. CASE Head(down[s]).topic = "connack"
  BY <1>2 DEF ClientHandles
<1>3. CASE Head(down[s]).topic = "register"
  BY <1>3 DEF ClientHandles
<1>4. CASE Head(down[s]).topic = "client"
  BY <1>4 DEF ClientHandles
<1>5. CASE Head(down[s]).topic = "disconnect"
  BY <1>5 DEF ClientHandles
<1> QED BY <1>1, <1>2, <1>3, <1>4, <1>5

-----------------------------------------------------------------------------
(* The client *)

(* The client's MqttClient does in the session what MqttClient says.        *)
LEMMA StepsClient == ASSUME Packets, [SessionNext]_sessionVars PROVE [ClientNext]_clientVars
<1> DEFINE P == [ClientNext]_clientVars
<1>1. UNCHANGED sessionVars => P
  BY DEF sessionVars, vars
<1>2. MasterListen => P
  BY DEF MasterListen, vars
<1>3. ClientSteps => P
  BY DEF ClientSteps, ClientConnect, ClientAsk, ClientAlone, ClientKeepAliveTimeout, ClientNext
<1>4. ASSUME NEW s \in Stream, MasterAccepts(s) \/ MasterSeesEnd(s) PROVE P
  BY <1>4 DEF MasterAccepts, MasterSeesEnd, vars
<1>5. ASSUME NEW s \in Stream, MasterOnRegister(s) \/ MasterOnClient(s) PROVE P
  BY <1>5 DEF MasterOnRegister, MasterOnClient, Arrives, Carry
<1>6. ASSUME NEW s \in Stream, ClientHandles(s) PROVE P
  BY <1>6, HandlesCases
     DEF ClientConnack, OnRegister, OnClient, Receives, ClientDisconnectPacket, ClientNext
<1>7. ASSUME NEW s \in Stream, ClientSeesEnd(s) \/ ClientPonged(s) PROVE P
  BY <1>7 DEF ClientSeesEnd, ClientPonged, ClientNext
<1>8. ASSUME NEW s \in Stream, Cut(s) \/ LosesWrite(s) PROVE P
  BY <1>8 DEF Cut, LosesWrite, Carry
<1>9. ASSUME NEW q \in Ask, HandlerCalls(q) PROVE P
  BY <1>9 DEF HandlerCalls, vars
<1> HIDE DEF P
<1>10. P
  BY <1>1, <1>2, <1>3, <1>4, <1>5, <1>6, <1>7, <1>8, <1>9, SessionCases
<1> QED BY <1>10 DEF P

(* Packets holds in every reachable state.                                  *)
LEMMA PacketsInvariant == Spec => []Packets
<1>1. SessionInit => Packets
  BY EmptySeq DEF SessionInit, Packets
<1> QED BY <1>1, NextPackets, PTL DEF Spec

(* The admin client's behaviours are behaviours of its MqttClient: what is  *)
(* proved of that holds of the admin client too.                            *)
THEOREM SessionImplementsClient == Spec => ClientSpec
<1>1. SessionInit => ClientInit
  BY DEF SessionInit, Init
<1> QED BY <1>1, StepsClient, PacketsInvariant, PTL DEF Spec, ClientSpec

-----------------------------------------------------------------------------
(* Callbacks *)

(* Ids are given in order, and every callback that is kept has one.         *)
Asked ==
  /\ askId \in 1 .. MaxAsk + 1
  /\ asking \subseteq 1 .. askId - 1
  /\ called \in [Ask -> Nat]

(* A request of the client gets an id that was not used.                    *)
LEMMA AskKeeps == ASSUME Asked, CallbackIsOwedOrCalled, ClientAsk PROVE Asked' /\ CallbackIsOwedOrCalled'
<1>1. askId \in 1 .. MaxAsk /\ askId' = askId + 1 /\ asking' = asking \cup {askId} /\ called' = called
  BY DEF ClientAsk, Ask
<1>2. Asked'
  BY <1>1, MaxAskAssumption DEF Asked
<1>3. ASSUME NEW q \in Ask PROVE q < askId' /\ q \notin asking' <=> q < askId /\ q \notin asking
  BY <1>1, MaxAskAssumption DEF Ask, Asked
<1> QED BY <1>1, <1>2, <1>3 DEF CallbackIsOwedOrCalled

(* An answer of the master calls its callback once.                         *)
LEMMA OnClientKeeps ==
  ASSUME Asked, CallbackIsOwedOrCalled, NEW s, NEW r, OnClient(s, r)
  PROVE  Asked' /\ CallbackIsOwedOrCalled'
<1>1. /\ asking' = asking \ {r} /\ askId' = askId
      /\ called' = [called EXCEPT ![r] = IF r \in asking THEN @ + 1 ELSE @]
  BY DEF OnClient
<1>2. asking \subseteq Ask
  BY MaxAskAssumption DEF Asked, Ask
<1>3. Asked'
  <2>1. asking' \subseteq 1 .. askId' - 1 /\ askId' \in 1 .. MaxAsk + 1
    BY <1>1 DEF Asked
  <2>2. \A q \in Ask : (IF r \in asking THEN called[q] + 1 ELSE called[q]) \in Nat
    BY DEF Asked
  <2>3. called' \in [Ask -> Nat]
    <3>1. CASE r \in Ask
      BY <1>1, <2>2, <3>1 DEF Asked
    <3>2. CASE r \notin Ask
      BY <1>1, <3>2 DEF Asked
    <3> QED BY <3>1, <3>2
  <2> QED BY <2>1, <2>3 DEF Asked
<1>4. ASSUME NEW q \in Ask PROVE called'[q] = IF q < askId' /\ q \notin asking' THEN 1 ELSE 0
  <2>1. CASE q = r /\ r \in asking
    <3>1. called[q] = 0 /\ called'[q] = called[q] + 1
      BY <1>1, <2>1 DEF CallbackIsOwedOrCalled, Asked
    <3>2. q < askId' /\ q \notin asking'
      BY <1>1, <2>1, MaxAskAssumption DEF Asked
    <3> QED BY <3>1, <3>2
  <2>2. CASE ~(q = r /\ r \in asking)
    <3>1. called'[q] = called[q]
      BY <1>1, <2>2 DEF Asked
    <3>2. q \in asking' <=> q \in asking
      BY <1>1, <2>2
    <3> QED BY <1>1, <3>1, <3>2 DEF CallbackIsOwedOrCalled
  <2> QED BY <2>1, <2>2
<1> QED BY <1>3, <1>4 DEF CallbackIsOwedOrCalled

(* Only a question and an answer touch callbacks.                           *)
LEMMA OtherStepsKeep ==
  ASSUME Packets, [SessionNext]_sessionVars
  PROVE  ClientAsk \/ (\E s, q : OnClient(s, q)) \/ UNCHANGED <<askId, asking, called>>
<1> DEFINE P == ClientAsk \/ (\E s, q : OnClient(s, q)) \/ UNCHANGED <<askId, asking, called>>
<1>1. UNCHANGED sessionVars => P
  BY DEF sessionVars, vars, adminVars
<1>2. MasterListen => P
  BY DEF MasterListen, vars, adminVars
<1>3. ClientSteps => P
  BY DEF ClientSteps, ClientConnect, ClientAlone, ClientKeepAliveTimeout, adminVars
<1>4. ASSUME NEW s \in Stream, MasterAccepts(s) \/ MasterSeesEnd(s) PROVE P
  BY <1>4 DEF MasterAccepts, MasterSeesEnd, vars, adminVars
<1>5. ASSUME NEW s \in Stream, MasterOnRegister(s) \/ MasterOnClient(s) PROVE P
  BY <1>5 DEF MasterOnRegister, MasterOnClient, Arrives, Carry
<1>6. ASSUME NEW s \in Stream, ClientHandles(s) PROVE P
  BY <1>6, HandlesCases DEF ClientConnack, OnRegister, ClientDisconnectPacket, adminVars
<1>7. ASSUME NEW s \in Stream, ClientSeesEnd(s) \/ ClientPonged(s) PROVE P
  BY <1>7 DEF ClientSeesEnd, ClientPonged, adminVars
<1>8. ASSUME NEW s \in Stream, Cut(s) \/ LosesWrite(s) PROVE P
  BY <1>8 DEF Cut, LosesWrite, Carry
<1>9. ASSUME NEW q \in Ask, HandlerCalls(q) PROVE P
  BY <1>9 DEF HandlerCalls, vars, adminVars
<1> HIDE DEF P
<1>10. P
  BY <1>1, <1>2, <1>3, <1>4, <1>5, <1>6, <1>7, <1>8, <1>9, SessionCases
<1> QED BY <1>10 DEF P

(* However often handlers answer and streams are cut, a callback of the     *)
(* admin client is called once at most and is kept until then.              *)
THEOREM CallbacksAreCalledOnce == Spec => []CallbackIsOwedOrCalled
<1>1. SessionInit => Asked /\ CallbackIsOwedOrCalled
  <2> SUFFICES ASSUME SessionInit PROVE Asked /\ CallbackIsOwedOrCalled
    OBVIOUS
  <2>1. askId = 1 /\ asking = {} /\ called = [q \in Ask |-> 0]
    BY DEF SessionInit, Init
  <2>2. Asked
    BY <2>1, MaxAskAssumption DEF Asked
  <2>3. \A q \in Ask : ~(q < askId)
    BY <2>1 DEF Ask
  <2> QED BY <2>1, <2>2, <2>3 DEF CallbackIsOwedOrCalled
<1>2. Asked /\ CallbackIsOwedOrCalled /\ Packets /\ [SessionNext]_sessionVars
        => Asked' /\ CallbackIsOwedOrCalled'
  <2>1. Asked /\ CallbackIsOwedOrCalled /\ UNCHANGED <<askId, asking, called>>
          => Asked' /\ CallbackIsOwedOrCalled'
    BY DEF Asked, CallbackIsOwedOrCalled
  <2> QED BY <2>1, OtherStepsKeep, AskKeeps, OnClientKeeps
<1> QED BY <1>1, <1>2, PacketsInvariant, PTL DEF Spec
-----------------------------------------------------------------------------
(* The login *)

Admission == Msg("register", 1)

(* What may be under way on a stream, in both directions: the client greets *)
(* on its first stream only, and only there the master admits it.           *)
Sendable(s) == IF s = 1 THEN Message ELSE Message \ {Plain("register")}
Outbox == DOMAIN out = Stream /\ \A s \in Stream : out[s] \in Seq(Sendable(s))

NotAdmitted(s) == down[s] \in Seq(Packet \ {Admission})
OnFirstOnly ==
  /\ DOMAIN msock = Stream
  /\ \A s \in Stream \ {1} : msock[s] = M!FreshSocket /\ NotAdmitted(s)

(* The master holds the id for the first stream from the moment it says so, *)
(* until it sees the end of that stream.                                    *)
Held ==
  /\ clients \in [{Id} -> {None, 1}]
  /\ 1 \in Stream \ cut => clients[Id] = 1 \/ (login # "ok" /\ NotAdmitted(1))

LoginInv == Outbox /\ OnFirstOnly /\ Held

(* A write of the client; only on the first stream it may be a greeting.    *)
LEMMA SendKeeps ==
  ASSUME Outbox, NEW m \in Message, Send(m), m = Plain("register") => socket' \in {0, 1}
  PROVE  Outbox'
<1>1. CASE socket' = 0 \/ socket' \notin Stream
  BY <1>1 DEF Send, Outbox
<1>2. CASE socket' # 0 /\ socket' \in Stream
  <2>1. m \in Sendable(socket')
    BY <1>2 DEF Sendable
  <2>2. Append(out[socket'], m) \in Seq(Sendable(socket'))
    BY <1>2, <2>1, AppendProperties DEF Outbox
  <2>3. out' = [out EXCEPT ![socket'] = Append(@, m)]
    BY <1>2 DEF Send
  <2>4. \A s \in Stream : out'[s] = IF s = socket' THEN Append(out[s], m) ELSE out[s]
    BY <2>3 DEF Outbox
  <2>5. DOMAIN out' = Stream
    BY <2>3 DEF Outbox
  <2>6. \A s \in Stream : Sendable(s)' = Sendable(s)
    BY DEF Sendable
  <2> QED BY <2>2, <2>4, <2>5, <2>6 DEF Outbox
<1> QED BY <1>1, <1>2

(* A message that leaves its stream leaves what may be sent there.          *)
LEMMA TakeKeeps ==
  ASSUME Outbox, NEW s \in Stream, out[s] # <<>>, out' = [out EXCEPT ![s] = Tail(@)]
  PROVE  Outbox'
<1>1. Tail(out[s]) \in Seq(Sendable(s))
  BY HeadTailProperties DEF Outbox
<1> QED BY <1>1 DEF Outbox, Sendable

(* What the master writes admits nobody, except the verdict.                *)
LEMMA ReplyAdmitsNobody ==
  ASSUME Packets, NEW s, NEW ms \in Seq(Packet \ {Admission}), Reply(s, ms),
         NEW t \in Stream, NotAdmitted(t)
  PROVE  NotAdmitted(t)'
<1>1. down[t] \o ms \in Seq(Packet \ {Admission})
  BY ConcatProperties DEF NotAdmitted
<1>2. down'[t] = down[t] \o ms \/ down'[t] = down[t]
  BY DEF Reply, Packets
<1> QED BY <1>1, <1>2 DEF NotAdmitted

(* A message other than the master's admission.                             *)
LEMMA MsgAdmitsNobody ==
  ASSUME NEW t \in {"connack", "register", "client", "disconnect"}, NEW n \in Nat,
         t # "register" \/ n # 1
  PROVE  <<Msg(t, n)>> \in Seq(Packet \ {Admission})
<1>1. Msg(t, n) \in Packet /\ Msg(t, n) # Admission
  BY DEF Msg, Packet, Admission
<1> QED BY <1>1

(* Steps that leave the master and the login alone and write no verdict.    *)
LEMMA LoginKept ==
  ASSUME Packets, LoginInv, Outbox', NEW s, NEW ms \in Seq(Packet \ {Admission}),
         Reply(s, ms) \/ down' = down,
         UNCHANGED <<msock, clients, cut, login>>
  PROVE  LoginInv'
<1>1. \A t \in Stream : NotAdmitted(t) => NotAdmitted(t)'
  BY ReplyAdmitsNobody DEF NotAdmitted
<1>2. OnFirstOnly'
  BY <1>1 DEF LoginInv, OnFirstOnly, M!FreshSocket
<1>3. Held'
  BY <1>1 DEF LoginInv, Held
<1> QED BY <1>2, <1>3 DEF LoginInv
(* Every step of the client keeps what is known of its login.               *)
LEMMA ClientStepsKeepLogin == ASSUME Packets, LoginInv, ClientSteps PROVE LoginInv'
<1>1. UNCHANGED <<msock, clients, cut, login, down>>
  BY DEF ClientSteps, masterVars, ClientConnect, ClientAsk, ClientAlone,
     ClientKeepAliveTimeout, adminVars
<1>2. Outbox'
  <2>1. CASE UNCHANGED out
    BY <2>1 DEF LoginInv, Outbox, Sendable
  <2>2. ASSUME NEW m \in Message \ {Plain("register")}, Send(m) PROVE Outbox'
    BY <2>2, SendKeeps DEF LoginInv
  <2>3. CASE ClientAsk
    <3>1. Send([topic |-> "client", id |-> askId]) /\ askId \in Ask
      BY <2>3 DEF ClientAsk
    <3>2. [topic |-> "client", id |-> askId] \in Message \ {Plain("register")}
      BY <3>1 DEF Message, Plain
    <3> QED BY <2>2, <3>1, <3>2
  <2>4. ASSUME NEW k \in intervals, ClientKeepAliveTimeout(k) PROVE Outbox'
    <3>1. Plain("disconnect") \in Message \ {Plain("register")}
      BY DEF Message, Plain
    <3> QED BY <2>2, <2>4, <3>1 DEF ClientKeepAliveTimeout
  <2> QED BY <2>1, <2>3, <2>4 DEF ClientSteps, ClientConnect, ClientAlone, adminVars
<1> QED BY <1>1, <1>2, EmptySeq, LoginKept

(* A greeting arrives on the first stream. When the id is free and the user *)
(* known, the id is taken as the admission is written.                      *)
LEMMA VerdictKeepsLogin ==
  ASSUME Packets, LoginInv, NEW s \in Stream, MasterOnRegister(s)
  PROVE  LoginInv'
<1>1. /\ s \notin cut /\ out[s] # <<>> /\ Head(out[s]).topic = "register"
      /\ out' = [out EXCEPT ![s] = Tail(@)]
      /\ UNCHANGED <<cut, login>>
  BY DEF MasterOnRegister, Arrives, Carry
<1>2. Outbox'
  BY <1>1, TakeKeeps DEF LoginInv
<1>3. s = 1
  <2>1. Head(out[s]) \in Sendable(s)
    BY <1>1, HeadTailProperties DEF LoginInv, Outbox
  <2> QED BY <1>1, <2>1 DEF Sendable, Message, Plain
<1>4. PICK user \in BOOLEAN : M!OnRegisterClient(s, Id, user) /\ Verdict(s, user)
  BY DEF MasterOnRegister
<1>5. /\ msock' = [msock EXCEPT ![s] = [M!Greeted(Id, M!TYPE_CLIENT, None, FALSE)
                                          EXCEPT !.registered = user /\ clients[Id] = None]]
      /\ IF user /\ clients[Id] = None THEN clients' = [clients EXCEPT ![Id] = s]
                                      ELSE clients' = clients
  BY <1>4 DEF M!OnRegisterClient, M!AdmitClient, M!AddClient, M!registry
<1>6. \A t \in Stream \ {1} : NotAdmitted(t) => NotAdmitted(t)'
  <2>1. \A t \in Stream \ {s} : down'[t] = down[t]
    BY <1>4 DEF Verdict, Reply, Packets
  <2> QED BY <1>3, <2>1 DEF NotAdmitted
<1>7. OnFirstOnly'
  BY <1>3, <1>5, <1>6 DEF LoginInv, OnFirstOnly, M!FreshSocket
<1>8. Held'
  <2>1. CASE user /\ clients[Id] = None
    BY <1>3, <1>5, <2>1 DEF LoginInv, Held
  <2>2. CASE ~(user /\ clients[Id] = None)
    <3>1. <<Msg("register", 0), Msg("disconnect", 0)>> \in Seq(Packet \ {Admission})
      <4>1. /\ Msg("register", 0) \in Packet \ {Admission}
            /\ Msg("disconnect", 0) \in Packet \ {Admission}
        BY DEF Msg, Packet, Admission
      <4> QED BY <4>1
    <3>2. Reply(s, <<Msg("register", 0), Msg("disconnect", 0)>>)
      BY <1>4, <2>2 DEF Verdict
    <3>3. NotAdmitted(s) => NotAdmitted(s)'
      BY <3>1, <3>2, ReplyAdmitsNobody
    <3> QED BY <1>1, <1>3, <1>5, <2>2, <3>3 DEF LoginInv, Held
  <2> QED BY <2>1, <2>2
<1> QED BY <1>2, <1>7, <1>8 DEF LoginInv

(* The master forgets a client only with the first stream, which is cut.    *)
LEMMA EndKeepsLogin ==
  ASSUME Packets, LoginInv, NEW s \in Stream, MasterSeesEnd(s)
  PROVE  LoginInv'
<1>1. /\ s \in cut /\ M!OnDisconnect(s) /\ UNCHANGED <<out, down, cut, login>>
  BY DEF MasterSeesEnd, M!StreamClose, vars, adminVars
<1>2. Outbox'
  BY <1>1 DEF LoginInv, Outbox, Sendable
<1>3. CASE s # 1
  <2>1. ~msock[s].registered
    BY <1>3 DEF LoginInv, OnFirstOnly, M!FreshSocket
  <2>2. UNCHANGED <<msock, clients>>
    BY <1>1, <2>1 DEF M!OnDisconnect, M!registry
  <2> QED BY <1>1, <1>2, <2>2, EmptySeq, LoginKept
<1>4. CASE s = 1
  <2>1. msock' = msock \/ \E m : msock' = [msock EXCEPT ![1] = m]
    BY <1>1, <1>4 DEF M!OnDisconnect
  <2>2. clients' = clients \/ \E i : clients' = [clients EXCEPT ![i] = None]
    BY <1>1 DEF M!OnDisconnect, M!registry, M!RemoveClient, M!RemoveMonitor
  <2>3. OnFirstOnly'
    BY <1>1, <2>1 DEF LoginInv, OnFirstOnly, NotAdmitted, M!FreshSocket
  <2>4. Held'
    BY <1>1, <1>4, <2>2 DEF LoginInv, Held
  <2> QED BY <1>2, <2>3, <2>4 DEF LoginInv
<1> QED BY <1>3, <1>4

(* The first acknowledgement makes the client greet on the first stream.    *)
LEMMA ConnackKeepsOutbox ==
  ASSUME ClientInv, FirstAttempt, Outbox, NEW s \in Stream, ClientConnack(s)
  PROVE  Outbox'
<1>1. CASE ~connected /\ connectedTimes = 1
  <2>1. Send(Plain("register")) /\ socket' = socket
    BY <1>1 DEF ClientConnack, Connack
  <2>2. socket \in {0, 1}
    BY <1>1, MaxStreamAssumption DEF FirstAttempt, ClientInv, ClientCore, ClientTypeOK
  <2>3. Plain("register") \in Message
    BY DEF Plain, Message
  <2> QED BY <2>1, <2>2, <2>3, SendKeeps
<1>2. CASE ~(~connected /\ connectedTimes = 1)
  BY <1>2 DEF ClientConnack, Outbox, Sendable
<1> QED BY <1>1, <1>2

(* A message that reaches the client keeps what is known of its login.      *)
LEMMA HandlesKeepsLogin ==
  ASSUME Packets, ClientInv, FirstAttempt, LoginInv, NEW s \in Stream, ClientHandles(s)
  PROVE  LoginInv'
<1>1. /\ down[s] # <<>> /\ down' = [down EXCEPT ![s] = Tail(@)]
      /\ UNCHANGED <<msock, clients, cut>>
  BY DEF ClientHandles, masterVars
<1>2. \A t \in Stream : NotAdmitted(t) => NotAdmitted(t)'
  <2>1. NotAdmitted(s) => Tail(down[s]) \in Seq(Packet \ {Admission})
    BY <1>1, HeadTailProperties DEF NotAdmitted
  <2> QED BY <1>1, <2>1 DEF NotAdmitted, Packets
<1>3. Outbox'
  <2>1. (\E ok : OnRegister(s, ok)) \/ (\E q : OnClient(s, q)) \/ ClientDisconnectPacket(s)
          => UNCHANGED out
    BY DEF OnRegister, OnClient, ClientDisconnectPacket, adminVars
  <2>2. UNCHANGED out => Outbox'
    BY DEF LoginInv, Outbox, Sendable
  <2> QED BY <2>1, <2>2, HandlesCases, ConnackKeepsOutbox DEF LoginInv
<1>4. NotAdmitted(s) => login' = login \/ login' = "error"
  <2> SUFFICES ASSUME NotAdmitted(s) PROVE login' = login \/ login' = "error"
    OBVIOUS
  <2>1. Head(down[s]) \in Packet \ {Admission}
    BY <1>1, HeadTailProperties DEF NotAdmitted
  <2>2. CASE Head(down[s]).topic = "register"
    <3>1. Head(down[s]).id # 1
      BY <2>1, <2>2 DEF Packet, Admission, Msg
    <3>2. OnRegister(s, Head(down[s]).id = 1)
      BY <2>2 DEF ClientHandles
    <3> QED BY <3>1, <3>2 DEF OnRegister
  <2>3. CASE Head(down[s]).topic # "register"
    <3>1. ClientConnack(s) \/ (\E q : OnClient(s, q)) \/ ClientDisconnectPacket(s)
      BY <2>1, <2>3 DEF ClientHandles, Packet
    <3> QED BY <3>1 DEF ClientConnack, OnClient, ClientDisconnectPacket, adminVars
  <2> QED BY <2>2, <2>3
<1>5. OnFirstOnly'
  BY <1>1, <1>2 DEF LoginInv, OnFirstOnly, M!FreshSocket
<1>6. Held'
  <2>1. s # 1 => NotAdmitted(s)
    BY DEF LoginInv, OnFirstOnly
  <2> QED BY <1>1, <1>2, <1>4, <2>1 DEF LoginInv, Held
<1> QED BY <1>3, <1>5, <1>6 DEF LoginInv

(* A cut takes what is under way with it. *)
LEMMA CutKeepsLogin ==
  ASSUME Packets, LoginInv, NEW s \in Stream, Cut(s)
  PROVE  LoginInv'
<1>1. /\ cut' = cut \cup {s} /\ down' = [down EXCEPT ![s] = <<>>]
      /\ out' = [out EXCEPT ![s] = <<>>] /\ UNCHANGED <<login, msock, clients>>
  BY DEF Cut, masterVars
<1>2. Outbox'
  BY <1>1, EmptySeq DEF LoginInv, Outbox, Sendable
<1>3. \A t \in Stream : NotAdmitted(t) => NotAdmitted(t)'
  BY <1>1, EmptySeq DEF NotAdmitted, Packets
<1>4. OnFirstOnly' /\ Held'
  BY <1>1, <1>3 DEF LoginInv, OnFirstOnly, Held, M!FreshSocket
<1> QED BY <1>2, <1>4 DEF LoginInv

(* Every step keeps what is known of the login.                             *)
LEMMA NextLoginInv ==
  ASSUME Packets, ClientInv, FirstAttempt, LoginInv, [SessionNext]_sessionVars
  PROVE  LoginInv'
<1>0. UNCHANGED out => Outbox'
  BY DEF LoginInv, Outbox, Sendable
<1>1. UNCHANGED sessionVars => LoginInv'
  BY <1>0, EmptySeq, LoginKept DEF sessionVars, vars, adminVars, masterVars
<1>2. MasterListen => LoginInv'
  BY <1>0, EmptySeq, LoginKept DEF MasterListen, vars, adminVars, M!Listen, M!registry, M!links
<1>3. ASSUME NEW s \in Stream, MasterAccepts(s) PROVE LoginInv'
  <2>1. Reply(s, <<Msg("connack", 0)>>) /\ UNCHANGED <<out, login, cut, msock, clients>>
    BY <1>3 DEF MasterAccepts, vars, adminVars, M!Connection, M!registry
  <2> QED BY <1>0, <2>1, MsgAdmitsNobody, LoginKept
<1>4. ASSUME NEW s \in Stream, MasterOnClient(s) PROVE LoginInv'
  <2>1. /\ down' = down \/ Reply(s, <<Msg("disconnect", 0)>>)
        /\ out[s] # <<>> /\ out' = [out EXCEPT ![s] = Tail(@)]
        /\ UNCHANGED <<login, cut, msock, clients>>
    BY <1>4 DEF MasterOnClient, Kick, Arrives, Carry, masterVars
  <2>2. Outbox'
    BY <2>1, TakeKeeps DEF LoginInv
  <2> QED BY <2>1, <2>2, MsgAdmitsNobody, LoginKept
<1>5. ASSUME NEW s \in Stream, ClientSeesEnd(s) \/ ClientPonged(s) PROVE LoginInv'
  BY <1>0, <1>5, EmptySeq, LoginKept DEF ClientSeesEnd, ClientPonged, adminVars, masterVars
<1>6. ASSUME NEW s \in Stream, LosesWrite(s) PROVE LoginInv'
  <2>1. /\ out[s] # <<>> /\ out' = [out EXCEPT ![s] = Tail(@)]
        /\ UNCHANGED <<login, cut, msock, clients, down>>
    BY <1>6 DEF LosesWrite, Carry, masterVars
  <2>2. Outbox'
    BY <1>6, <2>1, TakeKeeps DEF LoginInv
  <2> QED BY <2>1, <2>2, EmptySeq, LoginKept
<1>7. ASSUME NEW q \in Ask, HandlerCalls(q) PROVE LoginInv'
  <2>1. /\ q \in Nat /\ Reply(written[q], <<Msg("client", q)>>)
        /\ UNCHANGED <<out, login, cut, msock, clients>>
    BY <1>7 DEF HandlerCalls, Ask, vars, adminVars, masterVars
  <2> QED BY <1>0, <2>1, MsgAdmitsNobody, LoginKept
<1> QED
  BY <1>1, <1>2, <1>3, <1>4, <1>5, <1>6, <1>7, ClientStepsKeepLogin, VerdictKeepsLogin,
     EndKeepsLogin, HandlesKeepsLogin, CutKeepsLogin, SessionCases

(* LoginInv holds in every reachable state.                                 *)
LEMMA LoginInvariant == Spec => []LoginInv
<1>1. SessionInit => LoginInv
  <2> SUFFICES ASSUME SessionInit PROVE LoginInv
    OBVIOUS
  <2>1. /\ out = [s \in Stream |-> <<>>] /\ down = [s \in Stream |-> <<>>] /\ login = "none"
        /\ msock = [s \in Stream |-> M!FreshSocket] /\ clients = [c \in {Id} |-> None]
    BY DEF SessionInit, Init, M!Init
  <2>2. Outbox
    BY <2>1, EmptySeq DEF Outbox
  <2>3. \A s \in Stream : NotAdmitted(s)
    BY <2>1, EmptySeq DEF NotAdmitted
  <2> QED BY <2>1, <2>2, <2>3 DEF LoginInv, OnFirstOnly, Held
<1>2. Spec => []ClientInv /\ []FirstAttempt
  BY SessionImplementsClient, ClientInvariant, FirstStreamIsFirst, PTL
<1> QED BY <1>1, <1>2, NextLoginInv, PacketsInvariant, PTL DEF Spec

(* A client that believes it is logged in owns its id at the master on the  *)
(* stream it is connected by, for as long as its first connection lasts.    *)
THEOREM LoginsAreHeld == Spec => []LoginIsHeld
<1>1. ClientInv /\ FirstAttempt /\ LoginInv => LoginIsHeld
  <2> SUFFICES ASSUME ClientInv, FirstAttempt, LoginInv,
                      connected, ~closed, connectedTimes = 2, login = "ok", socket \notin cut
               PROVE  clients[Id] = socket
    BY DEF LoginIsHeld
  <2>1. socket = 1 /\ 1 \in Stream
    BY MaxStreamAssumption
       DEF ClientInv, ClientCore, ClientTypeOK, Begun, Fresh, FirstAttempt, Stream
  <2> QED BY <2>1 DEF LoginInv, Held
<1>2. Spec => []ClientInv /\ []FirstAttempt
  BY SessionImplementsClient, ClientInvariant, FirstStreamIsFirst, PTL
<1> QED BY <1>1, <1>2, LoginInvariant, PTL
=============================================================================
