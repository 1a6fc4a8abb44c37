--------------------------- MODULE WatchServerProofs ---------------------------
(***************************************************************************)
(* Proofs about WatchServer, for any servers, requests and questions: the  *)
(* latch of a fan-out counts what is owed, whatever comes and goes.        *)
(***************************************************************************)
EXTENDS WatchServer, TLAPS, FiniteSetTheorems, SequenceTheorems

(* The requests of q that are still owed. *)
Owed(q) == {r \in callbacks : question[r] = q}

(* What makes the invariants inductive. An id is given to one question when *)
(* it is issued, and its callback is owed until it is called; a question    *)
(* that is new or asks nobody has no requests; and what a latch has         *)
(* gathered comes from the servers that have answered.                      *)
Issued ==
  /\ \A r \in Req : question[r] # 0 <=> r < reqId
  /\ \A r \in Req : r \in called <=> r < reqId /\ r \notin callbacks

Answered(q) == RequestsOf(q) # {} /\ RequestsOf(q) \subseteq called

Exact(q) ==
  /\ RequestsOf(q) # {} => latch[q] = Cardinality(Owed(q))
  /\ told[q] = IF Answered(q) THEN <<"data">> ELSE <<>>
  /\ \/ Undefined \in serverInfo[q]
     \/ serverInfo[q] = {target[r] : r \in RequestsOf(q) \cap called}

Sound(q) ==
  /\ comd[q] \in {"none", "once"} => RequestsOf(q) = {}
  /\ comd[q] = "none" => told[q] = <<>> /\ serverInfo[q] = {} /\ q \notin threw
  /\ q \in threw => RequestsOf(q) = {}
  /\ comd[q] = "all" => Exact(q)

WatchInv == TypeOK /\ Issued /\ \A q \in Question : Sound(q)

-----------------------------------------------------------------------------
(* Owed requests *)

(* What is owed is a finite set.                                            *)
LEMMA OwedIsFinite ==
  ASSUME WatchInv, NEW q
  PROVE  /\ IsFiniteSet(Owed(q)) /\ Cardinality(Owed(q)) \in Nat
         /\ Cardinality(Owed(q)) = 0 <=> Owed(q) = {}
<1>1. IsFiniteSet(1 .. reqId - 1)
  BY FS_Interval, TableAssumption DEF WatchInv, TypeOK
<1>2. Owed(q) \subseteq 1 .. reqId - 1
  BY DEF Owed, WatchInv, TypeOK
<1> QED BY <1>1, <1>2, FS_Subset, FS_CardinalityType, FS_EmptySet

(* All of a question's requests have been answered when none is owed.       *)
LEMMA OwedOrCalled ==
  ASSUME WatchInv, NEW q \in Question
  PROVE  /\ Owed(q) \subseteq RequestsOf(q)
         /\ RequestsOf(q) \subseteq called <=> Owed(q) = {}
<1>1. callbacks \subseteq Req
  BY TableAssumption DEF WatchInv, TypeOK, Req
<1>2. \A r \in RequestsOf(q) : r \in Req /\ r < reqId /\ question[r] = q
  BY DEF WatchInv, Issued, RequestsOf, Question
<1>3. \A r \in RequestsOf(q) : r \in called <=> r \notin callbacks
  BY <1>2 DEF WatchInv, Issued
<1> QED BY <1>1, <1>2, <1>3 DEF Owed, RequestsOf

(* The requests of one turn, while the agent is not closed.                 *)
LEMMA NewRequests ==
  ASSUME WatchInv, NEW q \in Question, NEW n, NEW f, Requests(q, n, f), ~closed
  PROVE  /\ n \in Req /\ reqId =< n /\ reqId' = n + 1
         /\ DOMAIN f = reqId .. n /\ reqId .. n \subseteq Req
         /\ callbacks' = callbacks \cup (reqId .. n)
         /\ callbacks' \subseteq 1 .. reqId' - 1
         /\ target' \in [Req -> Server \cup {None}]
         /\ \A r \in Req : r < reqId => target'[r] = target[r]
         /\ question' \in [Req -> Question \cup {0}]
         /\ \A r \in Req : question'[r] = IF r \in reqId .. n THEN q ELSE question[r]
         /\ UNCHANGED <<closed, present, called>>
<1>1. Ask(n, f) /\ question' = [r \in Req |-> IF r \in DOMAIN f THEN q ELSE question[r]]
  BY DEF Requests
<1>2. /\ n \in Req /\ reqId =< n /\ reqId' = n + 1 /\ f \in [reqId .. n -> Server]
      /\ callbacks' = callbacks \cup DOMAIN f
      /\ target' = [r \in Req |-> IF r \in DOMAIN f THEN f[r] ELSE target[r]]
      /\ UNCHANGED <<closed, present, called>>
  BY <1>1 DEF Ask
<1>3. DOMAIN f = reqId .. n
  BY <1>2
<1>4. reqId \in 1 .. MaxReq + 1 /\ n \in 1 .. MaxReq /\ MaxReq \in Nat
  BY <1>2, TableAssumption DEF WatchInv, TypeOK, Req
<1>5. reqId .. n \subseteq Req
  BY <1>2, <1>4 DEF Req
<1>6. callbacks' \subseteq 1 .. reqId' - 1
  BY <1>2, <1>3, <1>4 DEF WatchInv, TypeOK
<1>7. target' \in [Req -> Server \cup {None}]
  BY <1>2, <1>3 DEF WatchInv, TypeOK
<1>8. \A r \in Req : r < reqId => target'[r] = target[r]
  BY <1>2, <1>3, <1>4 DEF Req
<1>9. question' \in [Req -> Question \cup {0}]
  BY <1>1 DEF WatchInv, TypeOK
<1>10. \A r \in Req : question'[r] = IF r \in reqId .. n THEN q ELSE question[r]
  BY <1>1, <1>3
<1> QED BY <1>2, <1>3, <1>5, <1>6, <1>7, <1>8, <1>9, <1>10

(* They belong to q and are owed; the other questions keep what they have.  *)
LEMMA NewRequestsOf ==
  ASSUME WatchInv, NEW q \in Question, NEW n, NEW f, Requests(q, n, f), ~closed,
         RequestsOf(q) = {}
  PROVE  /\ RequestsOf(q)' = reqId .. n /\ Owed(q)' = reqId .. n
         /\ (reqId .. n) \cap called = {} /\ reqId .. n # {}
         /\ \A p \in Question \ {q} : RequestsOf(p)' = RequestsOf(p) /\ Owed(p)' = Owed(p)
         /\ Issued'
<1>1. /\ n \in Req /\ reqId =< n /\ reqId' = n + 1 /\ reqId .. n \subseteq Req
      /\ callbacks' = callbacks \cup (reqId .. n) /\ called' = called
      /\ \A r \in Req : question'[r] = IF r \in reqId .. n THEN q ELSE question[r]
  BY NewRequests
<1>2. /\ reqId \in 1 .. MaxReq + 1 /\ MaxReq \in Nat
      /\ callbacks \subseteq 1 .. reqId - 1 /\ callbacks \subseteq Req /\ Req \subseteq Nat
  BY TableAssumption DEF WatchInv, TypeOK, Req
<1>3. \A r \in Req : question[r] # 0 <=> r < reqId
  BY DEF WatchInv, Issued
<1>4. \A r \in Req : r \in called <=> r < reqId /\ r \notin callbacks
  BY DEF WatchInv, Issued
<1>5. \A p \in Question : p # 0
  BY DEF Question
<1>6. \A r \in reqId .. n : r \in Req /\ ~(r < reqId) /\ r < reqId' /\ question[r] = 0
  BY <1>1, <1>2, <1>3
<1>7. RequestsOf(q)' = reqId .. n
  BY <1>1, <1>6 DEF RequestsOf
<1>8. Owed(q)' = reqId .. n
  <2>1. \A r \in callbacks : question[r] # q
    BY <1>2 DEF RequestsOf
  <2> QED BY <1>1, <1>2, <2>1 DEF Owed
<1>9. (reqId .. n) \cap called = {} /\ reqId .. n # {}
  BY <1>1, <1>2, <1>4, <1>6
<1>10. \A p \in Question \ {q} : RequestsOf(p)' = RequestsOf(p)
  BY <1>1, <1>5, <1>6 DEF RequestsOf
<1>11. \A p \in Question \ {q} : Owed(p)' = Owed(p)
  BY <1>1, <1>2, <1>5, <1>6 DEF Owed
<1>12. Issued'
  <2>1. ASSUME NEW r \in Req
        PROVE  r < reqId' <=> r < reqId \/ r \in reqId .. n
    BY <1>1, <1>2
  <2>2. ASSUME NEW r \in Req PROVE question'[r] # 0 <=> r < reqId'
    BY <1>1, <1>3, <1>5, <2>1
  <2>3. ASSUME NEW r \in Req PROVE r \in called' <=> r < reqId' /\ r \notin callbacks'
    BY <1>1, <1>4, <1>6, <2>1
  <2> QED BY <2>2, <2>3 DEF Issued
<1> QED BY <1>7, <1>8, <1>9, <1>10, <1>11, <1>12

-----------------------------------------------------------------------------
(* Questions that a step leaves alone *)

(* A step that leaves what belongs to a question alone.                     *)
LEMMA SoundKept ==
  ASSUME WatchInv, NEW p \in Question,
         RequestsOf(p)' = RequestsOf(p), Owed(p)' = Owed(p),
         \A r \in RequestsOf(p) : target'[r] = target[r] /\ (r \in called' <=> r \in called),
         comd'[p] = comd[p], latch'[p] = latch[p], serverInfo'[p] = serverInfo[p],
         told'[p] = told[p], p \in threw' <=> p \in threw
  PROVE  Sound(p)'
<1>1. Sound(p)
  BY DEF WatchInv
<1>2. Answered(p)' <=> Answered(p)
  BY DEF Answered
<1>3. {target'[r] : r \in RequestsOf(p)' \cap called'} = {target[r] : r \in RequestsOf(p) \cap called}
  OBVIOUS
<1>4. Exact(p) => Exact(p)'
  BY <1>2, <1>3 DEF Exact
<1> QED BY <1>1, <1>4 DEF Sound

(* A question that starts, with requests or without: the others are left    *)
(* alone, and the table and the ids stay as they should be.                 *)
LEMMA StartKeeps ==
  ASSUME WatchInv, NEW q \in Question, NEW n, NEW f,
         Requests(q, n, f) \/ UNCHANGED <<tableVars, question>>,
         NEW kind \in Kind, Runs(q, kind),
         \A p \in Question \ {q} :
           latch'[p] = latch[p] /\ told'[p] = told[p] /\ (p \in threw' <=> p \in threw),
         serverInfo' = serverInfo,
         latch' \in [Question -> Nat],
         told' \in [Question -> Seq({"data", "error", "blank"})],
         threw' \subseteq Question,
         Sound(q)'
  PROVE  WatchInv'
<1>1. /\ comd[q] = "none" /\ comd' = [comd EXCEPT ![q] = kind]
      /\ RequestsOf(q) = {}
  BY DEF Runs, WatchInv, Sound
<1>2. \A p \in Question \ {q} : comd'[p] = comd[p]
  BY <1>1 DEF WatchInv, TypeOK
<1>3. comd' \in [Question -> Kind]
  BY <1>1 DEF WatchInv, TypeOK
<1>4. CASE Requests(q, n, f) /\ ~closed
  <2>1. TypeOK'
    <3>1. reqId' \in 1 .. MaxReq + 1
      BY <1>4, NewRequests, TableAssumption DEF Req
    <3>2. /\ callbacks' \subseteq 1 .. reqId' - 1 /\ target' \in [Req -> Server \cup {None}]
          /\ question' \in [Req -> Question \cup {0}] /\ present' = present
      BY <1>4, NewRequests
    <3> QED BY <1>3, <3>1, <3>2 DEF WatchInv, TypeOK
  <2>2. Issued'
    BY <1>1, <1>4, NewRequestsOf
  <2>3. ASSUME NEW p \in Question \ {q} PROVE Sound(p)'
    <3>1. RequestsOf(p)' = RequestsOf(p) /\ Owed(p)' = Owed(p)
      BY <1>1, <1>4, NewRequestsOf
    <3>2. \A r \in RequestsOf(p) : target'[r] = target[r] /\ (r \in called' <=> r \in called)
      <4>1. \A r \in RequestsOf(p) : r \in Req /\ r < reqId
        BY DEF RequestsOf, WatchInv, Issued, Question
      <4> QED BY <1>4, <4>1, NewRequests
    <3> QED BY <1>2, <3>1, <3>2, SoundKept
  <2> QED BY <2>1, <2>2, <2>3 DEF WatchInv
<1>5. CASE UNCHANGED <<tableVars, question>>
  <2>1. TypeOK' /\ Issued'
    BY <1>3, <1>5 DEF tableVars, WatchInv, TypeOK, Issued
  <2>2. ASSUME NEW p \in Question \ {q} PROVE Sound(p)'
    <3>1. /\ RequestsOf(p)' = RequestsOf(p) /\ Owed(p)' = Owed(p)
          /\ target' = target /\ called' = called
      BY <1>5 DEF tableVars, RequestsOf, Owed
    <3> QED BY <1>2, <3>1, SoundKept
  <2> QED BY <2>1, <2>2 DEF WatchInv
<1> QED BY <1>4, <1>5 DEF Requests

-----------------------------------------------------------------------------
(* Questions *)

(* What a client is told stays a sequence of answers. *)
LEMMA TellType ==
  ASSUME WatchInv, NEW q \in Question, NEW what \in Seq({"data", "error", "blank"}), Tell(q, what)
  PROVE  /\ told' \in [Question -> Seq({"data", "error", "blank"})]
         /\ \A p \in Question \ {q} : told'[p] = told[p]
         /\ told'[q] = told[q] \o what
<1>1. told \in [Question -> Seq({"data", "error", "blank"})]
  BY DEF WatchInv, TypeOK
<1>2. told[q] \o what \in Seq({"data", "error", "blank"})
  BY <1>1, ConcatProperties
<1> QED BY <1>1, <1>2 DEF Tell

(* A fan-out to no server throws; one to some makes a latch that counts its *)
(* requests, or, on a closed agent, one that counts for ever.               *)
LEMMA FanOutKeeps ==
  ASSUME WatchInv, NEW q \in Question, NEW S \in SUBSET Server, FanOut(q, S)
  PROVE  WatchInv'
<1>1. /\ Runs(q, "all") /\ comd'[q] = "all" /\ UNCHANGED <<serverInfo, told>>
      /\ RequestsOf(q) = {} /\ told[q] = <<>> /\ serverInfo[q] = {} /\ q \notin threw
  BY DEF FanOut, Runs, WatchInv, Sound, TypeOK
<1>2. IsFiniteSet(S) /\ Cardinality(S) \in Nat
  BY WatchAssumption, FS_Subset, FS_CardinalityType
<1>3. "all" \in Kind
  BY DEF Kind
<1>4. told' \in [Question -> Seq({"data", "error", "blank"})]
  BY <1>1 DEF WatchInv, TypeOK
<1>5. CASE S = {}
  <2>1. UNCHANGED <<tableVars, question, latch>> /\ threw' = threw \cup {q}
    BY <1>5 DEF FanOut
  <2>2. RequestsOf(q)' = {}
    BY <1>1, <2>1 DEF RequestsOf
  <2>3. Sound(q)'
    BY <1>1, <2>2 DEF Sound, Exact, Answered
  <2> QED BY <1>1, <1>3, <1>4, <2>1, <2>3, StartKeeps DEF WatchInv, TypeOK
<1>6. CASE S # {}
  <2>1. PICK n, f : Requests(q, n, f) /\ n = reqId + Cardinality(S) - 1
    BY <1>6 DEF FanOut
  <2>2. latch' = [latch EXCEPT ![q] = Cardinality(S)] /\ threw' = threw
    BY <1>6 DEF FanOut, Awaited
  <2>3. /\ latch' \in [Question -> Nat] /\ latch'[q] = Cardinality(S)
        /\ \A p \in Question \ {q} : latch'[p] = latch[p]
    BY <1>2, <2>2 DEF WatchInv, TypeOK
  <2>4. CASE closed
    <3>1. RequestsOf(q)' = {}
      BY <1>1, <2>1, <2>4 DEF Requests, RequestsOf
    <3>2. Sound(q)'
      BY <1>1, <2>2, <3>1 DEF Sound, Exact, Answered
    <3> QED BY <1>1, <1>3, <1>4, <2>1, <2>2, <2>3, <3>2, StartKeeps DEF WatchInv, TypeOK
  <2>5. CASE ~closed
    <3>1. /\ RequestsOf(q)' = reqId .. n /\ Owed(q)' = reqId .. n
          /\ (reqId .. n) \cap called = {} /\ reqId .. n # {} /\ called' = called
      BY <1>1, <2>1, <2>5, NewRequests, NewRequestsOf
    <3>2. reqId \in Int /\ n \in Int /\ reqId =< n
      BY <1>2, <2>1, <2>5, NewRequests DEF WatchInv, TypeOK, Req
    <3>3. Cardinality(reqId .. n) = Cardinality(S)
      BY <1>2, <2>1, <3>2, FS_Interval
    <3>4. Exact(q)'
      BY <1>1, <2>3, <3>1, <3>3 DEF Exact, Answered
    <3>5. Sound(q)'
      BY <1>1, <2>2, <3>4 DEF Sound
    <3> QED BY <1>1, <1>3, <1>4, <2>1, <2>2, <2>3, <3>5, StartKeeps DEF WatchInv, TypeOK
  <2> QED BY <2>4, <2>5
<1> QED BY <1>5, <1>6

(* What a client may be told.                                               *)
LEMMA AnswerTypes ==
  /\ <<"data">> \in Seq({"data", "error", "blank"})
  /\ \A kind \in {"show", "dump", "log"} : OnError(kind) \in Seq({"data", "error", "blank"})
<1>1. <<>> \in Seq({"data", "error", "blank"})
  BY EmptySeq
<1>2. /\ <<"data">> \in Seq({"data", "error", "blank"})
      /\ <<"error">> \in Seq({"data", "error", "blank"})
      /\ <<"blank">> \in Seq({"data", "error", "blank"})
  OBVIOUS
<1>3. OnError("show") = <<"blank">> /\ OnError("dump") = <<"error">> /\ OnError("log") = <<>>
  BY DEF OnError
<1> QED BY <1>1, <1>2, <1>3

(* A question to one server has no latch.                                   *)
LEMMA AskOneKeeps ==
  ASSUME WatchInv, NEW q \in Question, NEW i \in Server, NEW kind \in {"show", "dump", "log"},
         AskOne(q, i, kind)
  PROVE  WatchInv'
<1>1. /\ Runs(q, kind) /\ comd'[q] = kind /\ UNCHANGED <<latch, serverInfo, threw>>
      /\ q \notin threw /\ kind \in Kind /\ Requests(q, reqId, [r \in {reqId} |-> i])
  BY DEF AskOne, Runs, WatchInv, Sound, TypeOK, Kind
<1>2. Sound(q)'
  BY <1>1 DEF Sound
<1>3. OnError(kind) \in Seq({"data", "error", "blank"})
  BY AnswerTypes
<1>4. told' = told \/ Tell(q, OnError(kind))
  BY DEF AskOne
<1>5. /\ told' \in [Question -> Seq({"data", "error", "blank"})]
      /\ \A p \in Question \ {q} : told'[p] = told[p]
  BY <1>3, <1>4, TellType DEF WatchInv, TypeOK
<1> QED BY <1>1, <1>2, <1>5, StartKeeps DEF WatchInv, TypeOK

(* A question that asks nobody. *)
LEMMA OnceKeeps ==
  ASSUME WatchInv, NEW q \in Question, Runs(q, "once"),
         NEW what \in Seq({"data", "error", "blank"}), Tell(q, what),
         threw' = threw \/ threw' = threw \cup {q},
         UNCHANGED <<tableVars, question, latch, serverInfo>>
  PROVE  WatchInv'
<1>1. comd'[q] = "once" /\ RequestsOf(q) = {}
  BY DEF Runs, WatchInv, Sound, TypeOK
<1>2. RequestsOf(q)' = {}
  BY <1>1 DEF RequestsOf
<1>3. Sound(q)'
  BY <1>1, <1>2 DEF Sound
<1>4. "once" \in Kind
  BY DEF Kind
<1> QED BY <1>3, <1>4, TellType, StartKeeps DEF WatchInv, TypeOK

-----------------------------------------------------------------------------
(* Answers *)

(* An answer of a gathering question: the latch is up, because the request  *)
(* is owed; it tells the client exactly when nothing else is owed.          *)
LEMMA GatherKeeps ==
  ASSUME WatchInv, NEW r \in Req, NEW ok \in BOOLEAN, Answer(r), comd[question[r]] = "all",
         question[r] \in Question, Gather(r, question[r], ok), UNCHANGED <<comd, question>>
  PROVE  /\ \A q \in Question : q = question[r] => Sound(q)'
         /\ latch' \in [Question -> Nat]
         /\ serverInfo' \in [Question -> SUBSET (Server \cup {Undefined})]
         /\ told' \in [Question -> Seq({"data", "error", "blank"})]
         /\ \A p \in Question \ {question[r]} :
              latch'[p] = latch[p] /\ told'[p] = told[p] /\ serverInfo'[p] = serverInfo[p]
         /\ threw' = threw
<1>0. PICK q \in Question : q = question[r]
  OBVIOUS
<1>1. /\ r \in callbacks /\ callbacks' = callbacks \ {r} /\ called' = called \cup {r}
      /\ target[r] # None /\ UNCHANGED <<reqId, target>>
  BY DEF Answer
<1>2. q \in Question /\ comd[q] = "all" /\ comd' = comd /\ question' = question
  BY <1>0
<1>3. r \in Owed(q) /\ r \in RequestsOf(q) /\ Owed(q) # {}
  BY <1>0, <1>1 DEF Owed, RequestsOf
<1>4. Sound(q) /\ Exact(q)
  BY <1>2 DEF WatchInv, Sound
<1>5. /\ latch[q] = Cardinality(Owed(q)) /\ latch[q] \in Nat /\ latch[q] # 0
      /\ told[q] = <<>> /\ ~Answered(q)
  <2>1. latch[q] = Cardinality(Owed(q))
    BY <1>3, <1>4 DEF Exact
  <2>2. ~Answered(q)
    BY <1>2, <1>3, OwedOrCalled DEF Answered
  <2>3. told[q] = <<>>
    BY <1>4, <2>2 DEF Exact
  <2> QED BY <1>3, <2>1, <2>2, <2>3, OwedIsFinite
<1>6. /\ latch' = [latch EXCEPT ![q] = @ - 1]
      /\ IF latch[q] = 1 THEN Tell(q, <<"data">>) ELSE told' = told
      /\ threw' = threw
      /\ serverInfo' = [serverInfo EXCEPT ![q] = @ \cup {IF ok THEN target[r] ELSE Undefined}]
  BY <1>0, <1>5 DEF Gather, Done
<1>7. RequestsOf(q)' = RequestsOf(q) /\ Owed(q)' = Owed(q) \ {r}
  BY <1>1, <1>2 DEF RequestsOf, Owed
<1>8. Cardinality(Owed(q)') = latch[q] - 1 /\ (latch[q] = 1 <=> Owed(q)' = {})
  <2>1. IsFiniteSet(Owed(q)) /\ IsFiniteSet(Owed(q) \ {r})
    BY OwedIsFinite, FS_RemoveElement
  <2>2. Cardinality(Owed(q) \ {r}) = latch[q] - 1
    BY <1>3, <1>5, <2>1, FS_RemoveElement
  <2>3. Cardinality(Owed(q) \ {r}) = 0 <=> Owed(q) \ {r} = {}
    BY <2>1, FS_EmptySet
  <2> QED BY <1>5, <1>7, <2>2, <2>3
<1>9. Answered(q)' <=> latch[q] = 1
  <2>1. callbacks \subseteq Req
    BY TableAssumption DEF WatchInv, TypeOK, Req
  <2>2. \A s \in RequestsOf(q) : s \in called <=> s \notin callbacks
    BY <1>2 DEF WatchInv, Issued, RequestsOf, Question
  <2>3. RequestsOf(q) \subseteq called' <=> Owed(q)' = {}
    BY <1>1, <1>7, <2>1, <2>2 DEF RequestsOf, Owed
  <2> QED BY <1>3, <1>7, <1>8, <2>3 DEF Answered
<1>10. /\ told' \in [Question -> Seq({"data", "error", "blank"})]
       /\ \A p \in Question \ {q} : told'[p] = told[p]
       /\ told'[q] = IF latch[q] = 1 THEN <<"data">> ELSE <<>>
  <2>1. CASE latch[q] = 1
    <3>1. told' = [told EXCEPT ![q] = @ \o <<"data">>]
      BY <1>6, <2>1 DEF Tell
    <3>2. told[q] \o <<"data">> = <<"data">>
      BY <1>5
    <3> QED BY <1>2, <2>1, <3>1, <3>2, AnswerTypes DEF WatchInv, TypeOK
  <2>2. CASE latch[q] # 1
    BY <1>5, <1>6, <2>2 DEF WatchInv, TypeOK
  <2> QED BY <2>1, <2>2
<1>11. /\ latch' \in [Question -> Nat] /\ latch'[q] = latch[q] - 1
       /\ \A p \in Question \ {q} : latch'[p] = latch[p]
  BY <1>2, <1>5, <1>6 DEF WatchInv, TypeOK
<1>12. /\ serverInfo' \in [Question -> SUBSET (Server \cup {Undefined})]
       /\ serverInfo'[q] = serverInfo[q] \cup {IF ok THEN target[r] ELSE Undefined}
       /\ \A p \in Question \ {q} : serverInfo'[p] = serverInfo[p]
  <2>1. target[r] \in Server
    BY <1>1 DEF WatchInv, TypeOK
  <2> QED BY <1>2, <1>6, <2>1 DEF WatchInv, TypeOK
<1>13. \/ Undefined \in serverInfo'[q]
       \/ serverInfo'[q] = {target'[s] : s \in RequestsOf(q)' \cap called'}
  <2>1. {target'[s] : s \in RequestsOf(q)' \cap called'}
          = {target[s] : s \in RequestsOf(q) \cap called} \cup {target[r]}
    BY <1>1, <1>3, <1>7
  <2> QED BY <1>4, <1>12, <2>1 DEF Exact
<1>14. Exact(q)'
  BY <1>7, <1>8, <1>9, <1>10, <1>11, <1>13 DEF Exact
<1>15. Sound(q)'
  BY <1>2, <1>4, <1>6, <1>7, <1>14 DEF Sound
<1> QED BY <1>0, <1>6, <1>10, <1>11, <1>12, <1>15

(* An answer leaves the other questions alone, and ends what its own owed.  *)
LEMMA AnswerKeeps ==
  ASSUME WatchInv, NEW r \in Req, NEW ok \in BOOLEAN, OnAnswer(r, ok)
  PROVE  WatchInv'
<1>1. /\ Answer(r) /\ UNCHANGED <<comd, question, reqId, target, present>>
      /\ r \in callbacks /\ callbacks' = callbacks \ {r} /\ called' = called \cup {r}
  BY DEF OnAnswer, Answer
<1>2. question[r] \in Question /\ r < reqId /\ r \in RequestsOf(question[r])
  <2>1. r < reqId
    BY <1>1 DEF WatchInv, TypeOK
  <2> QED BY <2>1 DEF WatchInv, TypeOK, Issued, RequestsOf
<1>3. PICK q \in Question : q = question[r]
  BY <1>2
<1>4. comd[q] \in {"all", "show", "dump", "log"}
  BY <1>2, <1>3 DEF WatchInv, Sound, TypeOK, Kind
<1>5. Issued'
  <2>1. \A s \in Req : question'[s] # 0 <=> s < reqId'
    BY <1>1 DEF WatchInv, Issued
  <2>2. \A s \in Req : s \in called' <=> s < reqId' /\ s \notin callbacks'
    BY <1>1, <1>2 DEF WatchInv, Issued
  <2> QED BY <2>1, <2>2 DEF Issued
<1>6. /\ Sound(q)'
      /\ latch' \in [Question -> Nat]
      /\ serverInfo' \in [Question -> SUBSET (Server \cup {Undefined})]
      /\ told' \in [Question -> Seq({"data", "error", "blank"})]
      /\ \A p \in Question \ {q} :
           latch'[p] = latch[p] /\ told'[p] = told[p] /\ serverInfo'[p] = serverInfo[p]
      /\ threw' = threw
  <2>1. CASE comd[q] = "all"
    BY <1>1, <1>3, <2>1, GatherKeeps DEF OnAnswer
  <2>2. CASE comd[q] # "all"
    <3>1. UNCHANGED <<latch, serverInfo, threw>>
      BY <1>3, <2>2 DEF OnAnswer
    <3>2. /\ OnError(comd[q]) \in Seq({"data", "error", "blank"})
          /\ <<"data">> \in Seq({"data", "error", "blank"})
      BY <1>4, <2>2, AnswerTypes
    <3>3. Tell(q, <<"data">>) \/ Tell(q, OnError(comd[q]))
      BY <1>3, <2>2 DEF OnAnswer
    <3>4. RequestsOf(q)' = RequestsOf(q)
      BY <1>1 DEF RequestsOf
    <3>5. Sound(q)'
      BY <1>1, <1>2, <1>3, <1>4, <2>2, <3>1, <3>4 DEF WatchInv, Sound
    <3>6. /\ told' \in [Question -> Seq({"data", "error", "blank"})]
          /\ \A p \in Question \ {q} : told'[p] = told[p]
      BY <1>2, <3>2, <3>3, TellType
    <3> QED BY <3>1, <3>5, <3>6 DEF WatchInv, TypeOK
  <2> QED BY <2>1, <2>2
<1>7. TypeOK'
  BY <1>1, <1>6 DEF WatchInv, TypeOK
<1>8. ASSUME NEW p \in Question \ {q} PROVE Sound(p)'
  <2>1. RequestsOf(p)' = RequestsOf(p) /\ Owed(p)' = Owed(p) /\ r \notin RequestsOf(p)
    BY <1>1, <1>3 DEF RequestsOf, Owed
  <2>2. \A s \in RequestsOf(p) : target'[s] = target[s] /\ (s \in called' <=> s \in called)
    BY <1>1, <2>1
  <2> QED BY <1>1, <1>6, <2>1, <2>2, SoundKept
<1> QED BY <1>5, <1>6, <1>7, <1>8 DEF WatchInv

-----------------------------------------------------------------------------
(* Every question, answer, arrival and departure keeps the invariant.       *)
LEMMA NextWatchInv == ASSUME WatchInv, Next PROVE WatchInv'
<1>1. ASSUME Stop \/ \E i \in Server : Arrive(i) \/ Depart(i), UNCHANGED watchVars
      PROVE  WatchInv'
  <2>1. UNCHANGED <<reqId, callbacks, target, called>>
    BY <1>1 DEF Stop, Arrive, Depart
  <2>2. present' \subseteq Server
    BY <1>1 DEF Stop, Arrive, Depart, WatchInv, TypeOK
  <2>3. TypeOK' /\ Issued'
    BY <1>1, <2>1, <2>2 DEF watchVars, WatchInv, TypeOK, Issued
  <2>4. ASSUME NEW p \in Question PROVE Sound(p)'
    <3>1. RequestsOf(p)' = RequestsOf(p) /\ Owed(p)' = Owed(p)
      BY <1>1, <2>1 DEF watchVars, RequestsOf, Owed
    <3> QED BY <1>1, <2>1, <3>1, SoundKept DEF watchVars
  <2> QED BY <2>3, <2>4 DEF WatchInv
<1>2. ASSUME NEW q \in Question, ShowServers(q) \/ ShowConnections(q) PROVE WatchInv'
  <2>1. present \in SUBSET Server /\ present \cap Frontend \in SUBSET Server
    BY DEF WatchInv, TypeOK
  <2> QED BY <1>2, <2>1, FanOutKeeps DEF ShowServers, ShowConnections
<1>3. ASSUME NEW q \in Question, NEW i \in Server, ShowConnectionsOf(q, i) PROVE WatchInv'
  <2>1. CASE i \in present \cap Frontend
    BY <1>3, <2>1, AskOneKeeps DEF ShowConnectionsOf
  <2>2. CASE ~(i \in present \cap Frontend)
    <3>1. <<"error">> \in Seq({"data", "error", "blank"})
      OBVIOUS
    <3>2. /\ Runs(q, "once") /\ Tell(q, <<"error">>)
          /\ threw' = threw \/ threw' = threw \cup {q}
          /\ UNCHANGED <<tableVars, question, latch, serverInfo>>
      BY <1>3, <2>2 DEF ShowConnectionsOf
    <3> QED BY <3>1, <3>2, OnceKeeps
  <2> QED BY <2>1, <2>2
<1>4. ASSUME NEW q \in Question, NEW what \in {<<"data">>, <<"error">>, <<>>},
             AnswerAtOnce(q, what)
      PROVE  WatchInv'
  <2>1. what \in Seq({"data", "error", "blank"})
    <3>1. <<>> \in Seq({"data", "error", "blank"})
      BY EmptySeq
    <3>2. /\ <<"data">> \in Seq({"data", "error", "blank"})
          /\ <<"error">> \in Seq({"data", "error", "blank"})
      OBVIOUS
    <3> QED BY <3>1, <3>2
  <2> QED BY <1>4, <2>1, OnceKeeps DEF AnswerAtOnce
<1> QED BY <1>1, <1>2, <1>3, <1>4, AskOneKeeps, AnswerKeeps DEF Next

(* The invariant holds initially.                                           *)
LEMMA InitWatchInv == ASSUME Init PROVE WatchInv
<1>1. /\ present = {} /\ reqId = 1 /\ callbacks = {} /\ called = {} /\ threw = {}
      /\ target = [r \in Req |-> None] /\ question = [r \in Req |-> 0]
      /\ comd = [q \in Question |-> "none"] /\ latch = [q \in Question |-> 0]
      /\ serverInfo = [q \in Question |-> {}] /\ told = [q \in Question |-> <<>>]
  BY DEF Init, TableInit
<1>2. TypeOK
  <2>1. reqId \in 1 .. MaxReq + 1 /\ latch \in [Question -> Nat]
    BY <1>1, TableAssumption
  <2>2. told \in [Question -> Seq({"data", "error", "blank"})] /\ "none" \in Kind
    BY <1>1, EmptySeq DEF Kind
  <2> QED BY <1>1, <2>1, <2>2 DEF TypeOK
<1>3. Issued
  BY <1>1 DEF Issued, Req
<1>4. \A q \in Question : Sound(q)
  <2>1. \A q \in Question : RequestsOf(q) = {}
    BY <1>1 DEF RequestsOf, Question
  <2> QED BY <1>1, <2>1 DEF Sound
<1> QED BY <1>2, <1>3, <1>4 DEF WatchInv

(* The invariant holds in every reachable state.                            *)
LEMMA WatchInvariant == Spec => []WatchInv
<1>1. WatchInv /\ UNCHANGED vars => WatchInv'
  <2> SUFFICES ASSUME WatchInv, UNCHANGED vars PROVE WatchInv'
    OBVIOUS
  <2>1. TypeOK' /\ Issued'
    BY DEF vars, tableVars, watchVars, WatchInv, TypeOK, Issued
  <2>2. ASSUME NEW p \in Question PROVE Sound(p)'
    BY SoundKept DEF vars, tableVars, watchVars, RequestsOf, Owed
  <2> QED BY <2>1, <2>2 DEF WatchInv
<1> QED BY <1>1, InitWatchInv, NextWatchInv, PTL DEF Spec

-----------------------------------------------------------------------------
(* What a client is told *)

Single == {"show", "dump", "log"}

(* A question to one server has one request at most; unless its id was      *)
(* unknown, the client is told nothing before the answer and once by it.    *)
ToldOnce(q) ==
  /\ comd[q] = "once" => Len(told[q]) =< 1
  /\ comd[q] \in Single => \A r, s \in RequestsOf(q) : r = s
  /\ comd[q] \in Single /\ RequestsOf(q) \cap refused = {} =>
       told[q] = <<>> \/ (Len(told[q]) = 1 /\ RequestsOf(q) \cap called # {})

ToldInv == \A q \in Question : ToldOnce(q)

(* It stays so for a question that a step does not tell anything.           *)
LEMMA ToldOnceKept ==
  ASSUME NEW p \in Question, ToldOnce(p), RequestsOf(p)' = RequestsOf(p),
         comd'[p] = comd[p], told'[p] = told[p], refused \subseteq refused', called \subseteq called'
  PROVE  ToldOnce(p)'
BY DEF ToldOnce, Single

(* The start of a question leaves the requests of the others alone.         *)
LEMMA StartTellsOthersNothing ==
  ASSUME WatchInv, ToldInv, NEW q \in Question, NEW n, NEW f,
         Requests(q, n, f) \/ UNCHANGED <<tableVars, question>>,
         NEW kind, Runs(q, kind),
         \A p \in Question \ {q} : told'[p] = told[p]
  PROVE  \A p \in Question \ {q} : ToldOnce(p)'
<1> SUFFICES ASSUME NEW p \in Question \ {q} PROVE ToldOnce(p)'
  OBVIOUS
<1>1. comd[q] = "none" /\ comd'[p] = comd[p] /\ RequestsOf(q) = {}
  BY DEF Runs, WatchInv, Sound, TypeOK
<1>2. RequestsOf(p)' = RequestsOf(p) /\ refused \subseteq refused' /\ called \subseteq called'
  <2>1. CASE Requests(q, n, f) /\ ~closed
    <3>1. RequestsOf(p)' = RequestsOf(p) /\ called' = called
      BY <1>1, <2>1, NewRequests, NewRequestsOf
    <3>2. refused \subseteq refused'
      BY <2>1 DEF Requests, Ask
    <3> QED BY <3>1, <3>2
  <2>2. CASE UNCHANGED <<tableVars, question>>
    BY <2>2 DEF tableVars, RequestsOf
  <2> QED BY <2>1, <2>2 DEF Requests
<1> QED BY <1>1, <1>2, ToldOnceKept DEF ToldInv

(* A question that is put to monitors tells its client nothing yet.         *)
LEMMA FanOutTells ==
  ASSUME WatchInv, ToldInv, NEW q \in Question, NEW S \in SUBSET Server, FanOut(q, S)
  PROVE  ToldInv'
<1>1. /\ Runs(q, "all") /\ told' = told /\ comd'[q] = "all"
      /\ \E n, f : Requests(q, n, f) \/ UNCHANGED <<tableVars, question>>
  BY DEF FanOut, Runs, WatchInv, TypeOK
<1>2. ToldOnce(q)'
  BY <1>1 DEF ToldOnce, Single
<1> QED BY <1>1, <1>2, StartTellsOthersNothing DEF ToldInv

(* An id that is unknown is refused as the client is told of the error.     *)
LEMMA AskOneTells ==
  ASSUME WatchInv, ToldInv, NEW q \in Question, NEW i \in Server, NEW kind \in Single,
         AskOne(q, i, kind)
  PROVE  ToldInv'
<1> DEFINE f == [r \in {reqId} |-> i]
<1>1. /\ Runs(q, kind) /\ Requests(q, reqId, f) /\ comd'[q] = kind
      /\ told[q] = <<>> /\ RequestsOf(q) = {}
      /\ told' = told \/ Tell(q, OnError(kind))
      /\ closed \/ i \in present => told' = told
  BY DEF AskOne, Runs, WatchInv, Sound, TypeOK
<1>2. \A p \in Question \ {q} : told'[p] = told[p]
  <2>1. OnError(kind) \in Seq({"data", "error", "blank"})
    BY AnswerTypes DEF Single
  <2> QED BY <1>1, <2>1, TellType
<1>3. ToldOnce(q)'
  <2>1. kind # "once"
    BY DEF Single
  <2>2. CASE closed
    <3>1. RequestsOf(q)' = {} /\ told' = told
      BY <1>1, <2>2 DEF Requests, RequestsOf
    <3> QED BY <1>1, <2>1, <3>1 DEF ToldOnce
  <2>3. CASE ~closed
    <3>1. RequestsOf(q)' = reqId .. reqId
      BY <1>1, <2>3, NewRequestsOf
    <3>2. reqId \in Nat
      BY DEF WatchInv, TypeOK
    <3>3. RequestsOf(q)' = {reqId}
      BY <3>1, <3>2
    <3>4. i \notin present => reqId \in refused'
      BY <1>1, <2>3 DEF Requests, Ask
    <3> QED BY <1>1, <2>1, <2>3, <3>3, <3>4 DEF ToldOnce
  <2> QED BY <2>2, <2>3
<1> QED BY <1>1, <1>2, <1>3, StartTellsOthersNothing DEF ToldInv

(* A question that is answered at once is told at most one thing.           *)
LEMMA OnceTells ==
  ASSUME WatchInv, ToldInv, NEW q \in Question, Runs(q, "once"),
         NEW what \in Seq({"data", "error", "blank"}), Len(what) =< 1, Tell(q, what),
         UNCHANGED <<tableVars, question>>
  PROVE  ToldInv'
<1>1. comd'[q] = "once" /\ told[q] = <<>>
  BY DEF Runs, WatchInv, Sound, TypeOK
<1>2. told'[q] = <<>> \o what /\ \A p \in Question \ {q} : told'[p] = told[p]
  BY <1>1, TellType
<1>3. <<>> \o what = what
  BY ConcatEmptySeq
<1>4. ToldOnce(q)'
  BY <1>1, <1>2, <1>3 DEF ToldOnce, Single
<1> QED BY <1>2, <1>4, StartTellsOthersNothing DEF ToldInv

(* One answer tells one thing, or nothing.                                  *)
LEMMA AnswersAreShort ==
  ASSUME NEW kind \in Single, NEW what \in {<<"data">>, OnError(kind)}
  PROVE  what \in Seq({"data", "error", "blank"}) /\ (what = <<>> \/ Len(what) = 1)
<1>1. what = <<"data">> \/ what = <<"blank">> \/ what = <<"error">> \/ what = <<>>
  BY DEF Single, OnError
<1>2. /\ Len(<<"data">>) = 1 /\ Len(<<"blank">>) = 1 /\ Len(<<"error">>) = 1
  OBVIOUS
<1>3. what \in Seq({"data", "error", "blank"})
  BY AnswerTypes DEF Single
<1> QED BY <1>1, <1>2, <1>3

(* The one request of the question is answered: it was not before.          *)
LEMMA AnswerTells ==
  ASSUME WatchInv, WatchInv', ToldInv, NEW r \in Req, NEW ok \in BOOLEAN, OnAnswer(r, ok)
  PROVE  ToldInv'
<1>1. /\ UNCHANGED <<comd, question, refused>> /\ called' = called \cup {r}
      /\ r \in callbacks
  BY DEF OnAnswer, Answer
<1>2. r < reqId /\ r \notin called /\ question[r] \in Question
  BY <1>1 DEF WatchInv, TypeOK, Issued
<1>3. PICK q \in Question : q = question[r]
  BY <1>2
<1>4. \A p : RequestsOf(p)' = RequestsOf(p)
  BY <1>1 DEF RequestsOf
<1>5. r \in RequestsOf(q) /\ comd[q] \in {"all"} \cup Single
  BY <1>3 DEF RequestsOf, WatchInv, Sound, TypeOK, Kind, Single
<1>6. CASE comd[q] = "all"
  <2>1. \A p \in Question \ {q} : told'[p] = told[p]
    BY <1>3, <1>6, GatherKeeps DEF OnAnswer
  <2>2. ToldOnce(q)'
    BY <1>1, <1>6 DEF ToldOnce, Single
  <2> QED BY <1>1, <1>4, <2>1, <2>2, ToldOnceKept DEF ToldInv
<1>7. CASE comd[q] \in Single
  <2>1. PICK what \in {<<"data">>, OnError(comd[q])} : Tell(q, what)
    BY <1>3, <1>7 DEF OnAnswer, Single
  <2>2. what \in Seq({"data", "error", "blank"}) /\ (what = <<>> \/ Len(what) = 1)
    BY <1>7, AnswersAreShort
  <2>3. told'[q] = told[q] \o what /\ \A p \in Question \ {q} : told'[p] = told[p]
    BY <2>1, <2>2, TellType
  <2>4. RequestsOf(q) = {r}
    BY <1>5, <1>7 DEF ToldInv, ToldOnce
  <2>5. RequestsOf(q) \cap refused = {} => told'[q] = what
    <3> SUFFICES ASSUME RequestsOf(q) \cap refused = {} PROVE told'[q] = what
      OBVIOUS
    <3>1. told[q] = <<>>
      BY <1>2, <1>7, <2>4 DEF ToldInv, ToldOnce
    <3> QED BY <2>2, <2>3, <3>1, ConcatEmptySeq
  <2>6. ToldOnce(q)'
    BY <1>1, <1>4, <1>7, <2>2, <2>4, <2>5 DEF ToldOnce, Single
  <2> QED BY <1>1, <1>4, <2>3, <2>6, ToldOnceKept DEF ToldInv
<1> QED BY <1>5, <1>6, <1>7

(* Every step keeps ToldInv.                                                *)
LEMMA NextToldInv == ASSUME WatchInv, WatchInv', ToldInv, Next PROVE ToldInv'
<1>1. ASSUME Stop \/ \E i \in Server : Arrive(i) \/ Depart(i), UNCHANGED watchVars
      PROVE  ToldInv'
  <2>1. UNCHANGED <<comd, question, told, refused, called>>
    BY <1>1 DEF Stop, Arrive, Depart, watchVars
  <2> QED BY <2>1, ToldOnceKept DEF ToldInv, RequestsOf
<1>2. ASSUME NEW q \in Question, ShowServers(q) \/ ShowConnections(q) PROVE ToldInv'
  <2>1. present \in SUBSET Server /\ present \cap Frontend \in SUBSET Server
    BY DEF WatchInv, TypeOK
  <2> QED BY <1>2, <2>1, FanOutTells DEF ShowServers, ShowConnections
<1>3. /\ \A what \in {<<"data">>, <<"error">>, <<>>} :
           what \in Seq({"data", "error", "blank"}) /\ Len(what) =< 1
  BY EmptySeq
<1>4. ASSUME NEW q \in Question, NEW i \in Server, ShowConnectionsOf(q, i) PROVE ToldInv'
  <2>1. CASE i \in present \cap Frontend
    BY <1>4, <2>1, AskOneTells DEF ShowConnectionsOf, Single
  <2>2. CASE ~(i \in present \cap Frontend)
    BY <1>3, <1>4, <2>2, OnceTells DEF ShowConnectionsOf
  <2> QED BY <2>1, <2>2
<1>5. ASSUME NEW q \in Question, NEW what \in {<<"data">>, <<"error">>, <<>>},
             AnswerAtOnce(q, what)
      PROVE  ToldInv'
  BY <1>3, <1>5, OnceTells DEF AnswerAtOnce
<1> QED BY <1>1, <1>2, <1>4, <1>5, AskOneTells, AnswerTells DEF Next, Single

(* ToldInv holds in every reachable state.                                  *)
LEMMA ToldInvariant == Spec => []ToldInv
<1>1. Init => ToldInv
  <2> SUFFICES ASSUME Init PROVE ToldInv
    OBVIOUS
  <2>1. comd = [q \in Question |-> "none"]
    BY DEF Init
  <2> QED BY <2>1 DEF ToldInv, ToldOnce, Single
<1>2. ToldInv /\ UNCHANGED vars => ToldInv'
  BY ToldOnceKept DEF ToldInv, vars, tableVars, watchVars, RequestsOf
<1> QED BY <1>1, <1>2, WatchInvariant, NextToldInv, PTL DEF Spec

-----------------------------------------------------------------------------
(* Every reachable state is well typed.                                     *)
THEOREM WatchTypeCorrect == Spec => []TypeOK
BY WatchInvariant, PTL DEF WatchInv

(* No latch waits for more or for fewer answers than are owed, for any      *)
(* servers that come, go and answer in any order.                           *)
THEOREM LatchesAreExact == Spec => []LatchIsExact
<1>1. WatchInv => LatchIsExact
  BY DEF WatchInv, Sound, Exact, LatchIsExact, Owed
<1> QED BY <1>1, WatchInvariant, PTL

(* A gathered answer goes out once, with the last monitor's, and is whole.  *)
THEOREM GatheringIsComplete == Spec => []GatheredIsComplete
<1>1. ASSUME WatchInv, NEW q \in Question, comd[q] = "all"
      PROVE  /\ told[q] = IF Answered(q) THEN <<"data">> ELSE <<>>
             /\ told[q] # <<>> => \/ Undefined \in serverInfo[q]
                                  \/ serverInfo[q] = {target[r] : r \in RequestsOf(q)}
  <2>1. Exact(q)
    BY <1>1 DEF WatchInv, Sound
  <2>2. Answered(q) => RequestsOf(q) \cap called = RequestsOf(q)
    BY DEF Answered
  <2> QED BY <2>1, <2>2 DEF Exact
<1>2. WatchInv => GatheredIsComplete
  BY <1>1 DEF GatheredIsComplete, Answered
<1> QED BY <1>2, WatchInvariant, PTL

(* No answer of a monitor makes a callback throw.                           *)
THEOREM NoCallbackThrows == Spec => []CallbacksNeverThrow
<1>1. WatchInv => CallbacksNeverThrow
  BY DEF WatchInv, Sound, TypeOK, CallbacksNeverThrow
<1> QED BY <1>1, WatchInvariant, PTL
(* Whatever kind of question a client asks, and however servers come, go    *)
(* and answer, it is told twice only of an id that was unknown.             *)
THEOREM ClientsAreToldOnce == Spec => []ToldTwiceOnlyIfRefused
<1>1. ASSUME WatchInv, ToldInv, NEW q \in Question, Len(told[q]) > 1
      PROVE  RequestsOf(q) \cap refused # {}
  <2>1. comd[q] \in {"none", "once", "all"} \cup Single
    <3>1. comd[q] \in Kind
      BY <1>1 DEF WatchInv, TypeOK
    <3> QED BY <3>1 DEF Kind, Single
  <2>2. ASSUME NEW w, w = <<>> \/ w = <<"data">> \/ Len(w) = 1 PROVE ~(Len(w) > 1)
    <3>1. Len(<<>>) = 0 /\ Len(<<"data">>) = 1
      OBVIOUS
    <3>2. Len(w) = 0 \/ Len(w) = 1
      BY <2>2, <3>1, Zenon
    <3>3. \A n \in {0, 1} : ~(n > 1)
      OBVIOUS
    <3> QED BY <3>2, <3>3, Zenon
  <2>3. CASE comd[q] = "none"
    BY <1>1, <2>2, <2>3 DEF WatchInv, Sound
  <2>4. CASE comd[q] = "once"
    <3>1. Len(told[q]) \in Nat
      BY <1>1, LenProperties DEF WatchInv, TypeOK
    <3> QED BY <1>1, <2>4, <3>1 DEF ToldInv, ToldOnce
  <2>5. CASE comd[q] = "all"
    <3>1. Exact(q)
      BY <1>1, <2>5 DEF WatchInv, Sound
    <3>2. told[q] = <<"data">> \/ told[q] = <<>>
      BY <3>1 DEF Exact
    <3> QED BY <1>1, <2>2, <3>2
  <2>6. CASE comd[q] \in Single
    BY <1>1, <2>2, <2>6 DEF ToldInv, ToldOnce
  <2> QED BY <2>1, <2>3, <2>4, <2>5, <2>6
<1>2. WatchInv /\ ToldInv => ToldTwiceOnlyIfRefused
  BY <1>1 DEF ToldTwiceOnlyIfRefused
<1> QED BY <1>2, WatchInvariant, ToldInvariant, PTL
=============================================================================
