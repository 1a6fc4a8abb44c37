------------------------------ MODULE WatchServer ------------------------------
(***************************************************************************)
(* The questions of admin clients that the master answers by asking the    *)
(* monitors: lib/modules/watchServer.js with lib/util/countDownLatch.js,   *)
(* and the single requests of lib/modules/monitorLog.js and scripts.js.    *)
(* Each question runs one clientHandler; the callbacks of its requests are *)
(* called as monitors answer, while servers come and go.                   *)
(***************************************************************************)
EXTENDS RequestTable, FiniteSets, Sequences, Functions

CONSTANTS
  Frontend,    \* servers whose info says frontend: 'true'
  MaxQuestion  \* bound: questions of clients

Question == 1 .. MaxQuestion

ASSUME WatchAssumption ==
  IsFiniteSet(Server) /\ Frontend \subseteq Server /\ MaxQuestion \in Nat

VARIABLES
  comd,        \* what each question runs: see Kind
  question,    \* the question each request was made for; 0 is none
  latch,       \* the count of the latch of each question
  serverInfo,  \* keys of the answer a latch gathers
  told,        \* what the client was told, in order: data, error or blank
  threw        \* history: questions one of whose callbacks threw

watchVars == <<comd, question, latch, serverInfo, told, threw>>
vars == <<tableVars, watchVars>>

(* all: asks many and gathers.  show: passes the data on, an error is lost. *)
(* dump: passes data and errors on.  log: an error is only logged.          *)
(* once: asks nobody.                                                       *)
Kind == {"none", "all", "show", "dump", "log", "once"}

Undefined == None

Init ==
  /\ TableInit
  /\ comd = [q \in Question |-> "none"]
  /\ question = [r \in Req |-> 0]
  /\ latch = [q \in Question |-> 0]
  /\ serverInfo = [q \in Question |-> {}]
  /\ told = [q \in Question |-> <<>>]
  /\ threw = {}

-----------------------------------------------------------------------------
(* Questions *)

Tell(q, what) == told' = [told EXCEPT ![q] = @ \o what]

(* A question is new; questions are taken in order.                         *)
Runs(q, kind) ==
  /\ comd[q] = "none"
  /\ \A p \in 1 .. q - 1 : comd[p] # "none"
  /\ comd' = [comd EXCEPT ![q] = kind]

(* The requests of q: nothing at all when the agent is closed. *)
Requests(q, n, f) ==
  IF closed THEN UNCHANGED <<tableVars, question>>
  ELSE /\ Ask(n, f)
       /\ question' = [r \in Req |-> IF r \in DOMAIN f THEN q ELSE question[r]]

(* Mutant: every server is counted. *)
AwaitedAll(S) == Cardinality(present)

(* Mutant: the latch waits for one answer less. *)
AwaitedButOne(S) == IF Cardinality(S) > 1 THEN Cardinality(S) - 1 ELSE 1

(* How many answers the latch waits for. *)
Awaited(S) == Cardinality(S)

(* showServers, and showConnections with the context 'all'. The order of    *)
(* the ids is that of the keys of idMap. A latch for nobody is not made.    *)
FanOut(q, S) ==
  /\ Runs(q, "all")
  /\ IF S = {}
     THEN threw' = threw \cup {q} /\ UNCHANGED <<tableVars, question, latch>>
     ELSE /\ latch' = [latch EXCEPT ![q] = Awaited(S)]
          /\ LET n == reqId + Cardinality(S) - 1
             IN \E f \in Bijection(reqId .. n, S) : Requests(q, n, f)
          /\ UNCHANGED threw
  /\ UNCHANGED <<serverInfo, told>>

ShowServers(q) == FanOut(q, present)
ShowConnections(q) == FanOut(q, present \cap Frontend)

(* What the callback of a single request tells the client of an error.      *)
OnError(kind) ==
  CASE kind = "show" -> <<"blank">>
    [] kind = "dump" -> <<"error">>
    [] kind = "log"  -> <<>>

(* One request; an unknown id is an error at once.                          *)
AskOne(q, i, kind) ==
  /\ Runs(q, kind)
  /\ Requests(q, reqId, [r \in {reqId} |-> i])
  /\ IF closed \/ i \in present THEN UNCHANGED told ELSE Tell(q, OnError(kind))
  /\ UNCHANGED <<latch, serverInfo, threw>>

(* showConnections of one server. The record of an unknown id is read after *)
(* the client was told of the error.                                        *)
ShowConnectionsOf(q, i) ==
  IF i \in present \cap Frontend
  THEN AskOne(q, i, "show")
  ELSE /\ Runs(q, "once")
       /\ Tell(q, <<"error">>)
       /\ threw' = IF i \in present THEN threw ELSE threw \cup {q}
       /\ UNCHANGED <<tableVars, question, latch, serverInfo>>

(* Questions that ask no monitor: modules, the config of the master, a      *)
(* command that does not take 'all'; an unknown command tells nothing.      *)
AnswerAtOnce(q, what) ==
  /\ Runs(q, "once")
  /\ Tell(q, what)
  /\ UNCHANGED <<tableVars, question, latch, serverInfo, threw>>

-----------------------------------------------------------------------------
(* Answers *)

(* Mutant: the answer goes out with the last but one. *)
DoneEarly(q) ==
  IF latch[q] =< 0
  THEN threw' = threw \cup {q} /\ UNCHANGED <<latch, told>>
  ELSE /\ latch' = [latch EXCEPT ![q] = @ - 1]
       /\ IF latch[q] =< 2 /\ told[q] = <<>> THEN Tell(q, <<"data">>) ELSE UNCHANGED told
       /\ UNCHANGED threw

(* CountDownLatch.done *)
Done(q) ==
  IF latch[q] =< 0
  THEN threw' = threw \cup {q} /\ UNCHANGED <<latch, told>>
  ELSE /\ latch' = [latch EXCEPT ![q] = @ - 1]
       /\ IF latch[q] = 1 THEN Tell(q, <<"data">>) ELSE UNCHANGED told
       /\ UNCHANGED threw

(* Mutant: an error is not counted. *)
GatherGood(r, q, ok) ==
  /\ serverInfo' = [serverInfo EXCEPT ![q] = IF ok THEN @ \cup {target[r]} ELSE @]
  /\ IF ok THEN Done(q) ELSE UNCHANGED <<latch, told, threw>>

(* The callback of a gathering request. An error takes the place of the     *)
(* message and has no serverId.                                             *)
Gather(r, q, ok) ==
  /\ serverInfo' = [serverInfo EXCEPT ![q] = @ \cup {IF ok THEN target[r] ELSE Undefined}]
  /\ Done(q)

(* The monitor's answer to r; it is an error when its module is disabled or *)
(* missing, or when the command fails there.                                *)
OnAnswer(r, ok) ==
  /\ Answer(r)
  /\ LET q == question[r]
     IN IF comd[q] = "all" THEN Gather(r, q, ok)
        ELSE /\ Tell(q, IF ok THEN <<"data">> ELSE OnError(comd[q]))
             /\ UNCHANGED <<latch, serverInfo, threw>>
  /\ UNCHANGED <<comd, question>>

Next ==
  \/ /\ \/ Stop
        \/ \E i \in Server : Arrive(i) \/ Depart(i)
     /\ UNCHANGED watchVars
  \/ \E q \in Question :
       \/ ShowServers(q)
       \/ ShowConnections(q)
       \/ \E i \in Server :
            \/ ShowConnectionsOf(q, i)
            \/ \E kind \in {"show", "dump", "log"} : AskOne(q, i, kind)
       \/ \E what \in {<<"data">>, <<"error">>, <<>>} : AnswerAtOnce(q, what)
  \/ \E r \in Req, ok \in BOOLEAN : OnAnswer(r, ok)

Spec == Init /\ [][Next]_vars

(* A server that keeps coming back answers what it is asked.                *)
Fairness == \A r \in Req :
  SF_vars(target[r] \in present /\ \E ok \in BOOLEAN : OnAnswer(r, ok))

FairSpec == Spec /\ Fairness

-----------------------------------------------------------------------------
RequestsOf(q) == {r \in Req : question[r] = q}

(* Type correctness. *)
TypeOK ==
  /\ present \subseteq Server
  /\ reqId \in 1 .. MaxReq + 1
  /\ callbacks \subseteq 1 .. reqId - 1
  /\ target \in [Req -> Server \cup {None}]
  /\ comd \in [Question -> Kind]
  /\ question \in [Req -> Question \cup {0}]
  /\ latch \in [Question -> Nat]
  /\ serverInfo \in [Question -> SUBSET (Server \cup {Undefined})]
  /\ told \in [Question -> Seq({"data", "error", "blank"})]
  /\ threw \subseteq Question

(* A latch counts exactly the answers its question is still owed, whatever  *)
(* servers come, go and answer after the records were counted: done() never *)
(* throws and no latch waits for an answer that cannot come. (A closed      *)
(* agent asks nobody and leaves the latch waiting.)                         *)
LatchIsExact ==
  \A q \in Question : comd[q] = "all" /\ RequestsOf(q) # {} =>
    latch[q] = Cardinality({r \in callbacks : question[r] = q})

(* The client is told of a fan-out once, when the last server that was      *)
(* asked has answered and not before, and the answer names each of them     *)
(* unless some answered with an error.                                      *)
GatheredIsComplete ==
  \A q \in Question : comd[q] = "all" =>
    /\ told[q] = IF RequestsOf(q) # {} /\ RequestsOf(q) \subseteq called
                 THEN <<"data">> ELSE <<>>
    /\ told[q] # <<>> => \/ Undefined \in serverInfo[q]
                         \/ serverInfo[q] = {target[r] : r \in RequestsOf(q)}

(* A handler throws before it has asked anybody, or not at all: the answer  *)
(* of a monitor never meets a latch that is down (done: 'illegal state.').  *)
CallbacksNeverThrow == \A q \in threw : RequestsOf(q) = {}

(* A client is told twice only of an id that was unknown when it asked: the *)
(* error at once, and the answer of a server that registers later.          *)
ToldTwiceOnlyIfRefused ==
  \A q \in Question : Len(told[q]) > 1 => RequestsOf(q) \cap refused # {}

(* If every server keeps coming back, a question that asked some is         *)
(* answered, however servers leave meanwhile (a log that fails is not).     *)
QuestionsAreAnswered ==
  (\A i \in Server : []<>(i \in present)) =>
    \A q \in Question :
      (comd[q] \in {"all", "show", "dump"} /\ RequestsOf(q) # {}) ~> (told[q] # <<>>)
=============================================================================
