----------------------------- MODULE RequestTable -----------------------------
(***************************************************************************)
(* What MasterAgent promises to the modules that ask monitors: its table   *)
(* of requests and callbacks, without connections, records and the QoS     *)
(* table.  MasterAgent implements it (MasterAgent!ImplementsRequestTable); *)
(* WatchServer is written on top of it.                                    *)
(***************************************************************************)
EXTENDS Integers

CONSTANTS
  Server,  \* ids a request may name
  MaxReq,  \* bound: requests the master may issue
  None

Req == 1 .. MaxReq

ASSUME TableAssumption == MaxReq \in Nat /\ None \notin Server

VARIABLES
  closed,     \* the agent was closed
  present,    \* server ids that have a primary
  reqId,      \* MasterAgent.reqId
  callbacks,  \* ids whose callback is owed
  target,     \* the server each request() was for
  delivered,  \* ids that were written to some connection of their server
  refused,    \* ids whose callback was told 'unknown server id'
  called      \* ids whose callback was called by an answer

tableVars == <<closed, present, reqId, callbacks, target, delivered, refused, called>>

TableInit ==
  /\ closed = FALSE
  /\ present = {}
  /\ reqId = 1
  /\ callbacks = {}
  /\ target = [r \in Req |-> None]
  /\ delivered = {}
  /\ refused = {}
  /\ called = {}

-----------------------------------------------------------------------------
(* Servers come and go *)

Stop ==
  /\ closed' = TRUE
  /\ UNCHANGED <<present, reqId, callbacks, target, delivered, refused, called>>

Outstanding(i) == {r \in callbacks : target[r] = i}

(* A connection of i is admitted and is sent what is outstanding.           *)
Arrive(i) ==
  /\ present' = present \cup {i}
  /\ delivered' = delivered \cup Outstanding(i)
  /\ UNCHANGED <<closed, reqId, callbacks, target, refused, called>>

(* The two halves of an arrival: authentication that answers late separates *)
(* them, and a refused connection has the first half only.                  *)
Deliver(i) ==
  /\ delivered' = delivered \cup Outstanding(i)
  /\ UNCHANGED <<closed, present, reqId, callbacks, target, refused, called>>

Admit(i) ==
  /\ present' = present \cup {i}
  /\ UNCHANGED <<closed, reqId, callbacks, target, delivered, refused, called>>

Depart(i) ==
  /\ present' = present \ {i}
  /\ UNCHANGED <<closed, reqId, callbacks, target, delivered, refused, called>>

-----------------------------------------------------------------------------
(* Requests *)

(* Mutant: the last id is given again. *)
AskReusingId(n, f) ==
  /\ ~closed
  /\ n \in Req /\ reqId =< n
  /\ f \in [reqId .. n -> Server]
  /\ reqId' = n
  /\ callbacks' = callbacks \cup DOMAIN f
  /\ target' = [r \in Req |-> IF r \in DOMAIN f THEN f[r] ELSE target[r]]
  /\ delivered' = delivered \cup {r \in DOMAIN f : f[r] \in present}
  /\ refused' = refused \cup {r \in DOMAIN f : f[r] \notin present}
  /\ UNCHANGED <<closed, present, called>>

(* Calls of request() in one turn: f names the server of each new id. A     *)
(* request to a server that is away stays in the table.                     *)
Ask(n, f) ==
  /\ ~closed
  /\ n \in Req /\ reqId =< n
  /\ f \in [reqId .. n -> Server]
  /\ reqId' = n + 1
  /\ callbacks' = callbacks \cup DOMAIN f
  /\ target' = [r \in Req |-> IF r \in DOMAIN f THEN f[r] ELSE target[r]]
  /\ delivered' = delivered \cup {r \in DOMAIN f : f[r] \in present}
  /\ refused' = refused \cup {r \in DOMAIN f : f[r] \notin present}
  /\ UNCHANGED <<closed, present, called>>

(* requestServer(): the callback is stored and nothing is kept to be sent.  *)
AskUntracked ==
  /\ ~closed
  /\ reqId \in Req
  /\ reqId' = reqId + 1
  /\ callbacks' = callbacks \cup {reqId}
  /\ delivered' \in {delivered, delivered \cup {reqId}}
  /\ UNCHANGED <<closed, present, target, refused, called>>

(* Mutant: the callback stays. *)
AnswerKeepingCallback(r) ==
  /\ r \in callbacks \cap delivered
  /\ target[r] # None
  /\ called' = called \cup {r}
  /\ UNCHANGED <<closed, present, reqId, callbacks, target, delivered, refused>>

(* The first answer calls the callback, be the agent closed or not; an id   *)
(* that was refused is answered too, once it is delivered.                  *)
Answer(r) ==
  /\ r \in callbacks \cap delivered
  /\ target[r] # None
  /\ callbacks' = callbacks \ {r}
  /\ called' = called \cup {r}
  /\ UNCHANGED <<closed, present, reqId, target, delivered, refused>>

TableNext ==
  \/ Stop
  \/ \E i \in Server : Arrive(i) \/ Deliver(i) \/ Admit(i) \/ Depart(i)
  \/ \E n \in Req : \E f \in [reqId .. n -> Server] : Ask(n, f)
  \/ AskUntracked
  \/ \E r \in Req : Answer(r)

TableSpec == TableInit /\ [][TableNext]_tableVars
=============================================================================
