---------------------------- MODULE ConsoleService ----------------------------
(***************************************************************************)
(* The module registry of the console services of a cluster, one on the    *)
(* master and one on each monitored process: lib/consoleService.js.        *)
(* Modules are registered, enabled and disabled by their owner, at start   *)
(* and stop, and by the commands of admin clients, which the master hands  *)
(* on to the monitors.  The scheduler is external: scheduleJob() gives a   *)
(* job, with the next number as its id, that runs until cancelJob().  The  *)
(* agents are seen here only as the way a command takes to a monitor.      *)
(***************************************************************************)
EXTENDS Integers, Sequences, Functions

CONSTANTS
  Process,      \* the processes that own a console service
  Master,       \* the one of them that is the master
  Module,       \* module ids
  Client,       \* registered admin clients
  MaxRecord,    \* bound: registrations on each process
  FirstJob,     \* external: the id of the first job of a process's scheduler
  MaxJob,       \* bound: jobs given on each process
  MaxCommand,   \* bound: commands of the clients
  Reregister    \* environment: a module id may be registered again

ASSUME ProcessAssumption == Master \in Process
ASSUME BoundAssumption ==
  MaxRecord \in Nat /\ MaxJob \in Nat /\ MaxCommand \in Nat /\ Reregister \in BOOLEAN
ASSUME JobAssumption == FirstJob \in Nat

Kind == {"push", "pull", "once"}   \* module.type; once: no type or no interval
Level == 0 .. 2                    \* user.level of a client; 0 stands for none
Entry == 1 .. MaxRecord

VARIABLES
  astate,    \* the agent of each process; aborted: closed before it was opened
  modules,   \* ConsoleService.modules: the entry of each id, 0 for none
  record,    \* the records made by register(), in order
  jobs,      \* the scheduler's jobs: <<entry, id>>
  nextJob,   \* the id that the scheduler gives next
  level,     \* the level of each client
  inbox,     \* commands on their way to each monitor
  issued     \* number of commands

vars == <<astate, modules, record, jobs, nextJob, level, inbox, issued>>

(* A record that never had a job has the id 0 here: the code tests for      *)
(* undefined and for 0 alike.                                               *)
JobId == {0} \cup (FirstJob .. FirstJob + MaxJob - 1)

Record == [module : Module, schedule : BOOLEAN, enable : BOOLEAN, jobId : JobId]

Init ==
  /\ astate = [p \in Process |-> "inited"]
  /\ modules = [p \in Process |-> [m \in Module |-> 0]]
  /\ record = [p \in Process |-> <<>>]
  /\ jobs = [p \in Process |-> {}]
  /\ nextJob = [p \in Process |-> FirstJob]
  /\ level \in [Client -> Level]
  /\ inbox = [p \in Process |-> <<>>]
  /\ issued = 0

-----------------------------------------------------------------------------
(* registerRecord: push runs on a monitor, anything else on the master.     *)
Scheduled(p, kind) == kind # "once" /\ (p = Master <=> kind # "push")

(* register(): what the id stood for before is neither disabled nor         *)
(* cancelled.                                                               *)
Register(p, m, kind) ==
  /\ Len(record[p]) < MaxRecord
  /\ Reregister \/ modules[p][m] = 0
  /\ record' = [record EXCEPT ![p] = Append(@,
       [module |-> m, schedule |-> Scheduled(p, kind), enable |-> FALSE, jobId |-> 0])]
  /\ modules' = [modules EXCEPT ![p][m] = Len(record'[p])]
  /\ UNCHANGED <<astate, jobs, nextJob, level, inbox, issued>>

(* The entries of the modules S of p.                                       *)
Current(p, S) == {modules[p][m] : m \in S} \ {0}

(* The ids that the scheduler gives to S, in any order, when n comes next:  *)
(* start() goes through the modules in the order of the object's keys.      *)
Numbered(p, S, n) == Bijection(S, nextJob[p] .. n - 1)

(* The records on are enabled; those in DOMAIN id get the jobs with these   *)
(* ids.                                                                     *)
Scheduling(p, on, id, n) ==
  /\ record' = [record EXCEPT ![p] = [e \in DOMAIN record[p] |->
       LET r == record[p][e]
       IN [r EXCEPT !.enable = r.enable \/ e \in on,
                    !.jobId  = IF e \in DOMAIN id THEN id[e] ELSE r.jobId]]]
  /\ jobs' = [jobs EXCEPT ![p] = @ \cup {<<e, id[e]>> : e \in DOMAIN id}]
  /\ nextJob' = [nextJob EXCEPT ![p] = n]

(* enable() of the modules S: those that are not enabled get a job.         *)
TurnOn(p, S) ==
  LET on == {e \in Current(p, S) : ~record[p][e].enable}
  IN \E n \in nextJob[p] .. FirstJob + MaxJob :
       \E id \in Numbered(p, {e \in on : record[p][e].schedule}, n) :
         Scheduling(p, on, id, n)

(* Mutant: the flag is cleared before it is tested: nothing is cancelled.   *)
TurnOffUncancelled(p, S) ==
  /\ record' = [record EXCEPT ![p] = [e \in DOMAIN record[p] |->
       [record[p][e] EXCEPT !.enable = record[p][e].enable /\ e \notin Current(p, S)]]]
  /\ UNCHANGED <<jobs, nextJob>>

(* disable() of the modules S: a job is cancelled by its id, unless that is *)
(* 0. record.jobId stays: it is schedule.jobId that is set to null.         *)
TurnOff(p, S) ==
  LET off == {e \in Current(p, S) : record[p][e].enable}
      cancelled == {record[p][e].jobId : e \in {e \in off : record[p][e].schedule}} \ {0}
  IN /\ record' = [record EXCEPT ![p] = [e \in DOMAIN record[p] |->
          [record[p][e] EXCEPT !.enable = record[p][e].enable /\ e \notin off]]]
     /\ jobs' = [jobs EXCEPT ![p] = {j \in @ : j[2] \notin cancelled}]
     /\ UNCHANGED nextJob

Enable(p, m)  == TurnOn(p, {m})  /\ UNCHANGED <<astate, modules, level, inbox, issued>>
Disable(p, m) == TurnOff(p, {m}) /\ UNCHANGED <<astate, modules, level, inbox, issued>>

(* start(): listen() and connect() of an agent that is not new do nothing,  *)
(* and the modules are enabled all the same.                                *)
Start(p) ==
  /\ astate' = [astate EXCEPT ![p] = IF @ = "inited" THEN "started" ELSE @]
  /\ TurnOn(p, Module)
  /\ UNCHANGED <<modules, level, inbox, issued>>

(* stop(): close() of an agent that was never opened throws once it has set *)
(* the state.                                                               *)
Stop(p) ==
  /\ TurnOff(p, Module)
  /\ astate' = [astate EXCEPT ![p] = CASE @ = "inited"  -> "aborted"
                                       [] @ = "started" -> "closed"
                                       [] OTHER         -> @]
  /\ UNCHANGED <<modules, level, inbox, issued>>

-----------------------------------------------------------------------------
(* Commands *)

(* aclControl of a command, on the master: a level of 0 counts as missing.  *)
MayCommand(c) == level[c] = 1

Turn(p, command, m) == IF command = "enable" THEN TurnOn(p, {m}) ELSE TurnOff(p, {m})

(* Mutant: the arguments of composeCommand are swapped. *)
BroadcastSwapped(command, m) ==
  inbox' = [p \in Process |-> IF p # Master /\ astate[p] = "started"
                                 /\ astate[Master] # "closed"
                              THEN Append(inbox[p], <<m, command>>) ELSE inbox[p]]

(* notifyCommand: to the monitors (bound: all of them are connected), unless *)
(* the agent is closed.                                                     *)
Broadcast(command, m) ==
  inbox' = [p \in Process |-> IF p # Master /\ astate[p] = "started"
                                 /\ astate[Master] # "closed"
                              THEN Append(inbox[p], <<command, m>>) ELSE inbox[p]]

(* A client's command on the master: enableCommand and disableCommand. The  *)
(* clients have come while the master listened; closing it leaves them      *)
(* connected.                                                               *)
Command(c, command, m) ==
  /\ astate[Master] \in {"started", "closed"}
  /\ issued < MaxCommand
  /\ issued' = issued + 1
  /\ IF MayCommand(c) /\ modules[Master][m] # 0
     THEN Turn(Master, command, m) /\ Broadcast(command, m)
     ELSE UNCHANGED <<record, jobs, nextJob, inbox>>
  /\ UNCHANGED <<astate, modules, level>>

(* The command reaches a monitor. Its aclControl asks the agent for         *)
(* getClientById, which a MonitorAgent does not have: it throws.            *)
CommandArrives(p) ==
  /\ inbox[p] # <<>>
  /\ inbox' = [inbox EXCEPT ![p] = Tail(@)]
  /\ UNCHANGED <<astate, modules, record, jobs, nextJob, level, issued>>

Next ==
  \/ \E p \in Process :
       \/ Start(p) \/ Stop(p) \/ CommandArrives(p)
       \/ \E m \in Module : \/ Enable(p, m) \/ Disable(p, m)
                            \/ \E kind \in Kind : Register(p, m, kind)
  \/ \E c \in Client, command \in {"enable", "disable"}, m \in Module : Command(c, command, m)

Spec == Init /\ [][Next]_vars

-----------------------------------------------------------------------------
(* Type correctness. *)
TypeOK ==
  /\ astate \in [Process -> {"inited", "started", "closed", "aborted"}]
  /\ modules \in [Process -> [Module -> 0 .. MaxRecord]]
  /\ record \in [Process -> Seq(Record)]
  /\ jobs \in [Process -> SUBSET (Entry \X JobId)]
  /\ nextJob \in [Process -> FirstJob .. FirstJob + MaxJob]
  /\ level \in [Client -> Level]
  /\ inbox \in [Process -> Seq({"enable", "disable"} \X Module)]
  /\ issued \in 0 .. MaxCommand

(* The jobs of the enabled records of s that are scheduled, with the ids    *)
(* that the records know.                                                   *)
JobsOf(s) == {<<e, s[e].jobId>> : e \in {e \in DOMAIN s : s[e].enable /\ s[e].schedule}}

(* Whatever the order of registrations, starts, stops, commands and calls,  *)
(* and whatever ids the scheduler gives: each scheduled record that is      *)
(* enabled has a job, the one disable() will look for, and no other job is  *)
(* running than perhaps the one with the id 0, which disable() passes by.   *)
(* (A module id registered again has two records, and then two jobs.)       *)
OneJobPerRecord ==
  \A p \in Process :
    /\ JobsOf(record[p]) \subseteq jobs[p]
    /\ \A j \in jobs[p] \ JobsOf(record[p]) : j[2] = 0
=============================================================================
