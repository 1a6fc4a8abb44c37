# Verification of pomelo-admin

pomelo-admin is the administration console of a pomelo cluster. One *master*
process keeps a registry of the cluster's servers, each of which runs a
*monitor* process; admin clients log in to the master and ask questions or give
commands, which modules on the two sides answer. This directory holds TLA+
specifications of that code, TLC configurations that check them on small
instances, and proofs, checked by TLAPS, of the properties that matter most.
Paths below are relative to `src/` of the repository.

## The system

| Part | Source | State | Operations |
|---|---|---|---|
| MqttServer | `lib/protocol/mqtt/mqttServer.js` | `inited`, `closed`, the listener | listen, close; per connection: CONNECT, publish, PINGREQ |
| MasterAgent | `lib/master/masterAgent.js` | `idMap`, `typeMap`, `slaveMap`, `clients`, `callbacks`, `msgMap`, `reqId`, `state` | listen, close, request, requestServer, notify\*, authentication |
| MasterSocket | `lib/master/masterSocket.js` | `id`, `type`, `info`, `registered` of a connection | on register, reconnect, monitor, client, disconnect, close |
| MqttClient | `lib/protocol/mqtt/mqttClient.js` | `socket`, `connected`, `closed`, `connectedTimes`, three timers, `lastPing`, `lastPong` | connect, close; stream events; keepalive, reconnect and connect timers |
| MonitorAgent | `lib/monitor/monitorAgent.js` | `state`, `callbacks`, `reqId` | connect, close, notify, request; on register, reconnect\_ok, monitor, disconnect |
| ConsoleService | `lib/consoleService.js` | `modules` and their records, the scheduler's jobs, `values` | register, enable, disable, start, stop, execute, command |
| AdminClient | `lib/client/client.js` | `state`, `callbacks`, `reqId` | connect, request, notify, command |
| modules | `lib/modules/*.js` | caches in `values`; CountDownLatch counters | handlers for monitor, master and client |
| utilities | `lib/util/*.js` | none (CountDownLatch: a counter) | comparison, composition of messages, authentication |

How they interact. A MonitorAgent owns a MqttClient and hears of it by events;
MqttClient opens a TCP stream for each attempt, keeps no link between a stream
and its listeners, and reconnects by timers. On the master every accepted
stream gets a MasterSocket whose handlers write to the tables of the one
MasterAgent. A first connection greets with `register`, which is authenticated
by a callback; a later one greets with `reconnect`, which is not. The first
connection of a server id is its *primary* (`idMap`, `typeMap`); while it
lasts, more connections of that id become *slaves* (`slaveMap`). Requests of
the master are kept in `msgMap` until they are answered and are written again
("repushed") to every connection that greets for their server.

What is hard in it:

- connections that share an id or an address come and go in any order, and
  `removeConnection` knows them by address only;
- answers, authentication verdicts, tokens and handler results arrive in later
  turns, when the connection they belong to may be gone or replaced;
- the same request is written to several connections and may be answered from
  each;
- timers, stream events and `close()` of MqttClient race, and events of an
  abandoned stream act on the client;
- the two ends learn of the end of a connection at different times;
- a question of a client is asked of every monitor and answered when a latch has
  counted them, while servers leave, come back and fail;
- master and monitored processes die and are started again: nothing is persisted;
- modules are registered, enabled and disabled by several actors.

`PROJECT.json` lists each of these as a hazard at its line, with the properties
that would catch it going wrong.

What makes each part correct: the master's maps agree with one another and with
the live connections, a callback is called once and no request is forgotten;
the client is watched by one keepalive, reconnects by one timer and never ends
a process that was connected; an agent's writes go to a connection that stands;
master and monitor agree on who is registered once nothing is under way, and
requests are answered in the end, through deaths and restarts of either; a
client's question is answered once, of everybody it was asked of; its callback is
called once and its id is free when its connection has gone; the scheduler runs
the job of each enabled record, and no other.

## Modules

| Module | Models | Composition |
|---|---|---|
| `MasterAgent` | MasterAgent, MasterSocket, MqttServer; the peers are the environment | |
| `MqttClient` | MqttClient; the network is the environment | |
| `MonitorAgent` | MonitorAgent on its client; an arbitrary master | EXTENDS `MqttClient`: an action of the agent is an action of the client joined with what the listeners do in the same turn |
| `MonitorSession` | one monitor process, the master, the streams between them, and the death and restart of either | EXTENDS `MonitorAgent`, `M == INSTANCE MasterAgent`: what one end receives is what the other wrote |
| `AdminClient` | the admin client on its client | EXTENDS `MqttClient`, as `MonitorAgent` does |
| `AdminSession` | one admin client, the master and the streams between them | EXTENDS `AdminClient`, `M == INSTANCE MasterAgent` |
| `RequestTable` | what MasterAgent promises to a module that asks monitors: ids, callbacks, who is present, what was delivered | abstract: `MasterAgent` implements it (`Table == INSTANCE RequestTable WITH ...`) |
| `WatchServer` | watchServer with CountDownLatch, and the requests of monitorLog and scripts | EXTENDS `RequestTable`: a question joins calls of `request()` with a latch, an answer joins the table's step with the callback |
| `ConsoleService` | the module registry of a master and its monitors, and commands | |
| `*Proofs` | theorems about the module they are named after | EXTENDS the module, TLAPS |
| `MC*` | instances for TLC | EXTENDS the module |

JavaScript handlers run to completion, so an action is one turn of the event
loop: a whole handler with every call it makes. What a handler leaves to a
later turn (an authentication callback, a handler's result, a timer) is an
action of its own.

### MasterAgent

`idMap`, `typeMap`, `slaveMap`, `clients`, `callbacks`, `msgMap` and `reqId`
are the fields of the agent; a missing key of `typeMap` or `slaveMap` is an
empty sequence. `msock` holds the MasterSocket of each connection, `conn` the
state of its stream, `auth` the connections whose verdict is still to come.
`sent`, `target`, `refused` and `answers` are history variables: what was
written where, and what callbacks were told. Which connections a notification
goes to is an operator (`NotifyById`, `NotifyByType`, ...), since sending
changes no state.

`AddMonitor` and `RemoveMonitor` are `addConnection` and `removeConnection`;
`RemoveThrows` says when `compareServer` meets `undefined`. `OnReconnect`
throws half way when no info was sent, and the action stops where the code
does. `AddressOf` is what `compareServer(record, serverInfo)` reads in
`requestServer`: a record has no host, so it never equals an address.

Two constants describe the environment. `NoOverlap` limits greetings to
addresses that no live connection of the same id has (`RegisteredHasRecord`
needs it: records are found by address). `AsyncAuth` says whether
authentication calls back at once, as the defaults of `lib/util/utils.js` do,
or later.

### MqttClient, MonitorAgent

The variables carry the names of the fields; `retries` and `intervals` are the
pending timers of the process, of which the fields `reconnectId` and
`keepaliveTimer` only know the last. `stream` is the state of every stream
opened. `LateEvents` lets abandoned streams report; `LatePong` lets a pong be
late. `process.exit` is the state `exited`. The agent's variables are its
fields, what it has written to each stream (`out`), and what was lost because
the socket was null (`lost`, a throw in the code).

### MonitorSession

The master's end of a stream reads `out`, the monitor's end reads `down`; both
are ordered. `MasterOnRegister` is `onRegister` with either verdict of the master's
`authServer` (`RegisterRefused` only with `MayRefuse`): a process that is refused is
sent the failure and a DISCONNECT, and what is owed all the same
(`lib/master/masterSocket.js:50-58`). It then reconnects, and a reconnection is not
authenticated. `Cut` loses what is under way both ways. With `PromptClose` the
master sees the end of a cut stream at once; without it, at any later time,
so a connection may stay half-open. `MayGreet` of `MasterAgent`, which is the
assumption under which its properties are checked and proved, is itself checked
here: `GreetingsAreExpected`. Ends are the environment of neither component
any more, so what fails here is a failure of the code.

Nothing is persisted by either process, so a death keeps nothing of it.
`ProcessDies` stops every action of the process; what it has written may still
arrive. `ProcessStarts` is a new MonitorAgent with the configuration of the old
one; the streams it opens are new members of `Stream`. `MasterReboots` is a new
MasterAgent with empty tables and `reqId` at 1, all of its streams cut; that it
is down for a while is the time until `MasterListen`.

### AdminClient and AdminSession

Client has no listener for `reconnect`, so `ClientConnack` writes nothing on a
stream after the first; its `disconnect` listener sets `state` of the MqttClient
(`this` is not the Client), so `cstate` stays. `ClientAsk` is `request()` or
`command()`: the callback is stored before a write that may throw. `called` and
`written` are histories. In `AdminSession` a handler of the master that received
a question may call back `MaxAnswer` times: a handler of watchServer calls twice
for an id that registers later. Streams are cut, and the master sees the end of a
cut stream at any later time.

### RequestTable and WatchServer

`present` is the key set of `idMap`, `callbacks` and `reqId` are the agent's;
`target`, `delivered`, `refused` and `called` say what each request was for, and
what became of it. `Ask` takes several requests of one turn. `Arrive` is a
greeting that is admitted, `Deliver` and `Admit` its two halves when
authentication answers late, `AskUntracked` is `requestServer()`. That the table
is what the agent implements is checked (run MasterAsync) and proved
(`AgentImplementsTable`), so `WatchServer` needs neither connections nor records.

In `WatchServer` each question runs one `clientHandler`. `comd` is reduced to what
the handler does with an answer (`Kind`): gather it behind a latch, pass it on and
lose errors, pass both on, only log errors, or ask nobody. `FanOut` counts with
`Awaited`, makes the latch and writes the requests in one turn; in which order is
left open. `Gather` takes an error for a message without `serverId`. `threw` holds
the questions whose handler or callback threw. A closed agent takes no request and
the question is never answered.

### ConsoleService

`modules` maps an id to its current record, `record` holds every record made by
`register()`, `jobs` the jobs of the scheduler, each with its record and its id.
`pomelo-scheduler` is not part of the repository: a process's scheduler gives
`FirstJob`, `FirstJob + 1`, ... (`nextJob`), and what it begins with is a constant,
because `disable()` tests the id (`lib/consoleService.js:144`) and takes 0 for none.
`TurnOn` and `TurnOff` are `enable()` and `disable()` of a set of ids: one for a
call, all for `start()` and `stop()`; in which order `start()` numbers the jobs is
left open. An agent that is closed before it was opened is `aborted`. A command is
checked by `aclControl` on the master and broadcast, unless the master's agent is
closed; on a monitor the check throws and the command has no effect.

## Runs

Runs that pass:

| Run | Shows | Bounds |
|---|---|---|
| MasterRegistry | the maps agree with each other and with the connections | 2 servers of one type, 1 client, 3 connections, 2 addresses: two connections for one id and one more for its takeover, or for another id with the same address |
| MasterQos | request tables, callbacks and what was sent agree; no connection's end removes another's record | 2 requests, 3 connections, 2 addresses, `NoOverlap`: a request outstanding while another is answered, on a connection that replaced another; a primary, its slave, and one more greeting after either has gone |
| MasterAsync | although verdicts come late, `typeMap` is the index of `idMap`, a client id is given once and the QoS table is what is owed; every step of the agent is one of `RequestTable` | 3 connections, 1 request, 1 client |
| MqttClient | the client's timers and flags | 4 attempts: a connection, its loss, a failed attempt and one more, with events of all of them |
| MonitorAgent | writes are lost only between connections | 3 attempts, 1 request at a time, 1 notification or request, late tokens, handlers and pongs |
| Session | agreement, answers, nothing confirmed is sent again, registration in the end | 6 streams, 1 cut, 2 requests, 1 restart of the process, whose registration may be refused in each life, 1 of the master; ends are seen at once, handlers and pongs are prompt, a stream that was left is not heard (`LateEvents = FALSE`) |
| SessionSafe | greetings are expected; no process is its own slave | 3 streams, 1 cut, 1 reboot of the master, refused registrations, half-open connections, late pongs, late handlers, close(), one request of the agent |
| ConsoleService | each enabled record has its job, and no other job is left but perhaps the one of id 0 | 2 registrations on each of 2 processes, of 2 modules or of one module twice, 2 jobs of each scheduler from id 0 (a record enabled twice, or two records), 1 command |
| WatchServer | latches count what is owed, answers are whole and come once, questions are answered | 3 servers, 1 of them a frontend, 3 requests, 2 questions: a fan-out to all three, or two questions that share servers, while servers leave, come back and register after they were refused |
| AdminSession | callbacks are called once, the login is held, questions are answered, the id is released | 3 streams, 2 cuts, 2 questions, up to 2 calls of a handler's callback: a question before and after a reconnect, and one in between, which throws |

`MaxReq`, `MaxStream`, `MaxCut`, `MaxRestart`, `MaxReboot`, `MaxNotify`,
`MaxRecord`, `MaxJob`, `MaxCommand`, `MaxAsk`, `MaxAnswer` and `MaxQuestion` are
bounds and not part of the code; the guards that use them name them. In `Session`
the streams suffice: the first one, and one for each cut, restart, reboot and refusal.
There `LateEvents` only matters after a refusal: nothing else in that run makes a
process leave a stream that has not ended, and without refusals TLC finds the same
states with it and without it. Deadlock is not checked: a process may exit, an agent may be closed, and
a bounded instance comes to its end. Symmetry is used on connections and
addresses in safety runs only.

Runs that show where the code departs from what the repository says of it
(`findings` in `PROJECT.json` quotes each line):

| Run | What happens |
|---|---|
| MasterRefused | a request that was reported as failed is repushed later and its callback called again |
| SessionLateAnswer | a handler that answers while its agent reconnects makes the master kick the new stream and keep it as the primary; the next reconnect is refused for good |

SessionLateAnswer violates the very property, `RequestsAreAnswered`, that
`Session` shows to hold: together they say under which condition the QoS table
does its work.

### Departures without a run

The modules also do what the code does in these places, where a doc, comment or
test says otherwise, or where a property above needs its condition. They need no
interleaving to show, or are variants of a run above, and no run checks them:

- `removeConnection` returns when the id has no primary (`lib/master/masterAgent.js:434`):
  the record of a slave that leaves after its primary stays in `slaveMap`, and
  `notifySlavesById` writes to a dead connection.
- `close()` clears no timer (`lib/protocol/mqtt/mqttClient.js:221`): called while the
  client waits to reconnect it throws on the null socket, and the reconnect then
  connects and sets the agent back to `ST_CONNECTED`. The comment says "close monitor
  agent" (`lib/monitor/monitorAgent.js:173`).
- A reconnect that comes before the master saw the end of the old connection is
  refused (`lib/master/masterSocket.js:184`), and the monitor ignores the refusal
  (`lib/monitor/monitorAgent.js:165`): it stays connected and unregistered. `Session`
  with `PromptClose = FALSE` violates `RequestsAreAnswered` and `FinallyRegistered`.
- A process that is started again in that time registers as a slave of its dead
  self (`lib/master/masterAgent.js:397`): with restarts and `PromptClose = FALSE`
  `NeverItsOwnSlave` fails.
- With `AsyncHandler`, what was repushed may be answered twice and be run again, and
  an answer may reach a master that has forgotten the request or has given its id to
  another (`lib/master/masterAgent.js:36`): `AnsweredIsNotRunAgain` and
  `AgreeWhenQuiet` say "when handlers answer at once".
- A notification (`lib/monitor/monitorAgent.js:213`), or the answer of a late handler,
  that is written on a new stream before its greeting makes the master kick a healthy
  monitor (`lib/master/masterSocket.js:72`): with `MaxNotify = 1` `Session` violates
  `AgreeWhenQuiet`.
- A registration that is refused is repushed all the same
  (`lib/master/masterSocket.js:58`), and the reconnection that follows is not
  authenticated. If the process still hears of the stream it was told to leave
  (`LateEvents` and `MayRefuse`), the request may come on both streams and be run
  again after the master had its answer (`AnsweredIsNotRunAgain` fails). A late
  DISCONNECT makes it leave the next stream (`AgreeWhenQuiet` fails), and a late
  `close` of the old stream, between the opening of the next one and its
  acknowledgement, nulls the socket and sets a reconnect which the acknowledgement
  then clears (`lib/protocol/mqtt/mqttClient.js:64-79`): the client is connected
  without a socket, and `RequestsAreAnswered` and `FinallyRegistered` fail. `Session`
  with `LateEvents = TRUE` shows all four.
- With `AsyncToken`, a token of the agent's own `authServer` that comes after a
  reconnect registers the connection a second time
  (`lib/monitor/monitorAgent.js:134`): `NeverItsOwnSlave` fails.
- An asynchronous `authServer` of the master answers after the repush
  (`lib/master/masterSocket.js:58`): the monitor, not yet registered, drops it.
- An asynchronous `authServer` that answers after its connection has ended makes
  the dead connection the primary of its id (`lib/master/masterAgent.js:593-613`), and
  nothing removes it: `RecipientsAreOpen` is checked with authentication at once.
- An asynchronous `authUser` that answers after its connection has ended takes the
  client's id for a dead connection (`lib/master/masterAgent.js:559`):
  `IdIsReleased` is checked with authentication at once.
- `watchServer` with nobody to ask throws in `createCountDownLatch`
  (`lib/util/countDownLatch.js:34`) and `connections` of an unknown id reads the
  record after it has reported the error (`lib/modules/watchServer.js:237`): the
  client is not answered, or only of the error, and the throw leaves the handler.
- An error takes the place of the message in a gathered answer
  (`lib/modules/watchServer.js:175`): the answer has the key `undefined`, and no
  name of the server that failed.
- A client whose connection was lost never logs in again
  (`lib/client/client.js:42`): its callbacks stay, and `QuestionsAreAnswered` of
  `AdminSession` speaks of the stream it logged in on.

- `requestServer` (`lib/master/masterAgent.js:226`) compares the registry record,
  which has no host, with `serverInfo`: it never writes to the primary whose
  address is given. With no slaves of the id it throws, its callback stored.
- `MqttServer.closed` is true from the start (`lib/protocol/mqtt/mqttServer.js:82`):
  `close()` returns at once and the listener stays open.
- A monitor without info (`lib/master/masterAgent.js:438`): `compareServer` throws
  on `undefined`, `removeConnection` stops there, and the record of the dead
  connection stays in `idMap`.
- A first connection that fails ends the process
  (`lib/protocol/mqtt/mqttClient.js:147`); the callback of `connect()` is not told.
- A keepalive timeout closes the client for good (`mqttClient.js:205`): with
  `LatePong` a session's requests may stay unanswered.
- A module id that is registered again (`lib/consoleService.js:115`) leaves the job
  of its old record running after `stop()`, and has two jobs when it is enabled again:
  `OneJobPerRecord` speaks of records, not of ids.
- `disable()` cancels a job only if its id is true (`lib/consoleService.js:144`): a job
  of id 0 goes on running, and enabling the record again gives it a second job.
  `OneJobPerRecord` names this job as the one exception.
- `aclControl` on a monitor (`lib/consoleService.js:440`) asks for a method the
  monitor's agent does not have: a broadcast command throws there.

### Fairness

`FairSpec` of `MonitorSession` assumes weak fairness of what the event loops
and TCP bring about by themselves: the start of master and process, the
reading of a message that has arrived, the end of a cut stream at either end,
the reconnect timer, the callbacks of handlers and of `authServer`. It assumes
nothing of cuts, requests, notifications, `close()`, the keepalive or the
timeout of the first attempt. The number of cuts is bounded: for ever broken
connections nothing can be promised. A process that died is started again, unless `MaxRestart` deaths have happened (the
properties then say "gone"), and its streams are cut; a death need not happen. `FairSpec` of `AdminSession` assumes the
same of the client and the master, and that a handler that received a question
calls back once; the second call need not come.

`FairSpec` of `WatchServer` assumes strong fairness of the answer to a request
while its server is present: a server that comes back again and again is sent the
request again each time, by the repush, and answers in the end. That servers come
back is not assumed: it is the premise of `QuestionsAreAnswered`.

## Proofs

The proofs hold for every number of servers, clients, connections, addresses,
requests, questions and attempts. They use the named assumptions on constants of
each module and nothing else, but for what a theorem says.

### The master (`MasterAgentProofs`, `MasterTableProofs`)

| Theorem | Says | Assumes |
|---|---|---|
| `TypeCorrect` | `[]TypeOK` | the named assumptions of `MasterAgent` |
| `QosTableIsExact` | `[]OutstandingIsQueued` | the same |
| `CallbacksAreCalledOnce` | `[]AnsweredAtMostOnce` | the same |
| `ClientIdsAreOwned` | `[]ClientOwnsId` | the same |
| `PrimariesAreRegistered` | `[]PrimaryIsRegistered` | `NoInfo \notin Info`: every monitor reports its address |
| `TypeMapIsAnIndex` | `[]ByTypeIndexesPrimaries` | the same |
| `RecipientsStayOpen` | `[]RecipientsAreOpen` | moreover `~AsyncAuth` |
| `OutstandingReachesPrimary` | `[]PrimaryHasOutstanding` | moreover `~AsyncAuth` |
| `RegisteredAreRecorded` | `[]RegisteredHasRecord` | `NoInfo \notin Info` and `NoOverlap`: connections that speak for one id differ in address |
| `AgentImplementsTable` | `ImplementsRequestTable` | the named assumptions |

The assumption `NoInfo \notin Info` cannot be dropped: the record of a monitor
that greeted without info stays in `idMap` after its connection has ended.
`~AsyncAuth` cannot be dropped either: a late verdict may register a connection
that has ended.

The argument. `TypeOK` alone is not inductive: that a server's records have a
server's id and type depends on what a connection said when it greeted, so
`TypeInv` adds `GreetedOK`: a connection that is registered or waits for its
verdict has a client's or a server's identity. On top of `TypeInv`:

- `QosInv` adds that ids not yet given have neither callback nor target, so
  that a new request is new in every table.
- `ClientOwnsId` is inductive by itself: a login checks that the id is free, and
  only the connection that owns an id releases it.
- `PrimaryInv` joins `PrimaryIsRegistered` and `ByTypeIndexesPrimaries`, which
  need each other: the place that `removeConnection` splices out of `typeMap` is
  that of the record it deletes from `idMap` only because the list repeats
  nothing and each record carries its own id. Lemmas on lists (`RemoveAt`, `Min`,
  appending to and removing from a list without repetitions) carry this. When a
  connection ends, its address is that of its record, so it is its own primary
  that goes.
- `RecordInv` adds to `RegisteredHasRecord` that a slave record has the address of
  its connection, and that no two connections that are registered, or wait for their
  verdict, have the same id and address. A removal by address then takes the primary
  only from the connection it belongs to (`PrimaryInv`), and of the slaves a record
  that no other registered connection has (`SpliceKeepsOthers`). Records of dead
  slaves, which the code leaves in `slaveMap`, may have the same address and do no
  harm: the first that is found is removed, and nobody who is registered needs it.
- `RegisteredAreOpen` says that registered connections are open; with `PrimaryInv`
  and `ClientOwnsId` it gives `RecipientsAreOpen`.

`NextCases` splits a step into the handlers and calls once for all; each
preservation lemma then has one step for each action that can disturb it.

`AgentImplementsTable` maps each handler to a step of `RequestTable` or to a
stutter (`NextImplements`): the end of a connection to `Depart` or nothing, a
greeting to `Arrive`, `Deliver` or `Admit`, `request()` to `Ask` of one id, a
response to `Answer`. It rests on `QosInv`: that what is repushed is what the table
calls outstanding is `OutstandingIsQueued`, and that the first answer is an
`Answer` needs a target for each callback that was delivered.

### The client and those who own one (`MqttClientProofs`, `MonitorAgentProofs`, `AdminSessionProofs`)

`ClientInvariant` proves one invariant of MqttClient, `ClientInv`: the six
properties of its run, with `Begun` (streams are opened in order, nothing is
pending before the first, and a client without a socket is closed or has not
begun, or its first attempt has set the flag that keeps later ones from being
timed) and `NoneLeftOver` (a client that waits for an attempt has no interval of an
earlier connection). They need each other: there is one keepalive interval because
none is left over when a stream is acknowledged, and none is left over because a
reconnect is only made by a loss that clears it. Each of the six is then a theorem: `ClientTypeCorrect`,
`ExitOnlyBeforeConnect`, `OneReconnectAtATime`, `OneKeepAliveAtATime`,
`NoTimerWithoutSocket`, `ReconnectsAreNotTimed`. `ClientCore`, the part of
`ClientInv` that does not count attempts from the start of the process, also holds of a
client that was started again, so the session with restarts uses it.
`FirstStreamIsFirst` says that until the first acknowledgement, and as long as the
connection it made lasts, one stream at most was opened.

`AgentImplementsClient` and `SessionImplementsClient` show that the agent, and the
admin client with the master, only ever do what a MqttClient does, so that all six
hold of them as well (`AgentKeepsClientInvariants`). `AgentTypeCorrect` adds the
agent's tables; `LossesAreBetweenConnections`, an action property, needs moreover
that a handler or token can only be pending after a first connection (`Idle`) and,
with `~LateEvents`, that a client without a socket is not connected (`Gap`): an
abandoned stream that still reports may null the socket of the connection that
replaced it. `CallbacksAreCalledOnce` of `AdminSessionProofs` carries
`CallbackIsOwedOrCalled` with `Asked`: ids that were not given have no callback.

`LoginsAreHeld` proves `LoginIsHeld` from `LoginInv`. A client greets on its first
stream only (`FirstAttempt`), so the master's admission is under way on that stream or
nowhere (`Outbox`, `OnFirstOnly`); and from the moment the master writes it until the
stream is cut, the id is held for that stream (`Held`).

### A monitor and its master (`MonitorSessionProofs`)

The theorems are about `SafeSpec`, for any number of streams, cuts, requests and
deaths of either process.

| Theorem | Says | Assumes |
|---|---|---|
| `SessionInvariant` | `[](Sound /\ Registry)`, the inductive invariant | `~AsyncToken`, and `PromptClose` or no restarts |
| `ProcessIsNoSlave` | `[]NeverItsOwnSlave` | the same |
| `GreetingsFindTheMasterReady` | `[]GreetingsAreExpected` | the same |
| `EndsAgree` | `[]AgreeWhenQuiet` | moreover `~AsyncHandler`, `MaxNotify = 0`, and `~MayRefuse` or `~LateEvents` |
| `NothingAnsweredIsAskedAgain` | `[]AnsweredIsNotRunAgain` | the same as `EndsAgree` |

TLC finds a counterexample for each hypothesis when it is dropped: with `AsyncToken`
for `GreetingsAreExpected` (and, with two cuts, for `NeverItsOwnSlave`), with restarts
and `PromptClose = FALSE` for `NeverItsOwnSlave` and `AgreeWhenQuiet`, with a late
handler or a notification for `AgreeWhenQuiet` and `AnsweredIsNotRunAgain`, and with
refusals and late events together for the same two (see "Departures"). One exception: `GreetingsFindTheMasterReady` takes `PromptClose` or no
restarts from `SessionInvariant`, and TLC finds no violation of
`GreetingsAreExpected` without it.

`Sound` is the types and the client's `ClientCore`. `Registry` has four parts that
need each other:

- `Owns`: the master has one record of the process at most, of a registered stream
  that it sees open, and no slaves;
- `Links`: what the two ends know of a stream fits together (nothing is under way on
  one that is cut, the current stream is not an unused one, ...);
- `Registration`: while a `register` is under way it is the first message of the
  current stream, every other stream carries nothing, no reconnect is pending and
  the master knows nobody of this id;
- `Inited`: the same of an agent that has not greeted, up to the acknowledgement
  that will make it greet.

A `register` therefore finds the id free, which keeps the slaves empty; a
`reconnect` is refused by the master itself while the id is taken. `EndsAgree` needs
the state of the conversation: `Conversing` says that the current stream, unless it
is cut, is `Dialing` (nothing acknowledged), `Greeting` (one greeting under way),
`Admitted` (the confirmation, then repushed requests), `Refused` or `Serving`
(requests one way, answers the other, both ends registered), and each action takes
one of these to itself or to the next. `Refused` is the state after either refusal:
what the master repushed is dropped there, because the process is not registered
(`Idle`), and the DISCONNECT, if there is one, makes it leave. A stream that was left
so is `Shed` if the process hears nothing of it again: it writes nothing there, and
the master may still write what it likes. With late events there is no such stream,
hence the hypothesis. A client that was closed for good (`Over`) is outside.

`NothingAnsweredIsAskedAgain` holds of a closed agent too, and there is more to it
than to the others: a client that was closed may still be acknowledged, greet, be
admitted and be sent what is owed, with its DISCONNECT before the greeting or behind
it. `Ordered` is what is left of the conversation then: the process is live on one
stream at most; until that is acknowledged it carries DISCONNECTs only, and until its
one greeting was heard the master has written nothing on it but the CONNACK. An
admission therefore never meets an answer or a request of the same stream. To it the
proof adds `Ledger` (the QoS table is what the callbacks owe, so that a repush sends
nothing answered) and `Once`: on a stream that is not cut every request is owed, is
there once, and its answer is not there with it.

### Questions (`WatchServerProofs`)

`WatchInvariant` proves `WatchInv`: types, `Issued` (ids that were not given belong
to no question, and a callback that is gone was called) and, for each question,
`Sound`: its latch is the number of its callbacks still owed, what it was told and
what it has gathered are those of the requests that were answered, and it threw
only if it asked nobody. A fan-out makes as many new requests as it counts
(`NewRequests`, from the bijection of ids and servers), an answer removes exactly
one of them, and nothing else disturbs a question. `LatchesAreExact`,
`GatheringIsComplete`, `NoCallbackThrows` and `WatchTypeCorrect` follow.
`ClientsAreToldOnce` adds `ToldInv`: a question to one server makes one request at
most and, unless that was refused, its client is told nothing before the answer and
one thing by it; a question that is answered at once is told one thing. A gathered
answer comes once by `WatchInv`.

### Modules (`ConsoleServiceProofs`)

`ServiceInvariant` proves `TypeOK`, `OneJobPerRecord`, `Entries` (the current entry of
a module is a record that exists) and `IdsGrow` (no two jobs of a process have the
same id, and each was given before `nextJob`). A record that is turned on therefore
gets an id no job has; one that is turned off knows the id of its job, whichever of
`enable`, `start` or a command turned it on, and cancels no other record's
(`ProcessKeeps`, `TurnOnKeeps`, `TurnOffKeeps`). `JobsMatchRecords` and
`ServiceTypeCorrect` follow for any `FirstJob`. `NoJobIsLeftBehind` drops the exception
of `OneJobPerRecord` under the hypothesis `FirstJob # 0`, which the test of
`lib/consoleService.js:144` needs.

### Only model-checked

All invariants and all action properties of the runs are proved; the liveness
properties (`RequestsAreAnswered`, `FinallyRegistered`, `QuestionsAreAnswered` of
`WatchServer` and of `AdminSession`, `IdIsReleased`) are not: temporal reasoning
under fairness is out of the prover's reach.

## Not modelled

- JSON text, topics of MQTT, logging, the length of delays.
- The values map, `execute()` and the list command of ConsoleService, which
  read or store what modules give them.
- `profiler` and `profileProxy`, a proxy between snapshots of a native library and
  a browser; `nodeInfo` and `systemInfo`, caches of what `ps` and `iostat` print, in
  which each entry is what arrived last; the commands that `monitorLog` and
  `scripts` run, and their files: I/O and formatting of other programs' data.
- The default authentication from files (`lib/util/utils.js`): a verdict is any.
- What a monitor reads of, or sets in, its application to answer watchServer: the
  application is not part of the repository.
- Two or more monitors in a session: the registry's interplay of several
  monitors is in `MasterAgent`, whose environment is wider than any number of
  them.

## Plan

Done: the registry and request tables of the master, the table they implement,
the client, the agent and the admin client, the sessions of both with the master,
with deaths and restarts of monitor and master, watchServer's questions, and the
module registry; the proofs listed above.

Left, in this order:

1. That the master of a session only does what `MasterAgent` allows
   (`SafeSpec => M!Spec`, without a death of the master), so that every theorem about
   the master holds in a session. `MasterAgent` bounds DISCONNECT packets to one on a
   stream; a session whose agent may be closed can write more.
2. An abstract registry, "a set of records per id, one of them the primary",
   implemented by `MasterAgent` under `NoOverlap`.
3. `GreetingsAreExpected` with restarts and half-open connections, from an invariant
   that does not need the slaves to be empty.
4. The caches of the periodic modules, were the repository to say how fresh an
   entry has to be.

## Running

    tlc -config MasterRegistry.cfg MCMasterAgent
    tlapm MasterAgentProofs.tla     (and each of the other *Proofs modules)

Each run names its module and configuration in `PROJECT.json`. The definitions
marked "Mutant" stand beside the definition they vary: each is a plausible
mistake in the code, under which TLC finds the property that the mutant is
listed with violated.
