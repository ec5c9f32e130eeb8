# A verification of RosKit

RosKit keeps one API connection to each of a set of MikroTik routers, listens on
each with 39 telemetry commands, and writes what it hears to InfluxDB (points),
Redis (a snapshot per entity, and announcements) and a list of "inactive" users
per router. These modules model that program, from the connection up to the two
stores. TLC checks them on small instances, and TLAPS proves the main results
for every instance. Source paths below are relative to the repository.

Contents: [the system](#1-the-system), [modules and code](#2-modules-and-code),
[runs](#3-runs), [fairness](#4-fairness), [proofs](#5-proofs),
[what the checks found](#6-what-the-checks-found),
[what is left out](#7-what-is-left-out), [plan](#8-plan).

To repeat a run: `tlc -config X.cfg M`, with the module and the configuration of
the tables below; to repeat a proof: `tlapm M.tla`.

## 1. The system

| component | state | operations | used by |
|---|---|---|---|
| `RouterConn` (collector/pool.go) | state, client, reconnectDelay under an `RWMutex` | Connect, ReconnectWithBackoff, AcquireAsync, Release, IsAlive, ExecuteContext, State, Close | health loop, collector, API callers |
| `ConnPool` (collector/pool.go) | router ID to connection, the cancel function of its health loops | Register, Unregister, Get, Start, Stop, one health loop per connection | engine, collectors |
| `Engine` (collector/engine.go) | router ID to collector, cancel function, wait group | AddRouter, RemoveRouter, Start, Stop, ExecuteCommand | the application |
| `RouterCollector` (collector/router.go) | running, cancel, a local delay | Start (sessions until cancelled), Stop; per session one goroutine for each spec | engine |
| stream specs (spec/, domain/) | none | Parse: sentence to event | collector |
| `TelemetryUseCase` (usecase/telemetry.go) | none | ProcessEvent: point, snapshot, announcement, aggregation | every spec goroutine of every router |
| `InactiveAggregator` (usecase/aggregator.go) | configured and active users per router, under a mutex | Update; recalculations in goroutines of their own | telemetry use case |
| `InfluxDBRepository` (repository/influxdb.go) | the buffer, under a mutex; its flush loop | WritePoint, Flush, Close | telemetry use case, main |
| `RedisRepository` (repository/redis.go) | none (Redis) | SetSnapshot, DeleteSnapshot, Publish | telemetry use case, aggregator |
| `Executor` (tool/executor.go) | none | Run, and commands made of it, through Engine.ExecuteCommand | API callers |
| example program (cmd/example/main.go) | none | assembly; signal, Engine.Stop, Flush, Close | |

What is hard about it:

- **Three parties share a connection.** The collector streams on its client, the
  health loop pings and closes it, API callers send commands on it, and removal
  or shutdown closes it, all without telling each other. A session keeps the
  client it has acquired; Release closes the one the connection has *by now*.
- **The lock is held over network I/O**: the write lock for a whole dial, the
  read lock for a whole command, and a waiting writer keeps readers out.
- **Lifecycles overlap.** AddRouter, RemoveRouter, Start and Stop may be called
  at any time. A replaced collector goes on until it notices, and it looks its
  connection up *by router ID*, where its successor's is by then.
- **Backpressure.** One reader of a client serves all specs through bounded
  channels and waits while one is full, even for the reply to a `/cancel`, and so
  a slow store delays the answers of pings and commands on that connection.
- **Deletions are events.** A snapshot is deleted only when the router says
  `.dead` while somebody listens, and a dead sentence carries almost nothing.
- **Each store may fail alone**, and the failure is only logged; a point is kept
  for another write, a snapshot is not.

What correctness means, component by component, is what the properties below
state; `PROJECT.json` ties each to the hazards it covers ("hazards").

## 2. Modules and code

| module | models | abstraction / composition |
|---|---|---|
| `SingleLink` | what a connection promises: at most one live client, of which any user may be using the one it has | abstract specification |
| `RouterConn` | `RouterConn` of pool.go | implements `SingleLink`; any goroutine calls any method |
| `Engine` | engine.go, `ConnPool`, the flags and loop of router.go | composes pool, engine, collectors and health loops; the methods of a connection are single steps here, which `ImplementsSingleLink` justifies |
| `StreamSession` | `Start`, `acquireAndStream`, `runAllSpecs`, `runSpec` of router.go | the inside of one collector, with the reader of the routeros library as an external process |
| `SpecCatalog` | the 39 specs and the columns of the domain types | constant definitions only |
| `EntityCache` | what the readers of the snapshots and of their announcements are promised: one event of a key at a time, written before it is announced, and no other key touched | abstract specification |
| `Telemetry` | telemetry.go, aggregator.go, what Parse makes of a sentence | implements `EntityCache`; uses `SpecCatalog`; the router's tables and the two stores as environment |
| `PointLog` | a log that stores what is appended, in order, before forgetting it | abstract specification |
| `InfluxWriter` | influxdb.go | implements `PointLog` |
| `Pipeline` | a session, the writer that its specs fill, the health check and the Executor's commands on its connection, the shutdown of cmd/example/main.go | composes `StreamSession` and `InfluxWriter`, of which it uses the actions |
| `RouterConnProofs`, `EngineProofs`, `StreamSessionProofs`, `InfluxWriterProofs`, `PipelineProofs`, `SpecCatalogProofs`, `TelemetryProofs`, `TelemetryCacheProofs` | | theorems and proofs |
| `MC*` | | model values, symmetry and the sets of flows for TLC |

Definitions whose comment begins "Faulty variant" are not part of any
specification. Each is a plausible bug in the definition next to it, and the
check that the properties can fail replaces the one by the other ("mutants" in
`PROJECT.json`).

**RouterConn.** `state`, `client`, `reconnectDelay` are the fields of the struct.
A client is the number of its dial, `open` the sockets not closed, `async` the
clients on which Async was called. `pc[p]` and `op[p]` say in which method a
goroutine is and where: waiting for the lock, holding it, dialling, running its
command on the client `used[p]`, or sleeping. The mutex is no variable; who holds
it is read off the `pc`s, because each section unlocks by `defer`. A section
without I/O is one step, and Connect and the two commands are split at the I/O.
ReconnectWithBackoff is a loop of actions around Connect, with the delay in
`delay[p]` and, as in the code, in the shared field as well.

**Engine.** Each registration (AddRouter) makes a connection *and* a collector;
both have its number k. `current[r]` is the registration that the two maps hold for
router r. A goroutine is the pair of the Start that launched it and k: `task` is the
collector there (its place, and the connection and client it holds), `monitor`
the health loop. `opc` is the place of the goroutine that calls Start and Stop. The
contexts are `ctxOff`, `parentOff` (the application's) and `stopped` (a
collector's own). `link[k]` is the client of connection k; since a connection is
connected if and only if it has a client (`StateMatchesClient`), state needs no
variable. `lost` are the clients to which the router has stopped answering without
closing them.

**StreamSession.** `place` is where Start is and `spec[s]` where the goroutine of s is.
`queue[s]` counts the sentences on the channel of s, `hand` is the sentence which the
reader is trying to put on a channel, `sent` and `handled` count.

**SpecCatalog and Telemetry.** A spec is a record: measurement, mode (follow or
interval), cache key (`.id` or name), the attributes it asks for and those that its
entity reads, tags, fields. An entity has an id and a name, and the name stands for
all its attributes: with two names the model distinguishes a current snapshot from a
stale one. A flow is a spec on a router. The environment adds, changes and removes
entities; while a session is up a followed menu sends the change, a dead sentence
has only the attributes that Parse reads there, and a polled menu repeats its
table. ProcessEvent is one step per repository call, in the code's order, and each call
may fail. Aggregator updates happen under its mutex; each recalculation runs on its own.

**InfluxWriter.** `points` counts the points, in the order in which they took the lock;
`buffer` and `stored` hold their numbers. The steps of flushLocked are
split where the HTTP request is sent, applied, and answered, so that a request
may fail before or after the server has stored it, and a request with one of the
points `Refused` (which the server refuses for what it contains) always fails. Main ends as
cmd/example/main.go does, the engine being stopped: Flush and Close, or Close alone.

**Pipeline.** The variables are those of the two components, with `written` (specs whose
present event has reached the writer), `waiting` (who waits for the answer to a command)
and `closing` (the health check has failed and waits to close the client). The handling
of an event by a spec is where they meet: WritePoint is the writer's `BufferPoint`, and the spec goes on
when that has returned. An answer is read by the reader of the sentences, after
those before it. Main stops the engine when it is cancelled, which the session must
end for, and only then flushes and closes the writer.

## 3. Runs

Those that pass (a run of invariants, but that of Pipeline, checks its `TypeOK` as well):

| run | module | instance | shows |
|---|---|---|---|
| `RouterConn_safety` | `MCRouterConn` | 3 goroutines, 2 dials, intervals 1 and 3; 247 thousand states up to symmetry | `NoSocketLeak`, `StateMatchesClient`, `CommandKeepsItsClient`, `WaitsEnd`, `AsyncOnlyWhenQuiet`, `ImplementsSingleLink` |
| `RouterConn_liveness` | `MCRouterConn` | 2 goroutines, callers with deadlines | `EveryCallReturns`, `CancelledRetryEnds` |
| `Engine_safety` | `MCEngine` | 1 router, 2 registrations, 2 Starts (also without a Stop in between), 1 fault; 3.1 million states | `StoppedIsQuiet`, `ExclusiveStream`, `StreamsOnItsOwn`, `RemovalStops` |
| `Engine_live` | `MCEngine` | the same with Start only after Stop | `StopReturns`, `CancelledCollectorEnds`, `KeepsCollecting` |
| `StreamSession` | `MCStreamSession` | 2 specs, channels of 1, 3 sentences, 2 faults; 34 thousand states | `NoSpecOutlivesSession`, `AllHandledAtEnd`, `EndsOnlyWhenCancelled`, `CancelEnds`, `DeadClientEnds`, `ReaderProgress` |
| `Telemetry` | `MCTelemetry` | every pair of the 39 specs on one router and every spec on two routers (819 initial states); 1 id, 2 names, 2 changes, 1 fault; 2.7 million states | `SnapshotsCurrent`, `RemovedForgotten`, `EventsWellFormed`, `InactiveListed`, `ImplementsEntityCache` |
| `InfluxWriter` | `MCInfluxWriter` | 2 writers, batches of 2, 8 points of which the server refuses one, 4 failed writes | `NothingLost`, `BufferBounded`, `ImplementsPointLog`, `EverythingStored`, `CloseReturns` |
| `Pipeline` | `MCPipeline` | 2 specs, channels of 1, batches of 2, one command without a deadline, 3 sentences, faults and failed writes together; 375 thousand states | `ExitPersists`, `ImplementsWriter`, `ShutdownCompletes`, `CommandsReturn` |

The others each show one disagreement, see section 6: `Engine_dynamic`, `Engine_shutdown`,
`Telemetry_deleted`, `Telemetry_panic`.

Why the bounds are enough for what is asked:

- *RouterConn.* Three goroutines give a holder, a waiter and a third
  that is on its way between two sections; a third dial could only repeat what the
  second shows, since the methods compare the client with nil and with nothing else.
  The delays 1, 2, 3 pass the cap without being a multiple of it. The safety
  results are proved for all values.
- *Engine.* A replaced collector needs two registrations of one router, a stale
  goroutine two Starts, a broken connection one fault. Two routers interact only
  through the shared wait groups and maps; `Engine_dynamic` and `Engine_shutdown` have two.
  The safety invariants are proved for all values.
- *StreamSession.* With two specs one is slow while the other wants its sentence;
  a channel of 1 fills with two sentences and the reader then holds a third. The
  invariants are proved for all values.
- *Telemetry.* Two specs can disagree only about a key they both write, so that pairs
  are enough, and all pairs are taken. Two changes make an entity appear and be
  renamed, or appear and go. One fault lets each repository call fail once, at every
  place. One entity is enough to find what the catalogue gets wrong; that entities do
  not disturb each other is proved, with all the invariants of the run, for all values.
- *InfluxWriter.* 8 points are four batches, 4 failures let the buffer
  grow to double its batch and be sent repeatedly, and the sixth point, if it is
  refused, has stored points before it and points behind it. The safety results are proved for
  all values.
- *Pipeline.* Three events are enough for a full channel with a sentence in the reader's hand
  behind it, or a batch that fails while a spec is waiting. The run reaches `Stranded`,
  so that the exception in its liveness properties is not vacuous. Safety is proved
  for all values.

`CHECK_DEADLOCK FALSE` stands where the system may stop: a stopped engine, an ended
collector, a closed writer, a process that has panicked, or a router with no changes
left. The RouterConn runs check deadlock.

## 4. Fairness

- *RouterConn*: strong fairness of acquiring the write lock and of the readers that a
  writer lets in (a `sync.Mutex` that is waited for over a millisecond is handed over, and an
  RWMutex admits the waiting readers when a writer leaves); weak fairness of bodies,
  sleeps, dials (DialTimeout) and pings (5 s). ExecuteContext ends by itself only
  if its caller bounds its context, so `CallersSetDeadline` is a constant and `TRUE`
  in the liveness run.
- *Engine*: weak fairness of each goroutine's own steps, strong fairness of a health
  loop's ctx.Done() case, because `select` picks at random among the ready ones. Nothing
  obliges the environment: clients need not break, and a silent loss is noticed by
  the ping alone.
- *StreamSession*: weak fairness of the collector, the specs and the reader, strong
  fairness of ctx.Done() in a spec's `select`, for the same reason. The five seconds
  of the `/cancel` make its return unconditional.
- *InfluxWriter*: fairness of the lock and of the loop's `select` as above; and the server
  answers, in the end with success unless a point is refused. The last is an assumption about the
  environment, without which `EverythingStored` could not hold; failures are otherwise arbitrary.
- *Pipeline*: weak fairness of each goroutine, of the server's answers and of the router's to
  commands, strong fairness of the writer's done case as above. Contexts of the callers in
  `Patient` never end. Sentences, faults and failed writes are finitely many but otherwise unconstrained.

## 5. Proofs

All theorems hold for every value of the constants that satisfies the module's
named assumption: any number of goroutines, routers, registrations, Starts, specs or
writers, any batch, queue, intervals and bounds. No other fact is assumed.

**Never stuck, only forward.** A liveness property says that something happens under
fairness. Its other half needs none: that in every state of the wait a step can be taken, and
that steps lead nearer to the end and never back. These halves are proved for all values, and
fairness alone is left to TLC. The guards of the steps are written out in the theorem, since
ENABLED is out of the prover's reach; where a rank is stated, it is a function of the place.

| liveness, checked by TLC | proved for all values |
|---|---|
| `EveryCallReturns`, `CancelledRetryEnds` | `NoCircle`: who waits for the mutex waits for one that can move, and in no circle; `MethodsEnd`: every step of a method, and every step of another that moves it, is nearer to its return |
| `StopReturns` | `StopWaitsForTheTold`: every goroutine that Stop waits for has its context cancelled |
| `CancelledCollectorEnds` | `CancelledIsLastRound`: the cancellation stays, and each step is nearer to the end |
| `CancelEnds`, `DeadClientEnds` | `EndNeverStuck` (a step is there for every place of a session that is to end), `CancelIsLast` |
| `ReaderProgress` | `ReaderNotBlocked`: until it is cancelled, the reader waits for no spec that does not make room |
| `CloseReturns` | `CloseNeverStuck`, `CloseIsLast` |
| `ShutdownCompletes`, `CommandsReturn` | `ShutdownNeverStuck`; and `StrandedHangs`, that in the excepted state Stop really never returns |

**RouterConnProofs** (`ConnAssumption`). `ConnInv` is the conjunction of the type
invariant, the safety invariants, `Mutex` (one goroutine at a time has the
writers' mutex) and `DialAlone` (while one dials nobody reads, and the client is still
nil). The invariants are not inductive by themselves: that Connect leaks no socket depends on
nobody having dialled since its test of the client, which `DialAlone` says; and
`DialAlone` is preserved because of `Mutex`. From it:
`TypeCorrect`, of which the bound of the delays is a conjunct (`LongestDelay`: doubling
stays below the larger of the two intervals, whichever that is); `NoLeaks` (`NoSocketLeak`);
`StateAgrees` (`StateMatchesClient`); `CommandsKeep` (`CommandKeepsItsClient`);
`SwitchesWhenQuiet` (the action property `AsyncOnlyWhenQuiet`); `NoCircle` (`WaitsEnd`) and
`MethodsEnd`, with `InItsMethod`, which says at what places which method may be; and
`Refinement`, that each step of a RouterConn is a step or a stutter of `SingleLink`.

**EngineProofs** (`EngineAssumption`). None of the three invariants of `Engine_safety` is
inductive. `EngineInv` joins `TypeOK` with what they rest on:

- `Numbering`: a registration is found under its own router only, and numbers still to
  come are in use nowhere. `StreamsOnItsOwn` follows with it.
- `Places`: at which places a collector holds a connection and a client.
- `Ownership`: an open client belongs to one connection, and only that connection's users
  hold it. With it, and a count of the clients in use (`FreshClient`, by the pigeonhole
  principle), a dial always finds an unused name, which the type of `link` depends on.
- `Launched` and `CollectorsGone`: goroutines are launched between the beginning and the
  end of their Start, and Stop closes the pool only when all collectors have ended. Both
  are needed for `StoppedIsQuiet`.
- `OneLoop`: the flag `running` of a registered collector lets one goroutine into its
  loop. Together with `Ownership` and `StreamsOnItsOwn` it gives `ExclusiveStream`.

Theorems: `TypeCorrect`, `StopIsFinal`, `OwnConnection`, `StreamsExclude`, and
`RemovalCancels`: removing or replacing a registration cancels the goroutine that is in its loop,
as the cancel function kept is that goroutine's. From `Ownership` also `NoSocketIsLost` (each open
socket is the client of exactly one connection), `PingSeesTheStream` (what a collector streams on
is what its health loop pings, which `KeepsCollecting` rests on) and `StopClosesRegistered`: the sockets
that survive Stop, against the comment of section 6, belong to removed routers and to nothing else.
`CancelledIsLastRound` uses `Launched`, as no later Start may launch the goroutine again.
`StopWaitsForTheTold` adds `OneContext` (every context but the running Start's is cancelled). It
excludes a Start of a running engine (`StartWhileRunning`), with which it is false (section 6).

**StreamSessionProofs** (`StreamAssumption`). `Accounted` is the key: while the
goroutine of a spec runs, what was read for it is the sum of what it has handled, what
it is handling, what is on its channel and what is in the reader's hand. With
`NothingUnasked` (the reader holds nothing for a closed channel) an empty, closed
channel means that all was handled. `CleanIsCancelled` says who may return without an error, and
gives `EndsOnlyWhenCancelled`. Theorems: `TypeCorrect`, `SessionsContained`,
`SentencesHandled`, `GivesUpOnlyWhenTold`; with `InSession` (what may be going on at which
place of the collector) `ReaderNotBlocked`, `EndNeverStuck` and `CancelIsLast`. That the delay stays below its maximum is a
conjunct of `TypeOK`.

**InfluxWriterProofs** (`WriterAssumption`). The invariant is `Typing` (types, and
that whoever is inside flushLocked holds the mutex) and `BufferInv`: the buffer is
the newest points, in order; everything older is stored; and all of it is stored
while an applied request has not been answered. The last two make the emptying of
the buffer safe. Theorems: `TypeCorrect`, `PointsKept` (`NothingLost`),
`LogImplemented` (`PointLog`), `BufferKept` (`BufferBounded`). `EndInv` says where main, the loop and
the writers can be once the writer is being closed; from it `CloseNeverStuck`, which includes that
the final flush has the mutex to itself, and `CloseIsLast`.

**PipelineProofs** (`PipelineAssumption`). `PipeInv` says where the two components hold each
other: a spec has a point in the buffer, or the writer's mutex, only while it handles an
event; outside a session no spec runs; main leaves `serving` only when the collector is
done. From it `WriterImplemented` (each step of the assembled program is a step of `InfluxWriter`,
whose guards assume that nobody writes after the engine has stopped), and with the writer's
`BufferKept` and `PointsKept`, instantiated, `ExitIsClean` (`ExitPersists`). `SessionKept`
is the same for the other component: the steps that the composition takes on a session are its own or
leave it alone, and the invariants of a session hold within the assembled program. `CommandInv` relates
the commands to the connection's lock and to the reader; from it `ShutdownNeverStuck` (unless
`Stranded`, the shutdown has a step to take, of main, the session, the writer or a command) and
`StrandedHangs` (no step leaves `Stranded`).

**SpecCatalogProofs** (no assumption). `MeasurementsDistinct` and `CatalogWellFormed`, by the 39
records.

**TelemetryProofs** (`TelemetryAssumption`). `TypeCorrect`; `PointsWellFormed` (`EventsWellFormed`),
from the catalogue's theorems and `EventsOwn`, that a flow's event has a key of that flow;
`CacheImplemented` (`ImplementsEntityCache`), in which a flow's event in ProcessEvent is the event in
hand of its key: nobody else has that key in hand, since the measurements are distinct (`OneFlow`,
`KeysDiffer`), and no call touches another (`HandSplit`, `HandMoves`). `CachedBeforeAnnounced`
is inherited: `EntityCache!AnnouncedIsCached` is proved of the abstract cache alone, with `CachedFirst`,
that what has been tried and is not yet announced is what the cache says;
`InactiveIsListed` (`InactiveListed`) with `OneAtATime`, that a list without overlap has one
recalculation at most, whose result is still right.

**TelemetryCacheProofs** (`TelemetryAssumption`). `LastWord(f, x, v)` says that the last
that flow f has heard, or will hear, of the key x is the value v: the last sentence on its way about x, or else the
event in hand that has not reached the cache, or else the cache (or x's last write has failed).
`LiveSaid` is that it is the router's present value for every live entity, unless the table is
due to be sent, and `GoneSaid` that it is nothing for a removed one. Every step of ProcessEvent hands the last word on
(`WordKept`); a change on the router replaces that of one key, as no two entities of a table share a
key (`TablesSound`, `RowKeysDiffer`), and no two flows do (`FlowsApart`, from
`MeasurementsDistinct`); a table that is sent mentions every entity once (`TableInFull`: an
injection between sets of one size is a surjection). `NothingYet` and `IdsOnly` are what `GoneSaid` starts from.
Theorems: `SnapshotsFollow` (`SnapshotsCurrent`), `RemovalsFollow` (`RemovedForgotten`).

**Only model-checked**: the liveness properties as such, as the prover does not handle fairness;
their halves without fairness are in the table above, except of `EverythingStored` (that its
points are not lost meanwhile is `NothingLost`) and `KeepsCollecting`. The written-out guards in
those theorems were compared with ENABLED by TLC on the instances of section 3. `EveryRouterCollects`
and the other properties of section 6 are false. Every invariant and action property that a run checks is also proved.

## 6. What the checks found

Each of these runs ends in a counterexample:

| run | what the repository says | what the code does |
|---|---|---|
| `Engine_shutdown`: `ShutdownClosesAll` | a connection is "Closed on pool shutdown" (pool.go:263) | RemoveRouter closes a connection and forgets it while its health loop, or the first Connect of a Start under way, goes on and dials it again; Stop closes only what is registered |
| `Engine_dynamic`: `EveryRouterCollects` | routers can be added while the engine runs (docs/usage.md:230) | AddRouter only registers: no collector, no health loop |
| `Telemetry_deleted`: `InactiveUsersExist` | the aggregator's map is of the configured users (aggregator.go:67) | a dead event names no user, and nothing is deleted |
| `Telemetry_panic`: `NoPanic` | a fallback "if field mapping changes" (aggregator.go:82) | the type assertion before it panics on an active session's event, which has no such field, and the process ends |

Observations without a run of their own, because nothing in the repository says
otherwise or because one of the models above already has the behaviour:

- *Lifecycle.* RemoveRouter before the collector goroutine has reached Start is lost,
  and the collector runs on. A router added between ConnPool.Start and the engine's
  loop over its collectors is collected without a health loop. A second Start without Stop
  loses the first cancel function, so Stop may wait for ever. After Stop, a second Start
  collects nothing: `running` is cleared only by RouterCollector.Stop, which Engine.Stop
  does not call. A collector with an empty list of specs ends at once.
- *Connection.* Release may close a client that its caller did not acquire. Delays are
  not reset by a session that worked, against the comment at router.go:158; with a
  ReconnectInterval above MaxReconnectInterval the first delay exceeds the maximum
  (config.go:24). The health loop reconnects at each tick without a backoff. A failed spec waits
  until all the others have failed too. A ping has 5 s, the write of a batch 10 s: with slow
  stores the answer of a ping can wait so long behind a full channel that a working connection is closed.
- *Shutdown.* A command without a deadline can wait for ever for an answer that lies behind a
  sentence for the full channel of a spec that has ended; it holds the read lock for
  which Release waits, so that Engine.Stop never returns. `Stranded` in `Pipeline` is that state.
- *Stores.* Two overlapping recalculations may write the older list last. A failed DEL is never
  repeated. A renamed interface or queue leaves the snapshot of its old name.
  "enabled" of the L2TP server is a tag and a field of one point. While InfluxDB is down the buffer
  grows without bound and every WritePoint sends all of it; a write that timed out after
  being stored is sent again. A point that the server refuses is never taken out of the buffer, and every
  later batch is refused with it. A second Close panics. An entity that goes while no session
  is up never sends a dead sentence; its snapshot stays, without TTL.

`SnapshotsCurrent`, `RemovedForgotten`, `InactiveListed` and `KeepsCollecting` name
the cases they except for these reasons (a failed call, a lapse of the session, a menu
keyed by name, overlapping recalculations, no health loop).

## 7. What is left out

- The values of attributes: parser.go's conversions (numbers, durations, dates) and
  the arithmetic of `ToFields`. Telemetry takes from the parser `FormatCacheKey`, which is injective
  as router IDs and measurements contain no ":", and what `IsDead` decides.
- `RouterConfig.Defaults`, whose results are constants here; `GetSnapshot` and the status
  methods, which change nothing; the no-op repositories; the words of the Executor's commands;
  the Redis readers of the example program. Of parser.go, `ParseDuration`, `ParseInt64`,
  `ParseMikroTikTime` and `SentenceToMap` are called by nobody.
- Liveness of Telemetry: with fairness its state space does not fit the time of a run.
- A restart of the process: there is no persistent state but the two stores, and what a
  restart does to the cache is what a lapse of a session does.
- The routeros library, Redis and InfluxDB, which appear as environments: the library's reader,
  commands that succeed or fail, requests that are applied or not.

Assumptions on the routers: a sentence carries the attributes that the
command asked for, a dead one too; a polled menu repeats its table when it has changed.

## 8. Plan

Done, in this order: the connection and its proofs; engine, pool and collectors and
their proofs; a session and its proofs; the catalogue and the telemetry use case with its aggregator;
the InfluxDB writer and its proofs; the composition of session, writer and shutdown, and its
proofs; the proofs about the catalogue, the telemetry use case and the cache; the cache as its readers know it;
the halves of the liveness properties that need no fairness.

Next:

1. The value parser as operators over bounded inputs: booleans, unsigned numbers at their limits.
2. Liveness of Telemetry on small sets of flows: a change is announced in the end. Of its half
   without fairness, that a sentence on its way is delivered in order, `TelemetryCacheProofs` has the most.
3. The steps of Engine on a connection as steps of `SingleLink`, which needs names of clients that
   are not used again.
