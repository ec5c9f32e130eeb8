------------------------------- MODULE Engine -------------------------------
(***************************************************************************)
(* The engine, its connection pool and its collectors (engine.go, the      *)
(* ConnPool of pool.go and router.go in internal/collector), composed.     *)
(* A connection's methods are the atomic steps that RouterConn justifies   *)
(* (ImplementsSingleLink); here the steps of the goroutines that call them *)
(* interleave: Engine.Start and Stop, AddRouter and RemoveRouter, one      *)
(* health loop and one collector per registered router.                    *)
(*                                                                         *)
(* Each AddRouter makes a RouterConn and a RouterCollector; both are named *)
(* by the number of that registration.  A goroutine that Engine.Start      *)
(* launches is named by the number of that Start and the registration.     *)
(* Clients are named by small numbers, re-used once nobody holds them.     *)
(***************************************************************************)
EXTENDS Naturals, FiniteSets

CONSTANTS Routers,        \* router IDs
          MaxConns,       \* bound: registrations in a behaviour
          MaxStarts,      \* bound: calls of Engine.Start
          MaxFaults,      \* bound: failed dials, lost clients, timed out pings
          StartWhileRunning \* may Engine.Start be called again before Stop?

ASSUME EngineAssumption ==
  /\ MaxConns \in Nat
  /\ MaxStarts \in Nat
  /\ MaxFaults \in Nat
  /\ StartWhileRunning \in BOOLEAN

Conns == 1..MaxConns
Starts == 1..MaxStarts
Goroutines == Starts \X Conns
\* One client per connection and one held by each collector goroutine.
Clients == 1..(MaxConns + MaxConns * MaxStarts)

VARIABLES
  current,   \* pool.connections and engine.collectors: router to registration
  made,      \* how many registrations there have been
  routerOf,  \* config.ID of each registration
  link,      \* each connection's rc.client, 0 for nil; connected iff not 0
  open,      \* clients whose socket has not been closed on this side
  lost,      \* open clients that the router no longer answers
  running,   \* RouterCollector.running
  cancelOf,  \* RouterCollector.cancel: the Start it belongs to, 0 for nil
  stopped,   \* collector goroutines whose own context has been cancelled
  epoch,     \* how many Starts; Engine.cancel belongs to the last one
  ctxOff,    \* Starts whose context has been cancelled by Stop
  parentOff, \* has the context given to Start been cancelled?
  opc,       \* where the goroutine is that calls Engine.Start and Stop
  batch,     \* ConnPool.Start's local routers
  pending,   \* those of batch whose first Connect has not returned
  task,      \* collector goroutines: where, on which connection and client
  monitor,   \* health loops: where each of them is
  faults     \* faults so far

registry == <<current, made, routerOf>>
sockets == <<link, open, lost>>
contexts == <<epoch, ctxOff, parentOff>>
operator == <<opc, batch, pending>>
collector == <<running, cancelOf, stopped>>
vars == <<current, made, routerOf, link, open, lost, running, cancelOf,
          stopped, epoch, ctxOff, parentOff, opc, batch, pending,
          task, monitor, faults>>

TaskStates == {"none", "spawned", "loop", "get", "connect", "acquire",
               "stream", "releaseClean", "releaseError", "sleep", "done"}
MonitorStates == {"none", "waiting", "connect", "ping", "release", "done"}

TypeOK ==
  /\ current \in [Routers -> 0..MaxConns]
  /\ made \in 0..MaxConns
  /\ routerOf \in [1..made -> Routers]
  /\ link \in [Conns -> {0} \cup Clients]
  /\ lost \subseteq open /\ open \subseteq Clients
  /\ running \in [Conns -> BOOLEAN]
  /\ cancelOf \in [Conns -> 0..MaxStarts]
  /\ stopped \subseteq Goroutines
  /\ epoch \in 0..MaxStarts /\ ctxOff \subseteq Starts /\ parentOff \in BOOLEAN
  /\ opc \in {"idle", "connecting", "collectors", "waitCollectors",
              "waitMonitors", "stopped"}
  /\ pending \subseteq batch /\ batch \subseteq Conns
  /\ task \in [Goroutines -> [at : TaskStates, conn : 0..MaxConns,
                              client : {0} \cup Clients]]
  /\ monitor \in [Goroutines -> MonitorStates]
  /\ faults \in 0..MaxFaults

Init ==
  /\ current = [r \in Routers |-> 0]
  /\ made = 0
  /\ routerOf = [k \in {} |-> 0]
  /\ link = [k \in Conns |-> 0] /\ open = {} /\ lost = {}
  /\ running = [k \in Conns |-> FALSE]
  /\ cancelOf = [k \in Conns |-> 0]
  /\ stopped = {}
  /\ epoch = 0 /\ ctxOff = {} /\ parentOff = FALSE
  /\ opc = "idle" /\ batch = {} /\ pending = {}
  /\ task = [t \in Goroutines |-> [at |-> "none", conn |-> 0, client |-> 0]]
  /\ monitor = [t \in Goroutines |-> "none"]
  /\ faults = 0

-----------------------------------------------------------------------------
(* Contexts, connections.                                                  *)

Registered == {current[r] : r \in Routers} \ {0}

\* ctx.Done() of the context that the n-th Start derived.
Over(n) == parentOff \/ n \in ctxOff
\* ctx.Done() of a collector goroutine's own child context.
TaskOver(t) == Over(t[1]) \/ t \in stopped

Fault == faults < MaxFaults /\ faults' = faults + 1

Unused == Clients \ (open \cup {task[t].client : t \in Goroutines})
Fresh == CHOOSE n \in Unused : TRUE

\* RouterConn.Connect of connection c, over telling whether its context is.
ConnectSucceeds(c, over) ==
  /\ IF link[c] # 0
       THEN UNCHANGED sockets
       ELSE /\ ~over
            /\ link' = [link EXCEPT ![c] = Fresh]
            /\ open' = open \cup {Fresh}
            /\ UNCHANGED lost
  /\ UNCHANGED faults

ConnectFails(c, over) ==
  /\ link[c] = 0
  /\ IF over THEN UNCHANGED faults ELSE Fault
  /\ UNCHANGED sockets

\* RouterConn.Close or Release of the connections in C: whatever their
\* clients are by now.
CloseAll(C) ==
  LET closed == {link[c] : c \in C} IN
  /\ link' = [c \in Conns |-> IF c \in C THEN 0 ELSE link[c]]
  /\ open' = open \ closed
  /\ lost' = lost \ closed

\* The router or the network drops a connection.
Drop(n) ==
  /\ n \in open \ lost
  /\ Fault
  /\ lost' = lost \cup {n}
  /\ UNCHANGED <<registry, link, open, collector, contexts, operator,
                 task, monitor>>

-----------------------------------------------------------------------------
(* AddRouter and RemoveRouter, from any goroutine and at any time.         *)

\* Faulty variant: cancel is called without testing it for nil.
StopCollectorsUntested(C) ==
  /\ stopped' = stopped \cup {<<cancelOf[k], k>> : k \in C}
  /\ running' = [k \in Conns |-> running[k] /\ k \notin C]
  /\ UNCHANGED cancelOf

\* RouterCollector.Stop of the collectors in C.
StopCollectors(C) ==
  /\ stopped' = stopped \cup
       {<<cancelOf[k], k>> : k \in {c \in C : cancelOf[c] # 0}}
  /\ running' = [k \in Conns |-> running[k] /\ k \notin C]
  /\ UNCHANGED cancelOf

AddRouter(r) ==
  LET k == made + 1
      old == {current[r]} \ {0}
  IN /\ made < MaxConns
     /\ made' = k
     /\ routerOf' = [j \in 1..k |-> IF j = k THEN r ELSE routerOf[j]]
     /\ current' = [current EXCEPT ![r] = k]
     /\ StopCollectors(old)
     /\ CloseAll(old)
     /\ UNCHANGED <<contexts, operator, task, monitor, faults>>

RemoveRouter(r) ==
  /\ current[r] # 0
  /\ current' = [current EXCEPT ![r] = 0]
  /\ StopCollectors({current[r]})
  /\ CloseAll({current[r]})
  /\ UNCHANGED <<made, routerOf, contexts, operator, task, monitor, faults>>

-----------------------------------------------------------------------------
(* Engine.Start, Engine.Stop and the caller's context.                     *)

\* A new context replaces Engine.cancel and ConnPool.cancel, whatever they
\* were, and the pool takes the list of the registered connections.
Start ==
  /\ epoch < MaxStarts
  /\ IF epoch = 0 \/ StartWhileRunning THEN opc \in {"idle", "stopped"}
                                       ELSE opc = "stopped"
  /\ epoch' = epoch + 1
  /\ opc' = "connecting"
  /\ batch' = Registered
  /\ pending' = Registered
  /\ UNCHANGED <<registry, sockets, collector, ctxOff, parentOff,
                 task, monitor, faults>>

FirstConnect(c) ==
  /\ opc = "connecting"
  /\ c \in pending
  /\ pending' = pending \ {c}
  /\ ConnectSucceeds(c, Over(epoch)) \/ ConnectFails(c, Over(epoch))
  /\ UNCHANGED <<registry, collector, contexts, opc, batch, task, monitor>>

\* Every first Connect has returned: one health loop per connection.
StartMonitors ==
  /\ opc = "connecting"
  /\ pending = {}
  /\ monitor' = [t \in Goroutines |->
                  IF t[1] = epoch /\ t[2] \in batch THEN "waiting" ELSE monitor[t]]
  /\ opc' = "collectors"
  /\ batch' = {}
  /\ UNCHANGED <<registry, sockets, collector, contexts, pending, task, faults>>

\* One goroutine per collector that is registered by now.
StartCollectors ==
  /\ opc = "collectors"
  /\ task' = [t \in Goroutines |->
               IF t[1] = epoch /\ t[2] \in Registered
                 THEN [task[t] EXCEPT !.at = "spawned"] ELSE task[t]]
  /\ opc' = "idle"
  /\ UNCHANGED <<registry, sockets, collector, contexts, batch, pending,
                 monitor, faults>>

\* Faulty variant: Stop waits without cancelling anything.
StopWithoutCancel ==
  /\ opc = "idle"
  /\ epoch # 0
  /\ opc' = "waitCollectors"
  /\ UNCHANGED <<registry, sockets, collector, contexts, batch, pending,
                 task, monitor, faults>>

\* Stop cancels the context of the last Start (a repeated Stop changes
\* nothing and is left out).
Stop ==
  /\ opc = "idle"
  /\ epoch # 0
  /\ ctxOff' = ctxOff \cup {epoch}
  /\ opc' = "waitCollectors"
  /\ UNCHANGED <<registry, sockets, collector, epoch, parentOff, batch, pending,
                 task, monitor, faults>>

CollectorsReturned ==
  /\ opc = "waitCollectors"
  /\ \A t \in Goroutines : task[t].at \in {"none", "done"}
  /\ opc' = "waitMonitors"
  /\ UNCHANGED <<registry, sockets, collector, contexts, batch, pending,
                 task, monitor, faults>>

\* Faulty variant: ConnPool.Stop does not wait for its health loops.
MonitorsNotAwaited ==
  /\ opc = "waitMonitors"
  /\ opc' = "stopped"
  /\ CloseAll(Registered)
  /\ UNCHANGED <<registry, collector, contexts, batch, pending,
                 task, monitor, faults>>

\* ConnPool.Stop, its health loops gone, closes what is registered.
MonitorsReturned ==
  /\ opc = "waitMonitors"
  /\ \A t \in Goroutines : monitor[t] \in {"none", "done"}
  /\ opc' = "stopped"
  /\ CloseAll(Registered)
  /\ UNCHANGED <<registry, collector, contexts, batch, pending,
                 task, monitor, faults>>

CancelParent ==
  /\ epoch # 0
  /\ ~parentOff
  /\ parentOff' = TRUE
  /\ UNCHANGED <<registry, sockets, collector, epoch, ctxOff, operator,
                 task, monitor, faults>>

-----------------------------------------------------------------------------
(* RouterCollector.Start, in the goroutine t.                              *)

At(t, place) == task[t].at = place
Goto(t, place) == task' = [task EXCEPT ![t].at = place]

\* Faulty variant: Start without the test of running.
TaskAlwaysBegins(t) ==
  /\ At(t, "spawned")
  /\ Goto(t, "loop")
  /\ running' = [running EXCEPT ![t[2]] = TRUE]
  /\ cancelOf' = [cancelOf EXCEPT ![t[2]] = t[1]]
  /\ UNCHANGED <<registry, sockets, stopped, contexts, operator, monitor, faults>>

TaskBegins(t) ==
  LET k == t[2] IN
  /\ At(t, "spawned")
  /\ IF running[k]
       THEN Goto(t, "done") /\ UNCHANGED <<running, cancelOf>>
       ELSE /\ Goto(t, "loop")
            /\ running' = [running EXCEPT ![k] = TRUE]
            /\ cancelOf' = [cancelOf EXCEPT ![k] = t[1]]
  /\ UNCHANGED <<registry, sockets, stopped, contexts, operator, monitor, faults>>

\* Faulty variant: the loop does not look at its context.
LoopForever(t) ==
  /\ At(t, "loop")
  /\ Goto(t, "get")
  /\ UNCHANGED <<registry, sockets, collector, contexts, operator, monitor, faults>>

LoopTop(t) ==
  /\ At(t, "loop")
  /\ Goto(t, IF TaskOver(t) THEN "done" ELSE "get")
  /\ UNCHANGED <<registry, sockets, collector, contexts, operator, monitor, faults>>

\* Faulty variant: the pool keeps a router's first connection for ever.
GetFirstConn(t) ==
  LET r == routerOf[t[2]]
      c == IF current[r] = 0 THEN 0
           ELSE CHOOSE k \in 1..made : /\ routerOf[k] = r
                                       /\ \A j \in 1..(k - 1) : routerOf[j] # r
  IN /\ At(t, "get")
     /\ task' = [task EXCEPT ![t].conn = c,
                             ![t].at = IF c = 0 THEN "sleep"
                                       ELSE IF link[c] = 0 THEN "connect" ELSE "acquire"]
     /\ UNCHANGED <<registry, sockets, collector, contexts, operator, monitor, faults>>

\* The connection is looked up by the router's ID, and its state is read.
GetConn(t) ==
  LET c == current[routerOf[t[2]]] IN
  /\ At(t, "get")
  /\ task' = [task EXCEPT ![t].conn = c,
                          ![t].at = IF c = 0 THEN "sleep"
                                    ELSE IF link[c] = 0 THEN "connect" ELSE "acquire"]
  /\ UNCHANGED <<registry, sockets, collector, contexts, operator, monitor, faults>>

ConnectConn(t) ==
  LET c == task[t].conn IN
  /\ At(t, "connect")
  /\ \/ ConnectSucceeds(c, TaskOver(t)) /\ Goto(t, "acquire")
     \/ /\ ConnectFails(c, TaskOver(t))
        /\ task' = [task EXCEPT ![t].at = "sleep", ![t].conn = 0]
  /\ UNCHANGED <<registry, collector, contexts, operator, monitor>>

Acquire(t) ==
  LET n == link[task[t].conn] IN
  /\ At(t, "acquire")
  /\ task' = IF n = 0 THEN [task EXCEPT ![t].at = "sleep", ![t].conn = 0]
                      ELSE [task EXCEPT ![t].at = "stream", ![t].client = n]
  /\ UNCHANGED <<registry, sockets, collector, contexts, operator, monitor, faults>>

EndSession(t) == Goto(t, IF TaskOver(t) THEN "releaseClean" ELSE "releaseError")

\* Every spec has to return: its context is cancelled or its client closed.
SessionEnds(t) ==
  /\ At(t, "stream")
  /\ TaskOver(t) \/ task[t].client \notin open
  /\ EndSession(t)
  /\ UNCHANGED <<registry, sockets, collector, contexts, operator, monitor, faults>>

\* Every spec returns for another reason: the lost client is noticed (a
\* silent loss may never be), or the router ends all of the commands.
SessionFails(t) ==
  /\ At(t, "stream")
  /\ IF task[t].client \in lost THEN UNCHANGED faults ELSE Fault
  /\ EndSession(t)
  /\ UNCHANGED <<registry, sockets, collector, contexts, operator, monitor>>

\* The connection is released with the client it has by now.
ReleaseConn(t) ==
  /\ At(t, "releaseClean") \/ At(t, "releaseError")
  /\ task' = [task EXCEPT ![t] =
       [at |-> IF At(t, "releaseClean") THEN "done" ELSE "sleep",
        conn |-> 0, client |-> 0]]
  /\ CloseAll({task[t].conn})
  /\ UNCHANGED <<registry, collector, contexts, operator, monitor, faults>>

SleepEnds(t) ==
  /\ At(t, "sleep")
  /\ Goto(t, "loop") \/ (TaskOver(t) /\ Goto(t, "done"))
  /\ UNCHANGED <<registry, sockets, collector, contexts, operator, monitor, faults>>

\* What the goroutine does without waiting for the router to fail.
TaskStep(t) ==
  \/ TaskBegins(t) \/ LoopTop(t) \/ GetConn(t) \/ ConnectConn(t) \/ Acquire(t)
  \/ SessionEnds(t) \/ ReleaseConn(t) \/ SleepEnds(t)

-----------------------------------------------------------------------------
(* ConnPool.healthLoop, in the goroutine t.                                *)

Watch(t, place) == monitor' = [monitor EXCEPT ![t] = place]

Tick(t) ==
  /\ monitor[t] = "waiting"
  /\ Watch(t, IF link[t[2]] = 0 THEN "connect" ELSE "ping")
  /\ UNCHANGED <<registry, sockets, collector, contexts, operator, task, faults>>

MonitorConnects(t) ==
  /\ monitor[t] = "connect"
  /\ ConnectSucceeds(t[2], Over(t[1])) \/ ConnectFails(t[2], Over(t[1]))
  /\ Watch(t, "waiting")
  /\ UNCHANGED <<registry, collector, contexts, operator, task>>

PingAnswered(t) ==
  /\ monitor[t] = "ping"
  /\ link[t[2]] # 0 /\ link[t[2]] \notin lost
  /\ Watch(t, "waiting")
  /\ UNCHANGED <<registry, sockets, collector, contexts, operator, task, faults>>

\* Faulty variant: a failed ping is logged and no more.
PingFailsQuietly(t) ==
  /\ monitor[t] = "ping"
  /\ link[t[2]] \in lost \cup {0}
  /\ Watch(t, "waiting")
  /\ UNCHANGED <<registry, sockets, collector, contexts, operator, task, faults>>

\* No client, a lost one, a cancelled context, or the ping's own timeout.
PingFails(t) ==
  /\ monitor[t] = "ping"
  /\ IF link[t[2]] \in lost \cup {0} \/ Over(t[1]) THEN UNCHANGED faults ELSE Fault
  /\ Watch(t, "release")
  /\ UNCHANGED <<registry, sockets, collector, contexts, operator, task>>

MonitorReleases(t) ==
  /\ monitor[t] = "release"
  /\ CloseAll({t[2]})
  /\ Watch(t, "waiting")
  /\ UNCHANGED <<registry, collector, contexts, operator, task, faults>>

MonitorStops(t) ==
  /\ monitor[t] = "waiting"
  /\ Over(t[1])
  /\ Watch(t, "done")
  /\ UNCHANGED <<registry, sockets, collector, contexts, operator, task, faults>>

MonitorStep(t) ==
  \/ Tick(t) \/ MonitorConnects(t) \/ PingAnswered(t) \/ PingFails(t)
  \/ MonitorReleases(t) \/ MonitorStops(t)

-----------------------------------------------------------------------------
OperatorStep ==
  \/ \E c \in Conns : FirstConnect(c)
  \/ StartMonitors \/ StartCollectors \/ CollectorsReturned \/ MonitorsReturned

Environment ==
  \/ \E r \in Routers : AddRouter(r) \/ RemoveRouter(r)
  \/ Start \/ Stop \/ CancelParent
  \/ \E n \in Clients : Drop(n)
  \/ \E t \in Goroutines : SessionFails(t)

Next ==
  \/ OperatorStep
  \/ Environment
  \/ \E t \in Goroutines : TaskStep(t) \/ MonitorStep(t)

Spec == Init /\ [][Next]_vars

\* Every goroutine runs: dials, pings and sleeps end by their timeouts, a
\* session whose context or client is gone ends.  A health loop with both its
\* ticker and its context ready picks one at random, so it cannot pick the
\* ticker for ever (SF).  Nothing makes the environment act.
Fairness ==
  /\ WF_vars(OperatorStep)
  /\ \A t \in Goroutines : /\ WF_vars(TaskStep(t))
                           /\ WF_vars(MonitorStep(t))
                           /\ SF_vars(MonitorStops(t))

FairSpec == Spec /\ Fairness

-----------------------------------------------------------------------------
(* Safety.                                                                 *)

Streaming(t) == At(t, "stream")

\* After Engine.Stop nothing is left running, and what is registered is
\* closed and stays closed: no health loop or collector reconnects it.
StoppedIsQuiet ==
  opc = "stopped" =>
    /\ \A t \in Goroutines : /\ task[t].at \in {"none", "done"}
                             /\ monitor[t] \in {"none", "done"}
    /\ \A c \in Registered : link[c] = 0

\* The goroutines of registered collectors never stream two on one client:
\* the ownership that AcquireAsync promises, over any number of Starts.
ExclusiveStream ==
  \A t, u \in Goroutines :
    /\ Streaming(t) /\ Streaming(u) /\ t # u
    /\ {t[2], u[2]} \subseteq Registered
    => task[t].client # task[u].client

\* A registered collector streams on no connection but its own.
StreamsOnItsOwn ==
  \A t \in Goroutines :
    t[2] \in Registered => task[t].conn \in {0, t[2]}

\* RemoveRouter, and an AddRouter that replaces, stop the goroutine that is in
\* the collector's loop, over any number of Starts: the cancel function that
\* the collector keeps is that goroutine's.  One that Engine.Start has launched
\* but that has not begun is missed, and runs on.
Begun(t) == task[t].at \notin {"none", "spawned", "done"}
RemovalStops ==
  [][\A t \in Goroutines :
       Begun(t) /\ t[2] \in Registered \ Registered' => TaskOver(t)']_vars

\* What the ConnPool's comment says: a connection is closed on shutdown.
ShutdownClosesAll == opc = "stopped" => open = {}

-----------------------------------------------------------------------------
(* Liveness.                                                               *)

Stopping == opc \in {"waitCollectors", "waitMonitors"}

\* Engine.Stop returns.
StopReturns == Stopping ~> (opc = "stopped")

\* A collector whose context is cancelled, by RemoveRouter, by Stop or by
\* the application, comes to its end.
CancelledCollectorEnds ==
  \A t \in Goroutines :
    (TaskOver(t) /\ task[t].at # "none") ~> At(t, "done")

\* A collector that counts as running since an earlier Start: Engine.Stop ends
\* its goroutine and leaves the flag, and the next Start's does nothing.
StillCounted(t) == cancelOf[t[2]] \notin {0, t[1]}

\* A collector that is launched, and whose connection has a health loop, gets
\* to stream on a live client, and back to it after any number of failures
\* (the health loop closes a silently lost client under it), unless it is
\* cancelled, its router is removed or it still counts as running.
KeepsCollecting ==
  \A t \in Goroutines :
    ((At(t, "spawned") \/ At(t, "loop")) /\ monitor[t] # "none") ~>
      \/ Streaming(t) /\ task[t].client \in open \ lost
      \/ TaskOver(t)
      \/ t[2] \notin Registered
      \/ StillCounted(t)

\* The registration k is being collected.
Collected(k) == \E t \in Goroutines : Streaming(t) /\ task[t].conn = k

Active == epoch # 0 /\ opc = "idle" /\ ~Over(epoch)

\* Every router registered with a running engine is collected, whenever it
\* was added and whatever Start and Stop came before.
EveryRouterCollects ==
  \A k \in Conns :
    (Active /\ k \in Registered) ~> \/ Collected(k)
                                     \/ ~Active
                                     \/ k \notin Registered
=============================================================================
