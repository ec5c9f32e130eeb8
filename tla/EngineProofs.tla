---------------------------- MODULE EngineProofs ----------------------------
(***************************************************************************)
(* Theorems about Engine, for any routers and any number of registrations, *)
(* Starts and faults.                                                      *)
(***************************************************************************)
EXTENDS Engine, FiniteSetTheorems, TLAPS

Idle == {"none", "spawned", "loop", "get", "sleep", "done"}
Holding == {"stream", "releaseClean", "releaseError"}

\* A registration's number is found under its own router only, and the
\* numbers that are still to come are in use nowhere.
Numbering ==
  /\ \A r \in Routers : current[r] \in 0..made
  /\ \A r \in Routers : current[r] # 0 => routerOf[current[r]] = r
  /\ batch \subseteq 1..made
  /\ \A t \in Goroutines : task[t].conn \in 0..made
  /\ \A t \in Goroutines :
       t[2] \notin 1..made => task[t].at = "none" /\ monitor[t] = "none"
  /\ \A k \in Conns : k \notin 1..made => link[k] = 0

\* What a collector holds at each place.
Fits(p, k, n) ==
  /\ p \in Idle <=> k = 0
  /\ p \in Holding <=> n # 0
Places == \A t \in Goroutines : Fits(task[t].at, task[t].conn, task[t].client)

\* Each open client is the client of one connection.
OneOwner ==
  /\ \A c, d \in Conns : link[c] # 0 /\ link[c] = link[d] => c = d
  /\ \A c \in Conns : link[c] # 0 => link[c] \in open
  /\ \A n \in open : \E c \in Conns : link[c] = n

\* Only users of that connection hold it, and they may go on holding it when
\* the connection has dropped it.
HeldThrough ==
  /\ \A t \in Goroutines : \A c \in Conns :
       task[t].client # 0 /\ task[t].client = link[c] => task[t].conn = c
  /\ \A t, u \in Goroutines :
       task[t].client # 0 /\ task[t].client = task[u].client =>
         task[t].conn = task[u].conn

Ownership == OneOwner /\ HeldThrough

\* Goroutines are launched by the end of their Start, and not before it.
Launched ==
  \A t \in Goroutines :
    task[t].at # "none" =>
      t[1] <= epoch /\ (t[1] = epoch => opc \notin {"connecting", "collectors"})

\* Once collectors have been waited for, there are none until the next Start.
CollectorsGone ==
  opc \in {"waitMonitors", "stopped"} =>
    \A t \in Goroutines : task[t].at \in {"none", "done"}

\* The flag of a registered collector admits one goroutine to its loop, and
\* the cancel function is the one of that goroutine.
OneLoop ==
  /\ \A t \in Goroutines :
       Begun(t) /\ t[2] \in Registered => running[t[2]] /\ cancelOf[t[2]] = t[1]
  /\ \A t, u \in Goroutines :
       Begun(t) /\ Begun(u) /\ t[2] = u[2] /\ t[2] \in Registered => t = u

EngineInv ==
  /\ TypeOK
  /\ Numbering
  /\ Places
  /\ Ownership
  /\ Launched
  /\ CollectorsGone
  /\ StoppedIsQuiet
  /\ StreamsOnItsOwn
  /\ OneLoop

-----------------------------------------------------------------------------
\* There are as many client names as connections and collector goroutines can
\* hold, so that a dial on a connection without a client finds a free one.
LEMMA FreshClient ==
  ASSUME TypeOK, Ownership, NEW c \in Conns, link[c] = 0
  PROVE  /\ Fresh \in Clients /\ Fresh # 0
         /\ Fresh \notin open
         /\ \A t \in Goroutines : task[t].client # Fresh
         /\ \A d \in Conns : link[d] # Fresh
<1> USE EngineAssumption
<1> DEFINE Seats == (0..MaxStarts) \X Conns
           Others == Seats \ {<<0, c>>}
           At0(n, d) == \/ d[1] = 0 /\ link[d[2]] = n
                        \/ d[1] # 0 /\ task[d].client = n
<1>1. /\ IsFiniteSet(Clients)
      /\ Cardinality(Clients) = MaxConns + MaxConns * MaxStarts
  <2>1. MaxConns + MaxConns * MaxStarts \in Nat
    OBVIOUS
  <2>2. \A b \in Nat : IsFiniteSet(1..b) /\ Cardinality(1..b) = b
    BY FS_Interval
  <2>3. QED
    BY <2>1, <2>2 DEF Clients
<1>2. IsFiniteSet(Others) /\ Cardinality(Others) < Cardinality(Clients)
  <2>1. IsFiniteSet(0..MaxStarts) /\ Cardinality(0..MaxStarts) = MaxStarts + 1
    BY FS_Interval
  <2>2. IsFiniteSet(Conns) /\ Cardinality(Conns) = MaxConns
    BY FS_Interval DEF Conns
  <2>3. IsFiniteSet(Seats) /\ Cardinality(Seats) = (MaxStarts + 1) * MaxConns
    BY <2>1, <2>2, FS_Product
  <2>4. <<0, c>> \in Seats
    OBVIOUS
  <2>5. IsFiniteSet(Seats)
    BY <2>3
  <2>6. IsFiniteSet(Others) /\ Cardinality(Others) = Cardinality(Seats) - 1
    <3> HIDE DEF Seats
    <3> QED BY <2>4, <2>5, FS_RemoveElement
  <2>7. (MaxStarts + 1) * MaxConns - 1 < MaxConns + MaxConns * MaxStarts
    OBVIOUS
  <2> QED BY <1>1, <2>3, <2>6, <2>7
<1>3. Unused # {}
  <2> SUFFICES ASSUME Unused = {} PROVE FALSE
    OBVIOUS
  <2>1. ASSUME NEW n \in Clients PROVE \E d \in Others : At0(n, d)
    <3>0. n # 0
      BY DEF Clients
    <3>1. CASE n \in open
      <4>1. PICK d \in Conns : link[d] = n
        BY <3>1 DEF Ownership, OneOwner
      <4>2. <<0, d>> \in Others /\ At0(n, <<0, d>>)
        BY <3>0, <4>1
      <4> QED BY <4>2
    <3>2. CASE n \notin open
      <4>1. PICK t \in Goroutines : task[t].client = n
        BY <3>2 DEF Unused
      <4>2. t \in Others /\ t[1] # 0
        BY DEF Goroutines, Starts, Conns
      <4> QED BY <4>1, <4>2
    <3> QED BY <3>1, <3>2
  <2> DEFINE seat == [n \in Clients |-> CHOOSE d \in Others : At0(n, d)]
  <2>2. \A n \in Clients : seat[n] \in Others /\ At0(n, seat[n])
    BY <2>1
  <2> HIDE DEF seat, Others
  <2>3. seat \in [Clients -> Others]
    BY <2>2 DEF seat
  <2>4. PICK m, n \in Clients : m # n /\ seat[m] = seat[n]
    BY <1>1, <1>2, <2>3, FS_PigeonHole
  <2>5. QED
    BY <2>2, <2>4
<1>4. Fresh \in Unused
  BY <1>3 DEF Fresh
<1>5. Fresh # 0
  BY <1>4 DEF Unused, Clients
<1>6. QED
  BY <1>4, <1>5 DEF Unused, Ownership, OneOwner

-----------------------------------------------------------------------------
\* What the steps of a collector goroutine change in task: its own entry,
\* which is at p then, on connection k and with client n.
TaskType ==
  [Goroutines -> [at : TaskStates, conn : 0..MaxConns, client : {0} \cup Clients]]
Moved(t, p, k, n) ==
  /\ task'[t].at = p /\ task'[t].conn = k /\ task'[t].client = n
  /\ \A u \in Goroutines : u # t => task'[u] = task[u]
  /\ task' \in TaskType

\* Goto changes the place alone.
LEMMA Goes ==
  ASSUME TypeOK, NEW t \in Goroutines, NEW p \in TaskStates, Goto(t, p)
  PROVE  Moved(t, p, task[t].conn, task[t].client)
BY DEF TypeOK, Goto, Moved, TaskType

\* An assignment to two fields of the entry, in the order of GetConn.
LEMMA SetConnAt ==
  ASSUME TypeOK, NEW t \in Goroutines, NEW p \in TaskStates,
         NEW k \in 0..MaxConns,
         task' = [task EXCEPT ![t].conn = k, ![t].at = p]
  PROVE  Moved(t, p, k, task[t].client)
<1>1. task \in TaskType
  BY DEF TypeOK, TaskType
<1>2. task'[t].at = p /\ task'[t].conn = k /\ task'[t].client = task[t].client
  BY <1>1 DEF TaskType
<1>3. \A u \in Goroutines : u # t => task'[u] = task[u]
  BY <1>1 DEF TaskType
<1>4. task' \in TaskType
  BY <1>1 DEF TaskType
<1> QED BY <1>2, <1>3, <1>4 DEF Moved

\* The same, in the order in which the connection is given up.
LEMMA SetAtConn ==
  ASSUME TypeOK, NEW t \in Goroutines, NEW p \in TaskStates,
         NEW k \in 0..MaxConns,
         task' = [task EXCEPT ![t].at = p, ![t].conn = k]
  PROVE  Moved(t, p, k, task[t].client)
<1>1. task \in TaskType
  BY DEF TypeOK, TaskType
<1>2. task'[t].at = p /\ task'[t].conn = k /\ task'[t].client = task[t].client
  BY <1>1 DEF TaskType
<1>3. \A u \in Goroutines : u # t => task'[u] = task[u]
  BY <1>1 DEF TaskType
<1>4. task' \in TaskType
  BY <1>1 DEF TaskType
<1> QED BY <1>2, <1>3, <1>4 DEF Moved

\* The same, for the acquired client.
LEMMA SetAtClient ==
  ASSUME TypeOK, NEW t \in Goroutines, NEW p \in TaskStates, NEW n \in {0} \cup Clients,
         task' = [task EXCEPT ![t].at = p, ![t].client = n]
  PROVE  Moved(t, p, task[t].conn, n)
<1>1. task \in TaskType
  BY DEF TypeOK, TaskType
<1>2. task'[t].at = p /\ task'[t].conn = task[t].conn /\ task'[t].client = n
  BY <1>1 DEF TaskType
<1>3. \A u \in Goroutines : u # t => task'[u] = task[u]
  BY <1>1 DEF TaskType
<1>4. task' \in TaskType
  BY <1>1 DEF TaskType
<1> QED BY <1>2, <1>3, <1>4 DEF Moved

\* An assignment of the whole entry.
LEMMA SetAll ==
  ASSUME TypeOK, NEW t \in Goroutines, NEW p \in TaskStates,
         NEW k \in 0..MaxConns,
         NEW n \in {0} \cup Clients,
         task' = [task EXCEPT ![t] = [at |-> p, conn |-> k, client |-> n]]
  PROVE  Moved(t, p, k, n)
<1>1. task \in TaskType
  BY DEF TypeOK, TaskType
<1>2. task'[t].at = p /\ task'[t].conn = k /\ task'[t].client = n
  BY <1>1 DEF TaskType
<1>3. \A u \in Goroutines : u # t => task'[u] = task[u]
  BY <1>1 DEF TaskType
<1>4. task' \in TaskType
  BY <1>1 DEF TaskType
<1> QED BY <1>2, <1>3, <1>4 DEF Moved

\* Where each action of a collector goroutine takes it.
LEMMA TaskBeginsMoves ==
  ASSUME TypeOK, NEW t \in Goroutines, TaskBegins(t)
  PROVE  \E p \in {"loop", "done"} : Moved(t, p, task[t].conn, task[t].client)
BY Goes DEF TaskBegins, TaskStates

\* The loop goes on, or has seen its context.
LEMMA LoopTopMoves ==
  ASSUME TypeOK, NEW t \in Goroutines, LoopTop(t)
  PROVE  \E p \in {"get", "done"} : Moved(t, p, task[t].conn, task[t].client)
BY Goes DEF LoopTop, TaskStates

\* The sleep ends by its timer or by the context.
LEMMA SleepEndsMoves ==
  ASSUME TypeOK, NEW t \in Goroutines, SleepEnds(t)
  PROVE  \E p \in {"loop", "done"} : Moved(t, p, task[t].conn, task[t].client)
BY Goes DEF SleepEnds, TaskStates

\* A session ends in a release, with what it has held.
LEMMA SessionMoves ==
  ASSUME TypeOK, NEW t \in Goroutines, SessionEnds(t) \/ SessionFails(t)
  PROVE  \E p \in {"releaseClean", "releaseError"} :
           Moved(t, p, task[t].conn, task[t].client)
BY Goes DEF SessionEnds, SessionFails, EndSession, TaskStates

\* The look-up by router ID yields a connection that has been registered, if
\* any.
LEMMA GetConnMoves ==
  ASSUME TypeOK, Numbering, NEW t \in Goroutines, GetConn(t)
  PROVE  LET c == current[routerOf[t[2]]] IN
         /\ c \in 0..made
         /\ \E p \in {"sleep", "connect", "acquire"} :
              (p = "sleep" <=> c = 0) /\ Moved(t, p, c, task[t].client)
<1> DEFINE c == current[routerOf[t[2]]]
           p == IF c = 0 THEN "sleep" ELSE IF link[c] = 0 THEN "connect" ELSE "acquire"
<1>1. t[2] \in 1..made
  BY DEF GetConn, At, Numbering
<1>2. c \in 0..made /\ c \in 0..MaxConns
  BY <1>1 DEF TypeOK, Numbering
<1>3. task' = [task EXCEPT ![t].conn = c, ![t].at = p]
  BY DEF GetConn
<1>4. /\ p \in {"sleep", "connect", "acquire"} /\ p \in TaskStates
      /\ p = "sleep" <=> c = 0
  BY DEF TaskStates
<1> HIDE DEF c, p
<1>5. task \in TaskType /\ task[t].client \in {0} \cup Clients
  BY DEF TypeOK, TaskType
<1>6. Moved(t, p, c, task[t].client)
  BY <1>2, <1>3, <1>4, SetConnAt
<1>7. QED
  BY <1>2, <1>4, <1>6 DEF c

\* The acquired client is the one that the connection has now.
LEMMA AcquireMoves ==
  ASSUME TypeOK, NEW t \in Goroutines, Acquire(t), task[t].conn \in Conns
  PROVE  LET n == link[task[t].conn] IN
         IF n = 0 THEN Moved(t, "sleep", 0, task[t].client)
                  ELSE Moved(t, "stream", task[t].conn, n)
<1> DEFINE n == link[task[t].conn]
<1>1. /\ task \in TaskType /\ n \in {0} \cup Clients
      /\ task[t].client \in {0} \cup Clients /\ task[t].conn \in 0..MaxConns
      /\ 0 \in 0..MaxConns
  BY EngineAssumption DEF TypeOK, TaskType
<1>2. CASE n = 0
  <2>1. task' = [task EXCEPT ![t].at = "sleep", ![t].conn = 0]
    BY <1>2 DEF Acquire
  <2>2. Moved(t, "sleep", 0, task[t].client)
    BY <1>1, <2>1, SetAtConn DEF TaskStates
  <2> QED BY <1>2, <2>2
<1>3. CASE n # 0
  <2>1. task' = [task EXCEPT ![t].at = "stream", ![t].client = n]
    BY <1>3 DEF Acquire
  <2> HIDE DEF n
  <2>2. Moved(t, "stream", task[t].conn, n)
    BY <1>1, <2>1, SetAtClient DEF TaskStates
  <2> QED BY <1>3, <2>2 DEF n
<1> QED BY <1>2, <1>3

\* A release gives up connection and client.
LEMMA ReleaseConnMoves ==
  ASSUME TypeOK, NEW t \in Goroutines, ReleaseConn(t)
  PROVE  \E p \in {"sleep", "done"} : Moved(t, p, 0, 0)
<1>1. PICK p \in {"sleep", "done"} :
        task' = [task EXCEPT ![t] = [at |-> p, conn |-> 0, client |-> 0]]
  BY DEF ReleaseConn
<1>2. task \in TaskType /\ 0 \in 0..MaxConns
  BY EngineAssumption DEF TypeOK, TaskType
<1>3. Moved(t, p, 0, 0)
  BY <1>1, <1>2, SetAll DEF TaskStates
<1> QED BY <1>3

\* A dial leads on to the acquisition, or gives the connection up.
LEMMA ConnectConnMoves ==
  ASSUME TypeOK, NEW t \in Goroutines, ConnectConn(t)
  PROVE  \/ ConnectSucceeds(task[t].conn, TaskOver(t))
            /\ Moved(t, "acquire", task[t].conn, task[t].client)
         \/ ConnectFails(task[t].conn, TaskOver(t))
            /\ Moved(t, "sleep", 0, task[t].client)
<1>1. CASE ConnectSucceeds(task[t].conn, TaskOver(t)) /\ Goto(t, "acquire")
  BY <1>1, Goes DEF TaskStates
<1>2. CASE /\ ConnectFails(task[t].conn, TaskOver(t))
           /\ task' = [task EXCEPT ![t].at = "sleep", ![t].conn = 0]
  <2>1. task \in TaskType /\ task[t].client \in {0} \cup Clients /\ 0 \in 0..MaxConns
    BY EngineAssumption DEF TypeOK, TaskType
  <2>2. Moved(t, "sleep", 0, task[t].client)
    BY <1>2, <2>1, SetAtConn DEF TaskStates
  <2> QED BY <1>2, <2>2
<1> QED BY <1>1, <1>2 DEF ConnectConn

-----------------------------------------------------------------------------
(* What preserves each part of the invariant.                              *)

\* Collectors take no client, though they may let go of one.
NoneTaken ==
  \A t \in Goroutines :
    task'[t].client # 0 =>
      task'[t].client = task[t].client /\ task'[t].conn = task[t].conn

\* The count of faults stays in its bound.
LEMMA FaultCounted == ASSUME TypeOK, Fault PROVE faults' \in 0..MaxFaults
BY EngineAssumption DEF TypeOK, Fault

\* A dial keeps the types of the sockets.
LEMMA ConnectTypes ==
  ASSUME TypeOK, Ownership, NEW c \in Conns, NEW over,
         ConnectSucceeds(c, over) \/ ConnectFails(c, over)
  PROVE  /\ link' \in [Conns -> {0} \cup Clients]
         /\ lost' \subseteq open' /\ open' \subseteq Clients
         /\ faults' \in 0..MaxFaults
<1>1. CASE ConnectSucceeds(c, over)
  <2>1. CASE link[c] = 0
    <3>1. Fresh \in Clients
      BY <2>1, FreshClient
    <3> QED BY <1>1, <2>1, <3>1 DEF ConnectSucceeds, TypeOK
  <2>2. CASE link[c] # 0
    BY <1>1, <2>2 DEF ConnectSucceeds, sockets, TypeOK
  <2> QED BY <2>1, <2>2
<1>2. CASE ConnectFails(c, over)
  BY <1>2, FaultCounted DEF ConnectFails, sockets, TypeOK
<1> QED BY <1>1, <1>2

\* A dial gives a connection without a client a client of its own.
LEMMA ConnectOwnership ==
  ASSUME TypeOK, Ownership, NoneTaken, NEW c \in Conns, NEW over,
         ConnectSucceeds(c, over) \/ ConnectFails(c, over)
  PROVE  Ownership'
<1>1. CASE UNCHANGED <<link, open>>
  BY <1>1 DEF Ownership, OneOwner, HeldThrough, NoneTaken
<1>2. CASE /\ link[c] = 0
           /\ link' = [link EXCEPT ![c] = Fresh]
           /\ open' = open \cup {Fresh}
  <2>1. /\ Fresh # 0 /\ Fresh \notin open
        /\ \A t \in Goroutines : task[t].client # Fresh
        /\ \A d \in Conns : link[d] # Fresh
    BY <1>2, FreshClient
  <2>2. link'[c] = Fresh /\ \A d \in Conns : d # c => link'[d] = link[d]
    BY <1>2 DEF TypeOK
  <2> HIDE DEF Fresh
  <2>3. OneOwner'
    <3>1. \A d, e \in Conns : link'[d] # 0 /\ link'[d] = link'[e] => d = e
      BY <2>1, <2>2 DEF Ownership, OneOwner
    <3>2. \A d \in Conns : link'[d] # 0 => link'[d] \in open'
      BY <1>2, <2>2 DEF Ownership, OneOwner
    <3>3. ASSUME NEW n \in open' PROVE \E d \in Conns : link'[d] = n
      <4>1. CASE n = Fresh
        BY <2>2, <4>1
      <4>2. CASE n # Fresh
        <5>1. PICK d \in Conns : link[d] = n
          BY <1>2, <4>2 DEF Ownership, OneOwner
        <5>2. d # c \/ n = 0
          BY <1>2, <5>1
        <5>3. 0 \notin open
          BY DEF TypeOK, Clients
        <5> QED BY <1>2, <2>2, <4>2, <5>1, <5>2, <5>3
      <4> QED BY <4>1, <4>2
    <3> QED BY <3>1, <3>2, <3>3 DEF OneOwner
  <2>4. HeldThrough'
    BY <2>1, <2>2 DEF Ownership, HeldThrough, NoneTaken
  <2> QED BY <2>3, <2>4 DEF Ownership
<1> QED BY <1>1, <1>2 DEF ConnectSucceeds, ConnectFails, sockets

\* Closing connections takes their clients, and nobody else's.
LEMMA CloseOwnership ==
  ASSUME TypeOK, Ownership, NoneTaken, NEW C \in SUBSET Conns, CloseAll(C)
  PROVE  Ownership'
<1>1. \A d \in Conns : link'[d] = IF d \in C THEN 0 ELSE link[d]
  BY DEF CloseAll
<1>2. \A n : n \in open' <=> n \in open /\ \A d \in C : link[d] # n
  BY DEF CloseAll
<1>3. OneOwner'
  BY <1>1, <1>2 DEF Ownership, OneOwner
<1>4. HeldThrough'
  BY <1>1 DEF Ownership, HeldThrough, NoneTaken
<1> QED BY <1>3, <1>4 DEF Ownership

\* A goroutine that moves must fit its new place.
LEMMA PlacesMoved ==
  ASSUME Places, NEW t \in Goroutines, NEW p, NEW k, NEW n,
         Moved(t, p, k, n), Fits(p, k, n)
  PROVE  Places'
BY DEF Places, Moved

\* A goroutine that moves must stay on registered connections.
LEMMA NumberingMoved ==
  ASSUME Numbering, NEW t \in Goroutines, NEW p, NEW k \in 0..made, NEW n,
         Moved(t, p, k, n), task[t].at # "none",
         UNCHANGED <<current, made, routerOf, batch, monitor>>,
         \A c \in Conns : c \notin 1..made => link'[c] = 0
  PROVE  Numbering'
BY DEF Numbering, Moved

\* A registered goroutine that moves must stay on its own connection.
LEMMA OwnMoved ==
  ASSUME StreamsOnItsOwn, NEW t \in Goroutines, NEW p, NEW k, NEW n,
         Moved(t, p, k, n), UNCHANGED current,
         t[2] \in Registered => k \in {0, t[2]}
  PROVE  StreamsOnItsOwn'
BY DEF StreamsOnItsOwn, Moved, Registered

\* OneLoop is kept by steps that let nobody into the loop and clear no flag of
\* a registered collector.
LEMMA LoopKept ==
  ASSUME OneLoop,
         \A u \in Goroutines : Begun(u)' => Begun(u),
         \A u \in Goroutines : Begun(u) /\ u[2] \in Registered' =>
           /\ u[2] \in Registered
           /\ running'[u[2]] = running[u[2]] /\ cancelOf'[u[2]] = cancelOf[u[2]]
  PROVE  OneLoop'
BY DEF OneLoop

\* Closing connections keeps the types of the sockets.
LEMMA CloseTypes ==
  ASSUME TypeOK, NEW C \in SUBSET Conns, CloseAll(C)
  PROVE  /\ link' \in [Conns -> {0} \cup Clients]
         /\ lost' \subseteq open' /\ open' \subseteq Clients
BY DEF TypeOK, CloseAll

\* RouterCollector.Stop keeps the types of the collectors' variables.
LEMMA StopTypes ==
  ASSUME TypeOK, NEW C \in SUBSET Conns, StopCollectors(C)
  PROVE  /\ running' \in [Conns -> BOOLEAN]
         /\ cancelOf' \in [Conns -> 0..MaxStarts]
         /\ stopped' \subseteq Goroutines
<1>1. running' \in [Conns -> BOOLEAN] /\ cancelOf' = cancelOf
  BY DEF TypeOK, StopCollectors
<1>2. \A k \in C : cancelOf[k] # 0 => <<cancelOf[k], k>> \in Goroutines
  BY EngineAssumption DEF TypeOK, Goroutines, Starts
<1>3. QED
  BY <1>1, <1>2 DEF TypeOK, StopCollectors

\* Registrations are numbered by connections.
LEMMA RegisteredConns == ASSUME TypeOK PROVE Registered \subseteq Conns
BY EngineAssumption DEF TypeOK, Registered, Conns

\* The connection a goroutine works on is registered or was.
LEMMA UsedConn ==
  ASSUME EngineInv, NEW t \in Goroutines, task[t].at \notin Idle
  PROVE  task[t].conn \in Conns /\ task[t].conn \in 1..made
BY EngineAssumption DEF EngineInv, TypeOK, Numbering, Places, Fits, Conns

-----------------------------------------------------------------------------
\* Every step keeps the types.
LEMMA TypesKept == ASSUME EngineInv, Next PROVE TypeOK'
<1> USE DEF EngineInv, registry, sockets, contexts, operator, collector
<1>1. ASSUME NEW r \in Routers, AddRouter(r) PROVE TypeOK'
  <2>1. {current[r]} \ {0} \in SUBSET Conns
    BY EngineAssumption DEF TypeOK, Conns
  <2>2. /\ made + 1 \in 0..MaxConns /\ made + 1 \in 1..(made + 1)
        /\ \A j \in 1..(made + 1) : j # made + 1 => j \in 1..made
    BY <1>1, EngineAssumption DEF TypeOK, AddRouter
  <2>3. routerOf' \in [1..made' -> Routers]
    BY <1>1, <2>2 DEF AddRouter, TypeOK
  <2>4. made' \in 0..MaxConns /\ current' \in [Routers -> 0..MaxConns]
    BY <1>1, <2>2 DEF AddRouter, TypeOK
  <2>5. QED
    BY <1>1, <2>1, <2>3, <2>4, CloseTypes, StopTypes DEF AddRouter, TypeOK
<1>2. ASSUME NEW r \in Routers, RemoveRouter(r) PROVE TypeOK'
  <2>1. {current[r]} \in SUBSET Conns
    BY <1>2, EngineAssumption DEF RemoveRouter, TypeOK, Conns
  <2>2. current' \in [Routers -> 0..MaxConns]
    BY <1>2, EngineAssumption DEF RemoveRouter, TypeOK
  <2>3. QED
    BY <1>2, <2>1, <2>2, CloseTypes, StopTypes DEF RemoveRouter, TypeOK
<1>3. CASE Start
  BY <1>3, RegisteredConns, EngineAssumption DEF Start, TypeOK, Starts
<1>4. ASSUME NEW c \in Conns, FirstConnect(c) PROVE TypeOK'
  BY <1>4, ConnectTypes DEF FirstConnect, TypeOK
<1>5. CASE StartMonitors
  BY <1>5 DEF StartMonitors, TypeOK, MonitorStates
<1>6. CASE StartCollectors
  <2>1. task' \in [Goroutines -> [at : TaskStates, conn : 0..MaxConns,
                                  client : {0} \cup Clients]]
    BY <1>6 DEF StartCollectors, TypeOK, TaskStates
  <2>2. QED
    BY <1>6, <2>1 DEF StartCollectors, TypeOK
<1>7. CASE Stop
  BY <1>7, EngineAssumption DEF Stop, TypeOK, Starts
<1>8. CASE CollectorsReturned \/ CancelParent
  BY <1>8 DEF CollectorsReturned, CancelParent, TypeOK
<1>9. CASE MonitorsReturned
  BY <1>9, RegisteredConns, CloseTypes DEF MonitorsReturned, TypeOK
<1>10. ASSUME NEW n \in Clients, Drop(n) PROVE TypeOK'
  BY <1>10, FaultCounted DEF Drop, TypeOK
<1>11. ASSUME NEW t \in Goroutines, TaskBegins(t) PROVE TypeOK'
  <2>1. task' \in TaskType
    BY <1>11, TaskBeginsMoves DEF Moved
  <2>2. running' \in [Conns -> BOOLEAN] /\ cancelOf' \in [Conns -> 0..MaxStarts]
    <3>1. t[1] \in 0..MaxStarts /\ t[2] \in Conns
      BY EngineAssumption DEF Goroutines, Starts
    <3>2. QED
      BY <1>11, <3>1 DEF TaskBegins, TypeOK
  <2>3. QED
    BY <1>11, <2>1, <2>2 DEF TaskBegins, TypeOK, TaskType
<1>12. ASSUME NEW t \in Goroutines, LoopTop(t) PROVE TypeOK'
  BY <1>12, LoopTopMoves DEF LoopTop, Moved, TaskType, TypeOK
<1>13. ASSUME NEW t \in Goroutines, GetConn(t) PROVE TypeOK'
  BY <1>13, GetConnMoves DEF GetConn, Moved, TaskType, TypeOK
<1>14. ASSUME NEW t \in Goroutines, ConnectConn(t) PROVE TypeOK'
  <2>1. task[t].conn \in Conns
    BY <1>14, UsedConn DEF ConnectConn, At, Idle
  <2>2. task' \in TaskType
    BY <1>14, ConnectConnMoves DEF Moved
  <2>3. \/ ConnectSucceeds(task[t].conn, TaskOver(t))
        \/ ConnectFails(task[t].conn, TaskOver(t))
    BY <1>14 DEF ConnectConn
  <2>4. QED
    BY <1>14, <2>1, <2>2, <2>3, ConnectTypes DEF ConnectConn, TaskType, TypeOK
<1>15. ASSUME NEW t \in Goroutines, Acquire(t) PROVE TypeOK'
  <2>1. task[t].conn \in Conns
    BY <1>15, UsedConn DEF Acquire, At, Idle
  <2>2. task' \in TaskType
    <3>1. \/ Moved(t, "sleep", 0, task[t].client)
          \/ Moved(t, "stream", task[t].conn, link[task[t].conn])
      BY <1>15, <2>1, AcquireMoves
    <3>2. QED
      BY <3>1 DEF Moved
  <2>3. QED
    BY <1>15, <2>2 DEF Acquire, TaskType, TypeOK
<1>16. ASSUME NEW t \in Goroutines, SessionEnds(t) \/ SessionFails(t) PROVE TypeOK'
  <2>1. task' \in TaskType
    BY <1>16, SessionMoves DEF Moved
  <2>2. faults' \in 0..MaxFaults
    BY <1>16, FaultCounted DEF SessionEnds, SessionFails, TypeOK
  <2>3. QED
    BY <1>16, <2>1, <2>2 DEF SessionEnds, SessionFails, TaskType, TypeOK
<1>17. ASSUME NEW t \in Goroutines, ReleaseConn(t) PROVE TypeOK'
  <2>1. task[t].conn \in Conns
    BY <1>17, UsedConn DEF ReleaseConn, At, Idle
  <2>2. QED
    BY <1>17, <2>1, ReleaseConnMoves, CloseTypes DEF ReleaseConn, Moved, TaskType, TypeOK
<1>18. ASSUME NEW t \in Goroutines, SleepEnds(t) PROVE TypeOK'
  BY <1>18, SleepEndsMoves DEF SleepEnds, Moved, TaskType, TypeOK
<1>19. ASSUME NEW t \in Goroutines, Tick(t) \/ PingAnswered(t) \/ MonitorStops(t)
       PROVE  TypeOK'
  BY <1>19 DEF Tick, PingAnswered, MonitorStops, Watch, TypeOK, MonitorStates
<1>20. ASSUME NEW t \in Goroutines, MonitorConnects(t) PROVE TypeOK'
  <2>1. t[2] \in Conns
    BY DEF Goroutines
  <2>2. QED
    BY <1>20, <2>1, ConnectTypes DEF MonitorConnects, Watch, TypeOK, MonitorStates
<1>21. ASSUME NEW t \in Goroutines, PingFails(t) PROVE TypeOK'
  <2>1. faults' \in 0..MaxFaults
    BY <1>21, FaultCounted DEF PingFails, TypeOK
  <2>2. QED
    BY <1>21, <2>1 DEF PingFails, Watch, TypeOK, MonitorStates
<1>22. ASSUME NEW t \in Goroutines, MonitorReleases(t) PROVE TypeOK'
  <2>1. {t[2]} \in SUBSET Conns
    BY DEF Goroutines
  <2>2. QED
    BY <1>22, <2>1, CloseTypes DEF MonitorReleases, Watch, TypeOK, MonitorStates
<1> QED
  BY <1>1, <1>2, <1>3, <1>4, <1>5, <1>6, <1>7, <1>8, <1>9, <1>10, <1>11, <1>12,
     <1>13, <1>14, <1>15, <1>16, <1>17, <1>18, <1>19, <1>20, <1>21, <1>22
  DEF Next, OperatorStep, Environment, TaskStep, MonitorStep

\* Every step keeps Numbering: new numbers are new, and only those that were
\* handed out are used.
LEMMA NumberingKept == ASSUME EngineInv, Next PROVE Numbering'
<1> USE DEF EngineInv, registry, sockets, contexts, operator, collector
<1>1. ASSUME NEW r \in Routers, AddRouter(r) PROVE Numbering'
  BY <1>1, EngineAssumption DEF AddRouter, CloseAll, TypeOK, Numbering, Conns
<1>2. ASSUME NEW r \in Routers, RemoveRouter(r) PROVE Numbering'
  BY <1>2, EngineAssumption DEF RemoveRouter, CloseAll, TypeOK, Numbering, Conns
<1>3. CASE Start
  BY <1>3, EngineAssumption DEF Start, Registered, TypeOK, Numbering
<1>4. ASSUME NEW c \in Conns, FirstConnect(c) PROVE Numbering'
  <2>1. c \in 1..made
    BY <1>4 DEF FirstConnect, TypeOK, Numbering
  <2>2. QED
    BY <1>4, <2>1 DEF FirstConnect, ConnectSucceeds, ConnectFails, TypeOK, Numbering
<1>5. CASE StartMonitors
  BY <1>5 DEF StartMonitors, Numbering
<1>6. CASE StartCollectors
  BY <1>6, EngineAssumption DEF StartCollectors, Registered, TypeOK, Numbering
<1>7. CASE Stop \/ CollectorsReturned \/ CancelParent
  BY <1>7 DEF Stop, CollectorsReturned, CancelParent, Numbering
<1>8. CASE MonitorsReturned
  BY <1>8 DEF MonitorsReturned, CloseAll, Numbering
<1>9. ASSUME NEW n \in Clients, Drop(n) PROVE Numbering'
  BY <1>9 DEF Drop, Numbering
<1>10. ASSUME NEW t \in Goroutines, NEW p, NEW k \in 0..made, NEW n,
              Moved(t, p, k, n), task[t].at # "none", UNCHANGED <<registry, batch, monitor>>,
              \A c \in Conns : c \notin 1..made => link'[c] = 0
       PROVE  Numbering'
  BY <1>10, NumberingMoved
<1>11. \A t \in Goroutines : task[t].conn \in 0..made
  BY DEF Numbering
<1>12. ASSUME NEW t \in Goroutines, TaskBegins(t) PROVE Numbering'
  BY <1>10, <1>11, <1>12, TaskBeginsMoves DEF TaskBegins, At, Numbering
<1>13. ASSUME NEW t \in Goroutines, LoopTop(t) PROVE Numbering'
  BY <1>10, <1>11, <1>13, LoopTopMoves DEF LoopTop, At, Numbering
<1>14. ASSUME NEW t \in Goroutines, GetConn(t) PROVE Numbering'
  BY <1>10, <1>14, GetConnMoves DEF GetConn, At, Numbering
<1>15. ASSUME NEW t \in Goroutines, ConnectConn(t) PROVE Numbering'
  <2>1. task[t].conn \in Conns /\ task[t].conn \in 1..made
    BY <1>15, UsedConn DEF ConnectConn, At, Idle
  <2>2. PICK p \in {"acquire", "sleep"}, k \in {0, task[t].conn} :
          Moved(t, p, k, task[t].client)
    BY <1>15, ConnectConnMoves
  <2>3. \A c \in Conns : c \notin 1..made => link'[c] = 0
    BY <1>15, <2>1 DEF ConnectConn, ConnectSucceeds, ConnectFails, TypeOK, Numbering
  <2>4. k \in 0..made
    BY <2>1 DEF TypeOK
  <2>5. QED
    BY <1>10, <1>15, <2>2, <2>3, <2>4 DEF ConnectConn, At
<1>16. ASSUME NEW t \in Goroutines, Acquire(t) PROVE Numbering'
  <2>1. task[t].conn \in Conns /\ task[t].conn \in 1..made
    BY <1>16, UsedConn DEF Acquire, At, Idle
  <2>2. PICK p \in {"sleep", "stream"}, k \in {0, task[t].conn},
             n \in {task[t].client, link[task[t].conn]} : Moved(t, p, k, n)
    BY <1>16, <2>1, AcquireMoves
  <2>3. k \in 0..made
    BY <2>1 DEF TypeOK
  <2>4. QED
    BY <1>10, <1>16, <2>2, <2>3 DEF Acquire, At, Numbering
<1>17. ASSUME NEW t \in Goroutines, SessionEnds(t) \/ SessionFails(t)
       PROVE  Numbering'
  <2>1. PICK p : Moved(t, p, task[t].conn, task[t].client)
    BY <1>17, SessionMoves
  <2>2. QED
    BY <1>10, <1>11, <1>17, <2>1 DEF SessionEnds, SessionFails, At, Numbering
<1>18. ASSUME NEW t \in Goroutines, ReleaseConn(t) PROVE Numbering'
  <2>1. PICK p : Moved(t, p, 0, 0)
    BY <1>18, ReleaseConnMoves
  <2>2. 0 \in 0..made
    BY DEF TypeOK
  <2>3. \A c \in Conns : c \notin 1..made => link'[c] = 0
    BY <1>18 DEF ReleaseConn, CloseAll, Numbering
  <2>4. QED
    BY <1>10, <1>18, <2>1, <2>2, <2>3 DEF ReleaseConn, At
<1>19. ASSUME NEW t \in Goroutines, SleepEnds(t) PROVE Numbering'
  BY <1>10, <1>11, <1>19, SleepEndsMoves DEF SleepEnds, At, Numbering
<1>20. ASSUME NEW t \in Goroutines,
              Tick(t) \/ PingAnswered(t) \/ PingFails(t) \/ MonitorStops(t)
       PROVE  Numbering'
  BY <1>20 DEF Tick, PingAnswered, PingFails, MonitorStops, Watch, TypeOK, Numbering
<1>21. ASSUME NEW t \in Goroutines, MonitorConnects(t) PROVE Numbering'
  <2>1. t[2] \in Conns /\ t[2] \in 1..made
    BY <1>21 DEF MonitorConnects, Numbering, Goroutines
  <2>2. QED
    BY <1>21, <2>1
    DEF MonitorConnects, ConnectSucceeds, ConnectFails, Watch, TypeOK, Numbering
<1>22. ASSUME NEW t \in Goroutines, MonitorReleases(t) PROVE Numbering'
  BY <1>22 DEF MonitorReleases, CloseAll, Watch, TypeOK, Numbering
<1> QED
  BY <1>1, <1>2, <1>3, <1>4, <1>5, <1>6, <1>7, <1>8, <1>9, <1>12, <1>13, <1>14,
     <1>15, <1>16, <1>17, <1>18, <1>19, <1>20, <1>21, <1>22
  DEF Next, OperatorStep, Environment, TaskStep, MonitorStep

\* Every step keeps Places.
LEMMA PlacesKept == ASSUME EngineInv, Next PROVE Places'
<1> USE DEF EngineInv
<1>1. CASE UNCHANGED task
  BY <1>1 DEF Places
<1>2. CASE StartCollectors
  <2>1. \A t \in Goroutines :
          /\ task'[t].conn = task[t].conn /\ task'[t].client = task[t].client
          /\ \/ task'[t].at = task[t].at
             \/ task'[t].at = "spawned" /\ task[t].at = "none"
    BY <1>2 DEF StartCollectors, TypeOK, Launched
  <2>2. QED
    BY <2>1 DEF Places, Fits, Idle, Holding
<1>3. ASSUME NEW t \in Goroutines, TaskStep(t) \/ SessionFails(t) PROVE Places'
  <2> USE DEF Idle, Holding, At
  <2>1. Fits(task[t].at, task[t].conn, task[t].client)
    BY DEF Places
  <2>2. ASSUME NEW p, NEW k, NEW n, Moved(t, p, k, n), Fits(p, k, n) PROVE Places'
    BY <2>2, PlacesMoved
  <2>3. CASE TaskBegins(t)
    BY <2>1, <2>2, <2>3, TaskBeginsMoves DEF TaskBegins, Fits
  <2>4. CASE LoopTop(t)
    BY <2>1, <2>2, <2>4, LoopTopMoves DEF LoopTop, Fits
  <2>5. CASE GetConn(t)
    BY <2>1, <2>2, <2>5, GetConnMoves DEF GetConn, Fits
  <2>6. CASE ConnectConn(t)
    BY <2>1, <2>2, <2>6, ConnectConnMoves DEF ConnectConn, Fits
  <2>7. CASE Acquire(t)
    <3>1. task[t].conn \in Conns
      BY <2>7, UsedConn DEF Acquire
    <3>2. QED
      BY <2>1, <2>2, <2>7, <3>1, AcquireMoves DEF Acquire, Fits
  <2>8. CASE SessionEnds(t) \/ SessionFails(t)
    BY <2>1, <2>2, <2>8, SessionMoves DEF SessionEnds, SessionFails, Fits
  <2>9. CASE ReleaseConn(t)
    BY <2>1, <2>2, <2>9, ReleaseConnMoves DEF Fits
  <2>10. CASE SleepEnds(t)
    BY <2>1, <2>2, <2>10, SleepEndsMoves DEF SleepEnds, Fits
  <2> QED
    BY <1>3, <2>3, <2>4, <2>5, <2>6, <2>7, <2>8, <2>9, <2>10 DEF TaskStep
<1> QED
  BY <1>1, <1>2, <1>3
  DEF Next, OperatorStep, Environment, MonitorStep, AddRouter, RemoveRouter, Start,
      FirstConnect, StartMonitors, Stop, CollectorsReturned, MonitorsReturned,
      CancelParent, Drop, Tick, MonitorConnects, PingAnswered, PingFails,
      MonitorReleases, MonitorStops

\* Every step keeps Ownership; only Acquire hands out a client.
LEMMA OwnershipKept == ASSUME EngineInv, Next PROVE Ownership'
<1> USE DEF EngineInv, sockets
<1>1. CASE UNCHANGED <<link, open>> /\ NoneTaken
  BY <1>1 DEF Ownership, OneOwner, HeldThrough, NoneTaken
<1>2. UNCHANGED task => NoneTaken
  BY DEF NoneTaken
<1>3. ASSUME NEW t \in Goroutines, NEW p, NEW k, NEW n, Moved(t, p, k, n),
             n = 0 \/ (n = task[t].client /\ k = task[t].conn)
      PROVE  NoneTaken
  BY <1>3 DEF NoneTaken, Moved
<1>4. \A t \in Goroutines : task[t].at \notin Holding => task[t].client = 0
  BY DEF Places, Fits
<1>5. ASSUME NEW r \in Routers, AddRouter(r) \/ RemoveRouter(r) PROVE Ownership'
  <2>1. PICK C \in SUBSET Conns : CloseAll(C)
    <3>1. \A k \in {current[r]} : k = 0 \/ k \in Conns
      BY EngineAssumption DEF TypeOK, Conns
    <3>2. CASE AddRouter(r)
      BY <3>1, <3>2 DEF AddRouter
    <3>3. CASE RemoveRouter(r)
      BY <3>1, <3>3 DEF RemoveRouter
    <3> QED BY <1>5, <3>2, <3>3
  <2>2. QED
    BY <1>2, <1>5, <2>1, CloseOwnership DEF AddRouter, RemoveRouter
<1>6. ASSUME NEW c \in Conns, FirstConnect(c) PROVE Ownership'
  BY <1>2, <1>6, ConnectOwnership DEF FirstConnect
<1>7. CASE Start \/ StartMonitors \/ Stop \/ CollectorsReturned \/ CancelParent
  BY <1>1, <1>2, <1>7
  DEF Start, StartMonitors, Stop, CollectorsReturned, CancelParent
<1>8. CASE StartCollectors
  <2>1. NoneTaken
    BY <1>8 DEF StartCollectors, TypeOK, NoneTaken
  <2>2. QED
    BY <1>1, <1>8, <2>1 DEF StartCollectors
<1>9. CASE MonitorsReturned
  BY <1>2, <1>9, RegisteredConns, CloseOwnership DEF MonitorsReturned
<1>10. ASSUME NEW n \in Clients, Drop(n) PROVE Ownership'
  BY <1>1, <1>2, <1>10 DEF Drop
<1>11. ASSUME NEW t \in Goroutines, TaskBegins(t) PROVE Ownership'
  BY <1>1, <1>3, <1>11, TaskBeginsMoves DEF TaskBegins
<1>12. ASSUME NEW t \in Goroutines, LoopTop(t) PROVE Ownership'
  BY <1>1, <1>3, <1>12, LoopTopMoves DEF LoopTop
<1>13. ASSUME NEW t \in Goroutines, GetConn(t) PROVE Ownership'
  <2>1. task[t].client = 0
    BY <1>4, <1>13 DEF GetConn, At, Holding
  <2>2. NoneTaken
    BY <1>3, <1>13, <2>1, GetConnMoves
  <2>3. QED
    BY <1>1, <1>13, <2>2 DEF GetConn
<1>14. ASSUME NEW t \in Goroutines, ConnectConn(t) PROVE Ownership'
  <2>1. task[t].client = 0 /\ task[t].conn \in Conns
    BY <1>4, <1>14, UsedConn DEF ConnectConn, At, Holding, Idle
  <2>2. NoneTaken
    BY <1>3, <1>14, <2>1, ConnectConnMoves
  <2>3. QED
    BY <1>14, <2>1, <2>2, ConnectOwnership DEF ConnectConn
<1>15. ASSUME NEW t \in Goroutines, Acquire(t) PROVE Ownership'
  <2>1. task[t].client = 0 /\ task[t].conn \in Conns
    BY <1>4, <1>15, UsedConn DEF Acquire, At, Holding, Idle
  <2>2. CASE Moved(t, "sleep", 0, task[t].client)
    BY <1>1, <1>3, <1>15, <2>1, <2>2 DEF Acquire
  <2>3. CASE Moved(t, "stream", task[t].conn, link[task[t].conn])
    <3> DEFINE c == task[t].conn
    <3>1. OneOwner'
      BY <1>15 DEF Acquire, Ownership, OneOwner
    <3>2. /\ task'[t].conn = c /\ task'[t].client = link[c] /\ link' = link
          /\ \A u \in Goroutines : u # t => task'[u] = task[u]
      BY <1>15, <2>3 DEF Acquire, Moved
    <3>3. \A d \in Conns : link[c] # 0 /\ link[c] = link[d] => c = d
      BY <2>1 DEF Ownership, OneOwner
    <3>4. \A u \in Goroutines :
            task[u].client # 0 /\ task[u].client = link[c] => task[u].conn = c
      BY <2>1 DEF Ownership, HeldThrough
    <3> HIDE DEF c
    <3>5. HeldThrough'
      <4>1. ASSUME NEW u \in Goroutines, NEW d \in Conns,
                   task'[u].client # 0, task'[u].client = link'[d]
            PROVE  task'[u].conn = d
        BY <3>2, <3>3, <4>1 DEF Ownership, HeldThrough
      <4>2. ASSUME NEW u \in Goroutines, NEW v \in Goroutines,
                   task'[u].client # 0, task'[u].client = task'[v].client
            PROVE  task'[u].conn = task'[v].conn
        BY <3>2, <3>4, <4>2 DEF Ownership, HeldThrough
      <4> QED BY <4>1, <4>2 DEF HeldThrough
    <3> QED BY <3>1, <3>5 DEF Ownership
  <2> QED BY <1>15, <2>1, <2>2, <2>3, AcquireMoves
<1>16. ASSUME NEW t \in Goroutines, SessionEnds(t) \/ SessionFails(t)
       PROVE  Ownership'
  BY <1>1, <1>3, <1>16, SessionMoves DEF SessionEnds, SessionFails
<1>17. ASSUME NEW t \in Goroutines, ReleaseConn(t) PROVE Ownership'
  <2>1. NoneTaken
    BY <1>3, <1>17, ReleaseConnMoves
  <2>2. {task[t].conn} \in SUBSET Conns
    BY <1>17, UsedConn DEF ReleaseConn, At, Idle
  <2>3. QED
    BY <1>17, <2>1, <2>2, CloseOwnership DEF ReleaseConn
<1>18. ASSUME NEW t \in Goroutines, SleepEnds(t) PROVE Ownership'
  BY <1>1, <1>3, <1>18, SleepEndsMoves DEF SleepEnds
<1>19. ASSUME NEW t \in Goroutines,
              Tick(t) \/ PingAnswered(t) \/ PingFails(t) \/ MonitorStops(t)
       PROVE  Ownership'
  BY <1>1, <1>2, <1>19 DEF Tick, PingAnswered, PingFails, MonitorStops
<1>20. ASSUME NEW t \in Goroutines, MonitorConnects(t) \/ MonitorReleases(t)
       PROVE  Ownership'
  <2>1. t[2] \in Conns /\ {t[2]} \in SUBSET Conns
    BY DEF Goroutines
  <2>2. QED
    BY <1>2, <1>20, <2>1, ConnectOwnership, CloseOwnership
    DEF MonitorConnects, MonitorReleases
<1> QED
  BY <1>5, <1>6, <1>7, <1>8, <1>9, <1>10, <1>11, <1>12, <1>13, <1>14, <1>15,
     <1>16, <1>17, <1>18, <1>19, <1>20
  DEF Next, OperatorStep, Environment, TaskStep, MonitorStep

\* Every step keeps Launched.
LEMMA LaunchedKept == ASSUME EngineInv, Next PROVE Launched'
<1> USE DEF EngineInv, Launched
<1>1. CASE UNCHANGED <<task, epoch, opc>>
  BY <1>1
<1>2. CASE UNCHANGED <<task, epoch>> /\ opc' \notin {"connecting", "collectors"}
  BY <1>2
<1>3. CASE Start
  BY <1>3, EngineAssumption DEF Start, TypeOK, Goroutines, Starts
<1>4. CASE StartMonitors
  BY <1>4 DEF StartMonitors, contexts
<1>5. CASE StartCollectors
  BY <1>5 DEF StartCollectors, TypeOK, contexts
<1>6. ASSUME NEW t \in Goroutines, NEW p, NEW k, NEW n, Moved(t, p, k, n),
             task[t].at # "none", UNCHANGED <<epoch, opc>>
      PROVE  Launched'
  BY <1>6 DEF Moved
<1>7. ASSUME NEW t \in Goroutines, TaskStep(t) \/ SessionFails(t) PROVE Launched'
  <2> USE DEF At, contexts, operator
  <2>1. CASE TaskBegins(t)
    BY <1>6, <2>1, TaskBeginsMoves DEF TaskBegins
  <2>2. CASE LoopTop(t)
    BY <1>6, <2>2, LoopTopMoves DEF LoopTop
  <2>3. CASE GetConn(t)
    BY <1>6, <2>3, GetConnMoves DEF GetConn
  <2>4. CASE ConnectConn(t)
    BY <1>6, <2>4, ConnectConnMoves DEF ConnectConn
  <2>5. CASE Acquire(t)
    <3>1. task[t].conn \in Conns
      BY <2>5, UsedConn DEF Acquire, Idle
    <3>2. QED
      BY <1>6, <2>5, <3>1, AcquireMoves DEF Acquire
  <2>6. CASE SessionEnds(t) \/ SessionFails(t)
    BY <1>6, <2>6, SessionMoves DEF SessionEnds, SessionFails
  <2>7. CASE ReleaseConn(t)
    BY <1>6, <2>7, ReleaseConnMoves DEF ReleaseConn
  <2>8. CASE SleepEnds(t)
    BY <1>6, <2>8, SleepEndsMoves DEF SleepEnds
  <2> QED
    BY <1>7, <2>1, <2>2, <2>3, <2>4, <2>5, <2>6, <2>7, <2>8 DEF TaskStep
<1> QED
  BY <1>1, <1>2, <1>3, <1>4, <1>5, <1>7
  DEF Next, OperatorStep, Environment, MonitorStep, AddRouter, RemoveRouter,
      FirstConnect, Stop, CollectorsReturned, MonitorsReturned, CancelParent, Drop,
      Tick, MonitorConnects, PingAnswered, PingFails, MonitorReleases,
      MonitorStops, contexts, operator

\* A goroutine that has ended takes no step.
LEMMA GoneIsGone ==
  ASSUME NEW t \in Goroutines, task[t].at \in {"none", "done"}
  PROVE  ~TaskStep(t) /\ ~SessionFails(t)
BY DEF TaskStep, TaskBegins, LoopTop, GetConn, ConnectConn, Acquire, SessionEnds,
   SessionFails, ReleaseConn, SleepEnds, At

\* Every step keeps CollectorsGone: nothing but a Start launches a collector.
LEMMA CollectorsGoneKept == ASSUME EngineInv, Next PROVE CollectorsGone'
<1> USE DEF EngineInv, CollectorsGone
<1>1. ASSUME NEW t \in Goroutines, TaskStep(t) \/ SessionFails(t)
      PROVE  CollectorsGone'
  <2>1. opc' = opc
    BY <1>1 DEF TaskStep, TaskBegins, LoopTop, GetConn, ConnectConn, Acquire,
       SessionEnds, SessionFails, ReleaseConn, SleepEnds, operator
  <2>2. opc \notin {"waitMonitors", "stopped"}
    BY <1>1, GoneIsGone
  <2>3. QED
    BY <2>1, <2>2
<1>2. ASSUME ~\E t \in Goroutines : TaskStep(t) \/ SessionFails(t)
      PROVE  CollectorsGone'
  BY <1>2
  DEF Next, OperatorStep, Environment, MonitorStep, AddRouter, RemoveRouter, Start,
      FirstConnect, StartMonitors, StartCollectors, Stop, CollectorsReturned,
      MonitorsReturned, CancelParent, Drop, Tick, MonitorConnects, PingAnswered,
      PingFails, MonitorReleases, MonitorStops, operator
<1> QED BY <1>1, <1>2

\* Every step keeps StoppedIsQuiet.
LEMMA QuietKept == ASSUME EngineInv, Next PROVE StoppedIsQuiet'
<1> USE DEF EngineInv, StoppedIsQuiet, operator
<1>1. ASSUME NEW r \in Routers, AddRouter(r) PROVE StoppedIsQuiet'
  <2>1. made + 1 \in Conns /\ link[made + 1] = 0
    BY <1>1, EngineAssumption DEF AddRouter, TypeOK, Numbering, Conns
  <2>2. Registered' \subseteq Registered \cup {made + 1}
    BY <1>1 DEF AddRouter, Registered, TypeOK
  <2>3. \A c \in Conns : link[c] = 0 => link'[c] = 0
    BY <1>1 DEF AddRouter, CloseAll
  <2>4. QED
    BY <1>1, <2>1, <2>2, <2>3, RegisteredConns DEF AddRouter
<1>2. ASSUME NEW r \in Routers, RemoveRouter(r) PROVE StoppedIsQuiet'
  <2>1. Registered' \subseteq Registered
    BY <1>2 DEF RemoveRouter, Registered, TypeOK
  <2>2. \A c \in Conns : link[c] = 0 => link'[c] = 0
    BY <1>2 DEF RemoveRouter, CloseAll
  <2>3. QED
    BY <1>2, <2>1, <2>2, RegisteredConns DEF RemoveRouter
<1>3. CASE MonitorsReturned
  <2>1. \A t \in Goroutines : task[t].at \in {"none", "done"}
    BY <1>3 DEF MonitorsReturned, CollectorsGone
  <2>2. \A c \in Registered : link'[c] = 0
    BY <1>3, RegisteredConns DEF MonitorsReturned, CloseAll
  <2>3. Registered' = Registered
    BY <1>3 DEF MonitorsReturned, registry, Registered
  <2>4. QED
    BY <1>3, <2>1, <2>2, <2>3 DEF MonitorsReturned
<1>4. ASSUME NEW t \in Goroutines, TaskStep(t) \/ SessionFails(t)
      PROVE  StoppedIsQuiet'
  <2>1. opc' = opc
    BY <1>4 DEF TaskStep, TaskBegins, LoopTop, GetConn, ConnectConn, Acquire,
       SessionEnds, SessionFails, ReleaseConn, SleepEnds
  <2>2. QED
    BY <1>4, <2>1, GoneIsGone
<1>5. ASSUME NEW t \in Goroutines, MonitorStep(t) PROVE StoppedIsQuiet'
  <2>1. opc' = opc /\ monitor[t] \notin {"none", "done"}
    BY <1>5 DEF MonitorStep, Tick, MonitorConnects, PingAnswered, PingFails,
       MonitorReleases, MonitorStops
  <2>2. QED
    BY <2>1
<1>6. CASE opc' # "stopped"
  BY <1>6
<1>7. CASE UNCHANGED <<opc, current, link, task, monitor>>
  BY <1>7 DEF Registered
<1> QED
  BY <1>1, <1>2, <1>3, <1>4, <1>5, <1>6, <1>7
  DEF Next, OperatorStep, Environment, Start, FirstConnect, StartMonitors,
      StartCollectors, Stop, CollectorsReturned, CancelParent, Drop, registry, sockets

\* Every step keeps StreamsOnItsOwn: after a look-up by router ID a registered
\* collector has its own connection, and a replaced one is not registered.
LEMMA OwnKept == ASSUME EngineInv, Next PROVE StreamsOnItsOwn'
<1> USE DEF EngineInv, registry
<1>1. ASSUME NEW r \in Routers, AddRouter(r) PROVE StreamsOnItsOwn'
  <2>1. Registered' \subseteq Registered \cup {made + 1}
    BY <1>1 DEF AddRouter, Registered, TypeOK
  <2>2. \A t \in Goroutines : t[2] = made + 1 => task[t].conn = 0
    BY DEF TypeOK, Numbering, Places, Fits, Idle
  <2>3. QED
    BY <1>1, <2>1, <2>2 DEF AddRouter, StreamsOnItsOwn
<1>2. ASSUME NEW r \in Routers, RemoveRouter(r) PROVE StreamsOnItsOwn'
  <2>1. Registered' \subseteq Registered
    BY <1>2 DEF RemoveRouter, Registered, TypeOK
  <2>2. QED
    BY <1>2, <2>1 DEF RemoveRouter, StreamsOnItsOwn
<1>3. CASE UNCHANGED <<current, task>>
  BY <1>3 DEF StreamsOnItsOwn, Registered
<1>4. CASE StartCollectors
  <2>1. \A t \in Goroutines : task'[t].conn = task[t].conn
    BY <1>4 DEF StartCollectors, TypeOK
  <2>2. QED
    BY <1>4, <2>1 DEF StartCollectors, StreamsOnItsOwn, Registered
<1>5. ASSUME NEW t \in Goroutines, TaskStep(t) \/ SessionFails(t)
      PROVE  StreamsOnItsOwn'
  <2>1. ASSUME NEW p, NEW k, NEW n, Moved(t, p, k, n), UNCHANGED current,
               k \in {0, task[t].conn}
        PROVE  StreamsOnItsOwn'
    BY <2>1, OwnMoved DEF StreamsOnItsOwn
  <2>2. CASE TaskBegins(t)
    BY <2>1, <2>2, TaskBeginsMoves DEF TaskBegins
  <2>3. CASE LoopTop(t)
    BY <2>1, <2>3, LoopTopMoves DEF LoopTop
  <2>4. CASE GetConn(t)
    <3>1. t[2] \in Registered => current[routerOf[t[2]]] = t[2]
      BY DEF Registered, Numbering
    <3>2. PICK p : Moved(t, p, current[routerOf[t[2]]], task[t].client)
      BY <2>4, GetConnMoves
    <3>3. QED
      BY <2>4, <3>1, <3>2, OwnMoved DEF GetConn
  <2>5. CASE ConnectConn(t)
    BY <2>1, <2>5, ConnectConnMoves DEF ConnectConn
  <2>6. CASE Acquire(t)
    <3>1. task[t].conn \in Conns
      BY <2>6, UsedConn DEF Acquire, At, Idle
    <3>2. QED
      BY <2>1, <2>6, <3>1, AcquireMoves DEF Acquire
  <2>7. CASE SessionEnds(t) \/ SessionFails(t)
    BY <2>1, <2>7, SessionMoves DEF SessionEnds, SessionFails
  <2>8. CASE ReleaseConn(t)
    BY <2>1, <2>8, ReleaseConnMoves DEF ReleaseConn
  <2>9. CASE SleepEnds(t)
    BY <2>1, <2>9, SleepEndsMoves DEF SleepEnds
  <2> QED
    BY <1>5, <2>2, <2>3, <2>4, <2>5, <2>6, <2>7, <2>8, <2>9 DEF TaskStep
<1> QED
  BY <1>1, <1>2, <1>3, <1>4, <1>5
  DEF Next, OperatorStep, Environment, MonitorStep, Start, FirstConnect,
      StartMonitors, Stop, CollectorsReturned, MonitorsReturned, CancelParent, Drop,
      Tick, MonitorConnects, PingAnswered, PingFails, MonitorReleases, MonitorStops

\* Every step keeps OneLoop: the flag is cleared only with the registration.
LEMMA OneLoopKept == ASSUME EngineInv, Next PROVE OneLoop'
<1> USE DEF EngineInv, registry, collector
<1>1. ASSUME NEW r \in Routers, AddRouter(r) PROVE OneLoop'
  <2>1. \A u \in Goroutines : Begun(u) => u[2] # made + 1
    BY DEF Begun, Numbering, TypeOK
  <2>2. \A k \in Registered' : k # made + 1 => k \in Registered /\ k # current[r]
    BY <1>1 DEF AddRouter, Registered, TypeOK, Numbering
  <2>3. /\ \A k \in Conns : k # current[r] => running'[k] = running[k]
        /\ cancelOf' = cancelOf
    BY <1>1 DEF AddRouter, StopCollectors, TypeOK
  <2>4. \A u \in Goroutines : Begun(u)' => Begun(u)
    BY <1>1 DEF AddRouter, Begun
  <2>5. QED
    BY <2>1, <2>2, <2>3, <2>4, RegisteredConns, LoopKept
<1>2. ASSUME NEW r \in Routers, RemoveRouter(r) PROVE OneLoop'
  <2>1. \A k \in Registered' : k \in Registered /\ k # current[r]
    BY <1>2 DEF RemoveRouter, Registered, TypeOK, Numbering
  <2>2. /\ \A k \in Conns : k # current[r] => running'[k] = running[k]
        /\ cancelOf' = cancelOf
    BY <1>2 DEF RemoveRouter, StopCollectors, TypeOK
  <2>3. \A u \in Goroutines : Begun(u)' => Begun(u)
    BY <1>2 DEF RemoveRouter, Begun
  <2>4. QED
    BY <2>1, <2>2, <2>3, RegisteredConns, LoopKept
<1>3. CASE UNCHANGED <<current, running, cancelOf, task>>
  BY <1>3, LoopKept DEF Begun, Registered
<1>4. CASE StartCollectors
  <2>1. \A u \in Goroutines : Begun(u)' => Begun(u)
    BY <1>4 DEF StartCollectors, Begun, TypeOK
  <2>2. QED
    BY <1>4, <2>1, LoopKept DEF StartCollectors, Registered
<1>5. ASSUME NEW t \in Goroutines, TaskStep(t) \/ SessionFails(t) PROVE OneLoop'
  <2> USE DEF At
  <2>1. ASSUME NEW p, NEW k, NEW n, Moved(t, p, k, n), Begun(t),
               UNCHANGED <<current, running, cancelOf>>
        PROVE  OneLoop'
    BY <2>1, LoopKept DEF Moved, Begun, Registered
  <2>2. CASE TaskBegins(t)
    <3>1. PICK p \in {"loop", "done"} : Moved(t, p, task[t].conn, task[t].client)
      BY <2>2, TaskBeginsMoves
    <3>2. t[2] \in Conns /\ Registered' = Registered
      BY <2>2 DEF TaskBegins, Registered, Goroutines
    <3>3. CASE running[t[2]]
      <4>1. /\ task'[t].at = "done"
            /\ running' = running /\ cancelOf' = cancelOf
        BY <2>2, <3>3, Goes DEF TaskBegins, Moved, TaskStates
      <4>2. \A u \in Goroutines : Begun(u)' => Begun(u)
        BY <3>1, <4>1 DEF Moved, Begun
      <4>3. QED
        BY <3>2, <4>1, <4>2, LoopKept
    <3>4. CASE ~running[t[2]]
      <4>1. /\ running'[t[2]]
            /\ \A c \in Conns : running[c] => running'[c]
            /\ cancelOf'[t[2]] = t[1]
            /\ \A c \in Conns : c # t[2] => cancelOf'[c] = cancelOf[c]
        BY <2>2, <3>2, <3>4 DEF TaskBegins, TypeOK
      <4>2. \A u \in Goroutines : u # t => (Begun(u)' <=> Begun(u))
        BY <3>1 DEF Moved, Begun
      <4>3. \A u \in Goroutines : Begun(u) /\ u[2] \in Registered => u[2] # t[2]
        BY <3>4 DEF OneLoop
      <4>4. \A u \in Goroutines :
              Begun(u)' /\ u[2] \in Registered =>
                running'[u[2]] /\ cancelOf'[u[2]] = u[1]
        BY <4>1, <4>2, <4>3, RegisteredConns DEF OneLoop
      <4>5. \A u, v \in Goroutines :
              Begun(u)' /\ Begun(v)' /\ u[2] = v[2] /\ u[2] \in Registered => u = v
        BY <4>2, <4>3 DEF OneLoop
      <4>6. QED
        BY <3>2, <4>4, <4>5 DEF OneLoop
    <3> QED BY <3>3, <3>4
  <2>3. CASE LoopTop(t)
    BY <2>1, <2>3, LoopTopMoves DEF LoopTop, Begun
  <2>4. CASE GetConn(t)
    BY <2>1, <2>4, GetConnMoves DEF GetConn, Begun
  <2>5. CASE ConnectConn(t)
    BY <2>1, <2>5, ConnectConnMoves DEF ConnectConn, Begun
  <2>6. CASE Acquire(t)
    <3>1. task[t].conn \in Conns
      BY <2>6, UsedConn DEF Acquire, Idle
    <3>2. QED
      BY <2>1, <2>6, <3>1, AcquireMoves DEF Acquire, Begun
  <2>7. CASE SessionEnds(t) \/ SessionFails(t)
    BY <2>1, <2>7, SessionMoves DEF SessionEnds, SessionFails, Begun
  <2>8. CASE ReleaseConn(t)
    BY <2>1, <2>8, ReleaseConnMoves DEF ReleaseConn, Begun
  <2>9. CASE SleepEnds(t)
    BY <2>1, <2>9, SleepEndsMoves DEF SleepEnds, Begun
  <2> QED
    BY <1>5, <2>2, <2>3, <2>4, <2>5, <2>6, <2>7, <2>8, <2>9 DEF TaskStep
<1> QED
  BY <1>1, <1>2, <1>3, <1>4, <1>5
  DEF Next, OperatorStep, Environment, MonitorStep, Start, FirstConnect,
      StartMonitors, Stop, CollectorsReturned, MonitorsReturned, CancelParent, Drop,
      Tick, MonitorConnects, PingAnswered, PingFails, MonitorReleases, MonitorStops

-----------------------------------------------------------------------------
(* The theorems.                                                           *)

\* Initially nothing is registered, open or running.
LEMMA InitEngineInv == Init => EngineInv
<1> SUFFICES ASSUME Init PROVE EngineInv
  OBVIOUS
<1>1. TypeOK
  <2>1. 0 \in 0..MaxConns /\ 0 \in 0..MaxStarts /\ 0 \in 0..MaxFaults
    BY EngineAssumption
  <2>2. 1..0 = {}
    OBVIOUS
  <2>3. QED
    BY <2>1, <2>2 DEF Init, TypeOK, TaskStates, MonitorStates
<1>2. Registered = {}
  BY DEF Init, Registered
<1>3. Numbering
  BY DEF Init, Numbering
<1>4. Places
  BY DEF Init, Places, Fits, Idle, Holding
<1>5. Ownership
  BY DEF Init, Ownership, OneOwner, HeldThrough
<1>6. Launched /\ CollectorsGone /\ StoppedIsQuiet /\ StreamsOnItsOwn
  BY <1>2 DEF Init, Launched, CollectorsGone, StoppedIsQuiet, StreamsOnItsOwn
<1>7. OneLoop
  BY <1>2 DEF OneLoop
<1> QED BY <1>1, <1>3, <1>4, <1>5, <1>6, <1>7 DEF EngineInv

\* The parts together: the invariant is inductive.
LEMMA StepKeeps == EngineInv /\ [Next]_vars => EngineInv'
<1> SUFFICES ASSUME EngineInv, [Next]_vars PROVE EngineInv'
  OBVIOUS
<1>1. CASE Next
  BY <1>1, TypesKept, NumberingKept, PlacesKept, OwnershipKept, LaunchedKept,
     CollectorsGoneKept, QuietKept, OwnKept, OneLoopKept DEF EngineInv
<1>2. CASE UNCHANGED vars
  <2> USE <1>2 DEF vars, EngineInv, Registered
  <2>1. TypeOK' /\ Numbering' /\ Places'
    BY DEF TypeOK, Numbering, Places
  <2>2. Ownership' /\ Launched' /\ CollectorsGone'
    BY DEF Ownership, OneOwner, HeldThrough, Launched, CollectorsGone
  <2>3. StoppedIsQuiet' /\ StreamsOnItsOwn' /\ OneLoop'
    BY DEF StoppedIsQuiet, StreamsOnItsOwn, OneLoop, Begun
  <2> QED BY <2>1, <2>2, <2>3
<1> QED BY <1>1, <1>2

\* The invariant holds in every state.
LEMMA Inductive == Spec => []EngineInv
BY InitEngineInv, StepKeeps, PTL DEF Spec

\* Every variable of the engine, its pool and its goroutines keeps its type.
THEOREM TypeCorrect == Spec => []TypeOK
BY Inductive, PTL DEF EngineInv

\* Engine.Stop leaves no goroutine behind and no registered connection open,
\* for any interleaving with AddRouter, RemoveRouter and failures.
THEOREM StopIsFinal == Spec => []StoppedIsQuiet
BY Inductive, PTL DEF EngineInv

\* The look-up of a connection by router ID gives a registered collector its
\* own connection, however often its router was replaced.
THEOREM OwnConnection == Spec => []StreamsOnItsOwn
BY Inductive, PTL DEF EngineInv

\* A client is streamed on by one registered collector, over any number of
\* Starts: a client has one owner, and a collector one goroutine in its loop.
THEOREM StreamsExclude == Spec => []ExclusiveStream
<1>1. EngineInv => ExclusiveStream
  <2> SUFFICES ASSUME EngineInv, NEW t \in Goroutines, NEW u \in Goroutines,
                      Streaming(t), Streaming(u), t # u,
                      t[2] \in Registered, u[2] \in Registered,
                      task[t].client = task[u].client
               PROVE  FALSE
    BY DEF ExclusiveStream
  <2>1. /\ task[t].conn # 0 /\ task[u].conn # 0 /\ task[t].client # 0
        /\ Begun(t) /\ Begun(u)
    BY DEF EngineInv, Places, Fits, Idle, Holding, Streaming, At, Begun
  <2>2. task[t].conn = t[2] /\ task[u].conn = u[2]
    BY <2>1 DEF EngineInv, StreamsOnItsOwn
  <2>3. t[2] = u[2]
    BY <2>1, <2>2 DEF EngineInv, Ownership, HeldThrough
  <2>4. QED
    BY <2>1, <2>3 DEF EngineInv, OneLoop
<1>2. QED
  BY <1>1, Inductive, PTL

\* Whoever unregisters a collector cancels the goroutine in its loop, over any
\* number of Starts, Stops and replacements.
THEOREM RemovalCancels == Spec => RemovalStops
<1>1. ASSUME EngineInv, [Next]_vars
      PROVE  [\A t \in Goroutines :
               Begun(t) /\ t[2] \in Registered \ Registered' => TaskOver(t)']_vars
  <2> SUFFICES ASSUME NEW t \in Goroutines,
                      Begun(t), t[2] \in Registered \ Registered'
               PROVE  TaskOver(t)'
    OBVIOUS
  <2>1. running[t[2]] /\ cancelOf[t[2]] = t[1] /\ t[1] # 0 /\ t = <<t[1], t[2]>>
    BY <1>1 DEF EngineInv, OneLoop, Goroutines, Starts
  <2>2. CASE UNCHANGED current
    BY <1>1, <2>2 DEF Registered
  <2>3. ASSUME NEW r \in Routers, AddRouter(r) PROVE TaskOver(t)'
    <3>1. t[2] = current[r]
      BY <1>1, <2>3 DEF AddRouter, Registered, EngineInv, TypeOK
    <3>2. t[2] # 0
      BY <1>1 DEF Registered
    <3>3. <<cancelOf[t[2]], t[2]>> \in stopped'
      BY <2>1, <2>3, <3>1, <3>2 DEF AddRouter, StopCollectors
    <3>4. QED
      BY <2>1, <3>3 DEF TaskOver
  <2>4. ASSUME NEW r \in Routers, RemoveRouter(r) PROVE TaskOver(t)'
    <3>1. t[2] = current[r]
      BY <1>1, <2>4 DEF RemoveRouter, Registered, EngineInv, TypeOK
    <3>2. t[2] # 0
      BY <1>1 DEF Registered
    <3>3. <<cancelOf[t[2]], t[2]>> \in stopped'
      BY <2>1, <2>4, <3>1, <3>2 DEF RemoveRouter, StopCollectors
    <3>4. QED
      BY <2>1, <3>3 DEF TaskOver
  <2> QED
    BY <1>1, <2>2, <2>3, <2>4
    DEF Next, OperatorStep, Environment, TaskStep, MonitorStep, registry, vars,
        Start, FirstConnect, StartMonitors, StartCollectors, Stop,
        CollectorsReturned, MonitorsReturned, CancelParent, Drop, TaskBegins,
        LoopTop, GetConn, ConnectConn, Acquire, SessionEnds, SessionFails,
        ReleaseConn, SleepEnds, Tick, MonitorConnects, PingAnswered, PingFails,
        MonitorReleases, MonitorStops
<1>2. QED
  BY <1>1, Inductive, PTL DEF Spec, RemovalStops

-----------------------------------------------------------------------------
(* What Stop and a cancelled collector wait for.                           *)

\* Each open socket is the client of one connection: no replacement, failure
\* or removal loses track of one, and no two connections share one.
THEOREM NoSocketIsLost == Spec => []OneOwner
BY Inductive, PTL DEF EngineInv, Ownership

\* What a collector streams on, as long as it is open, is what the health loop
\* of its connection pings: a silent loss is under somebody's watch, even if
\* the connection has been closed and dialled again by others.
StreamIsWatched ==
  \A t \in Goroutines :
    Streaming(t) /\ task[t].client \in open => link[task[t].conn] = task[t].client

\* Together with OwnConnection: its own health loop, while it is registered.
THEOREM PingSeesTheStream == Spec => []StreamIsWatched
<1>1. EngineInv => StreamIsWatched
  <2> SUFFICES ASSUME EngineInv, NEW t \in Goroutines, Streaming(t),
                      task[t].client \in open
               PROVE  link[task[t].conn] = task[t].client
    BY DEF StreamIsWatched
  <2>1. PICK c \in Conns : link[c] = task[t].client
    BY DEF EngineInv, Ownership, OneOwner
  <2>2. task[t].client # 0
    BY DEF EngineInv, Places, Fits, Holding, Streaming, At
  <2> QED BY <2>1, <2>2 DEF EngineInv, Ownership, HeldThrough
<1> QED BY <1>1, Inductive, PTL

\* What Engine.Stop leaves open, against the ConnPool's comment, is no more
\* than the clients of connections whose router is no longer registered.
OnlyRemovedStaysOpen ==
  opc = "stopped" => \A n \in open : \E c \in Conns \ Registered : link[c] = n

\* With StoppedIsQuiet, as each open socket has a connection.
THEOREM StopClosesRegistered == Spec => []OnlyRemovedStaysOpen
<1>1. EngineInv => OnlyRemovedStaysOpen
  <2> SUFFICES ASSUME EngineInv, opc = "stopped", NEW n \in open
               PROVE  \E c \in Conns \ Registered : link[c] = n
    BY DEF OnlyRemovedStaysOpen
  <2>1. PICK c \in Conns : link[c] = n
    BY DEF EngineInv, Ownership, OneOwner
  <2>2. n # 0
    BY DEF EngineInv, TypeOK, Clients
  <2>3. c \notin Registered
    BY <2>1, <2>2 DEF EngineInv, StoppedIsQuiet
  <2> QED BY <2>1, <2>3
<1> QED BY <1>1, Inductive, PTL

\* Where a goroutine of a cancelled collector is on its way to its end.
StepsLeft == [none |-> 10, spawned |-> 9, get |-> 8, connect |-> 7, acquire |-> 6,
              stream |-> 5, releaseError |-> 4, sleep |-> 3, loop |-> 2,
              releaseClean |-> 1, done |-> 0]

\* A collector that is cancelled stays cancelled, and each of its steps leads
\* nearer to its end: it begins no other round of its loop, however often the
\* dial fails, the client is lost or its router is replaced.
CancelledGoesOn ==
  [][\A t \in Goroutines :
       TaskOver(t) /\ task[t].at # "none" =>
         /\ TaskOver(t)'
         /\ \/ task'[t] = task[t]
            \/ StepsLeft[task'[t].at] < StepsLeft[task[t].at]]_vars

\* No step takes a cancellation back.
LEMMA CancelledForGood ==
  ASSUME [Next]_vars, NEW t \in Goroutines, TaskOver(t)
  PROVE  TaskOver(t)'
<1> USE DEF TaskOver, Over, contexts, collector
<1>1. CASE UNCHANGED <<parentOff, ctxOff, stopped>>
  BY <1>1
<1>2. ASSUME NEW r \in Routers, AddRouter(r) \/ RemoveRouter(r) PROVE TaskOver(t)'
  BY <1>2 DEF AddRouter, RemoveRouter, StopCollectors
<1>3. CASE Stop \/ CancelParent
  BY <1>3 DEF Stop, CancelParent
<1> QED
  BY <1>1, <1>2, <1>3
  DEF Next, OperatorStep, Environment, TaskStep, MonitorStep, vars, Start,
      FirstConnect, StartMonitors, StartCollectors, CollectorsReturned,
      MonitorsReturned, Drop, TaskBegins, LoopTop, GetConn, ConnectConn, Acquire,
      SessionEnds, SessionFails, ReleaseConn, SleepEnds, Tick, MonitorConnects,
      PingAnswered, PingFails, MonitorReleases, MonitorStops

\* A step of a cancelled collector goes forward.
LEMMA OwnStepForward ==
  ASSUME EngineInv, NEW t \in Goroutines, TaskOver(t), TaskStep(t) \/ SessionFails(t)
  PROVE  StepsLeft[task'[t].at] < StepsLeft[task[t].at]
<1> USE DEF EngineInv, At, Moved, StepsLeft
<1>1. CASE TaskBegins(t)
  BY <1>1, TaskBeginsMoves DEF TaskBegins
<1>2. CASE LoopTop(t)
  <2>1. task'[t].at = "done"
    BY <1>2, Goes DEF LoopTop, TaskStates
  <2> QED BY <1>2, <2>1, LoopTopMoves DEF LoopTop
<1>3. CASE GetConn(t)
  <2>1. task'[t].at \in {"sleep", "connect", "acquire"}
    BY <1>3, GetConnMoves
  <2> QED BY <1>3, <2>1 DEF GetConn
<1>4. CASE ConnectConn(t)
  <2>1. task'[t].at \in {"acquire", "sleep"}
    BY <1>4, ConnectConnMoves
  <2> QED BY <1>4, <2>1 DEF ConnectConn
<1>5. CASE Acquire(t)
  <2>1. task[t].conn \in Conns
    BY <1>5, UsedConn DEF Acquire, Idle
  <2>2. task'[t].at \in {"sleep", "stream"}
    BY <1>5, <2>1, AcquireMoves
  <2> QED BY <1>5, <2>2 DEF Acquire
<1>6. CASE SessionEnds(t) \/ SessionFails(t)
  BY <1>6, SessionMoves DEF SessionEnds, SessionFails
<1>7. CASE ReleaseConn(t)
  <2>1. task' = [task EXCEPT ![t] =
          [at |-> IF At(t, "releaseClean") THEN "done" ELSE "sleep",
           conn |-> 0, client |-> 0]]
    BY <1>7 DEF ReleaseConn
  <2>2. task'[t].at = IF At(t, "releaseClean") THEN "done" ELSE "sleep"
    BY <2>1 DEF TypeOK
  <2> QED BY <1>7, <2>2, ReleaseConnMoves DEF ReleaseConn
<1>8. CASE SleepEnds(t)
  BY <1>8, SleepEndsMoves DEF SleepEnds
<1> QED
  BY <1>1, <1>2, <1>3, <1>4, <1>5, <1>6, <1>7, <1>8 DEF TaskStep

\* A step of a collector leaves the others where they are.
LEMMA OtherGoes ==
  ASSUME EngineInv, NEW u \in Goroutines, TaskStep(u) \/ SessionFails(u),
         NEW t \in Goroutines, t # u
  PROVE  task'[t] = task[t]
BY DEF EngineInv, TypeOK, TaskStep, TaskBegins, LoopTop, GetConn, ConnectConn,
   Acquire, SessionEnds, SessionFails, EndSession, ReleaseConn, SleepEnds, Goto

\* Cancelling a collector makes its round the last one.
THEOREM CancelledIsLastRound == Spec => CancelledGoesOn
<1>1. ASSUME EngineInv, [Next]_vars
      PROVE  [\A t \in Goroutines :
               TaskOver(t) /\ task[t].at # "none" =>
                 /\ TaskOver(t)'
                 /\ \/ task'[t] = task[t]
                    \/ StepsLeft[task'[t].at] < StepsLeft[task[t].at]]_vars
  <2> SUFFICES ASSUME Next, NEW t \in Goroutines, TaskOver(t), task[t].at # "none"
               PROVE  /\ TaskOver(t)'
                      /\ \/ task'[t] = task[t]
                         \/ StepsLeft[task'[t].at] < StepsLeft[task[t].at]
    BY <1>1
  <2>1. TaskOver(t)'
    BY <1>1, CancelledForGood
  <2>2. ASSUME NEW u \in Goroutines, TaskStep(u) \/ SessionFails(u)
        PROVE  \/ task'[t] = task[t]
               \/ StepsLeft[task'[t].at] < StepsLeft[task[t].at]
    <3>1. CASE u = t
      BY <1>1, <2>2, <3>1, OwnStepForward
    <3>2. CASE u # t
      BY <1>1, <2>2, <3>2, OtherGoes
    <3> QED BY <3>1, <3>2
  <2>3. CASE StartCollectors
    <3>1. t[1] # epoch
      BY <1>1, <2>3 DEF StartCollectors, EngineInv, Launched
    <3>2. task'[t] = task[t]
      BY <2>3, <3>1 DEF StartCollectors
    <3> QED BY <2>1, <3>2
  <2>4. CASE UNCHANGED task
    BY <2>1, <2>4
  <2>5. \/ UNCHANGED task \/ StartCollectors
        \/ \E u \in Goroutines : TaskStep(u) \/ SessionFails(u)
    BY DEF Next, OperatorStep, Environment, MonitorStep, AddRouter, RemoveRouter,
       Start, FirstConnect, StartMonitors, Stop, CollectorsReturned,
       MonitorsReturned, CancelParent, Drop, Tick, MonitorConnects, PingAnswered,
       PingFails, MonitorReleases, MonitorStops
  <2> QED BY <2>1, <2>2, <2>3, <2>4, <2>5
<1> QED BY <1>1, Inductive, PTL DEF Spec, CancelledGoesOn

-----------------------------------------------------------------------------
\* Without a Start of a running engine, Engine.Stop has cancelled the context
\* of every goroutine that it waits for.
StopIsHeard ==
  ~StartWhileRunning /\ Stopping =>
    \A t \in Goroutines : /\ task[t].at \notin {"none", "done"} => TaskOver(t)
                          /\ monitor[t] \notin {"none", "done"} => Over(t[1])

\* Every context but that of the running Start has been cancelled, and a
\* goroutine belongs to one of the Starts.
OneContext ==
  /\ ~StartWhileRunning =>
       \A n \in 1..epoch :
         \/ n \in ctxOff
         \/ n = epoch /\ opc \notin {"waitCollectors", "waitMonitors", "stopped"}
  /\ \A t \in Goroutines :
       task[t].at # "none" \/ monitor[t] # "none" => t[1] <= epoch

\* A Start begins with no context left, and launches goroutines of its own.
LEMMA OneContextStep == EngineInv /\ OneContext /\ [Next]_vars => OneContext'
<1> SUFFICES ASSUME EngineInv, OneContext, [Next]_vars PROVE OneContext'
  OBVIOUS
<1> DEFINE Contexts(e, off, o) ==
      ~StartWhileRunning =>
        \A n \in 1..e :
          n \in off \/ (n = e /\ o \notin {"waitCollectors", "waitMonitors", "stopped"})
<1>1. epoch \in Nat
  BY EngineAssumption DEF EngineInv, TypeOK
<1>2. Contexts(epoch', ctxOff', opc')
  <2>1. CASE Start
    <3>1. epoch' = epoch + 1 /\ ctxOff' = ctxOff /\ opc' = "connecting"
      BY <2>1 DEF Start
    <3>2. ~StartWhileRunning => epoch = 0 \/ opc = "stopped"
      BY <2>1 DEF Start
    <3>3. ~StartWhileRunning => \A n \in 1..epoch : n \in ctxOff
      BY <1>1, <3>2 DEF OneContext
    <3>4. \A n \in 1..(epoch + 1) : n \in 1..epoch \/ n = epoch + 1
      BY <1>1
    <3> QED BY <3>1, <3>3, <3>4
  <2>2. CASE Stop
    BY <2>2 DEF Stop, OneContext
  <2>3. CASE StartMonitors \/ StartCollectors \/ CancelParent
    BY <2>3 DEF StartMonitors, StartCollectors, CancelParent, contexts, operator,
       OneContext
  <2>4. CASE CollectorsReturned \/ MonitorsReturned
    BY <2>4 DEF CollectorsReturned, MonitorsReturned, contexts, OneContext
  <2>5. CASE UNCHANGED <<epoch, ctxOff, opc>>
    BY <2>5 DEF OneContext
  <2> QED
    BY <2>1, <2>2, <2>3, <2>4, <2>5
    DEF Next, OperatorStep, Environment, TaskStep, MonitorStep, vars, AddRouter,
        RemoveRouter, FirstConnect, Drop, TaskBegins, LoopTop, GetConn, ConnectConn,
        Acquire, SessionEnds, SessionFails, ReleaseConn, SleepEnds, Tick,
        MonitorConnects, PingAnswered, PingFails, MonitorReleases, MonitorStops,
        contexts, operator
<1>3. epoch' \in Nat /\ epoch <= epoch'
  <2>1. CASE Start
    BY <1>1, <2>1 DEF Start
  <2>2. CASE UNCHANGED epoch
    BY <1>1, <2>2
  <2> QED
    BY <2>1, <2>2
    DEF Next, OperatorStep, Environment, TaskStep, MonitorStep, vars, AddRouter,
        RemoveRouter, FirstConnect, StartMonitors, StartCollectors, Stop,
        CollectorsReturned, MonitorsReturned, CancelParent, Drop, TaskBegins,
        LoopTop, GetConn, ConnectConn, Acquire, SessionEnds, SessionFails,
        ReleaseConn, SleepEnds, Tick, MonitorConnects, PingAnswered, PingFails,
        MonitorReleases, MonitorStops, contexts
<1>4. ASSUME NEW t \in Goroutines, task'[t].at # "none" \/ monitor'[t] # "none"
      PROVE  t[1] <= epoch'
  <2>1. t[1] \in Nat
    BY DEF Goroutines, Starts
  <2>2. CASE task[t].at # "none" \/ monitor[t] # "none"
    BY <1>1, <1>3, <2>1, <2>2 DEF OneContext
  <2>3. CASE task[t].at = "none" /\ monitor[t] = "none"
    <3>1. CASE StartMonitors
      BY <1>3, <1>4, <2>3, <3>1 DEF StartMonitors, contexts
    <3>2. CASE StartCollectors
      BY <1>3, <1>4, <2>3, <3>2 DEF StartCollectors, contexts
    <3>3. ASSUME NEW u \in Goroutines, TaskStep(u) \/ SessionFails(u) PROVE FALSE
      <4>1. u # t
        BY <2>3, <3>3, GoneIsGone
      <4>2. task'[t] = task[t]
        BY <3>3, <4>1, OtherGoes
      <4>3. monitor' = monitor
        BY <3>3 DEF TaskStep, TaskBegins, LoopTop, GetConn, ConnectConn, Acquire,
           SessionEnds, SessionFails, ReleaseConn, SleepEnds
      <4> QED BY <1>4, <2>3, <4>2, <4>3
    <3>4. ASSUME NEW u \in Goroutines, MonitorStep(u) PROVE FALSE
      <4>1. monitor[u] # "none" /\ task' = task
        BY <3>4 DEF MonitorStep, Tick, MonitorConnects, PingAnswered, PingFails,
           MonitorReleases, MonitorStops
      <4>2. monitor'[t] = monitor[t]
        BY <2>3, <3>4, <4>1 DEF MonitorStep, Tick, MonitorConnects, PingAnswered,
           PingFails, MonitorReleases, MonitorStops, Watch, EngineInv, TypeOK
      <4> QED BY <1>4, <2>3, <4>1, <4>2
    <3>5. CASE UNCHANGED <<task, monitor>>
      BY <1>4, <2>3, <3>5
    <3> QED
      BY <3>1, <3>2, <3>3, <3>4, <3>5
      DEF Next, OperatorStep, Environment, vars, AddRouter, RemoveRouter, Start,
          FirstConnect, Stop, CollectorsReturned, MonitorsReturned, CancelParent, Drop
  <2> QED BY <2>2, <2>3
<1> QED BY <1>2, <1>4 DEF OneContext

\* Engine.Stop waits for no goroutine that was not told to end, so that it can
\* hang on none: not on one of an earlier Start, nor on a collector that was
\* launched and has not begun, nor on one whose router was removed.
THEOREM StopWaitsForTheTold == Spec => []StopIsHeard
<1>1. Init => OneContext
  BY DEF Init, OneContext
<1>2. EngineInv /\ OneContext => StopIsHeard
  <2> SUFFICES ASSUME EngineInv, OneContext, ~StartWhileRunning, Stopping,
                      NEW t \in Goroutines,
                      task[t].at \notin {"none", "done"}
                        \/ monitor[t] \notin {"none", "done"}
               PROVE  TaskOver(t) /\ Over(t[1])
    BY DEF StopIsHeard
  <2>1. t[1] \in 1..epoch
    BY EngineAssumption DEF EngineInv, TypeOK, OneContext, Goroutines, Starts
  <2>2. t[1] \in ctxOff
    BY <2>1 DEF OneContext, Stopping
  <2> QED BY <2>2 DEF TaskOver, Over
<1>3. Spec => [](EngineInv /\ OneContext)
  BY <1>1, InitEngineInv, StepKeeps, OneContextStep, PTL DEF Spec
<1> QED BY <1>2, <1>3, PTL
=============================================================================
