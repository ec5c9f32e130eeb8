-------------------------- MODULE RouterConnProofs --------------------------
(***************************************************************************)
(* Theorems about RouterConn, for every set of goroutines and every value  *)
(* of the bounds and the intervals.                                        *)
(***************************************************************************)
EXTENDS RouterConn, TLAPS

\* Exactly one goroutine at a time has the writers' mutex.
Mutex == \A p, q \in Procs : Owns(p) /\ Owns(q) => p = q

\* While a goroutine dials nobody reads, and there is no client yet.
DialAlone ==
  \A p \in Procs : pc[p] = "dial" => Drained /\ state = "connecting" /\ client = 0

\* The inductive invariant: the safety invariants of the connection, and
\* the facts about the mutex that they rest on.
ConnInv ==
  /\ TypeOK
  /\ Mutex
  /\ DialAlone
  /\ NoSocketLeak
  /\ StateMatchesClient
  /\ CommandKeepsItsClient

-----------------------------------------------------------------------------
\* The longest delay, and what keeps the delays below it.
LEMMA LongestDelay ==
  /\ Larger(Interval, MaxInterval) \in Nat
  /\ Interval \in 0..Larger(Interval, MaxInterval)
  /\ 0 \in 0..Larger(Interval, MaxInterval)
  /\ \A d \in Nat : Backoff(d) \in 0..Larger(Interval, MaxInterval)
BY ConnAssumption DEF Larger, Backoff, Smaller

\* Every variable keeps its type through every method of the connection.
LEMMA TypeStep == TypeOK /\ [Next]_vars => TypeOK'
<1> SUFFICES ASSUME TypeOK, [Next]_vars PROVE TypeOK'
  OBVIOUS
<1> USE ConnAssumption, LongestDelay DEF TypeOK, States, Ops, WriteOps, ReadOps, RetryOps, conn
<1>1. CASE UNCHANGED vars
  BY <1>1 DEF vars
<1>2. ASSUME NEW p \in Procs, Locking(p) PROVE TypeOK'
  BY <1>2 DEF Locking, Lock, RLock
<1>3. ASSUME NEW p \in Procs, Body(p) PROVE TypeOK'
  <2>1. CASE ConnectNoOp(p)
    BY <2>1 DEF ConnectNoOp, ReturnUnlocked, Unlocked
  <2>2. CASE ConnectDial(p)
    BY <2>2 DEF ConnectDial
  <2>3. CASE AcquireAsync(p)
    BY <2>3 DEF AcquireAsync, Connected, ReturnUnlocked, Unlocked
  <2>4. CASE Release(p)
    BY <2>4 DEF Release, ReturnUnlocked, Unlocked
  <2>5. CASE ReadReturns(p)
    BY <2>5 DEF ReadReturns, Return
  <2>6. CASE CommandStarts(p)
    BY <2>6 DEF CommandStarts
  <2>7. CASE BumpDelay(p)
    BY <2>7 DEF BumpDelay, Unlocked
  <2>8. CASE LoopTop(p)
    BY <2>8 DEF LoopTop, Return
  <2> QED BY <1>3, <2>1, <2>2, <2>3, <2>4, <2>5, <2>6, <2>7, <2>8 DEF Body
<1>4. ASSUME NEW p \in Procs, Waiting(p) PROVE TypeOK'
  <2>1. CASE DialSucceeds(p)
    BY <2>1 DEF DialSucceeds, ReturnUnlocked, Unlocked
  <2>2. CASE DialFails(p)
    BY <2>2 DEF DialFails, ReturnUnlocked, Unlocked
  <2>3. CASE CommandReturns(p)
    BY <2>3 DEF CommandReturns, Return
  <2>4. CASE Wake(p)
    BY <2>4 DEF Wake
  <2>5. CASE SleepCancelled(p)
    BY <2>5 DEF SleepCancelled, Return
  <2> QED BY <1>4, <2>1, <2>2, <2>3, <2>4, <2>5 DEF Waiting
<1>5. ASSUME NEW p \in Procs, Environment(p) PROVE TypeOK'
  BY <1>5 DEF Environment, Call, CallReconnect, Cancel
<1> QED BY <1>1, <1>2, <1>3, <1>4, <1>5 DEF Next

\* Every variable of the connection and of its users always has its type.
THEOREM TypeCorrect == Spec => []TypeOK
<1>1. Init => TypeOK
  BY ConnAssumption, LongestDelay DEF Init, TypeOK, States, Ops
<1> QED BY <1>1, TypeStep, PTL DEF Spec

-----------------------------------------------------------------------------
\* The initial states satisfy the inductive invariant.
LEMMA ConnInit == Init => ConnInv
BY ConnAssumption, LongestDelay DEF Init, ConnInv, TypeOK, States, Ops, Mutex, DialAlone,
   NoSocketLeak, StateMatchesClient,
   CommandKeepsItsClient, Owns

\* Every step of every method preserves the inductive invariant.
LEMMA ConnStep == ConnInv /\ [Next]_vars => ConnInv'
<1> SUFFICES ASSUME ConnInv, [Next]_vars PROVE ConnInv'
  OBVIOUS
<1>t. TypeOK /\ TypeOK'
  BY TypeStep DEF ConnInv
<1> DEFINE Rest == /\ Mutex /\ DialAlone /\ NoSocketLeak /\ StateMatchesClient
                   /\ CommandKeepsItsClient
<1>r. Rest
  BY DEF ConnInv
<1> USE DEF Mutex, DialAlone, NoSocketLeak, StateMatchesClient,
            CommandKeepsItsClient, Owns, Drained,
            Reading, conn
<1>1. ASSUME UNCHANGED vars PROVE Rest'
  BY <1>1, <1>r DEF vars
<1>2. ASSUME NEW p \in Procs, Locking(p) PROVE Rest'
  <2>1. CASE Lock(p)
    BY <2>1, <1>r, <1>t DEF Lock, Owned, TypeOK
  <2>2. CASE RLock(p)
    BY <2>2, <1>r, <1>t DEF RLock, Owned, TypeOK
  <2> QED BY <1>2, <2>1, <2>2 DEF Locking
<1>3. ASSUME NEW p \in Procs, Body(p) PROVE Rest'
  <2>1. CASE ConnectNoOp(p)
    BY <2>1, <1>r, <1>t DEF ConnectNoOp, InConnect, Locked, ReturnUnlocked, Unlocked, TypeOK
  <2>2. CASE ConnectDial(p)
    BY <2>2, <1>r, <1>t DEF ConnectDial, InConnect, Locked, Connected, TypeOK
  <2>3. CASE AcquireAsync(p)
    BY <2>3, <1>r, <1>t DEF AcquireAsync, Locked, ReturnUnlocked, Unlocked, TypeOK
  <2>4. CASE Release(p)
    BY <2>4, <1>r, <1>t DEF Release, Locked, ReturnUnlocked, Unlocked, TypeOK
  <2>5. CASE ReadReturns(p)
    BY <2>5, <1>r, <1>t DEF ReadReturns, Return, TypeOK
  <2>6. CASE CommandStarts(p)
    BY <2>6, <1>r, <1>t DEF CommandStarts, Connected, TypeOK
  <2>7. CASE BumpDelay(p)
    BY <2>7, <1>r, <1>t DEF BumpDelay, Locked, Unlocked, TypeOK
  <2>8. CASE LoopTop(p)
    BY <2>8, <1>r, <1>t DEF LoopTop, Return, TypeOK
  <2> QED BY <1>3, <2>1, <2>2, <2>3, <2>4, <2>5, <2>6, <2>7, <2>8 DEF Body
<1>4. ASSUME NEW p \in Procs, Waiting(p) PROVE Rest'
  <2>1. CASE DialSucceeds(p)
    BY <2>1, <1>r, <1>t DEF DialSucceeds, ReturnUnlocked, Unlocked, TypeOK
  <2>2. CASE DialFails(p)
    BY <2>2, <1>r, <1>t DEF DialFails, ReturnUnlocked, Unlocked, TypeOK
  <2>3. CASE CommandReturns(p)
    BY <2>3, <1>r, <1>t DEF CommandReturns, Return, TypeOK
  <2>4. CASE Wake(p)
    BY <2>4, <1>r, <1>t DEF Wake, TypeOK
  <2>5. CASE SleepCancelled(p)
    BY <2>5, <1>r, <1>t DEF SleepCancelled, Return, TypeOK
  <2> QED BY <1>4, <2>1, <2>2, <2>3, <2>4, <2>5 DEF Waiting
<1>5. ASSUME NEW p \in Procs, Environment(p) PROVE Rest'
  BY <1>5, <1>r, <1>t DEF Environment, Call, CallReconnect, Cancel, TypeOK
<1> QED BY <1>t, <1>1, <1>2, <1>3, <1>4, <1>5 DEF Next, ConnInv

\* The three safety invariants together, as the inductive invariant gives them.
LEMMA ConnectionSafe ==
  Spec => []( /\ NoSocketLeak
              /\ StateMatchesClient
              /\ CommandKeepsItsClient )
<1>1. ConnInv => /\ NoSocketLeak
                 /\ StateMatchesClient
                 /\ CommandKeepsItsClient
  BY DEF ConnInv
<1> QED BY <1>1, ConnInit, ConnStep, PTL DEF Spec

\* No socket is left open that the connection no longer knows of, however
\* Connect, ReconnectWithBackoff, Release and Close are interleaved.
THEOREM NoLeaks == Spec => []NoSocketLeak
BY ConnectionSafe, PTL

\* The state field and the client field never tell two stories: connected
\* means a client, and "connecting" lasts no longer than a dial.
THEOREM StateAgrees == Spec => []StateMatchesClient
BY ConnectionSafe, PTL

\* A command or a ping ends on the client it began with: nobody closes or
\* replaces the client while the read lock is held over the network.
THEOREM CommandsKeep == Spec => []CommandKeepsItsClient
BY ConnectionSafe, PTL

-----------------------------------------------------------------------------
\* A step that touches the set of asynchronous clients is AcquireAsync's.
LEMMA OnlyAcquireSwitches ==
  ASSUME Next, async' # async
  PROVE  \E p \in Procs : AcquireAsync(p)
BY DEF Next, Locking, Lock, RLock, Body, ConnectNoOp, ConnectDial, Release,
   ReadReturns, CommandStarts, BumpDelay, LoopTop, Waiting, DialSucceeds,
   DialFails, CommandReturns, Wake, SleepCancelled, Environment, Call,
   CallReconnect, Cancel, conn

\* A client is switched to async mode only while no command runs on it.
THEOREM SwitchesWhenQuiet == Spec => AsyncOnlyWhenQuiet
<1>1. ASSUME [Next]_vars
      PROVE  [async' # async => \A p \in Procs : pc[p] # "cmd"]_vars
  <2> SUFFICES ASSUME Next, async' # async
               PROVE  \A p \in Procs : pc[p] # "cmd"
    BY <1>1 DEF vars
  <2>1. PICK q \in Procs : AcquireAsync(q)
    BY OnlyAcquireSwitches
  <2> QED BY <2>1 DEF AcquireAsync, Locked, Drained, Reading
<1> QED BY <1>1, PTL DEF Spec, AsyncOnlyWhenQuiet

-----------------------------------------------------------------------------
(* Nobody waits in a circle.                                               *)

\* A goroutine is in the sections of its own method, and a reader that was
\* turned away has a writer to wait for.
InItsMethod ==
  \A p \in Procs :
    /\ pc[p] \in {"lock", "drain"} => op[p] \in WriteOps \cup RetryOps
    /\ pc[p] \in {"rlock", "rwait", "read"} => op[p] \in ReadOps
    /\ pc[p] \in {"sleep", "loop"} => Retrying(p)
    /\ pc[p] = "rwait" => Owned

LEMMA InItsMethodStep == TypeOK /\ Mutex /\ InItsMethod /\ [Next]_vars => InItsMethod'
<1> SUFFICES ASSUME TypeOK, Mutex, InItsMethod, [Next]_vars PROVE InItsMethod'
  OBVIOUS
<1> USE DEF TypeOK, Mutex, InItsMethod, Retrying, Owned, Owns, WriteOps, ReadOps, RetryOps, Ops, conn
<1>1. CASE UNCHANGED vars
  BY <1>1 DEF vars
<1>2. ASSUME NEW p \in Procs, Locking(p) PROVE InItsMethod'
  BY <1>2 DEF Locking, Lock, RLock
<1>3. ASSUME NEW p \in Procs, Body(p) PROVE InItsMethod'
  <2>1. CASE ConnectNoOp(p) \/ AcquireAsync(p) \/ Release(p)
    BY <2>1 DEF ConnectNoOp, AcquireAsync, Release, InConnect, Locked, ReturnUnlocked, Unlocked
  <2>2. CASE ConnectDial(p)
    BY <2>2 DEF ConnectDial, InConnect, Locked
  <2>3. CASE ReadReturns(p) \/ CommandStarts(p)
    BY <2>3 DEF ReadReturns, CommandStarts, Return
  <2>4. CASE BumpDelay(p)
    BY <2>4 DEF BumpDelay, Locked, Unlocked
  <2>5. CASE LoopTop(p)
    BY <2>5 DEF LoopTop, Return
  <2> QED BY <1>3, <2>1, <2>2, <2>3, <2>4, <2>5 DEF Body
<1>4. ASSUME NEW p \in Procs, Waiting(p) PROVE InItsMethod'
  <2>1. CASE DialSucceeds(p) \/ DialFails(p)
    BY <2>1 DEF DialSucceeds, DialFails, ReturnUnlocked, Unlocked
  <2>2. CASE CommandReturns(p) \/ Wake(p) \/ SleepCancelled(p)
    BY <2>2 DEF CommandReturns, Wake, SleepCancelled, Return
  <2> QED BY <1>4, <2>1, <2>2 DEF Waiting
<1>5. ASSUME NEW p \in Procs, Environment(p) PROVE InItsMethod'
  BY <1>5 DEF Environment, Call, CallReconnect, Cancel
<1> QED BY <1>1, <1>2, <1>3, <1>4, <1>5 DEF Next

\* Whoever has the writers' mutex moves, or waits for a reader that does.
LEMMA OwnerMoves ==
  ASSUME TypeOK, InItsMethod, NEW p \in Procs, Owns(p)
  PROVE  Moves(p) \/ \E q \in Procs : WaitsFor(p, q) /\ Moves(q)
<1>1. CASE pc[p] = "dial" \/ Drained
  BY <1>1 DEF Owns, Moves, Locked, InItsMethod
<1>2. CASE pc[p] = "drain" /\ ~Drained
  <2>1. PICK q \in Procs : Reading(q)
    BY <1>2 DEF Drained
  <2>2. Moves(q)
    BY <2>1 DEF Reading, Moves, InItsMethod
  <2> QED BY <1>2, <2>1, <2>2 DEF WaitsFor
<1> QED BY <1>1, <1>2 DEF Owns

\* For any number of goroutines: whoever is in a method can step, or waits for
\* the owner of the lock, who can, or who waits for a reader that can.
THEOREM NoCircle == Spec => []WaitsEnd
<1>1. Init => InItsMethod
  BY DEF Init, InItsMethod
<1>2. TypeOK /\ InItsMethod => WaitsEnd
  <2> SUFFICES ASSUME TypeOK, InItsMethod, NEW p \in Procs, pc[p] # "idle"
               PROVE  \/ Moves(p)
                      \/ \E q \in Procs :
                           /\ WaitsFor(p, q)
                           /\ Moves(q) \/ \E r \in Procs : WaitsFor(q, r) /\ Moves(r)
    BY DEF WaitsEnd
  <2> SUFFICES ASSUME ~Moves(p)
               PROVE  \E q \in Procs :
                        /\ WaitsFor(p, q)
                        /\ Moves(q) \/ \E r \in Procs : WaitsFor(q, r) /\ Moves(r)
    BY Zenon
  <2>1. CASE Owns(p)
    BY <2>1, OwnerMoves
  <2>2. CASE ~Owns(p)
    <3>1. pc[p] \in {"lock", "rwait"} /\ Owned
      BY <2>2 DEF TypeOK, InItsMethod, Moves, Owns
    <3>2. PICK q \in Procs : Owns(q)
      BY <3>1 DEF Owned
    <3> QED BY <3>1, <3>2, OwnerMoves DEF WaitsFor
  <2> QED BY <2>1, <2>2
<1>3. ConnInv => TypeOK /\ Mutex
  BY DEF ConnInv
<1> QED BY <1>1, <1>2, <1>3, InItsMethodStep, ConnInit, ConnStep, PTL DEF Spec

-----------------------------------------------------------------------------
(* Every method comes to its end.                                          *)

\* How many steps of its own a goroutine is away from the end of its method;
\* one that retries, from when it no longer will.
Places == [idle |-> 0, cmd |-> 1, read |-> 2, rwait |-> 3, rlock |-> 4,
           loop |-> 1, sleep |-> 2, drain |-> 3, lock |-> 4, dial |-> 5]
StepsLeft(p) ==
  Places[pc[p]] + IF pc[p] \in {"lock", "drain"} /\ op[p] # "bump" THEN 3 ELSE 0

\* No method goes back: each step of a goroutine in it, and each step of
\* another that moves it, leads nearer to its return, and a cancelled retry
\* does not begin another round.
StepsForward ==
  [][\A p \in Procs :
       pc[p] # "idle" /\ pc'[p] # pc[p] /\ (Retrying(p) => p \in cancelled)
         => StepsLeft(p)' < StepsLeft(p)]_vars


\* What is left of every method, but a retry that is not cancelled, is bounded.
THEOREM MethodsEnd == Spec => StepsForward
<1>1. ASSUME TypeOK, InItsMethod, [Next]_vars
      PROVE  [\A p \in Procs :
               pc[p] # "idle" /\ pc'[p] # pc[p] /\ (Retrying(p) => p \in cancelled)
                 => StepsLeft(p)' < StepsLeft(p)]_vars
  <2> SUFFICES ASSUME Next, NEW p \in Procs, pc[p] # "idle", pc'[p] # pc[p],
                      Retrying(p) => p \in cancelled
               PROVE  StepsLeft(p)' < StepsLeft(p)
    BY <1>1
  <2> USE <1>1 DEF TypeOK, InItsMethod, StepsLeft, Places, Retrying, WriteOps, ReadOps, RetryOps, Ops, conn
  <2>1. ASSUME NEW q \in Procs, Locking(q) PROVE StepsLeft(p)' < StepsLeft(p)
    BY <2>1 DEF Locking, Lock, RLock
  <2>2. ASSUME NEW q \in Procs, Body(q) PROVE StepsLeft(p)' < StepsLeft(p)
    <3>1. CASE ConnectNoOp(q) \/ AcquireAsync(q) \/ Release(q)
      BY <3>1 DEF ConnectNoOp, AcquireAsync, Release, InConnect, Locked, ReturnUnlocked, Unlocked
    <3>2. CASE ConnectDial(q)
      BY <3>2 DEF ConnectDial, InConnect, Locked
    <3>3. CASE ReadReturns(q) \/ CommandStarts(q)
      BY <3>3 DEF ReadReturns, CommandStarts, Return
    <3>4. CASE BumpDelay(q)
      BY <3>4 DEF BumpDelay, Locked, Unlocked
    <3>5. CASE LoopTop(q)
      BY <3>5 DEF LoopTop, Return
    <3> QED BY <2>2, <3>1, <3>2, <3>3, <3>4, <3>5 DEF Body
  <2>3. ASSUME NEW q \in Procs, Waiting(q) PROVE StepsLeft(p)' < StepsLeft(p)
    <3>1. CASE DialSucceeds(q) \/ DialFails(q)
      BY <3>1 DEF DialSucceeds, DialFails, ReturnUnlocked, Unlocked
    <3>2. CASE CommandReturns(q) \/ Wake(q) \/ SleepCancelled(q)
      BY <3>2 DEF CommandReturns, Wake, SleepCancelled, Return
    <3> QED BY <2>3, <3>1, <3>2 DEF Waiting
  <2>4. ASSUME NEW q \in Procs, Environment(q) PROVE StepsLeft(p)' < StepsLeft(p)
    BY <2>4 DEF Environment, Call, CallReconnect, Cancel
  <2> QED BY <2>1, <2>2, <2>3, <2>4 DEF Next
<1>2. Spec => [](TypeOK /\ InItsMethod)
  <2>1. Init => InItsMethod
    BY DEF Init, InItsMethod
  <2>2. ConnInv => TypeOK /\ Mutex
    BY DEF ConnInv
  <2> QED BY <2>1, <2>2, InItsMethodStep, ConnInit, ConnStep, PTL DEF Spec
<1> QED BY <1>1, <1>2, PTL DEF Spec, StepsForward

-----------------------------------------------------------------------------
\* The initial states of the connection are those of a link.
LEMMA LinkInitial == Init => Link!LinkInit
BY DEF Init, Link!LinkInit

\* Every step of the connection is a step of the link or changes nothing of it.
LEMMA LinkStep == ConnInv /\ [Next]_vars => [Link!LinkNext]_(Link!linkVars)
<1> SUFFICES ASSUME ConnInv, [Next]_vars
             PROVE  [Link!LinkNext]_(Link!linkVars)
  OBVIOUS
<1> DEFINE Busy == {p \in Procs : pc[p] = "cmd"}
<1> DEFINE Still == client' = client /\ dials' = dials /\ Busy' = Busy
<1>s. ASSUME Still PROVE [Link!LinkNext]_(Link!linkVars)
  BY <1>s DEF Link!linkVars
<1> USE DEF ConnInv, TypeOK, conn
<1> HIDE DEF Still
<1>1. CASE UNCHANGED vars
  BY <1>1, <1>s DEF vars, Still
<1>2. ASSUME NEW p \in Procs, Locking(p) PROVE Still
  BY <1>2 DEF Locking, Lock, RLock, Still
<1>3. ASSUME NEW p \in Procs, Body(p) PROVE [Link!LinkNext]_(Link!linkVars)
  <2>1. CASE Release(p)
    <3>1. Busy = {} /\ Busy' = {}
      BY <2>1 DEF Release, Locked, Drained, Reading, ReturnUnlocked, Unlocked
    <3>2. CASE client = 0
      BY <2>1, <3>1, <3>2, <1>s DEF Release, Still
    <3>3. CASE client # 0
      BY <2>1, <3>1, <3>3 DEF Release, Link!LinkNext, Link!TakeDown
    <3> QED BY <3>2, <3>3
  <2>2. CASE CommandStarts(p)
    <3>1. p \notin Busy /\ Busy' = Busy \cup {p} /\ client # 0
      BY <2>2 DEF CommandStarts, Connected
    <3> QED BY <2>2, <3>1 DEF CommandStarts, Link!LinkNext, Link!BeginCommand
  <2>3. CASE ConnectNoOp(p) \/ AcquireAsync(p)
    BY <2>3, <1>s DEF ConnectNoOp, AcquireAsync, InConnect, Locked, ReturnUnlocked, Unlocked, Still
  <2>4. CASE ConnectDial(p) \/ ReadReturns(p) \/ LoopTop(p)
    BY <2>4, <1>s DEF ConnectDial, InConnect, Locked, ReadReturns, LoopTop, Return, Still
  <2>5. CASE BumpDelay(p)
    BY <2>5, <1>s DEF BumpDelay, Locked, Unlocked, Still
  <2> QED BY <1>3, <2>1, <2>2, <2>3, <2>4, <2>5 DEF Body
<1>4. ASSUME NEW p \in Procs, Waiting(p) PROVE [Link!LinkNext]_(Link!linkVars)
  <2>1. CASE DialSucceeds(p)
    <3>1. Busy' = Busy /\ client = 0
      BY <2>1 DEF DialSucceeds, DialAlone, ReturnUnlocked, Unlocked
    <3> QED BY <2>1, <3>1 DEF DialSucceeds, Link!LinkNext, Link!Establish
  <2>2. CASE CommandReturns(p)
    <3>1. p \in Busy /\ Busy' = Busy \ {p}
      BY <2>2 DEF CommandReturns, Return
    <3> QED BY <2>2, <3>1 DEF CommandReturns, Link!LinkNext, Link!EndCommand
  <2>3. CASE DialFails(p)
    BY <2>3, <1>s DEF DialFails, ReturnUnlocked, Unlocked, Still
  <2>4. CASE Wake(p) \/ SleepCancelled(p)
    BY <2>4, <1>s DEF Wake, SleepCancelled, Return, Still
  <2> QED BY <1>4, <2>1, <2>2, <2>3, <2>4 DEF Waiting
<1>5. ASSUME NEW p \in Procs, Environment(p) PROVE Still
  BY <1>5 DEF Environment, Call, CallReconnect, Cancel, Still, WriteOps, ReadOps
<1> QED BY <1>1, <1>2, <1>3, <1>4, <1>5, <1>s DEF Next

\* RouterConn, mutex and all, implements the single link of SingleLink: its
\* users may reason about one fresh link that nothing takes down under them.
THEOREM Refinement == Spec => ImplementsSingleLink
BY LinkInitial, LinkStep, ConnInit, ConnStep, PTL
   DEF Spec, ImplementsSingleLink, Link!LinkSpec
=============================================================================
