----------------------------- MODULE RouterConn -----------------------------
(***************************************************************************)
(* One RouterConn (internal/collector/pool.go): the persistent connection  *)
(* to a router, shared by the health monitor, a collector and callers of   *)
(* ExecuteContext under a sync.RWMutex.  Connect keeps the write lock for  *)
(* the whole dial, IsAlive and ExecuteContext keep a read lock for the     *)
(* whole command, so the model keeps those two as separate steps; a        *)
(* critical section without I/O is one step.  The goroutines here are the  *)
(* most general users: any of them may call any method at any time.        *)
(*                                                                         *)
(* The mutex is not a variable: who holds it is read off the program       *)
(* counters, as the code's deferred unlocks tie the one to the other.      *)
(***************************************************************************)
EXTENDS Naturals

CONSTANTS Procs,            \* goroutines that call the methods
          MaxDials,         \* bound: successful dials in a behaviour
          Interval,         \* RouterConfig.ReconnectInterval, after Defaults
          MaxInterval,      \* RouterConfig.MaxReconnectInterval, after Defaults
          CallersSetDeadline \* do callers of ExecuteContext bound their context?

ASSUME ConnAssumption ==
  /\ MaxDials \in Nat
  /\ Interval \in Nat \ {0}
  /\ MaxInterval \in Nat \ {0}
  /\ CallersSetDeadline \in BOOLEAN

VARIABLES
  state,          \* rc.state
  client,         \* rc.client: the number of its dial, 0 for nil
  reconnectDelay, \* rc.reconnectDelay
  dials,          \* successful dials so far; clients are numbered by it
  open,           \* clients whose socket has not been closed
  async,          \* clients that were switched to async mode
  pc,             \* where each goroutine is
  op,             \* the method each goroutine is in, "none" outside of any
  used,           \* the client each goroutine's command runs on, 0 if none
  delay,          \* ReconnectWithBackoff's local delay
  cancelled       \* goroutines whose context has been cancelled

conn == <<state, client, reconnectDelay, dials, open, async>>
vars == <<state, client, reconnectDelay, dials, open, async,
          pc, op, used, delay, cancelled>>

States == {"disconnected", "connecting", "connected"}
WriteOps == {"connect", "acquire", "release", "close"}
ReadOps == {"isalive", "execute", "state"}
\* ReconnectWithBackoff is in its Connect, or in the section that doubles
\* the delay.
RetryOps == {"reconnect", "bump"}
Ops == WriteOps \cup ReadOps \cup RetryOps \cup {"none"}

Smaller(a, b) == IF a < b THEN a ELSE b
Larger(a, b) == IF a > b THEN a ELSE b

\* The types; no delay is longer than the configured maximum (or than the
\* first delay, when that one is configured longer).
TypeOK ==
  /\ state \in States
  /\ client \in 0..MaxDials
  /\ reconnectDelay \in 0..Larger(Interval, MaxInterval)
  /\ dials \in 0..MaxDials
  /\ open \subseteq 1..MaxDials
  /\ async \subseteq 1..MaxDials
  /\ pc \in [Procs -> {"idle", "lock", "drain", "dial", "rlock", "rwait",
                       "read", "cmd", "sleep", "loop"}]
  /\ op \in [Procs -> Ops]
  /\ used \in [Procs -> 0..MaxDials]
  /\ delay \in [Procs -> 0..Larger(Interval, MaxInterval)]
  /\ cancelled \subseteq Procs

Init ==
  /\ state = "disconnected"
  /\ client = 0
  /\ reconnectDelay = Interval
  /\ dials = 0
  /\ open = {}
  /\ async = {}
  /\ pc = [p \in Procs |-> "idle"]
  /\ op = [p \in Procs |-> "none"]
  /\ used = [p \in Procs |-> 0]
  /\ delay = [p \in Procs |-> 0]
  /\ cancelled = {}

-----------------------------------------------------------------------------
(* sync.RWMutex.  A writer first takes the writers' own mutex, which turns *)
(* new readers away, then waits for the readers inside to leave; its       *)
(* unlock lets in every reader that was turned away.                       *)

Owns(p) == pc[p] \in {"drain", "dial"}   \* p has the writers' mutex
Owned == \E p \in Procs : Owns(p)
\* Faulty variant: the read lock is given back before the command is sent.
ReadingBeforeCommand(p) == pc[p] = "read"

Reading(p) == pc[p] \in {"read", "cmd"}  \* p holds the read lock
Drained == \A p \in Procs : ~Reading(p)

Lock(p) ==
  /\ pc[p] = "lock"
  /\ ~Owned
  /\ pc' = [pc EXCEPT ![p] = "drain"]
  /\ UNCHANGED <<conn, op, used, delay, cancelled>>

RLock(p) ==
  /\ pc[p] = "rlock"
  /\ pc' = [pc EXCEPT ![p] = IF Owned THEN "rwait" ELSE "read"]
  /\ UNCHANGED <<conn, op, used, delay, cancelled>>

\* Faulty variant: the unlock lets no waiting reader in.
UnlockedForgetsReaders(p, next) == [pc EXCEPT ![p] = next]

\* The program counters after the writer p unlocks and goes on to next.
Unlocked(p, next) ==
  [q \in Procs |-> IF q = p THEN next
                   ELSE IF pc[q] = "rwait" THEN "read" ELSE pc[q]]

\* p holds the write lock and is at the start of the locked section o.
Locked(p, o) == pc[p] = "drain" /\ Drained /\ op[p] = o

-----------------------------------------------------------------------------
(* The methods.                                                            *)

Connected == state = "connected" /\ client # 0
Retrying(p) == op[p] \in RetryOps

Call(p, o) ==
  /\ pc[p] = "idle"
  /\ pc' = [pc EXCEPT ![p] = IF o \in WriteOps THEN "lock" ELSE "rlock"]
  /\ op' = [op EXCEPT ![p] = o]
  /\ UNCHANGED <<conn, used, delay, cancelled>>

\* p returns from its method, the write lock released.
ReturnUnlocked(p) ==
  /\ pc' = Unlocked(p, "idle")
  /\ op' = [op EXCEPT ![p] = "none"]
  /\ cancelled' = cancelled \ {p}
  /\ UNCHANGED <<used, delay>>

\* p returns from its method, holding no write lock.
Return(p) ==
  /\ pc' = [pc EXCEPT ![p] = "idle"]
  /\ op' = [op EXCEPT ![p] = "none"]
  /\ cancelled' = cancelled \ {p}

InConnect(p) == Locked(p, "connect") \/ Locked(p, "reconnect")

\* Connect, already connected: return nil.
ConnectNoOp(p) ==
  /\ InConnect(p)
  /\ Connected
  /\ ReturnUnlocked(p)
  /\ UNCHANGED conn

\* Faulty variant: Connect without its test for a live client.
DialRegardless(p) ==
  /\ InConnect(p)
  /\ state' = "connecting"
  /\ pc' = [pc EXCEPT ![p] = "dial"]
  /\ UNCHANGED <<client, reconnectDelay, dials, open, async,
                 op, used, delay, cancelled>>

\* Connect, otherwise: the dial runs with the write lock held.
ConnectDial(p) ==
  /\ InConnect(p)
  /\ ~Connected
  /\ state' = "connecting"
  /\ pc' = [pc EXCEPT ![p] = "dial"]
  /\ UNCHANGED <<client, reconnectDelay, dials, open, async,
                 op, used, delay, cancelled>>

DialSucceeds(p) ==
  /\ pc[p] = "dial"
  /\ dials < MaxDials
  /\ dials' = dials + 1
  /\ client' = dials + 1
  /\ open' = open \cup {dials + 1}
  /\ state' = "connected"
  /\ reconnectDelay' = Interval
  /\ ReturnUnlocked(p)
  /\ UNCHANGED async

\* Faulty variant: the failed dial leaves rc.state alone.
DialFailsQuietly(p) ==
  /\ pc[p] = "dial"
  /\ ReturnUnlocked(p)
  /\ UNCHANGED conn

\* A refused, timed out or cancelled dial; ReconnectWithBackoff goes on to
\* read and double the delay, under the lock again.
DialFails(p) ==
  /\ pc[p] = "dial"
  /\ state' = "disconnected"
  /\ IF Retrying(p)
       THEN /\ pc' = Unlocked(p, "lock")
            /\ op' = [op EXCEPT ![p] = "bump"]
            /\ UNCHANGED <<used, delay, cancelled>>
       ELSE ReturnUnlocked(p)
  /\ UNCHANGED <<client, reconnectDelay, dials, open, async>>

\* Faulty variant: AcquireAsync under the read lock, among running commands.
AcquireUnderRLock(p) ==
  /\ pc[p] = "drain" /\ op[p] = "acquire"
  /\ async' = IF Connected THEN async \cup {client} ELSE async
  /\ ReturnUnlocked(p)
  /\ UNCHANGED <<state, client, reconnectDelay, dials, open>>

AcquireAsync(p) ==
  /\ Locked(p, "acquire")
  /\ async' = IF Connected THEN async \cup {client} ELSE async
  /\ ReturnUnlocked(p)
  /\ UNCHANGED <<state, client, reconnectDelay, dials, open>>

\* Faulty variant: Release does not wait for the readers inside.
ReleaseAtOnce(p) ==
  /\ pc[p] = "drain" /\ op[p] \in {"release", "close"}
  /\ open' = open \ {client}
  /\ client' = 0
  /\ state' = "disconnected"
  /\ ReturnUnlocked(p)
  /\ UNCHANGED <<reconnectDelay, dials, async>>

\* Release; Close does the same, and neither reads lastDrop.
Release(p) ==
  /\ Locked(p, "release") \/ Locked(p, "close")
  /\ open' = open \ {client}
  /\ client' = 0
  /\ state' = "disconnected"
  /\ ReturnUnlocked(p)
  /\ UNCHANGED <<reconnectDelay, dials, async>>

\* State, and the early return of IsAlive and ExecuteContext.
ReadReturns(p) ==
  /\ pc[p] = "read"
  /\ op[p] = "state" \/ ~Connected
  /\ Return(p)
  /\ UNCHANGED <<conn, used, delay>>

\* IsAlive and ExecuteContext send their command, the read lock still held.
CommandStarts(p) ==
  /\ pc[p] = "read"
  /\ op[p] \in {"isalive", "execute"}
  /\ Connected
  /\ pc' = [pc EXCEPT ![p] = "cmd"]
  /\ used' = [used EXCEPT ![p] = client]
  /\ UNCHANGED <<conn, op, delay, cancelled>>

\* The reply, the error or the timeout: whichever, the read lock is released.
CommandReturns(p) ==
  /\ pc[p] = "cmd"
  /\ used' = [used EXCEPT ![p] = 0]
  /\ Return(p)
  /\ UNCHANGED <<conn, delay>>

-----------------------------------------------------------------------------
(* ReconnectWithBackoff: Connect until it succeeds, sleeping in between.   *)

CallReconnect(p) ==
  /\ pc[p] = "idle"
  /\ pc' = [pc EXCEPT ![p] = "loop"]
  /\ op' = [op EXCEPT ![p] = "reconnect"]
  /\ UNCHANGED <<conn, used, delay, cancelled>>

\* The caller's context is cancelled.
Cancel(p) ==
  /\ Retrying(p)
  /\ p \notin cancelled
  /\ cancelled' = cancelled \cup {p}
  /\ UNCHANGED <<conn, pc, op, used, delay>>

\* Faulty variant: the loop does not look at the context.
LoopForever(p) ==
  /\ pc[p] = "loop"
  /\ pc' = [pc EXCEPT ![p] = "lock"]
  /\ op' = [op EXCEPT ![p] = "reconnect"]
  /\ UNCHANGED <<conn, used, delay, cancelled>>

LoopTop(p) ==
  /\ pc[p] = "loop"
  /\ IF p \in cancelled
       THEN Return(p)
       ELSE /\ pc' = [pc EXCEPT ![p] = "lock"]
            /\ op' = [op EXCEPT ![p] = "reconnect"]
            /\ UNCHANGED cancelled
  /\ UNCHANGED <<conn, used, delay>>

\* Faulty variant: the doubled delay is not capped.
BackoffUncapped(d) == 2 * d

Backoff(d) == Smaller(2 * d, MaxInterval)

BumpDelay(p) ==
  /\ Locked(p, "bump")
  /\ delay' = [delay EXCEPT ![p] = reconnectDelay]
  /\ reconnectDelay' = Backoff(reconnectDelay)
  /\ pc' = Unlocked(p, "sleep")
  /\ UNCHANGED <<state, client, dials, open, async, op, used, cancelled>>

\* time.After(delay)
Wake(p) ==
  /\ pc[p] = "sleep"
  /\ pc' = [pc EXCEPT ![p] = "loop"]
  /\ delay' = [delay EXCEPT ![p] = 0]
  /\ UNCHANGED <<conn, op, used, cancelled>>

\* ctx.Done() while sleeping
SleepCancelled(p) ==
  /\ pc[p] = "sleep"
  /\ p \in cancelled
  /\ delay' = [delay EXCEPT ![p] = 0]
  /\ Return(p)
  /\ UNCHANGED <<conn, used>>

-----------------------------------------------------------------------------
Locking(p) == Lock(p) \/ RLock(p)

Body(p) ==
  \/ ConnectNoOp(p) \/ ConnectDial(p) \/ AcquireAsync(p) \/ Release(p)
  \/ ReadReturns(p) \/ CommandStarts(p) \/ BumpDelay(p) \/ LoopTop(p)

Waiting(p) ==
  \/ DialSucceeds(p) \/ DialFails(p) \/ CommandReturns(p)
  \/ Wake(p) \/ SleepCancelled(p)

Environment(p) ==
  \/ \E o \in WriteOps \cup ReadOps : Call(p, o)
  \/ CallReconnect(p)
  \/ Cancel(p)

Next == \E p \in Procs :
  Locking(p) \/ Body(p) \/ Waiting(p) \/ Environment(p)

Spec == Init /\ [][Next]_vars

\* Go's scheduler runs every runnable goroutine; a starving sync.Mutex hands
\* itself to its oldest waiter (SF); a dial ends within DialTimeout, a ping
\* within 5s and a sleep after its delay.  ExecuteContext adds no timeout of
\* its own: it ends for certain only if its caller bounds the context.
Fairness == \A p \in Procs :
  /\ SF_vars(Lock(p))
  /\ WF_vars(RLock(p))
  /\ WF_vars(Body(p))
  /\ WF_vars(DialSucceeds(p) \/ DialFails(p))
  /\ WF_vars(CommandReturns(p) /\ (op[p] = "execute" => CallersSetDeadline))
  /\ WF_vars(Wake(p) \/ SleepCancelled(p))

FairSpec == Spec /\ Fairness

-----------------------------------------------------------------------------
(* Safety.                                                                 *)

\* No socket is ever left open behind the pool's back: what is open is
\* exactly the client the connection knows.  Connect overwrites rc.client,
\* so a dial over a live client would leak its socket.
NoSocketLeak == open = IF client = 0 THEN {} ELSE {client}

\* state and client never disagree outside Connect's dial, so the tests
\* that read both (Connect, AcquireAsync, IsAlive) and the ones that read
\* only the state (State, checkConnection, acquireAndStream) decide alike.
\* "connecting" is seen only by the goroutine that dials: checkConnection
\* has no case for it, so that a connection left in it is never dialled again.
StateMatchesClient ==
  /\ state = "connected" => client # 0
  /\ client # 0 => state = "connected"
  /\ state = "connecting" => \E p \in Procs : pc[p] = "dial"

\* A command runs on the open, current client from start to end, whatever
\* the health monitor, the collector and the pool do meanwhile.
CommandKeepsItsClient ==
  \A p \in Procs : pc[p] = "cmd" => used[p] = client /\ client \in open

\* p waits for q: for the owner of the writers' mutex, or, being that owner,
\* for a reader inside.
WaitsFor(p, q) ==
  \/ pc[p] \in {"lock", "rwait"} /\ Owns(q)
  \/ pc[p] = "drain" /\ Reading(q)

\* p has a step of its own, whatever the others do.
Moves(p) ==
  \/ pc[p] = "lock" /\ ~Owned
  \/ pc[p] \in {"rlock", "dial", "cmd", "sleep", "loop"}
  \/ pc[p] = "read" /\ op[p] \in ReadOps
  \/ \E o \in WriteOps \cup RetryOps : Locked(p, o)

\* Nobody waits in a circle, or for a wake-up that never comes: whoever is in
\* a method moves, or waits for one that does at most two links further on.
\* A dial under the lock, a command under the read lock and a reader that a
\* writer has turned away all hang on this.
WaitsEnd ==
  \A p \in Procs : pc[p] # "idle" =>
    \/ Moves(p)
    \/ \E q \in Procs : /\ WaitsFor(p, q)
                        /\ Moves(q) \/ \E r \in Procs : WaitsFor(q, r) /\ Moves(r)

\* A client is switched to async mode only when no command is running on
\* it: the synchronous and the asynchronous reader of a socket never meet.
AsyncOnlyWhenQuiet ==
  [][async' # async => \A p \in Procs : pc[p] # "cmd"]_vars

\* RouterConn implements the link of SingleLink.
Link == INSTANCE SingleLink WITH
  link <- client, made <- dials, busy <- {p \in Procs : pc[p] = "cmd"}

ImplementsSingleLink == Link!LinkSpec

-----------------------------------------------------------------------------
(* Liveness.                                                               *)

\* Every call of a method returns: nobody waits for the mutex for ever.
EveryCallReturns ==
  \A p \in Procs : (pc[p] # "idle" /\ ~Retrying(p)) ~> (pc[p] = "idle")

\* ReconnectWithBackoff ends once its context is cancelled.
CancelledRetryEnds ==
  \A p \in Procs : (p \in cancelled) ~> ~Retrying(p)
=============================================================================
