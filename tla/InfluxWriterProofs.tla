------------------------- MODULE InfluxWriterProofs -------------------------
(***************************************************************************)
(* Proofs about the InfluxDB writer, for any number of callers, points and *)
(* failures and any batch size.  The inductive invariant says that the     *)
(* buffer holds exactly the newest points, in order, that all older ones   *)
(* are stored, and that all are while an applied batch is unanswered.      *)
(***************************************************************************)
EXTENDS InfluxWriter, TLAPS

Older == points - Len(buffer)

\* The types that the argument needs.
Typing ==
  /\ points \in Nat
  /\ buffer \in Seq(Nat)
  /\ mutex \in Procs \cup {NoOne}

BufferInv ==
  /\ Older \in Nat
  /\ \A k \in 1..Len(buffer) : buffer[k] = Older + k
  /\ 1..Older \subseteq stored
  /\ stored \subseteq 1..points
  /\ mutex # NoOne /\ applied => 1..points \subseteq stored

IInv == Typing /\ BufferInv

\* The buffer and the database start empty.
LEMMA InitIInv == Init => IInv
  BY WriterAssumption DEF Init, IInv, Typing, BufferInv, Older, Procs

\* The batch is the whole buffer, so that the database has every point once
\* it has applied one.
LEMMA AppliedIsAll ==
  ASSUME IInv, ServerApplies
  PROVE  IInv'
<1>1. points \in Nat /\ buffer \in Seq(Nat) /\ Len(buffer) \in Nat
  BY DEF IInv, Typing
<1>2. points' = points /\ buffer' = buffer /\ mutex' = mutex
  BY DEF ServerApplies, Batch
<1>3. 1..points \subseteq stored'
  <2> SUFFICES ASSUME NEW j \in 1..points PROVE j \in stored'
    OBVIOUS
  <2>1. CASE j \in 1..Older
    BY <2>1 DEF IInv, BufferInv, ServerApplies
  <2>2. CASE j \notin 1..Older
    <3>1. j - Older \in 1..Len(buffer)
      BY <1>1, <2>2 DEF IInv, BufferInv, Older
    <3>2. buffer[j - Older] = j
      BY <1>1, <3>1 DEF IInv, BufferInv, Older
    <3>3. DOMAIN buffer = 1..Len(buffer)
      BY <1>1
    <3>4. QED
      BY <3>1, <3>2, <3>3 DEF ServerApplies, Batch
  <2>3. QED
    BY <2>1, <2>2
<1>4. stored' \subseteq 1..points
  <2> SUFFICES ASSUME NEW k \in DOMAIN buffer PROVE buffer[k] \in 1..points
    BY DEF ServerApplies, Batch, IInv, BufferInv
  <2>1. k \in 1..Len(buffer)
    BY <1>1
  <2>2. QED
    BY <1>1, <2>1 DEF IInv, BufferInv, Older
<1>5. QED
  BY <1>1, <1>2, <1>3, <1>4 DEF IInv, Typing, BufferInv, Older

\* A refused batch stays in the buffer, and what is stored of it is points.
LEMMA RefusedIInv ==
  ASSUME IInv, ServerRefuses
  PROVE  IInv'
<1>1. points \in Nat /\ buffer \in Seq(Nat) /\ Len(buffer) \in Nat
  BY DEF IInv, Typing
<1>2. points' = points /\ buffer' = buffer /\ mutex' = NoOne
  BY DEF ServerRefuses
<1>3. Batch \subseteq 1..points
  <2> SUFFICES ASSUME NEW k \in DOMAIN buffer PROVE buffer[k] \in 1..points
    BY DEF Batch
  <2>1. k \in 1..Len(buffer)
    BY <1>1
  <2>2. QED
    BY <1>1, <2>1 DEF IInv, BufferInv, Older
<1>4. stored \subseteq stored' /\ stored' \subseteq 1..points
  BY <1>3 DEF ServerRefuses, IInv, BufferInv
<1>5. QED
  BY <1>1, <1>2, <1>4 DEF IInv, Typing, BufferInv, Older

\* Write appends the point it was given, and its batch is the buffer.
LEMMA WritePointIInv ==
  ASSUME IInv, NEW w \in Writers, WritePoint(w)
  PROVE  IInv'
<1>1. points \in Nat /\ buffer \in Seq(Nat) /\ Len(buffer) \in Nat
  BY DEF IInv, Typing
<1>2. /\ points' = points + 1 /\ buffer' = Append(buffer, points + 1)
      /\ stored' = stored /\ mutex = NoOne
  BY DEF WritePoint, BufferPoint
<1>3. buffer' \in Seq(Nat) /\ Len(buffer') = Len(buffer) + 1
  BY <1>1, <1>2
<1>4. Older' = Older
  BY <1>1, <1>2, <1>3 DEF Older
<1>5. ASSUME NEW k \in 1..Len(buffer') PROVE buffer'[k] = Older + k
  BY <1>1, <1>2, <1>3 DEF IInv, BufferInv, Older
<1>6. mutex' \in Procs \cup {NoOne} /\ (mutex' # NoOne => ~applied')
  BY <1>2 DEF WritePoint, BufferPoint, StartWrite, Procs
<1>7. points' \in Nat /\ 1..points \subseteq 1..points'
  BY <1>1, <1>2
<1>8. Typing'
  BY <1>3, <1>6, <1>7 DEF Typing, Procs
<1>9. BufferInv'
  BY <1>2, <1>4, <1>5, <1>6, <1>7 DEF IInv, BufferInv
<1>10. QED
  BY <1>8, <1>9 DEF IInv

\* A write that succeeded empties the buffer of points all stored.
LEMMA WriteSucceedsIInv ==
  ASSUME IInv, WriteSucceeds
  PROVE  IInv'
<1>1. points' = points /\ buffer' = <<>> /\ stored' = stored /\ mutex' = NoOne
  BY DEF WriteSucceeds
<1>2. 1..points \subseteq stored
  BY DEF WriteSucceeds, IInv, BufferInv
<1>3. Older' = points /\ Len(buffer') = 0
  BY <1>1 DEF Older, IInv, Typing
<1>4. QED
  BY <1>1, <1>2, <1>3 DEF IInv, Typing, BufferInv

\* Every other step leaves buffer, points and stored alone; one that takes
\* the mutex starts with a batch that is not applied.
LEMMA OthersIInv ==
  ASSUME IInv,
         UNCHANGED <<buffer, points, stored>>,
         mutex' \in Procs \cup {NoOne},
         mutex' # NoOne /\ applied' => mutex # NoOne /\ applied
  PROVE  IInv'
  BY DEF IInv, Typing, BufferInv, Older

\* Every step keeps the invariant.
LEMMA NextIInv == IInv /\ [Next]_vars => IInv'
<1> SUFFICES ASSUME IInv, [Next]_vars PROVE IInv'
  OBVIOUS
<1> USE DEF IInv, Typing
<1>1. CASE \E w \in Writers : WritePoint(w)
  BY <1>1, WritePointIInv
<1>2. CASE ServerApplies
  BY <1>2, AppliedIsAll
<1>3. CASE WriteSucceeds
  BY <1>3, WriteSucceedsIInv
<1>4. CASE WriteFails
  BY <1>4, OthersIInv DEF WriteFails
<1>5. CASE Tick
  BY <1>5, OthersIInv DEF Tick
<1>6. CASE LoopLocks
  BY <1>6, OthersIInv DEF LoopLocks, StartWrite, Procs
<1>7. CASE LoopDone
  BY <1>7, OthersIInv DEF LoopDone
<1>8. CASE EngineStopped
  BY <1>8, OthersIInv DEF EngineStopped
<1>9. CASE Flush
  BY <1>9, OthersIInv DEF Flush, StartWrite, Procs
<1>10. CASE Close
  BY <1>10, OthersIInv DEF Close
<1>11. CASE LoopAwaited
  BY <1>11, OthersIInv DEF LoopAwaited
<1>12. CASE FinalFlush
  BY <1>12, OthersIInv DEF FinalFlush, StartWrite, Procs
<1>13. CASE UNCHANGED vars
  BY <1>13, OthersIInv DEF vars
<1>14. CASE ServerRefuses
  BY <1>14, RefusedIInv
<1>15. QED
  BY <1>1, <1>2, <1>3, <1>4, <1>5, <1>6, <1>7, <1>8, <1>9, <1>10, <1>11,
     <1>12, <1>13, <1>14 DEF Next, MainStep

\* The invariant holds in every reachable state.
LEMMA IInvAlways == Spec => []IInv
  BY InitIInv, NextIInv, PTL DEF Spec

-----------------------------------------------------------------------------
\* The invariant says that every point is stored or still buffered.
LEMMA IInvNothingLost == IInv => NothingLost
<1> SUFFICES ASSUME IInv, NEW k \in 1..points, k \notin stored
             PROVE  \E b \in DOMAIN buffer : buffer[b] = k
  BY DEF NothingLost
<1>1. points \in Nat /\ buffer \in Seq(Nat) /\ Len(buffer) \in Nat
  BY DEF IInv, Typing
<1>2. k - Older \in 1..Len(buffer)
  BY <1>1 DEF IInv, BufferInv, Older
<1>3. buffer[k - Older] = k
  BY <1>1, <1>2 DEF IInv, BufferInv, Older
<1>4. DOMAIN buffer = 1..Len(buffer)
  BY <1>1
<1>5. QED
  BY <1>2, <1>3, <1>4

\* No failed, timed-out or repeated write of influxdb.go loses a point: what
\* is not in the database is still in the buffer.
THEOREM PointsKept == Spec => []NothingLost
  BY IInvAlways, IInvNothingLost, PTL

\* A step of the writer takes a point, stores points or acknowledges stored
\* ones in order, or changes nothing that the log knows of.
LEMMA StepRefines == IInv /\ IInv' /\ [Next]_vars => [Log!LogNext]_(Log!logVars)
<1> SUFFICES ASSUME IInv, IInv', [Next]_vars
             PROVE  Log!LogNext \/ UNCHANGED Log!logVars
  OBVIOUS
<1>1. points \in Nat /\ buffer \in Seq(Nat) /\ Len(buffer) \in Nat
  BY DEF IInv, Typing
<1>2. CASE \E w \in Writers : WritePoint(w)
  <2>1. /\ points' = points + 1 /\ buffer' = Append(buffer, points + 1)
        /\ stored' = stored
    BY <1>2 DEF WritePoint, BufferPoint
  <2>2. points' - Len(buffer') = points - Len(buffer)
    BY <1>1, <2>1
  <2>3. QED
    BY <2>1, <2>2 DEF Log!LogNext, Log!Take
<1>3. CASE ServerApplies
  BY <1>3 DEF ServerApplies, Batch, IInv, BufferInv, Log!LogNext, Log!Store
<1>4. CASE WriteSucceeds
  <2>1. points' = points /\ buffer' = <<>> /\ stored' = stored
    BY <1>4 DEF WriteSucceeds
  <2>2. 1..points \subseteq stored
    BY <1>4 DEF WriteSucceeds, IInv, BufferInv
  <2>3. /\ points' - Len(buffer') = points
        /\ points - Len(buffer) <= points
        /\ points - Len(buffer) \in Nat
    BY <1>1, <2>1 DEF IInv, BufferInv, Older
  <2>4. points' - Len(buffer') \in (points - Len(buffer))..points
    BY <1>1, <2>3
  <2>5. QED
    BY <2>1, <2>2, <2>3, <2>4 DEF Log!LogNext, Log!Acknowledge
<1>5. CASE UNCHANGED <<buffer, points, stored>>
  BY <1>5 DEF Log!logVars
<1>6. CASE ServerRefuses
  <2>1. stored \subseteq stored'
    BY <1>6 DEF ServerRefuses
  <2>2. stored' \subseteq 1..points
    BY <1>6 DEF ServerRefuses, IInv, BufferInv
  <2>3. QED
    BY <1>6, <2>1, <2>2 DEF ServerRefuses, Log!LogNext, Log!Store
<1>7. QED
  BY <1>2, <1>3, <1>4, <1>5, <1>6
  DEF Next, MainStep, WriteFails, Tick, LoopLocks, LoopDone, EngineStopped,
      Flush, Close, LoopAwaited, FinalFlush, vars

\* The writer starts where the log starts.
LEMMA InitRefines == Init => Log!LogInit
<1> SUFFICES ASSUME Init PROVE Log!LogInit
  OBVIOUS
<1>1. points = 0 /\ buffer = <<>> /\ stored = {}
  BY DEF Init
<1>2. Len(buffer) = 0
  <2>1. Len(<<>>) = 0
    OBVIOUS
  <2>2. QED
    BY <1>1, <2>1, Zenon
<1>3. points - Len(buffer) = 0
  <2>1. points - Len(buffer) = 0 - 0
    BY <1>1, <1>2, Zenon
  <2>2. QED
    BY <2>1
<1>4. QED
  BY <1>1, <1>3 DEF Log!LogInit

\* The writer of influxdb.go implements the acknowledged log.
THEOREM LogImplemented == Spec => ImplementsPointLog
<1>1. Init => Log!LogInit
  BY InitRefines
<1>2. IInv /\ IInv' /\ [Next]_vars => [Log!LogNext]_(Log!logVars)
  BY StepRefines
<1>3. QED
  BY <1>1, <1>2, IInvAlways, PTL DEF Spec, ImplementsPointLog, Log!LogSpec

-----------------------------------------------------------------------------
\* The two halves of BufferBounded.
WithinBatch == Len(buffer) >= BatchSize => mutex # NoOne \/ failing
ClosedEmpty == main = "closed" => buffer = <<>> \/ failing

\* Only a Write makes the buffer longer, and it flushes at the batch size.
LEMMA WithinBatchStep == IInv /\ WithinBatch /\ [Next]_vars => WithinBatch'
<1> SUFFICES ASSUME IInv, WithinBatch, [Next]_vars PROVE WithinBatch'
  OBVIOUS
<1> USE WriterAssumption DEF WithinBatch
<1>1. ASSUME NEW w \in Writers, WritePoint(w) PROVE WithinBatch'
  BY <1>1 DEF WritePoint, BufferPoint, StartWrite
<1>2. CASE ServerApplies
  BY <1>2 DEF ServerApplies, Batch
<1>3. CASE WriteSucceeds
  <2>1. Len(<<>>) = 0 /\ BatchSize > 0
    OBVIOUS
  <2>2. QED
    BY <1>3, <2>1 DEF WriteSucceeds
<1>4. CASE WriteFails
  BY <1>4 DEF WriteFails
<1>5. CASE Tick \/ LoopDone \/ EngineStopped \/ Close \/ LoopAwaited
  BY <1>5 DEF Tick, LoopDone, EngineStopped, Close, LoopAwaited
<1>6. CASE LoopLocks \/ Flush \/ FinalFlush
  BY <1>6 DEF LoopLocks, Flush, FinalFlush, StartWrite
<1>7. CASE UNCHANGED vars
  BY <1>7 DEF vars
<1>8. CASE ServerRefuses
  BY <1>8 DEF ServerRefuses
<1>9. QED
  BY <1>1, <1>2, <1>3, <1>4, <1>5, <1>6, <1>7, <1>8 DEF Next, MainStep

\* Nothing writes or fails after the final flush of Close.
LEMMA ClosedEmptyStep == ClosedEmpty /\ [Next]_vars => ClosedEmpty'
<1> SUFFICES ASSUME ClosedEmpty, [Next]_vars PROVE ClosedEmpty'
  OBVIOUS
<1> USE DEF ClosedEmpty
<1>1. ASSUME NEW w \in Writers, WritePoint(w) PROVE ClosedEmpty'
  BY <1>1 DEF WritePoint, BufferPoint
<1>2. CASE WriteSucceeds \/ WriteFails \/ ServerRefuses
  BY <1>2 DEF WriteSucceeds, WriteFails, ServerRefuses
<1>3. CASE ServerApplies \/ Tick \/ LoopDone \/ LoopLocks
  BY <1>3 DEF ServerApplies, Batch, Tick, LoopDone, LoopLocks
<1>4. CASE EngineStopped \/ Flush \/ Close \/ LoopAwaited \/ FinalFlush
  BY <1>4 DEF EngineStopped, Flush, Close, LoopAwaited, FinalFlush
<1>5. CASE UNCHANGED vars
  BY <1>5 DEF vars
<1>6. QED
  BY <1>1, <1>2, <1>3, <1>4, <1>5 DEF Next, MainStep

\* Unless its last write has failed, the buffer of influxdb.go reaches the
\* batch size only during a write, and Close leaves nothing in it.
THEOREM BufferKept == Spec => []BufferBounded
<1>1. Init => WithinBatch /\ ClosedEmpty
  <2>1. Len(<<>>) = 0 /\ BatchSize > 0
    BY WriterAssumption
  <2>2. QED
    BY <2>1, WriterAssumption DEF Init, WithinBatch, ClosedEmpty
<1>2. WithinBatch /\ ClosedEmpty => BufferBounded
  BY DEF WithinBatch, ClosedEmpty, BufferBounded
<1>3. QED
  BY <1>1, <1>2, WithinBatchStep, ClosedEmptyStep, IInvAlways, PTL DEF Spec

-----------------------------------------------------------------------------
\* Every step keeps the types.
LEMMA TypeStep == TypeOK /\ [Next]_vars => TypeOK'
<1> SUFFICES ASSUME TypeOK, [Next]_vars PROVE TypeOK'
  OBVIOUS
<1> USE WriterAssumption DEF Procs
<1>1. ASSUME NEW w \in Writers, WritePoint(w) PROVE TypeOK'
  <2>1. /\ points' = points + 1 /\ buffer' = Append(buffer, points + 1)
        /\ points < MaxPoints /\ mutex = NoOne
    BY <1>1 DEF WritePoint, BufferPoint
  <2>2. points' \in 0..MaxPoints
    BY <2>1 DEF TypeOK
  <2>3. buffer \in Seq(1..points') /\ points + 1 \in 1..points'
    BY <2>1 DEF TypeOK
  <2>4. buffer' \in Seq(1..points')
    BY <2>1, <2>3
  <2>5. stored' \subseteq 1..points'
    BY <1>1, <2>1 DEF WritePoint, BufferPoint, TypeOK
  <2>6. /\ mutex' \in Procs \cup {NoOne} /\ applied' \in BOOLEAN
        /\ mutex' # Loop /\ mutex' # Main
    BY <1>1 DEF WritePoint, BufferPoint, StartWrite, TypeOK
  <2>7. UNCHANGED <<loop, main, done, failing, faults>>
    BY <1>1 DEF WritePoint, BufferPoint
  <2>8. loop # "writing" /\ main \notin {"flushing", "finalWrite"}
    BY <2>1 DEF TypeOK
  <2>9. QED
    BY <2>2, <2>4, <2>5, <2>6, <2>7, <2>8 DEF TypeOK
<1>2. CASE ServerApplies
  <2>1. \A k \in DOMAIN buffer : buffer[k] \in 1..points
    BY DEF TypeOK
  <2>2. stored' \subseteq 1..points
    BY <1>2, <2>1 DEF ServerApplies, Batch, TypeOK
  <2>3. QED
    BY <1>2, <2>2 DEF ServerApplies, Batch, TypeOK
<1>3. CASE WriteSucceeds
  <2>1. buffer' \in Seq(1..points)
    BY <1>3 DEF WriteSucceeds
  <2>2. QED
    BY <1>3, <2>1 DEF WriteSucceeds, AfterWrite, TypeOK
<1>4. CASE WriteFails
  BY <1>4 DEF WriteFails, AfterWrite, TypeOK
<1>5. CASE Tick \/ LoopDone
  BY <1>5 DEF Tick, LoopDone, TypeOK
<1>6. CASE LoopLocks
  BY <1>6 DEF LoopLocks, StartWrite, TypeOK
<1>7. CASE EngineStopped \/ Close \/ LoopAwaited
  BY <1>7 DEF EngineStopped, Close, LoopAwaited, TypeOK
<1>8. CASE Flush \/ FinalFlush
  BY <1>8 DEF Flush, FinalFlush, StartWrite, TypeOK
<1>9. CASE UNCHANGED vars
  BY <1>9 DEF vars, TypeOK
<1>10. CASE ServerRefuses
  <2>1. \A k \in DOMAIN buffer : buffer[k] \in 1..points
    BY DEF TypeOK
  <2>2. stored' \subseteq 1..points
    BY <1>10, <2>1 DEF ServerRefuses, Batch, TypeOK
  <2>3. QED
    BY <1>10, <2>2 DEF ServerRefuses, AfterWrite, TypeOK
<1>11. QED
  BY <1>1, <1>2, <1>3, <1>4, <1>5, <1>6, <1>7, <1>8, <1>9, <1>10
  DEF Next, MainStep

\* The types of the writer of influxdb.go, and that the mutex is held by
\* whoever is in flushLocked.
THEOREM TypeCorrect == Spec => []TypeOK
<1>1. Init => TypeOK
  <2> SUFFICES ASSUME Init PROVE TypeOK
    OBVIOUS
  <2>1. buffer \in Seq(1..points)
    <3>1. <<>> \in Seq(1..points)
      OBVIOUS
    <3>2. QED
      BY <3>1, Zenon DEF Init
  <2>2. /\ points = 0 /\ mutex = NoOne /\ applied = FALSE /\ stored = {}
        /\ loop = "select" /\ main = "serving" /\ done = FALSE
        /\ failing = FALSE /\ faults = 0
    BY DEF Init
  <2>3. points \in 0..MaxPoints /\ faults \in 0..MaxFaults
    BY <2>2, WriterAssumption
  <2>4. mutex \in Procs \cup {NoOne} /\ mutex # Loop /\ mutex # Main
    BY <2>2, WriterAssumption DEF Procs
  <2>5. QED
    BY <2>1, <2>2, <2>3, <2>4, Zenon DEF TypeOK
<1>2. QED
  BY <1>1, TypeStep, PTL DEF Spec
-----------------------------------------------------------------------------
(* Close is never stuck, and final.  The guards of the steps are written   *)
(* out, for those who can go on.                                           *)

ServerMoves == mutex # NoOne   \* the server answers, or its 10s pass

LoopMoves ==
  \/ loop = "select" /\ done
  \/ loop = "locking" /\ mutex = NoOne

MainMoves ==
  \/ main \in {"flush", "final"} /\ mutex = NoOne
  \/ main = "close"
  \/ main = "waiting" /\ loop = "returned"

\* From the end of the engine until the end of Close, the caller of Close can go
\* on, or a write is on its way, or Close waits for a loop that can go on.
CloseAdvances ==
  main \notin {"serving", "closed"} =>
    MainMoves \/ ServerMoves \/ (main = "waiting" /\ LoopMoves)

\* The flush of Close has the mutex to itself: nobody else writes any more.
FinalFlushAlone == main = "final" => mutex = NoOne

\* Close is final: no step of anyone follows it.
ClosedIsFinal == [][main # "closed"]_vars

\* Once the engine has stopped, only the loop and main write, and Close has told
\* the loop before it waits.
EndInv ==
  /\ main # "serving" => mutex \notin Writers
  /\ main \in {"waiting", "final", "finalWrite", "closed"} => done
  /\ main \in {"final", "finalWrite", "closed"} => loop = "returned"

LEMMA EndStep == TypeOK /\ EndInv /\ [Next]_vars => EndInv'
<1> SUFFICES ASSUME TypeOK, EndInv, [Next]_vars PROVE EndInv'
  OBVIOUS
<1>t. /\ (loop = "writing") <=> (mutex = Loop)
      /\ (main \in {"flushing", "finalWrite"}) <=> (mutex = Main)
  BY DEF TypeOK
<1> USE WriterAssumption DEF EndInv
<1>1. ASSUME NEW w \in Writers, WritePoint(w) PROVE EndInv'
  BY <1>1 DEF WritePoint, BufferPoint
<1>2. CASE ServerApplies
  BY <1>2 DEF ServerApplies
<1>3. CASE WriteSucceeds \/ WriteFails \/ ServerRefuses
  BY <1>3, <1>t DEF WriteSucceeds, WriteFails, ServerRefuses, AfterWrite
<1>4. CASE Tick \/ LoopDone
  BY <1>4 DEF Tick, LoopDone
<1>5. CASE LoopLocks
  BY <1>5 DEF LoopLocks, StartWrite
<1>6. CASE EngineStopped \/ Close \/ LoopAwaited
  BY <1>6 DEF EngineStopped, Close, LoopAwaited
<1>7. CASE Flush \/ FinalFlush
  BY <1>7 DEF Flush, FinalFlush, StartWrite
<1>8. CASE UNCHANGED vars
  BY <1>8 DEF vars
<1> QED BY <1>1, <1>2, <1>3, <1>4, <1>5, <1>6, <1>7, <1>8 DEF Next, MainStep

LEMMA EndAlways == Spec => []EndInv
<1>1. Init => EndInv
  BY DEF Init, EndInv
<1> QED BY <1>1, EndStep, TypeCorrect, PTL DEF Spec

\* Close waits for the loop, and the loop for the mutex, but whoever has the
\* mutex gives it back; for the last flush there is no one left to wait for.
THEOREM CloseNeverStuck == Spec => [](CloseAdvances /\ FinalFlushAlone)
<1>1. TypeOK /\ EndInv => CloseAdvances /\ FinalFlushAlone
  <2> SUFFICES ASSUME TypeOK, EndInv PROVE CloseAdvances /\ FinalFlushAlone
    OBVIOUS
  <2>1. /\ (loop = "writing") <=> (mutex = Loop)
        /\ (main \in {"flushing", "finalWrite"}) <=> (mutex = Main)
        /\ loop \in {"select", "locking", "writing", "returned"}
        /\ main \in {"serving", "flush", "flushing", "close", "waiting", "final",
                     "finalWrite", "closed"}
        /\ mutex \in Writers \cup {Loop, Main, NoOne}
    BY DEF TypeOK, Procs
  <2> HIDE DEF TypeOK
  <2> QED BY <2>1, WriterAssumption
          DEF EndInv, CloseAdvances, FinalFlushAlone, MainMoves, ServerMoves, LoopMoves
<1> QED BY <1>1, TypeCorrect, EndAlways, PTL

\* Close returns as the last step of the writer: no late tick, answer or point
\* changes anything after it.
THEOREM CloseIsLast == Spec => ClosedIsFinal
<1>1. ASSUME TypeOK, EndInv, [Next]_vars PROVE [main # "closed"]_vars
  <2> SUFFICES ASSUME Next, main = "closed" PROVE FALSE
    BY <1>1
  <2>1. mutex = NoOne /\ loop = "returned"
    BY <1>1, WriterAssumption DEF TypeOK, Procs, EndInv
  <2> QED BY <2>1 DEF Next, WritePoint, ServerApplies, ServerRefuses, WriteSucceeds,
    WriteFails, Tick, LoopLocks, LoopDone, EngineStopped, MainStep, Flush, Close,
    LoopAwaited, FinalFlush
<1> QED BY <1>1, TypeCorrect, EndAlways, PTL DEF Spec, ClosedIsFinal
=============================================================================
