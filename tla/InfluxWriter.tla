---------------------------- MODULE InfluxWriter ----------------------------
(***************************************************************************)
(* InfluxDBWriter (internal/repository/influxdb.go): points are buffered   *)
(* under a mutex and written in batches, by the caller who fills the       *)
(* buffer, by a background loop and by Flush and Close.  Whoever writes    *)
(* holds the mutex until the server has answered or 10s have passed.       *)
(* Points are numbered in the order in which they are buffered.            *)
(***************************************************************************)
EXTENDS Naturals, Sequences

CONSTANTS Writers,    \* goroutines that call WritePoint
          Loop, Main, \* the background loop; the caller of Flush and Close
          NoOne,      \* holder of the free mutex
          BatchSize,  \* InfluxDBConfig.BatchSize, after its default
          Refused,    \* points that the server never stores (malformed ones)
          MaxPoints,  \* bound: points
          MaxFaults   \* bound: failed writes

ASSUME WriterAssumption ==
  /\ Loop \notin Writers /\ Main \notin Writers /\ Loop # Main
  /\ NoOne \notin Writers \cup {Loop, Main}
  /\ BatchSize \in Nat \ {0}
  /\ Refused \subseteq Nat
  /\ MaxPoints \in Nat /\ MaxFaults \in Nat

VARIABLES
  buffer,   \* the buffered points
  points,   \* the number of points buffered so far
  mutex,    \* who holds w.mu while a batch is on its way
  applied,  \* has the server stored that batch?
  stored,   \* the points in the database
  loop,     \* where flushLoop is
  main,     \* where the caller of Flush and Close is
  done,     \* is the channel closed?
  failing,  \* did the last write fail?
  faults

vars == <<buffer, points, mutex, applied, stored, loop, main, done, failing, faults>>

Procs == Writers \cup {Loop, Main}

TypeOK ==
  /\ buffer \in Seq(1..points)
  /\ points \in 0..MaxPoints
  /\ mutex \in Procs \cup {NoOne}
  /\ applied \in BOOLEAN
  /\ stored \subseteq 1..points
  /\ loop \in {"select", "locking", "writing", "returned"}
  /\ main \in {"serving", "flush", "flushing", "close", "waiting", "final",
               "finalWrite", "closed"}
  /\ done \in BOOLEAN
  /\ failing \in BOOLEAN
  /\ faults \in 0..MaxFaults
  /\ (loop = "writing") <=> (mutex = Loop)
  /\ (main \in {"flushing", "finalWrite"}) <=> (mutex = Main)

Init ==
  /\ buffer = <<>> /\ points = 0
  /\ mutex = NoOne
  /\ applied = FALSE
  /\ stored = {}
  /\ loop = "select" /\ main = "serving"
  /\ done = FALSE
  /\ failing = FALSE
  /\ faults = 0

-----------------------------------------------------------------------------
(* flushLocked: the whole buffer is sent, and emptied only on success.     *)

StartWrite(p) ==
  /\ mutex' = p
  /\ applied' = FALSE

Batch == {buffer[k] : k \in DOMAIN buffer}

\* The server stores the points of the batch.
ServerApplies ==
  /\ mutex # NoOne
  /\ ~applied
  /\ Batch \cap Refused = {}
  /\ applied' = TRUE
  /\ stored' = stored \cup Batch
  /\ UNCHANGED <<buffer, points, mutex, loop, main, done, failing,
                 faults>>

\* Faulty variant: the loop ends with the first write of it that fails.
AfterWriteOrReturn ==
  /\ loop' = IF mutex # Loop THEN loop ELSE IF failing' THEN "returned" ELSE "select"
  /\ main' = IF mutex # Main THEN main
             ELSE IF main = "flushing" THEN "close" ELSE "closed"

\* Where Loop and Main go after a write.
AfterWrite ==
  /\ loop' = IF mutex = Loop THEN "select" ELSE loop
  /\ main' = IF mutex # Main THEN main
             ELSE IF main = "flushing" THEN "close" ELSE "closed"

WriteSucceeds ==
  /\ mutex # NoOne
  /\ applied
  /\ buffer' = <<>>
  /\ failing' = FALSE
  /\ AfterWrite
  /\ mutex' = NoOne
  /\ UNCHANGED <<points, applied, stored, done, faults>>

\* Faulty variant: the buffer is emptied before the outcome is known.
WriteFailsEmptied ==
  /\ mutex # NoOne
  /\ faults < MaxFaults /\ faults' = faults + 1
  /\ failing' = TRUE
  /\ buffer' = <<>>
  /\ loop' = IF mutex = Loop THEN "select" ELSE loop
  /\ main' = IF mutex # Main THEN main
             ELSE IF main = "flushing" THEN "close" ELSE "closed"
  /\ mutex' = NoOne
  /\ UNCHANGED <<points, applied, stored, done>>

\* Faulty variant: after a failure the oldest points make room.
WriteFailsTrimmed ==
  /\ mutex # NoOne
  /\ faults < MaxFaults /\ faults' = faults + 1
  /\ failing' = TRUE
  /\ buffer' = IF Len(buffer) > BatchSize THEN Tail(buffer) ELSE buffer
  /\ AfterWrite
  /\ mutex' = NoOne
  /\ UNCHANGED <<points, applied, stored, done>>

\* An error or the timeout, whether or not the server has stored the batch.
WriteFails ==
  /\ mutex # NoOne
  /\ faults < MaxFaults /\ faults' = faults + 1
  /\ failing' = TRUE
  /\ AfterWrite
  /\ mutex' = NoOne
  /\ UNCHANGED <<buffer, points, applied, stored, done>>

\* A batch with a point that it refuses is answered with an error, and the
\* server may or may not have stored the others.  Nothing takes the point
\* out of the buffer, so that it is in every batch to come.
ServerRefuses ==
  /\ mutex # NoOne
  /\ Batch \cap Refused # {}
  /\ stored' \in {stored, stored \cup (Batch \ Refused)}
  /\ failing' = TRUE
  /\ AfterWrite
  /\ mutex' = NoOne
  /\ UNCHANGED <<buffer, points, applied, done, faults>>

-----------------------------------------------------------------------------
BufferPoint(w) ==
  /\ mutex = NoOne
  /\ points < MaxPoints
  /\ points' = points + 1
  /\ buffer' = Append(buffer, points + 1)
  /\ IF Len(buffer') >= BatchSize
     THEN StartWrite(w)
     ELSE UNCHANGED <<mutex, applied>>
  /\ UNCHANGED <<stored, loop, main, done, failing, faults>>

\* Callers are running until Main has stopped the engine.
WritePoint(w) == main = "serving" /\ BufferPoint(w)

Tick ==
  /\ loop = "select"
  /\ loop' = "locking"
  /\ UNCHANGED <<buffer, points, mutex, applied, stored, main, done, failing, faults>>

\* Faulty variant: the loop flushes without the mutex.
LoopUnlocked ==
  /\ loop = "locking"
  /\ IF buffer = <<>>
     THEN loop' = "select" /\ UNCHANGED <<mutex, applied>>
     ELSE loop' = "writing" /\ StartWrite(Loop)
  /\ UNCHANGED <<buffer, points, stored, main, done, failing, faults>>

LoopLocks ==
  /\ loop = "locking"
  /\ mutex = NoOne
  /\ IF buffer = <<>>
     THEN loop' = "select" /\ UNCHANGED <<mutex, applied>>
     ELSE loop' = "writing" /\ StartWrite(Loop)
  /\ UNCHANGED <<buffer, points, stored, main, done, failing, faults>>

LoopDone ==
  /\ loop = "select"
  /\ done
  /\ loop' = "returned"
  /\ UNCHANGED <<buffer, points, mutex, applied, stored, main, done, failing, faults>>

\* Main stops the engine, and with it every caller of WritePoint, and goes on
\* to Flush and Close, or to Close alone.
EngineStopped ==
  /\ main = "serving"
  /\ mutex \notin Writers
  /\ main' \in {"flush", "close"}
  /\ UNCHANGED <<buffer, points, mutex, applied, stored, loop, done, failing, faults>>

Flush ==
  /\ main = "flush"
  /\ mutex = NoOne
  /\ IF buffer = <<>>
     THEN main' = "close" /\ UNCHANGED <<mutex, applied>>
     ELSE main' = "flushing" /\ StartWrite(Main)
  /\ UNCHANGED <<buffer, points, stored, loop, done, failing, faults>>

\* Faulty variant: Close waits for a loop that it has not told to end.
CloseUntold ==
  /\ main = "close"
  /\ main' = "waiting"
  /\ UNCHANGED <<buffer, points, mutex, applied, stored, loop, done, failing,
                 faults>>

Close ==
  /\ main = "close"
  /\ main' = "waiting"
  /\ done' = TRUE
  /\ UNCHANGED <<buffer, points, mutex, applied, stored, loop,
                 failing, faults>>

\* Faulty variant: nothing is flushed at the end.
LoopAwaitedOnly ==
  /\ main = "waiting"
  /\ loop = "returned"
  /\ main' = "closed"
  /\ UNCHANGED <<buffer, points, mutex, applied, stored, loop, done, failing, faults>>

LoopAwaited ==
  /\ main = "waiting"
  /\ loop = "returned"
  /\ main' = "final"
  /\ UNCHANGED <<buffer, points, mutex, applied, stored, loop, done, failing, faults>>

FinalFlush ==
  /\ main = "final"
  /\ mutex = NoOne
  /\ IF buffer = <<>>
     THEN main' = "closed" /\ UNCHANGED <<mutex, applied>>
     ELSE main' = "finalWrite" /\ StartWrite(Main)
  /\ UNCHANGED <<buffer, points, stored, loop, done, failing, faults>>

-----------------------------------------------------------------------------
MainStep == Flush \/ Close \/ LoopAwaited \/ FinalFlush

Next ==
  \/ \E w \in Writers : WritePoint(w)
  \/ ServerApplies \/ ServerRefuses \/ WriteSucceeds \/ WriteFails
  \/ Tick \/ LoopLocks \/ LoopDone
  \/ EngineStopped \/ MainStep

Spec == Init /\ [][Next]_vars

\* The ticker ticks, the server answers or the timeout ends the write, and
\* the mutex is not kept from the loop for ever (a starving waiter of a
\* sync.Mutex is handed it).  A select cannot pass over done for ever.
Fairness ==
  /\ WF_vars(ServerApplies) /\ WF_vars(ServerRefuses) /\ WF_vars(WriteSucceeds)
  /\ WF_vars(Tick) /\ SF_vars(LoopLocks) /\ SF_vars(LoopDone)
  /\ WF_vars(Close) /\ WF_vars(LoopAwaited)
  /\ SF_vars(Flush) /\ SF_vars(FinalFlush)

FairSpec == Spec /\ Fairness

-----------------------------------------------------------------------------
\* However writes fail, and whatever the server made of them, no point is
\* lost: what is not in the database is still in the buffer.
NothingLost ==
  \A k \in 1..points : k \in stored \/ \E b \in DOMAIN buffer : buffer[b] = k

\* Unless the last write has failed, the buffer reaches the batch size only
\* while it is being written, and Close leaves nothing in it.
BufferBounded ==
  failing \/ /\ Len(buffer) >= BatchSize => mutex # NoOne
             /\ main = "closed" => buffer = <<>>

\* The buffer is what the log has taken and not acknowledged: it is emptied
\* of points only once they, and all before them, are stored.
Log == INSTANCE PointLog WITH taken <- points,
                              acknowledged <- points - Len(buffer)
ImplementsPointLog == Log!LogSpec

\* While the writer is not closed, every point reaches the database even if
\* nothing more is ever written, given a server that fails finitely often and
\* refuses no point that was buffered.
EverythingStored ==
  \A k \in 1..MaxPoints :
    (points >= k) ~>
      (k \in stored \/ main # "serving" \/ 1..points \cap Refused # {})

\* Close returns: the loop it waits for is never waiting for it.
CloseReturns == (main = "close") ~> (main = "closed")
=============================================================================
