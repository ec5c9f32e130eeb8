--------------------------- MODULE PipelineProofs ---------------------------
(***************************************************************************)
(* Proofs about the composition of a session, the writer and the shutdown, *)
(* for any specs, callers, channels, batches and bounds: it implements the *)
(* writer's specification, so that the theorems of InfluxWriterProofs hold *)
(* in it, and the program ends with everything handled and stored.         *)
(***************************************************************************)
EXTENDS Pipeline, TLAPS

WriterFacts == INSTANCE InfluxWriterProofs
                 WITH Writers <- Specs, faults <- failures,
                      MaxPoints <- MaxEvents, MaxFaults <- MaxEvents

Gone(s) == spec[s] \in {"idle", "returned"}

\* A spec holds the writer's mutex, or has a point in its buffer, only while
\* it handles the event; outside of a session the specs are gone; and main
\* closes the writer only when the collector is.
PipeInv ==
  /\ DOMAIN spec = Specs
  /\ mutex \in Specs => mutex \in written
  /\ written \subseteq {s \in Specs : spec[s] = "handling"}
  /\ place # "streaming" => \A s \in Specs : Gone(s)
  /\ main # "serving" => place = "done"
  /\ mutex = Main => main # "serving"

USE DEF Gone

LEMMA PipeInit == Init => PipeInv
BY PipelineAssumption DEF Init, Session!Init, Writer!Init, PipeInv

-----------------------------------------------------------------------------
LEMMA CollectorKeeps == PipeInv /\ CollectorStep => PipeInv'
BY PipelineAssumption DEF PipeInv, CollectorStep, Session!CollectorStep, writer, Session!LoopTop,
  Session!AcquireFails, Session!AcquireSucceeds, Session!AllSpecsReturned,
  Session!ReleaseConn, Session!Wake, Session!SleepCancelled, Session!Goto,
  Session!stream

LEMMA SpecKeeps ==
  ASSUME PipeInv, NEW s \in Specs, SpecStep(s)
  PROVE  PipeInv'
<1>1. CASE SpecSelects(s)
  BY <1>1, PipelineAssumption DEF PipeInv, SpecSelects, writer, Session!ListenSucceeds,
    Session!ListenFails, Session!Receive, Session!ChannelClosed,
    Session!ContextDone, Session!CancelReturns, Session!Move, Session!outer
<1>2. CASE WritePoint(s)
  BY <1>2, PipelineAssumption DEF PipeInv, WritePoint, Writer!BufferPoint, Writer!StartWrite, session
<1>3. CASE EventProcessed(s)
  BY <1>3, PipelineAssumption DEF PipeInv, EventProcessed, Session!Handle, Session!Move,
    Session!outer, writer
<1> QED BY <1>1, <1>2, <1>3 DEF SpecStep

LEMMA WriterKeeps ==
  ASSUME PipeInv, \/ ServerStep \/ WriteFails \/ LoopStep \/ LoopDone
  PROVE  PipeInv'
<1>1. CASE ServerStep
  BY <1>1, PipelineAssumption DEF PipeInv, ServerStep, session,
    Writer!ServerApplies, Writer!ServerRefuses, Writer!WriteSucceeds, Writer!AfterWrite
<1>2. CASE WriteFails
  BY <1>2, PipelineAssumption DEF PipeInv, WriteFails, session,
    Writer!WriteFails, Writer!AfterWrite
<1>3. CASE LoopStep \/ LoopDone
  BY <1>3, PipelineAssumption DEF PipeInv, LoopStep, LoopDone, session, Writer!Tick,
    Writer!LoopLocks, Writer!StartWrite, Writer!LoopDone
<1> QED BY <1>1, <1>2, <1>3

LEMMA MainKeeps == PipeInv /\ MainStep => PipeInv'
BY PipelineAssumption DEF PipeInv, MainStep, EngineStopped, Closes, session,
  Writer!MainStep, Writer!Flush, Writer!Close, Writer!LoopAwaited,
  Writer!FinalFlush, Writer!StartWrite

\* What passes on the connection touches neither the writer nor the place of
\* the collector and its specs.
LEMMA ConnectionKeeps ==
  ASSUME PipeInv,
         \/ ReaderStep \/ ConnectionFails \/ Interrupted \/ MonitorStep
         \/ \E s \in Specs : SentenceArrives(s)
         \/ \E c \in Callers \cup {Monitor} : CommandSent(c)
         \/ \E c \in Callers : AnswerRead(c) \/ CommandFails(c)
  PROVE  PipeInv' /\ UNCHANGED writer
<1>1. UNCHANGED <<place, spec, written, writer>>
  BY DEF ReaderStep, ConnectionFails, Interrupted, MonitorStep, PingFails,
    MonitorReleases, SentenceArrives, CommandSent, CommandReturns, AnswerRead,
    CommandFails, session, writer, Session!PutSentence, Session!ReaderStops,
    Session!ReadSentence, Session!ClientDies, Session!CommandEnds,
    Session!Cancel, Session!outer, Session!stream
<1> QED BY <1>1 DEF PipeInv, writer

LEMMA PipeStep == PipeInv /\ [Next]_vars => PipeInv'
<1> SUFFICES ASSUME PipeInv, [Next]_vars PROVE PipeInv'
  OBVIOUS
<1>1. CASE UNCHANGED vars
  BY <1>1 DEF vars, session, writer, PipeInv
<1>2. CASE Next
  BY <1>2, CollectorKeeps, SpecKeeps, WriterKeeps, MainKeeps, ConnectionKeeps
  DEF Next
<1> QED BY <1>1, <1>2

LEMMA PipeInvariant == Spec => []PipeInv
BY PipeInit, PipeStep, PTL DEF Spec

-----------------------------------------------------------------------------
(* Every step is one of the writer, or none of its business.               *)

LEMMA WriterStep == PipeInv /\ [Next]_vars => [Writer!Next]_(Writer!vars)
<1> SUFFICES ASSUME PipeInv, [Next]_vars PROVE Writer!Next \/ UNCHANGED writer
  BY DEF Writer!vars, writer
<1>1. CASE UNCHANGED vars
  BY <1>1 DEF vars, writer
<1>2. ASSUME NEW s \in Specs, WritePoint(s) PROVE Writer!Next
  <2>1. spec[s] # "idle" /\ spec[s] # "returned"
    BY <1>2 DEF WritePoint
  <2>2. main = "serving"
    BY <2>1 DEF PipeInv
  <2> QED BY <1>2, <2>2 DEF WritePoint, Writer!WritePoint, Writer!Next
<1>3. CASE EngineStopped
  <2>1. mutex \notin Specs
    BY <1>3 DEF EngineStopped, PipeInv
  <2> QED BY <1>3, <2>1 DEF EngineStopped, Writer!EngineStopped, Writer!Next
<1>4. CASE ServerStep \/ WriteFails \/ LoopStep \/ LoopDone \/ Closes
  BY <1>4 DEF ServerStep, WriteFails, LoopStep, LoopDone, Closes, Writer!Next
<1>5. CASE CollectorStep \/ \E s \in Specs : SpecSelects(s) \/ EventProcessed(s)
  BY <1>5 DEF CollectorStep, SpecSelects, EventProcessed
<1> QED BY <1>1, <1>2, <1>3, <1>4, <1>5, ConnectionKeeps DEF Next, SpecStep, MainStep

\* The composition implements the writer's specification: nobody calls
\* WritePoint once main has begun to close the writer.
THEOREM WriterImplemented == Spec => ImplementsWriter
<1>1. Init => Writer!Init
  BY DEF Init
<1> QED BY <1>1, WriterStep, PipeInvariant, PTL DEF Spec, ImplementsWriter, Writer!Spec

-----------------------------------------------------------------------------
(* What is proved of the writer holds in the composition.                  *)

LEMMA WriterConstants ==
  /\ Loop \notin Specs /\ Main \notin Specs /\ Loop # Main
  /\ NoOne \notin Specs \cup {Loop, Main}
  /\ BatchSize \in Nat \ {0}
  /\ Refused \subseteq Nat
  /\ MaxEvents \in Nat /\ MaxEvents \in Nat
BY PipelineAssumption

LEMMA SameWriter == Writer!Spec => WriterFacts!Spec
<1>1. Writer!Init => WriterFacts!Init
  BY DEF Writer!Init, WriterFacts!Init
<1>2. [Writer!Next]_(Writer!vars) => [WriterFacts!Next]_(WriterFacts!vars)
  BY DEF Writer!vars, WriterFacts!vars, Writer!Next, WriterFacts!Next,
    Writer!WritePoint, WriterFacts!WritePoint,
    Writer!BufferPoint, WriterFacts!BufferPoint,
    Writer!StartWrite, WriterFacts!StartWrite,
    Writer!Batch, WriterFacts!Batch, Writer!ServerApplies,
    WriterFacts!ServerApplies, Writer!ServerRefuses, WriterFacts!ServerRefuses,
    Writer!AfterWrite, WriterFacts!AfterWrite, Writer!WriteSucceeds,
    WriterFacts!WriteSucceeds, Writer!WriteFails, WriterFacts!WriteFails,
    Writer!Tick, WriterFacts!Tick, Writer!LoopLocks, WriterFacts!LoopLocks,
    Writer!LoopDone, WriterFacts!LoopDone, Writer!EngineStopped,
    WriterFacts!EngineStopped, Writer!MainStep, WriterFacts!MainStep,
    Writer!Flush, WriterFacts!Flush, Writer!Close, WriterFacts!Close,
    Writer!LoopAwaited, WriterFacts!LoopAwaited, Writer!FinalFlush,
    WriterFacts!FinalFlush
<1> QED BY <1>1, <1>2, PTL DEF Writer!Spec, WriterFacts!Spec

\* When the program ends, every spec has handled what it had received, and
\* every point is stored unless the last write of all failed.
THEOREM ExitIsClean == Spec => []ExitPersists
<1>1. Spec => [](WriterFacts!TypeOK /\ WriterFacts!NothingLost /\ WriterFacts!BufferBounded)
  <2>1. Spec => WriterFacts!Spec
    BY WriterImplemented, SameWriter DEF ImplementsWriter
  <2> QED BY <2>1, WriterConstants, WriterFacts!TypeCorrect,
             WriterFacts!PointsKept, WriterFacts!BufferKept, PTL
<1>2. PipeInv /\ WriterFacts!TypeOK /\ WriterFacts!NothingLost
        /\ WriterFacts!BufferBounded => ExitPersists
  <2> SUFFICES ASSUME PipeInv, WriterFacts!TypeOK, WriterFacts!NothingLost,
                      WriterFacts!BufferBounded, main = "closed"
               PROVE  /\ \A s \in Specs : Gone(s)
                      /\ ~failing => stored = 1..points
    BY DEF ExitPersists
  <2>1. \A s \in Specs : Gone(s)
    BY DEF PipeInv
  <2>2. ASSUME ~failing PROVE stored = 1..points
    <3>1. buffer = <<>>
      BY <2>2 DEF WriterFacts!BufferBounded
    <3>2. 1..points \subseteq stored
      BY <3>1 DEF WriterFacts!NothingLost
    <3> QED BY <3>2 DEF WriterFacts!TypeOK
  <2> QED BY <2>1, <2>2
<1> QED BY <1>1, <1>2, PipeInvariant, PTL
-----------------------------------------------------------------------------
(* What is proved of a session by itself holds in the composition, too,    *)
(* although there the health loop may close the client of a session at any *)
(* time, with no fault to count: no step of StreamSession does.            *)

SessionFacts == INSTANCE StreamSessionProofs
                  WITH MaxSent <- MaxEvents, MaxFaults <- MaxEvents

LEMMA SessionConstants ==
  /\ Specs # {} /\ SessionFacts!IsFiniteSet(Specs)
  /\ NoOne \notin Specs
  /\ QueueSize \in Nat \ {0}
  /\ Interval \in Nat \ {0} /\ MaxInterval \in Nat \ {0}
  /\ MaxEvents \in Nat /\ MaxEvents \in Nat
BY PipelineAssumption DEF IsFiniteSet, SessionFacts!IsFiniteSet

\* A step of the session, read in the two instances.
SessionStep ==
  \/ SessionFacts!CollectorStep
  \/ \E s \in Specs : SessionFacts!SpecStep(s)
  \/ SessionFacts!PutSentence \/ SessionFacts!ReaderStops \/ SessionFacts!Environment

\* Every step is one of the session's, or the health loop's Release, or does
\* not touch the session.
LEMMA StepOfSession ==
  ASSUME Next
  PROVE  SessionStep \/ MonitorReleases \/ UNCHANGED session
<1> USE DEF SessionStep
<1>1. CASE CollectorStep
  BY <1>1 DEF CollectorStep, Session!CollectorStep, SessionFacts!CollectorStep,
    Session!LoopTop, SessionFacts!LoopTop, Session!AcquireFails, SessionFacts!AcquireFails,
    Session!AcquireSucceeds, SessionFacts!AcquireSucceeds, Session!AllSpecsReturned,
    SessionFacts!AllSpecsReturned, Session!ReleaseConn, SessionFacts!ReleaseConn,
    Session!Wake, SessionFacts!Wake, Session!Smaller, SessionFacts!Smaller,
    Session!SleepCancelled, SessionFacts!SleepCancelled, Session!Goto, SessionFacts!Goto,
    Session!Fault, SessionFacts!Fault, Session!stream, SessionFacts!stream
<1>2. ASSUME NEW s \in Specs, SpecSelects(s) \/ EventProcessed(s)
      PROVE  SessionFacts!SpecStep(s)
  BY <1>2 DEF SpecSelects, EventProcessed, SessionFacts!SpecStep,
    Session!ListenSucceeds, SessionFacts!ListenSucceeds, Session!ListenFails,
    SessionFacts!ListenFails, Session!Receive, SessionFacts!Receive, Session!ChannelClosed,
    SessionFacts!ChannelClosed, Session!ContextDone, SessionFacts!ContextDone,
    Session!CancelReturns, SessionFacts!CancelReturns, Session!Handle, SessionFacts!Handle,
    Session!Move, SessionFacts!Move, Session!outer, SessionFacts!outer
<1>3. ASSUME NEW s \in Specs, SentenceArrives(s) PROVE SessionFacts!Environment
  BY <1>3 DEF SentenceArrives, SessionFacts!Environment, Session!ReadSentence,
    SessionFacts!ReadSentence, Session!Listening, SessionFacts!Listening,
    Session!outer, SessionFacts!outer
<1>4. CASE ReaderStep
  BY <1>4 DEF ReaderStep, Session!PutSentence, SessionFacts!PutSentence,
    Session!ReaderStops, SessionFacts!ReaderStops, Session!Listening,
    SessionFacts!Listening, Session!outer, SessionFacts!outer
<1>5. CASE ConnectionFails \/ Interrupted
  BY <1>5 DEF ConnectionFails, Interrupted, SessionFacts!Environment,
    Session!ClientDies, SessionFacts!ClientDies, Session!CommandEnds,
    SessionFacts!CommandEnds, Session!Cancel, SessionFacts!Cancel, Session!Fault,
    SessionFacts!Fault, Session!Listening, SessionFacts!Listening,
    Session!stream, SessionFacts!stream
<1>6. ASSUME NEW s \in Specs, WritePoint(s) PROVE UNCHANGED session
  BY <1>6 DEF WritePoint
<1>7. CASE ServerStep \/ WriteFails \/ LoopStep \/ LoopDone \/ MainStep
  BY <1>7 DEF ServerStep, WriteFails, LoopStep, LoopDone, MainStep, EngineStopped, Closes
<1>8. ASSUME NEW c \in Callers \cup {Monitor},
             CommandSent(c) \/ AnswerRead(c) \/ CommandFails(c) \/ PingFails
      PROVE  UNCHANGED session
  BY <1>8 DEF CommandSent, AnswerRead, CommandFails, PingFails, CommandReturns
<1> QED BY <1>1, <1>2, <1>3, <1>4, <1>5, <1>6, <1>7, <1>8 DEF Next, SpecStep, MonitorStep

\* The session's inductive invariant holds here as well.
LEMMA SessionInvariant == Spec => []SessionFacts!IInv
<1>1. Init => SessionFacts!IInv
  <2>1. Init => SessionFacts!Init
    BY DEF Init, Session!Init, SessionFacts!Init
  <2> QED BY <2>1, SessionConstants, SessionFacts!InitIInv
<1>2. ASSUME SessionFacts!IInv, [Next]_vars PROVE SessionFacts!IInv'
  <2>1. CASE SessionStep
    BY <1>2, <2>1, SessionConstants, SessionFacts!CollectorKeeps,
      SessionFacts!SpecKeeps, SessionFacts!ReaderKeeps DEF SessionStep
  <2>2. CASE UNCHANGED session
    <3>1. UNCHANGED SessionFacts!vars
      BY <2>2 DEF session, SessionFacts!vars
    <3> QED BY <1>2, <3>1, SessionConstants, SessionFacts!StepKeeps
  <2>3. CASE MonitorReleases
    BY <1>2, <2>3 DEF MonitorReleases, SessionFacts!IInv, SessionFacts!TypeOK,
      SessionFacts!Counts, SessionFacts!NoSpecOutlivesSession, SessionFacts!Accounted,
      SessionFacts!NothingUnasked, SessionFacts!AllHandledAtEnd,
      SessionFacts!CleanIsCancelled, SessionFacts!EndsOnlyWhenCancelled
  <2>4. CASE UNCHANGED vars
    BY <2>4, <2>2 DEF vars
  <2> QED BY <1>2, <2>1, <2>2, <2>3, <2>4, StepOfSession
<1> QED BY <1>1, <1>2, PTL DEF Spec

\* In the assembled program, too, no goroutine of a spec outlives its session,
\* an uncancelled spec that returns has handled all that was read for it, and
\* the collector ends only on the signal.
THEOREM SessionKept ==
  Spec => [](/\ SessionFacts!NoSpecOutlivesSession
             /\ SessionFacts!AllHandledAtEnd
             /\ SessionFacts!EndsOnlyWhenCancelled)
BY SessionInvariant, PTL DEF SessionFacts!IInv
-----------------------------------------------------------------------------
(* The shutdown is never stuck, unless a command is stranded.  The guards   *)
(* of the steps are written out, for those who can go on.                  *)

CollectorMoves ==
  \/ place \in {"top", "acquiring", "sleep"}
  \/ place \in {"releaseClean", "releaseError"} /\ waiting = {}
  \/ place = "streaming" /\ \A s \in Specs : spec[s] = "returned"

\* A spec whose event may still have to be written waits for the mutex.
SpecMoves(s) ==
  \/ spec[s] \in {"starting", "select"} /\ cancelled
  \/ spec[s] = "handling" /\ mutex = NoOne
  \/ spec[s] = "cancelling"

ReaderMoves == hand # NoOne /\ queue[hand] < QueueSize

CallerMoves(c) ==
  c \in waiting /\ ((client # "none" /\ hand = NoOne) \/ c \notin Patient)

MonitorMoves ==
  \/ Monitor \in waiting /\ cancelled
  \/ closing /\ waiting = {}

ServerMoves == mutex # NoOne

LoopMoves ==
  \/ loop = "select" /\ done
  \/ loop = "locking" /\ mutex = NoOne

MainMoves ==
  \/ /\ main = "serving" /\ cancelled /\ place = "done"
     /\ Monitor \notin waiting /\ ~closing
  \/ main \in {"flush", "final"} /\ mutex = NoOne
  \/ main = "close"
  \/ main = "waiting" /\ loop = "returned"

\* After the signal, main can go on or one that it waits for can: the writer's
\* loop counts only while Close waits for it, and no new sentence, command or
\* tick counts at all.
ShutdownAdvances ==
  cancelled /\ main # "closed" =>
    \/ MainMoves \/ ServerMoves
    \/ /\ main = "serving"
       /\ \/ CollectorMoves \/ ReaderMoves \/ MonitorMoves \/ Stranded
          \/ \E s \in Specs : SpecMoves(s)
          \/ \E c \in Callers : CallerMoves(c)
    \/ main = "waiting" /\ LoopMoves

\* Commands wait only on a client that is not released, the reader holds only
\* what a spec has listened for, and Close has told the loop before it waits.
CommandInv ==
  /\ waiting \subseteq Callers \cup {Monitor}
  /\ waiting # {} =>
       place \in {"streaming", "releaseClean", "releaseError"} /\ client # "none"
  /\ hand # NoOne => spec[hand] \notin {"idle", "starting"}
  /\ place = "streaming" => \A s \in Specs : spec[s] # "idle"
  /\ main \in {"waiting", "final", "finalWrite", "closed"} => done

\* What the session's and the writer's own invariants give for it.
Typed ==
  /\ spec \in [Specs -> {"idle", "starting", "select", "handling",
                         "cancelling", "returned"}]
  /\ hand \in Specs \cup {NoOne}
  /\ place \in {"top", "acquiring", "streaming", "releaseClean",
                "releaseError", "sleep", "done"}
  /\ queue \in [Specs -> 0..QueueSize]
  /\ loop \in {"select", "locking", "writing", "returned"}
  /\ main \in {"serving", "flush", "flushing", "close", "waiting", "final",
               "finalWrite", "closed"}
  /\ (loop = "writing") <=> (mutex = Loop)
  /\ (main \in {"flushing", "finalWrite"}) <=> (mutex = Main)

LEMMA PipelineTyped == Spec => []Typed
<1>1. Spec => []WriterFacts!TypeOK
  <2>1. Spec => WriterFacts!Spec
    BY WriterImplemented, SameWriter DEF ImplementsWriter
  <2> QED BY <2>1, WriterConstants, WriterFacts!TypeCorrect, PTL
<1>2. SessionFacts!IInv /\ WriterFacts!TypeOK => Typed
  BY DEF SessionFacts!IInv, SessionFacts!TypeOK, WriterFacts!TypeOK, Typed
<1> QED BY <1>1, <1>2, SessionInvariant, PTL

LEMMA CommandStep == Typed /\ CommandInv /\ [Next]_vars => CommandInv'
<1> SUFFICES ASSUME Typed, CommandInv, [Next]_vars PROVE CommandInv'
  OBVIOUS
<1> USE DEF CommandInv
<1> USE PipelineAssumption
<1>1. CASE UNCHANGED vars
  BY <1>1 DEF vars, session, writer, commands
<1>2. CASE CollectorStep
  BY <1>2 DEF Typed, CollectorStep, Session!CollectorStep, Session!LoopTop,
    Session!AcquireFails, Session!AcquireSucceeds, Session!AllSpecsReturned,
    Session!ReleaseConn, Session!Wake, Session!SleepCancelled, Session!Goto,
    Session!stream, writer, commands
<1>3. ASSUME NEW s \in Specs, SpecSelects(s) \/ EventProcessed(s) PROVE CommandInv'
  BY <1>3 DEF Typed, SpecSelects, EventProcessed, Session!ListenSucceeds,
    Session!ListenFails, Session!Receive, Session!ChannelClosed, Session!ContextDone,
    Session!CancelReturns, Session!Handle, Session!Move, Session!outer, writer, commands
<1>4. ASSUME NEW s \in Specs, WritePoint(s) PROVE CommandInv'
  BY <1>4 DEF WritePoint, Writer!BufferPoint, session, commands
<1>5. ASSUME NEW s \in Specs, SentenceArrives(s) PROVE CommandInv'
  BY <1>5 DEF SentenceArrives, Session!ReadSentence, Session!Listening, Session!outer,
    writer, commands
<1>6. CASE ReaderStep
  BY <1>6 DEF ReaderStep, Session!PutSentence, Session!ReaderStops, Session!outer,
    writer, commands
<1>7. CASE ConnectionFails \/ Interrupted
  BY <1>7 DEF ConnectionFails, Interrupted, Session!ClientDies, Session!CommandEnds,
    Session!Cancel, Session!stream, writer, commands
<1>8. CASE ServerStep \/ WriteFails \/ LoopStep \/ LoopDone
  BY <1>8 DEF Typed, ServerStep, WriteFails, LoopStep, LoopDone, Writer!ServerApplies,
    Writer!ServerRefuses, Writer!WriteSucceeds, Writer!WriteFails, Writer!AfterWrite,
    Writer!Tick, Writer!LoopLocks, Writer!LoopDone, session, commands
<1>9. CASE MainStep
  BY <1>9 DEF MainStep, EngineStopped, Closes, Writer!MainStep, Writer!Flush,
    Writer!Close, Writer!LoopAwaited, Writer!FinalFlush, session, commands
<1>10. ASSUME NEW c \in Callers \cup {Monitor},
              \/ CommandSent(c) \/ AnswerRead(c) \/ CommandFails(c)
              \/ PingFails \/ MonitorReleases
       PROVE  CommandInv'
  BY <1>10 DEF CommandSent, AnswerRead, CommandFails, PingFails, MonitorReleases,
    CommandReturns, session, writer
<1> QED BY <1>1, <1>2, <1>3, <1>4, <1>5, <1>6, <1>7, <1>8, <1>9, <1>10
        DEF Next, SpecStep, MonitorStep

\* While a command of a caller waits for its answer, it or the reader can go
\* on, or it is stranded.
LEMMA CommandsAdvance ==
  ASSUME Typed, CommandInv, PipeInv, cancelled, place \in {"releaseClean", "releaseError"},
         waiting # {}, Monitor \notin waiting
  PROVE  ReaderMoves \/ Stranded \/ \E c \in Callers : CallerMoves(c)
<1>1. PICK c \in Callers : c \in waiting
  BY DEF CommandInv
<1>2. CASE hand = NoOne \/ c \notin Patient
  BY <1>1, <1>2 DEF CallerMoves, CommandInv
<1>3. CASE hand # NoOne /\ c \in Patient
  <2>1. hand \in Specs /\ spec[hand] = "returned" /\ queue[hand] \in 0..QueueSize
    BY <1>3 DEF Typed, CommandInv, PipeInv
  <2>2. CASE queue[hand] < QueueSize
    BY <1>3, <2>2 DEF ReaderMoves
  <2>3. CASE queue[hand] = QueueSize
    BY <1>1, <1>3, <2>1, <2>3 DEF Stranded
  <2> QED BY <2>1, <2>2, <2>3, PipelineAssumption
<1> QED BY <1>2, <1>3

\* The only deadlock of the shutdown is a stranded command.
THEOREM ShutdownNeverStuck == Spec => []ShutdownAdvances
<1>1. Init => CommandInv
  BY DEF Init, Session!Init, Writer!Init, CommandInv
<1>2. Typed /\ CommandInv /\ PipeInv => ShutdownAdvances
  <2> SUFFICES ASSUME Typed, CommandInv, PipeInv, cancelled, main # "closed", mutex = NoOne
               PROVE  \/ MainMoves
                      \/ /\ main = "serving"
                         /\ \/ CollectorMoves \/ ReaderMoves \/ MonitorMoves \/ Stranded
                            \/ \E s \in Specs : SpecMoves(s)
                            \/ \E c \in Callers : CallerMoves(c)
                      \/ main = "waiting" /\ LoopMoves
    BY Zenon DEF ShutdownAdvances, ServerMoves
  <2>1. CASE main # "serving"
    BY <2>1, PipelineAssumption DEF Typed, MainMoves, LoopMoves, CommandInv
  <2>2. CASE main = "serving" /\ place \in {"top", "acquiring", "sleep"}
    BY <2>2 DEF CollectorMoves
  <2>3. CASE main = "serving" /\ place = "streaming"
    <3>1. ASSUME NEW s \in Specs, spec[s] # "returned" PROVE SpecMoves(s)
      BY <2>3, <3>1 DEF Typed, CommandInv, SpecMoves
    <3> QED BY <2>3, <3>1 DEF CollectorMoves
  <2>4. CASE main = "serving" /\ place \in {"releaseClean", "releaseError"}
    <3>1. CASE waiting = {}
      BY <2>4, <3>1 DEF CollectorMoves
    <3>2. CASE Monitor \in waiting
      BY <2>4, <3>2 DEF MonitorMoves
    <3> QED BY <2>4, <3>1, <3>2, CommandsAdvance
  <2>5. CASE main = "serving" /\ place = "done"
    BY <2>5 DEF CommandInv, MainMoves, MonitorMoves
  <2> QED BY <2>1, <2>2, <2>3, <2>4, <2>5 DEF Typed
<1> QED BY <1>1, <1>2, CommandStep, PipeInvariant, PipelineTyped, PTL DEF Spec
-----------------------------------------------------------------------------
\* A stranded command stays stranded, and main never gets beyond Engine.Stop.
StrandedForGood == [][Stranded => Stranded' /\ main' = "serving"]_vars

\* So the exception that ShutdownCompletes makes is no excuse for a delay: it
\* is the one state in which the program does hang.
THEOREM StrandedHangs == Spec => StrandedForGood
<1>1. ASSUME Typed, CommandInv, PipeInv, [Next]_vars
      PROVE  [Stranded => Stranded' /\ main' = "serving"]_vars
  <2> SUFFICES ASSUME Next, Stranded PROVE Stranded' /\ main' = "serving"
    BY <1>1
  <2> USE <1>1, PipelineAssumption DEF Typed, Stranded, CommandInv
  <2>0. main = "serving" /\ place \in {"streaming", "releaseClean", "releaseError"}
    BY DEF PipeInv
  <2>1. CASE CollectorStep
    BY <2>0, <2>1 DEF CollectorStep, Session!CollectorStep, Session!LoopTop,
      Session!AcquireFails, Session!AcquireSucceeds, Session!AllSpecsReturned,
      Session!ReleaseConn, Session!Wake, Session!SleepCancelled, Session!stream,
      writer, commands
  <2>2. ASSUME NEW s \in Specs, SpecSelects(s) \/ EventProcessed(s)
        PROVE  Stranded' /\ main' = "serving"
    BY <2>0, <2>2 DEF SpecSelects, EventProcessed, Session!ListenSucceeds,
      Session!ListenFails, Session!Receive, Session!ChannelClosed, Session!ContextDone,
      Session!CancelReturns, Session!Handle, Session!Move, Session!outer, writer, commands
  <2>3. ASSUME NEW s \in Specs, WritePoint(s) PROVE Stranded' /\ main' = "serving"
    BY <2>0, <2>3 DEF WritePoint, Writer!BufferPoint, session, commands
  <2>4. ASSUME NEW s \in Specs, SentenceArrives(s) PROVE Stranded' /\ main' = "serving"
    BY <2>4 DEF SentenceArrives, Session!ReadSentence
  <2>5. CASE ReaderStep
    BY <2>0, <2>5 DEF ReaderStep, Session!PutSentence, Session!ReaderStops
  <2>6. CASE ConnectionFails \/ Interrupted
    BY <2>0, <2>6 DEF ConnectionFails, Interrupted, Session!ClientDies,
      Session!CommandEnds, Session!Cancel, Session!stream, writer, commands
  <2>7. CASE ServerStep \/ WriteFails \/ LoopStep \/ LoopDone
    BY <2>0, <2>7 DEF ServerStep, WriteFails, LoopStep, LoopDone, Writer!ServerApplies,
      Writer!ServerRefuses, Writer!WriteSucceeds, Writer!WriteFails, Writer!AfterWrite,
      Writer!Tick, Writer!LoopLocks, Writer!LoopDone, session, commands
  <2>8. CASE MainStep
    BY <2>0, <2>8 DEF MainStep, EngineStopped, Closes, Writer!MainStep, Writer!Flush,
      Writer!Close, Writer!LoopAwaited, Writer!FinalFlush
  <2>9. ASSUME NEW c \in Callers \cup {Monitor},
               \/ CommandSent(c) \/ AnswerRead(c) \/ CommandFails(c)
               \/ PingFails \/ MonitorReleases
        PROVE  Stranded' /\ main' = "serving"
    BY <2>0, <2>9 DEF CommandSent, AnswerRead, CommandFails, PingFails, MonitorReleases,
      CommandReturns, session, writer
  <2> QED BY <2>1, <2>2, <2>3, <2>4, <2>5, <2>6, <2>7, <2>8, <2>9
          DEF Next, SpecStep, MonitorStep
<1>2. Init => CommandInv
  BY DEF Init, Session!Init, Writer!Init, CommandInv
<1> QED BY <1>1, <1>2, CommandStep, PipeInvariant, PipelineTyped, PTL
        DEF Spec, StrandedForGood
=============================================================================
