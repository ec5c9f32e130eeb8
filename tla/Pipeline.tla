------------------------------ MODULE Pipeline ------------------------------
(***************************************************************************)
(* From one router to the time series: a collector's session              *)
(* (StreamSession) whose specs write into the batching writer              *)
(* (InfluxWriter), the health check and the API's commands, which share    *)
(* the session's connection, and the main program, which stops the one and *)
(* then closes the other (cmd/example/main.go).  The steps of the two      *)
(* components are theirs; this module says how they are tied together.     *)
(***************************************************************************)
EXTENDS Naturals, Sequences, FiniteSets

CONSTANTS Specs, QueueSize, Interval, MaxInterval,
          Loop, Main, NoOne, BatchSize, Refused,
          Monitor,     \* the health loop of the connection
          Callers,     \* callers of the Executor
          Patient,     \* those whose context never ends
          MaxEvents    \* bound: sentences, faults and failed writes together

\* What the two components assume of their constants, and what is said above.
ASSUME PipelineAssumption ==
  /\ Specs # {} /\ IsFiniteSet(Specs)
  /\ Specs \cap {Loop, Main, NoOne} = {}
  /\ Loop # Main /\ Loop # NoOne /\ Main # NoOne
  /\ {QueueSize, Interval, MaxInterval, BatchSize} \subseteq Nat \ {0}
  /\ Refused \subseteq Nat
  /\ Monitor \notin Callers
  /\ Patient \subseteq Callers
  /\ MaxEvents \in Nat

VARIABLES place, delay, cancelled, client, spec, failed, queue, closed, hand,
          sent, handled, faults,                    \* of the session
          buffer, points, mutex, applied, stored, loop, main, done, failing,
          failures,                                 \* of the writer
          written, \* specs whose present event is in the writer's buffer
          waiting, \* who waits for the answer to a command
          closing, \* does the health loop wait to close the client?
          arrivals \* sentences so far

Session == INSTANCE StreamSession
             WITH MaxSent <- MaxEvents, MaxFaults <- MaxEvents
Writer == INSTANCE InfluxWriter
            WITH Writers <- Specs, faults <- failures,
                 MaxPoints <- MaxEvents, MaxFaults <- MaxEvents

session == <<place, delay, cancelled, client, spec, failed, queue, closed,
             hand, sent, handled, faults>>
writer == <<buffer, points, mutex, applied, stored, loop, main, done,
            failing, failures>>
commands == <<waiting, closing>>
vars == <<session, writer, written, commands, arrivals>>

Init ==
  /\ Session!Init /\ Writer!Init
  /\ written = {}
  /\ waiting = {} /\ closing = FALSE
  /\ arrivals = 0

Bounded == arrivals' + faults' + failures' <= MaxEvents

-----------------------------------------------------------------------------
(* The session and the writer by themselves.                               *)

\* Release waits for the commands that hold the connection's read lock.
CollectorStep ==
  /\ Session!CollectorStep
  /\ place \in {"releaseClean", "releaseError"} => waiting = {}
  /\ UNCHANGED <<writer, written, commands, arrivals>>
  /\ Bounded

SpecSelects(s) ==
  /\ \/ Session!ListenSucceeds(s) \/ Session!ListenFails(s)
     \/ Session!Receive(s) \/ Session!ChannelClosed(s)
     \/ Session!ContextDone(s) \/ Session!CancelReturns(s)
  /\ UNCHANGED <<writer, written, commands, arrivals>>

ReaderStep ==
  /\ Session!PutSentence \/ Session!ReaderStops
  /\ UNCHANGED <<writer, written, commands, arrivals>>

SentenceArrives(s) ==
  /\ Session!ReadSentence(s)
  /\ arrivals' = arrivals + 1
  /\ UNCHANGED <<writer, written, commands>>
  /\ Bounded

ConnectionFails ==
  /\ Session!ClientDies \/ \E s \in Specs : Session!CommandEnds(s)
  /\ UNCHANGED <<writer, written, commands, arrivals>>
  /\ Bounded

ServerStep ==
  /\ Writer!ServerApplies \/ Writer!ServerRefuses \/ Writer!WriteSucceeds
  /\ UNCHANGED <<session, written, commands, arrivals>>

WriteFails ==
  /\ Writer!WriteFails
  /\ UNCHANGED <<session, written, commands, arrivals>>
  /\ Bounded

LoopStep ==
  /\ Writer!Tick \/ Writer!LoopLocks
  /\ UNCHANGED <<session, written, commands, arrivals>>

LoopDone ==
  /\ Writer!LoopDone
  /\ UNCHANGED <<session, written, commands, arrivals>>

-----------------------------------------------------------------------------
(* A sentence on its way through runSpec, ProcessEvent and WritePoint.     *)

\* handleUpdate's WritePoint waits for the mutex, which whoever writes a
\* batch holds.
WritePoint(s) ==
  /\ spec[s] = "handling"
  /\ s \notin written
  /\ Writer!BufferPoint(s)
  /\ written' = written \cup {s}
  /\ UNCHANGED <<session, commands, arrivals>>

\* ProcessEvent returns, or there was no event: a sentence that is skipped or
\* that reports a removal has no point.  A spec whose point filled the batch
\* has first to write it.
EventProcessed(s) ==
  /\ mutex # s
  /\ Session!Handle(s)
  /\ written' = written \ {s}
  /\ UNCHANGED <<writer, commands, arrivals>>

SpecStep(s) ==
  SpecSelects(s) \/ WritePoint(s) \/ EventProcessed(s)

-----------------------------------------------------------------------------
(* Commands on the session's connection: the ping of checkConnection and   *)
(* Executor.Run.  Each holds the connection's read lock until its answer   *)
(* has come, through the reader of the sentences.                          *)

\* A Release that waits for the lock turns new commands away.
CommandSent(c) ==
  /\ client = "open" /\ place = "streaming"
  /\ ~closing
  /\ c \notin waiting
  /\ c = Monitor => ~cancelled
  /\ waiting' = waiting \cup {c}
  /\ UNCHANGED <<session, writer, written, closing, arrivals>>

CommandReturns(c) ==
  /\ c \in waiting
  /\ waiting' = waiting \ {c}
  /\ UNCHANGED <<session, writer, written, arrivals>>

\* The reader has nothing in its hand and reads the answer.
AnswerRead(c) ==
  /\ client = "open" /\ hand = NoOne
  /\ CommandReturns(c)
  /\ UNCHANGED closing

\* The reader of a dead client fails every command, and a caller's context
\* ends, of a caller that has bounded it.
CommandFails(c) ==
  /\ c \in Callers
  /\ (client = "dead" /\ hand = NoOne) \/ c \notin Patient
  /\ CommandReturns(c)
  /\ UNCHANGED closing

\* The router answers a ping well within its 5s, so that they pass only while
\* the reader is kept by the full channel of a spec whose event the stores
\* are slow to take (10s for a batch).  The health loop's context is that of
\* the collector.  checkConnection goes on to Release.
PingFails ==
  /\ \/ client = "dead" /\ hand = NoOne
     \/ cancelled
     \/ hand # NoOne /\ queue[hand] = QueueSize /\ spec[hand] = "handling"
  /\ CommandReturns(Monitor)
  /\ closing' = TRUE

\* Release, by the health loop: the client is closed, working or not.
MonitorReleases ==
  /\ closing /\ waiting = {}
  /\ closing' = FALSE
  /\ client' = IF client = "open" THEN "dead" ELSE client
  /\ UNCHANGED <<place, delay, cancelled, spec, failed, queue, closed, hand,
                 sent, handled, faults, writer, written, waiting, arrivals>>

MonitorStep == AnswerRead(Monitor) \/ PingFails \/ MonitorReleases

-----------------------------------------------------------------------------
(* The shutdown of cmd/example/main.go.                                    *)

\* The signal: the context of everything is cancelled.
Interrupted ==
  /\ Session!Cancel
  /\ UNCHANGED <<writer, written, commands, arrivals>>

\* Faulty variant: Engine.Stop cancels and waits for nothing.
EngineStoppedAtOnce ==
  /\ cancelled /\ main = "serving"
  /\ main' = "flush"
  /\ UNCHANGED <<session, buffer, points, mutex, applied, stored, loop,
                 done, failing, failures, written, commands, arrivals>>

\* Engine.Stop returns when the collector and the health loop have, and main
\* goes on to Flush and, deferred, Close.
EngineStopped ==
  /\ cancelled /\ main = "serving"
  /\ place = "done"
  /\ Monitor \notin waiting /\ ~closing
  /\ main' = "flush"
  /\ UNCHANGED <<session, buffer, points, mutex, applied, stored, loop,
                 done, failing, failures, written, commands, arrivals>>

Closes ==
  /\ Writer!MainStep
  /\ UNCHANGED <<session, written, commands, arrivals>>

MainStep == EngineStopped \/ Closes

-----------------------------------------------------------------------------
Next ==
  \/ CollectorStep \/ ReaderStep \/ ConnectionFails
  \/ \E s \in Specs : SentenceArrives(s) \/ SpecStep(s)
  \/ ServerStep \/ WriteFails \/ LoopStep \/ LoopDone \/ MainStep
  \/ \E c \in Callers \cup {Monitor} : CommandSent(c)
  \/ \E c \in Callers : AnswerRead(c) \/ CommandFails(c)
  \/ MonitorStep \/ Interrupted

Spec == Init /\ [][Next]_vars

\* Each goroutine goes on when it can, the router answers the commands it
\* gets, the server or its timeout ends a write, and the loop's select does
\* not pass over done for ever.  Nothing ends a context but its owner.
Fairness ==
  /\ WF_vars(CollectorStep) /\ WF_vars(ReaderStep)
  /\ \A s \in Specs : WF_vars(SpecStep(s))
  /\ WF_vars(ServerStep) /\ WF_vars(LoopStep) /\ SF_vars(LoopDone)
  /\ WF_vars(MainStep)
  /\ \A c \in Callers : WF_vars(AnswerRead(c) \/ CommandFails(c))
  /\ WF_vars(MonitorStep)

FairSpec == Spec /\ Fairness

-----------------------------------------------------------------------------
\* The composition implements the writer's specification, and so whatever is
\* proved of the writer holds in it: WritePoint is called only until Main has
\* stopped the engine, which none of the writer's own guards ensures.
ImplementsWriter == Writer!Spec

\* When the program ends, every sentence that a spec has received is handled,
\* and every point it made is stored unless the last write of all failed.
ExitPersists ==
  main = "closed" =>
    /\ \A s \in Specs : spec[s] \in {"idle", "returned"}
    /\ ~failing => stored = 1..points

\* A command without a deadline waits for its answer behind a sentence for a
\* full channel whose spec, cancelled, has returned: the reader is stuck, and
\* the command holds the lock that Release needs.  No step ends this.
Stranded ==
  /\ cancelled /\ waiting \cap Patient # {}
  /\ hand # NoOne /\ queue[hand] = QueueSize /\ spec[hand] = "returned"

\* After the signal the program ends, whatever the streams, the health check,
\* the commands and the writer are doing, unless a command is stranded: the
\* collector's Release, and with it Engine.Stop, then waits for ever.
ShutdownCompletes == cancelled ~> (main = "closed" \/ Stranded)

\* Every command returns although the sentences before its answer wait for
\* slow specs, unless it is stranded.
CommandsReturn ==
  \A c \in Callers : (c \in waiting) ~> (c \notin waiting \/ Stranded)
=============================================================================
