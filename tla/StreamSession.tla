--------------------------- MODULE StreamSession ---------------------------
(***************************************************************************)
(* One RouterCollector (internal/collector/router.go) from its Start to    *)
(* its end: sessions on a client of the pool, in each of which every spec  *)
(* has a goroutine that listens on a bounded channel.  The asynchronous    *)
(* reader of the client, which puts each sentence on the channel of its    *)
(* spec, is the routeros library's: one for all specs, waiting while the   *)
(* channel of the sentence in its hand is full.  Sentences are counted.    *)
(***************************************************************************)
EXTENDS Naturals, FiniteSets

CONSTANTS Specs,      \* the stream specs of the router
          QueueSize,  \* defaultQueueSize
          Interval,   \* RouterConfig.ReconnectInterval, after Defaults
          MaxInterval, \* RouterConfig.MaxReconnectInterval, after Defaults
          MaxSent,    \* bound: sentences of a spec in a session
          MaxFaults,  \* bound: failed sessions, commands and connects
          NoOne       \* not a spec

\* A collector without specs is not modelled: its session ends at once,
\* without an error, and with it the collector.
ASSUME StreamAssumption ==
  /\ Specs # {} /\ IsFiniteSet(Specs)
  /\ NoOne \notin Specs
  /\ QueueSize \in Nat \ {0}
  /\ Interval \in Nat \ {0} /\ MaxInterval \in Nat \ {0}
  /\ MaxSent \in Nat /\ MaxFaults \in Nat

VARIABLES
  place,     \* where Start is
  delay,     \* Start's local delay
  cancelled, \* is the collector's context?
  client,    \* the acquired client: "none", "open" or "dead"
  spec,      \* where the goroutine of each spec is
  failed,    \* specs whose goroutine returned an error in this session
  queue,     \* sentences waiting on each reply's channel
  closed,    \* specs whose channel is closed
  hand,      \* the spec of the sentence in the reader's hand, or NoOne
  sent,      \* sentences of each spec that the reader has read
  handled,   \* sentences of each spec that were parsed and processed
  faults     \* faults so far

stream == <<spec, failed, queue, closed, hand, sent, handled>>
vars == <<place, delay, cancelled, client, spec, failed, queue, closed, hand,
          sent, handled, faults>>

Smaller(a, b) == IF a < b THEN a ELSE b
Larger(a, b) == IF a > b THEN a ELSE b
Counts == [Specs -> 0..MaxSent]

\* The types; no delay between two sessions exceeds the configured maximum,
\* or the first delay when that is longer, and no channel its capacity.
TypeOK ==
  /\ place \in {"top", "acquiring", "streaming", "releaseClean",
                "releaseError", "sleep", "done"}
  /\ delay \in 1..Larger(Interval, MaxInterval)
  /\ cancelled \in BOOLEAN
  /\ client \in {"none", "open", "dead"}
  /\ spec \in [Specs -> {"idle", "starting", "select", "handling",
                         "cancelling", "returned"}]
  /\ failed \subseteq Specs /\ closed \subseteq Specs
  /\ queue \in [Specs -> 0..QueueSize]
  /\ hand \in Specs \cup {NoOne}
  /\ sent \in Counts /\ handled \in Counts
  /\ faults \in 0..MaxFaults

Init ==
  /\ place = "top"
  /\ delay = Interval
  /\ cancelled = FALSE
  /\ client = "none"
  /\ spec = [s \in Specs |-> "idle"]
  /\ failed = {} /\ closed = {}
  /\ queue = [s \in Specs |-> 0]
  /\ hand = NoOne
  /\ sent = [s \in Specs |-> 0] /\ handled = [s \in Specs |-> 0]
  /\ faults = 0

Fault == faults < MaxFaults /\ faults' = faults + 1

-----------------------------------------------------------------------------
(* RouterCollector.Start and acquireAndStream.                             *)

Goto(p) == place' = p

LoopTop ==
  /\ place = "top"
  /\ Goto(IF cancelled THEN "done" ELSE "acquiring")
  /\ UNCHANGED <<delay, cancelled, client, stream, faults>>

\* No connection in the pool, a failed Connect or AcquireAsync.
AcquireFails ==
  /\ place = "acquiring"
  /\ IF cancelled THEN UNCHANGED faults ELSE Fault
  /\ Goto("sleep")
  /\ UNCHANGED <<delay, cancelled, client, stream>>

\* The client is acquired and runAllSpecs launches one goroutine per spec.
AcquireSucceeds ==
  /\ place = "acquiring"
  /\ Goto("streaming")
  /\ client' = "open"
  /\ spec' = [s \in Specs |-> "starting"]
  /\ failed' = {} /\ closed' = {}
  /\ queue' = [s \in Specs |-> 0]
  /\ hand' = NoOne
  /\ sent' = [s \in Specs |-> 0] /\ handled' = [s \in Specs |-> 0]
  /\ UNCHANGED <<delay, cancelled, faults>>

\* Faulty variant: the first spec that fails ends the session.
FirstSpecReturned ==
  /\ place = "streaming"
  /\ \E s \in Specs : spec[s] = "returned"
  /\ Goto(IF cancelled \/ failed = {} THEN "releaseClean" ELSE "releaseError")
  /\ UNCHANGED <<delay, cancelled, client, stream, faults>>

\* The end of runAllSpecs: cancellation makes the session a clean one.
AllSpecsReturned ==
  /\ place = "streaming"
  /\ \A s \in Specs : spec[s] = "returned"
  /\ Goto(IF cancelled \/ failed = {} THEN "releaseClean" ELSE "releaseError")
  /\ UNCHANGED <<delay, cancelled, client, stream, faults>>

\* Faulty variant: every session is the last.
ReleaseAndReturn ==
  /\ place \in {"releaseClean", "releaseError"}
  /\ Goto("done")
  /\ client' = "none"
  /\ UNCHANGED <<delay, cancelled, stream, faults>>

\* Release; only a session without error ends the collector.
ReleaseConn ==
  /\ place \in {"releaseClean", "releaseError"}
  /\ Goto(IF place = "releaseClean" THEN "done" ELSE "sleep")
  /\ client' = "none"
  /\ UNCHANGED <<delay, cancelled, stream, faults>>

\* Faulty variant: the delay is doubled without its cap.
WakeUncapped ==
  /\ place = "sleep"
  /\ Goto("top")
  /\ delay' = 2 * delay
  /\ UNCHANGED <<cancelled, client, stream, faults>>

Wake ==
  /\ place = "sleep"
  /\ Goto("top")
  /\ delay' = Smaller(2 * delay, MaxInterval)
  /\ UNCHANGED <<cancelled, client, stream, faults>>

SleepCancelled ==
  /\ place = "sleep"
  /\ cancelled
  /\ Goto("done")
  /\ UNCHANGED <<delay, cancelled, client, stream, faults>>

-----------------------------------------------------------------------------
(* runSpec, in the goroutine of s.                                         *)

Move(s, p) == spec' = [spec EXCEPT ![s] = p]
outer == <<place, delay, cancelled, client, faults>>

ListenSucceeds(s) ==
  /\ spec[s] = "starting"
  /\ client = "open"
  /\ Move(s, "select")
  /\ UNCHANGED <<outer, failed, queue, closed, hand, sent, handled>>

ListenFails(s) ==
  /\ spec[s] = "starting"
  /\ cancelled \/ client = "dead"
  /\ Move(s, "returned")
  /\ failed' = failed \cup {s}
  /\ UNCHANGED <<outer, queue, closed, hand, sent, handled>>

Receive(s) ==
  /\ spec[s] = "select"
  /\ queue[s] > 0
  /\ queue' = [queue EXCEPT ![s] = @ - 1]
  /\ Move(s, "handling")
  /\ UNCHANGED <<outer, failed, closed, hand, sent, handled>>

\* Faulty variant: an error of Parse or ProcessEvent ends the goroutine.
HandleOrReturn(s) ==
  /\ spec[s] = "handling"
  /\ handled' = [handled EXCEPT ![s] = @ + 1]
  /\ Move(s, "select") \/ Move(s, "returned")
  /\ UNCHANGED <<outer, failed, queue, closed, hand, sent>>

\* Parse and ProcessEvent: whether they fail or not, the loop goes on.
Handle(s) ==
  /\ spec[s] = "handling"
  /\ handled' = [handled EXCEPT ![s] = @ + 1]
  /\ Move(s, "select")
  /\ UNCHANGED <<outer, failed, queue, closed, hand, sent>>

\* Faulty variant: the closed channel is received from again and again.
ChannelPolled(s) ==
  /\ spec[s] = "select"
  /\ queue[s] = 0 /\ s \in closed
  /\ UNCHANGED vars

\* A closed channel is seen once it has been emptied.
ChannelClosed(s) ==
  /\ spec[s] = "select"
  /\ queue[s] = 0 /\ s \in closed
  /\ Move(s, "returned")
  /\ failed' = failed \cup {s}
  /\ UNCHANGED <<outer, queue, closed, hand, sent, handled>>

\* ctx.Done(), which select may prefer to a waiting sentence.
ContextDone(s) ==
  /\ spec[s] = "select"
  /\ cancelled
  /\ Move(s, "cancelling")
  /\ UNCHANGED <<outer, failed, queue, closed, hand, sent, handled>>

\* Faulty variant: CancelContext without a timeout waits for the reply.
CancelReplied(s) ==
  /\ spec[s] = "cancelling"
  /\ client = "open" /\ hand = NoOne
  /\ Move(s, "returned")
  /\ UNCHANGED <<outer, failed, queue, closed, hand, sent, handled>>

\* CancelContext returns: the reply came, or else its 5s have passed.
CancelReturns(s) ==
  /\ spec[s] = "cancelling"
  /\ Move(s, "returned")
  /\ UNCHANGED <<outer, failed, queue, closed, hand, sent, handled>>

SpecStep(s) ==
  \/ ListenSucceeds(s) \/ ListenFails(s) \/ Receive(s) \/ Handle(s)
  \/ ChannelClosed(s) \/ ContextDone(s) \/ CancelReturns(s)

-----------------------------------------------------------------------------
(* The client's reader and the router.                                     *)

Listening(s) == spec[s] \in {"select", "handling", "cancelling"} /\ s \notin closed

\* A sentence of s arrives and is in the reader's hand.
ReadSentence(s) ==
  /\ client = "open"
  /\ hand = NoOne
  /\ Listening(s)
  /\ sent[s] < MaxSent
  /\ hand' = s
  /\ sent' = [sent EXCEPT ![s] = @ + 1]
  /\ UNCHANGED <<outer, spec, failed, queue, closed, handled>>

\* Faulty variant: a sentence for a full channel is dropped.
PutOrDrop ==
  /\ hand # NoOne
  /\ queue' = [queue EXCEPT ![hand] = IF @ < QueueSize THEN @ + 1 ELSE @]
  /\ hand' = NoOne
  /\ UNCHANGED <<outer, spec, failed, closed, sent, handled>>

PutSentence ==
  /\ hand # NoOne
  /\ queue[hand] < QueueSize
  /\ queue' = [queue EXCEPT ![hand] = @ + 1]
  /\ hand' = NoOne
  /\ UNCHANGED <<outer, spec, failed, closed, sent, handled>>

\* The router ends the command of s (an error of it, say).
CommandEnds(s) ==
  /\ client = "open"
  /\ hand = NoOne
  /\ Listening(s)
  /\ Fault
  /\ closed' = closed \cup {s}
  /\ UNCHANGED <<place, delay, cancelled, client, spec, failed, queue, hand,
                 sent, handled>>

\* The connection breaks, or the health loop closes it.
ClientDies ==
  /\ client = "open"
  /\ Fault
  /\ client' = "dead"
  /\ UNCHANGED <<place, delay, cancelled, stream>>

\* The reader's next read fails and it closes every channel.
ReaderStops ==
  /\ client = "dead"
  /\ hand = NoOne
  /\ \E s \in Specs : Listening(s)
  /\ closed' = closed \cup {s \in Specs : Listening(s)}
  /\ UNCHANGED <<outer, spec, failed, queue, hand, sent, handled>>

\* The collector is stopped, or the engine.
Cancel ==
  /\ ~cancelled
  /\ cancelled' = TRUE
  /\ UNCHANGED <<place, delay, client, stream, faults>>

-----------------------------------------------------------------------------
CollectorStep ==
  \/ LoopTop \/ AcquireFails \/ AcquireSucceeds \/ AllSpecsReturned
  \/ ReleaseConn \/ Wake \/ SleepCancelled

Environment ==
  \/ Cancel \/ ClientDies
  \/ \E s \in Specs : ReadSentence(s) \/ CommandEnds(s)

Next ==
  \/ CollectorStep
  \/ \E s \in Specs : SpecStep(s)
  \/ PutSentence \/ ReaderStops
  \/ Environment

Spec == Init /\ [][Next]_vars

\* Every goroutine and the reader run; sleeps, dials and CancelContext end by
\* their timeouts.  A select picks at random among its ready cases, so it
\* cannot pass over ctx.Done() for ever (SF).
Fairness ==
  /\ WF_vars(CollectorStep)
  /\ WF_vars(PutSentence) /\ WF_vars(ReaderStops)
  /\ \A s \in Specs : WF_vars(SpecStep(s)) /\ SF_vars(ContextDone(s))

FairSpec == Spec /\ Fairness

-----------------------------------------------------------------------------
\* The session is released only when the goroutines of all of its specs have
\* returned: none is left behind on a closed client or in the next session.
NoSpecOutlivesSession ==
  place # "streaming" => \A s \in Specs : spec[s] \in {"idle", "returned"}

\* Nothing a spec was sent is lost or handled twice, full channel or not,
\* unless the collector is cancelled: when the spec returns it has handled
\* all of it.
AllHandledAtEnd ==
  \A s \in Specs :
    spec[s] = "returned" /\ ~cancelled => handled[s] = sent[s]

\* However its sessions, commands and connects fail, a collector gives up
\* only when it is cancelled.
EndsOnlyWhenCancelled == place = "done" => cancelled

\* A cancelled collector ends, also while the reader waits on the full
\* channel of a spec that no longer reads it.
CancelEnds == cancelled ~> (place = "done")

\* A dead client ends its session: every spec notices.
DeadClientEnds == (client = "dead") ~> (client # "dead")

\* The reader gets rid of each sentence: a spec that fails or is slow does
\* not keep the sentences of the others from them.
ReaderProgress ==
  \A s \in Specs : (hand = s) ~> (hand # s \/ cancelled)
=============================================================================
