------------------------ MODULE StreamSessionProofs ------------------------
(***************************************************************************)
(* Proofs about StreamSession, for any number of specs and any sizes.  A   *)
(* sentence that was read is in one of four places: handled, in its spec's *)
(* hands, on the spec's channel or in the reader's hand.  The inductive    *)
(* invariant counts them, and says who may have ended without an error.    *)
(***************************************************************************)
EXTENDS StreamSession, TLAPS

One(b) == IF b THEN 1 ELSE 0

\* No sentence of a running spec is unaccounted for.
Accounted ==
  \A s \in Specs :
    spec[s] \in {"starting", "select", "handling", "cancelling"} =>
      sent[s] = handled[s] + queue[s] + One(hand = s) + One(spec[s] = "handling")

\* Nothing is sent before listening, or after the channel is closed.
NothingUnasked ==
  \A s \in Specs :
    /\ spec[s] = "starting" => sent[s] = 0
    /\ s \in closed => hand # s

\* A spec ends without an error only on cancellation, and so does a session.
CleanIsCancelled ==
  /\ \A s \in Specs : spec[s] = "cancelling" => cancelled
  /\ \A s \in Specs : spec[s] = "returned" /\ s \notin failed => cancelled
  /\ place = "releaseClean" => cancelled

IInv ==
  /\ TypeOK
  /\ NoSpecOutlivesSession
  /\ Accounted
  /\ NothingUnasked
  /\ AllHandledAtEnd
  /\ CleanIsCancelled
  /\ EndsOnlyWhenCancelled

-----------------------------------------------------------------------------
\* A new collector has read nothing and started no spec.
LEMMA InitIInv == Init => IInv
<1> SUFFICES ASSUME Init PROVE IInv
  OBVIOUS
<1>1. TypeOK
  <2>1. 0 \in 0..QueueSize /\ 0 \in 0..MaxSent /\ 0 \in 0..MaxFaults
    BY StreamAssumption
  <2>2. delay \in 1..Larger(Interval, MaxInterval)
    BY StreamAssumption DEF Init, Larger
  <2>3. QED
    BY <2>1, <2>2 DEF Init, TypeOK, Counts
<1>3. QED
  BY <1>1 DEF Init, IInv, NoSpecOutlivesSession, Accounted, NothingUnasked,
     AllHandledAtEnd, CleanIsCancelled, EndsOnlyWhenCancelled

\* The steps of RouterCollector.Start: a new session starts with nothing read,
\* and a session is over only when its specs are.
LEMMA CollectorKeeps == ASSUME IInv, CollectorStep PROVE IInv'
<1> USE StreamAssumption DEF IInv, Goto, stream, TypeOK, Counts, NoSpecOutlivesSession, Accounted,
      NothingUnasked, AllHandledAtEnd, CleanIsCancelled, EndsOnlyWhenCancelled, One
<1>1. CASE LoopTop
  BY <1>1 DEF LoopTop
<1>2. CASE AcquireFails
  BY <1>2 DEF AcquireFails, Fault
<1>3. CASE AcquireSucceeds
  BY <1>3 DEF AcquireSucceeds
<1>4. CASE AllSpecsReturned
  BY <1>4 DEF AllSpecsReturned
<1>5. CASE ReleaseConn
  BY <1>5 DEF ReleaseConn
<1>6. CASE Wake
  BY <1>6 DEF Wake, Smaller, Larger
<1>7. CASE SleepCancelled
  BY <1>7 DEF SleepCancelled
<1> QED
  BY <1>1, <1>2, <1>3, <1>4, <1>5, <1>6, <1>7 DEF CollectorStep

\* The steps of runSpec: each moves at most one sentence on.
LEMMA SpecKeeps == ASSUME IInv, NEW s \in Specs, SpecStep(s) PROVE IInv'
<1> USE StreamAssumption DEF IInv, Move, outer, TypeOK, Counts, NoSpecOutlivesSession, Accounted,
      NothingUnasked, AllHandledAtEnd, CleanIsCancelled, EndsOnlyWhenCancelled, One
<1>1. CASE ListenSucceeds(s)
  BY <1>1 DEF ListenSucceeds
<1>2. CASE ListenFails(s)
  \* Nothing was sent to it, so nothing is left to handle.
  <2>1. TypeOK'
    BY <1>2 DEF ListenFails
  <2>2. sent[s] = 0 /\ handled[s] = 0
    BY <1>2 DEF ListenFails
  <2>3. NoSpecOutlivesSession' /\ NothingUnasked' /\ CleanIsCancelled'
    BY <1>2 DEF ListenFails
  <2>4. Accounted'
    BY <1>2 DEF ListenFails
  <2>5. AllHandledAtEnd'
    BY <1>2, <2>2 DEF ListenFails
  <2>6. QED
    BY <1>2, <2>1, <2>3, <2>4, <2>5 DEF ListenFails
<1>3. CASE Receive(s)
  BY <1>3 DEF Receive
<1>4. CASE Handle(s)
  BY <1>4 DEF Handle
<1>5. CASE ChannelClosed(s)
  BY <1>5 DEF ChannelClosed
<1>6. CASE ContextDone(s)
  BY <1>6 DEF ContextDone
<1>7. CASE CancelReturns(s)
  BY <1>7 DEF CancelReturns
<1> QED
  BY <1>1, <1>2, <1>3, <1>4, <1>5, <1>6, <1>7 DEF SpecStep

\* The steps of the reader, the router and the connection.
LEMMA ReaderKeeps ==
  ASSUME IInv, PutSentence \/ ReaderStops \/ Environment
  PROVE  IInv'
<1> USE StreamAssumption DEF IInv, outer, stream, TypeOK, Counts, NoSpecOutlivesSession, Accounted,
      NothingUnasked, AllHandledAtEnd, CleanIsCancelled, EndsOnlyWhenCancelled, One
<1>1. CASE PutSentence
  BY <1>1 DEF PutSentence
<1>2. CASE ReaderStops
  BY <1>2 DEF ReaderStops
<1>3. CASE Cancel
  BY <1>3 DEF Cancel
<1>4. CASE ClientDies
  BY <1>4 DEF ClientDies, Fault
<1>5. ASSUME NEW s \in Specs, ReadSentence(s) PROVE IInv'
  BY <1>5 DEF ReadSentence, Listening
<1>6. ASSUME NEW s \in Specs, CommandEnds(s) PROVE IInv'
  BY <1>6 DEF CommandEnds, Listening, Fault
<1> QED
  BY <1>1, <1>2, <1>3, <1>4, <1>5, <1>6 DEF Environment

-----------------------------------------------------------------------------
\* The steps together: the invariant is inductive.
LEMMA StepKeeps == IInv /\ [Next]_vars => IInv'
<1> SUFFICES ASSUME IInv, [Next]_vars PROVE IInv'
  OBVIOUS
<1>1. CASE UNCHANGED vars
  BY <1>1 DEF vars, stream, IInv, TypeOK, Counts, NoSpecOutlivesSession, Accounted,
     NothingUnasked, AllHandledAtEnd, CleanIsCancelled, EndsOnlyWhenCancelled
<1>2. CASE CollectorStep
  BY <1>2, CollectorKeeps
<1>3. ASSUME NEW s \in Specs, SpecStep(s) PROVE IInv'
  BY <1>3, SpecKeeps
<1>4. CASE PutSentence \/ ReaderStops \/ Environment
  BY <1>4, ReaderKeeps
<1>5. QED
  BY <1>1, <1>2, <1>3, <1>4 DEF Next

\* The invariant holds in every state.
LEMMA Inductive == Spec => []IInv
BY InitIInv, StepKeeps, PTL DEF Spec

\* Every variable keeps its type: in particular no channel ever holds more
\* than its capacity, whatever the reader and the specs do, and the delay of
\* Start is bounded for every choice of the two intervals.
THEOREM TypeCorrect == Spec => []TypeOK
BY Inductive, PTL DEF IInv

\* runAllSpecs returns only after every spec has: however many there are, no
\* goroutine of one session meets the next session's client.
THEOREM SessionsContained == Spec => []NoSpecOutlivesSession
BY Inductive, PTL DEF IInv

\* Full channels, a broken connection or the end of a command lose no sentence
\* that was read: an uncancelled spec has handled them all when it returns.
THEOREM SentencesHandled == Spec => []AllHandledAtEnd
BY Inductive, PTL DEF IInv

\* Start returns only on cancellation: for no number of failures, in whatever
\* order, does it mistake one for the clean end of a session.
THEOREM GivesUpOnlyWhenTold == Spec => []EndsOnlyWhenCancelled
BY Inductive, PTL DEF IInv
-----------------------------------------------------------------------------
(* A session that has to end is never stuck.  The guards of the steps are  *)
(* written out, for those who can go on without the router.                *)

CollectorMoves ==
  \/ place \in {"top", "acquiring", "sleep", "releaseClean", "releaseError"}
  \/ place = "streaming" /\ \A s \in Specs : spec[s] = "returned"

SpecMoves(s) ==
  \/ spec[s] = "starting" /\ (client # "none" \/ cancelled)
  \/ spec[s] = "select" /\ (queue[s] > 0 \/ s \in closed \/ cancelled)
  \/ spec[s] \in {"handling", "cancelling"}

ReaderMoves ==
  \/ hand # NoOne /\ queue[hand] < QueueSize
  \/ hand = NoOne /\ client = "dead" /\ \E s \in Specs : Listening(s)

\* Once the context is cancelled or the client is dead, the collector, a spec
\* or the reader can go on until the end.
EndsAdvance ==
  (cancelled \/ client = "dead") /\ place # "done" =>
    CollectorMoves \/ ReaderMoves \/ \E s \in Specs : SpecMoves(s)

\* The reader, which all specs share, waits for no spec but one that is about
\* to make room, unless the collector is cancelled.
ReaderWaitsForLive ==
  hand # NoOne /\ ~cancelled =>
    queue[hand] < QueueSize \/ spec[hand] = "handling"
      \/ (spec[hand] = "select" /\ queue[hand] > 0)

\* A session has a client, and all of its specs have been launched; the reader
\* holds nothing for a spec that has not begun or that has returned uncancelled.
InSession ==
  /\ client # "none" <=> place \in {"streaming", "releaseClean", "releaseError"}
  /\ place = "streaming" => \A s \in Specs : spec[s] # "idle"
  /\ \A s \in Specs : spec[s] = "idle" => hand # s
  /\ \A s \in Specs : spec[s] = "starting" => hand # s
  /\ \A s \in Specs : spec[s] = "returned" /\ ~cancelled => hand # s

LEMMA InSessionStep == IInv /\ InSession /\ [Next]_vars => InSession'
<1> SUFFICES ASSUME IInv, InSession, [Next]_vars PROVE InSession'
  OBVIOUS
<1> USE StreamAssumption DEF IInv, TypeOK, InSession, Goto, Move, stream, outer
<1>1. CASE UNCHANGED vars
  BY <1>1 DEF vars
<1>2. CASE CollectorStep
  BY <1>2 DEF CollectorStep, LoopTop, AcquireFails, AcquireSucceeds, AllSpecsReturned,
    ReleaseConn, Wake, SleepCancelled
<1>3. ASSUME NEW s \in Specs, SpecStep(s) PROVE InSession'
  <2>1. spec[s] = "select" /\ s \in closed => hand # s
    BY DEF NothingUnasked
  <2>2. spec[s] = "cancelling" => cancelled
    BY DEF CleanIsCancelled
  <2>3. UNCHANGED <<place, client, hand, cancelled>>
    BY <1>3 DEF SpecStep, ListenSucceeds, ListenFails, Receive, Handle, ChannelClosed,
      ContextDone, CancelReturns
  <2>4. /\ \A t \in Specs : t # s => spec'[t] = spec[t]
        /\ spec'[s] \notin {"idle", "starting"} /\ spec[s] # "idle"
        /\ spec'[s] = "returned" => hand # s \/ cancelled
    BY <1>3, <2>1, <2>2 DEF SpecStep, ListenSucceeds, ListenFails, Receive, Handle,
      ChannelClosed, ContextDone, CancelReturns
  <2> QED BY <2>3, <2>4
<1>4. ASSUME NEW s \in Specs, ReadSentence(s) \/ CommandEnds(s) PROVE InSession'
  BY <1>4 DEF ReadSentence, CommandEnds, Listening
<1>5. CASE PutSentence \/ ReaderStops \/ Cancel \/ ClientDies
  BY <1>5 DEF PutSentence, ReaderStops, Cancel, ClientDies
<1> QED BY <1>1, <1>2, <1>3, <1>4, <1>5 DEF Next, Environment

LEMMA InSessionAlways == Spec => []InSession
<1>1. Init => InSession
  BY StreamAssumption DEF Init, InSession
<1> QED BY <1>1, InSessionStep, Inductive, PTL DEF Spec

\* A full channel has a sentence to receive, so that its spec, unless it has
\* returned, makes room; and one that returned uncancelled left the reader none.
THEOREM ReaderNotBlocked == Spec => []ReaderWaitsForLive
<1>1. IInv /\ InSession => ReaderWaitsForLive
  <2> SUFFICES ASSUME IInv, InSession, NEW h \in Specs, hand = h, ~cancelled,
                      ~(queue[h] < QueueSize)
               PROVE  spec[h] \in {"select", "handling"} /\ queue[h] > 0
    BY DEF ReaderWaitsForLive, IInv, TypeOK
  <2>1. queue[h] = QueueSize /\ QueueSize > 0
    BY StreamAssumption DEF IInv, TypeOK
  <2>2. spec[h] \notin {"idle", "starting", "cancelling", "returned"}
    BY DEF IInv, InSession, CleanIsCancelled
  <2> QED BY <2>1, <2>2 DEF IInv, TypeOK
<1> QED BY <1>1, InSessionAlways, Inductive, PTL

\* The end of a cancelled collector, and of the session of a dead client, never
\* waits for the router, for a sentence or for a circle of channel and reader.
THEOREM EndNeverStuck == Spec => []EndsAdvance
<1>1. IInv /\ InSession => EndsAdvance
  <2> SUFFICES ASSUME IInv, InSession, cancelled \/ client = "dead", place = "streaming",
                      NEW s \in Specs, spec[s] # "returned"
               PROVE  ReaderMoves \/ \E t \in Specs : SpecMoves(t)
    BY DEF EndsAdvance, CollectorMoves, IInv, TypeOK
  <2> USE DEF IInv, TypeOK, InSession
  <2>1. CASE cancelled
    BY <2>1 DEF SpecMoves
  <2>2. CASE ~cancelled /\ hand = NoOne
    BY <2>2 DEF SpecMoves, ReaderMoves, Listening
  <2>3. ASSUME ~cancelled, NEW h \in Specs, hand = h
        PROVE  ReaderMoves \/ \E t \in Specs : SpecMoves(t)
    <3>1. queue[h] < QueueSize \/ queue[h] = QueueSize
      BY StreamAssumption
    <3>2. QueueSize > 0 /\ h # NoOne
      BY StreamAssumption
    <3>3. spec[h] \in {"select", "handling", "cancelling"}
      BY <2>3
    <3> QED BY <2>3, <3>1, <3>2, <3>3 DEF ReaderMoves, SpecMoves
  <2>4. hand = NoOne \/ \E h \in Specs : hand = h
    OBVIOUS
  <2> QED BY <2>1, <2>2, <2>3, <2>4
<1> QED BY <1>1, InSessionAlways, Inductive, PTL

-----------------------------------------------------------------------------
\* How many places of Start are still ahead of a cancelled collector.
PlacesLeft == [acquiring |-> 5, streaming |-> 4, releaseError |-> 3, sleep |-> 2,
               top |-> 1, releaseClean |-> 1, done |-> 0]

\* Once cancelled, Start only goes nearer to its return: it acquires at most
\* once more, and a session it is in is its last.
LastRound ==
  [][cancelled /\ place' # place => PlacesLeft[place'] < PlacesLeft[place]]_vars

\* A cancelled Start cannot begin another round, whatever the connection does.
THEOREM CancelIsLast == Spec => LastRound
<1>1. ASSUME IInv, [Next]_vars
      PROVE  [cancelled /\ place' # place => PlacesLeft[place'] < PlacesLeft[place]]_vars
  <2> SUFFICES ASSUME Next, cancelled, place' # place
               PROVE  PlacesLeft[place'] < PlacesLeft[place]
    BY <1>1
  <2>1. CollectorStep
    BY DEF Next, SpecStep, ListenSucceeds, ListenFails, Receive, Handle, ChannelClosed,
      ContextDone, CancelReturns, PutSentence, ReaderStops, Environment, Cancel,
      ClientDies, ReadSentence, CommandEnds, outer
  <2>2. \/ place \in {"top", "releaseClean"} /\ place' = "done"
        \/ place = "acquiring" /\ place' \in {"sleep", "streaming"}
        \/ place = "streaming" /\ place' = "releaseClean"
        \/ place = "releaseError" /\ place' = "sleep"
        \/ place = "sleep" /\ place' \in {"top", "done"}
    BY <2>1 DEF CollectorStep, LoopTop, AcquireFails, AcquireSucceeds, AllSpecsReturned,
      ReleaseConn, Wake, SleepCancelled, Goto
  <2> QED BY <2>2 DEF PlacesLeft
<1> QED BY <1>1, Inductive, PTL DEF Spec, LastRound
=============================================================================
