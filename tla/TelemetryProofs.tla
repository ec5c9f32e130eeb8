-------------------------- MODULE TelemetryProofs ---------------------------
(***************************************************************************)
(* Proofs about the telemetry use case, for any sets of flows, entities,   *)
(* changes and failures.  They rest on the catalogue: no two specs share a *)
(* measurement (SpecCatalogProofs), so that no two flows share a key.      *)
(***************************************************************************)
EXTENDS Telemetry, SpecCatalogProofs, SequenceTheorems, FiniteSetTheorems, TLAPS

Sentences == [id : Ids, name : Names, dead : BOOLEAN]

\* The flows stay the ones of the initial state.
Typed == TypeOK /\ flows \in FlowSets

LEMMA FlowFacts ==
  ASSUME flows \in FlowSets, NEW f \in flows
  PROVE  f = <<f[1], f[2]>> /\ f[2] \in DOMAIN Catalog
BY TelemetryAssumption

LEMMA InitTyped == Init => Typed
<1> SUFFICES ASSUME Init PROVE Typed
  OBVIOUS
<1>1. /\ \A l \in Lists : totals[l] = {} /\ actives[l] = {}
      /\ totals \in [Lists -> SUBSET Names] /\ actives \in [Lists -> SUBSET Names]
      /\ started \in [Lists -> Nat] /\ results \in [Lists -> Seq(SUBSET Names)]
      /\ DOMAIN inactive = Lists /\ \A l \in Lists : inactive[l] = None
  BY DEF Init
<1>2. /\ pending \in [flows -> Seq(Sentences)]
      /\ table \in [flows -> [Ids -> Names \cup {None}]]
      /\ step \in [flows -> {"select"}]
      /\ DOMAIN event = flows /\ \A f \in flows : event[f] = None
  BY DEF Init
<1>3. changes \in 0..MaxChanges /\ faults \in 0..MaxFaults
  BY TelemetryAssumption DEF Init
<1> QED BY <1>1, <1>2, <1>3 DEF Init, Typed, TypeOK, Sentences

-----------------------------------------------------------------------------
(* The types, action by action.                                            *)

\* What an action of the routers leaves alone.
Beyond == <<flows, step, event, aggregator, stores, crashed>>

LEMMA SourceTyped ==
  ASSUME Typed, UNCHANGED Beyond,
         up' \subseteq flows, due' \subseteq flows, lapsed' \subseteq flows,
         table' \in [flows -> [Ids -> Names \cup {None}]],
         pending' \in [flows -> Seq(Sentences)],
         changes' \in 0..MaxChanges, faults' \in 0..MaxFaults
  PROVE  Typed'
BY DEF Typed, TypeOK, Beyond, aggregator, stores, Sentences, Lists, Routers, Router

LEMMA TableTyped ==
  ASSUME Typed, NEW f \in flows, TableChanges(f)
  PROVE  Typed'
<1> USE DEF Typed, TypeOK
<1>1. PICK i \in Entities(Stream(f)) :
       \/ \E n \in Names :
            /\ Change(f, i, n)
            /\ pending' = IF Stream(f).follow /\ f \notin due
                          THEN [pending EXCEPT ![f] = Append(@, Sentence(i, n, FALSE))]
                          ELSE pending
       \/ /\ Remove(f, i)
          /\ pending' = IF Stream(f).follow /\ f \notin due
                        THEN [pending EXCEPT ![f] = Append(@, Sentence(i, table[f][i], TRUE))]
                        ELSE pending
  BY DEF TableChanges
<1>2. i \in Ids
  BY TelemetryAssumption DEF Entities
<1>3. /\ table' \in [flows -> [Ids -> Names \cup {None}]]
      /\ changes' \in 0..MaxChanges
  <2>1. PICK n \in Names \cup {None} :
          /\ table' = [table EXCEPT ![f][i] = n]
          /\ changes < MaxChanges /\ changes' = changes + 1
    BY <1>1 DEF Change, Remove
  <2>2. [table[f] EXCEPT ![i] = n] \in [Ids -> Names \cup {None}]
    OBVIOUS
  <2> QED BY <2>1, <2>2, TelemetryAssumption
<1>4. pending' \in [flows -> Seq(Sentences)]
  <2>1. \A n \in Names : \A d \in BOOLEAN : Sentence(i, n, d) \in Sentences
    BY <1>2 DEF Sentence, Sentences
  <2>2. ASSUME NEW n \in Names, NEW d \in BOOLEAN,
               pending' = [pending EXCEPT ![f] = Append(@, Sentence(i, n, d))]
        PROVE  pending' \in [flows -> Seq(Sentences)]
    <3>1. pending \in [flows -> Seq(Sentences)] /\ Sentence(i, n, d) \in Sentences
      BY <2>1 DEF Sentences
    <3> HIDE DEF Typed, TypeOK
    <3>2. Append(pending[f], Sentence(i, n, d)) \in Seq(Sentences)
      BY <3>1
    <3> QED BY <2>2, <3>1, <3>2
  <2>3. Remove(f, i) => table[f][i] \in Names
    BY <1>2 DEF Remove
  <2>4. pending \in [flows -> Seq(Sentences)]
    BY DEF Sentences
  <2> QED BY <1>1, <2>2, <2>3, <2>4
<1>5. /\ UNCHANGED Beyond
      /\ up' = up /\ lapsed' = lapsed /\ faults' = faults
      /\ due' \subseteq flows
  BY DEF TableChanges, Beyond
<1> QED BY <1>3, <1>4, <1>5, SourceTyped

LEMMA TableSentTyped ==
  ASSUME Typed, NEW f \in flows, TableSent(f)
  PROVE  Typed'
<1> USE DEF Typed, TypeOK
<1> DEFINE L == {i \in Ids : table[f][i] # None}
<1>1. PICK order \in [1..Cardinality(L) -> L] :
        pending' = [pending EXCEPT ![f] =
          [k \in DOMAIN order |-> Sentence(order[k], table[f][order[k]], FALSE)]]
  BY DEF TableSent
<1> DEFINE N == Cardinality(L)
           S == [k \in 1..N |-> Sentence(order[k], table[f][order[k]], FALSE)]
<1>2. N \in Nat
  BY FS_Subset, FS_CardinalityType, TelemetryAssumption
<1>3. S \in Seq(Sentences)
  <2>1. \A k \in 1..N : S[k] \in Sentences
    <3> SUFFICES ASSUME NEW k \in 1..N PROVE S[k] \in Sentences
      OBVIOUS
    <3>0. order[k] \in L
      BY <1>1
    <3>1. order[k] \in Ids /\ table[f][order[k]] \in Names
      BY <3>0
    <3>2. S[k] = Sentence(order[k], table[f][order[k]], FALSE)
      OBVIOUS
    <3> QED BY <3>1, <3>2 DEF Sentence, Sentences
  <2> HIDE DEF S, N
  <2>2. S \in [1..N -> Sentences]
    BY <2>1 DEF S
  <2> QED BY <1>2, <2>2
<1>4. pending' \in [flows -> Seq(Sentences)]
  <2>1. pending \in [flows -> Seq(Sentences)] /\ pending' = [pending EXCEPT ![f] = S]
    BY <1>1 DEF Sentences
  <2> HIDE DEF S, Typed, TypeOK
  <2> QED BY <1>3, <2>1
<1> QED BY <1>4, SourceTyped DEF TableSent, Beyond

LEMMA SessionTyped ==
  ASSUME Typed, NEW r \in Routers, SessionLost(r) \/ SessionStarts(r)
  PROVE  Typed'
<1> USE DEF Typed, TypeOK
<1>1. CASE SessionLost(r)
  <2> DEFINE of == {f \in flows : Router(f) = r}
  <2>1. PICK kept \in [of -> 0..MaxChanges] :
          /\ \A f \in of : kept[f] <= Len(pending[f])
          /\ pending' = [f \in flows |->
               IF f \in of THEN SubSeq(pending[f], 1, kept[f]) ELSE pending[f]]
    BY <1>1 DEF SessionLost
  <2>2. pending \in [flows -> Seq(Sentences)]
    BY DEF Sentences
  <2>3. \A f \in of : SubSeq(pending[f], 1, kept[f]) \in Seq(Sentences)
    <3> SUFFICES ASSUME NEW f \in of
                 PROVE  SubSeq(pending[f], 1, kept[f]) \in Seq(Sentences)
      OBVIOUS
    <3>1. /\ pending[f] \in Seq(Sentences)
          /\ kept[f] \in Nat /\ kept[f] <= Len(pending[f])
      BY <2>1, <2>2, TelemetryAssumption
    <3>2. \A k \in 1..kept[f] : pending[f][k] \in Sentences
      BY <3>1
    <3> QED BY <3>1, <3>2, SubSeqProperties
  <2>4. pending' \in [flows -> Seq(Sentences)]
    BY <2>1, <2>2, <2>3
  <2>5. /\ up' \subseteq flows /\ due' \subseteq flows /\ lapsed' \subseteq flows
        /\ faults' \in 0..MaxFaults
    BY <1>1, TelemetryAssumption DEF SessionLost, Fault
  <2> QED BY <1>1, <2>4, <2>5, SourceTyped DEF SessionLost, Beyond
<1>2. CASE SessionStarts(r)
  <2>1. UNCHANGED <<Beyond, table, due, lapsed, changes, pending, faults>> /\ up' \subseteq flows
    BY <1>2 DEF SessionStarts, Beyond
  <2> QED BY <2>1, SourceTyped DEF Sentences
<1> QED BY <1>1, <1>2

LEMMA FaultTyped == Typed /\ (Fault \/ UNCHANGED faults) => faults' \in 0..MaxFaults
BY TelemetryAssumption DEF Typed, TypeOK, Fault

\* A step of ProcessEvent that leaves the aggregator alone.
LEMMA FlowTyped ==
  ASSUME Typed, NEW f \in flows,
         Receive(f) \/ WritePoint(f) \/ UpdateCache(f) \/ Publish(f)
  PROVE  Typed'
<1> USE DEF Typed, TypeOK
<1>u. UNCHANGED <<flows, source, aggregator, crashed>> /\ faults' \in 0..MaxFaults
  BY FaultTyped DEF Receive, WritePoint, UpdateCache, Publish
<1>1. CASE Receive(f)
  <2>1. Head(pending[f]) \in Sentences /\ Tail(pending[f]) \in Seq(Sentences)
    BY <1>1, HeadTailProperties DEF Receive, Sentences
  <2>2. pending' \in [flows -> Seq(Sentences)]
    BY <1>1, <2>1 DEF Receive, Sentences
  <2>3. CASE UNCHANGED <<step, event>>
    BY <1>u, <2>2, <2>3 DEF source, aggregator, Sentences, Lists, Routers, Router
  <2>4. CASE /\ event' = [event EXCEPT ![f] = Parse(f, Head(pending[f]))]
             /\ step' = [step EXCEPT ![f] = "aggregate"]
    <3>1. LET e == Parse(f, Head(pending[f]))
          IN  \/ e.type = "update" /\ e.name \in Names
              \/ e.type = "dead"
      BY <2>1 DEF Parse, Sentences
    <3>2. step'[f] = "aggregate" /\ event'[f] = Parse(f, Head(pending[f]))
      BY <2>4
    <3>3. \A g \in flows \ {f} : step'[g] = step[g] /\ event'[g] = event[g]
      BY <2>4
    <3>4. /\ step' \in [flows -> {"select", "aggregate", "write", "cache", "publish"}]
          /\ DOMAIN event' = flows
      BY <2>4
    <3>5. \A g \in flows :
            IF step'[g] = "select" THEN event'[g] = None
            ELSE \/ event'[g].type = "update" /\ event'[g].name \in Names
                 \/ event'[g].type = "dead" /\ step'[g] # "write"
      BY <3>1, <3>2, <3>3
    <3> QED BY <1>u, <2>2, <3>4, <3>5 DEF source, aggregator, Sentences, Lists, Routers, Router
  <2> QED BY <1>1, <2>3, <2>4 DEF Receive
<1>2. CASE WritePoint(f) \/ UpdateCache(f)
  <2>1. UNCHANGED <<event, pending>>
    BY <1>2 DEF WritePoint, UpdateCache
  <2>2. PICK p \in {"cache", "publish"} : step' = [step EXCEPT ![f] = p] /\ step[f] # "select"
    BY <1>2 DEF WritePoint, UpdateCache
  <2> QED BY <1>u, <2>1, <2>2 DEF source, aggregator, Lists, Routers, Router
<1>3. CASE Publish(f)
  <2>1. /\ pending' = pending
        /\ step' = [step EXCEPT ![f] = "select"]
        /\ event' = [event EXCEPT ![f] = None]
    BY <1>3 DEF Publish
  <2> QED BY <1>u, <2>1 DEF source, aggregator, Lists, Routers, Router
<1> QED BY <1>1, <1>2, <1>3

LEMMA ListsOf == \A f \in flows : {<<Router(f), "ppp">>, <<Router(f), "hotspot">>} \subseteq Lists
BY DEF Lists, Routers

LEMMA AggregateTyped ==
  ASSUME Typed, NEW f \in flows, Aggregate(f)
  PROVE  Typed'
<1> USE DEF Typed, TypeOK
<1>1. UNCHANGED <<flows, source, pending, event, faults>> /\ step[f] = "aggregate"
  BY DEF Aggregate
<1>2. \/ UNCHANGED <<aggregator, crashed>>
      \/ crashed' = TRUE /\ UNCHANGED aggregator
      \/ \E l \in Lists : TotalsUpdated(f, l)
      \/ \E l \in Lists :
           /\ event[f].type = "update"
           /\ actives' = [actives EXCEPT ![l] = @ \cup {event[f].name}]
           /\ Recalculate(l)
           /\ UNCHANGED <<totals, results, inactive, crashed>>
  BY ListsOf DEF Aggregate, Aggregated, ActivesUpdated
<1>3. /\ totals' \in [Lists -> SUBSET Names] /\ actives' \in [Lists -> SUBSET Names]
      /\ started' \in [Lists -> Nat]
      /\ UNCHANGED <<results, inactive>>
      /\ crashed' \in BOOLEAN
  <2>1. event[f].type = "update" => event[f].name \in Names
    BY <1>1
  <2>2. CASE \E l \in Lists : TotalsUpdated(f, l)
    BY <2>1, <2>2 DEF TotalsUpdated, Recalculate
  <2>3. CASE \E l \in Lists :
           /\ event[f].type = "update"
           /\ actives' = [actives EXCEPT ![l] = @ \cup {event[f].name}]
           /\ Recalculate(l)
           /\ UNCHANGED <<totals, results, inactive, crashed>>
    BY <2>1, <2>3 DEF Recalculate
  <2> QED BY <1>2, <2>2, <2>3 DEF aggregator
<1>4. /\ step' \in [flows -> {"select", "aggregate", "write", "cache", "publish"}]
      /\ \A g \in flows :
            IF step'[g] = "select" THEN event'[g] = None
            ELSE \/ event'[g].type = "update" /\ event'[g].name \in Names
                 \/ event'[g].type = "dead" /\ step'[g] # "write"
  BY <1>1 DEF Aggregate
<1>5. Lists' = Lists
  BY <1>1 DEF Lists, Routers, Router
<1> QED BY <1>1, <1>3, <1>4, <1>5 DEF source

LEMMA RecalculationTyped ==
  ASSUME Typed, NEW l \in Lists, Calculate(l) \/ CacheInactive(l)
  PROVE  Typed'
<1> USE DEF Typed, TypeOK
<1>1. /\ UNCHANGED <<flows, source, pending, step, event, totals, actives, crashed>>
      /\ faults' \in 0..MaxFaults
  BY FaultTyped DEF Calculate, CacheInactive, Cached
<1>2. Lists' = Lists
  BY <1>1 DEF Lists, Routers, Router
<1>3. /\ started' \in [Lists -> Nat] /\ results' \in [Lists -> Seq(SUBSET Names)]
      /\ DOMAIN inactive' = Lists
      /\ \A m \in Lists : inactive'[m] = None \/ inactive'[m] \subseteq Names
  <2>1. CASE Calculate(l)
    <3>1. Inactive(l) \in SUBSET Names
      BY DEF Inactive
    <3>2. Append(results[l], Inactive(l)) \in Seq(SUBSET Names)
      BY <3>1, AppendProperties
    <3> QED BY <2>1, <3>2 DEF Calculate
  <2>2. CASE CacheInactive(l)
    <3>1. PICK k \in DOMAIN results[l] :
            /\ inactive' \in {inactive, [inactive EXCEPT ![l] = results[l][k]]}
            /\ results' = [results EXCEPT ![l] =
                 SubSeq(@, 1, k - 1) \o SubSeq(@, k + 1, Len(@))]
            /\ UNCHANGED started
      BY <2>2 DEF CacheInactive, Cached
    <3>2. results[l] \in Seq(SUBSET Names) /\ k \in 1..Len(results[l])
      OBVIOUS
    <3>3. SubSeq(results[l], 1, k - 1) \in Seq(SUBSET Names)
      BY <3>2, SubSeqProperties
    <3>4. SubSeq(results[l], k + 1, Len(results[l])) \in Seq(SUBSET Names)
      BY <3>2, SubSeqProperties
    <3>5. SubSeq(results[l], 1, k - 1) \o SubSeq(results[l], k + 1, Len(results[l])) \in Seq(SUBSET Names)
      BY <3>3, <3>4, ConcatProperties
    <3>6. results[l][k] \subseteq Names
      BY <3>2
    <3> QED BY <3>1, <3>5, <3>6
  <2> QED BY <2>1, <2>2
<1> QED BY <1>1, <1>2, <1>3 DEF source

LEMMA TypedStep == Typed /\ [Next]_vars => Typed'
<1> SUFFICES ASSUME Typed, [Next]_vars PROVE Typed'
  OBVIOUS
<1>1. CASE UNCHANGED vars
  BY <1>1 DEF Typed, TypeOK, vars, source, aggregator, stores, Lists, Routers, Router
<1>2. CASE Next
  BY <1>2, TableTyped, TableSentTyped, SessionTyped, FlowTyped, AggregateTyped,
     RecalculationTyped DEF Next
<1> QED BY <1>1, <1>2

LEMMA AlwaysTyped == Spec => []Typed
BY InitTyped, TypedStep, PTL DEF Spec

\* The types, above all that an event is where its type belongs: a point is
\* written of an update only.
THEOREM TypeCorrect == Spec => []TypeOK
BY AlwaysTyped, PTL DEF Typed

-----------------------------------------------------------------------------
(* Events and points.                                                      *)

\* An event has the keys of its own flow only, and nothing blank.
EventsOwn ==
  \A f \in flows : step[f] # "select" =>
    /\ event[f].key = <<Router(f), Stream(f).measurement, event[f].key[3]>>
    /\ event[f].blank = {}

TaggedByRouter == \A p \in points : p[1] = p[2]

LEMMA StreamSound ==
  ASSUME flows \in FlowSets
  PROVE  \A f \in flows : WellFormed(Stream(f))
BY FlowFacts, CatalogWellFormed DEF Stream

\* A flow is known by its router and its measurement.
LEMMA OneFlow ==
  ASSUME flows \in FlowSets, NEW f \in flows, NEW g \in flows,
         Router(f) = Router(g), Stream(f).measurement = Stream(g).measurement
  PROVE  f = g
<1>1. /\ f = <<f[1], f[2]>> /\ f[2] \in DOMAIN Catalog
      /\ g = <<g[1], g[2]>> /\ g[2] \in DOMAIN Catalog
  BY FlowFacts
<1>2. f[1] = g[1] /\ f[2] = g[2]
  BY <1>1, MeasurementsDistinct DEF Router, Stream
<1> QED BY <1>1, <1>2

\* Two flows never have events of one key.
LEMMA KeysDiffer ==
  ASSUME Typed, EventsOwn, NEW f \in flows, NEW g \in flows, f # g,
         step[f] # "select", step[g] # "select"
  PROVE  event[f].key # event[g].key
<1> SUFFICES ASSUME event[f].key = event[g].key PROVE FALSE
  OBVIOUS
<1>1. Router(f) = Router(g) /\ Stream(f).measurement = Stream(g).measurement
  BY DEF EventsOwn
<1> QED BY <1>1, OneFlow DEF Typed

\* A step that only moves events on, or drops them.
LEMMA EventsMoved ==
  ASSUME EventsOwn, UNCHANGED flows,
         \A f \in flows : step'[f] # "select" =>
           step[f] # "select" /\ event'[f] = event[f]
  PROVE  EventsOwn'
BY DEF EventsOwn, Router, Stream

LEMMA EventsStep ==
  ASSUME Typed, EventsOwn, TaggedByRouter, [Next]_vars
  PROVE  EventsOwn' /\ TaggedByRouter'
<1> USE DEF Typed, TypeOK
<1>1. CASE UNCHANGED <<flows, step, event, points>>
  BY <1>1, EventsMoved DEF TaggedByRouter
<1>2. ASSUME NEW f \in flows, Receive(f)
      PROVE  EventsOwn' /\ TaggedByRouter'
  <2>0. points' = points /\ flows' = flows
    BY <1>2 DEF Receive, stores
  <2> SUFFICES EventsOwn'
    BY <2>0 DEF TaggedByRouter
  <2>1. CASE UNCHANGED <<step, event>>
    BY <2>0, <2>1, EventsMoved
  <2>2. CASE /\ event' = [event EXCEPT ![f] = Parse(f, Head(pending[f]))]
             /\ step' = [step EXCEPT ![f] = "aggregate"]
    <3> DEFINE e == Parse(f, Head(pending[f]))
    <3>1. e.key = CacheKey(f, Head(pending[f]))
      BY DEF Parse
    <3>2. e.key = <<Router(f), Stream(f).measurement, e.key[3]>>
      BY <3>1 DEF CacheKey
    <3>3. e.blank = {}
      BY StreamSound DEF Parse, WellFormed, Sent
    <3>4. event'[f] = e /\ \A g \in flows \ {f} : step'[g] = step[g] /\ event'[g] = event[g]
      BY <2>2
    <3> QED BY <2>0, <3>2, <3>3, <3>4 DEF EventsOwn, Router, Stream
  <2> QED BY <1>2, <2>1, <2>2 DEF Receive
<1>3. ASSUME NEW f \in flows, Aggregate(f) \/ UpdateCache(f) \/ Publish(f)
      PROVE  EventsOwn' /\ TaggedByRouter'
  <2>1. /\ flows' = flows /\ points' = points
        /\ \A g \in flows : step'[g] # "select" =>
             step[g] # "select" /\ event'[g] = event[g]
    BY <1>3 DEF Aggregate, UpdateCache, Publish, stores
  <2> QED BY <2>1, EventsMoved DEF TaggedByRouter
<1>4. ASSUME NEW f \in flows, WritePoint(f)
      PROVE  EventsOwn' /\ TaggedByRouter'
  <2>1. RouterTag(f) = Router(f)
    BY StreamSound DEF RouterTag, WellFormed
  <2>2. points' \in {points, points \cup {<<Router(f), Router(f)>>}}
    BY <1>4, <2>1 DEF WritePoint
  <2>3. TaggedByRouter'
    BY <2>2 DEF TaggedByRouter
  <2>4. /\ flows' = flows
        /\ \A g \in flows : step'[g] # "select" =>
             step[g] # "select" /\ event'[g] = event[g]
    BY <1>4 DEF WritePoint
  <2> QED BY <2>3, <2>4, EventsMoved
<1>5. ASSUME NEW f \in flows, TableChanges(f) \/ TableSent(f)
      PROVE  UNCHANGED <<flows, step, event, points>>
  BY <1>5 DEF TableChanges, TableSent, stores
<1>6. ASSUME NEW r \in Routers, SessionLost(r) \/ SessionStarts(r)
      PROVE  UNCHANGED <<flows, step, event, points>>
  BY <1>6 DEF SessionLost, SessionStarts, stores
<1>7. ASSUME NEW l \in Lists, Calculate(l) \/ CacheInactive(l)
      PROVE  UNCHANGED <<flows, step, event, points>>
  BY <1>7 DEF Calculate, CacheInactive, Cached, stores
<1>8. CASE UNCHANGED vars
  BY <1>1, <1>8 DEF vars, stores
<1> QED BY <1>1, <1>2, <1>3, <1>4, <1>5, <1>6, <1>7, <1>8 DEF Next

LEMMA EventsAlways == Spec => [](Typed /\ EventsOwn /\ TaggedByRouter)
<1>1. Init => EventsOwn /\ TaggedByRouter
  BY DEF Init, EventsOwn, TaggedByRouter
<1> QED BY <1>1, InitTyped, TypedStep, EventsStep, PTL DEF Spec

\* Every point is tagged with the router it came from, no spec uses the
\* database's own column, and no attribute is empty for want of being asked
\* for: for each of the 39 specs, whatever flows run.
THEOREM PointsWellFormed == Spec => []EventsWellFormed
<1>1. Typed /\ EventsOwn /\ TaggedByRouter => EventsWellFormed
  BY StreamSound DEF Typed, TypeOK, EventsOwn, TaggedByRouter, EventsWellFormed, WellFormed
<1> QED BY <1>1, EventsAlways, PTL

-----------------------------------------------------------------------------
(* The cache as its readers know it.                                       *)

LEMMA KeyNotList ==
  ASSUME Typed, EventsOwn, NEW f \in flows, step[f] # "select"
  PROVE  event[f].key \notin Lists
<1>1. \A l \in Lists : DOMAIN l = 1..2
  BY DEF Lists
<1>2. DOMAIN event[f].key = 1..3
  BY DEF EventsOwn
<1> QED BY <1>1, <1>2

\* What is in hand of the flows other than f, whose keys are not those of f.
OfOthers(f) == {Record(g) : g \in InProcess \ {f}}

LEMMA HandSplit ==
  ASSUME Typed, EventsOwn, NEW f \in flows
  PROVE  /\ step[f] = "select" => InHand = OfOthers(f)
         /\ step[f] # "select" =>
              /\ InHand = OfOthers(f) \cup {Record(f)}
              /\ Record(f) \in InHand /\ Record(f) \notin OfOthers(f)
<1>1. ASSUME step[f] # "select", NEW g \in InProcess \ {f}
      PROVE  Record(g).key # Record(f).key
  BY <1>1, KeysDiffer DEF InProcess, Record
<1>2. step[f] # "select" => Record(f) \notin OfOthers(f)
  BY <1>1 DEF OfOthers
<1>3. step[f] = "select" => InProcess \ {f} = InProcess
  BY DEF InProcess
<1>4. step[f] # "select" => InProcess = (InProcess \ {f}) \cup {f}
  BY DEF InProcess
<1> QED BY <1>2, <1>3, <1>4 DEF InHand, OfOthers

\* A step of one flow changes what is in hand of that flow.
LEMMA HandMoves ==
  ASSUME NEW f \in flows, UNCHANGED flows,
         \A g \in flows \ {f} : step'[g] = step[g] /\ event'[g] = event[g]
  PROVE  InHand' = IF step'[f] = "select" THEN OfOthers(f)
                   ELSE OfOthers(f) \cup {Record(f)'}
<1>1. InProcess' = IF step'[f] = "select" THEN InProcess \ {f}
                   ELSE (InProcess \ {f}) \cup {f}
  BY DEF InProcess
<1>2. \A g \in InProcess \ {f} : Record(g)' = Record(g)
  BY DEF Record, InProcess
<1>3. InHand' = {Record(g)' : g \in InProcess'}
  BY DEF InHand
<1> QED BY <1>1, <1>2, <1>3 DEF OfOthers

\* What touches neither an event nor a snapshot is no step of the cache.
LEMMA CacheStutters ==
  ASSUME UNCHANGED <<flows, step, event, cache, told>>,
         missed' \ Lists = missed \ Lists
  PROVE  UNCHANGED Redis!cacheVars
<1>1. Lists' = Lists
  BY DEF Lists, Routers, Router
<1>2. MissedKeys' = MissedKeys
  BY <1>1 DEF MissedKeys
<1>3. InHand' = InHand
  BY DEF InHand, InProcess, Record
<1> QED BY <1>2, <1>3 DEF Redis!cacheVars

\* A sentence that is parsed brings an event of a key that nobody has in hand.
LEMMA ReceiveHears ==
  ASSUME Typed, EventsOwn, NEW f \in flows, Receive(f)
  PROVE  [Redis!CacheNext]_(Redis!cacheVars)
<1>1. /\ UNCHANGED <<flows, cache, told, missed>> /\ step[f] = "select"
  BY DEF Receive, stores
<1>2. CASE UNCHANGED <<step, event>>
  BY <1>1, <1>2, CacheStutters
<1>3. CASE /\ event' = [event EXCEPT ![f] = Parse(f, Head(pending[f]))]
           /\ step' = [step EXCEPT ![f] = "aggregate"]
  <2>1. /\ step'[f] = "aggregate" /\ event'[f] = Parse(f, Head(pending[f]))
        /\ \A g \in flows \ {f} : step'[g] = step[g] /\ event'[g] = event[g]
    BY <1>3 DEF Typed, TypeOK
  <2>2. InHand' = InHand \cup {Record(f)'}
    BY <1>1, <2>1, HandSplit, HandMoves
  <2>3. ~Record(f)'.tried /\ Record(f)'.key = CacheKey(f, Head(pending[f]))
    <3>1. Parse(f, Head(pending[f])).key = CacheKey(f, Head(pending[f]))
      BY DEF Parse
    <3>2. Record(f)'.key = event'[f].key /\ ~Record(f)'.tried
      BY <2>1 DEF Record
    <3> QED BY <2>1, <3>1, <3>2
  <2>4. ASSUME NEW h \in InHand PROVE h.key # Record(f)'.key
    <3>1. PICK g \in InProcess : h = Record(g)
      BY DEF InHand
    <3>2. g \in flows /\ g # f /\ h.key = event[g].key
      BY <1>1, <3>1 DEF InProcess, Record
    <3>3. h.key = <<Router(g), Stream(g).measurement, event[g].key[3]>>
      BY <3>1, <3>2 DEF EventsOwn, InProcess
    <3> SUFFICES ASSUME h.key = Record(f)'.key PROVE FALSE
      OBVIOUS
    <3>4. Router(g) = Router(f) /\ Stream(g).measurement = Stream(f).measurement
      BY <2>3, <3>3 DEF CacheKey
    <3> QED BY <3>2, <3>4, OneFlow DEF Typed
  <2>5. MissedKeys' = MissedKeys
    BY <1>1 DEF MissedKeys, Lists, Routers, Router
  <2> HIDE DEF InHand, Record
  <2>6. Redis!Hear
    <3>1. Record(f)' \in InHand'
      BY <2>2
    <3> QED BY <1>1, <2>2, <2>3, <2>4, <2>5, <3>1 DEF Redis!Hear
  <2> QED BY <2>6 DEF Redis!CacheNext
<1> QED BY <1>2, <1>3 DEF Receive

\* Aggregation and the time series are of no concern to the cache.
LEMMA MovesOnUnseen ==
  ASSUME Typed, EventsOwn, NEW f \in flows, Aggregate(f) \/ WritePoint(f)
  PROVE  UNCHANGED Redis!cacheVars
<1>1. /\ UNCHANGED <<flows, event, cache, told, missed>>
      /\ step[f] \in {"aggregate", "write"} /\ step'[f] \in {"write", "cache"}
      /\ \A g \in flows \ {f} : step'[g] = step[g]
  BY DEF Aggregate, WritePoint, stores, Typed, TypeOK
<1>2. Record(f)' = Record(f)
  BY <1>1 DEF Record
<1>3. InHand' = InHand
  BY <1>1, <1>2, HandSplit, HandMoves
<1>4. MissedKeys' = MissedKeys
  BY <1>1 DEF MissedKeys, Lists, Routers, Router
<1> QED BY <1>1, <1>3, <1>4 DEF Redis!cacheVars

\* SetSnapshot and DeleteSnapshot try the event in hand, and no other key.
LEMMA UpdateTries ==
  ASSUME Typed, EventsOwn, NEW f \in flows, UpdateCache(f)
  PROVE  Redis!Try(Record(f)) /\ Record(f) \in InHand
<1> DEFINE e == event[f]
           h == Record(f)
<1>1. /\ UNCHANGED <<flows, told, event>>
      /\ step[f] = "cache" /\ step' = [step EXCEPT ![f] = "publish"]
      /\ \/ /\ cache' = IF e.type = "update" THEN With(cache, e.key, e.name)
                                             ELSE Without(cache, e.key)
            /\ missed' = missed \ {e.key}
         \/ missed' = missed \cup {e.key} /\ cache' = cache
  BY DEF UpdateCache, source, aggregator
<1>2. step'[f] = "publish" /\ \A g \in flows \ {f} : step'[g] = step[g]
  BY <1>1 DEF Typed, TypeOK
<1>3. (e.type = "update" /\ e.name \in Names) \/ e.type = "dead"
  BY <1>1 DEF Typed, TypeOK
<1>4. /\ h.key = e.key /\ ~h.tried
      /\ e.type = "dead" => h.value = None
      /\ e.type = "update" => h.value = e.name /\ h.value # None
      /\ Record(f)' = [key |-> h.key, value |-> h.value, tried |-> TRUE]
  BY <1>1, <1>2, <1>3, TelemetryAssumption DEF Record
<1>5. /\ InHand = OfOthers(f) \cup {h} /\ h \in InHand /\ h \notin OfOthers(f)
      /\ InHand' = OfOthers(f) \cup {Record(f)'}
  BY <1>1, <1>2, HandSplit, HandMoves
<1>6. InHand' = (InHand \ {h}) \cup {[key |-> h.key, value |-> h.value, tried |-> TRUE]}
  BY <1>4, <1>5
<1>7. e.key \notin Lists /\ Lists' = Lists
  BY <1>1, KeyNotList DEF Lists, Routers, Router
<1>8. /\ missed' = missed \ {e.key} => MissedKeys' = MissedKeys \ {e.key}
      /\ missed' = missed \cup {e.key} => MissedKeys' = MissedKeys \cup {e.key}
  BY <1>7 DEF MissedKeys
<1>9. ASSUME cache' = IF e.type = "update" THEN With(cache, e.key, e.name)
                                           ELSE Without(cache, e.key)
      PROVE  Redis!Written(h)
  <2>1. CASE e.type = "update"
    BY <1>4, <1>9, <2>1 DEF With, Redis!Written
  <2>2. CASE e.type = "dead"
    <3>1. cache' = [k \in DOMAIN cache \ {e.key} |-> cache[k]]
      BY <1>9, <2>2 DEF Without
    <3>2. cache' = [k \in DOMAIN cache \ {e.key} |->
                     IF k = e.key THEN h.value ELSE cache[k]]
      BY <3>1
    <3> QED BY <1>4, <2>2, <3>2 DEF Redis!Written
  <2> QED BY <1>3, <2>1, <2>2
<1> HIDE DEF h
<1> QED BY <1>1, <1>4, <1>5, <1>6, <1>8, <1>9 DEF Redis!Try, h

\* publishEvent is the last of an event, heard or not.
LEMMA PublishAnnounces ==
  ASSUME Typed, EventsOwn, NEW f \in flows, Publish(f)
  PROVE  Redis!Announce(Record(f)) /\ Record(f) \in InHand
<1> DEFINE e == event[f]
           said == IF e.type = "dead" THEN None ELSE e.name
<1>1. /\ UNCHANGED <<flows, cache, missed>>
      /\ step[f] = "publish" /\ step' = [step EXCEPT ![f] = "select"]
      /\ event' = [event EXCEPT ![f] = None]
      /\ told' = With(told, e.key, said) \/ told' = Without(told, e.key)
  BY DEF Publish, source, aggregator
<1>2. /\ step'[f] = "select"
      /\ \A g \in flows \ {f} : step'[g] = step[g] /\ event'[g] = event[g]
  BY <1>1 DEF Typed, TypeOK
<1>3. Record(f).key = e.key /\ Record(f).value = said /\ Record(f).tried
  BY <1>1 DEF Record
<1>4. InHand' = InHand \ {Record(f)} /\ Record(f) \in InHand
  BY <1>1, <1>2, HandSplit, HandMoves
<1>5. MissedKeys' = MissedKeys
  BY <1>1 DEF MissedKeys, Lists, Routers, Router
<1>6. \/ told' = [k \in DOMAIN told \cup {Record(f).key} |->
                   IF k = Record(f).key THEN Record(f).value ELSE told[k]]
      \/ told' = [k \in DOMAIN told \ {Record(f).key} |-> told[k]]
  BY <1>1, <1>3 DEF With, Without
<1> QED BY <1>1, <1>3, <1>4, <1>5, <1>6 DEF Redis!Announce

\* Each step of the telemetry use case is a step of the cache, or none.
LEMMA CacheStepped ==
  ASSUME Typed, EventsOwn, [Next]_vars
  PROVE  [Redis!CacheNext]_(Redis!cacheVars)
<1>1. CASE UNCHANGED <<flows, step, event, cache, told, missed>>
  BY <1>1, CacheStutters
<1>2. ASSUME NEW f \in flows, TableChanges(f) \/ TableSent(f)
      PROVE  UNCHANGED <<flows, cache, told, missed, step, event>>
  BY <1>2 DEF TableChanges, TableSent, stores
<1>3. ASSUME NEW r \in Routers, SessionLost(r) \/ SessionStarts(r)
      PROVE  UNCHANGED <<flows, cache, told, missed, step, event>>
  BY <1>3 DEF SessionLost, SessionStarts, stores
<1>4. ASSUME NEW l \in Lists, Calculate(l)
      PROVE  UNCHANGED <<flows, cache, told, missed, step, event>>
  BY <1>4 DEF Calculate, stores
<1>5. ASSUME NEW l \in Lists, CacheInactive(l)
      PROVE  UNCHANGED Redis!cacheVars
  <2>1. /\ UNCHANGED <<flows, cache, told, step, event>>
        /\ missed' \in {missed \ {l}, missed \cup {l}}
    BY <1>5 DEF CacheInactive, Cached
  <2>2. missed' \ Lists = missed \ Lists
    BY <2>1
  <2> QED BY <2>1, <2>2, CacheStutters
<1>6. CASE UNCHANGED vars
  BY <1>1, <1>6 DEF vars, stores
<1>7. ASSUME NEW f \in flows, UpdateCache(f) \/ Publish(f) PROVE Redis!CacheNext
  BY <1>7, UpdateTries, PublishAnnounces DEF Redis!CacheNext
<1> QED BY <1>1, <1>2, <1>3, <1>4, <1>5, <1>6, <1>7, ReceiveHears, MovesOnUnseen DEF Next

\* To the readers of the cache all flows of all routers are one writer for each
\* key, which writes before it announces, whatever fails.
THEOREM CacheImplemented == Spec => ImplementsEntityCache
<1>1. Init => Redis!CacheInit
  BY DEF Init, Redis!CacheInit, InHand, InProcess, MissedKeys
<1> QED BY <1>1, EventsAlways, CacheStepped, PTL DEF Spec, ImplementsEntityCache,
           Redis!CacheSpec

\* AnnouncedIsCached is inductive with these: the keys in hand differ, and what
\* has been written and not yet announced is what the cache says.
CachedFirst ==
  /\ \A h \in InHand : \A g \in InHand : h.key = g.key => h = g
  /\ \A h \in InHand : h.tried /\ h.key \notin MissedKeys =>
       IF h.value = None THEN h.key \notin DOMAIN cache
       ELSE h.key \in DOMAIN cache /\ cache[h.key] = h.value

LEMMA AnnouncedStep ==
  ASSUME CachedFirst, Redis!AnnouncedIsCached, [Redis!CacheNext]_(Redis!cacheVars)
  PROVE  CachedFirst' /\ Redis!AnnouncedIsCached'
<1> USE DEF CachedFirst, Redis!AnnouncedIsCached
<1>1. CASE UNCHANGED Redis!cacheVars
  BY <1>1 DEF Redis!cacheVars
<1>2. CASE Redis!Hear
  BY <1>2 DEF Redis!Hear
<1>3. ASSUME NEW h \in InHand, Redis!Try(h)
      PROVE  CachedFirst' /\ Redis!AnnouncedIsCached'
  <2> DEFINE t == [key |-> h.key, value |-> h.value, tried |-> TRUE]
  <2>1. /\ InHand' = (InHand \ {h}) \cup {t} /\ told' = told
        /\ t.key = h.key /\ t.value = h.value /\ t.tried
    BY <1>3 DEF Redis!Try
  <2>2. \A k : k # h.key =>
          /\ k \in DOMAIN cache' <=> k \in DOMAIN cache
          /\ k \in DOMAIN cache => cache'[k] = cache[k]
          /\ k \in MissedKeys' <=> k \in MissedKeys
    BY <1>3 DEF Redis!Try, Redis!Written
  <2>3. h.key \notin MissedKeys' =>
          IF h.value = None THEN h.key \notin DOMAIN cache'
          ELSE h.key \in DOMAIN cache' /\ cache'[h.key] = h.value
    BY <1>3 DEF Redis!Try, Redis!Written
  <2> HIDE DEF t
  <2>4. \A g \in InHand' : g = t \/ (g \in InHand /\ g.key # h.key)
    BY <2>1
  <2>5. CachedFirst'
    BY <2>1, <2>2, <2>3, <2>4
  <2>6. Redis!AnnouncedIsCached'
    <3> SUFFICES ASSUME NEW k \in DOMAIN told, k \notin MissedKeys'
                 PROVE  \/ \E g \in InHand' : g.key = k /\ g.tried
                        \/ IF told[k] = None THEN k \notin DOMAIN cache'
                           ELSE k \in DOMAIN cache' /\ cache'[k] = told[k]
      BY <2>1
    <3>1. CASE k = h.key
      BY <2>1, <3>1
    <3>2. CASE k # h.key
      <4>1. CASE \E g \in InHand : g.key = k /\ g.tried
        BY <2>1, <3>2, <4>1
      <4>2. CASE ~\E g \in InHand : g.key = k /\ g.tried
        BY <2>2, <3>2, <4>2
      <4> QED BY <4>1, <4>2
    <3> QED BY <3>1, <3>2
  <2> QED BY <2>5, <2>6
<1>4. ASSUME NEW h \in InHand, Redis!Announce(h)
      PROVE  CachedFirst' /\ Redis!AnnouncedIsCached'
  <2>1. /\ InHand' = InHand \ {h} /\ cache' = cache /\ MissedKeys' = MissedKeys
        /\ h.tried
    BY <1>4 DEF Redis!Announce
  <2>2. /\ \A k \in DOMAIN told' : k # h.key => k \in DOMAIN told /\ told'[k] = told[k]
        /\ h.key \in DOMAIN told' => told'[h.key] = h.value
    BY <1>4 DEF Redis!Announce
  <2>3. CachedFirst'
    BY <2>1
  <2>4. Redis!AnnouncedIsCached'
    <3> SUFFICES ASSUME NEW k \in DOMAIN told', k \notin MissedKeys
                 PROVE  \/ \E g \in InHand' : g.key = k /\ g.tried
                        \/ IF told'[k] = None THEN k \notin DOMAIN cache
                           ELSE k \in DOMAIN cache /\ cache[k] = told'[k]
      BY <2>1
    <3>1. CASE k = h.key
      BY <2>1, <2>2, <3>1
    <3>2. CASE k # h.key
      BY <2>1, <2>2, <3>2
    <3> QED BY <3>1, <3>2
  <2> QED BY <2>3, <2>4
<1> QED BY <1>1, <1>2, <1>3, <1>4 DEF Redis!CacheNext

\* Whoever hears an announcement and reads the snapshot finds that event or
\* a later one: so it is of every cache that keeps the promise.
THEOREM CachedBeforeAnnounced == Spec => []Redis!AnnouncedIsCached
<1>1. Redis!CacheInit => CachedFirst /\ Redis!AnnouncedIsCached
  BY DEF Redis!CacheInit, CachedFirst, Redis!AnnouncedIsCached
<1>2. Redis!CacheSpec => []Redis!AnnouncedIsCached
  BY <1>1, AnnouncedStep, PTL DEF Redis!CacheSpec
<1> QED BY <1>2, CacheImplemented, PTL DEF ImplementsEntityCache

-----------------------------------------------------------------------------
(* The lists of inactive users.                                            *)

\* While no two recalculations of a list have overlapped there is at most one
\* at a time, and what it has calculated is still so.
OneAtATime ==
  \A l \in Lists \ overlap :
    /\ started[l] = 0 \/ (started[l] = 1 /\ results[l] = <<>>)
    /\ results[l] = <<>> \/ results[l] = <<Inactive(l)>>

Listed == OneAtATime /\ InactiveListed

LEMMA ListedAggregate ==
  ASSUME Typed, Listed, NEW f \in flows, Aggregate(f)
  PROVE  Listed'
<1> USE DEF Typed, TypeOK
<1>1. UNCHANGED <<flows, missed>>
  BY DEF Aggregate, stores
<1>2. Lists' = Lists
  BY <1>1 DEF Lists, Routers, Router
<1>3. CASE UNCHANGED aggregator
  BY <1>1, <1>2, <1>3 DEF Listed, OneAtATime, InactiveListed, Inactive, aggregator
<1>4. ASSUME NEW l \in Lists, Recalculate(l), UNCHANGED <<results, inactive>>,
             \A m \in Lists \ {l} : totals'[m] = totals[m] /\ actives'[m] = actives[m]
      PROVE  Listed'
  <2>1. /\ started'[l] = started[l] + 1
        /\ \A m \in Lists \ {l} : started'[m] = started[m]
        /\ overlap' = IF started[l] > 0 \/ results[l] # <<>>
                      THEN overlap \cup {l} ELSE overlap
    BY <1>4 DEF Recalculate
  <2>2. \A m \in Lists \ {l} : Inactive(m)' = Inactive(m)
    BY <1>4 DEF Inactive
  <2>3. l \notin overlap' => started'[l] = 1 /\ results[l] = <<>>
    BY <2>1
  <2> QED BY <1>1, <1>2, <1>4, <2>1, <2>2, <2>3 DEF Listed, OneAtATime, InactiveListed
<1>5. \/ UNCHANGED aggregator
      \/ \E l \in Lists :
           /\ Recalculate(l) /\ UNCHANGED <<results, inactive>>
           /\ \A m \in Lists \ {l} : totals'[m] = totals[m] /\ actives'[m] = actives[m]
  <2>1. \/ UNCHANGED aggregator
        \/ \E l \in Lists : TotalsUpdated(f, l)
        \/ \E l \in Lists :
             /\ actives' = [actives EXCEPT ![l] = @ \cup {event[f].name}]
             /\ Recalculate(l)
             /\ UNCHANGED <<totals, results, inactive>>
    BY ListsOf DEF Aggregate, Aggregated, ActivesUpdated
  <2>2. ASSUME NEW l \in Lists, TotalsUpdated(f, l)
        PROVE  /\ Recalculate(l) /\ UNCHANGED <<results, inactive>>
               /\ \A m \in Lists \ {l} : totals'[m] = totals[m] /\ actives'[m] = actives[m]
    BY <2>2 DEF TotalsUpdated
  <2> QED BY <2>1, <2>2
<1> QED BY <1>3, <1>4, <1>5

LEMMA ListedCalculate ==
  ASSUME Typed, Listed, NEW l \in Lists, Calculate(l)
  PROVE  Listed'
<1> USE DEF Typed, TypeOK
<1>1. /\ UNCHANGED <<flows, missed, totals, actives, inactive, overlap>>
      /\ started[l] > 0
      /\ started' = [started EXCEPT ![l] = @ - 1]
      /\ results' = [results EXCEPT ![l] = Append(@, Inactive(l))]
  BY DEF Calculate, stores
<1>2. Lists' = Lists /\ \A m \in Lists : Inactive(m)' = Inactive(m)
  BY <1>1 DEF Lists, Routers, Router, Inactive
<1>3. \A m \in Lists \ {l} : started'[m] = started[m] /\ results'[m] = results[m]
  BY <1>1
<1>4. l \notin overlap => started'[l] = 0 /\ results'[l] = <<Inactive(l)>>
  <2>1. l \notin overlap => started[l] = 1 /\ results[l] = <<>>
    BY <1>1 DEF Listed, OneAtATime
  <2>2. Append(<<>>, Inactive(l)) = <<Inactive(l)>>
    OBVIOUS
  <2>3. started'[l] = started[l] - 1 /\ results'[l] = Append(results[l], Inactive(l))
    BY <1>1
  <2> QED BY <2>1, <2>2, <2>3
<1>5. results'[l] # <<>>
  <2>1. results[l] \in Seq(SUBSET Names) /\ totals[l] \in SUBSET Names
    OBVIOUS
  <2>2. Inactive(l) \in SUBSET Names
    BY <2>1 DEF Inactive
  <2> HIDE DEF Typed, TypeOK
  <2>3. Append(results[l], Inactive(l)) # <<>>
    BY <2>1, <2>2, AppendProperties
  <2>4. results'[l] = Append(results[l], Inactive(l))
    BY <1>1 DEF Typed, TypeOK
  <2> QED BY <2>3, <2>4
<1> HIDE DEF Typed, TypeOK
<1>6. OneAtATime'
  <2> SUFFICES ASSUME NEW m \in Lists, m \notin overlap
               PROVE  /\ started'[m] = 0 \/ (started'[m] = 1 /\ results'[m] = <<>>)
                      /\ results'[m] = <<>> \/ results'[m] = <<Inactive(m)'>>
    BY <1>1, <1>2 DEF OneAtATime
  <2>1. CASE m = l
    <3>1. <<Inactive(l)>> = <<Inactive(l)'>>
      BY <1>2, Zenon
    <3> QED BY <1>4, <2>1, <3>1
  <2>2. CASE m # l
    <3>1. <<Inactive(m)>> = <<Inactive(m)'>>
      BY <1>2, Zenon
    <3> QED BY <1>3, <2>2, <3>1 DEF Listed, OneAtATime
  <2> QED BY <2>1, <2>2
<1>7. InactiveListed'
  BY <1>1, <1>2, <1>3, <1>5 DEF Listed, InactiveListed
<1> QED BY <1>6, <1>7 DEF Listed

LEMMA ListedCache ==
  ASSUME Typed, Listed, NEW l \in Lists, CacheInactive(l)
  PROVE  Listed'
<1> USE DEF Typed, TypeOK
<1>1. PICK k \in DOMAIN results[l] :
        /\ UNCHANGED <<flows, totals, actives, started, overlap>>
        /\ results' = [results EXCEPT ![l] =
             SubSeq(@, 1, k - 1) \o SubSeq(@, k + 1, Len(@))]
        /\ \/ /\ inactive' = [inactive EXCEPT ![l] = results[l][k]]
              /\ missed' = missed \ {l}
           \/ inactive' = inactive /\ missed' = missed \cup {l}
  BY DEF CacheInactive, Cached
<1>2. Lists' = Lists /\ \A m \in Lists : Inactive(m)' = Inactive(m)
  BY <1>1 DEF Lists, Routers, Router, Inactive
<1>3. \A m \in Lists \ {l} :
        /\ results'[m] = results[m] /\ inactive'[m] = inactive[m]
        /\ m \in missed' <=> m \in missed
  BY <1>1
<1>4. ASSUME l \notin overlap
      PROVE  /\ results'[l] = <<>>
             /\ l \in missed' \/ inactive'[l] = Inactive(l)
  <2>1. results[l] = <<Inactive(l)>> /\ k = 1
    BY <1>1, <1>4 DEF Listed, OneAtATime
  <2>2. SubSeq(results[l], 1, 0) = <<>> /\ SubSeq(results[l], 2, Len(results[l])) = <<>>
    BY <2>1, SubSeqEmpty
  <2>3. results'[l] = <<>>
    BY <1>1, <2>1, <2>2
  <2> QED BY <1>1, <2>1, <2>3
<1> HIDE DEF Typed, TypeOK
<1>5. OneAtATime'
  <2> SUFFICES ASSUME NEW m \in Lists, m \notin overlap
               PROVE  /\ started[m] = 0 \/ (started[m] = 1 /\ results'[m] = <<>>)
                      /\ results'[m] = <<>> \/ results'[m] = <<Inactive(m)'>>
    BY <1>1, <1>2 DEF OneAtATime
  <2>1. CASE m = l
    BY <1>4, <2>1 DEF Listed, OneAtATime
  <2>2. CASE m # l
    <3>1. <<Inactive(m)>> = <<Inactive(m)'>>
      BY <1>2, Zenon
    <3> QED BY <1>3, <2>2, <3>1 DEF Listed, OneAtATime
  <2> QED BY <2>1, <2>2
<1>6. InactiveListed'
  BY <1>1, <1>2, <1>3, <1>4 DEF Listed, InactiveListed
<1> QED BY <1>5, <1>6 DEF Listed

\* A step that leaves the lists, and the failures of their writes, alone.
LEMMA ListedMoved ==
  ASSUME Typed, Listed, UNCHANGED <<flows, aggregator>>,
         \A l \in Lists : l \in missed' <=> l \in missed
  PROVE  Listed'
<1>1. Lists' = Lists /\ \A m \in Lists : Inactive(m)' = Inactive(m)
  BY DEF Lists, Routers, Router, Inactive, aggregator
<1> QED BY <1>1 DEF Listed, OneAtATime, InactiveListed, aggregator

LEMMA ListedStep ==
  ASSUME Typed, EventsOwn, Listed, [Next]_vars
  PROVE  Listed'
<1>1. ASSUME NEW f \in flows, UpdateCache(f)
      PROVE  Listed'
  <2>1. event[f].key \notin Lists
    BY <1>1, KeyNotList DEF UpdateCache
  <2>2. /\ UNCHANGED <<flows, aggregator>>
        /\ missed' \in {missed \ {event[f].key}, missed \cup {event[f].key}}
    BY <1>1 DEF UpdateCache
  <2> QED BY <2>1, <2>2, ListedMoved
<1>2. ASSUME NEW f \in flows, TableChanges(f) \/ TableSent(f) \/ Receive(f)
                              \/ WritePoint(f) \/ Publish(f)
      PROVE  UNCHANGED <<flows, aggregator, missed>>
  BY <1>2 DEF TableChanges, TableSent, Receive, WritePoint, Publish, stores
<1>3. ASSUME NEW r \in Routers, SessionLost(r) \/ SessionStarts(r)
      PROVE  UNCHANGED <<flows, aggregator, missed>>
  BY <1>3 DEF SessionLost, SessionStarts, stores
<1>4. CASE UNCHANGED vars
  BY <1>4, ListedMoved DEF vars, stores
<1> QED BY <1>1, <1>2, <1>3, <1>4, ListedMoved, ListedAggregate,
           ListedCalculate, ListedCache DEF Next

\* When its recalculations are done the cached list of inactive users is that
\* of the aggregator's maps, unless two of them overlapped or the last write
\* failed.
THEOREM InactiveIsListed == Spec => []InactiveListed
<1>1. Init => Listed
  BY DEF Init, Listed, OneAtATime, InactiveListed
<1>2. Spec => []Listed
  BY <1>1, EventsAlways, ListedStep, PTL DEF Spec
<1> QED BY <1>2, PTL DEF Listed
=============================================================================
