----------------------------- MODULE Telemetry ------------------------------
(***************************************************************************)
(* The telemetry use case (internal/usecase) between the streams of the    *)
(* routers and the repositories.  A flow is one spec of one router: a      *)
(* goroutine that parses the sentences of its stream one by one and passes *)
(* each event to ProcessEvent.  The flows share the aggregator, whose      *)
(* recalculations run in goroutines of their own, and the Redis cache.     *)
(*                                                                         *)
(* An entity of a router has an ID for life and a name that may change;    *)
(* the name stands for all its attributes, so that a snapshot is current   *)
(* if it has the entity's present name.                                    *)
(***************************************************************************)
EXTENDS SpecCatalog, Naturals, Sequences, FiniteSets

CONSTANTS FlowSets,    \* sets of flows <<router, name of a spec>>
          Ids, Names,  \* of the entities
          None,        \* no entity, no event, no snapshot
          MaxChanges,  \* bound: changes on the routers
          MaxFaults    \* bound: lost sessions and failed repository calls

ASSUME TelemetryAssumption ==
  /\ \A F \in FlowSets : F # {} /\ IsFiniteSet(F)
  /\ \A F \in FlowSets : \A f \in F :
       f = <<f[1], f[2]>> /\ f[2] \in DOMAIN Catalog
  /\ Ids # {} /\ IsFiniteSet(Ids) /\ None \notin Names
  /\ MaxChanges \in Nat /\ MaxFaults \in Nat

VARIABLES
  flows,    \* the flows of this behaviour
  up,       \* flows whose stream is open
  table,    \* what the router's table holds: the name of each entity
  due,      \* flows whose router will send its whole table next
  pending,  \* the sentences on the way to each flow
  step,     \* where ProcessEvent of each flow is
  event,    \* its event
  totals,   \* pppSecrets and hotspotUsers: names per router and category
  actives,  \* pppActives and hotspotActives
  started,  \* recalculations that have not read the maps yet
  results,  \* lists that recalculations have not yet written
  inactive, \* the cached list of inactive users
  cache,    \* the snapshots in Redis, by key
  told,     \* the last event published for each key
  points,   \* routers, with the routers their points are tagged with
  crashed,  \* has the process panicked?
  missed,   \* keys whose last SetSnapshot or DeleteSnapshot failed
  lapsed,   \* flows that have lost a session
  overlap,  \* lists of which two recalculations have run at once
  changes, faults \* counted for the bounds

source == <<up, table, due, lapsed, changes>>
aggregator == <<totals, actives, started, results, inactive, overlap>>
stores == <<cache, told, points, missed>>
vars == <<flows, source, pending, step, event, aggregator, stores, crashed,
          faults>>

Router(f) == f[1]
Stream(f) == Catalog[f[2]]
Routers == {Router(f) : f \in flows}
Lists == Routers \X {"ppp", "hotspot"}

\* A function with one more point, or a changed one; and with one less.
With(g, k, v) == [x \in DOMAIN g \cup {k} |-> IF x = k THEN v ELSE g[x]]
Without(g, k) == [x \in DOMAIN g \ {k} |-> g[x]]

Init ==
  /\ flows \in FlowSets
  /\ up = flows /\ due = flows
  /\ table = [f \in flows |-> [i \in Ids |-> None]]
  /\ pending = [f \in flows |-> <<>>]
  /\ step = [f \in flows |-> "select"]
  /\ event = [f \in flows |-> None]
  /\ totals = [l \in Lists |-> {}] /\ actives = [l \in Lists |-> {}]
  /\ started = [l \in Lists |-> 0] /\ results = [l \in Lists |-> <<>>]
  /\ inactive = [l \in Lists |-> None]
  /\ cache = <<>> /\ told = <<>>
  /\ points = {}
  /\ crashed = FALSE
  /\ missed = {} /\ lapsed = {} /\ overlap = {}
  /\ changes = 0 /\ faults = 0

Fault == faults < MaxFaults /\ faults' = faults + 1

-----------------------------------------------------------------------------
(* The routers and the connections.                                        *)

\* A singleton has one entity; a menu keyed by name, and that of the users,
\* has no two entities of one name.
Singleton(s) == s.key \notin {".id", "name"}
Entities(s) == IF Singleton(s) THEN {CHOOSE i \in Ids : TRUE} ELSE Ids
NamesUnique(s) ==
  s.key = "name" \/ s.measurement \in {"ppp_secret", "hotspot_user"}

Sentence(i, n, dead) == [id |-> i, name |-> n, dead |-> dead]

Change(f, i, n) ==
  /\ changes < MaxChanges
  /\ table[f][i] # n
  /\ NamesUnique(Stream(f)) => \A j \in Ids : table[f][j] # n
  /\ changes' = changes + 1
  /\ table' = [table EXCEPT ![f][i] = n]

Remove(f, i) ==
  /\ changes < MaxChanges
  /\ ~Singleton(Stream(f))
  /\ table[f][i] # None
  /\ changes' = changes + 1
  /\ table' = [table EXCEPT ![f][i] = None]

\* The router tells a follower at once, unless the whole table is due.
TableChanges(f) ==
  /\ \E i \in Entities(Stream(f)) :
       \/ \E n \in Names :
            /\ Change(f, i, n)
            /\ pending' = IF Stream(f).follow /\ f \notin due
                          THEN [pending EXCEPT ![f] = Append(@, Sentence(i, n, FALSE))]
                          ELSE pending
       \/ /\ Remove(f, i)
          /\ pending' = IF Stream(f).follow /\ f \notin due
                        THEN [pending EXCEPT ![f] = Append(@, Sentence(i, table[f][i], TRUE))]
                        ELSE pending
  /\ due' = IF Stream(f).follow THEN due ELSE due \cup {f}
  /\ UNCHANGED <<flows, up, lapsed, step, event, aggregator, stores, crashed,
                 faults>>

\* What a listen command first answers, and a repeated one at each interval.
TableSent(f) ==
  /\ f \in up /\ f \in due
  /\ pending[f] = <<>>
  /\ \E order \in [1..Cardinality({i \in Ids : table[f][i] # None}) ->
                   {i \in Ids : table[f][i] # None}] :
       /\ \A a, b \in DOMAIN order : order[a] = order[b] => a = b
       /\ pending' = [pending EXCEPT ![f] =
            [k \in DOMAIN order |-> Sentence(order[k], table[f][order[k]], FALSE)]]
  /\ due' = due \ {f}
  /\ UNCHANGED <<flows, up, table, lapsed, changes, step, event, aggregator,
                 stores, crashed, faults>>

\* A session ends: each spec still handles what its channel holds, and what
\* the reader had not put there is gone.
SessionLost(r) ==
  /\ Fault
  /\ \E f \in up : Router(f) = r
  /\ LET of == {f \in flows : Router(f) = r}
     IN  /\ up' = up \ of
         /\ due' = due \cup of
         /\ lapsed' = lapsed \cup of
         /\ \E kept \in [of -> 0..MaxChanges] :
              /\ \A f \in of : kept[f] <= Len(pending[f])
              /\ pending' = [f \in flows |->
                   IF f \in of THEN SubSeq(pending[f], 1, kept[f])
                               ELSE pending[f]]
  /\ UNCHANGED <<flows, table, changes, step, event, aggregator, stores,
                 crashed>>

\* The next one begins when every spec of the last has returned.
SessionStarts(r) ==
  LET of == {f \in flows : Router(f) = r}
  IN  /\ of \cap up = {}
      /\ \A f \in of : step[f] = "select" /\ pending[f] = <<>>
      /\ up' = up \cup of
      /\ UNCHANGED <<flows, table, due, lapsed, changes, pending, step, event,
                     aggregator, stores, crashed, faults>>

-----------------------------------------------------------------------------
(* runSpec: one sentence is parsed and its event processed.                *)

Sent(s) == IF s.requested = Everything THEN s.read ELSE s.requested

\* FormatCacheKey: the parts are joined with ":", which occurs neither in a
\* router's ID nor in a measurement, so that equal keys have equal parts.
EntityKey(s, sentence) ==
  IF s.key = ".id" THEN sentence.id
  ELSE IF s.key = "name" THEN sentence.name
  ELSE s.key
CacheKey(f, sentence) ==
  <<Router(f), Stream(f).measurement, EntityKey(Stream(f), sentence)>>

\* Faulty variant: a removal is looked up under the entity's name.
ParseDeadByName(f, sentence) ==
  IF sentence.dead
  THEN [type |-> "dead", name |-> "", blank |-> {},
        key |-> <<Router(f), Stream(f).measurement, sentence.name>>]
  ELSE [type |-> "update", name |-> sentence.name,
        blank |-> Stream(f).read \ Sent(Stream(f)),
        key |-> CacheKey(f, sentence)]

\* A dead event has neither tags nor fields nor cache data.
Parse(f, sentence) ==
  IF sentence.dead
  THEN [type |-> "dead", name |-> "", blank |-> {},
        key |-> CacheKey(f, sentence)]
  ELSE [type |-> "update", name |-> sentence.name,
        blank |-> Stream(f).read \ Sent(Stream(f)),
        key |-> CacheKey(f, sentence)]

\* A sentence without the identifying attribute is skipped.
Skipped(s) == ~Singleton(s) /\ s.key \notin Sent(s)

Receive(f) ==
  /\ step[f] = "select"
  /\ pending[f] # <<>>
  /\ pending' = [pending EXCEPT ![f] = Tail(@)]
  /\ IF Skipped(Stream(f))
     THEN UNCHANGED <<step, event>>
     ELSE /\ event' = [event EXCEPT ![f] = Parse(f, Head(pending[f]))]
          /\ step' = [step EXCEPT ![f] = "aggregate"]
  /\ UNCHANGED <<flows, source, aggregator, stores, crashed, faults>>

-----------------------------------------------------------------------------
(* InactiveAggregator.                                                     *)

\* A new recalculation; two of one list may overlap.
Recalculate(l) ==
  /\ started' = [started EXCEPT ![l] = @ + 1]
  /\ overlap' = IF started[l] > 0 \/ results[l] # <<>>
                THEN overlap \cup {l} ELSE overlap

\* The configured users: a dead event names none, and removes none.
TotalsUpdated(f, l) ==
  /\ totals' = [totals EXCEPT ![l] =
       IF event[f].type = "update" THEN @ \cup {event[f].name}
                                   ELSE @ \ {event[f].name}]
  /\ Recalculate(l)
  /\ UNCHANGED <<actives, results, inactive, crashed>>

\* The sessions: the user is read from the fields, by an unchecked type
\* assertion that panics when they lack it.
ActivesUpdated(f, l, attribute) ==
  IF event[f].type = "update" /\ attribute \in Stream(f).point.fields
  THEN /\ actives' = [actives EXCEPT ![l] = @ \cup {event[f].name}]
       /\ Recalculate(l)
       /\ UNCHANGED <<totals, results, inactive, crashed>>
  ELSE /\ crashed' = TRUE
       /\ UNCHANGED aggregator

Aggregated(f) ==
  LET m == Stream(f).measurement
  IN  CASE m = "ppp_secret" -> TotalsUpdated(f, <<Router(f), "ppp">>)
        [] m = "hotspot_user" -> TotalsUpdated(f, <<Router(f), "hotspot">>)
        [] m = "ppp_active" -> ActivesUpdated(f, <<Router(f), "ppp">>, "name")
        [] m = "hotspot_active" -> ActivesUpdated(f, <<Router(f), "hotspot">>, "user")
        [] OTHER -> UNCHANGED <<aggregator, crashed>>

\* Faulty variant: every event goes to the time series.
AggregateThenWrite(f) ==
  /\ step[f] = "aggregate"
  /\ Aggregated(f)
  /\ step' = [step EXCEPT ![f] = "write"]
  /\ UNCHANGED <<flows, source, pending, event, stores, faults>>

\* Update, under the aggregator's lock.
Aggregate(f) ==
  /\ step[f] = "aggregate"
  /\ Aggregated(f)
  /\ step' = [step EXCEPT ![f] = IF event[f].type = "update" THEN "write"
                                                             ELSE "cache"]
  /\ UNCHANGED <<flows, source, pending, event, stores, faults>>

Inactive(l) == totals[l] \ actives[l]

\* Faulty variant: the recalculation is of all users.
CalculateAll(l) ==
  /\ started[l] > 0
  /\ started' = [started EXCEPT ![l] = @ - 1]
  /\ results' = [results EXCEPT ![l] = Append(@, totals[l] \cup {""})]
  /\ UNCHANGED <<flows, source, pending, step, event, totals, actives,
                 inactive, overlap, stores, crashed, faults>>

\* recalculateAndCache up to the release of the read lock.
Calculate(l) ==
  /\ started[l] > 0
  /\ started' = [started EXCEPT ![l] = @ - 1]
  /\ results' = [results EXCEPT ![l] = Append(@, Inactive(l))]
  /\ UNCHANGED <<flows, source, pending, step, event, totals, actives,
                 inactive, overlap, stores, crashed, faults>>

\* Its SetSnapshot; the results may be written in any order.
Cached(l, ok) ==
  \E k \in DOMAIN results[l] :
    /\ inactive' = IF ok THEN [inactive EXCEPT ![l] = results[l][k]]
                         ELSE inactive
    /\ results' = [results EXCEPT ![l] =
         SubSeq(@, 1, k - 1) \o SubSeq(@, k + 1, Len(@))]
    /\ missed' = IF ok THEN missed \ {l} ELSE missed \cup {l}
    /\ UNCHANGED <<flows, source, pending, step, event, totals, actives,
                   started, overlap, cache, told, points, crashed>>

CacheInactive(l) ==
  \/ Cached(l, TRUE) /\ UNCHANGED faults
  \/ Cached(l, FALSE) /\ Fault

-----------------------------------------------------------------------------
(* handleUpdate and handleDead.                                            *)

\* The router's tag is set first, and the event's tags over it.
RouterTag(f) ==
  IF "router" \in Stream(f).point.tags THEN "other" ELSE Router(f)

\* WritePoint; its failure is only logged.
WritePoint(f) ==
  /\ step[f] = "write"
  /\ \/ /\ points' = points \cup {<<Router(f), RouterTag(f)>>}
        /\ UNCHANGED faults
     \/ Fault /\ UNCHANGED points
  /\ step' = [step EXCEPT ![f] = "cache"]
  /\ UNCHANGED <<flows, source, pending, event, aggregator, cache, told,
                 missed, crashed>>

\* Faulty variant: a dead event is announced, and its snapshot kept.
UpdateCacheOnly(f) ==
  LET e == event[f]
  IN  /\ step[f] = "cache"
      /\ cache' = IF e.type = "update" THEN With(cache, e.key, e.name)
                                       ELSE cache
      /\ step' = [step EXCEPT ![f] = "publish"]
      /\ UNCHANGED <<flows, source, pending, event, aggregator, told, points,
                     missed, crashed, faults>>

\* SetSnapshot or DeleteSnapshot; a failure is only logged.
UpdateCache(f) ==
  LET e == event[f]
  IN  /\ step[f] = "cache"
      /\ \/ /\ cache' = IF e.type = "update" THEN With(cache, e.key, e.name)
                                             ELSE Without(cache, e.key)
            /\ missed' = missed \ {e.key}
            /\ UNCHANGED faults
         \/ Fault /\ missed' = missed \cup {e.key} /\ UNCHANGED cache
      /\ step' = [step EXCEPT ![f] = "publish"]
      /\ UNCHANGED <<flows, source, pending, event, aggregator, told, points,
                     crashed>>

\* publishEvent, which nobody may hear; a failure is only logged.
Publish(f) ==
  LET e == event[f]
  IN  /\ step[f] = "publish"
      /\ \/ told' = With(told, e.key, IF e.type = "dead" THEN None ELSE e.name)
            /\ UNCHANGED faults
         \/ Fault /\ told' = Without(told, e.key)
      /\ step' = [step EXCEPT ![f] = "select"]
      /\ event' = [event EXCEPT ![f] = None]
      /\ UNCHANGED <<flows, source, pending, aggregator, cache, points,
                     missed, crashed>>

-----------------------------------------------------------------------------
Next ==
  /\ ~crashed
  /\ \/ \E f \in flows :
          \/ TableChanges(f) \/ TableSent(f)
          \/ Receive(f) \/ Aggregate(f) \/ WritePoint(f) \/ UpdateCache(f)
          \/ Publish(f)
     \/ \E l \in Lists : Calculate(l) \/ CacheInactive(l)
     \/ \E r \in Routers : SessionLost(r) \/ SessionStarts(r)

Spec == Init /\ [][Next]_vars

TypeOK ==
  /\ up \subseteq flows /\ due \subseteq flows /\ lapsed \subseteq flows
  /\ table \in [flows -> [Ids -> Names \cup {None}]]
  /\ pending \in [flows -> Seq([id : Ids, name : Names, dead : BOOLEAN])]
  /\ step \in [flows -> {"select", "aggregate", "write", "cache", "publish"}]
  /\ DOMAIN event = flows
  /\ \A f \in flows :
       IF step[f] = "select" THEN event[f] = None
       ELSE \/ event[f].type = "update" /\ event[f].name \in Names
            \/ event[f].type = "dead" /\ step[f] # "write"
  /\ totals \in [Lists -> SUBSET Names] /\ actives \in [Lists -> SUBSET Names]
  /\ started \in [Lists -> Nat]
  /\ results \in [Lists -> Seq(SUBSET Names)]
  /\ DOMAIN inactive = Lists
  /\ \A l \in Lists : inactive[l] = None \/ inactive[l] \subseteq Names
  /\ crashed \in BOOLEAN
  /\ changes \in 0..MaxChanges /\ faults \in 0..MaxFaults

Settled(f) ==
  f \in up \ due /\ pending[f] = <<>> /\ step[f] = "select" /\ ~crashed
Live(f) == {i \in Ids : table[f][i] # None}
Key(f, i) == CacheKey(f, Sentence(i, table[f][i], FALSE))
Snapshots(f) ==
  {k \in DOMAIN cache : k[1] = Router(f) /\ k[2] = Stream(f).measurement}

\* Once a stream has delivered all its router said, every entity has a
\* current snapshot, however often the session was lost before, whatever
\* failed with other sentences, and whatever other specs write: only the
\* snapshot whose own last HSET or DEL failed may be wrong.
SnapshotsCurrent ==
  \A f \in flows : Settled(f) =>
    \A i \in Live(f) : Key(f, i) \notin missed =>
      Key(f, i) \in DOMAIN cache /\ cache[Key(f, i)] = table[f][i]

\* As long as no session was lost, a followed menu that knows its entities by
\* ID has snapshots of the live ones only: no removal is overtaken by the
\* update before it, or applied to another key than that update.
RemovedForgotten ==
  \A f \in flows \ lapsed :
    Settled(f) /\ Stream(f).follow /\ Stream(f).key = ".id" =>
      \A k \in Snapshots(f) \ missed : \E i \in Live(f) : k = Key(f, i)

\* The events in ProcessEvent, as a reader of the cache knows them, and the
\* snapshots whose last write failed.
InProcess == {f \in flows : step[f] # "select"}
Record(f) == [key |-> event[f].key,
              value |-> IF event[f].type = "dead" THEN None ELSE event[f].name,
              tried |-> step[f] = "publish"]
InHand == {Record(f) : f \in InProcess}
MissedKeys == missed \ Lists

Redis == INSTANCE EntityCache WITH inHand <- InHand, missed <- MissedKeys

\* The flows of all routers, with the failures of their calls, together are a
\* cache in which each key has one writer, and in which an event is announced
\* after its snapshot has been written (Redis!AnnouncedIsCached follows).
ImplementsEntityCache == Redis!CacheSpec

\* The points of each router carry that router's ID, no spec uses the column
\* that the database reserves for the timestamp, and no event has an attribute
\* empty only because the spec's Command did not ask for what its Parse reads.
EventsWellFormed ==
  /\ \A p \in points : p[1] = p[2]
  /\ \A f \in flows : step[f] = "write" =>
       "time" \notin Stream(f).point.tags \cup Stream(f).point.fields
  /\ \A f \in flows : event[f] # None => event[f].blank = {}

\* When its recalculations are done and no two of them ran at once, the
\* cached list of inactive users is that of the aggregator's maps.
InactiveListed ==
  \A l \in Lists \ (overlap \cup missed) :
    started[l] = 0 /\ results[l] = <<>> /\ inactive[l] # None =>
      inactive[l] = Inactive(l)

-----------------------------------------------------------------------------
\* What comments and docs say and the code does not do.

\* The list of inactive users is of users that the router has.
InactiveUsersExist ==
  \A f \in flows :
    LET l == <<Router(f), "ppp">>
    IN  /\ Settled(f) /\ Stream(f).measurement = "ppp_secret"
        /\ started[l] = 0 /\ results[l] = <<>>
        /\ l \notin missed /\ inactive[l] # None
        => inactive[l] \subseteq {table[f][i] : i \in Live(f)}

\* No event of a spec makes the aggregator panic.
NoPanic == ~crashed
=============================================================================
