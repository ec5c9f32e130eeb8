------------------------ MODULE TelemetryCacheProofs ------------------------
(***************************************************************************)
(* Proofs about the snapshots in Redis, for any flows, entities, changes   *)
(* and failures: what the router said last of an entity is on its way, in  *)
(* the hands of ProcessEvent, or in the cache.                             *)
(***************************************************************************)
EXTENDS TelemetryProofs

\* What a sentence says of its entity, and what an event does.
Value(sentence) == IF sentence.dead THEN None ELSE sentence.name
EventValue(f) == IF event[f].type = "dead" THEN None ELSE event[f].name

\* Sentences p on the way to flow f are about the key x; the last says v.
Mentions(f, p, x) == \E k \in DOMAIN p : CacheKey(f, p[k]) = x
LastSays(f, p, x, v) ==
  \E k \in DOMAIN p :
    /\ CacheKey(f, p[k]) = x /\ Value(p[k]) = v
    /\ \A j \in DOMAIN p : j > k => CacheKey(f, p[j]) # x

\* The event of f about x has not reached the cache.
EventWord(f, x) == step[f] \in {"aggregate", "write", "cache"} /\ event[f].key = x

Stored(x, v) ==
  x \in missed \/ IF v = None THEN x \notin DOMAIN cache
                  ELSE x \in DOMAIN cache /\ cache[x] = v

\* The last that f has heard or will hear of x is v, and v will be cached.
LastWord(f, x, v) ==
  IF Mentions(f, pending[f], x) THEN LastSays(f, pending[f], x, v)
  ELSE IF EventWord(f, x) THEN EventValue(f) = v
  ELSE Stored(x, v)

IdKey(f, i) == <<Router(f), Stream(f).measurement, i>>
OwnKey(f, x) == x = IdKey(f, x[3])

\* The names in a router's table.
RowSound(s, row) ==
  /\ \A i \in Ids \ Entities(s) : row[i] = None
  /\ NamesUnique(s) => \A i, j \in Ids : row[i] # None /\ row[i] = row[j] => i = j

-----------------------------------------------------------------------------
(* Keys and sequences.                                                     *)

LEMMA KeyFacts ==
  \A f, i, n, d :
    /\ CacheKey(f, Sentence(i, n, d)) = CacheKey(f, Sentence(i, n, FALSE))
    /\ OwnKey(f, CacheKey(f, Sentence(i, n, d)))
    /\ Stream(f).key = ".id" => CacheKey(f, Sentence(i, n, d)) = IdKey(f, i)
BY DEF CacheKey, EntityKey, Sentence, OwnKey, IdKey

\* No two entities of a menu share a key.
LEMMA RowKeysDiffer ==
  ASSUME NEW f, NEW row, RowSound(Stream(f), row),
         NEW i \in Ids, NEW j \in Ids, row[i] # None, row[j] # None, i # j
  PROVE  CacheKey(f, Sentence(i, row[i], FALSE)) # CacheKey(f, Sentence(j, row[j], FALSE))
<1> SUFFICES EntityKey(Stream(f), Sentence(i, row[i], FALSE))
               # EntityKey(Stream(f), Sentence(j, row[j], FALSE))
  BY DEF CacheKey
<1>1. CASE Singleton(Stream(f))
  <2>1. i \in Entities(Stream(f)) /\ j \in Entities(Stream(f))
    BY DEF RowSound
  <2> QED BY <1>1, <2>1 DEF Entities
<1>2. CASE Stream(f).key = ".id"
  BY <1>2 DEF EntityKey, Sentence
<1>3. CASE Stream(f).key = "name"
  BY <1>3 DEF EntityKey, Sentence, RowSound, NamesUnique
<1> QED BY <1>1, <1>2, <1>3 DEF Singleton

\* Two flows have no key in common.
LEMMA FlowsApart ==
  ASSUME Typed, NEW f \in flows, NEW g \in flows, f # g,
         NEW x, OwnKey(f, x), NEW y, OwnKey(g, y)
  PROVE  x # y
<1> SUFFICES ASSUME x = y PROVE FALSE
  OBVIOUS
<1>1. Router(f) = Router(g) /\ Stream(f).measurement = Stream(g).measurement
  BY DEF OwnKey, IdKey
<1> QED BY <1>1, OneFlow DEF Typed

LEMMA AppendSays ==
  ASSUME NEW p \in Seq(Sentences), NEW s \in Sentences, NEW f
  PROVE  LET q == Append(p, s)
         IN  /\ Mentions(f, q, CacheKey(f, s))
             /\ LastSays(f, q, CacheKey(f, s), Value(s))
             /\ \A x, v : CacheKey(f, s) # x =>
                  /\ Mentions(f, q, x) <=> Mentions(f, p, x)
                  /\ LastSays(f, p, x, v) => LastSays(f, q, x, v)
<1> DEFINE q == Append(p, s)
<1>1. /\ DOMAIN p = 1..Len(p) /\ Len(p) \in Nat
      /\ DOMAIN q = 1..(Len(p) + 1)
      /\ q[Len(p) + 1] = s
      /\ \A k \in 1..Len(p) : q[k] = p[k]
  BY AppendProperties
<1> HIDE DEF q
<1>2. Mentions(f, q, CacheKey(f, s)) /\ LastSays(f, q, CacheKey(f, s), Value(s))
  <2>1. Len(p) + 1 \in DOMAIN q
    BY <1>1
  <2>2. \A j \in DOMAIN q : ~(j > Len(p) + 1)
    BY <1>1
  <2> QED BY <1>1, <2>1, <2>2 DEF Mentions, LastSays
<1>3. ASSUME NEW x, NEW v, CacheKey(f, s) # x
      PROVE  /\ Mentions(f, q, x) <=> Mentions(f, p, x)
             /\ LastSays(f, p, x, v) => LastSays(f, q, x, v)
  <2>1. \A k \in DOMAIN q : CacheKey(f, q[k]) = x => k \in DOMAIN p /\ q[k] = p[k]
    BY <1>1, <1>3
  <2>2. \A k \in DOMAIN p : k \in DOMAIN q /\ q[k] = p[k]
    BY <1>1
  <2> QED BY <2>1, <2>2 DEF Mentions, LastSays
<1> QED BY <1>2, <1>3 DEF q

LEMMA TailSays ==
  ASSUME NEW p \in Seq(Sentences), p # <<>>, NEW f, NEW x, NEW v
  PROVE  /\ Mentions(f, Tail(p), x) => Mentions(f, p, x)
         /\ Mentions(f, Tail(p), x) /\ LastSays(f, p, x, v) => LastSays(f, Tail(p), x, v)
         /\ ~Mentions(f, Tail(p), x) =>
              /\ Mentions(f, p, x) <=> CacheKey(f, Head(p)) = x
              /\ LastSays(f, p, x, v) => Value(Head(p)) = v
<1> DEFINE q == Tail(p)
<1>1. /\ DOMAIN p = 1..Len(p) /\ Len(p) \in Nat \ {0}
      /\ DOMAIN q = 1..(Len(p) - 1)
      /\ \A k \in 1..(Len(p) - 1) : q[k] = p[k + 1]
      /\ Head(p) = p[1]
  BY HeadTailProperties, EmptySeq
<1> HIDE DEF q
<1>2. \A k \in DOMAIN q : k + 1 \in DOMAIN p /\ q[k] = p[k + 1]
  BY <1>1
<1>3. \A k \in DOMAIN p : k = 1 \/ (k - 1 \in DOMAIN q /\ q[k - 1] = p[k])
  BY <1>1
<1>4. Mentions(f, q, x) => Mentions(f, p, x)
  BY <1>2 DEF Mentions
<1>5. ASSUME Mentions(f, q, x), LastSays(f, p, x, v)
      PROVE  LastSays(f, q, x, v)
  <2>1. PICK k \in DOMAIN p :
          /\ CacheKey(f, p[k]) = x /\ Value(p[k]) = v
          /\ \A j \in DOMAIN p : j > k => CacheKey(f, p[j]) # x
    BY <1>5 DEF LastSays
  <2>2. PICK m \in DOMAIN q : CacheKey(f, q[m]) = x
    BY <1>5 DEF Mentions
  <2>3. k # 1
    BY <1>1, <1>2, <2>1, <2>2
  <2>4. k - 1 \in DOMAIN q /\ q[k - 1] = p[k]
    BY <1>3, <2>3
  <2>5. \A j \in DOMAIN q : j > k - 1 => CacheKey(f, q[j]) # x
    BY <1>1, <1>2, <2>1
  <2> QED BY <2>1, <2>4, <2>5 DEF LastSays
<1>6. ASSUME ~Mentions(f, q, x)
      PROVE  /\ Mentions(f, p, x) <=> CacheKey(f, Head(p)) = x
             /\ LastSays(f, p, x, v) => Value(Head(p)) = v
  <2>1. \A k \in DOMAIN p : CacheKey(f, p[k]) = x => k = 1
    BY <1>3, <1>6 DEF Mentions
  <2>2. 1 \in DOMAIN p
    BY <1>1
  <2> QED BY <1>1, <2>1, <2>2 DEF Mentions, LastSays
<1> QED BY <1>4, <1>5, <1>6 DEF q

-----------------------------------------------------------------------------
(* What a step does to a flow.                                             *)

LEMMA EventKeys ==
  Typed /\ EventsOwn => \A f \in flows : step[f] # "select" => OwnKey(f, event[f].key)
BY DEF EventsOwn, OwnKey, IdKey

LEMMA FlowsSame == [Next]_vars => flows' = flows
BY DEF Next, TableChanges, TableSent, Receive, Aggregate, WritePoint, UpdateCache,
       Publish, Calculate, CacheInactive, Cached, SessionLost, SessionStarts, vars

\* A step that is not of f's table or session leaves f's queue alone or takes
\* its head.
LEMMA StepOf ==
  ASSUME Typed, [Next]_vars, NEW f \in flows
  PROVE  \/ TableChanges(f) \/ TableSent(f) \/ SessionLost(Router(f))
         \/ /\ table'[f] = table[f]
            /\ f \in due' <=> f \in due
            /\ f \in lapsed' <=> f \in lapsed
            /\ pending'[f] = pending[f] \/ Receive(f)
<1> USE DEF Typed, TypeOK
<1>1. ASSUME NEW g \in flows, g # f, TableChanges(g)
      PROVE  /\ table'[f] = table[f] /\ pending'[f] = pending[f] /\ lapsed' = lapsed
             /\ f \in due' <=> f \in due
  BY <1>1 DEF TableChanges, Change, Remove
<1>2. ASSUME NEW g \in flows, g # f, TableSent(g)
      PROVE  /\ table' = table /\ pending'[f] = pending[f] /\ lapsed' = lapsed
             /\ f \in due' <=> f \in due
  BY <1>2 DEF TableSent
<1>3. ASSUME NEW r \in Routers, r # Router(f), SessionLost(r)
      PROVE  /\ table' = table /\ pending'[f] = pending[f]
             /\ f \in due' <=> f \in due
             /\ f \in lapsed' <=> f \in lapsed
  <2>1. PICK kept \in [{g \in flows : Router(g) = r} -> 0..MaxChanges] :
          pending' = [g \in flows |->
            IF g \in {h \in flows : Router(h) = r} THEN SubSeq(pending[g], 1, kept[g])
                                                   ELSE pending[g]]
    BY <1>3 DEF SessionLost
  <2>2. pending'[f] = pending[f]
    BY <1>3, <2>1
  <2> QED BY <1>3, <2>2 DEF SessionLost
<1>4. ASSUME NEW r \in Routers, SessionStarts(r)
      PROVE  UNCHANGED <<table, due, lapsed, pending>>
  BY <1>4 DEF SessionStarts
<1>5. ASSUME NEW g \in flows, Receive(g), g # f
      PROVE  UNCHANGED <<table, due, lapsed>> /\ pending'[f] = pending[f]
  BY <1>5 DEF Receive, source
<1>6. ASSUME NEW g \in flows, Receive(g)
      PROVE  UNCHANGED <<table, due, lapsed>>
  BY <1>6 DEF Receive, source
<1>7. ASSUME NEW g \in flows,
             Aggregate(g) \/ WritePoint(g) \/ UpdateCache(g) \/ Publish(g)
      PROVE  UNCHANGED <<table, due, lapsed, pending>>
  BY <1>7 DEF Aggregate, WritePoint, UpdateCache, Publish, source
<1>8. ASSUME NEW l \in Lists, Calculate(l) \/ CacheInactive(l)
      PROVE  UNCHANGED <<table, due, lapsed, pending>>
  BY <1>8 DEF Calculate, CacheInactive, Cached, source
<1>9. CASE UNCHANGED vars
  BY <1>9 DEF vars, source
<1> HIDE DEF Typed, TypeOK
<1> QED BY <1>1, <1>2, <1>3, <1>4, <1>5, <1>6, <1>7, <1>8, <1>9 DEF Next

\* Only f's own steps move its event.
LEMMA EventMoves ==
  ASSUME Typed, [Next]_vars, NEW f \in flows
  PROVE  \/ Receive(f) \/ UpdateCache(f) \/ Publish(f)
         \/ /\ event'[f] = event[f]
            /\ step'[f] \in {"aggregate", "write", "cache"}
                 <=> step[f] \in {"aggregate", "write", "cache"}
            /\ step'[f] = "select" <=> step[f] = "select"
<1> USE DEF Typed, TypeOK
<1>1. ASSUME NEW g \in flows, g # f,
             Receive(g) \/ Aggregate(g) \/ WritePoint(g) \/ UpdateCache(g) \/ Publish(g)
      PROVE  event'[f] = event[f] /\ step'[f] = step[f]
  BY <1>1 DEF Receive, Aggregate, WritePoint, UpdateCache, Publish
<1>2. CASE Aggregate(f) \/ WritePoint(f)
  BY <1>2 DEF Aggregate, WritePoint
<1>3. ASSUME NEW g \in flows, TableChanges(g) \/ TableSent(g)
      PROVE  UNCHANGED <<step, event>>
  BY <1>3 DEF TableChanges, TableSent
<1>4. ASSUME NEW r \in Routers, SessionLost(r) \/ SessionStarts(r)
      PROVE  UNCHANGED <<step, event>>
  BY <1>4 DEF SessionLost, SessionStarts
<1>5. ASSUME NEW l \in Lists, Calculate(l) \/ CacheInactive(l)
      PROVE  UNCHANGED <<step, event>>
  BY <1>5 DEF Calculate, CacheInactive, Cached
<1>6. CASE UNCHANGED vars
  BY <1>6 DEF vars
<1> HIDE DEF Typed, TypeOK
<1> QED BY <1>1, <1>2, <1>3, <1>4, <1>5, <1>6 DEF Next

\* Only f's own UpdateCache touches the snapshots of f.
LEMMA StoredMoves ==
  ASSUME Typed, EventsOwn, [Next]_vars, NEW f \in flows, ~UpdateCache(f),
         NEW x, OwnKey(f, x)
  PROVE  /\ x \in missed' <=> x \in missed
         /\ x \in DOMAIN cache' <=> x \in DOMAIN cache
         /\ x \in DOMAIN cache => cache'[x] = cache[x]
<1>1. ASSUME NEW g \in flows, g # f, UpdateCache(g)
      PROVE  /\ x \in missed' <=> x \in missed
             /\ x \in DOMAIN cache' <=> x \in DOMAIN cache
             /\ x \in DOMAIN cache => cache'[x] = cache[x]
  <2>1. OwnKey(g, event[g].key)
    BY <1>1, EventKeys DEF UpdateCache
  <2>2. event[g].key # x
    BY <1>1, <2>1, FlowsApart
  <2> QED BY <1>1, <2>2 DEF UpdateCache, With, Without
<1>2. ASSUME NEW l \in Lists, CacheInactive(l)
      PROVE  cache' = cache /\ (x \in missed' <=> x \in missed)
  <2>1. DOMAIN l = 1..2 /\ DOMAIN x = 1..3
    BY DEF Lists, OwnKey, IdKey
  <2>2. x # l
    BY <2>1
  <2> QED BY <1>2, <2>2 DEF CacheInactive, Cached
<1>3. ASSUME NEW g \in flows,
             TableChanges(g) \/ TableSent(g) \/ Receive(g) \/ Aggregate(g)
               \/ WritePoint(g) \/ Publish(g)
      PROVE  UNCHANGED <<cache, missed>>
  BY <1>3 DEF TableChanges, TableSent, Receive, Aggregate, WritePoint, Publish, stores
<1>4. ASSUME NEW r \in Routers, SessionLost(r) \/ SessionStarts(r)
      PROVE  UNCHANGED <<cache, missed>>
  BY <1>4 DEF SessionLost, SessionStarts, stores
<1>5. ASSUME NEW l \in Lists, Calculate(l)
      PROVE  UNCHANGED <<cache, missed>>
  BY <1>5 DEF Calculate, stores
<1>6. CASE UNCHANGED vars
  BY <1>6 DEF vars, stores
<1> QED BY <1>1, <1>2, <1>3, <1>4, <1>5, <1>6 DEF Next

\* No spec skips a sentence: each asks for the attribute that it needs.
LEMMA NothingSkipped ==
  ASSUME Typed, NEW f \in flows
  PROVE  ~Skipped(Stream(f))
<1>1. WellFormed(Stream(f))
  BY StreamSound DEF Typed
<1> QED BY <1>1 DEF Skipped, Singleton, Sent, WellFormed

LEMMA ReceiveFacts ==
  ASSUME Typed, NEW f \in flows, Receive(f)
  PROVE  /\ pending[f] \in Seq(Sentences) /\ pending[f] # <<>>
         /\ Head(pending[f]) \in Sentences
         /\ pending'[f] = Tail(pending[f])
         /\ step[f] = "select" /\ step'[f] = "aggregate"
         /\ event'[f] = Parse(f, Head(pending[f]))
<1>1. pending \in [flows -> Seq(Sentences)] /\ pending[f] # <<>>
  BY DEF Receive, Typed, TypeOK, Sentences
<1>2. Head(pending[f]) \in Sentences
  BY <1>1, HeadTailProperties
<1> QED BY <1>1, <1>2, NothingSkipped DEF Receive, Typed, TypeOK

-----------------------------------------------------------------------------
(* The last word on a key.                                                 *)

LEMMA WordReceived ==
  ASSUME Typed, EventsOwn, NEW f \in flows, NEW x, OwnKey(f, x), NEW v,
         LastWord(f, x, v), Receive(f), [Next]_vars
  PROVE  LastWord(f, x, v)'
<1>0. /\ pending[f] \in Seq(Sentences) /\ pending[f] # <<>>
      /\ Head(pending[f]) \in Sentences
      /\ pending'[f] = Tail(pending[f])
      /\ step[f] = "select" /\ step'[f] = "aggregate"
      /\ event'[f] = Parse(f, Head(pending[f]))
  BY ReceiveFacts
<1> DEFINE p == pending[f]  h == Head(p)
<1>1. /\ EventWord(f, x)' <=> CacheKey(f, h) = x
      /\ EventValue(f)' = Value(h)
      /\ ~EventWord(f, x)
  <2> DEFINE e == Parse(f, h)
  <2>1. /\ e.key = CacheKey(f, h)
        /\ (IF e.type = "dead" THEN None ELSE e.name) = Value(h)
    BY DEF Parse, Value
  <2> HIDE DEF e
  <2>2. step'[f] = "aggregate" /\ event'[f] = e /\ step[f] = "select"
    BY <1>0 DEF e
  <2> QED BY <2>1, <2>2 DEF EventWord, EventValue
<1>2. Stored(x, v) => Stored(x, v)'
  BY <1>0, StoredMoves DEF Stored, UpdateCache
<1>3. CASE Mentions(f, Tail(p), x)
  <2>1. Mentions(f, p, x) /\ LastSays(f, p, x, v)
    BY <1>0, <1>3, TailSays DEF LastWord
  <2>2. LastSays(f, Tail(p), x, v)
    BY <1>0, <1>3, <2>1, TailSays
  <2> QED BY <1>0, <1>3, <2>2 DEF LastWord, Mentions, LastSays
<1>4. CASE ~Mentions(f, Tail(p), x) /\ CacheKey(f, h) = x
  <2>1. LastSays(f, p, x, v)
    BY <1>0, <1>4, TailSays DEF LastWord
  <2>2. Value(h) = v
    BY <1>0, <1>4, <2>1, TailSays
  <2> QED BY <1>0, <1>1, <1>4, <2>2 DEF LastWord, Mentions
<1>5. CASE ~Mentions(f, Tail(p), x) /\ CacheKey(f, h) # x
  <2>1. ~Mentions(f, p, x)
    BY <1>0, <1>5, TailSays
  <2> QED BY <1>0, <1>1, <1>2, <1>5, <2>1 DEF LastWord, Mentions
<1> QED BY <1>3, <1>4, <1>5

LEMMA WordCached ==
  ASSUME Typed, EventsOwn, NEW f \in flows, NEW x, NEW v,
         LastWord(f, x, v), UpdateCache(f)
  PROVE  LastWord(f, x, v)'
<1>1. /\ pending' = pending /\ step[f] = "cache" /\ step'[f] = "publish"
      /\ event' = event
  BY DEF UpdateCache, Typed, TypeOK
<1>2. ~EventWord(f, x)'
  BY <1>1 DEF EventWord
<1>3. event[f].type \in {"update", "dead"}
  BY <1>1 DEF Typed, TypeOK
<1>4. event[f].type = "update" => event[f].name # None
  BY <1>1, TelemetryAssumption DEF Typed, TypeOK
<1>5. event[f].key = x /\ EventValue(f) = v => Stored(x, v)'
  BY <1>1, <1>3, <1>4 DEF UpdateCache, Stored, EventValue, With, Without
<1>6. event[f].key # x /\ Stored(x, v) => Stored(x, v)'
  BY DEF UpdateCache, Stored, With, Without
<1>7. EventWord(f, x) <=> event[f].key = x
  BY <1>1 DEF EventWord
<1>8. /\ Mentions(f, pending[f], x)' <=> Mentions(f, pending[f], x)
      /\ LastSays(f, pending[f], x, v)' <=> LastSays(f, pending[f], x, v)
  BY <1>1 DEF Mentions, LastSays
<1> QED BY <1>2, <1>5, <1>6, <1>7, <1>8 DEF LastWord

\* Whatever happens, as long as nothing comes to f's queue or is lost from it,
\* the last word on a key remains.
LEMMA WordKept ==
  ASSUME Typed, EventsOwn, [Next]_vars,
         NEW f \in flows, NEW x, OwnKey(f, x), NEW v, LastWord(f, x, v),
         pending'[f] = pending[f] \/ Receive(f)
  PROVE  LastWord(f, x, v)'
<1>1. CASE Receive(f)
  BY <1>1, WordReceived
<1>2. CASE UpdateCache(f)
  BY <1>2, WordCached
<1>3. CASE ~Receive(f) /\ ~UpdateCache(f)
  <2>1. pending'[f] = pending[f]
    BY <1>3
  <2>2. Stored(x, v) => Stored(x, v)'
    BY <1>3, StoredMoves DEF Stored
  <2>3. /\ EventWord(f, x)' <=> EventWord(f, x)
        /\ EventWord(f, x) => EventValue(f)' = EventValue(f)
    <3>1. CASE Publish(f)
      <4>1. step[f] = "publish" /\ step'[f] = "select"
        BY <3>1 DEF Publish, Typed, TypeOK
      <4> QED BY <4>1 DEF EventWord
    <3>2. CASE ~Publish(f)
      BY <1>3, <3>2, EventMoves DEF EventWord, EventValue
    <3> QED BY <3>1, <3>2
  <2> QED BY <2>1, <2>2, <2>3 DEF LastWord
<1> QED BY <1>1, <1>2, <1>3

-----------------------------------------------------------------------------
(* The invariant.                                                          *)

TablesSound == \A f \in flows : RowSound(Stream(f), table[f])

\* The snapshots of a menu keyed by ID are those of IDs.
IdsOnly ==
  \A f \in flows : Stream(f).key = ".id" =>
    /\ step[f] # "select" => event[f].key[3] \in Ids
    /\ \A k \in Snapshots(f) : \E i \in Ids : k = IdKey(f, i)

\* Of a followed menu nothing is known before its table has been sent.
NothingYet ==
  \A f \in due \ lapsed : Stream(f).follow =>
    pending[f] = <<>> /\ step[f] = "select" /\ Snapshots(f) = {}

\* The last word on an entity is what the router has, unless its table is due;
\* and that an entity is gone, if the router has said so to a session.
LiveSaid ==
  \A f \in flows \ due : \A i \in Live(f) : \A x, v :
    x = Key(f, i) /\ v = table[f][i] => LastWord(f, x, v)
GoneSaid ==
  \A f \in flows \ (due \cup lapsed) : Stream(f).follow /\ Stream(f).key = ".id" =>
    \A i \in Ids \ Live(f) : LastWord(f, IdKey(f, i), None)

CacheInv == TablesSound /\ IdsOnly /\ NothingYet /\ LiveSaid /\ GoneSaid

LEMMA CacheInit == Init => CacheInv
<1> SUFFICES ASSUME Init PROVE CacheInv
  OBVIOUS
<1>1. \A f \in flows : /\ table[f] = [i \in Ids |-> None] /\ f \in due
                       /\ step[f] = "select" /\ pending[f] = <<>>
  BY DEF Init
<1>2. cache = <<>> /\ \A f \in flows : Snapshots(f) = {}
  BY DEF Init, Snapshots
<1> QED BY <1>1, <1>2 DEF CacheInv, TablesSound, RowSound, IdsOnly, NothingYet,
           LiveSaid, GoneSaid, Init

\* What the router's table becomes.
LEMMA TableMoves ==
  ASSUME Typed, NEW f \in flows, TableChanges(f)
  PROVE  \E i \in Entities(Stream(f)), n \in Names \cup {None} :
           /\ i \in Ids
           /\ table'[f] = [table[f] EXCEPT ![i] = n]
           /\ n # None /\ NamesUnique(Stream(f)) => \A j \in Ids : table[f][j] # n
           /\ n = None => table[f][i] \in Names
           /\ \/ pending'[f] = pending[f] /\ (f \in due \/ ~Stream(f).follow)
              \/ /\ Stream(f).follow /\ f \notin due
                 /\ n # None
                 /\ pending'[f] = Append(pending[f], Sentence(i, n, FALSE))
              \/ /\ Stream(f).follow /\ f \notin due
                 /\ n = None
                 /\ pending'[f] = Append(pending[f], Sentence(i, table[f][i], TRUE))
<1> USE DEF Typed, TypeOK
<1>1. PICK i \in Entities(Stream(f)) :
       \/ \E n \in Names :
            /\ Change(f, i, n)
            /\ pending' = IF Stream(f).follow /\ f \notin due
                          THEN [pending EXCEPT ![f] = Append(@, Sentence(i, n, FALSE))]
                          ELSE pending
       \/ /\ Remove(f, i)
          /\ pending' = IF Stream(f).follow /\ f \notin due
                        THEN [pending EXCEPT ![f] = Append(@, Sentence(i, table[f][i], TRUE))]
                        ELSE pending
  BY DEF TableChanges
<1>2. i \in Ids
  BY TelemetryAssumption DEF Entities
<1>3. \A n : [table EXCEPT ![f][i] = n][f] = [table[f] EXCEPT ![i] = n]
  OBVIOUS
<1>4. ASSUME NEW n \in Names, Change(f, i, n),
             pending' = IF Stream(f).follow /\ f \notin due
                        THEN [pending EXCEPT ![f] = Append(@, Sentence(i, n, FALSE))]
                        ELSE pending
      PROVE  /\ table'[f] = [table[f] EXCEPT ![i] = n]
             /\ n # None
             /\ NamesUnique(Stream(f)) => \A j \in Ids : table[f][j] # n
             /\ \/ pending'[f] = pending[f] /\ (f \in due \/ ~Stream(f).follow)
                \/ /\ Stream(f).follow /\ f \notin due
                   /\ pending'[f] = Append(pending[f], Sentence(i, n, FALSE))
  <2> HIDE DEF Typed
  <2>1. DOMAIN pending = flows
    BY DEF Typed
  <2> QED BY <1>3, <1>4, <2>1, TelemetryAssumption DEF Change
<1>5. ASSUME Remove(f, i),
             pending' = IF Stream(f).follow /\ f \notin due
                        THEN [pending EXCEPT ![f] = Append(@, Sentence(i, table[f][i], TRUE))]
                        ELSE pending
      PROVE  /\ table'[f] = [table[f] EXCEPT ![i] = None]
             /\ table[f][i] \in Names
             /\ \/ pending'[f] = pending[f] /\ (f \in due \/ ~Stream(f).follow)
                \/ /\ Stream(f).follow /\ f \notin due
                   /\ pending'[f] = Append(pending[f], Sentence(i, table[f][i], TRUE))
  <2>1. DOMAIN pending = flows /\ table[f][i] \in Names
    BY <1>2, <1>5 DEF Remove
  <2> HIDE DEF Typed
  <2> QED BY <1>3, <1>5, <2>1 DEF Remove
<1> HIDE DEF Typed, TypeOK
<1> QED BY <1>1, <1>2, <1>4, <1>5

LEMMA TablesStep ==
  ASSUME Typed, TablesSound, [Next]_vars
  PROVE  TablesSound'
<1>1. flows' = flows
  BY FlowsSame
<1> SUFFICES ASSUME NEW f \in flows PROVE RowSound(Stream(f), table'[f])
  BY <1>1 DEF TablesSound, RowSound, Stream
<1>2. CASE TableChanges(f)
  <2>1. PICK i \in Entities(Stream(f)), n \in Names \cup {None} :
          /\ i \in Ids
          /\ table'[f] = [table[f] EXCEPT ![i] = n]
          /\ n # None /\ NamesUnique(Stream(f)) => \A j \in Ids : table[f][j] # n
    BY <1>2, TableMoves
  <2>2. table[f] \in [Ids -> Names \cup {None}]
    BY DEF Typed, TypeOK
  <2> QED BY <2>1, <2>2 DEF TablesSound, RowSound
<1>3. CASE table'[f] = table[f]
  BY <1>3 DEF TablesSound, RowSound
<1> QED BY <1>2, <1>3, StepOf DEF TableSent, SessionLost

\* A snapshot comes from the flow whose key it has.
LEMMA SnapshotFrom ==
  ASSUME Typed, EventsOwn, [Next]_vars, NEW f \in flows,
         NEW k \in Snapshots(f)', k \notin Snapshots(f)
  PROVE  UpdateCache(f) /\ event[f].key = k
<1>1. /\ k \in DOMAIN cache' /\ k \notin DOMAIN cache
      /\ k[1] = Router(f) /\ k[2] = Stream(f).measurement
  BY DEF Snapshots, Router, Stream
<1>2. PICK g \in flows : UpdateCache(g) /\ event[g].key = k
  <2>1. ASSUME NEW g \in flows, UpdateCache(g)
        PROVE  event[g].key = k
    BY <1>1, <2>1 DEF UpdateCache, With, Without
  <2>2. \/ \E g \in flows : UpdateCache(g)
        \/ cache' = cache
    BY DEF Next, TableChanges, TableSent, Receive, Aggregate, WritePoint, Publish,
           Calculate, CacheInactive, Cached, SessionLost, SessionStarts, stores, vars
  <2> QED BY <1>1, <2>1, <2>2
<1>3. OwnKey(g, k)
  BY <1>2, EventKeys DEF UpdateCache
<1>4. OwnKey(f, k)
  BY <1>1, <1>3 DEF OwnKey, IdKey
<1>5. f = g
  BY <1>3, <1>4, FlowsApart
<1> QED BY <1>2, <1>5

LEMMA IdsStep ==
  ASSUME Typed, EventsOwn, IdsOnly, [Next]_vars
  PROVE  IdsOnly'
<1>1. flows' = flows
  BY FlowsSame
<1> SUFFICES ASSUME NEW f \in flows, Stream(f).key = ".id"
             PROVE  /\ step'[f] # "select" => event'[f].key[3] \in Ids
                    /\ \A k \in Snapshots(f)' : \E i \in Ids : k = IdKey(f, i)
  BY <1>1 DEF IdsOnly, IdKey, Router, Stream
<1>2. step'[f] # "select" => event'[f].key[3] \in Ids
  <2>1. CASE Receive(f)
    <3>1. event'[f] = Parse(f, Head(pending[f])) /\ Head(pending[f]) \in Sentences
      BY <2>1, ReceiveFacts
    <3>2. \A h : Parse(f, h).key = IdKey(f, h.id)
      BY DEF Parse, CacheKey, EntityKey, IdKey
    <3> QED BY <3>1, <3>2 DEF IdKey, Sentences
  <2>2. CASE UpdateCache(f)
    BY <2>2 DEF UpdateCache, IdsOnly
  <2>3. CASE Publish(f)
    BY <2>3 DEF Publish, Typed, TypeOK
  <2> QED BY <2>1, <2>2, <2>3, EventMoves DEF IdsOnly
<1>3. ASSUME NEW k \in Snapshots(f)'
      PROVE  \E i \in Ids : k = IdKey(f, i)
  <2>1. CASE k \in Snapshots(f)
    BY <2>1 DEF IdsOnly
  <2>2. CASE k \notin Snapshots(f)
    <3>1. step[f] # "select" /\ event[f].key = k
      BY <2>2, SnapshotFrom DEF UpdateCache
    <3> QED BY <3>1, EventKeys DEF IdsOnly, OwnKey
  <2> QED BY <2>1, <2>2
<1> QED BY <1>2, <1>3

LEMMA NothingYetStep ==
  ASSUME Typed, EventsOwn, NothingYet, [Next]_vars
  PROVE  NothingYet'
<1>1. flows' = flows /\ due' \subseteq flows
  BY FlowsSame, TypedStep DEF Typed, TypeOK
<1> SUFFICES ASSUME NEW f \in flows, f \in due', f \notin lapsed', Stream(f).follow
             PROVE  /\ pending'[f] = <<>> /\ step'[f] = "select"
                    /\ \A k \in Snapshots(f)' : FALSE
  BY <1>1 DEF NothingYet, Stream
<1>2. /\ f \in due /\ f \notin lapsed
      /\ pending'[f] = pending[f] \/ Receive(f)
  <2>1. CASE TableChanges(f)
    <3>1. f \in due /\ f \notin lapsed
      BY <2>1 DEF TableChanges
    <3> QED BY <2>1, <3>1, TableMoves
  <2>2. ~TableSent(f) /\ ~SessionLost(Router(f))
    BY DEF TableSent, SessionLost
  <2> QED BY <2>1, <2>2, StepOf
<1>3. pending[f] = <<>> /\ step[f] = "select" /\ Snapshots(f) = {}
  BY <1>2 DEF NothingYet
<1>4. ~Receive(f) /\ ~UpdateCache(f) /\ ~Publish(f)
  BY <1>3 DEF Receive, UpdateCache, Publish
<1> QED BY <1>2, <1>3, <1>4, EventMoves, SnapshotFrom

-----------------------------------------------------------------------------
(* The last word is the router's.                                          *)

\* A sentence that comes to the queue changes the last word on its key only.
LEMMA WordAppended ==
  ASSUME Typed, NEW f \in flows, TableChanges(f), NEW s \in Sentences,
         pending'[f] = Append(pending[f], s)
  PROVE  \A x, v : IF x = CacheKey(f, s)
                   THEN v = Value(s) => LastWord(f, x, v)'
                   ELSE LastWord(f, x, v) => LastWord(f, x, v)'
<1>1. pending[f] \in Seq(Sentences)
  BY DEF Typed, TypeOK, Sentences
<1>2. UNCHANGED <<step, event, cache, missed>>
  BY DEF TableChanges, stores
<1> SUFFICES ASSUME NEW x, NEW v
             PROVE  IF x = CacheKey(f, s)
                    THEN v = Value(s) => LastWord(f, x, v)'
                    ELSE LastWord(f, x, v) => LastWord(f, x, v)'
  OBVIOUS
<1>3. /\ EventWord(f, x)' <=> EventWord(f, x)
      /\ EventValue(f)' = EventValue(f)
      /\ Stored(x, v)' <=> Stored(x, v)
  BY <1>2 DEF EventWord, EventValue, Stored
<1>4. /\ Mentions(f, pending[f], x)' <=> Mentions(f, Append(pending[f], s), x)
      /\ LastSays(f, pending[f], x, v)' <=> LastSays(f, Append(pending[f], s), x, v)
  BY DEF Mentions, LastSays
<1>5. CASE x = CacheKey(f, s)
  BY <1>1, <1>4, <1>5, AppendSays DEF LastWord
<1>6. CASE x # CacheKey(f, s)
  <2>1. /\ Mentions(f, Append(pending[f], s), x) <=> Mentions(f, pending[f], x)
        /\ LastSays(f, pending[f], x, v) => LastSays(f, Append(pending[f], s), x, v)
    BY <1>1, <1>6, AppendSays
  <2> QED BY <1>3, <1>4, <1>6, <2>1 DEF LastWord
<1> QED BY <1>5, <1>6

\* A table that is sent has every entity once.
LEMMA TableInFull ==
  ASSUME Typed, NEW f \in flows, TableSent(f)
  PROVE  /\ UNCHANGED <<flows, table, lapsed, step, event, cache, missed>>
         /\ \A k \in DOMAIN pending'[f] : \E i \in Live(f) :
              pending'[f][k] = Sentence(i, table[f][i], FALSE)
         /\ \A i \in Live(f) : \E k \in DOMAIN pending'[f] :
              /\ pending'[f][k] = Sentence(i, table[f][i], FALSE)
              /\ \A j \in DOMAIN pending'[f] : j # k =>
                   \E m \in Live(f) \ {i} :
                     pending'[f][j] = Sentence(m, table[f][m], FALSE)
<1> DEFINE N == Cardinality(Live(f))
<1>1. PICK order \in [1..N -> Live(f)] :
        /\ \A a, b \in DOMAIN order : order[a] = order[b] => a = b
        /\ pending' = [pending EXCEPT ![f] =
             [k \in DOMAIN order |-> Sentence(order[k], table[f][order[k]], FALSE)]]
  BY DEF TableSent, Live
<1>2. UNCHANGED <<flows, table, lapsed, step, event, cache, missed>>
  BY DEF TableSent, stores
<1>3. /\ DOMAIN pending'[f] = 1..N
      /\ \A k \in 1..N : pending'[f][k] = Sentence(order[k], table[f][order[k]], FALSE)
  <2>1. DOMAIN pending = flows
    BY DEF Typed, TypeOK
  <2> QED BY <1>1, <2>1
<1>4. IsFiniteSet(Live(f)) /\ N \in Nat
  BY FS_Subset, FS_CardinalityType, TelemetryAssumption DEF Live
<1>5. IsFiniteSet(1..N) /\ Cardinality(1..N) = N
  BY <1>4, FS_Interval
<1>6. order \in Injection(1..N, Live(f))
  BY <1>1 DEF Injection, IsInjective
<1>7. N = Cardinality(Live(f))
  OBVIOUS
<1> HIDE DEF N
<1>8. \A i \in Live(f) : \E k \in 1..N : order[k] = i
  <2> DEFINE S == 1..N
  <2>1. /\ order \in Injection(S, Live(f)) /\ Cardinality(S) = Cardinality(Live(f))
        /\ IsFiniteSet(S) /\ IsFiniteSet(Live(f))
    BY <1>4, <1>5, <1>6, <1>7
  <2> HIDE DEF S
  <2>2. order \in Surjection(S, Live(f))
    BY <2>1, FS_Injection
  <2> QED BY <2>2 DEF Surjection, S
<1>9. \A k \in 1..N : order[k] \in Live(f)
  BY <1>1
<1>10. \A i \in Live(f) : \E k \in DOMAIN pending'[f] :
         /\ pending'[f][k] = Sentence(i, table[f][i], FALSE)
         /\ \A j \in DOMAIN pending'[f] : j # k =>
              \E m \in Live(f) \ {i} : pending'[f][j] = Sentence(m, table[f][m], FALSE)
  <2> SUFFICES ASSUME NEW i \in Live(f)
               PROVE  \E k \in DOMAIN pending'[f] :
         /\ pending'[f][k] = Sentence(i, table[f][i], FALSE)
         /\ \A j \in DOMAIN pending'[f] : j # k =>
              \E m \in Live(f) \ {i} : pending'[f][j] = Sentence(m, table[f][m], FALSE)
    OBVIOUS
  <2>1. PICK k \in 1..N : order[k] = i
    BY <1>8
  <2>2. \A j \in 1..N : j # k => order[j] \in Live(f) \ {i}
    BY <1>1, <1>9, <2>1
  <2>3. pending'[f][k] = Sentence(i, table[f][i], FALSE) /\ k \in DOMAIN pending'[f]
    BY <1>3, <2>1
  <2>4. \A j \in DOMAIN pending'[f] : j # k =>
          \E m \in Live(f) \ {i} : pending'[f][j] = Sentence(m, table[f][m], FALSE)
    BY <1>3, <2>2
  <2> QED BY <2>3, <2>4
<1>11. \A k \in DOMAIN pending'[f] : \E i \in Live(f) :
         pending'[f][k] = Sentence(i, table[f][i], FALSE)
  BY <1>3, <1>9
<1> QED BY <1>2, <1>10, <1>11

LEMMA LiveStep ==
  ASSUME Typed, EventsOwn, TablesSound, LiveSaid, [Next]_vars
  PROVE  LiveSaid'
<1>1. flows' = flows /\ TablesSound'
  BY FlowsSame, TablesStep
<1> SUFFICES ASSUME NEW f \in flows, f \notin due',
                    NEW i \in Ids, table'[f][i] # None,
                    NEW x, x = CacheKey(f, Sentence(i, table'[f][i], FALSE)),
                    NEW v, v = table'[f][i]
             PROVE  LastWord(f, x, v)'
  BY <1>1 DEF LiveSaid, Live, Key, CacheKey, Router, Stream
<1>2. /\ RowSound(Stream(f), table[f]) /\ RowSound(Stream(f), table'[f])
      /\ table[f] \in [Ids -> Names \cup {None}]
  BY <1>1 DEF TablesSound, RowSound, Stream, Typed, TypeOK
<1>3. ASSUME f \notin due, table'[f][i] = table[f][i]
      PROVE  LastWord(f, x, v)
  BY <1>3 DEF LiveSaid, Live, Key
<1>4. CASE TableChanges(f)
  <2>1. f \notin due
    BY <1>4 DEF TableChanges
  <2>2. PICK j \in Ids, n \in Names \cup {None} :
          /\ table'[f] = [table[f] EXCEPT ![j] = n]
          /\ n = None => table[f][j] \in Names
          /\ \/ n # None /\ pending'[f] = Append(pending[f], Sentence(j, n, FALSE))
             \/ n = None /\ pending'[f] = Append(pending[f], Sentence(j, table[f][j], TRUE))
    <3>1. Stream(f).follow
      BY <1>4, <2>1 DEF TableChanges, Typed, TypeOK
    <3> QED BY <1>4, <2>1, <3>1, TableMoves
  <2>3. CASE n # None /\ i = j
    <3>1. Sentence(j, n, FALSE) \in Sentences /\ Value(Sentence(j, n, FALSE)) = n
      BY <2>3 DEF Sentence, Sentences, Value
    <3>2. table'[f][i] = n
      BY <1>2, <2>2, <2>3
    <3> QED BY <1>4, <2>2, <2>3, <3>1, <3>2, WordAppended
  <2>4. CASE n # None /\ i # j
    <3>1. Sentence(j, n, FALSE) \in Sentences
      BY <2>4 DEF Sentence, Sentences
    <3>2. table'[f][i] = table[f][i] /\ table'[f][j] = n
      BY <1>2, <2>2, <2>4
    <3>3. x # CacheKey(f, Sentence(j, n, FALSE))
      BY <1>2, <2>4, <3>2, RowKeysDiffer
    <3>4. LastWord(f, x, v)
      BY <1>3, <2>1, <3>2
    <3> QED BY <1>4, <2>2, <2>4, <3>1, <3>3, <3>4, WordAppended
  <2>5. CASE n = None
    <3>1. Sentence(j, table[f][j], TRUE) \in Sentences
      BY <2>2, <2>5 DEF Sentence, Sentences
    <3>2. i # j /\ table'[f][i] = table[f][i] /\ table[f][j] # None
      BY <1>2, <2>2, <2>5, TelemetryAssumption
    <3>3. x # CacheKey(f, Sentence(j, table[f][j], TRUE))
      <4>1. x # CacheKey(f, Sentence(j, table[f][j], FALSE))
        BY <1>2, <3>2, RowKeysDiffer
      <4> QED BY <4>1, KeyFacts
    <3>4. LastWord(f, x, v)
      BY <1>3, <2>1, <3>2
    <3> QED BY <1>4, <2>2, <2>5, <3>1, <3>3, <3>4, WordAppended
  <2> QED BY <2>3, <2>4, <2>5
<1>5. CASE TableSent(f)
  <2>1. table' = table /\ i \in Live(f)
    BY <1>5, TableInFull DEF Live
  <2>2. PICK k \in DOMAIN pending'[f] :
              /\ pending'[f][k] = Sentence(i, table[f][i], FALSE)
              /\ \A j \in DOMAIN pending'[f] : j # k =>
                   \E m \in Live(f) \ {i} :
                     pending'[f][j] = Sentence(m, table[f][m], FALSE)
    BY <1>5, <2>1, TableInFull
  <2>3. \A m \in Live(f) \ {i} : CacheKey(f, Sentence(m, table[f][m], FALSE)) # x
    BY <1>2, <2>1, RowKeysDiffer DEF Live
  <2>4. /\ CacheKey(f, pending'[f][k]) = x /\ Value(pending'[f][k]) = v
        /\ \A j \in DOMAIN pending'[f] : j # k => CacheKey(f, pending'[f][j]) # x
    <3>1. pending'[f][k] = Sentence(i, v, FALSE) /\ x = CacheKey(f, Sentence(i, v, FALSE))
      BY <2>1, <2>2
    <3>2. Value(Sentence(i, v, FALSE)) = v
      BY DEF Value, Sentence
    <3>3. \A j \in DOMAIN pending'[f] : j # k => CacheKey(f, pending'[f][j]) # x
      BY <2>2, <2>3
    <3> QED BY <3>1, <3>2, <3>3
  <2>5. \A j \in DOMAIN pending'[f] : j > k => j # k
    <3>1. DOMAIN pending'[f] \subseteq Nat
      <4>1. Typed'
        BY TypedStep
      <4>2. pending'[f] \in Seq(Sentences)
        BY <1>1, <4>1 DEF Typed, TypeOK, Sentences
      <4> QED BY <4>2
    <3> QED BY <3>1
  <2> QED BY <2>4, <2>5 DEF LastWord, Mentions, LastSays
<1>6. CASE SessionLost(Router(f))
  BY <1>6 DEF SessionLost
<1>7. CASE /\ table'[f] = table[f]
           /\ f \in due' <=> f \in due
           /\ pending'[f] = pending[f] \/ Receive(f)
  <2>1. LastWord(f, x, v)
    BY <1>3, <1>7
  <2>2. OwnKey(f, x)
    BY KeyFacts
  <2> QED BY <1>7, <2>1, <2>2, WordKept
<1> QED BY <1>4, <1>5, <1>6, <1>7, StepOf

LEMMA GoneStep ==
  ASSUME Typed, EventsOwn, NothingYet, GoneSaid, [Next]_vars
  PROVE  GoneSaid'
<1>1. flows' = flows
  BY FlowsSame
<1> SUFFICES ASSUME NEW f \in flows, f \notin due', f \notin lapsed',
                    Stream(f).follow, Stream(f).key = ".id",
                    NEW i \in Ids, table'[f][i] = None
             PROVE  LastWord(f, IdKey(f, i), None)'
  BY <1>1 DEF GoneSaid, Live, IdKey, Router, Stream
<1> DEFINE x == IdKey(f, i)
<1>2. OwnKey(f, x) /\ table[f] \in [Ids -> Names \cup {None}]
  BY DEF OwnKey, IdKey, Typed, TypeOK
<1>3. ASSUME f \notin due, f \notin lapsed, table[f][i] = None
      PROVE  LastWord(f, x, None)
  BY <1>3 DEF GoneSaid, Live
<1>4. CASE TableChanges(f)
  <2>1. f \notin due /\ f \notin lapsed
    BY <1>4 DEF TableChanges
  <2>2. PICK j \in Ids, n \in Names \cup {None} :
          /\ table'[f] = [table[f] EXCEPT ![j] = n]
          /\ n = None => table[f][j] \in Names
          /\ \/ n # None /\ pending'[f] = Append(pending[f], Sentence(j, n, FALSE))
             \/ n = None /\ pending'[f] = Append(pending[f], Sentence(j, table[f][j], TRUE))
    BY <1>4, <2>1, TableMoves
  <2>3. PICK s \in Sentences :
          /\ pending'[f] = Append(pending[f], s)
          /\ CacheKey(f, s) = IdKey(f, j)
          /\ n = None => Value(s) = None
    <3>1. CASE n # None
      <4>1. Sentence(j, n, FALSE) \in Sentences
        BY <3>1 DEF Sentence, Sentences
      <4>2. CacheKey(f, Sentence(j, n, FALSE)) = IdKey(f, j)
        BY KeyFacts
      <4> QED BY <2>2, <3>1, <4>1, <4>2
    <3>2. CASE n = None
      <4>1. Sentence(j, table[f][j], TRUE) \in Sentences
            /\ Value(Sentence(j, table[f][j], TRUE)) = None
        BY <2>2, <3>2 DEF Sentence, Sentences, Value
      <4>2. CacheKey(f, Sentence(j, table[f][j], TRUE)) = IdKey(f, j)
        BY KeyFacts
      <4> QED BY <2>2, <3>2, <4>1, <4>2
    <3> QED BY <3>1, <3>2
  <2>4. CASE i = j
    <3>1. n = None
      BY <1>2, <2>2, <2>4
    <3> QED BY <1>4, <2>3, <2>4, <3>1, WordAppended
  <2>5. CASE i # j
    <3>1. table[f][i] = None
      BY <1>2, <2>2, <2>5
    <3>2. x # CacheKey(f, s)
      BY <2>3, <2>5 DEF IdKey
    <3>3. LastWord(f, x, None)
      BY <1>3, <2>1, <3>1
    <3> QED BY <1>4, <2>3, <3>2, <3>3, WordAppended
  <2> QED BY <2>4, <2>5
<1>5. CASE TableSent(f)
  <2>1. /\ UNCHANGED <<table, lapsed, step, event, cache, missed>>
        /\ \A k \in DOMAIN pending'[f] : \E m \in Live(f) :
             pending'[f][k] = Sentence(m, table[f][m], FALSE)
    BY <1>5, TableInFull
  <2>2. i \notin Live(f)
    BY <2>1 DEF Live
  <2>3. ~Mentions(f, pending[f], x)'
    <3>1. \A m \in Live(f) : CacheKey(f, Sentence(m, table[f][m], FALSE)) # x
      <4>1. \A m : CacheKey(f, Sentence(m, table[f][m], FALSE)) = IdKey(f, m)
        BY KeyFacts
      <4>2. \A m \in Live(f) : IdKey(f, m) # IdKey(f, i)
        BY <2>2 DEF IdKey
      <4> QED BY <4>1, <4>2
    <3> QED BY <2>1, <3>1 DEF Mentions
  <2>4. step[f] = "select" /\ Snapshots(f) = {}
    BY <1>5, <2>1 DEF NothingYet, TableSent
  <2>5. ~EventWord(f, x)'
    BY <2>1, <2>4 DEF EventWord
  <2>6. x \notin DOMAIN cache
    BY <2>4 DEF Snapshots, IdKey
  <2> QED BY <2>1, <2>3, <2>5, <2>6 DEF LastWord, Stored
<1>6. CASE SessionLost(Router(f))
  BY <1>6 DEF SessionLost
<1>7. CASE /\ table'[f] = table[f]
           /\ f \in due' <=> f \in due
           /\ f \in lapsed' <=> f \in lapsed
           /\ pending'[f] = pending[f] \/ Receive(f)
  <2>1. LastWord(f, x, None)
    BY <1>3, <1>7
  <2> QED BY <1>2, <1>7, <2>1, WordKept
<1> QED BY <1>4, <1>5, <1>6, <1>7, StepOf

LEMMA CacheStep == Typed /\ EventsOwn /\ CacheInv /\ [Next]_vars => CacheInv'
BY TablesStep, IdsStep, NothingYetStep, LiveStep, GoneStep DEF CacheInv

LEMMA CacheAlways == Spec => [](Typed /\ CacheInv)
BY CacheInit, EventsAlways, CacheStep, PTL DEF Spec

\* Once a stream has delivered all that its router said, every entity has a
\* current snapshot, but for those whose own last write failed.
THEOREM SnapshotsFollow == Spec => []SnapshotsCurrent
<1>1. Typed /\ CacheInv => SnapshotsCurrent
  <2> SUFFICES ASSUME Typed, CacheInv, NEW f \in flows, Settled(f),
                      NEW i \in Live(f), Key(f, i) \notin missed
               PROVE  Key(f, i) \in DOMAIN cache /\ cache[Key(f, i)] = table[f][i]
    BY DEF SnapshotsCurrent
  <2>1. /\ f \notin due /\ step[f] = "select" /\ ~Mentions(f, pending[f], Key(f, i))
        /\ table[f][i] # None
    BY DEF Settled, Mentions, Live
  <2>2. LastWord(f, Key(f, i), table[f][i])
    BY <2>1 DEF CacheInv, LiveSaid
  <2> QED BY <2>1, <2>2 DEF LastWord, EventWord, Stored
<1> QED BY <1>1, CacheAlways, PTL

\* As long as no session was lost, a followed menu that knows its entities by
\* ID has snapshots of the live ones only.
THEOREM RemovalsFollow == Spec => []RemovedForgotten
<1>1. Typed /\ CacheInv => RemovedForgotten
  <2> SUFFICES ASSUME Typed, CacheInv, NEW f \in flows, f \notin lapsed,
                      Settled(f), Stream(f).follow, Stream(f).key = ".id",
                      NEW k \in Snapshots(f), k \notin missed
               PROVE  \E i \in Live(f) : k = Key(f, i)
    BY DEF RemovedForgotten
  <2>1. PICK i \in Ids : k = IdKey(f, i)
    BY DEF CacheInv, IdsOnly
  <2>2. Key(f, i) = k
    BY <2>1, KeyFacts DEF Key
  <2>3. i \in Live(f)
    <3> SUFFICES ASSUME i \notin Live(f) PROVE FALSE
      OBVIOUS
    <3>1. /\ f \notin due /\ step[f] = "select" /\ ~Mentions(f, pending[f], k)
      BY DEF Settled, Mentions
    <3>2. LastWord(f, k, None)
      BY <2>1, <3>1 DEF CacheInv, GoneSaid
    <3>3. k \notin DOMAIN cache
      BY <3>1, <3>2 DEF LastWord, EventWord, Stored
    <3> QED BY <3>3 DEF Snapshots
  <2> QED BY <2>2, <2>3
<1> QED BY <1>1, CacheAlways, PTL
=============================================================================
