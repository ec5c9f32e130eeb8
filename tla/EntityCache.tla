---------------------------- MODULE EntityCache -----------------------------
(***************************************************************************)
(* What is promised to those who read the snapshots and subscribe to their *)
(* announcements: each key has one event in hand at a time, its snapshot   *)
(* is written or deleted first, and the event is announced then.  Either   *)
(* may fail, and no key is touched but that of the event.                  *)
(***************************************************************************)
CONSTANT None     \* the value of an entity that is gone

VARIABLES inHand, \* events: key, value, and has the cache been tried?
          cache,  \* the snapshots, by key
          told,   \* the last announcement of each key, unless it failed
          missed  \* keys whose last write failed

cacheVars == <<inHand, cache, told, missed>>

CacheInit == inHand = {} /\ cache = <<>> /\ told = <<>> /\ missed = {}

Hear ==
  /\ \E h \in inHand' :
       /\ ~h.tried /\ \A g \in inHand : g.key # h.key
       /\ inHand' = inHand \cup {h}
  /\ UNCHANGED <<cache, told, missed>>

Written(h) ==
  cache' = [k \in IF h.value = None THEN DOMAIN cache \ {h.key}
                                    ELSE DOMAIN cache \cup {h.key} |->
             IF k = h.key THEN h.value ELSE cache[k]]

Try(h) ==
  /\ ~h.tried
  /\ inHand' = (inHand \ {h}) \cup
                 {[key |-> h.key, value |-> h.value, tried |-> TRUE]}
  /\ \/ Written(h) /\ missed' = missed \ {h.key}
     \/ UNCHANGED cache /\ missed' = missed \cup {h.key}
  /\ UNCHANGED told

Announce(h) ==
  /\ h.tried
  /\ inHand' = inHand \ {h}
  /\ \/ told' = [k \in DOMAIN told \cup {h.key} |->
                  IF k = h.key THEN h.value ELSE told[k]]
     \/ told' = [k \in DOMAIN told \ {h.key} |-> told[k]]
  /\ UNCHANGED <<cache, missed>>

CacheNext == Hear \/ \E h \in inHand : Try(h) \/ Announce(h)

CacheSpec == CacheInit /\ [][CacheNext]_cacheVars

\* A subscriber that hears of an event and reads the snapshot sees that event
\* or a later one, not an earlier one.
AnnouncedIsCached ==
  \A k \in DOMAIN told \ missed :
    \/ \E h \in inHand : h.key = k /\ h.tried
    \/ IF told[k] = None THEN k \notin DOMAIN cache
       ELSE k \in DOMAIN cache /\ cache[k] = told[k]
=============================================================================
