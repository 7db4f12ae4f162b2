---------------------------- MODULE ProfileCache ----------------------------
(***************************************************************************)
(* The instance profiles that the server has detected or is detecting, for *)
(* one adapter: a map in the order of its last uses, from an origin to the *)
(* promise of a detection and its expiry. A detection is named after the   *)
(* call that began it; it does not end with the request of that call.      *)
(***************************************************************************)
EXTENDS ServerProcess

CONSTANTS Origins, MaxOrigins, TimeToLive

ASSUME CacheAssumption == Origins # {} /\ MaxOrigins \in Nat \ {0} /\ TimeToLive \in Nat

VARIABLES
  cache,      \* the entries, the oldest use first
  detection,  \* the promise; "handled" when a failure has been caught
  awaits      \* the detection a call waits for

cacheVars == <<cache, detection, awaits>>

Entries == [origin : Origins, by : Calls, expires : 0..(EndOfTime + TimeToLive)]

CacheTypeOK ==
  /\ cache \in Seq(Entries) /\ Len(cache) <= MaxOrigins
  /\ \A i, j \in DOMAIN cache : cache[i].origin = cache[j].origin => i = j
  /\ detection \in [Calls -> {"none", "pending", "ready", "failed", "handled"}]
  /\ awaits \in [Calls -> SUBSET Calls]

CacheInit ==
  /\ cache = <<>>
  /\ detection = [c \in Calls |-> "none"]
  /\ awaits = [c \in Calls |-> {}]

\* Map.delete: at most one entry has the origin.
Without(entries, origin) ==
  LET At == {i \in DOMAIN entries : entries[i].origin = origin}
  IN IF At = {} THEN entries ELSE RemoveAt(entries, CHOOSE i \in At : TRUE)

\* Only when the map is more than full.
MakeRoomLate(entries) == IF Len(entries) > MaxOrigins THEN Tail(entries) ELSE entries

\* When the map is full its first entry gives way.
MakeRoom(entries) == IF Len(entries) >= MaxOrigins THEN Tail(entries) ELSE entries

\* profileFor: an entry that has not expired is moved to the end; else a detection is begun
\* and takes its place.
ProfileFor(c, origin) ==
  LET cached == {e \in ToSet(cache) : e.origin = origin}
      fresh  == {e \in cached : e.expires > now}
      rest   == Without(cache, origin)
  IN IF fresh # {}
     THEN \E e \in fresh :
            /\ cache' = Append(rest, e)
            /\ awaits' = [awaits EXCEPT ![c] = {e.by}]
            /\ UNCHANGED detection
     ELSE /\ cache' = Append(MakeRoom(rest), [origin |-> origin, by |-> c,
                                              expires |-> now + TimeToLive])
          /\ detection' = [detection EXCEPT ![c] = "pending"]
          /\ awaits' = [awaits EXCEPT ![c] = {c}]

DetectionSettles(c) ==
  /\ detection[c] = "pending"
  /\ \E outcome \in {"ready", "failed"} : detection' = [detection EXCEPT ![c] = outcome]
  /\ UNCHANGED <<cache, awaits>>

\* The handler of a failure: the entry of the origin is removed, whoever's it is.
FailureForgetsOrigin(c, origin) == cache' = Without(cache, origin)

\* The handler of a failure: the entry of the origin is removed if it is that of the detection.
FailureForgets(c, origin) ==
  cache' = IF \E e \in ToSet(cache) : e.origin = origin /\ e.by = c
           THEN Without(cache, origin) ELSE cache

FailureCaught(c, origin) ==
  /\ detection[c] = "failed"
  /\ detection' = [detection EXCEPT ![c] = "handled"]
  /\ FailureForgets(c, origin)
  /\ UNCHANGED awaits

Settled(c) == \A d \in awaits[c] : detection[d] \in {"ready", "failed", "handled"}

-----------------------------------------------------------------------------

Keeps(entries, e) == \E i \in DOMAIN entries : entries[i] = e

\* An entry leaves the cache because its own detection has failed, because it has expired or
\* because the cache was full and it the one used least recently; a detection that fails late
\* does not take the entry that has replaced its own. And no failure that has been handled
\* is still answered from the cache.
CacheForgetsOnlyItsOwn ==
  [][ /\ \A e \in ToSet(cache) :
           ~Keeps(cache', e) =>
             \/ detection[e.by] = "failed"
             \/ e.expires <= now
             \/ /\ Len(cache) = MaxOrigins /\ e = Head(cache)
                /\ \E new \in ToSet(cache') : ~Keeps(cache, new)
      /\ \A e \in ToSet(cache') : detection'[e.by] # "handled" ]_cacheVars
=============================================================================
