----------------------------- MODULE StartLimiter -----------------------------
(***************************************************************************)
(* The limiter of authentication starts and client registrations, of one   *)
(* process: the times of the starts in a sliding window, per client and    *)
(* origin, per client and in all, and the keys with a reservation. Windows *)
(* that have passed are swept at most once in the time of a window. A time *)
(* is stamped with the call it is of, so that a list of them is a set.     *)
(***************************************************************************)
EXTENDS ServerProcess

CONSTANTS
  Keys,         \* pairs of a client and an origin
  Window, MaxPerKey, MaxPerClient, MaxGlobal, MaxTrackedKeys, MaxLiveKeys

ASSUME LimiterAssumption ==
  /\ IsFiniteSet(Keys) /\ Keys # {}
  /\ \A m \in {Window, MaxPerKey, MaxPerClient, MaxGlobal, MaxTrackedKeys, MaxLiveKeys} :
       m \in Nat \ {0}

VARIABLES
  starts,         \* of each key; an empty set where the map has no entry
  clientStarts,
  globalStarts,
  nextCleanupAt,
  live            \* reservations of each key

limiterVars == <<starts, clientStarts, globalStarts, nextCleanupAt, live>>

Clients == {k.client : k \in Keys}
Stamps  == [by : Calls, at : 0..EndOfTime]

LimiterTypeOK ==
  /\ starts \in [Keys -> SUBSET Stamps]
  /\ clientStarts \in [Clients -> SUBSET Stamps]
  /\ globalStarts \subseteq Stamps
  /\ nextCleanupAt \in 0..(EndOfTime + Window)
  /\ live \in [Keys -> 0..Cardinality(Calls)]

LimiterInit ==
  /\ starts = [k \in Keys |-> {}]
  /\ clientStarts = [d \in Clients |-> {}]
  /\ globalStarts = {}
  /\ nextCleanupAt = 0
  /\ live = [k \in Keys |-> 0]

\* Starts of this very tick only.
ActiveLately(s) == {x \in s : x.at > now - Window + 1}

Active(s) == {x \in s : x.at > now - Window}

\* #deleteExpiredWindows, before every admission.
Swept(s) == IF now >= nextCleanupAt THEN Active(s) ELSE s

Sweep ==
  /\ starts' = [k \in Keys |-> Swept(starts[k])]
  /\ clientStarts' = [d \in Clients |-> Swept(clientStarts[d])]
  /\ globalStarts' = Swept(globalStarts)
  /\ nextCleanupAt' = IF now >= nextCleanupAt THEN now + Window ELSE nextCleanupAt

RateLimited(k) ==
  \/ Cardinality(Active(starts[k])) >= MaxPerKey
  \/ Cardinality(Active(clientStarts[k.client])) >= MaxPerClient
  \/ Cardinality(Active(globalStarts)) >= MaxGlobal

Tracked == {k \in Keys : Swept(starts[k]) # {}}
Live    == {k \in Keys : live[k] > 0}

\* The numbers of keys count what has not been swept yet.
CapacityExceeded(k, reserve) ==
  \/ k \notin Tracked /\ Cardinality(Tracked) >= MaxTrackedKeys
  \/ reserve /\ k \notin Live /\ Cardinality(Live) >= MaxLiveKeys

Refuses(k, reserve, reason) ==
  /\ reason = IF RateLimited(k) THEN "rate_limited" ELSE "capacity_exceeded"
  /\ RateLimited(k) \/ CapacityExceeded(k, reserve)
  /\ Sweep /\ UNCHANGED live

Admits(c, k, reserve) ==
  LET With(s) == Active(s) \cup {[by |-> c, at |-> now]} IN
  /\ ~RateLimited(k) /\ ~CapacityExceeded(k, reserve)
  /\ starts' = [j \in Keys |-> IF j = k THEN With(starts[j]) ELSE Swept(starts[j])]
  /\ clientStarts' = [d \in Clients |-> IF d = k.client THEN With(clientStarts[d])
                                                        ELSE Swept(clientStarts[d])]
  /\ globalStarts' = With(globalStarts)
  /\ nextCleanupAt' = IF now >= nextCleanupAt THEN now + Window ELSE nextCleanupAt
  /\ live' = IF reserve THEN [live EXCEPT ![k] = @ + 1] ELSE live

ReleaseKey(k) ==
  /\ live' = [live EXCEPT ![k] = IF @ <= 1 THEN 0 ELSE @ - 1]
  /\ UNCHANGED <<starts, clientStarts, globalStarts, nextCleanupAt>>
=============================================================================
