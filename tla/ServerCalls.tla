----------------------------- MODULE ServerCalls -----------------------------
(***************************************************************************)
(* The calls that one server process works on. The fields of a GraphQL     *)
(* query detect instances, under the semaphore of the request and through  *)
(* the cache of the server. Starts of an authentication and registrations  *)
(* of a client pass the limiter; then a start stores a callback state with *)
(* the secret of its client, which an exchange redeems. The three share    *)
(* nothing but the clock: `load` tells which of them a behaviour is about. *)
(***************************************************************************)
EXTENDS FairSemaphore, ProfileCache, StartLimiter, CallbackSecrets

CONSTANT MaxStarts  \* bound of the model: the calls that store a callback state

VARIABLES
  load,
  origin,   \* the origin of the instance a field detects
  key,      \* the client and the origin of another call
  phase,    \* of a call in the service
  at        \* history: when a call was admitted by the limiter

callVars == <<load, origin, key, phase, at>>

vars == <<now, semaphoreVars, cacheVars, limiterVars, secretVars, callVars>>

Loads  == {"query", "admission", "callback"}
Phases == {"idle", "detecting", "registering", "admitted", "rate_limited", "capacity_exceeded",
           "storing", "done"}

TypeOK ==
  /\ now \in 0..EndOfTime /\ load \in Loads
  /\ SemaphoreTypeOK /\ CacheTypeOK /\ LimiterTypeOK /\ SecretsTypeOK
  /\ origin \in [Calls -> Origins] /\ key \in [Calls -> Keys]
  /\ phase \in [Calls -> Phases] /\ at \in [Calls -> 0..EndOfTime]

\* The origins and keys are those given here until a call is made.
Init ==
  /\ now = 0 /\ load \in Loads
  /\ SemaphoreInit /\ CacheInit /\ LimiterInit /\ SecretsInit
  /\ origin = [c \in Calls |-> CHOOSE o \in Origins : TRUE]
  /\ key = [c \in Calls |-> CHOOSE k \in Keys : TRUE]
  /\ phase = [c \in Calls |-> "idle"] /\ at = [c \in Calls |-> 0]

To(c, p) == phase' = [phase EXCEPT ![c] = p] /\ UNCHANGED load

\* Calls are numbered in the order in which they are made.
Made(c, earlier) == \A d \in Calls : d < c => earlier[d] \notin {"none", "idle"}

\* Callback states do not expire within the time considered.
Tick ==
  /\ now < EndOfTime /\ load # "callback" /\ now' = now + 1
  /\ UNCHANGED <<semaphoreVars, cacheVars, limiterVars, secretVars, callVars>>

-----------------------------------------------------------------------------
(* A query *)

OthersStay == UNCHANGED <<now, limiterVars, secretVars, at>>

Resolve(c) ==
  /\ load = "query" /\ Made(c, slot) /\ Acquire(c)
  /\ OthersStay /\ UNCHANGED <<cacheVars, callVars>>

Detect(c) ==
  /\ phase[c] = "idle" /\ slot[c] = "held"
  /\ \E o \in Origins :
       /\ ProfileFor(c, o)
       /\ origin' = [origin EXCEPT ![c] = o]
  /\ To(c, "detecting")
  /\ OthersStay /\ UNCHANGED <<semaphoreVars, key>>

Settle(c) ==
  /\ DetectionSettles(c)
  /\ OthersStay /\ UNCHANGED <<semaphoreVars, callVars>>

Catch(c) ==
  /\ FailureCaught(c, origin[c])
  /\ OthersStay /\ UNCHANGED <<semaphoreVars, callVars>>

Finish(c) ==
  /\ phase[c] = "detecting" /\ Settled(c)
  /\ Release(c) /\ To(c, "done")
  /\ OthersStay /\ UNCHANGED <<cacheVars, origin, key>>

ClientLeaves ==
  /\ load = "query" /\ AbortRaised
  /\ OthersStay /\ UNCHANGED <<cacheVars, callVars>>

WaiterLeaves(c) ==
  /\ AbortHeard(c)
  /\ OthersStay /\ UNCHANGED <<cacheVars, callVars>>

-----------------------------------------------------------------------------
(* Starts and registrations *)

QueryStays == UNCHANGED <<now, semaphoreVars, cacheVars>>

Asks(c) == load = "admission" /\ phase[c] = "idle" /\ Made(c, phase)

Refused(c, reserve) ==
  /\ Asks(c)
  /\ \E k \in Keys, reason \in {"rate_limited", "capacity_exceeded"} :
       Refuses(k, reserve, reason) /\ To(c, reason)
  /\ QueryStays /\ UNCHANGED <<secretVars, origin, key, at>>

Admitted(c, reserve, p) ==
  /\ Asks(c)
  /\ \E k \in Keys : Admits(c, k, reserve) /\ key' = [key EXCEPT ![c] = k]
  /\ To(c, p) /\ at' = [at EXCEPT ![c] = now]
  /\ QueryStays /\ UNCHANGED origin

Register(c) == Admitted(c, TRUE, "registering") /\ UNCHANGED secretVars

\* The remote server has answered or failed; the reservation is released either way.
Registered(c) ==
  /\ phase[c] = "registering"
  /\ ReleaseKey(key[c]) /\ To(c, "done")
  /\ QueryStays /\ UNCHANGED <<secretVars, origin, key, at>>

\* take: what an admitted start does then is below.
Start(c) == Admitted(c, FALSE, "admitted") /\ UNCHANGED secretVars

-----------------------------------------------------------------------------
(* The callback state of a start *)

SecretsOnly == UNCHANGED <<now, semaphoreVars, cacheVars, limiterVars, origin, key, at>>

Authorized(c) ==
  /\ load = "callback" /\ c <= MaxStarts /\ phase[c] = "idle" /\ Made(c, phase)
  /\ GoesOn(c, "putting") /\ To(c, "storing")
  /\ SecretsOnly /\ UNCHANGED <<param, refs, secrets, callback, taking, lost>>

StoreState(c) ==
  /\ PutSecret(c) \/ CreateState(c) \/ ReadState(c) \/ UndoSecret(c)
  /\ SecretsOnly /\ UNCHANGED callVars

Exchange ==
  /\ \/ \E s \in States : ConsumeState(s)
     \/ \E c \in Calls : TakeConsumed(c)
  /\ SecretsOnly /\ UNCHANGED callVars

-----------------------------------------------------------------------------

Next ==
  \/ Tick \/ ClientLeaves \/ Exchange
  \/ \E c \in Calls :
       \/ Resolve(c) \/ Detect(c) \/ Settle(c) \/ Catch(c) \/ Finish(c) \/ WaiterLeaves(c)
       \/ Refused(c, TRUE) \/ Refused(c, FALSE) \/ Register(c) \/ Registered(c)
       \/ Start(c) \/ Authorized(c) \/ StoreState(c)

\* A detection settles, as every fetch does, and what has been queued in the process runs.
Fairness ==
  \A c \in Calls :
    WF_vars(Detect(c)) /\ WF_vars(Settle(c)) /\ WF_vars(Finish(c)) /\ WF_vars(WaiterLeaves(c))

Spec == Init /\ [][Next]_vars /\ Fairness

-----------------------------------------------------------------------------

\* Whoever waits for a slot gets one or is rejected: also when the detections of others fail,
\* when they wait for the detection of another call, or when the client leaves.
WaitersAreServed ==
  \A c \in Calls : slot[c] = "waiting" ~> slot[c] \in {"rejected", "released"}

AdmittedSince(t) ==
  {c \in Calls : at[c] > t - Window /\ at[c] <= t
                 /\ load = "admission" /\ phase[c] \in {"registering", "admitted", "done"}}

\* At no time have more calls been admitted within a window than the limits allow; and the
\* keys with a reservation are those of the registrations under way.
RatesHold ==
  /\ \A t \in 0..EndOfTime, k \in Keys :
       LET recent == AdmittedSince(t) IN
       /\ Cardinality({c \in recent : key[c] = k}) <= MaxPerKey
       /\ Cardinality({c \in recent : key[c].client = k.client}) <= MaxPerClient
       /\ Cardinality(recent) <= MaxGlobal
  /\ \A k \in Keys :
       live[k] = Cardinality({c \in Calls : phase[c] = "registering" /\ key[c] = k})
  /\ Cardinality(Live) <= MaxLiveKeys

\* A key that has been idle for two windows does not take the place of another one: a call is
\* refused for want of capacity only when that many keys have been used since, or have a
\* reservation.
CapacityIsRecent(c) ==
  \/ Cardinality({k \in Keys : \E d \in AdmittedSince(now) \cup AdmittedSince(now - Window) :
                                 key[d] = k}) >= MaxTrackedKeys
  \/ Cardinality(Live) >= MaxLiveKeys

\* Starts and registrations keep to the limits of the OAuth start limiter, and it does not turn
\* a call away for keys it should have forgotten.
LimiterBounds ==
  [][ /\ RatesHold'
      /\ \A c \in Calls : phase'[c] = "capacity_exceeded" /\ phase[c] = "idle"
            => CapacityIsRecent(c) ]_vars
=============================================================================
