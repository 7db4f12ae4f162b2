------------------------- MODULE ServerCallsProofs -------------------------
(***************************************************************************)
(* Theorems about ServerCalls, for any finite set of calls, any origins,   *)
(* keys and state parameters and any limits: the semaphore of a request,   *)
(* the cache of instance profiles, the limiter of starts and the secrets   *)
(* of callback states. Each has an invariant of its own, and the steps     *)
(* that are not about it leave that alone.                                 *)
(***************************************************************************)
EXTENDS ServerCalls, FiniteSetTheorems, SequenceTheorems, TLAPS

\* The part of the type invariant that is about the calls.
CallTypes ==
  /\ now \in 0..EndOfTime /\ load \in Loads
  /\ origin \in [Calls -> Origins] /\ key \in [Calls -> Keys]
  /\ phase \in [Calls -> Phases] /\ at \in [Calls -> 0..EndOfTime]

-----------------------------------------------------------------------------
(* The inductive invariants *)

\* The queue is in the order of the calls, and the calls have acquired in that order.
InOrderOfCalls ==
  /\ \A i, j \in DOMAIN queue : i < j => queue[i] < queue[j]
  /\ \A c, d \in Calls : d < c /\ slot[c] # "none" => slot[d] # "none"

SlotsInv == SemaphoreTypeOK /\ InOrderOfCalls /\ FairSlots

\* An entry is of the origin its call has asked for, and its detection has not been found to
\* have failed.
EntriesAreOwn ==
  \A i \in DOMAIN cache :
    /\ phase[cache[i].by] # "idle"
    /\ origin[cache[i].by] = cache[i].origin
    /\ detection[cache[i].by] # "handled"

CacheInv == CacheTypeOK /\ EntriesAreOwn

InService == {c \in Calls : load = "admission" /\ phase[c] \in {"registering", "admitted", "done"}}

Stamp(c) == [by |-> c, at |-> at[c]]

\* What has been admitted within a window is on the lists.
Listed ==
  \A c \in InService :
    /\ at[c] <= now
    /\ at[c] > now - Window =>
         /\ Stamp(c) \in starts[key[c]]
         /\ Stamp(c) \in clientStarts[key[c].client]
         /\ Stamp(c) \in globalStarts

\* What is on the list of a key has been admitted, less than a window before the last sweep
\* or after it.
ListsAreRecent ==
  /\ nextCleanupAt <= now + Window
  /\ \A k \in Keys : \A x \in starts[k] :
       /\ x.by \in InService /\ key[x.by] = k /\ x.at = at[x.by]
       /\ x.at > nextCleanupAt - 2 * Window

\* Only a query acquires slots; what is done otherwise has been a registration.
SlotsAreOfQueries == load # "query" => \A c \in Calls : slot[c] = "none"

LimiterInv == LimiterTypeOK /\ Listed /\ ListsAreRecent /\ RatesHold /\ SlotsAreOfQueries

\* Where a call stands tells whether its secret is there and whether its state may be: no call
\* has its state before it has asked for that, or once it has found that another one is there.
SecretsAtStages ==
  /\ \A s \in States : callback[s] # NoCall =>
       /\ param[callback[s]] = s
       /\ stage[callback[s]] \in {"unsure", "stored", "refused"}
  /\ \A c \in refs :
       /\ stage[c] \notin {"none", "putting"}
       /\ stage[c] \in {"creating", "unsure"} => c \in secrets
  /\ \A c \in taking :
       /\ stage[c] \in {"stored", "refused"}
       /\ \A s \in States : callback[s] # c

SecretsInv == SecretsTypeOK /\ SecretsAtStages /\ SecretsFollowStates

\* A call that has not been made stores nothing.
IdleStoresNothing == \A c \in Calls : phase[c] = "idle" => stage[c] = "none"

Inv == CallTypes /\ SlotsInv /\ CacheInv /\ LimiterInv /\ SecretsInv /\ IdleStoresNothing

-----------------------------------------------------------------------------
(* Callback states and secrets *)

LEMMA SecretsBegin == SecretsInit => SecretsInv
BY StatesAssumption DEF SecretsInit, SecretsInv, SecretsTypeOK, SecretsAtStages,
   SecretsFollowStates, Named, Working

\* A secret that the call has asked its store to take is gone, or the store has failed: either
\* way nothing but that secret changes.
LEMMA TakingOne ==
  ASSUME NEW c \in Calls, SecretsTypeOK, TakeSecret(c)
  PROVE  /\ secrets' \subseteq secrets /\ secrets \ {c} \subseteq secrets'
         /\ lost \subseteq lost' /\ lost' \subseteq Calls
         /\ c \in secrets' => c \in lost'
BY DEF TakeSecret, SecretsTypeOK

LEMMA PutKeeps ==
  ASSUME NEW c \in Calls, SecretsInv, PutSecret(c)
  PROVE  SecretsInv'
<1> USE DEF SecretsInv, SecretsTypeOK, PutSecret, GoesOn
<1>1. /\ c \notin refs /\ c \notin taking
      /\ \A s \in States : callback[s] # c
  BY StatesAssumption DEF SecretsAtStages
<1>2. SecretsTypeOK'
  OBVIOUS
<1>3. SecretsAtStages'
  BY <1>1, StatesAssumption DEF SecretsAtStages
<1>4. Named' = Named
  BY <1>1 DEF Named
<1>5. SecretsFollowStates'
  BY <1>1, <1>4 DEF SecretsFollowStates, Working
<1> QED
  BY <1>2, <1>3, <1>5

LEMMA CreateKeeps ==
  ASSUME NEW c \in Calls, SecretsInv, CreateState(c)
  PROVE  SecretsInv'
<1> USE DEF SecretsInv, SecretsTypeOK, GoesOn
<1>1. /\ c \in refs => c \in secrets
      /\ c \notin taking
      /\ \A s \in States : callback[s] # c
      /\ stage[c] = "creating" /\ param[c] \in States
  BY StatesAssumption DEF SecretsAtStages, CreateState
<1>2. CASE callback[param[c]] = NoCall /\ Stores(c) /\ (GoesOn(c, "stored") \/ GoesOn(c, "unsure"))
  <2>1. UNCHANGED <<param, refs, secrets, taking, lost>>
    BY DEF CreateState
  <2>2. SecretsTypeOK'
    BY <1>2, <2>1 DEF Stores
  <2>3. SecretsAtStages'
    BY <1>1, <1>2, <2>1, StatesAssumption DEF SecretsAtStages, Stores
  <2>4. Named' = Named \cup ({c} \cap refs)
    BY <1>1, <1>2, <2>1, StatesAssumption DEF Named, Stores
  <2>5. Working \subseteq Working' \cup {c}
    BY <1>2 DEF Working
  <2>6. SecretsFollowStates'
    BY <1>1, <2>1, <2>4, <2>5 DEF SecretsFollowStates
  <2> QED
    BY <2>2, <2>3, <2>6
<1>3. CASE /\ UNCHANGED callback
           /\ \/ GoesOn(c, "unsure")
              \/ GoesOn(c, IF c \in refs THEN "undoing" ELSE "refused")
  <2>1. UNCHANGED <<param, refs, secrets, taking, lost>>
    BY DEF CreateState
  <2>2. SecretsTypeOK'
    BY <1>3, <2>1
  <2>3. SecretsAtStages'
    BY <1>1, <1>3, <2>1 DEF SecretsAtStages
  <2>4. SecretsFollowStates'
    BY <1>3, <2>1 DEF SecretsFollowStates, Named, Working
  <2> QED
    BY <2>2, <2>3, <2>4
<1> QED
  BY <1>2, <1>3 DEF CreateState

LEMMA ReadKeeps ==
  ASSUME NEW c \in Calls, SecretsInv, ReadState(c)
  PROVE  SecretsInv'
<1> USE DEF SecretsInv, SecretsTypeOK, GoesOn
<1>1. PICK readable \in BOOLEAN :
        /\ GoesOn(c, IF c \in refs /\ readable /\ callback[param[c]] # c
                     THEN "undoing" ELSE "refused")
        /\ lost' = IF readable THEN lost ELSE lost \cup {c}
  BY DEF ReadState
<1>2. /\ stage[c] = "unsure" /\ param[c] \in States
      /\ UNCHANGED <<param, refs, secrets, callback, taking>>
  BY DEF ReadState
<1>3. SecretsTypeOK'
  BY <1>1, <1>2
<1>4. (\A s \in States : callback[s] = c => s = param[c]) /\ c \notin taking
  BY <1>2, StatesAssumption DEF SecretsAtStages
<1>5. SecretsAtStages'
  BY <1>1, <1>2, <1>4 DEF SecretsAtStages
<1>6. Named' = Named
  BY <1>2 DEF Named
<1>7. Working \ {c} \subseteq Working' /\ lost \subseteq lost'
  BY <1>1 DEF Working
<1>8. c \in secrets => c \in Named \cup Working' \cup lost'
  BY <1>1, <1>2 DEF Named, Working
<1>9. SecretsFollowStates'
  BY <1>2, <1>6, <1>7, <1>8 DEF SecretsFollowStates
<1> QED
  BY <1>3, <1>5, <1>9

LEMMA UndoKeeps ==
  ASSUME NEW c \in Calls, SecretsInv, UndoSecret(c)
  PROVE  SecretsInv'
<1> USE DEF SecretsInv
<1>1. /\ stage[c] = "undoing" /\ GoesOn(c, "refused")
      /\ UNCHANGED <<param, refs, callback, taking>>
  BY DEF UndoSecret
<1>2. /\ secrets' \subseteq secrets /\ secrets \ {c} \subseteq secrets'
      /\ lost \subseteq lost' /\ lost' \subseteq Calls
      /\ c \in secrets' => c \in lost'
  BY TakingOne DEF UndoSecret
<1>3. SecretsTypeOK'
  BY <1>1, <1>2 DEF SecretsTypeOK, GoesOn
<1>4. c \notin taking /\ \A s \in States : callback[s] # c
  BY <1>1, StatesAssumption DEF SecretsAtStages, SecretsTypeOK
<1>5. SecretsAtStages'
  BY <1>1, <1>2, <1>4 DEF SecretsAtStages, SecretsTypeOK, GoesOn
<1>6. Named' = Named /\ c \notin Named
  BY <1>1, <1>4 DEF Named
<1>7. Working \ {c} \subseteq Working'
  BY <1>1 DEF Working, GoesOn, SecretsTypeOK
<1>8. SecretsFollowStates'
  BY <1>2, <1>6, <1>7 DEF SecretsFollowStates
<1> QED
  BY <1>3, <1>5, <1>8

LEMMA ConsumeKeeps ==
  ASSUME NEW s \in States, SecretsInv, ConsumeState(s)
  PROVE  SecretsInv'
<1> USE DEF SecretsInv, SecretsTypeOK, ConsumeState
<1> DEFINE c == callback[s]
<1>1. /\ c \in Calls /\ c # NoCall /\ param[c] = s
      /\ \A r \in States : callback[r] = c => r = s
  BY DEF SecretsAtStages
<1>2. SecretsTypeOK'
  BY <1>1
<1>a. /\ \A r \in States : callback'[r] = IF r = s THEN NoCall ELSE callback[r]
      /\ \A r \in States : callback'[r] # c
      /\ taking' \subseteq taking \cup {c}
  BY <1>1
<1>b. /\ stage[c] \in {"stored", "refused"}
      /\ UNCHANGED <<stage, param, secrets, refs>>
  OBVIOUS
<1>3. SecretsAtStages'
  <2> HIDE DEF c
  <2>1. \A r \in States : callback'[r] # NoCall =>
          /\ param'[callback'[r]] = r
          /\ stage'[callback'[r]] \in {"unsure", "stored", "refused"}
    BY <1>a, <1>b DEF SecretsAtStages
  <2>2. \A d \in refs' :
          /\ stage'[d] \notin {"none", "putting"}
          /\ stage'[d] \in {"creating", "unsure"} => d \in secrets'
    BY <1>b DEF SecretsAtStages
  <2>3. \A d \in taking' :
          /\ stage'[d] \in {"stored", "refused"}
          /\ \A r \in States : callback'[r] # d
    <3> SUFFICES ASSUME NEW d \in taking'
                 PROVE  /\ stage'[d] \in {"stored", "refused"}
                        /\ \A r \in States : callback'[r] # d
      OBVIOUS
    <3>1. CASE d = c
      BY <3>1, <1>a, <1>b
    <3>2. CASE d \in taking
      <4>1. d # NoCall
        BY <3>2, StatesAssumption
      <4>2. /\ stage[d] \in {"stored", "refused"}
            /\ \A r \in States : callback[r] # d
        BY <3>2 DEF SecretsAtStages
      <4> QED
        BY <4>1, <4>2, <1>a, <1>b
    <3> QED
      BY <3>1, <3>2, <1>a
  <2> QED
    BY <2>1, <2>2, <2>3 DEF SecretsAtStages
<1>4. Named' = Named
  BY <1>1, StatesAssumption DEF Named
<1>5. SecretsFollowStates'
  BY <1>4 DEF SecretsFollowStates, Working
<1> QED
  BY <1>2, <1>3, <1>5

LEMMA TakeConsumedKeeps ==
  ASSUME NEW c \in Calls, SecretsInv, TakeConsumed(c)
  PROVE  SecretsInv'
<1> USE DEF SecretsInv
<1>1. /\ c \in taking /\ taking' = taking \ {c}
      /\ UNCHANGED <<stage, param, callback, refs>>
  BY DEF TakeConsumed
<1>2. /\ secrets' \subseteq secrets /\ secrets \ {c} \subseteq secrets'
      /\ lost \subseteq lost' /\ lost' \subseteq Calls
      /\ c \in secrets' => c \in lost'
  BY TakingOne DEF TakeConsumed
<1>3. SecretsTypeOK'
  BY <1>1, <1>2 DEF SecretsTypeOK
<1>4. stage[c] \in {"stored", "refused"} /\ \A s \in States : callback[s] # c
  BY <1>1 DEF SecretsAtStages
<1>5. SecretsAtStages'
  BY <1>1, <1>2, <1>4 DEF SecretsAtStages
<1>6. Named' = Named \ {c} /\ Working' = Working
  BY <1>1, <1>4 DEF Named, Working
<1>7. SecretsFollowStates'
  BY <1>2, <1>6 DEF SecretsFollowStates
<1> QED
  BY <1>3, <1>5, <1>7

-----------------------------------------------------------------------------
(* The semaphore *)

\* What is left of a sequence when one of its elements has been removed.
LEMMA RemoveAtProperties ==
  ASSUME NEW S, NEW s \in Seq(S), NEW i \in 1..Len(s)
  PROVE  /\ RemoveAt(s, i) \in Seq(S)
         /\ Len(RemoveAt(s, i)) = Len(s) - 1
         /\ \A j \in 1..Len(s)-1 : RemoveAt(s, i)[j] = IF j < i THEN s[j] ELSE s[j + 1]
<1> DEFINE left == SubSeq(s, 1, i - 1)
           right == SubSeq(s, i + 1, Len(s))
<1>1. Len(s) \in Nat /\ i \in Nat /\ \A j \in 1..Len(s) : s[j] \in S
  BY LenProperties, ElementOfSeq
<1>2. /\ left \in Seq(S) /\ Len(left) = i - 1
      /\ \A j \in 1..i-1 : left[j] = s[j]
  BY <1>1, SubSeqProperties
<1>3. /\ right \in Seq(S) /\ Len(right) = Len(s) - i
      /\ \A j \in 1..Len(s)-i : right[j] = s[i + j]
  <2>1. \A j \in i+1..Len(s) : s[j] \in S
    BY <1>1
  <2>2. /\ right \in Seq(S)
        /\ Len(right) = IF i + 1 <= Len(s) THEN Len(s) - (i + 1) + 1 ELSE 0
        /\ \A j \in 1..Len(s)-(i+1)+1 : right[j] = s[(i + 1) + j - 1]
    BY <1>1, <2>1, SubSeqProperties
  <2> QED
    BY <1>1, <2>2
<1> HIDE DEF left, right
<1>4. /\ left \o right \in Seq(S)
      /\ Len(left \o right) = Len(s) - 1
      /\ \A j \in 1..Len(s)-1 :
           (left \o right)[j] = IF j <= i - 1 THEN left[j] ELSE right[j - (i - 1)]
  BY <1>1, <1>2, <1>3, ConcatProperties
<1>5. RemoveAt(s, i) = left \o right
  BY DEF RemoveAt, left, right
<1>6. ASSUME NEW j \in 1..Len(s)-1
      PROVE  RemoveAt(s, i)[j] = IF j < i THEN s[j] ELSE s[j + 1]
  <2>1. CASE j < i
    BY <1>1, <1>2, <1>4, <1>5, <2>1
  <2>2. CASE ~(j < i)
    <3>1. j - (i - 1) \in 1..Len(s)-i /\ i + (j - (i - 1)) = j + 1
      BY <1>1, <2>2
    <3>2. right[j - (i - 1)] = s[j + 1]
      BY <1>3, <3>1
    <3>3. ~(j <= i - 1) /\ j \in Int
      BY <1>1, <2>2
    <3>4. (left \o right)[j] = right[j - (i - 1)]
      BY <1>4, <3>3
    <3> QED
      BY <1>5, <2>2, <3>2, <3>4
  <2> QED
    BY <2>1, <2>2
<1> QED
  BY <1>4, <1>5, <1>6

Held == {c \in Calls : slot[c] = "held"}

\* What the invariant says of the queue, element by element.
LEMMA QueueOfWaiters ==
  ASSUME SlotsInv
  PROVE  /\ queue \in Seq(Calls) /\ Len(queue) \in Nat /\ DOMAIN queue = 1..Len(queue)
         /\ \A i \in 1..Len(queue) : queue[i] \in Calls /\ slot[queue[i]] = "waiting"
         /\ \A c \in Calls : slot[c] = "waiting" => \E i \in 1..Len(queue) : queue[i] = c
         /\ \A i, j \in 1..Len(queue) : i < j => queue[i] < queue[j]
         /\ active = Cardinality(Held) /\ active \in 0..Maximum /\ Maximum \in Nat \ {0}
         /\ IsFiniteSet(Held)
<1>1. /\ queue \in Seq(Calls) /\ Len(queue) \in Nat /\ DOMAIN queue = 1..Len(queue)
      /\ \A i \in 1..Len(queue) : queue[i] \in Calls
  BY LenProperties, ElementOfSeq DEF SlotsInv, SemaphoreTypeOK
<1>2. /\ \A i \in DOMAIN queue : queue[i] \in {c \in Calls : slot[c] = "waiting"}
      /\ \A c \in Calls : slot[c] = "waiting" => \E i \in DOMAIN queue : queue[i] = c
  BY DEF SlotsInv, FairSlots, SlotsBalanced, ToSet
<1>3. Held \in SUBSET Calls /\ IsFiniteSet(Calls)
  BY ProcessAssumption DEF Held
<1>4. IsFiniteSet(Held)
  BY <1>3, FS_Subset
<1> QED
  BY <1>1, <1>2, <1>4, SemaphoreAssumption
  DEF SlotsInv, SemaphoreTypeOK, InOrderOfCalls, FairSlots, SlotsBalanced, Held

LEMMA SlotsBegin == SemaphoreInit => SlotsInv
<1> SUFFICES ASSUME SemaphoreInit PROVE SlotsInv
  OBVIOUS
<1>1. queue \in Seq(Calls) /\ DOMAIN queue = {} /\ active = 0
  BY EmptySeq DEF SemaphoreInit
<1>2. {c \in Calls : slot[c] = "held"} = {} /\ {c \in Calls : slot[c] = "waiting"} = {}
  BY DEF SemaphoreInit
<1>3. SemaphoreTypeOK
  <2>1. 0 \in 0..Maximum
    BY SemaphoreAssumption
  <2>2. slot \in [Calls -> {"none", "waiting", "held", "rejected", "released"}]
        /\ aborted = FALSE
    BY DEF SemaphoreInit
  <2> QED
    BY <1>1, <2>1, <2>2 DEF SemaphoreTypeOK
<1>4. InOrderOfCalls
  BY <1>1 DEF SemaphoreInit, InOrderOfCalls
<1>5. SlotsBalanced
  <2>1. ToSet(queue) = {} /\ IsInjective(queue)
    BY <1>1 DEF ToSet, IsInjective
  <2> QED
    BY <1>1, <1>2, <2>1, FS_EmptySet DEF SlotsBalanced
<1>6. NoIdleSlot /\ FirstCome
  BY DEF SemaphoreInit, NoIdleSlot, FirstCome
<1> QED
  BY <1>3, <1>4, <1>5, <1>6 DEF SlotsInv, FairSlots

\* What has to be shown of a step, element by element.
LEMMA SlotsStay ==
  ASSUME active' \in 0..Maximum /\ aborted' \in BOOLEAN,
         slot' \in [Calls -> {"none", "waiting", "held", "rejected", "released"}],
         queue' \in Seq(Calls),
         active' = Cardinality(Held'),
         \A i \in 1..Len(queue') : slot'[queue'[i]] = "waiting",
         \A c \in Calls : slot'[c] = "waiting" => \E i \in 1..Len(queue') : queue'[i] = c,
         \A i, j \in 1..Len(queue') : i < j => queue'[i] < queue'[j],
         \A c, d \in Calls : d < c /\ slot'[c] # "none" => slot'[d] # "none",
         NoIdleSlot', FirstCome'
  PROVE  SlotsInv'
<1>1. /\ DOMAIN queue' = 1..Len(queue') /\ Len(queue') \in Nat
      /\ \A i \in 1..Len(queue') : queue'[i] \in Calls
  BY LenProperties, ElementOfSeq
<1>2. SemaphoreTypeOK'
  BY DEF SemaphoreTypeOK
<1>3. InOrderOfCalls'
  BY <1>1 DEF InOrderOfCalls
<1>4. SlotsBalanced'
  <2>1. ToSet(queue') = {c \in Calls : slot'[c] = "waiting"}
    BY <1>1 DEF ToSet
  <2>2. \A i, j \in 1..Len(queue') : queue'[i] = queue'[j] => i = j
    <3> SUFFICES ASSUME NEW i \in 1..Len(queue'), NEW j \in 1..Len(queue'),
                        queue'[i] = queue'[j], i # j
                 PROVE  FALSE
      OBVIOUS
    <3>1. queue'[i] \in Nat /\ queue'[j] \in Nat
      BY <1>1, ProcessAssumption
    <3>2. i < j \/ j < i
      BY <1>1
    <3> QED
      BY <3>1, <3>2
  <2>3. IsInjective(queue')
    BY <1>1, <2>2 DEF IsInjective
  <2> QED
    BY <2>1, <2>3 DEF SlotsBalanced, Held
<1> QED
  BY <1>2, <1>3, <1>4 DEF SlotsInv, FairSlots

LEMMA AcquireKeeps ==
  ASSUME NEW c \in Calls, SlotsInv, Acquire(c), Made(c, slot)
  PROVE  SlotsInv'
<1>1. /\ slot \in [Calls -> {"none", "waiting", "held", "rejected", "released"}]
      /\ slot[c] = "none" /\ aborted' = aborted /\ aborted \in BOOLEAN
  BY DEF SlotsInv, SemaphoreTypeOK, Acquire
<1>2. \A d \in Calls : d # c => (d < c) # (c < d)
  BY ProcessAssumption
<1>3. /\ \A d \in Calls : c < d => slot[d] = "none"
      /\ \A d \in Calls : d < c => slot[d] # "none"
      /\ \A b, d \in Calls : d < b /\ slot[b] # "none" => slot[d] # "none"
      /\ NoIdleSlot /\ FirstCome
  BY <1>1 DEF Made, SlotsInv, InOrderOfCalls, FairSlots
<1>4. \A to \in {"rejected", "held", "waiting"} :
        slot' = [slot EXCEPT ![c] = to] =>
          /\ slot' \in [Calls -> {"none", "waiting", "held", "rejected", "released"}]
          /\ \A d \in Calls : slot'[d] = IF d = c THEN to ELSE slot[d]
          /\ \A b, d \in Calls : d < b /\ slot'[b] # "none" => slot'[d] # "none"
  BY <1>1, <1>2, <1>3
<1>5. CASE aborted
  <2>1. slot' = [slot EXCEPT ![c] = "rejected"] /\ UNCHANGED <<active, queue>>
    BY <1>5 DEF Acquire
  <2>2. Held' = Held
    BY <1>1, <1>4, <2>1 DEF Held
  <2>3. NoIdleSlot' /\ FirstCome'
    BY <1>3, <1>4, <2>1 DEF NoIdleSlot, FirstCome
  <2>4. \A i \in 1..Len(queue) : slot'[queue[i]] = "waiting"
    BY <1>1, <1>4, <2>1, QueueOfWaiters
  <2> QED
    BY <1>1, <1>4, <2>1, <2>2, <2>3, <2>4, QueueOfWaiters, SlotsStay
<1>6. CASE ~aborted /\ active < Maximum /\ queue = <<>>
  <2>1. /\ slot' = [slot EXCEPT ![c] = "held"]
        /\ active' = active + 1 /\ queue' = <<>>
    BY <1>6 DEF Acquire
  <2>2. Held' = Held \cup {c} /\ c \notin Held
    BY <1>1, <1>4, <2>1 DEF Held
  <2>3. active' = Cardinality(Held') /\ active' \in 0..Maximum
    <3>1. /\ IsFiniteSet(Held) /\ active = Cardinality(Held)
          /\ active \in 0..Maximum /\ Maximum \in Nat
      BY QueueOfWaiters
    <3>2. Cardinality(Held \cup {c}) = Cardinality(Held) + 1
      BY <2>2, <3>1, FS_AddElement
    <3> QED
      BY <1>6, <2>1, <2>2, <3>1, <3>2
  <2>4. queue' \in Seq(Calls) /\ Len(queue') = 0
    BY <2>1, EmptySeq
  <2>5. \A d \in Calls : slot'[d] # "waiting"
    BY <1>4, <1>6, <2>1, <2>4, QueueOfWaiters
  <2>6. NoIdleSlot' /\ FirstCome'
    BY <2>1, <2>5 DEF NoIdleSlot, FirstCome
  <2> QED
    BY <1>1, <1>4, <2>1, <2>3, <2>4, <2>5, <2>6, SlotsStay
<1>7. CASE ~aborted /\ ~(active < Maximum /\ queue = <<>>)
  <2>1. /\ slot' = [slot EXCEPT ![c] = "waiting"]
        /\ active' = active /\ queue' = Append(queue, c)
    BY <1>7 DEF Acquire
  <2>2. Held' = Held
    BY <1>1, <1>4, <2>1 DEF Held
  <2>3. /\ queue' \in Seq(Calls) /\ Len(queue') = Len(queue) + 1
        /\ \A i \in 1..Len(queue) : queue'[i] = queue[i]
        /\ queue'[Len(queue) + 1] = c
    BY <2>1, QueueOfWaiters, AppendProperties
  <2>4. \A i \in 1..Len(queue') : i \in 1..Len(queue) \/ i = Len(queue) + 1
    BY <2>3, QueueOfWaiters
  <2>5. \A i \in 1..Len(queue') : slot'[queue'[i]] = "waiting"
    BY <1>1, <1>4, <2>1, <2>3, <2>4, QueueOfWaiters
  <2>6. \A d \in Calls : slot'[d] = "waiting" => \E i \in 1..Len(queue') : queue'[i] = d
    <3>1. Len(queue) + 1 \in 1..Len(queue') /\ 1..Len(queue) \subseteq 1..Len(queue')
      BY <2>3, QueueOfWaiters
    <3> QED
      BY <1>4, <2>1, <2>3, <3>1, QueueOfWaiters
  <2>7. \A i, j \in 1..Len(queue') : i < j => queue'[i] < queue'[j]
    <3> SUFFICES ASSUME NEW i \in 1..Len(queue'), NEW j \in 1..Len(queue'), i < j
                 PROVE  queue'[i] < queue'[j]
      OBVIOUS
    <3>1. i \in 1..Len(queue)
      BY <2>3, QueueOfWaiters
    <3>2. CASE j \in 1..Len(queue)
      BY <2>3, <3>1, <3>2, QueueOfWaiters
    <3>3. CASE j = Len(queue) + 1
      <4>1. queue[i] \in Calls /\ slot[queue[i]] = "waiting"
        BY <3>1, QueueOfWaiters
      <4>2. queue[i] < c
        BY <1>1, <1>2, <1>3, <4>1
      <4> QED
        BY <2>3, <3>1, <3>3, <4>2
    <3> QED
      BY <2>4, <3>2, <3>3
  <2>8. NoIdleSlot'
    <3>1. queue # <<>> => active = Maximum
      BY <1>3 DEF NoIdleSlot
    <3>2. active = Maximum
      BY <1>7, <3>1, QueueOfWaiters
    <3> QED
      BY <2>1, <3>2 DEF NoIdleSlot
  <2>9. FirstCome'
    BY <1>1, <1>3, <1>4, <2>1 DEF FirstCome
  <2>10. active' \in 0..Maximum /\ active' = Cardinality(Held')
    BY <2>1, <2>2, QueueOfWaiters
  <2> QED
    BY <1>1, <1>4, <2>1, <2>3, <2>5, <2>6, <2>7, <2>8, <2>9, <2>10, SlotsStay
<1> QED
  BY <1>1, <1>5, <1>6, <1>7

LEMMA AbortHeardKeeps ==
  ASSUME NEW c \in Calls, SlotsInv, AbortHeard(c)
  PROVE  SlotsInv'
<1>1. PICK i \in 1..Len(queue) : queue[i] = c /\ queue' = RemoveAt(queue, i)
  BY QueueOfWaiters DEF AbortHeard
<1>2. /\ slot' = [slot EXCEPT ![c] = "rejected"]
      /\ UNCHANGED <<active, aborted>>
      /\ slot \in [Calls -> {"none", "waiting", "held", "rejected", "released"}]
      /\ aborted \in BOOLEAN /\ slot[c] = "waiting"
  BY <1>1, QueueOfWaiters DEF AbortHeard, SlotsInv, SemaphoreTypeOK
<1>3. /\ slot' \in [Calls -> {"none", "waiting", "held", "rejected", "released"}]
      /\ \A d \in Calls : slot'[d] = IF d = c THEN "rejected" ELSE slot[d]
  BY <1>2
<1>4. /\ queue' \in Seq(Calls) /\ Len(queue') = Len(queue) - 1
      /\ \A j \in 1..Len(queue)-1 : queue'[j] = IF j < i THEN queue[j] ELSE queue[j + 1]
  <2>1. queue \in Seq(Calls)
    BY QueueOfWaiters
  <2> QED
    BY <1>1, <2>1, RemoveAtProperties
<1>5. \A j \in 1..Len(queue) : j # i => queue[j] # c
  <2> SUFFICES ASSUME NEW j \in 1..Len(queue), j # i
               PROVE  queue[j] # c
    OBVIOUS
  <2>1. j < i \/ i < j
    OBVIOUS
  <2>2. queue[j] < c \/ c < queue[j]
    BY <1>1, <2>1, QueueOfWaiters
  <2>3. queue[j] \in Nat /\ c \in Nat
    BY QueueOfWaiters, ProcessAssumption
  <2> QED
    BY <2>2, <2>3
<1>6. Held' = Held
  BY <1>2, <1>3 DEF Held
<1>7. \A j \in 1..Len(queue') :
        \E k \in 1..Len(queue) : /\ k # i /\ queue'[j] = queue[k]
                                 /\ k = IF j < i THEN j ELSE j + 1
  <2> SUFFICES ASSUME NEW j \in 1..Len(queue')
               PROVE  \E k \in 1..Len(queue) : /\ k # i /\ queue'[j] = queue[k]
                                               /\ k = IF j < i THEN j ELSE j + 1
    OBVIOUS
  <2>1. j \in 1..Len(queue)-1
    BY <1>4
  <2>2. CASE j < i
    BY <1>4, <2>1, <2>2, QueueOfWaiters
  <2>3. CASE ~(j < i)
    <3>1. j + 1 \in 1..Len(queue) /\ j + 1 # i
      BY <2>1, <2>3, QueueOfWaiters
    <3> QED
      BY <1>4, <2>1, <2>3, <3>1
  <2> QED
    BY <2>2, <2>3
<1>8. \A j \in 1..Len(queue') : slot'[queue'[j]] = "waiting"
  <2> SUFFICES ASSUME NEW j \in 1..Len(queue')
               PROVE  slot'[queue'[j]] = "waiting"
    OBVIOUS
  <2>1. PICK k \in 1..Len(queue) : k # i /\ queue'[j] = queue[k]
    BY <1>7
  <2>2. queue[k] # c
    BY <1>5, <2>1
  <2>3. queue[k] \in Calls /\ slot[queue[k]] = "waiting"
    BY QueueOfWaiters
  <2> QED
    BY <1>3, <2>1, <2>2, <2>3
<1>9. \A d \in Calls : slot'[d] = "waiting" => \E j \in 1..Len(queue') : queue'[j] = d
  <2> SUFFICES ASSUME NEW d \in Calls, slot'[d] = "waiting"
               PROVE  \E j \in 1..Len(queue') : queue'[j] = d
    OBVIOUS
  <2>1. d # c /\ slot[d] = "waiting"
    BY <1>3
  <2>2. PICK k \in 1..Len(queue) : queue[k] = d
    BY <2>1, QueueOfWaiters
  <2>3. CASE k < i
    <3>1. k \in 1..Len(queue)-1 /\ k \in 1..Len(queue')
      BY <1>4, <2>3, QueueOfWaiters
    <3> QED
      BY <1>4, <2>2, <2>3, <3>1
  <2>4. CASE i < k
    <3>1. k - 1 \in 1..Len(queue)-1 /\ ~(k - 1 < i) /\ (k - 1) + 1 = k
      BY <2>4, QueueOfWaiters
    <3>2. queue'[k - 1] = queue[k]
      BY <1>4, <3>1
    <3> QED
      BY <1>4, <2>2, <3>1, <3>2
  <2> QED
    BY <1>1, <2>1, <2>2, <2>3, <2>4
<1>10. \A j, k \in 1..Len(queue') : j < k => queue'[j] < queue'[k]
  <2> SUFFICES ASSUME NEW j \in 1..Len(queue'), NEW k \in 1..Len(queue'), j < k
               PROVE  queue'[j] < queue'[k]
    OBVIOUS
  <2>1. PICK m \in 1..Len(queue) : queue'[j] = queue[m] /\ m = IF j < i THEN j ELSE j + 1
    BY <1>7
  <2>2. PICK n \in 1..Len(queue) : queue'[k] = queue[n] /\ n = IF k < i THEN k ELSE k + 1
    BY <1>7
  <2>3. m < n
    BY <2>1, <2>2
  <2> QED
    BY <2>1, <2>2, <2>3, QueueOfWaiters
<1>11. NoIdleSlot'
  <2>1. queue # <<>>
    BY <1>1, EmptySeq
  <2> QED
    BY <1>2, <2>1 DEF NoIdleSlot, SlotsInv, FairSlots
<1>12. FirstCome' /\ \A b, d \in Calls : d < b /\ slot'[b] # "none" => slot'[d] # "none"
  BY <1>2, <1>3 DEF FirstCome, SlotsInv, FairSlots, InOrderOfCalls
<1>13. active' \in 0..Maximum /\ active' = Cardinality(Held') /\ aborted' \in BOOLEAN
  BY <1>2, <1>6, QueueOfWaiters
<1> QED
  BY <1>3, <1>4, <1>8, <1>9, <1>10, <1>11, <1>12, <1>13, SlotsStay

\* A release: nobody is left in the queue, or the slot goes to the first one.
LEMMA ReleaseKeeps ==
  ASSUME NEW c \in Calls, SlotsInv, Release(c)
  PROVE  SlotsInv'
<1> DEFINE n == Drained(Maximum - (active - 1))
           taken == {queue[i] : i \in 1..n}
<1>1. /\ slot[c] = "held" /\ aborted' = aborted /\ aborted \in BOOLEAN
      /\ queue' = SubSeq(queue, n + 1, Len(queue))
      /\ active' = active - 1 + Counted(n)
      /\ slot' = [d \in Calls |-> IF d = c THEN "released"
                                  ELSE IF d \notin taken THEN slot[d]
                                  ELSE IF aborted THEN "rejected" ELSE "held"]
      /\ slot \in [Calls -> {"none", "waiting", "held", "rejected", "released"}]
  BY DEF Release, SlotsInv, SemaphoreTypeOK
<1>2. n = IF aborted \/ Len(queue) <= Maximum - (active - 1)
          THEN Len(queue) ELSE Maximum - (active - 1)
  BY DEF Drained
<1> HIDE DEF n
<1>3. slot' \in [Calls -> {"none", "waiting", "held", "rejected", "released"}]
  BY <1>1
<1>4. /\ IsFiniteSet(Held \ {c}) /\ Cardinality(Held \ {c}) = active - 1
      /\ active - 1 \in 0..Maximum /\ active \in 0..Maximum /\ Maximum \in Nat
  <2>1. c \in Held
    BY <1>1 DEF Held
  <2>2. /\ IsFiniteSet(Held \ {c}) /\ Cardinality(Held \ {c}) = Cardinality(Held) - 1
        /\ active = Cardinality(Held) /\ active \in 0..Maximum /\ Maximum \in Nat
    BY <2>1, QueueOfWaiters, FS_RemoveElement
  <2>3. Cardinality(Held \ {c}) \in Nat
    BY <2>2, FS_CardinalityType
  <2> QED
    BY <2>2, <2>3
<1>5. /\ NoIdleSlot /\ FirstCome
      /\ \A b, d \in Calls : d < b /\ slot[b] # "none" => slot[d] # "none"
  BY DEF SlotsInv, FairSlots, InOrderOfCalls
<1>6. CASE aborted \/ queue = <<>>
  <2>1. n = Len(queue)
    BY <1>2, <1>4, <1>6, EmptySeq
  <2>2. \A d \in Calls : d \in taken <=> slot[d] = "waiting"
    BY <2>1, QueueOfWaiters
  <2>3. \A d \in Calls : slot'[d] = IF d = c THEN "released"
                                    ELSE IF slot[d] = "waiting" THEN "rejected" ELSE slot[d]
    <3>1. CASE aborted
      BY <1>1, <2>2, <3>1
    <3>2. CASE queue = <<>>
      <4>1. \A d \in Calls : slot[d] # "waiting"
        BY <3>2, QueueOfWaiters, EmptySeq
      <4> QED
        BY <1>1, <2>2, <4>1
    <3> QED
      BY <1>6, <3>1, <3>2
  <2>4. queue' = <<>>
    BY <1>1, <2>1, QueueOfWaiters, SubSeqEmpty
  <2>5. queue' \in Seq(Calls) /\ Len(queue') = 0
    BY <2>4, EmptySeq
  <2>6. Held' = Held \ {c}
    BY <1>1, <2>3 DEF Held
  <2>7. active' = active - 1
    <3>1. Counted(n) = 0
      BY <1>6, <2>1, EmptySeq DEF Counted
    <3> QED
      BY <1>1, <1>4, <3>1
  <2>8. \A d \in Calls : slot'[d] # "waiting"
    BY <2>3
  <2>9. \A b, d \in Calls : d < b /\ slot'[b] # "none" => slot'[d] # "none"
    BY <1>1, <1>5, <2>3
  <2>10. NoIdleSlot' /\ FirstCome'
    BY <2>4, <2>8 DEF NoIdleSlot, FirstCome
  <2>11. active' \in 0..Maximum /\ active' = Cardinality(Held')
    BY <1>4, <2>6, <2>7
  <2> QED
    BY <1>1, <1>3, <2>5, <2>8, <2>9, <2>10, <2>11, SlotsStay
<1>7. CASE ~aborted /\ queue # <<>>
  <2>1. active = Maximum /\ Len(queue) \in Nat /\ Len(queue) >= 1
    BY <1>5, <1>7, QueueOfWaiters, EmptySeq DEF NoIdleSlot
  <2>2. n = 1
    <3>1. Maximum - (active - 1) = 1
      BY <1>4, <2>1
    <3>a. \A m \in Nat : m >= 1 /\ m <= 1 => m = 1
      OBVIOUS
    <3>2. Len(queue) <= 1 => Len(queue) = 1
      BY <2>1, <3>a
    <3> QED
      BY <1>2, <1>7, <3>1, <3>2
  <2> DEFINE first == queue[1]
  <2>3. taken = {first} /\ first \in Calls /\ slot[first] = "waiting" /\ first # c
    BY <1>1, <2>1, <2>2, QueueOfWaiters
  <2>4. \A d \in Calls : slot'[d] = IF d = c THEN "released"
                                    ELSE IF d = first THEN "held" ELSE slot[d]
    BY <1>1, <1>7, <2>3
  <2>5. Held' = (Held \ {c}) \cup {first} /\ first \notin Held
    BY <1>1, <2>3, <2>4 DEF Held
  <2>6. active' = active
    BY <1>1, <1>4, <1>7, <2>2 DEF Counted
  <2>7. active' \in 0..Maximum /\ active' = Cardinality(Held')
    <3>1. Cardinality((Held \ {c}) \cup {first}) = Cardinality(Held \ {c}) + 1
      BY <1>4, <2>5, FS_AddElement
    <3> QED
      BY <1>4, <2>5, <2>6, <3>1
  <2>8. /\ queue' \in Seq(Calls) /\ Len(queue') = Len(queue) - 1
        /\ \A i \in 1..Len(queue') : queue'[i] = queue[i + 1] /\ i + 1 \in 1..Len(queue)
    <3>1. queue' = SubSeq(queue, 2, Len(queue))
      BY <1>1, <2>2
    <3>2. \A i \in 2..Len(queue) : queue[i] \in Calls
      BY QueueOfWaiters
    <3>3. /\ queue' \in Seq(Calls)
          /\ Len(queue') = IF 2 <= Len(queue) THEN Len(queue) - 2 + 1 ELSE 0
          /\ \A i \in 1..Len(queue)-2+1 : queue'[i] = queue[2 + i - 1]
      BY <2>1, <3>1, <3>2, SubSeqProperties
    <3>4. Len(queue') = Len(queue) - 1
      <4>1. \A m \in Nat : m >= 1 => (IF 2 <= m THEN m - 2 + 1 ELSE 0) = m - 1
        OBVIOUS
      <4> DEFINE m == Len(queue)
      <4>2. m \in Nat /\ m >= 1 /\ Len(queue') = IF 2 <= m THEN m - 2 + 1 ELSE 0
        BY <2>1, <3>3
      <4> HIDE DEF m
      <4>3. Len(queue') = m - 1
        BY <4>1, <4>2
      <4> QED
        BY <4>3 DEF m
    <3>5. \A i \in 1..Len(queue') :
            i \in 1..Len(queue)-2+1 /\ 2 + i - 1 = i + 1 /\ i + 1 \in 1..Len(queue)
      BY <2>1, <3>4
    <3> QED
      BY <3>3, <3>4, <3>5
  <2>9. \A i \in 1..Len(queue') : first < queue'[i] /\ queue'[i] \in Calls
    <3> SUFFICES ASSUME NEW i \in 1..Len(queue')
                 PROVE  first < queue'[i] /\ queue'[i] \in Calls
      OBVIOUS
    <3>1. 1 < i + 1 /\ i + 1 \in 1..Len(queue) /\ 1 \in 1..Len(queue)
      BY <2>1, <2>8
    <3> QED
      BY <2>8, <3>1, QueueOfWaiters
  <2>10. \A d \in Calls : ~(d < d)
    BY ProcessAssumption
  <2>11. \A i \in 1..Len(queue') : slot'[queue'[i]] = "waiting"
    <3> SUFFICES ASSUME NEW i \in 1..Len(queue')
                 PROVE  slot'[queue'[i]] = "waiting"
      OBVIOUS
    <3>1. slot[queue'[i]] = "waiting" /\ queue'[i] \in Calls
      <4>1. i + 1 \in 1..Len(queue) /\ queue'[i] = queue[i + 1]
        BY <2>8
      <4>2. queue[i + 1] \in Calls /\ slot[queue[i + 1]] = "waiting"
        BY <4>1, QueueOfWaiters
      <4> QED
        BY <4>1, <4>2
    <3>2. queue'[i] # first
      BY <2>9, <2>10
    <3>3. queue'[i] # c
      BY <1>1, <3>1
    <3> QED
      BY <2>4, <3>1, <3>2, <3>3
  <2>12. \A d \in Calls : slot'[d] = "waiting" => \E i \in 1..Len(queue') : queue'[i] = d
    <3> SUFFICES ASSUME NEW d \in Calls, slot'[d] = "waiting"
                 PROVE  \E i \in 1..Len(queue') : queue'[i] = d
      OBVIOUS
    <3>1. slot[d] = "waiting" /\ d # first
      BY <2>4
    <3>2. PICK k \in 1..Len(queue) : queue[k] = d
      BY <3>1, QueueOfWaiters
    <3>3. k # 1
      BY <3>1, <3>2
    <3>4. k - 1 \in 1..Len(queue') /\ (k - 1) + 1 = k
      BY <2>1, <2>8, <3>3
    <3> QED
      BY <2>8, <3>2, <3>4
  <2>13. \A i, j \in 1..Len(queue') : i < j => queue'[i] < queue'[j]
    <3> SUFFICES ASSUME NEW i \in 1..Len(queue'), NEW j \in 1..Len(queue'), i < j
                 PROVE  queue'[i] < queue'[j]
      OBVIOUS
    <3>1. i + 1 < j + 1 /\ i + 1 \in 1..Len(queue) /\ j + 1 \in 1..Len(queue)
      BY <2>8
    <3> QED
      BY <2>8, <3>1, QueueOfWaiters
  <2>14. \A b, d \in Calls : d < b /\ slot'[b] # "none" => slot'[d] # "none"
    BY <1>1, <1>5, <2>3, <2>4
  <2>15. NoIdleSlot'
    BY <2>1, <2>6 DEF NoIdleSlot
  <2>16. FirstCome'
    <3> SUFFICES ASSUME NEW b \in Calls, NEW d \in Calls,
                        b < d, slot'[d] \in {"held", "released"}, slot'[b] = "waiting"
                 PROVE  FALSE
      BY DEF FirstCome
    <3>1. slot[b] = "waiting"
      BY <2>4
    <3>2. slot[d] \notin {"held", "released"}
      BY <1>5, <3>1 DEF FirstCome
    <3>3. d = first
      BY <1>1, <2>4, <3>2
    <3>4. PICK i \in 1..Len(queue') : queue'[i] = b
      BY <2>12
    <3>5. first < b
      BY <2>9, <3>4
    <3>6. b \in Nat /\ d \in Nat
      BY ProcessAssumption
    <3> QED
      BY <3>3, <3>5, <3>6
  <2> HIDE DEF first
  <2> QED
    BY <1>1, <1>3, <2>7, <2>8, <2>11, <2>12, <2>13, <2>14, <2>15, <2>16, SlotsStay
<1> QED
  BY <1>6, <1>7

LEMMA AbortRaisedKeeps ==
  ASSUME SlotsInv, AbortRaised
  PROVE  SlotsInv'
BY DEF SlotsInv, AbortRaised, SemaphoreTypeOK, InOrderOfCalls, FairSlots, SlotsBalanced,
       NoIdleSlot, FirstCome

-----------------------------------------------------------------------------
(* The cache of instance profiles *)

\* Entries of different origins.
Distinct(s) == \A i, j \in 1..Len(s) : s[i].origin = s[j].origin => i = j

LEMMA EntriesOf ==
  ASSUME NEW s \in Seq(Entries)
  PROVE  /\ Len(s) \in Nat /\ DOMAIN s = 1..Len(s) /\ \A i \in 1..Len(s) : s[i] \in Entries
         /\ ToSet(s) = {s[i] : i \in 1..Len(s)}
BY LenProperties, ElementOfSeq DEF ToSet

LEMMA EntryAdded ==
  ASSUME NEW s \in Seq(Entries), Distinct(s),
         NEW e \in Entries, \A x \in ToSet(s) : x.origin # e.origin
  PROVE  /\ Append(s, e) \in Seq(Entries) /\ Distinct(Append(s, e))
         /\ Len(Append(s, e)) = Len(s) + 1
         /\ ToSet(Append(s, e)) = ToSet(s) \cup {e}
<1> DEFINE t == Append(s, e)
<1>1. /\ t \in Seq(Entries) /\ Len(t) = Len(s) + 1 /\ Len(s) \in Nat
      /\ \A i \in 1..Len(s) : t[i] = s[i]
      /\ t[Len(s) + 1] = e
  BY AppendProperties, EntriesOf
<1> HIDE DEF t
<1>2. \A i \in 1..Len(t) : i \in 1..Len(s) \/ i = Len(s) + 1
  BY <1>1
<1>3. 1..Len(s) \subseteq 1..Len(t) /\ Len(s) + 1 \in 1..Len(t)
  BY <1>1
<1>4. ToSet(t) = ToSet(s) \cup {e}
  BY <1>1, <1>2, <1>3, EntriesOf
<1>5. \A i \in 1..Len(s) : s[i].origin # e.origin
  BY EntriesOf
<1>6. Distinct(t)
  BY <1>1, <1>2, <1>5 DEF Distinct
<1> QED
  BY <1>1, <1>4, <1>6 DEF t

LEMMA FirstEntryRemoved ==
  ASSUME NEW s \in Seq(Entries), Distinct(s), s # <<>>
  PROVE  /\ Tail(s) \in Seq(Entries) /\ Distinct(Tail(s)) /\ Len(Tail(s)) = Len(s) - 1
         /\ ToSet(s) = ToSet(Tail(s)) \cup {Head(s)}
<1> DEFINE t == Tail(s)
<1>1. /\ t \in Seq(Entries) /\ Len(t) = Len(s) - 1 /\ Len(s) \in Nat
      /\ \A i \in 1..Len(t) : t[i] = s[i + 1]
  BY HeadTailProperties, EntriesOf
<1>2. Head(s) = s[1]
  OBVIOUS
<1> HIDE DEF t
<1>3. 1 \in 1..Len(s)
  BY EntriesOf, EmptySeq
<1>4. \A i \in 1..Len(t) : i + 1 \in 1..Len(s)
  BY <1>1
<1>5. \A i \in 1..Len(s) : i = 1 \/ (i - 1 \in 1..Len(t) /\ (i - 1) + 1 = i)
  BY <1>1
<1>6. \A i \in 1..Len(s) : i = 1 \/ \E j \in 1..Len(t) : t[j] = s[i]
  BY <1>1, <1>5
<1>7. ToSet(s) = ToSet(t) \cup {s[1]}
  <2>1. ToSet(s) = {s[i] : i \in 1..Len(s)} /\ ToSet(t) = {t[i] : i \in 1..Len(t)}
    BY <1>1, EntriesOf
  <2>2. ToSet(s) \subseteq ToSet(t) \cup {s[1]}
    BY <1>6, <2>1
  <2>3. ToSet(t) \cup {s[1]} \subseteq ToSet(s)
    BY <1>1, <1>3, <1>4, <2>1
  <2> QED
    BY <2>2, <2>3
<1>8. Distinct(t)
  <2> SUFFICES ASSUME NEW i \in 1..Len(t), NEW j \in 1..Len(t), t[i].origin = t[j].origin
               PROVE  i = j
    BY DEF Distinct
  <2>1. s[i + 1].origin = s[j + 1].origin
    BY <1>1
  <2>2. i + 1 = j + 1
    BY <1>4, <2>1 DEF Distinct
  <2> QED
    BY <2>2
<1> QED
  BY <1>1, <1>2, <1>7, <1>8 DEF t

LEMMA WithoutOrigin ==
  ASSUME NEW s \in Seq(Entries), Distinct(s), NEW o
  PROVE  /\ Without(s, o) \in Seq(Entries) /\ Distinct(Without(s, o))
         /\ ToSet(Without(s, o)) = {e \in ToSet(s) : e.origin # o}
         /\ \/ /\ \A e \in ToSet(s) : e.origin # o
               /\ Without(s, o) = s
            \/ /\ \E e \in ToSet(s) : e.origin = o
               /\ Len(Without(s, o)) = Len(s) - 1
<1> DEFINE At == {i \in DOMAIN s : s[i].origin = o}
<1>1. CASE At = {}
  <2>1. Without(s, o) = s
    BY <1>1 DEF Without
  <2>2. \A e \in ToSet(s) : e.origin # o
    BY <1>1, EntriesOf
  <2> QED
    BY <2>1, <2>2
<1>2. CASE At # {}
  <2> DEFINE i == CHOOSE j \in At : TRUE
             t == RemoveAt(s, i)
  <2>1. i \in At /\ Without(s, o) = t
    BY <1>2 DEF Without
  <2> HIDE DEF i, At
  <2>2. i \in 1..Len(s) /\ s[i].origin = o /\ Len(s) \in Nat
    BY <2>1, EntriesOf DEF At
  <2>3. /\ t \in Seq(Entries) /\ Len(t) = Len(s) - 1
        /\ \A j \in 1..Len(s)-1 : t[j] = IF j < i THEN s[j] ELSE s[j + 1]
    BY <2>2, RemoveAtProperties
  <2> HIDE DEF t
  <2> DEFINE was(j) == IF j < i THEN j ELSE j + 1
  <2>4. \A j \in 1..Len(t) : was(j) \in 1..Len(s) /\ was(j) # i /\ t[j] = s[was(j)]
    BY <2>2, <2>3
  <2>5. \A j, k \in 1..Len(t) : was(j) = was(k) => j = k
    BY <2>2, <2>3
  <2>6. \A k \in 1..Len(s) : k # i => \E j \in 1..Len(t) : was(j) = k
    <3> SUFFICES ASSUME NEW k \in 1..Len(s), k # i
                 PROVE  \E j \in 1..Len(t) : was(j) = k
      OBVIOUS
    <3>1. CASE k < i
      <4>1. k \in 1..Len(t) /\ was(k) = k
        BY <2>2, <2>3, <3>1
      <4> QED
        BY <4>1
    <3>2. CASE i < k
      <4>1. k - 1 \in 1..Len(t) /\ was(k - 1) = k
        BY <2>2, <2>3, <3>2
      <4> QED
        BY <4>1
    <3> QED
      BY <2>2, <3>1, <3>2
  <2> HIDE DEF was
  <2>7. \A k \in 1..Len(s) : s[k].origin = o => k = i
    BY <2>2 DEF Distinct
  <2>8. ToSet(s) = {s[k] : k \in 1..Len(s)} /\ ToSet(t) = {t[j] : j \in 1..Len(t)}
    BY <2>3, EntriesOf
  <2>9. ToSet(t) \subseteq {e \in ToSet(s) : e.origin # o}
    BY <2>4, <2>7, <2>8
  <2>10. {e \in ToSet(s) : e.origin # o} \subseteq ToSet(t)
    <3> SUFFICES ASSUME NEW k \in 1..Len(s), s[k].origin # o
                 PROVE  s[k] \in ToSet(t)
      BY <2>8
    <3>1. PICK j \in 1..Len(t) : was(j) = k
      BY <2>2, <2>6
    <3> QED
      BY <2>4, <2>8, <3>1
  <2>11. Distinct(t)
    <3> SUFFICES ASSUME NEW j \in 1..Len(t), NEW k \in 1..Len(t), t[j].origin = t[k].origin
                 PROVE  j = k
      BY DEF Distinct
    <3>1. was(j) = was(k)
      BY <2>4 DEF Distinct
    <3> QED
      BY <2>5, <3>1
  <2>12. \E e \in ToSet(s) : e.origin = o
    BY <2>2, <2>8
  <2> QED
    BY <2>1, <2>3, <2>9, <2>10, <2>11, <2>12
<1> QED
  BY <1>1, <1>2

\* The entries of the cache, as a set.
LEMMA CacheHoldsEntries ==
  ASSUME CacheInv
  PROVE  /\ cache \in Seq(Entries) /\ Distinct(cache) /\ Len(cache) <= MaxOrigins
         /\ Len(cache) \in Nat /\ MaxOrigins \in Nat /\ MaxOrigins >= 1
         /\ \A e \in ToSet(cache) : /\ e \in Entries
                                    /\ phase[e.by] # "idle" /\ origin[e.by] = e.origin
                                    /\ detection[e.by] # "handled"
         /\ \A d, e \in ToSet(cache) : d.origin = e.origin => d = e
<1>1. cache \in Seq(Entries) /\ Len(cache) <= MaxOrigins
  BY DEF CacheInv, CacheTypeOK
<1>2. Distinct(cache)
  BY <1>1, EntriesOf DEF CacheInv, CacheTypeOK, Distinct
<1>3. MaxOrigins \in Nat /\ MaxOrigins >= 1
  BY CacheAssumption
<1>4. \A e \in ToSet(cache) : /\ e \in Entries
                              /\ phase[e.by] # "idle" /\ origin[e.by] = e.origin
                              /\ detection[e.by] # "handled"
  BY <1>1, EntriesOf DEF CacheInv, EntriesAreOwn
<1>5. \A d, e \in ToSet(cache) : d.origin = e.origin => d = e
  BY <1>1, <1>2, EntriesOf DEF Distinct
<1> QED
  BY <1>1, <1>2, <1>3, <1>4, <1>5, EntriesOf

\* What has to be shown of a step.
LEMMA CacheStays ==
  ASSUME cache' \in Seq(Entries), Distinct(cache'), Len(cache') <= MaxOrigins,
         detection' \in [Calls -> {"none", "pending", "ready", "failed", "handled"}],
         awaits' \in [Calls -> SUBSET Calls],
         \A e \in ToSet(cache') : /\ phase'[e.by] # "idle" /\ origin'[e.by] = e.origin
                                  /\ detection'[e.by] # "handled"
  PROVE  CacheInv'
<1>1. /\ DOMAIN cache' = 1..Len(cache')
      /\ \A i \in 1..Len(cache') : cache'[i] \in ToSet(cache')
  BY EntriesOf
<1>2. CacheTypeOK'
  BY <1>1 DEF CacheTypeOK, Distinct
<1>3. EntriesAreOwn'
  BY <1>1 DEF EntriesAreOwn
<1> QED
  BY <1>2, <1>3 DEF CacheInv

LEMMA CacheBegins == Init => CacheInv
<1> SUFFICES ASSUME Init PROVE CacheInv
  OBVIOUS
<1>1. cache = <<>> /\ cache \in Seq(Entries) /\ Len(cache) = 0 /\ DOMAIN cache = {}
  BY EmptySeq DEF Init, CacheInit
<1>2. Len(cache) <= MaxOrigins
  BY <1>1, CacheAssumption
<1>3. detection \in [Calls -> {"none", "pending", "ready", "failed", "handled"}]
      /\ awaits \in [Calls -> SUBSET Calls]
  BY DEF Init, CacheInit
<1> QED
  BY <1>1, <1>2, <1>3 DEF CacheInv, CacheTypeOK, EntriesAreOwn

\* What an entry that is gone may have been: its detection has failed, it has expired, or it
\* was the one used least recently of a full cache that has got a new one.
MayGo(e) ==
  \/ detection[e.by] = "failed"
  \/ e.expires <= now
  \/ /\ Len(cache) = MaxOrigins /\ e = Head(cache)
     /\ \E new \in ToSet(cache') : ~Keeps(cache, new)

LEMMA KeepsMembers ==
  ASSUME NEW s, NEW e
  PROVE  Keeps(s, e) <=> e \in ToSet(s)
BY DEF Keeps, ToSet

\* A field asks for the profile of an instance.
LEMMA ProfileForOutcome ==
  ASSUME NEW c \in Calls, NEW o \in Origins, CacheInv, CallTypes, ProfileFor(c, o)
  PROVE  /\ cache' \in Seq(Entries) /\ Distinct(cache') /\ Len(cache') <= MaxOrigins
         /\ \A e \in ToSet(cache') :
              \/ e \in ToSet(cache)
              \/ e.by = c /\ e.origin = o /\ detection'[c] = "pending"
         /\ detection' = detection \/ detection' = [detection EXCEPT ![c] = "pending"]
         /\ awaits' \in [Calls -> SUBSET Calls]
         /\ \A e \in ToSet(cache) : e \notin ToSet(cache') => MayGo(e)
<1> DEFINE cached == {e \in ToSet(cache) : e.origin = o}
           fresh  == {e \in cached : e.expires > now}
           rest   == Without(cache, o)
<1>1. /\ rest \in Seq(Entries) /\ Distinct(rest)
      /\ ToSet(rest) = {e \in ToSet(cache) : e.origin # o}
      /\ \/ (\A e \in ToSet(cache) : e.origin # o) /\ rest = cache
         \/ (\E e \in ToSet(cache) : e.origin = o) /\ Len(rest) = Len(cache) - 1
  BY CacheHoldsEntries, WithoutOrigin
<1>2. awaits \in [Calls -> SUBSET Calls] /\ now \in Nat
  BY ProcessAssumption DEF CacheInv, CacheTypeOK, CallTypes
<1>3. CASE fresh # {}
  <2>1. PICK e \in fresh : cache' = Append(rest, e) /\ awaits' = [awaits EXCEPT ![c] = {e.by}]
                           /\ detection' = detection
    BY <1>3 DEF ProfileFor
  <2> HIDE DEF rest
  <2>2. e \in Entries /\ e \in ToSet(cache) /\ e.origin = o /\ e.by \in Calls
    BY CacheHoldsEntries DEF Entries
  <2>3. \A x \in ToSet(rest) : x.origin # e.origin
    BY <1>1, <2>2
  <2>4. /\ cache' \in Seq(Entries) /\ Distinct(cache')
        /\ Len(cache') = Len(rest) + 1 /\ ToSet(cache') = ToSet(rest) \cup {e}
    BY <1>1, <2>1, <2>2, <2>3, EntryAdded
  <2>5. Len(cache') <= MaxOrigins
    BY <1>1, <2>2, <2>4, CacheHoldsEntries
  <2>6. ToSet(cache') = ToSet(cache)
    BY <1>1, <2>2, <2>4, CacheHoldsEntries
  <2>7. awaits' \in [Calls -> SUBSET Calls]
    BY <1>2, <2>1, <2>2
  <2> QED
    BY <2>1, <2>4, <2>5, <2>6, <2>7
<1>4. CASE fresh = {}
  <2> DEFINE new  == [origin |-> o, by |-> c, expires |-> now + TimeToLive]
             room == MakeRoom(rest)
  <2>1. /\ cache' = Append(room, new)
        /\ detection' = [detection EXCEPT ![c] = "pending"]
        /\ awaits' = [awaits EXCEPT ![c] = {c}]
    BY <1>4 DEF ProfileFor
  <2>2. new \in Entries
    BY CacheAssumption, ProcessAssumption DEF CallTypes, Entries
  <2>3. new.by = c /\ new.origin = o
    OBVIOUS
  <2>4. detection'[c] = "pending"
    BY <2>1 DEF CacheInv, CacheTypeOK
  <2>5. awaits' \in [Calls -> SUBSET Calls]
    BY <1>2, <2>1
  <2> HIDE DEF new, rest
  <2>6. /\ room \in Seq(Entries) /\ Distinct(room) /\ Len(room) + 1 <= MaxOrigins
        /\ ToSet(room) \subseteq ToSet(rest)
        /\ \/ ToSet(rest) = ToSet(room)
           \/ /\ rest = cache /\ Len(cache) = MaxOrigins
              /\ ToSet(rest) = ToSet(room) \cup {Head(cache)}
    <3>1. Len(rest) \in Nat /\ Len(rest) <= Len(cache)
      BY <1>1, CacheHoldsEntries, EntriesOf
    <3>2. CASE Len(rest) >= MaxOrigins
      <4>1. rest = cache /\ Len(cache) = MaxOrigins
        BY <1>1, <3>1, <3>2, CacheHoldsEntries
      <4>2. rest # <<>> /\ room = Tail(rest)
        BY <3>2, <4>1, CacheHoldsEntries, EmptySeq DEF MakeRoom
      <4>3. /\ room \in Seq(Entries) /\ Distinct(room) /\ Len(room) = Len(rest) - 1
            /\ ToSet(rest) = ToSet(room) \cup {Head(rest)}
        BY <1>1, <4>2, FirstEntryRemoved
      <4> QED
        BY <4>1, <4>3, CacheHoldsEntries
    <3>3. CASE ~(Len(rest) >= MaxOrigins)
      <4>1. room = rest
        BY <3>3 DEF MakeRoom
      <4> QED
        BY <1>1, <3>1, <3>3, <4>1, CacheHoldsEntries
    <3> QED
      BY <3>2, <3>3
  <2> HIDE DEF room
  <2>7. \A x \in ToSet(room) : x.origin # new.origin
    BY <1>1, <2>3, <2>6
  <2>8. /\ cache' \in Seq(Entries) /\ Distinct(cache')
        /\ Len(cache') = Len(room) + 1 /\ ToSet(cache') = ToSet(room) \cup {new}
    BY <2>1, <2>2, <2>6, <2>7, EntryAdded
  <2>9. \A e \in ToSet(cache') :
          \/ e \in ToSet(cache)
          \/ e.by = c /\ e.origin = o /\ detection'[c] = "pending"
    BY <1>1, <2>3, <2>4, <2>6, <2>8
  <2>10. ASSUME NEW e \in ToSet(cache), e \notin ToSet(cache')
         PROVE  MayGo(e)
    <3>1. e \in Entries /\ e.expires \in Nat
      BY CacheHoldsEntries, CacheAssumption, ProcessAssumption DEF Entries
    <3>2. CASE e.origin = o
      <4>1. ~(e.expires > now)
        BY <1>4, <3>2
      <4> QED
        BY <1>2, <3>1, <4>1 DEF MayGo
    <3>3. CASE e.origin # o
      <4>1. e \in ToSet(rest) /\ e \notin ToSet(room)
        BY <1>1, <2>8, <2>10, <3>3
      <4>2. rest = cache /\ Len(cache) = MaxOrigins /\ e = Head(cache)
        BY <2>6, <4>1
      <4>3. \A x \in ToSet(cache) : x.origin # o
        BY <1>1, <4>2
      <4>4. new \in ToSet(cache') /\ new \notin ToSet(cache)
        BY <2>3, <2>8, <4>3
      <4> QED
        BY <4>2, <4>4, KeepsMembers DEF MayGo
    <3> QED
      BY <3>2, <3>3
  <2> QED
    BY <2>1, <2>5, <2>6, <2>8, <2>9, <2>10
<1> QED
  BY <1>3, <1>4

LEMMA DetectKeeps ==
  ASSUME NEW c \in Calls, CallTypes, CacheInv, Detect(c)
  PROVE  /\ CacheInv'
         /\ \A e \in ToSet(cache) : e \notin ToSet(cache') => MayGo(e)
<1>1. PICK o \in Origins : ProfileFor(c, o) /\ origin' = [origin EXCEPT ![c] = o]
  BY DEF Detect
<1>2. phase[c] = "idle" /\ phase' = [phase EXCEPT ![c] = "detecting"]
  BY DEF Detect, To
<1>3. /\ cache' \in Seq(Entries) /\ Distinct(cache') /\ Len(cache') <= MaxOrigins
      /\ \A e \in ToSet(cache') :
           \/ e \in ToSet(cache)
           \/ e.by = c /\ e.origin = o /\ detection'[c] = "pending"
      /\ detection' = detection \/ detection' = [detection EXCEPT ![c] = "pending"]
      /\ awaits' \in [Calls -> SUBSET Calls]
      /\ \A e \in ToSet(cache) : e \notin ToSet(cache') => MayGo(e)
  BY <1>1, ProfileForOutcome
<1>4. /\ detection \in [Calls -> {"none", "pending", "ready", "failed", "handled"}]
      /\ phase \in [Calls -> Phases] /\ origin \in [Calls -> Origins]
  BY DEF CacheInv, CacheTypeOK, CallTypes
<1>5. detection' \in [Calls -> {"none", "pending", "ready", "failed", "handled"}]
  BY <1>3, <1>4
<1>6. ASSUME NEW e \in ToSet(cache')
      PROVE  /\ phase'[e.by] # "idle" /\ origin'[e.by] = e.origin
             /\ detection'[e.by] # "handled"
  <2>1. CASE e \in ToSet(cache)
    <3>1. /\ e.by \in Calls /\ phase[e.by] # "idle" /\ origin[e.by] = e.origin
          /\ detection[e.by] # "handled"
      BY <2>1, CacheHoldsEntries DEF Entries
    <3>2. e.by # c
      BY <1>2, <3>1
    <3>3. phase'[e.by] = phase[e.by] /\ origin'[e.by] = origin[e.by]
      BY <1>1, <1>2, <1>4, <3>1, <3>2
    <3>4. detection'[e.by] = detection[e.by]
      BY <1>3, <1>4, <3>1, <3>2
    <3> QED
      BY <3>1, <3>3, <3>4
  <2>2. CASE e.by = c /\ e.origin = o /\ detection'[c] = "pending"
    <3>1. phase'[c] = "detecting" /\ origin'[c] = o
      BY <1>1, <1>2, <1>4
    <3> QED
      BY <2>2, <3>1
  <2> QED
    BY <1>3, <2>1, <2>2
<1> QED
  BY <1>3, <1>5, <1>6, CacheStays

LEMMA SettleKeeps ==
  ASSUME NEW c \in Calls, CacheInv, Settle(c)
  PROVE  CacheInv' /\ cache' = cache
<1>1. PICK outcome \in {"ready", "failed"} : detection' = [detection EXCEPT ![c] = outcome]
  BY DEF Settle, DetectionSettles
<1>2. UNCHANGED <<cache, awaits, phase, origin>>
  BY DEF Settle, DetectionSettles, callVars
<1>3. /\ detection \in [Calls -> {"none", "pending", "ready", "failed", "handled"}]
      /\ awaits \in [Calls -> SUBSET Calls]
  BY DEF CacheInv, CacheTypeOK
<1>4. detection' \in [Calls -> {"none", "pending", "ready", "failed", "handled"}]
  BY <1>1, <1>3
<1>5. \A e \in ToSet(cache') : /\ phase'[e.by] # "idle" /\ origin'[e.by] = e.origin
                               /\ detection'[e.by] # "handled"
  BY <1>1, <1>2, <1>3, CacheHoldsEntries DEF Entries
<1>6. cache' \in Seq(Entries) /\ Distinct(cache') /\ Len(cache') <= MaxOrigins
  BY <1>2, CacheHoldsEntries
<1> QED
  BY <1>2, <1>3, <1>4, <1>5, <1>6, CacheStays

\* The handler of a failure finds no entry of its own detection but the one it removes.
LEMMA CatchKeeps ==
  ASSUME NEW c \in Calls, CacheInv, Catch(c)
  PROVE  /\ CacheInv'
         /\ \A e \in ToSet(cache) : e \notin ToSet(cache') => MayGo(e)
<1> DEFINE o == origin[c]
<1>1. /\ detection[c] = "failed" /\ detection' = [detection EXCEPT ![c] = "handled"]
      /\ FailureForgets(c, o)
      /\ UNCHANGED <<awaits, phase, origin>>
  BY DEF Catch, FailureCaught, callVars
<1>2. /\ detection \in [Calls -> {"none", "pending", "ready", "failed", "handled"}]
      /\ awaits \in [Calls -> SUBSET Calls]
  BY DEF CacheInv, CacheTypeOK
<1>3. detection' \in [Calls -> {"none", "pending", "ready", "failed", "handled"}]
  BY <1>1, <1>2
<1> HIDE DEF o
<1>4. /\ cache' \in Seq(Entries) /\ Distinct(cache') /\ Len(cache') <= MaxOrigins
      /\ ToSet(cache') = {e \in ToSet(cache) : e.by # c}
  <2>1. \A e \in ToSet(cache) : e.by = c => e.origin = o
    BY CacheHoldsEntries DEF o
  <2>2. CASE \E e \in ToSet(cache) : e.origin = o /\ e.by = c
    <3>1. cache' = Without(cache, o)
      BY <1>1, <2>2 DEF FailureForgets
    <3>2. /\ cache' \in Seq(Entries) /\ Distinct(cache')
          /\ ToSet(cache') = {e \in ToSet(cache) : e.origin # o}
          /\ cache' = cache \/ Len(cache') = Len(cache) - 1
      BY <3>1, CacheHoldsEntries, WithoutOrigin
    <3>3. \A e \in ToSet(cache) : e.origin = o => e.by = c
      BY <2>2, CacheHoldsEntries
    <3>4. Len(cache') <= MaxOrigins
      BY <3>2, CacheHoldsEntries
    <3> QED
      BY <2>1, <3>2, <3>3, <3>4
  <2>3. CASE ~\E e \in ToSet(cache) : e.origin = o /\ e.by = c
    <3>1. cache' = cache
      BY <1>1, <2>3 DEF FailureForgets
    <3> QED
      BY <2>1, <2>3, <3>1, CacheHoldsEntries
  <2> QED
    BY <2>2, <2>3
<1>5. \A e \in ToSet(cache') : /\ phase'[e.by] # "idle" /\ origin'[e.by] = e.origin
                               /\ detection'[e.by] # "handled"
  BY <1>1, <1>2, <1>4, CacheHoldsEntries DEF Entries
<1>6. \A e \in ToSet(cache) : e \notin ToSet(cache') => MayGo(e)
  BY <1>1, <1>4 DEF MayGo
<1> QED
  BY <1>1, <1>2, <1>3, <1>4, <1>5, <1>6, CacheStays

-----------------------------------------------------------------------------
(* The limiter *)

Registering(k) == {c \in Calls : phase[c] = "registering" /\ key[c] = k}

OfKey(t, k)    == {c \in AdmittedSince(t) : key[c] = k}
OfClient(t, k) == {c \in AdmittedSince(t) : key[c].client = k.client}

LEMMA InServiceSince ==
  ASSUME NEW t
  PROVE  AdmittedSince(t) = {c \in InService : at[c] > t - Window /\ at[c] <= t}
BY DEF AdmittedSince, InService

LEMMA LimiterConstants ==
  /\ Window \in Nat /\ Window >= 1
  /\ MaxPerKey \in Nat /\ MaxPerKey >= 1
  /\ MaxPerClient \in Nat /\ MaxPerClient >= 1
  /\ MaxGlobal \in Nat /\ MaxGlobal >= 1
  /\ MaxTrackedKeys \in Nat /\ MaxTrackedKeys >= 1
  /\ MaxLiveKeys \in Nat /\ MaxLiveKeys >= 1
  /\ EndOfTime \in Nat /\ IsFiniteSet(Calls) /\ IsFiniteSet(Keys)
<1>1. \A m \in {Window, MaxPerKey, MaxPerClient, MaxGlobal, MaxTrackedKeys, MaxLiveKeys} :
        m \in Nat /\ m >= 1
  BY LimiterAssumption
<1> QED
  BY <1>1, LimiterAssumption, ProcessAssumption

\* Stamps are finitely many.
LEMMA StampsAreFinite == IsFiniteSet(Stamps)
<1> DEFINE pair == [x \in Stamps |-> <<x.by, x.at>>]
           pairs == Calls \X (0..EndOfTime)
<1>1. pair \in [Stamps -> pairs]
  BY DEF Stamps
<1>2. \A x, y \in Stamps : pair[x] = pair[y] => x = y
  BY DEF Stamps
<1>3. pair \in Injection(Stamps, pairs)
  BY <1>1, <1>2 DEF Injection, IsInjective
<1>4. IsFiniteSet(0..EndOfTime)
  BY LimiterConstants, FS_Interval
<1>5. IsFiniteSet(pairs)
  BY <1>4, LimiterConstants, FS_Product
<1> HIDE DEF pair, pairs
<1> QED
  BY <1>3, <1>5, FS_Injection

\* Calls that are on a list are no more than the list is long.
LEMMA ListedAreCounted ==
  ASSUME NEW C \in SUBSET Calls, NEW s \in SUBSET Stamps, \A c \in C : Stamp(c) \in s
  PROVE  /\ IsFiniteSet(C) /\ IsFiniteSet(s)
         /\ Cardinality(C) \in Nat /\ Cardinality(s) \in Nat
         /\ Cardinality(C) <= Cardinality(s)
<1> DEFINE stamp == [c \in C |-> Stamp(c)]
<1>1. IsFiniteSet(s)
  BY StampsAreFinite, FS_Subset
<1>2. \A c, d \in C : Stamp(c) = Stamp(d) => c = d
  BY DEF Stamp
<1>3. stamp \in Injection(C, s)
  BY <1>2 DEF Injection, IsInjective
<1> HIDE DEF stamp
<1>4. IsFiniteSet(C) /\ Cardinality(C) <= Cardinality(s)
  BY <1>1, <1>3, FS_Injection
<1> QED
  BY <1>1, <1>4, FS_CardinalityType

\* One more call than those on a list that is not full keeps the limit.
LEMMA OneMore ==
  ASSUME NEW c \in Calls, NEW C \in SUBSET Calls, NEW s \in SUBSET Stamps,
         \A d \in C : Stamp(d) \in s,
         NEW limit \in Nat, ~(Cardinality(s) >= limit),
         NEW D \in SUBSET (C \cup {c})
  PROVE  Cardinality(D) <= limit
<1>1. /\ IsFiniteSet(C) /\ Cardinality(C) \in Nat /\ Cardinality(s) \in Nat
      /\ Cardinality(C) <= Cardinality(s)
  BY ListedAreCounted
<1>2. /\ IsFiniteSet(C \cup {c})
      /\ Cardinality(C \cup {c}) = IF c \in C THEN Cardinality(C) ELSE Cardinality(C) + 1
  BY <1>1, FS_AddElement
<1>3. IsFiniteSet(D) /\ Cardinality(D) <= Cardinality(C \cup {c})
  BY <1>2, FS_Subset
<1>4. Cardinality(D) \in Nat
  BY <1>3, FS_CardinalityType
<1> QED
  BY <1>1, <1>2, <1>3, <1>4

LEMMA LimiterBegins == Init => LimiterInv
<1> SUFFICES ASSUME Init PROVE LimiterInv
  OBVIOUS
<1> USE DEF Init
<1>1. /\ starts = [k \in Keys |-> {}] /\ clientStarts = [d \in Clients |-> {}]
      /\ globalStarts = {} /\ nextCleanupAt = 0 /\ live = [k \in Keys |-> 0]
      /\ \A c \in Calls : phase[c] = "idle"
      /\ now = 0
  BY DEF LimiterInit
<1>2. Cardinality(Calls) \in Nat
  BY LimiterConstants, FS_CardinalityType
<1>3. LimiterTypeOK
  BY <1>1, <1>2, LimiterConstants DEF LimiterTypeOK
<1>4. InService = {}
  BY <1>1 DEF InService
<1>5. Listed /\ ListsAreRecent
  BY <1>1, <1>4, LimiterConstants DEF Listed, ListsAreRecent
<1>6. RatesHold
  <2>1. \A t \in 0..EndOfTime : AdmittedSince(t) = {}
    BY <1>1 DEF AdmittedSince
  <2>2. \A k \in Keys : {c \in Calls : phase[c] = "registering" /\ key[c] = k} = {}
    BY <1>1
  <2>3. Live = {}
    BY <1>1 DEF Live
  <2>4. \A t \in 0..EndOfTime, k \in Keys :
          /\ {c \in AdmittedSince(t) : key[c] = k} = {}
          /\ {c \in AdmittedSince(t) : key[c].client = k.client} = {}
    BY <2>1
  <2>5. Cardinality({}) = 0
    BY FS_EmptySet
  <2>6. \A t \in 0..EndOfTime, k \in Keys :
          /\ Cardinality({c \in AdmittedSince(t) : key[c] = k}) <= MaxPerKey
          /\ Cardinality({c \in AdmittedSince(t) : key[c].client = k.client}) <= MaxPerClient
          /\ Cardinality(AdmittedSince(t)) <= MaxGlobal
    <3> SUFFICES ASSUME NEW t \in 0..EndOfTime, NEW k \in Keys
                 PROVE  /\ Cardinality({c \in AdmittedSince(t) : key[c] = k}) <= MaxPerKey
                        /\ Cardinality({c \in AdmittedSince(t) : key[c].client = k.client})
                              <= MaxPerClient
                        /\ Cardinality(AdmittedSince(t)) <= MaxGlobal
      OBVIOUS
    <3>1. 0 <= MaxPerKey /\ 0 <= MaxPerClient /\ 0 <= MaxGlobal
      BY LimiterConstants
    <3>2. /\ {c \in AdmittedSince(t) : key[c] = k} = {}
          /\ {c \in AdmittedSince(t) : key[c].client = k.client} = {}
          /\ AdmittedSince(t) = {}
      BY <2>1, <2>4
    <3> QED
      BY <2>5, <3>1, <3>2
  <2>7. \A k \in Keys :
          live[k] = Cardinality({c \in Calls : phase[c] = "registering" /\ key[c] = k})
    BY <1>1, <2>2, <2>5
  <2>8. Cardinality(Live) <= MaxLiveKeys
    BY <2>3, <2>5, LimiterConstants
  <2> QED
    BY <2>6, <2>7, <2>8 DEF RatesHold
<1>7. SlotsAreOfQueries
  BY DEF SlotsAreOfQueries, SemaphoreInit
<1> QED
  BY <1>3, <1>5, <1>6, <1>7 DEF LimiterInv

\* A step that leaves the limiter alone, and the calls it knows of.
LEMMA LimiterStays ==
  ASSUME LimiterInv, CallTypes, UNCHANGED <<limiterVars, key, at>>, now' = now \/ now' = now + 1,
         InService' = InService,
         \A c \in Calls : phase'[c] = "registering" <=> phase[c] = "registering",
         SlotsAreOfQueries'
  PROVE  LimiterInv'
<1>1. /\ starts' = starts /\ clientStarts' = clientStarts /\ globalStarts' = globalStarts
      /\ nextCleanupAt' = nextCleanupAt /\ live' = live /\ key' = key /\ at' = at
  BY DEF limiterVars
<1>2. /\ now \in Nat /\ now' \in Nat /\ now <= now' /\ Window \in Nat
      /\ \A c \in Calls : at[c] \in Nat
  BY LimiterConstants DEF CallTypes
<1>3. LimiterTypeOK'
  BY <1>1 DEF LimiterInv, LimiterTypeOK
<1>4. Listed'
  <2> SUFFICES ASSUME NEW c \in InService'
               PROVE  /\ at'[c] <= now'
                      /\ at'[c] > now' - Window =>
                           /\ Stamp(c)' \in starts'[key'[c]]
                           /\ Stamp(c)' \in clientStarts'[key'[c].client]
                           /\ Stamp(c)' \in globalStarts'
    BY DEF Listed
  <2>1. c \in InService /\ c \in Calls
    BY DEF InService
  <2>2. Stamp(c)' = Stamp(c)
    BY <1>1 DEF Stamp
  <2>3. /\ at[c] <= now
        /\ at[c] > now - Window =>
             /\ Stamp(c) \in starts[key[c]]
             /\ Stamp(c) \in clientStarts[key[c].client]
             /\ Stamp(c) \in globalStarts
    BY <2>1 DEF LimiterInv, Listed
  <2>4. at[c] <= now' /\ (at[c] > now' - Window => at[c] > now - Window)
    BY <1>2, <2>1, <2>3
  <2> QED
    BY <1>1, <2>2, <2>3, <2>4
<1>5. ListsAreRecent'
  <2>1. nextCleanupAt' <= now' + Window
    <3>a. nextCleanupAt \in 0..(EndOfTime + Window) /\ nextCleanupAt <= now + Window
      BY DEF LimiterInv, LimiterTypeOK, ListsAreRecent
    <3>1. nextCleanupAt \in Int /\ nextCleanupAt <= now + Window
      BY <3>a, LimiterConstants
    <3>2. \A m, n, w \in Nat, x \in Int : m <= n /\ x <= m + w => x <= n + w
      OBVIOUS
    <3>3. nextCleanupAt <= now' + Window
      BY <1>2, <3>1, <3>2
    <3> QED
      BY <1>1, <3>3
  <2> QED
    BY <1>1, <2>1 DEF LimiterInv, ListsAreRecent
<1>6. RatesHold'
  <2>1. \A t : AdmittedSince(t)' = AdmittedSince(t)
    BY <1>1 DEF AdmittedSince, InService
  <2>2. \A k : {c \in Calls : phase'[c] = "registering" /\ key'[c] = k} = Registering(k)
    BY <1>1 DEF Registering
  <2>3. Live' = Live
    BY <1>1 DEF Live
  <2> QED
    <3>1. \A t \in 0..EndOfTime, k \in Keys :
            /\ Cardinality({c \in AdmittedSince(t) : key[c] = k}) <= MaxPerKey
            /\ Cardinality({c \in AdmittedSince(t) : key[c].client = k.client}) <= MaxPerClient
            /\ Cardinality(AdmittedSince(t)) <= MaxGlobal
      BY DEF LimiterInv, RatesHold
    <3>2. /\ \A k \in Keys : live[k] = Cardinality(Registering(k))
          /\ Cardinality(Live) <= MaxLiveKeys
      BY DEF LimiterInv, RatesHold, Registering
    <3>3. \A t \in 0..EndOfTime, k \in Keys :
            /\ Cardinality({c \in AdmittedSince(t)' : key'[c] = k}) <= MaxPerKey
            /\ Cardinality({c \in AdmittedSince(t)' : key'[c].client = k.client}) <= MaxPerClient
            /\ Cardinality(AdmittedSince(t)') <= MaxGlobal
      BY <1>1, <2>1, <3>1
    <3>4. /\ \A k \in Keys :
               live'[k] = Cardinality({c \in Calls : phase'[c] = "registering" /\ key'[c] = k})
          /\ Cardinality(Live') <= MaxLiveKeys
      BY <1>1, <2>2, <2>3, <3>2
    <3> QED
      BY <3>3, <3>4 DEF RatesHold
<1> QED
  BY <1>3, <1>4, <1>5, <1>6 DEF LimiterInv

\* What is kept of a list, when the windows are swept or not.
LEMMA SweptLists ==
  ASSUME NEW s
  PROVE  Active(s) \subseteq Swept(s) /\ Swept(s) \subseteq s
BY DEF Active, Swept

\* The time of the next sweep keeps pace with the lists.
LEMMA SweptListsAreRecent ==
  ASSUME LimiterInv, CallTypes,
         nextCleanupAt' = IF now >= nextCleanupAt THEN now + Window ELSE nextCleanupAt
  PROVE  /\ nextCleanupAt' \in 0..(EndOfTime + Window)
         /\ nextCleanupAt' <= now + Window
         /\ now > nextCleanupAt' - 2 * Window
         /\ \A k \in Keys : \A x \in Swept(starts[k]) : x.at > nextCleanupAt' - 2 * Window
<1>1. /\ now \in 0..EndOfTime /\ nextCleanupAt \in 0..(EndOfTime + Window)
      /\ nextCleanupAt <= now + Window
      /\ Window \in Nat /\ Window >= 1 /\ EndOfTime \in Nat
      /\ starts \in [Keys -> SUBSET Stamps]
  BY LimiterConstants DEF LimiterInv, LimiterTypeOK, ListsAreRecent, CallTypes
<1>2. /\ nextCleanupAt' \in 0..(EndOfTime + Window)
      /\ nextCleanupAt' <= now + Window
      /\ now > nextCleanupAt' - 2 * Window
  BY <1>1
<1>3. ASSUME NEW k \in Keys, NEW x \in Swept(starts[k])
      PROVE  x.at > nextCleanupAt' - 2 * Window
  <2>1. CASE now >= nextCleanupAt
    <3>1. x.at > now - Window /\ x \in Stamps
      BY <1>1, <2>1 DEF Swept, Active
    <3>2. x.at \in Nat
      BY <3>1, <1>1 DEF Stamps
    <3> QED
      BY <1>1, <2>1, <3>1, <3>2
  <2>2. CASE ~(now >= nextCleanupAt)
    BY <2>2, SweptLists DEF LimiterInv, ListsAreRecent
  <2> QED
    BY <2>1, <2>2
<1> QED
  BY <1>2, <1>3

LEMMA RefusedKeeps ==
  ASSUME NEW c \in Calls, NEW reserve \in BOOLEAN, LimiterInv, CallTypes, Refused(c, reserve)
  PROVE  LimiterInv'
<1>1. PICK k \in Keys, reason \in {"rate_limited", "capacity_exceeded"} :
        Refuses(k, reserve, reason) /\ To(c, reason)
  BY DEF Refused
<1>2. /\ phase' = [phase EXCEPT ![c] = reason] /\ load' = load /\ phase[c] = "idle"
      /\ phase \in [Calls -> Phases]
      /\ UNCHANGED <<now, slot, key, at, live>>
  BY <1>1 DEF To, Refused, Asks, QueryStays, semaphoreVars, Refuses, CallTypes
<1>3. /\ starts' = [j \in Keys |-> Swept(starts[j])]
      /\ clientStarts' = [d \in Clients |-> Swept(clientStarts[d])]
      /\ globalStarts' = Swept(globalStarts)
      /\ nextCleanupAt' = IF now >= nextCleanupAt THEN now + Window ELSE nextCleanupAt
  BY <1>1 DEF Refuses, Sweep
<1>4. InService' = InService /\ c \notin InService
  BY <1>2 DEF InService
<1>5. /\ starts \in [Keys -> SUBSET Stamps] /\ clientStarts \in [Clients -> SUBSET Stamps]
      /\ globalStarts \subseteq Stamps /\ live \in [Keys -> 0..Cardinality(Calls)]
      /\ key \in [Calls -> Keys]
  BY DEF LimiterInv, LimiterTypeOK, CallTypes
<1>6. LimiterTypeOK'
  BY <1>2, <1>3, <1>5, SweptLists, SweptListsAreRecent DEF LimiterTypeOK
<1>7. Listed'
  <2> SUFFICES ASSUME NEW d \in InService
               PROVE  /\ at'[d] <= now'
                      /\ at'[d] > now' - Window =>
                           /\ Stamp(d)' \in starts'[key'[d]]
                           /\ Stamp(d)' \in clientStarts'[key'[d].client]
                           /\ Stamp(d)' \in globalStarts'
    BY <1>4 DEF Listed
  <2>1. Stamp(d)' = Stamp(d) /\ Stamp(d).at = at[d] /\ d \in Calls
    BY <1>2 DEF Stamp, InService
  <2>2. key[d] \in Keys /\ key[d].client \in Clients
    BY <1>5, <2>1 DEF Clients
  <2>3. at[d] <= now
    BY DEF LimiterInv, Listed
  <2>4. ASSUME at[d] > now - Window
        PROVE  /\ Stamp(d) \in Active(starts[key[d]])
               /\ Stamp(d) \in Active(clientStarts[key[d].client])
               /\ Stamp(d) \in Active(globalStarts)
    BY <2>1, <2>4 DEF LimiterInv, Listed, Active
  <2> QED
    BY <1>2, <1>3, <2>1, <2>2, <2>3, <2>4, SweptLists
<1>8. ListsAreRecent'
  <2>1. \A j \in Keys : \A x \in starts'[j] :
          /\ x.by \in InService' /\ key'[x.by] = j /\ x.at = at'[x.by]
          /\ x.at > nextCleanupAt' - 2 * Window
    BY <1>2, <1>3, <1>4, SweptLists, SweptListsAreRecent DEF LimiterInv, ListsAreRecent
  <2> QED
    BY <1>2, <1>3, <2>1, SweptListsAreRecent DEF ListsAreRecent
<1>9. RatesHold'
  <2>1. \A t : AdmittedSince(t)' = AdmittedSince(t)
    BY <1>2 DEF AdmittedSince
  <2>2. \A j : {d \in Calls : phase'[d] = "registering" /\ key'[d] = j} = Registering(j)
    BY <1>2 DEF Registering
  <2>3. Live' = Live
    BY <1>2 DEF Live
  <2> QED
    <3>1. \A t \in 0..EndOfTime, j \in Keys :
            /\ Cardinality({d \in AdmittedSince(t) : key[d] = j}) <= MaxPerKey
            /\ Cardinality({d \in AdmittedSince(t) : key[d].client = j.client}) <= MaxPerClient
            /\ Cardinality(AdmittedSince(t)) <= MaxGlobal
      BY DEF LimiterInv, RatesHold
    <3>2. /\ \A j \in Keys : live[j] = Cardinality(Registering(j))
          /\ Cardinality(Live) <= MaxLiveKeys
      BY DEF LimiterInv, RatesHold, Registering
    <3>3. \A t \in 0..EndOfTime, j \in Keys :
            /\ Cardinality({d \in AdmittedSince(t)' : key'[d] = j}) <= MaxPerKey
            /\ Cardinality({d \in AdmittedSince(t)' : key'[d].client = j.client}) <= MaxPerClient
            /\ Cardinality(AdmittedSince(t)') <= MaxGlobal
      BY <1>2, <2>1, <3>1
    <3>4. /\ \A j \in Keys :
               live'[j] = Cardinality({d \in Calls : phase'[d] = "registering" /\ key'[d] = j})
          /\ Cardinality(Live') <= MaxLiveKeys
      BY <1>2, <2>2, <2>3, <3>2
    <3> QED
      BY <3>3, <3>4 DEF RatesHold
<1>10. SlotsAreOfQueries'
  BY <1>2 DEF LimiterInv, SlotsAreOfQueries
<1> QED
  BY <1>6, <1>7, <1>8, <1>9, <1>10 DEF LimiterInv

\* The calls of a group that were admitted within a window: with one more call there are as
\* many as before, or the window holds that call and the list of the group was not full.
LEMMA WindowsHold ==
  ASSUME NEW c \in Calls, NEW t \in 0..EndOfTime,
         NEW old \in SUBSET Calls, NEW new \in SUBSET (old \cup {c}),
         NEW s \in SUBSET Stamps, NEW limit \in Nat,
         now \in 0..EndOfTime, at \in [Calls -> 0..EndOfTime],
         at' = [at EXCEPT ![c] = now],
         InService' = InService \cup {c}, c \notin InService,
         \A d \in InService : at[d] <= now,
         c \in new => /\ ~(Cardinality(s) >= limit)
                     /\ \A d \in InService \cap old : at[d] > now - Window => Stamp(d) \in s,
         Cardinality(AdmittedSince(t) \cap old) <= limit
  PROVE  Cardinality(AdmittedSince(t)' \cap new) <= limit
<1>1. /\ AdmittedSince(t)' = {d \in InService' : at'[d] > t - Window /\ at'[d] <= t}
      /\ AdmittedSince(t) = {d \in InService : at[d] > t - Window /\ at[d] <= t}
      /\ InService \subseteq Calls
  BY DEF AdmittedSince, InService
<1>2. \A d \in InService : d # c /\ d \in Calls /\ at'[d] = at[d] /\ at[d] \in Nat
  BY <1>1
<1>3. at'[c] = now
  OBVIOUS
<1>4. CASE c \in new /\ now > t - Window /\ now <= t
  <2> DEFINE C == {d \in InService \cap old : at[d] > now - Window}
  <2>1. C \in SUBSET Calls /\ \A d \in C : Stamp(d) \in s
    BY <1>1, <1>4
  <2>2. \A d \in InService : at[d] > t - Window => at[d] > now - Window
    BY <1>2, <1>4, LimiterConstants
  <2>3. AdmittedSince(t)' \cap new \in SUBSET (C \cup {c})
    BY <1>1, <1>2, <2>2
  <2> HIDE DEF C
  <2> QED
    BY <1>4, <2>1, <2>3, OneMore
<1>5. CASE ~(c \in new /\ now > t - Window /\ now <= t)
  <2>1. c \notin AdmittedSince(t)' \cap new
    BY <1>1, <1>3, <1>5
  <2>2. AdmittedSince(t)' \cap new \in SUBSET (AdmittedSince(t) \cap old)
    BY <1>1, <1>2, <2>1
  <2>3. AdmittedSince(t) \cap old \in SUBSET Calls
    BY <1>1
  <2>4. IsFiniteSet(AdmittedSince(t) \cap old)
    BY <2>3, LimiterConstants, FS_Subset
  <2>5. IsFiniteSet(AdmittedSince(t)' \cap new)
        /\ Cardinality(AdmittedSince(t)' \cap new) <= Cardinality(AdmittedSince(t) \cap old)
    BY <2>2, <2>4, FS_Subset
  <2>6. Cardinality(AdmittedSince(t)' \cap new) \in Nat /\ Cardinality(AdmittedSince(t) \cap old) \in Nat
    BY <2>4, <2>5, FS_CardinalityType
  <2> QED
    BY <2>5, <2>6
<1> QED
  BY <1>4, <1>5

\* A call that is admitted is on each list, and what was within its windows too: so no window,
\* wherever it ends, has more calls than the limits.
LEMMA AdmittedKeeps ==
  ASSUME NEW c \in Calls, NEW reserve \in BOOLEAN, LimiterInv, CallTypes,
         Admitted(c, reserve, IF reserve THEN "registering" ELSE "admitted")
  PROVE  LimiterInv'
<1> DEFINE p == IF reserve THEN "registering" ELSE "admitted"
           stamp == [by |-> c, at |-> now]
<1>1. PICK k \in Keys : Admits(c, k, reserve) /\ key' = [key EXCEPT ![c] = k]
  BY DEF Admitted
<1>2. /\ phase' = [phase EXCEPT ![c] = p] /\ load' = load /\ load = "admission"
      /\ phase[c] = "idle" /\ phase \in [Calls -> Phases]
      /\ at' = [at EXCEPT ![c] = now] /\ at \in [Calls -> 0..EndOfTime]
      /\ key \in [Calls -> Keys] /\ now \in 0..EndOfTime
      /\ UNCHANGED <<now, slot>>
  BY DEF To, Admitted, Asks, QueryStays, semaphoreVars, CallTypes
<1>3. /\ starts' = [j \in Keys |-> IF j = k THEN Active(starts[j]) \cup {stamp}
                                   ELSE Swept(starts[j])]
      /\ clientStarts' = [d \in Clients |-> IF d = k.client
                                            THEN Active(clientStarts[d]) \cup {stamp}
                                            ELSE Swept(clientStarts[d])]
      /\ globalStarts' = Active(globalStarts) \cup {stamp}
      /\ nextCleanupAt' = IF now >= nextCleanupAt THEN now + Window ELSE nextCleanupAt
      /\ live' = IF reserve THEN [live EXCEPT ![k] = @ + 1] ELSE live
  BY <1>1 DEF Admits
<1>4. /\ ~(Cardinality(Active(starts[k])) >= MaxPerKey)
      /\ ~(Cardinality(Active(clientStarts[k.client])) >= MaxPerClient)
      /\ ~(Cardinality(Active(globalStarts)) >= MaxGlobal)
      /\ ~(reserve /\ k \notin Live /\ Cardinality(Live) >= MaxLiveKeys)
  BY <1>1 DEF Admits, RateLimited, CapacityExceeded
<1>5. /\ starts \in [Keys -> SUBSET Stamps] /\ clientStarts \in [Clients -> SUBSET Stamps]
      /\ globalStarts \subseteq Stamps /\ live \in [Keys -> 0..Cardinality(Calls)]
      /\ k.client \in Clients /\ \A d \in Calls : key[d].client \in Clients
  BY <1>2 DEF LimiterInv, LimiterTypeOK, Clients
<1>6. /\ \A d \in Calls : d # c => /\ phase'[d] = phase[d] /\ at'[d] = at[d] /\ key'[d] = key[d]
                                   /\ Stamp(d)' = Stamp(d)
      /\ phase'[c] = p /\ at'[c] = now /\ key'[c] = k /\ Stamp(c)' = stamp
  BY <1>1, <1>2 DEF Stamp
<1>7. InService' = InService \cup {c} /\ c \notin InService /\ InService \subseteq Calls
  BY <1>2, <1>6 DEF InService
<1>8. stamp \in Stamps
  BY <1>2 DEF Stamps
<1>9. \A d \in InService : at[d] <= now /\ (at[d] > now - Window =>
        /\ Stamp(d) \in Active(starts[key[d]])
        /\ Stamp(d) \in Active(clientStarts[key[d].client])
        /\ Stamp(d) \in Active(globalStarts))
  <2>1. \A d : Stamp(d).at = at[d]
    BY DEF Stamp
  <2> QED
    BY <2>1 DEF LimiterInv, Listed, Active
<1>10. /\ \A j \in Keys : Active(starts[j]) \subseteq starts'[j]
       /\ \A d \in Clients : Active(clientStarts[d]) \subseteq clientStarts'[d]
       /\ Active(globalStarts) \subseteq globalStarts'
       /\ stamp \in starts'[k] /\ stamp \in clientStarts'[k.client] /\ stamp \in globalStarts'
  BY <1>3, <1>5, SweptLists
<1>11. Listed'
  <2> SUFFICES ASSUME NEW d \in InService'
               PROVE  /\ at'[d] <= now'
                      /\ at'[d] > now' - Window =>
                           /\ Stamp(d)' \in starts'[key'[d]]
                           /\ Stamp(d)' \in clientStarts'[key'[d].client]
                           /\ Stamp(d)' \in globalStarts'
    BY DEF Listed
  <2>1. CASE d = c
    BY <1>2, <1>6, <1>10, <2>1
  <2>2. CASE d \in InService /\ d # c
    <3>1. key[d] \in Keys /\ key[d].client \in Clients /\ d \in Calls
      BY <1>2, <1>5, <1>7, <2>2
    <3> QED
      BY <1>2, <1>6, <1>9, <1>10, <2>2, <3>1
  <2> QED
    BY <1>7, <2>1, <2>2
<1>12. ListsAreRecent'
  <2> SUFFICES ASSUME NEW j \in Keys, NEW x \in starts'[j]
               PROVE  /\ x.by \in InService' /\ key'[x.by] = j /\ x.at = at'[x.by]
                      /\ x.at > nextCleanupAt' - 2 * Window
    BY <1>2, <1>3, SweptListsAreRecent DEF ListsAreRecent
  <2>1. CASE x = stamp /\ j = k
    BY <1>3, <1>6, <1>7, <2>1, SweptListsAreRecent
  <2>2. CASE x \in Swept(starts[j])
    <3>1. /\ x.by \in InService /\ key[x.by] = j /\ x.at = at[x.by]
      BY <2>2, SweptLists DEF LimiterInv, ListsAreRecent
    <3>2. x.by # c /\ x.by \in Calls
      BY <1>7, <3>1
    <3> QED
      BY <1>3, <1>6, <1>7, <2>2, <3>1, <3>2, SweptListsAreRecent
  <2> QED
    BY <1>3, <2>1, <2>2, SweptLists
<1> HIDE DEF stamp
<1>13. ASSUME NEW t \in 0..EndOfTime, NEW j \in Keys
       PROVE  /\ Cardinality({d \in AdmittedSince(t)' : key'[d] = j}) <= MaxPerKey
              /\ Cardinality({d \in AdmittedSince(t)' : key'[d].client = j.client})
                    <= MaxPerClient
              /\ Cardinality(AdmittedSince(t)') <= MaxGlobal
  <2> DEFINE all == Calls
             ofKey == {d \in Calls : key[d] = j}
             ofKeyNext == {d \in Calls : key'[d] = j}
             ofClient == {d \in Calls : key[d].client = j.client}
             ofClientNext == {d \in Calls : key'[d].client = j.client}
  <2>1. AdmittedSince(t) \subseteq Calls /\ AdmittedSince(t)' \subseteq Calls
    BY DEF AdmittedSince
  <2>2. /\ Cardinality({d \in AdmittedSince(t) : key[d] = j}) <= MaxPerKey
        /\ Cardinality({d \in AdmittedSince(t) : key[d].client = j.client}) <= MaxPerClient
        /\ Cardinality(AdmittedSince(t)) <= MaxGlobal
    BY DEF LimiterInv, RatesHold
  <2>3. /\ AdmittedSince(t) \cap ofKey = {d \in AdmittedSince(t) : key[d] = j}
        /\ AdmittedSince(t) \cap ofClient = {d \in AdmittedSince(t) : key[d].client = j.client}
        /\ AdmittedSince(t) \cap all = AdmittedSince(t)
        /\ AdmittedSince(t)' \cap ofKeyNext = {d \in AdmittedSince(t)' : key'[d] = j}
        /\ AdmittedSince(t)' \cap ofClientNext
              = {d \in AdmittedSince(t)' : key'[d].client = j.client}
        /\ AdmittedSince(t)' \cap all = AdmittedSince(t)'
    BY <2>1
  <2>4. /\ ofKey \in SUBSET Calls /\ ofKeyNext \in SUBSET (ofKey \cup {c})
        /\ ofClient \in SUBSET Calls /\ ofClientNext \in SUBSET (ofClient \cup {c})
        /\ all \in SUBSET Calls /\ all \in SUBSET (all \cup {c})
    BY <1>6
  <2>5. c \in ofKeyNext =>
          /\ ~(Cardinality(Active(starts[j])) >= MaxPerKey)
          /\ \A d \in InService \cap ofKey :
               at[d] > now - Window => Stamp(d) \in Active(starts[j])
    BY <1>4, <1>6, <1>9
  <2>6. c \in ofClientNext =>
          /\ ~(Cardinality(Active(clientStarts[j.client])) >= MaxPerClient)
          /\ \A d \in InService \cap ofClient :
               at[d] > now - Window => Stamp(d) \in Active(clientStarts[j.client])
    BY <1>4, <1>6, <1>9
  <2>7. c \in all =>
          /\ ~(Cardinality(Active(globalStarts)) >= MaxGlobal)
          /\ \A d \in InService \cap all :
               at[d] > now - Window => Stamp(d) \in Active(globalStarts)
    BY <1>4, <1>9
  <2>8. /\ Active(starts[j]) \in SUBSET Stamps
        /\ Active(clientStarts[j.client]) \in SUBSET Stamps
        /\ Active(globalStarts) \in SUBSET Stamps
    BY <1>5 DEF Active, Clients
  <2>9. \A d \in InService : at[d] <= now
    BY <1>9
  <2> HIDE DEF all, ofKey, ofKeyNext, ofClient, ofClientNext
  <2>a. ASSUME NEW old \in SUBSET Calls, NEW new \in SUBSET (old \cup {c}),
               NEW s \in SUBSET Stamps, NEW limit \in Nat,
               c \in new => /\ ~(Cardinality(s) >= limit)
                           /\ \A d \in InService \cap old :
                                at[d] > now - Window => Stamp(d) \in s,
               Cardinality(AdmittedSince(t) \cap old) <= limit
        PROVE  Cardinality(AdmittedSince(t)' \cap new) <= limit
    BY <1>2, <1>7, <2>9, <2>a, WindowsHold
  <2>b. MaxPerKey \in Nat /\ MaxPerClient \in Nat /\ MaxGlobal \in Nat
    BY LimiterConstants
  <2>c. /\ Cardinality(AdmittedSince(t) \cap ofKey) <= MaxPerKey
        /\ Cardinality(AdmittedSince(t) \cap ofClient) <= MaxPerClient
        /\ Cardinality(AdmittedSince(t) \cap all) <= MaxGlobal
    BY <2>2, <2>3
  <2>10. Cardinality(AdmittedSince(t)' \cap ofKeyNext) <= MaxPerKey
    <3> DEFINE list == Active(starts[j])
    <3>1. ofKey \in SUBSET Calls /\ ofKeyNext \in SUBSET (ofKey \cup {c}) /\ list \in SUBSET Stamps
      BY <2>4, <2>8
    <3>2. c \in ofKeyNext => /\ ~(Cardinality(list) >= MaxPerKey)
                      /\ \A d \in InService \cap ofKey :
                           at[d] > now - Window => Stamp(d) \in list
      BY <2>5
    <3>3. Cardinality(AdmittedSince(t) \cap ofKey) <= MaxPerKey
      BY <2>c
    <3> HIDE DEF list
    <3> QED
      BY <2>a, <2>b, <3>1, <3>2, <3>3
  <2>11. Cardinality(AdmittedSince(t)' \cap ofClientNext) <= MaxPerClient
    <3> DEFINE list == Active(clientStarts[j.client])
    <3>1. ofClient \in SUBSET Calls /\ ofClientNext \in SUBSET (ofClient \cup {c}) /\ list \in SUBSET Stamps
      BY <2>4, <2>8
    <3>2. c \in ofClientNext => /\ ~(Cardinality(list) >= MaxPerClient)
                      /\ \A d \in InService \cap ofClient :
                           at[d] > now - Window => Stamp(d) \in list
      BY <2>6
    <3>3. Cardinality(AdmittedSince(t) \cap ofClient) <= MaxPerClient
      BY <2>c
    <3> HIDE DEF list
    <3> QED
      BY <2>a, <2>b, <3>1, <3>2, <3>3
  <2>12. Cardinality(AdmittedSince(t)' \cap all) <= MaxGlobal
    <3> DEFINE list == Active(globalStarts)
    <3>1. all \in SUBSET Calls /\ all \in SUBSET (all \cup {c}) /\ list \in SUBSET Stamps
      BY <2>4, <2>8
    <3>2. c \in all => /\ ~(Cardinality(list) >= MaxGlobal)
                      /\ \A d \in InService \cap all :
                           at[d] > now - Window => Stamp(d) \in list
      BY <2>7
    <3>3. Cardinality(AdmittedSince(t) \cap all) <= MaxGlobal
      BY <2>c
    <3> HIDE DEF list
    <3> QED
      BY <2>a, <2>b, <3>1, <3>2, <3>3
  <2> QED
    BY <2>3, <2>10, <2>11, <2>12
<1>14. \A j \in Keys : live'[j] = Cardinality(Registering(j)')
  <2> SUFFICES ASSUME NEW j \in Keys
               PROVE  live'[j] = Cardinality(Registering(j)')
    OBVIOUS
  <2>1. live[j] = Cardinality(Registering(j)) /\ IsFiniteSet(Registering(j))
    <3>1. Registering(j) \in SUBSET Calls
      BY DEF Registering
    <3>2. IsFiniteSet(Registering(j))
      BY <3>1, LimiterConstants, FS_Subset
    <3> QED
      BY <3>2 DEF LimiterInv, RatesHold, Registering
  <2>2. c \notin Registering(j)
    BY <1>2 DEF Registering
  <2>3. CASE reserve /\ j = k
    <3>1. Registering(j)' = Registering(j) \cup {c}
      BY <1>6, <2>3 DEF Registering
    <3>2. live'[j] = live[j] + 1
      BY <1>3, <1>5, <2>3
    <3> QED
      BY <2>1, <2>2, <3>1, <3>2, FS_AddElement
  <2>4. CASE ~(reserve /\ j = k)
    <3>1. Registering(j)' = Registering(j)
      BY <1>2, <1>6, <2>4 DEF Registering
    <3>2. live'[j] = live[j]
      BY <1>3, <1>5, <2>4
    <3> QED
      BY <2>1, <3>1, <3>2
  <2> QED
    BY <2>3, <2>4
<1>15. live' \in [Keys -> 0..Cardinality(Calls)]
  <2>1. \A j \in Keys : live'[j] \in 0..Cardinality(Calls)
    <3> SUFFICES ASSUME NEW j \in Keys
                 PROVE  live'[j] \in 0..Cardinality(Calls)
      OBVIOUS
    <3>1. Registering(j)' \in SUBSET Calls
      BY DEF Registering
    <3>2. /\ Cardinality(Registering(j)') <= Cardinality(Calls)
          /\ Cardinality(Registering(j)') \in Nat /\ Cardinality(Calls) \in Nat
      BY <3>1, LimiterConstants, FS_Subset, FS_CardinalityType
    <3> QED
      BY <1>14, <3>2
  <2>2. DOMAIN live' = Keys /\ live' = [j \in Keys |-> live'[j]]
    BY <1>3, <1>5
  <2> QED
    BY <2>1, <2>2
<1>16. Cardinality(Live') <= MaxLiveKeys
  <2>1. /\ Live \in SUBSET Keys /\ Cardinality(Live) <= MaxLiveKeys
    BY DEF Live, LimiterInv, RatesHold
  <2>2. IsFiniteSet(Live) /\ Cardinality(Live) \in Nat
    BY <2>1, LimiterConstants, FS_Subset, FS_CardinalityType
  <2>3. CASE reserve
    <3>1. Live' = Live \cup {k}
      <4>1. \A j \in Keys : live'[j] = IF j = k THEN live[j] + 1 ELSE live[j]
        BY <1>3, <1>5, <2>3
      <4>2. live[k] + 1 > 0
        <5>1. live[k] \in 0..Cardinality(Calls) /\ Cardinality(Calls) \in Nat
          BY <1>5, LimiterConstants, FS_CardinalityType
        <5> QED
          BY <5>1
      <4> QED
        BY <4>1, <4>2 DEF Live
    <3>2. Cardinality(Live') = IF k \in Live THEN Cardinality(Live) ELSE Cardinality(Live) + 1
      BY <2>2, <3>1, FS_AddElement
    <3> QED
      BY <1>4, <2>1, <2>2, <2>3, <3>2, LimiterConstants
  <2>4. CASE ~reserve
    <3>1. Live' = Live
      BY <1>3, <2>4 DEF Live
    <3> QED
      BY <2>1, <3>1
  <2> QED
    BY <2>3, <2>4
<1>17. LimiterTypeOK'
  <2>1. /\ starts' \in [Keys -> SUBSET Stamps] /\ clientStarts' \in [Clients -> SUBSET Stamps]
        /\ globalStarts' \subseteq Stamps
    <3>1. \A u \in SUBSET Stamps : Active(u) \cup {stamp} \in SUBSET Stamps
                                  /\ Swept(u) \in SUBSET Stamps
      BY <1>8, SweptLists
    <3> QED
      BY <1>3, <1>5, <3>1
  <2> QED
    BY <1>3, <1>15, <2>1, SweptListsAreRecent DEF LimiterTypeOK
<1>18. RatesHold'
  BY <1>13, <1>14, <1>16 DEF RatesHold, Registering
<1>19. SlotsAreOfQueries'
  BY <1>2 DEF LimiterInv, SlotsAreOfQueries
<1> QED
  BY <1>11, <1>12, <1>17, <1>18, <1>19 DEF LimiterInv

LEMMA RegisteredKeeps ==
  ASSUME NEW c \in Calls, LimiterInv, CallTypes, Registered(c)
  PROVE  LimiterInv'
<1> DEFINE k == key[c]
<1>1. /\ phase[c] = "registering" /\ phase' = [phase EXCEPT ![c] = "done"] /\ load' = load
      /\ live' = [live EXCEPT ![k] = IF @ <= 1 THEN 0 ELSE @ - 1]
      /\ UNCHANGED <<starts, clientStarts, globalStarts, nextCleanupAt, now, slot, key, at>>
  BY DEF Registered, ReleaseKey, To, QueryStays, semaphoreVars
<1>2. /\ phase \in [Calls -> Phases] /\ key \in [Calls -> Keys] /\ k \in Keys
      /\ live \in [Keys -> 0..Cardinality(Calls)]
  BY DEF CallTypes, LimiterInv, LimiterTypeOK
<1>3. \A d \in Calls : phase'[d] = IF d = c THEN "done" ELSE phase[d]
  BY <1>1, <1>2
<1> HIDE DEF k
<1>4. InService' = InService
  BY <1>1, <1>3 DEF InService
<1>5. Registering(k)' = Registering(k) \ {c} /\ c \in Registering(k)
  <2>1. {d \in Calls : phase'[d] = "registering" /\ key'[d] = k} = Registering(k) \ {c}
    BY <1>1, <1>3 DEF Registering
  <2> QED
    BY <1>1, <2>1 DEF Registering, k
<1>6. \A j \in Keys : live[j] = Cardinality(Registering(j)) /\ IsFiniteSet(Registering(j))
  <2>1. \A j \in Keys : Registering(j) \in SUBSET Calls
    BY DEF Registering
  <2>2. \A j \in Keys : IsFiniteSet(Registering(j))
    BY <2>1, LimiterConstants, FS_Subset
  <2> QED
    BY <2>2 DEF LimiterInv, RatesHold, Registering
<1>7. /\ live[k] \in Nat /\ live[k] >= 1 /\ live'[k] = live[k] - 1
      /\ Cardinality(Registering(k)') = live[k] - 1
  <2>1. /\ IsFiniteSet(Registering(k) \ {c})
        /\ Cardinality(Registering(k) \ {c}) = live[k] - 1
    BY <1>2, <1>5, <1>6, FS_RemoveElement
  <2>2. Cardinality(Registering(k) \ {c}) \in Nat /\ Cardinality(Calls) \in Nat
    BY <2>1, LimiterConstants, FS_CardinalityType
  <2>3. live[k] \in 0..Cardinality(Calls)
    BY <1>2
  <2>4. live[k] \in Nat /\ live[k] >= 1
    BY <2>1, <2>2, <2>3
  <2>5. live'[k] = IF live[k] <= 1 THEN 0 ELSE live[k] - 1
    BY <1>1, <1>2
  <2>6. live'[k] = live[k] - 1
    BY <2>4, <2>5
  <2> QED
    BY <1>5, <2>1, <2>4, <2>6
<1>8. \A j \in Keys : j # k => live'[j] = live[j]
  BY <1>1, <1>2
<1>9. live' \in [Keys -> 0..Cardinality(Calls)]
  <2>1. live[k] - 1 \in 0..Cardinality(Calls)
    <3>1. live[k] \in 0..Cardinality(Calls) /\ Cardinality(Calls) \in Nat
      BY <1>2, LimiterConstants, FS_CardinalityType
    <3> QED
      BY <1>7, <3>1
  <2>2. (IF live[k] <= 1 THEN 0 ELSE live[k] - 1) \in 0..Cardinality(Calls)
    BY <1>1, <1>2, <1>7, <2>1
  <2> QED
    BY <1>1, <1>2, <2>2
<1>10. \A j \in Keys : live'[j] = Cardinality(Registering(j)')
  <2> SUFFICES ASSUME NEW j \in Keys PROVE live'[j] = Cardinality(Registering(j)')
    OBVIOUS
  <2>1. CASE j = k
    BY <1>1, <1>7, <2>1 DEF Registering, k
  <2>2. CASE j # k
    <3>1. Registering(j)' = Registering(j)
      BY <1>1, <1>3, <2>2 DEF Registering, k
    <3> QED
      BY <1>6, <1>8, <2>2, <3>1
  <2> QED
    BY <2>1, <2>2
<1>11. Cardinality(Live') <= MaxLiveKeys
  <2>1. Live' \in SUBSET Live
    BY <1>2, <1>7, <1>8 DEF Live
  <2>2. Live \in SUBSET Keys /\ Cardinality(Live) <= MaxLiveKeys
    BY DEF Live, LimiterInv, RatesHold
  <2>3. IsFiniteSet(Live) /\ Cardinality(Live) \in Nat
    BY <2>2, LimiterConstants, FS_Subset, FS_CardinalityType
  <2>4. Cardinality(Live') <= Cardinality(Live) /\ Cardinality(Live') \in Nat
    BY <2>1, <2>3, FS_Subset, FS_CardinalityType
  <2> QED
    BY <2>2, <2>3, <2>4, LimiterConstants
<1>12. LimiterTypeOK'
  BY <1>1, <1>9 DEF LimiterInv, LimiterTypeOK
<1>13. Listed' /\ ListsAreRecent'
  <2>1. \A d : Stamp(d)' = Stamp(d)
    BY <1>1 DEF Stamp
  <2> QED
    BY <1>1, <1>4, <2>1 DEF LimiterInv, Listed, ListsAreRecent
<1>14. RatesHold'
  <2>1. \A t : AdmittedSince(t)' = AdmittedSince(t)
    BY <1>1, <1>4 DEF AdmittedSince, InService
  <2>2. \A t \in 0..EndOfTime, j \in Keys :
          /\ Cardinality({d \in AdmittedSince(t) : key[d] = j}) <= MaxPerKey
          /\ Cardinality({d \in AdmittedSince(t) : key[d].client = j.client}) <= MaxPerClient
          /\ Cardinality(AdmittedSince(t)) <= MaxGlobal
    BY DEF LimiterInv, RatesHold
  <2>3. \A t \in 0..EndOfTime, j \in Keys :
          /\ Cardinality({d \in AdmittedSince(t)' : key'[d] = j}) <= MaxPerKey
          /\ Cardinality({d \in AdmittedSince(t)' : key'[d].client = j.client}) <= MaxPerClient
          /\ Cardinality(AdmittedSince(t)') <= MaxGlobal
    BY <1>1, <2>1, <2>2
  <2> QED
    BY <1>10, <1>11, <2>3 DEF RatesHold, Registering
<1>15. SlotsAreOfQueries'
  BY <1>1 DEF LimiterInv, SlotsAreOfQueries
<1> QED
  BY <1>12, <1>13, <1>14, <1>15 DEF LimiterInv

LEMMA AuthorizedKeeps ==
  ASSUME NEW c \in Calls, SecretsInv, IdleStoresNothing, Authorized(c)
  PROVE  SecretsInv'
<1>1. /\ stage[c] = "none" /\ stage' = [stage EXCEPT ![c] = "putting"]
      /\ UNCHANGED <<param, refs, secrets, callback, taking, lost>>
  BY DEF Authorized, GoesOn, IdleStoresNothing
<1>2. SecretsTypeOK'
  BY <1>1 DEF SecretsInv, SecretsTypeOK
<1>3. /\ c \notin refs /\ c \notin taking
      /\ \A s \in States : callback[s] # c
  BY <1>1, StatesAssumption DEF SecretsInv, SecretsTypeOK, SecretsAtStages
<1>4. \A d \in Calls : d # c => stage'[d] = stage[d]
  BY <1>1 DEF SecretsInv, SecretsTypeOK
<1>5. SecretsAtStages'
  BY <1>1, <1>3, <1>4 DEF SecretsInv, SecretsTypeOK, SecretsAtStages
<1>6. Named' = Named /\ Working \subseteq Working'
  BY <1>1, <1>4 DEF Named, Working
<1>7. SecretsFollowStates'
  BY <1>1, <1>6 DEF SecretsInv, SecretsFollowStates
<1> QED
  BY <1>2, <1>5, <1>7 DEF SecretsInv

-----------------------------------------------------------------------------
(* Every step *)

\* The steps of the other loads leave what a load is about alone.
QuerySteps(c) ==
  \/ Resolve(c) \/ Detect(c) \/ Settle(c) \/ Catch(c) \/ Finish(c) \/ WaiterLeaves(c)

LimiterSteps(c) ==
  \/ Refused(c, TRUE) \/ Refused(c, FALSE) \/ Register(c) \/ Registered(c) \/ Start(c)

LEMMA StepsOfNext ==
  ASSUME Next
  PROVE  \/ Tick \/ ClientLeaves \/ Exchange
         \/ \E c \in Calls : \/ QuerySteps(c) \/ LimiterSteps(c)
                             \/ Authorized(c) \/ StoreState(c)
BY DEF Next, QuerySteps, LimiterSteps

\* How a call moves on in the service.
LEMMA PhasesMoveOn ==
  ASSUME CallTypes, Next
  PROVE  /\ CallTypes'
         /\ \A c \in Calls : phase'[c] = phase[c] \/ phase'[c] # "idle"
         /\ load' = load
<1> USE DEF CallTypes, Phases
<1>1. CASE Tick
  BY <1>1, ProcessAssumption DEF Tick, callVars
<1>2. CASE ClientLeaves
  BY <1>2 DEF ClientLeaves, OthersStay, callVars
<1>3. CASE Exchange
  BY <1>3 DEF Exchange, SecretsOnly, callVars
<1>4. ASSUME NEW c \in Calls, QuerySteps(c)
      PROVE  /\ CallTypes'
             /\ \A d \in Calls : phase'[d] = phase[d] \/ phase'[d] # "idle"
             /\ load' = load
  <2>1. CASE Resolve(c) \/ Settle(c) \/ Catch(c) \/ WaiterLeaves(c)
    BY <2>1 DEF Resolve, Settle, Catch, WaiterLeaves, OthersStay, callVars
  <2>2. CASE Detect(c)
    <3>1. /\ \E o \in Origins : origin' = [origin EXCEPT ![c] = o]
          /\ phase' = [phase EXCEPT ![c] = "detecting"]
          /\ UNCHANGED <<now, load, key, at>>
      BY <2>2 DEF Detect, To, OthersStay
    <3> QED
      BY <3>1
  <2>3. CASE Finish(c)
    <3>1. /\ phase' = [phase EXCEPT ![c] = "done"]
          /\ UNCHANGED <<now, load, origin, key, at>>
      BY <2>3 DEF Finish, To, OthersStay
    <3> QED
      BY <3>1
  <2> QED
    BY <1>4, <2>1, <2>2, <2>3 DEF QuerySteps
<1>5. ASSUME NEW c \in Calls, LimiterSteps(c)
      PROVE  /\ CallTypes'
             /\ \A d \in Calls : phase'[d] = phase[d] \/ phase'[d] # "idle"
             /\ load' = load
  <2>1. CASE Refused(c, TRUE) \/ Refused(c, FALSE)
    <3>1. /\ \E p \in {"rate_limited", "capacity_exceeded"} : phase' = [phase EXCEPT ![c] = p]
          /\ UNCHANGED <<now, load, origin, key, at>>
      BY <2>1 DEF Refused, To, QueryStays
    <3> QED
      BY <3>1
  <2>2. CASE Register(c) \/ Start(c)
    <3>1. /\ \E p \in {"registering", "admitted"} : phase' = [phase EXCEPT ![c] = p]
          /\ \E k \in Keys : key' = [key EXCEPT ![c] = k]
          /\ at' = [at EXCEPT ![c] = now]
          /\ UNCHANGED <<now, load, origin>>
      BY <2>2 DEF Register, Start, Admitted, To, QueryStays
    <3> QED
      BY <3>1
  <2>3. CASE Registered(c)
    <3>1. /\ phase' = [phase EXCEPT ![c] = "done"]
          /\ UNCHANGED <<now, load, origin, key, at>>
      BY <2>3 DEF Registered, To, QueryStays
    <3> QED
      BY <3>1
  <2> QED
    BY <1>5, <2>1, <2>2, <2>3 DEF LimiterSteps
<1>6. ASSUME NEW c \in Calls, Authorized(c)
      PROVE  /\ CallTypes'
             /\ \A d \in Calls : phase'[d] = phase[d] \/ phase'[d] # "idle"
             /\ load' = load
  <2>1. phase' = [phase EXCEPT ![c] = "storing"] /\ UNCHANGED <<now, load, origin, key, at>>
    BY <1>6 DEF Authorized, To, SecretsOnly
  <2> QED
    BY <2>1
<1>7. ASSUME NEW c \in Calls, StoreState(c)
      PROVE  /\ CallTypes'
             /\ \A d \in Calls : phase'[d] = phase[d] \/ phase'[d] # "idle"
             /\ load' = load
  BY <1>7 DEF StoreState, SecretsOnly, callVars
<1> QED
  BY <1>1, <1>2, <1>3, <1>4, <1>5, <1>6, <1>7, StepsOfNext

\* The semaphore.
LEMMA SlotsKept ==
  ASSUME SlotsInv, [Next]_vars
  PROVE  SlotsInv'
<1>1. CASE UNCHANGED semaphoreVars
  BY <1>1 DEF SlotsInv, SemaphoreTypeOK, InOrderOfCalls, FairSlots, SlotsBalanced, NoIdleSlot,
              FirstCome, semaphoreVars
<1>2. ASSUME Next
      PROVE  \/ UNCHANGED semaphoreVars \/ AbortRaised
             \/ \E c \in Calls : \/ Acquire(c) /\ Made(c, slot)
                                 \/ Release(c) \/ AbortHeard(c)
  BY <1>2, StepsOfNext
  DEF Tick, ClientLeaves, Exchange, QuerySteps, LimiterSteps, Resolve, Detect, Settle, Catch,
      Finish, WaiterLeaves, Refused, Register, Registered, Start, Admitted, Authorized,
      StoreState, QueryStays, SecretsOnly
<1>3. UNCHANGED vars => UNCHANGED semaphoreVars
  BY DEF vars
<1> QED
  BY <1>1, <1>2, <1>3, AcquireKeeps, ReleaseKeeps, AbortHeardKeeps, AbortRaisedKeeps

\* The cache.
LEMMA CacheUntouched ==
  ASSUME CacheInv, UNCHANGED <<cacheVars, origin>>,
         \A c \in Calls : phase'[c] = phase[c] \/ phase'[c] # "idle"
  PROVE  CacheInv'
<1>1. UNCHANGED <<cache, detection, awaits, origin>>
  BY DEF cacheVars
<1>2. \A i \in DOMAIN cache : cache[i].by \in Calls
  BY EntriesOf, CacheHoldsEntries DEF Entries
<1>3. CacheTypeOK'
  BY <1>1 DEF CacheInv, CacheTypeOK
<1>4. EntriesAreOwn'
  BY <1>1, <1>2 DEF CacheInv, EntriesAreOwn
<1> QED
  BY <1>3, <1>4 DEF CacheInv

LEMMA CacheKept ==
  ASSUME CallTypes, CacheInv, [Next]_vars
  PROVE  /\ CacheInv'
         /\ \A e \in ToSet(cache) : e \notin ToSet(cache') => MayGo(e)
<1>1. \A c \in Calls : phase'[c] = phase[c] \/ phase'[c] # "idle"
  BY PhasesMoveOn DEF vars, callVars
<1>2. ASSUME UNCHANGED <<cacheVars, origin>>
      PROVE  /\ CacheInv'
             /\ \A e \in ToSet(cache) : e \notin ToSet(cache') => MayGo(e)
  <2>1. cache' = cache
    BY <1>2 DEF cacheVars
  <2> QED
    BY <1>1, <1>2, <2>1, CacheUntouched
<1>3. ASSUME Next
      PROVE  \/ UNCHANGED <<cacheVars, origin>>
             \/ \E c \in Calls : Detect(c) \/ Settle(c) \/ Catch(c)
  BY <1>3, StepsOfNext
  DEF Tick, ClientLeaves, Exchange, QuerySteps, LimiterSteps, Resolve,
      Finish, WaiterLeaves, Refused, Register, Registered, Start, Admitted, Authorized,
      StoreState, QueryStays, SecretsOnly, callVars
<1>4. UNCHANGED vars => UNCHANGED <<cacheVars, origin>>
  BY DEF vars, callVars
<1>5. ASSUME NEW c \in Calls, Settle(c)
      PROVE  /\ CacheInv'
             /\ \A e \in ToSet(cache) : e \notin ToSet(cache') => MayGo(e)
  <2>1. CacheInv' /\ cache' = cache
    BY <1>5, SettleKeeps
  <2> QED
    BY <2>1
<1> QED
  BY <1>2, <1>3, <1>4, <1>5, DetectKeeps, CatchKeeps

\* The limiter.
LEMMA LimiterUntouched ==
  ASSUME LimiterInv, CallTypes, UNCHANGED <<limiterVars, key, at, load, phase>>,
         now' = now \/ now' = now + 1, SlotsAreOfQueries'
  PROVE  LimiterInv'
<1>1. InService' = InService
  BY DEF InService
<1> QED
  BY <1>1, LimiterStays

\* A step of a query: the limiter knows nothing of it.
LEMMA QueriesPass ==
  ASSUME NEW c \in Calls, SlotsInv, LimiterInv, CallTypes, QuerySteps(c)
  PROVE  LimiterInv'
<1>1. /\ UNCHANGED <<now, limiterVars, key, at, load>>
      /\ phase \in [Calls -> Phases]
  BY DEF QuerySteps, Resolve, Detect, Settle, Catch, Finish, WaiterLeaves, OthersStay, To,
         callVars, CallTypes
<1>2. slot[c] # "none" => load = "query"
  BY DEF LimiterInv, SlotsAreOfQueries
<1>3. CASE Settle(c) \/ Catch(c)
  <2>1. UNCHANGED <<slot, phase>>
    BY <1>3 DEF Settle, Catch, semaphoreVars, callVars
  <2>2. SlotsAreOfQueries'
    BY <1>1, <2>1 DEF LimiterInv, SlotsAreOfQueries
  <2> QED
    BY <1>1, <2>1, <2>2, LimiterUntouched
<1>4. CASE Resolve(c) \/ WaiterLeaves(c)
  <2>1. phase' = phase
    BY <1>4 DEF Resolve, WaiterLeaves, callVars
  <2>2. load = "query"
    <3>1. CASE Resolve(c)
      BY <3>1 DEF Resolve
    <3>2. CASE WaiterLeaves(c)
      <4>1. \E i \in DOMAIN queue : queue[i] = c
        BY <3>2 DEF WaiterLeaves, AbortHeard
      <4>2. slot[c] = "waiting"
        BY <4>1, QueueOfWaiters
      <4> QED
        BY <1>2, <4>2
    <3> QED
      BY <1>4, <3>1, <3>2
  <2>3. SlotsAreOfQueries'
    BY <1>1, <2>2 DEF SlotsAreOfQueries
  <2> QED
    BY <1>1, <2>1, <2>3, LimiterUntouched
<1>5. CASE Detect(c) \/ Finish(c)
  <2>1. slot[c] = "held"
    BY <1>5 DEF Detect, Finish, Release
  <2>2. load = "query"
    BY <1>2, <2>1
  <2>3. \/ phase[c] = "idle" /\ phase' = [phase EXCEPT ![c] = "detecting"]
        \/ phase[c] = "detecting" /\ phase' = [phase EXCEPT ![c] = "done"]
    BY <1>5 DEF Detect, Finish, To
  <2>4. \A d \in Calls : phase'[d] = "registering" <=> phase[d] = "registering"
    BY <1>1, <2>3
  <2>5. InService' = InService
    BY <1>1, <2>2 DEF InService
  <2>6. SlotsAreOfQueries'
    BY <1>1, <2>2 DEF SlotsAreOfQueries
  <2> QED
    BY <1>1, <2>4, <2>5, <2>6, LimiterStays
<1> QED
  BY <1>3, <1>4, <1>5 DEF QuerySteps

LEMMA LimiterKept ==
  ASSUME CallTypes, SlotsInv, LimiterInv, [Next]_vars
  PROVE  LimiterInv'
<1>1. ASSUME UNCHANGED <<limiterVars, slot, callVars>>, now' = now \/ now' = now + 1
      PROVE  LimiterInv'
  <2>1. UNCHANGED <<limiterVars, slot, key, at, load, phase>>
    BY <1>1 DEF callVars
  <2>2. SlotsAreOfQueries'
    BY <2>1 DEF LimiterInv, SlotsAreOfQueries
  <2> QED
    BY <1>1, <2>1, <2>2, LimiterUntouched
<1>2. CASE Tick \/ ClientLeaves \/ Exchange \/ \E c \in Calls : StoreState(c)
  BY <1>1, <1>2 DEF Tick, ClientLeaves, AbortRaised, Exchange, StoreState, OthersStay, SecretsOnly,
                    semaphoreVars, callVars
<1>3. CASE UNCHANGED vars
  BY <1>1, <1>3 DEF vars, semaphoreVars
<1>4. ASSUME NEW c \in Calls, Authorized(c)
      PROVE  LimiterInv'
  <2>1. /\ UNCHANGED <<now, slot, limiterVars, key, at, load>>
        /\ phase[c] = "idle" /\ phase' = [phase EXCEPT ![c] = "storing"]
        /\ phase \in [Calls -> Phases] /\ load = "callback"
    BY <1>4 DEF Authorized, To, SecretsOnly, semaphoreVars, CallTypes
  <2>2. \A d \in Calls : phase'[d] = "registering" <=> phase[d] = "registering"
    BY <2>1
  <2>3. InService' = InService
    BY <2>1 DEF InService
  <2>4. SlotsAreOfQueries'
    BY <2>1 DEF LimiterInv, SlotsAreOfQueries
  <2> QED
    BY <2>1, <2>2, <2>3, <2>4, LimiterStays
<1>5. ASSUME NEW c \in Calls, LimiterSteps(c)
      PROVE  LimiterInv'
  <2>1. CASE Refused(c, TRUE) \/ Refused(c, FALSE)
    BY <2>1, RefusedKeeps
  <2>2. CASE Register(c)
    <3>1. Admitted(c, TRUE, IF TRUE THEN "registering" ELSE "admitted")
      BY <2>2 DEF Register
    <3> QED
      BY <3>1, AdmittedKeeps
  <2>3. CASE Start(c)
    <3>1. Admitted(c, FALSE, IF FALSE THEN "registering" ELSE "admitted")
      BY <2>3 DEF Start
    <3> QED
      BY <3>1, AdmittedKeeps
  <2> QED
    BY <1>5, <2>1, <2>2, <2>3, RegisteredKeeps DEF LimiterSteps
<1> QED
  BY <1>2, <1>3, <1>4, <1>5, QueriesPass, StepsOfNext

\* The secrets.
LEMMA SecretsKept ==
  ASSUME SecretsInv, IdleStoresNothing, [Next]_vars
  PROVE  SecretsInv'
<1>1. CASE UNCHANGED secretVars
  BY <1>1 DEF secretVars, SecretsInv, SecretsTypeOK, SecretsAtStages, SecretsFollowStates, Named,
              Working
<1>2. ASSUME Next
      PROVE  \/ UNCHANGED secretVars
             \/ \E c \in Calls : Authorized(c) \/ StoreState(c) \/ TakeConsumed(c)
             \/ \E s \in States : ConsumeState(s)
  BY <1>2, StepsOfNext
  DEF Tick, ClientLeaves, Exchange, QuerySteps, LimiterSteps, Resolve, Detect, Settle, Catch,
      Finish, WaiterLeaves, Refused, Register, Registered, Start, OthersStay
<1>3. UNCHANGED vars => UNCHANGED secretVars
  BY DEF vars
<1>4. ASSUME NEW c \in Calls, StoreState(c)
      PROVE  SecretsInv'
  BY <1>4, PutKeeps, CreateKeeps, ReadKeeps, UndoKeeps DEF StoreState
<1> QED
  BY <1>1, <1>2, <1>3, <1>4, AuthorizedKeeps, ConsumeKeeps, TakeConsumedKeeps

LEMMA StoringStarts ==
  ASSUME CallTypes, SecretsTypeOK, IdleStoresNothing, [Next]_vars
  PROVE  IdleStoresNothing'
<1>1. \A c \in Calls : phase'[c] = phase[c] \/ phase'[c] # "idle"
  BY PhasesMoveOn DEF vars, callVars
<1>2. CASE UNCHANGED stage
  BY <1>1, <1>2 DEF IdleStoresNothing
<1>3. ASSUME Next
      PROVE  UNCHANGED stage \/ \E c \in Calls : Authorized(c) \/ StoreState(c)
  BY <1>3, StepsOfNext
  DEF Tick, ClientLeaves, Exchange, QuerySteps, LimiterSteps, Resolve, Detect, Settle, Catch,
      Finish, WaiterLeaves, Refused, Register, Registered, Start, OthersStay, ConsumeState,
      TakeConsumed, secretVars
<1>4. UNCHANGED vars => UNCHANGED stage
  BY DEF vars, secretVars
<1>5. ASSUME NEW c \in Calls, StoreState(c)
      PROVE  IdleStoresNothing'
  <2>1. /\ stage[c] # "none" /\ \E to : stage' = [stage EXCEPT ![c] = to]
        /\ phase' = phase
    BY <1>5 DEF StoreState, PutSecret, CreateState, ReadState, UndoSecret, GoesOn, callVars
  <2>2. \A d \in Calls : d # c => stage'[d] = stage[d]
    BY <2>1 DEF SecretsTypeOK
  <2>3. phase[c] # "idle"
    BY <2>1 DEF IdleStoresNothing
  <2> QED
    BY <2>1, <2>2, <2>3 DEF IdleStoresNothing
<1>6. ASSUME NEW c \in Calls, Authorized(c)
      PROVE  IdleStoresNothing'
  <2>1. /\ stage' = [stage EXCEPT ![c] = "putting"] /\ phase' = [phase EXCEPT ![c] = "storing"]
    BY <1>6 DEF Authorized, GoesOn, To
  <2> QED
    BY <2>1 DEF IdleStoresNothing, SecretsTypeOK, CallTypes
<1> QED
  BY <1>2, <1>3, <1>4, <1>5, <1>6

-----------------------------------------------------------------------------
(* The whole invariant *)

LEMMA InvBegins == Init => Inv
<1> SUFFICES ASSUME Init PROVE Inv
  OBVIOUS
<1>1. CallTypes
  <2>1. (CHOOSE o \in Origins : TRUE) \in Origins /\ (CHOOSE k \in Keys : TRUE) \in Keys
    BY CacheAssumption, LimiterAssumption
  <2> QED
    BY <2>1, LimiterConstants DEF Init, CallTypes, Phases
<1>2. IdleStoresNothing
  BY DEF Init, SecretsInit, IdleStoresNothing
<1> QED
  BY <1>1, <1>2, SlotsBegin, CacheBegins, LimiterBegins, SecretsBegin DEF Inv, Init

LEMMA InvKept ==
  ASSUME Inv, [Next]_vars
  PROVE  Inv'
<1> USE DEF Inv
<1>1. CallTypes'
  BY PhasesMoveOn DEF CallTypes, vars, callVars
<1>2. SlotsInv' /\ CacheInv' /\ LimiterInv'
  BY SlotsKept, CacheKept, LimiterKept
<1>3. SecretsInv' /\ IdleStoresNothing'
  BY SecretsKept, StoringStarts DEF SecretsInv
<1> QED
  BY <1>1, <1>2, <1>3

LEMMA InvHolds == Spec => []Inv
BY InvBegins, InvKept, PTL DEF Spec

-----------------------------------------------------------------------------
(* What follows *)

\* The state of the calls, of the semaphore, the cache, the limiter and the callback states is
\* what their declarations say, and the cache never holds more origins than it may.
THEOREM TypeCorrect == Spec => []TypeOK
<1>1. Inv => TypeOK
  BY DEF Inv, CallTypes, SlotsInv, CacheInv, LimiterInv, SecretsInv, TypeOK
<1> QED
  BY <1>1, InvHolds, PTL

\* The slots of the semaphore in use are those given out and not given back, nobody waits
\* while one is free, and a waiter is never overtaken, however releases, the abort of the
\* request and its listeners interleave.
THEOREM SlotsAreFair == Spec => []FairSlots
<1>1. Inv => FairSlots
  BY DEF Inv, SlotsInv
<1> QED
  BY <1>1, InvHolds, PTL

\* A callback state that is stored, or that an exchange has consumed, has the secret it names,
\* and a secret without a state or a call that is about it is left only by a store that has
\* failed to answer.
THEOREM SecretsHaveStates == Spec => []SecretsFollowStates
<1>1. Inv => SecretsFollowStates
  BY DEF Inv, SecretsInv
<1> QED
  BY <1>1, InvHolds, PTL

\* An instance profile leaves the cache of the server only when its own detection has failed,
\* it has expired or it is the oldest of a full cache, and no failure is answered from there
\* once it has been handled.
THEOREM CacheKeepsTheRest == Spec => CacheForgetsOnlyItsOwn
<1> DEFINE Forgets ==
      /\ \A e \in ToSet(cache) :
           ~Keeps(cache', e) =>
             \/ detection[e.by] = "failed"
             \/ e.expires <= now
             \/ /\ Len(cache) = MaxOrigins /\ e = Head(cache)
                /\ \E new \in ToSet(cache') : ~Keeps(cache, new)
      /\ \A e \in ToSet(cache') : detection'[e.by] # "handled"
<1>1. ASSUME Inv, [Next]_vars
      PROVE  Forgets
  <2>1. CacheInv' /\ \A e \in ToSet(cache) : e \notin ToSet(cache') => MayGo(e)
    BY <1>1, CacheKept DEF Inv
  <2>2. \A e \in ToSet(cache) : ~Keeps(cache', e) => MayGo(e)
    BY <2>1, KeepsMembers
  <2>3. \A e \in ToSet(cache') : detection'[e.by] # "handled"
    BY <2>1 DEF CacheInv, EntriesAreOwn, ToSet
  <2> QED
    BY <2>2, <2>3 DEF MayGo
<1> HIDE DEF Forgets
<1>2. Inv /\ [Next]_vars => [Forgets]_cacheVars
  BY <1>1
<1>3. CacheForgetsOnlyItsOwn <=> [][Forgets]_cacheVars
  BY DEF CacheForgetsOnlyItsOwn, Forgets
<1> QED
  BY <1>2, <1>3, InvHolds, PTL DEF Spec

\* Only the limiter turns a call away for want of capacity.
LEMMA CapacityRefused ==
  ASSUME CallTypes, Next, NEW c \in Calls,
         phase[c] = "idle", phase'[c] = "capacity_exceeded"
  PROVE  \E reserve \in BOOLEAN : Refused(c, reserve)
<1>1. PICK d \in Calls : QuerySteps(d) \/ LimiterSteps(d) \/ Authorized(d) \/ StoreState(d)
  BY StepsOfNext DEF Tick, ClientLeaves, Exchange, OthersStay, SecretsOnly, callVars
<1>2. ~StoreState(d)
  BY DEF StoreState, callVars
<1>3. ~QuerySteps(d)
  BY DEF QuerySteps, Resolve, Detect, Settle, Catch, Finish, WaiterLeaves, To, callVars,
         CallTypes
<1>4. ~Authorized(d) /\ ~Register(d) /\ ~Registered(d) /\ ~Start(d)
  BY DEF Authorized, Register, Registered, Start, Admitted, To, CallTypes
<1>5. Refused(d, TRUE) \/ Refused(d, FALSE)
  BY <1>1, <1>2, <1>3, <1>4 DEF LimiterSteps
<1>6. d = c
  BY <1>5 DEF Refused, To, CallTypes
<1> QED
  BY <1>5, <1>6

\* The keys that the limiter still keeps when it counts them have been used within the last
\* two windows.
LEMMA TrackedKeysAreRecent ==
  ASSUME CallTypes, LimiterInv, NEW k \in Tracked
  PROVE  k \in Keys /\ \E d \in AdmittedSince(now) \cup AdmittedSince(now - Window) : key[d] = k
<1>1. PICK x \in Swept(starts[k]) : TRUE
  BY DEF Tracked
<1>2. k \in Keys /\ x \in starts[k]
  BY <1>1, SweptLists DEF Tracked
<1> DEFINE d == x.by
<1>3. /\ d \in InService /\ key[d] = k /\ x.at = at[d]
      /\ x.at > nextCleanupAt - 2 * Window
      /\ at[d] <= now
  BY <1>2 DEF LimiterInv, ListsAreRecent, Listed
<1>4. /\ d \in Calls /\ at[d] \in Nat /\ now \in Nat /\ Window \in Nat
      /\ nextCleanupAt \in Nat
  BY <1>3, LimiterConstants DEF InService, CallTypes, LimiterInv, LimiterTypeOK
<1>5. at[d] > now - 2 * Window
  <2>1. CASE now >= nextCleanupAt
    <3>1. at[d] > now - Window
      BY <1>1, <1>3, <2>1 DEF Swept, Active
    <3> QED
      BY <3>1, <1>4
  <2>2. CASE ~(now >= nextCleanupAt)
    BY <1>3, <1>4, <2>2
  <2> QED
    BY <2>1, <2>2
<1>6. CASE at[d] > now - Window
  <2>1. d \in AdmittedSince(now)
    BY <1>3, <1>6, InServiceSince
  <2> QED
    BY <1>2, <1>3, <2>1
<1>7. CASE ~(at[d] > now - Window)
  <2>1. at[d] > (now - Window) - Window /\ at[d] <= now - Window
    BY <1>4, <1>5, <1>7
  <2>2. d \in AdmittedSince(now - Window)
    BY <1>3, <2>1, InServiceSince
  <2> QED
    BY <1>2, <1>3, <2>2
<1> QED
  BY <1>6, <1>7

LEMMA CapacityHolds ==
  ASSUME CallTypes, LimiterInv, NEW c \in Calls, NEW reserve \in BOOLEAN, Refused(c, reserve),
         phase'[c] = "capacity_exceeded"
  PROVE  CapacityIsRecent(c)
<1>1. PICK k \in Keys : CapacityExceeded(k, reserve)
  BY DEF Refused, Refuses, To, CallTypes
<1>2. CASE Cardinality(Live) >= MaxLiveKeys
  BY <1>2 DEF CapacityIsRecent
<1>3. CASE Cardinality(Tracked) >= MaxTrackedKeys
  <2> DEFINE recent == {j \in Keys : \E d \in AdmittedSince(now) \cup AdmittedSince(now - Window) :
                                       key[d] = j}
  <2>1. Tracked \in SUBSET recent /\ recent \in SUBSET Keys
    BY TrackedKeysAreRecent
  <2>2. IsFiniteSet(recent)
    BY <2>1, LimiterConstants, FS_Subset
  <2>3. IsFiniteSet(Tracked) /\ Cardinality(Tracked) <= Cardinality(recent)
    BY <2>1, <2>2, FS_Subset
  <2>4. Cardinality(Tracked) \in Nat /\ Cardinality(recent) \in Nat
    BY <2>2, <2>3, FS_CardinalityType
  <2>5. Cardinality(recent) >= MaxTrackedKeys
    BY <1>3, <2>3, <2>4, LimiterConstants
  <2> QED
    BY <2>5 DEF CapacityIsRecent
<1> QED
  BY <1>1, <1>2, <1>3 DEF CapacityExceeded

\* No window, wherever it ends, holds more starts and registrations than the limiter allows per
\* key, per client and in all, its reservations are those of the registrations under way, and
\* it refuses a call for want of capacity only for keys used within the last two windows.
THEOREM LimitsHold == Spec => LimiterBounds
<1> DEFINE Bounds ==
      /\ RatesHold'
      /\ \A c \in Calls : phase'[c] = "capacity_exceeded" /\ phase[c] = "idle"
            => CapacityIsRecent(c)
<1>1. ASSUME Inv, [Next]_vars
      PROVE  [Bounds]_vars
  <2>1. CASE UNCHANGED vars
    BY <2>1
  <2>2. CASE Next
    <3>1. RatesHold'
      BY <1>1, LimiterKept DEF Inv, LimiterInv
    <3>2. \A c \in Calls : phase'[c] = "capacity_exceeded" /\ phase[c] = "idle"
             => CapacityIsRecent(c)
      BY <1>1, <2>2, CapacityRefused, CapacityHolds DEF Inv
    <3> QED
      BY <3>1, <3>2
  <2> QED
    BY <1>1, <2>1, <2>2
<1> HIDE DEF Bounds
<1>2. LimiterBounds <=> [][Bounds]_vars
  BY DEF LimiterBounds, Bounds
<1> QED
  BY <1>1, <1>2, InvHolds, PTL DEF Spec

=============================================================================
