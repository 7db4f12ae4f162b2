---------------------------- MODULE FairSemaphore ----------------------------
(***************************************************************************)
(* The semaphore that bounds how many service calls of one GraphQL request *)
(* run at a time. All its waiters listen to one signal, that of the        *)
(* request. An abort first marks the signal and then calls the listeners   *)
(* one after another; a release may come between two of them.              *)
(***************************************************************************)
EXTENDS ServerProcess

CONSTANT Maximum

ASSUME SemaphoreAssumption == Maximum \in Nat \ {0}

VARIABLES
  active,
  queue,
  slot,     \* where the promise of each acquire stands
  aborted   \* the signal of the request

semaphoreVars == <<active, queue, slot, aborted>>

SemaphoreTypeOK ==
  /\ active \in 0..Maximum
  /\ queue \in Seq(Calls)
  /\ slot \in [Calls -> {"none", "waiting", "held", "rejected", "released"}]
  /\ aborted \in BOOLEAN

SemaphoreInit ==
  /\ active = 0 /\ queue = <<>>
  /\ slot = [c \in Calls |-> "none"]
  /\ aborted = FALSE

Acquire(c) ==
  /\ slot[c] = "none"
  /\ IF aborted
     THEN slot' = [slot EXCEPT ![c] = "rejected"] /\ UNCHANGED <<active, queue>>
     ELSE IF active < Maximum /\ queue = <<>>
     THEN /\ active' = active + 1
          /\ slot' = [slot EXCEPT ![c] = "held"]
          /\ UNCHANGED queue
     ELSE /\ queue' = Append(queue, c)
          /\ slot' = [slot EXCEPT ![c] = "waiting"]
          /\ UNCHANGED active
  /\ UNCHANGED aborted

\* How many waiters #drain takes from the queue when that many slots are free, at least the
\* one that has just been given back. A waiter that is rejected takes none.
Drained(free) == IF aborted \/ Len(queue) <= free THEN Len(queue) ELSE free

\* A slot is given without being counted.
CountedNever(n) == 0

\* What the waiters that are taken from the queue add to the active count: their one signal
\* is marked or it is not.
Counted(n) == IF aborted THEN 0 ELSE n

\* The slot is left to whoever comes next.
ReleaseOnly(c) ==
  /\ slot[c] = "held"
  /\ active' = active - 1 /\ slot' = [slot EXCEPT ![c] = "released"]
  /\ UNCHANGED <<queue, aborted>>

\* The whole loop of #drain: the first waiters of the queue are rejected or given the slots
\* that are free, and the others stay.
Release(c) ==
  /\ slot[c] = "held"
  /\ LET n     == Drained(Maximum - (active - 1))
         taken == {queue[i] : i \in 1..n}
     IN /\ queue' = SubSeq(queue, n + 1, Len(queue))
        /\ active' = active - 1 + Counted(n)
        /\ slot' = [d \in Calls |-> IF d = c THEN "released"
                                    ELSE IF d \notin taken THEN slot[d]
                                    ELSE IF aborted THEN "rejected" ELSE "held"]
  /\ UNCHANGED aborted

AbortRaised ==
  /\ ~aborted
  /\ aborted' = TRUE
  /\ UNCHANGED <<active, queue, slot>>

\* The listener of a waiter; that of one that has been served is gone.
AbortHeard(c) ==
  /\ aborted
  /\ \E i \in DOMAIN queue : queue[i] = c /\ queue' = RemoveAt(queue, i)
  /\ slot' = [slot EXCEPT ![c] = "rejected"]
  /\ UNCHANGED <<active, aborted>>

-----------------------------------------------------------------------------

\* The slots in use are those that have been given out, and whoever waits is in the queue,
\* once: a grant that races an abort goes neither to nobody nor to two.
SlotsBalanced ==
  /\ active = Cardinality({c \in Calls : slot[c] = "held"})
  /\ ToSet(queue) = {c \in Calls : slot[c] = "waiting"} /\ IsInjective(queue)

\* Nobody waits while a slot is free.
NoIdleSlot == queue # <<>> => active = Maximum

\* Nobody has overtaken a waiter that came before.
FirstCome ==
  \A b, c \in Calls :
    b < c /\ slot[c] \in {"held", "released"} => slot[b] # "waiting"

FairSlots == SlotsBalanced /\ NoIdleSlot /\ FirstCome
=============================================================================
