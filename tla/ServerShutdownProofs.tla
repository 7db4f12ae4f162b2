------------------------ MODULE ServerShutdownProofs ------------------------
(***************************************************************************)
(* Theorems about ServerShutdown, for any set of workers, of requests and  *)
(* of sessions: what the security lifecycle guarantees to the owner of the *)
(* stores, that the browser boundary loses no reservation and admits no    *)
(* session once it is closed, and what has come to rest when close() has   *)
(* returned.                                                               *)
(***************************************************************************)
EXTENDS ServerShutdown, FiniteSetTheorems, TLAPS

\* close() waits for every cleanup that was under way when it was called, and none
\* begins afterwards; before start() there is none at all, and no interval before
\* start() has returned.
CloseAwaitsAll ==
  /\ started # "ready" => timers = {}
  /\ started = "idle" => \A w \in Workers : inFlight[w] = "none"
  /\ closed = "closing" => \A w \in Workers : inFlight[w] # "none" => w \in awaited
  /\ closed = "closed" => \A w \in Workers : inFlight[w] = "none"

LifecycleInv ==
  /\ LifecycleTypeOK
  /\ NoOverlap
  /\ ClosedHasNoTimers
  /\ CloseAwaitsAll

\* The lifecycle begins at rest.
LEMMA LifecycleBegins == LifecycleInit => LifecycleInv
BY DEF LifecycleInit, LifecycleInv, LifecycleTypeOK, NoOverlap, ClosedHasNoTimers,
       CloseAwaitsAll

\* Every step of the lifecycle, its owner's calls included, keeps the invariant.
LEMMA LifecycleKeeps ==
  ASSUME LifecycleInv, StartLifecycle \/ LifecycleStep \/ CloseLifecycle
  PROVE  LifecycleInv'
<1> USE DEF LifecycleInv, LifecycleTypeOK
<1>1. CASE StartLifecycle
  <2>1. NoOverlap'
    BY <1>1 DEF StartLifecycle, NoOverlap, CloseAwaitsAll
  <2>2. ClosedHasNoTimers' /\ CloseAwaitsAll'
    BY <1>1 DEF StartLifecycle, ClosedHasNoTimers, CloseAwaitsAll
  <2>3. QED
    BY <1>1, <2>1, <2>2 DEF StartLifecycle
<1>2. CASE Schedule
  BY <1>2 DEF Schedule, NoOverlap, ClosedHasNoTimers, CloseAwaitsAll
<1>3. ASSUME NEW w \in Workers, TimerFires(w)
      PROVE  LifecycleInv'
  <2>1. inFlight[w] = "none" /\ running[w] = 0 /\ closed = "open"
    BY <1>3 DEF TimerFires, NoOverlap
  <2>2. NoOverlap'
    BY <1>3, <2>1 DEF TimerFires, NoOverlap
  <2>3. ClosedHasNoTimers'
    BY <1>3, <2>1 DEF TimerFires, ClosedHasNoTimers
  <2>4. CloseAwaitsAll'
    BY <1>3, <2>1 DEF TimerFires, CloseAwaitsAll
  <2>5. QED
    BY <1>3, <2>2, <2>3, <2>4 DEF TimerFires
<1>4. ASSUME NEW w \in Workers, NEW ok \in BOOLEAN, Settle(w, ok)
      PROVE  LifecycleInv'
  <2>1. inFlight[w] # "none" /\ running[w] = 1
    BY <1>4 DEF Settle, NoOverlap
  <2>2. NoOverlap'
    BY <1>4, <2>1 DEF Settle, NoOverlap
  <2>3. closed' \in {closed, "failed"} /\ (closed' # closed => closed = "closing")
    BY <1>4 DEF Settle
  <2>4. ClosedHasNoTimers'
    BY <1>4, <2>3 DEF Settle, ClosedHasNoTimers
  <2>5. CloseAwaitsAll'
    BY <1>4, <2>1, <2>3 DEF Settle, CloseAwaitsAll
  <2>6. LifecycleTypeOK'
    BY <1>4, <2>1, <2>3 DEF Settle
  <2>7. QED
    BY <2>2, <2>4, <2>5, <2>6
<1>5. CASE LifecycleCloses
  BY <1>5 DEF LifecycleCloses, NoOverlap, ClosedHasNoTimers, CloseAwaitsAll
<1>6. CASE CloseLifecycle
  BY <1>6 DEF CloseLifecycle, NoOverlap, ClosedHasNoTimers, CloseAwaitsAll
<1>7. QED
  BY <1>1, <1>2, <1>3, <1>4, <1>5, <1>6 DEF LifecycleStep

\* The requests and the listeners leave the lifecycle alone; close() of the server
\* calls its close().
LEMMA LifecycleInvariant == Spec => []LifecycleInv
<1>1. Init => LifecycleInv
  BY LifecycleBegins DEF Init
<1>2. LifecycleInv /\ [Next]_vars => LifecycleInv'
  <2> SUFFICES ASSUME LifecycleInv, [Next]_vars
               PROVE  LifecycleInv'
    OBVIOUS
  <2>1. CASE UNCHANGED lifecycleVars
    BY <2>1 DEF lifecycleVars, LifecycleInv, LifecycleTypeOK, NoOverlap,
                ClosedHasNoTimers, CloseAwaitsAll
  <2>2. CASE Lifecycle
    BY <2>2, LifecycleKeeps DEF Lifecycle
  <2>3. CASE BrowserClosed
    BY <2>3, LifecycleKeeps DEF BrowserClosed
  <2>4. ASSUME NEW r \in Requests, Receive(r) \/ Handle(r) \/ Disconnect(r)
        PROVE  UNCHANGED lifecycleVars
    BY <2>4 DEF Receive, Handle, Disconnect
  <2>5. CASE Expire \/ Close \/ ListenersClosed \/ ServerClosed
    BY <2>1, <2>5 DEF Expire, Close, ListenersClosed, ServerClosed
  <2>6. CASE UNCHANGED vars
    BY <2>1, <2>6 DEF vars
  <2>7. QED
    BY <2>1, <2>2, <2>3, <2>4, <2>5, <2>6 DEF Next
<1>3. QED
  BY <1>1, <1>2, PTL DEF Spec

\* Two cleanups of the same store never run at the same time.
THEOREM CleanupsDoNotOverlap == Spec => []NoOverlap
<1>1. LifecycleInv => NoOverlap
  BY DEF LifecycleInv
<1>2. QED
  BY <1>1, LifecycleInvariant, PTL

\* From close() on there is no interval, even when close() came in the middle of
\* start(), and when close() has returned normally no cleanup is left.
THEOREM QuietAfterClose == Spec => []ClosedIsQuiet
<1>1. LifecycleInv => ClosedIsQuiet
  BY DEF LifecycleInv, NoOverlap, ClosedHasNoTimers, CloseAwaitsAll, ClosedIsQuiet
<1>2. QED
  BY <1>1, LifecycleInvariant, PTL

-----------------------------------------------------------------------------
(* The browser boundary *)

\* A request that has a session in the store, or may have, of which nobody was told.
Untold(r) ==
  \/ at[r] = "admitted" /\ answer[r]
  \/ at[r] = "undoing"
  \/ at[r] = "undone" /\ ~answer[r]

\* Ledger and admissions under way are finite and the budget counts both.
Counted ==
  /\ IsFiniteSet(ledger) /\ IsFiniteSet(Admitting)
  /\ BudgetBalanced

\* A boundary that is closing waits for an admission; one that has settled has none
\* left, and one that has closed has no reservation either.
Waits ==
  /\ boundary = "closing" => Admitting # {}
  /\ boundary \in {"closed", "failed"} => Admitting = {}
  /\ boundary = "closed" => ledger = {} /\ ~closeFailed

\* A session of the store is one that was told, or one whose request can still tell it
\* or take it back; otherwise the close is bound to fail.
Told ==
  closeFailed \/ \A i \in records :
                   i \in served \/ \E r \in Requests : id[r] = i /\ Untold(r)

\* While the boundary is open nothing is taken back, and nothing can have failed.
NothingUndone ==
  boundary = "open" =>
    ~closeFailed /\ \A r \in Requests : at[r] \notin {"undoing", "undone"}

AdmissionInv ==
  /\ AdmissionTypeOK
  /\ \A r \in Requests : at[r] # "idle" => id[r] \in Ids
  /\ Counted
  /\ Waits
  /\ Told
  /\ NothingUndone

\* Both counts are numbers, and nobody is admitting exactly when their number is zero.
LEMMA Counts ==
  ASSUME Counted
  PROVE  /\ Cardinality(ledger) \in Nat /\ Cardinality(Admitting) \in Nat
         /\ Cardinality(Admitting) = 0 <=> Admitting = {}
BY FS_CardinalityType, FS_EmptySet DEF Counted

\* What a request that moves on does to the set of admissions under way.
LEMMA AdmittingMoves ==
  ASSUME AdmissionInv, NEW r \in Requests, NEW step, at' = [at EXCEPT ![r] = step]
  PROVE  /\ IsFiniteSet(Admitting')
         /\ step \in {"admitting", "admitted", "undoing", "undone"} =>
              /\ Admitting' = Admitting \cup {r}
              /\ Cardinality(Admitting') =
                   IF r \in Admitting THEN Cardinality(Admitting)
                                     ELSE Cardinality(Admitting) + 1
         /\ step \notin {"admitting", "admitted", "undoing", "undone"} =>
              /\ Admitting' = Admitting \ {r}
              /\ Cardinality(Admitting') =
                   IF r \in Admitting THEN Cardinality(Admitting) - 1
                                     ELSE Cardinality(Admitting)
<1>1. CASE step \in {"admitting", "admitted", "undoing", "undone"}
  <2>1. Admitting' = Admitting \cup {r}
    BY <1>1 DEF AdmissionInv, AdmissionTypeOK, Admitting
  <2>2. QED
    BY <1>1, <2>1, FS_AddElement DEF AdmissionInv, Counted
<1>2. CASE step \notin {"admitting", "admitted", "undoing", "undone"}
  <2>1. Admitting' = Admitting \ {r}
    BY <1>2 DEF AdmissionInv, AdmissionTypeOK, Admitting
  <2>2. QED
    BY <1>2, <2>1, FS_RemoveElement DEF AdmissionInv, Counted
<1>3. QED
  BY <1>1, <1>2

\* What the ledger counts with and without a session.
LEMMA LedgerMoves ==
  ASSUME AdmissionInv, NEW i
  PROVE  /\ IsFiniteSet(ledger \cup {i}) /\ IsFiniteSet(ledger \ {i})
         /\ Cardinality(ledger \cap {i}) = IF i \in ledger THEN 1 ELSE 0
         /\ Cardinality(ledger \cup {i}) =
              Cardinality(ledger) + (1 - Cardinality(ledger \cap {i}))
         /\ Cardinality(ledger \ {i}) = Cardinality(ledger) - Cardinality(ledger \cap {i})
<1>1. IsFiniteSet(ledger) /\ Cardinality(ledger) \in Nat
  BY Counts DEF AdmissionInv, Counted
<1>2. Cardinality(ledger \cap {i}) = IF i \in ledger THEN 1 ELSE 0
  <2>1. CASE i \in ledger
    <3>1. ledger \cap {i} = {i}
      BY <2>1
    <3>2. QED
      BY <2>1, <3>1, FS_Singleton
  <2>2. CASE i \notin ledger
    <3>1. ledger \cap {i} = {}
      BY <2>2
    <3>2. QED
      BY <2>2, <3>1, FS_EmptySet
  <2>3. QED
    BY <2>1, <2>2
<1>3. QED
  BY <1>1, <1>2, FS_AddElement, FS_RemoveElement

\* The boundary begins open, with nothing under way.
LEMMA AdmissionBegins == AdmissionInit => AdmissionInv
<1> SUFFICES ASSUME AdmissionInit PROVE AdmissionInv
  OBVIOUS
<1>1. Admitting = {}
  BY DEF AdmissionInit, Admitting
<1>2. Counted
  BY <1>1, FS_EmptySet DEF AdmissionInit, Counted, BudgetBalanced
<1>3. AdmissionTypeOK
  <2>1. at \in [Requests -> {"idle"}] /\ id \in [Requests -> {NoId}]
    BY DEF AdmissionInit
  <2>2. answer \in [Requests -> BOOLEAN]
    BY DEF AdmissionInit
  <2>3. reserved \in 0..Allocations
    BY AdmissionAssumption DEF AdmissionInit
  <2>4. closeFailed \in BOOLEAN
    BY DEF AdmissionInit
  <2>5. QED
    BY <2>1, <2>2, <2>3, <2>4 DEF AdmissionInit, AdmissionTypeOK
<1>4. Waits /\ Told
  BY <1>1 DEF AdmissionInit, Waits, Told
<1>5. \A r \in Requests : at[r] = "idle"
  BY DEF AdmissionInit
<1>6. NothingUndone
  BY <1>5 DEF AdmissionInit, NothingUndone
<1>7. QED
  BY <1>2, <1>3, <1>4, <1>5, <1>6 DEF AdmissionInv

\* A step between two calls of the store that neither begins nor ends an admission
\* counts nothing.
LEMMA CountsStay ==
  ASSUME AdmissionInv, NEW r \in Requests, NEW step,
         at' = [at EXCEPT ![r] = step],
         step \in {"admitting", "admitted", "undoing", "undone"} <=> r \in Admitting,
         UNCHANGED <<ledger, reserved, pendingAdmissions, boundary, closeFailed>>
  PROVE  Counted' /\ Waits'
<1>1. Admitting' = Admitting /\ IsFiniteSet(Admitting')
  BY AdmittingMoves
<1>2. QED
  BY <1>1 DEF AdmissionInv, Counted, BudgetBalanced, Waits

\* A request arrives.
LEMMA ArrivalsKeep ==
  ASSUME AdmissionInv, NEW r \in Requests, NEW i \in Ids,
         Promote(r, i) \/ Look(r, i) \/ Delete(r, i)
  PROVE  AdmissionInv'
<1>1. PICK step \in {"reading", "looking", "deleting"} : Begin(r, i, step)
  BY DEF Promote, Look, Delete
<1>2. UNCHANGED <<records, ledger, reserved, pendingAdmissions, boundary, closeFailed, served,
                  answer>>
  BY <1>1 DEF Promote, Look, Delete, Begin
<1>3. r \notin Admitting /\ ~Untold(r)
  BY <1>1 DEF Begin, Admitting, Untold
<1>4. Counted' /\ Waits'
  BY <1>1, <1>2, <1>3, CountsStay DEF Begin
<1>5. AdmissionTypeOK'
  BY <1>1, <1>2 DEF AdmissionInv, AdmissionTypeOK, Begin
<1>6. \A q \in Requests : at'[q] # "idle" => id'[q] \in Ids
  BY <1>1 DEF AdmissionInv, AdmissionTypeOK, Begin
<1>7. \A q \in Requests : Untold(q) => Untold(q)' /\ id'[q] = id[q]
  BY <1>1, <1>2, <1>3 DEF AdmissionInv, AdmissionTypeOK, Begin, Untold
<1>8. Told'
  BY <1>2, <1>7 DEF AdmissionInv, Told
<1>9. NothingUndone'
  BY <1>1, <1>2 DEF AdmissionInv, AdmissionTypeOK, Begin, NothingUndone
<1>10. QED
  BY <1>4, <1>5, <1>6, <1>8, <1>9 DEF AdmissionInv

\* The store answers a request that is neither about to begin nor to end an admission,
\* and what it answers about a session it has taken in or out is known to the request.
LEMMA AnswerKeeps ==
  ASSUME AdmissionInv, NEW r \in Requests, NEW yes \in BOOLEAN,
         NEW step \in {"read", "admitted", "undone", "looked", "deleted"},
         Answer(r, step, yes), at[r] # "idle",
         step \in {"admitted", "undone"} <=> r \in Admitting,
         step = "undone" => at[r] = "undoing",
         UNCHANGED <<ledger, reserved, pendingAdmissions, boundary, closeFailed, served>>,
         records' \subseteq records \cup {id[r]},
         \A i \in records' : (i \in records /\ ~Untold(r)) \/ i # id[r] \/ Untold(r)'
  PROVE  AdmissionInv'
<1>1. Counted' /\ Waits'
  BY CountsStay DEF Answer
<1>2. id[r] \in Ids
  BY DEF AdmissionInv
<1>3. AdmissionTypeOK'
  BY <1>2 DEF Answer, AdmissionInv, AdmissionTypeOK
<1>4. \A q \in Requests : at'[q] # "idle" => id'[q] \in Ids
  BY <1>2 DEF AdmissionInv, AdmissionTypeOK, Answer
<1>5. \A q \in Requests : q # r /\ Untold(q) => Untold(q)'
  BY DEF AdmissionInv, AdmissionTypeOK, Answer, Untold
<1>6. id' = id
  BY DEF Answer
<1>7. Told'
  <2> SUFFICES ASSUME ~closeFailed, NEW i \in records', i \notin served
               PROVE  \E q \in Requests : id[q] = i /\ Untold(q)'
    BY <1>6 DEF Told
  <2>1. CASE Untold(r)' /\ i = id[r]
    BY <2>1
  <2>2. CASE ~(Untold(r)' /\ i = id[r])
    <3>1. i \in records /\ (i = id[r] => ~Untold(r))
      BY <2>2
    <3>2. PICK q \in Requests : id[q] = i /\ Untold(q)
      BY <3>1 DEF AdmissionInv, Told
    <3>3. QED
      BY <1>5, <3>1, <3>2
  <2>3. QED
    BY <2>1, <2>2
<1>8. NothingUndone'
  BY DEF AdmissionInv, AdmissionTypeOK, Answer, NothingUndone
<1>9. QED
  BY <1>1, <1>3, <1>4, <1>7, <1>8 DEF AdmissionInv

LEMMA AnswersKeep ==
  ASSUME AdmissionInv, NEW r \in Requests,
         \/ StoreReads(r) \/ StoreAdmits(r) \/ StoreRefuses(r)
         \/ StoreUndoes(r) \/ StoreLooks(r) \/ StoreDeletes(r)
  PROVE  AdmissionInv'
<1> USE DEF Admitting, Untold
<1>1. CASE StoreReads(r)
  <2>1. PICK yes \in BOOLEAN : yes = (id[r] \in records)
    <3>1. (id[r] \in records) \in BOOLEAN
      OBVIOUS
    <3>2. QED
      BY <3>1, Zenon
  <2>2. Answer(r, "read", yes)
    BY <1>1, <2>1 DEF StoreReads
  <2>3. QED
    BY <1>1, <2>2, AnswerKeeps DEF StoreReads
<1>2. CASE StoreAdmits(r)
  <2>1. PICK yes \in BOOLEAN :
          yes = (id[r] \notin records /\ Cardinality(records) < Capacity)
    OBVIOUS
  <2>2. Answer(r, "admitted", yes)
    BY <1>2, <2>1 DEF StoreAdmits
  <2>3. /\ yes => Untold(r)'
        /\ records' = IF yes THEN records \cup {id[r]} ELSE records
    BY <1>2, <2>1, <2>2 DEF StoreAdmits, Answer, AdmissionInv, AdmissionTypeOK
  <2>4. QED
    BY <1>2, <2>2, <2>3, AnswerKeeps DEF StoreAdmits
<1>3. CASE StoreRefuses(r)
  BY <1>3, AnswerKeeps DEF StoreRefuses
<1>4. CASE StoreUndoes(r)
  <2>1. PICK yes \in BOOLEAN :
          /\ records' = IF yes THEN records \ {id[r]} ELSE records
          /\ Answer(r, "undone", yes)
    BY <1>4 DEF StoreUndoes
  <2>2. ~yes => Untold(r)'
    BY <2>1 DEF Answer, AdmissionInv, AdmissionTypeOK
  <2>3. QED
    BY <1>4, <2>1, <2>2, AnswerKeeps DEF StoreUndoes
<1>5. CASE StoreLooks(r)
  <2>1. PICK yes \in BOOLEAN : yes = (id[r] \in records)
    <3>1. (id[r] \in records) \in BOOLEAN
      OBVIOUS
    <3>2. QED
      BY <3>1, Zenon
  <2>2. Answer(r, "looked", yes)
    BY <1>5, <2>1 DEF StoreLooks
  <2>3. QED
    BY <1>5, <2>2, AnswerKeeps DEF StoreLooks
<1>6. CASE StoreDeletes(r)
  BY <1>6, AnswerKeeps DEF StoreDeletes
<1>7. QED
  BY <1>1, <1>2, <1>3, <1>4, <1>5, <1>6

\* An admission begins, with a reservation of the budget, while the boundary is open.
LEMMA AdmissionStarts ==
  ASSUME AdmissionInv, NEW r \in Requests, StartAdmission(r), boundary = "open",
         at[r] \in {"idle", "read"}, id'[r] \in Ids, reserved < Allocations,
         \A q \in Requests : q # r => id'[q] = id[q],
         id' \in [Requests -> Ids \cup {NoId}],
         UNCHANGED <<answer, records, ledger, boundary, closeFailed, served>>
  PROVE  AdmissionInv'
<1>1. r \notin Admitting /\ ~Untold(r)
  BY DEF Admitting, Untold
<1>2. IsFiniteSet(Admitting') /\ Cardinality(Admitting') = Cardinality(Admitting) + 1
      /\ r \in Admitting'
  BY <1>1, AdmittingMoves DEF StartAdmission
<1>3. /\ Cardinality(ledger) \in Nat /\ Cardinality(Admitting) \in Nat
      /\ reserved = Cardinality(ledger) + Cardinality(Admitting)
      /\ pendingAdmissions = Cardinality(Admitting)
  BY Counts DEF AdmissionInv, Counted, BudgetBalanced
<1>4. Counted'
  BY <1>2, <1>3 DEF AdmissionInv, Counted, BudgetBalanced, StartAdmission
<1>5. Waits'
  BY DEF AdmissionInv, Waits
<1>6. AdmissionTypeOK'
  <2>1. reserved' \in 0..Allocations /\ pendingAdmissions' \in Nat
    BY <1>3, AdmissionAssumption DEF StartAdmission, AdmissionInv, AdmissionTypeOK
  <2>2. QED
    BY <2>1 DEF StartAdmission, AdmissionInv, AdmissionTypeOK
<1>7. \A q \in Requests : at'[q] # "idle" => id'[q] \in Ids
  BY DEF StartAdmission, AdmissionInv, AdmissionTypeOK
<1>8. \A q \in Requests : Untold(q) => Untold(q)' /\ id'[q] = id[q]
  BY <1>1 DEF StartAdmission, AdmissionInv, AdmissionTypeOK, Untold
<1>9. Told'
  BY <1>8 DEF AdmissionInv, Told
<1>10. NothingUndone'
  BY DEF StartAdmission, AdmissionInv, AdmissionTypeOK, NothingUndone
<1>11. QED
  BY <1>4, <1>5, <1>6, <1>7, <1>9, <1>10 DEF AdmissionInv

\* A request ends that is not about an admission; it may give a reservation back.
LEMMA EndKeeps ==
  ASSUME AdmissionInv, NEW r \in Requests, End(r), r \notin Admitting,
         UNCHANGED <<ledger, reserved>> \/ Forgotten(id[r]),
         UNCHANGED <<records, pendingAdmissions, boundary, closeFailed, served>>
  PROVE  AdmissionInv'
<1>1. Admitting' = Admitting
  BY DEF End, Admitting, AdmissionInv, AdmissionTypeOK
<1>2. /\ IsFiniteSet(ledger') /\ ledger' \subseteq ledger
      /\ Cardinality(ledger') = Cardinality(ledger) - (reserved - reserved')
      /\ reserved' \in Int /\ reserved' <= reserved
  <2>1. CASE UNCHANGED <<ledger, reserved>>
    BY <2>1, Counts DEF AdmissionInv, Counted, AdmissionTypeOK
  <2>2. CASE Forgotten(id[r])
    <3>1. /\ IsFiniteSet(ledger \ {id[r]})
          /\ Cardinality(ledger \cap {id[r]}) \in {0, 1}
          /\ Cardinality(ledger \ {id[r]}) =
               Cardinality(ledger) - Cardinality(ledger \cap {id[r]})
      BY LedgerMoves
    <3>2. reserved \in Nat /\ Cardinality(ledger) \in Nat
      BY Counts DEF AdmissionInv, AdmissionTypeOK
    <3>3. QED
      BY <2>2, <3>1, <3>2 DEF Forgotten
  <2>3. QED
    BY <2>1, <2>2
<1>3. IsFiniteSet(Admitting') /\ Cardinality(ledger') \in Nat
      /\ Cardinality(ledger) \in Nat /\ Cardinality(Admitting) \in Nat
  BY <1>1, <1>2, Counts, FS_CardinalityType DEF AdmissionInv, Counted
<1>4. Counted' /\ reserved' \in 0..Allocations
  BY <1>1, <1>2, <1>3, AdmissionAssumption
     DEF AdmissionInv, Counted, BudgetBalanced, AdmissionTypeOK
<1>5. Waits'
  BY <1>1, <1>2 DEF AdmissionInv, Waits
<1>6. AdmissionTypeOK'
  BY <1>2, <1>4 DEF End, AdmissionInv, AdmissionTypeOK
<1>7. \A q \in Requests : at'[q] # "idle" => id'[q] \in Ids
  BY DEF End, AdmissionInv, AdmissionTypeOK
<1>8. \A q \in Requests : Untold(q) => Untold(q)' /\ id'[q] = id[q]
  BY DEF End, AdmissionInv, AdmissionTypeOK, Untold, Admitting
<1>9. Told'
  BY <1>8 DEF AdmissionInv, Told
<1>10. NothingUndone'
  BY DEF End, AdmissionInv, AdmissionTypeOK, NothingUndone
<1>11. QED
  BY <1>4, <1>5, <1>6, <1>7, <1>9, <1>10 DEF AdmissionInv

\* The rest of promote, of issueCsrf, of resolveOptional and of delete.
LEMMA HandlersKeep ==
  ASSUME AdmissionInv, NEW r \in Requests,
         \/ PromoteOn(r) \/ LookOn(r) \/ DeleteOn(r)
         \/ \E i \in Ids : Issue(r, i)
  PROVE  AdmissionInv'
<1>1. CASE PromoteOn(r)
  <2>1. id[r] \in Ids /\ r \notin Admitting /\ id \in [Requests -> Ids \cup {NoId}]
    BY <1>1 DEF PromoteOn, AdmissionInv, AdmissionTypeOK, Admitting
  <2>2. CASE ~answer[r] /\ boundary = "open" /\ reserved < Allocations
    BY <1>1, <2>1, <2>2, AdmissionStarts DEF PromoteOn
  <2>3. CASE ~(~answer[r] /\ boundary = "open" /\ reserved < Allocations)
    BY <1>1, <2>1, <2>3, EndKeeps DEF PromoteOn
  <2>4. QED
    BY <2>2, <2>3
<1>2. CASE LookOn(r) \/ DeleteOn(r)
  BY <1>2, EndKeeps DEF LookOn, DeleteOn, Admitting
<1>3. ASSUME NEW i \in Ids, Issue(r, i)
      PROVE  AdmissionInv'
  <2>1. /\ id'[r] \in Ids /\ id' \in [Requests -> Ids \cup {NoId}]
        /\ \A q \in Requests : q # r => id'[q] = id[q]
    BY <1>3 DEF Issue, AdmissionInv, AdmissionTypeOK
  <2>2. QED
    BY <1>3, <2>1, AdmissionStarts DEF Issue
<1>4. QED
  BY <1>1, <1>2, <1>3

\* Drained and not: what an admission that leaves does to ledger, budget and boundary.
Drained == boundary = "closing" /\ pendingAdmissions = 1 /\ ~closeFailed'

LEMMA LeavingKeeps ==
  ASSUME AdmissionInv, NEW r \in Requests, r \in Admitting, End(r), Left(closeFailed'),
         \/ Given(ledger \cup {id[r]}, reserved - Cardinality(ledger \cap {id[r]}), Drained)
         \/ Given(ledger, reserved - 1, Drained),
         closeFailed' \in BOOLEAN, closeFailed => closeFailed',
         closeFailed' => closeFailed \/ at[r] = "undone",
         served' \in {served, served \cup {id[r]}},
         closeFailed' \/ (Untold(r) => id[r] \in served'),
         UNCHANGED records
  PROVE  AdmissionInv'
<1>1. /\ Admitting' = Admitting \ {r}
      /\ id[r] \in Ids
  BY DEF End, Admitting, AdmissionInv, AdmissionTypeOK
<1>2. /\ IsFiniteSet(Admitting') /\ Cardinality(Admitting) \in Nat
      /\ Cardinality(Admitting') = Cardinality(Admitting) - 1
      /\ Cardinality(Admitting') \in Nat
      /\ Cardinality(Admitting') = 0 <=> Admitting' = {}
  BY <1>1, FS_RemoveElement, FS_CardinalityType, FS_EmptySet DEF AdmissionInv, Counted
<1>3. /\ reserved = Cardinality(ledger) + Cardinality(Admitting)
      /\ pendingAdmissions = Cardinality(Admitting)
      /\ IsFiniteSet(ledger) /\ Cardinality(ledger) \in Nat
      /\ boundary \in {"open", "closing"}
  BY Counts DEF AdmissionInv, Counted, BudgetBalanced, Waits, AdmissionTypeOK
<1>4. PICK held, amount :
        /\ \/ /\ held = ledger \cup {id[r]}
              /\ amount = reserved - Cardinality(ledger \cap {id[r]})
           \/ held = ledger /\ amount = reserved - 1
        /\ Given(held, amount, Drained)
  OBVIOUS
<1>5. /\ held \subseteq Ids /\ IsFiniteSet(held) /\ Cardinality(held) \in Nat
      /\ amount = Cardinality(held) + Cardinality(Admitting')
  <2>1. CASE held = ledger \cup {id[r]} /\ amount = reserved - Cardinality(ledger \cap {id[r]})
    <3>1. /\ IsFiniteSet(held)
          /\ Cardinality(ledger \cap {id[r]}) \in {0, 1}
          /\ Cardinality(held) = Cardinality(ledger) + (1 - Cardinality(ledger \cap {id[r]}))
      BY <2>1, LedgerMoves
    <3>2. QED
      BY <1>1, <1>2, <1>3, <2>1, <3>1 DEF AdmissionInv, AdmissionTypeOK
  <2>2. CASE held = ledger /\ amount = reserved - 1
    BY <1>2, <1>3, <2>2 DEF AdmissionInv, AdmissionTypeOK
  <2>3. QED
    BY <1>4, <2>1, <2>2
<1>6. /\ ledger' = IF Drained THEN {} ELSE held
      /\ reserved' = amount - (IF Drained THEN Cardinality(held) ELSE 0)
  BY <1>4 DEF Given
<1>7. Drained => Admitting' = {}
  BY <1>2, <1>3 DEF Drained
<1>8. Counted'
  <2>1. IsFiniteSet(ledger') /\ reserved' = Cardinality(ledger') + Cardinality(Admitting')
    <3>1. CASE Drained
      BY <3>1, <1>2, <1>5, <1>6, <1>7, FS_EmptySet
    <3>2. CASE ~Drained
      BY <3>2, <1>2, <1>5, <1>6
    <3>3. QED
      BY <3>1, <3>2
  <2>2. QED
    BY <2>1, <1>2, <1>3 DEF Counted, BudgetBalanced, Left
<1>9. Waits'
  <2>1. CASE boundary = "closing" /\ pendingAdmissions = 1
    BY <2>1, <1>2, <1>3, <1>6 DEF Waits, Left, Drained
  <2>2. CASE ~(boundary = "closing" /\ pendingAdmissions = 1)
    BY <2>2, <1>2, <1>3 DEF Waits, Left
  <2>3. QED
    BY <2>1, <2>2
<1>10. AdmissionTypeOK'
  <2>1. amount <= reserved /\ reserved' \in 0..Allocations /\ pendingAdmissions' \in Nat
    <3>1. amount \in Nat /\ amount <= reserved
      <4>1. CASE held = ledger /\ amount = reserved - 1
        BY <4>1, <1>2, <1>3, <1>5
      <4>2. CASE amount = reserved - Cardinality(ledger \cap {id[r]})
        <5>1. Cardinality(ledger \cap {id[r]}) \in {0, 1}
          BY LedgerMoves
        <5>2. QED
          BY <4>2, <5>1, <1>2, <1>3, <1>5
      <4>3. QED
        BY <1>4, <4>1, <4>2
    <3>2. reserved' = amount \/ reserved' = Cardinality(Admitting')
      BY <1>2, <1>5, <1>6
    <3>3. QED
      BY <3>1, <3>2, <1>2, <1>3, <1>5, AdmissionAssumption
         DEF AdmissionInv, AdmissionTypeOK, Left
  <2>2. ledger' \subseteq Ids /\ boundary' \in {"open", "closing", "closed", "failed"}
    BY <1>3, <1>5, <1>6 DEF Left
  <2>3. QED
    BY <1>1, <2>1, <2>2 DEF End, AdmissionInv, AdmissionTypeOK
<1>11. \A q \in Requests : at'[q] # "idle" => id'[q] \in Ids
  BY DEF End, AdmissionInv, AdmissionTypeOK
<1>12. \A q \in Requests : q # r /\ Untold(q) => Untold(q)' /\ id'[q] = id[q]
  BY DEF End, AdmissionInv, AdmissionTypeOK, Untold
<1>13. Told'
  BY <1>12 DEF AdmissionInv, Told
<1>14. NothingUndone'
  <2> SUFFICES ASSUME boundary' = "open"
               PROVE  ~closeFailed' /\ \A q \in Requests : at'[q] \notin {"undoing", "undone"}
    BY DEF NothingUndone
  <2>1. boundary = "open"
    BY DEF Left
  <2>2. QED
    BY <2>1 DEF End, AdmissionInv, AdmissionTypeOK, NothingUndone
<1>15. QED
  BY <1>8, <1>9, <1>10, <1>11, <1>13, <1>14 DEF AdmissionInv

\* The rest of admit, on each of its paths.
LEMMA AdmissionsEnd ==
  ASSUME AdmissionInv, NEW r \in Requests, AdmitOn(r) \/ UndoOn(r)
  PROVE  AdmissionInv'
<1>0. r \in Admitting
  BY DEF AdmitOn, UndoOn, Admitting
<1>1. CASE AdmitOn(r) /\ answer[r] /\ boundary # "open"
  <2>1. at' = [at EXCEPT ![r] = "undoing"]
        /\ UNCHANGED <<ledger, reserved, pendingAdmissions, boundary, id, answer, served,
                       records, closeFailed>>
    BY <1>1 DEF AdmitOn
  <2>2. Counted' /\ Waits'
    BY <1>0, <2>1, CountsStay
  <2>3. \A q \in Requests : Untold(q) => Untold(q)'
    BY <2>1 DEF Untold, AdmissionInv, AdmissionTypeOK
  <2>4. Told'
    BY <2>1, <2>3 DEF AdmissionInv, Told
  <2>5. AdmissionTypeOK'
    BY <2>1 DEF AdmissionInv, AdmissionTypeOK
  <2>6. \A q \in Requests : at'[q] # "idle" => id'[q] \in Ids
    BY <1>1, <2>1 DEF AdmitOn, AdmissionInv, AdmissionTypeOK
  <2>7. NothingUndone'
    BY <1>1, <2>1 DEF NothingUndone
  <2>8. QED
    BY <2>2, <2>4, <2>5, <2>6, <2>7 DEF AdmissionInv
<1>2. CASE AdmitOn(r) /\ ~(answer[r] /\ boundary # "open")
  <2>1. closeFailed' = closeFailed /\ closeFailed \in BOOLEAN /\ End(r) /\ Left(closeFailed')
        /\ UNCHANGED records
    BY <1>2 DEF AdmitOn, AdmissionInv, AdmissionTypeOK
  <2>2. \/ Given(ledger \cup {id[r]}, reserved - Cardinality(ledger \cap {id[r]}), Drained)
        \/ Given(ledger, reserved - 1, Drained)
    BY <1>2, <2>1 DEF AdmitOn, Drained
  <2>3. /\ served' = IF answer[r] THEN served \cup {id[r]} ELSE served
        /\ Untold(r) => answer[r]
    BY <1>2 DEF AdmitOn, Untold
  <2>4. QED
    BY <1>0, <2>1, <2>2, <2>3, LeavingKeeps
<1>3. CASE UndoOn(r)
  <2>1. /\ closeFailed' = (closeFailed \/ ~answer[r])
        /\ End(r) /\ Left(closeFailed') /\ UNCHANGED <<records, served>>
    BY <1>3 DEF UndoOn
  <2>2. \/ Given(ledger \cup {id[r]}, reserved - Cardinality(ledger \cap {id[r]}), Drained)
        \/ Given(ledger, reserved - 1, Drained)
    BY <1>3 DEF UndoOn, Drained
  <2>3. at[r] = "undone" /\ (Untold(r) => ~answer[r])
    BY <1>3 DEF UndoOn, Untold
  <2>4. closeFailed' \in BOOLEAN
    BY <2>1
  <2>5. QED
    BY <1>0, <2>1, <2>2, <2>3, <2>4, LeavingKeeps
<1>4. QED
  BY <1>1, <1>2, <1>3

\* Sessions and reservations expire.
LEMMA ExpiryKeeps ==
  ASSUME AdmissionInv, NEW i \in Ids, ExpireRecord(i) \/ ExpireReservation(i)
  PROVE  AdmissionInv'
<1>1. CASE ExpireRecord(i)
  <2>1. /\ records' \subseteq records
        /\ UNCHANGED <<ledger, reserved, pendingAdmissions, boundary, closeFailed, at, id,
                       answer, served>>
    BY <1>1 DEF ExpireRecord, requestVars
  <2>2. Counted' /\ Waits'
    BY <2>1 DEF AdmissionInv, Counted, BudgetBalanced, Waits, Admitting
  <2>3. Told' /\ NothingUndone'
    BY <2>1 DEF AdmissionInv, Told, Untold, NothingUndone
  <2>4. QED
    BY <2>1, <2>2, <2>3 DEF AdmissionInv, AdmissionTypeOK
<1>2. CASE ExpireReservation(i)
  <2>1. /\ UNCHANGED <<records, pendingAdmissions, boundary, closeFailed, at, id, answer,
                       served>>
        /\ ledger' = ledger \ {i}
        /\ reserved' = reserved - Cardinality(ledger \cap {i})
    BY <1>2 DEF ExpireReservation, Forgotten, requestVars
  <2>2. /\ IsFiniteSet(ledger \ {i})
        /\ Cardinality(ledger \cap {i}) \in {0, 1}
        /\ Cardinality(ledger \ {i}) = Cardinality(ledger) - Cardinality(ledger \cap {i})
    BY LedgerMoves
  <2>3. /\ Admitting' = Admitting /\ Cardinality(ledger \ {i}) \in Nat
        /\ Cardinality(ledger) \in Nat /\ Cardinality(Admitting) \in Nat
        /\ reserved = Cardinality(ledger) + Cardinality(Admitting)
    BY <2>1, <2>2, Counts, FS_CardinalityType
       DEF Admitting, AdmissionInv, Counted, BudgetBalanced
  <2>4. reserved' = Cardinality(ledger') + Cardinality(Admitting')
    BY <2>1, <2>2, <2>3
  <2>5. Counted'
    BY <2>1, <2>2, <2>3, <2>4 DEF AdmissionInv, Counted, BudgetBalanced
  <2>6. reserved' \in 0..Allocations
    BY <2>1, <2>2, <2>3, <2>4, AdmissionAssumption DEF AdmissionInv, AdmissionTypeOK
  <2>7. Waits' /\ Told' /\ NothingUndone'
    BY <2>1, <2>3 DEF AdmissionInv, Waits, Told, Untold, NothingUndone
  <2>8. QED
    BY <2>1, <2>5, <2>6, <2>7 DEF AdmissionInv, AdmissionTypeOK
<1>3. QED
  BY <1>1, <1>2

\* The boundary is closed.
LEMMA ClosingKeeps == AdmissionInv /\ CloseBoundary => AdmissionInv'
<1> SUFFICES ASSUME AdmissionInv, CloseBoundary PROVE AdmissionInv'
  OBVIOUS
<1>1. /\ UNCHANGED <<records, pendingAdmissions, closeFailed, at, id, answer, served>>
      /\ ledger' = IF pendingAdmissions = 0 THEN {} ELSE ledger
      /\ reserved' = reserved - (IF pendingAdmissions = 0 THEN Cardinality(ledger) ELSE 0)
      /\ boundary' = IF pendingAdmissions = 0 THEN "closed" ELSE "closing"
  BY DEF CloseBoundary, Given, requestVars
<1>2. /\ Admitting' = Admitting
      /\ Cardinality(ledger) \in Nat /\ Cardinality(Admitting) \in Nat
      /\ Cardinality(Admitting) = 0 <=> Admitting = {}
      /\ reserved = Cardinality(ledger) + Cardinality(Admitting)
      /\ pendingAdmissions = Cardinality(Admitting)
  BY <1>1, Counts DEF Admitting, AdmissionInv, Counted, BudgetBalanced
<1>3. /\ IsFiniteSet(ledger') /\ ledger' \subseteq ledger
      /\ Cardinality(ledger') \in Nat
      /\ reserved' = Cardinality(ledger') + Cardinality(Admitting')
      /\ reserved' <= reserved
  <2>1. IsFiniteSet(ledger) /\ IsFiniteSet({}) /\ Cardinality({}) = 0
    BY FS_EmptySet DEF AdmissionInv, Counted
  <2>2. CASE pendingAdmissions = 0
    BY <1>1, <1>2, <2>1, <2>2
  <2>3. CASE pendingAdmissions # 0
    BY <1>1, <1>2, <2>1, <2>3
  <2>4. QED
    BY <2>2, <2>3
<1>4. Counted'
  BY <1>1, <1>2, <1>3 DEF AdmissionInv, Counted, BudgetBalanced
<1>5. reserved' \in 0..Allocations
  BY <1>2, <1>3, AdmissionAssumption DEF AdmissionInv, AdmissionTypeOK
<1>6. ~closeFailed
  BY DEF CloseBoundary, AdmissionInv, NothingUndone
<1>7. Waits'
  BY <1>1, <1>2, <1>6 DEF Waits
<1>8. Told' /\ NothingUndone'
  BY <1>1 DEF AdmissionInv, Told, Untold, NothingUndone
<1>9. AdmissionTypeOK'
  BY <1>1, <1>3, <1>5 DEF AdmissionInv, AdmissionTypeOK
<1>10. QED
  BY <1>1, <1>4, <1>7, <1>8, <1>9 DEF AdmissionInv

\* Every step of the boundary keeps the invariant.
LEMMA AdmissionKeeps ==
  ASSUME AdmissionInv,
         \/ \E r \in Requests : Arrive(r) \/ Proceed(r)
         \/ \E i \in Ids : ExpireRecord(i) \/ ExpireReservation(i)
         \/ CloseBoundary
  PROVE  AdmissionInv'
<1>1. ASSUME NEW r \in Requests, Arrive(r)
      PROVE  AdmissionInv'
  BY <1>1, ArrivalsKeep, HandlersKeep DEF Arrive
<1>2. ASSUME NEW r \in Requests, Proceed(r)
      PROVE  AdmissionInv'
  BY <1>2, AnswersKeep, HandlersKeep, AdmissionsEnd DEF Proceed
<1>3. QED
  BY <1>1, <1>2, ExpiryKeeps, ClosingKeeps

\* The listeners, the lifecycle and a client that goes away leave the boundary alone.
LEMMA StepsOfTheBoundary ==
  ASSUME Next
  PROVE  \/ UNCHANGED admissionVars
         \/ \E r \in Requests : Arrive(r) \/ Proceed(r)
         \/ \E i \in Ids : ExpireRecord(i) \/ ExpireReservation(i)
         \/ CloseBoundary
BY DEF Next, Lifecycle, Receive, Handle, Disconnect, Expire, Close, ListenersClosed,
       BrowserClosed, ServerClosed

LEMMA AdmissionInvariant == Spec => []AdmissionInv
<1>1. Init => AdmissionInv
  BY AdmissionBegins DEF Init
<1>2. AdmissionInv /\ [Next]_vars => AdmissionInv'
  <2> SUFFICES ASSUME AdmissionInv, [Next]_vars
               PROVE  AdmissionInv'
    OBVIOUS
  <2>1. CASE UNCHANGED admissionVars
    BY <2>1 DEF admissionVars, requestVars, AdmissionInv, AdmissionTypeOK, Counted,
                BudgetBalanced, Waits, Told, Untold, NothingUndone, Admitting
  <2>2. CASE Next
    BY <2>1, <2>2, StepsOfTheBoundary, AdmissionKeeps
  <2>3. CASE UNCHANGED vars
    BY <2>1, <2>3 DEF vars
  <2>4. QED
    BY <2>2, <2>3
<1>3. QED
  BY <1>1, <1>2, PTL DEF Spec

\* No reservation of the budget is lost or given back twice, on whichever path an
\* admission, a lookup, a deletion, an expiry or the close goes.
THEOREM ReservationsBalance == Spec => []BudgetBalanced
<1>1. AdmissionInv => BudgetBalanced
  BY DEF AdmissionInv, Counted
<1>2. QED
  BY <1>1, AdmissionInvariant, PTL

\* Once its close has settled the boundary admits no session, whichever answers of the
\* store come late.
THEOREM ClosedBoundaryAdmitsNobody == Spec => NoLateAdmission
<1>1. AdmissionInv /\ [Next]_vars =>
        [(boundary \in {"closed", "failed"}) =>
           records' \subseteq records /\ served' = served]_admissionVars
  <2> SUFFICES ASSUME AdmissionInv, [Next]_vars, boundary \in {"closed", "failed"},
                      admissionVars' # admissionVars
               PROVE  records' \subseteq records /\ served' = served
    OBVIOUS
  <2>1. \A r \in Requests : at[r] \notin {"admitting", "admitted", "undoing", "undone"}
    BY DEF AdmissionInv, Waits, Admitting
  <2>2. CASE Next
    <3>1. ASSUME NEW r \in Requests, Arrive(r)
          PROVE  UNCHANGED <<records, served>>
      BY <3>1 DEF Arrive, Promote, Issue, Look, Delete
    <3>2. ASSUME NEW r \in Requests, Proceed(r)
          PROVE  records' \subseteq records /\ served' = served
      BY <2>1, <3>2 DEF Proceed, StoreReads, PromoteOn, StoreAdmits, StoreRefuses, AdmitOn,
                        StoreUndoes, UndoOn, StoreLooks, LookOn, StoreDeletes, DeleteOn
    <3>3. ASSUME NEW i \in Ids, ExpireRecord(i) \/ ExpireReservation(i)
          PROVE  records' \subseteq records /\ served' = served
      BY <3>3 DEF ExpireRecord, ExpireReservation
    <3>4. CASE CloseBoundary
      BY <3>4 DEF CloseBoundary
    <3>5. QED
      BY <2>2, <3>1, <3>2, <3>3, <3>4, StepsOfTheBoundary
  <2>3. CASE UNCHANGED vars
    BY <2>3 DEF vars
  <2>4. QED
    BY <2>2, <2>3
<1>2. QED
  BY <1>1, AdmissionInvariant, PTL DEF Spec, NoLateAdmission

-----------------------------------------------------------------------------
(* close() of the server *)

\* What close() has got behind it at each of its stages.
StagesInv ==
  /\ connected \subseteq Requests
  /\ server \in {"open", "listeners", "browser", "lifecycle", "closed", "failed"}
  /\ failing \in BOOLEAN
  /\ server \in {"lifecycle", "closed", "failed"} => boundary \in {"closed", "failed"}
  /\ server \in {"lifecycle", "closed"} /\ ~failing => boundary = "closed"
  /\ server = "closed" => ~failing /\ closed = "closed"

\* A boundary or a lifecycle that has closed stays as it is.
LEMMA ClosedStays ==
  ASSUME AdmissionInv, Next
  PROVE  /\ boundary \in {"closed", "failed"} => boundary' = boundary
         /\ closed = "closed" => closed' = closed
<1>1. ASSUME boundary \in {"closed", "failed"}
      PROVE  boundary' = boundary
  <2>1. \A r \in Requests : at[r] \notin {"admitting", "admitted", "undoing", "undone"}
    BY <1>1 DEF AdmissionInv, Waits, Admitting
  <2>2. ASSUME NEW r \in Requests, Arrive(r)
        PROVE  boundary' = boundary
    BY <2>2 DEF Arrive, Promote, Issue, Look, Delete
  <2>3. ASSUME NEW r \in Requests, Proceed(r)
        PROVE  boundary' = boundary
    BY <2>1, <2>3 DEF Proceed, StoreReads, PromoteOn, StoreAdmits, StoreRefuses, AdmitOn,
                      StoreUndoes, UndoOn, StoreLooks, LookOn, StoreDeletes, DeleteOn
  <2>4. ASSUME NEW i \in Ids, ExpireRecord(i) \/ ExpireReservation(i)
        PROVE  boundary' = boundary
    BY <2>4 DEF ExpireRecord, ExpireReservation
  <2>5. CASE CloseBoundary
    BY <1>1, <2>5 DEF CloseBoundary
  <2>6. CASE UNCHANGED admissionVars
    BY <2>6 DEF admissionVars
  <2>7. QED
    BY <2>2, <2>3, <2>4, <2>5, <2>6, StepsOfTheBoundary
<1>2. ASSUME closed = "closed"
      PROVE  closed' = closed
  <2>1. CASE Lifecycle
    BY <1>2, <2>1 DEF Lifecycle, StartLifecycle, LifecycleStep, Schedule, TimerFires, Settle,
                      LifecycleCloses
  <2>2. CASE BrowserClosed
    BY <1>2, <2>2 DEF BrowserClosed, CloseLifecycle
  <2>3. CASE UNCHANGED lifecycleVars
    BY <2>3 DEF lifecycleVars
  <2>4. QED
    BY <2>1, <2>2, <2>3 DEF Next, Receive, Handle, Disconnect, Expire, Close, ListenersClosed,
                            ServerClosed
<1>3. QED
  BY <1>1, <1>2

LEMMA StagesInvariant == Spec => []StagesInv
<1>1. Init => StagesInv
  BY DEF Init, StagesInv
<1>2. AdmissionInv /\ StagesInv /\ [Next]_vars => StagesInv'
  <2> SUFFICES ASSUME AdmissionInv, StagesInv, [Next]_vars
               PROVE  StagesInv'
    OBVIOUS
  <2>1. CASE UNCHANGED vars
    BY <2>1 DEF StagesInv, vars, admissionVars, lifecycleVars
  <2>2. ASSUME Next
        PROVE  StagesInv'
    <3>1. /\ boundary \in {"closed", "failed"} => boundary' = boundary
          /\ closed = "closed" => closed' = closed
      BY <2>2, ClosedStays
    <3>2. CASE /\ UNCHANGED <<server, failing>>
               /\ connected' \subseteq Requests
      BY <3>1, <3>2 DEF StagesInv
    <3>3. ASSUME NEW r \in Requests, Receive(r) \/ Handle(r) \/ Disconnect(r)
          PROVE  UNCHANGED <<server, failing>> /\ connected' \subseteq Requests
      BY <3>3 DEF Receive, Handle, Disconnect, StagesInv
    <3>4. CASE Lifecycle \/ Expire
      BY <3>2, <3>4 DEF Lifecycle, Expire, StagesInv
    <3>5. CASE Close
      BY <3>5 DEF Close, StagesInv
    <3>6. CASE ListenersClosed
      BY <3>6 DEF ListenersClosed, StagesInv
    <3>7. CASE BrowserClosed
      BY <3>1, <3>7 DEF BrowserClosed, StagesInv
    <3>8. CASE ServerClosed
      BY <3>1, <3>8 DEF ServerClosed, StagesInv
    <3>9. QED
      BY <2>2, <3>2, <3>3, <3>4, <3>5, <3>6, <3>7, <3>8 DEF Next
  <2>3. QED
    BY <2>1, <2>2
<1>3. QED
  BY <1>1, <1>2, AdmissionInvariant, PTL DEF Spec

\* Every variable has its type; in particular the budget is never exceeded.
THEOREM TypeCorrect == Spec => []TypeOK
<1>1. LifecycleInv /\ AdmissionInv /\ StagesInv => TypeOK
  BY DEF LifecycleInv, AdmissionInv, StagesInv, TypeOK
<1>2. QED
  BY <1>1, LifecycleInvariant, AdmissionInvariant, StagesInvariant, PTL

\* When close() has returned normally nothing that uses the stores is left, and a
\* boundary that says it is closed has drained its admissions and left no session in
\* the store of which nobody was told.
THEOREM RestAfterClose == Spec => []ClosedServerIsAtRest
<1>1. LifecycleInv /\ AdmissionInv /\ StagesInv => ClosedServerIsAtRest
  <2> SUFFICES ASSUME LifecycleInv, AdmissionInv, StagesInv
               PROVE  ClosedServerIsAtRest
    OBVIOUS
  <2>1. ASSUME boundary = "closed"
        PROVE  Admitting = {} /\ reserved = 0 /\ records \subseteq served
    <3>1. Admitting = {} /\ ledger = {} /\ ~closeFailed
      BY <2>1 DEF AdmissionInv, Waits
    <3>2. reserved = 0
      BY <3>1, FS_EmptySet DEF AdmissionInv, Counted, BudgetBalanced
    <3>3. \A r \in Requests : ~Untold(r)
      BY <3>1 DEF Admitting, Untold
    <3>4. QED
      BY <3>1, <3>2, <3>3 DEF AdmissionInv, Told
  <2>2. ClosedIsDrained
    BY <2>1 DEF ClosedIsDrained
  <2>3. ASSUME server = "closed"
        PROVE  /\ timers = {} /\ \A w \in Workers : running[w] = 0
               /\ Admitting = {} /\ reserved = 0
    <3>1. boundary = "closed" /\ closed = "closed"
      BY <2>3 DEF StagesInv
    <3>2. QED
      BY <2>1, <3>1 DEF LifecycleInv, NoOverlap, ClosedHasNoTimers, CloseAwaitsAll
  <2>4. QED
    BY <2>2, <2>3 DEF ClosedServerIsAtRest
<1>2. QED
  BY <1>1, LifecycleInvariant, AdmissionInvariant, StagesInvariant, PTL

=============================================================================
