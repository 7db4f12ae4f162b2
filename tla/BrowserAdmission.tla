-------------------------- MODULE BrowserAdmission --------------------------
(***************************************************************************)
(* The browser session manager of the server package: how a browser        *)
(* session is admitted to the store under a budget, how its reservation is *)
(* kept in the allocation ledger and given back, and how the boundary      *)
(* closes while admissions are under way.                                  *)
(*                                                                         *)
(* A store call and the callback that runs when it has answered are two    *)
(* steps: the stores of a deployment answer over a network, and answers to *)
(* different requests come in any order.                                   *)
(***************************************************************************)
EXTENDS Integers, FiniteSets

CONSTANTS
  Requests,    \* concurrent requests
  Ids,         \* identifiers of browser sessions
  NoId,        \* a request that works on none
  Capacity,    \* storedSessionCapacity
  Allocations  \* the activeAllocations limit of the budget

ASSUME AdmissionAssumption ==
  /\ Capacity \in Nat /\ Allocations \in Nat
  /\ NoId \notin Ids

VARIABLES
  records,   \* BrowserSessionStore: the sessions it holds
  ledger,    \* BrowserSessionAllocationLedger: sessions with a reservation
  reserved,  \* the budget: activeAllocations in use
  pendingAdmissions,
  boundary,  \* the promise of close(): not "open" is `closed`
  closeFailed,
  at, id, answer,  \* the requests: where they stand, their session, what they were told
  served     \* history: sessions a request was told are admitted

requestVars   == <<at, id, answer>>
admissionVars == <<records, ledger, reserved, pendingAdmissions, boundary, closeFailed,
                   requestVars, served>>

AdmissionTypeOK ==
  /\ records \subseteq Ids
  /\ ledger \subseteq Ids
  /\ reserved \in 0..Allocations
  /\ pendingAdmissions \in Nat
  /\ boundary \in {"open", "closing", "closed", "failed"}
  /\ closeFailed \in BOOLEAN
  /\ at \in [Requests -> {"idle", "reading", "read", "admitting", "admitted",
                          "undoing", "undone", "looking", "looked",
                          "deleting", "deleted"}]
  /\ id \in [Requests -> Ids \cup {NoId}]
  /\ answer \in [Requests -> BOOLEAN]
  /\ served \subseteq Ids

AdmissionInit ==
  /\ records = {}
  /\ ledger = {}
  /\ reserved = 0
  /\ pendingAdmissions = 0
  /\ boundary = "open"
  /\ closeFailed = FALSE
  /\ at = [r \in Requests |-> "idle"]
  /\ id = [r \in Requests |-> NoId]
  /\ answer = [r \in Requests |-> FALSE]
  /\ served = {}

-----------------------------------------------------------------------------

Begin(r, i, step) ==
  /\ at[r] = "idle" /\ boundary = "open"
  /\ at' = [at EXCEPT ![r] = step]
  /\ id' = [id EXCEPT ![r] = i]
  /\ UNCHANGED answer

Answer(r, step, yes) ==
  /\ at' = [at EXCEPT ![r] = step]
  /\ answer' = [answer EXCEPT ![r] = yes]
  /\ UNCHANGED id

End(r) ==
  /\ at' = [at EXCEPT ![r] = "idle"]
  /\ id' = [id EXCEPT ![r] = NoId]
  /\ answer' = [answer EXCEPT ![r] = FALSE]

\* release() of the ledger, and of the reservation it holds.
Forgotten(i) == ledger' = ledger \ {i} /\ reserved' = reserved - Cardinality(ledger \cap {i})

\* retain() of the ledger; an older reservation for the session is given back.
Retained(i) == ledger' = ledger \cup {i} /\ reserved' = reserved - Cardinality(ledger \cap {i})

-----------------------------------------------------------------------------
(* promote and issueCsrf *)

\* promote: a stateless session is admitted when authentication starts. The cookie
\* is shared by the tabs of a browser, so requests for one session may run at once.
Promote(r, i) ==
  /\ Begin(r, i, "reading")
  /\ UNCHANGED <<records, ledger, reserved, pendingAdmissions, boundary, closeFailed, served>>

StoreReads(r) ==
  /\ at[r] = "reading"
  /\ Answer(r, "read", id[r] \in records)
  /\ UNCHANGED <<records, ledger, reserved, pendingAdmissions, boundary, closeFailed, served>>

\* admit up to the store call: the boundary must be open, the budget must have room.
StartAdmission(r) ==
  /\ pendingAdmissions' = pendingAdmissions + 1
  /\ reserved' = reserved + 1
  /\ at' = [at EXCEPT ![r] = "admitting"]

\* The budget is not asked.
PromoteOnUnbounded(r) ==
  /\ at[r] = "read"
  /\ IF ~answer[r] /\ boundary = "open"
     THEN StartAdmission(r) /\ UNCHANGED <<id, answer>>
     ELSE End(r) /\ UNCHANGED <<pendingAdmissions, reserved>>
  /\ UNCHANGED <<records, ledger, boundary, closeFailed, served>>

PromoteOn(r) ==
  /\ at[r] = "read"
  /\ IF ~answer[r] /\ boundary = "open" /\ reserved < Allocations
     THEN StartAdmission(r) /\ UNCHANGED <<id, answer>>
     ELSE End(r) /\ UNCHANGED <<pendingAdmissions, reserved>>
  /\ UNCHANGED <<records, ledger, boundary, closeFailed, served>>

\* issueCsrf in the stored mode: a new session is admitted under a new identifier.
Issue(r, i) ==
  /\ at[r] = "idle" /\ boundary = "open"
  /\ i \notin records \cup served /\ \A q \in Requests : id[q] # i
  /\ reserved < Allocations
  /\ StartAdmission(r)
  /\ id' = [id EXCEPT ![r] = i]
  /\ UNCHANGED <<answer, records, ledger, boundary, closeFailed, served>>

\* The store admits the session, or knows it already, or has no room.
StoreAdmits(r) ==
  /\ at[r] = "admitting"
  /\ LET yes == id[r] \notin records /\ Cardinality(records) < Capacity
     IN  /\ records' = IF yes THEN records \cup {id[r]} ELSE records
         /\ Answer(r, "admitted", yes)
  /\ UNCHANGED <<ledger, reserved, pendingAdmissions, boundary, closeFailed, served>>

\* The limit on creations per client refuses the session, or the store fails.
StoreRefuses(r) ==
  /\ at[r] = "admitting"
  /\ Answer(r, "admitted", FALSE)
  /\ UNCHANGED <<records, ledger, reserved, pendingAdmissions, boundary, closeFailed, served>>

\* The last admission leaves without a look at the close that waits for it.
LeftSilently(failed) ==
  /\ pendingAdmissions' = pendingAdmissions - 1
  /\ UNCHANGED boundary

\* The finally block: the last admission completes the close.
Left(failed) ==
  /\ pendingAdmissions' = pendingAdmissions - 1
  /\ boundary' = IF boundary = "closing" /\ pendingAdmissions = 1
                 THEN IF failed THEN "failed" ELSE "closed"
                 ELSE boundary

\* A refused session keeps its reservation.
AdmitOnForgetful(r) ==
  /\ at[r] = "admitted"
  /\ IF answer[r] /\ boundary # "open"
     THEN /\ at' = [at EXCEPT ![r] = "undoing"]
          /\ UNCHANGED <<ledger, reserved, pendingAdmissions, boundary, id, answer, served>>
     ELSE /\ IF answer[r]
             THEN Retained(id[r]) /\ served' = served \cup {id[r]}
             ELSE UNCHANGED <<ledger, reserved, served>>
          /\ Left(closeFailed)
          /\ End(r)
  /\ UNCHANGED <<records, closeFailed>>

\* The reservations go with the ledger when the close completes.
Given(held, amount, drained) ==
  /\ ledger' = IF drained THEN {} ELSE held
  /\ reserved' = amount - (IF drained THEN Cardinality(held) ELSE 0)

\* The rest of admit. A boundary that has closed meanwhile takes the session back.
AdmitOn(r) ==
  /\ at[r] = "admitted"
  /\ IF answer[r] /\ boundary # "open"
     THEN /\ at' = [at EXCEPT ![r] = "undoing"]
          /\ UNCHANGED <<ledger, reserved, pendingAdmissions, boundary, id, answer, served>>
     ELSE /\ LET i == id[r]
                 drained == boundary = "closing" /\ pendingAdmissions = 1 /\ ~closeFailed
             IN  IF answer[r]
                 THEN Given(ledger \cup {i}, reserved - Cardinality(ledger \cap {i}), drained)
                 ELSE Given(ledger, reserved - 1, drained)
          /\ served' = IF answer[r] THEN served \cup {id[r]} ELSE served
          /\ Left(closeFailed)
          /\ End(r)
  /\ UNCHANGED <<records, closeFailed>>

StoreUndoes(r) ==
  /\ at[r] = "undoing"
  /\ \E yes \in BOOLEAN :
       /\ records' = IF yes THEN records \ {id[r]} ELSE records
       /\ Answer(r, "undone", yes)
  /\ UNCHANGED <<ledger, reserved, pendingAdmissions, boundary, closeFailed, served>>

\* Where the session could not be taken back, its reservation is kept and the
\* close fails.
UndoOn(r) ==
  /\ at[r] = "undone"
  /\ closeFailed' = (closeFailed \/ ~answer[r])
  /\ LET i == id[r]
         drained == boundary = "closing" /\ pendingAdmissions = 1 /\ ~closeFailed'
     IN  IF answer[r]
         THEN Given(ledger, reserved - 1, drained)
         ELSE Given(ledger \cup {i}, reserved - Cardinality(ledger \cap {i}), drained)
  /\ Left(closeFailed')
  /\ End(r)
  /\ UNCHANGED <<records, served>>

-----------------------------------------------------------------------------
(* resolveOptional, delete and expiry *)

Look(r, i) ==
  /\ Begin(r, i, "looking")
  /\ UNCHANGED <<records, ledger, reserved, pendingAdmissions, boundary, closeFailed, served>>

StoreLooks(r) ==
  /\ at[r] = "looking"
  /\ Answer(r, "looked", id[r] \in records)
  /\ UNCHANGED <<records, ledger, reserved, pendingAdmissions, boundary, closeFailed, served>>

\* A session that is not found gives its reservation back.
LookOn(r) ==
  /\ at[r] = "looked"
  /\ IF answer[r] THEN UNCHANGED <<ledger, reserved>> ELSE Forgotten(id[r])
  /\ End(r)
  /\ UNCHANGED <<records, pendingAdmissions, boundary, closeFailed, served>>

\* delete: logout, and a session whose authentication is gone.
Delete(r, i) ==
  /\ i \in served
  /\ Begin(r, i, "deleting")
  /\ UNCHANGED <<records, ledger, reserved, pendingAdmissions, boundary, closeFailed, served>>

StoreDeletes(r) ==
  /\ at[r] = "deleting"
  /\ records' = records \ {id[r]}
  /\ Answer(r, "deleted", TRUE)
  /\ UNCHANGED <<ledger, reserved, pendingAdmissions, boundary, closeFailed, served>>

DeleteOn(r) ==
  /\ at[r] = "deleted"
  /\ Forgotten(id[r])
  /\ End(r)
  /\ UNCHANGED <<records, pendingAdmissions, boundary, closeFailed, served>>

\* A session expires: the store drops it, and the timer of the ledger fires.
ExpireRecord(i) ==
  /\ i \in records
  /\ records' = records \ {i}
  /\ UNCHANGED <<ledger, reserved, pendingAdmissions, boundary, closeFailed, requestVars, served>>

ExpireReservation(i) ==
  /\ i \in ledger \ records
  /\ Forgotten(i)
  /\ UNCHANGED <<records, pendingAdmissions, boundary, closeFailed, requestVars, served>>

-----------------------------------------------------------------------------
(* close *)

\* The admissions under way are not waited for.
CloseAtOnce ==
  /\ boundary = "open"
  /\ boundary' = "closed"
  /\ ledger' = {}
  /\ reserved' = reserved - Cardinality(ledger)
  /\ UNCHANGED <<records, pendingAdmissions, closeFailed, requestVars, served>>

\* close() completes at once or when the last admission leaves.
CloseBoundary ==
  /\ boundary = "open"
  /\ boundary' = IF pendingAdmissions = 0 THEN "closed" ELSE "closing"
  /\ Given(ledger, reserved, pendingAdmissions = 0)
  /\ UNCHANGED <<records, pendingAdmissions, closeFailed, requestVars, served>>

Arrive(r) == \E i \in Ids : Promote(r, i) \/ Issue(r, i) \/ Look(r, i) \/ Delete(r, i)

Proceed(r) ==
  \/ StoreReads(r) \/ PromoteOn(r)
  \/ StoreAdmits(r) \/ StoreRefuses(r) \/ AdmitOn(r)
  \/ StoreUndoes(r) \/ UndoOn(r)
  \/ StoreLooks(r) \/ LookOn(r)
  \/ StoreDeletes(r) \/ DeleteOn(r)

AdmissionStep ==
  \/ \E r \in Requests : Arrive(r) \/ Proceed(r)
  \/ \E i \in Ids : ExpireRecord(i) \/ ExpireReservation(i)

\* Handlers run on, and the store answers.
AdmissionFairness == \A r \in Requests : WF_admissionVars(Proceed(r))

-----------------------------------------------------------------------------
(* Properties *)

Admitting == {r \in Requests : at[r] \in {"admitting", "admitted", "undoing", "undone"}}

\* Every reservation of the budget belongs to a session of the ledger or to an
\* admission under way: none is lost or given back twice, on whichever path an
\* admission ends.
BudgetBalanced ==
  /\ reserved = Cardinality(ledger) + Cardinality(Admitting)
  /\ pendingAdmissions = Cardinality(Admitting)

\* A close that has returned normally has left nothing behind: no admission under
\* way, no reservation, and in the store no session that nobody was told of.
ClosedIsDrained ==
  boundary = "closed" => Admitting = {} /\ reserved = 0 /\ records \subseteq served

\* A boundary whose close has settled admits no session, late answers included.
NoLateAdmission ==
  [][(boundary \in {"closed", "failed"}) =>
       /\ records' \subseteq records
       /\ served' = served]_admissionVars

=============================================================================
