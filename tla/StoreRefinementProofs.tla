----------------------- MODULE StoreRefinementProofs -----------------------
(***************************************************************************)
(* Proofs about the stores of OAuth states and those of authentication     *)
(* sessions, for any number of callers, any lifetimes, lease and number of *)
(* revisions: the three stores of each implement the abstract ones,        *)
(* OneShotState and RevisionedRecord.                                      *)
(***************************************************************************)
EXTENDS SharedStores, TLAPS

-----------------------------------------------------------------------------
(* OAuth states *)

\* The record: it exists only once created; the claim it names is the latest; a lease
\* belongs to a claim; it is marked used, or gone, once it has been consumed; a key of
\* Redis outlives the state.
RowOK ==
  /\ row # Absent => creator = "done" /\ row.revision >= 0
  /\ row.token # 0 => row.token = grants
  /\ row.lease # 0 => row.token # 0
  /\ row.used => consumed # {} /\ row.token = 0 /\ row.lease = 0
  /\ consumed # {} => creator = "done" /\ (row = Absent \/ row.used)
  /\ backend = "redis" /\ row # Absent => deadline >= ExpiresAt
  /\ creatorNow <= clock
  /\ locker # NoCaller => backend = "postgres" /\ creator = "done"

\* A call about to write: it decided on a record it has read, with a clock that is not
\* ahead; a claim of PostgreSQL has locked that record.
CallOK(c) ==
  /\ call[c].now <= clock
  /\ call[c].at = "writing" /\ backend = "redis" => Can(c, call[c].raw, call[c].now)
  /\ call[c].at = "writing" /\ call[c].op = "claim" /\ backend = "postgres" =>
       locker = c /\ row = call[c].raw /\ Can(c, row, call[c].now)

Inv == TypeOK /\ RowOK /\ \A c \in Callers : CallOK(c)

LEMMA InitInv == Init => Inv
BY StoresAssumption DEF Init, Inv, TypeOK, RowOK, CallOK, Rows, Calls, Idle, Left, Absent

\* A record on which a call can take effect has not been consumed, and the claim of a call
\* that ends a lease is the latest.
LEMMA CanFacts ==
  ASSUME TypeOK, RowOK, NEW c \in Callers, NEW n \in Nat, Can(c, row, n)
  PROVE  /\ row # Absent /\ ~row.used /\ consumed = {}
         /\ n < ExpiresAt
         /\ call[c].op = "claim" => row.lease <= n /\ row.revision < MaxRevision
                                    /\ call[c].until \in 1..ExpiresAt
         /\ call[c].op # "claim" => row = call[c].claim /\ row.token = grants /\ row.token # 0
         /\ call[c].op = "release" => row.revision < MaxRevision
<1> USE StoresAssumption
<1>1. call[c] \in Calls /\ row \in Rows
  BY DEF TypeOK
<1>2. CASE call[c].op = "claim"
  BY <1>1, <1>2 DEF Can, Grantable, RowOK, Rows, Calls
<1>3. CASE call[c].op # "claim"
  <2>1. row = call[c].claim /\ n < row.lease /\ n < ExpiresAt
        /\ (call[c].op = "release" => row.revision < MaxRevision)
    BY <1>3 DEF Can, Endable, Matches
  <2>2. row.lease # 0
    BY <1>1, <2>1 DEF Rows
  <2>3. row # Absent /\ ~row.used
    BY <2>2 DEF Absent, RowOK
  <2> QED BY <1>3, <2>1, <2>2, <2>3 DEF RowOK
<1> QED BY <1>2, <1>3

LEMMA MakeRow ==
  ASSUME NEW a \in -1..MaxRevision, NEW b \in Nat, NEW d \in 0..ExpiresAt, NEW e \in BOOLEAN
  PROVE  [revision |-> a, token |-> b, lease |-> d, used |-> e] \in Rows
BY DEF Rows

\* What is left of a call when it has ended.
LEMMA EndedCall ==
  ASSUME NEW s \in {"idle", "holding", "failed"}, NEW k \in Rows
  PROVE  Left(s, k) \in Calls /\ Left(s, k).at = s /\ Left(s, k).now = 0 /\ Absent \in Rows
<1>1. Absent \in Rows /\ 0 \in 0..EndOfTime
  BY StoresAssumption DEF Absent, Rows
<1> QED BY <1>1 DEF Left, Calls

\* A call that takes effect, on a record that it may change by a clock that is not ahead.
LEMMA AppliedInv ==
  ASSUME Inv, NEW c \in Callers, NEW n \in 0..clock,
         Can(c, row, n), Applied(c), locker \in {c, NoCaller}, locker' = NoCaller,
         backend = "memory" \/ n = call[c].now,
         UNCHANGED <<backend, clock, creator, creatorNow>>
  PROVE  Inv'
<1> USE StoresAssumption
<1>1. TypeOK /\ RowOK /\ CallOK(c) /\ n \in Nat /\ n <= clock
  BY DEF Inv, TypeOK
<1>a. /\ row # Absent /\ ~row.used /\ consumed = {}
      /\ n < ExpiresAt
      /\ call[c].op = "claim" => row.lease <= n /\ row.revision < MaxRevision
                                 /\ call[c].until \in 1..ExpiresAt
      /\ call[c].op # "claim" => row = call[c].claim /\ row.token = grants /\ row.token # 0
      /\ call[c].op = "release" => row.revision < MaxRevision
  BY <1>1, CanFacts
<1>b. call[c] \in Calls /\ row \in Rows /\ call[c].claim \in Rows /\ grants \in Nat
      /\ DOMAIN call = Callers
  BY <1>1 DEF TypeOK, Calls
<1>c. /\ call[c].op = "claim" => row' = [revision |-> row.revision + 1, token |-> grants + 1,
                                         lease |-> call[c].until, used |-> FALSE]
      /\ call[c].op = "release" => row' = [revision |-> row.revision + 1, token |-> 0,
                                           lease |-> 0, used |-> FALSE]
      /\ call[c].op = "consume" =>
           row' = Absent \/ row' = [revision |-> row.revision, token |-> 0, lease |-> 0, used |-> TRUE]
  BY <1>a, <1>b DEF Applied, Claimed, Freed, Used
<1>d. call[c].op \in {"claim", "release", "consume"}
  BY <1>b DEF Calls
<1>e. row' \in Rows
  <2>1. Absent \in Rows
    BY DEF Absent, Rows
  <2>2. row.revision \in -1..MaxRevision
    BY <1>b DEF Rows
  <2>3. CASE call[c].op = "claim"
    <3>1. row.revision + 1 \in -1..MaxRevision /\ grants + 1 \in Nat
          /\ call[c].until \in 0..ExpiresAt
      BY <1>a, <1>b, <2>2, <2>3
    <3> QED BY <1>c, <2>3, <3>1, MakeRow
  <2>4. CASE call[c].op = "release"
    <3>1. row.revision + 1 \in -1..MaxRevision /\ 0 \in 0..ExpiresAt /\ 0 \in Nat
      BY <1>a, <2>2, <2>4
    <3> QED BY <1>c, <2>4, <3>1, MakeRow
  <2>5. CASE call[c].op = "consume"
    <3>1. 0 \in 0..ExpiresAt /\ 0 \in Nat
      OBVIOUS
    <3> QED BY <1>c, <2>1, <2>2, <2>5, <3>1, MakeRow
  <2> QED BY <1>d, <2>3, <2>4, <2>5
<1>f. \E new \in Calls :
        /\ call' = [call EXCEPT ![c] = new]
        /\ new.at \in {"idle", "holding", "failed"} /\ new.now = 0
  <2>1. CASE call' = [call EXCEPT ![c] = Left("holding", row')]
    BY <1>e, <2>1, EndedCall
  <2>2. CASE call' = [call EXCEPT ![c] = Left("failed", call[c].claim)]
    BY <1>b, <2>2, EndedCall
  <2>3. CASE call' = [call EXCEPT ![c] = Left("idle", Absent)]
    <3>1. Absent \in Rows
      BY StoresAssumption DEF Absent, Rows
    <3> QED BY <2>3, <3>1, EndedCall
  <2> QED BY <2>1, <2>2, <2>3 DEF Applied, Forgets, Fails, Idle
<1>g. /\ call' \in [Callers -> Calls]
      /\ call'[c].at \in {"idle", "holding", "failed"} /\ call'[c].now = 0
      /\ \A d \in Callers \ {c} : call'[d] = call[d]
  BY <1>1, <1>f DEF TypeOK
<1>h. deadline' \in Nat /\ (backend = "redis" => deadline' >= ExpiresAt)
  <2>1. call[c].now \in Nat /\ call[c].now <= clock /\ deadline \in Nat /\ clock \in Nat
    BY <1>1, <1>b DEF CallOK, Calls, TypeOK
  <2>2. deadline' = KeptTtl(call[c].now) \/ deadline' = deadline
    BY <1>d DEF Applied
  <2>3. backend = "redis" => deadline >= ExpiresAt
    BY <1>1, <1>a DEF RowOK
  <2>4. backend = "redis" => call[c].now < ExpiresAt
    BY <1>1, <1>a
  <2> QED BY <2>1, <2>2, <2>3, <2>4 DEF KeptTtl
<1>i. /\ grants' = (IF call[c].op = "claim" THEN grants + 1 ELSE grants)
      /\ consumed' = (IF call[c].op = "consume" THEN consumed \cup {grants} ELSE consumed)
      /\ released' = (IF call[c].op = "release" THEN released \cup {grants} ELSE released)
  BY <1>a, <1>d DEF Applied
<1>3. TypeOK'
  BY <1>1, <1>b, <1>e, <1>g, <1>h, <1>i DEF TypeOK
<1>4. RowOK'
  <2>1. row.revision >= 0 /\ creator = "done" /\ creatorNow <= clock
    BY <1>1, <1>a DEF RowOK
  <2>2. CASE call[c].op = "claim"
    BY <1>a, <1>b, <1>c, <1>h, <1>i, <2>1, <2>2 DEF RowOK, Rows
  <2>3. CASE call[c].op = "release"
    BY <1>a, <1>b, <1>c, <1>h, <1>i, <2>1, <2>3 DEF RowOK, Rows
  <2>4. CASE call[c].op = "consume"
    <3>1. consumed' # {} /\ row'.token = 0 /\ row'.lease = 0 /\ (row' = Absent \/ row'.used)
      BY <1>c, <1>i, <2>4 DEF Absent
    <3>2. row' # Absent => row'.revision >= 0
      BY <1>b, <1>c, <2>1, <2>4
    <3> QED BY <1>h, <2>1, <3>1, <3>2 DEF RowOK
  <2> QED BY <1>d, <2>2, <2>3, <2>4
<1>5. ASSUME NEW d \in Callers PROVE CallOK(d)'
  <2>1. CASE d = c
    BY <1>1, <1>g, <2>1 DEF CallOK, TypeOK
  <2>2. CASE d # c
    <3>1. call'[d] = call[d] /\ CallOK(d)
      BY <2>2, <1>g DEF Inv
    <3>2. \A r, m : Can(d, r, m)' <=> Can(d, r, m)
      BY <3>1 DEF Can, Grantable, Endable, Matches
    <3>3. ~(call[d].at = "writing" /\ call[d].op = "claim" /\ backend = "postgres")
      BY <2>2, <3>1, StoresAssumption DEF CallOK
    <3> QED BY <3>1, <3>2, <3>3 DEF CallOK
  <2> QED BY <2>1, <2>2
<1> QED BY <1>3, <1>4, <1>5 DEF Inv

\* What is known of a call does not depend on the other calls.
LEMMA CallFrame ==
  ASSUME NEW d \in Callers, CallOK(d), TypeOK, call'[d] = call[d], backend' = backend,
         clock' \in Nat, clock <= clock',
         call[d].at = "writing" /\ call[d].op = "claim" /\ backend = "postgres" =>
           row' = row /\ locker' = locker
  PROVE  CallOK(d)'
<1>1. \A r, m : Can(d, r, m)' <=> Can(d, r, m)
  BY DEF Can, Grantable, Endable, Matches
<1>2. call[d].now \in Nat /\ clock \in Nat
  BY DEF TypeOK, Calls
<1> QED BY <1>1, <1>2 DEF CallOK

\* A call that ends, fails or takes a step that writes no record.
LEMMA CallStep ==
  ASSUME Inv, NEW c \in Callers, NEW new \in Calls,
         call' = [call EXCEPT ![c] = new],
         UNCHANGED <<backend, clock, row, deadline, creator, creatorNow, histories>>,
         locker' \in Callers \cup {NoCaller}, locker' # locker => locker \in {c, NoCaller},
         locker' # NoCaller => backend = "postgres" /\ creator = "done", CallOK(c)'
  PROVE  Inv'
<1> USE StoresAssumption
<1>1. TypeOK' /\ RowOK'
  BY DEF Inv, TypeOK, RowOK, histories
<1>2. ASSUME NEW d \in Callers PROVE CallOK(d)'
  <2>1. CASE d = c
    BY <2>1
  <2>2. CASE d # c
    <3>1. call'[d] = call[d] /\ CallOK(d) /\ TypeOK /\ clock \in Nat
      BY <2>2 DEF Inv, TypeOK
    <3>2. call[d].at = "writing" /\ call[d].op = "claim" /\ backend = "postgres" =>
            locker' = locker
      BY <2>2, <3>1 DEF CallOK
    <3> QED BY <3>1, <3>2, CallFrame
  <2> QED BY <2>1, <2>2
<1> QED BY <1>1, <1>2 DEF Inv

\* A step of the record that no call takes: it appears, or goes away.
LEMMA RowStep ==
  ASSUME Inv, UNCHANGED <<backend, clock, locker, call, histories>>, locker = NoCaller,
         RowOK', row' \in Rows, deadline' \in Nat, creator' \in {"writing", "done"},
         creatorNow' \in 0..EndOfTime
  PROVE  Inv'
<1>1. TypeOK'
  BY DEF Inv, TypeOK, histories
<1>2. ASSUME NEW d \in Callers PROVE CallOK(d)'
  <2>1. CallOK(d) /\ TypeOK /\ clock \in Nat
    BY DEF Inv, TypeOK
  <2>2. ~(call[d].at = "writing" /\ call[d].op = "claim" /\ backend = "postgres")
    BY <2>1, StoresAssumption DEF CallOK
  <2> QED BY <2>1, <2>2, CallFrame
<1> QED BY <1>1, <1>2 DEF Inv

LEMMA ConstantRows ==
  Absent \in Rows /\ Fresh \in Rows /\ Idle \in Calls
<1>1. Absent \in Rows /\ Fresh \in Rows
  BY StoresAssumption DEF Absent, Fresh, Rows
<1> QED BY <1>1, EndedCall DEF Idle

\* A call that ends without an effect.
LEMMA RefusedInv ==
  ASSUME Inv, NEW c \in Callers, Refused(c),
         UNCHANGED <<backend, clock, row, creator, creatorNow>>,
         locker' \in {locker, NoCaller}, locker' # locker => locker = c
  PROVE  Inv'
<1>1. Idle \in Calls /\ Idle.at = "idle" /\ Idle.now = 0
  BY ConstantRows DEF Idle, Left
<1>2. CallOK(c)'
  BY <1>1 DEF Refused, Forgets, CallOK, Inv, TypeOK
<1> QED BY <1>1, <1>2, CallStep DEF Refused, Forgets, Inv, TypeOK, RowOK

\* A call that finds the record expired and removes it.
LEMMA DroppedInv ==
  ASSUME Inv, NEW c \in Callers, Refused(c), row' = Absent, row # Absent,
         backend # "postgres", UNCHANGED <<backend, clock, locker, creator, creatorNow>>
  PROVE  Inv'
<1>1. Idle \in Calls /\ Idle.at = "idle" /\ Idle.now = 0
  BY ConstantRows DEF Idle, Left
<1>2. TypeOK' /\ RowOK'
  BY <1>1, ConstantRows DEF Refused, Forgets, Inv, TypeOK, RowOK, Absent, histories
<1>3. ASSUME NEW d \in Callers PROVE CallOK(d)'
  <2>1. CASE d = c
    BY <1>1, <2>1 DEF Refused, Forgets, CallOK, Inv, TypeOK
  <2>2. CASE d # c
    <3>1. call'[d] = call[d] /\ CallOK(d) /\ TypeOK /\ clock \in Nat
      BY <2>2 DEF Inv, TypeOK, Refused, Forgets
    <3> QED BY <3>1, CallFrame
  <2> QED BY <2>1, <2>2
<1> QED BY <1>2, <1>3 DEF Inv

\* The record goes away.
LEMMA GoneInv ==
  ASSUME Inv, row' = Absent, row # Absent, locker = NoCaller, deadline' = deadline,
         UNCHANGED <<backend, clock, locker, creator, creatorNow, call, histories>>
  PROVE  Inv'
<1>1. RowOK' /\ creator = "done"
  BY DEF Inv, TypeOK, RowOK, Absent, histories
<1> QED BY <1>1, ConstantRows, RowStep DEF Inv, TypeOK

\* One step of a call: it is refused, takes effect, or goes on.
LEMMA StepOfCall ==
  ASSUME Inv, NEW c \in Callers,
         \/ RunsInMemory(c) \/ LocksRow(c) \/ Commits(c) \/ Updates(c)
         \/ Gets(c) \/ Decides(c) \/ Evals(c)
  PROVE  Inv'
<1> USE StoresAssumption
<1>0. /\ TypeOK /\ RowOK /\ CallOK(c) /\ clock \in Nat /\ clock \in 0..EndOfTime
      /\ call[c] \in Calls /\ call[c].now \in 0..clock /\ row \in Rows
      /\ call[c].now \in Nat
  BY DEF Inv, TypeOK, CallOK, Calls
<1>1. CASE RunsInMemory(c)
  <2>1. clock \in 0..clock /\ locker = NoCaller
    BY <1>0, <1>1 DEF RunsInMemory, RowOK
  <2>2. CASE Expired(row) /\ row' = Absent /\ Refused(c)
    BY <1>1, <2>2, DroppedInv DEF RunsInMemory, Expired
  <2>3. CASE Refused(c) /\ UNCHANGED row
    BY <1>1, <2>3, RefusedInv DEF RunsInMemory
  <2>4. CASE Can(c, row, clock) /\ Applied(c)
    BY <1>1, <2>1, <2>4, AppliedInv DEF RunsInMemory
  <2> QED BY <1>1, <2>2, <2>3, <2>4 DEF RunsInMemory
<1>2. CASE LocksRow(c)
  <2>1. CASE Refused(c) /\ UNCHANGED locker
    BY <1>2, <2>1, RefusedInv DEF LocksRow
  <2>2. CASE ~(Refused(c) /\ UNCHANGED locker)
    <3> DEFINE new == [call[c] EXCEPT !.at = "writing", !.raw = row]
    <3>1. /\ locker = NoCaller /\ Can(c, row, call[c].now) /\ locker' = c
          /\ call' = [call EXCEPT ![c].at = "writing", ![c].raw = row]
          /\ UNCHANGED <<backend, clock, row, deadline, creator, creatorNow, histories>>
          /\ backend = "postgres"
      BY <1>2, <2>2 DEF LocksRow
    <3>2. new \in Calls /\ call' = [call EXCEPT ![c] = new]
      BY <1>0, <3>1 DEF Calls, TypeOK
    <3>3. call'[c] = new
      BY <1>0, <3>2 DEF TypeOK
    <3>4. /\ call'[c].now = call[c].now /\ call'[c].raw = row /\ call'[c].op = call[c].op
          /\ call'[c].until = call[c].until /\ call'[c].claim = call[c].claim
      BY <1>0, <3>3 DEF Calls
    <3>5. \A r, m : Can(c, r, m)' <=> Can(c, r, m)
      BY <3>1, <3>4 DEF Can, Grantable, Endable, Matches
    <3>6. CallOK(c)'
      BY <1>0, <3>1, <3>4, <3>5 DEF CallOK
    <3>7. creator = "done"
      BY <1>0, <3>1, CanFacts DEF RowOK
    <3> HIDE DEF new
    <3> QED BY <1>0, <3>1, <3>2, <3>6, <3>7, CallStep DEF RowOK
  <2> QED BY <2>1, <2>2
<1>3. CASE Commits(c)
  <2>1. backend = "postgres" /\ locker = c /\ Can(c, row, call[c].now) /\ locker' = NoCaller
    BY <1>0, <1>3 DEF Commits, CallOK
  <2>2. CASE Applied(c)
    BY <1>0, <1>3, <2>1, <2>2, AppliedInv DEF Commits
  <2>3. CASE Refused(c) /\ UNCHANGED row
    BY <1>3, <2>1, <2>3, RefusedInv DEF Commits
  <2> QED BY <1>3, <2>2, <2>3 DEF Commits
<1>4. CASE Updates(c)
  <2>1. CASE Can(c, row, call[c].now) /\ Applied(c)
    BY <1>0, <1>4, <2>1, AppliedInv DEF Updates
  <2>2. CASE Refused(c) /\ UNCHANGED row
    BY <1>4, <2>2, RefusedInv DEF Updates
  <2> QED BY <1>4, <2>1, <2>2 DEF Updates
<1>5. CASE Gets(c)
  <2>1. CASE Refused(c)
    BY <1>5, <2>1, RefusedInv DEF Gets
  <2>2. CASE ~Refused(c)
    <3> DEFINE new == [call[c] EXCEPT !.at = "read", !.raw = row]
    <3>1. /\ call' = [call EXCEPT ![c].at = "read", ![c].raw = row]
          /\ UNCHANGED <<backend, clock, row, deadline, locker, creator, creatorNow, histories>>
      BY <1>5, <2>2 DEF Gets
    <3>2. new \in Calls /\ call' = [call EXCEPT ![c] = new] /\ new.at = "read" /\ new.now = call[c].now
      BY <1>0, <3>1 DEF Calls, TypeOK
    <3> HIDE DEF new
    <3>3. call'[c] = new /\ locker \in Callers \cup {NoCaller}
      BY <1>0, <3>2 DEF TypeOK
    <3>4. CallOK(c)'
      BY <1>0, <3>1, <3>2, <3>3 DEF CallOK
    <3> QED BY <1>0, <3>1, <3>2, <3>3, <3>4, CallStep DEF RowOK
  <2> QED BY <2>1, <2>2
<1>6. CASE Decides(c)
  <2>1. CASE Refused(c) /\ row' = Absent /\ row # Absent
    BY <1>6, <2>1, DroppedInv DEF Decides
  <2>2. CASE Refused(c) /\ UNCHANGED row
    BY <1>6, <2>2, RefusedInv DEF Decides
  <2>3. CASE ~Refused(c)
    <3> DEFINE new == [call[c] EXCEPT !.at = "writing", !.now = clock]
    <3>1. /\ call' = [call EXCEPT ![c].at = "writing", ![c].now = clock]
          /\ Can(c, call[c].raw, clock) /\ backend = "redis"
          /\ UNCHANGED <<backend, clock, row, deadline, locker, creator, creatorNow, histories>>
      BY <1>6, <2>3 DEF Decides
    <3>2. new \in Calls /\ call' = [call EXCEPT ![c] = new]
      BY <1>0, <3>1 DEF Calls, TypeOK
    <3>3. call'[c] = new
      BY <1>0, <3>2 DEF TypeOK
    <3>4. /\ call'[c].now = clock /\ call'[c].raw = call[c].raw /\ call'[c].op = call[c].op
          /\ call'[c].until = call[c].until /\ call'[c].claim = call[c].claim
      BY <1>0, <3>3 DEF Calls
    <3>5. \A r, m : Can(c, r, m)' <=> Can(c, r, m)
      BY <3>1, <3>4 DEF Can, Grantable, Endable, Matches
    <3>6. CallOK(c)' /\ locker \in Callers \cup {NoCaller}
      BY <1>0, <3>1, <3>4, <3>5 DEF CallOK, TypeOK
    <3> HIDE DEF new
    <3> QED BY <1>0, <3>1, <3>2, <3>6, CallStep DEF RowOK
  <2> QED BY <1>6, <2>1, <2>2, <2>3 DEF Decides
<1>7. CASE Evals(c)
  <2>1. locker = NoCaller /\ backend = "redis"
    BY <1>0, <1>7 DEF Evals, RowOK
  <2>2. CASE Unchanged(c) /\ Applied(c)
    <3>1. Can(c, row, call[c].now)
      BY <1>0, <1>7, <2>2 DEF Evals, CallOK, Unchanged
    <3> QED BY <1>0, <1>7, <2>1, <2>2, <3>1, AppliedInv DEF Evals
  <2>3. CASE Refused(c) /\ UNCHANGED row
    BY <1>7, <2>3, RefusedInv DEF Evals
  <2> QED BY <1>7, <2>2, <2>3 DEF Evals
<1> QED BY <1>1, <1>2, <1>3, <1>4, <1>5, <1>6, <1>7

LEMMA NextInv == Inv /\ [Next]_vars => Inv'
<1> SUFFICES ASSUME Inv, [Next]_vars PROVE Inv'
  OBVIOUS
<1> USE StoresAssumption
<1>0. TypeOK /\ RowOK /\ (\A d \in Callers : CallOK(d)) /\ clock \in Nat
  BY DEF Inv, TypeOK
<1>1. CASE Tick
  <2>1. TypeOK' /\ RowOK'
    BY <1>0, <1>1 DEF Tick, TypeOK, RowOK, histories
  <2>2. ASSUME NEW d \in Callers PROVE CallOK(d)'
    BY <1>0, <1>1, CallFrame DEF Tick
  <2> QED BY <2>1, <2>2 DEF Inv
<1>2. CASE CreateInMemory
  <2>1. RowOK' /\ locker = NoCaller
    BY <1>0, <1>2 DEF CreateInMemory, RowOK, Fresh, TypeOK, histories
  <2> QED BY <1>0, <1>2, <2>1, ConstantRows, RowStep DEF CreateInMemory, TypeOK
<1>3. CASE CreateReadsClock
  <2>1. TypeOK' /\ RowOK'
    BY <1>0, <1>3 DEF CreateReadsClock, TypeOK, RowOK, histories
  <2>2. ASSUME NEW d \in Callers PROVE CallOK(d)'
    BY <1>0, <1>3, CallFrame DEF CreateReadsClock
  <2> QED BY <2>1, <2>2 DEF Inv
<1>4. CASE CreateWrites
  <2>1. row = Absent /\ consumed = {} /\ clock - creatorNow >= 0 /\ creatorNow \in Nat
        /\ clock \in Nat /\ deadline \in Nat /\ ExpiresAt \in Nat
    BY <1>0, <1>4 DEF CreateWrites, RowOK, TypeOK
  <2>2. locker = NoCaller
    BY <1>0, <1>4 DEF CreateWrites, RowOK
  <2>3. deadline' \in Nat /\ (backend = "redis" => deadline' >= ExpiresAt)
    BY <1>4, <2>1 DEF CreateWrites
  <2>4. RowOK'
    BY <1>0, <1>4, <2>1, <2>3 DEF CreateWrites, RowOK, Fresh, histories
  <2> QED BY <1>0, <1>4, <2>2, <2>3, <2>4, ConstantRows, RowStep DEF CreateWrites, TypeOK
<1>5. CASE KeyExpires \/ DeleteExpired
  <2>1. locker = NoCaller
    BY <1>0, <1>5 DEF KeyExpires, DeleteExpired, RowOK
  <2> QED BY <1>5, <2>1, GoneInv DEF KeyExpires, DeleteExpired, Expired
<1>6. ASSUME NEW c \in Callers, NEW new \in Calls, call' = [call EXCEPT ![c] = new],
             new.now \in 0..clock,
             new.at = "writing" => new.op # "claim" /\ backend = "postgres",
             UNCHANGED <<backend, clock, row, deadline, creator, creatorNow, histories>>,
             locker' \in {locker, NoCaller}, locker' # locker => locker = c
      PROVE  Inv'
  <2>1. call'[c] = new /\ locker' \in Callers \cup {NoCaller}
    BY <1>0, <1>6 DEF TypeOK
  <2>2. CallOK(c)'
    BY <1>0, <1>6, <2>1 DEF CallOK
  <2> QED BY <1>0, <1>6, <2>1, <2>2, CallStep DEF RowOK
<1>7. ASSUME NEW c \in Callers, AskClaim(c) PROVE Inv'
  <2> DEFINE new == [call[c] EXCEPT !.at = "called", !.until = clock + LeaseTime]
  <2>1. clock + LeaseTime \in Nat /\ call[c] \in Calls /\ call[c].now \in 0..clock
    BY <1>0 DEF CallOK, TypeOK, Calls
  <2>2. /\ new \in Calls /\ new.at = "called" /\ new.now = call[c].now
        /\ call' = [call EXCEPT ![c] = new]
    BY <1>0, <1>7, <2>1 DEF AskClaim, TypeOK, Calls
  <2> HIDE DEF new
  <2> QED BY <1>6, <1>7, <2>1, <2>2 DEF AskClaim
<1>8. ASSUME NEW c \in Callers, AskEnd(c) PROVE Inv'
  <2>1. PICK o \in {"release", "consume"} :
          call' = [call EXCEPT ![c].at = "called", ![c].op = o]
    BY <1>8 DEF AskEnd
  <2> DEFINE new == [call[c] EXCEPT !.at = "called", !.op = o]
  <2>2. call[c] \in Calls /\ call[c].now \in 0..clock
    BY <1>0 DEF CallOK, TypeOK, Calls
  <2>3. /\ new \in Calls /\ new.at = "called" /\ new.now = call[c].now
        /\ call' = [call EXCEPT ![c] = new]
    BY <1>0, <2>1, <2>2 DEF TypeOK, Calls
  <2> HIDE DEF new
  <2> QED BY <1>6, <1>8, <2>2, <2>3 DEF AskEnd
<1>9. ASSUME NEW c \in Callers, ReadsClock(c) PROVE Inv'
  <2> DEFINE step == IF call[c].op = "claim" THEN "read" ELSE "writing"
             new == [call[c] EXCEPT !.now = clock, !.at = step]
  <2>1. call[c] \in Calls /\ clock \in 0..EndOfTime /\ clock \in 0..clock
    BY <1>0 DEF TypeOK
  <2>2. step \in {"read", "writing"} /\ (step = "writing" => call[c].op # "claim")
    OBVIOUS
  <2>3. call' = [call EXCEPT ![c].now = clock, ![c].at = step]
    BY <1>9 DEF ReadsClock
  <2> HIDE DEF step
  <2>4. /\ new \in Calls /\ new.at = step /\ new.now = clock /\ new.op = call[c].op
        /\ call' = [call EXCEPT ![c] = new]
    BY <1>0, <2>1, <2>2, <2>3 DEF TypeOK, Calls
  <2> HIDE DEF new
  <2> QED BY <1>6, <1>9, <2>1, <2>2, <2>4 DEF ReadsClock
<1>10. ASSUME NEW c \in Callers, CallFails(c) \/ Crash(c) PROVE Inv'
  <2>1. /\ Idle \in Calls /\ Idle.at = "idle" /\ Idle.now = 0
        /\ Left("failed", call[c].claim) \in Calls /\ Left("failed", call[c].claim).at = "failed"
        /\ Left("failed", call[c].claim).now = 0 /\ 0 \in 0..clock
    BY <1>0, EndedCall, ConstantRows DEF Idle, TypeOK, Calls
  <2>2. \E new \in {Idle, Left("failed", call[c].claim)} : call' = [call EXCEPT ![c] = new]
    BY <1>10 DEF CallFails, Crash, Fails, Forgets
  <2>3. /\ UNCHANGED <<backend, clock, row, deadline, creator, creatorNow, histories>>
        /\ locker' \in {locker, NoCaller} /\ (locker' # locker => locker = c)
    BY <1>10 DEF CallFails, Crash
  <2> QED BY <1>6, <2>1, <2>2, <2>3
<1>11. CASE UNCHANGED vars
  <2>1. TypeOK' /\ RowOK'
    BY <1>0, <1>11 DEF vars, TypeOK, RowOK, histories
  <2>2. ASSUME NEW d \in Callers PROVE CallOK(d)'
    BY <1>0, <1>11, CallFrame DEF vars
  <2> QED BY <2>1, <2>2 DEF Inv
<1> QED
  BY <1>1, <1>2, <1>3, <1>4, <1>5, <1>7, <1>8, <1>9, <1>10, <1>11, StepOfCall DEF Next

\* The types of the stores' state, for every lifetime, lease and number of callers.
THEOREM StoresTypeCorrect == Spec => []TypeOK
<1>1. Spec => []Inv
  BY InitInv, NextInv, PTL DEF Spec
<1>2. Inv => TypeOK
  BY DEF Inv
<1> QED BY <1>1, <1>2, PTL


(***************************************************************************)
(* The refinement                                                          *)
(***************************************************************************)

\* The status of a state that has not been consumed.
LEMMA StatusValues ==
  ASSUME Inv
  PROVE  /\ Status = "consumed" <=> consumed # {}
         /\ Status = "none" <=> consumed = {} /\ creator # "done"
         /\ Status = "expired" <=> consumed = {} /\ creator = "done" /\ row = Absent
         /\ Status = "free" <=> consumed = {} /\ creator = "done" /\ row # Absent /\ row.token = 0
         /\ Status = "held" <=> consumed = {} /\ creator = "done" /\ row # Absent /\ row.token # 0
BY DEF Status

\* A step that leaves what the abstract state is made of is a stutter.
LEMMA SameStatus ==
  ASSUME UNCHANGED <<clock, row, histories>>, creator' = "done" <=> creator = "done"
  PROVE  UNCHANGED OneShot!vars
BY DEF Status, OneShot!vars, histories

\* A record goes away only when its time has passed, or when it had been consumed.
LEMMA GoneMaps ==
  ASSUME Inv, Inv', row # Absent, row' = Absent, ExpiresAt <= clock,
         UNCHANGED <<clock, creator, histories>>
  PROVE  OneShot!Expire \/ UNCHANGED OneShot!vars
<1>1. row' .lease = 0 /\ creator = "done"
  BY DEF Inv, RowOK, Absent
<1>2. CASE consumed = {}
  BY <1>1, <1>2, StatusValues DEF Status, OneShot!Expire, histories
<1>3. CASE consumed # {}
  BY <1>1, <1>3 DEF Inv, RowOK, Status, OneShot!vars, histories
<1> QED BY <1>2, <1>3

\* A call that takes effect is a grant, a release or a consumption by the latest claim.
LEMMA AppliedMaps ==
  ASSUME Inv, Inv', NEW c \in Callers, NEW n \in 0..clock,
         Can(c, row, n), Applied(c), UNCHANGED <<clock, creator>>
  PROVE  OneShot!Grant \/ OneShot!Release \/ OneShot!Consume
<1>1. TypeOK /\ RowOK /\ n \in Nat /\ n <= clock /\ call[c] \in Calls /\ row \in Rows
  BY DEF Inv, TypeOK
<1>2. /\ row # Absent /\ ~row.used /\ consumed = {}
      /\ call[c].op = "claim" => row.lease <= n /\ call[c].until \in 1..ExpiresAt
      /\ call[c].op # "claim" => row = call[c].claim /\ row.token = grants /\ row.token # 0
  BY <1>1, CanFacts
<1>3. creator = "done" /\ row.lease \in Nat /\ clock \in Nat /\ grants \in Nat
      /\ row.revision + 1 # -1
  BY <1>1, <1>2 DEF RowOK, TypeOK, Rows
<1>4. CASE call[c].op = "claim"
  <2>1. row' = Claimed(row, call[c].until) /\ grants' = grants + 1 /\ UNCHANGED <<consumed, released>>
    BY <1>4 DEF Applied
  <2>2. /\ row'.token = grants + 1 /\ row'.lease = call[c].until
        /\ row'.revision = row.revision + 1
    BY <2>1 DEF Claimed
  <2>3. row' # Absent /\ row'.token # 0
    BY <1>3, <2>2 DEF Absent
  <2>4. Status' = "held" /\ Status \in {"free", "held"}
    BY <1>2, <1>3, <2>1, <2>3 DEF Status
  <2> QED BY <1>1, <1>2, <1>3, <1>4, <2>1, <2>2, <2>4 DEF OneShot!Grant
<1>5. CASE call[c].op = "release"
  <2>1. row' = Freed(row) /\ released' = released \cup {grants} /\ UNCHANGED <<grants, consumed>>
    BY <1>2, <1>5 DEF Applied
  <2>2. row'.token = 0 /\ row'.lease = 0 /\ row'.revision = row.revision + 1
    BY <2>1 DEF Freed
  <2>3. row' # Absent
    BY <1>3, <2>2 DEF Absent
  <2>4. Status' = "free" /\ Status = "held"
    BY <1>2, <1>3, <1>5, <2>1, <2>2, <2>3 DEF Status
  <2> QED BY <1>5, <2>1, <2>2, <2>4 DEF OneShot!Release
<1>6. CASE call[c].op = "consume"
  <2>1. row' = Used(row) /\ consumed' = consumed \cup {grants} /\ UNCHANGED <<grants, released>>
    BY <1>2, <1>6 DEF Applied
  <2>2. row'.lease = 0
    BY <2>1 DEF Used, Absent
  <2>3. Status' = "consumed" /\ Status = "held"
    BY <1>2, <1>3, <1>6, <2>1 DEF Status
  <2> QED BY <1>6, <2>1, <2>2, <2>3 DEF OneShot!Consume
<1> QED BY <1>1, <1>4, <1>5, <1>6 DEF Calls

LEMMA RefusedMaps ==
  ASSUME NEW c \in Callers, Refused(c), UNCHANGED <<clock, row, creator>>
  PROVE  UNCHANGED OneShot!vars
BY SameStatus DEF Refused

LEMMA NextMaps ==
  ASSUME Inv, Inv', [Next]_vars
  PROVE  [OneShot!Next]_OneShot!vars
<1> USE StoresAssumption
<1>0. /\ TypeOK /\ RowOK /\ (\A d \in Callers : CallOK(d))
      /\ clock \in Nat /\ clock \in 0..clock
      /\ \A d \in Callers : call[d].now \in 0..clock
  BY DEF Inv, TypeOK, CallOK, Calls
<1>1. CASE Tick
  BY <1>1 DEF Tick, Status, OneShot!Tick, OneShot!Next, histories
<1>2. CASE CreateInMemory \/ CreateWrites
  <2>1. row = Absent /\ consumed = {} /\ creator # "done" /\ row' = Fresh /\ creator' = "done"
        /\ UNCHANGED <<clock, histories>>
    BY <1>0, <1>2 DEF CreateInMemory, CreateWrites, RowOK
  <2>2. row.lease = 0 /\ row'.lease = 0 /\ row'.token = 0 /\ row' # Absent
    BY <2>1 DEF Absent, Fresh
  <2>3. Status = "none" /\ Status' = "free"
    BY <2>1, <2>2 DEF Status, histories
  <2> QED BY <2>1, <2>2, <2>3 DEF OneShot!Register, OneShot!Next, histories
<1>3. CASE CreateReadsClock
  BY <1>3, SameStatus DEF CreateReadsClock
<1>4. CASE KeyExpires \/ DeleteExpired
  <2>1. ExpiresAt <= clock /\ row # Absent /\ row' = Absent /\ UNCHANGED <<clock, creator, histories>>
    BY <1>0, <1>4 DEF KeyExpires, DeleteExpired, Expired, RowOK, TypeOK
  <2> QED BY <2>1, GoneMaps DEF OneShot!Next
<1>5. ASSUME NEW c \in Callers,
             \/ AskClaim(c) \/ AskEnd(c) \/ ReadsClock(c) \/ CallFails(c) \/ Crash(c)
             \/ LocksRow(c) \/ Gets(c)
      PROVE  UNCHANGED OneShot!vars
  BY <1>5, SameStatus DEF AskClaim, AskEnd, ReadsClock, CallFails, Crash, LocksRow, Gets, Refused
<1>6. ASSUME NEW c \in Callers, RunsInMemory(c) PROVE [OneShot!Next]_OneShot!vars
  <2>1. UNCHANGED <<clock, creator>>
    BY <1>6 DEF RunsInMemory
  <2>2. CASE Expired(row) /\ row' = Absent /\ Refused(c)
    BY <2>1, <2>2, GoneMaps DEF Expired, Refused, OneShot!Next
  <2>3. CASE Refused(c) /\ UNCHANGED row
    BY <2>1, <2>3, RefusedMaps
  <2>4. CASE Can(c, row, clock) /\ Applied(c)
    BY <1>0, <2>1, <2>4, AppliedMaps DEF OneShot!Next
  <2> QED BY <1>6, <2>2, <2>3, <2>4 DEF RunsInMemory
<1>7. ASSUME NEW c \in Callers, Commits(c) PROVE [OneShot!Next]_OneShot!vars
  <2>1. UNCHANGED <<clock, creator>> /\ Can(c, row, call[c].now) /\ CallOK(c)
    BY <1>0, <1>7 DEF Commits, CallOK
  <2>2. CASE Refused(c) /\ UNCHANGED row
    BY <2>1, <2>2, RefusedMaps
  <2>3. CASE Applied(c)
    BY <1>0, <2>1, <2>3, AppliedMaps DEF OneShot!Next
  <2> QED BY <1>7, <2>2, <2>3 DEF Commits
<1>8. ASSUME NEW c \in Callers, Updates(c) PROVE [OneShot!Next]_OneShot!vars
  <2>1. UNCHANGED <<clock, creator>>
    BY <1>8 DEF Updates
  <2>2. CASE Refused(c) /\ UNCHANGED row
    BY <2>1, <2>2, RefusedMaps
  <2>3. CASE Can(c, row, call[c].now) /\ Applied(c)
    BY <1>0, <2>1, <2>3, AppliedMaps DEF OneShot!Next
  <2> QED BY <1>8, <2>2, <2>3 DEF Updates
<1>9. ASSUME NEW c \in Callers, Decides(c) PROVE [OneShot!Next]_OneShot!vars
  <2>1. UNCHANGED <<clock, creator>>
    BY <1>9 DEF Decides
  <2>2. CASE Expired(call[c].raw) /\ row' = Absent /\ row # Absent /\ Refused(c)
    BY <2>1, <2>2, GoneMaps DEF Expired, Refused, OneShot!Next
  <2>3. CASE Refused(c) /\ UNCHANGED row
    BY <2>1, <2>3, RefusedMaps
  <2>4. CASE UNCHANGED <<row, histories>>
    BY <2>1, <2>4, SameStatus
  <2> QED BY <1>9, <2>2, <2>3, <2>4 DEF Decides
<1>10. ASSUME NEW c \in Callers, Evals(c) PROVE [OneShot!Next]_OneShot!vars
  <2>1. UNCHANGED <<clock, creator>>
    BY <1>10 DEF Evals
  <2>2. CASE Refused(c) /\ UNCHANGED row
    BY <2>1, <2>2, RefusedMaps
  <2>3. CASE Unchanged(c) /\ Applied(c)
    <3>1. Can(c, row, call[c].now)
      BY <1>0, <1>10, <2>3 DEF Evals, CallOK, Unchanged
    <3> QED BY <1>0, <2>1, <2>3, <3>1, AppliedMaps DEF OneShot!Next
  <2> QED BY <1>10, <2>2, <2>3 DEF Evals
<1>11. CASE UNCHANGED vars
  BY <1>11, SameStatus DEF vars
<1> QED
  BY <1>1, <1>2, <1>3, <1>4, <1>5, <1>6, <1>7, <1>8, <1>9, <1>10, <1>11 DEF Next

LEMMA InitMaps == Init => OneShot!Init
BY DEF Init, OneShot!Init, Status, Absent

\* The in-memory, the PostgreSQL and the Redis store implement the state that is held by one
\* claim at a time and consumed at most once, for any number of callers.
THEOREM StoresKeepThePromise == Spec => OneShotPromise
<1>1. Spec => []Inv
  BY InitInv, NextInv, PTL DEF Spec
<1>2. Inv /\ Inv' /\ [Next]_vars => [OneShot!Next]_OneShot!vars
  BY NextMaps
<1> QED BY <1>1, <1>2, InitMaps, PTL DEF Spec, OneShotPromise, OneShot!Spec

-----------------------------------------------------------------------------
(* Authentication sessions *)

\* The record: it exists from its creation until it ends; a key of Redis outlives it; the
\* revisions that were won are older ones; a consumption that was answered took it.
RecordOK ==
  /\ creation.at # "done" => record = None /\ ending = "none" /\ won = {}
  /\ creation.at = "done" => (record = None <=> ending # "none")
  /\ creation.at = "writing" => backend = "redis" /\ creation.now <= clock
  /\ record # None => record.revision >= 0 /\ \A v \in won : v < record.revision
  /\ backend = "redis" /\ record # None => recordEnds >= record.expires
  /\ answers = 1 => ending = "taken"

\* What a caller has read is the session stored, or an older one: its revision tells.
Seen(r) ==
  r.revision >= 0 =>
    /\ creation.at = "done"
    /\ record # None => /\ r.revision <= record.revision
                        /\ r.revision = record.revision => r = record

\* A caller that is about to clean has read an expired session; one that is about to write
\* to Redis has read the revision it holds.
Fine(u, a) ==
  /\ Seen(a.held) /\ Seen(a.raw)
  /\ a.at \in {"read", "cleaning"} => a.raw.revision >= 0
  /\ a.at = "cleaning" => a.raw.expires <= clock
  /\ a.at = "writing" => a.ask.op \in {"set", "delete"}
  /\ a.at = "writing" /\ backend = "redis" =>
       /\ a.raw.revision >= 0 /\ a.raw.revision = a.held.revision
       /\ ~(a.ask.op = "set" /\ a.held.revision = LastUpdate)

\* One caller at most has taken the session and not yet answered.
TakenOK ==
  \A u \in Users : access[u].at = "taken" =>
    /\ ending = "taken" /\ answers = 0
    /\ \A v \in Users : access[v].at = "taken" => v = u

RecordsInv == RecordTypeOK /\ RecordOK /\ TakenOK /\ \A u \in Users : Fine(u, access[u])

recordsState == <<backend, clock, recordVars>>

LEMMA FieldTypes ==
  ASSUME NEW r \in Records
  PROVE  /\ r.revision \in -1..LastUpdate /\ r.revision \in Int
         /\ r.updates \in Seq(Users)
         /\ r.expires \in StorageExpiries /\ r.expires \in Nat
<1>1. r.revision \in -1..LastUpdate /\ r.updates \in Seq(Users) /\ r.expires \in StorageExpiries
  BY DEF Records
<1>2. r.expires \in Nat
  BY <1>1, RecordsAssumption
<1>3. r.revision \in Int
  BY <1>1
<1> QED BY <1>1, <1>2, <1>3

LEMMA RecordConstants ==
  /\ None \in Records /\ None.revision = -1 /\ None.expires = Never
  /\ \A e \in StorageExpiries : Opened(e) \in Records /\ Opened(e).revision = 0
                                /\ Opened(e).expires = e /\ Opened(e) # None
  /\ Done \in Accesses /\ Done.at = "idle" /\ Done.held = None /\ Done.raw = None
  /\ \A r \in Records : /\ Holding(r) \in Accesses /\ Holding(r).at = "holding"
                        /\ Holding(r).held = r /\ Holding(r).raw = None
<1>1. None \in Records /\ None.revision = -1 /\ None.expires = Never
  BY RecordsAssumption DEF None, Records
<1>2. ASSUME NEW e \in StorageExpiries
      PROVE  Opened(e) \in Records /\ Opened(e).revision = 0 /\ Opened(e).expires = e
             /\ Opened(e) # None
  BY RecordsAssumption, <1>1 DEF Opened, Records
<1>3. ASSUME NEW r \in Records
      PROVE  /\ Holding(r) \in Accesses /\ Holding(r).at = "holding"
             /\ Holding(r).held = r /\ Holding(r).raw = None
  BY RecordsAssumption, <1>1 DEF Holding, Accesses, Asked, AskFor
<1>4. Done \in Accesses /\ Done.at = "idle" /\ Done.held = None /\ Done.raw = None
  BY <1>1, <1>3 DEF Done, Accesses
<1> QED BY <1>1, <1>2, <1>3, <1>4

\* A caller that has ended, or has been given what is stored, or what it has read.
LEMMA FineDone ==
  ASSUME NEW u \in Users
  PROVE  Fine(u, Done) /\ \A r \in Records : Seen(r) => Fine(u, Holding(r))
<1>1. Seen(None)
  BY RecordConstants DEF Seen
<1> QED BY <1>1, RecordConstants DEF Fine

LEMMA RecordsInitInv ==
  ASSUME backend \in {"memory", "postgres", "redis"}, clock = 0, RecordInit
  PROVE  RecordsInv
<1>1. RecordTypeOK
  BY RecordsAssumption, RecordConstants DEF RecordInit, RecordTypeOK, NoCreation
<1>2. RecordOK /\ TakenOK
  BY RecordConstants DEF RecordInit, RecordOK, TakenOK, NoCreation
<1>3. \A u \in Users : Fine(u, access[u])
  BY FineDone DEF RecordInit
<1> QED BY <1>1, <1>2, <1>3 DEF RecordsInv

\* The record does not change, is created, ends, or gets its next revision.
Advances ==
  /\ creation.at = "done" => creation'.at = "done"
  /\ creation.at = "done" =>
       \/ record' = record
       \/ record' = None
       \/ record # None /\ record'.revision = record.revision + 1

\* What is known of a caller that takes no step.
LEMMA FineFrame ==
  ASSUME NEW u \in Users, NEW a \in Accesses, RecordTypeOK, Fine(u, a), Advances,
         backend' = backend, clock' \in Nat, clock <= clock'
  PROVE  Fine(u, a)'
<1>1. ASSUME NEW r \in Records, Seen(r) PROVE Seen(r)'
  <2>1. r.revision \in Int /\ record.revision \in Int
    BY DEF RecordTypeOK, Records
  <2>2. SUFFICES ASSUME r.revision >= 0
                 PROVE /\ creation'.at = "done"
                       /\ record' # None => /\ r.revision <= record'.revision
                                            /\ r.revision = record'.revision => r = record'
    BY DEF Seen
  <2>3. creation.at = "done" /\ creation'.at = "done"
    BY <1>1, <2>2 DEF Seen, Advances
  <2>4. CASE record' = record
    BY <1>1, <2>2, <2>3, <2>4 DEF Seen
  <2>5. CASE record # None /\ record'.revision = record.revision + 1
    BY <1>1, <2>1, <2>2, <2>3, <2>5 DEF Seen
  <2> QED BY <2>3, <2>4, <2>5 DEF Advances
<1>2. a.held \in Records /\ a.raw \in Records
  BY DEF Accesses
<1>3. a.raw.expires \in Nat /\ clock \in Nat
  BY <1>2, FieldTypes DEF RecordTypeOK
<1>4. a.raw.expires <= clock => a.raw.expires <= clock'
  BY <1>3
<1>5. Seen(a.held)' /\ Seen(a.raw)'
  BY <1>1, <1>2 DEF Fine
<1> QED BY <1>4, <1>5 DEF Fine

\* The callers keep what is known of them when u takes a step and the record advances.
LEMMA CallersFrame ==
  ASSUME RecordsInv, NEW u \in Users, \A v \in Users \ {u} : access'[v] = access[v],
         Advances, backend' = backend, clock' \in Nat, clock <= clock', Fine(u, access[u])'
  PROVE  \A v \in Users : Fine(v, access[v])'
<1>1. ASSUME NEW v \in Users, v # u PROVE Fine(v, access[v])'
  <2>1. PICK a \in Accesses : a = access[v]
    BY DEF RecordsInv, RecordTypeOK
  <2>2. Fine(v, a)'
    BY <2>1, FineFrame DEF RecordsInv
  <2>3. access'[v] = a
    BY <1>1, <2>1
  <2> QED BY <2>2, <2>3
<1> QED BY <1>1
LEMMA DoneStep ==
  ASSUME RecordsInv, NEW u \in Users, Ends(u)
  PROVE  /\ access' \in [Users -> Accesses] /\ access'[u].at = "idle"
         /\ \A v \in Users \ {u} : access'[v] = access[v]
         /\ Fine(u, access[u])'
<1>1. access \in [Users -> Accesses] /\ Done \in Accesses
  BY RecordConstants DEF RecordsInv, RecordTypeOK
<1>2. access' \in [Users -> Accesses] /\ access'[u] = Done
      /\ \A v \in Users \ {u} : access'[v] = access[v]
  BY <1>1 DEF Ends
<1>3. Done.at = "idle" /\ Done.held.revision = -1 /\ Done.raw.revision = -1
  BY RecordConstants
<1> QED BY <1>2, <1>3 DEF Fine, Seen

\* A caller takes a step that writes nothing.
LEMMA QuietStep ==
  ASSUME RecordsInv, NEW u \in Users,
         UNCHANGED <<backend, clock, record, recordEnds, creation, ledger>>,
         access' \in [Users -> Accesses], access'[u].at # "taken",
         \A v \in Users \ {u} : access'[v] = access[v],
         Fine(u, access[u])'
  PROVE  RecordsInv'
<1>1. RecordTypeOK' /\ RecordOK'
  BY DEF RecordsInv, RecordTypeOK, RecordOK, ledger
<1>2. Advances /\ clock' \in Nat /\ clock <= clock'
  BY RecordsAssumption DEF RecordsInv, RecordTypeOK, Advances
<1>3. \A v \in Users : Fine(v, access[v])'
  BY <1>2, CallersFrame
<1>4. TakenOK'
  BY DEF RecordsInv, TakenOK, ledger
<1> QED BY <1>1, <1>3, <1>4 DEF RecordsInv

\* The record goes away, and nobody has taken it.
LEMMA GoneStep ==
  ASSUME RecordsInv, record # None, record' = None, ending' \in {"lapsed", "deleted"},
         won' \subseteq 0..LastUpdate,
         UNCHANGED <<backend, clock, recordEnds, creation, answers>>,
         access' = access \/ \E u \in Users : Ends(u)
  PROVE  RecordsInv'
<1>1. creation.at = "done" /\ ending = "none" /\ answers = 0
  BY DEF RecordsInv, RecordOK, RecordTypeOK
<1>2. Advances /\ clock' \in Nat /\ clock <= clock'
  BY RecordsAssumption DEF RecordsInv, RecordTypeOK, Advances
<1>3. access' \in [Users -> Accesses] /\ \A v \in Users : Fine(v, access[v])'
  <2>1. CASE access' = access
    <3>1. ASSUME NEW u \in Users PROVE Fine(u, access[u])'
      <4>1. PICK a \in Accesses : a = access[u]
        BY DEF RecordsInv, RecordTypeOK
      <4>2. Fine(u, a)'
        BY <1>2, <4>1, FineFrame DEF RecordsInv
      <4> QED BY <2>1, <4>1, <4>2
    <3> QED BY <2>1, <3>1 DEF RecordsInv, RecordTypeOK
  <2>2. ASSUME NEW u \in Users, Ends(u)
        PROVE  access' \in [Users -> Accesses] /\ \A v \in Users : Fine(v, access[v])'
    BY <1>2, <2>2, DoneStep, CallersFrame
  <2> QED BY <2>1, <2>2
<1>4. \A v \in Users : access[v].at # "taken"
  BY <1>1 DEF RecordsInv, TakenOK
<1>5. \A v \in Users : access'[v].at # "taken"
  BY <1>4, DoneStep
<1>6. RecordTypeOK' /\ RecordOK'
  BY <1>1, <1>3, RecordConstants DEF RecordsInv, RecordTypeOK, RecordOK
<1> QED BY <1>3, <1>5, <1>6 DEF RecordsInv, TakenOK
LEMMA UpdatedFacts ==
  ASSUME NEW r \in Records, NEW u \in Users, NEW e \in StorageExpiries,
         r.revision >= 0, r.revision # LastUpdate
  PROVE  /\ Updated(r, u, e) \in Records /\ Updated(r, u, e).revision = r.revision + 1
         /\ Updated(r, u, e).expires = e /\ Updated(r, u, e) # None
<1>1. Append(r.updates, u) \in Seq(Users)
  BY FieldTypes
<1>2. r.revision + 1 \in -1..LastUpdate
  BY FieldTypes, RecordsAssumption
<1>3. Updated(r, u, e) \in Records /\ Updated(r, u, e).revision = r.revision + 1
      /\ Updated(r, u, e).expires = e
  BY <1>1, <1>2 DEF Updated, Records
<1>4. Updated(r, u, e).revision # -1
  BY <1>2, <1>3, FieldTypes
<1> QED BY <1>3, <1>4, RecordConstants

\* A call that succeeds held the session that is stored.
LEMMA HeldIsStored ==
  ASSUME RecordsInv, NEW u \in Users, record # None, record.revision = access[u].held.revision
  PROVE  /\ access[u].held = record /\ record \in Records /\ record.revision >= 0
         /\ creation.at = "done" /\ ending = "none" /\ answers = 0
         /\ record.revision \notin won
<1>1. Seen(access[u].held) /\ record \in Records /\ record.revision >= 0
      /\ \A v \in won : v < record.revision
  BY DEF RecordsInv, Fine, RecordTypeOK, RecordOK
<1>2. creation.at = "done" /\ access[u].held = record
  BY <1>1 DEF Seen
<1>3. ending = "none" /\ answers = 0
  BY <1>2 DEF RecordsInv, RecordOK, RecordTypeOK
<1>4. record.revision \notin won
  BY <1>1, FieldTypes
<1> QED BY <1>1, <1>2, <1>3, <1>4

LEMMA SucceedsStep ==
  ASSUME RecordsInv, NEW u \in Users, NEW k \in Asked, Succeeds(u, k), record # None,
         record.revision = access[u].held.revision, ~Unwritable(u, k),
         UNCHANGED <<backend, clock, creation>>
  PROVE  RecordsInv'
<1>1. /\ access[u].held = record /\ record \in Records /\ record.revision >= 0
      /\ creation.at = "done" /\ ending = "none" /\ answers = 0
  BY HeldIsStored
<1>2. won' \in {won, won \cup {record.revision}}
  BY <1>1 DEF Succeeds
<1>3. record.revision \in 0..LastUpdate /\ record.revision \in Int
  BY <1>1, FieldTypes
<1>4. won' \subseteq 0..LastUpdate
  BY <1>2, <1>3 DEF RecordsInv, RecordTypeOK
<1>5. CASE k.op = "delete"
  BY <1>4, <1>5, GoneStep DEF Succeeds
<1>6. CASE k.op = "set"
  <2>1. /\ record' = Updated(record, u, k.next)
        /\ recordEnds' = IF backend = "redis" THEN k.next ELSE recordEnds
        /\ access' = [access EXCEPT ![u] = IF won' = won THEN Done ELSE Holding(record')]
        /\ UNCHANGED <<ending, answers>>
    BY <1>1, <1>6 DEF Succeeds
  <2>2. k.next \in StorageExpiries /\ k.next \in Nat
    BY RecordsAssumption DEF Asked
  <2>3. record.revision # LastUpdate
    BY <1>1, <1>6 DEF Unwritable
  <2>4. /\ record' \in Records /\ record'.revision = record.revision + 1
        /\ record'.expires = k.next /\ record' # None
    BY <1>1, <2>1, <2>2, <2>3, UpdatedFacts
  <2>5. /\ Done \in Accesses /\ Done.at = "idle" /\ Done.held.revision = -1
        /\ Done.raw.revision = -1
        /\ Holding(record') \in Accesses /\ Holding(record').at = "holding"
        /\ Holding(record').held = record' /\ Holding(record').raw.revision = -1
    BY <2>4, RecordConstants
  <2>6. /\ access' \in [Users -> Accesses] /\ access'[u] \in {Done, Holding(record')}
        /\ \A v \in Users \ {u} : access'[v] = access[v]
    BY <2>1, <2>5 DEF RecordsInv, RecordTypeOK
  <2>7. Fine(u, access[u])'
    <3>1. Seen(record)'
      BY <1>1, <2>4, FieldTypes DEF Seen
    <3>2. CASE access'[u] = Done
      BY <2>5, <3>2 DEF Fine, Seen
    <3>3. CASE access'[u] = Holding(record')
      <4>1. access'[u].held = record' /\ access'[u].raw.revision = -1 /\ access'[u].at = "holding"
        BY <2>5, <3>3
      <4>2. Seen(access[u].held)'
        BY <3>1, <4>1
      <4> QED BY <4>1, <4>2 DEF Fine, Seen
    <3> QED BY <2>6, <3>2, <3>3
  <2>8. Advances /\ clock' \in Nat /\ clock <= clock'
    BY <1>1, <2>4, RecordsAssumption DEF RecordsInv, RecordTypeOK, Advances
  <2>9. \A v \in Users : Fine(v, access[v])'
    BY <2>6, <2>7, <2>8, CallersFrame
  <2>10. RecordTypeOK'
    BY <1>1, <1>4, <2>1, <2>2, <2>4, <2>6 DEF RecordsInv, RecordTypeOK
  <2>11. RecordOK'
    <3>1. \A v \in won' : v < record'.revision
      BY <1>2, <1>3, <2>4 DEF RecordsInv, RecordOK, RecordTypeOK
    <3>2. record'.revision >= 0 /\ (backend = "redis" => recordEnds' >= record'.expires)
      BY <1>3, <2>1, <2>2, <2>4
    <3> QED BY <1>1, <2>1, <2>4, <3>1, <3>2 DEF RecordsInv, RecordOK
  <2>12. TakenOK'
    <3>1. \A v \in Users : access[v].at # "taken"
      BY <1>1 DEF RecordsInv, TakenOK
    <3>2. \A v \in Users : access'[v].at # "taken"
      BY <2>5, <2>6, <3>1
    <3> QED BY <3>2 DEF TakenOK
  <2> QED BY <2>9, <2>10, <2>11, <2>12 DEF RecordsInv
<1> QED BY <1>5, <1>6 DEF Succeeds
\* The record is taken: by u, which has or has not answered.
LEMMA TakenStep ==
  ASSUME RecordsInv, NEW u \in Users, record # None, record' = None, ending' = "taken",
         UNCHANGED <<backend, clock, recordEnds, creation, won>>,
         \A v \in Users \ {u} : access'[v] = access[v],
         access' \in [Users -> Accesses], Fine(u, access[u])',
         answers' \in {0, 1}, access'[u].at = "taken" => answers' = 0
  PROVE  RecordsInv'
<1>1. creation.at = "done" /\ ending = "none"
  BY DEF RecordsInv, RecordOK, RecordTypeOK
<1>2. Advances /\ clock' \in Nat /\ clock <= clock'
  BY RecordsAssumption DEF RecordsInv, RecordTypeOK, Advances
<1>3. \A v \in Users : Fine(v, access[v])'
  BY <1>2, CallersFrame
<1>4. \A v \in Users : access[v].at # "taken"
  BY <1>1 DEF RecordsInv, TakenOK
<1>5. TakenOK'
  BY <1>4 DEF TakenOK
<1>6. RecordTypeOK' /\ RecordOK'
  BY <1>1, RecordConstants DEF RecordsInv, RecordTypeOK, RecordOK
<1> QED BY <1>3, <1>5, <1>6 DEF RecordsInv

\* The session is created.
LEMMA OpenedStep ==
  ASSUME RecordsInv, creation.at # "done", NEW e \in StorageExpiries, record' = Opened(e), Created,
         recordEnds' \in Nat, backend = "redis" => recordEnds' >= e,
         UNCHANGED <<backend, clock, access, ledger>>
  PROVE  RecordsInv'
<1>1. record = None /\ ending = "none" /\ won = {} /\ answers = 0
  BY DEF RecordsInv, RecordOK, RecordTypeOK
<1>2. Advances /\ clock' \in Nat /\ clock <= clock'
  BY RecordsAssumption DEF RecordsInv, RecordTypeOK, Advances
<1>3. /\ record' \in Records /\ record' # None
      /\ record'.revision = 0 /\ record'.expires = e
  BY RecordConstants
<1>4. creation' = [at |-> "done", expires |-> Never, now |-> 0]
  BY DEF Created, NoCreation
<1>5. RecordTypeOK'
  BY <1>3, <1>4, RecordsAssumption DEF RecordsInv, RecordTypeOK, ledger
<1>6. RecordOK'
  BY <1>1, <1>3, <1>4 DEF RecordOK, ledger
<1>7. TakenOK'
  BY DEF RecordsInv, TakenOK, ledger
<1>8. ASSUME NEW u \in Users PROVE Fine(u, access[u])'
  <2>1. PICK a \in Accesses : a = access[u]
    BY DEF RecordsInv, RecordTypeOK
  <2>2. Fine(u, a)'
    BY <1>2, <2>1, FineFrame DEF RecordsInv
  <2> QED BY <2>1, <2>2
<1> QED BY <1>5, <1>6, <1>7, <1>8 DEF RecordsInv

\* The caller that has taken the session holds what it held before.
LEMMA TakenFacts ==
  ASSUME NEW a \in Accesses, NEW r \in Records
  PROVE  \E new \in Accesses :
           /\ new = [a EXCEPT !.at = "taken", !.raw = r]
           /\ new.at = "taken" /\ new.raw = r /\ new.held = a.held
<1> DEFINE new == [a EXCEPT !.at = "taken", !.raw = r]
<1>1. new \in Accesses
  BY DEF Accesses
<1>2. new.at = "taken" /\ new.raw = r /\ new.held = a.held
  BY DEF Accesses
<1> QED BY <1>1, <1>2

\* One step of a caller.
LEMMA CallerStep ==
  ASSUME RecordsInv, UNCHANGED <<backend, clock>>, NEW u \in Users,
         \/ AnswersAtOnce(u) \/ Quits(u)
         \/ Fetches(u) \/ Judges(u) \/ Cleans(u) \/ Removes(u) \/ HandsOver(u)
         \/ Connects(u) \/ Executes(u) \/ Compares(u) \/ Scripts(u)
  PROVE  RecordsInv'
<1>0. /\ access \in [Users -> Accesses] /\ access[u] \in Accesses
      /\ access[u].ask \in Asked /\ access[u].raw \in Records /\ access[u].held \in Records
      /\ Fine(u, access[u]) /\ record \in Records
  BY DEF RecordsInv, RecordTypeOK, Accesses
<1>a. ASSUME NEW k \in Asks(u) PROVE k \in Asked /\ access[u].at \in {"idle", "holding"}
  <2>1. \A o \in {"get", "consume", "delete"} : AskFor(o) \in Asked
    BY RecordsAssumption DEF AskFor, Asked
  <2>2. \A x \in [op : {"set"}, next : StorageExpiries] : x \in Asked
    BY DEF Asked
  <2> QED BY <1>a, <2>1, <2>2 DEF Asks
<1>b. ASSUME Denied(u), UNCHANGED creation PROVE RecordsInv'
  BY <1>b, DoneStep, QuietStep DEF Denied
<1>c. ASSUME NEW r \in {record, access[u].raw}, Seen(r), Gives(u, r), UNCHANGED creation PROVE RecordsInv'
  <2>1. r \in Records
    BY <1>0, <1>c
  <2>2. Holding(r) \in Accesses /\ Holding(r).at = "holding" /\ Holding(r).held = r
        /\ Holding(r).raw.revision = -1
    BY <2>1, RecordConstants
  <2>3. /\ access' \in [Users -> Accesses] /\ access'[u] = Holding(r)
        /\ \A v \in Users \ {u} : access'[v] = access[v]
        /\ UNCHANGED <<record, recordEnds, ledger>>
    BY <1>0, <1>c, <2>2 DEF Gives
  <2>4. Fine(u, access[u])'
    BY <1>c, <2>2, <2>3 DEF Fine, Seen
  <2> QED BY <1>c, <2>2, <2>3, <2>4, QuietStep
<1>d. ASSUME NEW step \in {"read", "writing", "cleaning"}, NEW k \in Asked, NEW r \in Records,
             NEW n \in 0..EndOfTime, GoesOn(u, step, k, r, n), Seen(r), UNCHANGED creation,
             step \in {"read", "cleaning"} => r.revision >= 0,
             step = "cleaning" => r.expires <= clock,
             step = "writing" => k.op \in {"set", "delete"},
             step = "writing" /\ backend = "redis" =>
               r.revision >= 0 /\ r.revision = access[u].held.revision /\ ~Unwritable(u, k)
      PROVE  RecordsInv'
  <2>1. PICK new \in Accesses : /\ new = [access[u] EXCEPT !.at = step, !.ask = k, !.raw = r, !.now = n]
                                /\ new.at = step /\ new.ask = k /\ new.raw = r
                                /\ new.held = access[u].held
    <3>1. PICK a \in Accesses : a = access[u]
      BY <1>0
    <3> DEFINE new == [a EXCEPT !.at = step, !.ask = k, !.raw = r, !.now = n]
    <3>2. new \in Accesses
      BY DEF Accesses
    <3>3. new.at = step /\ new.ask = k /\ new.raw = r /\ new.held = a.held
      BY DEF Accesses
    <3> QED BY <3>1, <3>2, <3>3
  <2>2. access' = [access EXCEPT ![u] = new] /\ UNCHANGED <<record, recordEnds, ledger>>
    BY <1>d, <2>1 DEF GoesOn
  <2>3. /\ access' \in [Users -> Accesses] /\ access'[u] = new
        /\ \A v \in Users \ {u} : access'[v] = access[v]
    BY <1>0, <2>2
  <2>4. Seen(new.held)' /\ Seen(new.raw)'
    <3>1. Seen(new.held) /\ Seen(new.raw)
      BY <1>0, <1>d, <2>1 DEF Fine
    <3> QED BY <1>d, <2>2, <3>1 DEF Seen
  <2>5. Fine(u, new)'
    BY <1>d, <2>1, <2>4 DEF Fine, Unwritable
  <2>6. Fine(u, access[u])'
    BY <2>3, <2>5
  <2> QED BY <1>d, <2>1, <2>2, <2>3, <2>6, QuietStep
<1>e. Seen(record) /\ Seen(None) /\ clock \in 0..EndOfTime /\ 0 \in 0..EndOfTime
      /\ (record # None => record.revision >= 0) /\ None \in Records
  <2>1. Seen(None) /\ None \in Records
    BY RecordConstants DEF Seen
  <2>2. record # None => record.revision >= 0 /\ creation.at = "done"
    BY DEF RecordsInv, RecordOK
  <2>3. Seen(record)
    BY <1>0, <2>1, <2>2, FieldTypes DEF Seen
  <2>4. clock \in 0..EndOfTime /\ 0 \in 0..EndOfTime
    BY RecordsAssumption DEF RecordsInv, RecordTypeOK
  <2> QED BY <2>1, <2>2, <2>3, <2>4
<1>1. CASE Quits(u)
  BY <1>1, DoneStep, QuietStep DEF Quits
<1>2. CASE AnswersAtOnce(u)
  <2>1. PICK k \in Asks(u) :
          \/ FindsExpired(u, k)
          \/ Gives(u, record)
          \/ /\ record # None /\ record' = None /\ ending' = "taken" /\ answers' = answers + 1
             /\ UNCHANGED <<access, recordEnds, won>>
          \/ Current(u, k, record, clock) /\ Succeeds(u, k)
          \/ Denied(u)
    BY <1>2 DEF AnswersAtOnce
  <2>2. UNCHANGED creation /\ k \in Asked /\ access[u].at \in {"idle", "holding"}
    BY <1>2, <1>a DEF AnswersAtOnce
  <2>3. CASE FindsExpired(u, k)
    BY <2>2, <2>3, GoneStep DEF FindsExpired, RecordsInv, RecordTypeOK
  <2>4. CASE Gives(u, record)
    BY <1>c, <1>e, <2>2, <2>4
  <2>5. CASE /\ record # None /\ record' = None /\ ending' = "taken" /\ answers' = answers + 1
             /\ UNCHANGED <<access, recordEnds, won>>
    <3>1. answers' = 1
      BY <2>5 DEF RecordsInv, RecordOK, RecordTypeOK
    <3>2. PICK a \in Accesses : a = access[u]
      BY <1>0
    <3>3. Advances /\ clock' \in Nat /\ clock <= clock'
      BY <2>2, <2>5, RecordsAssumption DEF RecordsInv, RecordTypeOK, Advances
    <3>4. Fine(u, a)'
      BY <1>0, <3>2, <3>3, FineFrame DEF RecordsInv
    <3>5. Fine(u, access[u])'
      BY <2>5, <3>2, <3>4
    <3> QED BY <1>0, <2>2, <2>5, <3>1, <3>5, TakenStep
  <2>6. CASE Current(u, k, record, clock) /\ Succeeds(u, k)
    BY <2>2, <2>6, SucceedsStep DEF Current
  <2>7. CASE Denied(u)
    BY <1>b, <2>2, <2>7
  <2> QED BY <2>1, <2>3, <2>4, <2>5, <2>6, <2>7
<1>3. CASE Fetches(u)
  <2>1. PICK k \in Asks(u) :
          Denied(u) \/ (record # None /\ GoesOn(u, "read", k, record, 0))
    BY <1>3 DEF Fetches
  <2>2. UNCHANGED creation /\ k \in Asked
    BY <1>3, <1>a DEF Fetches
  <2>3. PICK r \in Records : r = record
    BY <1>0
  <2>4. CASE record # None /\ GoesOn(u, "read", k, record, 0)
    BY <1>d, <1>e, <2>2, <2>3, <2>4
  <2> QED BY <1>b, <2>1, <2>2, <2>4
<1>4. CASE Judges(u)
  <2>1. UNCHANGED creation /\ Seen(access[u].raw) /\ access[u].raw.revision >= 0
    BY <1>0, <1>4 DEF Judges, Fine
  <2>2. PICK r \in Records : r = access[u].raw
    BY <1>0
  <2>3. PICK k \in Asked : k = access[u].ask
    BY <1>0
  <2>4. CASE GoesOn(u, "cleaning", k, r, 0) /\ r.expires <= clock
    BY <1>d, <1>e, <2>1, <2>2, <2>4
  <2>5. CASE Gives(u, r)
    BY <1>c, <2>1, <2>2, <2>5
  <2> QED BY <1>4, <2>2, <2>3, <2>4, <2>5 DEF Judges, Lapsed
<1>5. CASE Cleans(u)
  <2>1. access[u].raw # None
    BY <1>0, <1>5, RecordConstants DEF Cleans, Fine
  <2>2. CASE Unaltered(u)
    <3>1. record # None /\ record' = None /\ ending' = "lapsed" /\ Ends(u)
          /\ UNCHANGED <<recordEnds, creation, won, answers>>
      BY <1>5, <2>1, <2>2 DEF Cleans, Unaltered
    <3> QED BY <3>1, GoneStep DEF RecordsInv, RecordTypeOK
  <2>3. CASE ~Unaltered(u)
    BY <1>b, <1>5, <2>3 DEF Cleans, Denied
  <2> QED BY <2>2, <2>3
<1>6. CASE Removes(u)
  <2>1. /\ record # None /\ record' = None /\ ending' = "taken" /\ answers = 0
        /\ UNCHANGED <<recordEnds, creation, won, answers>>
    BY <1>6 DEF Removes, RecordsInv, RecordOK, RecordTypeOK
  <2>2. PICK new \in Accesses : /\ new = [access[u] EXCEPT !.at = "taken", !.raw = record]
                                /\ new.at = "taken" /\ new.raw = record
                                /\ new.held = access[u].held
    BY <1>0, TakenFacts
  <2>3. access' = [access EXCEPT ![u] = new]
    BY <1>6, <2>2 DEF Removes
  <2>4. /\ access' \in [Users -> Accesses] /\ access'[u] = new
        /\ \A v \in Users \ {u} : access'[v] = access[v]
    BY <1>0, <2>3
  <2>5. Seen(new.held)' /\ Seen(new.raw)'
    <3>1. Seen(new.held) /\ Seen(new.raw)
      BY <1>0, <1>e, <2>2 DEF Fine
    <3> QED BY <2>1, <3>1 DEF Seen
  <2>6. Fine(u, new)'
    BY <2>2, <2>5 DEF Fine
  <2>7. Fine(u, access[u])'
    BY <2>4, <2>6
  <2> QED BY <2>1, <2>2, <2>4, <2>7, TakenStep
<1>7. CASE HandsOver(u)
  <2>1. /\ ending = "taken" /\ answers = 0 /\ answers' \in {0, 1}
        /\ \A v \in Users \ {u} : access[v].at # "taken"
    BY <1>7 DEF HandsOver, RecordsInv, TakenOK
  <2>2. /\ Ends(u) /\ UNCHANGED <<record, recordEnds, creation, ending, won>>
    BY <1>7 DEF HandsOver
  <2>3. RecordTypeOK' /\ RecordOK'
    BY <2>1, <2>2, DoneStep DEF RecordsInv, RecordTypeOK, RecordOK
  <2>4. Advances /\ clock' \in Nat /\ clock <= clock'
    BY <2>2, RecordsAssumption DEF RecordsInv, RecordTypeOK, Advances
  <2>5. \A v \in Users : Fine(v, access[v])'
    BY <2>2, <2>4, DoneStep, CallersFrame
  <2>6. \A v \in Users : access'[v].at # "taken"
    BY <2>1, <2>2, DoneStep
  <2> QED BY <2>3, <2>5, <2>6 DEF RecordsInv, TakenOK
<1>8. CASE Connects(u)
  <2>1. PICK k \in Asks(u) : k.op \in {"set", "delete"} /\ GoesOn(u, "writing", k, None, clock)
    BY <1>8 DEF Connects
  <2>2. UNCHANGED creation /\ k \in Asked /\ backend # "redis"
    BY <1>8, <1>a DEF Connects
  <2>3. PICK r \in Records : r = None
    BY <1>e
  <2>4. PICK n \in 0..EndOfTime : n = clock
    BY <1>e
  <2> QED BY <1>d, <1>e, <2>1, <2>2, <2>3, <2>4
<1>9. CASE Executes(u)
  <2>1. CASE Current(u, access[u].ask, record, access[u].now) /\ Succeeds(u, access[u].ask)
    <3>1. PICK k \in Asked : k = access[u].ask
      BY <1>0
    <3> QED BY <1>9, <2>1, <3>1, SucceedsStep DEF Current, Executes
  <2>2. CASE Denied(u)
    BY <1>b, <1>9, <2>2 DEF Executes
  <2> QED BY <1>9, <2>1, <2>2 DEF Executes
<1>10. CASE Compares(u)
  <2>1. UNCHANGED creation /\ Seen(access[u].raw) /\ access[u].raw.revision >= 0
        /\ access[u].ask.op \in {"set", "delete"}
    BY <1>0, <1>10 DEF Compares, Fine
  <2>2. PICK r \in Records : r = access[u].raw
    BY <1>0
  <2>3. PICK k \in Asked : k = access[u].ask
    BY <1>0
  <2>4. CASE Current(u, k, r, clock) /\ GoesOn(u, "writing", k, r, 0)
    BY <1>d, <1>e, <2>1, <2>2, <2>3, <2>4 DEF Current
  <2>5. CASE Denied(u)
    BY <1>b, <2>1, <2>5
  <2> QED BY <1>10, <2>2, <2>3, <2>4, <2>5 DEF Compares
<1>11. CASE Scripts(u)
  <2>1. CASE Unaltered(u) /\ Succeeds(u, access[u].ask)
    <3>1. PICK k \in Asked : k = access[u].ask
      BY <1>0
    <3>2. /\ record = access[u].raw /\ record.revision >= 0
          /\ record.revision = access[u].held.revision /\ ~Unwritable(u, k)
      BY <1>0, <1>11, <2>1, <3>1 DEF Scripts, Unaltered, Fine, Unwritable
    <3>3. record # None
      BY <3>2, RecordConstants
    <3> QED BY <1>11, <2>1, <3>1, <3>2, <3>3, SucceedsStep DEF Scripts
  <2>2. CASE Denied(u)
    BY <1>b, <1>11, <2>2 DEF Scripts
  <2> QED BY <1>11, <2>1, <2>2 DEF Scripts
<1> QED
  BY <1>1, <1>2, <1>3, <1>4, <1>5, <1>6, <1>7, <1>8, <1>9, <1>10, <1>11

LEMMA RecordsNextInv ==
  ASSUME RecordsInv, [RecordStep]_recordsState
  PROVE  RecordsInv'
<1>1. CASE UNCHANGED recordsState
  <2>1. RecordTypeOK' /\ RecordOK' /\ TakenOK'
    BY <1>1 DEF recordsState, recordVars, RecordsInv, RecordTypeOK, RecordOK, TakenOK
  <2>2. \A u \in Users : Fine(u, access[u])'
    BY <1>1 DEF recordsState, recordVars, RecordsInv, Fine, Seen
  <2> QED BY <2>1, <2>2 DEF RecordsInv
<1>2. CASE ClockTicks
  <2>1. clock \in Nat /\ clock' \in 0..EndOfTime /\ clock' \in Nat /\ clock <= clock' /\ Advances
    BY <1>2, RecordsAssumption DEF ClockTicks, recordVars, RecordsInv, RecordTypeOK, Advances
  <2>2. RecordTypeOK' /\ TakenOK'
    BY <1>2, <2>1 DEF ClockTicks, recordVars, RecordsInv, RecordTypeOK, TakenOK
  <2>3. RecordOK'
    BY <1>2, <2>1, RecordsAssumption DEF ClockTicks, recordVars, RecordsInv, RecordTypeOK, RecordOK
  <2>4. ASSUME NEW u \in Users PROVE Fine(u, access[u])'
    <3>1. PICK a \in Accesses : a = access[u]
      BY DEF RecordsInv, RecordTypeOK
    <3>2. Fine(u, a)' /\ access'[u] = a
      BY <1>2, <2>1, <3>1, FineFrame DEF ClockTicks, recordVars, RecordsInv
    <3> QED BY <3>2
  <2> QED BY <2>2, <2>3, <2>4 DEF RecordsInv
<1>3. CASE RecordNext /\ UNCHANGED <<backend, clock>>
  <2>1. CASE CreatesAtOnce
    <3>1. PICK e \in StorageExpiries : record' = Opened(e)
      BY <2>1 DEF CreatesAtOnce
    <3> QED BY <1>3, <2>1, <3>1, OpenedStep DEF CreatesAtOnce, RecordsInv, RecordTypeOK
  <2>2. CASE CreationReadsClock
    <3>1. PICK e \in StorageExpiries : creation' = [at |-> "writing", expires |-> e, now |-> clock]
      BY <2>2 DEF CreationReadsClock
    <3>2. /\ backend = "redis" /\ creation.at = "new"
          /\ UNCHANGED <<record, recordEnds, access, ledger>>
      BY <2>2 DEF CreationReadsClock
    <3>3. RecordTypeOK' /\ RecordOK' /\ TakenOK'
      BY <1>3, <3>1, <3>2, RecordsAssumption
      DEF RecordsInv, RecordTypeOK, RecordOK, TakenOK, ledger
    <3>4. \A u \in Users : Fine(u, access[u])'
      BY <1>3, <3>1, <3>2 DEF RecordsInv, Fine, Seen
    <3> QED BY <3>3, <3>4 DEF RecordsInv
  <2>3. CASE CreationWrites
    <3>1. PICK e \in StorageExpiries : e = creation.expires
      BY DEF RecordsInv, RecordTypeOK
    <3>2. e \in Nat /\ creation.now \in Nat /\ clock \in Nat /\ Never \in Nat
          /\ creation.now <= clock
      BY <2>3, RecordsAssumption DEF CreationWrites, RecordsInv, RecordTypeOK, RecordOK
    <3>3. recordEnds' \in Nat /\ recordEnds' >= e
      BY <2>3, <3>1, <3>2 DEF CreationWrites
    <3> QED BY <1>3, <2>3, <3>1, <3>3, OpenedStep DEF CreationWrites
  <2>4. CASE KeyGoes \/ Sweeps
    BY <1>3, <2>4, GoneStep DEF KeyGoes, Sweeps, RecordsInv, RecordTypeOK
  <2> QED BY <1>3, <2>1, <2>2, <2>3, <2>4, CallerStep DEF RecordNext
<1> QED BY <1>1, <1>2, <1>3 DEF RecordStep

\* The types of the stores' state: the revision of a stored session never exceeds the
\* largest safe integer, and a consumption is answered with the session once at most.
THEOREM RecordsTypeCorrect == RecordSpec => []RecordTypeOK
<1>1. RecordSpec => []RecordsInv
  BY RecordsInitInv, RecordsNextInv, PTL DEF RecordSpec, recordsState
<1>2. RecordsInv => RecordTypeOK
  BY DEF RecordsInv
<1> QED BY <1>1, <1>2, PTL
-----------------------------------------------------------------------------
(* The refinement *)

LEMMA SameWhereabouts ==
  ASSUME UNCHANGED <<clock, record, creation, ending, won, answers>>
  PROVE  UNCHANGED Record!vars
BY DEF Record!vars, Whereabouts

\* The record ends: deleted, or expired, or taken.
LEMMA EndsMap ==
  ASSUME RecordsInv, record # None, record' = None, UNCHANGED <<clock, creation>>,
         ending' \in {"lapsed", "deleted", "taken"}
  PROVE  /\ Whereabouts = "stored" /\ Whereabouts' = ending' /\ record' = Record!None
BY DEF RecordsInv, RecordOK, RecordTypeOK, Whereabouts, None, Record!None

LEMMA LapseMaps ==
  ASSUME RecordsInv, record # None, record' = None, ending' = "lapsed", record.expires <= clock,
         UNCHANGED <<clock, creation, won, answers>>
  PROVE  Record!Next
BY EndsMap DEF Record!Next, Record!Lapse

LEMMA TakeMaps ==
  ASSUME RecordsInv, record # None, record' = None, ending' = "taken", answers' \in {0, 1},
         UNCHANGED <<clock, creation, won>>
  PROVE  Record!Next
BY EndsMap DEF Record!Next, Record!Take

LEMMA CreateMaps ==
  ASSUME RecordsInv, creation.at # "done", NEW e \in StorageExpiries, record' = Opened(e), Created,
         UNCHANGED <<clock, ledger>>
  PROVE  Record!Next
<1>1. Whereabouts = "none" /\ ending = "none"
  BY DEF RecordsInv, RecordOK, Whereabouts
<1>2. Whereabouts' = "stored"
  BY <1>1 DEF Created, NoCreation, Whereabouts, ledger
<1>3. record' = Record!Opened(e)
  BY DEF Opened, Record!Opened
<1> QED BY <1>1, <1>2, <1>3 DEF Record!Next, Record!Create, ledger

\* A call that succeeds replaces or deletes the revision that is stored.
LEMMA SucceedsMaps ==
  ASSUME RecordsInv, NEW u \in Users, NEW k \in Asked, Succeeds(u, k), record # None,
         record.revision = access[u].held.revision, UNCHANGED <<clock, creation>>
  PROVE  Record!Next
<1>1. /\ access[u].held = record /\ record.revision \notin won
      /\ creation.at = "done" /\ ending = "none"
  BY HeldIsStored
<1>2. Record!WonOrLost
  BY <1>1 DEF Succeeds, Record!WonOrLost
<1>3. CASE k.op = "set"
  <2>1. record' = Updated(record, u, k.next) /\ k.next \in StorageExpiries
        /\ UNCHANGED <<ending, answers>>
    BY <1>1, <1>3 DEF Succeeds, Asked
  <2>2. record' = Record!Updated(record, u, k.next)
    BY <2>1 DEF Updated, Record!Updated
  <2>3. Whereabouts = "stored" /\ Whereabouts' = "stored"
    BY <1>1, <2>1 DEF Whereabouts
  <2> QED BY <1>1, <1>2, <2>1, <2>2, <2>3 DEF Record!Next, Record!Replace
<1>4. CASE k.op = "delete"
  <2>1. record' = None /\ ending' = "deleted" /\ UNCHANGED answers
    BY <1>4 DEF Succeeds
  <2> QED BY <1>1, <1>2, <2>1, EndsMap DEF Record!Next, Record!Delete
<1> QED BY <1>3, <1>4 DEF Succeeds

LEMMA CallerMaps ==
  ASSUME RecordsInv, UNCHANGED clock, NEW u \in Users,
         \/ AnswersAtOnce(u) \/ Quits(u)
         \/ Fetches(u) \/ Judges(u) \/ Cleans(u) \/ Removes(u) \/ HandsOver(u)
         \/ Connects(u) \/ Executes(u) \/ Compares(u) \/ Scripts(u)
  PROVE  [Record!Next]_Record!vars
<1>0. /\ access[u].ask \in Asked /\ Fine(u, access[u])
      /\ (\A k \in Asks(u) : k.op \in {"set", "delete"} => k \in Asked)
  <2>1. access[u].ask \in Asked /\ Fine(u, access[u])
    BY DEF RecordsInv, RecordTypeOK, Accesses
  <2>2. ASSUME NEW k \in Asks(u) PROVE k \in Asked
    BY RecordsAssumption DEF Asks, AskFor, Asked
  <2> QED BY <2>1, <2>2
<1>1. CASE Quits(u) \/ Fetches(u) \/ Judges(u) \/ Connects(u) \/ Compares(u)
  <2>1. UNCHANGED <<record, creation, ending, won, answers>>
    BY <1>1 DEF Quits, Fetches, Judges, Connects, Compares, Denied, GoesOn, Gives, ledger
  <2> QED BY <2>1, SameWhereabouts
<1>2. CASE AnswersAtOnce(u)
  <2>1. PICK k \in Asks(u) :
          \/ FindsExpired(u, k)
          \/ /\ record # None /\ record' = None /\ ending' = "taken" /\ answers' = answers + 1
             /\ UNCHANGED won
          \/ k \in Asked /\ Current(u, k, record, clock) /\ Succeeds(u, k)
          \/ UNCHANGED <<record, ending, won, answers>>
    BY <1>0, <1>2 DEF AnswersAtOnce, Gives, Denied, ledger
  <2>2. UNCHANGED creation
    BY <1>2 DEF AnswersAtOnce
  <2>3. CASE FindsExpired(u, k)
    BY <2>2, <2>3, LapseMaps DEF FindsExpired, Lapsed
  <2>4. CASE /\ record # None /\ record' = None /\ ending' = "taken" /\ answers' = answers + 1
             /\ UNCHANGED won
    <3>1. answers' \in {0, 1}
      BY <2>4 DEF RecordsInv, RecordOK, RecordTypeOK
    <3> QED BY <2>2, <2>4, <3>1, TakeMaps
  <2>5. CASE k \in Asked /\ Current(u, k, record, clock) /\ Succeeds(u, k)
    BY <2>2, <2>5, SucceedsMaps DEF Current
  <2>6. CASE UNCHANGED <<record, ending, won, answers>>
    BY <2>2, <2>6, SameWhereabouts
  <2> QED BY <2>1, <2>3, <2>4, <2>5, <2>6
<1>3. CASE Cleans(u)
  <2>1. access[u].raw # None /\ access[u].raw.expires <= clock /\ UNCHANGED creation
    BY <1>0, <1>3, RecordConstants DEF Cleans, Fine
  <2>2. CASE Unaltered(u)
    <3>1. record # None /\ record.expires <= clock
      BY <2>1, <2>2 DEF Unaltered
    <3>2. record' = None /\ ending' = "lapsed" /\ UNCHANGED <<won, answers>>
      BY <1>3, <2>2 DEF Cleans
    <3> QED BY <2>1, <3>1, <3>2, LapseMaps
  <2>3. CASE ~Unaltered(u)
    BY <1>3, <2>1, <2>3, SameWhereabouts DEF Cleans, ledger
  <2> QED BY <2>2, <2>3
<1>4. CASE Removes(u)
  <2>1. answers \in {0, 1}
    BY DEF RecordsInv, RecordTypeOK
  <2> QED BY <1>4, <2>1, TakeMaps DEF Removes
<1>5. CASE HandsOver(u)
  <2>1. ending = "taken" /\ answers = 0 /\ UNCHANGED <<record, creation, ending, won>>
    BY <1>5 DEF HandsOver, RecordsInv, TakenOK
  <2>2. CASE answers' = answers
    BY <2>1, <2>2, SameWhereabouts
  <2>3. CASE answers' = answers + 1
    <3>1. Whereabouts = "taken" /\ Whereabouts' = "taken"
      BY <2>1 DEF RecordsInv, RecordOK, Whereabouts
    <3> QED BY <2>1, <2>3, <3>1 DEF Record!Next, Record!Answer
  <2> QED BY <1>5, <2>2, <2>3 DEF HandsOver
<1>6. CASE Executes(u)
  <2>1. CASE Current(u, access[u].ask, record, access[u].now) /\ Succeeds(u, access[u].ask)
    <3>1. PICK k \in Asked : k = access[u].ask
      BY <1>0
    <3> QED BY <1>6, <2>1, <3>1, SucceedsMaps DEF Current, Executes
  <2>2. CASE Denied(u)
    BY <1>6, <2>2, SameWhereabouts DEF Executes, Denied, ledger
  <2> QED BY <1>6, <2>1, <2>2 DEF Executes
<1>7. CASE Scripts(u)
  <2>1. CASE Unaltered(u) /\ Succeeds(u, access[u].ask)
    <3>1. PICK k \in Asked : k = access[u].ask
      BY <1>0
    <3>2. record.revision >= 0 /\ record.revision = access[u].held.revision
      BY <1>0, <1>7, <2>1 DEF Scripts, Unaltered, Fine
    <3>3. record # None
      BY <3>2, RecordConstants
    <3> QED BY <1>7, <2>1, <3>1, <3>2, <3>3, SucceedsMaps DEF Scripts
  <2>2. CASE Denied(u)
    BY <1>7, <2>2, SameWhereabouts DEF Scripts, Denied, ledger
  <2> QED BY <1>7, <2>1, <2>2 DEF Scripts
<1> QED BY <1>1, <1>2, <1>3, <1>4, <1>5, <1>6, <1>7

LEMMA RecordMaps ==
  ASSUME RecordsInv, [RecordStep]_recordsState
  PROVE  [Record!Next]_Record!vars
<1>1. CASE UNCHANGED recordsState
  BY <1>1, SameWhereabouts DEF recordsState, recordVars
<1>2. CASE ClockTicks
  <2>1. clock < EndOfTime /\ clock' = clock + 1 /\ UNCHANGED recordVars
    BY <1>2, RecordsAssumption DEF ClockTicks, RecordsInv, RecordTypeOK
  <2>2. UNCHANGED Whereabouts
    BY <2>1 DEF recordVars, Whereabouts
  <2> QED BY <2>1, <2>2 DEF recordVars, Record!Tick, Record!Next
<1>3. CASE RecordNext /\ UNCHANGED <<backend, clock>>
  <2>1. CASE CreatesAtOnce
    <3>1. PICK e \in StorageExpiries : record' = Opened(e)
      BY <2>1 DEF CreatesAtOnce
    <3> QED BY <1>3, <2>1, <3>1, CreateMaps DEF CreatesAtOnce
  <2>2. CASE CreationReadsClock
    <3>1. /\ creation.at = "new" /\ creation'.at = "writing"
          /\ UNCHANGED <<record, ending, won, answers>>
      BY <2>2 DEF CreationReadsClock, ledger
    <3>2. UNCHANGED Whereabouts
      BY <3>1 DEF Whereabouts
    <3> QED BY <1>3, <3>1, <3>2 DEF Record!vars
  <2>3. CASE CreationWrites
    <3>1. PICK e \in StorageExpiries : e = creation.expires
      BY DEF RecordsInv, RecordTypeOK
    <3> QED BY <1>3, <2>3, <3>1, CreateMaps DEF CreationWrites
  <2>4. CASE KeyGoes
    <3>1. record.expires <= recordEnds /\ recordEnds <= clock
      BY <2>4 DEF KeyGoes, RecordsInv, RecordOK
    <3>2. record.expires <= clock
      BY <3>1, FieldTypes DEF RecordsInv, RecordTypeOK
    <3> QED BY <1>3, <2>4, <3>2, LapseMaps DEF KeyGoes
  <2>5. CASE Sweeps
    BY <1>3, <2>5, LapseMaps DEF Sweeps, Lapsed
  <2> QED BY <1>3, <2>1, <2>2, <2>3, <2>4, <2>5, CallerMaps DEF RecordNext
<1> QED BY <1>1, <1>2, <1>3 DEF RecordStep

LEMMA RecordInitMaps ==
  ASSUME clock = 0, RecordInit
  PROVE  Record!Init
BY DEF RecordInit, NoCreation, Record!Init, Whereabouts, None, Record!None

\* The stores in memory, of PostgreSQL and of Redis implement the session whose updates are
\* never lost, whose revisions are won once and that is consumed once, for any number of
\* callers, lifetimes and revisions.
THEOREM RecordsKeepThePromise == RecordSpec => RecordPromise
<1>1. RecordSpec => []RecordsInv
  BY RecordsInitInv, RecordsNextInv, PTL DEF RecordSpec, recordsState
<1>2. RecordsInv /\ [RecordStep]_recordsState => [Record!Next]_Record!vars
  BY RecordMaps
<1>3. clock = 0 /\ RecordInit => Record!Init
  BY RecordInitMaps
<1> QED BY <1>1, <1>2, <1>3, PTL DEF RecordSpec, recordsState, RecordPromise, Record!Spec

-----------------------------------------------------------------------------
(* The stores together *)

\* Time stands still, or passes as the clock of the deployment does.
ClockMoves == clock' = clock \/ (clock < EndOfTime /\ clock' = clock + 1)

StatesAtFirst ==
  /\ row = Absent /\ deadline = 0 /\ locker = NoCaller
  /\ creator = "new" /\ creatorNow = 0
  /\ call = [c \in Callers |-> Idle]
  /\ grants = 0 /\ consumed = {} /\ released = {}

\* The part that a behaviour is about keeps its invariant, another one is as it began.
PartsInv ==
  /\ part \in {"states", "sessions", "index", "records"}
  /\ backend \in {"memory", "postgres", "redis"} /\ clock \in 0..EndOfTime
  /\ IF part = "states" THEN Inv ELSE StatesAtFirst
  /\ IF part = "records" THEN RecordsInv ELSE RecordInit

LEMMA PartsAtFirst ==
  ASSUME StoresInit
  PROVE  PartsInv /\ OneShot!Init /\ Record!Init
<1>1. /\ part \in {"states", "sessions", "index", "records"} /\ Init /\ RecordInit
      /\ backend \in {"memory", "postgres", "redis"} /\ clock = 0
  BY DEF StoresInit, Init
<1>2. Inv /\ StatesAtFirst /\ RecordsInv
  BY <1>1, InitInv, RecordsInitInv DEF Init, StatesAtFirst
<1>3. clock \in 0..EndOfTime
  BY <1>1, StoresAssumption
<1> QED BY <1>1, <1>2, <1>3, InitMaps, RecordInitMaps DEF PartsInv

LEMMA IdleStates ==
  ASSUME StatesAtFirst, UNCHANGED stateVars, ClockMoves
  PROVE  StatesAtFirst' /\ [OneShot!Next]_OneShot!vars
<1>1. UNCHANGED <<row, deadline, locker, creator, creatorNow, call, grants, consumed, released>>
  BY DEF stateVars, histories
<1>2. StatesAtFirst'
  BY <1>1 DEF StatesAtFirst
<1>3. CASE clock' = clock
  BY <1>1, <1>2, <1>3, SameStatus DEF histories
<1>4. CASE clock < EndOfTime /\ clock' = clock + 1
  BY <1>1, <1>2, <1>4 DEF Status, OneShot!Tick, OneShot!Next
<1> QED BY <1>2, <1>3, <1>4 DEF ClockMoves

LEMMA IdleRecords ==
  ASSUME RecordInit, UNCHANGED recordVars, ClockMoves
  PROVE  RecordInit' /\ [Record!Next]_Record!vars
<1>1. UNCHANGED <<record, recordEnds, creation, access, ending, won, answers>>
  BY DEF recordVars
<1>2. RecordInit'
  BY <1>1 DEF RecordInit
<1>3. CASE clock' = clock
  BY <1>1, <1>2, <1>3, SameWhereabouts
<1>4. CASE clock < EndOfTime /\ clock' = clock + 1
  BY <1>1, <1>2, <1>4 DEF Whereabouts, Record!Tick, Record!Next
<1> QED BY <1>2, <1>3, <1>4 DEF ClockMoves

LEMMA PartsStep ==
  ASSUME PartsInv, [StoresNext]_storesVars
  PROVE  PartsInv' /\ [OneShot!Next]_OneShot!vars /\ [Record!Next]_Record!vars
<1>0. part' = part
  BY DEF StoresNext, storesVars
<1>1. CASE part = "states"
  <2>1. [Next]_vars /\ UNCHANGED recordVars /\ Inv /\ RecordInit
    BY <1>1 DEF StoresNext, storesVars, stateVars, vars, PartsInv
  <2>2. Inv'
    BY <2>1, NextInv
  <2>3. [OneShot!Next]_OneShot!vars
    BY <2>1, <2>2, NextMaps
  <2>4. ClockMoves
    BY <2>3 DEF ClockMoves, OneShot!Next, OneShot!vars, OneShot!Tick, OneShot!Register,
                OneShot!Grant, OneShot!Release, OneShot!Consume, OneShot!Expire
  <2>5. RecordInit' /\ [Record!Next]_Record!vars
    BY <2>1, <2>4, IdleRecords
  <2>6. backend' \in {"memory", "postgres", "redis"} /\ clock' \in 0..EndOfTime
    BY <2>2 DEF Inv, TypeOK
  <2> QED BY <1>0, <1>1, <2>2, <2>3, <2>5, <2>6 DEF PartsInv
<1>2. CASE part = "records"
  <2>1. [RecordStep]_recordsState /\ UNCHANGED stateVars /\ RecordsInv /\ StatesAtFirst
    BY <1>2 DEF StoresNext, storesVars, recordsState, PartsInv
  <2>2. RecordsInv'
    BY <2>1, RecordsNextInv
  <2>3. [Record!Next]_Record!vars
    BY <2>1, RecordMaps
  <2>4. ClockMoves
    BY <2>3 DEF ClockMoves, Record!Next, Record!vars, Record!Tick, Record!Create, Record!Replace,
                Record!Delete, Record!Take, Record!Answer, Record!Lapse
  <2>5. StatesAtFirst' /\ [OneShot!Next]_OneShot!vars
    BY <2>1, <2>4, IdleStates
  <2>6. backend' \in {"memory", "postgres", "redis"} /\ clock' \in 0..EndOfTime
    BY <2>2 DEF RecordsInv, RecordTypeOK
  <2> QED BY <1>0, <1>2, <2>2, <2>3, <2>5, <2>6 DEF PartsInv
<1>3. CASE part \notin {"states", "records"}
  <2>1. UNCHANGED <<stateVars, recordVars>> /\ StatesAtFirst /\ RecordInit
    BY <1>3 DEF StoresNext, storesVars, PartsInv
  <2>2. ClockMoves /\ backend' = backend
    BY <1>3 DEF StoresNext, storesVars, SessionStep, TimePasses, ClockMoves
  <2>3. clock' \in 0..EndOfTime
    BY <2>2, StoresAssumption DEF PartsInv, ClockMoves
  <2>4. StatesAtFirst' /\ [OneShot!Next]_OneShot!vars /\ RecordInit' /\ [Record!Next]_Record!vars
    BY <2>1, <2>2, IdleStates, IdleRecords
  <2> QED BY <1>0, <1>3, <2>2, <2>3, <2>4 DEF PartsInv
<1> QED BY <1>1, <1>2, <1>3

LEMMA PartsInvHolds == StoresSpec => []PartsInv
<1>1. StoresInit => PartsInv
  BY PartsAtFirst
<1>2. PartsInv /\ [StoresNext]_storesVars => PartsInv'
  BY PartsStep
<1> QED BY <1>1, <1>2, PTL DEF StoresSpec

\* The types of the OAuth state stores hold whatever the other stores are doing.
THEOREM TogetherTypeCorrect == StoresSpec => []TypeOK
<1>1. PartsInv => TypeOK
  <2>1. ASSUME StatesAtFirst, backend \in {"memory", "postgres", "redis"}, clock \in 0..EndOfTime
        PROVE  TypeOK
    BY <2>1, StoresAssumption DEF StatesAtFirst, TypeOK, Rows, Calls, Idle, Left, Absent
  <2> QED BY <2>1 DEF PartsInv, Inv
<1> QED BY <1>1, PartsInvHolds, PTL

\* The stores of a deployment, as they are run together, keep the promise of a one-shot state.
THEOREM TogetherOneShot == StoresSpec => OneShotPromise
<1>1. StoresInit => OneShot!Init
  BY PartsAtFirst
<1>2. PartsInv /\ [StoresNext]_storesVars => [OneShot!Next]_OneShot!vars
  BY PartsStep
<1> QED BY <1>1, <1>2, PartsInvHolds, PTL DEF StoresSpec, OneShotPromise, OneShot!Spec

\* And so they keep the one of a revisioned record.
THEOREM TogetherRevisioned == StoresSpec => RecordPromise
<1>1. StoresInit => Record!Init
  BY PartsAtFirst
<1>2. PartsInv /\ [StoresNext]_storesVars => [Record!Next]_Record!vars
  BY PartsStep
<1> QED BY <1>1, <1>2, PartsInvHolds, PTL DEF StoresSpec, RecordPromise, Record!Spec

=============================================================================
