------------------------- MODULE AuthSessionsProofs -------------------------
(***************************************************************************)
(* Theorems about AuthSessions, for any number of callers and sessions.    *)
(***************************************************************************)
EXTENDS AuthSessions, TLAPS

(***************************************************************************)
(* Types                                                                   *)
(***************************************************************************)

\* What a call makes of the record it has read is a draft.
LEMMA DraftType ==
  ASSUME NEW r \in Record, NEW t \in 0..MaxTokens, NEW e \in Nat
  PROVE  /\ Verified(r) \in Draft
         /\ WithTokenSet(r, t, e) \in Draft
         /\ Claimed(r) \in Draft
         /\ Bound(r, e) \in Draft
<1>1. r.rev + 1 \in 0..(MaxRevision + 1)
  BY ConstantsAssumption DEF Record, RecordsUpTo
<1>2. Verified(r) \in Draft
  BY <1>1 DEF Record, Draft, RecordsUpTo, Verified
<1>3. WithTokenSet(r, t, e) \in Draft
  BY <1>1 DEF Record, Draft, RecordsUpTo, WithTokenSet, Expiry
<1>4. Claimed(r) \in Draft
  BY <1>1 DEF Record, Draft, RecordsUpTo, Claimed
<1>5. (IF r.storageExpiresAt < e THEN r.storageExpiresAt ELSE e) \in Expiry
  BY DEF Record, RecordsUpTo, Expiry
<1>6. Bound(r, e) \in Draft
  BY <1>1, <1>5 DEF Record, Draft, RecordsUpTo, Bound
<1>7. QED
  BY <1>2, <1>3, <1>4, <1>6

\* A draft whose revision is valid is a record.
LEMMA ValidDraft ==
  ASSUME NEW r \in Draft, IsValidRevision(r.rev)
  PROVE  r \in Record
BY ConstantsAssumption DEF Record, Draft, RecordsUpTo, IsValidRevision

\* A record may stand where a draft is expected.
LEMMA RecordIsDraft == Record \subseteq Draft
BY ConstantsAssumption DEF Record, Draft, RecordsUpTo

\* A lookup that finds nothing cannot be mistaken for a record.
LEMMA NullIsNoRecord == NoSession \notin Draft /\ NoSession \notin Record
BY ConstantsAssumption, RecordIsDraft DEF Draft, RecordsUpTo, Expiry

\* What a call has read, where it has read anything.
SnapsRead ==
  \A c \in Callers :
    /\ pc[c] # "idle" => snap[c] # NoSession
    /\ pc[c] = "persist" => next[c] # NoSession

TypeInv == TypeOK /\ SnapsRead

\* Clearing what a call remembers keeps the types.
LEMMA FinishType ==
  ASSUME TypeInv, NEW c \in Callers, Finish(c)
  PROVE  /\ pc' \in [Callers -> Steps]
         /\ sid' \in [Callers -> Sessions]
         /\ snap' \in [Callers -> Record \cup {NoSession}]
         /\ next' \in [Callers -> Draft \cup {NoSession}]
         /\ failed' \in [Callers -> BOOLEAN]
         /\ SnapsRead'
BY DEF TypeInv, TypeOK, Finish, Goto, Steps, SnapsRead

\* Dropping an expired record on the way keeps the type of the store.
LEMMA CollectedType ==
  ASSUME TypeInv, NEW s \in Sessions
  PROVE  Collected(s) \in [Sessions -> Record \cup {NoSession}]
BY DEF TypeInv, TypeOK, Collected
\* Every action of a call keeps the types.
LEMMA CallType ==
  ASSUME TypeInv, NEW c \in Callers, Call(c)
  PROVE  TypeInv'
<1> USE DEF TypeInv, TypeOK
<1>1. ASSUME NEW s \in Sessions, NEW secret \in BOOLEAN, NEW e \in TokenExpiries,
             Answered(c, s, secret, e)
      PROVE  TypeInv'
  <2>1. e \in Nat
    BY <1>1, ConstantsAssumption DEF TokenExpiries, Time
  <2>2. [rev |-> 0, token |-> 0, expiresAt |-> e, storageExpiresAt |-> Never,
         claimed |-> FALSE, secret |-> secret] \in Record
    BY <2>1, ConstantsAssumption DEF Record, RecordsUpTo, Expiry
  <2>3. QED
    BY <1>1, <2>2, NullIsNoRecord DEF Answered, Goto, history, Steps, SnapsRead
<1>2. ASSUME NEW s \in Sessions, NEW step \in Steps \ {"persist"}, Resolve(c, s, step)
      PROVE  TypeInv'
  BY <1>2 DEF Resolve, Active, Goto, history, storeVars, Steps, SnapsRead
<1>3. ASSUME NEW s \in Sessions, NEW b \in Time, StartBind(c, s, b)
      PROVE  TypeInv'
  <2>1. store[s] \in Record
    BY <1>3 DEF StartBind, Active
  <2>2. Bound(store[s], b) \in Draft
    BY <2>1, DraftType DEF Time
  <2>3. QED
    BY <1>3, <2>1, <2>2, NullIsNoRecord
    DEF StartBind, Goto, history, storeVars, Steps, SnapsRead
<1>4. CASE CreateLease(c)
  <2>1. snap[c] \in Record
    BY <1>4 DEF CreateLease, SnapsRead
  <2>2. CredentialLeaseExpiration(snap[c]) \in Nat
    BY <2>1, ConstantsAssumption
    DEF CredentialLeaseExpiration, Record, RecordsUpTo, Expiry, Time
  <2>3. leases' \in [Sessions -> Expiry] /\ UNCHANGED used
    BY <1>4, <2>2 DEF CreateLease, Expiry
  <2>4. CASE Finish(c)
    BY <1>4, <2>3, <2>4, FinishType DEF CreateLease, history
  <2>5. CASE Goto(c, "create") /\ UNCHANGED <<sid, snap, next, failed>>
    BY <1>4, <2>3, <2>5 DEF CreateLease, Goto, history, Steps, SnapsRead
  <2>6. QED
    BY <1>4, <2>4, <2>5 DEF CreateLease
<1>5. CASE CreateSession(c)
  <2>1. store' \in [Sessions -> Record \cup {NoSession}]
    BY <1>5 DEF CreateSession
  <2>2. CASE Finish(c)
    BY <1>5, <2>1, <2>2, FinishType DEF CreateSession, history
  <2>3. CASE Goto(c, "unlease") /\ UNCHANGED <<sid, snap, next, failed>>
    BY <1>5, <2>1, <2>3 DEF CreateSession, Goto, history, Steps, SnapsRead
  <2>4. QED
    BY <1>5, <2>2, <2>3 DEF CreateSession
<1>6. CASE DeleteLease(c)
  BY <1>6, FinishType DEF DeleteLease, history, Expiry
<1>7. CASE VerifyAnswered(c)
  <2>1. snap[c] \in Record
    BY <1>7 DEF VerifyAnswered, SnapsRead
  <2>2. Verified(snap[c]) \in Draft
    BY <2>1, DraftType
  <2>3. QED
    BY <1>7, <2>2, NullIsNoRecord
    DEF VerifyAnswered, Goto, history, storeVars, Steps, SnapsRead
<1>8. ASSUME NEW e \in TokenExpiries, RefreshAnswered(c, e)
      PROVE  TypeInv'
  <2>1. snap[c] \in Record /\ e \in Nat
    BY <1>8, ConstantsAssumption DEF RefreshAnswered, SnapsRead, TokenExpiries, Time
  <2>2. issued[sid[c]] + 1 \in 0..MaxTokens
    BY <1>8, ConstantsAssumption DEF RefreshAnswered
  <2>3. WithTokenSet(snap[c], issued[sid[c]] + 1, e) \in Draft
    BY <2>1, <2>2, DraftType
  <2>4. QED
    BY <1>8, <2>2, <2>3, NullIsNoRecord
    DEF RefreshAnswered, Goto, history, Steps, SnapsRead
<1>9. CASE RemoteFails(c)
  BY <1>9, FinishType DEF RemoteFails, history, storeVars
<1>10. CASE Persist(c)
  <2>1. next[c] \in Draft
    BY <1>10 DEF Persist, SnapsRead
  <2>2. next[c].token \in 0..MaxTokens
    BY <2>1 DEF Draft, RecordsUpTo
  <2>3. store' \in [Sessions -> Record \cup {NoSession}]
    <3>1. CASE CanSet(sid[c], snap[c].rev, next[c])
      <4>1. next[c] \in Record
        BY <2>1, <3>1, ValidDraft DEF CanSet
      <4>2. store' = [store EXCEPT ![sid[c]] = next[c]]
        BY <1>10, <3>1 DEF Persist
      <4>3. QED
        BY <4>1, <4>2
    <3>2. CASE ~CanSet(sid[c], snap[c].rev, next[c])
      BY <1>10, <3>2, CollectedType DEF Persist
    <3>3. QED
      BY <3>1, <3>2
  <2>4. newest' \in [Sessions -> 0..MaxTokens]
    BY <1>10, <2>2 DEF Persist
  <2>5. UNCHANGED <<leases, now, used, issued, calls, revoked, ended>> /\ Finish(c)
    BY <1>10 DEF Persist
  <2>6. QED
    BY <2>3, <2>4, <2>5, FinishType
<1>11. CASE RevokeClaim(c)
  <2>1. snap[c] \in Record
    BY <1>11 DEF RevokeClaim, SnapsRead
  <2>2. CASE CanSet(sid[c], snap[c].rev, Claimed(snap[c]))
    <3>1. Claimed(snap[c]) \in Record
      BY <2>1, <2>2, DraftType, ValidDraft, ConstantsAssumption DEF CanSet
    <3>2. QED
      BY <1>11, <2>2, <3>1, NullIsNoRecord
      DEF RevokeClaim, Goto, history, Steps, SnapsRead
  <2>3. CASE ~CanSet(sid[c], snap[c].rev, Claimed(snap[c]))
    BY <1>11, <2>3, FinishType, CollectedType DEF RevokeClaim, history
  <2>4. QED
    BY <2>2, <2>3
<1>12. CASE RevokeAnswered(c)
  <2>1. PICK error \in BOOLEAN :
          /\ failed' = [failed EXCEPT ![c] = error]
          /\ calls' \in {calls, [calls EXCEPT ![sid[c]] = @ + 1]}
    BY <1>12 DEF RevokeAnswered
  <2>2. QED
    BY <1>12, <2>1 DEF RevokeAnswered, Goto, storeVars, Steps, SnapsRead
<1>13. CASE RevokeRemove(c)
  <2>1. store' \in [Sessions -> Record \cup {NoSession}]
    BY <1>13, CollectedType DEF RevokeRemove
  <2>2. CASE Finish(c)
    BY <1>13, <2>1, <2>2, FinishType DEF RevokeRemove, EndRevoke
  <2>3. CASE ~Finish(c)
    <3>1. /\ pc' = [pc EXCEPT ![c] = "release"]
          /\ \E b \in BOOLEAN : failed' = [failed EXCEPT ![c] = b]
          /\ UNCHANGED <<sid, snap, next, revoked, ended>>
      BY <1>13, <2>3 DEF RevokeRemove, EndRevoke, Goto
    <3>2. QED
      BY <1>13, <2>1, <3>1 DEF RevokeRemove, Steps, SnapsRead
  <2>4. QED
    BY <2>2, <2>3
<1>14. CASE RevokeRelease(c)
  BY <1>14, FinishType DEF RevokeRelease, EndRevoke, Expiry
<1>15. CASE Discard(c)
  BY <1>15, FinishType, CollectedType DEF Discard, history
<1>16. CASE Crash(c)
  BY <1>16, FinishType DEF Crash, history, storeVars
<1>17. QED
  BY <1>1, <1>2, <1>3, <1>4, <1>5, <1>6, <1>7, <1>8, <1>9, <1>10, <1>11, <1>12,
     <1>13, <1>14, <1>15, <1>16
  DEF Call, StartVerify, StartRefresh, StartRevoke, StartDiscard, Steps

\* The values of all variables stay in their types; service and store together
\* keep every stored revision a safe integer.
THEOREM TypeCorrect == Spec => []TypeOK
<1>1. Init => TypeInv
  BY ConstantsAssumption
  DEF Init, TypeInv, TypeOK, SnapsRead, Time, Expiry, Steps
<1>2. TypeInv /\ [Next]_vars => TypeInv'
  <2> SUFFICES ASSUME TypeInv, [Next]_vars
               PROVE  TypeInv'
    OBVIOUS
  <2>1. ASSUME NEW c \in Callers, Call(c)
        PROVE  TypeInv'
    BY <2>1, CallType
  <2>2. ASSUME NEW s \in Sessions, DropExpired(s)
        PROVE  TypeInv'
    BY <2>2 DEF DropExpired, callVars, history, TypeInv, TypeOK, SnapsRead
  <2>3. CASE Tick
    BY <2>3, ConstantsAssumption
    DEF Tick, callVars, history, Time, TypeInv, TypeOK, SnapsRead
  <2>4. CASE UNCHANGED vars
    BY <2>4 DEF vars, storeVars, callVars, history, TypeInv, TypeOK, SnapsRead
  <2>5. QED
    BY <2>1, <2>2, <2>3, <2>4 DEF Next
<1>3. TypeInv => TypeOK
  BY DEF TypeInv
<1>4. QED
  BY <1>1, <1>2, <1>3, PTL DEF Spec

(***************************************************************************)
(* The inductive invariant behind the safety properties                    *)
(***************************************************************************)

\* An identifier that has not been handed out yet occurs nowhere.
UnusedIsFresh ==
  \A s \in Sessions \ used :
    /\ store[s] = NoSession /\ leases[s] = 0
    /\ newest[s] = 0 /\ calls[s] = 0 /\ s \notin revoked

\* A session that is being created belongs to its creator alone.
CreatorIsAlone ==
  \A c \in Callers :
    /\ pc[c] # "idle" => sid[c] \in used
    /\ Creating(c) =>
         /\ store[sid[c]] = NoSession
         /\ newest[sid[c]] = 0 /\ calls[sid[c]] = 0 /\ sid[c] \notin revoked
         /\ snap[c].rev = 0 /\ snap[c].token = 0 /\ ~snap[c].claimed
         /\ \A d \in Callers \ {c} : pc[d] # "idle" => sid[d] # sid[c]

\* What a call is about to write succeeds what it has read.
DraftSucceeds ==
  /\ \A s \in Sessions : newest[s] <= issued[s]
  /\ \A c \in Callers :
       /\ pc[c] \in {"refreshing", "claim"} => ~snap[c].claimed
       /\ Holding(c) => snap[c].token <= issued[sid[c]]
       /\ pc[c] = "persist" =>
            Succeeds(snap[c], next[c]) /\ next[c].token <= issued[sid[c]]

\* A lease belongs to a session that refers to it.
LeasesReferred ==
  /\ LeaseKept
  /\ \A s \in Sessions : store[s] # NoSession /\ ~store[s].secret => leases[s] = 0
  /\ \A c \in Callers :
       /\ pc[c] # "idle" /\ ~snap[c].secret => leases[sid[c]] = 0
       /\ pc[c] = "create" /\ snap[c].secret => leases[sid[c]] # 0
       /\ pc[c] \in {"lease", "unlease", "release"} => snap[c].secret

\* A claim is held by one caller, and the remote server hears of it once.
Claiming(c) == pc[c] \in {"revoking", "remove", "release"}

ClaimIsExclusive ==
  /\ RevokedOnce
  /\ \A s \in Sessions : calls[s] > 0 /\ store[s] # NoSession => store[s].claimed
  /\ \A c \in Callers :
       /\ pc[c] = "revoking" => calls[sid[c]] = 0
       /\ Claiming(c) =>
            /\ snap[c].claimed
            /\ store[sid[c]] # NoSession => store[sid[c]].claimed
            /\ \A d \in Callers \ {c} : Claiming(d) => sid[d] # sid[c]

\* A revocation that has gone well so far leaves nothing behind it.
RevokeRemoves ==
  /\ RevokeIsFinal
  /\ \A c \in Callers : pc[c] = "release" /\ ~failed[c] => store[sid[c]] = NoSession

SafetyInv ==
  /\ TypeInv
  /\ UnusedIsFresh
  /\ CreatorIsAlone
  /\ RevisionIdentifies
  /\ CurrentCredentials
  /\ DraftSucceeds
  /\ LeasesReferred
  /\ ClaimIsExclusive
  /\ RevokeRemoves

\* A call that loses a race ends, and at most drops a record that has expired.
LEMMA LosingSafety ==
  ASSUME SafetyInv, NEW c \in Callers, TypeInv',
         store' = Collected(sid[c]), Finish(c),
         UNCHANGED <<leases, now, used, issued, history>>
  PROVE  SafetyInv'
<1> USE DEF SafetyInv, history
<1>1. \A s \in Sessions : store'[s] \in {store[s], NoSession}
  BY DEF Collected, TypeInv, TypeOK
<1>2. \A d \in Callers :
        IF d = c THEN pc'[d] = "idle"
        ELSE /\ pc'[d] = pc[d] /\ snap'[d] = snap[d]
             /\ next'[d] = next[d] /\ failed'[d] = failed[d]
  BY DEF Finish, Goto, TypeInv, TypeOK
<1>3. sid' = sid
  BY DEF Finish
<1>4. UnusedIsFresh'
  BY <1>1 DEF UnusedIsFresh
<1>5. CreatorIsAlone'
  BY <1>1, <1>2, <1>3 DEF CreatorIsAlone, Creating, TypeInv, TypeOK
<1>6. RevisionIdentifies'
  BY <1>1, <1>2, <1>3 DEF RevisionIdentifies, Holding, Creating, TypeInv, TypeOK
<1>7. CurrentCredentials'
  BY <1>1 DEF CurrentCredentials
<1>8. DraftSucceeds'
  BY <1>2, <1>3 DEF DraftSucceeds, Holding, Creating
<1>9. LeasesReferred'
  <2>1. LeaseKept'
    BY <1>1 DEF LeasesReferred, LeaseKept
  <2>2. \A s \in Sessions : store'[s] # NoSession /\ ~store'[s].secret => leases'[s] = 0
    BY <1>1 DEF LeasesReferred
  <2>3. QED
    BY <1>2, <1>3, <2>1, <2>2 DEF LeasesReferred
<1>10. ClaimIsExclusive'
  BY <1>1, <1>2, <1>3 DEF ClaimIsExclusive, RevokedOnce, Claiming, TypeInv, TypeOK
<1>11. RevokeRemoves'
  BY <1>1, <1>2, <1>3 DEF RevokeRemoves, RevokeIsFinal, TypeInv, TypeOK
<1>12. QED
  BY <1>4, <1>5, <1>6, <1>7, <1>8, <1>9, <1>10, <1>11

\* Every action of a call keeps the invariant: one step per action, and under it
\* one per conjunct.
LEMMA CallSafety ==
  ASSUME SafetyInv, NEW c \in Callers, Call(c)
  PROVE  SafetyInv'
<1> USE DEF SafetyInv, TypeInv, TypeOK, SnapsRead, Goto, Finish, history, storeVars,
            Steps, Expiry
<1>1. ASSUME NEW s \in Sessions, NEW secret \in BOOLEAN, NEW e \in TokenExpiries,
             Answered(c, s, secret, e)
      PROVE  SafetyInv'
  <2>1. UnusedIsFresh'
    BY <1>1 DEF Answered, UnusedIsFresh
  <2>2. CreatorIsAlone'
    BY <1>1 DEF Answered, CreatorIsAlone, Creating, UnusedIsFresh
  <2>3. RevisionIdentifies'
    BY <1>1 DEF Answered, RevisionIdentifies, Holding, Creating
  <2>4. CurrentCredentials'
    BY <1>1 DEF Answered, CurrentCredentials
  <2>5. DraftSucceeds'
    BY <1>1 DEF Answered, DraftSucceeds, Holding, Creating
  <2>6. LeasesReferred'
    BY <1>1
    DEF Answered, LeasesReferred, LeaseKept, CreatorIsAlone, Creating, UnusedIsFresh
  <2>7. ClaimIsExclusive'
    BY <1>1 DEF Answered, ClaimIsExclusive, RevokedOnce, Claiming
  <2>8. RevokeRemoves'
    BY <1>1 DEF Answered, RevokeRemoves, RevokeIsFinal
  <2>9. QED
    BY <1>1, <2>1, <2>2, <2>3, <2>4, <2>5, <2>6, <2>7, <2>8, CallType
    DEF SafetyInv, Call
<1>2. ASSUME NEW s \in Sessions, StartVerify(c, s)
      PROVE  SafetyInv'
  <2>1. UnusedIsFresh'
    BY <1>2 DEF StartVerify, Resolve, Active, UnusedIsFresh
  <2>2. CreatorIsAlone'
    BY <1>2 DEF StartVerify, Resolve, Active, CreatorIsAlone, Creating, UnusedIsFresh
  <2>3. RevisionIdentifies'
    BY <1>2
    DEF StartVerify, Resolve, Active, RevisionIdentifies, Holding, Creating,
        CreatorIsAlone, Record, RecordsUpTo
  <2>4. CurrentCredentials'
    BY <1>2 DEF StartVerify, Resolve, Active, CurrentCredentials
  <2>5. DraftSucceeds'
    BY <1>2
    DEF StartVerify, Resolve, Active, DraftSucceeds, Holding, Creating, Record,
        RecordsUpTo, CurrentCredentials
  <2>6. LeasesReferred'
    BY <1>2 DEF StartVerify, Resolve, Active, LeasesReferred, LeaseKept
  <2>7. ClaimIsExclusive'
    BY <1>2 DEF StartVerify, Resolve, Active, ClaimIsExclusive, RevokedOnce, Claiming
  <2>8. RevokeRemoves'
    BY <1>2 DEF StartVerify, Resolve, Active, RevokeRemoves, RevokeIsFinal
  <2>9. QED
    BY <1>2, <2>1, <2>2, <2>3, <2>4, <2>5, <2>6, <2>7, <2>8, CallType
    DEF SafetyInv, Call
<1>3. ASSUME NEW s \in Sessions, StartRefresh(c, s)
      PROVE  SafetyInv'
  <2>1. UnusedIsFresh'
    BY <1>3 DEF StartRefresh, Resolve, Active, UnusedIsFresh
  <2>2. CreatorIsAlone'
    BY <1>3 DEF StartRefresh, Resolve, Active, CreatorIsAlone, Creating, UnusedIsFresh
  <2>3. RevisionIdentifies'
    BY <1>3
    DEF StartRefresh, Resolve, Active, RevisionIdentifies, Holding, Creating,
        CreatorIsAlone, Record, RecordsUpTo
  <2>4. CurrentCredentials'
    BY <1>3 DEF StartRefresh, Resolve, Active, CurrentCredentials
  <2>5. DraftSucceeds'
    BY <1>3
    DEF StartRefresh, Resolve, Active, DraftSucceeds, Holding, Creating, Record,
        RecordsUpTo, CurrentCredentials
  <2>6. LeasesReferred'
    BY <1>3 DEF StartRefresh, Resolve, Active, LeasesReferred, LeaseKept
  <2>7. ClaimIsExclusive'
    BY <1>3 DEF StartRefresh, Resolve, Active, ClaimIsExclusive, RevokedOnce, Claiming
  <2>8. RevokeRemoves'
    BY <1>3 DEF StartRefresh, Resolve, Active, RevokeRemoves, RevokeIsFinal
  <2>9. QED
    BY <1>3, <2>1, <2>2, <2>3, <2>4, <2>5, <2>6, <2>7, <2>8, CallType
    DEF SafetyInv, Call
<1>4. ASSUME NEW s \in Sessions, StartRevoke(c, s)
      PROVE  SafetyInv'
  <2>1. UnusedIsFresh'
    BY <1>4 DEF StartRevoke, Resolve, Active, UnusedIsFresh
  <2>2. CreatorIsAlone'
    BY <1>4 DEF StartRevoke, Resolve, Active, CreatorIsAlone, Creating, UnusedIsFresh
  <2>3. RevisionIdentifies'
    BY <1>4
    DEF StartRevoke, Resolve, Active, RevisionIdentifies, Holding, Creating,
        CreatorIsAlone, Record, RecordsUpTo
  <2>4. CurrentCredentials'
    BY <1>4 DEF StartRevoke, Resolve, Active, CurrentCredentials
  <2>5. DraftSucceeds'
    BY <1>4
    DEF StartRevoke, Resolve, Active, DraftSucceeds, Holding, Creating, Record,
        RecordsUpTo, CurrentCredentials
  <2>6. LeasesReferred'
    BY <1>4 DEF StartRevoke, Resolve, Active, LeasesReferred, LeaseKept
  <2>7. ClaimIsExclusive'
    BY <1>4 DEF StartRevoke, Resolve, Active, ClaimIsExclusive, RevokedOnce, Claiming
  <2>8. RevokeRemoves'
    BY <1>4 DEF StartRevoke, Resolve, Active, RevokeRemoves, RevokeIsFinal
  <2>9. QED
    BY <1>4, <2>1, <2>2, <2>3, <2>4, <2>5, <2>6, <2>7, <2>8, CallType
    DEF SafetyInv, Call
<1>5. ASSUME NEW s \in Sessions, StartDiscard(c, s)
      PROVE  SafetyInv'
  <2>1. UnusedIsFresh'
    BY <1>5 DEF StartDiscard, Resolve, Active, UnusedIsFresh
  <2>2. CreatorIsAlone'
    BY <1>5 DEF StartDiscard, Resolve, Active, CreatorIsAlone, Creating, UnusedIsFresh
  <2>3. RevisionIdentifies'
    BY <1>5
    DEF StartDiscard, Resolve, Active, RevisionIdentifies, Holding, Creating,
        CreatorIsAlone, Record, RecordsUpTo
  <2>4. CurrentCredentials'
    BY <1>5 DEF StartDiscard, Resolve, Active, CurrentCredentials
  <2>5. DraftSucceeds'
    BY <1>5
    DEF StartDiscard, Resolve, Active, DraftSucceeds, Holding, Creating, Record,
        RecordsUpTo, CurrentCredentials
  <2>6. LeasesReferred'
    BY <1>5 DEF StartDiscard, Resolve, Active, LeasesReferred, LeaseKept
  <2>7. ClaimIsExclusive'
    BY <1>5 DEF StartDiscard, Resolve, Active, ClaimIsExclusive, RevokedOnce, Claiming
  <2>8. RevokeRemoves'
    BY <1>5 DEF StartDiscard, Resolve, Active, RevokeRemoves, RevokeIsFinal
  <2>9. QED
    BY <1>5, <2>1, <2>2, <2>3, <2>4, <2>5, <2>6, <2>7, <2>8, CallType
    DEF SafetyInv, Call
<1>6. ASSUME NEW s \in Sessions, NEW b \in Time, StartBind(c, s, b)
      PROVE  SafetyInv'
  <2>1. UnusedIsFresh'
    BY <1>6 DEF StartBind, Bound, Active, Time, UnusedIsFresh
  <2>2. CreatorIsAlone'
    BY <1>6 DEF StartBind, Bound, Active, Time, CreatorIsAlone, Creating, UnusedIsFresh
  <2>3. RevisionIdentifies'
    BY <1>6
    DEF StartBind, Bound, Active, Time, RevisionIdentifies, Holding, Creating,
        CreatorIsAlone, Record, RecordsUpTo
  <2>4. CurrentCredentials'
    BY <1>6 DEF StartBind, Bound, Active, Time, CurrentCredentials
  <2>5. DraftSucceeds'
    BY <1>6
    DEF StartBind, Bound, Active, Time, DraftSucceeds, Holding, Creating, Record,
        RecordsUpTo, CurrentCredentials, CreatorIsAlone, Succeeds
  <2>6. LeasesReferred'
    BY <1>6 DEF StartBind, Bound, Active, Time, LeasesReferred, LeaseKept
  <2>7. ClaimIsExclusive'
    BY <1>6 DEF StartBind, Bound, Active, Time, ClaimIsExclusive, RevokedOnce, Claiming
  <2>8. RevokeRemoves'
    BY <1>6 DEF StartBind, Bound, Active, Time, RevokeRemoves, RevokeIsFinal
  <2>9. QED
    BY <1>6, <2>1, <2>2, <2>3, <2>4, <2>5, <2>6, <2>7, <2>8, CallType
    DEF SafetyInv, Call
<1>7. CASE CreateLease(c)
  <2>1. snap[c] \in Record /\ snap[c].secret
    BY <1>7 DEF CreateLease, LeasesReferred
  <2>2. CredentialLeaseExpiration(snap[c]) \in Nat
    BY <2>1, ConstantsAssumption DEF CredentialLeaseExpiration, Record, RecordsUpTo, Time
  <2>3. now \in Nat
    BY ConstantsAssumption DEF Time
  <2>4. CASE /\ CredentialLeaseExpiration(snap[c]) > now
             /\ leases' = [leases EXCEPT ![sid[c]] = CredentialLeaseExpiration(snap[c])]
             /\ Goto(c, "create")
             /\ UNCHANGED <<sid, snap, next, failed>>
    <3>1. UnusedIsFresh'
      BY <1>7, <2>1, <2>2, <2>3, <2>4 DEF CreateLease, UnusedIsFresh, CreatorIsAlone
    <3>2. CreatorIsAlone'
      BY <1>7, <2>1, <2>2, <2>3, <2>4 DEF CreateLease, CreatorIsAlone, Creating
    <3>3. RevisionIdentifies'
      BY <1>7, <2>1, <2>2, <2>3, <2>4
      DEF CreateLease, RevisionIdentifies, Holding, Creating
    <3>4. CurrentCredentials'
      BY <1>7, <2>1, <2>2, <2>3, <2>4 DEF CreateLease, CurrentCredentials
    <3>5. DraftSucceeds'
      BY <1>7, <2>1, <2>2, <2>3, <2>4 DEF CreateLease, DraftSucceeds, Holding, Creating
    <3>6. LeasesReferred'
      BY <1>7, <2>1, <2>2, <2>3, <2>4
      DEF CreateLease, LeasesReferred, LeaseKept, CreatorIsAlone, Creating
    <3>7. ClaimIsExclusive'
      BY <1>7, <2>1, <2>2, <2>3, <2>4
      DEF CreateLease, ClaimIsExclusive, RevokedOnce, Claiming
    <3>8. RevokeRemoves'
      BY <1>7, <2>1, <2>2, <2>3, <2>4
      DEF CreateLease, RevokeRemoves, RevokeIsFinal, CreatorIsAlone, Creating
    <3>9. QED
      BY <1>7, <3>1, <3>2, <3>3, <3>4, <3>5, <3>6, <3>7, <3>8, CallType
      DEF SafetyInv, Call
  <2>5. CASE Finish(c) /\ UNCHANGED leases
    <3>1. UnusedIsFresh'
      BY <1>7, <2>1, <2>2, <2>3, <2>5 DEF CreateLease, UnusedIsFresh
    <3>2. CreatorIsAlone'
      BY <1>7, <2>1, <2>2, <2>3, <2>5 DEF CreateLease, CreatorIsAlone, Creating
    <3>3. RevisionIdentifies'
      BY <1>7, <2>1, <2>2, <2>3, <2>5
      DEF CreateLease, RevisionIdentifies, Holding, Creating
    <3>4. CurrentCredentials'
      BY <1>7, <2>1, <2>2, <2>3, <2>5 DEF CreateLease, CurrentCredentials
    <3>5. DraftSucceeds'
      BY <1>7, <2>1, <2>2, <2>3, <2>5 DEF CreateLease, DraftSucceeds, Holding, Creating
    <3>6. LeasesReferred'
      BY <1>7, <2>1, <2>2, <2>3, <2>5 DEF CreateLease, LeasesReferred, LeaseKept
    <3>7. ClaimIsExclusive'
      BY <1>7, <2>1, <2>2, <2>3, <2>5
      DEF CreateLease, ClaimIsExclusive, RevokedOnce, Claiming
    <3>8. RevokeRemoves'
      BY <1>7, <2>1, <2>2, <2>3, <2>5 DEF CreateLease, RevokeRemoves, RevokeIsFinal
    <3>9. QED
      BY <1>7, <3>1, <3>2, <3>3, <3>4, <3>5, <3>6, <3>7, <3>8, CallType
      DEF SafetyInv, Call
  <2>6. QED
    BY <1>7, <2>4, <2>5 DEF CreateLease
<1>8. CASE CreateSession(c)
  <2>1. CASE store' = [store EXCEPT ![sid[c]] = snap[c]] /\ Finish(c)
    <3>1. UnusedIsFresh'
      BY <1>8, <2>1 DEF CreateSession, UnusedIsFresh, CreatorIsAlone
    <3>2. CreatorIsAlone'
      BY <1>8, <2>1 DEF CreateSession, CreatorIsAlone, Creating
    <3>3. RevisionIdentifies'
      BY <1>8, <2>1
      DEF CreateSession, RevisionIdentifies, Holding, Creating, CreatorIsAlone
    <3>4. CurrentCredentials'
      BY <1>8, <2>1
      DEF CreateSession, CurrentCredentials, RevisionIdentifies, Holding, Creating,
          CreatorIsAlone
    <3>5. DraftSucceeds'
      BY <1>8, <2>1 DEF CreateSession, DraftSucceeds, Holding, Creating
    <3>6. LeasesReferred'
      BY <1>8, <2>1 DEF CreateSession, LeasesReferred, LeaseKept
    <3>7. ClaimIsExclusive'
      BY <1>8, <2>1
      DEF CreateSession, ClaimIsExclusive, RevokedOnce, Claiming, CreatorIsAlone,
          Creating
    <3>8. RevokeRemoves'
      BY <1>8, <2>1
      DEF CreateSession, RevokeRemoves, RevokeIsFinal, CreatorIsAlone, Creating
    <3>9. QED
      BY <1>8, <3>1, <3>2, <3>3, <3>4, <3>5, <3>6, <3>7, <3>8, CallType
      DEF SafetyInv, Call
  <2>2. CASE UNCHANGED store
    <3>1. UnusedIsFresh'
      BY <1>8, <2>2 DEF CreateSession, UnusedIsFresh
    <3>2. CreatorIsAlone'
      BY <1>8, <2>2 DEF CreateSession, CreatorIsAlone, Creating
    <3>3. RevisionIdentifies'
      BY <1>8, <2>2 DEF CreateSession, RevisionIdentifies, Holding, Creating
    <3>4. CurrentCredentials'
      BY <1>8, <2>2 DEF CreateSession, CurrentCredentials
    <3>5. DraftSucceeds'
      BY <1>8, <2>2 DEF CreateSession, DraftSucceeds, Holding, Creating
    <3>6. LeasesReferred'
      BY <1>8, <2>2 DEF CreateSession, LeasesReferred, LeaseKept
    <3>7. ClaimIsExclusive'
      BY <1>8, <2>2 DEF CreateSession, ClaimIsExclusive, RevokedOnce, Claiming
    <3>8. RevokeRemoves'
      BY <1>8, <2>2 DEF CreateSession, RevokeRemoves, RevokeIsFinal
    <3>9. QED
      BY <1>8, <3>1, <3>2, <3>3, <3>4, <3>5, <3>6, <3>7, <3>8, CallType
      DEF SafetyInv, Call
  <2>3. QED
    BY <1>8, <2>1, <2>2 DEF CreateSession
<1>9. CASE DeleteLease(c)
  <2>1. UnusedIsFresh'
    BY <1>9 DEF DeleteLease, UnusedIsFresh
  <2>2. CreatorIsAlone'
    BY <1>9 DEF DeleteLease, CreatorIsAlone, Creating
  <2>3. RevisionIdentifies'
    BY <1>9 DEF DeleteLease, RevisionIdentifies, Holding, Creating
  <2>4. CurrentCredentials'
    BY <1>9 DEF DeleteLease, CurrentCredentials
  <2>5. DraftSucceeds'
    BY <1>9 DEF DeleteLease, DraftSucceeds, Holding, Creating
  <2>6. LeasesReferred'
    BY <1>9 DEF DeleteLease, LeasesReferred, LeaseKept, CreatorIsAlone, Creating
  <2>7. ClaimIsExclusive'
    BY <1>9 DEF DeleteLease, ClaimIsExclusive, RevokedOnce, Claiming
  <2>8. RevokeRemoves'
    BY <1>9 DEF DeleteLease, RevokeRemoves, RevokeIsFinal
  <2>9. QED
    BY <1>9, <2>1, <2>2, <2>3, <2>4, <2>5, <2>6, <2>7, <2>8, CallType
    DEF SafetyInv, Call
<1>10. CASE VerifyAnswered(c)
  <2>1. UnusedIsFresh'
    BY <1>10 DEF VerifyAnswered, Verified, UnusedIsFresh
  <2>2. CreatorIsAlone'
    BY <1>10 DEF VerifyAnswered, Verified, CreatorIsAlone, Creating
  <2>3. RevisionIdentifies'
    BY <1>10 DEF VerifyAnswered, Verified, RevisionIdentifies, Holding, Creating
  <2>4. CurrentCredentials'
    BY <1>10 DEF VerifyAnswered, Verified, CurrentCredentials
  <2>5. DraftSucceeds'
    BY <1>10
    DEF VerifyAnswered, Verified, DraftSucceeds, Holding, Creating, Record,
        RecordsUpTo, CurrentCredentials, CreatorIsAlone, Succeeds
  <2>6. LeasesReferred'
    BY <1>10 DEF VerifyAnswered, Verified, LeasesReferred, LeaseKept
  <2>7. ClaimIsExclusive'
    BY <1>10 DEF VerifyAnswered, Verified, ClaimIsExclusive, RevokedOnce, Claiming
  <2>8. RevokeRemoves'
    BY <1>10 DEF VerifyAnswered, Verified, RevokeRemoves, RevokeIsFinal
  <2>9. QED
    BY <1>10, <2>1, <2>2, <2>3, <2>4, <2>5, <2>6, <2>7, <2>8, CallType
    DEF SafetyInv, Call
<1>11. ASSUME NEW e \in TokenExpiries, RefreshAnswered(c, e)
      PROVE  SafetyInv'
  <2>1. UnusedIsFresh'
    BY <1>11 DEF RefreshAnswered, WithTokenSet, UnusedIsFresh
  <2>2. CreatorIsAlone'
    BY <1>11 DEF RefreshAnswered, WithTokenSet, CreatorIsAlone, Creating
  <2>3. RevisionIdentifies'
    BY <1>11 DEF RefreshAnswered, WithTokenSet, RevisionIdentifies, Holding, Creating
  <2>4. CurrentCredentials'
    BY <1>11 DEF RefreshAnswered, WithTokenSet, CurrentCredentials
  <2>5. DraftSucceeds'
    BY <1>11
    DEF RefreshAnswered, WithTokenSet, DraftSucceeds, Holding, Creating, Record,
        RecordsUpTo, CurrentCredentials, CreatorIsAlone, Succeeds, UnusedIsFresh, Draft
  <2>6. LeasesReferred'
    BY <1>11 DEF RefreshAnswered, WithTokenSet, LeasesReferred, LeaseKept
  <2>7. ClaimIsExclusive'
    BY <1>11 DEF RefreshAnswered, WithTokenSet, ClaimIsExclusive, RevokedOnce, Claiming
  <2>8. RevokeRemoves'
    BY <1>11 DEF RefreshAnswered, WithTokenSet, RevokeRemoves, RevokeIsFinal
  <2>9. QED
    BY <1>11, <2>1, <2>2, <2>3, <2>4, <2>5, <2>6, <2>7, <2>8, CallType
    DEF SafetyInv, Call
<1>12. CASE RemoteFails(c)
  <2>1. UnusedIsFresh'
    BY <1>12 DEF RemoteFails, UnusedIsFresh
  <2>2. CreatorIsAlone'
    BY <1>12 DEF RemoteFails, CreatorIsAlone, Creating
  <2>3. RevisionIdentifies'
    BY <1>12 DEF RemoteFails, RevisionIdentifies, Holding, Creating
  <2>4. CurrentCredentials'
    BY <1>12 DEF RemoteFails, CurrentCredentials
  <2>5. DraftSucceeds'
    BY <1>12 DEF RemoteFails, DraftSucceeds, Holding, Creating
  <2>6. LeasesReferred'
    BY <1>12 DEF RemoteFails, LeasesReferred, LeaseKept
  <2>7. ClaimIsExclusive'
    BY <1>12 DEF RemoteFails, ClaimIsExclusive, RevokedOnce, Claiming
  <2>8. RevokeRemoves'
    BY <1>12 DEF RemoteFails, RevokeRemoves, RevokeIsFinal
  <2>9. QED
    BY <1>12, <2>1, <2>2, <2>3, <2>4, <2>5, <2>6, <2>7, <2>8, CallType
    DEF SafetyInv, Call
<1>13. CASE Persist(c)
  <2>1. CASE CanSet(sid[c], snap[c].rev, next[c])
    <3>1. next[c] \in Draft /\ snap[c] = store[sid[c]] /\ Succeeds(snap[c], next[c])
      BY <1>13, <2>1 DEF Persist, CanSet, Active, RevisionIdentifies, Holding, Creating, DraftSucceeds
    <3>2. UnusedIsFresh'
      BY <1>13, <2>1, <3>1 DEF Persist, UnusedIsFresh
    <3>3. CreatorIsAlone'
      BY <1>13, <2>1, <3>1 DEF Persist, CreatorIsAlone, Creating
    <3>4. RevisionIdentifies'
      BY <1>13, <2>1, <3>1
      DEF Persist, RevisionIdentifies, Holding, Creating, CreatorIsAlone, Record,
          RecordsUpTo, DraftSucceeds, Succeeds
    <3>5. CurrentCredentials'
      BY <1>13, <2>1, <3>1 DEF Persist, CurrentCredentials
    <3>6. DraftSucceeds'
      BY <1>13, <2>1, <3>1 DEF Persist, DraftSucceeds, Holding, Creating
    <3>7. LeasesReferred'
      BY <1>13, <2>1, <3>1
      DEF Persist, LeasesReferred, LeaseKept, CreatorIsAlone, Creating, UnusedIsFresh,
          RevisionIdentifies, Holding, DraftSucceeds, Succeeds
    <3>8. ClaimIsExclusive'
      BY <1>13, <2>1, <3>1
      DEF Persist, ClaimIsExclusive, RevokedOnce, Claiming, CreatorIsAlone, Creating,
          RevisionIdentifies, Holding, DraftSucceeds, Succeeds
    <3>9. RevokeRemoves'
      BY <1>13, <2>1, <3>1 DEF Persist, RevokeRemoves, RevokeIsFinal
    <3>10. QED
      BY <1>13, <3>2, <3>3, <3>4, <3>5, <3>6, <3>7, <3>8, <3>9, CallType
      DEF SafetyInv, Call
  <2>2. CASE ~CanSet(sid[c], snap[c].rev, next[c])
    BY <1>13, <2>2, CallType, LosingSafety DEF Persist, Call
  <2>3. QED
    BY <1>13, <2>1, <2>2 DEF Persist
<1>14. CASE RevokeClaim(c)
  <2>1. CASE CanSet(sid[c], snap[c].rev, Claimed(snap[c]))
    <3>1. snap[c] \in Record /\ snap[c] = store[sid[c]] /\ ~snap[c].claimed
      BY <1>14, <2>1 DEF RevokeClaim, CanSet, Active, RevisionIdentifies, Holding, Creating, DraftSucceeds
    <3>2. /\ Claimed(snap[c]).claimed /\ Claimed(snap[c]).token = snap[c].token
          /\ Claimed(snap[c]).rev = snap[c].rev + 1 /\ Claimed(snap[c]).secret = snap[c].secret
      BY <3>1 DEF Claimed, Record, RecordsUpTo
    <3>3. /\ pc' = [pc EXCEPT ![c] = "revoking"]
          /\ store' = [store EXCEPT ![sid[c]] = Claimed(snap[c])]
          /\ snap' = [snap EXCEPT ![c] = Claimed(snap[c])]
          /\ UNCHANGED <<leases, used, issued, sid, next, failed, history>>
      BY <1>14, <2>1 DEF RevokeClaim
    <3>4. Claimed(snap[c]) # NoSession /\ Claimed(snap[c]) \in Draft
      BY <3>1, DraftType, NullIsNoRecord, ConstantsAssumption
    <3>5. UnusedIsFresh'
      BY <1>14, <2>1, <3>1, <3>2, <3>3, <3>4 DEF RevokeClaim, UnusedIsFresh
    <3>6. CreatorIsAlone'
      BY <1>14, <2>1, <3>1, <3>2, <3>3, <3>4 DEF RevokeClaim, CreatorIsAlone, Creating
    <3>7. RevisionIdentifies'
      BY <1>14, <2>1, <3>1, <3>2, <3>3, <3>4
      DEF RevokeClaim, RevisionIdentifies, Holding, Creating, CreatorIsAlone, Record,
          RecordsUpTo, DraftSucceeds, Succeeds
    <3>8. CurrentCredentials'
      BY <1>14, <2>1, <3>1, <3>2, <3>3, <3>4
      DEF RevokeClaim, CurrentCredentials, RevisionIdentifies, Holding, Creating,
          CreatorIsAlone
    <3>9. DraftSucceeds'
      BY <1>14, <2>1, <3>1, <3>2, <3>3, <3>4
      DEF RevokeClaim, DraftSucceeds, Holding, Creating, Record, RecordsUpTo,
          CurrentCredentials
    <3>10. LeasesReferred'
      BY <1>14, <2>1, <3>1, <3>2, <3>3, <3>4
      DEF RevokeClaim, LeasesReferred, LeaseKept, CreatorIsAlone, Creating,
          UnusedIsFresh, RevisionIdentifies, Holding, DraftSucceeds, Succeeds
    <3>11. ClaimIsExclusive'
      BY <1>14, <2>1, <3>1, <3>2, <3>3, <3>4
      DEF RevokeClaim, ClaimIsExclusive, RevokedOnce, Claiming
    <3>12. RevokeRemoves'
      BY <1>14, <2>1, <3>1, <3>2, <3>3, <3>4
      DEF RevokeClaim, RevokeRemoves, RevokeIsFinal
    <3>13. QED
      BY <1>14, <3>5, <3>6, <3>7, <3>8, <3>9, <3>10, <3>11, <3>12, CallType
      DEF SafetyInv, Call
  <2>2. CASE ~CanSet(sid[c], snap[c].rev, Claimed(snap[c]))
    BY <1>14, <2>2, CallType, LosingSafety DEF RevokeClaim, Call
  <2>3. QED
    BY <1>14, <2>1, <2>2 DEF RevokeClaim
<1>15. CASE RevokeAnswered(c)
  <2>1. UnusedIsFresh'
    BY <1>15 DEF RevokeAnswered, UnusedIsFresh, CreatorIsAlone
  <2>2. CreatorIsAlone'
    BY <1>15 DEF RevokeAnswered, CreatorIsAlone, Creating
  <2>3. RevisionIdentifies'
    BY <1>15 DEF RevokeAnswered, RevisionIdentifies, Holding, Creating
  <2>4. CurrentCredentials'
    BY <1>15 DEF RevokeAnswered, CurrentCredentials
  <2>5. DraftSucceeds'
    BY <1>15 DEF RevokeAnswered, DraftSucceeds, Holding, Creating
  <2>6. LeasesReferred'
    BY <1>15 DEF RevokeAnswered, LeasesReferred, LeaseKept
  <2>7. ClaimIsExclusive'
    BY <1>15 DEF RevokeAnswered, ClaimIsExclusive, RevokedOnce, Claiming
  <2>8. RevokeRemoves'
    BY <1>15 DEF RevokeAnswered, RevokeRemoves, RevokeIsFinal
  <2>9. QED
    BY <1>15, <2>1, <2>2, <2>3, <2>4, <2>5, <2>6, <2>7, <2>8, CallType
    DEF SafetyInv, Call
<1>16. CASE RevokeRemove(c)
  <2>1. CASE CanDelete(sid[c], snap[c].rev)
    <3>1. UnusedIsFresh'
      BY <1>16, <2>1 DEF RevokeRemove, EndRevoke, UnusedIsFresh, CreatorIsAlone
    <3>2. CreatorIsAlone'
      BY <1>16, <2>1 DEF RevokeRemove, EndRevoke, CreatorIsAlone, Creating
    <3>3. RevisionIdentifies'
      BY <1>16, <2>1 DEF RevokeRemove, EndRevoke, RevisionIdentifies, Holding, Creating
    <3>4. CurrentCredentials'
      BY <1>16, <2>1 DEF RevokeRemove, EndRevoke, CurrentCredentials
    <3>5. DraftSucceeds'
      BY <1>16, <2>1 DEF RevokeRemove, EndRevoke, DraftSucceeds, Holding, Creating
    <3>6. LeasesReferred'
      BY <1>16, <2>1 DEF RevokeRemove, EndRevoke, LeasesReferred, LeaseKept
    <3>7. ClaimIsExclusive'
      BY <1>16, <2>1
      DEF RevokeRemove, EndRevoke, ClaimIsExclusive, RevokedOnce, Claiming
    <3>8. RevokeRemoves'
      BY <1>16, <2>1
      DEF RevokeRemove, EndRevoke, RevokeRemoves, RevokeIsFinal, CreatorIsAlone,
          Creating, UnusedIsFresh, LeasesReferred
    <3>9. QED
      BY <1>16, <3>1, <3>2, <3>3, <3>4, <3>5, <3>6, <3>7, <3>8, CallType
      DEF SafetyInv, Call
  <2>2. CASE ~CanDelete(sid[c], snap[c].rev)
    <3>1. UnusedIsFresh'
      BY <1>16, <2>2 DEF RevokeRemove, EndRevoke, Collected, UnusedIsFresh
    <3>2. CreatorIsAlone'
      BY <1>16, <2>2 DEF RevokeRemove, EndRevoke, Collected, CreatorIsAlone, Creating
    <3>3. RevisionIdentifies'
      BY <1>16, <2>2
      DEF RevokeRemove, EndRevoke, Collected, RevisionIdentifies, Holding, Creating
    <3>4. CurrentCredentials'
      BY <1>16, <2>2 DEF RevokeRemove, EndRevoke, Collected, CurrentCredentials
    <3>5. DraftSucceeds'
      BY <1>16, <2>2
      DEF RevokeRemove, EndRevoke, Collected, DraftSucceeds, Holding, Creating
    <3>6. LeasesReferred'
      BY <1>16, <2>2 DEF RevokeRemove, EndRevoke, Collected, LeasesReferred, LeaseKept
    <3>7. ClaimIsExclusive'
      BY <1>16, <2>2
      DEF RevokeRemove, EndRevoke, Collected, ClaimIsExclusive, RevokedOnce, Claiming
    <3>8. RevokeRemoves'
      BY <1>16, <2>2
      DEF RevokeRemove, EndRevoke, Collected, RevokeRemoves, RevokeIsFinal
    <3>9. QED
      BY <1>16, <3>1, <3>2, <3>3, <3>4, <3>5, <3>6, <3>7, <3>8, CallType
      DEF SafetyInv, Call
  <2>3. QED
    BY <1>16, <2>1, <2>2 DEF RevokeRemove, EndRevoke
<1>17. CASE RevokeRelease(c)
  <2>1. UnusedIsFresh'
    BY <1>17 DEF RevokeRelease, EndRevoke, UnusedIsFresh, CreatorIsAlone
  <2>2. CreatorIsAlone'
    BY <1>17 DEF RevokeRelease, EndRevoke, CreatorIsAlone, Creating
  <2>3. RevisionIdentifies'
    BY <1>17 DEF RevokeRelease, EndRevoke, RevisionIdentifies, Holding, Creating
  <2>4. CurrentCredentials'
    BY <1>17 DEF RevokeRelease, EndRevoke, CurrentCredentials
  <2>5. DraftSucceeds'
    BY <1>17 DEF RevokeRelease, EndRevoke, DraftSucceeds, Holding, Creating
  <2>6. LeasesReferred'
    BY <1>17
    DEF RevokeRelease, EndRevoke, LeasesReferred, LeaseKept, CreatorIsAlone, Creating,
        UnusedIsFresh, RevisionIdentifies, Holding, DraftSucceeds, Succeeds,
        ClaimIsExclusive, Claiming
  <2>7. ClaimIsExclusive'
    BY <1>17 DEF RevokeRelease, EndRevoke, ClaimIsExclusive, RevokedOnce, Claiming
  <2>8. RevokeRemoves'
    BY <1>17 DEF RevokeRelease, EndRevoke, RevokeRemoves, RevokeIsFinal
  <2>9. QED
    BY <1>17, <2>1, <2>2, <2>3, <2>4, <2>5, <2>6, <2>7, <2>8, CallType
    DEF SafetyInv, Call
<1>18. CASE Discard(c)
  <2>1. UnusedIsFresh'
    BY <1>18 DEF Discard, CanDelete, Collected, Active, UnusedIsFresh
  <2>2. CreatorIsAlone'
    BY <1>18 DEF Discard, CanDelete, Collected, Active, CreatorIsAlone, Creating
  <2>3. RevisionIdentifies'
    BY <1>18
    DEF Discard, CanDelete, Collected, Active, RevisionIdentifies, Holding, Creating
  <2>4. CurrentCredentials'
    BY <1>18 DEF Discard, CanDelete, Collected, Active, CurrentCredentials
  <2>5. DraftSucceeds'
    BY <1>18 DEF Discard, CanDelete, Collected, Active, DraftSucceeds, Holding, Creating
  <2>6. LeasesReferred'
    BY <1>18 DEF Discard, CanDelete, Collected, Active, LeasesReferred, LeaseKept
  <2>7. ClaimIsExclusive'
    BY <1>18
    DEF Discard, CanDelete, Collected, Active, ClaimIsExclusive, RevokedOnce, Claiming
  <2>8. RevokeRemoves'
    BY <1>18 DEF Discard, CanDelete, Collected, Active, RevokeRemoves, RevokeIsFinal
  <2>9. QED
    BY <1>18, <2>1, <2>2, <2>3, <2>4, <2>5, <2>6, <2>7, <2>8, CallType
    DEF SafetyInv, Call
<1>19. CASE Crash(c)
  <2>1. UnusedIsFresh'
    BY <1>19 DEF Crash, UnusedIsFresh
  <2>2. CreatorIsAlone'
    BY <1>19 DEF Crash, CreatorIsAlone, Creating
  <2>3. RevisionIdentifies'
    BY <1>19 DEF Crash, RevisionIdentifies, Holding, Creating
  <2>4. CurrentCredentials'
    BY <1>19 DEF Crash, CurrentCredentials
  <2>5. DraftSucceeds'
    BY <1>19 DEF Crash, DraftSucceeds, Holding, Creating
  <2>6. LeasesReferred'
    BY <1>19 DEF Crash, LeasesReferred, LeaseKept
  <2>7. ClaimIsExclusive'
    BY <1>19 DEF Crash, ClaimIsExclusive, RevokedOnce, Claiming
  <2>8. RevokeRemoves'
    BY <1>19 DEF Crash, RevokeRemoves, RevokeIsFinal
  <2>9. QED
    BY <1>19, <2>1, <2>2, <2>3, <2>4, <2>5, <2>6, <2>7, <2>8, CallType
    DEF SafetyInv, Call
<1>20. QED
  BY <1>1, <1>2, <1>3, <1>4, <1>5, <1>6, <1>7, <1>8, <1>9, <1>10, <1>11, <1>12, <1>13, <1>14, <1>15, <1>16, <1>17, <1>18, <1>19 DEF Call

\* The clock and the sweep keep the invariant.
LEMMA EnvironmentSafety ==
  ASSUME SafetyInv, Tick \/ \E s \in Sessions : DropExpired(s)
  PROVE  SafetyInv'
<1>1. TypeInv'
  BY ConstantsAssumption
  DEF SafetyInv, TypeInv, TypeOK, SnapsRead, Tick, DropExpired, callVars, history, Time
<1>2. CASE Tick
  <2>1. UNCHANGED <<store, leases, used, issued, callVars, history>>
    BY <1>2 DEF Tick
  <2>2. QED
    BY <1>1, <2>1
    DEF SafetyInv, callVars, history, UnusedIsFresh, CreatorIsAlone, Creating, Holding,
        Claiming, RevisionIdentifies, CurrentCredentials, DraftSucceeds, LeasesReferred,
        LeaseKept, ClaimIsExclusive, RevokedOnce, RevokeRemoves, RevokeIsFinal
<1>3. ASSUME NEW s \in Sessions, DropExpired(s)
      PROVE  SafetyInv'
  <2>1. /\ store' = [store EXCEPT ![s] = NoSession]
        /\ UNCHANGED <<leases, used, issued, callVars, history>>
    BY <1>3 DEF DropExpired
  <2>2. UnusedIsFresh' /\ CreatorIsAlone'
    BY <2>1
    DEF SafetyInv, TypeInv, TypeOK, callVars, history, UnusedIsFresh, CreatorIsAlone,
        Creating
  <2>3. RevisionIdentifies' /\ CurrentCredentials' /\ DraftSucceeds'
    BY <2>1
    DEF SafetyInv, TypeInv, TypeOK, callVars, history, RevisionIdentifies,
        CurrentCredentials, DraftSucceeds, Holding, Creating
  <2>4. LeasesReferred'
    BY <2>1
    DEF SafetyInv, TypeInv, TypeOK, callVars, history, LeasesReferred, LeaseKept
  <2>5. ClaimIsExclusive' /\ RevokeRemoves'
    BY <2>1
    DEF SafetyInv, TypeInv, TypeOK, callVars, history, ClaimIsExclusive, Claiming,
        RevokedOnce, RevokeRemoves, RevokeIsFinal
  <2>6. QED
    BY <1>1, <2>2, <2>3, <2>4, <2>5 DEF SafetyInv
<1>4. QED
  BY <1>2, <1>3

\* The inductive invariant holds throughout every behaviour.
LEMMA SafetyInvariant == Spec => []SafetyInv
<1>1. Init => SafetyInv
  <2> SUFFICES ASSUME Init PROVE SafetyInv
    OBVIOUS
  <2>1. TypeInv
    BY ConstantsAssumption DEF Init, TypeInv, TypeOK, SnapsRead, Time, Expiry, Steps
  <2>2. UnusedIsFresh /\ CreatorIsAlone /\ RevisionIdentifies /\ CurrentCredentials
    BY DEF Init, UnusedIsFresh, CreatorIsAlone, RevisionIdentifies, CurrentCredentials,
           Creating, Holding
  <2>3. DraftSucceeds /\ LeasesReferred /\ ClaimIsExclusive /\ RevokeRemoves
    BY DEF Init, DraftSucceeds, LeasesReferred, LeaseKept, ClaimIsExclusive, RevokedOnce,
           Claiming, RevokeRemoves, RevokeIsFinal, Holding, Creating
  <2>4. QED
    BY <2>1, <2>2, <2>3 DEF SafetyInv
<1>2. SafetyInv /\ [Next]_vars => SafetyInv'
  <2> SUFFICES ASSUME SafetyInv, [Next]_vars PROVE SafetyInv'
    OBVIOUS
  <2>1. CASE Next
    BY <2>1, CallSafety, EnvironmentSafety DEF Next
  <2>2. CASE UNCHANGED vars
    BY <2>2
    DEF vars, storeVars, callVars, history, SafetyInv, TypeInv, TypeOK, SnapsRead,
        UnusedIsFresh, CreatorIsAlone, Creating, Holding, Claiming, RevisionIdentifies,
        CurrentCredentials, DraftSucceeds, LeasesReferred, LeaseKept, ClaimIsExclusive,
        RevokedOnce, RevokeRemoves, RevokeIsFinal
  <2>3. QED
    BY <2>1, <2>2
<1>3. QED
  BY <1>1, <1>2, PTL DEF Spec

(***************************************************************************)
(* The properties                                                          *)
(***************************************************************************)

\* compareAndSet on the revision is a compare-and-set on the whole record.
THEOREM RevisionIdentifiesRecord == Spec => []RevisionIdentifies
<1>1. SafetyInv => RevisionIdentifies
  BY DEF SafetyInv
<1>2. QED
  BY <1>1, SafetyInvariant, PTL

\* No late answer puts older tokens back into a stored session.
THEOREM CredentialsAreCurrent == Spec => []CurrentCredentials
<1>1. SafetyInv => CurrentCredentials
  BY DEF SafetyInv
<1>2. QED
  BY <1>1, SafetyInvariant, PTL

\* The remote server hears of the revocation of a session at most once.
THEOREM RevocationIsRequestedOnce == Spec => []RevokedOnce
<1>1. SafetyInv => RevokedOnce
  BY DEF SafetyInv, ClaimIsExclusive
<1>2. QED
  BY <1>1, SafetyInvariant, PTL

\* A revokeSession that returned normally left neither record nor secret, for good.
THEOREM SuccessfulRevokeIsFinal == Spec => []RevokeIsFinal
<1>1. SafetyInv => RevokeIsFinal
  BY DEF SafetyInv, RevokeRemoves
<1>2. QED
  BY <1>1, SafetyInvariant, PTL

\* A stored session that nobody has claimed keeps the lease on its client secret.
THEOREM LeaseIsKept == Spec => []LeaseKept
<1>1. SafetyInv => LeaseKept
  BY DEF SafetyInv, LeasesReferred
<1>2. QED
  BY <1>1, SafetyInvariant, PTL

\* Every step deletes a stored record, leaves it alone or replaces it by a
\* successor, and never brings a deleted record back.
THEOREM RecordsAreSteady == Spec => SteadyRecords
<1>1. SafetyInv /\ [Next]_vars => [SteadyStep]_vars
  <2> SUFFICES ASSUME SafetyInv, Next
               PROVE  SteadyStep
    BY DEF vars
  <2> USE DEF SafetyInv, TypeInv, TypeOK, SteadyStep, Collected
  <2>1. CASE UNCHANGED store
    BY <2>1
  <2>2. ASSUME NEW c \in Callers, CreateSession(c)
        PROVE  SteadyStep
    BY <2>2 DEF CreateSession, CreatorIsAlone, Creating, SnapsRead
  <2>3. ASSUME NEW c \in Callers, Persist(c)
        PROVE  SteadyStep
    <3>1. CASE CanSet(sid[c], snap[c].rev, next[c])
      <4>1. /\ store[sid[c]] = snap[c]
            /\ Succeeds(snap[c], next[c])
            /\ store' = [store EXCEPT ![sid[c]] = next[c]]
            /\ store[sid[c]] # NoSession
        BY <2>3, <3>1
        DEF Persist, CanSet, Active, RevisionIdentifies, Holding, Creating, DraftSucceeds
      <4>2. QED
        BY <4>1
    <3>2. CASE ~CanSet(sid[c], snap[c].rev, next[c])
      BY <2>3, <3>2 DEF Persist
    <3>3. QED
      BY <3>1, <3>2
  <2>4. ASSUME NEW c \in Callers, RevokeClaim(c)
        PROVE  SteadyStep
    <3>1. CASE CanSet(sid[c], snap[c].rev, Claimed(snap[c]))
      <4>1. /\ store[sid[c]] = snap[c]
            /\ store' = [store EXCEPT ![sid[c]] = Claimed(snap[c])]
            /\ store[sid[c]] # NoSession /\ snap[c] \in Record
            /\ ~snap[c].claimed
        BY <2>4, <3>1
        DEF RevokeClaim, CanSet, Active, RevisionIdentifies, Holding, Creating,
            DraftSucceeds
      <4>2. Succeeds(snap[c], Claimed(snap[c]))
        BY <4>1 DEF Claimed, Succeeds, Record, RecordsUpTo, Expiry
      <4>3. QED
        BY <4>1, <4>2
    <3>2. CASE ~CanSet(sid[c], snap[c].rev, Claimed(snap[c]))
      BY <2>4, <3>2 DEF RevokeClaim
    <3>3. QED
      BY <3>1, <3>2
  <2>5. ASSUME NEW c \in Callers, RevokeRemove(c) \/ Discard(c)
        PROVE  SteadyStep
    BY <2>5 DEF RevokeRemove, Discard
  <2>6. ASSUME NEW s \in Sessions, DropExpired(s)
        PROVE  SteadyStep
    BY <2>6 DEF DropExpired
  <2>7. ASSUME NEW c \in Callers, Call(c)
        PROVE  SteadyStep
    <3>1. CASE \E s \in Sessions :
                 \/ \E secret \in BOOLEAN, e \in TokenExpiries : Answered(c, s, secret, e)
                 \/ \E step \in Steps : Resolve(c, s, step)
                 \/ \E b \in Time : StartBind(c, s, b)
      BY <2>1, <3>1 DEF Answered, Resolve, StartBind, storeVars
    <3>2. CASE \/ CreateLease(c) \/ DeleteLease(c) \/ VerifyAnswered(c)
               \/ \E e \in TokenExpiries : RefreshAnswered(c, e)
               \/ RemoteFails(c) \/ RevokeAnswered(c) \/ RevokeRelease(c) \/ Crash(c)
      BY <2>1, <3>2
      DEF CreateLease, DeleteLease, VerifyAnswered, RefreshAnswered, RemoteFails,
          RevokeAnswered, RevokeRelease, Crash, storeVars
    <3>3. QED
      BY <2>2, <2>3, <2>4, <2>5, <2>7, <3>1, <3>2
      DEF Call, StartVerify, StartRefresh, StartRevoke, StartDiscard, Steps
  <2>8. QED
    BY <2>1, <2>6, <2>7 DEF Next, Tick
<1>2. QED
  BY <1>1, SafetyInvariant, PTL DEF Spec, SteadyRecords
=============================================================================
