---------------------------- MODULE AuthSessions ----------------------------
(***************************************************************************)
(* The authentication sessions of the core package: the records that hold  *)
(* the remote tokens, the compare-and-set store they live in, the leases   *)
(* on OAuth client secrets, and the calls of DefaultAuthService and of the *)
(* browser routes that read a record, wait for a remote server and write   *)
(* the record back.                                                        *)
(*                                                                         *)
(* Every store call is one step: the stores run their operations in a      *)
(* critical section (#runExclusive, a SQL statement, a Redis script).      *)
(* Every await between two store calls is a point where the other callers  *)
(* run, where time passes and where the calling process may die.           *)
(***************************************************************************)
EXTENDS Integers, FiniteSets

CONSTANTS
  Callers,      \* concurrent calls of the service
  Sessions,     \* the identifiers createUuid hands out
  NoSession,    \* "null": nothing is stored, or nothing has been read
  MaxRevision,  \* Number.MAX_SAFE_INTEGER
  TokenLife,    \* lifetime of an access token that expires
  LeaseLife,    \* defaultCredentialLeaseLifetimeMs
  Never,        \* Number.POSITIVE_INFINITY, for an absent expiry
  MaxTime,      \* bound: the clock stops here
  MaxTokens     \* bound: token sets the remote server issues for a session

ASSUME ConstantsAssumption ==
  /\ MaxRevision \in Nat \ {0}
  /\ TokenLife \in Nat \ {0}
  /\ LeaseLife \in Nat \ {0}
  /\ MaxTime \in Nat
  /\ MaxTokens \in Nat
  /\ Never \in Nat
  /\ Never > MaxTime
  /\ NoSession \notin
       [rev : 0..(MaxRevision + 1), token : 0..MaxTokens, expiresAt : Nat,
        storageExpiresAt : Nat, claimed : BOOLEAN, secret : BOOLEAN]

VARIABLES
  store,    \* AuthSessionStore: session id -> record or NoSession
  leases,   \* CredentialLeaseStore: session id -> expiry of its lease, 0 if none
  now,      \* the clock
  used,     \* identifiers that have been handed out
  issued,   \* the remote server: how many token sets it issued for a session
  pc,       \* where each call stands: the await it is suspended at
  sid,      \* the session the call works on
  snap,     \* the record the call has read
  next,     \* the record the call is about to write
  failed,   \* the call has an error to throw at its end
  newest,   \* history: token set of the last refresh that returned normally
  calls,    \* history: remote revocations requested for a session
  revoked,  \* history: sessions whose revokeSession returned normally
  ended     \* history: sessions whose revokeSession ran to its end

storeVars == <<store, leases, now, used, issued>>
callVars  == <<pc, sid, snap, next, failed>>
history   == <<newest, calls, revoked, ended>>
vars      == <<storeVars, callVars, history>>

Time == 0..MaxTime
Expiry == Nat

\* StoredAuthSession. A token set is the number of the remote answer it came
\* from; `secret` says that the metadata refers to a credential lease.
RecordsUpTo(maxRevision) ==
  [rev : 0..maxRevision, token : 0..MaxTokens,
   expiresAt : Expiry, storageExpiresAt : Expiry,
   claimed : BOOLEAN, secret : BOOLEAN]

Record == RecordsUpTo(MaxRevision)

\* A record about to be written: compareAndSet is still to check its revision.
Draft == RecordsUpTo(MaxRevision + 1)

Steps ==
  {"idle", "lease", "create", "unlease",      \* exchange, import, verify, finish
   "verifying", "refreshing", "persist",      \* verifySession, refreshSession
   "claim", "revoking", "remove", "release",  \* revokeSession
   "discard"}                                 \* deleteUnattachedAuthSession

\* Every variable has its type. The one conjunct with content is the bound on a
\* stored revision, which service and store both guard (isValidSessionRevision).
TypeOK ==
  /\ store \in [Sessions -> Record \cup {NoSession}]
  /\ leases \in [Sessions -> Expiry]
  /\ now \in Time
  /\ used \subseteq Sessions
  /\ issued \in [Sessions -> 0..MaxTokens]
  /\ pc \in [Callers -> Steps]
  /\ sid \in [Callers -> Sessions]
  /\ snap \in [Callers -> Record \cup {NoSession}]
  /\ next \in [Callers -> Draft \cup {NoSession}]
  /\ failed \in [Callers -> BOOLEAN]
  /\ newest \in [Sessions -> 0..MaxTokens]
  /\ calls \in [Sessions -> Nat]
  /\ revoked \subseteq Sessions
  /\ ended \subseteq Sessions

Init ==
  /\ store = [s \in Sessions |-> NoSession]
  /\ leases = [s \in Sessions |-> 0]
  /\ now = 0
  /\ used = {}
  /\ issued = [s \in Sessions |-> 0]
  /\ pc = [c \in Callers |-> "idle"]
  /\ sid \in [Callers -> Sessions]
  /\ snap = [c \in Callers |-> NoSession]
  /\ next = [c \in Callers |-> NoSession]
  /\ failed = [c \in Callers |-> FALSE]
  /\ newest = [s \in Sessions |-> 0]
  /\ calls = [s \in Sessions |-> 0]
  /\ revoked = {}
  /\ ended = {}

-----------------------------------------------------------------------------
(* Reading clocks and records *)

\* isExpired: the access token is of no further use.
IsExpired(r) == r.expiresAt <= now

\* isStorageExpired: the whole record is to be treated as absent.
IsStorageExpired(r) == r.storageExpiresAt <= now

\* What #getActive finds: an expired record is as good as none.
Active(s) == store[s] # NoSession /\ ~IsStorageExpired(store[s])

\* A store operation that meets an expired record deletes it.
Collected(s) ==
  IF Active(s) THEN store ELSE [store EXCEPT ![s] = NoSession]

IsValidRevision(n) == n \in 0..MaxRevision

\* #assertRevisionCanAdvance
CanAdvance(r) == IsValidRevision(r.rev + 1)

CanSetAnyRevision(s, rev, r) ==
  /\ Active(s)
  /\ IsValidRevision(r.rev)
  /\ r.rev = rev + 1

CanSetAnyNumber(s, rev, r) ==
  /\ Active(s)
  /\ store[s].rev = rev
  /\ r.rev = rev + 1

\* compareAndSet succeeds
CanSet(s, rev, r) ==
  /\ Active(s)
  /\ store[s].rev = rev
  /\ IsValidRevision(r.rev)
  /\ r.rev = rev + 1

\* compareAndDelete succeeds
CanDelete(s, rev) == Active(s) /\ store[s].rev = rev

\* resolve() of a credential lease returns the secret.
LeaseLive(s) == leases[s] > now

\* credentialLeaseExpiration
CredentialLeaseExpiration(r) ==
  IF r.storageExpiresAt # Never THEN r.storageExpiresAt
  ELSE IF r.expiresAt # Never THEN r.expiresAt
  ELSE now + LeaseLife

\* The expiry the remote server states for a new token set, if it states one.
\* Bound: one that lies beyond the end of the clock is as good as none.
TokenExpiries == {Never} \cup {t \in Time : t = now + TokenLife}

-----------------------------------------------------------------------------
(* A call leaves its await and stands at another, or ends *)

Goto(c, step) == pc' = [pc EXCEPT ![c] = step]

Finish(c) ==
  /\ Goto(c, "idle")
  /\ snap' = [snap EXCEPT ![c] = NoSession]
  /\ next' = [next EXCEPT ![c] = NoSession]
  /\ failed' = [failed EXCEPT ![c] = FALSE]
  /\ UNCHANGED sid

-----------------------------------------------------------------------------
(* #exchangeOAuth, #importToken, #verifyEmailChallenge, #finishPasskey *)

\* The remote server has answered with a token set; the new session gets an
\* identifier of its own. A confidential OAuth client has a secret to retain.
Answered(c, s, secret, expiresAt) ==
  /\ pc[c] = "idle"
  /\ s \notin used
  /\ used' = used \cup {s}
  /\ sid' = [sid EXCEPT ![c] = s]
  /\ snap' = [snap EXCEPT ![c] =
       [rev |-> 0, token |-> 0, expiresAt |-> expiresAt,
        storageExpiresAt |-> Never, claimed |-> FALSE, secret |-> secret]]
  /\ Goto(c, IF secret THEN "lease" ELSE "create")
  /\ UNCHANGED <<store, leases, now, issued, next, failed, history>>

\* A lease that could not be retained is not noticed.
CreateLeaseUnchecked(c) ==
  /\ pc[c] = "lease"
  /\ LET expiry == CredentialLeaseExpiration(snap[c])
     IN  leases' = IF expiry > now THEN [leases EXCEPT ![sid[c]] = expiry] ELSE leases
  /\ Goto(c, "create")
  /\ UNCHANGED <<store, now, used, issued, sid, snap, next, failed, history>>

\* The lease is created before the session that refers to it. The lease store
\* refuses one that has already expired; a shared store may also fail.
CreateLease(c) ==
  /\ pc[c] = "lease"
  /\ UNCHANGED <<store, now, used, issued, history>>
  /\ \/ LET expiry == CredentialLeaseExpiration(snap[c])
        IN  /\ expiry > now
            /\ leases' = [leases EXCEPT ![sid[c]] = expiry]
            /\ Goto(c, "create")
            /\ UNCHANGED <<sid, snap, next, failed>>
     \/ Finish(c) /\ UNCHANGED leases

\* #createSession: the record is stored, or the store fails and the lease goes.
CreateSession(c) ==
  /\ pc[c] = "create"
  /\ UNCHANGED <<leases, now, used, issued, history>>
  /\ \/ /\ store[sid[c]] = NoSession
        /\ store' = [store EXCEPT ![sid[c]] = snap[c]]
        /\ Finish(c)
     \/ /\ UNCHANGED store
        /\ IF snap[c].secret
           THEN Goto(c, "unlease") /\ UNCHANGED <<sid, snap, next, failed>>
           ELSE Finish(c)

\* The catch block of #exchangeOAuth; the deletion may fail in its turn.
DeleteLease(c) ==
  /\ pc[c] = "unlease"
  /\ leases' \in {[leases EXCEPT ![sid[c]] = 0], leases}
  /\ Finish(c)
  /\ UNCHANGED <<store, now, used, issued, history>>

-----------------------------------------------------------------------------
(* #resolveStoredStrategy and the guards each call puts behind it *)

Resolve(c, s, step) ==
  /\ pc[c] = "idle"
  /\ Active(s)
  /\ sid' = [sid EXCEPT ![c] = s]
  /\ snap' = [snap EXCEPT ![c] = store[s]]
  /\ Goto(c, step)
  /\ UNCHANGED <<storeVars, next, failed, history>>

\* verifySession asks about the expiry only, not about a revocation in progress.
StartVerify(c, s) ==
  /\ Resolve(c, s, "verifying")
  /\ ~IsExpired(store[s])
  /\ CanAdvance(store[s])

StartRefresh(c, s) ==
  /\ Resolve(c, s, "refreshing")
  /\ ~store[s].claimed
  /\ CanAdvance(store[s])

StartRevokeUnclaimed(c, s) ==
  /\ Resolve(c, s, "claim")
  /\ CanAdvance(store[s])

StartRevoke(c, s) ==
  /\ Resolve(c, s, "claim")
  /\ ~store[s].claimed
  /\ CanAdvance(store[s])

\* deleteUnattachedAuthSession of the browser routes
StartDiscard(c, s) == Resolve(c, s, "discard")

Bound(r, browserExpiresAt) ==
  [r EXCEPT !.rev = @ + 1,
            !.storageExpiresAt = IF @ < browserExpiresAt THEN @ ELSE browserExpiresAt]

\* bindAuthSessionToBrowserLifetime: the session must not outlive the browser
\* session it is attached to. The record is written back without another await.
StartBind(c, s, browserExpiresAt) ==
  /\ pc[c] = "idle"
  /\ Active(s)
  /\ sid' = [sid EXCEPT ![c] = s]
  /\ snap' = [snap EXCEPT ![c] = store[s]]
  /\ next' = [next EXCEPT ![c] = Bound(store[s], browserExpiresAt)]
  /\ Goto(c, "persist")
  /\ UNCHANGED <<storeVars, failed, history>>

\* A read of an expired record, and the sweep of deleteExpired, delete it.
DropExpired(s) ==
  /\ store[s] # NoSession
  /\ IsStorageExpired(store[s])
  /\ store' = [store EXCEPT ![s] = NoSession]
  /\ UNCHANGED <<leases, now, used, issued, callVars, history>>

-----------------------------------------------------------------------------
(* The remote server answers; the answer is written back *)

Verified(r) == [r EXCEPT !.rev = @ + 1]

\* verifySession: the answer names the account, nothing the model tells apart.
VerifyAnswered(c) ==
  /\ pc[c] = "verifying"
  /\ next' = [next EXCEPT ![c] = Verified(snap[c])]
  /\ Goto(c, "persist")
  /\ UNCHANGED <<storeVars, sid, snap, failed, history>>

WithTokenSetUnbound(r, token, expiresAt) ==
  [r EXCEPT !.rev = @ + 1, !.token = token, !.expiresAt = expiresAt,
            !.storageExpiresAt = Never]

\* mergeRefreshTokenSet and sessionWithTokenSet: the old expiry is dropped with
\* the old token, everything else of the record is kept.
WithTokenSet(r, token, expiresAt) ==
  [r EXCEPT !.rev = @ + 1, !.token = token, !.expiresAt = expiresAt]

RefreshAnswered(c, expiresAt) ==
  /\ pc[c] = "refreshing"
  /\ issued[sid[c]] < MaxTokens
  /\ issued' = [issued EXCEPT ![sid[c]] = @ + 1]
  /\ next' = [next EXCEPT ![c] =
       WithTokenSet(snap[c], issued[sid[c]] + 1, expiresAt)]
  /\ Goto(c, "persist")
  /\ UNCHANGED <<store, leases, now, used, sid, snap, failed, history>>

\* The remote server fails, refuses or times out; the call throws.
RemoteFails(c) ==
  /\ pc[c] \in {"verifying", "refreshing"}
  /\ Finish(c)
  /\ UNCHANGED <<storeVars, history>>

\* #persistRevision, and the compareAndSet of the bind: the record is written, or
\* the call ends with CONFLICT. A refresh that is written returns normally.
Persist(c) ==
  /\ pc[c] = "persist"
  /\ IF CanSet(sid[c], snap[c].rev, next[c])
     THEN /\ store' = [store EXCEPT ![sid[c]] = next[c]]
          /\ newest' = IF next[c].token # snap[c].token
                       THEN [newest EXCEPT ![sid[c]] = next[c].token]
                       ELSE newest
     ELSE store' = Collected(sid[c]) /\ UNCHANGED newest
  /\ Finish(c)
  /\ UNCHANGED <<leases, now, used, issued, calls, revoked, ended>>

-----------------------------------------------------------------------------
(* #revokeSession *)

Claimed(r) == [r EXCEPT !.rev = @ + 1, !.claimed = TRUE]

\* The claim is a new revision of the record; whoever loses the race throws.
RevokeClaim(c) ==
  /\ pc[c] = "claim"
  /\ IF CanSet(sid[c], snap[c].rev, Claimed(snap[c]))
     THEN /\ store' = [store EXCEPT ![sid[c]] = Claimed(snap[c])]
          /\ snap' = [snap EXCEPT ![c] = Claimed(snap[c])]
          /\ Goto(c, "revoking")
          /\ UNCHANGED <<sid, next, failed>>
     ELSE store' = Collected(sid[c]) /\ Finish(c)
  /\ UNCHANGED <<leases, now, used, issued, history>>

\* The remote revocation. A strategy without one, or a lease that no longer
\* resolves, makes the call fail before anything is sent. Errors are kept.
RevokeAnswered(c) ==
  /\ pc[c] = "revoking"
  /\ Goto(c, "remove")
  /\ \/ /\ snap[c].secret => LeaseLive(sid[c])
        /\ calls' = [calls EXCEPT ![sid[c]] = @ + 1]
        /\ \E error \in BOOLEAN : failed' = [failed EXCEPT ![c] = error]
     \/ /\ failed' = [failed EXCEPT ![c] = TRUE]
        /\ UNCHANGED calls
  /\ UNCHANGED <<storeVars, sid, snap, next, newest, revoked, ended>>

\* The call ends; it returns normally unless something went wrong on the way.
EndRevoke(c, error) ==
  /\ ended' = ended \cup {sid[c]}
  /\ revoked' = IF error THEN revoked ELSE revoked \cup {sid[c]}
  /\ Finish(c)

RevokeRemoveUnchecked(c) ==
  /\ pc[c] = "remove"
  /\ store' = IF CanDelete(sid[c], snap[c].rev)
              THEN [store EXCEPT ![sid[c]] = NoSession] ELSE Collected(sid[c])
  /\ IF snap[c].secret
     THEN Goto(c, "release") /\ UNCHANGED <<sid, snap, next, failed, revoked, ended>>
     ELSE EndRevoke(c, failed[c])
  /\ UNCHANGED <<leases, now, used, issued, newest, calls>>

\* The claimed record is deleted at the revision of the claim, whatever the
\* remote server said.
RevokeRemove(c) ==
  /\ pc[c] = "remove"
  /\ LET deleted == CanDelete(sid[c], snap[c].rev)
         error == failed[c] \/ ~deleted
     IN  /\ store' = IF deleted THEN [store EXCEPT ![sid[c]] = NoSession]
                                ELSE Collected(sid[c])
         /\ IF snap[c].secret
            THEN /\ failed' = [failed EXCEPT ![c] = error]
                 /\ Goto(c, "release")
                 /\ UNCHANGED <<sid, snap, next, revoked, ended>>
            ELSE EndRevoke(c, error)
  /\ UNCHANGED <<leases, now, used, issued, newest, calls>>

\* The lease goes even when the record could not be deleted.
RevokeRelease(c) ==
  /\ pc[c] = "release"
  /\ \/ leases' = [leases EXCEPT ![sid[c]] = 0] /\ EndRevoke(c, failed[c])
     \/ UNCHANGED leases /\ EndRevoke(c, TRUE)
  /\ UNCHANGED <<store, now, used, issued, newest, calls>>

-----------------------------------------------------------------------------
(* deleteUnattachedAuthSession, crashes and time *)

\* The outcome of compareAndDelete is not looked at.
Discard(c) ==
  /\ pc[c] = "discard"
  /\ store' = IF CanDelete(sid[c], snap[c].rev)
              THEN [store EXCEPT ![sid[c]] = NoSession] ELSE Collected(sid[c])
  /\ Finish(c)
  /\ UNCHANGED <<leases, now, used, issued, history>>

\* The process dies: the call is gone, the shared stores stay as they are.
Crash(c) ==
  /\ pc[c] # "idle"
  /\ Finish(c)
  /\ UNCHANGED <<storeVars, history>>

Tick ==
  /\ now < MaxTime
  /\ now' = now + 1
  /\ UNCHANGED <<store, leases, used, issued, callVars, history>>

-----------------------------------------------------------------------------

Call(c) ==
  \/ \E s \in Sessions :
       \/ \E secret \in BOOLEAN, e \in TokenExpiries : Answered(c, s, secret, e)
       \/ StartVerify(c, s)
       \/ StartRefresh(c, s)
       \/ StartRevoke(c, s)
       \/ StartDiscard(c, s)
       \/ \E b \in Time : b > now /\ StartBind(c, s, b)
  \/ CreateLease(c) \/ CreateSession(c) \/ DeleteLease(c)
  \/ VerifyAnswered(c)
  \/ \E e \in TokenExpiries : RefreshAnswered(c, e)
  \/ RemoteFails(c)
  \/ Persist(c)
  \/ RevokeClaim(c) \/ RevokeAnswered(c) \/ RevokeRemove(c) \/ RevokeRelease(c)
  \/ Discard(c)
  \/ Crash(c)

Next ==
  \/ \E c \in Callers : Call(c)
  \/ \E s \in Sessions : DropExpired(s)
  \/ Tick

Spec == Init /\ [][Next]_vars

-----------------------------------------------------------------------------
(* Properties *)

\* A call that has read a record and not yet written it back. Creating calls
\* hold a record nobody else knows.
Creating(c) == pc[c] \in {"lease", "create", "unlease"}
Holding(c)  == pc[c] # "idle" /\ ~Creating(c)

\* The revision identifies the contents: a call that finds the revision it has
\* read finds the very record it has read, and a stored revision never falls
\* behind one that was read. This is what makes compareAndSet on the revision
\* alone a compare-and-set on the record.
RevisionIdentifies ==
  \A c \in Callers :
    Holding(c) /\ store[sid[c]] # NoSession =>
      /\ snap[c].rev <= store[sid[c]].rev
      /\ snap[c].rev = store[sid[c]].rev => snap[c] = store[sid[c]]

\* A stored session holds the tokens of the last refresh that returned to its
\* caller: neither a late answer to verifySession nor a late refresh, bind or
\* claim puts older tokens back.
CurrentCredentials ==
  \A s \in Sessions : store[s] # NoSession => store[s].token = newest[s]

\* The remote server is asked at most once to revoke the credential of a session,
\* however many calls, crashes and conflicting writers there are.
RevokedOnce == \A s \in Sessions : calls[s] <= 1

\* When revokeSession has returned normally, neither the record nor the client
\* secret is stored, and no call still under way puts either back.
RevokeIsFinal ==
  \A s \in revoked : store[s] = NoSession /\ leases[s] = 0

\* A stored session keeps the lease on its client secret until the lease runs
\* out, unless a revocation has claimed the session.
LeaseKept ==
  \A s \in Sessions :
    store[s] # NoSession /\ store[s].secret /\ ~store[s].claimed => leases[s] # 0

\* What a write may do to a stored record: the revision moves by one, a claim is
\* never taken back and freezes the tokens, the storage lifetime set for a
\* browser session is never extended, the tokens never become older.
Succeeds(r, q) ==
  /\ q.rev = r.rev + 1
  /\ r.claimed => q.claimed /\ q.token = r.token
  /\ q.storageExpiresAt <= r.storageExpiresAt
  /\ q.token >= r.token
  /\ q.secret = r.secret

\* Every step leaves a stored record alone, deletes it or replaces it by a
\* successor; what appears where nothing was stored is a new session, never a
\* deleted one that a late write brings back.
SteadyStep ==
  \A s \in Sessions :
    IF store[s] = NoSession
    THEN store'[s] # NoSession => store'[s].rev = 0 /\ newest[s] = 0
    ELSE store'[s] \in {store[s], NoSession} \/ Succeeds(store[s], store'[s])

SteadyRecords == [][SteadyStep]_vars

\* What docs/en/authentication-and-sessions.md says of revokeSession, that it
\* "then removes local auth state": after the call the session is gone.
RevokeRemovesSession == \A s \in ended : ~Active(s)

\* What docs/en/session-storage.md says of a lease: without storageExpiresAt it
\* lives as long as the default, so that it outlives the access token.
LeaseOutlivesAccessToken ==
  \A s \in Sessions :
    /\ Active(s)
    /\ store[s].secret /\ ~store[s].claimed
    /\ store[s].storageExpiresAt = Never
    /\ now < LeaseLife
    => LeaseLive(s)

=============================================================================
