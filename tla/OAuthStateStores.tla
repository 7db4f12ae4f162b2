-------------------------- MODULE OAuthStateStores --------------------------
(***************************************************************************)
(* The three OAuth state stores, for one state: the one in memory of the   *)
(* server package, whose operations run under a mutex; the PostgreSQL one, *)
(* whose claim is a transaction that locks the row and whose other         *)
(* operations are single statements; and the Redis one, whose operations   *)
(* read the key, decide in the process and write with a script that        *)
(* compares what it overwrites. `backend` says which runs.                 *)
(*                                                                         *)
(* The times read in an operation are those of the process when it reads   *)
(* them, so a write may act on a time that has passed. All processes and   *)
(* the Redis server are taken to share one clock. The state is a random    *)
(* hash: it is created at most once.                                       *)
(***************************************************************************)
EXTENDS StoreBackend

CONSTANTS
  Callers,      \* OAuth callbacks, each with a call of the store under way
  NoCaller,
  ExpiresAt,    \* expiresAt of the state
  LeaseTime,    \* the 30 seconds of a callback's claim
  MaxRevision   \* Number.MAX_SAFE_INTEGER

ASSUME StoresAssumption ==
  /\ ExpiresAt \in Nat /\ LeaseTime \in Nat \ {0}
  /\ MaxRevision \in Nat /\ EndOfTime \in Nat
  /\ NoCaller \notin Callers

VARIABLES
  row,       \* the record: revision, token and lease of its claim (0: none), consumed_at
  deadline,  \* Redis: when the key expires
  locker,    \* PostgreSQL: the caller whose transaction has locked the row
  creator, creatorNow,
  call,      \* the callers: where they stand, the call they make and what they hold
  grants, consumed, released  \* histories, as in OneShotState

histories == <<grants, consumed, released>>
vars == <<backend, clock, row, deadline, locker, creator, creatorNow, call, histories>>

Absent == [revision |-> -1, token |-> 0, lease |-> 0, used |-> FALSE]
Fresh  == [revision |-> 0, token |-> 0, lease |-> 0, used |-> FALSE]
Rows   == [revision : -1..MaxRevision, token : Nat, lease : 0..ExpiresAt, used : BOOLEAN]

\* until: the leaseUntil asked for; now: the process's reading of the clock; raw: the record
\* as it was read; claim: the record as the claim left it.
Calls == [at : {"idle", "called", "read", "writing", "holding", "failed"},
          op : {"claim", "release", "consume"},
          until : Nat, now : 0..EndOfTime, raw : Rows, claim : Rows]
Left(step, k) == [at |-> step, op |-> "claim", until |-> 0, now |-> 0, raw |-> Absent, claim |-> k]
Idle == Left("idle", Absent)

TypeOK ==
  /\ backend \in {"memory", "postgres", "redis"}
  /\ clock \in 0..EndOfTime
  /\ row \in Rows
  /\ deadline \in Nat
  /\ locker \in Callers \cup {NoCaller}
  /\ creator \in {"new", "writing", "done"}
  /\ creatorNow \in 0..EndOfTime
  /\ call \in [Callers -> Calls]
  /\ grants \in Nat
  /\ consumed \subseteq Nat /\ released \subseteq Nat

Init ==
  /\ backend \in {"memory", "postgres", "redis"}
  /\ clock = 0
  /\ row = Absent
  /\ deadline = 0
  /\ locker = NoCaller
  /\ creator = "new" /\ creatorNow = 0
  /\ call = [c \in Callers |-> Idle]
  /\ grants = 0 /\ consumed = {} /\ released = {}

Tick ==
  /\ clock < EndOfTime
  /\ clock' = clock + 1
  /\ UNCHANGED <<backend, row, deadline, locker, creator, creatorNow, call, histories>>

-----------------------------------------------------------------------------
(* Creation *)

\* The mutex is held from the reading of the clock to the write.
CreateInMemory ==
  /\ backend = "memory" /\ creator = "new"
  /\ clock < ExpiresAt
  /\ creator' = "done" /\ row' = Fresh
  /\ UNCHANGED <<backend, clock, deadline, locker, creatorNow, call, histories>>

CreateReadsClock ==
  /\ backend # "memory" /\ creator = "new"
  /\ clock < ExpiresAt
  /\ creator' = "writing" /\ creatorNow' = clock
  /\ UNCHANGED <<backend, clock, row, deadline, locker, call, histories>>

\* Redis counts the time to live from when it receives the key.
CreateWrites ==
  /\ creator = "writing"
  /\ creator' = "done" /\ row' = Fresh
  /\ deadline' = IF backend = "redis" THEN clock + (ExpiresAt - creatorNow) ELSE deadline
  /\ UNCHANGED <<backend, clock, locker, creatorNow, call, histories>>

-----------------------------------------------------------------------------
(* The callers *)

\* A callback asks for a lease of LeaseTime from its own reading of the clock.
AskClaim(c) ==
  /\ call[c].at = "idle"
  /\ call' = [call EXCEPT ![c].at = "called", ![c].until = clock + LeaseTime]
  /\ UNCHANGED <<backend, clock, row, deadline, locker, creator, creatorNow, histories>>

\* A release that failed is followed by a consumption with the same claim.
AskEnd(c) ==
  /\ \E o \in {"release", "consume"} :
       /\ \/ call[c].at = "holding"
          \/ call[c].at = "failed" /\ o = "consume"
       /\ call' = [call EXCEPT ![c].at = "called", ![c].op = o]
  /\ UNCHANGED <<backend, clock, row, deadline, locker, creator, creatorNow, histories>>

Forgets(c) == call' = [call EXCEPT ![c] = Idle]

\* An error of the store reaches the caller of release, which keeps its claim.
Fails(c) == call' = [call EXCEPT ![c] = Left("failed", call[c].claim)]

\* The store answers null or false.
Refused(c) == Forgets(c) /\ UNCHANGED <<histories, deadline>>

\* The revision is not checked.
GrantableAtTheLastRevision(r, u, n) ==
  /\ r # Absent /\ ~r.used
  /\ n < ExpiresAt
  /\ n < u /\ u <= ExpiresAt
  /\ r.lease <= n

Grantable(r, u, n) ==
  /\ r # Absent /\ ~r.used
  /\ n < ExpiresAt
  /\ n < u /\ u <= ExpiresAt
  /\ r.lease <= n
  /\ r.revision < MaxRevision

\* What the record is compared with is the claim, that is, the record the claim left.
Matches(r, k) == r = k

Endable(r, k, o, n) ==
  /\ Matches(r, k)
  /\ n < r.lease /\ n < ExpiresAt
  /\ o = "release" => r.revision < MaxRevision

Can(c, r, n) ==
  IF call[c].op = "claim"
  THEN Grantable(r, call[c].until, n)
  ELSE Endable(r, call[c].claim, call[c].op, n)

Claimed(r, u) == [revision |-> r.revision + 1, token |-> grants + 1, lease |-> u, used |-> r.used]
Freed(r)      == [revision |-> r.revision + 1, token |-> 0, lease |-> 0, used |-> r.used]

\* PostgreSQL keeps the row of a consumed state until it has expired.
Used(r) ==
  IF backend = "postgres"
  THEN [revision |-> r.revision, token |-> 0, lease |-> 0, used |-> TRUE]
  ELSE Absent

\* The key keeps its time to live, or gets what the process has reckoned if that is less.
KeptTtl(n) ==
  IF backend # "redis" THEN deadline
  ELSE IF ExpiresAt - n < deadline - clock THEN clock + (ExpiresAt - n) ELSE deadline

\* The call takes effect on the record; the answer to a release may be lost on its way.
Applied(c) ==
  \/ /\ call[c].op = "claim"
     /\ row' = Claimed(row, call[c].until)
     /\ call' = [call EXCEPT ![c] = Left("holding", row')]
     /\ deadline' = KeptTtl(call[c].now)
     /\ grants' = grants + 1
     /\ UNCHANGED <<consumed, released>>
  \/ /\ call[c].op = "release"
     /\ row' = Freed(row)
     /\ \/ Forgets(c)
        \/ backend # "memory" /\ Fails(c)
     /\ deadline' = KeptTtl(call[c].now)
     /\ released' = released \cup {call[c].claim.token}
     /\ UNCHANGED <<grants, consumed>>
  \/ /\ call[c].op = "consume"
     /\ row' = Used(row)
     /\ Forgets(c)
     /\ consumed' = consumed \cup {call[c].claim.token}
     /\ UNCHANGED <<deadline, grants, released>>

-----------------------------------------------------------------------------
(* In memory: a call is one step, under the mutex *)

Expired(r) == r # Absent /\ ExpiresAt <= clock

RunsInMemory(c) ==
  /\ backend = "memory" /\ call[c].at = "called"
  /\ \/ Expired(row) /\ row' = Absent /\ Refused(c)
     \/ ~Expired(row) /\ ~Can(c, row, clock) /\ Refused(c) /\ UNCHANGED row
     \/ ~Expired(row) /\ Can(c, row, clock) /\ Applied(c)
  /\ UNCHANGED <<backend, clock, locker, creator, creatorNow>>

-----------------------------------------------------------------------------
(* PostgreSQL *)

\* A claim goes on to lock the row, the other operations are one statement. What the
\* code checks here of the claim and the lease is asked again by the statement.
ReadsClock(c) ==
  /\ backend = "postgres" /\ call[c].at = "called"
  /\ call' = [call EXCEPT ![c].now = clock,
                          ![c].at = IF call[c].op = "claim" THEN "read" ELSE "writing"]
  /\ UNCHANGED <<backend, clock, row, deadline, locker, creator, creatorNow, histories>>

\* select ... for update skip locked
LocksRow(c) ==
  /\ backend = "postgres" /\ call[c].at = "read"
  /\ IF locker = NoCaller /\ Can(c, row, call[c].now)
     THEN /\ locker' = c
          /\ call' = [call EXCEPT ![c].at = "writing", ![c].raw = row]
          /\ UNCHANGED <<histories, deadline>>
     ELSE Refused(c) /\ UNCHANGED locker
  /\ UNCHANGED <<backend, clock, row, creator, creatorNow>>

\* The update of the locked row, and the commit.
Commits(c) ==
  /\ backend = "postgres" /\ call[c].at = "writing" /\ call[c].op = "claim"
  /\ locker' = NoCaller
  /\ IF row.revision = call[c].raw.revision /\ ~row.used
     THEN Applied(c)
     ELSE Refused(c) /\ UNCHANGED row
  /\ UNCHANGED <<backend, clock, creator, creatorNow>>

\* An update waits for the transaction that has locked the row.
Updates(c) ==
  /\ backend = "postgres" /\ call[c].at = "writing" /\ call[c].op # "claim"
  /\ locker = NoCaller
  /\ IF Can(c, row, call[c].now)
     THEN Applied(c)
     ELSE Refused(c) /\ UNCHANGED row
  /\ UNCHANGED <<backend, clock, locker, creator, creatorNow>>

-----------------------------------------------------------------------------
(* Redis *)

Gets(c) ==
  /\ backend = "redis" /\ call[c].at = "called"
  /\ IF row = Absent
     THEN Refused(c)
     ELSE /\ call' = [call EXCEPT ![c].at = "read", ![c].raw = row]
          /\ UNCHANGED <<histories, deadline>>
  /\ UNCHANGED <<backend, clock, row, locker, creator, creatorNow>>

\* The process reads its clock and decides on what it has read of the key. A key found
\* expired is deleted unless it has changed.
Decides(c) ==
  /\ backend = "redis" /\ call[c].at = "read"
  /\ \/ /\ Expired(call[c].raw)
        /\ row' = IF row = call[c].raw THEN Absent ELSE row
        /\ Refused(c)
     \/ /\ ~Expired(call[c].raw) /\ ~Can(c, call[c].raw, clock)
        /\ Refused(c) /\ UNCHANGED row
     \/ /\ ~Expired(call[c].raw) /\ Can(c, call[c].raw, clock)
        /\ call' = [call EXCEPT ![c].at = "writing", ![c].now = clock]
        /\ UNCHANGED <<histories, deadline, row>>
  /\ UNCHANGED <<backend, clock, locker, creator, creatorNow>>

\* The script compares nothing: any key is overwritten.
UnchangedOrNot(c) == row # Absent /\ (call[c].op = "consume" \/ clock < deadline)

\* compareAndSet: only what was read is overwritten, and only while the key lives.
Unchanged(c) == row = call[c].raw /\ (call[c].op = "consume" \/ clock < deadline)

Evals(c) ==
  /\ backend = "redis" /\ call[c].at = "writing"
  /\ IF Unchanged(c)
     THEN Applied(c)
     ELSE Refused(c) /\ UNCHANGED row
  /\ UNCHANGED <<backend, clock, locker, creator, creatorNow>>

KeyExpires ==
  /\ backend = "redis" /\ row # Absent
  /\ deadline <= clock
  /\ row' = Absent
  /\ UNCHANGED <<backend, clock, deadline, locker, creator, creatorNow, call, histories>>

-----------------------------------------------------------------------------

\* deleteExpired. A row that has expired stays so, so when its clock was read does not
\* matter; a row a transaction has locked is skipped.
DeleteExpired ==
  /\ Expired(row) /\ locker = NoCaller
  /\ row' = Absent
  /\ UNCHANGED <<backend, clock, deadline, locker, creator, creatorNow, call, histories>>

\* The call ends with an error before it took effect; PostgreSQL rolls back.
CallFails(c) ==
  /\ backend # "memory" /\ call[c].at \in {"called", "read", "writing"}
  /\ IF call[c].op = "release" THEN Fails(c) ELSE Forgets(c)
  /\ locker' = IF locker = c THEN NoCaller ELSE locker
  /\ UNCHANGED <<backend, clock, row, deadline, creator, creatorNow, histories>>

\* A process ends, and its connection with it; the database outlives it.
Crash(c) ==
  /\ backend # "memory" /\ call[c].at # "idle"
  /\ Forgets(c)
  /\ locker' = IF locker = c THEN NoCaller ELSE locker
  /\ UNCHANGED <<backend, clock, row, deadline, creator, creatorNow, histories>>

Next ==
  \/ Tick \/ CreateInMemory \/ CreateReadsClock \/ CreateWrites \/ KeyExpires \/ DeleteExpired
  \/ \E c \in Callers :
       \/ AskClaim(c) \/ AskEnd(c) \/ RunsInMemory(c)
       \/ ReadsClock(c) \/ LocksRow(c) \/ Commits(c) \/ Updates(c)
       \/ Gets(c) \/ Decides(c) \/ Evals(c)
       \/ CallFails(c) \/ Crash(c)

Spec == Init /\ [][Next]_vars

-----------------------------------------------------------------------------

Status ==
  CASE consumed # {}      -> "consumed"
    [] consumed = {} /\ creator # "done" -> "none"
    [] consumed = {} /\ creator = "done" /\ row = Absent   -> "expired"
    [] consumed = {} /\ creator = "done" /\ row # Absent /\ row.token = 0 -> "free"
    [] OTHER -> "held"

OneShot == INSTANCE OneShotState WITH status <- Status, lease <- row.lease

\* Whatever the backend, its interleavings, lost answers and crashes, the store behaves as
\* one state that is held by one claim at a time, that only its latest claim can give
\* back or consume, and that is not granted again once it is consumed. This is what
\* claim, release and consume of the three stores are for.
OneShotPromise == OneShot!Spec
=============================================================================
