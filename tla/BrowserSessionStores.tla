------------------------ MODULE BrowserSessionStores ------------------------
(***************************************************************************)
(* The three stores of browser sessions. An admission checks three limits: *)
(* the live sessions of all clients, those of one client, and the sessions *)
(* a client has created within a window. To check them the stores keep     *)
(* books beside the sessions: the one in memory an index of expiries and a *)
(* count for each client, the Redis one a registry of all sessions, one    *)
(* for each client and a hash that names the owner of a session; both the  *)
(* recent creations of each client. PostgreSQL counts rows, and has a row  *)
(* for the window of each client.                                          *)
(*                                                                         *)
(* In memory an operation is one step. The processes of the others read    *)
(* their clock before they send what they have to say to the database,     *)
(* which acts on it later: the time `n` of an operation is any that has    *)
(* passed. A transaction of PostgreSQL has two steps, a script of Redis    *)
(* has one. Keys of Redis go away as time passes.                          *)
(***************************************************************************)
EXTENDS StoreBackend, FiniteSets

CONSTANTS
  Sessions,       \* their identifiers, which a cookie may bring back after a logout
  Subjects,       \* clients
  NoSubject,
  Processes,      \* those that admit a session
  NoProcess,
  Expiries,       \* the times at which sessions expire
  Limits,         \* choices of maximumLiveSessions and maximumLiveSessionsPerSubject
  MaxCreations,   \* maximumCreationsPerWindow
  Window,         \* windowMilliseconds
  Tolerance,      \* the 5 seconds by which a time to live may differ
  LastRevision,   \* Number.MAX_SAFE_INTEGER
  CleanupLimit,   \* of a deletion of expired sessions
  MaxLag          \* bound of the model: how late an operation may act

ASSUME SessionsAssumption ==
  /\ IsFiniteSet(Sessions)
  /\ NoSubject \notin Subjects /\ NoProcess \notin Processes
  /\ EndOfTime \in Nat /\ Expiries \subseteq Nat
  /\ Limits \subseteq [all : Nat \ {0}, subject : Nat \ {0}]
  /\ MaxCreations \in Nat \ {0} /\ Window \in Nat \ {0}
  /\ LastRevision \in Nat

VARIABLES
  limits,     \* those of the server
  expiry,     \* expiresAt of the sessions, which no operation of the server changes
  revision,   \* the sessions stored: their revision, -1 if there is none
  owner,      \* the client that is known to have been admitted with the session
  keyEnds,    \* Redis: when the key of a session expires
  index,      \* memory: keys of the index of expiries; Redis: members of the registry
  counts,     \* memory: live sessions of each client
  members,    \* Redis: the registry of each client
  ownerEnds,  \* Redis: when the hash of owners expires
  rates,      \* recent creations of each client, and when they are forgotten
  lock,       \* PostgreSQL: the process whose transaction has the advisory lock
  admission,  \* PostgreSQL: the transactions of the processes
  by,         \* history: the client a session was admitted for
  created,    \* history: creations of each client in the last window, by their recorded time
  overtaken   \* history: clients with a creation recorded after one that has a later time

bookVars       == <<index, counts, members, ownerEnds>>
sessionVars    == <<limits, expiry, revision, owner, keyEnds, bookVars, rates, by>>
lockVars       == <<lock, admission>>
sessionHistory == <<created, overtaken>>
browserVars    == <<sessionVars, lockVars, sessionHistory>>

Times   == 0..EndOfTime
Nothing == [t \in Times |-> 0]
NoRate  == [made |-> Nothing, ends |-> 0]
NoOwner == [s \in Sessions |-> NoSubject]
Ended   == [at |-> "idle"]
Inserted == [at : {"inserted"}, session : Sessions, subject : Subjects, now : Times]

SessionTypeOK ==
  /\ limits \in Limits
  /\ expiry \in [Sessions -> Expiries]
  /\ revision \in [Sessions -> -1..LastRevision]
  /\ owner \in [Sessions -> Subjects \cup {NoSubject}]
  /\ keyEnds \in [Sessions -> Nat]
  /\ index \subseteq Sessions
  /\ counts \in [Subjects -> Nat]
  /\ members \in [Subjects -> SUBSET Sessions]
  /\ ownerEnds \in Nat
  /\ rates \in [Subjects -> [made : [Times -> Nat], ends : Nat]]
  /\ lock \in Processes \cup {NoProcess}
  /\ admission \in [Processes -> {Ended} \cup Inserted]
  /\ by \in [Sessions -> Subjects \cup {NoSubject}]
  /\ created \in [Subjects -> [Times -> Nat]]
  /\ overtaken \subseteq Subjects

SessionInit ==
  /\ limits \in Limits
  /\ expiry \in [Sessions -> Expiries]
  /\ revision = [s \in Sessions |-> -1]
  /\ owner = NoOwner
  /\ keyEnds = [s \in Sessions |-> 0]
  /\ index = {} /\ counts = [u \in Subjects |-> 0]
  /\ members = [u \in Subjects |-> {}] /\ ownerEnds = 0
  /\ rates = [u \in Subjects |-> NoRate]
  /\ lock = NoProcess
  /\ admission = [p \in Processes |-> Ended]
  /\ by = NoOwner
  /\ created = [u \in Subjects |-> Nothing] /\ overtaken = {}

Stored(s) == revision[s] # -1
Live(s)   == Stored(s) /\ clock < expiry[s]

Total(m)   == Cardinality(UNION {{t} \X (1..m[t]) : t \in Times})
After(m, t) == [u \in Times |-> IF u > t THEN m[u] ELSE 0]
Made(m, t) == [m EXCEPT ![t] = @ + 1]
LastOf(m)  == CHOOSE t \in Times : m[t] > 0 /\ \A u \in Times : m[u] > 0 => u <= t

\* The history of a creation for u, recorded with the time t.
Recorded(u, t) ==
  /\ created' = [created EXCEPT ![u] = After(Made(@, t), clock - Window)]
  /\ overtaken' = IF Total(After(created[u], t)) > 0 THEN overtaken \cup {u} ELSE overtaken

Without(f, R, none) == [s \in Sessions |-> IF s \in R THEN none ELSE f[s]]

-----------------------------------------------------------------------------
(* In memory *)

CountsWithout(R) == [u \in Subjects |-> counts[u] - Cardinality({s \in R : owner[s] = u})]

\* First what has expired is deleted, sessions and windows.
AdmitInMemory(s, u) ==
  LET gone   == {x \in index : expiry[x] <= clock}
      fresh  == [v \in Subjects |-> IF rates[v].ends <= clock THEN NoRate ELSE rates[v]]
      recent == After(fresh[u].made, clock - Window)
      room   == /\ Cardinality({x \in Sessions \ gone : Stored(x)}) < limits.all
                /\ CountsWithout(gone)[u] < limits.subject
      kept   == Without(revision, gone, -1)
      owners == Without(owner, gone, NoSubject)
  IN
  /\ backend = "memory"
  /\ clock < expiry[s] /\ ~Stored(s)
  /\ \/ /\ room /\ Total(recent) < MaxCreations
        /\ revision' = [kept EXCEPT ![s] = 0]
        /\ owner' = [owners EXCEPT ![s] = u]
        /\ index' = (index \ gone) \cup {s}
        /\ counts' = [CountsWithout(gone) EXCEPT ![u] = @ + 1]
        /\ rates' = [fresh EXCEPT ![u] = [made |-> Made(recent, clock), ends |-> clock + Window]]
        /\ by' = [Without(by, gone, NoSubject) EXCEPT ![s] = u]
        /\ Recorded(u, clock)
     \/ /\ ~(room /\ Total(recent) < MaxCreations)
        /\ revision' = kept /\ owner' = owners
        /\ index' = index \ gone /\ counts' = CountsWithout(gone)
        /\ rates' = IF room
                    THEN [fresh EXCEPT ![u] = [made |-> recent, ends |-> LastOf(recent) + Window]]
                    ELSE fresh
        /\ by' = Without(by, gone, NoSubject)
        /\ UNCHANGED sessionHistory
  /\ UNCHANGED <<limits, expiry, keyEnds, members, ownerEnds, lockVars>>

-----------------------------------------------------------------------------
(* PostgreSQL *)

\* Nothing keeps a second transaction from counting.
LockIsIgnored == lock \in Processes \cup {NoProcess}

\* pg_advisory_xact_lock: it is held until the transaction ends.
LockIsFree == lock = NoProcess

InWindow(u, n) == IF rates[u].ends > n THEN rates[u].made ELSE Nothing

\* The statement counts what is committed, by the time the process has read before. An
\* admission that is refused writes nothing.
CountsAndInserts(p, s, u, n) ==
  LET live == {x \in Sessions : Stored(x) /\ expiry[x] > n} IN
  /\ backend = "postgres" /\ n < expiry[s]
  /\ admission[p].at = "idle"
  /\ LockIsFree /\ lock' = p
  /\ ~Stored(s)
  /\ Cardinality(live) < limits.all
  /\ Cardinality({x \in live : owner[x] = u}) < limits.subject
  /\ Total(InWindow(u, n)) < MaxCreations
  /\ admission' = [admission EXCEPT ![p] = [at |-> "inserted", session |-> s, subject |-> u, now |-> n]]
  /\ UNCHANGED <<sessionVars, sessionHistory>>

TransactionEnds(p) ==
  /\ admission' = [admission EXCEPT ![p] = Ended]
  /\ lock' = IF lock = p THEN NoProcess ELSE lock

\* The rows it has written can be seen. A window that has ended makes way for a new one.
CommitAdmission(p) ==
  LET s == admission[p].session
      u == admission[p].subject
      n == admission[p].now
  IN
  /\ admission[p].at = "inserted"
  /\ revision' = [revision EXCEPT ![s] = 0]
  /\ owner' = [owner EXCEPT ![s] = u] /\ by' = [by EXCEPT ![s] = u]
  /\ rates' = [rates EXCEPT ![u] =
       [made |-> Made(InWindow(u, n), n), ends |-> IF @.ends > n THEN @.ends ELSE n + Window]]
  /\ Recorded(u, n)
  /\ TransactionEnds(p)
  /\ UNCHANGED <<limits, expiry, keyEnds, bookVars>>

\* An admission that fails, or whose process ends, is rolled back.
RollBack(p) ==
  /\ admission[p].at = "inserted"
  /\ TransactionEnds(p)
  /\ UNCHANGED <<sessionVars, sessionHistory>>

-----------------------------------------------------------------------------
(* Redis *)

Newest(S) == CHOOSE t \in {expiry[s] : s \in S} : \A s \in S : expiry[s] <= t

\* A sorted set expires with its newest member. The hash of owners expires then, too.
Kept(S, time)   == IF \E s \in S : time < expiry[s] THEN S ELSE {}
OwnersUntil(S)  == IF Kept(S, clock) = {} THEN 0 ELSE Newest(S)
OwnedUntil(f, t) == IF t <= clock THEN NoOwner ELSE f

RateUntil(made, t) == IF t <= clock THEN NoRate ELSE [made |-> made, ends |-> t]

\* The time to live is counted from now on.
SetsKey(s, n) ==
  /\ revision' = [revision EXCEPT ![s] = 0]
  /\ keyEnds' = [keyEnds EXCEPT ![s] = clock + (expiry[s] - n)]

\* First what has expired by the time of the process leaves the registries. The key of the
\* creations expires a window after the newest, or after the one that has been added.
AdmitScript(s, u, n) ==
  LET gone   == {x \in index : expiry[x] <= n}
      all    == index \ gone
      owners == Without(owner, gone, NoSubject)
      each   == [v \in Subjects |-> members[v] \ {x \in gone : owner[x] = v}]
      mine   == {x \in each[u] : expiry[x] > n}
      recent == After(rates[u].made, n - Window)
      room   == Cardinality(all) < limits.all /\ Cardinality(mine) < limits.subject
      until  == OwnersUntil(all \cup {s})
  IN
  /\ backend = "redis" /\ n < expiry[s] /\ ~Stored(s)
  /\ \/ /\ room /\ Total(recent) < MaxCreations
        /\ SetsKey(s, n)
        /\ index' = Kept(all \cup {s}, clock)
        /\ members' = [each EXCEPT ![u] = Kept(mine \cup {s}, clock)]
        /\ ownerEnds' = until /\ owner' = OwnedUntil([owners EXCEPT ![s] = u], until)
        /\ rates' = [rates EXCEPT ![u] = RateUntil(Made(recent, n), n + Window)]
        /\ by' = [by EXCEPT ![s] = u]
        /\ Recorded(u, n)
     \/ /\ ~(room /\ Total(recent) < MaxCreations)
        /\ index' = all /\ members' = [each EXCEPT ![u] = mine]
        /\ IF room
           THEN /\ rates' = [rates EXCEPT ![u] = RateUntil(recent, LastOf(recent) + Window)]
                /\ owner' = owners /\ UNCHANGED ownerEnds
           ELSE /\ ownerEnds' = OwnersUntil(all) /\ owner' = OwnedUntil(owners, ownerEnds')
                /\ UNCHANGED rates
        /\ UNCHANGED <<revision, keyEnds, by, sessionHistory>>
  /\ UNCHANGED <<limits, expiry, counts, lockVars>>

-----------------------------------------------------------------------------
(* The other operations *)

\* An insertion waits for another one of the same identifier to be committed or undone.
NotBeingInserted(s) ==
  \A p \in Processes : ~(admission[p].at = "inserted" /\ admission[p].session = s)

\* create, without limits.
Create(s, n) ==
  /\ n < expiry[s] /\ ~Stored(s) /\ NotBeingInserted(s)
  /\ \/ /\ backend = "memory" /\ n = clock
        /\ revision' = [revision EXCEPT ![s] = 0]
        /\ index' = index \cup {s}
        /\ UNCHANGED keyEnds
     \/ /\ backend = "postgres"
        /\ revision' = [revision EXCEPT ![s] = 0]
        /\ UNCHANGED <<keyEnds, index>>
     \/ /\ backend = "redis"
        /\ SetsKey(s, n)
        /\ index' = Kept(index \cup {s}, clock)
  /\ UNCHANGED <<limits, expiry, owner, counts, members, ownerEnds, rates, by, lockVars, sessionHistory>>

\* compareAndSet with the revision that is there; with another one it has no effect. Redis
\* compares what is left of the lifetime with the time to live of the key. PostgreSQL
\* may act on a time that has passed.
Update(s) ==
  /\ Stored(s) /\ revision[s] < LastRevision
  /\ revision' = [revision EXCEPT ![s] = @ + 1]
  /\ \/ /\ backend = "memory" /\ clock < expiry[s]
        /\ index' = index \cup {s}
        /\ UNCHANGED <<owner, keyEnds, members, ownerEnds>>
     \/ /\ backend = "postgres"
        /\ UNCHANGED <<owner, keyEnds, index, members, ownerEnds>>
     \/ /\ backend = "redis" /\ clock < expiry[s]
        /\ keyEnds[s] - expiry[s] <= Tolerance
        /\ keyEnds' = [keyEnds EXCEPT ![s] = expiry[s]]
        /\ index' = index \cup {s}
        /\ members' = [u \in Subjects |-> IF owner[s] = u THEN members[u] \cup {s} ELSE members[u]]
        /\ ownerEnds' = OwnersUntil(index \cup {s})
        /\ UNCHANGED owner
  /\ UNCHANGED <<limits, expiry, counts, rates, by, lockVars, sessionHistory>>

\* The registry of the client is left as it is.
LeavesRegistryOnly(s) ==
  /\ index' = index \ {s}
  /\ ownerEnds' = OwnersUntil(index \ {s})
  /\ owner' = OwnedUntil(Without(owner, {s}, NoSubject), ownerEnds')
  /\ UNCHANGED members

\* Redis: a session leaves the registries and the hash of owners.
LeavesBooks(s) ==
  /\ index' = Kept(index \ {s}, clock)
  /\ members' = [u \in Subjects |-> IF owner[s] = u THEN Kept(members[u] \ {s}, clock) ELSE members[u]]
  /\ ownerEnds' = OwnersUntil(index \ {s})
  /\ owner' = OwnedUntil(Without(owner, {s}, NoSubject), ownerEnds')

Remove(R) ==
  /\ revision' = Without(revision, R, -1) /\ by' = Without(by, R, NoSubject)
  /\ \/ /\ backend = "memory"
        /\ owner' = Without(owner, R, NoSubject)
        /\ index' = index \ R /\ counts' = CountsWithout(R)
        /\ UNCHANGED <<keyEnds, members, ownerEnds>>
     \/ /\ backend = "postgres"
        /\ owner' = Without(owner, R, NoSubject)
        /\ UNCHANGED <<keyEnds, bookVars>>
     \/ /\ backend = "redis"
        /\ \E s \in R : LeavesBooks(s)
        /\ keyEnds' = Without(keyEnds, R, 0)
        /\ UNCHANGED counts
  /\ UNCHANGED <<limits, expiry, rates, lockVars, sessionHistory>>

Delete(s) == Remove({s})

\* A read that finds a session expired deletes it; a Redis key may outlive its session.
GetExpired(s) == Stored(s) /\ expiry[s] <= clock /\ Remove({s})

\* deleteExpired: the earliest of the expired sessions, by a time that has passed. Redis
\* leaves it to the keys.
DeleteExpiredSessions ==
  LET late == {s \in Sessions : Stored(s) /\ expiry[s] <= clock} IN
  /\ backend # "redis"
  /\ \E R \in SUBSET late :
       /\ R # {} /\ Cardinality(R) <= CleanupLimit
       /\ \A s \in R, x \in late \ R : expiry[s] <= expiry[x]
       /\ Remove(R)

\* PostgreSQL also deletes windows, except one that a transaction is about to count in.
DeleteWindow(u) ==
  /\ backend = "postgres"
  /\ rates[u].ends <= clock /\ rates[u] # NoRate
  /\ \A p \in Processes : ~(admission[p].at = "inserted" /\ admission[p].subject = u)
  /\ rates' = [rates EXCEPT ![u] = NoRate]
  /\ UNCHANGED <<limits, expiry, revision, owner, keyEnds, bookVars, by, lockVars, sessionHistory>>

\* Time passes. What Redis keeps goes away when it expires.
SessionsAge ==
  LET dead(s) == backend = "redis" /\ keyEnds[s] <= clock' IN
  /\ created' = [u \in Subjects |-> After(created[u], clock' - Window)]
  /\ revision' = [s \in Sessions |-> IF dead(s) THEN -1 ELSE revision[s]]
  /\ by' = [s \in Sessions |-> IF dead(s) THEN NoSubject ELSE by[s]]
  /\ keyEnds' = [s \in Sessions |-> IF dead(s) THEN 0 ELSE keyEnds[s]]
  /\ \/ /\ backend = "redis"
        /\ index' = Kept(index, clock')
        /\ members' = [u \in Subjects |-> Kept(members[u], clock')]
        /\ ownerEnds' = IF ownerEnds <= clock' THEN 0 ELSE ownerEnds
        /\ owner' = IF ownerEnds <= clock' THEN NoOwner ELSE owner
        /\ rates' = [u \in Subjects |-> IF rates[u].ends <= clock' THEN NoRate ELSE rates[u]]
     \/ /\ backend # "redis"
        /\ UNCHANGED <<index, members, ownerEnds, owner, rates>>
  /\ UNCHANGED <<limits, expiry, counts, lockVars, overtaken>>

\* The readings of the clock that an operation may still act on.
Lately == {n \in 0..clock : clock - n <= MaxLag}

SessionNext ==
  \/ \E s \in Sessions, u \in Subjects : AdmitInMemory(s, u)
  \/ \E s \in Sessions, u \in Subjects, n \in Lately :
       \/ AdmitScript(s, u, n)
       \/ \E p \in Processes : CountsAndInserts(p, s, u, n)
  \/ \E p \in Processes : CommitAdmission(p) \/ RollBack(p)
  \/ \E s \in Sessions, n \in Lately : Create(s, n)
  \/ \E s \in Sessions : Update(s) \/ Delete(s) \/ GetExpired(s)
  \/ DeleteExpiredSessions
  \/ \E u \in Subjects : DeleteWindow(u)

TimePasses ==
  /\ clock < EndOfTime /\ clock' = clock + 1
  /\ SessionsAge
  /\ UNCHANGED backend

SessionStep == TimePasses \/ (SessionNext /\ UNCHANGED <<backend, clock>>)

SessionSpec ==
  /\ backend \in {"memory", "postgres", "redis"} /\ clock = 0
  /\ SessionInit
  /\ [][SessionStep]_<<backend, clock, browserVars>>

-----------------------------------------------------------------------------

Admitted(u) == {s \in Sessions : Live(s) /\ by[s] = u}

\* What an admission counts is what there is: the books of a store agree with its sessions.
BooksAgree ==
  /\ SessionTypeOK
  /\ backend # "redis" => owner = by
  /\ backend = "memory" =>
       /\ index = {s \in Sessions : Stored(s)}
       /\ \A u \in Subjects : counts[u] = Cardinality({s \in Sessions : Stored(s) /\ by[s] = u})
       /\ \A u \in Subjects :
            Total(rates[u].made) > 0 => rates[u].ends = LastOf(rates[u].made) + Window
  /\ backend = "redis" =>
       /\ {s \in index : clock < expiry[s]} = {s \in Sessions : Live(s)}
       /\ \A s \in Sessions : Live(s) => owner[s] = by[s]
       /\ \A u \in Subjects : {s \in members[u] : clock < expiry[s]} = Admitted(u)

\* However admissions of several processes meet, with each other, with deletions and with a
\* clock read before: no more sessions live than the limits allow, and no client has created
\* more of them within a window. PostgreSQL counts in windows that begin with a creation,
\* of which two may fall into the time of one. This leaves out clients whose creations
\* have been recorded in another order than their times.
SessionLimitsHold ==
  /\ Cardinality({s \in Sessions : Live(s) /\ by[s] # NoSubject}) <= limits.all
  /\ \A u \in Subjects : Cardinality(Admitted(u)) <= limits.subject
  /\ \A u \in Subjects \ overtaken :
       Total(created[u]) <= IF backend = "postgres" THEN 2 * MaxCreations ELSE MaxCreations
=============================================================================
