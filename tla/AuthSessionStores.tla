-------------------------- MODULE AuthSessionStores --------------------------
(***************************************************************************)
(* The stores of authentication sessions, for one session: the ones in     *)
(* memory of the core and the server package, whose operations run under a *)
(* mutex; the PostgreSQL one, whose operations are single statements; and  *)
(* the Redis one, which reads the key, decides in the process and writes   *)
(* with a script that compares what it overwrites. The readers of both     *)
(* databases delete a session they find expired, later than they read it.  *)
(*                                                                         *)
(* The identifier of a session is a random UUID: it is created at most     *)
(* once. A caller may set any storageExpiresAt: the browser routes only    *)
(* bring it forward, the contract of the stores does not ask for that.     *)
(***************************************************************************)
EXTENDS StoreBackend, Sequences

CONSTANTS
  Users,            \* callers of the store, each with a call under way
  StorageExpiries,  \* values of storageExpiresAt
  Never,            \* the one of a session without
  LastUpdate,       \* Number.MAX_SAFE_INTEGER
  TtlTolerance,     \* the 5 seconds by which a time to live may differ
  LastTick          \* bound of the model: the clock of these stores stops there

ASSUME RecordsAssumption ==
  /\ EndOfTime \in Nat /\ LastUpdate \in Nat /\ TtlTolerance \in Nat
  /\ LastTick \in 0..EndOfTime
  /\ StorageExpiries \subseteq Nat
  /\ Never \in StorageExpiries /\ Never > EndOfTime

VARIABLES
  record,      \* the session stored
  recordEnds,  \* Redis: when its key expires
  creation,    \* its creation: how far it is, storageExpiresAt, the clock it has read
  access,      \* the callers: where they stand, their call, and what they hold
  ending, won, answers  \* histories: how the session went; see RevisionedRecord

recordVars == <<record, recordEnds, creation, access, ending, won, answers>>
ledger     == <<ending, won, answers>>

None      == [revision |-> -1, updates |-> <<>>, expires |-> Never]
Opened(e) == [revision |-> 0, updates |-> <<>>, expires |-> e]
Updated(r, u, e) ==
  [revision |-> r.revision + 1, updates |-> Append(r.updates, u), expires |-> e]
Records == [revision : -1..LastUpdate, updates : Seq(Users), expires : StorageExpiries]

\* What a caller asks for, with the storageExpiresAt of the session it writes.
AskFor(o) == [op |-> o, next |-> Never]
Asked     == [op : {"get", "set", "delete", "consume"}, next : StorageExpiries]

\* held: the session a caller has from the store; raw, now: what its call has read of the
\* record and of the clock.
Accesses == [at : {"idle", "holding", "read", "writing", "cleaning", "taken"}, ask : Asked,
             held : Records, raw : Records, now : 0..EndOfTime]
Holding(r) == [at |-> "holding", ask |-> AskFor("get"), held |-> r, raw |-> None, now |-> 0]
Done       == [Holding(None) EXCEPT !.at = "idle"]

NoCreation(step) == [at |-> step, expires |-> Never, now |-> 0]

RecordTypeOK ==
  /\ backend \in {"memory", "postgres", "redis"} /\ clock \in 0..EndOfTime
  /\ record \in Records /\ recordEnds \in Nat
  /\ creation \in [at : {"new", "writing", "done"}, expires : StorageExpiries, now : 0..EndOfTime]
  /\ access \in [Users -> Accesses]
  /\ ending \in {"none", "deleted", "taken", "lapsed"}
  /\ won \subseteq 0..LastUpdate /\ answers \in {0, 1}

RecordInit ==
  /\ record = None /\ recordEnds = 0
  /\ creation = NoCreation("new")
  /\ access = [u \in Users |-> Done]
  /\ ending = "none" /\ won = {} /\ answers = 0

Lapsed(r) == r.expires <= clock

-----------------------------------------------------------------------------
(* Creation *)

Created == creation' = NoCreation("done")

CreatesAtOnce ==
  /\ backend # "redis" /\ creation.at = "new"
  /\ \E e \in StorageExpiries : record' = Opened(e)
  /\ Created
  /\ UNCHANGED <<recordEnds, access, ledger>>

CreationReadsClock ==
  /\ backend = "redis" /\ creation.at = "new"
  /\ \E e \in StorageExpiries : creation' = [at |-> "writing", expires |-> e, now |-> clock]
  /\ UNCHANGED <<record, recordEnds, access, ledger>>

\* Redis counts the time to live, of a millisecond at least, from when it receives the key.
CreationWrites ==
  /\ creation.at = "writing"
  /\ record' = Opened(creation.expires)
  /\ recordEnds' = IF creation.expires = Never THEN Never
                   ELSE IF creation.expires > creation.now
                        THEN clock + (creation.expires - creation.now)
                        ELSE clock + 1
  /\ Created
  /\ UNCHANGED <<access, ledger>>

-----------------------------------------------------------------------------
(* The callers *)

\* A caller gets the session; one that has it replaces or deletes it.
Asks(u) ==
  CASE access[u].at = "idle"    -> {AskFor("get"), AskFor("consume")}
    [] access[u].at = "holding" -> [op : {"set"}, next : StorageExpiries] \cup {AskFor("delete")}
    [] OTHER -> {}

\* The call has ended, and the caller holds nothing.
Ends(u) == access' = [access EXCEPT ![u] = Done]

Denied(u) == Ends(u) /\ UNCHANGED <<record, recordEnds, ledger>>

GoesOn(u, step, k, r, n) ==
  /\ access' = [access EXCEPT ![u] = [@ EXCEPT !.at = step, !.ask = k, !.raw = r, !.now = n]]
  /\ UNCHANGED <<record, recordEnds, ledger>>

Gives(u, r) == access' = [access EXCEPT ![u] = Holding(r)] /\ UNCHANGED <<record, recordEnds, ledger>>

\* The revision of the session a caller writes would not be a safe integer.
Unwritable(u, k) == k.op = "set" /\ access[u].held.revision = LastUpdate

\* The revision is not compared.
AnyRevision(u, k, r, n) ==
  /\ r # None
  /\ n < r.expires
  /\ ~Unwritable(u, k)

\* compareAndSet and compareAndDelete take effect on the revision that the caller holds, as
\* long as it has not expired.
Current(u, k, r, n) ==
  /\ r # None
  /\ r.revision = access[u].held.revision
  /\ n < r.expires
  /\ ~Unwritable(u, k)

\* The answer may be lost on its way; a caller that is told true goes on with what it wrote.
Succeeds(u, k) ==
  /\ \/ won' = won \cup {access[u].held.revision}
     \/ backend # "memory" /\ won' = won
  /\ \/ /\ k.op = "set"
        /\ record' = Updated(access[u].held, u, k.next)
        /\ recordEnds' = IF backend = "redis" THEN k.next ELSE recordEnds
        /\ access' = [access EXCEPT ![u] = IF won' = won THEN Done ELSE Holding(record')]
        /\ UNCHANGED ending
     \/ /\ k.op = "delete"
        /\ record' = None /\ ending' = "deleted"
        /\ Ends(u)
        /\ UNCHANGED recordEnds
  /\ UNCHANGED answers

-----------------------------------------------------------------------------
(* In memory: a call is one step, under the mutex *)

\* What is found expired is deleted; a session that cannot be written is refused before.
FindsExpired(u, k) ==
  /\ record # None /\ Lapsed(record)
  /\ ~Unwritable(u, k)
  /\ record' = None /\ ending' = "lapsed"
  /\ Ends(u)
  /\ UNCHANGED <<recordEnds, won, answers>>

AnswersAtOnce(u) ==
  /\ backend = "memory"
  /\ \E k \in Asks(u) :
       \/ FindsExpired(u, k)
       \/ record # None /\ ~Lapsed(record) /\ k.op = "get" /\ Gives(u, record)
       \/ /\ record # None /\ ~Lapsed(record) /\ k.op = "consume"
          /\ record' = None /\ ending' = "taken" /\ answers' = answers + 1
          /\ UNCHANGED <<access, recordEnds, won>>
       \/ k.op \in {"set", "delete"} /\ Current(u, k, record, clock) /\ Succeeds(u, k)
       \/ /\ k.op \in {"set", "delete"} /\ ~Current(u, k, record, clock)
          /\ record = None \/ ~Lapsed(record) \/ Unwritable(u, k)
          /\ Denied(u)
  /\ UNCHANGED creation

-----------------------------------------------------------------------------
(* The databases *)

\* What is read of the record: by a get, and by what the Redis store compares later.
Fetches(u) ==
  /\ \E k \in Asks(u) :
       /\ \/ k.op = "get" /\ backend # "memory"
          \/ k.op \in {"set", "delete"} /\ backend = "redis"
       /\ IF record = None THEN Denied(u) ELSE GoesOn(u, "read", k, record, 0)
  /\ UNCHANGED creation

\* The answer to a get, if the session has not expired meanwhile.
Judges(u) ==
  /\ access[u].at = "read" /\ access[u].ask.op = "get"
  /\ IF Lapsed(access[u].raw)
     THEN GoesOn(u, "cleaning", access[u].ask, access[u].raw, 0)
     ELSE Gives(u, access[u].raw)
  /\ UNCHANGED creation

\* Whatever is stored is taken for what was read.
Present(u) == record # None

\* deleteUnchanged, deleteIfUnchanged: only what was read is deleted.
Unaltered(u) == record = access[u].raw

Cleans(u) ==
  /\ access[u].at = "cleaning"
  /\ IF Unaltered(u)
     THEN record' = None /\ ending' = "lapsed" /\ UNCHANGED <<recordEnds, won, answers>>
     ELSE UNCHANGED <<record, recordEnds, ledger>>
  /\ Ends(u)
  /\ UNCHANGED creation

\* delete ... returning, GETDEL
Removes(u) ==
  /\ backend # "memory" /\ AskFor("consume") \in Asks(u)
  /\ record # None
  /\ record' = None /\ ending' = "taken"
  /\ access' = [access EXCEPT ![u] = [@ EXCEPT !.at = "taken", !.raw = record]]
  /\ UNCHANGED <<recordEnds, creation, won, answers>>

HandsOver(u) ==
  /\ access[u].at = "taken"
  /\ answers' = IF Lapsed(access[u].raw) THEN answers ELSE answers + 1
  /\ Ends(u)
  /\ UNCHANGED <<record, recordEnds, creation, ending, won>>

\* PostgreSQL: the clock is read once there is a connection, then the statement is sent.
Connects(u) ==
  /\ backend = "postgres"
  /\ \E k \in Asks(u) : k.op \in {"set", "delete"} /\ GoesOn(u, "writing", k, None, clock)
  /\ UNCHANGED creation

Executes(u) ==
  /\ backend = "postgres" /\ access[u].at = "writing"
  /\ IF Current(u, access[u].ask, record, access[u].now)
     THEN Succeeds(u, access[u].ask)
     ELSE Denied(u)
  /\ UNCHANGED creation

\* Redis: the process decides on what it has read; what has expired already is not written.
Compares(u) ==
  /\ backend = "redis" /\ access[u].at = "read" /\ access[u].ask.op \in {"set", "delete"}
  /\ IF /\ Current(u, access[u].ask, access[u].raw, clock)
        /\ access[u].ask.op = "set" => clock < access[u].ask.next
     THEN GoesOn(u, "writing", access[u].ask, access[u].raw, 0)
     ELSE Denied(u)
  /\ UNCHANGED creation

\* hasConsistentStorageTtl: a key that has no time to live, or one that differs from what
\* the session says, is not changed.
ConsistentTtl(r) ==
  IF r.expires = Never
  THEN recordEnds = Never
  ELSE /\ clock < r.expires /\ clock < recordEnds
       /\ recordEnds - r.expires \in -TtlTolerance..TtlTolerance

Scripts(u) ==
  /\ backend = "redis" /\ access[u].at = "writing"
  /\ IF /\ Unaltered(u) /\ ConsistentTtl(access[u].raw)
        /\ access[u].ask.op = "set" => clock < access[u].ask.next
     THEN Succeeds(u, access[u].ask)
     ELSE Denied(u)
  /\ UNCHANGED creation

KeyGoes ==
  /\ backend = "redis" /\ record # None
  /\ recordEnds <= clock
  /\ record' = None /\ ending' = "lapsed"
  /\ UNCHANGED <<recordEnds, creation, access, won, answers>>

\* deleteExpired. A record that had expired when the clock was read has expired, and the
\* sweep of Redis deletes only what it has read.
Sweeps ==
  /\ record # None /\ Lapsed(record)
  /\ record' = None /\ ending' = "lapsed"
  /\ UNCHANGED <<recordEnds, creation, access, won, answers>>

\* A request has no more use for the session, or ends with an error before its call took
\* effect, or its process ends, which the database outlives.
Quits(u) ==
  /\ access[u].at # "idle"
  /\ Ends(u)
  /\ UNCHANGED <<record, recordEnds, creation, ledger>>

RecordNext ==
  \/ CreatesAtOnce \/ CreationReadsClock \/ CreationWrites \/ KeyGoes \/ Sweeps
  \/ \E u \in Users :
       \/ AnswersAtOnce(u) \/ Quits(u)
       \/ Fetches(u) \/ Judges(u) \/ Cleans(u) \/ Removes(u) \/ HandsOver(u)
       \/ Connects(u) \/ Executes(u) \/ Compares(u) \/ Scripts(u)

ClockTicks == clock < LastTick /\ clock' = clock + 1 /\ UNCHANGED <<backend, recordVars>>

RecordStep == ClockTicks \/ (RecordNext /\ UNCHANGED <<backend, clock>>)

RecordSpec ==
  /\ backend \in {"memory", "postgres", "redis"} /\ clock = 0
  /\ RecordInit
  /\ [][RecordStep]_<<backend, clock, recordVars>>

-----------------------------------------------------------------------------

Whereabouts ==
  IF creation.at # "done" THEN "none" ELSE IF ending = "none" THEN "stored" ELSE ending

Record == INSTANCE RevisionedRecord WITH status <- Whereabouts

\* Whatever the backend, its interleavings, lost answers and late cleanups, no update of a
\* session is lost, one call at most wins a revision and one at most consumes the session,
\* and what is deleted as expired has expired. This is what create, get, consume,
\* compareAndSet, compareAndDelete and deleteExpired of the stores are for.
RecordPromise == Record!Spec
=============================================================================
