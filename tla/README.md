# ActivityPlug in TLA+

These modules model the parts of ActivityPlug whose correctness depends on the
order in which things happen: calls that read a record, wait for a remote server
and write the record back, routes that hold a short lease while they work, a
budget that is shared by concurrent requests, and a server that is closed while
all of this is under way. TLC checks them on small instances; TLAPS proves the
most important invariants for every value of the constants.

Source paths below are relative to the repository; `core` stands for
`packages/core/src` and `server` for `packages/server/src`.

## 1. The system

ActivityPlug is a TypeScript library and server that puts one API in front of
Mastodon, Misskey and Hackers' Pub servers. Adapters translate; the core keeps
authentication sessions, budgets and streams; the server package adds HTTP,
GraphQL, a browser boundary with cookies, and stores (in memory, PostgreSQL,
Redis). JavaScript runs one callback at a time, so within a process two
operations meet only at an `await`. Deployments with shared stores run several
processes, each of which may die between two store calls.

| Component | State | Operations | Meets | Hard behaviour | What makes it correct |
|---|---|---|---|---|---|
| Authentication session service (`core/auth/service.ts`, `credential-lease.ts`) | session records with a revision, leases on OAuth client secrets | exchange/import/verify/finish (create), `verifySession`, `refreshSession`, `revokeSession` | the adapters (remote calls), the stores, the browser routes | read, await a remote answer, compare-and-set; two records that must agree; crash after the claim of a revocation | no lost update, tokens never go back, one remote revocation, a revoked session stays gone, a session keeps its lease |
| Authentication session stores (`core/auth/service.ts`, `server/auth/session-store.ts`, `index.ts` of both session packages) | a record with a revision, an expiry and, in Redis, a time to live | create, get, consume, compareAndSet, compareAndDelete, deleteExpired | session service, browser routes | a decision on a record read before, a reader that deletes what it found expired, a commit whose answer is lost | no update lost, a revision won once, consumed once, removed otherwise only when expired |
| Browser sign-in routes (`server/browser/auth-routes.ts`) | state record, metadata, callback state of an OAuth sign-in; binding of an email or passkey sign-in; the session left for a retry | start, callback, complete, logout | session service, OAuth state store, browser session manager | two tabs, replayed callbacks, a lease that runs out, a retry after half of the work | code sent once, one session per sign-in, no session with live tokens left to nobody, an attached session is not deleted or replaced |
| OAuth state stores (`server/storage/in-memory.ts`, `oauth.ts` of `packages/session-postgres` and `packages/session-redis`) | record, claim token, lease | create, claim, release, consume, deleteExpired | the callback route | a claim after the lease of another has run out; a decision on a record read before; a commit whose answer is lost | one claim at a time, ended by its holder, no grant after the consumption |
| Browser session manager and ledger (`server/browser/session.ts`) | stored sessions, reservations, pending admissions, the close promise | admit, promote, issueCsrf, resolve, delete, close | budget, store | close while the store admits, rollback that fails | every reservation is given back exactly once; after close nothing is admitted |
| Security state lifecycle (`server/runtime/security-state-lifecycle.ts`) | intervals, cleanups in flight, promises of start and close | start, periodic run, close | the stores | close during start, a cleanup that fails or outlasts its interval | no overlap, no interval after close, close waits, sweeping goes on |
| Server assembly (`server/runtime/server.ts`, `browser/app.ts`) | listeners, how far close has come | construction, request, close | the two above | an error in one stage of close must not skip the next | close settles and leaves the stores alone |
| Browser session stores (`storage/in-memory.ts`, `expiration-index.ts`, `browser.ts` of both session packages) | sessions, and what is counted: index of expiries, counts, registries, owners, creations of a window | create, admit, get, compareAndSet, delete, deleteExpired | session manager | admissions of several processes, books that expire by themselves, off-by-one at window ends, removal inside a heap | the books agree with the sessions, the limits hold |
| OAuth start limiter (`storage/in-memory.ts`) | sliding windows per key, reservations | take, reserve, release | starts and registrations | capacity counted over stale keys | limits per window, a bound on what is refused for want of capacity |
| Budgets (`core/security/budget.ts`, `request-budget.ts`) | usage and reservations of an operation | charge, reserve, release, deadline | every remote call | double release, deadlines, a body nobody reads | what is reserved is given back once; nothing beyond a limit |
| Vetted fetch (`core/http/vetted-fetch.ts`) | the hops of a fetch, its body, its timer | fetch, redirect, read, cancel, abort | budget, policy, resolver, remote server | an abort between any two steps, an answer after it | every hop is vetted and charged, every fetch ends |
| Streams (`core/utils/websocket-stream.ts`, `server/http/stream-socket.ts`) | bounded queue, waiters, unsent frames | push, next, terminate, abort; send, completion | adapters, HTTP | late factory result, full queue, late completion | no event lost before termination, bounds hold, every waiter settles, no remote connection outlives its stream |
| GraphQL outbound semaphore (`server/security/graphql-limits.ts`) | active count, queue of waiters | acquire, abort, release | GraphQL execution | abort of a waiter races its grant | never more than the maximum, no slot lost |
| Instance profile cache (`server/runtime/server.ts`) | pending and settled detections by origin | profileFor, failure | GraphQL execution | a detection that fails late | only the own entry is removed |
| Callback state and client secret (`server/runtime/oauth-state.ts`) | two records of one start | store, undo, consume | start, exchange | an ambiguous answer of either store | no secret deleted that a state needs, none left without one |
| Stream tickets | one-shot records | issue, take | HTTP | take twice | one use |
| PostgreSQL and Redis stores | the store contracts over SQL and Lua | as above | services | isolation, a commit whose answer is lost | they implement the contracts |
| Adapters, HTTP/GraphQL, CLI | none, or one request's | data transformation | - | data rules | not a matter of interleaving |

`PROJECT.json` lists every component with its status, and under `hazards` the
places where this code can go wrong in ways a test would hardly reach.

## 2. The modules

| Module | Models | Correspondence |
|---|---|---|
| `AuthSessions` | the session service, its store and leases | `store`, `leases` are the two stores; a call `c` is suspended at the await `pc[c]` with the record it has read (`snap`) and will write (`next`) |
| `AuthSessionsProofs` | - | theorems about `AuthSessions` |
| `BrowserAuth` | start, callback, completion, logout of one browser session | `oauth`, `meta`, `callback`, `auth`, `browser` are the stores; a request `k` stands before the store or remote call `pc[k]`; `late` are the sessions whose viewer query goes on after its request has failed |
| `BrowserAuthProofs` | - | theorems about `BrowserAuth` |
| `SecurityLifecycle` | `SecurityStateLifecycle` | `inFlight`, `timers`, `closed` are the private fields, the promises are their states |
| `BrowserAdmission` | `BrowserSessionManager`, the allocation ledger, one budget dimension | a store call and the callback after its answer are two actions (`StoreAdmits`, `AdmitOn`) |
| `ServerShutdown` | the server; composes the two above by EXTENDS | `close()` as `Close`, `ListenersClosed`, `BrowserClosed`, `ServerClosed` |
| `ServerShutdownProofs` | - | theorems about the lifecycle, the admissions and the close of the server |
| `MessageStream` | `resolveWebSocketFactoryResult`, `streamWebSocketMessages` | `queue`, `queuedBytes`, `closed`, `terminal` are the local variables; `gen` is where the generator stands, and "waiting" means that `waiters` holds its one resolver; `handed` is what that was resolved with before the generator has run on |
| `StreamSocket` | `createBoundedStreamSocket`; composes the above by EXTENDS | `pendingEvents`, `pendingBytes`, `overloaded` are the local variables, `pending` the sends whose callback is to come, `aborted` the signal of its controller |
| `StreamSocketProofs` | - | theorems about `MessageStream` and `StreamSocket` |
| `OneShotState` | what `OAuthStateStore` of `server/storage/contracts.ts` promises of one state | abstract: free, held by a numbered claim with a lease, consumed, expired |
| `StoreBackend` | - | which store a deployment uses, and its clock |
| `OAuthStateStores` | the three OAuth state stores | `row` is the record; `locker` the transaction with the row lock; a caller's `call` has what its process has read (`raw`, `now`) and holds (`claim`). `OneShot` maps `row` and the histories to `OneShotState` |
| `RevisionedRecord` | what `AuthSessionStore` of `core/auth/service.ts` promises of one session | abstract: a record with its revision and those who updated it, what was won, how it ended |
| `AuthSessionStores` | the three authentication session stores | `record` is the session, `recordEnds` the end of its key; `access[u]` has the session a caller holds from the store, what its call asks for, and what that has read (`raw`, `now`). `Record` maps `record` and the histories to `RevisionedRecord` |
| `StoreRefinementProofs` | - | theorems about `OAuthStateStores` and `AuthSessionStores`, and their part in `SharedStores` |
| `BrowserSessionStores` | the three browser session stores | `revision` are the records; `index`, `counts`, `members`, `owner`, `rates` what admissions count by; `lock` and `admission` the transactions of PostgreSQL. What Redis keeps expires in `SessionsAge` |
| `ExpirationIndex` | `ExpirationIndex`, the heap by which stores in memory find what expires next | `entries.heap`, `entries.at` are the private fields, with positions from 1; the loops of `#bubbleUp` and `#bubbleDown` are `Loop`, with `Rise` and `Sink` for a turn |
| `SharedStores` | composes `OAuthStateStores`, `AuthSessionStores` and the two above by EXTENDS, over one `StoreBackend` | they meet only in the backend and the clock: `part` says which one a behaviour is about |
| `SharedStoresProofs` | - | theorems about `BrowserSessionStores`, `ExpirationIndex` and `SharedStores` |
| `BudgetScope` | an enforcing `BudgetScope`: requests, reads, concurrency, the deadline | `used` and `limits` are its fields |
| `RemoteFetch` | `createBudgetedFetch` over `createVettedFetch`; extends `BudgetScope` | of a fetch, `outer` is where the promise of the budgeted fetch stands and then the body its caller reads, `inner` where the vetted one stands |
| `RemoteFetchProofs` | - | theorems about `RemoteFetch` |
| `ServerProcess` | - | the calls of one process, numbered in the order in which they are made, and its clock |
| `FairSemaphore` | `FairSemaphore` of `graphql-limits.ts` | the active count and the queue of waiters; `slot` is what became of a call; the loop of `#drain` is part of `Release`, in closed form (`Drained`, `Counted`) |
| `ProfileCache` | `profileFor` of `createRuntimeClientResolver` | `cache` is the map of pending and settled detections in order of use |
| `StartLimiter` | `InMemoryOAuthStartLimiter` | the start times and reservations of each key; a time carries the call it is of, so that a list of times is a set |
| `CallbackSecrets` | `storeOAuthCallbackState`, `consumeOAuthCallbackState` | the callback states and client secrets in their stores, and where a start or an exchange stands between two calls of them |
| `ServerCalls` | composes the four above by EXTENDS | resolvers, starts and registrations of a process; `load` says which a behaviour is about, as they share only the clock |
| `ServerCallsProofs` | - | theorems about `ServerCalls` |
| `MCAuthSessions`, `MCBrowserAuth`, `MCServerShutdown`, `MCStreamSocket`, `MCSharedStores`, `MCRemoteFetch`, `MCServerCalls` | - | symmetry sets and instances for TLC |

A few definitions beside an action are variants of it with a plausible bug
(`StartRevokeUnclaimed`, `CanSetAnyRevision`, `ScheduleAlways`, `FinishSilently`,
`LockIsIgnored` ...). No specification uses them; they are the mutants with which each
property is shown to be able to fail.

Conventions. For those who use a store its call is one step: the in-memory stores
run under a mutex or without an await, the SQL stores use one statement or a
transaction, the Redis stores a script. `OAuthStateStores`, `AuthSessionStores` and
`BrowserSessionStores` have the steps inside: the clock a process reads before it asks the
database, what it decides on a record read before, the locks, and a commit whose answer is
lost. Between two awaits other calls run, time passes, and a process may crash (`Crash`): its
calls are gone, the stores stay.
Expiry is lazy as in the code: a record past its time is treated as absent and
dropped by whoever meets it or by the sweep.

## 3. The runs

| Run | Question | Result |
|---|---|---|
| `auth_sessions` | what may concurrent calls, crashes, expiry and the end of the revision range do to a session and its lease? | `RevisionIdentifies`, `CurrentCredentials`, `RevokedOnce`, `RevokeIsFinal`, `LeaseKept`, `SteadyRecords` hold |
| `revoke_race` | is the session gone once `revokeSession` has ended? | violated, see 5 |
| `lease_life` | does a lease live as long as the docs say? | violated, see 5 |
| `browser_auth` | what do concurrent sign-ins, retries, logouts, lapsing leases and crashes do to a browser session? | `SignsInOnce` (`ExchangedOnce` and `OneSessionPerSignIn`), `SessionsFollowAttachments` (`NoStrandedSession` and `AttachedSessionStays`), `AttachmentIsFinal` hold |
| `callback_fail` | does every failure that is not retried delete its session? | violated, see 5 |
| `callback_replay` | does the lease protect a sign-in from a replayed callback? | violated, see 5 |
| `server_shutdown` | close at any moment of start, sweeping and admission: is everything at rest afterwards, and does close settle? | `NoOverlap`, `ClosedIsQuiet`, `BudgetBalanced`, `NoLateAdmission`, `ClosedServerIsAtRest` (with `ClosedIsDrained`) hold, `CloseSettles` and `SweptForever` under fairness |
| `stream_socket` | what becomes of the frames, the books and the remote connection of a stream, whoever ends it and when? | `BuffersBalanced` (`QueueBalanced` and `PendingBalanced`), `NoLostWakeup`, `InOrder` (with `EndIsComplete`) hold, `UpstreamReleased` and `HandlerFinishes` under fairness |
| `shared_stores` | do the three OAuth state stores keep the promise of a one-shot state, and the three authentication session stores that of a revisioned record? do the three browser session stores count what there is, and hold their limits? | `OneShotPromise` (refinement of `OneShotState`), `RecordPromise` (refinement of `RevisionedRecord`), `IndexesAgree`, `SessionLimitsHold` hold, with the exception told in 6 |
| `remote_fetch` | what becomes of the budget, the vetting and the bodies of remote requests, whoever ends them and when? | `ReservationsBalanced`, `SendsAreVetted` hold, `EveryFetchEnds` under fairness |
| `server_calls` | semaphore, profile cache, start limiter and callback secrets under concurrent calls, aborts and failing stores | `FairSlots`, `SecretsFollowStates`, `CacheForgetsOnlyItsOwn`, `LimiterBounds` hold, `WaitersAreServed` under fairness |
| `server_close_fails` | is the backing client unused once close has settled, error or not? | violated, see 5 |

### Bounds

* `auth_sessions`: three callers on one session. A race in this service is
  between a holder of an old record and writers; three calls allow a reader, a
  writer and a revocation at once. Sessions do not interact, so one is enough.
  `MaxRevision` is 3 (for `Number.MAX_SAFE_INTEGER`), so that the guards at the end
  of the range are reached; `MaxTokens` 2 lets a second refresh meet a first;
  `MaxTime` 1 gives "before" and "after" every expiry. An expiry beyond the clock
  is the same as none. Callers are symmetric.
* `browser_auth`: two requests, one OAuth and one email or passkey sign-in, two
  identifiers, so that two sign-ins can both get a session and compete for the
  browser. `LeaseTime` 1 and record lifetimes 1 and 2: a lease can run out before
  its record or with it. `MaxClaims` 3, `MaxRevision` 3: the bounds are reached.
  `MaxLate` 1: one viewer query at a time has outlived its request; a second one of
  the other request would move the same two kinds of record. It comes before any
  logout (section 6). One logout, as another finds what the first has left for a new
  sign-in. Nothing lives longer than the last lease can hold. `Stateless` is TRUE, the
  default of `anonymousSessionMode`, where a browser session that is not stored may be
  resolved from its cookie or not; with FALSE it is stored from the beginning and
  resolved only while it is stored, and the run passes as well. Requests and
  identifiers are symmetric; the properties treat them alike.
* `server_shutdown`: two workers (one fails while the other runs), two requests
  for one browser session, room for one stored session, a budget of two. No
  symmetry, as liveness is checked.

* `stream_socket`: four frames, room for two events and three bytes in the inbound
  queue and the same for the sends under way, sizes 1, 2 and 4 inbound and 1 and 3
  outbound. Either limit of each queue can be the one that is reached, a frame can
  be too large by itself, and four frames fill the queue while one is being handed
  over and another is being sent. No symmetry, as liveness is checked.

* `shared_stores` has four kinds of behaviour. *States*: two symmetric callers, a
  state that expires at 4, leases of 2, a clock that stops at 5, revisions to 4: a
  lease runs out before the state and with it, and the last revision is reached.
  One clock for all processes and Redis; a state is created at most once, as its name
  is a random hash. *Sessions*: two identifiers, two clients, two processes, two
  choices of limits (one session in all and two per client, and the other way round)
  so that either is the first to be reached, two creations in a window of 2, expiries
  at 2 and 4, so that a session outlives a window and the other way round; the
  tolerance of Redis is 1, cleanups delete one session at a time, an operation may act
  on a clock read up to `MaxLag` 1 earlier. *Index*: six keys with two expiries; six
  is the least number for which an entry put in the place of a removed one has to go
  up. *Records*: two callers, a session that expires at 2 or not at all and may be
  replaced by one that expires otherwise, revisions to `LastUpdate` 2, so that a call
  meets a session replaced once or twice since it was read and the last revision is
  reached; a clock to `LastTick` 3, past the expiry. `TtlTolerance` is 0, with which a
  key whose time to live was counted from a later moment than the process had read is
  refused, as it is beyond five seconds. Callers, identifiers, clients and processes
  are symmetric.
* `remote_fetch`: two fetches; an allowed URL to start from, another one and a denied
  one to be directed to; one redirect, one body read, a timer of 1 and a deadline of 1
  with a clock to 2. Two choices of limits: concurrency 2 with three requests, two reads
  and a deadline, and concurrency 1 with one read and no deadline, so that each
  dimension is exhausted and a fetch meets one that holds the last slot.
* `server_calls`: four calls, as the third and fourth wait behind a slot and behind a
  waiter; one slot and one cached origin for two origins; limits of 1 and 2 and a
  window of 2 with a clock to 4, so that a key becomes idle for two windows; three
  starts with one state parameter, so that a start meets a state in use while the
  undo of another races a consumption.

Counters in the models are bounded by these constants or by the code's own
guards. `CHECK_DEADLOCK FALSE` is set everywhere because the systems may really
stop: a clock at its bound with no call under way, an expired sign-in, a closed
server, a stream that has ended.

### Fairness

Four specifications assume fairness, weak fairness throughout. In `ServerShutdown`
`Schedule`, `LifecycleCloses`, `ListenersClosed`, `BrowserClosed` and
`ServerClosed` are continuations of settled promises, which the event loop runs;
`TimerFires` is an interval, which fires again as long as it exists; `Settle` and
`Proceed` say that a store call settles, with success or failure: clients of the
stores have timeouts, and without that assumption `close()` has nothing to wait
for that must end. Nothing is assumed about requests arriving, clients
disconnecting, `start()` or `close()` being called, or about any cleanup
succeeding.

In `StreamSocket` `FactoryCallback`, `Connected`, `Resume`, `Open` and `Relay` are
continuations that the event loop runs; an asynchronous factory succeeds or fails,
as a handshake has a timeout, and so does `connect()`; a closing handshake ends,
for which the WebSocket library has a timeout too. Nothing is assumed about the
remote server sending, closing or failing, about the client, the signal of the
request or the completion of any send.

In `RemoteFetch` time passes, timers fire (`WatchFires`, `TimerFires`) and what is
queued in the process runs (`InnerStarts`, `OuterTakes`). Nothing is assumed of the
remote server, the resolver, the policy and the reader of a body: that every fetch
settles is the work of the timer alone. Without a deadline the body of a response
may stay open for ever, with its reservation, if its reader neither reads nor cancels
it; `EveryFetchEnds` therefore asks for the end of a body under a deadline only.

In `ServerCalls` `Detect`, `Finish` and `WaiterLeaves` are continuations; that `Settle`
happens, a detection ends in a profile or an error, is what `EveryFetchEnds` shows of
the fetches it consists of. `SharedStores` needs no fairness, as it has no liveness
property.

## 4. The proofs

`AuthSessionsProofs` proves for any sets of callers and sessions and any values
of the numeric constants that satisfy `ConstantsAssumption`:

* `TypeCorrect`, with the invariant `SnapsRead`: a call that will write has read;
* the six properties of the run `auth_sessions`, from one inductive invariant
  `SafetyInv`. The properties are not inductive by themselves:
  * `UnusedIsFresh`: an identifier that was not handed out has left no trace, so a
    creating call cannot meet an old record;
  * `CreatorIsAlone`: until a session is stored no other call knows it;
  * `DraftSucceeds`: what a call is about to write is a successor of what it has
    read. With `RevisionIdentifies` (same revision, same record) a successful
    compare-and-set therefore replaces a record by its successor, which gives
    `CurrentCredentials` and `SteadyRecords`;
  * `LeasesReferred`: a record, and a call, whose metadata names no secret has no
    lease, and a secret session about to be created already has its lease;
  * `ClaimIsExclusive`: at most one call is between the claim and the end of a
    revocation, and the remote server is asked only there, which gives
    `RevokedOnce` (also after a crash, as a claimed record admits no second claim);
  * `RevokeRemoves`: a revocation that has no error to throw has deleted the
    record, which gives `RevokeIsFinal`.
* `SteadyRecords` is an action property: every step from a state of `SafetyInv`
  satisfies it.

`BrowserAuthProofs` proves for any sets of requests, sign-ins and sessions that satisfy
`ConstantsAssumption` (null is none of the records and numbers the code tells from it):

* `TypeCorrect`, from `Stations`: what a request holds at each of its steps;
* `SignsInOnceEach`: one code sent and one session created for a sign-in, despite replays,
  retries, crashes and leases that run out. The invariant `OnceInv` adds that a sign-in that
  has not begun has left no trace (`Unstarted`), that a session belongs to the sign-in it was
  created for wherever it is referred to (`Links`), that the code can be sent only while its
  callback state is registered, by one request (`Sent`), and that a binding is with the
  store or with one request and has no session before that was created (`Bound`);
* `AttachedOnce`: a browser session that is signed in is never attached to another session
  until it is deleted, and no request signs in one that is not stored. In stateless mode one
  that was deleted may be stored again by `POST /auth/start` with its cookie; it is then
  anonymous and at its first revision. `First` says that an anonymous one always is, in the
  store, in the cookie and in what a request has seen;
* `SessionsAndAttachments`: what is stored is attached or in somebody's hands, what is
  attached is stored, on the two conditions that the property names: for the second part no
  lease has lapsed, for the first nothing is in `mishaps`, which has a "loss" also where a
  viewer query that its request no longer waits for overtakes a deletion. `StaysInv` adds
  that a sign-in whose leases hold is with one callback (`Leased`, `Attaching`) and is wound
  up once its session is attached (`Attached`); `Clean` says of each request what it may
  still have to delete (`Deleting`), and that the record is as it has read it or a mishap is
  recorded, whichever query comes late.

`ServerShutdownProofs` proves for any sets of workers, requests and sessions, within the
composed server,

* `CleanupsDoNotOverlap` and `QuietAfterClose`: no cleanups of one store overlap, no interval
  survives or follows `close()`, and a `close()` that has returned normally leaves no
  cleanup under way. The inductive invariant `LifecycleInv` adds `CloseAwaitsAll`: close
  waits for every cleanup that was under way when it was called, and the intervals do not
  exist before start has returned;
* `ReservationsBalance`: what the budget has reserved is the ledger and the admissions under
  way. The counting takes one element to or from a set at a time (`FiniteSetTheorems`);
* `ClosedBoundaryAdmitsNobody`, an action property, and `RestAfterClose`. Their invariant
  `AdmissionInv` adds `Waits` (a boundary that is closing has an admission to wait for, one
  that has settled has none), `Told` (a session of the store was told, or its request can
  still tell it or take it back, or the close is bound to fail) and `NothingUndone`;
  `StagesInv` ties the stages of the server's `close()` to those of the boundary;
* `TypeCorrect`, from the three invariants.

`ServerCallsProofs` proves for any finite set of calls, any origins, keys, state parameters
and limits, with one inductive invariant for each of the four parts and one lemma for each
of their operations:

* `SlotsAreFair`. `SlotsInv` adds that calls acquire in the order of their numbers and that
  the queue is in that order, so that the waiters a release serves are older than those it
  leaves. `ReleaseKeeps` counts the slots given out by a bijection with a prefix of the queue;
* `CacheKeepsTheRest`, an action property. `CacheInv` adds to the types (one entry for an
  origin) that an entry is of the origin its call has asked for: the failure of a detection
  therefore looks for its entry under the right origin, and none stays once it is handled;
* `LimitsHold`, an action property. `LimiterInv` adds `Listed` (whoever was admitted within
  the last window is on the three lists) and `ListsAreRecent` (whatever is on a list was
  admitted, within two windows at most). An injection of the calls of a window into a list
  that is not full bounds every window that contains the new call, wherever it ends;
* `SecretsHaveStates`. `SecretsInv` adds where a call with a secret, a callback state or a
  consumed state may stand: no call has its state before it has asked for that, and none
  undoes its secret when the state is there;
* `TypeCorrect`, with the capacity of the cache.

`StreamSocketProofs` proves for any limits and any frames

* `WakeupsAreNotLost`: a generator that waits has neither a frame in its queue nor an
  end behind it. `StreamInv` adds that nothing is queued or ended before the
  generator has registered its listeners, as the first wait follows without a look
  at the queue;
* `AbortIsTheEnd`: a step that sends an event after the abort is the last one of the
  handler. This one needs no invariant, only the cases of `Next`;
* `FramesInOrder`: frames leave the generator in the order in which they came, none twice
  and none lost while the stream is open; the client gets a prefix of them, and all of them
  when the remote server has ended the stream. As frames are numbered, order is a matter of
  counting: `FramesInv` says that what is delivered, handed over and queued counts on from
  one to the next (`Numbered`), that it adds up to what has been received unless the stream
  was cut short, and where frames may be at all (`Places`). `Relayed` relates the number of
  events sent to that of frames delivered, which differ by the one the loop has in its hands.
  `CountedIsInOrder` goes back from counting to the sequences of `InOrder`;
* `BuffersBalance`: the counters of the queue and of the sends under way are those of what is
  in them. The bytes are the cardinality of a set, a pair for each byte of each frame or send
  (`Bytes`, `PendingBytes`), so that the theorems on finite sets take the place of an
  induction: a frame appended or a send begun adds a disjoint set (`BytesAdded`), and the
  queue without its first frame is in bijection with what was behind it (`BytesOfTail`). That
  sends are distinct elements of a set rests on `Relayed`: each has the number of its frame;
* `TypeCorrect`, with the limits of both counters of a client. `SendsInv` joins the books
  (`Accounts`) and `Relayed`.

`StoreRefinementProofs` proves of `OAuthStateStores`, for any set of callers and any values of
the constants that satisfy `StoresAssumption`:

* `StoresTypeCorrect`: no revision exceeds the largest safe integer in any store;
* `StoresKeepThePromise`: `Spec => OneShotPromise`, the refinement of `OneShotState` by
  all three stores. The inductive invariant `Inv` adds to the types
  * `RowOK`: the claim a record names is the latest; a lease belongs to a claim; a
    consumed record is marked or gone; a key of Redis outlives the state;
  * `CallOK`: a call about to write has decided on the record it has read, with a clock
    that is not ahead, and a claim of PostgreSQL has that record locked. A script that
    finds the record unchanged, a locked row and a statement with the revision in its
    WHERE clause therefore act on the record as it is, and the holder of a claim is the
    latest one.
  Every step of `Next` then maps to a step of `OneShotState` or to a stutter.

It proves of `AuthSessionStores`, for any callers, lifetimes and revisions that satisfy
`RecordsAssumption`:

* `RecordsTypeCorrect`: no revision exceeds the largest safe integer, and a consumption
  is answered at most once with the session;
* `RecordsKeepThePromise`: `RecordSpec => RecordPromise`, the refinement of
  `RevisionedRecord` by all three stores. The inductive invariant `RecordsInv` adds to the types
  * `RecordOK`: a record exists from its creation until it ends; every revision that was
    won is older than the one stored; a key of Redis outlives the session;
  * `Seen`: whatever a caller holds or has read is the record stored or an older
    revision of it, so that the revision identifies the record. A call that is told
    true therefore replaced the session that it holds;
  * `Fine`: a call that is about to delete an expired session read one that has expired, and one
    about to run a script of Redis has read the revision it holds;
  * `TakenOK`: at most one call has removed the session in order to return it.

`TogetherTypeCorrect`, `TogetherOneShot` and `TogetherRevisioned` say the same of
`SharedStores`, the specification of the run: the part that a behaviour is about keeps its
invariant, another one is as it began, and the clock they share ticks in the abstract
specifications too (`PartsInv`, `PartsStep`).

`RemoteFetchProofs` proves for any fetches, URLs, limits and timers:

* `FetchTypeCorrect`: no dimension of the budget is used beyond its limit;
* `ReservationsStayBalanced`: the concurrency in use is the cardinality of `Holders`,
  the fetches that have been started and have not ended. `Inv` adds for each fetch
  that the promise of the budgeted fetch and that of the vetted one stand in places
  that fit (`RowOK`): a body that is open has a reader, and one that has been aborted
  is closed. The counting uses the theorems of `FiniteSetTheorems` on adding and
  removing one element;
* `SendsStayVetted`: the action property `SendsAreVetted`. `VettedOK` says of each fetch that
  it has visited the URL of its hop once, that it has dispatched to every URL it visited
  except perhaps the last, and what that one has passed so far. The charges are `Slots`: a
  fetch that has started, or has been redirected, has one for the dispatch to come, so that a
  dispatch takes none, and a fetch that fails on the way gives its slot away unused. Every
  action is shown to be of one shape, a new record and a new usage that fit (`Vets`), and one
  lemma, `VettedKeeps`, does the counting for all of them.

`SharedStoresProofs` proves for any processes and clients, any finite set of sessions with any
expiries, any limits, rate and window above zero (`SessionsAssumption`), and for an index of
any keys and expiries that are numbers (`IndexAssumption`):

* `StoresKeepLimits`: `SessionLimitsHold`. A limit that is counted at one time is kept at
  another, and what is counted is not the sessions but the books beside them, which expire,
  are swept and are written by processes whose clocks lag. The inductive invariant
  `SessionInv` adds to the types
  * `NoTraces` and `LiveSessionsOK`: what is stored and lives is within the limits;
  * `AdmissionsOK`: a transaction of PostgreSQL that has inserted has the lock, and the
    sessions and creations it counted, by its own clock, have not become more until it
    commits: without the lock this is what fails (`LockIsIgnored`);
  * `BooksOK`: in memory the index is the sessions and each count the number of those of a
    client. In Redis a registry agrees for every session that has not expired, stored or
    not, as members that have expired stay until they are pruned; and no key ends before
    its session, nor the hash of owners before the last session that has one;
  * `CreationsOK`: for a client who is not overtaken the store still knows every creation
    of the last window (`WindowFine`), since the counters end a window after the last one;
    PostgreSQL knows those since its window began, before which there were no more than
    the limit (`FixedWindowFine`), whence twice the limit.
  The time of each creation is data: creations are counted as the cardinality of a set with a
  pair for each (`Stamps`), so that the theorems on finite sets and injections take the place
  of an induction (`TotalGrows` and the lemmas beside it);
* `StoresKeepBooks`: `IndexesAgree`, from the same invariant for the browser sessions and
  from `Exact` for the index of expiries;
* `IndexStaysExact`: the same for the index by itself, for any number of entries. `Exact` says
  that positions and heap are inverse to each other, with the expiry last set (`Fits`), and
  that no entry is before its parent (`Heap`). While an entry rises, no other is before its
  parent, and its children are not before *its* parent either (`UpOK`); while it sinks, none
  but its children is (`DownOK`). A turn of the loop keeps this and gets closer to the top or
  to the bottom, or else the heap is in order and nothing moves any more (`RiseTurns`,
  `SinkTurns`). `DeleteFits` needs both ways, as the last entry comes from another branch.
  `BooksOfTheStores` and `LimitsOfTheStores` say the same as the first two of the browser
  session stores by themselves.

What is proved about data and loops goes without induction theorems, which no prover here can
instantiate: the naturals are well-founded (`WFMin`, as a fact about sets), so a set of
counterexamples has a least one (`LeastOf`), and that is refuted. In this way it is shown that
the function `Loop` defines exists (`TurnsExist`) and what it computes after the last turn
(`RisenIs`, `SunkIs`), that the root is the least entry (`FirstIsLeast`), and that a finite set
of expiries has a last one. The bounds of the runs (`EndOfTime`, `MaxLag`, `CleanupLimit`) are
parameters in the proofs.

Model-checked only: liveness and fairness, which are out of the prover's reach:
`WaitersAreServed`, `EveryFetchEnds`, `CloseSettles`, `SweptForever`, `UpstreamReleased` and
`HandlerFinishes` stay with TLC. Every invariant and action property of the passing runs is
stated by a theorem.

## 5. Where code and documentation disagree

Each is one `violation` run and one entry of `findings`, with the text quoted.

* `revoke_race`: `verifySession` and the bind of the browser routes ignore the
  claim of a revocation in progress. If one of them reads the claimed record and
  writes it during the remote call, the deletion at the claimed revision fails,
  `revokeSession` answers CONFLICT, and the record with its revoked credential
  stays, claimed for ever. `docs/en/authentication-and-sessions.md` says the
  session is removed.
* `lease_life`: without `storageExpiresAt` the lease ends with the first access
  token and not after 30 days, as `docs/en/session-storage.md` says.
* `callback_fail`: the callback reads the metadata before it claims the state. A
  callback that claims with a stale copy does not see the session an earlier one
  has left for a retry, fails because the callback state is consumed, and deletes
  the only reference to that session.
* `callback_replay`: a callback that outlives its 30 second lease can delete the
  session that the next holder of the claim has attached. In the run the first callback
  fails for the time being and records its session as pending, its `release` throws, and
  its inner catch block (`auth-routes.ts:298`) deletes the session just as a second callback,
  which has claimed the state and found the pending session, signs the browser in with it.
  The deletion comes right before the attach or right after it, in runs of the same length.
  The failure path at 306 has the same effect with the parts of the two callbacks
  exchanged, in a longer run.
* Not a run of its own: `completeBrowserAuthentication` waits for the viewer query and the
  capabilities with `Promise.all` (660-668). When the capabilities fail, the catch block
  reads the session and deletes it at that revision while the viewer query is under way,
  which may verify the session in between; the outcome of the deletion is not looked at
  (741), and the session stays with live tokens and no reference. The model has the two
  steps (`CapabilitiesFail`, `LateWrite`), and where they meet a deletion a "loss" is
  recorded. Without that, `browser_auth` violates `SessionsFollowAttachments` in nine
  steps: start, completion, exchange, the capabilities fail, the session is read, the
  viewer query writes, the deletion misses.
* `server_close_fails`: `close()` waits with `Promise.all`, which rejects when the
  first startup cleanup fails, while another is still running.

## 6. What the models leave out

* Tokens, secrets, names and payloads are numbers or flags; only what decides
  which branch is taken is kept. The
  CSRF token and the session view are not modelled.
* In `AuthSessions` and `BrowserAuth` a store call either happens or fails without
  effect. A write that is committed while its answer is lost is modelled inside
  `OAuthStateStores`, `AuthSessionStores` and `CallbackSecrets`; for the catch block after
  `Attach` it is listed as a hazard.
* A store failure is modelled where it changes what happens next; elsewhere it is
  covered by the failure branch of the same step or by `Crash`.
* In `BrowserAuth`, `Start` is one step with every prefix of its writes as an
  outcome, from storing the browser session (`promote`) on: nothing between its awaits is
  looked at again, and nobody else knows of its records. The browser session it was
  resolved with may be out of date by then, so that it has no guard on the one that is
  stored. Limits on starts and admissions, which may refuse it, are those of
  `BrowserAdmission` and `StartLimiter`. `revokeSession` during logout is one step; `AuthSessions` has its
  steps. Expired records are still in the model's stores, and `Live` says whether a
  read finds them.
* Cookies are modelled by what `resolveOptional` makes of them (`Resolvable`): a browser
  session that is not stored is resolved as its cookie has it, or not at all where the
  cookie has run out, was cleared or names no anonymous session. That a stored browser
  session expires is left out.
* A viewer query that has outlived its request (`late`) is one step, `LateWrite`: it reads,
  asks and writes, and the write succeeds only if nothing was written since the read, so
  that reading just before the write gives the same outcomes. Two such queries of one
  session are one member of `late`. A logout and such a query do not meet in the model: a
  logout starts when none is left, and none is left behind after it. What a logout deletes
  is the attached session, whose revision `Use` moves between the logout's read and its
  deletion as a late query would; an attach that fails because of the logout is cleaned up
  as one that fails because another request has attached, which late queries do meet.
* `NoStrandedSession` excludes by `mishaps` the cases the two findings describe, the viewer
  query that overtakes a deletion, crashes, and bindings taken by requests of the wrong
  kind; it says that nothing else strands a session. `AttachedSessionStays` excludes a
  lapsed lease.
* In `MessageStream` what the adapters do around the generator is left out: the
  subscription message they send on the socket, the mapping of a message to events,
  and messages that come before the listeners are registered, which JavaScript
  drops. Parsing is a flag of the frame. The buffered amount of the transport is a
  refusal that `Relay` may choose in every state. A send whose callback comes twice
  is the same as one that comes once, by the flag `completed`.
* `OAuthStateStores`: a statement sent by a process that has given up on it and applied
  later is left out, as is the refusal of claims in the last 30 seconds of a state.
* `AuthSessionStores`: records that are not well formed, which a reader drops, and the
  limit on what a sweep deletes. A session is created once, as its identifier is a
  random UUID. A call that a process has given up on takes no effect later.
* `BrowserSessionStores`: the expiry of a session never changes, as no caller changes it;
  `create` is modelled although the server calls only `admit`. A script of Redis
  undoes what it has done when one of its commands fails, and deletes at most 500
  expired members at a time: neither is modelled. An admission PostgreSQL refuses
  writes nothing, so only those that succeed hold the advisory lock in the model.
  PostgreSQL counts creations in windows that do not slide: up to twice the limit may
  fall into the time of one, which `SessionLimitsHold` allows for.
* `SessionLimitsHold` leaves out clients in `overtaken`: those for which an admission
  with an older clock reading was carried out after one with a newer. `admitScript` in
  `session-redis/src/browser.ts:156` lets the key of a client's creations expire a
  window after the time the process read, and not after the newest creation. An
  overtaken admission makes it expire early, the newer creation is forgotten with it,
  and the client may create more sessions in a window than the limit. TLC finds this in
  nine steps when the exception is taken out. The delay between reading the clock
  and the script decides how early; the integration test
  (`browser.integration.test.ts:178`) makes its requests one after the other. The
  refusal of a rate-limited request (line 100) does use the newest creation.
* `RemoteFetch` and `BudgetScope`: observe mode, child scopes, carry-over, depth and
  nodes, telemetry, and bytes apart from the reads they are charged with;
  `absorb` refuses the budget of an operation that is over and still holds a
  reservation. Which addresses are acceptable and the pinned connection are left out;
  a cancellation by the vetted fetch's own controller option is one of `CallerAborts`.
  A redirect that would replay a body that cannot be replayed ends the fetch as a
  failure does.
* `ServerCalls`: one adapter; the detection of a cached entry is not aborted with its
  request; the exchange of a state whose start has not been answered, a commit that
  takes effect after the reread, and secrets that expire at the same moment as states
  are left out. Not modelled: the start limiter in Redis, a client constructor that
  throws, `retryAfterSeconds`.
* The adapters, the HTTP, GraphQL and OpenAPI layers and `core/adapters/client.ts` are
  most of the repository's lines. They validate, map and route one request's data and
  keep no state between requests, so that there is nothing for an interleaving to
  break; their streams come from `MessageStream`. They are not modelled, and the share
  of lines the models cover stays low for that reason.
* A stream for server-sent events (`browser/api-routes.ts`) consumes the same
  generator with other rules and is planned.
* A logout that deletes a browser session another tab has just signed in leaves
  the attached session in the store until it expires. The texts do not say what
  should happen, so that no property is stated; the step is in the model.

## 7. Plan

What is left, in this order:

1. The consumer for server-sent events (`browser/api-routes.ts`) as a second handler over
   `MessageStream`, and stream tickets as another implementation of a one-shot record.
2. Answers lost after a commit for sessions and attachments, in `AuthSessions` and
   `BrowserAuth`.
3. Child scopes of a budget and what `absorb` carries over; then `BrowserAdmission` takes its
   budget from `BudgetScope`.
4. The start limiter in Redis; `AuthSessions` over `RevisionedRecord` in place of its own
   store steps.

Proofs: what these add is to be proved as the rest is; of the models as they are, only the
liveness properties have no proof.
