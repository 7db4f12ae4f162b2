----------------------------- MODULE RemoteFetch -----------------------------
(***************************************************************************)
(* The remote requests of one operation: the fetch that charges the        *)
(* operation's budget (createBudgetedFetch), the fetch beneath it that     *)
(* vets every hop (createVettedFetch), and the body they hand out. Of a    *)
(* fetch, `outer` is where the promise of the first stands, and then the   *)
(* body its caller reads; `inner` is where the second stands.              *)
(*                                                                         *)
(* The remote server, the resolver and the reader of a body may each never *)
(* take their next step. An abort may come between any two steps.          *)
(***************************************************************************)
EXTENDS BudgetScope, Sequences, FiniteSets

CONSTANTS
  Fetches,       \* the fetches of the operation
  Urls, NoUrl,
  Allowed,       \* URLs whose origin the policy allows
  MaxRedirects,
  MaxBodyReads,  \* of one fetch, request and response together
  Timeout        \* timeoutMs of the vetted fetch

ASSUME FetchAssumption ==
  /\ IsFiniteSet(Fetches) /\ Allowed \subseteq Urls /\ NoUrl \notin Urls
  /\ MaxRedirects \in Nat /\ MaxBodyReads \in Nat \ {0} /\ Timeout \in Nat \ {0}

VARIABLE fetch

vars == <<budgetVars, fetch>>

\* The hops of the vetted fetch, in which its timer runs; the body is open from
\* "answered", when the budgeted fetch has not yet taken it.
Hopping == {"policy", "lookup", "prepare", "dispatch"}
Open    == {"answered", "body"}

FetchRecords ==
  [outer : {"idle", "waiting", "failed", "body", "done"},
   inner : {"none", "queued", "empty", "broken", "ended"} \cup Hopping \cup Open,
   kind : {"none", "unread", "replayable", "streaming"},  \* the body of the request
   url : Urls \cup {NoUrl},
   visited : SUBSET Urls,
   checked : SUBSET {"policy", "address"},  \* history: what has passed for this hop
   reads : 0..MaxBodyReads,
   age : 0..Timeout,
   aborted : BOOLEAN,                       \* the signal given by the caller and the deadline
   sent : Seq(Urls)]                        \* history: the URLs it was dispatched to

NotStarted ==
  [outer |-> "idle", inner |-> "none", kind |-> "none", url |-> NoUrl, visited |-> {},
   checked |-> {}, reads |-> 0, age |-> 0, aborted |-> FALSE, sent |-> <<>>]

TypeOK == BudgetTypeOK /\ fetch \in [Fetches -> FetchRecords]

Init == BudgetInit /\ fetch = [f \in Fetches |-> NotStarted]

-----------------------------------------------------------------------------

Becomes(f, r, u) ==
  /\ fetch' = [fetch EXCEPT ![f] = r]
  /\ used' = u
  /\ UNCHANGED <<limits, elapsed>>

\* A fetch whose reservation has not been released.
Holding(r) == r.outer \in {"waiting", "body"}

\* The promise or the body ends: the reservation is released, once, and the watch disposed of.
Settles(f, r, outcome, u) ==
  Becomes(f, [r EXCEPT !.outer = outcome], IF Holding(r) THEN Released(u, "concurrency") ELSE u)

\* The vetted fetch is over and its timer cleared.
Over(r) == [r EXCEPT !.inner = "ended", !.kind = "none", !.url = NoUrl, !.visited = {},
                     !.checked = {}, !.reads = 0, !.age = 0]

\* It throws: what waits for it throws as well.
InnerFails(f, r, u) ==
  IF r.outer = "waiting" THEN Settles(f, Over(r), "failed", u) ELSE Becomes(f, Over(r), u)

\* Only what the budget still has is charged; an exhausted dimension throws.
Start(f) ==
  /\ fetch[f].outer = "idle"
  /\ IF ~InTime \/ ~Room(used, "requests")
     THEN Becomes(f, [fetch[f] EXCEPT !.outer = "failed"], used)
     ELSE LET u == Charged(used, "requests") IN
          IF ~Room(u, "concurrency")
          THEN Becomes(f, [fetch[f] EXCEPT !.outer = "failed"], u)
          ELSE \E k \in {"none", "unread"} :
                 Becomes(f, [fetch[f] EXCEPT !.outer = "waiting", !.inner = "queued", !.kind = k],
                         Charged(u, "concurrency"))

\* A URL is visited any number of times.
EntersHopAgain(f, r, redirected) ==
  LET u == IF redirected THEN Charged(used, "requests") ELSE used IN
  IF ~InTime \/ (redirected /\ ~Room(used, "requests"))
  THEN InnerFails(f, r, used)
  ELSE IF r.aborted
       THEN InnerFails(f, r, u)
       ELSE Becomes(f, [r EXCEPT !.inner = "policy", !.visited = @ \cup {r.url}, !.checked = {}], u)

\* One round of the loop up to the first await. A redirect is charged as a request.
EntersHop(f, r, redirected) ==
  LET u == IF redirected THEN Charged(used, "requests") ELSE used IN
  IF ~InTime \/ (redirected /\ ~Room(used, "requests"))
  THEN InnerFails(f, r, used)
  ELSE IF r.aborted \/ r.url \in r.visited
       THEN InnerFails(f, r, u)
       ELSE Becomes(f, [r EXCEPT !.inner = "policy", !.visited = @ \cup {r.url}, !.checked = {}], u)

InnerStarts(f) ==
  /\ fetch[f].inner = "queued"
  /\ \E url \in Urls : EntersHop(f, [fetch[f] EXCEPT !.url = url], FALSE)

PolicyAnswers(f) ==
  /\ fetch[f].inner = "policy"
  /\ IF fetch[f].url \in Allowed
     THEN Becomes(f, [fetch[f] EXCEPT !.inner = "lookup", !.checked = @ \cup {"policy"}], used)
     ELSE InnerFails(f, fetch[f], used)

Dispatches(f, r, u) ==
  IF InTime
  THEN Becomes(f, [r EXCEPT !.inner = "dispatch", !.sent = Append(@, r.url)], u)
  ELSE InnerFails(f, r, u)

\* Every address must be acceptable, and there must be one.
LookupAnswers(f) ==
  /\ fetch[f].inner = "lookup"
  /\ \/ LET r == [fetch[f] EXCEPT !.checked = @ \cup {"address"}] IN
        IF r.kind = "unread"
        THEN Becomes(f, [r EXCEPT !.inner = "prepare"], used)
        ELSE Dispatches(f, r, used)
     \/ InnerFails(f, fetch[f], used)

-----------------------------------------------------------------------------
(* Bodies *)

\* consumeBodyRead: the fetch's own limit first, then the budget of the operation.
MayRead(r) == r.reads < MaxBodyReads /\ InTime /\ Room(used, "reads")

Read(r) == [r EXCEPT !.reads = @ + 1]

\* The body of the request is read before the first dispatch, until it ends or exceeds
\* what may be kept for a redirect; then the rest is forwarded while the remote answers.
PrepareReads(f) ==
  /\ fetch[f].inner = "prepare"
  /\ IF MayRead(fetch[f])
     THEN LET r == Read(fetch[f]) IN
          \/ Becomes(f, r, Charged(used, "reads"))
          \/ Dispatches(f, [r EXCEPT !.kind = "streaming"], Charged(used, "reads"))
     ELSE InnerFails(f, fetch[f], used)

PrepareEnds(f) ==
  /\ fetch[f].inner = "prepare"
  /\ \/ Dispatches(f, [fetch[f] EXCEPT !.kind = "replayable"], used)
     \/ InnerFails(f, fetch[f], used)

ForwardReads(f) ==
  /\ fetch[f].inner = "dispatch" /\ fetch[f].kind = "streaming"
  /\ IF MayRead(fetch[f])
     THEN Becomes(f, Read(fetch[f]), Charged(used, "reads"))
     ELSE InnerFails(f, fetch[f], used)

-----------------------------------------------------------------------------
(* Answers *)

Hops(r) == Cardinality(r.visited) - 1

RemoteRedirects(f) ==
  /\ fetch[f].inner = "dispatch"
  /\ \E url \in Urls, keepsBody \in BOOLEAN :
       IF Hops(fetch[f]) >= MaxRedirects \/ (keepsBody /\ fetch[f].kind = "streaming")
       THEN InnerFails(f, fetch[f], used)
       ELSE EntersHop(f, [fetch[f] EXCEPT !.url = url, !.kind = IF keepsBody THEN @ ELSE "none"],
                      TRUE)

\* The answer, with or without a body; without one the timer is cleared.
RemoteAnswers(f) ==
  /\ fetch[f].inner = "dispatch"
  /\ \/ Becomes(f, [fetch[f] EXCEPT !.inner = "answered"], used)
     \/ Becomes(f, [Over(fetch[f]) EXCEPT !.inner = "empty"], used)

RemoteFails(f) ==
  /\ fetch[f].inner = "dispatch"
  /\ InnerFails(f, fetch[f], used)

\* A response that comes when the promise has been rejected is cancelled.
LateAnswer(f) == Becomes(f, Over(fetch[f]), used)

\* The budgeted fetch gets the response; "broken" is one whose body has failed meanwhile.
OuterTakes(f) ==
  /\ fetch[f].inner \in {"answered", "broken", "empty"}
  /\ LET r == fetch[f] IN
     CASE r.outer = "failed" -> LateAnswer(f)
       [] r.outer = "waiting" /\ ~InTime -> InnerFails(f, r, used)
       [] r.outer = "waiting" /\ InTime /\ r.inner = "empty" -> Settles(f, Over(r), "done", used)
       [] r.outer = "waiting" /\ InTime /\ r.inner = "broken" ->
            Becomes(f, [Over(r) EXCEPT !.outer = "body"], used)
       [] OTHER -> Becomes(f, [r EXCEPT !.outer = "body", !.inner = "body"], used)

-----------------------------------------------------------------------------
(* The body of the response, and its reader *)

Chunk(f) ==
  /\ fetch[f].inner = "body"
  /\ \/ MayRead(fetch[f]) /\ Becomes(f, Read(fetch[f]), Charged(used, "reads"))
     \/ ~MayRead(fetch[f]) /\ Becomes(f, Over(fetch[f]), used)

\* It ends, or fails: with an error of the remote, or with too many bytes.
BodyEnds(f) ==
  /\ fetch[f].inner = "body"
  /\ Becomes(f, Over(fetch[f]), used)

\* The reader learns it when it reads on.
ReaderNotices(f) ==
  /\ fetch[f].outer = "body" /\ fetch[f].inner = "ended"
  /\ Settles(f, fetch[f], "done", used)

\* The reservation is kept.
CancelledUnreleased(f) == Becomes(f, [Over(fetch[f]) EXCEPT !.outer = "done"], used)

Cancelled(f) == Settles(f, Over(fetch[f]), "done", used)

ReaderCancels(f) ==
  /\ fetch[f].outer = "body"
  /\ Cancelled(f)

-----------------------------------------------------------------------------
(* Aborts and timers *)

\* The vetted fetch hears of an abort where it waits; one that is queued finds it when it
\* starts. A body not yet taken is broken.
Interrupted(r) ==
  IF r.inner \in Hopping \cup {"body"} THEN Over(r)
  ELSE IF r.inner = "answered" THEN [Over(r) EXCEPT !.inner = "broken"]
  ELSE r

Aborts(f) ==
  /\ Holding(fetch[f])
  /\ Settles(f, [Interrupted(fetch[f]) EXCEPT !.aborted = TRUE],
             IF fetch[f].outer = "waiting" THEN "failed" ELSE "done", used)

CallerAborts(f) == Aborts(f)

WatchFires(f) == ~InTime /\ Aborts(f)

\* The timer of the vetted fetch does not reach the resolver.
TimedWithoutLookup(r) == r.inner \in (Hopping \ {"lookup"}) \cup Open /\ r.age = Timeout

Timed(r) == r.inner \in Hopping \cup Open /\ r.age = Timeout

TimerFires(f) ==
  /\ Timed(fetch[f])
  /\ IF fetch[f].inner \in Hopping
     THEN InnerFails(f, fetch[f], used)
     ELSE Becomes(f, Interrupted(fetch[f]), used)

Tick ==
  /\ elapsed' = IF elapsed < EndOfTime THEN elapsed + 1 ELSE elapsed
  /\ fetch' = [f \in Fetches |->
                 IF fetch[f].inner \in Hopping \cup Open /\ fetch[f].age < Timeout
                 THEN [fetch[f] EXCEPT !.age = @ + 1]
                 ELSE fetch[f]]
  /\ UNCHANGED <<limits, used>>

-----------------------------------------------------------------------------

Next ==
  \/ Tick
  \/ \E f \in Fetches :
       \/ Start(f) \/ InnerStarts(f) \/ PolicyAnswers(f) \/ LookupAnswers(f)
       \/ PrepareReads(f) \/ PrepareEnds(f) \/ ForwardReads(f)
       \/ RemoteRedirects(f) \/ RemoteAnswers(f) \/ RemoteFails(f) \/ OuterTakes(f)
       \/ Chunk(f) \/ BodyEnds(f) \/ ReaderNotices(f) \/ ReaderCancels(f)
       \/ CallerAborts(f) \/ WatchFires(f) \/ TimerFires(f)

\* Time passes, timers fire and what is queued in the process runs. Nothing is assumed of
\* the remote server, the resolver, the policy and the reader.
Fairness ==
  /\ WF_vars(Tick)
  /\ \A f \in Fetches :
       WF_vars(InnerStarts(f)) /\ WF_vars(OuterTakes(f))
       /\ WF_vars(WatchFires(f)) /\ WF_vars(TimerFires(f))

Spec == Init /\ [][Next]_vars /\ Fairness

-----------------------------------------------------------------------------

\* The concurrency in use is the number of fetches that wait for a response or whose body
\* is open: a reservation is released when its fetch has ended, by any of its ways to end,
\* and once (absorb refuses the budget of an operation that is over and still holds one).
\* And a body that is open has its reader: that of a response which comes after its fetch
\* has been aborted does not stay open.
ReservationsBalanced ==
  /\ used["concurrency"] = Cardinality({f \in Fetches : Holding(fetch[f])})
  /\ \A f \in Fetches : fetch[f].inner = "body" => fetch[f].outer = "body"

Sent(r) == {r.sent[i] : i \in DOMAIN r.sent}

\* The dispatches of all fetches: each is a fetch and a number.
Dispatched(fs) == UNION {{f} \X (1..Len(fs[f].sent)) : f \in Fetches}

\* A request is dispatched only to a URL that has passed the policy and the address check
\* since the fetch was directed there, and that the fetch has not visited before; after at
\* most MaxRedirects redirects; and every dispatch of the operation has been charged.
SendsAreVetted ==
  [][ /\ \A f \in Fetches :
           fetch'[f].sent # fetch[f].sent =>
             /\ fetch'[f].checked = {"policy", "address"}
             /\ fetch'[f].url \notin Sent(fetch[f])
             /\ Len(fetch[f].sent) <= MaxRedirects
      /\ Cardinality(Dispatched(fetch')) <= used'["requests"] ]_vars

\* A fetch settles whatever the remote server does, through the timer of the vetted fetch;
\* and under the deadline of an operation the body it gave ends too, whatever its reader does.
EveryFetchEnds ==
  \A f \in Fetches :
    /\ fetch[f].outer = "waiting" ~> fetch[f].outer # "waiting"
    /\ limits.deadline # NoLimit /\ fetch[f].outer = "body" ~> fetch[f].outer = "done"
=============================================================================
