------------------------- MODULE RemoteFetchProofs -------------------------
(***************************************************************************)
(* For every set of fetches, limits and URLs: the state has its type, no   *)
(* dimension of the budget exceeds its limit, the concurrency in use is    *)
(* the number of fetches that hold a reservation, and what is dispatched   *)
(* has been vetted and charged.                                            *)
(***************************************************************************)
EXTENDS RemoteFetch, FiniteSetTheorems, TLAPS

Holders == {f \in Fetches : Holding(fetch[f])}

\* Where the vetted fetch has not yet given its response away, its caller waits or has failed.
Early == {"queued", "answered", "broken", "empty"} \cup Hopping

RowOK(r) ==
  /\ r.inner \in Early => r.outer \in {"waiting", "failed"}
  /\ r.inner = "body" => r.outer = "body"
  /\ r.inner \in Hopping => r.url \in Urls

Inv ==
  /\ TypeOK
  /\ \A f \in Fetches : RowOK(fetch[f])
  /\ used.concurrency = Cardinality(Holders)

UsageOK(u) ==
  /\ u \in [requests : Nat, reads : Nat, concurrency : Nat]
  /\ \A d \in {"requests", "reads", "concurrency"} : u[d] <= limits[d]

LEMMA LimitsAreNumbers ==
  ASSUME Inv PROVE limits.requests \in Nat /\ limits.reads \in Nat /\ limits.concurrency \in Nat
  BY BudgetAssumption DEF Inv, TypeOK, BudgetTypeOK

LEMMA InitInv == Init => Inv
<1> SUFFICES ASSUME Init PROVE Inv
  OBVIOUS
<1>1. BudgetTypeOK
  BY BudgetAssumption DEF Init, BudgetInit, BudgetTypeOK, Unused
<1>2. NotStarted \in FetchRecords
  BY FetchAssumption DEF NotStarted, FetchRecords
<1>3. fetch \in [Fetches -> FetchRecords]
  BY <1>2 DEF Init
<1>4. \A f \in Fetches : RowOK(fetch[f])
  BY DEF Init, NotStarted, RowOK, Early, Hopping
<1>5. Holders = {}
  BY DEF Init, NotStarted, Holders, Holding
<1>6. used.concurrency = Cardinality(Holders)
  BY <1>5, FS_EmptySet DEF Init, BudgetInit, Unused
<1> QED
  BY <1>1, <1>3, <1>4, <1>6 DEF Inv, TypeOK

-----------------------------------------------------------------------------
(* A step of one fetch: what its new record and the new usage must satisfy  *)

Moves(f, r, u) ==
  /\ r \in FetchRecords /\ RowOK(r) /\ UsageOK(u)
  /\ u.concurrency + (IF Holding(fetch[f]) THEN 1 ELSE 0)
       = used.concurrency + (IF Holding(r) THEN 1 ELSE 0)

LEMMA HoldersAreFinite == IsFiniteSet(Holders)
  BY FetchAssumption, FS_Subset DEF Holders

LEMMA MoveStep ==
  ASSUME Inv, NEW f \in Fetches, NEW r, NEW u, Moves(f, r, u), Becomes(f, r, u)
  PROVE  Inv'
<1>1. /\ fetch' = [fetch EXCEPT ![f] = r]
      /\ fetch' \in [Fetches -> FetchRecords]
      /\ used' = u /\ limits' = limits /\ elapsed' = elapsed
  BY DEF Becomes, Moves, Inv, TypeOK
<1>2. BudgetTypeOK'
  BY <1>1 DEF Inv, TypeOK, BudgetTypeOK, Moves, UsageOK
<1>3. \A g \in Fetches : RowOK(fetch'[g])
  BY <1>1 DEF Inv, TypeOK, Moves
<1>4. /\ IsFiniteSet(Holders) /\ Cardinality(Holders) = used.concurrency
      /\ used.concurrency \in Nat /\ u.concurrency \in Nat
  BY HoldersAreFinite DEF Inv, TypeOK, BudgetTypeOK, Moves, UsageOK
<1>5. Holders' = IF Holding(r) THEN Holders \cup {f} ELSE Holders \ {f}
  BY <1>1 DEF Holders, Inv, TypeOK
<1>6. Holding(fetch[f]) <=> f \in Holders
  BY DEF Holders
<1>7. used'["concurrency"] = Cardinality(Holders')
  <2>1. CASE Holding(r)
    <3>1. Cardinality(Holders \cup {f})
            = IF f \in Holders THEN Cardinality(Holders) ELSE Cardinality(Holders) + 1
      BY <1>4, FS_AddElement
    <3> QED
      BY <3>1, <2>1, <1>1, <1>4, <1>5, <1>6 DEF Moves
  <2>2. CASE ~Holding(r)
    <3>1. Cardinality(Holders \ {f})
            = IF f \in Holders THEN Cardinality(Holders) - 1 ELSE Cardinality(Holders)
      BY <1>4, FS_RemoveElement
    <3> QED
      BY <3>1, <2>2, <1>1, <1>4, <1>5, <1>6 DEF Moves
  <2> QED
    BY <2>1, <2>2
<1> QED
  BY <1>1, <1>2, <1>3, <1>7 DEF Inv, TypeOK

\* A change of the vetted fetch, with what has been charged.
Alike(f, r, u) ==
  /\ r \in FetchRecords /\ r.outer = fetch[f].outer
  /\ UsageOK(u) /\ u.concurrency = used.concurrency

LEMMA AlikeMoves ==
  ASSUME NEW f \in Fetches, NEW r, NEW u, Alike(f, r, u), RowOK(r)
  PROVE  Moves(f, r, u)
  BY DEF Alike, Moves, Holding, UsageOK

LEMMA HolderCounts ==
  ASSUME Inv, NEW f \in Fetches, Holding(fetch[f])
  PROVE  used.concurrency > 0
<1>1. f \in Holders
  BY DEF Holders
<1>2. IsFiniteSet(Holders) /\ Cardinality(Holders) # 0
  BY <1>1, HoldersAreFinite, FS_EmptySet
<1> QED
  BY <1>2, FS_CardinalityType DEF Inv

LEMMA ReleaseUsage ==
  ASSUME NEW u, UsageOK(u), u.concurrency > 0,
         limits.requests \in Nat, limits.reads \in Nat, limits.concurrency \in Nat
  PROVE  /\ UsageOK(Released(u, "concurrency"))
         /\ Released(u, "concurrency").concurrency = u.concurrency - 1
  BY DEF Released, UsageOK

LEMMA ChargeUsage ==
  ASSUME NEW u, UsageOK(u), NEW d \in {"requests", "reads", "concurrency"}, Room(u, d),
         limits.requests \in Nat, limits.reads \in Nat, limits.concurrency \in Nat
  PROVE  /\ UsageOK(Charged(u, d))
         /\ Charged(u, d).concurrency = IF d = "concurrency" THEN u.concurrency + 1
                                                            ELSE u.concurrency
  BY DEF Charged, UsageOK, Room

LEMMA UsageNow == Inv => UsageOK(used)
  BY DEF Inv, TypeOK, BudgetTypeOK, UsageOK

LEMMA SettlesStep ==
  ASSUME Inv, NEW f \in Fetches, NEW r, NEW u, NEW outcome \in {"failed", "done"},
         Alike(f, r, u), RowOK([r EXCEPT !.outer = outcome]), Settles(f, r, outcome, u)
  PROVE  Inv'
<1> DEFINE v == IF Holding(r) THEN Released(u, "concurrency") ELSE u
           s == [r EXCEPT !.outer = outcome]
<1>1. Becomes(f, s, v)
  BY DEF Settles
<1>2. s \in FetchRecords /\ ~Holding(s)
  BY DEF Alike, FetchRecords, Holding
<1>3. Holding(r) <=> Holding(fetch[f])
  BY DEF Alike, Holding
<1>4. Holding(r) => u.concurrency > 0
  BY <1>3, HolderCounts DEF Alike
<1>5. UsageOK(v) /\ v.concurrency = u.concurrency - (IF Holding(r) THEN 1 ELSE 0)
  BY <1>4, ReleaseUsage, LimitsAreNumbers DEF Alike, UsageOK
<1>6. Moves(f, s, v)
  BY <1>2, <1>3, <1>5 DEF Moves, Alike, UsageOK
<1> QED
  BY <1>1, <1>6, MoveStep

LEMMA OverRecord ==
  ASSUME NEW r \in FetchRecords
  PROVE  /\ Over(r) \in FetchRecords /\ Over(r).outer = r.outer /\ Over(r).inner = "ended"
         /\ RowOK(Over(r)) /\ \A o : RowOK([Over(r) EXCEPT !.outer = o])
<1>1. 0 \in 0..MaxBodyReads /\ 0 \in 0..Timeout
  BY FetchAssumption
<1>2. Over(r) \in FetchRecords /\ Over(r).outer = r.outer /\ Over(r).inner = "ended"
  BY <1>1 DEF Over, FetchRecords
<1>3. \A o : [Over(r) EXCEPT !.outer = o].inner = "ended"
  BY <1>2 DEF FetchRecords
<1> QED
  BY <1>2, <1>3 DEF RowOK, Early, Hopping

LEMMA InnerFailsStep ==
  ASSUME Inv, NEW f \in Fetches, NEW r, NEW u, Alike(f, r, u), InnerFails(f, r, u)
  PROVE  Inv'
<1>1. Alike(f, Over(r), u)
  BY OverRecord DEF Alike
<1>2. CASE r.outer = "waiting"
  <2>1. Settles(f, Over(r), "failed", u)
    BY <1>2 DEF InnerFails
  <2> QED
    BY <1>1, <2>1, OverRecord, SettlesStep DEF Alike
<1>3. CASE r.outer # "waiting"
  <2>1. Becomes(f, Over(r), u)
    BY <1>3 DEF InnerFails
  <2> QED
    BY <1>1, <2>1, OverRecord, AlikeMoves, MoveStep DEF Alike
<1> QED
  BY <1>2, <1>3

LEMMA EntersHopStep ==
  ASSUME Inv, NEW f \in Fetches, NEW r, NEW redirected \in BOOLEAN, Alike(f, r, used),
         r.outer \in {"waiting", "failed"}, r.url \in Urls, EntersHop(f, r, redirected)
  PROVE  Inv'
<1> DEFINE u == IF redirected THEN Charged(used, "requests") ELSE used
           s == [r EXCEPT !.inner = "policy", !.visited = @ \cup {r.url}, !.checked = {}]
<1>1. CASE ~InTime \/ (redirected /\ ~Room(used, "requests"))
  BY <1>1, InnerFailsStep DEF EntersHop
<1>2. CASE InTime /\ (redirected => Room(used, "requests"))
  <2>1. UsageOK(u) /\ u.concurrency = used.concurrency
    BY <1>2, ChargeUsage, LimitsAreNumbers DEF Alike
  <2>2. Alike(f, r, u)
    BY <2>1 DEF Alike
  <2>3. CASE r.aborted \/ r.url \in r.visited
    BY <1>2, <2>2, <2>3, InnerFailsStep DEF EntersHop
  <2>4. CASE ~(r.aborted \/ r.url \in r.visited)
    <3>1. Becomes(f, s, u)
      BY <1>2, <2>4 DEF EntersHop
    <3>2. s \in FetchRecords /\ s.outer = r.outer /\ RowOK(s)
      BY DEF Alike, FetchRecords, RowOK, Early, Hopping
    <3>3. Alike(f, s, u)
      BY <2>2, <3>2 DEF Alike
    <3> QED
      BY <3>1, <3>2, <3>3, AlikeMoves, MoveStep
  <2> QED
    BY <2>3, <2>4
<1> QED
  BY <1>1, <1>2

LEMMA DispatchesStep ==
  ASSUME Inv, NEW f \in Fetches, NEW r, NEW u, Alike(f, r, u),
         r.outer \in {"waiting", "failed"}, r.url \in Urls, Dispatches(f, r, u)
  PROVE  Inv'
<1> DEFINE s == [r EXCEPT !.inner = "dispatch", !.sent = Append(@, r.url)]
<1>1. CASE InTime
  <2>1. Becomes(f, s, u)
    BY <1>1 DEF Dispatches
  <2>2. Append(r.sent, r.url) \in Seq(Urls)
    BY DEF Alike, FetchRecords
  <2>3. s \in FetchRecords /\ s.outer = r.outer /\ RowOK(s)
    BY <2>2 DEF Alike, FetchRecords, RowOK, Early, Hopping
  <2>4. Alike(f, s, u)
    BY <2>3 DEF Alike
  <2> QED
    BY <2>1, <2>3, <2>4, AlikeMoves, MoveStep
<1>2. CASE ~InTime
  BY <1>2, InnerFailsStep DEF Dispatches
<1> QED
  BY <1>1, <1>2

-----------------------------------------------------------------------------
(* The actions *)

LEMMA StateFacts ==
  ASSUME Inv, NEW f \in Fetches
  PROVE  /\ fetch[f] \in FetchRecords /\ RowOK(fetch[f]) /\ Alike(f, fetch[f], used)
         /\ UsageOK(used)
  BY UsageNow DEF Inv, TypeOK, Alike

LEMMA StartInv ==
  ASSUME Inv, NEW f \in Fetches, Start(f) PROVE Inv'
<1> DEFINE r == fetch[f]
           refused == [r EXCEPT !.outer = "failed"]
           u == Charged(used, "requests")
<1>1. /\ r \in FetchRecords /\ RowOK(r) /\ r.outer = "idle"
      /\ UsageOK(used)
  BY StateFacts DEF Start
<1>2. /\ refused \in FetchRecords /\ RowOK(refused)
      /\ ~Holding(refused) /\ ~Holding(r)
  BY <1>1 DEF FetchRecords, RowOK, Holding, Early
<1>3. CASE ~InTime \/ ~Room(used, "requests")
  <2>1. Becomes(f, refused, used)
    BY <1>3 DEF Start
  <2>2. Moves(f, refused, used)
    BY <1>1, <1>2 DEF Moves
  <2> QED
    BY <2>1, <2>2, MoveStep
<1>4. CASE InTime /\ Room(used, "requests")
  <2>1. UsageOK(u) /\ u.concurrency = used.concurrency
    BY <1>1, <1>4, ChargeUsage, LimitsAreNumbers
  <2>2. CASE ~Room(u, "concurrency")
    <3>1. Becomes(f, refused, u)
      BY <1>4, <2>2 DEF Start
    <3>2. Moves(f, refused, u)
      BY <1>2, <2>1 DEF Moves
    <3> QED
      BY <3>1, <3>2, MoveStep
  <2>3. CASE Room(u, "concurrency")
    <3> DEFINE w == Charged(u, "concurrency")
    <3>1. UsageOK(w) /\ w.concurrency = used.concurrency + 1
      BY <2>1, <2>3, ChargeUsage, LimitsAreNumbers
    <3>2. PICK k \in {"none", "unread"} :
            Becomes(f, [r EXCEPT !.outer = "waiting", !.inner = "queued", !.kind = k], w)
      BY <1>4, <2>3 DEF Start
    <3> DEFINE s == [r EXCEPT !.outer = "waiting", !.inner = "queued", !.kind = k]
    <3>3. s \in FetchRecords /\ RowOK(s) /\ Holding(s)
      BY <1>1 DEF FetchRecords, RowOK, Holding, Early, Hopping
    <3>4. Moves(f, s, w)
      BY <1>2, <3>1, <3>3 DEF Moves, UsageOK
    <3> QED
      BY <3>2, <3>4, MoveStep
  <2> QED
    BY <2>2, <2>3
<1> QED
  BY <1>3, <1>4

\* The steps of the vetted fetch before there is an answer.
LEMMA HopInv ==
  ASSUME Inv, NEW f \in Fetches,
         InnerStarts(f) \/ PolicyAnswers(f) \/ LookupAnswers(f) \/ RemoteRedirects(f) \/ RemoteFails(f)
  PROVE  Inv'
<1> DEFINE r == fetch[f]
<1>1. r \in FetchRecords /\ RowOK(r) /\ Alike(f, r, used) /\ UsageOK(used)
  BY StateFacts
<1>2. CASE InnerStarts(f)
  <2>1. r.outer \in {"waiting", "failed"}
    BY <1>1, <1>2 DEF InnerStarts, RowOK, Early
  <2>2. PICK url \in Urls : EntersHop(f, [r EXCEPT !.url = url], FALSE)
    BY <1>2 DEF InnerStarts
  <2> DEFINE s == [r EXCEPT !.url = url]
  <2>3. s \in FetchRecords /\ s.outer = r.outer /\ s.url \in Urls
    BY <1>1 DEF FetchRecords
  <2>4. Alike(f, s, used)
    BY <1>1, <2>3 DEF Alike
  <2> QED
    BY <2>1, <2>2, <2>3, <2>4, EntersHopStep
<1>3. CASE PolicyAnswers(f)
  <2> DEFINE s == [r EXCEPT !.inner = "lookup", !.checked = @ \cup {"policy"}]
  <2>1. s \in FetchRecords /\ s.outer = r.outer /\ RowOK(s)
    BY <1>1, <1>3 DEF PolicyAnswers, FetchRecords, RowOK, Early, Hopping
  <2>2. Alike(f, s, used)
    BY <1>1, <2>1 DEF Alike
  <2>3. CASE r.url \in Allowed
    BY <1>3, <2>1, <2>2, <2>3, AlikeMoves, MoveStep DEF PolicyAnswers
  <2>4. CASE r.url \notin Allowed
    BY <1>1, <1>3, <2>4, InnerFailsStep DEF PolicyAnswers
  <2> QED
    BY <2>3, <2>4
<1>4. CASE LookupAnswers(f)
  <2> DEFINE s == [r EXCEPT !.checked = @ \cup {"address"}]
             t == [s EXCEPT !.inner = "prepare"]
  <2>1. /\ s \in FetchRecords /\ s.outer = r.outer /\ s.url = r.url
        /\ t \in FetchRecords /\ t.outer = r.outer
    BY <1>1 DEF FetchRecords, Hopping
  <2>2. s.url \in Urls /\ s.outer \in {"waiting", "failed"} /\ RowOK(t)
    BY <1>1, <1>4, <2>1 DEF LookupAnswers, RowOK, Early, Hopping, FetchRecords
  <2>3. Alike(f, s, used) /\ Alike(f, t, used)
    BY <1>1, <2>1 DEF Alike
  <2>4. CASE InnerFails(f, r, used)
    BY <1>1, <2>4, InnerFailsStep
  <2>5. CASE Becomes(f, t, used)
    BY <2>2, <2>3, <2>5, AlikeMoves, MoveStep
  <2>6. CASE Dispatches(f, s, used)
    BY <2>2, <2>3, <2>6, DispatchesStep
  <2> QED
    BY <1>4, <2>4, <2>5, <2>6 DEF LookupAnswers
<1>5. CASE RemoteRedirects(f)
  <2>1. PICK url \in Urls, keepsBody \in BOOLEAN :
          \/ InnerFails(f, r, used)
          \/ EntersHop(f, [r EXCEPT !.url = url, !.kind = IF keepsBody THEN @ ELSE "none"], TRUE)
    BY <1>5 DEF RemoteRedirects
  <2> DEFINE s == [r EXCEPT !.url = url, !.kind = IF keepsBody THEN @ ELSE "none"]
  <2>2. s \in FetchRecords /\ s.outer = r.outer /\ s.url \in Urls
    BY <1>1 DEF FetchRecords
  <2>3. r.outer \in {"waiting", "failed"}
    BY <1>1, <1>5 DEF RemoteRedirects, RowOK, Early, Hopping
  <2>4. Alike(f, s, used)
    BY <1>1, <2>2 DEF Alike
  <2>5. CASE InnerFails(f, r, used)
    BY <1>1, <2>5, InnerFailsStep
  <2>6. CASE EntersHop(f, s, TRUE)
    BY <2>2, <2>3, <2>4, <2>6, EntersHopStep
  <2> QED
    BY <2>1, <2>5, <2>6
<1>6. CASE RemoteFails(f)
  BY <1>1, <1>6, InnerFailsStep DEF RemoteFails
<1> QED
  BY <1>2, <1>3, <1>4, <1>5, <1>6

\* The steps that read the body of the request, or of the response.
LEMMA ReadUsage ==
  ASSUME Inv, NEW f \in Fetches, NEW r \in FetchRecords, r.outer = fetch[f].outer, MayRead(r)
  PROVE  Alike(f, Read(r), Charged(used, "reads"))
<1>1. UsageOK(Charged(used, "reads")) /\ Charged(used, "reads").concurrency = used.concurrency
  BY UsageNow, ChargeUsage, LimitsAreNumbers DEF MayRead
<1>2. r.reads + 1 \in 0..MaxBodyReads
  BY FetchAssumption DEF MayRead, FetchRecords
<1>3. Read(r) \in FetchRecords /\ Read(r).outer = r.outer
  BY <1>2 DEF Read, FetchRecords
<1> QED
  BY <1>1, <1>3 DEF Alike

LEMMA ReadRecord ==
  ASSUME NEW r \in FetchRecords, RowOK(r)
  PROVE  RowOK(Read(r)) /\ Read(r).inner = r.inner /\ Read(r).url = r.url
  BY DEF Read, RowOK, FetchRecords

LEMMA BodyInv ==
  ASSUME Inv, NEW f \in Fetches,
         PrepareReads(f) \/ PrepareEnds(f) \/ ForwardReads(f) \/ Chunk(f) \/ BodyEnds(f)
  PROVE  Inv'
<1> DEFINE r == fetch[f]
           u == Charged(used, "reads")
<1>1. r \in FetchRecords /\ RowOK(r) /\ Alike(f, r, used) /\ UsageOK(used)
  BY StateFacts
<1>2. MayRead(r) => /\ Alike(f, Read(r), u) /\ RowOK(Read(r))
                    /\ Read(r).url = r.url /\ Read(r) \in FetchRecords
  BY <1>1, ReadUsage, ReadRecord DEF Alike
<1>3. r.inner = "prepare" => r.url \in Urls /\ r.outer \in {"waiting", "failed"}
  BY <1>1 DEF RowOK, Early, Hopping
<1>4. Alike(f, Over(r), used) /\ RowOK(Over(r))
  BY <1>1, OverRecord DEF Alike
<1>5. CASE PrepareReads(f)
  <2> DEFINE s == [Read(r) EXCEPT !.kind = "streaming"]
  <2>1. CASE MayRead(r) /\ Becomes(f, Read(r), u)
    BY <1>2, <2>1, AlikeMoves, MoveStep
  <2>2. CASE MayRead(r) /\ Dispatches(f, s, u)
    <3>1. s \in FetchRecords /\ s.outer = r.outer /\ s.url = r.url
      BY <1>2, <2>2 DEF FetchRecords, Alike
    <3>2. Alike(f, s, u)
      BY <1>2, <2>2, <3>1 DEF Alike
    <3> QED
      BY <1>3, <1>5, <2>2, <3>1, <3>2, DispatchesStep DEF PrepareReads
  <2>3. CASE ~MayRead(r)
    BY <1>1, <1>5, <2>3, InnerFailsStep DEF PrepareReads
  <2> QED
    BY <1>5, <2>1, <2>2, <2>3 DEF PrepareReads
<1>6. CASE PrepareEnds(f)
  <2> DEFINE s == [r EXCEPT !.kind = "replayable"]
  <2>1. s \in FetchRecords /\ s.outer = r.outer /\ s.url = r.url
    BY <1>1 DEF FetchRecords
  <2>2. Alike(f, s, used)
    BY <1>1, <2>1 DEF Alike
  <2>3. Dispatches(f, s, used) => Inv'
    BY <1>3, <1>6, <2>1, <2>2, DispatchesStep DEF PrepareEnds
  <2> QED
    BY <1>1, <1>6, <2>3, InnerFailsStep DEF PrepareEnds
<1>7. CASE ForwardReads(f)
  <2>1. CASE MayRead(r)
    BY <1>2, <1>7, <2>1, AlikeMoves, MoveStep DEF ForwardReads
  <2>2. CASE ~MayRead(r)
    BY <1>1, <1>7, <2>2, InnerFailsStep DEF ForwardReads
  <2> QED
    BY <2>1, <2>2
<1>8. CASE Chunk(f)
  <2>1. CASE MayRead(r)
    BY <1>2, <1>8, <2>1, AlikeMoves, MoveStep DEF Chunk
  <2>2. CASE ~MayRead(r)
    BY <1>4, <1>8, <2>2, AlikeMoves, MoveStep DEF Chunk
  <2> QED
    BY <2>1, <2>2
<1>9. CASE BodyEnds(f)
  BY <1>4, <1>9, AlikeMoves, MoveStep DEF BodyEnds
<1> QED
  BY <1>5, <1>6, <1>7, <1>8, <1>9

\* The answer on its way to the caller.
LEMMA AnswerInv ==
  ASSUME Inv, NEW f \in Fetches, RemoteAnswers(f) \/ OuterTakes(f)
  PROVE  Inv'
<1> DEFINE r == fetch[f]
<1>1. r \in FetchRecords /\ RowOK(r) /\ Alike(f, r, used) /\ UsageOK(used)
  BY StateFacts
<1>2. /\ Alike(f, Over(r), used) /\ RowOK(Over(r)) /\ Over(r) \in FetchRecords
      /\ Over(r).outer = r.outer
      /\ \A o : RowOK([Over(r) EXCEPT !.outer = o])
  BY <1>1, OverRecord DEF Alike
<1>3. CASE RemoteAnswers(f)
  <2> DEFINE s == [r EXCEPT !.inner = "answered"]
             t == [Over(r) EXCEPT !.inner = "empty"]
  <2>1. r.outer \in {"waiting", "failed"}
    BY <1>1, <1>3 DEF RemoteAnswers, RowOK, Early, Hopping
  <2>2. s \in FetchRecords /\ s.outer = r.outer /\ RowOK(s)
    BY <1>1, <2>1 DEF FetchRecords, RowOK, Hopping, Open
  <2>3. t \in FetchRecords /\ t.outer = r.outer /\ RowOK(t)
    BY <1>2, <2>1 DEF FetchRecords, RowOK, Hopping
  <2>4. Alike(f, s, used) /\ Alike(f, t, used)
    BY <1>1, <2>2, <2>3 DEF Alike
  <2> QED
    BY <1>3, <2>2, <2>3, <2>4, AlikeMoves, MoveStep DEF RemoteAnswers
<1>4. CASE OuterTakes(f)
  <2>1. r.outer \in {"waiting", "failed"}
    BY <1>1, <1>4 DEF OuterTakes, RowOK, Early
  <2>2. CASE r.outer = "failed"
    BY <1>2, <1>4, <2>2, AlikeMoves, MoveStep DEF OuterTakes, LateAnswer
  <2>3. CASE r.outer = "waiting" /\ ~InTime
    BY <1>1, <1>4, <2>3, InnerFailsStep DEF OuterTakes
  <2>4. CASE r.outer = "waiting" /\ InTime /\ r.inner = "empty"
    <3>1. Settles(f, Over(r), "done", used)
      BY <1>4, <2>4 DEF OuterTakes
    <3> QED
      BY <1>2, <3>1, SettlesStep
  <2>5. CASE r.outer = "waiting" /\ InTime /\ r.inner = "broken"
    <3> DEFINE s == [Over(r) EXCEPT !.outer = "body"]
    <3>1. Becomes(f, s, used)
      BY <1>4, <2>5 DEF OuterTakes
    <3>2. s \in FetchRecords /\ RowOK(s) /\ Holding(s) /\ Holding(r)
      BY <1>2, <2>5 DEF FetchRecords, Holding
    <3> QED
      BY <1>1, <3>1, <3>2, MoveStep DEF Moves
  <2>6. CASE r.outer = "waiting" /\ InTime /\ r.inner = "answered"
    <3> DEFINE s == [r EXCEPT !.outer = "body", !.inner = "body"]
    <3>1. Becomes(f, s, used)
      BY <1>4, <2>6 DEF OuterTakes
    <3>2. s \in FetchRecords /\ RowOK(s) /\ Holding(s) /\ Holding(r)
      BY <1>1, <2>6 DEF FetchRecords, Holding, RowOK, Early, Hopping, Open
    <3> QED
      BY <1>1, <3>1, <3>2, MoveStep DEF Moves
  <2> QED
    BY <1>4, <2>1, <2>2, <2>3, <2>4, <2>5, <2>6 DEF OuterTakes
<1> QED
  BY <1>3, <1>4

LEMMA InterruptedRecord ==
  ASSUME NEW r \in FetchRecords, RowOK(r), Holding(r)
  PROVE  /\ Interrupted(r) \in FetchRecords /\ Interrupted(r).outer = r.outer
         /\ RowOK(Interrupted(r))
         /\ RowOK([Interrupted(r) EXCEPT !.aborted = TRUE,
                      !.outer = IF r.outer = "waiting" THEN "failed" ELSE "done"])
<1>1. /\ Over(r) \in FetchRecords /\ Over(r).outer = r.outer /\ Over(r).inner = "ended"
      /\ RowOK(Over(r))
  BY OverRecord
<1> DEFINE s == [Interrupted(r) EXCEPT !.aborted = TRUE,
                      !.outer = IF r.outer = "waiting" THEN "failed" ELSE "done"]
<1>2. CASE r.inner \in Hopping \cup {"body"}
  <2>1. Interrupted(r) = Over(r)
    BY <1>2 DEF Interrupted
  <2>2. s.inner = "ended"
    BY <1>1, <2>1 DEF FetchRecords
  <2> QED
    BY <1>1, <2>1, <2>2 DEF RowOK, Early, Hopping
<1>3. CASE r.inner = "answered"
  <2>1. r.outer = "waiting"
    BY <1>3 DEF RowOK, Early, Holding
  <2>2. Interrupted(r) = [Over(r) EXCEPT !.inner = "broken"]
    BY <1>3 DEF Interrupted, Hopping
  <2>3. Interrupted(r) \in FetchRecords /\ Interrupted(r).outer = r.outer
        /\ Interrupted(r).inner = "broken" /\ s.inner = "broken" /\ s.outer = "failed"
    BY <1>1, <2>1, <2>2 DEF FetchRecords
  <2> QED
    BY <2>1, <2>3 DEF RowOK, Early, Hopping
<1>4. CASE r.inner \notin Hopping \cup {"body", "answered"}
  BY <1>4 DEF Interrupted, RowOK, Early, Hopping, FetchRecords, Holding
<1> QED
  BY <1>2, <1>3, <1>4

\* The steps that end a fetch from outside.
LEMMA EndInv ==
  ASSUME Inv, NEW f \in Fetches,
         ReaderNotices(f) \/ ReaderCancels(f) \/ CallerAborts(f) \/ WatchFires(f) \/ TimerFires(f)
  PROVE  Inv'
<1> DEFINE r == fetch[f]
<1>1. r \in FetchRecords /\ RowOK(r) /\ Alike(f, r, used) /\ UsageOK(used)
  BY StateFacts
<1>2. /\ Alike(f, Over(r), used) /\ \A o : RowOK([Over(r) EXCEPT !.outer = o])
  BY <1>1, OverRecord DEF Alike
<1>3. CASE ReaderNotices(f)
  <2>1. RowOK([r EXCEPT !.outer = "done"])
    BY <1>1, <1>3 DEF ReaderNotices, RowOK, Early, Hopping, FetchRecords
  <2> QED
    BY <1>1, <1>3, <2>1, SettlesStep DEF ReaderNotices
<1>4. CASE ReaderCancels(f)
  BY <1>2, <1>4, SettlesStep DEF ReaderCancels, Cancelled
<1>5. Aborts(f) => Inv'
  <2> SUFFICES ASSUME Aborts(f) PROVE Inv'
    OBVIOUS
  <2> DEFINE s == [Interrupted(r) EXCEPT !.aborted = TRUE]
             outcome == IF r.outer = "waiting" THEN "failed" ELSE "done"
  <2>1. Holding(r) /\ Settles(f, s, outcome, used)
    BY DEF Aborts
  <2>2. s \in FetchRecords /\ s.outer = r.outer
    BY <1>1, <2>1, InterruptedRecord DEF FetchRecords
  <2>3. Alike(f, s, used)
    BY <1>1, <2>2 DEF Alike
  <2>4. RowOK([s EXCEPT !.outer = outcome])
    BY <1>1, <2>1, InterruptedRecord DEF RowOK, FetchRecords
  <2> QED
    BY <2>1, <2>3, <2>4, SettlesStep
<1>6. CASE TimerFires(f)
  <2>1. CASE r.inner \in Hopping
    BY <1>1, <1>6, <2>1, InnerFailsStep DEF TimerFires
  <2>2. CASE r.inner \in Open
    <3>1. Becomes(f, Interrupted(r), used)
      BY <1>6, <2>2 DEF TimerFires, Hopping, Open
    <3>2. Interrupted(r) = Over(r) \/ Interrupted(r) = [Over(r) EXCEPT !.inner = "broken"]
      BY <2>2 DEF Interrupted, Open
    <3>3. r.inner = "answered" => r.outer \in {"waiting", "failed"}
      BY <1>1 DEF RowOK, Early
    <3>4. Interrupted(r) \in FetchRecords /\ Interrupted(r).outer = r.outer
          /\ RowOK(Interrupted(r))
      BY <1>1, <2>2, <3>2, <3>3, OverRecord DEF Interrupted, Open, Hopping, RowOK, Early, FetchRecords
    <3>5. Alike(f, Interrupted(r), used)
      BY <1>1, <3>4 DEF Alike
    <3> QED
      BY <3>1, <3>4, <3>5, AlikeMoves, MoveStep
  <2> QED
    BY <1>6, <2>1, <2>2 DEF TimerFires, Timed
<1> QED
  BY <1>3, <1>4, <1>5, <1>6 DEF CallerAborts, WatchFires

LEMMA TickInv == Inv /\ Tick => Inv'
<1> SUFFICES ASSUME Inv, Tick PROVE Inv'
  OBVIOUS
<1>1. elapsed' \in 0..EndOfTime
  BY BudgetAssumption DEF Tick, Inv, TypeOK, BudgetTypeOK
<1>2. BudgetTypeOK'
  BY <1>1 DEF Tick, Inv, TypeOK, BudgetTypeOK
<1>3. \A f \in Fetches : /\ fetch'[f] \in FetchRecords /\ RowOK(fetch'[f])
                         /\ fetch'[f].outer = fetch[f].outer
  <2> TAKE f \in Fetches
  <2>1. fetch[f] \in FetchRecords /\ RowOK(fetch[f])
    BY StateFacts
  <2>2. CASE fetch[f].inner \in Hopping \cup Open /\ fetch[f].age < Timeout
    <3>1. fetch'[f] = [fetch[f] EXCEPT !.age = @ + 1]
      BY <2>2 DEF Tick
    <3>2. fetch[f].age + 1 \in 0..Timeout
      BY <2>1, <2>2, FetchAssumption DEF FetchRecords
    <3> QED
      BY <2>1, <3>1, <3>2 DEF FetchRecords, RowOK
  <2>3. CASE ~(fetch[f].inner \in Hopping \cup Open /\ fetch[f].age < Timeout)
    BY <2>1, <2>3 DEF Tick
  <2> QED
    BY <2>2, <2>3
<1>4. fetch' \in [Fetches -> FetchRecords]
  BY <1>3 DEF Tick
<1>5. Holders' = Holders
  BY <1>3 DEF Holders, Holding
<1> QED
  BY <1>2, <1>3, <1>4, <1>5 DEF Tick, Inv, TypeOK

LEMMA NextInv == Inv /\ [Next]_vars => Inv'
<1> SUFFICES ASSUME Inv, [Next]_vars PROVE Inv'
  OBVIOUS
<1>1. CASE UNCHANGED vars
  <2>1. Holders' = Holders
    BY <1>1 DEF vars, Holders, Holding
  <2> QED
    BY <1>1, <2>1 DEF vars, budgetVars, Inv, TypeOK, BudgetTypeOK
<1>2. CASE Tick
  BY <1>2, TickInv
<1>3. ASSUME NEW f \in Fetches,
             \/ Start(f) \/ InnerStarts(f) \/ PolicyAnswers(f) \/ LookupAnswers(f)
             \/ PrepareReads(f) \/ PrepareEnds(f) \/ ForwardReads(f)
             \/ RemoteRedirects(f) \/ RemoteAnswers(f) \/ RemoteFails(f) \/ OuterTakes(f)
             \/ Chunk(f) \/ BodyEnds(f) \/ ReaderNotices(f) \/ ReaderCancels(f)
             \/ CallerAborts(f) \/ WatchFires(f) \/ TimerFires(f)
      PROVE  Inv'
  BY <1>3, StartInv, HopInv, BodyInv, AnswerInv, EndInv
<1> QED
  BY <1>1, <1>2, <1>3 DEF Next

\* Every variable keeps its type; in particular no dimension of the budget (budget.ts
\* #apply) ever exceeds its limit, whatever the fetches of the operation do.
THEOREM FetchTypeCorrect == Spec => []TypeOK
<1>1. Inv => TypeOK
  BY DEF Inv
<1> QED
  BY <1>1, InitInv, NextInv, PTL DEF Spec

\* A reservation of concurrency is given back when its fetch ends, and once; and an open
\* body has its reader (createBudgetedFetch and fetchResponse).
THEOREM ReservationsStayBalanced == Spec => []ReservationsBalanced
<1>1. Inv => ReservationsBalanced
  BY DEF Inv, ReservationsBalanced, RowOK, Holders
<1> QED
  BY <1>1, InitInv, NextInv, PTL DEF Spec

-----------------------------------------------------------------------------
(* What is dispatched *)

\* Where a fetch has been charged for a dispatch that is still to come.
Underway == {"queued", "policy", "lookup", "prepare"}

Share(r) == Len(r.sent) + (IF r.inner \in Underway THEN 1 ELSE 0)

\* A URL is visited once and dispatched to after that; before the dispatch it has passed
\* what has been asked so far.
VettedOK(r) ==
  /\ r.outer = "idle" \/ r.inner = "queued" => r.sent = <<>> /\ r.visited = {}
  /\ r.inner \in Hopping =>
       /\ IsFiniteSet(r.visited) /\ r.url \in r.visited
       /\ Cardinality(r.visited) = Share(r) /\ Share(r) <= MaxRedirects + 1
       /\ Sent(r) \subseteq r.visited
       /\ r.inner # "dispatch" => r.url \notin Sent(r)
  /\ r.inner \in {"lookup", "prepare"} => "policy" \in r.checked
  /\ r.inner = "prepare" => "address" \in r.checked

\* The dispatches that have been charged.
Slots == UNION {{f} \X (1..Share(fetch[f])) : f \in Fetches}

VetInv ==
  /\ \A f \in Fetches : VettedOK(fetch[f])
  /\ IsFiniteSet(Slots) /\ Cardinality(Slots) <= used.requests

Usages == [requests : Nat, reads : Nat, concurrency : Nat]

\* A fetch may be charged for one dispatch more.
Paid(u) == u \in Usages /\ u.requests \in {used.requests, used.requests + 1}

VettedSend(f, r) ==
  r.sent # fetch[f].sent =>
    /\ r.checked = {"policy", "address"}
    /\ r.url \notin Sent(fetch[f])
    /\ Len(fetch[f].sent) <= MaxRedirects

Vets(f, r, u) ==
  /\ VettedOK(r) /\ VettedSend(f, r)
  /\ r.sent \in Seq(Urls)
  /\ Paid(u) /\ Share(r) <= Share(fetch[f]) + (u.requests - used.requests)

Vetted(f) == \E r, u : Becomes(f, r, u) /\ Vets(f, r, u)

\* The action property, as a formula of one step.
VettedStep ==
  /\ \A f \in Fetches : VettedSend(f, fetch'[f])
  /\ Cardinality(Dispatched(fetch')) <= used'["requests"]

LEMMA ShareType ==
  ASSUME NEW r, r.sent \in Seq(Urls)
  PROVE  /\ Len(r.sent) \in Nat /\ Share(r) \in Nat /\ Len(r.sent) <= Share(r)
         /\ Share(r) = IF r.inner \in Underway THEN Len(r.sent) + 1 ELSE Len(r.sent)
<1>1. Len(r.sent) \in Nat
  OBVIOUS
<1>2. CASE r.inner \in Underway
  BY <1>1, <1>2 DEF Share
<1>3. CASE r.inner \notin Underway
  BY <1>1, <1>3 DEF Share
<1> QED
  BY <1>1, <1>2, <1>3

LEMMA Shares ==
  ASSUME Inv, NEW f \in Fetches
  PROVE  /\ fetch[f] \in FetchRecords /\ fetch[f].sent \in Seq(Urls)
         /\ Len(fetch[f].sent) \in Nat /\ Share(fetch[f]) \in Nat
         /\ used \in Usages /\ used.requests \in Nat
         /\ fetch[f].outer = "idle" => fetch[f].inner \notin Hopping \cup {"queued"}
<1>1. fetch[f] \in FetchRecords /\ RowOK(fetch[f]) /\ used \in Usages
  BY StateFacts DEF UsageOK, Usages
<1>2. fetch[f].sent \in Seq(Urls)
  BY <1>1 DEF FetchRecords
<1>3. Len(fetch[f].sent) \in Nat /\ Share(fetch[f]) \in Nat
  BY <1>2, ShareType
<1>4. used.requests \in Nat
  BY <1>1 DEF Usages
<1>5. fetch[f].outer = "idle" => fetch[f].inner \notin Hopping \cup {"queued"}
  BY <1>1 DEF RowOK, Early
<1> QED
  BY <1>1, <1>2, <1>3, <1>4, <1>5

\* The slots of one fetch are given back, kept, or one is added.
LEMMA VettedKeeps ==
  ASSUME Inv, VetInv, NEW f \in Fetches, Vetted(f), Inv'
  PROVE  VetInv' /\ VettedStep
<1>1. PICK r, u : Becomes(f, r, u) /\ Vets(f, r, u)
  BY DEF Vetted
<1>2. /\ fetch' = [fetch EXCEPT ![f] = r] /\ used' = u
      /\ fetch'[f] = r /\ \A g \in Fetches \ {f} : fetch'[g] = fetch[g]
  BY <1>1 DEF Becomes, Inv, TypeOK
<1>3. /\ Share(fetch[f]) \in Nat /\ Share(r) \in Nat /\ used.requests \in Nat
      /\ r.sent \in Seq(Urls) /\ Len(r.sent) \in Nat
      /\ u.requests \in {used.requests, used.requests + 1}
      /\ Share(r) <= Share(fetch[f]) + (u.requests - used.requests)
  BY <1>1, Shares, ShareType DEF Vets, Paid
<1>4. IsFiniteSet(Slots') /\ Cardinality(Slots') <= used'["requests"]
  <2>1. \A g \in Fetches : Share(fetch'[g]) = IF g = f THEN Share(r) ELSE Share(fetch[g])
    BY <1>2
  <2>2. Cardinality(Slots) \in Nat /\ IsFiniteSet(Slots) /\ Cardinality(Slots) <= used.requests
    BY FS_CardinalityType DEF VetInv
  <2>3. CASE Share(r) <= Share(fetch[f])
    <3>1. 1..Share(r) \subseteq 1..Share(fetch[f])
      BY <1>3, <2>3
    <3>2. Slots' \in SUBSET Slots
      BY <2>1, <3>1 DEF Slots
    <3>3. IsFiniteSet(Slots') /\ Cardinality(Slots') <= Cardinality(Slots)
      BY <2>2, <3>2, FS_Subset
    <3>4. Cardinality(Slots') \in Nat
      BY <3>3, FS_CardinalityType
    <3> QED
      BY <1>2, <1>3, <2>2, <3>3, <3>4
  <2>4. CASE Share(r) = Share(fetch[f]) + 1 /\ u.requests = used.requests + 1
    <3>1. 1..Share(r) = (1..Share(fetch[f])) \cup {Share(r)}
      BY <1>3, <2>4
    <3>2. Slots' = Slots \cup {<<f, Share(r)>>}
      <4>1. \A x : x \in Slots' <=> \E g \in Fetches : x \in {g} \X (1..Share(fetch'[g]))
        BY DEF Slots
      <4>2. \A x : x \in Slots <=> \E g \in Fetches : x \in {g} \X (1..Share(fetch[g]))
        BY DEF Slots
      <4>3. \A g \in Fetches : {g} \X (1..Share(fetch'[g])) =
               IF g = f THEN ({g} \X (1..Share(fetch[g]))) \cup {<<f, Share(r)>>}
                        ELSE {g} \X (1..Share(fetch[g]))
        BY <2>1, <3>1
      <4> QED
        BY <4>1, <4>2, <4>3
    <3>3. /\ IsFiniteSet(Slots \cup {<<f, Share(r)>>})
          /\ Cardinality(Slots \cup {<<f, Share(r)>>}) \in {Cardinality(Slots), Cardinality(Slots) + 1}
      BY <2>2, FS_AddElement
    <3> QED
      BY <1>2, <1>3, <2>2, <2>4, <3>2, <3>3
  <2> QED
    BY <1>3, <2>3, <2>4
<1>5. VetInv'
  <2>1. \A g \in Fetches : VettedOK(fetch'[g])
    BY <1>1, <1>2 DEF VetInv, Vets
  <2> QED
    BY <1>4, <2>1 DEF VetInv
<1>6. \A g \in Fetches : VettedSend(g, fetch'[g])
  BY <1>1, <1>2 DEF Vets, VettedSend
<1>7. Cardinality(Dispatched(fetch')) <= used'["requests"]
  <2>1. \A g \in Fetches : Len(fetch'[g].sent) \in Nat /\ Len(fetch'[g].sent) <= Share(fetch'[g])
    BY <1>2, <1>3, Shares, ShareType
  <2>2. \A g \in Fetches : Share(fetch'[g]) \in Nat
    BY <1>2, <1>3, Shares
  <2>3. \A g \in Fetches : 1..Len(fetch'[g].sent) \subseteq 1..Share(fetch'[g])
    BY <2>1, <2>2
  <2>4. Dispatched(fetch') \in SUBSET Slots'
    BY <2>3 DEF Dispatched, Slots
  <2>5. IsFiniteSet(Dispatched(fetch')) /\ Cardinality(Dispatched(fetch')) <= Cardinality(Slots')
    BY <1>4, <2>4, FS_Subset
  <2>6. Cardinality(Dispatched(fetch')) \in Nat /\ Cardinality(Slots') \in Nat
    BY <1>4, <2>5, FS_CardinalityType
  <2>7. used'["requests"] \in Nat
    BY <1>2, <1>3
  <2> QED
    BY <1>4, <2>5, <2>6, <2>7
<1> QED
  BY <1>5, <1>6, <1>7 DEF VettedStep

\* Steps after which no dispatch is to come, and steps that leave the hop alone.
LEMMA QuietVets ==
  ASSUME Inv, NEW f \in Fetches, NEW s, NEW u,
         s.sent = fetch[f].sent, s.inner \notin Hopping \cup {"queued"}, s.outer # "idle", Paid(u)
  PROVE  Vets(f, s, u)
<1>1. VettedOK(s) /\ VettedSend(f, s)
  BY DEF VettedOK, VettedSend, Hopping
<1>2. s.sent \in Seq(Urls) /\ s.inner \notin Underway
  BY Shares DEF Hopping, Underway
<1>3. /\ Share(s) = Len(fetch[f].sent) /\ Share(s) \in Nat
      /\ Len(fetch[f].sent) <= Share(fetch[f]) /\ Share(fetch[f]) \in Nat
  BY <1>2, Shares, ShareType
<1>4. u.requests - used.requests \in Nat
  BY Shares DEF Paid
<1> QED
  BY <1>1, <1>2, <1>3, <1>4 DEF Vets

LEMMA SameVets ==
  ASSUME Inv, VetInv, NEW f \in Fetches, NEW s, NEW u, Paid(u),
         s.sent = fetch[f].sent, s.inner = fetch[f].inner, s.visited = fetch[f].visited,
         s.checked = fetch[f].checked, s.url = fetch[f].url,
         s.outer = "idle" => fetch[f].outer = "idle"
  PROVE  Vets(f, s, u)
<1>1. Share(s) = Share(fetch[f]) /\ Sent(s) = Sent(fetch[f])
  BY DEF Share, Sent
<1>2. VettedOK(s) /\ VettedSend(f, s)
  BY <1>1 DEF VettedOK, VettedSend, VetInv
<1>3. s.sent \in Seq(Urls) /\ Share(s) \in Nat
  BY <1>1, Shares
<1>4. u.requests - used.requests \in Nat
  BY Shares DEF Paid
<1> QED
  BY <1>1, <1>2, <1>3, <1>4 DEF Vets

LEMMA PaidNow == Inv => Paid(used)
<1> SUFFICES ASSUME Inv PROVE Paid(used)
  OBVIOUS
<1>1. used \in Usages
  BY UsageNow DEF UsageOK, Usages
<1> QED
  BY <1>1 DEF Paid

LEMMA ReleasedIsPaid ==
  ASSUME NEW u \in Usages
  PROVE  /\ Released(u, "concurrency") \in Usages
         /\ Released(u, "concurrency").requests = u.requests
  BY DEF Released, Usages

LEMMA SettlesVets ==
  ASSUME NEW f \in Fetches, NEW s, NEW u, NEW outcome \in {"failed", "done"},
         Vets(f, [s EXCEPT !.outer = outcome], u), Settles(f, s, outcome, u)
  PROVE  Vetted(f)
<1> DEFINE v == IF Holding(s) THEN Released(u, "concurrency") ELSE u
           t == [s EXCEPT !.outer = outcome]
<1>1. Becomes(f, t, v)
  BY DEF Settles
<1>2. u \in Usages
  BY DEF Vets, Paid
<1>3. v \in Usages /\ v.requests = u.requests
  BY <1>2, ReleasedIsPaid
<1> HIDE DEF v
<1>4. Vets(f, t, v)
  BY <1>3 DEF Vets, Paid
<1> QED
  BY <1>1, <1>4 DEF Vetted

LEMMA OverVets ==
  ASSUME Inv, NEW f \in Fetches, NEW r \in FetchRecords, NEW u, Paid(u),
         r.sent = fetch[f].sent, r.outer # "idle"
  PROVE  /\ Vets(f, Over(r), u)
         /\ \A o \in {"failed", "done", "body"} : Vets(f, [Over(r) EXCEPT !.outer = o], u)
         /\ \A i \in {"empty", "broken"} : Vets(f, [Over(r) EXCEPT !.inner = i], u)
<1>1. /\ Over(r).sent = r.sent /\ Over(r).inner = "ended" /\ Over(r).outer = r.outer
      /\ Over(r) \in FetchRecords
  BY OverRecord DEF Over, FetchRecords
<1>2. /\ \A o \in {"failed", "done", "body"} : /\ [Over(r) EXCEPT !.outer = o].sent = r.sent
                                               /\ [Over(r) EXCEPT !.outer = o].inner = "ended"
                                               /\ [Over(r) EXCEPT !.outer = o].outer = o
      /\ \A i \in {"empty", "broken"} : /\ [Over(r) EXCEPT !.inner = i].sent = r.sent
                                        /\ [Over(r) EXCEPT !.inner = i].inner = i
                                        /\ [Over(r) EXCEPT !.inner = i].outer = r.outer
  BY <1>1 DEF FetchRecords
<1>3. \A i \in {"ended", "empty", "broken"} : i \notin Hopping \cup {"queued"}
  BY DEF Hopping
<1>4. Vets(f, Over(r), u)
  BY <1>1, <1>3, QuietVets
<1>5. ASSUME NEW o \in {"failed", "done", "body"} PROVE Vets(f, [Over(r) EXCEPT !.outer = o], u)
  <2> DEFINE s == [Over(r) EXCEPT !.outer = o]
  <2>1. s.sent = fetch[f].sent /\ s.inner \notin Hopping \cup {"queued"} /\ s.outer # "idle"
    BY <1>2, <1>3
  <2> HIDE DEF s
  <2>2. Vets(f, s, u)
    BY <2>1, QuietVets
  <2> QED
    BY <2>2 DEF s
<1>6. ASSUME NEW i \in {"empty", "broken"} PROVE Vets(f, [Over(r) EXCEPT !.inner = i], u)
  <2> DEFINE s == [Over(r) EXCEPT !.inner = i]
  <2>1. s.sent = fetch[f].sent /\ s.inner \notin Hopping \cup {"queued"} /\ s.outer # "idle"
    BY <1>2, <1>3
  <2> HIDE DEF s
  <2>2. Vets(f, s, u)
    BY <2>1, QuietVets
  <2> QED
    BY <2>2 DEF s
<1> QED
  BY <1>4, <1>5, <1>6

LEMMA InnerFailsVets ==
  ASSUME Inv, NEW f \in Fetches, NEW r \in FetchRecords, NEW u, Paid(u),
         r.sent = fetch[f].sent, r.outer # "idle", InnerFails(f, r, u)
  PROVE  Vetted(f)
<1>1. CASE r.outer = "waiting"
  <2>1. Settles(f, Over(r), "failed", u) /\ Vets(f, [Over(r) EXCEPT !.outer = "failed"], u)
    BY <1>1, OverVets DEF InnerFails
  <2> QED
    BY <2>1, SettlesVets
<1>2. CASE r.outer # "waiting"
  <2>1. Becomes(f, Over(r), u) /\ Vets(f, Over(r), u)
    BY <1>2, OverVets DEF InnerFails
  <2> QED
    BY <2>1 DEF Vetted
<1> QED
  BY <1>1, <1>2

\* The dispatch itself: to a URL that has been visited, and not dispatched to.
LEMMA DispatchesVets ==
  ASSUME Inv, VetInv, NEW f \in Fetches, NEW r \in FetchRecords, NEW u, Paid(u),
         r.sent = fetch[f].sent, r.visited = fetch[f].visited, r.url = fetch[f].url,
         r.url \in Urls, r.checked = {"policy", "address"},
         r.outer # "idle", fetch[f].inner \in {"lookup", "prepare"}, Dispatches(f, r, u)
  PROVE  Vetted(f)
<1> DEFINE s == [r EXCEPT !.inner = "dispatch", !.sent = Append(@, r.url)]
<1>1. CASE ~InTime
  BY <1>1, InnerFailsVets DEF Dispatches
<1>2. CASE InTime
  <2>1. Becomes(f, s, u)
    BY <1>2 DEF Dispatches
  <2>2. /\ s.inner = "dispatch" /\ s.sent = Append(r.sent, r.url) /\ s.visited = r.visited
        /\ s.url = r.url /\ s.checked = r.checked /\ s.outer = r.outer
    BY DEF FetchRecords
  <2>3. /\ IsFiniteSet(r.visited) /\ r.url \in r.visited
        /\ Cardinality(r.visited) = Share(fetch[f]) /\ Share(fetch[f]) <= MaxRedirects + 1
        /\ Sent(fetch[f]) \subseteq r.visited /\ r.url \notin Sent(fetch[f])
    BY DEF VetInv, VettedOK, Hopping
  <2>4. /\ r.sent \in Seq(Urls) /\ Len(r.sent) \in Nat
        /\ Share(fetch[f]) = Len(r.sent) + 1
    BY Shares, ShareType DEF Underway
  <2>5. /\ s.sent \in Seq(Urls) /\ Len(s.sent) = Len(r.sent) + 1
        /\ \A i \in 1..Len(r.sent) : s.sent[i] = r.sent[i]
        /\ s.sent[Len(r.sent) + 1] = r.url
    BY <2>2, <2>4
  <2>6. Share(s) = Share(fetch[f])
    BY <2>2, <2>4, <2>5, ShareType DEF Underway
  <2>7. Sent(s) \subseteq r.visited
    <3>1. DOMAIN s.sent = 1..(Len(r.sent) + 1) /\ DOMAIN r.sent = 1..Len(r.sent)
      BY <2>4, <2>5
    <3>2. \A i \in 1..(Len(r.sent) + 1) : i \in 1..Len(r.sent) \/ i = Len(r.sent) + 1
      BY <2>4
    <3>3. \A i \in 1..Len(r.sent) : r.sent[i] \in r.visited
      BY <2>3, <3>1 DEF Sent
    <3>4. \A i \in DOMAIN s.sent : s.sent[i] \in r.visited
      BY <2>3, <2>5, <3>1, <3>2, <3>3
    <3> QED
      BY <3>4 DEF Sent
  <2> HIDE DEF s
  <2>8. VettedOK(s)
    BY <2>2, <2>3, <2>6, <2>7 DEF VettedOK, Hopping
  <2>9. VettedSend(f, s)
    BY <2>2, <2>3, <2>4, FetchAssumption DEF VettedSend
  <2>10. Share(s) <= Share(fetch[f]) + (u.requests - used.requests)
    BY <2>4, <2>6, Shares DEF Paid
  <2> QED
    BY <2>1, <2>5, <2>8, <2>9, <2>10 DEF Vetted, Vets
<1> QED
  BY <1>1, <1>2

\* A hop begins, at the start or after an answer that has been charged as a request.
LEMMA EntersHopVets ==
  ASSUME Inv, VetInv, NEW f \in Fetches, NEW r \in FetchRecords, NEW redirected \in BOOLEAN,
         r.sent = fetch[f].sent, r.visited = fetch[f].visited, r.url \in Urls, r.outer # "idle",
         fetch[f].inner = IF redirected THEN "dispatch" ELSE "queued",
         redirected => Cardinality(r.visited) <= MaxRedirects,
         EntersHop(f, r, redirected)
  PROVE  Vetted(f)
<1> DEFINE u == IF redirected THEN Charged(used, "requests") ELSE used
           s == [r EXCEPT !.inner = "policy", !.visited = @ \cup {r.url}, !.checked = {}]
<1>1. /\ Paid(u) /\ Paid(used)
      /\ u.requests = IF redirected THEN used.requests + 1 ELSE used.requests
  <2>1. Paid(used) /\ used \in Usages
    BY PaidNow DEF Paid
  <2>2. Charged(used, "requests") \in Usages /\ Charged(used, "requests").requests = used.requests + 1
    BY <2>1 DEF Charged, Usages
  <2> QED
    BY <2>1, <2>2 DEF Paid
<1> HIDE DEF u
<1>2. InnerFails(f, r, used) \/ InnerFails(f, r, u) \/ (r.url \notin r.visited /\ Becomes(f, s, u))
  BY DEF EntersHop, u
<1>3. CASE InnerFails(f, r, used) \/ InnerFails(f, r, u)
  BY <1>1, <1>3, InnerFailsVets
<1>4. CASE r.url \notin r.visited /\ Becomes(f, s, u)
  <2>1. /\ s.inner = "policy" /\ s.visited = r.visited \cup {r.url} /\ s.sent = r.sent
        /\ s.url = r.url /\ s.outer = r.outer
    BY DEF FetchRecords
  <2>2. /\ r.sent \in Seq(Urls) /\ Len(r.sent) \in Nat
        /\ Share(fetch[f]) = IF redirected THEN Len(r.sent) ELSE Len(r.sent) + 1
    BY Shares, ShareType DEF Underway
  <2>3. /\ IsFiniteSet(r.visited) /\ Cardinality(r.visited) = Len(r.sent)
        /\ Len(r.sent) <= MaxRedirects /\ Sent(r) \subseteq r.visited
    <3>1. CASE redirected
      BY <2>2, <3>1 DEF VetInv, VettedOK, Hopping, Sent
    <3>2. CASE ~redirected
      <4>1. r.sent = <<>> /\ r.visited = {}
        BY <3>2 DEF VetInv, VettedOK
      <4>2. Len(r.sent) = 0 /\ Sent(r) = {}
        BY <4>1 DEF Sent
      <4> QED
        BY <4>1, <4>2, FS_EmptySet, FetchAssumption
    <3> QED
      BY <3>1, <3>2
  <2>4. IsFiniteSet(s.visited) /\ Cardinality(s.visited) = Len(r.sent) + 1
    <3> HIDE DEF s
    <3>1. /\ IsFiniteSet(r.visited \cup {r.url})
          /\ Cardinality(r.visited \cup {r.url}) = Cardinality(r.visited) + 1
      BY <1>4, <2>3, FS_AddElement
    <3> QED
      BY <2>1, <2>3, <3>1
  <2> HIDE DEF s
  <2>5. Share(s) = Len(r.sent) + 1
    BY <2>1, <2>2, ShareType DEF Underway
  <2>6. Sent(s) = Sent(r)
    BY <2>1 DEF Sent
  <2>7. VettedOK(s)
    BY <1>4, <2>1, <2>2, <2>3, <2>4, <2>5, <2>6, FetchAssumption DEF VettedOK, Hopping
  <2>8. VettedSend(f, s)
    BY <2>1 DEF VettedSend
  <2>9. Share(s) <= Share(fetch[f]) + (u.requests - used.requests)
    BY <1>1, <2>2, <2>5, Shares
  <2> QED
    BY <1>1, <1>4, <2>1, <2>2, <2>7, <2>8, <2>9 DEF Vetted, Vets
<1> QED
  BY <1>2, <1>3, <1>4

LEMMA StartVets ==
  ASSUME Inv, VetInv, NEW f \in Fetches, Start(f) PROVE Vetted(f)
<1> DEFINE r == fetch[f]
           refused == [r EXCEPT !.outer = "failed"]
           u == Charged(used, "requests")
<1>1. /\ r \in FetchRecords /\ r.outer = "idle" /\ r.inner \notin Hopping \cup {"queued"}
      /\ r.sent = <<>> /\ r.visited = {} /\ Paid(used) /\ used \in Usages
  BY Shares, PaidNow DEF Start, VetInv, VettedOK
<1>2. u \in Usages /\ u.requests = used.requests + 1 /\ Paid(u)
  BY <1>1 DEF Charged, Usages, Paid
<1> HIDE DEF u
<1>3. CASE Becomes(f, refused, used) \/ Becomes(f, refused, u)
  <2>1. refused.sent = r.sent /\ refused.inner = r.inner /\ refused.outer # "idle"
    BY <1>1 DEF FetchRecords
  <2> HIDE DEF refused
  <2>2. Vets(f, refused, used) /\ Vets(f, refused, u)
    BY <1>1, <1>2, <2>1, QuietVets
  <2> QED
    BY <1>3, <2>2 DEF Vetted
<1>4. ASSUME NEW k \in {"none", "unread"},
             Becomes(f, [r EXCEPT !.outer = "waiting", !.inner = "queued", !.kind = k],
                     Charged(u, "concurrency"))
      PROVE  Vetted(f)
  <2> DEFINE s == [r EXCEPT !.outer = "waiting", !.inner = "queued", !.kind = k]
             v == Charged(u, "concurrency")
  <2>1. v \in Usages /\ v.requests = used.requests + 1 /\ Paid(v)
    BY <1>2 DEF Charged, Usages, Paid
  <2>2. /\ s.sent = r.sent /\ s.inner = "queued" /\ s.visited = r.visited
        /\ s.outer = "waiting"
    BY <1>1 DEF FetchRecords
  <2> HIDE DEF s, v
  <2>3. VettedOK(s) /\ VettedSend(f, s)
    BY <1>1, <2>2 DEF VettedOK, VettedSend, Hopping
  <2>4. s.sent \in Seq(Urls) /\ Share(s) = Len(r.sent) + 1 /\ Share(r) = Len(r.sent)
    BY <1>1, <2>2, Shares, ShareType DEF Underway, Hopping
  <2>5. Share(s) <= Share(r) + (v.requests - used.requests)
    BY <2>1, <2>4, Shares
  <2>6. Vets(f, s, v)
    BY <2>1, <2>3, <2>4, <2>5 DEF Vets
  <2> QED
    BY <1>4, <2>6 DEF Vetted, s, v
<1> QED
  BY <1>3, <1>4 DEF Start, u

\* The hops.
LEMMA HopVets ==
  ASSUME Inv, VetInv, NEW f \in Fetches,
         InnerStarts(f) \/ PolicyAnswers(f) \/ LookupAnswers(f) \/ RemoteRedirects(f) \/ RemoteFails(f)
  PROVE  Vetted(f)
<1> DEFINE r == fetch[f]
<1>1. /\ r \in FetchRecords /\ r.sent \in Seq(Urls) /\ Len(r.sent) \in Nat /\ Share(r) \in Nat
      /\ VettedOK(r) /\ Paid(used) /\ used.requests \in Nat
      /\ r.inner \in Hopping \cup {"queued"} => r.outer # "idle"
      /\ r.inner \in Hopping => r.url \in Urls
  BY Shares, PaidNow, StateFacts DEF VetInv, RowOK
<1>2. CASE InnerStarts(f)
  <2>1. PICK url \in Urls : EntersHop(f, [r EXCEPT !.url = url], FALSE)
    BY <1>2 DEF InnerStarts
  <2> DEFINE s == [r EXCEPT !.url = url]
  <2>2. /\ s \in FetchRecords /\ s.outer = r.outer /\ s.url \in Urls
        /\ s.sent = r.sent /\ s.visited = r.visited
    BY <1>1 DEF FetchRecords
  <2>3. r.inner = "queued" /\ r.outer # "idle"
    BY <1>1, <1>2 DEF InnerStarts
  <2> HIDE DEF s
  <2>4. EntersHop(f, s, FALSE)
    BY <2>1 DEF s
  <2> QED
    BY <2>2, <2>3, <2>4, EntersHopVets
<1>3. CASE PolicyAnswers(f)
  <2> DEFINE s == [r EXCEPT !.inner = "lookup", !.checked = @ \cup {"policy"}]
  <2>1. r.inner = "policy" /\ r.outer # "idle"
    BY <1>1, <1>3 DEF PolicyAnswers, Hopping
  <2>2. CASE InnerFails(f, r, used)
    BY <1>1, <2>1, <2>2, InnerFailsVets
  <2>3. CASE Becomes(f, s, used)
    <3>1. /\ s.inner = "lookup" /\ "policy" \in s.checked /\ s.sent = r.sent /\ s.url = r.url
          /\ s.visited = r.visited /\ s.outer = r.outer
      BY <1>1 DEF FetchRecords
    <3> HIDE DEF s
    <3>2. Share(s) = Share(r) /\ Sent(s) = Sent(r)
      BY <2>1, <3>1 DEF Share, Underway, Sent
    <3>3. VettedOK(s) /\ VettedSend(f, s)
      BY <1>1, <2>1, <3>1, <3>2 DEF VettedOK, VettedSend, Hopping
    <3>4. Share(s) <= Share(r) + (used.requests - used.requests)
      BY <1>1, <3>2
    <3>5. Vets(f, s, used)
      BY <1>1, <3>1, <3>3, <3>4 DEF Vets
    <3> QED
      BY <2>3, <3>5 DEF Vetted
  <2> QED
    BY <1>3, <2>2, <2>3 DEF PolicyAnswers
<1>4. CASE LookupAnswers(f)
  <2> DEFINE s == [r EXCEPT !.checked = @ \cup {"address"}]
             t == [s EXCEPT !.inner = "prepare"]
  <2>1. r.inner = "lookup" /\ r.outer # "idle" /\ r.url \in Urls /\ "policy" \in r.checked
    BY <1>1, <1>4 DEF LookupAnswers, Hopping, VettedOK
  <2>2. /\ s \in FetchRecords /\ s.checked = {"policy", "address"} /\ s.sent = r.sent
        /\ s.url = r.url /\ s.visited = r.visited /\ s.outer = r.outer
    <3>1. r.checked \in SUBSET {"policy", "address"}
      BY <1>1 DEF FetchRecords
    <3>2. r.checked \cup {"address"} = {"policy", "address"}
      BY <2>1, <3>1
    <3> QED
      BY <1>1, <3>2 DEF FetchRecords
  <2>3. /\ t.inner = "prepare" /\ t.checked = {"policy", "address"} /\ t.sent = r.sent
        /\ t.url = r.url /\ t.visited = r.visited /\ t.outer = r.outer
    BY <2>2 DEF FetchRecords
  <2> HIDE DEF s, t
  <2>4. CASE InnerFails(f, r, used)
    BY <1>1, <2>1, <2>4, InnerFailsVets
  <2>5. CASE Becomes(f, t, used)
    <3>1. Share(t) = Share(r) /\ Sent(t) = Sent(r)
      BY <2>1, <2>3 DEF Share, Underway, Sent
    <3>2. VettedOK(t) /\ VettedSend(f, t)
      BY <1>1, <2>1, <2>3, <3>1 DEF VettedOK, VettedSend, Hopping
    <3>3. Share(t) <= Share(r) + (used.requests - used.requests)
      BY <1>1, <3>1
    <3>4. Vets(f, t, used)
      BY <1>1, <2>3, <3>2, <3>3 DEF Vets
    <3> QED
      BY <2>5, <3>4 DEF Vetted
  <2>6. CASE Dispatches(f, s, used)
    BY <1>1, <2>1, <2>2, <2>6, DispatchesVets
  <2> QED
    BY <1>4, <2>4, <2>5, <2>6 DEF LookupAnswers, s, t
<1>5. CASE RemoteRedirects(f)
  <2>1. r.inner = "dispatch" /\ r.outer # "idle" /\ IsFiniteSet(r.visited)
    BY <1>1, <1>5 DEF RemoteRedirects, Hopping, VettedOK
  <2>2. PICK url \in Urls, keepsBody \in BOOLEAN :
          \/ InnerFails(f, r, used)
          \/ /\ ~(Hops(r) >= MaxRedirects)
             /\ EntersHop(f, [r EXCEPT !.url = url, !.kind = IF keepsBody THEN @ ELSE "none"], TRUE)
    BY <1>5 DEF RemoteRedirects
  <2> DEFINE s == [r EXCEPT !.url = url, !.kind = IF keepsBody THEN @ ELSE "none"]
  <2>3. /\ s \in FetchRecords /\ s.outer = r.outer /\ s.url \in Urls
        /\ s.sent = r.sent /\ s.visited = r.visited
    BY <1>1 DEF FetchRecords
  <2> HIDE DEF s
  <2>4. CASE InnerFails(f, r, used)
    BY <1>1, <2>1, <2>4, InnerFailsVets
  <2>5. CASE ~(Hops(r) >= MaxRedirects) /\ EntersHop(f, s, TRUE)
    <3>1. Cardinality(r.visited) \in Nat
      BY <2>1, FS_CardinalityType
    <3>2. Cardinality(s.visited) <= MaxRedirects
      BY <2>3, <2>5, <3>1, FetchAssumption DEF Hops
    <3> QED
      BY <2>1, <2>3, <2>5, <3>2, EntersHopVets
  <2> QED
    BY <2>2, <2>4, <2>5 DEF s
<1>6. CASE RemoteFails(f)
  BY <1>1, <1>6, InnerFailsVets DEF RemoteFails, Hopping
<1> QED
  BY <1>2, <1>3, <1>4, <1>5, <1>6

\* Reading the bodies.
LEMMA BodyVets ==
  ASSUME Inv, VetInv, NEW f \in Fetches,
         PrepareReads(f) \/ PrepareEnds(f) \/ ForwardReads(f) \/ Chunk(f) \/ BodyEnds(f)
  PROVE  Vetted(f)
<1> DEFINE r == fetch[f]
           u == Charged(used, "reads")
<1>1. /\ r \in FetchRecords /\ VettedOK(r) /\ Paid(used)
      /\ r.inner \in Hopping \cup {"body"} => r.outer # "idle"
      /\ r.inner \in Hopping => r.url \in Urls
  BY Shares, PaidNow, StateFacts DEF VetInv, RowOK
<1>2. Paid(u)
  <2>1. used \in Usages
    BY <1>1 DEF Paid
  <2>2. u \in Usages /\ u.requests = used.requests
    BY <2>1 DEF Charged, Usages
  <2> QED
    BY <2>2 DEF Paid
<1> HIDE DEF u
<1>3. r.inner \in Hopping \cup {"body"}
  BY DEF PrepareReads, PrepareEnds, ForwardReads, Chunk, BodyEnds, Hopping
<1>4. CASE InnerFails(f, r, used)
  BY <1>1, <1>3, <1>4, InnerFailsVets
<1>5. CASE Becomes(f, Over(r), used)
  BY <1>1, <1>3, <1>5, OverVets DEF Vetted
<1>6. CASE MayRead(r) /\ Becomes(f, Read(r), u)
  <2>1. /\ Read(r).sent = r.sent /\ Read(r).inner = r.inner /\ Read(r).visited = r.visited
        /\ Read(r).checked = r.checked /\ Read(r).url = r.url /\ Read(r).outer = r.outer
    BY <1>1 DEF Read, FetchRecords
  <2>2. Vets(f, Read(r), u)
    BY <1>2, <2>1, SameVets
  <2> QED
    BY <1>6, <2>2 DEF Vetted
<1>7. ASSUME NEW k \in {"streaming", "replayable"}, NEW s, NEW v, Paid(v),
             r.inner = "prepare", s \in FetchRecords, s.sent = r.sent, s.visited = r.visited,
             s.url = r.url, s.checked = r.checked, s.outer = r.outer, Dispatches(f, s, v)
      PROVE  Vetted(f)
  <2>1. r.checked = {"policy", "address"}
    <3>1. r.checked \in SUBSET {"policy", "address"}
      BY <1>1 DEF FetchRecords
    <3>2. "policy" \in r.checked /\ "address" \in r.checked
      BY <1>1, <1>7 DEF VettedOK
    <3> QED
      BY <3>1, <3>2
  <2>2. r.url \in Urls /\ r.outer # "idle"
    BY <1>1, <1>7 DEF Hopping
  <2> QED
    BY <1>7, <2>1, <2>2, DispatchesVets
<1>8. CASE PrepareReads(f)
  <2> DEFINE s == [Read(r) EXCEPT !.kind = "streaming"]
  <2>1. CASE MayRead(r) /\ Dispatches(f, s, u)
    <3>1. Read(r) \in FetchRecords
      BY <2>1, ReadUsage, <1>1 DEF Alike
    <3>2. /\ s \in FetchRecords /\ s.sent = r.sent /\ s.visited = r.visited
          /\ s.url = r.url /\ s.checked = r.checked /\ s.outer = r.outer
      <4>1. s \in FetchRecords
        BY <3>1 DEF FetchRecords
      <4> QED
        BY <1>1, <4>1 DEF Read, FetchRecords
    <3> HIDE DEF s
    <3> QED
      BY <1>2, <1>7, <1>8, <2>1, <3>2 DEF PrepareReads
  <2> QED
    BY <1>4, <1>6, <1>8, <2>1 DEF PrepareReads, u
<1>9. CASE PrepareEnds(f)
  <2> DEFINE s == [r EXCEPT !.kind = "replayable"]
  <2>1. CASE Dispatches(f, s, used)
    <3>1. /\ s \in FetchRecords /\ s.sent = r.sent /\ s.visited = r.visited
          /\ s.url = r.url /\ s.checked = r.checked /\ s.outer = r.outer
      BY <1>1 DEF FetchRecords
    <3> HIDE DEF s
    <3> QED
      BY <1>1, <1>7, <1>9, <2>1, <3>1 DEF PrepareEnds
  <2> QED
    BY <1>4, <1>9, <2>1 DEF PrepareEnds
<1>10. CASE ForwardReads(f) \/ Chunk(f) \/ BodyEnds(f)
  BY <1>4, <1>5, <1>6, <1>10 DEF ForwardReads, Chunk, BodyEnds, u
<1> QED
  BY <1>8, <1>9, <1>10

\* The answer, and the ends of a fetch.
LEMMA AnswerVets ==
  ASSUME Inv, VetInv, NEW f \in Fetches, RemoteAnswers(f) \/ OuterTakes(f)
  PROVE  Vetted(f)
<1> DEFINE r == fetch[f]
<1>1. r \in FetchRecords /\ Paid(used) /\ r.outer # "idle"
  <2>1. r.inner \in Early
    BY DEF RemoteAnswers, OuterTakes, Early, Hopping
  <2> QED
    BY <2>1, PaidNow, StateFacts DEF RowOK
<1>2. CASE Becomes(f, Over(r), used) \/ Becomes(f, [Over(r) EXCEPT !.outer = "body"], used)
           \/ Becomes(f, [Over(r) EXCEPT !.inner = "empty"], used)
  BY <1>1, <1>2, OverVets DEF Vetted
<1>3. CASE InnerFails(f, r, used)
  BY <1>1, <1>3, InnerFailsVets
<1>4. CASE Settles(f, Over(r), "done", used)
  <2>1. Vets(f, [Over(r) EXCEPT !.outer = "done"], used)
    BY <1>1, OverVets
  <2> QED
    BY <1>4, <2>1, SettlesVets
<1>5. CASE Becomes(f, [r EXCEPT !.inner = "answered"], used)
  <2> DEFINE s == [r EXCEPT !.inner = "answered"]
  <2>1. s.sent = r.sent /\ s.inner \notin Hopping \cup {"queued"} /\ s.outer # "idle"
    BY <1>1 DEF FetchRecords, Hopping
  <2> HIDE DEF s
  <2>2. Vets(f, s, used)
    BY <1>1, <2>1, QuietVets
  <2> QED
    BY <1>5, <2>2 DEF Vetted, s
<1>6. CASE Becomes(f, [r EXCEPT !.outer = "body", !.inner = "body"], used)
  <2> DEFINE s == [r EXCEPT !.outer = "body", !.inner = "body"]
  <2>1. s.sent = r.sent /\ s.inner \notin Hopping \cup {"queued"} /\ s.outer # "idle"
    BY <1>1 DEF FetchRecords, Hopping
  <2> HIDE DEF s
  <2>2. Vets(f, s, used)
    BY <1>1, <2>1, QuietVets
  <2> QED
    BY <1>6, <2>2 DEF Vetted, s
<1>7. CASE RemoteAnswers(f)
  BY <1>2, <1>5, <1>7 DEF RemoteAnswers
<1>8. CASE OuterTakes(f)
  BY <1>2, <1>3, <1>4, <1>6, <1>8 DEF OuterTakes, LateAnswer
<1> QED
  BY <1>7, <1>8

LEMMA EndVets ==
  ASSUME Inv, VetInv, NEW f \in Fetches,
         ReaderNotices(f) \/ ReaderCancels(f) \/ CallerAborts(f) \/ WatchFires(f) \/ TimerFires(f)
  PROVE  Vetted(f)
<1> DEFINE r == fetch[f]
<1>1. r \in FetchRecords /\ Paid(used) /\ RowOK(r) /\ VettedOK(r)
  BY PaidNow, StateFacts DEF VetInv
<1>2. CASE ReaderNotices(f)
  <2> DEFINE s == [r EXCEPT !.outer = "done"]
  <2>1. s.sent = r.sent /\ s.inner \notin Hopping \cup {"queued"} /\ s.outer # "idle"
    BY <1>1, <1>2 DEF ReaderNotices, FetchRecords, Hopping
  <2> HIDE DEF s
  <2>2. Vets(f, s, used)
    BY <1>1, <2>1, QuietVets
  <2> QED
    BY <1>2, <2>2, SettlesVets DEF ReaderNotices, s
<1>3. CASE ReaderCancels(f)
  <2>1. Vets(f, [Over(r) EXCEPT !.outer = "done"], used)
    BY <1>1, <1>3, OverVets DEF ReaderCancels
  <2> QED
    BY <1>3, <2>1, SettlesVets DEF ReaderCancels, Cancelled
<1>4. Aborts(f) => Vetted(f)
  <2> SUFFICES ASSUME Aborts(f) PROVE Vetted(f)
    OBVIOUS
  <2> DEFINE outcome == IF r.outer = "waiting" THEN "failed" ELSE "done"
             s == [Interrupted(r) EXCEPT !.aborted = TRUE]
             t == [s EXCEPT !.outer = outcome]
  <2>1. Settles(f, s, outcome, used) /\ Holding(r)
    BY DEF Aborts
  <2>2. /\ Interrupted(r) \in FetchRecords
        /\ \/ Interrupted(r) = r
           \/ /\ Interrupted(r).inner \notin Hopping \cup {"queued"}
              /\ Interrupted(r).sent = r.sent
    <3>1. Over(r) \in FetchRecords /\ Over(r).inner = "ended" /\ Over(r).sent = r.sent
      BY <1>1, OverRecord DEF Over, FetchRecords
    <3>2. Interrupted(r) \in {r, Over(r), [Over(r) EXCEPT !.inner = "broken"]}
      BY DEF Interrupted
    <3>3. Interrupted(r) \in FetchRecords
      BY <1>1, <3>1, <3>2 DEF FetchRecords
    <3>4. /\ [Over(r) EXCEPT !.inner = "broken"].inner = "broken"
          /\ [Over(r) EXCEPT !.inner = "broken"].sent = r.sent
      BY <3>1 DEF FetchRecords
    <3> QED
      BY <3>1, <3>2, <3>3, <3>4 DEF Hopping
  <2>3. /\ t.outer = outcome /\ t.outer # "idle" /\ t.sent = Interrupted(r).sent
        /\ t.inner = Interrupted(r).inner /\ t.visited = Interrupted(r).visited
        /\ t.checked = Interrupted(r).checked /\ t.url = Interrupted(r).url
    BY <2>2 DEF FetchRecords
  <2> HIDE DEF t
  <2>4. Vets(f, t, used)
    <3>1. CASE Interrupted(r) = r
      BY <1>1, <2>3, <3>1, SameVets
    <3>2. CASE Interrupted(r) # r
      BY <1>1, <2>2, <2>3, <3>2, QuietVets
    <3> QED
      BY <3>1, <3>2
  <2> QED
    BY <2>1, <2>4, SettlesVets DEF t
<1>5. CASE TimerFires(f)
  <2>1. r.inner \in Hopping \cup Open /\ r.outer # "idle"
    BY <1>1, <1>5 DEF TimerFires, Timed, RowOK, Early, Open
  <2>2. CASE r.inner \in Hopping
    BY <1>1, <1>5, <2>1, <2>2, InnerFailsVets DEF TimerFires
  <2>3. CASE r.inner \in Open
    <3>1. Becomes(f, Interrupted(r), used)
      BY <1>5, <2>3 DEF TimerFires, Hopping, Open
    <3>2. Interrupted(r) = Over(r) \/ Interrupted(r) = [Over(r) EXCEPT !.inner = "broken"]
      BY <2>3 DEF Interrupted, Open
    <3>3. Vets(f, Interrupted(r), used)
      <4>1. Vets(f, Over(r), used) /\ Vets(f, [Over(r) EXCEPT !.inner = "broken"], used)
        BY <1>1, <2>1, OverVets
      <4> QED
        BY <3>2, <4>1
    <3> QED
      BY <3>1, <3>3 DEF Vetted
  <2> QED
    BY <2>1, <2>2, <2>3
<1> QED
  BY <1>2, <1>3, <1>4, <1>5 DEF CallerAborts, WatchFires

\* No hop begins or ends as time passes.
LEMMA RestVets ==
  ASSUME Inv, VetInv, Inv', Tick \/ UNCHANGED vars
  PROVE  VetInv' /\ VettedStep
<1>1. used' = used /\ DOMAIN fetch' = DOMAIN fetch
  BY DEF Tick, vars, budgetVars, Inv, TypeOK
<1>2. \A f \in Fetches :
        /\ fetch'[f].sent = fetch[f].sent /\ fetch'[f].inner = fetch[f].inner
        /\ fetch'[f].visited = fetch[f].visited /\ fetch'[f].checked = fetch[f].checked
        /\ fetch'[f].url = fetch[f].url /\ fetch'[f].outer = fetch[f].outer
  <2> TAKE f \in Fetches
  <2>1. fetch[f] \in FetchRecords
    BY StateFacts
  <2>2. fetch'[f] = fetch[f] \/ fetch'[f] = [fetch[f] EXCEPT !.age = @ + 1]
    BY DEF Tick, vars
  <2> QED
    BY <2>1, <2>2 DEF FetchRecords
<1>3. \A f \in Fetches : VettedOK(fetch'[f]) /\ Share(fetch'[f]) = Share(fetch[f])
  <2> TAKE f \in Fetches
  <2>1. Share(fetch'[f]) = Share(fetch[f]) /\ Sent(fetch'[f]) = Sent(fetch[f])
    BY <1>2 DEF Share, Sent
  <2> QED
    BY <1>2, <2>1 DEF VetInv, VettedOK
<1>4. Slots' = Slots
  BY <1>3 DEF Slots
<1>5. VetInv'
  BY <1>1, <1>3, <1>4 DEF VetInv
<1>6. \A f \in Fetches : VettedSend(f, fetch'[f])
  BY <1>2 DEF VettedSend
<1>7. Cardinality(Dispatched(fetch')) <= used'["requests"]
  <2>1. \A f \in Fetches : 1..Len(fetch'[f].sent) \subseteq 1..Share(fetch[f])
    <3> TAKE f \in Fetches
    <3>1. /\ Len(fetch[f].sent) \in Nat /\ Share(fetch[f]) \in Nat
          /\ Len(fetch[f].sent) <= Share(fetch[f])
      BY Shares, ShareType
    <3> QED
      BY <1>2, <3>1
  <2>2. Dispatched(fetch') \in SUBSET Slots
    BY <2>1 DEF Dispatched, Slots
  <2>3. /\ IsFiniteSet(Dispatched(fetch')) /\ Cardinality(Dispatched(fetch')) <= Cardinality(Slots)
        /\ Cardinality(Slots) <= used.requests /\ IsFiniteSet(Slots)
    BY <2>2, FS_Subset DEF VetInv
  <2>4. Cardinality(Dispatched(fetch')) \in Nat /\ Cardinality(Slots) \in Nat
    BY <2>3, FS_CardinalityType
  <2>5. used.requests \in Nat
    BY DEF Inv, TypeOK, BudgetTypeOK
  <2> QED
    BY <1>1, <2>3, <2>4, <2>5
<1> QED
  BY <1>5, <1>6, <1>7 DEF VettedStep

LEMMA NextVets ==
  ASSUME Inv, VetInv, [Next]_vars
  PROVE  VetInv' /\ VettedStep
<1>1. Inv'
  BY NextInv
<1>2. CASE Tick \/ UNCHANGED vars
  BY <1>1, <1>2, RestVets
<1>3. ASSUME NEW f \in Fetches, Vetted(f)
      PROVE  VetInv' /\ VettedStep
  BY <1>1, <1>3, VettedKeeps
<1> QED
  BY <1>2, <1>3, StartVets, HopVets, BodyVets, AnswerVets, EndVets DEF Next

LEMMA InitVets == Init => VetInv
<1> SUFFICES ASSUME Init PROVE VetInv
  OBVIOUS
<1>1. \A f \in Fetches : fetch[f] = NotStarted
  BY DEF Init
<1>2. VettedOK(NotStarted) /\ Share(NotStarted) = 0
  BY DEF VettedOK, NotStarted, Hopping, Share, Underway
<1>3. Slots = {}
  BY <1>1, <1>2 DEF Slots
<1>4. IsFiniteSet(Slots) /\ Cardinality(Slots) = 0 /\ used.requests = 0
  BY <1>3, FS_EmptySet DEF Init, BudgetInit, Unused
<1> QED
  BY <1>1, <1>2, <1>4 DEF VetInv

\* A request goes only to a URL that has passed the policy and the address check since the
\* fetch was directed there and that it has not visited before, after at most MaxRedirects
\* redirects; and every dispatch has been charged (createVettedFetch, createBudgetedFetch).
THEOREM SendsStayVetted == Spec => SendsAreVetted
<1>1. Inv /\ VetInv /\ [Next]_vars => (Inv /\ VetInv)'
  BY NextInv, NextVets
<1>2. Inv /\ VetInv /\ [Next]_vars =>
        [ /\ \A f \in Fetches :
               fetch'[f].sent # fetch[f].sent =>
                 /\ fetch'[f].checked = {"policy", "address"}
                 /\ fetch'[f].url \notin Sent(fetch[f])
                 /\ Len(fetch[f].sent) <= MaxRedirects
          /\ Cardinality(Dispatched(fetch')) <= used'["requests"] ]_vars
  BY NextVets DEF VettedStep, VettedSend
<1> QED
  BY <1>1, <1>2, InitInv, InitVets, PTL DEF Spec, SendsAreVetted

=============================================================================
