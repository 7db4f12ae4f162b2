------------------------- MODULE SharedStoresProofs -------------------------
(***************************************************************************)
(* Proofs about what the stores keep in order to find and to count their   *)
(* records, for any number of processes, clients and sessions, any limits  *)
(* and any window, and for any keys and expiries of the index: the books   *)
(* of the browser session stores agree with the sessions, the limits that  *)
(* admissions count with them hold, and the index of expiries is exact.    *)
(***************************************************************************)
EXTENDS SharedStores, FiniteSetTheorems, SequenceTheorems, WellFoundedInduction, TLAPS

-----------------------------------------------------------------------------
(* The inductive invariant of the browser session stores *)

\* Nobody is known to have been admitted with a session that is not stored.
NoTraces == \A s \in Sessions : ~Stored(s) => by[s] = NoSubject

\* By the time n: the sessions admitted that live, of all clients and of one.
LiveAt(n)      == {s \in Sessions : Stored(s) /\ n < expiry[s] /\ by[s] # NoSubject}
LiveOf(u, n)   == {s \in Sessions : Stored(s) /\ n < expiry[s] /\ by[s] = u}

LiveSessionsOK ==
  /\ Cardinality(LiveAt(clock)) <= limits.all
  /\ \A u \in Subjects : Cardinality(LiveOf(u, clock)) <= limits.subject

\* The transaction that has the lock is the only one, and what it has counted has not grown.
AdmissionOK(p, a) ==
  a.at = "inserted" =>
    /\ backend = "postgres" /\ lock = p
    /\ ~Stored(a.session) /\ a.now <= clock
    /\ Cardinality(LiveAt(a.now)) < limits.all
    /\ Cardinality(LiveOf(a.subject, a.now)) < limits.subject
    /\ Total(InWindow(a.subject, a.now)) < MaxCreations

MemoryBooks ==
  /\ index = {s \in Sessions : Stored(s)}
  /\ \A u \in Subjects : counts[u] = Cardinality({s \in Sessions : Stored(s) /\ by[s] = u})

\* A session that has not expired is in the registries if it is stored, its key stays, and
\* so does the hash with the client it was admitted for.
Registered(s) ==
  /\ s \in index <=> Stored(s)
  /\ owner[s] = by[s]
  /\ \A u \in Subjects : s \in members[u] <=> by[s] = u
  /\ by[s] # NoSubject => expiry[s] <= ownerEnds

Registries ==
  /\ \A s \in Sessions : clock < expiry[s] => Registered(s)
  /\ \A s \in Sessions : Stored(s) => expiry[s] <= keyEnds[s]

\* Of a client, by the time `now` and with the backend b: r is what the store knows of its
\* recent creations, c what they are. They are those of a window. Of a client who is not
\* overtaken the store knows all of them until they are out of it, but PostgreSQL those since
\* its own window began, before which there have not been too many.
RateFine(b, now, r, c) ==
  /\ Total(r.made) <= MaxCreations
  /\ \A t \in Times : r.made[t] > 0 => t <= now
  /\ \A t \in Times : c[t] > 0 => t <= now /\ now < t + Window
  /\ b = "memory" /\ Total(r.made) > 0 => r.ends = LastOf(r.made) + Window

WindowFine(r, c) ==
  \A t \in Times : c[t] > 0 => c[t] <= r.made[t] /\ t + Window <= r.ends

FixedWindowFine(r, c) ==
  /\ r # NoRate => \A t \in Times : r.ends < t + Window => c[t] <= r.made[t]
  /\ Total(c) <= MaxCreations + Total(r.made)

ClientFine(b, now, over, r, c) ==
  /\ RateFine(b, now, r, c)
  /\ ~over => IF b = "postgres" THEN FixedWindowFine(r, c) ELSE WindowFine(r, c)

CreationsOK ==
  \A u \in Subjects : ClientFine(backend, clock, u \in overtaken, rates[u], created[u])

BooksOK ==
  /\ backend # "redis" => owner = by
  /\ backend = "memory" => MemoryBooks
  /\ backend = "redis" => Registries

AdmissionsOK == \A p \in Processes : AdmissionOK(p, admission[p])

PlaceOK == backend \in {"memory", "postgres", "redis"} /\ clock \in Times

SessionInv ==
  /\ SessionTypeOK /\ PlaceOK
  /\ NoTraces /\ LiveSessionsOK /\ AdmissionsOK /\ BooksOK /\ CreationsOK

sessionState == <<backend, clock, browserVars>>

-----------------------------------------------------------------------------
(* Sets and counts *)

\* A least number in a set of naturals, and so a greatest one in a set that is bounded.
LEMMA LeastOf ==
  ASSUME NEW S \in SUBSET Nat, S # {}
  PROVE  \E n \in S : \A m \in S : n <= m
<1>1. PICK n \in S : \A m \in S : <<m, n>> \notin OpToRel(<, Nat)
  BY WFMin, NatLessThanWellFounded, Zenon
<1>2. \A m \in S : ~(m < n)
  BY <1>1, Zenon DEF OpToRel
<1> QED BY <1>2

LEMMA GreatestOf ==
  ASSUME NEW S \in SUBSET Nat, S # {}, NEW b \in Nat, \A m \in S : m <= b
  PROVE  \E n \in S : \A m \in S : m <= n
<1> DEFINE D == {d \in Nat : b - d \in S}
<1>1. PICK m \in S : TRUE
  OBVIOUS
<1>2. b - m \in D
  <2>1. m \in Nat /\ m <= b
    BY <1>1
  <2>2. b - m \in Nat /\ b - (b - m) = m
    BY <2>1
  <2> QED BY <2>2, <1>1
<1>3. D \in SUBSET Nat /\ D # {}
  BY <1>2
<1> HIDE DEF D
<1>4. PICK d \in D : \A e \in D : d <= e
  BY <1>3, LeastOf
<1>5. b - d \in S /\ d \in Nat
  BY DEF D
<1>6. ASSUME NEW k \in S PROVE k <= b - d
  <2>1. k \in Nat /\ k <= b
    OBVIOUS
  <2>2. b - k \in Nat /\ b - (b - k) = k
    BY <2>1
  <2>3. b - k \in D
    BY <2>2 DEF D
  <2>4. d <= b - k
    BY <2>3, <1>4
  <2> QED BY <2>1, <2>2, <2>4, <1>5
<1> QED BY <1>5, <1>6

\* A finite set of naturals is bounded: there is no smallest one that is not.
LEMMA FiniteIsBounded ==
  ASSUME NEW F, IsFiniteSet(F), F \subseteq Nat
  PROVE  \E b \in Nat : \A m \in F : m <= b
<1> DEFINE Bounded(S) == \E b \in Nat : \A m \in S : m <= b
           C == {n \in Nat : \E S \in SUBSET F : Cardinality(S) = n /\ ~Bounded(S)}
<1>0. SUFFICES ASSUME ~Bounded(F) PROVE FALSE
  OBVIOUS
<1>1. C \in SUBSET Nat /\ C # {}
  <2>1. Cardinality(F) \in C
    BY <1>0, FS_CardinalityType
  <2> QED BY <2>1
<1>2. PICK n \in C : \A k \in C : n <= k
  <2> HIDE DEF C
  <2> QED BY <1>1, LeastOf
<1>3. PICK S \in SUBSET F : Cardinality(S) = n /\ ~Bounded(S)
  OBVIOUS
<1>4. IsFiniteSet(S)
  BY FS_Subset
<1>5. PICK x \in S : TRUE
  <2>1. S # {}
    <3> SUFFICES ASSUME S = {} PROVE Bounded(S)
      BY <1>3
    <3> QED BY 0 \in Nat
  <2> QED BY <2>1
<1>6. /\ IsFiniteSet(S \ {x})
      /\ Cardinality(S \ {x}) = n - 1
  BY <1>3, <1>4, <1>5, FS_RemoveElement
<1>7. n - 1 \notin C
  BY <1>2
<1>8. n - 1 \in Nat
  BY <1>6, FS_CardinalityType
<1>9. Bounded(S \ {x})
  BY <1>6, <1>7, <1>8
<1>10. PICK b \in Nat : \A m \in S \ {x} : m <= b
  BY <1>9
<1>11. x \in Nat
  BY <1>5
<1>12. b + x \in Nat /\ \A m \in S : m <= b + x
  <2>1. b + x \in Nat /\ x <= b + x
    BY <1>11
  <2>2. ASSUME NEW m \in S, m # x PROVE m <= b + x
    <3>1. m <= b /\ m \in Nat
      BY <1>10, <2>2
    <3> QED BY <3>1, <1>11
  <2> QED BY <2>1, <2>2
<1> QED BY <1>12, <1>3

LEMMA Constants ==
  /\ EndOfTime \in Nat /\ Window \in Nat /\ Window > 0 /\ MaxCreations \in Nat /\ MaxCreations > 0
  /\ Expiries \subseteq Nat /\ LastRevision \in Nat
  /\ \A t \in Times : t \in Nat /\ t <= EndOfTime
  /\ IsFiniteSet(Times)
<1>1. IsFiniteSet(0..EndOfTime)
  BY SessionsAssumption, FS_Interval
<1> QED BY <1>1, SessionsAssumption DEF Times

LEMMA NewestIs ==
  ASSUME NEW S \in SUBSET Sessions, S # {}, expiry \in [Sessions -> Expiries]
  PROVE  Newest(S) \in Nat /\ \A s \in S : expiry[s] <= Newest(S)
<1> DEFINE T == {expiry[s] : s \in S}
<1>1. T \in SUBSET Nat /\ T # {}
  BY Constants
<1>2. IsFiniteSet(T)
  <2>1. IsFiniteSet(S)
    BY SessionsAssumption, FS_Subset
  <2>2. [s \in S |-> expiry[s]] \in Surjection(S, T)
    BY DEF Surjection
  <2> QED BY <2>1, <2>2, FS_Surjection
<1>3. PICK b \in Nat : \A m \in T : m <= b
  <2> HIDE DEF T
  <2> QED BY <1>1, <1>2, FiniteIsBounded
<1>4. \E n \in T : \A m \in T : m <= n
  <2> HIDE DEF T
  <2> QED BY <1>1, <1>3, GreatestOf
<1>5. \E t \in T : \A s \in S : expiry[s] <= t
  BY <1>4
<1>6. Newest(S) \in T /\ \A s \in S : expiry[s] <= Newest(S)
  BY <1>5 DEF Newest
<1> QED BY <1>6, <1>1

\* Creations are counted: each has a stamp, its time and a number.
Stamps(m) == UNION {{t} \X (1..m[t]) : t \in Times}

LEMMA TotalIsCardinality ==
  ASSUME NEW m \in [Times -> Nat]
  PROVE  /\ IsFiniteSet(Stamps(m))
         /\ Total(m) = Cardinality(Stamps(m)) /\ Total(m) \in Nat
<1> DEFINE each(t) == {t} \X (1..m[t])
           all     == {each(t) : t \in Times}
<1>1. IsFiniteSet(all)
  <2>1. [t \in Times |-> each(t)] \in Surjection(Times, all)
    BY DEF Surjection
  <2> QED BY <2>1, Constants, FS_Surjection
<1>2. ASSUME NEW T \in all PROVE IsFiniteSet(T)
  <2>1. PICK t \in Times : T = each(t)
    OBVIOUS
  <2>2. IsFiniteSet({t})
    BY FS_Singleton
  <2>3. IsFiniteSet(1..m[t])
    <3>1. m[t] \in Int /\ 1 \in Int
      OBVIOUS
    <3> QED BY <3>1, FS_Interval
  <2> QED BY <2>1, <2>2, <2>3, FS_Product
<1>3. IsFiniteSet(UNION all)
  <2> HIDE DEF all
  <2> QED BY <1>1, <1>2, FS_UNION
<1>4. IsFiniteSet(Stamps(m))
  BY <1>3 DEF Stamps
<1>5. Cardinality(Stamps(m)) \in Nat
  BY <1>4, FS_CardinalityType
<1> QED BY <1>4, <1>5 DEF Total, Stamps

LEMMA StampsOf ==
  ASSUME NEW m \in [Times -> Nat], NEW x
  PROVE  x \in Stamps(m) <=> \E t \in Times : \E k \in Nat : x = <<t, k>> /\ 1 <= k /\ k <= m[t]
<1>1. ASSUME NEW t \in Times PROVE \A k : k \in 1..m[t] <=> k \in Nat /\ 1 <= k /\ k <= m[t]
  OBVIOUS
<1> QED BY <1>1 DEF Stamps

LEMMA TotalGrows ==
  ASSUME NEW m \in [Times -> Nat], NEW k \in [Times -> Nat], \A t \in Times : m[t] <= k[t]
  PROVE  Total(m) <= Total(k)
<1>1. ASSUME NEW x \in Stamps(m) PROVE x \in Stamps(k)
  <2>1. PICK t \in Times, i \in Nat : x = <<t, i>> /\ 1 <= i /\ i <= m[t]
    BY StampsOf
  <2>2. m[t] \in Nat /\ k[t] \in Nat /\ m[t] <= k[t]
    OBVIOUS
  <2>3. i <= k[t]
    BY <2>1, <2>2
  <2> QED BY <2>1, <2>3, StampsOf
<1>2. Cardinality(Stamps(m)) <= Cardinality(Stamps(k))
  <2>1. Stamps(m) \in SUBSET Stamps(k)
    BY <1>1
  <2> QED BY <2>1, TotalIsCardinality, FS_Subset
<1> QED BY <1>2, TotalIsCardinality

LEMMA TotalOfNothing == Nothing \in [Times -> Nat] /\ Total(Nothing) = 0
<1>1. Nothing \in [Times -> Nat]
  BY DEF Nothing
<1>2. ASSUME NEW x \in Stamps(Nothing) PROVE FALSE
  <2>1. PICK t \in Times, k \in Nat : 1 <= k /\ k <= Nothing[t]
    BY <1>1, StampsOf
  <2> QED BY <2>1 DEF Nothing
<1>3. Stamps(Nothing) = {}
  BY <1>2
<1>4. Cardinality(Stamps(Nothing)) = 0
  BY <1>3, FS_EmptySet
<1> QED BY <1>1, <1>4, TotalIsCardinality

LEMMA TotalIsPositive ==
  ASSUME NEW m \in [Times -> Nat]
  PROVE  Total(m) > 0 <=> \E t \in Times : m[t] > 0
<1>1. ASSUME Total(m) > 0 PROVE \E t \in Times : m[t] > 0
  <2>1. Stamps(m) # {}
    BY <1>1, FS_EmptySet, TotalIsCardinality
  <2>2. PICK x : x \in Stamps(m)
    BY <2>1
  <2>3. PICK t \in Times, k \in Nat : 1 <= k /\ k <= m[t]
    BY <2>2, StampsOf
  <2>4. m[t] \in Nat
    OBVIOUS
  <2> QED BY <2>3, <2>4
<1>2. ASSUME NEW t \in Times, m[t] > 0 PROVE Total(m) > 0
  <2>1. m[t] \in Nat
    OBVIOUS
  <2>2. <<t, m[t]>> \in Stamps(m)
    BY <2>1, <1>2, StampsOf
  <2>3. Cardinality(Stamps(m)) # 0
    BY <2>2, TotalIsCardinality, FS_EmptySet
  <2> QED BY <2>3, TotalIsCardinality
<1> QED BY <1>1, <1>2

LEMMA MadeOnce ==
  ASSUME NEW m \in [Times -> Nat], NEW t \in Times
  PROVE  /\ Made(m, t) \in [Times -> Nat]
         /\ \A v \in Times : Made(m, t)[v] = IF v = t THEN m[v] + 1 ELSE m[v]
         /\ Total(Made(m, t)) = Total(m) + 1
<1> DEFINE made == Made(m, t)
<1>1. /\ made \in [Times -> Nat]
      /\ \A v \in Times : made[v] = IF v = t THEN m[v] + 1 ELSE m[v]
  BY DEF Made
<1> HIDE DEF made
<1> DEFINE new == <<t, m[t] + 1>>
<1>2. m[t] \in Nat /\ m[t] + 1 \in Nat /\ 1 <= m[t] + 1
  <2>1. m[t] \in Nat
    OBVIOUS
  <2> QED BY <2>1
<1>3. new \notin Stamps(m)
  <2> SUFFICES ASSUME new \in Stamps(m) PROVE FALSE
    OBVIOUS
  <2>1. PICK v \in Times, k \in Nat : new = <<v, k>> /\ k <= m[v]
    BY StampsOf
  <2>2. v = t /\ k = m[t] + 1
    BY <2>1
  <2> QED BY <2>1, <2>2, <1>2
<1>4. ASSUME NEW x PROVE x \in Stamps(made) <=> x \in Stamps(m) \/ x = new
  <2>1. ASSUME x \in Stamps(made) PROVE x \in Stamps(m) \/ x = new
    <3>1. PICK v \in Times, k \in Nat : x = <<v, k>> /\ 1 <= k /\ k <= made[v]
      BY <1>1, <2>1, StampsOf
    <3>2. CASE v = t /\ k = m[t] + 1
      BY <3>1, <3>2
    <3>3. CASE v = t /\ k # m[t] + 1
      <4>1. k <= m[t]
        BY <1>1, <1>2, <3>1, <3>3
      <4> QED BY <3>1, <3>3, <4>1, StampsOf
    <3>4. CASE v # t
      BY <1>1, <3>1, <3>4, StampsOf
    <3> QED BY <3>2, <3>3, <3>4
  <2>2. ASSUME x \in Stamps(m) PROVE x \in Stamps(made)
    <3>1. PICK v \in Times, k \in Nat : x = <<v, k>> /\ 1 <= k /\ k <= m[v]
      BY <2>2, StampsOf
    <3>2. m[v] \in Nat /\ m[v] <= made[v]
      BY <1>1
    <3>3. made[v] \in Nat
      BY <1>1
    <3>4. k <= made[v]
      BY <3>1, <3>2, <3>3
    <3> QED BY <1>1, <3>1, <3>4, StampsOf
  <2>3. ASSUME x = new PROVE x \in Stamps(made)
    <3>1. made[t] = m[t] + 1
      BY <1>1
    <3>2. x = <<t, m[t] + 1>> /\ m[t] + 1 <= made[t]
      BY <2>3, <3>1, <1>2
    <3> QED BY <1>1, <1>2, <3>2, StampsOf
  <2> QED BY <2>1, <2>2, <2>3
<1>5. Stamps(made) = Stamps(m) \cup {new}
  BY <1>4
<1>6. Cardinality(Stamps(made)) = Cardinality(Stamps(m)) + 1
  <2> HIDE DEF new
  <2> QED BY <1>3, <1>5, TotalIsCardinality, FS_AddElement
<1>7. Total(made) = Total(m) + 1
  BY <1>1, <1>6, TotalIsCardinality
<1> QED BY <1>1, <1>7 DEF made

LEMMA AfterFacts ==
  ASSUME NEW m \in [Times -> Nat], NEW t \in Int
  PROVE  /\ After(m, t) \in [Times -> Nat]
         /\ \A v \in Times : After(m, t)[v] = IF v > t THEN m[v] ELSE 0
         /\ Total(After(m, t)) <= Total(m)
<1>1. /\ After(m, t) \in [Times -> Nat]
      /\ \A v \in Times : After(m, t)[v] = IF v > t THEN m[v] ELSE 0
  BY DEF After
<1>2. ASSUME NEW v \in Times PROVE After(m, t)[v] <= m[v]
  <2>1. m[v] \in Nat
    OBVIOUS
  <2> QED BY <1>1, <2>1
<1> QED BY <1>1, <1>2, TotalGrows

LEMMA LastOfIs ==
  ASSUME NEW m \in [Times -> Nat], \E t \in Times : m[t] > 0
  PROVE  /\ LastOf(m) \in Times /\ m[LastOf(m)] > 0
         /\ \A t \in Times : m[t] > 0 => t <= LastOf(m)
<1> DEFINE T == {t \in Times : m[t] > 0}
<1>1. T \in SUBSET Nat /\ T # {} /\ \A t \in T : t <= EndOfTime
  BY Constants
<1>2. \E n \in T : \A t \in T : t <= n
  <2> HIDE DEF T
  <2> QED BY <1>1, Constants, GreatestOf
<1>3. \E t \in Times : m[t] > 0 /\ \A u \in Times : m[u] > 0 => u <= t
  BY <1>2
<1> QED BY <1>3 DEF LastOf

\* The latest of what is there and a new one that is not earlier is the new one.
LEMMA LastOfMade ==
  ASSUME NEW m \in [Times -> Nat], NEW t \in Times, \A v \in Times : m[v] > 0 => v <= t
  PROVE  LastOf(Made(m, t)) = t
<1> DEFINE made == Made(m, t)
<1>1. /\ made \in [Times -> Nat]
      /\ \A v \in Times : made[v] = IF v = t THEN m[v] + 1 ELSE m[v]
  BY MadeOnce
<1> HIDE DEF made
<1>2. m[t] \in Nat /\ made[t] = m[t] + 1
  BY <1>1
<1>3. made[t] > 0
  BY <1>2
<1>4. /\ LastOf(made) \in Times /\ made[LastOf(made)] > 0
      /\ \A v \in Times : made[v] > 0 => v <= LastOf(made)
  BY <1>1, <1>3, LastOfIs
<1>5. t <= LastOf(made)
  BY <1>3, <1>4
<1>6. LastOf(made) <= t
  BY <1>1, <1>4, Constants
<1>7. LastOf(made) = t
  BY <1>4, <1>5, <1>6, Constants
<1> QED BY <1>7 DEF made

-----------------------------------------------------------------------------
(* The creations of a client *)

Rates  == [made : [Times -> Nat], ends : Nat]
Counts == [Times -> Nat]

LEMMA RateTypes ==
  /\ \A r \in Rates : r.made \in Counts /\ r.made \in [Times -> Nat] /\ r.ends \in Nat
  /\ \A m \in Counts, e \in Nat : /\ [made |-> m, ends |-> e] \in Rates
                                  /\ [made |-> m, ends |-> e].made = m
                                  /\ [made |-> m, ends |-> e].ends = e
  /\ NoRate \in Rates /\ NoRate.made = Nothing /\ NoRate.ends = 0
<1>1. Nothing \in Counts
  BY TotalOfNothing DEF Counts
<1> QED BY <1>1 DEF Rates, Counts, NoRate

\* A store may forget the creations of a client when the last of them is out of the window.
LEMMA ForgottenFine ==
  ASSUME NEW b, b # "postgres", NEW now \in Times, NEW over \in BOOLEAN, NEW r \in Rates, NEW c \in Counts,
         ClientFine(b, now, over, r, c), r.ends <= now
  PROVE  ClientFine(b, now, over, NoRate, c)
<1>1. ASSUME NEW t \in Times PROVE NoRate.made[t] = 0
  BY RateTypes DEF Nothing
<1>2. Total(NoRate.made) = 0
  BY RateTypes, TotalOfNothing
<1>3. RateFine(b, now, NoRate, c)
  <2>1. Total(NoRate.made) <= MaxCreations
    BY <1>2, Constants
  <2>2. \A t \in Times : c[t] > 0 => t <= now /\ now < t + Window
    BY DEF ClientFine, RateFine
  <2> QED BY <2>1, <2>2, <1>1, <1>2 DEF RateFine
<1>4. ASSUME ~over, NEW t \in Times, c[t] > 0 PROVE FALSE
  <2>1. t + Window <= r.ends /\ now < t + Window
    BY <1>4 DEF ClientFine, RateFine, WindowFine
  <2>2. r.ends \in Nat /\ now \in Nat /\ t \in Nat
    BY RateTypes, Constants
  <2> QED BY <2>1, <2>2, Constants
<1>5. ~over => WindowFine(NoRate, c)
  BY <1>4 DEF WindowFine
<1> QED BY <1>3, <1>5 DEF ClientFine

\* It may forget those that are out of the window.
LEMMA PrunedFine ==
  ASSUME NEW b, b # "postgres", NEW now \in Times, NEW over \in BOOLEAN, NEW r \in Rates, NEW c \in Counts,
         ClientFine(b, now, over, r, c),
         NEW k \in Int, k <= now - Window, Total(After(r.made, k)) > 0
  PROVE  LET e == LastOf(After(r.made, k)) + Window
         IN  /\ e \in Nat
             /\ ClientFine(b, now, over, [made |-> After(r.made, k), ends |-> e], c)
<1> DEFINE m == After(r.made, k)
           e == LastOf(m) + Window
           q == [made |-> m, ends |-> e]
<1>1. /\ m \in Counts
      /\ \A v \in Times : m[v] = IF v > k THEN r.made[v] ELSE 0
      /\ Total(m) <= Total(r.made)
  BY RateTypes, AfterFacts DEF Counts
<1>2. Total(m) > 0 /\ r.made \in Counts
  BY RateTypes
<1> HIDE DEF m
<1>3. /\ LastOf(m) \in Times
      /\ \A t \in Times : m[t] > 0 => t <= LastOf(m)
  BY <1>1, <1>2, LastOfIs, TotalIsPositive DEF Counts
<1>4. e \in Nat
  BY <1>3, Constants
<1>5. q.made = m /\ q.ends = e
  OBVIOUS
<1>6. RateFine(b, now, q, c)
  <2>1. Total(m) <= MaxCreations
    <3>1. Total(r.made) <= MaxCreations
      BY DEF ClientFine, RateFine
    <3> QED BY <3>1, <1>1, <1>2, TotalIsCardinality, Constants DEF Counts
  <2>2. ASSUME NEW t \in Times, m[t] > 0 PROVE t <= now
    <3>1. r.made[t] > 0
      BY <1>1, <2>2
    <3> QED BY <3>1 DEF ClientFine, RateFine
  <2>3. \A t \in Times : c[t] > 0 => t <= now /\ now < t + Window
    BY DEF ClientFine, RateFine
  <2> QED BY <2>1, <2>2, <2>3, <1>5 DEF RateFine
<1>7. ASSUME ~over, NEW t \in Times, c[t] > 0 PROVE c[t] <= m[t] /\ t + Window <= e
  <2>1. c[t] <= r.made[t] /\ now < t + Window
    BY <1>7 DEF ClientFine, RateFine, WindowFine
  <2>2. t > k
    BY <2>1, Constants
  <2>3. c[t] \in Nat /\ r.made[t] \in Nat
    BY <1>2 DEF Counts
  <2>4. c[t] <= m[t] /\ m[t] > 0
    BY <2>1, <2>2, <2>3, <1>1, <1>7
  <2>5. t <= LastOf(m)
    BY <2>4, <1>3
  <2> QED BY <2>4, <2>5, <1>3, Constants
<1>8. ~over => WindowFine(q, c)
  <2> HIDE DEF e
  <2> QED BY <1>7, <1>5 DEF WindowFine
<1>9. ClientFine(b, now, over, q, c)
  BY <1>6, <1>8 DEF ClientFine
<1> QED BY <1>4, <1>9 DEF m

\* What is left of the history of creations.
LEMMA HistoryOf ==
  ASSUME NEW c \in Counts, NEW n \in Times, NEW k \in Int
  PROVE  /\ After(Made(c, n), k) \in Counts
         /\ \A t \in Times : /\ After(Made(c, n), k)[t] \in Nat
                             /\ After(Made(c, n), k)[t] <= Made(c, n)[t]
                             /\ After(Made(c, n), k)[t] > 0 => t > k
                             /\ Made(c, n)[t] = IF t = n THEN c[t] + 1 ELSE c[t]
         /\ Total(After(Made(c, n), k)) <= Total(c) + 1
<1>1. Made(c, n) \in [Times -> Nat] /\ Total(Made(c, n)) = Total(c) + 1
  BY MadeOnce DEF Counts
<1>2. \A t \in Times : Made(c, n)[t] = IF t = n THEN c[t] + 1 ELSE c[t]
  BY MadeOnce DEF Counts
<1> DEFINE mc == Made(c, n)
<1> HIDE DEF mc
<1>3. mc \in [Times -> Nat]
  BY <1>1 DEF mc
<1>4. /\ After(mc, k) \in [Times -> Nat]
      /\ \A v \in Times : After(mc, k)[v] = IF v > k THEN mc[v] ELSE 0
      /\ Total(After(mc, k)) <= Total(mc)
  BY <1>3, AfterFacts
<1>5. ASSUME NEW t \in Times
      PROVE  /\ After(mc, k)[t] \in Nat /\ After(mc, k)[t] <= mc[t]
             /\ After(mc, k)[t] > 0 => t > k
  <2>1. mc[t] \in Nat
    BY <1>3
  <2> QED BY <2>1, <1>4
<1> QED BY <1>1, <1>2, <1>4, <1>5 DEF mc, Counts

\* A creation is counted, with a time that may have passed.
LEMMA CountedFine ==
  ASSUME NEW b, b # "postgres", NEW now \in Times, NEW over \in BOOLEAN, NEW r \in Rates, NEW c \in Counts,
         ClientFine(b, now, over, r, c),
         NEW n \in Times, n <= now, b = "memory" => n = now,
         NEW k \in Int, k <= now - Window, Total(After(r.made, k)) < MaxCreations
  PROVE  ClientFine(b, now, over \/ Total(After(c, n)) > 0,
                    [made |-> Made(After(r.made, k), n), ends |-> n + Window],
                    After(Made(c, n), now - Window))
<1> DEFINE o == over \/ Total(After(c, n)) > 0
           a == After(r.made, k)
           m == Made(a, n)
           e == n + Window
           q == [made |-> m, ends |-> e]
           d == After(Made(c, n), now - Window)
<1>1. /\ a \in Counts /\ r.made \in Counts
      /\ \A v \in Times : a[v] = IF v > k THEN r.made[v] ELSE 0
  BY RateTypes, AfterFacts DEF Counts
<1>2. Total(a) < MaxCreations /\ Total(a) \in Nat
  BY <1>1, TotalIsCardinality DEF Counts
<1>3. now - Window \in Int
  BY Constants
<1>4. /\ d \in Counts
      /\ \A t \in Times : d[t] \in Nat /\ d[t] <= Made(c, n)[t] /\ (d[t] > 0 => t > now - Window)
      /\ \A t \in Times : Made(c, n)[t] = IF t = n THEN c[t] + 1 ELSE c[t]
  <2> DEFINE g == now - Window
  <2>1. g \in Int
    BY <1>3
  <2> HIDE DEF g
  <2>2. /\ After(Made(c, n), g) \in Counts
        /\ \A t \in Times : /\ After(Made(c, n), g)[t] \in Nat
                            /\ After(Made(c, n), g)[t] <= Made(c, n)[t]
                            /\ After(Made(c, n), g)[t] > 0 => t > g
                            /\ Made(c, n)[t] = IF t = n THEN c[t] + 1 ELSE c[t]
        /\ Total(After(Made(c, n), g)) <= Total(c) + 1
    BY <2>1, HistoryOf
  <2> QED BY <2>2 DEF g
<1>5. \A t \in Times : r.made[t] > 0 => t <= now
  BY DEF ClientFine, RateFine
<1>6. \A t \in Times : c[t] > 0 => t <= now /\ now < t + Window
  BY DEF ClientFine, RateFine
<1>7. ASSUME ~over, NEW t \in Times, c[t] > 0 PROVE c[t] <= r.made[t]
  BY <1>7 DEF ClientFine, RateFine, WindowFine
<1>8. ASSUME ~o, NEW t \in Times, c[t] > 0 PROVE t <= n
  <2>1. After(c, n) \in [Times -> Nat] /\ \A v \in Times : After(c, n)[v] = IF v > n THEN c[v] ELSE 0
    BY AfterFacts, Constants DEF Counts
  <2>2. ~(Total(After(c, n)) > 0)
    BY <1>8
  <2>3. ~(After(c, n)[t] > 0)
    BY <2>1, <2>2, TotalIsPositive
  <2> QED BY <2>1, <2>3, <1>8, Constants
<1> HIDE DEF d
<1>9. \A t \in Times : a[t] > 0 => t <= now
  BY <1>1, <1>5
<1>10. /\ m \in Counts /\ Total(m) = Total(a) + 1
       /\ \A v \in Times : m[v] = IF v = n THEN a[v] + 1 ELSE a[v]
  <2> HIDE DEF a
  <2> QED BY <1>1, MadeOnce DEF Counts
<1>11. b = "memory" => LastOf(m) = n
  <2> HIDE DEF a
  <2> QED BY <1>1, <1>9, LastOfMade DEF Counts
<1>12. q.made = m /\ q.ends = e /\ e = n + Window
  OBVIOUS
<1> HIDE DEF m, a, q, e
<1>13. RateFine(b, now, q, d)
  <2>1. Total(m) <= MaxCreations
    BY <1>2, <1>10, Constants
  <2>2. ASSUME NEW t \in Times, m[t] > 0 PROVE t <= now
    <3>1. CASE t = n
      BY <3>1
    <3>2. CASE t # n
      BY <3>2, <1>10, <1>9, <2>2
    <3> QED BY <3>1, <3>2
  <2>3. ASSUME NEW t \in Times, d[t] > 0 PROVE t <= now /\ now < t + Window
    <3>1. now < t + Window
      BY <2>3, <1>4, Constants
    <3>2. CASE t = n
      BY <3>1, <3>2
    <3>3. CASE t # n
      <4>1. c[t] > 0
        BY <3>3, <1>4, <2>3 DEF Counts
      <4> QED BY <4>1, <1>6, <3>1
    <3> QED BY <3>2, <3>3
  <2>4. b = "memory" /\ Total(m) > 0 => e = LastOf(m) + Window
    BY <1>11, <1>12
  <2> QED BY <2>1, <2>2, <2>3, <2>4, <1>12 DEF RateFine
<1>14. ASSUME ~o, NEW t \in Times, d[t] > 0 PROVE d[t] <= m[t] /\ t + Window <= e
  <2>0. /\ c[t] \in Nat /\ a[t] \in Nat /\ r.made[t] \in Nat /\ d[t] \in Nat
        /\ t > now - Window /\ t > k
    BY <1>1, <1>4, <1>14, Constants DEF Counts
  <2>1. c[t] <= a[t]
    <3>1. c[t] = 0 \/ c[t] <= r.made[t]
      BY <1>7, <1>14, <2>0
    <3> QED BY <3>1, <2>0, <1>1
  <2>2. d[t] <= m[t]
    BY <2>0, <2>1, <1>4, <1>10
  <2>3. t <= n
    <3>1. CASE t = n
      BY <3>1, Constants
    <3>2. CASE t # n
      <4>1. c[t] > 0
        BY <3>2, <1>4, <1>14, <2>0
      <4> QED BY <4>1, <1>8, <1>14
    <3> QED BY <3>1, <3>2
  <2> QED BY <2>2, <2>3, <1>12, Constants
<1>15. ~o => WindowFine(q, d)
  BY <1>14, <1>12 DEF WindowFine
<1>16. ClientFine(b, now, o, q, d)
  <2> HIDE DEF o
  <2> QED BY <1>13, <1>15 DEF ClientFine
<1> QED BY <1>16 DEF d, q, m, a, e

\* When a window of PostgreSQL has ended, no creation from before it is recent.
LEMMA WindowEnded ==
  ASSUME NEW now \in Times, NEW r \in Rates, NEW c \in Counts,
         ClientFine("postgres", now, FALSE, r, c), r.ends <= now
  PROVE  Total(c) <= MaxCreations
<1>1. FixedWindowFine(r, c)
  BY DEF ClientFine
<1>2. CASE r = NoRate
  <2>1. Total(r.made) = 0
    BY <1>2, RateTypes, TotalOfNothing
  <2> QED BY <1>1, <2>1, Constants DEF FixedWindowFine
<1>3. CASE r # NoRate
  <2>1. ASSUME NEW t \in Times PROVE c[t] <= r.made[t]
    <3>1. c[t] \in Nat /\ r.made[t] \in Nat
      BY RateTypes DEF Counts
    <3>2. CASE c[t] > 0
      <4>1. now < t + Window
        BY <3>2 DEF ClientFine, RateFine
      <4>2. r.ends < t + Window
        BY <4>1, RateTypes, Constants
      <4> QED BY <1>1, <1>3, <4>2 DEF FixedWindowFine
    <3> QED BY <3>1, <3>2
  <2>2. Total(c) <= Total(r.made)
    BY <2>1, RateTypes, TotalGrows DEF Counts
  <2>3. Total(r.made) <= MaxCreations
    BY DEF ClientFine, RateFine
  <2>4. Total(c) \in Nat /\ Total(r.made) \in Nat
    BY RateTypes, TotalIsCardinality DEF Counts
  <2> QED BY <2>2, <2>3, <2>4, Constants
<1> QED BY <1>2, <1>3

LEMMA WindowDeletedFine ==
  ASSUME NEW now \in Times, NEW over \in BOOLEAN, NEW r \in Rates, NEW c \in Counts,
         ClientFine("postgres", now, over, r, c), r.ends <= now
  PROVE  ClientFine("postgres", now, over, NoRate, c)
<1>1. Total(NoRate.made) = 0 /\ \A t \in Times : NoRate.made[t] = 0
  BY RateTypes, TotalOfNothing DEF Nothing
<1>2. RateFine("postgres", now, NoRate, c)
  <2>1. Total(NoRate.made) <= MaxCreations
    BY <1>1, Constants
  <2>2. \A t \in Times : c[t] > 0 => t <= now /\ now < t + Window
    BY DEF ClientFine, RateFine
  <2> QED BY <2>1, <2>2, <1>1 DEF RateFine
<1>3. ASSUME ~over PROVE FixedWindowFine(NoRate, c)
  <2>1. ClientFine("postgres", now, FALSE, r, c)
    BY <1>3 DEF ClientFine
  <2>2. Total(c) <= MaxCreations
    BY <2>1, WindowEnded
  <2> QED BY <2>2, <1>1, Constants DEF FixedWindowFine
<1> QED BY <1>2, <1>3 DEF ClientFine

\* A creation is counted in the window, or begins a new one.
LEMMA FixedCountedFine ==
  ASSUME NEW now \in Times, NEW over \in BOOLEAN, NEW r \in Rates, NEW c \in Counts,
         ClientFine("postgres", now, over, r, c),
         NEW n \in Times, n <= now,
         NEW w, w = IF r.ends > n THEN r.made ELSE Nothing, Total(w) < MaxCreations
  PROVE  ClientFine("postgres", now, over \/ Total(After(c, n)) > 0,
                    [made |-> Made(w, n), ends |-> IF r.ends > n THEN r.ends ELSE n + Window],
                    After(Made(c, n), now - Window))
<1> DEFINE o == over \/ Total(After(c, n)) > 0
           m == Made(w, n)
           e == IF r.ends > n THEN r.ends ELSE n + Window
           q == [made |-> m, ends |-> e]
           g == now - Window
           d == After(Made(c, n), g)
<1>1. w \in Counts /\ r.made \in Counts /\ r.ends \in Nat
  BY RateTypes, TotalOfNothing DEF Counts
<1>2. Total(w) \in Nat /\ Total(r.made) \in Nat /\ Total(c) \in Nat
  BY <1>1, TotalIsCardinality DEF Counts
<1>3. g \in Int
  BY Constants
<1> HIDE DEF g
<1>4. /\ d \in Counts
      /\ \A t \in Times : d[t] \in Nat /\ d[t] <= Made(c, n)[t] /\ (d[t] > 0 => t > g)
      /\ \A t \in Times : Made(c, n)[t] = IF t = n THEN c[t] + 1 ELSE c[t]
      /\ Total(d) <= Total(c) + 1
  <2>1. /\ After(Made(c, n), g) \in Counts
        /\ \A t \in Times : /\ After(Made(c, n), g)[t] \in Nat
                            /\ After(Made(c, n), g)[t] <= Made(c, n)[t]
                            /\ After(Made(c, n), g)[t] > 0 => t > g
                            /\ Made(c, n)[t] = IF t = n THEN c[t] + 1 ELSE c[t]
        /\ Total(After(Made(c, n), g)) <= Total(c) + 1
    BY <1>3, HistoryOf
  <2> QED BY <2>1
<1>5. ASSUME ~o, NEW t \in Times, c[t] > 0 PROVE t <= n
  <2>1. After(c, n) \in [Times -> Nat] /\ \A v \in Times : After(c, n)[v] = IF v > n THEN c[v] ELSE 0
    BY AfterFacts, Constants DEF Counts
  <2>2. ~(Total(After(c, n)) > 0)
    BY <1>5
  <2>3. ~(After(c, n)[t] > 0)
    BY <2>1, <2>2, TotalIsPositive
  <2> QED BY <2>1, <2>3, <1>5, Constants
<1> HIDE DEF d
<1>6. Total(d) \in Nat
  BY <1>4, TotalIsCardinality DEF Counts
<1>7. /\ m \in Counts /\ Total(m) = Total(w) + 1
      /\ \A v \in Times : m[v] = IF v = n THEN w[v] + 1 ELSE w[v]
  BY <1>1, MadeOnce DEF Counts
<1>8. q.made = m /\ q.ends = e /\ e \in Nat
  BY <1>1, Constants
<1> HIDE DEF m, q
<1>9. RateFine("postgres", now, q, d)
  <2>1. Total(m) <= MaxCreations
    BY <1>2, <1>7, Constants
  <2>2. ASSUME NEW t \in Times, m[t] > 0 PROVE t <= now
    <3>1. CASE t = n
      BY <3>1
    <3>2. CASE t # n
      <4>1. w[t] > 0
        BY <3>2, <1>7, <2>2
      <4>2. r.made[t] > 0
        BY <4>1 DEF Nothing
      <4> QED BY <4>2 DEF ClientFine, RateFine
    <3> QED BY <3>1, <3>2
  <2>3. ASSUME NEW t \in Times, d[t] > 0 PROVE t <= now /\ now < t + Window
    <3>1. now < t + Window
      BY <2>3, <1>4, Constants DEF g
    <3>2. CASE t = n
      BY <3>1, <3>2
    <3>3. CASE t # n
      <4>1. c[t] > 0
        BY <3>3, <1>4, <2>3 DEF Counts
      <4> QED BY <4>1, <3>1 DEF ClientFine, RateFine
    <3> QED BY <3>2, <3>3
  <2> QED BY <2>1, <2>2, <2>3, <1>8 DEF RateFine
<1>10. ASSUME ~o PROVE FixedWindowFine(q, d)
  <2>1. FixedWindowFine(r, c) /\ ClientFine("postgres", now, FALSE, r, c)
    BY <1>10 DEF ClientFine
  <2>2. CASE r.ends > n
    <3>1. e = r.ends /\ w = r.made
      BY <2>2
    <3>2. r # NoRate
      BY <2>2, RateTypes, Constants
    <3>3. ASSUME NEW t \in Times, e < t + Window PROVE d[t] <= m[t]
      <4>1. c[t] <= r.made[t]
        BY <2>1, <3>1, <3>2, <3>3 DEF FixedWindowFine
      <4>2. c[t] \in Nat /\ r.made[t] \in Nat /\ d[t] \in Nat
        BY <1>1, <1>4 DEF Counts
      <4> QED BY <4>1, <4>2, <3>1, <1>4, <1>7
    <3>4. Total(c) <= MaxCreations + Total(w)
      BY <2>1, <3>1 DEF FixedWindowFine
    <3>5. Total(d) <= MaxCreations + Total(m)
      BY <3>4, <1>2, <1>4, <1>6, <1>7, Constants
    <3> QED BY <3>3, <3>5, <1>8 DEF FixedWindowFine
  <2>3. CASE ~(r.ends > n)
    <3>1. e = n + Window /\ w = Nothing
      BY <2>3
    <3>2. r.ends <= now
      BY <2>3, <1>1, Constants
    <3>3. Total(c) <= MaxCreations
      BY <2>1, <3>2, WindowEnded
    <3>4. ASSUME NEW t \in Times, e < t + Window PROVE d[t] <= m[t]
      <4>1. n < t
        BY <3>1, <3>4, Constants
      <4>2. ~(c[t] > 0)
        BY <4>1, <1>5, <1>10, Constants
      <4>3. c[t] \in Nat /\ d[t] \in Nat /\ m[t] \in Nat
        BY <1>4, <1>7 DEF Counts
      <4>4. d[t] <= c[t]
        BY <4>1, <1>4, Constants
      <4> QED BY <4>2, <4>3, <4>4
    <3>5. Total(m) = 1
      BY <3>1, <1>7, TotalOfNothing
    <3>6. Total(d) <= MaxCreations + Total(m)
      BY <3>3, <3>5, <1>2, <1>4, <1>6, Constants
    <3> QED BY <3>4, <3>6, <1>8 DEF FixedWindowFine
  <2> QED BY <2>2, <2>3
<1>11. ClientFine("postgres", now, o, q, d)
  <2> HIDE DEF o
  <2> QED BY <1>9, <1>10 DEF ClientFine
<1> QED BY <1>11 DEF d, g, q, m

\* Time passes, and creations leave the window.
LEMMA TickFine ==
  ASSUME NEW b, NEW now \in Times, NEW over \in BOOLEAN, NEW r \in Rates, NEW c \in Counts,
         ClientFine(b, now, over, r, c), now + 1 \in Times
  PROVE  ClientFine(b, now + 1, over, r, After(c, now + 1 - Window))
<1> DEFINE g == now + 1 - Window
           d == After(c, g)
<1>1. g \in Int /\ now \in Nat
  BY Constants
<1> HIDE DEF g
<1>2. /\ d \in Counts /\ Total(d) <= Total(c)
      /\ \A t \in Times : d[t] = IF t > g THEN c[t] ELSE 0
  BY <1>1, AfterFacts DEF Counts
<1> HIDE DEF d
<1>3. r.made \in Counts
  BY RateTypes
<1>4. /\ Total(d) \in Nat /\ Total(c) \in Nat /\ Total(r.made) \in Nat
      /\ \A t \in Times : c[t] \in Nat /\ d[t] \in Nat /\ r.made[t] \in Nat
  BY <1>2, <1>3, TotalIsCardinality DEF Counts
<1>5. RateFine(b, now + 1, r, d)
  <2>1. /\ Total(r.made) <= MaxCreations
        /\ b = "memory" /\ Total(r.made) > 0 => r.ends = LastOf(r.made) + Window
    BY DEF ClientFine, RateFine
  <2>2. ASSUME NEW t \in Times, r.made[t] > 0 PROVE t <= now + 1
    <3>1. t <= now
      BY <2>2 DEF ClientFine, RateFine
    <3> QED BY <3>1, <1>1, Constants
  <2>3. ASSUME NEW t \in Times, d[t] > 0 PROVE t <= now + 1 /\ now + 1 < t + Window
    <3>1. t > g /\ c[t] > 0
      BY <2>3, <1>2
    <3>2. t <= now
      BY <3>1 DEF ClientFine, RateFine
    <3> QED BY <3>1, <3>2, <1>1, Constants DEF g
  <2> QED BY <2>1, <2>2, <2>3 DEF RateFine
<1>6. ASSUME ~over, b = "postgres" PROVE FixedWindowFine(r, d)
  <2>1. FixedWindowFine(r, c)
    BY <1>6 DEF ClientFine
  <2>2. ASSUME r # NoRate, NEW t \in Times, r.ends < t + Window PROVE d[t] <= r.made[t]
    <3>1. c[t] <= r.made[t]
      BY <2>1, <2>2 DEF FixedWindowFine
    <3> QED BY <3>1, <1>2, <1>4
  <2>3. Total(d) <= MaxCreations + Total(r.made)
    <3>1. Total(c) <= MaxCreations + Total(r.made)
      BY <2>1 DEF FixedWindowFine
    <3> QED BY <3>1, <1>2, <1>4, Constants
  <2> QED BY <2>2, <2>3 DEF FixedWindowFine
<1>7. ASSUME ~over, b # "postgres" PROVE WindowFine(r, d)
  <2>1. WindowFine(r, c)
    BY <1>7 DEF ClientFine
  <2>2. ASSUME NEW t \in Times, d[t] > 0 PROVE d[t] <= r.made[t] /\ t + Window <= r.ends
    <3>1. c[t] > 0 /\ d[t] = c[t]
      BY <2>2, <1>2
    <3> QED BY <3>1, <2>1 DEF WindowFine
  <2> QED BY <2>2 DEF WindowFine
<1> QED BY <1>5, <1>6, <1>7 DEF ClientFine, d, g

-----------------------------------------------------------------------------
(* Sessions *)

LEMMA SetsOfSessions ==
  ASSUME NEW S \in SUBSET Sessions
  PROVE  /\ IsFiniteSet(S) /\ Cardinality(S) \in Nat
         /\ \A T \in SUBSET S : Cardinality(T) <= Cardinality(S)
<1>1. IsFiniteSet(S)
  BY SessionsAssumption, FS_Subset
<1> QED BY <1>1, FS_Subset, FS_CardinalityType

LEMMA OneMore ==
  ASSUME NEW S, NEW T \in SUBSET Sessions, NEW s \in Sessions, S \subseteq T \cup {s},
         NEW n \in Nat, Cardinality(T) < n
  PROVE  Cardinality(S) <= n
<1>1. IsFiniteSet(T) /\ Cardinality(T) \in Nat
  BY SetsOfSessions
<1>2. /\ IsFiniteSet(T \cup {s})
      /\ Cardinality(T \cup {s}) = Cardinality(T) \/ Cardinality(T \cup {s}) = Cardinality(T) + 1
  BY <1>1, FS_AddElement
<1>3. S \in SUBSET (T \cup {s}) /\ T \cup {s} \in SUBSET Sessions
  OBVIOUS
<1>4. Cardinality(S) <= Cardinality(T \cup {s})
  BY <1>3, SetsOfSessions
<1>5. Cardinality(S) \in Nat
  BY <1>3, SetsOfSessions
<1> QED BY <1>1, <1>2, <1>4, <1>5

LEMMA SessionTypes ==
  ASSUME SessionTypeOK
  PROVE  /\ \A s \in Sessions : /\ expiry[s] \in Nat /\ keyEnds[s] \in Nat
                                /\ revision[s] \in Int /\ revision[s] >= -1
         /\ \A u \in Subjects : rates[u] \in Rates /\ created[u] \in Counts /\ counts[u] \in Nat
         /\ limits.all \in Nat /\ limits.subject \in Nat
         /\ \A u \in Subjects : u # NoSubject
         /\ \A p \in Processes : p # NoProcess
<1>1. /\ limits.all \in Nat /\ limits.subject \in Nat
  BY SessionsAssumption DEF SessionTypeOK
<1>2. \A s \in Sessions : expiry[s] \in Nat
  BY Constants DEF SessionTypeOK
<1>3. \A s \in Sessions : keyEnds[s] \in Nat /\ revision[s] \in Int /\ revision[s] >= -1
  BY Constants DEF SessionTypeOK
<1>4. \A u \in Subjects : rates[u] \in Rates /\ created[u] \in Counts /\ counts[u] \in Nat
  BY DEF SessionTypeOK, Rates, Counts
<1> QED BY <1>1, <1>2, <1>3, <1>4, SessionsAssumption

LEMMA InsertedTypes ==
  ASSUME SessionTypeOK, NEW p \in Processes, admission[p].at = "inserted"
  PROVE  /\ admission[p].session \in Sessions /\ admission[p].subject \in Subjects
         /\ admission[p].now \in Times
<1>1. admission[p] # Ended
  BY DEF Ended
<1>2. admission[p] \in Inserted
  BY <1>1 DEF SessionTypeOK
<1> QED BY <1>2 DEF Inserted

\* Sessions that were not admitted before are not admitted now.
NobodyNew ==
  /\ limits' = limits /\ expiry' = expiry /\ clock <= clock' /\ clock' \in Times
  /\ \A s \in Sessions :
       revision'[s] # -1 /\ by'[s] # NoSubject => revision[s] # -1 /\ by'[s] = by[s]

LEMMA LiveFacts ==
  ASSUME NEW n
  PROVE  /\ LiveAt(n) \in SUBSET Sessions
         /\ \A u : LiveOf(u, n) \in SUBSET Sessions
  BY DEF LiveAt, LiveOf

LEMMA NobodyNewOK ==
  ASSUME SessionTypeOK, PlaceOK, LiveSessionsOK, NobodyNew
  PROVE  LiveSessionsOK'
<1>1. clock \in Times /\ clock' \in Times /\ clock <= clock' /\ limits' = limits
  BY DEF PlaceOK, NobodyNew
<1>2. ASSUME NEW s \in Sessions, clock' < expiry[s] PROVE clock < expiry[s]
  BY <1>1, <1>2, SessionTypes, Constants
<1>3. limits.all \in Nat /\ limits.subject \in Nat
  BY SessionTypes
<1>4. LiveAt(clock)' \subseteq LiveAt(clock)
  BY <1>2 DEF LiveAt, Stored, NobodyNew
<1>5. Cardinality(LiveAt(clock)') <= limits.all
  <2>1. Cardinality(LiveAt(clock)') <= Cardinality(LiveAt(clock))
    BY <1>4, LiveFacts, SetsOfSessions
  <2>2. LiveAt(clock)' \in SUBSET Sessions
    BY <1>4, LiveFacts
  <2>3. Cardinality(LiveAt(clock)') \in Nat /\ Cardinality(LiveAt(clock)) \in Nat
    BY <2>2, LiveFacts, SetsOfSessions
  <2> QED BY <2>1, <2>3, <1>3 DEF LiveSessionsOK
<1>6. ASSUME NEW u \in Subjects PROVE Cardinality(LiveOf(u, clock)') <= limits.subject
  <2>0. LiveOf(u, clock)' \subseteq LiveOf(u, clock)
    BY <1>2, SessionsAssumption DEF LiveOf, Stored, NobodyNew
  <2>1. Cardinality(LiveOf(u, clock)') <= Cardinality(LiveOf(u, clock))
    BY <2>0, LiveFacts, SetsOfSessions
  <2>2. LiveOf(u, clock)' \in SUBSET Sessions
    BY <2>0, LiveFacts
  <2>3. Cardinality(LiveOf(u, clock)') \in Nat /\ Cardinality(LiveOf(u, clock)) \in Nat
    BY <2>2, LiveFacts, SetsOfSessions
  <2> QED BY <2>1, <2>3, <1>3 DEF LiveSessionsOK
<1> QED BY <1>1, <1>5, <1>6 DEF LiveSessionsOK

\* A session is admitted. The admission has counted sessions among which the live ones are.
LEMMA SomebodyNewOK ==
  ASSUME SessionTypeOK, PlaceOK, LiveSessionsOK, limits' = limits, expiry' = expiry, clock' = clock,
         NEW s \in Sessions, NEW u \in Subjects,
         \A x \in Sessions \ {s} :
           revision'[x] # -1 /\ by'[x] # NoSubject => revision[x] # -1 /\ by'[x] = by[x],
         by'[s] = u,
         NEW A \in SUBSET Sessions, LiveAt(clock) \subseteq A, Cardinality(A) < limits.all,
         NEW B \in SUBSET Sessions, LiveOf(u, clock) \subseteq B, Cardinality(B) < limits.subject
  PROVE  LiveSessionsOK'
<1>1. limits.all \in Nat /\ limits.subject \in Nat
  BY SessionTypes
<1>2. LiveAt(clock)' \subseteq A \cup {s}
  BY DEF LiveAt, Stored
<1>3. LiveOf(u, clock)' \subseteq B \cup {s}
  BY SessionsAssumption DEF LiveOf, Stored
<1>4. ASSUME NEW v \in Subjects, v # u PROVE LiveOf(v, clock)' \subseteq LiveOf(v, clock)
  BY <1>4, SessionsAssumption DEF LiveOf, Stored
<1>5. Cardinality(LiveAt(clock)') <= limits.all
  BY <1>1, <1>2, OneMore
<1>6. Cardinality(LiveOf(u, clock)') <= limits.subject
  BY <1>1, <1>3, OneMore
<1>7. ASSUME NEW v \in Subjects, v # u PROVE Cardinality(LiveOf(v, clock)') <= limits.subject
  <2>1. Cardinality(LiveOf(v, clock)') <= Cardinality(LiveOf(v, clock))
    BY <1>4, <1>7, LiveFacts, SetsOfSessions
  <2>2. Cardinality(LiveOf(v, clock)') \in Nat /\ Cardinality(LiveOf(v, clock)) \in Nat
    <3>1. LiveOf(v, clock)' \in SUBSET Sessions
      BY <1>4, <1>7, LiveFacts
    <3> QED BY <3>1, LiveFacts, SetsOfSessions
  <2> QED BY <2>1, <2>2, <1>1 DEF LiveSessionsOK
<1> QED BY <1>5, <1>6, <1>7 DEF LiveSessionsOK

\* What a transaction has counted has not grown.
LEMMA AdmissionsStay ==
  ASSUME SessionTypeOK, PlaceOK, AdmissionsOK, NobodyNew,
         backend' = backend, admission' = admission, lock' = lock,
         \A p \in Processes : admission[p].at = "inserted" =>
           /\ revision'[admission[p].session] = -1
           /\ rates'[admission[p].subject] = rates[admission[p].subject]
  PROVE  AdmissionsOK'
<1> SUFFICES ASSUME NEW p \in Processes, admission[p].at = "inserted"
             PROVE  AdmissionOK(p, admission[p])'
  BY DEF AdmissionsOK, AdmissionOK
<1>1. /\ AdmissionOK(p, admission[p]) /\ admission'[p] = admission[p]
      /\ admission[p].subject \in Subjects /\ admission[p].now \in Times
  BY InsertedTypes DEF AdmissionsOK
<1>2. limits' = limits /\ expiry' = expiry /\ limits.all \in Nat /\ limits.subject \in Nat
  BY SessionTypes DEF NobodyNew
<1>3. Cardinality(LiveAt(admission[p].now)') < limits.all
  <2>0. LiveAt(admission[p].now)' \subseteq LiveAt(admission[p].now)
    BY <1>1, <1>2 DEF LiveAt, Stored, NobodyNew
  <2>1. Cardinality(LiveAt(admission[p].now)') <= Cardinality(LiveAt(admission[p].now))
    BY <2>0, LiveFacts, SetsOfSessions
  <2>2. LiveAt(admission[p].now)' \in SUBSET Sessions
    BY <2>0, LiveFacts
  <2>3. /\ Cardinality(LiveAt(admission[p].now)') \in Nat
        /\ Cardinality(LiveAt(admission[p].now)) \in Nat
    BY <2>2, LiveFacts, SetsOfSessions
  <2>4. Cardinality(LiveAt(admission[p].now)) < limits.all
    BY <1>1 DEF AdmissionOK
  <2> QED BY <2>1, <2>3, <2>4, <1>2
<1>4. Cardinality(LiveOf(admission[p].subject, admission[p].now)') < limits.subject
  <2> DEFINE L == LiveOf(admission[p].subject, admission[p].now)
  <2>0. L' \subseteq L
    BY <1>1, <1>2, SessionsAssumption DEF LiveOf, Stored, NobodyNew
  <2>1. L \in SUBSET Sessions /\ Cardinality(L) < limits.subject
    BY <1>1, LiveFacts DEF AdmissionOK
  <2> HIDE DEF L
  <2>2. Cardinality(L') <= Cardinality(L) /\ L' \in SUBSET Sessions
    BY <2>0, <2>1, SetsOfSessions
  <2>3. Cardinality(L') \in Nat /\ Cardinality(L) \in Nat
    BY <2>1, <2>2, SetsOfSessions
  <2>4. Cardinality(L') < limits.subject
    BY <2>1, <2>2, <2>3, <1>2
  <2> QED BY <2>4 DEF L
<1>5. admission[p].now <= clock'
  <2>1. admission[p].now <= clock
    BY <1>1 DEF AdmissionOK
  <2> QED BY <2>1, <1>1, Constants DEF NobodyNew, PlaceOK
<1>6. Total(InWindow(admission[p].subject, admission[p].now)') < MaxCreations
  <2>1. InWindow(admission[p].subject, admission[p].now)' = InWindow(admission[p].subject, admission[p].now)
    <3>1. (rates[admission[p].subject])' = rates[admission[p].subject]
      OBVIOUS
    <3> QED BY <3>1 DEF InWindow, Nothing, Times
  <2> QED BY <2>1, <1>1 DEF AdmissionOK
<1> QED BY <1>1, <1>2, <1>3, <1>4, <1>5, <1>6 DEF AdmissionOK, Stored

\* Only PostgreSQL has transactions.
LEMMA NoTransaction ==
  ASSUME AdmissionsOK, backend # "postgres", NEW p \in Processes
  PROVE  admission[p].at # "inserted"
  BY DEF AdmissionsOK, AdmissionOK

\* With the lock free there is no transaction, with a transaction there is no other.
LEMMA OneTransaction ==
  ASSUME SessionTypeOK, AdmissionsOK, NEW p \in Processes, admission[p].at = "inserted", NEW q \in Processes, q # p
  PROVE  admission[q].at # "inserted" /\ lock = p
  BY DEF AdmissionsOK, AdmissionOK

-----------------------------------------------------------------------------
(* The helpers of the stores *)

Owners == [Sessions -> Subjects \cup {NoSubject}]

LEMMA KeptFacts ==
  ASSUME NEW S \in SUBSET Sessions, NEW time
  PROVE  /\ Kept(S, time) \in SUBSET S
         /\ \A s \in S : time < expiry[s] => s \in Kept(S, time)
  BY DEF Kept

LEMMA OwnersUntilFacts ==
  ASSUME SessionTypeOK, NEW S \in SUBSET Sessions
  PROVE  /\ OwnersUntil(S) \in Nat
         /\ \A s \in S : clock < expiry[s] => expiry[s] <= OwnersUntil(S)
<1>1. CASE Kept(S, clock) = {}
  <2>1. OwnersUntil(S) = 0
    BY <1>1 DEF OwnersUntil
  <2>2. ASSUME NEW s \in S, clock < expiry[s] PROVE FALSE
    BY <1>1, <2>2, KeptFacts
  <2> QED BY <2>1, <2>2
<1>2. CASE Kept(S, clock) # {}
  <2>1. OwnersUntil(S) = Newest(S)
    BY <1>2 DEF OwnersUntil
  <2>2. S # {}
    BY <1>2, KeptFacts
  <2>3. Newest(S) \in Nat /\ \A s \in S : expiry[s] <= Newest(S)
    BY <2>2, NewestIs DEF SessionTypeOK
  <2> QED BY <2>1, <2>3
<1> QED BY <1>1, <1>2

\* The hash of owners stays as long as there is a session in the registry that lives.
LEMMA OwnersStay ==
  ASSUME SessionTypeOK, PlaceOK, NEW S \in SUBSET Sessions, NEW f \in Owners
  PROVE  /\ OwnedUntil(f, OwnersUntil(S)) \in Owners
         /\ \A s \in Sessions : clock < expiry[s] /\ (s \in S \/ f[s] = NoSubject) =>
              OwnedUntil(f, OwnersUntil(S))[s] = f[s]
<1> DEFINE t == OwnersUntil(S)
<1>1. t \in Nat /\ \A s \in S : clock < expiry[s] => expiry[s] <= t
  BY OwnersUntilFacts
<1> HIDE DEF t
<1>2. NoOwner \in Owners /\ \A s \in Sessions : NoOwner[s] = NoSubject
  BY DEF NoOwner, Owners
<1>3. OwnedUntil(f, t) \in Owners
  BY <1>2 DEF OwnedUntil
<1>4. ASSUME NEW s \in Sessions, clock < expiry[s], s \in S \/ f[s] = NoSubject
      PROVE  OwnedUntil(f, t)[s] = f[s]
  <2>1. CASE s \in S
    <3>1. clock < t
      BY <1>1, <1>4, <2>1, SessionTypes, Constants DEF PlaceOK
    <3>2. ~(t <= clock)
      BY <3>1, <1>1, Constants DEF PlaceOK
    <3> QED BY <3>2 DEF OwnedUntil
  <2>2. CASE f[s] = NoSubject
    BY <2>2, <1>2 DEF OwnedUntil
  <2> QED BY <1>4, <2>1, <2>2
<1> QED BY <1>3, <1>4 DEF t

LEMMA LateFacts ==
  ASSUME PlaceOK, NEW n \in Lately
  PROVE  n \in Times /\ n <= clock
  BY Constants DEF Lately, PlaceOK, Times

\* The history of a creation.
LEMMA RecordedFacts ==
  ASSUME SessionTypeOK, PlaceOK, NEW u \in Subjects, NEW t \in Times, Recorded(u, t)
  PROVE  /\ created' \in [Subjects -> [Times -> Nat]] /\ overtaken' \subseteq Subjects
         /\ created'[u] = After(Made(created[u], t), clock - Window)
         /\ u \in overtaken' <=> u \in overtaken \/ Total(After(created[u], t)) > 0
         /\ \A v \in Subjects \ {u} : created'[v] = created[v] /\ (v \in overtaken' <=> v \in overtaken)
<1> DEFINE d == After(Made(created[u], t), clock - Window)
<1>1. created[u] \in Counts
  BY SessionTypes
<1>2. d \in [Times -> Nat]
  <2> DEFINE g == clock - Window
  <2>1. g \in Int
    BY Constants DEF PlaceOK
  <2> HIDE DEF g
  <2>2. After(Made(created[u], t), g) \in Counts
    BY <1>1, <2>1, HistoryOf
  <2> QED BY <2>2 DEF Counts, g
<1>3. created' = [created EXCEPT ![u] = d]
  BY DEF Recorded
<1> HIDE DEF d
<1>4. created \in [Subjects -> [Times -> Nat]] /\ overtaken \subseteq Subjects
  BY DEF SessionTypeOK
<1>5. overtaken' = IF Total(After(created[u], t)) > 0 THEN overtaken \cup {u} ELSE overtaken
  BY DEF Recorded
<1>6. /\ created' \in [Subjects -> [Times -> Nat]]
      /\ created'[u] = d
      /\ \A v \in Subjects \ {u} : created'[v] = created[v]
  BY <1>2, <1>3, <1>4
<1>7. /\ overtaken' \subseteq Subjects
      /\ u \in overtaken' <=> u \in overtaken \/ Total(After(created[u], t)) > 0
      /\ \A v \in Subjects \ {u} : v \in overtaken' <=> v \in overtaken
  BY <1>4, <1>5
<1> QED BY <1>6, <1>7 DEF d

-----------------------------------------------------------------------------
(* PostgreSQL *)

SamePlace == backend' = backend /\ clock' = clock

LEMMA InsertsInv ==
  ASSUME SessionInv, SamePlace, NEW p \in Processes, NEW s \in Sessions, NEW u \in Subjects, NEW n \in Lately,
         CountsAndInserts(p, s, u, n)
  PROVE  SessionInv'
<1> USE DEF SamePlace
<1>1. n \in Times /\ n <= clock
  BY LateFacts DEF SessionInv
<1>2. UNCHANGED <<sessionVars, sessionHistory>>
  BY DEF CountsAndInserts
<1> DEFINE a == [at |-> "inserted", session |-> s, subject |-> u, now |-> n]
<1>3. a \in Inserted /\ a.session = s /\ a.subject = u /\ a.now = n
  BY <1>1 DEF Inserted
<1>4. /\ admission' = [admission EXCEPT ![p] = a] /\ lock' = p /\ lock = NoProcess
      /\ backend = "postgres" /\ ~Stored(s)
  BY DEF CountsAndInserts, LockIsFree
<1> HIDE DEF a
<1>5. admission' \in [Processes -> {Ended} \cup Inserted] /\ admission'[p] = a
  BY <1>3, <1>4 DEF SessionInv, SessionTypeOK
<1>6. SessionTypeOK'
  BY <1>2, <1>4, <1>5 DEF SessionInv, SessionTypeOK, sessionVars, bookVars, sessionHistory, Inserted
<1>7. /\ PlaceOK' /\ NoTraces' /\ LiveSessionsOK' /\ BooksOK' /\ CreationsOK'
  BY <1>2 DEF SessionInv, PlaceOK, NoTraces, LiveSessionsOK, BooksOK, CreationsOK, sessionVars, bookVars, sessionHistory,
    LiveAt, LiveOf, Stored, MemoryBooks, Registries, Registered
<1>8. Cardinality(LiveAt(n)) < limits.all
  <2>1. LiveAt(n) \subseteq {x \in Sessions : Stored(x) /\ expiry[x] > n}
    BY <1>1, SessionTypes, Constants DEF LiveAt, SessionInv
  <2> DEFINE L == {x \in Sessions : Stored(x) /\ expiry[x] > n}
  <2>2. Cardinality(L) < limits.all /\ L \in SUBSET Sessions
    BY DEF CountsAndInserts
  <2> HIDE DEF L
  <2>3. Cardinality(LiveAt(n)) <= Cardinality(L) /\ Cardinality(L) \in Nat /\ Cardinality(LiveAt(n)) \in Nat
    BY <2>1, <2>2, LiveFacts, SetsOfSessions DEF L
  <2> QED BY <2>2, <2>3, SessionTypes DEF SessionInv
<1>9. Cardinality(LiveOf(u, n)) < limits.subject
  <2> DEFINE L == {x \in {x \in Sessions : Stored(x) /\ expiry[x] > n} : owner[x] = u}
  <2>1. LiveOf(u, n) \subseteq L
    BY <1>1, <1>4, SessionTypes, Constants DEF LiveOf, SessionInv, BooksOK
  <2>2. Cardinality(L) < limits.subject /\ L \in SUBSET Sessions
    BY DEF CountsAndInserts
  <2> HIDE DEF L
  <2>3. Cardinality(LiveOf(u, n)) <= Cardinality(L) /\ Cardinality(L) \in Nat /\ Cardinality(LiveOf(u, n)) \in Nat
    BY <2>1, <2>2, LiveFacts, SetsOfSessions
  <2> QED BY <2>2, <2>3, SessionTypes DEF SessionInv
<1>10. AdmissionOK(p, a)'
  <2>1. LiveAt(a.now)' = LiveAt(n) /\ LiveOf(a.subject, a.now)' = LiveOf(u, n)
    BY <1>2, <1>3 DEF LiveAt, LiveOf, Stored, sessionVars, a
  <2>2. Total(InWindow(a.subject, a.now)') < MaxCreations
    BY <1>2, <1>3 DEF CountsAndInserts, InWindow, sessionVars, a
  <2>3. lock' = p /\ backend' = "postgres" /\ ~Stored(a.session)' /\ a.now <= clock' /\ limits' = limits
    BY <1>1, <1>2, <1>3, <1>4 DEF Stored, sessionVars, a
  <2> QED BY <2>1, <2>2, <2>3, <1>8, <1>9 DEF AdmissionOK, a
<1>11. ASSUME NEW q \in Processes, q # p PROVE admission'[q].at # "inserted"
  <2>1. admission'[q] = admission[q]
    BY <1>4, <1>11 DEF SessionInv, SessionTypeOK
  <2>2. q # NoProcess
    BY SessionsAssumption
  <2> QED BY <2>1, <2>2, <1>4 DEF SessionInv, AdmissionsOK, AdmissionOK
<1>12. AdmissionsOK'
  BY <1>5, <1>10, <1>11 DEF AdmissionsOK, AdmissionOK
<1> QED BY <1>6, <1>7, <1>12 DEF SessionInv

\* After the end of a transaction there is none.
LEMMA EndsFacts ==
  ASSUME SessionTypeOK, AdmissionsOK, NEW p \in Processes, admission[p].at = "inserted", TransactionEnds(p)
  PROVE  /\ admission' \in [Processes -> {Ended} \cup Inserted]
         /\ lock' \in Processes \cup {NoProcess}
         /\ AdmissionsOK'
<1>1. admission' \in [Processes -> {Ended} \cup Inserted] /\ admission'[p] = Ended
  BY DEF TransactionEnds, SessionTypeOK
<1>2. lock' \in Processes \cup {NoProcess}
  BY DEF TransactionEnds, SessionTypeOK
<1>3. ASSUME NEW q \in Processes PROVE admission'[q].at # "inserted"
  <2>1. CASE q = p
    BY <2>1, <1>1 DEF Ended
  <2>2. CASE q # p
    <3>1. admission'[q] = admission[q]
      BY <2>2 DEF TransactionEnds, SessionTypeOK
    <3> QED BY <3>1, <2>2, OneTransaction
  <2> QED BY <2>1, <2>2
<1> QED BY <1>1, <1>2, <1>3 DEF AdmissionsOK, AdmissionOK

LEMMA RollBackInv ==
  ASSUME SessionInv, SamePlace, NEW p \in Processes, RollBack(p)
  PROVE  SessionInv'
<1> USE DEF SamePlace
<1>1. UNCHANGED <<sessionVars, sessionHistory>>
  BY DEF RollBack
<1>2. /\ admission' \in [Processes -> {Ended} \cup Inserted]
      /\ lock' \in Processes \cup {NoProcess}
      /\ AdmissionsOK'
  BY EndsFacts DEF RollBack, SessionInv
<1>3. SessionTypeOK'
  BY <1>1, <1>2 DEF SessionInv, SessionTypeOK, sessionVars, bookVars, sessionHistory, Inserted
<1>4. /\ PlaceOK' /\ NoTraces' /\ LiveSessionsOK' /\ BooksOK' /\ CreationsOK'
  BY <1>1 DEF SessionInv, PlaceOK, NoTraces, LiveSessionsOK, BooksOK, CreationsOK, sessionVars, bookVars, sessionHistory,
    LiveAt, LiveOf, Stored, MemoryBooks, Registries, Registered
<1> QED BY <1>2, <1>3, <1>4 DEF SessionInv

LEMMA DeleteWindowInv ==
  ASSUME SessionInv, SamePlace, NEW u \in Subjects, DeleteWindow(u)
  PROVE  SessionInv'
<1> USE DEF SamePlace
<1>1. /\ UNCHANGED <<limits, expiry, revision, owner, keyEnds, bookVars, by, lockVars, sessionHistory>>
      /\ backend = "postgres" /\ rates[u].ends <= clock
      /\ rates' = [rates EXCEPT ![u] = NoRate]
      /\ \A p \in Processes : ~(admission[p].at = "inserted" /\ admission[p].subject = u)
  BY DEF DeleteWindow
<1>2. /\ rates' \in [Subjects -> [made : [Times -> Nat], ends : Nat]]
      /\ rates'[u] = NoRate /\ \A v \in Subjects \ {u} : rates'[v] = rates[v]
  BY <1>1, RateTypes DEF SessionInv, SessionTypeOK, Rates
<1>3. SessionTypeOK'
  BY <1>1, <1>2 DEF SessionInv, SessionTypeOK, bookVars, lockVars, sessionHistory, Inserted
<1>4. /\ PlaceOK' /\ NoTraces' /\ LiveSessionsOK' /\ BooksOK'
  BY <1>1 DEF SessionInv, PlaceOK, NoTraces, LiveSessionsOK, BooksOK, bookVars, sessionHistory,
    LiveAt, LiveOf, Stored, MemoryBooks, Registries, Registered
<1>5. AdmissionsOK'
  <2>1. NobodyNew
    BY <1>1, Constants DEF NobodyNew, SessionInv, PlaceOK
  <2>2. ASSUME NEW p \in Processes, admission[p].at = "inserted"
        PROVE  revision'[admission[p].session] = -1 /\ rates'[admission[p].subject] = rates[admission[p].subject]
    <3>1. admission[p].subject \in Subjects /\ AdmissionOK(p, admission[p])
      BY <2>2, InsertedTypes DEF SessionInv, AdmissionsOK
    <3>2. admission[p].subject # u
      BY <1>1, <2>2
    <3> QED BY <1>1, <1>2, <2>2, <3>1, <3>2 DEF AdmissionOK, Stored
  <2> QED BY <1>1, <2>1, <2>2, AdmissionsStay DEF SessionInv, lockVars
<1>6. CreationsOK'
  <2>1. ASSUME NEW v \in Subjects
        PROVE  ClientFine("postgres", clock, v \in overtaken, rates'[v], created[v])
    <3>1. ClientFine("postgres", clock, v \in overtaken, rates[v], created[v])
      BY <1>1 DEF SessionInv, CreationsOK
    <3>2. CASE v = u
      <4>1. rates[u] \in Rates /\ created[u] \in Counts /\ clock \in Times
        BY SessionTypes DEF SessionInv, PlaceOK
      <4>2. (u \in overtaken) \in BOOLEAN
        OBVIOUS
      <4> DEFINE o == u \in overtaken
      <4> HIDE DEF o
      <4>3. o \in BOOLEAN /\ ClientFine("postgres", clock, o, rates[u], created[u])
        BY <3>1, <3>2, <4>2 DEF o
      <4>4. ClientFine("postgres", clock, o, NoRate, created[u])
        BY <4>1, <4>3, <1>1, WindowDeletedFine
      <4> QED BY <4>4, <3>2, <1>2 DEF o
    <3> QED BY <3>1, <3>2, <1>2
  <2> QED BY <2>1, <1>1 DEF CreationsOK, sessionHistory
<1> QED BY <1>3, <1>4, <1>5, <1>6 DEF SessionInv

LEMMA CommitInv ==
  ASSUME SessionInv, SamePlace, NEW p \in Processes, CommitAdmission(p)
  PROVE  SessionInv'
<1> USE DEF SamePlace
<1> DEFINE s == admission[p].session
           u == admission[p].subject
           n == admission[p].now
           w == InWindow(u, n)
           q == [made |-> Made(w, n), ends |-> IF rates[u].ends > n THEN rates[u].ends ELSE n + Window]
<1>1. /\ admission[p].at = "inserted"
      /\ revision' = [revision EXCEPT ![s] = 0]
      /\ owner' = [owner EXCEPT ![s] = u] /\ by' = [by EXCEPT ![s] = u]
      /\ rates' = [rates EXCEPT ![u] = q]
      /\ Recorded(u, n) /\ TransactionEnds(p)
      /\ UNCHANGED <<limits, expiry, keyEnds, bookVars>>
  BY DEF CommitAdmission
<1>2. s \in Sessions /\ u \in Subjects /\ n \in Times
  BY <1>1, InsertedTypes DEF SessionInv
<1>3. AdmissionOK(p, admission[p])
  BY DEF SessionInv, AdmissionsOK
<1>4. /\ backend = "postgres" /\ ~Stored(s) /\ n <= clock
      /\ Cardinality(LiveAt(n)) < limits.all
      /\ Cardinality(LiveOf(u, n)) < limits.subject
      /\ Total(w) < MaxCreations
  BY <1>1, <1>3 DEF AdmissionOK
<1> HIDE DEF s, u, n
<1>5. /\ admission' \in [Processes -> {Ended} \cup Inserted]
      /\ lock' \in Processes \cup {NoProcess}
      /\ AdmissionsOK'
  BY <1>1, EndsFacts DEF SessionInv
<1>6. rates[u] \in Rates /\ created[u] \in Counts /\ clock \in Times
  BY <1>2, SessionTypes DEF SessionInv, PlaceOK
<1>7. w = IF rates[u].ends > n THEN rates[u].made ELSE Nothing
  BY DEF InWindow
<1>8. w \in [Times -> Nat]
  BY <1>6, <1>7, RateTypes, TotalOfNothing
<1>9. q \in Rates
  <2>1. Made(w, n) \in Counts
    BY <1>2, <1>8, MadeOnce DEF Counts
  <2>2. (IF rates[u].ends > n THEN rates[u].ends ELSE n + Window) \in Nat
    BY <1>2, <1>6, RateTypes, Constants
  <2> QED BY <2>1, <2>2, RateTypes
<1> HIDE DEF q, w
<1>10. /\ rates' \in [Subjects -> [made : [Times -> Nat], ends : Nat]]
       /\ rates'[u] = q /\ \A v \in Subjects \ {u} : rates'[v] = rates[v]
  BY <1>1, <1>2, <1>9 DEF SessionInv, SessionTypeOK, Rates
<1>11. /\ created' \in [Subjects -> [Times -> Nat]] /\ overtaken' \subseteq Subjects
       /\ created'[u] = After(Made(created[u], n), clock - Window)
       /\ u \in overtaken' <=> u \in overtaken \/ Total(After(created[u], n)) > 0
       /\ \A v \in Subjects \ {u} : created'[v] = created[v] /\ (v \in overtaken' <=> v \in overtaken)
  BY <1>1, <1>2, RecordedFacts DEF SessionInv
<1>12. /\ revision' \in [Sessions -> -1..LastRevision]
       /\ owner' \in [Sessions -> Subjects \cup {NoSubject}]
       /\ by' \in [Sessions -> Subjects \cup {NoSubject}]
       /\ revision'[s] = 0 /\ by'[s] = u /\ owner' = by'
       /\ \A x \in Sessions \ {s} : revision'[x] = revision[x] /\ by'[x] = by[x]
  <2>1. owner = by
    BY <1>4 DEF SessionInv, BooksOK
  <2>2. 0 \in -1..LastRevision
    BY Constants
  <2> QED BY <1>1, <1>2, <2>1, <2>2 DEF SessionInv, SessionTypeOK
<1>13. SessionTypeOK'
  BY <1>1, <1>5, <1>10, <1>11, <1>12 DEF SessionInv, SessionTypeOK, bookVars, Inserted
<1>14. PlaceOK' /\ NoTraces'
  BY <1>12 DEF SessionInv, PlaceOK, NoTraces, Stored
<1>15. LiveSessionsOK'
  <2>1. LiveAt(clock) \subseteq LiveAt(n) /\ LiveOf(u, clock) \subseteq LiveOf(u, n)
    BY <1>2, <1>4, <1>6, SessionTypes, Constants DEF LiveAt, LiveOf, SessionInv
  <2> DEFINE A == LiveAt(n)
             B == LiveOf(u, n)
  <2>2. A \in SUBSET Sessions /\ B \in SUBSET Sessions
    BY LiveFacts
  <2>3. Cardinality(A) < limits.all /\ Cardinality(B) < limits.subject
    BY <1>4
  <2> HIDE DEF A, B
  <2>4. LiveAt(clock) \subseteq A /\ LiveOf(u, clock) \subseteq B
    BY <2>1 DEF A, B
  <2>5. /\ SessionTypeOK /\ PlaceOK /\ LiveSessionsOK
        /\ limits' = limits /\ expiry' = expiry /\ clock' = clock
        /\ \A x \in Sessions \ {s} :
             revision'[x] # -1 /\ by'[x] # NoSubject => revision[x] # -1 /\ by'[x] = by[x]
        /\ by'[s] = u
    BY <1>1, <1>12 DEF SessionInv
  <2> QED BY <1>2, <2>2, <2>3, <2>4, <2>5, SomebodyNewOK
<1>16. BooksOK'
  BY <1>4, <1>12 DEF BooksOK
<1>17. CreationsOK'
  <2>1. ASSUME NEW v \in Subjects
        PROVE  ClientFine("postgres", clock, v \in overtaken', rates'[v], created'[v])
    <3>1. ClientFine("postgres", clock, v \in overtaken, rates[v], created[v])
      BY <1>4 DEF SessionInv, CreationsOK
    <3>2. CASE v = u
      <4> DEFINE o == u \in overtaken
      <4>1. o \in BOOLEAN
        OBVIOUS
      <4>2. (u \in overtaken') = (o \/ Total(After(created[u], n)) > 0)
        BY <1>11
      <4>3. ClientFine("postgres", clock, o, rates[u], created[u])
        BY <3>1, <3>2
      <4> HIDE DEF o
      <4>4. ClientFine("postgres", clock, o \/ Total(After(created[u], n)) > 0, q,
                       After(Made(created[u], n), clock - Window))
        BY <4>1, <4>3, <1>2, <1>4, <1>6, <1>7, FixedCountedFine DEF q
      <4> QED BY <4>2, <4>4, <3>2, <1>10, <1>11
    <3>3. CASE v # u
      <4>1. rates'[v] = rates[v] /\ created'[v] = created[v]
        BY <3>3, <1>10, <1>11
      <4>2. (v \in overtaken') = (v \in overtaken)
        BY <3>3, <1>11
      <4> QED BY <3>1, <4>1, <4>2
    <3> QED BY <3>2, <3>3
  <2> QED BY <2>1, <1>4 DEF CreationsOK
<1> QED BY <1>5, <1>13, <1>14, <1>15, <1>16, <1>17 DEF SessionInv

-----------------------------------------------------------------------------
(* The other operations *)

\* The creations that are known stay as they are.
LEMMA CreationsStay ==
  ASSUME CreationsOK, SamePlace, rates' = rates, UNCHANGED sessionHistory
  PROVE  CreationsOK'
  BY DEF CreationsOK, SamePlace, sessionHistory

LEMMA RegistryFacts ==
  ASSUME SessionInv, backend = "redis"
  PROVE  /\ \A s \in Sessions : clock < expiry[s] => Registered(s)
         /\ \A s \in Sessions : Stored(s) => expiry[s] <= keyEnds[s]
  BY DEF SessionInv, BooksOK, Registries

LEMMA CreateInv ==
  ASSUME SessionInv, SamePlace, NEW s \in Sessions, NEW n \in Lately, Create(s, n)
  PROVE  SessionInv'
<1> USE DEF SamePlace
<1>1. n \in Times /\ n <= clock /\ clock \in Times
  BY LateFacts DEF SessionInv, PlaceOK
<1>2. /\ UNCHANGED <<limits, expiry, owner, counts, members, ownerEnds, rates, by, lockVars, sessionHistory>>
      /\ ~Stored(s) /\ NotBeingInserted(s) /\ n < expiry[s]
      /\ revision' = [revision EXCEPT ![s] = 0]
  BY DEF Create, SetsKey
<1>3. by[s] = NoSubject
  BY <1>2 DEF SessionInv, NoTraces
<1>4. /\ revision' \in [Sessions -> -1..LastRevision] /\ revision'[s] = 0
      /\ \A x \in Sessions \ {s} : revision'[x] = revision[x]
  <2>1. 0 \in -1..LastRevision
    BY Constants
  <2> QED BY <1>2, <2>1 DEF SessionInv, SessionTypeOK
<1>5. clock + (expiry[s] - n) \in Nat /\ expiry[s] <= clock + (expiry[s] - n)
  BY <1>1, <1>2, SessionTypes, Constants DEF SessionInv
<1>6. keyEnds' \in [Sessions -> Nat] /\ index' \subseteq Sessions
  <2>1. index \cup {s} \in SUBSET Sessions /\ index \subseteq Sessions /\ keyEnds \in [Sessions -> Nat]
    BY DEF SessionInv, SessionTypeOK
  <2>2. Kept(index \cup {s}, clock) \subseteq Sessions
    BY <2>1, KeptFacts
  <2> QED BY <1>5, <2>1, <2>2 DEF Create, SetsKey
<1>7. SessionTypeOK'
  BY <1>2, <1>4, <1>6 DEF SessionInv, SessionTypeOK, lockVars, sessionHistory, Inserted
<1>8. PlaceOK' /\ NoTraces' /\ CreationsOK'
  BY <1>2, <1>4, CreationsStay DEF SessionInv, PlaceOK, NoTraces, Stored
<1>9. NobodyNew
  BY <1>1, <1>2, <1>3, <1>4, Constants DEF NobodyNew
<1>10. LiveSessionsOK'
  BY <1>9, NobodyNewOK DEF SessionInv
<1>11. AdmissionsOK'
  <2>1. ASSUME NEW p \in Processes, admission[p].at = "inserted"
        PROVE  revision'[admission[p].session] = -1 /\ rates'[admission[p].subject] = rates[admission[p].subject]
    <3>1. admission[p].session \in Sessions /\ AdmissionOK(p, admission[p])
      BY <2>1, InsertedTypes DEF SessionInv, AdmissionsOK
    <3>2. admission[p].session # s
      BY <1>2, <2>1 DEF NotBeingInserted
    <3> QED BY <1>2, <1>4, <2>1, <3>1, <3>2 DEF AdmissionOK, Stored
  <2> QED BY <1>2, <1>9, <2>1, AdmissionsStay DEF SessionInv, lockVars
<1>12. CASE backend = "memory"
  <2>1. index' = index \cup {s} /\ owner = by /\ MemoryBooks
    BY <1>12 DEF Create, SessionInv, BooksOK
  <2>2. index' = {x \in Sessions : Stored(x)'}
    BY <1>4, <2>1 DEF MemoryBooks, Stored
  <2>3. ASSUME NEW u \in Subjects
        PROVE  {x \in Sessions : Stored(x) /\ by[x] = u} = {x \in Sessions : Stored(x)' /\ by'[x] = u}
    BY <1>2, <1>3, <1>4, SessionsAssumption DEF Stored
  <2>4. MemoryBooks'
    BY <1>2, <2>1, <2>2, <2>3 DEF MemoryBooks
  <2>5. BooksOK'
    BY <1>2, <1>12, <2>1, <2>4 DEF BooksOK
  <2> QED BY <1>7, <1>8, <1>10, <1>11, <2>5 DEF SessionInv
<1>13. CASE backend = "postgres"
  <2>1. BooksOK'
    BY <1>2, <1>13 DEF SessionInv, BooksOK
  <2> QED BY <1>7, <1>8, <1>10, <1>11, <2>1 DEF SessionInv
<1>14. CASE backend = "redis"
  <2>1. /\ index' = Kept(index \cup {s}, clock)
        /\ keyEnds' = [keyEnds EXCEPT ![s] = clock + (expiry[s] - n)]
    BY <1>14 DEF Create, SetsKey
  <2>2. ASSUME NEW x \in Sessions, clock < expiry[x] PROVE Registered(x)'
    <3>1. Registered(x)
      BY <1>14, <2>2, RegistryFacts
    <3>2. index \cup {s} \in SUBSET Sessions
      BY DEF SessionInv, SessionTypeOK
    <3>3. x \in index' <=> x \in index \cup {s}
      BY <2>1, <2>2, <3>2, KeptFacts
    <3>4. x \in index' <=> revision'[x] # -1
      BY <1>4, <3>1, <3>3 DEF Registered, Stored
    <3> QED BY <1>2, <3>1, <3>4 DEF Registered, Stored
  <2>3. ASSUME NEW x \in Sessions, revision'[x] # -1 PROVE expiry[x] <= keyEnds'[x]
    <3>1. CASE x = s
      BY <2>1, <3>1, <1>5 DEF SessionInv, SessionTypeOK
    <3>2. CASE x # s
      BY <1>4, <1>14, <2>1, <2>3, <3>2, RegistryFacts DEF SessionInv, SessionTypeOK, Stored
    <3> QED BY <3>1, <3>2
  <2>4. BooksOK'
    BY <1>2, <1>14, <2>2, <2>3 DEF BooksOK, Registries, Stored
  <2> QED BY <1>7, <1>8, <1>10, <1>11, <2>4 DEF SessionInv
<1> QED BY <1>12, <1>13, <1>14 DEF SessionInv, PlaceOK

LEMMA UpdateInv ==
  ASSUME SessionInv, SamePlace, NEW s \in Sessions, Update(s)
  PROVE  SessionInv'
<1> USE DEF SamePlace
<1>1. /\ UNCHANGED <<limits, expiry, counts, rates, by, lockVars, sessionHistory, owner>>
      /\ Stored(s) /\ revision[s] < LastRevision
      /\ revision' = [revision EXCEPT ![s] = @ + 1]
  BY DEF Update
<1>2. /\ revision' \in [Sessions -> -1..LastRevision]
      /\ \A x \in Sessions : revision'[x] # -1 <=> revision[x] # -1
  <2>1. /\ revision[s] \in -1..LastRevision
        /\ revision[s] # -1 /\ revision[s] < LastRevision
    BY <1>1 DEF SessionInv, SessionTypeOK, Stored
  <2>2. revision[s] + 1 \in -1..LastRevision /\ revision[s] + 1 # -1
    BY <2>1, Constants
  <2> QED BY <1>1, <2>1, <2>2 DEF SessionInv, SessionTypeOK
<1>3. index \cup {s} \in SUBSET Sessions /\ index \subseteq Sessions
  BY DEF SessionInv, SessionTypeOK
<1>4. OwnersUntil(index \cup {s}) \in Nat
  BY <1>3, OwnersUntilFacts DEF SessionInv
<1>5. /\ keyEnds' \in [Sessions -> Nat] /\ index' \subseteq Sessions
      /\ members' \in [Subjects -> SUBSET Sessions] /\ ownerEnds' \in Nat
  BY <1>3, <1>4, SessionTypes DEF Update, SessionInv, SessionTypeOK
<1>6. SessionTypeOK'
  BY <1>1, <1>2, <1>5 DEF SessionInv, SessionTypeOK, lockVars, sessionHistory, Inserted
<1>7. PlaceOK' /\ NoTraces' /\ CreationsOK'
  BY <1>1, <1>2, CreationsStay DEF SessionInv, PlaceOK, NoTraces, Stored
<1>8. NobodyNew
  BY <1>1, <1>2, Constants DEF NobodyNew, SessionInv, PlaceOK
<1>9. LiveSessionsOK'
  BY <1>8, NobodyNewOK DEF SessionInv
<1>10. AdmissionsOK'
  <2>1. ASSUME NEW p \in Processes, admission[p].at = "inserted"
        PROVE  revision'[admission[p].session] = -1 /\ rates'[admission[p].subject] = rates[admission[p].subject]
    <3>1. admission[p].session \in Sessions /\ AdmissionOK(p, admission[p])
      BY <2>1, InsertedTypes DEF SessionInv, AdmissionsOK
    <3> QED BY <1>1, <1>2, <2>1, <3>1 DEF AdmissionOK, Stored
  <2> QED BY <1>1, <1>8, <2>1, AdmissionsStay DEF SessionInv, lockVars
<1>11. CASE backend = "memory"
  <2>1. index' = index \cup {s} /\ owner = by /\ MemoryBooks
    BY <1>11 DEF Update, SessionInv, BooksOK
  <2>2. index' = {x \in Sessions : Stored(x)'}
    BY <1>1, <1>2, <2>1 DEF MemoryBooks, Stored
  <2>3. ASSUME NEW u \in Subjects
        PROVE  {x \in Sessions : Stored(x) /\ by[x] = u} = {x \in Sessions : Stored(x)' /\ by'[x] = u}
    BY <1>1, <1>2 DEF Stored
  <2>4. MemoryBooks'
    BY <1>1, <2>1, <2>2, <2>3 DEF MemoryBooks
  <2>5. BooksOK'
    BY <1>1, <1>11, <2>1, <2>4 DEF BooksOK
  <2> QED BY <1>6, <1>7, <1>9, <1>10, <2>5 DEF SessionInv
<1>12. CASE backend = "postgres"
  <2>1. BooksOK'
    BY <1>1, <1>12 DEF SessionInv, BooksOK
  <2> QED BY <1>6, <1>7, <1>9, <1>10, <2>1 DEF SessionInv
<1>13. CASE backend = "redis"
  <2>1. /\ clock < expiry[s]
        /\ keyEnds' = [keyEnds EXCEPT ![s] = expiry[s]]
        /\ index' = index \cup {s}
        /\ members' = [u \in Subjects |-> IF owner[s] = u THEN members[u] \cup {s} ELSE members[u]]
        /\ ownerEnds' = OwnersUntil(index \cup {s})
    BY <1>13 DEF Update
  <2>2. Registered(s)
    BY <1>13, <2>1, RegistryFacts
  <2>3. ASSUME NEW x \in Sessions, clock < expiry[x] PROVE Registered(x)'
    <3>1. Registered(x)
      BY <1>13, <2>3, RegistryFacts
    <3>2. x \in index' <=> revision'[x] # -1
      BY <1>1, <1>2, <2>1, <3>1 DEF Registered, Stored
    <3>3. \A u \in Subjects : x \in members'[u] <=> by'[x] = u
      BY <1>1, <2>1, <2>2, <3>1 DEF Registered
    <3>4. by[x] # NoSubject => expiry[x] <= ownerEnds'
      <4>1. ASSUME by[x] # NoSubject PROVE x \in index
        <5>1. Stored(x)
          BY <4>1 DEF SessionInv, NoTraces
        <5> QED BY <3>1, <5>1 DEF Registered
      <4> QED BY <4>1, <1>3, <2>1, <2>3, OwnersUntilFacts DEF SessionInv
    <3> QED BY <1>1, <3>1, <3>2, <3>3, <3>4 DEF Registered, Stored
  <2>4. ASSUME NEW x \in Sessions, revision'[x] # -1 PROVE expiry[x] <= keyEnds'[x]
    <3>1. CASE x = s
      BY <2>1, <3>1, SessionTypes DEF SessionInv, SessionTypeOK
    <3>2. CASE x # s
      BY <1>2, <1>13, <2>1, <2>4, <3>2, RegistryFacts DEF SessionInv, SessionTypeOK, Stored
    <3> QED BY <3>1, <3>2
  <2>5. BooksOK'
    BY <1>1, <1>13, <2>3, <2>4 DEF BooksOK, Registries, Stored
  <2> QED BY <1>6, <1>7, <1>9, <1>10, <2>5 DEF SessionInv
<1> QED BY <1>11, <1>12, <1>13 DEF SessionInv, PlaceOK

LEMMA CountsWithoutFacts ==
  ASSUME SessionInv, backend = "memory", NEW R \in SUBSET Sessions
  PROVE  /\ CountsWithout(R) \in [Subjects -> Nat]
         /\ \A u \in Subjects :
              CountsWithout(R)[u] = Cardinality({s \in Sessions \ R : Stored(s) /\ by[s] = u})
<1>1. owner = by /\ MemoryBooks
  BY DEF SessionInv, BooksOK
<1>2. ASSUME NEW u \in Subjects
      PROVE  CountsWithout(R)[u] = Cardinality({s \in Sessions \ R : Stored(s) /\ by[s] = u})
  <2> DEFINE X == {s \in Sessions : Stored(s) /\ by[s] = u}
             Y == {s \in R : owner[s] = u}
             Z == {s \in Sessions \ R : Stored(s) /\ by[s] = u}
  <2>1. CountsWithout(R)[u] = counts[u] - Cardinality(Y) /\ counts[u] = Cardinality(X)
    BY <1>1 DEF CountsWithout, MemoryBooks
  <2>2. Y \subseteq X
    BY <1>1, SessionsAssumption DEF SessionInv, NoTraces
  <2>3. Z = X \ Y /\ X \in SUBSET Sessions
    BY <1>1
  <2> HIDE DEF X, Y, Z
  <2>4. IsFiniteSet(X)
    BY <2>3, SetsOfSessions
  <2>5. Cardinality(X \ Y) = Cardinality(X) - Cardinality(X \cap Y)
    BY <2>4, FS_Difference
  <2>6. X \cap Y = Y
    BY <2>2
  <2>7. CountsWithout(R)[u] = Cardinality(Z)
    BY <2>1, <2>3, <2>5, <2>6
  <2> QED BY <2>7 DEF Z
<1>3. ASSUME NEW u \in Subjects PROVE CountsWithout(R)[u] \in Nat
  <2> DEFINE Z == {s \in Sessions \ R : Stored(s) /\ by[s] = u}
  <2>1. Z \in SUBSET Sessions
    OBVIOUS
  <2> HIDE DEF Z
  <2>2. Cardinality(Z) \in Nat
    BY <2>1, SetsOfSessions
  <2> QED BY <2>2, <1>2 DEF Z
<1>4. CountsWithout(R) \in [Subjects -> Nat]
  BY <1>3 DEF CountsWithout
<1> QED BY <1>2, <1>4

LEMMA RemoveInv ==
  ASSUME SessionInv, SamePlace, NEW R \in SUBSET Sessions, Remove(R),
         backend = "redis" => \E s \in Sessions : R = {s}
  PROVE  SessionInv'
<1> USE DEF SamePlace
<1>1. /\ revision' = Without(revision, R, -1) /\ by' = Without(by, R, NoSubject)
      /\ UNCHANGED <<limits, expiry, rates, lockVars, sessionHistory>>
  BY DEF Remove
<1>2. /\ revision' \in [Sessions -> -1..LastRevision]
      /\ \A x \in Sessions : revision'[x] = IF x \in R THEN -1 ELSE revision[x]
  <2>1. -1 \in -1..LastRevision
    BY Constants
  <2> QED BY <1>1, <2>1 DEF SessionInv, SessionTypeOK, Without
<1>3. /\ by' \in [Sessions -> Subjects \cup {NoSubject}]
      /\ \A x \in Sessions : by'[x] = IF x \in R THEN NoSubject ELSE by[x]
  BY <1>1 DEF SessionInv, SessionTypeOK, Without
<1>4. /\ Without(owner, R, NoSubject) \in Owners
      /\ \A x \in Sessions : Without(owner, R, NoSubject)[x] = IF x \in R THEN NoSubject ELSE owner[x]
  BY DEF SessionInv, SessionTypeOK, Owners, Without
<1>5. PlaceOK' /\ NoTraces' /\ CreationsOK'
  BY <1>1, <1>2, <1>3, CreationsStay DEF SessionInv, PlaceOK, NoTraces, Stored
<1>6. NobodyNew
  BY <1>1, <1>2, <1>3, Constants DEF NobodyNew, SessionInv, PlaceOK
<1>7. LiveSessionsOK'
  BY <1>6, NobodyNewOK DEF SessionInv
<1>8. AdmissionsOK'
  <2>1. ASSUME NEW p \in Processes, admission[p].at = "inserted"
        PROVE  revision'[admission[p].session] = -1 /\ rates'[admission[p].subject] = rates[admission[p].subject]
    <3>1. admission[p].session \in Sessions /\ AdmissionOK(p, admission[p])
      BY <2>1, InsertedTypes DEF SessionInv, AdmissionsOK
    <3> QED BY <1>1, <1>2, <2>1, <3>1 DEF AdmissionOK, Stored
  <2> QED BY <1>1, <1>6, <2>1, AdmissionsStay DEF SessionInv, lockVars
<1>9. /\ owner \in Owners /\ keyEnds \in [Sessions -> Nat] /\ index \in SUBSET Sessions
      /\ counts \in [Subjects -> Nat] /\ members \in [Subjects -> SUBSET Sessions] /\ ownerEnds \in Nat
  BY DEF SessionInv, SessionTypeOK, Owners
<1>10. ASSUME owner' \in Owners, keyEnds' \in [Sessions -> Nat], index' \subseteq Sessions,
              counts' \in [Subjects -> Nat], members' \in [Subjects -> SUBSET Sessions], ownerEnds' \in Nat
       PROVE  SessionTypeOK'
  BY <1>1, <1>2, <1>3, <1>10 DEF SessionInv, SessionTypeOK, lockVars, sessionHistory, Inserted, Owners
<1>11. CASE backend = "memory"
  <2>1. /\ owner' = Without(owner, R, NoSubject)
        /\ index' = index \ R /\ counts' = CountsWithout(R)
        /\ UNCHANGED <<keyEnds, members, ownerEnds>>
    BY <1>11 DEF Remove
  <2>2. owner = by /\ MemoryBooks
    BY <1>11 DEF SessionInv, BooksOK
  <2>3. /\ counts' \in [Subjects -> Nat]
        /\ \A u \in Subjects :
             counts'[u] = Cardinality({s \in Sessions \ R : Stored(s) /\ by[s] = u})
    BY <1>11, <2>1, CountsWithoutFacts
  <2>4. SessionTypeOK'
    BY <1>4, <1>9, <1>10, <2>1, <2>3
  <2>5. owner' = by'
    BY <1>1, <2>1, <2>2
  <2>6. index' = {x \in Sessions : Stored(x)'}
    BY <1>2, <2>1, <2>2 DEF MemoryBooks, Stored
  <2>7. ASSUME NEW u \in Subjects
        PROVE  {s \in Sessions \ R : Stored(s) /\ by[s] = u} = {x \in Sessions : Stored(x)' /\ by'[x] = u}
    BY <1>2, <1>3 DEF Stored
  <2>8. BooksOK'
    BY <1>11, <2>3, <2>5, <2>6, <2>7 DEF BooksOK, MemoryBooks
  <2> QED BY <1>5, <1>7, <1>8, <2>4, <2>8 DEF SessionInv
<1>12. CASE backend = "postgres"
  <2>1. owner' = Without(owner, R, NoSubject) /\ UNCHANGED <<keyEnds, bookVars>> /\ owner = by
    BY <1>12 DEF Remove, SessionInv, BooksOK
  <2>2. SessionTypeOK'
    BY <1>4, <1>9, <1>10, <2>1 DEF bookVars
  <2>3. BooksOK'
    BY <1>1, <1>12, <2>1 DEF BooksOK
  <2> QED BY <1>5, <1>7, <1>8, <2>2, <2>3 DEF SessionInv
<1>13. CASE backend = "redis"
  <2>1. PICK s \in Sessions : R = {s}
    BY <1>13
  <2>2. keyEnds' = Without(keyEnds, R, 0) /\ counts' = counts /\ LeavesBooks(s)
    BY <1>13, <2>1 DEF Remove
  <2> DEFINE rest == index \ {s}
             f    == Without(owner, {s}, NoSubject)
  <2>3. /\ index' = Kept(rest, clock)
        /\ members' = [u \in Subjects |-> IF owner[s] = u THEN Kept(members[u] \ {s}, clock) ELSE members[u]]
        /\ ownerEnds' = OwnersUntil(rest)
        /\ owner' = OwnedUntil(f, OwnersUntil(rest))
    BY <2>2 DEF LeavesBooks
  <2>4. rest \in SUBSET Sessions
    BY <1>9
  <2>5. f \in Owners /\ \A x \in Sessions : f[x] = IF x = s THEN NoSubject ELSE owner[x]
    BY <1>4, <2>1
  <2> HIDE DEF rest, f
  <2>6. /\ owner' \in Owners
        /\ \A x \in Sessions : clock < expiry[x] /\ (x \in rest \/ f[x] = NoSubject) => owner'[x] = f[x]
    BY <2>3, <2>4, <2>5, OwnersStay DEF SessionInv
  <2>7. /\ keyEnds' \in [Sessions -> Nat]
        /\ \A x \in Sessions : keyEnds'[x] = IF x = s THEN 0 ELSE keyEnds[x]
    BY <1>9, <2>1, <2>2 DEF Without
  <2>8. ASSUME NEW u \in Subjects
        PROVE  /\ Kept(members[u] \ {s}, clock) \subseteq members[u] \ {s}
               /\ \A x \in members[u] \ {s} : clock < expiry[x] => x \in Kept(members[u] \ {s}, clock)
    <3>1. members[u] \ {s} \in SUBSET Sessions
      BY <1>9
    <3> QED BY <3>1, KeptFacts
  <2>9. members' \in [Subjects -> SUBSET Sessions]
    BY <1>9, <2>3, <2>8
  <2>10. index' \subseteq Sessions /\ ownerEnds' \in Nat
    BY <2>3, <2>4, KeptFacts, OwnersUntilFacts DEF SessionInv
  <2>11. SessionTypeOK'
    BY <1>9, <1>10, <2>2, <2>6, <2>7, <2>9, <2>10
  <2>12. ASSUME NEW x \in Sessions, clock < expiry[x] PROVE Registered(x)'
    <3>1. Registered(x)
      BY <1>13, <2>12, RegistryFacts
    <3>2. x \in index' <=> x \in rest
      BY <2>3, <2>4, <2>12, KeptFacts
    <3>3. x \in index' <=> revision'[x] # -1
      BY <1>2, <2>1, <3>1, <3>2 DEF Registered, Stored, rest
    <3>4. x \notin rest => f[x] = NoSubject
      <4>1. CASE x = s
        BY <4>1, <2>5
      <4>2. CASE x # s /\ x \notin rest
        <5>1. ~Stored(x)
          BY <3>1, <4>2 DEF Registered, rest
        <5> QED BY <3>1, <4>2, <5>1, <2>5 DEF Registered, SessionInv, NoTraces
      <4> QED BY <4>1, <4>2
    <3>5. owner'[x] = f[x] /\ f[x] = by'[x]
      BY <1>3, <2>1, <2>5, <2>6, <2>12, <3>1, <3>4 DEF Registered
    <3>6. ASSUME NEW u \in Subjects PROVE x \in members'[u] <=> by'[x] = u
      <4>0. u # NoSubject
        BY SessionsAssumption
      <4>1. CASE x = s
        <5>1. by'[x] = NoSubject
          BY <1>3, <2>1, <4>1
        <5>2. x \notin members'[u]
          <6>1. CASE owner[s] = u
            BY <2>3, <2>8, <4>1, <6>1
          <6>2. CASE owner[s] # u
            BY <2>3, <3>1, <4>1, <6>2 DEF Registered
          <6> QED BY <6>1, <6>2
        <5> QED BY <4>0, <5>1, <5>2
      <4>2. CASE x # s
        <5>1. by'[x] = by[x]
          BY <1>3, <2>1, <4>2
        <5>2. x \in members'[u] <=> x \in members[u]
          BY <2>3, <2>8, <2>12, <4>2
        <5> QED BY <3>1, <5>1, <5>2 DEF Registered
      <4> QED BY <4>1, <4>2
    <3>7. by'[x] # NoSubject => expiry[x] <= ownerEnds'
      <4>1. by'[x] # NoSubject => x \in rest
        BY <3>4, <3>5
      <4> QED BY <4>1, <2>3, <2>4, <2>12, OwnersUntilFacts DEF SessionInv
    <3> QED BY <1>1, <3>3, <3>5, <3>6, <3>7 DEF Registered, Stored
  <2>13. ASSUME NEW x \in Sessions, revision'[x] # -1 PROVE expiry[x] <= keyEnds'[x]
    BY <1>2, <1>13, <2>1, <2>7, <2>13, RegistryFacts DEF Stored
  <2>14. BooksOK'
    BY <1>1, <1>13, <2>12, <2>13 DEF BooksOK, Registries, Stored
  <2> QED BY <1>5, <1>7, <1>8, <2>11, <2>14 DEF SessionInv
<1> QED BY <1>11, <1>12, <1>13 DEF SessionInv, PlaceOK

-----------------------------------------------------------------------------
(* In memory *)

LEMMA AdmitInMemoryInv ==
  ASSUME SessionInv, SamePlace, NEW s \in Sessions, NEW u \in Subjects, AdmitInMemory(s, u)
  PROVE  SessionInv'
<1> USE DEF SamePlace
<1> DEFINE gone   == {x \in index : expiry[x] <= clock}
           fresh  == [v \in Subjects |-> IF rates[v].ends <= clock THEN NoRate ELSE rates[v]]
           k      == clock - Window
           recent == After(fresh[u].made, k)
           left   == {x \in Sessions \ gone : Stored(x)}
           room   == /\ Cardinality(left) < limits.all
                     /\ CountsWithout(gone)[u] < limits.subject
           kept   == Without(revision, gone, -1)
           owners == Without(owner, gone, NoSubject)
           mine(v) == {x \in Sessions \ gone : Stored(x) /\ by[x] = v}
           last    == LastOf(recent) + Window
           counted == [made |-> Made(recent, clock), ends |-> clock + Window]
           pruned  == [made |-> recent, ends |-> last]
<1>1. /\ backend = "memory" /\ clock < expiry[s] /\ ~Stored(s)
      /\ UNCHANGED <<limits, expiry, keyEnds, members, ownerEnds, lockVars>>
      /\ \/ /\ room /\ Total(recent) < MaxCreations
            /\ revision' = [kept EXCEPT ![s] = 0]
            /\ owner' = [owners EXCEPT ![s] = u]
            /\ index' = (index \ gone) \cup {s}
            /\ counts' = [CountsWithout(gone) EXCEPT ![u] = @ + 1]
            /\ rates' = [fresh EXCEPT ![u] = counted]
            /\ by' = [Without(by, gone, NoSubject) EXCEPT ![s] = u]
            /\ Recorded(u, clock)
         \/ /\ ~(room /\ Total(recent) < MaxCreations)
            /\ revision' = kept /\ owner' = owners
            /\ index' = index \ gone /\ counts' = CountsWithout(gone)
            /\ rates' = IF room THEN [fresh EXCEPT ![u] = pruned] ELSE fresh
            /\ by' = Without(by, gone, NoSubject)
            /\ UNCHANGED sessionHistory
  BY DEF AdmitInMemory
<1>2. /\ SessionTypeOK /\ PlaceOK /\ clock \in Times /\ clock \in Nat /\ owner = by
      /\ index = {x \in Sessions : Stored(x)}
      /\ \A v \in Subjects : counts[v] = Cardinality({x \in Sessions : Stored(x) /\ by[x] = v})
      /\ NoTraces
  BY <1>1, Constants DEF SessionInv, BooksOK, MemoryBooks, PlaceOK
<1>3. gone \in SUBSET Sessions /\ \A x \in gone : Stored(x) /\ ~(clock < expiry[x])
  BY <1>2, SessionTypes
<1>4. /\ kept \in [Sessions -> -1..LastRevision]
      /\ \A x \in Sessions : kept[x] = IF x \in gone THEN -1 ELSE revision[x]
  <2>1. -1 \in -1..LastRevision
    BY Constants
  <2> QED BY <1>2, <2>1 DEF SessionTypeOK, Without
<1>5. /\ owners \in Owners /\ owners = Without(by, gone, NoSubject)
      /\ \A x \in Sessions : owners[x] = IF x \in gone THEN NoSubject ELSE by[x]
  BY <1>2 DEF SessionTypeOK, Without, Owners
<1>6. /\ CountsWithout(gone) \in [Subjects -> Nat]
      /\ \A v \in Subjects : CountsWithout(gone)[v] = Cardinality(mine(v))
  BY <1>1, <1>3, CountsWithoutFacts
<1>7. ASSUME NEW v \in Subjects
      PROVE  /\ fresh[v] \in Rates
             /\ ClientFine("memory", clock, v \in overtaken, fresh[v], created[v])
  <2>1. ClientFine("memory", clock, v \in overtaken, rates[v], created[v])
    BY <1>1 DEF SessionInv, CreationsOK
  <2>2. rates[v] \in Rates /\ created[v] \in Counts
    BY <1>2, SessionTypes
  <2>3. CASE rates[v].ends <= clock
    <3> DEFINE o == v \in overtaken
    <3>1. o \in BOOLEAN /\ ClientFine("memory", clock, o, rates[v], created[v])
      BY <2>1
    <3> HIDE DEF o
    <3>2. ClientFine("memory", clock, o, NoRate, created[v])
      BY <1>2, <2>2, <2>3, <3>1, ForgottenFine
    <3> QED BY <2>3, <3>2, RateTypes DEF o
  <2>4. CASE ~(rates[v].ends <= clock)
    BY <2>1, <2>2, <2>4
  <2> QED BY <2>3, <2>4
<1>8. k \in Int /\ k <= clock - Window
  BY <1>2, Constants
<1>9. fresh[u].made \in Counts /\ recent \in Counts
  <2>1. fresh[u].made \in Counts
    BY <1>7, RateTypes
  <2> HIDE DEF fresh, k
  <2> QED BY <1>8, <2>1, AfterFacts DEF Counts
<1>10. left \in SUBSET Sessions /\ \A v \in Subjects : mine(v) \in SUBSET Sessions
  OBVIOUS
<1>11. DOMAIN fresh = Subjects /\ fresh \in [Subjects -> Rates]
  BY <1>7
<1>12. LiveAt(clock) \subseteq left /\ LiveOf(u, clock) \subseteq mine(u)
  BY <1>3 DEF LiveAt, LiveOf
<1>13. PlaceOK'
  BY <1>2 DEF PlaceOK
<1>14. AdmissionsOK'
  <2>1. \A p \in Processes : admission'[p].at # "inserted"
    BY <1>1, NoTransaction DEF SessionInv, lockVars
  <2> QED BY <2>1 DEF AdmissionsOK, AdmissionOK
<1>15. CASE /\ room /\ Total(recent) < MaxCreations
            /\ revision' = [kept EXCEPT ![s] = 0]
            /\ owner' = [owners EXCEPT ![s] = u]
            /\ index' = (index \ gone) \cup {s}
            /\ counts' = [CountsWithout(gone) EXCEPT ![u] = @ + 1]
            /\ rates' = [fresh EXCEPT ![u] = counted]
            /\ by' = [Without(by, gone, NoSubject) EXCEPT ![s] = u]
            /\ Recorded(u, clock)
  <2>1. /\ created' \in [Subjects -> [Times -> Nat]] /\ overtaken' \subseteq Subjects
        /\ created'[u] = After(Made(created[u], clock), k)
        /\ u \in overtaken' <=> u \in overtaken \/ Total(After(created[u], clock)) > 0
        /\ \A v \in Subjects \ {u} : created'[v] = created[v] /\ (v \in overtaken' <=> v \in overtaken)
    BY <1>2, <1>15, RecordedFacts
  <2>2. /\ revision' \in [Sessions -> -1..LastRevision] /\ revision'[s] = 0
        /\ \A x \in Sessions \ {s} : revision'[x] = IF x \in gone THEN -1 ELSE revision[x]
    <3>1. 0 \in -1..LastRevision
      BY Constants
    <3> HIDE DEF kept, gone
    <3> QED BY <1>4, <1>15, <3>1
  <2>3. /\ owner' = by' /\ by' \in Owners /\ by'[s] = u
        /\ \A x \in Sessions \ {s} : by'[x] = IF x \in gone THEN NoSubject ELSE by[x]
    <3> HIDE DEF owners, gone
    <3> QED BY <1>5, <1>15 DEF Owners
  <2>4. /\ counts' \in [Subjects -> Nat]
        /\ counts'[u] = Cardinality(mine(u)) + 1
        /\ \A v \in Subjects \ {u} : counts'[v] = Cardinality(mine(v))
    <3> HIDE DEF mine, gone
    <3> QED BY <1>6, <1>15
  <2>5. counted \in Rates
    <3>1. Made(recent, clock) \in Counts
      <4> HIDE DEF recent
      <4> QED BY <1>2, <1>9, MadeOnce DEF Counts
    <3>2. clock + Window \in Nat
      BY <1>2, Constants
    <3> QED BY <3>1, <3>2, RateTypes
  <2>6. /\ rates' \in [Subjects -> Rates] /\ rates'[u] = counted
        /\ \A v \in Subjects \ {u} : rates'[v] = fresh[v]
    <3> HIDE DEF fresh, counted
    <3> QED BY <1>11, <1>15, <2>5
  <2>7. SessionTypeOK'
    <3>1. index' \subseteq Sessions
      BY <1>2, <1>15
    <3> HIDE DEF gone, fresh, kept, owners, counted, recent
    <3> QED BY <1>1, <1>2, <2>1, <2>2, <2>3, <2>4, <2>6, <3>1 DEF SessionTypeOK, lockVars, Inserted, Owners, Rates
  <2>8. NoTraces'
    BY <1>2, <2>2, <2>3 DEF NoTraces, Stored
  <2>9. LiveSessionsOK'
    <3>1. \A x \in Sessions \ {s} :
            revision'[x] # -1 /\ by'[x] # NoSubject => revision[x] # -1 /\ by'[x] = by[x]
      BY <2>2, <2>3
    <3>2. Cardinality(left) < limits.all /\ Cardinality(mine(u)) < limits.subject
      BY <1>6, <1>15
    <3>3. limits' = limits /\ expiry' = expiry /\ clock' = clock /\ LiveSessionsOK
      BY <1>1 DEF SessionInv
    <3> DEFINE A == left
               B == mine(u)
    <3>4. /\ A \in SUBSET Sessions /\ LiveAt(clock) \subseteq A /\ Cardinality(A) < limits.all
          /\ B \in SUBSET Sessions /\ LiveOf(u, clock) \subseteq B /\ Cardinality(B) < limits.subject
      BY <1>10, <1>12, <3>2
    <3> HIDE DEF A, B
    <3> QED BY <1>2, <2>3, <3>1, <3>3, <3>4, SomebodyNewOK
  <2>10. BooksOK'
    <3>1. index' = {x \in Sessions : Stored(x)'}
      <4>1. index' = (index \ gone) \cup {s}
        BY <1>15
      <4> HIDE DEF gone
      <4> QED BY <1>2, <2>2, <4>1 DEF Stored
    <3>2. ASSUME NEW v \in Subjects \ {u} PROVE {x \in Sessions : Stored(x)' /\ by'[x] = v} = mine(v)
      BY <1>1, <2>2, <2>3, SessionsAssumption DEF Stored
    <3>3. {x \in Sessions : Stored(x)' /\ by'[x] = u} = mine(u) \cup {s}
      BY <1>1, <2>2, <2>3, SessionsAssumption DEF Stored
    <3>4. Cardinality(mine(u) \cup {s}) = Cardinality(mine(u)) + 1
      <4> DEFINE B == mine(u)
      <4>1. s \notin B /\ B \in SUBSET Sessions
        BY <1>1
      <4> HIDE DEF B
      <4>2. Cardinality(B \cup {s}) = Cardinality(B) + 1
        BY <4>1, SetsOfSessions, FS_AddElement
      <4> QED BY <4>2 DEF B
    <3>5. \A v \in Subjects : counts'[v] = Cardinality({x \in Sessions : Stored(x)' /\ by'[x] = v})
      BY <2>4, <3>2, <3>3, <3>4
    <3> QED BY <1>1, <2>3, <3>1, <3>5 DEF BooksOK, MemoryBooks
  <2>11. CreationsOK'
    <3>1. ASSUME NEW v \in Subjects
          PROVE  ClientFine("memory", clock, v \in overtaken', rates'[v], created'[v])
      <4>1. CASE v = u
        <5> DEFINE o == u \in overtaken
                   r == fresh[u]
                   c == created[u]
        <5>1. /\ o \in BOOLEAN /\ r \in Rates /\ c \in Counts
              /\ ClientFine("memory", clock, o, r, c)
          BY <1>2, <1>7, SessionTypes
        <5>2. (u \in overtaken') = (o \/ Total(After(c, clock)) > 0)
          BY <2>1
        <5>3. Total(After(r.made, k)) < MaxCreations
          BY <1>15
        <5> HIDE DEF o, r, c
        <5>4. ClientFine("memory", clock, o \/ Total(After(c, clock)) > 0,
                         [made |-> Made(After(r.made, k), clock), ends |-> clock + Window],
                         After(Made(c, clock), clock - Window))
          <6>1. clock <= clock
            BY <1>2
          <6> HIDE DEF k
          <6> QED BY <1>2, <1>8, <5>1, <5>3, <6>1, CountedFine
        <5> QED BY <2>1, <2>6, <4>1, <5>2, <5>4 DEF c, r
      <4>2. CASE v # u
        <5>1. rates'[v] = fresh[v] /\ created'[v] = created[v]
          BY <2>1, <2>6, <4>2
        <5>2. (v \in overtaken') = (v \in overtaken)
          BY <2>1, <4>2
        <5> QED BY <1>7, <5>1, <5>2
      <4> QED BY <4>1, <4>2
    <3> QED BY <1>1, <3>1 DEF CreationsOK
  <2> QED BY <1>13, <1>14, <2>7, <2>8, <2>9, <2>10, <2>11 DEF SessionInv
<1>16. CASE /\ ~(room /\ Total(recent) < MaxCreations)
            /\ revision' = kept /\ owner' = owners
            /\ index' = index \ gone /\ counts' = CountsWithout(gone)
            /\ rates' = IF room THEN [fresh EXCEPT ![u] = pruned] ELSE fresh
            /\ by' = Without(by, gone, NoSubject)
            /\ UNCHANGED sessionHistory
  <2>1. room => /\ last \in Nat
                /\ ClientFine("memory", clock, u \in overtaken, pruned, created[u])
    <3> SUFFICES ASSUME room
                 PROVE  /\ last \in Nat
                        /\ ClientFine("memory", clock, u \in overtaken, pruned, created[u])
      OBVIOUS
    <3> DEFINE o == u \in overtaken
               r == fresh[u]
               c == created[u]
    <3>1. /\ o \in BOOLEAN /\ r \in Rates /\ c \in Counts
          /\ ClientFine("memory", clock, o, r, c)
      BY <1>2, <1>7, SessionTypes
    <3>2. Total(After(r.made, k)) > 0
      <4>1. Total(recent) \in Nat /\ ~(Total(recent) < MaxCreations)
        <5>1. ~(Total(recent) < MaxCreations)
          BY <1>16
        <5> HIDE DEF recent
        <5> QED BY <1>9, <5>1, TotalIsCardinality DEF Counts
      <4>2. Total(recent) > 0
        <5> HIDE DEF recent
        <5> QED BY <4>1, Constants
      <4> QED BY <4>2
    <3> HIDE DEF o, r, c, k
    <3>3. /\ LastOf(After(r.made, k)) + Window \in Nat
          /\ ClientFine("memory", clock, o,
                        [made |-> After(r.made, k), ends |-> LastOf(After(r.made, k)) + Window], c)
      BY <1>2, <1>8, <3>1, <3>2, PrunedFine
    <3> QED BY <3>3 DEF o, r, c
  <2>2. pruned \in Rates \/ ~room
    BY <1>9, <2>1, RateTypes
  <2>3. /\ rates' \in [Subjects -> Rates]
        /\ \A v \in Subjects : ClientFine("memory", clock, v \in overtaken, rates'[v], created[v])
    <3>1. CASE room
      <4>1. rates' = [fresh EXCEPT ![u] = pruned]
        BY <1>16, <3>1
      <4> HIDE DEF fresh, pruned, room
      <4> QED BY <1>7, <1>11, <2>1, <2>2, <3>1, <4>1
    <3>2. CASE ~room
      <4>1. rates' = fresh
        BY <1>16, <3>2
      <4> HIDE DEF fresh, room
      <4> QED BY <1>7, <1>11, <4>1
    <3> QED BY <3>1, <3>2
  <2>4. /\ by' = owners /\ owner' = owners /\ revision' = kept
        /\ index' = index \ gone /\ counts' = CountsWithout(gone)
        /\ UNCHANGED sessionHistory
    BY <1>5, <1>16
  <2> HIDE DEF fresh, pruned, room, kept, owners
  <2>5. SessionTypeOK'
    BY <1>1, <1>2, <1>4, <1>5, <1>6, <2>3, <2>4
       DEF SessionTypeOK, lockVars, sessionHistory, Inserted, Owners, Rates
  <2>6. NoTraces'
    BY <1>2, <1>4, <1>5, <2>4 DEF NoTraces, Stored
  <2>7. LiveSessionsOK'
    <3>1. NobodyNew
      BY <1>1, <1>2, <1>4, <1>5, <2>4, Constants DEF NobodyNew
    <3> QED BY <3>1, NobodyNewOK DEF SessionInv
  <2>8. BooksOK'
    <3>1. index' = {x \in Sessions : Stored(x)'}
      BY <1>2, <1>4, <2>4 DEF Stored
    <3>2. ASSUME NEW v \in Subjects PROVE {x \in Sessions : Stored(x)' /\ by'[x] = v} = mine(v)
      BY <1>4, <1>5, <2>4, SessionsAssumption DEF Stored
    <3>3. \A v \in Subjects : counts'[v] = Cardinality({x \in Sessions : Stored(x)' /\ by'[x] = v})
      BY <1>6, <2>4, <3>2
    <3> QED BY <1>1, <2>4, <3>1, <3>3 DEF BooksOK, MemoryBooks
  <2>9. CreationsOK'
    BY <1>1, <2>3, <2>4 DEF CreationsOK, sessionHistory
  <2> QED BY <1>13, <1>14, <2>5, <2>6, <2>7, <2>8, <2>9 DEF SessionInv
<1> QED BY <1>1, <1>15, <1>16

-----------------------------------------------------------------------------
(* Redis *)

LEMMA RateUntilFine ==
  ASSUME PlaceOK, NEW o \in BOOLEAN, NEW m \in Counts, NEW e \in Nat, NEW c \in Counts,
         ClientFine("redis", clock, o, [made |-> m, ends |-> e], c)
  PROVE  RateUntil(m, e) \in Rates /\ ClientFine("redis", clock, o, RateUntil(m, e), c)
<1> DEFINE r == [made |-> m, ends |-> e]
<1>1. r \in Rates /\ r.ends = e
  BY RateTypes
<1>2. ClientFine("redis", clock, o, r, c)
  OBVIOUS
<1>3. RateUntil(m, e) = IF e <= clock THEN NoRate ELSE r
  BY DEF RateUntil
<1> HIDE DEF r
<1>4. CASE e <= clock
  <2>1. ClientFine("redis", clock, o, NoRate, c)
    BY <1>1, <1>2, <1>4, ForgottenFine DEF PlaceOK
  <2> QED BY <2>1, <1>3, <1>4, RateTypes
<1>5. CASE ~(e <= clock)
  BY <1>1, <1>2, <1>3, <1>5
<1> QED BY <1>4, <1>5

\* What an admission finds in the registries, once the sessions that have expired by its time
\* have left them.
LEMMA RegistriesCleaned ==
  ASSUME SessionInv, backend = "redis", NEW n \in Times, n <= clock,
         NEW gone, gone = {x \in index : expiry[x] <= n}
  PROVE  /\ gone \in SUBSET Sessions
         /\ \A x \in Sessions : clock < expiry[x] =>
              /\ n < expiry[x] /\ x \notin gone
              /\ x \in index \ gone <=> Stored(x)
              /\ Without(owner, gone, NoSubject)[x] = by[x]
              /\ \A v \in Subjects : x \in members[v] \ {y \in gone : owner[y] = v} <=> by[x] = v
         /\ Without(owner, gone, NoSubject) \in Owners
<1>1. gone \in SUBSET Sessions
  BY DEF SessionInv, SessionTypeOK
<1>2. ASSUME NEW x \in Sessions, clock < expiry[x]
      PROVE  /\ n < expiry[x] /\ x \notin gone
             /\ x \in index \ gone <=> Stored(x)
             /\ Without(owner, gone, NoSubject)[x] = by[x]
             /\ \A v \in Subjects : x \in members[v] \ {y \in gone : owner[y] = v} <=> by[x] = v
  <2>1. n < expiry[x]
    BY <1>2, SessionTypes, Constants DEF SessionInv, PlaceOK
  <2>2. x \notin gone
    BY <2>1, SessionTypes, Constants DEF SessionInv
  <2>3. Registered(x)
    BY <1>2, RegistryFacts
  <2> QED BY <2>1, <2>2, <2>3 DEF Registered, Without
<1>3. Without(owner, gone, NoSubject) \in Owners
  BY DEF Without, Owners, SessionInv, SessionTypeOK
<1> QED BY <1>1, <1>2, <1>3

LEMMA AdmitScriptInv ==
  ASSUME SessionInv, SamePlace, NEW s \in Sessions, NEW u \in Subjects, NEW n \in Lately, AdmitScript(s, u, n)
  PROVE  SessionInv'
<1> USE DEF SamePlace
<1> DEFINE gone   == {x \in index : expiry[x] <= n}
           all    == index \ gone
           owners == Without(owner, gone, NoSubject)
           each   == [v \in Subjects |-> members[v] \ {x \in gone : owner[x] = v}]
           mine   == {x \in each[u] : expiry[x] > n}
           k      == n - Window
           recent == After(rates[u].made, k)
           room   == Cardinality(all) < limits.all /\ Cardinality(mine) < limits.subject
           until  == OwnersUntil(all \cup {s})
           added  == RateUntil(Made(recent, n), n + Window)
           pruned == RateUntil(recent, LastOf(recent) + Window)
           own    == [owners EXCEPT ![s] = u]
<1>0. /\ backend = "redis" /\ n < expiry[s] /\ ~Stored(s)
      /\ UNCHANGED <<limits, expiry, counts, lockVars>>
      /\ \/ /\ room /\ Total(recent) < MaxCreations
            /\ SetsKey(s, n)
            /\ index' = Kept(all \cup {s}, clock)
            /\ members' = [each EXCEPT ![u] = Kept(mine \cup {s}, clock)]
            /\ ownerEnds' = until /\ owner' = OwnedUntil(own, until)
            /\ rates' = [rates EXCEPT ![u] = added]
            /\ by' = [by EXCEPT ![s] = u]
            /\ Recorded(u, n)
         \/ /\ ~(room /\ Total(recent) < MaxCreations)
            /\ index' = all /\ members' = [each EXCEPT ![u] = mine]
            /\ IF room
               THEN /\ rates' = [rates EXCEPT ![u] = pruned]
                    /\ owner' = owners /\ UNCHANGED ownerEnds
               ELSE /\ ownerEnds' = OwnersUntil(all) /\ owner' = OwnedUntil(owners, ownerEnds')
                    /\ UNCHANGED rates
            /\ UNCHANGED <<revision, keyEnds, by, sessionHistory>>
  BY DEF AdmitScript
<1>1. /\ SessionTypeOK /\ PlaceOK /\ NoTraces /\ LiveSessionsOK
      /\ clock \in Times /\ clock \in Nat /\ n \in Times /\ n <= clock /\ n \in Nat
  BY LateFacts, Constants DEF SessionInv, PlaceOK
<1>2. /\ gone \in SUBSET Sessions
      /\ \A x \in Sessions : clock < expiry[x] =>
           /\ n < expiry[x] /\ x \notin gone
           /\ x \in all <=> Stored(x)
           /\ owners[x] = by[x]
           /\ \A v \in Subjects : x \in each[v] <=> by[x] = v
      /\ owners \in Owners
  <2> DEFINE g == gone
  <2>1. g = gone
    OBVIOUS
  <2> HIDE DEF g
  <2>2. /\ g \in SUBSET Sessions
        /\ \A x \in Sessions : clock < expiry[x] =>
             /\ n < expiry[x] /\ x \notin g
             /\ x \in index \ g <=> Stored(x)
             /\ Without(owner, g, NoSubject)[x] = by[x]
             /\ \A v \in Subjects : x \in members[v] \ {y \in g : owner[y] = v} <=> by[x] = v
        /\ Without(owner, g, NoSubject) \in Owners
    BY <1>0, <1>1, <2>1, RegistriesCleaned
  <2> QED BY <2>1, <2>2
<1>3. all \in SUBSET Sessions /\ all \cup {s} \in SUBSET Sessions
  BY <1>1 DEF SessionTypeOK
<1>4. each \in [Subjects -> SUBSET Sessions]
  BY <1>1 DEF SessionTypeOK
<1>5. /\ mine \in SUBSET Sessions /\ mine \cup {s} \in SUBSET Sessions
      /\ \A x \in mine : x \in each[u]
      /\ \A x \in each[u] : n < expiry[x] => x \in mine
  <2>1. each[u] \in SUBSET Sessions
    BY <1>4
  <2> HIDE DEF each
  <2> QED BY <1>1, <2>1, SessionTypes
<1>6. LiveAt(clock) \subseteq all /\ LiveOf(u, clock) \subseteq mine
  BY <1>2, <1>5 DEF LiveAt, LiveOf
<1>7. by[s] = NoSubject
  BY <1>0, <1>1 DEF NoTraces
<1>8. k \in Int /\ k <= clock - Window
  BY <1>1, Constants
<1>9. /\ rates[u] \in Rates /\ rates[u].made \in Counts /\ created[u] \in Counts
      /\ recent \in Counts
  <2>1. rates[u] \in Rates /\ rates[u].made \in Counts /\ created[u] \in Counts
    BY <1>1, SessionTypes, RateTypes
  <2> HIDE DEF k
  <2> QED BY <1>8, <2>1, AfterFacts DEF Counts
<1>10. \A v \in Subjects : ClientFine("redis", clock, v \in overtaken, rates[v], created[v])
  BY <1>0 DEF SessionInv, CreationsOK
<1>11. PlaceOK'
  BY <1>1 DEF PlaceOK
<1>12. AdmissionsOK'
  <2>1. \A p \in Processes : admission'[p].at # "inserted"
    BY <1>0, NoTransaction DEF SessionInv, lockVars
  <2> QED BY <2>1 DEF AdmissionsOK, AdmissionOK
<1> HIDE DEF gone, all, owners, each, mine, recent, room, k
<1>13. CASE /\ room /\ Total(recent) < MaxCreations
            /\ SetsKey(s, n)
            /\ index' = Kept(all \cup {s}, clock)
            /\ members' = [each EXCEPT ![u] = Kept(mine \cup {s}, clock)]
            /\ ownerEnds' = until /\ owner' = OwnedUntil(own, until)
            /\ rates' = [rates EXCEPT ![u] = added]
            /\ by' = [by EXCEPT ![s] = u]
            /\ Recorded(u, n)
  <2>1. /\ created' \in [Subjects -> [Times -> Nat]] /\ overtaken' \subseteq Subjects
        /\ created'[u] = After(Made(created[u], n), clock - Window)
        /\ u \in overtaken' <=> u \in overtaken \/ Total(After(created[u], n)) > 0
        /\ \A v \in Subjects \ {u} : created'[v] = created[v] /\ (v \in overtaken' <=> v \in overtaken)
    BY <1>1, <1>13, RecordedFacts
  <2>2. /\ revision' \in [Sessions -> -1..LastRevision] /\ revision'[s] = 0
        /\ \A x \in Sessions \ {s} : revision'[x] = revision[x]
    <3>1. 0 \in -1..LastRevision
      BY Constants
    <3> QED BY <1>1, <1>13, <3>1 DEF SetsKey, SessionTypeOK
  <2>3. /\ by' \in Owners /\ by'[s] = u
        /\ \A x \in Sessions \ {s} : by'[x] = by[x]
    BY <1>1, <1>13 DEF Owners, SessionTypeOK
  <2>4. /\ keyEnds' \in [Sessions -> Nat] /\ expiry[s] <= keyEnds'[s]
        /\ \A x \in Sessions \ {s} : keyEnds'[x] = keyEnds[x]
    <3>1. expiry[s] \in Nat
      BY <1>1, SessionTypes
    <3>2. clock + (expiry[s] - n) \in Nat /\ expiry[s] <= clock + (expiry[s] - n)
      BY <1>0, <1>1, <3>1
    <3> QED BY <1>1, <1>13, <3>2 DEF SetsKey, SessionTypeOK
  <2>5. own \in Owners /\ own[s] = u /\ \A x \in Sessions \ {s} : own[x] = owners[x]
    BY <1>2 DEF Owners
  <2> HIDE DEF own
  <2>6. /\ owner' \in Owners
        /\ \A x \in Sessions : clock < expiry[x] /\ (x \in all \cup {s} \/ own[x] = NoSubject) =>
             owner'[x] = own[x]
    BY <1>1, <1>3, <1>13, <2>5, OwnersStay
  <2>7. /\ ownerEnds' \in Nat
        /\ \A x \in all \cup {s} : clock < expiry[x] => expiry[x] <= ownerEnds'
    BY <1>1, <1>3, <1>13, OwnersUntilFacts
  <2>8. /\ index' \in SUBSET (all \cup {s})
        /\ \A x \in all \cup {s} : clock < expiry[x] => x \in index'
    BY <1>3, <1>13, KeptFacts
  <2>9. /\ Kept(mine \cup {s}, clock) \in SUBSET (mine \cup {s})
        /\ \A x \in mine \cup {s} : clock < expiry[x] => x \in Kept(mine \cup {s}, clock)
    BY <1>5, KeptFacts
  <2>10. /\ members' \in [Subjects -> SUBSET Sessions]
         /\ members'[u] = Kept(mine \cup {s}, clock)
         /\ \A v \in Subjects \ {u} : members'[v] = each[v]
    BY <1>4, <1>5, <1>13, <2>9
  <2>11. added \in Rates /\ ClientFine("redis", clock, u \in overtaken', added, created'[u])
    <3> DEFINE o == u \in overtaken
               c == created[u]
               r == rates[u]
               q == [made |-> Made(recent, n), ends |-> n + Window]
               p == o \/ Total(After(c, n)) > 0
               d == After(Made(c, n), clock - Window)
    <3>1. (u \in overtaken') = p /\ created'[u] = d
      BY <2>1
    <3>2. o \in BOOLEAN /\ c \in Counts /\ r \in Rates /\ ClientFine("redis", clock, o, r, c)
      BY <1>9, <1>10
    <3>3. Total(After(r.made, k)) < MaxCreations
      BY <1>13 DEF recent
    <3>4. ClientFine("redis", clock, p, q, d)
      <4> HIDE DEF o, c, r
      <4>1. ClientFine("redis", clock, o \/ Total(After(c, n)) > 0,
                       [made |-> Made(After(r.made, k), n), ends |-> n + Window],
                       After(Made(c, n), clock - Window))
        BY <1>1, <1>8, <3>2, <3>3, CountedFine
      <4> QED BY <4>1 DEF recent, r
    <3>5. Made(recent, n) \in Counts /\ n + Window \in Nat /\ d \in Counts /\ p \in BOOLEAN
      <4>1. d \in Counts
        BY <2>1, <3>1 DEF Counts
      <4> QED BY <1>1, <1>9, <4>1, MadeOnce, Constants DEF Counts
    <3> HIDE DEF d, p
    <3>6. added \in Rates /\ ClientFine("redis", clock, p, added, d)
      BY <1>1, <3>4, <3>5, RateUntilFine
    <3> QED BY <3>1, <3>6
  <2> HIDE DEF added
  <2>12. /\ rates' \in [Subjects -> Rates] /\ rates'[u] = added
         /\ \A v \in Subjects \ {u} : rates'[v] = rates[v]
    BY <1>1, <1>13, <2>11 DEF SessionTypeOK, Rates
  <2>13. SessionTypeOK'
    <3>1. index' \subseteq Sessions
      BY <1>3, <2>8
    <3> QED BY <1>0, <1>1, <2>1, <2>2, <2>3, <2>4, <2>6, <2>7, <2>10, <2>12, <3>1
            DEF SessionTypeOK, lockVars, Inserted, Owners, Rates
  <2>14. NoTraces'
    BY <1>1, <2>2, <2>3 DEF NoTraces, Stored
  <2>15. LiveSessionsOK'
    <3>1. \A x \in Sessions \ {s} :
            revision'[x] # -1 /\ by'[x] # NoSubject => revision[x] # -1 /\ by'[x] = by[x]
      BY <2>2, <2>3
    <3>2. Cardinality(all) < limits.all /\ Cardinality(mine) < limits.subject
      BY <1>13 DEF room
    <3>3. limits' = limits /\ expiry' = expiry /\ clock' = clock
      BY <1>0
    <3> QED BY <1>1, <1>3, <1>5, <1>6, <2>3, <3>1, <3>2, <3>3, SomebodyNewOK
  <2>16. ASSUME NEW x \in Sessions, clock < expiry[x] PROVE Registered(x)'
    <3>1. x \in index' <=> x \in all \cup {s}
      BY <2>8, <2>16
    <3>2. x \in index' <=> revision'[x] # -1
      BY <1>2, <2>2, <2>16, <3>1 DEF Stored
    <3>3. own[x] = by'[x]
      BY <1>2, <2>3, <2>5, <2>16
    <3>4. x \notin all \cup {s} => by'[x] = NoSubject
      BY <1>1, <1>2, <2>3, <2>16 DEF NoTraces
    <3>5. owner'[x] = by'[x]
      BY <2>6, <2>16, <3>3, <3>4
    <3>6. ASSUME NEW v \in Subjects PROVE x \in members'[v] <=> by'[x] = v
      <4>1. v # NoSubject
        BY SessionsAssumption
      <4>2. CASE v = u
        <5>1. x \in members'[v] <=> x \in mine \cup {s}
          BY <2>9, <2>10, <2>16, <4>2
        <5>2. x \in mine <=> by[x] = u
          BY <1>2, <1>5, <2>16
        <5> QED BY <2>3, <4>2, <5>1, <5>2
      <4>3. CASE v # u
        <5>1. x \in members'[v] <=> by[x] = v
          BY <1>2, <2>10, <2>16, <4>3
        <5> QED BY <1>7, <2>3, <4>1, <4>3, <5>1
      <4> QED BY <4>2, <4>3
    <3>7. by'[x] # NoSubject => expiry[x] <= ownerEnds'
      BY <2>7, <2>16, <3>4
    <3> QED BY <1>0, <3>2, <3>5, <3>6, <3>7 DEF Registered, Stored
  <2>17. ASSUME NEW x \in Sessions, revision'[x] # -1 PROVE expiry[x] <= keyEnds'[x]
    <3>1. CASE x = s
      BY <2>4, <3>1
    <3>2. CASE x # s
      BY <1>0, <2>2, <2>4, <2>17, <3>2, RegistryFacts DEF Stored
    <3> QED BY <3>1, <3>2
  <2>18. BooksOK'
    BY <1>0, <2>16, <2>17 DEF BooksOK, Registries, Stored
  <2>19. CreationsOK'
    <3>1. ASSUME NEW v \in Subjects
          PROVE  ClientFine("redis", clock, v \in overtaken', rates'[v], created'[v])
      <4>1. CASE v = u
        BY <2>11, <2>12, <4>1
      <4>2. CASE v # u
        <5>1. rates'[v] = rates[v] /\ created'[v] = created[v]
          BY <2>1, <2>12, <4>2
        <5>2. (v \in overtaken') = (v \in overtaken)
          BY <2>1, <4>2
        <5> QED BY <1>10, <5>1, <5>2
      <4> QED BY <4>1, <4>2
    <3> QED BY <1>0, <3>1 DEF CreationsOK
  <2> QED BY <1>11, <1>12, <2>13, <2>14, <2>15, <2>18, <2>19 DEF SessionInv
<1>14. CASE /\ ~(room /\ Total(recent) < MaxCreations)
            /\ index' = all /\ members' = [each EXCEPT ![u] = mine]
            /\ IF room
               THEN /\ rates' = [rates EXCEPT ![u] = pruned]
                    /\ owner' = owners /\ UNCHANGED ownerEnds
               ELSE /\ ownerEnds' = OwnersUntil(all) /\ owner' = OwnedUntil(owners, ownerEnds')
                    /\ UNCHANGED rates
            /\ UNCHANGED <<revision, keyEnds, by, sessionHistory>>
  <2>1. room => pruned \in Rates /\ ClientFine("redis", clock, u \in overtaken, pruned, created[u])
    <3> SUFFICES ASSUME room
                 PROVE  pruned \in Rates /\ ClientFine("redis", clock, u \in overtaken, pruned, created[u])
      OBVIOUS
    <3> DEFINE o == u \in overtaken
               r == rates[u]
               c == created[u]
    <3>1. o \in BOOLEAN /\ c \in Counts /\ r \in Rates /\ ClientFine("redis", clock, o, r, c)
      BY <1>9, <1>10
    <3>2. Total(After(r.made, k)) > 0
      <4>1. Total(recent) \in Nat /\ ~(Total(recent) < MaxCreations)
        BY <1>9, <1>14, TotalIsCardinality DEF Counts
      <4>2. Total(recent) > 0
        BY <4>1, Constants
      <4> QED BY <4>2 DEF recent
    <3> HIDE DEF o, r, c
    <3>3. /\ LastOf(After(r.made, k)) + Window \in Nat
          /\ ClientFine("redis", clock, o,
                        [made |-> After(r.made, k), ends |-> LastOf(After(r.made, k)) + Window], c)
      BY <1>1, <1>8, <3>1, <3>2, PrunedFine
    <3> DEFINE e == LastOf(recent) + Window
    <3>4. e \in Nat /\ ClientFine("redis", clock, o, [made |-> recent, ends |-> e], c)
      BY <3>3 DEF recent, r
    <3> HIDE DEF e
    <3>5. RateUntil(recent, e) \in Rates /\ ClientFine("redis", clock, o, RateUntil(recent, e), c)
      BY <1>1, <1>9, <3>1, <3>4, RateUntilFine
    <3> QED BY <3>5 DEF e, o, c
  <2> HIDE DEF pruned
  <2>2. /\ rates' \in [Subjects -> Rates]
        /\ \A v \in Subjects : ClientFine("redis", clock, v \in overtaken, rates'[v], created[v])
    <3>1. rates \in [Subjects -> Rates]
      BY <1>1 DEF SessionTypeOK, Rates
    <3> QED BY <1>10, <1>14, <2>1, <3>1
  <2>3. /\ owner' \in Owners /\ ownerEnds' \in Nat
        /\ \A x \in Sessions : clock < expiry[x] =>
             /\ owner'[x] = by[x]
             /\ by[x] # NoSubject => expiry[x] <= ownerEnds'
    <3>1. CASE room
      <4>1. owner' = owners /\ ownerEnds' = ownerEnds
        BY <1>14, <3>1
      <4>2. ASSUME NEW x \in Sessions, clock < expiry[x], by[x] # NoSubject PROVE expiry[x] <= ownerEnds
        BY <1>0, <4>2, RegistryFacts DEF Registered
      <4> QED BY <1>1, <1>2, <4>1, <4>2 DEF SessionTypeOK
    <3>2. CASE ~room
      <4>1. ownerEnds' = OwnersUntil(all) /\ owner' = OwnedUntil(owners, OwnersUntil(all))
        BY <1>14, <3>2
      <4>2. /\ owner' \in Owners
            /\ \A x \in Sessions : clock < expiry[x] /\ (x \in all \/ owners[x] = NoSubject) =>
                 owner'[x] = owners[x]
        BY <1>1, <1>2, <1>3, <4>1, OwnersStay
      <4>3. /\ ownerEnds' \in Nat
            /\ \A x \in all : clock < expiry[x] => expiry[x] <= ownerEnds'
        BY <1>1, <1>3, <4>1, OwnersUntilFacts
      <4>4. \A x \in Sessions : clock < expiry[x] /\ x \notin all => by[x] = NoSubject
        BY <1>1, <1>2 DEF NoTraces
      <4> QED BY <1>2, <4>2, <4>3, <4>4
    <3> QED BY <3>1, <3>2
  <2>4. /\ members' \in [Subjects -> SUBSET Sessions]
        /\ members'[u] = mine
        /\ \A v \in Subjects \ {u} : members'[v] = each[v]
    BY <1>4, <1>5, <1>14
  <2>5. UNCHANGED <<revision, keyEnds, by, sessionHistory>> /\ index' = all
    BY <1>14
  <2>6. SessionTypeOK'
    BY <1>0, <1>1, <1>3, <2>2, <2>3, <2>4, <2>5
       DEF SessionTypeOK, lockVars, sessionHistory, Inserted, Owners, Rates
  <2>7. NoTraces' /\ LiveSessionsOK'
    BY <1>0, <1>1, <2>5 DEF NoTraces, LiveSessionsOK, LiveAt, LiveOf, Stored
  <2>8. ASSUME NEW x \in Sessions, clock < expiry[x] PROVE Registered(x)'
    <3>1. ASSUME NEW v \in Subjects PROVE x \in members'[v] <=> by[x] = v
      <4>1. CASE v = u
        BY <1>2, <1>5, <2>4, <2>8, <4>1
      <4>2. CASE v # u
        BY <1>2, <2>4, <2>8, <4>2
      <4> QED BY <4>1, <4>2
    <3> QED BY <1>0, <1>2, <2>3, <2>5, <2>8, <3>1 DEF Registered, Stored
  <2>9. BooksOK'
    BY <1>0, <2>5, <2>8, RegistryFacts DEF BooksOK, Registries, Stored
  <2>10. CreationsOK'
    BY <1>0, <2>2, <2>5 DEF CreationsOK, sessionHistory
  <2> QED BY <1>11, <1>12, <2>6, <2>7, <2>9, <2>10 DEF SessionInv
<1> QED BY <1>0, <1>13, <1>14

-----------------------------------------------------------------------------
(* Time passes *)

\* A key of Redis goes away no sooner than its session expires.
LEMMA KeysGo ==
  ASSUME SessionInv, TimePasses, NEW s \in Sessions
  PROVE  \/ revision'[s] = revision[s] /\ by'[s] = by[s] /\ keyEnds'[s] = keyEnds[s]
         \/ /\ backend = "redis" /\ (Stored(s) => expiry[s] <= clock')
            /\ revision'[s] = -1 /\ by'[s] = NoSubject /\ keyEnds'[s] = 0
<1> DEFINE dead == backend = "redis" /\ keyEnds[s] <= clock'
<1>1. /\ revision'[s] = IF dead THEN -1 ELSE revision[s]
      /\ by'[s] = IF dead THEN NoSubject ELSE by[s]
      /\ keyEnds'[s] = IF dead THEN 0 ELSE keyEnds[s]
  BY DEF TimePasses, SessionsAge
<1>2. ASSUME dead, Stored(s) PROVE expiry[s] <= clock'
  <2>1. expiry[s] <= keyEnds[s] /\ keyEnds[s] <= clock'
    BY <1>2, RegistryFacts
  <2>2. expiry[s] \in Nat /\ keyEnds[s] \in Nat /\ clock' \in Nat
    BY SessionTypes, Constants DEF SessionInv, PlaceOK, TimePasses
  <2> QED BY <2>1, <2>2
<1> QED BY <1>1, <1>2

LEMMA TimePassesInv ==
  ASSUME SessionInv, TimePasses
  PROVE  SessionInv'
<1>1. /\ SessionTypeOK /\ PlaceOK /\ NoTraces /\ LiveSessionsOK /\ AdmissionsOK /\ BooksOK /\ CreationsOK
      /\ backend' = backend
      /\ UNCHANGED <<limits, expiry, counts, lock, admission, overtaken>>
  BY DEF SessionInv, TimePasses, SessionsAge, lockVars
<1>2. /\ clock \in Nat /\ clock' = clock + 1 /\ clock' \in Nat /\ clock' \in Times
      /\ clock \in Times /\ clock + 1 \in Times
  BY <1>1, Constants DEF PlaceOK, TimePasses, Times
<1>3. /\ revision' \in [Sessions -> -1..LastRevision]
      /\ by' \in Owners /\ keyEnds' \in [Sessions -> Nat]
  <2>1. -1 \in -1..LastRevision
    BY Constants
  <2> QED BY <1>1, <2>1 DEF SessionTypeOK, Owners, TimePasses, SessionsAge
<1>4. backend # "redis" => UNCHANGED <<index, members, ownerEnds, owner, rates, revision, by, keyEnds>>
  <2>1. SUFFICES ASSUME backend # "redis"
                 PROVE  UNCHANGED <<index, members, ownerEnds, owner, rates, revision, by, keyEnds>>
    OBVIOUS
  <2>2. UNCHANGED <<index, members, ownerEnds, owner, rates>>
    BY <2>1 DEF TimePasses, SessionsAge
  <2>3. /\ revision' = [s \in Sessions |-> revision[s]]
        /\ by' = [s \in Sessions |-> by[s]]
        /\ keyEnds' = [s \in Sessions |-> keyEnds[s]]
    BY <2>1 DEF TimePasses, SessionsAge
  <2> QED BY <2>2, <2>3, <1>1 DEF SessionTypeOK
<1>5. /\ index' \subseteq Sessions /\ members' \in [Subjects -> SUBSET Sessions]
      /\ ownerEnds' \in Nat /\ owner' \in Owners
  <2>1. CASE backend # "redis"
    BY <1>1, <1>4, <2>1 DEF SessionTypeOK, Owners
  <2>2. CASE backend = "redis"
    <3>1. /\ index' = Kept(index, clock')
          /\ members' = [u \in Subjects |-> Kept(members[u], clock')]
          /\ ownerEnds' = IF ownerEnds <= clock' THEN 0 ELSE ownerEnds
          /\ owner' = IF ownerEnds <= clock' THEN NoOwner ELSE owner
      BY <2>2 DEF TimePasses, SessionsAge
    <3>2. NoOwner \in Owners
      BY DEF NoOwner, Owners
    <3>3. index' \subseteq Sessions
      BY <1>1, <3>1 DEF SessionTypeOK, Kept
    <3>4. members' \in [Subjects -> SUBSET Sessions]
      BY <1>1, <3>1 DEF SessionTypeOK, Kept
    <3> QED BY <1>1, <3>1, <3>2, <3>3, <3>4 DEF SessionTypeOK, Owners
  <2> QED BY <2>1, <2>2
<1>6. NobodyNew
  BY <1>1, <1>2, KeysGo DEF NobodyNew
<1>7. PlaceOK'
  BY <1>1, <1>2 DEF PlaceOK
<1>8. NoTraces'
  BY <1>1, KeysGo DEF NoTraces, Stored
<1>9. LiveSessionsOK'
  BY <1>1, <1>6, NobodyNewOK
<1>10. AdmissionsOK'
  <2>1. ASSUME NEW p \in Processes, admission[p].at = "inserted"
        PROVE  /\ revision'[admission[p].session] = -1
               /\ rates'[admission[p].subject] = rates[admission[p].subject]
    <3>1. backend = "postgres" /\ ~Stored(admission[p].session)
      BY <1>1, <2>1 DEF AdmissionsOK, AdmissionOK
    <3> QED BY <1>4, <3>1 DEF Stored
  <2> QED BY <1>1, <1>6, <2>1, AdmissionsStay
<1>11. BooksOK'
  <2>1. CASE backend # "redis"
    BY <1>1, <1>4, <2>1 DEF BooksOK, MemoryBooks, Stored
  <2>2. CASE backend = "redis"
    <3>1. /\ index' = Kept(index, clock')
          /\ members' = [u \in Subjects |-> Kept(members[u], clock')]
          /\ ownerEnds' = IF ownerEnds <= clock' THEN 0 ELSE ownerEnds
          /\ owner' = IF ownerEnds <= clock' THEN NoOwner ELSE owner
      BY <2>2 DEF TimePasses, SessionsAge
    <3>2. ASSUME NEW s \in Sessions, clock' < expiry[s] PROVE Registered(s)'
      <4>1. clock < expiry[s] /\ Registered(s)
        <5>1. clock < expiry[s]
          BY <1>1, <1>2, <3>2, SessionTypes
        <5> QED BY <5>1, <2>2, RegistryFacts
      <4>2. revision'[s] = revision[s] /\ by'[s] = by[s]
        <5>1. CASE Stored(s)
          <6>1. ~(expiry[s] <= clock')
            BY <1>1, <1>2, <3>2, SessionTypes
          <6> QED BY <5>1, <6>1, KeysGo
        <5>2. CASE ~Stored(s)
          BY <5>2, <1>1, KeysGo DEF NoTraces, Stored
        <5> QED BY <5>1, <5>2
      <4>3. s \in index' <=> s \in index
        BY <3>1, <3>2 DEF Kept
      <4>4. ASSUME NEW u \in Subjects PROVE s \in members'[u] <=> s \in members[u]
        BY <3>1, <3>2 DEF Kept
      <4>5. by[s] # NoSubject => owner' = owner /\ ownerEnds' = ownerEnds
        <5>1. ASSUME by[s] # NoSubject PROVE ~(ownerEnds <= clock')
          <6>1. expiry[s] <= ownerEnds
            BY <4>1, <5>1 DEF Registered
          <6>2. expiry[s] \in Nat /\ ownerEnds \in Nat
            BY <1>1, SessionTypes DEF SessionTypeOK
          <6> QED BY <6>1, <6>2, <1>2, <3>2
        <5> QED BY <3>1, <5>1
      <4>6. owner'[s] = by[s]
        <5>1. NoOwner[s] = NoSubject
          BY DEF NoOwner
        <5> QED BY <3>1, <4>1, <4>5, <5>1 DEF Registered
      <4> QED BY <1>1, <4>1, <4>2, <4>3, <4>4, <4>5, <4>6 DEF Registered, Stored
    <3>3. ASSUME NEW s \in Sessions, revision'[s] # -1 PROVE expiry[s] <= keyEnds'[s]
      BY <2>2, <3>3, KeysGo, RegistryFacts DEF Stored
    <3> QED BY <1>1, <2>2, <3>2, <3>3 DEF BooksOK, Registries, Stored
  <2> QED BY <2>1, <2>2
<1>12. ASSUME NEW u \in Subjects
       PROVE  /\ created'[u] \in Counts /\ rates'[u] \in Rates
              /\ ClientFine(backend, clock', u \in overtaken, rates'[u], created'[u])
  <2> DEFINE o == u \in overtaken
             c == After(created[u], clock + 1 - Window)
  <2>1. created'[u] = c
    <3>1. created' = [v \in Subjects |-> After(created[v], clock' - Window)]
      BY DEF TimePasses, SessionsAge
    <3>2. created'[u] = After(created[u], clock' - Window)
      BY <3>1, Zenon
    <3>3. clock' - Window = clock + 1 - Window
      BY <1>2, Constants
    <3> QED BY <3>2, <3>3
  <2>2. created[u] \in Counts /\ rates[u] \in Rates /\ o \in BOOLEAN
    BY <1>1, SessionTypes
  <2>3. c \in Counts
    <3>1. clock + 1 - Window \in Int
      BY <1>2, Constants
    <3> HIDE DEF c
    <3>2. c = After(created[u], clock + 1 - Window)
      BY DEF c
    <3> QED BY <2>2, <3>1, <3>2, AfterFacts DEF Counts
  <2>4. ClientFine(backend, clock, o, rates[u], created[u])
    BY <1>1 DEF CreationsOK
  <2> HIDE DEF o
  <2>5. ClientFine(backend, clock + 1, o, rates[u], c)
    BY <1>2, <2>2, <2>4, TickFine
  <2> HIDE DEF c
  <2>6. CASE rates'[u] = rates[u]
    BY <1>2, <2>1, <2>2, <2>3, <2>5, <2>6 DEF o
  <2>7. CASE rates'[u] # rates[u]
    <3>1. backend = "redis"
      BY <1>4, <2>7
    <3>2. rates'[u] = NoRate /\ rates[u].ends <= clock + 1
      BY <1>2, <2>7, <3>1 DEF TimePasses, SessionsAge
    <3>3. NoRate \in Rates
      BY RateTypes
    <3>4. ClientFine(backend, clock + 1, o, NoRate, c)
      BY <1>2, <2>2, <2>3, <2>5, <3>1, <3>2, ForgottenFine
    <3> QED BY <1>2, <2>1, <2>3, <3>2, <3>3, <3>4 DEF o
  <2> QED BY <2>6, <2>7
<1>13. CreationsOK'
  BY <1>1, <1>12 DEF CreationsOK
<1>14. /\ created' \in [Subjects -> [Times -> Nat]]
       /\ rates' \in [Subjects -> Rates]
  <2>1. created' = [u \in Subjects |-> created'[u]]
    BY DEF TimePasses, SessionsAge
  <2>2. rates' = [u \in Subjects |-> rates'[u]]
    <3>1. CASE backend = "redis"
      BY <3>1 DEF TimePasses, SessionsAge
    <3>2. CASE backend # "redis"
      BY <3>2, <1>4, <1>1 DEF SessionTypeOK
    <3> QED BY <3>1, <3>2
  <2>3. ASSUME NEW u \in Subjects PROVE created'[u] \in [Times -> Nat] /\ rates'[u] \in Rates
    BY <1>12 DEF Counts
  <2> QED BY <2>1, <2>2, <2>3
<1>15. SessionTypeOK'
  BY <1>1, <1>3, <1>5, <1>14 DEF SessionTypeOK, Inserted, Owners, Rates
<1> QED BY <1>7, <1>8, <1>9, <1>10, <1>11, <1>13, <1>15 DEF SessionInv

-----------------------------------------------------------------------------
(* The invariant holds *)

LEMMA SessionInitInv ==
  ASSUME backend \in {"memory", "postgres", "redis"}, clock = 0, SessionInit
  PROVE  SessionInv
<1> USE DEF SessionInit
<1>1. PlaceOK
  BY Constants DEF PlaceOK, Times
<1>2. /\ NoRate \in Rates /\ Nothing \in Counts /\ Total(Nothing) = 0
      /\ NoRate.made = Nothing /\ NoRate.ends = 0
  BY RateTypes, TotalOfNothing DEF Counts
<1>3. SessionTypeOK
  <2>1. -1 \in -1..LastRevision
    BY Constants
  <2>2. NoRate \in [made : [Times -> Nat], ends : Nat] /\ Nothing \in [Times -> Nat]
    BY <1>2 DEF Rates, Counts
  <2>3. rates \in [Subjects -> [made : [Times -> Nat], ends : Nat]] /\ created \in [Subjects -> [Times -> Nat]]
    BY <2>2
  <2>4. owner \in [Sessions -> Subjects \cup {NoSubject}] /\ by \in [Sessions -> Subjects \cup {NoSubject}]
    BY DEF NoOwner
  <2> QED BY <2>1, <2>3, <2>4 DEF SessionTypeOK
<1>4. NoTraces
  BY DEF NoTraces, NoOwner
<1>5. LiveSessionsOK
  <2>1. LiveAt(clock) = {} /\ \A u \in Subjects : LiveOf(u, clock) = {}
    BY DEF LiveAt, LiveOf, Stored
  <2>2. limits.all \in Nat /\ limits.subject \in Nat
    BY <1>3, SessionTypes
  <2>3. Cardinality({}) = 0
    BY FS_EmptySet
  <2>4. 0 <= limits.all /\ 0 <= limits.subject
    BY <2>2
  <2> HIDE DEF SessionInit
  <2> QED BY <2>1, <2>3, <2>4 DEF LiveSessionsOK
<1>6. AdmissionsOK
  BY DEF AdmissionsOK, AdmissionOK, Ended
<1>7. BooksOK
  <2>1. MemoryBooks
    <3>1. index = {s \in Sessions : Stored(s)}
      BY DEF Stored
    <3>2. ASSUME NEW u \in Subjects PROVE counts[u] = Cardinality({s \in Sessions : Stored(s) /\ by[s] = u})
      <4>1. {s \in Sessions : Stored(s) /\ by[s] = u} = {}
        BY DEF Stored
      <4> QED BY <4>1, FS_EmptySet
    <3> QED BY <3>1, <3>2 DEF MemoryBooks
  <2>2. Registries
    BY SessionsAssumption DEF Registries, Registered, Stored, NoOwner
  <2> QED BY <2>1, <2>2 DEF BooksOK
<1>8. CreationsOK
  <2> SUFFICES ASSUME NEW u \in Subjects
               PROVE  ClientFine(backend, clock, u \in overtaken, rates[u], created[u])
    BY DEF CreationsOK
  <2>1. rates[u] = NoRate /\ created[u] = Nothing /\ \A t \in Times : Nothing[t] = 0
    BY DEF Nothing
  <2>2. RateFine(backend, clock, NoRate, Nothing)
    BY <1>2, <2>1, Constants DEF RateFine
  <2>3. FixedWindowFine(NoRate, Nothing)
    BY <1>2, Constants DEF FixedWindowFine
  <2>4. WindowFine(NoRate, Nothing)
    BY <1>2, <2>1 DEF WindowFine
  <2> QED BY <2>1, <2>2, <2>3, <2>4 DEF ClientFine
<1> QED BY <1>1, <1>3, <1>4, <1>5, <1>6, <1>7, <1>8 DEF SessionInv

LEMMA SessionNextInv ==
  ASSUME SessionInv, SessionNext, SamePlace
  PROVE  SessionInv'
<1>1. ASSUME NEW s \in Sessions, NEW u \in Subjects, AdmitInMemory(s, u) PROVE SessionInv'
  BY <1>1, AdmitInMemoryInv
<1>2. ASSUME NEW s \in Sessions, NEW u \in Subjects, NEW n \in Lately, AdmitScript(s, u, n)
      PROVE  SessionInv'
  BY <1>2, AdmitScriptInv
<1>3. ASSUME NEW s \in Sessions, NEW u \in Subjects, NEW n \in Lately,
             NEW p \in Processes, CountsAndInserts(p, s, u, n)
      PROVE  SessionInv'
  BY <1>3, InsertsInv
<1>4. ASSUME NEW p \in Processes, CommitAdmission(p) PROVE SessionInv'
  BY <1>4, CommitInv
<1>5. ASSUME NEW p \in Processes, RollBack(p) PROVE SessionInv'
  BY <1>5, RollBackInv
<1>6. ASSUME NEW s \in Sessions, NEW n \in Lately, Create(s, n) PROVE SessionInv'
  BY <1>6, CreateInv
<1>7. ASSUME NEW s \in Sessions, Update(s) PROVE SessionInv'
  BY <1>7, UpdateInv
<1>8. ASSUME NEW s \in Sessions, Remove({s}) PROVE SessionInv'
  BY <1>8, RemoveInv
<1>9. ASSUME NEW s \in Sessions, Delete(s) \/ GetExpired(s) PROVE SessionInv'
  BY <1>8, <1>9 DEF Delete, GetExpired
<1>10. ASSUME DeleteExpiredSessions PROVE SessionInv'
  <2>1. PICK R \in SUBSET Sessions : backend # "redis" /\ Remove(R)
    BY <1>10 DEF DeleteExpiredSessions
  <2> QED BY <2>1, RemoveInv
<1>11. ASSUME NEW u \in Subjects, DeleteWindow(u) PROVE SessionInv'
  BY <1>11, DeleteWindowInv
<1> QED BY <1>1, <1>2, <1>3, <1>4, <1>5, <1>6, <1>7, <1>9, <1>10, <1>11 DEF SessionNext

LEMMA SessionStepInv ==
  ASSUME SessionInv, [SessionStep]_sessionState
  PROVE  SessionInv'
<1>1. CASE TimePasses
  BY <1>1, TimePassesInv
<1>2. CASE SessionNext /\ UNCHANGED <<backend, clock>>
  BY <1>2, SessionNextInv DEF SamePlace
<1>3. CASE UNCHANGED sessionState
  <2>1. UNCHANGED <<backend, clock, limits, expiry, revision, owner, keyEnds, index, counts, members,
                    ownerEnds, rates, by, lock, admission, created, overtaken>>
    BY <1>3 DEF sessionState, browserVars, sessionVars, bookVars, lockVars, sessionHistory
  <2>2. SessionTypeOK' /\ PlaceOK' /\ NoTraces'
    BY <2>1 DEF SessionInv, SessionTypeOK, PlaceOK, NoTraces, Stored, Inserted
  <2>3. LiveSessionsOK' /\ CreationsOK'
    BY <2>1 DEF SessionInv, LiveSessionsOK, LiveAt, LiveOf, Stored, CreationsOK
  <2>4. AdmissionsOK'
    BY <2>1 DEF SessionInv, AdmissionsOK, AdmissionOK, LiveAt, LiveOf, Stored, InWindow, Nothing, Times
  <2>5. BooksOK'
    BY <2>1 DEF SessionInv, BooksOK, MemoryBooks, Registries, Registered, Stored
  <2> QED BY <2>2, <2>3, <2>4, <2>5 DEF SessionInv
<1> QED BY <1>1, <1>2, <1>3 DEF SessionStep

LEMMA SessionInvHolds == SessionSpec => []SessionInv
<1>1. backend \in {"memory", "postgres", "redis"} /\ clock = 0 /\ SessionInit => SessionInv
  BY SessionInitInv
<1>2. SessionInv /\ [SessionStep]_sessionState => SessionInv'
  BY SessionStepInv
<1> QED BY <1>1, <1>2, PTL DEF SessionSpec, sessionState

-----------------------------------------------------------------------------

LEMMA BooksFollow ==
  ASSUME SessionInv
  PROVE  BooksAgree
<1>1. SessionTypeOK /\ PlaceOK /\ NoTraces /\ BooksOK /\ CreationsOK
  BY DEF SessionInv
<1>2. ASSUME backend = "memory", NEW u \in Subjects, Total(rates[u].made) > 0
      PROVE  rates[u].ends = LastOf(rates[u].made) + Window
  BY <1>1, <1>2 DEF CreationsOK, ClientFine, RateFine
<1>3. ASSUME backend = "redis"
      PROVE  /\ {s \in index : clock < expiry[s]} = {s \in Sessions : Live(s)}
             /\ \A s \in Sessions : Live(s) => owner[s] = by[s]
             /\ \A u \in Subjects : {s \in members[u] : clock < expiry[s]} = Admitted(u)
  <2>1. \A s \in Sessions : clock < expiry[s] => Registered(s)
    BY <1>3, RegistryFacts
  <2>2. index \subseteq Sessions /\ \A u \in Subjects : members[u] \subseteq Sessions
    BY <1>1 DEF SessionTypeOK
  <2>3. \A s \in Sessions, u \in Subjects : by[s] = u => Stored(s)
    BY <1>1, SessionTypes DEF NoTraces
  <2> QED BY <2>1, <2>2, <2>3 DEF Registered, Live, Admitted
<1> QED BY <1>1, <1>2, <1>3 DEF BooksAgree, BooksOK, MemoryBooks

\* What the stores write down beside the sessions is what an admission would find if it
\* looked at the sessions themselves: in memory the index and the number of each client, in
\* Redis the registries and the hash of owners, for the sessions that live.
THEOREM BooksOfTheStores == SessionSpec => []BooksAgree
<1>1. SessionInv => BooksAgree
  BY BooksFollow
<1> QED BY <1>1, SessionInvHolds, PTL

LEMMA LimitsFollow ==
  ASSUME SessionInv
  PROVE  SessionLimitsHold
<1>1. SessionTypeOK /\ PlaceOK /\ LiveSessionsOK /\ CreationsOK
  BY DEF SessionInv
<1>2. {s \in Sessions : Live(s) /\ by[s] # NoSubject} = LiveAt(clock)
  BY DEF LiveAt, Live
<1>3. ASSUME NEW u \in Subjects PROVE Admitted(u) = LiveOf(u, clock)
  BY DEF LiveOf, Live, Admitted
<1>4. ASSUME NEW u \in Subjects \ overtaken
      PROVE  Total(created[u]) <= IF backend = "postgres" THEN 2 * MaxCreations ELSE MaxCreations
  <2>1. /\ created[u] \in [Times -> Nat] /\ rates[u].made \in [Times -> Nat]
        /\ rates[u] \in Rates
    BY <1>1, SessionTypes, RateTypes DEF Counts
  <2>2. /\ RateFine(backend, clock, rates[u], created[u])
        /\ IF backend = "postgres" THEN FixedWindowFine(rates[u], created[u])
           ELSE WindowFine(rates[u], created[u])
    BY <1>1 DEF CreationsOK, ClientFine
  <2>3. /\ Total(rates[u].made) <= MaxCreations
        /\ Total(rates[u].made) \in Nat /\ Total(created[u]) \in Nat /\ MaxCreations \in Nat
    BY <2>1, <2>2, TotalIsCardinality, Constants DEF RateFine
  <2>4. CASE backend = "postgres"
    <3>1. Total(created[u]) <= MaxCreations + Total(rates[u].made)
      BY <2>2, <2>4 DEF FixedWindowFine
    <3> QED BY <2>3, <2>4, <3>1
  <2>5. CASE backend # "postgres"
    <3>1. ASSUME NEW t \in Times PROVE created[u][t] <= rates[u].made[t]
      <4>1. created[u][t] \in Nat /\ rates[u].made[t] \in Nat
        BY <2>1
      <4>2. created[u][t] > 0 => created[u][t] <= rates[u].made[t]
        BY <2>2, <2>5 DEF WindowFine
      <4> QED BY <4>1, <4>2
    <3>2. Total(created[u]) <= Total(rates[u].made)
      BY <2>1, <3>1, TotalGrows
    <3> QED BY <2>3, <2>5, <3>2
  <2> QED BY <2>4, <2>5
<1> QED BY <1>1, <1>2, <1>3, <1>4 DEF SessionLimitsHold, LiveSessionsOK

\* The limits of an admission hold with every store, for any number of clients, sessions and
\* processes, any limits and any length of the window: no more sessions live at once, of all
\* clients and of each, and of a client who is not overtaken no more have been created within
\* a window, or twice as many with PostgreSQL.
THEOREM LimitsOfTheStores == SessionSpec => []SessionLimitsHold
<1>1. SessionInv => SessionLimitsHold
  BY LimitsFollow
<1> QED BY <1>1, SessionInvHolds, PTL

-----------------------------------------------------------------------------
(* The loops *)

Turn(way, loop) == IF way = "up" THEN Rise(loop) ELSE Sink(loop)

\* What is at hand after each of N turns.
Runs(way, f, start, N) ==
  /\ f = [n \in 0..N |-> f[n]]
  /\ \A n \in 0..N : f[n] = IF n = 0 THEN start ELSE Turn(way, f[n - 1])

\* A function defined by recursion up to N is there: there is no least n up to which it is not.
LEMMA TurnsExist ==
  ASSUME NEW way, NEW start, NEW N \in Nat
  PROVE  \E f : Runs(way, f, start, N)
<1> DEFINE C == {n \in Nat : ~ \E f : Runs(way, f, start, n)}
<1> SUFFICES ASSUME C # {} PROVE FALSE
  OBVIOUS
<1>1. PICK n \in C : \A m \in C : n <= m
  <2>1. C \in SUBSET Nat
    OBVIOUS
  <2> HIDE DEF C
  <2> QED BY <2>1, LeastOf
<1>2. n \in Nat
  OBVIOUS
<1>3. CASE n = 0
  <2> DEFINE g == [m \in 0..0 |-> start]
  <2>1. Runs(way, g, start, 0)
    BY DEF Runs
  <2> QED BY <1>3, <2>1
<1>4. CASE n # 0
  <2>1. n - 1 \in Nat /\ n - 1 \notin C
    <3> HIDE DEF C
    <3> QED BY <1>1, <1>2, <1>4
  <2>2. PICK f : Runs(way, f, start, n - 1)
    BY <2>1
  <2>3. n - 1 \in Nat /\ \A m \in 0..(n - 1) : f[m] = IF m = 0 THEN start ELSE Turn(way, f[m - 1])
    BY <2>1, <2>2 DEF Runs
  <2> HIDE DEF C
  <2> DEFINE g == [m \in 0..n |-> IF m = n THEN Turn(way, f[n - 1]) ELSE f[m]]
  <2>4. ASSUME NEW m \in 0..n PROVE g[m] = IF m = 0 THEN start ELSE Turn(way, g[m - 1])
    <3>1. CASE m = n
      BY <1>2, <1>4, <2>3, <3>1
    <3>2. CASE m # n
      <4>1. m \in 0..(n - 1) /\ (m # 0 => m - 1 \in 0..n /\ m - 1 # n)
        BY <1>2, <3>2
      <4>2. g[m] = f[m] /\ (m # 0 => g[m - 1] = f[m - 1])
        BY <3>2, <4>1
      <4> QED BY <2>3, <4>1, <4>2
    <3> QED BY <3>1, <3>2
  <2>5. g = [m \in 0..n |-> g[m]]
    OBVIOUS
  <2> HIDE DEF g
  <2>6. Runs(way, g, start, n)
    BY <2>4, <2>5 DEF Runs
  <2> QED BY <2>6 DEF C
<1> QED BY <1>3, <1>4

\* Up or down from i: what f is after n turns, and that the last of them is the result.
Turns(way, f, ix, i) == Runs(way, f, [ix |-> ix, i |-> i], Len(ix.heap))

LEMMA UpIs ==
  ASSUME NEW ix, NEW i, Len(ix.heap) \in Nat
  PROVE  \E f : Turns("up", f, ix, i) /\ BubbleUp(ix, i) = f[Len(ix.heap)].ix
<1> DEFINE N == Len(ix.heap)
           start == [ix |-> ix, i |-> i]
           after[n \in 0..N] == IF n = 0 THEN start ELSE Rise(after[n - 1])
<1>0. N \in Nat
  OBVIOUS
<1>1. \E f : f = [n \in 0..N |-> IF n = 0 THEN start ELSE Rise(f[n - 1])]
  <2> HIDE DEF N, start
  <2>1. PICK f : Runs("up", f, start, N)
    BY <1>0, TurnsExist
  <2> QED BY <2>1 DEF Turn, Runs
<1>2. after = [n \in 0..N |-> IF n = 0 THEN start ELSE Rise(after[n - 1])]
  <2> HIDE DEF N, start
  <2> QED BY <1>1
<1>3. BubbleUp(ix, i) = after[N].ix
  BY DEF BubbleUp, Loop
<1> HIDE DEF after
<1>4. Runs("up", after, start, N)
  <2> HIDE DEF start, N
  <2> QED BY <1>2 DEF Runs, Turn
<1> QED BY <1>3, <1>4 DEF Turns

LEMMA DownIs ==
  ASSUME NEW ix, NEW i, Len(ix.heap) \in Nat
  PROVE  \E f : Turns("down", f, ix, i) /\ BubbleDown(ix, i) = f[Len(ix.heap)].ix
<1> DEFINE N == Len(ix.heap)
           start == [ix |-> ix, i |-> i]
           after[n \in 0..N] == IF n = 0 THEN start ELSE Sink(after[n - 1])
<1>0. N \in Nat
  OBVIOUS
<1>1. \E f : f = [n \in 0..N |-> IF n = 0 THEN start ELSE Sink(f[n - 1])]
  <2> HIDE DEF N, start
  <2>1. PICK f : Runs("down", f, start, N)
    BY <1>0, TurnsExist
  <2> QED BY <2>1 DEF Turn, Runs
<1>2. after = [n \in 0..N |-> IF n = 0 THEN start ELSE Sink(after[n - 1])]
  <2> HIDE DEF N, start
  <2> QED BY <1>1
<1>3. BubbleDown(ix, i) = after[N].ix
  BY DEF BubbleDown, Loop
<1> HIDE DEF after
<1>4. Runs("down", after, start, N)
  <2> HIDE DEF start, N
  <2> QED BY <1>2 DEF Runs, Turn
<1> QED BY <1>3, <1>4 DEF Turns

-----------------------------------------------------------------------------
(* The order of the entries *)

Entry == [key : IndexKeys, expiresAt : Expirations]

\* e is not after f.
AtMost(e, f) == ~Less(f, e)

LEMMA EntryTypes ==
  \A e \in Entry : e.key \in Nat /\ e.expiresAt \in Nat
<1>1. ASSUME NEW e \in Entry PROVE e.key \in IndexKeys /\ e.expiresAt \in Expirations
  BY DEF Entry
<1> QED BY <1>1, IndexAssumption

LEMMA LessFacts ==
  /\ \A e, f \in Entry : Less(e, f) => AtMost(e, f)
  /\ \A e, f \in Entry : e.key # f.key /\ AtMost(e, f) => Less(e, f)
  /\ \A e, f, g \in Entry : AtMost(e, f) /\ AtMost(f, g) => AtMost(e, g)
  /\ \A e \in Entry : AtMost(e, e)
  /\ \A e, f \in Entry : AtMost(e, f) => e.expiresAt <= f.expiresAt
<1> USE EntryTypes DEF Less, AtMost
<1>1. ASSUME NEW e \in Entry, NEW f \in Entry, Less(e, f) PROVE AtMost(e, f)
  BY <1>1
<1>2. ASSUME NEW e \in Entry, NEW f \in Entry, e.key # f.key, AtMost(e, f) PROVE Less(e, f)
  BY <1>2
<1>3. ASSUME NEW e \in Entry, NEW f \in Entry, NEW g \in Entry, AtMost(e, f), AtMost(f, g)
      PROVE  AtMost(e, g)
  BY <1>3
<1>4. ASSUME NEW e \in Entry PROVE AtMost(e, e)
  OBVIOUS
<1>5. ASSUME NEW e \in Entry, NEW f \in Entry, AtMost(e, f) PROVE e.expiresAt <= f.expiresAt
  BY <1>5
<1> HIDE DEF Less, AtMost
<1> QED BY <1>1, <1>2, <1>3, <1>4, <1>5

Parent(j) == j \div 2

LEMMA ParentFacts ==
  ASSUME NEW j \in Nat, j >= 2
  PROVE  /\ Parent(j) \in Nat /\ 1 <= Parent(j) /\ Parent(j) < j
         /\ \A i \in Nat : Parent(j) = i <=> j = 2 * i \/ j = 2 * i + 1
BY DEF Parent

-----------------------------------------------------------------------------
(* The heap and the positions *)

\* The heap has the keys of exp once each, with their expiry, and the positions are theirs.
Fits(ix, exp) ==
  /\ ix.heap \in Seq(Entry)
  /\ ix.at \in [DOMAIN exp -> 1..Len(ix.heap)]
  /\ \A k \in DOMAIN exp : ix.heap[ix.at[k]].key = k /\ ix.heap[ix.at[k]].expiresAt = exp[k]
  /\ \A i \in 1..Len(ix.heap) : ix.heap[i].key \in DOMAIN exp /\ ix.at[ix.heap[i].key] = i

\* No entry is before its parent.
Heap(heap) == \A j \in 2..Len(heap) : AtMost(heap[Parent(j)], heap[j])

LEMMA FitsFacts ==
  ASSUME NEW ix, NEW exp, Fits(ix, exp)
  PROVE  /\ Len(ix.heap) \in Nat
         /\ \A i \in 1..Len(ix.heap) : ix.heap[i] \in Entry
         /\ \A i, j \in 1..Len(ix.heap) : ix.heap[i].key = ix.heap[j].key => i = j
<1>1. Len(ix.heap) \in Nat /\ ix.heap \in [1..Len(ix.heap) -> Entry]
  BY LenProperties DEF Fits
<1>2. \A i, j \in 1..Len(ix.heap) : ix.heap[i].key = ix.heap[j].key => i = j
  BY DEF Fits
<1> QED BY <1>1, <1>2

LEMMA SwapFacts ==
  ASSUME NEW ix, NEW exp, Fits(ix, exp),
         NEW i \in 1..Len(ix.heap), NEW j \in 1..Len(ix.heap), i # j
  PROVE  /\ Fits(Swap(ix, i, j), exp)
         /\ Len(Swap(ix, i, j).heap) = Len(ix.heap)
         /\ \A k \in 1..Len(ix.heap) :
              Swap(ix, i, j).heap[k] = IF k = i THEN ix.heap[j] ELSE IF k = j THEN ix.heap[i] ELSE ix.heap[k]
<1> DEFINE h == ix.heap
           a == ix.at
           g == [h EXCEPT ![i] = h[j], ![j] = h[i]]
           b == [a EXCEPT ![h[i].key] = j, ![h[j].key] = i]
<1>1. Swap(ix, i, j).heap = g /\ Swap(ix, i, j).at = b
  BY DEF Swap
<1>2. /\ h \in Seq(Entry) /\ Len(h) \in Nat /\ h[i] \in Entry /\ h[j] \in Entry
      /\ i \in 1..Len(h) /\ j \in 1..Len(h)
      /\ a \in [DOMAIN exp -> 1..Len(h)]
      /\ \A k \in DOMAIN exp : h[a[k]].key = k /\ h[a[k]].expiresAt = exp[k]
      /\ \A k \in 1..Len(h) : h[k].key \in DOMAIN exp /\ a[h[k].key] = k
  BY FitsFacts DEF Fits
<1> HIDE DEF h, a
<1>3. /\ g \in Seq(Entry) /\ Len(g) = Len(h)
      /\ \A k \in 1..Len(h) : g[k] = IF k = i THEN h[j] ELSE IF k = j THEN h[i] ELSE h[k]
  <2> DEFINE m == [h EXCEPT ![i] = h[j]]
             n == [m EXCEPT ![j] = h[i]]
  <2>1. /\ m \in Seq(Entry) /\ Len(m) = Len(h)
        /\ \A k \in 1..Len(h) : m[k] = IF k = i THEN h[j] ELSE h[k]
    BY <1>2, ExceptSeq
  <2>2. g = n
    BY <1>2
  <2> HIDE DEF m, g
  <2>3. /\ n \in Seq(Entry) /\ Len(n) = Len(m)
        /\ \A k \in 1..Len(m) : n[k] = IF k = j THEN h[i] ELSE m[k]
    BY <1>2, <2>1, ExceptSeq
  <2> QED BY <2>1, <2>2, <2>3
<1> HIDE DEF g
<1>4. /\ b \in [DOMAIN exp -> 1..Len(h)]
      /\ \A k \in DOMAIN exp : b[k] = IF k = h[j].key THEN i ELSE IF k = h[i].key THEN j ELSE a[k]
  BY <1>2
<1> HIDE DEF b
<1>5. h[i].key # h[j].key
  BY <1>2
<1>6. ASSUME NEW k \in DOMAIN exp PROVE g[b[k]].key = k /\ g[b[k]].expiresAt = exp[k]
  <2>1. CASE k = h[j].key
    <3>1. b[k] = i /\ g[i] = h[j] /\ a[k] = j
      BY <1>2, <1>3, <1>4, <2>1
    <3> QED BY <1>2, <3>1
  <2>2. CASE k = h[i].key
    <3>1. b[k] = j /\ g[j] = h[i] /\ a[k] = i
      BY <1>2, <1>3, <1>4, <1>5, <2>2
    <3> QED BY <1>2, <3>1
  <2>3. CASE k # h[i].key /\ k # h[j].key
    <3>1. b[k] = a[k] /\ a[k] \in 1..Len(h) /\ h[a[k]].key = k /\ h[a[k]].expiresAt = exp[k]
      BY <1>2, <1>4, <2>3
    <3>2. a[k] # i /\ a[k] # j
      BY <2>3, <3>1
    <3> QED BY <1>3, <3>1, <3>2
  <2> QED BY <2>1, <2>2, <2>3
<1>7. ASSUME NEW k \in 1..Len(h) PROVE g[k].key \in DOMAIN exp /\ b[g[k].key] = k
  <2>1. CASE k = i
    BY <1>2, <1>3, <1>4, <1>5, <2>1
  <2>2. CASE k = j
    BY <1>2, <1>3, <1>4, <1>5, <2>2
  <2>3. CASE k # i /\ k # j
    <3>1. g[k] = h[k] /\ h[k].key \in DOMAIN exp /\ a[h[k].key] = k
      BY <1>2, <1>3, <2>3
    <3>2. h[k].key # h[i].key /\ h[k].key # h[j].key
      BY <1>2, <2>3, <3>1
    <3> QED BY <1>4, <3>1, <3>2
  <2> QED BY <2>1, <2>2, <2>3
<1>8. Fits(Swap(ix, i, j), exp)
  BY <1>1, <1>3, <1>4, <1>6, <1>7 DEF Fits
<1> QED BY <1>1, <1>3, <1>8 DEF h

-----------------------------------------------------------------------------
(* The way up *)

\* On the way up no entry but the one at i is before its parent, and the children of that
\* one are not before its parent.
UpOK(loop, exp, N) ==
  LET h == loop.ix.heap
      i == loop.i
  IN /\ Fits(loop.ix, exp) /\ Len(h) = N /\ i \in 1..N
     /\ \A j \in 2..N : j # i => AtMost(h[Parent(j)], h[j])
     /\ \A j \in 2..N : Parent(j) = i /\ i > 1 => AtMost(h[Parent(i)], h[j])

LEMMA RiseTurns ==
  ASSUME NEW loop, NEW exp, NEW N, UpOK(loop, exp, N)
  PROVE  \/ Rise(loop) = loop /\ Heap(loop.ix.heap)
         \/ UpOK(Rise(loop), exp, N) /\ Rise(loop).i < loop.i
<1> DEFINE h == loop.ix.heap
           i == loop.i
           p == Parent(i)
           next == Swap(loop.ix, i, p)
<1>1. /\ Fits(loop.ix, exp) /\ Len(h) = N /\ i \in 1..N /\ N \in Nat
      /\ \A j \in 1..N : h[j] \in Entry
      /\ \A j \in 2..N : j # i => AtMost(h[Parent(j)], h[j])
      /\ \A j \in 2..N : Parent(j) = i /\ i > 1 => AtMost(h[p], h[j])
  BY FitsFacts DEF UpOK
<1>2. Rise(loop) = IF i > 1 /\ Less(h[i], h[p]) THEN [ix |-> next, i |-> p] ELSE loop
  BY DEF Rise, Parent
<1>3. CASE ~(i > 1 /\ Less(h[i], h[p]))
  <2>1. ASSUME NEW j \in 2..N PROVE AtMost(h[Parent(j)], h[j])
    <3>1. CASE j # i
      BY <1>1, <3>1
    <3>2. CASE j = i
      BY <1>1, <1>3, <3>2 DEF AtMost
    <3> QED BY <3>1, <3>2
  <2> QED BY <1>1, <1>2, <1>3, <2>1 DEF Heap
<1>4. CASE i > 1 /\ Less(h[i], h[p])
  <2>1. i \in 2..N /\ p \in 1..N /\ p < i /\ i \in 1..N
    <3>1. i \in Nat /\ i >= 2
      BY <1>1, <1>4
    <3>2. p \in Nat /\ 1 <= p /\ p < i
      BY <3>1, ParentFacts
    <3> QED BY <1>1, <3>1, <3>2
  <2> DEFINE g == next.heap
  <2>2. /\ Fits(next, exp) /\ Len(g) = N
        /\ \A k \in 1..N : g[k] = IF k = i THEN h[p] ELSE IF k = p THEN h[i] ELSE h[k]
    BY <1>1, <2>1, SwapFacts
  <2> HIDE DEF next, h, i, g, p
  <2>3. ASSUME NEW j \in 2..N PROVE j \in 1..N /\ Parent(j) \in 1..N /\ Parent(j) # j /\ j \in Nat /\ j >= 2
    <3>1. j \in Nat /\ j >= 2
      OBVIOUS
    <3>2. Parent(j) \in Nat /\ 1 <= Parent(j) /\ Parent(j) < j
      BY <3>1, ParentFacts
    <3> QED BY <1>1, <3>1, <3>2
  <2>4. h[i] \in Entry /\ h[p] \in Entry /\ AtMost(h[i], h[p]) /\ Parent(i) = p
    BY <1>1, <1>4, <2>1, LessFacts DEF p
  <2>5. ASSUME NEW j \in 2..N, j # p PROVE AtMost(g[Parent(j)], g[j])
    <3>0. h[j] \in Entry /\ h[Parent(j)] \in Entry
      BY <1>1, <2>3
    <3>1. CASE j = i
      BY <2>1, <2>2, <2>4, <3>1
    <3>2. CASE j # i /\ Parent(j) = i
      <4>1. g[Parent(j)] = h[p] /\ g[j] = h[j]
        BY <2>1, <2>2, <2>3, <2>5, <3>2
      <4> QED BY <1>1, <1>4, <3>2, <4>1
    <3>3. CASE j # i /\ Parent(j) = p
      <4>1. g[Parent(j)] = h[i] /\ g[j] = h[j]
        BY <2>1, <2>2, <2>3, <2>5, <3>3
      <4>2. AtMost(h[p], h[j])
        BY <1>1, <3>3
      <4> QED BY <2>4, <3>0, <4>1, <4>2, LessFacts
    <3>4. CASE j # i /\ Parent(j) # i /\ Parent(j) # p
      <4>1. g[Parent(j)] = h[Parent(j)] /\ g[j] = h[j]
        BY <2>1, <2>2, <2>3, <2>5, <3>4
      <4> QED BY <1>1, <3>4, <4>1
    <3> QED BY <3>1, <3>2, <3>3, <3>4
  <2>6. ASSUME NEW j \in 2..N, Parent(j) = p, p > 1 PROVE AtMost(g[Parent(p)], g[j])
    <3>1. p \in 2..N
      BY <1>1, <2>1, <2>6
    <3>2. Parent(p) \in 1..N /\ Parent(p) # p /\ Parent(p) # i
      <4>1. Parent(p) < p /\ p \in Nat /\ i \in Nat /\ Parent(p) \in Nat
        BY <1>1, <2>1, <3>1, ParentFacts
      <4> QED BY <2>1, <2>3, <3>1, <4>1
    <3>3. g[Parent(p)] = h[Parent(p)] /\ AtMost(h[Parent(p)], h[p]) /\ h[Parent(p)] \in Entry
      BY <1>1, <2>1, <2>2, <3>1, <3>2
    <3>4. CASE j = i
      BY <2>1, <2>2, <3>3, <3>4
    <3>5. CASE j # i
      <4>1. g[j] = h[j] /\ AtMost(h[p], h[j]) /\ h[j] \in Entry
        BY <1>1, <2>2, <2>3, <2>6, <3>5
      <4> QED BY <2>4, <3>3, <4>1, LessFacts
    <3> QED BY <3>4, <3>5
  <2>7. Rise(loop).ix = next /\ Rise(loop).i = p
    BY <1>2, <1>4
  <2>8. UpOK(Rise(loop), exp, N)
    BY <2>1, <2>2, <2>5, <2>6, <2>7 DEF UpOK, g
  <2> QED BY <2>1, <2>7, <2>8 DEF i
<1> QED BY <1>3, <1>4

\* A heap is left as it is.
LEMMA HeapRests ==
  ASSUME NEW loop, NEW exp, NEW N, UpOK(loop, exp, N), Heap(loop.ix.heap)
  PROVE  Rise(loop) = loop
<1> DEFINE h == loop.ix.heap
           i == loop.i
<1>1. Len(h) = N /\ N \in Nat /\ i \in 1..N
  BY FitsFacts DEF UpOK
<1>2. i > 1 => ~Less(h[i], h[Parent(i)])
  BY <1>1 DEF Heap, AtMost
<1> QED BY <1>2 DEF Rise, Parent

\* Every turn that is not the last gets closer to the top: the entry settles in time. There is
\* no first turn after which it would be otherwise.
LEMMA RisenIs ==
  ASSUME NEW ix, NEW exp, NEW i, NEW N, UpOK([ix |-> ix, i |-> i], exp, N)
  PROVE  Fits(BubbleUp(ix, i), exp) /\ Len(BubbleUp(ix, i).heap) = N /\ Heap(BubbleUp(ix, i).heap)
<1> DEFINE start == [ix |-> ix, i |-> i]
<1>0. start.ix = ix /\ start.i = i
  OBVIOUS
<1>1. N \in Nat /\ N = Len(ix.heap) /\ i \in 1..N
  BY <1>0, FitsFacts DEF UpOK
<1> HIDE DEF start
<1>2. PICK f : Turns("up", f, ix, i) /\ BubbleUp(ix, i) = f[N].ix
  BY <1>1, UpIs
<1>3. f[0] = start /\ \A n \in 1..N : f[n] = Rise(f[n - 1])
  <2>1. \A n \in 0..N : f[n] = IF n = 0 THEN start ELSE Turn("up", f[n - 1])
    BY <1>1, <1>2 DEF Turns, Runs, start
  <2> QED BY <1>1, <2>1 DEF Turn
<1> DEFINE Good(n) == UpOK(f[n], exp, N) /\ (Heap(f[n].ix.heap) \/ f[n].i + n <= i)
           C == {n \in 0..N : ~Good(n)}
<1>4. C = {}
  <2> SUFFICES ASSUME C # {} PROVE FALSE
    OBVIOUS
  <2>1. PICK n \in C : \A m \in C : n <= m
    <3>1. C \in SUBSET Nat
      OBVIOUS
    <3> HIDE DEF C
    <3> QED BY <3>1, LeastOf
  <2>2. n \in 0..N /\ ~Good(n)
    OBVIOUS
  <2>3. n # 0
    <3>1. Good(0)
      BY <1>0, <1>1, <1>3 DEF start
    <3> QED BY <2>2, <3>1
  <2>4. n \in 1..N /\ n - 1 \in 0..N /\ n - 1 < n
    BY <1>1, <2>2, <2>3
  <2>5. Good(n - 1)
    <3> HIDE DEF Good
    <3>1. n - 1 \notin C
      <4> HIDE DEF C
      <4> QED BY <2>1, <2>2, <2>4
    <3> QED BY <2>4, <3>1
  <2>6. f[n] = Rise(f[n - 1])
    BY <1>3, <2>4
  <2>7. CASE Rise(f[n - 1]) = f[n - 1] /\ Heap(f[n - 1].ix.heap)
    BY <2>2, <2>5, <2>6, <2>7
  <2>8. CASE UpOK(Rise(f[n - 1]), exp, N) /\ Rise(f[n - 1]).i < f[n - 1].i
    <3>1. UpOK(f[n], exp, N) /\ f[n].i \in Nat /\ f[n - 1].i \in Nat
      <4>1. UpOK(f[n], exp, N)
        BY <2>6, <2>8, Zenon
      <4>2. f[n].i \in 1..N /\ f[n - 1].i \in 1..N
        BY <2>5, <4>1 DEF UpOK
      <4> QED BY <1>1, <4>1, <4>2
    <3>2. CASE f[n - 1].i + (n - 1) <= i
      BY <1>1, <2>2, <2>4, <2>6, <2>8, <3>1, <3>2
    <3>3. CASE Heap(f[n - 1].ix.heap)
      <4>1. Rise(f[n - 1]) = f[n - 1]
        BY <2>5, <3>3, HeapRests
      <4> QED BY <2>2, <2>5, <2>6, <3>3, <4>1
    <3> QED BY <2>5, <3>2, <3>3
  <2>9. \/ Rise(f[n - 1]) = f[n - 1] /\ Heap(f[n - 1].ix.heap)
        \/ UpOK(Rise(f[n - 1]), exp, N) /\ Rise(f[n - 1]).i < f[n - 1].i
    <3>1. UpOK(f[n - 1], exp, N)
      BY <2>5
    <3> HIDE DEF Good
    <3> QED BY <3>1, RiseTurns
  <2> QED BY <2>7, <2>8, <2>9
<1>5. Good(N)
  BY <1>1, <1>4
<1>6. ~(f[N].i + N <= i)
  BY <1>1, <1>5 DEF UpOK
<1> QED BY <1>2, <1>5, <1>6 DEF UpOK

-----------------------------------------------------------------------------
(* The way down *)

\* On the way down no entry is before its parent but the children of the one at i, which are
\* not before the parent of that one.
DownOK(loop, exp, N) ==
  LET h == loop.ix.heap
      i == loop.i
  IN /\ Fits(loop.ix, exp) /\ Len(h) = N /\ i \in 1..N
     /\ \A j \in 2..N : Parent(j) # i => AtMost(h[Parent(j)], h[j])
     /\ \A j \in 2..N : Parent(j) = i /\ i > 1 => AtMost(h[Parent(i)], h[j])

\* The smallest of an entry and its children.
LEMMA SmallestIs ==
  ASSUME NEW ix, NEW exp, Fits(ix, exp), NEW i \in 1..Len(ix.heap),
         NEW S, \A j : j \in S <=> j = i \/ ((j = 2 * i \/ j = 2 * i + 1) /\ j <= Len(ix.heap))
  PROVE  /\ Smallest(ix.heap, S) \in S
         /\ \A k \in S : AtMost(ix.heap[Smallest(ix.heap, S)], ix.heap[k])
         /\ Smallest(ix.heap, S) # i => Less(ix.heap[Smallest(ix.heap, S)], ix.heap[i])
<1> DEFINE h == ix.heap
           N == Len(h)
           s == Smallest(h, S)
           L(j, k) == k = j \/ Less(h[j], h[k])
<1>1. /\ N \in Nat /\ \A j \in 1..N : h[j] \in Entry
      /\ \A j, k \in 1..N : h[j].key = h[k].key => j = k
  BY FitsFacts
<1>2. i \in S /\ S \subseteq 1..N /\ \A j \in S : j = i \/ j = 2 * i \/ j = 2 * i + 1
  BY <1>1
<1> HIDE DEF h, N, s
<1>3. ASSUME NEW j \in S, NEW k \in S PROVE L(j, k) \/ L(k, j)
  BY <1>1, <1>2, LessFacts DEF AtMost
<1>4. ASSUME NEW j \in S, NEW k \in S, NEW l \in S, L(j, k), L(k, l) PROVE L(j, l)
  <2>1. CASE j = k \/ k = l \/ j = l
    BY <1>4, <2>1
  <2>2. CASE j # k /\ k # l /\ j # l
    <3>1. h[j] \in Entry /\ h[k] \in Entry /\ h[l] \in Entry /\ h[j].key # h[l].key
      BY <1>1, <1>2, <2>2
    <3>2. AtMost(h[j], h[k]) /\ AtMost(h[k], h[l])
      BY <1>4, <2>2, <3>1, LessFacts
    <3>3. AtMost(h[j], h[l])
      BY <3>1, <3>2, LessFacts
    <3> QED BY <3>1, <3>3, LessFacts
  <2> QED BY <2>1, <2>2
<1>5. \E j \in S : \A k \in S : L(j, k)
  <2> HIDE DEF L
  <2>1. PICK m \in S : L(m, i) /\ (2 * i \in S => L(m, 2 * i))
    BY <1>2, <1>3
  <2>2. PICK n \in S : L(n, m) /\ (2 * i + 1 \in S => L(n, 2 * i + 1))
    BY <1>3, <2>1
  <2>3. L(n, i) /\ (2 * i \in S => L(n, 2 * i))
    BY <1>2, <1>4, <2>1, <2>2
  <2> QED BY <1>2, <2>2, <2>3
<1>6. s \in S /\ \A k \in S : L(s, k)
  BY <1>5 DEF Smallest, s
<1>7. ASSUME NEW k \in S PROVE AtMost(h[s], h[k])
  BY <1>1, <1>2, <1>6, LessFacts
<1> QED BY <1>2, <1>6, <1>7 DEF h, s

LEMMA SinkTurns ==
  ASSUME NEW loop, NEW exp, NEW N, DownOK(loop, exp, N)
  PROVE  /\ \/ Sink(loop) = loop /\ Heap(loop.ix.heap)
            \/ DownOK(Sink(loop), exp, N) /\ Sink(loop).i > loop.i
         /\ Heap(loop.ix.heap) => Sink(loop) = loop
<1> DEFINE h == loop.ix.heap
           i == loop.i
           below == {j \in {2 * i, 2 * i + 1} : j <= Len(h)}
           s == Smallest(h, below \cup {i})
           next == Swap(loop.ix, i, s)
<1>1. /\ Fits(loop.ix, exp) /\ Len(h) = N /\ i \in 1..N /\ N \in Nat
      /\ \A j \in 1..N : h[j] \in Entry
      /\ \A j \in 2..N : Parent(j) # i => AtMost(h[Parent(j)], h[j])
      /\ \A j \in 2..N : Parent(j) = i /\ i > 1 => AtMost(h[Parent(i)], h[j])
  BY FitsFacts DEF DownOK
<1>2. Sink(loop) = IF s = i THEN loop ELSE [ix |-> next, i |-> s]
  BY DEF Sink
<1>3. /\ s \in below \cup {i}
      /\ \A k \in below \cup {i} : AtMost(h[s], h[k])
      /\ s # i => Less(h[s], h[i])
  <2> DEFINE x == loop.ix
             S == below \cup {i}
  <2>1. Fits(x, exp) /\ i \in 1..Len(x.heap)
    BY <1>1
  <2>2. \A j : j \in S <=> j = i \/ ((j = 2 * i \/ j = 2 * i + 1) /\ j <= Len(x.heap))
    BY <1>1
  <2> HIDE DEF x, i, S
  <2>3. /\ Smallest(x.heap, S) \in S
        /\ \A k \in S : AtMost(x.heap[Smallest(x.heap, S)], x.heap[k])
        /\ Smallest(x.heap, S) # i => Less(x.heap[Smallest(x.heap, S)], x.heap[i])
    BY <2>1, <2>2, SmallestIs
  <2>4. s = Smallest(x.heap, S) /\ x.heap = h /\ S = below \cup {i}
    BY DEF x, S
  <2> QED BY <2>3, <2>4
<1> HIDE DEF s, next
<1>4. ASSUME NEW j \in 2..N
      PROVE  /\ j \in 1..N /\ j \in Nat /\ Parent(j) \in 1..N /\ Parent(j) < j /\ Parent(j) \in Nat
             /\ Parent(j) = i <=> j \in below
  <2>1. j \in Nat /\ j >= 2 /\ i \in Nat
    BY <1>1
  <2>2. Parent(j) \in Nat /\ 1 <= Parent(j) /\ Parent(j) < j
    BY <2>1, ParentFacts
  <2>3. Parent(j) = i <=> j = 2 * i \/ j = 2 * i + 1
    BY <2>1, ParentFacts
  <2> QED BY <1>1, <2>1, <2>2, <2>3
<1>5. CASE s = i
  <2>1. ASSUME NEW j \in 2..N PROVE AtMost(h[Parent(j)], h[j])
    <3> HIDE DEF below
    <3> QED BY <1>1, <1>3, <1>4, <1>5
  <2> QED BY <1>1, <1>2, <1>5, <2>1 DEF Heap
<1>6. CASE s # i
  <2>1. s \in 2..N /\ s \in 1..N /\ i < s /\ s \in Nat /\ i \in Nat
    BY <1>1, <1>3, <1>6
  <2>2. s \in below
    BY <1>3, <1>6
  <2> DEFINE g == next.heap
  <2>3. /\ Fits(next, exp) /\ Len(g) = N
        /\ \A k \in 1..N : g[k] = IF k = i THEN h[s] ELSE IF k = s THEN h[i] ELSE h[k]
    BY <1>1, <1>6, <2>1, SwapFacts DEF next
  <2> HIDE DEF h, i, g, below
  <2>4. Parent(s) = i /\ AtMost(h[s], h[i])
    BY <1>3, <1>4, <2>1, <2>2
  <2>5. ASSUME NEW j \in 2..N, Parent(j) # s PROVE AtMost(g[Parent(j)], g[j])
    <3>1. CASE j = s
      BY <1>1, <1>6, <2>1, <2>3, <2>4, <3>1
    <3>2. CASE j # s /\ Parent(j) = i
      <4>1. g[Parent(j)] = h[s] /\ g[j] = h[j] /\ j \in below
        BY <1>1, <1>4, <2>3, <2>5, <3>2
      <4> QED BY <1>3, <4>1
    <3>3. CASE j = i
      <4>1. Parent(i) # i /\ Parent(i) # s /\ Parent(i) \in 1..N /\ i > 1
        BY <1>4, <2>1, <2>5, <3>3
      <4>2. g[Parent(j)] = h[Parent(i)] /\ g[j] = h[s]
        BY <1>1, <2>3, <3>3, <4>1
      <4> QED BY <1>1, <2>1, <2>4, <4>1, <4>2
    <3>4. CASE j # s /\ j # i /\ Parent(j) # i
      <4>1. g[Parent(j)] = h[Parent(j)] /\ g[j] = h[j]
        BY <1>4, <2>3, <2>5, <3>4
      <4> QED BY <1>1, <2>5, <3>4, <4>1
    <3> QED BY <3>1, <3>2, <3>3, <3>4
  <2>6. ASSUME NEW j \in 2..N, Parent(j) = s PROVE AtMost(g[Parent(s)], g[j])
    <3>1. j # s /\ j # i
      BY <1>4, <2>1, <2>6
    <3>2. g[Parent(s)] = h[s] /\ g[j] = h[j]
      BY <1>1, <1>4, <2>3, <2>4, <3>1
    <3>3. AtMost(h[Parent(j)], h[j])
      BY <1>1, <1>6, <2>6
    <3> QED BY <2>6, <3>2, <3>3
  <2>7. Sink(loop).ix = next /\ Sink(loop).i = s /\ Sink(loop).i > loop.i
    BY <1>2, <1>6, <2>1 DEF i
  <2>8. DownOK(Sink(loop), exp, N)
    BY <2>1, <2>3, <2>5, <2>6, <2>7 DEF DownOK, g
  <2>9. ~Heap(h)
    <3>1. ~AtMost(h[i], h[s])
      BY <1>3, <1>6 DEF AtMost
    <3> QED BY <1>1, <2>1, <2>4, <3>1 DEF Heap
  <2> QED BY <2>7, <2>8, <2>9 DEF h
<1> QED BY <1>5, <1>6

\* The same on the way down, where every turn that is not the last gets closer to the end.
LEMMA SunkIs ==
  ASSUME NEW ix, NEW exp, NEW i, NEW N, DownOK([ix |-> ix, i |-> i], exp, N)
  PROVE  Fits(BubbleDown(ix, i), exp) /\ Len(BubbleDown(ix, i).heap) = N /\ Heap(BubbleDown(ix, i).heap)
<1> DEFINE start == [ix |-> ix, i |-> i]
<1>0. start.ix = ix /\ start.i = i
  OBVIOUS
<1>1. N \in Nat /\ N = Len(ix.heap) /\ i \in 1..N
  BY <1>0, FitsFacts DEF DownOK
<1> HIDE DEF start
<1>2. PICK f : Turns("down", f, ix, i) /\ BubbleDown(ix, i) = f[N].ix
  BY <1>1, DownIs
<1>3. f[0] = start /\ \A n \in 1..N : f[n] = Sink(f[n - 1])
  <2>1. \A n \in 0..N : f[n] = IF n = 0 THEN start ELSE Turn("down", f[n - 1])
    BY <1>1, <1>2 DEF Turns, Runs, start
  <2> QED BY <1>1, <2>1 DEF Turn
<1> DEFINE Good(n) == DownOK(f[n], exp, N) /\ (Heap(f[n].ix.heap) \/ f[n].i >= i + n)
           C == {n \in 0..N : ~Good(n)}
<1>4. C = {}
  <2> SUFFICES ASSUME C # {} PROVE FALSE
    OBVIOUS
  <2>1. PICK n \in C : \A m \in C : n <= m
    <3>1. C \in SUBSET Nat
      OBVIOUS
    <3> HIDE DEF C
    <3> QED BY <3>1, LeastOf
  <2>2. n \in 0..N /\ ~Good(n)
    OBVIOUS
  <2>3. n # 0
    <3>1. Good(0)
      BY <1>0, <1>1, <1>3 DEF start
    <3> QED BY <2>2, <3>1
  <2>4. n \in 1..N /\ n - 1 \in 0..N /\ n - 1 < n
    BY <1>1, <2>2, <2>3
  <2>5. Good(n - 1)
    <3> HIDE DEF Good
    <3>1. n - 1 \notin C
      <4> HIDE DEF C
      <4> QED BY <2>1, <2>2, <2>4
    <3> QED BY <2>4, <3>1
  <2>6. f[n] = Sink(f[n - 1])
    BY <1>3, <2>4
  <2>7. CASE Sink(f[n - 1]) = f[n - 1] /\ Heap(f[n - 1].ix.heap)
    BY <2>2, <2>5, <2>6, <2>7
  <2>8. CASE DownOK(Sink(f[n - 1]), exp, N) /\ Sink(f[n - 1]).i > f[n - 1].i
    <3>1. DownOK(f[n], exp, N) /\ f[n].i \in Nat /\ f[n - 1].i \in Nat
      <4>1. DownOK(f[n], exp, N)
        BY <2>6, <2>8, Zenon
      <4>2. f[n].i \in 1..N /\ f[n - 1].i \in 1..N
        BY <2>5, <4>1 DEF DownOK
      <4> QED BY <1>1, <4>1, <4>2
    <3>2. CASE f[n - 1].i >= i + (n - 1)
      BY <1>1, <2>2, <2>4, <2>6, <2>8, <3>1, <3>2
    <3>3. CASE Heap(f[n - 1].ix.heap)
      <4>1. Sink(f[n - 1]) = f[n - 1]
        BY <2>5, <3>3, SinkTurns
      <4> QED BY <2>2, <2>5, <2>6, <3>3, <4>1
    <3> QED BY <2>5, <3>2, <3>3
  <2>9. \/ Sink(f[n - 1]) = f[n - 1] /\ Heap(f[n - 1].ix.heap)
        \/ DownOK(Sink(f[n - 1]), exp, N) /\ Sink(f[n - 1]).i > f[n - 1].i
    <3>1. DownOK(f[n - 1], exp, N)
      BY <2>5
    <3> HIDE DEF Good
    <3> QED BY <3>1, SinkTurns
  <2> QED BY <2>7, <2>8, <2>9
<1>5. Good(N)
  BY <1>1, <1>4
<1>6. ~(f[N].i >= i + N)
  BY <1>1, <1>5 DEF DownOK
<1> QED BY <1>2, <1>5, <1>6 DEF DownOK

-----------------------------------------------------------------------------
(* The operations *)

\* A heap h that has, where `at` says, the keys of exp but that of e, and room for e at i.
RoomFor(h, at, e, i, exp) ==
  /\ h \in Seq(Entry) /\ e \in Entry /\ i \in 1..Len(h)
  /\ DOMAIN exp = DOMAIN at \cup {e.key} /\ exp[e.key] = e.expiresAt
  /\ \A k \in DOMAIN at : k # e.key =>
       /\ at[k] \in 1..Len(h) /\ at[k] # i
       /\ h[at[k]].key = k /\ h[at[k]].expiresAt = exp[k]
  /\ \A j \in 1..Len(h) : j # i =>
       h[j].key \in DOMAIN at /\ h[j].key # e.key /\ at[h[j].key] = j

LEMMA PutFits ==
  ASSUME NEW h, NEW at, NEW e, NEW i, NEW exp, RoomFor(h, at, e, i, exp)
  PROVE  /\ Fits(Put([heap |-> h, at |-> at], e, i), exp)
         /\ Len(Put([heap |-> h, at |-> at], e, i).heap) = Len(h)
         /\ \A j \in 1..Len(h) : Put([heap |-> h, at |-> at], e, i).heap[j] = IF j = i THEN e ELSE h[j]
<1> DEFINE ix == Put([heap |-> h, at |-> at], e, i)
           D == DOMAIN at
           g == [h EXCEPT ![i] = e]
           b == [k \in D \cup {e.key} |-> IF k = e.key THEN i ELSE at[k]]
<1>0. /\ h \in Seq(Entry) /\ e \in Entry /\ i \in 1..Len(h)
      /\ DOMAIN exp = D \cup {e.key} /\ exp[e.key] = e.expiresAt
      /\ \A k \in D : k # e.key => /\ at[k] \in 1..Len(h) /\ at[k] # i
                                   /\ h[at[k]].key = k /\ h[at[k]].expiresAt = exp[k]
      /\ \A j \in 1..Len(h) : j # i => h[j].key \in D /\ h[j].key # e.key /\ at[h[j].key] = j
  BY DEF RoomFor
<1>1. ix.heap = g /\ ix.at = b
  BY DEF Put
<1> HIDE DEF ix, D
<1>2. /\ g \in Seq(Entry) /\ Len(g) = Len(h)
      /\ \A j \in 1..Len(h) : g[j] = IF j = i THEN e ELSE h[j]
  BY <1>0, ExceptSeq
<1>3. b \in [D \cup {e.key} -> 1..Len(h)]
  BY <1>0
<1>4. \A k \in D \cup {e.key} : b[k] = IF k = e.key THEN i ELSE at[k]
  OBVIOUS
<1> HIDE DEF g, b
<1>5. ASSUME NEW k \in D \cup {e.key} PROVE g[b[k]].key = k /\ g[b[k]].expiresAt = exp[k]
  <2>1. CASE k = e.key
    BY <1>0, <1>2, <1>4, <2>1
  <2>2. CASE k # e.key
    <3>1. k \in D /\ b[k] = at[k]
      BY <1>4, <2>2
    <3>2. g[at[k]] = h[at[k]]
      BY <1>0, <1>2, <2>2, <3>1
    <3> QED BY <1>0, <2>2, <3>1, <3>2
  <2> QED BY <2>1, <2>2
<1>6. ASSUME NEW j \in 1..Len(h) PROVE g[j].key \in D \cup {e.key} /\ b[g[j].key] = j
  <2>1. CASE j = i
    BY <1>0, <1>2, <1>4, <2>1
  <2>2. CASE j # i
    <3>1. g[j] = h[j] /\ h[j].key \in D /\ h[j].key # e.key /\ at[h[j].key] = j
      BY <1>0, <1>2, <2>2
    <3> QED BY <1>4, <3>1
  <2> QED BY <2>1, <2>2
<1>7. Fits(ix, exp)
  BY <1>0, <1>1, <1>2, <1>3, <1>5, <1>6 DEF Fits
<1> QED BY <1>1, <1>2, <1>7 DEF ix

\* What of the heap matters, and that the first entry is the least.
Exact(ix, exp) ==
  /\ Fits(ix, exp) /\ Heap(ix.heap)
  /\ DOMAIN exp \subseteq IndexKeys /\ exp \in [DOMAIN exp -> Expirations]
  /\ IsFiniteSet(DOMAIN exp) /\ Len(ix.heap) = Cardinality(DOMAIN exp)

LEMMA FirstIsLeast ==
  ASSUME NEW h \in Seq(Entry), Heap(h)
  PROVE  \A j \in 1..Len(h) : AtMost(h[1], h[j])
<1> DEFINE C == {j \in 1..Len(h) : ~AtMost(h[1], h[j])}
<1>0. Len(h) \in Nat /\ \A j \in 1..Len(h) : h[j] \in Entry
  BY LenProperties
<1> SUFFICES ASSUME C # {} PROVE FALSE
  OBVIOUS
<1>1. PICK j \in C : \A k \in C : j <= k
  <2>1. C \in SUBSET Nat
    BY <1>0
  <2> HIDE DEF C
  <2> QED BY <2>1, LeastOf
<1>2. j # 1
  BY <1>0, LessFacts
<1>3. j \in 2..Len(h) /\ Parent(j) \in 1..Len(h) /\ Parent(j) < j
  <2>1. j \in Nat /\ j >= 2 /\ j <= Len(h)
    BY <1>0, <1>2
  <2>2. Parent(j) \in Nat /\ 1 <= Parent(j) /\ Parent(j) < j
    BY <2>1, ParentFacts
  <2> QED BY <1>0, <2>1, <2>2
<1>4. Parent(j) \notin C
  <2> HIDE DEF C
  <2> QED BY <1>0, <1>1, <1>3
<1>5. AtMost(h[1], h[Parent(j)])
  BY <1>3, <1>4
<1>6. AtMost(h[Parent(j)], h[j])
  BY <1>3 DEF Heap
<1>7. 1 \in 1..Len(h) /\ j \in 1..Len(h)
  BY <1>0, <1>3
<1>8. AtMost(h[1], h[j])
  BY <1>0, <1>3, <1>5, <1>6, <1>7, LessFacts
<1> QED BY <1>8

Later(exp, k, t) == [j \in DOMAIN exp \cup {k} |-> IF j = k THEN t ELSE exp[j]]
Fewer(exp, k)    == [j \in DOMAIN exp \ {k} |-> exp[j]]

\* What holds of the positions when the keys fit.
LEMMA Positions ==
  ASSUME NEW ix, NEW exp, Fits(ix, exp)
  PROVE  /\ ix.heap \in Seq(Entry) /\ DOMAIN ix.at = DOMAIN exp
         /\ \A k \in DOMAIN exp : /\ ix.at[k] \in 1..Len(ix.heap)
                                  /\ ix.heap[ix.at[k]].key = k /\ ix.heap[ix.at[k]].expiresAt = exp[k]
         /\ \A i \in 1..Len(ix.heap) : ix.heap[i].key \in DOMAIN exp /\ ix.at[ix.heap[i].key] = i
  BY DEF Fits

LEMMA SetNew ==
  ASSUME NEW ix, NEW exp, Exact(ix, exp), NEW k \in IndexKeys, k \notin DOMAIN exp, NEW t \in Expirations
  PROVE  Exact(SetKey(ix, k, t), Later(exp, k, t))
<1> DEFINE e == [key |-> k, expiresAt |-> t]
           h == Append(ix.heap, e)
           end == Len(ix.heap) + 1
           start == Put([heap |-> h, at |-> ix.at], e, end)
           new == Later(exp, k, t)
<1>0. Fits(ix, exp) /\ Heap(ix.heap) /\ DOMAIN exp \subseteq IndexKeys /\ exp \in [DOMAIN exp -> Expirations]
  BY DEF Exact
<1>1. /\ ix.heap \in Seq(Entry) /\ DOMAIN ix.at = DOMAIN exp /\ Len(ix.heap) \in Nat
      /\ \A j \in DOMAIN exp : /\ ix.at[j] \in 1..Len(ix.heap)
                               /\ ix.heap[ix.at[j]].key = j /\ ix.heap[ix.at[j]].expiresAt = exp[j]
      /\ \A i \in 1..Len(ix.heap) : ix.heap[i].key \in DOMAIN exp /\ ix.at[ix.heap[i].key] = i
  BY <1>0, Positions, FitsFacts
<1>2. e \in Entry /\ e.key = k /\ e.expiresAt = t
  BY DEF Entry
<1>3. SetKey(ix, k, t) = BubbleUp(start, end)
  BY <1>1 DEF SetKey
<1> HIDE DEF e
<1>4. /\ h \in Seq(Entry) /\ Len(h) = end
      /\ \A j \in 1..Len(ix.heap) : h[j] = ix.heap[j]
  BY <1>1, <1>2, AppendProperties
<1>5. end \in 1..end /\ end \in Nat /\ \A j \in 1..end : j # end => j \in 1..Len(ix.heap)
  BY <1>1
<1>6. DOMAIN new = DOMAIN exp \cup {k} /\ new[k] = t /\ \A j \in DOMAIN exp : new[j] = exp[j]
  BY DEF Later
<1> HIDE DEF h, start, new
<1>7. /\ Fits(start, new) /\ Len(start.heap) = Len(h)
      /\ \A j \in 1..Len(h) : start.heap[j] = IF j = end THEN e ELSE h[j]
  <2>1. ASSUME NEW j \in DOMAIN exp
        PROVE  /\ j # e.key /\ ix.at[j] \in 1..Len(h) /\ ix.at[j] # end
               /\ h[ix.at[j]].key = j /\ h[ix.at[j]].expiresAt = new[j]
    <3>1. /\ ix.at[j] \in 1..Len(ix.heap)
          /\ ix.heap[ix.at[j]].key = j /\ ix.heap[ix.at[j]].expiresAt = exp[j]
      BY <1>1
    <3>2. h[ix.at[j]] = ix.heap[ix.at[j]] /\ ix.at[j] \in 1..Len(h) /\ ix.at[j] # end
      BY <1>1, <1>4, <3>1
    <3> QED BY <1>2, <1>6, <3>1, <3>2
  <2>2. ASSUME NEW j \in 1..Len(h), j # end
        PROVE  h[j].key \in DOMAIN exp /\ h[j].key # e.key /\ ix.at[h[j].key] = j
    <3>1. j \in 1..Len(ix.heap) /\ h[j] = ix.heap[j]
      BY <1>4, <1>5, <2>2
    <3> QED BY <1>1, <1>2, <3>1
  <2>3. DOMAIN new = DOMAIN ix.at \cup {e.key} /\ new[e.key] = e.expiresAt
    BY <1>1, <1>2, <1>6
  <2> HIDE DEF end
  <2>4. RoomFor(h, ix.at, e, end, new)
    BY <1>1, <1>2, <1>4, <1>5, <2>1, <2>2, <2>3 DEF RoomFor
  <2> QED BY <2>4, PutFits DEF start
<1>8. UpOK([ix |-> start, i |-> end], new, end)
  <2>1. ASSUME NEW j \in 2..end, j # end PROVE AtMost(start.heap[Parent(j)], start.heap[j])
    <3>1. j \in Nat /\ j >= 2 /\ j \in 2..Len(ix.heap)
      BY <1>1, <2>1
    <3>2. Parent(j) \in Nat /\ 1 <= Parent(j) /\ Parent(j) < j
      BY <3>1, ParentFacts
    <3>3. start.heap[Parent(j)] = ix.heap[Parent(j)] /\ start.heap[j] = ix.heap[j]
      <4>1. Parent(j) \in 1..Len(ix.heap) /\ Parent(j) \in 1..Len(h) /\ Parent(j) # end /\ j \in 1..Len(h)
        BY <1>1, <1>4, <3>1, <3>2
      <4> QED BY <1>4, <1>7, <2>1, <3>1, <4>1
    <3> QED BY <1>0, <3>1, <3>3 DEF Heap
  <2>2. ASSUME NEW j \in 2..end, Parent(j) = end PROVE FALSE
    <3>1. j \in Nat /\ j >= 2 /\ j <= end
      BY <1>1
    <3>2. Parent(j) \in Nat /\ Parent(j) < j
      BY <3>1, ParentFacts
    <3> QED BY <1>1, <2>2, <3>1, <3>2
  <2> HIDE DEF end
  <2> QED BY <1>4, <1>5, <1>7, <2>1, <2>2 DEF UpOK
<1>9. /\ Fits(BubbleUp(start, end), new) /\ Len(BubbleUp(start, end).heap) = end
      /\ Heap(BubbleUp(start, end).heap)
  <2> HIDE DEF end
  <2> QED BY <1>8, RisenIs
<1>10. IsFiniteSet(DOMAIN new) /\ Cardinality(DOMAIN new) = end
  BY <1>6, FS_AddElement DEF Exact
<1>11. DOMAIN new \subseteq IndexKeys /\ new \in [DOMAIN new -> Expirations]
  BY <1>0, <1>6 DEF new, Later
<1> QED BY <1>3, <1>9, <1>10, <1>11 DEF Exact, new

LEMMA SetAgain ==
  ASSUME NEW ix, NEW exp, Exact(ix, exp), NEW k \in DOMAIN exp, NEW t \in Expirations
  PROVE  Exact(SetKey(ix, k, t), Later(exp, k, t))
<1> DEFINE e == [key |-> k, expiresAt |-> t]
           h == ix.heap
           N == Len(h)
           i == ix.at[k]
           start == Put([heap |-> h, at |-> ix.at], e, i)
           g == start.heap
           new == Later(exp, k, t)
<1>0. /\ Fits(ix, exp) /\ Heap(h) /\ DOMAIN exp \subseteq IndexKeys /\ exp \in [DOMAIN exp -> Expirations]
      /\ IsFiniteSet(DOMAIN exp) /\ N = Cardinality(DOMAIN exp)
  BY DEF Exact
<1>1. /\ h \in Seq(Entry) /\ DOMAIN ix.at = DOMAIN exp /\ N \in Nat
      /\ \A j \in DOMAIN exp : /\ ix.at[j] \in 1..N
                               /\ h[ix.at[j]].key = j /\ h[ix.at[j]].expiresAt = exp[j]
      /\ \A j \in 1..N : h[j] \in Entry /\ h[j].key \in DOMAIN exp /\ ix.at[h[j].key] = j
  BY <1>0, Positions, FitsFacts
<1>2. e \in Entry /\ e.key = k /\ e.expiresAt = t
  BY <1>0 DEF Entry
<1>3. /\ i \in 1..N /\ i \in Nat /\ h[i] \in Entry /\ h[i].key = k
  BY <1>1
<1>4. SetKey(ix, k, t) = IF t < h[i].expiresAt THEN BubbleUp(start, i) ELSE BubbleDown(start, i)
  <2>1. Put(ix, e, i) = start
    BY DEF Put
  <2> QED BY <1>1, <2>1 DEF SetKey
<1> HIDE DEF e
<1>5. DOMAIN new = DOMAIN exp /\ new[k] = t /\ \A j \in DOMAIN exp : j # k => new[j] = exp[j]
  BY DEF Later
<1> HIDE DEF i, new
<1>6. /\ Fits(start, new) /\ Len(g) = N
      /\ \A j \in 1..N : g[j] = IF j = i THEN e ELSE h[j]
  <2>1. ASSUME NEW j \in DOMAIN exp, j # e.key
        PROVE  ix.at[j] \in 1..N /\ ix.at[j] # i /\ h[ix.at[j]].key = j /\ h[ix.at[j]].expiresAt = new[j]
    BY <1>1, <1>2, <1>3, <1>5, <2>1
  <2>2. ASSUME NEW j \in 1..N, j # i
        PROVE  h[j].key \in DOMAIN exp /\ h[j].key # e.key /\ ix.at[h[j].key] = j
    <3>1. h[j].key \in DOMAIN exp /\ ix.at[h[j].key] = j
      BY <1>1
    <3>2. ix.at[k] = i
      BY DEF i
    <3> QED BY <1>2, <2>2, <3>1, <3>2
  <2>3. DOMAIN new = DOMAIN ix.at \cup {e.key} /\ new[e.key] = e.expiresAt
    BY <1>1, <1>2, <1>5
  <2>4. RoomFor(h, ix.at, e, i, new)
    BY <1>1, <1>2, <1>3, <2>1, <2>2, <2>3 DEF RoomFor
  <2> HIDE DEF h
  <2> QED BY <2>4, PutFits
<1>7. ASSUME NEW j \in 2..N
      PROVE  /\ j \in 1..N /\ Parent(j) \in 1..N /\ Parent(j) # j
             /\ AtMost(h[Parent(j)], h[j])
  <2>1. j \in Nat /\ j >= 2 /\ j <= N
    BY <1>1
  <2>2. Parent(j) \in Nat /\ 1 <= Parent(j) /\ Parent(j) < j
    BY <2>1, ParentFacts
  <2> QED BY <1>0, <1>1, <2>1, <2>2 DEF Heap
<1>8. i > 1 => i \in 2..N
  BY <1>1, <1>3
<1> HIDE DEF start, g, h, N
\* The children of the entry are not before its parent.
<1>9. ASSUME NEW j \in 2..N, Parent(j) = i, i > 1
      PROVE  AtMost(g[Parent(i)], g[j])
  <2>1. j # i /\ Parent(i) \in 1..N /\ Parent(i) # i
    BY <1>7, <1>8, <1>9
  <2>2. g[Parent(i)] = h[Parent(i)] /\ g[j] = h[j]
    BY <1>6, <1>7, <1>9, <2>1
  <2>3. AtMost(h[Parent(i)], h[i]) /\ AtMost(h[i], h[j])
    BY <1>7, <1>8, <1>9
  <2> QED BY <1>1, <1>3, <1>7, <2>1, <2>2, <2>3, LessFacts
<1>10. /\ t < h[i].expiresAt => AtMost(e, h[i])
       /\ ~(t < h[i].expiresAt) => AtMost(h[i], e)
  BY <1>2, <1>3, EntryTypes DEF AtMost, Less
<1> DEFINE done == SetKey(ix, k, t)
<1>11. Fits(done, new) /\ Len(done.heap) = N /\ Heap(done.heap)
  <2>1. CASE t < h[i].expiresAt
    <3>1. ASSUME NEW j \in 2..N, j # i PROVE AtMost(g[Parent(j)], g[j])
      <4>1. g[j] = h[j] /\ AtMost(h[Parent(j)], h[j])
        BY <1>6, <1>7, <3>1
      <4>2. CASE Parent(j) = i
        <5>1. g[Parent(j)] = e /\ AtMost(e, h[i])
          BY <1>6, <1>3, <1>10, <2>1, <4>2
        <5> QED BY <1>1, <1>2, <1>3, <1>7, <4>1, <4>2, <5>1, LessFacts
      <4>3. CASE Parent(j) # i
        BY <1>6, <1>7, <4>1, <4>3
      <4> QED BY <4>2, <4>3
    <3>2. UpOK([ix |-> start, i |-> i], new, N)
      BY <1>3, <1>6, <1>9, <3>1 DEF UpOK, g
    <3>3. done = BubbleUp(start, i)
      BY <1>4, <2>1
    <3> HIDE DEF done
    <3> QED BY <3>2, <3>3, RisenIs
  <2>2. CASE ~(t < h[i].expiresAt)
    <3>1. ASSUME NEW j \in 2..N, Parent(j) # i PROVE AtMost(g[Parent(j)], g[j])
      <4>1. g[Parent(j)] = h[Parent(j)] /\ AtMost(h[Parent(j)], h[j])
        BY <1>6, <1>7, <3>1
      <4>2. CASE j = i
        <5>1. g[j] = e /\ AtMost(h[i], e)
          BY <1>6, <1>3, <1>10, <2>2, <4>2
        <5> QED BY <1>1, <1>2, <1>3, <1>7, <4>1, <4>2, <5>1, LessFacts
      <4>3. CASE j # i
        BY <1>6, <1>7, <4>1, <4>3
      <4> QED BY <4>2, <4>3
    <3>2. DownOK([ix |-> start, i |-> i], new, N)
      BY <1>3, <1>6, <1>9, <3>1 DEF DownOK, g
    <3>3. done = BubbleDown(start, i)
      BY <1>4, <2>2
    <3> HIDE DEF done
    <3> QED BY <3>2, <3>3, SunkIs
  <2> QED BY <2>1, <2>2
<1>12. new \in [DOMAIN new -> Expirations]
  BY <1>0, <1>5 DEF new, Later
<1> HIDE DEF done
<1> QED BY <1>0, <1>5, <1>11, <1>12 DEF Exact, done, new

LEMMA DeleteFits ==
  ASSUME NEW ix, NEW exp, Exact(ix, exp), NEW k \in DOMAIN exp
  PROVE  Exact(DeleteKey(ix, k), Fewer(exp, k))
<1> DEFINE h == ix.heap
           N == Len(h)
           M == N - 1
           i == ix.at[k]
           last == h[N]
           short == SubSeq(h, 1, M)
           at == [j \in DOMAIN ix.at \ {k} |-> ix.at[j]]
           rest == [heap |-> short, at |-> at]
           start == Put([heap |-> short, at |-> at], last, i)
           new == Fewer(exp, k)
           done == DeleteKey(ix, k)
<1>0. /\ Fits(ix, exp) /\ Heap(h) /\ DOMAIN exp \subseteq IndexKeys /\ exp \in [DOMAIN exp -> Expirations]
      /\ IsFiniteSet(DOMAIN exp) /\ N = Cardinality(DOMAIN exp)
  BY DEF Exact
<1>1. /\ h \in Seq(Entry) /\ DOMAIN ix.at = DOMAIN exp /\ N \in Nat
      /\ \A j \in DOMAIN exp : /\ ix.at[j] \in 1..N
                               /\ h[ix.at[j]].key = j /\ h[ix.at[j]].expiresAt = exp[j]
      /\ \A j \in 1..N : h[j] \in Entry /\ h[j].key \in DOMAIN exp /\ ix.at[h[j].key] = j
  BY <1>0, Positions, FitsFacts
<1>2. /\ i \in 1..N /\ i \in Nat /\ h[i].key = k /\ N \in 1..N /\ last \in Entry
      /\ M \in Nat /\ M = N - 1 /\ \A j \in 1..M : j \in 1..N /\ j # N
  <2>1. i \in 1..N /\ h[i].key = k
    BY <1>1
  <2>2. N \in 1..N /\ M \in Nat /\ i \in Nat
    BY <1>1, <2>1
  <2> QED BY <1>1, <2>1, <2>2
<1>3. /\ short \in Seq(Entry) /\ Len(short) = M
      /\ \A j \in 1..M : short[j] = h[j]
  <2>1. \A j \in 1..M : h[j] \in Entry
    BY <1>1, <1>2
  <2> HIDE DEF M, h
  <2>a. M \in Nat
    BY <1>2
  <2>b. \A m \in Nat : /\ m \in Int /\ m - 1 + 1 = m /\ (IF 1 <= m THEN m - 1 + 1 ELSE 0) = m
                      /\ \A j \in 1..m : 1 + j - 1 = j
    OBVIOUS
  <2>2. 1 \in Int /\ M \in Int /\ M - 1 + 1 = M /\ (IF 1 <= M THEN M - 1 + 1 ELSE 0) = M
        /\ \A j \in 1..M : 1 + j - 1 = j
    BY <2>a, <2>b
  <2>3. /\ SubSeq(h, 1, M) \in Seq(Entry)
        /\ Len(SubSeq(h, 1, M)) = IF 1 <= M THEN M - 1 + 1 ELSE 0
        /\ \A j \in 1..(M - 1 + 1) : SubSeq(h, 1, M)[j] = h[1 + j - 1]
    BY <2>1, <2>2, SubSeqProperties
  <2> QED BY <2>2, <2>3
<1>4. /\ DOMAIN at = DOMAIN exp \ {k} /\ \A j \in DOMAIN exp \ {k} : at[j] = ix.at[j]
      /\ DOMAIN new = DOMAIN exp \ {k} /\ \A j \in DOMAIN exp \ {k} : new[j] = exp[j]
  BY <1>1 DEF Fewer
<1>5. done = IF i > M THEN rest
             ELSE IF i > 1 /\ Less(start.heap[i], start.heap[Parent(i)])
                  THEN BubbleUp(start, i) ELSE BubbleDown(start, i)
  <2>1. SubSeq(h, 1, N - 1) = short
    OBVIOUS
  <2> HIDE DEF short
  <2> QED BY <1>1, <1>3, <2>1 DEF DeleteKey, Settle, Parent
<1>6. /\ IsFiniteSet(DOMAIN new) /\ Cardinality(DOMAIN new) = M
      /\ DOMAIN new \subseteq IndexKeys /\ new \in [DOMAIN new -> Expirations]
  <2>1. IsFiniteSet(DOMAIN exp \ {k}) /\ Cardinality(DOMAIN exp \ {k}) = N - 1
    BY <1>0, FS_RemoveElement
  <2>2. new \in [DOMAIN exp \ {k} -> Expirations]
    BY <1>0 DEF Fewer
  <2> HIDE DEF new
  <2> QED BY <1>0, <1>4, <2>1, <2>2
<1> HIDE DEF i, last, short, at, new, start, M
\* Where the keys that stay are.
<1>7. ASSUME NEW j \in DOMAIN exp, j # k
      PROVE  /\ ix.at[j] \in 1..N /\ ix.at[j] # i /\ at[j] = ix.at[j]
             /\ (ix.at[j] # N \/ i = N) => ix.at[j] \in 1..M /\ short[at[j]] = h[at[j]]
  <2>1. ix.at[j] \in 1..N /\ at[j] = ix.at[j] /\ h[ix.at[j]].key = j
    BY <1>1, <1>4, <1>7
  <2>2. ix.at[j] # i
    BY <1>2, <1>7, <2>1
  <2>3. (ix.at[j] # N \/ i = N) => ix.at[j] \in 1..M
    BY <1>1, <1>2, <2>1, <2>2
  <2> QED BY <1>3, <2>1, <2>2, <2>3
<1>8. ASSUME NEW j \in 2..M
      PROVE  /\ j \in 1..M /\ Parent(j) \in 1..M /\ Parent(j) # j
             /\ j \in 1..N /\ Parent(j) \in 1..N
             /\ AtMost(h[Parent(j)], h[j])
  <2>1. j \in Nat /\ j >= 2 /\ j <= M /\ j \in 2..N
    BY <1>1, <1>2
  <2>2. Parent(j) \in Nat /\ 1 <= Parent(j) /\ Parent(j) < j
    BY <2>1, ParentFacts
  <2>3. AtMost(h[Parent(j)], h[j])
    BY <1>0, <2>1 DEF Heap
  <2>4. M \in Nat /\ N \in Nat /\ M <= N
    BY <1>1, <1>2
  <2> HIDE DEF N, h
  <2> QED BY <2>1, <2>2, <2>3, <2>4
<1>9. CASE i > M
  <2>1. i = N
    BY <1>1, <1>2, <1>9
  <2>2. at \in [DOMAIN new -> 1..M]
    <3>1. \A j \in DOMAIN new : at[j] \in 1..M
      BY <1>4, <1>7, <2>1
    <3>2. at = [j \in DOMAIN new |-> at[j]]
      BY <1>1, <1>4 DEF at
    <3> QED BY <3>1, <3>2
  <2>3. ASSUME NEW j \in DOMAIN new PROVE short[at[j]].key = j /\ short[at[j]].expiresAt = new[j]
    <3>1. j \in DOMAIN exp /\ j # k /\ new[j] = exp[j]
      BY <1>4
    <3>2. at[j] = ix.at[j] /\ short[at[j]] = h[ix.at[j]]
      BY <1>7, <2>1, <3>1
    <3>3. h[ix.at[j]].key = j /\ h[ix.at[j]].expiresAt = exp[j]
      BY <1>1, <3>1
    <3> QED BY <3>1, <3>2, <3>3, Zenon
  <2>4. ASSUME NEW j \in 1..M PROVE short[j].key \in DOMAIN new /\ at[short[j].key] = j
    <3>1. short[j] = h[j] /\ h[j].key \in DOMAIN exp /\ ix.at[h[j].key] = j /\ j # i
      BY <1>1, <1>2, <1>3, <2>1
    <3>2. h[j].key # k
      BY <3>1 DEF i
    <3> QED BY <1>4, <3>1, <3>2
  <2>5. Fits(rest, new)
    BY <1>3, <2>2, <2>3, <2>4 DEF Fits
  <2>6. Heap(short)
    <3>1. \A j \in 2..M : short[j] = h[j] /\ short[Parent(j)] = h[Parent(j)]
      BY <1>3, <1>8
    <3> QED BY <1>3, <1>8, <3>1 DEF Heap
  <2>7. done.heap = short /\ done = rest
    BY <1>5, <1>9
  <2> HIDE DEF done, rest
  <2> QED BY <1>3, <1>6, <2>5, <2>6, <2>7 DEF Exact, done, new
<1>10. CASE ~(i > M)
  <2> DEFINE g == start.heap
  <2>1. i \in 1..M /\ i # N
    BY <1>1, <1>2, <1>10
  <2>2. last.key \in DOMAIN exp /\ ix.at[last.key] = N /\ last.key # k
    BY <1>1, <1>2, <2>1 DEF last, i
  <2>3. /\ Fits(start, new) /\ Len(g) = M
        /\ \A j \in 1..M : g[j] = IF j = i THEN last ELSE short[j]
    <3>1. ASSUME NEW j \in DOMAIN at, j # last.key
          PROVE  at[j] \in 1..M /\ at[j] # i /\ short[at[j]].key = j /\ short[at[j]].expiresAt = new[j]
      <4>1. j \in DOMAIN exp /\ j # k
        BY <1>4
      <4>2. ix.at[j] # N
        BY <1>1, <2>2, <3>1, <4>1 DEF last
      <4> QED BY <1>1, <1>4, <1>7, <4>1, <4>2
    <3>2. ASSUME NEW j \in 1..M, j # i
          PROVE  short[j].key \in DOMAIN at /\ short[j].key # last.key /\ at[short[j].key] = j
      <4>1. short[j] = h[j] /\ h[j].key \in DOMAIN exp /\ ix.at[h[j].key] = j /\ j # N
        BY <1>1, <1>2, <1>3
      <4>2. h[j].key # k
        BY <3>2, <4>1 DEF i
      <4> QED BY <1>4, <2>2, <4>1, <4>2
    <3>3. DOMAIN new = DOMAIN at \cup {last.key} /\ new[last.key] = last.expiresAt
      BY <1>1, <1>4, <2>2 DEF last
    <3>4. RoomFor(short, at, last, i, new)
      BY <1>2, <1>3, <2>1, <3>1, <3>2, <3>3 DEF RoomFor
    <3> QED BY <1>3, <3>4, PutFits DEF start
  <2>4. i > 1 => i \in 2..M
    BY <1>2, <2>1
  <2> HIDE DEF g, h, N, done
  <2>5. ASSUME NEW j \in 2..M, j # i, Parent(j) # i PROVE AtMost(g[Parent(j)], g[j])
    BY <1>3, <1>8, <2>3, <2>5
  \* The children of the entry are not before its parent.
  <2>6. ASSUME NEW j \in 2..M, Parent(j) = i, i > 1 PROVE AtMost(g[Parent(i)], g[j])
    <3>1. j # i /\ Parent(i) \in 1..M /\ Parent(i) # i
      BY <1>8, <2>4, <2>6
    <3>2. g[Parent(i)] = h[Parent(i)] /\ g[j] = h[j]
      BY <1>3, <1>8, <2>3, <2>6, <3>1
    <3>3. AtMost(h[Parent(i)], h[i]) /\ AtMost(h[i], h[j])
      BY <1>8, <2>4, <2>6
    <3> QED BY <1>1, <1>2, <1>8, <2>4, <2>6, <3>1, <3>2, <3>3, LessFacts
  <2>7. CASE i > 1 /\ Less(g[i], g[Parent(i)])
    <3>1. ASSUME NEW j \in 2..M, Parent(j) = i PROVE AtMost(g[i], g[j])
      <4>1. AtMost(g[Parent(i)], g[j])
        BY <2>6, <2>7, <3>1
      <4>2. g[i] \in Entry /\ g[j] \in Entry /\ g[Parent(i)] \in Entry
        BY <1>1, <1>2, <1>3, <1>8, <2>1, <2>3, <2>4, <2>7
      <4> QED BY <2>7, <4>1, <4>2, LessFacts
    <3>2. UpOK([ix |-> start, i |-> i], new, M)
      BY <2>1, <2>3, <2>5, <2>6, <3>1 DEF UpOK, g
    <3>3. done = BubbleUp(start, i)
      BY <1>5, <1>10, <2>7 DEF g
    <3>4. Fits(done, new) /\ Len(done.heap) = M /\ Heap(done.heap)
      BY <3>2, <3>3, RisenIs
    <3> QED BY <1>6, <3>4 DEF Exact, done, new
  <2>8. CASE ~(i > 1 /\ Less(g[i], g[Parent(i)]))
    <3>1. ASSUME NEW j \in 2..M, j = i PROVE AtMost(g[Parent(j)], g[j])
      BY <2>8, <3>1 DEF AtMost
    <3>2. DownOK([ix |-> start, i |-> i], new, M)
      BY <2>1, <2>3, <2>5, <2>6, <3>1 DEF DownOK, g
    <3>3. done = BubbleDown(start, i)
      BY <1>5, <1>10, <2>8 DEF g
    <3>4. Fits(done, new) /\ Len(done.heap) = M /\ Heap(done.heap)
      BY <3>2, <3>3, SunkIs
    <3> QED BY <1>6, <3>4 DEF Exact, done, new
  <2> QED BY <2>7, <2>8
<1> QED BY <1>9, <1>10

LEMMA ExactHolds ==
  ASSUME Exact(entries, expected)
  PROVE  IndexIsExact
<1> DEFINE heap == entries.heap
<1>1. /\ Fits(entries, expected) /\ Heap(heap)
      /\ expected \in [DOMAIN expected -> Expirations] /\ Len(heap) = Cardinality(DOMAIN expected)
  BY DEF Exact
<1>2. /\ heap \in Seq(Entry) /\ DOMAIN entries.at = DOMAIN expected
      /\ \A k \in DOMAIN expected : /\ entries.at[k] \in 1..Len(heap)
                                    /\ heap[entries.at[k]].key = k
                                    /\ heap[entries.at[k]].expiresAt = expected[k]
  BY <1>1, Positions
<1>3. DOMAIN heap = 1..Len(heap) /\ \A i \in 1..Len(heap) : heap[i] \in Entry
  BY <1>2, LenProperties
<1>4. ASSUME NEW k \in DOMAIN expected
      PROVE  heap[entries.at[k]] = [key |-> k, expiresAt |-> expected[k]]
  <2> DEFINE e == heap[entries.at[k]]
  <2>1. e \in Entry /\ e.key = k /\ e.expiresAt = expected[k]
    BY <1>2, <1>3
  <2>2. e = [key |-> e.key, expiresAt |-> e.expiresAt]
    BY <2>1 DEF Entry
  <2> HIDE DEF e
  <2>3. e = [key |-> k, expiresAt |-> expected[k]]
    BY <2>1, <2>2
  <2> QED BY <2>3 DEF e
<1>5. ASSUME NEW i \in DOMAIN heap
      PROVE  heap[1].expiresAt <= heap[i].expiresAt
  <2>1. Len(heap) \in Nat /\ i \in 1..Len(heap) /\ 1 \in 1..Len(heap)
    BY <1>2, <1>3, LenProperties
  <2>2. AtMost(heap[1], heap[i])
    BY <1>1, <1>2, <2>1, FirstIsLeast
  <2>3. heap[1] \in Entry /\ heap[i] \in Entry
    BY <1>3, <2>1
  <2> HIDE DEF heap
  <2> QED BY <2>2, <2>3, LessFacts
<1> QED BY <1>1, <1>2, <1>4, <1>5 DEF IndexIsExact

LEMMA ExactInit ==
  ASSUME IndexInit
  PROVE  Exact(entries, expected)
<1> DEFINE none == [k \in {} |-> 0]
<1>1. entries.heap = <<>> /\ entries.at = none /\ expected = none
  BY DEF IndexInit
<1>2. <<>> \in Seq(Entry) /\ Len(<<>>) = 0
  OBVIOUS
<1>3. DOMAIN none = {} /\ none \in [{} -> Expirations] /\ none \in [{} -> 1..0]
  OBVIOUS
<1>4. IsFiniteSet({}) /\ Cardinality({}) = 0
  BY FS_EmptySet
<1> HIDE DEF none
<1>5. Fits(entries, expected)
  BY <1>1, <1>2, <1>3 DEF Fits
<1>6. Heap(entries.heap)
  BY <1>1, <1>2 DEF Heap
<1> QED BY <1>1, <1>2, <1>3, <1>4, <1>5, <1>6 DEF Exact

LEMMA ExactNext ==
  ASSUME Exact(entries, expected), IndexNext
  PROVE  Exact(entries, expected)'
<1>0. DOMAIN entries.at = DOMAIN expected /\ expected \in [DOMAIN expected -> Expirations]
  BY Positions DEF Exact
<1>1. PICK k \in IndexKeys :
        \/ \E t \in Expirations : entries' = SetKey(entries, k, t) /\ expected' = Later(expected, k, t)
        \/ entries' = DeleteKey(entries, k) /\ expected' = Fewer(expected, k)
  BY DEF IndexNext, Later, Fewer
<1>2. ASSUME NEW t \in Expirations,
             entries' = SetKey(entries, k, t), expected' = Later(expected, k, t)
      PROVE  Exact(entries', expected')
  <2>1. CASE k \in DOMAIN expected
    BY <1>2, <2>1, SetAgain
  <2>2. CASE k \notin DOMAIN expected
    BY <1>2, <2>2, SetNew
  <2> QED BY <2>1, <2>2
<1>3. ASSUME entries' = DeleteKey(entries, k), expected' = Fewer(expected, k)
      PROVE  Exact(entries', expected')
  <2>1. CASE k \in DOMAIN expected
    BY <1>3, <2>1, DeleteFits
  <2>2. CASE k \notin DOMAIN expected
    <3>1. entries' = entries
      BY <1>0, <1>3, <2>2 DEF DeleteKey
    <3>2. DOMAIN expected \ {k} = DOMAIN expected
      BY <2>2
    <3>3. expected' = expected
      BY <1>0, <1>3, <3>2 DEF Fewer
    <3> QED BY <3>1, <3>3
  <2> QED BY <2>1, <2>2
<1>4. Exact(entries', expected')
  BY <1>1, <1>2, <1>3
<1> QED BY <1>4 DEF Exact, Fits, Heap

\* The index of expiries is exact, whatever is set and deleted in it and in whatever order, for
\* every set of keys and of expiries: TLC checks it on few of each.
THEOREM IndexStaysExact == IndexSpec => []IndexIsExact
<1>1. IndexInit => Exact(entries, expected)
  BY ExactInit
<1>2. Exact(entries, expected) /\ [IndexNext]_indexVars => Exact(entries, expected)'
  <2>1. Exact(entries, expected) /\ UNCHANGED indexVars => Exact(entries, expected)'
    BY DEF indexVars, Exact, Fits, Heap
  <2> QED BY <2>1, ExactNext
<1>3. Exact(entries, expected) => IndexIsExact
  BY ExactHolds
<1> QED BY <1>1, <1>2, <1>3, PTL DEF IndexSpec

-----------------------------------------------------------------------------
(* The stores together *)

\* What holds of each part; a part that a behaviour is not about is as it began.
StoresInv ==
  /\ part \in {"states", "sessions", "index", "records"}
  /\ part = "sessions" => SessionInv
  /\ part # "sessions" => SessionInit
  /\ part = "index" => Exact(entries, expected)

LEMMA NoLimitsAtFirst ==
  ASSUME SessionInit
  PROVE  SessionLimitsHold
<1>1. \A s \in Sessions : ~Live(s)
  BY DEF SessionInit, Live, Stored
<1>2. {s \in Sessions : Live(s) /\ by[s] # NoSubject} = {} /\ \A u \in Subjects : Admitted(u) = {}
  BY <1>1 DEF Admitted
<1>3. limits.all \in Nat /\ limits.subject \in Nat
  <2>1. limits \in [all : Nat \ {0}, subject : Nat \ {0}]
    BY SessionsAssumption DEF SessionInit
  <2> QED BY <2>1
<1>4. Cardinality({}) = 0
  BY FS_EmptySet
<1>5. \A u \in Subjects : Total(created[u]) = 0
  BY TotalOfNothing DEF SessionInit
<1>6. MaxCreations \in Nat
  BY Constants
<1>7. \A u \in Subjects \ overtaken :
        Total(created[u]) <= IF backend = "postgres" THEN 2 * MaxCreations ELSE MaxCreations
  BY <1>5, <1>6
<1>8. /\ Cardinality({s \in Sessions : Live(s) /\ by[s] # NoSubject}) <= limits.all
      /\ \A u \in Subjects : Cardinality(Admitted(u)) <= limits.subject
  <2>1. 0 <= limits.all /\ 0 <= limits.subject
    BY <1>3
  <2> QED BY <1>2, <1>4, <2>1
<1> QED BY <1>7, <1>8 DEF SessionLimitsHold

LEMMA StoresInitInv ==
  ASSUME StoresInit
  PROVE  StoresInv
<1>1. /\ part \in {"states", "sessions", "index", "records"}
      /\ backend \in {"memory", "postgres", "redis"} /\ clock = 0
      /\ SessionInit /\ IndexInit
  BY DEF StoresInit, Init
<1> QED BY <1>1, SessionInitInv, ExactInit DEF StoresInv

LEMMA SessionInitStays ==
  ASSUME SessionInit, UNCHANGED browserVars
  PROVE  SessionInit'
BY DEF SessionInit, browserVars, sessionVars, bookVars, lockVars, sessionHistory

LEMMA ExactStays ==
  ASSUME Exact(entries, expected), UNCHANGED indexVars
  PROVE  Exact(entries, expected)'
BY DEF indexVars, Exact, Fits, Heap

LEMMA StoresNextInv == StoresInv /\ [StoresNext]_storesVars => StoresInv'
<1> SUFFICES ASSUME StoresInv, [StoresNext]_storesVars PROVE StoresInv'
  OBVIOUS
<1>1. CASE part = "sessions"
  <2>1. part' = part /\ [SessionStep]_sessionState
    BY <1>1 DEF StoresNext, storesVars, sessionState
  <2>2. SessionInv'
    BY <1>1, <2>1, SessionStepInv DEF StoresInv
  <2> QED BY <1>1, <2>1, <2>2 DEF StoresInv
<1>2. CASE part # "sessions"
  <2>1. part' = part /\ UNCHANGED browserVars
    BY <1>2 DEF StoresNext, storesVars
  <2>2. SessionInit'
    BY <1>2, <2>1, SessionInitStays DEF StoresInv
  <2>3. part = "index" => Exact(entries, expected)'
    <3> SUFFICES ASSUME part = "index" PROVE Exact(entries, expected)'
      OBVIOUS
    <3>1. IndexNext \/ UNCHANGED indexVars
      BY DEF StoresNext, storesVars
    <3>2. Exact(entries, expected)
      BY DEF StoresInv
    <3> QED BY <3>1, <3>2, ExactNext, ExactStays
  <2> QED BY <1>2, <2>1, <2>2, <2>3 DEF StoresInv
<1> QED BY <1>1, <1>2

LEMMA StoresInvHolds == StoresSpec => []StoresInv
<1>1. StoresInit => StoresInv
  BY StoresInitInv
<1> QED BY <1>1, StoresNextInv, PTL DEF StoresSpec

\* The index of expiries, the counts and the registries agree with the records whatever the
\* stores are asked to do.
THEOREM StoresKeepBooks == StoresSpec => []IndexesAgree
<1>1. StoresInv => IndexesAgree
  BY BooksFollow, ExactHolds DEF StoresInv, IndexesAgree
<1> QED BY <1>1, StoresInvHolds, PTL

\* The limits on the sessions and on the creations of clients hold in the stores together.
THEOREM StoresKeepLimits == StoresSpec => []SessionLimitsHold
<1>1. StoresInv => SessionLimitsHold
  BY LimitsFollow, NoLimitsAtFirst DEF StoresInv
<1> QED BY <1>1, StoresInvHolds, PTL

=============================================================================
