------------------------- MODULE BrowserAuthProofs -------------------------
(***************************************************************************)
(* Theorems about BrowserAuth, for any sets of requests, sign-ins and      *)
(* sessions: what a request holds at each of its steps (Station), which    *)
(* records a sign-in leaves behind and in whose hands they are, and what   *)
(* follows for retries, replays, crashes and logouts.                      *)
(***************************************************************************)
EXTENDS BrowserAuth, TLAPS

\* The steps at which a request has a session, and those at which it has none yet.
Having ==
  {"viewer", "viewing", "bind", "binding", "attach", "complete",
   "unattach", "unattaching", "discard", "discarding", "keep"}

NotYet == {"claim", "resolve", "take", "pending", "exchange", "remote", "restore"}

\* What a request holds at each step, and the logout request.
Station(k) ==
  /\ pc[k] = "idle" => signIn[k] = None /\ sess[k] = None
  /\ pc[k] # "idle" => signIn[k] # None
  /\ pc[k] \in {"claim", "resolve", "exchange", "complete", "release", "consume", "forget"} =>
       signIn[k] \in OAuth
  /\ pc[k] \in {"take", "restore"} => signIn[k] \in Challenges
  /\ pc[k] \in Having => sess[k] # None
  /\ pc[k] \in NotYet => sess[k] = None
  /\ pc[k] \in {"idle", "take", "exchange", "remote", "restore"} => pending[k] = None
  /\ pc[k] = "pending" => pending[k] # None

Stations ==
  /\ \A k \in Requests : Station(k)
  /\ logout.pc \in {"revoke", "read", "delete"} => logout.sess \in signedOut

-----------------------------------------------------------------------------
(* How requests move *)

\* The part of the type invariant that is about the requests.
RequestTypes ==
  /\ pc \in [Requests -> Steps]
  /\ signIn \in [Requests -> SignIns \cup {None}]
  /\ claim \in [Requests -> Nat]
  /\ pending \in [Requests -> Auths \cup {None}]
  /\ seen \in [Requests -> Nat]
  /\ sess \in [Requests -> Auths \cup {None}]
  /\ arev \in [Requests -> 0..MaxRevision]

\* A request stays where it is.
Stays(k) ==
  /\ pc'[k] = pc[k] /\ signIn'[k] = signIn[k] /\ claim'[k] = claim[k]
  /\ pending'[k] = pending[k] /\ seen'[k] = seen[k] /\ sess'[k] = sess[k]
  /\ arev'[k] = arev[k]

OthersStay(k) == \A j \in Requests : j # k => Stays(j)

\* It goes on with the sign-in and the session it has, or it ends.
Goes(k, step) ==
  /\ pc'[k] = step /\ signIn'[k] = signIn[k]
  /\ pending'[k] = pending[k] /\ seen'[k] = seen[k] /\ sess'[k] = sess[k]

Ends(k) ==
  /\ pc'[k] = "idle" /\ signIn'[k] = None
  /\ pending'[k] = None /\ seen'[k] = 0 /\ sess'[k] = None

LEMMA GotoMoves ==
  ASSUME RequestTypes, NEW k \in Requests, NEW step \in Steps, Goto(k, step)
  PROVE  RequestTypes' /\ OthersStay(k) /\ Goes(k, step)
<1>1. RequestTypes'
  BY ConstantsAssumption DEF Goto, RequestTypes
<1>2. OthersStay(k) /\ Goes(k, step)
  BY DEF Goto, RequestTypes, OthersStay, Stays, Goes
<1>3. QED
  BY <1>1, <1>2

LEMMA FinishMoves ==
  ASSUME RequestTypes, NEW k \in Requests, Finish(k)
  PROVE  RequestTypes' /\ OthersStay(k) /\ Ends(k)
<1>1. RequestTypes'
  BY ConstantsAssumption DEF Finish, RequestTypes, Steps
<1>2. OthersStay(k) /\ Ends(k)
  BY DEF Finish, RequestTypes, OthersStay, Stays, Ends
<1>3. QED
  BY <1>1, <1>2

\* Where an error leads: to the end of the sign-in, with or without a session that has
\* to be deleted first ...
Closes(k) ==
  \/ signIn[k] \in OAuth /\ Goes(k, "consume")
  \/ signIn[k] \notin OAuth /\ Ends(k)

Fails(k) ==
  \/ sess[k] = None /\ Closes(k)
  \/ sess[k] # None /\ Goes(k, "discard")

\* ... or to another attempt.
FailsForNow(k) ==
  \/ sess[k] # None /\ Goes(k, "keep")
  \/ sess[k] = None /\ signIn[k] \in OAuth /\ Goes(k, "release")
  \/ sess[k] = None /\ signIn[k] \notin OAuth /\ Goes(k, "restore")

LEMMA FailuresMove ==
  ASSUME RequestTypes, NEW k \in Requests
  PROVE  /\ Close(k) => RequestTypes' /\ OthersStay(k) /\ Closes(k)
         /\ Fail(k) => RequestTypes' /\ OthersStay(k) /\ Fails(k)
         /\ FailForNow(k) => RequestTypes' /\ OthersStay(k) /\ FailsForNow(k)
<1>1. \A step \in {"consume", "discard", "keep", "release", "restore"} : step \in Steps
  BY DEF Steps
<1>2. ASSUME Close(k)
      PROVE  RequestTypes' /\ OthersStay(k) /\ Closes(k)
  BY <1>1, <1>2, GotoMoves, FinishMoves DEF Close, Closes
<1>3. ASSUME Fail(k)
      PROVE  RequestTypes' /\ OthersStay(k) /\ Fails(k)
  BY <1>1, <1>2, <1>3, GotoMoves DEF Fail, Fails
<1>4. ASSUME FailForNow(k)
      PROVE  RequestTypes' /\ OthersStay(k) /\ FailsForNow(k)
  <2>1. CASE sess[k] # None
    BY <1>1, <1>4, <2>1, GotoMoves DEF FailForNow, FailsForNow
  <2>2. CASE sess[k] = None /\ signIn[k] \in OAuth
    BY <1>1, <1>4, <2>2, GotoMoves DEF FailForNow, FailsForNow
  <2>3. CASE sess[k] = None /\ signIn[k] \notin OAuth
    BY <1>1, <1>4, <2>3, GotoMoves DEF FailForNow, FailsForNow
  <2>4. QED
    BY <2>1, <2>2, <2>3
<1>5. QED
  BY <1>2, <1>3, <1>4

\* What the single steps make of the request that takes them.
LEMMA TypesOfRequests == TypeOK => RequestTypes
BY DEF TypeOK, RequestTypes

\* The revision of an anonymous browser session, as the store or the cookie has it.
Sees(rev) == \E found \in Resolvable : IsAnonymous(found) /\ rev = found.rev

LEMMA ResolvedRevisions ==
  ASSUME TypeOK, NEW found \in Resolvable, IsAnonymous(found)
  PROVE  found.rev \in Nat
<1>1. CASE found = browser
  BY <1>1 DEF TypeOK, IsAnonymous
<1>2. CASE found = Anonymous
  BY <1>2 DEF Anonymous
<1>3. QED
  BY <1>1, <1>2 DEF Resolvable, IsAnonymous

\* ... before it holds a sign-in,
LEMMA FirstMoves ==
  ASSUME TypeOK, NEW k \in Requests
  PROVE  /\ \A s \in SignIns : ReadMetadata(k, s) =>
              /\ RequestTypes' /\ OthersStay(k)
              /\ pc'[k] = "claim" /\ signIn'[k] = s /\ pending'[k] = meta[s].pending
              /\ seen'[k] = seen[k] /\ sess'[k] = sess[k]
         /\ \A s \in SignIns : ResolveComplete(k, s) =>
              /\ RequestTypes' /\ OthersStay(k)
              /\ pc'[k] = "take" /\ signIn'[k] = s /\ pending'[k] = pending[k]
              /\ Sees(seen'[k]) /\ sess'[k] = sess[k]
<1>1. ASSUME NEW s \in SignIns, ReadMetadata(k, s)
      PROVE  /\ RequestTypes' /\ OthersStay(k)
             /\ pc'[k] = "claim" /\ signIn'[k] = s /\ pending'[k] = meta[s].pending
             /\ seen'[k] = seen[k] /\ sess'[k] = sess[k]
  <2>1. meta[s].pending \in Auths \cup {None}
    BY <1>1 DEF ReadMetadata, TypeOK, Metadata
  <2>2. RequestTypes'
    BY <1>1, <2>1, TypesOfRequests DEF ReadMetadata, RequestTypes, Steps
  <2>3. OthersStay(k)
    BY <1>1, TypesOfRequests DEF ReadMetadata, RequestTypes, OthersStay, Stays
  <2>4. QED
    BY <1>1, <2>2, <2>3, TypesOfRequests DEF ReadMetadata, RequestTypes
<1>2. ASSUME NEW s \in SignIns, ResolveComplete(k, s)
      PROVE  /\ RequestTypes' /\ OthersStay(k)
             /\ pc'[k] = "take" /\ signIn'[k] = s /\ pending'[k] = pending[k]
             /\ Sees(seen'[k]) /\ sess'[k] = sess[k]
  <2>1. PICK found \in Resolvable : IsAnonymous(found) /\ seen' = [seen EXCEPT ![k] = found.rev]
    BY <1>2 DEF ResolveComplete
  <2>2. found.rev \in Nat
    BY <2>1, ResolvedRevisions
  <2>3. RequestTypes'
    BY <1>2, <2>1, <2>2, TypesOfRequests DEF ResolveComplete, RequestTypes, Steps
  <2>4. OthersStay(k)
    BY <1>2, <2>1, TypesOfRequests DEF ResolveComplete, RequestTypes, OthersStay, Stays
  <2>5. Sees(seen'[k])
    BY <2>1, TypesOfRequests DEF RequestTypes, Sees
  <2>6. QED
    BY <1>2, <2>3, <2>4, <2>5, TypesOfRequests DEF ResolveComplete, RequestTypes
<1>3. QED
  BY <1>1, <1>2

\* ... as it gets hold of one,
LEMMA ClaimMoves ==
  ASSUME TypeOK, Stations, NEW k \in Requests, ClaimState(k)
  PROVE  /\ RequestTypes' /\ OthersStay(k)
         /\ IF Claimable(signIn[k]) THEN Goes(k, "resolve") ELSE Ends(k)
<1>1. CASE Claimable(signIn[k])
  <2>1. oauth[signIn[k]].rev + 1 \in Nat
    <3>1. signIn[k] \in OAuth
      BY DEF ClaimState, Stations, Station
    <3>2. oauth[signIn[k]] \in StateRecords
      BY <1>1, <3>1 DEF TypeOK, Claimable
    <3>3. QED
      BY <3>2, ConstantsAssumption DEF StateRecords
  <2>2. RequestTypes'
    BY <1>1, <2>1, TypesOfRequests DEF ClaimState, RequestTypes, Steps
  <2>3. OthersStay(k) /\ Goes(k, "resolve")
    BY <1>1, TypesOfRequests DEF ClaimState, RequestTypes, OthersStay, Stays, Goes
  <2>4. QED
    BY <1>1, <2>2, <2>3
<1>2. CASE ~Claimable(signIn[k])
  BY <1>2, FinishMoves, TypesOfRequests DEF ClaimState
<1>3. QED
  BY <1>1, <1>2

LEMMA ResolveMoves ==
  ASSUME TypeOK, NEW k \in Requests, Resolve(k)
  PROVE  /\ RequestTypes' /\ OthersStay(k)
         /\ \/ /\ pc'[k] = IF pending[k] = None THEN "exchange" ELSE "pending"
               /\ signIn'[k] = signIn[k] /\ pending'[k] = pending[k]
               /\ Sees(seen'[k]) /\ sess'[k] = sess[k]
            \/ /\ Goes(k, "consume")
               /\ mishaps' = IF pending[k] = None THEN mishaps ELSE mishaps \cup {"abandon"}
<1>1. ASSUME NEW found \in Resolvable, IsAnonymous(found),
             seen' = [seen EXCEPT ![k] = found.rev],
             pc' = [pc EXCEPT ![k] = IF pending[k] = None THEN "exchange" ELSE "pending"],
             UNCHANGED <<signIn, claim, pending, sess, arev>>
      PROVE  /\ RequestTypes' /\ OthersStay(k)
             /\ pc'[k] = IF pending[k] = None THEN "exchange" ELSE "pending"
             /\ signIn'[k] = signIn[k] /\ pending'[k] = pending[k]
             /\ Sees(seen'[k]) /\ sess'[k] = sess[k]
  <2>1. found.rev \in Nat
    BY <1>1, ResolvedRevisions
  <2>2. RequestTypes'
    BY <1>1, <2>1, TypesOfRequests DEF RequestTypes, Steps
  <2>3. OthersStay(k)
    BY <1>1, TypesOfRequests DEF RequestTypes, OthersStay, Stays
  <2>4. Sees(seen'[k])
    BY <1>1, TypesOfRequests DEF RequestTypes, Sees
  <2>5. QED
    BY <1>1, <2>2, <2>3, <2>4, TypesOfRequests DEF RequestTypes
<1>2. CASE /\ Goto(k, "consume")
           /\ mishaps' = IF pending[k] = None THEN mishaps ELSE mishaps \cup {"abandon"}
  <2>1. "consume" \in Steps
    BY DEF Steps
  <2>2. QED
    BY <1>2, <2>1, GotoMoves, TypesOfRequests
<1>3. QED
  BY <1>1, <1>2 DEF Resolve

LEMMA TakeMoves ==
  ASSUME TypeOK, Stations, NEW k \in Requests, TakeBinding(k)
  PROVE  /\ RequestTypes' /\ OthersStay(k)
         /\ \/ /\ meta[signIn[k]] # None
               /\ meta' = [meta EXCEPT ![signIn[k]] = None]
               /\ pc'[k] = IF meta[signIn[k]].pending = None THEN "remote" ELSE "pending"
               /\ signIn'[k] = signIn[k] /\ pending'[k] = meta[signIn[k]].pending
               /\ seen'[k] = seen[k] /\ sess'[k] = sess[k]
            \/ /\ Ends(k)
               /\ \/ meta' = meta
                  \/ /\ meta' = [meta EXCEPT ![signIn[k]] = None]
                     /\ meta[signIn[k]] # None
                     /\ meta[signIn[k]].pending # None => mishaps' # {}
<1>1. CASE /\ Finish(k)
           /\ mishaps' = IF Live(signIn[k]) /\ meta[signIn[k]] # None
                            /\ meta[signIn[k]].pending # None
                         THEN mishaps \cup {"loss"} ELSE mishaps
  <2>1. RequestTypes' /\ OthersStay(k) /\ Ends(k)
    BY <1>1, FinishMoves, TypesOfRequests
  <2>2. CASE Live(signIn[k]) /\ meta[signIn[k]] # None
    BY <1>1, <2>1, <2>2 DEF TakeBinding
  <2>3. CASE ~(Live(signIn[k]) /\ meta[signIn[k]] # None)
    BY <2>1, <2>3 DEF TakeBinding
  <2>4. QED
    BY <2>2, <2>3
<1>2. CASE /\ Live(signIn[k]) /\ meta[signIn[k]] # None
           /\ pending' = [pending EXCEPT ![k] = meta[signIn[k]].pending]
           /\ pc' = [pc EXCEPT ![k] =
                       IF meta[signIn[k]].pending = None THEN "remote" ELSE "pending"]
           /\ UNCHANGED <<signIn, claim, seen, sess, arev, mishaps>>
  <2>1. /\ meta[signIn[k]] # None
        /\ meta' = [meta EXCEPT ![signIn[k]] = None]
        /\ pending' = [pending EXCEPT ![k] = meta[signIn[k]].pending]
        /\ pc' = [pc EXCEPT ![k] = IF meta[signIn[k]].pending = None THEN "remote" ELSE "pending"]
        /\ UNCHANGED <<signIn, claim, seen, sess, arev>>
    BY <1>2 DEF TakeBinding
  <2>2. signIn[k] \in SignIns
    BY DEF TakeBinding, Stations, Station, SignIns
  <2>3. meta[signIn[k]].pending \in Auths \cup {None}
    BY <2>1, <2>2 DEF TypeOK, Metadata
  <2>4. RequestTypes'
    BY <2>1, <2>3, TypesOfRequests DEF RequestTypes, Steps
  <2>5. QED
    BY <2>1, <2>4, TypesOfRequests DEF RequestTypes, OthersStay, Stays
<1>3. QED
  BY <1>1, <1>2 DEF TakeBinding

LEMMA GetPendingMoves ==
  ASSUME TypeOK, Stations, NEW k \in Requests, GetPending(k)
  PROVE  /\ RequestTypes' /\ OthersStay(k)
         /\ \/ /\ auth[pending[k]] # None
               /\ pc'[k] = "viewer" /\ signIn'[k] = signIn[k] /\ pending'[k] = pending[k]
               /\ seen'[k] = seen[k] /\ sess'[k] = pending[k]
            \/ auth[pending[k]] = None /\ Closes(k)
<1>1. CASE auth[pending[k]] # None
  <2>1. RequestTypes'
    BY <1>1, TypesOfRequests DEF GetPending, RequestTypes, Steps
  <2>2. QED
    BY <1>1, <2>1, TypesOfRequests DEF GetPending, RequestTypes, OthersStay, Stays
<1>2. CASE auth[pending[k]] = None
  <2>1. sess[k] = None
    BY DEF GetPending, Stations, Station, NotYet
  <2>2. QED
    BY <1>2, <2>1, FailuresMove, TypesOfRequests DEF GetPending, Fails
<1>3. QED
  BY <1>1, <1>2

\* ... as it gets a session,
LEMMA SessionMoves ==
  ASSUME TypeOK, Stations, NEW k \in Requests
  PROVE  /\ ConsumeCallbackState(k) =>
              /\ RequestTypes' /\ OthersStay(k)
              /\ IF signIn[k] \in callback /\ Live(signIn[k])
                 THEN Goes(k, "remote") ELSE Closes(k)
         /\ Exchange(k) =>
              /\ RequestTypes' /\ OthersStay(k)
              /\ \/ /\ \E a \in Auths :
                         /\ origin[a] = None /\ origin' = [origin EXCEPT ![a] = signIn[k]]
                         /\ auth' = [auth EXCEPT ![a] = 0] /\ sess'[k] = a
                    /\ pc'[k] = "viewer" /\ signIn'[k] = signIn[k]
                    /\ pending'[k] = pending[k] /\ seen'[k] = seen[k]
                 \/ /\ UNCHANGED <<auth, origin>>
                    /\ Closes(k) \/ FailsForNow(k)
<1>1. ASSUME ConsumeCallbackState(k)
      PROVE  /\ RequestTypes' /\ OthersStay(k)
             /\ IF signIn[k] \in callback /\ Live(signIn[k])
                THEN Goes(k, "remote") ELSE Closes(k)
  <2>1. CASE signIn[k] \in callback /\ Live(signIn[k])
    <3>1. "remote" \in Steps /\ Goto(k, "remote")
      BY <1>1, <2>1 DEF ConsumeCallbackState, Steps
    <3>2. QED
      BY <2>1, <3>1, GotoMoves, TypesOfRequests
  <2>2. CASE ~(signIn[k] \in callback /\ Live(signIn[k]))
    <3>1. Fail(k) /\ sess[k] = None
      BY <1>1, <2>2 DEF ConsumeCallbackState, Stations, Station, NotYet
    <3>2. QED
      BY <2>2, <3>1, FailuresMove, TypesOfRequests DEF Fails
  <2>3. QED
    BY <2>1, <2>2
<1>2. ASSUME Exchange(k)
      PROVE  /\ RequestTypes' /\ OthersStay(k)
             /\ \/ /\ \E a \in Auths :
                        /\ origin[a] = None /\ origin' = [origin EXCEPT ![a] = signIn[k]]
                        /\ auth' = [auth EXCEPT ![a] = 0] /\ sess'[k] = a
                   /\ pc'[k] = "viewer" /\ signIn'[k] = signIn[k]
                   /\ pending'[k] = pending[k] /\ seen'[k] = seen[k]
                \/ /\ UNCHANGED <<auth, origin>>
                   /\ Closes(k) \/ FailsForNow(k)
  <2>1. sess[k] = None
    BY <1>2 DEF Exchange, Stations, Station, NotYet
  <2>2. CASE Fail(k) /\ UNCHANGED <<auth, origin>>
    BY <2>1, <2>2, FailuresMove, TypesOfRequests DEF Fails
  <2>3. CASE FailForNow(k) /\ UNCHANGED <<auth, origin>>
    BY <2>3, FailuresMove, TypesOfRequests
  <2>4. ASSUME NEW a \in Auths,
               origin[a] = None, origin' = [origin EXCEPT ![a] = signIn[k]],
               auth' = [auth EXCEPT ![a] = 0], sess' = [sess EXCEPT ![k] = a],
               pc' = [pc EXCEPT ![k] = "viewer"],
               UNCHANGED <<signIn, claim, pending, seen, arev>>
        PROVE  /\ RequestTypes' /\ OthersStay(k)
               /\ sess'[k] = a /\ pc'[k] = "viewer" /\ signIn'[k] = signIn[k]
               /\ pending'[k] = pending[k] /\ seen'[k] = seen[k]
    <3>1. RequestTypes'
      BY <2>4, TypesOfRequests DEF RequestTypes, Steps
    <3>2. QED
      BY <2>4, <3>1, TypesOfRequests DEF RequestTypes, OthersStay, Stays
  <2>5. QED
    BY <1>2, <2>2, <2>3, <2>4 DEF Exchange
<1>3. QED
  BY <1>1, <1>2

\* Reads(k, step): get() of its session.
LEMMA ReadMoves ==
  ASSUME TypeOK, NEW k \in Requests, sess[k] \in Auths, auth[sess[k]] # None,
         NEW step \in Steps, Read(k, step)
  PROVE  /\ RequestTypes' /\ OthersStay(k)
         /\ Goes(k, step) /\ arev'[k] = auth[sess[k]]
<1>1. auth[sess[k]] \in 0..MaxRevision
  BY DEF TypeOK
<1>2. RequestTypes'
  BY <1>1, TypesOfRequests DEF Read, RequestTypes
<1>3. QED
  BY <1>2, TypesOfRequests DEF Read, RequestTypes, OthersStay, Stays, Goes

\* ... as it completes with one,
LEMMA CompletionMoves ==
  ASSUME TypeOK, Stations, NEW k \in Requests
  PROVE  /\ ReadForViewer(k) \/ ReadForBind(k) =>
              /\ RequestTypes' /\ OthersStay(k)
              /\ \/ Goes(k, "viewing") \/ Goes(k, "binding") \/ Goes(k, "discard")
         /\ Viewed(k) \/ Bind(k) =>
              /\ RequestTypes' /\ OthersStay(k)
              /\ \/ /\ CanSet(sess[k], arev[k])
                    /\ auth' = [auth EXCEPT ![sess[k]] = @ + 1]
                    /\ \/ Goes(k, "bind") \/ Goes(k, "attach")
                       \/ Goes(k, "discard") \/ Goes(k, "keep")
                 \/ /\ UNCHANGED auth
                    /\ Goes(k, "discard") \/ Goes(k, "keep")
         /\ CapabilitiesFail(k) =>
              /\ RequestTypes' /\ OthersStay(k)
              /\ Goes(k, "discard") \/ Goes(k, "keep")
         /\ Attach(k) =>
              /\ RequestTypes' /\ OthersStay(k)
              /\ \/ /\ browser # None /\ browser.rev = seen[k]
                    /\ browser' = [rev |-> seen[k] + 1, attached |-> sess[k]]
                    /\ \/ signIn[k] \in OAuth /\ Goes(k, "complete")
                       \/ signIn[k] \notin OAuth /\ Ends(k)
                 \/ UNCHANGED browser /\ Goes(k, "unattach")
<1>0. \A step \in {"viewing", "binding", "bind", "attach", "complete", "unattach"} : step \in Steps
  BY DEF Steps
<1> USE TypesOfRequests
<1>1. ASSUME ReadForViewer(k) \/ ReadForBind(k)
      PROVE  /\ RequestTypes' /\ OthersStay(k)
             /\ \/ Goes(k, "viewing") \/ Goes(k, "binding") \/ Goes(k, "discard")
  <2>1. sess[k] \in Auths
    BY <1>1 DEF ReadForViewer, ReadForBind, Stations, Station, Having, TypeOK
  <2>2. CASE auth[sess[k]] # None
    BY <1>0, <1>1, <2>1, <2>2, ReadMoves DEF ReadForViewer, ReadForBind
  <2>3. CASE auth[sess[k]] = None
    BY <1>1, <2>1, <2>3, FailuresMove, ConstantsAssumption DEF ReadForViewer, ReadForBind, Fails
  <2>4. QED
    BY <2>2, <2>3
<1>2. ASSUME Viewed(k) \/ Bind(k)
      PROVE  /\ RequestTypes' /\ OthersStay(k)
             /\ \/ /\ CanSet(sess[k], arev[k])
                   /\ auth' = [auth EXCEPT ![sess[k]] = @ + 1]
                   /\ \/ Goes(k, "bind") \/ Goes(k, "attach")
                      \/ Goes(k, "discard") \/ Goes(k, "keep")
                \/ /\ UNCHANGED auth
                   /\ Goes(k, "discard") \/ Goes(k, "keep")
  <2>1. sess[k] # None
    BY <1>2 DEF Viewed, Bind, Stations, Station, Having
  <2>2. CASE /\ CanSet(sess[k], arev[k])
             /\ auth' = [auth EXCEPT ![sess[k]] = @ + 1]
             /\ Goto(k, "bind") \/ Goto(k, "attach") \/ Fail(k) \/ FailForNow(k)
    BY <1>0, <2>1, <2>2, GotoMoves, FailuresMove DEF Fails, FailsForNow
  <2>3. CASE UNCHANGED auth /\ (Fail(k) \/ FailForNow(k))
    BY <2>1, <2>3, FailuresMove DEF Fails, FailsForNow
  <2>4. QED
    BY <1>2, <2>2, <2>3 DEF Viewed, Bind
<1>3. ASSUME Attach(k)
      PROVE  /\ RequestTypes' /\ OthersStay(k)
             /\ \/ /\ browser # None /\ browser.rev = seen[k]
                   /\ browser' = [rev |-> seen[k] + 1, attached |-> sess[k]]
                   /\ \/ signIn[k] \in OAuth /\ Goes(k, "complete")
                      \/ signIn[k] \notin OAuth /\ Ends(k)
                \/ UNCHANGED browser /\ Goes(k, "unattach")
  <2>1. CASE browser # None /\ browser.rev = seen[k]
    <3>1. CASE signIn[k] \in OAuth
      BY <1>0, <1>3, <2>1, <3>1, GotoMoves DEF Attach
    <3>2. CASE signIn[k] \notin OAuth
      BY <1>3, <2>1, <3>2, FinishMoves DEF Attach
    <3>3. QED
      BY <3>1, <3>2
  <2>2. CASE ~(browser # None /\ browser.rev = seen[k])
    BY <1>0, <1>3, <2>2, GotoMoves DEF Attach
  <2>3. QED
    BY <2>1, <2>2
<1>4. ASSUME CapabilitiesFail(k)
      PROVE  /\ RequestTypes' /\ OthersStay(k)
             /\ Goes(k, "discard") \/ Goes(k, "keep")
  <2>1. sess[k] # None
    BY <1>4 DEF CapabilitiesFail, Stations, Station, Having
  <2>2. QED
    BY <1>4, <2>1, FailuresMove DEF CapabilitiesFail, Fails, FailsForNow
<1>5. QED
  BY <1>1, <1>2, <1>3, <1>4

\* ... and as it cleans up.
LEMMA CleaningMoves ==
  ASSUME TypeOK, Stations, NEW k \in Requests
  PROVE  /\ ReadForDiscard(k) =>
              /\ RequestTypes' /\ OthersStay(k)
              /\ \/ /\ Goes(k, "unattaching") \/ Goes(k, "discarding")
                    /\ arev'[k] = auth[sess[k]] /\ auth[sess[k]] # None
                 \/ auth[sess[k]] = None /\ (Goes(k, "discard") \/ Closes(k))
         /\ Discard(k) =>
              /\ RequestTypes' /\ OthersStay(k)
              /\ \/ pc[k] = "unattaching" /\ Goes(k, "discard")
                 \/ pc[k] = "discarding" /\ Closes(k)
         /\ KeepPending(k) =>
              /\ RequestTypes' /\ OthersStay(k)
              /\ \/ /\ meta' = [meta EXCEPT ![signIn[k]] = [pending |-> sess[k]]]
                    /\ \/ signIn[k] \in OAuth /\ Goes(k, "release")
                       \/ signIn[k] \notin OAuth /\ Ends(k)
                 \/ UNCHANGED meta /\ Goes(k, "discard")
         /\ ReleaseState(k) =>
              /\ RequestTypes' /\ OthersStay(k)
              /\ Ends(k) \/ (sess[k] # None /\ Goes(k, "discard") /\ UNCHANGED oauth)
         /\ ConsumeState(k) => RequestTypes' /\ OthersStay(k) /\ Goes(k, "forget")
         /\ Restore(k) \/ Forget(k) \/ Crash(k) =>
              RequestTypes' /\ OthersStay(k) /\ Ends(k)
<1>0. \A step \in {"unattaching", "discarding", "discard", "release", "forget"} : step \in Steps
  BY DEF Steps
<1> USE TypesOfRequests
<1>1. ASSUME ReadForDiscard(k)
      PROVE  /\ RequestTypes' /\ OthersStay(k)
             /\ \/ /\ Goes(k, "unattaching") \/ Goes(k, "discarding")
                   /\ arev'[k] = auth[sess[k]] /\ auth[sess[k]] # None
                \/ auth[sess[k]] = None /\ (Goes(k, "discard") \/ Closes(k))
  <2>1. sess[k] \in Auths
    BY <1>1 DEF ReadForDiscard, Stations, Station, Having, TypeOK
  <2>2. CASE auth[sess[k]] # None
    <3>1. CASE pc[k] = "unattach"
      BY <1>0, <1>1, <2>1, <2>2, <3>1, ReadMoves DEF ReadForDiscard
    <3>2. CASE pc[k] # "unattach"
      BY <1>0, <1>1, <2>1, <2>2, <3>2, ReadMoves DEF ReadForDiscard
    <3>3. QED
      BY <3>1, <3>2
  <2>3. CASE auth[sess[k]] = None
    BY <1>0, <1>1, <2>3, FailuresMove, GotoMoves DEF ReadForDiscard
  <2>4. QED
    BY <2>2, <2>3
<1>2. ASSUME Discard(k)
      PROVE  /\ RequestTypes' /\ OthersStay(k)
             /\ \/ pc[k] = "unattaching" /\ Goes(k, "discard")
                \/ pc[k] = "discarding" /\ Closes(k)
  BY <1>0, <1>2, FailuresMove, GotoMoves DEF Discard
<1>3. ASSUME KeepPending(k)
      PROVE  /\ RequestTypes' /\ OthersStay(k)
             /\ \/ /\ meta' = [meta EXCEPT ![signIn[k]] = [pending |-> sess[k]]]
                   /\ \/ signIn[k] \in OAuth /\ Goes(k, "release")
                      \/ signIn[k] \notin OAuth /\ Ends(k)
                \/ UNCHANGED meta /\ Goes(k, "discard")
  <2>1. CASE UNCHANGED meta /\ Goto(k, "discard")
    BY <1>0, <2>1, GotoMoves
  <2>2. CASE /\ meta' = [meta EXCEPT ![signIn[k]] = [pending |-> sess[k]]]
             /\ IF signIn[k] \in OAuth THEN Goto(k, "release") ELSE Finish(k)
    <3>1. CASE signIn[k] \in OAuth
      BY <1>0, <2>2, <3>1, GotoMoves
    <3>2. CASE signIn[k] \notin OAuth
      BY <2>2, <3>2, FinishMoves
    <3>3. QED
      BY <3>1, <3>2
  <2>3. QED
    BY <1>3, <2>1, <2>2 DEF KeepPending
<1>4. ASSUME ReleaseState(k)
      PROVE  /\ RequestTypes' /\ OthersStay(k)
             /\ Ends(k) \/ (sess[k] # None /\ Goes(k, "discard") /\ UNCHANGED oauth)
  <2>1. CASE Finish(k)
    BY <2>1, FinishMoves
  <2>2. CASE sess[k] # None /\ Goto(k, "discard") /\ UNCHANGED oauth
    BY <1>0, <2>2, GotoMoves
  <2>3. QED
    BY <1>4, <2>1, <2>2 DEF ReleaseState
<1>5. ASSUME ConsumeState(k)
      PROVE  RequestTypes' /\ OthersStay(k) /\ Goes(k, "forget")
  BY <1>0, <1>5, GotoMoves DEF ConsumeState
<1>6. ASSUME Restore(k) \/ Forget(k) \/ Crash(k)
      PROVE  RequestTypes' /\ OthersStay(k) /\ Ends(k)
  BY <1>6, FinishMoves DEF Restore, Forget, Crash
<1>7. QED
  BY <1>1, <1>2, <1>3, <1>4, <1>5, <1>6

\* Whatever a request does, it moves no other one.
LEMMA RequestsMoveAlone ==
  ASSUME TypeOK, Stations, NEW k \in Requests, Request(k)
  PROVE  RequestTypes' /\ OthersStay(k)
<1>1. ASSUME NEW s \in SignIns, ReadMetadata(k, s) \/ ResolveComplete(k, s)
      PROVE  RequestTypes' /\ OthersStay(k)
  BY <1>1, FirstMoves
<1>2. CASE ClaimState(k) \/ Resolve(k) \/ TakeBinding(k) \/ GetPending(k)
  BY <1>2, ClaimMoves, ResolveMoves, TakeMoves, GetPendingMoves
<1>3. CASE ConsumeCallbackState(k) \/ Exchange(k)
  BY <1>3, SessionMoves
<1>4. CASE \/ ReadForViewer(k) \/ Viewed(k) \/ CapabilitiesFail(k)
           \/ ReadForBind(k) \/ Bind(k) \/ Attach(k)
  BY <1>4, CompletionMoves
<1>5. CASE \/ ReadForDiscard(k) \/ Discard(k) \/ KeepPending(k) \/ Restore(k)
           \/ ReleaseState(k) \/ ConsumeState(k) \/ Forget(k) \/ Crash(k)
  BY <1>5, CleaningMoves
<1>6. QED
  BY <1>1, <1>2, <1>3, <1>4, <1>5 DEF Request

\* The steps that are none of a request.
Elsewhere ==
  \/ \E s \in SignIns : Start(s)
  \/ StartLogout \/ Revoke \/ ReadForLogout \/ DeleteForLogout \/ DropBrowser
  \/ \E a \in Auths : LateWrite(a) \/ Use(a)
  \/ Tick

LEMMA RequestsRest ==
  ASSUME Elsewhere
  PROVE  UNCHANGED requests
BY DEF Elsewhere, Start, StartLogout, Revoke, ReadForLogout, DeleteForLogout, DropBrowser,
       LateWrite, Use, Tick, requests

-----------------------------------------------------------------------------
(* Types *)

\* The rest of the type invariant.
StoreTypes ==
  /\ oauth \in [OAuth -> StateRecords \cup {None}]
  /\ meta \in [SignIns -> Metadata \cup {None}]
  /\ callback \subseteq OAuth
  /\ deadline \in [SignIns -> Nat]
  /\ auth \in [Auths -> 0..MaxRevision \cup {None}]
  /\ origin \in [Auths -> SignIns \cup {None}]
  /\ browser \in [rev : Nat, attached : Auths \cup {None}] \cup {None}
  /\ now \in 0..MaxTime

HistoryTypes ==
  /\ logout \in [pc : {"idle", "revoke", "read", "delete", "drop", "done"},
                 sess : Auths \cup {None}, arev : 0..MaxRevision]
  /\ late \subseteq Auths
  /\ exchanges \in [OAuth -> Nat]
  /\ mishaps \subseteq {"lapse", "stale", "abandon", "loss"}
  /\ signedOut \subseteq Auths

LEMMA TypesSplit == TypeOK <=> RequestTypes /\ StoreTypes /\ HistoryTypes
BY DEF TypeOK, RequestTypes, StoreTypes, HistoryTypes

LEMMA TypesJoin == RequestTypes' /\ StoreTypes' /\ HistoryTypes' => TypeOK'
BY DEF TypeOK, RequestTypes, StoreTypes, HistoryTypes

\* A revision that is below its limit can be counted up.
LEMMA RevisionsCount ==
  ASSUME StoreTypes, NEW a \in Auths, auth[a] # None, auth[a] < MaxRevision
  PROVE  [auth EXCEPT ![a] = @ + 1] \in [Auths -> 0..MaxRevision \cup {None}]
<1>1. auth[a] + 1 \in 0..MaxRevision
  BY ConstantsAssumption DEF StoreTypes
<1>2. QED
  BY <1>1 DEF StoreTypes

LEMMA StoresKeepTypes ==
  ASSUME TypeOK, Stations, NEW k \in Requests, Request(k)
  PROVE  StoreTypes'
<1> USE TypesSplit
<1>1. ASSUME NEW s \in SignIns, ReadMetadata(k, s) \/ ResolveComplete(k, s)
      PROVE  StoreTypes'
  BY <1>1 DEF ReadMetadata, ResolveComplete, StoreTypes, stores
<1>2. CASE ClaimState(k)
  <2>1. signIn[k] \in OAuth
    BY <1>2 DEF ClaimState, Stations, Station
  <2>2. CASE Claimable(signIn[k])
    <3>1. oauth[signIn[k]] \in StateRecords
      BY <2>1, <2>2 DEF Claimable, StoreTypes
    <3>2. [rev |-> oauth[signIn[k]].rev + 1, lease |-> now + LeaseTime] \in StateRecords
      BY <2>2, <3>1, ConstantsAssumption DEF Claimable, StateRecords, StoreTypes
    <3>3. QED
      BY <1>2, <2>1, <2>2, <3>2 DEF ClaimState, StoreTypes
  <2>3. CASE ~Claimable(signIn[k])
    BY <1>2, <2>3 DEF ClaimState, StoreTypes
  <2>4. QED
    BY <2>2, <2>3
<1>3. CASE TakeBinding(k)
  BY <1>3 DEF TakeBinding, StoreTypes
<1>4. CASE Resolve(k) \/ GetPending(k) \/ ReadForViewer(k) \/ ReadForBind(k)
           \/ CapabilitiesFail(k) \/ ReadForDiscard(k) \/ Crash(k)
  BY <1>4 DEF Resolve, GetPending, ReadForViewer, CapabilitiesFail, ReadForBind, ReadForDiscard,
              Crash, StoreTypes, stores
<1>5. CASE ConsumeCallbackState(k)
  BY <1>5 DEF ConsumeCallbackState, StoreTypes
<1>6. CASE Exchange(k)
  <2>1. signIn[k] \in SignIns /\ 0 \in 0..MaxRevision
    BY <1>6, ConstantsAssumption DEF Exchange, Stations, Station, RequestTypes
  <2>2. UNCHANGED <<oauth, meta, callback, deadline, browser, now>>
    BY <1>6 DEF Exchange
  <2>3. /\ auth' \in [Auths -> 0..MaxRevision \cup {None}]
        /\ origin' \in [Auths -> SignIns \cup {None}]
    BY <1>6, <2>1, SessionMoves DEF StoreTypes
  <2>4. QED
    BY <2>2, <2>3 DEF StoreTypes
<1>7. CASE Viewed(k) \/ Bind(k)
  <2>1. sess[k] \in Auths
    BY <1>7 DEF Viewed, Bind, Stations, Station, Having, RequestTypes
  <2>2. auth' \in [Auths -> 0..MaxRevision \cup {None}]
    <3>1. CASE UNCHANGED auth
      BY <3>1 DEF StoreTypes
    <3>2. CASE CanSet(sess[k], arev[k]) /\ auth' = [auth EXCEPT ![sess[k]] = @ + 1]
      <4>1. auth[sess[k]] # None /\ auth[sess[k]] < MaxRevision
        BY <3>2, ConstantsAssumption DEF CanSet, RequestTypes
      <4>2. QED
        BY <2>1, <3>2, <4>1, RevisionsCount
    <3>3. QED
      BY <1>7, <3>1, <3>2, CompletionMoves
  <2>3. QED
    BY <1>7, <2>2 DEF Viewed, Bind, StoreTypes
<1>8. CASE Attach(k)
  <2>1. sess[k] \in Auths /\ seen[k] + 1 \in Nat
    BY <1>8 DEF Attach, Stations, Station, Having, RequestTypes
  <2>2. QED
    BY <1>8, <2>1 DEF Attach, StoreTypes
<1>9. CASE Discard(k)
  BY <1>9 DEF Discard, StoreTypes
<1>10. CASE KeepPending(k)
  <2>1. [pending |-> sess[k]] \in Metadata
    BY DEF RequestTypes, Metadata
  <2>2. QED
    BY <1>10, <2>1 DEF KeepPending, StoreTypes
<1>11. CASE Restore(k) \/ Forget(k)
  BY <1>11 DEF Restore, Forget, StoreTypes, Metadata
<1>12. CASE ReleaseState(k)
  <2>1. signIn[k] \in OAuth
    BY <1>12 DEF ReleaseState, Stations, Station
  <2>2. CASE OwnsClaim(k) /\ claim[k] < MaxClaims
    <3>1. oauth[signIn[k]] \in StateRecords /\ oauth[signIn[k]].rev < MaxClaims
      BY <2>1, <2>2 DEF OwnsClaim, StoreTypes
    <3>2. [rev |-> oauth[signIn[k]].rev + 1, lease |-> 0] \in StateRecords
      BY <3>1, ConstantsAssumption DEF StateRecords
    <3>3. QED
      BY <1>12, <2>1, <3>2 DEF ReleaseState, StoreTypes
  <2>3. CASE ~(OwnsClaim(k) /\ claim[k] < MaxClaims)
    BY <1>12, <2>3 DEF ReleaseState, StoreTypes
  <2>4. QED
    BY <2>2, <2>3
<1>13. CASE ConsumeState(k)
  BY <1>13 DEF ConsumeState, StoreTypes
<1>14. QED
  BY <1>1, <1>2, <1>3, <1>4, <1>5, <1>6, <1>7, <1>8, <1>9, <1>10, <1>11, <1>12, <1>13
     DEF Request

LEMMA HistoryKeepsTypes ==
  ASSUME TypeOK, Stations, NEW k \in Requests, Request(k)
  PROVE  HistoryTypes' /\ UNCHANGED <<logout, signedOut>>
<1> USE TypesSplit
<1>1. CASE Exchange(k)
  <2>1. exchanges' \in [OAuth -> Nat]
    BY <1>1 DEF Exchange, HistoryTypes
  <2>2. QED
    BY <1>1, <2>1 DEF Exchange, HistoryTypes
<1>2. ASSUME mishaps' \subseteq {"lapse", "stale", "abandon", "loss"},
             UNCHANGED <<logout, late, exchanges, signedOut>>
      PROVE  HistoryTypes'
  BY <1>2 DEF HistoryTypes
<1>3. CASE ClaimState(k) \/ Resolve(k) \/ TakeBinding(k) \/ Crash(k)
  BY <1>2, <1>3 DEF ClaimState, Resolve, TakeBinding, Crash, HistoryTypes
<1>4. ASSUME NEW s \in SignIns, ReadMetadata(k, s) \/ ResolveComplete(k, s)
      PROVE  UNCHANGED <<logout, late, history>>
  BY <1>4 DEF ReadMetadata, ResolveComplete
<1>5. CASE \/ GetPending(k) \/ ConsumeCallbackState(k) \/ ReadForViewer(k) \/ Viewed(k)
           \/ ReadForBind(k) \/ Bind(k) \/ Attach(k) \/ ReadForDiscard(k) \/ Discard(k)
           \/ KeepPending(k) \/ Restore(k) \/ ReleaseState(k) \/ ConsumeState(k) \/ Forget(k)
  BY <1>5 DEF GetPending, ConsumeCallbackState, ReadForViewer, Viewed, ReadForBind, Bind, Attach,
              ReadForDiscard, Discard, KeepPending, Restore, ReleaseState, ConsumeState, Forget,
              history, HistoryTypes
<1>6. CASE CapabilitiesFail(k)
  <2>1. sess[k] \in Auths
    BY <1>6 DEF CapabilitiesFail, Stations, Station, Having, RequestTypes
  <2>2. QED
    BY <1>6, <2>1 DEF CapabilitiesFail, history, HistoryTypes
<1>7. QED
  BY <1>1, <1>3, <1>4, <1>5, <1>6 DEF Request, history, HistoryTypes

\* The steps of no request keep the types.
LEMMA OtherTypesKept ==
  ASSUME TypeOK, Stations, Elsewhere
  PROVE  TypeOK'
<1> USE TypesSplit
<1>1. RequestTypes'
  BY RequestsRest DEF requests, RequestTypes
<1> SUFFICES StoreTypes' /\ HistoryTypes'
  BY <1>1, TypesJoin
<1>2. ASSUME NEW s \in SignIns, Start(s)
      PROVE  StoreTypes' /\ HistoryTypes'
  <2>1. /\ now \in Nat /\ [rev |-> 0, lease |-> 0] \in StateRecords
        /\ [pending |-> None] \in Metadata
    BY ConstantsAssumption DEF StoreTypes, StateRecords, Metadata
  <2>2. deadline' \in [SignIns -> Nat]
    BY <1>2, <2>1, ConstantsAssumption DEF Start, StoreTypes
  <2>3. callback' \subseteq OAuth /\ oauth' \in [OAuth -> StateRecords \cup {None}]
        /\ meta' \in [SignIns -> Metadata \cup {None}]
    BY <1>2, <2>1 DEF Start, StoreTypes
  <2>4. browser' \in [rev : Nat, attached : Auths \cup {None}] \cup {None}
    BY <1>2 DEF Start, Promoted, Anonymous, StoreTypes
  <2>5. QED
    BY <1>2, <2>2, <2>3, <2>4 DEF Start, StoreTypes, HistoryTypes, history
<1>3. CASE StartLogout \/ ReadForLogout \/ DropBrowser
  <2>1. StoreTypes'
    <3>1. CASE StartLogout \/ ReadForLogout
      BY <3>1 DEF StartLogout, ReadForLogout, StoreTypes, stores
    <3>2. CASE DropBrowser
      BY <3>2 DEF DropBrowser, StoreTypes
    <3>3. QED
      BY <1>3, <3>1, <3>2
  <2>2. CASE StartLogout
    <3>1. PICK found \in Resolvable \ {None} :
            IF found.attached = None
            THEN logout' = [logout EXCEPT !.pc = "drop"] /\ UNCHANGED signedOut
            ELSE /\ logout' = [logout EXCEPT !.pc = "revoke", !.sess = found.attached]
                 /\ signedOut' = signedOut \cup {found.attached}
      BY <2>2 DEF StartLogout
    <3>2. found.attached \in Auths \cup {None}
      BY DEF Resolvable, Anonymous, StoreTypes
    <3>3. logout' \in [pc : {"idle", "revoke", "read", "delete", "drop", "done"},
                       sess : Auths \cup {None}, arev : 0..MaxRevision]
      BY <3>1, <3>2 DEF HistoryTypes
    <3>4. signedOut' \subseteq Auths
      BY <3>1, <3>2 DEF HistoryTypes
    <3>5. QED
      BY <2>1, <2>2, <3>3, <3>4 DEF StartLogout, HistoryTypes
  <2>3. CASE ReadForLogout
    <3>1. logout.sess \in Auths
      BY <2>3 DEF ReadForLogout, Stations, Station, HistoryTypes
    <3>2. logout' \in [pc : {"idle", "revoke", "read", "delete", "drop", "done"},
                       sess : Auths \cup {None}, arev : 0..MaxRevision]
      BY <2>3, <3>1 DEF ReadForLogout, HistoryTypes, StoreTypes
    <3>3. QED
      BY <2>1, <2>3, <3>2 DEF ReadForLogout, HistoryTypes, history
  <2>4. CASE DropBrowser
    <3>1. signedOut' \subseteq Auths
      BY <2>4 DEF DropBrowser, HistoryTypes, StoreTypes
    <3>2. QED
      BY <2>1, <2>4, <3>1, ConstantsAssumption DEF DropBrowser, HistoryTypes
  <2>5. QED
    BY <1>3, <2>1, <2>2, <2>3, <2>4
<1>4. CASE Revoke \/ DeleteForLogout
  <2>1. logout.sess \in Auths
    BY <1>4 DEF Revoke, DeleteForLogout, Stations, Station, HistoryTypes
  <2>2. auth' \in [Auths -> 0..MaxRevision \cup {None}]
    <3>1. CASE Revoke
      <4>1. \A r \in {auth[logout.sess]} \cap 0..(MaxRevision - 1) : r + 1 \in 0..MaxRevision
        BY ConstantsAssumption
      <4>2. QED
        BY <2>1, <3>1, <4>1 DEF Revoke, StoreTypes
    <3>2. CASE DeleteForLogout
      BY <3>2 DEF DeleteForLogout, StoreTypes
    <3>3. QED
      BY <1>4, <3>1, <3>2
  <2>3. logout' \in [pc : {"idle", "revoke", "read", "delete", "drop", "done"},
                     sess : Auths \cup {None}, arev : 0..MaxRevision]
    <3>1. 0 \in 0..MaxRevision
      BY ConstantsAssumption
    <3>2. CASE Revoke
      BY <3>2 DEF Revoke, HistoryTypes
    <3>3. CASE DeleteForLogout
      BY <3>1, <3>3 DEF DeleteForLogout, HistoryTypes
    <3>4. QED
      BY <1>4, <3>2, <3>3
  <2>4. QED
    BY <1>4, <2>2, <2>3 DEF Revoke, DeleteForLogout, StoreTypes, HistoryTypes, history
<1>5. ASSUME NEW a \in Auths, Use(a)
      PROVE  StoreTypes' /\ HistoryTypes'
  <2>1. auth' \in [Auths -> 0..MaxRevision \cup {None}]
    BY <1>5, RevisionsCount DEF Use
  <2>2. QED
    BY <1>5, <2>1 DEF Use, StoreTypes, HistoryTypes, history
<1>6. CASE Tick
  <2>1. now' \in 0..MaxTime
    BY <1>6, ConstantsAssumption DEF Tick, StoreTypes
  <2>2. QED
    BY <1>6, <2>1 DEF Tick, StoreTypes, HistoryTypes, history
<1>7. ASSUME NEW a \in Auths, LateWrite(a)
      PROVE  StoreTypes' /\ HistoryTypes'
  <2>1. auth' \in [Auths -> 0..MaxRevision \cup {None}]
    <3>1. CASE UNCHANGED auth
      BY <3>1 DEF StoreTypes
    <3>2. CASE auth[a] # None /\ CanSet(a, auth[a]) /\ auth' = [auth EXCEPT ![a] = @ + 1]
      BY <3>2, RevisionsCount DEF CanSet
    <3>3. QED
      BY <1>7, <3>1, <3>2 DEF LateWrite
  <2>2. late' \subseteq Auths /\ mishaps' \subseteq {"lapse", "stale", "abandon", "loss"}
    BY <1>7 DEF LateWrite, HistoryTypes
  <2>3. QED
    BY <1>7, <2>1, <2>2 DEF LateWrite, StoreTypes, HistoryTypes
<1>8. QED
  BY <1>2, <1>3, <1>4, <1>5, <1>6, <1>7 DEF Elsewhere

-----------------------------------------------------------------------------
(* Stations *)

LEMMA StationsKept ==
  ASSUME TypeOK, Stations, NEW k \in Requests, Request(k)
  PROVE  Stations'
<1>0. RequestTypes /\ Station(k)
  BY TypesSplit DEF Stations, Station
<1> USE DEF Station, Having, NotYet
<1>1. SUFFICES Station(k)'
  <2>1. \A j \in Requests : j # k => (Station(j) => Station(j)')
    BY RequestsMoveAlone DEF OthersStay, Stays
  <2>2. UNCHANGED <<logout, signedOut>>
    BY HistoryKeepsTypes
  <2>3. \A j \in Requests : Station(j)'
    BY <1>1, <2>1 DEF Stations, Station
  <2>4. QED
    BY <2>2, <2>3 DEF Stations, Station
<1>2. ASSUME NEW s \in SignIns, ReadMetadata(k, s)
      PROVE  Station(k)'
  <2>1. pc[k] = "idle" /\ s \in OAuth /\ s # None
    BY <1>2, ConstantsAssumption DEF ReadMetadata
  <2>2. /\ pc'[k] = "claim" /\ signIn'[k] = s
        /\ sess'[k] = sess[k]
    BY <1>2, FirstMoves
  <2>3. QED
    BY <1>0, <2>1, <2>2
<1>3. ASSUME NEW s \in SignIns, ResolveComplete(k, s)
      PROVE  Station(k)'
  <2>1. pc[k] = "idle" /\ s \in Challenges /\ s # None
    BY <1>3, ConstantsAssumption DEF ResolveComplete
  <2>2. /\ pc'[k] = "take" /\ signIn'[k] = s
        /\ pending'[k] = pending[k] /\ sess'[k] = sess[k]
    BY <1>3, FirstMoves
  <2>3. QED
    BY <1>0, <2>1, <2>2
<1>4. CASE ClaimState(k)
  BY <1>0, <1>4, ClaimMoves DEF ClaimState, Goes, Ends
<1>5. CASE Resolve(k)
  BY <1>0, <1>5, ResolveMoves DEF Resolve, Goes
<1>6. CASE TakeBinding(k)
  BY <1>0, <1>6, TakeMoves DEF TakeBinding, Ends
<1>7. CASE GetPending(k)
  BY <1>0, <1>7, GetPendingMoves DEF GetPending, Closes, Goes, Ends
<1>8. CASE ConsumeCallbackState(k)
  BY <1>0, <1>8, SessionMoves DEF ConsumeCallbackState, Closes, Goes, Ends
<1>9. CASE Exchange(k)
  BY <1>0, <1>9, SessionMoves, ConstantsAssumption
     DEF Exchange, Closes, FailsForNow, Goes, Ends, RequestTypes, SignIns
<1>10. CASE \/ ReadForViewer(k) \/ Viewed(k) \/ CapabilitiesFail(k)
            \/ ReadForBind(k) \/ Bind(k)
  BY <1>0, <1>10, CompletionMoves DEF ReadForViewer, Viewed, CapabilitiesFail, ReadForBind, Bind,
                                      Goes
<1>11. CASE Attach(k)
  BY <1>0, <1>11, CompletionMoves DEF Attach, Goes, Ends
<1>12. CASE ReadForDiscard(k) \/ Discard(k)
  BY <1>0, <1>12, CleaningMoves DEF ReadForDiscard, Discard, Closes, Goes, Ends
<1>13. CASE KeepPending(k) \/ ReleaseState(k) \/ ConsumeState(k)
  BY <1>0, <1>13, CleaningMoves DEF KeepPending, ReleaseState, ConsumeState, Goes, Ends
<1>14. CASE Restore(k) \/ Forget(k) \/ Crash(k)
  BY <1>14, CleaningMoves DEF Ends
<1>15. QED
  BY <1>2, <1>3, <1>4, <1>5, <1>6, <1>7, <1>8, <1>9, <1>10, <1>11, <1>12, <1>13, <1>14
     DEF Request

LEMMA StationsRest ==
  ASSUME TypeOK, Stations, Elsewhere
  PROVE  Stations'
<1>1. \A k \in Requests : Station(k)'
  BY RequestsRest DEF requests, Stations, Station
<1>2. logout'.pc \in {"revoke", "read", "delete"} => logout'.sess \in signedOut'
  <2>0. /\ logout.pc \in {"revoke", "read", "delete"} => logout.sess \in signedOut
        /\ HistoryTypes
    BY TypesSplit DEF Stations
  <2>1. ASSUME NEW s \in SignIns, Start(s)
        PROVE  UNCHANGED <<logout, signedOut>>
    BY <2>1 DEF Start, history
  <2>2. CASE StartLogout
    <3>1. PICK found \in Resolvable \ {None} :
            IF found.attached = None
            THEN logout' = [logout EXCEPT !.pc = "drop"] /\ UNCHANGED signedOut
            ELSE /\ logout' = [logout EXCEPT !.pc = "revoke", !.sess = found.attached]
                 /\ signedOut' = signedOut \cup {found.attached}
      BY <2>2 DEF StartLogout
    <3>2. QED
      BY <2>0, <3>1 DEF HistoryTypes
  <2>3. CASE Revoke
    BY <2>0, <2>3 DEF Revoke, HistoryTypes, history
  <2>4. CASE ReadForLogout
    BY <2>0, <2>4 DEF ReadForLogout, HistoryTypes, history
  <2>5. CASE DeleteForLogout
    BY <2>0, <2>5 DEF DeleteForLogout, HistoryTypes, history
  <2>6. CASE DropBrowser
    BY <2>6 DEF DropBrowser
  <2>7. ASSUME NEW a \in Auths, LateWrite(a) \/ Use(a)
        PROVE  UNCHANGED <<logout, signedOut>>
    BY <2>7 DEF LateWrite, Use, history
  <2>8. CASE Tick
    BY <2>0, <2>8 DEF Tick, history
  <2>9. QED
    BY <2>0, <2>1, <2>2, <2>3, <2>4, <2>5, <2>6, <2>7, <2>8 DEF Elsewhere
<1>3. QED
  BY <1>1, <1>2 DEF Stations

\* The steps of the system, sorted.
LEMMA StepsOfTheSystem ==
  Next <=> (\E k \in Requests : Request(k)) \/ Elsewhere
BY DEF Next, Elsewhere

LEMMA TypesInvariant == Spec => [](TypeOK /\ Stations)
<1>1. Init => TypeOK /\ Stations
  <2>1. Init => Stations
    BY DEF Init, Stations, Station, Having, NotYet
  <2>2. Init => TypeOK
    BY ConstantsAssumption DEF Init, TypeOK, Steps, Metadata, StateRecords, Anonymous
  <2>3. QED
    BY <2>1, <2>2
<1>2. TypeOK /\ Stations /\ [Next]_vars => TypeOK' /\ Stations'
  <2> SUFFICES ASSUME TypeOK, Stations, [Next]_vars
               PROVE  TypeOK' /\ Stations'
    OBVIOUS
  <2>1. ASSUME NEW k \in Requests, Request(k)
        PROVE  TypeOK' /\ Stations'
    BY <2>1, RequestsMoveAlone, StoresKeepTypes, HistoryKeepsTypes, StationsKept, TypesJoin
  <2>2. CASE Elsewhere
    BY <2>2, OtherTypesKept, StationsRest
  <2>3. CASE UNCHANGED vars
    BY <2>3 DEF vars, stores, requests, history, TypeOK, Stations, Station
  <2>4. QED
    BY <2>1, <2>2, <2>3, StepsOfTheSystem
<1>3. QED
  BY <1>1, <1>2, PTL DEF Spec

\* Every variable has its type, whichever requests, retries, crashes and logouts meet;
\* no revision passes its limit.
THEOREM TypeCorrect == Spec => []TypeOK
BY TypesInvariant, PTL

-----------------------------------------------------------------------------
(* What a request can reach *)

\* A request writes the records of its own sign-in only, and a session gets its origin
\* once, from the request that created it.
LEMMA RequestsWriteTheirOwn ==
  ASSUME TypeOK, Stations, NEW k \in Requests, Request(k)
  PROVE  /\ deadline' = deadline /\ now' = now /\ callback' \subseteq callback
         /\ \A s \in SignIns : s # signIn[k] => meta'[s] = meta[s]
         /\ \A s \in OAuth : s # signIn[k] => oauth'[s] = oauth[s] /\ exchanges'[s] = exchanges[s]
         /\ \A a \in Auths : origin'[a] # origin[a] =>
              /\ Exchange(k) /\ origin[a] = None /\ origin'[a] = signIn[k]
              /\ sess'[k] = a /\ auth'[a] = 0
              /\ \A b \in Auths : b # a => origin'[b] = origin[b] /\ auth'[b] = auth[b]
<1> USE TypesSplit
<1>1. ASSUME NEW s \in SignIns, ReadMetadata(k, s) \/ ResolveComplete(k, s)
      PROVE  UNCHANGED <<stores, exchanges>>
  BY <1>1 DEF ReadMetadata, ResolveComplete, history
<1>2. CASE Exchange(k)
  <2>1. UNCHANGED <<oauth, meta, callback, deadline, now>>
    BY <1>2 DEF Exchange
  <2>2. \A s \in OAuth : s # signIn[k] => exchanges'[s] = exchanges[s]
    BY <1>2 DEF Exchange, HistoryTypes
  <2>3. \A a \in Auths : origin'[a] # origin[a] =>
          /\ origin[a] = None /\ origin'[a] = signIn[k]
          /\ sess'[k] = a /\ auth'[a] = 0
          /\ \A b \in Auths : b # a => origin'[b] = origin[b] /\ auth'[b] = auth[b]
    BY <1>2, SessionMoves DEF StoreTypes
  <2>4. QED
    BY <1>2, <2>1, <2>2, <2>3
<1>3. CASE ~Exchange(k)
  <2>1. CASE ClaimState(k) \/ ReleaseState(k) \/ ConsumeState(k)
    <3>1. UNCHANGED <<deadline, now, callback, meta, exchanges, origin>>
      BY <2>1 DEF ClaimState, ReleaseState, ConsumeState, history
    <3>2. \A s \in OAuth : s # signIn[k] => oauth'[s] = oauth[s]
      BY <2>1 DEF ClaimState, ReleaseState, ConsumeState, StoreTypes
    <3>3. QED
      BY <3>1, <3>2
  <2>2. CASE TakeBinding(k) \/ KeepPending(k) \/ Restore(k) \/ Forget(k)
    <3>1. UNCHANGED <<deadline, now, callback, oauth, exchanges, origin>>
      BY <2>2 DEF TakeBinding, KeepPending, Restore, Forget, history
    <3>2. \A s \in SignIns : s # signIn[k] => meta'[s] = meta[s]
      BY <2>2 DEF TakeBinding, KeepPending, Restore, Forget, StoreTypes
    <3>3. QED
      BY <3>1, <3>2
  <2>3. CASE \/ Resolve(k) \/ GetPending(k) \/ ConsumeCallbackState(k) \/ ReadForViewer(k)
             \/ Viewed(k) \/ CapabilitiesFail(k) \/ ReadForBind(k) \/ Bind(k) \/ Attach(k)
             \/ ReadForDiscard(k) \/ Discard(k) \/ Crash(k)
    BY <2>3 DEF Resolve, GetPending, ConsumeCallbackState, ReadForViewer, Viewed,
                CapabilitiesFail, ReadForBind, Bind, Attach, ReadForDiscard, Discard, Crash,
                stores, history
  <2>4. QED
    BY <1>1, <1>3, <2>1, <2>2, <2>3 DEF Request, stores
<1>4. QED
  BY <1>2, <1>3

\* The request holds the sign-in: it has claimed the state, or taken the binding.
Active(k, s) == signIn[k] = s /\ pc[k] \notin {"idle", "claim", "take"}

\* A request takes up another sign-in only when it comes; what went wrong is not forgotten.
LEMMA SignInsHeld ==
  ASSUME TypeOK, Stations, NEW k \in Requests, Request(k)
  PROVE  /\ \/ signIn'[k] \in {signIn[k], None}
            \/ \E s \in SignIns : /\ ReadMetadata(k, s) \/ ResolveComplete(k, s)
                                  /\ signIn'[k] = s
         /\ mishaps \subseteq mishaps'
<1>1. ASSUME NEW s \in SignIns, ReadMetadata(k, s) \/ ResolveComplete(k, s)
      PROVE  signIn'[k] = s /\ mishaps' = mishaps
  BY <1>1, FirstMoves DEF ReadMetadata, ResolveComplete, history
<1>2. CASE ClaimState(k) \/ Resolve(k) \/ TakeBinding(k) \/ Crash(k)
  <2>1. mishaps \subseteq mishaps'
    BY <1>2 DEF ClaimState, Resolve, TakeBinding, Crash
  <2>2. signIn'[k] \in {signIn[k], None}
    BY <1>2, ClaimMoves, ResolveMoves, TakeMoves, CleaningMoves DEF Goes, Ends
  <2>3. QED
    BY <2>1, <2>2
<1>3. CASE \/ GetPending(k) \/ ConsumeCallbackState(k) \/ Exchange(k)
           \/ ReadForViewer(k) \/ Viewed(k) \/ CapabilitiesFail(k)
           \/ ReadForBind(k) \/ Bind(k) \/ Attach(k)
  <2>1. mishaps' = mishaps
    BY <1>3 DEF GetPending, ConsumeCallbackState, Exchange, ReadForViewer, Viewed,
                CapabilitiesFail, ReadForBind, Bind, Attach, history
  <2>2. signIn'[k] \in {signIn[k], None}
    BY <1>3, GetPendingMoves, SessionMoves, CompletionMoves
       DEF Goes, Ends, Closes, FailsForNow
  <2>3. QED
    BY <2>1, <2>2
<1>4. CASE \/ ReadForDiscard(k) \/ Discard(k) \/ KeepPending(k) \/ Restore(k)
           \/ ReleaseState(k) \/ ConsumeState(k) \/ Forget(k)
  <2>1. mishaps' = mishaps
    BY <1>4 DEF ReadForDiscard, Discard, KeepPending, Restore, ReleaseState, ConsumeState, Forget,
                history
  <2>2. signIn'[k] \in {signIn[k], None}
    BY <1>4, CleaningMoves DEF Goes, Ends, Closes
  <2>3. QED
    BY <2>1, <2>2
<1>5. QED
  BY <1>1, <1>2, <1>3, <1>4 DEF Request

\* A request gets hold of a sign-in by a claim or by taking a binding, and in no other way.
LEMMA ActivityBegins ==
  ASSUME TypeOK, Stations, NEW k \in Requests, Request(k),
         NEW s \in SignIns, NEW j \in Requests, Active(j, s)'
  PROVE  \/ Active(j, s)
         \/ /\ j = k /\ signIn[k] = s
            /\ \/ s \in OAuth /\ ClaimState(k) /\ Claimable(s)
               \/ /\ s \in Challenges /\ TakeBinding(k)
                  /\ meta[s] # None /\ meta'[s] = None
                  /\ pc'[k] = "remote" => meta[s].pending = None
<1> USE DEF Active
<1>1. CASE j # k
  BY <1>1, RequestsMoveAlone DEF OthersStay, Stays
<1> SUFFICES ASSUME j = k
             PROVE  \/ Active(k, s)
                    \/ /\ signIn[k] = s
                       /\ \/ s \in OAuth /\ ClaimState(k) /\ Claimable(s)
                          \/ /\ s \in Challenges /\ TakeBinding(k)
                             /\ meta[s] # None /\ meta'[s] = None
                             /\ pc'[k] = "remote" => meta[s].pending = None
  BY <1>1
<1>2. s # None /\ signIn'[k] = s /\ pc'[k] \notin {"idle", "claim", "take"}
  BY ConstantsAssumption
<1>3. ASSUME NEW t \in SignIns, ReadMetadata(k, t) \/ ResolveComplete(k, t)
      PROVE  FALSE
  BY <1>2, <1>3, FirstMoves
<1>4. CASE pc[k] \notin {"idle", "claim", "take"}
  <2>1. signIn'[k] \in {signIn[k], None}
    BY <1>3, SignInsHeld
  <2>2. QED
    BY <1>2, <1>4, <2>1
<1>5. CASE ClaimState(k)
  BY <1>2, <1>5, ClaimMoves DEF ClaimState, Goes, Ends, Stations, Station
<1>6. CASE TakeBinding(k)
  <2>1. signIn[k] \in Challenges
    BY <1>6 DEF TakeBinding, Stations, Station
  <2>2. QED
    BY <1>2, <1>6, <2>1, TakeMoves DEF Ends, TypeOK
<1>7. CASE pc[k] \in {"idle", "claim", "take"} /\ ~ClaimState(k) /\ ~TakeBinding(k)
  BY <1>3, <1>7 DEF Request, Resolve, GetPending, ConsumeCallbackState, Exchange, ReadForViewer,
       Viewed, CapabilitiesFail, ReadForBind, Bind, Attach, ReadForDiscard, Discard, KeepPending,
       Restore, ReleaseState, ConsumeState, Forget, Crash
<1>8. QED
  BY <1>4, <1>5, <1>6, <1>7

\* A stored session is changed by the request that has it, and deleted only by Discard.
LEMMA SessionsWritten ==
  ASSUME TypeOK, Stations, NEW k \in Requests, Request(k),
         NEW a \in Auths, auth'[a] # auth[a]
  PROVE  \/ Exchange(k) /\ origin[a] = None /\ sess'[k] = a
         \/ /\ sess[k] = a /\ auth[a] # None
            /\ \/ auth'[a] # None /\ pc[k] \in {"viewing", "binding"}
               \/ auth[a] = arev[k] /\ Discard(k)
<1> USE TypesSplit
<1>1. ASSUME NEW s \in SignIns, ReadMetadata(k, s) \/ ResolveComplete(k, s)
      PROVE  UNCHANGED auth
  BY <1>1 DEF ReadMetadata, ResolveComplete, stores
<1>2. CASE Exchange(k)
  BY <1>2, SessionMoves DEF StoreTypes
<1>3. CASE Viewed(k) \/ Bind(k)
  <2>1. CASE UNCHANGED auth
    BY <2>1
  <2>2. CASE CanSet(sess[k], arev[k]) /\ auth' = [auth EXCEPT ![sess[k]] = @ + 1]
    <3>1. sess[k] = a
      BY <2>2 DEF StoreTypes
    <3>2. auth[a] \in Nat /\ auth'[a] = auth[a] + 1
      BY <2>2, <3>1, ConstantsAssumption DEF CanSet, RequestTypes, StoreTypes
    <3>3. auth[a] # None /\ auth'[a] # None
      BY <3>2, ConstantsAssumption
    <3>4. QED
      BY <1>3, <3>1, <3>3 DEF Viewed, Bind
  <2>3. QED
    BY <1>3, <2>1, <2>2, CompletionMoves
<1>4. CASE Discard(k)
  <2>1. sess[k] = a /\ auth[a] = arev[k]
    BY <1>4 DEF Discard, StoreTypes
  <2>2. auth[a] # None
    BY <2>1, ConstantsAssumption DEF RequestTypes
  <2>3. QED
    BY <1>4, <2>1, <2>2
<1>5. CASE ~Exchange(k) /\ ~Viewed(k) /\ ~Bind(k) /\ ~Discard(k)
  BY <1>1, <1>5 DEF Request, ClaimState, Resolve, TakeBinding, GetPending, ConsumeCallbackState,
       ReadForViewer, CapabilitiesFail, ReadForBind, Attach, ReadForDiscard, KeepPending, Restore,
       ReleaseState, ConsumeState, Forget, Crash, stores
<1>6. QED
  BY <1>2, <1>3, <1>4, <1>5

\* The browser session is written by Attach, which finds it as the request has read it.
LEMMA BrowserWritten ==
  ASSUME TypeOK, Stations, NEW k \in Requests, Request(k), browser' # browser
  PROVE  /\ Attach(k) /\ browser # None /\ browser.rev = seen[k]
         /\ browser' = [rev |-> seen[k] + 1, attached |-> sess[k]]
         /\ sess[k] \in Auths /\ signIn[k] \in SignIns
         /\ \/ signIn[k] \in OAuth /\ Goes(k, "complete")
            \/ signIn[k] \notin OAuth /\ Ends(k)
<1>1. ASSUME NEW s \in SignIns, ReadMetadata(k, s) \/ ResolveComplete(k, s)
      PROVE  UNCHANGED browser
  BY <1>1 DEF ReadMetadata, ResolveComplete, stores
<1>2. Attach(k)
  BY <1>1 DEF Request, ClaimState, Resolve, TakeBinding, GetPending, ConsumeCallbackState,
       Exchange, ReadForViewer, Viewed, CapabilitiesFail, ReadForBind, Bind, ReadForDiscard,
       Discard, KeepPending, Restore, ReleaseState, ConsumeState, Forget, Crash, stores
<1>3. sess[k] \in Auths /\ signIn[k] \in SignIns
  BY <1>2, TypesSplit DEF Attach, Stations, Station, Having, RequestTypes
<1>4. QED
  BY <1>2, <1>3, CompletionMoves

\* The metadata or the binding of a sign-in is written by the request that holds it, or taken.
LEMMA MetadataWritten ==
  ASSUME TypeOK, Stations, NEW k \in Requests, Request(k),
         NEW s \in SignIns, meta'[s] # meta[s]
  PROVE  /\ signIn[k] = s
         /\ \/ TakeBinding(k) /\ s \in Challenges /\ meta'[s] = None
            \/ KeepPending(k) /\ Active(k, s) /\ meta'[s] = [pending |-> sess[k]]
            \/ /\ Restore(k) /\ Active(k, s) /\ s \in Challenges /\ pc[k] = "restore"
               /\ meta'[s] = [pending |-> None]
            \/ Forget(k) /\ Active(k, s) /\ meta'[s] = None
<1> USE TypesSplit
<1>0. signIn[k] = s
  BY RequestsWriteTheirOwn
<1>1. ASSUME NEW t \in SignIns, ReadMetadata(k, t) \/ ResolveComplete(k, t)
      PROVE  UNCHANGED meta
  BY <1>1 DEF ReadMetadata, ResolveComplete, stores
<1>2. CASE TakeBinding(k)
  BY <1>0, <1>2, TakeMoves DEF TakeBinding, Stations, Station, StoreTypes
<1>3. CASE KeepPending(k)
  BY <1>0, <1>3, CleaningMoves DEF KeepPending, Active, StoreTypes
<1>4. CASE Restore(k) \/ Forget(k)
  BY <1>0, <1>4 DEF Restore, Forget, Active, StoreTypes, Stations, Station
<1>5. QED
  BY <1>1, <1>2, <1>3, <1>4 DEF Request, ClaimState, Resolve, GetPending, ConsumeCallbackState,
       Exchange, ReadForViewer, Viewed, CapabilitiesFail, ReadForBind, Bind, Attach,
       ReadForDiscard, Discard, ReleaseState, ConsumeState, Crash, stores

\* The state record is written by a claim, and by the callback that holds it.
LEMMA StatesWritten ==
  ASSUME TypeOK, Stations, NEW k \in Requests, Request(k),
         NEW s \in OAuth, oauth'[s] # oauth[s]
  PROVE  /\ signIn[k] = s
         /\ \/ /\ ClaimState(k) /\ Claimable(s)
               /\ oauth'[s] # None /\ oauth'[s].lease # 0
            \/ ReleaseState(k) /\ Active(k, s) /\ Ends(k)
            \/ ConsumeState(k) /\ Active(k, s) /\ oauth'[s] = None
<1> USE TypesSplit
<1>0. signIn[k] = s
  BY RequestsWriteTheirOwn
<1>1. ASSUME NEW t \in SignIns, ReadMetadata(k, t) \/ ResolveComplete(k, t)
      PROVE  UNCHANGED oauth
  BY <1>1 DEF ReadMetadata, ResolveComplete, stores
<1>2. CASE ClaimState(k)
  <2>1. Claimable(s) /\ oauth'[s] = [rev |-> oauth[s].rev + 1, lease |-> now + LeaseTime]
    BY <1>0, <1>2 DEF ClaimState, StoreTypes
  <2>2. oauth'[s] \in StateRecords \cup {None}
    BY StoresKeepTypes DEF StoreTypes
  <2>3. oauth'[s].lease # 0
    BY <2>1, ConstantsAssumption DEF StoreTypes
  <2>4. oauth[s] \in StateRecords
    BY <2>1 DEF Claimable, StoreTypes
  <2>5. oauth'[s] \in StateRecords
    BY <2>1, <2>4, ConstantsAssumption DEF Claimable, StateRecords, StoreTypes
  <2>6. QED
    BY <1>0, <1>2, <2>1, <2>3, <2>5, ConstantsAssumption
<1>3. CASE ReleaseState(k)
  BY <1>0, <1>3, CleaningMoves DEF ReleaseState, Active
<1>4. CASE ConsumeState(k)
  BY <1>0, <1>4 DEF ConsumeState, Active, StoreTypes
<1>5. QED
  BY <1>1, <1>2, <1>3, <1>4 DEF Request, Resolve, TakeBinding, GetPending, ConsumeCallbackState,
       Exchange, ReadForViewer, Viewed, CapabilitiesFail, ReadForBind, Bind, Attach,
       ReadForDiscard, Discard, KeepPending, Restore, Forget, Crash, stores

\* What the steps of no request write. The records of a sign-in are written when it is begun;
\* a session that a logout works on is the only one that goes, and the browser session goes
\* with it.
LEMMA RestWrites ==
  ASSUME TypeOK, Stations, Elsewhere
  PROVE  /\ UNCHANGED <<origin, exchanges, pc, signIn, claim, pending, seen, sess, arev>>
         /\ mishaps' \in {mishaps, mishaps \cup {"loss"}}
         /\ signedOut \subseteq signedOut'
         /\ \A s \in SignIns :
              \/ /\ meta'[s] = meta[s] /\ deadline'[s] = deadline[s]
                 /\ s \in OAuth => oauth'[s] = oauth[s] /\ (s \in callback' <=> s \in callback)
              \/ /\ deadline[s] = 0 /\ deadline'[s] # 0
                 /\ meta'[s] \in {meta[s], [pending |-> None]}
         /\ \A a \in Auths : auth'[a] # auth[a] =>
              /\ auth[a] # None
              /\ \/ a \in signedOut
                 \/ browser # None /\ browser.attached = a /\ auth'[a] # None
                 \/ auth'[a] # None /\ \A k \in Requests : Deletes(k, a) => mishaps' # {}
         /\ \/ browser' = browser
            \/ browser = None /\ browser' = Anonymous
            \/ /\ browser' = None
               /\ browser = None \/ browser.attached = None \/ browser.attached \in signedOut'
<1> USE TypesSplit
<1>1. ASSUME NEW t \in SignIns, Start(t)
      PROVE  /\ UNCHANGED <<origin, exchanges, mishaps, requests, auth, signedOut>>
             /\ browser' = browser \/ (browser = None /\ browser' = Anonymous)
             /\ \A s \in SignIns :
                  \/ /\ meta'[s] = meta[s] /\ deadline'[s] = deadline[s]
                     /\ s \in OAuth => oauth'[s] = oauth[s] /\ (s \in callback' <=> s \in callback)
                  \/ /\ deadline[s] = 0 /\ deadline'[s] # 0
                     /\ meta'[s] \in {meta[s], [pending |-> None]}
  <2>1. /\ UNCHANGED <<origin, exchanges, mishaps, requests, auth, signedOut>>
        /\ browser' = browser \/ (browser = None /\ browser' = Anonymous)
    BY <1>1 DEF Start, Promoted, history
  <2>2. \A s \in SignIns : s # t => deadline'[s] = deadline[s] /\ meta'[s] = meta[s]
    BY <1>1 DEF Start, StoreTypes
  <2>3. \A s \in OAuth : s # t => oauth'[s] = oauth[s] /\ (s \in callback' <=> s \in callback)
    BY <1>1 DEF Start, StoreTypes
  <2>4. CASE UNCHANGED <<oauth, meta, callback, deadline>>
    BY <2>1, <2>4
  <2>5. CASE ~UNCHANGED <<oauth, meta, callback, deadline>>
    <3>1. deadline[t] = 0 /\ deadline'[t] # 0
      BY <1>1, <2>5, ConstantsAssumption DEF Start, StoreTypes
    <3>2. meta'[t] \in {meta[t], [pending |-> None]}
      BY <1>1, <2>5 DEF Start, StoreTypes
    <3>3. QED
      BY <2>1, <2>2, <2>3, <3>1, <3>2
  <2>6. QED
    BY <2>4, <2>5
<1>2. ASSUME NEW a \in Auths, Use(a)
      PROVE  /\ UNCHANGED <<oauth, meta, callback, deadline, origin, browser, now, requests, logout,
                            history>>
             /\ \A b \in Auths : auth'[b] # auth[b] =>
                  auth[b] # None /\ browser # None /\ browser.attached = b /\ auth'[b] # None
  <2>1. auth[a] + 1 # None
    BY <1>2, ConstantsAssumption DEF Use, StoreTypes
  <2>2. QED
    BY <1>2, <2>1 DEF Use, StoreTypes
<1>3. CASE Revoke \/ DeleteForLogout
  <2>1. logout.sess \in signedOut /\ logout.sess \in Auths
    BY <1>3 DEF Revoke, DeleteForLogout, Stations, HistoryTypes
  <2>2. \A b \in Auths : auth'[b] # auth[b] => b = logout.sess
    BY <1>3 DEF Revoke, DeleteForLogout, StoreTypes
  <2>3. auth'[logout.sess] # auth[logout.sess] => auth[logout.sess] # None
    <3>1. CASE Revoke
      <4>1. \A r \in {auth[logout.sess]} \cap 0..(MaxRevision - 1) : r # None
        BY ConstantsAssumption
      <4>2. QED
        BY <2>1, <3>1, <4>1 DEF Revoke, StoreTypes
    <3>2. CASE DeleteForLogout
      <4>1. logout.arev # None
        BY ConstantsAssumption DEF HistoryTypes
      <4>2. QED
        BY <3>2, <4>1 DEF DeleteForLogout, StoreTypes
    <3>3. QED
      BY <1>3, <3>1, <3>2
  <2>4. UNCHANGED <<oauth, meta, callback, deadline, origin, browser, now, requests, history>>
    BY <1>3 DEF Revoke, DeleteForLogout
  <2>5. QED
    BY <2>1, <2>2, <2>3, <2>4 DEF requests, history
<1>4. CASE StartLogout \/ ReadForLogout \/ Tick
  <2>1. /\ UNCHANGED <<oauth, meta, callback, deadline, auth, origin, browser, requests>>
        /\ exchanges' = exchanges /\ mishaps' = mishaps /\ signedOut \subseteq signedOut'
    BY <1>4 DEF StartLogout, ReadForLogout, Tick, stores, history
  <2>2. QED
    BY <2>1 DEF requests
<1>5. CASE DropBrowser
  <2>1. /\ UNCHANGED <<oauth, meta, callback, deadline, auth, origin, requests>>
        /\ exchanges' = exchanges /\ mishaps' = mishaps /\ signedOut \subseteq signedOut'
        /\ browser' = None
        /\ browser = None \/ browser.attached = None \/ browser.attached \in signedOut'
    BY <1>5 DEF DropBrowser
  <2>2. QED
    BY <2>1 DEF requests
<1>6. ASSUME NEW a \in Auths, LateWrite(a)
      PROVE  /\ UNCHANGED <<oauth, meta, callback, deadline, origin, browser, requests, exchanges,
                            signedOut>>
             /\ mishaps' \in {mishaps, mishaps \cup {"loss"}}
             /\ \A b \in Auths : auth'[b] # auth[b] =>
                  /\ auth[b] # None /\ auth'[b] # None
                  /\ \A k \in Requests : Deletes(k, b) => mishaps' # {}
  <2>1. /\ UNCHANGED <<oauth, meta, callback, deadline, origin, browser, requests, exchanges,
                       signedOut>>
        /\ mishaps' \in {mishaps, mishaps \cup {"loss"}}
    BY <1>6 DEF LateWrite
  <2>2. CASE auth' = auth
    BY <2>1, <2>2
  <2>3. CASE /\ auth[a] # None /\ auth' = [auth EXCEPT ![a] = @ + 1]
             /\ mishaps' = IF \E k \in Requests : Deletes(k, a)
                           THEN mishaps \cup {"loss"} ELSE mishaps
    <3>1. auth[a] + 1 # None
      BY <2>3, ConstantsAssumption DEF StoreTypes
    <3>2. QED
      BY <2>1, <2>3, <3>1 DEF StoreTypes
  <2>4. QED
    BY <1>6, <2>2, <2>3 DEF LateWrite
<1>7. QED
  BY <1>1, <1>2, <1>3, <1>4, <1>5, <1>6 DEF Elsewhere, requests, history

-----------------------------------------------------------------------------
(* Sign-ins that have not begun, and which sessions belong to which sign-in *)

Unstarted ==
  \A s \in SignIns : deadline[s] = 0 =>
    /\ meta[s] = None
    /\ \A a \in Auths : origin[a] # s
    /\ \A k \in Requests : signIn[k] # s
    /\ s \in OAuth => s \notin callback /\ oauth[s] = None /\ exchanges[s] = 0

\* A session that a request works on, or that a record keeps, was created for that sign-in;
\* one that is stored or attached was created.
Links ==
  /\ \A k \in Requests : \A a \in Auths : a = sess[k] \/ a = pending[k] => origin[a] = signIn[k]
  /\ \A s \in SignIns : \A a \in Auths : meta[s] = [pending |-> a] => origin[a] = s
  /\ \A a \in Auths : auth[a] # None => origin[a] # None
  /\ browser # None /\ browser.attached # None => origin[browser.attached] # None

LEMMA UnstartedKept ==
  ASSUME TypeOK, Stations, Unstarted, NEW k \in Requests, Request(k)
  PROVE  Unstarted'
<1> SUFFICES ASSUME NEW s \in SignIns, deadline[s] = 0
             PROVE  /\ meta'[s] = None
                    /\ \A a \in Auths : origin'[a] # s
                    /\ \A j \in Requests : signIn'[j] # s
                    /\ s \in OAuth => s \notin callback' /\ oauth'[s] = None /\ exchanges'[s] = 0
  BY RequestsWriteTheirOwn DEF Unstarted
<1>1. /\ meta[s] = None /\ signIn[k] # s /\ s # None
      /\ \A a \in Auths : origin[a] # s
      /\ \A j \in Requests : signIn[j] # s
      /\ s \in OAuth => s \notin callback /\ oauth[s] = None /\ exchanges[s] = 0
  BY ConstantsAssumption DEF Unstarted
<1>2. /\ meta'[s] = None
      /\ \A a \in Auths : origin'[a] # s
      /\ s \in OAuth => s \notin callback' /\ oauth'[s] = None /\ exchanges'[s] = 0
  BY <1>1, RequestsWriteTheirOwn
<1>3. signIn'[k] # s
  BY <1>1, SignInsHeld DEF ReadMetadata, ResolveComplete
<1>4. \A j \in Requests : signIn'[j] # s
  BY <1>1, <1>3, RequestsMoveAlone DEF OthersStay, Stays
<1>5. QED
  BY <1>2, <1>4

LEMMA UnstartedRest ==
  ASSUME TypeOK, Stations, Unstarted, Elsewhere
  PROVE  Unstarted'
BY RestWrites DEF Unstarted, SignIns

\* Nobody has a session that was not created yet.
LEMMA Uncreated ==
  ASSUME Stations, Links, NEW a \in Auths, origin[a] = None
  PROVE  /\ \A k \in Requests : sess[k] # a /\ pending[k] # a
         /\ \A s \in SignIns : meta[s] # [pending |-> a]
         /\ auth[a] = None
<1>1. ASSUME NEW k \in Requests, sess[k] = a \/ pending[k] = a
      PROVE  FALSE
  BY <1>1, ConstantsAssumption DEF Links, Stations, Station
<1>2. QED
  BY <1>1, ConstantsAssumption DEF Links

\* What a request works on next it had before, has found in the records of its sign-in, or
\* has just created.
LEMMA SessionsHeld ==
  ASSUME TypeOK, Stations, Links, NEW k \in Requests, Request(k),
         NEW a \in Auths, a = sess'[k] \/ a = pending'[k]
  PROVE  /\ origin[a] = signIn[k] \/ (Exchange(k) /\ origin[a] = None) \/ pc[k] = "idle"
         /\ origin'[a] = signIn'[k]
<1> USE TypesSplit
<1>0. /\ a # None
      /\ a = sess[k] \/ a = pending[k] => origin[a] = signIn[k]
      /\ pc[k] = "idle" => sess[k] = None /\ pending[k] = None
  BY ConstantsAssumption DEF Links, Stations, Station
<1>1. ASSUME ~Exchange(k)
      PROVE  origin'[a] = origin[a]
  BY <1>1, RequestsWriteTheirOwn
<1>2. ASSUME NEW s \in SignIns, ReadMetadata(k, s) \/ ResolveComplete(k, s)
      PROVE  pc[k] = "idle" /\ origin'[a] = signIn'[k]
  <2>1. pc[k] = "idle" /\ ~Exchange(k)
    BY <1>2 DEF ReadMetadata, ResolveComplete, Exchange
  <2>2. CASE ReadMetadata(k, s)
    <3>1. meta[s] \in Metadata
      BY <2>2 DEF ReadMetadata, StoreTypes
    <3>2. a = meta[s].pending
      BY <1>0, <2>1, <2>2, FirstMoves
    <3>3. meta[s] = [pending |-> a]
      BY <3>1, <3>2 DEF Metadata
    <3>4. origin[a] = s
      BY <3>3 DEF Links
    <3>5. QED
      BY <1>1, <2>1, <2>2, <3>4, FirstMoves
  <2>3. CASE ResolveComplete(k, s)
    BY <1>0, <2>1, <2>3, FirstMoves
  <2>4. QED
    BY <1>2, <2>1, <2>2, <2>3
<1>3. CASE TakeBinding(k)
  <2>1. ~Exchange(k) /\ signIn[k] \in SignIns /\ sess[k] = None
    BY <1>3 DEF TakeBinding, Exchange, Stations, Station, NotYet, SignIns
  <2>2. CASE Ends(k)
    BY <1>0, <2>2 DEF Ends
  <2>3. CASE ~Ends(k)
    <3>1. /\ meta[signIn[k]] # None /\ signIn'[k] = signIn[k]
          /\ pending'[k] = meta[signIn[k]].pending /\ sess'[k] = None
      BY <1>3, <2>1, <2>3, TakeMoves
    <3>2. meta[signIn[k]] \in Metadata
      BY <2>1, <3>1 DEF StoreTypes
    <3>3. meta[signIn[k]] = [pending |-> a]
      BY <1>0, <3>1, <3>2 DEF Metadata
    <3>4. origin[a] = signIn[k]
      BY <2>1, <3>3 DEF Links
    <3>5. QED
      BY <1>1, <2>1, <3>1, <3>4
  <2>4. QED
    BY <2>2, <2>3
<1>4. CASE Exchange(k)
  <2>1. CASE a = pending'[k] /\ a # sess'[k]
    <3>1. a = pending[k] /\ signIn'[k] = signIn[k]
      BY <1>0, <1>4, <2>1, SessionMoves DEF Goes, Ends, Closes, FailsForNow
    <3>2. QED
      BY <1>0, <1>4, <3>1 DEF Exchange, Stations, Station
  <2>2. CASE a = sess'[k]
    <3>1. sess[k] = None
      BY <1>4 DEF Exchange, Stations, Station, NotYet
    <3>2. ~(Closes(k) \/ FailsForNow(k))
      BY <1>0, <2>2, <3>1 DEF Closes, FailsForNow, Goes, Ends
    <3>3. origin[a] = None /\ origin'[a] = signIn[k] /\ signIn'[k] = signIn[k]
      BY <1>4, <2>2, <3>2, SessionMoves DEF StoreTypes
    <3>4. QED
      BY <1>4, <3>3
  <2>3. QED
    BY <2>1, <2>2
<1>5. CASE signIn'[k] = signIn[k] /\ (a = sess[k] \/ a = pending[k]) /\ ~Exchange(k)
  BY <1>0, <1>1, <1>5
<1>6. CASE /\ ~Exchange(k) /\ ~TakeBinding(k)
           /\ \A s \in SignIns : ~ReadMetadata(k, s) /\ ~ResolveComplete(k, s)
  <2>1. CASE ClaimState(k) \/ Resolve(k) \/ GetPending(k) \/ ConsumeCallbackState(k)
    BY <1>0, <1>5, <1>6, <2>1, ClaimMoves, ResolveMoves, GetPendingMoves, SessionMoves
       DEF Goes, Ends, Closes
  <2>2. CASE \/ ReadForViewer(k) \/ Viewed(k) \/ CapabilitiesFail(k)
             \/ ReadForBind(k) \/ Bind(k) \/ Attach(k)
    BY <1>0, <1>5, <1>6, <2>2, CompletionMoves DEF Goes, Ends
  <2>3. CASE \/ ReadForDiscard(k) \/ Discard(k) \/ KeepPending(k) \/ Restore(k)
             \/ ReleaseState(k) \/ ConsumeState(k) \/ Forget(k) \/ Crash(k)
    BY <1>0, <1>5, <1>6, <2>3, CleaningMoves DEF Goes, Ends, Closes
  <2>4. QED
    BY <1>6, <2>1, <2>2, <2>3 DEF Request
<1>7. QED
  BY <1>2, <1>3, <1>4, <1>6

\* What was created stays so, for the sign-in it was created for.
LEMMA OriginsStay ==
  ASSUME TypeOK, Stations, NEW k \in Requests, Request(k),
         NEW a \in Auths, origin[a] # None
  PROVE  origin'[a] = origin[a]
BY RequestsWriteTheirOwn

LEMMA LinksKept ==
  ASSUME TypeOK, Stations, Links, NEW k \in Requests, Request(k)
  PROVE  Links'
<1> USE TypesSplit
<1>1. ASSUME NEW j \in Requests, NEW a \in Auths, a = sess'[j] \/ a = pending'[j]
      PROVE  origin'[a] = signIn'[j]
  <2>1. CASE j = k
    BY <1>1, <2>1, SessionsHeld
  <2>2. CASE j # k
    <3>1. a = sess[j] \/ a = pending[j]
      BY <1>1, <2>2, RequestsMoveAlone DEF OthersStay, Stays
    <3>2. origin[a] = signIn[j] /\ origin[a] # None
      BY <3>1, Uncreated DEF Links
    <3>3. QED
      BY <2>2, <3>2, OriginsStay, RequestsMoveAlone DEF OthersStay, Stays
  <2>3. QED
    BY <2>1, <2>2
<1>2. ASSUME NEW s \in SignIns, NEW a \in Auths, meta'[s] = [pending |-> a]
      PROVE  origin'[a] = s
  <2>1. s # None /\ a # None
    BY ConstantsAssumption
  <2>2. CASE meta'[s] = meta[s]
    BY <1>2, <2>1, <2>2, OriginsStay DEF Links
  <2>3. CASE meta'[s] # meta[s]
    <3>1. [pending |-> a] # [pending |-> None] /\ [pending |-> a] # None
      BY <2>1, ConstantsAssumption DEF Metadata
    <3>2. signIn[k] = s /\ meta'[s] = [pending |-> sess[k]]
      BY <1>2, <2>3, <3>1, MetadataWritten
    <3>3. [pending |-> a].pending = [pending |-> sess[k]].pending
      BY <1>2, <3>2
    <3>4. a = sess[k]
      BY <3>3
    <3>5. QED
      BY <2>1, <3>2, <3>4, OriginsStay DEF Links
  <2>4. QED
    BY <2>2, <2>3
<1>3. ASSUME NEW a \in Auths, auth'[a] # None
      PROVE  origin'[a] # None
  <2>1. CASE auth[a] # None
    BY <2>1, OriginsStay DEF Links
  <2>2. CASE auth[a] = None
    <3>1. Exchange(k) /\ sess'[k] = a
      BY <1>3, <2>2, SessionsWritten
    <3>2. origin'[a] = signIn'[k]
      BY <1>1, <3>1
    <3>3. pc'[k] # "idle"
      BY <3>1, StationsKept, ConstantsAssumption DEF Stations, Station
    <3>4. QED
      BY <3>2, <3>3, StationsKept DEF Stations, Station
  <2>3. QED
    BY <2>1, <2>2
<1>4. ASSUME browser' # None, browser'.attached # None
      PROVE  origin'[browser'.attached] # None
  <2>1. CASE browser' = browser
    <3>1. browser.attached \in Auths /\ origin[browser.attached] # None
      BY <1>4, <2>1 DEF StoreTypes, Links
    <3>2. QED
      BY <2>1, <3>1, OriginsStay
  <2>2. CASE browser' # browser
    <3>1. browser'.attached = sess[k] /\ sess[k] \in Auths /\ signIn[k] \in SignIns
      BY <2>2, BrowserWritten
    <3>2. origin[sess[k]] # None
      BY <3>1, ConstantsAssumption DEF Links
    <3>3. QED
      BY <3>1, <3>2, OriginsStay
  <2>3. QED
    BY <2>1, <2>2
<1>5. QED
  BY <1>1, <1>2, <1>3, <1>4 DEF Links

LEMMA LinksRest ==
  ASSUME TypeOK, Stations, Links, Elsewhere
  PROVE  Links'
<1>1. \A a \in Auths : [pending |-> a] # [pending |-> None]
  <2>1. ASSUME NEW a \in Auths, [pending |-> a] = [pending |-> None]
        PROVE  FALSE
    <3>1. [pending |-> a].pending = [pending |-> None].pending
      BY <2>1
    <3>2. QED
      BY <3>1, ConstantsAssumption
  <2>2. QED
    BY <2>1
<1>2. \A s \in SignIns : \A a \in Auths : meta'[s] = [pending |-> a] => meta[s] = [pending |-> a]
  BY <1>1, RestWrites
<1>3. QED
  BY <1>2, RestWrites DEF Links, Anonymous

-----------------------------------------------------------------------------
(* One code, one session for each sign-in *)

\* The code of a sign-in can be sent while its callback state is registered, by one request.
Sent ==
  \A s \in OAuth :
    /\ exchanges[s] <= 1
    /\ s \in callback =>
         exchanges[s] = 0 /\ \A k \in Requests : ~(signIn[k] = s /\ pc[k] = "remote")
    /\ \A k \in Requests : signIn[k] = s /\ pc[k] = "remote" =>
         /\ exchanges[s] = 0
         /\ \A j \in Requests : signIn[j] = s /\ pc[j] = "remote" => j = k
    /\ \A a \in Auths : origin[a] = s => exchanges[s] # 0

\* A binding is with the store or with one request, and it is without a session until the
\* session has been created.
Bound ==
  \A s \in Challenges :
    /\ \A j, k \in Requests : Active(j, s) /\ Active(k, s) => j = k
    /\ meta[s] # None => \A k \in Requests : ~Active(k, s)
    /\ meta[s] = [pending |-> None] => \A a \in Auths : origin[a] # s
    /\ \A k \in Requests : signIn[k] = s /\ pc[k] \in {"remote", "restore"} =>
         \A a \in Auths : origin[a] # s

\* A request comes to send the proof of its sign-in in two ways, and may give the binding back
\* in one.
LEMMA RemoteReached ==
  ASSUME TypeOK, Stations, NEW k \in Requests, Request(k)
  PROVE  /\ exchanges' # exchanges => Exchange(k)
         /\ Exchange(k) => pc'[k] # "remote"
         /\ pc'[k] = "remote" =>
              \/ ConsumeCallbackState(k) /\ signIn[k] \in callback /\ signIn[k] \notin callback'
              \/ signIn[k] \in Challenges /\ meta[signIn[k]] = [pending |-> None]
         /\ pc'[k] = "restore" => pc[k] = "remote" /\ UNCHANGED <<auth, origin>>
<1> USE TypesSplit
<1>1. ASSUME NEW s \in SignIns, ReadMetadata(k, s) \/ ResolveComplete(k, s)
      PROVE  exchanges' = exchanges /\ pc'[k] \notin {"remote", "restore"}
  BY <1>1, FirstMoves DEF ReadMetadata, ResolveComplete, history
<1>2. CASE ClaimState(k) \/ Resolve(k) \/ GetPending(k)
  <2>1. exchanges' = exchanges
    BY <1>2 DEF ClaimState, Resolve, GetPending, history
  <2>2. pc'[k] \notin {"remote", "restore"}
    BY <1>2, ClaimMoves, ResolveMoves, GetPendingMoves DEF Goes, Ends, Closes
  <2>3. QED
    BY <1>2, <2>1, <2>2 DEF ClaimState, Resolve, GetPending, Exchange
<1>3. CASE TakeBinding(k)
  <2>1. signIn[k] \in Challenges /\ exchanges' = exchanges /\ ~Exchange(k)
    BY <1>3 DEF TakeBinding, Exchange, Stations, Station, history
  <2>2. pc'[k] # "restore"
    BY <1>3, TakeMoves DEF Ends
  <2>3. ASSUME pc'[k] = "remote"
        PROVE  meta[signIn[k]] = [pending |-> None]
    <3>1. meta[signIn[k]] # None /\ meta[signIn[k]].pending = None
      BY <1>3, <2>3, TakeMoves DEF Ends
    <3>2. meta[signIn[k]] \in Metadata
      BY <2>1, <3>1 DEF StoreTypes, SignIns
    <3>3. QED
      BY <3>1, <3>2 DEF Metadata
  <2>4. QED
    BY <2>1, <2>2, <2>3
<1>4. CASE ConsumeCallbackState(k)
  <2>1. exchanges' = exchanges /\ ~Exchange(k) /\ signIn[k] \notin callback'
    BY <1>4 DEF ConsumeCallbackState, Exchange, history
  <2>2. /\ pc'[k] = "remote" => signIn[k] \in callback
        /\ pc'[k] # "restore"
    BY <1>4, SessionMoves DEF Goes, Ends, Closes
  <2>3. QED
    BY <1>4, <2>1, <2>2
<1>5. CASE Exchange(k)
  BY <1>5, SessionMoves DEF Exchange, Goes, Ends, Closes, FailsForNow
<1>6. CASE \/ ReadForViewer(k) \/ Viewed(k) \/ CapabilitiesFail(k)
           \/ ReadForBind(k) \/ Bind(k) \/ Attach(k)
  <2>1. exchanges' = exchanges
    BY <1>6 DEF ReadForViewer, Viewed, CapabilitiesFail, ReadForBind, Bind, Attach, history
  <2>2. pc'[k] \notin {"remote", "restore"}
    BY <1>6, CompletionMoves DEF Goes, Ends
  <2>3. QED
    BY <2>1, <2>2
<1>7. CASE \/ ReadForDiscard(k) \/ Discard(k) \/ KeepPending(k) \/ Restore(k)
           \/ ReleaseState(k) \/ ConsumeState(k) \/ Forget(k) \/ Crash(k)
  <2>1. exchanges' = exchanges
    BY <1>7 DEF ReadForDiscard, Discard, KeepPending, Restore, ReleaseState, ConsumeState, Forget,
                Crash, history
  <2>2. pc'[k] \notin {"remote", "restore"}
    BY <1>7, CleaningMoves DEF Goes, Ends, Closes
  <2>3. QED
    BY <2>1, <2>2
<1>8. QED
  BY <1>1, <1>2, <1>3, <1>4, <1>5, <1>6, <1>7 DEF Request

\* A request that goes on works on the sign-in it had.
LEMMA SameSignIn ==
  ASSUME TypeOK, Stations, NEW k \in Requests, Request(k),
         pc'[k] \notin {"idle", "claim", "take"}
  PROVE  signIn'[k] = signIn[k] /\ signIn[k] # None
<1>1. \A s \in SignIns : ~ReadMetadata(k, s) /\ ~ResolveComplete(k, s)
  BY FirstMoves
<1>2. signIn'[k] # None
  BY StationsKept DEF Stations, Station
<1>3. QED
  BY <1>1, <1>2, SignInsHeld

LEMMA SentKept ==
  ASSUME TypeOK, Stations, Sent, NEW k \in Requests, Request(k)
  PROVE  Sent'
<1> USE TypesSplit
<1> SUFFICES ASSUME NEW s \in OAuth
             PROVE  /\ exchanges'[s] <= 1
                    /\ s \in callback' =>
                         /\ exchanges'[s] = 0
                         /\ \A j \in Requests : ~(signIn'[j] = s /\ pc'[j] = "remote")
                    /\ \A j \in Requests : signIn'[j] = s /\ pc'[j] = "remote" =>
                         /\ exchanges'[s] = 0
                         /\ \A i \in Requests : signIn'[i] = s /\ pc'[i] = "remote" => i = j
                    /\ \A a \in Auths : origin'[a] = s => exchanges'[s] # 0
  BY DEF Sent
<1>0. /\ s \in SignIns /\ s # None /\ s \notin Challenges
      /\ exchanges[s] <= 1
      /\ s \in callback =>
           exchanges[s] = 0 /\ \A j \in Requests : ~(signIn[j] = s /\ pc[j] = "remote")
      /\ \A j \in Requests : signIn[j] = s /\ pc[j] = "remote" =>
           /\ exchanges[s] = 0
           /\ \A i \in Requests : signIn[i] = s /\ pc[i] = "remote" => i = j
      /\ \A a \in Auths : origin[a] = s => exchanges[s] # 0
  BY ConstantsAssumption DEF Sent, SignIns
<1>1. \A j \in Requests : j # k => signIn'[j] = signIn[j] /\ pc'[j] = pc[j]
  BY RequestsMoveAlone DEF OthersStay, Stays
<1>2. s \in callback' => s \in callback
  BY RequestsWriteTheirOwn
<1>3. pc'[k] = "remote" => signIn'[k] = signIn[k]
  BY SameSignIn
<1>4. CASE Exchange(k) /\ signIn[k] = s
  <2>1. exchanges[s] = 0 /\ s \notin callback /\ pc'[k] # "remote"
    BY <1>0, <1>4, RemoteReached DEF Exchange
  <2>2. exchanges'[s] = 1
    BY <1>4, <2>1 DEF Exchange, HistoryTypes
  <2>3. \A j \in Requests : ~(signIn'[j] = s /\ pc'[j] = "remote")
    BY <1>0, <1>1, <1>4, <2>1 DEF Exchange
  <2>4. QED
    BY <1>2, <2>1, <2>2, <2>3
<1>5. CASE ~(Exchange(k) /\ signIn[k] = s)
  <2>1. /\ exchanges'[s] = exchanges[s]
        /\ \A a \in Auths : origin'[a] = s => origin[a] = s
    BY <1>0, <1>5, RequestsWriteTheirOwn, RemoteReached
  <2>2. CASE pc'[k] = "remote" /\ signIn[k] = s
    <3>1. s \in callback /\ s \notin callback'
      BY <1>0, <2>2, RemoteReached
    <3>2. QED
      BY <1>0, <1>1, <2>1, <2>2, <3>1
  <2>3. CASE ~(pc'[k] = "remote" /\ signIn[k] = s)
    <3>1. \A j \in Requests : signIn'[j] = s /\ pc'[j] = "remote" =>
            signIn[j] = s /\ pc[j] = "remote"
      BY <1>1, <1>3, <2>3
    <3>2. QED
      BY <1>0, <1>2, <2>1, <3>1
  <2>4. QED
    BY <2>2, <2>3
<1>6. QED
  BY <1>4, <1>5

LEMMA SentRest ==
  ASSUME TypeOK, Stations, Unstarted, Sent, Elsewhere
  PROVE  Sent'
<1>1. \A s \in OAuth : /\ s \in SignIns
                       /\ (s \in callback' <=> s \in callback) \/ deadline[s] = 0
  BY RestWrites DEF SignIns
<1>2. \A s \in OAuth : deadline[s] = 0 =>
        exchanges[s] = 0 /\ \A k \in Requests : signIn[k] # s
  BY <1>1 DEF Unstarted
<1>3. QED
  BY <1>1, <1>2, RestWrites DEF Sent

LEMMA BoundKept ==
  ASSUME TypeOK, Stations, Links, Bound, NEW k \in Requests, Request(k)
  PROVE  Bound'
<1> USE TypesSplit
<1> SUFFICES ASSUME NEW s \in Challenges
             PROVE  /\ \A i, j \in Requests : Active(i, s)' /\ Active(j, s)' => i = j
                    /\ meta'[s] # None => \A j \in Requests : ~Active(j, s)'
                    /\ meta'[s] = [pending |-> None] => \A a \in Auths : origin'[a] # s
                    /\ \A j \in Requests : signIn'[j] = s /\ pc'[j] \in {"remote", "restore"} =>
                         \A a \in Auths : origin'[a] # s
  BY DEF Bound, Active
<1>0. /\ s \in SignIns /\ s # None /\ s \notin OAuth
      /\ \A i, j \in Requests : Active(i, s) /\ Active(j, s) => i = j
      /\ meta[s] # None => \A j \in Requests : ~Active(j, s)
      /\ meta[s] = [pending |-> None] => \A a \in Auths : origin[a] # s
      /\ \A j \in Requests : signIn[j] = s /\ pc[j] \in {"remote", "restore"} =>
           \A a \in Auths : origin[a] # s
      /\ [pending |-> None] # None
  BY ConstantsAssumption DEF Bound, SignIns, Metadata
<1>1. \A j \in Requests : j # k => signIn'[j] = signIn[j] /\ pc'[j] = pc[j]
  BY RequestsMoveAlone DEF OthersStay, Stays
<1>2. CASE \E j \in Requests : Active(j, s)' /\ ~Active(j, s)
  <2>1. PICK j \in Requests : Active(j, s)' /\ ~Active(j, s)
    BY <1>2
  <2>2. j = k /\ meta[s] # None /\ meta'[s] = None
    BY <1>0, <2>1, ActivityBegins
  <2>3. TakeBinding(k) /\ (pc'[k] = "remote" => meta[s].pending = None)
    BY <1>0, <2>1, ActivityBegins
  <2>4. \A i \in Requests : ~Active(i, s)
    BY <1>0, <2>2
  <2>5. \A i \in Requests : Active(i, s)' => i = k
    BY <1>1, <2>4 DEF Active
  <2>6. ~Exchange(k)
    BY <2>3 DEF TakeBinding, Exchange
  <2>7. \A a \in Auths : origin'[a] = origin[a]
    BY <2>6, RequestsWriteTheirOwn
  <2>8. pc'[k] # "restore"
    BY <2>3, RemoteReached DEF TakeBinding
  <2>9. pc'[k] = "remote" => meta[s] = [pending |-> None]
    BY <1>0, <2>2, <2>3 DEF StoreTypes, Metadata
  <2>10. \A i \in Requests : signIn'[i] = s /\ pc'[i] \in {"remote", "restore"} => i = k
    BY <2>5 DEF Active
  <2>11. QED
    BY <1>0, <2>2, <2>5, <2>7, <2>8, <2>9, <2>10
<1>3. CASE \A j \in Requests : Active(j, s)' => Active(j, s)
  <2>1. \A i, j \in Requests : Active(i, s)' /\ Active(j, s)' => i = j
    BY <1>0, <1>3
  <2>2. meta'[s] # None => \A j \in Requests : ~Active(j, s)'
    <3>1. CASE meta'[s] = meta[s]
      BY <1>0, <1>3, <3>1
    <3>2. CASE meta'[s] # meta[s] /\ meta'[s] # None
      <4>1. Active(k, s) /\ (KeepPending(k) \/ Restore(k)) /\ signIn[k] = s
        BY <1>0, <3>2, MetadataWritten
      <4>2. pc'[k] \in {"idle", "discard"}
        BY <1>0, <4>1, CleaningMoves DEF Goes, Ends
      <4>3. ~Active(k, s)'
        <5>1. CASE KeepPending(k)
          <6>1. sess[k] # None
            BY <5>1 DEF KeepPending, Stations, Station, Having
          <6>2. pc'[k] = "idle" \/ UNCHANGED meta
            BY <1>0, <4>1, <5>1, CleaningMoves DEF Ends
          <6>3. QED
            BY <3>2, <6>2 DEF Active
        <5>2. CASE Restore(k)
          BY <5>2, CleaningMoves DEF Ends, Active
        <5>3. QED
          BY <4>1, <5>1, <5>2
      <4>4. \A j \in Requests : j # k => ~Active(j, s)
        BY <1>0, <4>1
      <4>5. QED
        BY <1>3, <4>3, <4>4
    <3>3. QED
      BY <3>1, <3>2
  <2>3. ASSUME NEW a \in Auths, origin'[a] = s, origin[a] # s
        PROVE  Exchange(k) /\ signIn[k] = s /\ sess'[k] = a /\ Active(k, s)
    BY <1>0, <2>3, RequestsWriteTheirOwn DEF Active, Exchange
  <2>4. meta'[s] = [pending |-> None] => \A a \in Auths : origin'[a] # s
    <3>1. CASE meta'[s] = meta[s]
      BY <1>0, <2>3, <3>1
    <3>2. CASE meta'[s] # meta[s] /\ meta'[s] = [pending |-> None]
      <4>1. ~KeepPending(k)
        <5>1. ASSUME KeepPending(k)
              PROVE  FALSE
          <6>1. meta'[s] = [pending |-> sess[k]] /\ sess[k] # None
            BY <1>0, <3>2, <5>1, MetadataWritten
               DEF KeepPending, Restore, Forget, TakeBinding, Stations, Station, Having
          <6>2. [pending |-> sess[k]].pending = [pending |-> None].pending
            BY <3>2, <6>1
          <6>3. QED
            BY <6>1, <6>2
        <5>2. QED
          BY <5>1
      <4>2. Restore(k) /\ signIn[k] = s /\ pc[k] = "restore"
        BY <1>0, <3>2, <4>1, MetadataWritten
      <4>3. \A a \in Auths : origin'[a] = origin[a]
        BY <4>2, RequestsWriteTheirOwn DEF Exchange
      <4>4. QED
        BY <1>0, <4>2, <4>3
    <3>3. QED
      BY <3>1, <3>2
  <2>5. ASSUME NEW j \in Requests, signIn'[j] = s, pc'[j] \in {"remote", "restore"}
        PROVE  \A a \in Auths : origin'[a] # s
    <3>1. Active(j, s)' /\ Active(j, s)
      BY <1>3, <2>5 DEF Active
    <3>2. CASE j # k
      BY <1>0, <1>1, <2>3, <2>5, <3>1, <3>2
    <3>3. CASE j = k
      <4>1. pc[k] \in {"remote"} /\ UNCHANGED <<auth, origin>>
        <5>1. ~(pc'[k] = "remote")
          <6>1. ASSUME pc'[k] = "remote"
                PROVE  FALSE
            <7>1. signIn[k] = s /\ Active(k, s)
              BY <3>1, <3>3 DEF Active
            <7>2. CASE ConsumeCallbackState(k) /\ signIn[k] \in callback
              BY <1>0, <7>1, <7>2 DEF StoreTypes
            <7>3. CASE meta[s] = [pending |-> None]
              BY <1>0, <7>1, <7>3
            <7>4. QED
              BY <6>1, <7>1, <7>2, <7>3, RemoteReached
          <6>2. QED
            BY <6>1
        <5>2. QED
          BY <2>5, <3>3, <5>1, RemoteReached
      <4>2. signIn[k] = s
        BY <3>1, <3>3 DEF Active
      <4>3. QED
        BY <1>0, <4>1, <4>2
    <3>4. QED
      BY <3>2, <3>3
  <2>6. QED
    BY <2>1, <2>2, <2>4, <2>5
<1>4. QED
  BY <1>2, <1>3

LEMMA BoundRest ==
  ASSUME TypeOK, Stations, Unstarted, Bound, Elsewhere
  PROVE  Bound'
<1>1. \A s \in Challenges : s \in SignIns /\ (meta'[s] = meta[s] \/ deadline[s] = 0)
  BY RestWrites DEF SignIns
<1>2. \A s \in Challenges : deadline[s] = 0 =>
        /\ \A k \in Requests : signIn[k] # s
        /\ \A a \in Auths : origin[a] # s
  BY <1>1 DEF Unstarted
<1>3. QED
  BY <1>1, <1>2, RestWrites DEF Bound, Active

LEMMA OneSessionKept ==
  ASSUME TypeOK, Stations, Links, Sent, Bound, OneSessionPerSignIn, NEW k \in Requests, Request(k)
  PROVE  OneSessionPerSignIn'
<1>1. ASSUME NEW a \in Auths, NEW b \in Auths, origin'[a] # None, origin'[a] = origin'[b],
             a # b
      PROVE  FALSE
  <2>1. CASE origin'[a] = origin[a] /\ origin'[b] = origin[b]
    BY <1>1, <2>1 DEF OneSessionPerSignIn
  <2>2. ASSUME NEW c \in Auths, NEW d \in Auths, c # d, origin'[c] # origin[c],
               origin'[c] = origin'[d]
        PROVE  FALSE
    <3>1. Exchange(k) /\ origin'[c] = signIn[k] /\ origin[d] = signIn[k]
      BY <2>2, RequestsWriteTheirOwn
    <3>2. pc[k] = "remote"
      BY <3>1 DEF Exchange
    <3>3. signIn[k] \in OAuth \cup Challenges
      BY <3>2, TypesSplit DEF Stations, Station, RequestTypes, SignIns
    <3>4. CASE signIn[k] \in OAuth
      BY <3>1, <3>2, <3>4 DEF Sent
    <3>5. CASE signIn[k] \in Challenges
      BY <3>1, <3>2, <3>5 DEF Bound
    <3>6. QED
      BY <3>3, <3>4, <3>5
  <2>3. QED
    BY <1>1, <2>1, <2>2
<1>2. QED
  BY <1>1 DEF OneSessionPerSignIn

\* What SignsInOnceEach rests on.
OnceInv == Unstarted /\ Links /\ Sent /\ Bound /\ OneSessionPerSignIn

LEMMA OnceInvariant == Spec => []OnceInv
<1>1. Init => OnceInv
  <2> SUFFICES ASSUME Init
               PROVE  OnceInv
    OBVIOUS
  <2>1. /\ \A s \in SignIns : s # None /\ meta[s] = None
        /\ \A a \in Auths \cup {None} : [pending |-> a] # None
        /\ \A a \in Auths : a # None /\ origin[a] = None /\ auth[a] = None
        /\ \A k \in Requests : signIn[k] = None /\ pc[k] = "idle" /\ sess[k] = None
                                /\ pending[k] = None
    BY ConstantsAssumption DEF Init, Metadata
  <2>2. OAuth \subseteq SignIns /\ Challenges \subseteq SignIns
    BY DEF SignIns
  <2>3. Unstarted
    BY <2>1 DEF Init, Unstarted
  <2>4. Links
    BY <2>1 DEF Init, Links, Anonymous
  <2>5. Sent /\ Bound /\ OneSessionPerSignIn
    BY <2>1, <2>2 DEF Init, Sent, Bound, Active, OneSessionPerSignIn
  <2>6. QED
    BY <2>3, <2>4, <2>5 DEF OnceInv
<1>2. TypeOK /\ Stations /\ OnceInv /\ [Next]_vars => OnceInv'
  <2> SUFFICES ASSUME TypeOK, Stations, OnceInv, [Next]_vars
               PROVE  OnceInv'
    OBVIOUS
  <2>1. ASSUME NEW k \in Requests, Request(k)
        PROVE  OnceInv'
    BY <2>1, UnstartedKept, LinksKept, SentKept, BoundKept, OneSessionKept DEF OnceInv
  <2>2. CASE Elsewhere
    <3>1. OneSessionPerSignIn'
      BY <2>2, RestWrites DEF OnceInv, OneSessionPerSignIn
    <3>2. QED
      BY <2>2, <3>1, UnstartedRest, LinksRest, SentRest, BoundRest DEF OnceInv
  <2>3. CASE UNCHANGED vars
    BY <2>3 DEF vars, stores, requests, history, OnceInv, Unstarted, Links, Sent, Bound, Active,
                OneSessionPerSignIn
  <2>4. QED
    BY <2>1, <2>2, <2>3, StepsOfTheSystem
<1>3. QED
  BY <1>1, <1>2, TypesInvariant, PTL DEF Spec

\* Whatever callbacks and completions are replayed, retried or cut off by a crash, and however
\* the leases run out under them: the code of an OAuth sign-in is sent to the remote server at
\* most once, and no sign-in creates two sessions.
THEOREM SignsInOnceEach == Spec => []SignsInOnce
<1>1. OnceInv => SignsInOnce
  BY DEF OnceInv, Sent, SignsInOnce, ExchangedOnce
<1>2. QED
  BY <1>1, OnceInvariant, PTL

-----------------------------------------------------------------------------
(* The browser session changes hands once *)

\* Until it is signed in the browser session is as it was created, and a request that has read
\* it has read that.
First ==
  /\ browser # None => (browser.rev = 0 <=> browser.attached = None)
  /\ \A k \in Requests : seen[k] = 0

LEMMA FirstSeen ==
  ASSUME First, NEW rev, Sees(rev)
  PROVE  rev = 0
BY DEF First, Sees, Resolvable, IsAnonymous, Anonymous

LEMMA FirstKept ==
  ASSUME TypeOK, Stations, First, NEW k \in Requests, Request(k)
  PROVE  First'
<1> USE TypesSplit
<1>1. browser' # None => (browser'.rev = 0 <=> browser'.attached = None)
  <2>1. CASE browser' # browser
    <3>1. browser' = [rev |-> 1, attached |-> sess[k]] /\ sess[k] \in Auths
      BY <2>1, BrowserWritten DEF First
    <3>2. QED
      BY <3>1, ConstantsAssumption
  <2>2. QED
    BY <2>1 DEF First
<1>2. seen'[k] = 0
  <2>1. ASSUME NEW s \in SignIns, ReadMetadata(k, s)
        PROVE  seen'[k] = 0
    BY <2>1, FirstMoves DEF First
  <2>2. ASSUME NEW s \in SignIns, ResolveComplete(k, s)
        PROVE  seen'[k] = 0
    BY <2>2, FirstMoves, FirstSeen
  <2>3. CASE Resolve(k)
    BY <2>3, ResolveMoves, FirstSeen DEF First, Goes
  <2>4. CASE \/ ClaimState(k) \/ TakeBinding(k) \/ GetPending(k) \/ ConsumeCallbackState(k)
             \/ Exchange(k)
    BY <2>4, ClaimMoves, TakeMoves, GetPendingMoves, SessionMoves
       DEF First, Goes, Ends, Closes, FailsForNow
  <2>5. CASE \/ ReadForViewer(k) \/ Viewed(k) \/ CapabilitiesFail(k)
             \/ ReadForBind(k) \/ Bind(k) \/ Attach(k)
    BY <2>5, CompletionMoves DEF First, Goes, Ends
  <2>6. CASE \/ ReadForDiscard(k) \/ Discard(k) \/ KeepPending(k) \/ Restore(k)
             \/ ReleaseState(k) \/ ConsumeState(k) \/ Forget(k) \/ Crash(k)
    BY <2>6, CleaningMoves DEF First, Goes, Ends, Closes
  <2>7. QED
    BY <2>1, <2>2, <2>3, <2>4, <2>5, <2>6 DEF Request
<1>3. \A j \in Requests : j # k => seen'[j] = seen[j]
  BY RequestsMoveAlone DEF OthersStay, Stays
<1>4. QED
  BY <1>1, <1>2, <1>3 DEF First

LEMMA FirstRest ==
  ASSUME TypeOK, Stations, First, Elsewhere
  PROVE  First'
BY RestWrites DEF First, Anonymous

\* A browser session that is signed in stays as it is until it is deleted.
LEMMA AttachmentStays ==
  ASSUME TypeOK, Stations, First, Next
  PROVE  /\ browser = None => browser' \in {None, Anonymous}
         /\ browser # None /\ browser.attached # None => browser' \in {browser, None}
<1>1. ASSUME NEW k \in Requests, Request(k)
      PROVE  browser' = browser \/ (browser # None /\ browser.attached = None)
  BY <1>1, BrowserWritten DEF First
<1>2. CASE Elsewhere
  BY <1>2, RestWrites
<1>3. QED
  BY <1>1, <1>2, StepsOfTheSystem

LEMMA FirstInvariant == Spec => []First
<1>1. Init => First
  BY DEF Init, First, Anonymous
<1>2. TypeOK /\ Stations /\ First /\ [Next]_vars => First'
  <2> SUFFICES ASSUME TypeOK, Stations, First, [Next]_vars
               PROVE  First'
    OBVIOUS
  <2>1. CASE UNCHANGED vars
    BY <2>1 DEF vars, stores, requests, First
  <2>2. QED
    BY <2>1, FirstKept, FirstRest, StepsOfTheSystem
<1>3. QED
  BY <1>1, <1>2, TypesInvariant, PTL DEF Spec

\* Of two sign-ins that complete at the same time one gets the browser session, until it is
\* deleted; and no request signs in what is not stored: what a logout has deleted comes back,
\* if at all, anonymous and at its first revision.
THEOREM AttachedOnce == Spec => AttachmentIsFinal
<1>1. /\ TypeOK /\ Stations /\ First /\ [Next]_vars
      => [/\ browser = None => browser' \in {None, Anonymous}
          /\ browser # None /\ browser.attached # None => browser' \in {browser, None}]_vars
  BY AttachmentStays
<1>2. QED
  BY <1>1, TypesInvariant, FirstInvariant, PTL DEF Spec, AttachmentIsFinal

-----------------------------------------------------------------------------
(* What is attached stays *)

\* The state record of a sign-in cannot be claimed without an earlier lease running out.
Spent(s) == oauth[s] = None \/ oauth[s].lease # 0

\* As long as no lease runs out under its callback, a sign-in is with one callback.
Leased ==
  "lapse" \notin mishaps => \A s \in OAuth : \A k \in Requests : Active(k, s) =>
    Spent(s) /\ \A j \in Requests : Active(j, s) => j = k

\* A claim that nothing has gone wrong with is the first one since the last release.
LEMMA FirstClaims ==
  ASSUME TypeOK, Stations, NEW k \in Requests, NEW s \in OAuth, signIn[k] = s,
         ClaimState(k), Claimable(s), "lapse" \notin mishaps'
  PROVE  ~Spent(s)
<1>1. oauth[s] \in StateRecords /\ ~Claimed(s)
  BY DEF Claimable, TypeOK
<1>2. oauth[s].lease \notin 1..now
  BY DEF ClaimState
<1>3. oauth[s].lease = 0 /\ oauth[s] # None
  BY <1>1, <1>2, ConstantsAssumption DEF StateRecords, Claimed, TypeOK
<1>4. QED
  BY <1>3 DEF Spent

LEMMA LeasedKept ==
  ASSUME TypeOK, Stations, Leased, NEW k \in Requests, Request(k)
  PROVE  Leased'
<1> SUFFICES ASSUME "lapse" \notin mishaps', NEW s \in OAuth,
                    NEW j \in Requests, Active(j, s)'
             PROVE  Spent(s)' /\ \A i \in Requests : Active(i, s)' => i = j
  BY DEF Leased
<1>1. /\ "lapse" \notin mishaps /\ s \in SignIns /\ s # None /\ s \notin Challenges
      /\ \A i \in Requests : Active(i, s) =>
           Spent(s) /\ \A l \in Requests : Active(l, s) => l = i
  BY SignInsHeld, ConstantsAssumption DEF Leased, SignIns
<1>2. CASE \E i \in Requests : Active(i, s)' /\ ~Active(i, s)
  <2>1. signIn[k] = s /\ ClaimState(k) /\ Claimable(s)
    BY <1>1, <1>2, ActivityBegins
  <2>2. \A i \in Requests : ~Active(i, s)
    BY <1>1, <2>1, FirstClaims
  <2>3. \A i \in Requests : Active(i, s)' => i = k
    BY <1>1, <2>2, ActivityBegins
  <2>4. Spent(s)'
    <3>1. CASE oauth'[s] = oauth[s]
      <4>1. oauth'[s].rev = oauth[s].rev + 1 /\ oauth[s].rev \in Nat
        BY <2>1, ConstantsAssumption DEF ClaimState, Claimable, TypeOK, StateRecords
      <4>2. QED
        BY <3>1, <4>1
    <3>2. CASE oauth'[s] # oauth[s]
      BY <2>1, <3>2, StatesWritten DEF Spent, Active, ClaimState
    <3>3. QED
      BY <3>1, <3>2
  <2>5. QED
    BY <2>3, <2>4
<1>3. CASE \A i \in Requests : Active(i, s)' => Active(i, s)
  <2>1. \A i \in Requests : Active(i, s)' => i = j
    BY <1>1, <1>3
  <2>2. Spent(s)'
    <3>1. CASE oauth'[s] = oauth[s]
      BY <1>1, <1>3, <3>1 DEF Spent
    <3>2. CASE ClaimState(k) /\ oauth'[s] # None /\ oauth'[s].lease # 0
      BY <3>2 DEF Spent
    <3>3. CASE Active(k, s) /\ Ends(k)
      <4>1. j = k
        BY <1>1, <1>3, <3>3
      <4>2. QED
        BY <3>3, <4>1 DEF Active, Ends
    <3>4. CASE oauth'[s] = None
      BY <3>4 DEF Spent
    <3>5. QED
      BY <3>1, <3>2, <3>3, <3>4, StatesWritten
  <2>3. QED
    BY <2>1, <2>2
<1>4. QED
  BY <1>2, <1>3

LEMMA LeasedRest ==
  ASSUME TypeOK, Stations, Unstarted, Leased, Elsewhere
  PROVE  Leased'
<1>1. \A s \in OAuth : s \in SignIns /\ (oauth'[s] = oauth[s] \/ deadline[s] = 0)
  BY RestWrites DEF SignIns
<1>2. \A s \in OAuth : deadline[s] = 0 => \A k \in Requests : signIn[k] # s
  BY <1>1 DEF Unstarted
<1>3. QED
  BY <1>1, <1>2, RestWrites DEF Leased, Active, Spent

\* One request holds a sign-in, of either kind, and a session therefore.
LEMMA HeldAlone ==
  ASSUME TypeOK, Stations, Bound, Leased, "lapse" \notin mishaps,
         NEW j \in Requests, NEW k \in Requests, signIn[j] = signIn[k],
         pc[j] \notin {"idle", "claim", "take"}, pc[k] \notin {"idle", "claim", "take"}
  PROVE  j = k
<1>1. signIn[k] \in SignIns
  BY TypesSplit DEF Stations, Station, RequestTypes
<1>2. Active(j, signIn[k]) /\ Active(k, signIn[k])
  BY DEF Active
<1>3. QED
  BY <1>1, <1>2 DEF Bound, Leased, SignIns

LEMMA HasAlone ==
  ASSUME TypeOK, Stations, Links, Bound, Leased, "lapse" \notin mishaps,
         NEW j \in Requests, NEW k \in Requests, sess[k] \in Auths, sess[j] = sess[k]
  PROVE  j = k
<1>1. signIn[j] = signIn[k] /\ sess[k] # None
  BY ConstantsAssumption DEF Links
<1>2. pc[j] \notin {"idle", "claim", "take"} /\ pc[k] \notin {"idle", "claim", "take"}
  BY <1>1 DEF Stations, Station, NotYet
<1>3. QED
  BY <1>1, <1>2, HeldAlone

\* What is about to be attached is stored, or a logout is at work on it; once a session is
\* attached the callback that did it winds up its sign-in, and no other gets hold of it.
Attaching ==
  "lapse" \notin mishaps => \A k \in Requests : pc[k] = "attach" =>
    auth[sess[k]] # None \/ sess[k] \in signedOut

WoundUp(s) ==
  /\ \A k \in Requests : Active(k, s) => pc[k] \in {"complete", "consume", "forget"}
  /\ s \in OAuth => Spent(s)
  /\ s \in Challenges => meta[s] = None

Attached ==
  "lapse" \notin mishaps /\ browser # None /\ browser.attached # None =>
    WoundUp(origin[browser.attached])

\* How requests come to attach, and what they do after it.
LEMMA AttachReached ==
  ASSUME TypeOK, Stations, NEW k \in Requests, Request(k), pc'[k] = "attach"
  PROVE  sess'[k] = sess[k] /\ sess[k] \in Auths /\ auth'[sess[k]] # None
<1> USE TypesSplit
<1>1. Viewed(k) \/ Bind(k)
  <2>1. \A s \in SignIns : ~ReadMetadata(k, s) /\ ~ResolveComplete(k, s)
    BY FirstMoves
  <2>2. ~(ClaimState(k) \/ Resolve(k) \/ TakeBinding(k) \/ GetPending(k))
    BY ClaimMoves, ResolveMoves, TakeMoves, GetPendingMoves DEF Goes, Ends, Closes
  <2>3. ~(ConsumeCallbackState(k) \/ Exchange(k))
    BY SessionMoves DEF Goes, Ends, Closes, FailsForNow
  <2>4. ~(ReadForViewer(k) \/ CapabilitiesFail(k) \/ ReadForBind(k) \/ Attach(k))
    BY CompletionMoves DEF Goes, Ends
  <2>5. ~(\/ ReadForDiscard(k) \/ Discard(k) \/ KeepPending(k) \/ Restore(k)
          \/ ReleaseState(k) \/ ConsumeState(k) \/ Forget(k) \/ Crash(k))
    BY CleaningMoves DEF Goes, Ends, Closes
  <2>6. QED
    BY <2>1, <2>2, <2>3, <2>4, <2>5 DEF Request
<1>2. /\ CanSet(sess[k], arev[k]) /\ auth' = [auth EXCEPT ![sess[k]] = @ + 1]
      /\ sess'[k] = sess[k]
  BY <1>1, CompletionMoves DEF Goes
<1>3. sess[k] \in Auths
  BY <1>1 DEF Viewed, Bind, Stations, Station, Having, RequestTypes
<1>4. auth'[sess[k]] = arev[k] + 1
  BY <1>2, <1>3 DEF CanSet, StoreTypes
<1>5. auth'[sess[k]] # None
  BY <1>4, ConstantsAssumption DEF RequestTypes
<1>6. QED
  BY <1>2, <1>3, <1>5

LEMMA WindsUp ==
  ASSUME TypeOK, Stations, NEW k \in Requests, Request(k),
         pc[k] \in {"complete", "consume", "forget"}
  PROVE  \/ ConsumeState(k) /\ Goes(k, "forget")
         \/ Forget(k) /\ Ends(k)
         \/ Crash(k) /\ Ends(k)
<1>1. ConsumeState(k) \/ Forget(k) \/ Crash(k)
  BY DEF Request, ReadMetadata, ResolveComplete, ClaimState, Resolve, TakeBinding, GetPending,
       ConsumeCallbackState, Exchange, ReadForViewer, Viewed, CapabilitiesFail, ReadForBind, Bind,
       Attach, ReadForDiscard, Discard, KeepPending, Restore, ReleaseState
<1>2. QED
  BY <1>1, CleaningMoves

LEMMA AttachingKept ==
  ASSUME TypeOK, Stations, Links, Bound, Leased, Attaching, NEW k \in Requests, Request(k)
  PROVE  Attaching'
<1> SUFFICES ASSUME "lapse" \notin mishaps', NEW j \in Requests, pc'[j] = "attach"
             PROVE  auth'[sess'[j]] # None \/ sess'[j] \in signedOut'
  BY DEF Attaching
<1>1. "lapse" \notin mishaps /\ signedOut' = signedOut
  BY SignInsHeld, HistoryKeepsTypes
<1>2. CASE j = k
  BY <1>2, AttachReached
<1>3. CASE j # k
  <2>1. pc[j] = "attach" /\ sess'[j] = sess[j]
    BY <1>3, RequestsMoveAlone DEF OthersStay, Stays
  <2>2. sess[j] \in Auths
    BY <2>1 DEF Stations, Station, Having, TypeOK
  <2>3. auth[sess[j]] # None \/ sess[j] \in signedOut
    BY <1>1, <2>1 DEF Attaching
  <2>4. CASE auth'[sess[j]] = auth[sess[j]] \/ auth'[sess[j]] # None
    BY <1>1, <2>1, <2>3, <2>4
  <2>5. CASE auth'[sess[j]] # auth[sess[j]] /\ auth'[sess[j]] = None
    <3>1. auth[sess[j]] = None \/ sess[k] = sess[j]
      BY <2>2, <2>5, SessionsWritten, Uncreated
    <3>2. QED
      BY <1>1, <1>3, <2>1, <2>2, <2>3, <3>1, HasAlone
  <2>6. QED
    BY <2>4, <2>5
<1>4. QED
  BY <1>2, <1>3

LEMMA AttachedSessionKept ==
  ASSUME TypeOK, Stations, Links, Attaching, Attached, AttachedSessionStays,
         NEW k \in Requests, Request(k)
  PROVE  AttachedSessionStays'
<1> SUFFICES ASSUME "lapse" \notin mishaps', browser' # None, browser'.attached # None
             PROVE  auth'[browser'.attached] # None \/ browser'.attached \in signedOut'
  BY DEF AttachedSessionStays
<1>1. "lapse" \notin mishaps /\ signedOut' = signedOut
  BY SignInsHeld, HistoryKeepsTypes
<1>2. CASE browser' = browser
  <2>1. browser.attached \in Auths
    BY <1>2 DEF TypeOK
  <2>2. auth[browser.attached] # None \/ browser.attached \in signedOut
    BY <1>1, <1>2 DEF AttachedSessionStays
  <2>3. ASSUME auth'[browser.attached] = None, auth[browser.attached] # None
        PROVE  FALSE
    <3>1. sess[k] = browser.attached /\ Discard(k)
      BY <2>1, <2>3, SessionsWritten DEF Exchange, Stations, Station, NotYet, Links
    <3>2. signIn[k] = origin[browser.attached] /\ pc[k] \in {"unattaching", "discarding"}
      BY <2>1, <3>1 DEF Links, Discard
    <3>3. QED
      BY <1>1, <1>2, <3>2 DEF Attached, WoundUp, Active
  <2>4. QED
    BY <1>1, <1>2, <2>2, <2>3
<1>3. CASE browser' # browser
  <2>1. pc[k] = "attach" /\ browser'.attached = sess[k] /\ sess[k] \in Auths
    BY <1>3, BrowserWritten DEF Attach
  <2>2. auth'[sess[k]] = auth[sess[k]]
    BY <2>1, SessionsWritten DEF Exchange, Discard
  <2>3. QED
    BY <1>1, <2>1, <2>2 DEF Attaching
<1>4. QED
  BY <1>2, <1>3

LEMMA AttachedKept ==
  ASSUME TypeOK, Stations, Links, Bound, Leased, Attached, NEW k \in Requests, Request(k)
  PROVE  Attached'
<1> USE TypesSplit
<1> SUFFICES ASSUME "lapse" \notin mishaps', browser' # None, browser'.attached # None
             PROVE  WoundUp(origin[browser.attached])'
  BY DEF Attached, WoundUp
<1>1. "lapse" \notin mishaps
  BY SignInsHeld
<1>2. CASE browser' = browser
  <2>1. browser.attached \in Auths /\ origin[browser.attached] \in SignIns
    BY <1>2 DEF StoreTypes, Links
  <2>2. origin'[browser.attached] = origin[browser.attached]
    BY <2>1, OriginsStay, ConstantsAssumption
  <2>3. PICK s \in SignIns : s = origin[browser.attached]
    BY <2>1
  <2>4. WoundUp(s)
    BY <1>1, <1>2, <2>3 DEF Attached
  <2>5. WoundUp(s)'
    <3>1. ASSUME NEW j \in Requests, Active(j, s)'
          PROVE  pc'[j] \in {"complete", "consume", "forget"}
      <4>1. Active(j, s)
        <5>1. ASSUME s \in OAuth, ClaimState(k), Claimable(s), signIn[k] = s
              PROVE  FALSE
          BY <2>4, <5>1, FirstClaims DEF WoundUp
        <5>2. QED
          BY <2>4, <3>1, <5>1, ActivityBegins DEF WoundUp
      <4>2. pc[j] \in {"complete", "consume", "forget"}
        BY <2>4, <4>1 DEF WoundUp
      <4>3. CASE j = k
        BY <3>1, <4>2, <4>3, WindsUp DEF Goes, Ends, Active
      <4>4. CASE j # k
        BY <4>2, <4>4, RequestsMoveAlone DEF OthersStay, Stays
      <4>5. QED
        BY <4>3, <4>4
    <3>2. ASSUME s \in OAuth
          PROVE  Spent(s)'
      <4>1. ~(ReleaseState(k) /\ Active(k, s))
        BY <2>4 DEF WoundUp, ReleaseState
      <4>2. QED
        BY <2>4, <3>2, <4>1, StatesWritten DEF WoundUp, Spent
    <3>3. ASSUME s \in Challenges
          PROVE  meta'[s] = None
      <4>1. ~((KeepPending(k) \/ Restore(k)) /\ Active(k, s))
        BY <2>4 DEF WoundUp, KeepPending, Restore
      <4>2. QED
        BY <2>4, <3>3, <4>1, MetadataWritten DEF WoundUp
    <3>4. QED
      BY <3>1, <3>2, <3>3 DEF WoundUp
  <2>6. QED
    BY <1>2, <2>2, <2>3, <2>5 DEF WoundUp, Active, Spent
<1>3. CASE browser' # browser
  <2>1. /\ Attach(k) /\ browser'.attached = sess[k]
        /\ sess[k] \in Auths /\ signIn[k] \in SignIns
        /\ pc'[k] \in {"complete", "idle"}
    BY <1>3, BrowserWritten DEF Goes, Ends
  <2>2. pc[k] = "attach" /\ origin[sess[k]] = signIn[k] /\ UNCHANGED <<oauth, meta, origin>>
    BY <2>1 DEF Attach, Links
  <2>3. PICK s \in SignIns : s = signIn[k]
    BY <2>1
  <2>4. Active(k, s)
    BY <2>2, <2>3 DEF Active
  <2>5. ASSUME NEW j \in Requests, Active(j, s)'
        PROVE  pc'[j] \in {"complete", "consume", "forget"}
    <3>1. Active(j, s)
      BY <2>2, <2>5, ActivityBegins DEF ClaimState, TakeBinding
    <3>2. j = k
      BY <1>1, <2>4, <3>1, HeldAlone DEF Active
    <3>3. QED
      BY <2>1, <2>5, <3>2 DEF Active
  <2>6. s \in OAuth => Spent(s)'
    BY <1>1, <2>2, <2>4 DEF Leased, Spent
  <2>7. s \in Challenges => meta'[s] = None
    BY <2>2, <2>4 DEF Bound
  <2>8. WoundUp(s)'
    BY <2>5, <2>6, <2>7 DEF WoundUp
  <2>9. origin'[browser'.attached] = s
    BY <2>1, <2>2, <2>3
  <2>10. QED
    BY <2>8, <2>9 DEF WoundUp, Active, Spent
<1>4. QED
  BY <1>2, <1>3

\* The steps of no request delete a session only where a logout is at work on it.
LEMMA AttachingRest ==
  ASSUME TypeOK, Stations, Attaching, Elsewhere
  PROVE  Attaching'
<1> SUFFICES ASSUME "lapse" \notin mishaps', NEW k \in Requests, pc'[k] = "attach"
             PROVE  auth'[sess'[k]] # None \/ sess'[k] \in signedOut'
  BY DEF Attaching
<1>1. /\ pc[k] = "attach" /\ sess'[k] = sess[k] /\ "lapse" \notin mishaps
      /\ signedOut \subseteq signedOut'
  BY RestWrites
<1>2. sess[k] \in Auths
  BY <1>1 DEF Stations, Station, Having, TypeOK
<1>3. auth[sess[k]] # None \/ sess[k] \in signedOut
  BY <1>1 DEF Attaching
<1>4. auth'[sess[k]] = auth[sess[k]] \/ sess[k] \in signedOut \/ auth'[sess[k]] # None
  BY <1>2, RestWrites
<1>5. QED
  BY <1>1, <1>3, <1>4

LEMMA AttachedSessionRest ==
  ASSUME TypeOK, Stations, AttachedSessionStays, Elsewhere
  PROVE  AttachedSessionStays'
<1> SUFFICES ASSUME "lapse" \notin mishaps', browser' # None, browser'.attached # None
             PROVE  auth'[browser'.attached] # None \/ browser'.attached \in signedOut'
  BY DEF AttachedSessionStays
<1>1. browser' = browser /\ "lapse" \notin mishaps /\ signedOut \subseteq signedOut'
  BY RestWrites DEF Anonymous
<1>2. browser.attached \in Auths
  BY <1>1 DEF TypeOK
<1>3. auth[browser.attached] # None \/ browser.attached \in signedOut
  BY <1>1 DEF AttachedSessionStays
<1>4. \/ auth'[browser.attached] = auth[browser.attached]
      \/ browser.attached \in signedOut \/ auth'[browser.attached] # None
  BY <1>2, RestWrites
<1>5. QED
  BY <1>1, <1>3, <1>4

LEMMA AttachedRest ==
  ASSUME TypeOK, Stations, Unstarted, Links, Attached, Elsewhere
  PROVE  Attached'
<1> SUFFICES ASSUME "lapse" \notin mishaps', browser' # None, browser'.attached # None
             PROVE  WoundUp(origin[browser.attached])'
  BY DEF Attached, WoundUp
<1>1. /\ browser' = browser /\ "lapse" \notin mishaps
      /\ UNCHANGED <<origin, pc, signIn>>
  BY RestWrites DEF Anonymous
<1>2. browser.attached \in Auths /\ origin[browser.attached] \in SignIns
  BY <1>1 DEF TypeOK, Links
<1>3. PICK s \in SignIns : s = origin[browser.attached]
  BY <1>2
<1>4. WoundUp(s)
  BY <1>1, <1>3 DEF Attached
<1>5. meta'[s] = meta[s] /\ (s \in OAuth => oauth'[s] = oauth[s])
  <2>1. deadline[s] # 0
    BY <1>2, <1>3 DEF Unstarted
  <2>2. QED
    BY <2>1, RestWrites
<1>6. WoundUp(s)'
  BY <1>1, <1>4, <1>5 DEF WoundUp, Active, Spent
<1>7. QED
  BY <1>1, <1>3, <1>6 DEF WoundUp, Active, Spent

\* What is attached stays.
StaysInv == Leased /\ Attaching /\ Attached /\ AttachedSessionStays

LEMMA StaysInvariant == Spec => []StaysInv
<1>1. Init => StaysInv
  BY ConstantsAssumption DEF Init, StaysInv, Leased, Attaching, Attached, AttachedSessionStays,
                             Active, Anonymous
<1>2. TypeOK /\ Stations /\ OnceInv /\ StaysInv /\ [Next]_vars => StaysInv'
  <2> SUFFICES ASSUME TypeOK, Stations, OnceInv, StaysInv, [Next]_vars
               PROVE  StaysInv'
    OBVIOUS
  <2> USE DEF OnceInv, StaysInv
  <2>1. ASSUME NEW k \in Requests, Request(k)
        PROVE  StaysInv'
    BY <2>1, LeasedKept, AttachingKept, AttachedKept, AttachedSessionKept
  <2>2. CASE Elsewhere
    BY <2>2, LeasedRest, AttachingRest, AttachedRest, AttachedSessionRest
  <2>3. CASE UNCHANGED vars
    BY <2>3 DEF vars, stores, requests, history, Leased, Attaching, Attached, WoundUp, Active,
                Spent, AttachedSessionStays
  <2>4. QED
    BY <2>1, <2>2, <2>3, StepsOfTheSystem
<1>3. QED
  BY <1>1, <1>2, TypesInvariant, OnceInvariant, PTL DEF Spec

-----------------------------------------------------------------------------
(* No session is left behind *)

\* Nobody has to care for the session any more, or the browser does.
Gone(a) ==
  \/ auth[a] = None
  \/ browser # None /\ browser.attached = a
  \/ a \in signedOut

\* What a request deletes is as it has read it.
Deleting(k) ==
  pc[k] \in {"unattaching", "discarding"} => auth[sess[k]] = arev[k] \/ sess[k] \in signedOut

\* A callback winds up its sign-in when no session depends on the records.
Done(k) ==
  pc[k] \in {"complete", "consume", "forget"} =>
    /\ sess[k] = None \/ Gone(sess[k])
    /\ \A a \in Auths : meta[signIn[k]] = [pending |-> a] => Gone(a)

\* The metadata is as the callback has read it, until it has a session, and it names the
\* session when the callback lets go of the sign-in.
Noted(k) ==
  /\ signIn[k] \in OAuth /\ pc[k] \in {"resolve", "pending", "exchange", "remote"} =>
       meta[signIn[k]] = [pending |-> pending[k]]
  /\ pc[k] = "release" /\ sess[k] # None => meta[signIn[k]] = [pending |-> sess[k]]

Clean == mishaps = {} => \A k \in Requests : Deleting(k) /\ Done(k) /\ Noted(k)

LEMMA SamePending ==
  ASSUME NEW a, NEW b, [pending |-> a] = [pending |-> b]
  PROVE  a = b
<1>1. [pending |-> a].pending = [pending |-> b].pending
  OBVIOUS
<1>2. QED
  BY <1>1

LEMMA GoneStays ==
  ASSUME TypeOK, Stations, Links, First, NEW k \in Requests, Request(k),
         NEW a \in Auths, origin[a] # None, Gone(a)
  PROVE  Gone(a)'
<1>1. CASE auth[a] = None
  BY <1>1, SessionsWritten DEF Gone
<1>2. CASE browser # None /\ browser.attached = a
  BY <1>2, BrowserWritten, ConstantsAssumption DEF Gone, First
<1>3. CASE a \in signedOut
  BY <1>3, HistoryKeepsTypes DEF Gone
<1>4. QED
  BY <1>1, <1>2, <1>3 DEF Gone

LEMMA GoneRest ==
  ASSUME TypeOK, Stations, Elsewhere, NEW a \in Auths, Gone(a)
  PROVE  Gone(a)'
<1>1. CASE auth[a] = None
  BY <1>1, RestWrites DEF Gone
<1>2. CASE browser # None /\ browser.attached = a
  BY <1>2, RestWrites, ConstantsAssumption DEF Gone
<1>3. CASE a \in signedOut
  BY <1>3, RestWrites DEF Gone
<1>4. QED
  BY <1>1, <1>2, <1>3 DEF Gone

\* How requests come to delete and to wind up.
LEMMA DeletingReached ==
  ASSUME TypeOK, Stations, NEW k \in Requests, Request(k),
         pc'[k] \in {"unattaching", "discarding"}
  PROVE  sess'[k] = sess[k] /\ arev'[k] = auth[sess[k]] /\ UNCHANGED auth
<1>1. ReadForDiscard(k)
  <2>1. \A s \in SignIns : ~ReadMetadata(k, s) /\ ~ResolveComplete(k, s)
    BY FirstMoves
  <2>2. ~(ClaimState(k) \/ Resolve(k) \/ TakeBinding(k) \/ GetPending(k))
    BY ClaimMoves, ResolveMoves, TakeMoves, GetPendingMoves DEF Goes, Ends, Closes
  <2>3. ~(ConsumeCallbackState(k) \/ Exchange(k))
    BY SessionMoves DEF Goes, Ends, Closes, FailsForNow
  <2>4. ~(\/ ReadForViewer(k) \/ Viewed(k) \/ CapabilitiesFail(k)
          \/ ReadForBind(k) \/ Bind(k) \/ Attach(k))
    BY CompletionMoves DEF Goes, Ends
  <2>5. ~(\/ Discard(k) \/ KeepPending(k) \/ Restore(k)
          \/ ReleaseState(k) \/ ConsumeState(k) \/ Forget(k) \/ Crash(k))
    BY CleaningMoves DEF Goes, Ends, Closes
  <2>6. QED
    BY <2>1, <2>2, <2>3, <2>4, <2>5 DEF Request
<1>2. UNCHANGED auth
  BY <1>1 DEF ReadForDiscard, stores
<1>3. QED
  BY <1>1, <1>2, CleaningMoves DEF Goes, Closes, Ends

LEMMA DoneReached ==
  ASSUME TypeOK, Stations, NEW k \in Requests, Request(k),
         pc'[k] \in {"complete", "consume", "forget"}
  PROVE  /\ signIn'[k] = signIn[k] /\ sess'[k] = sess[k] /\ meta' = meta
         /\ \/ Resolve(k) /\ pc'[k] = "consume"
            \/ GetPending(k) /\ auth[pending[k]] = None
            \/ ConsumeCallbackState(k)
            \/ Exchange(k) /\ UNCHANGED <<auth, origin>>
            \/ Attach(k) /\ browser' = [rev |-> seen[k] + 1, attached |-> sess[k]]
            \/ ReadForDiscard(k) /\ auth[sess[k]] = None
            \/ Discard(k)
            \/ ConsumeState(k)
<1>1. \A s \in SignIns : ~ReadMetadata(k, s) /\ ~ResolveComplete(k, s)
  BY FirstMoves
<1>2. ~(\/ ClaimState(k) \/ TakeBinding(k) \/ KeepPending(k) \/ Restore(k)
        \/ ReleaseState(k) \/ Forget(k) \/ Crash(k))
  BY ClaimMoves, TakeMoves, CleaningMoves DEF Goes, Ends
<1>3. ~(ReadForViewer(k) \/ Viewed(k) \/ CapabilitiesFail(k) \/ ReadForBind(k) \/ Bind(k))
  BY CompletionMoves DEF Goes
<1>4. CASE Resolve(k) \/ GetPending(k) \/ ConsumeCallbackState(k) \/ Exchange(k)
  <2>1. meta' = meta
    BY <1>4 DEF Resolve, GetPending, ConsumeCallbackState, Exchange, stores
  <2>2. CASE Resolve(k)
    BY <2>1, <2>2, ResolveMoves DEF Goes
  <2>3. CASE GetPending(k)
    BY <2>1, <2>3, GetPendingMoves DEF Goes, Ends, Closes
  <2>4. CASE ConsumeCallbackState(k) \/ Exchange(k)
    BY <2>1, <2>4, SessionMoves DEF Goes, Ends, Closes, FailsForNow
  <2>5. QED
    BY <1>4, <2>2, <2>3, <2>4
<1>5. CASE Attach(k) \/ ReadForDiscard(k) \/ Discard(k) \/ ConsumeState(k)
  <2>1. meta' = meta
    BY <1>5 DEF Attach, ReadForDiscard, Discard, ConsumeState, stores
  <2>2. CASE Attach(k)
    BY <2>1, <2>2, CompletionMoves DEF Goes, Ends
  <2>3. CASE ReadForDiscard(k) \/ Discard(k) \/ ConsumeState(k)
    BY <2>1, <2>3, CleaningMoves DEF Goes, Ends, Closes
  <2>4. QED
    BY <1>5, <2>2, <2>3
<1>6. QED
  BY <1>1, <1>2, <1>3, <1>4, <1>5 DEF Request

LEMMA DeletingKept ==
  ASSUME TypeOK, Stations, Links, Bound, Leased, mishaps = {}, NEW k \in Requests, Request(k),
         NEW j \in Requests, Deleting(j)
  PROVE  Deleting(j)'
<1> SUFFICES ASSUME pc'[j] \in {"unattaching", "discarding"}
             PROVE  auth'[sess'[j]] = arev'[j] \/ sess'[j] \in signedOut'
  BY DEF Deleting
<1>1. CASE j = k
  BY <1>1, DeletingReached
<1>2. CASE j # k
  <2>1. /\ pc[j] = pc'[j] /\ sess'[j] = sess[j] /\ arev'[j] = arev[j]
        /\ signedOut' = signedOut
    BY <1>2, RequestsMoveAlone, HistoryKeepsTypes DEF OthersStay, Stays
  <2>2. sess[j] \in Auths
    BY <2>1 DEF Stations, Station, Having, TypeOK
  <2>3. auth'[sess[j]] = auth[sess[j]]
    BY <1>2, <2>2, SessionsWritten, Uncreated, HasAlone
  <2>4. QED
    BY <2>1, <2>3 DEF Deleting
<1>3. QED
  BY <1>1, <1>2

\* Another callback's metadata is not touched.
LEMMA MetadataOfOthers ==
  ASSUME TypeOK, Stations, Bound, Leased, mishaps = {}, NEW k \in Requests, Request(k),
         NEW j \in Requests, j # k, signIn[j] \in OAuth, pc[j] \notin {"idle", "claim", "take"}
  PROVE  meta'[signIn[j]] = meta[signIn[j]]
<1>1. signIn[j] \in SignIns /\ signIn[j] \notin Challenges
  BY ConstantsAssumption DEF SignIns
<1>2. ASSUME meta'[signIn[j]] # meta[signIn[j]]
      PROVE  FALSE
  <2>1. Active(k, signIn[j])
    BY <1>1, <1>2, MetadataWritten
  <2>2. QED
    BY <2>1, HeldAlone DEF Active
<1>3. QED
  BY <1>2

LEMMA DoneKept ==
  ASSUME TypeOK, Stations, Links, Bound, Leased, First, OneSessionPerSignIn, mishaps' = {},
         mishaps = {}, NEW k \in Requests, Request(k),
         NEW j \in Requests, Deleting(j), Done(j), Noted(j)
  PROVE  Done(j)'
<1> USE TypesSplit
<1> SUFFICES ASSUME pc'[j] \in {"complete", "consume", "forget"}
             PROVE  /\ sess'[j] = None \/ Gone(sess[j])'
                    /\ \A a \in Auths : meta'[signIn'[j]] = [pending |-> a] => Gone(a)'
  BY DEF Done, Gone
<1>1. /\ \A a \in Auths : a = sess[j] => origin[a] = signIn[j]
      /\ signIn[j] \in SignIns => \A a \in Auths : meta[signIn[j]] = [pending |-> a] => origin[a] = signIn[j]
  BY DEF Links
<1>2. CASE j # k
  <2>1. pc'[j] = pc[j] /\ sess'[j] = sess[j] /\ signIn'[j] = signIn[j]
    BY <1>2, RequestsMoveAlone DEF OthersStay, Stays
  <2>2. signIn[j] \in OAuth /\ signIn[j] # None
    BY <2>1 DEF Stations, Station
  <2>3. meta'[signIn[j]] = meta[signIn[j]]
    BY <1>2, <2>1, <2>2, MetadataOfOthers
  <2>4. \A a \in Auths : meta[signIn[j]] = [pending |-> a] => Gone(a) /\ origin[a] # None
    BY <1>1, <2>1, <2>2 DEF Done, SignIns
  <2>5. sess[j] = None \/ (sess[j] \in Auths /\ Gone(sess[j]) /\ origin[sess[j]] # None)
    BY <1>1, <2>1, <2>2 DEF Done, RequestTypes
  <2>6. QED
    BY <2>1, <2>3, <2>4, <2>5, GoneStays
<1>3. CASE j = k
  <2>1. /\ signIn'[k] = signIn[k] /\ sess'[k] = sess[k] /\ meta' = meta
        /\ signIn[k] \in OAuth /\ signIn[k] \in SignIns /\ signIn[k] # None
    <3>1. signIn'[k] \in OAuth /\ signIn'[k] # None
      BY <1>3, StationsKept DEF Stations, Station
    <3>2. QED
      BY <1>3, <3>1, DoneReached DEF SignIns
  <2>2. \A a \in Auths : meta[signIn[k]] = [pending |-> a] => origin[a] = signIn[k]
    BY <1>1, <1>3, <2>1
  \* What it has itself is the only session of the sign-in.
  <2>3. ASSUME sess[k] \in Auths, Gone(sess[k])'
        PROVE  /\ sess'[k] = None \/ Gone(sess[k])'
               /\ \A a \in Auths : meta'[signIn'[k]] = [pending |-> a] => Gone(a)'
    <3>1. origin[sess[k]] = signIn[k]
      BY <1>1, <1>3, <2>3
    <3>2. \A a \in Auths : meta[signIn[k]] = [pending |-> a] => a = sess[k]
      BY <2>1, <2>2, <2>3, <3>1 DEF OneSessionPerSignIn
    <3>3. \A a \in Auths : a = sess[k] => Gone(a)'
      BY <2>1, <2>3 DEF Gone
    <3>4. QED
      BY <2>1, <2>3, <3>2, <3>3
  \* It has none: the metadata names what it was left by an earlier attempt.
  <2>4. ASSUME sess[k] = None, meta[signIn[k]] = [pending |-> pending[k]],
               pending[k] \in Auths => auth'[pending[k]] = None
        PROVE  /\ sess'[k] = None
               /\ \A a \in Auths : meta'[signIn'[k]] = [pending |-> a] => Gone(a)'
    <3>1. \A a \in Auths : meta[signIn[k]] = [pending |-> a] => a = pending[k]
      BY <2>4, SamePending
    <3>2. \A a \in Auths : a = pending[k] => Gone(a)'
      BY <2>4 DEF Gone
    <3>3. QED
      BY <2>1, <2>4, <3>1, <3>2
  <2>5. CASE Resolve(k) /\ pc'[k] = "consume"
    <3>1. pc[k] = "resolve" /\ sess[k] = None
      BY <2>5 DEF Resolve, Stations, Station, NotYet
    <3>2. pending[k] = None
      BY <2>5, ResolveMoves
    <3>3. QED
      BY <1>3, <2>1, <2>4, <3>1, <3>2, ConstantsAssumption DEF Noted
  <2>6. CASE GetPending(k) /\ auth[pending[k]] = None
    <3>1. pc[k] = "pending" /\ sess[k] = None /\ auth' = auth
      BY <2>6 DEF GetPending, Stations, Station, NotYet, stores
    <3>2. QED
      BY <1>3, <2>1, <2>4, <2>6, <3>1 DEF Noted
  <2>7. CASE ConsumeCallbackState(k) \/ Exchange(k)
    <3>1. pc[k] \in {"exchange", "remote"} /\ sess[k] = None /\ pending[k] = None
      BY <2>7 DEF ConsumeCallbackState, Exchange, Stations, Station, NotYet
    <3>2. QED
      BY <1>3, <2>1, <2>4, <3>1, ConstantsAssumption DEF Noted
  <2>8. CASE Attach(k) /\ browser' = [rev |-> seen[k] + 1, attached |-> sess[k]]
    <3>1. sess[k] \in Auths
      BY <2>8 DEF Attach, Stations, Station, Having, RequestTypes
    <3>2. browser' # None /\ browser'.attached = sess[k]
      <4>1. browser' \in [rev : Nat, attached : Auths \cup {None}]
        BY <2>8, <3>1 DEF RequestTypes
      <4>2. QED
        BY <2>8, <4>1, ConstantsAssumption
    <3>3. Gone(sess[k])'
      BY <2>1, <3>2 DEF Gone
    <3>4. QED
      BY <1>3, <2>3, <3>1, <3>3
  <2>9. CASE ReadForDiscard(k) /\ auth[sess[k]] = None
    <3>1. sess[k] \in Auths /\ auth' = auth
      BY <2>9 DEF ReadForDiscard, Stations, Station, Having, RequestTypes, stores
    <3>2. Gone(sess[k])'
      BY <2>1, <2>9, <3>1 DEF Gone
    <3>3. QED
      BY <1>3, <2>3, <3>1, <3>2
  <2>10. CASE Discard(k)
    <3>1. sess[k] \in Auths /\ pc[k] \in {"unattaching", "discarding"}
      BY <2>10 DEF Discard, Stations, Station, Having, RequestTypes
    <3>2. auth[sess[k]] = arev[k] \/ sess[k] \in signedOut
      BY <1>3, <3>1 DEF Deleting
    <3>3. auth'[sess[k]] = None \/ sess[k] \in signedOut'
      BY <2>10, <3>1, <3>2 DEF Discard, StoreTypes, history
    <3>4. Gone(sess[k])'
      BY <2>1, <3>3 DEF Gone
    <3>5. QED
      BY <1>3, <2>3, <3>1, <3>4
  <2>11. CASE ConsumeState(k)
    <3>1. UNCHANGED <<auth, browser, signedOut>> /\ pc[k] \in {"complete", "consume"}
      BY <2>11 DEF ConsumeState, history
    <3>2. QED
      BY <1>3, <2>1, <3>1 DEF Done, Gone
  <2>12. QED
    BY <1>3, <2>5, <2>6, <2>7, <2>8, <2>9, <2>10, <2>11, DoneReached
<1>4. QED
  BY <1>2, <1>3

\* How callbacks come to the steps before they have a session, and to let go of the sign-in.
LEMMA NotedReached ==
  ASSUME TypeOK, Stations, NEW k \in Requests, Request(k)
  PROVE  /\ pc'[k] \in {"resolve", "pending", "exchange", "remote"} =>
              /\ \/ ClaimState(k) /\ Claimable(signIn[k])
                 \/ Resolve(k) \/ ConsumeCallbackState(k) \/ TakeBinding(k)
              /\ signIn[k] \in OAuth => pending'[k] = pending[k]
         /\ pc'[k] = "release" /\ sess'[k] # None =>
              /\ KeepPending(k) /\ sess'[k] = sess[k]
              /\ meta' = [meta EXCEPT ![signIn[k]] = [pending |-> sess[k]]]
<1>1. ASSUME NEW s \in SignIns, ReadMetadata(k, s) \/ ResolveComplete(k, s)
      PROVE  pc'[k] \notin {"resolve", "pending", "exchange", "remote", "release"}
  BY <1>1, FirstMoves
<1>2. CASE ClaimState(k)
  BY <1>2, ClaimMoves DEF Goes, Ends
<1>3. CASE Resolve(k)
  BY <1>3, ResolveMoves DEF Goes
<1>4. CASE TakeBinding(k)
  <2>1. signIn[k] \notin OAuth
    BY <1>4, ConstantsAssumption DEF TakeBinding, Stations, Station
  <2>2. QED
    BY <1>4, <2>1, TakeMoves DEF Ends
<1>5. CASE GetPending(k)
  BY <1>5, GetPendingMoves DEF Goes, Ends, Closes
<1>6. CASE ConsumeCallbackState(k)
  BY <1>6, SessionMoves DEF Goes, Ends, Closes
<1>7. CASE Exchange(k)
  BY <1>7, SessionMoves DEF Exchange, Goes, Ends, Closes, FailsForNow, Stations, Station, NotYet
<1>8. CASE \/ ReadForViewer(k) \/ Viewed(k) \/ CapabilitiesFail(k)
           \/ ReadForBind(k) \/ Bind(k) \/ Attach(k)
  BY <1>8, CompletionMoves DEF Goes, Ends
<1>9. CASE KeepPending(k)
  BY <1>9, CleaningMoves DEF Goes, Ends
<1>10. CASE \/ ReadForDiscard(k) \/ Discard(k) \/ Restore(k)
            \/ ReleaseState(k) \/ ConsumeState(k) \/ Forget(k) \/ Crash(k)
  BY <1>10, CleaningMoves DEF Goes, Ends, Closes
<1>11. QED
  BY <1>1, <1>2, <1>3, <1>4, <1>5, <1>6, <1>7, <1>8, <1>9, <1>10 DEF Request

LEMMA NotedKept ==
  ASSUME TypeOK, Stations, Bound, Leased, mishaps' = {}, mishaps = {},
         NEW k \in Requests, Request(k), NEW j \in Requests, Noted(j)
  PROVE  Noted(j)'
<1> USE TypesSplit
<1>1. CASE j # k
  <2>1. /\ pc'[j] = pc[j] /\ sess'[j] = sess[j] /\ signIn'[j] = signIn[j]
        /\ pending'[j] = pending[j]
    BY <1>1, RequestsMoveAlone DEF OthersStay, Stays
  <2>2. pc[j] = "release" => signIn[j] \in OAuth
    BY DEF Stations, Station
  <2>3. signIn[j] \in OAuth /\ pc[j] \in {"resolve", "pending", "exchange", "remote", "release"}
        => meta'[signIn[j]] = meta[signIn[j]]
    BY <1>1, MetadataOfOthers
  <2>4. QED
    BY <2>1, <2>2, <2>3 DEF Noted
<1>2. CASE j = k
  <2>1. ASSUME signIn'[k] \in OAuth, pc'[k] \in {"resolve", "pending", "exchange", "remote"}
        PROVE  meta'[signIn'[k]] = [pending |-> pending'[k]]
    <3>1. signIn'[k] = signIn[k] /\ signIn[k] \in OAuth /\ pending'[k] = pending[k]
      BY <2>1, SameSignIn, NotedReached
    <3>2. CASE ClaimState(k) /\ Claimable(signIn[k])
      BY <3>1, <3>2 DEF ClaimState
    <3>3. CASE Resolve(k)
      BY <1>2, <3>1, <3>3 DEF Resolve, Noted, stores
    <3>4. CASE ConsumeCallbackState(k)
      BY <1>2, <3>1, <3>4 DEF ConsumeCallbackState, Noted
    <3>5. ~TakeBinding(k)
      BY <3>1, ConstantsAssumption DEF TakeBinding, Stations, Station
    <3>6. QED
      BY <2>1, <3>2, <3>3, <3>4, <3>5, NotedReached
  <2>2. ASSUME pc'[k] = "release", sess'[k] # None
        PROVE  meta'[signIn'[k]] = [pending |-> sess'[k]]
    <3>1. signIn'[k] = signIn[k] /\ signIn[k] # None
      BY <2>2, SameSignIn
    <3>2. signIn[k] \in SignIns
      BY <3>1 DEF RequestTypes
    <3>3. sess'[k] = sess[k] /\ meta' = [meta EXCEPT ![signIn[k]] = [pending |-> sess[k]]]
      BY <2>2, NotedReached
    <3>4. meta'[signIn[k]] = [pending |-> sess[k]]
      BY <3>2, <3>3 DEF StoreTypes
    <3>5. QED
      BY <3>1, <3>3, <3>4
  <2>3. QED
    BY <1>2, <2>1, <2>2 DEF Noted
<1>3. QED
  BY <1>1, <1>2

\* Without mishaps no request leaves a session behind.
LEMMA HandsKept ==
  ASSUME TypeOK, Stations, OnceInv, First, Leased, mishaps' = {}, mishaps = {},
         NEW k \in Requests, Request(k), Deleting(k), Done(k), Noted(k),
         NEW a \in Auths, auth'[a] # None, auth[a] # None => InHands(a) \/ a \in signedOut
  PROVE  InHands(a)' \/ a \in signedOut'
<1> USE TypesSplit DEF OnceInv
<1>0. /\ a # None /\ signedOut' = signedOut
      /\ a = sess[k] => origin[a] = signIn[k]
      /\ \A s \in SignIns : meta[s] = [pending |-> a] => origin[a] = s
  BY HistoryKeepsTypes, ConstantsAssumption DEF Links
<1>1. CASE auth[a] = None
  <2>1. sess'[k] = a
    BY <1>1, SessionsWritten
  <2>2. QED
    BY <2>1 DEF InHands
<1>2. CASE a \in signedOut
  BY <1>0, <1>2
<1>3. CASE browser # None /\ browser.attached = a
  BY <1>0, <1>3, BrowserWritten DEF InHands, First
<1>4. ASSUME NEW s \in SignIns, meta'[s] = [pending |-> a]
      PROVE  InHands(a)'
  BY <1>4 DEF InHands
\* The records of the sign-in ...
<1>5. ASSUME NEW s \in SignIns, meta[s] = [pending |-> a], auth[a] # None
      PROVE  InHands(a)' \/ a \in signedOut'
  <2>1. origin[a] = s /\ s # None
    BY <1>0, <1>5, ConstantsAssumption
  <2>2. CASE meta'[s] = meta[s]
    BY <1>4, <1>5, <2>2
  <2>3. CASE KeepPending(k) /\ signIn[k] = s /\ meta'[s] = [pending |-> sess[k]]
    <3>1. sess[k] \in Auths
      BY <2>3 DEF KeepPending, Stations, Station, Having, RequestTypes
    <3>2. origin[sess[k]] = s
      BY <2>3, <3>1 DEF Links
    <3>3. sess[k] = a
      BY <2>1, <3>1, <3>2 DEF OneSessionPerSignIn
    <3>4. QED
      BY <1>4, <2>3, <3>3
  <2>4. CASE s \in Challenges /\ signIn[k] = s /\ pc[k] = "restore"
    BY <2>1, <2>4 DEF Bound
  <2>5. CASE Forget(k) /\ signIn[k] = s
    <3>1. Gone(a)
      BY <1>5, <2>5 DEF Done, Forget
    <3>2. QED
      BY <1>2, <1>3, <1>5, <3>1 DEF Gone
  <2>6. CASE TakeBinding(k) /\ signIn[k] = s /\ meta'[s] = None
    <3>1. meta[s].pending = a
      BY <1>5
    <3>2. pc'[k] = "pending" /\ pending'[k] = a
      <4>1. CASE Ends(k)
        <5>1. Live(s) /\ meta[s] # None
          BY <1>5, <2>6, ConstantsAssumption DEF TakeBinding, Metadata
        <5>2. pc'[k] = "idle"
          BY <4>1 DEF Ends
        <5>3. mishaps' # {}
          BY <1>0, <2>6, <3>1, <5>1, <5>2 DEF TakeBinding, RequestTypes
        <5>4. QED
          BY <5>3
      <4>2. CASE ~Ends(k)
        BY <1>0, <2>6, <3>1, <4>2, TakeMoves
      <4>3. QED
        BY <4>1, <4>2
    <3>3. QED
      BY <3>2 DEF InHands
  <2>7. QED
    BY <2>2, <2>3, <2>4, <2>5, <2>6, MetadataWritten
\* ... other requests ...
<1>6. ASSUME NEW j \in Requests, j # k, sess[j] = a \/ (pc[j] = "pending" /\ pending[j] = a)
      PROVE  InHands(a)'
  BY <1>6, RequestsMoveAlone DEF InHands, OthersStay, Stays
\* ... and the request itself.
<1>7. CASE auth[a] # None /\ pc[k] = "pending" /\ pending[k] = a
  <2>1. GetPending(k) \/ Crash(k)
    BY <1>7 DEF Request, ReadMetadata, ResolveComplete, ClaimState, Resolve, TakeBinding,
         ConsumeCallbackState, Exchange, ReadForViewer, Viewed, CapabilitiesFail, ReadForBind,
         Bind, Attach, ReadForDiscard, Discard, KeepPending, Restore, ReleaseState, ConsumeState,
         Forget
  <2>2. ~Crash(k)
    BY DEF Crash
  <2>3. sess'[k] = a
    BY <1>7, <2>1, <2>2, GetPendingMoves
  <2>4. QED
    BY <2>3 DEF InHands
<1>8. CASE auth[a] # None /\ sess[k] = a
  <2>1. signIn[k] \in SignIns /\ pc[k] \notin {"idle"} \cup NotYet
    BY <1>0, <1>8 DEF Stations, Station, RequestTypes
  <2>2. CASE sess'[k] = a
    BY <2>2 DEF InHands
  <2>3. ASSUME Gone(a)
        PROVE  InHands(a)' \/ a \in signedOut'
    BY <1>2, <1>3, <1>8, <2>3 DEF Gone
  <2>4. CASE \/ ReadForViewer(k) \/ Viewed(k) \/ CapabilitiesFail(k)
             \/ ReadForBind(k) \/ Bind(k)
    BY <1>8, <2>2, <2>4, CompletionMoves DEF Goes
  <2>5. CASE Attach(k)
    <3>1. CASE browser' # browser
      <4>1. browser' = [rev |-> seen[k] + 1, attached |-> a]
        BY <1>8, <3>1, BrowserWritten
      <4>2. browser' \in [rev : Nat, attached : Auths \cup {None}]
        BY <4>1 DEF RequestTypes
      <4>3. browser' # None /\ browser'.attached = a
        BY <4>1, <4>2, ConstantsAssumption
      <4>4. QED
        BY <4>3 DEF InHands
    <3>2. CASE browser' = browser
      <4>1. ~(browser' = [rev |-> seen[k] + 1, attached |-> sess[k]] /\ browser.rev = seen[k])
        <5>1. seen[k] \in Nat /\ seen[k] + 1 # seen[k]
          BY DEF RequestTypes
        <5>2. QED
          BY <3>2, <5>1
      <4>2. QED
        BY <1>8, <2>2, <2>5, <4>1, CompletionMoves DEF Goes
    <3>3. QED
      BY <3>1, <3>2
  <2>6. CASE ReadForDiscard(k)
    BY <1>8, <2>2, <2>6, CleaningMoves DEF Goes
  <2>7. CASE Discard(k)
    <3>1. auth[a] = arev[k] \/ a \in signedOut
      BY <1>8, <2>7 DEF Deleting, Discard
    <3>2. auth[a] # arev[k]
      BY <1>8, <2>7 DEF Discard, StoreTypes
    <3>3. QED
      BY <1>2, <3>1, <3>2
  <2>8. CASE KeepPending(k)
    <3>1. CASE meta' = [meta EXCEPT ![signIn[k]] = [pending |-> a]]
      BY <1>4, <2>1, <3>1 DEF StoreTypes
    <3>2. CASE Goes(k, "discard")
      BY <1>8, <2>2, <3>2 DEF Goes
    <3>3. QED
      BY <1>8, <2>8, <3>1, <3>2, CleaningMoves
  <2>9. CASE ReleaseState(k)
    <3>1. meta[signIn[k]] = [pending |-> a] /\ meta' = meta
      BY <1>0, <1>8, <2>9 DEF ReleaseState, Noted
    <3>2. QED
      BY <1>4, <2>1, <3>1
  <2>10. CASE ConsumeState(k)
    BY <1>8, <2>2, <2>10, CleaningMoves DEF Goes
  <2>11. CASE Forget(k)
    BY <1>0, <1>8, <2>3, <2>11 DEF Forget, Done
  <2>12. ~Crash(k)
    BY DEF Crash
  <2>13. QED
    BY <2>1, <2>4, <2>5, <2>6, <2>7, <2>8, <2>9, <2>10, <2>11, <2>12
       DEF Request, ReadMetadata, ResolveComplete, ClaimState, Resolve, TakeBinding, GetPending,
           ConsumeCallbackState, Exchange, Restore, NotYet
<1>9. QED
  BY <1>1, <1>2, <1>3, <1>5, <1>6, <1>7, <1>8 DEF InHands

\* Nor do the other steps: a logout answers for the sessions it works on, and a sign-in that
\* is begun has left none.
LEMMA CleanRest ==
  ASSUME TypeOK, Stations, Unstarted, Links, Leased, Attached, mishaps' = {}, mishaps = {},
         Elsewhere,
         NEW k \in Requests, Deleting(k), Done(k), Noted(k)
  PROVE  Deleting(k)' /\ Done(k)' /\ Noted(k)'
<1> USE TypesSplit
<1>1. /\ UNCHANGED <<origin, pc, signIn, pending, sess, arev>>
      /\ signedOut \subseteq signedOut'
  BY RestWrites
<1>2. signIn[k] \in SignIns => meta'[signIn[k]] = meta[signIn[k]]
  BY RestWrites DEF Unstarted
<1>3. pc[k] \in {"unattaching", "discarding"} => sess[k] \in Auths /\ signIn[k] = origin[sess[k]]
  BY DEF Stations, Station, Having, RequestTypes, Links
<1>4. Deleting(k)'
  <2>1. ASSUME pc[k] \in {"unattaching", "discarding"}, auth'[sess[k]] # auth[sess[k]],
               browser # None, browser.attached = sess[k]
        PROVE  FALSE
    <3>1. WoundUp(origin[sess[k]])
      BY <1>3, <2>1, ConstantsAssumption DEF Attached
    <3>2. Active(k, origin[sess[k]])
      BY <1>3, <2>1 DEF Active
    <3>3. QED
      BY <2>1, <3>1, <3>2 DEF WoundUp
  <2>2. ASSUME pc[k] \in {"unattaching", "discarding"}
        PROVE  auth'[sess[k]] = auth[sess[k]] \/ sess[k] \in signedOut
    <3>1. Deletes(k, sess[k]) \/ sess[k] \in signedOut
      BY <2>2 DEF Deleting, Deletes
    <3>2. QED
      BY <1>3, <2>1, <2>2, <3>1, RestWrites
  <2>3. QED
    BY <1>1, <2>2 DEF Deleting
<1>5. Done(k)'
  <2>1. ASSUME pc[k] \in {"complete", "consume", "forget"}
        PROVE  signIn[k] \in SignIns
    BY <2>1 DEF Stations, Station, SignIns
  <2>2. sess[k] # None => sess[k] \in Auths
    BY DEF RequestTypes
  <2>3. \A a \in Auths : Gone(a) => Gone(a)'
    BY GoneRest
  <2>4. ASSUME pc'[k] \in {"complete", "consume", "forget"}
        PROVE  /\ sess'[k] = None \/ Gone(sess[k])'
               /\ \A a \in Auths : meta'[signIn'[k]] = [pending |-> a] => Gone(a)'
    <3>1. /\ sess[k] = None \/ Gone(sess[k])
          /\ \A a \in Auths : meta[signIn[k]] = [pending |-> a] => Gone(a)
      BY <1>1, <2>4 DEF Done
    <3>2. \A a \in Auths : meta'[signIn'[k]] = [pending |-> a] => Gone(a)'
      BY <1>1, <1>2, <2>1, <2>3, <2>4, <3>1
    <3>3. sess[k] # None => Gone(sess[k])'
      <4>1. CASE sess[k] # None
        <5>1. PICK a \in Auths : a = sess[k]
          BY <2>2, <4>1
        <5>2. Gone(a)'
          BY <2>3, <3>1, <4>1, <5>1
        <5>3. QED
          BY <1>1, <5>1, <5>2 DEF Gone
      <4>2. QED
        BY <4>1
    <3>4. QED
      BY <1>1, <3>2, <3>3
  <2>5. QED
    BY <2>4 DEF Done, Gone
<1>6. Noted(k)'
  <2>1. signIn[k] \in OAuth \/ pc[k] = "release" => signIn[k] \in SignIns
    BY DEF Stations, Station, SignIns
  <2>2. QED
    BY <1>1, <1>2, <2>1 DEF Noted
<1>7. QED
  BY <1>4, <1>5, <1>6

LEMMA HandsRest ==
  ASSUME TypeOK, Stations, Unstarted, Elsewhere,
         NEW a \in Auths, auth'[a] # None, auth[a] # None => InHands(a) \/ a \in signedOut
  PROVE  InHands(a)' \/ a \in signedOut'
<1>1. auth[a] # None /\ signedOut \subseteq signedOut' /\ UNCHANGED <<pc, pending, sess>>
  BY RestWrites
<1>2. CASE a \in signedOut
  BY <1>1, <1>2
<1>3. CASE browser # None /\ browser.attached = a
  BY <1>3, RestWrites, ConstantsAssumption DEF InHands
<1>4. ASSUME NEW s \in SignIns, meta[s] = [pending |-> a]
      PROVE  InHands(a)'
  <2>1. [pending |-> a] # None
    BY ConstantsAssumption DEF Metadata
  <2>2. meta'[s] = meta[s]
    BY <1>4, <2>1, RestWrites DEF Unstarted
  <2>3. QED
    BY <1>4, <2>2 DEF InHands
<1>5. ASSUME NEW k \in Requests, sess[k] = a \/ (pc[k] = "pending" /\ pending[k] = a)
      PROVE  InHands(a)'
  BY <1>1, <1>5 DEF InHands
<1>6. QED
  BY <1>1, <1>2, <1>3, <1>4, <1>5 DEF InHands

LEMMA CleanInvariant == Spec => [](Clean /\ NoStrandedSession)
<1>1. Init => Clean /\ NoStrandedSession
  BY ConstantsAssumption DEF Init, Clean, Deleting, Done, Noted, NoStrandedSession
<1>2. /\ TypeOK /\ Stations /\ OnceInv /\ First /\ StaysInv
      /\ Clean /\ NoStrandedSession /\ [Next]_vars
      => Clean' /\ NoStrandedSession'
  <2> SUFFICES ASSUME TypeOK, Stations, OnceInv, First, StaysInv,
                      Clean, NoStrandedSession, [Next]_vars
               PROVE  Clean' /\ NoStrandedSession'
    OBVIOUS
  <2> USE DEF OnceInv, StaysInv
  <2>1. ASSUME NEW k \in Requests, Request(k)
        PROVE  Clean' /\ NoStrandedSession'
    <3> SUFFICES ASSUME mishaps' = {}
                 PROVE  /\ \A j \in Requests : Deleting(j)' /\ Done(j)' /\ Noted(j)'
                        /\ \A a \in Auths : auth'[a] # None => InHands(a)' \/ a \in signedOut'
      BY DEF Clean, NoStrandedSession
    <3>1. mishaps = {}
      BY <2>1, SignInsHeld
    <3>2. \A j \in Requests : Deleting(j) /\ Done(j) /\ Noted(j)
      BY <3>1 DEF Clean
    <3>3. \A j \in Requests : Deleting(j)' /\ Done(j)' /\ Noted(j)'
      BY <2>1, <3>1, <3>2, DeletingKept, DoneKept, NotedKept
    <3>4. \A a \in Auths : auth[a] # None => InHands(a) \/ a \in signedOut
      BY <3>1 DEF NoStrandedSession
    <3>5. ASSUME NEW a \in Auths, auth'[a] # None
          PROVE  InHands(a)' \/ a \in signedOut'
      BY <2>1, <3>1, <3>2, <3>4, <3>5, HandsKept
    <3>6. QED
      BY <3>3, <3>5
  <2>2. CASE Elsewhere
    <3> SUFFICES ASSUME mishaps' = {}
                 PROVE  /\ \A j \in Requests : Deleting(j)' /\ Done(j)' /\ Noted(j)'
                        /\ \A a \in Auths : auth'[a] # None => InHands(a)' \/ a \in signedOut'
      BY DEF Clean, NoStrandedSession
    <3>1. mishaps = {}
      BY <2>2, RestWrites
    <3>2. \A j \in Requests : Deleting(j) /\ Done(j) /\ Noted(j)
      BY <3>1 DEF Clean
    <3>3. \A j \in Requests : Deleting(j)' /\ Done(j)' /\ Noted(j)'
      BY <2>2, <3>1, <3>2, CleanRest
    <3>4. \A a \in Auths : auth[a] # None => InHands(a) \/ a \in signedOut
      BY <3>1 DEF NoStrandedSession
    <3>5. ASSUME NEW a \in Auths, auth'[a] # None
          PROVE  InHands(a)' \/ a \in signedOut'
      BY <2>2, <3>4, <3>5, HandsRest
    <3>6. QED
      BY <3>3, <3>5
  <2>3. CASE UNCHANGED vars
    BY <2>3 DEF vars, stores, requests, history, Clean, Deleting, Done, Noted, Gone,
                NoStrandedSession, InHands
  <2>4. QED
    BY <2>1, <2>2, <2>3, StepsOfTheSystem
<1>3. QED
  BY <1>1, <1>2, TypesInvariant, OnceInvariant, FirstInvariant, StaysInvariant, PTL DEF Spec

\* A session with live tokens is attached, kept for a retry or in the hands of a request or a
\* logout, and what a signed-in browser session is attached to is stored: on the assumptions
\* about leases and mishaps that the two properties state, for any number of requests.
THEOREM SessionsAndAttachments == Spec => []SessionsFollowAttachments
BY StaysInvariant, CleanInvariant, PTL DEF StaysInv, SessionsFollowAttachments

=============================================================================
