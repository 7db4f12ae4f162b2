---------------------------- MODULE BrowserAuth ----------------------------
(***************************************************************************)
(* How a browser session gets signed in: the OAuth callback route, the     *)
(* completion route of the email and passkey flows, and logout.            *)
(*                                                                         *)
(* A sign-in is begun by POST /v1/browser/auth/start. An OAuth sign-in has *)
(* three records, in three stores: the state record that callbacks claim   *)
(* under a short lease, the metadata the routes keep beside it, and the    *)
(* callback state with the PKCE verifier. An email or passkey sign-in has  *)
(* one, its challenge binding; `meta` holds it as it holds the metadata.   *)
(* A request ends by attaching an authentication session to the browser    *)
(* session, or keeps the session for a retry, or deletes it.               *)
(*                                                                         *)
(* Every store call is one step, every await between two of them lets the  *)
(* other requests run. One browser session is modelled; its tabs send the  *)
(* concurrent requests. In stateless mode it is stored when a sign-in is   *)
(* begun and not before, and again after it was deleted: its cookie is     *)
(* enough to resolve it as it was before it was ever signed in.            *)
(***************************************************************************)
EXTENDS Integers, FiniteSets

CONSTANTS
  Requests,     \* concurrent requests to the callback and completion routes
  OAuth,        \* OAuth sign-ins
  Challenges,   \* email and passkey sign-ins
  Auths,        \* identifiers of authentication sessions
  Stateless,    \* anonymousSessionMode === "stateless", which is the default
  None,         \* "null", "undefined"
  LeaseTime,    \* how long a claim of a state record holds
  Lifetimes,    \* how long the records of a sign-in may live
  MaxRevision,  \* Number.MAX_SAFE_INTEGER, for authentication sessions
  MaxClaims,    \* Number.MAX_SAFE_INTEGER, for the revisions of state records
  MaxLate,      \* bound: viewer queries that outlive their requests, at one time
  MaxTime       \* bound: the clock stops here

SignIns == OAuth \cup Challenges

\* A state record: its revision, and until when it is claimed, 0 if it is not.
\* The claim token is as good as the revision: both are new for every claim.
StateRecords == [rev : 0..MaxClaims, lease : 0..(MaxTime + LeaseTime)]

\* What the routes keep of a sign-in: the session of a completion to be retried.
Metadata == [pending : Auths \cup {None}]

\* An anonymous browser session, stored or as its cookie has it.
Anonymous == [rev |-> 0, attached |-> None]

\* null is no identifier, no revision and no record.
ASSUME ConstantsAssumption ==
  /\ OAuth \cap Challenges = {}
  /\ None \notin Auths \cup SignIns \cup Nat
  /\ None \notin StateRecords \cup Metadata
  /\ None \notin [rev : Nat, attached : Auths \cup {None}]
  /\ Stateless \in BOOLEAN
  /\ LeaseTime \in Nat \ {0}
  /\ Lifetimes \subseteq Nat \ {0}
  /\ MaxRevision \in Nat
  /\ MaxClaims \in Nat
  /\ MaxLate \in Nat
  /\ MaxTime \in Nat

VARIABLES
  oauth,     \* OAuthStateStore: sign-in -> state record or None
  meta,      \* AuthChallengeStore: sign-in -> metadata or binding, or None
  callback,  \* the OAuth sign-ins whose callback state is registered
  deadline,  \* sign-in -> when its records expire, 0 before it has begun
  auth,      \* AuthSessionStore: identifier -> revision of its record, or None
  origin,    \* history: the sign-in an identifier was handed out for, or None
  browser,   \* the browser session: [rev, attached], None where it is not stored
  now,       \* the clock
  pc, signIn, claim, pending, seen, sess, arev,   \* the requests
  logout,    \* the logout request: [pc, sess, arev]
  late,      \* the sessions whose viewer query has outlived its request
  exchanges, \* history: how often the code of a sign-in was sent out
  mishaps,   \* history: what went wrong beside the requests themselves; a "loss" is a
             \* crash, a binding taken by the wrong request, an overtaken deletion
  signedOut  \* history: sessions a logout worked on

stores   == <<oauth, meta, callback, deadline, auth, origin, browser, now>>
requests == <<pc, signIn, claim, pending, seen, sess, arev>>
history  == <<exchanges, mishaps, signedOut>>
vars     == <<stores, requests, logout, late, history>>

Steps ==
  {"idle", "claim", "resolve", "take",            \* getting hold of the sign-in
   "pending", "exchange", "remote",               \* getting a session for it
   "viewer", "viewing", "bind", "binding", "attach", "complete",
   "unattach", "unattaching", "discard", "discarding",
   "keep", "restore", "release", "consume", "forget"}

\* Every variable has its type. The conjunct with content is the bound on the
\* revisions of the sessions and of the state records.
TypeOK ==
  /\ oauth \in [OAuth -> StateRecords \cup {None}]
  /\ meta \in [SignIns -> Metadata \cup {None}]
  /\ callback \subseteq OAuth
  /\ deadline \in [SignIns -> Nat]
  /\ auth \in [Auths -> 0..MaxRevision \cup {None}]
  /\ origin \in [Auths -> SignIns \cup {None}]
  /\ browser \in [rev : Nat, attached : Auths \cup {None}] \cup {None}
  /\ now \in 0..MaxTime
  /\ pc \in [Requests -> Steps]
  /\ signIn \in [Requests -> SignIns \cup {None}]
  /\ claim \in [Requests -> Nat]
  /\ pending \in [Requests -> Auths \cup {None}]
  /\ seen \in [Requests -> Nat]
  /\ sess \in [Requests -> Auths \cup {None}]
  /\ arev \in [Requests -> 0..MaxRevision]
  /\ logout \in [pc : {"idle", "revoke", "read", "delete", "drop", "done"},
                 sess : Auths \cup {None}, arev : 0..MaxRevision]
  /\ late \subseteq Auths
  /\ exchanges \in [OAuth -> Nat]
  /\ mishaps \subseteq {"lapse", "stale", "abandon", "loss"}
  /\ signedOut \subseteq Auths

Init ==
  /\ oauth = [s \in OAuth |-> None]
  /\ meta = [s \in SignIns |-> None]
  /\ callback = {}
  /\ deadline = [s \in SignIns |-> 0]
  /\ auth = [a \in Auths |-> None]
  /\ origin = [a \in Auths |-> None]
  /\ browser = IF Stateless THEN None ELSE Anonymous
  /\ now = 0
  /\ pc = [k \in Requests |-> "idle"]
  /\ signIn = [k \in Requests |-> None]
  /\ claim = [k \in Requests |-> 0]
  /\ pending = [k \in Requests |-> None]
  /\ seen = [k \in Requests |-> 0]
  /\ sess = [k \in Requests |-> None]
  /\ arev = [k \in Requests |-> 0]
  /\ logout = [pc |-> "idle", sess |-> None, arev |-> 0]
  /\ late = {}
  /\ exchanges = [s \in OAuth |-> 0]
  /\ mishaps = {}
  /\ signedOut = {}

-----------------------------------------------------------------------------
(* Requests move from await to await *)

\* A revision that was read is used by the next step or not at all.
Goto(k, step) ==
  /\ pc' = [pc EXCEPT ![k] = step]
  /\ arev' = [arev EXCEPT ![k] = 0]
  /\ UNCHANGED <<signIn, claim, pending, seen, sess>>

Finish(k) ==
  /\ pc' = [pc EXCEPT ![k] = "idle"]
  /\ signIn' = [signIn EXCEPT ![k] = None]
  /\ claim' = [claim EXCEPT ![k] = 0]
  /\ pending' = [pending EXCEPT ![k] = None]
  /\ seen' = [seen EXCEPT ![k] = 0]
  /\ sess' = [sess EXCEPT ![k] = None]
  /\ arev' = [arev EXCEPT ![k] = 0]

\* The records of the OAuth sign-in are done with; a binding was taken for good.
Close(k) == IF signIn[k] \in OAuth THEN Goto(k, "consume") ELSE Finish(k)

\* The catch blocks: an error that a retry would only repeat ...
Fail(k) == IF sess[k] = None THEN Close(k) ELSE Goto(k, "discard")

\* ... and a network error, a timeout or a remote error, which may go away.
FailForNow(k) ==
  Goto(k, IF sess[k] # None THEN "keep"
          ELSE IF signIn[k] \in OAuth THEN "release" ELSE "restore")

\* get() of a stored session: its revision is what the next write compares.
Read(k, step) ==
  /\ arev' = [arev EXCEPT ![k] = auth[sess[k]]]
  /\ pc' = [pc EXCEPT ![k] = step]
  /\ UNCHANGED <<signIn, claim, pending, seen, sess>>

-----------------------------------------------------------------------------
(* The browser session of a request *)

\* resolveOptional: what the store has; where it has none, the cookie's record in
\* stateless mode, unless the cookie has run out or was cleared.
Resolvable ==
  IF browser # None THEN {browser}
  ELSE IF Stateless THEN {Anonymous, None} ELSE {None}

IsAnonymous(found) == found # None /\ found.attached = None

-----------------------------------------------------------------------------
(* POST /v1/browser/auth/start *)

Live(s) == now < deadline[s]

\* promote without looking at what is stored.
PromotedUnread == Anonymous

\* promote stores the browser session if it is not stored, as the anonymous one that
\* the request has resolved. That may have been before another request signed it in or
\* deleted it, so that the state of the browser session guards nothing here.
Promoted == IF browser = None THEN Anonymous ELSE browser

\* What is asked of the remote server may fail after that. The three records of an OAuth
\* sign-in are written in this order, and a store may fail in between; the browser learns
\* of the sign-in when all are written. Bound: nothing lives longer than the last lease.
Start(s) ==
  /\ deadline[s] = 0
  /\ browser' = Promoted
  /\ \/ UNCHANGED <<oauth, meta, callback, deadline>>
     \/ /\ \E life \in Lifetimes :
             /\ now + life <= MaxTime + LeaseTime
             /\ deadline' = [deadline EXCEPT ![s] = now + life]
        /\ \E written \in (IF s \in OAuth THEN 1..3 ELSE {3}) :
             /\ callback' = IF s \in OAuth THEN callback \cup {s} ELSE callback
             /\ oauth' = IF s \in OAuth /\ written >= 2
                         THEN [oauth EXCEPT ![s] = [rev |-> 0, lease |-> 0]] ELSE oauth
             /\ meta' = IF written = 3
                        THEN [meta EXCEPT ![s] = [pending |-> None]] ELSE meta
  /\ UNCHANGED <<auth, origin, now, requests, logout, late, history>>

-----------------------------------------------------------------------------
(* GET /v1/browser/auth/callback, until the request holds the sign-in *)

\* readOAuthMetadata comes before the claim.
ReadMetadata(k, s) ==
  /\ pc[k] = "idle"
  /\ s \in OAuth /\ Live(s) /\ meta[s] # None
  /\ pc' = [pc EXCEPT ![k] = "claim"]
  /\ signIn' = [signIn EXCEPT ![k] = s]
  /\ pending' = [pending EXCEPT ![k] = meta[s].pending]
  /\ UNCHANGED <<stores, claim, seen, sess, arev, logout, late, history>>

\* A claim that has not run out keeps others away.
Claimed(s) == oauth[s].lease > now

\* The lease must lie within the life of the record.
Claimable(s) ==
  /\ oauth[s] # None
  /\ now + LeaseTime <= deadline[s]
  /\ ~Claimed(s)
  /\ oauth[s].rev < MaxClaims

ClaimState(k) ==
  /\ pc[k] = "claim"
  /\ LET s == signIn[k]
     IN  IF Claimable(s)
         THEN /\ oauth' = [oauth EXCEPT ![s] = [rev |-> @.rev + 1, lease |-> now + LeaseTime]]
              /\ claim' = [claim EXCEPT ![k] = oauth[s].rev + 1]
              /\ pc' = [pc EXCEPT ![k] = "resolve"]
              /\ mishaps' = mishaps
                   \cup (IF oauth[s].lease \in 1..now THEN {"lapse"} ELSE {})
                   \cup (IF meta[s] # [pending |-> pending[k]] THEN {"stale"} ELSE {})
              /\ UNCHANGED <<signIn, pending, seen, sess, arev>>
         ELSE Finish(k) /\ UNCHANGED <<oauth, mishaps>>
  /\ UNCHANGED <<meta, callback, deadline, auth, origin, browser, now, logout, late,
                 exchanges, signedOut>>

\* resolveRequest; a browser session that cannot be resolved, or is already signed
\* in, ends the sign-in at once, whatever an earlier attempt has left for a retry.
Resolve(k) ==
  /\ pc[k] = "resolve"
  /\ \E found \in Resolvable :
       IF IsAnonymous(found)
       THEN /\ seen' = [seen EXCEPT ![k] = found.rev]
            /\ pc' = [pc EXCEPT ![k] = IF pending[k] = None THEN "exchange" ELSE "pending"]
            /\ UNCHANGED <<signIn, claim, pending, sess, arev, mishaps>>
       ELSE /\ Goto(k, "consume")
            /\ mishaps' = IF pending[k] = None THEN mishaps ELSE mishaps \cup {"abandon"}
  /\ UNCHANGED <<stores, logout, late, exchanges, signedOut>>

-----------------------------------------------------------------------------
(* POST /v1/browser/auth/complete, until the request holds the sign-in *)

ResolveComplete(k, s) ==
  /\ pc[k] = "idle"
  /\ s \in Challenges /\ deadline[s] # 0
  /\ \E found \in Resolvable :
       IsAnonymous(found) /\ seen' = [seen EXCEPT ![k] = found.rev]
  /\ pc' = [pc EXCEPT ![k] = "take"]
  /\ signIn' = [signIn EXCEPT ![k] = s]
  /\ UNCHANGED <<stores, claim, pending, sess, arev, logout, late, history>>

\* takeChallengeBinding as a read that leaves the binding in its place.
ReadBinding(k) ==
  /\ pc[k] = "take"
  /\ LET s == signIn[k]
     IN  IF Live(s) /\ meta[s] # None
         THEN /\ pending' = [pending EXCEPT ![k] = meta[s].pending]
              /\ pc' = [pc EXCEPT ![k] =
                          IF meta[s].pending = None THEN "remote" ELSE "pending"]
              /\ UNCHANGED <<meta, signIn, claim, seen, sess, arev>>
         ELSE Finish(k) /\ UNCHANGED meta
  /\ UNCHANGED <<oauth, callback, deadline, auth, origin, browser, now, logout, late, history>>

\* takeChallengeBinding: the binding is read and removed at once. A request of
\* the wrong kind is refused after that, and the binding is gone.
TakeBinding(k) ==
  /\ pc[k] = "take"
  /\ LET s == signIn[k]
         found == Live(s) /\ meta[s] # None
     IN  /\ meta' = IF found THEN [meta EXCEPT ![s] = None] ELSE meta
         /\ \/ /\ found
               /\ pending' = [pending EXCEPT ![k] = meta[s].pending]
               /\ pc' = [pc EXCEPT ![k] =
                           IF meta[s].pending = None THEN "remote" ELSE "pending"]
               /\ UNCHANGED <<signIn, claim, seen, sess, arev, mishaps>>
            \/ /\ Finish(k)
               /\ mishaps' = IF found /\ meta[s].pending # None
                             THEN mishaps \cup {"loss"} ELSE mishaps
  /\ UNCHANGED <<oauth, callback, deadline, auth, origin, browser, now, logout, late,
                 exchanges, signedOut>>

-----------------------------------------------------------------------------
(* The authentication session *)

\* A retry uses the session the earlier attempt has left.
GetPending(k) ==
  /\ pc[k] = "pending"
  /\ IF auth[pending[k]] # None
     THEN /\ sess' = [sess EXCEPT ![k] = pending[k]]
          /\ pc' = [pc EXCEPT ![k] = "viewer"]
          /\ UNCHANGED <<signIn, claim, pending, seen, arev>>
     ELSE Fail(k)
  /\ UNCHANGED <<stores, logout, late, history>>

\* requireOAuthCallbackStateBinding without the consumption that follows it.
ReadCallbackState(k) ==
  /\ pc[k] = "exchange"
  /\ IF signIn[k] \in callback /\ Live(signIn[k]) THEN Goto(k, "remote") ELSE Fail(k)
  /\ UNCHANGED <<stores, logout, late, history>>

\* consumeOAuthCallbackState: one-shot, before anything is sent.
ConsumeCallbackState(k) ==
  /\ pc[k] = "exchange"
  /\ callback' = callback \ {signIn[k]}
  /\ IF signIn[k] \in callback /\ Live(signIn[k]) THEN Goto(k, "remote") ELSE Fail(k)
  /\ UNCHANGED <<oauth, meta, deadline, auth, origin, browser, now, logout, late, history>>

\* The remote server takes the code, or the proof of an email or passkey flow,
\* and a session is created; or it refuses; or the answer is lost.
Exchange(k) ==
  /\ pc[k] = "remote"
  /\ exchanges' = IF signIn[k] \in OAuth
                  THEN [exchanges EXCEPT ![signIn[k]] = @ + 1] ELSE exchanges
  /\ \/ \E a \in Auths :
          /\ origin[a] = None
          /\ origin' = [origin EXCEPT ![a] = signIn[k]]
          /\ auth' = [auth EXCEPT ![a] = 0]
          /\ sess' = [sess EXCEPT ![k] = a]
          /\ pc' = [pc EXCEPT ![k] = "viewer"]
          /\ UNCHANGED <<signIn, claim, pending, seen, arev>>
     \/ Fail(k) /\ UNCHANGED <<auth, origin>>
     \/ FailForNow(k) /\ UNCHANGED <<auth, origin>>
  /\ UNCHANGED <<oauth, meta, callback, deadline, browser, now, logout, late, mishaps, signedOut>>

-----------------------------------------------------------------------------
(* completeBrowserAuthentication *)

CanSetAnyNumber(a, rev) == auth[a] = rev

\* compareAndSet succeeds
CanSet(a, rev) == auth[a] = rev /\ rev < MaxRevision

\* The viewer query and the capabilities are asked for at the same time, with
\* Promise.all. The viewer query verifies the session: read, ask the remote server ...
ReadForViewer(k) ==
  /\ pc[k] = "viewer"
  /\ IF auth[sess[k]] # None THEN Read(k, "viewing") ELSE Fail(k)
  /\ UNCHANGED <<stores, logout, late, history>>

\* ... and write the answer back. Capabilities that are still to come may fail then.
Viewed(k) ==
  /\ pc[k] = "viewing"
  /\ \/ IF CanSet(sess[k], arev[k])
        THEN /\ auth' = [auth EXCEPT ![sess[k]] = @ + 1]
             /\ Goto(k, "bind") \/ Fail(k) \/ FailForNow(k)
        ELSE UNCHANGED auth /\ Fail(k)
     \/ UNCHANGED auth /\ (Fail(k) \/ FailForNow(k))
  /\ UNCHANGED <<oauth, meta, callback, deadline, origin, browser, now, logout, late, history>>

\* The capabilities fail first, and with them the request: nobody waits for the viewer
\* query any more, and nothing stops it. Bound: a late query and a logout do not meet.
\* A logout deletes what is attached, and `Use` writes that as a late query would.
CapabilitiesFail(k) ==
  /\ pc[k] \in {"viewer", "viewing"}
  /\ Cardinality(late) < MaxLate
  /\ logout.pc = "idle"
  /\ late' = late \cup {sess[k]}
  /\ Fail(k) \/ FailForNow(k)
  /\ UNCHANGED <<stores, logout, history>>

\* bindAuthSessionToBrowserLifetime
ReadForBind(k) ==
  /\ pc[k] = "bind"
  /\ IF auth[sess[k]] # None THEN Read(k, "binding") ELSE Fail(k)
  /\ UNCHANGED <<stores, logout, late, history>>

Bind(k) ==
  /\ pc[k] = "binding"
  /\ IF CanSet(sess[k], arev[k])
     THEN auth' = [auth EXCEPT ![sess[k]] = @ + 1] /\ Goto(k, "attach")
     ELSE UNCHANGED auth /\ Fail(k)
  /\ UNCHANGED <<oauth, meta, callback, deadline, origin, browser, now, logout, late, history>>

\* The browser session is overwritten, whatever the request has read.
AttachUncompared(k) ==
  /\ pc[k] = "attach"
  /\ IF browser # None
     THEN /\ browser' = [rev |-> seen[k] + 1, attached |-> sess[k]]
          /\ IF signIn[k] \in OAuth THEN Goto(k, "complete") ELSE Finish(k)
     ELSE UNCHANGED browser /\ Goto(k, "unattach")
  /\ UNCHANGED <<oauth, meta, callback, deadline, auth, origin, now, logout, late, history>>

\* A failure of the cleaning up is taken for a failure of the sign-in.
AttachUnmarked(k) ==
  /\ pc[k] = "attach"
  /\ IF browser # None /\ browser.rev = seen[k]
     THEN /\ browser' = [rev |-> seen[k] + 1, attached |-> sess[k]]
          /\ IF signIn[k] \in OAuth
             THEN Goto(k, "complete") \/ Goto(k, "discard")
             ELSE Finish(k) \/ Goto(k, "discard")
     ELSE UNCHANGED browser /\ Goto(k, "unattach")
  /\ UNCHANGED <<oauth, meta, callback, deadline, auth, origin, now, logout, late, history>>

\* The browser session must still be the one the request has read.
Attach(k) ==
  /\ pc[k] = "attach"
  /\ IF browser # None /\ browser.rev = seen[k]
     THEN /\ browser' = [rev |-> seen[k] + 1, attached |-> sess[k]]
          /\ IF signIn[k] \in OAuth THEN Goto(k, "complete") ELSE Finish(k)
     ELSE UNCHANGED browser /\ Goto(k, "unattach")
  /\ UNCHANGED <<oauth, meta, callback, deadline, auth, origin, now, logout, late, history>>

-----------------------------------------------------------------------------
(* Cleaning up *)

\* deleteUnattachedAuthSession: a get and a compareAndDelete whose outcome is not
\* looked at. A browser session that changed makes it run twice.
ReadForDiscard(k) ==
  /\ pc[k] \in {"unattach", "discard"}
  /\ IF auth[sess[k]] # None
     THEN Read(k, IF pc[k] = "unattach" THEN "unattaching" ELSE "discarding")
     ELSE IF pc[k] = "unattach" THEN Goto(k, "discard") ELSE Close(k)
  /\ UNCHANGED <<stores, logout, late, history>>

Discard(k) ==
  /\ pc[k] \in {"unattaching", "discarding"}
  /\ auth' = IF auth[sess[k]] = arev[k]
             THEN [auth EXCEPT ![sess[k]] = None] ELSE auth
  /\ IF pc[k] = "unattaching" THEN Goto(k, "discard") ELSE Close(k)
  /\ UNCHANGED <<oauth, meta, callback, deadline, origin, browser, now, logout, late, history>>

\* The pending session is not recorded.
KeepNothing(k) ==
  /\ pc[k] = "keep"
  /\ IF signIn[k] \in OAuth THEN Goto(k, "release") ELSE Finish(k)
  /\ UNCHANGED <<stores, logout, late, history>>

\* storePendingOAuthAuthentication and storePendingChallengeAuthentication: the
\* next attempt is to find the session. Where that cannot be stored it is deleted;
\* a record that has expired is refused by the store.
KeepPending(k) ==
  /\ pc[k] = "keep"
  /\ LET s == signIn[k]
     IN  \/ /\ Live(s)
            /\ meta' = [meta EXCEPT ![s] = [pending |-> sess[k]]]
            /\ IF s \in OAuth THEN Goto(k, "release") ELSE Finish(k)
         \/ UNCHANGED meta /\ Goto(k, "discard")
  /\ UNCHANGED <<oauth, callback, deadline, auth, origin, browser, now, logout, late, history>>

\* restoreChallengeBinding
Restore(k) ==
  /\ pc[k] = "restore"
  /\ meta' = IF Live(signIn[k])
             THEN [meta EXCEPT ![signIn[k]] = [pending |-> None]] ELSE meta
  /\ Finish(k)
  /\ UNCHANGED <<oauth, callback, deadline, auth, origin, browser, now, logout, late, history>>

\* release and consume act on the very claim the request was given, while it lasts.
OwnsClaim(k) ==
  LET r == oauth[signIn[k]]
  IN  r # None /\ r.rev = claim[k] /\ r.lease > now /\ Live(signIn[k])

\* A release that throws gives up the session that was kept.
ReleaseState(k) ==
  /\ pc[k] = "release"
  /\ \/ /\ oauth' = IF OwnsClaim(k) /\ claim[k] < MaxClaims
                    THEN [oauth EXCEPT ![signIn[k]] = [rev |-> @.rev + 1, lease |-> 0]]
                    ELSE oauth
        /\ Finish(k)
     \/ sess[k] # None /\ Goto(k, "discard") /\ UNCHANGED oauth
  /\ UNCHANGED <<meta, callback, deadline, auth, origin, browser, now, logout, late, history>>

\* The outcome of consume is not looked at either.
ConsumeState(k) ==
  /\ pc[k] \in {"complete", "consume"}
  /\ oauth' = IF OwnsClaim(k) THEN [oauth EXCEPT ![signIn[k]] = None] ELSE oauth
  /\ Goto(k, "forget")
  /\ UNCHANGED <<meta, callback, deadline, auth, origin, browser, now, logout, late, history>>

\* deleteOAuthMetadata
Forget(k) ==
  /\ pc[k] = "forget"
  /\ meta' = [meta EXCEPT ![signIn[k]] = None]
  /\ Finish(k)
  /\ UNCHANGED <<oauth, callback, deadline, auth, origin, browser, now, logout, late, history>>

\* The process dies, or a store throws where the routes only redirect.
Crash(k) ==
  /\ pc[k] \notin {"idle", "claim", "take"}
  /\ Finish(k)
  /\ mishaps' = mishaps \cup {"loss"}
  /\ UNCHANGED <<stores, logout, late, exchanges, signedOut>>

-----------------------------------------------------------------------------
(* Viewer queries whose requests have failed *)

\* A request has read the session to delete it, and nothing was written since.
Deletes(k, a) ==
  pc[k] \in {"unattaching", "discarding"} /\ sess[k] = a /\ arev[k] = auth[a]

\* The answer of the remote server is written, or there is none. The read of the
\* query is part of the step: a write succeeds only where nothing was written since
\* the read, so that the read may as well be the last thing before it. The write
\* moves the revision away from under a deletion that has read it.
LateWrite(a) ==
  /\ a \in late
  /\ late' = late \ {a}
  /\ \/ /\ auth[a] # None /\ CanSet(a, auth[a])
        /\ auth' = [auth EXCEPT ![a] = @ + 1]
        /\ mishaps' = IF \E k \in Requests : Deletes(k, a)
                      THEN mishaps \cup {"loss"} ELSE mishaps
     \/ UNCHANGED <<auth, mishaps>>
  /\ UNCHANGED <<oauth, meta, callback, deadline, origin, browser, now, requests,
                 logout, exchanges, signedOut>>

-----------------------------------------------------------------------------
(* POST /v1/browser/logout, other requests of the signed-in browser, time *)

StartLogout ==
  /\ logout.pc = "idle"
  /\ late = {}
  /\ \E found \in Resolvable \ {None} :
       LET a == found.attached
       IN  IF a = None
           THEN logout' = [logout EXCEPT !.pc = "drop"] /\ UNCHANGED signedOut
           ELSE /\ auth[a] # None
                /\ logout' = [logout EXCEPT !.pc = "revoke", !.sess = a]
                /\ signedOut' = signedOut \cup {a}
  /\ UNCHANGED <<stores, requests, late, exchanges, mishaps>>

\* revokeSession, in one step: the session goes, or stays with or without the
\* claim of the revocation. AuthSessions has its steps.
Revoke ==
  /\ logout.pc = "revoke"
  /\ LET a == logout.sess
     IN  auth' \in {auth, [auth EXCEPT ![a] = None]}
                   \cup {[auth EXCEPT ![a] = r + 1] : r \in {auth[a]} \cap 0..(MaxRevision - 1)}
  /\ logout' = [logout EXCEPT !.pc = "read"]
  /\ UNCHANGED <<oauth, meta, callback, deadline, origin, browser, now, requests, late, history>>

\* The rest of the session is deleted whatever revokeSession said.
ReadForLogout ==
  /\ logout.pc = "read"
  /\ logout' = IF auth[logout.sess] = None
               THEN [logout EXCEPT !.pc = "drop"]
               ELSE [logout EXCEPT !.pc = "delete", !.arev = auth[logout.sess]]
  /\ UNCHANGED <<stores, requests, late, history>>

DeleteForLogout ==
  /\ logout.pc = "delete"
  /\ auth' = IF auth[logout.sess] = logout.arev
             THEN [auth EXCEPT ![logout.sess] = None] ELSE auth
  /\ logout' = [logout EXCEPT !.pc = "drop", !.arev = 0]
  /\ UNCHANGED <<oauth, meta, callback, deadline, origin, browser, now, requests, late, history>>

\* The browser session is deleted whatever has become of it since the request came.
\* Bound: there is one logout.
DropBrowser ==
  /\ logout.pc = "drop"
  /\ browser' = None
  /\ signedOut' = IF browser = None \/ browser.attached = None
                  THEN signedOut ELSE signedOut \cup {browser.attached}
  /\ logout' = [pc |-> "done", sess |-> None, arev |-> 0]
  /\ UNCHANGED <<oauth, meta, callback, deadline, auth, origin, now, requests,
                 late, exchanges, mishaps>>

\* Another request of the signed-in browser verifies the session.
Use(a) ==
  /\ browser # None /\ browser.attached = a
  /\ auth[a] # None /\ auth[a] < MaxRevision
  /\ auth' = [auth EXCEPT ![a] = @ + 1]
  /\ UNCHANGED <<oauth, meta, callback, deadline, origin, browser, now, requests,
                 logout, late, history>>

Tick ==
  /\ now < MaxTime
  /\ now' = now + 1
  /\ UNCHANGED <<oauth, meta, callback, deadline, auth, origin, browser, requests,
                 logout, late, history>>

-----------------------------------------------------------------------------

Request(k) ==
  \/ \E s \in SignIns : ReadMetadata(k, s) \/ ResolveComplete(k, s)
  \/ ClaimState(k) \/ Resolve(k) \/ TakeBinding(k)
  \/ GetPending(k) \/ ConsumeCallbackState(k) \/ Exchange(k)
  \/ ReadForViewer(k) \/ Viewed(k) \/ CapabilitiesFail(k)
  \/ ReadForBind(k) \/ Bind(k) \/ Attach(k)
  \/ ReadForDiscard(k) \/ Discard(k)
  \/ KeepPending(k) \/ Restore(k)
  \/ ReleaseState(k) \/ ConsumeState(k) \/ Forget(k)
  \/ Crash(k)

Next ==
  \/ \E s \in SignIns : Start(s)
  \/ \E k \in Requests : Request(k)
  \/ \E a \in Auths : LateWrite(a) \/ Use(a)
  \/ StartLogout \/ Revoke \/ ReadForLogout \/ DeleteForLogout \/ DropBrowser
  \/ Tick

Spec == Init /\ [][Next]_vars

-----------------------------------------------------------------------------
(* Properties *)

\* An OAuth code is sent to the remote server at most once, whatever is retried
\* and however many callbacks get hold of the state one after the other.
ExchangedOnce == \A s \in OAuth : exchanges[s] <= 1

\* A sign-in of either kind creates at most one authentication session: a retry
\* uses the session of the attempt before it.
OneSessionPerSignIn ==
  \A a, b \in Auths : origin[a] # None /\ origin[a] = origin[b] => a = b

\* What the retries and replays of a sign-in may not do twice: send its code to the remote
\* server, create a session.
SignsInOnce == ExchangedOnce /\ OneSessionPerSignIn

\* Somebody still answers for the session: the browser session it is attached to,
\* the record a retry will read, a request or a logout under way.
InHands(a) ==
  \/ browser # None /\ browser.attached = a
  \/ \E s \in SignIns : meta[s] = [pending |-> a]
  \/ \E k \in Requests : sess[k] = a \/ (pc[k] = "pending" /\ pending[k] = a)

\* As long as no process dies, no lease runs out under its callback, no callback
\* claims with metadata that has changed since it was read, no viewer query that its
\* request no longer waits for overtakes a deletion, no request of the wrong kind takes
\* a binding with a pending session and none gives up a sign-in that has one, no session
\* with live tokens is left behind that neither a browser nor a retry will come to.
\* Records that have expired still count here; nothing deletes the session of a retry
\* that never comes.
NoStrandedSession ==
  mishaps = {} => \A a \in Auths : auth[a] # None => InHands(a) \/ a \in signedOut

\* A browser session that is signed in has its authentication session, until it
\* signs out: no failing concurrent request deletes what another one attached.
AttachedSessionStays ==
  "lapse" \notin mishaps /\ browser # None /\ browser.attached # None =>
    auth[browser.attached] # None \/ browser.attached \in signedOut

\* Authentication sessions and the browser sessions they are attached to go together: what
\* is stored is attached or in somebody's hands, and what is attached is stored.
SessionsFollowAttachments == NoStrandedSession /\ AttachedSessionStays

\* A signed-in browser session never changes hands: two sign-ins that complete at the
\* same time do not replace each other. Its identifier may be stored again after it was
\* deleted, and is then anonymous and at its first revision: no request signs in what
\* is not stored.
AttachmentIsFinal ==
  [][/\ browser = None => browser' \in {None, Anonymous}
     /\ browser # None /\ browser.attached # None =>
          browser' \in {browser, None}]_vars

\* What docs/en/browser-integration.md says of sign-ins, that "Non-retryable
\* failures delete unattached sessions": when no lease runs out and nothing is lost, a
\* session is deleted, attached, or kept for a retry.
FailuresDeleteUnattached ==
  mishaps \subseteq {"stale", "abandon"} =>
    \A a \in Auths : auth[a] # None => InHands(a) \/ a \in signedOut

\* What docs/en/authentication-and-sessions.md says of the lease, that it "prevents
\* concurrent or replayed callbacks from using the same state": the callback that
\* comes second cannot undo the sign-in of the first.
SignInSurvivesReplay ==
  "loss" \notin mishaps /\ browser # None /\ browser.attached # None =>
    auth[browser.attached] # None \/ browser.attached \in signedOut

=============================================================================
