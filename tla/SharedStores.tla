---------------------------- MODULE SharedStores ----------------------------
(***************************************************************************)
(* The stores of a deployment that processes share, or a process has to    *)
(* itself: OAuth states, browser sessions, the index of expiries that the  *)
(* latter have in memory, and authentication sessions. They meet in        *)
(* nothing but the backend and the clock: `part` tells which of them a     *)
(* behaviour is about.                                                     *)
(***************************************************************************)
EXTENDS OAuthStateStores, BrowserSessionStores, ExpirationIndex, AuthSessionStores

VARIABLE part

stateVars == <<row, deadline, locker, creator, creatorNow, call, histories>>
storesVars == <<backend, clock, stateVars, browserVars, indexVars, recordVars, part>>

\* What a behaviour is not about is as it happens to be.
StoresInit ==
  /\ part \in {"states", "sessions", "index", "records"}
  /\ Init /\ SessionInit /\ IndexInit /\ RecordInit
  /\ part # "sessions" => /\ \A s \in Sessions : expiry[s] = CHOOSE t \in Expiries : TRUE
                          /\ limits = CHOOSE l \in Limits : TRUE
  /\ part = "index" => backend = "memory"

StoresNext ==
  \/ part = "states" /\ Next /\ UNCHANGED <<browserVars, indexVars, recordVars, part>>
  \/ part = "sessions" /\ SessionStep /\ UNCHANGED <<stateVars, indexVars, recordVars, part>>
  \/ part = "index" /\ IndexNext /\ UNCHANGED <<backend, clock, stateVars, browserVars, recordVars, part>>
  \/ part = "records" /\ RecordStep /\ UNCHANGED <<stateVars, browserVars, indexVars, part>>

StoresSpec == StoresInit /\ [][StoresNext]_storesVars

\* What the stores keep beside their records in order to find and to count them agrees with
\* the records: the index of expiries, the counts and registries of browser sessions.
IndexesAgree == (part = "index" => IndexIsExact) /\ (part = "sessions" => BooksAgree)
=============================================================================
