-------------------------- MODULE RevisionedRecord --------------------------
(***************************************************************************)
(* What an authentication session store promises of one session, whatever  *)
(* keeps it: the session is created once; it is replaced only by a session *)
(* derived from the one that is stored, so that no update is lost; at most *)
(* one call is told that it replaced or deleted a given revision, and it   *)
(* did; it is consumed by one call at most; it goes away otherwise only    *)
(* when its time has passed; and it does not come back.                    *)
(***************************************************************************)
EXTENDS Integers, Sequences

CONSTANTS
  Users,            \* callers that update the session
  StorageExpiries,  \* values of storageExpiresAt
  Never,            \* the one of a session without
  EndOfTime         \* the clock stops there

VARIABLES
  clock,
  status,
  record,  \* the session: its revision, the callers that updated it, and when it expires
  won,     \* the revisions that a call was told it had replaced or deleted
  answers  \* how often a consumption was answered with the session

vars == <<clock, status, record, won, answers>>

None      == [revision |-> -1, updates |-> <<>>, expires |-> Never]
Opened(e) == [revision |-> 0, updates |-> <<>>, expires |-> e]
Updated(r, u, e) ==
  [revision |-> r.revision + 1, updates |-> Append(r.updates, u), expires |-> e]

Init ==
  /\ clock = 0
  /\ status = "none"
  /\ record = None
  /\ won = {}
  /\ answers = 0

Tick ==
  /\ clock < EndOfTime
  /\ clock' = clock + 1
  /\ UNCHANGED <<status, record, won, answers>>

Create ==
  /\ status = "none" /\ status' = "stored"
  /\ \E e \in StorageExpiries : record' = Opened(e)
  /\ UNCHANGED <<clock, won, answers>>

\* The answer may be lost.
WonOrLost == won' = won \/ won' = won \cup {record.revision}

Replace ==
  /\ status = "stored"
  /\ \E u \in Users, e \in StorageExpiries : record' = Updated(record, u, e)
  /\ record.revision \notin won
  /\ WonOrLost
  /\ UNCHANGED <<clock, status, answers>>

Delete ==
  /\ status = "stored" /\ status' = "deleted"
  /\ record' = None
  /\ record.revision \notin won
  /\ WonOrLost
  /\ UNCHANGED <<clock, answers>>

\* The answer may come with the consumption, later or never.
Take ==
  /\ status = "stored" /\ status' = "taken"
  /\ record' = None
  /\ answers' \in {0, 1}
  /\ UNCHANGED <<clock, won>>

Answer ==
  /\ status = "taken"
  /\ answers = 0 /\ answers' = 1
  /\ UNCHANGED <<clock, status, record, won>>

Lapse ==
  /\ status = "stored" /\ status' = "lapsed"
  /\ record.expires <= clock
  /\ record' = None
  /\ UNCHANGED <<clock, won, answers>>

Next == Tick \/ Create \/ Replace \/ Delete \/ Take \/ Answer \/ Lapse

Spec == Init /\ [][Next]_vars
=============================================================================
