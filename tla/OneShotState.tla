---------------------------- MODULE OneShotState ----------------------------
(***************************************************************************)
(* What an OAuth state store promises of one state, whatever keeps it: the *)
(* state is registered once; it is held by one claim at a time, a further  *)
(* claim being granted only when it is free or the lease of the claim that *)
(* holds it has run out; only the latest claim can give it back or consume *)
(* it; a consumed state is never granted again; and a state goes away      *)
(* unconsumed only when its time has passed.                               *)
(***************************************************************************)
EXTENDS Naturals

CONSTANTS
  ExpiresAt,  \* expiresAt of the state
  EndOfTime   \* the clock stops there

VARIABLES
  clock,
  status,
  grants,    \* claims granted, which number the claims
  lease,     \* the time until which the latest claim holds the state
  consumed,  \* claims that were told they consumed the state
  released   \* claims that were told they gave it back

vars == <<clock, status, grants, lease, consumed, released>>

Init ==
  /\ clock = 0
  /\ status = "none"
  /\ grants = 0
  /\ lease = 0
  /\ consumed = {}
  /\ released = {}

Tick ==
  /\ clock < EndOfTime
  /\ clock' = clock + 1
  /\ UNCHANGED <<status, grants, lease, consumed, released>>

Register ==
  /\ status = "none"
  /\ status' = "free"
  /\ UNCHANGED <<clock, grants, lease, consumed, released>>

Grant ==
  /\ \/ status = "free"
     \/ status = "held" /\ lease <= clock
  /\ status' = "held"
  /\ grants' = grants + 1
  /\ lease' \in 1..ExpiresAt
  /\ UNCHANGED <<clock, consumed, released>>

Release ==
  /\ status = "held"
  /\ status' = "free"
  /\ lease' = 0
  /\ released' = released \cup {grants}
  /\ UNCHANGED <<clock, grants, consumed>>

Consume ==
  /\ status = "held"
  /\ status' = "consumed"
  /\ lease' = 0
  /\ consumed' = consumed \cup {grants}
  /\ UNCHANGED <<clock, grants, released>>

Expire ==
  /\ status \in {"free", "held"}
  /\ ExpiresAt <= clock
  /\ status' = "expired"
  /\ lease' = 0
  /\ UNCHANGED <<clock, grants, consumed, released>>

Next == Tick \/ Register \/ Grant \/ Release \/ Consume \/ Expire

Spec == Init /\ [][Next]_vars
=============================================================================
