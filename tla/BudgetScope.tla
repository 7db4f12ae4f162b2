----------------------------- MODULE BudgetScope -----------------------------
(***************************************************************************)
(* The budget of one operation, in the mode that enforces it: what its     *)
(* remote requests have used of three dimensions, and the deadline that is *)
(* measured from the operation's start. Reads and bytes are charged        *)
(* together, chunk by chunk; they are one dimension here.                  *)
(***************************************************************************)
EXTENDS Integers

CONSTANTS
  LimitChoices,  \* the limits that the scope of an operation may be created with
  NoLimit,       \* in the place of a deadline
  EndOfTime      \* the clock of the model stops there, after every deadline

ASSUME BudgetAssumption ==
  /\ EndOfTime \in Nat
  /\ LimitChoices \subseteq [requests : Nat, reads : Nat, concurrency : Nat,
                             deadline : (0..(EndOfTime - 1)) \cup {NoLimit}]

VARIABLES
  limits,
  used,
  elapsed       \* time since the operation started

budgetVars == <<limits, used, elapsed>>

Unused == [requests |-> 0, reads |-> 0, concurrency |-> 0]

BudgetTypeOK ==
  /\ limits \in LimitChoices
  /\ used \in [requests : Nat, reads : Nat, concurrency : Nat]
  /\ \A d \in {"requests", "reads", "concurrency"} : used[d] <= limits[d]
  /\ elapsed \in 0..EndOfTime

BudgetInit ==
  /\ limits \in LimitChoices
  /\ used = Unused
  /\ elapsed = 0

\* checkDeadline does not throw.
InTime == limits.deadline # NoLimit => elapsed <= limits.deadline

\* #apply does not throw, given what has been used.
RoomForOneMore(u, d) == u[d] <= limits[d]

Room(u, d) == u[d] + 1 <= limits[d]

Charged(u, d)  == [u EXCEPT ![d] = @ + 1]

Released(u, d) == [u EXCEPT ![d] = IF @ > 0 THEN @ - 1 ELSE 0]
=============================================================================
