---------------------------- MODULE ServerProcess ----------------------------
(***************************************************************************)
(* What the parts of one server process share: the calls it works on and   *)
(* its clock.                                                              *)
(***************************************************************************)
EXTENDS Integers, FiniteSets, SequencesExt

CONSTANTS
  Calls,     \* calls of the service, numbered in the order in which they are made
  EndOfTime  \* bound of the model: the clock stops there

ASSUME ProcessAssumption == EndOfTime \in Nat /\ Calls \subseteq Nat /\ IsFiniteSet(Calls)

VARIABLE now
=============================================================================
