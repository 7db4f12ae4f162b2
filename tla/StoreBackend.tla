---------------------------- MODULE StoreBackend ----------------------------
(* What the stores of a deployment share: what keeps them, and the time.   *)
EXTENDS Integers

CONSTANT EndOfTime  \* bound: the clock stops there

VARIABLES backend, clock
=============================================================================
