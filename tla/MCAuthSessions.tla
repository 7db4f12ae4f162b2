--------------------------- MODULE MCAuthSessions ---------------------------
(***************************************************************************)
(* AuthSessions on a small instance for TLC. Callers are interchangeable.  *)
(***************************************************************************)
EXTENDS AuthSessions, TLC

CallerSymmetry == Permutations(Callers)
=============================================================================
