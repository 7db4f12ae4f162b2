--------------------------- MODULE MCBrowserAuth ---------------------------
(***************************************************************************)
(* BrowserAuth on a small instance for TLC. Requests are interchangeable,  *)
(* and so are the identifiers of authentication sessions.                  *)
(***************************************************************************)
EXTENDS BrowserAuth, TLC

Symmetry == Permutations(Requests) \cup Permutations(Auths)
=============================================================================
