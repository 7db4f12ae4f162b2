-------------------------- MODULE MCServerShutdown --------------------------
(***************************************************************************)
(* ServerShutdown on a small instance for TLC.                             *)
(***************************************************************************)
EXTENDS ServerShutdown
=============================================================================
