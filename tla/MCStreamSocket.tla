--------------------------- MODULE MCStreamSocket ---------------------------
(***************************************************************************)
(* StreamSocket on a small instance for TLC.                               *)
(***************************************************************************)
EXTENDS StreamSocket
=============================================================================
