--------------------------- MODULE MCRemoteFetch ---------------------------
EXTENDS RemoteFetch

\* Two fetches at a time under a deadline, and one without.
MCLimits ==
  {[requests |-> 3, reads |-> 2, concurrency |-> 2, deadline |-> 1],
   [requests |-> 3, reads |-> 1, concurrency |-> 1, deadline |-> NoLimit]}
=============================================================================
