---------------------------- MODULE MCServerCalls ----------------------------
EXTENDS ServerCalls

CONSTANTS home, away, alice, bob

MCKeys == {[client |-> alice, origin |-> home], [client |-> alice, origin |-> away],
           [client |-> bob, origin |-> home]}
=============================================================================
