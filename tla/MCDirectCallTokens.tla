-------------------------- MODULE MCDirectCallTokens --------------------------
(* A small instance of DirectCallTokens for TLC. *)
EXTENDS DirectCallTokens, TLC

CONSTANTS u1, u2, d1

NoPair == {}

\* One account asks with its video-capable device and as a legacy client.
OneAccountAsks ==
  {[user |-> u1, call |-> c, device |-> d1, acknowledges |-> TRUE] : c \in Calls}
  \cup
  {[user |-> u1, call |-> c, device |-> None, acknowledges |-> FALSE] : c \in Calls}

Symmetry == Permutations(Handlers)

=============================================================================
