---------------------------- MODULE MCDirectCalls ----------------------------
(* Small instances of DirectCalls for TLC: the pairs of accounts whose standing *)
(* changes in a run, and the identities that are interchangeable.               *)
EXTENDS DirectCalls, TLC

CONSTANTS u1, u2

OnePair == {{u1, u2}}

NoPair == {}

\* Devices, and the accounts no environment action singles out.
Symmetry ==
  Permutations(Devices) \cup
  Permutations(Users \ (MayFreeze \cup UNION MayBar))

=============================================================================
