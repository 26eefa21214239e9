---------------------------- MODULE MCServerSession ----------------------------
(* TLC instances of ServerSession.  A behaviour is about the end of generations,*)
(* about revocation or about the deletion of an account, chosen in the initial  *)
(* state, and each kind leaves out what its question does not need.             *)
EXTENDS ServerSession, TLC

CONSTANTS q1, r1

TwoAccounts == {1, 2}
OneAccount == {1}

Symmetry == Permutations(Sessions) \cup Permutations(Workers)

VARIABLE part

\* Two accounts over two generations, two end workers that overtake each other.
Ends ==
  /\ \A h \in Handlers : handler'[h] # Idle => handler'[h].request = q1
  /\ \A r \in Revokers : revoker'[r] # Idle => r = r1 /\ revoker'[r].epoch <= 2
  /\ UNCHANGED <<standing, admitted, frozen>>

\* One account, two reconciles that overtake each other, and an end.
Alone ==
  /\ \A h \in Handlers : handler'[h] # Idle => handler'[h].user \in OneAccount
  /\ \A w \in Workers : worker'[w] # Idle => worker'[w].top \in OneAccount \cup {0}
  /\ \A u \in Users \ OneAccount : standing'[u] = standing[u]
  /\ Cardinality({w \in Workers : worker'[w] # Idle}) <= 1

\* Its authority changes and its requests are repeated.
Revocations ==
  /\ Alone
  /\ UNCHANGED frozen

\* It is deleted, after its standing changed or before.
Deletion == Alone /\ UNCHANGED admitted

SessionInit == part \in {"ends", "revocations", "deletion"} /\ Init

SessionNext ==
  /\ UNCHANGED part
  /\ Next
  /\ \/ part = "ends" /\ Ends
     \/ part = "revocations" /\ Revocations
     \/ part = "deletion" /\ Deletion

sessionVars == <<part, vars>>

SessionSpec == SessionInit /\ [][SessionNext]_sessionVars
=============================================================================
