------------------------------ MODULE Generations ------------------------------
(***************************************************************************)
(* What the media sessions of a channel promise, without documents, leases *)
(* or workers: generations follow one another, an account is admitted only *)
(* to the live one, and one that is over has no holder of access left.     *)
(***************************************************************************)
CONSTANTS Users, Sessions

VARIABLES
  phase,  \* where each generation is in its life
  held    \* the accounts that can join each generation, as pairs

media == <<phase, held>>

Init ==
  /\ phase = [s \in Sessions |-> "none"]
  /\ held = {}

Open(s) ==
  /\ phase[s] = "none"
  /\ \A other \in Sessions : phase[other] \in {"none", "ended"}
  /\ phase' = [phase EXCEPT ![s] = "live"]
  /\ UNCHANGED held

Admit(s, u) ==
  /\ phase[s] = "live"
  /\ held' = held \cup {<<s, u>>}
  /\ UNCHANGED phase

Expel(s, u) ==
  /\ held' = held \ {<<s, u>>}
  /\ UNCHANGED phase

Stage(s) ==
  /\ phase[s] = "live"
  /\ phase' = [phase EXCEPT ![s] = "ending"]
  /\ UNCHANGED held

Close(s) ==
  /\ phase[s] = "ending"
  /\ \A u \in Users : <<s, u>> \notin held
  /\ phase' = [phase EXCEPT ![s] = "ended"]
  /\ UNCHANGED held

Next ==
  \/ \E s \in Sessions : Open(s) \/ Stage(s) \/ Close(s)
  \/ \E s \in Sessions, u \in Users : Admit(s, u) \/ Expel(s, u)

Spec == Init /\ [][Next]_media

=============================================================================
