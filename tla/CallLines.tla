------------------------------ MODULE CallLines ------------------------------
(***************************************************************************)
(* What one-to-one calling promises, without clocks, locks or documents: a *)
(* call occupies its two parties from the ring until it is over, and a new *)
(* ring finds its parties free.  A ringing call that was not answered in   *)
(* time has lapsed.  Only the answer of a lapsed call may engage a party   *)
(* twice; the calls it meets are crossed, occupy nobody from then on, and  *)
(* are the only ones whose own answer may cross another call.              *)
(***************************************************************************)
CONSTANTS Users, Calls

VARIABLES
  phase,    \* where each call is in its life
  parties,  \* the accounts of each call
  crossed   \* the calls an answer out of time engaged a party of

lines == <<phase, parties, crossed>>

Engaged(c) == phase[c] \in {"ringing", "talking"}

Init ==
  /\ phase = [c \in Calls |-> "none"]
  /\ parties = [c \in Calls |-> {}]
  /\ crossed = {}

\* A ring that took too long to be placed has lapsed when it is.
Ring(c, u, v, next) ==
  /\ phase[c] = "none"
  /\ next \in {"ringing", "lapsed"}
  /\ u # v
  /\ \A d \in Calls \ crossed : Engaged(d) => {u, v} \cap parties[d] = {}
  /\ phase' = [phase EXCEPT ![c] = next]
  /\ parties' = [parties EXCEPT ![c] = {u, v}]
  /\ UNCHANGED crossed

\* An answer in time crosses nothing.
Answer(c, next) ==
  /\ phase[c] = "ringing" /\ c \notin crossed
  /\ next \in {"talking", "over"}
  /\ phase' = [phase EXCEPT ![c] = next]
  /\ UNCHANGED <<parties, crossed>>

\* One out of time engages the parties again, whoever they are engaged with.
AnswerLate(c, next) ==
  /\ \/ phase[c] = "lapsed"
     \/ phase[c] = "ringing" /\ c \in crossed
  /\ next \in {"talking", "over"}
  /\ phase' = [phase EXCEPT ![c] = next]
  /\ crossed' = (crossed \ {c}) \cup
       {d \in Calls \ {c} : Engaged(d) /\ parties[d] \cap parties[c] # {}}
  /\ UNCHANGED parties

\* Hanging up ends one call; the passing of time may end or lapse several.
Over(ending, lapsing) ==
  /\ \A c \in ending : phase[c] \in {"ringing", "talking", "lapsed"}
  /\ \A c \in lapsing : phase[c] = "ringing"
  /\ phase' = [c \in Calls |-> IF c \in ending THEN "over"
                               ELSE IF c \in lapsing THEN "lapsed" ELSE phase[c]]
  /\ UNCHANGED <<parties, crossed>>

Next ==
  \/ \E c \in Calls, u, v \in Users, next \in {"ringing", "lapsed"} :
        Ring(c, u, v, next)
  \/ \E c \in Calls, next \in {"talking", "over"} :
        Answer(c, next) \/ AnswerLate(c, next)
  \/ \E ending, lapsing \in SUBSET Calls : Over(ending, lapsing)

Spec == Init /\ [][Next]_lines

=============================================================================
