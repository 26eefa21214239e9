------------------------------ MODULE EmptyGrace ------------------------------
(***************************************************************************)
(* How a media generation that nobody is in any more comes to its end:     *)
(* functions/servers/session_staleness.js with the release callable of     *)
(* sessions.js.                                                            *)
(*                                                                         *)
(*   ended     Nil while the generation is live, then why it was staged   *)
(*   issued    the age of tokenRecipients/{uid}.lastIssuedAt               *)
(*   bound     lastAdmissionMillis, the later of startedAt and             *)
(*             maxTokenExpiresAtMillis, as the time it is still ahead      *)
(*             (negative: how long it has passed)                          *)
(*   obs       emptyObservation: its age, and whether the bound it was     *)
(*             taken at is still the session's                             *)
(*   signed    token requests that have signed and not committed           *)
(*   life      how long the newest token a person holds can still connect  *)
(*   inRoom    the people LiveKit has in the room                          *)
(*   finished  a room_finished event under way, by its age                 *)
(*   reader    the invocations in progress: sweep, webhook, release        *)
(*                                                                         *)
(* Time is a set of ages that stop growing where no rule looks further.    *)
(* An invocation reads the session, then LiveKit, then decides in one      *)
(* transaction: three steps.                                               *)
(***************************************************************************)
EXTENDS Integers, FiniteSets

CONSTANTS
  People,        \* people with joinVoice on the channel
  Kinds,        \* the paths that run, of sweep, webhook and release
  Grace,        \* EMPTY_GENERATION_GRACE_MS
  Window,       \* ADMISSION_WINDOW_MS
  Lifetime,     \* SESSION_TOKEN_TTL_SECONDS
  Staleness,    \* STALE_GENERATION_GRACE_MS
  MayFail,      \* whether LiveKit may not answer
  Nil          \* absence

ASSUME GraceConstantsAssumption ==
  /\ Kinds \subseteq {"sweep", "webhook", "release"}
  /\ Grace \in Nat \ {0} /\ Window \in Nat \ {0}
  /\ Lifetime \in Nat /\ Staleness \in Nat
  /\ Grace < Lifetime /\ Lifetime <= Staleness
  /\ MayFail \in BOOLEAN

VARIABLES ended, issued, bound, obs, signed, life, inRoom, finished, reader

session == <<ended, bound, obs>>
tokens == <<issued, signed, life>>
vars == <<session, tokens, inRoom, finished, reader>>

--------------------------------
\* An age no rule can tell from an older one.
Oldest == Grace + Window + 1
Ages == 0 .. Oldest
Reading == [who : People \cup {Nil}, phase : {"session", "looked"}, current : BOOLEAN,
            path : {"settle", "stale"}, since : Ages, seen : SUBSET People]

Older(a) == IF a = Nil \/ a = Oldest THEN a ELSE a + 1

--------------------------------
\* The observation that still describes the generation, or Nil.
emptyObservation == IF obs # Nil /\ obs.current THEN obs ELSE Nil

graceElapsed(o) == o.age >= Grace

\* Whether somebody outside excluded was issued a token less than age ago.
recentAdmission(age, excluded) ==
  \E u \in People \ excluded : issued[u] # Nil /\ issued[u] < age

\* Rule B: the last admission has been impossible for the whole staleness.
AdmissionLongOver == bound <= -Staleness

\* A running observation is kept as it is.
Kept == UNCHANGED obs

\* The observation, unless somebody was admitted since it was taken.
Describes ==
  LET o == emptyObservation
  IN  IF o # Nil /\ ~recentAdmission(o.age, {}) THEN o ELSE Nil

Ends(reason) == ended' = reason /\ UNCHANGED <<bound, obs>>

\* settleEmptyGenerationWithin, one transaction.
settleEmptyGeneration(r) ==
  LET excluded == {r.who} \cap People
      others == r.seen \ excluded
      observation == Describes
  IN  IF observation # Nil /\ r.seen = {} /\ graceElapsed(observation)
      THEN Ends("empty")
      ELSE /\ UNCHANGED <<ended, bound>>
           /\ \/ others # {} /\ obs' = Nil
              \/ others = {} /\ observation # Nil /\ Kept
              \/ /\ others = {} /\ observation = Nil
                 /\ IF recentAdmission(r.since + Window, excluded)
                    THEN UNCHANGED obs
                    ELSE obs' = [age |-> 0, current |-> TRUE]

\* mutant: rule B does not look for an observation taken meanwhile
StaleAdmission_Blind == AdmissionLongOver

\* The admission check of the sweep's rule B, judged in the transaction.
StaleAdmission ==
  /\ AdmissionLongOver
  /\ emptyObservation # Nil => graceElapsed(emptyObservation)

stageEmptyGeneration ==
  IF StaleAdmission THEN Ends("stale") ELSE UNCHANGED session

--------------------------------
\* A token request: the preflight signs, a transaction discloses the token.
SignsToken(u) ==
  /\ ended = Nil /\ signed[u] = Nil
  /\ signed' = [signed EXCEPT ![u] = Lifetime]
  /\ UNCHANGED <<session, issued, life, inRoom, finished, reader>>

MovesBound(left) == left > bound

\* What the invocations in progress have read is outdated when the bound moves.
Outdated(moved) ==
  [k \in Kinds |->
     IF reader[k] # Nil /\ moved THEN [reader[k] EXCEPT !.current = FALSE] ELSE reader[k]]

createServerChannelTokenV1(u) ==
  /\ ended = Nil /\ signed[u] # Nil /\ signed[u] > 0
  /\ LET left == signed[u]
         moved == MovesBound(left)
     IN  /\ bound' = IF moved THEN left ELSE bound
         /\ obs' = IF obs # Nil /\ moved THEN [obs EXCEPT !.current = FALSE] ELSE obs
         /\ reader' = Outdated(moved)
         /\ life' = [life EXCEPT ![u] = IF left > @ THEN left ELSE @]
  /\ issued' = [issued EXCEPT ![u] = 0]
  /\ signed' = [signed EXCEPT ![u] = Nil]
  /\ UNCHANGED <<ended, inRoom, finished>>

\* The request fails, is refused, or finds its signature too old.
DropsToken(u) ==
  /\ signed[u] # Nil
  /\ signed' = [signed EXCEPT ![u] = Nil]
  /\ UNCHANGED <<session, issued, life, inRoom, finished, reader>>

\* A device connects with the token it holds.
Connects(u) ==
  /\ u \notin inRoom /\ life[u] > 0
  /\ inRoom' = inRoom \cup {u}
  /\ UNCHANGED <<session, tokens, finished, reader>>

\* LiveKit notices that a device is gone; of the last one it sends an event.
Leaves(u) ==
  /\ u \in inRoom
  /\ inRoom' = inRoom \ {u}
  /\ \/ UNCHANGED finished
     \/ "webhook" \in Kinds /\ inRoom = {u} /\ finished' = 0
  /\ UNCHANGED <<session, tokens, reader>>

--------------------------------
Opens(k, who, path, since) ==
  /\ k \in Kinds /\ ended = Nil /\ reader[k] = Nil
  /\ reader' = [reader EXCEPT ![k] =
       [who |-> who, phase |-> "session", current |-> TRUE, path |-> path,
        since |-> since, seen |-> {}]]

\* The sweep visits the anchor.  A running grace and a young generation are
\* skipped; an observation sends it down the settling path.
stageStaleServerChannelSessions ==
  /\ LET o == emptyObservation
     IN  \/ o # Nil /\ graceElapsed(o) /\ Opens("sweep", Nil, "settle", 0)
         \/ o = Nil /\ AdmissionLongOver /\ Opens("sweep", Nil, "stale", 0)
  /\ UNCHANGED <<session, tokens, inRoom, finished>>

\* room_finished arrives, once or again; the provider's instant widens the window.
stageFinishedProviderRoom ==
  /\ finished # Nil
  /\ Opens("webhook", Nil, "settle", finished)
  /\ finished' \in {finished, Nil}
  /\ UNCHANGED <<session, tokens, inRoom>>

\* The event is lost.
LosesFinished ==
  /\ finished # Nil
  /\ finished' = Nil
  /\ UNCHANGED <<session, tokens, inRoom, reader>>

\* Somebody this generation admitted reports to have left.
releaseServerChannelSessionIfEmptyV1(u) ==
  /\ issued[u] # Nil
  /\ Opens("release", u, "settle", 0)
  /\ UNCHANGED <<session, tokens, inRoom, finished>>

Close(k) == reader' = [reader EXCEPT ![k] = Nil]

\* The readings with which an invocation goes on to its transaction.
GoesOn(k, r) ==
  CASE k = "release" -> TRUE
    [] k = "webhook" -> inRoom = {}
    [] OTHER -> r.path = "settle" \/ inRoom = {}

\* roomOccupancy, outside of every transaction.
Looks(k) ==
  /\ reader[k] # Nil /\ reader[k].phase = "session"
  /\ IF GoesOn(k, reader[k])
     THEN reader' = [reader EXCEPT ![k].phase = "looked", ![k].seen = inRoom]
     ELSE Close(k)
  /\ UNCHANGED <<session, tokens, inRoom, finished>>

\* LiveKit does not answer, or the invocation dies: nothing is written.
GivesUp(k) ==
  /\ MayFail
  /\ reader[k] # Nil
  /\ Close(k)
  /\ UNCHANGED <<session, tokens, inRoom, finished>>

\* The transaction: a bound that moved or a generation no longer live is left.
Decides(k) ==
  /\ reader[k] # Nil /\ reader[k].phase = "looked"
  /\ Close(k)
  /\ IF ended # Nil \/ ~reader[k].current
     THEN UNCHANGED session
     ELSE IF reader[k].path = "stale" THEN stageEmptyGeneration
          ELSE settleEmptyGeneration(reader[k])
  /\ UNCHANGED <<tokens, inRoom, finished>>

--------------------------------
\* The bound and a life, one unit of time later.
Sooner(left) == IF left > -Staleness THEN left - 1 ELSE left
Spent(left) == IF left > 0 THEN left - 1 ELSE 0

Tick ==
  /\ ended = Nil
  /\ issued' = [u \in People |-> Older(issued[u])]
  /\ bound' = Sooner(bound)
  /\ obs' = IF obs = Nil THEN Nil ELSE [obs EXCEPT !.age = Older(@)]
  /\ signed' = [u \in People |-> IF signed[u] = Nil THEN Nil ELSE Spent(signed[u])]
  /\ life' = [u \in People |-> Spent(life[u])]
  /\ finished' = Older(finished)
  /\ reader' = [k \in Kinds |->
       IF k = "webhook" /\ reader[k] # Nil THEN [reader[k] EXCEPT !.since = Older(@)]
       ELSE reader[k]]
  /\ UNCHANGED <<ended, inRoom>>

Init ==
  /\ ended = Nil
  /\ issued = [u \in People |-> Nil]
  /\ bound = 0
  /\ obs = Nil
  /\ signed = [u \in People |-> Nil]
  /\ life = [u \in People |-> 0]
  /\ inRoom = {}
  /\ finished = Nil
  /\ reader = [k \in Kinds |-> Nil]

Next ==
  \/ \E u \in People : SignsToken(u) \/ createServerChannelTokenV1(u) \/ DropsToken(u)
  \/ \E u \in People : Connects(u) \/ Leaves(u)
  \/ \E u \in People : releaseServerChannelSessionIfEmptyV1(u)
  \/ stageStaleServerChannelSessions
  \/ stageFinishedProviderRoom \/ LosesFinished
  \/ \E k \in Kinds : Looks(k) \/ GivesUp(k) \/ Decides(k)
  \/ Tick

Spec == Init /\ [][Next]_vars

--------------------------------
TypeOK ==
  /\ ended \in {Nil, "empty", "stale"}
  /\ issued \in [People -> Ages \cup {Nil}]
  /\ bound \in -Staleness .. Lifetime
  /\ obs \in [age : Ages, current : BOOLEAN] \cup {Nil}
  /\ signed \in [People -> 0 .. Lifetime \cup {Nil}]
  /\ life \in [People -> 0 .. Lifetime]
  /\ inRoom \subseteq People
  /\ finished \in Ages \cup {Nil}
  /\ reader \in [Kinds -> Reading \cup {Nil}]

\* Whoever was admitted less than one grace ago keeps the generation, whichever
\* of the paths ends it and however long its request was under way.
NobodyAdmittedIsCut ==
  [][ended' # ended =>
       \A u \in People : issued[u] # Nil => issued[u] >= Grace]_vars

\* A reconnect grace that runs is never cut short, also not by a visit of the
\* sweep that began before the observation was taken.
RunningGraceIsKept ==
  [][(ended' # ended /\ emptyObservation # Nil) => graceElapsed(emptyObservation)]_vars

\* The fallback of the sweep ends a generation only when its room is empty at
\* that very moment, although LiveKit was asked some time before.
StaleRoomIsEmpty ==
  [][(ended' # ended /\ ended' = "stale") => inRoom = {}]_vars

\* The three together: no end without the reason it was decided for.
EndsAreJustified == NobodyAdmittedIsCut /\ RunningGraceIsKept /\ StaleRoomIsEmpty

\* docs/SECURITY.md: generations are ended sooner "without ever ending one
\* somebody is in", on whichever path.
NobodyInsideIsCut == [][ended' # ended => inRoom = {}]_vars

============================================================================
