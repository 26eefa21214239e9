-------------------------- MODULE EmptyGraceProofs --------------------------
(***************************************************************************)
(* That a media generation is only ended for the reason it was decided     *)
(* for, with any people, any of the three paths and any grace, window,     *)
(* lifetime and staleness that the assumption allows.  The steps that end  *)
(* a generation look at the documents only; what ties these to LiveKit is  *)
(* the invariant: nobody was admitted later than the bound says, no token  *)
(* outlives the bound, and an invocation on the way of the stale rule that *)
(* is still current has nobody in the room.                                *)
(***************************************************************************)
EXTENDS EmptyGrace, FiniteSetTheorems, TLAPS

\* Whoever was admitted was admitted before the bound passed.
AdmittedBeforeBound ==
  \A u \in People : issued[u] # Nil => issued[u] = Oldest \/ issued[u] + bound > 0

\* A token that can still connect does not outlive the bound.
TokensWithinBound ==
  \A u \in People : life[u] = 0 \/ life[u] <= bound

\* An invocation that took the stale rule and whose reading still stands.
StaleReadings ==
  \A k \in Kinds :
    (reader[k] # Nil /\ reader[k].path = "stale") =>
      /\ k = "sweep"
      /\ reader[k].current =>
           AdmissionLongOver /\ (reader[k].phase = "looked" => inRoom = {})

IInv == TypeOK /\ AdmittedBeforeBound /\ TokensWithinBound /\ StaleReadings

------------------------
\* The numbers of the assumption, and the oldest age they give.
LEMMA Numbers ==
  /\ Grace \in Nat /\ Window \in Nat /\ Lifetime \in Nat /\ Staleness \in Nat
  /\ Grace > 0 /\ Staleness > Grace /\ Lifetime > 0 /\ Staleness > 0
  /\ Oldest \in Nat /\ Oldest > Grace /\ 0 \in Ages
BY GraceConstantsAssumption DEF Oldest, Ages

\* Growing older keeps an age an age.
LEMMA OlderIsAge ==
  ASSUME NEW a \in Ages PROVE Older(a) \in Ages
BY Numbers DEF Older, Ages

\* Nobody is admitted, nothing is read.
LEMMA InvariantInit == Init => IInv
BY Numbers DEF Init, IInv, TypeOK, AdmittedBeforeBound, TokensWithinBound, StaleReadings, Ages

------------------------
\* The steps that leave the bound and the tokens that were disclosed.
QuietStep ==
  \/ \E u \in People : SignsToken(u) \/ DropsToken(u) \/ Connects(u) \/ Leaves(u)
  \/ \E u \in People : releaseServerChannelSessionIfEmptyV1(u)
  \/ stageStaleServerChannelSessions
  \/ stageFinishedProviderRoom \/ LosesFinished
  \/ \E k \in Kinds : Looks(k) \/ GivesUp(k) \/ Decides(k)

LEMMA StepsSplit ==
  ASSUME Next
  PROVE  QuietStep \/ Tick \/ \E u \in People : createServerChannelTokenV1(u)
BY DEF Next, QuietStep

\* Which reading an invocation opens with.
LEMMA OpensSafe ==
  ASSUME IInv, NEW k \in Kinds, NEW who \in People \cup {Nil}, NEW since \in Ages,
         NEW path \in {"settle", "stale"}, Opens(k, who, path, since),
         path = "stale" => k = "sweep" /\ AdmissionLongOver,
         UNCHANGED <<bound, inRoom>>
  PROVE  reader' \in [Kinds -> Reading \cup {Nil}] /\ StaleReadings'
<1> DEFINE new == [who |-> who, phase |-> "session", current |-> TRUE, path |-> path,
                   since |-> since, seen |-> {}]
<1>1. new \in Reading
  BY DEF Reading
<1>2. reader' = [reader EXCEPT ![k] = new]
  BY DEF Opens
<1>3. new.path = path /\ new.phase = "session"
  OBVIOUS
<1> HIDE DEF new
<1> QED
  BY <1>1, <1>2, <1>3 DEF IInv, TypeOK, StaleReadings, AdmissionLongOver

\* Closing an invocation leaves the readings of the others.
LEMMA CloseSafe ==
  ASSUME IInv, NEW k \in Kinds, Close(k), UNCHANGED <<bound, inRoom>>
  PROVE  reader' \in [Kinds -> Reading \cup {Nil}] /\ StaleReadings'
BY DEF IInv, TypeOK, StaleReadings, Close, AdmissionLongOver

\* Requests that sign or drop, devices that connect or leave.
LEMMA DeviceStepSafe ==
  ASSUME IInv, NEW u \in People, SignsToken(u) \/ DropsToken(u) \/ Connects(u) \/ Leaves(u)
  PROVE  IInv'
<1>1. CASE SignsToken(u) \/ DropsToken(u)
  <2>1. signed' \in [People -> 0 .. Lifetime \cup {Nil}]
    BY <1>1, Numbers DEF IInv, TypeOK, SignsToken, DropsToken
  <2>2. UNCHANGED <<session, issued, life, inRoom, finished, reader>>
    BY <1>1 DEF SignsToken, DropsToken
  <2> QED
    BY <2>1, <2>2 DEF IInv, TypeOK, AdmittedBeforeBound, TokensWithinBound, StaleReadings,
       session, AdmissionLongOver
<1>2. CASE Connects(u)
  <2>1. bound > 0
    BY <1>2, Numbers DEF Connects, IInv, TypeOK, TokensWithinBound
  <2>2. ~AdmissionLongOver
    BY <2>1, Numbers DEF AdmissionLongOver, IInv, TypeOK
  <2> QED
    BY <1>2, <2>2 DEF Connects, IInv, TypeOK, AdmittedBeforeBound, TokensWithinBound,
       StaleReadings, session, tokens, AdmissionLongOver
<1>3. CASE Leaves(u)
  <2>1. finished' \in Ages \cup {Nil} /\ inRoom' \subseteq inRoom
    BY <1>3, Numbers DEF Leaves, IInv, TypeOK
  <2>2. UNCHANGED <<session, tokens, reader>>
    BY <1>3 DEF Leaves
  <2> QED
    BY <2>1, <2>2 DEF IInv, TypeOK, AdmittedBeforeBound, TokensWithinBound, StaleReadings,
       session, tokens, AdmissionLongOver
<1> QED
  BY <1>1, <1>2, <1>3

\* The three ways an invocation begins, and the event that is lost.
LEMMA OpeningStepSafe ==
  ASSUME IInv,
         \/ \E u \in People : releaseServerChannelSessionIfEmptyV1(u)
         \/ stageStaleServerChannelSessions \/ stageFinishedProviderRoom \/ LosesFinished
  PROVE  IInv'
<1>1. UNCHANGED <<session, tokens, inRoom>>
  BY DEF releaseServerChannelSessionIfEmptyV1, stageStaleServerChannelSessions,
     stageFinishedProviderRoom, LosesFinished
<1>2. finished' \in Ages \cup {Nil}
  BY DEF releaseServerChannelSessionIfEmptyV1, stageStaleServerChannelSessions,
     stageFinishedProviderRoom, LosesFinished, IInv, TypeOK
<1>3. reader' \in [Kinds -> Reading \cup {Nil}] /\ StaleReadings'
  <2>1. CASE \E u \in People : releaseServerChannelSessionIfEmptyV1(u)
    <3>1. PICK u \in People : Opens("release", u, "settle", 0)
      BY <2>1 DEF releaseServerChannelSessionIfEmptyV1
    <3>2. "release" \in Kinds
      BY <3>1 DEF Opens
    <3> QED
      BY <1>1, <3>1, <3>2, Numbers, OpensSafe DEF session
  <2>2. CASE stageStaleServerChannelSessions
    <3>1. \E path \in {"settle", "stale"} :
            Opens("sweep", Nil, path, 0) /\ (path = "stale" => AdmissionLongOver)
      BY <2>2 DEF stageStaleServerChannelSessions
    <3>2. "sweep" \in Kinds
      BY <3>1 DEF Opens
    <3> QED
      BY <1>1, <3>1, <3>2, Numbers, OpensSafe DEF session
  <2>3. CASE stageFinishedProviderRoom
    <3>1. Opens("webhook", Nil, "settle", finished) /\ finished # Nil
      BY <2>3 DEF stageFinishedProviderRoom
    <3>2. "webhook" \in Kinds /\ finished \in Ages
      BY <3>1 DEF Opens, IInv, TypeOK
    <3> QED
      BY <1>1, <3>1, <3>2, OpensSafe DEF session
  <2>4. CASE LosesFinished
    BY <2>4 DEF LosesFinished, IInv, TypeOK, StaleReadings, session, AdmissionLongOver
  <2> QED
    BY <2>1, <2>2, <2>3, <2>4
<1> QED
  BY <1>1, <1>2, <1>3 DEF IInv, TypeOK, AdmittedBeforeBound, TokensWithinBound,
     session, tokens

\* LiveKit is asked, or the invocation ends without a decision.
LEMMA LookingStepSafe ==
  ASSUME IInv, NEW k \in Kinds, Looks(k) \/ GivesUp(k)
  PROVE  IInv'
<1>1. UNCHANGED <<session, tokens, inRoom, finished>>
  BY DEF Looks, GivesUp
<1>2. reader' \in [Kinds -> Reading \cup {Nil}] /\ StaleReadings'
  <2>1. CASE Close(k)
    BY <1>1, <2>1, CloseSafe DEF session
  <2>2. CASE Looks(k) /\ GoesOn(k, reader[k])
    <3>1. /\ reader[k] # Nil /\ reader[k] \in Reading
          /\ reader' = [reader EXCEPT ![k].phase = "looked", ![k].seen = inRoom]
      BY <2>2 DEF Looks, IInv, TypeOK
    <3>2. reader' \in [Kinds -> Reading \cup {Nil}]
      BY <3>1 DEF Reading, IInv, TypeOK
    <3>3. /\ reader'[k].path = reader[k].path /\ reader'[k].current = reader[k].current
          /\ \A j \in Kinds : j # k => reader'[j] = reader[j]
      BY <3>1 DEF Reading, IInv, TypeOK
    <3>4. reader[k].path = "stale" => inRoom = {}
      BY <2>2, <3>1 DEF GoesOn, IInv, StaleReadings
    <3> QED
      BY <1>1, <3>1, <3>2, <3>3, <3>4 DEF IInv, StaleReadings, session, AdmissionLongOver
  <2> QED
    BY <2>1, <2>2 DEF Looks, GivesUp
<1> QED
  BY <1>1, <1>2 DEF IInv, TypeOK, AdmittedBeforeBound, TokensWithinBound, session, tokens

\* The transaction writes the end or the observation, and no other document.
LEMMA DecidesSafe ==
  ASSUME IInv, NEW k \in Kinds, Decides(k)
  PROVE  IInv'
<1>1. /\ Close(k) /\ UNCHANGED <<tokens, inRoom, finished>>
  BY DEF Decides
<1>2. /\ bound' = bound /\ ended' \in {Nil, "empty", "stale"}
      /\ obs' \in [age : Ages, current : BOOLEAN] \cup {Nil}
  <2>1. CASE UNCHANGED session
    BY <2>1 DEF session, IInv, TypeOK
  <2>2. CASE stageEmptyGeneration
    BY <2>2 DEF stageEmptyGeneration, Ends, session, IInv, TypeOK
  <2>3. CASE settleEmptyGeneration(reader[k])
    <3>1. CASE Ends("empty")
      BY <3>1 DEF Ends, IInv, TypeOK
    <3>2. CASE UNCHANGED <<ended, bound>> /\ obs' \in {Nil, obs, [age |-> 0, current |-> TRUE]}
      <4>1. [age |-> 0, current |-> TRUE] \in [age : Ages, current : BOOLEAN]
        BY Numbers
      <4> QED
        BY <3>2, <4>1 DEF IInv, TypeOK
    <3> QED
      BY <2>3, <3>1, <3>2 DEF settleEmptyGeneration, Kept
  <2> QED
    BY <2>1, <2>2, <2>3 DEF Decides
<1>3. reader' \in [Kinds -> Reading \cup {Nil}] /\ StaleReadings'
  BY <1>1, <1>2, CloseSafe
<1> QED
  BY <1>1, <1>2, <1>3 DEF IInv, TypeOK, AdmittedBeforeBound, TokensWithinBound, tokens

\* A disclosed token moves the bound behind its own life, and outdates readings.
LEMMA TokenStepSafe ==
  ASSUME IInv, NEW u \in People, createServerChannelTokenV1(u)
  PROVE  IInv'
<1> DEFINE left == signed[u]
           moved == MovesBound(left)
<1>1. left \in 1 .. Lifetime /\ bound \in Int
  BY Numbers DEF createServerChannelTokenV1, IInv, TypeOK
<1>2. /\ bound' = IF moved THEN left ELSE bound
      /\ obs' = IF obs # Nil /\ moved THEN [obs EXCEPT !.current = FALSE] ELSE obs
      /\ reader' = Outdated(moved)
      /\ life' = [life EXCEPT ![u] = IF left > @ THEN left ELSE @]
      /\ issued' = [issued EXCEPT ![u] = 0]
      /\ signed' = [signed EXCEPT ![u] = Nil]
      /\ UNCHANGED <<ended, inRoom, finished>>
  BY DEF createServerChannelTokenV1
<1>3. bound' \in -Staleness .. Lifetime /\ bound' >= left /\ bound' >= bound
  BY <1>1, <1>2, Numbers DEF MovesBound, IInv, TypeOK
<1>4. ~moved => bound' = bound /\ bound > 0
  BY <1>1, <1>2 DEF MovesBound
<1> HIDE DEF left, moved
<1>5. obs' \in [age : Ages, current : BOOLEAN] \cup {Nil}
  BY <1>2 DEF IInv, TypeOK
<1>6. \A k \in Kinds :
        reader'[k] = IF reader[k] # Nil /\ moved
                     THEN [reader[k] EXCEPT !.current = FALSE] ELSE reader[k]
  BY <1>2 DEF Outdated
<1>7. reader' \in [Kinds -> Reading \cup {Nil}]
  <2>1. \A r \in Reading : [r EXCEPT !.current = FALSE] \in Reading
    BY DEF Reading
  <2> QED
    BY <1>2, <2>1 DEF Outdated, IInv, TypeOK
<1>8. StaleReadings'
  <2> SUFFICES ASSUME NEW k \in Kinds, reader'[k] # Nil, reader'[k].path = "stale"
               PROVE  k = "sweep" /\ ~reader'[k].current
    BY DEF StaleReadings
  <2>1. reader[k] # Nil /\ reader[k] \in Reading
    BY <1>6 DEF IInv, TypeOK
  <2>2. reader[k].path = "stale"
    BY <1>6, <2>1 DEF Reading
  <2>3. CASE moved
    BY <1>6, <2>1, <2>2, <2>3 DEF IInv, StaleReadings, Reading
  <2>4. CASE ~moved
    <3>1. ~AdmissionLongOver
      BY <1>1, <1>4, <2>4, Numbers DEF AdmissionLongOver
    <3>2. reader'[k] = reader[k]
      BY <1>6, <2>4
    <3> QED
      BY <2>1, <2>2, <3>1, <3>2 DEF IInv, StaleReadings
  <2> QED
    BY <2>3, <2>4
<1>9. AdmittedBeforeBound'
  <2> SUFFICES ASSUME NEW v \in People, issued'[v] # Nil
               PROVE  issued'[v] = Oldest \/ issued'[v] + bound' > 0
    BY DEF AdmittedBeforeBound
  <2>1. CASE v = u
    BY <1>1, <1>2, <1>3, <2>1 DEF IInv, TypeOK
  <2>2. CASE v # u
    <3>1. issued'[v] = issued[v] /\ issued[v] \in Int
      BY <1>2, <2>2, Numbers DEF IInv, TypeOK, Ages
    <3> QED
      BY <1>1, <1>3, <3>1 DEF IInv, AdmittedBeforeBound
  <2> QED
    BY <2>1, <2>2
<1>10. TokensWithinBound'
  BY <1>1, <1>2, <1>3, Numbers DEF IInv, TypeOK, TokensWithinBound
<1>11. TypeOK'
  <2>1. issued' \in [People -> Ages \cup {Nil}] /\ signed' \in [People -> 0 .. Lifetime \cup {Nil}]
    BY <1>2, Numbers DEF IInv, TypeOK
  <2>2. life' \in [People -> 0 .. Lifetime]
    BY <1>1, <1>2, Numbers DEF IInv, TypeOK
  <2> QED
    BY <1>2, <1>3, <1>5, <1>7, <2>1, <2>2 DEF IInv, TypeOK
<1> QED
  BY <1>8, <1>9, <1>10, <1>11 DEF IInv

\* Time passes: ages grow while the bound and the lives shrink alike.
LEMMA TickSafe == ASSUME IInv, Tick PROVE IInv'
<1>1. /\ bound' = Sooner(bound) /\ bound' \in -Staleness .. Lifetime
      /\ bound' <= bound /\ bound' >= bound - 1
      /\ bound \in Int /\ bound' \in Int
  BY Numbers DEF Tick, Sooner, IInv, TypeOK
<1>2. issued' = [u \in People |-> Older(issued[u])]
  BY DEF Tick
<1>3. issued' \in [People -> Ages \cup {Nil}]
  BY <1>2, OlderIsAge DEF IInv, TypeOK, Older
<1>4. signed' \in [People -> 0 .. Lifetime \cup {Nil}] /\ life' \in [People -> 0 .. Lifetime]
  BY Numbers DEF Tick, Spent, IInv, TypeOK
<1>5. finished' \in Ages \cup {Nil}
  BY OlderIsAge DEF Tick, IInv, TypeOK, Older
<1>6. obs' \in [age : Ages, current : BOOLEAN] \cup {Nil}
  BY OlderIsAge DEF Tick, IInv, TypeOK
<1>7. \A k \in Kinds :
        reader'[k] = IF k = "webhook" /\ reader[k] # Nil
                     THEN [reader[k] EXCEPT !.since = Older(@)] ELSE reader[k]
  BY DEF Tick
<1>8. \A r \in Reading : [r EXCEPT !.since = Older(@)] \in Reading
  BY OlderIsAge DEF Reading
<1>9. reader' \in [Kinds -> Reading \cup {Nil}]
  BY <1>8 DEF Tick, IInv, TypeOK
<1>10. StaleReadings'
  <2> SUFFICES ASSUME NEW k \in Kinds, reader'[k] # Nil, reader'[k].path = "stale"
               PROVE  /\ k = "sweep"
                      /\ reader'[k].current =>
                           AdmissionLongOver' /\ (reader'[k].phase = "looked" => inRoom' = {})
    BY DEF StaleReadings
  <2>1. reader[k] # Nil /\ reader[k] \in Reading /\ reader[k].path = "stale"
    BY <1>7 DEF IInv, TypeOK, Reading
  <2>2. k = "sweep"
    BY <2>1 DEF IInv, StaleReadings
  <2>3. reader'[k] = reader[k] /\ inRoom' = inRoom
    BY <1>7, <2>2 DEF Tick
  <2> QED
    BY <1>1, <2>1, <2>2, <2>3, Numbers DEF IInv, StaleReadings, AdmissionLongOver
<1>11. AdmittedBeforeBound'
  <2> SUFFICES ASSUME NEW u \in People, issued'[u] # Nil
               PROVE  issued'[u] = Oldest \/ issued'[u] + bound' > 0
    BY DEF AdmittedBeforeBound
  <2>1. issued[u] # Nil /\ issued[u] \in Ages /\ issued'[u] = Older(issued[u])
    BY <1>2 DEF Older, IInv, TypeOK
  <2>2. issued[u] = Oldest \/ issued[u] + bound > 0
    BY <2>1 DEF IInv, AdmittedBeforeBound
  <2> QED
    BY <1>1, <2>1, <2>2, Numbers DEF Older, Ages
<1>12. TokensWithinBound'
  <2> SUFFICES ASSUME NEW u \in People PROVE life'[u] = 0 \/ life'[u] <= bound'
    BY DEF TokensWithinBound
  <2>1. life[u] \in 0 .. Lifetime /\ life'[u] = Spent(life[u]) /\ (life[u] = 0 \/ life[u] <= bound)
    BY DEF Tick, IInv, TypeOK, TokensWithinBound
  <2> QED
    BY <1>1, <2>1, Numbers DEF Spent
<1>13. TypeOK'
  BY <1>1, <1>3, <1>4, <1>5, <1>6, <1>9 DEF Tick, IInv, TypeOK
<1> QED
  BY <1>10, <1>11, <1>12, <1>13 DEF IInv

\* The invariant is inductive.
LEMMA InvariantStep == IInv /\ [Next]_vars => IInv'
<1> SUFFICES ASSUME IInv, [Next]_vars PROVE IInv'
  OBVIOUS
<1>1. CASE QuietStep
  BY <1>1, DeviceStepSafe, OpeningStepSafe, LookingStepSafe, DecidesSafe DEF QuietStep
<1>2. CASE Tick \/ \E u \in People : createServerChannelTokenV1(u)
  BY <1>2, TickSafe, TokenStepSafe
<1>3. CASE UNCHANGED vars
  BY <1>3 DEF vars, session, tokens, IInv, TypeOK, AdmittedBeforeBound, TokensWithinBound,
     StaleReadings, AdmissionLongOver
<1> QED
  BY <1>1, <1>2, <1>3, StepsSplit

------------------------
\* The two ways a generation ends, with what the transaction has seen.
LEMMA EndingStep ==
  ASSUME IInv, Next, ended' # ended
  PROVE  \E k \in Kinds :
           /\ reader[k] # Nil /\ reader[k].phase = "looked" /\ reader[k].current
           /\ \/ ended' = "empty" /\ Describes # Nil /\ graceElapsed(Describes)
              \/ reader[k].path = "stale" /\ StaleAdmission
<1>1. PICK k \in Kinds : Decides(k)
  BY DEF Next, SignsToken, createServerChannelTokenV1, DropsToken, Connects, Leaves,
     releaseServerChannelSessionIfEmptyV1, stageStaleServerChannelSessions,
     stageFinishedProviderRoom, LosesFinished, Looks, GivesUp, Tick, session
<1>2. reader[k] # Nil /\ reader[k].phase = "looked" /\ reader[k].current
  BY <1>1 DEF Decides, session
<1>3. \/ reader[k].path = "stale" /\ stageEmptyGeneration
      \/ settleEmptyGeneration(reader[k])
  BY <1>1, <1>2 DEF Decides, session
<1>4. CASE reader[k].path = "stale" /\ stageEmptyGeneration
  BY <1>2, <1>4 DEF stageEmptyGeneration, session
<1>5. CASE settleEmptyGeneration(reader[k])
  BY <1>2, <1>5 DEF settleEmptyGeneration, Ends
<1> QED
  BY <1>3, <1>4, <1>5

\* An end of the generation cuts off nobody who was admitted a moment ago.
LEMMA EndCutsNobody ==
  ASSUME IInv, Next, ended' # ended, NEW u \in People, issued[u] # Nil
  PROVE  issued[u] >= Grace
<1>1. issued[u] \in Nat /\ issued[u] \in Int
  BY Numbers DEF IInv, TypeOK, Ages
<1>2. CASE Describes # Nil /\ graceElapsed(Describes)
  <2>1. obs \in [age : Ages, current : BOOLEAN] /\ Describes = obs
    BY <1>2 DEF Describes, emptyObservation, IInv, TypeOK
  <2>2. ~recentAdmission(obs.age, {}) /\ obs.age >= Grace /\ obs.age \in Nat
    BY <1>2, <2>1, Numbers DEF Describes, emptyObservation, graceElapsed, Ages
  <2> QED
    BY <1>1, <2>2, Numbers DEF recentAdmission
<1>3. CASE StaleAdmission
  BY <1>1, <1>3, Numbers DEF StaleAdmission, AdmissionLongOver, IInv, TypeOK,
     AdmittedBeforeBound
<1> QED
  BY <1>2, <1>3, EndingStep

\* An observation that describes the generation is old enough at its end.
LEMMA EndKeepsRunningGrace ==
  ASSUME IInv, Next, ended' # ended, emptyObservation # Nil
  PROVE  graceElapsed(emptyObservation)
BY EndingStep DEF Describes, StaleAdmission

\* The stale rule ends a generation with an empty room only.
LEMMA StaleEndIsEmpty ==
  ASSUME IInv, Next, ended' # ended, ended' = "stale"
  PROVE  inRoom = {}
BY EndingStep DEF IInv, StaleReadings

------------------------
(* The generation, its tokens, the room and the invocations keep their types. *)
THEOREM TypeCorrect == Spec => []TypeOK
<1>1. IInv => TypeOK
  BY DEF IInv
<1> QED
  BY <1>1, InvariantInit, InvariantStep, PTL DEF Spec

(* No end without its reason, for any people, timing constants and paths:
   nobody admitted within the grace is cut off, a running grace is kept, and
   the stale rule finds the room empty although it asked LiveKit before. *)
THEOREM EndsStayJustified == Spec => EndsAreJustified
<1>1. IInv /\ [Next]_vars =>
        [ended' # ended => \A u \in People : issued[u] # Nil => issued[u] >= Grace]_vars
  BY EndCutsNobody
<1>2. IInv /\ [Next]_vars =>
        [(ended' # ended /\ emptyObservation # Nil) => graceElapsed(emptyObservation)]_vars
  BY EndKeepsRunningGrace
<1>3. IInv /\ [Next]_vars => [(ended' # ended /\ ended' = "stale") => inRoom = {}]_vars
  BY StaleEndIsEmpty
<1> QED
  BY <1>1, <1>2, <1>3, InvariantInit, InvariantStep, PTL
     DEF Spec, EndsAreJustified, NobodyAdmittedIsCut, RunningGraceIsKept, StaleRoomIsEmpty
------------------------
(***************************************************************************)
(* The recording of podcast episodes (PodcastEpisodes), for any episodes,  *)
(* workers, recordings and crashes.  PodBase is what holds even when a     *)
(* worker outlives its lease; PodInv adds what the lease is for: until the *)
(* job is gone its holder works alone (PodHeld), so that one recording at  *)
(* most is under way and a job answers for it (PodKept), that what a       *)
(* worker is about to apply is still the provider's (PodSeen), and that a  *)
(* page of the cleanup only deletes what has ended (PodSwept).             *)
(***************************************************************************)
CONSTANTS Episodes, Workers, MaxEgress, MaxCrashes, SlowWorkers, Listening
VARIABLES episode, state, job, egress, object, live, deleting, worker, sweep, listener, crashes
Studio == INSTANCE PodcastEpisodes
PodRecords == [status : Studio!EpisodeStatus, revision : Nat, egressId : Studio!EgressIds
               \cup {Studio!None},
               media : Studio!EgressIds \cup {Studio!None}]
PodJobs == [action : {"none", "start", "monitor", "stop"}, egressId : Studio!EgressIds
            \cup {Studio!None},
            lease : Workers \cup {Studio!None}, lapsed : BOOLEAN]
PodCalls == [at : {"idle", "list", "begin", "look", "halt", "release", "apply", "complete"},
             episode : Episodes \cup {Studio!None},
             action : {"none", "start", "monitor", "stop"}, egressId : Studio!EgressIds
                  \cup {Studio!None},
             info : {"none", "running", "ending", "complete", "failed"}]

\* The provider has the recording; it runs no longer.
Known(g) == g \in Studio!EgressIds /\ egress[g].status # "unused"
Over(g) == Known(g) /\ egress[g].status # "running"

PodStore ==
  /\ egress \in [Studio!EgressIds -> [episode : Episodes \cup {Studio!None},
                                      status : Studio!EgressStatus]]
  /\ object \in [Episodes -> Studio!EgressIds \cup {Studio!None}]
  /\ live \in Episodes \cup {Studio!None} /\ deleting \in BOOLEAN /\ crashes \in 0..MaxCrashes

PodDocs ==
  /\ episode \in [Episodes -> PodRecords] /\ job \in [Episodes -> PodJobs]
  /\ state \in [episodeId : Episodes \cup {Studio!None}, revision : Nat,
                status : Studio!EpisodeStatus]
  /\ \A e \in Episodes : episode[e].egressId # Studio!None => Known(episode[e].egressId)
  /\ \A e \in Episodes : job[e].action \in {"monitor", "stop"} \/ job[e].egressId # Studio!None =>
       Known(job[e].egressId)

CallNames(c) ==
  /\ c.at # "idle" => c.episode \in Episodes
  /\ c.at \in {"look", "halt", "apply", "complete"} => Known(c.egressId)
  /\ c.at = "apply" => c.info # "none" /\ (c.info = "ending" => Over(c.egressId))

PodWorkers ==
  /\ worker \in [Workers -> PodCalls]
  /\ \A w \in Workers : CallNames(worker[w])

PodReaders ==
  /\ sweep \in [at : {"idle", "bytes", "settle"}, episode : Episodes \cup {Studio!None},
                seen : PodRecords]
  /\ sweep.at # "idle" => sweep.episode \in Episodes
  /\ listener \in [at : {"idle", "inspect", "signed", "heard"},
                   episode : Episodes \cup {Studio!None},
                   seen : PodRecords]

PodBase ==
  PodStore /\ PodDocs /\ PodWorkers /\ PodReaders /\ Studio!StateFollows /\ Studio!StopStays

\* The provider forgets nothing, and what is over stays over.
ProviderMoved ==
  /\ \A g \in Studio!EgressIds : Known(g) => Known(g)'
  /\ \A g \in Studio!EgressIds : Over(g) => Over(g)'

LEMMA PodNumbers ==
  ASSUME Studio!PodcastAssumption
  PROVE  /\ Studio!None \notin Episodes /\ Studio!None \notin Studio!EgressIds
         /\ Studio!NoEpisode \in PodRecords /\ Studio!NoJob \in PodJobs
         /\ Studio!FreshJob \in PodJobs
         /\ Studio!IdleWorker \in PodCalls
<1>1. Studio!None \notin Episodes /\ Studio!None \notin Studio!EgressIds
     BY DEF Studio!PodcastAssumption, Studio!None, Studio!EgressIds
<1>2. Studio!NoEpisode \in PodRecords BY DEF Studio!NoEpisode, PodRecords, Studio!EpisodeStatus
<1>3. Studio!NoJob \in PodJobs BY DEF Studio!NoJob, PodJobs
<1>4. Studio!FreshJob \in PodJobs BY DEF Studio!NoJob, PodJobs, Studio!FreshJob
<1>5. Studio!IdleWorker \in PodCalls BY DEF Studio!IdleWorker, PodCalls
<1> QED BY <1>1, <1>2, <1>3, <1>4, <1>5

LEMMA PodSame == ASSUME UNCHANGED egress PROVE ProviderMoved
BY DEF ProviderMoved, Known, Over

LEMMA PodDocsStand ==
  ASSUME PodBase, UNCHANGED <<episode, state, job>>, ProviderMoved
  PROVE  PodDocs' /\ Studio!StateFollows' /\ Studio!StopStays'
<1>1. PodDocs'
  BY DEF PodBase, PodDocs, ProviderMoved, Known
<1>2. Studio!StateFollows'
  BY DEF PodBase, Studio!StateFollows
<1>3. Studio!StopStays'
  <2> SUFFICES ASSUME NEW e \in Episodes, episode[e].status = "processing",
                      episode[e].egressId # Studio!None,
                      egress'[episode[e].egressId].status = "running"
               PROVE  job[e].action = "stop"
    BY DEF Studio!StopStays
  <2>1. PICK g : g = episode[e].egressId OBVIOUS
  <2>2. Known(g) BY <2>1 DEF PodBase, PodDocs
  <2>3. ~Over(g)' BY <2>1 DEF Over
  <2>4. egress[g].status = "running" BY <2>2, <2>3 DEF ProviderMoved, Over, Known
  <2> QED BY <2>1, <2>4 DEF PodBase, Studio!StopStays
<1> QED BY <1>1, <1>2, <1>3

LEMMA PodWorkersStand ==
  ASSUME PodBase, UNCHANGED worker, ProviderMoved PROVE PodWorkers'
BY DEF PodBase, PodWorkers, CallNames, ProviderMoved, Known, Over

LEMMA PodWorkerMoves ==
  ASSUME PodBase, ProviderMoved, NEW w \in Workers, NEW c \in PodCalls,
         worker' = [worker EXCEPT ![w] = c], CallNames(c)'
  PROVE  PodWorkers'
<1>1. worker' \in [Workers -> PodCalls] BY DEF PodBase, PodWorkers
<1>2. \A v \in Workers : CallNames(worker[v])'
  <2> TAKE v \in Workers
  <2>1. CASE v = w BY <2>1 DEF PodBase, PodWorkers
  <2>2. CASE v # w
    <3>1. worker'[v] = worker[v] BY <2>2 DEF PodBase, PodWorkers
    <3>2. CallNames(worker[v]) BY DEF PodBase, PodWorkers
    <3> QED BY <3>1, <3>2 DEF CallNames, ProviderMoved, Known, Over
  <2> QED BY <2>1, <2>2
<1> QED BY <1>1, <1>2 DEF PodWorkers, CallNames, Known, Over

LEMMA PodWorkerRests ==
  ASSUME Studio!PodcastAssumption, PodBase, ProviderMoved, NEW w \in Workers, Studio!Rests(w)
  PROVE  PodWorkers'
<1>1. CallNames(Studio!IdleWorker)' BY DEF CallNames, Studio!IdleWorker
<1> QED BY <1>1, PodNumbers, PodWorkerMoves DEF Studio!Rests

LEMMA PodWorkerGoes ==
  ASSUME PodWorkers, NEW w \in Workers, NEW at, NEW g \in Studio!EgressIds \cup {Studio!None},
       NEW info,
         at \in {"idle", "list", "begin", "look", "halt", "release", "apply", "complete"},
         info \in {"none", "running", "ending", "complete", "failed"}, Studio!Goes(w, at, g, info)
  PROVE  \E c \in PodCalls :
           /\ worker' = [worker EXCEPT ![w] = c]
           /\ c.at = at /\ c.egressId = g /\ c.info = info
           /\ c.episode = worker[w].episode /\ c.action = worker[w].action
<1>1. PICK r : r = worker[w] OBVIOUS
<1>2. r \in PodCalls BY <1>1 DEF PodWorkers
<1>3. PICK c : c = [r EXCEPT !.at = at, !.egressId = g, !.info = info] OBVIOUS
<1>4. /\ c.at = at /\ c.egressId = g /\ c.info = info
      /\ c.episode = r.episode /\ c.action = r.action
  BY <1>2, <1>3 DEF PodCalls
<1>5. c \in PodCalls BY <1>2, <1>3 DEF PodCalls
<1>6. worker' = [worker EXCEPT ![w] = c] BY <1>1, <1>3 DEF Studio!Goes, PodWorkers
<1> QED BY <1>1, <1>4, <1>5, <1>6

LEMMA PodDocsMove ==
  ASSUME Studio!PodcastAssumption, PodBase, UNCHANGED egress,
         NEW e \in Episodes, NEW ep \in PodRecords, NEW j \in PodJobs,
         Studio!Write(e, ep), job' = [job EXCEPT ![e] = j],
         ep.egressId # Studio!None => Known(ep.egressId),
         j.action \in {"monitor", "stop"} \/ j.egressId # Studio!None => Known(j.egressId),
         ep.status = "processing" /\ ep.egressId # Studio!None
           /\ egress[ep.egressId].status = "running" => j.action = "stop",
         \A f \in Episodes \ {e} : episode[f].status \notin {"recording", "processing"}
  PROVE  PodDocs' /\ Studio!StateFollows' /\ Studio!StopStays'
<1>1. /\ episode' = [episode EXCEPT ![e] = ep]
      /\ state' = [episodeId |-> e, revision |-> ep.revision, status |-> ep.status]
  BY DEF Studio!Write, Studio!StateOf
<1>2. /\ episode'[e] = ep /\ job'[e] = j
      /\ \A f \in Episodes \ {e} : episode'[f] = episode[f] /\ job'[f] = job[f]
  BY <1>1 DEF PodBase, PodDocs
<1>3. PodDocs'
  <2>1. episode' \in [Episodes -> PodRecords] /\ job' \in [Episodes -> PodJobs]
    BY <1>1 DEF PodBase, PodDocs
  <2>2. state' \in [episodeId : Episodes \cup {Studio!None}, revision : Nat,
                    status : Studio!EpisodeStatus]
    BY <1>1 DEF PodRecords
  <2> QED BY <2>1, <2>2, <1>2 DEF PodBase, PodDocs, Known
<1>4. Studio!StateFollows'
  BY <1>1, <1>2 DEF Studio!StateFollows
<1>5. Studio!StopStays'
  BY <1>2 DEF PodBase, Studio!StopStays
<1> QED BY <1>3, <1>4, <1>5
LEMMA PodAlone ==
  ASSUME Studio!PodcastAssumption, PodBase, NEW e \in Episodes,
         state.status \notin {"recording", "processing"} \/ state.episodeId \in {e, Studio!None}
  PROVE  \A f \in Episodes \ {e} : episode[f].status \notin {"recording", "processing"}
<1> SUFFICES ASSUME NEW f \in Episodes \ {e}, episode[f].status \in {"recording", "processing"}
             PROVE  FALSE
  OBVIOUS
<1>1. state.episodeId = f /\ f # Studio!None BY PodNumbers DEF PodBase, Studio!StateFollows
<1>2. state.status = episode[f].status BY <1>1 DEF PodBase, Studio!StateFollows
<1> QED BY <1>1, <1>2

LEMMA PodStart ==
  ASSUME Studio!PodcastAssumption, PodBase, NEW e \in Episodes, Studio!Start(e) PROVE PodBase'
<1>1. PICK ep : ep = [Studio!NoEpisode EXCEPT !.status = "recording", !.revision = 1] OBVIOUS
<1>2. ep \in PodRecords /\ ep.status = "recording" /\ ep.egressId = Studio!None
  BY <1>1, PodNumbers DEF PodRecords, Studio!NoEpisode, Studio!EpisodeStatus
<1>3. Studio!FreshJob \in PodJobs /\ Studio!FreshJob.action = "start"
          /\ Studio!FreshJob.egressId = Studio!None
  BY PodNumbers DEF Studio!FreshJob, Studio!NoJob
<1>4. PodDocs' /\ Studio!StateFollows' /\ Studio!StopStays'
  BY <1>1, <1>2, <1>3, PodAlone, PodDocsMove DEF Studio!Start
<1>5. PodWorkers' BY PodSame, PodWorkersStand DEF Studio!Start
<1> QED BY <1>4, <1>5 DEF Studio!Start, PodBase, PodStore, PodReaders

LEMMA PodStop ==
  ASSUME Studio!PodcastAssumption, PodBase, NEW e \in Episodes, Studio!Stop(e) PROVE PodBase'
<1>1. PICK r : r = episode[e] OBVIOUS
<1>2. r \in PodRecords /\ r.egressId # Studio!None BY <1>1 DEF PodBase, PodDocs, Studio!Stop
<1>3. PICK ep : ep = [r EXCEPT !.status = "processing", !.revision = @ + 1] OBVIOUS
<1>4. ep = [status |-> "processing", revision |-> r.revision + 1, egressId |-> r.egressId,
            media |-> r.media]
  BY <1>2, <1>3 DEF PodRecords
<1>11. ep \in PodRecords /\ ep.egressId = r.egressId /\ ep.status = "processing"
  BY <1>2, <1>4 DEF Studio!EpisodeStatus, PodRecords
<1>5. PICK j : j = [Studio!NoJob EXCEPT !.action = "stop", !.egressId = r.egressId] OBVIOUS
<1>6. j \in PodJobs /\ j.action = "stop" /\ j.egressId = r.egressId
  BY <1>2, <1>5 DEF Studio!NoJob, PodJobs, PodRecords
<1>7. Known(r.egressId) BY <1>1, <1>2 DEF PodBase, PodDocs
<1>8. Studio!Write(e, ep) /\ job' = [job EXCEPT ![e] = j] BY <1>1, <1>3, <1>5 DEF Studio!Stop
<1>9. PodDocs' /\ Studio!StateFollows' /\ Studio!StopStays'
  BY <1>11, <1>6, <1>7, <1>8, PodAlone, PodDocsMove DEF Studio!Stop, Studio!StateIsOf
<1>10. PodWorkers' BY PodSame, PodWorkersStand DEF Studio!Stop
<1> QED BY <1>9, <1>10 DEF Studio!Stop, PodBase, PodStore, PodReaders

LEMMA PodRetry ==
  ASSUME Studio!PodcastAssumption, PodBase, NEW e \in Episodes, Studio!Retry(e) PROVE PodBase'
<1>1. PICK r : r = episode[e] OBVIOUS
<1>2. r \in PodRecords BY <1>1 DEF PodBase, PodDocs
<1>3. PICK ep : ep = [r EXCEPT !.status = "recording", !.revision = @ + 1,
                      !.egressId = Studio!None]
  OBVIOUS
<1>4. ep = [status |-> "recording", revision |-> r.revision + 1, egressId |-> Studio!None,
            media |-> r.media]
  BY <1>2, <1>3 DEF PodRecords
<1>11. ep \in PodRecords /\ ep.egressId = Studio!None /\ ep.status = "recording"
  BY <1>2, <1>4 DEF Studio!EpisodeStatus, PodRecords
<1>5. Studio!FreshJob \in PodJobs /\ Studio!FreshJob.action = "start"
          /\ Studio!FreshJob.egressId = Studio!None
  BY PodNumbers DEF Studio!FreshJob, Studio!NoJob
<1>6. PodDocs' /\ Studio!StateFollows' /\ Studio!StopStays'
  BY <1>1, <1>3, <1>11, <1>5, PodAlone, PodDocsMove DEF Studio!Retry, Studio!StateIsOf
<1>7. PodWorkers' BY PodSame, PodWorkersStand DEF Studio!Retry
<1> QED BY <1>6, <1>7 DEF Studio!Retry, PodBase, PodStore, PodReaders

LEMMA PodPublish ==
  ASSUME Studio!PodcastAssumption, PodBase, NEW e \in Episodes, Studio!Publish(e) PROVE PodBase'
<1>1. PICK r : r = episode[e] OBVIOUS
<1>2. r \in PodRecords BY <1>1 DEF PodBase, PodDocs
<1>3. PICK ep : ep = [r EXCEPT !.status = "published", !.revision = @ + 1] OBVIOUS
<1>4. ep = [status |-> "published", revision |-> r.revision + 1, egressId |-> r.egressId,
            media |-> r.media]
  BY <1>2, <1>3 DEF PodRecords
<1>11. ep \in PodRecords /\ ep.egressId = r.egressId /\ ep.status = "published"
  BY <1>2, <1>4 DEF Studio!EpisodeStatus, PodRecords
<1>5. episode' = [episode EXCEPT ![e] = ep] /\ UNCHANGED <<job, egress, worker>>
      /\ state' = IF Studio!StateIsOf(e) THEN Studio!StateOf(e, ep) ELSE state
  BY <1>1, <1>3 DEF Studio!Publish
<1>6. episode'[e] = ep /\ \A f \in Episodes \ {e} : episode'[f] = episode[f]
  BY <1>5 DEF PodBase, PodDocs
<1>7. PodDocs'
  <2>1. episode' \in [Episodes -> PodRecords] BY <1>11, <1>5 DEF PodBase, PodDocs
  <2>2. state' \in [episodeId : Episodes \cup {Studio!None}, revision : Nat,
                    status : Studio!EpisodeStatus]
    BY <1>11, <1>5 DEF PodBase, PodDocs, Studio!StateOf, PodRecords
  <2> QED BY <2>1, <2>2, <1>1, <1>11, <1>5, <1>6 DEF PodBase, PodDocs, Known
<1>8. Studio!StateFollows'
  <2>1. CASE Studio!StateIsOf(e)
    <3>1. state' = [episodeId |-> e, revision |-> ep.revision, status |-> ep.status]
      BY <1>5, <2>1 DEF Studio!StateOf
    <3> QED BY <3>1, <2>1, <1>11, <1>6 DEF PodBase, Studio!StateFollows, Studio!StateIsOf
  <2>2. CASE ~Studio!StateIsOf(e)
    <3>1. state.episodeId # e
         BY <2>2, PodNumbers DEF PodBase, Studio!StateFollows, Studio!StateIsOf
    <3> QED BY <3>1, <2>2, <1>11, <1>5, <1>6, PodNumbers DEF PodBase, PodDocs, Studio!StateFollows
  <2> QED BY <2>1, <2>2
<1>9. Studio!StopStays' BY <1>11, <1>5, <1>6 DEF PodBase, Studio!StopStays
<1>10. PodWorkers' BY PodSame, PodWorkersStand DEF Studio!Publish
<1> QED BY <1>7, <1>8, <1>9, <1>10 DEF Studio!Publish, PodBase, PodStore, PodReaders

LEMMA PodCalling ==
  ASSUME PodBase, NEW w \in Workers, worker[w].at # "idle"
  PROVE  /\ worker[w] \in PodCalls /\ worker[w].episode \in Episodes
         /\ worker[w].egressId \in Studio!EgressIds \cup {Studio!None}
         /\ worker[w].at \in {"look", "halt", "apply", "complete"} => Known(worker[w].egressId)
BY DEF PodBase, PodWorkers, CallNames, PodCalls

LEMMA PodJobTouched ==
  ASSUME PodBase, NEW e \in Episodes, NEW l \in Workers \cup {Studio!None}, NEW b \in BOOLEAN,
         UNCHANGED <<episode, state, egress>>,
         job' = [job EXCEPT ![e] = [job[e] EXCEPT !.lease = l, !.lapsed = b]]
  PROVE  /\ PodDocs' /\ Studio!StateFollows' /\ Studio!StopStays'
         /\ job'[e].action = job[e].action /\ job'[e].egressId = job[e].egressId
         /\ job'[e].lease = l /\ job'[e].lapsed = b
         /\ \A f \in Episodes \ {e} : job'[f] = job[f]
<1>1. PICK r : r = job[e] OBVIOUS
<1>2. r \in PodJobs BY <1>1 DEF PodBase, PodDocs
<1>3. PICK j : j = [r EXCEPT !.lease = l, !.lapsed = b] OBVIOUS
<1>4. j = [action |-> r.action, egressId |-> r.egressId, lease |-> l, lapsed |-> b]
  BY <1>2, <1>3 DEF PodJobs
<1>5. j \in PodJobs BY <1>2, <1>4 DEF PodJobs
<1>6. job' = [job EXCEPT ![e] = j] BY <1>1, <1>3
<1>7. job'[e] = j /\ \A f \in Episodes \ {e} : job'[f] = job[f]
  BY <1>6 DEF PodBase, PodDocs
<1>8. PodDocs'
  <2>1. job' \in [Episodes -> PodJobs] BY <1>5, <1>6 DEF PodBase, PodDocs
  <2> QED BY <2>1, <1>1, <1>4, <1>7 DEF PodBase, PodDocs, Known
<1>9. Studio!StateFollows' /\ Studio!StopStays'
     BY <1>1, <1>4, <1>7 DEF PodBase, Studio!StateFollows, Studio!StopStays
<1> QED BY <1>1, <1>4, <1>7, <1>8, <1>9

LEMMA PodClaim ==
  ASSUME Studio!PodcastAssumption, PodBase, NEW w \in Workers, NEW e \in Episodes,
       Studio!Claim(w, e)
  PROVE  PodBase'
<1>1. job[e] \in PodJobs BY DEF PodBase, PodDocs
<1>2. job' = [job EXCEPT ![e] = [job[e] EXCEPT !.lease = w, !.lapsed = FALSE]] BY DEF Studio!Claim
<1>3. PodDocs' /\ Studio!StateFollows' /\ Studio!StopStays'
     BY <1>2, PodJobTouched DEF Studio!Claim
<1>4. PICK c : c = [Studio!IdleWorker EXCEPT !.at = IF job[e].action
                    = "start" THEN "list" ELSE "look",
                      !.episode = e, !.action = job[e].action, !.egressId = job[e].egressId]
  OBVIOUS
<1>5. c = [at |-> IF job[e].action = "start" THEN "list" ELSE "look", episode |-> e,
           action |-> job[e].action, egressId |-> job[e].egressId, info |-> "none"]
  BY <1>4 DEF Studio!IdleWorker
<1>6. c \in PodCalls BY <1>1, <1>5 DEF PodCalls, PodJobs
<1>7. c.at = "look" => Known(job[e].egressId)
  BY <1>1, <1>5 DEF PodBase, PodDocs, Studio!Claim, Studio!HasJob, PodJobs
<1>8. CallNames(c)' BY <1>5, <1>7 DEF CallNames, Studio!Claim, Known
<1>9. PodWorkers' BY <1>4, <1>6, <1>8, PodSame, PodWorkerMoves DEF Studio!Claim
<1> QED BY <1>3, <1>9 DEF Studio!Claim, PodBase, PodStore, PodReaders

LEMMA PodList ==
  ASSUME Studio!PodcastAssumption, PodBase, NEW w \in Workers, Studio!List(w) PROVE PodBase'
<1>1. worker[w].episode \in Episodes /\ ProviderMoved BY PodCalling, PodSame DEF Studio!List
<1>2. PodWorkers'
  <2>1. CASE Studio!Goes(w, "begin", Studio!None, "none")
    <3>1. PICK c \in PodCalls : worker' = [worker EXCEPT ![w] = c] /\ c.at = "begin"
                                /\ c.episode = worker[w].episode
      BY <2>1, PodWorkerGoes, SMTT(60) DEF PodBase
    <3>2. CallNames(c)' BY <3>1, <1>1 DEF CallNames
    <3> QED BY <3>1, <3>2, <1>1, PodWorkerMoves
  <2>2. CASE \E g \in Studio!Adoptable(worker[w].episode) : Studio!Goes(w, "apply", g,
                                                                        egress[g].status)
    <3>1. PICK g \in Studio!Adoptable(worker[w].episode) : Studio!Goes(w, "apply", g,
                                                                       egress[g].status)
      BY <2>2
    <3>2. g \in Studio!EgressIds /\ egress[g].status \in {"running", "ending", "complete"}
      BY <3>1 DEF Studio!Adoptable, PodBase, PodStore, Studio!EgressStatus
    <3>3. PICK st : st = egress[g].status OBVIOUS
    <3>4. PICK c \in PodCalls : worker' = [worker EXCEPT ![w] = c] /\ c.at = "apply"
             /\ c.episode = worker[w].episode /\ c.egressId = g /\ c.info = st
      BY <3>1, <3>2, <3>3, PodWorkerGoes, SMTT(60) DEF PodBase
    <3>5. CallNames(c)' BY <3>2, <3>3, <3>4, <1>1 DEF CallNames, Known, Over, Studio!List
    <3> QED BY <3>4, <3>5, <1>1, PodWorkerMoves
  <2> QED BY <2>1, <2>2 DEF Studio!List
<1>3. PodDocs' /\ Studio!StateFollows' /\ Studio!StopStays' BY <1>1, PodDocsStand DEF Studio!List
<1> QED BY <1>2, <1>3 DEF Studio!List, PodBase, PodStore, PodReaders

LEMMA PodBegin ==
  ASSUME Studio!PodcastAssumption, PodBase, NEW w \in Workers, Studio!Begin(w) PROVE PodBase'
<1>1. worker[w].episode \in Episodes BY PodCalling DEF Studio!Begin
<1>2. PICK g \in Studio!EgressIds :
        /\ egress[g].status = "unused"
        /\ egress' = [egress EXCEPT ![g] = [episode |-> worker[w].episode, status |-> "running"]]
        /\ Studio!Goes(w, "apply", g, "running") \/ Studio!Goes(w, "release", Studio!None, "none")
  BY DEF Studio!Begin
<1>3. egress'[g].status = "running" /\ \A h \in Studio!EgressIds \ {g} : egress'[h] = egress[h]
  BY <1>2 DEF PodBase, PodStore
<1>4. ProviderMoved BY <1>2, <1>3 DEF ProviderMoved, Known, Over
<1>5. PodWorkers'
  <2>1. CASE Studio!Goes(w, "apply", g, "running")
    <3>1. PICK c \in PodCalls : worker' = [worker EXCEPT ![w] = c] /\ c.at = "apply"
             /\ c.episode = worker[w].episode /\ c.egressId = g /\ c.info = "running"
      BY <2>1, PodWorkerGoes, SMTT(60) DEF PodBase
    <3>2. CallNames(c)' BY <3>1, <1>1, <1>3 DEF CallNames, Known
    <3> QED BY <3>1, <3>2, <1>4, PodWorkerMoves
  <2>2. CASE Studio!Goes(w, "release", Studio!None, "none")
    <3>1. PICK c \in PodCalls : worker' = [worker EXCEPT ![w] = c] /\ c.at = "release"
                                /\ c.episode = worker[w].episode
      BY <2>2, PodWorkerGoes, SMTT(60) DEF PodBase
    <3>2. CallNames(c)' BY <3>1, <1>1 DEF CallNames
    <3> QED BY <3>1, <3>2, <1>4, PodWorkerMoves
  <2> QED BY <2>1, <2>2, <1>2
<1>6. PodDocs' /\ Studio!StateFollows' /\ Studio!StopStays' BY <1>4, PodDocsStand DEF Studio!Begin
<1>7. egress' \in [Studio!EgressIds -> [episode : Episodes \cup {Studio!None},
                                        status : Studio!EgressStatus]]
  BY <1>1, <1>2 DEF PodBase, PodStore, Studio!EgressStatus
<1> QED BY <1>5, <1>6, <1>7 DEF Studio!Begin, PodBase, PodStore, PodReaders

LEMMA PodGoesOn ==
  ASSUME PodBase, ProviderMoved, NEW w \in Workers, worker[w].at # "idle",
         NEW at, NEW g \in Studio!EgressIds \cup {Studio!None}, NEW info,
         at \in {"begin", "halt", "release", "apply", "complete"},
         info \in {"none", "running", "ending", "complete", "failed"},
              Studio!Goes(w, at, g, info),
         at \in {"halt", "apply", "complete"} => Known(g)',
         at = "apply" => info # "none" /\ (info = "ending" => Over(g)')
  PROVE  PodWorkers'
<1>1. PICK c \in PodCalls : worker' = [worker EXCEPT ![w] = c] /\ c.at = at
             /\ c.episode = worker[w].episode /\ c.egressId = g /\ c.info = info
  BY PodWorkerGoes, SMTT(60) DEF PodBase
<1>2. worker[w].episode \in Episodes BY PodCalling
<1>3. CallNames(c)' BY <1>1, <1>2 DEF CallNames, Known, Over
<1> QED BY <1>1, <1>3, PodWorkerMoves

LEMMA PodLook ==
  ASSUME Studio!PodcastAssumption, PodBase, NEW w \in Workers, Studio!Look(w)
       \/ Studio!BeginRefused(w) \/ Studio!Inspect(w)
  PROVE  PodBase'
<1>1. UNCHANGED egress /\ ProviderMoved /\ worker[w].at # "idle"
  BY PodSame DEF Studio!Look, Studio!BeginRefused, Studio!Inspect
<1>2. PICK g : g = worker[w].egressId OBVIOUS
<1>3. g \in Studio!EgressIds \cup {Studio!None} BY <1>1, <1>2, PodCalling
<1>4. PodWorkers'
  <2>1. CASE Studio!Look(w)
    <3>1. Known(g) BY <1>2, <2>1, PodCalling DEF Studio!Look
    <3>2. PICK st : st = egress[g].status OBVIOUS
    <3>3. st \in {"running", "ending", "complete", "failed"}
      BY <3>1, <3>2 DEF Known, PodBase, PodStore, Studio!EgressStatus
    <3>4. Known(g)' /\ (st = "ending" => Over(g)') BY <3>1, <3>2, <1>1 DEF Known, Over
    <3>5. PICK at : at = IF worker[w].action = "stop" /\ st = "running" THEN "halt" ELSE "apply"
      OBVIOUS
    <3>6. Studio!Goes(w, at, g, st) BY <1>2, <2>1, <3>2, <3>5 DEF Studio!Look
    <3> QED BY <1>1, <1>3, <3>3, <3>4, <3>5, <3>6, PodGoesOn
  <2>2. CASE Studio!BeginRefused(w) BY <1>1, <2>2, PodGoesOn DEF Studio!BeginRefused
  <2>3. CASE Studio!Inspect(w)
    <3>1. Known(g) BY <1>2, <2>3, PodCalling DEF Studio!Inspect
    <3>2. PICK at : at = IF object[worker[w].episode] = g THEN "complete" ELSE "release"
      OBVIOUS
    <3>3. Studio!Goes(w, at, g, "complete") BY <1>2, <2>3, <3>2 DEF Studio!Inspect
    <3>4. Known(g)' BY <3>1, <1>1 DEF Known
    <3> QED BY <1>1, <1>3, <3>2, <3>3, <3>4, PodGoesOn
  <2> QED BY <2>1, <2>2, <2>3
<1>5. PodDocs' /\ Studio!StateFollows' /\ Studio!StopStays'
  BY <1>1, PodDocsStand DEF Studio!Look, Studio!BeginRefused, Studio!Inspect
<1> QED BY <1>4, <1>5 DEF Studio!Look, Studio!BeginRefused, Studio!Inspect, PodBase, PodStore,
        PodReaders

LEMMA PodProviderSets ==
  ASSUME PodBase, NEW g \in Studio!EgressIds, NEW st \in {"ending", "complete", "failed"},
         Known(g), Studio!ProviderSets(g, st)
  PROVE  /\ ProviderMoved /\ Over(g)'
         /\ egress' \in [Studio!EgressIds -> [episode : Episodes \cup {Studio!None},
                                              status : Studio!EgressStatus]]
         /\ egress'[g].status = st /\ egress'[g].episode = egress[g].episode
         /\ \A h \in Studio!EgressIds \ {g} : egress'[h] = egress[h]
<1>1. PICK r : r = egress[g] OBVIOUS
<1>2. r \in [episode : Episodes \cup {Studio!None}, status : Studio!EgressStatus]
     BY <1>1 DEF PodBase, PodStore
<1>3. PICK p : p = [r EXCEPT !.status = st] OBVIOUS
<1>4. p = [episode |-> r.episode, status |-> st] BY <1>2, <1>3
<1>5. egress' = [egress EXCEPT ![g] = p] BY <1>1, <1>3 DEF Studio!ProviderSets
<1>6. egress'[g] = p /\ \A h \in Studio!EgressIds \ {g} : egress'[h] = egress[h]
  BY <1>5 DEF PodBase, PodStore
<1>7. ProviderMoved BY <1>4, <1>6 DEF ProviderMoved, Known, Over
<1>8. egress' \in [Studio!EgressIds -> [episode : Episodes \cup {Studio!None},
                                        status : Studio!EgressStatus]]
  BY <1>2, <1>4, <1>5 DEF PodBase, PodStore, Studio!EgressStatus
<1>9. Over(g)' BY <1>4, <1>6 DEF Over, Known
<1> QED BY <1>1, <1>4, <1>6, <1>7, <1>8, <1>9

LEMMA PodHalt ==
  ASSUME Studio!PodcastAssumption, PodBase, NEW w \in Workers, Studio!Halt(w) PROVE PodBase'
<1>1. worker[w].at # "idle" BY DEF Studio!Halt
<1>2. PICK g : g = worker[w].egressId OBVIOUS
<1>3. g \in Studio!EgressIds /\ Known(g) BY <1>2, PodCalling DEF Studio!Halt, Known
<1>4. ProviderMoved /\ PodWorkers'
      /\ egress' \in [Studio!EgressIds -> [episode : Episodes \cup {Studio!None},
                                           status : Studio!EgressStatus]]
  <2>1. CASE egress[g].status = "running"
    <3>1. Studio!ProviderSets(g, "ending") /\ Studio!Goes(w, "apply", g, "ending")
         BY <1>2, <2>1 DEF Studio!Halt
    <3>2. Known(g)' BY <1>3, <3>1, PodProviderSets DEF Over
    <3> QED BY <1>1, <1>3, <3>1, <3>2, PodProviderSets, PodGoesOn
  <2>2. CASE egress[g].status # "running"
    <3>1. UNCHANGED egress /\ Studio!Goes(w, "release", g, "none") BY <1>2, <2>2 DEF Studio!Halt
    <3> QED BY <1>1, <1>3, <3>1, PodSame, PodGoesOn DEF PodBase, PodStore
  <2> QED BY <2>1, <2>2
<1>5. PodDocs' /\ Studio!StateFollows' /\ Studio!StopStays' BY <1>4, PodDocsStand DEF Studio!Halt
<1> QED BY <1>4, <1>5 DEF Studio!Halt, PodBase, PodStore, PodReaders

LEMMA PodProvider ==
  ASSUME Studio!PodcastAssumption, PodBase, NEW g \in Studio!EgressIds,
         Studio!ProviderEnds(g) \/ Studio!ProviderCompletes(g) \/ Studio!ProviderFails(g)
  PROVE  PodBase'
<1>1. Known(g) BY DEF Known, Studio!ProviderEnds, Studio!ProviderCompletes, Studio!ProviderFails
<1>2. PICK st \in {"ending", "complete", "failed"} : Studio!ProviderSets(g, st)
  BY DEF Studio!ProviderEnds, Studio!ProviderCompletes, Studio!ProviderFails
<1>3. ProviderMoved
      /\ egress' \in [Studio!EgressIds -> [episode : Episodes \cup {Studio!None},
                                           status : Studio!EgressStatus]]
  BY <1>1, <1>2, PodProviderSets
<1>4. PodDocs' /\ Studio!StateFollows' /\ Studio!StopStays' /\ PodWorkers'
  BY <1>3, PodDocsStand, PodWorkersStand
     DEF Studio!ProviderEnds, Studio!ProviderCompletes, Studio!ProviderFails
<1>5. object' \in [Episodes -> Studio!EgressIds \cup {Studio!None}]
  BY DEF PodBase, PodStore, Studio!ProviderEnds, Studio!ProviderCompletes, Studio!ProviderFails
<1> QED BY <1>3, <1>4, <1>5
        DEF Studio!ProviderEnds, Studio!ProviderCompletes, Studio!ProviderFails, PodBase,
             PodStore, PodReaders

LEMMA PodRelease ==
  ASSUME Studio!PodcastAssumption, PodBase, NEW w \in Workers, Studio!Release(w) PROVE PodBase'
<1>1. PICK e : e = worker[w].episode OBVIOUS
<1>2. e \in Episodes BY <1>1, PodCalling DEF Studio!Release
<1>3. PodDocs' /\ Studio!StateFollows' /\ Studio!StopStays'
  <2>1. CASE Studio!Holds(w)
    <3>1. job[e] \in PodJobs BY <1>2 DEF PodBase, PodDocs
    <3>2. PICK b \in BOOLEAN : b = job[e].lapsed BY <3>1 DEF PodJobs
    <3>3. [job[e] EXCEPT !.lease = Studio!None]
              = [job[e] EXCEPT !.lease = Studio!None, !.lapsed = b]
      BY <3>1, <3>2 DEF PodJobs
    <3>4. job' = [job EXCEPT ![e] = [job[e] EXCEPT !.lease = Studio!None, !.lapsed = b]]
      BY <1>1, <2>1, <3>3 DEF Studio!Release
    <3> QED BY <1>2, <3>4, PodJobTouched DEF Studio!Release
  <2>2. CASE ~Studio!Holds(w) BY <2>2, PodSame, PodDocsStand DEF Studio!Release
  <2> QED BY <2>1, <2>2
<1>4. PodWorkers' BY PodSame, PodWorkerRests DEF Studio!Release
<1> QED BY <1>3, <1>4 DEF Studio!Release, PodBase, PodStore, PodReaders

LEMMA PodLapse ==
  ASSUME Studio!PodcastAssumption, PodBase, NEW e \in Episodes, Studio!Lapse(e) PROVE PodBase'
<1>1. job[e] \in PodJobs BY DEF PodBase, PodDocs
<1>2. PICK l \in Workers \cup {Studio!None} : l = job[e].lease BY <1>1 DEF PodJobs
<1>3. [job[e] EXCEPT !.lapsed = TRUE] = [job[e] EXCEPT !.lease = l, !.lapsed = TRUE]
  BY <1>1, <1>2 DEF PodJobs
<1>4. job' = [job EXCEPT ![e] = [job[e] EXCEPT !.lease = l, !.lapsed = TRUE]]
  BY <1>3 DEF Studio!Lapse
<1>5. PodDocs' /\ Studio!StateFollows' /\ Studio!StopStays'
     BY <1>4, PodJobTouched DEF Studio!Lapse
<1>6. PodWorkers' BY PodSame, PodWorkersStand DEF Studio!Lapse
<1> QED BY <1>5, <1>6 DEF Studio!Lapse, PodBase, PodStore, PodReaders

LEMMA PodApplyFailed ==
  ASSUME Studio!PodcastAssumption, PodBase, NEW w \in Workers, NEW e, e = worker[w].episode,
         Studio!ApplyFailed(w)
  PROVE  /\ PodBase'
         /\ Studio!Holds(w) /\ Studio!StateIsOf(e) =>
              /\ episode'[e].status = "error" /\ job'[e] = Studio!NoJob
              /\ \A f \in Episodes \ {e} : episode'[f] = episode[f] /\ job'[f] = job[f]
         /\ ~(Studio!Holds(w) /\ Studio!StateIsOf(e)) => UNCHANGED <<episode, job>>
<1>1. e \in Episodes /\ worker[w].egressId \in Studio!EgressIds /\ Known(worker[w].egressId)
  BY PodCalling DEF Studio!ApplyFailed, Known
<1>2. PodWorkers' BY PodSame, PodWorkerRests DEF Studio!ApplyFailed
<1>3. CASE Studio!Holds(w) /\ Studio!StateIsOf(e)
  <2>1. PICK r : r = episode[e] OBVIOUS
  <2>2. r \in PodRecords BY <1>1, <2>1 DEF PodBase, PodDocs
  <2>3. PICK g : g = worker[w].egressId OBVIOUS
  <2>4. PICK ep : ep = [r EXCEPT !.status = "error", !.revision = @ + 1, !.egressId = g] OBVIOUS
  <2>5. ep = [status |-> "error", revision |-> r.revision + 1, egressId |-> g,
              media |-> r.media]
    BY <2>2, <2>4 DEF PodRecords
  <2>6. ep \in PodRecords /\ ep.egressId = g /\ ep.status = "error"
    BY <1>1, <2>2, <2>3, <2>5 DEF Studio!EpisodeStatus, PodRecords
  <2>7. Studio!NoJob \in PodJobs /\ Studio!NoJob.action = "none"
            /\ Studio!NoJob.egressId = Studio!None
    BY PodNumbers DEF Studio!NoJob
  <2>8. Studio!Write(e, ep) /\ job' = [job EXCEPT ![e] = Studio!NoJob] /\ UNCHANGED egress
    BY <1>3, <2>1, <2>3, <2>4 DEF Studio!ApplyFailed
  <2>9. PodDocs' /\ Studio!StateFollows' /\ Studio!StopStays'
    BY <1>1, <1>3, <2>3, <2>6, <2>7, <2>8, PodAlone, PodDocsMove DEF Studio!StateIsOf
  <2>10. episode'[e] = ep /\ job'[e] = Studio!NoJob
         /\ \A f \in Episodes \ {e} : episode'[f] = episode[f] /\ job'[f] = job[f]
    BY <1>1, <2>8 DEF Studio!Write, PodBase, PodDocs
  <2> QED BY <1>2, <1>3, <2>6, <2>9, <2>10 DEF Studio!ApplyFailed, PodBase, PodStore, PodReaders
<1>4. CASE ~(Studio!Holds(w) /\ Studio!StateIsOf(e))
  <2>1. UNCHANGED <<episode, state, job, egress>> BY <1>4 DEF Studio!ApplyFailed
  <2>2. PodDocs' /\ Studio!StateFollows' /\ Studio!StopStays' BY <2>1, PodSame, PodDocsStand
  <2> QED BY <1>2, <1>4, <2>1, <2>2 DEF Studio!ApplyFailed, PodBase, PodStore, PodReaders
<1> QED BY <1>3, <1>4

Completes(w, e) ==
  /\ Studio!Holds(w) /\ job[e].egressId = worker[w].egressId
  /\ episode[e].egressId = worker[w].egressId
  /\ episode[e].status \in {"recording", "processing"} /\ Studio!StateIsOf(e)

LEMMA PodComplete ==
  ASSUME Studio!PodcastAssumption, PodBase, NEW w \in Workers, NEW e, e = worker[w].episode,
       Studio!Complete(w)
  PROVE  /\ PodBase'
         /\ Completes(w, e) =>
              /\ episode'[e].status = "ready" /\ episode'[e].egressId = worker[w].egressId
              /\ episode'[e].media = object[e] /\ job'[e] = Studio!NoJob /\ Studio!Rests(w)
              /\ \A f \in Episodes \ {e} : episode'[f] = episode[f] /\ job'[f] = job[f]
         /\ ~Completes(w, e) =>
              /\ UNCHANGED <<episode, job>>
              /\ Studio!Rests(w) \/ Studio!Goes(w, "release", worker[w].egressId, "none")
<1>1. e \in Episodes /\ worker[w].egressId \in Studio!EgressIds /\ Known(worker[w].egressId)
  BY PodCalling DEF Studio!Complete, Known
<1>2. worker[w].at # "idle" /\ ProviderMoved BY PodSame DEF Studio!Complete
<1>3. CASE Completes(w, e)
  <2>1. PICK r : r = episode[e] OBVIOUS
  <2>2. r \in PodRecords BY <1>1, <2>1 DEF PodBase, PodDocs
  <2>3. PICK m : m = object[e] OBVIOUS
  <2>4. m \in Studio!EgressIds \cup {Studio!None} BY <1>1, <2>3 DEF PodBase, PodStore
  <2>5. PICK ep : ep = [r EXCEPT !.status = "ready", !.revision = @ + 1, !.media = m] OBVIOUS
  <2>6. ep = [status |-> "ready", revision |-> r.revision + 1, egressId |-> r.egressId,
              media |-> m]
    BY <2>2, <2>5 DEF PodRecords
  <2>7. ep \in PodRecords /\ ep.egressId = r.egressId /\ ep.status = "ready" /\ ep.media = m
    BY <2>2, <2>4, <2>6 DEF Studio!EpisodeStatus, PodRecords
  <2>8. Studio!NoJob \in PodJobs /\ Studio!NoJob.action = "none"
            /\ Studio!NoJob.egressId = Studio!None
    BY PodNumbers DEF Studio!NoJob
  <2>9. Studio!Write(e, ep) /\ job' = [job EXCEPT ![e] = Studio!NoJob] /\ Studio!Rests(w)
            /\ UNCHANGED egress
    BY <1>3, <2>1, <2>3, <2>5 DEF Studio!Complete, Completes
  <2>10. r.egressId = worker[w].egressId BY <1>3, <2>1 DEF Completes
  <2>11. PodDocs' /\ Studio!StateFollows' /\ Studio!StopStays'
    BY <1>1, <1>3, <2>7, <2>8, <2>9, <2>10, PodAlone, PodDocsMove DEF Studio!StateIsOf, Completes
  <2>12. PodWorkers' BY <1>2, <2>9, PodWorkerRests
  <2>13. episode'[e] = ep /\ job'[e] = Studio!NoJob
         /\ \A f \in Episodes \ {e} : episode'[f] = episode[f] /\ job'[f] = job[f]
    BY <1>1, <2>9 DEF Studio!Write, PodBase, PodDocs
  <2>14. PodBase' BY <2>11, <2>12 DEF Studio!Complete, PodBase, PodStore, PodReaders
  <2> QED BY <1>3, <2>3, <2>7, <2>9, <2>10, <2>13, <2>14
<1>4. CASE ~Completes(w, e)
  <2>1. /\ UNCHANGED <<episode, state, job, egress>>
        /\ Studio!Rests(w) \/ Studio!Goes(w, "release", worker[w].egressId, "none")
    BY <1>4 DEF Studio!Complete, Completes
  <2>2. PodDocs' /\ Studio!StateFollows' /\ Studio!StopStays' BY <2>1, PodSame, PodDocsStand
  <2>3. PodWorkers' BY <1>1, <1>2, <2>1, PodWorkerRests, PodGoesOn
  <2>4. PodBase' BY <2>2, <2>3 DEF Studio!Complete, PodBase, PodStore, PodReaders
  <2> QED BY <1>4, <2>1, <2>4
<1> QED BY <1>3, <1>4

LEMMA PodApplyRunning ==
  ASSUME Studio!PodcastAssumption, PodBase, NEW w \in Workers, NEW e, e = worker[w].episode,
         Studio!ApplyRunning(w)
  PROVE  /\ PodBase'
         /\ Studio!Holds(w) /\ Studio!StateIsOf(e) =>
              /\ episode'[e].status \in {"recording", "processing"}
              /\ job'[e].action \in {"monitor", "stop"} /\ job'[e].lease = Studio!None
              /\ job'[e].egressId = worker[w].egressId
              /\ \A f \in Episodes \ {e} : episode'[f] = episode[f] /\ job'[f] = job[f]
         /\ ~(Studio!Holds(w) /\ Studio!StateIsOf(e)) => UNCHANGED <<episode, job>>
<1>1. e \in Episodes /\ worker[w].egressId \in Studio!EgressIds /\ Known(worker[w].egressId)
  BY PodCalling DEF Studio!ApplyRunning, Known
<1>2. PodWorkers' BY PodSame, PodWorkerRests DEF Studio!ApplyRunning
<1>3. CASE Studio!Holds(w) /\ Studio!StateIsOf(e)
  <2>1. PICK r : r = episode[e] OBVIOUS
  <2>2. r \in PodRecords BY <1>1, <2>1 DEF PodBase, PodDocs
  <2>3. PICK g : g = worker[w].egressId OBVIOUS
  <2>4. PICK st : st = IF Studio!KeepsStop(e, worker[w].info) THEN "processing" ELSE "recording"
    OBVIOUS
  <2>5. PICK n : n = IF r.status = st /\ r.egressId = g THEN r.revision ELSE r.revision + 1
    OBVIOUS
  <2>6. PICK ep : ep = [r EXCEPT !.status = st, !.egressId = g, !.revision = n] OBVIOUS
  <2>9. ep = [status |-> st, revision |-> n, egressId |-> g, media |-> r.media]
    BY <2>2, <2>6 DEF PodRecords
  <2>7. n \in Nat BY <2>2, <2>5 DEF PodRecords
  <2>8. ep \in PodRecords /\ ep.egressId = g /\ ep.status = st
    BY <1>1, <2>2, <2>3, <2>4, <2>7, <2>9 DEF Studio!EpisodeStatus, PodRecords
  <2>10. PICK a : a = IF Studio!KeepsStop(e, worker[w].info) /\ worker[w].info = "running"
                      THEN "stop" ELSE "monitor"
    OBVIOUS
  <2>11. PICK j : j = [Studio!NoJob EXCEPT !.action = a, !.egressId = g] OBVIOUS
  <2>12. j \in PodJobs /\ j.action = a /\ j.egressId = g /\ j.lease = Studio!None
    BY <1>1, <2>3, <2>10, <2>11 DEF Studio!NoJob, PodJobs
  <2>13. Studio!Write(e, ep) /\ job' = [job EXCEPT ![e] = j] /\ UNCHANGED egress
    BY <1>3, <2>1, <2>3, <2>4, <2>5, <2>6, <2>10, <2>11 DEF Studio!ApplyRunning
  <2>14. st = "processing" /\ egress[g].status = "running" => a = "stop"
    <3>1. worker[w].info \in {"running", "ending"} BY DEF Studio!ApplyRunning
    <3>2. worker[w].info = "ending" => egress[g].status # "running"
      BY <2>3 DEF PodBase, PodWorkers, CallNames, Over, Studio!ApplyRunning
    <3> QED BY <2>4, <2>10, <3>1, <3>2
  <2>15. PodDocs' /\ Studio!StateFollows' /\ Studio!StopStays'
    BY <1>1, <1>3, <2>3, <2>8, <2>12, <2>13, <2>14, PodAlone, PodDocsMove DEF Studio!StateIsOf
  <2>16. episode'[e] = ep /\ job'[e] = j
         /\ \A f \in Episodes \ {e} : episode'[f] = episode[f] /\ job'[f] = job[f]
    BY <1>1, <2>13 DEF Studio!Write, PodBase, PodDocs
  <2>17. PodBase' BY <1>2, <2>15 DEF Studio!ApplyRunning, PodBase, PodStore, PodReaders
  <2> QED BY <1>3, <2>3, <2>4, <2>8, <2>10, <2>12, <2>16, <2>17
<1>4. CASE ~(Studio!Holds(w) /\ Studio!StateIsOf(e))
  <2>1. UNCHANGED <<episode, state, job, egress>> BY <1>4 DEF Studio!ApplyRunning
  <2>2. PodDocs' /\ Studio!StateFollows' /\ Studio!StopStays' BY <2>1, PodSame, PodDocsStand
  <2> QED BY <1>2, <1>4, <2>1, <2>2 DEF Studio!ApplyRunning, PodBase, PodStore, PodReaders
<1> QED BY <1>3, <1>4

LEMMA PodSweepStops ==
  ASSUME Studio!PodcastAssumption, PodBase, NEW e \in Episodes, Studio!SweepStops(e)
  PROVE  /\ PodBase'
         /\ episode'[e].status = "processing" /\ job'[e].lease = Studio!None
         /\ job'[e].action = "stop" /\ job'[e].egressId = job[e].egressId
         /\ \A f \in Episodes \ {e} : episode'[f] = episode[f] /\ job'[f] = job[f]
<1>1. PICK r : r = episode[e] OBVIOUS
<1>2. r \in PodRecords BY <1>1 DEF PodBase, PodDocs
<1>3. PICK g : g = job[e].egressId OBVIOUS
<1>4. g \in Studio!EgressIds /\ Known(g)
  <2>1. job[e] \in PodJobs BY DEF PodBase, PodDocs
  <2>2. g # Studio!None /\ g \in Studio!EgressIds BY <1>3, <2>1 DEF Studio!SweepStops, PodJobs
  <2> QED BY <1>3, <2>2 DEF PodBase, PodDocs
<1>5. PICK j : j = [Studio!NoJob EXCEPT !.action = "stop", !.egressId = g] OBVIOUS
<1>6. j \in PodJobs /\ j.action = "stop" /\ j.egressId = g /\ j.lease = Studio!None
  BY <1>4, <1>5 DEF Studio!NoJob, PodJobs
<1>7. job' = [job EXCEPT ![e] = j] /\ UNCHANGED egress BY <1>3, <1>5 DEF Studio!SweepStops
<1>8. PodWorkers' BY PodSame, PodWorkersStand DEF Studio!SweepStops
<1>9. job'[e] = j /\ \A f \in Episodes \ {e} : job'[f] = job[f]
  BY <1>7 DEF PodBase, PodDocs
<1>10. CASE r.status = "recording"
  <2>1. PICK ep : ep = [r EXCEPT !.status = "processing", !.revision = @ + 1] OBVIOUS
  <2>2. ep = [status |-> "processing", revision |-> r.revision + 1, egressId |-> r.egressId,
              media |-> r.media]
    BY <1>2, <2>1 DEF PodRecords
  <2>3. ep \in PodRecords /\ ep.egressId = r.egressId /\ ep.status = "processing"
    BY <1>2, <2>2 DEF Studio!EpisodeStatus, PodRecords
  <2>4. Studio!Write(e, ep) BY <1>1, <1>10, <2>1 DEF Studio!SweepStops
  <2>5. state.episodeId = e BY <1>1, <1>10 DEF PodBase, Studio!StateFollows
  <2>6. ep.egressId # Studio!None => Known(ep.egressId) BY <1>1, <2>3 DEF PodBase, PodDocs
  <2>7. PodDocs' /\ Studio!StateFollows' /\ Studio!StopStays'
    BY <1>4, <1>6, <1>7, <2>3, <2>4, <2>5, <2>6, PodAlone, PodDocsMove
  <2>8. episode'[e] = ep /\ \A f \in Episodes \ {e} : episode'[f] = episode[f]
    BY <2>4 DEF Studio!Write, PodBase, PodDocs
  <2>9. PodBase' BY <1>8, <2>7 DEF Studio!SweepStops, PodBase, PodStore, PodReaders
  <2> QED BY <1>3, <1>6, <1>9, <2>3, <2>8, <2>9
<1>11. CASE r.status # "recording"
  <2>1. UNCHANGED <<episode, state>> /\ r.status = "processing"
    BY <1>1, <1>11 DEF Studio!SweepStops
  <2>2. job' \in [Episodes -> PodJobs] BY <1>6, <1>7 DEF PodBase, PodDocs
  <2>3. PodDocs'
    BY <1>4, <1>6, <1>7, <1>9, <2>1, <2>2 DEF PodBase, PodDocs, Known
  <2>4. Studio!StateFollows' /\ Studio!StopStays'
       BY <1>6, <1>7, <1>9, <2>1 DEF PodBase, Studio!StateFollows, Studio!StopStays
  <2>5. PodBase' BY <1>8, <2>3, <2>4 DEF Studio!SweepStops, PodBase, PodStore, PodReaders
  <2> QED BY <1>1, <1>3, <1>6, <1>9, <2>1, <2>5
<1> QED BY <1>10, <1>11

LEMMA PodSweepTakes ==
  ASSUME Studio!PodcastAssumption, PodBase, NEW e \in Episodes, Studio!SweepTakes(e)
  PROVE PodBase'
<1>1. PodDocs' /\ Studio!StateFollows' /\ Studio!StopStays' /\ PodWorkers'
  BY PodSame, PodDocsStand, PodWorkersStand DEF Studio!SweepTakes
<1>2. PICK r \in PodRecords : r = episode[e] BY DEF PodBase, PodDocs
<1>3. sweep' = [at |-> "bytes", episode |-> e, seen |-> r] BY <1>2 DEF Studio!SweepTakes
<1>4. PodReaders' BY <1>3 DEF PodBase, PodReaders, Studio!SweepTakes
<1> QED BY <1>1, <1>4 DEF Studio!SweepTakes, PodBase, PodStore

LEMMA PodIdleSweep ==
  ASSUME Studio!PodcastAssumption
  PROVE  /\ Studio!IdleSweep \in [at : {"idle", "bytes", "settle"},
                                  episode : Episodes \cup {Studio!None},
                           seen : PodRecords]
         /\ Studio!IdleSweep.at = "idle"
         /\ Studio!IdleListener \in [at : {"idle", "inspect", "signed", "heard"},
                              episode : Episodes \cup {Studio!None}, seen : PodRecords]
         /\ Studio!IdleListener.at = "idle"
BY PodNumbers DEF Studio!IdleSweep, Studio!IdleListener

LEMMA PodSweepBytes ==
  ASSUME Studio!PodcastAssumption, PodBase, Studio!SweepBytes
  PROVE  /\ PodBase'
         /\ \/ object' = [object EXCEPT ![sweep.episode] = Studio!None] /\ sweep'.at = "settle"
               /\ sweep'.episode = sweep.episode
            \/ object' = object /\ sweep'.at = "idle"
<1>1. PodDocs' /\ Studio!StateFollows' /\ Studio!StopStays' /\ PodWorkers'
  BY PodSame, PodDocsStand, PodWorkersStand DEF Studio!SweepBytes
<1>2. sweep.episode \in Episodes BY DEF Studio!SweepBytes, PodBase, PodReaders
<1>3. CASE sweep' = Studio!IdleSweep /\ UNCHANGED object
  <2>1. PodReaders' BY <1>3, PodIdleSweep DEF PodBase, PodReaders, Studio!SweepBytes
  <2>2. PodBase' BY <1>1, <1>3, <2>1 DEF Studio!SweepBytes, PodBase, PodStore
  <2> QED BY <1>3, <2>2, PodIdleSweep
<1>4. CASE object' = [object EXCEPT ![sweep.episode] = Studio!None]
           /\ sweep' = [sweep EXCEPT !.at = "settle"]
  <2>1. sweep' = [at |-> "settle", episode |-> sweep.episode, seen |-> sweep.seen]
    BY <1>4 DEF PodBase, PodReaders
  <2>2. PodReaders' BY <1>2, <2>1 DEF PodBase, PodReaders, Studio!SweepBytes
  <2>3. object' \in [Episodes -> Studio!EgressIds \cup {Studio!None}]
       BY <1>4 DEF PodBase, PodStore
  <2>4. PodBase' BY <1>1, <2>2, <2>3 DEF Studio!SweepBytes, PodBase, PodStore
  <2> QED BY <1>4, <2>1, <2>4
<1> QED BY <1>3, <1>4 DEF Studio!SweepBytes

LEMMA PodSweepSettles ==
  ASSUME Studio!PodcastAssumption, PodBase, Studio!SweepSettles
  PROVE  /\ PodBase' /\ sweep'.at = "idle"
         /\ \/ UNCHANGED episode
            \/ episode'[sweep.episode] = Studio!NoEpisode /\ ~Studio!HasJob(sweep.episode)
               /\ \A f \in Episodes \ {sweep.episode} : episode'[f] = episode[f]
<1>1. PodWorkers' /\ sweep' = Studio!IdleSweep BY PodSame, PodWorkersStand DEF Studio!SweepSettles
<1>2. PICK e : e = sweep.episode OBVIOUS
<1>3. e \in Episodes BY <1>2 DEF Studio!SweepSettles, PodBase, PodReaders
<1>4. PodReaders' BY <1>1, PodIdleSweep DEF PodBase, PodReaders, Studio!SweepSettles
<1>5. CASE UNCHANGED <<episode, state>>
  <2>1. PodDocs' /\ Studio!StateFollows' /\ Studio!StopStays'
       BY <1>5, PodSame, PodDocsStand DEF Studio!SweepSettles
  <2>2. PodBase' BY <1>1, <1>4, <2>1 DEF Studio!SweepSettles, PodBase, PodStore
  <2> QED BY <1>1, <1>5, <2>2, PodIdleSweep
<1>6. CASE ~Studio!HasJob(e) /\ Studio!StateMatches(e)
          /\ episode' = [episode EXCEPT ![e] = Studio!NoEpisode]
           /\ state' = Studio!NoState
  <2>1. episode'[e] = Studio!NoEpisode /\ \A f \in Episodes \ {e} : episode'[f] = episode[f]
    BY <1>3, <1>6 DEF PodBase, PodDocs
  <2>2. episode' \in [Episodes -> PodRecords] BY <1>3, <1>6, PodNumbers DEF PodBase, PodDocs
  <2>3. state' \in [episodeId : Episodes \cup {Studio!None}, revision : Nat,
                    status : Studio!EpisodeStatus]
    BY <1>6 DEF Studio!NoState, Studio!EpisodeStatus
  <2>4. PodDocs'
    BY <2>1, <2>2, <2>3 DEF PodBase, PodDocs, Studio!NoEpisode, Known, Studio!SweepSettles
  <2>5. \A f \in Episodes \ {e} : episode[f].status \notin {"recording", "processing"}
    BY <1>6, PodNumbers
       DEF Studio!StateMatches, Studio!StateIsOf, Studio!NoState, PodBase, Studio!StateFollows
  <2>6. Studio!StateFollows' BY <1>6, <2>1, <2>5 DEF Studio!StateFollows, Studio!NoState,
            Studio!NoEpisode
  <2>7. Studio!StopStays' BY <2>1, <2>5 DEF Studio!StopStays, Studio!NoEpisode
  <2>8. PodBase' BY <1>1, <1>4, <2>4, <2>6, <2>7 DEF Studio!SweepSettles, PodBase, PodStore
  <2> QED BY <1>1, <1>2, <1>6, <2>1, <2>8, PodIdleSweep
<1> QED BY <1>2, <1>5, <1>6 DEF Studio!SweepSettles

LEMMA PodQuiet ==
  ASSUME Studio!PodcastAssumption, PodBase,
         \/ \E e \in Episodes : Studio!OpenSession(e)
         \/ Studio!EndSession \/ Studio!Delete \/ Studio!SweepCrash
         \/ \E w \in Workers : Studio!Crash(w)
  PROVE  PodBase' /\ UNCHANGED <<episode, state, job, egress, object>>
<1>1. UNCHANGED <<episode, state, job, egress, object>>
  BY DEF Studio!OpenSession, Studio!EndSession, Studio!Delete, Studio!SweepCrash, Studio!Crash
<1>2. PodDocs' /\ Studio!StateFollows' /\ Studio!StopStays' BY <1>1, PodSame, PodDocsStand
<1>3. PodWorkers'
  BY <1>1, PodSame, PodWorkersStand, PodWorkerRests
     DEF Studio!OpenSession, Studio!EndSession, Studio!Delete, Studio!SweepCrash, Studio!Crash
<1>4. PodReaders'
  <2>1. sweep' \in {sweep, Studio!IdleSweep} /\ listener' = listener
    BY DEF Studio!OpenSession, Studio!EndSession, Studio!Delete, Studio!SweepCrash, Studio!Crash
  <2> QED BY <2>1, PodIdleSweep DEF PodBase, PodReaders
<1>5. PodStore'
  <2>1. live' \in Episodes \cup {Studio!None} /\ deleting' \in BOOLEAN
    BY DEF Studio!OpenSession, Studio!EndSession, Studio!Delete, Studio!SweepCrash,
           Studio!Crash, PodBase, PodStore
  <2>2. crashes' \in 0 .. MaxCrashes
    BY DEF Studio!OpenSession, Studio!EndSession, Studio!Delete, Studio!SweepCrash,
           Studio!Crash, PodBase, PodStore, Studio!PodcastAssumption
  <2> QED BY <1>1, <2>1, <2>2 DEF PodBase, PodStore
<1> QED BY <1>1, <1>2, <1>3, <1>4, <1>5 DEF PodBase

LEMMA PodListens ==
  ASSUME Studio!PodcastAssumption, PodBase, Studio!Listener
  PROVE  PodBase' /\ UNCHANGED <<episode, job, egress, object, deleting, worker, sweep>>
<1>1. UNCHANGED <<episode, state, job, egress, object, live, deleting, worker, sweep, crashes>>
  BY DEF Studio!Listener, Studio!Ask, Studio!Sign, Studio!Answer, Studio!Leave
<1>2. listener' \in [at : {"idle", "inspect", "signed", "heard"},
                     episode : Episodes \cup {Studio!None}, seen : PodRecords]
  <2>1. CASE \E e \in Episodes : Studio!Ask(e)
    <3>1. PICK e \in Episodes : Studio!Ask(e) BY <2>1
    <3>2. PICK r \in PodRecords : r = episode[e] BY DEF PodBase, PodDocs
    <3>3. listener' = [at |-> "inspect", episode |-> e, seen |-> r] BY <3>1, <3>2 DEF Studio!Ask
    <3> QED BY <3>3
  <2>2. CASE Studio!Sign \/ Studio!Answer \/ Studio!Leave
    BY <2>2, PodIdleSweep DEF Studio!Sign, Studio!Answer, Studio!Leave, PodBase, PodReaders
  <2> QED BY <2>1, <2>2 DEF Studio!Listener
<1>3. PodDocs' /\ Studio!StateFollows' /\ Studio!StopStays' /\ PodWorkers'
  BY <1>1, PodSame, PodDocsStand, PodWorkersStand
<1> QED BY <1>1, <1>2, <1>3 DEF PodBase, PodStore, PodReaders

LEMMA PodBaseInit == ASSUME Studio!PodcastAssumption, Studio!Init PROVE PodBase
<1>1. /\ Studio!NoEpisode.status = "none" /\ Studio!NoEpisode.egressId = Studio!None
      /\ Studio!NoJob.action = "none" /\ Studio!NoJob.egressId = Studio!None
      /\ Studio!NoState.episodeId = Studio!None
  BY DEF Studio!NoEpisode, Studio!NoJob, Studio!NoState
<1>2. Studio!NoState \in [episodeId : Episodes \cup {Studio!None}, revision : Nat,
                          status : Studio!EpisodeStatus]
  BY DEF Studio!NoState, Studio!EpisodeStatus
<1>3. PodStore
  <2>1. [episode |-> Studio!None, status |-> "unused"]
          \in [episode : Episodes \cup {Studio!None}, status : Studio!EgressStatus]
    BY DEF Studio!EgressStatus
  <2>2. egress \in [Studio!EgressIds -> [episode : Episodes \cup {Studio!None},
                                         status : Studio!EgressStatus]]
    BY <2>1 DEF Studio!Init
  <2>3. crashes \in 0 .. MaxCrashes BY DEF Studio!Init, Studio!PodcastAssumption
  <2> QED BY <2>2, <2>3 DEF Studio!Init, PodStore
<1>4. PodDocs
  <2>1. /\ \A e \in Episodes : episode[e] = Studio!NoEpisode /\ job[e] = Studio!NoJob
        /\ state = Studio!NoState
    BY DEF Studio!Init
  <2>2. episode \in [Episodes -> PodRecords] /\ job \in [Episodes -> PodJobs]
    BY PodNumbers DEF Studio!Init
  <2> QED BY <1>1, <1>2, <2>1, <2>2 DEF PodDocs
<1>5. PodWorkers BY PodNumbers DEF Studio!Init, PodWorkers, CallNames, Studio!IdleWorker
<1>6. PodReaders BY PodIdleSweep DEF Studio!Init, PodReaders
<1>7. Studio!StateFollows /\ Studio!StopStays
     BY <1>1 DEF Studio!Init, Studio!StateFollows, Studio!StopStays
<1> QED BY <1>3, <1>4, <1>5, <1>6, <1>7 DEF PodBase

LEMMA PodBaseStep == ASSUME Studio!PodcastAssumption, PodBase, [Studio!Next]_Studio!vars
PROVE PodBase'
<1>1. CASE UNCHANGED Studio!vars
  <2>1. PodDocs' /\ Studio!StateFollows' /\ Studio!StopStays' /\ PodWorkers'
    BY <1>1, PodSame, PodDocsStand, PodWorkersStand DEF Studio!vars
  <2> QED BY <1>1, <2>1 DEF Studio!vars, PodBase, PodStore, PodReaders
<1>2. CASE Studio!Moderator BY <1>2, PodStart, PodStop, PodRetry, PodPublish, PodQuiet
          DEF Studio!Moderator
<1>3. CASE Studio!Provider BY <1>3, PodProvider DEF Studio!Provider
<1>4. CASE Studio!Cleanup
  BY <1>4, PodSweepStops, PodSweepTakes, PodSweepBytes, PodSweepSettles DEF Studio!Cleanup
<1>5. CASE Studio!Listener BY <1>5, PodListens
<1>6. ASSUME NEW w \in Workers, Studio!WorkerStep(w) PROVE PodBase'
  BY <1>6, PodList, PodBegin, PodLook, PodHalt, PodRelease, PodApplyFailed, PodComplete,
     PodApplyRunning
     DEF Studio!WorkerStep
<1> QED
  BY <1>1, <1>2, <1>3, <1>4, <1>5, <1>6, PodClaim, PodLapse, PodQuiet DEF Studio!Next

LEMMA PodBaseTypes == PodBase => Studio!TypeOK
BY DEF PodBase, PodStore, PodDocs, PodRecords, PodJobs, Studio!TypeOK

(* The episode, its state and job, the provider's recordings and the audio objects
   keep their types, however long a worker takes. *)
THEOREM PodTypeCorrect == ASSUME Studio!PodcastAssumption PROVE Studio!Spec => []Studio!TypeOK
<1>1. Studio!Init => PodBase BY PodBaseInit
<1>2. PodBase /\ [Studio!Next]_Studio!vars => PodBase' BY PodBaseStep
<1> QED BY <1>1, <1>2, PodBaseTypes, PTL DEF Studio!Spec

(* The studio's recording state is the truth about the episode it names and no other
   episode is being recorded; and a stop that was asked for is never overwritten by an
   answer of the provider that was on its way.  Even when a worker outlives its lease. *)
THEOREM StudioStaysTrue == ASSUME Studio!PodcastAssumption
PROVE Studio!Spec => [](Studio!StateFollows /\ Studio!StopStays)
<1>1. Studio!Init => PodBase BY PodBaseInit
<1>2. PodBase /\ [Studio!Next]_Studio!vars => PodBase' BY PodBaseStep
<1>3. PodBase => Studio!StateFollows /\ Studio!StopStays BY DEF PodBase
<1> QED BY <1>1, <1>2, <1>3, PTL DEF Studio!Spec

LEMMA PodAnswers ==
  ASSUME PodBase, Studio!Next PROVE Studio!GrantIsCurrent
<1> SUFFICES ASSUME listener'.at = "heard", listener.at # "heard" PROVE Studio!GrantIsCurrent
  BY DEF Studio!GrantIsCurrent
<1>1. listener' # listener BY DEF PodBase
<1>2. Studio!Listener
  <2>1. Studio!Moderator => UNCHANGED listener
    BY DEF Studio!Moderator, Studio!OpenSession, Studio!Start, Studio!Stop, Studio!Retry,
           Studio!Publish, Studio!EndSession, Studio!Delete
  <2>2. Studio!Provider => UNCHANGED listener
    BY DEF Studio!Provider, Studio!ProviderEnds, Studio!ProviderCompletes, Studio!ProviderFails
  <2>3. Studio!Cleanup \/ Studio!SweepCrash => UNCHANGED listener
    BY DEF Studio!Cleanup, Studio!SweepStops, Studio!SweepTakes, Studio!SweepBytes,
           Studio!SweepSettles, Studio!SweepCrash
  <2>4. \A w \in Workers : Studio!WorkerStep(w) \/ Studio!Crash(w) => UNCHANGED listener
    BY DEF Studio!WorkerStep, Studio!List, Studio!Begin, Studio!BeginRefused, Studio!Look,
           Studio!Halt, Studio!Release, Studio!ApplyFailed, Studio!Inspect, Studio!Complete,
           Studio!ApplyRunning, Studio!Crash
  <2>5. \A e \in Episodes :
          Studio!Lapse(e) \/ (\E w \in Workers : Studio!Claim(w, e)) => UNCHANGED listener
    BY DEF Studio!Claim, Studio!Lapse
  <2> QED BY <1>1, <2>1, <2>2, <2>3, <2>4, <2>5 DEF Studio!Next
<1>3. Studio!Answer
  <2>1. ~(\E e \in Episodes : Studio!Ask(e)) BY DEF Studio!Ask
  <2>2. ~Studio!Sign BY PodIdleSweep DEF Studio!Sign, Studio!IdleListener, PodBase, PodReaders
  <2>3. ~Studio!Leave BY DEF Studio!Leave
  <2> QED BY <1>2, <2>1, <2>2, <2>3 DEF Studio!Listener
<1>4. Studio!SamePlayback
  <2>1. Studio!IdleListener.at # "heard" BY DEF Studio!IdleListener
  <2> QED BY <1>3, <2>1 DEF Studio!Answer
<1> QED BY <1>4 DEF Studio!SamePlayback, Studio!MayHear, Studio!GrantIsCurrent

(* A listener is only answered with an episode that is still, at that moment, the one
   that was authorized before the link was signed. *)
THEOREM PlaybackIsCurrent ==
  ASSUME Studio!PodcastAssumption PROVE Studio!Spec => [][Studio!GrantIsCurrent]_Studio!vars
<1>1. Studio!Init => PodBase BY PodBaseInit
<1>2. PodBase /\ [Studio!Next]_Studio!vars => PodBase' BY PodBaseStep
<1>3. PodBase /\ [Studio!Next]_Studio!vars => [Studio!GrantIsCurrent]_Studio!vars BY PodAnswers
<1> QED BY <1>1, <1>2, <1>3, PTL DEF Studio!Spec

------------------------
(* With workers that finish within their lease. *)

PodEgress ==
  \A g \in Studio!EgressIds :
    egress[g].status = "unused" <=> egress[g].episode = Studio!None

PodJobbed(e) ==
  /\ Studio!HasJob(e) <=> episode[e].status \in {"recording", "processing"}
  /\ job[e].action \in {"monitor", "stop"} => egress[job[e].egressId].episode = e
  /\ job[e].action = "start" => job[e].egressId = Studio!None

\* At most one recording of an episode has not failed, and it is the job's.
PodKept(e) ==
  /\ \A g, h \in Studio!Adoptable(e) : g = h
  /\ \A g \in Studio!Adoptable(e) : job[e].action \in {"monitor", "stop"} => g = job[e].egressId
  /\ episode[e].status = "error" \/ (~Studio!Exists(e) /\ ~deleting) => Studio!Adoptable(e) = {}
  /\ \A g \in Studio!Adoptable(e) : Studio!Going(g) => Studio!HasJob(e)

PodRecorded(e) ==
  /\ episode[e].status \in {"ready", "published"} =>
       /\ episode[e].media # Studio!None /\ episode[e].media = episode[e].egressId
       /\ egress[episode[e].media].status = "complete"
       /\ object[e] = episode[e].media \/ (deleting /\ object[e] = Studio!None)
  /\ ~Studio!Exists(e) => object[e] = Studio!None

PodEpisode(e) == PodJobbed(e) /\ PodKept(e) /\ PodRecorded(e)

\* A worker with the lease knows the job as it is; one that starts has the lease.
PodHeld(w) ==
  LET e == worker[w].episode
  IN  /\ worker[w].action = "start" => Studio!Holds(w)
      /\ Studio!Holds(w) =>
           /\ ~job[e].lapsed /\ job[e].action = worker[w].action
           /\ worker[w].action # "start" => worker[w].egressId = job[e].egressId

\* What a worker has seen at the provider still says what it has to.
PodSeen(w) ==
  LET e == worker[w].episode
      g == worker[w].egressId
  IN  /\ worker[w].at \in {"list", "begin"} => worker[w].action = "start"
      /\ worker[w].at \in {"look", "halt"} => worker[w].action # "start"
      /\ worker[w].at \in {"look", "halt", "apply", "complete"} => egress[g].episode = e
      /\ worker[w].at = "begin" => Studio!Adoptable(e) = {}
      /\ worker[w].at = "apply" =>
           /\ worker[w].action = "start" => \A h \in Studio!Adoptable(e) : h = g
           /\ worker[w].info = "failed" =>
                egress[g].status = "failed" /\ worker[w].action # "start"
           /\ worker[w].info = "complete" => egress[g].status = "complete"
      /\ worker[w].at = "complete" =>
           egress[g].status = "complete" /\ (Studio!HasJob(e) => object[e] = g)

PodWorker(w) == worker[w].at # "idle" => PodHeld(w) /\ PodSeen(w)

PodSwept ==
  sweep.at # "idle" =>
    /\ deleting /\ ~Studio!HasJob(sweep.episode)
    /\ sweep.at = "settle" => object[sweep.episode] = Studio!None

PodInv ==
  /\ PodBase /\ PodEgress /\ PodSwept
  /\ \A e \in Episodes : PodEpisode(e)
  /\ \A w \in Workers : PodWorker(w)

PodAssumption == Studio!PodcastAssumption /\ ~SlowWorkers /\ Studio!None \notin Workers

\* The provider begins nothing new; what failed or is complete stays so.
PodCalm ==
  /\ \A g \in Studio!EgressIds : egress'[g].episode = egress[g].episode
  /\ \A g \in Studio!EgressIds : egress[g].status \in {"failed", "complete"}
       => egress'[g].status = egress[g].status
  /\ \A e \in Episodes : Studio!Adoptable(e)' \subseteq Studio!Adoptable(e)
  /\ \A g \in Studio!EgressIds : Studio!Going(g)' => Studio!Going(g)

LEMMA PodCalmSame ==
  ASSUME PodEgress, UNCHANGED egress PROVE PodCalm /\ PodEgress'
BY DEF PodEgress, PodCalm, Studio!Adoptable, Studio!Going

LEMMA PodCalmSets ==
  ASSUME PodBase, PodEgress, NEW g \in Studio!EgressIds, Studio!Going(g),
         NEW st \in {"ending", "complete", "failed"}, Studio!ProviderSets(g, st)
  PROVE  PodCalm /\ PodEgress'
<1>1. Known(g) BY DEF Known, Studio!Going
<1>2. /\ egress'[g].status = st /\ egress'[g].episode = egress[g].episode
      /\ \A h \in Studio!EgressIds \ {g} : egress'[h] = egress[h]
  BY <1>1, PodProviderSets
<1> QED BY <1>2 DEF PodCalm, PodEgress, Studio!Adoptable, Studio!Going

LEMMA PodEpisodeStands ==
  ASSUME PodAssumption, PodInv, PodCalm, NEW e \in Episodes,
         episode'[e] = episode[e], object'[e] = object[e], deleting => deleting',
         deleting' \in BOOLEAN,
         job'[e].action = job[e].action, job'[e].egressId = job[e].egressId
  PROVE  PodEpisode(e)'
<1>1. PodEpisode(e) BY DEF PodInv
<1>2. PodJobbed(e)'
  <2>1. job[e].action \in {"monitor", "stop"} => job[e].egressId \in Studio!EgressIds
    BY DEF PodInv, PodBase, PodDocs, Known
  <2> QED BY <1>1, <2>1 DEF PodEpisode, PodJobbed, Studio!HasJob, PodCalm
<1>3. PodKept(e)'
  <2>1. Studio!Adoptable(e)' \subseteq Studio!Adoptable(e)
            /\ Studio!Adoptable(e) \subseteq Studio!EgressIds
    BY DEF PodCalm, Studio!Adoptable
  <2>2. \A g \in Studio!Adoptable(e)' : Studio!Going(g)' => Studio!Going(g) BY <2>1 DEF PodCalm
  <2>3. deleting \in BOOLEAN BY DEF PodInv, PodBase, PodStore
  <2>4. (~Studio!Exists(e) /\ ~deleting)' => ~Studio!Exists(e) /\ ~deleting
       BY <2>3 DEF Studio!Exists
  <2> QED BY <1>1, <2>1, <2>2, <2>4 DEF PodEpisode, PodKept, Studio!HasJob
<1>4. PodRecorded(e)'
  <2>1. episode[e].media # Studio!None => episode[e].media \in Studio!EgressIds
    BY DEF PodInv, PodBase, PodDocs, PodRecords
  <2> QED BY <1>1, <2>1 DEF PodEpisode, PodRecorded, PodCalm, Studio!Exists
<1> QED BY <1>2, <1>3, <1>4 DEF PodEpisode

LEMMA PodWorkerStands ==
  ASSUME PodAssumption, PodInv, PodCalm, NEW w \in Workers, worker'[w] = worker[w],
         NEW e, e = worker[w].episode,
         Studio!Holds(w)' => Studio!Holds(w) /\ job'[e] = job[e],
         worker[w].action = "start" /\ Studio!Holds(w) => Studio!Holds(w)',
         worker[w].at = "complete" /\ Studio!HasJob(e)' => Studio!HasJob(e)
              /\ object'[e] = object[e]
  PROVE  PodWorker(w)'
<1> SUFFICES ASSUME worker[w].at # "idle" PROVE PodHeld(w)' /\ PodSeen(w)'
  BY DEF PodWorker
<1>1. PodHeld(w) /\ PodSeen(w) BY DEF PodInv, PodWorker
<1>2. e \in Episodes BY PodCalling DEF PodInv
<1>3. PodHeld(w)'
  BY <1>1, <1>2 DEF PodHeld, Studio!Holds, Studio!HasJob
<1>4. PodSeen(w)'
  <2>1. worker[w].at \in {"look", "halt", "apply", "complete"}
            => worker[w].egressId \in Studio!EgressIds
    BY PodCalling DEF PodInv, Known
  <2>2. Studio!Adoptable(e)' \subseteq Studio!Adoptable(e) BY <1>2 DEF PodCalm
  <2>3. PICK g : g = worker[w].egressId OBVIOUS
  <2>4. /\ g \in Studio!EgressIds /\ egress[g].status = "complete"
            => egress'[g].status = "complete"
        /\ g \in Studio!EgressIds /\ egress[g].status = "failed" => egress'[g].status = "failed"
        /\ g \in Studio!EgressIds => egress'[g].episode = egress[g].episode
    BY DEF PodCalm
  <2> QED BY <1>1, <2>1, <2>2, <2>3, <2>4 DEF PodSeen, Studio!HasJob
<1> QED BY <1>3, <1>4

LEMMA PodWorkerIdle ==
  ASSUME NEW w, worker'[w].at = "idle" PROVE PodWorker(w)'
BY DEF PodWorker

\* A job that is taken away from whoever held it.
LEMMA PodJobGoes ==
  ASSUME PodAssumption, PodInv, PodCalm, NEW w \in Workers, worker'[w] = worker[w],
         NEW e \in Episodes, job'[e].lease = Studio!None, UNCHANGED object,
         \A f \in Episodes \ {e} : job'[f] = job[f],
         worker[w].at # "idle" /\ worker[w].episode = e => worker[w].action # "start",
         Studio!HasJob(e)' => Studio!HasJob(e) \/ Studio!Adoptable(e) = {}
  PROVE  PodWorker(w)'
<1> SUFFICES ASSUME worker[w].at # "idle" PROVE PodWorker(w)'
  BY PodWorkerIdle
<1>1. PICK f \in Episodes : f = worker[w].episode BY PodCalling DEF PodInv
<1>2. CASE f # e
  <2>1. job'[f] = job[f] BY <1>2
  <2>2. (Studio!Holds(w)' <=> Studio!Holds(w)) /\ (Studio!HasJob(f)' <=> Studio!HasJob(f))
    BY <1>1, <2>1 DEF Studio!Holds, Studio!HasJob
  <2> QED BY <1>1, <2>1, <2>2, PodWorkerStands
<1>3. CASE f = e
  <2>1. ~Studio!Holds(w)' BY <1>1, <1>3 DEF Studio!Holds, PodAssumption
  <2>2. worker[w].action # "start" BY <1>1, <1>3
  <2>3. worker[w].at = "complete" => Studio!Adoptable(e) # {}
    <3> SUFFICES ASSUME worker[w].at = "complete" PROVE Studio!Adoptable(e) # {}
      OBVIOUS
    <3>1. PodSeen(w) BY DEF PodInv, PodWorker
    <3>2. Known(worker[w].egressId) BY PodCalling DEF PodInv
    <3> QED BY <1>1, <1>3, <3>1, <3>2 DEF PodSeen, Known, Studio!Adoptable
  <2>4. worker[w].at = "complete" /\ Studio!HasJob(f)' => Studio!HasJob(f)
            /\ object'[f] = object[f]
    BY <1>3, <2>3
  <2> QED BY <1>1, <2>1, <2>2, <2>4, PodWorkerStands
<1> QED BY <1>2, <1>3

LEMMA PodOthersStand ==
  ASSUME PodAssumption, PodInv, PodCalm, NEW e \in Episodes, UNCHANGED <<object, deleting>>,
         \A f \in Episodes \ {e} : episode'[f] = episode[f] /\ job'[f] = job[f]
  PROVE  \A f \in Episodes \ {e} : PodEpisode(f)'
<1>1. deleting' \in BOOLEAN BY DEF PodInv, PodBase, PodStore
<1> QED BY <1>1, PodEpisodeStands

LEMMA PodSweptStands ==
  ASSUME PodInv, UNCHANGED <<sweep, object, deleting>>,
         \A f \in Episodes : Studio!HasJob(f)' => Studio!HasJob(f)
  PROVE  PodSwept'
BY DEF PodInv, PodBase, PodReaders, PodSwept

LEMMA PodKeepsStart ==
  ASSUME PodAssumption, PodInv, NEW e \in Episodes, Studio!Start(e) PROVE PodInv'
<1>1. PodBase' BY PodStart DEF PodInv, PodAssumption
<1>2. PodCalm /\ PodEgress' BY PodCalmSame DEF Studio!Start, PodInv
<1>3. /\ episode'[e].status = "recording" /\ job'[e].action = "start"
      /\ job'[e].egressId = Studio!None /\ job'[e].lease = Studio!None
      /\ \A f \in Episodes \ {e} : episode'[f] = episode[f] /\ job'[f] = job[f]
      /\ UNCHANGED <<egress, object, deleting, sweep, worker>>
  BY DEF Studio!Start, Studio!Write, Studio!FreshJob, Studio!NoJob, Studio!NoEpisode, PodInv,
         PodBase, PodDocs
<1>4. Studio!Adoptable(e) = {} /\ Studio!Adoptable(e)' = {}
  <2>1. PodKept(e) BY DEF PodInv, PodEpisode
  <2> QED BY <1>3, <2>1 DEF PodKept, Studio!Start, Studio!Adoptable
<1>5. PodEpisode(e)'
  <2>1. episode'[e].status \notin {"none", "ready", "published", "error"} BY <1>3
  <2> QED BY <1>3, <1>4, <2>1 DEF PodEpisode, PodJobbed, PodKept, PodRecorded, Studio!HasJob,
          Studio!Exists
<1>6. \A w \in Workers : PodWorker(w)'
  <2>1. \A w \in Workers : worker[w].at # "idle" /\ worker[w].episode = e =>
          worker[w].action # "start"
    BY DEF PodInv, PodWorker, PodHeld, Studio!Holds, Studio!Start
  <2> QED BY <1>2, <1>3, <1>4, <2>1, PodJobGoes
<1>7. PodSwept' BY <1>3 DEF PodInv, PodSwept, Studio!Start
<1>8. \A f \in Episodes \ {e} : PodEpisode(f)' BY <1>2, <1>3, PodOthersStand
<1> QED BY <1>1, <1>2, <1>5, <1>6, <1>7, <1>8 DEF PodInv

LEMMA PodKeepsRetry ==
  ASSUME PodAssumption, PodInv, NEW e \in Episodes, Studio!Retry(e) PROVE PodInv'
<1>1. PodBase' BY PodRetry DEF PodInv, PodAssumption
<1>2. PodCalm /\ PodEgress' BY PodCalmSame DEF Studio!Retry, PodInv
<1>9. episode[e] \in PodRecords BY DEF PodInv, PodBase, PodDocs
<1>3. /\ episode'[e].status = "recording" /\ job'[e].action = "start"
      /\ job'[e].egressId = Studio!None /\ job'[e].lease = Studio!None
      /\ \A f \in Episodes \ {e} : episode'[f] = episode[f] /\ job'[f] = job[f]
      /\ UNCHANGED <<egress, object, deleting, sweep, worker>>
  BY <1>9
     DEF Studio!Retry, Studio!Write, Studio!FreshJob, Studio!NoJob, PodInv, PodBase, PodDocs,
         PodRecords
<1>4. Studio!Adoptable(e) = {} /\ Studio!Adoptable(e)' = {}
  <2>1. PodKept(e) BY DEF PodInv, PodEpisode
  <2> QED BY <1>3, <2>1 DEF PodKept, Studio!Retry, Studio!Adoptable
<1>5. PodEpisode(e)'
  <2>1. episode'[e].status \notin {"none", "ready", "published", "error"} BY <1>3
  <2> QED BY <1>3, <1>4, <2>1 DEF PodEpisode, PodJobbed, PodKept, PodRecorded, Studio!HasJob,
          Studio!Exists
<1>6. \A w \in Workers : PodWorker(w)'
  <2>1. \A w \in Workers : worker[w].at # "idle" /\ worker[w].episode = e =>
          worker[w].action # "start"
    BY DEF PodInv, PodWorker, PodHeld, Studio!Holds, Studio!Retry
  <2> QED BY <1>2, <1>3, <1>4, <2>1, PodJobGoes
<1>7. PodSwept' BY <1>3 DEF PodInv, PodSwept, Studio!Retry
<1>8. \A f \in Episodes \ {e} : PodEpisode(f)' BY <1>2, <1>3, PodOthersStand
<1> QED BY <1>1, <1>2, <1>5, <1>6, <1>7, <1>8 DEF PodInv

\* A stop, of the moderator or of the cleanup: the recording keeps its job.
LEMMA PodStopKeeps ==
  ASSUME PodAssumption, PodInv, PodBase', NEW e \in Episodes,
         job[e].egressId # Studio!None, Studio!HasJob(e),
         episode'[e].status = "processing", job'[e].action = "stop", job'[e].lease = Studio!None,
         job'[e].egressId = job[e].egressId,
         \A f \in Episodes \ {e} : episode'[f] = episode[f] /\ job'[f] = job[f],
         UNCHANGED <<egress, object, deleting, sweep, worker>>
  PROVE  PodInv'
<1>1. PodCalm /\ PodEgress' BY PodCalmSame DEF PodInv
<1>2. job[e].action \in {"monitor", "stop"}
  <2>1. PodJobbed(e) /\ job[e] \in PodJobs BY DEF PodInv, PodEpisode, PodBase, PodDocs
  <2> QED BY <2>1 DEF PodJobbed, Studio!HasJob, PodJobs
<1>3. PodEpisode(e)'
  <2>1. PodEpisode(e) BY DEF PodInv
  <2>2. Studio!Adoptable(e)' = Studio!Adoptable(e) BY DEF Studio!Adoptable
  <2>3. PodKept(e)' BY <1>2, <2>1, <2>2 DEF PodEpisode, PodKept, Studio!Going, Studio!HasJob,
            Studio!Exists
  <2> QED BY <1>2, <2>1, <2>3 DEF PodEpisode, PodJobbed, PodRecorded, Studio!HasJob, Studio!Exists
<1>4. \A w \in Workers : PodWorker(w)'
  <2>1. \A w \in Workers : worker[w].at # "idle" /\ worker[w].episode = e =>
          worker[w].action # "start"
    BY <1>2 DEF PodInv, PodWorker, PodHeld
  <2> QED BY <1>1, <2>1, PodJobGoes
<1>5. PodSwept' BY PodSweptStands DEF Studio!HasJob
<1>6. \A f \in Episodes \ {e} : PodEpisode(f)' BY <1>1, PodOthersStand
<1> QED BY <1>1, <1>3, <1>4, <1>5, <1>6 DEF PodInv

LEMMA PodKeepsStop ==
  ASSUME PodAssumption, PodInv, NEW e \in Episodes, Studio!Stop(e) \/ Studio!SweepStops(e)
  PROVE PodInv'
<1>1. CASE Studio!Stop(e)
  <2>1. PodBase' BY <1>1, PodStop DEF PodInv, PodAssumption
  <2>2. episode[e] \in PodRecords BY DEF PodInv, PodBase, PodDocs
  <2>3. /\ episode'[e].status = "processing" /\ job'[e].action = "stop"
        /\ job'[e].lease = Studio!None /\ job'[e].egressId = job[e].egressId
        /\ \A f \in Episodes \ {e} : episode'[f] = episode[f] /\ job'[f] = job[f]
        /\ UNCHANGED <<egress, object, deleting, sweep, worker>>
    BY <1>1, <2>2
       DEF Studio!Stop, Studio!Write, Studio!NoJob, PodInv, PodBase, PodDocs, PodRecords
  <2>4. job[e].egressId # Studio!None /\ Studio!HasJob(e) BY <1>1 DEF Studio!Stop, Studio!HasJob
  <2> QED BY <2>1, <2>3, <2>4, PodStopKeeps
<1>2. CASE Studio!SweepStops(e)
  <2>1. PodBase BY DEF PodInv
  <2>2. /\ PodBase'
        /\ episode'[e].status = "processing" /\ job'[e].action = "stop"
        /\ job'[e].lease = Studio!None /\ job'[e].egressId = job[e].egressId
        /\ \A f \in Episodes \ {e} : episode'[f] = episode[f] /\ job'[f] = job[f]
    BY <1>2, <2>1, PodSweepStops DEF PodAssumption
  <2>3. /\ UNCHANGED <<egress, object, deleting, sweep, worker>>
        /\ job[e].egressId # Studio!None /\ Studio!HasJob(e)
    BY <1>2 DEF Studio!SweepStops
  <2> QED BY <2>2, <2>3, PodStopKeeps
<1> QED BY <1>1, <1>2

\* The documents a step leaves alone, and the workers it does not move.
LEMMA PodRestStands ==
  ASSUME PodAssumption, PodInv, PodCalm, UNCHANGED <<episode, job, object>>,
         deleting => deleting', deleting' \in BOOLEAN
  PROVE  /\ \A e \in Episodes : PodEpisode(e)'
         /\ \A w \in Workers : worker'[w] = worker[w] => PodWorker(w)'
<1>1. \A e \in Episodes : PodEpisode(e)' BY PodEpisodeStands
<1>2. ASSUME NEW w \in Workers, worker'[w] = worker[w], worker[w].at # "idle"
      PROVE  PodWorker(w)'
  <2>1. PICK e : e = worker[w].episode OBVIOUS
  <2>2. (Studio!Holds(w)' <=> Studio!Holds(w)) /\ (Studio!HasJob(e)' <=> Studio!HasJob(e))
    BY <1>2, <2>1 DEF Studio!Holds, Studio!HasJob
  <2> QED BY <1>2, <2>1, <2>2, PodWorkerStands
<1> QED BY <1>1, <1>2, PodWorkerIdle

LEMMA PodKeepsPublish ==
  ASSUME PodAssumption, PodInv, NEW e \in Episodes, Studio!Publish(e) PROVE PodInv'
<1>1. PodBase' BY PodPublish DEF PodInv, PodAssumption
<1>2. PodCalm /\ PodEgress' BY PodCalmSame DEF Studio!Publish, PodInv
<1>3. episode[e] \in PodRecords BY DEF PodInv, PodBase, PodDocs
<1>4. /\ episode'[e].status = "published" /\ episode[e].status = "ready"
      /\ episode'[e].media = episode[e].media /\ episode'[e].egressId = episode[e].egressId
      /\ \A f \in Episodes \ {e} : episode'[f] = episode[f]
      /\ UNCHANGED <<job, egress, object, deleting, sweep, worker>>
  BY <1>3 DEF Studio!Publish, PodInv, PodBase, PodDocs, PodRecords
<1>5. PodEpisode(e)'
  <2>1. PodEpisode(e) BY DEF PodInv
  <2>2. Studio!Adoptable(e)' = Studio!Adoptable(e) BY <1>4 DEF Studio!Adoptable
  <2>3. PodJobbed(e)' BY <1>4, <2>1 DEF PodEpisode, PodJobbed, Studio!HasJob
  <2>4. PodKept(e)' BY <1>4, <2>1, <2>2 DEF PodEpisode, PodKept, Studio!HasJob, Studio!Exists,
            Studio!Going
  <2>5. PodRecorded(e)' BY <1>4, <2>1 DEF PodEpisode, PodRecorded, Studio!Exists
  <2> QED BY <2>3, <2>4, <2>5 DEF PodEpisode
<1>6. \A w \in Workers : PodWorker(w)'
  <2> SUFFICES ASSUME NEW w \in Workers PROVE PodWorker(w)'
    OBVIOUS
  <2>1. PICK f : f = worker[w].episode OBVIOUS
  <2>2. (Studio!Holds(w)' <=> Studio!Holds(w)) /\ (Studio!HasJob(f)' <=> Studio!HasJob(f))
    BY <1>4 DEF Studio!Holds, Studio!HasJob
  <2>3. CASE worker[w].at # "idle" BY <1>2, <1>4, <2>1, <2>2, <2>3, PodWorkerStands
  <2>4. CASE worker[w].at = "idle" BY <1>4, <2>4, PodWorkerIdle
  <2> QED BY <2>3, <2>4
<1>7. PodSwept' BY <1>4, PodSweptStands DEF Studio!HasJob
<1>8. \A f \in Episodes \ {e} : PodEpisode(f)' BY <1>2, <1>4, PodOthersStand
<1> QED BY <1>1, <1>2, <1>5, <1>6, <1>7, <1>8 DEF PodInv

LEMMA PodKeepsClaim ==
  ASSUME PodAssumption, PodInv, NEW w \in Workers, NEW e \in Episodes, Studio!Claim(w, e)
  PROVE  PodInv'
<1>1. PodBase' BY PodClaim DEF PodInv, PodAssumption
<1>2. PodCalm /\ PodEgress' BY PodCalmSame DEF Studio!Claim, PodInv
<1>3. job[e] \in PodJobs /\ Studio!HasJob(e) BY DEF PodInv, PodBase, PodDocs, Studio!Claim
<1>4. /\ job'[e].action = job[e].action /\ job'[e].egressId = job[e].egressId
      /\ job'[e].lease = w /\ job'[e].lapsed = FALSE
      /\ \A f \in Episodes \ {e} : job'[f] = job[f]
      /\ UNCHANGED <<egress, episode, object, deleting, sweep>>
  BY <1>3 DEF Studio!Claim, PodInv, PodBase, PodDocs, PodJobs
<1>5. /\ worker'[w].at = IF job[e].action = "start" THEN "list" ELSE "look"
      /\ worker'[w].episode = e /\ worker'[w].action = job[e].action
      /\ worker'[w].egressId = job[e].egressId
      /\ \A v \in Workers \ {w} : worker'[v] = worker[v]
  BY DEF Studio!Claim, Studio!IdleWorker, PodInv, PodBase, PodWorkers
<1>6. deleting' \in BOOLEAN BY <1>4 DEF PodInv, PodBase, PodStore
<1>7. \A f \in Episodes : PodEpisode(f)'
  BY <1>2, <1>4, <1>6, PodEpisodeStands
<1>8. PodWorker(w)'
  <2>1. PodHeld(w)' BY <1>3, <1>4, <1>5 DEF PodHeld, Studio!Holds, Studio!HasJob
  <2>2. PodSeen(w)'
    <3>1. PodJobbed(e) BY DEF PodInv, PodEpisode
    <3>2. job[e].action # "start" => job[e].action \in {"monitor", "stop"}
      BY <1>3 DEF PodJobs, Studio!HasJob
    <3> QED BY <1>4, <1>5, <3>1, <3>2 DEF PodSeen, PodJobbed
  <2> QED BY <2>1, <2>2 DEF PodWorker
<1>9. ASSUME NEW v \in Workers \ {w} PROVE PodWorker(v)'
  <2> SUFFICES ASSUME worker[v].at # "idle" PROVE PodWorker(v)'
    BY <1>5, PodWorkerIdle
  <2>1. PICK f \in Episodes : f = worker[v].episode BY PodCalling DEF PodInv
  <2>2. PodHeld(v) BY DEF PodInv, PodWorker
  <2>3. CASE f = e
    <3>1. ~Studio!Holds(v)
         BY <2>1, <2>2, <2>3 DEF PodHeld, Studio!Holds, Studio!Claim, Studio!Leased, PodAssumption
    <3>2. ~Studio!Holds(v)' BY <1>4, <1>5, <2>1, <2>3 DEF Studio!Holds
    <3>3. Studio!HasJob(f)' => Studio!HasJob(f) BY <1>3, <2>3
    <3> QED BY <1>2, <1>4, <1>5, <2>1, <3>1, <3>2, <3>3, PodWorkerStands
  <2>4. CASE f # e
    <3>1. job'[f] = job[f] BY <1>4, <2>4
    <3>2. (Studio!Holds(v)' <=> Studio!Holds(v)) /\ (Studio!HasJob(f)' <=> Studio!HasJob(f))
      BY <1>5, <2>1, <3>1 DEF Studio!Holds, Studio!HasJob
    <3> QED BY <1>2, <1>4, <1>5, <2>1, <3>1, <3>2, PodWorkerStands
  <2> QED BY <2>3, <2>4
<1>10. PodSwept'
  <2>1. \A f \in Episodes : Studio!HasJob(f)' => Studio!HasJob(f) BY <1>3, <1>4 DEF Studio!HasJob
  <2> QED BY <1>4, <2>1, PodSweptStands
<1> QED BY <1>1, <1>2, <1>7, <1>8, <1>9, <1>10 DEF PodInv

LEMMA PodKeepsLapse ==
  ASSUME PodAssumption, PodInv, NEW e \in Episodes, Studio!Lapse(e) PROVE PodInv'
<1>1. PodBase' BY PodLapse DEF PodInv, PodAssumption
<1>2. PodCalm /\ PodEgress' BY PodCalmSame DEF Studio!Lapse, PodInv
<1>3. job[e] \in PodJobs /\ Studio!HasJob(e) BY DEF PodInv, PodBase, PodDocs, Studio!Lapse
<1>4. /\ job'[e].action = job[e].action /\ job'[e].egressId = job[e].egressId
      /\ job'[e].lease = job[e].lease
      /\ \A f \in Episodes \ {e} : job'[f] = job[f]
      /\ UNCHANGED <<egress, episode, object, deleting, sweep, worker>>
  BY <1>3 DEF Studio!Lapse, PodInv, PodBase, PodDocs, PodJobs
<1>5. deleting' \in BOOLEAN BY <1>4 DEF PodInv, PodBase, PodStore
<1>6. \A f \in Episodes : PodEpisode(f)' BY <1>2, <1>4, <1>5, PodEpisodeStands
<1>7. \A f \in Episodes : Studio!HasJob(f)' <=> Studio!HasJob(f) BY <1>4 DEF Studio!HasJob
<1>8. ASSUME NEW v \in Workers PROVE PodWorker(v)'
  <2> SUFFICES ASSUME worker[v].at # "idle" PROVE PodWorker(v)'
    BY <1>4, PodWorkerIdle
  <2>1. PICK f \in Episodes : f = worker[v].episode BY PodCalling DEF PodInv
  <2>2. Studio!Holds(v)' <=> Studio!Holds(v) BY <1>4, <1>7, <2>1 DEF Studio!Holds
  <2>3. Studio!Holds(v) => f # e
    BY <2>1 DEF Studio!Holds, Studio!Lapse, Studio!HolderAlive, PodAssumption
  <2> QED BY <1>2, <1>4, <1>7, <2>1, <2>2, <2>3, PodWorkerStands
<1>9. PodSwept' BY <1>4, <1>7, PodSweptStands
<1> QED BY <1>1, <1>2, <1>6, <1>8, <1>9 DEF PodInv

LEMMA PodGoing ==
  ASSUME PodInv, NEW w \in Workers, NEW at, NEW g, NEW info, Studio!Goes(w, at, g, info)
  PROVE  /\ worker'[w].at = at /\ worker'[w].egressId = g /\ worker'[w].info = info
         /\ worker'[w].episode = worker[w].episode /\ worker'[w].action = worker[w].action
         /\ \A v \in Workers \ {w} : worker'[v] = worker[v]
BY DEF Studio!Goes, PodInv, PodBase, PodWorkers, PodCalls

\* A worker that goes on with the job and the recording it has.
LEMMA PodHeldStands ==
  ASSUME PodInv, NEW w \in Workers, worker[w].at # "idle", UNCHANGED job,
         NEW at, NEW g, NEW info, Studio!Goes(w, at, g, info),
         g = worker[w].egressId \/ worker[w].action = "start"
  PROVE  PodHeld(w)'
<1>1. PodHeld(w) BY DEF PodInv, PodWorker
<1>2. /\ worker'[w].egressId = g /\ worker'[w].episode = worker[w].episode
      /\ worker'[w].action = worker[w].action
  BY PodGoing
<1>3. Studio!Holds(w)' <=> Studio!Holds(w) BY <1>2 DEF Studio!Holds, Studio!HasJob
<1> QED BY <1>1, <1>2, <1>3 DEF PodHeld

LEMMA PodKeepsCall ==
  ASSUME PodAssumption, PodInv, PodBase', PodCalm, PodEgress', NEW w \in Workers,
         UNCHANGED <<episode, job, object, deleting, sweep>>,
         \A v \in Workers \ {w} : worker'[v] = worker[v], PodWorker(w)'
  PROVE  PodInv'
<1>1. deleting' \in BOOLEAN BY DEF PodInv, PodBase, PodStore
<1>2. PodSwept' BY PodSweptStands DEF Studio!HasJob
<1> QED BY <1>1, <1>2, PodRestStands DEF PodInv

LEMMA PodKeepsList ==
  ASSUME PodAssumption, PodInv, NEW w \in Workers, Studio!List(w) PROVE PodInv'
<1>1. PodBase' BY PodList DEF PodInv, PodAssumption
<1>2. PodCalm /\ PodEgress' BY PodCalmSame DEF Studio!List, PodInv
<1>3. PICK e \in Episodes : e = worker[w].episode BY PodCalling DEF PodInv, Studio!List
<1>4. worker[w].action = "start" BY DEF PodInv, PodWorker, PodSeen, Studio!List
<1>5. PodEpisode(e) BY DEF PodInv
<1>6. PICK at, g, info :
        /\ Studio!Goes(w, at, g, info)
        /\ \/ at = "begin" /\ Studio!Adoptable(e) = {}
           \/ at = "apply" /\ g \in Studio!Adoptable(e) /\ info = egress[g].status
  BY <1>3 DEF Studio!List
<1>7. PodHeld(w)' BY <1>4, <1>6, PodHeldStands DEF Studio!List
<1>8. PodSeen(w)'
  <2>1. Studio!Adoptable(e)' = Studio!Adoptable(e) /\ UNCHANGED egress
       BY DEF Studio!List, Studio!Adoptable
  <2>2. /\ worker'[w].at = at /\ worker'[w].egressId = g /\ worker'[w].info = info
        /\ worker'[w].episode = e /\ worker'[w].action = "start"
    BY <1>3, <1>4, <1>6, PodGoing
  <2>3. at = "apply" => /\ egress[g].episode = e /\ egress[g].status # "failed"
                        /\ \A h \in Studio!Adoptable(e) : h = g
    BY <1>5, <1>6 DEF Studio!Adoptable, PodEpisode, PodKept
  <2>4. at \in {"begin", "apply"} BY <1>6
  <2> QED BY <1>6, <2>1, <2>2, <2>3, <2>4 DEF PodSeen
<1>9. PodWorker(w)' BY <1>7, <1>8 DEF PodWorker
<1>10. \A v \in Workers \ {w} : worker'[v] = worker[v] BY <1>6, PodGoing
<1>11. UNCHANGED <<episode, job, object, deleting, sweep>> BY DEF Studio!List
<1> QED BY <1>1, <1>2, <1>9, <1>10, <1>11, PodKeepsCall

LEMMA PodKeepsLook ==
  ASSUME PodAssumption, PodInv, NEW w \in Workers, Studio!Look(w) \/ Studio!BeginRefused(w)
       \/ Studio!Inspect(w)
  PROVE  PodInv'
<1>1. PodBase' BY PodLook DEF PodInv, PodAssumption
<1>2. PodCalm /\ PodEgress' BY PodCalmSame DEF Studio!Look, Studio!BeginRefused, Studio!Inspect,
          PodInv
<1>3. PICK e \in Episodes : e = worker[w].episode
  BY PodCalling DEF PodInv, Studio!Look, Studio!BeginRefused, Studio!Inspect
<1>4. PodSeen(w) BY DEF PodInv, PodWorker, Studio!Look, Studio!BeginRefused, Studio!Inspect
<1>5. UNCHANGED <<episode, job, object, deleting, sweep, egress>>
  BY DEF Studio!Look, Studio!BeginRefused, Studio!Inspect
<1>6. PICK at, g, info :
        /\ Studio!Goes(w, at, g, info)
        /\ \/ g = worker[w].egressId \/ worker[w].action = "start"
        /\ \/ at = "halt" /\ worker[w].at = "look" /\ g = worker[w].egressId
           \/ at = "apply" /\ worker[w].at = "look" /\ info = egress[g].status
              /\ g = worker[w].egressId
           \/ at = "release"
           \/ at = "complete" /\ worker[w].at = "apply" /\ worker[w].info = "complete"
              /\ g = worker[w].egressId /\ object[e] = g
  <2>1. CASE Studio!Look(w) BY <2>1 DEF Studio!Look
  <2>2. CASE Studio!BeginRefused(w) BY <2>2, <1>4 DEF Studio!BeginRefused, PodSeen
  <2>3. CASE Studio!Inspect(w) BY <2>3, <1>3 DEF Studio!Inspect
  <2> QED BY <2>1, <2>2, <2>3
<1>7. PodHeld(w)' BY <1>5, <1>6, PodHeldStands DEF Studio!Look, Studio!BeginRefused,
          Studio!Inspect
<1>8. PodSeen(w)'
  <2>1. /\ worker'[w].at = at /\ worker'[w].egressId = g /\ worker'[w].info = info
        /\ worker'[w].episode = e /\ worker'[w].action = worker[w].action
    BY <1>3, <1>6, PodGoing
  <2> QED BY <1>3, <1>4, <1>5, <1>6, <2>1 DEF PodSeen
<1>9. PodWorker(w)' BY <1>7, <1>8 DEF PodWorker
<1>10. \A v \in Workers \ {w} : worker'[v] = worker[v] BY <1>6, PodGoing
<1> QED BY <1>1, <1>2, <1>5, <1>9, <1>10, PodKeepsCall

LEMMA PodKeepsHalt ==
  ASSUME PodAssumption, PodInv, NEW w \in Workers, Studio!Halt(w) PROVE PodInv'
<1>1. PodBase' BY PodHalt DEF PodInv, PodAssumption
<1>2. PICK e \in Episodes : e = worker[w].episode BY PodCalling DEF PodInv, Studio!Halt
<1>3. PodSeen(w) BY DEF PodInv, PodWorker, Studio!Halt
<1>4. UNCHANGED <<episode, job, object, deleting, sweep>> BY DEF Studio!Halt
<1>5. PICK g : g = worker[w].egressId OBVIOUS
<1>6. g \in Studio!EgressIds BY <1>5, PodCalling DEF PodInv, Studio!Halt, Known
<1>7. PodCalm /\ PodEgress'
  <2>1. CASE egress[g].status = "running"
    <3>1. Studio!ProviderSets(g, "ending") BY <1>5, <2>1 DEF Studio!Halt
    <3> QED BY <1>6, <2>1, <3>1, PodCalmSets DEF PodInv, Studio!Going
  <2>2. CASE egress[g].status # "running"
    <3>1. UNCHANGED egress BY <1>5, <2>2 DEF Studio!Halt
    <3> QED BY <3>1, PodCalmSame DEF PodInv
  <2> QED BY <2>1, <2>2
<1>8. PICK at, info : Studio!Goes(w, at, g, info)
                      /\ (at = "release" \/ (at = "apply" /\ info = "ending"))
  BY <1>5 DEF Studio!Halt
<1>9. PodHeld(w)' BY <1>4, <1>5, <1>8, PodHeldStands DEF Studio!Halt
<1>10. PodSeen(w)'
  <2>1. /\ worker'[w].at = at /\ worker'[w].egressId = g /\ worker'[w].info = info
        /\ worker'[w].episode = e /\ worker'[w].action = worker[w].action
    BY <1>2, <1>8, PodGoing
  <2>2. egress[g].episode = e /\ worker[w].action # "start"
       BY <1>2, <1>3, <1>5 DEF PodSeen, Studio!Halt
  <2>3. egress'[g].episode = e BY <1>6, <1>7, <2>2 DEF PodCalm
  <2> QED BY <1>8, <2>1, <2>2, <2>3 DEF PodSeen
<1>11. PodWorker(w)' BY <1>9, <1>10 DEF PodWorker
<1>12. \A v \in Workers \ {w} : worker'[v] = worker[v] BY <1>8, PodGoing
<1> QED BY <1>1, <1>4, <1>7, <1>11, <1>12, PodKeepsCall

LEMMA PodKeepsBegin ==
  ASSUME PodAssumption, PodInv, NEW w \in Workers, Studio!Begin(w) PROVE PodInv'
<1>1. PodBase' BY PodBegin DEF PodInv, PodAssumption
<1>2. PICK e \in Episodes : e = worker[w].episode BY PodCalling DEF PodInv, Studio!Begin
<1>3. PICK g \in Studio!EgressIds :
        /\ egress[g].status = "unused"
        /\ egress' = [egress EXCEPT ![g] = [episode |-> e, status |-> "running"]]
        /\ Studio!Goes(w, "apply", g, "running") \/ Studio!Goes(w, "release", Studio!None, "none")
  BY <1>2 DEF Studio!Begin
<1>4. /\ egress'[g].status = "running" /\ egress'[g].episode = e
      /\ \A h \in Studio!EgressIds \ {g} : egress'[h] = egress[h]
      /\ egress[g].episode = Studio!None
  BY <1>3 DEF PodInv, PodBase, PodStore, PodEgress
<1>5. UNCHANGED <<episode, job, object, deleting, sweep>> BY DEF Studio!Begin
<1>6. /\ worker[w].action = "start" /\ Studio!Holds(w) /\ Studio!Adoptable(e) = {}
      /\ job[e].lease = w
      /\ job[e].action = "start"
  BY <1>2 DEF PodInv, PodWorker, PodHeld, PodSeen, Studio!Begin, Studio!Holds
<1>7. e # Studio!None BY PodNumbers DEF PodAssumption
<1>8. PodEgress' BY <1>4, <1>7 DEF PodInv, PodEgress
<1>9. Studio!Adoptable(e)' = {g} /\ \A f \in Episodes \ {e} : Studio!Adoptable(f)'
          = Studio!Adoptable(f)
  BY <1>3, <1>4, <1>6, <1>7, PodNumbers DEF Studio!Adoptable, PodAssumption
<1>10. \A h \in Studio!EgressIds : h # g => (Studio!Going(h)' <=> Studio!Going(h))
     BY <1>4 DEF Studio!Going
<1>11. \A f \in Episodes : (Studio!HasJob(f)' <=> Studio!HasJob(f))
           /\ (Studio!Exists(f)' <=> Studio!Exists(f))
  BY <1>5 DEF Studio!HasJob, Studio!Exists
<1>12. ASSUME NEW f \in Episodes PROVE PodEpisode(f)'
  <2>1. PodEpisode(f) BY DEF PodInv
  <2>2. PodJobbed(f)'
    <3>1. job[f].action \in {"monitor", "stop"} =>
            job[f].egressId \in Studio!EgressIds /\ job[f].egressId # g
      BY <1>3 DEF PodInv, PodBase, PodDocs, Known
    <3> QED BY <1>4, <1>5, <1>11, <2>1, <3>1 DEF PodEpisode, PodJobbed
  <2>3. PodRecorded(f)'
    <3>1. episode[f].media # Studio!None => episode[f].media \in Studio!EgressIds
      BY DEF PodInv, PodBase, PodDocs, PodRecords
    <3>2. episode[f].status \in {"ready", "published"} => episode[f].media # g
      BY <1>3, <2>1 DEF PodEpisode, PodRecorded
    <3> QED BY <1>4, <1>5, <1>11, <2>1, <3>1, <3>2 DEF PodEpisode, PodRecorded
  <2>4. PodKept(f)'
    <3>1. CASE f # e
      <4>1. Studio!Adoptable(f)' = Studio!Adoptable(f) /\ g \notin Studio!Adoptable(f)
        BY <1>3, <1>9, <3>1 DEF Studio!Adoptable
      <4>2. Studio!Adoptable(f) \subseteq Studio!EgressIds BY DEF Studio!Adoptable
      <4> QED BY <1>5, <1>10, <1>11, <2>1, <4>1, <4>2 DEF PodEpisode, PodKept
    <3>2. CASE f = e
      <4>1. Studio!HasJob(e) BY <1>6 DEF Studio!HasJob
      <4>2. episode[e].status \in {"recording", "processing"}
        BY <2>1, <3>2, <4>1 DEF PodEpisode, PodJobbed
      <4> QED BY <1>5, <1>6, <1>9, <1>11, <3>2, <4>1, <4>2 DEF PodKept, Studio!Exists
    <3> QED BY <3>1, <3>2
  <2> QED BY <2>2, <2>3, <2>4 DEF PodEpisode
<1>13. PodWorker(w)'
  <2>1. PICK at, x, info : Studio!Goes(w, at, x, info)
          /\ (at = "release" \/ (at = "apply" /\ x = g /\ info = "running"))
    BY <1>3
  <2>2. PodHeld(w)' BY <1>5, <1>6, <2>1, PodHeldStands DEF Studio!Begin
  <2>3. /\ worker'[w].at = at /\ worker'[w].egressId = x /\ worker'[w].info = info
        /\ worker'[w].episode = e
    BY <1>2, <2>1, PodGoing
  <2>4. PodSeen(w)' BY <1>4, <1>9, <2>1, <2>3 DEF PodSeen
  <2> QED BY <2>2, <2>4 DEF PodWorker
<1>14. ASSUME NEW v \in Workers \ {w} PROVE PodWorker(v)'
  <2>1. worker'[v] = worker[v] BY <1>3, PodGoing
  <2> SUFFICES ASSUME worker[v].at # "idle" PROVE PodWorker(v)'
    BY <2>1, PodWorkerIdle
  <2>2. PICK f \in Episodes : f = worker[v].episode BY PodCalling DEF PodInv
  <2>3. PodHeld(v) /\ PodSeen(v) BY DEF PodInv, PodWorker
  <2>4. PodHeld(v)' BY <1>5, <2>1, <2>3 DEF PodHeld, Studio!Holds, Studio!HasJob
  <2>5. PICK x : x = worker[v].egressId OBVIOUS
  <2>6. worker[v].at \in {"look", "halt", "apply", "complete"} => x \in Studio!EgressIds \ {g}
    BY <1>3, <2>5, PodCalling DEF PodInv, Known
  <2>7. worker[v].action = "start" => f # e
    BY <1>6, <2>2, <2>3 DEF PodHeld, Studio!Holds
  <2>8. f # e => Studio!Adoptable(f)' = Studio!Adoptable(f) BY <1>9
  <2>9. PodSeen(v)'
    BY <1>4, <1>5, <1>11, <2>1, <2>2, <2>3, <2>5, <2>6, <2>7, <2>8 DEF PodSeen
  <2> QED BY <2>4, <2>9 DEF PodWorker
<1>15. PodSwept' BY <1>5, PodSweptStands DEF Studio!HasJob
<1> QED BY <1>1, <1>8, <1>12, <1>13, <1>14, <1>15 DEF PodInv

LEMMA PodKeepsRelease ==
  ASSUME PodAssumption, PodInv, NEW w \in Workers, Studio!Release(w) PROVE PodInv'
<1>1. PodBase' BY PodRelease DEF PodInv, PodAssumption
<1>2. PodCalm /\ PodEgress' BY PodCalmSame DEF Studio!Release, PodInv
<1>3. PICK e \in Episodes : e = worker[w].episode BY PodCalling DEF PodInv, Studio!Release
<1>4. job[e] \in PodJobs BY DEF PodInv, PodBase, PodDocs
<1>5. /\ UNCHANGED <<episode, object, deleting, sweep, egress>>
      /\ worker'[w].at = "idle" /\ \A v \in Workers \ {w} : worker'[v] = worker[v]
  BY DEF Studio!Release, Studio!Rests, Studio!IdleWorker, PodInv, PodBase, PodWorkers
<1>6. CASE ~Studio!Holds(w)
  <2>1. UNCHANGED job BY <1>6 DEF Studio!Release
  <2> QED BY <1>1, <1>2, <1>5, <2>1, PodWorkerIdle, PodKeepsCall
<1>7. CASE Studio!Holds(w)
  <2>1. /\ job'[e].action = job[e].action /\ job'[e].egressId = job[e].egressId
        /\ job'[e].lease = Studio!None /\ \A f \in Episodes \ {e} : job'[f] = job[f]
    BY <1>3, <1>4, <1>7 DEF Studio!Release, PodInv, PodBase, PodDocs, PodJobs
  <2>2. \A f \in Episodes : Studio!HasJob(f)' <=> Studio!HasJob(f) BY <2>1 DEF Studio!HasJob
  <2>3. deleting' \in BOOLEAN BY <1>5 DEF PodInv, PodBase, PodStore
  <2>4. \A f \in Episodes : PodEpisode(f)' BY <1>2, <1>5, <2>1, <2>3, PodEpisodeStands
  <2>5. \A v \in Workers \ {w} : worker[v].at # "idle" /\ worker[v].episode = e =>
          worker[v].action # "start"
    BY <1>3, <1>7 DEF PodInv, PodWorker, PodHeld, Studio!Holds
  <2>6. \A v \in Workers \ {w} : PodWorker(v)' BY <1>2, <1>5, <2>1, <2>2, <2>5, PodJobGoes
  <2>7. PodSwept' BY <1>5, <2>2, PodSweptStands
  <2> QED BY <1>1, <1>2, <1>5, <2>4, <2>6, <2>7, PodWorkerIdle DEF PodInv
<1> QED BY <1>6, <1>7

\* A worker that has the lease of a job is the only one that does.
LEMMA PodAloneHolds ==
  ASSUME PodInv, NEW w \in Workers, Studio!Holds(w), NEW e, e = worker[w].episode
  PROVE  \A v \in Workers \ {w} : worker[v].at # "idle" /\ worker[v].episode = e =>
           worker[v].action # "start"
BY DEF PodInv, PodWorker, PodHeld, Studio!Holds

LEMMA PodKeepsFailed ==
  ASSUME PodAssumption, PodInv, NEW w \in Workers, Studio!ApplyFailed(w) PROVE PodInv'
<1>1. PICK e \in Episodes : e = worker[w].episode BY PodCalling DEF PodInv, Studio!ApplyFailed
<1>2. /\ UNCHANGED <<object, deleting, sweep, egress>>
      /\ worker'[w].at = "idle" /\ \A v \in Workers \ {w} : worker'[v] = worker[v]
  BY DEF Studio!ApplyFailed, Studio!Rests, Studio!IdleWorker, PodInv, PodBase, PodWorkers
<1>3. PodCalm /\ PodEgress' BY <1>2, PodCalmSame DEF PodInv
<1>4. PodBase /\ Studio!PodcastAssumption BY DEF PodInv, PodAssumption
<1>5. PodBase' BY <1>1, <1>4, PodApplyFailed
<1>6. CASE ~(Studio!Holds(w) /\ Studio!StateIsOf(e))
  <2>1. UNCHANGED <<episode, job>> BY <1>1, <1>4, <1>6, PodApplyFailed
  <2> QED BY <1>2, <1>3, <1>5, <2>1, PodWorkerIdle, PodKeepsCall
<1>7. CASE Studio!Holds(w) /\ Studio!StateIsOf(e)
  <2>1. /\ episode'[e].status = "error" /\ job'[e] = Studio!NoJob
        /\ \A f \in Episodes \ {e} : episode'[f] = episode[f] /\ job'[f] = job[f]
    BY <1>1, <1>4, <1>7, PodApplyFailed
  <2>2. job'[e].action = "none" /\ job'[e].lease = Studio!None BY <2>1 DEF Studio!NoJob
  <2>3. Studio!Adoptable(e) = {}
    <3>1. PICK g : g = worker[w].egressId OBVIOUS
    <3>2. PodHeld(w) /\ PodSeen(w) BY DEF PodInv, PodWorker, Studio!ApplyFailed
    <3>3. egress[g].status = "failed" /\ worker[w].action # "start"
      BY <3>1, <3>2 DEF PodSeen, Studio!ApplyFailed
    <3>4. g = job[e].egressId /\ job[e].action # "start" /\ Studio!HasJob(e)
      BY <1>1, <1>7, <3>1, <3>2, <3>3 DEF PodHeld, Studio!Holds
    <3>5. job[e].action \in {"monitor", "stop"}
      BY <3>4 DEF PodInv, PodBase, PodDocs, PodJobs, Studio!HasJob
    <3>6. \A h \in Studio!Adoptable(e) : h = g BY <3>4, <3>5 DEF PodInv, PodEpisode, PodKept
    <3> QED BY <3>3, <3>6 DEF Studio!Adoptable
  <2>4. Studio!Adoptable(e)' = {} BY <1>2, <2>3 DEF Studio!Adoptable
  <2>5. PodEpisode(e)'
    BY <2>1, <2>2, <2>4
       DEF PodEpisode, PodJobbed, PodKept, PodRecorded, Studio!HasJob, Studio!Exists
  <2>6. \A f \in Episodes \ {e} : PodEpisode(f)' BY <1>2, <1>3, <2>1, PodOthersStand
  <2>7. \A f \in Episodes : Studio!HasJob(f)' => Studio!HasJob(f) BY <2>1, <2>2 DEF Studio!HasJob
  <2>8. \A v \in Workers \ {w} : PodWorker(v)'
    BY <1>1, <1>2, <1>3, <1>7, <2>1, <2>2, <2>7, PodAloneHolds, PodJobGoes
  <2>9. PodSwept' BY <1>2, <2>7, PodSweptStands
  <2> QED BY <1>2, <1>3, <1>5, <2>5, <2>6, <2>8, <2>9, PodWorkerIdle DEF PodInv
<1> QED BY <1>6, <1>7

LEMMA PodKeepsComplete ==
  ASSUME PodAssumption, PodInv, NEW w \in Workers, Studio!Complete(w) PROVE PodInv'
<1>1. PICK e \in Episodes : e = worker[w].episode BY PodCalling DEF PodInv, Studio!Complete
<1>2. UNCHANGED <<object, deleting, sweep, egress>> BY DEF Studio!Complete
<1>3. PodCalm /\ PodEgress' BY <1>2, PodCalmSame DEF PodInv
<1>4. PodBase /\ Studio!PodcastAssumption BY DEF PodInv, PodAssumption
<1>5. PodBase' BY <1>1, <1>4, PodComplete
<1>6. PICK g : g = worker[w].egressId OBVIOUS
<1>7. PodHeld(w) /\ PodSeen(w) BY DEF PodInv, PodWorker, Studio!Complete
<1>8. g \in Studio!EgressIds /\ egress[g].status = "complete" /\ egress[g].episode = e
      /\ (Studio!HasJob(e) => object[e] = g)
  BY <1>1, <1>6, <1>7, PodCalling DEF PodInv, PodSeen, Studio!Complete, Known
<1>9. CASE ~Completes(w, e)
  <2>1. UNCHANGED <<episode, job>> /\ (Studio!Rests(w) \/ Studio!Goes(w, "release", g, "none"))
    BY <1>1, <1>4, <1>6, <1>9, PodComplete
  <2>2. CASE Studio!Rests(w)
    <3>1. worker'[w].at = "idle" /\ \A v \in Workers \ {w} : worker'[v] = worker[v]
      BY <2>2 DEF Studio!Rests, Studio!IdleWorker, PodInv, PodBase, PodWorkers
    <3> QED BY <1>2, <1>3, <1>5, <2>1, <3>1, PodWorkerIdle, PodKeepsCall
  <2>3. CASE Studio!Goes(w, "release", g, "none")
    <3>1. PodHeld(w)' BY <1>6, <2>1, <2>3, PodHeldStands DEF Studio!Complete
    <3>2. worker'[w].at = "release" /\ \A v \in Workers \ {w} : worker'[v] = worker[v]
      BY <2>3, PodGoing
    <3>3. PodSeen(w)' BY <3>2 DEF PodSeen
    <3>4. PodWorker(w)' BY <3>1, <3>3 DEF PodWorker
    <3> QED BY <1>2, <1>3, <1>5, <2>1, <3>2, <3>4, PodKeepsCall
  <2> QED BY <2>1, <2>2, <2>3
<1>10. CASE Completes(w, e)
  <2>1. /\ episode'[e].status = "ready" /\ episode'[e].egressId = g
        /\ episode'[e].media = object[e] /\ job'[e] = Studio!NoJob /\ Studio!Rests(w)
        /\ \A f \in Episodes \ {e} : episode'[f] = episode[f] /\ job'[f] = job[f]
    BY <1>1, <1>4, <1>6, <1>10, PodComplete
  <2>2. worker'[w].at = "idle" /\ \A v \in Workers \ {w} : worker'[v] = worker[v]
    BY <2>1 DEF Studio!Rests, Studio!IdleWorker, PodInv, PodBase, PodWorkers
  <2>3. job'[e].action = "none" /\ job'[e].lease = Studio!None BY <2>1 DEF Studio!NoJob
  <2>4. Studio!Holds(w) /\ Studio!HasJob(e) BY <1>1, <1>10 DEF Completes, Studio!Holds
  <2>5. object[e] = g BY <1>8, <2>4
  <2>6. \A h \in Studio!Adoptable(e) : h = g
    <3>1. g \in Studio!Adoptable(e) BY <1>8 DEF Studio!Adoptable
    <3> QED BY <3>1 DEF PodInv, PodEpisode, PodKept
  <2>7. Studio!Adoptable(e)' = Studio!Adoptable(e) BY <1>2 DEF Studio!Adoptable
  <2>8. \A h \in Studio!Adoptable(e)' : ~Studio!Going(h)'
       BY <1>2, <1>8, <2>6, <2>7 DEF Studio!Going
  <2>9. PodJobbed(e)' BY <2>1, <2>3 DEF PodJobbed, Studio!HasJob
  <2>10. PodKept(e)' BY <2>1, <2>3, <2>6, <2>7, <2>8 DEF PodKept, Studio!HasJob, Studio!Exists
  <2>11. PodRecorded(e)'
    BY <1>2, <1>8, <2>1, <2>5, PodNumbers DEF PodRecorded, Studio!Exists, PodAssumption
  <2>12. \A f \in Episodes \ {e} : PodEpisode(f)' BY <1>2, <1>3, <2>1, PodOthersStand
  <2>13. \A f \in Episodes : Studio!HasJob(f)' => Studio!HasJob(f) BY <2>1, <2>3 DEF Studio!HasJob
  <2>14. \A v \in Workers \ {w} : PodWorker(v)'
    BY <1>1, <1>2, <1>3, <2>1, <2>2, <2>3, <2>4, <2>13, PodAloneHolds, PodJobGoes
  <2>15. PodSwept' BY <1>2, <2>13, PodSweptStands
  <2> QED
    BY <1>3, <1>5, <2>2, <2>9, <2>10, <2>11, <2>12, <2>14, <2>15, PodWorkerIdle
       DEF PodInv, PodEpisode
<1> QED BY <1>9, <1>10

LEMMA PodKeepsRunning ==
  ASSUME PodAssumption, PodInv, NEW w \in Workers, Studio!ApplyRunning(w) PROVE PodInv'
<1>1. PICK e \in Episodes : e = worker[w].episode BY PodCalling DEF PodInv, Studio!ApplyRunning
<1>2. /\ UNCHANGED <<object, deleting, sweep, egress>>
      /\ worker'[w].at = "idle" /\ \A v \in Workers \ {w} : worker'[v] = worker[v]
  BY DEF Studio!ApplyRunning, Studio!Rests, Studio!IdleWorker, PodInv, PodBase, PodWorkers
<1>3. PodCalm /\ PodEgress' BY <1>2, PodCalmSame DEF PodInv
<1>4. PodBase /\ Studio!PodcastAssumption BY DEF PodInv, PodAssumption
<1>5. PodBase' BY <1>1, <1>4, PodApplyRunning
<1>6. CASE ~(Studio!Holds(w) /\ Studio!StateIsOf(e))
  <2>1. UNCHANGED <<episode, job>> BY <1>1, <1>4, <1>6, PodApplyRunning
  <2> QED BY <1>2, <1>3, <1>5, <2>1, PodWorkerIdle, PodKeepsCall
<1>7. CASE Studio!Holds(w) /\ Studio!StateIsOf(e)
  <2>1. PICK g : g = worker[w].egressId OBVIOUS
  <2>2. /\ episode'[e].status \in {"recording", "processing"}
        /\ job'[e].action \in {"monitor", "stop"} /\ job'[e].lease = Studio!None
        /\ job'[e].egressId = g
        /\ \A f \in Episodes \ {e} : episode'[f] = episode[f] /\ job'[f] = job[f]
    BY <1>1, <1>4, <1>7, <2>1, PodApplyRunning
  <2>3. PodHeld(w) /\ PodSeen(w) BY DEF PodInv, PodWorker, Studio!ApplyRunning
  <2>4. egress[g].episode = e BY <1>1, <2>1, <2>3 DEF PodSeen, Studio!ApplyRunning
  <2>5. PodKept(e) BY DEF PodInv, PodEpisode
  <2>6. Studio!HasJob(e) BY <1>1, <1>7 DEF Studio!Holds
  <2>7. \A h \in Studio!Adoptable(e) : h = g
    <3>1. CASE worker[w].action = "start"
         BY <1>1, <2>1, <2>3, <3>1 DEF PodSeen, Studio!ApplyRunning
    <3>2. CASE worker[w].action # "start"
      <4>1. g = job[e].egressId /\ job[e].action # "start"
        BY <1>1, <1>7, <2>1, <2>3, <3>2 DEF PodHeld
      <4>2. job[e].action \in {"monitor", "stop"}
        BY <2>6, <4>1 DEF PodInv, PodBase, PodDocs, PodJobs, Studio!HasJob
      <4> QED BY <2>5, <4>1, <4>2 DEF PodKept
    <3> QED BY <3>1, <3>2
  <2>8. Studio!Adoptable(e)' = Studio!Adoptable(e) BY <1>2 DEF Studio!Adoptable
  <2>9. PodJobbed(e)' BY <1>2, <2>2, <2>4 DEF PodJobbed, Studio!HasJob
  <2>10. PodKept(e)' BY <2>2, <2>7, <2>8 DEF PodKept, Studio!HasJob, Studio!Exists
  <2>11. PodRecorded(e)' BY <2>2 DEF PodRecorded, Studio!Exists
  <2>12. \A f \in Episodes \ {e} : PodEpisode(f)' BY <1>2, <1>3, <2>2, PodOthersStand
  <2>13. \A f \in Episodes : Studio!HasJob(f)' => Studio!HasJob(f) BY <2>2, <2>6 DEF Studio!HasJob
  <2>14. \A v \in Workers \ {w} : PodWorker(v)'
    BY <1>1, <1>2, <1>3, <1>7, <2>2, <2>13, PodAloneHolds, PodJobGoes
  <2>15. PodSwept' BY <1>2, <2>13, PodSweptStands
  <2> QED
    BY <1>2, <1>3, <1>5, <2>9, <2>10, <2>11, <2>12, <2>14, <2>15, PodWorkerIdle
       DEF PodInv, PodEpisode
<1> QED BY <1>6, <1>7

LEMMA PodKeepsProvider ==
  ASSUME PodAssumption, PodInv, NEW g \in Studio!EgressIds,
         Studio!ProviderEnds(g) \/ Studio!ProviderCompletes(g) \/ Studio!ProviderFails(g)
  PROVE  PodInv'
<1>1. PodBase' BY PodProvider DEF PodInv, PodAssumption
<1>2. Studio!Going(g) BY DEF Studio!Going, Studio!ProviderEnds, Studio!ProviderCompletes,
          Studio!ProviderFails
<1>3. PodCalm /\ PodEgress'
  <2>1. PICK st \in {"ending", "complete", "failed"} : Studio!ProviderSets(g, st)
    BY DEF Studio!ProviderEnds, Studio!ProviderCompletes, Studio!ProviderFails
  <2> QED BY <1>2, <2>1, PodCalmSets DEF PodInv
<1>4. UNCHANGED <<episode, job, deleting, sweep, worker>>
  BY DEF Studio!ProviderEnds, Studio!ProviderCompletes, Studio!ProviderFails
<1>5. PICK e \in Episodes : e = egress[g].episode
  <2>1. egress[g].episode # Studio!None BY <1>2 DEF PodInv, PodEgress, Studio!Going
  <2> QED BY <2>1 DEF PodInv, PodBase, PodStore
<1>6. g \in Studio!Adoptable(e) BY <1>2, <1>5 DEF Studio!Adoptable, Studio!Going
<1>7. Studio!HasJob(e) /\ episode[e].status \in {"recording", "processing"}
  BY <1>2, <1>6 DEF PodInv, PodEpisode, PodKept, PodJobbed
<1>8. \A f \in Episodes \ {e} : object'[f] = object[f]
  BY <1>5
     DEF Studio!ProviderEnds, Studio!ProviderCompletes, Studio!ProviderFails, PodInv, PodBase,
         PodStore
<1>9. deleting' \in BOOLEAN BY <1>4 DEF PodInv, PodBase, PodStore
<1>10. \A f \in Episodes \ {e} : PodEpisode(f)' BY <1>3, <1>4, <1>8, <1>9, PodEpisodeStands
<1>11. PodEpisode(e)'
  <2>1. PodEpisode(e) BY DEF PodInv
  <2>2. job[e].action \in {"monitor", "stop"} => job[e].egressId \in Studio!EgressIds
    BY DEF PodInv, PodBase, PodDocs, Known
  <2>3. PodJobbed(e)' BY <1>3, <1>4, <2>1, <2>2 DEF PodEpisode, PodJobbed, Studio!HasJob, PodCalm
  <2>4. Studio!Adoptable(e)' \subseteq Studio!Adoptable(e) BY <1>3 DEF PodCalm
  <2>5. PodKept(e)' BY <1>4, <1>7, <2>1, <2>4 DEF PodEpisode, PodKept, Studio!HasJob,
            Studio!Exists
  <2>6. PodRecorded(e)' BY <1>4, <1>7 DEF PodRecorded, Studio!Exists
  <2> QED BY <2>3, <2>5, <2>6 DEF PodEpisode
<1>12. ASSUME NEW w \in Workers PROVE PodWorker(w)'
  <2> SUFFICES ASSUME worker[w].at # "idle" PROVE PodWorker(w)'
    BY <1>4, PodWorkerIdle
  <2>1. PICK f \in Episodes : f = worker[w].episode BY PodCalling DEF PodInv
  <2>2. (Studio!Holds(w)' <=> Studio!Holds(w)) /\ (Studio!HasJob(f)' <=> Studio!HasJob(f))
    BY <1>4, <2>1 DEF Studio!Holds, Studio!HasJob
  <2>3. worker[w].at = "complete" => f # e
    <3> SUFFICES ASSUME worker[w].at = "complete", f = e PROVE FALSE
      OBVIOUS
    <3>1. PodSeen(w) BY DEF PodInv, PodWorker
    <3>2. Known(worker[w].egressId) BY PodCalling DEF PodInv
    <3>3. worker[w].egressId \in Studio!Adoptable(e)
              /\ egress[worker[w].egressId].status = "complete"
      BY <2>1, <3>1, <3>2 DEF PodSeen, Known, Studio!Adoptable
    <3>4. worker[w].egressId = g BY <1>6, <3>3 DEF PodInv, PodEpisode, PodKept
    <3> QED BY <1>2, <3>3, <3>4 DEF Studio!Going
  <2> QED BY <1>3, <1>4, <1>8, <2>1, <2>2, <2>3, PodWorkerStands
<1>13. PodSwept'
  <2>1. sweep.at # "idle" => sweep.episode \in Episodes \ {e}
    BY <1>7 DEF PodInv, PodSwept, PodBase, PodReaders
  <2> QED BY <1>4, <1>8, <2>1 DEF PodInv, PodSwept, Studio!HasJob
<1> QED BY <1>1, <1>3, <1>10, <1>11, <1>12, <1>13 DEF PodInv

LEMMA PodKeepsQuiet ==
  ASSUME PodAssumption, PodInv,
         \/ \E e \in Episodes : Studio!OpenSession(e)
         \/ Studio!EndSession \/ Studio!Delete \/ Studio!SweepCrash
         \/ \E w \in Workers : Studio!Crash(w)
         \/ Studio!Listener
         \/ UNCHANGED Studio!vars
  PROVE  PodInv'
<1>1. PodBase /\ Studio!PodcastAssumption BY DEF PodInv, PodAssumption
<1>2. PodBase' BY <1>1, PodQuiet, PodListens, PodBaseStep DEF Studio!vars
<1>3. UNCHANGED <<episode, job, egress, object>>
  BY <1>1, PodQuiet, PodListens DEF Studio!vars
<1>4. PodCalm /\ PodEgress' BY <1>3, PodCalmSame DEF PodInv
<1>10. Studio!Listener => UNCHANGED <<deleting, sweep, worker>> BY <1>1, PodListens
<1>5. /\ deleting => deleting'
      /\ deleting' \in BOOLEAN
      /\ sweep' = sweep \/ sweep'.at = "idle"
  <2>1. deleting \in BOOLEAN BY <1>1 DEF PodBase, PodStore
  <2>2. UNCHANGED deleting \/ Studio!Delete
    BY <1>10
       DEF Studio!OpenSession, Studio!EndSession, Studio!SweepCrash, Studio!Crash, Studio!vars
  <2>4. Studio!Delete => deleting' = TRUE BY DEF Studio!Delete
  <2>3. sweep' = sweep \/ sweep' = Studio!IdleSweep
    BY <1>10
       DEF Studio!OpenSession, Studio!EndSession, Studio!Delete, Studio!SweepCrash,
           Studio!Crash, Studio!vars
  <2>5. sweep' = sweep \/ sweep'.at = "idle" BY <2>3 DEF Studio!IdleSweep
  <2>6. deleting => deleting' BY <2>2, <2>4
  <2>7. deleting' \in BOOLEAN BY <2>1, <2>2, <2>4
  <2> QED BY <2>5, <2>6, <2>7
<1>6. \A w \in Workers : worker'[w] = worker[w] \/ worker'[w].at = "idle"
  <2>1. UNCHANGED worker \/ \E w \in Workers : Studio!Rests(w)
    BY <1>10
       DEF Studio!OpenSession, Studio!EndSession, Studio!Delete, Studio!SweepCrash,
           Studio!Crash, Studio!vars
  <2>2. CASE UNCHANGED worker BY <2>2
  <2>3. CASE \E w \in Workers : Studio!Rests(w)
    <3>1. PICK w \in Workers : Studio!Rests(w) BY <2>3
    <3>2. worker' = [worker EXCEPT ![w] = Studio!IdleWorker] BY <3>1 DEF Studio!Rests
    <3>3. worker \in [Workers -> PodCalls] BY <1>1 DEF PodBase, PodWorkers
    <3>4. worker'[w].at = "idle" BY <3>2, <3>3 DEF Studio!IdleWorker
    <3>5. \A v \in Workers \ {w} : worker'[v] = worker[v] BY <3>2, <3>3
    <3> QED BY <3>4, <3>5
  <2> QED BY <2>1, <2>2, <2>3
<1>7. \A e \in Episodes : PodEpisode(e)' BY <1>3, <1>4, <1>5, PodRestStands
<1>8. \A w \in Workers : PodWorker(w)'
  BY <1>3, <1>4, <1>5, <1>6, PodRestStands, PodWorkerIdle
<1>9. PodSwept' BY <1>3, <1>5 DEF PodInv, PodSwept, Studio!HasJob
<1> QED BY <1>2, <1>4, <1>7, <1>8, <1>9 DEF PodInv

LEMMA PodKeepsTaking ==
  ASSUME PodAssumption, PodInv, NEW e \in Episodes, Studio!SweepTakes(e) PROVE PodInv'
<1>1. PodBase' BY PodSweepTakes DEF PodInv, PodAssumption
<1>2. UNCHANGED <<episode, job, egress, object, deleting, worker>> BY DEF Studio!SweepTakes
<1>3. PodCalm /\ PodEgress' BY <1>2, PodCalmSame DEF PodInv
<1>4. deleting' \in BOOLEAN BY <1>2 DEF PodInv, PodBase, PodStore
<1>5. PodSwept' BY <1>2 DEF PodSwept, Studio!SweepTakes, Studio!Page, Studio!HasJob
<1> QED BY <1>1, <1>2, <1>3, <1>4, <1>5, PodRestStands DEF PodInv

LEMMA PodKeepsBytes ==
  ASSUME PodAssumption, PodInv, Studio!SweepBytes PROVE PodInv'
<1>1. PodBase /\ Studio!PodcastAssumption BY DEF PodInv, PodAssumption
<1>2. UNCHANGED <<episode, job, egress, deleting, worker>> BY DEF Studio!SweepBytes
<1>3. PodCalm /\ PodEgress' BY <1>2, PodCalmSame DEF PodInv
<1>4. deleting' \in BOOLEAN BY <1>2 DEF PodInv, PodBase, PodStore
<1>5. PICK e \in Episodes : e = sweep.episode
     BY DEF Studio!SweepBytes, PodInv, PodBase, PodReaders
<1>6. deleting /\ ~Studio!HasJob(e) BY <1>5 DEF PodInv, PodSwept, Studio!SweepBytes
<1>7. PodBase' BY <1>1, PodSweepBytes
<1>8. CASE object' = object /\ sweep'.at = "idle"
  <2>1. PodSwept' BY <1>8 DEF PodSwept
  <2> QED BY <1>2, <1>3, <1>4, <1>7, <1>8, <2>1, PodRestStands DEF PodInv
<1>9. CASE object' = [object EXCEPT ![e] = Studio!None] /\ sweep'.at = "settle"
          /\ sweep'.episode = e
  <2>1. object'[e] = Studio!None /\ \A f \in Episodes \ {e} : object'[f] = object[f]
    BY <1>9 DEF PodInv, PodBase, PodStore
  <2>2. \A f \in Episodes \ {e} : PodEpisode(f)' BY <1>2, <1>3, <1>4, <2>1, PodEpisodeStands
  <2>3. PodEpisode(e)'
    <3>1. PodEpisode(e) BY DEF PodInv
    <3>2. Studio!Adoptable(e)' = Studio!Adoptable(e) BY <1>2 DEF Studio!Adoptable
    <3>3. PodJobbed(e)' BY <1>2, <3>1 DEF PodEpisode, PodJobbed, Studio!HasJob
    <3>4. PodKept(e)' BY <1>2, <3>1, <3>2 DEF PodEpisode, PodKept, Studio!HasJob, Studio!Exists,
              Studio!Going
    <3>5. PodRecorded(e)' BY <1>2, <1>6, <2>1, <3>1 DEF PodEpisode, PodRecorded, Studio!Exists
    <3> QED BY <3>3, <3>4, <3>5 DEF PodEpisode
  <2>4. ASSUME NEW w \in Workers PROVE PodWorker(w)'
    <3> SUFFICES ASSUME worker[w].at # "idle" PROVE PodWorker(w)'
      BY <1>2, PodWorkerIdle
    <3>1. PICK f \in Episodes : f = worker[w].episode BY PodCalling DEF PodInv
    <3>2. (Studio!Holds(w)' <=> Studio!Holds(w)) /\ (Studio!HasJob(f)' <=> Studio!HasJob(f))
      BY <1>2, <3>1 DEF Studio!Holds, Studio!HasJob
    <3> QED BY <1>2, <1>3, <1>6, <2>1, <3>1, <3>2, PodWorkerStands
  <2>5. PodSwept' BY <1>2, <1>6, <1>9, <2>1 DEF PodSwept, Studio!HasJob
  <2> QED BY <1>3, <1>7, <2>2, <2>3, <2>4, <2>5 DEF PodInv
<1> QED BY <1>1, <1>5, <1>8, <1>9, PodSweepBytes

LEMMA PodKeepsSettling ==
  ASSUME PodAssumption, PodInv, Studio!SweepSettles PROVE PodInv'
<1>1. PodBase /\ Studio!PodcastAssumption BY DEF PodInv, PodAssumption
<1>2. UNCHANGED <<job, egress, object, deleting, worker>> BY DEF Studio!SweepSettles
<1>3. PodCalm /\ PodEgress' BY <1>2, PodCalmSame DEF PodInv
<1>4. deleting' \in BOOLEAN BY <1>2 DEF PodInv, PodBase, PodStore
<1>5. PICK e \in Episodes : e = sweep.episode
     BY DEF Studio!SweepSettles, PodInv, PodBase, PodReaders
<1>6. deleting /\ object[e] = Studio!None BY <1>5 DEF PodInv, PodSwept, Studio!SweepSettles
<1>7. PodBase' /\ sweep'.at = "idle" BY <1>1, PodSweepSettles
<1>8. PodSwept' BY <1>7 DEF PodSwept
<1>9. CASE UNCHANGED episode
  BY <1>2, <1>3, <1>4, <1>7, <1>8, <1>9, PodRestStands DEF PodInv
<1>10. CASE episode'[e] = Studio!NoEpisode /\ ~Studio!HasJob(e)
            /\ \A f \in Episodes \ {e} : episode'[f] = episode[f]
  <2>1. \A f \in Episodes \ {e} : PodEpisode(f)' BY <1>2, <1>3, <1>10, PodOthersStand
  <2>2. episode'[e].status = "none" BY <1>10 DEF Studio!NoEpisode
  <2>3. PodEpisode(e)'
    <3>1. PodEpisode(e) BY DEF PodInv
    <3>2. Studio!Adoptable(e)' = Studio!Adoptable(e) BY <1>2 DEF Studio!Adoptable
    <3>3. PodJobbed(e)' BY <1>2, <1>10, <2>2, <3>1 DEF PodEpisode, PodJobbed, Studio!HasJob
    <3>4. PodKept(e)'
      BY <1>2, <1>6, <2>2, <3>1, <3>2
         DEF PodEpisode, PodKept, Studio!HasJob, Studio!Exists, Studio!Going
    <3>5. PodRecorded(e)' BY <1>2, <1>6, <2>2 DEF PodRecorded, Studio!Exists
    <3> QED BY <3>3, <3>4, <3>5 DEF PodEpisode
  <2>4. ASSUME NEW w \in Workers PROVE PodWorker(w)'
    <3> SUFFICES ASSUME worker[w].at # "idle" PROVE PodWorker(w)'
      BY <1>2, PodWorkerIdle
    <3>1. PICK f : f = worker[w].episode OBVIOUS
    <3>2. (Studio!Holds(w)' <=> Studio!Holds(w)) /\ (Studio!HasJob(f)' <=> Studio!HasJob(f))
      BY <1>2, <3>1 DEF Studio!Holds, Studio!HasJob
    <3> QED BY <1>2, <1>3, <3>1, <3>2, PodWorkerStands
  <2> QED BY <1>3, <1>7, <1>8, <2>1, <2>3, <2>4 DEF PodInv
<1> QED BY <1>1, <1>5, <1>9, <1>10, PodSweepSettles

LEMMA PodInvInit == ASSUME PodAssumption, Studio!Init PROVE PodInv
<1>1. PodBase BY PodBaseInit DEF PodAssumption
<1>2. /\ \A g \in Studio!EgressIds : egress[g].status = "unused"
          /\ egress[g].episode = Studio!None
      /\ \A e \in Episodes : episode[e].status = "none" /\ job[e].action = "none"
                             /\ object[e] = Studio!None
      /\ \A w \in Workers : worker[w].at = "idle"
      /\ sweep.at = "idle"
  BY DEF Studio!Init, Studio!NoEpisode, Studio!NoJob, Studio!IdleWorker, Studio!IdleSweep
<1>3. \A e \in Episodes : Studio!Adoptable(e) = {} BY <1>2 DEF Studio!Adoptable
<1>4. PodEgress /\ PodSwept BY <1>2 DEF PodEgress, PodSwept
<1>5. \A e \in Episodes : PodEpisode(e)
  BY <1>2, <1>3 DEF PodEpisode, PodJobbed, PodKept, PodRecorded, Studio!HasJob, Studio!Exists
<1>6. \A w \in Workers : PodWorker(w) BY <1>2 DEF PodWorker
<1> QED BY <1>1, <1>4, <1>5, <1>6 DEF PodInv

LEMMA PodInvStep == ASSUME PodAssumption, PodInv, [Studio!Next]_Studio!vars PROVE PodInv'
<1>1. ASSUME NEW w \in Workers, Studio!WorkerStep(w) PROVE PodInv'
  BY <1>1, PodKeepsList, PodKeepsBegin, PodKeepsLook, PodKeepsHalt, PodKeepsRelease,
     PodKeepsFailed, PodKeepsComplete, PodKeepsRunning
     DEF Studio!WorkerStep
<1>2. CASE Studio!Moderator
  BY <1>2, PodKeepsStart, PodKeepsStop, PodKeepsRetry, PodKeepsPublish, PodKeepsQuiet
     DEF Studio!Moderator
<1>3. CASE Studio!Provider BY <1>3, PodKeepsProvider DEF Studio!Provider
<1>4. CASE Studio!Cleanup
  BY <1>4, PodKeepsStop, PodKeepsTaking, PodKeepsBytes, PodKeepsSettling DEF Studio!Cleanup
<1> QED
  BY <1>1, <1>2, <1>3, <1>4, PodKeepsClaim, PodKeepsLapse, PodKeepsQuiet DEF Studio!Next

(* The strengthening is an invariant of every callable, worker step, provider answer,
   crash and page of the cleanup, while a worker ends before its lease does. *)
THEOREM PodInvariant == ASSUME PodAssumption PROVE Studio!Spec => []PodInv
<1>1. Studio!Init => PodInv BY PodInvInit
<1>2. PodInv /\ [Studio!Next]_Studio!vars => PodInv' BY PodInvStep
<1> QED BY <1>1, <1>2, PTL DEF Studio!Spec

LEMMA PodGoingOnes ==
  ASSUME PodInv, NEW g \in Studio!EgressIds, Studio!Going(g)
  PROVE  /\ egress[g].episode \in Episodes /\ g \in Studio!Adoptable(egress[g].episode)
         /\ Studio!HasJob(egress[g].episode)
<1>1. egress[g].episode # Studio!None BY DEF PodInv, PodEgress, Studio!Going
<1>2. egress[g].episode \in Episodes BY <1>1 DEF PodInv, PodBase, PodStore
<1>3. g \in Studio!Adoptable(egress[g].episode) BY DEF Studio!Adoptable, Studio!Going
<1> QED BY <1>2, <1>3 DEF PodInv, PodEpisode, PodKept

(* Every recording the provider still has under way belongs to an episode whose job
   will find it again: no lost answer, crash or cleanup leaves one behind. *)
THEOREM RecordingsNeverStrand == ASSUME PodAssumption PROVE Studio!Spec => []Studio!NothingStrands
<1>1. ASSUME PodInv PROVE Studio!NothingStrands
  <2> SUFFICES ASSUME NEW g \in Studio!EgressIds, Studio!Going(g), NEW e, e = egress[g].episode
               PROVE  Studio!Exists(e) /\ (job[e].egressId = g \/ job[e].action = "start")
    BY DEF Studio!NothingStrands
  <2>1. e \in Episodes /\ g \in Studio!Adoptable(e) /\ Studio!HasJob(e) BY <1>1, PodGoingOnes
  <2>2. job[e] \in PodJobs /\ PodJobbed(e) /\ PodKept(e)
    BY <1>1, <2>1 DEF PodInv, PodEpisode, PodBase, PodDocs
  <2> QED BY <2>1, <2>2 DEF PodJobs, PodJobbed, PodKept, Studio!HasJob, Studio!Exists
<1> QED BY <1>1, PodInvariant, PTL

(* However many workers die or repeat a start, the provider never records an episode
   twice at once. *)
THEOREM OneRecordingPerEpisode == ASSUME PodAssumption PROVE Studio!Spec => []Studio!OneRecording
<1>1. ASSUME PodInv, NEW e \in Episodes PROVE Cardinality(Studio!RecordingsOf(e)) <= 1
  <2>1. Studio!RecordingsOf(e) \subseteq Studio!Adoptable(e)
       BY DEF Studio!RecordingsOf, Studio!Adoptable, Studio!Going
  <2>2. \A g, h \in Studio!RecordingsOf(e) : g = h BY <1>1, <2>1 DEF PodInv, PodEpisode, PodKept
  <2>3. CASE Studio!RecordingsOf(e) = {} BY <2>3, FS_EmptySet
  <2>4. CASE Studio!RecordingsOf(e) # {}
    <3>1. PICK g \in Studio!RecordingsOf(e) : TRUE BY <2>4
    <3>2. Studio!RecordingsOf(e) = {g} BY <2>2, <3>1
    <3>3. Cardinality({g}) = 1 BY FS_Singleton
    <3>4. Cardinality(Studio!RecordingsOf(e)) = 1 BY <3>2, <3>3
    <3> QED BY <3>4
  <2> QED BY <2>3, <2>4
<1>2. ASSUME PodInv PROVE Studio!OneRecording
  BY <1>1, <1>2 DEF Studio!OneRecording, Studio!Cardinality, Cardinality
<1> QED BY <1>2, PodInvariant, PTL

(* The media of a finished episode is the object its own recording wrote. *)
THEOREM MediaAlwaysRecorded == ASSUME PodAssumption
PROVE Studio!Spec => []Studio!MediaIsTheRecording
<1>1. PodInv => Studio!MediaIsTheRecording
  BY DEF PodInv, PodEpisode, PodRecorded, Studio!MediaIsTheRecording
<1> QED BY <1>1, PodInvariant, PTL

(* A deleted episode leaves neither an audio object nor a recording that would write
   one. *)
THEOREM GoneStaysGone == ASSUME PodAssumption PROVE Studio!Spec => []Studio!GoneMeansGone
<1>1. ASSUME PodInv, NEW e \in Episodes, ~Studio!Exists(e)
      PROVE  object[e] = Studio!None /\ Studio!RecordingsOf(e) = {}
  <2>1. ~Studio!HasJob(e) /\ object[e] = Studio!None
    BY <1>1 DEF PodInv, PodEpisode, PodJobbed, PodRecorded, Studio!Exists
  <2> QED BY <1>1, <2>1, PodGoingOnes DEF Studio!RecordingsOf
<1>2. PodInv => Studio!GoneMeansGone BY <1>1 DEF Studio!GoneMeansGone
<1> QED BY <1>2, PodInvariant, PTL

=============================================================================
