----------------------------- MODULE VoiceCredit -----------------------------
(***************************************************************************)
(* From the provider's webhooks to the voice time of an achievement:       *)
(* functions/achievements/livekit_http.js and voice_webhook.js open and    *)
(* close sessions and merge their intervals into day ledgers, and the      *)
(* outbox trigger feeds engine.js, which counts each event once.           *)
(*                                                                         *)
(*   place, joinedAt, leftAt   what really happened in the provider's room *)
(*   finishedAt                when the provider closed a room             *)
(*   row        achievementVoiceSessions/{room sid, participant sid}       *)
(*   days       achievementVoiceDays/{user}: the moments already billed    *)
(*   outbox     achievementOutbox/{event id}, one per session              *)
(*   ledger     achievementEvents: the events the engine has applied       *)
(*   progress   achievementProgress/{user}.verifiedMetrics.voiceSeconds    *)
(*   sweep      a room_finished delivery that is under way                 *)
(*                                                                         *)
(* Time runs in half seconds: a webhook is stamped in whole seconds, a     *)
(* join to the millisecond.  A webhook may come late, again, in any order  *)
(* or never, but not after FreshFor.                                       *)
(***************************************************************************)
EXTENDS Integers, FiniteSets, FiniteSetsExt

CONSTANTS
  Sessions,      \* participant connections, by participant sid
  Users,
  Rooms,
  UserOf(_),
  RoomOf(_),
  Poisoned,      \* users whose stored day is malformed
  FreshFor,      \* MAX_WEBHOOK_EVENT_AGE_MS
  DayLength,     \* a UTC day
  MaxIntervals,  \* MAX_VOICE_INTERVALS_PER_DAY
  MaxSession,    \* DEFAULT_MAX_SESSION_SECONDS
  MaxTime,       \* bound: the clock
  MaxChanges,    \* bound: restrictions set or lifted
  None           \* absence

PositiveLengths ==
  {FreshFor, DayLength, MaxIntervals, MaxSession, MaxTime} \subseteq Nat \ {0}

VARIABLES now, place, joinedAt, leftAt, finishedAt, muted, seated, changes,
          row, days, outbox, ledger, progress, sweep

world == <<now, place, joinedAt, leftAt, finishedAt, muted, seated, changes>>
books == <<row, days, outbox>>
engine == <<ledger, progress>>
vars == <<world, books, engine, sweep>>

Times == 0 .. MaxTime
Seconds == 0 .. MaxTime
NoRow == [status |-> "none", credit |-> 0, closeAt |-> None]
Idle == [left |-> {}, all |-> {}, at |-> "no"]

TypeOK ==
  /\ now \in Times
  /\ place \in [Sessions -> {"out", "in", "gone"}]
  /\ joinedAt \in [Sessions -> Times \cup {None}]
  /\ leftAt \in [Sessions -> Times \cup {None}]
  /\ finishedAt \in [Rooms -> Times \cup {None}]
  /\ muted \in [Users -> BOOLEAN]
  /\ seated \in [Sessions -> BOOLEAN]
  /\ changes \in 0 .. MaxChanges
  /\ row \in [Sessions -> [status : {"none", "awaitingJoin", "open", "closed"},
                           credit : Seconds, closeAt : Times \cup {None}]]
  /\ days \in [Users -> SUBSET Times]
  /\ outbox \in [Sessions -> [status : {"none", "pending", "processed"}, delta : Seconds]]
  /\ ledger \subseteq Sessions
  /\ progress \in [Users -> Nat]
  /\ sweep \in [Rooms -> [left : SUBSET Sessions, all : SUBSET Sessions,
                          at : {"no", "loop", "done"}]]

--------------------------------
\* The provider.
Tick == now < MaxTime /\ now' = now + 1
        /\ UNCHANGED <<place, joinedAt, leftAt, finishedAt, muted, seated, changes,
                       books, engine, sweep>>

\* createdAt of a webhook, in whole seconds.
Stamp(t) == t - (t % 2)

Connects(s) ==
  /\ place[s] = "out" /\ finishedAt[RoomOf(s)] = None
  /\ place' = [place EXCEPT ![s] = "in"]
  /\ joinedAt' = [joinedAt EXCEPT ![s] = now]
  /\ seated' = [seated EXCEPT ![s] = TRUE]
  /\ UNCHANGED <<now, leftAt, finishedAt, muted, changes, books, engine, sweep>>

Disconnects(s) ==
  /\ place[s] = "in"
  /\ place' = [place EXCEPT ![s] = "gone"]
  /\ leftAt' = [leftAt EXCEPT ![s] = now]
  /\ UNCHANGED <<now, joinedAt, finishedAt, muted, seated, changes, books, engine, sweep>>

\* The room is closed when nobody is in it any more.
RoomEnds(r) ==
  /\ finishedAt[r] = None
  /\ \E s \in Sessions : RoomOf(s) = r /\ place[s] = "gone"
  /\ \A s \in Sessions : RoomOf(s) = r => place[s] # "in"
  /\ finishedAt' = [finishedAt EXCEPT ![r] = now]
  /\ UNCHANGED <<now, place, joinedAt, leftAt, muted, seated, changes, books, engine, sweep>>

\* The participant's row is taken away by the person or by a host.
Unseats(s) ==
  /\ seated[s] /\ changes < MaxChanges
  /\ seated' = [seated EXCEPT ![s] = FALSE]
  /\ changes' = changes + 1
  /\ UNCHANGED <<now, place, joinedAt, leftAt, finishedAt, muted, books, engine, sweep>>

Restricts(u) ==
  /\ changes < MaxChanges
  /\ muted' = [muted EXCEPT ![u] = ~@]
  /\ changes' = changes + 1
  /\ UNCHANGED <<now, place, joinedAt, leftAt, finishedAt, seated, books, engine, sweep>>

--------------------------------
\* receiveSignedLiveKitWebhook.
Fresh(t) == t # None /\ now - Stamp(t) <= FreshFor

DaysOf(cells) == {t \div DayLength : t \in cells}
OfDay(cells, d) == {t \in cells : t \div DayLength = d}

\* Runs of adjacent moments: the intervals a day document stores.
Intervals(cells) == {t \in cells : t - 1 \notin cells}

AddedSeconds(before, after, part) ==
  (Cardinality(after) \div 2) - (Cardinality(before) \div 2)

Saturated(cells) == Cardinality(Intervals(cells)) > MaxIntervals

\* mergeBillableInterval: a part that would overfill its day is not billed.
Fits(stored, part) == ~Saturated(stored \cup part)

\* closeVoiceSession: the billed moments of a session, none when the close is
\* stamped no later than the join.
Billed(s, at) ==
  LET end == IF at - joinedAt[s] > MaxSession THEN joinedAt[s] + MaxSession ELSE at
  IN  joinedAt[s] .. end - 1

\* planVoiceSessionCredit, day by day.
Credit(s, at) ==
  LET stored == days[UserOf(s)]
      seconds(d) == LET part == OfDay(Billed(s, at), d)
                        before == OfDay(stored, d)
                    IN  IF Fits(before, part)
                        THEN AddedSeconds(before, before \cup part, part) ELSE 0
  IN  MapThenSumSet(seconds, DaysOf(Billed(s, at)))

\* What a user's days hold after the interval was added to each of them.
DaysAfter(s, at) ==
  LET stored == days[UserOf(s)]
      part(d) == OfDay(Billed(s, at), d)
      fitting == {d \in DaysOf(Billed(s, at)) : Fits(OfDay(stored, d), part(d))}
  IN  stored \cup UNION {part(d) : d \in fitting}

--------------------------------
\* closeInTransaction throws for a close that is no later than the join, and
\* for a day document it cannot read; nothing is written then.
CanClose(s, at) == at > joinedAt[s] /\ UserOf(s) \notin Poisoned

\* Session, days and outbox record in one transaction.
closeInTransaction(s, at) ==
  /\ row' = [row EXCEPT ![s] = [status |-> "closed", credit |-> Credit(s, at),
                               closeAt |-> at]]
  /\ days' = [days EXCEPT ![UserOf(s)] = DaysAfter(s, at)]
  /\ outbox' = IF Credit(s, at) = 0 THEN outbox
               ELSE [outbox EXCEPT ![s] = [status |-> "pending", delta |-> Credit(s, at)]]

\* A session of an account that has been restricted closes without credit.
RejectsAuthority(s, at) ==
  /\ row' = [row EXCEPT ![s] = [status |-> "closed", credit |-> 0, closeAt |-> at]]
  /\ UNCHANGED <<days, outbox>>

\* An open session is closed by a leave or by the end of its room.
ClosesOpen(s, at) ==
  IF muted[UserOf(s)] THEN RejectsAuthority(s, at)
  ELSE CanClose(s, at) /\ closeInTransaction(s, at)

\* canonicalJoin: the room is live, the row of the participant is there and
\* the account is not restricted.  Whether the room is live in Firestore does
\* not depend on the provider's end of it.
canonicalJoin(s) == seated[s] /\ ~muted[UserOf(s)]

\* A join opens the session only when no row is there.
Opens(s) == row[s].status = "none"

recordJoin(s) ==
  /\ Fresh(joinedAt[s]) /\ canonicalJoin(s)
  /\ \/ /\ Opens(s)
        /\ row' = [row EXCEPT ![s].status = "open"]
        /\ UNCHANGED <<days, outbox>>
     \/ /\ row[s].status = "awaitingJoin" /\ CanClose(s, row[s].closeAt)
        /\ closeInTransaction(s, row[s].closeAt)
  /\ UNCHANGED <<world, engine, sweep>>

\* A leave without a join is parked: the join may come yet.
Parks(s) ==
  /\ row[s].status = "none"
  /\ row' = [row EXCEPT ![s] = [NoRow EXCEPT !.status = "awaitingJoin",
                                             !.closeAt = Stamp(leftAt[s])]]
  /\ UNCHANGED <<days, outbox>>

closeParticipant(s) ==
  /\ Fresh(leftAt[s])
  /\ \/ row[s].status = "open" /\ ClosesOpen(s, Stamp(leftAt[s]))
     \/ Parks(s)
  /\ UNCHANGED <<world, engine, sweep>>

--------------------------------
\* closeRoom reads the open sessions of the room once, and closes them one
\* transaction at a time.
closeRoom(r) ==
  /\ Fresh(finishedAt[r]) /\ sweep[r].at # "loop"
  /\ LET open == {s \in Sessions : RoomOf(s) = r /\ row[s].status = "open"}
     IN  sweep' = [sweep EXCEPT ![r] = [left |-> open, all |-> open, at |-> "loop"]]
  /\ UNCHANGED <<world, books, engine>>

\* A failure that would repeat itself is skipped past.
SkipsFailure(r, s) == sweep' = [sweep EXCEPT ![r].left = @ \ {s}]

\* Whether the session is still open in its own transaction.
Reread(s) == row[s].status = "open"

closeKnownSession(r, s) ==
  LET at == Stamp(finishedAt[r])
  IN  /\ s \in sweep[r].left
      /\ IF ~Reread(s)
         THEN UNCHANGED books /\ sweep' = [sweep EXCEPT ![r].left = @ \ {s}]
         ELSE IF muted[UserOf(s)] \/ CanClose(s, at)
         THEN ClosesOpen(s, at) /\ sweep' = [sweep EXCEPT ![r].left = @ \ {s}]
         ELSE UNCHANGED books /\ SkipsFailure(r, s)
      /\ UNCHANGED <<world, engine>>

AnswersRoom(r) ==
  /\ sweep[r].at = "loop" /\ sweep[r].left = {}
  /\ sweep' = [sweep EXCEPT ![r].at = "done"]
  /\ UNCHANGED <<world, books, engine>>

\* A store that is unavailable ends the delivery with 503.
Aborts(r) ==
  /\ sweep[r].at = "loop"
  /\ sweep' = [sweep EXCEPT ![r] = Idle]
  /\ UNCHANGED <<world, books, engine>>

--------------------------------
\* The event's identity is in the ledger of the engine.
Applied(s) == s \in ledger

\* AchievementEngine.process: ledger entry and progress in one transaction.
process(s) ==
  /\ outbox[s].status # "none"
  /\ ~Applied(s)
  /\ ledger' = ledger \cup {s}
  /\ progress' = [progress EXCEPT ![UserOf(s)] = @ + outbox[s].delta]
  /\ UNCHANGED <<world, books, sweep>>

\* onOutboxCreated marks the record in a write of its own; until then, and
\* after it too, the trigger may run again.
markOutboxProcessed(s) ==
  /\ outbox[s].status = "pending" /\ s \in ledger
  /\ outbox' = [outbox EXCEPT ![s].status = "processed"]
  /\ UNCHANGED <<world, row, days, engine, sweep>>

--------------------------------
Init ==
  /\ now = 0
  /\ place = [s \in Sessions |-> "out"]
  /\ joinedAt = [s \in Sessions |-> None]
  /\ leftAt = [s \in Sessions |-> None]
  /\ finishedAt = [r \in Rooms |-> None]
  /\ muted = [u \in Users |-> FALSE]
  /\ seated = [s \in Sessions |-> FALSE]
  /\ changes = 0
  /\ row = [s \in Sessions |-> NoRow]
  /\ days = [u \in Users |-> {}]
  /\ outbox = [s \in Sessions |-> [status |-> "none", delta |-> 0]]
  /\ ledger = {}
  /\ progress = [u \in Users |-> 0]
  /\ sweep = [r \in Rooms |-> Idle]

Next ==
  \/ Tick
  \/ \E s \in Sessions : \/ Connects(s) \/ Disconnects(s) \/ Unseats(s)
                         \/ recordJoin(s) \/ closeParticipant(s)
                         \/ process(s) \/ markOutboxProcessed(s)
  \/ \E u \in Users : Restricts(u)
  \/ \E r \in Rooms : \/ RoomEnds(r) \/ closeRoom(r) \/ AnswersRoom(r) \/ Aborts(r)
                      \/ \E s \in Sessions : closeKnownSession(r, s)

Spec == Init /\ [][Next]_vars

--------------------------------
\* Two devices of one person earn the union of their time, never its sum: what
\* the closed sessions were credited with is what the days hold.
CreditIsTheUnion ==
  \A u \in Users :
    MapThenSumSet(LAMBDA s : row[s].credit, {s \in Sessions : UserOf(s) = u})
      = MapThenSumSet(LAMBDA d : Cardinality(OfDay(days[u], d)) \div 2, DaysOf(days[u]))

\* However often a webhook or the trigger repeats, progress counts each session
\* once, and never more than was credited.
CountedOnce ==
  \A u \in Users :
    progress[u] = MapThenSumSet(LAMBDA s : row[s].credit, {s \in ledger : UserOf(s) = u})

\* Whatever webhook closes a session, no time is billed before its join, nor
\* after both its leave and the end of its room.
BilledInsideRoom ==
  \A u \in Users : \A t \in days[u] :
    \E s \in Sessions :
      /\ UserOf(s) = u /\ joinedAt[s] # None /\ joinedAt[s] <= t
      /\ \E last \in {leftAt[s], finishedAt[RoomOf(s)]} : last # None /\ t < last

\* A room's end that was accepted has reached every session that was open and
\* can be closed: one account's broken ledger strands nobody else.
RoomEndReachesAll ==
  \A r \in Rooms : sweep[r].at = "done" =>
    \A s \in sweep[r].all :
      row[s].status = "closed" \/ ~CanClose(s, Stamp(finishedAt[r]))

\* No day holds more intervals than its bound.
DaysAreBounded ==
  \A u \in Users : \A d \in DaysOf(days[u]) : ~Saturated(OfDay(days[u], d))

============================================================================
