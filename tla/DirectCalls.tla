------------------------------ MODULE DirectCalls ------------------------------
(***************************************************************************)
(* One-to-one calls of functions/calls/direct_calls.js: every callable,    *)
(* the expiry sweep and the teardown worker, over the Firestore documents  *)
(* they share.                                                             *)
(*                                                                         *)
(*   call     directCalls/{callId}                                         *)
(*   lock     directCallLocks/{uid}, the busy lock of an account           *)
(*   ledger   the start operation's replay ledger (its result.status)      *)
(*   signal   users/{callee}/incomingCalls/{callId} (its status)           *)
(*   bell     calls whose "directCall" notification exists                 *)
(*   missed   calls whose "missedCall" notification exists                 *)
(*   mirror   activeVoiceSessions/{uid}/rooms/call_{callId}                *)
(*   job      directCallControlOutbox/{callId} (its status)                *)
(*   worker   the deliveries of onDirectCallControlCreated in progress     *)
(*   frozen   accounts marked disabled by account deletion                 *)
(*   barred   pairs a block, a restriction or an ended friendship bars     *)
(*   displaced  a history variable no step reads: the calls that were live *)
(*            when the answer of another call wrote its locks over theirs  *)
(*                                                                         *)
(* A Firestore transaction is serializable, so it is one step; but the     *)
(* clock value it compares with is read before it commits.  That value is  *)
(* the parameter t of an action, at most MaxLag older than now.            *)
(***************************************************************************)
EXTENDS Integers, FiniteSets

CONSTANTS
  Users,       \* accounts
  Calls,       \* call ids, each used by one start
  KeyedCalls,  \* the call ids derived from a client requestId
  Devices,     \* installations; with none of them every call is audio
  Workers,     \* concurrent deliveries of the teardown trigger
  None,        \* absence of a document, a device or a call
  RingTTL,     \* RING_TTL_MS, in ticks
  ActiveTTL,   \* ACTIVE_CALL_TTL_MS, in ticks
  Horizon,     \* bound: no expiry lies beyond it and the clock stops there
  MayFreeze,   \* the accounts that may be deleted
  MayBar,      \* the pairs that may come to be barred
  MaxLag       \* how old a transaction's clock reading is when it commits

ASSUME ConstantsAssumption ==
  /\ KeyedCalls \subseteq Calls
  /\ MayFreeze \subseteq Users
  /\ MayBar \subseteq {{u, v} : u, v \in Users}
  /\ None \notin Users \cup Calls \cup Devices
  /\ RingTTL \in Nat \ {0}
  /\ ActiveTTL \in Nat \ {0}
  /\ Horizon \in Nat
  /\ MaxLag \in Nat

VARIABLES now, call, lock, ledger, signal, bell, missed, mirror, job, worker,
          frozen, barred, displaced

vars == <<now, call, lock, ledger, signal, bell, missed, mirror, job, worker,
          frozen, barred, displaced>>

--------------------------------
Terminal == {"declined", "cancelled", "ended", "missed"}
Unfinished == {"ringing", "active"}
CallStatus == Unfinished \cup Terminal
StatusOrNone == CallStatus \cup {"none"}
Media == {"audio", "video"}
Times == 0 .. Horizon
DeviceOrNone == Devices \cup {None}

CallDocument ==
  [caller : Users \cup {None}, callee : Users \cup {None},
   status : StatusOrNone, expiresAt : Times, media : Media,
   callerDevice : DeviceOrNone, calleeDevice : DeviceOrNone]

NoCall ==
  [caller |-> None, callee |-> None, status |-> "none", expiresAt |-> 0,
   media |-> "audio", callerDevice |-> None, calleeDevice |-> None]

LockDocument ==
  [callId : Calls \cup {None}, status : {"none"} \cup Unfinished,
   expiresAt : Times]

NoLock == [callId |-> None, status |-> "none", expiresAt |-> 0]

Phases == {"endRoom", "deleteSessions", "complete", "fail"}
Idle == [call |-> None, phase |-> "idle"]

TypeOK ==
  /\ now \in Times
  /\ call \in [Calls -> CallDocument]
  /\ lock \in [Users -> LockDocument]
  /\ ledger \in [Calls -> StatusOrNone]
  /\ signal \in [Calls -> StatusOrNone]
  /\ bell \subseteq Calls
  /\ missed \subseteq Calls
  /\ mirror \in [Calls -> SUBSET Users]
  /\ job \in [Calls -> {"none", "pending", "retrying", "completed"}]
  /\ worker \in [Workers -> [call : Calls, phase : Phases] \cup {Idle}]
  /\ frozen \subseteq MayFreeze
  /\ barred \subseteq MayBar
  /\ displaced \subseteq Calls

Init ==
  /\ now = 0
  /\ call = [c \in Calls |-> NoCall]
  /\ lock = [u \in Users |-> NoLock]
  /\ ledger = [c \in Calls |-> "none"]
  /\ signal = [c \in Calls |-> "none"]
  /\ bell = {}
  /\ missed = {}
  /\ mirror = [c \in Calls |-> {}]
  /\ job = [c \in Calls |-> "none"]
  /\ worker = [w \in Workers |-> Idle]
  /\ frozen = {}
  /\ barred = {}
  /\ displaced = {}

--------------------------------
Participants(c) == {call[c].caller, call[c].callee}

\* A call that still rings or talks at the present time.
Live(c) == call[c].status \in Unfinished /\ call[c].expiresAt > now

\* The clock values a transaction that commits now may have compared with.
Readings == {t \in Times : t <= now /\ now <= t + MaxLag}

\* Mutant of lockIsActive: a ringing call does not make its parties busy.
OnlyTalkingIsBusy(u, t) ==
  lock[u].status = "active" /\ lock[u].expiresAt > t

lockIsActive(u, t) ==
  lock[u].status \in Unfinished /\ lock[u].expiresAt > t

Expired(c, t) == call[c].expiresAt <= t

\* Both accounts usable, neither blocks the other, both friendship guards.
PairAvailable(u, v) ==
  u \notin frozen /\ v \notin frozen /\ {u, v} \notin barred

\* startDirectCall commits a new ringing call, its projections and both locks.
Start(c, u, v, media, device, t) ==
  /\ call[c].status = "none"
  /\ u # v
  /\ media = "video" => device # None
  /\ PairAvailable(u, v)
  /\ ~lockIsActive(u, t)
  /\ ~lockIsActive(v, t)
  /\ t + RingTTL <= Horizon
  /\ call' = [call EXCEPT ![c] =
       [caller |-> u, callee |-> v, status |-> "ringing",
        expiresAt |-> t + RingTTL, media |-> media,
        callerDevice |-> device, calleeDevice |-> None]]
  /\ lock' = [x \in Users |->
       IF x \in {u, v}
       THEN [callId |-> c, status |-> "ringing", expiresAt |-> t + RingTTL]
       ELSE lock[x]]
  /\ ledger' = IF c \in KeyedCalls THEN [ledger EXCEPT ![c] = "ringing"]
                                   ELSE ledger
  /\ signal' = [signal EXCEPT ![c] = "ringing"]
  /\ bell' = bell \cup {c}
  /\ UNCHANGED <<now, missed, mirror, job, worker, frozen, barred,
                 displaced>>

\* Mutant of WriteTransition: the replay ledger keeps the status of the start.
TransitionWithoutLedger(c, document) ==
  /\ call' = [call EXCEPT ![c] = document]
  /\ signal' = IF signal[c] # "none"
               THEN [signal EXCEPT ![c] = document.status] ELSE signal
  /\ bell' = bell \ {c}
  /\ UNCHANGED ledger

\* The writes every transition shares: the call, its ledger, its inbox row if
\* that row still exists, and the removal of the ringing notification.
WriteTransition(c, document) ==
  /\ call' = [call EXCEPT ![c] = document]
  /\ ledger' = IF c \in KeyedCalls
               THEN [ledger EXCEPT ![c] = document.status] ELSE ledger
  /\ signal' = IF signal[c] # "none"
               THEN [signal EXCEPT ![c] = document.status] ELSE signal
  /\ bell' = bell \ {c}

\* Mutant of ReleaseLocks: the parties' locks are deleted unread.
ReleaseUnread(c) ==
  lock' = [u \in Users |-> IF u \in Participants(c) THEN NoLock ELSE lock[u]]

\* A call that ends releases the busy locks that name it and no other.
ReleaseLocks(c) ==
  lock' = [u \in Users |->
    IF u \in Participants(c) /\ lock[u].callId = c THEN NoLock ELSE lock[u]]

\* Mutant of Answerable: a call that was called off can still be answered.
AnswerableAfterAll(c, t) == call[c].status # "none" /\ ~Expired(c, t)

Answerable(c, t) == call[c].status = "ringing" /\ ~Expired(c, t)

\* acceptDirectCall by the callee: the media is settled and both locks are
\* written without being read.
Accept(c, device, acknowledges, t) ==
  LET d == call[c]
      video == /\ d.media = "video" /\ device # None /\ acknowledges
               /\ d.callerDevice # None
  IN /\ Answerable(c, t)
     /\ PairAvailable(d.caller, d.callee)
     /\ t + ActiveTTL <= Horizon
     /\ WriteTransition(c, [d EXCEPT !.status = "active",
                                     !.expiresAt = t + ActiveTTL,
                                     !.media = IF video THEN "video" ELSE "audio",
                                     !.calleeDevice = device])
     /\ lock' = [u \in Users |->
          IF u \in Participants(c)
          THEN [callId |-> c, status |-> "active", expiresAt |-> t + ActiveTTL]
          ELSE lock[u]]
     /\ displaced' = (displaced \ {c}) \cup
          {e \in Calls \ {c} : Live(e) /\ Participants(e) \cap Participants(c) # {}}
     /\ UNCHANGED <<now, missed, mirror, job, worker, frozen, barred>>

\* The part of transitionDirectCall that every way of ending a call shares: a
\* call that was active leaves a teardown job behind.
Finish(c, next) ==
  /\ WriteTransition(c, [call[c] EXCEPT !.status = next])
  /\ ReleaseLocks(c)
  /\ job' = IF call[c].status = "active"
            THEN [job EXCEPT ![c] = "pending"] ELSE job
  /\ UNCHANGED <<now, missed, mirror, worker, frozen, barred, displaced>>

\* Mutant of Decline: the status it requires is not checked.
DeclineAnytime(c) ==
  /\ call[c].status # "none"
  /\ Finish(c, "declined")

\* declineDirectCall by the callee; it does not look at the expiry.
Decline(c) ==
  /\ call[c].status = "ringing"
  /\ Finish(c, "declined")

\* cancelDirectCall by the caller; on a call that was answered meanwhile it
\* means End.
Cancel(c) ==
  \/ call[c].status = "ringing" /\ Finish(c, "cancelled")
  \/ call[c].status = "active" /\ Finish(c, "ended")

\* endDirectCall by either participant.
End(c) ==
  /\ call[c].status = "active"
  /\ Finish(c, "ended")

\* Mutant of Expirable: the sweep only looks for calls that ring.
RingingExpirable(c, t) == call[c].status = "ringing" /\ Expired(c, t)

Expirable(c, t) == call[c].status \in Unfinished /\ Expired(c, t)

\* expireDirectCall, one document of a sweep.
Expire(c, t) ==
  /\ Expirable(c, t)
  /\ LET ringing == call[c].status = "ringing"
         next == IF ringing THEN "missed" ELSE "ended"
     IN /\ WriteTransition(c, [call[c] EXCEPT !.status = next])
        /\ missed' = IF ringing THEN missed \cup {c} ELSE missed
        /\ job' = IF ringing THEN job ELSE [job EXCEPT ![c] = "pending"]
  /\ ReleaseLocks(c)
  /\ UNCHANGED <<now, mirror, worker, frozen, barred, displaced>>

--------------------------------
\* assertDirectCallInstallationBound: the device that started or answered.
Bound(c, u, device) ==
  LET stored == IF u = call[c].caller THEN call[c].callerDevice
                                      ELSE call[c].calleeDevice
  IN \/ stored = None /\ call[c].media = "audio"
     \/ device # None /\ stored = device

\* Mutant of Authorized: the call need not have been answered, or still run.
AuthorizedAnyStatus(c, u, device, acknowledges, t) ==
  /\ u \in Participants(c)
  /\ ~Expired(c, t)
  /\ call[c].media = "video" => device # None /\ acknowledges
  /\ Bound(c, u, device)
  /\ PairAvailable(call[c].caller, call[c].callee)

\* authorizeDirectCallVoice for account u on the given device.
Authorized(c, u, device, acknowledges, t) ==
  /\ call[c].status = "active"
  /\ u \in Participants(c)
  /\ ~Expired(c, t)
  /\ call[c].media = "video" => device # None /\ acknowledges
  /\ Bound(c, u, device)
  /\ PairAvailable(call[c].caller, call[c].callee)

\* Mutant of RecordSession: the token is authorized and not indexed.
RecordNothing(c, u, device, acknowledges, t) ==
  /\ Authorized(c, u, device, acknowledges, t)
  /\ UNCHANGED vars

\* recordAuthorizedDirectCallSession: authorization and the session mirror in
\* one transaction.
RecordSession(c, u, device, acknowledges, t) ==
  /\ Authorized(c, u, device, acknowledges, t)
  /\ mirror' = [mirror EXCEPT ![c] = @ \cup {u}]
  /\ UNCHANGED <<now, call, lock, ledger, signal, bell, missed, job, worker,
                 frozen, barred, displaced>>

--------------------------------
(* onDirectCallControlCreated.  The trigger delivers at least once, so any *)
(* number of deliveries of a job that is not completed may be in progress. *)

WorkerStep(w, next) ==
  /\ worker' = [worker EXCEPT ![w] = next]
  /\ UNCHANGED <<now, call, lock, ledger, signal, bell, missed, frozen, barred,
                 displaced>>

At(w, phase) == worker[w].phase = phase

Goto(w, phase) == [worker[w] EXCEPT !.phase = phase]

\* The delivery reads the job; a completed one is left alone.
Deliver(w, c) ==
  /\ At(w, "idle")
  /\ job[c] \in {"pending", "retrying"}
  /\ WorkerStep(w, [call |-> c, phase |-> "endRoom"])
  /\ UNCHANGED <<mirror, job>>

\* The LiveKit endRoom call succeeds.
CloseRoom(w) ==
  /\ At(w, "endRoom")
  /\ WorkerStep(w, Goto(w, "deleteSessions"))
  /\ UNCHANGED <<mirror, job>>

\* deleteActiveVoiceSessionsForRoom commits its batch.
DeleteSessions(w) ==
  /\ At(w, "deleteSessions")
  /\ mirror' = [mirror EXCEPT ![worker[w].call] = {}]
  /\ WorkerStep(w, Goto(w, "complete"))
  /\ UNCHANGED job

\* Any of the three awaited calls throws.
StepFails(w) ==
  /\ worker[w].phase \in {"endRoom", "deleteSessions", "complete"}
  /\ WorkerStep(w, Goto(w, "fail"))
  /\ UNCHANGED <<mirror, job>>

CompleteJob(w) ==
  /\ At(w, "complete")
  /\ job' = [job EXCEPT ![worker[w].call] = "completed"]
  /\ WorkerStep(w, Idle)
  /\ UNCHANGED mirror

\* Mutant of MarkRetrying: the failure is swallowed and the job closed.
SwallowFailure(w) ==
  /\ At(w, "fail")
  /\ job' = [job EXCEPT ![worker[w].call] = "completed"]
  /\ WorkerStep(w, Idle)
  /\ UNCHANGED mirror

\* The catch block marks the job and rethrows, so the event is redelivered;
\* nothing stops it from overwriting what a concurrent delivery completed.
MarkRetrying(w) ==
  /\ At(w, "fail")
  /\ job' = [job EXCEPT ![worker[w].call] = "retrying"]
  /\ WorkerStep(w, Idle)
  /\ UNCHANGED mirror

\* The instance dies: the event was not acknowledged and is redelivered.
Crash(w) ==
  /\ ~At(w, "idle")
  /\ WorkerStep(w, Idle)
  /\ UNCHANGED <<mirror, job>>

--------------------------------
(* The parts of the system around the calls. *)

\* executeDeleteAccountSelf marks the account disabled.
FreezeAccount(u) ==
  /\ u \notin frozen
  /\ frozen' = frozen \cup {u}
  /\ UNCHANGED <<now, call, lock, ledger, signal, bell, missed, mirror, job,
                 worker, barred, displaced>>

\* The revoke stage of account deletion: the lock and the session mirrors of
\* the account go, the calls it is in stay as they are.
RevokeAccount(u) ==
  /\ u \in frozen
  /\ lock' = [lock EXCEPT ![u] = NoLock]
  /\ mirror' = [c \in Calls |-> mirror[c] \ {u}]
  /\ UNCHANGED <<now, call, ledger, signal, bell, missed, job, worker, frozen,
                 barred, displaced>>

\* The social stage deletes the account's inbox rows and notifications, page
\* by page.
EraseSignal(c) ==
  /\ call[c].callee \in frozen
  /\ signal' = [signal EXCEPT ![c] = "none"]
  /\ UNCHANGED <<now, call, lock, ledger, bell, missed, mirror, job, worker,
                 frozen, barred, displaced>>

EraseNotifications(c) ==
  /\ call[c].callee \in frozen
  /\ bell' = bell \ {c}
  /\ missed' = missed \ {c}
  /\ UNCHANGED <<now, call, lock, ledger, signal, mirror, job, worker, frozen,
                 barred, displaced>>

\* A block, a restriction or an unfriending bars a pair, or stops barring it.
ToggleBar(pair) ==
  /\ barred' = (barred \ {pair}) \cup ({pair} \ barred)
  /\ UNCHANGED <<now, call, lock, ledger, signal, bell, missed, mirror, job,
                 worker, frozen, displaced>>

Tick ==
  /\ now < Horizon
  /\ now' = now + 1
  /\ UNCHANGED <<call, lock, ledger, signal, bell, missed, mirror, job, worker,
                 frozen, barred, displaced>>

--------------------------------
\* Every step but the one that hands out media access.
CallNext ==
  \/ Tick
  \/ \E c \in Calls, u, v \in Users, media \in Media, device \in DeviceOrNone,
        t \in Readings : Start(c, u, v, media, device, t)
  \/ \E c \in Calls, device \in DeviceOrNone, acknowledges \in BOOLEAN,
        t \in Readings : Accept(c, device, acknowledges, t)
  \/ \E c \in Calls : Decline(c) \/ Cancel(c) \/ End(c)
  \/ \E c \in Calls, t \in Readings : Expire(c, t)
  \/ \E w \in Workers, c \in Calls : Deliver(w, c)
  \/ \E w \in Workers : \/ CloseRoom(w) \/ DeleteSessions(w) \/ StepFails(w)
                        \/ CompleteJob(w) \/ MarkRetrying(w) \/ Crash(w)
  \/ \E u \in MayFreeze : FreezeAccount(u) \/ RevokeAccount(u)
  \/ \E c \in Calls : EraseSignal(c) \/ EraseNotifications(c)
  \/ \E pair \in MayBar : ToggleBar(pair)

Next ==
  \/ CallNext
  \/ \E c \in Calls, u \in Users, device \in DeviceOrNone,
        acknowledges \in BOOLEAN, t \in Readings :
        RecordSession(c, u, device, acknowledges, t)

Spec == Init /\ [][Next]_vars

\* Deliveries are retried and the sweep runs every minute; LiveKit answers and
\* an instance survives infinitely often while a delivery keeps being retried.
Fairness ==
  /\ WF_vars(Tick)
  /\ \A c \in Calls : WF_vars(\E t \in Readings : Expire(c, t))
  /\ \A w \in Workers, c \in Calls : SF_vars(Deliver(w, c))
  /\ \A w \in Workers : /\ SF_vars(CloseRoom(w))
                        /\ SF_vars(DeleteSessions(w))
                        /\ SF_vars(CompleteJob(w))
                        /\ WF_vars(MarkRetrying(w))

FairSpec == Spec /\ Fairness

--------------------------------
(* Safety *)

\* No account is in two live calls, but for a call displaced by an answer that
\* should have come too late: the busy locks, the clock readings that are old
\* at the commit, the expiry that frees a lock without a step, and the deletion
\* of an account that drops its lock in mid-call never let a second call in.
OneLiveCall ==
  \A c, d \in Calls :
    /\ c # d /\ Live(c) /\ Live(d)
    /\ Participants(c) \cap Participants(d) # {}
    => c \in displaced \/ d \in displaced

\* Each usable participant of a live call holds a lock that names the call, has
\* its status and lasts as long: the late decline, cancel or sweep of an older
\* call never frees or shortens the lock of the call that replaced it.  Only a
\* displaced call is without its locks, until its own answer takes them back.
LocksCoverLiveCalls ==
  \A c \in Calls : Live(c) /\ c \notin displaced =>
    \A u \in Participants(c) \ frozen :
      lock[u] = [callId |-> c, status |-> call[c].status,
                 expiresAt |-> call[c].expiresAt]

\* What docs/Backend.md says of the locks, with no exception: no account is in
\* two live calls.
NeverInTwoCalls ==
  \A c, d \in Calls : c # d /\ Live(c) /\ Live(d) =>
    Participants(c) \cap Participants(d) = {}

\* What a client is shown agrees with the call: a replayed start answers with
\* the present status, the inbox row (if it exists) has it, the ringing bell is
\* only there while the call rings and the missed bell only if it was missed.
ProjectionsAgree ==
  \A c \in Calls :
    /\ ledger[c] = IF c \in KeyedCalls THEN call[c].status ELSE "none"
    /\ signal[c] \in {"none", call[c].status}
    /\ c \in bell => call[c].status = "ringing"
    /\ c \in missed => call[c].status = "missed"

\* A teardown job exists for exactly the calls that were answered and are over,
\* and once it is completed no session mirror of the call is left: a token
\* request that races the hang-up cannot leave one behind.
SessionsTornDown ==
  \A c \in Calls :
    /\ call[c].status = "ended" <=> job[c] # "none"
    /\ mirror[c] # {} => call[c].status \in {"active", "ended"}
    /\ job[c] = "completed" => mirror[c] = {}

\* Transitions only go forward, whatever crosses in flight: a finished call
\* keeps its status, its parties and its media for ever, an answered call can
\* only end, and what was negotiated at the answer is never renegotiated.
LifecycleOrder ==
  [][\A c \in Calls :
       /\ call[c].status \in Terminal => call'[c] = call[c]
       /\ call[c].status = "active" =>
            /\ call'[c].status \in {"active", "ended"}
            /\ call'[c].media = call[c].media
            /\ call'[c].calleeDevice = call[c].calleeDevice
            /\ call'[c].expiresAt = call[c].expiresAt]_vars

(* What the calls promise, with expired calls taken as lapsed or over. *)

LinePhase ==
  [c \in Calls |->
    IF call[c].status = "none" THEN "none"
    ELSE IF call[c].status = "ringing" THEN IF Live(c) THEN "ringing" ELSE "lapsed"
    ELSE IF Live(c) THEN "talking" ELSE "over"]

LineParties ==
  [c \in Calls |-> IF call[c].status = "none" THEN {} ELSE Participants(c)]

Lines == INSTANCE CallLines
  WITH phase <- LinePhase, parties <- LineParties, crossed <- displaced

\* The documents, locks and clock readings implement the lines: no step engages
\* a party twice except the late answer of a lapsed call and the answer of a
\* call that such an answer crossed; no other step displaces a call, and none
\* revives one that is over.
ImplementsLines == Lines!Spec

(* Liveness *)

\* A call does not ring for ever, answered or not, and one that was answered
\* eventually ends.
CallsFinish == \A c \in Calls :
  call[c].status \in Unfinished ~> call[c].status \in Terminal

\* An answered call that is over is torn down for good: some later delivery
\* removes every session mirror and none comes back.
MediaReleased == \A c \in Calls : call[c].status = "ended" ~> [](mirror[c] = {})

=============================================================================
