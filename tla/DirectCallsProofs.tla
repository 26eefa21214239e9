-------------------------- MODULE DirectCallsProofs --------------------------
(***************************************************************************)
(* Invariance proofs for DirectCalls, for every number of accounts, calls, *)
(* devices and deliveries and every length of the two expiries, and for    *)
(* its token handler in DirectCallTokens, for every number of concurrent   *)
(* runs, requests, signatures and clock lags.                              *)
(***************************************************************************)
EXTENDS DirectCallTokens, TLAPS

(***************************************************************************)
(* Typing.                                                                 *)
(***************************************************************************)

\* A clock reading is a time, and no later than now.
LEMMA ReadingIsTime ==
  ASSUME NEW t \in Readings PROVE t \in Times /\ t <= now
BY DEF Readings

\* The writes every transition shares keep the documents well formed.
LEMMA WriteTransitionTyped ==
  ASSUME TypeOK, NEW c \in Calls, NEW document \in CallDocument,
         WriteTransition(c, document)
  PROVE  /\ call' \in [Calls -> CallDocument]
         /\ ledger' \in [Calls -> StatusOrNone]
         /\ signal' \in [Calls -> StatusOrNone]
         /\ bell' \subseteq Calls
<1>1. document.status \in StatusOrNone
  BY DEF CallDocument
<1> QED
  BY <1>1 DEF TypeOK, WriteTransition

\* Releasing a call's locks keeps the locks well formed.
LEMMA ReleaseLocksTyped ==
  ASSUME TypeOK, NEW c \in Calls, ReleaseLocks(c)
  PROVE  lock' \in [Users -> LockDocument]
<1>1. NoLock \in LockDocument
  BY ConstantsAssumption DEF NoLock, LockDocument, Times
<1> QED
  BY <1>1 DEF TypeOK, ReleaseLocks

\* A document that changes its status to a final one is still a document.
LEMMA StatusChanged ==
  ASSUME NEW document \in CallDocument, NEW next \in Terminal
  PROVE  /\ [document EXCEPT !.status = next] \in CallDocument
         /\ [document EXCEPT !.status = next].status = next
<1>1. next \in StatusOrNone
  BY DEF StatusOrNone, CallStatus
<1> QED
  BY <1>1 DEF CallDocument

\* Every way of ending a call keeps the documents well formed.
LEMMA FinishTyped ==
  ASSUME TypeOK, NEW c \in Calls, NEW next \in Terminal, Finish(c, next)
  PROVE  TypeOK'
<1>1. [call[c] EXCEPT !.status = next] \in CallDocument
  BY StatusChanged DEF TypeOK
<1>2. /\ call' \in [Calls -> CallDocument]
      /\ ledger' \in [Calls -> StatusOrNone]
      /\ signal' \in [Calls -> StatusOrNone]
      /\ bell' \subseteq Calls
  BY <1>1, WriteTransitionTyped DEF Finish
<1>3. lock' \in [Users -> LockDocument]
  BY ReleaseLocksTyped DEF Finish
<1> QED
  BY <1>2, <1>3 DEF TypeOK, Finish

\* The first documents have the shape the code writes.
LEMMA InitTyped == Init => TypeOK
<1>1. NoCall \in CallDocument
  BY ConstantsAssumption
  DEF NoCall, CallDocument, StatusOrNone, Times, Media, DeviceOrNone
<1>2. NoLock \in LockDocument
  BY ConstantsAssumption DEF NoLock, LockDocument, Times
<1> QED
  BY <1>1, <1>2, ConstantsAssumption
  DEF Init, TypeOK, Times, StatusOrNone, Idle

\* Every step keeps the documents well formed.
LEMMA NextTyped == TypeOK /\ [Next]_vars => TypeOK'
<1> SUFFICES ASSUME TypeOK, [Next]_vars PROVE TypeOK'
  OBVIOUS
<1>1. CASE Tick
  BY <1>1, ConstantsAssumption DEF Tick, TypeOK, Times
<1>2. ASSUME NEW c \in Calls, NEW u \in Users, NEW v \in Users,
             NEW media \in Media, NEW device \in DeviceOrNone,
             NEW t \in Readings, Start(c, u, v, media, device, t)
      PROVE  TypeOK'
  <2> DEFINE document == [caller |-> u, callee |-> v, status |-> "ringing",
                          expiresAt |-> t + RingTTL, media |-> media,
                          callerDevice |-> device, calleeDevice |-> None]
             held == [callId |-> c, status |-> "ringing",
                      expiresAt |-> t + RingTTL]
  <2>1. t + RingTTL \in Times
    BY <1>2, ReadingIsTime, ConstantsAssumption DEF Start, Times
  <2>2. document \in CallDocument
    BY <2>1 DEF CallDocument, StatusOrNone, CallStatus, Unfinished,
                DeviceOrNone
  <2>3. held \in LockDocument
    BY <2>1 DEF LockDocument, Unfinished
  <2>4. call' \in [Calls -> CallDocument] /\ lock' \in [Users -> LockDocument]
    BY <1>2, <2>2, <2>3 DEF Start, TypeOK
  <2>5. /\ ledger' \in [Calls -> StatusOrNone]
        /\ signal' \in [Calls -> StatusOrNone]
        /\ bell' \subseteq Calls
    BY <1>2 DEF Start, TypeOK, StatusOrNone, CallStatus, Unfinished
  <2> QED
    BY <1>2, <2>4, <2>5 DEF Start, TypeOK
<1>3. ASSUME NEW c \in Calls, NEW device \in DeviceOrNone,
             NEW acknowledges \in BOOLEAN, NEW t \in Readings,
             Accept(c, device, acknowledges, t)
      PROVE  TypeOK'
  <2> DEFINE video == /\ call[c].media = "video" /\ device # None
                      /\ acknowledges /\ call[c].callerDevice # None
             media == IF video THEN "video" ELSE "audio"
             document == [call[c] EXCEPT !.status = "active",
                                         !.expiresAt = t + ActiveTTL,
                                         !.media = media,
                                         !.calleeDevice = device]
             held == [callId |-> c, status |-> "active",
                      expiresAt |-> t + ActiveTTL]
  <2>1. t + ActiveTTL \in Times
    BY <1>3, ReadingIsTime, ConstantsAssumption DEF Accept, Times
  <2>2. document \in CallDocument
    <3>1. media \in Media
      BY DEF Media
    <3>2. call[c] \in CallDocument /\ "active" \in StatusOrNone
      BY DEF TypeOK, StatusOrNone, CallStatus, Unfinished
    <3> HIDE DEF media
    <3> QED
      BY <2>1, <3>1, <3>2 DEF CallDocument
  <2>3. held \in LockDocument
    BY <2>1 DEF LockDocument, Unfinished
  <2>4. WriteTransition(c, document)
    BY <1>3 DEF Accept
  <2> HIDE DEF document
  <2>5. /\ call' \in [Calls -> CallDocument]
        /\ ledger' \in [Calls -> StatusOrNone]
        /\ signal' \in [Calls -> StatusOrNone]
        /\ bell' \subseteq Calls
    BY <2>2, <2>4, WriteTransitionTyped
  <2>6. lock' \in [Users -> LockDocument]
    BY <1>3, <2>3 DEF Accept, TypeOK
  <2> QED
    BY <1>3, <2>5, <2>6 DEF Accept, TypeOK
<1>4. ASSUME NEW c \in Calls, Decline(c) \/ Cancel(c) \/ End(c)
      PROVE  TypeOK'
  BY <1>4, FinishTyped DEF Decline, Cancel, End, Terminal
<1>5. ASSUME NEW c \in Calls, NEW t \in Readings, Expire(c, t)
      PROVE  TypeOK'
  <2> DEFINE next == IF call[c].status = "ringing" THEN "missed" ELSE "ended"
  <2>1. [call[c] EXCEPT !.status = next] \in CallDocument
    BY StatusChanged DEF TypeOK, Terminal
  <2>2. /\ call' \in [Calls -> CallDocument]
        /\ ledger' \in [Calls -> StatusOrNone]
        /\ signal' \in [Calls -> StatusOrNone]
        /\ bell' \subseteq Calls
    BY <1>5, <2>1, WriteTransitionTyped DEF Expire
  <2>3. lock' \in [Users -> LockDocument]
    BY <1>5, ReleaseLocksTyped DEF Expire
  <2> QED
    BY <1>5, <2>2, <2>3 DEF TypeOK, Expire
<1>6. ASSUME NEW c \in Calls, NEW u \in Users, NEW device \in DeviceOrNone,
             NEW acknowledges \in BOOLEAN, NEW t \in Readings,
             RecordSession(c, u, device, acknowledges, t)
      PROVE  TypeOK'
  BY <1>6 DEF RecordSession, TypeOK
<1>7. ASSUME NEW w \in Workers, NEW c \in Calls, Deliver(w, c)
      PROVE  TypeOK'
  BY <1>7 DEF Deliver, WorkerStep, TypeOK, Phases
<1>8. ASSUME NEW w \in Workers,
             CloseRoom(w) \/ DeleteSessions(w) \/ StepFails(w)
      PROVE  TypeOK'
  <2>1. worker[w] \in [call : Calls, phase : Phases]
    BY <1>8 DEF CloseRoom, DeleteSessions, StepFails, At, TypeOK, Idle, Phases
  <2>2. \A phase \in Phases : Goto(w, phase) \in [call : Calls, phase : Phases]
    BY <2>1 DEF Goto
  <2>3. worker' \in [Workers -> [call : Calls, phase : Phases] \cup {Idle}]
    BY <1>8, <2>2 DEF CloseRoom, DeleteSessions, StepFails, WorkerStep, TypeOK,
                      Phases
  <2> QED
    BY <1>8, <2>1, <2>3
    DEF CloseRoom, DeleteSessions, StepFails, WorkerStep, TypeOK
<1>9. ASSUME NEW w \in Workers, CompleteJob(w) \/ MarkRetrying(w) \/ Crash(w)
      PROVE  TypeOK'
  BY <1>9 DEF CompleteJob, MarkRetrying, Crash, WorkerStep, TypeOK
<1>10. ASSUME NEW u \in MayFreeze, FreezeAccount(u) \/ RevokeAccount(u)
       PROVE  TypeOK'
  <2>1. NoLock \in LockDocument
    BY ConstantsAssumption DEF NoLock, LockDocument, Times
  <2> QED
    BY <1>10, <2>1 DEF FreezeAccount, RevokeAccount, TypeOK
<1>11. ASSUME NEW c \in Calls, EraseSignal(c) \/ EraseNotifications(c)
       PROVE  TypeOK'
  BY <1>11 DEF EraseSignal, EraseNotifications, TypeOK, StatusOrNone
<1>12. ASSUME NEW pair \in MayBar, ToggleBar(pair)
       PROVE  TypeOK'
  BY <1>12 DEF ToggleBar, TypeOK
<1>13. CASE UNCHANGED vars
  BY <1>13 DEF vars, TypeOK
<1> QED
  BY <1>1, <1>2, <1>3, <1>4, <1>5, <1>6, <1>7, <1>8, <1>9, <1>10, <1>11,
     <1>12, <1>13
  DEF Next, CallNext

\* Every document, lock, projection and job of every reachable state has the
\* shape the code writes, and no expiry lies beyond the horizon.
THEOREM TypeCorrect == Spec => []TypeOK
BY InitTyped, NextTyped, PTL DEF Spec

(***************************************************************************)
(* The busy locks.  A live call that no answer displaced is covered by the *)
(* locks of its usable parties, so a start, which finds both locks free at *)
(* a time that is past, meets no such call; an answer covers its own call  *)
(* and displaces the live calls whose locks it writes over.                *)
(***************************************************************************)

\* The two parties of a call document are two accounts.
PartiesAreAccounts ==
  \A c \in Calls : call[c].status # "none" => Participants(c) \subseteq Users

\* Only a call that was started can have been displaced.
DisplacedWereCalls == \A c \in displaced : call[c].status # "none"

LocksInductive ==
  /\ TypeOK
  /\ PartiesAreAccounts
  /\ DisplacedWereCalls
  /\ OneLiveCall
  /\ LocksCoverLiveCalls

\* A usable party of a live call has an active lock at every clock reading,
\* unless the call was displaced.
LEMMA LiveCallBlocks ==
  ASSUME LocksInductive, NEW c \in Calls, Live(c), c \notin displaced,
         NEW u \in Participants(c), u \notin frozen, NEW t \in Readings
  PROVE  lockIsActive(u, t)
<1>1. lock[u] = [callId |-> c, status |-> call[c].status,
                 expiresAt |-> call[c].expiresAt]
  BY DEF LocksInductive, LocksCoverLiveCalls
<1>2. call[c].expiresAt \in Int /\ now \in Int /\ t \in Int /\ t <= now
  BY ReadingIsTime DEF LocksInductive, TypeOK, CallDocument, Times
<1>3. call[c].expiresAt > t
  BY <1>2 DEF Live
<1> QED
  BY <1>1, <1>3 DEF lockIsActive, Live

\* A step that ends call c, releases its locks and leaves the clock, the
\* accounts and the other calls alone keeps the locks in order.
LEMMA EndingKeepsLocks ==
  ASSUME LocksInductive, TypeOK', NEW c \in Calls, NEW next \in Terminal,
         call[c].status # "none",
         call' = [call EXCEPT ![c] = [call[c] EXCEPT !.status = next]],
         ReleaseLocks(c), now' = now, frozen' = frozen, displaced' = displaced
  PROVE  LocksInductive'
<1>1. /\ call'[c].status = next
      /\ call'[c].caller = call[c].caller /\ call'[c].callee = call[c].callee
      /\ \A d \in Calls : d # c => call'[d] = call[d]
  BY DEF LocksInductive, TypeOK, CallDocument
<1>2. ~Live(c)' /\ \A d \in Calls : d # c => (Live(d)' <=> Live(d))
  BY <1>1 DEF Live, Terminal, Unfinished
<1>3. \A d \in Calls : Participants(d)' = Participants(d)
  BY <1>1 DEF Participants
<1>4. PartiesAreAccounts' /\ DisplacedWereCalls'
  BY <1>1, <1>3
  DEF LocksInductive, PartiesAreAccounts, DisplacedWereCalls, Terminal, TypeOK
<1>5. OneLiveCall'
  BY <1>2, <1>3 DEF LocksInductive, OneLiveCall
<1>6. LocksCoverLiveCalls'
  <2> SUFFICES ASSUME NEW d \in Calls, Live(d)', d \notin displaced',
                      NEW u \in Participants(d)', u \notin frozen'
               PROVE  lock'[u] = [callId |-> d, status |-> call'[d].status,
                                  expiresAt |-> call'[d].expiresAt]
    BY DEF LocksCoverLiveCalls
  <2>1. /\ d # c /\ Live(d) /\ d \notin displaced
        /\ u \in Participants(d) /\ u \notin frozen
    BY <1>2, <1>3
  <2>2. lock[u] = [callId |-> d, status |-> call[d].status,
                   expiresAt |-> call[d].expiresAt]
    BY <2>1 DEF LocksInductive, LocksCoverLiveCalls
  <2>3. u \in Users
    BY <2>1 DEF LocksInductive, PartiesAreAccounts, Live, Unfinished
  <2>4. lock'[u] = lock[u]
    BY <2>1, <2>2, <2>3 DEF ReleaseLocks
  <2> QED
    BY <1>1, <2>1, <2>2, <2>4
<1> QED
  BY <1>4, <1>5, <1>6 DEF LocksInductive

\* A step that changes no call and no usable account's lock, and at most lets
\* time pass or disables an account, keeps the locks in order.
LEMMA QuietStepKeepsLocks ==
  ASSUME LocksInductive, TypeOK', call' = call, now' \in {now, now + 1},
         frozen \subseteq frozen', displaced' = displaced,
         \A u \in Users \ frozen' : lock'[u] = lock[u]
  PROVE  LocksInductive'
<1>1. \A c \in Calls : Live(c)' => Live(c)
  <2> SUFFICES ASSUME NEW c \in Calls, Live(c)' PROVE Live(c)
    OBVIOUS
  <2>1. call[c].expiresAt \in Int /\ now \in Int
    BY DEF LocksInductive, TypeOK, CallDocument, Times
  <2> QED
    BY <2>1 DEF Live
<1>2. \A c \in Calls : Participants(c)' = Participants(c)
  BY DEF Participants
<1>3. PartiesAreAccounts' /\ DisplacedWereCalls' /\ OneLiveCall'
  BY <1>1, <1>2
  DEF LocksInductive, PartiesAreAccounts, DisplacedWereCalls, OneLiveCall
<1>4. LocksCoverLiveCalls'
  <2> SUFFICES ASSUME NEW c \in Calls, Live(c)', c \notin displaced',
                      NEW u \in Participants(c)', u \notin frozen'
               PROVE  lock'[u] = [callId |-> c, status |-> call'[c].status,
                                  expiresAt |-> call'[c].expiresAt]
    BY DEF LocksCoverLiveCalls
  <2>1. Live(c) /\ u \in Participants(c) \ frozen
    BY <1>1, <1>2
  <2>2. u \in Users
    BY <2>1 DEF LocksInductive, PartiesAreAccounts, Live, Unfinished
  <2> QED
    BY <2>1, <2>2 DEF LocksInductive, LocksCoverLiveCalls
<1> QED
  BY <1>3, <1>4 DEF LocksInductive

\* A start meets no live call of either party, unless it was displaced.
LEMMA StartMeetsNoCall ==
  ASSUME LocksInductive,
         NEW c \in Calls, NEW u \in Users, NEW v \in Users, NEW media \in Media,
         NEW device \in DeviceOrNone, NEW t \in Readings,
         Start(c, u, v, media, device, t)
  PROVE  /\ c \notin displaced
         /\ \A d \in Calls : Live(d) /\ d \notin displaced =>
              Participants(d) \cap {u, v} = {}
<1>1. c \notin displaced
  BY DEF Start, LocksInductive, DisplacedWereCalls
<1>2. u \notin frozen /\ v \notin frozen /\ ~lockIsActive(u, t) /\ ~lockIsActive(v, t)
  BY DEF Start, PairAvailable
<1> QED
  BY <1>1, <1>2, LiveCallBlocks

\* So it keeps the locks in order.
LEMMA StartKeepsLocks ==
  ASSUME LocksInductive, TypeOK',
         NEW c \in Calls, NEW u \in Users, NEW v \in Users, NEW media \in Media,
         NEW device \in DeviceOrNone, NEW t \in Readings,
         Start(c, u, v, media, device, t)
  PROVE  LocksInductive'
<1>1. c \notin displaced /\ displaced' = displaced
  BY StartMeetsNoCall DEF Start
<1>2. \A d \in Calls : Live(d) /\ d \notin displaced => Participants(d) \cap {u, v} = {}
  BY StartMeetsNoCall
<1>3. call'[c] = [caller |-> u, callee |-> v, status |-> "ringing",
                  expiresAt |-> t + RingTTL, media |-> media,
                  callerDevice |-> device, calleeDevice |-> None]
  BY DEF Start, LocksInductive, TypeOK
<1>4. \A d \in Calls : d # c => call'[d] = call[d]
  BY DEF Start, LocksInductive, TypeOK
<1>5. Participants(c)' = {u, v} /\ \A d \in Calls : d # c => Participants(d)' = Participants(d)
  BY <1>3, <1>4 DEF Participants
<1>6. \A d \in Calls : d # c => (Live(d)' <=> Live(d))
  BY <1>4 DEF Live, Start
<1>7. PartiesAreAccounts' /\ DisplacedWereCalls'
  BY <1>1, <1>4, <1>5
  DEF LocksInductive, PartiesAreAccounts, DisplacedWereCalls, TypeOK
<1>8. OneLiveCall'
  BY <1>1, <1>2, <1>5, <1>6 DEF LocksInductive, OneLiveCall
<1>9. LocksCoverLiveCalls'
  <2> SUFFICES ASSUME NEW d \in Calls, Live(d)', d \notin displaced',
                      NEW x \in Participants(d)', x \notin frozen'
               PROVE  lock'[x] = [callId |-> d, status |-> call'[d].status,
                                  expiresAt |-> call'[d].expiresAt]
    BY DEF LocksCoverLiveCalls
  <2>1. CASE d = c
    BY <2>1, <1>3, <1>5 DEF Start
  <2>2. CASE d # c
    <3>1. /\ Live(d) /\ d \notin displaced
          /\ x \in Participants(d) \ frozen /\ x \notin {u, v}
      BY <2>2, <1>1, <1>2, <1>5, <1>6 DEF Start
    <3>2. x \in Users
      BY <3>1 DEF LocksInductive, PartiesAreAccounts, Live, Unfinished
    <3>3. lock'[x] = lock[x]
      BY <3>1, <3>2 DEF Start
    <3> QED
      BY <2>2, <3>1, <3>3, <1>4 DEF LocksInductive, LocksCoverLiveCalls
  <2> QED
    BY <2>1, <2>2
<1> QED
  BY <1>7, <1>8, <1>9 DEF LocksInductive

\* The live calls that share a party with call c.
Meets(c) ==
  {e \in Calls \ {c} : Live(e) /\ Participants(e) \cap Participants(c) # {}}

\* An answer covers its own call with both locks, and every live call whose
\* lock it may have written over counts as displaced from then on.
LEMMA AcceptKeepsLocks ==
  ASSUME LocksInductive, TypeOK',
         NEW c \in Calls, NEW device \in DeviceOrNone,
         NEW acknowledges \in BOOLEAN, NEW t \in Readings,
         Accept(c, device, acknowledges, t)
  PROVE  LocksInductive'
<1>1. displaced' = (displaced \ {c}) \cup Meets(c)
  BY DEF Accept, Meets
<1>2. call[c].status = "ringing" /\ now' = now /\ frozen' = frozen
  BY DEF Accept, Answerable
<1>3. /\ call'[c].status = "active" /\ call'[c].expiresAt = t + ActiveTTL
      /\ call'[c].caller = call[c].caller /\ call'[c].callee = call[c].callee
      /\ \A d \in Calls : d # c => call'[d] = call[d]
  BY DEF Accept, WriteTransition, LocksInductive, TypeOK, CallDocument
<1>4. \A d \in Calls : Participants(d)' = Participants(d)
  BY <1>3 DEF Participants
<1>5. \A d \in Calls : d # c => (Live(d)' <=> Live(d))
  BY <1>2, <1>3 DEF Live
<1>6. PartiesAreAccounts'
  BY <1>2, <1>3, <1>4 DEF LocksInductive, PartiesAreAccounts
<1>7. DisplacedWereCalls'
  BY <1>1, <1>3
  DEF LocksInductive, TypeOK, DisplacedWereCalls, Meets, Live, Unfinished
<1>8. OneLiveCall'
  <2> SUFFICES ASSUME NEW d \in Calls, NEW e \in Calls, d # e, Live(d)', Live(e)',
                      Participants(d) \cap Participants(e) # {}
               PROVE  d \in displaced' \/ e \in displaced'
    BY <1>4 DEF OneLiveCall
  <2>1. CASE d = c
    BY <2>1, <1>1, <1>5 DEF Meets
  <2>2. CASE e = c
    BY <2>2, <1>1, <1>5 DEF Meets
  <2>3. CASE d # c /\ e # c
    <3>1. d \in displaced \/ e \in displaced
      BY <2>3, <1>5 DEF LocksInductive, OneLiveCall
    <3> QED
      BY <2>3, <3>1, <1>1
  <2> QED
    BY <2>1, <2>2, <2>3
<1>9. LocksCoverLiveCalls'
  <2> SUFFICES ASSUME NEW d \in Calls, Live(d)', d \notin displaced',
                      NEW x \in Participants(d)', x \notin frozen'
               PROVE  lock'[x] = [callId |-> d, status |-> call'[d].status,
                                  expiresAt |-> call'[d].expiresAt]
    BY DEF LocksCoverLiveCalls
  <2>1. x \in Participants(d) \ frozen
    BY <1>2, <1>4
  <2>2. x \in Users
    BY <2>1, <1>2, <1>5 DEF LocksInductive, PartiesAreAccounts, Live, Unfinished
  <2>3. CASE d = c
    BY <2>1, <2>2, <2>3, <1>3 DEF Accept
  <2>4. CASE d # c
    <3>1. Live(d) /\ d \notin displaced /\ x \notin Participants(c)
      BY <2>1, <2>4, <1>1, <1>5 DEF Meets
    <3>2. lock'[x] = lock[x]
      BY <2>2, <3>1 DEF Accept
    <3> QED
      BY <2>1, <2>4, <3>1, <3>2, <1>3 DEF LocksInductive, LocksCoverLiveCalls
  <2> QED
    BY <2>3, <2>4
<1> QED
  BY <1>6, <1>7, <1>8, <1>9 DEF LocksInductive

\* Every step keeps the locks in order.
LEMMA NextKeepsLocks ==
  ASSUME LocksInductive, [Next]_vars PROVE LocksInductive'
<1>0. TypeOK'
  BY NextTyped DEF LocksInductive
<1>1. ASSUME NEW c \in Calls, NEW u \in Users, NEW v \in Users,
             NEW media \in Media, NEW device \in DeviceOrNone,
             NEW t \in Readings, Start(c, u, v, media, device, t)
      PROVE  LocksInductive'
  BY <1>0, <1>1, StartKeepsLocks
<1>2. ASSUME NEW c \in Calls, NEW device \in DeviceOrNone,
             NEW acknowledges \in BOOLEAN, NEW t \in Readings,
             Accept(c, device, acknowledges, t)
      PROVE  LocksInductive'
  BY <1>0, <1>2, AcceptKeepsLocks
<1>3. ASSUME NEW c \in Calls, Decline(c) \/ Cancel(c) \/ End(c)
      PROVE  LocksInductive'
  <2>1. ASSUME NEW next \in Terminal, Finish(c, next), call[c].status # "none"
        PROVE  LocksInductive'
    BY <1>0, <2>1, EndingKeepsLocks DEF Finish, WriteTransition
  <2> QED
    BY <1>3, <2>1 DEF Decline, Cancel, End, Terminal
<1>4. ASSUME NEW c \in Calls, NEW t \in Readings, Expire(c, t)
      PROVE  LocksInductive'
  <2> DEFINE next == IF call[c].status = "ringing" THEN "missed" ELSE "ended"
  <2>1. /\ call' = [call EXCEPT ![c] = [call[c] EXCEPT !.status = next]]
        /\ ReleaseLocks(c) /\ now' = now /\ frozen' = frozen
        /\ displaced' = displaced /\ call[c].status # "none"
    BY <1>4 DEF Expire, Expirable, WriteTransition, Unfinished
  <2>2. next \in Terminal
    BY DEF Terminal
  <2> HIDE DEF next
  <2> QED
    BY <1>0, <2>1, <2>2, EndingKeepsLocks
<1>5. ASSUME call' = call, lock' = lock, now' \in {now, now + 1},
             frozen' = frozen, displaced' = displaced
      PROVE  LocksInductive'
  BY <1>0, <1>5, QuietStepKeepsLocks
<1>6. ASSUME NEW c \in Calls, NEW u \in Users, NEW device \in DeviceOrNone,
             NEW acknowledges \in BOOLEAN, NEW t \in Readings,
             RecordSession(c, u, device, acknowledges, t)
      PROVE  LocksInductive'
  BY <1>5, <1>6 DEF RecordSession
<1>7. ASSUME NEW w \in Workers, NEW c \in Calls, Deliver(w, c)
      PROVE  LocksInductive'
  BY <1>5, <1>7 DEF Deliver, WorkerStep
<1>8. ASSUME NEW w \in Workers,
             \/ CloseRoom(w) \/ DeleteSessions(w) \/ StepFails(w)
             \/ CompleteJob(w) \/ MarkRetrying(w) \/ Crash(w)
      PROVE  LocksInductive'
  BY <1>5, <1>8 DEF CloseRoom, DeleteSessions, StepFails, CompleteJob,
                    MarkRetrying, Crash, WorkerStep
<1>9. ASSUME NEW u \in MayFreeze, FreezeAccount(u) \/ RevokeAccount(u)
      PROVE  LocksInductive'
  <2>1. /\ call' = call /\ now' = now /\ frozen \subseteq frozen'
        /\ displaced' = displaced
        /\ \A x \in Users \ frozen' : lock'[x] = lock[x]
    BY <1>9 DEF FreezeAccount, RevokeAccount, LocksInductive, TypeOK
  <2> QED
    BY <1>0, <2>1, QuietStepKeepsLocks
<1>10. ASSUME NEW c \in Calls, EraseSignal(c) \/ EraseNotifications(c)
       PROVE  LocksInductive'
  BY <1>5, <1>10 DEF EraseSignal, EraseNotifications
<1>11. ASSUME NEW pair \in MayBar, ToggleBar(pair)
       PROVE  LocksInductive'
  BY <1>5, <1>11 DEF ToggleBar
<1>12. CASE Tick
  BY <1>5, <1>12 DEF Tick
<1>13. CASE UNCHANGED vars
  BY <1>5, <1>13 DEF vars
<1> QED
  BY <1>1, <1>2, <1>3, <1>4, <1>6, <1>7, <1>8, <1>9, <1>10, <1>11, <1>12, <1>13
  DEF Next, CallNext

\* The first state has no call and no lock.
LEMMA InitLocks == Init => LocksInductive
BY InitTyped DEF Init, LocksInductive, PartiesAreAccounts, DisplacedWereCalls,
                 OneLiveCall, LocksCoverLiveCalls, Live, NoCall, Unfinished

\* However old the clock readings, two live calls share an account only where
\* an answer displaced one of them.
THEOREM AccountsAreExclusive == Spec => []OneLiveCall
<1>1. LocksInductive => OneLiveCall
  BY DEF LocksInductive
<1> QED
  BY <1>1, InitLocks, NextKeepsLocks, PTL DEF Spec

\* Each usable party of a live call that was not displaced holds the lock of
\* exactly that call: no late transition of another call takes it away.
THEOREM LocksFollowCalls == Spec => []LocksCoverLiveCalls
<1>1. LocksInductive => LocksCoverLiveCalls
  BY DEF LocksInductive
<1> QED
  BY <1>1, InitLocks, NextKeepsLocks, PTL DEF Spec

NoneDisplaced == displaced = {}

\* An answer displaces a call only if its clock reading was older than its call.
LEMMA NextDisplacesNothing ==
  ASSUME MaxLag = 0, LocksInductive, NoneDisplaced, [Next]_vars
  PROVE  NoneDisplaced'
<1>1. ASSUME NEW c \in Calls, NEW device \in DeviceOrNone,
             NEW acknowledges \in BOOLEAN, NEW t \in Readings,
             Accept(c, device, acknowledges, t)
      PROVE  NoneDisplaced'
  <2>1. t = now /\ call[c].expiresAt \in Int /\ now \in Int
    BY DEF Readings, LocksInductive, TypeOK, CallDocument, Times
  <2>2. Live(c)
    BY <1>1, <2>1 DEF Accept, Answerable, Expired, Live, Unfinished
  <2>3. Meets(c) = {}
    BY <2>2 DEF Meets, LocksInductive, OneLiveCall, NoneDisplaced
  <2> QED
    BY <1>1, <2>3 DEF Accept, Meets, NoneDisplaced
<1>2. ASSUME displaced' = displaced PROVE NoneDisplaced'
  BY <1>2 DEF NoneDisplaced
<1>3. ASSUME NEW c \in Calls, NEW u \in Users, NEW v \in Users,
             NEW media \in Media, NEW device \in DeviceOrNone,
             NEW t \in Readings, Start(c, u, v, media, device, t)
      PROVE  NoneDisplaced'
  BY <1>2, <1>3 DEF Start
<1>4. ASSUME NEW c \in Calls, Decline(c) \/ Cancel(c) \/ End(c)
      PROVE  NoneDisplaced'
  BY <1>2, <1>4 DEF Decline, Cancel, End, Finish
<1>5. ASSUME NEW c \in Calls, NEW t \in Readings, Expire(c, t)
      PROVE  NoneDisplaced'
  BY <1>2, <1>5 DEF Expire
<1> QED
  BY <1>1, <1>2, <1>3, <1>4, <1>5
  DEF Next, CallNext, vars, Tick, RecordSession, Deliver, CloseRoom,
      DeleteSessions, StepFails, CompleteJob, MarkRetrying, Crash, WorkerStep,
      FreezeAccount, RevokeAccount, EraseSignal, EraseNotifications, ToggleBar

\* So the claim of docs/Backend.md fails only by the age of a clock reading:
\* with readings current at the commit no account is ever in two live calls.
THEOREM OnlyLateAnswersCross ==
  ASSUME MaxLag = 0 PROVE Spec => []NeverInTwoCalls
<1>1. Init => NoneDisplaced
  BY DEF Init, NoneDisplaced
<1>2. LocksInductive /\ NoneDisplaced => NeverInTwoCalls
  BY DEF LocksInductive, OneLiveCall, NeverInTwoCalls, NoneDisplaced
<1> QED
  BY <1>1, <1>2, InitLocks, NextKeepsLocks, NextDisplacesNothing, PTL DEF Spec

(***************************************************************************)
(* Teardown.  The steps of a delivery are tied to a call that is over, and *)
(* a session mirror is only written while the call is active, so what a    *)
(* delivery deletes stays deleted.                                         *)
(***************************************************************************)

DeliveriesFollowCalls ==
  \A w \in Workers : worker[w].phase # "idle" =>
    /\ call[worker[w].call].status = "ended"
    /\ worker[w].phase = "complete" => mirror[worker[w].call] = {}

SessionsInductive == TypeOK /\ SessionsTornDown /\ DeliveriesFollowCalls

\* What a step does to the calls, the sessions and the jobs when it only moves
\* call c from one status to another, and no delivery is working on c.
LEMMA StatusStepKeepsSessions ==
  ASSUME SessionsInductive, TypeOK', NEW c \in Calls,
         \A d \in Calls : d # c =>
           call'[d].status = call[d].status /\ job'[d] = job[d],
         \/ call[c].status \in {"none", "ringing"} /\ job'[c] = job[c] /\ call'[c].status # "ended"
         \/ call[c].status = "active" /\ call'[c].status = "ended" /\ job'[c] = "pending",
         call[c].status = "ringing" \/ mirror[c] = {} \/ call'[c].status = "ended",
         mirror' = mirror, worker' = worker
  PROVE  SessionsInductive'
<1>1. SessionsTornDown'
  BY DEF SessionsInductive, SessionsTornDown
<1>2. DeliveriesFollowCalls'
  <2> SUFFICES ASSUME NEW w \in Workers, worker'[w].phase # "idle"
               PROVE  /\ call'[worker'[w].call].status = "ended"
                      /\ worker'[w].phase = "complete" => mirror'[worker'[w].call] = {}
    BY DEF DeliveriesFollowCalls
  <2>1. /\ call[worker[w].call].status = "ended" /\ worker[w].call \in Calls
        /\ worker[w].phase = "complete" => mirror[worker[w].call] = {}
    BY DEF SessionsInductive, DeliveriesFollowCalls, TypeOK, Idle
  <2> QED
    BY <2>1
<1> QED
  BY <1>1, <1>2 DEF SessionsInductive

\* A step of delivery w on call c that leaves the calls alone, deletes no
\* session of another call, and completes a job only behind a deletion.
LEMMA DeliveryKeepsSessions ==
  ASSUME SessionsInductive, TypeOK', NEW w \in Workers, NEW c \in Calls,
         call[c].status = "ended", call' = call,
         \A d \in Calls : mirror'[d] \subseteq mirror[d],
         \A d \in Calls : d # c => job'[d] = job[d],
         job'[c] # "none", job'[c] = "completed" => mirror'[c] = {},
         \A x \in Workers : x # w => worker'[x] = worker[x],
         worker'[w] = Idle \/ worker'[w].call = c,
         worker'[w].phase = "complete" => mirror'[c] = {}
  PROVE  SessionsInductive'
<1>1. SessionsTornDown'
  BY DEF SessionsInductive, SessionsTornDown
<1>2. DeliveriesFollowCalls'
  <2> SUFFICES ASSUME NEW x \in Workers, worker'[x].phase # "idle"
               PROVE  /\ call[worker'[x].call].status = "ended"
                      /\ worker'[x].phase = "complete" => mirror'[worker'[x].call] = {}
    BY DEF DeliveriesFollowCalls
  <2>1. CASE x = w
    BY <2>1 DEF Idle
  <2>2. CASE x # w
    <3>1. /\ worker'[x] = worker[x] /\ call[worker[x].call].status = "ended"
          /\ worker[x].call \in Calls
          /\ worker[x].phase = "complete" => mirror[worker[x].call] = {}
      BY <2>2 DEF SessionsInductive, DeliveriesFollowCalls, TypeOK, Idle
    <3> QED
      BY <3>1
  <2> QED
    BY <2>1, <2>2
<1> QED
  BY <1>1, <1>2 DEF SessionsInductive

\* Every step keeps calls, sessions, jobs and deliveries in order.
LEMMA NextKeepsSessions ==
  ASSUME SessionsInductive, [Next]_vars PROVE SessionsInductive'
<1>0. TypeOK'
  BY NextTyped DEF SessionsInductive
<1>1. ASSUME NEW c \in Calls, NEW u \in Users, NEW v \in Users,
             NEW media \in Media, NEW device \in DeviceOrNone,
             NEW t \in Readings, Start(c, u, v, media, device, t)
      PROVE  SessionsInductive'
  <2>1. call'[c].status = "ringing" /\ \A d \in Calls : d # c => call'[d] = call[d]
    BY <1>1 DEF Start, SessionsInductive, TypeOK
  <2>2. mirror[c] = {}
    BY <1>1 DEF Start, SessionsInductive, SessionsTornDown
  <2> QED
    BY <1>0, <1>1, <2>1, <2>2, StatusStepKeepsSessions DEF Start
<1>2. ASSUME NEW c \in Calls, NEW device \in DeviceOrNone,
             NEW acknowledges \in BOOLEAN, NEW t \in Readings,
             Accept(c, device, acknowledges, t)
      PROVE  SessionsInductive'
  <2>1. call'[c].status = "active" /\ \A d \in Calls : d # c => call'[d] = call[d]
    BY <1>2 DEF Accept, WriteTransition, SessionsInductive, TypeOK, CallDocument
  <2> QED
    BY <1>0, <1>2, <2>1, StatusStepKeepsSessions DEF Accept, Answerable
<1>3. ASSUME NEW c \in Calls, Decline(c) \/ Cancel(c) \/ End(c)
      PROVE  SessionsInductive'
  <2>1. PICK next \in Terminal :
          /\ Finish(c, next)
          /\ \/ call[c].status = "ringing" /\ next # "ended"
             \/ call[c].status = "active" /\ next = "ended"
    BY <1>3 DEF Decline, Cancel, End, Terminal
  <2>2. call'[c].status = next /\ \A d \in Calls : d # c => call'[d] = call[d]
    BY <2>1 DEF Finish, WriteTransition, SessionsInductive, TypeOK, CallDocument
  <2>3. job' = IF call[c].status = "active" THEN [job EXCEPT ![c] = "pending"]
                                            ELSE job
    BY <2>1 DEF Finish
  <2>4. \A d \in Calls : d # c => job'[d] = job[d]
    BY <2>3 DEF SessionsInductive, TypeOK
  <2>5. IF call[c].status = "active" THEN job'[c] = "pending" ELSE job'[c] = job[c]
    BY <2>3 DEF SessionsInductive, TypeOK
  <2>6. mirror' = mirror /\ worker' = worker
    BY <2>1 DEF Finish
  <2> QED
    BY <1>0, <2>1, <2>2, <2>4, <2>5, <2>6, StatusStepKeepsSessions
<1>4. ASSUME NEW c \in Calls, NEW t \in Readings, Expire(c, t)
      PROVE  SessionsInductive'
  <2> DEFINE ringing == call[c].status = "ringing"
             next == IF ringing THEN "missed" ELSE "ended"
  <2>1. /\ call' = [call EXCEPT ![c] = [call[c] EXCEPT !.status = next]]
        /\ job' = IF ringing THEN job ELSE [job EXCEPT ![c] = "pending"]
        /\ call[c].status \in Unfinished /\ mirror' = mirror /\ worker' = worker
    BY <1>4 DEF Expire, Expirable, WriteTransition
  <2>2. /\ call'[c].status = next /\ \A d \in Calls : d # c => call'[d] = call[d]
        /\ \A d \in Calls : d # c => job'[d] = job[d]
        /\ IF ringing THEN job'[c] = job[c] ELSE job'[c] = "pending"
    BY <2>1 DEF SessionsInductive, TypeOK, CallDocument
  <2> QED
    BY <1>0, <2>1, <2>2, StatusStepKeepsSessions DEF Unfinished
<1>5. ASSUME NEW c \in Calls, NEW u \in Users, NEW device \in DeviceOrNone,
             NEW acknowledges \in BOOLEAN, NEW t \in Readings,
             RecordSession(c, u, device, acknowledges, t)
      PROVE  SessionsInductive'
  <2>1. /\ call[c].status = "active" /\ call' = call /\ job' = job /\ worker' = worker
        /\ \A d \in Calls : d # c => mirror'[d] = mirror[d]
    BY <1>5 DEF RecordSession, Authorized, SessionsInductive, TypeOK
  <2>2. SessionsTornDown'
    BY <2>1 DEF SessionsInductive, SessionsTornDown
  <2>3. DeliveriesFollowCalls'
    BY <2>1 DEF SessionsInductive, DeliveriesFollowCalls, TypeOK, Idle
  <2> QED
    BY <1>0, <2>2, <2>3 DEF SessionsInductive
<1>6. ASSUME NEW w \in Workers, NEW c \in Calls, Deliver(w, c)
      PROVE  SessionsInductive'
  <2>1. call[c].status = "ended" /\ job[c] # "completed"
    BY <1>6 DEF Deliver, SessionsInductive, SessionsTornDown
  <2>2. /\ worker'[w] = [call |-> c, phase |-> "endRoom"]
        /\ \A x \in Workers : x # w => worker'[x] = worker[x]
    BY <1>6 DEF Deliver, WorkerStep, SessionsInductive, TypeOK
  <2>3. call' = call /\ mirror' = mirror /\ job' = job /\ job[c] # "none"
    BY <1>6 DEF Deliver, WorkerStep
  <2> QED
    BY <1>0, <2>1, <2>2, <2>3, DeliveryKeepsSessions
<1>7. ASSUME NEW w \in Workers,
             \/ CloseRoom(w) \/ DeleteSessions(w) \/ StepFails(w)
             \/ CompleteJob(w) \/ MarkRetrying(w) \/ Crash(w)
      PROVE  SessionsInductive'
  <2> DEFINE c == worker[w].call
  <2>1. worker[w] \in [call : Calls, phase : Phases]
    BY <1>7 DEF CloseRoom, DeleteSessions, StepFails, CompleteJob, MarkRetrying,
                Crash, At, SessionsInductive, TypeOK, Idle, Phases
  <2>2. /\ c \in Calls /\ call[c].status = "ended" /\ job[c] # "none"
        /\ worker[w].phase = "complete" => mirror[c] = {}
        /\ job[c] = "completed" => mirror[c] = {}
    BY <2>1 DEF SessionsInductive, DeliveriesFollowCalls, SessionsTornDown, Phases
  <2>3. call' = call /\ \A x \in Workers : x # w => worker'[x] = worker[x]
    BY <1>7 DEF CloseRoom, DeleteSessions, StepFails, CompleteJob, MarkRetrying,
                Crash, WorkerStep, SessionsInductive, TypeOK
  <2>4. /\ worker'[w] = Idle \/ worker'[w].call = c
        /\ \A d \in Calls : mirror'[d] \subseteq mirror[d]
        /\ worker'[w].phase = "complete" => mirror'[c] = {}
    BY <1>7, <2>1, <2>2
    DEF CloseRoom, DeleteSessions, StepFails, CompleteJob, MarkRetrying, Crash,
        WorkerStep, Goto, SessionsInductive, TypeOK, Idle
  <2>5. /\ \A d \in Calls : d # c => job'[d] = job[d]
        /\ job'[c] # "none" /\ (job'[c] = "completed" => mirror'[c] = {})
    BY <1>7, <2>2, <2>4
    DEF CloseRoom, DeleteSessions, StepFails, CompleteJob, MarkRetrying, Crash,
        At, SessionsInductive, TypeOK
  <2> HIDE DEF c
  <2> QED
    BY <1>0, <2>2, <2>3, <2>4, <2>5, DeliveryKeepsSessions
<1>8. ASSUME call' = call, job' = job, worker' = worker,
             \A c \in Calls : mirror'[c] \subseteq mirror[c]
      PROVE  SessionsInductive'
  <2>1. SessionsTornDown'
    BY <1>8 DEF SessionsInductive, SessionsTornDown
  <2>2. DeliveriesFollowCalls'
    BY <1>8 DEF SessionsInductive, DeliveriesFollowCalls, TypeOK, Idle
  <2> QED
    BY <1>0, <2>1, <2>2 DEF SessionsInductive
<1>9. ASSUME NEW u \in MayFreeze, FreezeAccount(u) \/ RevokeAccount(u)
      PROVE  SessionsInductive'
  BY <1>8, <1>9 DEF FreezeAccount, RevokeAccount, SessionsInductive, TypeOK
<1>10. ASSUME NEW c \in Calls, EraseSignal(c) \/ EraseNotifications(c)
       PROVE  SessionsInductive'
  BY <1>8, <1>10 DEF EraseSignal, EraseNotifications
<1>11. ASSUME NEW pair \in MayBar, ToggleBar(pair)
       PROVE  SessionsInductive'
  BY <1>8, <1>11 DEF ToggleBar
<1>12. CASE Tick
  BY <1>8, <1>12 DEF Tick
<1>13. CASE UNCHANGED vars
  BY <1>8, <1>13 DEF vars
<1> QED
  BY <1>1, <1>2, <1>3, <1>4, <1>5, <1>6, <1>7, <1>9, <1>10, <1>11, <1>12, <1>13
  DEF Next, CallNext

\* Whatever the clock readings, exactly the calls that were answered and are
\* over have a teardown job, and behind a completed job no session is left.
THEOREM TeardownLeavesNoSession == Spec => []SessionsTornDown
<1>1. Init => SessionsInductive
  BY InitTyped DEF Init, SessionsInductive, SessionsTornDown,
                   DeliveriesFollowCalls, NoCall, Idle
<1>2. SessionsInductive => SessionsTornDown
  BY DEF SessionsInductive
<1> QED
  BY <1>1, <1>2, NextKeepsSessions, PTL DEF Spec

(***************************************************************************)
(* The order of a call's life.                                             *)
(***************************************************************************)

\* How a step may change one call document: not at all, by starting it, by
\* answering it, or by ending it.
CallStep(c) ==
  \/ call'[c] = call[c]
  \/ call[c].status = "none"
  \/ call[c].status = "ringing"
  \/ /\ call[c].status = "active"
     /\ call'[c] = [call[c] EXCEPT !.status = "ended"]

\* Every step changes every call in one of these ways.
LEMMA NextIsCallStep ==
  ASSUME TypeOK, [Next]_vars, NEW c \in Calls PROVE CallStep(c)
<1>1. ASSUME NEW d \in Calls, NEW u \in Users, NEW v \in Users,
             NEW media \in Media, NEW device \in DeviceOrNone,
             NEW t \in Readings, Start(d, u, v, media, device, t)
      PROVE  CallStep(c)
  BY <1>1 DEF Start, CallStep, TypeOK
<1>2. ASSUME NEW d \in Calls, NEW device \in DeviceOrNone,
             NEW acknowledges \in BOOLEAN, NEW t \in Readings,
             Accept(d, device, acknowledges, t)
      PROVE  CallStep(c)
  BY <1>2 DEF Accept, Answerable, WriteTransition, CallStep, TypeOK
<1>3. ASSUME NEW d \in Calls, Decline(d) \/ Cancel(d) \/ End(d)
      PROVE  CallStep(c)
  <2>1. PICK next \in Terminal :
          /\ Finish(d, next)
          /\ \/ call[d].status = "ringing"
             \/ call[d].status = "active" /\ next = "ended"
    BY <1>3 DEF Decline, Cancel, End, Terminal
  <2> QED
    BY <2>1 DEF Finish, WriteTransition, CallStep, TypeOK
<1>4. ASSUME NEW d \in Calls, NEW t \in Readings, Expire(d, t)
      PROVE  CallStep(c)
  BY <1>4 DEF Expire, Expirable, WriteTransition, CallStep, TypeOK, Unfinished
<1>5. ASSUME call' = call
      PROVE  CallStep(c)
  BY <1>5 DEF CallStep
<1> QED
  BY <1>1, <1>2, <1>3, <1>4, <1>5
  DEF Next, CallNext, vars, Tick, RecordSession, Deliver, CloseRoom,
      DeleteSessions, StepFails, CompleteJob, MarkRetrying, Crash, WorkerStep,
      FreezeAccount, RevokeAccount, EraseSignal, EraseNotifications, ToggleBar

\* Whatever crosses in flight, a finished call is final and an answered call
\* can only end, with the media, the device and the expiry of its answer.
THEOREM CallsOnlyAdvance == Spec => LifecycleOrder
<1> DEFINE Order ==
      \A c \in Calls :
        /\ call[c].status \in Terminal => call'[c] = call[c]
        /\ call[c].status = "active" =>
             /\ call'[c].status \in {"active", "ended"}
             /\ call'[c].media = call[c].media
             /\ call'[c].calleeDevice = call[c].calleeDevice
             /\ call'[c].expiresAt = call[c].expiresAt
<1>1. TypeOK /\ [Next]_vars => [Order]_vars
  <2> SUFFICES ASSUME TypeOK, [Next]_vars PROVE Order
    OBVIOUS
  <2> SUFFICES ASSUME NEW c \in Calls
               PROVE  /\ call[c].status \in Terminal => call'[c] = call[c]
                      /\ call[c].status = "active" =>
                           /\ call'[c].status \in {"active", "ended"}
                           /\ call'[c].media = call[c].media
                           /\ call'[c].calleeDevice = call[c].calleeDevice
                           /\ call'[c].expiresAt = call[c].expiresAt
    OBVIOUS
  <2>1. CallStep(c)
    BY NextIsCallStep
  <2>2. call[c] \in CallDocument
    BY DEF TypeOK
  <2> QED
    BY <2>1, <2>2 DEF CallStep, Terminal, CallDocument
<1> QED
  BY <1>1, TypeCorrect, PTL DEF Spec, LifecycleOrder

(***************************************************************************)
(* What clients see.                                                       *)
(***************************************************************************)

\* The first state shows nothing, and every step shows what it does.
LEMMA NextKeepsProjections ==
  TypeOK /\ ProjectionsAgree /\ [Next]_vars => ProjectionsAgree'
<1> SUFFICES ASSUME TypeOK, ProjectionsAgree, [Next]_vars
             PROVE  ProjectionsAgree'
  OBVIOUS
<1>1. ASSUME NEW c \in Calls, NEW u \in Users, NEW v \in Users,
             NEW media \in Media, NEW device \in DeviceOrNone,
             NEW t \in Readings, Start(c, u, v, media, device, t)
      PROVE  ProjectionsAgree'
  <2>1. call'[c].status = "ringing" /\ \A d \in Calls : d # c => call'[d] = call[d]
    BY <1>1 DEF Start, TypeOK
  <2> QED
    BY <1>1, <2>1 DEF Start, ProjectionsAgree, TypeOK
<1>2. ASSUME NEW c \in Calls, NEW document \in CallDocument,
             WriteTransition(c, document), document.status # "ringing",
             call[c].status \in Unfinished,
             \A d \in missed' : d \in missed \/ (d = c /\ document.status = "missed")
      PROVE  ProjectionsAgree'
  <2>1. call'[c] = document /\ \A d \in Calls : d # c => call'[d] = call[d]
    BY <1>2 DEF WriteTransition, TypeOK
  <2> QED
    BY <1>2, <2>1 DEF WriteTransition, ProjectionsAgree, TypeOK, Unfinished
<1>3. ASSUME NEW c \in Calls, NEW device \in DeviceOrNone,
             NEW acknowledges \in BOOLEAN, NEW t \in Readings,
             Accept(c, device, acknowledges, t)
      PROVE  ProjectionsAgree'
  <2> DEFINE document == call'[c]
  <2>1. WriteTransition(c, document) /\ document.status = "active"
    BY <1>3 DEF Accept, WriteTransition, TypeOK, CallDocument
  <2>2. document \in CallDocument
    BY NextTyped DEF TypeOK
  <2>3. missed' = missed /\ call[c].status \in Unfinished
    BY <1>3 DEF Accept, Answerable, Unfinished
  <2> HIDE DEF document
  <2> QED
    BY <1>2, <2>1, <2>2, <2>3
<1>4. ASSUME NEW c \in Calls, Decline(c) \/ Cancel(c) \/ End(c)
      PROVE  ProjectionsAgree'
  <2>1. PICK next \in Terminal \ {"missed"} :
          Finish(c, next) /\ call[c].status \in Unfinished
    BY <1>4 DEF Decline, Cancel, End, Terminal, Unfinished
  <2>2. /\ [call[c] EXCEPT !.status = next] \in CallDocument
        /\ [call[c] EXCEPT !.status = next].status = next
    BY StatusChanged DEF TypeOK
  <2> QED
    BY <1>2, <2>1, <2>2 DEF Finish, Terminal
<1>5. ASSUME NEW c \in Calls, NEW t \in Readings, Expire(c, t)
      PROVE  ProjectionsAgree'
  <2> DEFINE next == IF call[c].status = "ringing" THEN "missed" ELSE "ended"
  <2>1. /\ [call[c] EXCEPT !.status = next] \in CallDocument
        /\ [call[c] EXCEPT !.status = next].status = next
    <3>1. next \in Terminal /\ call[c] \in CallDocument
      BY DEF TypeOK, Terminal
    <3> QED
      BY <3>1, StatusChanged
  <2>2. /\ WriteTransition(c, [call[c] EXCEPT !.status = next])
        /\ next # "ringing" /\ call[c].status \in Unfinished
        /\ \A d \in missed' : d \in missed \/ (d = c /\ next = "missed")
    BY <1>5 DEF Expire, Expirable
  <2> HIDE DEF next
  <2> QED
    BY <1>2, <2>1, <2>2
<1>6. ASSUME call' = call, ledger' = ledger,
             \A c \in Calls : signal'[c] \in {"none", signal[c]},
             bell' \subseteq bell, missed' \subseteq missed
      PROVE  ProjectionsAgree'
  BY <1>6 DEF ProjectionsAgree
<1>7. ASSUME NEW c \in Calls, EraseSignal(c) \/ EraseNotifications(c)
      PROVE  ProjectionsAgree'
  BY <1>6, <1>7 DEF EraseSignal, EraseNotifications, TypeOK
<1> QED
  BY <1>1, <1>3, <1>4, <1>5, <1>6, <1>7
  DEF Next, CallNext, vars, Tick, RecordSession, Deliver, CloseRoom,
      DeleteSessions, StepFails, CompleteJob, MarkRetrying, Crash, WorkerStep,
      FreezeAccount, RevokeAccount, ToggleBar

\* The replay ledger, the inbox row and the two notifications of every call
\* agree with its document, also for calls that cross, expire or lose a row.
THEOREM ClientsSeeTheCall == Spec => []ProjectionsAgree
<1>1. Init => ProjectionsAgree
  BY DEF Init, ProjectionsAgree, NoCall
<1> QED
  BY <1>1, NextKeepsProjections, TypeCorrect, PTL DEF Spec

(***************************************************************************)
(* The calls implement CallLines: an expired call has lapsed or is over,   *)
(* and the displaced calls are the crossed lines.                          *)
(***************************************************************************)

\* The lines are functions of the calls.
LEMMA LinesAreFunctions ==
  /\ LinePhase = [c \in Calls |-> LinePhase[c]]
  /\ LinePhase' = [c \in Calls |-> LinePhase'[c]]
  /\ LineParties = [c \in Calls |-> LineParties[c]]
  /\ LineParties' = [c \in Calls |-> LineParties'[c]]
BY DEF LinePhase, LineParties

\* A step that moves only call c moves only the line of c.
LEMMA OneLineMoves ==
  ASSUME TypeOK, NEW c \in Calls, now' = now,
         \A d \in Calls : d # c => call'[d] = call[d]
  PROVE  \A d \in Calls : d # c =>
           LinePhase'[d] = LinePhase[d] /\ LineParties'[d] = LineParties[d]
BY DEF LinePhase, LineParties, Live, Participants

\* The engaged lines are the live calls.
LEMMA EngagedIsLive ==
  ASSUME NEW c \in Calls
  PROVE  /\ Lines!Engaged(c) <=> Live(c)
         /\ Live(c) => LineParties[c] = Participants(c)
BY DEF Lines!Engaged, LinePhase, LineParties, Live, Unfinished

\* Starting a call is ringing a line whose parties are free.
LEMMA StartIsRing ==
  ASSUME LocksInductive, TypeOK',
         NEW c \in Calls, NEW u \in Users, NEW v \in Users, NEW media \in Media,
         NEW device \in DeviceOrNone, NEW t \in Readings,
         Start(c, u, v, media, device, t)
  PROVE  Lines!Next
<1> DEFINE next == IF Live(c)' THEN "ringing" ELSE "lapsed"
<1>1. call'[c] = [caller |-> u, callee |-> v, status |-> "ringing",
                  expiresAt |-> t + RingTTL, media |-> media,
                  callerDevice |-> device, calleeDevice |-> None]
      /\ \A d \in Calls : d # c => call'[d] = call[d]
  BY DEF Start, LocksInductive, TypeOK
<1>2. /\ LinePhase[c] = "none" /\ LinePhase'[c] = next
      /\ LineParties'[c] = {u, v}
  BY <1>1 DEF LinePhase, LineParties, Participants, Start
<1>3. \A d \in Calls : d # c =>
        LinePhase'[d] = LinePhase[d] /\ LineParties'[d] = LineParties[d]
  BY <1>1, OneLineMoves DEF Start, LocksInductive
<1>4. \A d \in Calls \ displaced : Lines!Engaged(d) => {u, v} \cap LineParties[d] = {}
  BY StartMeetsNoCall, EngagedIsLive
<1> HIDE DEF next
<1>5. LinePhase' = [LinePhase EXCEPT ![c] = next]
      /\ LineParties' = [LineParties EXCEPT ![c] = {u, v}]
  BY <1>2, <1>3, LinesAreFunctions
<1>6. next \in {"ringing", "lapsed"} /\ u # v /\ displaced' = displaced
  BY DEF next, Start
<1>7. Lines!Ring(c, u, v, next)
  BY <1>2, <1>4, <1>5, <1>6 DEF Lines!Ring
<1> QED
  BY <1>6, <1>7 DEF Lines!Next

\* Accepting a call answers its line: in time, or late.
LEMMA AcceptIsAnswer ==
  ASSUME LocksInductive, TypeOK',
         NEW c \in Calls, NEW device \in DeviceOrNone,
         NEW acknowledges \in BOOLEAN, NEW t \in Readings,
         Accept(c, device, acknowledges, t)
  PROVE  Lines!Next
<1> DEFINE next == IF Live(c)' THEN "talking" ELSE "over"
<1>1. /\ call'[c].status = "active"
      /\ call'[c].caller = call[c].caller /\ call'[c].callee = call[c].callee
      /\ \A d \in Calls : d # c => call'[d] = call[d]
  BY DEF Accept, WriteTransition, LocksInductive, TypeOK, CallDocument
<1>2. call[c].status = "ringing" /\ displaced' = (displaced \ {c}) \cup Meets(c)
  BY DEF Accept, Answerable, Meets
<1>3. /\ LinePhase[c] = IF Live(c) THEN "ringing" ELSE "lapsed"
      /\ LinePhase'[c] = next
      /\ LineParties'[c] = LineParties[c] /\ LineParties[c] = Participants(c)
  BY <1>1, <1>2 DEF LinePhase, LineParties, Participants
<1>4. \A d \in Calls : d # c =>
        LinePhase'[d] = LinePhase[d] /\ LineParties'[d] = LineParties[d]
  BY <1>1, OneLineMoves DEF Accept, LocksInductive
<1> HIDE DEF next
<1>5. LinePhase' = [LinePhase EXCEPT ![c] = next] /\ LineParties' = LineParties
  BY <1>3, <1>4, LinesAreFunctions
<1>6. next \in {"talking", "over"}
  BY DEF next
<1>7. CASE Live(c) /\ c \notin displaced
  <2>1. Meets(c) \subseteq displaced
    BY <1>7 DEF Meets, LocksInductive, OneLiveCall
  <2>2. displaced' = displaced
    BY <2>1, <1>2, <1>7
  <2>3. Lines!Answer(c, next)
    BY <2>2, <1>3, <1>5, <1>6, <1>7 DEF Lines!Answer
  <2> QED
    BY <2>3, <1>6 DEF Lines!Next
<1>8. CASE ~Live(c) \/ c \in displaced
  <2>1. Meets(c) = {d \in Calls \ {c} :
                      Lines!Engaged(d) /\ LineParties[d] \cap LineParties[c] # {}}
    BY <1>3, EngagedIsLive DEF Meets
  <2>2. Lines!AnswerLate(c, next)
    BY <2>1, <1>2, <1>3, <1>5, <1>6, <1>8 DEF Lines!AnswerLate
  <2> QED
    BY <2>2, <1>6 DEF Lines!Next
<1> QED
  BY <1>7, <1>8

\* A step that leaves every document's parties alone, and only finishes calls
\* or lets live ones expire, ends or lapses their lines, or does nothing.
LEMMA EndingIsOver ==
  ASSUME TypeOK, TypeOK', displaced' = displaced,
         \A c \in Calls : /\ call'[c].caller = call[c].caller
                          /\ call'[c].callee = call[c].callee
                          /\ call'[c].status = "none" <=> call[c].status = "none"
                          /\ \/ call'[c].status = call[c].status
                             \/ call'[c].status \in Terminal
                          /\ Live(c)' => Live(c)
  PROVE  Lines!Next
<1> DEFINE ending == {c \in Calls : LinePhase[c] # "over" /\ LinePhase'[c] = "over"}
           lapsing == {c \in Calls : LinePhase[c] # "lapsed" /\ LinePhase'[c] = "lapsed"}
<1>1. \A c \in Calls :
        /\ LinePhase[c] \in {"none", "ringing", "talking", "lapsed", "over"}
        /\ LinePhase'[c] = "over" => LinePhase[c] # "none"
        /\ LinePhase'[c] = "lapsed" => LinePhase[c] \in {"ringing", "lapsed"}
        /\ LinePhase'[c] \notin {"over", "lapsed"} => LinePhase'[c] = LinePhase[c]
  BY DEF LinePhase, Live, Unfinished, Terminal, TypeOK, CallDocument,
         StatusOrNone, CallStatus
<1>2. LinePhase' = [c \in Calls |-> IF c \in ending THEN "over"
                                    ELSE IF c \in lapsing THEN "lapsed" ELSE LinePhase[c]]
  <2>1. LinePhase' = [c \in Calls |-> LinePhase'[c]]
    BY DEF LinePhase
  <2> QED
    BY <1>1, <2>1
<1>3. LineParties' = LineParties
  BY DEF LineParties, Participants
<1>4. Lines!Over(ending, lapsing)
  BY <1>1, <1>2, <1>3 DEF Lines!Over
<1> QED
  BY <1>4 DEF Lines!Next

\* Every step of the calls is a step of the lines or leaves them unchanged.
LEMMA NextImplementsLines ==
  ASSUME LocksInductive, [Next]_vars
  PROVE  [Lines!Next]_(Lines!lines)
<1>0. TypeOK /\ TypeOK'
  BY NextTyped DEF LocksInductive
<1>1. ASSUME NEW c \in Calls, NEW u \in Users, NEW v \in Users,
             NEW media \in Media, NEW device \in DeviceOrNone,
             NEW t \in Readings, Start(c, u, v, media, device, t)
      PROVE  Lines!Next
  BY <1>0, <1>1, StartIsRing
<1>2. ASSUME NEW c \in Calls, NEW device \in DeviceOrNone,
             NEW acknowledges \in BOOLEAN, NEW t \in Readings,
             Accept(c, device, acknowledges, t)
      PROVE  Lines!Next
  BY <1>0, <1>2, AcceptIsAnswer
<1>3. ASSUME NEW c \in Calls, NEW next \in Terminal, now' = now,
             call[c].status # "none", displaced' = displaced,
             call' = [call EXCEPT ![c] = [call[c] EXCEPT !.status = next]]
      PROVE  Lines!Next
  <2>1. /\ call'[c].status = next
        /\ call'[c].caller = call[c].caller /\ call'[c].callee = call[c].callee
        /\ \A d \in Calls : d # c => call'[d] = call[d]
    BY <1>0, <1>3 DEF TypeOK, CallDocument
  <2>2. ~Live(c)'
    BY <2>1 DEF Live, Terminal, Unfinished
  <2>3. \A d \in Calls : d # c => (Live(d)' <=> Live(d))
    BY <1>3, <2>1 DEF Live
  <2> QED
    BY <1>0, <1>3, <2>1, <2>2, <2>3, EndingIsOver DEF Terminal
<1>4. ASSUME NEW c \in Calls, Decline(c) \/ Cancel(c) \/ End(c)
      PROVE  Lines!Next
  <2>1. PICK next \in Terminal : Finish(c, next) /\ call[c].status # "none"
    BY <1>4 DEF Decline, Cancel, End, Terminal
  <2> QED
    BY <1>3, <2>1 DEF Finish, WriteTransition
<1>5. ASSUME NEW c \in Calls, NEW t \in Readings, Expire(c, t)
      PROVE  Lines!Next
  <2> DEFINE next == IF call[c].status = "ringing" THEN "missed" ELSE "ended"
  <2>1. /\ call' = [call EXCEPT ![c] = [call[c] EXCEPT !.status = next]]
        /\ now' = now /\ call[c].status # "none" /\ next \in Terminal
        /\ displaced' = displaced
    BY <1>5 DEF Expire, Expirable, WriteTransition, Unfinished, Terminal
  <2> HIDE DEF next
  <2> QED
    BY <1>3, <2>1
<1>6. CASE Tick
  <2>1. call' = call /\ now' = now + 1 /\ displaced' = displaced
    BY <1>6 DEF Tick
  <2>2. \A c \in Calls : Live(c)' => Live(c)
    BY <1>0, <2>1 DEF Live, TypeOK, CallDocument, Times
  <2> QED
    BY <1>0, <2>1, <2>2, EndingIsOver
<1>7. ASSUME call' = call, now' = now, displaced' = displaced
      PROVE  UNCHANGED Lines!lines
  BY <1>7 DEF Lines!lines, LinePhase, LineParties, Live, Participants
<1> QED
  BY <1>1, <1>2, <1>4, <1>5, <1>6, <1>7
  DEF Next, CallNext, vars, RecordSession, Deliver, CloseRoom, DeleteSessions,
      StepFails, CompleteJob, MarkRetrying, Crash, WorkerStep, FreezeAccount,
      RevokeAccount, EraseSignal, EraseNotifications, ToggleBar

\* The documents, the locks and the sweep together behave as lines that engage
\* each account at most once, but for the answers that come too late.
THEOREM CallsImplementLines == Spec => ImplementsLines
<1>1. Init => Lines!Init
  BY DEF Init, Lines!Init, LinePhase, LineParties, NoCall
<1> QED
  BY <1>1, InitLocks, NextKeepsLocks, NextImplementsLines, PTL
  DEF Spec, ImplementsLines, Lines!Spec

(***************************************************************************)
(* The token handler: typing, and the handler as an implementation of its  *)
(* last transaction.                                                       *)
(***************************************************************************)

\* The steps of the handler that leave the documents of the calls alone.
QuietTokenStep(h) ==
  \/ \E q \in RequestIds \cup {None}, input \in Requested, t \in Readings :
       ReplayToken(h, q, input, t) \/ RequestToken(h, q, input, t)
  \/ \E t \in Readings : MintToken(h, t)
  \/ AnswerStored(h)
  \/ Refuse(h)

LEMMA TokenSteps ==
  ASSUME TokenNext
  PROVE  \/ CallNext /\ UNCHANGED tokenVars
         \/ \E h \in Handlers : QuietTokenStep(h)
         \/ \E h \in Handlers, t \in Readings : AnswerMinted(h, t)
BY DEF TokenNext, QuietTokenStep

LEMMA QuietTokenStepIsQuiet ==
  ASSUME NEW h \in Handlers, QuietTokenStep(h) PROVE UNCHANGED vars
BY DEF QuietTokenStep, ReplayToken, RequestToken, MintToken, AnswerStored, Refuse

\* What a run that waits for its last transaction carries.
LEMMA RecordingRun ==
  ASSUME TokenTypeOK, NEW h \in Handlers, run[h].phase = "record"
  PROVE  /\ run[h].requestId \in RequestIds \cup {None}
         /\ run[h].input \in Requested
         /\ run[h].startedAt \in Times
         /\ run[h].token \in Token
BY DEF TokenTypeOK, Invocation, Ready

\* What clients ask for names an account, a call and a device.
LEMMA RequestedInput ==
  ASSUME NEW input \in Requested
  PROVE  /\ input.user \in Users
         /\ input.call \in Calls
         /\ input.device \in DeviceOrNone
         /\ input.acknowledges \in BOOLEAN
BY TokenConstantsAssumption DEF Input

\* Every step of the handler is a step of the calls, or leaves them alone.
LEMMA TokenStepIsCallStep ==
  ASSUME TokenTypeOK, [TokenNext]_allVars PROVE [Next]_vars
<1>1. CASE CallNext /\ UNCHANGED tokenVars
  BY <1>1 DEF Next
<1>2. ASSUME NEW h \in Handlers, QuietTokenStep(h)
      PROVE  [Next]_vars
  BY <1>2, QuietTokenStepIsQuiet
<1>3. ASSUME NEW h \in Handlers, NEW t \in Readings, AnswerMinted(h, t)
      PROVE  [Next]_vars
  <2>1. run[h].input \in Requested
    BY <1>3, RecordingRun DEF AnswerMinted
  <2>2. RecordSession(run[h].input.call, run[h].input.user, run[h].input.device,
                      run[h].input.acknowledges, t)
    BY <1>3 DEF AnswerMinted, Revalidate
  <2> QED
    BY <1>3, <2>1, <2>2, RequestedInput DEF Next
<1>4. CASE UNCHANGED allVars
  BY <1>4 DEF allVars
<1> QED
  BY <1>1, <1>2, <1>3, <1>4, TokenSteps

LEMMA ReadyIsInvocation == Ready \in Invocation
BY DEF Invocation

\* Every step keeps runs, ledgers and answers well formed.
LEMMA TokenNextTyped ==
  ASSUME TypeOK, TokenTypeOK, [TokenNext]_allVars PROVE TokenTypeOK'
<1>1. ASSUME NEW h \in Handlers, NEW q \in RequestIds \cup {None},
             NEW input \in Requested, NEW t \in Readings,
             ReplayToken(h, q, input, t)
      PROVE  TokenTypeOK'
  <2>1. stored[<<q, input.user>>] \in [input : Requested, token : Token] /\ q \in RequestIds
    BY <1>1, RequestedInput DEF ReplayToken, Replays, HasStored, TokenTypeOK
  <2> QED
    BY <1>1, <2>1 DEF ReplayToken, Respond, TokenTypeOK
<1>2. ASSUME NEW h \in Handlers, NEW q \in RequestIds \cup {None},
             NEW input \in Requested, NEW t \in Readings,
             RequestToken(h, q, input, t)
      PROVE  TokenTypeOK'
  <2>1. t \in Times
    BY ReadingIsTime
  <2>2. [phase |-> "authorize", requestId |-> q, input |-> input,
         startedAt |-> t] \in Invocation
    BY <2>1 DEF Invocation
  <2> QED
    BY <1>2, <2>2 DEF RequestToken, TokenTypeOK
<1>3. ASSUME NEW h \in Handlers, NEW t \in Readings, MintToken(h, t)
      PROVE  TokenTypeOK'
  <2> DEFINE r == run[h]
             token == [id |-> minted + 1, user |-> r.input.user,
                       call |-> r.input.call, device |-> r.input.device,
                       media |-> call[r.input.call].media,
                       expiresAt |-> r.startedAt + TokenTTL]
  <2>1. /\ r.requestId \in RequestIds \cup {None}
        /\ r.input \in Requested
        /\ r.startedAt \in Times
    BY <1>3 DEF MintToken, TokenTypeOK, Invocation, Ready
  <2>2. minted + 1 \in 1 .. MaxMints
    BY <1>3, TokenConstantsAssumption DEF MintToken, TokenTypeOK
  <2>3. call[r.input.call].media \in Media
    BY <2>1, RequestedInput DEF TypeOK, CallDocument
  <2>4. r.startedAt + TokenTTL \in Nat
    BY <2>1, TokenConstantsAssumption DEF Times
  <2>5. token \in Token
    BY <2>1, <2>2, <2>3, <2>4, RequestedInput DEF Token
  <2>6. run' = [run EXCEPT ![h] =
          [phase |-> "record", requestId |-> r.requestId, input |-> r.input,
           startedAt |-> r.startedAt, token |-> token]]
    BY <1>3 DEF MintToken
  <2>7. minted' = minted + 1 /\ UNCHANGED <<stored, answers>>
    BY <1>3 DEF MintToken
  <2> HIDE DEF token
  <2>8. [phase |-> "record", requestId |-> r.requestId, input |-> r.input,
         startedAt |-> r.startedAt, token |-> token] \in Invocation
    BY <2>1, <2>5 DEF Invocation
  <2>9. run' \in [Handlers -> Invocation]
    BY <2>6, <2>8 DEF TokenTypeOK
  <2>10. minted' \in 0 .. MaxMints
    BY <2>2, <2>7, TokenConstantsAssumption DEF TokenTypeOK
  <2> QED
    BY <2>7, <2>9, <2>10 DEF TokenTypeOK
<1>4. ASSUME NEW h \in Handlers, AnswerStored(h)
      PROVE  TokenTypeOK'
  <2>1. run[h].input \in Requested /\ run[h].requestId \in RequestIds \cup {None}
    BY <1>4, RecordingRun DEF AnswerStored
  <2>2. /\ run[h].requestId \in RequestIds
        /\ stored[<<run[h].requestId, run[h].input.user>>]
             \in [input : Requested, token : Token]
    BY <1>4, <2>1, RequestedInput DEF AnswerStored, Replays, HasStored, TokenTypeOK
  <2> QED
    BY <1>4, <2>2, ReadyIsInvocation DEF AnswerStored, Respond, Return, TokenTypeOK
<1>5. ASSUME NEW h \in Handlers, Refuse(h)
      PROVE  TokenTypeOK'
  BY <1>5, ReadyIsInvocation DEF Refuse, Return, TokenTypeOK
<1>6. ASSUME NEW h \in Handlers, NEW t \in Readings, AnswerMinted(h, t)
      PROVE  TokenTypeOK'
  <2>1. /\ run[h].input \in Requested
        /\ run[h].requestId \in RequestIds \cup {None}
        /\ run[h].token \in Token
    BY <1>6, RecordingRun DEF AnswerMinted
  <2>2. [input |-> run[h].input, token |-> run[h].token]
          \in [input : Requested, token : Token]
    BY <2>1
  <2>3. stored' \in [RequestIds \X Users -> {Ready} \cup [input : Requested, token : Token]]
    BY <1>6, <2>2 DEF AnswerMinted, TokenTypeOK
  <2> QED
    BY <1>6, <2>1, <2>3, ReadyIsInvocation
    DEF AnswerMinted, Respond, Return, TokenTypeOK
<1>7. CASE UNCHANGED tokenVars
  BY <1>7 DEF tokenVars, TokenTypeOK
<1>8. CASE UNCHANGED allVars
  BY <1>7, <1>8 DEF allVars
<1> QED
  BY <1>1, <1>2, <1>3, <1>4, <1>5, <1>6, <1>7, <1>8 DEF TokenNext

LEMMA TokenInitTyped == TokenInit => TypeOK /\ TokenTypeOK
BY InitTyped, ReadyIsInvocation, TokenConstantsAssumption
DEF TokenInit, TokenTypeOK

\* The runs, ledgers and answers of every reachable state are what the handler
\* writes, next to well formed calls.
THEOREM TokenTypeCorrect == TokenSpec => []TokenTypeOK
<1>1. TypeOK /\ TokenTypeOK /\ [TokenNext]_allVars => (TypeOK /\ TokenTypeOK)'
  BY TokenStepIsCallStep, NextTyped, TokenNextTyped
<1> QED
  BY <1>1, TokenInitTyped, PTL DEF TokenSpec

\* The three-transaction handler does to the calls what its last transaction
\* alone would do: all that is proved of the calls holds with it in place.
THEOREM TokensImplementCalls == TokenSpec => CallsSpec
<1>1. TokenTypeOK /\ [TokenNext]_allVars => [Next]_vars
  BY TokenStepIsCallStep
<1>2. TokenInit => Init
  BY DEF TokenInit
<1> QED
  BY <1>1, <1>2, TokenTypeCorrect, PTL DEF TokenSpec, CallsSpec, Spec

(***************************************************************************)
(* One token per request.  A ledger is written once, and every answer to a *)
(* named request is read from its ledger or written together with it.      *)
(***************************************************************************)

RunsSignWhatIsAsked ==
  \A h \in Handlers : run[h].phase = "record" =>
    /\ run[h].token.user = run[h].input.user
    /\ run[h].token.call = run[h].input.call

LedgersBelongToTheirOwner ==
  \A q \in RequestIds, u \in Users : stored[<<q, u>>] # Ready =>
    stored[<<q, u>>].token.user = u

AnswersAreStored ==
  \A a \in answers : a.requestId # None =>
    /\ stored[<<a.requestId, a.token.user>>] # Ready
    /\ stored[<<a.requestId, a.token.user>>].token = a.token

AnswersInductive ==
  RunsSignWhatIsAsked /\ LedgersBelongToTheirOwner /\ AnswersAreStored

\* An answer out of the ledger adds nothing that is not stored.
LEMMA StoredAnswerKeepsAnswers ==
  ASSUME TokenTypeOK, LedgersBelongToTheirOwner, AnswersAreStored,
         NEW q \in RequestIds, NEW u \in Users, stored[<<q, u>>] # Ready,
         Respond(q, stored[<<q, u>>].token), stored' = stored
  PROVE  AnswersAreStored'
<1>1. stored[<<q, u>>].token.user = u
  BY DEF LedgersBelongToTheirOwner
<1>2. \A a \in answers' : a \in answers
        \/ (a.requestId = q /\ a.token = stored[<<q, u>>].token)
  BY DEF Respond
<1> QED
  BY <1>1, <1>2 DEF AnswersAreStored

LEMMA TokenNextKeepsAnswers ==
  ASSUME TokenTypeOK, AnswersInductive, [TokenNext]_allVars
  PROVE  AnswersInductive'
<1>1. ASSUME NEW h \in Handlers, NEW q \in RequestIds \cup {None},
             NEW input \in Requested, NEW t \in Readings,
             ReplayToken(h, q, input, t)
      PROVE  AnswersInductive'
  <2>1. q \in RequestIds /\ stored[<<q, input.user>>] # Ready
    BY <1>1 DEF ReplayToken, Replays, HasStored
  <2>2. AnswersAreStored'
    BY <1>1, <2>1, RequestedInput, StoredAnswerKeepsAnswers
    DEF ReplayToken, AnswersInductive
  <2> QED
    BY <1>1, <2>2 DEF ReplayToken, AnswersInductive, RunsSignWhatIsAsked,
                      LedgersBelongToTheirOwner
<1>2. ASSUME NEW h \in Handlers, NEW next \in Invocation,
             run' = [run EXCEPT ![h] = next], next.phase # "record",
             stored' = stored, answers' = answers
      PROVE  AnswersInductive'
  <2>1. \A x \in Handlers : run'[x] = run[x] \/ run'[x].phase # "record"
    BY <1>2 DEF TokenTypeOK
  <2> QED
    BY <1>2, <2>1 DEF AnswersInductive, RunsSignWhatIsAsked,
                      LedgersBelongToTheirOwner, AnswersAreStored
<1>3. ASSUME NEW h \in Handlers, NEW t \in Readings, MintToken(h, t)
      PROVE  AnswersInductive'
  <2>1. /\ run'[h].token.user = run'[h].input.user
        /\ run'[h].token.call = run'[h].input.call
        /\ \A x \in Handlers : x # h => run'[x] = run[x]
    BY <1>3 DEF MintToken, TokenTypeOK
  <2>2. stored' = stored /\ answers' = answers
    BY <1>3 DEF MintToken
  <2> QED
    BY <2>1, <2>2 DEF AnswersInductive, RunsSignWhatIsAsked,
                      LedgersBelongToTheirOwner, AnswersAreStored
<1>4. ASSUME NEW h \in Handlers, AnswerStored(h)
      PROVE  AnswersInductive'
  <2>1. run[h].input \in Requested /\ run[h].requestId \in RequestIds \cup {None}
    BY <1>4, RecordingRun DEF AnswerStored
  <2>2. /\ run[h].requestId \in RequestIds
        /\ stored[<<run[h].requestId, run[h].input.user>>] # Ready
    BY <1>4, <2>1 DEF AnswerStored, Replays, HasStored
  <2>3. AnswersAreStored'
    BY <1>4, <2>1, <2>2, RequestedInput, StoredAnswerKeepsAnswers
    DEF AnswerStored, AnswersInductive
  <2>4. \A x \in Handlers : run'[x] = run[x] \/ run'[x] = Ready
    BY <1>4 DEF AnswerStored, Return, TokenTypeOK
  <2> QED
    BY <1>4, <2>3, <2>4 DEF AnswerStored, AnswersInductive, RunsSignWhatIsAsked,
                            LedgersBelongToTheirOwner, Ready
<1>5. ASSUME NEW h \in Handlers, NEW t \in Readings, AnswerMinted(h, t)
      PROVE  AnswersInductive'
  <2> DEFINE q == run[h].requestId
             u == run[h].input.user
             token == run[h].token
  <2>1. q \in RequestIds \cup {None} /\ u \in Users /\ token.user = u
    BY <1>5, RecordingRun, RequestedInput
    DEF AnswerMinted, AnswersInductive, RunsSignWhatIsAsked
  <2>2. \A x \in Handlers : run'[x] = run[x] \/ run'[x] = Ready
    BY <1>5 DEF AnswerMinted, Return, TokenTypeOK
  <2>3. \A a \in answers' : a \in answers \/ (a.requestId = q /\ a.token = token)
    BY <1>5 DEF AnswerMinted, Respond
  <2>4. CASE q = None
    <3>1. stored' = stored
      BY <1>5, <2>4 DEF AnswerMinted
    <3> QED
      BY <2>2, <2>3, <2>4, <3>1
      DEF AnswersInductive, RunsSignWhatIsAsked, LedgersBelongToTheirOwner,
          AnswersAreStored, Ready
  <2>5. CASE q # None
    <3>1. q \in RequestIds /\ stored[<<q, u>>] = Ready
      BY <1>5, <2>1, <2>5 DEF AnswerMinted, Unanswered, HasStored
    <3>2. /\ stored'[<<q, u>>] = [input |-> run[h].input, token |-> token]
          /\ \A p \in RequestIds, v \in Users :
               <<p, v>> # <<q, u>> => stored'[<<p, v>>] = stored[<<p, v>>]
      BY <1>5, <2>1, <2>5, <3>1 DEF AnswerMinted, TokenTypeOK
    <3>3. [input |-> run[h].input, token |-> token] # Ready
      BY DEF Ready
    <3>4. LedgersBelongToTheirOwner'
      BY <2>1, <3>2 DEF AnswersInductive, LedgersBelongToTheirOwner
    <3>5. ASSUME NEW a \in answers', a.requestId # None
          PROVE  /\ stored'[<<a.requestId, a.token.user>>] # Ready
                 /\ stored'[<<a.requestId, a.token.user>>].token = a.token
      <4>1. CASE a.requestId = q /\ a.token = token
        BY <2>1, <3>2, <3>3, <4>1
      <4>2. CASE a \in answers
        <5>1. /\ stored[<<a.requestId, a.token.user>>] # Ready
              /\ stored[<<a.requestId, a.token.user>>].token = a.token
          BY <3>5, <4>2 DEF AnswersInductive, AnswersAreStored
        <5>2. a.requestId \in RequestIds /\ a.token.user \in Users
          BY <3>5, <4>2 DEF TokenTypeOK, Token
        <5>3. <<a.requestId, a.token.user>> # <<q, u>>
          BY <3>1, <5>1
        <5> QED
          BY <3>2, <5>1, <5>2, <5>3
      <4> QED
        BY <2>3, <4>1, <4>2
    <3> QED
      BY <2>2, <3>4, <3>5
      DEF AnswersInductive, RunsSignWhatIsAsked, AnswersAreStored, Ready
  <2> QED
    BY <2>4, <2>5
<1>6. CASE UNCHANGED tokenVars
  BY <1>6 DEF tokenVars, AnswersInductive, RunsSignWhatIsAsked,
              LedgersBelongToTheirOwner, AnswersAreStored
<1>7. ASSUME NEW h \in Handlers, NEW q \in RequestIds \cup {None},
             NEW input \in Requested, NEW t \in Readings,
             RequestToken(h, q, input, t)
      PROVE  AnswersInductive'
  <2>1. [phase |-> "authorize", requestId |-> q, input |-> input,
         startedAt |-> t] \in Invocation
    BY ReadingIsTime DEF Invocation
  <2> QED
    BY <1>2, <1>7, <2>1 DEF RequestToken
<1>8. ASSUME NEW h \in Handlers, Refuse(h)
      PROVE  AnswersInductive'
  BY <1>2, <1>8, ReadyIsInvocation DEF Refuse, Return, Ready
<1>9. CASE UNCHANGED allVars
  BY <1>6, <1>9 DEF allVars
<1> QED
  BY <1>1, <1>3, <1>4, <1>5, <1>6, <1>7, <1>8, <1>9 DEF TokenNext

\* However often a request is retried, concurrently or after a lost response,
\* all of its answers carry one token.
THEOREM RetriesShareOneToken == TokenSpec => []OneTokenPerRequest
<1>1. TokenInit => AnswersInductive
  BY DEF TokenInit, AnswersInductive, RunsSignWhatIsAsked,
         LedgersBelongToTheirOwner, AnswersAreStored, Ready
<1>2. TokenTypeOK /\ AnswersInductive /\ [TokenNext]_allVars => AnswersInductive'
  BY TokenNextKeepsAnswers
<1>3. AnswersInductive => OneTokenPerRequest
  BY DEF AnswersInductive, AnswersAreStored, OneTokenPerRequest
<1> QED
  BY <1>1, <1>2, <1>3, TokenTypeCorrect, PTL DEF TokenSpec

(***************************************************************************)
(* What a token grants.  A signature is made for what the call has settled *)
(* on, an answered call never settles again, and no step makes a token out *)
(* of anything but a signature.                                            *)
(***************************************************************************)

\* A token that left the server, or lies in a ledger.
Released(token) ==
  \/ \E q \in RequestIds, u \in Users :
       stored[<<q, u>>] # Ready /\ stored[<<q, u>>].token = token
  \/ \E a \in answers : a.token = token

\* A token a run holds back until its last transaction.
Held(token) == \E h \in Handlers : run[h].phase = "record" /\ run[h].token = token

\* At first nothing is signed.
LEMMA NothingSignedFirst ==
  ASSUME TokenInit, NEW token PROVE ~Held(token) /\ ~Released(token)
<1>1. \A h \in Handlers : run[h].phase # "record"
  BY DEF TokenInit, Ready
<1>2. answers = {} /\ \A q \in RequestIds, u \in Users : stored[<<q, u>>] = Ready
  BY DEF TokenInit
<1> QED
  BY <1>1, <1>2 DEF Held, Released

\* A run forgets what it holds back, or keeps it, unless it signs.
LEMMA OnlySigningHolds ==
  ASSUME TokenTypeOK, [TokenNext]_allVars, NEW token \in Token,
         Held(token)', ~Held(token)
  PROVE  \E h \in Handlers, t \in Readings :
           MintToken(h, t) /\ run'[h].token = token
<1>1. ASSUME \A x \in Handlers : run'[x] = run[x] \/ run'[x].phase # "record"
      PROVE  FALSE
  BY <1>1 DEF Held
<1>2. ASSUME NEW h \in Handlers, NEW t \in Readings, MintToken(h, t)
      PROVE  \E x \in Handlers, y \in Readings :
               MintToken(x, y) /\ run'[x].token = token
  <2>1. \A x \in Handlers : x # h => run'[x] = run[x]
    BY <1>2 DEF MintToken, TokenTypeOK
  <2> QED
    BY <1>2, <2>1 DEF Held
<1>3. ASSUME NEW h \in Handlers, NEW q \in RequestIds \cup {None},
             NEW input \in Requested, NEW t \in Readings,
             ReplayToken(h, q, input, t) \/ RequestToken(h, q, input, t)
      PROVE  FALSE
  BY <1>1, <1>3 DEF ReplayToken, RequestToken, TokenTypeOK
<1>4. ASSUME NEW h \in Handlers,
             \/ AnswerStored(h) \/ Refuse(h)
             \/ \E t \in Readings : AnswerMinted(h, t)
      PROVE  FALSE
  <2>1. Return(h)
    BY <1>4 DEF AnswerStored, Refuse, AnswerMinted
  <2> QED
    BY <1>1, <2>1 DEF Return, TokenTypeOK, Ready
<1>5. CASE UNCHANGED tokenVars \/ UNCHANGED allVars
  BY <1>1, <1>5 DEF tokenVars, allVars
<1> QED
  BY <1>2, <1>3, <1>4, <1>5 DEF TokenNext

\* A token leaves the server only with the last transaction of its run: all
\* other answers repeat a released one.
LEMMA OnlyRecordingReleases ==
  ASSUME TokenTypeOK, [TokenNext]_allVars, NEW token \in Token,
         Released(token)', ~Released(token)
  PROVE  \E h \in Handlers, t \in Readings :
           AnswerMinted(h, t) /\ run[h].token = token
<1>1. ASSUME stored' = stored, answers' = answers
      PROVE  FALSE
  BY <1>1 DEF Released
<1>2. ASSUME NEW q \in RequestIds, NEW u \in Users, stored[<<q, u>>] # Ready,
             Respond(q, stored[<<q, u>>].token), stored' = stored
      PROVE  FALSE
  <2>1. \A a \in answers' : a \in answers \/ a.token = stored[<<q, u>>].token
    BY <1>2 DEF Respond
  <2> QED
    BY <1>2, <2>1 DEF Released
<1>3. ASSUME NEW h \in Handlers, NEW q \in RequestIds \cup {None},
             NEW input \in Requested, NEW t \in Readings,
             ReplayToken(h, q, input, t)
      PROVE  FALSE
  BY <1>2, <1>3, RequestedInput DEF ReplayToken, Replays, HasStored
<1>4. ASSUME NEW h \in Handlers, AnswerStored(h)
      PROVE  FALSE
  <2>1. run[h].input \in Requested /\ run[h].requestId \in RequestIds \cup {None}
    BY <1>4, RecordingRun DEF AnswerStored
  <2> QED
    BY <1>2, <1>4, <2>1, RequestedInput DEF AnswerStored, Replays, HasStored
<1>5. ASSUME NEW h \in Handlers, NEW t \in Readings, AnswerMinted(h, t)
      PROVE  \E x \in Handlers, y \in Readings :
               AnswerMinted(x, y) /\ run[x].token = token
  <2>1. \A a \in answers' : a \in answers \/ a.token = run[h].token
    BY <1>5 DEF AnswerMinted, Respond
  <2>2. \A q \in RequestIds, u \in Users :
          \/ stored'[<<q, u>>] = stored[<<q, u>>]
          \/ stored'[<<q, u>>].token = run[h].token
    BY <1>5 DEF AnswerMinted, TokenTypeOK
  <2> QED
    BY <1>5, <2>1, <2>2 DEF Released
<1>6. ASSUME NEW h \in Handlers,
             \/ Refuse(h)
             \/ \E t \in Readings : MintToken(h, t)
             \/ \E q \in RequestIds \cup {None}, input \in Requested,
                   t \in Readings : RequestToken(h, q, input, t)
      PROVE  FALSE
  BY <1>1, <1>6 DEF Refuse, MintToken, RequestToken
<1>7. CASE UNCHANGED tokenVars \/ UNCHANGED allVars
  BY <1>1, <1>7 DEF tokenVars, allVars
<1> QED
  BY <1>3, <1>4, <1>5, <1>6, <1>7 DEF TokenNext

\* The token is for a party of an answered call, its media and its device.
Granted(token) ==
  /\ call[token.call].status \in {"active", "ended"}
  /\ token.user \in Participants(token.call)
  /\ token.media = call[token.call].media
  /\ Bound(token.call, token.user, token.device)

GrantsInductive == \A token \in Token : Held(token) \/ Released(token) => Granted(token)

\* What a token grants stays granted, whatever happens to the call.
LEMMA GrantsLast ==
  ASSUME TypeOK, [Next]_vars, NEW token \in Token, Granted(token)
  PROVE  Granted(token)'
<1>1. token.call \in Calls
  BY DEF Token
<1>2. CallStep(token.call)
  BY <1>1, NextIsCallStep
<1>3. call[token.call] \in CallDocument
  BY <1>1 DEF TypeOK
<1>4. /\ call'[token.call].status \in {"active", "ended"}
      /\ call'[token.call].caller = call[token.call].caller
      /\ call'[token.call].callee = call[token.call].callee
      /\ call'[token.call].media = call[token.call].media
      /\ call'[token.call].callerDevice = call[token.call].callerDevice
      /\ call'[token.call].calleeDevice = call[token.call].calleeDevice
  BY <1>2, <1>3 DEF Granted, CallStep, CallDocument
<1> QED
  BY <1>4 DEF Granted, Participants, Bound

\* A signature grants what was authorized.
LEMMA SignatureGrants ==
  ASSUME TokenTypeOK, NEW h \in Handlers, NEW t \in Readings, MintToken(h, t)
  PROVE  Granted(run'[h].token)
<1> DEFINE input == run[h].input
<1>1. /\ run'[h].token.user = input.user
      /\ run'[h].token.call = input.call
      /\ run'[h].token.device = input.device
      /\ run'[h].token.media = call[input.call].media
  BY DEF MintToken, TokenTypeOK
<1>2. Authorized(input.call, input.user, input.device, input.acknowledges, t)
  BY DEF MintToken, AuthorizedRequest
<1> QED
  BY <1>1, <1>2 DEF Granted, Authorized

LEMMA TokenNextKeepsGrants ==
  ASSUME TypeOK, TokenTypeOK, GrantsInductive, [TokenNext]_allVars
  PROVE  GrantsInductive'
<1> SUFFICES ASSUME NEW token \in Token, Held(token)' \/ Released(token)'
             PROVE  Granted(token)'
  BY DEF GrantsInductive
<1>1. CASE Held(token) \/ Released(token)
  BY <1>1, TokenStepIsCallStep, GrantsLast DEF GrantsInductive
<1>2. CASE ~Held(token) /\ ~Released(token)
  <2>1. Held(token)'
    BY <1>2, OnlyRecordingReleases DEF AnswerMinted, Held
  <2>2. PICK h \in Handlers, t \in Readings : MintToken(h, t) /\ run'[h].token = token
    BY <1>2, <2>1, OnlySigningHolds
  <2>3. Granted(token)
    BY <2>2, SignatureGrants
  <2> QED
    BY <2>3, TokenStepIsCallStep, GrantsLast
<1> QED
  BY <1>1, <1>2

\* Every token that left the server grants exactly what the call settled on.
THEOREM TokensGrantTheAnswer == TokenSpec => []TokenMatchesAnswer
<1>1. TokenInit => GrantsInductive
  BY NothingSignedFirst DEF GrantsInductive
<1>2. TypeOK /\ TokenTypeOK /\ GrantsInductive /\ [TokenNext]_allVars
        => GrantsInductive'
  BY TokenNextKeepsGrants
<1>3. TokenTypeOK /\ GrantsInductive => TokenMatchesAnswer
  BY DEF TokenTypeOK, GrantsInductive, Granted, Released, TokenMatchesAnswer
<1>4. TokenSpec => []TypeOK
  BY TokensImplementCalls, TypeCorrect DEF CallsSpec
<1> QED
  BY <1>1, <1>2, <1>3, <1>4, TokenTypeCorrect, PTL DEF TokenSpec

(***************************************************************************)
(* Revocation.  A released token has its session mirror until the teardown *)
(* of its call or the deletion of its account takes the mirror away.       *)
(***************************************************************************)

Indexed(token) ==
  \/ token.user \in mirror[token.call]
  \/ call[token.call].status = "ended"
  \/ token.user \in frozen

IndexInductive == \A token \in Token : Released(token) => Indexed(token)

\* Only a delivery for a call that is over and the revocation of a frozen
\* account delete session mirrors.
LEMMA MirrorsOutliveCalls ==
  ASSUME SessionsInductive, [Next]_vars, NEW c \in Calls, NEW u \in Users,
         u \in mirror[c], u \notin mirror'[c]
  PROVE  call'[c].status = "ended" \/ u \in frozen'
<1>1. ASSUME mirror' = mirror PROVE FALSE
  BY <1>1
<1>2. ASSUME NEW w \in Workers, DeleteSessions(w)
      PROVE  call'[c].status = "ended"
  <2>1. /\ worker[w].phase # "idle" /\ call' = call
        /\ mirror' = [mirror EXCEPT ![worker[w].call] = {}]
    BY <1>2 DEF DeleteSessions, At, WorkerStep
  <2>2. worker[w].call = c
    BY <2>1 DEF SessionsInductive, TypeOK
  <2> QED
    BY <2>1, <2>2 DEF SessionsInductive, DeliveriesFollowCalls
<1>3. ASSUME NEW d \in Calls, NEW v \in Users, NEW device \in DeviceOrNone,
             NEW acknowledges \in BOOLEAN, NEW t \in Readings,
             RecordSession(d, v, device, acknowledges, t)
      PROVE  FALSE
  BY <1>3 DEF RecordSession, SessionsInductive, TypeOK
<1>4. ASSUME NEW v \in MayFreeze, RevokeAccount(v)
      PROVE  u \in frozen'
  BY <1>4 DEF RevokeAccount, SessionsInductive, TypeOK
<1>5. ASSUME NEW d \in Calls, NEW v \in Users, NEW x \in Users, NEW media \in Media,
             NEW device \in DeviceOrNone, NEW t \in Readings,
             Start(d, v, x, media, device, t)
      PROVE  FALSE
  BY <1>1, <1>5 DEF Start
<1>6. ASSUME NEW d \in Calls, NEW device \in DeviceOrNone,
             NEW acknowledges \in BOOLEAN, NEW t \in Readings,
             Accept(d, device, acknowledges, t)
      PROVE  FALSE
  BY <1>1, <1>6 DEF Accept
<1>7. ASSUME NEW d \in Calls,
             \/ Decline(d) \/ Cancel(d) \/ End(d)
             \/ \E t \in Readings : Expire(d, t)
             \/ EraseSignal(d) \/ EraseNotifications(d)
      PROVE  FALSE
  BY <1>1, <1>7 DEF Decline, Cancel, End, Finish, Expire, EraseSignal,
                    EraseNotifications
<1>8. ASSUME NEW w \in Workers,
             \/ \E d \in Calls : Deliver(w, d)
             \/ CloseRoom(w) \/ StepFails(w)
             \/ CompleteJob(w) \/ MarkRetrying(w) \/ Crash(w)
      PROVE  FALSE
  BY <1>1, <1>8 DEF Deliver, CloseRoom, StepFails, CompleteJob, MarkRetrying, Crash
<1>9. ASSUME \/ Tick \/ UNCHANGED vars
             \/ \E pair \in MayBar : ToggleBar(pair)
             \/ \E v \in MayFreeze : FreezeAccount(v)
      PROVE  FALSE
  BY <1>1, <1>9 DEF Tick, vars, ToggleBar, FreezeAccount
<1> QED
  BY <1>2, <1>3, <1>4, <1>5, <1>6, <1>7, <1>8, <1>9 DEF Next, CallNext

\* A frozen account stays frozen.
LEMMA FrozenForGood == ASSUME [Next]_vars PROVE frozen \subseteq frozen'
<1>1. ASSUME frozen' = frozen PROVE frozen \subseteq frozen'
  BY <1>1
<1>2. ASSUME NEW u \in MayFreeze, FreezeAccount(u) \/ RevokeAccount(u)
      PROVE  frozen \subseteq frozen'
  BY <1>2 DEF FreezeAccount, RevokeAccount
<1>3. ASSUME NEW c \in Calls, NEW u \in Users, NEW v \in Users,
             NEW media \in Media, NEW device \in DeviceOrNone,
             NEW t \in Readings, Start(c, u, v, media, device, t)
      PROVE  frozen \subseteq frozen'
  BY <1>1, <1>3 DEF Start
<1>4. ASSUME NEW c \in Calls, NEW device \in DeviceOrNone,
             NEW acknowledges \in BOOLEAN, NEW t \in Readings,
             Accept(c, device, acknowledges, t)
      PROVE  frozen \subseteq frozen'
  BY <1>1, <1>4 DEF Accept
<1>5. ASSUME NEW c \in Calls,
             \/ Decline(c) \/ Cancel(c) \/ End(c)
             \/ \E t \in Readings : Expire(c, t)
             \/ EraseSignal(c) \/ EraseNotifications(c)
      PROVE  frozen \subseteq frozen'
  BY <1>1, <1>5 DEF Decline, Cancel, End, Finish, Expire, EraseSignal,
                    EraseNotifications
<1>6. ASSUME NEW w \in Workers,
             \/ \E c \in Calls : Deliver(w, c)
             \/ CloseRoom(w) \/ DeleteSessions(w) \/ StepFails(w)
             \/ CompleteJob(w) \/ MarkRetrying(w) \/ Crash(w)
      PROVE  frozen \subseteq frozen'
  BY <1>1, <1>6 DEF Deliver, CloseRoom, DeleteSessions, StepFails, CompleteJob,
                    MarkRetrying, Crash, WorkerStep
<1>7. ASSUME NEW c \in Calls, NEW u \in Users, NEW device \in DeviceOrNone,
             NEW acknowledges \in BOOLEAN, NEW t \in Readings,
             RecordSession(c, u, device, acknowledges, t)
      PROVE  frozen \subseteq frozen'
  BY <1>1, <1>7 DEF RecordSession
<1>8. ASSUME Tick \/ UNCHANGED vars \/ \E pair \in MayBar : ToggleBar(pair)
      PROVE  frozen \subseteq frozen'
  BY <1>1, <1>8 DEF Tick, vars, ToggleBar
<1> QED
  BY <1>2, <1>3, <1>4, <1>5, <1>6, <1>7, <1>8 DEF Next, CallNext

LEMMA IndexLasts ==
  ASSUME SessionsInductive, [Next]_vars, NEW token \in Token, Indexed(token)
  PROVE  Indexed(token)'
<1>1. token.call \in Calls /\ token.user \in Users
  BY DEF Token
<1>2. CASE token.user \in mirror[token.call]
  BY <1>1, <1>2, MirrorsOutliveCalls DEF Indexed
<1>3. CASE call[token.call].status = "ended"
  <2>1. call'[token.call] = call[token.call]
    BY <1>1, <1>3, NextIsCallStep DEF CallStep, SessionsInductive
  <2> QED
    BY <1>3, <2>1 DEF Indexed
<1>4. CASE token.user \in frozen
  BY <1>4, FrozenForGood DEF Indexed
<1> QED
  BY <1>2, <1>3, <1>4 DEF Indexed

LEMMA TokenNextKeepsIndex ==
  ASSUME SessionsInductive, TokenTypeOK, RunsSignWhatIsAsked, IndexInductive,
         [TokenNext]_allVars
  PROVE  IndexInductive'
<1> SUFFICES ASSUME NEW token \in Token, Released(token)' PROVE Indexed(token)'
  BY DEF IndexInductive
<1>1. CASE Released(token)
  BY <1>1, TokenStepIsCallStep, IndexLasts DEF IndexInductive
<1>2. CASE ~Released(token)
  <2>1. PICK h \in Handlers, t \in Readings :
          AnswerMinted(h, t) /\ run[h].token = token
    BY <1>2, OnlyRecordingReleases
  <2>2. run[h].input.call = token.call /\ run[h].input.user = token.user
    BY <2>1 DEF AnswerMinted, RunsSignWhatIsAsked
  <2>3. mirror' = [mirror EXCEPT ![token.call] = @ \cup {token.user}]
    BY <2>1, <2>2 DEF AnswerMinted, Revalidate, RecordSession
  <2> QED
    BY <2>3 DEF Indexed, Token, SessionsInductive, TypeOK
<1> QED
  BY <1>1, <1>2

\* The calls with the handler in place keep their teardown in order.
LEMMA SessionsStayInOrder == TokenSpec => []SessionsInductive
<1>1. Init => SessionsInductive
  BY InitTyped DEF Init, SessionsInductive, SessionsTornDown,
                   DeliveriesFollowCalls, NoCall, Idle
<1> QED
  BY <1>1, NextKeepsSessions, TokensImplementCalls, PTL DEF CallsSpec, Spec

\* Whatever overtakes the handler, a token that left the server is indexed for
\* revocation until the call or the account is being torn down.
THEOREM TokensCanBeRevoked == TokenSpec => []TokensIndexed
<1>1. TokenInit => RunsSignWhatIsAsked /\ IndexInductive /\ AnswersInductive
  BY NothingSignedFirst
  DEF IndexInductive, TokenInit, AnswersInductive, RunsSignWhatIsAsked,
      LedgersBelongToTheirOwner, AnswersAreStored, Ready
<1>2. TokenTypeOK /\ AnswersInductive /\ SessionsInductive /\ IndexInductive
        /\ [TokenNext]_allVars => AnswersInductive' /\ IndexInductive'
  BY TokenNextKeepsAnswers, TokenNextKeepsIndex DEF AnswersInductive
<1>3. TokenTypeOK /\ IndexInductive => TokensIndexed
  BY DEF TokenTypeOK, IndexInductive, Indexed, Released, TokensIndexed
<1> QED
  BY <1>1, <1>2, <1>3, SessionsStayInOrder, TokenTypeCorrect, PTL DEF TokenSpec

=============================================================================
