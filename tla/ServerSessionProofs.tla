-------------------------- MODULE ServerSessionProofs --------------------------
(***************************************************************************)
(* Theorems about ServerSession, for any number of accounts, generations,  *)
(* workers and requests.                                                   *)
(***************************************************************************)
EXTENDS ServerSession, TLAPS

------------------------
(* Types *)

\* An invocation in one of its phases is a pass of the end job.
LEMMA PassTyped ==
  ASSUME TypeOK, NEW w \in Workers, worker[w].phase # "idle"
  PROVE  worker[w] \in EndPass
BY DEF TypeOK, Idle

\* An invocation in one of its phases is a reconcile.
LEMMA ReconcileTyped ==
  ASSUME TypeOK, NEW r \in Revokers, revoker[r].phase # "idle"
  PROVE  revoker[r] \in Reconcile
BY DEF TypeOK, Idle

\* The records the operations write.
LEMMA RecordsTyped ==
  /\ NoRecipient \in Recipient
  /\ NoJob \in Job
  /\ [NoJob EXCEPT !.status = "pending"] \in Job
  /\ \A s \in Sessions : DeleteOnly(s) \in EndPass
<1>1. NoRecipient \in Recipient
  BY SessionConstantsAssumption DEF NoRecipient, Recipient, Revisions
<1>2. NoJob \in Job /\ [NoJob EXCEPT !.status = "pending"] \in Job
  BY DEF NoJob, Job
<1> QED
  BY <1>1, <1>2 DEF DeleteOnly, EndPass

\* A recipient stays one through each of the updates made to it.
LEMMA SettledTyped ==
  ASSUME NEW x \in Recipient PROVE Settled(x) \in Recipient
BY DEF Settled, Recipient

LEMMA LiftedTyped ==
  ASSUME NEW x \in Recipient PROVE [x EXCEPT !.cooling = FALSE] \in Recipient
BY DEF Recipient

LEMMA FenceTyped ==
  ASSUME NEW x \in Recipient PROVE Fence(x) \in Recipient
<1> DEFINE e == IF x.state = "active" THEN x.epoch + 1 ELSE x.epoch
<1>1. e \in Nat
  BY DEF Recipient
<1> HIDE DEF e
<1>2. [x EXCEPT !.state = "revoking", !.epoch = e] \in Recipient
  BY <1>1 DEF Recipient
<1> QED
  BY <1>2 DEF Fence, e

LEMMA AttemptedTyped ==
  ASSUME NEW x \in Recipient, NEW r \in Revokers
  PROVE  Attempted(x, r) \in Recipient
<1> DEFINE attempt == [by |-> r, epoch |-> x.epoch + 1, state |-> "pending"]
<1>1. x.epoch + 1 \in Nat
  BY DEF Recipient
<1>2. attempt \in Attempt
  BY <1>1 DEF Attempt
<1> HIDE DEF attempt
<1>3. [x EXCEPT !.state = "revoking", !.epoch = x.epoch + 1, !.attempt = attempt]
        \in Recipient
  BY <1>1, <1>2 DEF Recipient
<1> QED
  BY <1>3 DEF Attempted, attempt

LEMMA AnsweredTyped ==
  ASSUME NEW x \in Recipient, NEW state \in {"uncertain", "acknowledged"},
         x.attempt # None
  PROVE  Answered(x, state) \in Recipient
<1> DEFINE attempt == [x.attempt EXCEPT !.state = state]
<1>1. x.attempt \in Attempt
  BY DEF Recipient
<1>2. attempt \in Attempt
  BY <1>1 DEF Attempt
<1> HIDE DEF attempt
<1>3. [x EXCEPT !.attempt = attempt] \in Recipient
  BY <1>2 DEF Recipient
<1> QED
  BY <1>3 DEF Answered, attempt

\* A job stays one as its lease and its cursor change.
LEMMA LeasedTyped ==
  ASSUME NEW j \in Job, NEW w \in Workers \cup {None}
  PROVE  Leased(j, w) \in Job
BY DEF Job, Leased

LEMMA JobTyped ==
  ASSUME NEW j \in Job
  PROVE  /\ [j EXCEPT !.expired = TRUE] \in Job
         /\ [j EXCEPT !.status = "completed"] \in Job
         /\ \A n \in Nat, b \in BOOLEAN :
              [j EXCEPT !.cursor = n, !.checkpoint = b] \in Job
BY DEF Job

LEMMA InitTypes == Init => TypeOK
BY RecordsTyped, SessionConstantsAssumption
DEF Init, TypeOK, SessionOrNone, Revisions

LEMMA StepTypes == TypeOK /\ [Next]_vars => TypeOK'
<1> SUFFICES ASSUME TypeOK, [Next]_vars PROVE TypeOK'
  OBVIOUS
<1>1. ASSUME NEW s \in Sessions, Start(s) PROVE TypeOK'
  BY <1>1 DEF Start, TypeOK, SessionOrNone, ledgers, runs
<1>2. ASSUME NEW s \in Sessions, End(s) PROVE TypeOK'
  BY <1>2, RecordsTyped DEF End, StageEnd, TypeOK, SessionOrNone, ledgers, runs
<1>3. ASSUME NEW s \in Sessions, LeaseLapses(s) PROVE TypeOK'
  <2>1. [job[s] EXCEPT !.expired = TRUE] \in Job
    BY JobTyped DEF TypeOK
  <2> QED
    BY <1>3, <2>1 DEF LeaseLapses, TypeOK, ledgers, runs, pointers
<1>4. ASSUME NEW h \in Handlers, NEW u \in Users, NEW s \in Sessions,
             NEW q \in Requests, Preflight(h, u, s, q)
      PROVE TypeOK'
  <2>1. IssuedEpoch(u, s) \in Nat
    BY DEF IssuedEpoch, TypeOK, Recipient
  <2>2. [phase |-> "minted", session |-> s, user |-> u, request |-> q,
         authority |-> standing[u], epoch |-> IssuedEpoch(u, s)] \in Minted
    BY <2>1 DEF Minted, TypeOK
  <2> QED
    BY <1>4, <2>2 DEF Preflight, TypeOK, ledgers, pointers
<1>5. ASSUME NEW h \in Handlers, Disclose(h) PROVE TypeOK'
  <2> DEFINE m == handler[h]
  <2>1. m \in Minted
    BY <1>5 DEF Disclose, TypeOK, Idle
  <2>2. /\ [state |-> "active", epoch |-> m.epoch, authority |-> m.authority,
            cooling |-> FALSE, attempt |-> None] \in Recipient
        /\ [session |-> m.session, authority |-> m.authority] \in Entry
        /\ [session |-> m.session, authority |-> m.authority,
            epoch |-> m.epoch] \in Access
        /\ [session |-> m.session, user |-> m.user, epoch |-> m.epoch] \in Token
        /\ m.session \in Sessions /\ m.user \in Users /\ m.request \in Requests
    BY <2>1 DEF Minted, Recipient, Entry, Access, Token
  <2> HIDE DEF m
  <2> QED
    BY <1>5, <2>2 DEF Disclose, TypeOK, pointers, m
<1>6. ASSUME NEW h \in Handlers, Abandon(h) PROVE TypeOK'
  BY <1>6 DEF Abandon, TypeOK, pointers, ledgers
<1>7. ASSUME NEW w \in Workers, NEW s \in Sessions, NEW top \in Users \cup {0},
             ClaimPage(w, s, top)
      PROVE TypeOK'
  <2> DEFINE page == Page(s, top)
             fenced == [u \in Users |-> IF u \in page THEN Fence(recipient[s][u])
                                                      ELSE recipient[s][u]]
             pass == [phase |-> "revoke", session |-> s, page |-> page,
                      top |-> top,
                      seen |-> [u \in Users |-> IF u \in page THEN fenced[u]
                                                              ELSE NoRecipient],
                      todo |-> {u \in page : recipient[s][u].state # "revoked"},
                      failed |-> FALSE, last |-> Tail(s, top) = {}]
  <2>1. page \subseteq Users
    BY DEF Page, Tail
  <2>2. fenced \in [Users -> Recipient]
    BY FenceTyped DEF TypeOK
  <2>3. top \in Nat
    BY SessionConstantsAssumption
  <2> HIDE DEF page, fenced
  <2>4. pass \in EndPass
    BY <2>1, <2>2, <2>3, RecordsTyped DEF EndPass
  <2>5. job' \in [Sessions -> Job]
    BY <1>7, LeasedTyped DEF ClaimPage, TypeOK
  <2>6. /\ recipient' = [recipient EXCEPT ![s] = fenced]
        /\ worker' = [worker EXCEPT ![w] = pass]
    BY <1>7 DEF ClaimPage, page, fenced
  <2> HIDE DEF pass
  <2>7. /\ recipient' \in [Sessions -> [Users -> Recipient]]
        /\ worker' \in [Workers -> EndPass \cup {Idle}]
    BY <2>2, <2>4, <2>6 DEF TypeOK
  <2>8. UNCHANGED <<session, active, room, roster, mirror, receipt, revoker,
                    handler, standing, admitted, frozen, usable>>
    BY <1>7 DEF ClaimPage, pointers
  <2> QED
    BY <2>5, <2>7, <2>8 DEF TypeOK
<1>8. ASSUME NEW w \in Workers, NEW s \in Sessions, ClaimDelete(w, s)
      PROVE TypeOK'
  <2>1. job' \in [Sessions -> Job]
    BY <1>8, LeasedTyped DEF ClaimDelete, TypeOK
  <2> QED
    BY <1>8, <2>1, RecordsTyped DEF ClaimDelete, TypeOK, ledgers, pointers
<1>9. ASSUME NEW w \in Workers, NEW u \in Users,
             RevokeOne(w, u) \/ RevokeOneFails(w, u)
      PROVE TypeOK'
  <2>1. worker[w] \in EndPass
    BY <1>9, PassTyped DEF RevokeOne, RevokeOneFails, At
  <2>2. /\ [worker[w] EXCEPT !.todo = @ \ {u}] \in EndPass
        /\ [worker[w] EXCEPT !.todo = @ \ {u}, !.failed = TRUE] \in EndPass
    BY <2>1 DEF EndPass
  <2>3. worker' \in [Workers -> EndPass \cup {Idle}]
    BY <1>9, <2>2 DEF RevokeOne, RevokeOneFails, WorkerStep, TypeOK
  <2>4. usable' \subseteq usable
    BY <1>9 DEF RevokeOne, RevokeOneFails, Cut
  <2>5. UNCHANGED <<session, active, room, recipient, roster, mirror, receipt, job,
                    revoker, handler, standing, admitted, frozen>>
    BY <1>9 DEF RevokeOne, RevokeOneFails, WorkerStep, pointers
  <2> QED
    BY <2>3, <2>4, <2>5 DEF TypeOK
<1>10. ASSUME NEW w \in Workers, Receipt(w) PROVE TypeOK'
  <2> DEFINE s == worker[w].session
  <2>1. worker[w] \in EndPass /\ s \in Sessions
    BY <1>10, PassTyped DEF Receipt, Revoked, At, EndPass
  <2>2. NextCursor(w) \in Nat
    BY <2>1 DEF NextCursor, TypeOK, EndPass, Job
  <2>3. worker[w].last \in BOOLEAN
    BY <2>1 DEF EndPass
  <2>4. job' \in [Sessions -> Job]
    <3> DEFINE last == worker[w].last
               leased == Leased(job[s], IF last THEN w ELSE None)
    <3>1. leased \in Job
      BY <2>1, LeasedTyped DEF TypeOK
    <3>2. job' = [job EXCEPT ![s] =
            [leased EXCEPT !.cursor = NextCursor(w), !.checkpoint = last]]
      BY <1>10 DEF Receipt
    <3> HIDE DEF leased, s
    <3>3. [leased EXCEPT !.cursor = NextCursor(w), !.checkpoint = last] \in Job
      BY <2>2, <2>3, <3>1, JobTyped
    <3> QED
      BY <2>1, <3>2, <3>3 DEF TypeOK
  <2>6. recipient' \in [Sessions -> [Users -> Recipient]]
    BY <1>10, <2>1, SettledTyped DEF Receipt, TypeOK
  <2>7. worker' \in [Workers -> EndPass \cup {Idle}]
    BY <1>10, <2>1, RecordsTyped DEF Receipt, WorkerStep, TypeOK
  <2>8. /\ roster' \in [Users -> Entry \cup {None}]
        /\ mirror' \in [Users -> Access \cup {None}]
    BY <1>10 DEF Receipt, TypeOK
  <2> QED
    BY <1>10, <2>4, <2>6, <2>7, <2>8 DEF Receipt, WorkerStep, TypeOK, pointers
<1>11. ASSUME NEW w \in Workers, Prepare(w) \/ Defer(w) PROVE TypeOK'
  <2>1. worker[w] \in EndPass
    BY <1>11, PassTyped DEF Prepare, Defer, At
  <2>2. [worker[w] EXCEPT !.phase = "endRoom"] \in EndPass
    BY <2>1 DEF EndPass
  <2>3. worker[w].session \in Sessions
    BY <2>1 DEF EndPass
  <2>4. \E x \in {w, None} : job' = [job EXCEPT ![worker[w].session] =
                                Leased(job[worker[w].session], x)]
    BY <1>11 DEF Prepare, Defer
  <2>5. job' \in [Sessions -> Job]
    BY <2>3, <2>4, LeasedTyped DEF TypeOK
  <2>6. worker' \in [Workers -> EndPass \cup {Idle}]
    BY <1>11, <2>2 DEF Prepare, Defer, WorkerStep, TypeOK
  <2>7. UNCHANGED <<session, active, room, recipient, roster, mirror, receipt,
                    revoker, handler, standing, admitted, frozen, usable>>
    BY <1>11 DEF Prepare, Defer, WorkerStep, pointers
  <2> QED
    BY <2>5, <2>6, <2>7 DEF TypeOK
<1>12. ASSUME NEW w \in Workers,
              EndRoom(w) \/ Lost(w) \/ Fail(w) \/ Crash(w) PROVE TypeOK'
  <2>1. EndRoom(w) \/ Fail(w) => worker[w] \in EndPass
    BY PassTyped DEF EndRoom, Fail, Revoked, At
  <2>2. worker[w] \in EndPass =>
          /\ [worker[w] EXCEPT !.phase = "final"] \in EndPass
          /\ [worker[w] EXCEPT !.phase = "fail"] \in EndPass
    BY DEF EndPass
  <2>3. worker' \in [Workers -> EndPass \cup {Idle}]
    BY <1>12, <2>1, <2>2 DEF EndRoom, Lost, Fail, Crash, WorkerStep, TypeOK
  <2>4. UNCHANGED <<session, active, room, recipient, roster, mirror, receipt, job,
                    revoker, handler, standing, admitted, frozen, usable>>
    BY <1>12 DEF EndRoom, Lost, Fail, Crash, WorkerStep, pointers
  <2> QED
    BY <2>3, <2>4 DEF TypeOK
<1>13. ASSUME NEW w \in Workers, Final(w) PROVE TypeOK'
  <2>1. worker[w] \in EndPass
    BY <1>13, PassTyped DEF Final, At
  <2>2. job' \in [Sessions -> Job]
    BY <1>13, <2>1, LeasedTyped, JobTyped DEF Final, TypeOK, EndPass
  <2>3. room' \in [live : SessionOrNone, cleanup : SessionOrNone]
    BY <1>13 DEF Final, Release, TypeOK, SessionOrNone
  <2> QED
    BY <1>13, <2>1, <2>2, <2>3 DEF Final, TypeOK, ledgers, EndPass
<1>14. ASSUME NEW w \in Workers, ReleaseLease(w) PROVE TypeOK'
  <2>1. worker[w] \in EndPass
    BY <1>14, PassTyped DEF ReleaseLease, At
  <2>2. job' \in [Sessions -> Job]
    BY <1>14, <2>1, LeasedTyped DEF ReleaseLease, TypeOK, EndPass
  <2> QED
    BY <1>14, <2>2 DEF ReleaseLease, WorkerStep, TypeOK, pointers
<1>15. ASSUME NEW r \in Revokers, NEW u \in Users, NEW s \in Sessions,
              PlanRevocation(r, u, s)
       PROVE TypeOK'
  <2>1. recipient[s][u] \in Recipient
    BY DEF TypeOK
  <2>2. recipient' \in [Sessions -> [Users -> Recipient]]
    BY <1>15, <2>1, AttemptedTyped DEF PlanRevocation, TypeOK
  <2>3. [phase |-> "provider", session |-> s, user |-> u,
         epoch |-> recipient[s][u].epoch + 1] \in Reconcile
    BY <2>1 DEF Recipient, Reconcile
  <2> QED
    BY <1>15, <2>2, <2>3 DEF PlanRevocation, TypeOK, pointers
<1>16. ASSUME NEW r \in Revokers,
              RevokeOnline(r) \/ RevokeUnanswered(r) \/ RevokerCrash(r)
       PROVE TypeOK'
  <2>1. RevokeOnline(r) \/ RevokeUnanswered(r) => revoker[r] \in Reconcile
    BY ReconcileTyped DEF RevokeOnline, RevokeUnanswered
  <2>2. revoker[r] \in Reconcile =>
          /\ [revoker[r] EXCEPT !.phase = "acknowledge"] \in Reconcile
          /\ [revoker[r] EXCEPT !.phase = "doubt"] \in Reconcile
    BY DEF Reconcile
  <2>3. revoker' \in [Revokers -> Reconcile \cup {Idle}]
    BY <1>16, <2>1, <2>2
    DEF RevokeOnline, RevokeUnanswered, RevokerCrash, RevokerStep, TypeOK
  <2>4. usable' \subseteq usable
    BY <1>16 DEF RevokeOnline, RevokeUnanswered, RevokerCrash, Cut
  <2>5. UNCHANGED <<session, active, room, recipient, roster, mirror, receipt, job,
                    worker, handler, standing, admitted, frozen>>
    BY <1>16 DEF RevokeOnline, RevokeUnanswered, RevokerCrash, RevokerStep, pointers
  <2> QED
    BY <2>3, <2>4, <2>5 DEF TypeOK
<1>17. ASSUME NEW r \in Revokers, Doubt(r) \/ Acknowledge(r) PROVE TypeOK'
  <2> DEFINE s == revoker[r].session
             u == revoker[r].user
             x == recipient[s][u]
  <2>1. revoker[r] \in Reconcile /\ s \in Sessions /\ u \in Users
    BY <1>17, ReconcileTyped DEF Doubt, Acknowledge, Reconcile
  <2> HIDE DEF s, u
  <2>2. x \in Recipient
    BY <2>1 DEF TypeOK
  <2>3. Own(r) => /\ Answered(x, "uncertain") \in Recipient
                  /\ Answered(Settled(x), "acknowledged") \in Recipient
    <3> HIDE DEF x
    <3>1. Settled(x) \in Recipient /\ Settled(x).attempt = x.attempt
      BY <2>2 DEF Settled, Recipient
    <3>2. Own(r) => x.attempt # None
      BY DEF Own, x, s, u
    <3> QED
      BY <2>2, <3>1, <3>2, AnsweredTyped
  <2>4. \/ UNCHANGED recipient
        \/ Own(r) /\ recipient' = [recipient EXCEPT ![s][u] =
                                    Answered(x, "uncertain")]
        \/ Own(r) /\ recipient' = [recipient EXCEPT ![s][u] =
                                    Answered(Settled(x), "acknowledged")]
    BY <1>17, <2>1 DEF Doubt, Acknowledge, TypeOK, s, u, x
  <2> HIDE DEF x
  <2>5. recipient' \in [Sessions -> [Users -> Recipient]]
    <3>1. ASSUME NEW y \in Recipient,
                 recipient' = [recipient EXCEPT ![s][u] = y]
          PROVE  recipient' \in [Sessions -> [Users -> Recipient]]
      BY <2>1, <3>1 DEF TypeOK
    <3>2. CASE UNCHANGED recipient
      BY <3>2 DEF TypeOK
    <3> QED
      BY <2>3, <2>4, <3>1, <3>2
  <2>6. mirror' \in [Users -> Access \cup {None}]
    BY <1>17, <2>1 DEF Doubt, Acknowledge, TypeOK, s, u
  <2> QED
    BY <1>17, <2>5, <2>6 DEF Doubt, Acknowledge, RevokerStep, TypeOK, pointers
<1>18. ASSUME NEW u \in Users, NEW s \in Sessions, BarrierLifts(u, s)
       PROVE TypeOK'
  <2>1. [recipient[s][u] EXCEPT !.cooling = FALSE] \in Recipient
    BY LiftedTyped DEF TypeOK
  <2> QED
    BY <1>18, <2>1 DEF BarrierLifts, TypeOK, pointers, runs
<1>19. ASSUME NEW u \in Users, ChangeStanding(u) PROVE TypeOK'
  BY <1>19, SessionConstantsAssumption
  DEF ChangeStanding, TypeOK, Revisions, pointers, ledgers, runs
<1>20. ASSUME NEW u \in MaySanction, ToggleAdmission(u) PROVE TypeOK'
  BY <1>20, SessionConstantsAssumption
  DEF ToggleAdmission, TypeOK, pointers, ledgers, runs
<1>21. ASSUME NEW u \in MayFreeze, FreezeAccount(u) \/ RevokeAccount(u)
       PROVE  TypeOK'
  BY <1>21 DEF FreezeAccount, RevokeAccount, TypeOK, pointers, ledgers, runs
<1>22. CASE UNCHANGED vars
  BY <1>22 DEF vars, TypeOK, pointers, ledgers, runs
<1> QED
  BY <1>1, <1>2, <1>3, <1>4, <1>5, <1>6, <1>7, <1>8, <1>9, <1>10, <1>11, <1>12,
     <1>13, <1>14, <1>15, <1>16, <1>17, <1>18, <1>19, <1>20, <1>21, <1>22
     DEF Next

\* Every document keeps its shape in every state the functions can produce.
THEOREM TypeCorrect == Spec => []TypeOK
BY InitTypes, StepTypes, PTL DEF Spec

------------------------
(* Generations *)

\* A lease changes nothing else of its job.
LEMMA LeasedFields ==
  ASSUME NEW j \in Job, NEW w \in Workers \cup {None}
  PROVE  /\ Leased(j, w).lease = w
         /\ Leased(j, w).expired = FALSE
         /\ Leased(j, w).status = j.status
         /\ Leased(j, w).cursor = j.cursor
         /\ Leased(j, w).checkpoint = j.checkpoint
BY DEF Leased, Job

LEMMA CompletedFields ==
  ASSUME NEW j \in Job
  PROVE  /\ [Leased(j, None) EXCEPT !.status = "completed"].status = "completed"
         /\ [Leased(j, None) EXCEPT !.status = "completed"].lease = None
BY DEF Leased, Job

LEMMA LeasedJob ==
  ASSUME TypeOK, NEW s \in Sessions, NEW w \in Workers \cup {None}
  PROVE  /\ Leased(job[s], w) \in Job
         /\ Leased(job[s], w).lease = w
         /\ Leased(job[s], w).expired = FALSE
         /\ Leased(job[s], w).status = job[s].status
         /\ Leased(job[s], w).cursor = job[s].cursor
         /\ Leased(job[s], w).checkpoint = job[s].checkpoint
<1>1. job[s] \in Job
  BY DEF TypeOK
<1> QED
  BY <1>1, LeasedTyped, LeasedFields

\* Only a job that is pending is leased.
LeasesArePending ==
  \A s \in Sessions : job[s].lease # None => job[s].status = "pending"

\* What every step but a start, an end and the last transaction of the worker
\* leaves as it is.
GenerationsKept ==
  /\ UNCHANGED pointers
  /\ \A s \in Sessions :
       /\ job'[s].status = job[s].status
       /\ job'[s].lease # None => job[s].lease # None \/ job[s].status = "pending"

LEMMA OtherStepsKeepGenerations ==
  ASSUME TypeOK, [Next]_vars,
         \A s \in Sessions : ~Start(s) /\ ~End(s),
         \A w \in Workers : ~Final(w)
  PROVE  GenerationsKept
<1> USE DEF GenerationsKept
<1>1. ASSUME UNCHANGED pointers, UNCHANGED job PROVE GenerationsKept
  BY <1>1
<1>2. ASSUME UNCHANGED pointers, NEW s \in Sessions, NEW w \in Workers \cup {None},
             w # None => job[s].lease # None \/ job[s].status = "pending",
             job' = [job EXCEPT ![s] = Leased(@, w)]
      PROVE  GenerationsKept
  <2> DEFINE leased == Leased(job[s], w)
  <2>1. leased.lease = w /\ leased.status = job[s].status
    BY LeasedJob
  <2>2. job' = [job EXCEPT ![s] = leased]
    BY <1>2
  <2> HIDE DEF leased
  <2> QED
    BY <1>2, <2>1, <2>2 DEF TypeOK
<1>3. ASSUME NEW s \in Sessions, LeaseLapses(s) PROVE GenerationsKept
  BY <1>3 DEF LeaseLapses, TypeOK, Job
<1>4. ASSUME NEW w \in Workers, NEW s \in Sessions, NEW top \in Users \cup {0},
             ClaimPage(w, s, top)
      PROVE  GenerationsKept
  BY <1>4, <1>2 DEF ClaimPage, Claimable, pointers
<1>5. ASSUME NEW w \in Workers, NEW s \in Sessions, ClaimDelete(w, s)
      PROVE  GenerationsKept
  BY <1>5, <1>2 DEF ClaimDelete, Claimable, pointers
<1>6. ASSUME NEW w \in Workers, Receipt(w) PROVE GenerationsKept
  <2> DEFINE s == worker[w].session
             last == worker[w].last
             leased == Leased(job[s], IF last THEN w ELSE None)
  <2>1. worker[w] \in EndPass
    BY <1>6, PassTyped DEF Receipt, Revoked, At
  <2>2. s \in Sessions /\ last \in BOOLEAN
    BY <2>1 DEF EndPass
  <2>3. /\ leased \in Job
        /\ leased.status = job[s].status
        /\ leased.lease = IF last THEN w ELSE None
    <3>1. (IF last THEN w ELSE None) \in Workers \cup {None}
      OBVIOUS
    <3> HIDE DEF last, s
    <3> QED
      BY <2>2, <3>1, LeasedJob
  <2>4. /\ job' = [job EXCEPT ![s] = [leased EXCEPT !.cursor = NextCursor(w),
                                                    !.checkpoint = last]]
        /\ job[s].lease = w
        /\ UNCHANGED pointers
    BY <1>6 DEF Receipt, Holds, WorkerStep
  <2>5. w # None
    BY SessionConstantsAssumption
  <2> HIDE DEF leased, s, last
  <2> QED
    BY <2>2, <2>3, <2>4, <2>5 DEF TypeOK, Job
<1>7. ASSUME NEW w \in Workers, Prepare(w) \/ Defer(w) PROVE GenerationsKept
  <2>1. worker[w].session \in Sessions
    BY <1>7, PassTyped DEF Prepare, Defer, At, EndPass
  <2>2. w # None
    BY SessionConstantsAssumption
  <2> QED
    BY <1>7, <1>2, <2>1, <2>2 DEF Prepare, Defer, WorkerStep, Holds
<1>8. ASSUME NEW w \in Workers, ReleaseLease(w) PROVE GenerationsKept
  <2>1. worker[w].session \in Sessions
    BY <1>8, PassTyped DEF ReleaseLease, At, EndPass
  <2> QED
    BY <1>8, <1>1, <1>2, <2>1 DEF ReleaseLease, WorkerStep
<1>9. CASE \E w \in Workers, u \in Users : RevokeOne(w, u) \/ RevokeOneFails(w, u)
  BY <1>9, <1>1 DEF RevokeOne, RevokeOneFails, WorkerStep
<1>10. CASE \E w \in Workers : EndRoom(w) \/ Lost(w) \/ Fail(w) \/ Crash(w)
  BY <1>10, <1>1 DEF EndRoom, Lost, Fail, Crash, WorkerStep
<1>11. CASE \/ \E h \in Handlers, u \in Users, s \in Sessions, q \in Requests :
                 Preflight(h, u, s, q)
            \/ \E h \in Handlers : Disclose(h) \/ Abandon(h)
  BY <1>11, <1>1 DEF Preflight, Disclose, Abandon
<1>12. CASE \/ \E r \in Revokers, u \in Users, s \in Sessions :
                 PlanRevocation(r, u, s)
            \/ \E r \in Revokers : \/ RevokeOnline(r) \/ RevokeUnanswered(r)
                                    \/ Doubt(r) \/ Acknowledge(r)
                                    \/ RevokerCrash(r)
  BY <1>12, <1>1
  DEF PlanRevocation, RevokeOnline, RevokeUnanswered, Doubt, Acknowledge,
      RevokerCrash, RevokerStep
<1>13. CASE \/ \E u \in Users, s \in Sessions : BarrierLifts(u, s)
            \/ \E u \in Users : ChangeStanding(u)
            \/ \E u \in MaySanction : ToggleAdmission(u)
            \/ \E u \in MayFreeze : FreezeAccount(u) \/ RevokeAccount(u)
            \/ UNCHANGED vars
  BY <1>13, <1>1 DEF BarrierLifts, ChangeStanding, ToggleAdmission, FreezeAccount,
                    RevokeAccount, ledgers, vars
<1> QED
  BY <1>3, <1>4, <1>5, <1>6, <1>7, <1>8, <1>9, <1>10, <1>11, <1>12, <1>13 DEF Next

LEMMA InitGenerations == Init => GenerationsAgree /\ LeasesArePending
BY SessionConstantsAssumption DEF Init, GenerationsAgree, LeasesArePending, NoJob

LEMMA StepGenerations ==
  TypeOK /\ GenerationsAgree /\ LeasesArePending /\ [Next]_vars
    => GenerationsAgree' /\ LeasesArePending'
<1> SUFFICES ASSUME TypeOK, GenerationsAgree, LeasesArePending, [Next]_vars
             PROVE  GenerationsAgree' /\ LeasesArePending'
  OBVIOUS
<1>1. ASSUME NEW s \in Sessions, Start(s)
      PROVE  GenerationsAgree' /\ LeasesArePending'
  BY <1>1, SessionConstantsAssumption
  DEF Start, Startable, TypeOK, GenerationsAgree, LeasesArePending
<1>2. ASSUME NEW s \in Sessions, End(s)
      PROVE  GenerationsAgree' /\ LeasesArePending'
  BY <1>2, SessionConstantsAssumption
  DEF End, StageEnd, NoJob, TypeOK, GenerationsAgree, LeasesArePending
<1>3. ASSUME NEW w \in Workers, Final(w)
      PROVE  GenerationsAgree' /\ LeasesArePending'
  <2> DEFINE s == worker[w].session
             done == [Leased(job[s], None) EXCEPT !.status = "completed"]
  <2>1. s \in Sessions
    BY <1>3, PassTyped DEF Final, At, EndPass
  <2>2. done.status = "completed" /\ done.lease = None
    <3>1. job[s] \in Job
      BY <2>1 DEF TypeOK
    <3> QED
      BY <3>1, CompletedFields
  <2>3. job[s].lease = w /\ w # None
    BY <1>3, SessionConstantsAssumption DEF Final, Holds
  <2>4. session[s] = "ending" /\ room = [live |-> None, cleanup |-> s]
    <3>1. session[s] = "ending" /\ room.cleanup = s
      <4> HIDE DEF s
      <4>1. job[s].status = "pending"
        BY <2>1, <2>3 DEF GenerationsAgree, LeasesArePending
      <4> QED
        BY <2>1, <4>1 DEF GenerationsAgree, LeasesArePending
    <3>2. room.live = None
      BY <2>1, <3>1, SessionConstantsAssumption DEF GenerationsAgree, LeasesArePending
    <3>3. room \in [live : SessionOrNone, cleanup : SessionOrNone]
      BY DEF TypeOK
    <3> HIDE DEF s
    <3> QED
      BY <3>1, <3>2, <3>3
  <2>5. /\ session' = [session EXCEPT ![s] = "ended"]
        /\ room' = [room EXCEPT !.cleanup = None]
        /\ job' = [job EXCEPT ![s] = done]
        /\ active' = active
    BY <1>3, <2>4 DEF Final, Release
  <2> HIDE DEF s, done
  <2>6. room'.live = None /\ room'.cleanup = None
    BY <2>4, <2>5
  <2> QED
    BY <2>1, <2>2, <2>4, <2>5, <2>6, SessionConstantsAssumption
    DEF TypeOK, GenerationsAgree, LeasesArePending
<1>4. CASE /\ \A s \in Sessions : ~Start(s) /\ ~End(s)
           /\ \A w \in Workers : ~Final(w)
  BY <1>4, OtherStepsKeepGenerations DEF GenerationsKept, pointers, GenerationsAgree, LeasesArePending
<1> QED
  BY <1>1, <1>2, <1>3, <1>4

\* Whatever crashes, lapses or overlaps, the session, the channel and the room
\* document agree on the one generation that is unfinished, and it has its job.
THEOREM GenerationsNeverOverlap == Spec => []GenerationsAgree
<1>1. TypeOK /\ GenerationsAgree /\ LeasesArePending /\ [Next]_vars
        => (TypeOK /\ GenerationsAgree /\ LeasesArePending)'
  BY StepTypes, StepGenerations
<1>2. Init => TypeOK /\ GenerationsAgree /\ LeasesArePending
  BY InitTypes, InitGenerations
<1> QED
  BY <1>1, <1>2, PTL DEF Spec

------------------------
(* What each operation does to one recipient *)

LEMMA FenceFields ==
  ASSUME NEW x \in Recipient
  PROVE  /\ Fence(x).authority = x.authority
         /\ Fence(x).attempt = x.attempt
         /\ x.state = "revoked" => Fence(x) = x
         /\ x.state # "revoked" => Fence(x).state = "revoking"
         /\ x.state = "active" => Fence(x).epoch = x.epoch + 1
         /\ x.state # "active" => Fence(x).epoch = x.epoch
BY DEF Fence, Recipient

LEMMA SettledFields ==
  ASSUME NEW x \in Recipient
  PROVE  /\ Settled(x).state = "revoked"
         /\ Settled(x).epoch = x.epoch
         /\ Settled(x).authority = x.authority
         /\ Settled(x).attempt = x.attempt
BY DEF Settled, Recipient

LEMMA LiftedFields ==
  ASSUME NEW x \in Recipient
  PROVE  /\ [x EXCEPT !.cooling = FALSE].state = x.state
         /\ [x EXCEPT !.cooling = FALSE].epoch = x.epoch
         /\ [x EXCEPT !.cooling = FALSE].authority = x.authority
         /\ [x EXCEPT !.cooling = FALSE].attempt = x.attempt
BY DEF Recipient

LEMMA AttemptedFields ==
  ASSUME NEW x \in Recipient, NEW r \in Revokers
  PROVE  /\ Attempted(x, r).state = "revoking"
         /\ Attempted(x, r).epoch = x.epoch + 1
         /\ Attempted(x, r).authority = x.authority
         /\ Attempted(x, r).attempt \in Attempt
         /\ Attempted(x, r).attempt.by = r
         /\ Attempted(x, r).attempt.epoch = x.epoch + 1
         /\ Attempted(x, r).attempt.state = "pending"
BY DEF Attempted, Recipient, Attempt

LEMMA AnsweredFields ==
  ASSUME NEW x \in Recipient, NEW state \in {"uncertain", "acknowledged"},
         x.attempt # None
  PROVE  /\ Answered(x, state).state = x.state
         /\ Answered(x, state).epoch = x.epoch
         /\ Answered(x, state).authority = x.authority
         /\ Answered(x, state).attempt \in Attempt
         /\ Answered(x, state).attempt.by = x.attempt.by
         /\ Answered(x, state).attempt.epoch = x.attempt.epoch
         /\ Answered(x, state).attempt.state = state
<1> DEFINE attempt == [x.attempt EXCEPT !.state = state]
<1>1. x.attempt \in Attempt
  BY DEF Recipient
<1>2. /\ attempt \in Attempt
      /\ attempt.by = x.attempt.by
      /\ attempt.epoch = x.attempt.epoch
      /\ attempt.state = state
  BY <1>1 DEF Attempt
<1> HIDE DEF attempt
<1>3. /\ [x EXCEPT !.attempt = attempt].attempt = attempt
      /\ [x EXCEPT !.attempt = attempt].state = x.state
      /\ [x EXCEPT !.attempt = attempt].epoch = x.epoch
      /\ [x EXCEPT !.attempt = attempt].authority = x.authority
  BY DEF Recipient
<1> QED
  BY <1>2, <1>3 DEF Answered, attempt

\* The deletion of an account takes its mirror away, once it has begun.
MirrorsTaken ==
  \/ UNCHANGED mirror
  \/ \E v \in frozen : mirror' = [mirror EXCEPT ![v] = None]

\* A step that is none of the seven that write a recipient changes no ledger but
\* the mirror of a deleted account, and at most takes the use of a token away.
LEMMA OtherStepsKeepLedgers ==
  ASSUME [Next]_vars,
         \A h \in Handlers : ~Disclose(h),
         \A w \in Workers, s \in Sessions, top \in Users \cup {0} :
            ~ClaimPage(w, s, top),
         \A w \in Workers : ~Receipt(w),
         \A r \in Revokers, u \in Users, s \in Sessions : ~PlanRevocation(r, u, s),
         \A r \in Revokers : ~Doubt(r) /\ ~Acknowledge(r),
         \A u \in Users, s \in Sessions : ~BarrierLifts(u, s)
  PROVE  /\ UNCHANGED <<recipient, roster, receipt>> /\ MirrorsTaken
         /\ usable' \subseteq usable
<1>0. CASE \E u \in MayFreeze : RevokeAccount(u)
  BY <1>0 DEF RevokeAccount, MirrorsTaken
<1> SUFFICES ASSUME ~\E u \in MayFreeze : RevokeAccount(u)
             PROVE  UNCHANGED ledgers /\ usable' \subseteq usable
  BY <1>0 DEF ledgers, MirrorsTaken
<1>1. CASE \E s \in Sessions : Start(s) \/ End(s) \/ LeaseLapses(s)
  BY <1>1 DEF Start, End, LeaseLapses
<1>2. CASE \/ \E h \in Handlers, u \in Users, s \in Sessions, q \in Requests :
                 Preflight(h, u, s, q)
           \/ \E h \in Handlers : Abandon(h)
  BY <1>2 DEF Preflight, Abandon
<1>3. CASE \E w \in Workers, s \in Sessions : ClaimDelete(w, s)
  BY <1>3 DEF ClaimDelete
<1>4. CASE \E w \in Workers, u \in Users : RevokeOne(w, u) \/ RevokeOneFails(w, u)
  BY <1>4 DEF RevokeOne, RevokeOneFails, Cut, WorkerStep, ledgers
<1>5. CASE \E w \in Workers : Prepare(w) \/ Defer(w) \/ EndRoom(w) \/ Final(w)
  BY <1>5 DEF Prepare, Defer, EndRoom, Final, WorkerStep, ledgers
<1>6. CASE \E w \in Workers :
             Lost(w) \/ Fail(w) \/ ReleaseLease(w) \/ Crash(w)
  BY <1>6 DEF Lost, Fail, ReleaseLease, Crash, WorkerStep, ledgers
<1>7. CASE \E r \in Revokers :
             RevokeOnline(r) \/ RevokeUnanswered(r) \/ RevokerCrash(r)
  BY <1>7 DEF RevokeOnline, RevokeUnanswered, RevokerCrash, RevokerStep, Cut,
              ledgers
<1>8. CASE \/ \E u \in Users : ChangeStanding(u)
           \/ \E u \in MaySanction : ToggleAdmission(u)
           \/ \E u \in MayFreeze : FreezeAccount(u)
           \/ UNCHANGED vars
  BY <1>8 DEF ChangeStanding, ToggleAdmission, FreezeAccount, vars
<1> QED
  BY <1>1, <1>2, <1>3, <1>4, <1>5, <1>6, <1>7, <1>8 DEF Next

\* The documents of a disclosure.
LEMMA DiscloseRecipient ==
  ASSUME TypeOK, NEW h \in Handlers, Disclose(h)
  PROVE  \A s \in Sessions, u \in Users :
           /\ s = handler[h].session /\ u = handler[h].user =>
                /\ recipient'[s][u].state = "active"
                /\ recipient'[s][u].epoch = handler[h].epoch
                /\ recipient'[s][u].authority = handler[h].authority
                /\ recipient'[s][u].attempt = None
           /\ s # handler[h].session \/ u # handler[h].user =>
                recipient'[s][u] = recipient[s][u]
<1> DEFINE m == handler[h]
<1>1. m \in Minted
  BY DEF Disclose, TypeOK, Idle
<1>2. m.session \in Sessions /\ m.user \in Users
  BY <1>1 DEF Minted
<1>3. \A s \in Sessions, u \in Users : recipient'[s][u] =
        IF s = m.session /\ u = m.user
        THEN [state |-> "active", epoch |-> m.epoch, authority |-> m.authority,
              cooling |-> FALSE, attempt |-> None]
        ELSE recipient[s][u]
  BY <1>2 DEF Disclose, TypeOK
<1> HIDE DEF m
<1>4. \A s \in Sessions, u \in Users :
        /\ s = m.session /\ u = m.user =>
             /\ recipient'[s][u].state = "active"
             /\ recipient'[s][u].epoch = m.epoch
             /\ recipient'[s][u].authority = m.authority
             /\ recipient'[s][u].attempt = None
        /\ s # m.session \/ u # m.user => recipient'[s][u] = recipient[s][u]
  BY <1>3
<1> QED
  BY <1>4 DEF m

LEMMA DiscloseEffect ==
  ASSUME TypeOK, NEW h \in Handlers, Disclose(h)
  PROVE  /\ handler[h] \in Minted
         /\ \A u \in Users :
              /\ roster'[u] = IF u = handler[h].user
                   THEN [session |-> handler[h].session,
                         authority |-> handler[h].authority]
                   ELSE roster[u]
              /\ mirror'[u] = IF u = handler[h].user
                   THEN [session |-> handler[h].session,
                         authority |-> handler[h].authority,
                         epoch |-> handler[h].epoch]
                   ELSE mirror[u]
         /\ usable' = usable \cup
              {[session |-> handler[h].session, user |-> handler[h].user,
                epoch |-> handler[h].epoch]}
         /\ UNCHANGED <<pointers, job, worker, revoker>>
<1>1. handler[h] \in Minted
  BY DEF Disclose, TypeOK, Idle
<1> QED
  BY <1>1 DEF Disclose, TypeOK, Minted

\* A claim fences the recipients of its page and nothing else.
LEMMA ClaimEffect ==
  ASSUME TypeOK, NEW w \in Workers, NEW s \in Sessions, NEW top \in Users \cup {0},
         ClaimPage(w, s, top)
  PROVE  /\ \A x \in Sessions, u \in Users :
              IF x = s /\ u \in Page(s, top)
              THEN recipient'[x][u] = Fence(recipient[x][u])
              ELSE recipient'[x][u] = recipient[x][u]
         /\ \A u \in Page(s, top) :
              u \in Users /\ recipient[s][u].state # "none"
         /\ UNCHANGED <<session, roster, mirror, receipt, revoker, usable>>
BY DEF ClaimPage, TypeOK, Page, Tail, pointers

\* A receipt revokes the recipients of its page and clears their documents.
LEMMA ReceiptEffect ==
  ASSUME TypeOK, NEW w \in Workers, Receipt(w)
  PROVE  /\ worker[w] \in EndPass
         /\ worker[w].session \in Sessions
         /\ worker[w].page \subseteq Users
         /\ \A x \in Sessions, u \in Users :
              IF x = worker[w].session /\ u \in worker[w].page
              THEN recipient'[x][u] = Settled(recipient[x][u])
              ELSE recipient'[x][u] = recipient[x][u]
         /\ \A u \in Users :
              /\ \/ roster'[u] = roster[u]
                 \/ /\ u \in worker[w].page
                    /\ roster[u] # None
                    /\ roster[u].session = worker[w].session
                    /\ roster'[u] = None
              /\ \/ mirror'[u] = mirror[u]
                 \/ /\ u \in worker[w].page
                    /\ mirror[u] # None
                    /\ mirror[u].session = worker[w].session
                    /\ mirror'[u] = None
         /\ UNCHANGED <<session, receipt, revoker, usable>>
<1>1. worker[w] \in EndPass
  BY PassTyped DEF Receipt, Revoked, At
<1>2. worker[w].session \in Sessions /\ worker[w].page \subseteq Users
  BY <1>1 DEF EndPass
<1>3. \A x \in Sessions, u \in Users :
        IF x = worker[w].session /\ u \in worker[w].page
        THEN recipient'[x][u] = Settled(recipient[x][u])
        ELSE recipient'[x][u] = recipient[x][u]
  BY <1>2 DEF Receipt, TypeOK
<1>4. \A u \in Users :
        /\ \/ roster'[u] = roster[u]
           \/ /\ u \in worker[w].page
              /\ roster[u] # None
              /\ roster[u].session = worker[w].session
              /\ roster'[u] = None
        /\ \/ mirror'[u] = mirror[u]
           \/ /\ u \in worker[w].page
              /\ mirror[u] # None
              /\ mirror[u].session = worker[w].session
              /\ mirror'[u] = None
  BY DEF Receipt, Clears
<1>5. UNCHANGED <<session, receipt, revoker, usable>>
  BY DEF Receipt, WorkerStep, pointers
<1> QED
  BY <1>1, <1>2, <1>3, <1>4, <1>5

\* A plan marks one recipient, and remembers the epoch it gave it.
LEMMA PlanEffect ==
  ASSUME TypeOK, NEW r \in Revokers, NEW u \in Users, NEW s \in Sessions,
         PlanRevocation(r, u, s)
  PROVE  /\ \A x \in Sessions, v \in Users :
              IF x = s /\ v = u THEN recipient'[x][v] = Attempted(recipient[x][v], r)
                                ELSE recipient'[x][v] = recipient[x][v]
         /\ recipient[s][u].state = "active"
         /\ revoker[r] = Idle
         /\ revoker' = [revoker EXCEPT ![r] =
              [phase |-> "provider", session |-> s, user |-> u,
               epoch |-> recipient[s][u].epoch + 1]]
         /\ UNCHANGED <<session, roster, mirror, receipt, worker, usable>>
BY DEF PlanRevocation, Revocable, TypeOK, pointers

\* An invocation in doubt, or with its answer, writes its own attempt.
LEMMA AnswerEffect ==
  ASSUME TypeOK, NEW r \in Revokers, Doubt(r) \/ Acknowledge(r)
  PROVE  /\ revoker[r] \in Reconcile
         /\ revoker[r] # Idle
         /\ revoker[r].session \in Sessions /\ revoker[r].user \in Users
         /\ revoker' = [revoker EXCEPT ![r] = Idle]
         /\ \A x \in Sessions, v \in Users :
              \/ recipient'[x][v] = recipient[x][v]
              \/ /\ x = revoker[r].session /\ v = revoker[r].user /\ Own(r)
                 /\ \/ recipient'[x][v] = Answered(recipient[x][v], "uncertain")
                    \/ /\ Acknowledge(r)
                       /\ revoker[r].phase = "acknowledge"
                       /\ recipient'[x][v] =
                            Answered(Settled(recipient[x][v]), "acknowledged")
         /\ \A v \in Users :
              \/ mirror'[v] = mirror[v]
              \/ /\ v = revoker[r].user
                 /\ mirror'[v] = None
                 /\ mirror[v] # None
                 /\ mirror[v].session = revoker[r].session
                 /\ recipient'[revoker[r].session][v] =
                      Answered(Settled(recipient[revoker[r].session][v]),
                               "acknowledged")
         /\ UNCHANGED <<session, roster, receipt, worker, usable>>
<1>1. revoker[r] \in Reconcile
  BY ReconcileTyped DEF Doubt, Acknowledge
<1>2. /\ revoker[r].session \in Sessions
      /\ revoker[r].user \in Users
      /\ revoker[r] # Idle
  BY <1>1 DEF Reconcile, Idle
<1> DEFINE s == revoker[r].session
           u == revoker[r].user
<1>3. CASE Doubt(r)
  BY <1>1, <1>2, <1>3 DEF Doubt, RevokerStep, TypeOK, pointers
<1>4. CASE Acknowledge(r)
  <2>1. CASE Own(r) /\ recipient[s][u].state = "revoking"
    <3>1. \A x \in Sessions, v \in Users : recipient'[x][v] =
            IF x = s /\ v = u
            THEN Answered(Settled(recipient[x][v]), "acknowledged")
            ELSE recipient[x][v]
      BY <1>2, <1>4, <2>1 DEF Acknowledge, TypeOK
    <3>2. \A v \in Users :
            \/ mirror'[v] = mirror[v]
            \/ /\ v = u
               /\ mirror'[v] = None
               /\ mirror[v] # None
               /\ mirror[v].session = s
      BY <1>2, <1>4, <2>1 DEF Acknowledge, Clears, TypeOK
    <3>3. revoker[r].phase = "acknowledge"
      BY <1>4 DEF Acknowledge
    <3>4. /\ revoker' = [revoker EXCEPT ![r] = Idle]
          /\ UNCHANGED <<session, roster, receipt, worker, usable>>
      BY <1>4 DEF Acknowledge, RevokerStep, pointers
    <3> HIDE DEF s, u
    <3> QED
      BY <1>1, <1>2, <1>4, <2>1, <3>1, <3>2, <3>3, <3>4 DEF s, u
  <2>2. CASE ~(Own(r) /\ recipient[s][u].state = "revoking")
    BY <1>1, <1>2, <1>4, <2>2 DEF Acknowledge, RevokerStep, pointers
  <2> QED
    BY <2>1, <2>2
<1> QED
  BY <1>3, <1>4

LEMMA LiftEffect ==
  ASSUME TypeOK, NEW u \in Users, NEW s \in Sessions, BarrierLifts(u, s)
  PROVE  /\ \A x \in Sessions, v \in Users :
              IF x = s /\ v = u
              THEN recipient'[x][v] = [recipient[x][v] EXCEPT !.cooling = FALSE]
              ELSE recipient'[x][v] = recipient[x][v]
         /\ UNCHANGED <<session, roster, mirror, receipt, job, worker, revoker,
                       usable>>
BY DEF BarrierLifts, TypeOK, pointers, runs

------------------------
(* Tokens on record.  That a revoked recipient has no usable token needs    *)
(* every cutoff to hold until its acknowledgement: the end job's because    *)
(* its generation admits nobody any more, a reconcile's because nobody is   *)
(* admitted over its pending attempt, which stays its own.                  *)

NoToken(tokens, s, u) == \A t \in tokens : t.session # s \/ t.user # u

AttemptsOwned ==
  /\ \A s \in Sessions, u \in Users :
       recipient[s][u].attempt # None =>
         recipient[s][u].state \in {"revoking", "revoked"}
  /\ \A r \in Revokers : revoker[r] # Idle => Own(r)

AttemptsCut ==
  \A r \in Revokers : revoker[r].phase = "acknowledge" =>
    NoToken(usable, revoker[r].session, revoker[r].user)

PassCut(w) == worker[w] # Idle =>
  /\ session[worker[w].session] \in {"ending", "ended"}
  /\ worker[w].phase = "revoke" /\ ~worker[w].failed =>
       \A u \in worker[w].page \ worker[w].todo : NoToken(usable, worker[w].session, u)

PassesCut == \A w \in Workers : PassCut(w)

TokensInductive ==
  UsableTokensOnRecord /\ AttemptsOwned /\ AttemptsCut /\ PassesCut

\* A disclosure finds its generation live and no attempt in the way.
LEMMA DisclosedToIssuable ==
  ASSUME TypeOK, NEW h \in Handlers, Disclose(h)
  PROVE  LET m == handler[h] IN
         /\ m \in Minted
         /\ session[m.session] = "live"
         /\ \/ recipient[m.session][m.user].state = "none"
            \/ /\ ~Unresolved(recipient[m.session][m.user])
               /\ recipient[m.session][m.user].state \in {"active", "revoked"}
               /\ recipient[m.session][m.user].epoch = m.epoch
<1>1. handler[h] \in Minted
  BY DEF Disclose, TypeOK, Idle
<1>2. recipient[handler[h].session][handler[h].user] \in Recipient
  BY <1>1 DEF TypeOK, Minted
<1> QED
  BY <1>1, <1>2
  DEF Disclose, Unchanged, Authority, Issuable, IssuedEpoch, Recipient

LEMMA TokensStayOnRecord ==
  ASSUME TypeOK, TokensInductive, [Next]_vars
  PROVE  UsableTokensOnRecord'
<1> USE DEF TokensInductive
<1>1. ASSUME NEW h \in Handlers, Disclose(h) PROVE UsableTokensOnRecord'
  <2> DEFINE m == handler[h]
             x == recipient[m.session][m.user]
  <2>1. m \in Minted /\ m.session \in Sessions /\ m.user \in Users
    BY <1>1, DiscloseEffect DEF Minted
  <2>2. \/ x.state = "none"
        \/ x.state \in {"active", "revoked"} /\ x.epoch = m.epoch
    BY <1>1, DisclosedToIssuable
  <2>3. ASSUME NEW t \in usable, t.session = m.session, t.user = m.user
        PROVE  t.epoch = m.epoch
    BY <2>2, <2>3 DEF UsableTokensOnRecord
  <2>4. usable' = usable \cup
          {[session |-> m.session, user |-> m.user, epoch |-> m.epoch]}
    BY <1>1, DiscloseEffect
  <2>5. \A s \in Sessions, u \in Users :
          /\ s = m.session /\ u = m.user =>
               recipient'[s][u].state = "active" /\ recipient'[s][u].epoch = m.epoch
          /\ s # m.session \/ u # m.user => recipient'[s][u] = recipient[s][u]
    BY <1>1, DiscloseRecipient
  <2>6. \A t \in usable : t.session \in Sessions /\ t.user \in Users
    BY DEF TypeOK, Token
  <2> HIDE DEF m, x
  <2> QED
    BY <2>1, <2>3, <2>4, <2>5, <2>6 DEF UsableTokensOnRecord
<1>2. ASSUME UNCHANGED recipient, usable' \subseteq usable
      PROVE  UsableTokensOnRecord'
  BY <1>2 DEF UsableTokensOnRecord
<1>3. ASSUME usable' = usable,
             \A t \in usable :
               LET old == recipient[t.session][t.user]
                   new == recipient'[t.session][t.user]
               IN \/ new.state = old.state /\ new.epoch = old.epoch
                  \/ /\ old.state = "active"
                     /\ new.state = "revoking"
                     /\ new.epoch = old.epoch + 1
      PROVE  UsableTokensOnRecord'
  <2>1. \A t \in usable : /\ t.session \in Sessions
                          /\ t.user \in Users
                          /\ t.epoch \in Nat
                          /\ recipient[t.session][t.user] \in Recipient
    BY DEF TypeOK, Token
  <2> QED
    BY <1>3, <2>1 DEF UsableTokensOnRecord, Recipient
<1>4. \A t \in usable : /\ t.session \in Sessions
                        /\ t.user \in Users
                        /\ recipient[t.session][t.user] \in Recipient
                        /\ recipient[t.session][t.user].state
                             \in {"active", "revoking"}
  BY DEF TypeOK, Token, UsableTokensOnRecord
<1>5. ASSUME NEW w \in Workers, NEW s \in Sessions, NEW top \in Users \cup {0},
             ClaimPage(w, s, top)
      PROVE  UsableTokensOnRecord'
  BY <1>3, <1>4, <1>5, ClaimEffect, FenceFields
<1>6. ASSUME NEW w \in Workers, Receipt(w) PROVE UsableTokensOnRecord'
  <2>1. \A u \in worker[w].page : NoToken(usable, worker[w].session, u)
    BY <1>6 DEF Receipt, Revoked, At, PassesCut, PassCut, Idle
  <2>2. \A t \in usable : recipient'[t.session][t.user] =
                         recipient[t.session][t.user]
    BY <1>4, <1>6, <2>1, ReceiptEffect DEF NoToken
  <2>3. usable' = usable
    BY <1>6, ReceiptEffect
  <2> QED
    BY <1>3, <2>2, <2>3
<1>7. ASSUME NEW r \in Revokers, NEW u \in Users, NEW s \in Sessions,
             PlanRevocation(r, u, s)
      PROVE  UsableTokensOnRecord'
  BY <1>3, <1>4, <1>7, PlanEffect, AttemptedFields
<1>8. ASSUME NEW r \in Revokers, Doubt(r) \/ Acknowledge(r)
      PROVE  UsableTokensOnRecord'
  <2> DEFINE s == revoker[r].session
             u == revoker[r].user
  <2>1. s \in Sessions /\ u \in Users /\ usable' = usable
    BY <1>8, AnswerEffect
  <2>2. Own(r) => recipient[s][u].attempt # None
    BY DEF Own
  <2>3. recipient[s][u].attempt # None =>
          /\ Answered(recipient[s][u], "uncertain").state = recipient[s][u].state
          /\ Answered(recipient[s][u], "uncertain").epoch = recipient[s][u].epoch
    BY <2>1, AnsweredFields DEF TypeOK
  <2>4. revoker[r].phase = "acknowledge" => NoToken(usable, s, u)
    BY DEF AttemptsCut
  <2>5. \A t \in usable :
          \/ recipient'[t.session][t.user] = recipient[t.session][t.user]
          \/ /\ t.session = s /\ t.user = u /\ Own(r)
             /\ \/ recipient'[t.session][t.user] =
                     Answered(recipient[t.session][t.user], "uncertain")
                \/ revoker[r].phase = "acknowledge"
    BY <1>4, <1>8, AnswerEffect
  <2> HIDE DEF s, u
  <2> QED
    BY <1>3, <2>1, <2>2, <2>3, <2>4, <2>5 DEF NoToken
<1>9. ASSUME NEW u \in Users, NEW s \in Sessions, BarrierLifts(u, s)
      PROVE  UsableTokensOnRecord'
  <2>1. \A t \in usable :
          LET x == recipient[t.session][t.user]
          IN \/ recipient'[t.session][t.user] = x
             \/ recipient'[t.session][t.user] = [x EXCEPT !.cooling = FALSE]
    BY <1>4, <1>9, LiftEffect
  <2>2. usable' = usable
    BY <1>9, LiftEffect
  <2> QED
    BY <1>3, <1>4, <2>1, <2>2, LiftedFields
<1> QED
  BY <1>1, <1>2, <1>5, <1>6, <1>7, <1>8, <1>9, OtherStepsKeepLedgers

LEMMA OtherStepsKeepRevokers ==
  ASSUME [Next]_vars,
         \A r \in Revokers, u \in Users, s \in Sessions : ~PlanRevocation(r, u, s),
         \A r \in Revokers :
           /\ ~Doubt(r) /\ ~Acknowledge(r)
           /\ ~RevokeOnline(r) /\ ~RevokeUnanswered(r) /\ ~RevokerCrash(r)
  PROVE  UNCHANGED revoker
<1>1. CASE \E w \in Workers : \/ Receipt(w) \/ Prepare(w) \/ Defer(w)
                               \/ EndRoom(w) \/ Final(w) \/ Lost(w) \/ Fail(w)
                               \/ ReleaseLease(w) \/ Crash(w)
  BY <1>1 DEF Receipt, Prepare, Defer, EndRoom, Final, Lost, Fail,
                    ReleaseLease, Crash, WorkerStep
<1>2. CASE \/ \E w \in Workers, u \in Users : RevokeOne(w, u) \/ RevokeOneFails(w, u)
           \/ \E w \in Workers, s \in Sessions : ClaimDelete(w, s)
           \/ \E w \in Workers, s \in Sessions, top \in Users \cup {0} :
                 ClaimPage(w, s, top)
  BY <1>2
  DEF RevokeOne, RevokeOneFails, WorkerStep, ClaimDelete, ClaimPage
<1>3. CASE \/ \E s \in Sessions : Start(s) \/ End(s) \/ LeaseLapses(s)
           \/ \E h \in Handlers : Disclose(h) \/ Abandon(h)
           \/ \E h \in Handlers, u \in Users, s \in Sessions, q \in Requests :
                 Preflight(h, u, s, q)
  BY <1>3 DEF Start, End, LeaseLapses, runs, Disclose, Abandon, Preflight
<1>4. CASE \/ \E u \in Users : ChangeStanding(u)
           \/ \E u \in MaySanction : ToggleAdmission(u)
           \/ \E u \in MayFreeze : FreezeAccount(u) \/ RevokeAccount(u)
           \/ \E u \in Users, s \in Sessions : BarrierLifts(u, s)
           \/ UNCHANGED vars
  BY <1>4 DEF ChangeStanding, ToggleAdmission, FreezeAccount, RevokeAccount,
                BarrierLifts, runs, vars
<1> QED
  BY <1>1, <1>2, <1>3, <1>4 DEF Next

\* What a step that neither plans nor answers does to a reconcile: nothing,
\* losing it, or LiveKit's answer.
LEMMA RevokerSteps ==
  ASSUME TypeOK, [Next]_vars,
         \A r \in Revokers, u \in Users, s \in Sessions : ~PlanRevocation(r, u, s),
         \A r \in Revokers : ~Doubt(r) /\ ~Acknowledge(r),
         NEW r \in Revokers
  PROVE  \/ revoker'[r] = revoker[r]
         \/ revoker'[r] = Idle
         \/ /\ revoker[r] # Idle
            /\ revoker'[r].session = revoker[r].session
            /\ revoker'[r].user = revoker[r].user
            /\ revoker'[r].epoch = revoker[r].epoch
            /\ \/ revoker'[r].phase = "doubt"
               \/ /\ revoker'[r].phase = "acknowledge"
                  /\ Cut(revoker[r].session, revoker[r].user)
<1> DEFINE Goal ==
         \/ revoker'[r] = revoker[r]
         \/ revoker'[r] = Idle
         \/ /\ revoker[r] # Idle
            /\ revoker'[r].session = revoker[r].session
            /\ revoker'[r].user = revoker[r].user
            /\ revoker'[r].epoch = revoker[r].epoch
            /\ \/ revoker'[r].phase = "doubt"
               \/ /\ revoker'[r].phase = "acknowledge"
                  /\ Cut(revoker[r].session, revoker[r].user)
<1>1. UNCHANGED revoker => Goal
  OBVIOUS
<1>2. ASSUME NEW i \in Revokers,
             RevokeOnline(i) \/ RevokeUnanswered(i) \/ RevokerCrash(i)
      PROVE  Goal
  <2>1. CASE RevokerCrash(i)
    BY <2>1 DEF RevokerCrash, RevokerStep, TypeOK
  <2>2. CASE RevokeOnline(i) \/ RevokeUnanswered(i)
    <3>1. revoker[i] \in Reconcile
      BY <2>2, ReconcileTyped DEF RevokeOnline, RevokeUnanswered
    <3>2. \A phase \in {"acknowledge", "doubt"} :
            LET next == [revoker[i] EXCEPT !.phase = phase]
            IN /\ next.phase = phase
               /\ next.session = revoker[i].session
               /\ next.user = revoker[i].user
               /\ next.epoch = revoker[i].epoch
      BY <3>1 DEF Reconcile
    <3>3. revoker[i] # Idle
      BY <3>1 DEF Reconcile, Idle
    <3>4. \/ /\ Cut(revoker[i].session, revoker[i].user)
             /\ revoker' = [revoker EXCEPT ![i] =
                              [revoker[i] EXCEPT !.phase = "acknowledge"]]
          \/ revoker' = [revoker EXCEPT ![i] =
                           [revoker[i] EXCEPT !.phase = "doubt"]]
      BY <2>2 DEF RevokeOnline, RevokeUnanswered, RevokerStep
    <3> QED
      BY <3>2, <3>3, <3>4 DEF TypeOK
  <2> QED
    BY <1>2, <2>1, <2>2
<1> HIDE DEF Goal
<1>3. Goal
  BY <1>1, <1>2, OtherStepsKeepRevokers
<1> QED
  BY <1>3 DEF Goal

\* An attempt that is still on its way stays its invocation's.
LEMMA AttemptsStayOwned ==
  ASSUME TypeOK, TokensInductive, [Next]_vars
  PROVE  AttemptsOwned'
<1> USE DEF TokensInductive
<1> DEFINE Kept(s, u) ==
      /\ Unresolved(recipient[s][u]) =>
           /\ recipient'[s][u].epoch = recipient[s][u].epoch
           /\ recipient'[s][u].attempt = recipient[s][u].attempt
      /\ recipient'[s][u].attempt # None =>
           recipient'[s][u].state \in {"revoking", "revoked"}
<1>1. ASSUME \A s \in Sessions, u \in Users : Kept(s, u),
             \A r \in Revokers : revoker'[r] # Idle =>
               /\ revoker[r] # Idle
               /\ revoker'[r].session = revoker[r].session
               /\ revoker'[r].user = revoker[r].user
               /\ revoker'[r].epoch = revoker[r].epoch
      PROVE  AttemptsOwned'
  <2>1. ASSUME NEW r \in Revokers, revoker'[r] # Idle PROVE Own(r)'
    <3> DEFINE s == revoker[r].session
               u == revoker[r].user
    <3>1. revoker[r] # Idle /\ Own(r)
      BY <1>1, <2>1 DEF AttemptsOwned
    <3>2. s \in Sessions /\ u \in Users
      BY <3>1 DEF TypeOK, Reconcile
    <3>3. Unresolved(recipient[s][u])
      BY <3>1 DEF Own, Unresolved
    <3>4. /\ recipient'[s][u].epoch = recipient[s][u].epoch
          /\ recipient'[s][u].attempt = recipient[s][u].attempt
      BY <1>1, <3>2, <3>3
    <3>5. revoker'[r].session = s /\ revoker'[r].user = u
      BY <1>1, <2>1
    <3>6. revoker'[r].epoch = revoker[r].epoch
      BY <1>1, <2>1
    <3> HIDE DEF Kept
    <3> QED
      BY <3>1, <3>4, <3>5, <3>6 DEF Own
  <2> QED
    BY <1>1, <2>1 DEF AttemptsOwned
<1>2. \A s \in Sessions, u \in Users :
        /\ recipient[s][u] \in Recipient
        /\ recipient[s][u].attempt # None =>
             recipient[s][u].state \in {"revoking", "revoked"}
  BY DEF AttemptsOwned, TypeOK
<1>3. \A s \in Sessions, u \in Users :
        recipient'[s][u] = recipient[s][u] => Kept(s, u)
  BY <1>2
<1>4. CASE /\ \A r \in Revokers, u \in Users, s \in Sessions :
                 ~PlanRevocation(r, u, s)
           /\ \A r \in Revokers : ~Doubt(r) /\ ~Acknowledge(r)
  <2>1. \A r \in Revokers : revoker'[r] # Idle =>
          /\ revoker[r] # Idle
          /\ revoker'[r].session = revoker[r].session
          /\ revoker'[r].user = revoker[r].user
          /\ revoker'[r].epoch = revoker[r].epoch
    BY <1>4, RevokerSteps
  <2>2. ASSUME NEW h \in Handlers, Disclose(h)
        PROVE  \A s \in Sessions, u \in Users : Kept(s, u)
    <3> DEFINE m == handler[h]
    <3>1. m \in Minted /\ m.session \in Sessions /\ m.user \in Users
      BY <2>2, DiscloseEffect DEF Minted
    <3>2. ~Unresolved(recipient[m.session][m.user])
      BY <1>2, <2>2, <3>1, DisclosedToIssuable DEF Unresolved
    <3> HIDE DEF m
    <3>3. \A s \in Sessions, u \in Users :
            /\ s = m.session /\ u = m.user => recipient'[s][u].attempt = None
            /\ s # m.session \/ u # m.user => recipient'[s][u] = recipient[s][u]
      BY <2>2, DiscloseRecipient DEF m
    <3> QED
      BY <1>3, <3>2, <3>3
  <2>3. ASSUME NEW w \in Workers, NEW s \in Sessions, NEW top \in Users \cup {0},
               ClaimPage(w, s, top)
        PROVE  \A x \in Sessions, u \in Users : Kept(x, u)
    BY <1>2, <1>3, <2>3, ClaimEffect, FenceFields DEF Unresolved
  <2>4. ASSUME NEW w \in Workers, Receipt(w)
        PROVE  \A x \in Sessions, u \in Users : Kept(x, u)
    <3>1. \A x \in Sessions, u \in Users :
            \/ recipient'[x][u] = recipient[x][u]
            \/ recipient'[x][u] = Settled(recipient[x][u])
      BY <2>4, ReceiptEffect
    <3> QED
      <4> SUFFICES ASSUME NEW x \in Sessions, NEW u \in Users PROVE Kept(x, u)
        OBVIOUS
      <4>1. recipient[x][u] \in Recipient
        BY <1>2
      <4>2. CASE recipient'[x][u] = recipient[x][u]
        BY <1>3, <4>2
      <4>3. CASE recipient'[x][u] = Settled(recipient[x][u])
        BY <4>1, <4>3, SettledFields
      <4> QED
        BY <3>1, <4>2, <4>3
  <2>5. ASSUME NEW v \in Users, NEW s \in Sessions, BarrierLifts(v, s)
        PROVE  \A x \in Sessions, u \in Users : Kept(x, u)
    <3>1. \A x \in Sessions, u \in Users :
            \/ recipient'[x][u] = recipient[x][u]
            \/ recipient'[x][u] = [recipient[x][u] EXCEPT !.cooling = FALSE]
      BY <2>5, LiftEffect
    <3> QED
      <4> SUFFICES ASSUME NEW x \in Sessions, NEW u \in Users PROVE Kept(x, u)
        OBVIOUS
      <4>1. recipient[x][u] \in Recipient
        BY <1>2
      <4>2. CASE recipient'[x][u] = recipient[x][u]
        BY <1>3, <4>2
      <4>3. CASE recipient'[x][u] = [recipient[x][u] EXCEPT !.cooling = FALSE]
        BY <1>2, <4>1, <4>3, LiftedFields
      <4> QED
        BY <3>1, <4>2, <4>3
  <2>6. CASE UNCHANGED recipient
    <3>1. \A s \in Sessions, u \in Users : Kept(s, u)
      BY <1>3, <2>6
    <3> HIDE DEF Kept
    <3> QED
      BY <1>1, <2>1, <3>1
  <2> HIDE DEF Kept
  <2> QED
    BY <1>1, <1>4, <2>1, <2>2, <2>3, <2>4, <2>5, <2>6, OtherStepsKeepLedgers
<1>5. ASSUME NEW r \in Revokers, NEW u \in Users, NEW s \in Sessions,
             PlanRevocation(r, u, s)
      PROVE  AttemptsOwned'
  <2> DEFINE x == recipient[s][u]
  <2>1. /\ x.attempt = None \/ x.attempt.state = "acknowledged"
        /\ recipient'[s][u] = Attempted(x, r)
        /\ x \in Recipient
    <3>1. ~Unresolved(x)
      BY <1>5 DEF PlanRevocation, Revocable
    <3>2. recipient'[s][u] = Attempted(x, r)
      BY <1>5, PlanEffect
    <3> QED
      BY <1>2, <3>1, <3>2 DEF Unresolved
  <2>2. \A y \in Sessions, v \in Users :
          y # s \/ v # u => recipient'[y][v] = recipient[y][v]
    BY <1>5, PlanEffect
  <2>3. /\ recipient'[s][u].state = "revoking"
        /\ recipient'[s][u].epoch = x.epoch + 1
        /\ recipient'[s][u].attempt # None
        /\ recipient'[s][u].attempt.by = r
        /\ recipient'[s][u].attempt.state = "pending"
    <3> HIDE DEF x
    <3> QED
      BY <2>1, AttemptedFields, NoneIsNoDocument
  <2>4. revoker' = [revoker EXCEPT ![r] =
          [phase |-> "provider", session |-> s, user |-> u, epoch |-> x.epoch + 1]]
    BY <1>5, PlanEffect
  <2>5. ASSUME NEW i \in Revokers, revoker'[i] # Idle PROVE Own(i)'
    <3>1. CASE i = r
      <4>1. revoker'[i] = [phase |-> "provider", session |-> s, user |-> u,
                           epoch |-> x.epoch + 1]
        BY <2>4, <3>1 DEF TypeOK
      <4>2. /\ revoker'[i].session = s
            /\ revoker'[i].user = u
            /\ revoker'[i].epoch = x.epoch + 1
        BY <4>1
      <4> HIDE DEF x
      <4> QED
        BY <2>3, <3>1, <4>2 DEF Own
    <3>2. CASE i # r
      <4>1. revoker'[i] = revoker[i]
        BY <2>4, <3>2 DEF TypeOK
      <4>2. Own(i)
        BY <2>5, <4>1 DEF AttemptsOwned
      <4>3. revoker[i].session \in Sessions /\ revoker[i].user \in Users
        BY <2>5, <4>1 DEF TypeOK, Reconcile
      <4>4. revoker[i].session # s \/ revoker[i].user # u
        BY <2>1, <4>2 DEF Own
      <4> HIDE DEF x
      <4> QED
        BY <2>2, <4>1, <4>2, <4>3, <4>4 DEF Own
    <3> QED
      BY <3>1, <3>2
  <2> HIDE DEF x
  <2> QED
    BY <1>2, <2>2, <2>3, <2>5 DEF AttemptsOwned
<1>6. ASSUME NEW r \in Revokers, Doubt(r) \/ Acknowledge(r)
      PROVE  AttemptsOwned'
  <2> DEFINE s == revoker[r].session
             u == revoker[r].user
             x == recipient[s][u]
  <2>1. s \in Sessions /\ u \in Users /\ revoker' = [revoker EXCEPT ![r] = Idle]
    BY <1>6, AnswerEffect
  <2>2. \A y \in Sessions, v \in Users :
          \/ recipient'[y][v] = recipient[y][v]
          \/ /\ y = s /\ v = u /\ Own(r)
             /\ \/ recipient'[y][v] = Answered(x, "uncertain")
                \/ recipient'[y][v] = Answered(Settled(x), "acknowledged")
    BY <1>6, AnswerEffect
  <2>3. Own(r) => /\ x \in Recipient
                  /\ x.attempt # None
                  /\ x.attempt.by = r
                  /\ x.state \in {"revoking", "revoked"}
    <3>1. Own(r) => x.attempt # None /\ x.attempt.by = r
      BY DEF Own
    <3> QED
      BY <1>2, <2>1, <3>1
  <2> HIDE DEF x
  <2>4. Own(r) =>
          /\ Answered(x, "uncertain").state \in {"revoking", "revoked"}
          /\ Answered(Settled(x), "acknowledged").state \in {"revoking", "revoked"}
    <3>1. x \in Recipient => Settled(x) \in Recipient /\
                             Settled(x).attempt = x.attempt /\
                             Settled(x).state = "revoked"
      BY SettledTyped, SettledFields
    <3> QED
      BY <2>3, <3>1, AnsweredFields
  <2>5. ASSUME NEW i \in Revokers, revoker'[i] # Idle PROVE Own(i)'
    <3>1. i # r /\ revoker'[i] = revoker[i]
      BY <2>1, <2>5 DEF TypeOK
    <3>2. Own(i)
      BY <2>5, <3>1 DEF AttemptsOwned
    <3>3. revoker[i].session \in Sessions /\ revoker[i].user \in Users
      BY <2>5, <3>1 DEF TypeOK, Reconcile
    <3>4. recipient'[revoker[i].session][revoker[i].user] =
            recipient[revoker[i].session][revoker[i].user]
      BY <2>2, <2>3, <3>1, <3>2, <3>3 DEF Own, x
    <3> QED
      BY <3>1, <3>2, <3>4 DEF Own
  <2>6. \A y \in Sessions, v \in Users : recipient'[y][v].attempt # None =>
          recipient'[y][v].state \in {"revoking", "revoked"}
    BY <1>2, <2>2, <2>4
  <2> QED
    BY <2>5, <2>6 DEF AttemptsOwned
<1> QED
  BY <1>4, <1>5, <1>6

\* No token is disclosed to a recipient with an attempt on its way, nor for a
\* generation that is not live.
LEMMA CutsStay ==
  ASSUME TypeOK, TokensInductive, [Next]_vars,
         NEW s \in Sessions, NEW u \in Users, NoToken(usable, s, u),
         \/ session[s] # "live"
         \/ /\ Unresolved(recipient[s][u])
            /\ recipient[s][u].state # "none"
  PROVE  NoToken(usable', s, u)
<1>1. CASE usable' \subseteq usable
  BY <1>1 DEF NoToken
<1>2. ASSUME NEW h \in Handlers, Disclose(h) PROVE NoToken(usable', s, u)
  <2> DEFINE m == handler[h]
  <2>1. m.session # s \/ m.user # u
    BY <1>2, DisclosedToIssuable
  <2>2. usable' = usable \cup
          {[session |-> m.session, user |-> m.user, epoch |-> m.epoch]}
    BY <1>2, DiscloseEffect
  <2> HIDE DEF m
  <2> QED
    BY <2>1, <2>2 DEF NoToken
<1>3. CASE \/ \E w \in Workers, x \in Sessions, top \in Users \cup {0} :
                 ClaimPage(w, x, top)
           \/ \E w \in Workers : Receipt(w)
           \/ \E r \in Revokers, v \in Users, x \in Sessions :
                 PlanRevocation(r, v, x)
           \/ \E r \in Revokers : Doubt(r) \/ Acknowledge(r)
           \/ \E v \in Users, x \in Sessions : BarrierLifts(v, x)
  BY <1>1, <1>3
  DEF ClaimPage, Receipt, PlanRevocation, Doubt, Acknowledge, BarrierLifts
<1> QED
  BY <1>1, <1>2, <1>3, OtherStepsKeepLedgers

LEMMA CutAttemptsStayCut ==
  ASSUME TypeOK, TokensInductive, [Next]_vars
  PROVE  AttemptsCut'
<1> USE DEF TokensInductive
<1> SUFFICES ASSUME NEW r \in Revokers, revoker'[r].phase = "acknowledge"
             PROVE  NoToken(usable', revoker'[r].session, revoker'[r].user)
  BY DEF AttemptsCut
<1>1. Idle.phase # "acknowledge"
  BY DEF Idle
<1>2. CASE revoker'[r] = revoker[r]
  <2> DEFINE s == revoker[r].session
             u == revoker[r].user
  <2>1. revoker[r] \in Reconcile /\ revoker[r] # Idle /\ NoToken(usable, s, u)
    BY <1>1, <1>2, ReconcileTyped DEF AttemptsCut
  <2>2. s \in Sessions /\ u \in Users
    BY <2>1 DEF Reconcile
  <2>3. Own(r)
    BY <2>1 DEF AttemptsOwned
  <2>4. Unresolved(recipient[s][u])
    BY <2>3 DEF Own, Unresolved
  <2>5. recipient[s][u].state # "none"
    BY <2>2, <2>4 DEF AttemptsOwned, Unresolved
  <2>6. NoToken(usable', s, u)
    BY <2>1, <2>2, <2>4, <2>5, CutsStay
  <2> QED
    BY <1>2, <2>6
<1>3. ASSUME NEW i \in Revokers, NEW u \in Users, NEW s \in Sessions,
             PlanRevocation(i, u, s)
      PROVE  revoker'[r] = revoker[r]
  <2>1. revoker' = [revoker EXCEPT ![i] =
          [phase |-> "provider", session |-> s, user |-> u,
           epoch |-> recipient[s][u].epoch + 1]]
    BY <1>3, PlanEffect
  <2> QED
    BY <2>1 DEF TypeOK
<1>4. ASSUME NEW i \in Revokers, Doubt(i) \/ Acknowledge(i)
      PROVE  revoker'[r] = revoker[r]
  <2>1. revoker' = [revoker EXCEPT ![i] = Idle]
    BY <1>4, AnswerEffect
  <2> QED
    BY <1>1, <2>1 DEF TypeOK
<1>5. CASE /\ revoker'[r].session = revoker[r].session
           /\ revoker'[r].user = revoker[r].user
           /\ Cut(revoker[r].session, revoker[r].user)
  BY <1>5 DEF Cut, NoToken
<1> QED
  BY <1>1, <1>2, <1>3, <1>4, <1>5, RevokerSteps

\* A generation whose end began does not come back.
LEMMA EndsStay ==
  ASSUME TypeOK, GenerationsAgree, [Next]_vars, NEW s \in Sessions,
         session[s] \in {"ending", "ended"}
  PROVE  session'[s] \in {"ending", "ended"}
<1>1. ASSUME NEW x \in Sessions, Start(x) \/ End(x)
      PROVE  session'[s] \in {"ending", "ended"}
  BY <1>1 DEF Start, Startable, End, StageEnd, TypeOK
<1>2. ASSUME NEW w \in Workers, Final(w)
      PROVE  session'[s] \in {"ending", "ended"}
  BY <1>2 DEF Final, TypeOK
<1> QED
  BY <1>1, <1>2, OtherStepsKeepGenerations DEF GenerationsKept, pointers

LEMMA PassStays ==
  ASSUME TypeOK, GenerationsAgree, TokensInductive, [Next]_vars,
         NEW w \in Workers, worker'[w] = worker[w]
  PROVE  PassCut(w)'
<1> SUFFICES ASSUME worker[w] # Idle PROVE PassCut(w)'
  BY DEF PassCut
<1> DEFINE s == worker[w].session
<1>1. s \in Sessions /\ worker[w].page \subseteq Users
  BY DEF TypeOK, EndPass
<1>2. PassCut(w) /\ session[s] \in {"ending", "ended"}
  BY DEF TokensInductive, PassesCut, PassCut
<1>3. session'[s] \in {"ending", "ended"}
  BY <1>1, <1>2, EndsStay
<1>4. ASSUME NEW u \in worker[w].page, NoToken(usable, s, u) PROVE NoToken(usable', s, u)
  BY <1>1, <1>2, <1>4, CutsStay
<1> QED
  BY <1>2, <1>3, <1>4 DEF PassCut

LEMMA OtherStepsKeepWorkers ==
  ASSUME [Next]_vars,
         \A w \in Workers, s \in Sessions, top \in Users \cup {0} :
            ~ClaimPage(w, s, top),
         \A w \in Workers, s \in Sessions : ~ClaimDelete(w, s),
         \A w \in Workers, u \in Users : ~RevokeOne(w, u) /\ ~RevokeOneFails(w, u),
         \A w \in Workers :
           /\ ~Receipt(w) /\ ~Prepare(w) /\ ~Defer(w) /\ ~EndRoom(w) /\ ~Final(w)
           /\ ~Lost(w) /\ ~Fail(w) /\ ~ReleaseLease(w) /\ ~Crash(w)
  PROVE  UNCHANGED worker
<1>1. CASE \/ \E s \in Sessions : Start(s) \/ End(s) \/ LeaseLapses(s)
           \/ \E h \in Handlers : Disclose(h) \/ Abandon(h)
           \/ \E h \in Handlers, u \in Users, s \in Sessions, q \in Requests :
                 Preflight(h, u, s, q)
  BY <1>1 DEF Start, End, LeaseLapses, runs, Disclose, Abandon, Preflight
<1>2. CASE \/ \E u \in Users : ChangeStanding(u)
           \/ \E u \in MaySanction : ToggleAdmission(u)
           \/ \E u \in MayFreeze : FreezeAccount(u) \/ RevokeAccount(u)
           \/ \E u \in Users, s \in Sessions : BarrierLifts(u, s)
           \/ UNCHANGED vars
  BY <1>2 DEF ChangeStanding, ToggleAdmission, FreezeAccount, RevokeAccount,
                BarrierLifts, runs, vars
<1>3. CASE \/ \E r \in Revokers, u \in Users, s \in Sessions :
                 PlanRevocation(r, u, s)
           \/ \E r \in Revokers : \/ RevokeOnline(r) \/ RevokeUnanswered(r)
                                   \/ Doubt(r) \/ Acknowledge(r)
                                   \/ RevokerCrash(r)
  BY <1>3
  DEF PlanRevocation, RevokeOnline, RevokeUnanswered, Doubt, Acknowledge,
      RevokerCrash, RevokerStep
<1> QED
  BY <1>1, <1>2, <1>3 DEF Next

\* A pass becomes another one of the same job, or ends, except when a page is
\* claimed or one of its recipients is sent to LiveKit.
LEMMA PassesMoveOn ==
  ASSUME TypeOK, NEW w \in Workers,
         \/ Receipt(w) \/ Prepare(w) \/ Defer(w) \/ EndRoom(w) \/ Final(w)
         \/ Lost(w) \/ Fail(w) \/ ReleaseLease(w) \/ Crash(w)
  PROVE  /\ worker[w] # Idle
         /\ \/ worker' = [worker EXCEPT ![w] = Idle]
            \/ \E next \in EndPass :
                 /\ worker' = [worker EXCEPT ![w] = next]
                 /\ next.session = worker[w].session
                 /\ next.phase # "revoke"
<1>1. worker[w] \in EndPass
  BY PassTyped
  DEF Receipt, Prepare, Defer, EndRoom, Final, Lost, Fail, ReleaseLease, Crash,
      Revoked, At, TypeOK
<1>2. worker[w] # Idle
  BY <1>1 DEF EndPass, Idle
<1>3. CASE Defer(w) \/ Final(w) \/ Lost(w) \/ ReleaseLease(w) \/ Crash(w)
  BY <1>2, <1>3 DEF Defer, Final, Lost, ReleaseLease, Crash, WorkerStep
<1>4. CASE Receipt(w)
  <2>1. /\ DeleteOnly(worker[w].session) \in EndPass
        /\ DeleteOnly(worker[w].session).session = worker[w].session
        /\ DeleteOnly(worker[w].session).phase = "prepare"
    <3>1. worker[w].session \in Sessions
      BY <1>1 DEF EndPass
    <3> QED
      BY <3>1, RecordsTyped DEF DeleteOnly
  <2> QED
    BY <1>2, <1>4, <2>1 DEF Receipt, WorkerStep
<1>5. \A phase \in {"endRoom", "final", "fail"} :
        /\ [worker[w] EXCEPT !.phase = phase] \in EndPass
        /\ [worker[w] EXCEPT !.phase = phase].session = worker[w].session
        /\ [worker[w] EXCEPT !.phase = phase].phase = phase
  BY <1>1 DEF EndPass
<1>6. CASE Prepare(w) \/ EndRoom(w) \/ Fail(w)
  BY <1>2, <1>5, <1>6 DEF Prepare, EndRoom, Fail, WorkerStep
<1> QED
  BY <1>3, <1>4, <1>6

\* The pass that a claim of a page begins.
LEMMA ClaimedPass ==
  ASSUME TypeOK, NEW w \in Workers, NEW s \in Sessions, NEW top \in Users \cup {0},
         ClaimPage(w, s, top)
  PROVE  \E next \in EndPass :
           /\ worker' = [worker EXCEPT ![w] = next]
           /\ next.phase = "revoke"
           /\ next.session = s
           /\ next.page = Page(s, top)
           /\ next.top = top
           /\ next.todo = {u \in Page(s, top) : recipient[s][u].state # "revoked"}
<1> DEFINE page == Page(s, top)
           fenced == [u \in Users |-> IF u \in page THEN Fence(recipient[s][u])
                                                   ELSE recipient[s][u]]
           pass == [phase |-> "revoke", session |-> s, page |-> page,
                    top |-> top,
                    seen |-> [u \in Users |-> IF u \in page THEN fenced[u]
                                                          ELSE NoRecipient],
                    todo |-> {u \in page : recipient[s][u].state # "revoked"},
                    failed |-> FALSE, last |-> Tail(s, top) = {}]
<1>1. page \subseteq Users
  BY DEF Page, Tail
<1>2. fenced \in [Users -> Recipient]
  BY FenceTyped DEF TypeOK
<1>3. NoRecipient \in Recipient
  BY RecordsTyped
<1>4. worker' = [worker EXCEPT ![w] = pass]
  BY DEF ClaimPage
<1>5. top \in Nat
  BY SessionConstantsAssumption
<1> HIDE DEF page, fenced
<1>6. pass \in EndPass
  BY <1>1, <1>2, <1>3, <1>5 DEF EndPass
<1>7. /\ pass.phase = "revoke" /\ pass.session = s
      /\ pass.page = page /\ pass.top = top
      /\ pass.todo = {u \in page : recipient[s][u].state # "revoked"}
  OBVIOUS
<1> HIDE DEF pass
<1> QED
  BY <1>4, <1>6, <1>7 DEF page

LEMMA CutPassesStayCut ==
  ASSUME TypeOK, GenerationsAgree, TokensInductive, [Next]_vars
  PROVE  PassesCut'
<1>1. ASSUME NEW w \in Workers, NEW next \in EndPass \cup {Idle},
             worker' = [worker EXCEPT ![w] = next],
             next # Idle =>
               /\ session'[next.session] \in {"ending", "ended"}
               /\ next.phase = "revoke" /\ ~next.failed =>
                    \A u \in next.page \ next.todo :
                      NoToken(usable', next.session, u)
      PROVE  PassesCut'
  <2> SUFFICES ASSUME NEW i \in Workers PROVE PassCut(i)'
    BY DEF PassesCut
  <2>1. CASE i = w
    <3>1. worker'[i] = next
      BY <1>1, <2>1 DEF TypeOK
    <3> QED
      BY <1>1, <3>1 DEF PassCut
  <2>2. CASE i # w
    BY <1>1, <2>2, PassStays DEF TypeOK
  <2> QED
    BY <2>1, <2>2
<1>2. ASSUME NEW w \in Workers,
             \/ Receipt(w) \/ Prepare(w) \/ Defer(w) \/ EndRoom(w) \/ Final(w)
             \/ Lost(w) \/ Fail(w) \/ ReleaseLease(w) \/ Crash(w)
      PROVE  PassesCut'
  <2>1. worker[w] # Idle /\ worker[w].session \in Sessions
    BY <1>2, PassesMoveOn DEF TypeOK, EndPass
  <2>2. session[worker[w].session] \in {"ending", "ended"}
    BY <2>1 DEF TokensInductive, PassesCut, PassCut
  <2>3. session'[worker[w].session] \in {"ending", "ended"}
    BY <2>1, <2>2, EndsStay
  <2> QED
    BY <1>1, <1>2, <2>3, PassesMoveOn
<1>3. ASSUME NEW w \in Workers, NEW u \in Users, RevokeOne(w, u)
      PROVE  PassesCut'
  <2> DEFINE s == worker[w].session
             next == [worker[w] EXCEPT !.todo = @ \ {u}]
  <2>1. worker[w] \in EndPass /\ worker[w] # Idle
    BY <1>3, PassTyped DEF RevokeOne, At, EndPass, Idle
  <2>2. /\ next \in EndPass
        /\ next.session = s /\ next.page = worker[w].page
        /\ next.todo = worker[w].todo \ {u}
        /\ next.failed = worker[w].failed
    BY <2>1 DEF EndPass
  <2>3. /\ worker' = [worker EXCEPT ![w] = next]
        /\ worker[w].phase = "revoke"
        /\ usable' = {t \in usable : t.session # s \/ t.user # u}
        /\ session' = session
    BY <1>3 DEF RevokeOne, At, WorkerStep, Cut, pointers
  <2>4. PassCut(w)
    BY DEF TokensInductive, PassesCut
  <2>5. ~next.failed => \A v \in next.page \ next.todo : NoToken(usable', s, v)
    BY <2>1, <2>2, <2>3, <2>4 DEF PassCut, NoToken
  <2> HIDE DEF next
  <2> QED
    BY <1>1, <2>1, <2>2, <2>3, <2>4, <2>5 DEF PassCut
<1>4. ASSUME NEW w \in Workers, NEW u \in Users, RevokeOneFails(w, u)
      PROVE  PassesCut'
  <2> DEFINE next == [worker[w] EXCEPT !.todo = @ \ {u}, !.failed = TRUE]
  <2>1. worker[w] \in EndPass /\ worker[w] # Idle
    BY <1>4, PassTyped DEF RevokeOneFails, At, EndPass, Idle
  <2>2. /\ next \in EndPass
        /\ next.session = worker[w].session
        /\ next.failed
    BY <2>1 DEF EndPass
  <2>3. worker' = [worker EXCEPT ![w] = next] /\ session' = session
    BY <1>4 DEF RevokeOneFails, WorkerStep, pointers
  <2>4. PassCut(w)
    BY DEF TokensInductive, PassesCut
  <2> HIDE DEF next
  <2> QED
    BY <1>1, <2>1, <2>2, <2>3, <2>4 DEF PassCut
<1>5. ASSUME NEW w \in Workers, NEW s \in Sessions, ClaimDelete(w, s)
      PROVE  PassesCut'
  <2>1. /\ DeleteOnly(s) \in EndPass
        /\ DeleteOnly(s).session = s
        /\ DeleteOnly(s).phase = "prepare"
    BY RecordsTyped DEF DeleteOnly
  <2> QED
    BY <1>1, <1>5, <2>1 DEF ClaimDelete, Claimable, pointers
<1>6. ASSUME NEW w \in Workers, NEW s \in Sessions, NEW top \in Users \cup {0},
             ClaimPage(w, s, top)
      PROVE  PassesCut'
  <2>1. PICK next \in EndPass :
          /\ worker' = [worker EXCEPT ![w] = next]
          /\ next.session = s
          /\ next.page = Page(s, top)
          /\ next.todo = {u \in Page(s, top) : recipient[s][u].state # "revoked"}
    BY <1>6, ClaimedPass
  <2>2. /\ session[s] = "ending" /\ session' = session
        /\ usable' = usable
    BY <1>6 DEF ClaimPage, Claimable, pointers
  <2>3. \A u \in Users : recipient[s][u].state = "revoked" => NoToken(usable, s, u)
    BY DEF TokensInductive, UsableTokensOnRecord, NoToken
  <2>4. Page(s, top) \subseteq Users
    BY DEF Page, Tail
  <2> QED
    BY <1>1, <2>1, <2>2, <2>3, <2>4
<1>7. CASE UNCHANGED worker
  BY <1>7, PassStays DEF PassesCut
<1> QED
  BY <1>2, <1>3, <1>4, <1>5, <1>6, <1>7, OtherStepsKeepWorkers

LEMMA InitTokens == Init => TokensInductive
BY SessionConstantsAssumption
DEF Init, TokensInductive, UsableTokensOnRecord, AttemptsOwned, AttemptsCut,
    PassesCut, PassCut, NoRecipient, Idle

LEMMA StepTokens ==
  TypeOK /\ GenerationsAgree /\ TokensInductive /\ [Next]_vars => TokensInductive'
BY TokensStayOnRecord, AttemptsStayOwned, CutAttemptsStayCut, CutPassesStayCut
DEF TokensInductive

\* LiveKit accepts no token whose revocation was acknowledged, and none that a
\* recipient document does not account for.
THEOREM TokensAreOnRecord == Spec => []UsableTokensOnRecord
<1> DEFINE I == TypeOK /\ GenerationsAgree /\ LeasesArePending /\ TokensInductive
<1>1. I /\ [Next]_vars => I'
  BY StepTypes, StepGenerations, StepTokens
<1>2. Init => I
  BY InitTypes, InitGenerations, InitTokens
<1>3. I => UsableTokensOnRecord
  BY DEF TokensInductive
<1> QED
  BY <1>1, <1>2, <1>3, PTL DEF Spec

\* A revocation that LiveKit has yet to see never hits a token issued since.
THEOREM RevocationsHitOnlyTheirs == Spec => []NoStrayRevocation
<1> DEFINE I == TypeOK /\ GenerationsAgree /\ LeasesArePending /\ TokensInductive
<1>1. I /\ [Next]_vars => I'
  BY StepTypes, StepGenerations, StepTokens
<1>2. Init => I
  BY InitTypes, InitGenerations, InitTokens
<1>3. I => NoStrayRevocation
  <2> SUFFICES ASSUME TypeOK, AttemptsOwned, NEW r \in Revokers,
                      revoker[r] # Idle
               PROVE  recipient[revoker[r].session][revoker[r].user].state
                        # "active"
    BY DEF TokensInductive, NoStrayRevocation
  <2>1. revoker[r].session \in Sessions /\ revoker[r].user \in Users
    BY DEF TypeOK, Reconcile
  <2>2. recipient[revoker[r].session][revoker[r].user].attempt # None
    BY DEF AttemptsOwned, Own
  <2> QED
    BY <2>1, <2>2 DEF AttemptsOwned
<1> QED
  BY <1>1, <1>2, <1>3, PTL DEF Spec

------------------------
(* Endings.  The cursor of an end job only passes recipients that were       *)
(* revoked and cleared, because a page is written only under the lease it    *)
(* was claimed with, and a checkpoint says that nobody is left after it.     *)

DocumentsMatch ==
  \A s \in Sessions, u \in Users :
    /\ roster[u] # None /\ roster[u].session = s =>
         /\ recipient[s][u].state # "none"
         /\ recipient[s][u].authority = roster[u].authority
    /\ mirror[u] # None /\ mirror[u].session = s =>
         /\ recipient[s][u].state # "none"
         /\ recipient[s][u].authority = mirror[u].authority

Gone(s, u) ==
  /\ recipient[s][u].state = "revoked"
  /\ roster[u] # None => roster[u].session # s
  /\ mirror[u] # None => mirror[u].session # s

CursorSound(s) ==
  /\ job[s].status = "none" => job[s].cursor = 0 /\ ~job[s].checkpoint
  /\ session[s] = "ended" => job[s].checkpoint
  /\ job[s].checkpoint =>
       \A u \in Users : u > job[s].cursor => recipient[s][u].state = "none"
  /\ \A u \in Users :
       u <= job[s].cursor /\ recipient[s][u].state # "none" => Gone(s, u)

PassSound(w) == worker[w] # Idle =>
  LET s == worker[w].session
  IN /\ worker[w].phase = "revoke" =>
          \A u \in worker[w].page : recipient[s][u].state # "none"
     /\ worker[w].phase = "revoke" /\ job[s].lease = w =>
          /\ ~job[s].checkpoint
          /\ \A u \in Users :
               /\ job[s].cursor < u
               /\ u <= worker[w].top
               /\ recipient[s][u].state # "none"
               => u \in worker[w].page
     /\ worker[w].phase \in {"prepare", "endRoom", "final"} => job[s].checkpoint

CleanupInductive ==
  /\ DocumentsMatch
  /\ \A s \in Sessions : CursorSound(s)
  /\ \A w \in Workers : PassSound(w)

\* What no step but a disclosure does to a recipient and its documents.
Quiet(s, u) ==
  /\ recipient'[s][u].authority = recipient[s][u].authority
  /\ recipient'[s][u].state = "none" <=> recipient[s][u].state = "none"
  /\ recipient[s][u].state = "revoked" => recipient'[s][u].state = "revoked"

LEMMA QuietSteps ==
  ASSUME TypeOK, TokensInductive, CleanupInductive, [Next]_vars,
         NEW s \in Sessions, NEW u \in Users,
         \A h \in Handlers : Disclose(h) =>
           handler[h].session # s \/ handler[h].user # u
  PROVE  Quiet(s, u)
<1>1. recipient[s][u] \in Recipient
  BY DEF TypeOK
<1>2. CASE recipient'[s][u] = recipient[s][u]
  BY <1>2 DEF Quiet
<1>3. ASSUME NEW h \in Handlers, Disclose(h) PROVE Quiet(s, u)
  BY <1>2, <1>3, DiscloseRecipient
<1>4. ASSUME NEW w \in Workers, NEW x \in Sessions, NEW top \in Users \cup {0},
             ClaimPage(w, x, top)
      PROVE  Quiet(s, u)
  <2>1. CASE x = s /\ u \in Page(s, top)
    <3>1. /\ recipient'[s][u] = Fence(recipient[s][u])
          /\ recipient[s][u].state # "none"
      BY <1>4, <2>1, ClaimEffect
    <3> QED
      BY <1>1, <3>1, FenceFields DEF Quiet
  <2>2. CASE ~(x = s /\ u \in Page(s, top))
    BY <1>2, <1>4, <2>2, ClaimEffect
  <2> QED
    BY <2>1, <2>2
<1>5. ASSUME NEW w \in Workers, Receipt(w) PROVE Quiet(s, u)
  <2>1. CASE s = worker[w].session /\ u \in worker[w].page
    <3>1. recipient'[s][u] = Settled(recipient[s][u])
      BY <1>5, <2>1, ReceiptEffect
    <3>2. worker[w].phase = "revoke" /\ worker[w] # Idle
      BY <1>5 DEF Receipt, Revoked, At, Idle
    <3>3. recipient[s][u].state # "none"
      BY <2>1, <3>2 DEF CleanupInductive, PassSound
    <3> QED
      BY <1>1, <3>1, <3>3, SettledFields DEF Quiet
  <2>2. CASE ~(s = worker[w].session /\ u \in worker[w].page)
    BY <1>2, <1>5, <2>2, ReceiptEffect
  <2> QED
    BY <2>1, <2>2
<1>6. ASSUME NEW r \in Revokers, NEW v \in Users, NEW x \in Sessions,
             PlanRevocation(r, v, x)
      PROVE  Quiet(s, u)
  <2>1. CASE x = s /\ v = u
    <3>1. /\ recipient'[s][u] = Attempted(recipient[s][u], r)
          /\ recipient[s][u].state = "active"
      BY <1>6, <2>1, PlanEffect
    <3> QED
      BY <1>1, <3>1, AttemptedFields DEF Quiet
  <2>2. CASE ~(x = s /\ v = u)
    BY <1>2, <1>6, <2>2, PlanEffect
  <2> QED
    BY <2>1, <2>2
<1>7. ASSUME NEW r \in Revokers, Doubt(r) \/ Acknowledge(r)
      PROVE  Quiet(s, u)
  <2> DEFINE x == recipient[s][u]
  <2>1. \/ recipient'[s][u] = x
        \/ /\ x.attempt # None
           /\ \/ recipient'[s][u] = Answered(x, "uncertain")
              \/ recipient'[s][u] = Answered(Settled(x), "acknowledged")
    BY <1>7, AnswerEffect DEF Own
  <2>2. x.attempt # None => x.state \in {"revoking", "revoked"}
    BY DEF TokensInductive, AttemptsOwned
  <2>3. x \in Recipient
    BY <1>1
  <2>4. x.attempt # None =>
          /\ Answered(x, "uncertain").state = x.state
          /\ Answered(x, "uncertain").authority = x.authority
    BY <2>3, AnsweredFields
  <2>5. x.attempt # None =>
          /\ Answered(Settled(x), "acknowledged").state = "revoked"
          /\ Answered(Settled(x), "acknowledged").authority = x.authority
    <3> HIDE DEF x
    <3>1. /\ Settled(x) \in Recipient
          /\ Settled(x).attempt = x.attempt
          /\ Settled(x).state = "revoked"
          /\ Settled(x).authority = x.authority
      BY <2>3, SettledTyped, SettledFields
    <3> QED
      BY <3>1, AnsweredFields
  <2> QED
    BY <1>2, <2>1, <2>2, <2>4, <2>5 DEF Quiet
<1>8. ASSUME NEW v \in Users, NEW x \in Sessions, BarrierLifts(v, x)
      PROVE  Quiet(s, u)
  <2>1. \/ recipient'[s][u] = recipient[s][u]
        \/ recipient'[s][u] = [recipient[s][u] EXCEPT !.cooling = FALSE]
    BY <1>8, LiftEffect
  <2> QED
    BY <1>1, <1>2, <2>1, LiftedFields DEF Quiet
<1> QED
  BY <1>2, <1>3, <1>4, <1>5, <1>6, <1>7, <1>8, OtherStepsKeepLedgers

\* Roster entries and mirrors are written by a disclosure only.
LEMMA DocumentSteps ==
  ASSUME TypeOK, [Next]_vars, NEW u \in Users
  PROVE  \/ /\ roster'[u] \in {roster[u], None}
            /\ mirror'[u] \in {mirror[u], None}
         \/ \E h \in Handlers : Disclose(h) /\ handler[h].user = u
<1>1. ASSUME NEW h \in Handlers, Disclose(h)
      PROVE  handler[h].user = u \/ (roster'[u] = roster[u] /\ mirror'[u] = mirror[u])
  BY <1>1, DiscloseEffect
<1>2. ASSUME NEW w \in Workers, Receipt(w)
      PROVE  roster'[u] \in {roster[u], None} /\ mirror'[u] \in {mirror[u], None}
  BY <1>2, ReceiptEffect
<1>3. ASSUME NEW r \in Revokers, Doubt(r) \/ Acknowledge(r)
      PROVE  roster'[u] \in {roster[u], None} /\ mirror'[u] \in {mirror[u], None}
  BY <1>3, AnswerEffect
<1>4. ASSUME NEW w \in Workers, NEW s \in Sessions, NEW top \in Users \cup {0},
             ClaimPage(w, s, top)
      PROVE  roster' = roster /\ mirror' = mirror
  BY <1>4, ClaimEffect
<1>5. ASSUME NEW r \in Revokers, NEW v \in Users, NEW s \in Sessions,
             PlanRevocation(r, v, s)
      PROVE  roster' = roster /\ mirror' = mirror
  BY <1>5, PlanEffect
<1>6. ASSUME NEW v \in Users, NEW s \in Sessions, BarrierLifts(v, s)
      PROVE  roster' = roster /\ mirror' = mirror
  BY <1>6, LiftEffect
<1>7. MirrorsTaken => mirror'[u] \in {mirror[u], None}
  BY DEF MirrorsTaken, TypeOK
<1> QED
  BY <1>1, <1>2, <1>3, <1>4, <1>5, <1>6, <1>7, OtherStepsKeepLedgers

LEMMA DocumentsStayMatched ==
  ASSUME TypeOK, TokensInductive, CleanupInductive, [Next]_vars
  PROVE  DocumentsMatch'
<1> SUFFICES ASSUME NEW s \in Sessions, NEW u \in Users
             PROVE  /\ roster'[u] # None /\ roster'[u].session = s =>
                         /\ recipient'[s][u].state # "none"
                         /\ recipient'[s][u].authority = roster'[u].authority
                    /\ mirror'[u] # None /\ mirror'[u].session = s =>
                         /\ recipient'[s][u].state # "none"
                         /\ recipient'[s][u].authority = mirror'[u].authority
  BY DEF DocumentsMatch
<1>1. DocumentsMatch
  BY DEF CleanupInductive
<1>2. ASSUME NEW h \in Handlers, Disclose(h), handler[h].user = u
      PROVE  /\ roster'[u] # None /\ roster'[u].session = s =>
                  /\ recipient'[s][u].state # "none"
                  /\ recipient'[s][u].authority = roster'[u].authority
             /\ mirror'[u] # None /\ mirror'[u].session = s =>
                  /\ recipient'[s][u].state # "none"
                  /\ recipient'[s][u].authority = mirror'[u].authority
  <2> DEFINE m == handler[h]
  <2>1. /\ roster'[u] = [session |-> m.session, authority |-> m.authority]
        /\ mirror'[u] = [session |-> m.session, authority |-> m.authority,
                         epoch |-> m.epoch]
    BY <1>2, DiscloseEffect
  <2>2. s = m.session =>
          /\ recipient'[s][u].state = "active"
          /\ recipient'[s][u].authority = m.authority
    BY <1>2, DiscloseRecipient
  <2> HIDE DEF m
  <2> QED
    BY <2>1, <2>2
<1>3. ASSUME \A h \in Handlers : Disclose(h) => handler[h].user # u
      PROVE  /\ Quiet(s, u)
             /\ roster'[u] \in {roster[u], None}
             /\ mirror'[u] \in {mirror[u], None}
  BY <1>3, QuietSteps, DocumentSteps
<1> QED
  BY <1>1, <1>2, <1>3 DEF DocumentsMatch, Quiet

LEMMA OtherStepsKeepJobs ==
  ASSUME [Next]_vars,
         \A s \in Sessions : ~End(s) /\ ~LeaseLapses(s),
         \A w \in Workers, s \in Sessions, top \in Users \cup {0} :
            ~ClaimPage(w, s, top),
         \A w \in Workers, s \in Sessions : ~ClaimDelete(w, s),
         \A w \in Workers :
           /\ ~Receipt(w) /\ ~Prepare(w) /\ ~Defer(w) /\ ~Final(w)
           /\ ~ReleaseLease(w)
  PROVE  UNCHANGED job
<1>1. CASE \/ \E s \in Sessions : Start(s)
           \/ \E h \in Handlers : Disclose(h) \/ Abandon(h)
           \/ \E h \in Handlers, u \in Users, s \in Sessions, q \in Requests :
                 Preflight(h, u, s, q)
  BY <1>1 DEF Start, Disclose, Abandon, Preflight
<1>2. CASE \/ \E u \in Users : ChangeStanding(u)
           \/ \E u \in MaySanction : ToggleAdmission(u)
           \/ \E u \in MayFreeze : FreezeAccount(u) \/ RevokeAccount(u)
           \/ \E u \in Users, s \in Sessions : BarrierLifts(u, s)
           \/ UNCHANGED vars
  BY <1>2 DEF ChangeStanding, ToggleAdmission, FreezeAccount, RevokeAccount,
                BarrierLifts, vars
<1>3. CASE \/ \E r \in Revokers, u \in Users, s \in Sessions :
                 PlanRevocation(r, u, s)
           \/ \E r \in Revokers : \/ RevokeOnline(r) \/ RevokeUnanswered(r)
                                   \/ Doubt(r) \/ Acknowledge(r)
                                   \/ RevokerCrash(r)
  BY <1>3
  DEF PlanRevocation, RevokeOnline, RevokeUnanswered, Doubt, Acknowledge,
      RevokerCrash, RevokerStep
<1>4. CASE \E w \in Workers, u \in Users : RevokeOne(w, u) \/ RevokeOneFails(w, u)
  BY <1>4 DEF RevokeOne, RevokeOneFails
<1>5. CASE \E w \in Workers : EndRoom(w) \/ Lost(w) \/ Fail(w) \/ Crash(w)
  BY <1>5 DEF EndRoom, Lost, Fail, Crash
<1> QED
  BY <1>1, <1>2, <1>3, <1>4, <1>5 DEF Next

LEMMA EndedJob ==
  ASSUME NEW j \in Job, NEW w \in Workers \cup {None}, NEW c \in Nat,
         NEW last \in BOOLEAN
  PROVE  LET next == [Leased(j, w) EXCEPT !.cursor = c, !.checkpoint = last]
         IN /\ next.status = j.status
            /\ next.lease = w
            /\ next.cursor = c
            /\ next.checkpoint = last
<1>1. Leased(j, w) \in Job /\ Leased(j, w).status = j.status /\ Leased(j, w).lease = w
  BY LeasedTyped, LeasedFields
<1> QED
  BY <1>1 DEF Job

\* A receipt moves the cursor of its own job, under its lease.
LEMMA ReceiptOfJob ==
  ASSUME TypeOK, NEW w \in Workers, Receipt(w)
  PROVE  LET s == worker[w].session
             last == worker[w].last
         IN /\ s \in Sessions
            /\ job[s].lease = w
            /\ job'[s].status = job[s].status
            /\ job'[s].lease = IF last THEN w ELSE None
            /\ job'[s].cursor = NextCursor(w)
            /\ NextCursor(w) \in Nat
            /\ job'[s].checkpoint = last
            /\ \A x \in Sessions : x # s => job'[x] = job[x]
<1> DEFINE s == worker[w].session
           last == worker[w].last
<1>1. worker[w] \in EndPass /\ s \in Sessions
  BY ReceiptEffect
<1>2. job[s] \in Job /\ last \in BOOLEAN /\ worker[w].top \in Nat
  BY <1>1 DEF TypeOK, EndPass
<1>3. NextCursor(w) \in Nat
  BY <1>2 DEF NextCursor, Job
<1>4. /\ job' = [job EXCEPT ![s] = [Leased(job[s], IF last THEN w ELSE None)
                     EXCEPT !.cursor = NextCursor(w), !.checkpoint = last]]
      /\ job[s].lease = w
  BY DEF Receipt, Holds
<1>5. (IF last THEN w ELSE None) \in Workers \cup {None}
  OBVIOUS
<1> DEFINE lease == IF last THEN w ELSE None
           next == [Leased(job[s], lease) EXCEPT !.cursor = NextCursor(w),
                                                 !.checkpoint = last]
<1>6. /\ next.status = job[s].status
      /\ next.lease = lease
      /\ next.cursor = NextCursor(w)
      /\ next.checkpoint = last
  <2> HIDE DEF lease, last, s
  <2> QED
    BY <1>2, <1>3, <1>5, EndedJob DEF lease
<1>7. job' = [job EXCEPT ![s] = next]
  BY <1>4
<1> HIDE DEF next
<1>8. job'[s] = next /\ \A x \in Sessions : x # s => job'[x] = job[x]
  BY <1>1, <1>7 DEF TypeOK
<1> QED
  BY <1>1, <1>3, <1>4, <1>6, <1>8

\* Nothing but an end and a receipt moves a cursor, and nobody who is not idle
\* obtains a lease it did not have.
LEMMA JobSteps ==
  ASSUME TypeOK, [Next]_vars, NEW s \in Sessions,
         ~End(s),
         \A w \in Workers : Receipt(w) => worker[w].session # s
  PROVE  /\ job'[s].cursor = job[s].cursor
         /\ job'[s].checkpoint = job[s].checkpoint
         /\ job'[s].status = "none" => job[s].status = "none"
         /\ \A w \in Workers : job'[s].lease = w =>
              job[s].lease = w \/ worker[w] = Idle
<1> DEFINE Goal == /\ job'[s].cursor = job[s].cursor
                   /\ job'[s].checkpoint = job[s].checkpoint
                   /\ job'[s].status = "none" => job[s].status = "none"
                   /\ \A w \in Workers : job'[s].lease = w =>
                        job[s].lease = w \/ worker[w] = Idle
<1>1. job'[s] = job[s] => Goal
  OBVIOUS
<1>2. ASSUME NEW x \in Sessions, NEW w \in Workers \cup {None},
             w # None => job[x].lease = w \/ worker[w] = Idle,
             job' = [job EXCEPT ![x] = Leased(@, w)]
      PROVE  Goal
  <2>1. CASE x # s
    BY <1>1, <1>2, <2>1 DEF TypeOK
  <2>2. CASE x = s
    <3>1. job'[s] = Leased(job[s], w)
      BY <1>2, <2>2 DEF TypeOK
    <3> DEFINE next == Leased(job[s], w)
    <3>2. /\ next.lease = w
          /\ next.status = job[s].status
          /\ next.cursor = job[s].cursor
          /\ next.checkpoint = job[s].checkpoint
      BY LeasedJob
    <3>3. job'[s] = next
      BY <3>1
    <3> HIDE DEF next
    <3> QED
      BY <1>2, <2>2, <3>2, <3>3, SessionConstantsAssumption
  <2> QED
    BY <2>1, <2>2
<1>3. ASSUME NEW x \in Sessions, LeaseLapses(x) PROVE Goal
  <2>1. job[x] \in Job
    BY DEF TypeOK
  <2>2. /\ [job[x] EXCEPT !.expired = TRUE].lease = job[x].lease
        /\ [job[x] EXCEPT !.expired = TRUE].status = job[x].status
        /\ [job[x] EXCEPT !.expired = TRUE].cursor = job[x].cursor
        /\ [job[x] EXCEPT !.expired = TRUE].checkpoint = job[x].checkpoint
    BY <2>1 DEF Job
  <2>3. job'[s] = IF s = x THEN [job[x] EXCEPT !.expired = TRUE] ELSE job[s]
    BY <1>3 DEF LeaseLapses, TypeOK
  <2> QED
    BY <2>2, <2>3
<1>4. ASSUME NEW w \in Workers, NEW x \in Sessions, NEW top \in Users \cup {0},
             ClaimDelete(w, x) \/ ClaimPage(w, x, top)
      PROVE  Goal
  <2>1. worker[w] = Idle /\ job' = [job EXCEPT ![x] = Leased(@, w)]
    BY <1>4 DEF ClaimDelete, ClaimPage
  <2> HIDE DEF Goal
  <2> QED
    BY <1>2, <2>1
<1>5. ASSUME NEW w \in Workers, Prepare(w) \/ Defer(w) PROVE Goal
  <2>1. worker[w].session \in Sessions
    BY <1>5, PassTyped DEF Prepare, Defer, At, EndPass
  <2>2. \/ job' = [job EXCEPT ![worker[w].session] = Leased(@, None)]
        \/ /\ job[worker[w].session].lease = w
           /\ job' = [job EXCEPT ![worker[w].session] = Leased(@, w)]
    BY <1>5 DEF Prepare, Defer, Holds
  <2> HIDE DEF Goal
  <2> QED
    BY <1>2, <2>1, <2>2
<1>6. ASSUME NEW w \in Workers, ReleaseLease(w) PROVE Goal
  <2>1. worker[w].session \in Sessions
    BY <1>6, PassTyped DEF ReleaseLease, At, EndPass
  <2>2. \/ job' = [job EXCEPT ![worker[w].session] = Leased(@, None)]
        \/ job' = job
    BY <1>6 DEF ReleaseLease
  <2> HIDE DEF Goal
  <2>3. CASE job' = job
    BY <1>1, <2>3
  <2> QED
    BY <1>2, <2>1, <2>2, <2>3
<1>7. ASSUME NEW w \in Workers, Final(w) PROVE Goal
  <2> DEFINE x == worker[w].session
             done == [Leased(job[x], None) EXCEPT !.status = "completed"]
  <2>1. x \in Sessions
    BY <1>7, PassTyped DEF Final, At, EndPass
  <2>2. /\ Leased(job[x], None) \in Job
        /\ Leased(job[x], None).cursor = job[x].cursor
        /\ Leased(job[x], None).checkpoint = job[x].checkpoint
    <3> HIDE DEF x
    <3> QED
      BY <2>1, LeasedJob
  <2>3. /\ done.status = "completed" /\ done.lease = None
        /\ done.cursor = job[x].cursor
        /\ done.checkpoint = job[x].checkpoint
    <3> HIDE DEF x
    <3>1. job[x] \in Job
      BY <2>1 DEF TypeOK
    <3> QED
      BY <2>2, <3>1, CompletedFields DEF Job
  <2>4. job' = [job EXCEPT ![x] = done]
    BY <1>7 DEF Final
  <2> HIDE DEF done, x
  <2> QED
    BY <2>1, <2>3, <2>4, SessionConstantsAssumption DEF TypeOK
<1>8. ASSUME NEW w \in Workers, Receipt(w) PROVE Goal
  BY <1>1, <1>8, ReceiptOfJob
<1>9. ASSUME NEW x \in Sessions, End(x) PROVE Goal
  BY <1>1, <1>9 DEF End, StageEnd, TypeOK
<1>10. UNCHANGED job => Goal
  BY <1>1
<1> HIDE DEF Goal
<1>11. ASSUME NEW w \in Workers, NEW x \in Sessions, ClaimDelete(w, x) PROVE Goal
  <2>1. 0 \in Users \cup {0}
    OBVIOUS
  <2> QED
    BY <1>4, <1>11, <2>1
<1>12. Goal
  BY <1>3, <1>4, <1>5, <1>6, <1>7, <1>8, <1>9, <1>10, <1>11, OtherStepsKeepJobs
<1> QED
  BY <1>12 DEF Goal

\* Nobody is admitted to a generation that is not live: its recipients keep
\* their documents until they are cleared, and get none back.
LEMMA UnliveIsQuiet ==
  ASSUME TypeOK, TokensInductive, CleanupInductive, [Next]_vars,
         NEW s \in Sessions, session[s] # "live", NEW u \in Users
  PROVE  Quiet(s, u) /\ (Gone(s, u) => Gone(s, u)')
<1>1. ASSUME NEW h \in Handlers, Disclose(h) PROVE handler[h].session # s
  BY <1>1, DisclosedToIssuable
<1>2. Quiet(s, u)
  BY <1>1, QuietSteps
<1>3. roster'[u] # None /\ roster'[u].session = s => roster'[u] = roster[u]
  <2>1. ASSUME NEW h \in Handlers, Disclose(h), handler[h].user = u
        PROVE  roster'[u].session # s
    <3>1. roster'[u] = [session |-> handler[h].session,
                        authority |-> handler[h].authority]
      BY <2>1, DiscloseEffect
    <3> QED
      BY <1>1, <2>1, <3>1
  <2> QED
    BY <2>1, DocumentSteps
<1>4. mirror'[u] # None /\ mirror'[u].session = s => mirror'[u] = mirror[u]
  <2>1. ASSUME NEW h \in Handlers, Disclose(h), handler[h].user = u
        PROVE  mirror'[u].session # s
    <3>1. mirror'[u] = [session |-> handler[h].session,
                        authority |-> handler[h].authority,
                        epoch |-> handler[h].epoch]
      BY <2>1, DiscloseEffect
    <3> QED
      BY <1>1, <2>1, <3>1
  <2> QED
    BY <2>1, DocumentSteps
<1> QED
  BY <1>2, <1>3, <1>4 DEF Gone, Quiet

\* A receipt leaves nothing of the recipients of its page.
LEMMA ReceiptClearsDocuments ==
  ASSUME TypeOK, CleanupInductive, NEW w \in Workers, Receipt(w),
         NEW u \in worker[w].page
  PROVE  /\ recipient'[worker[w].session][u].state = "revoked"
         /\ roster'[u] # None => roster'[u].session # worker[w].session
         /\ mirror'[u] # None => mirror'[u].session # worker[w].session
<1> DEFINE s == worker[w].session
<1>1. s \in Sessions /\ u \in Users
  BY ReceiptEffect
<1>2. recipient[s][u].authority = worker[w].seen[u].authority
  BY DEF Receipt, Agrees
<1>3. /\ roster[u] # None /\ roster[u].session = s =>
           roster[u].authority = recipient[s][u].authority
      /\ mirror[u] # None /\ mirror[u].session = s =>
           mirror[u].authority = recipient[s][u].authority
  BY <1>1 DEF CleanupInductive, DocumentsMatch
<1>4. /\ roster'[u] = IF Clears(roster[u], s, worker[w].seen[u])
                      THEN None ELSE roster[u]
      /\ mirror'[u] = IF Clears(mirror[u], s, worker[w].seen[u])
                      THEN None ELSE mirror[u]
  BY <1>1 DEF Receipt
<1>5. recipient'[s][u].state = "revoked"
  <2>1. recipient'[s][u] = Settled(recipient[s][u])
    BY <1>1, ReceiptEffect
  <2>2. recipient[s][u] \in Recipient
    BY <1>1 DEF TypeOK
  <2> QED
    BY <2>1, <2>2, SettledFields
<1>6. /\ roster'[u] # None => roster'[u].session # s
      /\ mirror'[u] # None => mirror'[u].session # s
  BY <1>2, <1>3, <1>4 DEF Clears
<1> QED
  BY <1>5, <1>6

LEMMA CursorsStaySound ==
  ASSUME TypeOK, GenerationsAgree, LeasesArePending, TokensInductive,
         CleanupInductive, [Next]_vars, NEW s \in Sessions
  PROVE  CursorSound(s)'
<1>1. /\ job[s] \in Job
      /\ \A u \in Users : u \in Nat \ {0}
  BY SessionConstantsAssumption DEF TypeOK
<1>2. CursorSound(s)
  BY DEF CleanupInductive
<1>3. CASE End(s)
  <2>1. job'[s].status = "pending" /\ job'[s].cursor = 0 /\ ~job'[s].checkpoint
    BY <1>3 DEF End, StageEnd, NoJob, TypeOK
  <2>2. session'[s] = "ending"
    BY <1>3 DEF End, StageEnd, TypeOK
  <2> QED
    BY <1>1, <2>1, <2>2 DEF CursorSound
<1>4. ASSUME NEW w \in Workers, Receipt(w), worker[w].session = s
      PROVE  CursorSound(s)'
  <2> DEFINE next == NextCursor(w)
  <2>1. /\ job'[s].status = job[s].status
        /\ job'[s].cursor = next
        /\ job'[s].checkpoint = worker[w].last
        /\ job[s].lease = w
        /\ next \in Nat
    BY <1>4, ReceiptOfJob
  <2>2. /\ job[s].status = "pending"
        /\ session[s] = "ending"
        /\ session' = session
    <3>1. job[s].status = "pending"
      BY <2>1, SessionConstantsAssumption DEF LeasesArePending
    <3>2. session' = session
      BY <1>4, ReceiptEffect
    <3> QED
      BY <3>1, <3>2 DEF GenerationsAgree
  <2>3. worker[w].phase = "revoke" /\ worker[w] # Idle
    BY <1>4 DEF Receipt, Revoked, At, Idle
  <2>4. /\ worker[w].top \in Nat
        /\ next = job[s].cursor \/ next = worker[w].top
    BY <1>4, ReceiptEffect DEF NextCursor, EndPass
  <2>5. \A u \in Users : Quiet(s, u) /\ (Gone(s, u) => Gone(s, u)')
    BY <2>2, UnliveIsQuiet
  <2>6. worker[w].last =>
          \A u \in Users : u > next => recipient[s][u].state = "none"
    BY <1>4 DEF Receipt, Agrees, Tail
  <2>7. \A u \in worker[w].page : Gone(s, u)'
    <3> SUFFICES ASSUME NEW u \in worker[w].page PROVE Gone(s, u)'
      OBVIOUS
    <3>1. /\ recipient'[s][u].state = "revoked"
          /\ roster'[u] # None => roster'[u].session # s
          /\ mirror'[u] # None => mirror'[u].session # s
      BY <1>4, ReceiptClearsDocuments
    <3> QED
      BY <3>1 DEF Gone
  <2>8. ASSUME NEW u \in Users, u <= next, recipient'[s][u].state # "none"
        PROVE  Gone(s, u)'
    <3>1. recipient[s][u].state # "none"
      BY <2>5, <2>8 DEF Quiet
    <3>2. CASE u <= job[s].cursor
      BY <1>2, <2>5, <3>1, <3>2 DEF CursorSound
    <3>3. CASE u > job[s].cursor
      <4>1. u <= worker[w].top
        BY <1>1, <2>4, <2>8, <3>3 DEF Job
      <4>2. u \in worker[w].page
        BY <1>4, <2>1, <2>3, <3>1, <3>3, <4>1 DEF CleanupInductive, PassSound
      <4> QED
        BY <2>7, <4>2
    <3>4. u \in Nat /\ job[s].cursor \in Nat
      BY <1>1 DEF Job
    <3> QED
      BY <3>2, <3>3, <3>4
  <2>9. worker[w].last =>
          \A u \in Users : u > next => recipient'[s][u].state = "none"
    BY <2>5, <2>6 DEF Quiet
  <2> HIDE DEF next
  <2> QED
    BY <2>1, <2>2, <2>8, <2>9 DEF CursorSound
<1>5. CASE ~End(s) /\ \A w \in Workers : Receipt(w) => worker[w].session # s
  <2>1. /\ job'[s].cursor = job[s].cursor
        /\ job'[s].checkpoint = job[s].checkpoint
        /\ job'[s].status = "none" => job[s].status = "none"
    BY <1>5, JobSteps
  <2>2. session'[s] = "ended" => job[s].checkpoint
    <3>1. ASSUME NEW w \in Workers, Final(w), worker[w].session = s
          PROVE  job[s].checkpoint
      <4>1. worker[w].phase = "final" /\ worker[w] # Idle
        BY <3>1 DEF Final, At, Idle
      <4> QED
        BY <3>1, <4>1 DEF CleanupInductive, PassSound
    <3>2. ASSUME NEW w \in Workers, Final(w), worker[w].session # s
          PROVE  session'[s] = session[s]
      BY <3>2 DEF Final, TypeOK
    <3>3. ASSUME NEW x \in Sessions, Start(x) \/ End(x)
          PROVE  session'[s] = "ended" => session[s] = "ended"
      BY <3>3 DEF Start, End, StageEnd, TypeOK
    <3>4. session[s] = "ended" => job[s].checkpoint
      BY <1>2 DEF CursorSound
    <3> QED
      BY <3>1, <3>2, <3>3, <3>4, OtherStepsKeepGenerations
      DEF GenerationsKept, pointers
  <2>3. CASE job[s].status = "none"
    BY <1>1, <1>2, <2>1, <2>2, <2>3 DEF CursorSound
  <2>4. CASE job[s].status # "none"
    <3>1. session[s] # "live"
      <4>1. job[s].status \in {"pending", "completed"}
        BY <1>1, <2>4 DEF Job
      <4> QED
        BY <4>1 DEF GenerationsAgree
    <3>2. \A u \in Users : Quiet(s, u) /\ (Gone(s, u) => Gone(s, u)')
      BY <3>1, UnliveIsQuiet
    <3> QED
      BY <1>2, <2>1, <2>2, <2>4, <3>2 DEF CursorSound, Quiet
  <2> QED
    BY <2>3, <2>4
<1> QED
  BY <1>3, <1>4, <1>5

\* A worker that takes no step keeps what its page and its lease are worth.
LEMMA PassStaysSound ==
  ASSUME TypeOK, GenerationsAgree, LeasesArePending, TokensInductive,
         CleanupInductive, [Next]_vars, NEW w \in Workers, worker'[w] = worker[w]
  PROVE  PassSound(w)'
<1> SUFFICES ASSUME worker[w] # Idle PROVE PassSound(w)'
  BY DEF PassSound
<1> DEFINE s == worker[w].session
<1>1. s \in Sessions /\ worker[w].page \subseteq Users
  BY DEF TypeOK, EndPass
<1>2. session[s] \in {"ending", "ended"}
  BY DEF TokensInductive, PassesCut, PassCut
<1>3. \A u \in Users : recipient'[s][u].state = "none"
                         <=> recipient[s][u].state = "none"
  BY <1>1, <1>2, UnliveIsQuiet DEF Quiet
<1>4. PassSound(w)
  BY DEF CleanupInductive
<1>5. ~End(s)
  BY <1>2 DEF End
<1>6. ASSUME NEW i \in Workers, Receipt(i), worker[i].session = s
      PROVE  PassSound(w)'
  <2>1. worker[i].phase = "revoke" /\ worker[i] # Idle
    BY <1>6 DEF Receipt, Revoked, At, Idle
  <2>2. job[s].lease = i /\ job'[s].lease \in {i, None}
    BY <1>6, ReceiptOfJob
  <2>3. ~job[s].checkpoint
    BY <1>6, <2>1, <2>2 DEF CleanupInductive, PassSound
  <2>4. i # w
    <3>1. worker' = [worker EXCEPT ![i] = IF worker[i].last THEN DeleteOnly(s)
                                                            ELSE Idle]
      BY <1>6 DEF Receipt, WorkerStep
    <3>2. DeleteOnly(s).phase # "revoke" /\ Idle.phase # "revoke"
      BY DEF DeleteOnly, Idle
    <3> QED
      BY <2>1, <3>1, <3>2 DEF TypeOK
  <2>5. job'[s].lease # w
    BY <2>2, <2>4, SessionConstantsAssumption
  <2> QED
    BY <1>1, <1>3, <1>4, <2>3, <2>5 DEF PassSound
<1>7. CASE \A i \in Workers : Receipt(i) => worker[i].session # s
  <2>1. /\ job'[s].cursor = job[s].cursor
        /\ job'[s].checkpoint = job[s].checkpoint
        /\ job'[s].lease = w => job[s].lease = w
    BY <1>1, <1>5, <1>7, JobSteps
  <2> QED
    BY <1>1, <1>3, <1>4, <2>1 DEF PassSound
<1> QED
  BY <1>6, <1>7

LEMMA PassesStaySound ==
  ASSUME TypeOK, GenerationsAgree, LeasesArePending, TokensInductive,
         CleanupInductive, [Next]_vars
  PROVE  \A w \in Workers : PassSound(w)'
<1> DEFINE Sound(next, w) == next # Idle =>
      LET s == next.session
      IN /\ next.phase = "revoke" =>
              \A u \in next.page : recipient'[s][u].state # "none"
         /\ next.phase = "revoke" /\ job'[s].lease = w =>
              /\ ~job'[s].checkpoint
              /\ \A u \in Users :
                   /\ job'[s].cursor < u
                   /\ u <= next.top
                   /\ recipient'[s][u].state # "none"
                   => u \in next.page
         /\ next.phase \in {"prepare", "endRoom", "final"} => job'[s].checkpoint
<1>1. ASSUME NEW w \in Workers, NEW next,
             worker' = [worker EXCEPT ![w] = next],
             Sound(next, w)
      PROVE  \A i \in Workers : PassSound(i)'
  <2> SUFFICES ASSUME NEW i \in Workers PROVE PassSound(i)'
    OBVIOUS
  <2>1. CASE i = w
    <3>1. worker'[i] = next
      BY <1>1, <2>1 DEF TypeOK
    <3> QED
      BY <1>1, <2>1, <3>1 DEF PassSound
  <2>2. CASE i # w
    <3>1. worker'[i] = worker[i]
      BY <1>1, <2>2 DEF TypeOK
    <3> QED
      BY <3>1, PassStaysSound
  <2> QED
    BY <2>1, <2>2
<1>2. \A w \in Workers : PassSound(w)
  BY DEF CleanupInductive
<1>3. \A w \in Workers : worker[w] # Idle =>
        worker[w] \in EndPass /\ worker[w].session \in Sessions
  BY DEF TypeOK, EndPass
<1>4. \A w \in Workers : Sound(Idle, w)
  OBVIOUS
<1>5. ASSUME NEW w \in Workers, NEW s \in Sessions, NEW top \in Users \cup {0},
             ClaimPage(w, s, top)
      PROVE  \A i \in Workers : PassSound(i)'
  <2>1. /\ session[s] = "ending"
        /\ job'[s].cursor = job[s].cursor
        /\ ~job'[s].checkpoint
    <3>1. job' = [job EXCEPT ![s] = Leased(job[s], w)]
      BY <1>5 DEF ClaimPage
    <3>2. /\ Leased(job[s], w).cursor = job[s].cursor
          /\ Leased(job[s], w).checkpoint = job[s].checkpoint
      BY LeasedJob
    <3>3. session[s] = "ending" /\ ~job[s].checkpoint
      BY <1>5 DEF ClaimPage, Claimable
    <3> QED
      BY <3>1, <3>2, <3>3 DEF TypeOK
  <2>2. \A u \in Users : recipient'[s][u].state = "none"
                           <=> recipient[s][u].state = "none"
    BY <2>1, UnliveIsQuiet DEF Quiet
  <2>3. /\ \A u \in Page(s, top) : u \in Users /\ recipient[s][u].state # "none"
        /\ \A u \in Users : /\ job[s].cursor < u
                             /\ u <= top
                             /\ recipient[s][u].state # "none"
                             => u \in Page(s, top)
    <3> HIDE DEF Sound
    <3>1. \A u \in Users : u \in Nat
      BY SessionConstantsAssumption
    <3>2. top \in Nat
      BY SessionConstantsAssumption
    <3>3. \A u \in Page(s, top) : u \in Users /\ recipient[s][u].state # "none"
      BY DEF Page, Tail
    <3>4. ASSUME NEW u \in Users, job[s].cursor < u, u <= top,
                 recipient[s][u].state # "none"
          PROVE  u \in Page(s, top)
      <4>1. job[s].cursor \in Nat
        BY DEF TypeOK, Job
      <4>2. u \in Nat
        BY <3>1
      <4>3. ~(u > top)
        BY <3>2, <3>4, <4>2
      <4>4. u > job[s].cursor
        BY <3>4, <4>1, <4>2
      <4> QED
        BY <3>4, <4>3, <4>4 DEF Page, Tail
    <3> QED
      BY <3>3, <3>4
  <2>4. PICK next : /\ worker' = [worker EXCEPT ![w] = next]
                    /\ next.phase = "revoke"
                    /\ next.session = s
                    /\ next.page = Page(s, top)
                    /\ next.top = top
    BY <1>5, ClaimedPass
  <2>5. Sound(next, w)
    BY <2>1, <2>2, <2>3, <2>4
  <2> HIDE DEF Sound
  <2> QED
    BY <1>1, <2>4, <2>5
<1>6. ASSUME NEW w \in Workers, NEW s \in Sessions, ClaimDelete(w, s)
      PROVE  \A i \in Workers : PassSound(i)'
  <2>1. job'[s].checkpoint
    <3>1. job' = [job EXCEPT ![s] = Leased(job[s], w)] /\ job[s].checkpoint
      BY <1>6 DEF ClaimDelete
    <3>2. Leased(job[s], w).checkpoint = job[s].checkpoint
      BY LeasedJob
    <3> QED
      BY <3>1, <3>2 DEF TypeOK
  <2>2. DeleteOnly(s).session = s /\ DeleteOnly(s).phase = "prepare"
    BY DEF DeleteOnly
  <2>3. Sound(DeleteOnly(s), w)
    BY <2>1, <2>2
  <2>4. worker' = [worker EXCEPT ![w] = DeleteOnly(s)]
    BY <1>6 DEF ClaimDelete
  <2> HIDE DEF Sound
  <2> QED
    BY <1>1, <2>3, <2>4
<1>7. ASSUME NEW w \in Workers, NEW u \in Users,
             RevokeOne(w, u) \/ RevokeOneFails(w, u)
      PROVE  \A i \in Workers : PassSound(i)'
  <2>1. worker[w] \in EndPass /\ worker[w] # Idle
    BY <1>7, PassTyped DEF RevokeOne, RevokeOneFails, At, EndPass, Idle
  <2>2. PICK next \in EndPass :
          /\ worker' = [worker EXCEPT ![w] = next]
          /\ next.phase = worker[w].phase
          /\ next.session = worker[w].session
          /\ next.page = worker[w].page
          /\ next.top = worker[w].top
    <3>1. CASE RevokeOne(w, u)
      <4> DEFINE next == [worker[w] EXCEPT !.todo = @ \ {u}]
      <4>1. /\ next \in EndPass
            /\ next.phase = worker[w].phase
            /\ next.session = worker[w].session
            /\ next.page = worker[w].page
            /\ next.top = worker[w].top
        BY <2>1 DEF EndPass
      <4>2. worker' = [worker EXCEPT ![w] = next]
        BY <3>1 DEF RevokeOne, WorkerStep
      <4> HIDE DEF next
      <4> QED
        BY <4>1, <4>2
    <3>2. CASE RevokeOneFails(w, u)
      <4> DEFINE next == [worker[w] EXCEPT !.todo = @ \ {u}, !.failed = TRUE]
      <4>1. /\ next \in EndPass
            /\ next.phase = worker[w].phase
            /\ next.session = worker[w].session
            /\ next.page = worker[w].page
            /\ next.top = worker[w].top
        BY <2>1 DEF EndPass
      <4>2. worker' = [worker EXCEPT ![w] = next]
        BY <3>2 DEF RevokeOneFails, WorkerStep
      <4> HIDE DEF next
      <4> QED
        BY <4>1, <4>2
    <3> QED
      BY <1>7, <3>1, <3>2
  <2>3. UNCHANGED <<recipient, job>>
    BY <1>7 DEF RevokeOne, RevokeOneFails
  <2>4. Sound(next, w)
    BY <1>2, <2>1, <2>2, <2>3 DEF PassSound
  <2> HIDE DEF Sound
  <2> QED
    BY <1>1, <2>2, <2>4
<1>8. ASSUME NEW w \in Workers, Receipt(w)
      PROVE  \A i \in Workers : PassSound(i)'
  <2> DEFINE s == worker[w].session
             next == IF worker[w].last THEN DeleteOnly(s) ELSE Idle
  <2>1. job'[s].checkpoint = worker[w].last
    BY <1>8, ReceiptOfJob
  <2>2. DeleteOnly(s).session = s /\ DeleteOnly(s).phase = "prepare"
    BY DEF DeleteOnly
  <2>3. Sound(next, w)
    BY <2>1, <2>2
  <2>4. worker' = [worker EXCEPT ![w] = next]
    BY <1>8 DEF Receipt, WorkerStep
  <2> HIDE DEF Sound, next
  <2> QED
    BY <1>1, <2>3, <2>4
<1>9. ASSUME NEW w \in Workers, Prepare(w) \/ EndRoom(w)
      PROVE  \A i \in Workers : PassSound(i)'
  <2> DEFINE s == worker[w].session
  <2>1. /\ worker[w] \in EndPass
        /\ worker[w] # Idle
        /\ s \in Sessions
        /\ worker[w].phase \in {"prepare", "endRoom"}
    BY <1>9, PassTyped DEF Prepare, EndRoom, At, EndPass, Idle
  <2>2. job[s].checkpoint
    BY <1>2, <2>1 DEF PassSound
  <2>3. job'[s].checkpoint
    <3>1. CASE Prepare(w)
      <4>1. job' = [job EXCEPT ![s] = Leased(job[s], w)]
        BY <3>1 DEF Prepare
      <4>2. Leased(job[s], w).checkpoint = job[s].checkpoint
        BY <2>1, LeasedJob
      <4> QED
        BY <2>1, <2>2, <4>1, <4>2 DEF TypeOK
    <3>2. CASE EndRoom(w)
      BY <2>2, <3>2 DEF EndRoom
    <3> QED
      BY <1>9, <3>1, <3>2
  <2>4. PICK next : /\ worker' = [worker EXCEPT ![w] = next]
                    /\ next.session = s
                    /\ next.phase # "revoke"
    <3>1. \A phase \in {"endRoom", "final"} :
            /\ [worker[w] EXCEPT !.phase = phase].session = s
            /\ [worker[w] EXCEPT !.phase = phase].phase # "revoke"
      BY <2>1 DEF EndPass
    <3> QED
      BY <1>9, <3>1 DEF Prepare, EndRoom, WorkerStep
  <2>5. Sound(next, w)
    BY <2>3, <2>4
  <2> HIDE DEF Sound
  <2> QED
    BY <1>1, <2>4, <2>5
<1>10. ASSUME NEW w \in Workers, Fail(w)
       PROVE  \A i \in Workers : PassSound(i)'
  <2> DEFINE next == [worker[w] EXCEPT !.phase = "fail"]
  <2>1. next.phase = "fail"
    <3>1. worker[w] \in EndPass
      BY <1>10, PassTyped DEF Fail, Revoked, At
    <3> QED
      BY <3>1 DEF EndPass
  <2>2. worker' = [worker EXCEPT ![w] = next]
    BY <1>10 DEF Fail, WorkerStep
  <2> HIDE DEF next
  <2>3. Sound(next, w)
    BY <2>1
  <2> HIDE DEF Sound
  <2> QED
    BY <1>1, <2>2, <2>3
<1>11. ASSUME NEW w \in Workers,
              Defer(w) \/ Final(w) \/ Lost(w) \/ ReleaseLease(w) \/ Crash(w)
       PROVE  \A i \in Workers : PassSound(i)'
  <2>1. worker' = [worker EXCEPT ![w] = Idle]
    BY <1>11 DEF Defer, Final, Lost, ReleaseLease, Crash, WorkerStep
  <2> HIDE DEF Sound
  <2> QED
    BY <1>1, <1>4, <2>1
<1>12. UNCHANGED worker => \A w \in Workers : PassSound(w)'
  BY PassStaysSound
<1> HIDE DEF Sound
<1> QED
  BY <1>5, <1>6, <1>7, <1>8, <1>9, <1>10, <1>11, <1>12, OtherStepsKeepWorkers

LEMMA InitCleanup == Init => CleanupInductive
BY SessionConstantsAssumption
DEF Init, CleanupInductive, DocumentsMatch, CursorSound, PassSound, NoRecipient,
    NoJob, Idle

LEMMA StepCleanup ==
  /\ TypeOK /\ GenerationsAgree /\ LeasesArePending
  /\ TokensInductive /\ CleanupInductive
  /\ [Next]_vars
  => CleanupInductive'
BY DocumentsStayMatched, CursorsStaySound, PassesStaySound DEF CleanupInductive

\* When a generation is over, every recipient is revoked, LiveKit accepts none
\* of its tokens and no roster entry or mirror of it is left.
THEOREM EndsAreComplete == Spec => []EndedLeavesNothing
<1> DEFINE I == /\ TypeOK /\ GenerationsAgree /\ LeasesArePending
                /\ TokensInductive /\ CleanupInductive
<1>1. I /\ [Next]_vars => I'
  BY StepTypes, StepGenerations, StepTokens, StepCleanup
<1>2. Init => I
  BY InitTypes, InitGenerations, InitTokens, InitCleanup
<1>3. I => EndedLeavesNothing
  <2> SUFFICES ASSUME I, NEW s \in Sessions, NEW u \in Users,
                      session[s] = "ended"
               PROVE  /\ recipient[s][u].state \in {"none", "revoked"}
                      /\ roster[u] # None => roster[u].session # s
                      /\ mirror[u] # None => mirror[u].session # s
                      /\ \A t \in usable : t.session # s \/ t.user # u
    BY DEF EndedLeavesNothing
  <2>1. recipient[s][u].state # "none" => Gone(s, u)
    <3>1. CursorSound(s)
      BY DEF CleanupInductive
    <3>2. u \in Nat /\ job[s].cursor \in Nat
      BY SessionConstantsAssumption DEF TypeOK, Job
    <3>3. u > job[s].cursor \/ u <= job[s].cursor
      BY <3>2
    <3> QED
      BY <3>1, <3>3 DEF CursorSound
  <2>2. recipient[s][u].state \in {"none", "revoked"}
    BY <2>1 DEF Gone
  <2>3. recipient[s][u].state = "none" =>
          /\ roster[u] # None => roster[u].session # s
          /\ mirror[u] # None => mirror[u].session # s
    BY DEF CleanupInductive, DocumentsMatch
  <2>4. \A t \in usable : t.session # s \/ t.user # u
    BY <2>2 DEF TokensInductive, UsableTokensOnRecord
  <2> QED
    BY <2>1, <2>2, <2>3, <2>4 DEF Gone
<1> QED
  BY <1>1, <1>2, <1>3, PTL DEF Spec

------------------------
(* Who has access to the media of a channel: what an active recipient is
   entitled to, what a revocation settles, and the channel as an
   implementation of its generations. *)

SessionsSound ==
  /\ TypeOK
  /\ GenerationsAgree
  /\ LeasesArePending
  /\ TokensInductive
  /\ CleanupInductive

LEMMA StepSound == SessionsSound /\ [Next]_vars => SessionsSound'
BY StepTypes, StepGenerations, StepTokens, StepCleanup DEF SessionsSound

LEMMA AlwaysSound == Spec => []SessionsSound
<1>1. Init => SessionsSound
  BY InitTypes, InitGenerations, InitTokens, InitCleanup DEF SessionsSound
<1> QED
  BY <1>1, StepSound, PTL DEF Spec

------------------------
(* What a step does to the generations and to what LiveKit accepts *)

\* A removal is on its way to LiveKit, by a pass or by a reconcile.
CutDue(s, u) ==
  \/ \E w \in Workers : /\ worker[w] \in EndPass
                        /\ worker[w].phase = "revoke"
                        /\ worker[w].session = s
                        /\ u \in worker[w].todo
  \/ \E r \in Revokers : /\ revoker[r] # Idle
                         /\ revoker[r].session = s
                         /\ revoker[r].user = u

\* A generation moves on, a token is disclosed, or LiveKit cuts an identity off.
LEMMA AccessSteps ==
  ASSUME TypeOK, [Next]_vars
  PROVE  \/ UNCHANGED <<session, usable>>
         \/ \E s \in Sessions : Start(s) \/ End(s)
         \/ \E w \in Workers : Final(w)
         \/ \E h \in Handlers : Disclose(h)
         \/ \E s \in Sessions, u \in Users :
              Cut(s, u) /\ CutDue(s, u) /\ UNCHANGED <<session, recipient>>
<1> DEFINE Goal ==
      \/ UNCHANGED <<session, usable>>
      \/ \E s \in Sessions : Start(s) \/ End(s)
      \/ \E w \in Workers : Final(w)
      \/ \E h \in Handlers : Disclose(h)
      \/ \E s \in Sessions, u \in Users :
           Cut(s, u) /\ CutDue(s, u) /\ UNCHANGED <<session, recipient>>
<1>1. ASSUME NEW w \in Workers, NEW u \in Users,
             RevokeOne(w, u) \/ RevokeOneFails(w, u)
      PROVE  Goal
  <2> DEFINE s == worker[w].session
  <2>1. worker[w].phase = "revoke" /\ u \in worker[w].todo
    BY <1>1 DEF RevokeOne, RevokeOneFails, At
  <2>2. worker[w] \in EndPass
    BY <2>1, PassTyped
  <2>3. s \in Sessions
    BY <2>2 DEF EndPass
  <2>4. CutDue(s, u)
    BY <2>1, <2>2 DEF CutDue
  <2>5. UNCHANGED <<session, recipient>> /\ (Cut(s, u) \/ UNCHANGED usable)
    BY <1>1 DEF RevokeOne, RevokeOneFails, WorkerStep, pointers
  <2> QED
    BY <2>3, <2>4, <2>5
<1>2. ASSUME NEW r \in Revokers, RevokeOnline(r) \/ RevokeUnanswered(r)
      PROVE  Goal
  <2> DEFINE s == revoker[r].session
             u == revoker[r].user
  <2>1. revoker[r] # Idle
    BY <1>2 DEF RevokeOnline, RevokeUnanswered, Idle
  <2>2. s \in Sessions /\ u \in Users
    BY <2>1 DEF TypeOK, Reconcile
  <2>3. CutDue(s, u)
    BY <2>1 DEF CutDue
  <2>4. UNCHANGED <<session, recipient>> /\ (Cut(s, u) \/ UNCHANGED usable)
    BY <1>2 DEF RevokeOnline, RevokeUnanswered, RevokerStep, pointers
  <2> QED
    BY <2>2, <2>3, <2>4
<1>3. ASSUME NEW w \in Workers,
             \/ Receipt(w) \/ Prepare(w) \/ Defer(w) \/ EndRoom(w) \/ Lost(w)
             \/ Fail(w) \/ ReleaseLease(w) \/ Crash(w)
             \/ \E s \in Sessions : ClaimDelete(w, s)
             \/ \E s \in Sessions, top \in Users \cup {0} : ClaimPage(w, s, top)
      PROVE  UNCHANGED <<session, usable>>
  BY <1>3 DEF Receipt, Prepare, Defer, EndRoom, Lost, Fail, ReleaseLease, Crash,
              ClaimDelete, ClaimPage, WorkerStep, pointers
<1>4. ASSUME NEW r \in Revokers,
             \/ Doubt(r) \/ Acknowledge(r) \/ RevokerCrash(r)
             \/ \E u \in Users, s \in Sessions : PlanRevocation(r, u, s)
      PROVE  UNCHANGED <<session, usable>>
  BY <1>4 DEF Doubt, Acknowledge, RevokerCrash, PlanRevocation, RevokerStep, pointers
<1>5. ASSUME NEW h \in Handlers,
             \/ Abandon(h)
             \/ \E u \in Users, s \in Sessions, q \in Requests :
                  Preflight(h, u, s, q)
      PROVE  UNCHANGED <<session, usable>>
  BY <1>5 DEF Abandon, Preflight, pointers
<1>6. ASSUME \/ \E s \in Sessions : LeaseLapses(s)
             \/ \E u \in Users, s \in Sessions : BarrierLifts(u, s)
             \/ \E u \in Users : ChangeStanding(u)
             \/ \E u \in MaySanction : ToggleAdmission(u)
             \/ \E u \in MayFreeze : FreezeAccount(u) \/ RevokeAccount(u)
             \/ UNCHANGED vars
      PROVE  UNCHANGED <<session, usable>>
  BY <1>6 DEF LeaseLapses, BarrierLifts, ChangeStanding, ToggleAdmission,
              FreezeAccount, RevokeAccount, vars,
              pointers
<1> QED
  BY <1>1, <1>2, <1>3, <1>4, <1>5, <1>6 DEF Next

------------------------
(* The channel as an implementation of its generations *)

\* Who can join, as the tokens say it.
LEMMA HolderOfToken ==
  ASSUME NEW s, NEW u
  PROVE  <<s, u>> \in Holders <=> \E t \in usable : t.session = s /\ t.user = u
BY DEF Holders

LEMMA OneMoreHolder ==
  ASSUME NEW t, usable' = usable \cup {t}
  PROVE  Holders' = Holders \cup {<<t.session, t.user>>}
BY DEF Holders

LEMMA SameHolders == UNCHANGED usable => UNCHANGED Holders
BY DEF Holders

\* The last step of an end finds nobody who could still join.
LEMMA FinalFindsNobody ==
  ASSUME SessionsSound, NEW w \in Workers, Final(w)
  PROVE  /\ worker[w].session \in Sessions
         /\ session[worker[w].session] = "ending"
         /\ \A u \in Users : <<worker[w].session, u>> \notin Holders
<1> DEFINE s == worker[w].session
<1>1. worker[w] \in EndPass /\ worker[w] # Idle /\ worker[w].phase = "final"
  BY PassTyped DEF Final, At, Idle, EndPass, SessionsSound
<1>2. s \in Sessions
  BY <1>1 DEF EndPass
<1>3. session[s] = "ending"
  <2>1. job[s].lease = w
    BY DEF Final, Holds
  <2>2. job[s].lease # None
    BY <2>1, SessionConstantsAssumption
  <2> QED
    BY <1>2, <2>2 DEF SessionsSound, LeasesArePending, GenerationsAgree
<1>4. job[s].checkpoint
  BY <1>1 DEF SessionsSound, CleanupInductive, PassSound
<1>5. \A u \in Users : recipient[s][u].state \in {"none", "revoked"}
  <2>1. CursorSound(s)
    BY <1>2 DEF SessionsSound, CleanupInductive
  <2>2. ASSUME NEW u \in Users PROVE u > job[s].cursor \/ u <= job[s].cursor
    <3>1. job[s] \in Job
      BY <1>2 DEF SessionsSound, TypeOK
    <3>2. job[s].cursor \in Nat /\ u \in Nat
      BY <3>1, SessionConstantsAssumption DEF Job
    <3> HIDE DEF s
    <3> QED
      BY <3>2
  <2> QED
    BY <1>4, <2>1, <2>2 DEF CursorSound, Gone
<1>6. ASSUME NEW u \in Users PROVE <<s, u>> \notin Holders
  <2>1. \A t \in usable : t.session # s \/ t.user # u
    BY <1>5 DEF SessionsSound, TokensInductive, UsableTokensOnRecord
  <2> QED
    BY <2>1, HolderOfToken
<1> QED
  BY <1>2, <1>3, <1>6

LEMMA NextImplementsGenerations ==
  ASSUME SessionsSound, [Next]_vars
  PROVE  [Media!Next]_(Media!media)
<1>0. TypeOK /\ session \in [Sessions -> {"none", "live", "ending", "ended"}]
  BY DEF SessionsSound, TypeOK
<1>1. ASSUME NEW s \in Sessions, Start(s) PROVE Media!Open(s)
  <2>1. \A other \in Sessions : session[other] \in {"none", "ended"}
    BY <1>0, <1>1 DEF Start, Startable
  <2> QED
    BY <1>1, <2>1, SameHolders DEF Start, Startable, Media!Open
<1>2. ASSUME NEW s \in Sessions, End(s) PROVE Media!Stage(s)
  BY <1>2, SameHolders DEF End, StageEnd, Media!Stage
<1>3. ASSUME NEW w \in Workers, Final(w) PROVE Media!Close(worker[w].session)
  <2>1. session' = [session EXCEPT ![worker[w].session] = "ended"]
    BY <1>3 DEF Final
  <2>2. UNCHANGED Holders
    BY <1>3, SameHolders DEF Final
  <2> QED
    BY <1>3, <2>1, <2>2, FinalFindsNobody DEF Media!Close
<1>4. ASSUME NEW h \in Handlers, Disclose(h)
      PROVE  Media!Admit(handler[h].session, handler[h].user)
  <2> DEFINE m == handler[h]
  <2>1. session[m.session] = "live"
    BY <1>0, <1>4, DisclosedToIssuable
  <2>2. usable' = usable \cup
          {[session |-> m.session, user |-> m.user, epoch |-> m.epoch]}
    BY <1>4 DEF Disclose
  <2>3. Holders' = Holders \cup {<<m.session, m.user>>}
    <3> DEFINE t == [session |-> m.session, user |-> m.user, epoch |-> m.epoch]
    <3>1. t.session = m.session /\ t.user = m.user
      OBVIOUS
    <3> HIDE DEF t, m
    <3> QED
      BY <2>2, <3>1, OneMoreHolder DEF t
  <2>4. session' = session
    BY <1>4 DEF Disclose, pointers
  <2> QED
    BY <2>1, <2>3, <2>4 DEF Media!Admit
<1>5. ASSUME NEW s \in Sessions, NEW u \in Users, Cut(s, u), session' = session
      PROVE  Media!Expel(s, u)
  <2>1. Holders' = Holders \ {<<s, u>>}
    BY <1>5 DEF Cut, Holders
  <2> QED
    BY <1>5, <2>1 DEF Media!Expel
<1>6. ASSUME UNCHANGED <<session, usable>> PROVE UNCHANGED Media!media
  BY <1>6, SameHolders DEF Media!media
<1>7. ASSUME NEW w \in Workers, Final(w) PROVE worker[w].session \in Sessions
  BY <1>7, FinalFindsNobody
<1>8. ASSUME NEW h \in Handlers, Disclose(h)
      PROVE  handler[h].session \in Sessions /\ handler[h].user \in Users
  BY <1>0, <1>8, DisclosedToIssuable DEF Minted
<1> QED
  BY <1>0, <1>1, <1>2, <1>3, <1>4, <1>5, <1>6, <1>7, <1>8, AccessSteps
  DEF Media!Next

\* Documents, leases and any number of concurrent workers behave as one
\* generation at a time, which admits only while it is live and is over only
\* when nobody can join it any more.
THEOREM ChannelImplementsGenerations == Spec => ImplementsGenerations
<1>1. Init => Media!Init
  BY DEF Init, Media!Init, Holders
<1>2. SessionsSound /\ [Next]_vars => [Media!Next]_(Media!media)
  BY NextImplementsGenerations
<1> QED
  BY <1>1, <1>2, AlwaysSound, PTL DEF Spec, ImplementsGenerations, Media!Spec

------------------------
(* What an active recipient is entitled to *)

\* Whoever is told to be active can use the token of that epoch.
ActiveMeansUsable ==
  \A s \in Sessions, u \in Users : recipient[s][u].state = "active" =>
    [session |-> s, user |-> u, epoch |-> recipient[s][u].epoch] \in usable

\* A pass that calls LiveKit has fenced its page, and calls for nobody else.
PageFenced(w) == worker[w].phase = "revoke" =>
  /\ worker[w].todo \subseteq worker[w].page
  /\ \A u \in worker[w].page :
       recipient[worker[w].session][u].state # "active"

PagesFenced == \A w \in Workers : PageFenced(w)

FreshEpochs ==
  \A s \in Sessions, u \in Users :
    recipient[s][u].state = "none" => recipient[s][u].epoch = 0

AccessInductive ==
  ActiveHoldersIndexed /\ ActiveMeansUsable /\ PagesFenced /\ FreshEpochs

\* What no step but a disclosure does to a recipient.
Kept(s, u) ==
  /\ recipient'[s][u].epoch >= recipient[s][u].epoch
  /\ recipient[s][u].state = "none" =>
       recipient'[s][u].epoch = recipient[s][u].epoch
  /\ recipient'[s][u].state = "active" =>
       /\ recipient[s][u].state = "active"
       /\ recipient'[s][u].epoch = recipient[s][u].epoch
       /\ recipient'[s][u].authority = recipient[s][u].authority
  /\ recipient'[s][u].attempt # None =>
       recipient'[s][u].attempt.epoch = recipient'[s][u].epoch

LEMMA KeptSteps ==
  ASSUME SessionsSound, ActiveHoldersIndexed, [Next]_vars,
         NEW s \in Sessions, NEW u \in Users,
         \A h \in Handlers : Disclose(h) =>
           handler[h].session # s \/ handler[h].user # u
  PROVE  Kept(s, u)
<1> DEFINE x == recipient[s][u]
<1>0. TypeOK
  BY DEF SessionsSound
<1>1. x \in Recipient /\ x.epoch \in Nat
  BY <1>0 DEF TypeOK, Recipient
<1>2. x.attempt # None => x.attempt.epoch = x.epoch /\ x.state # "active"
  BY DEF ActiveHoldersIndexed
<1>3. CASE recipient'[s][u] = x
  BY <1>1, <1>2, <1>3 DEF Kept
<1>4. ASSUME NEW h \in Handlers, Disclose(h) PROVE Kept(s, u)
  BY <1>0, <1>3, <1>4, DiscloseRecipient
<1>5. CASE recipient'[s][u] = Fence(x)
  <2> HIDE DEF x
  <2>1. /\ Fence(x).epoch >= x.epoch
        /\ x.state = "none" => Fence(x).epoch = x.epoch
        /\ Fence(x).state # "active"
        /\ Fence(x).attempt # None => Fence(x).attempt.epoch = Fence(x).epoch
    <3>1. CASE x.state = "active"
      BY <1>1, <1>2, <3>1, FenceFields
    <3>2. CASE x.state # "active"
      BY <1>1, <1>2, <3>2, FenceFields
    <3> QED
      BY <3>1, <3>2
  <2> QED
    BY <1>5, <2>1 DEF Kept, x
<1>6. CASE recipient'[s][u] = Settled(x)
  BY <1>1, <1>2, <1>6, SettledFields DEF Kept
<1>7. ASSUME NEW w \in Workers, NEW y \in Sessions, NEW top \in Users \cup {0},
             ClaimPage(w, y, top)
      PROVE  Kept(s, u)
  BY <1>0, <1>3, <1>5, <1>7, ClaimEffect
<1>8. ASSUME NEW w \in Workers, Receipt(w) PROVE Kept(s, u)
  BY <1>0, <1>3, <1>6, <1>8, ReceiptEffect
<1>9. ASSUME NEW r \in Revokers, NEW v \in Users, NEW y \in Sessions,
             PlanRevocation(r, v, y)
      PROVE  Kept(s, u)
  <2>1. CASE y = s /\ v = u
    <3>1. recipient'[s][u] = Attempted(x, r) /\ x.state = "active"
      BY <1>0, <1>9, <2>1, PlanEffect
    <3> HIDE DEF x
    <3>2. /\ Attempted(x, r).epoch >= x.epoch
          /\ Attempted(x, r).state # "active"
          /\ Attempted(x, r).attempt.epoch = Attempted(x, r).epoch
      BY <1>1, AttemptedFields
    <3> QED
      BY <3>1, <3>2 DEF Kept, x
  <2>2. CASE ~(y = s /\ v = u)
    BY <1>0, <1>3, <1>9, <2>2, PlanEffect
  <2> QED
    BY <2>1, <2>2
<1>10. ASSUME NEW r \in Revokers, Doubt(r) \/ Acknowledge(r)
       PROVE  Kept(s, u)
  <2>1. \/ recipient'[s][u] = x
        \/ /\ x.attempt # None
           /\ \/ recipient'[s][u] = Answered(x, "uncertain")
              \/ recipient'[s][u] = Answered(Settled(x), "acknowledged")
    BY <1>0, <1>10, AnswerEffect DEF Own
  <2> HIDE DEF x
  <2>2. ASSUME x.attempt # None
        PROVE  /\ Answered(x, "uncertain").state = x.state
               /\ Answered(x, "uncertain").epoch = x.epoch
               /\ Answered(x, "uncertain").attempt.epoch = x.epoch
    BY <1>1, <1>2, <2>2, AnsweredFields
  <2>3. ASSUME x.attempt # None
        PROVE  /\ Answered(Settled(x), "acknowledged").state = "revoked"
               /\ Answered(Settled(x), "acknowledged").epoch = x.epoch
               /\ Answered(Settled(x), "acknowledged").attempt.epoch = x.epoch
    <3>1. /\ Settled(x) \in Recipient
          /\ Settled(x).attempt = x.attempt
          /\ Settled(x).state = "revoked"
          /\ Settled(x).epoch = x.epoch
      BY <1>1, SettledTyped, SettledFields
    <3> QED
      BY <1>2, <2>3, <3>1, AnsweredFields
  <2>4. x.epoch >= x.epoch
    BY <1>1
  <2>5. CASE /\ x.attempt # None
             /\ recipient'[s][u] = Answered(x, "uncertain")
    BY <1>2, <2>2, <2>4, <2>5 DEF Kept, x
  <2>6. CASE /\ x.attempt # None
             /\ recipient'[s][u] = Answered(Settled(x), "acknowledged")
    BY <2>3, <2>4, <2>6 DEF Kept, x
  <2> QED
    BY <1>3, <2>1, <2>5, <2>6
<1>11. ASSUME NEW v \in Users, NEW y \in Sessions, BarrierLifts(v, y)
       PROVE  Kept(s, u)
  <2>1. \/ recipient'[s][u] = x
        \/ recipient'[s][u] = [x EXCEPT !.cooling = FALSE]
    BY <1>0, <1>11, LiftEffect
  <2>2. CASE recipient'[s][u] = [x EXCEPT !.cooling = FALSE]
    BY <1>1, <1>2, <2>2, LiftedFields DEF Kept
  <2> QED
    BY <1>3, <2>1, <2>2
<1> QED
  BY <1>3, <1>4, <1>7, <1>8, <1>9, <1>10, <1>11, OtherStepsKeepLedgers

\* An account in deletion stays so.
LEMMA FrozenStays == [Next]_vars => frozen \subseteq frozen'
<1> SUFFICES ASSUME [Next]_vars PROVE frozen \subseteq frozen'
  OBVIOUS
<1>1. CASE \/ \E s \in Sessions : Start(s) \/ End(s) \/ LeaseLapses(s)
           \/ \E h \in Handlers : Disclose(h) \/ Abandon(h)
           \/ \E h \in Handlers, u \in Users, s \in Sessions, q \in Requests :
                 Preflight(h, u, s, q)
  BY <1>1 DEF Start, End, LeaseLapses, Disclose, Abandon, Preflight
<1>2. CASE \/ \E w \in Workers, s \in Sessions, top \in Users \cup {0} :
                ClaimPage(w, s, top)
           \/ \E w \in Workers, s \in Sessions : ClaimDelete(w, s)
           \/ \E w \in Workers, u \in Users : RevokeOne(w, u) \/ RevokeOneFails(w, u)
  BY <1>2 DEF ClaimPage, ClaimDelete, RevokeOne, RevokeOneFails, WorkerStep
<1>3. CASE \E w \in Workers :
             \/ Receipt(w) \/ Prepare(w) \/ Defer(w) \/ EndRoom(w) \/ Final(w)
             \/ Lost(w) \/ Fail(w) \/ ReleaseLease(w) \/ Crash(w)
  BY <1>3 DEF Receipt, Prepare, Defer, EndRoom, Final, Lost, Fail, ReleaseLease,
              Crash, WorkerStep
<1>4. CASE \/ \E r \in Revokers, u \in Users, s \in Sessions :
                 PlanRevocation(r, u, s)
           \/ \E r \in Revokers : \/ RevokeOnline(r) \/ RevokeUnanswered(r)
                                   \/ Doubt(r) \/ Acknowledge(r)
                                   \/ RevokerCrash(r)
  BY <1>4 DEF PlanRevocation, RevokeOnline, RevokeUnanswered, Doubt, Acknowledge,
              RevokerCrash, RevokerStep
<1>5. CASE \/ \E u \in Users, s \in Sessions : BarrierLifts(u, s)
           \/ \E u \in Users : ChangeStanding(u)
           \/ \E u \in MaySanction : ToggleAdmission(u)
           \/ \E u \in MayFreeze : FreezeAccount(u) \/ RevokeAccount(u)
           \/ UNCHANGED vars
  BY <1>5 DEF BarrierLifts, ChangeStanding, ToggleAdmission, FreezeAccount,
              RevokeAccount, vars
<1> QED
  BY <1>1, <1>2, <1>3, <1>4, <1>5 DEF Next

\* A document that is removed belonged to a recipient that is revoked now, or it
\* is the mirror of an account in deletion.
LEMMA RemovedWithRevocation ==
  ASSUME SessionsSound, [Next]_vars, NEW s \in Sessions, NEW u \in Users,
         \A h \in Handlers : Disclose(h) => handler[h].user # u,
         roster[u] # None, roster[u].session = s,
         mirror[u] # None => mirror[u].session = s,
         recipient'[s][u].state = "active"
  PROVE  /\ roster'[u] = roster[u]
         /\ mirror'[u] = mirror[u] \/ (u \in frozen /\ mirror'[u] = None)
<1>0. TypeOK /\ recipient[s][u] \in Recipient
  BY DEF SessionsSound, TypeOK
<1>1. ASSUME NEW h \in Handlers, Disclose(h)
      PROVE  roster'[u] = roster[u] /\ mirror'[u] = mirror[u]
  BY <1>0, <1>1, DiscloseEffect
<1>2. ASSUME NEW w \in Workers, Receipt(w)
      PROVE  roster'[u] = roster[u] /\ mirror'[u] = mirror[u]
  <2>1. CASE worker[w].session = s /\ u \in worker[w].page
    <3>1. recipient'[s][u] = Settled(recipient[s][u])
      BY <1>0, <1>2, <2>1, ReceiptEffect
    <3> QED
      BY <1>0, <3>1, SettledFields
  <2>2. CASE ~(worker[w].session = s /\ u \in worker[w].page)
    BY <1>0, <1>2, <2>2, ReceiptEffect
  <2> QED
    BY <2>1, <2>2
<1>3. ASSUME NEW r \in Revokers, Doubt(r) \/ Acknowledge(r)
      PROVE  roster'[u] = roster[u] /\ mirror'[u] = mirror[u]
  <2> DEFINE x == recipient[s][u]
  <2>1. roster'[u] = roster[u]
    BY <1>0, <1>3, AnswerEffect
  <2>2. \/ mirror'[u] = mirror[u]
        \/ recipient'[s][u] = Answered(Settled(x), "acknowledged")
           /\ revoker[r].session = s /\ revoker[r].user = u
    BY <1>0, <1>3, AnswerEffect
  <2>3. ASSUME revoker[r].session = s, revoker[r].user = u
        PROVE  Answered(Settled(x), "acknowledged").state = "revoked"
    <3>1. Own(r)
      BY <1>0, <1>3, AnswerEffect DEF SessionsSound, TokensInductive, AttemptsOwned
    <3>2. x.attempt # None
      BY <2>3, <3>1 DEF Own
    <3>3. x \in Recipient
      BY <1>0
    <3> HIDE DEF x
    <3>4. /\ Settled(x) \in Recipient
          /\ Settled(x).attempt = x.attempt
          /\ Settled(x).state = "revoked"
      BY <3>3, SettledTyped, SettledFields
    <3> QED
      BY <3>2, <3>4, AnsweredFields
  <2> QED
    BY <2>1, <2>2, <2>3
<1>4. ASSUME NEW w \in Workers, NEW y \in Sessions, NEW top \in Users \cup {0},
             ClaimPage(w, y, top)
      PROVE  roster' = roster /\ mirror' = mirror
  BY <1>0, <1>4, ClaimEffect
<1>5. ASSUME NEW r \in Revokers, NEW v \in Users, NEW y \in Sessions,
             PlanRevocation(r, v, y)
      PROVE  roster' = roster /\ mirror' = mirror
  BY <1>0, <1>5, PlanEffect
<1>6. ASSUME NEW v \in Users, NEW y \in Sessions, BarrierLifts(v, y)
      PROVE  roster' = roster /\ mirror' = mirror
  BY <1>0, <1>6, LiftEffect
<1>7. MirrorsTaken => mirror'[u] = mirror[u] \/ (u \in frozen /\ mirror'[u] = None)
  BY <1>0 DEF MirrorsTaken, TypeOK
<1> QED
  BY <1>1, <1>2, <1>3, <1>4, <1>5, <1>6, <1>7, OtherStepsKeepLedgers

LEMMA HoldersStayIndexed ==
  ASSUME SessionsSound, ActiveHoldersIndexed, [Next]_vars
  PROVE  ActiveHoldersIndexed'
<1>0. TypeOK
  BY DEF SessionsSound
<1> SUFFICES ASSUME NEW s \in Sessions, NEW u \in Users
             PROVE  LET r == recipient'[s][u] IN
                    /\ r.attempt # None =>
                         r.attempt.epoch = r.epoch /\ r.state # "active"
                    /\ r.state = "active" =>
                         /\ roster'[u] = [session |-> s, authority |-> r.authority]
                         /\ \/ mirror'[u] = [session |-> s,
                                  authority |-> r.authority, epoch |-> r.epoch]
                            \/ u \in frozen' /\ mirror'[u] = None
  BY DEF ActiveHoldersIndexed
<1> DEFINE old == recipient[s][u]
           new == recipient'[s][u]
<1>1. /\ old.attempt # None => old.attempt.epoch = old.epoch /\ old.state # "active"
      /\ old.state = "active" =>
           /\ roster[u] = [session |-> s, authority |-> old.authority]
           /\ \/ mirror[u] = [session |-> s, authority |-> old.authority,
                              epoch |-> old.epoch]
              \/ u \in frozen /\ mirror[u] = None
  BY DEF ActiveHoldersIndexed
<1>2. new.attempt # None => new.state # "active"
  <2>1. AttemptsOwned'
    BY StepSound DEF SessionsSound, TokensInductive
  <2> QED
    BY <2>1 DEF AttemptsOwned
<1>3. ASSUME NEW h \in Handlers, Disclose(h), handler[h].user = u,
             new.state = "active"
      PROVE  /\ handler[h].session = s
             /\ new.epoch = handler[h].epoch
             /\ new.authority = handler[h].authority
             /\ new.attempt = None
             /\ roster'[u] = [session |-> s, authority |-> new.authority]
             /\ mirror'[u] = [session |-> s, authority |-> new.authority,
                              epoch |-> new.epoch]
  <2> DEFINE m == handler[h]
  <2>1. m.session = s
    <3>1. CASE m.session # s
      <4>1. new = old
        BY <1>0, <1>3, <3>1, DiscloseRecipient
      <4>2. roster[u] # None
        <5>1. old.authority \in Revisions
          BY <1>0 DEF TypeOK, Recipient
        <5>2. [session |-> s, authority |-> old.authority] \in Entry
          BY <5>1 DEF Entry
        <5> QED
          BY <1>1, <1>3, <4>1, <5>2, NoneIsNoDocument
      <4>3. roster[u].session = m.session
        BY <1>3, <4>2 DEF Disclose, Unchanged, Authority
      <4>4. roster[u].session = s
        BY <1>1, <1>3, <4>1
      <4> QED
        BY <3>1, <4>3, <4>4
    <3> QED
      BY <3>1
  <2>2. /\ new.epoch = m.epoch
        /\ new.authority = m.authority
        /\ new.attempt = None
    BY <1>0, <1>3, <2>1, DiscloseRecipient
  <2>3. /\ roster'[u] = [session |-> m.session, authority |-> m.authority]
        /\ mirror'[u] = [session |-> m.session, authority |-> m.authority,
                         epoch |-> m.epoch]
    BY <1>0, <1>3, DiscloseEffect
  <2> HIDE DEF m, new
  <2> QED
    BY <2>1, <2>2, <2>3 DEF m
<1>4. ASSUME NEW h \in Handlers, Disclose(h), handler[h].session = s,
             handler[h].user = u
      PROVE  new.state = "active"
  BY <1>0, <1>4, DiscloseRecipient
<1>5. ASSUME \A h \in Handlers : Disclose(h) =>
               handler[h].session # s \/ handler[h].user # u
      PROVE  Kept(s, u)
  BY <1>5, KeptSteps
<1>6. ASSUME \A h \in Handlers : Disclose(h) => handler[h].user # u,
             new.state = "active"
      PROVE  /\ roster'[u] = [session |-> s, authority |-> new.authority]
             /\ \/ mirror'[u] = [session |-> s, authority |-> new.authority,
                                 epoch |-> new.epoch]
                \/ u \in frozen' /\ mirror'[u] = None
  <2>1. /\ old.state = "active"
        /\ new.epoch = old.epoch
        /\ new.authority = old.authority
    BY <1>5, <1>6 DEF Kept
  <2>2. roster[u] # None
    <3>1. old.authority \in Revisions
      BY <1>0 DEF TypeOK, Recipient
    <3>2. [session |-> s, authority |-> old.authority] \in Entry
      BY <3>1 DEF Entry
    <3> QED
      BY <1>1, <2>1, <3>2, NoneIsNoDocument
  <2>3. /\ roster[u].session = s
        /\ mirror[u] # None => mirror[u].session = s
    BY <1>1, <2>1
  <2>4. /\ roster'[u] = roster[u]
        /\ mirror'[u] = mirror[u] \/ (u \in frozen /\ mirror'[u] = None)
    BY <1>6, <2>2, <2>3, RemovedWithRevocation
  <2> QED
    BY <1>1, <2>1, <2>4, FrozenStays
<1>7. new.attempt # None => new.attempt.epoch = new.epoch
  BY <1>3, <1>4, <1>5 DEF Kept
<1> HIDE DEF old, new
<1>8. new.state = "active" =>
        /\ roster'[u] = [session |-> s, authority |-> new.authority]
        /\ \/ mirror'[u] = [session |-> s, authority |-> new.authority,
                            epoch |-> new.epoch]
           \/ u \in frozen' /\ mirror'[u] = None
  BY <1>3, <1>6
<1> QED
  BY <1>2, <1>7, <1>8 DEF new

\* Once it is to end, a generation has no account becoming active.
LEMMA NobodyBecomesActive ==
  ASSUME SessionsSound, ActiveHoldersIndexed, [Next]_vars,
         NEW s \in Sessions, NEW u \in Users, session[s] # "live",
         recipient[s][u].state # "active"
  PROVE  recipient'[s][u].state # "active"
<1>1. \A h \in Handlers : Disclose(h) => handler[h].session # s
  BY DisclosedToIssuable DEF SessionsSound
<1> QED
  BY <1>1, KeptSteps DEF Kept

LEMMA PagesStayFenced ==
  ASSUME SessionsSound, ActiveHoldersIndexed, PagesFenced, [Next]_vars
  PROVE  PagesFenced'
<1>0. TypeOK
  BY DEF SessionsSound
<1>1. ASSUME NEW w \in Workers, worker'[w] = worker[w] PROVE PageFenced(w)'
  <2> SUFFICES ASSUME worker[w].phase = "revoke" PROVE PageFenced(w)'
    BY <1>1 DEF PageFenced
  <2>1. worker[w] \in EndPass /\ worker[w] # Idle
    BY <1>0, PassTyped DEF Idle, EndPass
  <2>2. worker[w].session \in Sessions /\ worker[w].page \subseteq Users
    BY <2>1 DEF EndPass
  <2>3. session[worker[w].session] # "live"
    BY <2>1 DEF SessionsSound, TokensInductive, PassesCut, PassCut
  <2>4. PageFenced(w)
    BY DEF PagesFenced
  <2>5. \A u \in worker[w].page : recipient'[worker[w].session][u].state # "active"
    BY <2>2, <2>3, <2>4, NobodyBecomesActive DEF PageFenced
  <2> QED
    BY <1>1, <2>4, <2>5 DEF PageFenced
<1>2. ASSUME NEW w \in Workers, NEW next,
             worker' = [worker EXCEPT ![w] = next],
             next.phase = "revoke" =>
               /\ next.todo \subseteq next.page
               /\ \A u \in next.page : recipient'[next.session][u].state # "active"
      PROVE  PagesFenced'
  <2> SUFFICES ASSUME NEW i \in Workers PROVE PageFenced(i)'
    BY DEF PagesFenced
  <2>1. CASE i = w
    <3>1. worker'[i] = next
      BY <1>0, <1>2, <2>1 DEF TypeOK
    <3> QED
      BY <1>2, <3>1 DEF PageFenced
  <2>2. CASE i # w
    <3>1. worker'[i] = worker[i]
      BY <1>0, <1>2, <2>2 DEF TypeOK
    <3> QED
      BY <1>1, <3>1
  <2> QED
    BY <2>1, <2>2
<1>3. Idle.phase # "revoke"
  BY DEF Idle
<1>4. ASSUME NEW w \in Workers,
             \/ Receipt(w) \/ Prepare(w) \/ Defer(w) \/ EndRoom(w) \/ Final(w)
             \/ Lost(w) \/ Fail(w) \/ ReleaseLease(w) \/ Crash(w)
      PROVE  PagesFenced'
  BY <1>0, <1>2, <1>3, <1>4, PassesMoveOn
<1>5. ASSUME NEW w \in Workers, NEW s \in Sessions, ClaimDelete(w, s)
      PROVE  PagesFenced'
  <2>1. worker' = [worker EXCEPT ![w] = DeleteOnly(s)]
    BY <1>5 DEF ClaimDelete
  <2>2. DeleteOnly(s).phase # "revoke"
    BY DEF DeleteOnly
  <2> QED
    BY <1>2, <2>1, <2>2
<1>6. ASSUME NEW w \in Workers, NEW s \in Sessions, NEW top \in Users \cup {0},
             ClaimPage(w, s, top)
      PROVE  PagesFenced'
  <2>1. PICK next \in EndPass :
          /\ worker' = [worker EXCEPT ![w] = next]
          /\ next.session = s
          /\ next.page = Page(s, top)
          /\ next.todo = {u \in Page(s, top) : recipient[s][u].state # "revoked"}
    BY <1>0, <1>6, ClaimedPass
  <2>2. ASSUME NEW u \in Page(s, top) PROVE recipient'[s][u].state # "active"
    <3>1. u \in Users /\ recipient'[s][u] = Fence(recipient[s][u])
      BY <1>0, <1>6, ClaimEffect
    <3>2. recipient[s][u] \in Recipient
      BY <1>0, <3>1 DEF TypeOK
    <3> QED
      BY <3>1, <3>2, FenceFields
  <2> QED
    BY <1>2, <2>1, <2>2
<1>7. ASSUME NEW w \in Workers, NEW u \in Users,
             RevokeOne(w, u) \/ RevokeOneFails(w, u)
      PROVE  PagesFenced'
  <2>1. worker[w] \in EndPass
    BY <1>0, <1>7, PassTyped DEF RevokeOne, RevokeOneFails, At
  <2>2. PICK next : /\ worker' = [worker EXCEPT ![w] = next]
                    /\ next.session = worker[w].session
                    /\ next.page = worker[w].page
                    /\ next.todo = worker[w].todo \ {u}
    <3> DEFINE sent == [worker[w] EXCEPT !.todo = @ \ {u}]
               failed == [worker[w] EXCEPT !.todo = @ \ {u}, !.failed = TRUE]
    <3>1. /\ sent.session = worker[w].session /\ sent.page = worker[w].page
          /\ sent.todo = worker[w].todo \ {u}
          /\ failed.session = worker[w].session /\ failed.page = worker[w].page
          /\ failed.todo = worker[w].todo \ {u}
      BY <2>1 DEF EndPass
    <3>2. \/ worker' = [worker EXCEPT ![w] = sent]
          \/ worker' = [worker EXCEPT ![w] = failed]
      BY <1>7 DEF RevokeOne, RevokeOneFails, WorkerStep
    <3> HIDE DEF sent, failed
    <3> QED
      BY <3>1, <3>2
  <2>3. worker[w].phase = "revoke" /\ recipient' = recipient
    BY <1>7 DEF RevokeOne, RevokeOneFails, At
  <2>4. PageFenced(w)
    BY DEF PagesFenced
  <2> QED
    BY <1>2, <2>2, <2>3, <2>4 DEF PageFenced
<1>8. CASE UNCHANGED worker
  BY <1>1, <1>8 DEF PagesFenced
<1> QED
  BY <1>4, <1>5, <1>6, <1>7, <1>8, OtherStepsKeepWorkers

\* A removal that is on its way is of nobody who is active.
LEMMA CutsSpareTheActive ==
  ASSUME SessionsSound, AccessInductive, NEW s \in Sessions, NEW u \in Users,
         CutDue(s, u)
  PROVE  recipient[s][u].state # "active"
<1>1. ASSUME NEW w \in Workers, worker[w] \in EndPass, worker[w].phase = "revoke",
             worker[w].session = s, u \in worker[w].todo
      PROVE  recipient[s][u].state # "active"
  BY <1>1 DEF AccessInductive, PagesFenced, PageFenced
<1>2. ASSUME NEW r \in Revokers, revoker[r] # Idle, revoker[r].session = s,
             revoker[r].user = u
      PROVE  recipient[s][u].state # "active"
  <2>1. Own(r)
    BY <1>2 DEF SessionsSound, TokensInductive, AttemptsOwned
  <2> QED
    BY <1>2, <2>1 DEF Own, AccessInductive, ActiveHoldersIndexed
<1> QED
  BY <1>1, <1>2 DEF CutDue

LEMMA ActiveStaysUsable ==
  ASSUME SessionsSound, AccessInductive, [Next]_vars
  PROVE  ActiveMeansUsable'
<1>0. TypeOK
  BY DEF SessionsSound
<1> SUFFICES ASSUME NEW s \in Sessions, NEW u \in Users,
                    recipient'[s][u].state = "active"
             PROVE  [session |-> s, user |-> u, epoch |-> recipient'[s][u].epoch]
                      \in usable'
  BY DEF ActiveMeansUsable
<1> DEFINE old == recipient[s][u]
           new == recipient'[s][u]
<1>1. old.state = "active" =>
        [session |-> s, user |-> u, epoch |-> old.epoch] \in usable
  BY DEF AccessInductive, ActiveMeansUsable
<1>2. ASSUME NEW h \in Handlers, Disclose(h)
      PROVE  [session |-> s, user |-> u, epoch |-> new.epoch] \in usable'
  <2> DEFINE m == handler[h]
  <2>1. usable' = usable \cup
          {[session |-> m.session, user |-> m.user, epoch |-> m.epoch]}
    BY <1>0, <1>2, DiscloseEffect
  <2>2. /\ s = m.session /\ u = m.user => new.epoch = m.epoch
        /\ s # m.session \/ u # m.user => new = old
    BY <1>0, <1>2, DiscloseRecipient
  <2> HIDE DEF m
  <2> QED
    BY <1>1, <2>1, <2>2
<1>3. ASSUME \A h \in Handlers : ~Disclose(h)
      PROVE  old.state = "active" /\ new.epoch = old.epoch
  BY <1>3, KeptSteps DEF Kept, AccessInductive
<1>4. ASSUME usable' = usable, \A h \in Handlers : ~Disclose(h)
      PROVE  [session |-> s, user |-> u, epoch |-> new.epoch] \in usable'
  BY <1>1, <1>3, <1>4
<1>5. ASSUME NEW x \in Sessions, NEW v \in Users, Cut(x, v), CutDue(x, v),
             UNCHANGED recipient
      PROVE  [session |-> s, user |-> u, epoch |-> new.epoch] \in usable'
  <2>1. x # s \/ v # u
    BY <1>5, CutsSpareTheActive
  <2> QED
    BY <1>1, <1>5, <2>1 DEF Cut
<1>6. ASSUME NEW x \in Sessions, Start(x) \/ End(x) PROVE usable' = usable
  BY <1>6 DEF Start, End
<1>7. ASSUME NEW w \in Workers, Final(w) PROVE usable' = usable
  BY <1>7 DEF Final
<1> HIDE DEF old, new
<1> QED
  BY <1>0, <1>2, <1>4, <1>5, <1>6, <1>7, AccessSteps DEF new

LEMMA EpochsStayFresh ==
  ASSUME SessionsSound, AccessInductive, [Next]_vars
  PROVE  FreshEpochs'
<1>0. TypeOK
  BY DEF SessionsSound
<1> SUFFICES ASSUME NEW s \in Sessions, NEW u \in Users,
                    recipient'[s][u].state = "none"
             PROVE  recipient'[s][u].epoch = 0
  BY DEF FreshEpochs
<1>1. \A h \in Handlers : Disclose(h) =>
        handler[h].session # s \/ handler[h].user # u
  BY <1>0, DiscloseRecipient
<1>2. Quiet(s, u) /\ Kept(s, u)
  BY <1>0, <1>1, QuietSteps, KeptSteps DEF SessionsSound, AccessInductive
<1> QED
  BY <1>2 DEF Quiet, Kept, AccessInductive, FreshEpochs

LEMMA InitAccess == Init => AccessInductive
BY DEF Init, AccessInductive, ActiveHoldersIndexed, ActiveMeansUsable,
       PagesFenced, PageFenced, FreshEpochs, NoRecipient, Idle

LEMMA StepAccess == SessionsSound /\ AccessInductive /\ [Next]_vars => AccessInductive'
<1> SUFFICES ASSUME SessionsSound, AccessInductive, [Next]_vars
             PROVE  AccessInductive'
  OBVIOUS
<1>1. ActiveHoldersIndexed' /\ PagesFenced'
  BY HoldersStayIndexed, PagesStayFenced DEF AccessInductive
<1> QED
  BY <1>1, ActiveStaysUsable, EpochsStayFresh DEF AccessInductive

LEMMA AlwaysAccess == Spec => [](SessionsSound /\ AccessInductive)
<1>1. Init => SessionsSound /\ AccessInductive
  BY InitTypes, InitGenerations, InitTokens, InitCleanup, InitAccess
  DEF SessionsSound
<1> QED
  BY <1>1, StepSound, StepAccess, PTL DEF Spec

\* Whoever holds an active token is on the roster with it and has its mirror,
\* but for an account in deletion, whose mirror goes first.
THEOREM HoldersAreIndexed == Spec => []ActiveHoldersIndexed
<1>1. AccessInductive => ActiveHoldersIndexed
  BY DEF AccessInductive
<1> QED
  BY <1>1, AlwaysAccess, PTL

\* A stored answer is only repeated while LiveKit accepts the token in it.
THEOREM StoredAnswersWork == Spec => []ReplaysStillWork
<1>1. SessionsSound /\ AccessInductive => ReplaysStillWork
  <2> SUFFICES ASSUME SessionsSound, AccessInductive, NEW q \in Requests,
                      NEW u \in Users, Replays(q, u)
               PROVE  [session |-> receipt[q][u].session, user |-> u,
                       epoch |-> receipt[q][u].epoch] \in usable
    BY DEF ReplaysStillWork
  <2> DEFINE x == receipt[q][u]
  <2>1. x \in Access
    BY DEF Replays, SessionsSound, TypeOK
  <2>2. x.session \in Sessions
    BY <2>1 DEF Access
  <2>3. /\ recipient[x.session][u].state = "active"
        /\ recipient[x.session][u].epoch = x.epoch
    BY DEF Replays
  <2> HIDE DEF x
  <2>4. [session |-> x.session, user |-> u, epoch |-> x.epoch] \in usable
    BY <2>2, <2>3 DEF AccessInductive, ActiveMeansUsable
  <2> QED
    BY <2>4 DEF x
<1> QED
  BY <1>1, AlwaysAccess, PTL

LEMMA EpochsGrow ==
  ASSUME SessionsSound, AccessInductive, [Next]_vars,
         NEW s \in Sessions, NEW u \in Users
  PROVE  recipient'[s][u].epoch >= recipient[s][u].epoch
<1>0. TypeOK
  BY DEF SessionsSound
<1>1. ASSUME NEW h \in Handlers, Disclose(h), handler[h].session = s,
             handler[h].user = u
      PROVE  recipient'[s][u].epoch >= recipient[s][u].epoch
  <2> DEFINE m == handler[h]
             x == recipient[s][u]
  <2>1. m.epoch = IF x.state = "none" THEN 1 ELSE x.epoch
    BY <1>1 DEF Disclose, Unchanged, IssuedEpoch
  <2>2. x.state = "none" => x.epoch = 0
    BY DEF AccessInductive, FreshEpochs
  <2>3. x.epoch \in Nat
    BY <1>0 DEF TypeOK, Recipient
  <2>4. recipient'[s][u].epoch = m.epoch
    BY <1>0, <1>1, DiscloseRecipient
  <2> HIDE DEF m, x
  <2>5. m.epoch >= x.epoch
    BY <2>1, <2>2, <2>3
  <2> QED
    BY <2>4, <2>5 DEF x
<1>2. ASSUME \A h \in Handlers : Disclose(h) =>
               handler[h].session # s \/ handler[h].user # u
      PROVE  recipient'[s][u].epoch >= recipient[s][u].epoch
  BY <1>2, KeptSteps DEF Kept, AccessInductive
<1> QED
  BY <1>1, <1>2

LEMMA VerdictsStay ==
  ASSUME SessionsSound, EndedLeavesNothing, [Next]_vars,
         NEW s \in Sessions, NEW u \in Users, session[s] = "ended"
  PROVE  recipient'[s][u].state = recipient[s][u].state
<1>1. recipient[s][u].state \in {"none", "revoked"}
  BY DEF EndedLeavesNothing
<1>2. Quiet(s, u)
  BY UnliveIsQuiet DEF SessionsSound
<1> QED
  BY <1>1, <1>2 DEF Quiet

LEMMA OnlyAuthorityDiscloses ==
  ASSUME SessionsSound, [Next]_vars, NEW t \in usable' \ usable
  PROVE  Authority(t.user, t.session)
<1>0. TypeOK
  BY DEF SessionsSound
<1>1. ASSUME NEW h \in Handlers, Disclose(h) PROVE Authority(t.user, t.session)
  <2> DEFINE m == handler[h]
             new == [session |-> m.session, user |-> m.user, epoch |-> m.epoch]
  <2>1. usable' = usable \cup {new}
    BY <1>0, <1>1, DiscloseEffect
  <2>2. Authority(m.user, m.session)
    BY <1>1 DEF Disclose, Unchanged
  <2>3. new.user = m.user /\ new.session = m.session
    OBVIOUS
  <2> HIDE DEF new, m
  <2>4. t = new
    BY <2>1
  <2> QED
    BY <2>2, <2>3, <2>4
<1>2. ASSUME NEW x \in Sessions, NEW v \in Users, Cut(x, v)
      PROVE  usable' \subseteq usable
  BY <1>2 DEF Cut
<1>3. ASSUME NEW x \in Sessions, Start(x) \/ End(x) PROVE usable' = usable
  BY <1>3 DEF Start, End
<1>4. ASSUME NEW w \in Workers, Final(w) PROVE usable' = usable
  BY <1>4 DEF Final
<1> QED
  BY <1>0, <1>1, <1>2, <1>3, <1>4, AccessSteps

\* Epochs never go back, a token is disclosed only to an account that has the
\* authority at that very step, and the verdict of a generation that ended on
\* each of its recipients stands.
THEOREM RevocationsAreFinal == Spec => RevocationIsFinal
<1> DEFINE Step ==
      /\ \A s \in Sessions, u \in Users :
           /\ recipient'[s][u].epoch >= recipient[s][u].epoch
           /\ session[s] = "ended" =>
                recipient'[s][u].state = recipient[s][u].state
      /\ \A t \in usable' \ usable : Authority(t.user, t.session)
<1>1. ASSUME SessionsSound, AccessInductive, EndedLeavesNothing, [Next]_vars
      PROVE  Step
  BY <1>1, EpochsGrow, VerdictsStay, OnlyAuthorityDiscloses
<1>2. SessionsSound /\ AccessInductive /\ EndedLeavesNothing /\ [Next]_vars
        => [Step]_vars
  BY <1>1
<1> HIDE DEF Step
<1>3. Spec => [][Step]_vars
  BY <1>2, AlwaysAccess, EndsAreComplete, PTL DEF Spec
<1> QED
  BY <1>3 DEF Step, RevocationIsFinal

=============================================================================
