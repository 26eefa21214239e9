------------------------ MODULE AccountDeletionProofs ------------------------
(***************************************************************************)
(* That an account is taken away in its order, and that the row which      *)
(* records the progress never goes back, for any workers, pages and        *)
(* budgets.  What a worker holds in its own memory is what the invariant   *)
(* is about: the stages it has left behind are empty, even when its lease  *)
(* has long been taken over; who holds the row is not behind it; and the   *)
(* Auth trigger carries between its steps what it has read before.         *)
(***************************************************************************)
EXTENDS AccountDeletion, FiniteSetTheorems, TLAPS

Phases == {"idle", "mark", "write", "loop", "step", "advance", "complete", "failed"}
Worker == [at : Phases, stage : 1 .. 8, goal : {"running", "deadLetter"},
           stepped : BOOLEAN, late : BOOLEAN]
Row == [status : {"none", "pending", "processing", "completed", "deadLetter"},
        stage : 1 .. 8, holder : Workers \cup {"none"},
        failures : 0 .. MAX_ATTEMPTS, abandoned : 0 .. MAX_ABANDONED_ATTEMPTS]

Typed ==
  /\ row \in Row
  /\ profile \in {"live", "frozen", "gone", "husk"}
  /\ left \in [DataStages -> Nat]
  /\ \A s \in DataStages : left[s] <= Pages[s]
  /\ worker \in [Workers -> Worker]
  /\ trigger \in {"none", "due", "owned", "retire", "enqueue", "done"}

\* A row is held while it is processed, and its budgets are not yet spent.
RowAgrees ==
  /\ row.status = "processing" <=> row.holder # "none"
  /\ row.status \in {"pending", "processing"} =>
       row.failures < MAX_ATTEMPTS /\ row.abandoned < MAX_ABANDONED_ATTEMPTS

\* What a worker has behind it is empty, whoever holds the row meanwhile.
BehindIsEmpty ==
  \A w \in Workers, s \in DataStages : worker[w].stage > stageIndex(s) => left[s] = 0

\* The worker that holds the row is not behind it, and completes from the last stage.
HolderLeads ==
  \A w \in Workers :
    /\ (Holds(w) /\ worker[w].at # "idle") => worker[w].stage >= row.stage
    /\ worker[w].at = "complete" => worker[w].stage = 8

\* What the trigger has read, or done, before the step it stands at.
TriggerCarries ==
  /\ trigger = "owned" => \A s \in DataStages : left[s] = 0
  /\ trigger = "enqueue" => profile # "live"

IInv ==
  /\ Typed /\ RowAgrees /\ BehindIsEmpty /\ HolderLeads /\ TriggerCarries
  /\ AuthLast /\ PassedStagesAreEmpty /\ FrozenDuringTeardown

------------------------
\* The eight stages by their numbers.
LEMMA Order ==
  /\ Len(STAGE_ORDER) = 8
  /\ STAGE_ORDER[1] = "revoke" /\ STAGE_ORDER[2] = "content" /\ STAGE_ORDER[3] = "social"
  /\ STAGE_ORDER[4] = "messaging" /\ STAGE_ORDER[5] = "storage" /\ STAGE_ORDER[6] = "records"
  /\ STAGE_ORDER[7] = "auth" /\ STAGE_ORDER[8] = "finalize"
BY DEF STAGE_ORDER

\* The number of a stage is where it stands in the order.
LEMMA Numbering ==
  ASSUME NEW i \in 1 .. 8
  PROVE  stageIndex(STAGE_ORDER[i]) = i
<1>1. \A j \in 1 .. Len(STAGE_ORDER) : STAGE_ORDER[j] = STAGE_ORDER[i] => j = i
  BY Order
<1> QED
  BY <1>1, Order DEF stageIndex

LEMMA Numbers ==
  /\ Auth = 7 /\ Finalize = 8
  /\ \A s \in DataStages : stageIndex(s) \in 2 .. 6 /\ STAGE_ORDER[stageIndex(s)] = s
<1>1. Auth = 7 /\ Finalize = 8
  BY Order, Numbering DEF Auth, Finalize
<1>2. ASSUME NEW s \in DataStages
      PROVE  stageIndex(s) \in 2 .. 6 /\ STAGE_ORDER[stageIndex(s)] = s
  <2>1. PICK i \in 2 .. 6 : STAGE_ORDER[i] = s
    BY Order DEF DataStages
  <2> QED
    BY <2>1, Numbering
<1> QED
  BY <1>1, <1>2

\* A stage is a data stage from the second to the sixth.
LEMMA DataStageNumbers ==
  ASSUME NEW i \in 1 .. 8
  PROVE  /\ STAGE_ORDER[i] = "auth" <=> i = 7
         /\ STAGE_ORDER[i] = "finalize" <=> i = 8
         /\ STAGE_ORDER[i] \in DataStages <=> i \in 2 .. 6
BY Order DEF DataStages

LEMMA IdleTyped == Idle \in Worker /\ Idle.stage = 1 /\ Idle.at = "idle"
BY DEF Idle, Worker, Phases

\* A worker that is about to tell the account that its row is dead.
LEMMA DeadLetterTold ==
  ASSUME NEW r \in Worker
  PROVE  LET told == [r EXCEPT !.at = "mark", !.goal = "deadLetter"]
         IN  told \in Worker /\ told.stage = r.stage /\ told.at = "mark"
BY DEF Worker, Phases

\* Before anybody asks for the deletion.
LEMMA InvariantInit == Init => IInv
<1> SUFFICES ASSUME Init PROVE IInv
  OBVIOUS
<1>1. Typed
  BY DeletionAssumption DEF Init, Typed, Row, NoRow, Worker, Idle, Phases
<1>2. BehindIsEmpty /\ PassedStagesAreEmpty
  BY Numbers DEF Init, BehindIsEmpty, PassedStagesAreEmpty, NoRow, Idle
<1> QED
  BY <1>1, <1>2 DEF Init, IInv, RowAgrees, HolderLeads, TriggerCarries, AuthLast,
     FrozenDuringTeardown, NoRow, Idle, Holds

------------------------
\* The account asks for its deletion, loses its Auth user, or is written about.
LEMMA EntryStepSafe ==
  ASSUME IInv, DeleteAccountSelf \/ ConsoleDeletes \/ ServerWritesRow
  PROVE  IInv'
<1>1. CASE DeleteAccountSelf
  <2>1. row' \in Row /\ row'.status = "pending" /\ row'.stage = 1 /\ row'.holder = "none"
        /\ row'.failures = 0 /\ row'.abandoned = 0
    BY <1>1, DeletionAssumption DEF DeleteAccountSelf, initialOutboxRow, NoRow, Row
  <2>2. PassedStagesAreEmpty'
    BY <2>1, Numbers DEF PassedStagesAreEmpty
  <2>3. UNCHANGED <<left, authUser, worker, trigger>> /\ profile' = "frozen"
    BY <1>1 DEF DeleteAccountSelf
  <2>4. \A w \in Workers : ~Holds(w)'
    BY <2>1 DEF Holds
  <2>5. HolderLeads'
    BY <2>3, <2>4 DEF IInv, HolderLeads
  <2> QED
    BY <2>1, <2>2, <2>3, <2>5, DeletionAssumption
       DEF IInv, Typed, RowAgrees, BehindIsEmpty, TriggerCarries, AuthLast,
           FrozenDuringTeardown
<1>2. CASE ConsoleDeletes
  BY <1>2 DEF ConsoleDeletes, outbox, IInv, Typed, RowAgrees, BehindIsEmpty, HolderLeads,
     Holds, TriggerCarries, AuthLast, PassedStagesAreEmpty, FrozenDuringTeardown
<1>3. CASE ServerWritesRow
  BY <1>3 DEF ServerWritesRow, outbox, IInv, Typed, RowAgrees, BehindIsEmpty, HolderLeads,
     Holds, TriggerCarries, AuthLast, PassedStagesAreEmpty, FrozenDuringTeardown
<1> QED
  BY <1>1, <1>2, <1>3

\* The trigger on the deletion of the Auth user.
LEMMA TriggerStepSafe == ASSUME IInv, Trigger PROVE IInv'
<1>1. CASE TriggerReads
  <2>1. trigger' = "owned" => \A s \in DataStages : left[s] = 0
    BY <1>1, Numbers DEF TriggerReads, IInv, Typed, Row, PassedStagesAreEmpty
  <2>2. UNCHANGED <<row, profile, left, authUser, worker>>
        /\ trigger' \in {"owned", "retire"}
    BY <1>1 DEF TriggerReads, outbox, account
  <2> QED
    BY <2>1, <2>2 DEF IInv, Typed, RowAgrees, BehindIsEmpty, HolderLeads,
       Holds, TriggerCarries, AuthLast, PassedStagesAreEmpty, FrozenDuringTeardown
<1>2. CASE TriggerCompletes
  <2>1. /\ row' = [row EXCEPT !.status = "completed", !.stage = Finalize, !.holder = "none"]
        /\ UNCHANGED <<left, authUser, worker>> /\ profile' = "gone" /\ trigger' = "done"
    BY <1>2 DEF TriggerCompletes
  <2>2. row' \in Row /\ row'.status = "completed" /\ row'.holder = "none"
    <3>1. Finalize \in 1 .. 8 /\ row \in Row
      BY Numbers DEF IInv, Typed
    <3>2. "completed" \in {"none", "pending", "processing", "completed", "deadLetter"}
      OBVIOUS
    <3> QED
      BY <2>1, <3>1, <3>2 DEF Row
  <2>3. \A s \in DataStages : left'[s] = 0
    BY <1>2, <2>1 DEF TriggerCompletes, IInv, TriggerCarries
  <2>4. HolderLeads'
    BY <2>1, <2>2 DEF IInv, HolderLeads, Holds
  <2> QED
    BY <2>1, <2>2, <2>3, <2>4 DEF IInv, Typed, RowAgrees, BehindIsEmpty, TriggerCarries,
       AuthLast, PassedStagesAreEmpty, FrozenDuringTeardown
<1>3. CASE TriggerRetires
  BY <1>3 DEF TriggerRetires, outbox, IInv, Typed, RowAgrees, BehindIsEmpty, HolderLeads,
     Holds, TriggerCarries, AuthLast, PassedStagesAreEmpty, FrozenDuringTeardown
<1>4. CASE TriggerEnqueues
  <2>1. UNCHANGED <<profile, left, authUser, worker>> /\ trigger' = "done" /\ profile # "live"
    BY <1>4 DEF TriggerEnqueues, account, IInv, TriggerCarries
  <2>2. CASE row' = row
    BY <2>1, <2>2 DEF IInv, Typed, RowAgrees, BehindIsEmpty, HolderLeads,
       Holds, TriggerCarries, AuthLast, PassedStagesAreEmpty, FrozenDuringTeardown
  <2>3. CASE row' = initialOutboxRow
    <3>1. row' \in Row /\ row'.status = "pending" /\ row'.stage = 1 /\ row'.holder = "none"
          /\ row'.failures = 0 /\ row'.abandoned = 0
      BY <2>3, DeletionAssumption DEF initialOutboxRow, NoRow, Row
    <3>2. HolderLeads' /\ PassedStagesAreEmpty'
      BY <2>1, <3>1, Numbers DEF IInv, HolderLeads, Holds, PassedStagesAreEmpty
    <3> QED
      BY <2>1, <3>1, <3>2, DeletionAssumption
         DEF IInv, Typed, RowAgrees, BehindIsEmpty, TriggerCarries, AuthLast,
             FrozenDuringTeardown
  <2> QED
    BY <1>4, <2>2, <2>3 DEF TriggerEnqueues
<1>5. CASE TriggerRedelivered
  BY <1>5 DEF TriggerRedelivered, outbox, account, IInv, Typed, RowAgrees, BehindIsEmpty,
     HolderLeads, Holds, TriggerCarries, AuthLast, PassedStagesAreEmpty, FrozenDuringTeardown
<1> QED
  BY <1>1, <1>2, <1>3, <1>4, <1>5 DEF Trigger

------------------------
\* A worker that goes on in its memory only, or stops.
LEMMA MemoryStepSafe ==
  ASSUME IInv, NEW w \in Workers, NEW new \in Worker,
         worker' = [worker EXCEPT ![w] = new],
         \/ new = Idle
         \/ /\ new.stage = worker[w].stage /\ worker[w].at # "idle"
            /\ new.at \notin {"idle", "complete"},
         UNCHANGED <<row, left, authUser, trigger>>,
         profile' \in {profile, "husk"}
  PROVE  IInv'
<1>1. Typed'
  BY DEF IInv, Typed
<1>2. Idle.stage = 1 /\ Idle.at = "idle"
  BY DEF Idle
<1>3. BehindIsEmpty'
  BY <1>2, Numbers DEF IInv, Typed, BehindIsEmpty
<1>4. HolderLeads'
  BY <1>2 DEF IInv, Typed, HolderLeads, Holds
<1> QED
  BY <1>1, <1>3, <1>4 DEF IInv, RowAgrees, TriggerCarries, AuthLast, PassedStagesAreEmpty,
     FrozenDuringTeardown

\* A worker that writes the row: it is the holder, and gives it up or moves it
\* to the stage it has itself arrived at.
LEMMA RowStepSafe ==
  ASSUME IInv, NEW w \in Workers, NEW new \in Worker, Holds(w), row' \in Row,
         worker' = [worker EXCEPT ![w] = new], new.at # "complete",
         row'.stage \in {row.stage, worker[w].stage},
         \/ new.stage = 1 /\ row'.holder = "none"
         \/ /\ new.stage = worker[w].stage /\ row'.stage = worker[w].stage
            /\ row'.holder = w,
         RowAgrees',
         UNCHANGED <<left, authUser, trigger, profile>>
  PROVE  IInv'
<1>1. Typed'
  BY DEF IInv, Typed
<1>2. BehindIsEmpty'
  BY Numbers DEF IInv, Typed, BehindIsEmpty
<1>3. PassedStagesAreEmpty'
  BY DEF IInv, BehindIsEmpty, PassedStagesAreEmpty
<1>4. FrozenDuringTeardown'
  BY DEF IInv, FrozenDuringTeardown, Holds
<1>5. HolderLeads'
  <2> SUFFICES ASSUME NEW v \in Workers
               PROVE  /\ (Holds(v)' /\ worker'[v].at # "idle") => worker'[v].stage >= row'.stage
                      /\ worker'[v].at = "complete" => worker'[v].stage = 8
    BY DEF HolderLeads
  <2>1. CASE v = w
    BY <2>1, DeletionAssumption DEF IInv, Typed, Worker, Holds
  <2>2. CASE v # w
    <3>1. ~Holds(v)' /\ worker'[v] = worker[v]
      BY <2>2, DeletionAssumption DEF Holds, IInv, Typed
    <3> QED
      BY <3>1 DEF IInv, HolderLeads
  <2> QED
    BY <2>1, <2>2
<1> QED
  BY <1>1, <1>2, <1>3, <1>4, <1>5 DEF IInv, TriggerCarries, AuthLast

\* The lease: a claim, a poison pill, a lease that passes, a backoff that ends.
LEMMA LeaseStepSafe ==
  ASSUME IInv, NEW w \in Workers, Claim(w) \/ Poisoned(w) \/ Clock
  PROVE  IInv'
<1>1. CASE Claim(w)
  <2> DEFINE new == [Idle EXCEPT !.at = "mark", !.stage = row.stage]
             next == [row EXCEPT !.status = "processing", !.holder = w,
                                 !.abandoned = AbandonedAgain]
  <2>1. /\ row' = next /\ worker' = [worker EXCEPT ![w] = new] /\ Claimable
        /\ worker[w].at = "idle"
        /\ UNCHANGED <<profile, left, authUser, trigger>>
    BY <1>1 DEF Claim, account
  <2>2. AbandonedAgain \in Nat /\ AbandonedAgain < MAX_ABANDONED_ATTEMPTS
        /\ row.failures < MAX_ATTEMPTS
    BY <1>1, DeletionAssumption
       DEF Claim, Claimable, AbandonedAgain, IInv, Typed, Row, RowAgrees
  <2>3. next \in Row /\ next.stage = row.stage /\ next.holder = w /\ next.status = "processing"
        /\ next.failures = row.failures /\ next.abandoned = AbandonedAgain
    <3>1. row \in Row /\ AbandonedAgain \in 0 .. MAX_ABANDONED_ATTEMPTS
      BY <2>2, DeletionAssumption DEF IInv, Typed
    <3> QED
      BY <3>1 DEF Row
  <2>4. new \in Worker /\ new.stage = row.stage /\ new.at = "mark"
    BY DEF IInv, Typed, Row, Worker, Idle, Phases
  <2> HIDE DEF new, next
  <2>5. Typed'
    BY <2>1, <2>3, <2>4 DEF IInv, Typed
  <2>6. BehindIsEmpty' /\ PassedStagesAreEmpty'
    BY <2>1, <2>3, <2>4 DEF IInv, Typed, BehindIsEmpty, PassedStagesAreEmpty
  <2>7. HolderLeads'
    BY <2>1, <2>3, <2>4 DEF IInv, Typed, Row, HolderLeads, Holds
  <2>8. FrozenDuringTeardown'
    BY <2>1 DEF IInv, FrozenDuringTeardown, Claimable
  <2>9. RowAgrees'
    BY <2>1, <2>2, <2>3, DeletionAssumption DEF RowAgrees
  <2> QED
    BY <2>1, <2>5, <2>6, <2>7, <2>8, <2>9 DEF IInv, TriggerCarries, AuthLast
<1>2. CASE Poisoned(w)
  <2> DEFINE new == [Idle EXCEPT !.at = "mark", !.goal = "deadLetter"]
             next == [row EXCEPT !.status = "deadLetter", !.holder = "none",
                                 !.abandoned = AbandonedAgain]
  <2>1. /\ row' = next /\ worker' = [worker EXCEPT ![w] = new]
        /\ row.status = "processing"
        /\ UNCHANGED <<profile, left, authUser, trigger>>
    BY <1>2 DEF Poisoned, account
  <2>2. AbandonedAgain \in 0 .. MAX_ABANDONED_ATTEMPTS
    BY <2>1, DeletionAssumption DEF AbandonedAgain, IInv, Typed, Row, RowAgrees
  <2>3. next \in Row /\ next.stage = row.stage /\ next.holder = "none"
        /\ next.status = "deadLetter"
    BY <2>2 DEF IInv, Typed, Row
  <2>4. new \in Worker /\ new.stage = 1 /\ new.at = "mark"
    BY IdleTyped, DeadLetterTold
  <2> HIDE DEF new, next
  <2>5. Typed'
    BY <2>1, <2>3, <2>4 DEF IInv, Typed
  <2>6. BehindIsEmpty' /\ PassedStagesAreEmpty'
    BY <2>1, <2>3, <2>4, Numbers DEF IInv, Typed, BehindIsEmpty, PassedStagesAreEmpty
  <2>7. HolderLeads'
    BY <2>1, <2>3, <2>4 DEF IInv, Typed, HolderLeads, Holds
  <2> QED
    BY <2>1, <2>3, <2>5, <2>6, <2>7
       DEF IInv, RowAgrees, TriggerCarries, AuthLast, FrozenDuringTeardown
<1>3. CASE LeaseExpires
  <2>1. /\ worker' = [v \in Workers |->
             IF row.holder = v THEN [worker[v] EXCEPT !.late = TRUE] ELSE Idle]
        /\ UNCHANGED <<row, profile, left, authUser, trigger>>
    BY <1>3 DEF LeaseExpires, account
  <2>2. Idle \in Worker /\ Idle.stage = 1 /\ Idle.at = "idle"
    BY IdleTyped
  <2>3. \A v \in Workers : /\ [worker[v] EXCEPT !.late = TRUE] \in Worker
                           /\ [worker[v] EXCEPT !.late = TRUE].stage = worker[v].stage
                           /\ [worker[v] EXCEPT !.late = TRUE].at = worker[v].at
    BY DEF IInv, Typed, Worker
  <2>4. worker' \in [Workers -> Worker]
    BY <2>1, <2>2, <2>3
  <2>5. \A v \in Workers : \/ worker'[v].stage = worker[v].stage /\ worker'[v].at = worker[v].at
                           \/ worker'[v].stage = 1 /\ worker'[v].at = "idle"
    BY <2>1, <2>2, <2>3
  <2>6. BehindIsEmpty' /\ HolderLeads'
    BY <2>1, <2>5, Numbers DEF IInv, BehindIsEmpty, HolderLeads, Holds
  <2> QED
    BY <2>1, <2>4, <2>6 DEF IInv, Typed, RowAgrees, TriggerCarries, AuthLast,
       PassedStagesAreEmpty, FrozenDuringTeardown
<1>4. CASE BackoffEnds
  BY <1>4 DEF BackoffEnds, account, IInv, Typed, RowAgrees, BehindIsEmpty,
     HolderLeads, Holds, TriggerCarries, AuthLast, PassedStagesAreEmpty, FrozenDuringTeardown
<1> QED
  BY <1>1, <1>2, <1>3, <1>4 DEF Clock

------------------------
\* A worker that only moves its program counter.
LEMMA CounterMoves ==
  ASSUME IInv, NEW w \in Workers, NEW pc \in Phases, Goes(w, pc)
  PROVE  \E new \in Worker : /\ worker' = [worker EXCEPT ![w] = new]
                             /\ new.stage = worker[w].stage /\ new.at = pc
<1> DEFINE new == [worker[w] EXCEPT !.at = pc]
<1>1. worker[w] \in Worker
  BY DEF IInv, Typed
<1>2. worker' = [worker EXCEPT ![w] = new]
  BY DEF Goes
<1>3. new \in Worker /\ new.stage = worker[w].stage /\ new.at = pc
  BY <1>1 DEF Worker
<1> QED
  BY <1>2, <1>3

\* The mirror, a step that begins or throws, a worker that dies.
LEMMA QuietStepSafe ==
  ASSUME IInv, NEW w \in Workers,
         MarkReads(w) \/ MarkWrites(w) \/ StartStep(w) \/ StageThrows(w) \/ Dies(w)
  PROVE  IInv'
<1>1. /\ UNCHANGED <<row, left, authUser, trigger>>
      /\ profile' \in {profile, "husk"} /\ worker[w].at # "idle"
  BY DEF MarkReads, MarkWrites, StartStep, StageThrows, Dies, At, outbox, account
<1>2. CASE \E pc \in {"write", "loop", "step", "failed"} : Goes(w, pc)
  <2>1. PICK pc \in {"write", "loop", "step", "failed"} : Goes(w, pc)
    BY <1>2
  <2>2. pc \in Phases \ {"idle", "complete"}
    BY DEF Phases
  <2>3. PICK new \in Worker : /\ worker' = [worker EXCEPT ![w] = new]
                            /\ new.stage = worker[w].stage /\ new.at = pc
    BY <2>1, <2>2, CounterMoves
  <2> QED
    BY <1>1, <2>2, <2>3, MemoryStepSafe
<1>3. CASE worker' = [worker EXCEPT ![w] = Idle]
  BY <1>1, <1>3, IdleTyped, MemoryStepSafe
<1>4. ASSUME Marked(w)
      PROVE  Goes(w, "loop") \/ worker' = [worker EXCEPT ![w] = Idle]
  BY <1>4 DEF Marked, Goes
<1> QED
  BY <1>2, <1>3, <1>4 DEF MarkReads, MarkWrites, StartStep, StageThrows, Dies

\* A step of a stage: the data it takes away, and where it leads.
LEMMA RunStageSafe ==
  ASSUME IInv, NEW w \in Workers, RunStage(w)
  PROVE  IInv'
<1> DEFINE i == worker[w].stage
           s == STAGE_ORDER[i]
           done == StageDone(s)
           at == IF done THEN Onward(i) ELSE "loop"
           stage == IF done /\ s # "finalize" THEN i + 1 ELSE i
           new == [worker[w] EXCEPT !.stepped = TRUE, !.at = at, !.stage = stage]
<1>1. /\ worker' = [worker EXCEPT ![w] = new] /\ row' = row /\ worker[w].at # "idle"
  <2>1. worker' = [worker EXCEPT ![w] = Stepped(worker[w], s)]
    BY DEF RunStage, Stage
  <2>2. Stepped(worker[w], s) = new
    BY DEF Stepped
  <2>3. row' = row
    BY DEF RunStage, outbox
  <2>4. worker[w].at # "idle"
    BY DEF RunStage, At
  <2> QED
    BY <2>1, <2>2, <2>3, <2>4
<1>0. /\ s = "auth" => RunsAuth
      /\ s = "finalize" => RunsFinalize
      /\ s \notin {"auth", "finalize"} => RunsData(s)
  BY DEF RunStage, Stage, Runs
<1>2. worker[w] \in Worker /\ i \in 1 .. 8
  BY DEF IInv, Typed, Worker
<1>3. /\ s = "auth" <=> i = 7
      /\ s = "finalize" <=> i = 8
      /\ s \in DataStages <=> i \in 2 .. 6
  BY <1>2, DataStageNumbers
<1>4. at \in {"loop", "advance", "complete"} /\ (at = "complete" => i = 8 /\ stage = 8)
  BY <1>2, <1>3, Numbers DEF Onward
<1>5. stage \in 1 .. 8 /\ stage >= i /\ stage <= i + 1
  BY <1>2, <1>3
<1>6. s \in DataStages => stageIndex(s) = i
  BY <1>2, Numbering
<1> HIDE DEF at, stage
<1>7. new \in Worker /\ new.stage = stage /\ new.at = at
  BY <1>2, <1>4, <1>5 DEF Worker, Phases
<1> HIDE DEF new
<1>8. /\ left' \in [DataStages -> Nat]
      /\ \A d \in DataStages : left'[d] <= left[d]
      /\ s \in DataStages /\ done => left'[s] = 0
  <2>1. CASE s \in DataStages
    <3>1. left' = [left EXCEPT ![s] = PagesAfter(s)]
      BY <1>0, <1>3, <2>1 DEF RunsData
    <3>2. left[s] \in Nat /\ PagesAfter(s) \in Nat /\ PagesAfter(s) <= left[s]
      BY <2>1 DEF PagesAfter, IInv, Typed
    <3>3. done => PagesAfter(s) = 0
      BY <2>1 DEF StageDone
    <3> QED
      BY <2>1, <3>1, <3>2, <3>3 DEF IInv, Typed
  <2>2. CASE s \notin DataStages
    <3>1. left' = left
      BY <1>0, <2>2 DEF RunsAuth, RunsFinalize, RunsData
    <3> QED
      BY <2>2, <3>1 DEF IInv, Typed
  <2> QED
    BY <2>1, <2>2
<1>9. /\ profile' \in {profile, "gone"}
      /\ trigger' \in {trigger, "due"}
      /\ authUser' = authUser \/ i = 7
  BY <1>0, <1>3 DEF RunsAuth, RunsFinalize, RunsData
<1> HIDE DEF done, s
<1>10. Typed'
  <2>1. \A d \in DataStages : left'[d] <= Pages[d]
    BY <1>8, DeletionAssumption DEF IInv, Typed
  <2> QED
    BY <1>1, <1>7, <1>8, <1>9, <2>1 DEF IInv, Typed
<1>11. \A d \in DataStages : left[d] = 0 => left'[d] = 0
  BY <1>8 DEF IInv, Typed
<1>12. BehindIsEmpty'
  <2> SUFFICES ASSUME NEW v \in Workers, NEW d \in DataStages,
                      worker'[v].stage > stageIndex(d)
               PROVE  left'[d] = 0
    BY DEF BehindIsEmpty
  <2>1. CASE worker[v].stage > stageIndex(d)
    BY <1>11, <2>1 DEF IInv, BehindIsEmpty
  <2>2. CASE ~(worker[v].stage > stageIndex(d))
    <3>1. v = w
      BY <1>1, <2>2 DEF IInv, Typed
    <3>2. stage > stageIndex(d) /\ ~(i > stageIndex(d))
      BY <1>1, <1>7, <2>2, <3>1 DEF IInv, Typed
    <3>3. stageIndex(d) = i /\ stage = i + 1
      BY <1>2, <1>5, <3>2, Numbers
    <3>4. d = s /\ done
      BY <1>5, <3>3, Numbers DEF s, stage
    <3> QED
      BY <1>8, <3>4
  <2> QED
    BY <2>1, <2>2
<1>13. HolderLeads'
  BY <1>1, <1>2, <1>4, <1>5, <1>7 DEF IInv, Typed, Row, HolderLeads, Holds
<1>14. AuthLast'
  <2>1. i = 7 => \A d \in DataStages : left[d] = 0
    BY Numbers DEF IInv, BehindIsEmpty
  <2> QED
    BY <1>9, <1>11, <2>1 DEF IInv, AuthLast
<1>15. PassedStagesAreEmpty' /\ TriggerCarries' /\ FrozenDuringTeardown'
  BY <1>1, <1>9, <1>11 DEF IInv, PassedStagesAreEmpty, TriggerCarries, FrozenDuringTeardown
<1> QED
  BY <1>1, <1>10, <1>12, <1>13, <1>14, <1>15 DEF IInv, RowAgrees

\* A worker that reports to the row, as its holder or too late.
LEMMA ReportingStepSafe ==
  ASSUME IInv, NEW w \in Workers,
         AdvanceStage(w) \/ Release(w) \/ Complete(w) \/ RecordFailure(w)
  PROVE  IInv'
<1>1. /\ UNCHANGED <<profile, left, authUser, trigger>> /\ worker[w].at # "idle"
      /\ row \in Row /\ worker[w] \in Worker /\ worker[w].stage \in 1 .. 8
  BY DEF AdvanceStage, Release, Complete, RecordFailure, account, At, IInv, Typed, Worker
<1>2. CASE ~Holds(w)
  <2>1. row' = row /\ worker' = [worker EXCEPT ![w] = Idle]
    BY <1>2 DEF AdvanceStage, Release, Complete, RecordFailure, outbox
  <2> QED
    BY <1>1, <2>1, IdleTyped, MemoryStepSafe
<1>3. CASE AdvanceStage(w) /\ Holds(w)
  <2> DEFINE next == [row EXCEPT !.stage = worker[w].stage]
  <2>1. row' = next /\ Goes(w, "loop") /\ "loop" \in Phases
    BY <1>3 DEF AdvanceStage, Phases
  <2>2. /\ next \in Row /\ next.stage = worker[w].stage /\ next.holder = w
        /\ next.status = "processing"
        /\ next.failures = row.failures /\ next.abandoned = row.abandoned
    BY <1>1, <1>3 DEF Row, Holds
  <2> HIDE DEF next
  <2>3. RowAgrees'
    BY <1>3, <2>1, <2>2, DeletionAssumption DEF IInv, RowAgrees, Holds
  <2>4. PICK new \in Worker : /\ worker' = [worker EXCEPT ![w] = new]
                            /\ new.stage = worker[w].stage /\ new.at = "loop"
    BY <2>1, CounterMoves
  <2> QED
    BY <1>1, <1>3, <2>1, <2>2, <2>3, <2>4, RowStepSafe
<1>4. CASE Release(w) /\ Holds(w)
  <2> DEFINE next == [row EXCEPT !.status = "pending", !.holder = "none",
                        !.stage = worker[w].stage, !.failures = 0, !.abandoned = 0]
  <2>1. row' = next /\ worker' = [worker EXCEPT ![w] = Idle]
    BY <1>4 DEF Release, HandedBack
  <2>2. /\ next \in Row /\ next.stage = worker[w].stage /\ next.holder = "none"
        /\ next.status = "pending" /\ next.failures = 0 /\ next.abandoned = 0
    <3>1. 0 \in 0 .. MAX_ATTEMPTS /\ 0 \in 0 .. MAX_ABANDONED_ATTEMPTS
      BY DeletionAssumption
    <3> QED
      BY <1>1, <3>1 DEF Row
  <2> HIDE DEF next
  <2>3. RowAgrees'
    BY <2>1, <2>2, DeletionAssumption DEF RowAgrees
  <2> QED
    BY <1>1, <1>4, <2>1, <2>2, <2>3, IdleTyped, RowStepSafe
<1>5. CASE Complete(w) /\ Holds(w)
  <2> DEFINE next == [row EXCEPT !.status = "completed", !.holder = "none", !.stage = Finalize]
  <2>1. row' = next /\ worker' = [worker EXCEPT ![w] = Idle] /\ worker[w].stage = 8
    BY <1>5 DEF Complete, At, IInv, HolderLeads
  <2>2. Finalize = 8
    BY Numbers
  <2>3. /\ next \in Row /\ next.stage = worker[w].stage /\ next.holder = "none"
        /\ next.status = "completed"
    BY <1>1, <2>1, <2>2 DEF Row
  <2> HIDE DEF next
  <2>4. RowAgrees'
    BY <2>1, <2>3 DEF RowAgrees
  <2> QED
    BY <1>1, <1>5, <2>1, <2>3, <2>4, IdleTyped, RowStepSafe
<1>6. CASE RecordFailure(w) /\ Holds(w)
  <2> DEFINE n == row.failures + 1
             dead == n >= MAX_ATTEMPTS
             next == [row EXCEPT !.failures = n, !.abandoned = 0, !.holder = "none",
                        !.status = IF dead THEN "deadLetter" ELSE "pending"]
             told == [Idle EXCEPT !.at = "mark", !.goal = "deadLetter"]
  <2>1. row' = next /\ worker' = [worker EXCEPT ![w] = IF dead THEN told ELSE Idle]
    BY <1>6 DEF RecordFailure
  <2>2. n \in 0 .. MAX_ATTEMPTS /\ (~dead => n < MAX_ATTEMPTS)
    BY <1>1, <1>6, DeletionAssumption DEF IInv, RowAgrees, Row, Holds
  <2>3. /\ next \in Row /\ next.stage = row.stage /\ next.holder = "none"
        /\ next.status = (IF dead THEN "deadLetter" ELSE "pending")
        /\ next.failures = n /\ next.abandoned = 0
    <3>1. 0 \in 0 .. MAX_ABANDONED_ATTEMPTS
      BY DeletionAssumption
    <3> QED
      BY <1>1, <2>2, <3>1 DEF Row
  <2>4. told \in Worker /\ told.stage = 1 /\ told.at = "mark"
    BY IdleTyped, DeadLetterTold
  <2> HIDE DEF n, dead, next, told
  <2>5. RowAgrees'
    BY <2>1, <2>2, <2>3, DeletionAssumption DEF RowAgrees
  <2>6. PICK new \in {told, Idle} : worker' = [worker EXCEPT ![w] = new]
    BY <2>1
  <2>7. new \in Worker /\ new.stage = 1 /\ new.at # "complete"
    BY <2>4, <2>6, IdleTyped
  <2> QED
    BY <1>1, <1>6, <2>1, <2>3, <2>5, <2>6, <2>7, RowStepSafe
<1> QED
  BY <1>2, <1>3, <1>4, <1>5, <1>6

\* The invariant is inductive.
LEMMA InvariantStep == IInv /\ [Next]_vars => IInv'
<1> SUFFICES ASSUME IInv, [Next]_vars PROVE IInv'
  OBVIOUS
<1>1. CASE DeleteAccountSelf \/ ConsoleDeletes \/ ServerWritesRow \/ Trigger
  BY <1>1, EntryStepSafe, TriggerStepSafe
<1>2. ASSUME NEW w \in Workers, Claim(w) \/ Poisoned(w)
      PROVE  IInv'
  BY <1>2, LeaseStepSafe
<1>3. ASSUME NEW w \in Workers, Works(w)
      PROVE  IInv'
  BY <1>3, QuietStepSafe, RunStageSafe, ReportingStepSafe DEF Works
<1>4. CASE Clock
  <2>1. CASE Workers # {}
    BY <1>4, <2>1, LeaseStepSafe
  <2>2. CASE Workers = {}
    BY <1>4, <2>2 DEF Clock, LeaseExpires, BackoffEnds, account, IInv, Typed, Row, RowAgrees,
       BehindIsEmpty, HolderLeads, TriggerCarries, AuthLast, PassedStagesAreEmpty,
       FrozenDuringTeardown
  <2> QED
    BY <2>1, <2>2
<1>5. CASE UNCHANGED vars
  BY <1>5 DEF vars, outbox, account, IInv, Typed, RowAgrees, BehindIsEmpty, HolderLeads,
     Holds, TriggerCarries, AuthLast, PassedStagesAreEmpty, FrozenDuringTeardown
<1> QED
  BY <1>1, <1>2, <1>3, <1>4, <1>5 DEF Next

------------------------
\* What the row says only moves forward, because its holder leads.
LEMMA RowMovesForward ==
  ASSUME IInv, Next, row' # row
  PROVE  row'.stage >= row.stage /\ (row.status = "completed" => row'.status = "completed")
<1> USE DEF IInv
<1>1. row \in Row /\ row.stage \in 1 .. 8
  BY DEF Typed, Row
<1>2. CASE row = NoRow /\ row' = initialOutboxRow
  BY <1>2 DEF NoRow, initialOutboxRow
<1>3. CASE TriggerCompletes
  BY <1>1, <1>3, Numbers DEF TriggerCompletes, Row
<1>4. ASSUME NEW w \in Workers, Claim(w) \/ Poisoned(w)
      PROVE  row'.stage = row.stage /\ row.status # "completed"
  BY <1>1, <1>4 DEF Claim, Poisoned, Claimable, Row
<1>5. ASSUME NEW w \in Workers,
             AdvanceStage(w) \/ Release(w) \/ Complete(w) \/ RecordFailure(w)
      PROVE  row'.stage >= row.stage /\ row.status # "completed"
  <2>1. Holds(w) /\ worker[w].at # "idle"
    BY <1>5 DEF AdvanceStage, Release, Complete, RecordFailure, At, outbox
  <2>2. worker[w].stage \in 1 .. 8 /\ worker[w].stage >= row.stage
    BY <2>1 DEF HolderLeads, Typed, Worker
  <2>3. row'.stage \in {row.stage, worker[w].stage, 8}
    BY <1>1, <1>5, <2>1, Numbers
       DEF AdvanceStage, Release, Complete, RecordFailure, HandedBack, Row
  <2> QED
    BY <1>1, <2>1, <2>2, <2>3 DEF Holds
<1>6. \/ DeleteAccountSelf \/ TriggerCompletes \/ TriggerEnqueues
      \/ \E w \in Workers : \/ Claim(w) \/ Poisoned(w)
                            \/ AdvanceStage(w) \/ Release(w) \/ Complete(w) \/ RecordFailure(w)
  BY DEF Next, ConsoleDeletes, ServerWritesRow, Trigger, TriggerReads, TriggerRetires,
     TriggerRedelivered, Clock, LeaseExpires, BackoffEnds, Works, MarkReads, MarkWrites,
     StartStep, RunStage, StageThrows, Dies, outbox
<1> QED
  BY <1>1, <1>2, <1>3, <1>4, <1>5, <1>6 DEF DeleteAccountSelf, TriggerEnqueues

------------------------
(* The row, the account, the trigger and the workers keep their types, and
   the two budgets of the row their bounds. *)
THEOREM TypeCorrect == Spec => []TypeOK
<1>1. IInv => TypeOK
  <2> SUFFICES ASSUME IInv PROVE TypeOK
    OBVIOUS
  <2>1. row \in Row /\ \A s \in DataStages : left[s] \in 0 .. Pages[s]
    BY DeletionAssumption DEF IInv, Typed
  <2> QED
    BY <2>1, Order DEF IInv, Typed, RowAgrees, Row, Worker, TypeOK
<1> QED
  BY <1>1, InvariantInit, InvariantStep, PTL DEF Spec

(* The Auth identity goes last, the stages the row has passed are empty, and
   the account is frozen while a row exists: whatever the workers, the pages
   and the budgets, and however often workers die and are overtaken. *)
THEOREM DeletionStaysInOrder == Spec => []DeletionInOrder
<1>1. IInv => DeletionInOrder
  BY DEF IInv, DeletionInOrder
<1> QED
  BY <1>1, InvariantInit, InvariantStep, PTL DEF Spec

(* The persisted stage never moves back and a completed row stays completed,
   however late a worker that was overtaken reports. *)
THEOREM StagesNeverGoBack == Spec => StageNeverBack
<1>1. IInv /\ [Next]_vars =>
        [/\ row'.stage >= row.stage
         /\ row.status = "completed" => row'.status = "completed"]_row
  BY RowMovesForward DEF vars, outbox
<1> QED
  BY <1>1, InvariantInit, InvariantStep, PTL DEF Spec, StageNeverBack
------------------------
(***************************************************************************)
(* The cover of a room (RoomCovers), for any requests, calls and budget.   *)
(* That the cover has its bytes rests on what keeps everybody else away    *)
(* from them: a request that was finalized is reserved again only as one   *)
(* of `revived` (CoverRequest), so that neither the sweep nor an upload    *)
(* comes back to the path of any other; what was replaced is never shown   *)
(* again (CoverRoom); and a call that goes on after a wait acts on what it *)
(* read only as far as that still holds, unless its request was revived    *)
(* under it (CallFinalizes, CallShows, CallRecovers).                      *)
(***************************************************************************)
CONSTANTS Requests, Legacy, Calls, Budget
VARIABLES room, object, open, uploads, reservation, lease, lapsed, reserved, reserveLedger,
          reservePreflight, finalLedger, finalPreflight, call, sweep, replaced, revived
Cover == INSTANCE RoomCovers

CoverAssumption == Cover!RoomCoversAssumption

CoverCalls ==
  [at : {"idle", "reserve", "finalize", "checked", "previous", "public", "private",
         "recovered", "grant", "signed"},
   request : Requests \cup {Cover!None}, generation : Cover!Generations,
   state : Cover!CoverStates \cup {Cover!Unread}, path : Cover!Paths \cup {Cover!None}]

CoverTyped ==
  /\ room \in [status : {"active", "barred", "deleted"}, at : Cover!CoverStates]
  /\ object \in [Cover!Paths -> Cover!Generations] /\ uploads \in 1 .. (Budget + 1)
  /\ open \subseteq Cover!Paths /\ replaced \subseteq Cover!Paths
  /\ reservation \in [Requests -> {"none", "uploading", "expiring"}]
  /\ lease \in Requests \cup {Cover!None} /\ lapsed \subseteq Requests /\ reserved \in 0..Budget
  /\ reserveLedger \subseteq Requests /\ reservePreflight \subseteq Requests
  /\ finalLedger \in [Requests -> Cover!Generations]
  /\ finalPreflight \in [Requests -> Cover!Generations]
  /\ call \in [Calls -> CoverCalls]
  /\ sweep \in [at : {"idle", "queried", "claimed", "deleted"},
                request : Requests \cup {Cover!None}]
  /\ revived \subseteq Requests

\* Only a revived request has a reservation once it was finalized; one that
\* runs holds the lease.
CoverRequest(r) ==
  /\ finalLedger[r] # 0 /\ r \notin revived => reservation[r] = "none"
  /\ reservation[r] = "uploading" /\ r \notin lapsed => lease = r

\* A state of the room as it is or was read: one cover, that was finalized.
Shown(state) ==
  state.cover # Cover!NoCover =>
    /\ state.cover.path \in Cover!Paths /\ state.cover.generation # 0 /\ state.image = Cover!None
    /\ state.cover.path \in Requests => finalLedger[state.cover.path] # 0

CoverRoom ==
  /\ Shown(room.at)
  /\ object[Legacy] \in {0, 1}
  /\ room.status # "deleted" /\ room.at.image = Legacy => object[Legacy] = 1
  /\ \A p \in replaced : /\ room.at.cover.path # p /\ room.at.image # p
                         /\ p \in Requests => finalLedger[p] # 0
  /\ Cover!CoverHasItsObject /\ Cover!PrivateCoverIsSealed /\ Cover!EveryObjectIsAccountedFor

CoverSwept ==
  /\ sweep.at # "idle" => sweep.request \in Requests
  /\ sweep.at \in {"claimed", "deleted"} => reservation[sweep.request] = "expiring"
  /\ sweep.at = "deleted" => object[sweep.request] = 0

\* What a call may rely on between two of its steps.
CallFinalizes(k) ==
  LET r == k.request IN
  /\ k.at \in {"reserve", "finalize", "checked"} => r \in Requests
  /\ k.at \in {"finalize", "checked"} =>
       k.generation # 0 /\ (finalLedger[r] # 0 \/ finalPreflight[r] # 0)
  /\ k.at = "checked" /\ finalLedger[r] = 0 /\ r \notin revived =>
       (reservation[r] = "uploading" =>
          room.status = "deleted" \/ (object[r] = k.generation /\ r \notin open))

CallShows(k) ==
  /\ k.at = "previous" => k.path \in replaced
  /\ k.at \in {"finalize", "checked", "public", "private", "recovered", "grant", "signed"} =>
       k.state \in Cover!CoverStates /\ Shown(k.state)
  /\ k.at \in {"grant", "signed"} =>
       k.state.visibility = "public" /\ k.state.cover # Cover!NoCover

CallRecovers(k) ==
  k.at = "recovered" =>
    /\ k.state.cover # Cover!NoCover =>
         k.path = k.state.cover.path /\ k.generation = k.state.cover.generation
    /\ k.state.cover = Cover!NoCover /\ k.path # Cover!None =>
         k.path = Legacy /\ k.state.image = Legacy /\ k.generation = 1
    /\ k.path = Cover!None =>
         /\ k.generation = 0
         /\ k.state.image = Cover!None \/ room.at.image # Legacy \/ room.status = "deleted"
    /\ k.path # Cover!None => k.path \notin open \/ k.path \in revived

CoverCall(k) == CallFinalizes(k) /\ CallShows(k) /\ CallRecovers(k)

CoverInv ==
  /\ CoverTyped /\ CoverRoom /\ CoverSwept
  /\ \A r \in Requests : CoverRequest(r)
  /\ \A c \in Calls : CoverCall(call[c])

------------------------
LEMMA CoverNumbers ==
  ASSUME CoverAssumption
  PROVE  /\ Cover!None \notin Cover!Paths /\ Legacy \notin Requests /\ Cover!None # Legacy
         /\ Cover!IdleCall \in CoverCalls /\ Cover!IdleCall.at = "idle"
         /\ 0 \in Cover!Generations /\ 1 \in Cover!Generations /\ Budget \in Nat
         /\ Cover!NoCover = [path |-> Cover!None, generation |-> 0]
         /\ Cover!Unread = [visibility |-> Cover!None, cover |-> Cover!NoCover,
                            image |-> Cover!None]
         /\ Cover!IdleCall = [at |-> "idle", request |-> Cover!None, generation |-> 0,
                              state |-> Cover!Unread, path |-> Cover!None]
         /\ Cover!IdleSweep = [at |-> "idle", request |-> Cover!None]
<1>1. Cover!None \notin Cover!Paths /\ Legacy \notin Requests /\ Cover!None # Legacy
  BY DEF CoverAssumption, Cover!RoomCoversAssumption, Cover!None, Cover!Paths
<1>2. 0 \in Cover!Generations /\ 1 \in Cover!Generations /\ Budget \in Nat
  BY DEF CoverAssumption, Cover!RoomCoversAssumption, Cover!Generations
<1>3. Cover!IdleCall \in CoverCalls /\ Cover!IdleCall.at = "idle"
     BY <1>2 DEF Cover!IdleCall, CoverCalls, Cover!Unread
<1> QED BY <1>1, <1>2, <1>3 DEF Cover!NoCover, Cover!Unread, Cover!IdleCall, Cover!IdleSweep

\* What a step must not do under the calls that are on their way.
CoverCalm ==
  /\ room.at.image # Legacy => room'.at.image # Legacy
  /\ room.status = "deleted" => room'.status = "deleted"
  /\ replaced \subseteq replaced'
  /\ revived \subseteq revived'
  /\ \A p \in Cover!Paths :
       p \in open' => p \in open \/ (p \in Requests /\ (finalLedger[p] = 0 \/ p \in revived))
  /\ \A r \in Requests :
       /\ finalLedger[r] # 0 => finalLedger'[r] # 0
       /\ finalPreflight[r] # 0 => finalPreflight'[r] # 0 \/ finalLedger'[r] # 0
       /\ finalPreflight[r] # 0 /\ finalLedger'[r] = 0 /\ r \notin revived' =>
            (reservation'[r] = "uploading" =>
               /\ reservation[r] = "uploading"
               /\ \/ room'.status = "deleted" \/ object[r] = 0
                  \/ object'[r] = object[r] /\ (r \in open' => r \in open))

LEMMA CoverShown ==
  ASSUME NEW s, Shown(s), \A r \in Requests : finalLedger[r] # 0 => finalLedger'[r] # 0
  PROVE  Shown(s)'
BY DEF Shown

LEMMA CoverCallStands ==
  ASSUME CoverAssumption, CoverTyped, CoverCalm, NEW k \in CoverCalls, CoverCall(k)
  PROVE  CoverCall(k)'
<1>1. CallFinalizes(k)' BY DEF CoverCall, CallFinalizes, CoverCalm
<1>2. CallShows(k)'
  <2>1. Shown(k.state) => Shown(k.state)' BY CoverShown DEF CoverCalm
  <2> QED BY <2>1 DEF CoverCall, CallShows, CoverCalm
<1>3. CallRecovers(k)'
  <2> SUFFICES ASSUME k.at = "recovered" PROVE CallRecovers(k)' BY DEF CallRecovers
  <2>1. CallRecovers(k) /\ Shown(k.state) BY DEF CoverCall, CallShows
  <2>2. k.path # Cover!None => k.path \notin open' \/ k.path \in revived'
    <3> SUFFICES ASSUME k.path # Cover!None PROVE k.path \notin open' \/ k.path \in revived'
      OBVIOUS
    <3>1. k.path \notin open \/ k.path \in revived BY <2>1 DEF CallRecovers
    <3>2. k.path \in Cover!Paths BY DEF CoverCalls
    <3>3. k.path \in Requests => finalLedger[k.path] # 0
      BY <2>1, CoverNumbers DEF CallRecovers, Shown
    <3> QED BY <3>1, <3>2, <3>3 DEF CoverCalm
  <2> QED BY <2>1, <2>2 DEF CallRecovers, CoverCalm
<1> QED BY <1>1, <1>2, <1>3 DEF CoverCall

LEMMA CoverCallsStand ==
  ASSUME CoverAssumption, CoverInv, CoverCalm, NEW c \in Calls, NEW k \in CoverCalls,
         call' = [call EXCEPT ![c] = k], CoverCall(k)'
  PROVE  call' \in [Calls -> CoverCalls] /\ \A d \in Calls : CoverCall(call[d])'
<1>1. call' \in [Calls -> CoverCalls] BY DEF CoverInv, CoverTyped
<1>2. ASSUME NEW d \in Calls PROVE CoverCall(call[d])'
  <2>1. CASE d = c
    <3>1. call'[d] = k BY <2>1 DEF CoverInv, CoverTyped
    <3> QED BY <3>1
  <2>2. CASE d # c
    <3>1. PICK j \in CoverCalls : j = call[d] BY DEF CoverInv, CoverTyped
    <3>2. call'[d] = j BY <2>2, <3>1 DEF CoverInv, CoverTyped
    <3>3. CoverCall(j)' BY <3>1, CoverCallStands DEF CoverInv
    <3> QED BY <3>2, <3>3
  <2> QED BY <2>1, <2>2
<1> QED BY <1>1, <1>2

LEMMA CoverCallsRest ==
  ASSUME CoverAssumption, CoverInv, CoverCalm, UNCHANGED call
  PROVE  call' \in [Calls -> CoverCalls] /\ \A d \in Calls : CoverCall(call[d])'
<1>1. ASSUME NEW d \in Calls PROVE CoverCall(call[d])'
  <2>1. PICK j \in CoverCalls : j = call[d] BY DEF CoverInv, CoverTyped
  <2>2. CoverCall(j)' BY <2>1, CoverCallStands DEF CoverInv
  <2> QED BY <2>1, <2>2
<1> QED BY <1>1 DEF CoverInv, CoverTyped

LEMMA CoverIdle == ASSUME CoverAssumption
PROVE CoverCall(Cover!IdleCall) /\ CoverCall(Cover!IdleCall)'
BY CoverNumbers DEF CoverCall, CallFinalizes, CallShows, CallRecovers

LEMMA CoverCallEnds ==
  ASSUME CoverAssumption, CoverInv, CoverCalm, NEW c \in Calls, Cover!Ends(c)
  PROVE  call' \in [Calls -> CoverCalls] /\ \A d \in Calls : CoverCall(call[d])'
BY CoverNumbers, CoverIdle, CoverCallsStand DEF Cover!Ends

LEMMA CoverCallGoes ==
  ASSUME CoverTyped, NEW c \in Calls, NEW at, Cover!Goes(c, at),
         at \in {"idle", "reserve", "finalize", "checked", "previous", "public", "private",
                 "recovered", "grant", "signed"}
  PROVE  \E k \in CoverCalls :
           /\ call' = [call EXCEPT ![c] = k] /\ k.at = at
           /\ k.request = call[c].request /\ k.generation = call[c].generation
           /\ k.state = call[c].state /\ k.path = call[c].path
<1>1. PICK j : j = call[c] OBVIOUS
<1>2. j \in CoverCalls BY <1>1 DEF CoverTyped
<1>3. PICK k : k = [j EXCEPT !.at = at] OBVIOUS
<1>4. /\ k.at = at /\ k.request = j.request /\ k.generation = j.generation
      /\ k.state = j.state /\ k.path = j.path
  BY <1>2, <1>3 DEF CoverCalls
<1>5. k \in CoverCalls BY <1>2, <1>3 DEF CoverCalls
<1>6. call' = [call EXCEPT ![c] = k] BY <1>1, <1>3 DEF Cover!Goes
<1> QED BY <1>1, <1>4, <1>5, <1>6

LEMMA CoverRoomStands ==
  ASSUME CoverRoom, UNCHANGED <<room, object, replaced>>, open' \subseteq open,
         revived \subseteq revived',
         \A r \in Requests : finalLedger[r] # 0 => finalLedger'[r] # 0,
         \A r \in Requests : reservation[r] # "none" /\ object[r] # 0 => reservation'[r] # "none"
  PROVE  CoverRoom'
<1>1. Shown(room.at)'
  <2>1. PICK s : s = room.at OBVIOUS
  <2>2. Shown(s)' BY <2>1, CoverShown DEF CoverRoom
  <2> QED BY <2>1, <2>2
<1>2. Cover!CoverHasItsObject' BY DEF CoverRoom, Cover!CoverHasItsObject
<1>3. Cover!PrivateCoverIsSealed' BY DEF CoverRoom, Cover!PrivateCoverIsSealed
<1>4. Cover!EveryObjectIsAccountedFor' BY DEF CoverRoom, Cover!EveryObjectIsAccountedFor
<1> QED BY <1>1, <1>2, <1>3, <1>4 DEF CoverRoom

\* The steps of a call that change no document.
LEMMA CoverQuiet ==
  ASSUME CoverAssumption, CoverInv, NEW c \in Calls, NEW k \in CoverCalls,
         call' = [call EXCEPT ![c] = k], CoverCall(k)', open' \subseteq open,
         UNCHANGED <<room, object, uploads, Cover!slot, Cover!ledgers, sweep, replaced>>
  PROVE  CoverInv'
<1>1. CoverCalm BY DEF CoverCalm, Cover!slot, Cover!ledgers
<1>2. CoverRoom' BY CoverRoomStands DEF CoverInv, Cover!slot, Cover!ledgers
<1>3. call' \in [Calls -> CoverCalls] /\ \A d \in Calls : CoverCall(call[d])'
  BY <1>1, CoverCallsStand
<1>4. CoverTyped' BY <1>3 DEF CoverInv, CoverTyped, Cover!slot, Cover!ledgers
<1>5. CoverSwept' /\ \A r \in Requests : CoverRequest(r)'
  BY DEF CoverInv, CoverSwept, CoverRequest, Cover!slot, Cover!ledgers
<1> QED BY <1>2, <1>3, <1>4, <1>5 DEF CoverInv

LEMMA CoverFails ==
  ASSUME CoverAssumption, CoverInv, NEW c \in Calls, Cover!Fails(c)
       \/ Cover!getRoomCoverMediaAccess(c)
  PROVE  CoverInv'
<1>1. /\ Cover!Ends(c) /\ UNCHANGED <<room, object, uploads, Cover!slot, Cover!ledgers, sweep,
                                      replaced>>
      /\ UNCHANGED open
  BY DEF Cover!Fails, Cover!getRoomCoverMediaAccess
<1> QED BY <1>1, CoverIdle, CoverNumbers, CoverQuiet DEF Cover!Ends

LEMMA CoverReads ==
  ASSUME CoverAssumption, CoverInv, NEW c \in Calls,
         \/ \E v \in {"public", "private"} : Cover!beginVisibility(c, v)
         \/ Cover!authorizeMediaAccess(c)
  PROVE  CoverInv'
<1>1. PICK s \in Cover!CoverStates : s = room.at BY DEF CoverInv, CoverTyped
<1>2. Shown(s) BY <1>1 DEF CoverInv, CoverRoom
<1>3. PICK at \in {"public", "private", "grant"} :
        /\ call' = [call EXCEPT ![c] = [Cover!IdleCall EXCEPT !.at = at, !.state = room.at]]
        /\ UNCHANGED <<room, object, open, uploads, Cover!slot, Cover!ledgers, sweep, replaced>>
        /\ at = "grant" => s.visibility = "public" /\ s.cover # Cover!NoCover
  BY <1>1 DEF Cover!beginVisibility, Cover!authorizeMediaAccess
<1>4. PICK k : k = [Cover!IdleCall EXCEPT !.at = at, !.state = s] OBVIOUS
<1>5. k = [at |-> at, request |-> Cover!None, generation |-> 0, state |-> s, path |-> Cover!None]
  BY <1>4 DEF Cover!IdleCall
<1>6. k \in CoverCalls BY <1>5, CoverNumbers DEF CoverCalls
<1>7. Shown(s)' BY <1>2, <1>3, CoverShown DEF Cover!ledgers
<1>8. CoverCall(k)' BY <1>3, <1>5, <1>7 DEF CoverCall, CallFinalizes, CallShows, CallRecovers
<1>9. call' = [call EXCEPT ![c] = k] BY <1>1, <1>3, <1>4
<1> QED BY <1>3, <1>6, <1>8, <1>9, CoverQuiet

LEMMA CoverSigns ==
  ASSUME CoverAssumption, CoverInv, NEW c \in Calls, Cover!SignUrl(c) PROVE CoverInv'
<1>1. Cover!Goes(c, "signed") /\ call[c].at = "grant" /\ open' \subseteq open
      /\ UNCHANGED <<room, object, uploads, Cover!slot, Cover!ledgers, sweep, replaced>>
  BY DEF Cover!SignUrl
<1>2. PICK k \in CoverCalls :
        call' = [call EXCEPT ![c] = k] /\ k.at = "signed" /\ k.state = call[c].state
  BY <1>1, CoverCallGoes DEF CoverInv
<1>3. CallShows(call[c]) BY DEF CoverInv, CoverCall
<1>4. k.state \in Cover!CoverStates /\ Shown(k.state) /\ k.state.visibility = "public"
      /\ k.state.cover # Cover!NoCover
  BY <1>1, <1>2, <1>3 DEF CallShows
<1>5. Shown(k.state)' BY <1>1, <1>4, CoverShown DEF Cover!ledgers
<1>6. CoverCall(k)' BY <1>2, <1>4, <1>5 DEF CoverCall, CallFinalizes, CallShows, CallRecovers
<1> QED BY <1>1, <1>2, <1>6, CoverQuiet

LEMMA CoverValidates ==
  ASSUME CoverAssumption, CoverInv, NEW c \in Calls, Cover!validateStoredRoomCover(c)
  PROVE CoverInv'
<1>1. /\ Cover!Goes(c, "checked") /\ call[c].at = "finalize"
      /\ UNCHANGED <<room, object, uploads, Cover!slot, Cover!ledgers, sweep, replaced>>
      /\ open' = open \ {call[c].request}
  BY DEF Cover!validateStoredRoomCover
<1>2. PICK k \in CoverCalls :
        /\ call' = [call EXCEPT ![c] = k] /\ k.at = "checked" /\ k.state = call[c].state
        /\ k.request = call[c].request /\ k.generation = call[c].generation
  BY <1>1, CoverCallGoes DEF CoverInv
<1>3. CoverCall(call[c]) BY DEF CoverInv
<1>4. k.request \in Requests /\ k.generation # 0
      /\ (finalLedger[k.request] # 0 \/ finalPreflight[k.request] # 0)
  BY <1>1, <1>2, <1>3 DEF CoverCall, CallFinalizes
<1>5. reservation[k.request] = "uploading" /\ k.request \notin lapsed
      /\ object[k.request] = k.generation
  BY <1>2 DEF Cover!validateStoredRoomCover
<1>7. CallFinalizes(k)' BY <1>1, <1>2, <1>4, <1>5 DEF CallFinalizes, Cover!slot,
          Cover!ledgers
<1>8. k.state \in Cover!CoverStates /\ Shown(k.state)
  BY <1>1, <1>2, <1>3 DEF CoverCall, CallShows
<1>9. Shown(k.state)' BY <1>1, <1>8, CoverShown DEF Cover!ledgers
<1>10. CoverCall(k)' BY <1>2, <1>7, <1>8, <1>9 DEF CoverCall, CallShows, CallRecovers
<1> QED BY <1>1, <1>2, <1>10, CoverQuiet

LEMMA CoverRecovers ==
  ASSUME CoverAssumption, CoverInv, NEW c \in Calls, Cover!RecoverCover(c) PROVE CoverInv'
<1>1. PICK j \in CoverCalls : j = call[c] BY DEF CoverInv, CoverTyped
<1>2. PICK s : s = j.state OBVIOUS
<1>3. PICK p : p = Cover!PreviousPath(s) OBVIOUS
<1>4. /\ UNCHANGED <<room, object, uploads, Cover!slot, Cover!ledgers, sweep, replaced>>
      /\ open' = open \ {p} /\ j.at = "private"
      /\ s.cover # Cover!NoCover => object[p] = s.cover.generation
  BY <1>1, <1>2, <1>3 DEF Cover!RecoverCover
<1>5. PICK there \in BOOLEAN : there <=> (p # Cover!None /\ object[p] # 0) OBVIOUS
<1>6. PICK k : k = [j EXCEPT !.at = "recovered", !.path = IF there THEN p ELSE Cover!None,
                             !.generation = IF there THEN object[p] ELSE 0]
  OBVIOUS
<1>7. call' = [call EXCEPT ![c] = k]
  BY <1>1, <1>2, <1>3, <1>5, <1>6 DEF Cover!RecoverCover
<1>8. s \in Cover!CoverStates /\ Shown(s)
  BY <1>1, <1>2, <1>4 DEF CoverInv, CoverCall, CallShows
<1>9. p \in Cover!Paths \cup {Cover!None}
  BY <1>3, <1>8 DEF Cover!PreviousPath, Shown, Cover!CoverStates, Cover!Paths
<1>10. there => p \in Cover!Paths /\ object[p] \in Cover!Generations
  BY <1>5, <1>9 DEF CoverInv, CoverTyped
<1>11. k = [at |-> "recovered", request |-> j.request,
            generation |-> IF there THEN object[p] ELSE 0,
            state |-> s, path |-> IF there THEN p ELSE Cover!None]
  BY <1>2, <1>6 DEF CoverCalls
<1>12. k \in CoverCalls BY <1>8, <1>9, <1>10, <1>11, CoverNumbers DEF CoverCalls
<1>13. CallRecovers(k)'
  <2>1. CASE s.cover # Cover!NoCover
    <3>1. p = s.cover.path /\ p # Cover!None /\ object[p] # 0 /\ there
      BY <1>3, <1>4, <1>5, <1>8, <2>1, CoverNumbers DEF Cover!PreviousPath, Shown
    <3> QED BY <1>4, <1>11, <2>1, <3>1 DEF CallRecovers
  <2>2. CASE s.cover = Cover!NoCover /\ s.image = Cover!None
    <3>1. p = Cover!None /\ ~there BY <1>3, <1>5, <2>2 DEF Cover!PreviousPath
    <3> QED BY <1>11, <2>2, <3>1 DEF CallRecovers
  <2>3. CASE s.cover = Cover!NoCover /\ s.image # Cover!None
    <3>1. p = Legacy /\ s.image = Legacy
         BY <1>3, <1>8, <2>3 DEF Cover!PreviousPath, Cover!CoverStates
    <3>2. object[Legacy] \in {0, 1} /\ (room.status # "deleted" /\ room.at.image = Legacy =>
            object[Legacy] = 1)
      BY DEF CoverInv, CoverRoom
    <3> QED BY <1>4, <1>5, <1>11, <2>3, <3>1, <3>2, CoverNumbers DEF CallRecovers
  <2> QED BY <2>1, <2>2, <2>3
<1>14. Shown(s)' BY <1>4, <1>8, CoverShown DEF Cover!ledgers
<1>15. CoverCall(k)' BY <1>8, <1>11, <1>13, <1>14 DEF CoverCall, CallFinalizes, CallShows
<1> QED BY <1>4, <1>7, <1>12, <1>15, CoverQuiet

\* The steps of the host's reservations and of the sweep leave the room alone.
LEMMA CoverBesides ==
  ASSUME CoverAssumption, CoverInv, CoverCalm, CoverTyped', UNCHANGED <<room, replaced>>,
         \A d \in Calls : CoverCall(call[d])',
         CoverSwept', \A r \in Requests : CoverRequest(r)',
         object' = object /\ open' \subseteq open,
         \A r \in Requests : reservation[r] # "none" /\ object[r] # 0 => reservation'[r] # "none"
  PROVE  CoverInv'
<1>1. CoverRoom' BY CoverRoomStands DEF CoverInv, CoverCalm
<1> QED BY <1>1 DEF CoverInv

LEMMA CoverBeginsReserve ==
  ASSUME CoverAssumption, CoverInv, NEW c \in Calls, NEW r \in Requests, Cover!beginReserve(c, r)
  PROVE  CoverInv'
<1>1. /\ reservePreflight' = reservePreflight \cup {r}
      /\ reserveLedger' = reserveLedger \ {x \in {r} : x \in lapsed}
      /\ UNCHANGED <<room, object, open, uploads, Cover!slot, finalLedger, finalPreflight, sweep,
                     replaced>>
  BY DEF Cover!beginReserve
<1>2. CoverCalm BY <1>1 DEF CoverCalm, Cover!slot
<1>3. PICK k : k = [Cover!IdleCall EXCEPT !.at = "reserve", !.request = r] OBVIOUS
<1>4. k = [at |-> "reserve", request |-> r, generation |-> 0, state |-> Cover!Unread,
           path |-> Cover!None]
  BY <1>3 DEF Cover!IdleCall
<1>5. k \in CoverCalls BY <1>4, CoverNumbers DEF CoverCalls
<1>6. CoverCall(k)' BY <1>4 DEF CoverCall, CallFinalizes, CallShows, CallRecovers
<1>7. call' = [call EXCEPT ![c] = k] BY <1>3 DEF Cover!beginReserve
<1>8. call' \in [Calls -> CoverCalls] /\ \A d \in Calls : CoverCall(call[d])'
  BY <1>2, <1>5, <1>6, <1>7, CoverCallsStand
<1>9. CoverTyped' BY <1>1, <1>8 DEF CoverInv, CoverTyped, Cover!slot
<1>10. \A q \in Requests : CoverRequest(q)'
  BY <1>1 DEF CoverInv, CoverRequest, Cover!slot
<1>11. CoverSwept' BY <1>1 DEF CoverInv, CoverSwept, Cover!slot
<1> QED BY <1>1, <1>2, <1>8, <1>9, <1>10, <1>11, CoverBesides DEF Cover!slot

LEMMA CoverReservesAgain ==
  ASSUME CoverAssumption, CoverInv, NEW c \in Calls, Cover!ReserveAgain(c) PROVE CoverInv'
<1>1. PICK r : r = call[c].request OBVIOUS
<1>2. /\ r \in reservePreflight /\ reservation[r] = "uploading"
      /\ reserveLedger' = reserveLedger \cup {r} /\ reservePreflight' = reservePreflight \ {r}
      /\ UNCHANGED <<room, object, open, uploads, Cover!slot, finalLedger, finalPreflight, sweep,
                     replaced>>
      /\ Cover!Ends(c)
  BY <1>1 DEF Cover!ReserveAgain, Cover!AdmitsReserve, Cover!Answered
<1>3. CoverCalm BY <1>2 DEF CoverCalm, Cover!slot
<1>4. call' \in [Calls -> CoverCalls] /\ \A d \in Calls : CoverCall(call[d])'
  BY <1>2, <1>3, CoverCallEnds
<1>5. CoverTyped' BY <1>2, <1>4 DEF CoverInv, CoverTyped, Cover!slot
<1>6. \A q \in Requests : CoverRequest(q)' BY <1>2 DEF CoverInv, CoverRequest, Cover!slot
<1>7. CoverSwept' BY <1>2 DEF CoverInv, CoverSwept, Cover!slot
<1> QED BY <1>2, <1>3, <1>4, <1>5, <1>6, <1>7, CoverBesides DEF Cover!slot

LEMMA CoverReserves ==
  ASSUME CoverAssumption, CoverInv, NEW c \in Calls, Cover!reserveRoomCoverUpload(c)
  PROVE CoverInv'
<1>1. PICK r : r = call[c].request OBVIOUS
<1>2. /\ r \in reservePreflight /\ r \notin reserveLedger /\ reservation[r] = "none"
      /\ lease = Cover!None \/ lease \in lapsed
      /\ reservation' = [reservation EXCEPT ![r] = "uploading"]
      /\ lease' = r /\ lapsed' = lapsed \ {r} /\ reserved < Budget /\ reserved' = reserved + 1
      /\ reserveLedger' = reserveLedger \cup {r} /\ reservePreflight' = reservePreflight \ {r}
      /\ revived' = revived \cup {q \in {r} : finalLedger[q] # 0 \/ finalPreflight[q] # 0}
      /\ UNCHANGED <<room, object, open, uploads, finalLedger, finalPreflight, sweep, replaced>>
      /\ Cover!Ends(c)
  BY <1>1
     DEF Cover!reserveRoomCoverUpload, Cover!AdmitsReserve, Cover!Answered, Cover!LeaseFree,
         Cover!BudgetLeft, Cover!FinalizeBegan
<1>3. r \in Requests BY <1>2 DEF CoverInv, CoverTyped
<1>4. reservation'[r] = "uploading"
      /\ \A q \in Requests \ {r} : reservation'[q] = reservation[q]
  BY <1>2, <1>3 DEF CoverInv, CoverTyped
<1>5. CoverCalm BY <1>2, <1>4 DEF CoverCalm
<1>6. call' \in [Calls -> CoverCalls] /\ \A d \in Calls : CoverCall(call[d])'
  BY <1>2, <1>5, CoverCallEnds
<1>7. CoverTyped'
  <2>1. reserved' \in 0 .. Budget BY <1>2, CoverNumbers DEF CoverInv, CoverTyped
  <2>2. reservation' \in [Requests -> {"none", "uploading", "expiring"}]
    BY <1>2 DEF CoverInv, CoverTyped
  <2> QED BY <1>2, <1>3, <1>6, <2>1, <2>2 DEF CoverInv, CoverTyped
<1>8. \A q \in Requests : CoverRequest(q)'
  <2>1. CoverRequest(r)' BY <1>2, <1>3, <1>4 DEF CoverRequest
  <2>2. ASSUME NEW q \in Requests \ {r} PROVE CoverRequest(q)'
    <3>1. CoverRequest(q) BY DEF CoverInv
    <3>2. ~(reservation[q] = "uploading" /\ q \notin lapsed)
      BY <1>2, <3>1, CoverNumbers DEF CoverRequest, Cover!Paths
    <3> QED BY <1>2, <1>4, <3>1, <3>2 DEF CoverRequest
  <2> QED BY <2>1, <2>2
<1>9. CoverSwept' BY <1>2, <1>4 DEF CoverInv, CoverSwept
<1>10. \A q \in Requests : reservation[q] # "none" => reservation'[q] # "none" BY <1>4
<1> QED BY <1>2, <1>5, <1>6, <1>7, <1>8, <1>9, <1>10, CoverBesides

LEMMA CoverLapses ==
  ASSUME CoverAssumption, CoverInv, NEW r \in Requests, Cover!Lapse(r) PROVE CoverInv'
<1>1. /\ lapsed' = lapsed \cup {r}
      /\ UNCHANGED <<room, object, open, uploads, reservation, lease, reserved, Cover!ledgers,
                     call, sweep, replaced, revived>>
  BY DEF Cover!Lapse
<1>2. CoverCalm BY <1>1 DEF CoverCalm, Cover!ledgers
<1>3. call' \in [Calls -> CoverCalls] /\ \A d \in Calls : CoverCall(call[d])'
  BY <1>1, <1>2, CoverCallsRest
<1>4. CoverTyped' BY <1>1 DEF CoverInv, CoverTyped, Cover!ledgers
<1>5. \A q \in Requests : CoverRequest(q)' BY <1>1 DEF CoverInv, CoverRequest, Cover!ledgers
<1>6. CoverSwept' BY <1>1 DEF CoverInv, CoverSwept
<1> QED BY <1>1, <1>2, <1>3, <1>4, <1>5, <1>6, CoverBesides

LEMMA CoverBeginsFinalize ==
  ASSUME CoverAssumption, CoverInv, NEW c \in Calls, NEW r \in Requests, Cover!beginFinalize(c, r)
  PROVE  CoverInv'
<1>1. /\ object[r] # 0 /\ finalLedger[r] = 0
      /\ finalPreflight' = [finalPreflight EXCEPT ![r] = object[r]]
      /\ UNCHANGED <<room, object, open, uploads, Cover!slot, reserveLedger, reservePreflight,
                     finalLedger, sweep, replaced>>
  BY DEF Cover!beginFinalize
<1>2. object[r] \in Cover!Generations BY DEF CoverInv, CoverTyped, Cover!Paths
<1>3. finalPreflight'[r] = object[r]
      /\ \A q \in Requests \ {r} : finalPreflight'[q] = finalPreflight[q]
  BY <1>1, <1>2 DEF CoverInv, CoverTyped
<1>4. CoverCalm
  <2>1. \A q \in Requests : finalPreflight[q] # 0 => finalPreflight'[q] # 0 BY <1>1, <1>3
  <2> QED BY <1>1, <2>1 DEF CoverCalm, Cover!slot
<1>5. PICK s \in Cover!CoverStates : s = room.at BY DEF CoverInv, CoverTyped
<1>6. Shown(s)' BY <1>1, <1>5, CoverShown DEF CoverInv, CoverRoom
<1>7. PICK k : k = [at |-> "finalize", request |-> r, generation |-> object[r], state |-> s,
                    path |-> Cover!None]
  OBVIOUS
<1>8. k \in CoverCalls BY <1>2, <1>7 DEF CoverCalls
<1>9. call' = [call EXCEPT ![c] = k] BY <1>5, <1>7 DEF Cover!beginFinalize
<1>10. CoverCall(k)'
  BY <1>1, <1>3, <1>6, <1>7 DEF CoverCall, CallFinalizes, CallShows, CallRecovers
<1>11. call' \in [Calls -> CoverCalls] /\ \A d \in Calls : CoverCall(call[d])'
  BY <1>4, <1>8, <1>9, <1>10, CoverCallsStand
<1>12. CoverTyped'
  <2>1. finalPreflight' \in [Requests -> Cover!Generations] BY <1>1, <1>2 DEF CoverInv, CoverTyped
  <2> QED BY <1>1, <1>11, <2>1 DEF CoverInv, CoverTyped, Cover!slot
<1>13. \A q \in Requests : CoverRequest(q)' BY <1>1 DEF CoverInv, CoverRequest, Cover!slot
<1>14. CoverSwept' BY <1>1 DEF CoverInv, CoverSwept, Cover!slot
<1> QED BY <1>1, <1>4, <1>11, <1>12, <1>13, <1>14, CoverBesides DEF Cover!slot

LEMMA CoverUploads ==
  ASSUME CoverAssumption, CoverInv, NEW r \in Requests, Cover!Upload(r) PROVE CoverInv'
<1>1. /\ object[r] = 0 /\ reservation[r] = "uploading" /\ uploads < Budget + 1
      /\ uploads' = uploads + 1
      /\ object' = [object EXCEPT ![r] = uploads + 1] /\ open' = open \cup {r}
      /\ UNCHANGED <<room, Cover!slot, Cover!ledgers, call, sweep, replaced>>
  BY DEF Cover!Upload
<1>2. finalLedger[r] = 0 \/ r \in revived BY <1>1 DEF CoverInv, CoverRequest
<1>3. uploads' \in 1 .. (Budget + 1) /\ uploads + 1 \in Cover!Generations /\ uploads + 1 # 0
  BY <1>1, CoverNumbers DEF CoverInv, CoverTyped, Cover!Generations
<1>4. r \in Cover!Paths /\ r # Legacy BY CoverNumbers DEF Cover!Paths
<1>5. object'[r] # 0 /\ \A p \in Cover!Paths \ {r} : object'[p] = object[p]
  BY <1>1, <1>3, <1>4 DEF CoverInv, CoverTyped
<1>6. CoverCalm
  <2>1. \A q \in Requests : object[q] = 0
            \/ (object'[q] = object[q] /\ (q \in open' => q \in open))
    BY <1>1, <1>5 DEF Cover!Paths
  <2> QED BY <1>1, <1>2, <2>1 DEF CoverCalm, Cover!slot, Cover!ledgers
<1>7. call' \in [Calls -> CoverCalls] /\ \A d \in Calls : CoverCall(call[d])'
  BY <1>1, <1>6, CoverCallsRest
<1>8. CoverTyped'
  <2>1. object' \in [Cover!Paths -> Cover!Generations] BY <1>1, <1>3 DEF CoverInv, CoverTyped
  <2> QED BY <1>1, <1>3, <1>4, <2>1 DEF CoverInv, CoverTyped, Cover!slot, Cover!ledgers
<1>9. \A q \in Requests : CoverRequest(q)'
     BY <1>1 DEF CoverInv, CoverRequest, Cover!slot, Cover!ledgers
<1>10. CoverSwept'
  BY <1>1, <1>5 DEF CoverInv, CoverSwept, Cover!slot, Cover!Paths
<1>11. CoverRoom'
  <2>1. Shown(room.at)'
    <3>1. PICK s : s = room.at OBVIOUS
    <3>2. Shown(s)' BY <1>1, <3>1, CoverShown DEF CoverInv, CoverRoom, Cover!ledgers
    <3> QED BY <1>1, <3>1, <3>2
  <2>2. room.at.cover.path # r \/ r \in revived
    BY <1>2, CoverNumbers DEF CoverInv, CoverRoom, Shown, Cover!Paths
  <2>3. Cover!CoverHasItsObject'
    BY <1>1, <1>5, <2>2 DEF CoverInv, CoverRoom, Cover!CoverHasItsObject, Shown, Cover!slot
  <2>4. Cover!PrivateCoverIsSealed'
    BY <1>1, <2>2 DEF CoverInv, CoverRoom, Cover!PrivateCoverIsSealed, Cover!slot
  <2>5. Cover!EveryObjectIsAccountedFor'
    BY <1>1, <1>5 DEF CoverInv, CoverRoom, Cover!EveryObjectIsAccountedFor, Cover!slot
  <2>6. object'[Legacy] = object[Legacy] BY <1>4, <1>5 DEF Cover!Paths
  <2> QED BY <1>1, <2>1, <2>3, <2>4, <2>5, <2>6 DEF CoverInv, CoverRoom, Cover!ledgers
<1> QED BY <1>7, <1>8, <1>9, <1>10, <1>11 DEF CoverInv

LEMMA CoverFinalizes ==
  ASSUME CoverAssumption, CoverInv, NEW c \in Calls, Cover!finalizeRoomCoverUpload(c)
  PROVE CoverInv'
<1>1. PICK r : r = call[c].request OBVIOUS
<1>2. PICK g : g = call[c].generation OBVIOUS
<1>3. PICK s : s = room.at OBVIOUS
<1>4. PICK p : p = Cover!PreviousPath(s) OBVIOUS
<1>5. /\ call[c].at = "checked" /\ room.status = "active" /\ call[c].state = s
      /\ finalLedger[r] = 0 /\ reservation[r] = "uploading" /\ lease = r
      /\ reservation' = [reservation EXCEPT ![r] = "none"] /\ lease' = Cover!None
      /\ finalLedger' = [finalLedger EXCEPT ![r] = g]
      /\ finalPreflight' = [finalPreflight EXCEPT ![r] = 0]
      /\ reserveLedger' = reserveLedger \ {r} /\ reservePreflight' = reservePreflight \ {r}
      /\ replaced' = replaced \cup ({p} \ {Cover!None, r})
      /\ UNCHANGED <<object, open, uploads, lapsed, reserved, sweep, revived>>
  BY <1>1, <1>2, <1>3, <1>4
     DEF Cover!finalizeRoomCoverUpload, Cover!sameCoverState, Cover!StillReserved,
         Cover!ForgetReserve
<1>6. room' = [room EXCEPT !.at.cover = [path |-> r, generation |-> g], !.at.image = Cover!None]
  BY <1>1, <1>2 DEF Cover!finalizeRoomCoverUpload
<1>7. /\ r \in Requests /\ g # 0 /\ g \in Cover!Generations
      /\ (object[r] = g /\ r \notin open) \/ r \in revived
  <2>1. call[c] \in CoverCalls /\ CallFinalizes(call[c])
    BY DEF CoverInv, CoverTyped, CoverCall
  <2> QED BY <1>1, <1>2, <1>5, <2>1 DEF CallFinalizes, CoverCalls
<1>8. s \in Cover!CoverStates /\ Shown(s) BY <1>3 DEF CoverInv, CoverTyped, CoverRoom
<1>9. /\ room'.status = "active" /\ room'.at.visibility = s.visibility
      /\ room'.at.cover = [path |-> r, generation |-> g] /\ room'.at.image = Cover!None
      /\ room' \in [status : {"active", "barred", "deleted"}, at : Cover!CoverStates]
  <2>1. PICK a : a = [s EXCEPT !.cover = [path |-> r, generation |-> g], !.image = Cover!None]
    OBVIOUS
  <2>2. a = [visibility |-> s.visibility, cover |-> [path |-> r, generation |-> g],
             image |-> Cover!None]
    BY <1>8, <2>1 DEF Cover!CoverStates
  <2>3. a \in Cover!CoverStates BY <1>7, <1>8, <2>2 DEF Cover!CoverStates, Cover!Paths
  <2>4. room \in [status : {"active", "barred", "deleted"}, at : Cover!CoverStates]
    BY DEF CoverInv, CoverTyped
  <2>5. room' = [room EXCEPT !.at = a] BY <1>3, <1>6, <2>1, <2>4
  <2>6. room' = [status |-> room.status, at |-> a] BY <2>4, <2>5
  <2> QED BY <1>5, <2>2, <2>3, <2>6
<1>10. finalLedger'[r] = g /\ finalPreflight'[r] = 0 /\ reservation'[r] = "none"
       /\ \A q \in Requests \ {r} : /\ finalLedger'[q] = finalLedger[q]
                                    /\ finalPreflight'[q] = finalPreflight[q]
                                    /\ reservation'[q] = reservation[q]
  BY <1>5, <1>7 DEF CoverInv, CoverTyped
<1>11. CoverCalm BY <1>5, <1>7, <1>9, <1>10, CoverNumbers DEF CoverCalm
<1>12. p \in Cover!Paths \cup {Cover!None} /\ (p \in Requests => finalLedger[p] # 0) /\ p # r
  BY <1>4, <1>5, <1>7, <1>8, CoverNumbers
     DEF Cover!PreviousPath, Shown, Cover!CoverStates, Cover!Paths
<1>13. call' \in [Calls -> CoverCalls] /\ \A d \in Calls : CoverCall(call[d])'
  <2>1. CASE p \in {Cover!None, r}
    <3>1. Cover!Ends(c) BY <1>1, <1>3, <1>4, <1>5, <2>1 DEF Cover!finalizeRoomCoverUpload,
              Cover!Ends
    <3> QED BY <1>11, <3>1, CoverCallEnds
  <2>2. CASE p \notin {Cover!None, r}
    <3>1. PICK k : k = [Cover!IdleCall EXCEPT !.at = "previous", !.path = p] OBVIOUS
    <3>2. k = [at |-> "previous", request |-> Cover!None, generation |-> 0,
               state |-> Cover!Unread,
               path |-> p]
      BY <3>1 DEF Cover!IdleCall
    <3>3. k \in CoverCalls BY <1>12, <3>2, CoverNumbers DEF CoverCalls
    <3>4. call' = [call EXCEPT ![c] = k]
      BY <1>1, <1>3, <1>4, <1>5, <2>2, <3>1 DEF Cover!finalizeRoomCoverUpload
    <3>5. p \in replaced' BY <1>5, <2>2
    <3>6. CoverCall(k)' BY <3>2, <3>5 DEF CoverCall, CallFinalizes, CallShows, CallRecovers
    <3> QED BY <1>11, <3>3, <3>4, <3>6, CoverCallsStand
  <2> QED BY <2>1, <2>2
<1>14. CoverTyped'
  <2>1. /\ reservation' \in [Requests -> {"none", "uploading", "expiring"}]
        /\ finalLedger' \in [Requests -> Cover!Generations]
        /\ finalPreflight' \in [Requests -> Cover!Generations]
    BY <1>5, <1>7, CoverNumbers DEF CoverInv, CoverTyped
  <2> QED BY <1>5, <1>9, <1>12, <1>13, <2>1 DEF CoverInv, CoverTyped
<1>15. \A q \in Requests : CoverRequest(q)'
  <2>1. CoverRequest(r)' BY <1>5, <1>10 DEF CoverRequest
  <2>2. ASSUME NEW q \in Requests \ {r} PROVE CoverRequest(q)'
    BY <1>5, <1>10, <2>2 DEF CoverInv, CoverRequest
  <2> QED BY <2>1, <2>2
<1>16. CoverSwept' BY <1>5, <1>10 DEF CoverInv, CoverSwept
<1>17. CoverRoom'
  <2>1. Shown(room.at)' BY <1>7, <1>9, <1>10 DEF Shown, Cover!Paths
  <2>2. \A q \in replaced' : /\ room'.at.cover.path # q /\ room'.at.image # q
                             /\ q \in Requests => finalLedger'[q] # 0
    <3>1. ASSUME NEW q \in replaced'
          PROVE  q \in Cover!Paths /\ q # r /\ (q \in Requests => finalLedger[q] # 0)
      <4>1. CASE q \in replaced
        BY <1>5, <1>7, <4>1 DEF CoverInv, CoverRoom, CoverTyped
      <4>2. CASE q = p /\ p # Cover!None BY <1>12, <4>2
      <4> QED BY <1>5, <4>1, <4>2
    <3> QED BY <1>9, <1>10, <3>1, CoverNumbers
  <2>3. Cover!CoverHasItsObject' BY <1>5, <1>7, <1>9 DEF Cover!CoverHasItsObject
  <2>4. Cover!PrivateCoverIsSealed' BY <1>5, <1>7, <1>9 DEF Cover!PrivateCoverIsSealed
  <2>5. Cover!EveryObjectIsAccountedFor'
    <3> SUFFICES ASSUME NEW q \in Cover!Paths, object'[q] # 0
                 PROVE  \/ room'.at.cover.path = q \/ room'.at.image = q
                        \/ q \in replaced'
                        \/ q \in Requests /\ reservation'[q] # "none"
      BY DEF Cover!EveryObjectIsAccountedFor
    <3>1. \/ s.cover.path = q \/ s.image = q \/ q \in replaced
          \/ q \in Requests /\ reservation[q] # "none"
      BY <1>3, <1>5 DEF CoverInv, CoverRoom, Cover!EveryObjectIsAccountedFor
    <3>2. CASE s.cover.path = q \/ s.image = q
      <4>1. p = q
        BY <1>4, <1>8, <3>2, CoverNumbers DEF Cover!PreviousPath, Shown, Cover!CoverStates
      <4> QED BY <1>5, <1>12, <4>1, CoverNumbers
    <3> QED BY <1>5, <1>9, <1>10, <3>1, <3>2
  <2>6. room'.at.image # Legacy BY <1>9, CoverNumbers
  <2> QED BY <1>5, <2>1, <2>2, <2>3, <2>4, <2>5, <2>6 DEF CoverInv, CoverRoom
<1> QED BY <1>13, <1>14, <1>15, <1>16, <1>17 DEF CoverInv

LEMMA CoverDeletesPrevious ==
  ASSUME CoverAssumption, CoverInv, NEW c \in Calls, Cover!DeletePrevious(c) PROVE CoverInv'
<1>1. PICK p : p = call[c].path OBVIOUS
<1>2. /\ p \in replaced /\ Cover!Ends(c)
      /\ object' = [object EXCEPT ![p] = 0] /\ open' = open \ {p}
      /\ UNCHANGED <<room, uploads, Cover!slot, Cover!ledgers, sweep, replaced>>
  BY <1>1 DEF Cover!DeletePrevious, CoverInv, CoverCall, CallShows
<1>3. p \in Cover!Paths /\ (p \in Requests => finalLedger[p] # 0)
      /\ room.at.cover.path # p /\ room.at.image # p
  BY <1>2 DEF CoverInv, CoverTyped, CoverRoom
<1>4. object'[p] = 0 /\ \A q \in Cover!Paths \ {p} : object'[q] = object[q]
  BY <1>2, <1>3 DEF CoverInv, CoverTyped
<1>5. CoverCalm
  <2>1. \A q \in Requests : finalLedger[q] = 0 => object'[q] = object[q]
    BY <1>3, <1>4 DEF Cover!Paths
  <2> QED BY <1>2, <2>1 DEF CoverCalm, Cover!slot, Cover!ledgers
<1>6. call' \in [Calls -> CoverCalls] /\ \A d \in Calls : CoverCall(call[d])'
  BY <1>2, <1>5, CoverCallEnds
<1>7. CoverTyped'
  <2>1. object' \in [Cover!Paths -> Cover!Generations]
       BY <1>2, CoverNumbers DEF CoverInv, CoverTyped
  <2> QED BY <1>2, <1>6, <2>1 DEF CoverInv, CoverTyped, Cover!slot, Cover!ledgers
<1>8. \A q \in Requests : CoverRequest(q)'
     BY <1>2 DEF CoverInv, CoverRequest, Cover!slot, Cover!ledgers
<1>9. CoverSwept' BY <1>2, <1>4 DEF CoverInv, CoverSwept, Cover!slot, Cover!Paths
<1>10. CoverRoom'
  <2>1. Shown(room.at)'
    <3>1. PICK s : s = room.at OBVIOUS
    <3>2. Shown(s)' BY <1>2, <3>1, CoverShown DEF CoverInv, CoverRoom, Cover!ledgers
    <3> QED BY <1>2, <3>1, <3>2
  <2>2. Cover!CoverHasItsObject'
    BY <1>2, <1>3, <1>4 DEF CoverInv, CoverRoom, Cover!CoverHasItsObject, Shown, Cover!slot
  <2>3. Cover!PrivateCoverIsSealed' BY <1>2 DEF Cover!slot, CoverInv, CoverRoom, Cover!PrivateCoverIsSealed
  <2>4. Cover!EveryObjectIsAccountedFor'
    BY <1>2, <1>4 DEF CoverInv, CoverRoom, Cover!EveryObjectIsAccountedFor, Cover!slot
  <2>5. object'[Legacy] = 0 \/ object'[Legacy] = object[Legacy] BY <1>4 DEF Cover!Paths
  <2>6. room.at.image = Legacy => object'[Legacy] = object[Legacy] BY <1>3, <1>4 DEF Cover!Paths
  <2> QED BY <1>2, <2>1, <2>2, <2>3, <2>4, <2>5, <2>6 DEF CoverInv, CoverRoom, Cover!ledgers
<1> QED BY <1>6, <1>7, <1>8, <1>9, <1>10 DEF CoverInv

LEMMA CoverCommits ==
  ASSUME CoverAssumption, CoverInv, NEW c \in Calls, Cover!commitExpectedHostUpdate(c)
  PROVE CoverInv'
<1>1. PICK k \in CoverCalls : k = call[c] BY DEF CoverInv, CoverTyped
<1>2. PICK s : s = room.at OBVIOUS
<1>3. /\ k.at \in {"public", "recovered"} /\ room.status = "active" /\ k.state = s
      /\ Cover!Ends(c)
      /\ UNCHANGED <<object, open, uploads, Cover!slot, Cover!ledgers, sweep, replaced>>
  BY <1>1, <1>2 DEF Cover!commitExpectedHostUpdate, Cover!sameCoverState
<1>4. CoverCall(k) BY <1>1 DEF CoverInv
<1>5. s \in Cover!CoverStates /\ Shown(s) BY <1>2 DEF CoverInv, CoverTyped, CoverRoom
<1>6. room \in [status : {"active", "barred", "deleted"}, at : Cover!CoverStates]
  BY DEF CoverInv, CoverTyped
<1>7. PICK a : a = IF k.at = "public"
                   THEN [visibility |-> "public", cover |-> s.cover, image |-> s.image]
                   ELSE [visibility |-> "private", image |-> Cover!None,
                         cover |-> [path |-> k.path, generation |-> k.generation]]
  OBVIOUS
<1>8. room' = [status |-> "active", at |-> a]
  <2>1. CASE k.at = "public"
    <3>1. room' = [room EXCEPT !.at.visibility = "public"]
      BY <1>1, <2>1 DEF Cover!commitExpectedHostUpdate
    <3>2. PICK b : b = [s EXCEPT !.visibility = "public"] OBVIOUS
    <3>3. b = [visibility |-> "public", cover |-> s.cover, image |-> s.image]
      BY <1>5, <3>2 DEF Cover!CoverStates
    <3>4. b = a BY <1>7, <2>1, <3>3
    <3>5. room' = [room EXCEPT !.at = b] BY <1>2, <1>6, <3>1, <3>2
    <3>6. room' = [room EXCEPT !.at = a] BY <3>4, <3>5
    <3> QED BY <1>3, <1>6, <3>6
  <2>2. CASE k.at = "recovered"
    <3>1. room' = [room EXCEPT !.at = [visibility |-> "private", image |-> Cover!None,
                     cover |-> [path |-> call[c].path, generation |-> call[c].generation]]]
      BY <1>1, <2>2 DEF Cover!commitExpectedHostUpdate
    <3>2. room' = [room EXCEPT !.at = a] BY <1>1, <1>7, <2>2, <3>1
    <3> QED BY <1>3, <1>6, <3>2
  <2> QED BY <1>3, <2>1, <2>2
<1>9. a \in Cover!CoverStates /\ (a.image = Legacy => s.image = Legacy)
  BY <1>5, <1>7, CoverNumbers DEF CoverCalls, Cover!CoverStates
<1>10. room' \in [status : {"active", "barred", "deleted"}, at : Cover!CoverStates]
       /\ room'.status = "active" /\ room'.at = a
  BY <1>8, <1>9
<1>11. CoverCalm BY <1>2, <1>3, <1>9, <1>10 DEF CoverCalm, Cover!slot, Cover!ledgers
<1>12. call' \in [Calls -> CoverCalls] /\ \A d \in Calls : CoverCall(call[d])'
  BY <1>3, <1>11, CoverCallEnds
<1>13. CoverTyped' BY <1>3, <1>10, <1>12 DEF CoverInv, CoverTyped, Cover!slot, Cover!ledgers
<1>14. \A q \in Requests : CoverRequest(q)'
     BY <1>3 DEF CoverInv, CoverRequest, Cover!slot, Cover!ledgers
<1>15. CoverSwept' BY <1>3 DEF CoverInv, CoverSwept, Cover!slot
\* What the room shows is what it showed, under the tuple.
<1>16. /\ a.cover.path = IF s.cover # Cover!NoCover THEN s.cover.path
                         ELSE IF s.image = Legacy
                              /\ k.at = "recovered" THEN Legacy ELSE Cover!None
       /\ a.cover # Cover!NoCover => /\ a.cover.path \in Cover!Paths /\ a.cover.generation # 0
                               /\ \/ object[a.cover.path] = a.cover.generation
                                  \/ a.cover.path \in revived
                               /\ (a.cover.path \in Requests => finalLedger[a.cover.path] # 0)
                               /\ a.image = Cover!None
       /\ a.visibility = "private" =>
            a.image = Cover!None /\ (a.cover.path \in open => a.cover.path \in revived)
  <2>1. CASE k.at = "public"
    BY <1>2, <1>3, <1>5, <1>7, <2>1, CoverNumbers
       DEF CoverInv, CoverRoom, Cover!CoverHasItsObject, Shown, Cover!Paths
  <2>2. CASE k.at = "recovered"
    <3>1. a.visibility = "private" /\ a.image = Cover!None /\ a.cover.path = k.path
          /\ a.cover.generation = k.generation
          /\ a.cover = [path |-> k.path, generation |-> k.generation]
      BY <1>7, <2>2
    <3>2. CallRecovers(k) BY <1>4 DEF CoverCall
    <3>3. CASE s.cover # Cover!NoCover
      <4>1. k.path = s.cover.path /\ k.generation = s.cover.generation /\ k.path # Cover!None
            /\ (k.path \notin open \/ k.path \in revived)
        BY <1>3, <1>5, <2>2, <3>2, <3>3, CoverNumbers DEF CallRecovers, Shown
      <4>2. object[s.cover.path] = s.cover.generation \/ s.cover.path \in revived
        BY <1>2, <1>3, <3>3 DEF CoverInv, CoverRoom, Cover!CoverHasItsObject
      <4> QED BY <1>5, <3>1, <3>3, <4>1, <4>2 DEF Shown
    <3>4. CASE s.cover = Cover!NoCover /\ s.image = Cover!None
      <4>1. k.path = Cover!None /\ k.generation = 0
        BY <1>3, <2>2, <3>2, <3>4, CoverNumbers DEF CallRecovers
      <4>2. Cover!None \notin open BY CoverNumbers DEF CoverInv, CoverTyped
      <4> QED BY <3>1, <3>4, <4>1, <4>2, CoverNumbers
    <3>5. CASE s.cover = Cover!NoCover /\ s.image = Legacy
      <4>1. k.path # Cover!None BY <1>2, <1>3, <2>2, <3>2, <3>5, CoverNumbers DEF CallRecovers
      <4>2. k.path = Legacy /\ k.generation = 1 /\ Legacy \notin open
        BY <1>3, <2>2, <3>2, <3>5, <4>1, CoverNumbers DEF CallRecovers, CoverInv, CoverTyped
      <4>3. object[Legacy] = 1 BY <1>2, <1>3, <3>5 DEF CoverInv, CoverRoom
      <4> QED BY <2>2, <3>1, <3>5, <4>2, <4>3, CoverNumbers DEF Cover!Paths
    <3> QED BY <1>5, <3>3, <3>4, <3>5 DEF Cover!CoverStates
  <2> QED BY <1>3, <2>1, <2>2
<1>17. CoverRoom'
  <2>1. Shown(room.at)' BY <1>3, <1>10, <1>16 DEF Shown, Cover!ledgers
  <2>2. \A q \in replaced' : /\ room'.at.cover.path # q /\ room'.at.image # q
                             /\ q \in Requests => finalLedger'[q] # 0
    <3>1. ASSUME NEW q \in replaced PROVE a.cover.path # q /\ a.image # q
      <4>1. s.cover.path # q /\ s.image # q /\ q # Cover!None
        BY <1>2, CoverNumbers DEF CoverInv, CoverRoom, CoverTyped
      <4> QED BY <1>5, <1>9, <1>16, <4>1 DEF Cover!CoverStates
    <3> QED BY <1>3, <1>10, <3>1 DEF CoverInv, CoverRoom, Cover!ledgers
  <2>3. Cover!CoverHasItsObject' BY <1>3, <1>10, <1>16 DEF Cover!CoverHasItsObject, Cover!slot
  <2>4. Cover!PrivateCoverIsSealed'
    BY <1>3, <1>10, <1>16 DEF Cover!PrivateCoverIsSealed, Cover!slot
  <2>5. Cover!EveryObjectIsAccountedFor'
    <3>1. ASSUME NEW q \in Cover!Paths, s.cover.path = q \/ s.image = q
          PROVE  a.cover.path = q \/ a.image = q
      BY <1>3, <1>5, <1>7, <1>16, <3>1, CoverNumbers DEF Shown, Cover!CoverStates
    <3> QED BY <1>2, <1>3, <1>10, <3>1 DEF CoverInv, CoverRoom, Cover!EveryObjectIsAccountedFor,
            Cover!slot
  <2> QED BY <1>2, <1>3, <1>9, <1>10, <2>1, <2>2, <2>3, <2>4, <2>5 DEF CoverInv, CoverRoom
<1> QED BY <1>12, <1>13, <1>14, <1>15, <1>17 DEF CoverInv

LEMMA CoverSweepMoves ==
  ASSUME CoverAssumption, CoverInv,
         (\E r \in Requests : Cover!QueryExpired(r)) \/ Cover!SweepStops
  PROVE  CoverInv'
<1>1. UNCHANGED <<room, object, open, uploads, Cover!slot, Cover!ledgers, call, replaced>>
  BY DEF Cover!QueryExpired, Cover!SweepStops
<1>2. sweep' = Cover!IdleSweep \/ \E r \in Requests : sweep' = [at |-> "queried", request |-> r]
  BY DEF Cover!QueryExpired, Cover!SweepStops
<1>3. sweep' \in [at : {"idle", "queried"}, request : Requests \cup {Cover!None}]
      /\ (sweep'.at # "idle" => sweep'.request \in Requests)
  BY <1>2, CoverNumbers
<1>4. CoverCalm BY <1>1 DEF CoverCalm, Cover!slot, Cover!ledgers
<1>5. call' \in [Calls -> CoverCalls] /\ \A d \in Calls : CoverCall(call[d])'
  BY <1>1, <1>4, CoverCallsRest
<1>6. CoverTyped' BY <1>1, <1>3, <1>5 DEF CoverInv, CoverTyped, Cover!slot, Cover!ledgers
<1>7. \A q \in Requests : CoverRequest(q)'
     BY <1>1 DEF CoverInv, CoverRequest, Cover!slot, Cover!ledgers
<1>8. CoverSwept' BY <1>3 DEF CoverSwept
<1> QED BY <1>1, <1>4, <1>5, <1>6, <1>7, <1>8, CoverBesides DEF Cover!slot

LEMMA CoverClaimsExpired ==
  ASSUME CoverAssumption, CoverInv, Cover!ClaimExpired PROVE CoverInv'
<1>1. PICK r : r = sweep.request OBVIOUS
<1>2. r \in Requests /\ sweep.at = "queried"
      /\ UNCHANGED <<room, object, open, uploads, lease, lapsed, reserved, Cover!ledgers, call,
                     replaced, revived>>
  BY <1>1 DEF Cover!ClaimExpired, CoverInv, CoverSwept
<1>3. CASE reservation[r] = "none"
  <2>1. sweep' = Cover!IdleSweep /\ UNCHANGED reservation BY <1>1, <1>3 DEF Cover!ClaimExpired
  <2>2. CoverCalm BY <1>2, <2>1 DEF CoverCalm, Cover!ledgers
  <2>3. call' \in [Calls -> CoverCalls] /\ \A d \in Calls : CoverCall(call[d])'
    BY <1>2, <2>2, CoverCallsRest
  <2>4. CoverTyped' BY <1>2, <2>1, <2>3, CoverNumbers DEF CoverInv, CoverTyped, Cover!ledgers
  <2>5. \A q \in Requests : CoverRequest(q)'
       BY <1>2, <2>1 DEF CoverInv, CoverRequest, Cover!ledgers
  <2>6. CoverSwept' BY <2>1, CoverNumbers DEF CoverSwept
  <2> QED BY <1>2, <2>1, <2>2, <2>3, <2>4, <2>5, <2>6, CoverBesides
<1>4. CASE reservation[r] # "none"
  <2>1. reservation' = [reservation EXCEPT ![r] = "expiring"]
        /\ sweep' = [sweep EXCEPT !.at = "claimed"]
    BY <1>1, <1>4 DEF Cover!ClaimExpired
  <2>2. reservation'[r] = "expiring"
        /\ \A q \in Requests \ {r} : reservation'[q] = reservation[q]
    BY <1>2, <2>1 DEF CoverInv, CoverTyped
  <2>3. sweep' = [at |-> "claimed", request |-> r] BY <1>1, <2>1 DEF CoverInv, CoverTyped
  <2>4. CoverCalm BY <1>2, <2>2 DEF CoverCalm, Cover!ledgers
  <2>5. call' \in [Calls -> CoverCalls] /\ \A d \in Calls : CoverCall(call[d])'
    BY <1>2, <2>4, CoverCallsRest
  <2>6. CoverTyped'
    <3>1. reservation' \in [Requests -> {"none", "uploading", "expiring"}]
      BY <2>1 DEF CoverInv, CoverTyped
    <3>2. sweep' \in [at : {"idle", "queried", "claimed", "deleted"},
                      request : Requests \cup {Cover!None}]
      BY <1>2, <2>3
    <3> QED BY <1>2, <2>5, <3>1, <3>2 DEF CoverInv, CoverTyped, Cover!ledgers
  <2>7. ASSUME NEW q \in Requests PROVE CoverRequest(q)'
    <3>1. CoverRequest(q) BY DEF CoverInv
    <3> QED BY <1>2, <1>4, <2>2, <3>1 DEF CoverRequest, Cover!ledgers
  <2>8. CoverSwept' BY <1>2, <2>2, <2>3 DEF CoverSwept
  <2>9. \A q \in Requests : reservation[q] # "none" => reservation'[q] # "none" BY <2>2
  <2> QED BY <1>2, <2>4, <2>5, <2>6, <2>7, <2>8, <2>9, CoverBesides
<1> QED BY <1>3, <1>4

LEMMA CoverDeletesExpired ==
  ASSUME CoverAssumption, CoverInv, Cover!DeleteExpired PROVE CoverInv'
<1>1. PICK r : r = sweep.request OBVIOUS
<1>2. /\ r \in Requests /\ reservation[r] = "expiring"
      /\ object' = [object EXCEPT ![r] = 0] /\ open' = open \ {r}
      /\ sweep' = [sweep EXCEPT !.at = "deleted"]
      /\ UNCHANGED <<room, uploads, Cover!slot, Cover!ledgers, call, replaced>>
  BY <1>1 DEF Cover!DeleteExpired, CoverInv, CoverSwept
<1>3. finalLedger[r] = 0 \/ r \in revived BY <1>2 DEF CoverInv, CoverRequest
<1>4. r \in Cover!Paths /\ r # Legacy BY <1>2, CoverNumbers DEF Cover!Paths
<1>5. object'[r] = 0 /\ \A q \in Cover!Paths \ {r} : object'[q] = object[q]
  BY <1>2, <1>4 DEF CoverInv, CoverTyped
<1>6. sweep' = [at |-> "deleted", request |-> r] BY <1>1, <1>2 DEF CoverInv, CoverTyped
<1>7. CoverCalm
  <2>1. \A q \in Requests : reservation[q] = "uploading" => object'[q] = object[q]
    BY <1>2, <1>5 DEF Cover!Paths
  <2> QED BY <1>2, <2>1 DEF CoverCalm, Cover!slot, Cover!ledgers
<1>8. call' \in [Calls -> CoverCalls] /\ \A d \in Calls : CoverCall(call[d])'
  BY <1>2, <1>7, CoverCallsRest
<1>9. CoverTyped'
  <2>1. object' \in [Cover!Paths -> Cover!Generations]
       BY <1>2, CoverNumbers DEF CoverInv, CoverTyped
  <2>2. sweep' \in [at : {"idle", "queried", "claimed", "deleted"},
                    request : Requests \cup {Cover!None}]
    <3>1. r \in Requests BY <1>2
    <3> QED BY <1>6, <3>1
  <2> QED BY <1>2, <1>8, <2>1, <2>2 DEF CoverInv, CoverTyped, Cover!slot, Cover!ledgers
<1>10. \A q \in Requests : CoverRequest(q)'
     BY <1>2 DEF CoverInv, CoverRequest, Cover!slot, Cover!ledgers
<1>11. CoverSwept' BY <1>2, <1>5, <1>6 DEF CoverSwept, Cover!slot
<1>12. CoverRoom'
  <2>1. Shown(room.at)'
    <3>1. PICK s : s = room.at OBVIOUS
    <3>2. Shown(s)' BY <1>2, <3>1, CoverShown DEF CoverInv, CoverRoom, Cover!ledgers
    <3> QED BY <1>2, <3>1, <3>2
  <2>2. room.at.cover.path # r \/ r \in revived
    BY <1>2, <1>3, CoverNumbers DEF CoverInv, CoverRoom, Shown, Cover!Paths
  <2>3. Cover!CoverHasItsObject'
    BY <1>2, <1>5, <2>2 DEF CoverInv, CoverRoom, Cover!CoverHasItsObject, Shown, Cover!slot
  <2>4. Cover!PrivateCoverIsSealed' BY <1>2 DEF Cover!slot, CoverInv, CoverRoom, Cover!PrivateCoverIsSealed
  <2>5. Cover!EveryObjectIsAccountedFor'
    BY <1>2, <1>5 DEF CoverInv, CoverRoom, Cover!EveryObjectIsAccountedFor, Cover!slot
  <2>6. object'[Legacy] = object[Legacy] BY <1>4, <1>5 DEF Cover!Paths
  <2> QED BY <1>2, <2>1, <2>3, <2>4, <2>5, <2>6 DEF CoverInv, CoverRoom, Cover!ledgers
<1> QED BY <1>8, <1>9, <1>10, <1>11, <1>12 DEF CoverInv

LEMMA CoverReleasesExpired ==
  ASSUME CoverAssumption, CoverInv, Cover!ReleaseExpired PROVE CoverInv'
<1>1. PICK r : r = sweep.request OBVIOUS
<1>2. /\ r \in Requests /\ reservation[r] = "expiring" /\ object[r] = 0
      /\ reservation' = [reservation EXCEPT ![r] = "none"]
      /\ lease' = IF lease = r THEN Cover!None ELSE lease
      /\ sweep' = Cover!IdleSweep
      /\ UNCHANGED <<room, object, open, uploads, lapsed, reserved, Cover!ledgers, call,
                     replaced, revived>>
  BY <1>1 DEF Cover!ReleaseExpired, Cover!FreedLease, CoverInv, CoverSwept
<1>3. reservation'[r] = "none" /\ \A q \in Requests \ {r} : reservation'[q] = reservation[q]
  BY <1>2 DEF CoverInv, CoverTyped
<1>4. CoverCalm BY <1>2, <1>3 DEF CoverCalm, Cover!ledgers
<1>5. call' \in [Calls -> CoverCalls] /\ \A d \in Calls : CoverCall(call[d])'
  BY <1>2, <1>4, CoverCallsRest
<1>6. CoverTyped'
  <2>1. reservation' \in [Requests -> {"none", "uploading", "expiring"}]
    BY <1>2 DEF CoverInv, CoverTyped
  <2> QED BY <1>2, <1>5, <2>1, CoverNumbers DEF CoverInv, CoverTyped, Cover!ledgers
<1>7. ASSUME NEW q \in Requests PROVE CoverRequest(q)'
  <2>1. CoverRequest(q) BY DEF CoverInv
  <2> QED BY <1>2, <1>3, <2>1 DEF CoverRequest, Cover!ledgers
<1>8. CoverSwept' BY <1>2, CoverNumbers DEF CoverSwept
<1>9. \A q \in Requests : reservation[q] # "none" /\ object[q] # 0 => reservation'[q] # "none"
  BY <1>2, <1>3
<1> QED BY <1>2, <1>4, <1>5, <1>6, <1>7, <1>8, <1>9, CoverBesides

LEMMA CoverRoomLeaves ==
  ASSUME CoverAssumption, CoverInv, Cover!Restrict \/ Cover!DeleteRoom PROVE CoverInv'
<1>1. PICK st \in {"active", "barred", "deleted"} :
        /\ room' = [room EXCEPT !.status = st]
        /\ UNCHANGED <<uploads, Cover!slot, Cover!ledgers, call, sweep, replaced>>
        /\ \/ UNCHANGED <<object, open>> /\ room.status # "deleted"
           \/ st = "deleted" /\ object' = [p \in Cover!Paths |-> 0] /\ open' = {}
  <2>1. CASE Cover!Restrict
    <3>1. PICK st \in {"active", "barred"} : room' = [room EXCEPT !.status = st]
      BY <2>1 DEF Cover!Restrict, CoverInv, CoverTyped
    <3> QED BY <2>1, <3>1 DEF Cover!Restrict
  <2>2. CASE Cover!DeleteRoom BY <2>2 DEF Cover!DeleteRoom
  <2> QED BY <2>1, <2>2
<1>2. room' = [status |-> st, at |-> room.at] BY <1>1 DEF CoverInv, CoverTyped
<1>3. object' \in [Cover!Paths -> Cover!Generations] /\ open' \subseteq open
      /\ \A p \in Cover!Paths : object'[p] = 0 \/ (object'[p] = object[p] /\ UNCHANGED object)
  BY <1>1, CoverNumbers DEF CoverInv, CoverTyped
<1>4. CoverCalm
  <2>1. room.status = "deleted" => st = "deleted" BY <1>1
  <2>2. st = "deleted" \/ UNCHANGED <<object, open>> BY <1>1
  <2> QED BY <1>1, <1>2, <1>3, <2>1, <2>2 DEF CoverCalm, Cover!slot, Cover!ledgers
<1>5. call' \in [Calls -> CoverCalls] /\ \A d \in Calls : CoverCall(call[d])'
  BY <1>1, <1>4, CoverCallsRest
<1>6. CoverTyped' BY <1>1, <1>2, <1>3, <1>5 DEF CoverInv, CoverTyped, Cover!slot, Cover!ledgers
<1>7. \A q \in Requests : CoverRequest(q)'
     BY <1>1 DEF CoverInv, CoverRequest, Cover!slot, Cover!ledgers
<1>8. CoverSwept' BY <1>1, <1>3 DEF CoverInv, CoverSwept, Cover!slot, Cover!Paths
<1>9. CoverRoom'
  <2>1. Shown(room.at)'
    <3>1. PICK s : s = room.at OBVIOUS
    <3>2. Shown(s)' BY <1>1, <3>1, CoverShown DEF CoverInv, CoverRoom, Cover!ledgers
    <3> QED BY <1>2, <3>1, <3>2
  <2>2. Cover!CoverHasItsObject'
    BY <1>1, <1>2 DEF CoverInv, CoverRoom, Cover!CoverHasItsObject, Cover!slot
  <2>3. Cover!PrivateCoverIsSealed'
    BY <1>1, <1>2, <1>3 DEF CoverInv, CoverRoom, Cover!PrivateCoverIsSealed, Cover!slot
  <2>4. Cover!EveryObjectIsAccountedFor'
    BY <1>1, <1>2, <1>3 DEF CoverInv, CoverRoom, Cover!EveryObjectIsAccountedFor, Cover!slot
  <2>5. object'[Legacy] \in {0, 1} BY <1>3 DEF CoverInv, CoverRoom, Cover!Paths
  <2>6. st # "deleted" => UNCHANGED object /\ room.status # "deleted" BY <1>1
  <2> QED BY <1>1, <1>2, <2>1, <2>2, <2>3, <2>4, <2>5, <2>6 DEF CoverInv, CoverRoom, Cover!ledgers
<1> QED BY <1>5, <1>6, <1>7, <1>8, <1>9 DEF CoverInv

LEMMA CoverStutters == ASSUME CoverInv, UNCHANGED Cover!vars PROVE CoverInv'
<1>1. CoverTyped' /\ CoverSwept' /\ \A r \in Requests : CoverRequest(r)'
  BY DEF CoverInv, CoverTyped, CoverSwept, CoverRequest, Cover!vars
<1>2. CoverRoom'
  BY DEF CoverInv, CoverRoom, Shown, Cover!CoverHasItsObject, Cover!PrivateCoverIsSealed,
         Cover!EveryObjectIsAccountedFor, Cover!vars
<1>3. \A c \in Calls : CoverCall(call[c])'
  BY DEF CoverInv, CoverCall, CallFinalizes, CallShows, CallRecovers, Shown, Cover!vars
<1> QED BY <1>1, <1>2, <1>3 DEF CoverInv

LEMMA CoverInit == ASSUME CoverAssumption, Cover!Init PROVE CoverInv
<1>1. PICK img \in {Legacy, Cover!None} :
        room = [status |-> "active",
                at |-> [visibility |-> "public", cover |-> Cover!NoCover, image |-> img]]
  BY DEF Cover!Init
<1>2. room.status = "active" /\ room.at.cover = Cover!NoCover /\ room.at.image = img
      /\ room.at.visibility = "public"
      /\ room \in [status : {"active", "barred", "deleted"}, at : Cover!CoverStates]
  BY <1>1, CoverNumbers DEF Cover!CoverStates
<1>3. object = [p \in Cover!Paths |-> IF p = Legacy /\ img = Legacy THEN 1 ELSE 0]
  BY <1>2 DEF Cover!Init
<1>4. object \in [Cover!Paths -> Cover!Generations]
          /\ (object[Legacy] = IF img = Legacy THEN 1 ELSE 0)
      /\ \A r \in Requests : object[r] = 0
  BY <1>3, CoverNumbers DEF Cover!Paths
<1>5. CoverTyped
  <2>1. open \subseteq Cover!Paths /\ uploads \in 1 .. (Budget + 1) /\ reserved \in 0 .. Budget
    BY CoverNumbers DEF Cover!Init
  <2>2. call \in [Calls -> CoverCalls] BY CoverNumbers DEF Cover!Init
  <2>3. finalLedger \in [Requests -> Cover!Generations]
            /\ finalPreflight \in [Requests -> Cover!Generations]
    BY CoverNumbers DEF Cover!Init
  <2> QED BY <1>2, <1>4, <2>1, <2>2, <2>3, CoverNumbers DEF Cover!Init, CoverTyped
<1>6. CoverRoom
  <2>1. Cover!EveryObjectIsAccountedFor BY <1>2, <1>3 DEF Cover!EveryObjectIsAccountedFor
  <2>2. Cover!CoverHasItsObject /\ Cover!PrivateCoverIsSealed /\ Shown(room.at)
    BY <1>2 DEF Cover!CoverHasItsObject, Cover!PrivateCoverIsSealed, Shown
  <2> QED BY <1>2, <1>4, <2>1, <2>2 DEF CoverRoom, Cover!Init
<1>7. CoverSwept /\ \A r \in Requests : CoverRequest(r)
  BY CoverNumbers DEF Cover!Init, CoverSwept, CoverRequest
<1>8. \A c \in Calls : CoverCall(call[c]) BY CoverIdle DEF Cover!Init
<1> QED BY <1>5, <1>6, <1>7, <1>8 DEF CoverInv

LEMMA CoverStep == ASSUME CoverAssumption, CoverInv, [Cover!Next]_Cover!vars PROVE CoverInv'
<1>1. ASSUME NEW c \in Calls, Cover!HostActs(c) PROVE CoverInv'
  BY <1>1, CoverBeginsReserve, CoverBeginsFinalize, CoverReserves, CoverReservesAgain,
     CoverValidates, CoverFinalizes, CoverDeletesPrevious, CoverReads, CoverRecovers,
     CoverCommits
     DEF Cover!HostActs
<1>2. ASSUME NEW c \in Calls, Cover!GuestActs(c) \/ Cover!Fails(c) PROVE CoverInv'
  BY <1>2, CoverReads, CoverSigns, CoverFails DEF Cover!GuestActs
<1>3. CASE Cover!SweepStep
  BY <1>3, CoverSweepMoves, CoverClaimsExpired, CoverDeletesExpired, CoverReleasesExpired
     DEF Cover!SweepStep
<1> QED
  BY <1>1, <1>2, <1>3, CoverSweepMoves, CoverUploads, CoverLapses, CoverRoomLeaves,
     CoverStutters
     DEF Cover!Next

(* The strengthening is an invariant of the host's calls, the readers, the sweep of
   expired reservations and the deletion of the room. *)
THEOREM CoverInvariant == ASSUME CoverAssumption PROVE Cover!Spec => []CoverInv
<1>1. Cover!Init => CoverInv BY CoverInit
<1>2. CoverInv /\ [Cover!Next]_Cover!vars => CoverInv' BY CoverStep
<1> QED BY <1>1, <1>2, PTL DEF Cover!Spec

LEMMA CoverTypesAreTypeOK == ASSUME CoverAssumption, CoverInv PROVE Cover!TypeOK
<1>1. \A c \in Calls :
        /\ call[c].at \in {"idle", "reserve", "finalize", "checked", "previous", "public",
                           "private", "recovered", "grant", "signed"}
        /\ call[c].state \in Cover!CoverStates \cup {Cover!Unread}
  BY DEF CoverInv, CoverTyped, CoverCalls
<1>2. uploads \in Cover!Generations BY CoverNumbers DEF CoverInv, CoverTyped, Cover!Generations
<1> QED BY <1>1, <1>2 DEF CoverInv, CoverTyped, Cover!TypeOK

(* The room, its objects, the reservations and receipts and the calls under way keep
   their types. *)
THEOREM CoverTypeCorrect == ASSUME CoverAssumption PROVE Cover!Spec => []Cover!TypeOK
<1>1. CoverInv => Cover!TypeOK BY CoverTypesAreTypeOK
<1> QED BY <1>1, CoverInvariant, PTL

(* The cover a room shows is in Storage in the generation it names and a private room's
   cover answers to no download URL, both unless its request was revived, that is reserved
   again by a late copy after its finalize began; and every object is known to some
   document.  For any requests and calls, copies included, and however these interleave,
   fail and resume. *)
THEOREM CoversStaySound ==
  ASSUME CoverAssumption
  PROVE  Cover!Spec => [](Cover!CoverHasItsObject /\ Cover!PrivateCoverIsSealed
                          /\ Cover!EveryObjectIsAccountedFor)
<1>1. CoverInv => Cover!CoverHasItsObject /\ Cover!PrivateCoverIsSealed
          /\ Cover!EveryObjectIsAccountedFor
  BY DEF CoverInv, CoverRoom
<1> QED BY <1>1, CoverInvariant, PTL

(* Of all the host's reservations only one ever admits bytes at a time. *)
THEOREM CoversUploadOneAtATime ==
  ASSUME CoverAssumption PROVE Cover!Spec => []Cover!OneUploadAtATime
<1>1. ASSUME CoverInv PROVE Cover!OneUploadAtATime
  <2>1. PICK S : S = {r \in Requests : reservation[r] = "uploading" /\ r \notin lapsed}
    OBVIOUS
  <2>2. \A q, r \in S : q = r BY <1>1, <2>1 DEF CoverInv, CoverRequest
  <2>3. Cardinality(S) <= 1
    <3>1. CASE S = {} BY <3>1, FS_EmptySet
    <3>2. CASE S # {}
      <4>1. PICK r \in S : TRUE BY <3>2
      <4>2. S = {r} BY <2>2, <4>1
      <4>3. Cardinality({r}) = 1 BY FS_Singleton
      <4> QED BY <4>2, <4>3
    <3> QED BY <3>1, <3>2
  <2> QED BY <2>1, <2>3 DEF Cover!OneUploadAtATime, Cover!Cardinality, Cardinality
<1> QED BY <1>1, CoverInvariant, PTL

(* The URL that is handed out is for the object of the public room that is still there
   at that moment, unless the cover's request was revived. *)
THEOREM GrantsShowTheCover == ASSUME CoverAssumption PROVE Cover!Spec => Cover!GrantShowsTheCover
<1>1. ASSUME CoverInv, NEW c \in Calls, call[c].at = "signed", Cover!getRoomCoverMediaAccess(c)
      PROVE  /\ room.at.visibility = "public"
             /\ \/ object[call[c].state.cover.path] = call[c].state.cover.generation
                \/ call[c].state.cover.path \in revived
  BY <1>1
     DEF Cover!getRoomCoverMediaAccess, Cover!AuthorizedAgain, CoverInv, CoverRoom,
         Cover!CoverHasItsObject, CoverCall, CallShows
<1>2. CoverInv => [Cover!CoverIsShown]_Cover!vars BY <1>1 DEF Cover!CoverIsShown
<1> QED BY <1>2, CoverInvariant, PTL DEF Cover!GrantShowsTheCover

------------------------
(***************************************************************************)
(* The deletion of a server and of its channels (ServerRemoval), for any   *)
(* channels, people, records and workers.  A page deletes objects outside  *)
(* any transaction and possibly without its lease.  What is inductive is   *)
(* that a marked channel has no writer left (Fated), so that what a page   *)
(* found stays true until it reports (RemovalWorker); that a document      *)
(* stands for everything outside Firestore (RemovalKnown); that the two    *)
(* kinds of jobs split the channels between them (RemovalJobs); and that   *)
(* a job waits for each generation that its command found (RemovalMedia).  *)
(***************************************************************************)
CONSTANTS Users, First, Channels, Root, Studios, Shelves, Cleaners, MaxRecords, MaxTransfers,
          None
VARIABLES root, channel, content, stored, remote, job, cleaner, transfers
Removal == INSTANCE ServerRemoval WITH Workers <- Cleaners, worker <- cleaner

\* No member, manager or staff command reaches the channel any more.
Fated(c) == root.deleting \/ channel[c].status \in {"deleting", "gone"}

\* A document stands for what its channel has outside Firestore.
RemovalKnown(c) ==
  /\ remote[c] => content[c].rec \in {"starting", "recording", "stopping"}
  /\ "episode" \in stored[c] => content[c].rec = "ready"
  /\ "file" \in stored[c] => content[c].file # "none"

\* Which channel a job works on.
RemovalJobs ==
  /\ \A c \in Channels : job[c].status = "pending" =>
       channel[c].status = "deleting" /\ job[c].at = c
  /\ job[Root].status = "pending" => root.deleting
  /\ job[Root].at # None =>
       root.deleting /\ channel[job[Root].at].status \in {"active", "archived"}

\* A media generation is over, or its end is staged and its job waits for it.
Over(j, c) ==
  channel[c].media = "none" \/ (channel[c].media = "ending" /\ c \in job[j].targets)
RemovalMedia(c) ==
  /\ job[c].status = "pending" => Over(c, c)
  /\ root.deleting => Over(Root, c)

\* What a page that waits for Storage may rely on, with its lease or without.
RemovalWorker(w) ==
  cleaner[w].job # None =>
    /\ cleaner[w].at \in Channels /\ Fated(cleaner[w].at)
    /\ cleaner[w].task \in {"episode", "file"}
    /\ cleaner[w].task = "episode" => content[cleaner[w].at].rec \in {"ready", "none"}
    /\ cleaner[w].task = "file" =>
         content[cleaner[w].at].file \in {"none", "expiring", "deleting"}
    /\ cleaner[w].deleted => cleaner[w].task \notin stored[cleaner[w].at]

RemovalGone(c) ==
  channel[c].status = "gone" => Removal!Leftover(c) = "none" /\ stored[c] = {} /\ ~remote[c]

RemovalInv ==
  /\ Removal!TypeOK /\ RemovalJobs
  /\ \A c \in Channels : RemovalKnown(c) /\ RemovalMedia(c) /\ RemovalGone(c)
  /\ \A w \in Cleaners : RemovalWorker(w)
  /\ ~root.exists => Removal!AllGone /\ root.records = 0

\* At first every channel is open and holds nothing.
LEMMA RemovalInit == ASSUME Removal!RemovalConstantsAssumption, Removal!Init PROVE RemovalInv
<1> USE DEF Removal!RemovalConstantsAssumption, Removal!Init
<1>1. Removal!TypeOK
  BY DEF Removal!TypeOK, Removal!NoJob, Removal!Idle, Removal!Statuses, Removal!Recordings,
         Removal!Files, Removal!Phases, Removal!Jobs
<1>2. RemovalJobs
  BY DEF RemovalJobs, Removal!NoJob, Removal!Jobs
<1>3. \A c \in Channels : RemovalKnown(c) /\ RemovalMedia(c) /\ RemovalGone(c)
  BY DEF RemovalKnown, RemovalMedia, RemovalGone, Removal!NoJob, Removal!Jobs
<1>4. \A w \in Cleaners : RemovalWorker(w)
  BY DEF RemovalWorker, Removal!Idle
<1> QED BY <1>1, <1>2, <1>3, <1>4 DEF RemovalInv

\* The types of one channel's contents, and below of its standing, of a job and of a page
\* that waits.
Held == [records : 0 .. MaxRecords, rec : Removal!Recordings, file : Removal!Files,
         sessions : BOOLEAN, room : BOOLEAN]

\* A step on the contents of one channel that stands: its document knows what there is
\* outside, and what a waiting page relies on is kept.
LEMMA RemovalContents ==
  ASSUME Removal!RemovalConstantsAssumption, RemovalInv, NEW c \in Channels,
         channel[c].status # "gone",
         UNCHANGED <<root, channel, job, cleaner, transfers>>,
         NEW x \in Held, NEW s \in SUBSET {"episode", "file"}, NEW r \in BOOLEAN,
         content' = [content EXCEPT ![c] = x], stored' = [stored EXCEPT ![c] = s],
         remote' = [remote EXCEPT ![c] = r],
         r => x.rec \in {"starting", "recording", "stopping"},
         "episode" \in s => x.rec = "ready", "file" \in s => x.file # "none",
         Fated(c) /\ content[c].rec \in {"ready", "none"} =>
           x.rec \in {"ready", "none"} /\ ("episode" \in s => "episode" \in stored[c]),
         Fated(c) /\ content[c].file \in {"none", "expiring", "deleting"} =>
           /\ x.file \in {"none", "expiring", "deleting"}
           /\ "file" \in s => "file" \in stored[c]
  PROVE  RemovalInv'
<1>1. /\ content \in [Channels -> Held] /\ stored \in [Channels -> SUBSET {"episode", "file"}]
      /\ remote \in [Channels -> BOOLEAN]
  BY DEF RemovalInv, Removal!TypeOK, Held
<1>2. /\ content'[c] = x /\ stored'[c] = s /\ remote'[c] = r
      /\ \A d \in Channels \ {c} :
           content'[d] = content[d] /\ stored'[d] = stored[d] /\ remote'[d] = remote[d]
  BY <1>1
<1>3. Removal!TypeOK'
  <2>1. /\ content' \in [Channels -> Held]
        /\ stored' \in [Channels -> SUBSET {"episode", "file"}]
        /\ remote' \in [Channels -> BOOLEAN]
    BY <1>1
  <2> QED BY <2>1 DEF RemovalInv, Removal!TypeOK, Held
<1>4. RemovalJobs' BY DEF RemovalInv, RemovalJobs
<1>5. ASSUME NEW d \in Channels PROVE (RemovalKnown(d) /\ RemovalMedia(d) /\ RemovalGone(d))'
  <2>1. RemovalMedia(d)' BY DEF RemovalInv, RemovalMedia, Over
  <2>2. CASE d = c BY <2>1, <2>2, <1>2 DEF RemovalKnown, RemovalGone
  <2>3. CASE d # c
    <3>1. content'[d] = content[d] /\ stored'[d] = stored[d] /\ remote'[d] = remote[d]
      BY <1>2, <2>3
    <3> QED BY <2>1, <3>1 DEF RemovalInv, RemovalKnown, RemovalGone, Removal!Leftover
  <2> QED BY <2>2, <2>3
<1>6. ASSUME NEW w \in Cleaners PROVE RemovalWorker(w)'
  <2>1. RemovalWorker(w) BY DEF RemovalInv
  <2>2. CASE cleaner[w].job # None /\ cleaner[w].at = c
    BY <2>1, <2>2, <1>2 DEF RemovalWorker, Fated
  <2>3. CASE cleaner[w].job # None /\ cleaner[w].at # c
    BY <2>1, <2>3, <1>2 DEF RemovalWorker, Fated
  <2>4. CASE cleaner[w].job = None
    BY <2>4 DEF RemovalWorker
  <2> QED BY <2>2, <2>3, <2>4
<1>7. (~root.exists => Removal!AllGone /\ root.records = 0)' BY DEF RemovalInv, Removal!AllGone
<1> QED BY <1>3, <1>4, <1>5, <1>6, <1>7 DEF RemovalInv

\* What members post, and what the workers of files and recordings do.
LEMMA RemovalMembers ==
  ASSUME Removal!RemovalConstantsAssumption, RemovalInv, NEW c \in Channels,
         \/ Removal!Post(c) \/ Removal!Reserve(c) \/ Removal!Upload(c) \/ Removal!Finalize(c)
              \/ Removal!DeleteFile(c) \/ Removal!FileSwept(c)
         \/ Removal!Record(c) \/ Removal!EgressStarts(c) \/ Removal!EgressKnown(c)
              \/ Removal!EgressStops(c)
  PROVE  RemovalInv'
<1>1. /\ content \in [Channels -> Held] /\ stored \in [Channels -> SUBSET {"episode", "file"}]
      /\ remote \in [Channels -> BOOLEAN] /\ MaxRecords \in Nat
  BY DEF RemovalInv, Removal!TypeOK, Held, Removal!RemovalConstantsAssumption
<1>2. content[c] \in Held /\ stored[c] \in SUBSET {"episode", "file"} /\ remote[c] \in BOOLEAN
  BY <1>1
<1>3. RemovalKnown(c) /\ RemovalGone(c) BY DEF RemovalInv
<1>4. /\ content' = [content EXCEPT ![c] = content'[c]]
      /\ stored' = [stored EXCEPT ![c] = stored'[c]]
      /\ remote' = [remote EXCEPT ![c] = remote'[c]]
  BY <1>1
     DEF Removal!Post, Removal!Reserve, Removal!Upload, Removal!Finalize, Removal!DeleteFile,
         Removal!FileSwept, Removal!Record, Removal!EgressStarts, Removal!EgressKnown,
         Removal!EgressStops
<1>5. UNCHANGED <<root, channel, job, cleaner, transfers>>
  BY DEF Removal!Post, Removal!Reserve, Removal!Upload, Removal!Finalize, Removal!DeleteFile,
         Removal!FileSwept, Removal!Record, Removal!EgressStarts, Removal!EgressKnown,
         Removal!EgressStops
<1>6. channel[c].status # "gone"
  BY <1>3
     DEF RemovalGone, Removal!Leftover, Removal!Open, Removal!Post, Removal!Reserve,
         Removal!Upload, Removal!Finalize, Removal!DeleteFile, Removal!FileSwept,
         Removal!Record, Removal!EgressStarts, Removal!EgressKnown, Removal!EgressStops
<1>7. Removal!Open(c) => ~Fated(c)
  BY DEF Removal!Open, Removal!canonicalServer, Fated
<1> DEFINE Step(x, s, r) ==
      /\ x \in Held /\ s \in SUBSET {"episode", "file"} /\ r \in BOOLEAN
      /\ r => x.rec \in {"starting", "recording", "stopping"}
      /\ "episode" \in s => x.rec = "ready"
      /\ "file" \in s => x.file # "none"
      /\ Fated(c) /\ content[c].rec \in {"ready", "none"} =>
           x.rec \in {"ready", "none"} /\ ("episode" \in s => "episode" \in stored[c])
      /\ Fated(c) /\ content[c].file \in {"none", "expiring", "deleting"} =>
           /\ x.file \in {"none", "expiring", "deleting"}
           /\ "file" \in s => "file" \in stored[c]
<1>8. Step(content'[c], stored'[c], remote'[c])
  <2>1. CASE Removal!Post(c)
    <3>1. /\ content'[c] = [content[c] EXCEPT !.records = @ + 1]
          /\ content[c].records < MaxRecords
          /\ stored' = stored /\ remote' = remote
      BY <2>1, <1>1 DEF Removal!Post
    <3>2. content'[c] \in Held BY <3>1, <1>1, <1>2 DEF Held
    <3> QED BY <3>1, <3>2, <1>2, <1>3 DEF RemovalKnown, Held
  <2>2. CASE Removal!Reserve(c)
    <3>1. /\ content'[c] = [content[c] EXCEPT !.file = "reserved"] /\ ~Fated(c)
          /\ stored' = stored /\ remote' = remote
      BY <2>2, <1>1, <1>7 DEF Removal!Reserve
    <3>2. content'[c] \in Held BY <3>1, <1>1, <1>2 DEF Held, Removal!Files
    <3> QED BY <3>1, <3>2, <1>2, <1>3 DEF RemovalKnown, Held
  <2>3. CASE Removal!Upload(c)
    BY <2>3, <1>1, <1>2, <1>3 DEF Removal!Upload, RemovalKnown
  <2>4. CASE Removal!Finalize(c)
    <3>1. /\ content'[c] = [content[c] EXCEPT !.file = "ready"] /\ ~Fated(c)
          /\ stored' = stored /\ remote' = remote
      BY <2>4, <1>1, <1>7 DEF Removal!Finalize
    <3>2. content'[c] \in Held BY <3>1, <1>1, <1>2 DEF Held, Removal!Files
    <3> QED BY <3>1, <3>2, <1>2, <1>3 DEF RemovalKnown, Held
  <2>5. CASE Removal!DeleteFile(c)
    <3>1. /\ content'[c] = [content[c] EXCEPT !.file = "deleting"] /\ ~Fated(c)
          /\ stored' = stored /\ remote' = remote
      BY <2>5, <1>1, <1>7 DEF Removal!DeleteFile
    <3>2. content'[c] \in Held BY <3>1, <1>1, <1>2 DEF Held, Removal!Files
    <3> QED BY <3>1, <3>2, <1>2, <1>3 DEF RemovalKnown, Held
  <2>6. CASE Removal!FileSwept(c)
    <3>1. /\ content'[c] = [content[c] EXCEPT !.file = "none"]
          /\ stored'[c] = stored[c] \ {"file"} /\ remote' = remote
      BY <2>6, <1>1 DEF Removal!FileSwept
    <3>2. content'[c] \in Held BY <3>1, <1>1, <1>2 DEF Held, Removal!Files
    <3> QED BY <3>1, <3>2, <1>2, <1>3 DEF RemovalKnown, Held
  <2>7. CASE Removal!Record(c)
    <3>1. /\ content'[c] = [content[c] EXCEPT !.rec = "starting"] /\ ~Fated(c)
          /\ content[c].rec = "none" /\ stored' = stored /\ remote' = remote
      BY <2>7, <1>1, <1>7 DEF Removal!Record
    <3>2. content'[c] \in Held BY <3>1, <1>1, <1>2 DEF Held, Removal!Recordings
    <3> QED BY <3>1, <3>2, <1>2, <1>3 DEF RemovalKnown, Held
  <2>8. CASE Removal!EgressStarts(c)
    BY <2>8, <1>1, <1>2, <1>3 DEF Removal!EgressStarts, RemovalKnown
  <2>9. CASE Removal!EgressKnown(c)
    <3>1. /\ content'[c] = [content[c] EXCEPT !.rec = "recording"]
          /\ content[c].rec = "starting" /\ stored' = stored /\ remote' = remote
      BY <2>9, <1>1 DEF Removal!EgressKnown
    <3>2. content'[c] \in Held BY <3>1, <1>1, <1>2 DEF Held, Removal!Recordings
    <3> QED BY <3>1, <3>2, <1>2, <1>3 DEF RemovalKnown, Held
  <2>10. CASE Removal!EgressStops(c)
    <3>1. /\ content'[c] = [content[c] EXCEPT !.rec = "ready"] /\ content[c].rec = "stopping"
          /\ stored'[c] = stored[c] \cup {"episode"} /\ remote'[c] = FALSE
      BY <2>10, <1>1 DEF Removal!EgressStops
    <3>2. content'[c] \in Held BY <3>1, <1>1, <1>2 DEF Held, Removal!Recordings
    <3> QED BY <3>1, <3>2, <1>2, <1>3 DEF RemovalKnown, Held
  <2> QED BY <2>1, <2>2, <2>3, <2>4, <2>5, <2>6, <2>7, <2>8, <2>9, <2>10
<1>9. ASSUME NEW x \in Held, NEW s \in SUBSET {"episode", "file"}, NEW r \in BOOLEAN,
             x = content'[c], s = stored'[c], r = remote'[c]
      PROVE  RemovalInv'
  <2>1. Step(x, s, r) BY <1>8, <1>9
  <2>2. /\ content' = [content EXCEPT ![c] = x] /\ stored' = [stored EXCEPT ![c] = s]
        /\ remote' = [remote EXCEPT ![c] = r]
    BY <1>4, <1>9
  <2> QED BY <2>1, <2>2, <1>5, <1>6, RemovalContents
<1> QED BY <1>8, <1>9

Standings == [status : Removal!Statuses, media : {"none", "live", "ending"}]

\* A step on media generations and on what is archived: none of them starts on a channel
\* that is fated, and no status changes but an active one to archived.
LEMMA RemovalGenerations ==
  ASSUME Removal!RemovalConstantsAssumption, RemovalInv,
         UNCHANGED <<content, stored, remote, job, cleaner>>,
         root' \in [exists : BOOLEAN, owner : Users, suspended : BOOLEAN,
                    deleting : BOOLEAN, records : 0 .. MaxRecords],
         root'.exists = root.exists, root'.deleting = root.deleting, root'.records = root.records,
         transfers' \in 0 .. MaxTransfers, channel' \in [Channels -> Standings],
         \A c \in Channels :
           /\ \/ channel'[c].status = channel[c].status
              \/ channel[c].status = "active" /\ channel'[c].status = "archived"
           /\ \/ channel'[c].media = channel[c].media
              \/ channel'[c].media = "none"
              \/ channel[c].media = "live" /\ channel'[c].media = "ending"
  PROVE  RemovalInv'
<1>1. Removal!TypeOK' BY DEF RemovalInv, Removal!TypeOK, Standings
<1>2. RemovalJobs'
  <2>1. job[Root].at # None => job[Root].at \in Channels
    BY DEF RemovalInv, Removal!TypeOK, Removal!Jobs
  <2> QED BY <2>1 DEF RemovalInv, RemovalJobs
<1>3. ASSUME NEW d \in Channels PROVE (RemovalKnown(d) /\ RemovalMedia(d) /\ RemovalGone(d))'
  BY DEF RemovalInv, RemovalKnown, RemovalMedia, RemovalGone, Over, Removal!Leftover
<1>4. ASSUME NEW w \in Cleaners PROVE RemovalWorker(w)'
  BY DEF RemovalInv, RemovalWorker, Fated
<1>5. (~root.exists => Removal!AllGone /\ root.records = 0)'
  BY DEF RemovalInv, Removal!AllGone
<1> QED BY <1>1, <1>2, <1>3, <1>4, <1>5 DEF RemovalInv

\* Staging the ends of a set of channels.
LEMMA RemovalStaged ==
  ASSUME RemovalInv, NEW cs \in SUBSET Channels
  PROVE  /\ Removal!Staged(cs) \in [Channels -> Standings]
         /\ \A c \in Channels :
              /\ Removal!Staged(cs)[c].status = channel[c].status
              /\ c \in cs /\ channel[c].media = "live" => Removal!Staged(cs)[c].media = "ending"
              /\ ~(c \in cs /\ channel[c].media = "live") => Removal!Staged(cs)[c] = channel[c]
<1>1. channel \in [Channels -> Standings] BY DEF RemovalInv, Removal!TypeOK, Standings
<1>2. ASSUME NEW c \in Channels
      PROVE  /\ [channel[c] EXCEPT !.media = "ending"] \in Standings
             /\ [channel[c] EXCEPT !.media = "ending"].status = channel[c].status
             /\ [channel[c] EXCEPT !.media = "ending"].media = "ending"
  BY <1>1 DEF Standings
<1> QED BY <1>1, <1>2 DEF Removal!Staged

\* The commands that start no cleanup.
LEMMA RemovalCommands ==
  ASSUME Removal!RemovalConstantsAssumption, RemovalInv,
         \/ \E c \in Channels : Removal!EndDone(c) \/ Removal!EndSession(c)
              \/ Removal!ArchiveChannel(c)
         \/ \E u \in Users : Removal!TransferOwnership(u)
         \/ \E suspended \in BOOLEAN : Removal!SetModerationStatus(suspended)
  PROVE  RemovalInv'
<1>1. /\ channel \in [Channels -> Standings] /\ transfers \in 0 .. MaxTransfers
      /\ root \in [exists : BOOLEAN, owner : Users, suspended : BOOLEAN,
                   deleting : BOOLEAN, records : 0 .. MaxRecords]
      /\ MaxTransfers \in Nat
  BY DEF RemovalInv, Removal!TypeOK, Standings, Removal!RemovalConstantsAssumption
<1>2. CASE \E c \in Channels : Removal!EndDone(c)
  <2>1. PICK c \in Channels : Removal!EndDone(c) BY <1>2
  <2>2. /\ channel' = [channel EXCEPT ![c].media = "none"]
        /\ UNCHANGED <<root, content, stored, remote, job, cleaner, transfers>>
    BY <2>1 DEF Removal!EndDone
  <2>3. channel' \in [Channels -> Standings] BY <1>1, <2>2 DEF Standings
  <2>4. \A d \in Channels : channel'[d].status = channel[d].status
                            /\ (channel'[d].media = channel[d].media
                                \/ channel'[d].media = "none")
    BY <1>1, <2>2 DEF Standings
  <2> QED BY <1>1, <2>2, <2>3, <2>4, RemovalGenerations
<1>3. CASE \E c \in Channels : Removal!EndSession(c)
  <2>1. PICK c \in Channels : Removal!EndSession(c) BY <1>3
  <2>2. channel' = Removal!Staged({c}) /\ UNCHANGED <<root, content, stored, remote, job, cleaner,
                                                      transfers>>
    BY <2>1 DEF Removal!EndSession
  <2> QED BY <1>1, <2>2, RemovalStaged, RemovalGenerations
<1>4. CASE \E c \in Channels : Removal!ArchiveChannel(c)
  <2>1. PICK c \in Channels : Removal!ArchiveChannel(c) BY <1>4
  <2>2. /\ channel' = [Removal!Staged({c}) EXCEPT ![c].status = "archived"]
        /\ channel[c].status = "active"
        /\ UNCHANGED <<root, content, stored, remote, job, cleaner, transfers>>
    BY <2>1 DEF Removal!ArchiveChannel
  <2>3. Removal!Staged({c}) \in [Channels -> Standings] BY RemovalStaged
  <2>4. /\ channel' \in [Channels -> Standings]
        /\ \A d \in Channels : /\ channel'[d].media = Removal!Staged({c})[d].media
                               /\ d # c => channel'[d].status = Removal!Staged({c})[d].status
                               /\ d = c => channel'[d].status = "archived"
    BY <2>2, <2>3 DEF Standings, Removal!Statuses
  <2>5. \A d \in Channels :
          /\ Removal!Staged({c})[d].status = channel[d].status
          /\ \/ Removal!Staged({c})[d].media = channel[d].media
             \/ channel[d].media = "live" /\ Removal!Staged({c})[d].media = "ending"
    BY RemovalStaged
  <2>6. \A d \in Channels :
          /\ \/ channel'[d].status = channel[d].status
             \/ channel[d].status = "active" /\ channel'[d].status = "archived"
          /\ \/ channel'[d].media = channel[d].media
             \/ channel'[d].media = "none"
             \/ channel[d].media = "live" /\ channel'[d].media = "ending"
    BY <2>2, <2>4, <2>5
  <2> QED BY <1>1, <2>2, <2>4, <2>6, RemovalGenerations
<1>5. CASE \E u \in Users : Removal!TransferOwnership(u)
  <2>1. PICK u \in Users : Removal!TransferOwnership(u) BY <1>5
  <2>2. /\ root' = [root EXCEPT !.owner = u] /\ transfers' = transfers + 1
        /\ transfers < MaxTransfers /\ channel' = Removal!Staged(Channels)
        /\ UNCHANGED <<content, stored, remote, job, cleaner>>
    BY <2>1 DEF Removal!TransferOwnership
  <2> QED BY <1>1, <2>2, RemovalStaged, RemovalGenerations
<1>6. CASE \E suspended \in BOOLEAN : Removal!SetModerationStatus(suspended)
  <2>1. PICK suspended \in BOOLEAN : Removal!SetModerationStatus(suspended) BY <1>6
  <2>2. /\ root' = [root EXCEPT !.suspended = suspended]
        /\ channel' = Removal!Staged(Channels) \/ channel' = channel
        /\ UNCHANGED <<content, stored, remote, job, cleaner, transfers>>
    BY <2>1 DEF Removal!SetModerationStatus
  <2> QED BY <1>1, <2>2, RemovalStaged, RemovalGenerations
<1> QED BY <1>2, <1>3, <1>4, <1>5, <1>6

Books == [status : {"none", "pending", "completed"}, owner : Users \cup {None},
           targets : SUBSET Channels, at : Channels \cup {None}, phase : Removal!Phases,
           lease : Cleaners \cup {None}, expired : BOOLEAN]

\* A lease is taken or given back: the job is about what it was about.
Leasing(f, g, j, l) ==
  /\ f \in [Removal!Jobs -> Books] /\ j \in Removal!Jobs /\ l \in Cleaners \cup {None}
  /\ g = [f EXCEPT ![j].lease = l, ![j].expired = FALSE]
LEMMA RemovalLeasing ==
  ASSUME NEW f, NEW g, NEW j, NEW l, Leasing(f, g, j, l)
  PROVE  /\ g \in [Removal!Jobs -> Books]
         /\ \A k \in Removal!Jobs :
              g[k].status = f[k].status /\ g[k].at = f[k].at /\ g[k].targets = f[k].targets
<1> DEFINE Same(r, t) == r.status = t.status /\ r.at = t.at /\ r.targets = t.targets
<1>1. f \in [Removal!Jobs -> Books] /\ j \in Removal!Jobs /\ l \in Cleaners \cup {None}
  BY DEF Leasing
<1>2. \A t \in Books : [t EXCEPT !.lease = l] \in Books /\ Same([t EXCEPT !.lease = l], t)
  BY <1>1 DEF Books
<1>3. \A t \in Books :
        [t EXCEPT !.expired = FALSE] \in Books /\ Same([t EXCEPT !.expired = FALSE], t)
  BY DEF Books
<1>4. g = [f EXCEPT ![j] = [[f[j] EXCEPT !.lease = l] EXCEPT !.expired = FALSE]]
  BY DEF Leasing
<1>5. PICK t \in Books : t = [f[j] EXCEPT !.lease = l] /\ Same(t, f[j])
  BY <1>1, <1>2
<1>6. PICK r \in Books : r = [t EXCEPT !.expired = FALSE] /\ Same(r, t)
  BY <1>1, <1>3
<1>7. g = [f EXCEPT ![j] = r] BY <1>1, <1>4, <1>5, <1>6
<1>8. g \in [Removal!Jobs -> Books] /\ \A k \in Removal!Jobs : Same(g[k], f[k])
  BY <1>1, <1>5, <1>6, <1>7
<1> QED BY <1>8

\* A generation starts in an open channel: no job waits for one there.
LEMMA RemovalStarts ==
  ASSUME Removal!RemovalConstantsAssumption, RemovalInv, NEW c \in Channels,
         Removal!StartSession(c)
  PROVE  RemovalInv'
<1>1. /\ channel \in [Channels -> Standings] /\ content \in [Channels -> Held]
  BY DEF RemovalInv, Removal!TypeOK, Standings, Held
<1>2. /\ channel' = [channel EXCEPT ![c].media = "live"]
      /\ content' = [content EXCEPT ![c].sessions = TRUE]
      /\ UNCHANGED <<root, stored, remote, job, cleaner, transfers>>
      /\ channel[c].status = "active" /\ ~root.deleting
  BY DEF Removal!StartSession, Removal!Open, Removal!canonicalServer
<1>3. /\ channel' \in [Channels -> Standings] /\ content' \in [Channels -> Held]
  BY <1>1, <1>2 DEF Standings, Held
<1>4. \A d \in Channels :
        /\ channel'[d].status = channel[d].status
        /\ d # c => channel'[d].media = channel[d].media
        /\ d # c => content'[d] = content[d]
        /\ content'[d].rec = content[d].rec /\ content'[d].file = content[d].file
  BY <1>1, <1>2 DEF Standings, Held
<1>5. Removal!TypeOK' BY <1>2, <1>3 DEF RemovalInv, Removal!TypeOK, Standings, Held
<1>6. RemovalJobs'
  <2>1. job[Root].at # None => job[Root].at \in Channels
    BY DEF RemovalInv, Removal!TypeOK, Removal!Jobs
  <2> QED BY <1>2, <1>4, <2>1 DEF RemovalInv, RemovalJobs
<1>7. ASSUME NEW d \in Channels PROVE (RemovalKnown(d) /\ RemovalMedia(d) /\ RemovalGone(d))'
  <2>1. RemovalKnown(d)' BY <1>2, <1>4 DEF RemovalInv, RemovalKnown
  <2>2. RemovalMedia(d)' BY <1>2, <1>4 DEF RemovalInv, RemovalMedia, RemovalJobs, Over
  <2>3. RemovalGone(d)' BY <1>2, <1>4 DEF RemovalInv, RemovalGone, Removal!Leftover
  <2> QED BY <2>1, <2>2, <2>3
<1>8. ASSUME NEW w \in Cleaners PROVE RemovalWorker(w)'
  BY <1>2, <1>4 DEF RemovalInv, RemovalWorker, Fated
<1>9. (~root.exists => Removal!AllGone /\ root.records = 0)'
  BY <1>2, <1>4 DEF RemovalInv, Removal!AllGone
<1> QED BY <1>5, <1>6, <1>7, <1>8, <1>9 DEF RemovalInv

\* A new job.
LEMMA RemovalNewJob ==
  ASSUME Removal!RemovalConstantsAssumption, RemovalInv, NEW at \in Channels \cup {None},
         NEW ts \in SUBSET Channels
  PROVE  /\ Removal!NewJob(at, ts) \in Books
         /\ Removal!NewJob(at, ts).status = "pending" /\ Removal!NewJob(at, ts).at = at
         /\ Removal!NewJob(at, ts).targets = ts
<1>1. root.owner \in Users BY DEF RemovalInv, Removal!TypeOK
<1> QED BY <1>1 DEF Removal!NewJob, Removal!NoJob, Books, Removal!Phases

\* A channel is marked and gets its job, which waits for the generation just staged.
LEMMA RemovalDeletesChannel ==
  ASSUME Removal!RemovalConstantsAssumption, RemovalInv, NEW c \in Channels,
         Removal!DeleteChannel(c)
  PROVE  RemovalInv'
<1>1. /\ channel \in [Channels -> Standings] /\ job \in [Removal!Jobs -> Books]
      /\ c \in Removal!Jobs /\ Root \in Removal!Jobs /\ Root # c
  BY DEF RemovalInv, Removal!TypeOK, Standings, Books, Removal!Jobs,
         Removal!RemovalConstantsAssumption
<1>2. /\ channel' = [Removal!Staged({c}) EXCEPT ![c].status = "deleting"]
      /\ job' = [job EXCEPT ![c] = Removal!NewJob(c, Removal!Ending({c}))]
      /\ UNCHANGED <<root, content, stored, remote, cleaner, transfers>>
      /\ channel[c].status \in {"active", "archived"} /\ ~root.deleting
  BY DEF Removal!DeleteChannel, Removal!canonicalServer
<1>3. /\ job' \in [Removal!Jobs -> Books] /\ job'[c].status = "pending" /\ job'[c].at = c
      /\ job'[c].targets = Removal!Ending({c}) /\ \A j \in Removal!Jobs \ {c} : job'[j] = job[j]
  BY <1>1, <1>2, RemovalNewJob DEF Removal!Ending
<1>4. Removal!Staged({c}) \in [Channels -> Standings] BY RemovalStaged
<1>5. /\ channel' \in [Channels -> Standings] /\ channel'[c].status = "deleting"
      /\ channel'[c].media = Removal!Staged({c})[c].media
      /\ \A d \in Channels : d # c => channel'[d] = Removal!Staged({c})[d]
  BY <1>2, <1>4 DEF Standings, Removal!Statuses
<1>6. \A d \in Channels : d # c => channel'[d] = channel[d]
  BY <1>5, RemovalStaged
<1>7. channel'[c].media = "none" \/ (channel'[c].media = "ending" /\ c \in job'[c].targets)
  <2>1. channel[c] \in Standings BY <1>1
  <2> QED BY <2>1, <1>3, <1>5, RemovalStaged DEF Removal!Ending, Standings
<1>8. Removal!TypeOK' BY <1>2, <1>3, <1>5 DEF RemovalInv, Removal!TypeOK, Standings, Books
<1>9. RemovalJobs'
  <2>1. job[Root].at = None BY <1>2 DEF RemovalInv, RemovalJobs
  <2>2. job'[Root] = job[Root] /\ \A d \in Channels : d # c => job'[d] = job[d]
    BY <1>1, <1>3 DEF Removal!Jobs
  <2>3. ASSUME NEW d \in Channels, job'[d].status = "pending"
        PROVE  channel'[d].status = "deleting" /\ job'[d].at = d
    <3>1. CASE d = c BY <3>1, <1>3, <1>5
    <3>2. CASE d # c BY <3>2, <2>3, <2>2, <1>6 DEF RemovalInv, RemovalJobs
    <3> QED BY <3>1, <3>2
  <2>4. job'[Root].status = "pending" => root'.deleting
    BY <2>2, <1>2 DEF RemovalInv, RemovalJobs
  <2> QED BY <2>1, <2>2, <2>3, <2>4 DEF RemovalJobs
<1>10. ASSUME NEW d \in Channels PROVE (RemovalKnown(d) /\ RemovalMedia(d) /\ RemovalGone(d))'
  <2>1. RemovalKnown(d)' BY <1>2 DEF RemovalInv, RemovalKnown
  <2>2. RemovalMedia(d)'
    BY <1>1, <1>2, <1>3, <1>6, <1>7 DEF RemovalInv, RemovalMedia, Over, Removal!Jobs
  <2>3. RemovalGone(d)' BY <1>2, <1>5, <1>6 DEF RemovalInv, RemovalGone, Removal!Leftover
  <2> QED BY <2>1, <2>2, <2>3
<1>11. ASSUME NEW w \in Cleaners PROVE RemovalWorker(w)'
  BY <1>2, <1>5, <1>6 DEF RemovalInv, RemovalWorker, Fated
<1>12. (~root.exists => Removal!AllGone /\ root.records = 0)'
  BY <1>2 DEF RemovalInv, Removal!AllGone
<1> QED BY <1>8, <1>9, <1>10, <1>11, <1>12 DEF RemovalInv

\* The server is marked and gets its job, which waits for every generation under way.
LEMMA RemovalDeletesServer ==
  ASSUME Removal!RemovalConstantsAssumption, RemovalInv, Removal!DeleteServer
         \/ Removal!StaffDeleteServer
  PROVE  RemovalInv'
<1>1. /\ channel \in [Channels -> Standings] /\ job \in [Removal!Jobs -> Books]
      /\ Root \in Removal!Jobs /\ Root \notin Channels
      /\ root \in [exists : BOOLEAN, owner : Users, suspended : BOOLEAN,
                   deleting : BOOLEAN, records : 0 .. MaxRecords]
  BY DEF RemovalInv, Removal!TypeOK, Standings, Books, Removal!Jobs,
         Removal!RemovalConstantsAssumption
<1>2. /\ root' = [root EXCEPT !.deleting = TRUE]
      /\ job' = [job EXCEPT ![Root] = Removal!NewJob(None, Removal!Ending(Channels))]
      /\ UNCHANGED <<content, stored, remote, cleaner, transfers>>
      /\ channel' = Removal!Staged(Channels)
           \/ (channel' = channel /\ Removal!Ending(Channels) = {})
      /\ root.exists
  BY DEF Removal!DeleteServer, Removal!StaffDeleteServer, Removal!MarkDeleting,
         Removal!canonicalServer
<1>3. /\ job' \in [Removal!Jobs -> Books] /\ job'[Root].status = "pending" /\ job'[Root].at = None
      /\ job'[Root].targets = Removal!Ending(Channels) /\ \A c \in Channels : job'[c] = job[c]
  BY <1>1, <1>2, RemovalNewJob DEF Removal!Ending, Removal!Jobs
<1>4. /\ root'.deleting /\ root'.exists /\ root'.records = root.records
      /\ root' \in [exists : BOOLEAN, owner : Users, suspended : BOOLEAN,
                    deleting : BOOLEAN, records : 0 .. MaxRecords]
  BY <1>1, <1>2
<1>5. /\ channel' \in [Channels -> Standings]
      /\ \A c \in Channels : channel'[c].status = channel[c].status
  BY <1>1, <1>2, RemovalStaged
<1>6. ASSUME NEW c \in Channels
      PROVE  /\ Over(Root, c)'
             /\ \/ channel'[c].media = channel[c].media
                \/ channel[c].media = "live" /\ channel'[c].media = "ending"
  <2>1. channel[c] \in Standings BY <1>1
  <2>2. CASE channel' = Removal!Staged(Channels)
    <3>1. /\ channel[c].media = "live" => channel'[c].media = "ending"
          /\ channel[c].media # "live" => channel'[c] = channel[c]
      BY <2>2, RemovalStaged
    <3>2. c \in job'[Root].targets <=> channel[c].media # "none"
      BY <1>3 DEF Removal!Ending
    <3> QED BY <2>1, <3>1, <3>2 DEF Standings, Over
  <2>3. CASE channel' = channel /\ Removal!Ending(Channels) = {}
    <3>1. channel[c].media = "none"
      BY <2>3 DEF Removal!Ending
    <3> QED BY <2>3, <3>1 DEF Over
  <2> QED BY <1>2, <2>2, <2>3
<1>7. Removal!TypeOK' BY <1>2, <1>3, <1>4, <1>5 DEF RemovalInv, Removal!TypeOK, Standings, Books
<1>8. RemovalJobs'
  BY <1>3, <1>4, <1>5 DEF RemovalInv, RemovalJobs
<1>9. ASSUME NEW d \in Channels PROVE (RemovalKnown(d) /\ RemovalMedia(d) /\ RemovalGone(d))'
  <2>1. RemovalKnown(d)' BY <1>2 DEF RemovalInv, RemovalKnown
  <2>2. RemovalMedia(d)'
    BY <1>3, <1>6 DEF RemovalInv, RemovalMedia, Over
  <2>3. RemovalGone(d)' BY <1>2, <1>5 DEF RemovalInv, RemovalGone, Removal!Leftover
  <2> QED BY <2>1, <2>2, <2>3
<1>10. ASSUME NEW w \in Cleaners PROVE RemovalWorker(w)'
  BY <1>2, <1>4, <1>5 DEF RemovalInv, RemovalWorker, Fated
<1>11. (~root.exists => Removal!AllGone /\ root.records = 0)'
  BY <1>4
<1> QED BY <1>7, <1>8, <1>9, <1>10, <1>11 DEF RemovalInv

Errands == [job : Removal!Jobs \cup {None}, task : {None, "episode", "file"},
            at : Channels \cup {None}, deleted : BOOLEAN]

\* A job that changes its phase or its lease, or gives up a target that has ended.
LEMMA RemovalBooks ==
  ASSUME Removal!RemovalConstantsAssumption, RemovalInv, UNCHANGED <<root, channel>>,
         job' \in [Removal!Jobs -> Books],
         \A j \in Removal!Jobs :
            /\ job'[j].status = job[j].status /\ job'[j].at = job[j].at
            /\ \A c \in job[j].targets \ job'[j].targets :
                              channel[c].media # "ending"
  PROVE  RemovalJobs' /\ \A c \in Channels : RemovalMedia(c)'
<1>1. Root \in Removal!Jobs /\ Channels \subseteq Removal!Jobs BY DEF Removal!Jobs
<1> QED BY <1>1 DEF RemovalInv, RemovalJobs, RemovalMedia, Over

\* The channel of a job that works.
LEMMA RemovalAt ==
  ASSUME Removal!RemovalConstantsAssumption, RemovalInv, NEW j \in Removal!Jobs,
         job[j].status = "pending",
         job[j].at # None
  PROVE  /\ job[j].at \in Channels /\ Fated(job[j].at)
         /\ channel[job[j].at].status \notin {"gone"}
         /\ job[j].targets = {} => channel[job[j].at].media = "none"
<1>1. job[j].at \in Channels BY DEF RemovalInv, Removal!TypeOK
<1>2. CASE j \in Channels
  BY <1>1, <1>2 DEF RemovalInv, RemovalJobs, Fated, RemovalMedia, Over
<1>3. CASE j = Root
  BY <1>1, <1>3 DEF RemovalInv, RemovalJobs, Fated, RemovalMedia, Over
<1> QED BY <1>2, <1>3 DEF Removal!Jobs

\* A page of a channel that removes documents, or marks them and goes to Storage.
LEMMA RemovalPaged ==
  ASSUME Removal!RemovalConstantsAssumption, RemovalInv, NEW c \in Channels, Fated(c),
         channel[c].status # "gone",
         UNCHANGED <<root, channel, stored, remote, transfers>>,
         NEW x \in Held, content' = [content EXCEPT ![c] = x],
         x.rec = content[c].rec \/ (content[c].rec = "recording" /\ x.rec = "stopping"),
         x.file = content[c].file
           \/ (content[c].file # "none" /\ x.file \in {"expiring", "deleting"}),
         cleaner' \in [Cleaners -> Errands],
         \A w \in Cleaners :
           \/ cleaner'[w] = cleaner[w]
           \/ cleaner'[w].job = None
           \/ /\ cleaner'[w].at = c /\ ~cleaner'[w].deleted
              /\ \/ cleaner'[w].task = "episode" /\ x.rec = "ready"
                 \/ cleaner'[w].task = "file" /\ x.file \in {"expiring", "deleting"},
         job' \in [Removal!Jobs -> Books],
         \A j \in Removal!Jobs :
            /\ job'[j].status = job[j].status /\ job'[j].at = job[j].at
            /\ job'[j].targets = job[j].targets
  PROVE  RemovalInv'
<1>1. content \in [Channels -> Held]
  BY DEF RemovalInv, Removal!TypeOK, Held
<1>2. content'[c] = x /\ \A d \in Channels \ {c} : content'[d] = content[d]
  BY <1>1
<1>3. Removal!TypeOK'
  <2>1. content' \in [Channels -> Held] BY <1>1
  <2> QED BY <2>1 DEF RemovalInv, Removal!TypeOK, Held, Books, Errands
<1>4. RemovalJobs' /\ \A d \in Channels : RemovalMedia(d)'
  BY RemovalBooks
<1>5. ASSUME NEW d \in Channels PROVE (RemovalKnown(d) /\ RemovalGone(d))'
  BY <1>2 DEF RemovalInv, RemovalKnown, RemovalGone, Removal!Leftover
<1>6. ASSUME NEW w \in Cleaners PROVE RemovalWorker(w)'
  <2>1. RemovalWorker(w) BY DEF RemovalInv
  <2>2. CASE cleaner'[w] = cleaner[w]
    BY <2>1, <2>2, <1>2 DEF RemovalWorker, Fated
  <2>3. CASE cleaner'[w].job = None
    BY <2>3 DEF RemovalWorker
  <2>4. CASE cleaner'[w].at = c /\ ~cleaner'[w].deleted
              /\ (\/ cleaner'[w].task = "episode" /\ x.rec = "ready"
                  \/ cleaner'[w].task = "file" /\ x.file \in {"expiring", "deleting"})
    BY <2>4, <1>2 DEF RemovalWorker, Fated
  <2> QED BY <2>2, <2>3, <2>4
<1>7. (~root.exists => Removal!AllGone /\ root.records = 0)' BY DEF RemovalInv, Removal!AllGone
<1> QED BY <1>3, <1>4, <1>5, <1>6, <1>7 DEF RemovalInv

\* Leases expire and are given back, workers die, an awaited end is done.
LEMMA RemovalLeases ==
  ASSUME Removal!RemovalConstantsAssumption, RemovalInv,
         \/ \E j \in Removal!Jobs : Removal!LeaseExpires(j)
              \/ \E c \in Channels : Removal!TargetEnded(j, c)
         \/ \E w \in Cleaners : Removal!StorageFails(w) \/ Removal!Crash(w)
  PROVE  RemovalInv'
<1>1. job \in [Removal!Jobs -> Books] /\ cleaner \in [Cleaners -> Errands]
  BY DEF RemovalInv, Removal!TypeOK, Books, Errands
<1>2. UNCHANGED <<root, channel, content, stored, remote, transfers>>
  BY DEF Removal!LeaseExpires, Removal!TargetEnded, Removal!StorageFails, Removal!Crash
<1>3. /\ job' \in [Removal!Jobs -> Books]
      /\ \A j \in Removal!Jobs :
            /\ job'[j].status = job[j].status /\ job'[j].at = job[j].at
            /\ \A c \in job[j].targets \ job'[j].targets : channel[c].media # "ending"
  <2>1. CASE \E j \in Removal!Jobs : Removal!LeaseExpires(j)
    <3>1. PICK j \in Removal!Jobs : Removal!LeaseExpires(j) BY <2>1
    <3>2. job' = [job EXCEPT ![j].expired = TRUE] BY <3>1 DEF Removal!LeaseExpires
    <3>3. PICK t \in Books : t = job[j] BY <1>1
    <3>4. /\ [t EXCEPT !.expired = TRUE] \in Books
          /\ [t EXCEPT !.expired = TRUE].status = t.status
          /\ [t EXCEPT !.expired = TRUE].at = t.at
          /\ [t EXCEPT !.expired = TRUE].targets = t.targets
      BY DEF Books
    <3>5. PICK n \in Books : /\ n = [t EXCEPT !.expired = TRUE] /\ n.status = t.status
                             /\ n.at = t.at /\ n.targets = t.targets
      BY <3>4
    <3>6. job' = [job EXCEPT ![j] = n] BY <3>2, <3>3, <3>5, <1>1
    <3> QED BY <3>3, <3>5, <3>6, <1>1
  <2>2. CASE \E j \in Removal!Jobs, c \in Channels : Removal!TargetEnded(j, c)
    <3>1. PICK j \in Removal!Jobs, c \in Channels : Removal!TargetEnded(j, c) BY <2>2
    <3>2. PICK t \in Books : t = job[j] BY <1>1
    <3>3. /\ [t EXCEPT !.targets = t.targets \ {c}] \in Books
          /\ [t EXCEPT !.targets = t.targets \ {c}].status = t.status
          /\ [t EXCEPT !.targets = t.targets \ {c}].at = t.at
          /\ [t EXCEPT !.targets = t.targets \ {c}].targets = t.targets \ {c}
      BY DEF Books
    <3>4. PICK n \in Books : /\ n = [t EXCEPT !.targets = t.targets \ {c}]
                             /\ n.status = t.status /\ n.at = t.at
                             /\ n.targets = t.targets \ {c}
      BY <3>3
    <3>5. job' = [job EXCEPT ![j] = n] /\ channel[c].media # "ending"
      BY <3>1, <3>2, <3>4, <1>1 DEF Removal!TargetEnded
    <3> QED BY <3>2, <3>4, <3>5, <1>1
  <2>3. CASE \E w \in Cleaners : Removal!StorageFails(w)
    <3>1. PICK w \in Cleaners : Removal!StorageFails(w) BY <2>3
    <3>2. cleaner[w].job \in Removal!Jobs BY <3>1, <1>1 DEF Removal!StorageFails, Errands
    <3>3. CASE job' = job BY <3>3, <1>1
    <3>4. CASE job' = [job EXCEPT ![cleaner[w].job].lease = None,
                                  ![cleaner[w].job].expired = FALSE]
      <4>1. Leasing(job, job', cleaner[w].job, None) BY <3>2, <3>4, <1>1 DEF Leasing
      <4> QED BY <4>1, RemovalLeasing
    <3> QED BY <3>1, <3>3, <3>4 DEF Removal!StorageFails
  <2>4. CASE \E w \in Cleaners : Removal!Crash(w)
    BY <2>4, <1>1 DEF Removal!Crash
  <2> QED BY <2>1, <2>2, <2>3, <2>4
<1>4. /\ cleaner' \in [Cleaners -> Errands]
      /\ \A w \in Cleaners : cleaner'[w] = cleaner[w] \/ cleaner'[w].job = None
  <2>1. Removal!Idle \in Errands /\ Removal!Idle.job = None BY DEF Removal!Idle, Errands
  <2> QED BY <2>1, <1>1 DEF Removal!LeaseExpires, Removal!TargetEnded, Removal!StorageFails,
          Removal!Crash
<1>5. Removal!TypeOK' BY <1>2, <1>3, <1>4 DEF RemovalInv, Removal!TypeOK, Books, Errands
<1>6. RemovalJobs' /\ \A d \in Channels : RemovalMedia(d)'
  BY <1>2, <1>3, RemovalBooks
<1>7. ASSUME NEW d \in Channels PROVE (RemovalKnown(d) /\ RemovalGone(d))'
  BY <1>2 DEF RemovalInv, RemovalKnown, RemovalGone, Removal!Leftover
<1>8. ASSUME NEW w \in Cleaners PROVE RemovalWorker(w)'
  BY <1>2, <1>4 DEF RemovalInv, RemovalWorker, Fated
<1>9. (~root.exists => Removal!AllGone /\ root.records = 0)'
     BY <1>2 DEF RemovalInv, Removal!AllGone
<1> QED BY <1>5, <1>6, <1>7, <1>8, <1>9 DEF RemovalInv

\* The pages of a channel's cleanup, up to the last look.
LEMMA RemovalPages ==
  ASSUME Removal!RemovalConstantsAssumption, RemovalInv, NEW j \in Removal!Jobs,
         \/ Removal!RecordsPage(j) \/ Removal!SessionsPage(j) \/ Removal!RoomPage(j)
         \/ \E w \in Cleaners : Removal!EpisodePage(j, w) \/ Removal!FilePage(j, w)
  PROVE  RemovalInv'
<1> DEFINE c == job[j].at
<1>1. job \in [Removal!Jobs -> Books] /\ cleaner \in [Cleaners -> Errands] /\ MaxRecords \in Nat
      /\ content \in [Channels -> Held]
  BY DEF RemovalInv, Removal!TypeOK, Books, Errands, Held, Removal!RemovalConstantsAssumption
<1>2. /\ c \in Channels /\ Fated(c) /\ channel[c].status # "gone"
      /\ job[j].phase \in {"records", "episodes", "files", "sessions", "room"}
  BY RemovalAt
     DEF Removal!RecordsPage, Removal!SessionsPage, Removal!RoomPage, Removal!EpisodePage,
         Removal!FilePage, Removal!CleansAt, Removal!MayClean
<1>3. UNCHANGED <<root, channel, stored, remote, transfers>>
  BY DEF Removal!RecordsPage, Removal!SessionsPage, Removal!RoomPage, Removal!EpisodePage,
         Removal!FilePage
<1>4. content[c] \in Held /\ content = [content EXCEPT ![c] = content[c]]
  BY <1>1, <1>2
<1>5. /\ Removal!Advance(j) \in [Removal!Jobs -> Books]
      /\ \A k \in Removal!Jobs :
            /\ Removal!Advance(j)[k].status = job[k].status
            /\ Removal!Advance(j)[k].at = job[k].at
            /\ Removal!Advance(j)[k].targets = job[k].targets
  <2>1. Removal!NextPhase(job[j].phase) \in Removal!Phases
       BY <1>2 DEF Removal!NextPhase, Removal!Phases
  <2> QED BY <1>1, <2>1 DEF Removal!Advance, Books
<1> HIDE DEF c
<1>6. CASE Removal!RecordsPage(j) \/ Removal!SessionsPage(j) \/ Removal!RoomPage(j)
  <2>1. cleaner' = cleaner BY <1>6 DEF Removal!RecordsPage, Removal!SessionsPage, Removal!RoomPage
  <2>2. /\ job' \in [Removal!Jobs -> Books]
        /\ \A k \in Removal!Jobs :
              /\ job'[k].status = job[k].status /\ job'[k].at = job[k].at
              /\ job'[k].targets = job[k].targets
    BY <1>1, <1>5, <1>6 DEF Removal!RecordsPage, Removal!SessionsPage, Removal!RoomPage
  <2>3. PICK x \in Held : /\ content' = [content EXCEPT ![c] = x]
                              /\ x.rec = content[c].rec /\ x.file = content[c].file
    <3>1. CASE content' = [content EXCEPT ![c].records = @ - 1] /\ content[c].records > 0
      <4>1. [content[c] EXCEPT !.records = @ - 1] \in Held BY <1>1, <1>4, <3>1 DEF Held
      <4>2. content' = [content EXCEPT ![c] = [content[c] EXCEPT !.records = @ - 1]] BY <3>1
      <4> QED BY <4>1, <4>2, <1>4 DEF Held
    <3>2. CASE content' = content
      BY <3>2, <1>4
    <3>3. CASE content' = [content EXCEPT ![c].sessions = FALSE]
      <4>1. [content[c] EXCEPT !.sessions = FALSE] \in Held BY <1>4 DEF Held
      <4>2. content' = [content EXCEPT ![c] = [content[c] EXCEPT !.sessions = FALSE]] BY <3>3
      <4> QED BY <4>1, <4>2, <1>4 DEF Held
    <3>4. CASE content' = [content EXCEPT ![c].room = FALSE]
      <4>1. [content[c] EXCEPT !.room = FALSE] \in Held BY <1>4 DEF Held
      <4>2. content' = [content EXCEPT ![c] = [content[c] EXCEPT !.room = FALSE]] BY <3>4
      <4> QED BY <4>1, <4>2, <1>4 DEF Held
    <3> QED
      BY <1>6, <3>1, <3>2, <3>3, <3>4
         DEF Removal!RecordsPage, Removal!SessionsPage, Removal!RoomPage, Removal!HasRecords, c
  <2> QED BY <1>1, <1>2, <1>3, <2>1, <2>2, <2>3, RemovalPaged
<1>7. ASSUME NEW w \in Cleaners, NEW task \in {"episode", "file"}, Removal!Lease(j, w, task)
      PROVE  /\ job' \in [Removal!Jobs -> Books]
             /\ \A k \in Removal!Jobs :
                   /\ job'[k].status = job[k].status /\ job'[k].at = job[k].at
                   /\ job'[k].targets = job[k].targets
             /\ cleaner' \in [Cleaners -> Errands]
             /\ cleaner'[w].at = c /\ ~cleaner'[w].deleted /\ cleaner'[w].task = task
             /\ \A v \in Cleaners \ {w} : cleaner'[v] = cleaner[v]
  <2>1. /\ Leasing(job, job', j, w)
        /\ cleaner' = [cleaner EXCEPT ![w] = [job |-> j, task |-> task, at |-> c,
                                              deleted |-> FALSE]]
    BY <1>1, <1>7 DEF Removal!Lease, Leasing, c
  <2>3. [job |-> j, task |-> task, at |-> c, deleted |-> FALSE] \in Errands
    BY <1>2 DEF Errands
  <2> HIDE DEF Removal!Lease
  <2>6. /\ job' \in [Removal!Jobs -> Books]
        /\ \A k \in Removal!Jobs :
              /\ job'[k].status = job[k].status /\ job'[k].at = job[k].at
              /\ job'[k].targets = job[k].targets
    BY <2>1, RemovalLeasing
  <2> QED BY <2>1, <2>3, <2>6, <1>1
<1>8. ASSUME NEW w \in Cleaners, Removal!EpisodePage(j, w) PROVE RemovalInv'
  <2>1. CASE content' = content /\ cleaner' = cleaner /\ job' = Removal!Advance(j)
    BY <2>1, <1>1, <1>2, <1>3, <1>4, <1>5, RemovalPaged
  <2>2. CASE /\ content[c].rec = "recording" /\ job' = job /\ cleaner' = cleaner
             /\ content' = [content EXCEPT ![c].rec = "stopping"]
    <3>1. [content[c] EXCEPT !.rec = "stopping"] \in Held
      BY <1>4 DEF Held, Removal!Recordings
    <3>2. content' = [content EXCEPT ![c] = [content[c] EXCEPT !.rec = "stopping"]] BY <2>2
    <3>3. [content[c] EXCEPT !.rec = "stopping"].rec = "stopping"
          /\ [content[c] EXCEPT !.rec = "stopping"].file = content[c].file
      BY <1>4 DEF Held
    <3> QED BY <2>2, <3>1, <3>2, <3>3, <1>1, <1>2, <1>3, RemovalPaged
  <2>3. CASE content[c].rec = "ready" /\ Removal!Lease(j, w, "episode") /\ content' = content
    BY <2>3, <1>1, <1>2, <1>3, <1>4, <1>7, RemovalPaged
  <2> QED BY <1>8, <2>1, <2>2, <2>3 DEF Removal!EpisodePage, Removal!Deletable, c
<1>9. ASSUME NEW w \in Cleaners, Removal!FilePage(j, w) PROVE RemovalInv'
  <2>1. CASE content' = content /\ cleaner' = cleaner /\ job' = Removal!Advance(j)
    BY <2>1, <1>1, <1>2, <1>3, <1>4, <1>5, RemovalPaged
  <2>2. CASE /\ content[c].file # "none" /\ Removal!Lease(j, w, "file")
             /\ content' = [content EXCEPT ![c].file =
                              IF @ \in {"reserved", "expiring"} THEN "expiring"
                              ELSE "deleting"]
    <3>1. PICK f \in {"expiring", "deleting"} : content' = [content EXCEPT ![c].file = f]
      BY <2>2, <1>1
    <3>2. [content[c] EXCEPT !.file = f] \in Held
      BY <1>4 DEF Held, Removal!Files
    <3>3. content' = [content EXCEPT ![c] = [content[c] EXCEPT !.file = f]] BY <3>1
    <3>4. PICK x \in Held : /\ content' = [content EXCEPT ![c] = x]
                                /\ x.file \in {"expiring", "deleting"} /\ x.rec = content[c].rec
      BY <3>2, <3>3, <1>4 DEF Held
    <3>5. \A v \in Cleaners :
            \/ cleaner'[v] = cleaner[v]
            \/ /\ cleaner'[v].at = c /\ ~cleaner'[v].deleted
               /\ cleaner'[v].task = "file" /\ x.file \in {"expiring", "deleting"}
      BY <2>2, <3>4, <1>7
    <3>6. /\ job' \in [Removal!Jobs -> Books] /\ cleaner' \in [Cleaners -> Errands]
          /\ \A k \in Removal!Jobs :
               /\ job'[k].status = job[k].status /\ job'[k].at = job[k].at
               /\ job'[k].targets = job[k].targets
      BY <2>2, <1>7
    <3>7. x.file = content[c].file
            \/ (content[c].file # "none" /\ x.file \in {"expiring", "deleting"})
      BY <2>2, <3>4
    <3> QED BY <3>4, <3>5, <3>6, <3>7, <1>2, <1>3, RemovalPaged
  <2> QED BY <1>9, <2>1, <2>2 DEF Removal!FilePage, c
<1> QED BY <1>6, <1>8, <1>9

\* An object is deleted without a look at any document: nobody puts it there again.
LEMMA RemovalDeletesObject ==
  ASSUME Removal!RemovalConstantsAssumption, RemovalInv, NEW w \in Cleaners,
         Removal!DeleteObject(w)
  PROVE  RemovalInv'
<1> DEFINE c == cleaner[w].at
<1>1. /\ cleaner \in [Cleaners -> Errands] /\ stored \in [Channels -> SUBSET {"episode", "file"}]
  BY DEF RemovalInv, Removal!TypeOK, Errands
<1>2. /\ c \in Channels /\ Fated(c) /\ cleaner[w].task \in {"episode", "file"}
  BY DEF RemovalInv, RemovalWorker, Removal!DeleteObject
<1>3. /\ stored' = [stored EXCEPT ![c] = @ \ {cleaner[w].task}]
      /\ cleaner' = [cleaner EXCEPT ![w].deleted = TRUE]
      /\ UNCHANGED <<root, channel, content, remote, job, transfers>>
  BY DEF Removal!DeleteObject
<1>4. /\ stored' \in [Channels -> SUBSET {"episode", "file"}]
      /\ cleaner' \in [Cleaners -> Errands]
      /\ stored'[c] = stored[c] \ {cleaner[w].task}
      /\ \A d \in Channels : stored'[d] \subseteq stored[d]
  <2>1. cleaner' = [cleaner EXCEPT ![w] = [cleaner[w] EXCEPT !.deleted = TRUE]]
    BY <1>1, <1>3
  <2>2. \A t \in Errands : [t EXCEPT !.deleted = TRUE] \in Errands BY DEF Errands
  <2>3. cleaner' \in [Cleaners -> Errands] BY <2>1, <2>2, <1>1
  <2>4. stored[c] \ {cleaner[w].task} \in SUBSET {"episode", "file"} BY <1>1, <1>2
  <2>5. stored' = [stored EXCEPT ![c] = stored[c] \ {cleaner[w].task}] BY <1>1, <1>2, <1>3
  <2> HIDE DEF c
  <2> QED BY <2>3, <2>4, <2>5, <1>1, <1>2
<1>5. \A v \in Cleaners :
         /\ cleaner'[v].job = cleaner[v].job /\ cleaner'[v].at = cleaner[v].at
         /\ cleaner'[v].task = cleaner[v].task
         /\ v # w => cleaner'[v].deleted = cleaner[v].deleted
  BY <1>1, <1>3 DEF Errands
<1>6. Removal!TypeOK' BY <1>3, <1>4 DEF RemovalInv, Removal!TypeOK, Errands
<1>7. RemovalJobs' BY <1>3 DEF RemovalInv, RemovalJobs
<1>8. ASSUME NEW d \in Channels PROVE (RemovalKnown(d) /\ RemovalMedia(d) /\ RemovalGone(d))'
  BY <1>3, <1>4 DEF RemovalInv, RemovalKnown, RemovalMedia, Over, RemovalGone, Removal!Leftover
<1>9. ASSUME NEW v \in Cleaners PROVE RemovalWorker(v)'
  <2>1. RemovalWorker(v) BY DEF RemovalInv
  <2>2. CASE v = w
    BY <2>1, <2>2, <1>2, <1>3, <1>4, <1>5 DEF RemovalWorker, Fated
  <2>3. CASE v # w
    BY <2>1, <2>3, <1>3, <1>4, <1>5 DEF RemovalWorker, Fated
  <2> QED BY <2>2, <2>3
<1>10. (~root.exists => Removal!AllGone /\ root.records = 0)'
     BY <1>3 DEF RemovalInv, Removal!AllGone
<1> QED BY <1>6, <1>7, <1>8, <1>9, <1>10 DEF RemovalInv

\* The documents go after the object: nothing in Storage is forgotten.
LEMMA RemovalFinishes ==
  ASSUME Removal!RemovalConstantsAssumption, RemovalInv, NEW w \in Cleaners, Removal!FinishPage(w)
  PROVE  RemovalInv'
<1> DEFINE c == cleaner[w].at
<1> DEFINE j == cleaner[w].job
<1>1. /\ cleaner \in [Cleaners -> Errands] /\ job \in [Removal!Jobs -> Books]
      /\ stored \in [Channels -> SUBSET {"episode", "file"}]
      /\ content \in [Channels -> Held]
  BY DEF RemovalInv, Removal!TypeOK, Errands, Books, Held
<1>2. /\ c \in Channels /\ Fated(c) /\ cleaner[w].task \in {"episode", "file"}
      /\ j \in Removal!Jobs
      /\ cleaner[w].task \notin stored[c]
  BY <1>1 DEF RemovalInv, RemovalWorker, Removal!FinishPage, Removal!Deleted, Errands
<1>3. /\ cleaner' = [cleaner EXCEPT ![w] = Removal!Idle]
      /\ UNCHANGED <<root, channel, stored, remote, transfers>>
  BY DEF Removal!FinishPage
<1>4. content[c] \in Held /\ content = [content EXCEPT ![c] = content[c]] BY <1>1, <1>2
<1> HIDE DEF c, j
<1>5. PICK x \in Held :
        /\ content' = [content EXCEPT ![c] = x]
        /\ \/ x.rec = content[c].rec
           \/ content[c].rec = "ready" /\ x.rec = "none" /\ "episode" \notin stored[c]
        /\ x.file = content[c].file \/ (x.file = "none" /\ "file" \notin stored[c])
        /\ x.records = content[c].records /\ x.sessions = content[c].sessions
        /\ x.room = content[c].room
  <2>1. CASE content' = [content EXCEPT ![c].rec = "none"] /\ cleaner[w].task = "episode"
             /\ content[c].rec = "ready"
    <3>1. [content[c] EXCEPT !.rec = "none"] \in Held BY <1>4 DEF Held, Removal!Recordings
    <3>2. content' = [content EXCEPT ![c] = [content[c] EXCEPT !.rec = "none"]] BY <2>1
    <3> QED BY <2>1, <3>1, <3>2, <1>2, <1>4 DEF Held
  <2>2. CASE content' = [content EXCEPT ![c].file = "none"] /\ cleaner[w].task = "file"
    <3>1. [content[c] EXCEPT !.file = "none"] \in Held BY <1>4 DEF Held, Removal!Files
    <3>2. content' = [content EXCEPT ![c] = [content[c] EXCEPT !.file = "none"]] BY <2>2
    <3> QED BY <2>2, <3>1, <3>2, <1>2, <1>4 DEF Held
  <2>3. CASE content' = content
    BY <2>3, <1>4
  <2> QED BY <2>1, <2>2, <2>3, <1>2 DEF Removal!FinishPage, Removal!StillMine, Removal!Deletable,
          c
<1>6. content'[c] = x /\ content' \in [Channels -> Held]
      /\ \A d \in Channels \ {c} : content'[d] = content[d]
  BY <1>1, <1>2, <1>5
<1>7. /\ job' \in [Removal!Jobs -> Books]
      /\ \A k \in Removal!Jobs :
            /\ job'[k].status = job[k].status /\ job'[k].at = job[k].at
            /\ job'[k].targets = job[k].targets
  <2>1. CASE job' = job BY <2>1, <1>1
  <2>2. CASE job' = [job EXCEPT ![j].lease = None, ![j].expired = FALSE]
    <3>1. Leasing(job, job', j, None) BY <2>2, <1>1, <1>2 DEF Leasing
    <3> QED BY <3>1, RemovalLeasing
  <2> QED BY <2>1, <2>2 DEF Removal!FinishPage, j
<1>8. /\ cleaner' \in [Cleaners -> Errands] /\ cleaner'[w].job = None
      /\ \A v \in Cleaners \ {w} : cleaner'[v] = cleaner[v]
  <2>1. Removal!Idle \in Errands /\ Removal!Idle.job = None BY DEF Removal!Idle, Errands
  <2> QED BY <2>1, <1>1, <1>3
<1>9. Removal!TypeOK' BY <1>3, <1>6, <1>7, <1>8 DEF RemovalInv, Removal!TypeOK, Errands, Books,
          Held
<1>10. RemovalJobs' /\ \A d \in Channels : RemovalMedia(d)' BY <1>3, <1>7, RemovalBooks
<1>11. ASSUME NEW d \in Channels PROVE (RemovalKnown(d) /\ RemovalGone(d))'
  <2>1. CASE d = c
    BY <2>1, <1>3, <1>5, <1>6 DEF RemovalInv, RemovalKnown, RemovalGone, Removal!Leftover
  <2>2. CASE d # c
    BY <2>2, <1>3, <1>6 DEF RemovalInv, RemovalKnown, RemovalGone, Removal!Leftover
  <2> QED BY <2>1, <2>2
<1>12. ASSUME NEW v \in Cleaners PROVE RemovalWorker(v)'
  <2>1. RemovalWorker(v) BY DEF RemovalInv
  <2>2. CASE v = w BY <2>2, <1>8 DEF RemovalWorker
  <2>3. CASE v # w /\ cleaner[v].job # None /\ cleaner[v].at = c
    BY <2>1, <2>3, <1>3, <1>5, <1>6, <1>8 DEF RemovalWorker, Fated
  <2>4. CASE v # w /\ ~(cleaner[v].job # None /\ cleaner[v].at = c)
    BY <2>1, <2>4, <1>3, <1>6, <1>8 DEF RemovalWorker, Fated
  <2> QED BY <2>2, <2>3, <2>4
<1>13. (~root.exists => Removal!AllGone /\ root.records = 0)'
     BY <1>3 DEF RemovalInv, Removal!AllGone
<1> QED BY <1>9, <1>10, <1>11, <1>12, <1>13 DEF RemovalInv

\* The last look at a channel, and what the server's cleanup does after its channels.
LEMMA RemovalFinals ==
  ASSUME Removal!RemovalConstantsAssumption, RemovalInv, NEW j \in Removal!Jobs,
         Removal!FinalPage(j)
  PROVE  RemovalInv'
<1> DEFINE c == job[j].at
<1>1. /\ channel \in [Channels -> Standings] /\ job \in [Removal!Jobs -> Books]
      /\ Root \in Removal!Jobs
      /\ content \in [Channels -> Held] /\ stored \in [Channels -> SUBSET {"episode", "file"}]
      /\ Root \notin Channels /\ Channels \subseteq Removal!Jobs
  BY DEF RemovalInv, Removal!TypeOK, Standings, Books, Held, Removal!Jobs,
         Removal!RemovalConstantsAssumption
<1>2. /\ c \in Channels /\ Fated(c) /\ channel[c].status # "gone" /\ job[j].status = "pending"
      /\ channel[c].media = "none" /\ c # None
  BY RemovalAt DEF Removal!FinalPage, Removal!CleansAt, Removal!MayClean
<1>3. UNCHANGED <<root, content, stored, remote, cleaner, transfers>> BY DEF Removal!FinalPage
<1> HIDE DEF c
<1>4. CASE Removal!Leftover(c) # "none" /\ job' = [job EXCEPT ![j].phase = Removal!Leftover(c)]
          /\ channel' = channel
  <2>1. Removal!Leftover(c) \in Removal!Phases BY <1>4 DEF Removal!Leftover, Removal!Phases
  <2>2. /\ job' \in [Removal!Jobs -> Books]
        /\ \A k \in Removal!Jobs :
              /\ job'[k].status = job[k].status /\ job'[k].at = job[k].at
              /\ job'[k].targets = job[k].targets
    <3>1. PICK t \in Books : t = job[j] BY <1>1
    <3>2. PICK p \in Removal!Phases : p = Removal!Leftover(c) BY <2>1
    <3>3. /\ [t EXCEPT !.phase = p] \in Books
          /\ [t EXCEPT !.phase = p].status = t.status
          /\ [t EXCEPT !.phase = p].at = t.at
          /\ [t EXCEPT !.phase = p].targets = t.targets
      BY DEF Books
    <3>4. PICK n \in Books : /\ n = [t EXCEPT !.phase = p] /\ n.status = t.status
                             /\ n.at = t.at /\ n.targets = t.targets
      BY <3>3
    <3>5. job' = [job EXCEPT ![j] = n] BY <1>1, <1>4, <3>1, <3>2, <3>4
    <3> QED BY <3>1, <3>4, <3>5, <1>1
  <2>3. RemovalJobs' /\ \A d \in Channels : RemovalMedia(d)' BY <1>3, <1>4, <2>2, RemovalBooks
  <2>4. Removal!TypeOK' BY <1>3, <1>4, <2>2 DEF RemovalInv, Removal!TypeOK, Books
  <2>5. ASSUME NEW d \in Channels PROVE (RemovalKnown(d) /\ RemovalGone(d))'
    BY <1>3, <1>4 DEF RemovalInv, RemovalKnown, RemovalGone, Removal!Leftover
  <2>6. ASSUME NEW w \in Cleaners PROVE RemovalWorker(w)'
    BY <1>3, <1>4 DEF RemovalInv, RemovalWorker, Fated
  <2>7. (~root.exists => Removal!AllGone /\ root.records = 0)'
       BY <1>3, <1>4 DEF RemovalInv, Removal!AllGone
  <2> QED BY <2>3, <2>4, <2>5, <2>6, <2>7 DEF RemovalInv
<1>5. CASE /\ Removal!Leftover(c) = "none" /\ channel' = [channel EXCEPT ![c].status = "gone"]
           /\ job' = IF j = Root THEN [job EXCEPT ![j].at = None]
                     ELSE [job EXCEPT ![j].status = "completed"]
  <2>1. /\ channel' \in [Channels -> Standings] /\ channel'[c].status = "gone"
        /\ \A d \in Channels : /\ channel'[d].media = channel[d].media
                               /\ d # c => channel'[d] = channel[d]
    BY <1>1, <1>2, <1>5 DEF Standings, Removal!Statuses
  <2>2. /\ job' \in [Removal!Jobs -> Books] /\ \A k \in Removal!Jobs \ {j} : job'[k] = job[k]
        /\ \A k \in Removal!Jobs : job'[k].targets = job[k].targets
        /\ \A k \in Removal!Jobs : job'[k].status = "pending" => job[k].status = "pending"
        /\ j = Root => job'[j].at = None
        /\ j # Root => job'[j].status = "completed" /\ job'[j].at = job[j].at
    <3>1. CASE j = Root
      <4>1. job' = [job EXCEPT ![j] = [job[j] EXCEPT !.at = None]] BY <1>1, <1>5, <3>1
      <4>2. job[j] \in Books BY <1>1
      <4>3. \A t \in Books : /\ [t EXCEPT !.at = None] \in Books
                             /\ [t EXCEPT !.at = None].at = None
                             /\ [t EXCEPT !.at = None].status = t.status
                             /\ [t EXCEPT !.at = None].targets = t.targets
        BY DEF Books
      <4> QED BY <4>1, <4>2, <4>3, <3>1, <1>1
    <3>2. CASE j # Root
      <4>1. job' = [job EXCEPT ![j] = [job[j] EXCEPT !.status = "completed"]]
        BY <1>1, <1>5, <3>2
      <4>2. job[j] \in Books BY <1>1
      <4>3. \A t \in Books : /\ [t EXCEPT !.status = "completed"] \in Books
                             /\ [t EXCEPT !.status = "completed"].status = "completed"
                             /\ [t EXCEPT !.status = "completed"].at = t.at
                             /\ [t EXCEPT !.status = "completed"].targets = t.targets
        BY DEF Books
      <4> QED BY <4>1, <4>2, <4>3, <3>2, <1>1
    <3> QED BY <3>1, <3>2
  <2>3. Removal!TypeOK' BY <1>3, <2>1, <2>2 DEF RemovalInv, Removal!TypeOK, Standings, Books
  <2>4. j \in Channels => j = c BY <1>2 DEF RemovalInv, RemovalJobs, c
  <2>5. RemovalJobs'
    <3>1. ASSUME NEW d \in Channels, job'[d].status = "pending"
          PROVE  channel'[d].status = "deleting" /\ job'[d].at = d
      <4>1. d # j BY <3>1, <1>1, <2>2
      <4>2. job'[d] = job[d] /\ channel[d].status = "deleting" /\ job[d].at = d
        BY <3>1, <4>1, <1>1, <2>2 DEF RemovalInv, RemovalJobs
      <4>3. d # c
        <5>1. CASE j = Root
          BY <5>1, <1>2, <4>2 DEF RemovalInv, RemovalJobs, c
        <5>2. CASE j # Root
          BY <5>2, <2>4, <4>1 DEF Removal!Jobs
        <5> QED BY <5>1, <5>2
      <4> QED BY <4>2, <4>3, <2>1
    <3>2. job'[Root].status = "pending" => root'.deleting
      BY <1>1, <1>3, <2>2 DEF RemovalInv, RemovalJobs
    <3>3. ASSUME job'[Root].at # None
          PROVE  root'.deleting /\ channel'[job'[Root].at].status \in {"active", "archived"}
      <4>1. j # Root BY <3>3, <2>2
      <4>2. job'[Root] = job[Root] /\ j = c BY <4>1, <1>1, <2>2, <2>4 DEF Removal!Jobs
      <4>3. channel[c].status = "deleting" BY <4>2, <1>2 DEF RemovalInv, RemovalJobs
      <4>4. job[Root].at \in Channels BY <3>3, <4>2, <1>1 DEF Books
      <4>5. root.deleting /\ channel[job[Root].at].status \in {"active", "archived"}
        BY <3>3, <4>2 DEF RemovalInv, RemovalJobs
      <4>6. job[Root].at # c BY <4>3, <4>5
      <4> QED BY <4>2, <4>4, <4>5, <4>6, <2>1, <1>3
    <3> QED BY <3>1, <3>2, <3>3 DEF RemovalJobs
  <2>6. ASSUME NEW d \in Channels PROVE (RemovalKnown(d) /\ RemovalMedia(d) /\ RemovalGone(d))'
    <3>1. RemovalKnown(d)' BY <1>3 DEF RemovalInv, RemovalKnown
    <3>2. RemovalMedia(d)' BY <1>1, <1>3, <2>1, <2>2 DEF RemovalInv, RemovalMedia, Over
    <3>3. CASE d = c
      <4>1. content[c].rec = "none" /\ content[c].file = "none" BY <1>5 DEF Removal!Leftover
      <4>2. stored[c] = {} /\ ~remote[c]
        BY <4>1, <1>1, <1>2 DEF RemovalInv, RemovalKnown
      <4> QED BY <3>1, <3>2, <3>3, <4>2, <1>3, <1>5 DEF RemovalGone, Removal!Leftover
    <3>4. CASE d # c
      BY <3>1, <3>2, <3>4, <1>3, <2>1 DEF RemovalInv, RemovalGone, Removal!Leftover
    <3> QED BY <3>3, <3>4
  <2>7. ASSUME NEW w \in Cleaners PROVE RemovalWorker(w)'
    BY <1>3, <2>1 DEF RemovalInv, RemovalWorker, Fated
  <2>8. (~root.exists => Removal!AllGone /\ root.records = 0)'
    BY <1>3, <2>1 DEF RemovalInv, Removal!AllGone
  <2> QED BY <2>3, <2>5, <2>6, <2>7, <2>8 DEF RemovalInv
<1> QED BY <1>4, <1>5 DEF Removal!FinalPage, c

\* The server's cleanup comes to its next channel.
LEMMA RemovalPicks ==
  ASSUME Removal!RemovalConstantsAssumption, RemovalInv, NEW c \in Channels,
         Removal!PickChannel(c)
  PROVE  RemovalInv'
<1>1. /\ job \in [Removal!Jobs -> Books] /\ Root \in Removal!Jobs /\ Root \notin Channels
      /\ Channels \subseteq Removal!Jobs
  BY DEF RemovalInv, Removal!TypeOK, Books, Removal!Jobs, Removal!RemovalConstantsAssumption
<1>2. /\ job' = [job EXCEPT ![Root].at = c, ![Root].phase = "records"]
      /\ UNCHANGED <<root, channel, content, stored, remote, cleaner, transfers>>
      /\ channel[c].status \in {"active", "archived"} /\ job[Root].status = "pending"
  BY DEF Removal!PickChannel, Removal!Cleanable, Removal!MayClean
<1>3. /\ job' \in [Removal!Jobs -> Books] /\ job'[Root].at = c
      /\ job'[Root].status = job[Root].status /\ job'[Root].targets = job[Root].targets
      /\ \A k \in Removal!Jobs \ {Root} : job'[k] = job[k]
  <2>1. PICK t \in Books : t = job[Root] BY <1>1
  <2>2. /\ [t EXCEPT !.at = c] \in Books /\ [t EXCEPT !.at = c].at = c
        /\ [t EXCEPT !.at = c].status = t.status
        /\ [t EXCEPT !.at = c].targets = t.targets
    BY DEF Books
  <2>3. PICK n \in Books : /\ n = [t EXCEPT !.at = c] /\ n.at = c
                           /\ n.status = t.status /\ n.targets = t.targets
    BY <2>2
  <2>4. /\ [n EXCEPT !.phase = "records"] \in Books
        /\ [n EXCEPT !.phase = "records"].at = n.at
        /\ [n EXCEPT !.phase = "records"].status = n.status
        /\ [n EXCEPT !.phase = "records"].targets = n.targets
    BY DEF Books, Removal!Phases
  <2>5. PICK m \in Books : /\ m = [n EXCEPT !.phase = "records"] /\ m.at = c
                           /\ m.status = t.status /\ m.targets = t.targets
    BY <2>3, <2>4
  <2>6. job' = [job EXCEPT ![Root] = m] BY <1>1, <1>2, <2>1, <2>3, <2>5
  <2> QED BY <1>1, <2>1, <2>5, <2>6
<1>4. Removal!TypeOK' BY <1>2, <1>3 DEF RemovalInv, Removal!TypeOK, Books
<1>5. RemovalJobs'
  <2>0. RemovalJobs BY DEF RemovalInv
  <2>1. \A d \in Channels : job'[d] = job[d] BY <1>1, <1>3
  <2>2. ASSUME NEW d \in Channels, job'[d].status = "pending"
        PROVE  channel'[d].status = "deleting" /\ job'[d].at = d
    <3>1. job'[d] = job[d] BY <2>1
    <3>2. channel[d].status = "deleting" /\ job[d].at = d BY <2>2, <2>0, <3>1 DEF RemovalJobs
    <3> QED BY <3>1, <3>2, <1>2
  <2>3. root'.deleting BY <1>2, <2>0 DEF RemovalJobs
  <2>4. channel'[job'[Root].at].status \in {"active", "archived"} BY <1>2, <1>3
  <2> QED BY <2>2, <2>3, <2>4 DEF RemovalJobs
<1>6. ASSUME NEW d \in Channels PROVE (RemovalKnown(d) /\ RemovalMedia(d) /\ RemovalGone(d))'
  <2>1. job'[d] = job[d] BY <1>1, <1>3
  <2> QED BY <2>1, <1>2, <1>3 DEF RemovalInv, RemovalKnown, RemovalMedia, Over, RemovalGone,
          Removal!Leftover
<1>7. ASSUME NEW w \in Cleaners PROVE RemovalWorker(w)'
  BY <1>2 DEF RemovalInv, RemovalWorker, Fated
<1>8. (~root.exists => Removal!AllGone /\ root.records = 0)'
     BY <1>2 DEF RemovalInv, Removal!AllGone
<1> QED BY <1>4, <1>5, <1>6, <1>7, <1>8 DEF RemovalInv

\* The server's cleanup after its channels.
LEMMA RemovalRoot ==
  ASSUME Removal!RemovalConstantsAssumption, RemovalInv, Removal!RootPage \/ Removal!RootFinal
  PROVE  RemovalInv'
<1>1. /\ root \in [exists : BOOLEAN, owner : Users, suspended : BOOLEAN,
                   deleting : BOOLEAN, records : 0 .. MaxRecords]
      /\ job \in [Removal!Jobs -> Books] /\ Root \in Removal!Jobs
      /\ Channels \subseteq Removal!Jobs
      /\ MaxRecords \in Nat
  BY DEF RemovalInv, Removal!TypeOK, Books, Removal!Jobs, Removal!RemovalConstantsAssumption
<1>2. /\ UNCHANGED <<channel, content, stored, remote, cleaner, transfers>> /\ Removal!AllGone
      /\ job' = job \/ job' = [job EXCEPT ![Root].status = "completed"]
  BY DEF Removal!RootPage, Removal!RootFinal
<1>3. /\ root' \in [exists : BOOLEAN, owner : Users, suspended : BOOLEAN,
                    deleting : BOOLEAN, records : 0 .. MaxRecords]
      /\ root'.deleting = root.deleting
      /\ ~root'.exists => root'.records = 0
  <2>1. CASE Removal!RootPage
    <3>1. root' = [root EXCEPT !.records = @ - 1] /\ root.records > 0 /\ root.exists
      BY <2>1 DEF Removal!RootPage, Removal!MayClean, Removal!Fenced
    <3> QED BY <3>1, <1>1
  <2>2. CASE Removal!RootFinal
    BY <2>2, <1>1 DEF Removal!RootFinal
  <2> QED BY <2>1, <2>2
<1>4. /\ job' \in [Removal!Jobs -> Books]
      /\ \A k \in Removal!Jobs :
           /\ job'[k].at = job[k].at /\ job'[k].targets = job[k].targets
           /\ job'[k].status = "pending" => job[k].status = "pending"
  BY <1>1, <1>2 DEF Books
<1>5. Removal!TypeOK' BY <1>2, <1>3, <1>4 DEF RemovalInv, Removal!TypeOK, Books
<1> DEFINE Kept(k) ==
      /\ job'[k].at = job[k].at /\ job'[k].targets = job[k].targets
      /\ job'[k].status = "pending" => job[k].status = "pending"
<1>6. Kept(Root) /\ \A d \in Channels : Kept(d) BY <1>1, <1>4
<1>7. RemovalJobs' BY <1>2, <1>3, <1>6 DEF RemovalInv, RemovalJobs
<1>8. ASSUME NEW d \in Channels PROVE (RemovalKnown(d) /\ RemovalMedia(d) /\ RemovalGone(d))'
  <2>1. Kept(d) /\ Kept(Root) BY <1>6
  <2>2. RemovalMedia(d)' BY <2>1, <1>2, <1>3 DEF RemovalInv, RemovalMedia, Over
  <2>3. (RemovalKnown(d) /\ RemovalGone(d))'
    BY <1>2 DEF RemovalInv, RemovalKnown, RemovalGone, Removal!Leftover
  <2> QED BY <2>2, <2>3
<1>9. ASSUME NEW w \in Cleaners PROVE RemovalWorker(w)'
  BY <1>2, <1>3 DEF RemovalInv, RemovalWorker, Fated
<1>10. (~root.exists => Removal!AllGone /\ root.records = 0)' BY <1>2, <1>3 DEF Removal!AllGone
<1> QED BY <1>5, <1>7, <1>8, <1>9, <1>10 DEF RemovalInv

\* Every step keeps the strengthening.
LEMMA RemovalStep ==
  ASSUME Removal!RemovalConstantsAssumption, RemovalInv, [Removal!Next]_Removal!vars
  PROVE  RemovalInv'
<1>1. CASE \E c \in Channels : \/ Removal!Member(c) \/ Removal!Egress(c)
                               \/ Removal!EndDone(c) \/ Removal!PickChannel(c)
  <2>1. PICK c \in Channels : \/ Removal!Member(c) \/ Removal!Egress(c)
                             \/ Removal!EndDone(c) \/ Removal!PickChannel(c)
    BY <1>1
  <2>2. CASE \/ Removal!Post(c) \/ Removal!Reserve(c) \/ Removal!Upload(c) \/ Removal!Finalize(c)
                  \/ Removal!DeleteFile(c) \/ Removal!FileSwept(c)
             \/ Removal!Record(c) \/ Removal!EgressStarts(c) \/ Removal!EgressKnown(c)
                  \/ Removal!EgressStops(c)
    BY <2>2, RemovalMembers
  <2>3. CASE Removal!StartSession(c) BY <2>3, RemovalStarts
  <2>4. CASE Removal!EndSession(c) \/ Removal!EndDone(c) BY <2>4, RemovalCommands
  <2>5. CASE Removal!PickChannel(c) BY <2>5, RemovalPicks
  <2> QED BY <2>1, <2>2, <2>3, <2>4, <2>5 DEF Removal!Member, Removal!Egress
<1>2. CASE Removal!Manager
  <2>1. CASE \E c \in Channels : Removal!ArchiveChannel(c) BY <2>1, RemovalCommands
  <2>2. CASE \E c \in Channels : Removal!DeleteChannel(c) BY <2>2, RemovalDeletesChannel
  <2>3. CASE \E u \in Users : Removal!TransferOwnership(u) BY <2>3, RemovalCommands
  <2>4. CASE \E suspended \in BOOLEAN : Removal!SetModerationStatus(suspended)
       BY <2>4, RemovalCommands
  <2>5. CASE Removal!DeleteServer \/ Removal!StaffDeleteServer BY <2>5, RemovalDeletesServer
  <2> QED BY <1>2, <2>1, <2>2, <2>3, <2>4, <2>5 DEF Removal!Manager
<1>3. CASE \E j \in Removal!Jobs : Removal!Page(j) \/ Removal!LeaseExpires(j)
  <2>1. PICK j \in Removal!Jobs : Removal!Page(j) \/ Removal!LeaseExpires(j) BY <1>3
  <2>2. CASE \/ Removal!RecordsPage(j) \/ Removal!SessionsPage(j) \/ Removal!RoomPage(j)
             \/ \E w \in Cleaners : Removal!EpisodePage(j, w) \/ Removal!FilePage(j, w)
    BY <2>2, RemovalPages
  <2>3. CASE Removal!FinalPage(j) BY <2>3, RemovalFinals
  <2>4. CASE Removal!LeaseExpires(j) \/ \E c \in Channels : Removal!TargetEnded(j, c)
       BY <2>4, RemovalLeases
  <2> QED BY <2>1, <2>2, <2>3, <2>4 DEF Removal!Page
<1>4. CASE \E w \in Cleaners : Removal!Storage(w)
  <2>1. PICK w \in Cleaners : Removal!Storage(w) BY <1>4
  <2>2. CASE Removal!DeleteObject(w) BY <2>2, RemovalDeletesObject
  <2>3. CASE Removal!FinishPage(w) BY <2>3, RemovalFinishes
  <2>4. CASE Removal!StorageFails(w) \/ Removal!Crash(w) BY <2>4, RemovalLeases
  <2> QED BY <2>1, <2>2, <2>3, <2>4 DEF Removal!Storage
<1>5. CASE Removal!RootPage \/ Removal!RootFinal BY <1>5, RemovalRoot
<1>6. CASE UNCHANGED Removal!vars
  BY <1>6
     DEF Removal!vars, RemovalInv, Removal!TypeOK, RemovalJobs, RemovalKnown, RemovalMedia,
         Over, RemovalGone, Removal!Leftover, RemovalWorker, Fated, Removal!AllGone
<1> QED BY <1>1, <1>2, <1>3, <1>4, <1>5, <1>6 DEF Removal!Next

\* The strengthening is an invariant of the server.
LEMMA RemovalInvariant ==
  ASSUME Removal!RemovalConstantsAssumption
  PROVE  Removal!Spec => []RemovalInv
<1>1. Removal!Init => RemovalInv BY RemovalInit
<1>2. RemovalInv /\ [Removal!Next]_Removal!vars => RemovalInv' BY RemovalStep
<1> QED BY <1>1, <1>2, PTL DEF Removal!Spec

\* What the strengthening says of the properties the runs check.
LEMMA RemovalSafe ==
  ASSUME Removal!RemovalConstantsAssumption, RemovalInv
  PROVE  /\ Removal!TypeOK /\ Removal!GoneLeavesNothing /\ Removal!NoStrandedRecording
         /\ Removal!OneCleaner /\ Removal!CleaningFollowsTheEnd
<1>1. Removal!GoneLeavesNothing BY DEF RemovalInv, RemovalGone, Removal!GoneLeavesNothing
<1>2. Removal!NoStrandedRecording BY DEF RemovalInv, RemovalKnown, Removal!NoStrandedRecording
<1>3. Removal!OneCleaner
  <2> SUFFICES ASSUME NEW c \in Channels, job[c].status = "pending", job[Root].at = c
               PROVE  FALSE
    BY DEF Removal!OneCleaner
  <2>1. channel[c].status = "deleting" BY DEF RemovalInv, RemovalJobs
  <2>2. channel[c].status \in {"active", "archived"}
    BY DEF RemovalInv, RemovalJobs, Removal!RemovalConstantsAssumption
  <2> QED BY <2>1, <2>2
<1>4. Removal!CleaningFollowsTheEnd BY RemovalAt DEF Removal!CleaningFollowsTheEnd
<1> QED BY <1>1, <1>2, <1>3, <1>4 DEF RemovalInv

(* A channel that is gone leaves no document, no object and no recording; the provider
   records for no episode that is forgotten; the server's cleanup and a channel's own never
   meet; and no page touches a channel whose generation is not over: for any channels and
   workers, however often pages die, outlive their leases or find Storage failing. *)
THEOREM RemovalsLeaveNothing ==
  ASSUME Removal!RemovalConstantsAssumption
  PROVE  Removal!Spec => [](/\ Removal!TypeOK /\ Removal!GoneLeavesNothing
                            /\ Removal!NoStrandedRecording /\ Removal!OneCleaner
                            /\ Removal!CleaningFollowsTheEnd)
<1>1. RemovalInv => /\ Removal!TypeOK /\ Removal!GoneLeavesNothing
                    /\ Removal!NoStrandedRecording /\ Removal!OneCleaner
                    /\ Removal!CleaningFollowsTheEnd
  BY RemovalSafe
<1> QED BY <1>1, RemovalInvariant, PTL


------------------------
(***************************************************************************)
(* A Reel, its voice comments and what is left of both (ReelLifecycle),    *)
(* for any comments, workers and page sizes.  Workers delete objects by a  *)
(* row they may have lost meanwhile.  What is inductive is that a row is   *)
(* written when what it removes has no way back (ReelRowsFit), what the    *)
(* states of the Reel stand for (ReelStates), that each object is named    *)
(* (ReelNamed), and what a worker between its steps relies on              *)
(* (ReelWorker), which no step of anybody undoes (Keeps).                  *)
(***************************************************************************)
CONSTANTS Replies, Purgers, PageSize, MaxPages, MaxAttempts, MaxMishaps, Media, Expiry
VARIABLES draft, reel, due, purgeDue, comments, tally, sounds, objects, rows, purger, mishaps
Reel == INSTANCE ReelLifecycle WITH Workers <- Purgers, root <- reel, reserved <- sounds,
                                    worker <- purger

PurgeSteps == {"engage", "queue", "sweep", "objects", "settle", "retain", "keep", "judge"}
Purging == [at : PurgeSteps, row : Reel!RowIds, pages : Nat, token : Nat, skip : BOOLEAN]
RowStatuses == {"none", "pending", "processing", "completed", "deadLetter"}
ReelRow == [status : RowStatuses, attempts : Nat, phase : {"delete", "retain", "purge"},
            leased : BOOLEAN]

ReelTyped ==
  /\ draft \in {"none", "open", "late", "gone"}
  /\ reel \in {"none", "published", "expired", "purged", "deleted"}
  /\ due \in BOOLEAN /\ purgeDue \in BOOLEAN
  /\ comments \subseteq Replies /\ tally \in Nat
  /\ sounds \in [Replies -> {"none", "open", "late", "gone"}]
  /\ objects \subseteq Replies \cup {Media}
  /\ rows \in [Reel!RowIds -> ReelRow]

\* A row is written once, when what it is to remove has no way back.
ReelRowsFit ==
  /\ rows[Media].status # "none" => draft = "gone" /\ reel \in {"none", "deleted"}
  /\ \A r \in Replies : rows[r].status # "none" => sounds[r] = "gone" /\ r \notin comments
  /\ rows[Expiry].status # "none" =>
       reel \in {"expired", "purged", "deleted"} /\ rows[Expiry].phase \in {"retain", "purge"}
  /\ rows[Expiry].status = "processing" /\ rows[Expiry].phase = "purge" => purgeDue
  /\ purgeDue => rows[Expiry].status # "none"

\* What the states of the Reel stand for.
ReelStates ==
  /\ reel = "none" => comments = {} /\ tally = 0
  /\ reel # "none" => draft = "gone"
  /\ reel = "purged" => Media \notin objects /\ comments = {}
  /\ \A r \in comments : sounds[r] = "gone"

ReelNamed ==
  /\ Media \in objects => \/ draft \in {"open", "late"} \/ reel \in {"published", "expired"}
                          \/ Reel!Unfinished(Media)
  /\ \A r \in Replies : r \in objects =>
       \/ sounds[r] \in {"open", "late"} \/ Reel!Unfinished(r)
       \/ r \in comments /\ (reel \in {"published", "expired"} \/ Reel!Unfinished(Media))

ReelWorker(w) ==
  LET i == purger[w].row
      at == purger[w].at IN
  at # "idle" =>
    /\ rows[i].status # "none"
    /\ i \in Replies => at \in {"objects", "settle"} /\ (at = "settle" => i \notin objects)
    /\ i = Media => /\ at \in {"engage", "queue", "sweep", "objects", "settle"}
                    /\ ~purger[w].skip
                    /\ at \in {"sweep", "objects", "settle"} => comments = {}
                    /\ at = "settle" => Media \notin objects
    /\ i = Expiry => /\ at \notin {"retain", "keep"} => purgeDue
                     /\ at \in {"sweep", "objects"} => comments = {}
                     /\ purger[w].skip => reel \in {"purged", "deleted"}
                     /\ at = "settle" =>
                          reel = "deleted" \/ (Media \notin objects /\ comments = {})

FewReplies == IsFiniteSet(Replies)

\* The count of comments, which holds it as long as the comments are.
ReelCounted ==
  reel \in {"published", "expired"} /\ ~purgeDue => tally = Cardinality(comments)

ReelDocs ==
  /\ ReelTyped /\ ReelRowsFit /\ ReelStates /\ ReelNamed /\ Reel!EvidenceKept
  /\ Reel!CompletedMeansDone /\ ReelCounted
  /\ tally <= Cardinality(Replies)

ReelCrew ==
  /\ purger \in [Purgers -> Purging \cup {Reel!Idle}]
  /\ \A w \in Purgers : ReelWorker(w)

ReelInv == ReelDocs /\ ReelCrew

\* What a step keeps for the workers that are under way.
Keeps ==
  /\ \A i \in Reel!RowIds : rows[i].status # "none" => rows'[i].status # "none"
  /\ \A i \in Replies \cup {Media} :
       rows[i].status # "none" /\ i \notin objects => i \notin objects'
  /\ rows[Expiry].status # "none" /\ Media \notin objects => Media \notin objects'
  /\ rows[Media].status # "none" \/ rows[Expiry].status # "none" =>
       (comments = {} => comments' = {})
  /\ purgeDue => purgeDue'
  /\ reel \in {"purged", "deleted"} => reel' \in {"purged", "deleted"}
  /\ reel = "deleted" => reel' = "deleted"

\* The row ids are those of the sounds, of the Reel's object and of its retention.
LEMMA ReelIds ==
  ASSUME Reel!ReelAssumption
  PROVE  /\ Media \in Reel!RowIds /\ Expiry \in Reel!RowIds /\ Replies \subseteq Reel!RowIds
         /\ Media # Expiry /\ Media \notin Replies /\ Expiry \notin Replies
         /\ Reel!RowIds = Replies \cup {Media, Expiry}
BY DEF Reel!ReelAssumption, Reel!RowIds

\* A row as it is written first.
LEMMA ReelNewRow ==
  /\ Reel!NewRow("delete") \in ReelRow /\ Reel!NewRow("retain") \in ReelRow
  /\ Reel!NewRow("delete").status = "pending" /\ Reel!NewRow("retain").status = "pending"
  /\ Reel!NewRow("delete").phase = "delete" /\ Reel!NewRow("retain").phase = "retain"
BY DEF Reel!NewRow, ReelRow, RowStatuses

\* At first there is nothing.
LEMMA ReelInit == ASSUME Reel!ReelAssumption, FewReplies, Reel!Init PROVE ReelInv
<1> USE DEF Reel!Init
<1>1. Reel!NoRow \in ReelRow /\ Reel!NoRow.status = "none" /\ Reel!NoRow.phase = "delete"
  BY DEF Reel!NoRow, ReelRow, RowStatuses
<1>2. \A i \in Reel!RowIds : rows[i] = Reel!NoRow OBVIOUS
<1>3. ReelTyped BY <1>1 DEF ReelTyped
<1>4. ReelRowsFit BY <1>1, <1>2, ReelIds DEF ReelRowsFit
<1>5. ReelStates BY DEF ReelStates
<1>6. ReelNamed BY DEF ReelNamed
<1>7. Reel!EvidenceKept BY DEF Reel!EvidenceKept
<1>8. Reel!CompletedMeansDone BY <1>1, <1>2, ReelIds DEF Reel!CompletedMeansDone
<1>9. ReelCounted BY DEF ReelCounted
<1>10. tally <= Cardinality(Replies)
  BY FS_CardinalityType DEF FewReplies
<1>11. ReelCrew BY DEF ReelCrew, ReelWorker, Reel!Idle
<1> QED BY <1>3, <1>4, <1>5, <1>6, <1>7, <1>8, <1>9, <1>10, <1>11 DEF ReelInv, ReelDocs

\* A step that Keeps leaves alone whom it does not move.
LEMMA ReelStays ==
  ASSUME Reel!ReelAssumption, ReelCrew, Keeps, NEW w \in Purgers, purger'[w] = purger[w]
  PROVE  ReelWorker(w)'
<1>1. ReelWorker(w) BY DEF ReelCrew
<1>2. CASE purger[w].at = "idle" BY <1>2 DEF ReelWorker
<1>3. CASE purger[w].at # "idle"
  <2> DEFINE i == purger[w].row
  <2>1. i \in Reel!RowIds
    <3>1. purger[w] \in Purging BY <1>3 DEF ReelCrew, Reel!Idle
    <3> QED BY <3>1 DEF Purging
  <2>2. rows[i].status # "none" /\ rows'[i].status # "none"
    BY <1>1, <1>3, <2>1 DEF ReelWorker, Keeps
  <2> HIDE DEF i
  <2>3. CASE i \in Replies
    BY <1>1, <1>3, <2>2, <2>3, ReelIds DEF ReelWorker, Keeps, i
  <2>4. CASE i = Media
    BY <1>1, <1>3, <2>2, <2>4, ReelIds DEF ReelWorker, Keeps, i
  <2>5. CASE i = Expiry
    BY <1>1, <1>3, <2>2, <2>5, ReelIds DEF ReelWorker, Keeps, i
  <2> QED BY <2>1, <2>3, <2>4, <2>5, ReelIds
<1> QED BY <1>2, <1>3

\* The same of all workers.
LEMMA ReelCrewStays ==
  ASSUME Reel!ReelAssumption, ReelCrew, Keeps, UNCHANGED purger PROVE ReelCrew'
<1>1. \A w \in Purgers : ReelWorker(w)' BY ReelStays
<1> QED BY <1>1 DEF ReelCrew

\* A step that Keeps and moves one worker, rightly, leaves the crew as it should be.
LEMMA ReelCrewMoves ==
  ASSUME Reel!ReelAssumption, ReelCrew, Keeps, NEW w \in Purgers,
       NEW x \in Purging \cup {Reel!Idle},
         purger' = [purger EXCEPT ![w] = x], purger'[w] = x => ReelWorker(w)'
  PROVE  ReelCrew'
<1>1. purger \in [Purgers -> Purging \cup {Reel!Idle}] BY DEF ReelCrew
<1>2. purger'[w] = x /\ \A v \in Purgers \ {w} : purger'[v] = purger[v] BY <1>1
<1>3. \A v \in Purgers : ReelWorker(v)' BY <1>2, ReelStays
<1>4. purger' \in [Purgers -> Purging \cup {Reel!Idle}] BY <1>1
<1> QED BY <1>3, <1>4 DEF ReelCrew


\* The bookkeeping of a row that is there already.
LEMMA ReelBook ==
  ASSUME Reel!ReelAssumption, ReelDocs, UNCHANGED <<Reel!content, Reel!clocks, objects>>,
         NEW i \in Reel!RowIds, NEW n \in ReelRow, rows' = [rows EXCEPT ![i] = n],
         rows[i].status # "none", n.status # "none",
         i = Expiry => /\ n.phase \in {"retain", "purge"}
                       /\ n.status = "processing" /\ n.phase = "purge" => purgeDue,
         n.status = "completed" =>
           /\ i \in Replies => i \notin objects
           /\ i = Media => Media \notin objects /\ comments = {}
           /\ i = Expiry /\ reel = "purged" => Media \notin objects /\ comments = {}
  PROVE  ReelDocs' /\ Keeps
<1> USE DEF Reel!content, Reel!clocks
<1>1. ReelTyped /\ ReelRowsFit /\ ReelStates /\ ReelNamed /\ Reel!EvidenceKept
          /\ Reel!CompletedMeansDone
      /\ ReelCounted /\ tally <= Cardinality(Replies)
  BY DEF ReelDocs
<1>2. rows \in [Reel!RowIds -> ReelRow] BY <1>1 DEF ReelTyped
<1>3. rows'[i] = n /\ \A k \in Reel!RowIds \ {i} : rows'[k] = rows[k] BY <1>2
<1>4. n.status \in RowStatuses BY DEF ReelRow
<1>5. \A k \in Reel!RowIds : (rows[k].status # "none") <=> (rows'[k].status # "none") BY <1>3
<1>6. \A k \in Reel!RowIds : Reel!Unfinished(k) => Reel!Unfinished(k)'
          \/ (k = i /\ n.status = "completed")
  BY <1>3, <1>4 DEF Reel!Unfinished, RowStatuses
<1>7. ReelTyped' BY <1>1, <1>2 DEF ReelTyped
<1>8. ReelRowsFit'
  <2>1. rows'[Media].status # "none" => draft' = "gone" /\ reel' \in {"none", "deleted"}
    BY <1>1, <1>5, ReelIds DEF ReelRowsFit
  <2>2. \A r \in Replies : rows'[r].status # "none" => sounds'[r] = "gone" /\ r \notin comments'
    BY <1>1, <1>5, ReelIds DEF ReelRowsFit
  <2>3. rows'[Expiry].status # "none" =>
          reel' \in {"expired", "purged", "deleted"}
               /\ rows'[Expiry].phase \in {"retain", "purge"}
    BY <1>1, <1>3, <1>5, ReelIds DEF ReelRowsFit
  <2>4. rows'[Expiry].status = "processing" /\ rows'[Expiry].phase = "purge" => purgeDue'
    BY <1>1, <1>3, ReelIds DEF ReelRowsFit
  <2>5. purgeDue' => rows'[Expiry].status # "none" BY <1>1, <1>5, ReelIds DEF ReelRowsFit
  <2> QED BY <2>1, <2>2, <2>3, <2>4, <2>5 DEF ReelRowsFit
<1>9. ReelStates' BY <1>1 DEF ReelStates
<1>10. ReelNamed'
  <2>1. Media \in objects => \/ draft \in {"open", "late"} \/ reel \in {"published", "expired"}
                             \/ Reel!Unfinished(Media)'
    BY <1>1, <1>6, ReelIds DEF ReelNamed
  <2>2. ASSUME NEW r \in Replies, r \in objects
        PROVE  \/ sounds[r] \in {"open", "late"} \/ Reel!Unfinished(r)'
               \/ r \in comments /\ (reel \in {"published", "expired"} \/ Reel!Unfinished(Media)')
    BY <1>1, <1>6, <2>2, ReelIds DEF ReelNamed
  <2> QED BY <2>1, <2>2 DEF ReelNamed
<1>11. Reel!EvidenceKept' BY <1>1 DEF Reel!EvidenceKept
<1>12. Reel!CompletedMeansDone'
  <2>1. rows'[Media].status = "completed" => Media \notin objects /\ comments = {}
    BY <1>1, <1>3, ReelIds DEF Reel!CompletedMeansDone
  <2>2. rows'[Expiry].status = "completed" /\ reel = "purged" =>
          Media \notin objects /\ comments = {}
    BY <1>1, <1>3, ReelIds DEF Reel!CompletedMeansDone
  <2>3. \A r \in Replies : rows'[r].status = "completed" => r \notin objects
    BY <1>1, <1>3, ReelIds DEF Reel!CompletedMeansDone
  <2> QED BY <2>1, <2>2, <2>3 DEF Reel!CompletedMeansDone
<1>13. ReelCounted' BY <1>1 DEF ReelCounted
<1>14. Keeps BY <1>5 DEF Keeps
<1> QED BY <1>1, <1>7, <1>8, <1>9, <1>10, <1>11, <1>12, <1>13, <1>14 DEF ReelDocs

\* A step that changes no document, no clock and no object.
LEMMA ReelQuiet ==
  ASSUME ReelDocs, UNCHANGED <<Reel!content, Reel!clocks, objects, rows>> PROVE ReelDocs' /\ Keeps
<1> USE DEF Reel!content, Reel!clocks
<1>1. ReelDocs'
  BY DEF ReelDocs, ReelTyped, ReelRowsFit, ReelStates, ReelNamed, Reel!EvidenceKept,
     Reel!CompletedMeansDone, ReelCounted,
         Reel!Unfinished
<1>2. Keeps BY DEF Keeps
<1> QED BY <1>1, <1>2

\* A row i is added as n: nothing that was there changes.
AddsRow(i, n) ==
  /\ rows' \in [Reel!RowIds -> ReelRow] /\ rows'[i] = n
  /\ \A k \in Reel!RowIds \ {i} : rows'[k] = rows[k] /\ Reel!Unfinished(k)' = Reel!Unfinished(k)
  /\ Reel!Unfinished(i)'
  /\ \A k \in Reel!RowIds : /\ rows[k].status # "none" => rows'[k].status # "none"
                            /\ Reel!Unfinished(k) => Reel!Unfinished(k)'
                            /\ rows'[k].status = "completed" =>
                                 rows[k].status = "completed" /\ k # i

\* Such a row comes of writing it.
LEMMA ReelAdded ==
  ASSUME rows \in [Reel!RowIds -> ReelRow], NEW i \in Reel!RowIds, NEW n \in ReelRow,
         rows' = [rows EXCEPT ![i] = n], n.status = "pending"
  PROVE  AddsRow(i, n)
BY DEF Reel!Unfinished, AddsRow

------------------------
\* The draft and its upload, before there is a Reel.
LEMMA ReelAuthorOpens ==
  ASSUME Reel!ReelAssumption, ReelDocs, Reel!reserveReelDraft \/ Reel!UploadMedia
       \/ Reel!DraftRunsOut
  PROVE  ReelDocs' /\ Keeps
<1>1. ReelTyped /\ ReelRowsFit /\ ReelStates /\ ReelNamed /\ Reel!EvidenceKept
          /\ Reel!CompletedMeansDone
      /\ ReelCounted /\ tally <= Cardinality(Replies)
  BY DEF ReelDocs
<1>2. draft # "gone" /\ reel = "none" /\ comments = {}
  BY <1>1 DEF ReelStates, Reel!reserveReelDraft, Reel!UploadMedia, Reel!DraftRunsOut
<1>3. rows[Media].status = "none" /\ rows[Expiry].status = "none" /\ ~purgeDue
  BY <1>1, <1>2 DEF ReelRowsFit
<1>4. UNCHANGED <<reel, comments, tally, sounds, Reel!clocks, rows>>
  BY DEF Reel!reserveReelDraft, Reel!UploadMedia, Reel!DraftRunsOut, Reel!content
<1>5. draft' \in {"open", "late"}
  BY DEF Reel!reserveReelDraft, Reel!UploadMedia, Reel!DraftRunsOut, Reel!content
<1>6. objects' = objects \/ objects' = objects \cup {Media}
  BY DEF Reel!reserveReelDraft, Reel!UploadMedia, Reel!DraftRunsOut
<1>7. \A r \in Replies : r \in objects' <=> r \in objects BY <1>6, ReelIds
<1> USE DEF Reel!clocks
<1>8. ReelTyped' BY <1>1, <1>4, <1>5, <1>6 DEF ReelTyped
<1>9. ReelRowsFit' BY <1>1, <1>3, <1>4 DEF ReelRowsFit
<1>10. ReelStates' BY <1>1, <1>2, <1>4 DEF ReelStates
<1>11. ReelNamed' BY <1>1, <1>2, <1>4, <1>5, <1>7 DEF ReelNamed, Reel!Unfinished
<1>12. Reel!EvidenceKept' BY <1>2, <1>4 DEF Reel!EvidenceKept
<1>13. Reel!CompletedMeansDone' BY <1>1, <1>2, <1>3, <1>4, <1>7 DEF Reel!CompletedMeansDone
<1>14. ReelCounted' BY <1>2, <1>4 DEF ReelCounted
<1>15. Keeps BY <1>2, <1>3, <1>4, <1>6, <1>7 DEF Keeps
<1> QED BY <1>1, <1>4, <1>8, <1>9, <1>10, <1>11, <1>12, <1>13, <1>14, <1>15 DEF ReelDocs

\* The publication.
LEMMA ReelPublish ==
  ASSUME Reel!ReelAssumption, FewReplies, ReelDocs, Reel!finalizeReelDraft
  PROVE ReelDocs' /\ Keeps
<1> USE DEF Reel!clocks, Reel!finalizeReelDraft, Reel!MediaVerified
<1>1. ReelTyped /\ ReelRowsFit /\ ReelStates /\ ReelNamed /\ Reel!EvidenceKept
          /\ Reel!CompletedMeansDone
      /\ ReelCounted /\ tally <= Cardinality(Replies)
  BY DEF ReelDocs
<1>2. comments = {} /\ tally = 0 BY <1>1 DEF ReelStates
<1>3. rows[Media].status = "none" /\ rows[Expiry].status = "none" /\ ~purgeDue
  BY <1>1, <1>2 DEF ReelRowsFit
<1>8. ReelTyped' BY <1>1 DEF ReelTyped
<1>9. ReelRowsFit' BY <1>1, <1>3 DEF ReelRowsFit
<1>10. ReelStates' BY <1>1, <1>2 DEF ReelStates
<1>11. ReelNamed' BY <1>1, <1>2 DEF ReelNamed, Reel!Unfinished
<1>12. Reel!EvidenceKept' BY <1>2 DEF Reel!EvidenceKept
<1>13. Reel!CompletedMeansDone' BY <1>1, <1>3 DEF Reel!CompletedMeansDone
<1>14. ReelCounted' BY <1>2, FS_EmptySet DEF ReelCounted
<1>15. Keeps BY <1>2 DEF Keeps
<1> QED BY <1>1, <1>8, <1>9, <1>10, <1>11, <1>12, <1>13, <1>14, <1>15 DEF ReelDocs

\* A draft that was never published gets its row.
LEMMA ReelAbandon ==
  ASSUME Reel!ReelAssumption, ReelDocs, Reel!expireAbandonedReelDrafts PROVE ReelDocs' /\ Keeps
<1> USE DEF Reel!clocks, Reel!expireAbandonedReelDrafts
<1>1. ReelTyped /\ ReelRowsFit /\ ReelStates /\ ReelNamed /\ Reel!EvidenceKept
          /\ Reel!CompletedMeansDone
      /\ ReelCounted /\ tally <= Cardinality(Replies)
  BY DEF ReelDocs
<1>2. reel = "none" /\ comments = {} BY <1>1 DEF ReelStates
<1>3. rows[Media].status = "none" /\ rows[Expiry].status = "none" /\ ~purgeDue
  BY <1>1, <1>2 DEF ReelRowsFit
<1>4. rows \in [Reel!RowIds -> ReelRow] BY <1>1 DEF ReelTyped
<1>5. AddsRow(Media, Reel!NewRow("delete"))
  BY <1>4, ReelAdded, ReelIds, ReelNewRow
<1>8. ReelTyped' BY <1>1, <1>5 DEF ReelTyped, AddsRow
<1>9. ReelRowsFit' BY <1>1, <1>2, <1>3, <1>5, ReelIds DEF ReelRowsFit, AddsRow
<1>10. ReelStates' BY <1>1, <1>2 DEF ReelStates
<1>11. ReelNamed'
  BY <1>1, <1>2, <1>5, ReelIds DEF ReelNamed, AddsRow
<1>12. Reel!EvidenceKept' BY <1>2 DEF Reel!EvidenceKept
<1>13. Reel!CompletedMeansDone' BY <1>1, <1>2, <1>5, ReelIds DEF Reel!CompletedMeansDone, AddsRow
<1>14. ReelCounted' BY <1>2 DEF ReelCounted
<1>15. Keeps BY <1>5 DEF Keeps, AddsRow
<1> QED BY <1>1, <1>8, <1>9, <1>10, <1>11, <1>12, <1>13, <1>14, <1>15 DEF ReelDocs

\* The window closes, and the retention ends.
LEMMA ReelClocks ==
  ASSUME Reel!ReelAssumption, ReelDocs, Reel!WindowCloses \/ Reel!RetentionEnds
  PROVE ReelDocs' /\ Keeps
<1>1. ReelTyped /\ ReelRowsFit /\ ReelStates /\ ReelNamed /\ Reel!EvidenceKept
          /\ Reel!CompletedMeansDone
      /\ ReelCounted /\ tally <= Cardinality(Replies)
  BY DEF ReelDocs
<1>2. UNCHANGED <<draft, reel, comments, tally, sounds, objects, rows>>
  BY DEF Reel!WindowCloses, Reel!RetentionEnds, Reel!content
<1>3. due' \in BOOLEAN /\ purgeDue' \in BOOLEAN /\ (purgeDue => purgeDue')
      /\ (purgeDue' => purgeDue \/ rows[Expiry].status # "none")
  <2>1. due \in BOOLEAN /\ purgeDue \in BOOLEAN BY <1>1 DEF ReelTyped
  <2>2. \/ due' = TRUE /\ purgeDue' = purgeDue
        \/ due' = due /\ purgeDue' = TRUE /\ rows[Expiry].status # "none"
    BY DEF Reel!WindowCloses, Reel!RetentionEnds
  <2>3. CASE due' = TRUE /\ purgeDue' = purgeDue BY <2>1, <2>3
  <2>4. CASE due' = due /\ purgeDue' = TRUE /\ rows[Expiry].status # "none" BY <2>1, <2>4
  <2> QED BY <2>2, <2>3, <2>4
<1>8. ReelTyped' BY <1>1, <1>2, <1>3 DEF ReelTyped
<1>9. ReelRowsFit' BY <1>1, <1>2, <1>3 DEF ReelRowsFit
<1>10. ReelStates' BY <1>1, <1>2 DEF ReelStates
<1>11. ReelNamed' BY <1>1, <1>2 DEF ReelNamed, Reel!Unfinished
<1>12. Reel!EvidenceKept' BY <1>1, <1>2, <1>3 DEF Reel!EvidenceKept
<1>13. Reel!CompletedMeansDone' BY <1>1, <1>2 DEF Reel!CompletedMeansDone
<1>14. ReelCounted' BY <1>1, <1>2, <1>3 DEF ReelCounted
<1>15. Keeps BY <1>2, <1>3 DEF Keeps
<1> QED BY <1>1, <1>2, <1>8, <1>9, <1>10, <1>11, <1>12, <1>13, <1>14, <1>15 DEF ReelDocs

\* A Reel expires, and its row of retention is written.
LEMMA ReelExpire ==
  ASSUME Reel!ReelAssumption, ReelDocs, Reel!expirePublishedReels PROVE ReelDocs' /\ Keeps
<1> USE DEF Reel!clocks, Reel!expirePublishedReels
<1>1. ReelTyped /\ ReelRowsFit /\ ReelStates /\ ReelNamed /\ Reel!EvidenceKept
          /\ Reel!CompletedMeansDone
      /\ ReelCounted /\ tally <= Cardinality(Replies)
  BY DEF ReelDocs
<1>3. rows[Media].status = "none" /\ rows[Expiry].status = "none" /\ ~purgeDue
  BY <1>1 DEF ReelRowsFit
<1>4. rows \in [Reel!RowIds -> ReelRow] BY <1>1 DEF ReelTyped
<1>5. AddsRow(Expiry, Reel!NewRow("retain"))
  BY <1>4, ReelAdded, ReelIds, ReelNewRow
<1>8. ReelTyped' BY <1>1, <1>5 DEF ReelTyped, AddsRow
<1>9. ReelRowsFit' BY <1>1, <1>3, <1>5, ReelIds, ReelNewRow DEF ReelRowsFit, AddsRow
<1>10. ReelStates' BY <1>1 DEF ReelStates
<1>11. ReelNamed' BY <1>1, <1>5, ReelIds DEF ReelNamed, AddsRow
<1>12. Reel!EvidenceKept' BY <1>1 DEF Reel!EvidenceKept
<1>13. Reel!CompletedMeansDone' BY <1>1, <1>5, ReelIds DEF Reel!CompletedMeansDone, AddsRow
<1>14. ReelCounted' BY <1>1 DEF ReelCounted
<1>15. Keeps BY <1>5 DEF Keeps, AddsRow
<1> QED BY <1>1, <1>8, <1>9, <1>10, <1>11, <1>12, <1>13, <1>14, <1>15 DEF ReelDocs

\* The author deletes: a purged Reel has nothing left to clean up.
LEMMA ReelDelete ==
  ASSUME Reel!ReelAssumption, ReelDocs, Reel!deleteReel PROVE ReelDocs' /\ Keeps
<1> USE DEF Reel!clocks, Reel!deleteReel
<1>1. ReelTyped /\ ReelRowsFit /\ ReelStates /\ ReelNamed /\ Reel!EvidenceKept
          /\ Reel!CompletedMeansDone
      /\ ReelCounted /\ tally <= Cardinality(Replies)
  BY DEF ReelDocs
<1>3. rows[Media].status = "none" /\ draft = "gone"
  BY <1>1 DEF ReelRowsFit, ReelStates
<1>4. rows \in [Reel!RowIds -> ReelRow] BY <1>1 DEF ReelTyped
<1>5. CASE reel = "purged"
  <2>1. Media \notin objects /\ comments = {} /\ rows' = rows BY <1>1, <1>5 DEF ReelStates
  <2>8. ReelTyped' BY <1>1, <2>1 DEF ReelTyped
  <2>9. ReelRowsFit' BY <1>1, <2>1, <1>3, <1>5 DEF ReelRowsFit
  <2>10. ReelStates' BY <1>1, <2>1, <1>3 DEF ReelStates
  <2>11. ReelNamed' BY <1>1, <2>1, <1>5 DEF ReelNamed, Reel!Unfinished
  <2>12. Reel!EvidenceKept' BY DEF Reel!EvidenceKept
  <2>13. Reel!CompletedMeansDone' BY <1>1, <2>1 DEF Reel!CompletedMeansDone
  <2>14. ReelCounted' BY DEF ReelCounted
  <2>15. Keeps BY <2>1, <1>5 DEF Keeps
  <2> QED BY <1>1, <2>8, <2>9, <2>10, <2>11, <2>12, <2>13, <2>14, <2>15 DEF ReelDocs
<1>6. CASE reel # "purged"
  <2>1. AddsRow(Media, Reel!NewRow("delete"))
    BY <1>4, <1>6, ReelAdded, ReelIds, ReelNewRow
  <2>8. ReelTyped' BY <1>1, <2>1 DEF ReelTyped, AddsRow
  <2>9. ReelRowsFit' BY <1>1, <2>1, <1>3, <1>6, ReelIds DEF ReelRowsFit, AddsRow
  <2>10. ReelStates' BY <1>1, <1>3 DEF ReelStates
  <2>11. ReelNamed' BY <1>1, <2>1, ReelIds DEF ReelNamed, AddsRow
  <2>12. Reel!EvidenceKept' BY DEF Reel!EvidenceKept
  <2>13. Reel!CompletedMeansDone' BY <1>1, <2>1, ReelIds DEF Reel!CompletedMeansDone, AddsRow
  <2>14. ReelCounted' BY DEF ReelCounted
  <2>15. Keeps BY <2>1, <1>6 DEF Keeps, AddsRow
  <2> QED BY <1>1, <2>8, <2>9, <2>10, <2>11, <2>12, <2>13, <2>14, <2>15 DEF ReelDocs, AddsRow
<1> QED BY <1>5, <1>6

------------------------
\* The sound of a comment before there is a comment.
LEMMA ReelSounds ==
  ASSUME Reel!ReelAssumption, ReelDocs, NEW r \in Replies,
         Reel!reserveReelVoiceCommentDraft(r) \/ Reel!UploadSound(r) \/ Reel!SoundRunsOut(r)
  PROVE  ReelDocs' /\ Keeps
<1>1. ReelTyped /\ ReelRowsFit /\ ReelStates /\ ReelNamed /\ Reel!EvidenceKept
          /\ Reel!CompletedMeansDone
      /\ ReelCounted /\ tally <= Cardinality(Replies)
  BY DEF ReelDocs
<1>2. sounds[r] \in {"none", "open"}
  BY DEF Reel!reserveReelVoiceCommentDraft, Reel!UploadSound, Reel!SoundRunsOut
<1>3. UNCHANGED <<draft, reel, comments, tally, Reel!clocks, rows>>
  BY DEF Reel!reserveReelVoiceCommentDraft, Reel!UploadSound, Reel!SoundRunsOut, Reel!content
<1>4. /\ sounds' \in [Replies -> {"none", "open", "late", "gone"}]
      /\ sounds'[r] \in {"open", "late"}
      /\ \A q \in Replies \ {r} : sounds'[q] = sounds[q]
  BY <1>1 DEF Reel!reserveReelVoiceCommentDraft, Reel!UploadSound, Reel!SoundRunsOut,
     Reel!content, ReelTyped
<1>5. objects' = objects \/ objects' = objects \cup {r}
  BY DEF Reel!reserveReelVoiceCommentDraft, Reel!UploadSound, Reel!SoundRunsOut
<1>6. (Media \in objects' <=> Media \in objects)
      /\ \A q \in Replies \ {r} : q \in objects' <=> q \in objects
  BY <1>5, ReelIds
<1>7. rows[r].status = "none" /\ r \notin comments BY <1>1, <1>2 DEF ReelRowsFit, ReelStates
<1> USE DEF Reel!clocks
<1>8. ReelTyped' BY <1>1, <1>3, <1>4, <1>5 DEF ReelTyped
<1>9. ReelRowsFit' BY <1>1, <1>3, <1>4, <1>7 DEF ReelRowsFit
<1>10. ReelStates' BY <1>1, <1>3, <1>4, <1>6, <1>7 DEF ReelStates, ReelTyped
<1>11. ReelNamed' BY <1>1, <1>3, <1>4, <1>6 DEF ReelNamed, Reel!Unfinished
<1>12. Reel!EvidenceKept' BY <1>1, <1>3, <1>5 DEF Reel!EvidenceKept
<1>13. Reel!CompletedMeansDone' BY <1>1, <1>3, <1>6, <1>7 DEF Reel!CompletedMeansDone
<1>14. ReelCounted' BY <1>1, <1>3 DEF ReelCounted
<1>15. Keeps BY <1>3, <1>6, <1>7 DEF Keeps
<1> QED BY <1>1, <1>3, <1>8, <1>9, <1>10, <1>11, <1>12, <1>13, <1>14, <1>15 DEF ReelDocs

\* A comment is written and counted.
LEMMA ReelComments ==
  ASSUME Reel!ReelAssumption, FewReplies, ReelDocs, NEW r \in Replies,
       Reel!finalizeReelVoiceCommentDraft(r)
  PROVE  ReelDocs' /\ Keeps
<1> USE DEF Reel!clocks, Reel!finalizeReelVoiceCommentDraft, Reel!EngageableNow, Reel!Engageable
<1>1. ReelTyped /\ ReelRowsFit /\ ReelStates /\ ReelNamed /\ Reel!EvidenceKept
          /\ Reel!CompletedMeansDone
      /\ ReelCounted /\ tally <= Cardinality(Replies)
  BY DEF ReelDocs
<1>2. /\ rows[r].status = "none" /\ rows[Media].status = "none" /\ rows[Expiry].status = "none"
      /\ ~purgeDue /\ r \notin comments
  BY <1>1 DEF ReelRowsFit, ReelStates
<1>3. sounds \in [Replies -> {"none", "open", "late", "gone"}] /\ comments \subseteq Replies
      /\ tally \in Nat
  BY <1>1 DEF ReelTyped
<1>4. sounds'[r] = "gone" /\ \A q \in Replies \ {r} : sounds'[q] = sounds[q] BY <1>3
<1>5. /\ tally = Cardinality(comments) /\ IsFiniteSet(comments)
      /\ Cardinality(comments \cup {r}) = tally + 1
      /\ Cardinality(comments \cup {r}) <= Cardinality(Replies)
  <2>1. tally = Cardinality(comments) BY <1>1, <1>2 DEF ReelCounted
  <2>2. IsFiniteSet(comments) BY <1>3, FS_Subset DEF FewReplies
  <2>3. Cardinality(comments \cup {r}) = Cardinality(comments) + 1
    BY <1>2, <2>2, FS_AddElement
  <2>4. comments \cup {r} \subseteq Replies BY <1>3
  <2>5. Cardinality(comments \cup {r}) <= Cardinality(Replies) BY <2>4, FS_Subset DEF FewReplies
  <2> QED BY <2>1, <2>2, <2>3, <2>5
<1>8. ReelTyped' BY <1>1, <1>3 DEF ReelTyped
<1>9. ReelRowsFit' BY <1>1, <1>2, <1>4 DEF ReelRowsFit
<1>10. ReelStates' BY <1>1, <1>3, <1>4 DEF ReelStates
<1>11. ReelNamed' BY <1>1, <1>4 DEF ReelNamed, Reel!Unfinished
<1>12. Reel!EvidenceKept' BY <1>1 DEF Reel!EvidenceKept
<1>13. Reel!CompletedMeansDone' BY <1>1, <1>2 DEF Reel!CompletedMeansDone
<1>14. ReelCounted' BY <1>5 DEF ReelCounted
<1>15. Keeps BY <1>2 DEF Keeps
<1> QED BY <1>5, <1>8, <1>9, <1>10, <1>11, <1>12, <1>13, <1>14, <1>15 DEF ReelDocs

\* A sound that was never commented with gets its row.
LEMMA ReelLapses ==
  ASSUME Reel!ReelAssumption, ReelDocs, NEW r \in Replies,
       Reel!expireAbandonedReelVoiceCommentDrafts(r)
  PROVE  ReelDocs' /\ Keeps
<1> USE DEF Reel!clocks, Reel!expireAbandonedReelVoiceCommentDrafts
<1>1. ReelTyped /\ ReelRowsFit /\ ReelStates /\ ReelNamed /\ Reel!EvidenceKept
          /\ Reel!CompletedMeansDone
      /\ ReelCounted /\ tally <= Cardinality(Replies)
  BY DEF ReelDocs
<1>2. r \notin comments BY <1>1 DEF ReelStates
<1>3. rows \in [Reel!RowIds -> ReelRow]
          /\ sounds \in [Replies -> {"none", "open", "late", "gone"}]
      /\ comments \subseteq Replies
  BY <1>1 DEF ReelTyped
<1>4. sounds'[r] = "gone" /\ \A q \in Replies \ {r} : sounds'[q] = sounds[q] BY <1>3
<1>5. AddsRow(r, Reel!NewRow("delete"))
  BY <1>3, ReelAdded, ReelIds, ReelNewRow
<1>8. ReelTyped' BY <1>1, <1>5 DEF ReelTyped, AddsRow
<1>9. ReelRowsFit'
  <2>1. rows'[Media] = rows[Media] /\ rows'[Expiry] = rows[Expiry] BY <1>5, ReelIds DEF AddsRow
  <2>2. \A q \in Replies : rows'[q].status # "none" => sounds'[q] = "gone" /\ q \notin comments
    BY <1>1, <1>2, <1>4, <1>5, ReelIds DEF ReelRowsFit, AddsRow
  <2> QED BY <1>1, <2>1, <2>2 DEF ReelRowsFit
<1>10. ReelStates' BY <1>1, <1>3, <1>4 DEF ReelStates
<1>11. ReelNamed'
  <2>1. Reel!Unfinished(Media)' = Reel!Unfinished(Media) BY <1>5, ReelIds DEF AddsRow
  <2>2. \A q \in Replies : q = r
            \/ (sounds'[q] = sounds[q] /\ Reel!Unfinished(q)' = Reel!Unfinished(q))
    BY <1>4, <1>5, ReelIds DEF AddsRow
  <2> QED BY <1>1, <1>5, <2>1, <2>2 DEF ReelNamed, AddsRow
<1>12. Reel!EvidenceKept' BY <1>1 DEF Reel!EvidenceKept
<1>13. Reel!CompletedMeansDone' BY <1>1, <1>5, ReelIds DEF Reel!CompletedMeansDone, AddsRow
<1>14. ReelCounted' BY <1>1 DEF ReelCounted
<1>15. Keeps BY <1>5 DEF Keeps, AddsRow
<1> QED BY <1>1, <1>8, <1>9, <1>10, <1>11, <1>12, <1>13, <1>14, <1>15 DEF ReelDocs

\* A comment is removed and its sound gets its row.
LEMMA ReelRemoves ==
  ASSUME Reel!ReelAssumption, FewReplies, ReelDocs, NEW r \in Replies, Reel!removeReelComment(r)
  PROVE  ReelDocs' /\ Keeps
<1> USE DEF Reel!clocks, Reel!removeReelComment, Reel!StillThere
<1>1. ReelTyped /\ ReelRowsFit /\ ReelStates /\ ReelNamed /\ Reel!EvidenceKept
          /\ Reel!CompletedMeansDone
      /\ ReelCounted /\ tally <= Cardinality(Replies)
  BY DEF ReelDocs
<1>2. sounds[r] = "gone" BY <1>1 DEF ReelStates
<1>3. rows \in [Reel!RowIds -> ReelRow] /\ comments \subseteq Replies /\ tally \in Nat
      /\ Cardinality(Replies) \in Nat
  BY <1>1, FS_CardinalityType DEF ReelTyped, FewReplies
<1>4. /\ tally - 1 \in Nat /\ tally - 1 <= Cardinality(Replies)
      /\ tally = Cardinality(comments) => tally - 1 = Cardinality(comments \ {r})
  <2>1. IsFiniteSet(comments) BY <1>3, FS_Subset DEF FewReplies
  <2>2. Cardinality(comments \ {r}) = Cardinality(comments) - 1 BY <2>1, FS_RemoveElement
  <2>3. tally > 0 /\ tally <= Cardinality(Replies) BY <1>1
  <2> QED BY <1>3, <2>2, <2>3
<1>5. AddsRow(r, Reel!NewRow("delete"))
  BY <1>3, ReelAdded, ReelIds, ReelNewRow
<1>8. ReelTyped' BY <1>1, <1>4, <1>5 DEF ReelTyped, AddsRow
<1>9. ReelRowsFit'
  <2>1. rows'[Media] = rows[Media] /\ rows'[Expiry] = rows[Expiry] BY <1>5, ReelIds DEF AddsRow
  <2>2. \A q \in Replies : rows'[q].status # "none" => sounds[q] = "gone" /\ q \notin comments'
    BY <1>1, <1>2, <1>5, ReelIds DEF ReelRowsFit, AddsRow
  <2> QED BY <1>1, <2>1, <2>2 DEF ReelRowsFit
<1>10. ReelStates' BY <1>1 DEF ReelStates
<1>11. ReelNamed'
  <2>1. Reel!Unfinished(Media)' = Reel!Unfinished(Media) BY <1>5, ReelIds DEF AddsRow
  <2>2. \A q \in Replies : q = r \/ (q \in comments => q \in comments')
    OBVIOUS
  <2>3. \A q \in Replies : Reel!Unfinished(q) => Reel!Unfinished(q)' BY <1>5, ReelIds DEF AddsRow
  <2> QED BY <1>1, <1>5, <2>1, <2>2, <2>3 DEF ReelNamed, AddsRow
<1>12. Reel!EvidenceKept' BY <1>1 DEF Reel!EvidenceKept
<1>13. Reel!CompletedMeansDone' BY <1>1, <1>5, ReelIds DEF Reel!CompletedMeansDone, AddsRow
<1>14. ReelCounted' BY <1>1, <1>4 DEF ReelCounted
<1>15. Keeps BY <1>5 DEF Keeps, AddsRow
<1> QED BY <1>4, <1>8, <1>9, <1>10, <1>11, <1>12, <1>13, <1>14, <1>15 DEF ReelDocs

------------------------
\* What a worker holds.
LEMMA ReelHeld ==
  ASSUME Reel!ReelAssumption, ReelInv, NEW w \in Purgers, purger[w].at # "idle"
  PROVE  /\ purger[w] \in Purging /\ purger[w].row \in Reel!RowIds /\ purger[w].at \in PurgeSteps
         /\ rows[purger[w].row] \in ReelRow /\ rows[purger[w].row].status # "none"
         /\ ReelWorker(w)
<1>1. purger[w] \in Purging BY DEF ReelInv, ReelCrew, Reel!Idle
<1>2. ReelWorker(w) BY DEF ReelInv, ReelCrew
<1>3. purger[w].row \in Reel!RowIds /\ purger[w].at \in PurgeSteps BY <1>1 DEF Purging
<1>4. rows \in [Reel!RowIds -> ReelRow] BY DEF ReelInv, ReelDocs, ReelTyped
<1>5. rows[purger[w].row].status # "none" BY <1>2 DEF ReelWorker
<1> QED BY <1>1, <1>2, <1>3, <1>4, <1>5

\* A worker that only moves on to its next step.
LEMMA ReelWalks ==
  ASSUME Reel!ReelAssumption, ReelInv, NEW w \in Purgers, purger[w].at # "idle",
       NEW s \in PurgeSteps,
         Reel!GoesTo(w, s)
  PROVE  \E x \in Purging : /\ purger' = [purger EXCEPT ![w] = x] /\ x.at = s
                            /\ x.row = purger[w].row /\ x.skip = purger[w].skip
                            /\ purger'[w] = x
<1>1. purger[w] \in Purging BY ReelHeld
<1>2. PICK t \in Purging : t = purger[w] BY <1>1
<1>3. purger \in [Purgers -> Purging \cup {Reel!Idle}] BY DEF ReelInv, ReelCrew
<1>4. [t EXCEPT !.at = s] \in Purging /\ [t EXCEPT !.at = s].at = s
      /\ [t EXCEPT !.at = s].row = t.row /\ [t EXCEPT !.at = s].skip = t.skip
  BY DEF Purging
<1>5. purger' = [purger EXCEPT ![w] = [t EXCEPT !.at = s]] BY <1>2, <1>3 DEF Reel!GoesTo
<1>6. purger'[w] = [t EXCEPT !.at = s] BY <1>3, <1>5
<1> QED BY <1>2, <1>4, <1>5, <1>6

\* A worker is done or dead.
LEMMA ReelIdles ==
  ASSUME Reel!ReelAssumption, ReelInv, NEW w \in Purgers, Keeps,
       purger' = [purger EXCEPT ![w] = Reel!Idle]
  PROVE  ReelCrew'
<1>1. Reel!Idle \in Purging \cup {Reel!Idle} /\ Reel!Idle.at = "idle" BY DEF Reel!Idle
<1>2. purger'[w] = Reel!Idle => ReelWorker(w)' BY <1>1 DEF ReelWorker
<1> QED BY <1>1, <1>2, ReelCrewMoves DEF ReelInv

\* A worker claims a row that is ready or abandoned, and no other.
LEMMA ReelClaims ==
  ASSUME Reel!ReelAssumption, ReelInv, NEW w \in Purgers, NEW i \in Reel!RowIds,
       Reel!claimCleanupOutbox(w, i)
  PROVE  ReelInv' /\ Keeps
<1>1. rows \in [Reel!RowIds -> ReelRow] /\ ReelRowsFit /\ ReelDocs
     BY DEF ReelInv, ReelDocs, ReelTyped
<1>2. PICK t \in ReelRow : t = rows[i] BY <1>1
<1>11. PICK a \in Nat : a = t.attempts + 1 BY DEF ReelRow
<1> DEFINE n == [t EXCEPT !.status = "processing", !.attempts = a, !.leased = TRUE]
<1>3. n \in ReelRow /\ n.status = "processing" /\ n.phase = t.phase BY DEF ReelRow, RowStatuses
<1>4. rows' = [rows EXCEPT ![i] = n] BY <1>1, <1>2, <1>11 DEF Reel!claimCleanupOutbox
<1>5. rows[i].status # "none"
      /\ (i = Expiry => t.phase \in {"retain", "purge"} /\ (t.phase = "purge" => purgeDue))
  <2>1. rows[i].status = "processing"
            \/ (rows[i].status = "pending" /\ (t.phase = "purge" => purgeDue))
    BY <1>2 DEF Reel!claimCleanupOutbox, Reel!Ready, Reel!Abandoned
  <2> QED BY <1>1, <1>2, <2>1 DEF ReelRowsFit
<1> HIDE DEF n
<1>6. ReelDocs' /\ Keeps
  BY <1>1, <1>3, <1>4, <1>5, ReelBook DEF Reel!claimCleanupOutbox
<1> DEFINE x == [at |-> Reel!FirstStep(i), row |-> i, pages |-> 0,
                 token |-> rows[i].attempts + 1, skip |-> FALSE]
<1>7. x \in Purging
  <2>1. rows[i].attempts \in Nat BY <1>1 DEF ReelRow
  <2>2. Reel!FirstStep(i) \in PurgeSteps BY DEF Reel!FirstStep, PurgeSteps
  <2> QED BY <2>1, <2>2 DEF Purging
<1>8. purger' = [purger EXCEPT ![w] = x] BY DEF Reel!claimCleanupOutbox
<1>9. purger'[w] = x => ReelWorker(w)'
  <2>1. rows'[i].status # "none" /\ purgeDue' = purgeDue
    BY <1>1, <1>3, <1>4 DEF Reel!claimCleanupOutbox, Reel!clocks
  <2>2. x.at = Reel!FirstStep(i) /\ x.row = i /\ x.skip = FALSE OBVIOUS
  <2>3. i \in Replies => Reel!FirstStep(i) = "objects" BY DEF Reel!FirstStep
  <2>4. i = Media => Reel!FirstStep(i) = "engage" BY ReelIds DEF Reel!FirstStep
  <2>5. i = Expiry => Reel!FirstStep(i) = "retain" \/ (Reel!FirstStep(i) = "judge" /\ purgeDue)
    BY <1>2, <1>5, ReelIds DEF Reel!FirstStep
  <2> HIDE DEF x
  <2> SUFFICES ASSUME purger'[w] = x PROVE ReelWorker(w)' OBVIOUS
  <2>6. CASE i \in Replies BY <2>1, <2>2, <2>3, <2>6, ReelIds DEF ReelWorker
  <2>7. CASE i = Media BY <2>1, <2>2, <2>4, <2>7, ReelIds DEF ReelWorker
  <2>8. CASE i = Expiry BY <2>1, <2>2, <2>5, <2>8, ReelIds DEF ReelWorker
  <2> QED BY <2>6, <2>7, <2>8, ReelIds
<1> HIDE DEF x
<1>10. ReelCrew' BY <1>6, <1>7, <1>8, <1>9, ReelCrewMoves DEF ReelInv
<1> QED BY <1>6, <1>10 DEF ReelInv

\* A lease runs out.
LEMMA ReelLeases ==
  ASSUME Reel!ReelAssumption, ReelInv, NEW i \in Reel!RowIds, Reel!LeaseRunsOut(i)
  PROVE ReelInv' /\ Keeps
<1>1. rows \in [Reel!RowIds -> ReelRow] /\ ReelRowsFit /\ ReelDocs
     BY DEF ReelInv, ReelDocs, ReelTyped
<1>2. PICK t \in ReelRow : t = rows[i] BY <1>1
<1> DEFINE n == [t EXCEPT !.leased = FALSE]
<1>3. n \in ReelRow /\ n.status = t.status /\ n.phase = t.phase BY DEF ReelRow, RowStatuses
<1>4. rows' = [rows EXCEPT ![i] = n] BY <1>1, <1>2 DEF Reel!LeaseRunsOut
<1>5. t.status = "processing" /\ (i = Expiry => t.phase \in {"retain", "purge"}
      /\ (t.phase = "purge" => purgeDue))
  BY <1>1, <1>2 DEF Reel!LeaseRunsOut, ReelRowsFit
<1> HIDE DEF n
<1>6. ReelDocs' /\ Keeps
  BY <1>1, <1>2, <1>3, <1>4, <1>5, ReelBook DEF Reel!LeaseRunsOut
<1>7. ReelCrew' BY <1>6, ReelCrewStays DEF ReelInv, Reel!LeaseRunsOut
<1> QED BY <1>6, <1>7 DEF ReelInv

\* A worker dies.
LEMMA ReelDies ==
  ASSUME Reel!ReelAssumption, ReelInv, NEW w \in Purgers, Reel!Dies(w) PROVE ReelInv' /\ Keeps
<1>1. ReelDocs' /\ Keeps BY ReelQuiet DEF Reel!Dies, ReelInv
<1> QED BY <1>1, ReelIdles DEF Reel!Dies, ReelInv

\* A worker records its failure if it has the lease still.
LEMMA ReelFails ==
  ASSUME Reel!ReelAssumption, ReelInv, NEW w \in Purgers, purger[w].at # "idle",
         Reel!recordCleanupFailure(w)
  PROVE  ReelInv' /\ Keeps
<1>1. rows \in [Reel!RowIds -> ReelRow] /\ ReelRowsFit /\ ReelDocs
     BY DEF ReelInv, ReelDocs, ReelTyped
<1> DEFINE i == purger[w].row
<1>2. i \in Reel!RowIds BY ReelHeld
<1>3. ReelDocs' /\ Keeps
  <2>1. CASE ~Reel!HoldsLease(w) BY <1>1, <2>1, ReelQuiet DEF Reel!recordCleanupFailure
  <2>2. CASE Reel!HoldsLease(w)
    <3>1. PICK t \in ReelRow : t = rows[i] BY <1>1, <1>2
    <3>2. PICK s \in {"deadLetter", "pending"} :
            s = IF Reel!OutOfAttempts(w) THEN "deadLetter" ELSE "pending"
      OBVIOUS
    <3> DEFINE n == [t EXCEPT !.leased = FALSE, !.status = s]
    <3>3. n \in ReelRow /\ n.status = s /\ n.phase = t.phase BY DEF ReelRow, RowStatuses
    <3>4. rows' = [rows EXCEPT ![i] = n]
         BY <1>1, <1>2, <2>2, <3>1, <3>2 DEF Reel!recordCleanupFailure
    <3>5. t.status = "processing" BY <2>2, <3>1 DEF Reel!HoldsLease
    <3>6. i = Expiry => t.phase \in {"retain", "purge"} BY <1>1, <3>1, <3>5 DEF ReelRowsFit
    <3> HIDE DEF n, i
    <3> QED BY <1>1, <1>2, <3>1, <3>3, <3>4, <3>5, <3>6, ReelBook DEF Reel!recordCleanupFailure
  <2> QED BY <2>1, <2>2
<1> QED BY <1>3, ReelIdles DEF Reel!recordCleanupFailure, ReelInv

------------------------
\* A worker with the lease completes the row of an object: it is gone by then.
LEMMA ReelCompletes ==
  ASSUME Reel!ReelAssumption, ReelInv, NEW w \in Purgers, Reel!completeCleanupOutbox(w)
  PROVE  ReelInv' /\ Keeps
<1>1. rows \in [Reel!RowIds -> ReelRow] /\ ReelRowsFit /\ ReelDocs
     BY DEF ReelInv, ReelDocs, ReelTyped
<1>2. purger[w].at = "settle" /\ purger[w].row # Expiry BY DEF Reel!completeCleanupOutbox
<1> DEFINE i == purger[w].row
<1>3. i \in Reel!RowIds /\ ReelWorker(w) BY <1>2, ReelHeld
<1>4. ReelDocs' /\ Keeps
  <2>1. CASE ~Reel!HoldsLease(w) BY <1>1, <2>1, ReelQuiet DEF Reel!completeCleanupOutbox
  <2>2. CASE Reel!HoldsLease(w)
    <3>1. PICK t \in ReelRow : t = rows[i] BY <1>1, <1>3
    <3> DEFINE n == [t EXCEPT !.status = "completed", !.leased = FALSE]
    <3>3. n \in ReelRow /\ n.status = "completed" BY DEF ReelRow, RowStatuses
    <3>4. rows' = [rows EXCEPT ![i] = n]
      BY <2>2, <3>1 DEF Reel!completeCleanupOutbox, Reel!Settles, Reel!Completed
    <3>5. t.status = "processing" BY <2>2, <3>1 DEF Reel!HoldsLease
    <3>6. (i \in Replies => i \notin objects)
              /\ (i = Media => Media \notin objects /\ comments = {})
      BY <1>2, <1>3 DEF ReelWorker
    <3> HIDE DEF n
    <3>7. i # Expiry BY <1>2
    <3> HIDE DEF i
    <3> QED BY <1>1, <1>3, <3>1, <3>3, <3>4, <3>5, <3>6, <3>7, ReelBook
            DEF Reel!completeCleanupOutbox
  <2> QED BY <2>1, <2>2
<1> QED BY <1>4, ReelIdles DEF Reel!completeCleanupOutbox, ReelInv

\* The purge of the engagement reads the root: it is retired for good.
LEMMA ReelPurgeReads ==
  ASSUME Reel!ReelAssumption, ReelInv, NEW w \in Purgers, Reel!PurgeReadsRoot(w)
  PROVE ReelInv' /\ Keeps
<1>1. ReelRowsFit /\ ReelDocs BY DEF ReelInv, ReelDocs
<1>2. ReelDocs' /\ Keeps BY <1>1, ReelQuiet DEF Reel!PurgeReadsRoot
<1>3. purger[w].at = "engage" BY DEF Reel!PurgeReadsRoot
<1>4. purger[w].row \in Reel!RowIds /\ ReelWorker(w) /\ rows[purger[w].row].status # "none"
  BY <1>3, ReelHeld
<1>5. purger[w].row \in {Media, Expiry} BY <1>3, <1>4, ReelIds DEF ReelWorker
<1>6. Reel!Retired(w) BY <1>1, <1>4, <1>5 DEF Reel!Retired, ReelRowsFit
<1>7. Reel!GoesTo(w, "queue") BY <1>6 DEF Reel!PurgeReadsRoot
<1>8. "queue" \in PurgeSteps BY DEF PurgeSteps
<1>9. PICK x \in Purging : /\ purger' = [purger EXCEPT ![w] = x] /\ x.at = "queue"
                           /\ x.row = purger[w].row /\ x.skip = purger[w].skip /\ purger'[w] = x
  BY <1>3, <1>7, <1>8, ReelWalks
<1>10. UNCHANGED <<reel, comments, objects, rows, purgeDue>>
  BY DEF Reel!PurgeReadsRoot, Reel!content, Reel!clocks
<1>11. ReelWorker(w)'
  BY <1>3, <1>4, <1>5, <1>9, <1>10, ReelIds DEF ReelWorker
<1> QED BY <1>2, <1>9, <1>11, ReelCrewMoves DEF ReelInv

\* No comment is left to be queued.
LEMMA ReelQueueEnds ==
  ASSUME Reel!ReelAssumption, ReelInv, NEW w \in Purgers, Reel!QueueIsEmpty(w)
  PROVE ReelInv' /\ Keeps
<1>1. ReelRowsFit /\ ReelDocs BY DEF ReelInv, ReelDocs
<1>2. ReelDocs' /\ Keeps BY <1>1, ReelQuiet DEF Reel!QueueIsEmpty
<1>3. purger[w].at = "queue" /\ comments = {} BY DEF Reel!QueueIsEmpty
<1>4. purger[w].row \in Reel!RowIds /\ ReelWorker(w) /\ rows[purger[w].row].status # "none"
  BY <1>3, ReelHeld
<1>5. purger[w].row \in {Media, Expiry} BY <1>3, <1>4, ReelIds DEF ReelWorker
<1>8. "sweep" \in PurgeSteps BY DEF PurgeSteps
<1>9. PICK x \in Purging : /\ purger' = [purger EXCEPT ![w] = x] /\ x.at = "sweep"
                           /\ x.row = purger[w].row /\ x.skip = purger[w].skip /\ purger'[w] = x
  BY <1>3, <1>8, ReelWalks DEF Reel!QueueIsEmpty
<1>10. UNCHANGED <<reel, comments, objects, rows, purgeDue>>
  BY DEF Reel!QueueIsEmpty, Reel!content, Reel!clocks
<1>11. ReelWorker(w)'
  BY <1>3, <1>4, <1>5, <1>9, <1>10, ReelIds DEF ReelWorker
<1> QED BY <1>2, <1>9, <1>11, ReelCrewMoves DEF ReelInv

\* The sweep after the queue finds no comment.
LEMMA ReelSweeps ==
  ASSUME Reel!ReelAssumption, ReelInv, NEW w \in Purgers, Reel!PurgeSweeps(w)
  PROVE ReelInv' /\ Keeps
<1>1. ReelRowsFit /\ ReelStates /\ ReelDocs BY DEF ReelInv, ReelDocs
<1>3. purger[w].at = "sweep" BY DEF Reel!PurgeSweeps
<1>4. purger[w].row \in Reel!RowIds /\ ReelWorker(w) /\ rows[purger[w].row].status # "none"
  BY <1>3, ReelHeld
<1>5. purger[w].row \in {Media, Expiry} /\ comments = {} BY <1>3, <1>4, ReelIds DEF ReelWorker
<1>10. UNCHANGED <<Reel!content, Reel!clocks, reel, comments, objects, rows, purgeDue>>
  BY <1>5 DEF Reel!PurgeSweeps, Reel!content, Reel!clocks
<1>2. ReelDocs' /\ Keeps BY <1>1, <1>10, ReelQuiet
<1>6. PICK s \in PurgeSteps : s = IF purger[w].skip THEN "settle" ELSE "objects" BY DEF PurgeSteps
<1>9. PICK x \in Purging : /\ purger' = [purger EXCEPT ![w] = x] /\ x.at = s
                           /\ x.row = purger[w].row /\ x.skip = purger[w].skip /\ purger'[w] = x
  BY <1>3, <1>6, ReelWalks DEF Reel!PurgeSweeps
<1>11. ReelWorker(w)'
  <2>1. CASE purger[w].row = Media
    BY <2>1, <1>3, <1>4, <1>5, <1>6, <1>9, <1>10, ReelIds DEF ReelWorker
  <2>2. CASE purger[w].row = Expiry
    <3>1. purger[w].skip => reel = "deleted" \/ (Media \notin objects /\ comments = {})
      BY <1>1, <1>3, <1>4, <2>2 DEF ReelWorker, ReelStates
    <3> QED BY <2>2, <3>1, <1>3, <1>4, <1>5, <1>6, <1>9, <1>10, ReelIds DEF ReelWorker
  <2> QED BY <1>5, <2>1, <2>2
<1> QED BY <1>2, <1>9, <1>11, ReelCrewMoves DEF ReelInv

\* An object is deleted, with the lease or without: nothing shows it any more.
LEMMA ReelDeletes ==
  ASSUME Reel!ReelAssumption, ReelInv, NEW w \in Purgers, Reel!CleanupDeletesObjects(w)
  PROVE  ReelInv' /\ Keeps
<1>1. ReelTyped /\ ReelRowsFit /\ ReelStates /\ ReelNamed /\ Reel!EvidenceKept
          /\ Reel!CompletedMeansDone
      /\ ReelCounted /\ tally <= Cardinality(Replies)
  BY DEF ReelInv, ReelDocs
<1>3. purger[w].at = "objects" BY DEF Reel!CleanupDeletesObjects
<1>4. purger[w].row \in Reel!RowIds /\ ReelWorker(w) /\ rows[purger[w].row].status # "none"
  BY <1>3, ReelHeld
<1>5. UNCHANGED <<draft, reel, comments, tally, sounds, due, purgeDue, rows>>
  BY DEF Reel!CleanupDeletesObjects, Reel!content, Reel!clocks
<1> DEFINE gone == IF purger[w].row = Expiry THEN Media ELSE purger[w].row
<1>6. objects' = objects \ {gone} BY DEF Reel!CleanupDeletesObjects
<1>7. \/ gone \in Replies /\ gone = purger[w].row /\ gone \notin comments
      \/ gone = Media /\ (reel = "published" \/ (reel = "expired" /\ ~purgeDue) => FALSE)
  <2>1. CASE purger[w].row \in Replies BY <1>1, <1>4, <2>1, ReelIds DEF ReelRowsFit
  <2>2. CASE purger[w].row = Media BY <1>1, <1>4, <2>2, ReelIds DEF ReelRowsFit
  <2>3. CASE purger[w].row = Expiry BY <1>1, <1>3, <1>4, <2>3, ReelIds DEF ReelRowsFit, ReelWorker
  <2> QED BY <1>4, <2>1, <2>2, <2>3, ReelIds
<1> HIDE DEF gone
<1>8. ReelTyped' BY <1>1, <1>5, <1>6 DEF ReelTyped
<1>9. ReelRowsFit' BY <1>1, <1>5 DEF ReelRowsFit
<1>10. ReelStates' BY <1>1, <1>5, <1>6 DEF ReelStates
<1>11. ReelNamed' BY <1>1, <1>5, <1>6 DEF ReelNamed, Reel!Unfinished
<1>12. Reel!EvidenceKept' BY <1>1, <1>5, <1>6, <1>7, ReelIds DEF Reel!EvidenceKept
<1>13. Reel!CompletedMeansDone' BY <1>1, <1>5, <1>6 DEF Reel!CompletedMeansDone
<1>14. ReelCounted' BY <1>1, <1>5 DEF ReelCounted
<1>15. Keeps BY <1>5, <1>6 DEF Keeps
<1>16. ReelDocs' BY <1>1, <1>5, <1>8, <1>9, <1>10, <1>11, <1>12, <1>13, <1>14 DEF ReelDocs
<1>17. "settle" \in PurgeSteps BY DEF PurgeSteps
<1>18. PICK x \in Purging : /\ purger' = [purger EXCEPT ![w] = x] /\ x.at = "settle"
                            /\ x.row = purger[w].row /\ x.skip = purger[w].skip /\ purger'[w] = x
  BY <1>3, <1>17, ReelWalks DEF Reel!CleanupDeletesObjects
<1>19. ReelWorker(w)'
  <2>1. CASE purger[w].row \in Replies
    BY <2>1, <1>3, <1>4, <1>5, <1>6, <1>18, ReelIds DEF ReelWorker, gone
  <2>2. CASE purger[w].row = Media
    BY <2>2, <1>3, <1>4, <1>5, <1>6, <1>18, ReelIds DEF ReelWorker, gone
  <2>3. CASE purger[w].row = Expiry
    BY <2>3, <1>3, <1>4, <1>5, <1>6, <1>18, ReelIds DEF ReelWorker, gone
  <2> QED BY <1>4, <2>1, <2>2, <2>3, ReelIds
<1> QED BY <1>15, <1>16, <1>18, <1>19, ReelCrewMoves DEF ReelInv

------------------------
\* A page of the queue that is not full holds all comments.
LEMMA ReelPage ==
  ASSUME Reel!ReelAssumption, FewReplies, comments \subseteq Replies,
       NEW page \in SUBSET comments,
         Cardinality(page) = Reel!Min({PageSize, Cardinality(comments)}),
         Cardinality(page) < PageSize
  PROVE  page = comments
<1>1. IsFiniteSet(comments) /\ Cardinality(comments) \in Nat
  BY FS_Subset, FS_CardinalityType DEF FewReplies
<1>2. PageSize \in Nat BY DEF Reel!ReelAssumption
<1>3. \A a, b \in Nat : Reel!Min({a, b}) = a \/ Reel!Min({a, b}) = b
  <2> SUFFICES ASSUME NEW a \in Nat, NEW b \in Nat PROVE Reel!Min({a, b}) \in {a, b} OBVIOUS
  <2>1. \E m \in {a, b} : \A y \in {a, b} : m =< y
    <3>1. CASE a =< b BY <3>1
    <3>2. CASE ~(a =< b) BY <3>2
    <3> QED BY <3>1, <3>2
  <2> QED BY <2>1 DEF Reel!Min
<1>4. Cardinality(page) = PageSize \/ Cardinality(page) = Cardinality(comments)
  BY <1>1, <1>2, <1>3
<1>5. Cardinality(page) = Cardinality(comments) BY <1>2, <1>4
<1> QED BY <1>1, <1>5, FS_Subset

\* A page of comments goes, and each gets a row for its sound.
LEMMA ReelQueues ==
  ASSUME Reel!ReelAssumption, FewReplies, ReelInv, NEW w \in Purgers,
       Reel!enqueueVoiceCommentCleanup(w)
  PROVE  ReelInv' /\ Keeps
<1>1. ReelTyped /\ ReelRowsFit /\ ReelStates /\ ReelNamed /\ Reel!EvidenceKept
          /\ Reel!CompletedMeansDone
      /\ ReelCounted /\ tally <= Cardinality(Replies)
  BY DEF ReelInv, ReelDocs
<1>2. purger[w].at = "queue" BY DEF Reel!enqueueVoiceCommentCleanup
<1>3. purger[w] \in Purging /\ purger[w].row \in Reel!RowIds /\ ReelWorker(w)
      /\ rows[purger[w].row].status # "none"
  BY <1>2, ReelHeld
<1>4. purger[w].row \in {Media, Expiry} BY <1>2, <1>3, ReelIds DEF ReelWorker
<1>5. reel # "published" /\ (reel = "expired" => purgeDue)
  <2>1. CASE purger[w].row = Media BY <1>1, <1>3, <2>1 DEF ReelRowsFit
  <2>2. CASE purger[w].row = Expiry BY <1>1, <1>2, <1>3, <2>2, ReelIds DEF ReelRowsFit, ReelWorker
  <2> QED BY <1>4, <2>1, <2>2
<1>6. PICK page \in SUBSET comments :
        /\ Cardinality(page) = Reel!Min({PageSize, Cardinality(comments)})
        /\ rows' = Reel!QueuesPage(page) /\ comments' = comments \ page
        /\ purger' = [purger EXCEPT ![w].pages = @ + 1,
                                    ![w].at = IF Cardinality(page) < PageSize
                                              THEN "sweep" ELSE "queue"]
  BY DEF Reel!enqueueVoiceCommentCleanup, Reel!Cardinality, Cardinality
<1>7. UNCHANGED <<draft, reel, tally, sounds, due, purgeDue, objects>>
  BY DEF Reel!enqueueVoiceCommentCleanup, Reel!clocks
<1>8. comments \subseteq Replies /\ rows \in [Reel!RowIds -> ReelRow] BY <1>1 DEF ReelTyped
<1>9. /\ rows' \in [Reel!RowIds -> ReelRow]
      /\ \A k \in Reel!RowIds : rows'[k] = IF k \in page THEN Reel!NewRow("delete") ELSE rows[k]
  BY <1>6, <1>8, ReelNewRow DEF Reel!QueuesPage
<1>10. Media \notin page /\ Expiry \notin page BY <1>8, ReelIds
<1>11. rows'[Media] = rows[Media] /\ rows'[Expiry] = rows[Expiry]
  BY <1>9, <1>10, ReelIds
<1>12. \A r \in page : sounds[r] = "gone" /\ rows[r].status = "none"
  BY <1>1, <1>8 DEF ReelStates, ReelRowsFit
<1>13. \A r \in Replies : IF r \in page THEN rows'[r].status = "pending" ELSE rows'[r] = rows[r]
  BY <1>9, ReelIds, ReelNewRow
<1>14. ReelTyped' BY <1>1, <1>6, <1>7, <1>9 DEF ReelTyped
<1>15. ReelRowsFit' BY <1>1, <1>6, <1>7, <1>11, <1>12, <1>13 DEF ReelRowsFit
<1>16. ReelStates' BY <1>1, <1>6, <1>7 DEF ReelStates
<1>17. ReelNamed'
  <2>1. \A r \in Replies : r \in page => Reel!Unfinished(r)' BY <1>13 DEF Reel!Unfinished
  <2>2. \A r \in Replies : r \notin page => Reel!Unfinished(r)' = Reel!Unfinished(r)
    BY <1>13 DEF Reel!Unfinished
  <2>3. Reel!Unfinished(Media)' = Reel!Unfinished(Media) BY <1>11 DEF Reel!Unfinished
  <2> QED BY <1>1, <1>6, <1>7, <2>1, <2>2, <2>3 DEF ReelNamed
<1>18. Reel!EvidenceKept' BY <1>5, <1>7 DEF Reel!EvidenceKept
<1>19. Reel!CompletedMeansDone' BY <1>1, <1>6, <1>7, <1>11, <1>13 DEF Reel!CompletedMeansDone
<1>20. ReelCounted' BY <1>5, <1>7 DEF ReelCounted
<1>21. \A k \in Reel!RowIds : rows[k].status # "none" => rows'[k].status # "none"
  BY <1>9, ReelNewRow
<1>22. Keeps BY <1>6, <1>7, <1>21 DEF Keeps
<1>23. ReelDocs' BY <1>1, <1>7, <1>14, <1>15, <1>16, <1>17, <1>18, <1>19, <1>20 DEF ReelDocs
<1>24. PICK t \in Purging : t = purger[w] BY <1>3
<1>25. PICK s \in PurgeSteps : s = IF Cardinality(page) < PageSize THEN "sweep" ELSE "queue"
  BY DEF PurgeSteps
<1>26. PICK p \in Nat : p = t.pages + 1 BY DEF Purging
<1> DEFINE x == [t EXCEPT !.pages = p, !.at = s]
<1>27. x \in Purging /\ x.at = s /\ x.row = t.row /\ x.skip = t.skip BY DEF Purging
<1>28. purger \in [Purgers -> Purging \cup {Reel!Idle}] BY DEF ReelInv, ReelCrew
<1>29. purger' = [purger EXCEPT ![w] = x] BY <1>6, <1>24, <1>25, <1>26, <1>28
<1> HIDE DEF x
<1>30. purger'[w] = x => ReelWorker(w)'
  <2> SUFFICES ASSUME purger'[w] = x PROVE ReelWorker(w)' OBVIOUS
  <2>1. s = "queue" \/ (s = "sweep" /\ comments' = {})
    BY <1>6, <1>8, <1>25, ReelPage
  <2>2. rows'[t.row].status # "none" BY <1>3, <1>21, <1>24
  <2>3. CASE t.row = Media
    BY <1>2, <1>3, <1>24, <1>27, <2>1, <2>2, <2>3, ReelIds DEF ReelWorker
  <2>4. CASE t.row = Expiry
    BY <1>2, <1>3, <1>7, <1>24, <1>27, <2>1, <2>2, <2>4, ReelIds DEF ReelWorker
  <2> QED BY <1>4, <1>24, <2>3, <2>4
<1> QED BY <1>22, <1>23, <1>27, <1>29, <1>30, ReelCrewMoves DEF ReelInv

------------------------
\* The retention looks at the originals.
LEMMA ReelLooks ==
  ASSUME Reel!ReelAssumption, ReelInv, NEW w \in Purgers, Reel!RetainLooks(w)
  PROVE ReelInv' /\ Keeps
<1>1. ReelDocs BY DEF ReelInv
<1>2. ReelDocs' /\ Keeps BY <1>1, ReelQuiet DEF Reel!RetainLooks
<1>3. purger[w].at = "retain" BY DEF Reel!RetainLooks
<1>4. purger[w].row \in Reel!RowIds /\ ReelWorker(w) /\ rows[purger[w].row].status # "none"
  BY <1>3, ReelHeld
<1>5. purger[w].row = Expiry BY <1>3, <1>4, ReelIds DEF ReelWorker
<1>8. "keep" \in PurgeSteps BY DEF PurgeSteps
<1>9. PICK x \in Purging : /\ purger' = [purger EXCEPT ![w] = x] /\ x.at = "keep"
                           /\ x.row = purger[w].row /\ x.skip = purger[w].skip /\ purger'[w] = x
  BY <1>3, <1>8, ReelWalks DEF Reel!RetainLooks
<1>10. UNCHANGED <<reel, comments, objects, rows, purgeDue>>
  BY DEF Reel!RetainLooks, Reel!content, Reel!clocks
<1>11. ReelWorker(w)'
  BY <1>3, <1>4, <1>5, <1>9, <1>10, ReelIds DEF ReelWorker
<1> QED BY <1>2, <1>9, <1>11, ReelCrewMoves DEF ReelInv

\* The row of the retention turns to the purge, or ends for a deletion.
LEMMA ReelRetains ==
  ASSUME Reel!ReelAssumption, ReelInv, NEW w \in Purgers, Reel!retainExpiredReel(w)
  PROVE  ReelInv' /\ Keeps
<1>1. rows \in [Reel!RowIds -> ReelRow] /\ ReelRowsFit /\ ReelDocs
     BY DEF ReelInv, ReelDocs, ReelTyped
<1>2. purger[w].at = "keep" BY DEF Reel!retainExpiredReel
<1>3. purger[w].row \in Reel!RowIds /\ ReelWorker(w) /\ rows[purger[w].row].status # "none"
  BY <1>2, ReelHeld
<1>4. purger[w].row = Expiry BY <1>2, <1>3, ReelIds DEF ReelWorker
<1>5. ReelDocs' /\ Keeps
  <2>1. CASE ~Reel!HoldsLease(w) BY <1>1, <2>1, ReelQuiet DEF Reel!retainExpiredReel
  <2>2. CASE Reel!HoldsLease(w)
    <3>1. PICK t \in ReelRow : t = rows[Expiry] BY <1>1, ReelIds
    <3>2. t.phase \in {"retain", "purge"} /\ t.status # "none"
         BY <1>1, <1>3, <1>4, <3>1 DEF ReelRowsFit
    <3>3. CASE reel = "deleted"
      <4> DEFINE n == [t EXCEPT !.status = "completed", !.leased = FALSE]
      <4>1. n \in ReelRow /\ n.status = "completed" /\ n.phase = t.phase
           BY DEF ReelRow, RowStatuses
      <4>2. rows' = [rows EXCEPT ![Expiry] = n]
        BY <1>4, <2>2, <3>1, <3>3 DEF Reel!retainExpiredReel, Reel!Settles, Reel!Completed,
           Reel!DeletionOwnsCleanup
      <4> HIDE DEF n
      <4> QED BY <1>1, <3>1, <3>2, <3>3, <4>1, <4>2, ReelBook, ReelIds DEF Reel!retainExpiredReel
    <3>4. CASE reel # "deleted"
      <4> DEFINE n == [t EXCEPT !.status = "pending", !.phase = "purge", !.leased = FALSE]
      <4>1. n \in ReelRow /\ n.status = "pending" /\ n.phase = "purge" BY DEF ReelRow, RowStatuses
      <4>2. rows' = [rows EXCEPT ![Expiry] = n]
        BY <1>4, <2>2, <3>1, <3>4 DEF Reel!retainExpiredReel, Reel!Settles,
           Reel!DeletionOwnsCleanup
      <4> HIDE DEF n
      <4> QED BY <1>1, <3>1, <3>2, <4>1, <4>2, ReelBook, ReelIds DEF Reel!retainExpiredReel
    <3> QED BY <3>3, <3>4
  <2> QED BY <2>1, <2>2
<1> QED BY <1>5, ReelIdles DEF Reel!retainExpiredReel, ReelInv

\* The purge judges the root, and remembers whether the comments were purged before.
LEMMA ReelJudges ==
  ASSUME Reel!ReelAssumption, ReelInv, NEW w \in Purgers, Reel!PurgeJudges(w)
  PROVE ReelInv' /\ Keeps
<1>1. ReelDocs BY DEF ReelInv
<1>2. ReelDocs' /\ Keeps BY <1>1, ReelQuiet DEF Reel!PurgeJudges
<1>3. purger[w].at = "judge" BY DEF Reel!PurgeJudges
<1>4. purger[w] \in Purging /\ purger[w].row \in Reel!RowIds /\ ReelWorker(w)
      /\ rows[purger[w].row].status # "none"
  BY <1>3, ReelHeld
<1>5. purger[w].row = Expiry /\ purgeDue BY <1>3, <1>4, ReelIds DEF ReelWorker
<1>6. PICK t \in Purging : t = purger[w] BY <1>4
<1>7. PICK s \in PurgeSteps : s = IF Reel!DeletionOwnsCleanup THEN "settle" ELSE "engage"
     BY DEF PurgeSteps
<1>8. PICK b \in BOOLEAN : b <=> reel = "purged" OBVIOUS
<1>9. (reel = "purged") = b BY <1>8
<1> DEFINE x == [t EXCEPT !.at = s, !.skip = b]
<1>10. x \in Purging /\ x.at = s /\ x.row = t.row /\ x.skip = b BY DEF Purging
<1>11. purger \in [Purgers -> Purging \cup {Reel!Idle}] BY DEF ReelInv, ReelCrew
<1>12. purger' = [purger EXCEPT ![w] = x] BY <1>6, <1>7, <1>9, <1>11 DEF Reel!PurgeJudges
<1>13. UNCHANGED <<reel, comments, objects, rows, purgeDue>>
  BY DEF Reel!PurgeJudges, Reel!content, Reel!clocks
<1> HIDE DEF x
<1>14. purger'[w] = x => ReelWorker(w)'
  BY <1>4, <1>5, <1>6, <1>7, <1>8, <1>10, <1>13, ReelIds DEF ReelWorker, Reel!DeletionOwnsCleanup
<1> QED BY <1>2, <1>10, <1>12, <1>14, ReelCrewMoves DEF ReelInv

\* The purge writes its tombstone if the root is expired still.
LEMMA ReelPurges ==
  ASSUME Reel!ReelAssumption, ReelInv, NEW w \in Purgers, Reel!purgeExpiredReel(w)
  PROVE ReelInv' /\ Keeps
<1>1. ReelTyped /\ ReelRowsFit /\ ReelStates /\ ReelNamed /\ Reel!EvidenceKept
          /\ Reel!CompletedMeansDone
      /\ ReelCounted /\ tally <= Cardinality(Replies) /\ ReelDocs
  BY DEF ReelInv, ReelDocs
<1>2. purger[w].at = "settle" /\ purger[w].row = Expiry BY DEF Reel!purgeExpiredReel
<1>3. ReelWorker(w) /\ rows[Expiry].status # "none" BY <1>2, ReelHeld
<1>4. reel = "deleted" \/ (Media \notin objects /\ comments = {})
  BY <1>2, <1>3, ReelIds DEF ReelWorker
<1>5. purgeDue /\ reel \in {"expired", "purged", "deleted"}
  BY <1>1, <1>2, <1>3, ReelIds DEF ReelWorker, ReelRowsFit
<1>6. ReelDocs' /\ Keeps
  <2>1. CASE ~Reel!HoldsLease(w)
    BY <1>1, <2>1, ReelQuiet DEF Reel!purgeExpiredReel, Reel!content
  <2>2. CASE Reel!HoldsLease(w)
    <3>1. rows \in [Reel!RowIds -> ReelRow] BY <1>1 DEF ReelTyped
    <3>2. PICK t \in ReelRow : t = rows[Expiry] BY <3>1, ReelIds
    <3> DEFINE n == [t EXCEPT !.status = "completed", !.leased = FALSE]
    <3>3. n \in ReelRow /\ n.status = "completed" /\ n.phase = t.phase BY DEF ReelRow, RowStatuses
    <3>4. rows' = [rows EXCEPT ![Expiry] = n]
      BY <1>2, <2>2, <3>2 DEF Reel!purgeExpiredReel, Reel!Settles, Reel!Completed
    <3>5. rows'[Expiry] = n /\ \A k \in Reel!RowIds \ {Expiry} : rows'[k] = rows[k]
      BY <3>1, <3>4, ReelIds
    <3>6. rows' \in [Reel!RowIds -> ReelRow] BY <3>1, <3>3, <3>4
    <3> HIDE DEF n
    <3>7. reel' = IF reel = "expired" THEN "purged" ELSE reel
      BY <2>2 DEF Reel!purgeExpiredReel, Reel!Tombstone
    <3>8. UNCHANGED <<draft, comments, tally, sounds, due, purgeDue, objects>>
      BY DEF Reel!purgeExpiredReel, Reel!clocks
    <3>9. rows'[Media] = rows[Media] /\ \A r \in Replies : rows'[r] = rows[r]
      BY <3>5, ReelIds
    <3>10. ReelTyped' BY <1>1, <3>6, <3>7, <3>8 DEF ReelTyped
    <3>11. ReelRowsFit'
      <4>1. rows'[Media].status # "none" => draft' = "gone" /\ reel' \in {"none", "deleted"}
        BY <1>1, <3>7, <3>8, <3>9 DEF ReelRowsFit
      <4>2. \A r \in Replies :
              rows'[r].status # "none" => sounds'[r] = "gone" /\ r \notin comments'
        BY <1>1, <3>8, <3>9 DEF ReelRowsFit
      <4>3. rows'[Expiry].status = "completed" /\ rows'[Expiry].phase \in {"retain", "purge"}
        BY <1>1, <1>3, <3>2, <3>3, <3>5 DEF ReelRowsFit
      <4>4. reel' \in {"purged", "deleted"} BY <1>5, <3>7
      <4> QED BY <4>1, <4>2, <4>3, <4>4 DEF ReelRowsFit
    <3>12. ReelStates' BY <1>1, <1>4, <1>5, <3>7, <3>8 DEF ReelStates
    <3>13. ReelNamed'
      <4>1. Reel!Unfinished(Media)' = Reel!Unfinished(Media) BY <3>9 DEF Reel!Unfinished
      <4>2. \A r \in Replies : Reel!Unfinished(r)' = Reel!Unfinished(r)
           BY <3>9 DEF Reel!Unfinished
      <4>3. CASE reel = "deleted" BY <1>1, <3>7, <3>8, <4>1, <4>2, <4>3 DEF ReelNamed
      <4>4. CASE reel # "deleted" BY <1>1, <1>4, <3>8, <4>1, <4>2, <4>4 DEF ReelNamed
      <4> QED BY <4>3, <4>4
    <3>14. Reel!EvidenceKept' BY <1>5, <3>7 DEF Reel!EvidenceKept
    <3>15. Reel!CompletedMeansDone'
         BY <1>1, <1>4, <1>5, <3>7, <3>8, <3>9 DEF Reel!CompletedMeansDone
    <3>16. ReelCounted' BY <1>5, <3>7 DEF ReelCounted
    <3>17. \A k \in Reel!RowIds : rows[k].status # "none" => rows'[k].status # "none"
      BY <3>3, <3>5
    <3>18. Keeps BY <3>7, <3>8, <3>17 DEF Keeps
    <3> QED BY <1>1, <3>8, <3>10, <3>11, <3>12, <3>13, <3>14, <3>15, <3>16, <3>18 DEF ReelDocs
  <2> QED BY <2>1, <2>2
<1> QED BY <1>6, ReelIdles DEF Reel!purgeExpiredReel, ReelInv

------------------------
\* Every step keeps the strengthening, and keeps what the workers rely on.
LEMMA ReelStep ==
  ASSUME Reel!ReelAssumption, FewReplies, ReelInv, [Reel!Next]_Reel!vars PROVE ReelInv' /\ Keeps
<1>1. ReelDocs BY DEF ReelInv
<1>2. CASE Reel!Next
  <2>1. ASSUME ReelDocs' /\ Keeps, UNCHANGED purger PROVE ReelInv' /\ Keeps
    BY <2>1, ReelCrewStays DEF ReelInv
  <2>2. CASE Reel!reserveReelDraft \/ Reel!UploadMedia \/ Reel!DraftRunsOut
    BY <1>1, <2>1, <2>2, ReelAuthorOpens DEF Reel!reserveReelDraft, Reel!UploadMedia,
       Reel!DraftRunsOut
  <2>3. CASE Reel!finalizeReelDraft BY <1>1, <2>1, <2>3, ReelPublish DEF Reel!finalizeReelDraft
  <2>4. CASE Reel!expireAbandonedReelDrafts
    BY <1>1, <2>1, <2>4, ReelAbandon DEF Reel!expireAbandonedReelDrafts
  <2>5. CASE Reel!WindowCloses \/ Reel!RetentionEnds
    BY <1>1, <2>1, <2>5, ReelClocks DEF Reel!WindowCloses, Reel!RetentionEnds
  <2>6. CASE Reel!expirePublishedReels
       BY <1>1, <2>1, <2>6, ReelExpire DEF Reel!expirePublishedReels
  <2>7. CASE Reel!deleteReel BY <1>1, <2>1, <2>7, ReelDelete DEF Reel!deleteReel
  <2>8. ASSUME NEW r \in Replies,
               \/ Reel!reserveReelVoiceCommentDraft(r) \/ Reel!UploadSound(r)
                    \/ Reel!SoundRunsOut(r)
               \/ Reel!finalizeReelVoiceCommentDraft(r)
                    \/ Reel!expireAbandonedReelVoiceCommentDrafts(r)
               \/ Reel!removeReelComment(r) \/ Reel!deleteReelComment(r)
        PROVE  ReelInv' /\ Keeps
    <3>1. CASE Reel!reserveReelVoiceCommentDraft(r) \/ Reel!UploadSound(r) \/ Reel!SoundRunsOut(r)
      BY <1>1, <2>1, <3>1, ReelSounds
         DEF Reel!reserveReelVoiceCommentDraft, Reel!UploadSound, Reel!SoundRunsOut
    <3>2. CASE Reel!finalizeReelVoiceCommentDraft(r)
      BY <1>1, <2>1, <3>2, ReelComments DEF Reel!finalizeReelVoiceCommentDraft
    <3>3. CASE Reel!expireAbandonedReelVoiceCommentDrafts(r)
      BY <1>1, <2>1, <3>3, ReelLapses DEF Reel!expireAbandonedReelVoiceCommentDrafts
    <3>4. CASE Reel!removeReelComment(r) \/ Reel!deleteReelComment(r)
      <4>1. Reel!removeReelComment(r) BY <3>4 DEF Reel!deleteReelComment
      <4>2. UNCHANGED purger BY <4>1 DEF Reel!removeReelComment
      <4> QED BY <1>1, <2>1, <4>1, <4>2, ReelRemoves
    <3> QED BY <2>8, <3>1, <3>2, <3>3, <3>4
  <2>9. ASSUME NEW w \in Purgers, NEW i \in Reel!RowIds, Reel!claimCleanupOutbox(w, i)
        PROVE  ReelInv' /\ Keeps
    BY <2>9, ReelClaims
  <2>10. ASSUME NEW i \in Reel!RowIds, Reel!LeaseRunsOut(i) PROVE ReelInv' /\ Keeps
    BY <2>10, ReelLeases
  <2>11. ASSUME NEW w \in Purgers, Reel!Progress(w) PROVE ReelInv' /\ Keeps
    <3>1. CASE Reel!PurgeReadsRoot(w) BY <3>1, ReelPurgeReads
    <3>2. CASE Reel!enqueueVoiceCommentCleanup(w) BY <3>2, ReelQueues
    <3>3. CASE Reel!QueueIsEmpty(w) BY <3>3, ReelQueueEnds
    <3>4. CASE Reel!PagesUsedUp(w)
      <4>1. purger[w].at # "idle" /\ Reel!recordCleanupFailure(w)
        BY <3>4 DEF Reel!PagesUsedUp, Reel!ScanIncomplete
      <4> QED BY <4>1, ReelFails
    <3>5. CASE Reel!PurgeSweeps(w) BY <3>5, ReelSweeps
    <3>6. CASE Reel!CleanupDeletesObjects(w) BY <3>6, ReelDeletes
    <3>7. CASE Reel!completeCleanupOutbox(w) BY <3>7, ReelCompletes
    <3>8. CASE Reel!RetainLooks(w) BY <3>8, ReelLooks
    <3>9. CASE Reel!retainExpiredReel(w) BY <3>9, ReelRetains
    <3>10. CASE Reel!PurgeJudges(w) BY <3>10, ReelJudges
    <3>11. CASE Reel!purgeExpiredReel(w) BY <3>11, ReelPurges
    <3> QED BY <2>11, <3>1, <3>2, <3>3, <3>4, <3>5, <3>6, <3>7, <3>8, <3>9, <3>10, <3>11
               DEF Reel!Progress
  <2>12. ASSUME NEW w \in Purgers, Reel!Fails(w) \/ Reel!Dies(w) PROVE ReelInv' /\ Keeps
    <3>1. CASE Reel!Fails(w) BY <3>1, ReelFails DEF Reel!Fails
    <3>2. CASE Reel!Dies(w) BY <3>2, ReelDies
    <3> QED BY <2>12, <3>1, <3>2
  <2> QED BY <1>2, <2>2, <2>3, <2>4, <2>5, <2>6, <2>7, <2>8, <2>9, <2>10, <2>11, <2>12
          DEF Reel!Next
<1>3. CASE UNCHANGED Reel!vars
  <2>1. UNCHANGED <<Reel!content, Reel!clocks, objects, rows, purger>> BY <1>3 DEF Reel!vars
  <2>2. ReelDocs' /\ Keeps BY <1>1, <2>1, ReelQuiet
  <2> QED BY <2>1, <2>2, ReelCrewStays DEF ReelInv
<1> QED BY <1>2, <1>3

\* The strengthening is an invariant of the Reel.
THEOREM ReelInvariant == ASSUME Reel!ReelAssumption, FewReplies PROVE Reel!Spec => []ReelInv
<1>1. Reel!Init => ReelInv BY ReelInit
<1>2. ReelInv /\ [Reel!Next]_Reel!vars => ReelInv' BY ReelStep
<1> QED BY <1>1, <1>2, PTL DEF Reel!Spec

(* Every object of a Reel and of its comments is named by somebody who will remove it; the
   originals of a Reel stay until it is deleted or its retention is over; a row is completed
   only when nothing is left; and the count of comments is true: for any comments, workers,
   pages and budgets, however often workers die, fail and outlive their leases. *)
THEOREM ReelsAreKeptAndCleaned ==
  ASSUME Reel!ReelAssumption, FewReplies
  PROVE  Reel!Spec => [](/\ Reel!NothingForgotten /\ Reel!EvidenceKept
                         /\ Reel!CompletedMeansDone /\ Reel!CountIsTrue)
<1>1. ReelInv => Reel!NothingForgotten
  BY DEF ReelInv, ReelDocs, ReelNamed, Reel!NothingForgotten
<1>2. ReelInv => Reel!CountIsTrue
  BY DEF ReelInv, ReelDocs, ReelCounted, Reel!CountIsTrue, Reel!Cardinality, Cardinality
<1>3. ReelInv => Reel!EvidenceKept /\ Reel!CompletedMeansDone
  BY DEF ReelInv, ReelDocs
<1> QED BY <1>1, <1>2, <1>3, ReelInvariant, PTL

(* No purge that judged the Reel before its deletion writes its own tombstone over it. *)
THEOREM ReelDeletionsAreFinal ==
  ASSUME Reel!ReelAssumption, FewReplies PROVE Reel!Spec => [][Reel!DeletedIsFinal]_Reel!vars
<1>1. ReelInv /\ [Reel!Next]_Reel!vars => Reel!DeletedIsFinal
     BY ReelStep DEF Keeps, Reel!DeletedIsFinal
<1>2. ReelInv /\ [Reel!Next]_Reel!vars => [Reel!DeletedIsFinal]_Reel!vars BY <1>1
<1> QED BY <1>2, ReelInvariant, PTL DEF Reel!Spec

=============================================================================
