-------------------------- MODULE AccountDeletion --------------------------
(***************************************************************************)
(* The deletion of one account: functions/account/deletion.js, outbox.js   *)
(* and stages.js, with the Auth trigger of profile/public_profiles.js.     *)
(*                                                                         *)
(* A row of accountDeletionOutbox walks eight stages.  A worker leases the *)
(* row, walks as many stages as its budget allows in its own memory, and   *)
(* hands the row back; only the step before "auth" is persisted on the     *)
(* way.  A lease lasts 300 s and a worker 540 s: a worker can outlive its  *)
(* own lease, never its successor's.  The Auth trigger is delivered at     *)
(* least once, whenever it likes, and reads the row outside its            *)
(* transaction.                                                            *)
(***************************************************************************)
EXTENDS Naturals, Sequences, FiniteSets

CONSTANTS
  Workers,
  Pages,                   \* stage -> pages of data it finds at first
  MAX_ATTEMPTS,
  MAX_ABANDONED_ATTEMPTS,
  MaxRewrites,             \* bound: rows written after the social stage
  ConsoleMayDelete         \* bound: the console deletes the Auth user too

STAGE_ORDER == <<"revoke", "content", "social", "messaging", "storage",
                 "records", "auth", "finalize">>
stageIndex(s) == CHOOSE i \in 1..Len(STAGE_ORDER) : STAGE_ORDER[i] = s
DataStages == {"content", "social", "messaging", "storage", "records"}
Auth == stageIndex("auth")
Finalize == stageIndex("finalize")

ASSUME DeletionAssumption ==
  /\ Pages \in [DataStages -> Nat]
  /\ MAX_ATTEMPTS \in Nat \ {0} /\ MAX_ABANDONED_ATTEMPTS \in Nat \ {0}
  /\ MaxRewrites \in Nat /\ ConsoleMayDelete \in BOOLEAN
  /\ "none" \notin Workers

VARIABLES
  row,        \* accountDeletionOutbox: status, stage, holder, two budgets
  leased,     \* leaseUntil > now
  ready,      \* nextAttemptAt <= now
  profile,    \* users/{uid}: live, frozen (disabled), gone, or husk
  mirror,     \* users/{uid}.accountDeletion.state
  authUser,   \* the Auth identity: present, or by whom it was deleted
  left,       \* pages of data each stage still finds
  written,    \* rows the servers wrote under users/{uid} after "social"
  trigger,    \* the onDelete event: none, due, owned, retire, enqueue, done
  finalized,  \* history: the recursive delete of "finalize" has run
  worker      \* what each worker is doing

outbox == <<row, leased, ready>>
account == <<profile, mirror, authUser, left, written, finalized>>
vars == <<outbox, account, trigger, worker>>

NoRow == [status |-> "none", stage |-> 1, holder |-> "none",
          failures |-> 0, abandoned |-> 0]
initialOutboxRow == [NoRow EXCEPT !.status = "pending"]
Idle == [at |-> "idle", stage |-> 1, goal |-> "running", stepped |-> FALSE,
         late |-> FALSE]

Holds(w) == row.status = "processing" /\ row.holder = w
Exists(p) == p \in {"live", "frozen", "husk"}

Init ==
  /\ row = NoRow /\ leased = FALSE /\ ready = TRUE
  /\ profile = "live" /\ mirror = "none" /\ authUser = "present"
  /\ left = Pages /\ written = 0 /\ finalized = FALSE
  /\ trigger = "none"
  /\ worker = [w \in Workers |-> Idle]

--------------------------------
(* Entry points *)

(* executeDeleteAccountSelf: the account is frozen and the row created in
   one transaction; a second call changes nothing. *)
DeleteAccountSelf ==
  /\ profile = "live" /\ row = NoRow
  /\ profile' = "frozen" /\ mirror' = "pending"
  /\ row' = initialOutboxRow /\ ready' = TRUE
  /\ UNCHANGED <<leased, authUser, left, written, finalized, trigger, worker>>

(* The console or another tool deletes the Auth identity: outside src/. *)
ConsoleDeletes ==
  /\ ConsoleMayDelete /\ authUser = "present"
  /\ authUser' = "console" /\ trigger' = "due"
  /\ UNCHANGED <<outbox, profile, mirror, left, written, finalized, worker>>

(* The servers keep the membership of a deleted account, and go on writing
   the pointers to the channels it may see. *)
ServerWritesRow ==
  /\ written < MaxRewrites /\ left["social"] = 0 /\ ~finalized
  /\ written' = written + 1
  /\ UNCHANGED <<outbox, profile, mirror, authUser, left, finalized, trigger, worker>>

(* mutant: the row is enqueued before the profile is retired *)
TriggerReadsAndEnqueues ==
  /\ trigger = "due"
  /\ trigger' = IF row.status # "none" /\ row.stage >= Auth THEN "owned" ELSE "enqueue"
  /\ UNCHANGED <<outbox, account, worker>>
(* handleAuthUserDeleted: the row is read first, outside the transaction. *)
TriggerReads ==
  /\ trigger = "due"
  /\ trigger' = IF row.status # "none" /\ row.stage >= Auth THEN "owned" ELSE "retire"
  /\ UNCHANGED <<outbox, account, worker>>

TriggerCompletes ==
  /\ trigger = "owned" /\ trigger' = "done"
  /\ profile' = "gone"
  /\ row' = [row EXCEPT !.status = "completed", !.stage = Finalize, !.holder = "none"]
  /\ leased' = FALSE
  /\ UNCHANGED <<ready, mirror, authUser, left, written, finalized, worker>>

TriggerRetires ==
  /\ trigger = "retire" /\ trigger' = "enqueue"
  /\ profile' = IF profile = "live" THEN "frozen" ELSE profile
  /\ UNCHANGED <<outbox, mirror, authUser, left, written, finalized, worker>>

(* enqueueAccountDeletionOutbox.  An error here is only logged. *)
TriggerEnqueues ==
  /\ trigger = "enqueue" /\ trigger' = "done"
  /\ IF row = NoRow THEN row' = initialOutboxRow /\ ready' = TRUE
     ELSE UNCHANGED <<row, ready>>
  /\ UNCHANGED <<leased, account, worker>>

(* failurePolicy: a delivery that fails is delivered again. *)
TriggerRedelivered ==
  /\ trigger \in {"owned", "retire", "enqueue"} /\ trigger' = "due"
  /\ UNCHANGED <<outbox, account, worker>>

--------------------------------
(* The lease *)

(* claimOutboxRow.  A row still processing was abandoned by its holder. *)
Claimable == \/ row.status = "pending" /\ ready
             \/ row.status = "processing" /\ ~leased
AbandonedAgain == IF row.status = "processing" THEN row.abandoned + 1 ELSE row.abandoned

Claim(w) ==
  /\ worker[w].at = "idle" /\ Claimable
  /\ ~(row.status = "processing" /\ AbandonedAgain >= MAX_ABANDONED_ATTEMPTS)
  /\ row' = [row EXCEPT !.status = "processing", !.holder = w,
                        !.abandoned = AbandonedAgain]
  /\ leased' = TRUE
  /\ worker' = [worker EXCEPT ![w] = [Idle EXCEPT !.at = "mark", !.stage = row.stage]]
  /\ UNCHANGED <<ready, account, trigger>>

(* The claim that finds a poison pill: the row is dead, and the account is
   told. *)
Poisoned(w) ==
  /\ worker[w].at = "idle"
  /\ row.status = "processing" /\ ~leased
  /\ AbandonedAgain >= MAX_ABANDONED_ATTEMPTS
  /\ row' = [row EXCEPT !.status = "deadLetter", !.holder = "none",
                        !.abandoned = AbandonedAgain]
  /\ worker' = [worker EXCEPT ![w] = [Idle EXCEPT !.at = "mark", !.goal = "deadLetter"]]
  /\ UNCHANGED <<leased, ready, account, trigger>>

(* LEASE_MS passes.  The holder is past the 240 s in which it may begin a
   step, and whoever was superseded by this lease is past the 540 s of its
   own function. *)
LeaseExpires ==
  /\ row.status = "processing" /\ leased
  /\ leased' = FALSE
  /\ worker' = [w \in Workers |->
       IF row.holder = w THEN [worker[w] EXCEPT !.late = TRUE] ELSE Idle]
  /\ UNCHANGED <<row, ready, account, trigger>>

BackoffEnds ==
  /\ ~ready /\ ready' = TRUE
  /\ UNCHANGED <<row, leased, account, trigger, worker>>

--------------------------------
(* A worker *)

At(w, pc) == worker[w].at = pc
Goes(w, pc) == worker' = [worker EXCEPT ![w].at = pc]

(* markAccountDeletionState: a read, then a merge outside any transaction,
   which creates the document when it is not there. *)
Marked(w) ==
  worker' = [worker EXCEPT ![w] =
    IF worker[w].goal = "running" THEN [@ EXCEPT !.at = "loop"] ELSE Idle]

MarkReads(w) ==
  /\ At(w, "mark")
  /\ IF Exists(profile) /\ mirror # worker[w].goal THEN Goes(w, "write") ELSE Marked(w)
  /\ UNCHANGED <<outbox, account, trigger>>

MarkWrites(w) ==
  /\ At(w, "write") /\ Marked(w)
  /\ mirror' = worker[w].goal
  /\ profile' = IF profile = "gone" THEN "husk" ELSE profile
  /\ UNCHANGED <<outbox, authUser, left, written, finalized, trigger>>

Stage(w) == STAGE_ORDER[worker[w].stage]

(* The budget is looked at before a step, not during one. *)
StartStep(w) ==
  /\ At(w, "loop") /\ ~worker[w].late
  /\ Goes(w, "step")
  /\ UNCHANGED <<outbox, account, trigger>>

(* A page of a stage; done when the page was the last. *)
PagesAfter(s) == IF left[s] > 0 THEN left[s] - 1 ELSE 0
StageDone(s) == s \notin DataStages \/ PagesAfter(s) = 0

(* Where a finished stage leads: the step to "auth" is persisted first. *)
Onward(i) == IF i = Finalize THEN "complete"
             ELSE IF i + 1 = Auth THEN "advance" ELSE "loop"

RunsData(s) ==
  /\ left' = IF s \in DataStages THEN [left EXCEPT ![s] = PagesAfter(s)] ELSE left
  /\ UNCHANGED <<profile, mirror, authUser, written, finalized, trigger>>
RunsAuth ==
  /\ authUser' = IF authUser = "present" THEN "pipeline" ELSE authUser
  /\ trigger' = IF authUser = "present" THEN "due" ELSE trigger
  /\ UNCHANGED <<profile, mirror, left, written, finalized>>
RunsFinalize ==
  /\ profile' = "gone" /\ written' = 0 /\ finalized' = TRUE
  /\ UNCHANGED <<mirror, authUser, left, trigger>>

Runs(s) == CASE s = "auth"     -> RunsAuth
             [] s = "finalize" -> RunsFinalize
             [] OTHER          -> RunsData(s)
Stepped(job, s) ==
  [job EXCEPT !.stepped = TRUE,
              !.at = IF StageDone(s) THEN Onward(job.stage) ELSE "loop",
              !.stage = IF StageDone(s) /\ s # "finalize" THEN @ + 1 ELSE @]

RunStage(w) ==
  /\ At(w, "step")
  /\ Runs(Stage(w))
  /\ worker' = [worker EXCEPT ![w] = Stepped(@, Stage(w))]
  /\ UNCHANGED outbox

(* advanceOutboxStage; without the lease the worker stops. *)
AdvanceStage(w) ==
  /\ At(w, "advance")
  /\ IF Holds(w)
     THEN row' = [row EXCEPT !.stage = worker[w].stage] /\ Goes(w, "loop")
     ELSE UNCHANGED row /\ worker' = [worker EXCEPT ![w] = Idle]
  /\ UNCHANGED <<leased, ready, account, trigger>>

(* The stage and cursor a worker hands back. *)
HandedBack(w) == worker[w].stage

(* The budget of the attempt is spent: releaseOutboxRow. *)
Release(w) ==
  /\ At(w, "loop") /\ (worker[w].stepped \/ worker[w].late)
  /\ IF Holds(w)
     THEN /\ row' = [row EXCEPT !.status = "pending", !.holder = "none",
                       !.stage = HandedBack(w), !.failures = 0, !.abandoned = 0]
          /\ leased' = FALSE /\ ready' = TRUE
     ELSE UNCHANGED outbox
  /\ worker' = [worker EXCEPT ![w] = Idle]
  /\ UNCHANGED <<account, trigger>>

Complete(w) ==
  /\ At(w, "complete")
  /\ IF Holds(w)
     THEN /\ row' = [row EXCEPT !.status = "completed", !.holder = "none", !.stage = Finalize]
          /\ leased' = FALSE
     ELSE UNCHANGED <<row, leased>>
  /\ worker' = [worker EXCEPT ![w] = Idle]
  /\ UNCHANGED <<ready, account, trigger>>

StageThrows(w) ==
  /\ At(w, "step") /\ Goes(w, "failed")
  /\ UNCHANGED <<outbox, account, trigger>>

(* recordOutboxFailure: the stage and the cursor of the row stay. *)
RecordFailure(w) ==
  /\ At(w, "failed")
  /\ LET n    == row.failures + 1
         dead == n >= MAX_ATTEMPTS IN
     IF Holds(w)
     THEN /\ row' = [row EXCEPT !.failures = n, !.abandoned = 0, !.holder = "none",
                       !.status = IF dead THEN "deadLetter" ELSE "pending"]
          /\ leased' = FALSE /\ ready' = FALSE
          /\ worker' = [worker EXCEPT ![w] =
               IF dead THEN [Idle EXCEPT !.at = "mark", !.goal = "deadLetter"] ELSE Idle]
     ELSE UNCHANGED outbox /\ worker' = [worker EXCEPT ![w] = Idle]
  /\ UNCHANGED <<account, trigger>>

Dies(w) ==
  /\ ~At(w, "idle")
  /\ worker' = [worker EXCEPT ![w] = Idle]
  /\ UNCHANGED <<outbox, account, trigger>>

--------------------------------
Trigger == \/ TriggerReads \/ TriggerCompletes \/ TriggerRetires
           \/ TriggerEnqueues \/ TriggerRedelivered
Works(w) == \/ MarkReads(w) \/ MarkWrites(w) \/ StartStep(w) \/ RunStage(w)
            \/ AdvanceStage(w)
            \/ Release(w) \/ Complete(w) \/ StageThrows(w) \/ RecordFailure(w)
            \/ Dies(w)
Clock == LeaseExpires \/ BackoffEnds

Next == \/ DeleteAccountSelf \/ ConsoleDeletes \/ ServerWritesRow
        \/ Trigger \/ Clock
        \/ \E w \in Workers : Claim(w) \/ Poisoned(w) \/ Works(w)

Spec == Init /\ [][Next]_vars

--------------------------------
(* Properties *)

TypeOK ==
  /\ row.status \in {"none", "pending", "processing", "completed", "deadLetter"}
  /\ row.stage \in 1..Len(STAGE_ORDER)
  /\ row.holder \in Workers \cup {"none"}
  /\ row.failures \in 0..MAX_ATTEMPTS /\ row.abandoned \in 0..MAX_ABANDONED_ATTEMPTS
  /\ row.status = "processing" <=> row.holder # "none"
  /\ \A s \in DataStages : left[s] \in 0..Pages[s]
  /\ \A w \in Workers : worker[w].stage \in 1..Len(STAGE_ORDER)

(* The Auth identity is deleted by the pipeline only when nothing is left
   for any stage before it, whichever workers did the stages (stages.js:7-11,
   deletion.js:420-433). *)
AuthLast ==
  authUser = "pipeline" => \A s \in DataStages : left[s] = 0

(* A stage the row has passed has no data left: a retry never skips a page
   that a dead, failed or overtaken worker left behind (stages.js:3-5). *)
PassedStagesAreEmpty ==
  \A s \in DataStages : row.stage > stageIndex(s) => left[s] = 0

(* The persisted stage never moves back, and a completed row stays
   completed, however late a superseded worker reports (deletion.js:392-453). *)
StageNeverBack ==
  [][/\ row'.stage >= row.stage
     /\ row.status = "completed" => row'.status = "completed"]_row

(* While a row exists the account cannot act: it is frozen before its
   teardown begins, on both entry points (deletion.js:219-243). *)
FrozenDuringTeardown ==
  row.status # "none" => profile # "live"

(* The three together: the deletion takes things away in their order. *)
DeletionInOrder == AuthLast /\ PassedStagesAreEmpty /\ FrozenDuringTeardown

============================================================================
