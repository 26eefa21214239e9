--------------------------- MODULE ReelLifecycle ---------------------------
(***************************************************************************)
(* One Reel of reels/service.js and the voice comments on it: the draft,   *)
(* the publication, the comments, the expiry with its thirty days of       *)
(* evidence, the deletion by the author, and the leased outbox that        *)
(* removes what they leave.                                                *)
(*                                                                         *)
(* The root document outlives its content as a tombstone, so the thread    *)
(* under it is removed by the workers: they claim a row with a lease,      *)
(* judge the root, queue the sound of each voice comment as a row of its   *)
(* own while they delete the comment, delete objects, and settle the row   *)
(* only if their lease still stands.  A worker may fail, die, or be slower *)
(* than its lease.                                                         *)
(***************************************************************************)
EXTENDS Naturals, FiniteSets, FiniteSetsExt

CONSTANTS
  Replies,      \* voice comments
  Workers,      \* processCleanupOutbox calls in flight
  PageSize,     \* REEL_VOICE_COMMENT_PURGE_PAGE_SIZE
  MaxPages,     \* REEL_VOICE_COMMENT_PURGE_MAX_PAGES
  MaxAttempts,  \* REEL_CLEANUP_MAX_ATTEMPTS
  MaxMishaps,   \* bound: deaths and overrun leases
  Media, Expiry \* the object of the Reel and its row; its retention row

ReelAssumption ==
  /\ Media # Expiry /\ {Media, Expiry} \cap Replies = {}
  /\ {PageSize, MaxPages, MaxAttempts} \subseteq Nat \ {0} /\ MaxMishaps \in Nat

VARIABLES
  draft,      \* reelUploadReservations: none, open, late, gone
  root,       \* reels: none, published, expired, purged, deleted
  due,        \* the availability window is over
  purgeDue,   \* the retention of the evidence is over
  comments,   \* comments that exist
  tally,      \* commentCount
  reserved,   \* reelVoiceCommentReservations: none, open, late, gone
  objects,    \* objects in Storage
  rows,       \* reelCleanupOutbox
  worker,     \* what each worker holds
  mishaps

content == <<draft, root, comments, tally, reserved>>
clocks == <<due, purgeDue>>
vars == <<content, clocks, objects, rows, worker, mishaps>>

RowIds == Replies \cup {Media, Expiry}
NoRow == [status |-> "none", attempts |-> 0, phase |-> "delete", leased |-> FALSE]
NewRow(phase) == [status |-> "pending", attempts |-> 0, phase |-> phase, leased |-> FALSE]
Idle == [at |-> "idle"]

Init ==
  /\ draft = "none" /\ root = "none" /\ due = FALSE /\ purgeDue = FALSE
  /\ comments = {} /\ tally = 0 /\ reserved = [r \in Replies |-> "none"]
  /\ objects = {} /\ rows = [i \in RowIds |-> NoRow]
  /\ worker = [w \in Workers |-> Idle] /\ mishaps = 0

--------------------------------
(* The author *)

reserveReelDraft ==
  /\ draft = "none" /\ draft' = "open"
  /\ UNCHANGED <<root, comments, tally, reserved, clocks, objects, rows, worker, mishaps>>

UploadMedia ==
  /\ draft = "open" /\ objects' = objects \cup {Media} /\ Media \notin objects
  /\ UNCHANGED <<content, clocks, rows, worker, mishaps>>

DraftRunsOut ==
  /\ draft = "open" /\ draft' = "late"
  /\ UNCHANGED <<root, comments, tally, reserved, clocks, objects, rows, worker, mishaps>>

(* The object that was uploaded is the one reserved: probed, and its download
   token revoked, before the commit. *)
MediaVerified == Media \in objects

(* The commit reads the clock and the reservation again and deletes it. *)
finalizeReelDraft ==
  /\ draft = "open" /\ MediaVerified /\ root = "none"
  /\ draft' = "gone" /\ root' = "published"
  /\ UNCHANGED <<comments, tally, reserved, clocks, objects, rows, worker, mishaps>>

expireAbandonedReelDrafts ==
  /\ draft = "late" /\ draft' = "gone"
  /\ rows' = [rows EXCEPT ![Media] = NewRow("delete")]
  /\ UNCHANGED <<root, comments, tally, reserved, clocks, objects, worker, mishaps>>

WindowCloses ==
  /\ root = "published" /\ ~due /\ due' = TRUE
  /\ UNCHANGED <<content, purgeDue, objects, rows, worker, mishaps>>

expirePublishedReels ==
  /\ root = "published" /\ due
  /\ root' = "expired" /\ rows' = [rows EXCEPT ![Expiry] = NewRow("retain")]
  /\ UNCHANGED <<draft, comments, tally, reserved, clocks, objects, worker, mishaps>>

RetentionEnds ==
  /\ rows[Expiry].status # "none" /\ ~purgeDue /\ purgeDue' = TRUE
  /\ UNCHANGED <<content, due, objects, rows, worker, mishaps>>

(* The evidence of a purged Reel is rewritten; nothing is left to clean up. *)
deleteReel ==
  /\ root \in {"published", "expired", "purged"}
  /\ root' = "deleted"
  /\ rows' = IF root = "purged" THEN rows ELSE [rows EXCEPT ![Media] = NewRow("delete")]
  /\ UNCHANGED <<draft, comments, tally, reserved, clocks, objects, worker, mishaps>>

--------------------------------
(* The commenters *)

Engageable == root = "published" /\ ~due

reserveReelVoiceCommentDraft(r) ==
  /\ Engageable /\ reserved[r] = "none" /\ reserved' = [reserved EXCEPT ![r] = "open"]
  /\ UNCHANGED <<draft, root, comments, tally, clocks, objects, rows, worker, mishaps>>

UploadSound(r) ==
  /\ reserved[r] = "open" /\ r \notin objects /\ objects' = objects \cup {r}
  /\ UNCHANGED <<content, clocks, rows, worker, mishaps>>

SoundRunsOut(r) ==
  /\ reserved[r] = "open" /\ reserved' = [reserved EXCEPT ![r] = "late"]
  /\ UNCHANGED <<draft, root, comments, tally, clocks, objects, rows, worker, mishaps>>

EngageableNow == Engageable

finalizeReelVoiceCommentDraft(r) ==
  /\ EngageableNow /\ reserved[r] = "open" /\ r \in objects
  /\ comments' = comments \cup {r} /\ tally' = tally + 1
  /\ reserved' = [reserved EXCEPT ![r] = "gone"]
  /\ UNCHANGED <<draft, root, clocks, objects, rows, worker, mishaps>>

expireAbandonedReelVoiceCommentDrafts(r) ==
  /\ reserved[r] = "late" /\ reserved' = [reserved EXCEPT ![r] = "gone"]
  /\ rows' = [rows EXCEPT ![r] = NewRow("delete")]
  /\ UNCHANGED <<draft, root, comments, tally, clocks, objects, worker, mishaps>>

StillThere(r) == r \in comments

removeReelComment(r) ==
  /\ root \in {"published", "expired"} /\ StillThere(r) /\ tally > 0
  /\ comments' = comments \ {r} /\ tally' = tally - 1
  /\ rows' = [rows EXCEPT ![r] = NewRow("delete")]
  /\ UNCHANGED <<draft, root, reserved, clocks, objects, worker, mishaps>>

(* The author of the comment does what the author of the Reel does. *)
deleteReelComment(r) == removeReelComment(r)

--------------------------------
(* The outbox: claim, failure, settlement *)

Ready(i) == rows[i].status = "pending" /\ (rows[i].phase = "purge" => purgeDue)

FirstStep(i) ==
  IF i \in Replies THEN "objects"
  ELSE IF i = Media THEN "engage"
  ELSE IF rows[i].phase = "retain" THEN "retain" ELSE "judge"

Abandoned(i) == rows[i].status = "processing" /\ ~rows[i].leased

claimCleanupOutbox(w, i) ==
  /\ worker[w].at = "idle" /\ (Ready(i) \/ Abandoned(i))
  /\ rows' = [rows EXCEPT ![i].status = "processing", ![i].attempts = @ + 1, ![i].leased = TRUE]
  /\ worker' = [worker EXCEPT ![w] = [at |-> FirstStep(i), row |-> i, pages |-> 0,
                                      token |-> rows[i].attempts + 1, skip |-> FALSE]]
  /\ UNCHANGED <<content, clocks, objects, mishaps>>

HoldsLease(w) ==
  LET row == rows[worker[w].row]
  IN row.status = "processing" /\ row.attempts = worker[w].token

AtWorkOn(i) == \E w \in Workers : worker[w].at # "idle" /\ worker[w].row = i
                                  /\ HoldsLease(w)

(* A lease runs out behind a dead worker, or, a bounded number of times,
   behind one that is only slow. *)
LeaseRunsOut(i) ==
  /\ rows[i].leased /\ rows[i].status = "processing"
  /\ AtWorkOn(i) => mishaps < MaxMishaps
  /\ mishaps' = IF AtWorkOn(i) THEN mishaps + 1 ELSE mishaps
  /\ rows' = [rows EXCEPT ![i].leased = FALSE]
  /\ UNCHANGED <<content, clocks, objects, worker>>

Dies(w) ==
  /\ worker[w].at # "idle" /\ mishaps < MaxMishaps /\ mishaps' = mishaps + 1
  /\ worker' = [worker EXCEPT ![w] = Idle]
  /\ UNCHANGED <<content, clocks, objects, rows>>

OutOfAttempts(w) == worker[w].token >= MaxAttempts

recordCleanupFailure(w) ==
  /\ rows' = IF ~HoldsLease(w) THEN rows
             ELSE [rows EXCEPT ![worker[w].row].leased = FALSE, ![worker[w].row].status =
                     IF OutOfAttempts(w) THEN "deadLetter" ELSE "pending"]
  /\ worker' = [worker EXCEPT ![w] = Idle]
  /\ UNCHANGED <<content, clocks, objects, mishaps>>

(* Whatever a worker does may throw: Storage, Firestore, a check. *)
Fails(w) == worker[w].at # "idle" /\ recordCleanupFailure(w)

Settles(w, row) == rows' = [rows EXCEPT ![worker[w].row] = row]
Completed(w) == [rows[worker[w].row] EXCEPT !.status = "completed", !.leased = FALSE]

completeCleanupOutbox(w) ==
  /\ worker[w].at = "settle" /\ worker[w].row # Expiry
  /\ IF HoldsLease(w) THEN Settles(w, Completed(w)) ELSE UNCHANGED rows
  /\ worker' = [worker EXCEPT ![w] = Idle]
  /\ UNCHANGED <<content, clocks, objects, mishaps>>

GoesTo(w, step) == worker' = [worker EXCEPT ![w].at = step]

--------------------------------
(* purgeReelEngagement *)

Retired(w) == root \in {"none", "deleted", "purged"} \/ (root = "expired" /\ worker[w].row = Expiry)

PurgeReadsRoot(w) ==
  /\ worker[w].at = "engage" /\ GoesTo(w, IF Retired(w) THEN "queue" ELSE "objects")
  /\ UNCHANGED <<content, clocks, objects, rows, mishaps>>

QueuesPage(page) == [i \in RowIds |-> IF i \in page THEN NewRow("delete") ELSE rows[i]]

enqueueVoiceCommentCleanup(w) ==
  /\ worker[w].at = "queue" /\ comments # {} /\ worker[w].pages < MaxPages
  /\ \E page \in SUBSET comments :
       /\ Cardinality(page) = Min({PageSize, Cardinality(comments)})
       /\ rows' = QueuesPage(page) /\ comments' = comments \ page
       /\ worker' = [worker EXCEPT ![w].pages = @ + 1,
                                   ![w].at = IF Cardinality(page) < PageSize
                                             THEN "sweep" ELSE "queue"]
  /\ UNCHANGED <<draft, root, tally, reserved, clocks, objects, mishaps>>

QueueIsEmpty(w) ==
  /\ worker[w].at = "queue" /\ comments = {} /\ worker[w].pages < MaxPages
  /\ GoesTo(w, "sweep")
  /\ UNCHANGED <<content, clocks, objects, rows, mishaps>>

ScanIncomplete(w) == recordCleanupFailure(w)

PagesUsedUp(w) ==
  /\ worker[w].at = "queue" /\ worker[w].pages = MaxPages /\ ScanIncomplete(w)

PurgeSweeps(w) ==
  /\ worker[w].at = "sweep" /\ comments' = {}
  /\ GoesTo(w, IF worker[w].skip THEN "settle" ELSE "objects")
  /\ UNCHANGED <<draft, root, tally, reserved, clocks, objects, rows, mishaps>>

CleanupDeletesObjects(w) ==
  /\ worker[w].at = "objects"
  /\ objects' = objects \ {IF worker[w].row = Expiry THEN Media ELSE worker[w].row}
  /\ GoesTo(w, "settle")
  /\ UNCHANGED <<content, clocks, rows, mishaps>>

--------------------------------
(* Expiry: retain the originals, purge them later, yield to a deletion *)

DeletionOwnsCleanup == root = "deleted"

RetainLooks(w) ==
  /\ worker[w].at = "retain" /\ (DeletionOwnsCleanup \/ Media \in objects)
  /\ GoesTo(w, "keep") /\ UNCHANGED <<content, clocks, objects, rows, mishaps>>

retainExpiredReel(w) ==
  /\ worker[w].at = "keep"
  /\ IF ~HoldsLease(w) THEN UNCHANGED rows
     ELSE Settles(w, IF DeletionOwnsCleanup THEN Completed(w)
                     ELSE [rows[Expiry] EXCEPT !.status = "pending", !.phase = "purge",
                                               !.leased = FALSE])
  /\ worker' = [worker EXCEPT ![w] = Idle]
  /\ UNCHANGED <<content, clocks, objects, mishaps>>

PurgeJudges(w) ==
  /\ worker[w].at = "judge"
  /\ worker' = [worker EXCEPT ![w].at = IF DeletionOwnsCleanup THEN "settle" ELSE "engage",
                              ![w].skip = (root = "purged")]
  /\ UNCHANGED <<content, clocks, objects, rows, mishaps>>

(* mutant: the tombstone is written over what was judged *)
TombstoneAsJudged == "purged"
Tombstone == IF root = "expired" THEN "purged" ELSE root

purgeExpiredReel(w) ==
  /\ worker[w].at = "settle" /\ worker[w].row = Expiry
  /\ IF HoldsLease(w)
     THEN root' = Tombstone /\ Settles(w, Completed(w))
     ELSE UNCHANGED <<root, rows>>
  /\ worker' = [worker EXCEPT ![w] = Idle]
  /\ UNCHANGED <<draft, comments, tally, reserved, clocks, objects, mishaps>>

--------------------------------
Progress(w) ==
  \/ PurgeReadsRoot(w) \/ enqueueVoiceCommentCleanup(w) \/ QueueIsEmpty(w) \/ PagesUsedUp(w)
  \/ PurgeSweeps(w) \/ CleanupDeletesObjects(w) \/ completeCleanupOutbox(w)
  \/ RetainLooks(w) \/ retainExpiredReel(w) \/ PurgeJudges(w) \/ purgeExpiredReel(w)

Next ==
  \/ reserveReelDraft \/ UploadMedia \/ DraftRunsOut \/ finalizeReelDraft
  \/ expireAbandonedReelDrafts \/ WindowCloses \/ expirePublishedReels \/ RetentionEnds
  \/ deleteReel
  \/ \E r \in Replies :
       \/ reserveReelVoiceCommentDraft(r) \/ UploadSound(r) \/ SoundRunsOut(r)
       \/ finalizeReelVoiceCommentDraft(r) \/ expireAbandonedReelVoiceCommentDrafts(r)
       \/ removeReelComment(r) \/ deleteReelComment(r)
  \/ \E w \in Workers : \E i \in RowIds : claimCleanupOutbox(w, i)
  \/ \E i \in RowIds : LeaseRunsOut(i)
  \/ \E w \in Workers : Progress(w) \/ Fails(w) \/ Dies(w)

Spec == Init /\ [][Next]_vars

--------------------------------
Unfinished(i) == rows[i].status \in {"pending", "processing", "deadLetter"}

(* The state has the shape the documents have; attempts are bounded by the
   budget and the mishaps. *)
TypeOK ==
  /\ draft \in {"none", "open", "late", "gone"}
  /\ root \in {"none", "published", "expired", "purged", "deleted"}
  /\ comments \subseteq Replies /\ tally \in 0 .. Cardinality(Replies)
  /\ reserved \in [Replies -> {"none", "open", "late", "gone"}]
  /\ objects \subseteq Replies \cup {Media} /\ {due, purgeDue} \subseteq BOOLEAN
  /\ rows \in [RowIds -> [status : {"none", "pending", "processing", "completed", "deadLetter"},
                          attempts : 0 .. MaxAttempts + MaxMishaps + 1, phase : {"delete", "retain", "purge"},
                          leased : BOOLEAN]]

(* No object is forgotten: while one exists, a reservation, a comment, the Reel
   or a row that is not completed still names it. *)
NothingForgotten ==
  /\ Media \in objects => \/ draft \in {"open", "late"} \/ root \in {"published", "expired"}
                          \/ Unfinished(Media)
  /\ \A r \in objects \cap Replies :
       \/ reserved[r] \in {"open", "late"} \/ Unfinished(r)
       \/ r \in comments /\ (\/ root \in {"published", "expired"} \/ Unfinished(Media)
                             \/ Unfinished(Expiry))

(* The originals of a published Reel are there, and those of an expired one
   stay, with its voice comments, until its retention is over: no row of a
   draft, a comment or an expiry reaches them before. *)
EvidenceKept ==
  root = "published" \/ (root = "expired" /\ ~purgeDue) =>
    Media \in objects /\ comments \subseteq objects

(* A deletion is final: no purge that judged the Reel before it writes its
   tombstone over that of the deletion. *)
DeletedIsFinal == root = "deleted" => root' = "deleted"

(* A row that is completed is done: no object of the Reel and no comment is
   left behind a completed cleanup or purge, however many workers held it. *)
CompletedMeansDone ==
  /\ rows[Media].status = "completed" => Media \notin objects /\ comments = {}
  /\ rows[Expiry].status = "completed" /\ root = "purged" => Media \notin objects /\ comments = {}
  /\ \A r \in Replies : rows[r].status = "completed" => r \notin objects

(* commentCount of a Reel that takes comments is the number of its comments. *)
CountIsTrue == root \in {"published", "expired"} /\ ~purgeDue => tally = Cardinality(comments)

=============================================================================
