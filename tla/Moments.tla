------------------------------ MODULE Moments ------------------------------
(***************************************************************************)
(* Voice Moments of one author and the comments others leave on them:      *)
(* moments/integrity.js, moments/capacity.js, moments/expiry.js, the staff *)
(* removals of moderation/reports.js and the content and storage stages of *)
(* account/stages.js.                                                      *)
(*                                                                         *)
(* Documents change in transactions; sound objects do not.  A draft or a   *)
(* reservation comes first, then the upload, then a finalizer that checks  *)
(* the object and commits.  What is deleted leaves an outbox row, which    *)
(* workers take up by trigger and by schedule: they read the row and a     *)
(* page of comments outside a transaction, delete objects one by one, then *)
(* the documents, and may die anywhere.                                    *)
(***************************************************************************)
EXTENDS Naturals, FiniteSets, FiniteSetsExt

CONSTANTS
  Shelf,       \* the author's moments
  Replies,     \* comments by others, numbers in the order of their ids; 0 is no cursor
  replyTo,     \* comment -> moment
  Voice,       \* the voice comments
  Likers,      \* users who like
  Capacity,    \* MAX_ACTIVE_MOMENTS
  PageSize,    \* cleanupPageSize
  Workers,     \* processCleanupOutbox calls in flight
  MayDeleteAccount

MomentsAssumption ==
  /\ Replies \subseteq Nat \ {0} /\ Voice \subseteq Replies /\ Shelf \cap Replies = {}
  /\ replyTo \in [Replies -> Shelf] /\ Capacity \in Nat /\ PageSize \in Nat \ {0}

VARIABLES
  moment,       \* status of each moment: none, uploading, published, ...
  permanent,    \* moments published without expiresAt
  aged,         \* moments created 24 hours ago or more
  comment,      \* comments that exist
  tally,        \* commentCount
  likes,        \* likes that exist
  likeTally,    \* likeCount
  reservation,  \* voice comment reservations: none, open, late, gone
  objects,      \* sound objects in Storage, by the moment or comment they are of
  begun,        \* calls that passed their checks, with the ages they saw
  row,          \* outbox rows of moments: status and comment cursor
  rowOf,        \* outbox rows of comments and reservations
  worker,       \* workers on a moment's row
  account       \* the author's account: active, closing, content, swept

docs == <<moment, permanent, comment, tally, likes, likeTally, reservation, row, rowOf>>
vars == <<docs, aged, objects, begun, worker, account>>

NoRow == [status |-> "none", cursor |-> 0]
Idle == [at |-> "idle"]
NotBegun == [at |-> "no"]

Init ==
  /\ moment = [m \in Shelf |-> "none"] /\ permanent = {} /\ aged = {}
  /\ comment = {} /\ tally = [m \in Shelf |-> 0]
  /\ likes = [m \in Shelf |-> {}] /\ likeTally = [m \in Shelf |-> 0]
  /\ reservation = [r \in Voice |-> "none"] /\ objects = {}
  /\ begun = [x \in Shelf \cup Replies |-> NotBegun]
  /\ row = [m \in Shelf |-> NoRow] /\ rowOf = [r \in Voice |-> "none"]
  /\ worker = [w \in Workers |-> Idle] /\ account = "active"

CommentsOn(m) == {r \in comment : replyTo[r] = m}
Begins(x) == begun' = [begun EXCEPT ![x] = [at |-> "yes", aged |-> aged]]

--------------------------------
(* capacity.js and validateMoment *)

(* The moments that hold a slot, by a clock that has seen these ages. *)
Active(seen) == {m \in Shelf : moment[m] = "published" /\ (m \in permanent \/ m \notin seen)}

HasCapacity(m, seen) == Cardinality(Active(seen) \ {m}) < Capacity

(* Open for likes and comments, by the clock of the request. *)
Open(m, seen) == m \in Active(seen)

(* What the author and the staff may still remove; a deleting one is refused. *)
Removable(m) == moment[m] \in {"uploading", "published", "expired"}

--------------------------------
(* The author: draft, upload, publication *)

reserveMomentDraft(m) ==
  /\ account = "active" /\ moment[m] = "none" /\ Cardinality(Active(aged)) < Capacity
  /\ moment' = [moment EXCEPT ![m] = "uploading"]
  /\ UNCHANGED <<permanent, aged, comment, tally, likes, likeTally, reservation, objects,
                 begun, row, rowOf, worker, account>>

UploadMoment(m) ==
  /\ account = "active" /\ moment[m] = "uploading" /\ m \notin objects
  /\ objects' = objects \cup {m}
  /\ UNCHANGED <<docs, aged, begun, worker, account>>

(* The preflight, the metadata and the token revocation, outside the commit. *)
FinalizeMomentBegins(m) ==
  /\ account = "active" /\ m \in objects /\ Begins(m)
  /\ UNCHANGED <<docs, aged, objects, worker, account>>

finalizeMomentDraft(m, forGood) ==
  /\ account = "active" /\ begun[m].at = "yes"
  /\ moment[m] = "uploading" /\ HasCapacity(m, begun[m].aged)
  /\ moment' = [moment EXCEPT ![m] = "published"]
  /\ permanent' = IF forGood THEN permanent \cup {m} ELSE permanent
  /\ UNCHANGED <<aged, comment, tally, likes, likeTally, reservation, objects, begun, row,
                 rowOf, worker, account>>

(* 24 hours from createdAt: a draft is abandoned, a daily moment is due. *)
Ages(m) ==
  /\ moment[m] \in {"uploading", "published"} /\ m \notin aged
  /\ aged' = aged \cup {m}
  /\ UNCHANGED <<docs, objects, begun, worker, account>>

StillDue(m) == m \in aged \ permanent /\ moment[m] = "published"

expireMomentIfStillPastDeadline(m) ==
  /\ StillDue(m)
  /\ moment' = [moment EXCEPT ![m] = "expired"]
  /\ UNCHANGED <<permanent, aged, comment, tally, likes, likeTally, reservation, objects,
                 begun, row, rowOf, worker, account>>

(* The document is marked and its outbox row is set, in one transaction. *)
MarksDeleting(m) ==
  /\ moment' = [moment EXCEPT ![m] = "deleting"]
  /\ row' = [row EXCEPT ![m] = [status |-> "pending", cursor |-> 0]]
  /\ UNCHANGED <<permanent, aged, comment, tally, likes, likeTally, reservation, objects,
                 begun, rowOf, worker, account>>

deleteMoment(m) == account = "active" /\ Removable(m) /\ MarksDeleting(m)
reviewRemovesMoment(m) == moment[m] \in {"published", "expired"} /\ MarksDeleting(m)
expireAbandonedMomentDrafts(m) == m \in aged /\ moment[m] = "uploading" /\ MarksDeleting(m)

--------------------------------
(* The others: likes, text comments, voice comments *)

setMomentLike(u, m) ==
  /\ Open(m, aged)
  /\ likes' = [likes EXCEPT ![m] = IF u \in @ THEN @ \ {u} ELSE @ \cup {u}]
  /\ likeTally' = [likeTally EXCEPT ![m] = IF u \in likes[m] THEN @ - 1 ELSE @ + 1]
  /\ UNCHANGED <<moment, permanent, aged, comment, tally, reservation, objects, begun, row,
                 rowOf, worker, account>>

CommentBegins(r) ==
  /\ r \notin Voice /\ begun[r].at = "no" /\ Begins(r)
  /\ UNCHANGED <<docs, aged, objects, worker, account>>

createMomentComment(r) ==
  /\ r \notin Voice /\ begun[r].at = "yes" /\ Open(replyTo[r], begun[r].aged)
  /\ comment' = comment \cup {r} /\ tally' = [tally EXCEPT ![replyTo[r]] = @ + 1]
  /\ begun' = [begun EXCEPT ![r] = [at |-> "done"]]
  /\ UNCHANGED <<moment, permanent, aged, likes, likeTally, reservation, objects, row, rowOf,
                 worker, account>>

reserveVoiceCommentDraft(r) ==
  /\ reservation[r] = "none" /\ Open(replyTo[r], aged)
  /\ reservation' = [reservation EXCEPT ![r] = "open"]
  /\ UNCHANGED <<moment, permanent, aged, comment, tally, likes, likeTally, objects, begun,
                 row, rowOf, worker, account>>

UploadReply(r) ==
  /\ reservation[r] = "open" /\ r \notin objects
  /\ objects' = objects \cup {r}
  /\ UNCHANGED <<docs, aged, begun, worker, account>>

ReservationRunsOut(r) ==
  /\ reservation[r] = "open"
  /\ reservation' = [reservation EXCEPT ![r] = "late"]
  /\ UNCHANGED <<moment, permanent, aged, comment, tally, likes, likeTally, objects, begun,
                 row, rowOf, worker, account>>

FinalizeReplyBegins(r) ==
  /\ reservation[r] = "open" /\ r \in objects /\ Begins(r)
  /\ UNCHANGED <<docs, aged, objects, worker, account>>

(* mutant: the reservation read before the object is not read again *)
ReservedThen(r) == begun[r].at = "yes" /\ r \notin comment
(* Its clock is the call's: a reservation that ran out since is still good. *)
StillReserved(r) == begun[r].at = "yes" /\ reservation[r] \in {"open", "late"}

finalizeVoiceCommentDraft(r) ==
  /\ StillReserved(r) /\ Open(replyTo[r], begun[r].aged)
  /\ comment' = comment \cup {r} /\ tally' = [tally EXCEPT ![replyTo[r]] = @ + 1]
  /\ reservation' = [reservation EXCEPT ![r] = "gone"]
  /\ UNCHANGED <<moment, permanent, aged, likes, likeTally, objects, begun, row, rowOf,
                 worker, account>>

QueuesReply(r) == rowOf' = IF r \in Voice THEN [rowOf EXCEPT ![r] = "pending"] ELSE rowOf

expireAbandonedVoiceCommentDrafts(r) ==
  /\ reservation[r] = "late"
  /\ reservation' = [reservation EXCEPT ![r] = "gone"] /\ QueuesReply(r)
  /\ UNCHANGED <<moment, permanent, aged, comment, tally, likes, likeTally, objects, begun,
                 row, worker, account>>

LowersCount(r) == tally' = [tally EXCEPT ![replyTo[r]] = @ - 1]

(* deleteMomentComment by its author, or the staff on a report. *)
RemovesComment(r) ==
  /\ r \in comment /\ moment[replyTo[r]] \in {"published", "expired"}
  /\ tally[replyTo[r]] > 0
  /\ comment' = comment \ {r} /\ LowersCount(r) /\ QueuesReply(r)
  /\ UNCHANGED <<moment, permanent, aged, likes, likeTally, reservation, objects, begun, row,
                 worker, account>>

--------------------------------
(* processCleanupOutbox *)

(* The row and the next page of comments after its cursor are read. *)
Page(m, after) ==
  LET rest == {r \in CommentsOn(m) : r > after}
  IN {r \in rest : Cardinality({s \in rest : s < r}) < PageSize}

CleanupReads(w, m) ==
  /\ worker[w].at = "idle" /\ row[m].status = "pending"
  /\ worker' = [worker EXCEPT ![w] =
       [at |-> "delete", on |-> m, page |-> Page(m, row[m].cursor), cursor |-> row[m].cursor]]
  /\ UNCHANGED <<docs, aged, objects, begun, account>>

FullPage(p) == Cardinality(p) = PageSize

(* The worker deletes the objects it named; it may fail or die before the last. *)
CleanupDeletes(w) ==
  LET it == worker[w] IN
  /\ it.at = "delete"
  /\ objects' = objects \ ((it.page \cap Voice) \cup {it.on})
  /\ worker' = [worker EXCEPT ![w].at = IF FullPage(it.page) THEN "turn" ELSE "root"]
  /\ UNCHANGED <<docs, aged, begun, account>>
CleanupFails(w) ==
  /\ worker[w].at = "delete"
  /\ \E S \in SUBSET ((worker[w].page \cap Voice) \cup {worker[w].on}) : objects' = objects \ S
  /\ worker' = [worker EXCEPT ![w] = Idle]
  /\ UNCHANGED <<docs, aged, begun, account>>

(* A full page: the row is pending again, behind the last comment of the page. *)
CleanupTurns(w) ==
  LET it == worker[w] IN
  /\ it.at = "turn"
  /\ row' = [row EXCEPT ![it.on] = [status |-> "pending", cursor |-> Max(it.page)]]
  /\ worker' = [worker EXCEPT ![w] = Idle]
  /\ UNCHANGED <<moment, permanent, aged, comment, tally, likes, likeTally, reservation,
                 objects, begun, rowOf, account>>

(* recursiveDelete is not atomic: some of the documents, or all of them. *)
RecursiveDelete(m, removed) ==
  /\ comment' = comment \ removed
  /\ IF removed = CommentsOn(m)
     THEN /\ moment' = [moment EXCEPT ![m] = "gone"] /\ permanent' = permanent \ {m}
          /\ likes' = [likes EXCEPT ![m] = {}]
     ELSE UNCHANGED <<moment, permanent, likes>>

CleanupRemovesRoot(w) ==
  /\ worker[w].at = "root"
  /\ RecursiveDelete(worker[w].on, CommentsOn(worker[w].on))
  /\ worker' = [worker EXCEPT ![w].at = "complete"]
  /\ UNCHANGED <<aged, tally, likeTally, reservation, objects, begun, row, rowOf, account>>
CleanupDies(w) ==
  /\ worker[w].at \in {"root", "turn", "complete"}
  /\ IF worker[w].at = "root"
     THEN \E S \in SUBSET CommentsOn(worker[w].on) : RecursiveDelete(worker[w].on, S)
     ELSE UNCHANGED <<comment, moment, permanent, likes>>
  /\ worker' = [worker EXCEPT ![w] = Idle]
  /\ UNCHANGED <<aged, tally, likeTally, reservation, objects, begun, row, rowOf, account>>

CleanupCompletes(w) ==
  /\ worker[w].at = "complete"
  /\ row' = [row EXCEPT ![worker[w].on].status = "completed"]
  /\ worker' = [worker EXCEPT ![w] = Idle]
  /\ UNCHANGED <<moment, permanent, aged, comment, tally, likes, likeTally, reservation,
                 objects, begun, rowOf, account>>

(* The row of one comment or reservation names one object. *)
CleanupReply(r) ==
  /\ rowOf[r] = "pending"
  /\ objects' = objects \ {r} /\ rowOf' = [rowOf EXCEPT ![r] = "completed"]
  /\ UNCHANGED <<moment, permanent, aged, comment, tally, likes, likeTally, reservation,
                 begun, row, worker, account>>

--------------------------------
(* The deletion of the author's account *)

AccountCloses ==
  /\ MayDeleteAccount /\ account = "active" /\ account' = "closing"
  /\ UNCHANGED <<docs, aged, objects, begun, worker>>

(* runContent: the documents go, whatever their state, and no row is left. *)
ContentStage(m) ==
  /\ account = "closing" /\ moment[m] \notin {"none", "gone"}
  /\ RecursiveDelete(m, CommentsOn(m))
  /\ UNCHANGED <<aged, tally, likeTally, reservation, objects, begun, row, rowOf, worker,
                 account>>
ContentStageEnds ==
  /\ account = "closing" /\ \A m \in Shelf : moment[m] \in {"none", "gone"}
  /\ account' = "content" /\ UNCHANGED <<docs, aged, objects, begun, worker>>

(* The author's prefixes: voice_moments/{uid}/ and voice_replies/{uid}/. *)
StorageStage ==
  /\ account = "content" /\ account' = "swept" /\ objects' = objects \ Shelf
  /\ UNCHANGED <<docs, aged, begun, worker>>

--------------------------------
WorkerSteps(w) ==
  \/ \E m \in Shelf : CleanupReads(w, m)
  \/ CleanupDeletes(w) \/ CleanupFails(w) \/ CleanupTurns(w) \/ CleanupRemovesRoot(w)
  \/ CleanupDies(w) \/ CleanupCompletes(w)

Next ==
  \/ \E m \in Shelf :
       \/ reserveMomentDraft(m) \/ UploadMoment(m) \/ FinalizeMomentBegins(m)
       \/ \E forGood \in BOOLEAN : finalizeMomentDraft(m, forGood)
       \/ Ages(m) \/ expireMomentIfStillPastDeadline(m)
       \/ deleteMoment(m) \/ reviewRemovesMoment(m) \/ expireAbandonedMomentDrafts(m)
       \/ \E u \in Likers : setMomentLike(u, m)
       \/ ContentStage(m)
  \/ \E r \in Replies : CommentBegins(r) \/ createMomentComment(r) \/ RemovesComment(r)
  \/ \E r \in Voice :
       \/ reserveVoiceCommentDraft(r) \/ UploadReply(r) \/ ReservationRunsOut(r)
       \/ FinalizeReplyBegins(r) \/ finalizeVoiceCommentDraft(r)
       \/ expireAbandonedVoiceCommentDrafts(r) \/ CleanupReply(r)
  \/ \E w \in Workers : WorkerSteps(w)
  \/ AccountCloses \/ ContentStageEnds \/ StorageStage

Spec == Init /\ [][Next]_vars

--------------------------------
(* The state has the shape the documents have. *)
TypeOK ==
  /\ moment \in [Shelf -> {"none", "uploading", "published", "expired", "deleting", "gone"}]
  /\ permanent \subseteq Shelf /\ aged \subseteq Shelf /\ comment \subseteq Replies
  /\ tally \in [Shelf -> Nat] /\ likeTally \in [Shelf -> Nat]
  /\ likes \in [Shelf -> SUBSET Likers]
  /\ reservation \in [Voice -> {"none", "open", "late", "gone"}]
  /\ objects \subseteq Shelf \cup Replies
  /\ \A m \in Shelf : row[m].status \in {"none", "pending", "completed"}
                      /\ row[m].cursor \in Nat
  /\ rowOf \in [Voice -> {"none", "pending", "completed"}]
  /\ account \in {"active", "closing", "content", "swept"}

(* No sound object is forgotten: while it exists, a draft, a reservation, a
   comment or a pending row still names it. *)
NothingForgotten ==
  \A x \in objects :
    IF x \in Shelf
    THEN moment[x] \in {"uploading", "published", "expired"} \/ row[x].status = "pending"
    ELSE \/ reservation[x] \in {"open", "late"} \/ rowOf[x] = "pending"
         \/ x \in comment /\ (\/ moment[replyTo[x]] \in {"published", "expired"}
                              \/ row[replyTo[x]].status = "pending")

(* What can be read can be played: a published or expired moment and the voice
   comments on it have their objects, whatever cleanup runs beside them. *)
ReadableIsPlayable ==
  \A m \in Shelf : moment[m] \in {"published", "expired"} =>
    /\ account \in {"active", "closing"} => m \in objects
    /\ CommentsOn(m) \cap Voice \subseteq objects

(* commentCount and likeCount of a moment that can be read are the numbers of
   its comments and likes, with finalizers, removals and sweeps in any order. *)
CountsAreTrue ==
  \A m \in Shelf : moment[m] \in {"published", "expired"} =>
    tally[m] = Cardinality(CommentsOn(m)) /\ likeTally[m] = Cardinality(likes[m])

(* The author never has more moments active than the shelf has slots, although
   drafts take none and finalizers decide by the clock of their request. *)
ActiveWithinCapacity == Cardinality(Active(aged)) <= Capacity

(* A moment that is being deleted is never taken back to the shelf or to the
   expired ones, and an expired one is never published again. *)
DeletingIsFinal ==
  \A m \in Shelf :
    /\ moment[m] = "deleting" => moment'[m] \in {"deleting", "gone"}
    /\ moment[m] = "expired" => moment'[m] # "published"

=============================================================================
