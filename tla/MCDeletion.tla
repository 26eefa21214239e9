---------------------------- MODULE MCDeletion ----------------------------
(***************************************************************************)
(* TLC instances of the components that take things away in several steps, *)
(* with workers that die, lose their lease or are overtaken in between.    *)
(* They share no state in the code, so a behaviour plays one of them,      *)
(* chosen in the initial state, while the others stand still; the question *)
(* is the same for all five: what counts as removed is really gone, and    *)
(* nothing else is.                                                        *)
(***************************************************************************)
EXTENDS AccountDeletion, TLC

CONSTANTS w1, w2, m1, m2, u1, u2, root, none

TwoWorkers == {w1, w2}
WorkersAlike == Permutations(TwoWorkers)

\* A page for the stages whose data others read, none for the others.
SomePages == [s \in DataStages |-> IF s \in {"storage", "social"} THEN 1 ELSE 0]

\* A server with one channel: a studio that records, or a shelf of files.
ServerKinds == {"studio", "files"}
StudiosOf(kind) == IF kind = "studio" THEN {1} ELSE {}
ShelvesOf(kind) == IF kind = "files" THEN {1} ELSE {}

\* A Club that its owner and staff delete at the same time while its images are
\* written and moderation goes on, one whose id lives twice with calls of the
\* first life that go on into the second, and one with an image in each life.
ClubKinds == {"club", "club again", "club images"}
StepsOf(kind) == IF kind = "club again" THEN {"self", "staff", "suspend"}
                 ELSE {"self", "staff", "media", "suspend", "restore"}
LivesOf(kind) == IF kind = "club" THEN 1 ELSE 2
StopsOf(kind) == IF kind = "club again" THEN 0 ELSE 2
ClubCallsOf(kind) == IF kind = "club images" THEN {"w"} ELSE TwoWorkers

\* A shelf of two moments, or one moment with a text and a voice comment.
ShelfKinds == {"shelf", "thread"}
ShelfOf(kind) == IF kind = "shelf" THEN {m1, m2} ELSE {m1}
RepliesOf(kind) == IF kind = "shelf" THEN {} ELSE {1, 2}
VoiceOf(kind) == IF kind = "shelf" THEN {} ELSE {1}

VARIABLES
  part,          \* the component whose life is played
  serverRoot, serverChannel, serverContent, serverStored, serverRemote, serverJob,
  serverWorker, serverTransfers,
  clubRoot, clubStatus, clubDeleting, clubCleaned, clubRows, clubShelf, clubLounge,
  clubTalking, clubMirror, clubConsent, clubAvatar, clubObject, clubPublished, clubLife,
  clubUploads, clubStops, clubCall, clubBygone,
  reelDraft, reelRoot, reelDue, reelPurgeDue, reelComments, reelTally, reelReserved,
  reelObjects, reelRows, reelWorker, reelMishaps,
  momentMoment, momentPermanent, momentAged, momentComment, momentTally, momentLikes,
  momentLikeTally, momentReservation, momentObjects, momentBegun, momentRow, momentRowOf,
  momentWorker, momentAccount

serverVars ==
  <<serverRoot, serverChannel, serverContent, serverStored, serverRemote, serverJob,
    serverWorker, serverTransfers>>

RemovalOf(kind) == INSTANCE ServerRemoval WITH
  Users <- {u1, u2}, First <- u1, Channels <- {1}, Root <- root, Studios <- StudiosOf(kind),
  Shelves <- ShelvesOf(kind), Workers <- TwoWorkers, MaxRecords <- 1, MaxTransfers <- 1,
  None <- none, root <- serverRoot, channel <- serverChannel, content <- serverContent,
  stored <- serverStored, remote <- serverRemote, job <- serverJob, worker <- serverWorker,
  transfers <- serverTransfers

clubVars ==
  <<clubRoot, clubStatus, clubDeleting, clubCleaned, clubRows, clubShelf, clubLounge,
    clubTalking, clubMirror, clubConsent, clubAvatar, clubObject, clubPublished, clubLife,
    clubUploads, clubStops, clubCall, clubBygone>>

ClubOf(kind) == INSTANCE ClubDeletion WITH
  Owner <- "owner", Guests <- {"ann"}, Calls <- ClubCallsOf(kind), Kinds <- StepsOf(kind),
  MaxStops <- StopsOf(kind), MaxLives <- LivesOf(kind), root <- clubRoot, status <- clubStatus,
  deleting <- clubDeleting, cleaned <- clubCleaned, rows <- clubRows, shelf <- clubShelf,
  lounge <- clubLounge, talking <- clubTalking, mirror <- clubMirror,
  consent <- clubConsent, avatar <- clubAvatar, object <- clubObject,
  published <- clubPublished, life <- clubLife, uploads <- clubUploads, stops <- clubStops,
  call <- clubCall, bygone <- clubBygone

reelVars ==
  <<reelDraft, reelRoot, reelDue, reelPurgeDue, reelComments, reelTally, reelReserved,
    reelObjects, reelRows, reelWorker, reelMishaps>>

Reel == INSTANCE ReelLifecycle WITH
  Replies <- {"r1"}, Workers <- TwoWorkers, PageSize <- 1, MaxPages <- 2, MaxAttempts <- 2,
  MaxMishaps <- 1, Media <- "media", Expiry <- "expiry", draft <- reelDraft,
  root <- reelRoot, due <- reelDue, purgeDue <- reelPurgeDue, comments <- reelComments,
  tally <- reelTally, reserved <- reelReserved, objects <- reelObjects, rows <- reelRows,
  worker <- reelWorker, mishaps <- reelMishaps

momentVars ==
  <<momentMoment, momentPermanent, momentAged, momentComment, momentTally, momentLikes,
    momentLikeTally, momentReservation, momentObjects, momentBegun, momentRow, momentRowOf,
    momentWorker, momentAccount>>

MomentsOf(kind) == INSTANCE Moments WITH
  Shelf <- ShelfOf(kind), Replies <- RepliesOf(kind),
  replyTo <- [r \in RepliesOf(kind) |-> m1], Voice <- VoiceOf(kind), Likers <- {"u1"},
  Capacity <- 1, PageSize <- 1, Workers <- {"w"}, MayDeleteAccount <- (kind = "thread"),
  moment <- momentMoment, permanent <- momentPermanent, aged <- momentAged,
  comment <- momentComment, tally <- momentTally, likes <- momentLikes,
  likeTally <- momentLikeTally, reservation <- momentReservation, objects <- momentObjects,
  begun <- momentBegun, row <- momentRow, rowOf <- momentRowOf, worker <- momentWorker,
  account <- momentAccount

ASSUME InstancesAreLegal ==
  /\ \A kind \in ServerKinds : RemovalOf(kind)!RemovalConstantsAssumption
  /\ \A kind \in ClubKinds : ClubOf(kind)!ClubDeletionAssumption
  /\ Reel!ReelAssumption
  /\ \A kind \in ShelfKinds : MomentsOf(kind)!MomentsAssumption

\* The kind an instance has when it is not its part that is played.
Plays(kind, kinds, other) == kind = IF part \in kinds THEN part ELSE other

DeletionInit ==
  /\ part \in {"account", "reel"} \cup ServerKinds \cup ClubKinds \cup ShelfKinds
  /\ Init
  /\ \E kind \in ServerKinds : Plays(kind, ServerKinds, "studio") /\ RemovalOf(kind)!Init
  /\ \E kind \in ClubKinds : Plays(kind, ClubKinds, "club") /\ ClubOf(kind)!Init
  /\ Reel!Init
  /\ \E kind \in ShelfKinds : Plays(kind, ShelfKinds, "thread") /\ MomentsOf(kind)!Init

DeletionNext ==
  /\ UNCHANGED part
  /\ \/ /\ part = "account" /\ Next
        /\ UNCHANGED <<serverVars, clubVars, reelVars, momentVars>>
     \/ /\ \E kind \in ServerKinds : part = kind /\ RemovalOf(kind)!Next
        /\ UNCHANGED <<vars, clubVars, reelVars, momentVars>>
     \/ /\ \E kind \in ClubKinds : part = kind /\ ClubOf(kind)!Next
        /\ UNCHANGED <<vars, serverVars, reelVars, momentVars>>
     \/ /\ part = "reel" /\ Reel!Next
        /\ UNCHANGED <<vars, serverVars, clubVars, momentVars>>
     \/ /\ \E kind \in ShelfKinds : part = kind /\ MomentsOf(kind)!Next
        /\ UNCHANGED <<vars, serverVars, clubVars, reelVars>>

deletionVars == <<part, vars, serverVars, clubVars, reelVars, momentVars>>

DeletionSpec == DeletionInit /\ [][DeletionNext]_deletionVars

--------------------------------
(* What is recorded as removed is gone: a channel or server left no document,
   object or recording behind, a Club no projection, room, voice, consent or
   finalized image, a cleanup row that is completed no object of its Reel, and
   nothing in Storage is out of reach of every reservation, comment, pending
   row and dead letter.  Three things a deleted Club may leave are outside,
   each where ClubDeletion states it: the husk a late batch or mark writes
   over an erased room or root (admin/clubs.js:422, clubs/deletion.js:333),
   an image that was uploaded and never finalized (clubs/deletion.js:323), and
   what a deletion of an earlier life of the id does to a later one.  And it
   says what a removal that is recorded has done, not that one is ever
   recorded: the refusals of servers/content_cleanup.js:873, :1212 and :1489
   stop removals that docs/Servers.md:489 calls resumable. *)
GoneLeavesNothing ==
  /\ \A kind \in ServerKinds : part = kind =>
       RemovalOf(kind)!GoneLeavesNothing /\ RemovalOf(kind)!NoStrandedRecording
  /\ \A kind \in ClubKinds : part = kind =>
       /\ ClubOf(kind)!GoneMeansGone /\ ClubOf(kind)!NoGhostProjection
       /\ ClubOf(kind)!DeletionSilences /\ ClubOf(kind)!FinalizedMediaIsGone
  /\ Reel!CompletedMeansDone /\ Reel!NothingForgotten
  /\ \A kind \in ShelfKinds : part = kind /\ momentAccount = "active" =>
       MomentsOf(kind)!NothingForgotten

(* What stands is not touched: no page of a deletion works on a channel that
   another worker cleans or whose session goes on, no cleanup takes the media
   of a Reel before its retention is over or of a moment that can be read,
   and the counts of what can be read are those of what there is. *)
StandingIsKept ==
  /\ \A kind \in ServerKinds : part = kind =>
       RemovalOf(kind)!OneCleaner /\ RemovalOf(kind)!CleaningFollowsTheEnd
  /\ Reel!EvidenceKept /\ Reel!CountIsTrue
  /\ \A kind \in ShelfKinds : part = kind =>
       /\ MomentsOf(kind)!ReadableIsPlayable /\ MomentsOf(kind)!CountsAreTrue
       /\ MomentsOf(kind)!ActiveWithinCapacity

(* A removal is final: no stage is walked back, however late a superseded
   worker reports, no purge that judged a Reel before it writes over its
   deletion, and no moment in deletion comes back to a shelf. *)
DeletionIsFinal ==
  /\ StageNeverBack
  /\ [][/\ Reel!DeletedIsFinal
        /\ \A kind \in ShelfKinds : part = kind => MomentsOf(kind)!DeletingIsFinal]_deletionVars
=============================================================================
