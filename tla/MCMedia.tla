---------------------------- MODULE MCMedia ----------------------------
(***************************************************************************)
(* TLC instances of the components that keep objects in Storage beside the *)
(* documents that name them.  They share no state in the code, so a        *)
(* behaviour plays one of them, chosen in the initial state, while the     *)
(* others stand still; the questions are the same for all five: what is    *)
(* shown has its bytes, no bytes are left that nothing leads to, and a URL *)
(* that is handed out is for what its reader may see.                      *)
(***************************************************************************)
EXTENDS DirectAttachments

CONSTANTS c1, c2, c3, r1, r2

\* Two finalizer calls of one request and one of another.
ThreeCalls == {c1, c2, c3}
TwoRequests == {r1, r2}
Retry == [c \in ThreeCalls |-> IF c = c3 THEN r2 ELSE r1]

\* Two files of one owner; one memory of a photo and a voice; one message.
ItemsOf(kind) == IF kind = "file" THEN {"m1", "m2"} ELSE {"m1"}
PartsOf(kind) == IF kind = "memory" THEN {"photo", "voice"} ELSE {"file"}
ObjectsOf(kind) == IF kind = "message" THEN 2 ELSE 1
AclOf(kind) == IF kind = "file" THEN 1 ELSE 2
MediaKinds == {"file", "memory", "message"}

\* Two sets of uploads for a Page.
TwoSets == [u \in {"u1", "u2"} |-> IF u = "u1" THEN {"a"} ELSE {"b"}]

\* Two avatars one after the other, or two calls that overlap on one; the
\* same of the covers of a room.
ProfileKinds == {"avatars", "avatar twice"}
AvatarsOf(kind) == IF kind = "avatars" THEN {"i1", "i2"} ELSE {"i1"}
CoverKinds == {"covers", "cover twice"}
CoversOf(kind) == IF kind = "covers" THEN {"v1", "v2"} ELSE {"v1"}
CallsOf(kind) == IF kind \in {"avatars", "covers"} THEN {"p1"} ELSE {"p1", "p2"}

VARIABLES
  part,          \* the component whose life is played
  serverReservation, serverLease, serverMade, serverExpired, serverObject, serverCreated,
  serverRow, serverJob, serverIndex, serverFinal, serverExpirer, serverWorker, serverReader,
  serverAcl, serverPhase, serverTear, serverFailures,
  pageReservation, pageLease, pageMade, pageExpired, pageObject, pageCreated, pageSending,
  pageOld, pagePost, pageJob, pagePublisher, pageExpirer, pageOrphans, pageWalker,
  pageLeaving, pageCrashes,
  profileAccount, profileMedia, profileObject, profileUploaded, profileReservation,
  profileLease, profileLapsed, profileReserved, profileFinalized, profileReserveLedger,
  profileReservePreflight, profileFinalPreflight, profileCall, profileWorker, profileStops,
  profileAudience, profileReader, profileSeen, profileOvertaken,
  coverRoom, coverObject, coverOpen, coverUploads, coverReservation, coverLease,
  coverLapsed, coverReserved, coverReserveLedger, coverReservePreflight, coverFinalLedger,
  coverFinalPreflight, coverCall, coverSweep, coverReplaced, coverRevived

serverVars ==
  <<serverReservation, serverLease, serverMade, serverExpired, serverObject, serverCreated,
    serverRow, serverJob, serverIndex, serverFinal, serverExpirer, serverWorker,
    serverReader, serverAcl, serverPhase, serverTear, serverFailures>>

ServerMediaOf(kind) == INSTANCE ServerMedia WITH
  Kind <- kind, Items <- ItemsOf(kind), Owners <- {"o"},
  OwnerOf <- [i \in ItemsOf(kind) |-> "o"], Parts <- PartsOf(kind),
  MaxObjects <- ObjectsOf(kind), MaxAcl <- AclOf(kind), MaxFailures <- 1, Removable <- TRUE,
  reservation <- serverReservation, lease <- serverLease, made <- serverMade,
  expired <- serverExpired, object <- serverObject, created <- serverCreated,
  row <- serverRow, job <- serverJob, index <- serverIndex, final <- serverFinal,
  expirer <- serverExpirer, worker <- serverWorker, reader <- serverReader,
  acl <- serverAcl, phase <- serverPhase, tear <- serverTear, failures <- serverFailures

pageVars ==
  <<pageReservation, pageLease, pageMade, pageExpired, pageObject, pageCreated, pageSending,
    pageOld, pagePost, pageJob, pagePublisher, pageExpirer, pageOrphans, pageWalker,
    pageLeaving, pageCrashes>>

PageMedia == INSTANCE PageUploads WITH
  Uploads <- {"u1", "u2"}, Media <- {"a", "b"}, MediaOf <- TwoSets, Publishers <- {"p1"},
  MaxObjects <- 2, MaxCrashes <- 1, reservation <- pageReservation, lease <- pageLease,
  made <- pageMade, expired <- pageExpired, object <- pageObject, created <- pageCreated,
  sending <- pageSending, old <- pageOld, post <- pagePost, job <- pageJob,
  publisher <- pagePublisher, expirer <- pageExpirer, orphans <- pageOrphans,
  walker <- pageWalker, leaving <- pageLeaving, crashes <- pageCrashes

profileVars ==
  <<profileAccount, profileMedia, profileObject, profileUploaded, profileReservation,
    profileLease, profileLapsed, profileReserved, profileFinalized, profileReserveLedger,
    profileReservePreflight, profileFinalPreflight, profileCall, profileWorker,
    profileStops, profileAudience, profileReader, profileSeen, profileOvertaken>>

Profile(kind) == INSTANCE ProfileMedia WITH
  Uploads <- AvatarsOf(kind), KindOf <- [u \in AvatarsOf(kind) |-> "avatar"],
  Calls <- CallsOf(kind), Budget <- 2, Reading <- TRUE, MaxStops <- 1, account <- profileAccount,
  media <- profileMedia, object <- profileObject, uploaded <- profileUploaded,
  reservation <- profileReservation, lease <- profileLease, lapsed <- profileLapsed,
  reserved <- profileReserved, finalized <- profileFinalized,
  reserveLedger <- profileReserveLedger, reservePreflight <- profileReservePreflight,
  finalPreflight <- profileFinalPreflight, call <- profileCall, worker <- profileWorker,
  stops <- profileStops, audience <- profileAudience, reader <- profileReader,
  seen <- profileSeen, overtaken <- profileOvertaken

coverVars ==
  <<coverRoom, coverObject, coverOpen, coverUploads, coverReservation, coverLease,
    coverLapsed, coverReserved, coverReserveLedger, coverReservePreflight, coverFinalLedger,
    coverFinalPreflight, coverCall, coverSweep, coverReplaced, coverRevived>>

Cover(kind) == INSTANCE RoomCovers WITH
  Requests <- CoversOf(kind), Legacy <- "old", Calls <- CallsOf(kind), Budget <- 2,
  room <- coverRoom, object <- coverObject, open <- coverOpen, uploads <- coverUploads,
  reservation <- coverReservation, lease <- coverLease, lapsed <- coverLapsed,
  reserved <- coverReserved, reserveLedger <- coverReserveLedger,
  reservePreflight <- coverReservePreflight, finalLedger <- coverFinalLedger,
  finalPreflight <- coverFinalPreflight, call <- coverCall, sweep <- coverSweep,
  replaced <- coverReplaced, revived <- coverRevived

ASSUME InstancesAreLegal ==
  /\ \A kind \in MediaKinds : ServerMediaOf(kind)!ServerMediaAssumption
  /\ PageMedia!PageUploadsAssumption
  /\ \A kind \in ProfileKinds : Profile(kind)!ProfileMediaAssumption
  /\ \A kind \in CoverKinds : Cover(kind)!RoomCoversAssumption

MediaInit ==
  /\ part \in MediaKinds \cup ProfileKinds \cup CoverKinds \cup {"attachment", "page"}
  /\ Init
  /\ \E kind \in MediaKinds :
       /\ kind = IF part \in MediaKinds THEN part ELSE "message"
       /\ ServerMediaOf(kind)!Init
  /\ PageMedia!Init
  /\ \E kind \in ProfileKinds :
       /\ kind = IF part \in ProfileKinds THEN part ELSE "avatars"
       /\ Profile(kind)!Init
  /\ \E kind \in CoverKinds :
       /\ kind = IF part \in CoverKinds THEN part ELSE "covers"
       /\ Cover(kind)!Init
  /\ part # "cover twice" => coverRoom.at.image = "old"

MediaNext ==
  /\ UNCHANGED part
  /\ \/ /\ part = "attachment" /\ Next
        /\ UNCHANGED <<serverVars, pageVars, profileVars, coverVars>>
     \/ /\ \E kind \in MediaKinds : part = kind /\ ServerMediaOf(kind)!Next
        /\ UNCHANGED <<vars, pageVars, profileVars, coverVars>>
     \/ /\ part = "page" /\ PageMedia!Next
        /\ UNCHANGED <<vars, serverVars, profileVars, coverVars>>
     \/ /\ \E kind \in ProfileKinds : part = kind /\ Profile(kind)!Next
        /\ UNCHANGED <<vars, serverVars, pageVars, coverVars>>
     \/ /\ \E kind \in CoverKinds : part = kind /\ Cover(kind)!Next
        /\ UNCHANGED <<vars, serverVars, pageVars, profileVars>>

mediaVars == <<part, vars, serverVars, pageVars, profileVars, coverVars>>

MediaSpec == MediaInit /\ [][MediaNext]_mediaVars

--------------------------------
(* What a document shows is in Storage, in the very generation the document
   names: no expiry, no deletion job, no orphan sweep and no late call takes
   the bytes of a published file, memory or message attachment, of a Page
   post, of a profile image or of the cover of a room, and the cover of a room
   that became private answers to no open URL.  The one exception: a profile
   image or a cover whose upload id or request was reserved again while work on
   its earlier reservation was under way (their `overtaken` and `revived`). *)
ShownHasItsBytes ==
  /\ \A kind \in MediaKinds : part = kind => ServerMediaOf(kind)!PublishedHasItsBytes
  /\ PageMedia!PublishedHasItsBytes
  /\ \A kind \in ProfileKinds : part = kind => Profile(kind)!ShownImageExists
  /\ \A kind \in CoverKinds : part = kind =>
       Cover(kind)!CoverHasItsObject /\ Cover(kind)!PrivateCoverIsSealed

(* Whatever dies or fails between two steps, bytes always have a document
   that leads a sweep, a job or a teardown to them, and a row in deletion
   has its job. *)
NothingIsForgotten ==
  /\ \A kind \in MediaKinds : part = kind =>
       ServerMediaOf(kind)!NoOrphanBytes /\ ServerMediaOf(kind)!DeletingHasJob
  /\ \A kind \in CoverKinds : part = kind => Cover(kind)!EveryObjectIsAccountedFor

(* One upload of an owner at a time, under the lease on record: late expiry
   work of an older reservation never lets a second one admit bytes. *)
OneUploadOfAnOwner ==
  /\ \A kind \in MediaKinds : part = kind => ServerMediaOf(kind)!LiveReservationHoldsLease
  /\ PageMedia!OneSetAtATime
  /\ \A kind \in ProfileKinds : part = kind => Profile(kind)!OneUploadPerKind
  /\ \A kind \in CoverKinds : part = kind => Cover(kind)!OneUploadAtATime

(* Between the signing of a URL and its answer nothing changed that mattered:
   the reader may still see the item and the bytes are those that were signed
   (an overtaken image and a revived cover again apart); and an image is
   replaced only by an owner who saw it. *)
GrantsHold ==
  /\ [][\A kind \in MediaKinds : part = kind => ServerMediaOf(kind)!GrantsStillHold]_mediaVars
  /\ [][\A kind \in ProfileKinds : part = kind =>
          Profile(kind)!ImageIsShown /\ Profile(kind)!OwnerSawWhatGoes]_mediaVars
  /\ [][\A kind \in CoverKinds : part = kind => Cover(kind)!CoverIsShown]_mediaVars
=============================================================================
