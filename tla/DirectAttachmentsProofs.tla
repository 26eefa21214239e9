---------------------- MODULE DirectAttachmentsProofs ----------------------
(***************************************************************************)
(* That the publication of an attachment is safe whatever the number of    *)
(* finalizer calls and of requests.  AttachmentsSafe is not inductive: it  *)
(* does not say who may still take the object away.  The strengthening     *)
(* says which documents can stand together (a cleanup row of the           *)
(* reservation with no message, one of the message with a deleted one, a   *)
(* message with a reservation that is gone) and what a call that is under  *)
(* way may rely on.                                                        *)
(***************************************************************************)
EXTENDS DirectAttachments, Sequences, FiniteSetTheorems, TLAPS

Objects == [exists : BOOLEAN, token : BOOLEAN, final : BOOLEAN]
Phases == {"idle", "checked", "secured", "committed", "recover"}

\* TypeOK and the functions and records behind it.
Typed ==
  /\ TypeOK
  /\ call \in [Calls -> [at : Phases, seen : Objects]]

\* Which documents can stand together.
Documents ==
  /\ message # "none" => reservation = "gone"
  /\ cleanup["message"] # "none" => message = "deleted"
  /\ cleanup["reservation"] # "none" => reservation = "gone" /\ message = "none"
  /\ staff # "idle" => message # "none"
  /\ reservation = "none" => ~object.exists
  /\ staff = "emptied" => ~object.exists

\* The one request that committed.
Credit ==
  /\ message # "none" <=> ledger # {}
  /\ \A p, q \in ledger : p = q

\* What a finalizer call may rely on between two of its steps.
CallsRely ==
  \A c \in Calls :
    /\ call[c].at # "idle" => reservation # "none"
    /\ (call[c].at \in {"checked", "secured"} /\ reservation = "open") => object.exists
    /\ call[c].at = "committed" => message # "none"

IInv ==
  /\ Typed /\ Documents /\ Credit /\ CallsRely
  /\ LiveMediaKept /\ ReadableMeansPublished /\ NoOrphanObject

------------------------
\* A set whose members are all the same has at most one (the ledger's requests).
LEMMA AtMostOne ==
  ASSUME NEW S, \A p, q \in S : p = q
  PROVE  Cardinality(S) <= 1
<1>1. CASE S = {}
  BY <1>1, FS_EmptySet
<1>2. CASE S # {}
  <2>1. PICK p : p \in S
    BY <1>2
  <2>2. S = {p}
    BY <2>1
  <2>3. Cardinality({p}) = 1
    BY FS_Singleton
  <2> QED
    BY <2>2, <2>3
<1> QED
  BY <1>1, <1>2

\* The four promises follow from the invariant.
LEMMA InvariantSafe == IInv => AttachmentsSafe
<1> SUFFICES ASSUME IInv PROVE OnePublication
  BY DEF IInv, AttachmentsSafe
<1> QED
  BY AtMostOne DEF IInv, Credit, OnePublication

\* Before anything is reserved.
LEMMA InvariantInit == Init => IInv
<1> USE AttachmentsAssumption
<1> SUFFICES ASSUME Init PROVE IInv
  OBVIOUS
<1>1. Typed
  BY DEF Init, Typed, TypeOK, Idle, Absent, Objects, Phases, Rows
<1> QED
  BY <1>1 DEF Init, IInv, Documents, Credit, CallsRely, LiveMediaKept, Idle,
       ReadableMeansPublished, NoOrphanObject, Absent, Rows

------------------------
\* The names an action is expanded with.
LEMMA DocumentStepSafe ==
  ASSUME IInv,
         reserveDirectMessageAttachment \/ Upload \/ ReservationRunsOut
           \/ expireAbandonedAttachmentReservations \/ deleteDirectMessage
  PROVE  IInv'
<1> USE DEF IInv, Typed, TypeOK, Documents, Credit, CallsRely, LiveMediaKept,
            ReadableMeansPublished, NoOrphanObject, docs, Objects, Rows
<1>1. CASE reserveDirectMessageAttachment
  <2>1. Typed'
    BY <1>1 DEF reserveDirectMessageAttachment
  <2>2. Documents'
    BY <1>1 DEF reserveDirectMessageAttachment
  <2>3. Credit'
    BY <1>1 DEF reserveDirectMessageAttachment
  <2>4. CallsRely'
    BY <1>1 DEF reserveDirectMessageAttachment
  <2>5. LiveMediaKept'
    BY <1>1 DEF reserveDirectMessageAttachment
  <2>6. ReadableMeansPublished'
    BY <1>1 DEF reserveDirectMessageAttachment
  <2>7. NoOrphanObject'
    BY <1>1 DEF reserveDirectMessageAttachment
  <2> QED
    BY <2>1, <2>2, <2>3, <2>4, <2>5, <2>6, <2>7 DEF IInv
<1>2. CASE Upload
  BY <1>2 DEF Upload, Usable
<1>3. CASE ReservationRunsOut
  BY <1>3 DEF ReservationRunsOut
<1>4. CASE expireAbandonedAttachmentReservations
  BY <1>4 DEF expireAbandonedAttachmentReservations
<1>5. CASE deleteDirectMessage
  BY <1>5 DEF deleteDirectMessage
<1> QED
  BY <1>1, <1>2, <1>3, <1>4, <1>5

\* The steps of the cleanup worker and of the staff removal.
LEMMA RemovalStepSafe ==
  ASSUME IInv,
         (\E k \in Rows : Cleans(k) \/ CleanupDies(k)) \/ StaffDeletesObject \/ StaffRedacts
  PROVE  IInv'
<1> USE DEF IInv, Typed, TypeOK, Documents, Credit, CallsRely, LiveMediaKept,
            ReadableMeansPublished, NoOrphanObject, docs, Objects, Rows
<1>1. ASSUME NEW k \in Rows, CleanupDeletes(k) PROVE IInv'
  BY <1>1 DEF CleanupDeletes, Absent
<1>2. ASSUME NEW k \in Rows, CleanupCompletes(k) PROVE IInv'
  BY <1>2 DEF CleanupCompletes
<1>3. ASSUME NEW k \in Rows, CleanupDies(k) PROVE IInv'
  BY <1>3 DEF CleanupDies
<1>4. CASE StaffDeletesObject
  <2>1. Typed'
    <3>1. Absent \in Objects
      BY DEF Absent
    <3>2. staff' \in {"emptied", "failed"} /\ object' \in {Absent, object}
      BY <1>4 DEF StaffDeletesObject
    <3>3. UNCHANGED <<docs, cleanup, call>>
      BY <1>4 DEF StaffDeletesObject
    <3> QED
      BY <3>1, <3>2, <3>3
  <2>2. Documents'
    BY <1>4 DEF StaffDeletesObject, Absent
  <2>3. Credit'
    BY <1>4 DEF StaffDeletesObject, Absent
  <2>4. CallsRely'
    BY <1>4 DEF StaffDeletesObject, Absent
  <2>5. LiveMediaKept'
    BY <1>4 DEF StaffDeletesObject, Absent
  <2>6. ReadableMeansPublished'
    BY <1>4 DEF StaffDeletesObject, Absent
  <2>7. NoOrphanObject'
    BY <1>4 DEF StaffDeletesObject, Absent
  <2> QED
    BY <2>1, <2>2, <2>3, <2>4, <2>5, <2>6, <2>7 DEF IInv
<1>5. CASE StaffRedacts
  BY <1>5 DEF StaffRedacts
<1> QED
  BY <1>1, <1>2, <1>3, <1>4, <1>5 DEF Cleans

\* The steps of a finalizer call.
LEMMA FinalizerStepSafe ==
  ASSUME IInv, NEW c \in Calls, Finalizes(c)
  PROVE  IInv'
<1> USE AttachmentsAssumption
    DEF IInv, Typed, TypeOK, Documents, Credit, CallsRely, LiveMediaKept,
            ReadableMeansPublished, NoOrphanObject, docs, Objects, Rows, Phases
<1>1. CASE FinalizeStarts(c)
  <2>1. Typed'
    BY <1>1, SMTT(60) DEF FinalizeStarts, Usable
  <2>2. Documents'
    BY <1>1 DEF FinalizeStarts, Usable
  <2>3. Credit'
    BY <1>1 DEF FinalizeStarts, Usable
  <2>4. CallsRely'
    BY <1>1 DEF FinalizeStarts, Usable
  <2>5. LiveMediaKept'
    BY <1>1 DEF FinalizeStarts, Usable
  <2>6. ReadableMeansPublished'
    BY <1>1 DEF FinalizeStarts, Usable
  <2>7. NoOrphanObject'
    BY <1>1 DEF FinalizeStarts, Usable
  <2> QED
    BY <2>1, <2>2, <2>3, <2>4, <2>5, <2>6, <2>7 DEF IInv
<1>2. CASE FinalizeSecures(c)
  <2>1. Typed'
    <3>1. Revoked(object) \in Objects /\ Idle \in [at : Phases, seen : Objects]
      BY DEF Revoked, Idle, Absent
    <3>2. object' \in Objects
      BY <1>2, <3>1 DEF FinalizeSecures
    <3>3. call' \in [Calls -> [at : Phases, seen : Objects]]
      <4>1. \/ call' = [call EXCEPT ![c].at = "secured"]
            \/ call' = [call EXCEPT ![c] = Idle]
            \/ call' = [call EXCEPT ![c] = [at |-> "secured", seen |-> object']]
        BY <1>2 DEF FinalizeSecures, Ends
      <4> QED
        BY <3>1, <3>2, <4>1
    <3>4. UNCHANGED <<docs, cleanup, staff>>
      BY <1>2 DEF FinalizeSecures
    <3> QED
      BY <3>2, <3>3, <3>4
  <2>2. Documents'
    BY <1>2 DEF FinalizeSecures, Ends, Idle, Absent, Revoked
  <2>3. Credit'
    BY <1>2 DEF FinalizeSecures, Ends, Idle, Absent, Revoked
  <2>4. CallsRely'
    BY <1>2 DEF FinalizeSecures, Ends, Idle, Absent, Revoked
  <2>5. LiveMediaKept'
    BY <1>2 DEF FinalizeSecures, Ends, Idle, Absent, Revoked
  <2>6. ReadableMeansPublished'
    BY <1>2 DEF FinalizeSecures, Ends, Idle, Absent, Revoked
  <2>7. NoOrphanObject'
    BY <1>2 DEF FinalizeSecures, Ends, Idle, Absent, Revoked
  <2> QED
    BY <2>1, <2>2, <2>3, <2>4, <2>5, <2>6, <2>7 DEF IInv
<1>3. CASE FinalizeCommits(c)
  <2>1. Typed'
    <3>1. call' = [call EXCEPT ![c].at = "committed"] \/ call' = [call EXCEPT ![c] = Idle]
      BY <1>3 DEF FinalizeCommits, Ends
    <3>2. call' \in [Calls -> [at : Phases, seen : Objects]]
      <4>1. Idle \in [at : Phases, seen : Objects]
        BY DEF Idle, Absent
      <4>2. CASE call' = [call EXCEPT ![c].at = "committed"]
        BY <4>2
      <4>3. CASE call' = [call EXCEPT ![c] = Idle]
        BY <4>1, <4>3
      <4> QED
        BY <3>1, <4>2, <4>3
    <3>3. /\ reservation' \in {"none", "open", "gone"} /\ message' \in {"none", "live", "deleted"}
          /\ expired' \in BOOLEAN /\ ledger' \subseteq Requests
      BY <1>3 DEF FinalizeCommits
    <3>4. UNCHANGED <<object, cleanup, staff>>
      BY <1>3 DEF FinalizeCommits
    <3> QED
      BY <3>2, <3>3, <3>4
  <2>2. Documents'
    BY <1>3 DEF FinalizeCommits, Ends, Idle, Absent, Commits, Usable
  <2>3. Credit'
    BY <1>3 DEF FinalizeCommits, Ends, Idle, Absent, Commits, Usable
  <2>4. CallsRely'
    BY <1>3 DEF FinalizeCommits, Ends, Idle, Absent, Commits, Usable
  <2>5. LiveMediaKept'
    BY <1>3 DEF FinalizeCommits, Ends, Idle, Absent, Commits, Usable
  <2>6. ReadableMeansPublished'
    BY <1>3 DEF FinalizeCommits, Ends, Idle, Absent, Commits, Usable
  <2>7. NoOrphanObject'
    BY <1>3 DEF FinalizeCommits, Ends, Idle, Absent, Commits, Usable
  <2> QED
    BY <2>1, <2>2, <2>3, <2>4, <2>5, <2>6, <2>7 DEF IInv
<1>4. CASE FinalizeMarks(c)
  BY <1>4 DEF FinalizeMarks, Ends, Idle, Absent, MarksFinal
<1>5. CASE FinalizeRecovers(c)
  BY <1>5 DEF FinalizeRecovers, Ends, Idle, Absent, MarksFinal
<1>6. CASE FinalizeStops(c)
  BY <1>6 DEF FinalizeStops, Ends, Idle, Absent
<1> QED
  BY <1>1, <1>2, <1>3, <1>4, <1>5, <1>6 DEF Finalizes

\* The invariant is inductive.
LEMMA InvariantStep == IInv /\ [Next]_vars => IInv'
<1> SUFFICES ASSUME IInv, [Next]_vars PROVE IInv'
  OBVIOUS
<1>1. CASE UNCHANGED vars
  BY <1>1 DEF vars, docs, IInv, Typed, TypeOK, Documents, Credit, CallsRely,
       LiveMediaKept, ReadableMeansPublished, NoOrphanObject
<1>2. CASE Next
  BY <1>2, DocumentStepSafe, RemovalStepSafe, FinalizerStepSafe DEF Next
<1> QED
  BY <1>1, <1>2

------------------------
(* The reservation, the message, the object, the cleanup rows, the finalizer
   calls and the staff removal keep their types. *)
THEOREM TypeCorrect == Spec => []TypeOK
<1>1. IInv => TypeOK
  BY DEF IInv, Typed
<1> QED
  BY <1>1, InvariantInit, InvariantStep, PTL DEF Spec

(* Media that stand are kept, what is readable is published, no object is
   without somebody who will remove it, and one request publishes: for every
   set of finalizer calls, however they and the removals interleave. *)
THEOREM AttachmentsAreSafe == Spec => []AttachmentsSafe
BY InvariantInit, InvariantStep, InvariantSafe, PTL DEF Spec
------------------------
(***************************************************************************)
(* The media of a Page post (PageUploads), for any sets of uploads, calls  *)
(* of publish, objects and crashes.  Three sweepers delete objects by      *)
(* names they read earlier; what makes that safe is said about each of     *)
(* them (PageExpirer, PageOrphans): what it is about to delete belongs to  *)
(* a set that has expired, or to one no call of publish works on (Closed), *)
(* and no post names it.  A call of publish in turn may trust what it      *)
(* hardened only while the reservation it read is there (PagePublisher),   *)
(* which is why the transaction reads it again.                            *)
(***************************************************************************)
CONSTANTS Uploads, Media, MediaOf, Publishers, MaxObjects, MaxCrashes
VARIABLES pageReservation, lease, made, pageExpired, pageObject, created, sending, old, post,
          job, publisher, expirer, orphans, walker, leaving, crashes
Page == INSTANCE PageUploads WITH
  reservation <- pageReservation, expired <- pageExpired, object <- pageObject

Publishing == [at : {"idle", "verify"}, upload : Uploads \cup {Page!None}, media : SUBSET Media,
               seen : [Media -> Page!Generations], sure : SUBSET Media]
Posts == [status : {"none", "published", "gone"}, media : [Media -> Page!Generations]]

PageTyped ==
  /\ pageReservation \in [Media -> {"none", "uploading", "expiring"}]
  /\ lease \in Uploads \cup {Page!None}
  /\ made \subseteq Uploads /\ pageExpired \subseteq made
  /\ pageObject \in [Media -> Page!Generations] /\ created \in [Media -> Page!Generations]
  /\ sending \subseteq Media /\ old \subseteq Media
  /\ post \in [Uploads -> Posts]
  /\ job \in [Media -> Page!Generations]
  /\ publisher \in [Publishers -> Publishing]
  /\ expirer \in [at : {"idle", "claimed", "looked", "deleted"}, media : Media \cup {Page!None},
                  generation : Page!Generations]
  /\ orphans \in [at : {"idle", "listed", "posts", "reservations", "jobs"},
                  media : Media \cup {Page!None}, generation : Page!Generations]
  /\ walker \in Media \cup {Page!None}
  /\ leaving \in BOOLEAN /\ crashes \in 0..MaxCrashes

\* No call of publish about the upload of m runs any more, or ever will.
Closed(m) ==
  /\ Page!UploadOf(m) \in pageExpired
  /\ \A c \in Publishers : publisher[c].upload # Page!UploadOf(m)

PageMedia(m) ==
  /\ pageReservation[m] # "none" => m \in MediaOf[Page!UploadOf(m)] /\ Page!UploadOf(m) \in made
  /\ pageReservation[m] = "uploading" /\ Page!UploadOf(m) \notin pageExpired
       => lease = Page!UploadOf(m)
  /\ m \in sending => created[m] < MaxObjects
  /\ m \in old => pageObject[m] # 0 /\ Closed(m)
  /\ job[m] # 0 => Page!UploadOf(m) \in made /\ post[Page!UploadOf(m)].status = "gone"

PagePost(u) ==
  /\ post[u].status # "none" =>
       u \in made /\ \A m \in MediaOf[u] : pageReservation[m] = "none"
  /\ \A m \in Media : post[u].media[m] # 0 =>
       m \in MediaOf[u] /\ post[u].status = "published" /\ pageObject[m] = post[u].media[m]

PagePublisher(c) ==
  LET p == publisher[c] IN
  p.at = "verify" =>
    /\ p.upload \in made /\ p.media \subseteq MediaOf[p.upload] /\ p.sure \subseteq p.media
    /\ \A m \in p.sure :
         /\ p.seen[m] # 0
         /\ ~leaving /\ post[p.upload].status = "none" /\ pageReservation[m] = "uploading"
              => pageObject[m] = p.seen[m]

PageExpirer ==
  LET m == expirer.media IN
  expirer.at # "idle" =>
    /\ m \in Media /\ Page!UploadOf(m) \in pageExpired /\ pageReservation[m] # "uploading"
    /\ post[Page!UploadOf(m)].media[m] = 0

PageOrphans ==
  LET m == orphans.media IN
  orphans.at # "idle" =>
    /\ m \in Media /\ Closed(m)
    /\ orphans.at # "listed" => post[Page!UploadOf(m)].media[m] = 0

PageInv ==
  /\ PageTyped /\ PageExpirer /\ PageOrphans
  /\ \A m \in Media : PageMedia(m)
  /\ \A u \in Uploads : PagePost(u)
  /\ \A c \in Publishers : PagePublisher(c)

LEMMA PageUploads ==
  ASSUME Page!PageUploadsAssumption
  PROVE  /\ \A u \in Uploads : \A m \in MediaOf[u] : m \in Media /\ Page!UploadOf(m) = u
         /\ Page!None \notin Uploads /\ 0 \in Page!Generations /\ MaxObjects \in Nat
         /\ MaxCrashes \in Nat
         /\ Page!NoMedia \in [Media -> Page!Generations]
         /\ Page!IdlePublisher \in Publishing /\ Page!IdlePublisher.at = "idle"
         /\ Page!IdlePublisher.upload = Page!None
         /\ Page!IdleExpirer = [at |-> "idle", media |-> Page!None, generation |-> 0]
         /\ Page!IdleOrphans = [at |-> "idle", media |-> Page!None, generation |-> 0]
         /\ \A m \in Media : Page!NoMedia[m] = 0
<1>1. ASSUME NEW u \in Uploads, NEW m \in MediaOf[u] PROVE m \in Media /\ Page!UploadOf(m) = u
  <2>1. Page!UploadOf(m) \in Uploads /\ m \in MediaOf[Page!UploadOf(m)] BY <1>1 DEF Page!UploadOf
  <2>2. \A v \in Uploads : m \in MediaOf[v] => v = u BY <1>1 DEF Page!PageUploadsAssumption
  <2> QED BY <2>1, <2>2 DEF Page!PageUploadsAssumption
<1>2. 0 \in Page!Generations /\ MaxObjects \in Nat /\ MaxCrashes \in Nat
          /\ Page!None \notin Uploads
  BY DEF Page!PageUploadsAssumption, Page!Generations, Page!None
<1>3. Page!NoMedia \in [Media -> Page!Generations] /\ \A m \in Media : Page!NoMedia[m] = 0
  BY <1>2 DEF Page!NoMedia
<1>4. Page!IdlePublisher \in Publishing /\ Page!IdlePublisher.at = "idle"
          /\ Page!IdlePublisher.upload = Page!None
  BY <1>3 DEF Page!IdlePublisher, Publishing
<1> QED BY <1>1, <1>2, <1>3, <1>4 DEF Page!IdleExpirer, Page!IdleOrphans

LEMMA PageInit == ASSUME Page!PageUploadsAssumption, Page!Init PROVE PageInv
<1> USE PageUploads
<1>1. PageTyped
  <2>1. [status |-> "none", media |-> Page!NoMedia] \in Posts BY DEF Posts
  <2>2. post \in [Uploads -> Posts] BY <2>1 DEF Page!Init
  <2>3. expirer \in [at : {"idle", "claimed", "looked", "deleted"},
                     media : Media \cup {Page!None},
                     generation : Page!Generations]
    BY DEF Page!Init
  <2>4. orphans \in [at : {"idle", "listed", "posts", "reservations", "jobs"},
                     media : Media \cup {Page!None}, generation : Page!Generations]
    BY DEF Page!Init
  <2>5. publisher \in [Publishers -> Publishing] BY DEF Page!Init
  <2>6. /\ pageReservation \in [Media -> {"none", "uploading", "expiring"}]
        /\ lease \in Uploads \cup {Page!None} /\ made \subseteq Uploads
        /\ pageExpired \subseteq made
        /\ pageObject \in [Media -> Page!Generations] /\ created \in [Media -> Page!Generations]
        /\ sending \subseteq Media /\ old \subseteq Media /\ job \in [Media -> Page!Generations]
        /\ walker \in Media \cup {Page!None}
    BY DEF Page!Init
  <2>7. leaving \in BOOLEAN BY DEF Page!Init
  <2>8. crashes \in 0..MaxCrashes BY DEF Page!Init
  <2> QED BY <2>2, <2>3, <2>4, <2>5, <2>6, <2>7, <2>8 DEF PageTyped
<1>2. \A m \in Media : PageMedia(m) BY DEF Page!Init, PageMedia
<1>3. \A u \in Uploads : PagePost(u) BY DEF Page!Init, PagePost
<1>4. \A c \in Publishers : PagePublisher(c) BY DEF Page!Init, PagePublisher
<1>5. PageExpirer /\ PageOrphans BY DEF Page!Init, PageExpirer, PageOrphans
<1> QED BY <1>1, <1>2, <1>3, <1>4, <1>5 DEF PageInv

------------------------
Docs == <<pageReservation, lease, made, pageExpired, pageObject, created, sending, old, post, job,
          publisher>>

\* A sweeper that only reads, or dies; the owner who leaves.
LEMMA PageAside ==
  ASSUME PageInv, PageTyped', PageExpirer', PageOrphans', UNCHANGED Docs, leaving => leaving'
  PROVE  PageInv'
<1>1. UNCHANGED <<pageReservation, lease, made, pageExpired, pageObject, created, sending, old,
                  post, job,
                  publisher>>
  BY DEF Docs
<1>2. \A m \in Media : PageMedia(m)' BY <1>1 DEF PageInv, PageMedia, Closed
<1>3. \A u \in Uploads : PagePost(u)' BY <1>1 DEF PageInv, PagePost
<1>4. \A c \in Publishers : PagePublisher(c)' BY <1>1 DEF PageInv, PagePublisher
<1> QED BY <1>2, <1>3, <1>4 DEF PageInv

\* A deletion of the pageObject of m, or of one that is not there any more.
LEMMA PageObjectGoes ==
  ASSUME PageInv, Page!PageUploadsAssumption, NEW m \in Media, PageTyped', PageExpirer',
       PageOrphans',
         (pageObject' = [pageObject EXCEPT ![m] = 0] /\ old' = old \ {m})
              \/ UNCHANGED <<pageObject, old>>,
         UNCHANGED <<pageReservation, lease, made, pageExpired, created, sending, post, publisher,
                     leaving>>,
         job' \in [Media -> Page!Generations], \A n \in Media : job'[n] # 0 => job[n] # 0,
         post[Page!UploadOf(m)].media[m] = 0 \/ \A u \in Uploads : post[u].media[m] = 0,
         leaving \/ pageReservation[m] # "uploading" \/ post[Page!UploadOf(m)].status # "none"
              \/ Closed(m)
  PROVE  PageInv'
<1>1. pageObject \in [Media -> Page!Generations] /\ old \subseteq Media BY DEF PageInv, PageTyped
<1>2. \A n \in Media : n # m => pageObject'[n] = pageObject[n] BY <1>1
<1>3. \/ pageObject'[m] = 0 /\ m \notin old'
      \/ pageObject'[m] = pageObject[m] /\ (m \in old' => m \in old)
  BY <1>1
<1>4. old' \subseteq old OBVIOUS
<1>5. \A n \in Media : PageMedia(n)'
  BY <1>2, <1>3, <1>4 DEF PageInv, PageMedia, Closed
<1>6. \A u \in Uploads : post[u].media[m] = 0
  BY PageUploads DEF PageInv, PagePost
<1>7. \A u \in Uploads : PagePost(u)'
  BY <1>2, <1>6 DEF PageInv, PagePost
<1>8. ASSUME NEW c \in Publishers PROVE PagePublisher(c)'
  <2>1. PagePublisher(c) BY DEF PageInv
  <2>2. ASSUME publisher[c].at = "verify", m \in publisher[c].sure
        PROVE Page!UploadOf(m) = publisher[c].upload
    BY <2>1, <2>2, PageUploads DEF PagePublisher, PageInv, PageTyped
  <2> QED BY <1>2, <2>1, <2>2 DEF PagePublisher, PageInv, PageTyped, Publishing, Closed
<1> QED BY <1>5, <1>7, <1>8 DEF PageInv

\* Reservations go, or move on to their expiry; with them perhaps a lease that
\* has run out.
LEMMA PageReservationsEase ==
  ASSUME PageInv, Page!PageUploadsAssumption, PageTyped', PageExpirer', PageOrphans',
         \A m \in Media : \/ pageReservation'[m] = pageReservation[m]
                          \/ pageReservation'[m] = "none"
                          \/ pageReservation'[m] = "expiring" /\ pageReservation[m] # "none",
         lease' = lease \/ lease \in pageExpired,
         UNCHANGED <<made, pageExpired, pageObject, created, sending, old, post, job, publisher,
                     leaving>>
  PROVE  PageInv'
<1>1. \A m \in Media : PageMedia(m)'
  BY DEF PageInv, PageMedia, Closed
<1>2. \A u \in Uploads : PagePost(u)'
  BY PageUploads DEF PageInv, PagePost
<1>3. ASSUME NEW c \in Publishers PROVE PagePublisher(c)'
  <2>1. PagePublisher(c) BY DEF PageInv
  <2>2. publisher[c] \in Publishing BY DEF PageInv, PageTyped
  <2>3. publisher[c].sure \subseteq Media BY <2>2 DEF Publishing
  <2>4. \A m \in Media : pageReservation'[m] = "uploading"
            => pageReservation[m] = "uploading" OBVIOUS
  <2> QED BY <2>1, <2>3, <2>4 DEF PagePublisher
<1> QED BY <1>1, <1>2, <1>3 DEF PageInv

\* A step of one call of publish on its own copy.
LEMMA PageCallMoves ==
  ASSUME PageInv, Page!PageUploadsAssumption, NEW c \in Publishers, NEW p \in Publishing,
         publisher' = [publisher EXCEPT ![c] = p],
         UNCHANGED <<pageReservation, lease, made, pageExpired, pageObject, created, sending, old,
                     post, job,
                     expirer, orphans, walker, leaving, crashes>>,
         p.upload = publisher[c].upload \/ p.upload = Page!None
           \/ (p.upload \in Uploads /\ p.upload \notin pageExpired),
         PagePublisher(c)'
  PROVE  PageInv'
<1>1. PageTyped' BY DEF PageInv, PageTyped
<1>2. publisher'[c] = p /\ \A d \in Publishers \ {c} : publisher'[d] = publisher[d]
  BY DEF PageInv, PageTyped
<1>3. ASSUME NEW m, Closed(m) PROVE Closed(m)'
  <2>1. Page!UploadOf(m) \in Uploads /\ Page!UploadOf(m) \in pageExpired
       BY <1>3 DEF Closed, PageInv, PageTyped
  <2>2. Page!UploadOf(m) # Page!None BY <2>1, PageUploads
  <2> QED BY <1>2, <1>3, <2>1, <2>2 DEF Closed
<1>4. PageExpirer' BY DEF PageInv, PageExpirer
<1>5. PageOrphans' BY <1>3 DEF PageInv, PageOrphans
<1>6. \A m \in Media : PageMedia(m)' BY <1>3 DEF PageInv, PageMedia
<1>7. \A u \in Uploads : PagePost(u)' BY DEF PageInv, PagePost
<1>8. \A d \in Publishers : PagePublisher(d)' BY <1>2 DEF PageInv, PagePublisher
<1> QED BY <1>1, <1>4, <1>5, <1>6, <1>7, <1>8 DEF PageInv

------------------------
LEMMA PageReserves ==
  ASSUME PageInv, Page!PageUploadsAssumption, NEW u \in Uploads, Page!Reserve(u) PROVE PageInv'
<1>1. /\ ~leaving /\ u \notin made /\ (lease = Page!None \/ lease \in pageExpired)
      /\ made' = made \cup {u} /\ lease' = u
      /\ pageReservation' =
           [m \in Media |-> IF m \in MediaOf[u] THEN "uploading" ELSE pageReservation[m]]
      /\ UNCHANGED <<pageExpired, pageObject, created, sending, old, post, job, publisher,
                     expirer,
                     orphans, walker, leaving, crashes>>
  BY DEF Page!Reserve
<1>2. PageTyped' BY <1>1 DEF PageInv, PageTyped
<1>3. \A m \in Media : \A v \in made : m \in MediaOf[v] => m \notin MediaOf[u]
  BY <1>1, PageUploads DEF PageInv, PageTyped
<1>4. pageExpired \subseteq made /\ made \subseteq Uploads BY DEF PageInv, PageTyped
<1>5. ASSUME NEW m \in Media PROVE PageMedia(m)'
  <2>1. PageMedia(m) BY DEF PageInv
  <2>2. CASE m \in MediaOf[u]
    <3>1. Page!UploadOf(m) = u BY <2>2, PageUploads
    <3>2. post[u].status = "none" BY <1>1 DEF PageInv, PagePost
    <3> QED BY <1>1, <1>4, <2>1, <2>2, <3>1, <3>2 DEF PageMedia, Closed
  <2>3. CASE m \notin MediaOf[u]
    <3>1. pageReservation'[m] = pageReservation[m] BY <1>1, <2>3
    <3>2. pageReservation[m] # "uploading" \/ Page!UploadOf(m) \in pageExpired
      BY <1>1, <1>4, <2>1, PageUploads DEF PageMedia
    <3> QED BY <1>1, <2>1, <3>1, <3>2 DEF PageMedia, Closed
  <2> QED BY <2>2, <2>3
<1>6. ASSUME NEW v \in Uploads PROVE PagePost(v)'
  <2>1. PagePost(v) BY DEF PageInv
  <2>2. v # u => \A m \in MediaOf[v] : pageReservation'[m] = pageReservation[m]
    BY <1>1, PageUploads
  <2>3. v = u => post[v].status = "none" BY <1>1, <2>1 DEF PagePost
  <2> QED BY <1>1, <2>1, <2>2, <2>3 DEF PagePost
<1>7. ASSUME NEW c \in Publishers PROVE PagePublisher(c)'
  <2>1. PagePublisher(c) BY DEF PageInv
  <2>2. publisher[c].at = "verify" => publisher[c].upload \in made
        /\ \A m \in publisher[c].sure : m \in Media /\ m \notin MediaOf[u]
    BY <1>3, <1>4, <2>1, PageUploads DEF PagePublisher
  <2>3. publisher[c].at = "verify" =>
          \A m \in publisher[c].sure : pageReservation'[m] = pageReservation[m]
    BY <1>1, <2>2
  <2> QED BY <1>1, <2>1, <2>3 DEF PagePublisher
<1>8. PageExpirer'
  <2>1. PageExpirer BY DEF PageInv
  <2>2. expirer.at # "idle" => expirer.media \notin MediaOf[u]
    BY <1>1, <1>4, <2>1, PageUploads DEF PageExpirer
  <2> QED BY <1>1, <2>1, <2>2 DEF PageExpirer
<1>9. PageOrphans' BY <1>1 DEF PageInv, PageOrphans, Closed
<1> QED BY <1>2, <1>5, <1>6, <1>7, <1>8, <1>9 DEF PageInv

LEMMA PageExpires ==
  ASSUME PageInv, Page!PageUploadsAssumption, NEW u \in Uploads, Page!Expires(u) PROVE PageInv'
<1>1. /\ u \in made /\ pageExpired' = pageExpired \cup {u}
      /\ UNCHANGED <<pageReservation, lease, made, pageObject, created, sending, old, post, job,
                     publisher, expirer, orphans, walker, leaving, crashes>>
  BY DEF Page!Expires
<1>2. PageTyped' BY <1>1 DEF PageInv, PageTyped
<1>3. \A m \in Media : PageMedia(m)' BY <1>1 DEF PageInv, PageMedia, Closed
<1>4. \A v \in Uploads : PagePost(v)' BY <1>1 DEF PageInv, PagePost
<1>5. \A c \in Publishers : PagePublisher(c)' BY <1>1 DEF PageInv, PagePublisher
<1>6. PageExpirer' /\ PageOrphans' BY <1>1 DEF PageInv, PageExpirer, PageOrphans, Closed
<1> QED BY <1>2, <1>3, <1>4, <1>5, <1>6 DEF PageInv

LEMMA PageClientUploads ==
  ASSUME PageInv, Page!PageUploadsAssumption, NEW m \in Media, Page!BeginUpload(m)
       \/ Page!Lands(m)
  PROVE  PageInv'
<1>1. CASE Page!BeginUpload(m)
  <2>1. /\ pageObject[m] = 0 /\ created[m] < MaxObjects /\ sending' = sending \cup {m}
        /\ UNCHANGED <<pageReservation, lease, made, pageExpired, pageObject, created, old, post,
                       job,
                       publisher, expirer, orphans, walker, leaving, crashes>>
    BY <1>1 DEF Page!BeginUpload
  <2>2. PageTyped' BY <2>1 DEF PageInv, PageTyped
  <2>3. \A n \in Media : PageMedia(n)' BY <2>1 DEF PageInv, PageMedia, Closed
  <2>4. \A v \in Uploads : PagePost(v)' BY <2>1 DEF PageInv, PagePost
  <2>5. \A c \in Publishers : PagePublisher(c)' BY <2>1 DEF PageInv, PagePublisher
  <2>6. PageExpirer' /\ PageOrphans' BY <2>1 DEF PageInv, PageExpirer, PageOrphans, Closed
  <2> QED BY <2>2, <2>3, <2>4, <2>5, <2>6 DEF PageInv
<1>2. CASE Page!Lands(m)
  <2>1. /\ m \in sending /\ sending' = sending \ {m}
        /\ UNCHANGED <<pageReservation, lease, made, pageExpired, old, post, job, publisher,
                       expirer,
                       orphans, walker, leaving, crashes>>
    BY <1>2 DEF Page!Lands
  <2>2. created[m] < MaxObjects /\ created[m] \in Nat /\ MaxObjects \in Nat
    BY <2>1, PageUploads DEF PageInv, PageMedia, PageTyped, Page!Generations
  <2>3. /\ pageObject' \in [Media -> Page!Generations] /\ created' \in [Media -> Page!Generations]
        /\ \A n \in Media : n # m => pageObject'[n] = pageObject[n] /\ created'[n] = created[n]
        /\ pageObject[m] # 0 => pageObject'[m] = pageObject[m]
    <3>1. created[m] + 1 \in Page!Generations BY <2>2 DEF Page!Generations
    <3> QED BY <1>2, <3>1 DEF Page!Lands, PageInv, PageTyped
  <2>4. PageTyped' BY <2>1, <2>3 DEF PageInv, PageTyped
  <2>5. \A n \in Media : PageMedia(n)' BY <2>1, <2>3 DEF PageInv, PageMedia, Closed
  <2>6. \A n \in Media : pageObject[n] # 0 => pageObject'[n] = pageObject[n] BY <2>3
  <2>7. \A v \in Uploads : PagePost(v)' BY <2>1, <2>6 DEF PageInv, PagePost
  <2>8. ASSUME NEW c \in Publishers PROVE PagePublisher(c)'
    <3>1. PagePublisher(c) /\ publisher[c].sure \subseteq Media
      BY DEF PageInv, PageTyped, Publishing
    <3> QED BY <2>1, <2>6, <3>1 DEF PagePublisher
  <2>9. PageExpirer' /\ PageOrphans' BY <2>1 DEF PageInv, PageExpirer, PageOrphans, Closed
  <2> QED BY <2>4, <2>5, <2>7, <2>8, <2>9 DEF PageInv
<1> QED BY <1>1, <1>2

LEMMA PageGrowsOld ==
  ASSUME PageInv, Page!PageUploadsAssumption, NEW m \in Media, Page!GrowsOld(m) PROVE PageInv'
<1>1. /\ pageObject[m] # 0 /\ old' = old \cup {m} /\ Closed(m)
      /\ UNCHANGED <<pageReservation, lease, made, pageExpired, pageObject, created, sending,
                     post, job,
                     publisher, expirer, orphans, walker, leaving, crashes>>
  BY DEF Page!GrowsOld, Closed
<1>2. PageTyped' BY <1>1 DEF PageInv, PageTyped
<1>3. \A n \in Media : PageMedia(n)' BY <1>1 DEF PageInv, PageMedia, Closed
<1>4. \A v \in Uploads : PagePost(v)' BY <1>1 DEF PageInv, PagePost
<1>5. \A c \in Publishers : PagePublisher(c)' BY <1>1 DEF PageInv, PagePublisher
<1>6. PageExpirer' /\ PageOrphans' BY <1>1 DEF PageInv, PageExpirer, PageOrphans, Closed
<1> QED BY <1>2, <1>3, <1>4, <1>5, <1>6 DEF PageInv

LEMMA PageDeletesPost ==
  ASSUME PageInv, Page!PageUploadsAssumption, NEW u \in Uploads, Page!DeletePost(u) PROVE PageInv'
<1>1. /\ post[u].status = "published"
      /\ post' = [post EXCEPT ![u] = [status |-> "gone", media |-> Page!NoMedia]]
      /\ job' = [m \in Media |-> IF post[u].media[m] # 0 THEN post[u].media[m] ELSE job[m]]
      /\ UNCHANGED <<pageReservation, lease, made, pageExpired, pageObject, created, sending, old,
                     publisher,
                     expirer, orphans, walker, leaving, crashes>>
  BY DEF Page!DeletePost
<1>2. /\ post'[u] = [status |-> "gone", media |-> Page!NoMedia]
      /\ \A v \in Uploads : v # u => post'[v] = post[v]
      /\ post' \in [Uploads -> Posts] /\ post[u] \in Posts
  <2>1. [status |-> "gone", media |-> Page!NoMedia] \in Posts BY PageUploads DEF Posts
  <2> QED BY <1>1, <2>1 DEF PageInv, PageTyped
<1>3. job' \in [Media -> Page!Generations] BY <1>1, <1>2 DEF PageInv, PageTyped, Posts
<1>4. PageTyped' BY <1>1, <1>2, <1>3 DEF PageInv, PageTyped
<1>5. ASSUME NEW m \in Media PROVE PageMedia(m)'
  <2>1. PageMedia(m) /\ PagePost(u) BY DEF PageInv
  <2>2. CASE post[u].media[m] # 0
    <3>1. m \in MediaOf[u] /\ Page!UploadOf(m) = u /\ u \in made
      BY <1>1, <2>1, <2>2, PageUploads DEF PagePost
    <3> QED BY <1>1, <1>2, <2>1, <3>1 DEF PageMedia, Closed
  <2>3. CASE post[u].media[m] = 0
    <3>1. job'[m] = job[m] BY <1>1, <2>3
    <3>2. job[m] # 0 => Page!UploadOf(m) \in Uploads /\ post[Page!UploadOf(m)].status = "gone"
      BY <2>1 DEF PageMedia, PageInv, PageTyped
    <3>3. job[m] # 0 => post'[Page!UploadOf(m)].status = "gone" BY <1>2, <3>2
    <3> QED BY <1>1, <2>1, <3>1, <3>3 DEF PageMedia, Closed
  <2> QED BY <2>2, <2>3
<1>6. \A v \in Uploads : PagePost(v)' BY <1>1, <1>2, PageUploads DEF PageInv, PagePost
<1>7. ASSUME NEW c \in Publishers PROVE PagePublisher(c)'
  <2>1. PagePublisher(c) /\ made \subseteq Uploads BY DEF PageInv, PageTyped
  <2>2. publisher[c].at = "verify" =>
          (post'[publisher[c].upload].status = "none"
           => post[publisher[c].upload].status = "none")
    BY <1>2, <2>1 DEF PagePublisher
  <2> QED BY <1>1, <2>1, <2>2 DEF PagePublisher
<1>8. \A v \in Uploads : \A m \in Media : post[v].media[m] = 0 => post'[v].media[m] = 0
  BY <1>2, PageUploads
<1>9. pageExpired \subseteq Uploads BY DEF PageInv, PageTyped
<1>10. PageExpirer' BY <1>1, <1>8, <1>9 DEF PageInv, PageExpirer
<1>11. PageOrphans' BY <1>1, <1>8, <1>9 DEF PageInv, PageOrphans, Closed
<1> QED BY <1>4, <1>5, <1>6, <1>7, <1>10, <1>11 DEF PageInv

LEMMA PagePublishMoves ==
  ASSUME PageInv, Page!PageUploadsAssumption, NEW c \in Publishers,
         \/ \E u \in Uploads : \E chosen \in SUBSET MediaOf[u] : Page!StartPublish(c, u, chosen)
         \/ \E m \in Media : Page!Probe(c, m) \/ Page!Harden(c, m)
         \/ Page!GiveUp(c)
  PROVE  PageInv'
<1> DEFINE Rest == <<pageReservation, lease, made, pageExpired, pageObject, created, sending, old,
                     post, job,
                     expirer, orphans, walker, leaving, crashes>>
<1>1. /\ publisher \in [Publishers -> Publishing] /\ publisher[c] \in Publishing
      /\ PagePublisher(c)
      /\ pageObject \in [Media -> Page!Generations]
  BY DEF PageInv, PageTyped
<1>2. ASSUME NEW u \in Uploads, NEW chosen \in SUBSET MediaOf[u], Page!StartPublish(c, u, chosen)
      PROVE  PageInv'
  <2> DEFINE p == [at |-> "verify", upload |-> u, media |-> chosen, seen |-> Page!NoMedia,
                   sure |-> {}]
  <2>1. /\ lease = u /\ u \notin pageExpired /\ chosen # {}
        /\ \A m \in chosen : pageReservation[m] = "uploading"
        /\ publisher' = [publisher EXCEPT ![c] = p] /\ UNCHANGED Rest
    BY <1>2 DEF Page!StartPublish
  <2>2. chosen \subseteq Media /\ p \in Publishing BY PageUploads DEF Publishing
  <2>3. PICK m \in chosen : TRUE BY <2>1
  <2>4. Page!UploadOf(m) = u /\ PageMedia(m) BY <2>2, PageUploads DEF PageInv
  <2>5. u \in made BY <2>1, <2>3, <2>4 DEF PageMedia
  <2>6. publisher'[c] = p /\ made' = made BY <1>1, <2>1
  <2>7. PagePublisher(c)' BY <2>5, <2>6 DEF PagePublisher
  <2> QED BY <2>1, <2>2, <2>7, PageCallMoves
<1>3. ASSUME NEW m \in Media, Page!Probe(c, m) PROVE PageInv'
  <2> DEFINE q == publisher[c]
             s == [q.seen EXCEPT ![m] = pageObject[m]]
             p == [at |-> q.at, upload |-> q.upload, media |-> q.media, seen |-> s,
                   sure |-> q.sure]
  <2>1. /\ q.at = "verify" /\ q.seen[m] = 0 /\ UNCHANGED Rest
        /\ publisher' = [publisher EXCEPT ![c] = [q EXCEPT !.seen = s]]
    BY <1>3 DEF Page!Probe
  <2>2. s \in [Media -> Page!Generations] /\ \A n \in Media : n # m => s[n] = q.seen[n]
    BY <1>1 DEF Publishing
  <2>3. p \in Publishing /\ [q EXCEPT !.seen = s] = p
    <3> HIDE DEF s
    <3> QED BY <1>1, <2>2 DEF Publishing
  <2>4. publisher' = [publisher EXCEPT ![c] = p] /\ publisher'[c] = p BY <1>1, <2>1, <2>3
  <2>5. m \notin q.sure /\ q.sure \subseteq Media BY <1>1, <2>1 DEF PagePublisher, Publishing
  <2>6. PagePublisher(c)'
    <3> HIDE DEF s
    <3> QED BY <1>1, <2>1, <2>2, <2>4, <2>5 DEF PagePublisher
  <2>7. p.upload = publisher[c].upload \/ p.upload = Page!None
           \/ (p.upload \in Uploads /\ p.upload \notin pageExpired)
    OBVIOUS
  <2> HIDE DEF p
  <2> QED BY <2>1, <2>3, <2>4, <2>6, <2>7, PageCallMoves
<1>4. ASSUME NEW m \in Media, Page!Harden(c, m) PROVE PageInv'
  <2> DEFINE q == publisher[c]
             s == q.sure \cup {m}
             p == [at |-> q.at, upload |-> q.upload, media |-> q.media, seen |-> q.seen,
                   sure |-> s]
  <2>1. /\ q.at = "verify" /\ m \in q.media /\ UNCHANGED Rest
        /\ q.seen[m] # 0 /\ pageObject[m] = q.seen[m]
        /\ publisher' = [publisher EXCEPT ![c] = [q EXCEPT !.sure = s]]
    BY <1>4 DEF Page!Harden
  <2>2. p \in Publishing /\ [q EXCEPT !.sure = s] = p
    <3>1. s \subseteq Media BY <1>1 DEF Publishing
    <3> HIDE DEF s
    <3> QED BY <1>1, <3>1 DEF Publishing
  <2>3. publisher' = [publisher EXCEPT ![c] = p] /\ publisher'[c] = p BY <1>1, <2>1, <2>2
  <2>4. PagePublisher(c)' BY <1>1, <2>1, <2>3 DEF PagePublisher
  <2>5. p.upload = publisher[c].upload \/ p.upload = Page!None
           \/ (p.upload \in Uploads /\ p.upload \notin pageExpired)
    OBVIOUS
  <2> HIDE DEF p
  <2> QED BY <2>1, <2>2, <2>3, <2>4, <2>5, PageCallMoves
<1>5. CASE Page!GiveUp(c)
  <2> DEFINE p == Page!IdlePublisher
  <2>1. publisher' = [publisher EXCEPT ![c] = p] /\ UNCHANGED Rest BY <1>5 DEF Page!GiveUp
  <2>2. PagePublisher(c)' BY <1>1, <2>1, PageUploads DEF PagePublisher
  <2>3. p \in Publishing BY PageUploads
  <2>4. p.upload = publisher[c].upload \/ p.upload = Page!None
           \/ (p.upload \in Uploads /\ p.upload \notin pageExpired)
    BY PageUploads
  <2> HIDE DEF p
  <2> QED BY <2>1, <2>2, <2>3, <2>4, PageCallMoves
<1> QED BY <1>2, <1>3, <1>4, <1>5

\* The lease, the reservations and the absence of a post are what the commit
\* reads; that the hardened objects are still there follows.
LEMMA PageCommits ==
  ASSUME PageInv, Page!PageUploadsAssumption, NEW c \in Publishers, Page!CommitPublish(c)
  PROVE PageInv'
<1> DEFINE p == publisher[c]
           u == p.upload
           named == [m \in Media |-> IF m \in p.media THEN p.seen[m] ELSE 0]
<1>1. /\ p.at = "verify" /\ p.sure = p.media /\ ~leaving /\ post[u].status = "none" /\ lease = u
      /\ \A m \in p.media : pageReservation[m] = "uploading"
      /\ post' = [post EXCEPT ![u] = [status |-> "published", media |-> named]]
      /\ pageReservation' =
           [m \in Media |-> IF m \in MediaOf[u] THEN "none" ELSE pageReservation[m]]
      /\ lease' = Page!None /\ publisher' = [publisher EXCEPT ![c] = Page!IdlePublisher]
      /\ UNCHANGED <<made, pageExpired, pageObject, created, sending, old, job, expirer, orphans,
                     walker,
                     leaving, crashes>>
  BY DEF Page!CommitPublish
<1>2. PagePublisher(c) /\ p \in Publishing /\ made \subseteq Uploads /\ pageExpired \subseteq made
  BY DEF PageInv, PageTyped
<1>3. u \in made /\ u \in Uploads /\ p.media \subseteq MediaOf[u] BY <1>1, <1>2 DEF PagePublisher
<1>4. \A m \in Media : named[m] # 0 => m \in MediaOf[u] /\ pageObject[m] = named[m]
  BY <1>1, <1>2, <1>3 DEF PagePublisher
<1>5. named \in [Media -> Page!Generations] BY <1>2, PageUploads DEF Publishing
<1>6. /\ post' \in [Uploads -> Posts] /\ post'[u] = [status |-> "published", media |-> named]
      /\ \A v \in Uploads : v # u => post'[v] = post[v]
  <2>1. [status |-> "published", media |-> named] \in Posts BY <1>5 DEF Posts
  <2> QED BY <1>1, <1>3, <2>1 DEF PageInv, PageTyped
<1>7. /\ publisher' \in [Publishers -> Publishing] /\ publisher'[c] = Page!IdlePublisher
      /\ \A d \in Publishers : d # c => publisher'[d] = publisher[d]
  BY <1>1, PageUploads DEF PageInv, PageTyped
<1>8. PageTyped'
  <2>1. /\ pageReservation' \in [Media -> {"none", "uploading", "expiring"}]
        /\ lease' \in Uploads \cup {Page!None}
    BY <1>1 DEF PageInv, PageTyped
  <2> QED BY <1>1, <1>6, <1>7, <2>1 DEF PageInv, PageTyped
<1>9. ASSUME NEW m, Closed(m) PROVE Closed(m)'
  <2>1. Page!UploadOf(m) \in Uploads /\ Page!UploadOf(m) # Page!None
       BY <1>2, <1>9, PageUploads DEF Closed
  <2> QED BY <1>1, <1>7, <1>9, <2>1, PageUploads DEF Closed
<1>10. ASSUME NEW m \in Media PROVE PageMedia(m)'
  <2>1. PageMedia(m) BY DEF PageInv
  <2>2. pageReservation'[m] # "none" => pageReservation'[m] = pageReservation[m]
            /\ m \notin MediaOf[u]
    BY <1>1
  <2>3. pageReservation'[m] # "none" => Page!UploadOf(m) # u BY <2>1, <2>2 DEF PageMedia
  <2>4. job[m] # 0 => Page!UploadOf(m) # u /\ Page!UploadOf(m) \in Uploads
       BY <1>1, <1>2, <2>1 DEF PageMedia
  <2>5. m \in old => Closed(m)' BY <1>9, <2>1 DEF PageMedia
  <2>6. job'[m] # 0 => Page!UploadOf(m) \in made /\ post'[Page!UploadOf(m)].status = "gone"
    BY <1>1, <1>6, <2>1, <2>4 DEF PageMedia
  <2> QED BY <1>1, <2>1, <2>2, <2>3, <2>5, <2>6 DEF PageMedia
<1>11. ASSUME NEW v \in Uploads PROVE PagePost(v)'
  <2>1. PagePost(v) BY DEF PageInv
  <2>2. CASE v = u
    <3>1. \A m \in MediaOf[u] : pageReservation'[m] = "none" BY <1>1, <1>3, PageUploads
    <3> QED BY <1>1, <1>3, <1>4, <1>6, <2>2, <3>1 DEF PagePost
  <2>3. CASE v # u
    <3>1. \A m \in MediaOf[v] : m \in Media /\ pageReservation'[m] = pageReservation[m]
      BY <1>1, <1>3, <2>3, PageUploads
    <3> QED BY <1>1, <1>6, <2>1, <2>3, <3>1 DEF PagePost
  <2> QED BY <2>2, <2>3
<1>12. ASSUME NEW d \in Publishers PROVE PagePublisher(d)'
  <2>1. CASE d = c BY <1>7, <2>1, PageUploads DEF PagePublisher
  <2>2. CASE d # c
    <3>1. PagePublisher(d) /\ publisher[d].sure \subseteq Media
         BY DEF PageInv, PageTyped, Publishing
    <3>2. \A m \in Media : pageReservation'[m] = "uploading" => pageReservation[m] = "uploading"
         BY <1>1
    <3>3. publisher[d].at = "verify" =>
            /\ publisher[d].upload \in Uploads
            /\ post'[publisher[d].upload].status = "none" =>
                 post[publisher[d].upload].status = "none"
      BY <1>1, <1>2, <1>6, <3>1 DEF PagePublisher
    <3> QED BY <1>1, <1>7, <2>2, <3>1, <3>2, <3>3 DEF PagePublisher
  <2> QED BY <2>1, <2>2
<1>13. PageExpirer'
  <2> DEFINE m == expirer.media
  <2>1. SUFFICES ASSUME expirer.at # "idle"
                 PROVE  /\ m \in Media /\ Page!UploadOf(m) \in pageExpired
                      /\ pageReservation'[m] # "uploading"
                        /\ post'[Page!UploadOf(m)].media[m] = 0
    BY <1>1 DEF PageExpirer
  <2>2. /\ m \in Media /\ Page!UploadOf(m) \in pageExpired /\ pageReservation[m] # "uploading"
        /\ post[Page!UploadOf(m)].media[m] = 0
    BY <2>1 DEF PageInv, PageExpirer
  <2>3. pageReservation'[m] # "uploading" BY <1>1, <2>2
  <2>4. m \notin p.media BY <1>1, <2>2
  <2>5. named[m] = 0 BY <2>2, <2>4
  <2>6. post'[Page!UploadOf(m)].media[m] = 0
    <3> HIDE DEF named
    <3> QED BY <1>2, <1>6, <2>2, <2>5
  <2> QED BY <2>2, <2>3, <2>6
<1>14. PageOrphans'
  <2> DEFINE m == orphans.media
  <2>1. SUFFICES ASSUME orphans.at # "idle"
                 PROVE  /\ m \in Media /\ Page!UploadOf(m) \in pageExpired
                        /\ \A d \in Publishers : publisher'[d].upload # Page!UploadOf(m)
                        /\ orphans.at # "listed" => post'[Page!UploadOf(m)].media[m] = 0
    BY <1>1 DEF PageOrphans, Closed
  <2>2. m \in Media /\ Closed(m) /\ (orphans.at # "listed" => post[Page!UploadOf(m)].media[m] = 0)
    BY <2>1 DEF PageInv, PageOrphans
  <2>3. Page!UploadOf(m) # u /\ Page!UploadOf(m) \in Uploads BY <1>2, <2>2 DEF Closed
  <2>4. post'[Page!UploadOf(m)] = post[Page!UploadOf(m)] BY <1>6, <2>3
  <2>5. Page!UploadOf(m) # Page!None BY <2>3, PageUploads
  <2> QED BY <1>7, <2>2, <2>4, <2>5, PageUploads DEF Closed
<1> QED BY <1>8, <1>10, <1>11, <1>12, <1>13, <1>14 DEF PageInv

------------------------
LEMMA PageJobDeletes ==
  ASSUME PageInv, Page!PageUploadsAssumption, NEW m \in Media, Page!DeleteByJob(m) PROVE PageInv'
<1>1. /\ job[m] # 0 /\ job' = [job EXCEPT ![m] = 0]
      /\ ((pageObject' = [pageObject EXCEPT ![m] = 0] /\ old' = old \ {m})
          \/ UNCHANGED <<pageObject, old>>)
      /\ UNCHANGED <<pageReservation, lease, made, pageExpired, created, sending, post, publisher,
                     expirer, orphans, walker, leaving, crashes>>
  BY DEF Page!DeleteByJob, Page!WithoutObject
<1>2. /\ job' \in [Media -> Page!Generations] /\ pageObject' \in [Media -> Page!Generations]
      /\ old' \subseteq Media
      /\ \A n \in Media : job'[n] # 0 => job[n] # 0
  BY <1>1, PageUploads DEF PageInv, PageTyped
<1>3. PageTyped' BY <1>1, <1>2 DEF PageInv, PageTyped
<1>4. PageExpirer' /\ PageOrphans' BY <1>1 DEF PageInv, PageExpirer, PageOrphans, Closed
<1>5. PageMedia(m) /\ made \subseteq Uploads BY DEF PageInv, PageTyped
<1>6. Page!UploadOf(m) \in Uploads /\ post[Page!UploadOf(m)].status = "gone"
     BY <1>1, <1>5 DEF PageMedia
<1>7. post[Page!UploadOf(m)].media[m] = 0 BY <1>6 DEF PageInv, PagePost
<1> QED BY <1>1, <1>2, <1>3, <1>4, <1>6, <1>7, PageObjectGoes

LEMMA PageExpiryMoves ==
  ASSUME PageInv, Page!PageUploadsAssumption, Page!Expiry \/ Page!Crash PROVE PageInv'
<1>1. /\ PageExpirer /\ PageTyped /\ MaxCrashes \in Nat
      /\ made \subseteq Uploads /\ pageExpired \subseteq made
  BY PageUploads DEF PageInv, PageTyped
<1>2. ASSUME NEW m \in Media, Page!ClaimExpired(m) PROVE PageInv'
  <2>1. /\ expirer.at = "idle" /\ pageReservation[m] # "none" /\ Page!UploadOf(m) \in pageExpired
        /\ pageReservation' = [pageReservation EXCEPT ![m] = "expiring"]
        /\ expirer' = [at |-> "claimed", media |-> m, generation |-> 0]
        /\ UNCHANGED <<lease, made, pageExpired, pageObject, created, sending, old, post, job,
                       publisher,
                       orphans, walker, leaving, crashes>>
    BY <1>2 DEF Page!ClaimExpired
  <2>2. PageTyped' BY <1>1, <2>1, PageUploads DEF PageTyped
  <2>3. /\ pageReservation'[m] = "expiring"
        /\ \A n \in Media : \/ pageReservation'[n] = pageReservation[n]
                            \/ pageReservation'[n] = "expiring" /\ pageReservation[n] # "none"
    BY <1>1, <2>1 DEF PageTyped
  <2>4. post[Page!UploadOf(m)].media[m] = 0
    <3>1. PageMedia(m) /\ Page!UploadOf(m) \in Uploads /\ PagePost(Page!UploadOf(m))
         BY <1>1, <2>1 DEF PageInv
    <3> QED BY <2>1, <3>1 DEF PagePost
  <2>5. PageExpirer' BY <2>1, <2>3, <2>4 DEF PageExpirer
  <2>6. PageOrphans' BY <2>1 DEF PageInv, PageOrphans, Closed
  <2> QED BY <2>1, <2>2, <2>3, <2>5, <2>6, PageReservationsEase
<1>3. CASE Page!LookAtExpired
  <2>1. /\ expirer.at = "claimed" /\ UNCHANGED Docs /\ UNCHANGED <<orphans, walker, leaving,
                                                                   crashes>>
        /\ expirer' = [expirer EXCEPT !.at = "looked", !.generation = pageObject[expirer.media]]
    BY <1>3 DEF Page!LookAtExpired, Docs
  <2>2. pageObject[expirer.media] \in Page!Generations BY <1>1, <2>1 DEF PageTyped, PageExpirer
  <2>3. expirer' = [at |-> "looked", media |-> expirer.media,
                    generation |-> pageObject[expirer.media]]
    BY <1>1, <2>1 DEF PageTyped
  <2>4. PageTyped' BY <1>1, <2>1, <2>2, <2>3 DEF PageTyped, Docs
  <2>5. PageExpirer' BY <1>1, <2>1, <2>3 DEF PageExpirer, Docs
  <2>6. PageOrphans' BY <2>1 DEF PageInv, PageOrphans, Closed, Docs
  <2> QED BY <2>1, <2>4, <2>5, <2>6, PageAside
<1>4. CASE Page!DeleteExpired
  <2> DEFINE m == expirer.media
  <2>1. /\ expirer.at = "looked" /\ expirer' = [expirer EXCEPT !.at = "deleted"]
        /\ ((pageObject' = [pageObject EXCEPT ![m] = 0] /\ old' = old \ {m})
            \/ UNCHANGED <<pageObject, old>>)
        /\ UNCHANGED <<pageReservation, lease, made, pageExpired, created, sending, post, job,
                       publisher,
                       orphans, walker, leaving, crashes>>
    BY <1>4 DEF Page!DeleteExpired, Page!WithoutObject
  <2>2. /\ m \in Media /\ Page!UploadOf(m) \in pageExpired /\ pageReservation[m] # "uploading"
        /\ post[Page!UploadOf(m)].media[m] = 0
    BY <1>1, <2>1 DEF PageExpirer
  <2>3. expirer' = [at |-> "deleted", media |-> m, generation |-> expirer.generation]
    BY <1>1, <2>1 DEF PageTyped
  <2>4. pageObject' \in [Media -> Page!Generations] /\ old' \subseteq Media
    BY <1>1, <2>1, PageUploads DEF PageTyped
  <2>5. PageTyped' BY <1>1, <2>1, <2>3, <2>4 DEF PageTyped
  <2>6. PageExpirer' BY <2>1, <2>2, <2>3 DEF PageExpirer
  <2>7. PageOrphans' BY <2>1 DEF PageInv, PageOrphans, Closed
  <2>8. job' \in [Media -> Page!Generations] /\ \A n \in Media : job'[n] # 0 => job[n] # 0
    BY <1>1, <2>1 DEF PageTyped
  <2> HIDE DEF m
  <2> QED BY <2>1, <2>2, <2>5, <2>6, <2>7, <2>8, PageObjectGoes
<1>5. CASE Page!SettleExpired
  <2> DEFINE m == expirer.media
  <2>1. /\ expirer' = Page!IdleExpirer
        /\ (pageReservation' = [pageReservation EXCEPT ![m] = "none"]
            \/ pageReservation' = pageReservation)
        /\ (lease' = lease \/ (lease' = Page!None /\ lease \in pageExpired))
        /\ UNCHANGED <<made, pageExpired, pageObject, created, sending, old, post, job, publisher,
                       orphans,
                       walker, leaving, crashes>>
    BY <1>5 DEF Page!SettleExpired, Page!LeaseToDrop
  <2>2. PageTyped' BY <1>1, <2>1, PageUploads DEF PageTyped
  <2>3. \A n \in Media : pageReservation'[n] = pageReservation[n] \/ pageReservation'[n] = "none"
    BY <1>1, <2>1 DEF PageTyped
  <2>4. PageExpirer' BY <2>1, PageUploads DEF PageExpirer
  <2>5. PageOrphans' BY <2>1 DEF PageInv, PageOrphans, Closed
  <2> QED BY <2>1, <2>2, <2>3, <2>4, <2>5, PageReservationsEase
<1>6. CASE Page!Crash
  <2>1. /\ crashes < MaxCrashes /\ crashes' = crashes + 1 /\ expirer' = Page!IdleExpirer
        /\ UNCHANGED Docs /\ UNCHANGED <<orphans, walker, leaving>>
    BY <1>6 DEF Page!Crash, Docs
  <2>2. crashes' \in 0..MaxCrashes BY <1>1, <2>1 DEF PageTyped
  <2>3. PageTyped' BY <1>1, <2>1, <2>2, PageUploads DEF PageTyped, Docs
  <2>4. PageExpirer' BY <2>1, PageUploads DEF PageExpirer
  <2>5. PageOrphans' BY <2>1 DEF PageInv, PageOrphans, Closed, Docs
  <2> QED BY <2>1, <2>3, <2>4, <2>5, PageAside
<1> QED BY <1>2, <1>3, <1>4, <1>5, <1>6 DEF Page!Expiry

------------------------
LEMMA PageOrphansMove ==
  ASSUME PageInv, Page!PageUploadsAssumption, Page!OrphanSweep PROVE PageInv'
<1>1. PageOrphans /\ PageTyped BY DEF PageInv
<1>2. ASSUME NEW m \in Media, Page!ListOrphans(m) PROVE PageInv'
  <2>1. /\ m \in old /\ orphans' = [at |-> "listed", media |-> m, generation |-> pageObject[m]]
        /\ UNCHANGED Docs /\ UNCHANGED <<expirer, walker, leaving, crashes>>
    BY <1>2 DEF Page!ListOrphans, Docs
  <2>2. pageObject[m] \in Page!Generations /\ PageMedia(m) BY <1>1 DEF PageTyped, PageInv
  <2>3. PageTyped' BY <1>1, <2>1, <2>2 DEF PageTyped, Docs
  <2>4. PageOrphans' BY <2>1, <2>2 DEF PageOrphans, PageMedia, Closed, Docs
  <2>5. PageExpirer' BY <2>1 DEF PageInv, PageExpirer, Docs
  <2> QED BY <2>1, <2>3, <2>4, <2>5, PageAside
<1>3. ASSUME NEW from, NEW to \in {"posts", "reservations", "jobs"}, NEW keeps,
             Page!OrphanReads(from, to, keeps), from # "idle",
             ~keeps => from # "listed" \/ post[Page!UploadOf(orphans.media)].media[orphans.media]
                  = 0
      PROVE  PageInv'
  <2>1. /\ orphans.at = from /\ UNCHANGED Docs /\ UNCHANGED <<expirer, walker, leaving, crashes>>
        /\ \/ keeps /\ orphans' = Page!IdleOrphans
           \/ ~keeps /\ orphans' = [orphans EXCEPT !.at = to]
    BY <1>3 DEF Page!OrphanReads, Docs
  <2>2. PageExpirer' BY <2>1 DEF PageInv, PageExpirer, Docs
  <2>3. CASE orphans' = Page!IdleOrphans
    <3>1. PageTyped' BY <1>1, <2>1, <2>3, PageUploads DEF PageTyped, Docs
    <3>2. PageOrphans' BY <2>3, PageUploads DEF PageOrphans
    <3> QED BY <2>1, <2>2, <3>1, <3>2, PageAside
  <2>4. CASE ~keeps /\ orphans' = [orphans EXCEPT !.at = to]
    <3>1. orphans' = [at |-> to, media |-> orphans.media, generation |-> orphans.generation]
      BY <1>1, <2>4 DEF PageTyped
    <3>2. PageTyped' BY <1>1, <2>1, <3>1 DEF PageTyped, Docs
    <3>3. /\ orphans.media \in Media /\ Closed(orphans.media)
          /\ post[Page!UploadOf(orphans.media)].media[orphans.media] = 0
      BY <1>1, <1>3, <2>1, <2>4 DEF PageOrphans
    <3>4. PageOrphans' BY <2>1, <3>1, <3>3 DEF PageOrphans, Closed, Docs
    <3> QED BY <2>1, <2>2, <3>2, <3>4, PageAside
  <2> QED BY <2>1, <2>3, <2>4
<1>4. CASE Page!ReadPosts
  <2>1. Page!Referenced(orphans.media) \/ post[Page!UploadOf(orphans.media)].media[orphans.media]
            = 0
    BY DEF Page!Referenced
  <2> QED BY <1>3, <1>4, <2>1 DEF Page!ReadPosts
<1>5. CASE Page!ReadReservations BY <1>3, <1>5 DEF Page!ReadReservations
<1>6. CASE Page!ReadJobs BY <1>3, <1>6 DEF Page!ReadJobs
<1>7. CASE Page!DeleteOrphan
  <2> DEFINE m == orphans.media
  <2>1. /\ orphans.at = "jobs" /\ orphans' = Page!IdleOrphans
        /\ ((pageObject' = [pageObject EXCEPT ![m] = 0] /\ old' = old \ {m})
            \/ UNCHANGED <<pageObject, old>>)
        /\ UNCHANGED <<pageReservation, lease, made, pageExpired, created, sending, post, job,
                       publisher,
                       expirer, walker, leaving, crashes>>
    BY <1>7 DEF Page!DeleteOrphan, Page!WithoutObject
  <2>2. m \in Media /\ Closed(m) /\ post[Page!UploadOf(m)].media[m] = 0
    BY <1>1, <2>1 DEF PageOrphans
  <2>3. pageObject' \in [Media -> Page!Generations] /\ old' \subseteq Media
    BY <1>1, <2>1, PageUploads DEF PageTyped
  <2>4. PageTyped' BY <1>1, <2>1, <2>3, PageUploads DEF PageTyped
  <2>5. PageExpirer' BY <2>1 DEF PageInv, PageExpirer
  <2>6. PageOrphans' BY <2>1, PageUploads DEF PageOrphans
  <2>7. job' \in [Media -> Page!Generations] /\ \A n \in Media : job'[n] # 0 => job[n] # 0
    BY <1>1, <2>1 DEF PageTyped
  <2> HIDE DEF m
  <2> QED BY <2>1, <2>2, <2>4, <2>5, <2>6, <2>7, PageObjectGoes
<1> QED BY <1>2, <1>4, <1>5, <1>6, <1>7 DEF Page!OrphanSweep

LEMMA PageAccountLeaves ==
  ASSUME PageInv, Page!PageUploadsAssumption, Page!AccountWalk \/ Page!Leave PROVE PageInv'
<1>1. PageTyped BY DEF PageInv
<1>2. ASSUME NEW m \in Media, Page!SweepReservation(m) PROVE PageInv'
  <2>1. /\ leaving /\ \A u \in Uploads : post[u].status # "published"
        /\ walker' = m /\ pageObject' = [pageObject EXCEPT ![m] = 0] /\ old' = old \ {m}
        /\ UNCHANGED <<pageReservation, lease, made, pageExpired, created, sending, post, job,
                       publisher,
                       expirer, orphans, leaving, crashes>>
    BY <1>2 DEF Page!SweepReservation
  <2>2. pageObject' \in [Media -> Page!Generations] /\ old' \subseteq Media
    BY <1>1, <2>1, PageUploads DEF PageTyped
  <2>3. PageTyped' BY <1>1, <2>1, <2>2 DEF PageTyped
  <2>4. PageExpirer' BY <2>1 DEF PageInv, PageExpirer
  <2>5. PageOrphans' BY <2>1 DEF PageInv, PageOrphans, Closed
  <2>6. \A u \in Uploads : post[u].media[m] = 0 BY <2>1 DEF PageInv, PagePost
  <2>7. job' \in [Media -> Page!Generations] /\ \A n \in Media : job'[n] # 0 => job[n] # 0
    BY <1>1, <2>1 DEF PageTyped
  <2> QED BY <2>1, <2>3, <2>4, <2>5, <2>6, <2>7, PageObjectGoes
<1>3. CASE Page!ForgetReservation
  <2>1. /\ walker # Page!None /\ pageReservation' = [pageReservation EXCEPT ![walker] = "none"]
        /\ walker' = Page!None
        /\ UNCHANGED <<lease, made, pageExpired, pageObject, created, sending, old, post, job,
                       publisher,
                       expirer, orphans, leaving, crashes>>
    BY <1>3 DEF Page!ForgetReservation
  <2>2. PageTyped' BY <1>1, <2>1 DEF PageTyped
  <2>3. \A m \in Media : pageReservation'[m] = pageReservation[m] \/ pageReservation'[m] = "none"
    BY <1>1, <2>1 DEF PageTyped
  <2>4. PageExpirer' BY <2>1, <2>3 DEF PageInv, PageExpirer
  <2>5. PageOrphans' BY <2>1 DEF PageInv, PageOrphans, Closed
  <2> QED BY <2>1, <2>2, <2>3, <2>4, <2>5, PageReservationsEase
<1>4. CASE Page!Leave
  <2>1. leaving' = TRUE /\ UNCHANGED Docs /\ UNCHANGED <<expirer, orphans, walker, crashes>>
    BY <1>4 DEF Page!Leave, Docs
  <2>2. leaving' \in BOOLEAN BY <2>1
  <2>3. PageTyped' BY <1>1, <2>1, <2>2 DEF PageTyped, Docs
  <2>4. PageExpirer' BY <2>1 DEF PageInv, PageExpirer, Docs
  <2>5. PageOrphans' BY <2>1 DEF PageInv, PageOrphans, Closed, Docs
  <2> QED BY <2>1, <2>3, <2>4, <2>5, PageAside
<1> QED BY <1>2, <1>3, <1>4 DEF Page!AccountWalk

LEMMA PageStep == ASSUME PageInv, Page!PageUploadsAssumption, [Page!Next]_Page!vars PROVE PageInv'
<1>1. CASE UNCHANGED Page!vars
  <2>1. /\ UNCHANGED Docs /\ UNCHANGED <<expirer, orphans, walker, leaving, crashes>>
    BY <1>1 DEF Page!vars, Docs
  <2>2. PageTyped' BY <2>1 DEF PageInv, PageTyped, Docs
  <2>3. PageExpirer' /\ PageOrphans' BY <2>1 DEF PageInv, PageExpirer, PageOrphans, Closed, Docs
  <2> QED BY <2>1, <2>2, <2>3, PageAside
<1>2. CASE Page!Client BY <1>2, PageClientUploads DEF Page!Client
<1>3. CASE Page!Owner BY <1>3, PageReserves, PageDeletesPost DEF Page!Owner
<1>4. CASE Page!Publish
  <2>1. PICK c \in Publishers :
          \/ \E u \in Uploads : \E chosen \in SUBSET MediaOf[u] : Page!StartPublish(c, u, chosen)
          \/ \E m \in Media : Page!Probe(c, m) \/ Page!Harden(c, m)
          \/ Page!GiveUp(c) \/ Page!CommitPublish(c)
    BY <1>4 DEF Page!Publish
  <2> QED BY <2>1, PagePublishMoves, PageCommits
<1>5. CASE Page!Expiry \/ Page!Crash BY <1>5, PageExpiryMoves
<1>6. CASE Page!OrphanSweep BY <1>6, PageOrphansMove
<1>7. CASE Page!AccountWalk \/ Page!Leave BY <1>7, PageAccountLeaves
<1>8. CASE Page!Time BY <1>8, PageExpires, PageGrowsOld DEF Page!Time
<1>9. CASE \E m \in Media : Page!DeleteByJob(m) BY <1>9, PageJobDeletes
<1> QED BY <1>1, <1>2, <1>3, <1>4, <1>5, <1>6, <1>7, <1>8, <1>9 DEF Page!Next

(* The strengthening is an invariant of the owner's client, the overlapping calls of
   publish, the three sweepers and the deletion of the account. *)
THEOREM PageInvariant == ASSUME Page!PageUploadsAssumption PROVE Page!Spec => []PageInv
<1>1. Page!Init => PageInv BY PageInit
<1>2. PageInv /\ [Page!Next]_Page!vars => PageInv' BY PageStep
<1> QED BY <1>1, <1>2, PTL DEF Page!Spec

(* The reservations, the objects, the posts and everybody's notes keep their types, and
   only an object that exists is old. *)
THEOREM PageTypeCorrect == ASSUME Page!PageUploadsAssumption PROVE Page!Spec => []Page!TypeOK
<1>1. PageInv => Page!TypeOK
  <2>1. PageInv => old \subseteq {m \in Media : pageObject[m] # 0}
       BY DEF PageInv, PageTyped, PageMedia
  <2> QED BY <2>1 DEF PageInv, PageTyped, Page!TypeOK, Posts, Publishing
<1> QED BY <1>1, PageInvariant, PTL

(* A published post's media is there, and is the very object that was verified and
   hardened, for any uploads and calls and whatever the three sweepers, which delete by
   what they read earlier, do meanwhile. *)
THEOREM PublishedMediaStays == ASSUME Page!PageUploadsAssumption
PROVE Page!Spec => []Page!PublishedHasItsBytes
<1>1. PageInv => Page!PublishedHasItsBytes BY DEF PageInv, PagePost, Page!PublishedHasItsBytes
<1> QED BY <1>1, PageInvariant, PTL

(* An owner has one live set of reservations, and its lease is the one on record: late
   expiry work of an older set never frees it, for any number of sets. *)
THEOREM UploadsOneSetAtATime == ASSUME Page!PageUploadsAssumption
PROVE Page!Spec => []Page!OneSetAtATime
<1>1. PageInv => Page!OneSetAtATime BY DEF PageInv, PageMedia, Page!OneSetAtATime
<1> QED BY <1>1, PageInvariant, PTL

------------------------
(***************************************************************************)
(* The standing of a Page (PageStanding), for any names, lapses and        *)
(* grants.  The sweep decides from its own reads and commits later, and    *)
(* the trigger may be lost: what is inductive is that the Page and its     *)
(* entry of the index are written together (StandingWritten), and, for the *)
(* notices, that a Page old enough to be hidden had its warning, or had no *)
(* sweep judge it in its last week (StandingWarned).                       *)
(***************************************************************************)
CONSTANTS Names, MaxLapses, MaxGrants
VARIABLES alive, granted, grants, public, audience, name, projected, page, age, lapses, told,
          index, lapseEnabled, trigger, chosen, swept, missed
Standing == INSTANCE PageStanding

Pages == [exists : BOOLEAN, status : Standing!Statuses, lapse : 0..MaxLapses, paused : BOOLEAN,
          suspended : BOOLEAN, name : Names \cup {Standing!None}, listed : BOOLEAN]

StandingTyped ==
  /\ alive \in BOOLEAN /\ granted \in BOOLEAN /\ public \in BOOLEAN /\ audience \in BOOLEAN
  /\ lapseEnabled \in BOOLEAN /\ trigger \in BOOLEAN /\ swept \in BOOLEAN
  /\ name \in Names /\ projected \in Names
  /\ page \in Pages
  /\ age \in 0..2 /\ lapses \in 0..MaxLapses /\ grants \in 0..MaxGrants
  /\ told \subseteq {"readOnly", "hidingSoon"} \X (1..MaxLapses)
  /\ chosen \in Standing!Decisions
  /\ missed \subseteq 0..MaxLapses

\* The Page and its entry are written together, and a lapse has a number.
StandingWritten ==
  /\ index = Standing!Entry(page)
  /\ page.exists => page.listed = Standing!Listed(page)
  /\ page.status # "active" => page.lapse # 0

StandingInv == StandingTyped /\ StandingWritten /\ Standing!PrivacyHolds

\* The owner was warned by the time a Page may be hidden: at the second age, unless its
\* lapse was missed, and at the first one once the sweep has judged it.
Warned == <<"hidingSoon", page.lapse>> \in told
StandingWarned ==
  /\ page.exists /\ page.status = "readOnly" /\ age = 2 => Warned \/ page.lapse \in missed
  /\ page.exists /\ page.status = "readOnly" /\ age = 1 /\ swept => Warned
  /\ Standing!HiddenWasWarned

\* There is no Page yet: the strengthening holds.
LEMMA StandingInit == ASSUME Standing!StandingAssumption, Standing!Init PROVE StandingInv
<1>1. MaxLapses \in Nat /\ MaxGrants \in Nat BY DEF Standing!StandingAssumption
<1>2. page \in Pages BY <1>1 DEF Standing!Init, Standing!Blank, Standing!Statuses, Standing!None,
          Pages
<1>3. /\ alive \in BOOLEAN /\ granted \in BOOLEAN /\ public \in BOOLEAN /\ audience \in BOOLEAN
      /\ lapseEnabled \in BOOLEAN /\ trigger \in BOOLEAN /\ swept \in BOOLEAN
  BY DEF Standing!Init
<1>4. /\ name \in Names /\ projected \in Names /\ told = {}
      /\ age \in 0..2 /\ lapses \in 0..MaxLapses /\ grants \in 0..MaxGrants
      /\ chosen \in Standing!Decisions /\ missed = {}
  BY <1>1 DEF Standing!Init, Standing!Decisions
<1>5. StandingTyped BY <1>2, <1>3, <1>4 DEF StandingTyped
<1> QED BY <1>5 DEF Standing!Init, StandingInv, StandingWritten, Standing!PrivacyHolds,
        Standing!Exists, Standing!Blank

\* Every write of the Page and its entry keeps their types and their agreement.
LEMMA StandingWrites ==
  ASSUME NEW p \in Pages, Standing!WritePage(p), p.status # "active" => p.lapse # 0
  PROVE  /\ page' \in Pages /\ StandingWritten'
         /\ page'.exists = p.exists /\ page'.status = p.status /\ page'.lapse = p.lapse
         /\ page'.paused = p.paused
<1>1. Standing!Listed(p) \in BOOLEAN BY DEF Standing!Listed
<1>2. page' = [p EXCEPT !.listed = Standing!Listed(p)] /\ index' = Standing!Entry(p)
  BY DEF Standing!WritePage, Standing!WithListed
<1>3. /\ page'.exists = p.exists /\ page'.status = p.status /\ page'.lapse = p.lapse
      /\ page'.paused = p.paused /\ page'.suspended = p.suspended
      /\ page'.listed = Standing!Listed(p)
  BY <1>2 DEF Pages
<1>4. page' \in Pages BY <1>1, <1>2 DEF Pages
<1>5. Standing!Entry(p) = Standing!Entry(page)' BY <1>3 DEF Standing!Entry
<1>6. Standing!Listed(p) = Standing!Listed(page)' BY <1>3 DEF Standing!Listed
<1> QED BY <1>2, <1>3, <1>4, <1>5, <1>6 DEF StandingWritten

\* The two ways a Page is changed in its standing, and a new Page.
Stands(p, s, n) == [p EXCEPT !.status = s, !.lapse = n]
\* A change of the standing alone: what it keeps.
LEMMA StandingStanding ==
  ASSUME NEW p \in Pages, NEW s \in Standing!Statuses, NEW n \in 0..MaxLapses
  PROVE  /\ Stands(p, s, n) \in Pages
         /\ Stands(p, s, n).status = s /\ Stands(p, s, n).lapse = n
         /\ Stands(p, s, n).exists = p.exists /\ Stands(p, s, n).paused = p.paused
<1>1. [p EXCEPT !.status = s] \in Pages BY DEF Pages
<1>2. [[p EXCEPT !.status = s] EXCEPT !.lapse = n] \in Pages BY <1>1 DEF Pages
<1>3. [[p EXCEPT !.status = s] EXCEPT !.lapse = n] = [p EXCEPT !.status = s, !.lapse = n]
  BY DEF Pages
<1>4. /\ [p EXCEPT !.status = s, !.lapse = n].status = s
      /\ [p EXCEPT !.status = s, !.lapse = n].lapse = n
      /\ [p EXCEPT !.status = s, !.lapse = n].exists = p.exists
      /\ [p EXCEPT !.status = s, !.lapse = n].paused = p.paused
  BY DEF Pages
<1> QED BY <1>2, <1>3, <1>4 DEF Stands

\* A Page created again keeps its suspension.
LEMMA StandingRestored ==
  ASSUME Standing!StandingAssumption, NEW p \in Pages
  PROVE  /\ Standing!Restored(p) \in Pages /\ Standing!Restored(p).status = "active"
         /\ Standing!Restored(p).exists = p.exists /\ Standing!Restored(p).paused = p.paused
<1>1. "active" \in Standing!Statuses /\ 0 \in 0..MaxLapses
     BY DEF Standing!Statuses, Standing!StandingAssumption
<1>2. Standing!Restored(p) = Stands(p, "active", 0) BY DEF Standing!Restored, Stands
<1> QED BY <1>1, <1>2, StandingStanding

\* What the calls of the owner, of a moderator and of the deletion do to the Page.
LEMMA StandingOwner ==
  ASSUME Standing!StandingAssumption, StandingInv,
         \/ Standing!Create \/ Standing!Update \/ Standing!Resume \/ Standing!Pause
              \/ Standing!RemovePage \/ Standing!Suspend \/ Standing!Lift
         \/ \E n \in Names : Standing!UpdateMyDisplayName(n)
         \/ \E v \in BOOLEAN : Standing!SetMyProfileVisibility(v)
  PROVE  StandingInv'
<1> USE DEF StandingInv
<1>0. page \in Pages /\ MaxLapses \in Nat BY DEF StandingTyped, Pages, Standing!StandingAssumption
<1>1. CASE Standing!Create
  <2>1. Standing!NewPage \in Pages /\ Standing!NewPage.status = "active"
            /\ Standing!NewPage.exists
    <3>1. Standing!Blank \in Pages BY <1>0 DEF Standing!Blank, Pages, Standing!Statuses
    <3>2. projected \in Names BY DEF StandingTyped
    <3>3. Standing!NewPage \in Pages BY <3>1, <3>2 DEF Standing!NewPage, Pages
    <3> QED BY <3>3 DEF Standing!NewPage, Standing!Blank
  <2>2. Standing!WritePage(Standing!NewPage) BY <1>1 DEF Standing!Create, Standing!WritePage
  <2>3. page' \in Pages /\ StandingWritten' BY <2>1, <2>2, StandingWrites
  <2>4. audience' = FALSE /\ projected' \in Names BY <1>1 DEF Standing!Create, StandingTyped
  <2>5. StandingTyped'
    BY <1>1, <2>3, <2>4
       DEF Standing!Create, StandingTyped, Pages, Standing!lapse, Standing!clockwork
  <2> QED BY <1>1, <2>3, <2>4, <2>5 DEF Standing!Create, Standing!PrivacyHolds
<1>2. ASSUME NEW p \in Pages, Standing!OwnerWrite(p), p.exists,
             public \/ p.paused
      PROVE  StandingInv'
  <2>1. Standing!Restored(p) \in Pages /\ Standing!Restored(p).status = "active"
            /\ Standing!Restored(p).exists
            /\ Standing!Restored(p).paused = p.paused
    BY <1>2, StandingRestored
  <2>2. Standing!WritePage(Standing!Restored(p)) BY <1>2 DEF Standing!OwnerWrite
  <2>3. page' \in Pages /\ StandingWritten' /\ page'.paused = p.paused
    BY <2>1, <2>2, StandingWrites
  <2>4. StandingTyped' BY <1>2, <2>3 DEF Standing!OwnerWrite, StandingTyped, Pages,
            Standing!owner, Standing!lapse, Standing!clockwork
  <2>5. Standing!PrivacyHolds' BY <1>2, <2>3 DEF Standing!OwnerWrite, Standing!PrivacyHolds,
            Standing!owner, Standing!Exists
  <2> QED BY <2>3, <2>4, <2>5
<1>3. CASE Standing!Update
  BY <1>0, <1>2, <1>3
     DEF Standing!Update, Standing!OwnerWrite, Standing!PrivacyHolds, Standing!Exists
<1>4. CASE Standing!Resume
  <2>1. [page EXCEPT !.paused = FALSE] \in Pages /\ [page EXCEPT !.paused = FALSE].exists
    BY <1>0, <1>4 DEF Standing!Resume, Standing!OwnerWrite, Standing!Exists, Pages
  <2> QED BY <1>2, <1>4, <2>1 DEF Standing!Resume
<1>5. ASSUME NEW p \in Pages, Standing!WritePage(p), p.status = page.status, p.lapse = page.lapse,
             p.exists, UNCHANGED <<Standing!lapse, Standing!clockwork>>,
             UNCHANGED <<alive, granted, grants, name, projected, audience>>,
             public' \in BOOLEAN, public' \/ p.paused, page.exists
      PROVE  StandingInv'
  <2>1. page' \in Pages /\ StandingWritten' /\ page'.paused = p.paused
    BY <1>5, StandingWrites DEF StandingWritten
  <2>2. StandingTyped' BY <1>5, <2>1 DEF StandingTyped, Pages, Standing!lapse, Standing!clockwork
  <2>3. Standing!PrivacyHolds' BY <1>5, <2>1 DEF Standing!PrivacyHolds, Standing!Exists
  <2> QED BY <2>1, <2>2, <2>3
<1>6. /\ [page EXCEPT !.paused = TRUE] \in Pages
      /\ [page EXCEPT !.suspended = TRUE] \in Pages /\ [page EXCEPT !.suspended = FALSE] \in Pages
      /\ \A n \in Names : [page EXCEPT !.name = n] \in Pages
  BY <1>0 DEF Pages
<1>7. CASE Standing!Pause
  BY <1>0, <1>5, <1>6, <1>7
     DEF Standing!Pause, Standing!Exists, StandingTyped, Standing!owner, Pages
<1>8. CASE Standing!Suspend
  BY <1>0, <1>5, <1>6, <1>8
     DEF Standing!Suspend, Standing!Exists, StandingTyped, Standing!PrivacyHolds,
         Standing!owner, Pages
<1>9. CASE Standing!Lift
  BY <1>0, <1>5, <1>6, <1>9
     DEF Standing!Lift, Standing!Exists, StandingTyped, Standing!PrivacyHolds, Standing!owner,
         Pages
<1>10. ASSUME NEW v \in BOOLEAN, Standing!SetMyProfileVisibility(v) PROVE StandingInv'
  <2>1. CASE ~v /\ Standing!Exists /\ ~page.paused
    BY <1>0, <1>5, <1>6, <1>10, <2>1
       DEF Standing!SetMyProfileVisibility, Standing!Exists, StandingTyped, Pages
  <2>2. CASE ~(~v /\ Standing!Exists /\ ~page.paused)
    <3>1. page' = page /\ index' = index /\ public' = v /\ audience' = audience
      BY <1>10, <2>2 DEF Standing!SetMyProfileVisibility
    <3>2. StandingTyped' BY <1>10, <3>1 DEF Standing!SetMyProfileVisibility, StandingTyped,
              Standing!lapse, Standing!clockwork
    <3>3. StandingWritten' BY <3>1 DEF StandingWritten, Standing!Entry, Standing!Listed
    <3>4. Standing!PrivacyHolds' BY <1>0, <2>2, <3>1 DEF Standing!PrivacyHolds, Standing!Exists,
              StandingTyped, Pages
    <3> QED BY <3>2, <3>3, <3>4
  <2> QED BY <2>1, <2>2
<1>11. ASSUME NEW n \in Names, Standing!UpdateMyDisplayName(n) PROVE StandingInv'
  <2>1. /\ page' \in Pages /\ page'.exists = page.exists /\ page'.status = page.status
        /\ page'.lapse = page.lapse /\ page'.paused = page.paused
        /\ page'.suspended = page.suspended /\ page'.listed = page.listed
    BY <1>0, <1>6, <1>11 DEF Standing!UpdateMyDisplayName, Pages
  <2>2. StandingTyped'
    BY <1>11, <2>1
       DEF Standing!UpdateMyDisplayName, StandingTyped, Pages, Standing!lapse,
           Standing!clockwork
  <2>3. StandingWritten' BY <1>11, <2>1 DEF Standing!UpdateMyDisplayName, StandingWritten,
            Standing!Entry, Standing!Listed
  <2>4. Standing!PrivacyHolds'
       BY <1>11, <2>1 DEF Standing!UpdateMyDisplayName, Standing!PrivacyHolds, Standing!Exists
  <2> QED BY <2>2, <2>3, <2>4
<1>12. CASE Standing!RemovePage
  <2>1. Standing!Blank \in Pages BY <1>0 DEF Standing!Blank, Pages, Standing!Statuses
  <2>2. StandingTyped' BY <1>12, <2>1 DEF Standing!RemovePage, StandingTyped, Pages,
            Standing!owner, Standing!lapse, Standing!clockwork
  <2>3. StandingWritten' BY <1>12 DEF Standing!RemovePage, StandingWritten, Standing!Blank
  <2>4. Standing!PrivacyHolds'
       BY <1>12 DEF Standing!RemovePage, Standing!PrivacyHolds, Standing!Exists, Standing!Blank
  <2> QED BY <2>2, <2>3, <2>4
<1> QED BY <1>1, <1>3, <1>4, <1>7, <1>8, <1>9, <1>10, <1>11, <1>12

\* A reconciliation: a Page is restored, lapses under the next number, or is hidden.
LEMMA StandingReconciles ==
  ASSUME Standing!StandingAssumption, StandingInv, Standing!ReconcilePage
  PROVE  /\ page' \in Pages /\ StandingWritten'
         /\ page'.exists = page.exists /\ page'.paused = page.paused
         /\ age' \in 0..2 /\ lapses' \in 0..MaxLapses
         /\ told' \subseteq {"readOnly", "hidingSoon"} \X (1..MaxLapses)
         /\ missed' \subseteq 0..MaxLapses
<1> DEFINE decision == Standing!Decision(page, Standing!Capable, lapseEnabled)
<1> USE DEF StandingInv
<1>0. /\ page \in Pages /\ MaxLapses \in Nat /\ Standing!Apply(decision)
      /\ age \in 0..2 /\ lapses \in 0..MaxLapses
      /\ told \subseteq {"readOnly", "hidingSoon"} \X (1..MaxLapses)
      /\ missed \subseteq 0..MaxLapses
  BY DEF StandingTyped, Pages, Standing!StandingAssumption, Standing!ReconcilePage
<1> HIDE DEF decision
<1>1. CASE decision = "none"
  BY <1>0, <1>1
     DEF Standing!Apply, Standing!lapse, StandingWritten, Standing!Entry, Standing!Listed
<1>2. CASE decision = "warn"
  <2>1. page.lapse \in 1..MaxLapses
    <3>1. page.status # "active" /\ page.lapse \in 0..MaxLapses
      BY <1>0, <1>2 DEF decision, Standing!Decision, Pages
    <3> QED BY <1>0, <3>1 DEF StandingWritten
  <2> QED BY <1>0, <1>2, <2>1 DEF Standing!Apply, StandingWritten, Standing!Entry, Standing!Listed
<1>3. CASE decision = "restore"
  <2>1. /\ Standing!Restored(page) \in Pages /\ Standing!Restored(page).status = "active"
        /\ Standing!Restored(page).exists = page.exists
        /\ Standing!Restored(page).paused = page.paused
    BY <1>0, StandingRestored
  <2>2. Standing!WritePage(Standing!Restored(page)) /\ UNCHANGED Standing!lapse
       BY <1>0, <1>3 DEF Standing!Apply
  <2>3. /\ page' \in Pages /\ StandingWritten' /\ page'.exists = page.exists
        /\ page'.paused = page.paused
    BY <2>1, <2>2, StandingWrites
  <2> QED BY <1>0, <2>2, <2>3 DEF Standing!lapse
<1>4. CASE decision = "readOnly"
  <2> DEFINE p == [page EXCEPT !.status = "readOnly", !.lapse = lapses + 1]
  <2>0. lapses + 1 \in 1..MaxLapses BY <1>0, <1>4 DEF Standing!Apply
  <2>1. p \in Pages /\ p.lapse # 0 /\ p.exists = page.exists /\ p.paused = page.paused
    <3>1. "readOnly" \in Standing!Statuses /\ lapses + 1 \in 0..MaxLapses /\ lapses + 1 # 0
      BY <1>0, <2>0 DEF Standing!Statuses
    <3>2. p = Stands(page, "readOnly", lapses + 1) BY DEF Stands
    <3> HIDE DEF p
    <3> QED BY <1>0, <3>1, <3>2, StandingStanding
  <2>2. Standing!WritePage(p) /\ lapses' = lapses + 1 /\ age' = 0
            /\ told' = told \cup {<<"readOnly", lapses + 1>>} /\ missed' = missed
    BY <1>0, <1>4 DEF Standing!Apply
  <2> HIDE DEF p
  <2>3. /\ page' \in Pages /\ StandingWritten' /\ page'.exists = page.exists
        /\ page'.paused = page.paused
    BY <2>1, <2>2, StandingWrites
  <2> QED BY <1>0, <2>0, <2>2, <2>3
<1>5. CASE decision = "hidden"
  <2> DEFINE p == [page EXCEPT !.status = "hidden"]
  <2>1. /\ p \in Pages /\ p.lapse = page.lapse /\ p.exists = page.exists
        /\ p.paused = page.paused
    BY <1>0 DEF Pages, Standing!Statuses
  <2>2. page.status # "active" BY <1>0, <1>5 DEF decision, Standing!Decision
  <2>3. Standing!WritePage(p) /\ UNCHANGED Standing!lapse BY <1>0, <1>5 DEF Standing!Apply
  <2> HIDE DEF p
  <2>4. /\ page' \in Pages /\ StandingWritten' /\ page'.exists = page.exists
        /\ page'.paused = page.paused
    BY <2>1, <2>2, <2>3, StandingWrites DEF StandingWritten
  <2> QED BY <1>0, <2>3, <2>4 DEF Standing!lapse
<1> QED BY <1>0, <1>1, <1>2, <1>3, <1>4, <1>5 DEF Standing!Apply

\* Everything else that happens leaves the Page alone or reconciles it.
LEMMA StandingSurroundings ==
  ASSUME Standing!StandingAssumption, StandingInv,
         \/ Standing!Project \/ Standing!DeleteAccount \/ Standing!HandleCapabilityChange
              \/ Standing!TriggerFails
         \/ Standing!SweepReads \/ Standing!SweepReconciles \/ Standing!ChangeGrant
              \/ Standing!GrantExpires \/ Standing!DaysPass \/ Standing!Brake
         \/ \E v \in BOOLEAN : Standing!SetCreatorAudience(v)
  PROVE  StandingInv'
<1> USE DEF StandingInv
<1>0. MaxLapses \in Nat /\ MaxGrants \in Nat BY DEF Standing!StandingAssumption
<1>1. ASSUME Standing!ReconcilePage, UNCHANGED Standing!owner, UNCHANGED lapseEnabled,
             trigger' \in BOOLEAN, swept' \in BOOLEAN, chosen' \in Standing!Decisions
      PROVE  StandingInv'
  <2>1. /\ page' \in Pages /\ StandingWritten' /\ page'.exists = page.exists
        /\ page'.paused = page.paused /\ age' \in 0..2 /\ lapses' \in 0..MaxLapses
        /\ told' \subseteq {"readOnly", "hidingSoon"} \X (1..MaxLapses)
        /\ missed' \subseteq 0..MaxLapses
    BY <1>1, StandingReconciles
  <2>2. StandingTyped' BY <1>1, <2>1 DEF StandingTyped, Standing!owner
  <2>3. Standing!PrivacyHolds'
       BY <1>1, <2>1 DEF Standing!PrivacyHolds, Standing!Exists, Standing!owner
  <2> QED BY <2>1, <2>2, <2>3
<1>2. CASE Standing!HandleCapabilityChange
  <2>1. trigger' \in BOOLEAN /\ swept' \in BOOLEAN /\ chosen' \in Standing!Decisions
    BY <1>2 DEF Standing!HandleCapabilityChange, StandingTyped
  <2> QED BY <1>1, <1>2, <2>1 DEF Standing!HandleCapabilityChange
<1>3. CASE Standing!SweepReconciles
  <2>1. trigger' \in BOOLEAN /\ swept' \in BOOLEAN /\ chosen' \in Standing!Decisions
    BY <1>3 DEF Standing!SweepReconciles, StandingTyped, Standing!Decisions
  <2> QED BY <1>1, <1>3, <2>1 DEF Standing!SweepReconciles
<1>4. ASSUME UNCHANGED <<page, index>>, Standing!PrivacyHolds', StandingTyped' PROVE StandingInv'
  BY <1>4 DEF StandingWritten, Standing!Entry, Standing!Listed
<1>5. ASSUME UNCHANGED <<page, public, audience>> PROVE Standing!PrivacyHolds'
  BY <1>5 DEF Standing!PrivacyHolds, Standing!Exists
<1>6. CASE Standing!Project
  BY <1>4, <1>5, <1>6 DEF Standing!Project, StandingTyped, Standing!lapse, Standing!clockwork
<1>7. CASE Standing!DeleteAccount
  BY <1>4, <1>5, <1>7
     DEF Standing!DeleteAccount, StandingTyped, Standing!lapse, Standing!clockwork
<1>8. CASE Standing!TriggerFails
  BY <1>4, <1>5, <1>8 DEF Standing!TriggerFails, StandingTyped, Standing!lapse, Standing!owner
<1>9. CASE Standing!SweepReads
  <2>1. chosen' \in Standing!Decisions
       BY <1>9 DEF Standing!SweepReads, Standing!Decision, Standing!Decisions
  <2>2. swept' \in BOOLEAN BY <1>9 DEF Standing!SweepReads, StandingTyped
  <2>3. StandingTyped' BY <1>9, <2>1, <2>2 DEF Standing!SweepReads, StandingTyped, Standing!lapse,
            Standing!owner
  <2> QED BY <1>4, <1>5, <1>9, <2>3 DEF Standing!SweepReads, Standing!owner
<1>10. CASE Standing!ChangeGrant
  <2>1. grants' \in 0..MaxGrants BY <1>0, <1>10 DEF Standing!ChangeGrant, StandingTyped
  <2>2. granted' \in BOOLEAN /\ trigger' \in BOOLEAN BY <1>10 DEF Standing!ChangeGrant
  <2>3. StandingTyped' BY <1>10, <2>1, <2>2 DEF Standing!ChangeGrant, StandingTyped,
            Standing!lapse
  <2> QED BY <1>4, <1>5, <1>10, <2>3 DEF Standing!ChangeGrant
<1>11. CASE Standing!GrantExpires
  <2>1. grants' \in 0..MaxGrants BY <1>0, <1>11 DEF Standing!GrantExpires, StandingTyped
  <2>2. StandingTyped' BY <1>11, <2>1 DEF Standing!GrantExpires, StandingTyped, Standing!lapse,
            Standing!clockwork
  <2> QED BY <1>4, <1>5, <1>11, <2>2 DEF Standing!GrantExpires
<1>12. CASE Standing!DaysPass
  <2>1. age' \in 0..2 BY <1>12 DEF Standing!DaysPass, StandingTyped
  <2>3. missed' \subseteq 0..MaxLapses BY <1>12 DEF Standing!DaysPass, StandingTyped, Pages
  <2>2. StandingTyped' BY <1>12, <2>1, <2>3 DEF Standing!DaysPass, StandingTyped, Standing!owner
  <2> QED BY <1>4, <1>5, <1>12, <2>2 DEF Standing!DaysPass, Standing!owner
<1>13. CASE Standing!Brake
  BY <1>4, <1>5, <1>13 DEF Standing!Brake, StandingTyped, Standing!lapse, Standing!owner
<1>14. CASE \E v \in BOOLEAN : Standing!SetCreatorAudience(v)
  <2>1. UNCHANGED <<page, index, public>> /\ audience' \in BOOLEAN
            /\ (audience' => ~Standing!Exists \/ audience)
    BY <1>14 DEF Standing!SetCreatorAudience
  <2>2. StandingTyped' BY <1>14, <2>1 DEF Standing!SetCreatorAudience, StandingTyped,
            Standing!lapse, Standing!clockwork
  <2>3. Standing!PrivacyHolds' BY <2>1 DEF Standing!PrivacyHolds, Standing!Exists
  <2> QED BY <1>4, <2>1, <2>2, <2>3
<1> QED
  BY <1>2, <1>3, <1>6, <1>7, <1>8, <1>9, <1>10, <1>11, <1>12, <1>13, <1>14

\* Every step keeps the strengthening.
LEMMA StandingStep == ASSUME Standing!StandingAssumption, StandingInv,
     [Standing!Next]_Standing!vars PROVE StandingInv'
<1>1. CASE UNCHANGED Standing!vars
  <2>1. StandingTyped' BY <1>1 DEF StandingInv, StandingTyped, Standing!vars, Standing!owner,
            Standing!lapse, Standing!clockwork
  <2>2. StandingWritten'
       BY <1>1 DEF StandingInv, StandingWritten, Standing!Entry, Standing!Listed, Standing!vars
  <2>3. Standing!PrivacyHolds' BY <1>1 DEF StandingInv, Standing!PrivacyHolds, Standing!Exists,
            Standing!vars, Standing!owner
  <2> QED BY <2>1, <2>2, <2>3 DEF StandingInv
<1>2. CASE Standing!Next
  BY <1>2, StandingOwner, StandingSurroundings DEF Standing!Next
<1> QED BY <1>1, <1>2

\* The strengthening is an invariant of the Page, its owner, the trigger and the sweep.
LEMMA StandingInvariant == ASSUME Standing!StandingAssumption PROVE Standing!Spec => []StandingInv
<1>1. Standing!Init => StandingInv BY StandingInit
<1>2. StandingInv /\ [Standing!Next]_Standing!vars => StandingInv' BY StandingStep
<1> QED BY <1>1, <1>2, PTL DEF Standing!Spec

\* The entry of the index, which is written with the Page, says what the Page shows.
LEMMA StandingAgrees == ASSUME Standing!StandingAssumption, StandingInv PROVE Standing!IndexAgrees
<1>1. page \in Pages /\ index = Standing!Entry(page) /\ MaxLapses \in Nat
  BY DEF StandingInv, StandingTyped, StandingWritten, Standing!StandingAssumption
<1>2. page.lapse \in Nat /\ page.status \in Standing!Statuses BY <1>1 DEF Pages
<1>3. /\ page.exists => page.listed = Standing!Listed(page)
      /\ page.status # "active" => page.lapse # 0
  BY DEF StandingInv, StandingWritten
<1>4. index.notViewable = Standing!None /\ index.since = 0
        <=> page.status = "active" /\ ~page.paused /\ ~page.suspended
  BY <1>1, <1>2, <1>3 DEF Standing!Entry, Standing!None, Standing!Statuses
<1> QED BY <1>1, <1>3, <1>4 DEF Standing!IndexAgrees, Standing!Exists, Standing!Listed

(* The visibility index agrees with the Page, and no Page is up while its owner's profile
   is private or has a Creator audience, for any names and any number of lapses and grants,
   whatever the order in which the owner's calls, the trigger and the sweep, which decides
   before it commits, come to it. *)
THEOREM PagesShowTheirStanding ==
  ASSUME Standing!StandingAssumption
  PROVE  Standing!Spec => [](Standing!TypeOK /\ Standing!IndexAgrees /\ Standing!PrivacyHolds)
<1>1. StandingInv => Standing!TypeOK /\ Standing!IndexAgrees /\ Standing!PrivacyHolds
  <2>1. StandingInv => Standing!TypeOK BY DEF StandingInv, StandingTyped, Standing!TypeOK, Pages
  <2> QED BY <2>1, StandingAgrees DEF StandingInv
<1> QED BY <1>1, StandingInvariant, PTL

\* Only a reconciliation takes a Page down, and it asks at that instant.
LEMMA StandingLapseStep ==
  ASSUME Standing!StandingAssumption, StandingInv, [Standing!Next]_Standing!vars
  PROVE Standing!LapseIsLive
<1>0. page \in Pages BY DEF StandingInv, StandingTyped
<1> SUFFICES ASSUME Standing!Exists, page'.exists, page'.status # page.status,
        page'.status # "active"
             PROVE  ~Standing!Capable /\ lapseEnabled
  BY DEF Standing!LapseIsLive
<1>1. ASSUME Standing!ReconcilePage PROVE ~Standing!Capable /\ lapseEnabled
  <2>1. CASE Standing!Decision(page, Standing!Capable, lapseEnabled) = "restore"
    <3>1. Standing!WritePage(Standing!Restored(page))
         BY <1>1, <2>1 DEF Standing!ReconcilePage, Standing!Apply
    <3>2. page'.status = "active"
      BY <1>0, <3>1, StandingRestored, StandingWrites
    <3> QED BY <3>2
  <2>2. CASE Standing!Decision(page, Standing!Capable, lapseEnabled) \in {"none", "warn"}
    BY <1>1, <2>2 DEF Standing!ReconcilePage, Standing!Apply
  <2>3. CASE Standing!Decision(page, Standing!Capable, lapseEnabled) \in {"readOnly", "hidden"}
    BY <2>3 DEF Standing!Decision
  <2> QED BY <1>1, <2>1, <2>2, <2>3 DEF Standing!ReconcilePage, Standing!Apply
<1>2. ASSUME NEW p \in Pages, Standing!WritePage(p), p.status \in {"active", page.status}
PROVE FALSE
  BY <1>2 DEF Standing!WritePage, Standing!WithListed, Pages
<1>3. ASSUME NEW p \in Pages, Standing!OwnerWrite(p) PROVE FALSE
  BY <1>2, <1>3, StandingRestored DEF Standing!OwnerWrite
<1>4. [page EXCEPT !.paused = FALSE] \in Pages BY <1>0 DEF Pages
<1>5. ASSUME UNCHANGED page PROVE FALSE BY <1>5
<1>6. ~Standing!Update /\ ~Standing!Resume
     BY <1>0, <1>3, <1>4 DEF Standing!Update, Standing!Resume
<1>7. ~Standing!Create /\ ~Standing!RemovePage
     BY DEF Standing!Create, Standing!RemovePage, Standing!Blank
<1>8. ~Standing!Pause /\ ~Standing!Suspend /\ ~Standing!Lift
  BY <1>0
     DEF Standing!Pause, Standing!Suspend, Standing!Lift, Standing!WritePage,
         Standing!WithListed, Pages
<1>9. ASSUME NEW v \in BOOLEAN PROVE ~Standing!SetMyProfileVisibility(v)
  BY <1>0 DEF Standing!SetMyProfileVisibility, Standing!WritePage, Standing!WithListed, Pages
<1>10. ASSUME NEW n \in Names PROVE ~Standing!UpdateMyDisplayName(n)
  BY <1>0 DEF Standing!UpdateMyDisplayName, Pages
<1>11. \/ Standing!HandleCapabilityChange \/ Standing!SweepReconciles \/ UNCHANGED page
       \/ \E v \in BOOLEAN : Standing!SetMyProfileVisibility(v)
       \/ \E n \in Names : Standing!UpdateMyDisplayName(n)
  BY <1>6, <1>7, <1>8
     DEF Standing!Next, Standing!SetCreatorAudience, Standing!Project, Standing!DeleteAccount,
         Standing!TriggerFails, Standing!SweepReads, Standing!ChangeGrant,
         Standing!GrantExpires, Standing!DaysPass, Standing!Brake, Standing!vars
<1> QED BY <1>1, <1>5, <1>9, <1>10, <1>11 DEF Standing!HandleCapabilityChange,
        Standing!SweepReconciles

(* No step takes a Page down from an owner who is entitled when it commits, nor while the
   brake is engaged, however old the reads are that the sweep decided from. *)
THEOREM LapsesAreLive == ASSUME Standing!StandingAssumption
PROVE Standing!Spec => [][Standing!LapseIsLive]_Standing!vars
<1>1. StandingInv /\ [Standing!Next]_Standing!vars => Standing!LapseIsLive BY StandingLapseStep
<1> QED BY <1>1, StandingInvariant, PTL DEF Standing!Spec

\* A sweep that judges a Page in its last week warns before one may hide it.
LEMMA StandingWarnedStep ==
  ASSUME Standing!StandingAssumption, StandingInv, StandingWarned,
       [Standing!Next]_Standing!vars
  PROVE  StandingWarned'
<1> USE DEF StandingWarned, Standing!HiddenWasWarned, Warned, Standing!Exists
<1>0. /\ page \in Pages /\ lapseEnabled \in BOOLEAN /\ swept \in BOOLEAN
      /\ lapses \in Nat /\ age \in 0..2
  BY DEF StandingInv, StandingTyped, Standing!StandingAssumption
<1>1. ASSUME page'.exists => page'.status = "active" PROVE StandingWarned'
  BY <1>1
<1>2. ASSUME UNCHANGED <<told, age, missed>>, page'.exists => page.exists,
             page'.status = page.status, page'.lapse = page.lapse, swept' => swept
      PROVE  StandingWarned'
  BY <1>2
<1>3. ASSUME NEW p \in Pages, Standing!WritePage(p), page.exists, UNCHANGED <<Standing!lapse,
                                                                              Standing!clockwork>>,
             (p.status = page.status /\ p.lapse = page.lapse)
               \/ p.status = "active"
      PROVE  StandingWarned'
  <2>1. page'.status = p.status /\ page'.lapse = p.lapse
    BY <1>3 DEF Standing!WritePage, Standing!WithListed, Pages
  <2> QED BY <1>0, <1>1, <1>2, <1>3, <2>1 DEF Standing!lapse, Standing!clockwork
<1>4. ASSUME NEW p \in Pages, Standing!OwnerWrite(p) PROVE StandingWarned'
  BY <1>3, <1>4, StandingRestored DEF Standing!OwnerWrite
<1>5. [page EXCEPT !.paused = FALSE] \in Pages BY <1>0 DEF Pages
<1>6. CASE Standing!Update \/ Standing!Resume
     BY <1>0, <1>4, <1>5, <1>6 DEF Standing!Update, Standing!Resume
<1>7. ASSUME NEW p \in Pages, page.exists, Standing!WritePage(p), UNCHANGED <<Standing!lapse,
                                                                              Standing!clockwork>>,
             \/ p = [page EXCEPT !.paused = TRUE]
             \/ \E b \in BOOLEAN : p = [page EXCEPT !.suspended = b]
      PROVE  StandingWarned'
  <2>1. p.status = page.status /\ p.lapse = page.lapse BY <1>0, <1>7 DEF Pages
  <2> QED BY <1>3, <1>7, <2>1
<1>8. /\ [page EXCEPT !.paused = TRUE] \in Pages
      /\ \A b \in BOOLEAN : [page EXCEPT !.suspended = b] \in Pages
  BY <1>0 DEF Pages
<1>9. CASE Standing!Pause \/ Standing!Suspend \/ Standing!Lift
  BY <1>7, <1>8, <1>9 DEF Standing!Pause, Standing!Suspend, Standing!Lift
<1>10. CASE Standing!Create
  <2>1. Standing!NewPage.status = "active" BY DEF Standing!NewPage, Standing!Blank
  <2>2. page'.status = "active"
       BY <1>10, <2>1 DEF Standing!Create, Standing!WithListed, Standing!NewPage, Standing!Blank
  <2> QED BY <1>0, <1>1, <1>10, <2>2 DEF Standing!Create, Standing!clockwork
<1>11. CASE Standing!RemovePage
  BY <1>0, <1>1, <1>11 DEF Standing!RemovePage, Standing!Blank, Standing!clockwork
<1>12. ASSUME NEW v \in BOOLEAN, Standing!SetMyProfileVisibility(v) PROVE StandingWarned'
  <2>1. CASE ~v /\ Standing!Exists /\ ~page.paused
    BY <1>7, <1>8, <1>12, <2>1 DEF Standing!SetMyProfileVisibility
  <2>2. CASE ~(~v /\ Standing!Exists /\ ~page.paused)
    BY <1>0, <1>2, <1>12, <2>2
       DEF Standing!SetMyProfileVisibility, Standing!lapse, Standing!clockwork
  <2> QED BY <2>1, <2>2
<1>13. ASSUME NEW n \in Names, Standing!UpdateMyDisplayName(n) PROVE StandingWarned'
  <2>1. /\ page'.exists = page.exists /\ page'.status = page.status
        /\ page'.lapse = page.lapse
    BY <1>0, <1>13 DEF Standing!UpdateMyDisplayName, Pages
  <2> QED BY <1>0, <1>2, <1>13, <2>1 DEF Standing!UpdateMyDisplayName, Standing!lapse,
          Standing!clockwork
<1>14. CASE \/ Standing!Project \/ Standing!DeleteAccount \/ Standing!TriggerFails
           \/ Standing!ChangeGrant \/ Standing!GrantExpires
            \/ \E v \in BOOLEAN : Standing!SetCreatorAudience(v)
  <2>1. UNCHANGED <<page, Standing!lapse, swept>>
    BY <1>14
       DEF Standing!Project, Standing!DeleteAccount, Standing!TriggerFails,
           Standing!ChangeGrant, Standing!GrantExpires, Standing!SetCreatorAudience,
           Standing!clockwork
  <2> QED BY <1>0, <1>2, <2>1 DEF Standing!lapse
<1>15. CASE Standing!Brake BY <1>0, <1>2, <1>15 DEF Standing!Brake, Standing!lapse
<1>16. CASE UNCHANGED Standing!vars
     BY <1>0, <1>2, <1>16 DEF Standing!vars, Standing!lapse, Standing!clockwork
<1>17. CASE Standing!DaysPass
  <2>1. /\ swept' = FALSE /\ age' = age + 1 /\ age < 2 /\ page.status = "readOnly"
        /\ page.exists /\ UNCHANGED <<page, told>>
        /\ missed' = missed \cup {l \in {page.lapse} : age = 1 /\ ~swept}
    BY <1>17 DEF Standing!DaysPass
  <2>2. age' = 2 => age = 1 BY <1>0, <2>1
  <2>3. ASSUME age' = 2 PROVE Warned \/ page.lapse \in missed'
    <3>1. CASE swept BY <2>1, <2>2, <2>3, <3>1
    <3>2. CASE ~swept
      <4>1. page.lapse \in {l \in {page.lapse} : age = 1 /\ ~swept} BY <2>2, <2>3, <3>2
      <4> QED BY <2>1, <4>1
    <3> QED BY <3>1, <3>2
  <2>4. (page.exists /\ page.status = "readOnly" /\ age = 2
           => Warned \/ page.lapse \in missed)'
    BY <2>1, <2>3
  <2> QED BY <2>1, <2>4
<1>18. Standing!Decision(page, Standing!Capable, lapseEnabled) = "none" /\ lapseEnabled
           /\ page.exists /\ page.status = "readOnly"
         /\ age = 1 => Warned
  BY DEF Standing!Decision
<1>19. CASE Standing!SweepReads
  <2> DEFINE none == Standing!Decision(page, Standing!Capable, lapseEnabled) = "none"
  <2>1. /\ UNCHANGED <<page, told, age, missed>>
        /\ swept' => swept \/ (none /\ lapseEnabled)
    BY <1>19 DEF Standing!SweepReads, Standing!lapse, Standing!owner
  <2>2. page.exists /\ page.status = "readOnly" /\ age = 1 /\ swept' => Warned
    BY <1>18, <2>1
  <2>3. (page.exists /\ page.status = "readOnly" /\ age = 1 /\ swept => Warned)'
    BY <2>1, <2>2
  <2> QED BY <2>1, <2>3
<1>20. ASSUME Standing!ReconcilePage,
              swept' => (swept \/ lapseEnabled) /\ lapses' = lapses
       PROVE  StandingWarned'
  <2> DEFINE decision == Standing!Decision(page, Standing!Capable, lapseEnabled)
  <2>0. Standing!Apply(decision) BY <1>20 DEF Standing!ReconcilePage
  <2>1. CASE decision = "none"
    <3>1. UNCHANGED <<page, told, age, missed>>
      BY <2>0, <2>1 DEF Standing!Apply, Standing!lapse
    <3>2. page.exists /\ page.status = "readOnly" /\ age = 1 /\ swept' => Warned
      BY <1>18, <1>20, <2>1
    <3>3. (page.exists /\ page.status = "readOnly" /\ age = 1 /\ swept => Warned)'
      BY <3>1, <3>2
    <3> QED BY <3>1, <3>3
  <2>2. CASE decision = "warn"
    <3>1. UNCHANGED <<page, age, missed>> /\ <<"hidingSoon", page.lapse>> \in told'
      BY <2>0, <2>2 DEF Standing!Apply
    <3> QED BY <1>0, <1>20, <3>1
  <2>3. CASE decision = "restore"
    <3>1. Standing!WritePage(Standing!Restored(page)) BY <2>0, <2>3 DEF Standing!Apply
    <3>2. page'.status = "active" BY <1>0, <3>1, StandingRestored, StandingWrites
    <3> QED BY <1>0, <1>1, <1>20, <3>2
  <2>4. CASE decision = "readOnly"
    <3>1. lapses' = lapses + 1 /\ age' = 0 BY <2>0, <2>4 DEF Standing!Apply
    <3>2. Standing!WritePage(Stands(page, "readOnly", lapses + 1))
         BY <2>0, <2>4 DEF Standing!Apply, Stands
    <3>3. page'.status = "readOnly"
      BY <1>0, <3>2 DEF Standing!WritePage, Standing!WithListed, Stands, Pages
    <3> QED BY <3>1, <3>3
  <2>5. CASE decision = "hidden"
    <3>1. page.exists /\ page.status = "readOnly" /\ age = 2
      <4>1. page.status \in Standing!Statuses BY <1>0 DEF Pages
      <4> QED BY <2>5, <4>1 DEF Standing!Decision, Standing!Statuses
    <3>2. /\ UNCHANGED <<told, missed>> /\ page'.lapse = page.lapse
          /\ page'.status = "hidden"
      BY <1>0, <2>0, <2>5
         DEF Standing!Apply, Standing!WritePage, Standing!WithListed, Pages, Standing!lapse
    <3>4. Warned \/ page.lapse \in missed BY <3>1
    <3>5. Standing!HiddenWasWarned' BY <3>2, <3>4
    <3> QED BY <3>2, <3>5
  <2> QED BY <2>0, <2>1, <2>2, <2>3, <2>4, <2>5 DEF Standing!Apply
<1>21. CASE Standing!HandleCapabilityChange \/ Standing!SweepReconciles
  BY <1>20, <1>21 DEF Standing!HandleCapabilityChange, Standing!SweepReconciles
<1> QED
  BY <1>6, <1>9, <1>10, <1>11, <1>12, <1>13, <1>14, <1>15, <1>16, <1>17, <1>19, <1>21
     DEF Standing!Next

(* A Page is never hidden before its owner was sent the notice about that very lapse, unless
   no sweep judged it in the last seven of the thirty days, because it was late or because
   the brake was engaged whenever it came: for any names, lapses and grants, and whatever
   the owner, the moderators and the trigger do in between. *)
THEOREM OwnersAreWarned ==
  ASSUME Standing!StandingAssumption
  PROVE  Standing!Spec => []Standing!HiddenWasWarned
<1>1. Standing!Init => StandingWarned
  BY DEF Standing!Init, StandingWarned, Standing!HiddenWasWarned, Standing!Exists, Standing!Blank
<1>2. StandingInv /\ StandingWarned /\ [Standing!Next]_Standing!vars => StandingWarned'
     BY StandingWarnedStep
<1>3. StandingWarned => Standing!HiddenWasWarned BY DEF StandingWarned
<1> QED BY <1>1, <1>2, <1>3, StandingInvariant, PTL DEF Standing!Spec

------------------------
(***************************************************************************)
(* A direct conversation (DirectMessages), for any number of messages and  *)
(* edits.  The properties relate three cursors, two of which another one   *)
(* overtakes: what is inductive is where each stands in the thread         *)
(* (ThreadCursors), that what was read in secret lies behind the private   *)
(* cursor (ThreadSecret), and that a badge counts messages the peer sent   *)
(* after the cut-off (ThreadBadge).                                        *)
(***************************************************************************)
CONSTANTS Users, Premium, Kinds, readPageSize, MaxMessages, MaxEdits, Operations
VARIABLES conv, msg, priv, hides, entitled, blocked, secret
Thread == INSTANCE DirectMessages

Words == {"text", "gif", "media", "none"}
Contents == Words \X Nat
Messages == [from : Users, kind : Words, content : Contents, readBy : SUBSET Users,
             reactions : SUBSET Users, isDeleted : BOOLEAN, canonical : BOOLEAN]
Previews == {"none", "deleted"} \cup Contents
Conversations == [exists : BOOLEAN, preview : Previews, unreadCounts : [Users -> Nat],
                  readSequences : [Users -> Nat], deletedSequences : [Users -> Nat],
                  deletedBy : SUBSET Users, archivedBy : SUBSET Users]
Cursors == [on : BOOLEAN, processed : Nat, hidden : Nat, unread : Nat]

ThreadTyped ==
  /\ conv \in Conversations /\ msg \in Seq(Messages) /\ priv \in [Users -> Cursors]
  /\ hides \in [Users -> BOOLEAN] /\ entitled \in [Users -> BOOLEAN] /\ blocked \in BOOLEAN
  /\ secret \in [Users -> SUBSET Nat]

\* The messages u has been sent since its cut-off.
Shown(u) == {i \in conv.deletedSequences[u] + 1 .. Len(msg) : msg[i].from # u}

\* The cursors of a participant stand inside the thread; what it has read in secret lies
\* behind the cursor that pages start from, and what its badge counts ahead of it.
ThreadCursors(u) ==
  /\ conv.readSequences[u] <= Len(msg) /\ conv.deletedSequences[u] <= Len(msg)
  /\ priv[u].hidden <= priv[u].processed /\ priv[u].processed <= Len(msg)
  /\ priv[u].on => conv.readSequences[u] <= priv[u].processed
ThreadSecret(u) ==
  \A i \in secret[u] :
    priv[u].on /\ 1 <= i /\ i <= priv[u].processed /\ u \notin msg[i].readBy
ThreadBadge(u) ==
  /\ Thread!Badge(u) > 0 => Thread!currentSequence(u) < Len(msg)
  /\ Thread!Badge(u) <= Cardinality(Shown(u))
ThreadRevived(u) ==
  u \in conv.deletedBy \/ conv.deletedSequences[u] = 0 \/ conv.deletedSequences[u] < Len(msg)
ThreadUser(u) == ThreadCursors(u) /\ ThreadSecret(u) /\ ThreadBadge(u) /\ ThreadRevived(u)

ThreadInv ==
  /\ ThreadTyped /\ Thread!PreviewIsLast
  /\ \A i \in 1..Len(msg) : msg[i].from \in msg[i].readBy
  /\ \A u \in Users : ThreadUser(u)

\* An edit leaves a content.
LEMMA ThreadContent ==
  ASSUME NEW c \in Contents PROVE [c EXCEPT ![2] = @ + 1] \in Contents
<1>1. c = <<c[1], c[2]>> /\ c[1] \in Words /\ c[2] \in Nat BY DEF Contents
<1>2. [c EXCEPT ![2] = @ + 1] = <<c[1], c[2] + 1>> BY <1>1
<1> QED BY <1>1, <1>2 DEF Contents

\* A sequence of messages with one of them changed.
LEMMA ThreadPut ==
  ASSUME NEW s \in Seq(Messages), NEW i \in 1..Len(s), NEW m \in Messages
  PROVE  /\ [s EXCEPT ![i] = m] \in Seq(Messages)
         /\ Len([s EXCEPT ![i] = m]) = Len(s)
         /\ \A j \in 1..Len(s) : [s EXCEPT ![i] = m][j] = IF j = i THEN m ELSE s[j]
OBVIOUS

\* The thread is empty.
LEMMA ThreadInit == ASSUME Thread!MessagesAssumption, Thread!Init PROVE ThreadInv
<1>1. conv \in Conversations BY DEF Thread!Init, Conversations, Previews
<1>2. priv \in [Users -> Cursors] BY DEF Thread!Init, Cursors
<1>3. msg \in Seq(Messages) /\ Len(msg) = 0 BY DEF Thread!Init
<1>4. hides \in [Users -> BOOLEAN] /\ entitled \in [Users -> BOOLEAN] /\ blocked \in BOOLEAN
        /\ secret \in [Users -> SUBSET Nat]
  <2>1. entitled \in [Users -> BOOLEAN]
    <3>1. \A u \in Users : (u \in Premium) \in BOOLEAN OBVIOUS
    <3> QED BY <3>1 DEF Thread!Init
  <2> QED BY <2>1 DEF Thread!Init
<1>5. ASSUME NEW u \in Users PROVE ThreadUser(u)
  <2>1. /\ conv.readSequences[u] = 0 /\ conv.deletedSequences[u] = 0
        /\ conv.unreadCounts[u] = 0 /\ secret[u] = {}
        /\ priv[u] = [on |-> FALSE, processed |-> 0, hidden |-> 0, unread |-> 0]
    BY DEF Thread!Init
  <2>2. Shown(u) = {} BY <1>3, <2>1 DEF Shown
  <2>3. Thread!Badge(u) <= Cardinality(Shown(u)) BY <2>1, <2>2, FS_EmptySet DEF Thread!Badge
  <2> QED BY <1>3, <2>1, <2>3 DEF ThreadUser, ThreadCursors, ThreadSecret, ThreadBadge,
          ThreadRevived, Thread!Badge
<1> QED BY <1>1, <1>2, <1>3, <1>4, <1>5 DEF ThreadInv, ThreadTyped, Thread!PreviewIsLast,
        Thread!last

\* One message is changed in what nobody's cursor or badge depends on.
LEMMA ThreadChange ==
  ASSUME ThreadInv, NEW i \in 1..Len(msg), NEW m \in Messages, NEW p \in Previews,
         msg' = [msg EXCEPT ![i] = m], m.from = msg[i].from, m.readBy = msg[i].readBy,
         conv' = [conv EXCEPT !.preview = p],
         i = Len(msg) /\ m.canonical => p = Thread!PreviewOf(m),
         i # Len(msg) => p = conv.preview,
         UNCHANGED <<priv, hides, entitled, blocked, secret>>
  PROVE  ThreadInv'
<1>1. /\ msg' \in Seq(Messages) /\ Len(msg') = Len(msg) /\ Len(msg) \in Nat
      /\ \A j \in 1..Len(msg) : msg'[j] = IF j = i THEN m ELSE msg[j]
  BY ThreadPut DEF ThreadInv, ThreadTyped
<1>2. /\ conv' \in Conversations /\ conv'.preview = p
      /\ conv'.readSequences = conv.readSequences
      /\ conv'.deletedSequences = conv.deletedSequences
      /\ conv'.unreadCounts = conv.unreadCounts /\ conv'.deletedBy = conv.deletedBy
  BY DEF ThreadInv, ThreadTyped, Conversations
<1>3. ThreadTyped' BY <1>1, <1>2 DEF ThreadInv, ThreadTyped
<1>4. \A j \in 1..Len(msg) : msg'[j].from = msg[j].from /\ msg'[j].readBy = msg[j].readBy
  BY <1>1
<1>5. ASSUME NEW u \in Users PROVE ThreadUser(u)'
  <2>1. conv.deletedSequences[u] \in Nat BY DEF ThreadInv, ThreadTyped, Conversations
  <2>2. Shown(u)' = Shown(u)
    <3>1. \A j \in conv.deletedSequences[u] + 1 .. Len(msg) : j \in 1..Len(msg)
      BY <1>1, <2>1
    <3> QED BY <1>1, <1>2, <1>4, <3>1 DEF Shown
  <2>3. Thread!Badge(u)' = Thread!Badge(u)
            /\ Thread!currentSequence(u)' = Thread!currentSequence(u)
    BY <1>2 DEF Thread!Badge, Thread!currentSequence
  <2>4. ThreadUser(u) BY DEF ThreadInv
  <2>5. \A j \in secret[u] : j \in 1..Len(msg)
    <3>1. priv[u].processed \in Nat /\ secret[u] \subseteq Nat
      BY DEF ThreadInv, ThreadTyped, Cursors
    <3> QED BY <1>1, <2>4, <3>1 DEF ThreadUser, ThreadCursors, ThreadSecret, ThreadBadge,
            ThreadRevived
  <2> QED BY <1>1, <1>2, <1>4, <2>2, <2>3, <2>4, <2>5 DEF ThreadUser, ThreadCursors, ThreadSecret,
          ThreadBadge, ThreadRevived
<1>6. Thread!PreviewIsLast'
  <2>1. CASE i = Len(msg)
    BY <1>1, <1>2, <2>1 DEF Thread!PreviewIsLast, Thread!last, Thread!validMessage
  <2>2. CASE i # Len(msg)
    <3>1. Len(msg) \in 1..Len(msg) /\ msg'[Len(msg)] = msg[Len(msg)] BY <1>1, <2>2
    <3> QED
      BY <1>1, <1>2, <2>2, <3>1
         DEF ThreadInv, Thread!PreviewIsLast, Thread!last, Thread!validMessage, Thread!PreviewOf
  <2> QED BY <2>1, <2>2
<1>7. (\A j \in 1..Len(msg) : msg[j].from \in msg[j].readBy)' BY <1>1, <1>4 DEF ThreadInv
<1> QED BY <1>3, <1>5, <1>6, <1>7 DEF ThreadInv

\* Sending, by text or by attachment.
LEMMA ThreadMessages ==
  ASSUME Thread!MessagesAssumption, ThreadInv
  PROVE  /\ Len(msg) \in Nat /\ Kinds \subseteq Words
         /\ \A i \in 1..Len(msg) : msg[i] \in Messages
         /\ \A u \in Users :
              /\ conv.readSequences[u] \in Nat /\ conv.deletedSequences[u] \in Nat
              /\ conv.unreadCounts[u] \in Nat /\ priv[u] \in Cursors
              /\ IsFiniteSet(Shown(u)) /\ Cardinality(Shown(u)) \in Nat
<1>1. Len(msg) \in Nat BY DEF ThreadInv, ThreadTyped
<1>2. Kinds \subseteq Words BY DEF Thread!MessagesAssumption, Words
<1>3. ASSUME NEW u \in Users
      PROVE  /\ conv.readSequences[u] \in Nat /\ conv.deletedSequences[u] \in Nat
             /\ conv.unreadCounts[u] \in Nat /\ priv[u] \in Cursors
  BY DEF ThreadInv, ThreadTyped, Conversations
<1>4. ASSUME NEW u \in Users PROVE IsFiniteSet(Shown(u)) /\ Cardinality(Shown(u)) \in Nat
  <2>1. Shown(u) \subseteq 1..Len(msg) BY <1>1, <1>3 DEF Shown
  <2>2. IsFiniteSet(1..Len(msg)) BY <1>1, FS_Interval
  <2>3. IsFiniteSet(Shown(u)) BY <2>1, <2>2, FS_Subset
  <2> QED BY <2>3, FS_CardinalityType
<1> QED BY <1>1, <1>2, <1>3, <1>4 DEF ThreadInv, ThreadTyped

\* What is sent is ahead of the other's cursor and counts in its badge.
LEMMA ThreadPublishes ==
  ASSUME Thread!MessagesAssumption, ThreadInv, NEW s \in Users, NEW kind \in Words, NEW reply,
         Thread!Publishes(s, kind, reply)
  PROVE  ThreadInv'
<1> DEFINE m == [from |-> s, kind |-> kind, content |-> <<kind, 0>>, readBy |-> {s},
                 reactions |-> {}, isDeleted |-> FALSE, canonical |-> TRUE]
<1>0. Len(msg) \in Nat /\ msg \in Seq(Messages) BY ThreadMessages DEF ThreadInv, ThreadTyped
<1>1. m \in Messages /\ m.content \in Contents BY DEF Messages, Contents
<1>2. msg' = Append(msg, m) BY DEF Thread!Publishes
<1>3. m.from = s /\ m.readBy = {s} /\ m.content = <<kind, 0>> /\ ~m.isDeleted OBVIOUS
<1> HIDE DEF m
<1>4. /\ msg' \in Seq(Messages) /\ Len(msg') = Len(msg) + 1
      /\ \A i \in 1..Len(msg) : msg'[i] = msg[i]
      /\ msg'[Len(msg) + 1] = m
  BY <1>0, <1>1, <1>2
<1>5. /\ conv' \in Conversations /\ conv'.preview = m.content /\ conv'.deletedBy = {}
      /\ conv'.readSequences = conv.readSequences
      /\ conv'.deletedSequences = conv.deletedSequences
      /\ \A u \in Users : conv'.unreadCounts[u] =
           IF u # s THEN conv.unreadCounts[u] + 1
           ELSE IF priv[u].on THEN conv.unreadCounts[u] ELSE 0
  <2> DEFINE c == [v \in Users |-> IF v # s THEN conv.unreadCounts[v] + 1
                                   ELSE IF priv[v].on THEN conv.unreadCounts[v] ELSE 0]
  <2>1. c \in [Users -> Nat]
    <3>1. \A v \in Users : conv.unreadCounts[v] \in Nat BY ThreadMessages
    <3> QED BY <3>1
  <2>2. conv' = [conv EXCEPT !.preview = msg'[Len(msg')].content,
                             !.archivedBy = {}, !.deletedBy = {}, !.unreadCounts = c]
    BY DEF Thread!Publishes, Thread!CountsAfterSend
  <2>3. msg'[Len(msg')].content = m.content BY <1>0, <1>4
  <2>4. m.content \in Previews BY <1>1 DEF Previews
  <2> HIDE DEF c
  <2>5. conv \in Conversations BY DEF ThreadInv, ThreadTyped
  <2>6. /\ conv' = [exists |-> conv.exists, preview |-> m.content, unreadCounts |-> c,
                    readSequences |-> conv.readSequences,
                    deletedSequences |-> conv.deletedSequences,
                    deletedBy |-> {}, archivedBy |-> {}]
    BY <2>2, <2>3, <2>5 DEF Conversations
  <2>7. /\ conv.exists \in BOOLEAN /\ conv.readSequences \in [Users -> Nat]
        /\ conv.deletedSequences \in [Users -> Nat]
    BY <2>5 DEF Conversations
  <2>8. conv' \in Conversations BY <2>1, <2>4, <2>6, <2>7 DEF Conversations
  <2> QED BY <2>6, <2>8 DEF c
<1>6. /\ priv' \in [Users -> Cursors]
      /\ \A u \in Users : /\ priv'[u].on = priv[u].on
                          /\ priv'[u].processed = priv[u].processed
                          /\ priv'[u].hidden = priv[u].hidden
                          /\ priv[u].on => priv'[u].unread = IF u = s THEN 0
                                                             ELSE priv[u].unread + 1
  <2>1. priv' = [v \in Users |-> IF ~priv[v].on THEN priv[v]
                    ELSE [priv[v] EXCEPT !.unread = IF v = s THEN 0 ELSE @ + 1]]
    BY DEF Thread!Publishes, Thread!CountsAfterSend
  <2>2. \A v \in Users : priv[v] \in Cursors BY ThreadMessages
  <2> QED BY <2>1, <2>2 DEF Cursors
<1>7. UNCHANGED <<hides, entitled, blocked, secret>> BY DEF Thread!Publishes
<1>8. ThreadTyped' BY <1>4, <1>5, <1>6, <1>7 DEF ThreadInv, ThreadTyped
<1>9. ASSUME NEW u \in Users PROVE ThreadUser(u)'
  <2>0. /\ ThreadUser(u) /\ conv.deletedSequences[u] \in Nat /\ conv.readSequences[u] \in Nat
        /\ conv.unreadCounts[u] \in Nat /\ priv[u] \in Cursors
    BY ThreadMessages DEF ThreadInv
  <2>1. Shown(u)' = IF u = s THEN Shown(u) ELSE Shown(u) \cup {Len(msg) + 1}
    <3>1. \A i \in conv.deletedSequences[u] + 1 .. Len(msg) : i \in 1..Len(msg)
      BY <1>0, <2>0
    <3>2. conv.deletedSequences[u] + 1 .. Len(msg) + 1 =
            (conv.deletedSequences[u] + 1 .. Len(msg)) \cup {Len(msg) + 1}
      BY <1>0, <2>0 DEF ThreadUser, ThreadCursors, ThreadSecret, ThreadBadge, ThreadRevived
    <3> QED BY <1>0, <1>3, <1>4, <1>5, <3>1, <3>2 DEF Shown
  <2>2. Len(msg) + 1 \notin Shown(u) BY <1>0 DEF Shown
  <2>3. /\ IsFiniteSet(Shown(u)) /\ Cardinality(Shown(u)) \in Nat BY ThreadMessages
  <2>4. Cardinality(Shown(u)') = IF u = s THEN Cardinality(Shown(u))
                                 ELSE Cardinality(Shown(u)) + 1
    BY <2>1, <2>2, <2>3, FS_AddElement
  <2>5. Thread!Badge(u)' = IF u = s THEN 0 ELSE Thread!Badge(u) + 1
    BY <1>5, <1>6 DEF Thread!Badge
  <2>6. Thread!currentSequence(u)' = Thread!currentSequence(u)
       BY <1>5, <1>6 DEF Thread!currentSequence
  <2>7. Thread!currentSequence(u) <= Len(msg) /\ Thread!currentSequence(u) \in Nat
    BY <2>0
       DEF ThreadUser, ThreadCursors, ThreadSecret, ThreadBadge, ThreadRevived,
           Thread!currentSequence, Cursors
  <2>8. \A i \in secret[u] : i \in 1..Len(msg) /\ msg'[i] = msg[i]
    <3>1. priv[u].processed \in Nat /\ secret[u] \subseteq Nat
      BY <2>0 DEF ThreadInv, ThreadTyped, Cursors
    <3> QED BY <1>0, <1>4, <2>0, <3>1 DEF ThreadUser, ThreadCursors, ThreadSecret, ThreadBadge,
            ThreadRevived
  <2>9. Thread!Badge(u) \in Nat BY <2>0 DEF Thread!Badge, Cursors
  <2>10. /\ conv'.readSequences[u] <= Len(msg') /\ conv'.deletedSequences[u] < Len(msg')
         /\ priv'[u].hidden <= priv'[u].processed /\ priv'[u].processed <= Len(msg')
         /\ priv'[u].on => conv'.readSequences[u] <= priv'[u].processed
         /\ conv'.deletedSequences[u] <= Len(msg')
    BY <1>0, <1>4, <1>5, <1>6, <2>0
       DEF ThreadUser, ThreadCursors, ThreadSecret, ThreadBadge, ThreadRevived, Cursors
  <2>11. /\ Thread!Badge(u)' > 0 => Thread!currentSequence(u)' < Len(msg')
         /\ Thread!Badge(u)' <= Cardinality(Shown(u)')
    BY <1>0, <1>4, <2>0, <2>3, <2>4, <2>5, <2>6, <2>7, <2>9
       DEF ThreadUser, ThreadCursors, ThreadSecret, ThreadBadge, ThreadRevived
  <2>12. \A i \in secret[u]' :
           priv'[u].on /\ 1 <= i /\ i <= priv'[u].processed /\ u \notin msg'[i].readBy
    BY <1>6, <1>7, <2>0, <2>8
       DEF ThreadUser, ThreadCursors, ThreadSecret, ThreadBadge, ThreadRevived
  <2>13. Cardinality(Shown(u))' = Cardinality(Shown(u)') OBVIOUS
  <2>14. conv'.deletedSequences[u] < Len(msg') BY <2>10
  <2>15. ThreadCursors(u)' BY <1>4, <1>5, <1>6, <2>10 DEF ThreadCursors
  <2>16. ThreadSecret(u)' BY <2>12 DEF ThreadSecret
  <2>17. ThreadBadge(u)' BY <2>11, <2>13 DEF ThreadBadge
  <2>18. ThreadRevived(u)' BY <2>14 DEF ThreadRevived
  <2> QED BY <2>15, <2>16, <2>17, <2>18 DEF ThreadUser
<1>10. Thread!PreviewIsLast'
  BY <1>0, <1>3, <1>4, <1>5 DEF Thread!PreviewIsLast, Thread!last, Thread!PreviewOf
<1>11. (\A i \in 1..Len(msg) : msg[i].from \in msg[i].readBy)'
  BY <1>0, <1>3, <1>4 DEF ThreadInv
<1> QED BY <1>8, <1>9, <1>10, <1>11 DEF ThreadInv

\* Edits, tombstones, staff removals and reactions.
LEMMA ThreadEdits ==
  ASSUME Thread!MessagesAssumption, ThreadInv,
         NEW i, Thread!adminDeleteMessage(i)
                \/ \E u \in Users : \/ Thread!editDirectMessage(u, i)
                     \/ Thread!deleteDirectMessage(u, i)
                                    \/ \E on \in BOOLEAN : Thread!setDirectMessageReaction(u, i,
                                                                                           on)
  PROVE  ThreadInv'
<1>0. /\ i \in 1..Len(msg) /\ Len(msg) \in Nat /\ msg \in Seq(Messages) /\ conv \in Conversations
  BY ThreadMessages
     DEF Thread!adminDeleteMessage, Thread!editDirectMessage, Thread!deleteDirectMessage,
         Thread!setDirectMessageReaction, Thread!MayChange, Thread!last, ThreadInv, ThreadTyped
<1>1. msg[i] \in Messages /\ msg[i].content \in Contents /\ conv.preview \in Previews
  BY <1>0, ThreadMessages DEF Messages, Conversations
<1>2. /\ conv = [conv EXCEPT !.preview = conv.preview] BY <1>0 DEF Conversations
<1>3. Thread!Tombstone(msg[i]) \in Messages
  <2>1. <<"none", 0>> \in Contents BY DEF Contents, Words
  <2> QED BY <1>1, <2>1 DEF Thread!Tombstone, Messages
<1>4. /\ Thread!Tombstone(msg[i]).from = msg[i].from
      /\ Thread!Tombstone(msg[i]).readBy = msg[i].readBy
      /\ Thread!PreviewOf(Thread!Tombstone(msg[i])) = "deleted" /\ "deleted" \in Previews
  BY <1>1 DEF Thread!Tombstone, Messages, Thread!PreviewOf, Previews
<1>5. ASSUME UNCHANGED <<priv, hides, entitled, blocked, secret>>,
             msg' = [msg EXCEPT ![i] = Thread!Tombstone(@)],
             conv' = IF i = Len(msg) THEN [conv EXCEPT !.preview = "deleted"] ELSE conv
      PROVE  ThreadInv'
  <2>1. msg' = [msg EXCEPT ![i] = Thread!Tombstone(msg[i])] BY <1>5
  <2>2. CASE i = Len(msg) BY <1>0, <1>3, <1>4, <1>5, <2>1, <2>2, ThreadChange
  <2>3. CASE i # Len(msg) BY <1>0, <1>1, <1>2, <1>3, <1>4, <1>5, <2>1, <2>3, ThreadChange
  <2> QED BY <2>2, <2>3
<1>6. ASSUME NEW u \in Users, Thread!editDirectMessage(u, i) PROVE ThreadInv'
  <2> DEFINE c == [msg[i].content EXCEPT ![2] = @ + 1]
             m == [msg[i] EXCEPT !.content = c]
  <2>1. c \in Contents BY <1>1, ThreadContent
  <2>2. msg' = [msg EXCEPT ![i] = m] BY <1>0, <1>6 DEF Thread!editDirectMessage
  <2> HIDE DEF c
  <2>3. m \in Messages /\ m.from = msg[i].from /\ m.readBy = msg[i].readBy /\ m.content = c
            /\ m.isDeleted = msg[i].isDeleted
    BY <1>1, <2>1 DEF Messages
  <2> HIDE DEF m
  <2>4. msg'[i] = m BY <1>0, <2>2
  <2>5. Thread!PreviewOf(m) = c BY <1>6, <2>3 DEF Thread!PreviewOf, Thread!editDirectMessage
  <2>6. UNCHANGED <<priv, hides, entitled, blocked, secret>> BY <1>6 DEF Thread!editDirectMessage
  <2>7. CASE i = Len(msg)
    <3>1. conv' = [conv EXCEPT !.preview = c]
      BY <1>6, <2>3, <2>4, <2>7 DEF Thread!editDirectMessage, Thread!last
    <3>2. c \in Previews BY <2>1 DEF Previews
    <3> QED BY <1>0, <2>2, <2>3, <2>5, <2>6, <2>7, <3>1, <3>2, ThreadChange
  <2>8. CASE i # Len(msg)
    <3>1. conv' = [conv EXCEPT !.preview = conv.preview]
      BY <1>2, <1>6, <2>8 DEF Thread!editDirectMessage, Thread!last
    <3> QED BY <1>0, <1>1, <2>2, <2>3, <2>6, <2>8, <3>1, ThreadChange
  <2> QED BY <2>7, <2>8
<1>7. ASSUME NEW u \in Users, Thread!deleteDirectMessage(u, i) PROVE ThreadInv'
  BY <1>5, <1>7 DEF Thread!deleteDirectMessage, Thread!last
<1>8. CASE Thread!adminDeleteMessage(i)
  <2>1. CASE msg[i].kind = "gif"
    BY <1>5, <1>8, <2>1 DEF Thread!adminDeleteMessage, Thread!last
  <2>2. CASE msg[i].kind # "gif"
    <3> DEFINE m == [msg[i] EXCEPT !.content = <<"none", 0>>, !.isDeleted = TRUE,
                                   !.canonical = FALSE]
    <3>1. <<"none", 0>> \in Contents BY DEF Contents, Words
    <3>2. m \in Messages BY <1>1, <3>1 DEF Messages
    <3>3. msg' = [msg EXCEPT ![i] = m]
      BY <1>0, <1>1, <1>8, <2>2 DEF Thread!adminDeleteMessage, Messages
    <3>4. m.from = msg[i].from /\ m.readBy = msg[i].readBy /\ ~m.canonical
      BY <1>1 DEF Messages
    <3> HIDE DEF m
    <3>5. UNCHANGED <<conv, priv, hides, entitled, blocked, secret>>
      BY <1>8, <2>2 DEF Thread!adminDeleteMessage
    <3> QED BY <1>0, <1>1, <1>2, <3>2, <3>3, <3>4, <3>5, ThreadChange
  <2> QED BY <2>1, <2>2
<1>9. ASSUME NEW u \in Users, NEW on \in BOOLEAN, Thread!setDirectMessageReaction(u, i, on)
      PROVE  ThreadInv'
  <2> DEFINE r == IF on THEN msg[i].reactions \cup {u} ELSE msg[i].reactions \ {u}
             m == [msg[i] EXCEPT !.reactions = r]
  <2>1. r \in SUBSET Users BY <1>1 DEF Messages
  <2>2. msg' = [msg EXCEPT ![i] = m] BY <1>0, <1>9 DEF Thread!setDirectMessageReaction
  <2> HIDE DEF r
  <2>3. m \in Messages /\ m.from = msg[i].from /\ m.readBy = msg[i].readBy
            /\ m.content = msg[i].content /\ m.isDeleted = msg[i].isDeleted
    BY <1>1, <2>1 DEF Messages
  <2> HIDE DEF m
  <2>4. UNCHANGED <<conv, priv, hides, entitled, blocked, secret>> /\ Thread!validMessage(msg[i])
    BY <1>9 DEF Thread!setDirectMessageReaction, Thread!MayChange
  <2>5. i = Len(msg) => conv.preview = Thread!PreviewOf(m)
    BY <1>0, <2>3, <2>4 DEF ThreadInv, Thread!PreviewIsLast, Thread!last, Thread!PreviewOf
  <2> QED BY <1>0, <1>1, <1>2, <2>2, <2>3, <2>4, <2>5, ThreadChange
<1> QED BY <1>6, <1>7, <1>8, <1>9

\* What a participant does to its own cursors, badge and inbox leaves the other's alone.
LEMMA ThreadOwn ==
  ASSUME Thread!MessagesAssumption, ThreadInv, NEW u \in Users, ThreadTyped',
         Len(msg') = Len(msg),
         \A i \in 1..Len(msg) :
           /\ msg'[i].from = msg[i].from
           /\ msg[i].readBy \subseteq msg'[i].readBy
           /\ msg'[i].readBy \subseteq msg[i].readBy \cup {u},
         \A v \in Users \ {u} :
           /\ conv'.readSequences[v] = conv.readSequences[v]
           /\ conv'.deletedSequences[v] = conv.deletedSequences[v]
           /\ conv'.unreadCounts[v] = conv.unreadCounts[v]
           /\ v \in conv.deletedBy => v \in conv'.deletedBy
           /\ priv'[v] = priv[v] /\ secret'[v] = secret[v],
         ThreadUser(u)', Thread!PreviewIsLast'
  PROVE  ThreadInv'
<1>0. Len(msg) \in Nat BY ThreadMessages
<1>1. ASSUME NEW v \in Users \ {u} PROVE ThreadUser(v)'
  <2>0. ThreadUser(v) /\ conv.deletedSequences[v] \in Nat BY ThreadMessages DEF ThreadInv
  <2>1. Shown(v)' = Shown(v)
    <3>1. \A j \in conv.deletedSequences[v] + 1 .. Len(msg) : j \in 1..Len(msg)
      BY <1>0, <2>0
    <3> QED BY <3>1 DEF Shown
  <2>2. Cardinality(Shown(v))' = Cardinality(Shown(v)) BY <2>1
  <2>3. Thread!Badge(v)' = Thread!Badge(v)
            /\ Thread!currentSequence(v)' = Thread!currentSequence(v)
    BY DEF Thread!Badge, Thread!currentSequence
  <2>4. ThreadBadge(v)' BY <2>0, <2>2, <2>3 DEF ThreadUser, ThreadBadge
  <2>5. ThreadCursors(v)' BY <2>0 DEF ThreadUser, ThreadCursors
  <2>6. ThreadRevived(v)' BY <2>0 DEF ThreadUser, ThreadRevived
  <2>7. ThreadSecret(v)'
    <3>1. \A j \in secret[v] : j \in 1..Len(msg)
      <4>1. priv[v].processed \in Nat /\ secret[v] \subseteq Nat
        BY ThreadMessages DEF ThreadInv, ThreadTyped, Cursors
      <4> QED BY <1>0, <2>0, <4>1 DEF ThreadUser, ThreadSecret, ThreadCursors
    <3>2. secret'[v] = secret[v] /\ priv'[v] = priv[v] OBVIOUS
    <3>3. \A j \in secret[v] : priv[v].on /\ 1 <= j /\ j <= priv[v].processed
                                /\ v \notin msg[j].readBy
      BY <2>0 DEF ThreadUser, ThreadSecret
    <3>4. \A j \in secret[v] : v \notin msg'[j].readBy BY <3>1, <3>3
    <3> QED BY <3>2, <3>3, <3>4 DEF ThreadSecret
  <2> QED BY <2>4, <2>5, <2>6, <2>7 DEF ThreadUser
<1>2. (\A i \in 1..Len(msg) : msg[i].from \in msg[i].readBy)' BY DEF ThreadInv
<1> QED BY <1>1, <1>2 DEF ThreadInv

\* Where the next page of a reader starts, and where a page of messages ends.
LEMMA ThreadCursorOf ==
  ASSUME Thread!MessagesAssumption, ThreadInv, NEW u \in Users
  PROVE  /\ Thread!currentSequence(u) \in Nat /\ Thread!currentSequence(u) <= Len(msg)
         /\ Thread!Through(u) \in Nat /\ Thread!currentSequence(u) <= Thread!Through(u)
         /\ Thread!Through(u) <= Len(msg)
         /\ Thread!Badge(u) \in Nat
         /\ \A i \in secret[u] : i \in 1..Len(msg) /\ priv[u].on /\ i <= Thread!currentSequence(u)
                                  /\ u \notin msg[i].readBy
<1>0. /\ Len(msg) \in Nat /\ priv[u] \in Cursors /\ conv.readSequences[u] \in Nat
      /\ conv.unreadCounts[u] \in Nat /\ readPageSize \in Nat /\ ThreadUser(u)
      /\ secret[u] \subseteq Nat
  BY ThreadMessages DEF Thread!MessagesAssumption, ThreadInv, ThreadTyped
<1>1. Thread!currentSequence(u) \in Nat /\ Thread!currentSequence(u) <= Len(msg)
  BY <1>0 DEF Thread!currentSequence, Cursors, ThreadUser, ThreadCursors
<1>2. Thread!Through(u) \in Nat /\ Thread!currentSequence(u) <= Thread!Through(u)
          /\ Thread!Through(u) <= Len(msg)
  BY <1>0, <1>1 DEF Thread!Through, Thread!Smaller, Thread!last
<1>3. Thread!Badge(u) \in Nat BY <1>0 DEF Thread!Badge, Cursors
<1>4. ASSUME NEW i \in secret[u]
      PROVE  /\ i \in 1..Len(msg) /\ priv[u].on /\ i <= Thread!currentSequence(u)
             /\ u \notin msg[i].readBy
  <2>1. i \in Nat /\ priv[u].on /\ 1 <= i /\ i <= priv[u].processed /\ u \notin msg[i].readBy
    BY <1>0 DEF ThreadUser, ThreadSecret
  <2>2. Thread!currentSequence(u) = priv[u].processed BY <2>1 DEF Thread!currentSequence
  <2> QED BY <1>0, <1>1, <2>1, <2>2
<1> QED BY <1>1, <1>2, <1>3, <1>4

\* A reader who hides receipts reads a page.
LEMMA ThreadReadsHidden ==
  ASSUME Thread!MessagesAssumption, ThreadInv, NEW u \in Users, Thread!ReadsHidden(u),
         UNCHANGED <<hides, entitled, blocked>>
  PROVE  ThreadInv'
<1>0. /\ Len(msg) \in Nat /\ ThreadUser(u) /\ conv.readSequences[u] \in Nat
      /\ conv.deletedSequences[u] \in Nat /\ Cardinality(Shown(u)) \in Nat
  BY ThreadMessages DEF ThreadInv
<1> DEFINE new == {i \in Thread!currentSequence(u) + 1 .. Len(msg) : u \notin msg[i].readBy}
<1>1. /\ priv' = [priv EXCEPT ![u] = [on |-> TRUE, processed |-> Len(msg),
                                      hidden |-> Len(msg), unread |-> 0]]
      /\ secret' = [secret EXCEPT ![u] = @ \union new] /\ UNCHANGED <<conv, msg>>
  BY DEF Thread!ReadsHidden, Thread!last
<1>2. new \subseteq 1..Len(msg) BY <1>0, ThreadCursorOf
<1> HIDE DEF new
<1>3. ThreadTyped'
  <2>1. [on |-> TRUE, processed |-> Len(msg), hidden |-> Len(msg), unread |-> 0] \in Cursors
    BY <1>0 DEF Cursors
  <2>2. priv' \in [Users -> Cursors] BY <1>1, <2>1 DEF ThreadInv, ThreadTyped
  <2>3. secret[u] \cup new \in SUBSET Nat
    <3>1. secret[u] \subseteq Nat BY DEF ThreadInv, ThreadTyped
    <3>2. new \subseteq Nat BY <1>0, <1>2
    <3> QED BY <3>1, <3>2
  <2>4. secret' \in [Users -> SUBSET Nat] BY <1>1, <2>3 DEF ThreadInv, ThreadTyped
  <2> QED BY <1>1, <2>2, <2>4 DEF ThreadInv, ThreadTyped
<1>4. priv'[u].on /\ priv'[u].processed = Len(msg) /\ priv'[u].hidden = Len(msg)
        /\ priv'[u].unread = 0 /\ secret'[u] = secret[u] \cup new
  BY <1>1 DEF ThreadInv, ThreadTyped
<1>5. \A v \in Users \ {u} : priv'[v] = priv[v] /\ secret'[v] = secret[v]
  BY <1>1 DEF ThreadInv, ThreadTyped
<1>6. ThreadCursors(u)' BY <1>0, <1>1, <1>4 DEF ThreadUser, ThreadCursors
<1>7. ThreadSecret(u)'
  <2>1. \A i \in secret[u] : i \in 1..Len(msg) /\ u \notin msg[i].readBy BY ThreadCursorOf
  <2>2. \A i \in new : i \in 1..Len(msg) /\ u \notin msg[i].readBy BY <1>2 DEF new
  <2> QED BY <1>0, <1>1, <1>4, <2>1, <2>2 DEF ThreadSecret
<1>8. ThreadBadge(u)'
  <2>1. Thread!Badge(u)' = 0 BY <1>4 DEF Thread!Badge
  <2>2. Cardinality(Shown(u))' = Cardinality(Shown(u)) BY <1>1 DEF Shown
  <2> QED BY <1>0, <2>1, <2>2 DEF ThreadBadge
<1>9. ThreadRevived(u)' BY <1>0, <1>1 DEF ThreadUser, ThreadRevived
<1>10. Thread!PreviewIsLast'
     BY <1>1
        DEF ThreadInv, Thread!PreviewIsLast, Thread!last, Thread!validMessage, Thread!PreviewOf
<1>11. ThreadUser(u)' BY <1>6, <1>7, <1>8, <1>9 DEF ThreadUser
<1> QED BY <1>1, <1>3, <1>5, <1>10, <1>11, ThreadOwn

Receipts(s, P, u) ==
  [i \in 1..Len(s) |-> IF i \in P THEN [s[i] EXCEPT !.readBy = @ \union {u}] ELSE s[i]]
\* A page of receipts changes who has read a message and nothing else of it.
LEMMA ThreadReceipts ==
  ASSUME NEW s \in Seq(Messages), NEW P \in SUBSET Nat, NEW u \in Users
  PROVE  /\ Receipts(s, P, u) \in Seq(Messages) /\ Len(Receipts(s, P, u)) = Len(s)
         /\ \A i \in 1..Len(s) :
              /\ Receipts(s, P, u)[i].from = s[i].from
              /\ Receipts(s, P, u)[i].content = s[i].content
              /\ Receipts(s, P, u)[i].isDeleted = s[i].isDeleted
              /\ Receipts(s, P, u)[i].canonical = s[i].canonical
              /\ i \in P => Receipts(s, P, u)[i].readBy = s[i].readBy \cup {u}
              /\ i \notin P => Receipts(s, P, u)[i].readBy = s[i].readBy
<1>1. /\ Len(s) \in Nat /\ \A i \in 1..Len(s) : s[i] \in Messages OBVIOUS
<1>2. ASSUME NEW m \in Messages PROVE [m EXCEPT !.readBy = @ \union {u}] \in Messages
  BY DEF Messages
<1>3. \A i \in 1..Len(s) : Receipts(s, P, u)[i] \in Messages BY <1>1, <1>2 DEF Receipts
<1>4. Receipts(s, P, u) \in [1..Len(s) -> Messages]
  BY <1>1, <1>2 DEF Receipts
<1>5. Receipts(s, P, u) \in Seq(Messages) /\ Len(Receipts(s, P, u)) = Len(s)
  BY <1>1, <1>4
<1> QED BY <1>1, <1>5 DEF Receipts, Messages

\* A reader with public receipts reads a page.
LEMMA ThreadReadsPage ==
  ASSUME Thread!MessagesAssumption, ThreadInv, NEW u \in Users, Thread!ReadsPage(u),
         UNCHANGED <<hides, entitled, blocked>>
  PROVE  ThreadInv'
<1>0. /\ Len(msg) \in Nat /\ ThreadUser(u) /\ conv.readSequences[u] \in Nat
      /\ conv.deletedSequences[u] \in Nat /\ Cardinality(Shown(u)) \in Nat
      /\ priv[u] \in Cursors /\ conv.unreadCounts[u] \in Nat
      /\ \A i \in 1..Len(msg) : msg[i] \in Messages
      /\ msg \in Seq(Messages) /\ priv \in [Users -> Cursors] /\ conv \in Conversations
  BY ThreadMessages DEF ThreadInv, ThreadTyped
<1>c. /\ Thread!currentSequence(u) \in Nat /\ Thread!Through(u) \in Nat /\ Thread!Badge(u) \in Nat
      /\ Thread!currentSequence(u) <= Thread!Through(u) /\ Thread!Through(u) <= Len(msg)
  BY ThreadCursorOf
<1>1. msg' = Receipts(msg, Thread!Page(u), u) BY DEF Thread!ReadsPage, Thread!last, Receipts
<1>2. /\ msg' \in Seq(Messages) /\ Len(msg') = Len(msg)
      /\ \A i \in 1..Len(msg) :
           /\ msg'[i].from = msg[i].from /\ msg'[i].content = msg[i].content
           /\ msg'[i].isDeleted = msg[i].isDeleted /\ msg'[i].canonical = msg[i].canonical
           /\ msg'[i].readBy = IF i \in Thread!Page(u) THEN msg[i].readBy
                \cup {u} ELSE msg[i].readBy
  <2>1. Thread!Page(u) \in SUBSET Nat BY <1>c DEF Thread!Page
  <2>2. PICK P \in SUBSET Nat : P = Thread!Page(u) BY <2>1
  <2>3. msg' = Receipts(msg, P, u) BY <1>1, <2>2
  <2>4. msg \in Seq(Messages) BY <1>0
  <2>5. /\ Receipts(msg, P, u) \in Seq(Messages) /\ Len(Receipts(msg, P, u)) = Len(msg)
        /\ \A i \in 1..Len(msg) :
              /\ Receipts(msg, P, u)[i].from = msg[i].from
              /\ Receipts(msg, P, u)[i].content = msg[i].content
              /\ Receipts(msg, P, u)[i].isDeleted = msg[i].isDeleted
              /\ Receipts(msg, P, u)[i].canonical = msg[i].canonical
              /\ i \in P => Receipts(msg, P, u)[i].readBy = msg[i].readBy \cup {u}
              /\ i \notin P => Receipts(msg, P, u)[i].readBy = msg[i].readBy
    BY <2>4, ThreadReceipts
  <2> QED BY <2>2, <2>3, <2>5
<1> DEFINE completed == Thread!Through(u) = Len(msg)
<1>4. /\ conv' \in Conversations /\ priv' \in [Users -> Cursors]
      /\ conv'.deletedSequences = conv.deletedSequences /\ conv'.deletedBy = conv.deletedBy
      /\ conv'.preview = conv.preview
      /\ \A v \in Users \ {u} :
           /\ conv'.readSequences[v] = conv.readSequences[v]
           /\ conv'.unreadCounts[v] = conv.unreadCounts[v] /\ priv'[v] = priv[v]
      /\ priv'[u].on = priv[u].on /\ priv'[u].hidden = priv[u].hidden
      /\ ~priv[u].on => priv'[u].processed = priv[u].processed
      /\ priv[u].on => /\ priv'[u].processed = Thread!Through(u)
                       /\ priv'[u].unread = (IF completed THEN 0 ELSE priv[u].unread)
                       /\ conv'.readSequences[u] = conv.readSequences[u]
      /\ ~priv[u].on =>
           /\ conv'.readSequences[u] = Thread!Through(u)
           /\ conv'.unreadCounts[u] = (IF completed THEN 0 ELSE conv.unreadCounts[u])
  <2>1. CASE priv[u].on
    <3> DEFINE q == [priv[u] EXCEPT !.processed = Thread!Through(u),
                                    !.unread = IF completed THEN 0 ELSE @]
    <3>1. priv' = [priv EXCEPT ![u] = q] /\ conv' = conv
      BY <1>0, <2>1 DEF Thread!ReadsPage, Thread!last
    <3>2. q \in Cursors /\ q.on = priv[u].on /\ q.hidden = priv[u].hidden
              /\ q.processed = Thread!Through(u)
              /\ q.unread = IF completed THEN 0 ELSE priv[u].unread
      BY <1>0, <1>c DEF Cursors
    <3> HIDE DEF q
    <3> QED BY <1>0, <2>1, <3>1, <3>2
  <2>2. CASE ~priv[u].on
    <3> DEFINE rs == [conv.readSequences EXCEPT ![u] = Thread!Through(u)]
               uc == [conv.unreadCounts EXCEPT ![u] = IF completed THEN 0 ELSE @]
    <3>1. /\ conv.readSequences \in [Users -> Nat] /\ conv.unreadCounts \in [Users -> Nat]
      BY <1>0 DEF Conversations
    <3>2. conv' = [conv EXCEPT !.readSequences = rs, !.unreadCounts = uc] /\ priv' = priv
      BY <1>0, <2>2 DEF Thread!ReadsPage, Thread!last, Conversations
    <3>3. rs \in [Users -> Nat] /\ uc \in [Users -> Nat] BY <1>0, <1>c, <3>1
    <3>4. rs[u] = Thread!Through(u) /\ uc[u] = IF completed THEN 0 ELSE conv.unreadCounts[u]
      BY <3>1
    <3>5. \A v \in Users \ {u} : rs[v] = conv.readSequences[v] /\ uc[v] = conv.unreadCounts[v]
      BY <3>1
    <3> HIDE DEF rs, uc
    <3>6. conv' \in Conversations BY <1>0, <3>2, <3>3 DEF Conversations
    <3>7. /\ conv'.readSequences = rs /\ conv'.unreadCounts = uc
          /\ conv'.deletedSequences = conv.deletedSequences /\ conv'.deletedBy = conv.deletedBy
          /\ conv'.preview = conv.preview
      BY <1>0, <3>2 DEF Conversations
    <3> QED BY <1>0, <2>2, <3>2, <3>4, <3>5, <3>6, <3>7
  <2> QED BY <2>1, <2>2
<1>5. UNCHANGED secret BY DEF Thread!ReadsPage
<1>6. ThreadTyped' BY <1>2, <1>4, <1>5 DEF ThreadInv, ThreadTyped
<1>7. Thread!currentSequence(u)' = Thread!Through(u)
  BY <1>4 DEF Thread!currentSequence
<1>8. Thread!Badge(u)' = IF completed THEN 0 ELSE Thread!Badge(u) BY <1>4 DEF Thread!Badge
<1>9. ThreadCursors(u)'
  <2>1. priv'[u].processed \in Nat /\ priv[u].processed \in Nat /\ priv[u].hidden \in Nat
    BY <1>0, <1>4 DEF Cursors
  <2>2. CASE priv[u].on
    <3>1. Thread!currentSequence(u) = priv[u].processed BY <2>2 DEF Thread!currentSequence
    <3> QED BY <1>0, <1>c, <1>2, <1>4, <2>1, <2>2, <3>1 DEF ThreadUser, ThreadCursors
  <2>3. CASE ~priv[u].on
    BY <1>0, <1>c, <1>2, <1>4, <2>1, <2>3 DEF ThreadUser, ThreadCursors
  <2> QED BY <2>2, <2>3
<1>10. ThreadSecret(u)'
  <2>1. ASSUME NEW i \in secret[u]
        PROVE  i \in 1..Len(msg) /\ priv[u].on /\ i <= Thread!currentSequence(u)
                 /\ u \notin msg[i].readBy
    BY ThreadCursorOf
  <2>2. ASSUME NEW i \in secret[u]
        PROVE  priv'[u].on /\ 1 <= i /\ i <= priv'[u].processed /\ u \notin msg'[i].readBy
    <3>1. i \notin Thread!Page(u) BY <1>c, <2>1 DEF Thread!Page
    <3>2. priv'[u].on /\ priv'[u].processed = Thread!Through(u) BY <1>4, <2>1
    <3>3. i <= Thread!Through(u) /\ 1 <= i BY <1>c, <2>1
    <3>4. u \notin msg'[i].readBy BY <1>2, <2>1, <3>1
    <3> QED BY <3>2, <3>3, <3>4
  <2> QED BY <1>5, <2>2 DEF ThreadSecret
<1>11. ThreadBadge(u)'
  <2>1. Shown(u)' = Shown(u)
    <3>1. \A j \in conv.deletedSequences[u] + 1 .. Len(msg) : j \in 1..Len(msg) BY <1>0
    <3> QED BY <1>2, <1>4, <3>1 DEF Shown
  <2>2. Cardinality(Shown(u))' = Cardinality(Shown(u)) BY <2>1
  <2> QED BY <1>0, <1>c, <1>2, <1>7, <1>8, <2>2 DEF ThreadUser, ThreadBadge
<1>12. ThreadRevived(u)' BY <1>0, <1>2, <1>4 DEF ThreadUser, ThreadRevived
<1>13. Thread!PreviewIsLast'
  <2>1. CASE Len(msg) = 0 BY <1>2, <2>1 DEF Thread!PreviewIsLast, Thread!last
  <2>2. CASE Len(msg) > 0
    <3>1. Len(msg) \in 1..Len(msg) BY <1>0, <2>2
    <3> QED BY <1>2, <1>4, <2>2, <3>1
            DEF ThreadInv, Thread!PreviewIsLast, Thread!last, Thread!validMessage,
                 Thread!PreviewOf
  <2> QED BY <1>0, <2>1, <2>2
<1>14. ThreadUser(u)' BY <1>9, <1>10, <1>11, <1>12 DEF ThreadUser
<1>15. \A i \in 1..Len(msg) : /\ msg'[i].from = msg[i].from
                              /\ msg[i].readBy \subseteq msg'[i].readBy
                              /\ msg'[i].readBy \subseteq msg[i].readBy \cup {u}
  BY <1>2
<1>16. \A v \in Users \ {u} :
         /\ conv'.readSequences[v] = conv.readSequences[v]
         /\ conv'.deletedSequences[v] = conv.deletedSequences[v]
         /\ conv'.unreadCounts[v] = conv.unreadCounts[v]
         /\ v \in conv.deletedBy => v \in conv'.deletedBy
         /\ priv'[v] = priv[v] /\ secret'[v] = secret[v]
  BY <1>4, <1>5
<1> QED BY <1>2, <1>6, <1>13, <1>14, <1>15, <1>16, ThreadOwn

\* Archiving and "delete for me": the badge falls to zero, nothing else of a cursor moves.
LEMMA ThreadZeroes ==
  ASSUME Thread!MessagesAssumption, ThreadInv, NEW u \in Users, NEW root \in Conversations,
         Thread!ZeroesBadge(u, root), UNCHANGED <<msg, hides, entitled, blocked, secret>>,
         root.preview = conv.preview, root.readSequences = conv.readSequences,
         root.unreadCounts = conv.unreadCounts,
         \A v \in Users \ {u} : root.deletedSequences[v] = conv.deletedSequences[v]
                                  /\ (v \in conv.deletedBy => v \in root.deletedBy),
         root.deletedSequences[u] <= Len(msg),
         \/ u \in root.deletedBy
         \/ u \notin conv.deletedBy /\ root.deletedSequences[u] = conv.deletedSequences[u]
  PROVE  ThreadInv'
<1>0. /\ Len(msg) \in Nat /\ ThreadUser(u) /\ priv \in [Users -> Cursors] /\ priv[u] \in Cursors
      /\ conv.unreadCounts \in [Users -> Nat] /\ root.deletedSequences[u] \in Nat
  BY ThreadMessages DEF ThreadInv, ThreadTyped, Conversations
<1>1. /\ conv' \in Conversations /\ priv' \in [Users -> Cursors]
      /\ conv'.preview = conv.preview /\ conv'.readSequences = conv.readSequences
      /\ conv'.deletedSequences = root.deletedSequences /\ conv'.deletedBy = root.deletedBy
      /\ \A v \in Users \ {u} : conv'.unreadCounts[v] = conv.unreadCounts[v]
                                  /\ priv'[v] = priv[v]
      /\ priv'[u].on = priv[u].on /\ priv'[u].processed = priv[u].processed
      /\ priv'[u].hidden = priv[u].hidden
      /\ priv[u].on => priv'[u].unread = 0
      /\ ~priv[u].on => conv'.unreadCounts[u] = 0
  <2>1. CASE priv[u].on
    <3> DEFINE q == [priv[u] EXCEPT !.unread = 0]
    <3>1. priv' = [priv EXCEPT ![u] = q] /\ conv' = root BY <1>0, <2>1 DEF Thread!ZeroesBadge
    <3>2. q \in Cursors /\ q.on = priv[u].on /\ q.hidden = priv[u].hidden
              /\ q.processed = priv[u].processed /\ q.unread = 0
      BY <1>0 DEF Cursors
    <3> HIDE DEF q
    <3> QED BY <1>0, <2>1, <3>1, <3>2
  <2>2. CASE ~priv[u].on
    <3> DEFINE uc == [root.unreadCounts EXCEPT ![u] = 0]
    <3>1. conv' = [root EXCEPT !.unreadCounts = uc] /\ priv' = priv
      BY <1>0, <2>2 DEF Thread!ZeroesBadge, Conversations
    <3>2. uc \in [Users -> Nat] BY <1>0
    <3>3. uc[u] = 0 /\ \A v \in Users \ {u} : uc[v] = conv.unreadCounts[v] BY <1>0
    <3> HIDE DEF uc
    <3>4. conv' \in Conversations BY <3>1, <3>2 DEF Conversations
    <3>5. /\ conv'.preview = root.preview /\ conv'.readSequences = root.readSequences
          /\ conv'.deletedSequences = root.deletedSequences
          /\ conv'.deletedBy = root.deletedBy /\ conv'.unreadCounts = uc
      BY <3>1 DEF Conversations
    <3> QED BY <1>0, <2>2, <3>1, <3>3, <3>4, <3>5
  <2> QED BY <2>1, <2>2
<1>2. ThreadTyped' BY <1>1 DEF ThreadInv, ThreadTyped
<1>3. Thread!Badge(u)' = 0 BY <1>1 DEF Thread!Badge
<1>4. ThreadCursors(u)' BY <1>0, <1>1 DEF ThreadUser, ThreadCursors
<1>5. ThreadSecret(u)' BY <1>0, <1>1 DEF ThreadUser, ThreadSecret
<1>6. ThreadBadge(u)'
  <2>1. Shown(u)' \subseteq 1..Len(msg) BY <1>0, <1>1 DEF Shown
  <2>2. IsFiniteSet(1..Len(msg)) BY <1>0, FS_Interval
  <2>3. IsFiniteSet(Shown(u)') BY <2>1, <2>2, FS_Subset
  <2>4. Cardinality(Shown(u)') \in Nat BY <2>3, FS_CardinalityType
  <2>5. Cardinality(Shown(u))' = Cardinality(Shown(u)') OBVIOUS
  <2> QED BY <1>3, <2>4, <2>5 DEF ThreadBadge
<1>7. ThreadRevived(u)' BY <1>0, <1>1 DEF ThreadUser, ThreadRevived
<1>8. ThreadUser(u)' BY <1>4, <1>5, <1>6, <1>7 DEF ThreadUser
<1>9. Thread!PreviewIsLast'
     BY <1>1
        DEF ThreadInv, Thread!PreviewIsLast, Thread!last, Thread!validMessage, Thread!PreviewOf
<1> QED BY <1>1, <1>2, <1>8, <1>9, ThreadOwn

\* The operations of one participant's own inbox.
LEMMA ThreadInbox ==
  ASSUME Thread!MessagesAssumption, ThreadInv, NEW u \in Users,
         Thread!deleteDirectConversationForMe(u) \/ \E on \in BOOLEAN : Thread!setArchived(u, on)
  PROVE  ThreadInv'
<1>0. /\ Len(msg) \in Nat /\ conv \in Conversations /\ conv.deletedSequences[u] <= Len(msg)
      /\ conv.deletedSequences \in [Users -> Nat]
      /\ conv.archivedBy \subseteq Users /\ conv.deletedBy \subseteq Users
  BY ThreadMessages DEF ThreadInv, ThreadTyped, ThreadUser, ThreadCursors, Conversations
<1>1. CASE Thread!deleteDirectConversationForMe(u)
  <2> DEFINE ds == [conv.deletedSequences EXCEPT ![u] = Len(msg)]
             root == [conv EXCEPT !.deletedBy = @ \union {u}, !.archivedBy = @ \ {u},
                                  !.deletedSequences = ds]
  <2>1. ds \in [Users -> Nat] /\ ds[u] = Len(msg)
            /\ \A v \in Users \ {u} : ds[v] = conv.deletedSequences[v]
    BY <1>0
  <2>2. Thread!ZeroesBadge(u, root) /\ UNCHANGED <<msg, hides, entitled, blocked, secret>>
    BY <1>1 DEF Thread!deleteDirectConversationForMe, Thread!last
  <2> HIDE DEF ds
  <2>3. root \in Conversations BY <1>0, <2>1 DEF Conversations
  <2>4. /\ root.preview = conv.preview /\ root.readSequences = conv.readSequences
        /\ root.unreadCounts = conv.unreadCounts /\ root.deletedSequences = ds
        /\ root.deletedBy = conv.deletedBy \cup {u}
    BY <1>0 DEF Conversations
  <2> HIDE DEF root
  <2> QED BY <1>0, <2>1, <2>2, <2>3, <2>4, ThreadZeroes
<1>2. ASSUME Thread!setArchived(u, TRUE) PROVE ThreadInv'
  <2> DEFINE root == [conv EXCEPT !.archivedBy = @ \union {u}]
  <2>1. Thread!ZeroesBadge(u, root) /\ UNCHANGED <<msg, hides, entitled, blocked, secret>>
    BY <1>2 DEF Thread!setArchived
  <2>2. /\ root \in Conversations
        /\ root.preview = conv.preview /\ root.readSequences = conv.readSequences
        /\ root.unreadCounts = conv.unreadCounts
        /\ root.deletedSequences = conv.deletedSequences /\ root.deletedBy = conv.deletedBy
    BY <1>0 DEF Conversations
  <2> HIDE DEF root
  <2> QED BY <1>0, <2>1, <2>2, ThreadZeroes
<1>3. ASSUME Thread!setArchived(u, FALSE) PROVE ThreadInv'
  <2>1. conv' = [conv EXCEPT !.archivedBy = @ \ {u}]
            /\ UNCHANGED <<priv, msg, hides, entitled, blocked, secret>>
    BY <1>3 DEF Thread!setArchived
  <2>2. /\ conv' \in Conversations
        /\ conv'.preview = conv.preview /\ conv'.readSequences = conv.readSequences
        /\ conv'.unreadCounts = conv.unreadCounts
        /\ conv'.deletedSequences = conv.deletedSequences /\ conv'.deletedBy = conv.deletedBy
    BY <1>0, <2>1 DEF Conversations
  <2>3. ThreadTyped' BY <2>1, <2>2 DEF ThreadInv, ThreadTyped
  <2>4. Thread!PreviewIsLast' BY <2>1, <2>2 DEF ThreadInv, Thread!PreviewIsLast, Thread!last,
            Thread!validMessage, Thread!PreviewOf
  <2>5. ThreadUser(u)'
    <3>1. Shown(u)' = Shown(u) BY <2>1, <2>2 DEF Shown
    <3>2. Cardinality(Shown(u))' = Cardinality(Shown(u)) BY <3>1
    <3>3. Thread!Badge(u)' = Thread!Badge(u)
              /\ Thread!currentSequence(u)' = Thread!currentSequence(u)
      BY <2>1, <2>2 DEF Thread!Badge, Thread!currentSequence
    <3> QED BY <2>1, <2>2, <3>2, <3>3
            DEF ThreadInv, ThreadUser, ThreadCursors, ThreadSecret, ThreadBadge, ThreadRevived
  <2> QED BY <2>1, <2>2, <2>3, <2>4, <2>5, ThreadOwn
<1> QED BY <1>1, <1>2, <1>3

\* Everything that touches no cursor.
LEMMA ThreadRest ==
  ASSUME Thread!MessagesAssumption, ThreadInv,
         \/ Thread!openDirectConversation \/ Thread!BlockChanges \/ UNCHANGED Thread!vars
         \/ \E u \in Users : \/ Thread!EntitlementChanges(u)
                             \/ \E on \in BOOLEAN : Thread!setPremiumMessagingPrivacyV1(u, on)
  PROVE  ThreadInv'
<1>0. conv \in Conversations BY DEF ThreadInv, ThreadTyped
<1>1. /\ UNCHANGED <<msg, priv, secret>> /\ conv' \in Conversations
      /\ conv'.preview = conv.preview /\ conv'.readSequences = conv.readSequences
      /\ conv'.unreadCounts = conv.unreadCounts
      /\ conv'.deletedSequences = conv.deletedSequences /\ conv'.deletedBy = conv.deletedBy
  BY <1>0
     DEF Thread!openDirectConversation, Thread!BlockChanges, Thread!vars,
         Thread!EntitlementChanges, Thread!setPremiumMessagingPrivacyV1, Conversations
<1>2. /\ hides' \in [Users -> BOOLEAN] /\ entitled' \in [Users -> BOOLEAN]
      /\ blocked' \in BOOLEAN
  <2>1. hides \in [Users -> BOOLEAN] /\ entitled \in [Users -> BOOLEAN] /\ blocked \in BOOLEAN
    BY DEF ThreadInv, ThreadTyped
  <2> QED BY <2>1
          DEF Thread!openDirectConversation, Thread!BlockChanges, Thread!vars,
               Thread!EntitlementChanges,
              Thread!setPremiumMessagingPrivacyV1
<1>3. ThreadTyped' BY <1>1, <1>2 DEF ThreadInv, ThreadTyped
<1>4. Thread!PreviewIsLast'
     BY <1>1
        DEF ThreadInv, Thread!PreviewIsLast, Thread!last, Thread!validMessage, Thread!PreviewOf
<1>5. ASSUME NEW u \in Users PROVE ThreadUser(u)'
  <2>1. Shown(u)' = Shown(u) BY <1>1 DEF Shown
  <2>2. Cardinality(Shown(u))' = Cardinality(Shown(u)) BY <2>1
  <2>3. Thread!Badge(u)' = Thread!Badge(u)
            /\ Thread!currentSequence(u)' = Thread!currentSequence(u)
    BY <1>1 DEF Thread!Badge, Thread!currentSequence
  <2> QED BY <1>1, <2>2, <2>3
          DEF ThreadInv, ThreadUser, ThreadCursors, ThreadSecret, ThreadBadge, ThreadRevived
<1> QED BY <1>1, <1>3, <1>4, <1>5 DEF ThreadInv

\* Every step keeps the strengthening.
LEMMA ThreadStep == ASSUME Thread!MessagesAssumption, ThreadInv, [Thread!Next]_Thread!vars
PROVE ThreadInv'
<1>1. ASSUME NEW u \in Users, NEW kind \in Kinds, NEW reply \in 0..MaxMessages,
             Thread!sendDirectMessage(u, kind, reply)
      PROVE  ThreadInv'
  BY <1>1, ThreadMessages, ThreadPublishes DEF Thread!sendDirectMessage
<1>2. ASSUME NEW u \in Users, Thread!finalizeAttachment(u) PROVE ThreadInv'
  <2>1. "media" \in Words BY DEF Words
  <2> QED BY <1>2, <2>1, ThreadPublishes DEF Thread!finalizeAttachment
<1>3. ASSUME NEW u \in Users, Thread!markDirectConversationRead(u) PROVE ThreadInv'
  BY <1>3, ThreadReadsHidden, ThreadReadsPage DEF Thread!markDirectConversationRead
<1> QED BY <1>1, <1>2, <1>3, ThreadEdits, ThreadInbox, ThreadRest DEF Thread!Next

\* The strengthening is an invariant of the thread.
LEMMA ThreadInvariant == ASSUME Thread!MessagesAssumption PROVE Thread!Spec => []ThreadInv
<1>1. Thread!Init => ThreadInv BY ThreadInit
<1>2. ThreadInv /\ [Thread!Next]_Thread!vars => ThreadInv' BY ThreadStep
<1> QED BY <1>1, <1>2, PTL DEF Thread!Spec

\* What the strengthening says of the properties the runs check.
LEMMA ThreadShows ==
  ASSUME Thread!MessagesAssumption, ThreadInv
  PROVE  /\ Thread!TypeOK /\ Thread!SecretReadsStaySecret /\ Thread!BadgeHasMessages
         /\ Thread!RevivedThreadsShowSomething /\ Thread!PreviewIsLast
<1>0. Len(msg) \in Nat BY ThreadMessages
<1>1. ASSUME NEW u \in Users
      PROVE  /\ conv.readSequences[u] \in 0..Thread!last
             /\ conv.deletedSequences[u] \in 0..Thread!last
             /\ priv[u].hidden <= priv[u].processed /\ priv[u].processed <= Thread!last
             /\ priv[u].on => conv.readSequences[u] <= priv[u].processed
  BY <1>0, ThreadMessages DEF ThreadInv, ThreadUser, ThreadCursors, Thread!last
<1>2. Thread!TypeOK
  <2>1. /\ conv.unreadCounts \in [Users -> Nat] /\ conv.readSequences \in [Users -> Nat]
        /\ conv.deletedSequences \in [Users -> Nat] /\ conv.deletedBy \subseteq Users
        /\ conv.archivedBy \subseteq Users
    BY DEF ThreadInv, ThreadTyped, Conversations
  <2>2. /\ conv.readSequences \in [Users -> 0..Thread!last]
        /\ conv.deletedSequences \in [Users -> 0..Thread!last]
    BY <1>1, <2>1
  <2>3. \A i \in 1..Thread!last : msg[i].readBy \subseteq Users /\ msg[i].from \in msg[i].readBy
    BY ThreadMessages DEF ThreadInv, Messages, Thread!last
  <2> QED BY <1>1, <2>1, <2>2, <2>3 DEF Thread!TypeOK
<1>3. Thread!SecretReadsStaySecret
  BY DEF ThreadInv, ThreadUser, ThreadSecret, Thread!SecretReadsStaySecret
<1>4. Thread!BadgeHasMessages
  BY DEF ThreadInv, ThreadUser, ThreadBadge, Shown, Thread!BadgeHasMessages, Thread!last,
         Thread!Cardinality, Cardinality
<1>5. Thread!RevivedThreadsShowSomething
  BY DEF ThreadInv, ThreadUser, ThreadRevived, Thread!RevivedThreadsShowSomething, Thread!last
<1> QED BY <1>2, <1>3, <1>4, <1>5 DEF ThreadInv

(* Messages read with receipts off never show one, a badge counts only messages of the
   peer after the cut-off, a thread that came back into the inbox has a message past the
   cut-off, and the preview is of the last message: for any number of messages and edits
   and any order of sends, edits, deletions, pages read, settings and entitlements. *)
THEOREM InboxStaysTrue ==
  ASSUME Thread!MessagesAssumption
  PROVE  Thread!Spec =>
           [](/\ Thread!TypeOK /\ Thread!SecretReadsStaySecret /\ Thread!BadgeHasMessages
              /\ Thread!RevivedThreadsShowSomething /\ Thread!PreviewIsLast)
<1>1. ThreadInv => /\ Thread!TypeOK /\ Thread!SecretReadsStaySecret /\ Thread!BadgeHasMessages
                   /\ Thread!RevivedThreadsShowSomething /\ Thread!PreviewIsLast
  BY ThreadShows
<1> QED BY <1>1, ThreadInvariant, PTL

\* One step and one participant: a public number of someone who hides receipts never
\* falls, and the cut-off moves to the end, or not at all.
ThreadMoves(u) ==
  /\ priv[u].on => conv'.readSequences[u] = conv.readSequences[u]
                     /\ conv'.unreadCounts[u] >= conv.unreadCounts[u]
  /\ \/ conv'.deletedSequences[u] = conv.deletedSequences[u]
        /\ (u \in conv'.deletedBy => u \in conv.deletedBy)
     \/ conv'.deletedSequences[u] = Len(msg) /\ Len(msg') = Len(msg)

\* Every step moves both participants as ThreadMoves says.
LEMMA ThreadMovesStep ==
  ASSUME Thread!MessagesAssumption, ThreadInv, [Thread!Next]_Thread!vars, NEW u \in Users
  PROVE ThreadMoves(u)
<1>0. /\ conv \in Conversations /\ conv.unreadCounts[u] \in Nat /\ Len(msg) \in Nat
      /\ conv.deletedSequences \in [Users -> Nat] /\ conv.unreadCounts \in [Users -> Nat]
      /\ conv.readSequences \in [Users -> Nat]
  BY ThreadMessages DEF ThreadInv, ThreadTyped, Conversations
<1>1. ASSUME conv'.readSequences = conv.readSequences,
             conv'.unreadCounts[u] = conv.unreadCounts[u],
             conv'.deletedSequences = conv.deletedSequences, conv'.deletedBy = conv.deletedBy
      PROVE  ThreadMoves(u)
  BY <1>0, <1>1 DEF ThreadMoves
<1>2. ASSUME UNCHANGED conv PROVE ThreadMoves(u) BY <1>1, <1>2
<1>3. ASSUME NEW s \in Users, NEW kind, NEW reply, Thread!Publishes(s, kind, reply)
PROVE ThreadMoves(u)
  <2> DEFINE c == [v \in Users |-> IF v # s THEN conv.unreadCounts[v] + 1
                                   ELSE IF priv[v].on THEN conv.unreadCounts[v] ELSE 0]
             p == msg'[Len(msg')].content
  <2>1. conv' = [conv EXCEPT !.preview = p, !.archivedBy = {}, !.deletedBy = {},
                             !.unreadCounts = c]
    BY <1>3 DEF Thread!Publishes, Thread!CountsAfterSend
  <2> HIDE DEF p
  <2>2. priv[u].on => c[u] >= conv.unreadCounts[u] BY <1>0
  <2> HIDE DEF c
  <2>3. /\ conv'.readSequences = conv.readSequences /\ conv'.unreadCounts = c
        /\ conv'.deletedSequences = conv.deletedSequences /\ conv'.deletedBy = {}
    BY <1>0, <2>1 DEF Conversations
  <2> QED BY <2>2, <2>3 DEF ThreadMoves
<1>4. ASSUME NEW i, NEW v \in Users,
             Thread!editDirectMessage(v, i) \/ Thread!deleteDirectMessage(v, i)
                  \/ Thread!adminDeleteMessage(i)
      PROVE  ThreadMoves(u)
  <2>1. UNCHANGED conv \/ \E p : conv' = [conv EXCEPT !.preview = p]
    BY <1>4 DEF Thread!editDirectMessage, Thread!deleteDirectMessage, Thread!adminDeleteMessage
  <2> QED BY <1>0, <1>1, <1>2, <2>1 DEF Conversations
<1>5. ASSUME NEW v \in Users, NEW i, NEW on, Thread!setDirectMessageReaction(v, i, on)
      PROVE  ThreadMoves(u)
  BY <1>2, <1>5 DEF Thread!setDirectMessageReaction
<1>6. ASSUME NEW v \in Users, Thread!markDirectConversationRead(v) PROVE ThreadMoves(u)
  <2>1. CASE Thread!ReadsHidden(v) BY <1>2, <2>1 DEF Thread!ReadsHidden
  <2>2. CASE Thread!ReadsPage(v) /\ priv[v].on BY <1>2, <2>2 DEF Thread!ReadsPage
  <2>3. CASE Thread!ReadsPage(v) /\ ~priv[v].on
    <3>1. PICK n, m : conv' = [conv EXCEPT !.readSequences[v] = n, !.unreadCounts[v] = m]
      BY <2>3 DEF Thread!ReadsPage
    <3>2. /\ conv'.readSequences = [conv.readSequences EXCEPT ![v] = n]
          /\ conv'.unreadCounts = [conv.unreadCounts EXCEPT ![v] = m]
          /\ conv'.deletedSequences = conv.deletedSequences
          /\ conv'.deletedBy = conv.deletedBy
      BY <1>0, <3>1 DEF Conversations
    <3>3. priv[u].on => u # v BY <2>3
    <3> QED BY <1>0, <3>2, <3>3 DEF ThreadMoves
  <2> QED BY <1>6, <2>1, <2>2, <2>3 DEF Thread!markDirectConversationRead
<1>7. ASSUME NEW v \in Users, NEW root \in Conversations, Thread!ZeroesBadge(v, root),
             root.readSequences = conv.readSequences, root.unreadCounts = conv.unreadCounts
      PROVE  /\ conv'.readSequences = conv.readSequences
             /\ priv[u].on => conv'.unreadCounts[u] = conv.unreadCounts[u]
             /\ conv'.deletedSequences = root.deletedSequences
             /\ conv'.deletedBy = root.deletedBy
  <2>1. CASE priv[v].on BY <1>7, <2>1 DEF Thread!ZeroesBadge
  <2>2. CASE ~priv[v].on
    <3>1. conv' = [root EXCEPT !.unreadCounts[v] = 0] BY <1>7, <2>2 DEF Thread!ZeroesBadge
    <3>2. /\ conv'.readSequences = conv.readSequences
          /\ conv'.unreadCounts = [conv.unreadCounts EXCEPT ![v] = 0]
          /\ conv'.deletedSequences = root.deletedSequences
          /\ conv'.deletedBy = root.deletedBy
      BY <1>7, <3>1 DEF Conversations
    <3> QED BY <1>0, <2>2, <3>2
  <2> QED BY <2>1, <2>2
<1>8. ASSUME NEW v \in Users, Thread!deleteDirectConversationForMe(v) PROVE ThreadMoves(u)
  <2> DEFINE ds == [conv.deletedSequences EXCEPT ![v] = Len(msg)]
             root == [conv EXCEPT !.deletedBy = @ \union {v}, !.archivedBy = @ \ {v},
                                  !.deletedSequences = ds]
  <2>1. ds \in [Users -> Nat] /\ ds[v] = Len(msg)
            /\ \A w \in Users \ {v} : ds[w] = conv.deletedSequences[w]
    BY <1>0
  <2>2. Thread!ZeroesBadge(v, root) /\ UNCHANGED msg
    BY <1>8 DEF Thread!deleteDirectConversationForMe, Thread!last
  <2> HIDE DEF ds
  <2>3. conv.deletedBy \cup {v} \subseteq Users /\ conv.archivedBy \ {v} \subseteq Users
    BY <1>0 DEF Conversations
  <2>4. root \in Conversations BY <1>0, <2>1, <2>3 DEF Conversations
  <2>5. /\ root.readSequences = conv.readSequences /\ root.unreadCounts = conv.unreadCounts
        /\ root.deletedSequences = ds /\ root.deletedBy = conv.deletedBy \cup {v}
    BY <1>0 DEF Conversations
  <2> HIDE DEF root
  <2>6. /\ conv'.readSequences = conv.readSequences
        /\ priv[u].on => conv'.unreadCounts[u] = conv.unreadCounts[u]
        /\ conv'.deletedSequences = ds /\ conv'.deletedBy = conv.deletedBy \cup {v}
    BY <1>7, <2>2, <2>4, <2>5
  <2> QED BY <1>0, <2>1, <2>2, <2>6 DEF ThreadMoves
<1>9. ASSUME NEW v \in Users, NEW on \in BOOLEAN, Thread!setArchived(v, on) PROVE ThreadMoves(u)
  <2>1. CASE on
    <3> DEFINE root == [conv EXCEPT !.archivedBy = @ \union {v}]
    <3>1. Thread!ZeroesBadge(v, root) BY <1>9, <2>1 DEF Thread!setArchived
    <3>2. conv.archivedBy \cup {v} \subseteq Users BY <1>0 DEF Conversations
    <3>3. root \in Conversations BY <1>0, <3>2 DEF Conversations
    <3>4. /\ root.readSequences = conv.readSequences /\ root.unreadCounts = conv.unreadCounts
          /\ root.deletedSequences = conv.deletedSequences
          /\ root.deletedBy = conv.deletedBy
      BY <1>0 DEF Conversations
    <3> HIDE DEF root
    <3>5. /\ conv'.readSequences = conv.readSequences
          /\ priv[u].on => conv'.unreadCounts[u] = conv.unreadCounts[u]
          /\ conv'.deletedSequences = conv.deletedSequences
          /\ conv'.deletedBy = conv.deletedBy
      BY <1>7, <3>1, <3>3, <3>4
    <3> QED BY <1>0, <3>5 DEF ThreadMoves
  <2>2. CASE ~on
    <3>1. conv' = [conv EXCEPT !.archivedBy = @ \ {v}] BY <1>9, <2>2 DEF Thread!setArchived
    <3> QED BY <1>0, <1>1, <3>1 DEF Conversations
  <2> QED BY <2>1, <2>2
<1>10. CASE Thread!openDirectConversation
  BY <1>0, <1>1, <1>10 DEF Thread!openDirectConversation, Conversations
<1>11. CASE \/ Thread!BlockChanges \/ UNCHANGED Thread!vars
            \/ \E v \in Users : \/ Thread!EntitlementChanges(v)
                                \/ \E on \in BOOLEAN : Thread!setPremiumMessagingPrivacyV1(v, on)
  BY <1>2, <1>11
     DEF Thread!BlockChanges, Thread!vars, Thread!EntitlementChanges,
         Thread!setPremiumMessagingPrivacyV1
<1> QED
  BY <1>3, <1>4, <1>5, <1>6, <1>8, <1>9, <1>10, <1>11
     DEF Thread!Next, Thread!sendDirectMessage, Thread!finalizeAttachment

(* What the peer can read of an account that hides its receipts does not follow its
   reading, and the cut-off of a participant never falls: a deletion puts it at the end of
   the thread, whoever else takes a step. *)
THEOREM InboxStepsHold ==
  ASSUME Thread!MessagesAssumption
  PROVE  Thread!Spec => [][Thread!PublicCursorFrozen /\ Thread!CutOffHolds]_Thread!vars
<1>1. ASSUME ThreadInv, [Thread!Next]_Thread!vars
PROVE Thread!PublicCursorFrozen /\ Thread!CutOffHolds
  <2>1. Thread!PublicCursorFrozen
       BY <1>1, ThreadMovesStep DEF ThreadMoves, Thread!PublicCursorFrozen
  <2>2. ASSUME NEW u \in Users
        PROVE  /\ conv'.deletedSequences[u] >= conv.deletedSequences[u]
               /\ u \in conv'.deletedBy \ conv.deletedBy
                    => conv'.deletedSequences[u] = Thread!last
    <3>1. /\ conv.deletedSequences[u] <= Len(msg) /\ conv.deletedSequences[u] \in Nat
          /\ Len(msg) \in Nat
      BY <1>1, ThreadMessages DEF ThreadInv, ThreadUser, ThreadCursors
    <3>2. ThreadMoves(u) BY <1>1, ThreadMovesStep
    <3> QED BY <3>1, <3>2 DEF ThreadMoves, Thread!last
  <2> QED BY <2>1, <2>2 DEF Thread!CutOffHolds
<1> QED BY <1>1, ThreadInvariant, PTL DEF Thread!Spec

=============================================================================
