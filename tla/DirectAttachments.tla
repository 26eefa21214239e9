------------------------- MODULE DirectAttachments -------------------------
(***************************************************************************)
(* One attachment of a direct message: the reservation, the upload, the    *)
(* finalizer and the expiry of messaging/direct_integrity.js, the cleanup  *)
(* outbox of moments/integrity.js and the staff removal of                 *)
(* admin/messages.js.                                                      *)
(*                                                                         *)
(* The reservation and the message are documents, changed in transactions; *)
(* the object and its metadata are in Cloud Storage and are not.  The      *)
(* finalizer reads, probes and secures the object, publishes the message   *)
(* in a transaction and only then marks the object readable: it may die    *)
(* between any two of these, be called again meanwhile under the same      *)
(* request or another, and race the expiry, the author and the staff.      *)
(***************************************************************************)
EXTENDS Naturals, FiniteSets

CONSTANTS
  Calls,       \* finalizer calls in flight
  Requests,    \* their request ids
  requestOf    \* call -> request

ASSUME AttachmentsAssumption == requestOf \in [Calls -> Requests]

VARIABLES
  reservation,  \* directMessageUploadReservations: none, open, gone
  expired,      \* expiresAt <= now
  object,       \* the Storage object, its download token and its marker
  message,      \* the message: none, live, deleted
  ledger,       \* requests committed
  cleanup,      \* contentCleanupOutbox rows of this object, by kind
  call,         \* where each finalizer call stands, and the metadata it holds
  staff         \* the staff removal: idle, emptied, failed

docs == <<reservation, expired, message, ledger>>
vars == <<docs, object, cleanup, call, staff>>

Absent == [exists |-> FALSE, token |-> FALSE, final |-> FALSE]
Idle == [at |-> "idle", seen |-> Absent]
Rows == {"message", "reservation"}

Init ==
  /\ reservation = "none" /\ expired = FALSE /\ message = "none" /\ ledger = {}
  /\ object = Absent /\ cleanup = [k \in Rows |-> "none"]
  /\ call = [c \in Calls |-> Idle] /\ staff = "idle"

Usable == reservation = "open" /\ ~expired

reserveDirectMessageAttachment ==
  /\ reservation = "none" /\ reservation' = "open"
  /\ UNCHANGED <<expired, message, ledger, object, cleanup, call, staff>>

(* storage.rules: created once, under a reservation that is still good *)
Upload ==
  /\ Usable /\ ~object.exists
  /\ object' = [exists |-> TRUE, token |-> TRUE, final |-> FALSE]
  /\ UNCHANGED <<docs, cleanup, call, staff>>

ReservationRunsOut ==
  /\ reservation = "open" /\ ~expired /\ expired' = TRUE
  /\ UNCHANGED <<reservation, message, ledger, object, cleanup, call, staff>>

--------------------------------
(* finalizeDirectMessageAttachment *)

(* The preflight answers a request that committed; anything else reads the
   reservation and the object, probes it and reads it again. *)
FinalizeStarts(c) ==
  /\ call[c].at = "idle"
  /\ \/ /\ requestOf[c] \in ledger
        /\ call' = [call EXCEPT ![c].at = "recover"]
     \/ /\ requestOf[c] \notin ledger
        /\ Usable /\ object.exists
        /\ call' = [call EXCEPT ![c] = [at |-> "checked", seen |-> object]]
  /\ UNCHANGED <<docs, object, cleanup, staff>>

Ends(c) == call' = [call EXCEPT ![c] = Idle]

Revoked(o) == [o EXCEPT !.token = FALSE]

(* revokeDownloadTokens: metadata without a token is taken as it was read;
   otherwise the token goes, on the object as it now is. *)
FinalizeSecures(c) ==
  /\ call[c].at = "checked"
  /\ LET seen == call[c].seen IN
     \/ /\ ~seen.token /\ ~seen.final
        /\ call' = [call EXCEPT ![c].at = "secured"] /\ UNCHANGED object
     \/ /\ ~seen.token /\ seen.final /\ Ends(c) /\ UNCHANGED object
     \/ /\ seen.token /\ object.exists
        /\ object' = Revoked(object)
        /\ IF object.final THEN Ends(c)
           ELSE call' = [call EXCEPT ![c] = [at |-> "secured", seen |-> object']]
     \/ seen.token /\ ~object.exists /\ Ends(c) /\ UNCHANGED object
  /\ UNCHANGED <<docs, cleanup, staff>>

(* mutant: the transaction trusts what was read before the probe *)
CommitTrusting(c) == TRUE
Commits(c) == Usable /\ message = "none"

FinalizeCommits(c) ==
  /\ call[c].at = "secured"
  /\ \/ /\ requestOf[c] \in ledger
        /\ call' = [call EXCEPT ![c].at = "committed"]
        /\ UNCHANGED docs
     \/ /\ requestOf[c] \notin ledger /\ Commits(c)
        /\ message' = "live" /\ reservation' = "gone"
        /\ ledger' = ledger \union {requestOf[c]}
        /\ call' = [call EXCEPT ![c].at = "committed"]
        /\ UNCHANGED expired
     \/ /\ requestOf[c] \notin ledger /\ ~Commits(c)
        /\ Ends(c) /\ UNCHANGED docs
  /\ UNCHANGED <<object, cleanup, staff>>

MarksFinal ==
  IF object.exists THEN object' = [object EXCEPT !.token = FALSE, !.final = TRUE]
                   ELSE UNCHANGED object

(* markDirectAttachmentFinalized; a missing object is an error to the client *)
FinalizeMarks(c) ==
  /\ call[c].at = "committed" /\ MarksFinal /\ Ends(c)
  /\ UNCHANGED <<docs, cleanup, staff>>

(* recoverDirectAttachmentFinalization: only for a message still there *)
FinalizeRecovers(c) ==
  /\ call[c].at = "recover" /\ Ends(c)
  /\ IF message = "live" THEN MarksFinal ELSE UNCHANGED object
  /\ UNCHANGED <<docs, cleanup, staff>>

(* The function dies, or privacy, a block or a restriction refuses it. *)
FinalizeStops(c) ==
  /\ call[c].at \in {"checked", "secured", "committed", "recover"} /\ Ends(c)
  /\ UNCHANGED <<docs, object, cleanup, staff>>

--------------------------------
(* Removal and cleanup *)

expireAbandonedAttachmentReservations ==
  /\ reservation = "open" /\ expired /\ reservation' = "gone"
  /\ cleanup' = [cleanup EXCEPT !["reservation"] = "pending"]
  /\ UNCHANGED <<expired, message, ledger, object, call, staff>>

deleteDirectMessage ==
  /\ message = "live" /\ message' = "deleted"
  /\ cleanup' = [cleanup EXCEPT !["message"] = "pending"]
  /\ UNCHANGED <<reservation, expired, ledger, object, call, staff>>

(* processCleanupOutbox: the object goes first, the row is closed after; a
   worker that dies between the two leaves a row that is done again. *)
CleanupDeletes(k) ==
  /\ cleanup[k] = "pending" /\ object' = Absent
  /\ cleanup' = [cleanup EXCEPT ![k] = "emptied"]
  /\ UNCHANGED <<docs, call, staff>>
CleanupCompletes(k) ==
  /\ cleanup[k] = "emptied" /\ cleanup' = [cleanup EXCEPT ![k] = "completed"]
  /\ UNCHANGED <<docs, object, call, staff>>
CleanupDies(k) ==
  /\ cleanup[k] = "emptied" /\ cleanup' = [cleanup EXCEPT ![k] = "pending"]
  /\ UNCHANGED <<docs, object, call, staff>>

(* adminDeleteMessage: the object, best effort, and then the tombstone *)
StaffDeletesObject ==
  /\ message = "live" /\ staff = "idle"
  /\ \/ staff' = "emptied" /\ object' = Absent
     \/ staff' = "failed" /\ UNCHANGED object
  /\ UNCHANGED <<docs, cleanup, call>>
StaffRedacts ==
  /\ staff \in {"emptied", "failed"} /\ message = "live"
  /\ message' = "deleted"
  /\ UNCHANGED <<reservation, expired, ledger, object, cleanup, call, staff>>

Finalizes(c) ==
  \/ FinalizeStarts(c) \/ FinalizeSecures(c) \/ FinalizeCommits(c)
  \/ FinalizeMarks(c) \/ FinalizeRecovers(c) \/ FinalizeStops(c)
Cleans(k) == CleanupDeletes(k) \/ CleanupCompletes(k)

Next ==
  \/ reserveDirectMessageAttachment \/ Upload \/ ReservationRunsOut
  \/ \E c \in Calls : Finalizes(c)
  \/ expireAbandonedAttachmentReservations \/ deleteDirectMessage
  \/ \E k \in Rows : Cleans(k) \/ CleanupDies(k)
  \/ StaffDeletesObject \/ StaffRedacts

Spec == Init /\ [][Next]_vars

--------------------------------
(* Properties *)

TypeOK ==
  /\ reservation \in {"none", "open", "gone"} /\ expired \in BOOLEAN
  /\ message \in {"none", "live", "deleted"} /\ ledger \subseteq Requests
  /\ object \in [exists : BOOLEAN, token : BOOLEAN, final : BOOLEAN]
  /\ cleanup \in [Rows -> {"none", "pending", "emptied", "completed"}]
  /\ staff \in {"idle", "emptied", "failed"}
  /\ \A c \in Calls : call[c].at \in {"idle", "checked", "secured", "committed", "recover"}

(* The media of a message that stands is never taken away under it, neither
   by the sweep of its reservation nor by a worker that is late, but by the
   staff removal that is about to redact it. *)
LiveMediaKept == message = "live" /\ staff = "idle" => object.exists

(* Nobody can read an upload before its message is published, and what is
   readable carries no permanent token. *)
ReadableMeansPublished == object.final => message # "none" /\ ~object.token

(* Every object is somebody's: of a reservation, of a message, or of a
   cleanup row that is not done; but for a staff removal that failed. *)
NoOrphanObject == object.exists =>
  \/ reservation = "open" \/ message = "live"
  \/ \E k \in Rows : cleanup[k] = "pending"
  \/ staff = "failed"

(* One message at most, and only one request that takes credit for it. *)
OnePublication == Cardinality(ledger) <= 1 /\ (message # "none" <=> ledger # {})

(* The four together: what the publication of an attachment promises. *)
AttachmentsSafe ==
  LiveMediaKept /\ ReadableMeansPublished /\ NoOrphanObject /\ OnePublication

=============================================================================
