----------------------------- MODULE ProfileMedia -----------------------------
(***************************************************************************)
(* The avatar and the banner of one account.  An upload is reserved under  *)
(* a lease per kind, the client puts the bytes into Storage, and finalizing *)
(* publishes them against the revision the reservation was made at.  A     *)
(* replaced image is not deleted there: an hourly sweep expires leases and *)
(* then deletes every object that no document refers to.                   *)
(* Source: functions/profile/media.js, media_cleanup.js,                   *)
(* media_migration.js (the inventory) and the users/profile rule.          *)
(***************************************************************************)
EXTENDS Integers, FiniteSets

CONSTANTS
  Uploads,       \* upload ids of the owner; each names one object path
  KindOf,        \* "avatar" or "banner"
  Calls,         \* callables of the owner that may overlap
  Budget,        \* reservations the daily byte budget admits
  Reading,       \* somebody else asks for the images
  MaxStops       \* bound: sweeps that die between two steps

Kinds == {"avatar", "banner"}

ProfileMediaAssumption ==
  /\ IsFiniteSet(Uploads) /\ IsFiniteSet(Calls)
  /\ KindOf \in [Uploads -> Kinds] /\ "none" \notin Uploads /\ Budget \in Nat
  /\ Reading \in BOOLEAN /\ MaxStops \in Nat

None == "none"
Generations == 0..Budget               \* 0: there is no object at the path
Revisions == 0..Cardinality(Uploads)
NoImage == [upload |-> None, generation |-> 0]
Images == [upload : Uploads \cup {None}, generation : Generations]
NoMedia == [k \in Kinds |-> NoImage]

VARIABLES
  account,      \* users/{owner}: "active", "restricted"
  media,        \* profileMedia/{owner}: its revision and the two images
  object,       \* Storage: the generation at each path
  uploaded,     \* objects created so far
  reservation,  \* profileMediaUploadReservations: live or not, and the base
  lease,        \* profileMediaUploadLeases/{owner}::{kind}: an upload, or None
  lapsed,       \* uploads whose expiresAt has passed
  reserved,     \* bytes the owner used today, counted in reservations
  finalized,    \* uploads with a finalization record
  reserveLedger, reservePreflight, finalPreflight,
  call, worker,
  stops,        \* sweeps that died
  audience,     \* the reader's audience: "shown", or "hidden" (a block, visibility)
  reader,       \* getProfileMediaAccess of that reader
  seen,         \* history: the media document each reservation was made at
  overtaken     \* history: upload ids reserved again under a call or sweep of their past

owner == <<reservation, lease, lapsed, reserved, finalized>>
ledgers == <<reserveLedger, reservePreflight, finalPreflight>>
storage == <<object, uploaded>>
reading == <<audience, reader>>
history == <<seen, overtaken>>
vars == <<account, media, storage, owner, ledgers, call, worker, stops, reading, history>>

IdleCall == [at |-> "idle", upload |-> None, generation |-> 0, base |-> 0, old |-> None]
IdleWorker == [at |-> "idle", upload |-> None]
IdleReader == [at |-> "idle", kind |-> "avatar", image |-> NoImage, revision |-> 0]

TypeOK ==
  /\ account \in {"active", "restricted"}
  /\ media \in [revision : Revisions, shown : [Kinds -> Images]]
  /\ object \in [Uploads -> Generations] /\ uploaded \in Generations
  /\ reservation \in [Uploads -> [live : BOOLEAN, base : Revisions]]
  /\ lease \in [Kinds -> Uploads \cup {None}]
  /\ lapsed \subseteq Uploads /\ finalized \subseteq Uploads /\ reserved \in 0..Budget
  /\ reserveLedger \subseteq Uploads /\ reservePreflight \subseteq Uploads
  /\ finalPreflight \in [Uploads -> Generations]
  /\ call \in [Calls -> [at : {"idle", "reserve", "replaced", "finalize", "read", "hardened"},
                         upload : Uploads \cup {None}, generation : Generations,
                         base : Revisions, old : Uploads \cup {None}]]
  /\ worker \in [at : {"idle", "expired", "inventory", "unshown", "orphan", "unshown again",
                       "delete"}, upload : Uploads \cup {None}]
  /\ stops \in 0..MaxStops /\ audience \in {"shown", "hidden"}
  /\ reader \in [at : {"idle", "authorized", "signed"}, kind : Kinds, image : Images,
                 revision : Revisions]
  /\ overtaken \subseteq Uploads

Init ==
  /\ account = "active" /\ media = [revision |-> 0, shown |-> NoMedia]
  /\ object = [u \in Uploads |-> 0] /\ uploaded = 0
  /\ reservation = [u \in Uploads |-> [live |-> FALSE, base |-> 0]]
  /\ lease = [k \in Kinds |-> None] /\ lapsed = {} /\ reserved = 0 /\ finalized = {}
  /\ reserveLedger = {} /\ reservePreflight = {} /\ finalPreflight = [u \in Uploads |-> 0]
  /\ call = [c \in Calls |-> IdleCall] /\ worker = IdleWorker /\ stops = 0
  /\ audience = "shown" /\ reader = IdleReader
  /\ seen = [u \in Uploads |-> NoMedia] /\ overtaken = {}

Ends(c) == call' = [call EXCEPT ![c] = IdleCall]
Goes(c, at) == call' = [call EXCEPT ![c].at = at]

Fails(c) ==
  /\ call[c].at # "idle"
  /\ Ends(c)
  /\ UNCHANGED <<account, media, storage, owner, ledgers, worker, reading, stops, history>>

(***************************************************************************)
(* reserveProfileMediaUpload.  The transaction needs the preflight of its  *)
(* attempt; an expired lease of the kind is replaced, its reservation with *)
(* it, and its object deleted afterwards, once.                            *)
(***************************************************************************)
beginReserve(c, u) ==
  /\ call[c].at = "idle"
  /\ call' = [call EXCEPT ![c] = [IdleCall EXCEPT !.at = "reserve", !.upload = u]]
  /\ reservePreflight' = reservePreflight \cup {u}
  /\ reserveLedger' = reserveLedger \ {x \in {u} : x \in lapsed}
  /\ UNCHANGED <<account, media, storage, owner, finalPreflight, worker, reading, stops, history>>

NeverFinalized(u) == u \notin finalized

AdmitsReserve(c, u) ==
  /\ call[c].at = "reserve" /\ call[c].upload = u
  /\ account = "active" /\ u \in reservePreflight /\ u \notin reserveLedger
  /\ NeverFinalized(u)

Answered(u) ==
  /\ reserveLedger' = reserveLedger \cup {u}
  /\ reservePreflight' = reservePreflight \ {u}
  /\ UNCHANGED finalPreflight

\* The reservation is there already: it is answered while its lease runs.
ReserveAgain(c, u) ==
  /\ AdmitsReserve(c, u)
  /\ reservation[u].live /\ u \notin lapsed /\ lease[KindOf[u]] = u
  /\ Answered(u)
  /\ Ends(c)
  /\ UNCHANGED <<account, media, storage, owner, worker, reading, stops, history>>

BudgetLeft == reserved < Budget
LeaseFree(k) == lease[k] = None \/ lease[k] \in lapsed

\* An earlier life of the upload id is not over: the sweep or a call that
\* replaced its lease has turned to the path, or a finalizer has read its bytes.
PastUnderWay(u) ==
  \/ worker.at # "idle" /\ worker.upload = u
  \/ \E c \in Calls : \/ call[c].at = "replaced" /\ call[c].old = u
                      \/ call[c].at = "hardened" /\ call[c].upload = u

\* The daily budget, and the reservation of the lease that is replaced.
reserveProfileMediaUpload(c, u) ==
  LET k == KindOf[u]
      old == lease[k]
  IN
  /\ AdmitsReserve(c, u)
  /\ ~reservation[u].live /\ LeaseFree(k) /\ BudgetLeft
  /\ reservation' = [v \in Uploads |->
       IF v = u THEN [live |-> TRUE, base |-> media.revision]
       ELSE IF v = old THEN [reservation[v] EXCEPT !.live = FALSE] ELSE reservation[v]]
  /\ lease' = [lease EXCEPT ![k] = u]
  /\ lapsed' = lapsed \ {u} /\ reserved' = reserved + 1
  /\ seen' = [seen EXCEPT ![u] = media.shown]
  /\ overtaken' = overtaken \cup {v \in {u} : PastUnderWay(v)}
  /\ Answered(u)
  /\ call' = [call EXCEPT ![c] = IF old = None THEN IdleCall
                                 ELSE [IdleCall EXCEPT !.at = "replaced", !.old = old]]
  /\ UNCHANGED <<account, media, storage, finalized, worker, reading, stops>>

DeleteReplaced(c) ==
  /\ call[c].at = "replaced"
  /\ object' = [object EXCEPT ![call[c].old] = 0]
  /\ Ends(c)
  /\ UNCHANGED <<account, media, uploaded, owner, ledgers, worker, reading, stops, history>>

Lapse(u) ==
  /\ reservation[u].live /\ u \notin lapsed
  /\ lapsed' = lapsed \cup {u}
  /\ UNCHANGED <<account, media, storage, reservation, lease, reserved, finalized, ledgers, call,
                 worker, reading, stops, history>>

\* storage.rules, users/{uid}/profile: create only, under a live reservation.
Upload(u) ==
  /\ object[u] = 0 /\ reservation[u].live /\ u \notin lapsed /\ uploaded < Budget
  /\ uploaded' = uploaded + 1
  /\ object' = [object EXCEPT ![u] = uploaded + 1]
  /\ UNCHANGED <<account, media, owner, ledgers, call, worker, reading, stops, history>>

(***************************************************************************)
(* finalizeProfileMediaUpload: attempt, first transaction, metadata and    *)
(* hardening, second transaction.  A copy of a finished call is answered   *)
(* from the ledger or the finalization record and is left out.             *)
(***************************************************************************)
beginFinalize(c, u) ==
  /\ call[c].at = "idle" /\ object[u] # 0
  /\ NeverFinalized(u) /\ finalPreflight[u] \in {0, object[u]}
  /\ finalPreflight' = [finalPreflight EXCEPT ![u] = object[u]]
  /\ call' = [call EXCEPT ![c] = [IdleCall EXCEPT !.at = "finalize", !.upload = u,
                                                  !.generation = object[u]]]
  /\ UNCHANGED <<account, media, storage, owner, reserveLedger, reservePreflight, worker, reading,
                 stops, history>>

HoldsSlot(u) == reservation[u].live /\ lease[KindOf[u]] = u
BaseIsCurrent(u) == media.revision = reservation[u].base

ReadReservation(c) ==
  LET u == call[c].upload IN
  /\ call[c].at = "finalize" /\ account = "active" /\ NeverFinalized(u)
  /\ HoldsSlot(u) /\ u \notin lapsed /\ BaseIsCurrent(u)
  /\ call' = [call EXCEPT ![c].at = "read", ![c].base = reservation[u].base]
  /\ UNCHANGED <<account, media, storage, owner, ledgers, worker, reading, stops, history>>

validateStoredProfileMedia(c) ==
  /\ call[c].at = "read" /\ object[call[c].upload] = call[c].generation
  /\ Goes(c, "hardened")
  /\ UNCHANGED <<account, media, storage, owner, ledgers, worker, reading, stops, history>>

\* The lease must still be this upload's; its expiry is not asked again.
finalizeProfileMediaUpload(c) ==
  LET u == call[c].upload
      k == KindOf[u]
  IN
  /\ call[c].at = "hardened" /\ account = "active" /\ NeverFinalized(u)
  /\ finalPreflight[u] = call[c].generation
  /\ HoldsSlot(u) /\ u \notin lapsed /\ reservation[u].base = call[c].base /\ BaseIsCurrent(u)
  /\ media' = [revision |-> media.revision + 1,
               shown |-> [media.shown EXCEPT ![k] =
                            [upload |-> u, generation |-> call[c].generation]]]
  /\ finalized' = finalized \cup {u}
  /\ reservation' = [reservation EXCEPT ![u].live = FALSE]
  /\ lease' = [lease EXCEPT ![k] = None]
  /\ finalPreflight' = [finalPreflight EXCEPT ![u] = 0]
  /\ reserveLedger' = reserveLedger \ {u} /\ reservePreflight' = reservePreflight \ {u}
  /\ Ends(c)
  /\ UNCHANGED <<account, storage, lapsed, reserved, worker, reading, stops, history>>

(***************************************************************************)
(* The hourly sweep, one run at a time: expired leases first, then a page  *)
(* of the bucket.  It may die anywhere.                                    *)
(***************************************************************************)
Shows(u) == media.shown[KindOf[u]].upload = u

cleanupExpiredLease(u) ==
  /\ worker.at = "idle" /\ lease[KindOf[u]] = u /\ u \in lapsed
  /\ reservation' = [reservation EXCEPT ![u].live = FALSE]
  /\ lease' = [lease EXCEPT ![KindOf[u]] = None]
  /\ worker' = IF Shows(u) THEN IdleWorker ELSE [at |-> "expired", upload |-> u]
  /\ UNCHANGED <<account, media, storage, lapsed, reserved, finalized, ledgers, call, reading, stops,
                 history>>

inventoryProfileMediaObjects(u) ==
  /\ worker.at = "idle" /\ object[u] # 0
  /\ worker' = [at |-> "inventory", upload |-> u]
  /\ UNCHANGED <<account, media, storage, owner, ledgers, call, reading, stops,
                 history>>

ReferencedByLease(u) == lease[KindOf[u]] = u /\ u \notin lapsed

Asks(from, to, referenced) ==
  /\ worker.at = from
  /\ worker' = IF referenced THEN IdleWorker ELSE [worker EXCEPT !.at = to]
  /\ UNCHANGED <<account, media, storage, owner, ledgers, call, reading, stops,
                 history>>

AskProfile == Asks("inventory", "unshown", Shows(worker.upload))
AskLease == Asks("unshown", "orphan", ReferencedByLease(worker.upload))
AskProfileAgain == Asks("orphan", "unshown again", Shows(worker.upload))
AskLeaseAgain == Asks("unshown again", "delete", ReferencedByLease(worker.upload))

DeleteObject ==
  /\ worker.at \in {"expired", "delete"}
  /\ object' = [object EXCEPT ![worker.upload] = 0]
  /\ worker' = IdleWorker
  /\ UNCHANGED <<account, media, uploaded, owner, ledgers, call, reading, stops,
                 history>>

SweepStops ==
  /\ worker.at # "idle" /\ stops < MaxStops
  /\ worker' = IdleWorker /\ stops' = stops + 1
  /\ UNCHANGED <<account, media, storage, owner, ledgers, call, reading, history>>

(***************************************************************************)
(* getProfileMediaAccess of somebody else.  A block looks like no image.   *)
(***************************************************************************)
authorizeMediaAccess(k) ==
  /\ Reading /\ reader.at = "idle" /\ account = "active" /\ audience = "shown"
  /\ media.shown[k] # NoImage
  /\ reader' = [at |-> "authorized", kind |-> k, image |-> media.shown[k],
                revision |-> media.revision]
  /\ UNCHANGED <<account, media, storage, owner, ledgers, call, worker, audience, stops, history>>

SignUrl ==
  /\ reader.at = "authorized" /\ object[reader.image.upload] = reader.image.generation
  /\ reader' = [reader EXCEPT !.at = "signed"]
  /\ UNCHANGED <<account, media, storage, owner, ledgers, call, worker, audience, stops, history>>

(* mutant: the second authorization compares the revision alone *)
sameAccessState_Revision == media.revision = reader.revision

sameAccessState ==
  /\ account = "active" /\ audience = "shown"
  /\ media.revision = reader.revision /\ media.shown[reader.kind] = reader.image

getProfileMediaAccess ==
  /\ reader.at = "signed" /\ sameAccessState
  /\ reader' = IdleReader
  /\ UNCHANGED <<account, media, storage, owner, ledgers, call, worker, audience, stops, history>>

ReaderGivesUp ==
  /\ reader.at # "idle"
  /\ reader' = IdleReader
  /\ UNCHANGED <<account, media, storage, owner, ledgers, call, worker, audience, stops, history>>

\* Visibility, friendships, blocks and the account's standing change.
AudienceChanges ==
  /\ Reading
  /\ \E to \in {"shown", "hidden"} : audience' = to
  /\ UNCHANGED <<account, media, storage, owner, ledgers, call, worker, reader, stops, history>>

AccountChanges ==
  /\ \E to \in {"active", "restricted"} : account' = to
  /\ UNCHANGED <<media, storage, owner, ledgers, call, worker, reading, stops, history>>

OwnerActs(c) ==
  \/ \E u \in Uploads :
       \/ beginReserve(c, u) \/ ReserveAgain(c, u) \/ reserveProfileMediaUpload(c, u)
       \/ beginFinalize(c, u)
  \/ DeleteReplaced(c)
  \/ ReadReservation(c) \/ validateStoredProfileMedia(c) \/ finalizeProfileMediaUpload(c)

AskSteps == AskProfile \/ AskLease \/ AskProfileAgain \/ AskLeaseAgain
ReaderActs == (\E k \in Kinds : authorizeMediaAccess(k)) \/ SignUrl \/ getProfileMediaAccess

Next ==
  \/ \E c \in Calls : OwnerActs(c) \/ Fails(c)
  \/ \E u \in Uploads :
       Upload(u) \/ Lapse(u) \/ cleanupExpiredLease(u) \/ inventoryProfileMediaObjects(u)
  \/ AskSteps \/ DeleteObject \/ SweepStops
  \/ ReaderActs \/ ReaderGivesUp \/ AudienceChanges \/ AccountChanges

Spec == Init /\ [][Next]_vars

(***************************************************************************)
(* Properties                                                              *)
(***************************************************************************)
\* An image the profile shows is in Storage, in the generation it names: no
\* sweep, torn check or late deletion takes the bytes of a shown image, unless
\* the upload id was reserved again while that very deletion, or a finalizer
\* that had read the bytes of its earlier reservation, was under way.
ShownImageExists ==
  \A k \in Kinds : media.shown[k] # NoImage /\ media.shown[k].upload \notin overtaken =>
    object[media.shown[k].upload] = media.shown[k].generation

\* Finalizing changes exactly the profile its owner saw when reserving: of
\* two uploads under way the slower one never undoes the faster one.
OwnerSawWhatGoes ==
  \A k \in Kinds : media'.shown[k] # media.shown[k] =>
    seen[media'.shown[k].upload] = media.shown

NothingIsReplacedUnseen == [][OwnerSawWhatGoes]_vars

\* One upload of a kind at a time: no two live reservations admit bytes.
OneUploadPerKind ==
  \A u, v \in Uploads :
    (/\ KindOf[u] = KindOf[v] /\ {u, v} \cap lapsed = {}
     /\ reservation[u].live /\ reservation[v].live) => u = v

\* A URL that is handed out is for the image the profile shows, in Storage
\* but for what its reservation overtook.
ImageIsShown ==
  reader.at = "signed" /\ getProfileMediaAccess =>
    /\ audience = "shown" /\ account = "active"
    /\ \/ object[reader.image.upload] = reader.image.generation
       \/ reader.image.upload \in overtaken

GrantShowsTheImage == [][ImageIsShown]_vars

=============================================================================
