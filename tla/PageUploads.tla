----------------------------- MODULE PageUploads -----------------------------
(***************************************************************************)
(* How media reaches a Page post.  The owner reserves a set of objects     *)
(* under one lease of fifteen minutes, the client uploads them straight to *)
(* Storage under the rules, and publishing verifies every object outside   *)
(* its transaction before the post names it.  Three sweepers delete        *)
(* objects meanwhile: the expiry of reservations, the daily orphan sweep   *)
(* over everything no document names, and the deletion of the account.     *)
(* Source: functions/pages/posts.js, maintenance.js, account_deletion.js,  *)
(* media_storage.js and the page_posts rule of storage.rules.              *)
(***************************************************************************)
EXTENDS Integers, FiniteSets

CONSTANTS
  Uploads,       \* request ids of reservePagePostMediaV1, each naming a post
  Media,         \* media ids
  MediaOf,       \* the media ids of each upload
  Publishers,    \* calls of publishPagePostV1 that may overlap
  MaxObjects,    \* bound: objects a client ever creates at one path
  MaxCrashes     \* bound: maintenance runs that die between two steps

PageUploadsAssumption ==
  /\ IsFiniteSet(Uploads) /\ IsFiniteSet(Media) /\ IsFiniteSet(Publishers)
  /\ MediaOf \in [Uploads -> SUBSET Media]
  /\ \A u, v \in Uploads : u # v => MediaOf[u] \cap MediaOf[v] = {}
  /\ "none" \notin Uploads
  /\ MaxObjects \in Nat /\ MaxCrashes \in Nat

None == "none"
UploadOf(m) == CHOOSE u \in Uploads : m \in MediaOf[u]
Generations == 0..MaxObjects      \* 0: there is no object at the path

VARIABLES
  reservation,  \* pagePostMediaReservations: "none", "uploading", "expiring"
  lease,        \* pagePostMediaLeases/{owner}: the upload, or None
  made,         \* uploads whose request has a ledger receipt
  expired,      \* uploads whose expiresAt has passed
  object,       \* Storage: the generation at each media path
  created,      \* the objects ever created at each path
  sending,      \* uploads on the wire that the rules admitted
  old,          \* objects older than an hour
  post,         \* pagePosts: "none", "published", "gone", and the media named
  job,          \* pagePostMediaDeletionJobs: the generation to delete, or 0
  publisher, expirer, orphans, walker,
  leaving, crashes

vars == <<reservation, lease, made, expired, object, created, sending, old, post, job,
          publisher, expirer, orphans, walker, leaving, crashes>>

NoMedia == [m \in Media |-> 0]
IdlePublisher == [at |-> "idle", upload |-> None, media |-> {}, seen |-> NoMedia, sure |-> {}]
IdleExpirer == [at |-> "idle", media |-> None, generation |-> 0]
IdleOrphans == [at |-> "idle", media |-> None, generation |-> 0]

TypeOK ==
  /\ reservation \in [Media -> {"none", "uploading", "expiring"}]
  /\ lease \in Uploads \cup {None}
  /\ made \subseteq Uploads /\ expired \subseteq made
  /\ object \in [Media -> Generations] /\ created \in [Media -> Generations]
  /\ sending \subseteq Media /\ old \subseteq {m \in Media : object[m] # 0}
  /\ post \in [Uploads -> [status : {"none", "published", "gone"}, media : [Media -> Generations]]]
  /\ job \in [Media -> Generations]
  /\ publisher \in [Publishers ->
       [at : {"idle", "verify"}, upload : Uploads \cup {None}, media : SUBSET Media,
        seen : [Media -> Generations], sure : SUBSET Media]]
  /\ expirer \in [at : {"idle", "claimed", "looked", "deleted"}, media : Media \cup {None},
                  generation : Generations]
  /\ orphans \in [at : {"idle", "listed", "posts", "reservations", "jobs"},
                  media : Media \cup {None}, generation : Generations]
  /\ walker \in Media \cup {None}
  /\ leaving \in BOOLEAN /\ crashes \in 0..MaxCrashes

Init ==
  /\ reservation = [m \in Media |-> "none"] /\ lease = None
  /\ made = {} /\ expired = {} /\ sending = {} /\ old = {}
  /\ object = NoMedia /\ created = NoMedia /\ job = NoMedia
  /\ post = [u \in Uploads |-> [status |-> "none", media |-> NoMedia]]
  /\ publisher = [c \in Publishers |-> IdlePublisher]
  /\ expirer = IdleExpirer /\ orphans = IdleOrphans /\ walker = None
  /\ leaving = FALSE /\ crashes = 0

(***************************************************************************)
(* reservePagePostMediaV1: one set of uploads at a time.  A retry of a     *)
(* reserved request answers from its receipt and changes nothing.          *)
(***************************************************************************)
Reserve(u) ==
  /\ ~leaving /\ u \notin made
  /\ lease = None \/ lease \in expired
  /\ made' = made \cup {u}
  /\ reservation' = [m \in Media |-> IF m \in MediaOf[u] THEN "uploading" ELSE reservation[m]]
  /\ lease' = u
  /\ UNCHANGED <<expired, object, created, sending, old, post, job, publisher, expirer, orphans,
                 walker, leaving, crashes>>

\* Fifteen minutes pass: every reservation of the set, and its lease, expire.
Expires(u) ==
  /\ u \in made \ expired
  /\ expired' = expired \cup {u}
  /\ UNCHANGED <<reservation, lease, made, object, created, sending, old, post, job, publisher,
                 expirer, orphans, walker, leaving, crashes>>

(***************************************************************************)
(* The client.  The rules admit the creation of an absent object under a   *)
(* live reservation; the bytes may arrive after that was judged.           *)
(***************************************************************************)
BeginUpload(m) ==
  /\ ~leaving /\ m \notin sending /\ object[m] = 0 /\ created[m] < MaxObjects
  /\ reservation[m] = "uploading" /\ UploadOf(m) \notin expired
  /\ sending' = sending \cup {m}
  /\ UNCHANGED <<reservation, lease, made, expired, object, created, old, post, job, publisher,
                 expirer, orphans, walker, leaving, crashes>>

Lands(m) ==
  /\ m \in sending
  /\ sending' = sending \ {m}
  /\ IF object[m] = 0
       THEN /\ object' = [object EXCEPT ![m] = created[m] + 1]
            /\ created' = [created EXCEPT ![m] = @ + 1]
       ELSE UNCHANGED <<object, created>>
  /\ UNCHANGED <<reservation, lease, made, expired, old, post, job, publisher, expirer, orphans,
                 walker, leaving, crashes>>

(***************************************************************************)
(* publishPagePostV1.  It judges expiry by the time it started, in the     *)
(* transaction too; what it sees of the objects it sees outside.           *)
(***************************************************************************)
StartPublish(c, u, chosen) ==
  /\ publisher[c].at = "idle" /\ ~leaving
  /\ lease = u /\ u \notin expired
  /\ chosen # {} /\ \A m \in chosen : reservation[m] = "uploading"
  /\ publisher' = [publisher EXCEPT ![c] =
       [at |-> "verify", upload |-> u, media |-> chosen, seen |-> NoMedia, sure |-> {}]]
  /\ UNCHANGED <<reservation, lease, made, expired, object, created, sending, old, post, job,
                 expirer, orphans, walker, leaving, crashes>>

\* The metadata and the probe.
Probe(c, m) ==
  /\ publisher[c].at = "verify" /\ m \in publisher[c].media
  /\ publisher[c].seen[m] = 0 /\ object[m] # 0
  /\ publisher' = [publisher EXCEPT ![c].seen[m] = object[m]]
  /\ UNCHANGED <<reservation, lease, made, expired, object, created, sending, old, post, job,
                 expirer, orphans, walker, leaving, crashes>>

\* The second look, and the hardening of exactly that generation.
Harden(c, m) ==
  /\ publisher[c].at = "verify" /\ m \in publisher[c].media \ publisher[c].sure
  /\ publisher[c].seen[m] # 0 /\ object[m] = publisher[c].seen[m]
  /\ publisher' = [publisher EXCEPT ![c].sure = @ \cup {m}]
  /\ UNCHANGED <<reservation, lease, made, expired, object, created, sending, old, post, job,
                 expirer, orphans, walker, leaving, crashes>>

\* Some object is missing, was replaced or is refused.
GiveUp(c) ==
  /\ publisher[c].at = "verify"
  /\ publisher' = [publisher EXCEPT ![c] = IdlePublisher]
  /\ UNCHANGED <<reservation, lease, made, expired, object, created, sending, old, post, job,
                 expirer, orphans, walker, leaving, crashes>>

(* mutant: the transaction trusts the reservations it read before *)
CommitPublishUnchecked(c) ==
  LET p == publisher[c]
      u == p.upload
  IN
  /\ p.at = "verify" /\ p.sure = p.media
  /\ ~leaving /\ post[u].status = "none"
  /\ post' = [post EXCEPT ![u] =
       [status |-> "published", media |-> [m \in Media |-> IF m \in p.media THEN p.seen[m] ELSE 0]]]
  /\ reservation' = [m \in Media |-> IF m \in MediaOf[u] THEN "none" ELSE reservation[m]]
  /\ lease' = None
  /\ publisher' = [publisher EXCEPT ![c] = IdlePublisher]
  /\ UNCHANGED <<made, expired, object, created, sending, old, job, expirer, orphans, walker,
                 leaving, crashes>>

\* Every reservation of the set goes, those of unused objects included.
CommitPublish(c) ==
  LET p == publisher[c]
      u == p.upload
  IN
  /\ p.at = "verify" /\ p.sure = p.media
  /\ ~leaving /\ post[u].status = "none" /\ lease = u
  /\ \A m \in p.media : reservation[m] = "uploading"
  /\ post' = [post EXCEPT ![u] =
       [status |-> "published", media |-> [m \in Media |-> IF m \in p.media THEN p.seen[m] ELSE 0]]]
  /\ reservation' = [m \in Media |-> IF m \in MediaOf[u] THEN "none" ELSE reservation[m]]
  /\ lease' = None
  /\ publisher' = [publisher EXCEPT ![c] = IdlePublisher]
  /\ UNCHANGED <<made, expired, object, created, sending, old, job, expirer, orphans, walker,
                 leaving, crashes>>

\* The owner, or the walk that deletes the account, removes the post.
DeletePost(u) ==
  /\ post[u].status = "published"
  /\ post' = [post EXCEPT ![u] = [status |-> "gone", media |-> NoMedia]]
  /\ job' = [m \in Media |-> IF post[u].media[m] # 0 THEN post[u].media[m] ELSE job[m]]
  /\ UNCHANGED <<reservation, lease, made, expired, object, created, sending, old, publisher,
                 expirer, orphans, walker, leaving, crashes>>

(***************************************************************************)
(* pagesMaintenance.  Deletions name the generation they mean.             *)
(***************************************************************************)
WithoutObject(m, generation) ==
  /\ object' = IF object[m] = generation THEN [object EXCEPT ![m] = 0] ELSE object
  /\ old' = IF object[m] = generation THEN old \ {m} ELSE old

DeleteByJob(m) ==
  /\ job[m] # 0
  /\ WithoutObject(m, job[m])
  /\ job' = [job EXCEPT ![m] = 0]
  /\ UNCHANGED <<reservation, lease, made, expired, created, sending, post, publisher, expirer,
                 orphans, walker, leaving, crashes>>

ClaimExpired(m) ==
  /\ expirer.at = "idle" /\ reservation[m] # "none" /\ UploadOf(m) \in expired
  /\ reservation' = [reservation EXCEPT ![m] = "expiring"]
  /\ expirer' = [at |-> "claimed", media |-> m, generation |-> 0]
  /\ UNCHANGED <<lease, made, expired, object, created, sending, old, post, job, publisher,
                 orphans, walker, leaving, crashes>>

LookAtExpired ==
  /\ expirer.at = "claimed"
  /\ expirer' = [expirer EXCEPT !.at = "looked", !.generation = object[expirer.media]]
  /\ UNCHANGED <<reservation, lease, made, expired, object, created, sending, old, post, job,
                 publisher, orphans, walker, leaving, crashes>>

DeleteExpired ==
  /\ expirer.at = "looked"
  /\ expirer' = [expirer EXCEPT !.at = "deleted"]
  /\ IF expirer.generation = 0 THEN UNCHANGED <<object, old>>
                               ELSE WithoutObject(expirer.media, expirer.generation)
  /\ UNCHANGED <<reservation, lease, made, expired, created, sending, post, job, publisher,
                 orphans, walker, leaving, crashes>>

(* mutant: any expired set of the owner takes the lease along *)
LeaseToDropAny(u) == lease # None /\ u \in expired

\* The row goes, and the lease if it is still this upload's and has run out.
LeaseToDrop(u) == lease = u /\ u \in expired

SettleExpired ==
  LET m == expirer.media IN
  /\ expirer.at = "deleted"
  /\ expirer' = IdleExpirer
  /\ reservation' = IF reservation[m] = "expiring" THEN [reservation EXCEPT ![m] = "none"]
                                                   ELSE reservation
  /\ lease' = IF LeaseToDrop(UploadOf(m)) THEN None ELSE lease
  /\ UNCHANGED <<made, expired, object, created, sending, old, post, job, publisher, orphans,
                 walker, leaving, crashes>>

Crash ==
  /\ crashes < MaxCrashes /\ expirer.at # "idle"
  /\ crashes' = crashes + 1 /\ expirer' = IdleExpirer
  /\ UNCHANGED <<reservation, lease, made, expired, object, created, sending, old, post, job,
                 publisher, orphans, walker, leaving>>

(***************************************************************************)
(* An hour is four times the life of a reservation, so by the time an      *)
(* object is that old its upload expired long ago and no call of publish   *)
(* that started before the expiry still runs.                              *)
(***************************************************************************)
GrowsOld(m) ==
  /\ object[m] # 0 /\ m \notin old /\ UploadOf(m) \in expired
  /\ \A c \in Publishers : publisher[c].upload # UploadOf(m)
  /\ old' = old \cup {m}
  /\ UNCHANGED <<reservation, lease, made, expired, object, created, sending, post, job,
                 publisher, expirer, orphans, walker, leaving, crashes>>

Referenced(m) == post[UploadOf(m)].media[m] # 0

ListOrphans(m) ==
  /\ orphans.at = "idle" /\ m \in old
  /\ orphans' = [at |-> "listed", media |-> m, generation |-> object[m]]
  /\ UNCHANGED <<reservation, lease, made, expired, object, created, sending, old, post, job,
                 publisher, expirer, walker, leaving, crashes>>

\* The posts, the reservations and the jobs are read one after another.
OrphanReads(from, to, keeps) ==
  /\ orphans.at = from
  /\ orphans' = IF keeps THEN IdleOrphans ELSE [orphans EXCEPT !.at = to]
  /\ UNCHANGED <<reservation, lease, made, expired, object, created, sending, old, post, job,
                 publisher, expirer, walker, leaving, crashes>>

ReadPosts == OrphanReads("listed", "posts", Referenced(orphans.media))
ReadReservations == OrphanReads("posts", "reservations", reservation[orphans.media] # "none")
ReadJobs == OrphanReads("reservations", "jobs", job[orphans.media] # 0)

DeleteOrphan ==
  /\ orphans.at = "jobs"
  /\ orphans' = IdleOrphans
  /\ WithoutObject(orphans.media, orphans.generation)
  /\ UNCHANGED <<reservation, lease, made, expired, created, sending, post, job, publisher,
                 expirer, walker, leaving, crashes>>

(***************************************************************************)
(* The account deletion walk: posts first (DeletePost), then what jobs and *)
(* reservations name, by path, the row after its object.                   *)
(***************************************************************************)
Leave ==
  /\ ~leaving
  /\ leaving' = TRUE
  /\ UNCHANGED <<reservation, lease, made, expired, object, created, sending, old, post, job,
                 publisher, expirer, orphans, walker, crashes>>

SweepReservation(m) ==
  /\ leaving /\ walker = None /\ reservation[m] # "none"
  /\ \A u \in Uploads : post[u].status # "published"
  /\ walker' = m
  /\ object' = [object EXCEPT ![m] = 0] /\ old' = old \ {m}
  /\ UNCHANGED <<reservation, lease, made, expired, created, sending, post, job, publisher,
                 expirer, orphans, leaving, crashes>>

ForgetReservation ==
  /\ walker # None
  /\ reservation' = [reservation EXCEPT ![walker] = "none"]
  /\ walker' = None
  /\ UNCHANGED <<lease, made, expired, object, created, sending, old, post, job, publisher,
                 expirer, orphans, leaving, crashes>>

Client == \E m \in Media : BeginUpload(m) \/ Lands(m)
Owner == \E u \in Uploads : Reserve(u) \/ DeletePost(u)
Publish ==
  \E c \in Publishers :
    \/ \E u \in Uploads : \E chosen \in SUBSET MediaOf[u] : StartPublish(c, u, chosen)
    \/ \E m \in Media : Probe(c, m) \/ Harden(c, m)
    \/ GiveUp(c) \/ CommitPublish(c)
Expiry ==
  \/ \E m \in Media : ClaimExpired(m)
  \/ LookAtExpired \/ DeleteExpired \/ SettleExpired
OrphanSweep ==
  \/ \E m \in Media : ListOrphans(m)
  \/ ReadPosts \/ ReadReservations \/ ReadJobs \/ DeleteOrphan
AccountWalk == (\E m \in Media : SweepReservation(m)) \/ ForgetReservation
Time == (\E u \in Uploads : Expires(u)) \/ (\E m \in Media : GrowsOld(m))

Next ==
  \/ Client \/ Owner \/ Publish \/ Expiry \/ OrphanSweep \/ AccountWalk \/ Time
  \/ \E m \in Media : DeleteByJob(m)
  \/ Crash \/ Leave

Spec == Init /\ [][Next]_vars

--------------------------------
(***************************************************************************)
(* A published post's media is there, and is the very object that was      *)
(* verified and hardened, whatever the three sweepers deleted meanwhile.   *)
(***************************************************************************)
PublishedHasItsBytes ==
  \A u \in Uploads : post[u].status = "published" =>
    \A m \in Media : post[u].media[m] # 0 => object[m] = post[u].media[m]

(***************************************************************************)
(* An owner has one live set of reservations at a time, and its lease is   *)
(* the one on record: late expiry work of an older set never frees it.     *)
(***************************************************************************)
OneSetAtATime ==
  ~leaving =>
    \A m \in Media : reservation[m] = "uploading" /\ UploadOf(m) \notin expired
      => lease = UploadOf(m)

=============================================================================
