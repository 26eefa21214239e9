----------------------------- MODULE ServerMedia -----------------------------
(***************************************************************************)
(* Private media of a server: Company Files, Family Memories (a photo and  *)
(* a voice note) and the photos and videos of text channels.  The three    *)
(* follow one pattern.  A reservation with an expiry and one lease per     *)
(* member lets the client create the objects; finalize verifies them       *)
(* outside its transaction and publishes a row; a reader gets signed URLs  *)
(* between two authorizations; a removal leaves a durable job.  Scheduled  *)
(* sweeps expire reservations and finish jobs, and the deletion of the     *)
(* channel or of the server drains what is left.  Kind selects the service *)
(* an instance is about.  Source: functions/servers/company_files.js,      *)
(* family_memories.js, message_media.js and content_cleanup.js.            *)
(***************************************************************************)
EXTENDS Integers, FiniteSets

CONSTANTS
  Kind,         \* "file", "memory" or "message"
  Items,        \* the ids a reserve request derives, one per request
  Owners, OwnerOf,
  Parts,        \* the objects of an item
  MaxObjects,   \* bound: objects a client ever creates at one path
  MaxAcl,       \* bound: changes of the reader's access
  MaxFailures,  \* bound: worker runs that die or meet a Storage error
  Removable     \* the channel, or its server, may be deleted

ServerMediaAssumption ==
  /\ Kind \in {"file", "memory", "message"} /\ Removable \in BOOLEAN
  /\ IsFiniteSet(Items) /\ OwnerOf \in [Items -> Owners] /\ "none" \notin Items
  /\ IsFiniteSet(Parts) /\ Parts # {}
  /\ MaxObjects \in Nat /\ MaxAcl \in Nat /\ MaxFailures \in Nat

None == "none"
Generations == [Parts -> 0..MaxObjects]     \* 0: there is no object
NoBytes == [p \in Parts |-> 0]

VARIABLES
  reservation,  \* "none", "uploading", "expiring"
  lease,        \* the upload lease of each owner: an item, or None
  made,         \* items whose reserve request has a ledger receipt
  expired,      \* items whose expiresAt has passed
  object,       \* Storage: the generation at each path
  created,      \* objects ever created at each path
  row,          \* the published document and the generations it names
  job,          \* deletion jobs: the generations to delete, NoBytes if none
  index,        \* serverMessageMediaObjects, rows of the owner index
  final,        \* a finalize call of the owner, per item
  expirer,      \* the expiry sweep, at one reservation
  worker,       \* a run of a deletion job
  reader, acl,  \* one reader's call, and the revision of the reader's access
  phase,        \* how far the teardown of the channel or server is
  tear,         \* the step of the teardown in progress
  failures

vars == <<reservation, lease, made, expired, object, created, row, job, index, final,
          expirer, worker, reader, acl, phase, tear, failures>>
uploads == <<reservation, lease, made, expired>>
content == <<row, job, index>>
storage == <<object, created>>
teardown == <<phase, tear>>

AllPhases == [file    |-> <<"open", "files", "gone">>,
              memory  |-> <<"open", "moments", "reservations", "jobs", "storage", "gone">>,
              message |-> <<"open", "messages", "prefix", "gone">>]
(* mutant: the storage prefix is drained before the reservations are retired *)
Phases_StorageFirst == [AllPhases EXCEPT !.memory = <<"open", "moments", "storage", "reservations", "jobs", "gone">>][Kind]

Phases == AllPhases[Kind]
PhaseAfter(p) == Phases[1 + CHOOSE n \in DOMAIN Phases : Phases[n] = p]

NoRow == [status |-> "none", generation |-> NoBytes]
IdleFinal == [at |-> "idle", generation |-> NoBytes]
IdleExpirer == [at |-> "idle", item |-> None]
IdleWorker == [at |-> "idle", item |-> None, generation |-> NoBytes]
IdleReader == [at |-> "idle", item |-> None, acl |-> 0, generation |-> NoBytes]
IdleTear == [at |-> "idle", task |-> None, item |-> None, listed |-> [i \in Items |-> NoBytes]]

TypeOK ==
  /\ reservation \in [Items -> {"none", "uploading", "expiring"}]
  /\ lease \in [Owners -> Items \cup {None}]
  /\ made \subseteq Items /\ expired \subseteq made /\ index \subseteq Items
  /\ object \in [Items -> Generations] /\ created \in [Items -> Generations]
  /\ row \in [Items -> [status : {"none", "published", "deleting", "removed"}, generation : Generations]]
  /\ job \in [Items -> Generations]
  /\ final \in [Items -> [at : {"idle", "planned", "verified"}, generation : Generations]]
  /\ expirer \in [at : {"idle", "claimed", "erased"}, item : Items \cup {None}]
  /\ worker \in [at : {"idle", "read", "erased"}, item : Items \cup {None}, generation : Generations]
  /\ reader \in [at : {"idle", "authorized", "signed"}, item : Items \cup {None},
                 acl : 0..MaxAcl, generation : Generations]
  /\ acl \in 0..MaxAcl /\ failures \in 0..MaxFailures
  /\ \E n \in DOMAIN Phases : phase = Phases[n]
  /\ tear \in [at : {"idle", "planned", "erased"}, task : {None, "reservation", "deletion", "prefix"},
               item : Items \cup {None}, listed : [Items -> Generations]]

Init ==
  /\ reservation = [i \in Items |-> "none"] /\ lease = [o \in Owners |-> None]
  /\ made = {} /\ expired = {} /\ index = {}
  /\ object = [i \in Items |-> NoBytes] /\ created = [i \in Items |-> NoBytes]
  /\ row = [i \in Items |-> NoRow] /\ job = [i \in Items |-> NoBytes]
  /\ final = [i \in Items |-> IdleFinal]
  /\ expirer = IdleExpirer /\ worker = IdleWorker
  /\ reader = IdleReader /\ acl = 0
  /\ phase = "open" /\ tear = IdleTear /\ failures = 0

(* Even revisions: the channel is readable for the reader. *)
mayRead == phase = "open" /\ acl % 2 = 0
Fail == failures < MaxFailures /\ failures' = failures + 1

--------------------------------
(* Reserve, upload, finalize *)

(* One live upload per member; an expired lease is replaced. *)
LeaseFree(o) == lease[o] = None \/ lease[o] \in expired

Reserve(i) ==
  /\ phase = "open" /\ i \notin made
  /\ row[i].status = "none" /\ reservation[i] = "none"
  /\ LeaseFree(OwnerOf[i])
  /\ reservation' = [reservation EXCEPT ![i] = "uploading"]
  /\ lease' = [lease EXCEPT ![OwnerOf[i]] = i]
  /\ made' = made \cup {i}
  /\ UNCHANGED <<expired, storage, content, final, expirer, worker, reader, acl, teardown, failures>>

reserveServerCompanyFileV1(i) == Kind = "file" /\ Reserve(i)
reserveServerFamilyMemoryV1(i) == Kind = "memory" /\ Reserve(i)
reserveServerChannelMessageMediaV1(i) == Kind = "message" /\ Reserve(i)

(* The rules of Storage: create only, under a live reservation. *)
liveReservation(i) == reservation[i] = "uploading" /\ i \notin expired

Upload(i, p) ==
  /\ liveReservation(i) /\ object[i][p] = 0 /\ created[i][p] < MaxObjects
  /\ object' = [object EXCEPT ![i][p] = created[i][p] + 1]
  /\ created' = [created EXCEPT ![i][p] = @ + 1]
  /\ UNCHANGED <<uploads, content, final, expirer, worker, reader, acl, teardown, failures>>

Expire(i) ==
  /\ i \in made \ expired
  /\ expired' = expired \cup {i}
  /\ UNCHANGED <<reservation, lease, made, storage, content, final, expirer, worker, reader, acl,
                 teardown, failures>>

readFinalizePlan(i) ==
  /\ phase = "open" /\ final[i].at = "idle" /\ row[i].status = "none"
  /\ reservation[i] = "uploading" /\ i \notin expired
  /\ final' = [final EXCEPT ![i].at = "planned"]
  /\ UNCHANGED <<uploads, storage, content, expirer, worker, reader, acl, teardown, failures>>

(* The bytes are probed at the generations the client names; the clock of *)
(* the transaction that follows is read right after. *)
verifyUploaded(i) ==
  /\ final[i].at = "planned"
  /\ final' = [final EXCEPT ![i] =
       IF (\A p \in Parts : object[i][p] # 0) /\ i \notin expired
         THEN [at |-> "verified", generation |-> object[i]] ELSE IdleFinal]
  /\ UNCHANGED <<uploads, storage, content, expirer, worker, reader, acl, teardown, failures>>

(* What the finalizing transaction re-reads before it publishes. *)
StillReserved(i) ==
  /\ phase = "open" /\ row[i].status = "none"
  /\ reservation[i] = "uploading" /\ lease[OwnerOf[i]] = i

Publish(i) ==
  /\ final[i].at = "verified" /\ StillReserved(i)
  /\ row' = [row EXCEPT ![i] = [status |-> "published", generation |-> final[i].generation]]
  /\ reservation' = [reservation EXCEPT ![i] = "none"]
  /\ lease' = [lease EXCEPT ![OwnerOf[i]] = None]
  /\ final' = [final EXCEPT ![i] = IdleFinal]
  /\ UNCHANGED <<made, expired, storage, job, expirer, worker, reader, acl, teardown, failures>>

finalizeServerCompanyFileV1(i) == Kind = "file" /\ Publish(i) /\ index' = index
finalizeServerFamilyMemoryV1(i) == Kind = "memory" /\ Publish(i) /\ index' = index
finalizeServerChannelMessageMediaV1(i) ==
  Kind = "message" /\ i \notin index /\ Publish(i) /\ index' = index \cup {i}

FinalizeRefused(i) ==
  /\ final[i].at = "verified" /\ ~StillReserved(i)
  /\ final' = [final EXCEPT ![i] = IdleFinal]
  /\ UNCHANGED <<uploads, storage, content, expirer, worker, reader, acl, teardown, failures>>

--------------------------------
(* A reader: authorize, sign, authorize again *)

ChangeAccess ==
  /\ acl < MaxAcl /\ acl' = acl + 1
  /\ UNCHANGED <<uploads, storage, content, final, expirer, worker, reader, teardown, failures>>

authorizeAccess(i) ==
  /\ reader.at = "idle" /\ mayRead /\ row[i].status = "published"
  /\ reader' = [at |-> "authorized", item |-> i, acl |-> acl, generation |-> row[i].generation]
  /\ UNCHANGED <<uploads, storage, content, final, expirer, worker, acl, teardown, failures>>

(* The object is looked up at its generation; a message's is skipped. *)
Sign ==
  /\ reader.at = "authorized"
  /\ reader' = IF object[reader.item] = reader.generation
                 THEN [reader EXCEPT !.at = "signed"] ELSE IdleReader
  /\ UNCHANGED <<uploads, storage, content, final, expirer, worker, acl, teardown, failures>>

sameAccess ==
  /\ mayRead /\ acl = reader.acl
  /\ row[reader.item] = [status |-> "published", generation |-> reader.generation]

Grant ==
  /\ reader.at = "signed" /\ sameAccess
  /\ reader' = IdleReader
  /\ UNCHANGED <<uploads, storage, content, final, expirer, worker, acl, teardown, failures>>

getServerCompanyFileAccessV1 == Kind = "file" /\ Grant
getServerFamilyMemoryMediaAccessV1 == Kind = "memory" /\ Grant
getServerChannelMessageMediaAccessV1 == Kind = "message" /\ Grant

GrantAborted ==
  /\ reader.at = "signed" /\ ~sameAccess
  /\ reader' = IdleReader
  /\ UNCHANGED <<uploads, storage, content, final, expirer, worker, acl, teardown, failures>>

--------------------------------
(* Removal: the row turns, a job is written, and a run of the job follows *)

Stage(i, status) ==
  /\ phase = "open" /\ row[i].status = "published"
  /\ job' = [job EXCEPT ![i] = row[i].generation]
  /\ row' = [row EXCEPT ![i].status = status]
  /\ UNCHANGED <<uploads, storage, index, final, expirer, worker, reader, acl, teardown, failures>>

deleteServerCompanyFileV1(i) == Kind = "file" /\ job[i] = NoBytes /\ Stage(i, "deleting")
deleteServerFamilyMemoryV1(i) == Kind = "memory" /\ job[i] = NoBytes /\ Stage(i, "deleting")
deleteServerChannelMessageV1(i) == Kind = "message" /\ Stage(i, "removed")

(* The caller of the removal, or the schedule. *)
ReadJob(i) ==
  /\ worker.at = "idle" /\ job[i] # NoBytes
  /\ Kind # "message" => row[i].status \in {"none", "deleting"}
  /\ worker' = [at |-> "read", item |-> i, generation |-> job[i]]
  /\ UNCHANGED <<uploads, storage, content, final, expirer, reader, acl, teardown, failures>>

(* Storage deletes by generation; a missing object is fine. *)
Erased(o, generation, parts) ==
  [p \in Parts |-> IF p \in parts /\ o[p] = generation[p] THEN 0 ELSE o[p]]
Matches(o, generation) == \A p \in Parts : o[p] \in {0, generation[p]}

EraseForJob ==
  /\ worker.at = "read" /\ Matches(object[worker.item], worker.generation)
  /\ object' = [object EXCEPT ![worker.item] = Erased(@, worker.generation, Parts)]
  /\ worker' = [worker EXCEPT !.at = "erased"]
  /\ UNCHANGED <<uploads, created, content, final, expirer, reader, acl, teardown, failures>>

(* One deletion of several fails, or the run dies between its steps. *)
WorkerFails ==
  /\ worker.at # "idle" /\ Fail
  /\ \E parts \in SUBSET Parts :
       object' = IF worker.at = "read"
                   THEN [object EXCEPT ![worker.item] = Erased(@, worker.generation, parts)]
                   ELSE object
  /\ worker' = IdleWorker
  /\ UNCHANGED <<uploads, created, content, final, expirer, reader, acl, teardown>>

RetireJob(i) ==
  /\ worker.at = "erased" /\ worker.item = i
  /\ job' = [job EXCEPT ![i] = NoBytes]
  /\ worker' = IdleWorker
  /\ UNCHANGED <<uploads, storage, final, expirer, reader, acl, teardown, failures>>

(* The row goes with the job; a run that finds no job leaves the row. *)
processCompanyFileDeletionJob(i) ==
  /\ Kind = "file" /\ RetireJob(i) /\ index' = index
  /\ row' = IF job[i] # NoBytes THEN [row EXCEPT ![i] = NoRow] ELSE row

processFamilyMemoryDeletionJob(i) ==
  /\ Kind = "memory" /\ RetireJob(i) /\ index' = index
  /\ row' = IF job[i] # NoBytes THEN [row EXCEPT ![i] = NoRow] ELSE row

(* The tombstone stays; the row of the index goes. *)
processObjectDeletionJob(i) ==
  /\ Kind = "message" /\ RetireJob(i) /\ row' = row
  /\ index' = IF job[i] # NoBytes THEN index \ {i} ELSE index

--------------------------------
(* Expiry: claim the reservation, delete what was uploaded, retire it *)

ClaimExpired(i) ==
  /\ expirer.at = "idle" /\ i \in expired /\ reservation[i] # "none"
  /\ reservation' = [reservation EXCEPT ![i] = "expiring"]
  /\ expirer' = [at |-> "claimed", item |-> i]
  /\ UNCHANGED <<lease, made, expired, storage, content, final, worker, reader, acl, teardown, failures>>

EraseExpired ==
  /\ expirer.at = "claimed"
  /\ object' = [object EXCEPT ![expirer.item] = NoBytes]
  /\ expirer' = [expirer EXCEPT !.at = "erased"]
  /\ UNCHANGED <<uploads, created, content, final, worker, reader, acl, teardown, failures>>

ExpirerFails ==
  /\ expirer.at # "idle" /\ Fail
  /\ \E parts \in SUBSET Parts :
       object' = IF expirer.at = "claimed"
                   THEN [object EXCEPT ![expirer.item] = [p \in Parts |-> IF p \in parts THEN 0 ELSE @[p]]]
                   ELSE object
  /\ expirer' = IdleExpirer
  /\ UNCHANGED <<uploads, created, content, final, worker, reader, acl, teardown>>

(* The lease goes only if it still names this reservation. *)
ReleasedLease(i) == IF lease[OwnerOf[i]] = i THEN [lease EXCEPT ![OwnerOf[i]] = None] ELSE lease

RetireExpired(i) ==
  /\ expirer.at = "erased" /\ expirer.item = i
  /\ reservation' = [reservation EXCEPT ![i] = "none"]
  /\ lease' = ReleasedLease(i)
  /\ expirer' = IdleExpirer
  /\ UNCHANGED <<made, expired, storage, content, final, worker, reader, acl, teardown, failures>>

expireServerCompanyFileUploadReservations(i) == Kind = "file" /\ RetireExpired(i)
expireServerFamilyMemoryUploadReservations(i) == Kind = "memory" /\ RetireExpired(i)
expireServerChannelMessageMediaReservations(i) == Kind = "message" /\ RetireExpired(i)

--------------------------------
(* The deletion of the channel or of the server *)

Advance(p) == phase = p /\ tear.at = "idle" /\ phase' = PhaseAfter(p) /\ tear' = tear

(* From here nobody has read or write access. *)
BeginTeardown ==
  /\ Removable /\ Advance("open")
  /\ UNCHANGED <<uploads, storage, content, final, expirer, worker, reader, acl, failures>>

(* Company Files, one task at a time: a reservation before a job before a *)
(* file, whose job the task writes. *)
PlanReservation(i) ==
  /\ phase = "files" /\ tear.at = "idle" /\ reservation[i] # "none"
  /\ reservation' = [reservation EXCEPT ![i] = "expiring"]
  /\ tear' = [IdleTear EXCEPT !.at = "planned", !.task = "reservation", !.item = i]
  /\ UNCHANGED <<lease, made, expired, storage, content, final, expirer, worker, reader, acl, phase, failures>>

NothingReserved == \A i \in Items : reservation[i] = "none"

PlanDeletion(i) ==
  /\ phase = "files" /\ tear.at = "idle" /\ NothingReserved
  /\ \/ job[i] # NoBytes /\ UNCHANGED <<job, row>>
     \/ /\ \A j \in Items : job[j] = NoBytes
        /\ row[i].status = "published"
        /\ job' = [job EXCEPT ![i] = row[i].generation]
        /\ row' = [row EXCEPT ![i].status = "deleting"]
  /\ tear' = [IdleTear EXCEPT !.at = "planned", !.task = "deletion", !.item = i, !.listed[i] = job'[i]]
  /\ UNCHANGED <<uploads, storage, index, final, expirer, worker, reader, acl, phase, failures>>

FilesDone ==
  /\ Advance("files") /\ NothingReserved
  /\ \A i \in Items : job[i] = NoBytes /\ row[i].status = "none"
  /\ UNCHANGED <<uploads, storage, content, final, expirer, worker, reader, acl, failures>>

(* The two prefix sweeps list what is there and delete it by generation. *)
ListPrefix ==
  /\ phase \in {"storage", "prefix"} /\ tear.at = "idle"
  /\ tear' = [IdleTear EXCEPT !.at = "planned", !.task = "prefix", !.listed = object]
  /\ UNCHANGED <<uploads, storage, content, final, expirer, worker, reader, acl, phase, failures>>

TearErases ==
  /\ tear.at = "planned"
  /\ IF tear.task = "reservation"
       THEN object' = [object EXCEPT ![tear.item] = NoBytes]
       ELSE /\ \A i \in Items : tear.listed[i] # NoBytes => Matches(object[i], tear.listed[i])
            /\ object' = [i \in Items |-> Erased(object[i], tear.listed[i], Parts)]
  /\ tear' = [tear EXCEPT !.at = "erased"]
  /\ UNCHANGED <<uploads, created, content, final, expirer, worker, reader, acl, phase, failures>>

(* An object was replaced since the listing: the run starts over. *)
TearRefused ==
  /\ tear.at = "planned" /\ \E i \in Items : tear.listed[i] # NoBytes /\ ~Matches(object[i], tear.listed[i])
  /\ tear' = IdleTear
  /\ UNCHANGED <<uploads, storage, content, final, expirer, worker, reader, acl, phase, failures>>

TearFails ==
  /\ tear.at # "idle" /\ Fail
  /\ tear' = IdleTear
  /\ UNCHANGED <<uploads, storage, content, final, expirer, worker, reader, acl, phase>>

RetireReservation(i) ==
  /\ tear.at = "erased" /\ tear.task = "reservation" /\ tear.item = i
  /\ reservation' = [reservation EXCEPT ![i] = "none"] /\ lease' = ReleasedLease(i)
  /\ tear' = IdleTear
  /\ UNCHANGED <<made, expired, storage, content, final, expirer, worker, reader, acl, phase, failures>>

RetireDeletion(i) ==
  /\ tear.at = "erased" /\ tear.task = "deletion" /\ tear.item = i
  /\ job' = [job EXCEPT ![i] = NoBytes]
  /\ row' = IF job[i] # NoBytes THEN [row EXCEPT ![i] = NoRow] ELSE row
  /\ tear' = IdleTear
  /\ UNCHANGED <<uploads, storage, index, final, expirer, worker, reader, acl, phase, failures>>

(* Another page until a listing comes back empty. *)
RetirePrefix ==
  /\ tear.at = "erased" /\ tear.task = "prefix"
  /\ LET listed == {i \in Items : tear.listed[i] # NoBytes}
     IN /\ index' = IF Kind = "message" THEN index \ listed ELSE index
        /\ phase' = IF listed = {} THEN PhaseAfter(phase) ELSE phase
  /\ tear' = IdleTear
  /\ UNCHANGED <<uploads, storage, row, job, final, expirer, worker, reader, acl, failures>>

(* Rows of Memories, and the messages of a channel, go without a job. *)
DropRows ==
  /\ phase \in {"moments", "messages"} /\ tear.at = "idle"
  /\ \/ \E i \in Items : row[i].status # "none" /\ row' = [row EXCEPT ![i] = NoRow] /\ phase' = phase
     \/ (\A i \in Items : row[i].status = "none") /\ row' = row /\ phase' = PhaseAfter(phase)
  /\ UNCHANGED <<uploads, storage, job, index, final, expirer, worker, reader, acl, tear, failures>>

familyMemoryReservations ==
  /\ phase = "reservations"
  /\ \/ \E i \in Items : /\ reservation[i] # "none" /\ phase' = phase
                         /\ reservation' = [reservation EXCEPT ![i] = "none"]
                         /\ lease' = ReleasedLease(i)
     \/ NothingReserved /\ phase' = PhaseAfter(phase) /\ UNCHANGED <<reservation, lease>>
  /\ UNCHANGED <<made, expired, storage, content, final, expirer, worker, reader, acl, tear, failures>>

familyMemoryDeletionJobs ==
  /\ phase = "jobs"
  /\ \/ \E i \in Items : job[i] # NoBytes /\ job' = [job EXCEPT ![i] = NoBytes] /\ phase' = phase
     \/ (\A i \in Items : job[i] = NoBytes) /\ job' = job /\ phase' = PhaseAfter(phase)
  /\ UNCHANGED <<uploads, storage, row, index, final, expirer, worker, reader, acl, tear, failures>>

--------------------------------
Client(i) ==
  \/ reserveServerCompanyFileV1(i) \/ reserveServerFamilyMemoryV1(i)
  \/ reserveServerChannelMessageMediaV1(i)
  \/ (\E p \in Parts : Upload(i, p)) \/ Expire(i)
  \/ readFinalizePlan(i) \/ verifyUploaded(i) \/ FinalizeRefused(i)
  \/ finalizeServerCompanyFileV1(i) \/ finalizeServerFamilyMemoryV1(i)
  \/ finalizeServerChannelMessageMediaV1(i)
  \/ authorizeAccess(i)
  \/ deleteServerCompanyFileV1(i) \/ deleteServerFamilyMemoryV1(i)
  \/ deleteServerChannelMessageV1(i)

Reading ==
  \/ ChangeAccess \/ Sign \/ GrantAborted
  \/ getServerCompanyFileAccessV1 \/ getServerFamilyMemoryMediaAccessV1
  \/ getServerChannelMessageMediaAccessV1

RetireJobs(i) ==
  \/ processCompanyFileDeletionJob(i) \/ processFamilyMemoryDeletionJob(i)
  \/ processObjectDeletionJob(i)

Expirations(i) ==
  \/ expireServerCompanyFileUploadReservations(i)
  \/ expireServerFamilyMemoryUploadReservations(i)
  \/ expireServerChannelMessageMediaReservations(i)

JobRun == EraseForJob \/ \E i \in Items : ReadJob(i) \/ RetireJobs(i)
ExpiryRun == EraseExpired \/ \E i \in Items : ClaimExpired(i) \/ Expirations(i)

TeardownRun ==
  \/ FilesDone \/ ListPrefix \/ TearErases \/ TearRefused \/ RetirePrefix \/ DropRows
  \/ familyMemoryReservations \/ familyMemoryDeletionJobs
  \/ \E i \in Items : PlanReservation(i) \/ PlanDeletion(i) \/ RetireReservation(i) \/ RetireDeletion(i)

Next ==
  \/ (\E i \in Items : Client(i)) \/ Reading
  \/ JobRun \/ ExpiryRun \/ BeginTeardown \/ TeardownRun
  \/ WorkerFails \/ ExpirerFails \/ TearFails

Spec == Init /\ [][Next]_vars

--------------------------------
(* What is published can be played: no sweep takes the bytes of a row that *)
(* a finalize published from the same reservation. *)
PublishedHasItsBytes ==
  \A i \in Items : row[i].status = "published" => object[i] = row[i].generation

(* Nothing private is left behind: bytes always have a document that leads *)
(* a worker to them. *)
NoOrphanBytes ==
  \A i \in Items : object[i] # NoBytes =>
    \/ reservation[i] # "none"
    \/ row[i].status = "published" /\ phase # "gone"
    \/ job[i] # NoBytes
    \/ phase \in {"moments", "messages", "reservations", "jobs", "storage", "prefix"}

(* A row in deletion has its job, so a caller that died is carried on. *)
DeletingHasJob ==
  \A i \in Items : row[i].status = "deleting" => job[i] = row[i].generation

(* A live reservation is the one its owner's lease names: it can be *)
(* finalized, and the owner has no second upload beside it. *)
LiveReservationHoldsLease ==
  \A i \in Items : liveReservation(i) => lease[OwnerOf[i]] = i

(* A URL that was signed is answered only while the row and the reader's *)
(* access are those it was signed under, and then its bytes are there. *)
GrantsStillHold ==
  Grant => mayRead /\ acl = reader.acl /\ object[reader.item] = reader.generation

=============================================================================
