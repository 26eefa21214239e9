----------------------------- MODULE ServerRemoval -----------------------------
(***************************************************************************)
(* The deletion of a channel and of a whole server: the commands of        *)
(* functions/servers/channels.js, management.js and memberships.js, and    *)
(* the paged content cleanup of content_cleanup.js.                        *)
(*                                                                         *)
(*   root      clubs/{serverId}: owner, moderation status, deletion marker *)
(*   channel   clubs/{serverId}/channels/{channelId}: status, generation   *)
(*   content   what the channel holds, by the phase that removes it        *)
(*   stored    the private Storage objects of its file and its recording   *)
(*   remote    whether the recording provider is recording for it          *)
(*   job       serverControlOutbox: the channelDelete job of each channel, *)
(*             and the serverDelete job (of Root)                          *)
(*   worker    cleanup pages that are waiting for Storage                  *)
(*                                                                         *)
(* Documents of one kind are counted; the seven collections that a page    *)
(* empties without looking outside Firestore are one ("records").  The     *)
(* end of a media generation (module ServerSession) is the step EndDone.   *)
(* Channels are numbered in the order of their document ids, and every     *)
(* channel has a room.  The revisions of the deletion fence are left out:  *)
(* every writer of a root or channel that is being deleted refuses.        *)
(***************************************************************************)
EXTENDS Naturals, FiniteSets

CONSTANTS
  Users,        \* accounts that may own the server
  First,        \* its owner at creation
  Channels,     \* numbered in the order of their document ids
  Root,         \* the name of the serverDelete job
  Studios,      \* channels that record episodes
  Shelves,      \* channels that hold company files
  Workers,      \* concurrent invocations of a storage page
  MaxRecords,   \* bound: documents of a channel, and of the root
  MaxTransfers, \* bound: ownership transfers
  None

RemovalConstantsAssumption ==
  /\ First \in Users
  /\ Channels \subseteq Nat /\ Root \notin Channels
  /\ Studios \cup Shelves \subseteq Channels
  /\ None \notin Channels \cup Workers \cup Users
  /\ MaxRecords \in Nat /\ MaxTransfers \in Nat

VARIABLES root, channel, content, stored, remote, job, worker, transfers

vars == <<root, channel, content, stored, remote, job, worker, transfers>>

--------------------------------
Jobs == Channels \cup {Root}

Statuses == {"active", "archived", "deleting", "gone"}

\* An egress job without a provider id ("starting") may or may not have a
\* recording at the provider.
Recordings == {"none", "starting", "recording", "stopping", "ready"}

Files == {"none", "reserved", "expiring", "ready", "deleting"}

Phases == {"records", "episodes", "files", "sessions", "room", "final"}

NextPhase(p) == CASE p = "records"  -> "episodes"
                  [] p = "episodes" -> "files"
                  [] p = "files"    -> "sessions"
                  [] p = "sessions" -> "room"
                  [] p = "room"     -> "final"

NoJob == [status |-> "none", owner |-> None, targets |-> {}, at |-> None,
          phase |-> "records", lease |-> None, expired |-> FALSE]

Idle == [job |-> None, task |-> None, at |-> None, deleted |-> FALSE]

TypeOK ==
  /\ root \in [exists : BOOLEAN, owner : Users, suspended : BOOLEAN,
               deleting : BOOLEAN, records : 0 .. MaxRecords]
  /\ channel \in [Channels -> [status : Statuses,
                               media : {"none", "live", "ending"}]]
  /\ content \in [Channels -> [records : 0 .. MaxRecords, rec : Recordings,
                               file : Files, sessions : BOOLEAN,
                               room : BOOLEAN]]
  /\ stored \in [Channels -> SUBSET {"episode", "file"}]
  /\ remote \in [Channels -> BOOLEAN]
  /\ job \in [Jobs -> [status : {"none", "pending", "completed"},
                       owner : Users \cup {None}, targets : SUBSET Channels,
                       at : Channels \cup {None}, phase : Phases,
                       lease : Workers \cup {None}, expired : BOOLEAN]]
  /\ worker \in [Workers -> [job : Jobs \cup {None},
                             task : {None, "episode", "file"},
                             at : Channels \cup {None}, deleted : BOOLEAN]]
  /\ transfers \in 0 .. MaxTransfers

Init ==
  /\ root = [exists |-> TRUE, owner |-> First, suspended |-> FALSE,
             deleting |-> FALSE, records |-> MaxRecords]
  /\ channel = [c \in Channels |-> [status |-> "active", media |-> "none"]]
  /\ content = [c \in Channels |-> [records |-> 0, rec |-> "none",
                 file |-> "none", sessions |-> FALSE, room |-> TRUE]]
  /\ stored = [c \in Channels |-> {}]
  /\ remote = [c \in Channels |-> FALSE]
  /\ job = [j \in Jobs |-> NoJob]
  /\ worker = [w \in Workers |-> Idle]
  /\ transfers = 0

--------------------------------
(* What members do, while the server and the channel are open to them.     *)

canonicalServer == root.exists /\ ~root.suspended /\ ~root.deleting

Open(c) == canonicalServer /\ channel[c].status = "active"

StartSession(c) ==
  /\ Open(c) /\ channel[c].media = "none"
  /\ channel' = [channel EXCEPT ![c].media = "live"]
  /\ content' = [content EXCEPT ![c].sessions = TRUE]
  /\ UNCHANGED <<root, stored, remote, job, worker, transfers>>

\* The end worker of module ServerSession settles a staged end.
EndDone(c) ==
  /\ channel[c].media = "ending"
  /\ channel' = [channel EXCEPT ![c].media = "none"]
  /\ UNCHANGED <<root, content, stored, remote, job, worker, transfers>>

Post(c) ==
  /\ Open(c) /\ content[c].records < MaxRecords
  /\ content' = [content EXCEPT ![c].records = @ + 1]
  /\ UNCHANGED <<root, channel, stored, remote, job, worker, transfers>>

Reserve(c) ==
  /\ c \in Shelves /\ Open(c) /\ content[c].file = "none"
  /\ content' = [content EXCEPT ![c].file = "reserved"]
  /\ UNCHANGED <<root, channel, stored, remote, job, worker, transfers>>

\* The bytes arrive under the reservation, whatever became of the channel.
Upload(c) ==
  /\ content[c].file = "reserved"
  /\ stored' = [stored EXCEPT ![c] = @ \cup {"file"}]
  /\ UNCHANGED <<root, channel, content, remote, job, worker, transfers>>

Finalize(c) ==
  /\ Open(c) /\ content[c].file = "reserved" /\ "file" \in stored[c]
  /\ content' = [content EXCEPT ![c].file = "ready"]
  /\ UNCHANGED <<root, channel, stored, remote, job, worker, transfers>>

DeleteFile(c) ==
  /\ Open(c) /\ content[c].file = "ready"
  /\ content' = [content EXCEPT ![c].file = "deleting"]
  /\ UNCHANGED <<root, channel, stored, remote, job, worker, transfers>>

\* The file's own deletion and expiry workers remove the object, then the
\* documents.
FileSwept(c) ==
  /\ content[c].file \in {"expiring", "deleting"}
  /\ content' = [content EXCEPT ![c].file = "none"]
  /\ stored' = [stored EXCEPT ![c] = @ \ {"file"}]
  /\ UNCHANGED <<root, channel, remote, job, worker, transfers>>

Record(c) ==
  /\ c \in Studios /\ Open(c) /\ channel[c].media = "live"
  /\ content[c].rec = "none"
  /\ content' = [content EXCEPT ![c].rec = "starting"]
  /\ UNCHANGED <<root, channel, stored, remote, job, worker, transfers>>

--------------------------------
(* The egress reconciler: the provider starts, then its id is stored; a    *)
(* stop is answered and the file is there.                                 *)

EgressStarts(c) ==
  /\ content[c].rec = "starting" /\ ~remote[c]
  /\ remote' = [remote EXCEPT ![c] = TRUE]
  /\ UNCHANGED <<root, channel, content, stored, job, worker, transfers>>

EgressKnown(c) ==
  /\ content[c].rec = "starting" /\ remote[c]
  /\ content' = [content EXCEPT ![c].rec = "recording"]
  /\ UNCHANGED <<root, channel, stored, remote, job, worker, transfers>>

EgressStops(c) ==
  /\ content[c].rec = "stopping"
  /\ content' = [content EXCEPT ![c].rec = "ready"]
  /\ remote' = [remote EXCEPT ![c] = FALSE]
  /\ stored' = [stored EXCEPT ![c] = @ \cup {"episode"}]
  /\ UNCHANGED <<root, channel, job, worker, transfers>>

--------------------------------
(* Commands of managers, owners and staff.                                 *)

\* stageConvergenceSessionEnd on every channel of cs.
Staged(cs) ==
  [c \in Channels |-> IF c \in cs /\ channel[c].media = "live"
                      THEN [channel[c] EXCEPT !.media = "ending"]
                      ELSE channel[c]]

Ending(cs) == {c \in cs : channel[c].media # "none"}

\* readConvergenceBindings refuses a channel whose room is missing.
Bindable == \A c \in Channels : channel[c].status # "gone" => content[c].room

NewJob(at, targets) ==
  [NoJob EXCEPT !.status = "pending", !.owner = root.owner, !.at = at,
                !.targets = targets]

EndSession(c) ==
  /\ canonicalServer /\ channel[c].media = "live"
  /\ channel' = Staged({c})
  /\ UNCHANGED <<root, content, stored, remote, job, worker, transfers>>

ArchiveChannel(c) ==
  /\ canonicalServer /\ channel[c].status = "active"
  /\ channel' = [Staged({c}) EXCEPT ![c].status = "archived"]
  /\ UNCHANGED <<root, content, stored, remote, job, worker, transfers>>

DeleteChannel(c) ==
  /\ canonicalServer /\ channel[c].status \in {"active", "archived"}
  /\ channel' = [Staged({c}) EXCEPT ![c].status = "deleting"]
  /\ job' = [job EXCEPT ![c] = NewJob(c, Ending({c}))]
  /\ UNCHANGED <<root, content, stored, remote, worker, transfers>>

TransferOwnership(u) ==
  /\ canonicalServer /\ u # root.owner /\ transfers < MaxTransfers
  /\ Bindable
  /\ root' = [root EXCEPT !.owner = u]
  /\ channel' = Staged(Channels)
  /\ transfers' = transfers + 1
  /\ UNCHANGED <<content, stored, remote, job, worker>>

SetModerationStatus(suspended) ==
  /\ root.exists /\ ~root.deleting /\ root.suspended # suspended
  /\ suspended => Bindable
  /\ root' = [root EXCEPT !.suspended = suspended]
  /\ channel' = IF suspended THEN Staged(Channels) ELSE channel
  /\ UNCHANGED <<content, stored, remote, job, worker, transfers>>

MarkDeleting ==
  /\ Bindable
  /\ root' = [root EXCEPT !.deleting = TRUE]
  /\ job' = [job EXCEPT ![Root] = NewJob(None, Ending(Channels))]
  /\ UNCHANGED <<content, stored, remote, worker, transfers>>

DeleteServer ==
  /\ canonicalServer /\ Ending(Channels) = {}
  /\ MarkDeleting
  /\ UNCHANGED channel

\* Staff end what is live instead of waiting for it.
StaffDeleteServer ==
  /\ root.exists /\ ~root.deleting
  /\ MarkDeleting
  /\ channel' = Staged(Channels)

--------------------------------
(* The cleanup pages.                                                      *)

\* A captured generation is positively ended.
TargetEnded(j, c) ==
  /\ job[j].status = "pending" /\ c \in job[j].targets
  /\ channel[c].media # "ending"
  /\ job' = [job EXCEPT ![j].targets = @ \ {c}]
  /\ UNCHANGED <<root, channel, content, stored, remote, worker, transfers>>

\* canonicalDeletingRoot and canonicalCleanupChannel: what every page checks
\* again in its own transaction.
Fenced(j) ==
  /\ root.exists /\ root.owner = job[j].owner
  /\ IF j = Root THEN root.deleting
     ELSE channel[j].status = "deleting"

MayClean(j) ==
  /\ job[j].status = "pending" /\ job[j].targets = {}
  /\ Fenced(j)

Unleased(j) == job[j].lease = None

Leasable(j) == job[j].lease = None \/ job[j].expired

CleansAt(j, phase) ==
  MayClean(j) /\ job[j].at # None /\ job[j].phase = phase

Advance(j) == [job EXCEPT ![j].phase = NextPhase(@)]

HasRecords(c) == content[c].records > 0

RecordsPage(j) ==
  LET c == job[j].at IN
  /\ CleansAt(j, "records") /\ Unleased(j)
  /\ \/ /\ HasRecords(c)
        /\ content' = [content EXCEPT ![c].records = @ - 1]
        /\ job' = job
     \/ /\ ~HasRecords(c)
        /\ job' = Advance(j)
        /\ UNCHANGED content
  /\ UNCHANGED <<root, channel, stored, remote, worker, transfers>>

Lease(j, w, task) ==
  /\ worker[w] = Idle
  /\ job' = [job EXCEPT ![j].lease = w, ![j].expired = FALSE]
  /\ worker' = [worker EXCEPT ![w] = [job |-> j, task |-> task,
                                      at |-> job[j].at, deleted |-> FALSE]]

DeletableEarly(c) == content[c].rec \in {"ready", "starting"}

\* An episode whose recording has ended.
Deletable(c) == content[c].rec = "ready"

\* A start whose provider id is unknown is waited for; a recording is stopped.
EpisodePage(j, w) ==
  LET c == job[j].at IN
  /\ CleansAt(j, "episodes") /\ Leasable(j)
  /\ \/ /\ content[c].rec = "none"
        /\ job' = Advance(j)
        /\ UNCHANGED <<content, worker>>
     \/ /\ content[c].rec = "recording"
        /\ content' = [content EXCEPT ![c].rec = "stopping"]
        /\ UNCHANGED <<job, worker>>
     \/ /\ Deletable(c)
        /\ Lease(j, w, "episode")
        /\ UNCHANGED content
  /\ UNCHANGED <<root, channel, stored, remote, transfers>>

\* Finding nothing left, the page moves on and leaves an expired lease as it
\* is; the pages of the later phases refuse a job with a lease.
FilePage(j, w) ==
  LET c == job[j].at IN
  /\ CleansAt(j, "files") /\ Leasable(j)
  /\ \/ /\ content[c].file = "none"
        /\ job' = Advance(j)
        /\ UNCHANGED <<content, worker>>
     \/ /\ content[c].file # "none"
        /\ content' = [content EXCEPT ![c].file =
                         IF @ \in {"reserved", "expiring"} THEN "expiring"
                         ELSE "deleting"]
        /\ Lease(j, w, "file")
  /\ UNCHANGED <<root, channel, stored, remote, transfers>>

\* deleteUnpublished or deleteObject, outside any transaction.
DeleteObject(w) ==
  LET x == worker[w] IN
  /\ x.job # None /\ ~x.deleted
  /\ stored' = [stored EXCEPT ![x.at] = @ \ {x.task}]
  /\ worker' = [worker EXCEPT ![w].deleted = TRUE]
  /\ UNCHANGED <<root, channel, content, remote, job, transfers>>

\* Storage fails: the page gives back the lease it still holds.
StorageFails(w) ==
  LET x == worker[w] IN
  /\ x.job # None /\ ~x.deleted
  /\ job' = IF job[x.job].lease = w
            THEN [job EXCEPT ![x.job].lease = None, ![x.job].expired = FALSE]
            ELSE job
  /\ worker' = [worker EXCEPT ![w] = Idle]
  /\ UNCHANGED <<root, channel, content, stored, remote, transfers>>

Crash(w) ==
  /\ worker[w] # Idle
  /\ worker' = [worker EXCEPT ![w] = Idle]
  /\ UNCHANGED <<root, channel, content, stored, remote, job, transfers>>

LeaseExpires(j) ==
  /\ job[j].lease # None /\ ~job[j].expired
  /\ job' = [job EXCEPT ![j].expired = TRUE]
  /\ UNCHANGED <<root, channel, content, stored, remote, worker, transfers>>

Deleted(w) == worker[w].job # None /\ worker[w].deleted

\* What the last transaction of a storage page checks again.  A file may be
\* gone by then: its own workers sweep it too.
StillMine(w) ==
  LET x == worker[w] IN
  /\ job[x.job].lease = w
  /\ CleansAt(x.job, IF x.task = "episode" THEN "episodes" ELSE "files")
  /\ IF x.task = "episode" THEN Deletable(x.at)
     ELSE content[x.at].file \in {"none", "expiring", "deleting"}

FinishPage(w) ==
  LET x == worker[w] IN
  /\ Deleted(w)
  /\ \/ /\ StillMine(w)
        /\ content' = IF x.task = "episode"
                      THEN [content EXCEPT ![x.at].rec = "none"]
                      ELSE [content EXCEPT ![x.at].file = "none"]
        /\ job' = [job EXCEPT ![x.job].lease = None, ![x.job].expired = FALSE]
     \/ /\ ~StillMine(w)
        /\ UNCHANGED <<content, job>>
  /\ worker' = [worker EXCEPT ![w] = Idle]
  /\ UNCHANGED <<root, channel, stored, remote, transfers>>

\* Only ended generations and their recipients are removed.
SessionsPage(j) ==
  LET c == job[j].at IN
  /\ CleansAt(j, "sessions") /\ Unleased(j)
  /\ channel[c].media = "none"
  /\ content' = [content EXCEPT ![c].sessions = FALSE]
  /\ job' = Advance(j)
  /\ UNCHANGED <<root, channel, stored, remote, worker, transfers>>

RoomPage(j) ==
  LET c == job[j].at IN
  /\ CleansAt(j, "room") /\ Unleased(j)
  /\ content' = [content EXCEPT ![c].room = FALSE]
  /\ job' = Advance(j)
  /\ UNCHANGED <<root, channel, stored, remote, worker, transfers>>

\* The first phase whose collection a last look finds not empty.
Leftover(c) ==
  IF content[c].records > 0 THEN "records"
  ELSE IF content[c].rec # "none" THEN "episodes"
  ELSE IF content[c].file # "none" THEN "files"
  ELSE IF content[c].sessions THEN "sessions"
  ELSE IF content[c].room THEN "room"
  ELSE "none"

FinalPage(j) ==
  LET c == job[j].at IN
  /\ CleansAt(j, "final") /\ Unleased(j)
  /\ \/ /\ Leftover(c) # "none"
        /\ job' = [job EXCEPT ![j].phase = Leftover(c)]
        /\ UNCHANGED channel
     \/ /\ Leftover(c) = "none"
        /\ channel' = [channel EXCEPT ![c].status = "gone"]
        /\ job' = IF j = Root THEN [job EXCEPT ![j].at = None]
                  ELSE [job EXCEPT ![j].status = "completed"]
  /\ UNCHANGED <<root, content, stored, remote, worker, transfers>>

\* A channel whose own deletion is under way is left to it.
Cleanable(c) == channel[c].status \in {"active", "archived"}

PickChannel(c) ==
  /\ MayClean(Root) /\ Unleased(Root) /\ job[Root].at = None
  /\ Cleanable(c)
  /\ \A d \in Channels : d < c => channel[d].status = "gone"
  /\ job' = [job EXCEPT ![Root].at = c, ![Root].phase = "records"]
  /\ UNCHANGED <<root, channel, content, stored, remote, worker, transfers>>

AllGone == \A c \in Channels : channel[c].status = "gone"

\* Invitations, members, authorizations, followers and the rest.
RootPage ==
  /\ MayClean(Root) /\ job[Root].at = None /\ AllGone
  /\ root.records > 0
  /\ root' = [root EXCEPT !.records = @ - 1]
  /\ UNCHANGED <<channel, content, stored, remote, job, worker, transfers>>

RootFinal ==
  /\ MayClean(Root) /\ job[Root].at = None /\ AllGone
  /\ root.records = 0
  /\ root' = [root EXCEPT !.exists = FALSE]
  /\ job' = [job EXCEPT ![Root].status = "completed"]
  /\ UNCHANGED <<channel, content, stored, remote, worker, transfers>>

--------------------------------
Member(c) ==
  \/ StartSession(c) \/ EndSession(c) \/ Post(c)
  \/ Reserve(c) \/ Upload(c) \/ Finalize(c) \/ Record(c)
  \/ DeleteFile(c) \/ FileSwept(c)

Egress(c) == EgressStarts(c) \/ EgressKnown(c) \/ EgressStops(c)

Manager ==
  \/ \E c \in Channels : ArchiveChannel(c) \/ DeleteChannel(c)
  \/ \E u \in Users : TransferOwnership(u)
  \/ \E suspended \in BOOLEAN : SetModerationStatus(suspended)
  \/ DeleteServer \/ StaffDeleteServer

Page(j) ==
  \/ RecordsPage(j) \/ SessionsPage(j) \/ RoomPage(j) \/ FinalPage(j)
  \/ \E w \in Workers : EpisodePage(j, w) \/ FilePage(j, w)
  \/ \E c \in Channels : TargetEnded(j, c)

Storage(w) == DeleteObject(w) \/ FinishPage(w) \/ StorageFails(w) \/ Crash(w)

Next ==
  \/ \E c \in Channels : Member(c) \/ Egress(c) \/ EndDone(c) \/ PickChannel(c)
  \/ Manager
  \/ \E j \in Jobs : Page(j) \/ LeaseExpires(j)
  \/ \E w \in Workers : Storage(w)
  \/ RootPage \/ RootFinal

Spec == Init /\ [][Next]_vars

--------------------------------
(* A channel that is gone leaves no document, no private object and no     *)
(* recording behind, and a root that is gone no channel (content_cleanup:  *)
(* the last look of the final phases, and objects before documents).       *)
GoneLeavesNothing ==
  /\ \A c \in Channels : channel[c].status = "gone" =>
       /\ Leftover(c) = "none"
       /\ stored[c] = {} /\ ~remote[c]
  /\ ~root.exists => AllGone /\ root.records = 0

(* The provider never records for an episode nobody knows any more: a      *)
(* start whose provider id was not stored is settled before it is removed. *)
NoStrandedRecording ==
  \A c \in Channels :
    remote[c] => content[c].rec \in {"starting", "recording", "stopping"}

(* The server's cleanup and a channel's own never work on one channel.     *)
OneCleaner ==
  \A c \in Channels : job[c].status = "pending" => job[Root].at # c

(* No page removes anything of a channel whose media generation has not    *)
(* been ended, also when its end was staged before the deletion.           *)
CleaningFollowsTheEnd ==
  \A j \in Jobs : job[j].status = "pending" /\ job[j].targets = {}
                    /\ job[j].at # None => channel[job[j].at].media = "none"

=============================================================================
