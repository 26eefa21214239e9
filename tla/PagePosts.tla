------------------------------ MODULE PagePosts ------------------------------
(***************************************************************************)
(* A post of a Premium Page, the reports about it, and its evidence.       *)
(* Members report a post or a comment under it; staff work the reports and *)
(* hold, restore or remove the content; the owner may delete the post, and *)
(* the owner's account may be deleted, while all that goes on.  A post     *)
(* under review becomes a tombstone whose media is kept until the last     *)
(* report closes or ninety days passed.  Source: functions/pages/          *)
(* (posts.js, reports.js, moderation.js, account_deletion.js,              *)
(* maintenance.js) and the workflow of functions/moderation/reports.js.    *)
(* Publishing, uploads and engagement are the subject of other modules.    *)
(***************************************************************************)
EXTENDS Integers, FiniteSets

CONSTANTS
  Posts, Reporters, Moderators,
  Commented,     \* the posts that have a comment
  Deletable      \* TRUE: the owner's account may be deleted

PagePostsAssumption ==
  /\ IsFiniteSet(Posts) /\ IsFiniteSet(Reporters) /\ IsFiniteSet(Moderators)
  /\ Commented \subseteq Posts /\ Deletable \in BOOLEAN

None == "none"
Targets == {"post", "comment"}
\* A report's id is made of its reporter and its target: one report for ever.
ReportIds == Reporters \X Targets \X Posts

VARIABLES
  post,        \* pagePosts: status and evidenceHold
  comment,     \* pagePostComments: the posts whose comment exists
  desk,        \* pagePostOpenReports: the count, and whether any report was ever filed
  report,      \* reports: workflow status and assignee
  job,         \* pagePostMediaDeletionJobs: "none", "held" or "free"
  retention,   \* pageEvidenceRetention: "none", "later" or "due"
  cleanup,     \* pagePostCleanupJobs
  media,       \* the posts whose media objects exist in Storage
  page,        \* pages: existence, suspension, postCount, pinnedPostId
  leaving,     \* the owner's account is being deleted
  worker       \* the jobs processMediaDeletionJob read as free

vars == <<post, comment, desk, report, job, retention, cleanup, media, page, leaving, worker>>

Statuses == {"unborn", "published", "held", "removed", "deleted", "gone"}
Open == {"open", "inReview"}

TypeOK ==
  /\ post \in [Posts -> [status : Statuses, evidenceHold : BOOLEAN]]
  /\ comment \subseteq Posts
  /\ desk \in [Posts -> [count : Nat, last : BOOLEAN]]
  /\ report \in [ReportIds -> [status : Open \cup {"none", "closed"},
                               assignedTo : Moderators \cup {None}]]
  /\ job \in [Posts -> {"none", "held", "free"}]
  /\ retention \in [Posts -> {"none", "later", "due"}]
  /\ cleanup \subseteq Posts /\ media \subseteq Posts /\ worker \subseteq Posts
  /\ page \in [exists : BOOLEAN, suspended : BOOLEAN, postCount : Nat,
               pinned : Posts \cup {None}]
  /\ leaving \in BOOLEAN

Init ==
  /\ post = [p \in Posts |-> [status |-> "unborn", evidenceHold |-> FALSE]]
  /\ comment = {}
  /\ desk = [p \in Posts |-> [count |-> 0, last |-> FALSE]]
  /\ report = [r \in ReportIds |-> [status |-> "none", assignedTo |-> None]]
  /\ job = [p \in Posts |-> "none"]
  /\ retention = [p \in Posts |-> "none"]
  /\ cleanup = {} /\ media = {} /\ worker = {}
  /\ page = [exists |-> TRUE, suspended |-> FALSE, postCount |-> 0, pinned |-> None]
  /\ leaving = FALSE

Exists(p) == post[p].status \notin {"unborn", "gone"}
AtLeastZero(n) == IF n < 0 THEN 0 ELSE n
SetStatus(p, s) == post' = [post EXCEPT ![p].status = s]
Unpinned(p) == IF page.pinned = p THEN None ELSE page.pinned
Counted(p) == IF post[p].status = "published" THEN 1 ELSE 0

(***************************************************************************)
(* The owner.  Publishing is one action here (module PageUploads has the   *)
(* steps); a comment is whatever another member wrote meanwhile.           *)
(***************************************************************************)
PublishPost(p) ==
  /\ ~leaving /\ page.exists /\ ~page.suspended /\ post[p].status = "unborn"
  /\ SetStatus(p, "published")
  /\ media' = media \cup {p}
  /\ comment' = IF p \in Commented THEN comment \cup {p} ELSE comment
  /\ page' = [page EXCEPT !.postCount = @ + 1]
  /\ UNCHANGED <<desk, report, job, retention, cleanup, leaving, worker>>

PinPost(p) ==
  /\ ~leaving /\ page.exists /\ ~page.suspended /\ post[p].status = "published"
  /\ page' = [page EXCEPT !.pinned = p]
  /\ UNCHANGED <<post, comment, desk, report, job, retention, cleanup, media, leaving, worker>>

\* Only an open report, or the hold it set, keeps the bytes of a deleted post.
UnderReview(p) == post[p].evidenceHold \/ desk[p].count > 0
HeldJob(p) == IF UnderReview(p) THEN "held" ELSE "free"

DeletePost(p) ==
  LET tombstone == post[p].status # "published" \/ UnderReview(p) IN
  /\ ~leaving /\ Exists(p) /\ post[p].status # "deleted"
  /\ SetStatus(p, IF tombstone THEN "deleted" ELSE "gone")
  /\ retention' = IF tombstone THEN [retention EXCEPT ![p] = "later"] ELSE retention
  /\ cleanup' = IF tombstone THEN cleanup ELSE cleanup \cup {p}
  /\ job' = [job EXCEPT ![p] = HeldJob(p)]
  /\ page' = IF page.exists
               THEN [page EXCEPT !.postCount = AtLeastZero(@ - Counted(p)), !.pinned = Unpinned(p)]
               ELSE page
  /\ UNCHANGED <<comment, desk, report, media, leaving, worker>>

(***************************************************************************)
(* createPageReportV1.  A member files a report once per target; filing it *)
(* again, even after it was closed, changes nothing.                       *)
(***************************************************************************)
CreateReport(r) ==
  LET p == r[3] IN
  /\ page.exists
  /\ post[p].status \in {"published", "held"}
  /\ r[2] = "comment" => p \in comment
  /\ report[r].status = "none"
  /\ report' = [report EXCEPT ![r].status = "open"]
  /\ post' = [post EXCEPT ![p].evidenceHold = TRUE]
  /\ desk' = [desk EXCEPT ![p] = [count |-> @.count + 1, last |-> TRUE]]
  /\ UNCHANGED <<comment, job, retention, cleanup, media, page, leaving, worker>>

(***************************************************************************)
(* handleModerateReport: the workflow of one report, and for the Page      *)
(* arms the content action in the same transaction.  A report another      *)
(* moderator reviews is refused.                                           *)
(***************************************************************************)
MayAct(m, r) ==
  /\ report[r].status \in Open
  /\ report[r].status = "inReview" => report[r].assignedTo \in {m, None}

Claim(m, r) ==
  /\ report[r].status = "open"
  /\ report' = [report EXCEPT ![r] = [status |-> "inReview", assignedTo |-> m]]
  /\ UNCHANGED <<post, comment, desk, job, retention, cleanup, media, page, leaving, worker>>

Unclaim(m, r) ==
  /\ MayAct(m, r) /\ report[r].status = "inReview"
  /\ report' = [report EXCEPT ![r] = [status |-> "open", assignedTo |-> None]]
  /\ UNCHANGED <<post, comment, desk, job, retention, cleanup, media, page, leaving, worker>>

\* A content action claims the report for its moderator and leaves it open.
TakesUp(m, r) ==
  report' = [report EXCEPT ![r] =
    [status |-> "inReview", assignedTo |-> IF @.assignedTo = None THEN m ELSE @.assignedTo]]

HoldPagePost(m, r) ==
  LET p == r[3] IN
  /\ MayAct(m, r) /\ r[2] = "post" /\ post[p].status \in {"published", "held"}
  /\ TakesUp(m, r)
  /\ SetStatus(p, "held")
  /\ page' = IF page.exists
               THEN [page EXCEPT !.postCount = AtLeastZero(@ - Counted(p))] ELSE page
  /\ UNCHANGED <<comment, desk, job, retention, cleanup, media, leaving, worker>>

RestorePagePost(m, r) ==
  LET p == r[3] IN
  /\ MayAct(m, r) /\ r[2] = "post" /\ post[p].status \in {"published", "held"}
  /\ TakesUp(m, r)
  /\ SetStatus(p, "published")
  /\ page' = IF page.exists THEN [page EXCEPT !.postCount = @ + 1 - Counted(p)] ELSE page
  /\ UNCHANGED <<comment, desk, job, retention, cleanup, media, leaving, worker>>

SuspendPage(m, r) ==
  /\ MayAct(m, r)
  /\ TakesUp(m, r)
  /\ page' = IF page.exists THEN [page EXCEPT !.suspended = TRUE] ELSE page
  /\ UNCHANGED <<post, comment, desk, job, retention, cleanup, media, leaving, worker>>

\* An appeal: possible from a closed report too, whose status it keeps.
LiftPageSuspension(m, r) ==
  /\ report[r].status = "closed" \/ MayAct(m, r)
  /\ page.exists /\ page.suspended
  /\ page' = [page EXCEPT !.suspended = FALSE]
  /\ UNCHANGED <<post, comment, desk, report, job, retention, cleanup, media, leaving, worker>>

(***************************************************************************)
(* The arms that end a report.  They lower the count of open reports of    *)
(* the post, those on its comment included; at zero they clear the         *)
(* evidence hold, release the media jobs, make a retained tombstone due,   *)
(* and, unless they remove something, restore a held post.                 *)
(***************************************************************************)
Lowered(p) == [desk EXCEPT ![p].count = AtLeastZero(@ - 1)]

Released(p, last) ==
  /\ job' = IF last /\ Exists(p) /\ job[p] = "held" THEN [job EXCEPT ![p] = "free"] ELSE job
  /\ retention' = IF last /\ retention[p] # "none" THEN [retention EXCEPT ![p] = "due"]
                                                   ELSE retention

StatusAfter(p, removing, removingPost, last) ==
  CASE removingPost /\ post[p].status \in {"published", "held"} -> "removed"
    [] last /\ ~removing /\ post[p].status = "held" -> "published"
    [] OTHER -> post[p].status

CloseReport(m, r, removing) ==
  LET p == r[3]
      last == desk[p].count <= 1
      removingPost == removing /\ r[2] = "post"
      next == StatusAfter(p, removing, removingPost, last)
      gain == (IF next = "published" THEN 1 ELSE 0) - Counted(p)
  IN
  /\ MayAct(m, r)
  /\ report' = [report EXCEPT ![r] =
       [status |-> "closed", assignedTo |-> IF @.assignedTo = None THEN m ELSE @.assignedTo]]
  /\ desk' = Lowered(p)
  /\ post' = [post EXCEPT ![p] = [status |-> next, evidenceHold |-> @.evidenceHold /\ ~last]]
  /\ Released(p, last)
  /\ comment' = IF removing /\ r[2] = "comment" THEN comment \ {p} ELSE comment
  /\ page' = IF page.exists
               THEN [page EXCEPT !.postCount = AtLeastZero(@ + gain),
                                 !.pinned = IF next = "removed" THEN Unpinned(p) ELSE @]
               ELSE page
  /\ UNCHANGED <<cleanup, media, leaving, worker>>

(***************************************************************************)
(* Deletion of the owner's account: the page goes, then each post, as a    *)
(* tombstone if it is under review.                                        *)
(***************************************************************************)
RemovePage ==
  /\ Deletable /\ page.exists
  /\ leaving' = TRUE
  /\ page' = [page EXCEPT !.exists = FALSE]
  /\ UNCHANGED <<post, comment, desk, report, job, retention, cleanup, media, worker>>

RetirePost(p) ==
  /\ leaving /\ Exists(p)
  /\ post[p].status # "deleted" \/ ~UnderReview(p)
  /\ IF UnderReview(p)
       THEN /\ SetStatus(p, "deleted")
            /\ job' = [job EXCEPT ![p] = "held"]
            /\ retention' = [retention EXCEPT ![p] = IF @ = "none" THEN "later" ELSE @]
            /\ UNCHANGED <<desk, cleanup>>
       ELSE /\ SetStatus(p, "gone")
            /\ cleanup' = cleanup \cup {p}
            /\ job' = [job EXCEPT ![p] = "free"]
            /\ desk' = [desk EXCEPT ![p] = [count |-> 0, last |-> FALSE]]
            /\ retention' = [retention EXCEPT ![p] = "none"]
  /\ UNCHANGED <<comment, report, media, page, leaving, worker>>

(***************************************************************************)
(* pagesMaintenance.  The media worker reads a free job, deletes the       *)
(* object, and takes the job away; the purge ends a tombstone.             *)
(***************************************************************************)
ReadJob(p) ==
  /\ job[p] = "free" /\ p \notin worker
  /\ worker' = worker \cup {p}
  /\ UNCHANGED <<post, comment, desk, report, job, retention, cleanup, media, page, leaving>>

DeleteBytes(p) ==
  /\ p \in worker
  /\ media' = media \ {p}
  /\ worker' = worker \ {p}
  /\ job' = IF job[p] = "free" THEN [job EXCEPT ![p] = "none"] ELSE job
  /\ UNCHANGED <<post, comment, desk, report, retention, cleanup, page, leaving>>

NinetyDaysPass(p) ==
  /\ retention[p] = "later"
  /\ retention' = [retention EXCEPT ![p] = "due"]
  /\ UNCHANGED <<post, comment, desk, report, job, cleanup, media, page, leaving, worker>>

PurgeRetainedPost(p) ==
  /\ retention[p] = "due"
  /\ retention' = [retention EXCEPT ![p] = "none"]
  /\ IF Exists(p) /\ post[p].status # "deleted"
       THEN UNCHANGED <<post, desk, job, cleanup>>
       ELSE /\ SetStatus(p, "gone")
            /\ job' = IF Exists(p) THEN [job EXCEPT ![p] = "free"] ELSE job
            /\ cleanup' = IF Exists(p) THEN cleanup \cup {p} ELSE cleanup
            /\ desk' = [desk EXCEPT ![p] = [count |-> 0, last |-> FALSE]]
  /\ UNCHANGED <<comment, report, media, page, leaving, worker>>

CleanUpPost(p) ==
  /\ p \in cleanup
  /\ cleanup' = cleanup \ {p}
  /\ comment' = IF Exists(p) THEN comment ELSE comment \ {p}
  /\ UNCHANGED <<post, desk, report, job, retention, media, page, leaving, worker>>

ModerateReport(m, r) ==
  \/ Claim(m, r) \/ Unclaim(m, r)
  \/ HoldPagePost(m, r) \/ RestorePagePost(m, r)
  \/ SuspendPage(m, r) \/ LiftPageSuspension(m, r)
  \/ \E removing \in BOOLEAN : CloseReport(m, r, removing)

PagesMaintenance(p) ==
  ReadJob(p) \/ DeleteBytes(p) \/ PurgeRetainedPost(p) \/ CleanUpPost(p)

Next ==
  \/ \E p \in Posts : PublishPost(p) \/ PinPost(p) \/ DeletePost(p) \/ RetirePost(p)
  \/ \E r \in ReportIds : CreateReport(r)
  \/ \E m \in Moderators, r \in ReportIds : ModerateReport(m, r)
  \/ RemovePage
  \/ \E p \in Posts : PagesMaintenance(p) \/ NinetyDaysPass(p)

Spec == Init /\ [][Next]_vars

--------------------------------
OpenReports(p) == {r \in ReportIds : r[3] = p /\ report[r].status \in Open}

(***************************************************************************)
(* While a post exists, its count of open reports is the number of reports *)
(* about it or its comment that staff have not closed, and its evidence is *)
(* held exactly while there is one.                                        *)
(***************************************************************************)
CountIsTrue ==
  \A p \in Posts : Exists(p) =>
    /\ desk[p].count = Cardinality(OpenReports(p))
    /\ post[p].evidenceHold <=> desk[p].count > 0

(***************************************************************************)
(* moderation.js: a hold lasts only while a report on the post is open and *)
(* never outlives the review that justified it.                            *)
(***************************************************************************)
HoldEndsWithReview ==
  \A p \in Posts : post[p].status = "held" => OpenReports(p) # {}

(***************************************************************************)
(* Bytes are deleted only of a post that is out of review: the deletion of *)
(* evidence waits for the last report, or for the ninety days after which  *)
(* the tombstone itself is purged.                                         *)
(***************************************************************************)
EvidenceStays ==
  \A p \in media \ media' : post[p].status = "gone" \/ OpenReports(p) = {}

(***************************************************************************)
(* A post readers or staff may still open keeps its media.                 *)
(***************************************************************************)
KeptPostsHaveMedia ==
  \A p \in Posts : post[p].status \in {"published", "held", "removed"} => p \in media

(***************************************************************************)
(* The page counts the posts readers can see, and pins no post that was    *)
(* taken away, whoever hid, restored, removed or deleted posts since.      *)
(***************************************************************************)
PageAgrees ==
  page.exists =>
    /\ page.postCount = Cardinality({p \in Posts : post[p].status = "published"})
    /\ page.pinned # None => post[page.pinned].status \in {"published", "held"}

=============================================================================
