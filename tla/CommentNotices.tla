---------------------------- MODULE CommentNotices ----------------------------
(***************************************************************************)
(* What follows a comment under a Yeel or a Voice Moment: its likes, a bell *)
(* row for the parent's author and one for everybody it mentions. Callables *)
(* write the comment; two Firestore triggers, delivered at least once and   *)
(* in any order, write the rows when it was created and take rows and likes *)
(* away when it was deleted. Here is one parent with a few comments.        *)
(***************************************************************************)
EXTENDS Naturals, FiniteSets, TLC

CONSTANTS
  Users, Author,  \* Author published the parent
  Comments, Writer, \* Writer[c] wrote comment c
  Kind,           \* "reel" or "moment": a Moment also asks who may see its author
  Touches,        \* do recipients mark rows read?
  ReceiptsExpire, \* may a comment outlive the 30 days of its receipts?
  MentionBudget,  \* MENTION_BUDGET.maxEvents, one window
  MaxChanges,     \* bound: blocks, mutes and audience changes
  MaxFailures     \* bound: failed or repeated trigger runs

CommentNoticesAssumption ==
  /\ Author \in Users /\ Writer \in [Comments -> Users]
  /\ Kind \in {"reel", "moment"} /\ Touches \in BOOLEAN /\ ReceiptsExpire \in BOOLEAN
  /\ MentionBudget \in Nat /\ MaxChanges \in Nat /\ MaxFailures \in Nat

VARIABLES
  parent,      \* published and visible, hidden by moderation, or gone
  commentCount,\* its counter
  comment,     \* of each comment
  mentions,    \* commentMentions/{c}: whom it names; {} is no record
  edges, counter, \* commentLikes of each comment, and commentLikeCounters
  muted, blocked, audience, \* accounts that may not act, pairs, who may see Author
  row,         \* users/{u}/notifications: 0 absent, else its update count
  receipt,     \* notificationDeliveryEvents: the outcome per comment and recipient
  dismissed,   \* rows their recipient deleted
  charged,     \* mentions charged per actor
  creation, deletion, \* the run of each trigger
  late,        \* trigger events older than the retry window
  abandoned,   \* comments whose likes were given up
  changes, failures

content == <<parent, commentCount, comment, mentions>>
likes == <<edges, counter>>
people == <<muted, blocked, audience, changes>>
bells == <<row, receipt, dismissed>>
triggers == <<charged, creation, deletion, late, abandoned, failures>>
vars == <<content, likes, people, bells, triggers>>

Idle == [at |-> "off", left |-> {}, seen |-> <<>>, named |-> FALSE]
Started(at) == [Idle EXCEPT !.at = at]
Pairs == {p \in SUBSET Users : Cardinality(p) = 2}

--------------------------------
(* Who may see, and what is still current.                                 *)

\* neither is restricted and neither has blocked the other
assertReelAuthorAudience(viewer, author) ==
  {viewer, author} \cap muted = {} /\ {viewer, author} \notin blocked

\* and, for a Moment, its author's profile visibility
voiceMomentAudienceAllows(viewer, author) ==
  /\ assertReelAuthorAudience(viewer, author)
  /\ viewer # author => viewer \in audience

audienceAllows(viewer, author) ==
  IF Kind = "moment" THEN voiceMomentAudienceAllows(viewer, author)
                     ELSE assertReelAuthorAudience(viewer, author)

liveCommentParent(c) == parent = "live" /\ comment[c] = "live"

commentNotificationSourceIsCurrent(c) ==
  /\ liveCommentParent(c) /\ Writer[c] # Author
  /\ audienceAllows(Writer[c], Author)

commentMentionSourceIsCurrent(c, u) ==
  /\ u \in mentions[c] /\ u \notin {Writer[c], Author}
  /\ liveCommentParent(c)
  /\ audienceAllows(Writer[c], Author) /\ audienceAllows(u, Author)

Current(c, u) ==
  IF u = Author THEN commentNotificationSourceIsCurrent(c)
                ELSE commentMentionSourceIsCurrent(c, u)

--------------------------------
(* The callables.                                                          *)

Init ==
  /\ parent = "live" /\ commentCount = 0
  /\ comment = [c \in Comments |-> "none"] /\ mentions = [c \in Comments |-> {}]
  /\ edges = [c \in Comments |-> {}] /\ counter = [c \in Comments |-> 0]
  /\ muted = {} /\ blocked = {} /\ audience = Users /\ changes = 0
  /\ row = [c \in Comments |-> [u \in Users |-> 0]]
  /\ receipt = [c \in Comments |-> [u \in Users |-> "none"]]
  /\ dismissed = {} /\ charged = [u \in Users |-> 0]
  /\ creation = [c \in Comments |-> Idle] /\ deletion = [c \in Comments |-> Idle]
  /\ late = {} /\ abandoned = {} /\ failures = 0

\* normalizeMentionUserIds drops oneself
createReelComment(c, named) ==
  /\ comment[c] = "none" /\ parent = "live" /\ audienceAllows(Writer[c], Author)
  /\ comment' = [comment EXCEPT ![c] = "live"]
  /\ mentions' = [mentions EXCEPT ![c] = named \ {Writer[c]}]
  /\ commentCount' = commentCount + 1
  /\ creation' = [creation EXCEPT ![c] = Started("due")]
  /\ UNCHANGED <<parent, likes, people, bells, charged, deletion, late, abandoned, failures>>

CommentGoes(c) ==
  /\ comment' = [comment EXCEPT ![c] = "deleted"]
  /\ commentCount' = IF parent = "gone" THEN 0 ELSE commentCount - 1
  /\ deletion' = [deletion EXCEPT ![c] = Started("due")]
  /\ UNCHANGED <<parent, mentions, likes, people, bells, charged, creation, late, abandoned, failures>>

\* by its writer, also while muted and under a hidden parent; removeReelComment,
\* by the parent's author, is the same step
deleteReelComment(c) ==
  /\ comment[c] = "live" /\ parent # "gone" /\ commentCount > 0
  /\ CommentGoes(c)

\* the cleanup of a purged parent, one document at a time
purgeComment(c) == comment[c] = "live" /\ parent = "gone" /\ CommentGoes(c)

hideParent ==
  /\ parent \in {"live", "hidden"} /\ changes < MaxChanges
  /\ parent' = IF parent = "live" THEN "hidden" ELSE "live"
  /\ changes' = changes + 1
  /\ UNCHANGED <<commentCount, comment, mentions, likes, muted, blocked, audience, bells, triggers>>

deleteParent ==
  /\ parent # "gone"
  /\ parent' = "gone" /\ commentCount' = 0
  /\ UNCHANGED <<comment, mentions, likes, people, bells, triggers>>

\* a mute, a block or a change of profile visibility, either way
ChangePeople ==
  /\ changes < MaxChanges /\ changes' = changes + 1
  /\ \/ /\ \E u \in Users : muted' = (muted \ {u}) \cup ({u} \ muted)
        /\ UNCHANGED <<blocked, audience>>
     \/ /\ \E p \in Pairs : blocked' = (blocked \ {p}) \cup ({p} \ blocked)
        /\ UNCHANGED <<muted, audience>>
     \/ /\ Kind = "moment"
        /\ \E u \in Users \ {Author} : audience' = (audience \ {u}) \cup ({u} \ audience)
        /\ UNCHANGED <<muted, blocked>>
  /\ UNCHANGED <<content, likes, bells, triggers>>

\* commentLikeWriteState: a counter at 0 beside an edge is refused
commentLikeWriteState(c, u) == u \in edges[c] => counter[c] > 0

applyCommentLikeToggle(c, u) ==
  /\ edges' = [edges EXCEPT ![c] = (@ \ {u}) \cup ({u} \ @)]
  /\ counter' = [counter EXCEPT ![c] = IF u \in edges[c] THEN @ - 1 ELSE @ + 1]
  /\ UNCHANGED <<content, people, bells, triggers>>

\* a like needs the audience of the parent's author and of the writer; an
\* unlike of a held like needs neither and gets a count of 0 in its place
mayToggle(c, u) ==
  /\ liveCommentParent(c) /\ commentLikeWriteState(c, u)
  /\ u \notin edges[c] => audienceAllows(u, Author) /\ audienceAllows(u, Writer[c])

setReelCommentLikeV1(c, u) ==
  Kind = "reel" /\ mayToggle(c, u) /\ applyCommentLikeToggle(c, u)

setMomentCommentLikeV1(c, u) ==
  Kind = "moment" /\ mayToggle(c, u) /\ applyCommentLikeToggle(c, u)

--------------------------------
(* onReelCommentCreated / onMomentCommentCreated.                          *)

RunsCreation(c, from, run) ==
  /\ creation[c].at = from
  /\ creation' = [creation EXCEPT ![c] = run]
  /\ UNCHANGED <<content, likes, people, deletion, late, abandoned, failures>>

\* too old to notify, the parent is missing, or it begins
handleCommentCreated(c) ==
  /\ RunsCreation(c, "due",
       Started(IF <<"created", c>> \in late \/ parent = "gone" THEN "done"
               ELSE IF Writer[c] = Author THEN "record" ELSE "author"))
  /\ UNCHANGED <<bells, charged>>

\* one transaction: the receipt makes a repeated event do nothing
createNotificationForEvent(c, u) ==
  LET written == receipt[c][u] = "none"
                 /\ {Writer[c], u} \cap muted = {} /\ {Writer[c], u} \notin blocked
                 /\ Current(c, u) /\ row[c][u] = 0
  IN  /\ receipt' = [receipt EXCEPT ![c][u] = IF @ # "none" THEN @ ELSE IF written THEN "written" ELSE "skipped"]
      /\ row' = IF written THEN [row EXCEPT ![c][u] = 1] ELSE row
      /\ dismissed' = dismissed

NotifyAuthor(c) ==
  /\ RunsCreation(c, "author", Started("record"))
  /\ createNotificationForEvent(c, Author)
  /\ charged' = charged

\* deliverMentions: the record, without the writer and the parent's author
ReadMentions(c) ==
  /\ RunsCreation(c, "record",
       [Started("mention") EXCEPT !.left = mentions[c] \ {Writer[c], Author}])
  /\ UNCHANGED <<bells, charged>>

chargeMentionBudget(c) == charged[Writer[c]] < MentionBudget

deliverMentions(c) ==
  \/ /\ creation[c].left = {} \/ ~chargeMentionBudget(c)
     /\ RunsCreation(c, "mention", Started("done"))
     /\ UNCHANGED <<bells, charged>>
  \/ /\ chargeMentionBudget(c)
     /\ \E u \in creation[c].left :
          /\ RunsCreation(c, "mention", [creation[c] EXCEPT !.left = @ \ {u}])
          /\ createNotificationForEvent(c, u)
     /\ charged' = [charged EXCEPT ![Writer[c]] = @ + 1]

--------------------------------
(* onReelCommentDeleted / onMomentCommentDeleted.                          *)

RunsDeletion(c, from, run) ==
  /\ deletion[c].at = from
  /\ deletion' = [deletion EXCEPT ![c] = run]
  /\ UNCHANGED <<parent, commentCount, comment, people, receipt, dismissed, charged, creation, late, failures>>

\* purgeCommentLikes: the edges in batches, then the counter
PurgeEdges(c) ==
  /\ RunsDeletion(c, "due", Started("edges"))
  /\ edges' = [edges EXCEPT ![c] = {}]
  /\ UNCHANGED <<counter, mentions, row, abandoned>>

PurgeCounter(c) ==
  /\ RunsDeletion(c, "edges", [Started("retire") EXCEPT !.left = {Author}])
  /\ counter' = [counter EXCEPT ![c] = 0]
  /\ UNCHANGED <<edges, mentions, row, abandoned>>

\* purgeLikesOfDeletedComment: a failure rethrows until the window has passed
AbandonPurge(c) ==
  /\ <<"deleted", c>> \in late
  /\ \E from \in {"due", "edges"} :
       RunsDeletion(c, from, [Started("retire") EXCEPT !.left = {Author}])
  /\ abandoned' = abandoned \cup {c}
  /\ UNCHANGED <<likes, mentions, row>>

\* retireForEvent: only a receipt "written" leads to a row
RetireLook(c, u) ==
  /\ u \in deletion[c].left
  /\ RunsDeletion(c, "retire",
       IF receipt[c][u] = "written" /\ row[c][u] > 0
         THEN [deletion[c] EXCEPT !.at = "seen", !.left = @ \ {u}, !.seen = <<u, row[c][u]>>]
         ELSE [deletion[c] EXCEPT !.left = @ \ {u}])
  /\ UNCHANGED <<likes, mentions, row, abandoned>>

Retired(c) == [deletion[c] EXCEPT !.at = "retire", !.seen = <<>>]

\* the delete demands the row as it was read; a changed one stays
retireNotification(c) ==
  LET u == deletion[c].seen[1]
  IN  /\ RunsDeletion(c, "seen", Retired(c))
      /\ row' = IF row[c][u] = deletion[c].seen[2] THEN [row EXCEPT ![c][u] = 0] ELSE row
      /\ UNCHANGED <<likes, mentions, abandoned>>

\* the author's row is done; the record names the others
ReadRecord(c) ==
  /\ deletion[c].left = {} /\ ~deletion[c].named
  /\ RunsDeletion(c, "retire", [deletion[c] EXCEPT !.left = mentions[c], !.named = TRUE])
  /\ UNCHANGED <<likes, mentions, row, abandoned>>

DropRecord(c) ==
  /\ deletion[c].left = {} /\ deletion[c].named
  /\ RunsDeletion(c, "retire", Started("done"))
  /\ mentions' = [mentions EXCEPT ![c] = {}]
  /\ UNCHANGED <<likes, row, abandoned>>

--------------------------------
(* Redelivery, time, and the recipients.                                   *)

Running(run) == run.at \notin {"off", "due"}

\* a run dies, throws, or is delivered once more
Redeliver(c) ==
  /\ failures < MaxFailures /\ failures' = failures + 1
  /\ \/ Running(creation[c]) /\ creation' = [creation EXCEPT ![c] = Started("due")] /\ deletion' = deletion
     \/ Running(deletion[c]) /\ deletion' = [deletion EXCEPT ![c] = Started("due")] /\ creation' = creation
  /\ UNCHANGED <<content, likes, people, bells, charged, late, abandoned>>

\* eventIsTooOldToNotify
AgeEvent(c) ==
  /\ late' \in {late \cup {<<"created", c>>}, late \cup {<<"deleted", c>>}}
  /\ late' # late
  /\ <<"created", c>> \in late' => creation[c].at # "off"
  /\ <<"deleted", c>> \in late' => deletion[c].at # "off"
  /\ UNCHANGED <<content, likes, people, bells, charged, creation, deletion, abandoned, failures>>

\* Firestore TTL, thirty days after the row
ExpireReceipt(c, u) ==
  /\ ReceiptsExpire /\ receipt[c][u] # "none"
  /\ creation[c].at = "done" /\ <<"created", c>> \in late
  /\ receipt' = [receipt EXCEPT ![c][u] = "none"]
  /\ UNCHANGED <<content, likes, people, row, dismissed, triggers>>

markRead(c, u) ==
  /\ Touches /\ row[c][u] = 1
  /\ row' = [row EXCEPT ![c][u] = 2]
  /\ UNCHANGED <<content, likes, people, receipt, dismissed, triggers>>

dismiss(c, u) ==
  /\ row[c][u] > 0
  /\ row' = [row EXCEPT ![c][u] = 0] /\ dismissed' = dismissed \cup {<<c, u>>}
  /\ UNCHANGED <<content, likes, people, receipt, triggers>>

Next ==
  \/ \E c \in Comments :
       \/ \E named \in SUBSET Users : createReelComment(c, named)
       \/ deleteReelComment(c) \/ purgeComment(c)
       \/ handleCommentCreated(c) \/ NotifyAuthor(c) \/ ReadMentions(c) \/ deliverMentions(c)
       \/ PurgeEdges(c) \/ PurgeCounter(c) \/ AbandonPurge(c)
       \/ retireNotification(c) \/ ReadRecord(c) \/ DropRecord(c)
       \/ Redeliver(c) \/ AgeEvent(c)
       \/ \E u \in Users :
            \/ setReelCommentLikeV1(c, u) \/ setMomentCommentLikeV1(c, u) \/ RetireLook(c, u)
            \/ ExpireReceipt(c, u) \/ markRead(c, u) \/ dismiss(c, u)
  \/ hideParent \/ deleteParent \/ ChangePeople

Spec == Init /\ [][Next]_vars

--------------------------------
TypeOK ==
  /\ parent \in {"live", "hidden", "gone"} /\ commentCount \in 0 .. Cardinality(Comments)
  /\ comment \in [Comments -> {"none", "live", "deleted"}]
  /\ mentions \in [Comments -> SUBSET Users] /\ edges \in [Comments -> SUBSET Users]
  /\ counter \in [Comments -> 0 .. Cardinality(Users)]
  /\ muted \subseteq Users /\ blocked \subseteq Pairs /\ audience \subseteq Users
  /\ row \in [Comments -> [Users -> 0 .. 2]]
  /\ receipt \in [Comments -> [Users -> {"none", "written", "skipped"}]]
  /\ dismissed \subseteq Comments \X Users
  /\ charged \in [Users -> 0 .. MentionBudget]
  /\ late \subseteq {"created", "deleted"} \X Comments /\ abandoned \subseteq Comments

(* A parent counts its live comments and a live comment its likes, through  *)
(* likes, unlikes, both kinds of deletion and the purges. The documents are *)
(* apart and move in one transaction (applyCommentLikeToggle).              *)
CountsMatch ==
  /\ parent # "gone" => commentCount = Cardinality({c \in Comments : comment[c] = "live"})
  /\ \A c \in Comments : comment[c] = "live" => counter[c] = Cardinality(edges[c])

(* "A friends-only Moment must never announce itself to a non-friend": at   *)
(* the instant a row is written its comment is live and its recipient may   *)
(* see the parent, however late the trigger runs.                           *)
NoticeOnlyToWhoMaySee ==
  \A c \in Comments, u \in Users :
       row[c][u] = 0 /\ row'[c][u] > 0 =>
         liveCommentParent(c) /\ audienceAllows(u, Author) /\ audienceAllows(Writer[c], Author)

(* An event delivered again does not bring back a row its recipient deleted *)
(* (canonical.js: "cannot duplicate or resurrect").                         *)
DismissedStaysAway == \A p \in dismissed : row[p[1]][p[2]] = 0

(* When the run for a deleted comment has ended, none of its rows is left:  *)
(* not one written by a creation event delivered meanwhile.                 *)
RetiredWithComment ==
  \A c \in Comments : deletion[c].at = "done" => \A u \in Users : row[c][u] = 0

=============================================================================
