---------------------------- MODULE MCCounts ----------------------------
(***************************************************************************)
(* TLC instances of the components whose transactions keep a number, a     *)
(* trail or an alert beside the documents it stands for.  They share no    *)
(* state in the code, so a behaviour plays one of them, chosen in the      *)
(* initial state, while the others stand still.                            *)
(***************************************************************************)
EXTENDS ReportTriage, TLC

CONSTANTS p1, p2, none

\* Two people who are alike: as reporters, as moderators, as members.
Two == {p1, p2}
Interchangeable == Permutations(Two)
OneComment == {"c"}
TwoRequests == {"q1", "q2"}

\* Three people with requests from before the ledger, two of them to one
\* receiver; two with blocks and follows of whom one deletes the account, with
\* two workers; and three, one of whom leaves the friendships of the others.
GraphKinds == {"graph", "leave", "peers"}
PeopleOf(kind) == IF kind = "leave" THEN {"a", "b"} ELSE {"a", "b", "c"}
CreatorsOf(kind) ==
  CASE kind = "graph" -> {"a"} [] kind = "leave" -> {"b"} [] OTHER -> {}
BlockersOf(kind) == CreatorsOf(kind)
LeaversOf(kind) == IF kind = "graph" THEN {} ELSE {"a"}
LegacyOf(kind) == IF kind = "graph" THEN {<<"a", "c">>, <<"b", "c">>} ELSE {}
WorkersOf(kind) == IF kind = "leave" THEN {"w1", "w2"} ELSE {"w1"}
MostOf(kind) == IF kind = "graph" THEN 1 ELSE 2

\* A roster of three, and one of two with friendships that end, clocks that lag
\* and invitations that expire.
RosterKinds == {"roster", "clock"}
RosterOf(kind) == {"owner"} \cup (IF kind = "roster" THEN Two ELSE {"guest"})
ThreeRoles == {"owner", "coOwner", "member"}
FickleOf(kind) == IF kind = "roster" THEN {} ELSE {{"owner", "guest"}}
TimeOf(kind) == IF kind = "roster" THEN 0 ELSE 2
LagOf(kind) == IF kind = "roster" THEN 0 ELSE 1
RevisionsOf(kind) == IF kind = "roster" THEN 3 ELSE 4
GenerationsOf(kind) == 1

\* One post with a comment and an owner who may leave, or two posts.
PostKinds == {"review", "holds"}
PostsOf(kind) == IF kind = "review" THEN {"p1"} ELSE {"p1", "p2"}
CommentedOf(kind) == IF kind = "review" THEN {"p1"} ELSE {}
ReportersOf(kind) == IF kind = "review" THEN Two ELSE {"r"}
ModeratorsOf(kind) == IF kind = "review" THEN {"m"} ELSE Two

\* A Yeel with marked rows, a Voice Moment whose audience changes.
NoticeKinds == {"reel", "moment"}
ReadersOf(kind) == {"a", "b"} \cup (IF kind = "reel" THEN {} ELSE {"m"})
FailuresOf(kind) == IF kind = "reel" THEN 1 ELSE 0
ChangesOf(kind) == IF kind = "reel" THEN 0 ELSE 1

VARIABLES
  part,          \* the component whose life is played
  graphDisabled, graphFriends, graphFollows, graphIncoming, graphSent, graphBlocks,
  graphCount, graphLedger, graphAlerts, graphStep, graphWorker, graphAstray,
  rosterRoot, rosterMember, rosterLedger, rosterInvite, rosterPointer, rosterFriends,
  rosterClock, rosterBroken, rosterBarred,
  pagePost, pageComment, pageDesk, pageReport, pageJob, pageRetention, pageCleanup,
  pageMedia, pagePage, pageLeaving, pageWorker,
  noticeParent, noticeCommentCount, noticeComment, noticeMentions, noticeEdges,
  noticeCounter, noticeMuted, noticeBlocked, noticeAudience, noticeRow, noticeReceipt,
  noticeDismissed, noticeCharged, noticeCreation, noticeDeletion, noticeLate,
  noticeAbandoned, noticeChanges, noticeFailures

graphVars ==
  <<graphDisabled, graphFriends, graphFollows, graphIncoming, graphSent, graphBlocks,
    graphCount, graphLedger, graphAlerts, graphStep, graphWorker, graphAstray>>

GraphOf(kind) == INSTANCE SocialGraph WITH
  Users <- PeopleOf(kind), Creators <- CreatorsOf(kind), Blockers <- BlockersOf(kind),
  Leavers <- LeaversOf(kind), LegacyRequests <- LegacyOf(kind), Workers <- WorkersOf(kind),
  EdgePage <- 1, MAX_FRIENDS <- MostOf(kind), MAX_FOLLOWING <- MostOf(kind),
  MAX_PENDING_REQUESTS <- 1, MAX_BLOCKED_USERS <- 1, disabled <- graphDisabled,
  friends <- graphFriends, follows <- graphFollows, incoming <- graphIncoming,
  sent <- graphSent, blocks <- graphBlocks, count <- graphCount, ledger <- graphLedger,
  alerts <- graphAlerts, step <- graphStep, worker <- graphWorker,
  astray <- graphAstray

rosterVars ==
  <<rosterRoot, rosterMember, rosterLedger, rosterInvite, rosterPointer, rosterFriends,
    rosterClock, rosterBroken, rosterBarred>>

AdmissionOf(kind) == INSTANCE ServerAdmission WITH
  Users <- RosterOf(kind), First <- "owner", Roles <- ThreeRoles, Fickle <- FickleOf(kind),
  MaxTime <- TimeOf(kind), MaxLag <- LagOf(kind), TTL <- 1,
  MaxRevision <- RevisionsOf(kind), MaxGeneration <- GenerationsOf(kind), None <- none,
  root <- rosterRoot, member <- rosterMember, ledger <- rosterLedger,
  invite <- rosterInvite, pointer <- rosterPointer, friends <- rosterFriends,
  clock <- rosterClock, broken <- rosterBroken, barred <- rosterBarred

pageVars ==
  <<pagePost, pageComment, pageDesk, pageReport, pageJob, pageRetention, pageCleanup,
    pageMedia, pagePage, pageLeaving, pageWorker>>

PostsOn(kind) == INSTANCE PagePosts WITH
  Posts <- PostsOf(kind), Reporters <- ReportersOf(kind), Moderators <- ModeratorsOf(kind),
  Commented <- CommentedOf(kind), Deletable <- (kind = "review"), post <- pagePost,
  comment <- pageComment, desk <- pageDesk, report <- pageReport, job <- pageJob,
  retention <- pageRetention, cleanup <- pageCleanup, media <- pageMedia, page <- pagePage,
  leaving <- pageLeaving, worker <- pageWorker

noticeVars ==
  <<noticeParent, noticeCommentCount, noticeComment, noticeMentions, noticeEdges,
    noticeCounter, noticeMuted, noticeBlocked, noticeAudience, noticeRow, noticeReceipt,
    noticeDismissed, noticeCharged, noticeCreation, noticeDeletion, noticeLate,
    noticeAbandoned, noticeChanges, noticeFailures>>

NoticesOf(kind) == INSTANCE CommentNotices WITH
  Users <- ReadersOf(kind), Author <- "a", Comments <- {1}, Writer <- (1 :> "b"),
  Kind <- kind, Touches <- (kind = "reel"), ReceiptsExpire <- (kind = "reel"),
  MentionBudget <- 1, MaxChanges <- ChangesOf(kind), MaxFailures <- FailuresOf(kind),
  parent <- noticeParent, commentCount <- noticeCommentCount, comment <- noticeComment,
  mentions <- noticeMentions, edges <- noticeEdges, counter <- noticeCounter,
  muted <- noticeMuted, blocked <- noticeBlocked, audience <- noticeAudience,
  row <- noticeRow, receipt <- noticeReceipt, dismissed <- noticeDismissed,
  charged <- noticeCharged, creation <- noticeCreation, deletion <- noticeDeletion,
  late <- noticeLate, abandoned <- noticeAbandoned, changes <- noticeChanges,
  failures <- noticeFailures

ASSUME InstancesAreLegal ==
  /\ \A kind \in GraphKinds : GraphOf(kind)!SocialAssumption
  /\ \A kind \in RosterKinds : AdmissionOf(kind)!AdmissionConstantsAssumption
  /\ \A kind \in PostKinds : PostsOn(kind)!PagePostsAssumption
  /\ \A kind \in NoticeKinds : NoticesOf(kind)!CommentNoticesAssumption

\* The kind an instance has when it is not its part that is played.
Plays(kind, kinds, other) == kind = IF part \in kinds THEN part ELSE other

CountsInit ==
  /\ part \in {"triage"} \cup GraphKinds \cup RosterKinds \cup PostKinds \cup NoticeKinds
  /\ Init
  /\ \E kind \in GraphKinds : Plays(kind, GraphKinds, "leave") /\ GraphOf(kind)!Init
  /\ \E kind \in RosterKinds : Plays(kind, RosterKinds, "clock") /\ AdmissionOf(kind)!Init
  /\ \E kind \in PostKinds : Plays(kind, PostKinds, "holds") /\ PostsOn(kind)!Init
  /\ \E kind \in NoticeKinds : Plays(kind, NoticeKinds, "moment") /\ NoticesOf(kind)!Init

CountsNext ==
  /\ UNCHANGED part
  /\ \/ /\ part = "triage" /\ Next
        /\ UNCHANGED <<graphVars, rosterVars, pageVars, noticeVars>>
     \/ /\ \E kind \in GraphKinds : part = kind /\ GraphOf(kind)!Next
        /\ UNCHANGED <<vars, rosterVars, pageVars, noticeVars>>
     \/ /\ \E kind \in RosterKinds : part = kind /\ AdmissionOf(kind)!Next
        /\ UNCHANGED <<vars, graphVars, pageVars, noticeVars>>
     \/ /\ \E kind \in PostKinds : part = kind /\ PostsOn(kind)!Next
        /\ UNCHANGED <<vars, graphVars, rosterVars, noticeVars>>
     \/ /\ \E kind \in NoticeKinds : part = kind /\ NoticesOf(kind)!Next
        /\ UNCHANGED <<vars, graphVars, rosterVars, pageVars>>

countsVars == <<part, vars, graphVars, rosterVars, pageVars, noticeVars>>

CountsSpec == CountsInit /\ [][CountsNext]_countsVars

--------------------------------
(* The numbers and projections are the documents they stand for: counters and
   ledger of the social graph, the roster of a server and its ledger, the open
   reports and published posts of a Page, comments and likes; what is bounded
   stays so, and nothing is left of a relation that a block, a departure, a
   removal or a deletion ended.  Where somebody leaves the graph, the numbers
   the social stage itself puts wrong, and the alerts of the leaver, are excepted
   by name (SocialGraph!astray).  That a hold ends with its review is said of
   the posts no author deletes (pages/moderation.js:287), and that a row ends
   with its comment of Moments only, whose receipts do not expire
   (notifications/engagement.js:320). *)
NumbersAreTrue ==
  /\ \A kind \in GraphKinds : part = kind =>
       /\ GraphOf(kind)!CollectionsBounded /\ GraphOf(kind)!BlocksSever
       /\ GraphOf(kind)!OneRelation /\ GraphOf(kind)!LeaversHaveNoEdges
       /\ GraphOf(kind)!CountsExact /\ GraphOf(kind)!LedgerExact
       /\ GraphOf(kind)!AlertsHaveEdges
  /\ \A kind \in RosterKinds : part = kind =>
       /\ AdmissionOf(kind)!CountMatchesRoster /\ AdmissionOf(kind)!OneOwner
       /\ AdmissionOf(kind)!LedgerAgrees /\ AdmissionOf(kind)!InvitationsAreForOutsiders
  /\ \A kind \in PostKinds : part = kind =>
       /\ PostsOn(kind)!CountIsTrue /\ PostsOn(kind)!PageAgrees
       /\ PostsOn(kind)!KeptPostsHaveMedia
       /\ kind = "holds" => PostsOn(kind)!HoldEndsWithReview
  /\ \A kind \in NoticeKinds : part = kind =>
       /\ NoticesOf(kind)!CountsMatch /\ NoticesOf(kind)!DismissedStaysAway
       /\ kind = "moment" => NoticesOf(kind)!RetiredWithComment

(* A step leaves the record it is judged by later: a change of standing has a
   revision of its own, an invitation dies with its inviter's standing, bytes
   under review are not deleted, and a notice goes to those alone who may see
   its comment at that instant, and no removal writes to a tombstone. *)
StepsOnRecord ==
  [][/\ part = "triage" => TombstoneIsStable
     /\ \A kind \in RosterKinds : part = kind =>
          /\ AdmissionOf(kind)!StandingsAreNumbered
          /\ AdmissionOf(kind)!InvitationsDieWithTheirIssuer
     /\ \A kind \in PostKinds : part = kind => PostsOn(kind)!EvidenceStays
     /\ \A kind \in NoticeKinds : part = kind =>
          NoticesOf(kind)!NoticeOnlyToWhoMaySee]_countsVars
=============================================================================
