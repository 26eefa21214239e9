----------------------------- MODULE ReportTriage -----------------------------
(***************************************************************************)
(* Reports of a Reel and of the comments under it, and what moderators     *)
(* make of them: createReelReport and createReelCommentReport in           *)
(* functions/reels/service.js, moderateReport in moderation/reports.js.    *)
(*                                                                         *)
(*   root      reels/{reelId}: published, expired (with its content) or a  *)
(*             tombstone, deleted or purged; and moderationStatus hidden   *)
(*   count     the root's commentCount, Nil on a tombstone                *)
(*   comments  the documents of the comments subcollection                 *)
(*   report    reports/{reportId}                                          *)
(*   asked     the moderation requests clients have sent, by requestId     *)
(*   audit     adminAuditLogs/{digest of the report and the requestId}     *)
(*   answer    what a request was last answered                            *)
(*   remover   who deleted the document of a comment                       *)
(*   moves     how often the workflow of a report changed                  *)
(*                                                                         *)
(* A callable is one transaction.  A client repeats a request whose answer *)
(* it does not know, at any time, also after it has sent others.           *)
(***************************************************************************)
EXTENDS Integers, FiniteSets

CONSTANTS
  Comments,     \* comment ids, each written once
  Reporters,    \* people who may report
  Staff,        \* active staff
  Requests,     \* moderation request ids
  MaxReports,   \* bound: reports filed
  Nil           \* absence

ASSUME TriageAssumption ==
  /\ Nil \notin Staff \cup Requests \cup Comments
  /\ IsFiniteSet(Comments) /\ IsFiniteSet(Requests)
  /\ "reel" \notin Comments
  /\ Requests \cap {"nobody", "unwritten", "person", "worker"} = {}
  /\ Nil \notin [who : Staff, report : Reporters \X (Comments \cup {"reel"}),
                action : {"claim", "release", "resolve", "removeAndResolve", "dismiss"}]
  /\ Nil \notin [removed : BOOLEAN, already : BOOLEAN]

VARIABLES root, hidden, count, comments, report, asked, audit, answer, remover, moves

reel == <<root, hidden, count, comments, remover>>
desk == <<report, asked, audit, answer, moves>>
vars == <<reel, desk>>

--------------------------------
Reel == "reel"
\* One report per reporter and target: the report id is their digest.
Reports == Reporters \X (Comments \cup {Reel})
Target(p) == p[2]

Actions == {"claim", "release", "resolve", "removeAndResolve", "dismiss"}
Statuses == {"none", "open", "inReview", "resolved", "dismissed"}
Tombstones == {"deleted", "purged"}

Report == [status : Statuses, assignee : Staff \cup {Nil},
           last : Requests \cup {Nil}, removed : BOOLEAN]
NoReport == [status |-> "none", assignee |-> Nil, last |-> Nil, removed |-> FALSE]

TypeOK ==
  /\ root \in {"published", "expired"} \cup Tombstones
  /\ hidden \in BOOLEAN
  /\ count \in (0 .. Cardinality(Comments)) \cup {Nil}
  /\ comments \subseteq Comments
  /\ report \in [Reports -> Report]
  /\ asked \in [Requests -> [who : Staff, report : Reports, action : Actions] \cup {Nil}]
  /\ audit \in [Requests -> [removed : BOOLEAN, already : BOOLEAN] \cup {Nil}]
  /\ answer \in [Requests -> {"none", "done", "refused"}]
  /\ remover \in [Comments -> {"nobody", "unwritten", "person", "worker"} \cup Requests]
  /\ moves \in [Reports -> 0 .. Cardinality(Requests)]

--------------------------------
\* addReelComment, on a Reel that is shown.
CreatesComment(c) ==
  /\ root = "published" /\ ~hidden /\ remover[c] = "unwritten"
  /\ comments' = comments \cup {c}
  /\ count' = count + 1
  /\ remover' = [remover EXCEPT ![c] = "nobody"]
  /\ UNCHANGED <<root, hidden, desk>>

\* deleteReelComment and removeReelComment: the comment's author or the Reel's.
deleteReelComment(c) ==
  /\ root \notin Tombstones /\ c \in comments /\ count > 0
  /\ comments' = comments \ {c}
  /\ count' = count - 1
  /\ remover' = [remover EXCEPT ![c] = "person"]
  /\ UNCHANGED <<root, hidden, desk>>

\* The Reel expires; its root is kept as it is.
Expires ==
  /\ root = "published"
  /\ root' = "expired"
  /\ UNCHANGED <<hidden, count, comments, remover, desk>>

\* deleteReel, or the purge after the retention of an expired one: the root
\* becomes a tombstone without a counter.
BecomesTombstone ==
  /\ \/ root = "published" /\ root' = "deleted"
     \/ root = "expired" /\ root' = "purged"
  /\ count' = Nil
  /\ UNCHANGED <<hidden, comments, remover, desk>>

\* The cleanup worker drains the thread of a tombstone.
PurgesComment(c) ==
  /\ root \in Tombstones /\ c \in comments
  /\ comments' = comments \ {c}
  /\ remover' = [remover EXCEPT ![c] = "worker"]
  /\ UNCHANGED <<root, hidden, count, desk>>

--------------------------------
Filed == {p \in Reports : report[p].status # "none"}

Files(p) ==
  /\ report[p].status = "none" /\ Cardinality(Filed) < MaxReports
  /\ report' = [report EXCEPT ![p].status = "open"]
  /\ UNCHANGED <<reel, asked, audit, answer, moves>>

\* Also a hidden or an expired Reel keeps its comments reportable.
createReelCommentReport(p) ==
  /\ Target(p) \in comments /\ root \notin Tombstones
  /\ Files(p)

\* A purged Reel can be reported still; a deleted one cannot.
createReelReport(p) ==
  /\ Target(p) = Reel
  /\ root \in {"expired", "purged"} \/ (root = "published" /\ ~hidden)
  /\ Files(p)

\* A moderator decides, and the client takes a new request id for it.
Asks(q, m, p, a) ==
  /\ asked[q] = Nil /\ p \in Filed
  /\ asked' = [asked EXCEPT ![q] = [who |-> m, report |-> p, action |-> a]]
  /\ UNCHANGED <<reel, report, audit, answer, moves>>

--------------------------------
\* TRANSITIONS of the actions that are not about Pages.
From(a) ==
  CASE a = "claim" -> {"open"}
    [] a = "release" -> {"inReview"}
    [] OTHER -> {"open", "inReview"}

To(a) ==
  CASE a = "claim" -> "inReview"
    [] a = "release" -> "open"
    [] a = "dismiss" -> "dismissed"
    [] OTHER -> "resolved"

SomebodyElses(r, m) == r.status = "inReview" /\ r.assignee \notin {Nil, m}

\* The audit row is created, so that a request that was once applied fails.
Recorded(q) == audit[q] # Nil

RootIsTombstone == root \in Tombstones

StillThere(c) == c \in comments

\* Whether the content of a report can be removed: a deleted Reel is no
\* evidence any more, and a count of zero contradicts the comment it counts.
Removable(t) ==
  IF t = Reel THEN root # "deleted"
  ELSE StillThere(t) => RootIsTombstone \/ count > 0

AlreadyRemoved(t) == t # Reel /\ ~StillThere(t)

RemovesReel ==
  /\ hidden' = (hidden \/ root # "purged")
  /\ UNCHANGED <<root, count, comments, remover>>

\* mutant: on a tombstone the words are left to the worker
Deletes_Live(q, c) ==
  IF RootIsTombstone THEN UNCHANGED <<comments, remover>>
  ELSE comments' = comments \ {c} /\ remover' = [remover EXCEPT ![c] = q]

Deletes(q, c) == comments' = comments \ {c} /\ remover' = [remover EXCEPT ![c] = q]

RemovesComment(q, c) ==
  /\ IF StillThere(c)
     THEN /\ Deletes(q, c)
          /\ count' = IF RootIsTombstone THEN count ELSE count - 1
     ELSE UNCHANGED <<comments, count, remover>>
  /\ UNCHANGED <<root, hidden>>

\* Whether the workflow says of the content that it was removed.
ContentRemoved(t) == t # Reel \/ (root # "purged" /\ ~hidden)

Workflow(r, q, m, a, removed) ==
  [status |-> To(a),
   assignee |-> CASE a = "claim" -> m
                  [] a = "release" -> Nil
                  [] OTHER -> IF r.assignee = Nil THEN m ELSE r.assignee,
   last |-> q,
   removed |-> r.removed \/ removed]

\* moderateReport: one transaction for report, content and audit row.
Applies(q) ==
  LET m == asked[q].who
      p == asked[q].report
      a == asked[q].action
      remove == a = "removeAndResolve"
      removed == remove /\ ContentRemoved(Target(p))
  IN  /\ IF ~remove THEN UNCHANGED reel
         ELSE IF Target(p) = Reel THEN RemovesReel
         ELSE RemovesComment(q, Target(p))
      /\ report' = [report EXCEPT ![p] = Workflow(@, q, m, a, removed)]
      /\ audit' = [audit EXCEPT ![q] =
           [removed |-> removed, already |-> removed /\ AlreadyRemoved(Target(p))]]
      /\ moves' = [moves EXCEPT ![p] = @ + 1]
      /\ answer' = [answer EXCEPT ![q] = "done"]
      /\ UNCHANGED asked

Refused(q) ==
  LET r == report[asked[q].report]
  IN  \/ r.status \notin From(asked[q].action)
      \/ SomebodyElses(r, asked[q].who)
      \/ asked[q].action = "removeAndResolve" /\ ~Removable(Target(asked[q].report))
      \/ Recorded(q)

handleModerateReport(q) ==
  /\ asked[q] # Nil
  /\ IF report[asked[q].report].last = q
     THEN /\ answer' = [answer EXCEPT ![q] = "done"]
          /\ UNCHANGED <<reel, report, asked, audit, moves>>
     ELSE IF Refused(q)
     THEN /\ answer' = [answer EXCEPT ![q] = "refused"]
          /\ UNCHANGED <<reel, report, asked, audit, moves>>
     ELSE Applies(q)

--------------------------------
Init ==
  /\ root = "published" /\ hidden = FALSE
  /\ count = 0 /\ comments = {}
  /\ report = [p \in Reports |-> NoReport]
  /\ asked = [q \in Requests |-> Nil]
  /\ audit = [q \in Requests |-> Nil]
  /\ answer = [q \in Requests |-> "none"]
  /\ remover = [c \in Comments |-> "unwritten"]
  /\ moves = [p \in Reports |-> 0]

Next ==
  \/ \E c \in Comments : CreatesComment(c) \/ deleteReelComment(c) \/ PurgesComment(c)
  \/ Expires \/ BecomesTombstone
  \/ \E p \in Reports : createReelCommentReport(p) \/ createReelReport(p)
  \/ \E q \in Requests, m \in Staff, p \in Reports, a \in Actions : Asks(q, m, p, a)
  \/ \E q \in Requests : handleModerateReport(q)

Spec == Init /\ [][Next]_vars

--------------------------------
\* Of a Reel that is no tombstone, the counter counts the documents, however
\* many reports, people and repetitions remove the same comment.
CountIsTrue == root \notin Tombstones => count = Cardinality(comments)

\* Every change of a report has its own audit row: no repetition of a request,
\* however late, is applied a second time.
EveryMoveIsRecorded ==
  \A p \in Reports :
    moves[p] = Cardinality({q \in Requests :
      asked[q] # Nil /\ asked[q].report = p /\ audit[q] # Nil})

\* The trail tells who removed a comment: a row that claims the removal belongs
\* to the request that deleted the document, and to no other.
TrailNamesTheRemover ==
  \A q \in Requests :
    (audit[q] # Nil /\ Target(asked[q].report) # Reel /\ audit[q].removed) =>
      (audit[q].already <=> remover[Target(asked[q].report)] # q)

\* The words of a report that was closed as removed are gone.
RemovedMeansGone ==
  \A p \in Reports :
    (report[p].removed /\ Target(p) # Reel) => Target(p) \notin comments

\* A tombstone is evidence: no removal writes to it.
TombstoneIsStable ==
  root \in Tombstones => UNCHANGED <<root, count, hidden>>

\* The four together: the counter, the workflow, the trail and the words agree.
TriageIsTrue == CountIsTrue /\ EveryMoveIsRecorded /\ TrailNamesTheRemover /\ RemovedMeansGone
============================================================================
