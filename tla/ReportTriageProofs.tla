------------------------- MODULE ReportTriageProofs -------------------------
(***************************************************************************)
(* That the counter of a Reel, the workflow of its reports and the trail   *)
(* of the moderators agree, for any comments, reporters, moderators and    *)
(* requests and any bound on the reports.  What TriageIsTrue leaves out    *)
(* and a step relies on: remover is "nobody" exactly of the comments that  *)
(* are there, a report is about a comment that was once written, a request *)
(* that deleted a comment has its audit row.                               *)
(*                                                                         *)
(* The second part is about another component whose numbers the same suite *)
(* checks: the roster of a server (ServerAdmission).                       *)
(***************************************************************************)
EXTENDS ReportTriage, FiniteSetTheorems, TLAPS

Asked == [who : Staff, report : Reports, action : Actions]
Row == [removed : BOOLEAN, already : BOOLEAN]
Removers == {"nobody", "unwritten", "person", "worker"} \cup Requests

\* The types that every step keeps by itself; the two numbers are bounded by
\* what they count.
Typed ==
  /\ root \in {"published", "expired"} \cup Tombstones
  /\ hidden \in BOOLEAN
  /\ comments \subseteq Comments
  /\ report \in [Reports -> Report]
  /\ asked \in [Requests -> Asked \cup {Nil}]
  /\ audit \in [Requests -> Row \cup {Nil}]
  /\ answer \in [Requests -> {"none", "done", "refused"}]
  /\ remover \in [Comments -> Removers]
  /\ moves \in [Reports -> Nat]

\* A comment is there from its writing to its removal, and is written once.
Lives == \A c \in Comments : c \in comments <=> remover[c] = "nobody"

\* Reports are about what was written, requests about reports that were filed,
\* audit rows about requests.
Grounded ==
  /\ \A p \in Reports :
       (report[p].status # "none" /\ Target(p) # Reel) => remover[Target(p)] # "unwritten"
  /\ \A p \in Reports : report[p].removed => report[p].status # "none"
  /\ \A q \in Requests : asked[q] # Nil => report[asked[q].report].status # "none"
  /\ \A q \in Requests : audit[q] # Nil => asked[q] # Nil

\* Who deleted a document is on record.
Signed == \A c \in Comments : remover[c] \in Requests => audit[remover[c]] # Nil

Tombless == root \in Tombstones => count = Nil

IInv ==
  /\ Typed /\ Lives /\ Grounded /\ Signed /\ Tombless
  /\ CountIsTrue /\ EveryMoveIsRecorded /\ TrailNamesTheRemover /\ RemovedMeansGone
------------------------
\* The comments that are there are finitely many.
LEMMA CommentsCounted ==
  ASSUME Typed
  PROVE  /\ IsFiniteSet(comments) /\ Cardinality(comments) \in Nat
         /\ Cardinality(comments) <= Cardinality(Comments)
         /\ Cardinality(Comments) \in Nat
BY TriageAssumption, FS_Subset, FS_CardinalityType DEF Typed

\* A request that was made is a record.
LEMMA AskedIsRequest ==
  ASSUME Typed, NEW q \in Requests, asked[q] # Nil
  PROVE  /\ asked[q] \in Asked /\ asked[q].report \in Reports
         /\ asked[q].who \in Staff /\ asked[q].action \in Actions
BY DEF Typed, Asked

\* The target of a report is the Reel or a comment.
LEMMA TargetIsCommentOrReel ==
  ASSUME NEW p \in Reports
  PROVE  Target(p) \in Comments \cup {Reel}
BY DEF Reports, Target

\* The bounds of the two numbers follow from what they count.
LEMMA InvariantTypes == IInv => TypeOK
<1> SUFFICES ASSUME IInv PROVE TypeOK
  OBVIOUS
<1>1. Typed
  BY DEF IInv
<1>2. count \in (0 .. Cardinality(Comments)) \cup {Nil}
  <2>1. CASE root \in Tombstones
    BY <2>1 DEF IInv, Tombless
  <2>2. CASE root \notin Tombstones
    BY <1>1, <2>2, CommentsCounted DEF IInv, CountIsTrue
  <2> QED
    BY <2>1, <2>2
<1>3. moves \in [Reports -> 0 .. Cardinality(Requests)]
  <2> SUFFICES ASSUME NEW p \in Reports PROVE moves[p] \in 0 .. Cardinality(Requests)
    BY <1>1 DEF Typed
  <2> DEFINE Applied == {q \in Requests :
                           asked[q] # Nil /\ asked[q].report = p /\ audit[q] # Nil}
  <2>1. /\ Cardinality(Applied) \in Nat /\ Cardinality(Requests) \in Nat
        /\ Cardinality(Applied) <= Cardinality(Requests)
    BY TriageAssumption, FS_Subset, FS_CardinalityType
  <2> QED
    BY <2>1 DEF IInv, EveryMoveIsRecorded
<1> QED
  BY <1>1, <1>2, <1>3 DEF Typed, TypeOK, Asked, Row, Removers

\* Nothing is written, reported or asked.
LEMMA InvariantInit == Init => IInv
<1> SUFFICES ASSUME Init PROVE IInv
  OBVIOUS
<1>1. Typed
  BY TriageAssumption DEF Init, Typed, NoReport, Report, Statuses, Removers
<1>2. Lives /\ Grounded /\ Signed /\ Tombless
  BY TriageAssumption, TargetIsCommentOrReel
     DEF Init, Lives, Grounded, Signed, Tombless, NoReport, Tombstones
<1>3. CountIsTrue
  BY FS_EmptySet DEF Init, CountIsTrue
<1>4. EveryMoveIsRecorded
  <2> SUFFICES ASSUME NEW p \in Reports
               PROVE  moves[p] = Cardinality({q \in Requests :
                        asked[q] # Nil /\ asked[q].report = p /\ audit[q] # Nil})
    BY DEF EveryMoveIsRecorded
  <2>1. {q \in Requests : asked[q] # Nil /\ asked[q].report = p /\ audit[q] # Nil} = {}
    BY DEF Init
  <2> QED
    BY <2>1, FS_EmptySet DEF Init
<1>5. TrailNamesTheRemover /\ RemovedMeansGone
  BY DEF Init, TrailNamesTheRemover, RemovedMeansGone, NoReport
<1> QED
  BY <1>1, <1>2, <1>3, <1>4, <1>5 DEF IInv

------------------------
\* A step of the Reel and its comments that leaves the desk alone keeps the
\* trail when it takes no comment in the name of a request.
LEMMA DeskKept ==
  ASSUME IInv, UNCHANGED desk, Typed', Lives',
         comments' \subseteq comments \/ root \notin Tombstones,
         \A c \in Comments : remover'[c] = remover[c] \/ remover'[c] \notin Requests,
         \A c \in Comments : remover[c] # "unwritten" => remover'[c] # "unwritten",
         \A c \in Comments : remover[c] # "unwritten" /\ c \notin comments => c \notin comments',
         \A c \in Comments : remover[c] \in Requests => remover'[c] = remover[c]
  PROVE  Grounded' /\ Signed' /\ EveryMoveIsRecorded' /\ TrailNamesTheRemover'
         /\ RemovedMeansGone'
<1> USE DEF IInv, desk
<1>1. Grounded'
  BY TargetIsCommentOrReel DEF Grounded
<1>2. Signed'
  BY DEF Signed
<1>3. EveryMoveIsRecorded'
  BY DEF EveryMoveIsRecorded
<1>4. TrailNamesTheRemover'
  <2> SUFFICES ASSUME NEW q \in Requests, audit[q] # Nil,
                      Target(asked[q].report) # Reel, audit[q].removed
               PROVE  audit[q].already <=> remover'[Target(asked[q].report)] # q
    BY DEF TrailNamesTheRemover
  <2>1. Target(asked[q].report) \in Comments
    BY AskedIsRequest, TargetIsCommentOrReel DEF Grounded
  <2>2. audit[q].already <=> remover[Target(asked[q].report)] # q
    BY DEF TrailNamesTheRemover
  <2> QED
    BY <2>1, <2>2
<1>5. RemovedMeansGone'
  BY TargetIsCommentOrReel DEF RemovedMeansGone, Grounded
<1> QED
  BY <1>1, <1>2, <1>3, <1>4, <1>5

\* Somebody writes a comment.
LEMMA CreatesCommentSafe ==
  ASSUME IInv, NEW c \in Comments, CreatesComment(c)
  PROVE  IInv'
<1> USE DEF CreatesComment
<1>1. Typed'
  BY DEF IInv, Typed, desk, Removers
<1>2. Lives'
  BY DEF IInv, Typed, Lives
<1>3. Tombless'
  BY DEF Tombless, Tombstones
<1>4. CountIsTrue'
  <2>1. c \notin comments
    BY DEF IInv, Lives
  <2>2. count = Cardinality(comments)
    BY DEF IInv, CountIsTrue, Tombstones
  <2> QED
    BY <2>1, <2>2, CommentsCounted, FS_AddElement DEF IInv, CountIsTrue
<1>5. \A d \in Comments : d # c => remover'[d] = remover[d]
  BY DEF IInv, Typed
<1>6. remover'[c] = "nobody" /\ remover[c] = "unwritten" /\ "nobody" \notin Requests
  BY TriageAssumption DEF IInv, Typed
<1>7. root \notin Tombstones /\ "unwritten" \notin Requests
  BY TriageAssumption DEF Tombstones
<1> QED
  BY <1>1, <1>2, <1>3, <1>4, <1>5, <1>6, <1>7, DeskKept DEF IInv

\* A person removes a comment, or the worker drains a tombstone.
LEMMA RemovesCommentSafe ==
  ASSUME IInv, NEW c \in Comments, deleteReelComment(c) \/ PurgesComment(c)
  PROVE  IInv'
<1>1. /\ c \in comments /\ comments' = comments \ {c}
      /\ UNCHANGED <<root, hidden, desk>>
  BY DEF deleteReelComment, PurgesComment
<1>2. \E by \in {"person", "worker"} : remover' = [remover EXCEPT ![c] = by]
  BY DEF deleteReelComment, PurgesComment
<1>3. Typed'
  BY <1>1, <1>2 DEF IInv, Typed, desk, Removers
<1>4. Lives'
  BY <1>1, <1>2 DEF IInv, Typed, Lives
<1>5. Tombless'
  BY <1>1 DEF IInv, Tombless, deleteReelComment, PurgesComment
<1>6. CountIsTrue'
  <2>1. CASE deleteReelComment(c)
    BY <1>1, <2>1, CommentsCounted, FS_RemoveElement DEF IInv, CountIsTrue, deleteReelComment
  <2>2. CASE PurgesComment(c)
    BY <1>1, <2>2 DEF CountIsTrue, PurgesComment
  <2> QED
    BY <2>1, <2>2
<1>7. \A d \in Comments : d # c => remover'[d] = remover[d]
  BY <1>2 DEF IInv, Typed
<1>8. remover'[c] \in {"person", "worker"} /\ remover[c] = "nobody"
  BY <1>1, <1>2 DEF IInv, Typed, Lives
<1>9. {"person", "worker", "nobody"} \cap Requests = {}
  BY TriageAssumption
<1> QED
  BY <1>1, <1>3, <1>4, <1>5, <1>6, <1>7, <1>8, <1>9, DeskKept DEF IInv

\* The Reel expires or becomes a tombstone.
LEMMA ReelStepSafe ==
  ASSUME IInv, Expires \/ BecomesTombstone
  PROVE  IInv'
<1>1. UNCHANGED <<comments, remover, hidden, desk>>
  BY DEF Expires, BecomesTombstone
<1>2. Typed'
  BY <1>1 DEF IInv, Typed, desk, Expires, BecomesTombstone, Tombstones
<1>3. Lives' /\ Tombless' /\ CountIsTrue'
  BY <1>1 DEF IInv, Lives, Tombless, CountIsTrue, Expires, BecomesTombstone, Tombstones
<1> QED
  BY <1>1, <1>2, <1>3, DeskKept DEF IInv

------------------------
\* A report is filed about content that was written.
LEMMA FilesSafe ==
  ASSUME IInv, NEW p \in Reports, createReelCommentReport(p) \/ createReelReport(p)
  PROVE  IInv'
<1>1. Files(p) /\ UNCHANGED reel
  BY DEF createReelCommentReport, createReelReport, Files
<1>2. Target(p) # Reel => remover[Target(p)] # "unwritten"
  BY DEF createReelCommentReport, createReelReport, IInv, Typed, Lives
<1>3. report' = [report EXCEPT ![p].status = "open"] /\ UNCHANGED <<asked, audit, answer, moves>>
  BY <1>1 DEF Files
<1>4. Typed'
  BY <1>1, <1>3 DEF IInv, Typed, reel, Report, Statuses
<1>5. Grounded'
  BY <1>1, <1>2, <1>3, AskedIsRequest DEF IInv, Typed, Grounded, reel
<1>6. RemovedMeansGone'
  BY <1>1, <1>3 DEF IInv, Typed, RemovedMeansGone, reel
<1> QED
  BY <1>1, <1>3, <1>4, <1>5, <1>6 DEF IInv, Lives, Signed, Tombless, CountIsTrue,
     EveryMoveIsRecorded, TrailNamesTheRemover, reel

\* A moderator decides on a report that was filed.
LEMMA AsksSafe ==
  ASSUME IInv, NEW q \in Requests, NEW m \in Staff, NEW p \in Reports, NEW a \in Actions,
         Asks(q, m, p, a)
  PROVE  IInv'
<1> DEFINE new == [who |-> m, report |-> p, action |-> a]
<1>1. /\ asked[q] = Nil /\ report[p].status # "none"
      /\ asked' = [asked EXCEPT ![q] = new]
      /\ UNCHANGED <<reel, report, audit, answer, moves>>
  BY DEF Asks, Filed
<1>2. audit[q] = Nil
  BY <1>1 DEF IInv, Grounded
<1>3. new \in Asked /\ new # Nil /\ new.report = p
  BY TriageAssumption DEF Asked, Reports, Reel, Actions
<1>4. Typed'
  BY <1>1, <1>3 DEF IInv, Typed, reel
<1>5. \A r \in Requests : asked'[r] = IF r = q THEN new ELSE asked[r]
  BY <1>1 DEF IInv, Typed
<1> HIDE DEF new
<1>6. Grounded'
  BY <1>1, <1>2, <1>3, <1>5 DEF IInv, Typed, Grounded, reel
<1>7. TrailNamesTheRemover'
  BY <1>1, <1>2, <1>5 DEF IInv, TrailNamesTheRemover, reel
<1>8. EveryMoveIsRecorded'
  <2> SUFFICES ASSUME NEW o \in Reports
               PROVE  moves[o] = Cardinality({r \in Requests :
                        asked'[r] # Nil /\ asked'[r].report = o /\ audit[r] # Nil})
    BY <1>1 DEF EveryMoveIsRecorded
  <2>1. {r \in Requests : asked'[r] # Nil /\ asked'[r].report = o /\ audit[r] # Nil}
          = {r \in Requests : asked[r] # Nil /\ asked[r].report = o /\ audit[r] # Nil}
    BY <1>2, <1>5
  <2> QED
    BY <2>1 DEF IInv, EveryMoveIsRecorded
<1> QED
  BY <1>1, <1>4, <1>6, <1>7, <1>8 DEF IInv, Lives, Signed, Tombless, CountIsTrue,
     RemovedMeansGone, reel
------------------------
\* What the content of a report is after its removal in the name of q.
ContentAfter(q, t) ==
  \/ UNCHANGED reel
  \/ t = Reel /\ RemovesReel
  \/ t # Reel /\ Removable(t) /\ RemovesComment(q, t)

\* The comments, their removers and the counter after a removal.
LEMMA RemovalSafe ==
  ASSUME IInv, NEW q \in Requests, NEW t \in Comments \cup {Reel}, audit[q] = Nil,
         ContentAfter(q, t)
  PROVE  /\ root' = root /\ hidden' \in BOOLEAN /\ comments' \subseteq comments
         /\ remover' \in [Comments -> Removers]
         /\ Lives' /\ Tombless' /\ CountIsTrue'
         /\ \A c \in Comments : remover'[c] # remover[c] =>
              remover[c] = "nobody" /\ remover'[c] = q /\ c = t
<1>1. CASE UNCHANGED reel
  BY <1>1 DEF IInv, Typed, Lives, Tombless, CountIsTrue, reel
<1>2. CASE t = Reel /\ RemovesReel
  BY <1>2 DEF IInv, Typed, Lives, Tombless, CountIsTrue, RemovesReel
<1>3. CASE t # Reel /\ Removable(t) /\ RemovesComment(q, t) /\ t \notin comments
  BY <1>3 DEF IInv, Typed, Lives, Tombless, CountIsTrue, RemovesComment, StillThere
<1>4. CASE t # Reel /\ Removable(t) /\ RemovesComment(q, t) /\ t \in comments
  <2>1. /\ comments' = comments \ {t} /\ remover' = [remover EXCEPT ![t] = q]
        /\ count' = IF root \in Tombstones THEN count ELSE count - 1
        /\ UNCHANGED <<root, hidden>> /\ t \in Comments
    BY <1>4 DEF RemovesComment, StillThere, Deletes, RootIsTombstone
  <2>2. remover[t] = "nobody" /\ q # "nobody"
    BY <1>4, <2>1, TriageAssumption DEF IInv, Lives
  <2>3. remover' \in [Comments -> Removers] /\ hidden' \in BOOLEAN
    BY <2>1 DEF IInv, Typed, Removers
  <2>4. Lives'
    BY <2>1, <2>2 DEF IInv, Typed, Lives
  <2>5. CountIsTrue'
    BY <1>4, <2>1, CommentsCounted, FS_RemoveElement DEF IInv, CountIsTrue
  <2>6. Tombless'
    BY <2>1 DEF IInv, Tombless
  <2>7. \A c \in Comments : remover'[c] # remover[c] => c = t /\ remover'[c] = q
    BY <2>1 DEF IInv, Typed
  <2> QED
    BY <2>1, <2>2, <2>3, <2>4, <2>5, <2>6, <2>7
<1> QED
  BY <1>1, <1>2, <1>3, <1>4 DEF ContentAfter

\* A request that is applied: report, content, audit row and answer together.
LEMMA AppliesSafe ==
  ASSUME IInv, NEW q \in Requests, asked[q] # Nil, ~Refused(q), Applies(q)
  PROVE  IInv'
<1> DEFINE m == asked[q].who
           p == asked[q].report
           a == asked[q].action
           t == Target(p)
           removed == a = "removeAndResolve" /\ ContentRemoved(t)
           row == [removed |-> removed, already |-> removed /\ AlreadyRemoved(t)]
           after == Workflow(report[p], q, m, a, removed)
<1>1. /\ p \in Reports /\ m \in Staff /\ a \in Actions /\ t \in Comments \cup {Reel}
  BY AskedIsRequest, TargetIsCommentOrReel DEF IInv
<1>2. audit[q] = Nil /\ report[p].status \in From(a)
  BY DEF Refused, Recorded
<1>3. report[p].status # "none"
  BY <1>2 DEF From
<1>4. ContentAfter(q, t)
  BY DEF Applies, ContentAfter, Refused
<1>5. /\ report' = [report EXCEPT ![p] = after]
      /\ audit' = [audit EXCEPT ![q] = row]
      /\ moves' = [moves EXCEPT ![p] = @ + 1]
      /\ answer' = [answer EXCEPT ![q] = "done"]
      /\ asked' = asked
  BY DEF Applies
<1>6. /\ root' = root /\ hidden' \in BOOLEAN /\ comments' \subseteq comments
      /\ remover' \in [Comments -> Removers]
      /\ Lives' /\ Tombless' /\ CountIsTrue'
      /\ \A c \in Comments : remover'[c] # remover[c] =>
           remover[c] = "nobody" /\ remover'[c] = q /\ c = t
  BY <1>1, <1>2, <1>4, RemovalSafe
<1>7. removed \in BOOLEAN /\ row \in Row /\ row # Nil
  <2>1. ContentRemoved(t) \in BOOLEAN /\ AlreadyRemoved(t) \in BOOLEAN
    BY DEF ContentRemoved, AlreadyRemoved
  <2>2. row \in Row
    BY <2>1 DEF Row
  <2> QED
    BY <2>1, <2>2, TriageAssumption DEF Row
<1>8. after \in Report /\ after.status # "none" /\ (after.removed <=> report[p].removed \/ removed)
  <2>1. To(a) \in Statuses /\ To(a) # "none"
    BY <1>1 DEF To, Statuses, Actions
  <2>2. report[p] \in Report
    BY <1>1 DEF IInv, Typed
  <2> QED
    BY <1>1, <1>7, <2>1, <2>2 DEF Workflow, Report
<1>9. removed /\ t # Reel => t \notin comments'
  BY <1>1 DEF Applies, RemovesComment, StillThere, Deletes
<1>10. row.removed = removed /\ row.already = (removed /\ AlreadyRemoved(t))
  OBVIOUS
<1>11. removed /\ t # Reel => (AlreadyRemoved(t) <=> remover'[t] # q)
  <2> SUFFICES ASSUME removed, t # Reel PROVE AlreadyRemoved(t) <=> remover'[t] # q
    OBVIOUS
  <2>1. CASE t \in comments
    <3>1. remover' = [remover EXCEPT ![t] = q] /\ t \in Comments
      BY <1>1, <2>1 DEF Applies, RemovesComment, StillThere, Deletes
    <3> QED
      BY <2>1, <3>1 DEF AlreadyRemoved, StillThere, IInv, Typed
  <2>2. CASE t \notin comments
    <3>1. remover' = remover
      BY <2>2 DEF Applies, RemovesComment, StillThere
    <3>2. remover[t] # q
      BY <1>1, <1>2 DEF IInv, Signed
    <3> QED
      BY <2>2, <3>1, <3>2 DEF AlreadyRemoved, StillThere
  <2> QED
    BY <2>1, <2>2
<1>12. /\ \A o \in Reports : report'[o] = IF o = p THEN after ELSE report[o]
       /\ \A r \in Requests : audit'[r] = IF r = q THEN row ELSE audit[r]
  BY <1>5 DEF IInv, Typed
<1> HIDE DEF row, after, removed
<1>13. Typed'
  <2>1. report' \in [Reports -> Report]
    BY <1>5, <1>8 DEF IInv, Typed
  <2>2. audit' \in [Requests -> Row \cup {Nil}]
    BY <1>5, <1>7 DEF IInv, Typed
  <2>3. moves' \in [Reports -> Nat]
    BY <1>1, <1>5 DEF IInv, Typed
  <2>4. answer' \in [Requests -> {"none", "done", "refused"}]
    BY <1>5 DEF IInv, Typed
  <2> QED
    BY <1>5, <1>6, <2>1, <2>2, <2>3, <2>4 DEF IInv, Typed
<1>14. Grounded'
  <2>1. \A c \in Comments : remover[c] # "unwritten" => remover'[c] # "unwritten"
    BY <1>6, TriageAssumption
  <2>2. \A o \in Reports : report[o].status # "none" <=> report'[o].status # "none"
    BY <1>3, <1>8, <1>12
  <2>3. \A o \in Reports : report'[o].removed => report'[o].status # "none"
    BY <1>8, <1>12 DEF IInv, Grounded
  <2> QED
    BY <1>5, <1>12, <2>1, <2>2, <2>3, AskedIsRequest, TargetIsCommentOrReel DEF IInv, Grounded
<1>15. Signed'
  BY <1>6, <1>7, <1>12 DEF IInv, Signed
<1>16. EveryMoveIsRecorded'
  <2> DEFINE Applied(o) == {r \in Requests :
                             asked[r] # Nil /\ asked[r].report = o /\ audit[r] # Nil}
  <2> SUFFICES ASSUME NEW o \in Reports
               PROVE  moves'[o] = Cardinality({r \in Requests :
                        asked[r] # Nil /\ asked[r].report = o /\ audit'[r] # Nil})
    BY <1>5 DEF EveryMoveIsRecorded
  <2>1. moves[o] = Cardinality(Applied(o)) /\ IsFiniteSet(Applied(o))
    BY TriageAssumption, FS_Subset DEF IInv, EveryMoveIsRecorded
  <2>2. CASE o = p
    <3>1. {r \in Requests : asked[r] # Nil /\ asked[r].report = o /\ audit'[r] # Nil}
            = Applied(o) \cup {q}
      BY <1>7, <1>12, <2>2
    <3>2. q \notin Applied(o)
      BY <1>2
    <3>3. moves'[o] = moves[o] + 1
      BY <1>5, <2>2 DEF IInv, Typed
    <3> QED
      BY <2>1, <3>1, <3>2, <3>3, FS_AddElement
  <2>3. CASE o # p
    <3>1. {r \in Requests : asked[r] # Nil /\ asked[r].report = o /\ audit'[r] # Nil}
            = Applied(o)
      BY <1>2, <1>12, <2>3
    <3> QED
      BY <1>5, <2>1, <2>3, <3>1 DEF IInv, Typed
  <2> QED
    BY <2>2, <2>3
<1>17. TrailNamesTheRemover'
  <2> SUFFICES ASSUME NEW r \in Requests, audit'[r] # Nil,
                      Target(asked[r].report) # Reel, audit'[r].removed
               PROVE  audit'[r].already <=> remover'[Target(asked[r].report)] # r
    BY <1>5 DEF TrailNamesTheRemover
  <2>1. CASE r = q
    BY <1>10, <1>11, <1>12, <2>1
  <2>2. CASE r # q
    <3>1. Target(asked[r].report) \in Comments
      BY <1>12, <2>2, AskedIsRequest, TargetIsCommentOrReel DEF IInv, Grounded
    <3>2. audit[r].already <=> remover[Target(asked[r].report)] # r
      BY <1>12, <2>2 DEF IInv, TrailNamesTheRemover
    <3> QED
      BY <1>6, <1>12, <2>2, <3>1, <3>2, TriageAssumption
  <2> QED
    BY <2>1, <2>2
<1>18. RemovedMeansGone'
  BY <1>6, <1>8, <1>9, <1>12 DEF IInv, RemovedMeansGone
<1> QED
  BY <1>6, <1>13, <1>14, <1>15, <1>16, <1>17, <1>18 DEF IInv

\* A request that is answered from its report or refused changes nothing else.
LEMMA AnswersSafe ==
  ASSUME IInv, NEW q \in Requests, NEW how \in {"done", "refused"},
         answer' = [answer EXCEPT ![q] = how], UNCHANGED <<reel, report, asked, audit, moves>>
  PROVE  IInv'
<1>1. Typed'
  BY DEF IInv, Typed, reel
<1> QED
  BY <1>1 DEF IInv, Lives, Grounded, Signed, Tombless, CountIsTrue, EveryMoveIsRecorded,
     TrailNamesTheRemover, RemovedMeansGone, reel

\* The invariant is inductive.
LEMMA InvariantStep == IInv /\ [Next]_vars => IInv'
<1> SUFFICES ASSUME IInv, [Next]_vars PROVE IInv'
  OBVIOUS
<1>1. ASSUME NEW c \in Comments,
             CreatesComment(c) \/ deleteReelComment(c) \/ PurgesComment(c)
      PROVE  IInv'
  BY <1>1, CreatesCommentSafe, RemovesCommentSafe
<1>2. CASE Expires \/ BecomesTombstone
  BY <1>2, ReelStepSafe
<1>3. ASSUME NEW p \in Reports, createReelCommentReport(p) \/ createReelReport(p)
      PROVE  IInv'
  BY <1>3, FilesSafe
<1>4. ASSUME NEW q \in Requests, NEW m \in Staff, NEW p \in Reports, NEW a \in Actions,
             Asks(q, m, p, a)
      PROVE  IInv'
  BY <1>4, AsksSafe
<1>5. ASSUME NEW q \in Requests, handleModerateReport(q) PROVE IInv'
  BY <1>5, AppliesSafe, AnswersSafe DEF handleModerateReport
<1>6. CASE UNCHANGED vars
  BY <1>6 DEF vars, reel, desk, IInv, Typed, Lives, Grounded, Signed, Tombless,
     CountIsTrue, EveryMoveIsRecorded, TrailNamesTheRemover, RemovedMeansGone
<1> QED
  BY <1>1, <1>2, <1>3, <1>4, <1>5, <1>6 DEF Next

------------------------
(* The Reel, its comments, the reports, the requests and the audit rows keep
   their types, and the two numbers their bounds. *)
THEOREM TypeCorrect == Spec => []TypeOK
BY InvariantInit, InvariantStep, InvariantTypes, PTL DEF Spec

(* The counter counts the comments, every move of a report has its own audit
   row, the trail names the remover, and what was closed as removed is gone:
   for any comments, reporters, moderators and requests. *)
THEOREM TriageStaysTrue == Spec => []TriageIsTrue
<1>1. IInv => TriageIsTrue
  BY DEF IInv, TriageIsTrue
<1> QED
  BY <1>1, InvariantInit, InvariantStep, PTL DEF Spec

(* A tombstone is evidence: whatever is moderated, its root stays as it is,
   counter and mark included. *)
THEOREM TombstonesAreStable == Spec => [][TombstoneIsStable]_vars
<1>1. IInv /\ [Next]_vars => [TombstoneIsStable]_vars
  <2> SUFFICES ASSUME IInv, Next, root \in Tombstones
               PROVE  UNCHANGED <<root, count, hidden>>
    BY DEF TombstoneIsStable
  <2>1. CASE \E q \in Requests : handleModerateReport(q)
    <3> SUFFICES ASSUME NEW q \in Requests, handleModerateReport(q)
                 PROVE  UNCHANGED <<root, count, hidden>>
      BY <2>1
    <3>1. CASE UNCHANGED reel
      BY <3>1 DEF reel
    <3>2. CASE ~Refused(q) /\ Applies(q)
      <4>1. CASE RemovesReel /\ Removable(Reel)
        BY <4>1 DEF RemovesReel, Removable, Tombstones, IInv, Typed
      <4>2. CASE RemovesComment(q, Target(asked[q].report))
        BY <4>2 DEF RemovesComment, RootIsTombstone
      <4>3. CASE UNCHANGED reel
        BY <4>3 DEF reel
      <4> QED
        BY <3>2, <4>1, <4>2, <4>3 DEF Applies, Refused
    <3> QED
      BY <3>1, <3>2 DEF handleModerateReport
  <2>2. CASE \E q \in Requests, m \in Staff, p \in Reports, a \in Actions : Asks(q, m, p, a)
    BY <2>2 DEF Asks, reel
  <2>3. CASE \E p \in Reports : createReelCommentReport(p) \/ createReelReport(p)
    BY <2>3 DEF createReelCommentReport, createReelReport, Files, reel
  <2>4. CASE Expires \/ BecomesTombstone
    BY <2>4 DEF Expires, BecomesTombstone, Tombstones
  <2>5. CASE \E c \in Comments : CreatesComment(c) \/ deleteReelComment(c) \/ PurgesComment(c)
    BY <2>5 DEF CreatesComment, deleteReelComment, PurgesComment, Tombstones
  <2> QED
    BY <2>1, <2>2, <2>3, <2>4, <2>5 DEF Next
<1> QED
  BY <1>1, InvariantInit, InvariantStep, PTL DEF Spec
------------------------
(***************************************************************************)
(* Who belongs to a server (ServerAdmission), for any users, roles, clock  *)
(* lag and bounds.  Roster, root and ledger are written together, so their *)
(* agreement is inductive once the roster is known to be finite.  What the *)
(* promise about invitations leaves out is why a broken one stays broken   *)
(* when its inviter is reinstated: it remembers a revision of the inviter  *)
(* that is behind the present one (InvitationsAreDated).                   *)
(***************************************************************************)
CONSTANTS Users, First, Roles, Fickle, MaxTime, MaxLag, TTL, MaxRevision, MaxGeneration, None
VARIABLES serverRoot, member, ledger, invite, pointer, friends, clock, broken, barred
Server == INSTANCE ServerAdmission WITH root <- serverRoot

\* The sets of the ledger, of an invitation and of the invitations.
Ledgers == [Users -> [status : {"none", "member", "left"}, revision : 0 .. MaxRevision,
                      at : 0 .. MaxTime]]
Invitation == [status : {"none", "pending", "accepted", "declined", "revoked"},
               generation : 0 .. MaxGeneration, inviter : Users \cup {None},
               revision : 0 .. MaxRevision, created : 0 .. MaxTime,
               expires : 0 .. MaxTime + TTL]
Invites == [Users -> Invitation]

Roster == {u \in Users : Server!Exists(u)}

ServerTyped ==
  /\ serverRoot \in [owner : Users, open : BOOLEAN, count : Nat]
  /\ member \in [Users -> [role : Roles \cup {"none"}, banned : BOOLEAN]]
  /\ ledger \in Ledgers /\ invite \in Invites /\ pointer \in [Users -> 0 .. MaxGeneration]
  /\ friends \subseteq Server!Pairs /\ clock \in 0 .. MaxTime
  /\ broken \subseteq Users /\ barred \subseteq Users

Counted == IsFiniteSet(Roster) /\ serverRoot.count = Cardinality(Roster)

\* An open invitation remembers a standing of its inviter, and an older one
\* than the present when that standing has changed.
InvitationsAreDated ==
  \A v \in Users : invite[v].status = "pending" =>
    LET i == invite[v] IN
    /\ i.inviter \in Users /\ i.revision <= ledger[i.inviter].revision
    /\ v \in broken => i.revision < ledger[i.inviter].revision

ServerInv ==
  /\ ServerTyped /\ Counted /\ Server!OneOwner /\ Server!LedgerAgrees
  /\ Server!InvitationsAreForOutsiders /\ InvitationsAreDated

LEMMA ReadingsInTime ==
  ASSUME ServerTyped, Server!AdmissionConstantsAssumption, NEW now \in Server!Readings
  PROVE  now \in 0 .. MaxTime /\ now + TTL \in 0 .. MaxTime + TTL
<1>1. now \in Nat /\ now <= clock BY DEF Server!Readings, ServerTyped
<1>2. clock \in Nat /\ clock <= MaxTime /\ MaxTime \in Nat /\ TTL \in Nat
  BY DEF ServerTyped, Server!AdmissionConstantsAssumption
<1>3. now <= MaxTime /\ now + TTL \in Nat /\ MaxTime + TTL \in Nat /\ now + TTL <= MaxTime + TTL
  BY <1>1, <1>2
<1> QED BY <1>1, <1>2, <1>3

LEMMA RolesAreRoles ==
  ASSUME Server!AdmissionConstantsAssumption
  PROVE  /\ "none" \notin Roles /\ {"owner", "coOwner", "member"} \subseteq Roles
         /\ First \in Users /\ None \notin Users /\ MaxTime \in Nat /\ MaxRevision \in Nat \ {0}
         /\ MaxGeneration \in Nat /\ TTL \in Nat \ {0}
BY DEF Server!AdmissionConstantsAssumption

LEMMA ServerInit == ASSUME Server!AdmissionConstantsAssumption, Server!Init PROVE ServerInv
<1>1. ServerTyped
  <2>1. 0 \in 0..MaxRevision /\ 1 \in 0..MaxRevision /\ 0 \in 0..MaxTime /\ 0 \in 0..MaxGeneration
        /\ 0 \in 0..MaxTime+TTL
    BY RolesAreRoles
  <2>2. Server!NoInvite \in Invitation
    BY <2>1 DEF Server!NoInvite, Invitation
  <2>3. serverRoot \in [owner : Users, open : BOOLEAN, count : Nat]
    BY RolesAreRoles DEF Server!Init
  <2>4. member \in [Users -> [role : Roles \cup {"none"}, banned : BOOLEAN]]
    BY RolesAreRoles DEF Server!Init, Server!Absent
  <2>5. ledger \in Ledgers
    BY <2>1 DEF Server!Init, Ledgers
  <2> QED BY <2>1, <2>2, <2>3, <2>4, <2>5 DEF Server!Init, ServerTyped, Invites
<1>2. Roster = {First} BY RolesAreRoles DEF Server!Init, Roster, Server!Exists, Server!Absent
<1>3. Counted
  BY <1>2, FS_Singleton DEF Counted, Server!Init, Roster
<1>4. Server!OneOwner BY RolesAreRoles DEF Server!Init, Server!OneOwner, Server!Absent
<1>5. Server!LedgerAgrees BY RolesAreRoles DEF Server!Init, Server!LedgerAgrees, Server!Exists,
          Server!Absent
<1>6. Server!InvitationsAreForOutsiders /\ InvitationsAreDated
  BY DEF Server!Init, Server!InvitationsAreForOutsiders, InvitationsAreDated, Server!NoInvite
<1> QED BY <1>1, <1>3, <1>4, <1>5, <1>6 DEF ServerInv

------------------------
LEMMA Answering ==
  ASSUME ServerInv, Server!AdmissionConstantsAssumption, NEW u \in Users,
         NEW status \in {"accepted", "declined", "revoked"},
         Server!Answered(u, status)
  PROVE  /\ invite' \in Invites
         /\ pointer' \in [Users -> 0 .. MaxGeneration]
         /\ pointer'[u] = 0 /\ invite'[u].status # "pending"
         /\ \A v \in Users : v # u => invite'[v] = invite[v] /\ pointer'[v] = pointer[v]
<1>1. 0 \in 0..MaxGeneration BY RolesAreRoles
<1>2. CASE invite[u].status = "pending"
  <2>1. invite' = [invite EXCEPT ![u].status = status] BY <1>2 DEF Server!Answered
  <2>2. invite[u] \in Invitation BY DEF ServerInv, ServerTyped, Invites
  <2>3. [invite[u] EXCEPT !.status = status] \in Invitation BY <2>2 DEF Invitation
  <2>4. invite' = [invite EXCEPT ![u] = [invite[u] EXCEPT !.status = status]] BY <2>1
  <2>5. invite' \in Invites /\ \A v \in Users : v # u => invite'[v] = invite[v]
    BY <2>3, <2>4 DEF ServerInv, ServerTyped, Invites
  <2>6. invite'[u].status # "pending"
    BY <2>2, <2>4 DEF ServerInv, ServerTyped, Invites, Invitation
  <2> QED BY <1>1, <2>5, <2>6 DEF ServerInv, ServerTyped, Server!Answered
<1>3. CASE invite[u].status # "pending"
  <2>1. invite' = invite BY <1>3 DEF Server!Answered
  <2> QED BY <1>1, <1>3, <2>1 DEF ServerInv, ServerTyped, Server!Answered
<1> QED BY <1>2, <1>3

LEMMA Authorizing ==
  ASSUME ServerInv, Server!AdmissionConstantsAssumption, NEW u \in Users,
         NEW status \in {"none", "member", "left"},
         NEW now \in Server!Readings, Server!NextRevision(u) <= MaxRevision,
         Server!Authorization(u, status, now)
  PROVE  /\ ledger' \in Ledgers
         /\ ledger'[u].status = status /\ ledger'[u].revision > ledger[u].revision
         /\ \A w \in Users : w # u => ledger'[w] = ledger[w]
<1>1. ledger[u].revision \in Nat /\ Server!NextRevision(u) \in 0..MaxRevision
  BY RolesAreRoles DEF ServerInv, ServerTyped, Ledgers, Server!NextRevision
<1>2. now \in 0..MaxTime BY ReadingsInTime DEF ServerInv
<1> QED BY <1>1, <1>2 DEF ServerInv, ServerTyped, Ledgers, Server!Authorization,
        Server!NextRevision

\* What keeps the dates of invitations: nobody opens one, revisions grow, and
\* only those are broken whose inviter got a new one.
LEMMA DatesKept ==
  ASSUME ServerInv, ledger' \in Ledgers, MaxRevision \in Nat,
         \A v \in Users : invite'[v].status = "pending" => invite'[v] = invite[v],
         \A w \in Users : ledger'[w].revision >= ledger[w].revision,
         \A v \in broken' \ broken :
           ledger'[invite[v].inviter].revision > ledger[invite[v].inviter].revision
  PROVE  InvitationsAreDated'
<1>1. ASSUME NEW v \in Users, invite'[v].status = "pending"
      PROVE  /\ invite'[v].inviter \in Users
             /\ invite'[v].revision <= ledger'[invite'[v].inviter].revision
             /\ v \in broken' => invite'[v].revision < ledger'[invite'[v].inviter].revision
  <2> DEFINE i == invite[v]
  <2>1. invite'[v] = i /\ i.status = "pending" BY <1>1
  <2>2. i.inviter \in Users /\ i.revision <= ledger[i.inviter].revision /\ i.revision \in Nat
        /\ (v \in broken => i.revision < ledger[i.inviter].revision)
        /\ ledger[i.inviter].revision \in Nat
    BY <2>1 DEF ServerInv, InvitationsAreDated, ServerTyped, Ledgers, Invites, Invitation
  <2>3. ledger'[i.inviter].revision \in Nat BY <2>2 DEF Ledgers
  <2>4. v \in broken' \ broken => ledger'[i.inviter].revision > ledger[i.inviter].revision
    OBVIOUS
  <2> HIDE DEF i
  <2>5. ledger'[i.inviter].revision >= ledger[i.inviter].revision
    BY <2>2
  <2>6. i.revision <= ledger'[i.inviter].revision BY <2>2, <2>3, <2>5
  <2>7. v \in broken' => i.revision < ledger'[i.inviter].revision
    BY <2>2, <2>3, <2>4, <2>5
  <2> QED BY <2>1, <2>2, <2>6, <2>7
<1> QED BY <1>1 DEF InvitationsAreDated

\* A way in.
LEMMA Joining ==
  ASSUME ServerInv, Server!AdmissionConstantsAssumption, NEW u \in Users,
         NEW now \in Server!Readings, Server!Joined(u, now), Server!Answered(u, "accepted")
  PROVE  ServerInv'
<1> USE RolesAreRoles
<1>1. /\ ~Server!Exists(u)
      /\ member' = [member EXCEPT ![u] = [role |-> "member", banned |-> FALSE]]
      /\ serverRoot' = [serverRoot EXCEPT !.count = @ + 1]
      /\ broken' = broken \cup Server!Voided(u)
      /\ friends' = friends /\ clock' = clock /\ barred' = barred
      /\ Server!NextRevision(u) <= MaxRevision /\ Server!Authorization(u, "member", now)
  BY DEF Server!Joined
<1>2. /\ ledger' \in Ledgers
      /\ ledger'[u].status = "member" /\ ledger'[u].revision > ledger[u].revision
      /\ \A w \in Users : w # u => ledger'[w] = ledger[w]
  BY <1>1, Authorizing
<1>3. /\ invite' \in Invites
      /\ pointer' \in [Users -> 0 .. MaxGeneration]
      /\ pointer'[u] = 0 /\ invite'[u].status # "pending"
      /\ \A v \in Users : v # u => invite'[v] = invite[v] /\ pointer'[v] = pointer[v]
  BY Answering
<1>4. /\ member' \in [Users -> [role : Roles \cup {"none"}, banned : BOOLEAN]]
      /\ member'[u] = [role |-> "member", banned |-> FALSE]
      /\ \A w \in Users : w # u => member'[w] = member[w]
  BY <1>1 DEF ServerInv, ServerTyped
<1>5. /\ serverRoot' \in [owner : Users, open : BOOLEAN, count : Nat]
      /\ serverRoot'.owner = serverRoot.owner
      /\ serverRoot'.count = serverRoot.count + 1
  BY <1>1 DEF ServerInv, ServerTyped
<1>6. ServerTyped'
  BY <1>1, <1>2, <1>3, <1>4, <1>5 DEF ServerInv, ServerTyped, Server!Voided
<1>7. Roster' = Roster \cup {u} /\ u \notin Roster BY <1>1, <1>4 DEF Roster, Server!Exists
<1>8. Counted'
  <2>1. IsFiniteSet(Roster) /\ serverRoot.count = Cardinality(Roster)
    BY DEF ServerInv, Counted, Roster
  <2>2. IsFiniteSet(Roster') /\ Cardinality(Roster') = Cardinality(Roster) + 1
    BY <1>7, <2>1, FS_AddElement
  <2> QED BY <1>5, <2>1, <2>2 DEF Counted, Roster
<1>9. Server!OneOwner'
  <2>1. serverRoot.owner # u BY <1>1 DEF ServerInv, Server!OneOwner, Server!Exists
  <2>2. {w \in Users : member'[w].role = "owner"} = {w \in Users : member[w].role = "owner"}
    BY <1>1, <1>4 DEF Server!Exists
  <2>3. serverRoot.owner \in Users BY DEF ServerInv, ServerTyped
  <2> QED BY <1>4, <1>5, <2>1, <2>2, <2>3 DEF ServerInv, Server!OneOwner
<1>10. Server!LedgerAgrees' BY <1>1, <1>2, <1>4 DEF ServerInv, Server!LedgerAgrees, Server!Exists
<1>11. Server!InvitationsAreForOutsiders'
  BY <1>3, <1>4 DEF ServerInv, Server!InvitationsAreForOutsiders, Server!Exists
<1>12. InvitationsAreDated'
  <2>1. \A w \in Users : ledger'[w].revision >= ledger[w].revision
    BY <1>2 DEF ServerInv, ServerTyped, Ledgers
  <2>2. \A v \in broken' \ broken : invite[v].inviter = u BY <1>1 DEF Server!Voided
  <2>3. \A v \in Users : invite'[v].status = "pending" => invite'[v] = invite[v] BY <1>3
  <2> QED BY <1>2, <2>1, <2>2, <2>3, DatesKept
<1> QED BY <1>6, <1>8, <1>9, <1>10, <1>11, <1>12 DEF ServerInv

\* A way out.
LEMMA Going ==
  ASSUME ServerInv, Server!AdmissionConstantsAssumption, NEW u \in Users,
         NEW now \in Server!Readings,
         Server!Exists(u), serverRoot.owner # u, Server!Gone(u, now)
  PROVE  ServerInv'
<1> USE RolesAreRoles
<1>1. /\ member' = [member EXCEPT ![u] = [role |-> "none", banned |-> FALSE]]
      /\ serverRoot' = [serverRoot EXCEPT !.count = @ - 1]
      /\ broken' = broken \cup Server!Voided(u)
      /\ serverRoot.count >= 2
      /\ friends' = friends /\ clock' = clock /\ barred' = barred
      /\ Server!NextRevision(u) <= MaxRevision /\ Server!Authorization(u, "left", now)
      /\ Server!Answered(u, "revoked")
  BY DEF Server!Gone, Server!Absent, Server!Departing
<1>2. /\ ledger' \in Ledgers
      /\ ledger'[u].status = "left" /\ ledger'[u].revision > ledger[u].revision
      /\ \A w \in Users : w # u => ledger'[w] = ledger[w]
  BY <1>1, Authorizing
<1>3. /\ invite' \in Invites
      /\ pointer' \in [Users -> 0 .. MaxGeneration]
      /\ pointer'[u] = 0 /\ invite'[u].status # "pending"
      /\ \A v \in Users : v # u => invite'[v] = invite[v] /\ pointer'[v] = pointer[v]
  BY <1>1, Answering
<1>4. /\ member' \in [Users -> [role : Roles \cup {"none"}, banned : BOOLEAN]]
      /\ member'[u] = [role |-> "none", banned |-> FALSE]
      /\ \A w \in Users : w # u => member'[w] = member[w]
  BY <1>1 DEF ServerInv, ServerTyped
<1>5. /\ serverRoot' \in [owner : Users, open : BOOLEAN, count : Nat]
      /\ serverRoot'.owner = serverRoot.owner
      /\ serverRoot'.count = serverRoot.count - 1 /\ serverRoot.count \in Nat
  BY <1>1 DEF ServerInv, ServerTyped
<1>6. ServerTyped'
  BY <1>1, <1>2, <1>3, <1>4, <1>5 DEF ServerInv, ServerTyped, Server!Voided
<1>7. Roster' = Roster \ {u} /\ u \in Roster BY <1>1, <1>4 DEF Roster, Server!Exists
<1>8. Counted'
  <2>1. IsFiniteSet(Roster) /\ serverRoot.count = Cardinality(Roster)
    BY DEF ServerInv, Counted, Roster
  <2>2. IsFiniteSet(Roster') /\ Cardinality(Roster') = Cardinality(Roster) - 1
    BY <1>7, <2>1, FS_RemoveElement
  <2> QED BY <1>5, <2>1, <2>2 DEF Counted, Roster
<1>9. Server!OneOwner'
  <2>1. {w \in Users : member'[w].role = "owner"} = {w \in Users : member[w].role = "owner"}
    BY <1>1, <1>4 DEF ServerInv, Server!OneOwner
  <2>2. serverRoot.owner \in Users BY DEF ServerInv, ServerTyped
  <2> QED BY <1>4, <1>5, <2>1, <2>2 DEF ServerInv, Server!OneOwner
<1>10. Server!LedgerAgrees' BY <1>1, <1>2, <1>4 DEF ServerInv, Server!LedgerAgrees, Server!Exists
<1>11. Server!InvitationsAreForOutsiders'
  BY <1>3, <1>4 DEF ServerInv, Server!InvitationsAreForOutsiders, Server!Exists
<1>12. InvitationsAreDated'
  <2>1. \A w \in Users : ledger'[w].revision >= ledger[w].revision
    BY <1>2 DEF ServerInv, ServerTyped, Ledgers
  <2>2. \A v \in broken' \ broken : invite[v].inviter = u BY <1>1 DEF Server!Voided
  <2>3. \A v \in Users : invite'[v].status = "pending" => invite'[v] = invite[v] BY <1>3
  <2> QED BY <1>2, <2>1, <2>2, <2>3, DatesKept
<1> QED BY <1>6, <1>8, <1>9, <1>10, <1>11, <1>12 DEF ServerInv

\* Role or ban of somebody who stays, with a revision of its own.
LEMMA Ranking ==
  ASSUME ServerInv, Server!AdmissionConstantsAssumption, NEW v \in Users,
         NEW now \in Server!Readings,
         NEW seat \in [role : Roles, banned : BOOLEAN],
         Server!Exists(v), serverRoot.owner # v, seat.role # "owner",
         Server!NextRevision(v) <= MaxRevision, Server!Authorization(v, "member", now),
         member' = [member EXCEPT ![v] = seat], broken' = broken \cup Server!Voided(v),
         barred' \subseteq Users, UNCHANGED <<serverRoot, invite, pointer, friends, clock>>
  PROVE  ServerInv'
<1> USE RolesAreRoles
<1>1. /\ ledger' \in Ledgers /\ ledger'[v].status = "member"
      /\ ledger'[v].revision > ledger[v].revision
      /\ \A w \in Users : w # v => ledger'[w] = ledger[w]
  BY Authorizing
<1>2. /\ member' \in [Users -> [role : Roles \cup {"none"}, banned : BOOLEAN]]
      /\ member'[v] = seat /\ \A w \in Users : w # v => member'[w] = member[w]
  BY DEF ServerInv, ServerTyped
<1>3. ServerTyped' BY <1>1, <1>2 DEF ServerInv, ServerTyped, Server!Voided, Invites
<1>4. \A w \in Users : Server!Exists(w)' <=> Server!Exists(w) BY <1>2 DEF Server!Exists
<1>5. Counted' BY <1>4 DEF ServerInv, Counted, Roster
<1>6. Server!OneOwner'
  <2>1. {w \in Users : member'[w].role = "owner"} = {w \in Users : member[w].role = "owner"}
    BY <1>2 DEF ServerInv, Server!OneOwner
  <2>2. serverRoot.owner \in Users BY DEF ServerInv, ServerTyped
  <2> QED BY <1>2, <2>1, <2>2 DEF ServerInv, Server!OneOwner
<1>7. Server!LedgerAgrees' BY <1>1, <1>4 DEF ServerInv, Server!LedgerAgrees
<1>8. Server!InvitationsAreForOutsiders' BY <1>4 DEF ServerInv, Server!InvitationsAreForOutsiders
<1>9. InvitationsAreDated'
  <2>1. \A w \in Users : ledger'[w].revision >= ledger[w].revision
    <3>1. \A w \in Users : ledger[w].revision \in Nat BY DEF ServerInv, ServerTyped, Ledgers
    <3>2. \A w \in Users : ledger'[w].revision \in Nat BY <1>1 DEF Ledgers
    <3> QED BY <1>1, <3>1, <3>2
  <2>2. \A w \in broken' \ broken : invite[w].inviter = v BY DEF Server!Voided
  <2> QED BY <1>1, <2>1, <2>2, DatesKept
<1> QED BY <1>3, <1>5, <1>6, <1>7, <1>8, <1>9 DEF ServerInv

LEMMA Transferring ==
  ASSUME ServerInv, Server!AdmissionConstantsAssumption, NEW u \in Users, NEW v \in Users,
         NEW now \in Server!Readings, Server!TransferOwnership(u, v, now)
  PROVE  ServerInv'
<1> USE RolesAreRoles
<1>1. /\ u # v /\ member[u].role = "owner" /\ Server!canonicalMember(v)
      /\ Server!canonicalMember(u)
      /\ member' = [member EXCEPT ![u].role = "coOwner", ![v].role = "owner"]
      /\ serverRoot' = [serverRoot EXCEPT !.owner = v] /\ broken' = broken \cup Server!Voided(u)
           \cup Server!Voided(v)
      /\ UNCHANGED <<invite, pointer, friends, clock, barred>>
      /\ Server!NextRevision(u) <= MaxRevision /\ Server!NextRevision(v) <= MaxRevision
  BY DEF Server!TransferOwnership, Server!HandedOver
<1>2. /\ \A w \in {u, v} :
          /\ ledger'[w] = [status |-> "member", revision |-> Server!NextRevision(w),
                                            at |-> now]
                           /\ Server!NextRevision(w) \in 0 .. MaxRevision
                           /\ ledger'[w].revision > ledger[w].revision
      /\ \A w \in Users \ {u, v} : ledger'[w] = ledger[w]
      /\ ledger' \in Ledgers
  <2>1. \A w \in {u, v} : Server!NextRevision(w) \in 0 .. MaxRevision
            /\ ledger[w].revision \in Nat
    BY <1>1 DEF ServerInv, ServerTyped, Ledgers, Server!NextRevision
  <2>2. now \in 0 .. MaxTime BY ReadingsInTime DEF ServerInv
  <2>3. ledger' = [w \in Users |-> IF w \in {u, v}
          THEN [status |-> "member", revision |-> Server!NextRevision(w),
                at |-> now] ELSE ledger[w]]
    BY DEF Server!TransferOwnership
  <2>4. \A w \in {u, v} : ledger'[w] = [status |-> "member", revision |-> Server!NextRevision(w),
                                        at |-> now]
    BY <2>3
  <2>5. \A w \in Users \ {u, v} : ledger'[w] = ledger[w] BY <2>3
  <2>6. ledger' \in Ledgers
    BY <2>1, <2>2, <2>3 DEF ServerInv, ServerTyped, Ledgers
  <2>7. \A w \in {u, v} : Server!NextRevision(w) > ledger[w].revision
       BY <2>1 DEF Server!NextRevision
  <2> QED BY <2>1, <2>4, <2>5, <2>6, <2>7
<1>3. /\ member' \in [Users -> [role : Roles \cup {"none"}, banned : BOOLEAN]]
      /\ member'[u].role = "coOwner" /\ member'[v].role = "owner" /\ ~member'[v].banned
      /\ \A w \in Users \ {u, v} : member'[w] = member[w]
  <2>1. member[u] \in [role : Roles \cup {"none"}, banned : BOOLEAN]
        /\ member[v] \in [role : Roles \cup {"none"}, banned : BOOLEAN]
    BY DEF ServerInv, ServerTyped
  <2>2. member' = [member EXCEPT ![u] = [role |-> "coOwner", banned |-> member[u].banned],
                                 ![v] = [role |-> "owner", banned |-> member[v].banned]]
    <3>1. /\ [member[u] EXCEPT !.role = "coOwner"]
               = [role |-> "coOwner", banned |-> member[u].banned]
          /\ [member[v] EXCEPT !.role = "owner"] = [role |-> "owner", banned |-> member[v].banned]
      BY <2>1
    <3>2. member' = [member EXCEPT ![u] = [member[u] EXCEPT !.role = "coOwner"],
                                   ![v] = [member[v] EXCEPT !.role = "owner"]]
      BY <1>1 DEF ServerInv, ServerTyped
    <3> QED BY <3>1, <3>2
  <2>3. ~member[v].banned BY <1>1 DEF Server!canonicalMember
  <2>4. "coOwner" \in Roles \cup {"none"} /\ "owner" \in Roles \cup {"none"} OBVIOUS
  <2>5. member \in [Users -> [role : Roles \cup {"none"}, banned : BOOLEAN]]
    BY DEF ServerInv, ServerTyped
  <2>6. /\ member'[u] = [role |-> "coOwner", banned |-> member[u].banned]
        /\ member'[v] = [role |-> "owner", banned |-> member[v].banned]
        /\ \A w \in Users \ {u, v} : member'[w] = member[w]
    BY <1>1, <2>2, <2>5
  <2>7. member' \in [Users -> [role : Roles \cup {"none"}, banned : BOOLEAN]]
    BY <2>1, <2>2, <2>4, <2>5
  <2> QED BY <2>3, <2>6, <2>7
<1>4. serverRoot' \in [owner : Users, open : BOOLEAN, count : Nat] /\ serverRoot'.owner = v
      /\ serverRoot'.count = serverRoot.count
  BY <1>1 DEF ServerInv, ServerTyped
<1>5. ServerTyped' BY <1>1, <1>2, <1>3, <1>4 DEF ServerInv, ServerTyped, Server!Voided, Invites
<1>6. \A w \in Users : Server!Exists(w)' <=> Server!Exists(w)
  BY <1>1, <1>3 DEF Server!Exists, Server!canonicalMember
<1>7. Counted' BY <1>4, <1>6 DEF ServerInv, Counted, Roster
<1>8. Server!OneOwner'
  <2>1. \A w \in Users : member[w].role = "owner" => w = u BY <1>1 DEF ServerInv, Server!OneOwner
  <2>2. \A w \in Users : member'[w].role = "owner" <=> w = v BY <1>1, <1>3, <2>1
  <2> QED BY <1>3, <1>4, <2>2 DEF Server!OneOwner
<1>9. Server!LedgerAgrees'
  <2>1. Server!Exists(u) /\ Server!Exists(v) BY <1>1 DEF Server!canonicalMember
  <2>2. ledger'[u].status = "member" /\ ledger'[v].status = "member" BY <1>2
  <2> QED BY <1>2, <1>6, <2>1, <2>2 DEF ServerInv, Server!LedgerAgrees
<1>10. Server!InvitationsAreForOutsiders'
     BY <1>1, <1>6 DEF ServerInv, Server!InvitationsAreForOutsiders
<1>11. InvitationsAreDated'
  <2>1. \A w \in Users : ledger'[w].revision >= ledger[w].revision
    BY <1>2 DEF ServerInv, ServerTyped, Ledgers
  <2>2. \A w \in broken' \ broken : invite[w].inviter \in {u, v} BY <1>1 DEF Server!Voided
  <2>3. \A w \in Users : invite'[w].status = "pending" => invite'[w] = invite[w] BY <1>1
  <2>4. \A w \in broken' \ broken :
          ledger'[invite[w].inviter].revision > ledger[invite[w].inviter].revision
    BY <1>2, <2>2
  <2> QED BY <1>2, <2>1, <2>3, <2>4, DatesKept
<1> QED BY <1>5, <1>7, <1>8, <1>9, <1>10, <1>11 DEF ServerInv

LEMMA Inviting ==
  ASSUME ServerInv, Server!AdmissionConstantsAssumption, NEW u \in Users, NEW v \in Users,
         NEW now \in Server!Readings, Server!Invite(u, v, now)
  PROVE  ServerInv'
<1> USE RolesAreRoles
<1> DEFINE i == [status |-> "pending", generation |-> invite[v].generation + 1, inviter |-> u,
                 revision |-> ledger[u].revision, created |-> now, expires |-> now + TTL]
<1>1. /\ ~Server!Exists(v) /\ invite' = [invite EXCEPT ![v] = i]
      /\ pointer' = [pointer EXCEPT ![v] = invite[v].generation + 1] /\ broken' = broken \ {v}
      /\ UNCHANGED <<serverRoot, member, ledger, friends, clock, barred>>
  BY DEF Server!Invite, ServerInv, ServerTyped, Invites
<1>2. i \in Invitation
  <2>1. invite[v].generation \in Nat /\ invite[v].generation + 1 \in 0 .. MaxGeneration
    BY DEF ServerInv, ServerTyped, Invites, Invitation, Server!Invite
  <2>2. now \in 0 .. MaxTime /\ now + TTL \in 0 .. MaxTime + TTL BY ReadingsInTime DEF ServerInv
  <2>3. ledger[u].revision \in 0 .. MaxRevision BY DEF ServerInv, ServerTyped, Ledgers
  <2> QED BY <2>1, <2>2, <2>3 DEF Invitation
<1>3. /\ invite' \in Invites /\ invite'[v] = i /\ \A w \in Users \ {v} : invite'[w] = invite[w]
      /\ pointer' \in [Users -> 0 .. MaxGeneration] /\ pointer'[v] = i.generation
      /\ \A w \in Users \ {v} : pointer'[w] = pointer[w]
  BY <1>1, <1>2 DEF ServerInv, ServerTyped, Invites, Invitation
<1>4. i.status = "pending" /\ i.inviter = u /\ i.revision = ledger[u].revision
      /\ ledger[u].revision \in Nat
  BY DEF ServerInv, ServerTyped, Ledgers
<1> HIDE DEF i
<1>5. ServerTyped' BY <1>1, <1>3 DEF ServerInv, ServerTyped
<1>6. Counted' /\ Server!OneOwner' /\ Server!LedgerAgrees'
  BY <1>1 DEF ServerInv, Counted, Roster, Server!OneOwner, Server!LedgerAgrees, Server!Exists
<1>7. Server!InvitationsAreForOutsiders'
  <2>1. \A w \in Users : Server!Exists(w)' <=> Server!Exists(w) BY <1>1 DEF Server!Exists
  <2> QED BY <1>1, <1>3, <1>4, <2>1 DEF ServerInv, Server!InvitationsAreForOutsiders
<1>8. InvitationsAreDated'
  BY <1>1, <1>3, <1>4 DEF ServerInv, InvitationsAreDated
<1> QED BY <1>5, <1>6, <1>7, <1>8 DEF ServerInv

\* An answer alone: declined, revoked by a manager or by the staff.
LEMMA AnsweringAlone ==
  ASSUME ServerInv, Server!AdmissionConstantsAssumption, NEW u \in Users,
         NEW status \in {"accepted", "declined", "revoked"}, Server!Answered(u, status),
         UNCHANGED <<serverRoot, member, ledger, friends, clock, broken, barred>>
  PROVE  ServerInv'
<1>1. /\ invite' \in Invites /\ pointer' \in [Users -> 0 .. MaxGeneration]
      /\ pointer'[u] = 0 /\ invite'[u].status # "pending"
      /\ \A v \in Users : v # u => invite'[v] = invite[v] /\ pointer'[v] = pointer[v]
  BY Answering
<1>2. ServerTyped' BY <1>1 DEF ServerInv, ServerTyped
<1>3. Counted' /\ Server!OneOwner' /\ Server!LedgerAgrees'
  BY DEF ServerInv, Counted, Roster, Server!OneOwner, Server!LedgerAgrees, Server!Exists
<1>4. Server!InvitationsAreForOutsiders'
  BY <1>1 DEF ServerInv, Server!InvitationsAreForOutsiders, Server!Exists
<1>5. InvitationsAreDated'
  BY <1>1 DEF ServerInv, InvitationsAreDated
<1> QED BY <1>2, <1>3, <1>4, <1>5 DEF ServerInv

LEMMA Commanding ==
  ASSUME ServerInv, Server!AdmissionConstantsAssumption, NEW now \in Server!Readings,
       Server!Command(now)
  PROVE  ServerInv'
<1> USE RolesAreRoles
<1>1. PICK u \in Users :
        \/ Server!JoinPublic(u, now) \/ Server!JoinInvited(u, now) \/ Server!Decline(u, now)
        \/ Server!Leave(u, now) \/ Server!StaffRemove(u, now)
        \/ \E banned \in BOOLEAN : Server!StaffSetBan(u, banned, now)
        \/ \E v \in Users :
             \/ Server!Invite(u, v, now) \/ Server!Remove(u, v, now)
             \/ Server!TransferOwnership(u, v, now)
             \/ \E role \in Roles : Server!SetRole(u, v, role, now)
             \/ \E banned \in BOOLEAN : Server!SetBan(u, v, banned, now)
  BY DEF Server!Command
<1>2. CASE Server!JoinPublic(u, now) BY <1>2, Joining DEF Server!JoinPublic, Server!Superseded
<1>3. CASE Server!JoinInvited(u, now) BY <1>3, Joining DEF Server!JoinInvited
<1>4. CASE Server!Decline(u, now) BY <1>4, AnsweringAlone DEF Server!Decline
<1>5. CASE Server!Leave(u, now)
  <2>1. Server!Exists(u) /\ serverRoot.owner # u BY <1>5 DEF Server!Leave, Server!canonicalMember
  <2> QED BY <1>5, <2>1, Going DEF Server!Leave
<1>6. CASE Server!StaffRemove(u, now)
  BY <1>6, Going, AnsweringAlone DEF Server!StaffRemove
<1>7. ASSUME NEW v \in Users, NEW banned \in BOOLEAN, Server!Banned(v, banned, now)
      PROVE ServerInv'
  <2> DEFINE seat == [role |-> member[v].role, banned |-> banned]
  <2>1. member[v] \in [role : Roles \cup {"none"}, banned : BOOLEAN] BY DEF ServerInv, ServerTyped
  <2>2. Server!Exists(v) /\ seat.role # "owner" /\ seat \in [role : Roles, banned : BOOLEAN]
    BY <1>7, <2>1 DEF Server!Banned, Server!Exists
  <2>3. serverRoot.owner # v BY <1>7 DEF Server!Banned, ServerInv, Server!OneOwner
  <2>4. [member[v] EXCEPT !.banned = banned] = seat BY <2>1
  <2>5. member' = [member EXCEPT ![v] = seat]
    BY <1>7, <2>4 DEF Server!Banned, ServerInv, ServerTyped
  <2>6. barred' \subseteq Users BY <1>7 DEF Server!Banned, ServerInv, ServerTyped
  <2> HIDE DEF seat
  <2> QED BY <1>7, <2>2, <2>3, <2>5, <2>6, Ranking DEF Server!Banned
<1>8. CASE \E banned \in BOOLEAN : Server!StaffSetBan(u, banned, now)
  BY <1>7, <1>8 DEF Server!StaffSetBan
<1>9. ASSUME NEW v \in Users, Server!Remove(u, v, now) PROVE ServerInv'
  <2>1. serverRoot.owner # v /\ Server!Exists(v) /\ Server!Gone(v, now)
       BY <1>9 DEF Server!Remove, ServerInv, Server!OneOwner
  <2> QED BY <2>1, Going
<1>10. ASSUME NEW v \in Users, NEW role \in Roles, Server!SetRole(u, v, role, now)
       PROVE ServerInv'
  <2> DEFINE seat == [role |-> role, banned |-> member[v].banned]
  <2>1. member[v] \in [role : Roles \cup {"none"}, banned : BOOLEAN] BY DEF ServerInv, ServerTyped
  <2>2. Server!Exists(v) /\ seat.role # "owner" /\ seat \in [role : Roles, banned : BOOLEAN]
    BY <1>10, <2>1 DEF Server!SetRole, Server!Exists, Server!canonicalMember
  <2>3. serverRoot.owner # v
    <3>1. SUFFICES ASSUME serverRoot.owner = v PROVE FALSE OBVIOUS
    <3>2. member[v].role = "owner" /\ member[u].role \in {"owner", "coOwner"}
      BY <1>10, <3>1 DEF Server!SetRole, ServerInv, Server!OneOwner
    <3>3. Server!Power["owner"] = 6 /\ Server!Power["coOwner"] = 5 BY DEF Server!Power
    <3>4. Server!Power[member[u].role] > Server!Power["owner"]
         BY <1>10, <3>2 DEF Server!SetRole, Server!Outranks
    <3>5. Server!Power[member[u].role] \in {5, 6} BY <3>2, <3>3
    <3> QED BY <3>3, <3>4, <3>5
  <2>4. [member[v] EXCEPT !.role = role] = seat BY <2>1
  <2>5. member' = [member EXCEPT ![v] = seat]
    BY <1>10, <2>4 DEF Server!SetRole, ServerInv, ServerTyped
  <2>6. barred' \subseteq Users BY <1>10 DEF Server!SetRole, ServerInv, ServerTyped
  <2> HIDE DEF seat
  <2> QED BY <1>10, <2>2, <2>3, <2>5, <2>6, Ranking DEF Server!SetRole
<1>11. CASE \E v \in Users :
              \/ Server!Invite(u, v, now) \/ Server!Remove(u, v, now)
              \/ Server!TransferOwnership(u, v, now)
              \/ \E role \in Roles : Server!SetRole(u, v, role, now)
              \/ \E banned \in BOOLEAN : Server!SetBan(u, v, banned, now)
  BY <1>7, <1>9, <1>10, <1>11, Inviting, Transferring DEF Server!SetBan
<1> QED BY <1>1, <1>2, <1>3, <1>4, <1>5, <1>6, <1>8, <1>11

LEMMA ServerStep ==
  ASSUME ServerInv, Server!AdmissionConstantsAssumption, [Server!Next]_Server!vars
  PROVE  ServerInv'
<1>1. CASE \E now \in Server!Readings : Server!Command(now) BY <1>1, Commanding
<1>2. ASSUME NEW u \in Users, Server!SetPrivacy(u) PROVE ServerInv'
  <2>1. /\ UNCHANGED <<member, ledger, invite, pointer, friends, clock, broken, barred>>
        /\ serverRoot' = [serverRoot EXCEPT !.open = ~@]
    BY <1>2 DEF Server!SetPrivacy
  <2>2. /\ serverRoot' \in [owner : Users, open : BOOLEAN, count : Nat]
        /\ serverRoot'.owner = serverRoot.owner
        /\ serverRoot'.count = serverRoot.count
    BY <2>1 DEF ServerInv, ServerTyped
  <2>3. ServerTyped' BY <2>1, <2>2 DEF ServerInv, ServerTyped
  <2> QED
    BY <2>1, <2>2, <2>3
       DEF ServerInv, Counted, Roster, Server!OneOwner, Server!LedgerAgrees, Server!Exists,
           Server!InvitationsAreForOutsiders, InvitationsAreDated
<1>3. ASSUME NEW u \in Users, NEW v \in Users, Server!Revoke(u, v) PROVE ServerInv'
  BY <1>3, AnsweringAlone DEF Server!Revoke
<1>4. ASSUME UNCHANGED <<serverRoot, member, ledger, invite, pointer, broken, barred>>, ServerTyped'
      PROVE  ServerInv'
  BY <1>4
     DEF ServerInv, Counted, Roster, Server!OneOwner, Server!LedgerAgrees, Server!Exists,
         Server!InvitationsAreForOutsiders, InvitationsAreDated
<1>5. CASE \E p \in Fickle : Server!ToggleFriends(p)
  <2>1. Fickle \subseteq Server!Pairs BY DEF Server!AdmissionConstantsAssumption, Server!Pairs
  <2>2. ServerTyped' BY <1>5, <2>1 DEF Server!ToggleFriends, ServerInv, ServerTyped
  <2> QED BY <1>4, <1>5, <2>2 DEF Server!ToggleFriends
<1>6. CASE Server!Tick
  <2>1. ServerTyped' BY <1>6, RolesAreRoles DEF Server!Tick, ServerInv, ServerTyped
  <2> QED BY <1>4, <1>6, <2>1 DEF Server!Tick
<1>7. CASE UNCHANGED Server!vars
  <2>1. ServerTyped' BY <1>7 DEF Server!vars, ServerInv, ServerTyped
  <2> QED BY <1>4, <1>7, <2>1 DEF Server!vars
<1> QED BY <1>1, <1>2, <1>3, <1>5, <1>6, <1>7 DEF Server!Next

------------------------
(* The strengthening is an invariant of every command that admits, invites, ranks, bans
   or removes somebody, with clocks that lag and friendships that come and go. *)
THEOREM ServerInvariant ==
  ASSUME Server!AdmissionConstantsAssumption PROVE Server!Spec => []ServerInv
<1>1. Server!Init => ServerInv BY ServerInit
<1>2. ServerInv /\ [Server!Next]_Server!vars => ServerInv' BY ServerStep
<1> QED BY <1>1, <1>2, PTL DEF Server!Spec

(* Root, roster, ledger, invitations and pointers keep their types. *)
THEOREM ServerTypeCorrect ==
  ASSUME Server!AdmissionConstantsAssumption PROVE Server!Spec => []Server!TypeOK
<1>1. ServerInv => Server!TypeOK
  BY DEF ServerInv, ServerTyped, Ledgers, Invites, Invitation, Server!TypeOK
<1> QED BY <1>1, ServerInvariant, PTL

(* memberCount is the number of member documents, root and roster name the same single
   owner, who is not banned, and the ledger says "member" of exactly those on the roster:
   for any number of users, roles and commands, whatever the age of a command's clock. *)
THEOREM RostersStayTrue ==
  ASSUME Server!AdmissionConstantsAssumption
  PROVE  Server!Spec => [](Server!CountMatchesRoster /\ Server!OneOwner /\ Server!LedgerAgrees)
<1>1. ServerInv => Server!CountMatchesRoster /\ Server!OneOwner /\ Server!LedgerAgrees
     BY DEF ServerInv, Counted, Roster, Server!CountMatchesRoster, Server!Cardinality, Cardinality
<1> QED BY <1>1, ServerInvariant, PTL

(* An open invitation is somebody's who is not on the roster, and a pointer leads to an
   open invitation of its own generation. *)
THEOREM InvitationsStayOutside ==
  ASSUME Server!AdmissionConstantsAssumption
  PROVE Server!Spec => []Server!InvitationsAreForOutsiders
<1>1. ServerInv => Server!InvitationsAreForOutsiders BY DEF ServerInv
<1> QED BY <1>1, ServerInvariant, PTL

\* One standing changes and gets a revision of its own.
LEMMA OneStanding ==
  ASSUME ServerInv, Server!AdmissionConstantsAssumption, NEW v \in Users,
         NEW now \in Server!Readings,
         NEW status \in {"none", "member", "left"}, NEW seat,
         Server!NextRevision(v) <= MaxRevision, Server!Authorization(v, status, now),
         member' = [member EXCEPT ![v] = seat],
         seat.role # "none" => Server!Exists(v) \/ Server!admitsPublicJoin \/ v \notin broken
  PROVE  Server!StandingsAreNumbered /\ Server!InvitationsDieWithTheirIssuer
<1>1. /\ ledger' \in Ledgers /\ ledger'[v].revision > ledger[v].revision
      /\ \A w \in Users : w # v => ledger'[w] = ledger[w]
  BY Authorizing
<1>2. member'[v] = seat /\ \A w \in Users : w # v => member'[w] = member[w]
  BY DEF ServerInv, ServerTyped
<1>3. \A w \in Users : ledger[w].revision \in Nat BY DEF ServerInv, ServerTyped, Ledgers
<1>4. \A w \in Users : ledger'[w].revision \in Nat BY <1>1 DEF Ledgers
<1>5. Server!StandingsAreNumbered BY <1>1, <1>2, <1>3, <1>4 DEF Server!StandingsAreNumbered
<1>6. Server!InvitationsDieWithTheirIssuer
     BY <1>2 DEF Server!InvitationsDieWithTheirIssuer, Server!Exists
<1> QED BY <1>5, <1>6

LEMMA NoStanding ==
  ASSUME ServerInv, UNCHANGED <<member, ledger>>
  PROVE  Server!StandingsAreNumbered /\ Server!InvitationsDieWithTheirIssuer
<1>1. \A w \in Users : ledger[w].revision \in Nat BY DEF ServerInv, ServerTyped, Ledgers
<1> QED BY <1>1 DEF Server!StandingsAreNumbered, Server!InvitationsDieWithTheirIssuer,
        Server!Exists

LEMMA StandingSteps ==
  ASSUME ServerInv, Server!AdmissionConstantsAssumption, [Server!Next]_Server!vars
  PROVE  Server!StandingsAreNumbered /\ Server!InvitationsDieWithTheirIssuer
<1> DEFINE Good == Server!StandingsAreNumbered /\ Server!InvitationsDieWithTheirIssuer
<1>1. ASSUME NEW u \in Users, NEW now \in Server!Readings, Server!Joined(u, now),
             Server!admitsPublicJoin \/ u \notin broken
      PROVE  Good
  BY <1>1, OneStanding DEF Server!Joined
<1>2. ASSUME NEW u \in Users, NEW now \in Server!Readings, Server!Gone(u, now) PROVE Good
  <2>1. Server!Absent.role = "none" BY DEF Server!Absent
  <2> QED BY <1>2, <2>1, OneStanding DEF Server!Gone
<1>3. ASSUME NEW v \in Users, NEW banned \in BOOLEAN, NEW now \in Server!Readings,
          Server!Banned(v, banned, now)
      PROVE  Good
  <2>1. member' = [member EXCEPT ![v] = [member[v] EXCEPT !.banned = banned]]
    BY <1>3 DEF Server!Banned, ServerInv, ServerTyped
  <2> QED BY <1>3, <2>1, OneStanding DEF Server!Banned
<1>4. ASSUME NEW u \in Users, NEW v \in Users, NEW role \in Roles, NEW now \in Server!Readings,
             Server!SetRole(u, v, role, now)
      PROVE  Good
  <2>1. member' = [member EXCEPT ![v] = [member[v] EXCEPT !.role = role]]
    BY <1>4 DEF Server!SetRole, ServerInv, ServerTyped
  <2>2. Server!Exists(v) BY <1>4 DEF Server!SetRole, Server!canonicalMember
  <2> QED BY <1>4, <2>1, <2>2, OneStanding DEF Server!SetRole
<1>5. ASSUME NEW u \in Users, NEW v \in Users, NEW now \in Server!Readings,
          Server!TransferOwnership(u, v, now)
      PROVE  Good
  <2>1. /\ Server!Exists(u) /\ Server!Exists(v)
        /\ member' = [member EXCEPT ![u].role = "coOwner", ![v].role = "owner"]
        /\ ledger' = [w \in Users |-> IF w \in {u, v}
             THEN [status |-> "member", revision |-> Server!NextRevision(w), at |-> now]
             ELSE ledger[w]]
    BY <1>5 DEF Server!TransferOwnership, Server!HandedOver, Server!canonicalMember
  <2>2. \A w \in Users \ {u, v} : member'[w] = member[w] BY <2>1 DEF ServerInv, ServerTyped
  <2>3. \A w \in Users : ledger[w].revision \in Nat BY DEF ServerInv, ServerTyped, Ledgers
  <2>4. \A w \in {u, v} : ledger'[w].revision = ledger[w].revision + 1
    BY <2>1 DEF Server!NextRevision
  <2>5. \A w \in Users \ {u, v} : ledger'[w] = ledger[w] BY <2>1
  <2>6. Server!StandingsAreNumbered BY <2>2, <2>3, <2>4, <2>5 DEF Server!StandingsAreNumbered
  <2>7. Server!InvitationsDieWithTheirIssuer
    BY <2>1, <2>2 DEF Server!InvitationsDieWithTheirIssuer, Server!Exists
  <2> QED BY <2>6, <2>7
<1>6. ASSUME UNCHANGED <<member, ledger>> PROVE Good BY <1>6, NoStanding
<1>7. ASSUME NEW u \in Users, NEW now \in Server!Readings, Server!JoinInvited(u, now) PROVE Good
  <2>1. invite[u].status = "pending" /\ ledger[invite[u].inviter].revision = invite[u].revision
    BY <1>7
       DEF Server!JoinInvited, Server!Admissible, Server!Pending, Server!StandsBehind,
           Server!StandsAsThen
  <2>2. u \notin broken
    <3>1. invite[u].revision \in Nat BY DEF ServerInv, ServerTyped, Invites, Invitation
    <3> QED BY <2>1, <3>1 DEF ServerInv, InvitationsAreDated
  <2> QED BY <1>1, <1>7, <2>2 DEF Server!JoinInvited
<1> SUFFICES Good OBVIOUS
<1> HIDE DEF Good
<1>8. ASSUME NEW now \in Server!Readings, Server!Command(now) PROVE Good
  <2>1. PICK u \in Users :
          \/ Server!JoinPublic(u, now) \/ Server!JoinInvited(u, now) \/ Server!Decline(u, now)
          \/ Server!Leave(u, now) \/ Server!StaffRemove(u, now)
          \/ \E banned \in BOOLEAN : Server!StaffSetBan(u, banned, now)
          \/ \E v \in Users :
               \/ Server!Invite(u, v, now) \/ Server!Remove(u, v, now)
               \/ Server!TransferOwnership(u, v, now)
               \/ \E role \in Roles : Server!SetRole(u, v, role, now)
               \/ \E banned \in BOOLEAN : Server!SetBan(u, v, banned, now)
    BY <1>8 DEF Server!Command
  <2>2. CASE Server!JoinPublic(u, now) BY <1>1, <2>2 DEF Server!JoinPublic
  <2>3. CASE Server!JoinInvited(u, now) BY <1>7, <2>3
  <2>4. CASE Server!Decline(u, now) BY <1>6, <2>4 DEF Server!Decline
  <2>5. CASE Server!Leave(u, now) BY <1>2, <2>5 DEF Server!Leave
  <2>6. CASE Server!StaffRemove(u, now) BY <1>2, <1>6, <2>6 DEF Server!StaffRemove
  <2>7. CASE \E banned \in BOOLEAN : Server!StaffSetBan(u, banned, now)
    BY <1>3, <2>7 DEF Server!StaffSetBan
  <2>8. ASSUME NEW v \in Users, Server!Invite(u, v, now)
  PROVE Good BY <1>6, <2>8 DEF Server!Invite
  <2>9. ASSUME NEW v \in Users, Server!Remove(u, v, now)
  PROVE Good BY <1>2, <2>9 DEF Server!Remove
  <2>10. ASSUME NEW v \in Users, NEW banned \in BOOLEAN, Server!SetBan(u, v, banned, now)
  PROVE Good
    BY <1>3, <2>10 DEF Server!SetBan
  <2> QED BY <1>4, <1>5, <2>1, <2>2, <2>3, <2>4, <2>5, <2>6, <2>7, <2>8, <2>9, <2>10
<1>9. CASE \E u \in Users : Server!SetPrivacy(u) \/ \E v \in Users : Server!Revoke(u, v)
  BY <1>6, <1>9 DEF Server!SetPrivacy, Server!Revoke
<1>10. CASE \E p \in Fickle : Server!ToggleFriends(p) BY <1>6, <1>10 DEF Server!ToggleFriends
<1>11. CASE Server!Tick BY <1>6, <1>11 DEF Server!Tick
<1>12. CASE UNCHANGED Server!vars BY <1>6, <1>12 DEF Server!vars
<1> QED BY <1>8, <1>9, <1>10, <1>11, <1>12 DEF Server!Next

(* Every change of standing, leaving and coming back included, has a revision above all
   earlier ones of that user. *)
THEOREM StandingsStayNumbered ==
  ASSUME Server!AdmissionConstantsAssumption
  PROVE Server!Spec => [][Server!StandingsAreNumbered]_Server!vars
<1>1. ServerInv /\ [Server!Next]_Server!vars => [Server!StandingsAreNumbered]_Server!vars
     BY StandingSteps
<1> QED BY <1>1, ServerInvariant, PTL DEF Server!Spec

(* Nobody enters a closed server through an invitation whose inviter's standing changed
   since it was issued, even when the inviter has the old role back. *)
THEOREM BrokenInvitationsAdmitNobody ==
  ASSUME Server!AdmissionConstantsAssumption
  PROVE Server!Spec => [][Server!InvitationsDieWithTheirIssuer]_Server!vars
<1>1. ServerInv /\ [Server!Next]_Server!vars => [Server!InvitationsDieWithTheirIssuer]_Server!vars
     BY StandingSteps
<1> QED BY <1>1, ServerInvariant, PTL DEF Server!Spec

------------------------
(***************************************************************************)
(* The avatar and the banner of an account (ProfileMedia), for any number  *)
(* of uploads, calls, budget and sweeps that die.  Deletions go by what    *)
(* was read earlier and name no generation, so what makes them safe is     *)
(* that they are about the past: an upload whose lease is gone or ran out  *)
(* can be finalized again (Alive) only once it is reserved again, and one  *)
(* that is reserved under work of its past is among those overtaken.       *)
(***************************************************************************)
CONSTANTS Uploads, KindOf, Calls, Budget, Reading, MaxStops
VARIABLES account, media, object, uploaded, reservation, lease, lapsed, reserved, finalized,
          reserveLedger, reservePreflight, finalPreflight, call, worker, stops, audience, reader,
          seen, overtaken
Image == INSTANCE ProfileMedia

ImageAssumption == Image!ProfileMediaAssumption

ImageReservations == [live : BOOLEAN, base : Image!Revisions]
OwnerCalls == [at : {"idle", "reserve", "replaced", "finalize", "read", "hardened"},
               upload : Uploads \cup {Image!None}, generation : Image!Generations,
                    base : Image!Revisions,
               old : Uploads \cup {Image!None}]
ImageSweepers == [at : {"idle", "expired", "inventory", "unshown", "orphan", "unshown again",
                        "delete"},
           upload : Uploads \cup {Image!None}]
ImageReaders == [at : {"idle", "authorized", "signed"}, kind : Image!Kinds, image : Image!Images,
            revision : Image!Revisions]

\* The upload can still be finalized.
Alive(u) == u \notin finalized /\ Image!HoldsSlot(u) /\ u \notin lapsed

ImageUpload(u) ==
  /\ reservation[u].live <=> lease[KindOf[u]] = u
  /\ reservation[u].live =>
       /\ u \notin finalized /\ reservation[u].base <= media.revision
       /\ reservation[u].base = media.revision => seen[u] = media.shown

ImageKind(k) ==
  LET i == media.shown[k] IN
  /\ lease[k] # Image!None => KindOf[lease[k]] = k
  /\ i # Image!NoImage =>
       /\ i.upload \in finalized /\ KindOf[i.upload] = k
       /\ i.generation # 0 /\ (i.upload \in overtaken \/ object[i.upload] = i.generation)

ImageCall(c) ==
  LET u == call[c].upload IN
  /\ call[c].at \in {"reserve", "finalize", "read", "hardened"} => u \in Uploads
  /\ call[c].at = "replaced" =>
       /\ call[c].old \in Uploads
       /\ call[c].old \in overtaken \/ (call[c].old \notin finalized /\ ~Alive(call[c].old))
  /\ call[c].at \in {"finalize", "read", "hardened"} => call[c].generation # 0
  /\ call[c].at = "hardened" /\ Alive(u) =>
       u \in overtaken \/ object[u] = call[c].generation

ImageSweep ==
  LET u == worker.upload IN
  /\ worker.at # "idle" => u \in Uploads
  /\ worker.at # "idle" /\ u \notin overtaken =>
       /\ worker.at = "expired" => u \notin finalized
       /\ worker.at \in {"expired", "orphan", "unshown again", "delete"} => ~Alive(u)
       /\ worker.at \in {"unshown again", "delete"} => ~Image!Shows(u)

ImageReader == reader.at # "idle" => reader.image # Image!NoImage

ImageTyped ==
  /\ account \in {"active", "restricted"}
  /\ media \in [revision : Image!Revisions, shown : [Image!Kinds -> Image!Images]]
  /\ object \in [Uploads -> Image!Generations] /\ uploaded \in Image!Generations
  /\ reservation \in [Uploads -> ImageReservations]
  /\ lease \in [Image!Kinds -> Uploads \cup {Image!None}]
  /\ lapsed \subseteq Uploads /\ finalized \subseteq Uploads /\ reserved \in 0..Budget
  /\ reserveLedger \subseteq Uploads /\ reservePreflight \subseteq Uploads
  /\ finalPreflight \in [Uploads -> Image!Generations] /\ call \in [Calls -> OwnerCalls]
  /\ worker \in ImageSweepers /\ stops \in 0..MaxStops /\ audience \in {"shown", "hidden"}
  /\ reader \in ImageReaders /\ overtaken \subseteq Uploads

\* One revision for each finalized upload; the history of what was seen.
ImageRevisions ==
  media.revision = Cardinality(finalized) /\ seen \in [Uploads -> [Image!Kinds -> Image!Images]]

ImageInv ==
  /\ ImageTyped /\ ImageRevisions /\ ImageSweep /\ ImageReader
  /\ \A u \in Uploads : ImageUpload(u)
  /\ \A k \in Image!Kinds : ImageKind(k)
  /\ \A c \in Calls : ImageCall(c)

LEMMA ImageFacts ==
  ASSUME ImageAssumption
  PROVE  /\ Image!None \notin Uploads /\ \A u \in Uploads : KindOf[u] \in Image!Kinds
         /\ 0 \in Image!Generations /\ 0 \in Image!Revisions /\ Budget \in Nat /\ MaxStops \in Nat
         /\ Image!Revisions \subseteq Nat
         /\ Image!NoImage \in Image!Images /\ Image!NoMedia \in [Image!Kinds -> Image!Images]
         /\ Image!NoImage.upload = Image!None
         /\ \A k \in Image!Kinds : Image!NoMedia[k] = Image!NoImage
         /\ Image!IdleCall \in OwnerCalls /\ Image!IdleCall.at = "idle"
         /\ Image!IdleWorker \in ImageSweepers /\ Image!IdleWorker.at = "idle"
         /\ Image!IdleReader \in ImageReaders /\ Image!IdleReader.at = "idle"
<1>1. 0 \in Image!Generations /\ Budget \in Nat /\ MaxStops \in Nat /\ Image!None \notin Uploads
      /\ \A u \in Uploads : KindOf[u] \in Image!Kinds
  BY DEF ImageAssumption, Image!ProfileMediaAssumption, Image!Generations, Image!None
<1>2. 0 \in Image!Revisions /\ Image!Revisions \subseteq Nat
  <2>1. Cardinality(Uploads) \in Nat
    BY FS_CardinalityType
      DEF ImageAssumption, Image!ProfileMediaAssumption, Image!IsFiniteSet, IsFiniteSet
  <2> QED BY <2>1 DEF Image!Revisions, Image!Cardinality, Cardinality
<1>3. Image!NoImage \in Image!Images /\ Image!NoImage.upload = Image!None
     BY <1>1 DEF Image!NoImage, Image!Images
<1>4. Image!NoMedia \in [Image!Kinds -> Image!Images] /\ \A k \in Image!Kinds : Image!NoMedia[k]
          = Image!NoImage
  BY <1>3 DEF Image!NoMedia
<1>5. Image!IdleCall \in OwnerCalls /\ Image!IdleCall.at = "idle"
     BY <1>1, <1>2 DEF Image!IdleCall, OwnerCalls
<1>6. Image!IdleWorker \in ImageSweepers /\ Image!IdleWorker.at = "idle"
     BY DEF Image!IdleWorker, ImageSweepers
<1>7. Image!IdleReader \in ImageReaders /\ Image!IdleReader.at = "idle"
  BY <1>2, <1>3 DEF Image!IdleReader, ImageReaders, Image!Kinds
<1> QED BY <1>1, <1>2, <1>3, <1>4, <1>5, <1>6, <1>7

\* The records that a step writes, field by field.
LEMMA ImageRecords ==
  /\ \A u : [Image!IdleCall EXCEPT !.at = "reserve", !.upload = u] =
       [at |-> "reserve", upload |-> u, generation |-> 0, base |-> 0, old |-> Image!None]
  /\ \A u : [Image!IdleCall EXCEPT !.at = "replaced", !.old = u] =
       [at |-> "replaced", upload |-> Image!None, generation |-> 0, base |-> 0, old |-> u]
  /\ \A q \in OwnerCalls : \A b : [q EXCEPT !.at = "read", !.base = b] =
       [at |-> "read", upload |-> q.upload, generation |-> q.generation, base |-> b,
        old |-> q.old]
  /\ \A q \in OwnerCalls : [q EXCEPT !.at = "hardened"] =
       [at |-> "hardened", upload |-> q.upload, generation |-> q.generation, base |-> q.base,
        old |-> q.old]
  /\ \A r \in ImageReservations : [r EXCEPT !.live = FALSE] = [live |-> FALSE, base |-> r.base]
  /\ \A w \in ImageSweepers : \A to : [w EXCEPT !.at = to] = [at |-> to, upload |-> w.upload]
  /\ \A r \in ImageReaders : [r EXCEPT !.at = "signed"] =
       [at |-> "signed", kind |-> r.kind, image |-> r.image, revision |-> r.revision]
<1>1. ASSUME NEW u
      PROVE  [Image!IdleCall EXCEPT !.at = "reserve", !.upload = u] =
               [at |-> "reserve", upload |-> u, generation |-> 0, base |-> 0, old |-> Image!None]
  <2>1. PICK k : k = [Image!IdleCall EXCEPT !.at = "reserve", !.upload = u] OBVIOUS
  <2>2. k = [at |-> "reserve", upload |-> u, generation |-> 0, base |-> 0, old |-> Image!None]
    BY <2>1 DEF Image!IdleCall
  <2> QED BY <2>1, <2>2
<1>2. ASSUME NEW u
      PROVE  [Image!IdleCall EXCEPT !.at = "replaced", !.old = u] =
               [at |-> "replaced", upload |-> Image!None, generation |-> 0, base |-> 0, old |-> u]
  <2>1. PICK k : k = [Image!IdleCall EXCEPT !.at = "replaced", !.old = u] OBVIOUS
  <2>2. k = [at |-> "replaced", upload |-> Image!None, generation |-> 0, base |-> 0, old |-> u]
    BY <2>1 DEF Image!IdleCall
  <2> QED BY <2>1, <2>2
<1>3. ASSUME NEW q \in OwnerCalls, NEW b
      PROVE  [q EXCEPT !.at = "read", !.base = b] =
             [at |-> "read", upload |-> q.upload, generation |-> q.generation, base |-> b,
             old |-> q.old]
  <2>1. PICK k : k = [q EXCEPT !.at = "read", !.base = b] OBVIOUS
  <2>2. k = [at |-> "read", upload |-> q.upload, generation |-> q.generation, base |-> b,
             old |-> q.old]
    BY <2>1 DEF OwnerCalls
  <2> QED BY <2>1, <2>2
<1>4. ASSUME NEW q \in OwnerCalls
      PROVE  [q EXCEPT !.at = "hardened"] =
             [at |-> "hardened", upload |-> q.upload, generation |-> q.generation,
              base |-> q.base,
             old |-> q.old]
  <2>1. PICK k : k = [q EXCEPT !.at = "hardened"] OBVIOUS
  <2>2. k = [at |-> "hardened", upload |-> q.upload, generation |-> q.generation, base |-> q.base,
             old |-> q.old]
    BY <2>1 DEF OwnerCalls
  <2> QED BY <2>1, <2>2
<1>5. ASSUME NEW r \in ImageReservations
      PROVE  [r EXCEPT !.live = FALSE] = [live |-> FALSE, base |-> r.base]
  <2>1. PICK k : k = [r EXCEPT !.live = FALSE] OBVIOUS
  <2>2. k = [live |-> FALSE, base |-> r.base] BY <2>1 DEF ImageReservations
  <2> QED BY <2>1, <2>2
<1>6. ASSUME NEW w \in ImageSweepers, NEW to
      PROVE  [w EXCEPT !.at = to] = [at |-> to, upload |-> w.upload]
  <2>1. PICK k : k = [w EXCEPT !.at = to] OBVIOUS
  <2>2. k = [at |-> to, upload |-> w.upload] BY <2>1 DEF ImageSweepers
  <2> QED BY <2>1, <2>2
<1>7. ASSUME NEW r \in ImageReaders
      PROVE  [r EXCEPT !.at = "signed"] =
             [at |-> "signed", kind |-> r.kind, image |-> r.image, revision |-> r.revision]
  <2>1. PICK k : k = [r EXCEPT !.at = "signed"] OBVIOUS
  <2>2. k = [at |-> "signed", kind |-> r.kind, image |-> r.image, revision |-> r.revision]
    BY <2>1 DEF ImageReaders
  <2> QED BY <2>1, <2>2
<1> QED BY <1>1, <1>2, <1>3, <1>4, <1>5, <1>6, <1>7

LEMMA ImageInit == ASSUME ImageAssumption, Image!Init PROVE ImageInv
<1> USE ImageFacts
<1>1. ImageTyped
  <2>1. reservation \in [Uploads -> ImageReservations] BY DEF Image!Init, ImageReservations
  <2>2. media \in [revision : Image!Revisions, shown : [Image!Kinds -> Image!Images]]
       BY DEF Image!Init
  <2>3. /\ object \in [Uploads -> Image!Generations] /\ uploaded \in Image!Generations
        /\ lease \in [Image!Kinds -> Uploads \cup {Image!None}]
        /\ lapsed \subseteq Uploads /\ finalized \subseteq Uploads
        /\ reserveLedger \subseteq Uploads /\ reservePreflight \subseteq Uploads
        /\ finalPreflight \in [Uploads -> Image!Generations] /\ call \in [Calls -> OwnerCalls]
    BY DEF Image!Init
  <2>4. reserved \in 0..Budget /\ stops \in 0..MaxStops BY DEF Image!Init
  <2>5. worker \in ImageSweepers /\ reader \in ImageReaders BY DEF Image!Init
  <2>6. account \in {"active", "restricted"} /\ audience \in {"shown", "hidden"}
        /\ overtaken \subseteq Uploads
    BY DEF Image!Init
  <2> QED BY <2>1, <2>2, <2>3, <2>4, <2>5, <2>6 DEF ImageTyped
<1>2. ImageRevisions BY FS_EmptySet DEF Image!Init, ImageRevisions
<1>3. ImageSweep /\ ImageReader BY DEF Image!Init, ImageSweep, ImageReader
<1>4. \A u \in Uploads : ImageUpload(u) BY DEF Image!Init, ImageUpload
<1>5. \A k \in Image!Kinds : ImageKind(k) BY DEF Image!Init, ImageKind
<1>6. \A c \in Calls : ImageCall(c) BY DEF Image!Init, ImageCall
<1> QED BY <1>1, <1>2, <1>3, <1>4, <1>5, <1>6 DEF ImageInv

------------------------
\* What a step leaves alone unless it is about a reservation.
ImageDocs == <<media, object, reservation, lease, lapsed, finalized, seen, overtaken>>

\* A step that touches at most calls, sweep, reader, budget and preflights.
LEMMA ImageAside ==
  ASSUME ImageInv, ImageAssumption, UNCHANGED ImageDocs, ImageTyped', ImageSweep', ImageReader',
         \A c \in Calls : call'[c] = call[c] \/ ImageCall(c)'
  PROVE  ImageInv'
<1>1. UNCHANGED <<media, object, reservation, lease, lapsed, finalized, seen, overtaken>>
  BY DEF ImageDocs
<1>2. ImageRevisions' BY <1>1 DEF ImageInv, ImageRevisions
<1>3. \A u \in Uploads : ImageUpload(u)' BY <1>1 DEF ImageInv, ImageUpload
<1>4. \A k \in Image!Kinds : ImageKind(k)' BY <1>1 DEF ImageInv, ImageKind
<1>5. \A c \in Calls : ImageCall(c)'
  BY <1>1 DEF ImageInv, ImageCall, Alive, Image!HoldsSlot
<1> QED BY <1>2, <1>3, <1>4, <1>5 DEF ImageInv

\* The bytes of an upload that can no longer be finalized and that is not shown.
LEMMA ImageGoes ==
  ASSUME ImageInv, ImageAssumption, NEW u \in Uploads, object' = [object EXCEPT ![u] = 0],
         u \in overtaken \/ (~Alive(u) /\ ~Image!Shows(u)),
         UNCHANGED <<media, reservation, lease, lapsed, finalized, seen, overtaken>>,
         ImageTyped', ImageSweep', ImageReader',
         \A c \in Calls : call'[c] = call[c] \/ call'[c].at = "idle"
  PROVE  ImageInv'
<1>1. object'[u] = 0 /\ \A v \in Uploads : v # u => object'[v] = object[v]
  BY DEF ImageInv, ImageTyped
<1>2. ImageRevisions' BY DEF ImageInv, ImageRevisions
<1>3. \A v \in Uploads : ImageUpload(v)' BY <1>1 DEF ImageInv, ImageUpload
<1>4. ASSUME NEW k \in Image!Kinds PROVE ImageKind(k)'
  <2>1. ImageKind(k) /\ finalized \subseteq Uploads BY DEF ImageInv, ImageTyped
  <2>2. media.shown[k] # Image!NoImage => media.shown[k].upload # u \/ u \in overtaken
    BY <2>1 DEF ImageKind, Image!Shows
  <2> QED BY <1>1, <2>1, <2>2 DEF ImageKind
<1>5. ASSUME NEW c \in Calls PROVE ImageCall(c)'
  <2>1. ImageCall(c) BY DEF ImageInv
  <2>2. Alive(call[c].upload) => call[c].upload # u \/ u \in overtaken OBVIOUS
  <2> QED BY <1>1, <2>1, <2>2 DEF ImageCall, Alive, Image!HoldsSlot
<1> QED BY <1>2, <1>3, <1>4, <1>5 DEF ImageInv

LEMMA ImageCallMoves ==
  ASSUME ImageInv, ImageAssumption, NEW c \in Calls, NEW p \in OwnerCalls,
         call' = [call EXCEPT ![c] = p], UNCHANGED ImageDocs,
         UNCHANGED <<account, uploaded, reserved, worker, stops, audience, reader>>,
         reservePreflight' \subseteq Uploads, finalPreflight' \in [Uploads -> Image!Generations],
         reserveLedger' \subseteq Uploads, ImageCall(c)'
  PROVE  ImageInv'
<1>1. call' \in [Calls -> OwnerCalls] /\ \A d \in Calls : d # c => call'[d] = call[d]
  BY DEF ImageInv, ImageTyped
<1>2. ImageTyped' BY <1>1 DEF ImageInv, ImageTyped, ImageDocs
<1>3. ImageSweep' BY DEF ImageInv, ImageSweep, ImageDocs, Alive, Image!HoldsSlot,
          Image!Shows
<1>4. ImageReader' BY DEF ImageInv, ImageReader
<1> QED BY <1>1, <1>2, <1>3, <1>4, ImageAside

LEMMA ImageCalls ==
  ASSUME ImageInv, ImageAssumption, NEW c \in Calls,
         \/ Image!Fails(c) \/ Image!ReadReservation(c) \/ Image!validateStoredProfileMedia(c)
         \/ \E u \in Uploads : Image!beginReserve(c, u) \/ Image!ReserveAgain(c, u)
              \/ Image!beginFinalize(c, u)
  PROVE  ImageInv'
<1> DEFINE Rest == <<account, uploaded, reserved, worker, stops, audience, reader>>
           q == call[c]
<1>1. /\ call \in [Calls -> OwnerCalls] /\ q \in OwnerCalls /\ ImageCall(c)
      /\ reservePreflight \subseteq Uploads /\ finalPreflight \in [Uploads -> Image!Generations]
      /\ object \in [Uploads -> Image!Generations] /\ reserveLedger \subseteq Uploads
  BY DEF ImageInv, ImageTyped
<1>2. CASE Image!Fails(c)
  <2>1. call' = [call EXCEPT ![c] = Image!IdleCall] /\ UNCHANGED ImageDocs /\ UNCHANGED Rest
        /\ UNCHANGED <<reservePreflight, finalPreflight, reserveLedger>>
    BY <1>2
       DEF Image!Fails, Image!Ends, ImageDocs, Image!history, Image!storage, Image!owner, Image!ledgers,
           Image!reading, Image!history
  <2>2. ImageCall(c)' BY <1>1, <2>1, ImageFacts DEF ImageCall
  <2> QED BY <1>1, <2>1, <2>2, ImageFacts, ImageCallMoves
<1>3. CASE Image!ReadReservation(c)
  <2> DEFINE p == [at |-> "read", upload |-> q.upload, generation |-> q.generation,
                   base |-> reservation[q.upload].base, old |-> q.old]
  <2>1. /\ q.at = "finalize" /\ UNCHANGED ImageDocs /\ UNCHANGED Rest
        /\ call' = [call EXCEPT ![c].at = "read", ![c].base = reservation[q.upload].base]
        /\ UNCHANGED <<reservePreflight, finalPreflight, reserveLedger>>
    BY <1>3
       DEF Image!ReadReservation, ImageDocs, Image!history, Image!storage, Image!owner, Image!ledgers,
           Image!reading, Image!history
  <2>2. q.upload \in Uploads /\ q.generation # 0
    BY <1>1, <2>1 DEF ImageCall
  <2>3. reservation[q.upload].base \in Image!Revisions
    BY <2>2 DEF ImageInv, ImageTyped, ImageReservations
  <2>4. p \in OwnerCalls BY <1>1, <2>3 DEF OwnerCalls
  <2>5. call' = [call EXCEPT ![c] = [q EXCEPT !.at = "read", !.base = reservation[q.upload].base]]
    BY <2>1
  <2>6. [q EXCEPT !.at = "read", !.base = reservation[q.upload].base] = p
    BY <1>1, ImageRecords
  <2>7. call' = [call EXCEPT ![c] = p] /\ call'[c] = p BY <1>1, <2>5, <2>6
  <2>8. ImageCall(c)' BY <2>1, <2>2, <2>7 DEF ImageCall, ImageDocs
  <2> HIDE DEF p
  <2> QED BY <1>1, <2>1, <2>4, <2>7, <2>8, ImageCallMoves
<1>4. CASE Image!validateStoredProfileMedia(c)
  <2> DEFINE p == [at |-> "hardened", upload |-> q.upload, generation |-> q.generation,
                   base |-> q.base, old |-> q.old]
  <2>1. /\ q.at = "read" /\ object[q.upload] = q.generation /\ UNCHANGED ImageDocs
        /\ UNCHANGED Rest
        /\ call' = [call EXCEPT ![c] = [q EXCEPT !.at = "hardened"]]
        /\ UNCHANGED <<reservePreflight, finalPreflight, reserveLedger>>
    BY <1>4
       DEF Image!validateStoredProfileMedia, Image!Goes, ImageDocs, Image!history, Image!storage, Image!owner,
           Image!ledgers, Image!reading
  <2>2. q.upload \in Uploads /\ q.generation # 0
    BY <1>1, <2>1 DEF ImageCall
  <2>3. p \in OwnerCalls /\ [q EXCEPT !.at = "hardened"] = p BY <1>1, ImageRecords DEF OwnerCalls
  <2>4. call' = [call EXCEPT ![c] = p] /\ call'[c] = p BY <1>1, <2>1, <2>3
  <2>5. ImageCall(c)' BY <2>1, <2>2, <2>4 DEF ImageCall, ImageDocs
  <2> HIDE DEF p
  <2> QED BY <1>1, <2>1, <2>3, <2>4, <2>5, ImageCallMoves
<1>5. ASSUME NEW u \in Uploads, Image!beginReserve(c, u) PROVE ImageInv'
  <2> DEFINE p == [at |-> "reserve", upload |-> u, generation |-> 0, base |-> 0,
                   old |-> Image!None]
  <2>1. /\ call' = [call EXCEPT ![c] = p] /\ UNCHANGED Rest
        /\ reservePreflight' = reservePreflight \cup {u} /\ UNCHANGED finalPreflight
        /\ reserveLedger' = reserveLedger \ {x \in {u} : x \in lapsed}
        /\ UNCHANGED <<media, object, reservation, lease, lapsed, finalized, seen, overtaken>>
    BY <1>5, ImageRecords
       DEF Image!beginReserve, Image!storage, Image!owner, Image!reading, Image!history
  <2>2. UNCHANGED ImageDocs BY <2>1 DEF ImageDocs
  <2>3. p \in OwnerCalls /\ call'[c] = p BY <1>1, <2>1, ImageFacts DEF OwnerCalls
  <2>4. ImageCall(c)' BY <2>3 DEF ImageCall
  <2>5. reservePreflight' \subseteq Uploads /\ reserveLedger' \subseteq Uploads BY <1>1, <2>1
  <2> HIDE DEF p
  <2> QED BY <1>1, <2>1, <2>2, <2>3, <2>4, <2>5, ImageCallMoves
<1>6. ASSUME NEW u \in Uploads, Image!ReserveAgain(c, u) PROVE ImageInv'
  <2>1. /\ call' = [call EXCEPT ![c] = Image!IdleCall] /\ UNCHANGED ImageDocs /\ UNCHANGED Rest
        /\ reserveLedger' = reserveLedger \cup {u} /\ reservePreflight' = reservePreflight \ {u}
        /\ UNCHANGED finalPreflight
    BY <1>6
       DEF Image!ReserveAgain, Image!Answered, Image!Ends, ImageDocs, Image!history, Image!storage, Image!owner,
           Image!reading, Image!history
  <2>2. ImageCall(c)' BY <1>1, <2>1, ImageFacts DEF ImageCall
  <2>3. reserveLedger' \subseteq Uploads /\ reservePreflight' \subseteq Uploads BY <1>1, <2>1
  <2> QED BY <1>1, <2>1, <2>2, <2>3, ImageFacts, ImageCallMoves
<1>7. ASSUME NEW u \in Uploads, Image!beginFinalize(c, u) PROVE ImageInv'
  <2>1. PICK g : g = object[u] OBVIOUS
  <2> DEFINE p == [at |-> "finalize", upload |-> u, generation |-> g, base |-> 0,
                   old |-> Image!None]
  <2>2. /\ g # 0 /\ UNCHANGED ImageDocs /\ UNCHANGED Rest
        /\ UNCHANGED <<reservePreflight, reserveLedger>>
        /\ finalPreflight' = [finalPreflight EXCEPT ![u] = g]
        /\ call' = [call EXCEPT ![c] = [Image!IdleCall EXCEPT !.at = "finalize", !.upload = u,
                                                        !.generation = g]]
    BY <1>7, <2>1
       DEF Image!beginFinalize, Image!storage, Image!owner, Image!reading, Image!history,
           ImageDocs
  <2>3. call' = [call EXCEPT ![c] = p]
    <3>1. PICK r : r = [Image!IdleCall EXCEPT !.at = "finalize", !.upload = u, !.generation = g]
      OBVIOUS
    <3>2. r = p BY <3>1 DEF Image!IdleCall
    <3> QED BY <2>2, <3>1, <3>2
  <2>4. p \in OwnerCalls /\ call'[c] = p BY <1>1, <2>1, <2>3, ImageFacts DEF OwnerCalls
  <2>6. ImageCall(c)' BY <2>2, <2>4 DEF ImageCall, ImageDocs
  <2>7. finalPreflight' \in [Uploads -> Image!Generations] BY <1>1, <2>1, <2>2
  <2> HIDE DEF p
  <2> QED BY <1>1, <2>2, <2>3, <2>4, <2>6, <2>7, ImageCallMoves
<1> QED BY <1>2, <1>3, <1>4, <1>5, <1>6, <1>7

\* An upload that is reserved again under work of its past is overtaken.
LEMMA ImageReserves ==
  ASSUME ImageInv, ImageAssumption, NEW c \in Calls, NEW u \in Uploads,
       Image!reserveProfileMediaUpload(c, u)
  PROVE  ImageInv'
<1> DEFINE k == KindOf[u]
<1>0. PICK prior : prior = lease[k] OBVIOUS
<1>1. /\ u \notin reserveLedger /\ u \notin finalized /\ ~reservation[u].live
      /\ (prior = Image!None \/ prior \in lapsed) /\ reserved < Budget
      /\ reservation' = [v \in Uploads |->
           IF v = u THEN [live |-> TRUE, base |-> media.revision]
           ELSE IF v = prior THEN [reservation[v] EXCEPT !.live = FALSE] ELSE reservation[v]]
      /\ lease' = [lease EXCEPT ![k] = u] /\ lapsed' = lapsed \ {u} /\ reserved' = reserved + 1
      /\ seen' = [seen EXCEPT ![u] = media.shown]
      /\ overtaken' = overtaken \cup {v \in {u} : Image!PastUnderWay(v)}
      /\ call[c].at = "reserve"
      /\ reserveLedger' = reserveLedger \cup {u}
      /\ reservePreflight' = reservePreflight \ {u} /\ UNCHANGED finalPreflight
      /\ call' = [call EXCEPT ![c] = IF prior = Image!None THEN Image!IdleCall
                                     ELSE [Image!IdleCall EXCEPT !.at = "replaced",
                                           !.old = prior]]
      /\ UNCHANGED <<account, media, object, uploaded, finalized, worker, stops, audience,
                     reader>>
  BY <1>0
     DEF Image!reserveProfileMediaUpload, Image!AdmitsReserve, Image!NeverFinalized,
         Image!LeaseFree, Image!BudgetLeft, Image!Answered, Image!storage, Image!reading
<1>2. ImageTyped /\ k \in Image!Kinds /\ prior \in Uploads \cup {Image!None} /\ ImageUpload(u)
  BY <1>0, <1>1, ImageFacts DEF ImageInv, ImageTyped
<1>3. prior # u BY <1>0, <1>1, <1>2 DEF ImageUpload
<1>4. prior # Image!None => /\ KindOf[prior] = k /\ reservation[prior].live /\ prior \in lapsed
                      /\ prior \in Uploads \ finalized /\ prior # u
  <2>1. prior # Image!None => KindOf[prior] = k BY <1>0, <1>2 DEF ImageInv, ImageKind
  <2> QED BY <1>0, <1>1, <1>2, <1>3, <2>1 DEF ImageInv, ImageUpload
<1>5. /\ reservation'[u] = [live |-> TRUE, base |-> media.revision]
      /\ \A v \in Uploads : v # u /\ v # prior => reservation'[v] = reservation[v]
      /\ \A v \in Uploads : v # u => reservation'[v].base = reservation[v].base
      /\ prior # Image!None => ~reservation'[prior].live
      /\ reservation' \in [Uploads -> ImageReservations]
  <2>1. media.revision \in Image!Revisions /\ reservation \in [Uploads -> ImageReservations]
    BY <1>2 DEF ImageTyped
  <2>2. \A v \in Uploads : [reservation[v] EXCEPT !.live = FALSE] =
                             [live |-> FALSE, base |-> reservation[v].base]
    BY <2>1, ImageRecords
  <2>3. \A v \in Uploads : v # u /\ v # prior => reservation'[v] = reservation[v] BY <1>1
  <2>4. reservation'[u] = [live |-> TRUE, base |-> media.revision] BY <1>1
  <2>5. prior # Image!None
            => reservation'[prior] = [live |-> FALSE, base |-> reservation[prior].base]
    BY <1>1, <1>4, <2>2
  <2>6. ASSUME NEW v \in Uploads PROVE reservation'[v] \in ImageReservations
    <3>1. reservation[v] \in ImageReservations BY <2>1
    <3>2. [live |-> TRUE, base |-> media.revision] \in ImageReservations
      BY <2>1 DEF ImageReservations
    <3>3. [live |-> FALSE, base |-> reservation[v].base] \in ImageReservations
      BY <3>1 DEF ImageReservations
    <3>4. v = u \/ (v = prior /\ prior # Image!None) \/ (v # u /\ v # prior) BY ImageFacts
    <3> QED BY <2>3, <2>4, <2>5, <3>1, <3>2, <3>3, <3>4
  <2>7. reservation' \in [Uploads -> ImageReservations] BY <1>1, <2>6
  <2> QED BY <1>2, <2>3, <2>4, <2>5, <2>7, ImageFacts
<1>6. lease'[k] = u /\ \A j \in Image!Kinds : j # k => lease'[j] = lease[j]
  BY <1>1, <1>2 DEF ImageTyped
<1>7. /\ call' \in [Calls -> OwnerCalls] /\ \A d \in Calls : d # c => call'[d] = call[d]
      /\ \/ call'[c] = Image!IdleCall
         \/ prior # Image!None /\ call'[c].at = "replaced" /\ call'[c].old = prior
  <2> DEFINE p == [at |-> "replaced", upload |-> Image!None, generation |-> 0, base |-> 0,
                   old |-> prior]
  <2>1. [Image!IdleCall EXCEPT !.at = "replaced", !.old = prior] = p BY ImageRecords
  <2>2. prior # Image!None => p \in OwnerCalls BY <1>2, ImageFacts DEF OwnerCalls
  <2>3. \/ call' = [call EXCEPT ![c] = Image!IdleCall]
        \/ prior # Image!None /\ call' = [call EXCEPT ![c] = p]
    BY <1>1, <2>1
  <2> QED BY <1>2, <2>2, <2>3, ImageFacts DEF ImageTyped
<1>8. ImageTyped'
  <2>1. reserved' \in 0..Budget BY <1>1, <1>2, ImageFacts DEF ImageTyped
  <2>2. lease' \in [Image!Kinds -> Uploads \cup {Image!None}] BY <1>1, <1>2 DEF ImageTyped
  <2> QED BY <1>1, <1>2, <1>5, <1>7, <2>1, <2>2 DEF ImageTyped
<1>9. ImageRevisions'
  <2>1. media.shown \in [Image!Kinds -> Image!Images] BY <1>2 DEF ImageTyped
  <2> QED BY <1>1, <2>1 DEF ImageInv, ImageRevisions
\* Only the upload itself comes to life, and under work of its past it is overtaken.
<1>10. /\ \A v \in Uploads : v # u => (Alive(v)' => Alive(v))
       /\ Image!PastUnderWay(u) => u \in overtaken'
  <2>1. ASSUME NEW v \in Uploads, v # u PROVE Alive(v)' => Alive(v)
    <3>1. KindOf[v] \in Image!Kinds BY ImageFacts
    <3>2. lease'[KindOf[v]] = v => lease[KindOf[v]] = v BY <1>6, <2>1, <3>1
    <3>3. lease'[KindOf[v]] = v => v # prior BY <1>4, <1>6, <2>1, <3>1, ImageFacts
    <3> QED BY <1>1, <1>5, <2>1, <3>2, <3>3 DEF Alive, Image!HoldsSlot
  <2> QED BY <1>1, <2>1
<1>11. ASSUME NEW v \in Uploads PROVE ImageUpload(v)'
  <2>1. ImageUpload(v) /\ KindOf[v] \in Image!Kinds BY ImageFacts DEF ImageInv
  <2>2. CASE v = u
    BY <1>1, <1>3, <1>5, <1>6, <2>2, ImageFacts
       DEF ImageUpload, ImageInv, ImageRevisions, ImageTyped
  <2>3. CASE v # u
    <3>1. seen'[v] = seen[v] BY <1>1, <2>3 DEF ImageInv, ImageRevisions
    <3>2. CASE v = prior
      <4>1. ~reservation'[v].live /\ lease'[KindOf[v]] # v
        BY <1>4, <1>5, <1>6, <2>3, <3>2, ImageFacts
      <4> QED BY <1>1, <1>4, <3>2, <4>1, ImageFacts DEF ImageUpload
    <3>3. CASE v # prior
      <4>1. reservation'[v] = reservation[v] BY <1>5, <2>3, <3>3
      <4>2. lease'[KindOf[v]] = v <=> lease[KindOf[v]] = v BY <1>0, <1>6, <2>1, <2>3, <3>3
      <4> QED BY <1>1, <2>1, <3>1, <4>1, <4>2 DEF ImageUpload
    <3> QED BY <3>2, <3>3
  <2> QED BY <2>2, <2>3
<1>12. \A j \in Image!Kinds : ImageKind(j)' BY <1>1, <1>6 DEF ImageInv, ImageKind
<1>13. ASSUME NEW d \in Calls PROVE ImageCall(d)'
  <2>1. CASE d # c
    <3>1. ImageCall(d) /\ call'[d] = call[d] BY <1>7, <2>1 DEF ImageInv
    <3>2. call[d].at = "replaced" => /\ call[d].old \in Uploads
                                     /\ call[d].old = u => u \in overtaken'
      BY <1>10, <3>1 DEF Image!PastUnderWay, ImageCall
    <3>3. call[d].at = "hardened" => /\ call[d].upload \in Uploads
                                     /\ call[d].upload = u => u \in overtaken'
      BY <1>10, <3>1 DEF Image!PastUnderWay, ImageCall
    <3>4. PICK j : j = call[d] OBVIOUS
    <3>5. /\ j.at = "replaced" => \/ j.old \in overtaken'
                                  \/ j.old \notin finalized' /\ ~Alive(j.old)'
          /\ j.at = "hardened" /\ Alive(j.upload)' =>
               j.upload \in overtaken' \/ object'[j.upload] = j.generation
      <4>1. overtaken \subseteq overtaken' BY <1>1
      <4> QED BY <1>1, <1>10, <3>1, <3>2, <3>3, <3>4, <4>1 DEF ImageCall
    <3> QED BY <3>1, <3>4, <3>5 DEF ImageCall
  <2>2. CASE d = c
    <3>1. prior # Image!None => ~Alive(prior)' BY <1>4, <1>10, <1>1 DEF Alive
    <3> QED BY <1>1, <1>4, <1>7, <2>2, <3>1, ImageFacts DEF ImageCall
  <2> QED BY <2>1, <2>2
<1>14. ImageSweep'
  <2>1. ImageSweep BY DEF ImageInv
  <2>2. worker.at # "idle" /\ worker.upload = u => u \in overtaken'
    BY <1>10 DEF Image!PastUnderWay
  <2> QED BY <1>1, <1>10, <2>1, <2>2 DEF ImageSweep, Image!Shows
<1>15. ImageReader' BY <1>1 DEF ImageInv, ImageReader
<1> QED BY <1>8, <1>9, <1>11, <1>12, <1>13, <1>14, <1>15 DEF ImageInv

\* Only what its owner saw when reserving is replaced.
LEMMA ImageFinalizes ==
  ASSUME ImageInv, ImageAssumption, NEW c \in Calls, Image!finalizeProfileMediaUpload(c)
  PROVE  /\ ImageInv'
         /\ \A k \in Image!Kinds : media'.shown[k] # media.shown[k] =>
              seen[media'.shown[k].upload] = media.shown
<1>1. PICK u, g, k : u = call[c].upload /\ g = call[c].generation /\ k = KindOf[u] OBVIOUS
<1>2. /\ call[c].at = "hardened" /\ u \notin finalized /\ Alive(u)
      /\ media.revision = reservation[u].base
      /\ media' = [revision |-> media.revision + 1,
                   shown |-> [media.shown EXCEPT ![k] = [upload |-> u, generation |-> g]]]
      /\ finalized' = finalized \cup {u}
      /\ reservation' = [reservation EXCEPT ![u].live = FALSE]
      /\ lease' = [lease EXCEPT ![k] = Image!None]
      /\ finalPreflight' = [finalPreflight EXCEPT ![u] = 0]
      /\ reserveLedger' = reserveLedger \ {u} /\ reservePreflight' = reservePreflight \ {u}
      /\ call' = [call EXCEPT ![c] = Image!IdleCall]
      /\ UNCHANGED <<account, object, uploaded, lapsed, reserved, worker, stops, audience, reader,
                     seen, overtaken>>
  BY <1>1
     DEF Image!finalizeProfileMediaUpload, Image!NeverFinalized, Image!BaseIsCurrent,
         Image!Ends, Image!storage, Image!reading, Image!history, Alive
<1>3. ImageTyped /\ ImageCall(c) BY DEF ImageInv
<1>4. /\ u \in Uploads /\ k \in Image!Kinds /\ g # 0 /\ (u \in overtaken \/ object[u] = g)
      /\ g \in Image!Generations /\ lease[k] = u /\ reservation[u].live
  <2>1. u \in Uploads /\ g # 0 /\ (u \in overtaken \/ object[u] = g)
    <3>1. Alive(call[c].upload) BY <1>1, <1>2
    <3>2. call[c].at = "hardened" BY <1>2
    <3>3. call[c].upload \in Uploads /\ call[c].generation # 0
      BY <1>3, <3>2 DEF ImageCall
    <3>4. call[c].upload \in overtaken \/ object[call[c].upload] = call[c].generation
      BY <1>3, <3>1, <3>2 DEF ImageCall
    <3> QED BY <1>1, <3>3, <3>4
  <2>2. g \in Image!Generations BY <1>1, <1>3 DEF ImageTyped, OwnerCalls
  <2> QED BY <1>1, <1>2, <1>3, <2>1, <2>2, ImageFacts DEF ImageTyped, Alive, Image!HoldsSlot
<1>5. /\ reservation' \in [Uploads -> ImageReservations]
      /\ ~reservation'[u].live /\ \A v \in Uploads : v # u => reservation'[v] = reservation[v]
  <2>1. reservation[u] \in ImageReservations BY <1>3, <1>4 DEF ImageTyped
  <2>2. reservation' = [reservation EXCEPT ![u] = [live |-> FALSE, base |-> reservation[u].base]]
    BY <1>2, <2>1, ImageRecords
  <2> QED BY <1>3, <1>4, <2>1, <2>2 DEF ImageTyped, ImageReservations
<1>6. lease'[k] = Image!None /\ \A j \in Image!Kinds : j # k => lease'[j] = lease[j]
  BY <1>2, <1>3, <1>4 DEF ImageTyped
<1>7. /\ call' \in [Calls -> OwnerCalls] /\ call'[c] = Image!IdleCall
      /\ \A d \in Calls : d # c => call'[d] = call[d]
  BY <1>2, <1>3, ImageFacts DEF ImageTyped
<1>8. /\ Cardinality(finalized') = Cardinality(finalized) + 1
      /\ Cardinality(finalized') \in Image!Revisions
  <2>1. IsFiniteSet(Uploads) BY
      DEF ImageAssumption, Image!ProfileMediaAssumption, Image!IsFiniteSet, IsFiniteSet
  <2>2. finalized \subseteq Uploads /\ finalized' \subseteq Uploads
       BY <1>2, <1>3, <1>4 DEF ImageTyped
  <2>3. IsFiniteSet(finalized) BY <2>1, <2>2, FS_Subset
  <2>4. Cardinality(finalized') = Cardinality(finalized) + 1 BY <1>2, <2>3, FS_AddElement
  <2>5. /\ Cardinality(finalized') <= Cardinality(Uploads) /\ IsFiniteSet(finalized')
    BY <2>1, <2>2, FS_Subset
  <2>6. Cardinality(finalized') \in Nat /\ Cardinality(Uploads) \in Nat
    BY <2>1, <2>5, FS_CardinalityType
  <2> QED BY <2>4, <2>5, <2>6 DEF Image!Revisions, Image!Cardinality, Cardinality
<1>9. /\ media'.revision = media.revision + 1 /\ media'.revision \in Image!Revisions
      /\ media'.shown \in [Image!Kinds -> Image!Images]
      /\ media'.shown[k] = [upload |-> u, generation |-> g]
      /\ \A j \in Image!Kinds : j # k => media'.shown[j] = media.shown[j]
  <2>1. [upload |-> u, generation |-> g] \in Image!Images BY <1>4 DEF Image!Images
  <2> QED BY <1>2, <1>3, <1>4, <1>8, <2>1 DEF ImageTyped, ImageInv, ImageRevisions
<1>10. ImageTyped'
  <2>1. media' \in [revision : Image!Revisions, shown : [Image!Kinds -> Image!Images]]
       BY <1>2, <1>9
  <2>2. finalPreflight' \in [Uploads -> Image!Generations]
       BY <1>2, <1>3, ImageFacts DEF ImageTyped
  <2>3. lease' \in [Image!Kinds -> Uploads \cup {Image!None}] BY <1>2, <1>3 DEF ImageTyped
  <2> QED BY <1>2, <1>3, <1>4, <1>5, <1>7, <2>1, <2>2, <2>3 DEF ImageTyped
<1>11. ImageRevisions' BY <1>2, <1>8, <1>9 DEF ImageInv, ImageRevisions
<1>12. \A v \in Uploads : Alive(v)' => Alive(v) /\ v # u
  <2> SUFFICES ASSUME NEW v \in Uploads PROVE Alive(v)' => Alive(v) /\ v # u OBVIOUS
  <2>1. KindOf[v] \in Image!Kinds BY ImageFacts
  <2>2. lease'[KindOf[v]] = v => lease[KindOf[v]] = v BY <1>6, <2>1, ImageFacts
  <2> QED BY <1>2, <1>5, <2>2 DEF Alive, Image!HoldsSlot
<1>13. ASSUME NEW v \in Uploads PROVE ImageUpload(v)'
  <2>1. ImageUpload(v) /\ KindOf[v] \in Image!Kinds BY ImageFacts DEF ImageInv
  <2>2. CASE v = u
    <3>1. lease'[KindOf[v]] # v /\ ~reservation'[v].live
         BY <1>1, <1>4, <1>5, <1>6, <2>2, ImageFacts
    <3> QED BY <1>2, <1>4, <2>2, <3>1 DEF ImageUpload
  <2>3. CASE v # u
    <3>1. lease'[KindOf[v]] = v <=> lease[KindOf[v]] = v
      BY <1>4, <1>6, <2>1, <2>3, ImageFacts
    <3>2. media.revision \in Nat /\ reservation[v].base \in Nat
      BY <1>3, ImageFacts DEF ImageTyped, ImageReservations
    <3> QED BY <1>2, <1>5, <1>9, <2>1, <2>3, <3>1, <3>2 DEF ImageUpload
  <2> QED BY <2>2, <2>3
<1>14. ASSUME NEW j \in Image!Kinds PROVE ImageKind(j)'
  <2>1. ImageKind(j) BY DEF ImageInv
  <2>2. CASE j = k BY <1>1, <1>2, <1>4, <1>6, <1>9, <2>2 DEF ImageKind
  <2>3. CASE j # k BY <1>2, <1>6, <1>9, <2>1, <2>3 DEF ImageKind
  <2> QED BY <2>2, <2>3
<1>15. ASSUME NEW d \in Calls PROVE ImageCall(d)'
  <2>1. CASE d = c BY <1>7, <2>1, ImageFacts DEF ImageCall
  <2>2. CASE d # c
    <3>1. ImageCall(d) BY DEF ImageInv
    <3>2. call[d].at = "replaced" => call[d].old # u \/ u \in overtaken
      BY <1>2, <3>1 DEF ImageCall
    <3> QED BY <1>2, <1>7, <1>12, <2>2, <3>1, <3>2 DEF ImageCall
  <2> QED BY <2>1, <2>2
<1>16. ImageSweep'
  <2>1. ImageSweep /\ \A v \in Uploads : KindOf[v] \in Image!Kinds BY ImageFacts DEF ImageInv
  <2>2. worker.at \in {"expired", "orphan", "unshown again", "delete"} =>
          worker.upload # u \/ u \in overtaken
    BY <1>2, <2>1 DEF ImageSweep
  <2>3. \A v \in Uploads : v # u => (Image!Shows(v)' => Image!Shows(v))
       BY <1>9, <2>1 DEF Image!Shows
  <2> QED BY <1>2, <1>12, <2>1, <2>2, <2>3 DEF ImageSweep
<1>17. ImageReader' BY <1>2 DEF ImageInv, ImageReader
<1>18. \A j \in Image!Kinds : media'.shown[j] # media.shown[j] =>
         seen[media'.shown[j].upload] = media.shown
  <2>1. seen[u] = media.shown BY <1>2, <1>4 DEF ImageInv, ImageUpload
  <2> QED BY <1>9, <2>1
<1> QED BY <1>10, <1>11, <1>13, <1>14, <1>15, <1>16, <1>17, <1>18 DEF ImageInv

LEMMA ImageBytesCome ==
  ASSUME ImageInv, ImageAssumption, NEW u \in Uploads, Image!Upload(u) \/ Image!Lapse(u)
  PROVE ImageInv'
<1>1. ImageTyped /\ ImageUpload(u) BY DEF ImageInv
<1>2. CASE Image!Upload(u)
  <2>1. /\ object[u] = 0 /\ reservation[u].live /\ uploaded < Budget
        /\ uploaded' = uploaded + 1 /\ object' = [object EXCEPT ![u] = uploaded + 1]
        /\ UNCHANGED <<account, media, reservation, lease, lapsed, reserved, finalized,
                       reserveLedger, reservePreflight, finalPreflight, call, worker, stops,
                       audience, reader, seen, overtaken>>
    BY <1>2 DEF Image!Upload, Image!owner, Image!ledgers, Image!reading, Image!history
  <2>2. uploaded' \in Image!Generations
       BY <1>1, <2>1, ImageFacts DEF ImageTyped, Image!Generations
  <2>3. /\ object' \in [Uploads -> Image!Generations]
        /\ \A v \in Uploads : object[v] # 0 => object'[v] = object[v]
        /\ \A v \in Uploads : v # u => object'[v] = object[v]
    BY <1>1, <2>1, <2>2 DEF ImageTyped
  <2>4. ImageTyped' BY <1>1, <2>1, <2>2, <2>3 DEF ImageTyped
  <2>5. ImageRevisions' BY <2>1 DEF ImageInv, ImageRevisions
  <2>6. \A v \in Uploads : ImageUpload(v)' BY <2>1, <2>3 DEF ImageInv, ImageUpload
  <2>7. \A k \in Image!Kinds : ImageKind(k)'
       BY <1>1, <2>1, <2>3 DEF ImageInv, ImageKind, ImageTyped
  <2>8. \A c \in Calls : ImageCall(c)'
    BY <2>1, <2>3 DEF ImageInv, ImageCall, Alive, Image!HoldsSlot
  <2>9. ImageSweep' /\ ImageReader'
    BY <2>1 DEF ImageInv, ImageSweep, ImageReader, Alive, Image!HoldsSlot, Image!Shows
  <2> QED BY <2>4, <2>5, <2>6, <2>7, <2>8, <2>9 DEF ImageInv
<1>3. CASE Image!Lapse(u)
  <2>1. /\ reservation[u].live /\ lapsed' = lapsed \cup {u}
        /\ UNCHANGED <<account, media, object, uploaded, reservation, lease, reserved, finalized,
                       reserveLedger, reservePreflight, finalPreflight, call, worker, stops,
                       audience, reader, seen, overtaken>>
    BY <1>3 DEF Image!Lapse, Image!storage, Image!ledgers, Image!reading, Image!history
  <2>2. ImageTyped' BY <1>1, <2>1 DEF ImageTyped
  <2>3. ImageRevisions' BY <2>1 DEF ImageInv, ImageRevisions
  <2>4. \A v \in Uploads : ImageUpload(v)' BY <1>1, <2>1 DEF ImageInv, ImageUpload
  <2>5. \A k \in Image!Kinds : ImageKind(k)' BY <2>1 DEF ImageInv, ImageKind
  <2>6. \A c \in Calls : ImageCall(c)'
       BY <2>1 DEF ImageInv, ImageCall, Alive, Image!HoldsSlot
  <2>7. ImageSweep' /\ ImageReader'
    BY <2>1 DEF ImageInv, ImageSweep, ImageReader, Alive, Image!HoldsSlot, Image!Shows
  <2> QED BY <2>2, <2>3, <2>4, <2>5, <2>6, <2>7 DEF ImageInv
<1> QED BY <1>2, <1>3

\* The reservation whose lease has run out ends.
LEMMA ImageLeaseEnds ==
  ASSUME ImageInv, ImageAssumption, NEW u \in Uploads, Image!cleanupExpiredLease(u) PROVE ImageInv'
<1>1. PICK k : k = KindOf[u] OBVIOUS
<1>2. /\ lease[k] = u /\ u \in lapsed /\ k \in Image!Kinds
      /\ reservation' = [reservation EXCEPT ![u].live = FALSE]
      /\ lease' = [lease EXCEPT ![k] = Image!None]
      /\ worker' = Image!IdleWorker \/ worker' = [at |-> "expired", upload |-> u]
      /\ UNCHANGED <<account, media, object, uploaded, lapsed, reserved, finalized, reserveLedger,
                     reservePreflight, finalPreflight, call, stops, audience, reader, seen,
                     overtaken>>
  BY <1>1, ImageFacts
     DEF Image!cleanupExpiredLease, Image!storage, Image!ledgers, Image!reading, Image!history
<1>3. ImageTyped /\ ImageUpload(u) BY DEF ImageInv
<1>4. u \notin finalized /\ reservation[u].live BY <1>1, <1>2, <1>3 DEF ImageUpload
<1>5. /\ reservation' \in [Uploads -> ImageReservations]
      /\ ~reservation'[u].live /\ \A v \in Uploads : v # u => reservation'[v] = reservation[v]
  <2>1. reservation[u] \in ImageReservations BY <1>3 DEF ImageTyped
  <2>2. reservation' = [reservation EXCEPT ![u] = [live |-> FALSE, base |-> reservation[u].base]]
    BY <1>2, <2>1, ImageRecords
  <2> QED BY <1>3, <2>1, <2>2 DEF ImageTyped, ImageReservations
<1>6. lease'[k] = Image!None /\ \A j \in Image!Kinds : j # k => lease'[j] = lease[j]
  BY <1>2, <1>3 DEF ImageTyped
<1>7. ImageTyped'
  <2>1. worker' \in ImageSweepers
    <3>1. [at |-> "expired", upload |-> u] \in ImageSweepers BY DEF ImageSweepers
    <3> QED BY <1>2, <3>1, ImageFacts
  <2>2. lease' \in [Image!Kinds -> Uploads \cup {Image!None}] BY <1>2, <1>3 DEF ImageTyped
  <2> QED BY <1>2, <1>3, <1>5, <2>1, <2>2 DEF ImageTyped
<1>8. \A v \in Uploads : Alive(v)' => Alive(v) /\ v # u
  <2> SUFFICES ASSUME NEW v \in Uploads PROVE Alive(v)' => Alive(v) /\ v # u OBVIOUS
  <2>1. KindOf[v] \in Image!Kinds BY ImageFacts
  <2>2. lease'[KindOf[v]] = v => lease[KindOf[v]] = v BY <1>6, <2>1, ImageFacts
  <2> QED BY <1>2, <1>5, <2>2 DEF Alive, Image!HoldsSlot
<1>9. ASSUME NEW v \in Uploads PROVE ImageUpload(v)'
  <2>1. ImageUpload(v) /\ KindOf[v] \in Image!Kinds BY ImageFacts DEF ImageInv
  <2>2. CASE v = u
    <3>1. lease'[KindOf[v]] # v /\ ~reservation'[v].live BY <1>1, <1>5, <1>6, <2>2, ImageFacts
    <3> QED BY <1>2, <1>4, <2>2, <3>1 DEF ImageUpload
  <2>3. CASE v # u
    <3>1. lease'[KindOf[v]] = v <=> lease[KindOf[v]] = v
      BY <1>2, <1>6, <2>1, <2>3, ImageFacts
    <3> QED BY <1>2, <1>5, <2>1, <2>3, <3>1 DEF ImageUpload
  <2> QED BY <2>2, <2>3
<1>10. \A j \in Image!Kinds : ImageKind(j)' BY <1>2, <1>6 DEF ImageInv, ImageKind
<1>11. ASSUME NEW c \in Calls PROVE ImageCall(c)'
  <2>1. ImageCall(c) BY DEF ImageInv
  <2> QED BY <1>2, <1>8, <2>1 DEF ImageCall
<1>12. ImageSweep'
  <2>1. CASE worker' = Image!IdleWorker BY <2>1, ImageFacts DEF ImageSweep
  <2>2. CASE worker' = [at |-> "expired", upload |-> u]
    <3>1. worker'.at = "expired" /\ worker'.upload = u BY <2>2
    <3>2. ~Alive(u)' BY <1>8
    <3> QED BY <1>2, <1>4, <3>1, <3>2 DEF ImageSweep, Alive, Image!HoldsSlot
  <2> QED BY <1>2, <2>1, <2>2
<1>13. ImageRevisions' /\ ImageReader' BY <1>2 DEF ImageInv, ImageRevisions, ImageReader
<1> QED BY <1>7, <1>9, <1>10, <1>11, <1>12, <1>13 DEF ImageInv

LEMMA ImageSweeps ==
  ASSUME ImageInv, ImageAssumption,
         \/ \E u \in Uploads : Image!inventoryProfileMediaObjects(u)
         \/ Image!AskSteps \/ Image!DeleteObject \/ Image!SweepStops
  PROVE  ImageInv'
<1> DEFINE Rest == <<account, uploaded, reserved, reserveLedger, reservePreflight,
                     finalPreflight, call, audience, reader>>
<1>1. ImageTyped /\ ImageSweep BY DEF ImageInv
<1>2. ASSUME NEW w \in ImageSweepers, worker' = w, UNCHANGED ImageDocs, UNCHANGED Rest,
          stops' \in 0..MaxStops,
             ImageSweep'
      PROVE  ImageInv'
  <2>1. ImageTyped' BY <1>1, <1>2 DEF ImageTyped, ImageDocs
  <2>2. ImageReader' BY <1>2 DEF ImageInv, ImageReader
  <2> QED BY <1>2, <2>1, <2>2, ImageAside
<1>3. ASSUME NEW u \in Uploads, Image!inventoryProfileMediaObjects(u) PROVE ImageInv'
  <2> DEFINE w == [at |-> "inventory", upload |-> u]
  <2>1. object[u] # 0 /\ worker' = w /\ UNCHANGED ImageDocs /\ UNCHANGED Rest /\ UNCHANGED stops
    BY <1>3
       DEF Image!inventoryProfileMediaObjects, Image!storage, Image!owner, Image!ledgers,
           Image!reading, Image!history, ImageDocs
  <2>2. w \in ImageSweepers BY DEF ImageSweepers
  <2>4. ImageSweep' BY <2>1 DEF ImageSweep
  <2> QED BY <1>1, <1>2, <2>1, <2>2, <2>4 DEF ImageTyped
<1>4. ASSUME NEW from, NEW to \in {"unshown", "orphan", "unshown again", "delete"},
          NEW referenced,
             from # "idle", Image!Asks(from, to, referenced),
             to # "unshown" /\ ~referenced =>
               worker.upload \in overtaken \/ ~Alive(worker.upload),
             to \in {"unshown again", "delete"} /\ ~referenced =>
               worker.upload \in overtaken \/ ~Image!Shows(worker.upload)
      PROVE  ImageInv'
  <2>1. worker.at = from /\ UNCHANGED ImageDocs /\ UNCHANGED Rest /\ UNCHANGED stops
        /\ (worker' = Image!IdleWorker \/ (~referenced /\ worker' = [worker EXCEPT !.at = to]))
    BY <1>4 DEF Image!Asks, Image!storage, Image!owner, Image!ledgers, Image!reading, Image!history, ImageDocs
  <2>2. stops' \in 0..MaxStops BY <1>1, <2>1 DEF ImageTyped
  <2>3. CASE worker' = Image!IdleWorker
    <3>1. ImageSweep' BY <2>3, ImageFacts DEF ImageSweep
    <3> QED BY <1>2, <2>1, <2>2, <2>3, <3>1, ImageFacts
  <2>4. CASE ~referenced /\ worker' = [worker EXCEPT !.at = to]
    <3>1. PICK u : u = worker.upload OBVIOUS
    <3> DEFINE w == [at |-> to, upload |-> u]
    <3>2. worker \in ImageSweepers BY <1>1 DEF ImageTyped
    <3>3. worker' = w BY <2>4, <3>1, <3>2, ImageRecords
    <3>4. w \in ImageSweepers BY <3>1, <3>2 DEF ImageSweepers
    <3>5. u \in Uploads BY <1>1, <1>4, <2>1, <3>1 DEF ImageSweep
    <3>6. /\ to # "unshown" => u \in overtaken \/ ~Alive(u)
          /\ to \in {"unshown again", "delete"} => u \in overtaken \/ ~Image!Shows(u)
      BY <1>4, <2>4, <3>1
    <3>7. ImageSweep'
      BY <2>1, <3>3, <3>5, <3>6
         DEF ImageSweep, Alive, Image!HoldsSlot, Image!Shows, ImageDocs
    <3> HIDE DEF w
    <3> QED BY <1>2, <2>1, <2>2, <3>3, <3>4, <3>7
  <2> QED BY <2>1, <2>3, <2>4
<1>5. CASE Image!AskSteps
  <2>1. CASE Image!AskProfile BY <1>4, <2>1 DEF Image!AskProfile
  <2>2. CASE Image!AskLease
    <3>1. ~Image!ReferencedByLease(worker.upload) => ~Alive(worker.upload)
      BY DEF Image!ReferencedByLease, Alive, Image!HoldsSlot
    <3> QED BY <1>4, <2>2, <3>1 DEF Image!AskLease
  <2>3. CASE Image!AskProfileAgain
    <3>1. worker.at = "orphan" BY <2>3 DEF Image!AskProfileAgain, Image!Asks
    <3>2. worker.upload \in overtaken \/ ~Alive(worker.upload) BY <1>1, <3>1 DEF ImageSweep
    <3> QED BY <1>4, <2>3, <3>2 DEF Image!AskProfileAgain
  <2>4. CASE Image!AskLeaseAgain
    <3>1. worker.at = "unshown again" BY <2>4 DEF Image!AskLeaseAgain, Image!Asks
    <3>2. \/ worker.upload \in overtaken
          \/ ~Alive(worker.upload) /\ ~Image!Shows(worker.upload)
      BY <1>1, <3>1 DEF ImageSweep
    <3> QED BY <1>4, <2>4, <3>2 DEF Image!AskLeaseAgain
  <2> QED BY <1>5, <2>1, <2>2, <2>3, <2>4 DEF Image!AskSteps
<1>6. CASE Image!DeleteObject
  <2>1. PICK u : u = worker.upload OBVIOUS
  <2>2. /\ worker.at \in {"expired", "delete"} /\ object' = [object EXCEPT ![u] = 0]
        /\ worker' = Image!IdleWorker
        /\ UNCHANGED <<media, reservation, lease, lapsed, finalized, seen, overtaken>>
        /\ UNCHANGED Rest /\ UNCHANGED stops
    BY <1>6, <2>1
       DEF Image!DeleteObject, Image!owner, Image!ledgers, Image!reading, Image!history
  <2>3. /\ u \in Uploads
        /\ \/ u \in overtaken
           \/ /\ ~Alive(u) /\ (worker.at = "delete" => ~Image!Shows(u))
              /\ worker.at = "expired" => u \notin finalized
    BY <1>1, <2>1, <2>2 DEF ImageSweep
  <2>4. u \notin finalized => ~Image!Shows(u)
    <3>1. ImageKind(KindOf[u]) /\ u # Image!None BY <2>3, ImageFacts DEF ImageInv
    <3> QED BY <3>1, ImageFacts DEF ImageKind, Image!Shows
  <2>5. ImageTyped' BY <1>1, <2>2, <2>3, ImageFacts DEF ImageTyped
  <2>6. ImageSweep' BY <2>2, ImageFacts DEF ImageSweep
  <2>7. ImageReader' BY <2>2 DEF ImageInv, ImageReader
  <2> QED BY <2>2, <2>3, <2>4, <2>5, <2>6, <2>7, ImageGoes
<1>7. CASE Image!SweepStops
  <2>1. /\ stops < MaxStops /\ worker' = Image!IdleWorker /\ stops' = stops + 1
        /\ UNCHANGED ImageDocs /\ UNCHANGED Rest
    BY <1>7
       DEF Image!SweepStops, Image!storage, Image!owner, Image!ledgers, Image!reading, Image!history, ImageDocs
  <2>2. stops' \in 0..MaxStops BY <1>1, <2>1, ImageFacts DEF ImageTyped
  <2>3. ImageSweep' BY <2>1, ImageFacts DEF ImageSweep
  <2> QED BY <1>2, <2>1, <2>2, <2>3, ImageFacts
<1> QED BY <1>3, <1>5, <1>6, <1>7

LEMMA ImageReplacedGoes ==
  ASSUME ImageInv, ImageAssumption, NEW c \in Calls, Image!DeleteReplaced(c) PROVE ImageInv'
<1>1. PICK u : u = call[c].old OBVIOUS
<1>2. /\ call[c].at = "replaced" /\ object' = [object EXCEPT ![u] = 0]
      /\ call' = [call EXCEPT ![c] = Image!IdleCall]
      /\ UNCHANGED <<account, media, uploaded, reservation, lease, lapsed, reserved, finalized,
                     reserveLedger, reservePreflight, finalPreflight, worker, stops, audience,
                     reader, seen, overtaken>>
  BY <1>1
     DEF Image!DeleteReplaced, Image!Ends, Image!owner, Image!ledgers, Image!reading,
         Image!history
<1>3. ImageTyped /\ ImageCall(c) BY DEF ImageInv
<1>4. u \in Uploads /\ (u \in overtaken \/ (u \notin finalized /\ ~Alive(u)))
  BY <1>1, <1>2, <1>3 DEF ImageCall
<1>5. u \in overtaken \/ ~Image!Shows(u)
  <2>1. ImageKind(KindOf[u]) /\ u # Image!None BY <1>4, ImageFacts DEF ImageInv
  <2> QED BY <1>4, <2>1, ImageFacts DEF ImageKind, Image!Shows
<1>6. ImageTyped' BY <1>2, <1>3, <1>4, ImageFacts DEF ImageTyped
<1>7. ImageSweep' BY <1>2 DEF ImageInv, ImageSweep, Alive, Image!HoldsSlot, Image!Shows
<1>8. ImageReader' BY <1>2 DEF ImageInv, ImageReader
<1>9. \A d \in Calls : call'[d] = call[d] \/ call'[d].at = "idle"
  BY <1>2, <1>3, ImageFacts DEF ImageTyped
<1> QED BY <1>2, <1>4, <1>5, <1>6, <1>7, <1>8, <1>9, ImageGoes

LEMMA ImageReads ==
  ASSUME ImageInv, ImageAssumption, Image!ReaderActs \/ Image!ReaderGivesUp \/ Image!AudienceChanges
       \/ Image!AccountChanges
  PROVE  ImageInv'
<1> DEFINE Rest == <<uploaded, reserved, reserveLedger, reservePreflight, finalPreflight, call,
                     worker, stops>>
<1>1. ImageTyped BY DEF ImageInv
<1>2. ASSUME UNCHANGED ImageDocs, UNCHANGED Rest, account' \in {"active", "restricted"},
             audience' \in {"shown", "hidden"}, reader' \in ImageReaders, ImageReader'
      PROVE  ImageInv'
  <2>1. ImageTyped' BY <1>1, <1>2 DEF ImageTyped, ImageDocs
  <2>2. ImageSweep' BY <1>2 DEF ImageInv, ImageSweep, Alive, Image!HoldsSlot, Image!Shows,
            ImageDocs
  <2> QED BY <1>2, <2>1, <2>2, ImageAside
<1>3. ASSUME NEW k \in Image!Kinds, Image!authorizeMediaAccess(k) PROVE ImageInv'
  <2>1. /\ media.shown[k] # Image!NoImage
        /\ reader' = [at |-> "authorized", kind |-> k, image |-> media.shown[k],
                      revision |-> media.revision]
        /\ UNCHANGED ImageDocs /\ UNCHANGED Rest /\ UNCHANGED <<account, audience>>
    BY <1>3 DEF Image!authorizeMediaAccess, Image!storage, Image!owner, Image!ledgers, Image!history,
            ImageDocs
  <2>2. media.shown[k] \in Image!Images /\ media.revision \in Image!Revisions
       BY <1>1 DEF ImageTyped
  <2>3. reader' \in ImageReaders BY <2>1, <2>2 DEF ImageReaders
  <2>4. ImageReader' BY <2>1 DEF ImageReader
  <2> QED BY <1>1, <1>2, <2>1, <2>3, <2>4 DEF ImageTyped
<1>4. CASE Image!SignUrl
  <2>1. /\ reader.at = "authorized" /\ reader' = [reader EXCEPT !.at = "signed"]
        /\ UNCHANGED ImageDocs /\ UNCHANGED Rest /\ UNCHANGED <<account, audience>>
    BY <1>4 DEF Image!SignUrl, Image!storage, Image!owner, Image!ledgers, Image!history,
            ImageDocs
  <2>2. reader \in ImageReaders BY <1>1 DEF ImageTyped
  <2>3. reader' = [at |-> "signed", kind |-> reader.kind, image |-> reader.image,
                   revision |-> reader.revision]
    BY <2>1, <2>2, ImageRecords
  <2>4. reader' \in ImageReaders BY <2>2, <2>3 DEF ImageReaders
  <2>5. ImageReader' BY <2>1, <2>3 DEF ImageInv, ImageReader
  <2> QED BY <1>1, <1>2, <2>1, <2>4, <2>5 DEF ImageTyped
<1>5. CASE Image!getProfileMediaAccess \/ Image!ReaderGivesUp
  <2>1. reader' = Image!IdleReader /\ UNCHANGED ImageDocs /\ UNCHANGED Rest
            /\ UNCHANGED <<account, audience>>
    BY <1>5
       DEF Image!getProfileMediaAccess, Image!ReaderGivesUp, Image!storage, Image!owner,
           Image!ledgers, Image!history, ImageDocs
  <2>2. ImageReader' BY <2>1, ImageFacts DEF ImageReader
  <2> QED BY <1>1, <1>2, <2>1, <2>2, ImageFacts DEF ImageTyped
<1>6. CASE Image!AudienceChanges
  <2>1. /\ audience' \in {"shown", "hidden"} /\ UNCHANGED ImageDocs /\ UNCHANGED Rest
        /\ UNCHANGED <<account, reader>>
    BY <1>6 DEF Image!AudienceChanges, Image!storage, Image!owner, Image!ledgers, Image!history,
            ImageDocs
  <2>2. ImageReader' BY <2>1 DEF ImageInv, ImageReader
  <2> QED BY <1>1, <1>2, <2>1, <2>2 DEF ImageTyped
<1>7. CASE Image!AccountChanges
  <2>1. /\ account' \in {"active", "restricted"} /\ UNCHANGED ImageDocs /\ UNCHANGED Rest
        /\ UNCHANGED <<audience, reader>>
    BY <1>7
       DEF Image!AccountChanges, Image!storage, Image!owner, Image!ledgers, Image!reading,
           Image!history, ImageDocs
  <2>2. ImageReader' BY <2>1 DEF ImageInv, ImageReader
  <2> QED BY <1>1, <1>2, <2>1, <2>2 DEF ImageTyped
<1> QED BY <1>3, <1>4, <1>5, <1>6, <1>7 DEF Image!ReaderActs

------------------------
LEMMA ImageStep == ASSUME ImageInv, ImageAssumption, [Image!Next]_Image!vars PROVE ImageInv'
<1>1. CASE UNCHANGED Image!vars
  <2>1. /\ UNCHANGED ImageDocs
        /\ UNCHANGED <<account, uploaded, reserved, reserveLedger, reservePreflight,
                       finalPreflight, call, worker, stops, audience, reader>>
    BY <1>1 DEF Image!vars, Image!storage, Image!owner, Image!ledgers, Image!reading, Image!history, ImageDocs
  <2>2. ImageTyped' BY <2>1 DEF ImageInv, ImageTyped, ImageDocs
  <2>3. ImageSweep' BY <2>1 DEF ImageInv, ImageSweep, Alive, Image!HoldsSlot, Image!Shows,
            ImageDocs
  <2>4. ImageReader' BY <2>1 DEF ImageInv, ImageReader
  <2> QED BY <2>1, <2>2, <2>3, <2>4, ImageAside
<1>2. ASSUME NEW c \in Calls, Image!OwnerActs(c) \/ Image!Fails(c) PROVE ImageInv'
  BY <1>2, ImageCalls, ImageReserves, ImageReplacedGoes, ImageFinalizes DEF Image!OwnerActs
<1>3. ASSUME NEW u \in Uploads,
             Image!Upload(u) \/ Image!Lapse(u) \/ Image!cleanupExpiredLease(u)
                  \/ Image!inventoryProfileMediaObjects(u)
      PROVE  ImageInv'
  BY <1>3, ImageBytesCome, ImageLeaseEnds, ImageSweeps
<1>4. CASE Image!AskSteps \/ Image!DeleteObject \/ Image!SweepStops BY <1>4, ImageSweeps
<1>5. CASE Image!ReaderActs \/ Image!ReaderGivesUp \/ Image!AudienceChanges
          \/ Image!AccountChanges BY <1>5, ImageReads
<1> QED BY <1>1, <1>2, <1>3, <1>4, <1>5 DEF Image!Next

(* The strengthening is an invariant of the owner's overlapping calls, the hourly sweep,
   the reader and the changes of account and audience. *)
THEOREM ImageInvariant == ASSUME ImageAssumption PROVE Image!Spec => []ImageInv
<1>1. Image!Init => ImageInv BY ImageInit
<1>2. ImageInv /\ [Image!Next]_Image!vars => ImageInv' BY ImageStep
<1> QED BY <1>1, <1>2, PTL DEF Image!Spec

(* The images, the objects, the reservations and ledgers and everybody's notes keep their
   types; there are no more revisions than uploads. *)
THEOREM ImageTypeCorrect == ASSUME ImageAssumption PROVE Image!Spec => []Image!TypeOK
<1>1. ImageInv => Image!TypeOK
  BY DEF ImageInv, ImageTyped, Image!TypeOK, ImageReservations, OwnerCalls, ImageSweepers,
         ImageReaders
<1> QED BY <1>1, ImageInvariant, PTL

(* An image the profile shows is in Storage in the generation it names, unless its upload
   id was reserved again under a deletion or a finalizer of its past; and one upload of a
   kind admits bytes at a time.  For any uploads, reserved once or again, calls and dying
   sweeps. *)
THEOREM ShownImagesStay == ASSUME ImageAssumption
PROVE Image!Spec => [](Image!ShownImageExists /\ Image!OneUploadPerKind)
<1>1. ImageInv => Image!ShownImageExists BY DEF ImageInv, ImageKind, Image!ShownImageExists
<1>2. ImageInv => Image!OneUploadPerKind BY DEF ImageInv, ImageUpload, Image!OneUploadPerKind
<1> QED BY <1>1, <1>2, ImageInvariant, PTL

LEMMA ImagesReplacedSeen ==
  ASSUME ImageInv, ImageAssumption, [Image!Next]_Image!vars
  PROVE  \A k \in Image!Kinds : media'.shown[k] # media.shown[k] =>
           seen[media'.shown[k].upload] = media.shown
<1>1. ASSUME NEW c \in Calls, Image!finalizeProfileMediaUpload(c)
      PROVE  \A k \in Image!Kinds : media'.shown[k] # media.shown[k] =>
               seen[media'.shown[k].upload] = media.shown
  BY <1>1, ImageFinalizes
<1>2. ASSUME ~ \E c \in Calls : Image!finalizeProfileMediaUpload(c) PROVE UNCHANGED media
  <2>1. CASE UNCHANGED Image!vars BY <2>1 DEF Image!vars
  <2>2. ASSUME NEW c \in Calls, Image!OwnerActs(c) \/ Image!Fails(c) PROVE UNCHANGED media
    BY <1>2, <2>2
       DEF Image!OwnerActs, Image!Fails, Image!beginReserve, Image!ReserveAgain,
           Image!reserveProfileMediaUpload, Image!beginFinalize, Image!DeleteReplaced,
           Image!ReadReservation, Image!validateStoredProfileMedia
  <2>3. ASSUME NEW u \in Uploads,
               Image!Upload(u) \/ Image!Lapse(u) \/ Image!cleanupExpiredLease(u)
                    \/ Image!inventoryProfileMediaObjects(u)
        PROVE  UNCHANGED media
    BY <2>3
       DEF Image!Upload, Image!Lapse, Image!cleanupExpiredLease,
           Image!inventoryProfileMediaObjects
  <2>4. CASE Image!AskSteps \/ Image!DeleteObject \/ Image!SweepStops
    BY <2>4
       DEF Image!AskSteps, Image!AskProfile, Image!AskLease, Image!AskProfileAgain,
           Image!AskLeaseAgain, Image!Asks, Image!DeleteObject, Image!SweepStops
  <2>5. CASE Image!ReaderActs \/ Image!ReaderGivesUp \/ Image!AudienceChanges
            \/ Image!AccountChanges
    BY <2>5
       DEF Image!ReaderActs, Image!authorizeMediaAccess, Image!SignUrl,
           Image!getProfileMediaAccess, Image!ReaderGivesUp, Image!AudienceChanges,
           Image!AccountChanges
  <2> QED BY <2>1, <2>2, <2>3, <2>4, <2>5 DEF Image!Next
<1> QED BY <1>1, <1>2

(* Finalizing replaces exactly the images its owner saw when the upload was reserved. *)
THEOREM ReplacedImagesWereSeen == ASSUME ImageAssumption
PROVE Image!Spec => Image!NothingIsReplacedUnseen
<1>1. ImageInv /\ [Image!Next]_Image!vars => [Image!OwnerSawWhatGoes]_Image!vars
  BY ImagesReplacedSeen DEF Image!OwnerSawWhatGoes
<1> QED BY <1>1, ImageInvariant, PTL DEF Image!Spec, Image!NothingIsReplacedUnseen

(* A URL that is handed out is for the image the profile shows at that moment, to a reader
   who may still see it, and its object is there, unless the image was overtaken. *)
THEOREM GrantedImagesAreShown == ASSUME ImageAssumption PROVE Image!Spec => Image!GrantShowsTheImage
<1>1. ImageInv => Image!ImageIsShown
  <2> SUFFICES ASSUME ImageInv, reader.at = "signed", Image!getProfileMediaAccess
               PROVE  /\ audience = "shown" /\ account = "active"
                      /\ \/ object[reader.image.upload] = reader.image.generation
                         \/ reader.image.upload \in overtaken
    BY DEF Image!ImageIsShown
  <2>1. /\ account = "active" /\ audience = "shown"
        /\ media.shown[reader.kind] = reader.image
    BY DEF Image!getProfileMediaAccess, Image!sameAccessState
  <2>2. reader.image # Image!NoImage /\ reader.kind \in Image!Kinds
    BY DEF ImageInv, ImageReader, ImageTyped, ImageReaders
  <2>3. ImageKind(reader.kind) BY <2>2 DEF ImageInv
  <2> QED BY <2>1, <2>2, <2>3 DEF ImageKind
<1> QED BY <1>1, ImageInvariant, PTL DEF Image!Spec, Image!GrantShowsTheImage

=============================================================================
