------------------------- MODULE ConvergenceProofs -------------------------
(***************************************************************************)
(* That a change of authority reaches everybody it concerns, for any       *)
(* users, policies, page size and number of workers, jobs and failures.    *)
(* NobodyForgotten is not inductive: it says that a pending job is still   *)
(* in front of a holder, not that the workers which are on that job at     *)
(* this moment will not carry its cursor past the holder.  GrantsAreExact  *)
(* speaks of the quiet moments only; between them each grant that is not   *)
(* exact has a job that owes it.                                           *)
(***************************************************************************)
EXTENDS Convergence, FiniteSetTheorems, WellFoundedInduction, TLAPS

Job ==
  [kind : {"none", "access", "member", "end", "transfer"}, user : 0 .. N, heir : 0 .. N,
   acl : 0 .. MaxAcl, grants : {"pending", "done"}, from : 0 .. N,
   target : {"none", "one", "all", "end"},
   media : {"pending", "recoveryRequired", "done"}, cursor : 0 .. N,
   lease : Workers \cup {None}, expired : BOOLEAN,
   status : {"none", "pending", "completed"}]

Run ==
  [job : 0 .. MaxJobs, at : {"idle", "project", "media", "final"},
   page : SUBSET Users, flying : SUBSET Users, last : 0 .. N,
   pageDone : BOOLEAN, cursor : 0 .. N, pending : BOOLEAN, doubt : BOOLEAN]

Acl == [rev : 1 .. MaxAcl, policy : Policies, status : {"active", "archived", "deleting"}]
Standing == [role : Ranks, banned : BOOLEAN, rev : 0 .. MaxRevision]
Recipient == [st : {"none", "active", "revoking", "uncertain", "revoked"},
              acl : 0 .. MaxAcl, rev : 0 .. MaxRevision]

\* What is not there yet is owed nothing, and an invocation works on a job.
Books ==
  /\ \A i \in Ids :
       jobs[i].kind = "none" => jobs[i].status = "none" /\ jobs[i].grants = "done"
  /\ \A w \in Workers :
       IF worker[w].at = "idle" THEN worker[w].job = 0
       ELSE worker[w].job \in Ids /\ jobs[worker[w].job].kind # "none"
  /\ \A i \in Ids : jobs[i].target = "one" => jobs[i].user \in Users

\* An invocation that skipped its page leaves the cursor where it is.
FinalsWait ==
  \A w \in Workers : (worker[w].at = "final" /\ ~TargetsEnd(w)) => worker[w].pending

\* A removal under way is of a recipient in revocation, and nobody else's.
Flights ==
  session = "live" =>
    \A w \in Workers : \A u \in worker[w].flying :
      recipient[u].st = "revoking" /\ \A x \in Workers : u \in worker[x].flying => x = w

\* The invocation does not carry the cursor of the job past u without u.
Minds(w, i, u) ==
  worker[w].job = i =>
    \/ worker[w].pending \/ u \in worker[w].page
    \/ jobs[i].target = "all" /\ ~worker[w].pageDone /\ worker[w].last < u

Stale(u) == recipient[u].st = "active" /\ ~Fresh(u)

Remembered ==
  session = "live" =>
    \A u \in Users : Stale(u) =>
      \E i \in Ids : Covers(jobs[i], u) /\ \A w \in Workers : Minds(w, i, u)

\* A grant is what the policy says, or a job that is not superseded will make it so.
Exact(u) == grantMatches(u) <=> policyAllowsMember(u)
Owes(j, u) ==
  /\ j.grants = "pending"
  /\ \/ j.kind = "access" /\ j.acl = acl.rev /\ j.from < u
     \/ j.kind = "transfer" /\ u \in {j.user, j.heir}
Owed ==
  (acl.status = "active" /\ ~acl.policy.open) =>
    \A u \in Users : canonicalMember(u) => Exact(u) \/ \E i \in Ids : Owes(jobs[i], u)

\* No grant is dated ahead of the revisions it was written for.
Dated == \A u \in Users : grant[u].acl <= acl.rev /\ grant[u].rev <= member[u].rev

Grants == Owed /\ Dated /\ NoGrantForOutsiders

IInv == TypeOK /\ Books /\ FinalsWait /\ Flights /\ Remembered /\ Grants

------------------------
(***************************************************************************)
(* Pages.                                                                  *)
(***************************************************************************)

LEMMA MinimalSet ==
  ASSUME NEW S, IsFiniteSet(S), NEW C \in SUBSET (SUBSET S), C # {}
  PROVE  \E X \in C : \A Y \in C : Y \subseteq X => Y = X
<1>1. C \subseteq FiniteSubsetsOf(S)
  BY FS_Subset DEF FiniteSubsetsOf
<1>2. PICK X \in C : \A Y \in C : ~(<<Y, X>> \in StrictSubsetOrdering(S))
  BY <1>1, FS_StrictSubsetOrderingWellFounded, WFMin
<1> QED
  BY <1>2 DEF StrictSubsetOrdering

\* Documents are ordered: a finite set of ids has a first and a last one.
LEMMA Least ==
  ASSUME NEW S, \A z \in S : z \in Nat, IsFiniteSet(S), S # {}
  PROVE  \E x \in S : \A y \in S : x <= y
<1> DEFINE Below(x) == {y \in S : y < x}
           C == {Below(x) : x \in S}
<1>1. PICK X \in C : \A Y \in C : Y \subseteq X => Y = X
  <2>1. C \in SUBSET (SUBSET S) /\ C # {}
    OBVIOUS
  <2> HIDE DEF C
  <2> QED
    BY <2>1, MinimalSet
<1>2. PICK x \in S : X = Below(x)
  BY <1>1
<1>3. ASSUME NEW y \in S, y < x PROVE FALSE
  <2>1. x \in Nat /\ y \in Nat
    OBVIOUS
  <2>2. /\ \A z \in Below(y) : z \in Below(x)
        /\ y \in Below(x) /\ y \notin Below(y)
    BY <1>3, <2>1
  <2>3. Below(y) \in C
    OBVIOUS
  <2> HIDE DEF C, Below
  <2> QED
    BY <1>1, <1>2, <2>2, <2>3
<1> QED
  BY <1>3

LEMMA Greatest ==
  ASSUME NEW S, \A z \in S : z \in Nat, IsFiniteSet(S), S # {}
  PROVE  \E x \in S : \A y \in S : y <= x
<1> DEFINE Above(x) == {y \in S : y > x}
           C == {Above(x) : x \in S}
<1>1. PICK X \in C : \A Y \in C : Y \subseteq X => Y = X
  <2>1. C \in SUBSET (SUBSET S) /\ C # {}
    OBVIOUS
  <2> HIDE DEF C
  <2> QED
    BY <2>1, MinimalSet
<1>2. PICK x \in S : X = Above(x)
  BY <1>1
<1>3. ASSUME NEW y \in S, y > x PROVE FALSE
  <2>1. x \in Nat /\ y \in Nat
    OBVIOUS
  <2>2. /\ \A z \in Above(y) : z \in Above(x)
        /\ y \in Above(x) /\ y \notin Above(y)
    BY <1>3, <2>1
  <2>3. Above(y) \in C
    OBVIOUS
  <2> HIDE DEF C, Above
  <2> QED
    BY <1>1, <1>2, <2>2, <2>3
<1> QED
  BY <1>3

\* The numbers of the assumption.
LEMMA Numbers ==
  ASSUME ConvergenceConstantsAssumption
  PROVE  /\ N \in Nat /\ N > 0 /\ PageSize \in Nat /\ PageSize > 0
         /\ MaxAcl \in Nat /\ MaxAcl > 0 /\ MaxRevision \in Nat /\ MaxRevision > 0
         /\ MaxJobs \in Nat /\ MaxFailures \in Nat /\ None \notin Workers
         /\ Users \subseteq Nat /\ Ids \subseteq Nat /\ 0 \notin Users /\ 0 \notin Ids
BY DEF ConvergenceConstantsAssumption, Users, Ids

LEMMA UsersCounted ==
  ASSUME ConvergenceConstantsAssumption, NEW S \in SUBSET Users
  PROVE  IsFiniteSet(S) /\ Cardinality(S) \in Nat /\ \A u \in S : u \in Nat
<1>1. IsFiniteSet(Users)
  BY FS_Interval, Numbers DEF Users
<1>2. IsFiniteSet(S)
  BY <1>1, FS_Subset
<1> QED
  BY <1>2, FS_CardinalityType, Numbers

\* A page holds the first ones, and leaves some out only when it is full.
LEMMA PageIsFirst ==
  ASSUME ConvergenceConstantsAssumption, NEW S \in SUBSET Users
  PROVE  /\ FirstOf(S) \subseteq S
         /\ \A u \in S : u \notin FirstOf(S) =>
              (\A v \in FirstOf(S) : v < u) /\ Cardinality(S) > PageSize
<1> DEFINE Below(u) == {v \in S : v < u}
<1>1. FirstOf(S) = {u \in S : Cardinality(Below(u)) < PageSize}
  BY DEF FirstOf
<1>2. \A u \in S : Below(u) \in SUBSET S
  OBVIOUS
<1>3. ASSUME NEW u \in S, u \notin FirstOf(S)
      PROVE  (\A v \in FirstOf(S) : v < u) /\ Cardinality(S) > PageSize
  <2>1. /\ IsFiniteSet(S) /\ IsFiniteSet(Below(u)) /\ u \in Nat
        /\ Cardinality(Below(u)) \in Nat /\ Cardinality(S) \in Nat
    BY <1>2, UsersCounted
  <2>2. Cardinality(Below(u)) >= PageSize
    BY <1>1, <1>3, <2>1, Numbers
  <2>3. ASSUME NEW v \in FirstOf(S) PROVE v < u
    <3>1. v \in S /\ v \in Nat /\ Cardinality(Below(v)) < PageSize
      BY <1>1, UsersCounted
    <3>2. SUFFICES ASSUME u <= v PROVE FALSE
      BY <3>1, <2>1
    <3>3. Below(u) \subseteq Below(v)
      <4>1. ASSUME NEW x \in S, x < u PROVE x < v
        <5>1. x \in Nat
          BY UsersCounted
        <5> QED
          BY <5>1, <4>1, <3>1, <3>2, <2>1
      <4> QED
        BY <4>1
    <3>4. IsFiniteSet(Below(v)) /\ Cardinality(Below(v)) \in Nat
      BY <1>2, <3>1, UsersCounted
    <3>5. Cardinality(Below(u)) <= Cardinality(Below(v))
      BY <3>3, <3>4, FS_Subset
    <3> QED
      BY <3>1, <3>4, <3>5, <2>1, <2>2, Numbers
  <2>4. Below(u) \subseteq S /\ Below(u) # S
    BY <2>1
  <2>5. Cardinality(Below(u)) < Cardinality(S)
    <3> HIDE DEF Below
    <3> QED
      BY <2>1, <2>4, FS_Subset
  <2> QED
    BY <2>1, <2>2, <2>3, <2>5, Numbers
<1> QED
  BY <1>1, <1>3

LEMMA LastIsLast ==
  ASSUME ConvergenceConstantsAssumption, NEW S \in SUBSET Users, NEW c \in 0 .. N
  PROVE  /\ LastOf(S, c) \in 0 .. N
         /\ \A u \in Users : (c < u /\ \A v \in S : v < u) => LastOf(S, c) < u
<1>1. CASE S = {}
  BY <1>1 DEF LastOf
<1>2. CASE S # {}
  <2>1. \E x \in S : \A y \in S : y <= x
    BY <1>2, UsersCounted, Greatest
  <2>2. LastOf(S, c) \in S
    BY <1>2, <2>1 DEF LastOf
  <2> QED
    <3>1. LastOf(S, c) \in 0 .. N
      <4>1. \A k \in Users : k \in 0 .. N
        BY Numbers DEF Users
      <4> QED
        BY <2>2, <4>1
    <3> QED
      BY <2>2, <3>1
<1> QED
  BY <1>1, <1>2

------------------------
(***************************************************************************)
(* Jobs.                                                                   *)
(***************************************************************************)

LEMMA NoJobIsJob ==
  ASSUME ConvergenceConstantsAssumption
  PROVE  NoJob \in Job
BY Numbers DEF NoJob, Job

LEMMA FreeHasFirst ==
  ASSUME ConvergenceConstantsAssumption, Free # {}
  PROVE  (CHOOSE i \in Free : \A k \in Free : i <= k) \in Free
<1>1. \A i \in Free : i \in Nat
  BY Numbers DEF Free
<1>2. IsFiniteSet(Ids)
  BY FS_Interval, Numbers DEF Ids
<1>3. IsFiniteSet(Free)
  <2>1. Free \in SUBSET Ids
    BY DEF Free
  <2> QED
    BY <2>1, <1>2, FS_Subset
<1>4. \E i \in Free : \A k \in Free : i <= k
  BY <1>1, <1>3, Least
<1> QED
  BY <1>4

\* What a new job is, and that the others stay.
Filed(k, kind, u, v, rev, grants, target) ==
  /\ jobs[k].kind = "none"
  /\ \A i \in Ids : i # k => jobs'[i] = jobs[i]
  /\ jobs'[k].kind = kind /\ jobs'[k].user = u /\ jobs'[k].heir = v
  /\ jobs'[k].acl = rev /\ jobs'[k].grants = grants
  /\ jobs'[k].from = 0 /\ jobs'[k].cursor = 0
  /\ jobs'[k].status = "pending" /\ jobs'[k].target \in {"none", target}
  /\ session = "live" => jobs'[k].target = target /\ jobs'[k].media = "pending"

LEMMA JobIsFiled ==
  ASSUME ConvergenceConstantsAssumption, TypeOK, Free # {},
         NEW kind \in {"access", "member", "end", "transfer"},
         NEW u \in 0 .. N, NEW v \in 0 .. N, NEW rev \in 0 .. MaxAcl,
         NEW grants \in {"pending", "done"}, NEW target \in {"one", "all", "end"},
         NewJob(kind, u, v, rev, grants, target)
  PROVE  /\ jobs' \in [Ids -> Job]
         /\ \E k \in Ids : Filed(k, kind, u, v, rev, grants, target)
<1> DEFINE t == Captured(target)
           media == IF t = "none" THEN "done" ELSE "pending"
<1>1. PICK k \in Free : jobs' = [jobs EXCEPT ![k] =
        [NoJob EXCEPT !.kind = kind, !.user = u, !.heir = v, !.acl = rev, !.grants = grants,
           !.target = t, !.media = media, !.status = "pending"]]
  BY FreeHasFirst DEF NewJob
<1>2. t \in {"none", "one", "all", "end"} /\ media \in {"done", "pending"}
  BY DEF Captured
<1>3. t \in {"none", target} /\ (session = "live" => t = target /\ media = "pending")
  BY DEF Captured
<1>4. NoJob \in Job /\ NoJob.from = 0 /\ NoJob.cursor = 0
  BY NoJobIsJob DEF NoJob
<1>5. jobs \in [Ids -> Job] /\ k \in Ids /\ jobs[k].kind = "none"
  BY <1>1 DEF TypeOK, Job, Free
<1> HIDE DEF t, media
<1>6. PICK filed : filed = [NoJob EXCEPT !.kind = kind, !.user = u, !.heir = v,
             !.acl = rev, !.grants = grants, !.target = t, !.media = media,
             !.status = "pending"]
  OBVIOUS
<1>7. /\ filed \in Job /\ filed.kind = kind /\ filed.user = u /\ filed.heir = v
      /\ filed.acl = rev /\ filed.grants = grants /\ filed.from = 0 /\ filed.cursor = 0
      /\ filed.status = "pending" /\ filed.target = t /\ filed.media = media
  BY <1>2, <1>4, <1>6 DEF Job
<1>8. jobs' = [jobs EXCEPT ![k] = filed]
  BY <1>1, <1>6
<1>9. jobs'[k] = filed /\ \A i \in Ids : i # k => jobs'[i] = jobs[i]
  BY <1>5, <1>8
<1>10. jobs' \in [Ids -> Job]
  BY <1>5, <1>7, <1>8
<1> QED
  BY <1>3, <1>5, <1>7, <1>9, <1>10 DEF Filed

------------------------
(***************************************************************************)
(* Types.                                                                  *)
(***************************************************************************)

Types ==
  /\ owner \in Users /\ acl \in Acl /\ member \in [Users -> Standing]
  /\ grant \in [Users -> Stamps]
  /\ session \in {"live", "ending", "ended", "gone"}
  /\ recipient \in [Users -> Recipient]
  /\ jobs \in [Ids -> Job] /\ worker \in [Workers -> Run]
  /\ failures \in 0 .. MaxFailures

LEMMA TypesAreTypeOK == TypeOK <=> Types
BY DEF TypeOK, Types, Acl, Standing, Recipient, Job, Run

\* A grant carries the revisions it was written for, and only a restricted
\* policy that allows its holder writes one.
LEMMA WhatIsWritten ==
  ASSUME ConvergenceConstantsAssumption, NEW p \in Policies, NEW rev \in 1 .. MaxAcl,
         NEW m \in Standing, NEW u \in Users
  PROVE  /\ Written(p, rev, m, u) \in Stamps
         /\ Written(p, rev, m, u) # NoGrant =>
              ~p.open /\ (m.role \in p.roles \/ u \in p.users)
         /\ (~p.open /\ (m.role \in p.roles \/ u \in p.users)) =>
              Written(p, rev, m, u) = [acl |-> rev, rev |-> m.rev]
         /\ NoGrant \in Stamps /\ NoGrant.acl = 0 /\ NoGrant.rev = 0
         /\ Written(p, rev, m, u).acl <= rev /\ Written(p, rev, m, u).rev <= m.rev
BY Numbers DEF Written, NoGrant, Stamps, Standing

LEMMA IdleIsRun ==
  ASSUME ConvergenceConstantsAssumption
  PROVE  Idle \in Run /\ Idle.job = 0 /\ Idle.at = "idle" /\ Idle.flying = {}
BY Numbers DEF Idle, Run

LEMMA InitTyped ==
  ASSUME ConvergenceConstantsAssumption, Init PROVE TypeOK
<1>1. /\ owner \in Users /\ acl \in Acl /\ member \in [Users -> Standing]
      /\ session \in {"live", "ending", "ended", "gone"}
      /\ recipient \in [Users -> Recipient] /\ failures \in 0 .. MaxFailures
  BY Numbers DEF Init, Acl, Standing, Recipient, NoRecipient, Users, Ranks
<1>2. grant \in [Users -> Stamps]
  <2>1. acl.policy \in Policies /\ 1 \in 1 .. MaxAcl
    BY <1>1, Numbers DEF Acl
  <2> QED
    BY <1>1, <2>1, WhatIsWritten DEF Init
<1>3. jobs \in [Ids -> Job] /\ worker \in [Workers -> Run]
  BY NoJobIsJob, IdleIsRun DEF Init
<1> QED
  BY <1>1, <1>2, <1>3, TypesAreTypeOK DEF Types

\* The commands of managers and members.
LEMMA SetAccessTyped ==
  ASSUME ConvergenceConstantsAssumption, TypeOK,
         NEW u \in Users, NEW p \in Policies, SetAccess(u, p)
  PROVE  TypeOK'
<1>1. Types
  BY TypesAreTypeOK
<1>2. acl.rev + 1 \in 1 .. MaxAcl
  BY <1>1, Numbers DEF SetAccess, Types, Acl
<1>3. acl' \in Acl
  BY <1>1, <1>2 DEF SetAccess, Types, Acl
<1>4. grant' \in [Users -> Stamps]
  BY <1>1, <1>2, WhatIsWritten DEF SetAccess, Types
<1>5. jobs' \in [Ids -> Job]
  <2>1. Free # {} /\ 0 \in 0 .. N /\ acl.rev + 1 \in 0 .. MaxAcl
        /\ NewJob("access", 0, 0, acl.rev + 1, "pending", "all")
    BY <1>2, Numbers DEF SetAccess
  <2> QED
    BY <2>1, JobIsFiled
<1>6. Types'
  BY <1>1, <1>3, <1>4, <1>5 DEF SetAccess, Types
<1> QED
  BY <1>6, TypesAreTypeOK, PTL

\* A standing as the command makes it.
LEMMA NextStanding ==
  ASSUME ConvergenceConstantsAssumption, TypeOK, NEW u \in Users, NEW role \in Ranks,
         NEW banned \in BOOLEAN, NEW m,
         m = [role |-> role, banned |-> banned, rev |-> member[u].rev + 1],
         m.rev <= MaxRevision
  PROVE  m \in Standing /\ m.rev = member[u].rev + 1
<1>1. member[u].rev \in 0 .. MaxRevision
  BY TypesAreTypeOK DEF Types, Standing
<1> QED
  BY <1>1, Numbers DEF Standing

LEMMA ChangeMemberTyped ==
  ASSUME ConvergenceConstantsAssumption, TypeOK,
         NEW u \in Users, NEW m \in Standing, ChangeMember(u, m)
  PROVE  TypeOK'
<1>1. Types
  BY TypesAreTypeOK
<1>2. member' \in [Users -> Standing]
  BY <1>1 DEF ChangeMember, Types
<1>3. grant' \in [Users -> Stamps]
  <2>1. acl.rev \in 1 .. MaxAcl /\ acl.policy \in Policies
    BY <1>1 DEF Types, Acl
  <2>2. Written(acl.policy, acl.rev, m, u) \in Stamps /\ NoGrant \in Stamps
    BY <2>1, WhatIsWritten
  <2> QED
    BY <1>1, <2>2 DEF ChangeMember, Refreshed, Types
<1>4. jobs' \in [Ids -> Job]
  <2>1. Free # {} /\ 0 \in 0 .. N /\ u \in 0 .. N /\ 0 \in 0 .. MaxAcl
        /\ NewJob("member", u, 0, 0, "done", "one")
    BY Numbers DEF ChangeMember, Users
  <2> QED
    BY <2>1, JobIsFiled
<1>5. Types'
  BY <1>1, <1>2, <1>3, <1>4 DEF ChangeMember, Types
<1> QED
  BY <1>5, TypesAreTypeOK, PTL

LEMMA TransferTyped ==
  ASSUME ConvergenceConstantsAssumption, TypeOK, NEW u \in Users, TransferOwnership(u)
  PROVE  TypeOK'
<1>1. Types
  BY TypesAreTypeOK
<1>2. /\ member[u].rev + 1 \in 0 .. MaxRevision
      /\ member[owner].rev + 1 \in 0 .. MaxRevision
  BY <1>1, Numbers DEF TransferOwnership, Types, Standing
<1>3. member' \in [Users -> Standing]
  BY <1>1, <1>2 DEF TransferOwnership, Types, Standing, Ranks
<1>4. jobs' \in [Ids -> Job]
  <2>1. Free # {} /\ owner \in 0 .. N /\ u \in 0 .. N /\ 0 \in 0 .. MaxAcl
        /\ NewJob("transfer", owner, u, 0, "pending", "end")
    BY <1>1, Numbers DEF TransferOwnership, Users, Types
  <2> QED
    BY <2>1, JobIsFiled
<1>5. Types'
  BY <1>1, <1>3, <1>4 DEF TransferOwnership, Types
<1> QED
  BY <1>5, TypesAreTypeOK, PTL

LEMMA TerminateTyped ==
  ASSUME ConvergenceConstantsAssumption, TypeOK,
         NEW u \in Users, NEW status \in {"archived", "deleting"}, Terminate(u, status)
  PROVE  TypeOK'
<1>1. Types
  BY TypesAreTypeOK
<1>2. acl.rev + 1 \in 1 .. MaxAcl /\ acl.policy \in Policies
  BY <1>1, Numbers DEF Terminate, Types, Acl
<1>3. acl' \in Acl
  BY <1>1, <1>2 DEF Terminate, Types, Acl
<1>4. grant' \in [Users -> Stamps]
  <2>1. Written(acl.policy, acl.rev + 1, member[u], u) \in Stamps
    BY <1>1, <1>2, WhatIsWritten DEF Types
  <2> QED
    BY <1>1, <2>1 DEF Terminate, Types
<1>5. jobs' \in [Ids -> Job]
  <2>1. Free # {} /\ 0 \in 0 .. N /\ acl.rev + 1 \in 0 .. MaxAcl
        /\ NewJob("end", 0, 0, acl.rev + 1, "done", "end")
    BY <1>2, Numbers DEF Terminate
  <2> QED
    BY <2>1, JobIsFiled
<1>6. Types'
  BY <1>1, <1>3, <1>4, <1>5 DEF Terminate, Types
<1> QED
  BY <1>6, TypesAreTypeOK, PTL

\* The token handler and the steps of the session itself.
LEMMA SessionTyped ==
  ASSUME ConvergenceConstantsAssumption, TypeOK,
         (\E u \in Users : IssueToken(u)) \/ EndSession \/ FinishEnd \/ Purge
  PROVE  TypeOK'
<1>1. Types
  BY TypesAreTypeOK
<1>2. NoRecipient \in Recipient
  BY Numbers DEF NoRecipient, Recipient
<1>3. recipient' \in [Users -> Recipient]
  <2>1. ASSUME NEW u \in Users, IssueToken(u) PROVE recipient' \in [Users -> Recipient]
    <3>1. [st |-> "active", acl |-> acl.rev, rev |-> member[u].rev] \in Recipient
      BY <1>1, Numbers DEF Types, Acl, Standing, Recipient
    <3> QED
      BY <1>1, <2>1, <3>1 DEF IssueToken, Types
  <2>2. CASE EndSession
    BY <1>1, <2>2 DEF EndSession, Types
  <2>3. CASE FinishEnd
    <3>1. \A u \in Users : [recipient[u] EXCEPT !.st = "revoked"] \in Recipient
      BY <1>1 DEF Types, Recipient
    <3> QED
      BY <2>3, <3>1, <1>2 DEF FinishEnd, Ended
  <2>4. CASE Purge
    BY <2>4, <1>2 DEF Purge
  <2> QED
    BY <2>1, <2>2, <2>3, <2>4
<1>4. session' \in {"live", "ending", "ended", "gone"}
  BY <1>1 DEF IssueToken, EndSession, FinishEnd, Ended, Purge, Types
<1>5. UNCHANGED <<owner, acl, member, grant, jobs, worker, failures>>
  BY DEF IssueToken, EndSession, FinishEnd, Purge
<1>6. Types'
  BY <1>1, <1>3, <1>4, <1>5 DEF Types
<1> QED
  BY <1>6, TypesAreTypeOK, PTL

\* The pages that are planned and projected.
LEMMA PagesTyped ==
  ASSUME ConvergenceConstantsAssumption, TypeOK, Books, NEW i \in Ids
  PROVE  /\ Existing(jobs[i].from) \in SUBSET Users
         /\ FirstOf(Existing(jobs[i].from)) \in SUBSET Users
         /\ LastOf(FirstOf(Existing(jobs[i].from)), jobs[i].from) \in 0 .. N
         /\ After(jobs[i].cursor) \in SUBSET Users
         /\ FirstOf(After(jobs[i].cursor)) \in SUBSET Users
         /\ Recipients(jobs[i]) \in SUBSET Users
         /\ LastOf(Recipients(jobs[i]), jobs[i].cursor) \in 0 .. N
<1>1. jobs[i].from \in 0 .. N /\ jobs[i].cursor \in 0 .. N
  BY TypesAreTypeOK DEF Types, Job
<1>2. Existing(jobs[i].from) \in SUBSET Users /\ After(jobs[i].cursor) \in SUBSET Users
  BY DEF Existing, After
<1>3. /\ FirstOf(Existing(jobs[i].from)) \in SUBSET Users
      /\ FirstOf(After(jobs[i].cursor)) \in SUBSET Users
  BY <1>2 DEF FirstOf
<1>4. Recipients(jobs[i]) \in SUBSET Users
  <2>1. CASE jobs[i].target = "one"
    BY <2>1, Zenon DEF Recipients, Books
  <2>2. CASE jobs[i].target = "all" /\ jobs[i].media # "done"
    BY <2>2, <1>3 DEF Recipients
  <2>3. CASE jobs[i].target # "one" /\ ~(jobs[i].target = "all" /\ jobs[i].media # "done")
    BY <2>3 DEF Recipients
  <2> QED
    BY <2>1, <2>2, <2>3
<1> QED
  BY <1>1, <1>2, <1>3, <1>4, LastIsLast

\* What an invocation notes when it starts.
LEMMA WhatIsPlanned ==
  ASSUME ConvergenceConstantsAssumption, TypeOK, Books,
         NEW w \in Workers, NEW i \in Ids, Plan(w, i)
  PROVE  /\ worker' \in [Workers -> Run]
         /\ \A x \in Workers : x # w => worker'[x] = worker[x]
         /\ worker'[w].job = i /\ worker'[w].at \in {"media", "project"}
         /\ worker'[w].flying = {} /\ ~worker'[w].pending
         /\ worker'[w].page = (IF jobs[i].media = "done" THEN {} ELSE Recipients(jobs[i]))
         /\ worker'[w].pageDone =
              (jobs[i].target = "all" => Cardinality(After(jobs[i].cursor)) <= PageSize)
         /\ worker'[w].last = LastOf(Recipients(jobs[i]), jobs[i].cursor)
<1> DEFINE at == IF jobs[i].grants = "done" THEN "media" ELSE "project"
           page == IF jobs[i].media = "done" THEN {} ELSE Recipients(jobs[i])
           whole == jobs[i].target = "all" => Cardinality(After(jobs[i].cursor)) <= PageSize
           last == LastOf(Recipients(jobs[i]), jobs[i].cursor)
<1>1. worker' = [worker EXCEPT ![w] = [Idle EXCEPT !.job = i, !.at = at, !.page = page,
        !.pageDone = whole, !.cursor = jobs[i].cursor, !.last = last]]
  BY DEF Plan
<1>2. /\ i \in 0 .. MaxJobs /\ at \in {"media", "project"} /\ whole \in BOOLEAN
      /\ page \in SUBSET Users /\ last \in 0 .. N /\ jobs[i].cursor \in 0 .. N
  <2>1. i \in 0 .. MaxJobs
    BY Numbers DEF Ids
  <2>2. Recipients(jobs[i]) \in SUBSET Users /\ last \in 0 .. N
    BY PagesTyped
  <2>3. page \in SUBSET Users
    BY <2>2
  <2>4. whole \in BOOLEAN /\ at \in {"media", "project"}
    OBVIOUS
  <2>5. jobs[i].cursor \in 0 .. N
    BY TypesAreTypeOK DEF Types, Job
  <2> QED
    BY <2>1, <2>2, <2>3, <2>4, <2>5
<1>3. Idle \in Run /\ Idle.flying = {} /\ ~Idle.pending
  BY IdleIsRun DEF Idle
<1> HIDE DEF at, page, whole, last
<1>4. PICK run : run = [Idle EXCEPT !.job = i, !.at = at, !.page = page,
        !.pageDone = whole, !.cursor = jobs[i].cursor, !.last = last]
  OBVIOUS
<1>5. /\ run \in Run /\ run.job = i /\ run.at = at /\ run.flying = {} /\ ~run.pending
      /\ run.page = page /\ run.pageDone = whole /\ run.last = last
  BY <1>2, <1>3, <1>4 DEF Run
<1>6. worker' = [worker EXCEPT ![w] = run] /\ worker \in [Workers -> Run]
  BY <1>1, <1>4, TypesAreTypeOK DEF Types
<1>7. worker'[w] = run /\ \A x \in Workers : x # w => worker'[x] = worker[x]
  BY <1>6
<1>8. worker' \in [Workers -> Run]
  BY <1>5, <1>6
<1> QED
  BY <1>2, <1>5, <1>7, <1>8 DEF at, page, whole, last

\* What the last transaction makes of a job.
LEMMA WhatIsConcluded ==
  ASSUME ConvergenceConstantsAssumption, TypeOK,
         NEW w \in Workers, NEW j \in Job, NEW r,
         r = CompletedIfSettled(Released(Advanced(w, j)))
  PROVE  /\ r \in Job
         /\ r.kind = j.kind /\ r.user = j.user /\ r.heir = j.heir /\ r.acl = j.acl
         /\ r.grants = j.grants /\ r.from = j.from /\ r.target = j.target
         /\ r.status # j.status => r.media = "done" /\ r.status = "completed"
         /\ \/ r.media = j.media /\ r.cursor = j.cursor
            \/ worker[w].pending /\ j.media # "done" /\ r.media # "done" /\ r.cursor = j.cursor
            \/ ~worker[w].pending /\ worker[w].pageDone
            \/ /\ ~worker[w].pending /\ ~worker[w].pageDone
               /\ r.media = "pending" /\ r.cursor = worker[w].last
<1>1. worker[w].last \in 0 .. N /\ worker[w] \in Run /\ 0 \in 0 .. N
  BY TypesAreTypeOK, Numbers DEF Types, Run
<1>2. PICK a : a = Advanced(w, j)
  OBVIOUS
<1>3. /\ a \in Job
      /\ a.kind = j.kind /\ a.user = j.user /\ a.heir = j.heir /\ a.acl = j.acl
      /\ a.grants = j.grants /\ a.from = j.from /\ a.target = j.target
      /\ a.status = j.status
      /\ \/ a.media = j.media /\ a.cursor = j.cursor
         \/ worker[w].pending /\ j.media # "done" /\ a.media # "done" /\ a.cursor = j.cursor
         \/ ~worker[w].pending /\ worker[w].pageDone
         \/ /\ ~worker[w].pending /\ ~worker[w].pageDone
            /\ a.media = "pending" /\ a.cursor = worker[w].last
  BY <1>1, <1>2 DEF Advanced, Job
<1>4. PICK b : b = Released(a)
  OBVIOUS
<1>5. /\ b \in Job
      /\ b.kind = a.kind /\ b.user = a.user /\ b.heir = a.heir /\ b.acl = a.acl
      /\ b.grants = a.grants /\ b.from = a.from /\ b.target = a.target
      /\ b.status = a.status /\ b.media = a.media /\ b.cursor = a.cursor
  BY <1>3, <1>4 DEF Released, Job
<1>6. r = CompletedIfSettled(b)
  BY <1>2, <1>4
<1>7. /\ r \in Job
      /\ r.kind = b.kind /\ r.user = b.user /\ r.heir = b.heir /\ r.acl = b.acl
      /\ r.grants = b.grants /\ r.from = b.from /\ r.target = b.target
      /\ r.media = b.media /\ r.cursor = b.cursor
      /\ r.status # b.status => r.media = "done" /\ r.status = "completed"
  BY <1>5, <1>6 DEF CompletedIfSettled, Settled, Job
<1> QED
  BY <1>3, <1>5, <1>7

\* Fields of an invocation and of a job that are written together, one by one.
LEMMA RunIsSkipped ==
  ASSUME TypeOK, NEW w \in Workers
  PROVE  worker' = [worker EXCEPT ![w].at = "final", ![w].pending = TRUE] =>
         /\ worker' \in [Workers -> Run]
         /\ \A x \in Workers : x # w => worker'[x] = worker[x]
         /\ worker'[w].at = "final" /\ worker'[w].pending /\ worker'[w].job = worker[w].job
         /\ worker'[w].page = worker[w].page /\ worker'[w].flying = worker[w].flying
         /\ worker'[w].pageDone = worker[w].pageDone /\ worker'[w].last = worker[w].last
<1>1. HAVE worker' = [worker EXCEPT ![w].at = "final", ![w].pending = TRUE]
<1> DEFINE p == TRUE
<1>2. worker' = [worker EXCEPT ![w].at = "final", ![w].pending = p]
  BY <1>1
<1>3. worker \in [Workers -> Run] /\ p \in BOOLEAN
  BY TypesAreTypeOK DEF Types
<1> HIDE DEF p
<1>4. PICK g : g = [worker EXCEPT ![w].at = "final"]
  OBVIOUS
<1>5. /\ g \in [Workers -> Run]
      /\ \A x \in Workers : x # w => g[x] = worker[x]
      /\ g[w].at = "final" /\ g[w].job = worker[w].job
      /\ g[w].page = worker[w].page /\ g[w].flying = worker[w].flying
      /\ g[w].pageDone = worker[w].pageDone /\ g[w].last = worker[w].last
  BY <1>3, <1>4 DEF Run
<1>6. worker' = [g EXCEPT ![w].pending = p]
  BY <1>2, <1>4
<1>7. /\ worker' \in [Workers -> Run]
      /\ \A x \in Workers : x # w => worker'[x] = g[x]
      /\ worker'[w].pending = p /\ worker'[w].at = g[w].at /\ worker'[w].job = g[w].job
      /\ worker'[w].page = g[w].page /\ worker'[w].flying = g[w].flying
      /\ worker'[w].pageDone = g[w].pageDone /\ worker'[w].last = g[w].last
  BY <1>3, <1>5, <1>6 DEF Run
<1>8. worker'[w].pending
  BY <1>7 DEF p
<1> QED
  BY <1>5, <1>7, <1>8

LEMMA FieldsOfJob ==
  ASSUME NEW g \in [Ids -> Job], NEW i \in Ids
  PROVE  /\ \A w \in Workers : [g EXCEPT ![i].lease = w] \in [Ids -> Job]
         /\ \A c \in 0 .. N : [g EXCEPT ![i].from = c] \in [Ids -> Job]
         /\ \A st \in {"pending", "done"} : [g EXCEPT ![i].grants = st] \in [Ids -> Job]
BY DEF Job

LEMMA ExpiredOfJob ==
  ASSUME NEW g \in [Ids -> Job], NEW i \in Ids, NEW b \in BOOLEAN
  PROVE  [g EXCEPT ![i].expired = b] \in [Ids -> Job]
BY DEF Job

LEMMA TwoOfJob ==
  ASSUME jobs \in [Ids -> Job], NEW i \in Ids, NEW f,
         \/ \E w \in Workers : f = [jobs EXCEPT ![i].lease = w, ![i].expired = FALSE]
         \/ \E last \in 0 .. N : \E grants \in {"pending", "done"} :
              f = [jobs EXCEPT ![i].from = last, ![i].grants = grants]
  PROVE  f \in [Ids -> Job]
<1>1. ASSUME NEW w \in Workers, f = [jobs EXCEPT ![i].lease = w, ![i].expired = FALSE]
      PROVE  f \in [Ids -> Job]
  <2>1. PICK g : g = [jobs EXCEPT ![i].lease = w]
    OBVIOUS
  <2>2. g \in [Ids -> Job]
    BY <2>1, FieldsOfJob
  <2>3. f = [g EXCEPT ![i].expired = FALSE]
    BY <1>1, <2>1
  <2>4. [g EXCEPT ![i].expired = FALSE] \in [Ids -> Job]
    BY <2>2, ExpiredOfJob
  <2> QED
    BY <2>3, <2>4
<1>2. ASSUME NEW last \in 0 .. N, NEW grants \in {"pending", "done"},
             f = [jobs EXCEPT ![i].from = last, ![i].grants = grants]
      PROVE  f \in [Ids -> Job]
  <2>1. PICK g : g = [jobs EXCEPT ![i].from = last]
    OBVIOUS
  <2>2. g \in [Ids -> Job]
    BY <2>1, FieldsOfJob
  <2>3. f = [g EXCEPT ![i].grants = grants]
    BY <1>2, <2>1
  <2> QED
    BY <2>2, <2>3, FieldsOfJob
<1> QED
  BY <1>1, <1>2

\* A participant of the page is settled, or found in doubt.
LEMMA WhatIsAnswered ==
  ASSUME TypeOK, NEW w \in Workers, NEW u \in Users,
         NEW pending \in BOOLEAN, NEW doubt \in BOOLEAN, Answer(w, u, pending, doubt)
  PROVE  /\ worker' \in [Workers -> Run]
         /\ \A x \in Workers : x # w => worker'[x] = worker[x]
         /\ worker'[w].page = worker[w].page \ {u}
         /\ worker'[w].flying = worker[w].flying \ {u}
         /\ worker'[w].pending = (worker[w].pending \/ pending)
         /\ worker'[w].job = worker[w].job /\ worker'[w].at = worker[w].at
         /\ worker'[w].pageDone = worker[w].pageDone /\ worker'[w].last = worker[w].last
<1> DEFINE p == worker[w].pending \/ pending
           d == worker[w].doubt \/ doubt
<1>1. worker' = [worker EXCEPT ![w].page = @ \ {u}, ![w].flying = @ \ {u},
                               ![w].pending = p, ![w].doubt = d]
  BY DEF Answer
<1>2. worker \in [Workers -> Run] /\ p \in BOOLEAN /\ d \in BOOLEAN
  BY TypesAreTypeOK DEF Types
<1> HIDE DEF p, d
<1>3. PICK f : f = [worker EXCEPT ![w].page = @ \ {u}]
  OBVIOUS
<1>4. /\ f \in [Workers -> Run]
      /\ \A x \in Workers : x # w => f[x] = worker[x]
      /\ f[w].page = worker[w].page \ {u} /\ f[w].flying = worker[w].flying
      /\ f[w].job = worker[w].job /\ f[w].at = worker[w].at
      /\ f[w].pageDone = worker[w].pageDone /\ f[w].last = worker[w].last
  BY <1>2, <1>3 DEF Run
<1>5. PICK g : g = [f EXCEPT ![w].flying = worker[w].flying \ {u}]
  OBVIOUS
<1>6. /\ g \in [Workers -> Run]
      /\ \A x \in Workers : x # w => g[x] = worker[x]
      /\ g[w].page = worker[w].page \ {u} /\ g[w].flying = worker[w].flying \ {u}
      /\ g[w].job = worker[w].job /\ g[w].at = worker[w].at
      /\ g[w].pageDone = worker[w].pageDone /\ g[w].last = worker[w].last
  BY <1>2, <1>4, <1>5 DEF Run
<1>7. PICK h : h = [g EXCEPT ![w].pending = p]
  OBVIOUS
<1>8. /\ h \in [Workers -> Run]
      /\ \A x \in Workers : x # w => h[x] = worker[x]
      /\ h[w].page = worker[w].page \ {u} /\ h[w].flying = worker[w].flying \ {u}
      /\ h[w].job = worker[w].job /\ h[w].at = worker[w].at /\ h[w].pending = p
      /\ h[w].pageDone = worker[w].pageDone /\ h[w].last = worker[w].last
  BY <1>2, <1>6, <1>7 DEF Run
<1>9. worker' = [h EXCEPT ![w].doubt = d]
  <2>1. f[w].flying = worker[w].flying
    BY <1>4
  <2> QED
    BY <1>1, <1>3, <1>5, <1>7
<1>10. /\ worker' \in [Workers -> Run]
       /\ \A x \in Workers : x # w => worker'[x] = worker[x]
       /\ worker'[w].page = worker[w].page \ {u}
       /\ worker'[w].flying = worker[w].flying \ {u}
       /\ worker'[w].pending = p
       /\ worker'[w].job = worker[w].job /\ worker'[w].at = worker[w].at
       /\ worker'[w].pageDone = worker[w].pageDone /\ worker'[w].last = worker[w].last
  BY <1>2, <1>8, <1>9 DEF Run
<1> QED
  BY <1>10 DEF p

\* The two transactions around the provider's removal, and its failure.
LEMMA ReconcileTyped ==
  ASSUME ConvergenceConstantsAssumption, TypeOK, NEW w \in Workers, NEW u \in Users,
         Reconcile(w, u) \/ Acknowledge(w, u) \/ ProviderFails(w, u)
  PROVE  TypeOK'
<1>1. Types
  BY TypesAreTypeOK
<1>2. \/ UNCHANGED recipient
      \/ recipient' = [recipient EXCEPT ![u].st = "revoking"]
      \/ recipient' = [recipient EXCEPT ![u].st = "revoked"]
      \/ recipient' = [recipient EXCEPT ![u].st = "uncertain"]
  BY DEF Reconcile, Acknowledge, ProviderFails
<1>3. \/ \E pending, doubt \in BOOLEAN : Answer(w, u, pending, doubt)
      \/ worker' = [worker EXCEPT ![w].flying = @ \cup {u}]
  BY Zenon DEF Reconcile, Acknowledge, ProviderFails
<1>4. failures' = failures \/ (failures < MaxFailures /\ failures' = failures + 1)
  BY DEF Reconcile, Acknowledge, ProviderFails
<1>5. UNCHANGED <<owner, acl, member, grant, session, jobs>>
  BY DEF Reconcile, Acknowledge, ProviderFails
<1>6. recipient' \in [Users -> Recipient]
  BY <1>1, <1>2 DEF Types, Recipient
<1>7. worker' \in [Workers -> Run]
  <2>1. ASSUME NEW pending \in BOOLEAN, NEW doubt \in BOOLEAN, Answer(w, u, pending, doubt)
        PROVE  worker' \in [Workers -> Run]
    BY <2>1, WhatIsAnswered
  <2>2. CASE worker' = [worker EXCEPT ![w].flying = @ \cup {u}]
    BY <1>1, <2>2 DEF Types, Run
  <2> QED
    BY <1>3, <2>1, <2>2
<1>8. failures' \in 0 .. MaxFailures
  BY <1>1, <1>4, Numbers DEF Types
<1>9. Types'
  BY <1>1, <1>5, <1>6, <1>7, <1>8 DEF Types
<1> QED
  BY <1>9, TypesAreTypeOK, PTL

LEMMA ProjectTyped ==
  ASSUME ConvergenceConstantsAssumption, TypeOK, Books, NEW w \in Workers, Project(w)
  PROVE  TypeOK'
<1>1. Types
  BY TypesAreTypeOK
<1> DEFINE i == worker[w].job
<1>2. i \in Ids
  BY DEF Project, Books
<1>3. \A page : Projected(page) => grant' \in [Users -> Stamps]
  <2>1. /\ acl.rev \in 1 .. MaxAcl /\ acl.policy \in Policies
        /\ member \in [Users -> Standing] /\ grant \in [Users -> Stamps]
    BY <1>1 DEF Types, Acl
  <2>2. \A u \in Users : /\ Written(acl.policy, acl.rev, member[u], u) \in Stamps
                         /\ NoGrant \in Stamps
    BY <2>1, WhatIsWritten
  <2> QED
    BY <2>1, <2>2 DEF Projected
<1>4. grant' \in [Users -> Stamps]
  BY <1>1, <1>3 DEF Project, Types
<1>5. jobs' \in [Ids -> Job]
  <2>1. LastOf(FirstOf(Existing(jobs[i].from)), jobs[i].from) \in 0 .. N
    BY <1>2, PagesTyped
  <2>2. jobs \in [Ids -> Job] /\ jobs[i] \in Job
    BY <1>1, <1>2 DEF Types
  <2>3. ASSUME NEW last \in 0 .. N, NEW grants \in {"done", "pending"},
               jobs' = [jobs EXCEPT ![i].from = last, ![i].grants = grants]
        PROVE  jobs' \in [Ids -> Job]
    BY <1>2, <2>2, <2>3, TwoOfJob
  <2>4. CASE jobs' = [jobs EXCEPT ![i].grants = "done"]
    BY <2>2, <2>4 DEF Job
  <2>5. CASE UNCHANGED jobs
    BY <2>2, <2>5
  <2> HIDE DEF i
  <2> QED
    BY <2>1, <2>3, <2>4, <2>5 DEF Project, i
<1>6. worker' \in [Workers -> Run]
  <2>1. worker' = [worker EXCEPT ![w].at = "media"]
    BY DEF Project
  <2>2. worker \in [Workers -> Run]
    BY <1>1 DEF Types
  <2> HIDE DEF i
  <2> QED
    BY <2>1, <2>2 DEF Run
<1>7. Types'
  BY <1>1, <1>4, <1>5, <1>6 DEF Project, Types
<1> QED
  BY <1>7, TypesAreTypeOK, PTL

LEMMA PlanTyped ==
  ASSUME ConvergenceConstantsAssumption, TypeOK, Books,
         NEW w \in Workers, NEW i \in Ids, Plan(w, i)
  PROVE  TypeOK'
<1>1. Types /\ jobs \in [Ids -> Job]
  BY TypesAreTypeOK DEF Types
<1>2. worker' \in [Workers -> Run]
  BY WhatIsPlanned
<1>3. jobs' = [jobs EXCEPT ![i].lease = w, ![i].expired = FALSE]
  BY DEF Plan
<1>4. jobs' \in [Ids -> Job]
  BY <1>1, <1>3, TwoOfJob
<1>5. Types'
  BY <1>1, <1>2, <1>4 DEF Plan, Types
<1> QED
  BY <1>5, TypesAreTypeOK, PTL

LEMMA ProjectionFailsTyped ==
  ASSUME ConvergenceConstantsAssumption, TypeOK, NEW w \in Workers, ProjectionFails(w)
  PROVE  TypeOK'
<1>1. Types /\ worker \in [Workers -> Run]
  BY TypesAreTypeOK DEF Types
<1>2. worker' = [worker EXCEPT ![w].at = "final", ![w].pending = TRUE]
  BY DEF ProjectionFails
<1>3. worker' \in [Workers -> Run]
  BY <1>2, RunIsSkipped
<1>4. failures' \in 0 .. MaxFailures
  BY <1>1, Numbers DEF ProjectionFails, Types
<1>5. Types'
  BY <1>1, <1>3, <1>4 DEF ProjectionFails, Types
<1> QED
  BY <1>5, TypesAreTypeOK, PTL

LEMMA EndPageTyped ==
  ASSUME ConvergenceConstantsAssumption, TypeOK, NEW w \in Workers, EndPage(w)
  PROVE  TypeOK'
<1>1. Types /\ worker \in [Workers -> Run]
  BY TypesAreTypeOK DEF Types
<1>2. \/ worker' = [worker EXCEPT ![w].at = "final", ![w].pending = TRUE]
      \/ worker' = [worker EXCEPT ![w].at = "final"]
  BY DEF EndPage
<1>3. worker' \in [Workers -> Run]
  <2>1. CASE worker' = [worker EXCEPT ![w].at = "final", ![w].pending = TRUE]
    BY <2>1, RunIsSkipped
  <2>2. CASE worker' = [worker EXCEPT ![w].at = "final"]
    BY <1>1, <2>2 DEF Run
  <2> QED
    BY <1>2, <2>1, <2>2
<1>4. Ended \/ UNCHANGED <<session, recipient>>
  BY DEF EndPage
<1>5. recipient' \in [Users -> Recipient]
  <2>1. NoRecipient \in Recipient
    BY Numbers DEF NoRecipient, Recipient
  <2>2. \A u \in Users : [recipient[u] EXCEPT !.st = "revoked"] \in Recipient
    BY <1>1 DEF Types, Recipient
  <2> QED
    BY <1>1, <1>4, <2>1, <2>2 DEF Ended, Types
<1>6. session' \in {"live", "ending", "ended", "gone"}
  BY <1>1, <1>4 DEF Ended, Types
<1>7. UNCHANGED <<owner, acl, member, grant, jobs, failures>>
  BY DEF EndPage
<1>8. Types'
  BY <1>1, <1>3, <1>5, <1>6, <1>7 DEF Types
<1> QED
  BY <1>8, TypesAreTypeOK, PTL

LEMMA ConcludeTyped ==
  ASSUME ConvergenceConstantsAssumption, TypeOK, Books, NEW w \in Workers, Conclude(w)
  PROVE  TypeOK'
<1>1. Types
  BY TypesAreTypeOK
<1>2. worker' \in [Workers -> Run]
  BY <1>1, IdleIsRun DEF Conclude, Types
<1>3. worker[w].job \in Ids
  BY DEF Conclude, Done, Books
<1>4. jobs[worker[w].job] \in Job
  BY <1>1, <1>3 DEF Types
<1>5. CompletedIfSettled(Released(Advanced(w, jobs[worker[w].job]))) \in Job
  BY <1>4, WhatIsConcluded
<1>6. jobs' \in [Ids -> Job]
  BY <1>1, <1>5 DEF Conclude, Types
<1>7. Types'
  BY <1>1, <1>2, <1>6 DEF Conclude, Types
<1> QED
  BY <1>7, TypesAreTypeOK, PTL

LEMMA WorkerDiesTyped ==
  ASSUME ConvergenceConstantsAssumption, TypeOK, NEW w \in Workers, WorkerDies(w)
  PROVE  TypeOK'
<1>1. Types
  BY TypesAreTypeOK
<1>2. worker' \in [Workers -> Run] /\ failures' \in 0 .. MaxFailures
  BY <1>1, IdleIsRun, Numbers DEF WorkerDies, Types
<1>3. Types'
  BY <1>1, <1>2 DEF WorkerDies, Types
<1> QED
  BY <1>3, TypesAreTypeOK, PTL

LEMMA JobStepsTyped ==
  ASSUME ConvergenceConstantsAssumption, TypeOK, NEW i \in Ids,
         CompleteJob(i) \/ LeaseExpires(i)
  PROVE  TypeOK'
<1>1. Types
  BY TypesAreTypeOK
<1>2. \/ jobs' = [jobs EXCEPT ![i].status = "completed"]
      \/ jobs' = [jobs EXCEPT ![i].expired = TRUE]
  BY DEF CompleteJob, LeaseExpires
<1>3. jobs' \in [Ids -> Job]
  <2>1. jobs \in [Ids -> Job]
    BY <1>1 DEF Types
  <2>2. CASE jobs' = [jobs EXCEPT ![i].status = "completed"]
    BY <2>1, <2>2 DEF Job
  <2>3. CASE jobs' = [jobs EXCEPT ![i].expired = TRUE]
    BY <2>1, <2>3, ExpiredOfJob
  <2> QED
    BY <1>2, <2>2, <2>3
<1>4. failures' \in 0 .. MaxFailures
  BY <1>1, Numbers DEF CompleteJob, LeaseExpires, Types
<1>5. UNCHANGED <<owner, acl, member, grant, session, recipient, worker>>
  BY DEF CompleteJob, LeaseExpires
<1>6. Types'
  BY <1>1, <1>3, <1>4, <1>5 DEF Types
<1> QED
  BY <1>6, TypesAreTypeOK, PTL

\* The next-state relation, with the standings a command can make.
Commanded ==
  \/ \E u \in Users, p \in Policies : SetAccess(u, p)
  \/ \E u \in Users, m \in Standing : ChangeMember(u, m)
  \/ \E u \in Users : TransferOwnership(u)
  \/ \E u \in Users, status \in {"archived", "deleting"} : Terminate(u, status)

Other ==
  \/ \E u \in Users : IssueToken(u)
  \/ EndSession \/ FinishEnd \/ Purge
  \/ \E w \in Workers :
       \/ \E i \in Ids : Plan(w, i)
       \/ Project(w) \/ ProjectionFails(w) \/ EndPage(w) \/ Conclude(w) \/ WorkerDies(w)
       \/ \E u \in Users : Reconcile(w, u) \/ Acknowledge(w, u) \/ ProviderFails(w, u)
  \/ \E i \in Ids : CompleteJob(i) \/ LeaseExpires(i)

LEMMA StepsOfNext ==
  ASSUME ConvergenceConstantsAssumption, TypeOK, Next
  PROVE  Commanded \/ Other
<1>1. ASSUME NEW u \in Users, NEW role \in Ranks, NEW banned \in BOOLEAN,
             ChangeMember(u, [role |-> role, banned |-> banned, rev |-> member[u].rev + 1])
      PROVE  Commanded
  <2>1. PICK m : m = [role |-> role, banned |-> banned, rev |-> member[u].rev + 1]
    OBVIOUS
  <2>2. ChangeMember(u, m)
    BY <1>1, <2>1
  <2>3. m.rev <= MaxRevision
    BY <2>2 DEF ChangeMember
  <2>4. m \in Standing
    BY <2>1, <2>3, NextStanding
  <2> QED
    BY <2>2, <2>4 DEF Commanded
<1>2. Command => Commanded \/ Other
  BY <1>1, Zenon DEF Command, Commanded, Other
<1> QED
  BY <1>2, Zenon DEF Next, WorkerStep, Fault, Other

LEMMA NextTyped ==
  ASSUME ConvergenceConstantsAssumption, TypeOK, Books, [Next]_vars
  PROVE  TypeOK'
<1>1. CASE UNCHANGED vars
  <2>1. TypeOK <=> TypeOK'
    BY <1>1, Zenon DEF vars, TypeOK
  <2> QED
    BY <2>1
<1>2. CASE Commanded
  BY <1>2, SetAccessTyped, ChangeMemberTyped, TransferTyped, TerminateTyped, Zenon
     DEF Commanded
<1>3. CASE Other
  BY <1>3, SessionTyped, PlanTyped, ProjectTyped, ProjectionFailsTyped, EndPageTyped,
     ConcludeTyped, WorkerDiesTyped, ReconcileTyped, JobStepsTyped, Zenon DEF Other
<1> QED
  BY <1>1, <1>2, <1>3, StepsOfNext

------------------------
(***************************************************************************)
(* What the steps leave alone.                                             *)
(***************************************************************************)

\* What a job is about never changes, and only a projection pays its grants.
SameJob(i) ==
  /\ jobs'[i].kind = jobs[i].kind /\ jobs'[i].user = jobs[i].user
  /\ jobs'[i].heir = jobs[i].heir /\ jobs'[i].acl = jobs[i].acl
  /\ jobs'[i].target = jobs[i].target
SameGrants(i) == jobs'[i].grants = jobs[i].grants /\ jobs'[i].from = jobs[i].from

\* Only the last transaction of an invocation settles media or moves the cursor.
SameMedia(i) == jobs'[i].media = jobs[i].media /\ jobs'[i].cursor = jobs[i].cursor

LEMMA PlanKeepsJobs ==
  ASSUME TypeOK, NEW w \in Workers, NEW i \in Ids, Plan(w, i)
  PROVE  \A k \in Ids : SameJob(k) /\ SameGrants(k) /\ SameMedia(k)
                          /\ jobs'[k].status = jobs[k].status
<1>1. jobs \in [Ids -> Job] /\ jobs' = [jobs EXCEPT ![i].lease = w, ![i].expired = FALSE]
  BY TypesAreTypeOK DEF Types, Plan
<1>2. PICK g : g = [jobs EXCEPT ![i].lease = w]
  OBVIOUS
<1>3. \A k \in Ids :
        /\ g[k].kind = jobs[k].kind /\ g[k].user = jobs[k].user /\ g[k].heir = jobs[k].heir
        /\ g[k].acl = jobs[k].acl /\ g[k].target = jobs[k].target
        /\ g[k].grants = jobs[k].grants /\ g[k].from = jobs[k].from
        /\ g[k].media = jobs[k].media /\ g[k].cursor = jobs[k].cursor
        /\ g[k].status = jobs[k].status
  BY <1>1, <1>2 DEF Job
<1>4. g \in [Ids -> Job]
  BY <1>1, <1>2, FieldsOfJob
<1>5. jobs' = [g EXCEPT ![i].expired = FALSE]
  BY <1>1, <1>2
<1>6. \A k \in Ids :
        /\ jobs'[k].kind = g[k].kind /\ jobs'[k].user = g[k].user
        /\ jobs'[k].heir = g[k].heir
        /\ jobs'[k].acl = g[k].acl /\ jobs'[k].target = g[k].target
        /\ jobs'[k].grants = g[k].grants /\ jobs'[k].from = g[k].from
        /\ jobs'[k].media = g[k].media /\ jobs'[k].cursor = g[k].cursor
        /\ jobs'[k].status = g[k].status
  BY <1>4, <1>5 DEF Job
<1> QED
  BY <1>3, <1>6 DEF SameJob, SameGrants, SameMedia

LEMMA JobStepsKeepJobs ==
  ASSUME TypeOK, NEW i \in Ids, CompleteJob(i) \/ LeaseExpires(i)
  PROVE  \A k \in Ids : /\ SameJob(k) /\ SameGrants(k) /\ SameMedia(k)
                        /\ jobs'[k].status # jobs[k].status =>
                             jobs[k].status = "pending" /\ jobs[k].media = "done"
<1>1. jobs \in [Ids -> Job]
  BY TypesAreTypeOK DEF Types
<1>2. CASE CompleteJob(i)
  BY <1>1, <1>2 DEF CompleteJob, Settled, Job, SameJob, SameGrants, SameMedia
<1>3. CASE LeaseExpires(i)
  <2>1. jobs' = [jobs EXCEPT ![i].expired = TRUE]
    BY <1>3 DEF LeaseExpires
  <2> QED
    BY <1>1, <2>1 DEF Job, SameJob, SameGrants, SameMedia
<1> QED
  BY <1>2, <1>3

LEMMA ProjectKeepsJobs ==
  ASSUME TypeOK, Books, NEW w \in Workers, Project(w)
  PROVE  /\ \A k \in Ids : SameJob(k) /\ SameMedia(k) /\ jobs'[k].status = jobs[k].status
         /\ \A k \in Ids : k # worker[w].job => SameGrants(k)
         /\ worker[w].job \in Ids /\ jobs[worker[w].job].kind # "none"
<1> DEFINE i == worker[w].job
           last == LastOf(FirstOf(Existing(jobs[i].from)), jobs[i].from)
<1>1. i \in Ids /\ jobs[i].kind # "none" /\ jobs \in [Ids -> Job]
  BY TypesAreTypeOK DEF Project, Books, Types
<1>2. \/ UNCHANGED jobs
      \/ jobs' = [jobs EXCEPT ![i].grants = "done"]
      \/ \E grants \in {"done", "pending"} :
           jobs' = [jobs EXCEPT ![i].from = last, ![i].grants = grants]
  BY DEF Project
<1> HIDE DEF i, last
<1>3. ASSUME NEW k \in Ids
      PROVE  /\ SameJob(k) /\ SameMedia(k) /\ jobs'[k].status = jobs[k].status
             /\ k # i => SameGrants(k)
  <2>1. ASSUME NEW grants,
               jobs' = [jobs EXCEPT ![i].from = last, ![i].grants = grants]
        PROVE  /\ SameJob(k) /\ SameMedia(k) /\ jobs'[k].status = jobs[k].status
               /\ k # i => SameGrants(k)
    <3>1. CASE k # i
      BY <1>1, <2>1, <3>1 DEF SameJob, SameGrants, SameMedia
    <3>2. CASE k = i
      BY <1>1, <2>1, <3>2 DEF Job, SameJob, SameMedia
    <3> QED
      BY <3>1, <3>2
  <2>2. CASE jobs' = [jobs EXCEPT ![i].grants = "done"]
    <3>1. CASE k # i
      BY <1>1, <2>2, <3>1 DEF SameJob, SameGrants, SameMedia
    <3>2. CASE k = i
      BY <1>1, <2>2, <3>2 DEF Job, SameJob, SameMedia
    <3> QED
      BY <3>1, <3>2
  <2>3. CASE UNCHANGED jobs
    BY <2>3 DEF SameJob, SameGrants, SameMedia
  <2> QED
    BY <1>2, <2>1, <2>2, <2>3
<1> QED
  BY <1>1, <1>3 DEF i

LEMMA ConcludeKeepsJobs ==
  ASSUME ConvergenceConstantsAssumption, TypeOK, Books, NEW w \in Workers, Conclude(w)
  PROVE  /\ \A k \in Ids : SameJob(k) /\ SameGrants(k)
         /\ \A k \in Ids : k # worker[w].job => jobs'[k] = jobs[k]
         /\ worker[w].job \in Ids /\ jobs[worker[w].job].kind # "none"
         /\ \/ UNCHANGED jobs
            \/ jobs'[worker[w].job] =
                 CompletedIfSettled(Released(Advanced(w, jobs[worker[w].job])))
<1> DEFINE i == worker[w].job
           r == CompletedIfSettled(Released(Advanced(w, jobs[i])))
<1>1. i \in Ids /\ jobs[i].kind # "none" /\ jobs \in [Ids -> Job]
  BY TypesAreTypeOK DEF Conclude, Done, Books, Types
<1>2. UNCHANGED jobs \/ jobs' = [jobs EXCEPT ![i] = r]
  BY DEF Conclude
<1>3. jobs[i] \in Job
  BY <1>1
<1>4. /\ r.kind = jobs[i].kind /\ r.user = jobs[i].user /\ r.heir = jobs[i].heir
      /\ r.acl = jobs[i].acl /\ r.grants = jobs[i].grants /\ r.from = jobs[i].from
      /\ r.target = jobs[i].target
  BY <1>3, WhatIsConcluded
<1> HIDE DEF i, r
<1>5. CASE UNCHANGED jobs
  BY <1>1, <1>5 DEF SameJob, SameGrants, i
<1>6. CASE jobs' = [jobs EXCEPT ![i] = r]
  <2>1. jobs'[i] = r /\ \A k \in Ids : k # i => jobs'[k] = jobs[k]
    BY <1>1, <1>6
  <2>2. \A k \in Ids : SameJob(k) /\ SameGrants(k)
    BY <1>4, <2>1 DEF SameJob, SameGrants
  <2> QED
    BY <1>1, <2>1, <2>2 DEF i, r
<1> QED
  BY <1>2, <1>5, <1>6

\* An invocation stays on its job and its page, and what was skipped stays skipped.
SameRun(x) ==
  /\ worker'[x].job = worker[x].job
  /\ worker'[x].pageDone = worker[x].pageDone /\ worker'[x].last = worker[x].last
  /\ (worker'[x].at = "idle") <=> (worker[x].at = "idle")
  /\ worker[x].pending => worker'[x].pending

LEMMA ProjectRun ==
  ASSUME TypeOK, NEW w \in Workers, Project(w)
  PROVE  /\ SameRun(w) /\ worker'[w].at = "media"
         /\ worker'[w].page = worker[w].page /\ worker'[w].flying = worker[w].flying
         /\ \A x \in Workers : x # w => worker'[x] = worker[x]
<1>1. /\ worker' = [worker EXCEPT ![w].at = "media"] /\ worker[w].at = "project"
      /\ worker \in [Workers -> Run]
  BY TypesAreTypeOK DEF Types, Project
<1> QED
  BY <1>1 DEF Run, SameRun

LEMMA ProjectionFailsRun ==
  ASSUME TypeOK, NEW w \in Workers, ProjectionFails(w)
  PROVE  /\ SameRun(w) /\ worker'[w].pending
         /\ worker'[w].page = worker[w].page /\ worker'[w].flying = worker[w].flying
         /\ \A x \in Workers : x # w => worker'[x] = worker[x]
<1>1. worker' = [worker EXCEPT ![w].at = "final", ![w].pending = TRUE]
  BY DEF ProjectionFails
<1>2. worker[w].at = "project"
  BY DEF ProjectionFails
<1> QED
  BY <1>1, <1>2, RunIsSkipped DEF SameRun

LEMMA EndPageRun ==
  ASSUME TypeOK, NEW w \in Workers, EndPage(w)
  PROVE  /\ SameRun(w)
         /\ worker'[w].page = worker[w].page /\ worker'[w].flying = worker[w].flying
         /\ \A x \in Workers : x # w => worker'[x] = worker[x]
<1>1. \/ worker' = [worker EXCEPT ![w].at = "final", ![w].pending = TRUE]
      \/ worker' = [worker EXCEPT ![w].at = "final"]
  BY DEF EndPage
<1>2. worker[w].at = "media"
  BY DEF EndPage
<1>3. CASE worker' = [worker EXCEPT ![w].at = "final"]
  <2>1. worker \in [Workers -> Run]
    BY TypesAreTypeOK DEF Types
  <2> QED
    BY <1>2, <1>3, <2>1 DEF Run, SameRun
<1>4. CASE worker' = [worker EXCEPT ![w].at = "final", ![w].pending = TRUE]
  BY <1>2, <1>4, RunIsSkipped DEF SameRun
<1> QED
  BY <1>1, <1>3, <1>4

\* The first transaction settles the recipient, skips it, or takes it into flight.
LEMMA ReconcileRun ==
  ASSUME TypeOK, NEW w \in Workers, NEW u \in Users, Reconcile(w, u)
  PROVE  /\ SameRun(w) /\ worker'[w].at = worker[w].at
         /\ \A x \in Workers : x # w => worker'[x] = worker[x]
         /\ \/ /\ worker'[w].page = worker[w].page \ {u}
               /\ worker'[w].flying = worker[w].flying \ {u} /\ UNCHANGED recipient
               /\ worker'[w].pending \/ recipient[u].st # "active" \/ UpToDate(u)
            \/ /\ worker'[w].page = worker[w].page
               /\ worker'[w].flying = worker[w].flying \cup {u}
               /\ recipient[u].st = "active" /\ ~UpToDate(u)
               /\ recipient' = [recipient EXCEPT ![u].st = "revoking"]
<1>1. \/ /\ recipient[u].st # "active" \/ UpToDate(u)
         /\ Answer(w, u, FALSE, FALSE) /\ UNCHANGED recipient
      \/ /\ recipient[u].st # "active"
         /\ \E p, doubt \in BOOLEAN : p /\ Answer(w, u, p, doubt)
         /\ UNCHANGED recipient
      \/ /\ recipient[u].st = "active" /\ ~UpToDate(u)
         /\ recipient' = [recipient EXCEPT ![u].st = "revoking"]
         /\ worker' = [worker EXCEPT ![w].flying = @ \cup {u}]
  BY Zenon DEF Reconcile
<1>2. CASE /\ recipient[u].st # "active" \/ UpToDate(u)
           /\ Answer(w, u, FALSE, FALSE) /\ UNCHANGED recipient
  BY <1>2, WhatIsAnswered DEF SameRun
<1>3. CASE /\ recipient[u].st # "active"
           /\ \E p, doubt \in BOOLEAN : p /\ Answer(w, u, p, doubt)
           /\ UNCHANGED recipient
  <2>1. PICK p \in BOOLEAN, doubt \in BOOLEAN : p /\ Answer(w, u, p, doubt)
    BY <1>3
  <2>2. /\ worker'[w].job = worker[w].job /\ worker'[w].at = worker[w].at
        /\ worker'[w].pageDone = worker[w].pageDone /\ worker'[w].last = worker[w].last
        /\ worker'[w].page = worker[w].page \ {u}
        /\ worker'[w].flying = worker[w].flying \ {u}
        /\ worker'[w].pending = (worker[w].pending \/ p)
        /\ \A x \in Workers : x # w => worker'[x] = worker[x]
    BY <2>1, WhatIsAnswered
  <2> QED
    BY <1>3, <2>1, <2>2 DEF SameRun
<1>4. CASE /\ recipient[u].st = "active" /\ ~UpToDate(u)
           /\ recipient' = [recipient EXCEPT ![u].st = "revoking"]
           /\ worker' = [worker EXCEPT ![w].flying = @ \cup {u}]
  <2>1. worker \in [Workers -> Run]
    BY TypesAreTypeOK DEF Types
  <2> QED
    BY <1>4, <2>1 DEF Run, SameRun
<1> QED
  BY <1>1, <1>2, <1>3, <1>4

\* The provider's answer settles the recipient, or leaves it in doubt.
LEMMA AnsweredRun ==
  ASSUME TypeOK, NEW w \in Workers, NEW u \in Users,
         Acknowledge(w, u) \/ ProviderFails(w, u)
  PROVE  /\ SameRun(w) /\ worker'[w].at = worker[w].at /\ u \in worker[w].flying
         /\ worker'[w].page = worker[w].page \ {u}
         /\ worker'[w].flying = worker[w].flying \ {u}
         /\ \A x \in Workers : x # w => worker'[x] = worker[x]
         /\ recipient[u].st # "revoking" => UNCHANGED recipient
         /\ recipient[u].st = "revoking" =>
              \E st \in {"revoked", "uncertain"} :
                recipient' = [recipient EXCEPT ![u].st = st]
<1>1. Answer(w, u, FALSE, FALSE) \/ Answer(w, u, TRUE, TRUE)
  BY DEF Acknowledge, ProviderFails
<1>2. /\ SameRun(w) /\ worker'[w].at = worker[w].at
      /\ worker'[w].page = worker[w].page \ {u}
      /\ worker'[w].flying = worker[w].flying \ {u}
      /\ \A x \in Workers : x # w => worker'[x] = worker[x]
  BY <1>1, WhatIsAnswered DEF SameRun
<1> QED
  BY <1>2 DEF Acknowledge, ProviderFails

LEMMA IdleAgain ==
  ASSUME TypeOK, NEW w \in Workers, Conclude(w) \/ WorkerDies(w)
  PROVE  worker'[w] = Idle /\ \A x \in Workers : x # w => worker'[x] = worker[x]
<1>1. worker' = [worker EXCEPT ![w] = Idle] /\ worker \in [Workers -> Run]
  BY TypesAreTypeOK DEF Types, Conclude, WorkerDies
<1> QED
  BY <1>1

------------------------
(***************************************************************************)
(* Books and FinalsWait.                                                   *)
(***************************************************************************)

LEMMA FiledInTheBooks ==
  ASSUME TypeOK, Books, FinalsWait, UNCHANGED worker, NEW k \in Ids,
         NEW kind \in {"access", "member", "end", "transfer"}, NEW u, NEW v, NEW rev,
         NEW grants, NEW target \in {"one", "all", "end"},
         Filed(k, kind, u, v, rev, grants, target), target = "one" => u \in Users
  PROVE  Books' /\ FinalsWait'
<1>1. /\ jobs[k].kind = "none" /\ \A i \in Ids : i # k => jobs'[i] = jobs[i]
      /\ jobs'[k].kind # "none" /\ jobs'[k].user = u /\ jobs'[k].target \in {"none", target}
  BY DEF Filed
<1>2. \A w \in Workers : worker[w].at # "idle" =>
        /\ worker[w].job \in Ids /\ jobs[worker[w].job].kind # "none"
        /\ jobs'[worker[w].job] = jobs[worker[w].job]
  BY <1>1 DEF Books
<1>3. Books'
  <2>1. \A i \in Ids :
          jobs'[i].kind = "none" => jobs'[i].status = "none" /\ jobs'[i].grants = "done"
    BY <1>1 DEF Books
  <2>2. \A w \in Workers :
          IF worker'[w].at = "idle" THEN worker'[w].job = 0
          ELSE worker'[w].job \in Ids /\ jobs'[worker'[w].job].kind # "none"
    BY <1>2 DEF Books
  <2>3. \A i \in Ids : jobs'[i].target = "one" => jobs'[i].user \in Users
    BY <1>1 DEF Books
  <2> QED
    BY <2>1, <2>2, <2>3 DEF Books
<1>4. FinalsWait'
  BY <1>2 DEF FinalsWait, TargetsEnd
<1> QED
  BY <1>3, <1>4

LEMMA WorkedInTheBooks ==
  ASSUME TypeOK, Books, FinalsWait,
         \A k \in Ids : /\ SameJob(k)
                        /\ jobs[k].kind = "none" => /\ jobs'[k].status = jobs[k].status
                                                    /\ jobs'[k].grants = jobs[k].grants,
         \A x \in Workers :
           \/ worker'[x] = worker[x]
           \/ /\ SameRun(x)
              /\ worker'[x].at = "final" =>
                   worker[x].at = "final" \/ TargetsEnd(x) \/ worker'[x].pending
           \/ worker'[x].at = "idle" /\ worker'[x].job = 0
           \/ /\ worker'[x].job \in Ids /\ jobs[worker'[x].job].kind # "none"
              /\ worker'[x].at \in {"media", "project"}
  PROVE  Books' /\ FinalsWait'
<1>1. \A i \in Ids :
        jobs'[i].kind = "none" => jobs'[i].status = "none" /\ jobs'[i].grants = "done"
  BY DEF Books, SameJob
<1>2. ASSUME NEW x \in Workers
      PROVE  /\ IF worker'[x].at = "idle" THEN worker'[x].job = 0
                ELSE worker'[x].job \in Ids /\ jobs'[worker'[x].job].kind # "none"
             /\ (worker'[x].at = "final" /\ ~(jobs'[worker'[x].job].target = "end")) =>
                  worker'[x].pending
  <2>1. CASE worker'[x] = worker[x] \/ SameRun(x)
    <3>1. /\ worker'[x].job = worker[x].job
          /\ (worker'[x].at = "idle") <=> (worker[x].at = "idle")
      BY <2>1 DEF SameRun
    <3>2. worker[x].at # "idle" =>
            /\ worker[x].job \in Ids /\ jobs[worker[x].job].kind # "none"
            /\ SameJob(worker[x].job)
      BY DEF Books
    <3>3. worker[x].at = "idle" => worker[x].job = 0
      BY DEF Books
    <3>4. worker'[x].at = "final" =>
            \/ worker[x].at = "final" /\ (worker[x].pending => worker'[x].pending)
            \/ worker[x].at # "idle" /\ TargetsEnd(x)
            \/ worker'[x].pending
      BY <2>1, <3>1 DEF SameRun
    <3> QED
      BY <3>1, <3>2, <3>3, <3>4 DEF SameJob, FinalsWait, TargetsEnd
  <2>2. CASE worker'[x].at = "idle" /\ worker'[x].job = 0
    BY <2>2
  <2>3. CASE /\ worker'[x].job \in Ids /\ jobs[worker'[x].job].kind # "none"
             /\ worker'[x].at \in {"media", "project"}
    BY <2>3 DEF SameJob
  <2> QED
    BY <2>1, <2>2, <2>3
<1>3. \A i \in Ids : jobs'[i].target = "one" => jobs'[i].user \in Users
  BY DEF Books, SameJob
<1> QED
  BY <1>1, <1>2, <1>3 DEF Books, FinalsWait, TargetsEnd

\* The commands file one job each.
LEMMA CommandsFile ==
  ASSUME ConvergenceConstantsAssumption, TypeOK
  PROVE  /\ \A u \in Users, p \in Policies : SetAccess(u, p) =>
              \E k \in Ids : Filed(k, "access", 0, 0, acl.rev + 1, "pending", "all")
         /\ \A u \in Users, m \in Standing : ChangeMember(u, m) =>
              \E k \in Ids : Filed(k, "member", u, 0, 0, "done", "one")
         /\ \A u \in Users : TransferOwnership(u) =>
              \E k \in Ids : Filed(k, "transfer", owner, u, 0, "pending", "end")
         /\ \A u \in Users, status \in {"archived", "deleting"} : Terminate(u, status) =>
              \E k \in Ids : Filed(k, "end", 0, 0, acl.rev + 1, "done", "end")
<1>1. /\ 0 \in 0 .. N /\ owner \in 0 .. N /\ 0 \in 0 .. MaxAcl
      /\ \A u \in Users : u \in 0 .. N
      /\ acl.rev < MaxAcl => acl.rev + 1 \in 0 .. MaxAcl
  BY Numbers, TypesAreTypeOK DEF Types, Acl, Users
<1>2. ASSUME NEW u \in Users, NEW p \in Policies, SetAccess(u, p)
      PROVE  \E k \in Ids : Filed(k, "access", 0, 0, acl.rev + 1, "pending", "all")
  <2>1. /\ Free # {} /\ acl.rev + 1 \in 0 .. MaxAcl
        /\ NewJob("access", 0, 0, acl.rev + 1, "pending", "all")
    BY <1>1, <1>2 DEF SetAccess
  <2> QED
    BY <1>1, <2>1, JobIsFiled
<1>3. ASSUME NEW u \in Users, NEW m \in Standing, ChangeMember(u, m)
      PROVE  \E k \in Ids : Filed(k, "member", u, 0, 0, "done", "one")
  <2>1. Free # {} /\ NewJob("member", u, 0, 0, "done", "one")
    BY <1>3 DEF ChangeMember
  <2> QED
    BY <1>1, <2>1, JobIsFiled
<1>4. ASSUME NEW u \in Users, TransferOwnership(u)
      PROVE  \E k \in Ids : Filed(k, "transfer", owner, u, 0, "pending", "end")
  <2>1. Free # {} /\ NewJob("transfer", owner, u, 0, "pending", "end")
    BY <1>4 DEF TransferOwnership
  <2> QED
    BY <1>1, <2>1, JobIsFiled
<1>5. ASSUME NEW u \in Users, NEW status \in {"archived", "deleting"}, Terminate(u, status)
      PROVE  \E k \in Ids : Filed(k, "end", 0, 0, acl.rev + 1, "done", "end")
  <2>1. /\ Free # {} /\ acl.rev + 1 \in 0 .. MaxAcl
        /\ NewJob("end", 0, 0, acl.rev + 1, "done", "end")
    BY <1>1, <1>5 DEF Terminate
  <2> QED
    BY <1>1, <2>1, JobIsFiled
<1> QED
  BY <1>2, <1>3, <1>4, <1>5

LEMMA CommandsInTheBooks ==
  ASSUME ConvergenceConstantsAssumption, TypeOK, Books, FinalsWait, Commanded
  PROVE  Books' /\ FinalsWait'
<1>1. UNCHANGED worker
  BY DEF Commanded, SetAccess, ChangeMember, TransferOwnership, Terminate
<1>2. ASSUME NEW u \in Users, NEW p \in Policies, SetAccess(u, p)
      PROVE  Books' /\ FinalsWait'
  <2>1. PICK k \in Ids : Filed(k, "access", 0, 0, acl.rev + 1, "pending", "all")
    BY <1>2, CommandsFile
  <2> QED
    BY <1>1, <2>1, FiledInTheBooks
<1>3. ASSUME NEW u \in Users, NEW m \in Standing, ChangeMember(u, m)
      PROVE  Books' /\ FinalsWait'
  <2>1. PICK k \in Ids : Filed(k, "member", u, 0, 0, "done", "one")
    BY <1>3, CommandsFile
  <2> QED
    BY <1>1, <2>1, FiledInTheBooks
<1>4. ASSUME NEW u \in Users, TransferOwnership(u)
      PROVE  Books' /\ FinalsWait'
  <2>1. PICK k \in Ids : Filed(k, "transfer", owner, u, 0, "pending", "end")
    BY <1>4, CommandsFile
  <2> QED
    BY <1>1, <2>1, FiledInTheBooks
<1>5. ASSUME NEW u \in Users, NEW status \in {"archived", "deleting"}, Terminate(u, status)
      PROVE  Books' /\ FinalsWait'
  <2>1. PICK k \in Ids : Filed(k, "end", 0, 0, acl.rev + 1, "done", "end")
    BY <1>5, CommandsFile
  <2> QED
    BY <1>1, <2>1, FiledInTheBooks
<1> QED
  BY <1>2, <1>3, <1>4, <1>5 DEF Commanded

LEMMA OthersInTheBooks ==
  ASSUME ConvergenceConstantsAssumption, TypeOK, Books, FinalsWait, Other
  PROVE  Books' /\ FinalsWait'
<1>1. CASE UNCHANGED <<jobs, worker>>
  BY <1>1 DEF Books, FinalsWait, TargetsEnd
<1>2. ASSUME NEW w \in Workers, NEW i \in Ids, Plan(w, i) PROVE Books' /\ FinalsWait'
  <2>1. /\ worker'[w].job = i /\ worker'[w].at \in {"media", "project"}
        /\ \A x \in Workers : x # w => worker'[x] = worker[x]
    BY <1>2, WhatIsPlanned
  <2>2. jobs[i].kind # "none"
    BY <1>2 DEF Plan, Books
  <2> QED
    BY <1>2, <2>1, <2>2, PlanKeepsJobs, WorkedInTheBooks DEF SameGrants
<1>3. ASSUME NEW w \in Workers, Project(w) PROVE Books' /\ FinalsWait'
  <2>1. ASSUME NEW x \in Workers
        PROVE  worker'[x] = worker[x] \/ (SameRun(x) /\ worker'[x].at = "media")
    <3>1. CASE x = w
      BY <1>3, <3>1, ProjectRun
    <3>2. CASE x # w
      BY <1>3, <3>2, ProjectRun
    <3> QED
      BY <3>1, <3>2
  <2>2. \A k \in Ids : /\ SameJob(k)
                       /\ jobs[k].kind = "none" => /\ jobs'[k].status = jobs[k].status
                                                   /\ jobs'[k].grants = jobs[k].grants
    BY <1>3, ProjectKeepsJobs DEF SameGrants
  <2> QED
    BY <2>1, <2>2, WorkedInTheBooks
<1>4. ASSUME NEW w \in Workers,
             ProjectionFails(w) \/ EndPage(w)
               \/ \E u \in Users : Reconcile(w, u) \/ Acknowledge(w, u) \/ ProviderFails(w, u)
      PROVE  Books' /\ FinalsWait'
  <2>1. UNCHANGED jobs
    BY <1>4 DEF ProjectionFails, EndPage, Reconcile, Acknowledge, ProviderFails
  <2>2. \A k \in Ids : SameJob(k)
    BY <2>1 DEF SameJob
  <2>3. \A x \in Workers : x # w => worker'[x] = worker[x]
    BY <1>4, ProjectionFailsRun, EndPageRun, ReconcileRun, AnsweredRun
  <2>4. SameRun(w)
    BY <1>4, ProjectionFailsRun, EndPageRun, ReconcileRun, AnsweredRun
  <2>5. worker'[w].at = "final" =>
          worker[w].at = "final" \/ TargetsEnd(w) \/ worker'[w].pending
    <3>1. CASE ProjectionFails(w)
      BY <3>1, ProjectionFailsRun
    <3>2. CASE EndPage(w)
      BY <3>2 DEF EndPage
    <3>3. CASE \E u \in Users : Reconcile(w, u) \/ Acknowledge(w, u) \/ ProviderFails(w, u)
      BY <3>3, ReconcileRun, AnsweredRun
    <3> QED
      BY <1>4, <3>1, <3>2, <3>3
  <2> QED
    BY <2>1, <2>2, <2>3, <2>4, <2>5, WorkedInTheBooks
<1>5. ASSUME NEW w \in Workers, Conclude(w) \/ WorkerDies(w) PROVE Books' /\ FinalsWait'
  <2>1. ASSUME NEW x \in Workers
        PROVE  worker'[x] = worker[x] \/ (worker'[x].at = "idle" /\ worker'[x].job = 0)
    <3>1. worker'[w] = Idle /\ \A y \in Workers : y # w => worker'[y] = worker[y]
      BY <1>5, IdleAgain
    <3>2. Idle.at = "idle" /\ Idle.job = 0
      BY IdleIsRun
    <3> QED
      BY <3>1, <3>2
  <2>2. \A k \in Ids : /\ SameJob(k)
                       /\ jobs[k].kind = "none" => /\ jobs'[k].status = jobs[k].status
                                                   /\ jobs'[k].grants = jobs[k].grants
    <3>1. CASE Conclude(w)
      BY <3>1, ConcludeKeepsJobs DEF SameGrants
    <3>2. CASE WorkerDies(w)
      BY <3>2 DEF WorkerDies, SameJob
    <3> QED
      BY <1>5, <3>1, <3>2
  <2> QED
    BY <2>1, <2>2, WorkedInTheBooks
<1>6. ASSUME NEW i \in Ids, CompleteJob(i) \/ LeaseExpires(i) PROVE Books' /\ FinalsWait'
  <2>1. UNCHANGED worker
    BY <1>6 DEF CompleteJob, LeaseExpires
  <2>2. \A k \in Ids : /\ SameJob(k)
                       /\ jobs[k].kind = "none" => /\ jobs'[k].status = jobs[k].status
                                                   /\ jobs'[k].grants = jobs[k].grants
    BY <1>6, JobStepsKeepJobs DEF Books, SameGrants
  <2> QED
    BY <2>1, <2>2, WorkedInTheBooks
<1>7. (\E u \in Users : IssueToken(u)) \/ EndSession \/ FinishEnd \/ Purge
        => UNCHANGED <<jobs, worker>>
  BY DEF IssueToken, EndSession, FinishEnd, Purge
<1> QED
  BY <1>1, <1>2, <1>3, <1>4, <1>5, <1>6, <1>7, Zenon DEF Other

------------------------
(***************************************************************************)
(* Flights.                                                                *)
(***************************************************************************)

\* While the session lives only the steps about recipients touch them.
LEMMA LiveSteps ==
  ASSUME Commanded \/ Other, session' = "live"
  PROVE  /\ session = "live"
         /\ Commanded => UNCHANGED <<recipient, worker>>
         /\ Commanded => \/ \E u \in Users, p \in Policies : SetAccess(u, p)
                         \/ \E u \in Users, m \in Standing : ChangeMember(u, m)
         /\ ~(EndSession \/ FinishEnd \/ Purge)
         /\ \A w \in Workers : EndPage(w) => UNCHANGED recipient
<1>1. Commanded => session = "live" /\ UNCHANGED <<recipient, worker>>
  BY DEF Commanded, SetAccess, ChangeMember, TransferOwnership, Terminate
<1>2. Commanded => \/ \E u \in Users, p \in Policies : SetAccess(u, p)
                   \/ \E u \in Users, m \in Standing : ChangeMember(u, m)
  BY DEF Commanded, TransferOwnership, Terminate
<1>3. ~(EndSession \/ FinishEnd \/ Purge)
  BY DEF EndSession, FinishEnd, Ended, Purge
<1>4. \A w \in Workers : EndPage(w) => session = "live" /\ UNCHANGED recipient
  BY DEF EndPage, Ended
<1>5. Other => session = "live"
  BY <1>3, <1>4 DEF Other, IssueToken, Plan, Project, ProjectionFails, Conclude, WorkerDies,
     Reconcile, Acknowledge, ProviderFails, CompleteJob, LeaseExpires
<1> QED
  BY <1>1, <1>2, <1>3, <1>4, <1>5

LEMMA FewerFlights ==
  ASSUME Flights, session = "live",
         \A x \in Workers : worker'[x].flying \subseteq worker[x].flying,
         \A x \in Workers : \A u \in worker'[x].flying :
           recipient[u].st = "revoking" => recipient'[u].st = "revoking"
  PROVE  Flights'
BY DEF Flights

LEMMA FlightsKept ==
  ASSUME ConvergenceConstantsAssumption, TypeOK, Books, Flights, Commanded \/ Other
  PROVE  Flights'
<1>1. CASE session' # "live"
  BY <1>1 DEF Flights
<1> SUFFICES ASSUME session' = "live" PROVE Flights'
  BY <1>1
<1>2. session = "live"
  BY LiveSteps
<1>3. CASE Commanded
  BY <1>2, <1>3, LiveSteps, FewerFlights
<1>4. ASSUME NEW u \in Users, IssueToken(u) PROVE Flights'
  <2>1. UNCHANGED worker /\ recipient[u].st # "revoking"
    BY <1>4 DEF IssueToken
  <2>2. \A v \in Users : v # u => recipient'[v] = recipient[v]
    BY <1>4, TypesAreTypeOK DEF IssueToken, Types
  <2>3. \A x \in Workers : worker[x].flying \subseteq Users
    BY TypesAreTypeOK DEF Types, Run
  <2> QED
    BY <1>2, <2>1, <2>2, <2>3, FewerFlights
<1>5. ASSUME NEW w \in Workers, NEW i \in Ids, Plan(w, i) PROVE Flights'
  <2>1. UNCHANGED recipient
    BY <1>5 DEF Plan
  <2> QED
    BY <1>2, <1>5, <2>1, WhatIsPlanned, FewerFlights
<1>6. ASSUME NEW w \in Workers, Project(w) \/ ProjectionFails(w) \/ EndPage(w)
      PROVE  Flights'
  <2>1. UNCHANGED recipient
    BY <1>6, LiveSteps DEF Project, ProjectionFails
  <2>2. \A x \in Workers : worker'[x].flying = worker[x].flying
    BY <1>6, ProjectRun, ProjectionFailsRun, EndPageRun
  <2> QED
    BY <1>2, <2>1, <2>2, FewerFlights
<1>7. ASSUME NEW w \in Workers, NEW u \in Users, Reconcile(w, u) PROVE Flights'
  <2>1. \A x \in Workers : x # w => worker'[x] = worker[x]
    BY <1>7, ReconcileRun
  <2>2. CASE worker'[w].flying = worker[w].flying \ {u} /\ UNCHANGED recipient
    BY <1>2, <2>1, <2>2, FewerFlights
  <2>3. CASE /\ worker'[w].flying = worker[w].flying \cup {u}
             /\ recipient[u].st = "active"
             /\ recipient' = [recipient EXCEPT ![u].st = "revoking"]
    <3>1. recipient \in [Users -> Recipient]
      BY TypesAreTypeOK DEF Types
    <3>2. recipient'[u].st = "revoking" /\ \A v \in Users : v # u => recipient'[v] = recipient[v]
      BY <2>3, <3>1 DEF Recipient
    <3>3. \A x \in Workers : worker[x].flying \subseteq Users
      BY TypesAreTypeOK DEF Types, Run
    <3>4. \A x \in Workers : u \notin worker[x].flying
      BY <1>2, <2>3 DEF Flights
    <3>5. ASSUME NEW x \in Workers, NEW v \in worker'[x].flying
          PROVE  /\ recipient'[v].st = "revoking"
                 /\ \A y \in Workers : v \in worker'[y].flying => y = x
      <4>1. CASE v = u
        BY <2>1, <2>3, <3>2, <3>4, <3>5, <4>1
      <4>2. CASE v # u
        <5>1. \A y \in Workers : v \in worker'[y].flying => v \in worker[y].flying
          BY <2>1, <2>3, <4>2
        <5>2. v \in worker[x].flying /\ v \in Users
          BY <3>3, <3>5, <5>1
        <5> QED
          BY <1>2, <3>2, <4>2, <5>1, <5>2 DEF Flights
      <4> QED
        BY <4>1, <4>2
    <3> QED
      BY <3>5 DEF Flights
  <2> QED
    BY <1>7, <2>2, <2>3, ReconcileRun
<1>8. ASSUME NEW w \in Workers, NEW u \in Users, Acknowledge(w, u) \/ ProviderFails(w, u)
      PROVE  Flights'
  <2>1. /\ worker'[w].flying = worker[w].flying \ {u} /\ u \in worker[w].flying
        /\ \A x \in Workers : x # w => worker'[x] = worker[x]
    BY <1>8, AnsweredRun
  <2>2. \A v \in Users : v # u => recipient'[v] = recipient[v]
    <3>1. recipient \in [Users -> Recipient]
      BY TypesAreTypeOK DEF Types
    <3> QED
      BY <1>8, <3>1, AnsweredRun
  <2>3. \A x \in Workers : u \in worker[x].flying => x = w
    BY <1>2, <2>1 DEF Flights
  <2>4. \A x \in Workers : worker[x].flying \subseteq Users
    BY TypesAreTypeOK DEF Types, Run
  <2>5. \A x \in Workers :
          worker'[x].flying \subseteq worker[x].flying /\ u \notin worker'[x].flying
    BY <2>1, <2>3
  <2> QED
    BY <1>2, <2>2, <2>4, <2>5, FewerFlights
<1>9. ASSUME NEW w \in Workers, Conclude(w) \/ WorkerDies(w) PROVE Flights'
  <2>1. UNCHANGED recipient
    BY <1>9 DEF Conclude, WorkerDies
  <2> QED
    BY <1>2, <1>9, <2>1, IdleAgain, IdleIsRun, FewerFlights
<1>10. ASSUME NEW i \in Ids, CompleteJob(i) \/ LeaseExpires(i) PROVE Flights'
  <2>1. UNCHANGED <<recipient, worker>>
    BY <1>10 DEF CompleteJob, LeaseExpires
  <2> QED
    BY <1>2, <2>1, FewerFlights
<1>11. ~(EndSession \/ FinishEnd \/ Purge)
  BY LiveSteps
<1> QED
  BY <1>3, <1>4, <1>5, <1>6, <1>7, <1>8, <1>9, <1>10, <1>11, Zenon DEF Other

------------------------
(***************************************************************************)
(* Remembered.                                                             *)
(***************************************************************************)

\* A job in front of somebody is a job, and not one a worker has taken by mistake.
LEMMA CoverIsJob ==
  ASSUME Books, NEW i \in Ids, NEW u \in Users, Covers(jobs[i], u)
  PROVE  jobs[i].kind # "none" /\ jobs[i].target \in {"one", "all"}
BY DEF Books, Covers

\* It is enough that those who are stale were stale, and the same job remembers them.
LEMMA StillRemembered ==
  ASSUME Remembered, session = "live",
         \A u \in Users : Stale(u)' => Stale(u),
         \A u \in Users, i \in Ids :
           (Stale(u)' /\ Covers(jobs[i], u) /\ \A w \in Workers : Minds(w, i, u)) =>
             Covers(jobs[i], u)' /\ \A w \in Workers : Minds(w, i, u)'
  PROVE  Remembered'
<1>1. ASSUME NEW u \in Users, Stale(u)'
      PROVE  \E i \in Ids : Covers(jobs[i], u)' /\ \A w \in Workers : Minds(w, i, u)'
  <2>1. PICK i \in Ids : Covers(jobs[i], u) /\ \A w \in Workers : Minds(w, i, u)
    BY <1>1 DEF Remembered
  <2> QED
    BY <1>1, <2>1
<1> QED
  BY <1>1 DEF Remembered

LEMMA CoversKept ==
  ASSUME NEW i \in Ids, NEW u \in Users, Covers(jobs[i], u), SameJob(i), SameMedia(i),
         jobs'[i].status # jobs[i].status => jobs[i].media = "done"
  PROVE  Covers(jobs[i], u)'
BY DEF Covers, SameJob, SameMedia

LEMMA MindsKept ==
  ASSUME NEW i \in Ids, NEW u \in Users, NEW w \in Workers, Minds(w, i, u), SameJob(i),
         \/ worker'[w] = worker[w]
         \/ SameRun(w) /\ (u \in worker[w].page => u \in worker'[w].page \/ worker'[w].pending)
         \/ worker'[w].job # i
  PROVE  Minds(w, i, u)'
BY DEF Minds, SameJob, SameRun

\* The page of an invocation begins at the cursor and leaves nobody out.
LEMMA PlannedMinds ==
  ASSUME ConvergenceConstantsAssumption, TypeOK, Books,
         NEW w \in Workers, NEW i \in Ids, Plan(w, i),
         NEW u \in Users, Stale(u), Covers(jobs[i], u)
  PROVE  Minds(w, i, u)'
<1>1. /\ jobs[i].media # "done" /\ jobs[i].cursor \in 0 .. N
      /\ \/ jobs[i].target = "one" /\ jobs[i].user = u
         \/ jobs[i].target = "all" /\ jobs[i].cursor < u
  BY TypesAreTypeOK DEF Covers, Types, Job
<1>2. /\ worker'[w].page = Recipients(jobs[i])
      /\ worker'[w].pageDone =
           (jobs[i].target = "all" => Cardinality(After(jobs[i].cursor)) <= PageSize)
      /\ worker'[w].last = LastOf(Recipients(jobs[i]), jobs[i].cursor)
  BY <1>1, WhatIsPlanned
<1>3. jobs'[i].target = jobs[i].target
  BY PlanKeepsJobs DEF SameJob
<1>4. CASE jobs[i].target = "one" /\ jobs[i].user = u
  <2>1. Recipients(jobs[i]) = {u}
    BY <1>4 DEF Recipients
  <2> QED
    BY <1>2, <2>1 DEF Minds
<1>5. CASE jobs[i].target = "all" /\ jobs[i].cursor < u
  <2> DEFINE S == After(jobs[i].cursor)
  <2>1. Recipients(jobs[i]) = FirstOf(S)
    BY <1>1, <1>5 DEF Recipients
  <2>2. S \in SUBSET Users /\ u \in S
    BY <1>5 DEF After, Stale
  <2>3. CASE u \in FirstOf(S)
    BY <1>2, <2>1, <2>3 DEF Minds
  <2>4. CASE u \notin FirstOf(S)
    <3> HIDE DEF S
    <3>1. (\A v \in FirstOf(S) : v < u) /\ Cardinality(S) > PageSize /\ FirstOf(S) \subseteq S
      BY <2>2, <2>4, PageIsFirst
    <3>2. LastOf(FirstOf(S), jobs[i].cursor) < u
      BY <1>1, <1>5, <2>2, <3>1, LastIsLast
    <3>3. Cardinality(S) \in Nat /\ PageSize \in Nat
      BY <2>2, UsersCounted, Numbers
    <3>4. ~(Cardinality(S) <= PageSize)
      BY <3>1, <3>3
    <3>5. ~worker'[w].pageDone
      BY <1>2, <1>5, <3>4 DEF S
    <3>6. worker'[w].last < u
      BY <1>2, <2>1, <3>2
    <3> QED
      BY <1>3, <1>5, <3>5, <3>6 DEF Minds
  <2> QED
    BY <2>3, <2>4
<1> QED
  BY <1>1, <1>4, <1>5

\* The last transaction of an invocation carries the cursor past nobody.
LEMMA ConcludedCovers ==
  ASSUME ConvergenceConstantsAssumption, TypeOK, Books, FinalsWait,
         NEW w \in Workers, Conclude(w),
         NEW i \in Ids, NEW u \in Users, Covers(jobs[i], u), Minds(w, i, u)
  PROVE  Covers(jobs[i], u)'
<1>1. CASE jobs'[i] = jobs[i]
  BY <1>1 DEF Covers
<1>2. CASE jobs'[i] # jobs[i]
  <2>1. /\ i = worker[w].job
        /\ jobs'[i] = CompletedIfSettled(Released(Advanced(w, jobs[i])))
    BY <1>2, ConcludeKeepsJobs
  <2>2. jobs[i] \in Job
    BY TypesAreTypeOK DEF Types
  <2>3. PICK r : r = CompletedIfSettled(Released(Advanced(w, jobs[i])))
    OBVIOUS
  <2>4. /\ r.user = jobs[i].user /\ r.target = jobs[i].target
        /\ r.status # jobs[i].status => r.media = "done"
        /\ \/ r.media = jobs[i].media /\ r.cursor = jobs[i].cursor
           \/ worker[w].pending /\ r.media # "done" /\ r.cursor = jobs[i].cursor
           \/ ~worker[w].pending /\ worker[w].pageDone
           \/ /\ ~worker[w].pending /\ ~worker[w].pageDone
              /\ r.media = "pending" /\ r.cursor = worker[w].last
    BY <2>2, <2>3, WhatIsConcluded
  <2>5. /\ jobs[i].status = "pending" /\ jobs[i].media # "done"
        /\ \/ jobs[i].target = "one" /\ jobs[i].user = u
           \/ jobs[i].target = "all" /\ jobs[i].cursor < u
    BY DEF Covers
  <2>6. ~worker[w].pending => u \notin worker[w].page
    <3>1. ~TargetsEnd(w)
      BY <2>1, <2>5 DEF TargetsEnd
    <3> QED
      BY <3>1 DEF Conclude, Done, FinalsWait
  <2>7. ~worker[w].pending =>
          jobs[i].target = "all" /\ ~worker[w].pageDone /\ worker[w].last < u
    BY <2>1, <2>6 DEF Minds
  <2>8. /\ r.status = "pending" /\ r.media # "done"
        /\ \/ r.target = "one" /\ r.user = u
           \/ r.target = "all" /\ r.cursor < u
    BY <2>4, <2>5, <2>7
  <2> QED
    BY <2>1, <2>3, <2>8 DEF Covers
<1> QED
  BY <1>1, <1>2

\* The two changes of authority leave a job in front of everybody they make stale.
LEMMA CommandsRemember ==
  ASSUME ConvergenceConstantsAssumption, TypeOK, Books, Remembered, Commanded,
         session' = "live"
  PROVE  Remembered'
<1>1. session = "live" /\ UNCHANGED <<recipient, worker>>
  BY LiveSteps
<1>2. ASSUME NEW k \in Ids, jobs[k].kind = "none" PROVE \A w \in Workers : worker[w].job # k
  BY <1>2, Numbers DEF Books
\* Whoever was stale before is remembered by the same job.
<1>3. ASSUME NEW k \in Ids, jobs[k].kind = "none",
             \A i \in Ids : i # k => jobs'[i] = jobs[i], NEW u \in Users, Stale(u)
      PROVE  \E i \in Ids : Covers(jobs[i], u)' /\ \A w \in Workers : Minds(w, i, u)'
  <2>1. PICK i \in Ids : Covers(jobs[i], u) /\ \A w \in Workers : Minds(w, i, u)
    BY <1>1, <1>3 DEF Remembered
  <2>2. jobs'[i] = jobs[i]
    BY <1>3, <2>1, CoverIsJob
  <2>3. Covers(jobs[i], u)'
    BY <2>1, <2>2 DEF Covers
  <2>4. \A w \in Workers : Minds(w, i, u)'
    BY <1>1, <2>1, <2>2 DEF Minds
  <2> QED
    BY <2>3, <2>4
<1>4. ASSUME NEW u \in Users, NEW p \in Policies, SetAccess(u, p) PROVE Remembered'
  <2>1. PICK k \in Ids : Filed(k, "access", 0, 0, acl.rev + 1, "pending", "all")
    BY <1>4, CommandsFile
  <2>2. jobs[k].kind = "none" /\ \A w \in Workers : worker[w].job # k
    BY <1>2, <2>1 DEF Filed
  <2>3. ASSUME NEW v \in Users PROVE Covers(jobs[k], v)'
    <3>1. 0 < v
      BY Numbers DEF Users
    <3> QED
      BY <1>1, <2>1, <3>1 DEF Filed, Covers
  <2>4. \A v \in Users : \A w \in Workers : Minds(w, k, v)'
    BY <1>1, <2>2 DEF Minds
  <2> QED
    BY <2>3, <2>4 DEF Remembered
<1>5. ASSUME NEW u \in Users, NEW m \in Standing, ChangeMember(u, m) PROVE Remembered'
  <2>1. PICK k \in Ids : Filed(k, "member", u, 0, 0, "done", "one")
    BY <1>5, CommandsFile
  <2>2. jobs[k].kind = "none" /\ \A w \in Workers : worker[w].job # k
    BY <1>2, <2>1 DEF Filed
  <2>3. Covers(jobs[k], u)' /\ \A w \in Workers : Minds(w, k, u)'
    BY <1>1, <2>1, <2>2 DEF Filed, Covers, Minds
  <2>4. ASSUME NEW v \in Users, v # u, Stale(v)' PROVE Stale(v)
    <3>1. member'[v] = member[v] /\ UNCHANGED <<acl, recipient>>
      BY <1>5, <2>4, TypesAreTypeOK DEF ChangeMember, Types
    <3> QED
      BY <2>4, <3>1 DEF Stale, Fresh
  <2>5. \A i \in Ids : i # k => jobs'[i] = jobs[i]
    BY <2>1 DEF Filed
  <2> QED
    BY <1>3, <2>2, <2>3, <2>4, <2>5 DEF Remembered
<1> QED
  BY <1>4, <1>5, LiveSteps

LEMMA OthersRemember ==
  ASSUME ConvergenceConstantsAssumption, TypeOK, Books, FinalsWait, Flights, Remembered,
         Other, session' = "live"
  PROVE  Remembered'
<1>1. session = "live" /\ UNCHANGED <<acl, member>>
  BY LiveSteps DEF Other, IssueToken, EndSession, FinishEnd, Purge, Plan, Project,
     ProjectionFails, EndPage, Conclude, WorkerDies, Reconcile, Acknowledge, ProviderFails,
     CompleteJob, LeaseExpires
<1>2. UNCHANGED recipient => \A v \in Users : Stale(v)' => Stale(v)
  BY <1>1 DEF Stale, Fresh
<1>3. ASSUME NEW u \in Users, IssueToken(u) PROVE Remembered'
  <2>1. UNCHANGED <<jobs, worker>>
    BY <1>3 DEF IssueToken
  <2>2. recipient'[u] = [st |-> "active", acl |-> acl.rev, rev |-> member[u].rev]
        /\ \A v \in Users : v # u => recipient'[v] = recipient[v]
    BY <1>3, TypesAreTypeOK DEF IssueToken, Types
  <2>3. \A v \in Users : Stale(v)' => Stale(v)
    BY <1>1, <2>2 DEF Stale, Fresh
  <2>4. \A v \in Users, i \in Ids : Covers(jobs[i], v) => Covers(jobs[i], v)'
    BY <2>1 DEF Covers
  <2>5. \A v \in Users, i \in Ids, w \in Workers : Minds(w, i, v) => Minds(w, i, v)'
    BY <2>1 DEF Minds
  <2> QED
    BY <1>1, <2>3, <2>4, <2>5, StillRemembered
<1>4. ASSUME NEW w \in Workers, NEW k \in Ids, Plan(w, k) PROVE Remembered'
  <2>1. UNCHANGED recipient
    BY <1>4 DEF Plan
  <2>2. \A i \in Ids : SameJob(i) /\ SameMedia(i) /\ jobs'[i].status = jobs[i].status
    BY <1>4, PlanKeepsJobs
  <2>3. worker'[w].job = k /\ \A x \in Workers : x # w => worker'[x] = worker[x]
    BY <1>4, WhatIsPlanned
  <2>4. ASSUME NEW v \in Users, NEW i \in Ids, Stale(v), Covers(jobs[i], v),
               \A x \in Workers : Minds(x, i, v)
        PROVE  Covers(jobs[i], v)' /\ \A x \in Workers : Minds(x, i, v)'
    <3>1. Covers(jobs[i], v)'
      BY <2>2, <2>4, CoversKept
    <3>2. ASSUME NEW x \in Workers PROVE Minds(x, i, v)'
      <4>1. CASE x = w /\ i = k
        BY <1>4, <2>4, <4>1, PlannedMinds
      <4>2. CASE x # w \/ i # k
        BY <2>2, <2>3, <2>4, <4>2, MindsKept
      <4> QED
        BY <4>1, <4>2
    <3> QED
      BY <3>1, <3>2
  <2> QED
    BY <1>1, <1>2, <2>1, <2>4, StillRemembered
<1>5. ASSUME NEW w \in Workers, Project(w) \/ ProjectionFails(w) \/ EndPage(w)
      PROVE  Remembered'
  <2>1. UNCHANGED recipient
    BY <1>5, LiveSteps DEF Project, ProjectionFails
  <2>2. \A i \in Ids : SameJob(i) /\ SameMedia(i) /\ jobs'[i].status = jobs[i].status
    <3>1. CASE Project(w)
      BY <3>1, ProjectKeepsJobs
    <3>2. CASE ProjectionFails(w) \/ EndPage(w)
      BY <3>2 DEF ProjectionFails, EndPage, SameJob, SameMedia
    <3> QED
      BY <1>5, <3>1, <3>2
  <2>3. /\ SameRun(w) /\ worker'[w].page = worker[w].page
        /\ \A x \in Workers : x # w => worker'[x] = worker[x]
    BY <1>5, ProjectRun, ProjectionFailsRun, EndPageRun
  <2>4. \A v \in Users, i \in Ids : Covers(jobs[i], v) => Covers(jobs[i], v)'
    BY <2>2, CoversKept
  <2>5. \A v \in Users, i \in Ids, x \in Workers : Minds(x, i, v) => Minds(x, i, v)'
    BY <2>2, <2>3, MindsKept
  <2> QED
    BY <1>1, <1>2, <2>1, <2>4, <2>5, StillRemembered
<1>6. ASSUME NEW w \in Workers, NEW u \in Users,
             Reconcile(w, u) \/ Acknowledge(w, u) \/ ProviderFails(w, u)
      PROVE  Remembered'
  <2>1. \A i \in Ids : SameJob(i) /\ SameMedia(i) /\ jobs'[i].status = jobs[i].status
    BY <1>6 DEF Reconcile, Acknowledge, ProviderFails, SameJob, SameMedia
  <2>2. SameRun(w) /\ \A x \in Workers : x # w => worker'[x] = worker[x]
    BY <1>6, ReconcileRun, AnsweredRun
  <2>3. recipient \in [Users -> Recipient]
    BY TypesAreTypeOK DEF Types
  <2>4. /\ \A v \in Users : Stale(v)' => Stale(v)
        /\ \A v \in worker[w].page :
             v \in worker'[w].page \/ worker'[w].pending \/ ~Stale(v)'
    <3>1. CASE /\ UNCHANGED recipient /\ worker'[w].page = worker[w].page \ {u}
               /\ worker'[w].pending \/ recipient[u].st # "active" \/ UpToDate(u)
      <4>1. worker'[w].pending \/ ~Stale(u)
        BY <3>1 DEF UpToDate, Stale
      <4> QED
        BY <1>2, <3>1, <4>1
    <3>2. CASE /\ recipient' = [recipient EXCEPT ![u].st = "revoking"]
               /\ worker'[w].page = worker[w].page
      <4>1. recipient'[u].st = "revoking" /\ \A v \in Users : v # u => recipient'[v] = recipient[v]
        BY <2>3, <3>2 DEF Recipient
      <4> QED
        BY <1>1, <3>2, <4>1 DEF Stale, Fresh
    <3>3. CASE Acknowledge(w, u) \/ ProviderFails(w, u)
      <4>1. recipient[u].st = "revoking"
        BY <1>1, <3>3, AnsweredRun DEF Flights
      <4>2. PICK st \in {"revoked", "uncertain"} : recipient' = [recipient EXCEPT ![u].st = st]
        BY <3>3, <4>1, AnsweredRun
      <4>3. recipient'[u].st = st /\ \A v \in Users : v # u => recipient'[v] = recipient[v]
        BY <2>3, <4>2 DEF Recipient
      <4>4. worker'[w].page = worker[w].page \ {u}
        BY <3>3, AnsweredRun
      <4> QED
        BY <1>1, <4>3, <4>4 DEF Stale, Fresh
    <3> QED
      BY <1>6, <3>1, <3>2, <3>3, ReconcileRun
  <2>5. \A v \in Users, i \in Ids : Covers(jobs[i], v) => Covers(jobs[i], v)'
    BY <2>1, CoversKept
  <2>6. ASSUME NEW v \in Users, NEW i \in Ids, NEW x \in Workers, Stale(v)', Minds(x, i, v)
        PROVE  Minds(x, i, v)'
    <3>1. x = w => (v \in worker[w].page => v \in worker'[w].page \/ worker'[w].pending)
      BY <2>4, <2>6
    <3> QED
      BY <2>1, <2>2, <2>6, <3>1, MindsKept
  <2> QED
    BY <1>1, <2>4, <2>5, <2>6, StillRemembered
<1>7. ASSUME NEW w \in Workers, Conclude(w) \/ WorkerDies(w) PROVE Remembered'
  <2>1. UNCHANGED recipient
    BY <1>7 DEF Conclude, WorkerDies
  <2>2. \A i \in Ids : SameJob(i)
    <3>1. CASE Conclude(w)
      BY <3>1, ConcludeKeepsJobs
    <3>2. CASE WorkerDies(w)
      BY <3>2 DEF WorkerDies, SameJob
    <3> QED
      BY <1>7, <3>1, <3>2
  <2>3. worker'[w].job = 0 /\ \A x \in Workers : x # w => worker'[x] = worker[x]
    BY <1>7, IdleAgain, IdleIsRun
  <2>4. \A v \in Users, i \in Ids : \A x \in Workers : Minds(x, i, v) => Minds(x, i, v)'
    BY <2>2, <2>3, Numbers, MindsKept
  <2>5. \A v \in Users, i \in Ids :
          (Covers(jobs[i], v) /\ \A x \in Workers : Minds(x, i, v)) => Covers(jobs[i], v)'
    <3>1. CASE Conclude(w)
      BY <3>1, ConcludedCovers
    <3>2. CASE WorkerDies(w)
      BY <3>2 DEF WorkerDies, Covers
    <3> QED
      BY <1>7, <3>1, <3>2
  <2> QED
    BY <1>1, <1>2, <2>1, <2>4, <2>5, StillRemembered
<1>8. ASSUME NEW k \in Ids, CompleteJob(k) \/ LeaseExpires(k) PROVE Remembered'
  <2>1. UNCHANGED <<recipient, worker>>
    BY <1>8 DEF CompleteJob, LeaseExpires
  <2>2. \A i \in Ids : /\ SameJob(i) /\ SameMedia(i)
                       /\ jobs'[i].status # jobs[i].status => jobs[i].media = "done"
    BY <1>8, JobStepsKeepJobs
  <2>3. \A v \in Users, i \in Ids : Covers(jobs[i], v) => Covers(jobs[i], v)'
    BY <2>2, CoversKept
  <2>4. \A v \in Users, i \in Ids, x \in Workers : Minds(x, i, v) => Minds(x, i, v)'
    BY <2>1, <2>2, MindsKept
  <2> QED
    BY <1>1, <1>2, <2>1, <2>3, <2>4, StillRemembered
<1>9. ~(EndSession \/ FinishEnd \/ Purge)
  BY LiveSteps
<1> QED
  BY <1>3, <1>4, <1>5, <1>6, <1>7, <1>8, <1>9, Zenon DEF Other

LEMMA RememberedKept ==
  ASSUME ConvergenceConstantsAssumption, TypeOK, Books, FinalsWait, Flights, Remembered,
         Commanded \/ Other
  PROVE  Remembered'
<1>1. CASE session' = "live"
  BY <1>1, CommandsRemember, OthersRemember
<1>2. CASE session' # "live"
  BY <1>2 DEF Remembered
<1> QED
  BY <1>1, <1>2

------------------------
(***************************************************************************)
(* Owed, Dated and NoGrantForOutsiders.                                    *)
(***************************************************************************)

\* A written grant matches when the restricted policy allows, and nobody's does not.
LEMMA WhatMatches ==
  ASSUME ConvergenceConstantsAssumption, NEW p \in Policies, NEW rev \in 1 .. MaxAcl,
         NEW m \in Standing, NEW u \in Users
  PROVE  /\ Written(p, rev, m, u) = [acl |-> rev, rev |-> m.rev] <=>
              (~p.open /\ (m.role \in p.roles \/ u \in p.users))
         /\ NoGrant # [acl |-> rev, rev |-> m.rev]
<1>1. NoGrant # [acl |-> rev, rev |-> m.rev]
  BY Numbers DEF NoGrant
<1> QED
  BY <1>1, WhatIsWritten

\* A grant that is older than the policy or than the standing matches nothing.
LEMMA OldGrants ==
  ASSUME NEW g \in Stamps, NEW a \in Nat, NEW r \in Nat, g.acl < a \/ g.rev < r
  PROVE  g # [acl |-> a, rev |-> r]
BY DEF Stamps

LEMMA SameGrantsSameDebts ==
  ASSUME Grants, UNCHANGED <<owner, acl, member, grant>>,
         \A i \in Ids : SameJob(i) /\ SameGrants(i)
  PROVE  Grants'
<1>1. \A u \in Users : /\ canonicalMember(u)' <=> canonicalMember(u)
                       /\ grantMatches(u)' <=> grantMatches(u)
                       /\ policyAllowsMember(u)' <=> policyAllowsMember(u)
  BY DEF canonicalMember, grantMatches, policyAllowsMember
<1>2. \A u \in Users : Exact(u)' <=> Exact(u)
  BY <1>1 DEF Exact
<1>3. \A i \in Ids, u \in Users : Owes(jobs[i], u) => Owes(jobs[i], u)'
  BY DEF Owes, SameJob, SameGrants
<1>4. Owed'
  BY <1>1, <1>2, <1>3 DEF Grants, Owed
<1>5. Dated' /\ NoGrantForOutsiders'
  BY <1>1 DEF Grants, Dated, NoGrantForOutsiders
<1> QED
  BY <1>4, <1>5 DEF Grants

LEMMA InitGrants ==
  ASSUME ConvergenceConstantsAssumption, Init
  PROVE  Grants
<1>1. Types /\ acl.rev = 1 /\ acl.policy \in Policies /\ 1 \in 1 .. MaxAcl
  BY InitTyped, TypesAreTypeOK, Numbers DEF Types, Acl, Init
<1>2. ASSUME NEW u \in Users
      PROVE  /\ canonicalMember(u) /\ (Exact(u) \/ acl.policy.open)
             /\ grantMatches(u) => policyAllowsMember(u) /\ canonicalMember(u)
             /\ grant[u].acl <= acl.rev /\ grant[u].rev <= member[u].rev
  <2>1. /\ member[u] \in Standing /\ member[u].rev = 1
        /\ grant[u] = Written(acl.policy, 1, member[u], u)
    BY <1>1 DEF Types, Init
  <2>2. canonicalMember(u)
    BY Numbers DEF Init, canonicalMember, Users
  <2>3. (grant[u] = [acl |-> 1, rev |-> member[u].rev]) <=>
          (~acl.policy.open /\ (member[u].role \in acl.policy.roles \/ u \in acl.policy.users))
    BY <1>1, <2>1, WhatMatches
  <2>4. /\ grant[u].acl <= 1 /\ grant[u].rev <= member[u].rev
    BY <1>1, <2>1, WhatIsWritten
  <2> QED
    BY <1>1, <2>2, <2>3, <2>4 DEF Exact, grantMatches, policyAllowsMember
<1> QED
  BY <1>2 DEF Grants, Owed, Dated, NoGrantForOutsiders

\* Whoever is on the page gets what the policy says at this moment.
LEMMA ProjectedIsExact ==
  ASSUME ConvergenceConstantsAssumption, TypeOK, Dated, NEW page, Projected(page),
         UNCHANGED <<owner, acl, member>>, NEW u \in Users
  PROVE  /\ u \notin page => grant'[u] = grant[u]
         /\ (u \in page /\ canonicalMember(u) /\ acl.status = "active" /\ ~acl.policy.open) =>
              Exact(u)'
         /\ (u \in page /\ grantMatches(u)') => canonicalMember(u)' /\ policyAllowsMember(u)'
         /\ grant'[u].acl <= acl.rev /\ grant'[u].rev <= member[u].rev
<1>1. /\ acl.rev \in 1 .. MaxAcl /\ acl.policy \in Policies /\ member[u] \in Standing
  BY TypesAreTypeOK DEF Types, Acl
<1>2. grant'[u] = IF u \notin page THEN grant[u]
                  ELSE IF canonicalMember(u) /\ acl.status # "deleting"
                       THEN Written(acl.policy, acl.rev, member[u], u) ELSE NoGrant
  BY DEF Projected
<1>3. /\ Written(acl.policy, acl.rev, member[u], u) = [acl |-> acl.rev, rev |-> member[u].rev]
           <=> (~acl.policy.open /\ (member[u].role \in acl.policy.roles
                                      \/ u \in acl.policy.users))
      /\ NoGrant # [acl |-> acl.rev, rev |-> member[u].rev]
  BY <1>1, WhatMatches
<1>4. /\ Written(acl.policy, acl.rev, member[u], u).acl <= acl.rev
      /\ Written(acl.policy, acl.rev, member[u], u).rev <= member[u].rev
      /\ NoGrant.acl = 0 /\ NoGrant.rev = 0 /\ 0 <= acl.rev /\ 0 <= member[u].rev
  BY <1>1, WhatIsWritten, Numbers DEF Standing
<1>5. canonicalMember(u)' <=> canonicalMember(u)
  BY DEF canonicalMember
<1>6. policyAllowsMember(u)' <=>
        (acl.policy.open \/ member[u].role \in acl.policy.roles \/ u \in acl.policy.users)
  BY DEF policyAllowsMember
<1>7. grantMatches(u)' <=> grant'[u] = [acl |-> acl.rev, rev |-> member[u].rev]
  BY DEF grantMatches
<1>8. (u \in page /\ canonicalMember(u) /\ acl.status = "active" /\ ~acl.policy.open) =>
              Exact(u)'
  BY <1>2, <1>3, <1>6, <1>7 DEF Exact
<1>9. (u \in page /\ grantMatches(u)') => canonicalMember(u)' /\ policyAllowsMember(u)'
  BY <1>2, <1>3, <1>5, <1>6, <1>7
<1>10. grant'[u].acl <= acl.rev /\ grant'[u].rev <= member[u].rev
  BY <1>2, <1>4 DEF Dated
<1> QED
  BY <1>2, <1>8, <1>9, <1>10

\* A projection pays what it settles.
LEMMA ProjectGrants ==
  ASSUME ConvergenceConstantsAssumption, TypeOK, Books, Grants, NEW w \in Workers, Project(w)
  PROVE  Grants'
<1>1. PICK i : i = worker[w].job
  OBVIOUS
<1> DEFINE page == FirstOf(Existing(jobs[i].from))
<1>2. /\ i \in Ids /\ jobs[i] \in Job /\ UNCHANGED <<owner, acl, member>>
      /\ \A k \in Ids : SameJob(k) /\ (k # i => SameGrants(k))
  BY <1>1, ProjectKeepsJobs, TypesAreTypeOK DEF Project, Types
<1>3. \A u \in Users : /\ canonicalMember(u)' <=> canonicalMember(u)
                       /\ policyAllowsMember(u)' <=> policyAllowsMember(u)
  BY <1>2 DEF canonicalMember, policyAllowsMember
\* What a job other than this one owes, it still owes.
<1>4. \A k \in Ids, u \in Users : (k # i /\ Owes(jobs[k], u)) => Owes(jobs[k], u)'
  BY <1>2 DEF Owes, SameJob, SameGrants
<1>5. CASE UNCHANGED <<grant, jobs>>
  BY <1>2, <1>5, SameGrantsSameDebts DEF SameJob, SameGrants
<1>6. ASSUME NEW P, Projected(P),
             \A u \in Users : (canonicalMember(u) /\ Owes(jobs[i], u)) =>
               u \in P \/ Owes(jobs[i], u)'
      PROVE  Grants'
  <2>1. Dated
    BY DEF Grants
  <2>2. ASSUME NEW u \in Users
        PROVE  /\ u \notin P => grant'[u] = grant[u]
               /\ (u \in P /\ canonicalMember(u) /\ acl.status = "active"
                     /\ ~acl.policy.open) => Exact(u)'
               /\ (u \in P /\ grantMatches(u)') => canonicalMember(u)' /\ policyAllowsMember(u)'
               /\ grant'[u].acl <= acl.rev /\ grant'[u].rev <= member[u].rev
    BY <1>2, <1>6, <2>1, ProjectedIsExact
  <2>3. \A u \in Users : u \notin P => (grantMatches(u)' <=> grantMatches(u))
    BY <1>2, <2>2 DEF grantMatches
  <2>4. \A u \in Users : u \notin P => (Exact(u)' <=> Exact(u))
    BY <1>3, <2>3 DEF Exact
  <2>5. Owed'
    <3>1. ASSUME acl.status = "active", ~acl.policy.open, NEW u \in Users, canonicalMember(u)
          PROVE  Exact(u)' \/ \E k \in Ids : Owes(jobs[k], u)'
      <4>1. CASE u \in P
        BY <2>2, <3>1, <4>1
      <4>2. CASE u \notin P /\ Exact(u)
        BY <2>4, <4>2
      <4>3. CASE u \notin P /\ ~Exact(u)
        <5>1. PICK k \in Ids : Owes(jobs[k], u)
          BY <3>1, <4>3 DEF Grants, Owed
        <5>2. CASE k = i
          BY <1>2, <1>6, <3>1, <4>3, <5>1, <5>2
        <5>3. CASE k # i
          BY <1>4, <5>1, <5>3
        <5> QED
          BY <5>2, <5>3
      <4> QED
        BY <4>1, <4>2, <4>3
    <3> QED
      BY <1>2, <1>3, <3>1 DEF Owed
  <2>6. Dated'
    BY <1>2, <2>2 DEF Dated
  <2>7. NoGrantForOutsiders'
    BY <1>3, <2>2, <2>3 DEF Grants, NoGrantForOutsiders
  <2> QED
    BY <2>5, <2>6, <2>7 DEF Grants
<1>7. CASE /\ jobs[i].kind = "transfer" /\ Projected({jobs[i].user, jobs[i].heir})
  <2>1. \A u \in Users : Owes(jobs[i], u) => u \in {jobs[i].user, jobs[i].heir}
    BY <1>7 DEF Owes
  <2> QED
    BY <1>6, <1>7, <2>1
<1>8. CASE /\ jobs[i].kind = "access" /\ Superseded(jobs[i]) /\ UNCHANGED grant
  <2>1. \A u \in Users : acl.status = "active" => ~Owes(jobs[i], u)
    BY <1>8 DEF Owes, Superseded
  <2>2. \A u \in Users : grantMatches(u)' <=> grantMatches(u)
    BY <1>2, <1>8 DEF grantMatches
  <2>3. \A u \in Users : Exact(u)' <=> Exact(u)
    BY <1>3, <2>2 DEF Exact
  <2>4. Owed'
    <3>1. \A u \in Users, k \in Ids :
            (acl.status = "active" /\ Owes(jobs[k], u)) => Owes(jobs[k], u)'
      BY <1>4, <2>1
    <3> QED
      BY <1>2, <1>3, <2>3, <3>1 DEF Grants, Owed
  <2>5. Dated' /\ NoGrantForOutsiders'
    BY <1>2, <1>3, <1>8, <2>2 DEF Grants, Dated, NoGrantForOutsiders
  <2> QED
    BY <2>4, <2>5 DEF Grants
<1>9. CASE /\ jobs[i].grants = "pending" /\ jobs[i].kind = "access" /\ Projected(page)
           /\ jobs' = [jobs EXCEPT ![i].from = LastOf(page, @),
                ![i].grants = IF page = Existing(jobs[i].from) THEN "done" ELSE "pending"]
  <2> DEFINE from == jobs[i].from
  <2>1. Existing(from) \in SUBSET Users /\ from \in 0 .. N
    BY <1>2 DEF Existing, Job
  <2>2. /\ jobs'[i].from = LastOf(page, from)
        /\ page # Existing(from) => jobs'[i].grants = "pending"
    <3>1. jobs \in [Ids -> Job]
      BY TypesAreTypeOK DEF Types
    <3> HIDE DEF page
    <3> QED
      BY <1>2, <1>9, <3>1 DEF Job
  <2>3. ASSUME NEW u \in Users, canonicalMember(u), Owes(jobs[i], u), u \notin page
        PROVE  Owes(jobs[i], u)'
    <3>1. u \in Existing(from) /\ from < u /\ jobs[i].acl = acl.rev
      BY <1>9, <2>3 DEF canonicalMember, Existing, Owes
    <3>2. page \subseteq Existing(from) /\ \A v \in page : v < u
      BY <2>1, <2>3, <3>1, PageIsFirst
    <3>3. page \in SUBSET Users
      BY <2>1, <3>2
    <3>4. LastOf(page, from) < u
      <4> HIDE DEF page, from
      <4> QED
        BY <2>1, <3>1, <3>2, <3>3, LastIsLast
    <3>5. jobs'[i].grants = "pending" /\ jobs'[i].from < u
      BY <2>2, <2>3, <3>1, <3>4
    <3> QED
      BY <1>2, <1>9, <3>1, <3>5 DEF Owes, SameJob
  <2> HIDE DEF page
  <2> QED
    BY <1>6, <1>9, <2>3
<1> QED
  BY <1>1, <1>5, <1>7, <1>8, <1>9 DEF Project

\* A new policy: its job owes everybody, and no grant of an older one matches.
LEMMA SetAccessGrants ==
  ASSUME ConvergenceConstantsAssumption, TypeOK, Grants,
         NEW u \in Users, NEW p \in Policies, SetAccess(u, p)
  PROVE  Grants'
<1> DEFINE now == p.users \cup {owner, u}
<1>1. /\ acl.rev \in Nat /\ acl.rev + 1 \in 1 .. MaxAcl /\ member \in [Users -> Standing]
      /\ grant \in [Users -> Stamps] /\ acl \in Acl
  BY TypesAreTypeOK, Numbers DEF SetAccess, Types, Acl
<1>2. acl'.rev = acl.rev + 1 /\ acl'.policy = p /\ UNCHANGED <<owner, member>>
  BY <1>1 DEF SetAccess, Acl
<1>3. \A v \in now : v \in Users => canonicalMember(v)
  BY DEF SetAccess, MayManage, HasAccess
<1>4. PICK k \in Ids : Filed(k, "access", 0, 0, acl.rev + 1, "pending", "all")
  BY CommandsFile
<1>5. Owed'
  <2>1. ASSUME NEW v \in Users PROVE Owes(jobs[k], v)'
    <3>1. 0 < v
      BY Numbers DEF Users
    <3> QED
      BY <1>2, <1>4, <3>1 DEF Filed, Owes
  <2> QED
    BY <2>1 DEF Owed
<1>6. ASSUME NEW v \in Users
      PROVE  /\ grantMatches(v)' => canonicalMember(v)' /\ policyAllowsMember(v)'
             /\ grant'[v].acl <= acl.rev + 1 /\ grant'[v].rev <= member[v].rev
  <2>1. canonicalMember(v)' <=> canonicalMember(v)
    BY <1>2 DEF canonicalMember
  <2>2. /\ policyAllowsMember(v)' <=> (p.open \/ member[v].role \in p.roles \/ v \in p.users)
        /\ grantMatches(v)' <=> grant'[v] = [acl |-> acl.rev + 1, rev |-> member[v].rev]
    BY <1>2 DEF policyAllowsMember, grantMatches
  <2>3. CASE v \in now
    <3>1. grant'[v] = Written(p, acl.rev + 1, member[v], v)
      BY <2>3 DEF SetAccess
    <3> QED
      BY <1>1, <1>3, <2>1, <2>2, <2>3, <3>1, WhatMatches, WhatIsWritten
  <2>4. CASE v \notin now
    <3>1. grant'[v] = grant[v]
      BY <2>4 DEF SetAccess
    <3>2. /\ grant[v].acl <= acl.rev /\ grant[v].rev <= member[v].rev
          /\ grant[v].acl \in Nat /\ member[v].rev \in Nat /\ grant[v] \in Stamps
      BY <1>1, Numbers DEF Grants, Dated, Stamps, Standing
    <3>3. grant[v] # [acl |-> acl.rev + 1, rev |-> member[v].rev]
      BY <1>1, <3>2, OldGrants
    <3> QED
      BY <1>1, <2>2, <3>1, <3>2, <3>3
  <2> QED
    BY <2>3, <2>4
<1>7. Dated' /\ NoGrantForOutsiders'
  BY <1>2, <1>6 DEF Dated, NoGrantForOutsiders
<1> QED
  BY <1>5, <1>7 DEF Grants

\* Who is not concerned by a change of standings keeps what he had.
LEMMA OthersAsBefore ==
  ASSUME Grants, Books, UNCHANGED acl, NEW k \in Ids, jobs[k].kind = "none",
         \A i \in Ids : i # k => jobs'[i] = jobs[i],
         NEW v \in Users, member'[v] = member[v], grant'[v] = grant[v],
         (owner' = v) <=> (owner = v)
  PROVE  /\ (acl.status = "active" /\ ~acl.policy.open /\ canonicalMember(v)') =>
              Exact(v)' \/ \E i \in Ids : Owes(jobs[i], v)'
         /\ grantMatches(v)' => canonicalMember(v)' /\ policyAllowsMember(v)'
         /\ grant'[v].acl <= acl'.rev /\ grant'[v].rev <= member'[v].rev
<1>1. /\ canonicalMember(v)' <=> canonicalMember(v)
      /\ policyAllowsMember(v)' <=> policyAllowsMember(v)
      /\ grantMatches(v)' <=> grantMatches(v)
  BY DEF canonicalMember, policyAllowsMember, grantMatches
<1>2. \A i \in Ids : Owes(jobs[i], v) => Owes(jobs[i], v)'
  BY DEF Owes, Books
<1> QED
  BY <1>1, <1>2 DEF Grants, Owed, Dated, NoGrantForOutsiders, Exact

LEMMA ChangeMemberGrants ==
  ASSUME ConvergenceConstantsAssumption, TypeOK, Books, Grants,
         NEW u \in Users, NEW m \in Standing, ChangeMember(u, m)
  PROVE  Grants'
<1>1. /\ acl.rev \in 1 .. MaxAcl /\ acl.policy \in Policies
      /\ member \in [Users -> Standing] /\ grant \in [Users -> Stamps]
  BY TypesAreTypeOK DEF Types, Acl
<1>2. /\ member'[u] = m /\ \A v \in Users : v # u => member'[v] = member[v]
      /\ UNCHANGED <<acl, owner>> /\ u # owner /\ m.role # "owner"
  BY <1>1 DEF ChangeMember
<1>3. /\ grant'[u] = IF m.role = "none" \/ m.banned \/ acl.status = "deleting" THEN NoGrant
                     ELSE Written(acl.policy, acl.rev, m, u)
      /\ \A v \in Users : v # u => grant'[v] = grant[v]
  BY <1>1 DEF ChangeMember, Refreshed
<1>4. PICK k \in Ids : Filed(k, "member", u, 0, 0, "done", "one")
  BY CommandsFile
<1>5. jobs[k].kind = "none" /\ \A i \in Ids : i # k => jobs'[i] = jobs[i]
  BY <1>4 DEF Filed
<1>6. ASSUME NEW v \in Users
      PROVE  /\ (acl.status = "active" /\ ~acl.policy.open /\ canonicalMember(v)') =>
                  Exact(v)' \/ \E i \in Ids : Owes(jobs[i], v)'
             /\ grantMatches(v)' => canonicalMember(v)' /\ policyAllowsMember(v)'
             /\ grant'[v].acl <= acl'.rev /\ grant'[v].rev <= member'[v].rev
  <2>1. CASE v # u
    <3>1. member'[v] = member[v] /\ grant'[v] = grant[v] /\ ((owner' = v) <=> (owner = v))
          /\ UNCHANGED acl
      BY <1>2, <1>3, <2>1
    <3> QED
      BY <1>5, <3>1, OthersAsBefore
  <2>2. CASE v = u
    <3>1. /\ Written(acl.policy, acl.rev, m, u) = [acl |-> acl.rev, rev |-> m.rev]
               <=> (~acl.policy.open /\ (m.role \in acl.policy.roles \/ u \in acl.policy.users))
          /\ NoGrant # [acl |-> acl.rev, rev |-> m.rev]
      BY <1>1, WhatMatches
    <3>2. /\ Written(acl.policy, acl.rev, m, u).acl <= acl.rev
          /\ Written(acl.policy, acl.rev, m, u).rev <= m.rev
          /\ NoGrant.acl = 0 /\ NoGrant.rev = 0 /\ 0 <= acl.rev /\ 0 <= m.rev
      BY <1>1, WhatIsWritten, Numbers DEF Standing
    <3>3. canonicalMember(u)' <=> (m.role # "none" /\ ~m.banned)
      BY <1>2 DEF canonicalMember
    <3>4. policyAllowsMember(u)' <=>
            (acl.policy.open \/ m.role \in acl.policy.roles \/ u \in acl.policy.users)
      BY <1>2 DEF policyAllowsMember
    <3>5. grantMatches(u)' <=> grant'[u] = [acl |-> acl.rev, rev |-> m.rev]
      BY <1>2 DEF grantMatches
    <3>6. (acl.status = "active" /\ ~acl.policy.open /\ canonicalMember(u)') => Exact(u)'
      BY <1>3, <3>1, <3>3, <3>4, <3>5 DEF Exact
    <3>7. grantMatches(u)' => canonicalMember(u)' /\ policyAllowsMember(u)'
      BY <1>3, <3>1, <3>3, <3>4, <3>5
    <3>8. grant'[u].acl <= acl'.rev /\ grant'[u].rev <= member'[u].rev
      BY <1>2, <1>3, <3>2
    <3> QED
      BY <2>2, <3>6, <3>7, <3>8
  <2> QED
    BY <2>1, <2>2
<1>7. Owed' /\ Dated' /\ NoGrantForOutsiders'
  BY <1>2, <1>6 DEF Owed, Dated, NoGrantForOutsiders
<1> QED
  BY <1>7 DEF Grants

\* Both owners' grants are older than their new standings, and owed by the job.
LEMMA TransferGrants ==
  ASSUME ConvergenceConstantsAssumption, TypeOK, Books, Grants,
         NEW u \in Users, TransferOwnership(u)
  PROVE  Grants'
<1>1. /\ owner \in Users /\ u # owner /\ owner' = u /\ UNCHANGED <<acl, grant>>
      /\ member \in [Users -> Standing] /\ grant \in [Users -> Stamps] /\ acl.rev \in Nat
  BY TypesAreTypeOK, Numbers DEF TransferOwnership, Types, Acl
<1>2. /\ member'[u].rev = member[u].rev + 1 /\ member'[owner].rev = member[owner].rev + 1
      /\ \A v \in Users : v \notin {u, owner} => member'[v] = member[v]
  BY <1>1 DEF TransferOwnership, Standing
<1>3. PICK k \in Ids : Filed(k, "transfer", owner, u, 0, "pending", "end")
  BY CommandsFile
<1>4. jobs[k].kind = "none" /\ \A i \in Ids : i # k => jobs'[i] = jobs[i]
  BY <1>3 DEF Filed
<1>5. ASSUME NEW v \in Users
      PROVE  /\ (acl.status = "active" /\ ~acl.policy.open /\ canonicalMember(v)') =>
                  Exact(v)' \/ \E i \in Ids : Owes(jobs[i], v)'
             /\ grantMatches(v)' => canonicalMember(v)' /\ policyAllowsMember(v)'
             /\ grant'[v].acl <= acl'.rev /\ grant'[v].rev <= member'[v].rev
  <2>1. CASE v \notin {u, owner}
    <3>1. member'[v] = member[v] /\ grant'[v] = grant[v] /\ ((owner' = v) <=> (owner = v))
          /\ UNCHANGED acl
      BY <1>1, <1>2, <2>1
    <3> QED
      BY <1>4, <3>1, OthersAsBefore
  <2>2. CASE v \in {u, owner}
    <3>1. Owes(jobs[k], v)'
      BY <1>3, <2>2 DEF Filed, Owes
    <3>2. /\ member[v].rev \in Nat /\ grant[v].rev \in Nat /\ grant[v] \in Stamps
          /\ grant[v].acl <= acl.rev /\ grant[v].rev <= member[v].rev
      BY <1>1, Numbers DEF Standing, Stamps, Grants, Dated
    <3>3. member'[v].rev = member[v].rev + 1
      BY <1>2, <2>2
    <3>4. grant[v] # [acl |-> acl.rev, rev |-> member[v].rev + 1]
      BY <1>1, <3>2, OldGrants
    <3>5. ~grantMatches(v)'
      BY <1>1, <3>3, <3>4 DEF grantMatches
    <3> QED
      BY <1>1, <3>1, <3>2, <3>3, <3>5
  <2> QED
    BY <2>1, <2>2
<1>6. Owed' /\ Dated' /\ NoGrantForOutsiders'
  BY <1>1, <1>5 DEF Owed, Dated, NoGrantForOutsiders
<1> QED
  BY <1>6 DEF Grants

LEMMA TerminateGrants ==
  ASSUME ConvergenceConstantsAssumption, TypeOK, Grants,
         NEW u \in Users, NEW status \in {"archived", "deleting"}, Terminate(u, status)
  PROVE  Grants'
<1>1. /\ acl.rev \in Nat /\ acl.rev + 1 \in 1 .. MaxAcl /\ acl.policy \in Policies
      /\ member \in [Users -> Standing] /\ grant \in [Users -> Stamps] /\ acl \in Acl
  BY TypesAreTypeOK, Numbers DEF Terminate, Types, Acl
<1>2. /\ acl'.rev = acl.rev + 1 /\ acl'.policy = acl.policy /\ acl'.status = status
      /\ UNCHANGED <<owner, member>> /\ canonicalMember(u)
  BY <1>1 DEF Terminate, Acl, MayManage, HasAccess
<1>3. /\ grant'[u] = Written(acl.policy, acl.rev + 1, member[u], u)
      /\ \A v \in Users : v # u => grant'[v] = grant[v]
  BY <1>1 DEF Terminate
<1>4. Owed'
  BY <1>2 DEF Owed
<1>5. ASSUME NEW v \in Users
      PROVE  /\ grantMatches(v)' => canonicalMember(v)' /\ policyAllowsMember(v)'
             /\ grant'[v].acl <= acl.rev + 1 /\ grant'[v].rev <= member[v].rev
  <2>1. /\ canonicalMember(v)' <=> canonicalMember(v)
        /\ policyAllowsMember(v)' <=> policyAllowsMember(v)
        /\ grantMatches(v)' <=> grant'[v] = [acl |-> acl.rev + 1, rev |-> member[v].rev]
    BY <1>2 DEF canonicalMember, policyAllowsMember, grantMatches
  <2>2. CASE v = u
    BY <1>1, <1>2, <1>3, <2>1, <2>2, WhatMatches, WhatIsWritten DEF policyAllowsMember
  <2>3. CASE v # u
    <3>1. /\ grant[v].acl <= acl.rev /\ grant[v].rev <= member[v].rev
          /\ grant[v].acl \in Nat /\ member[v].rev \in Nat /\ grant[v] \in Stamps
      BY <1>1, Numbers DEF Grants, Dated, Stamps, Standing
    <3>2. grant[v] # [acl |-> acl.rev + 1, rev |-> member[v].rev]
      BY <1>1, <3>1, OldGrants
    <3> QED
      BY <1>1, <1>3, <2>1, <2>3, <3>1, <3>2
  <2> QED
    BY <2>2, <2>3
<1>6. Dated' /\ NoGrantForOutsiders'
  BY <1>2, <1>5 DEF Dated, NoGrantForOutsiders
<1> QED
  BY <1>4, <1>6 DEF Grants

LEMMA OthersGrants ==
  ASSUME ConvergenceConstantsAssumption, TypeOK, Books, Grants, Other
  PROVE  Grants'
<1>1. CASE \E w \in Workers : Project(w)
  BY <1>1, ProjectGrants
<1>2. CASE ~\E w \in Workers : Project(w)
  <2>1. UNCHANGED <<owner, acl, member, grant>>
    BY <1>2 DEF Other, IssueToken, EndSession, FinishEnd, Purge, Plan, ProjectionFails, EndPage,
       Conclude, WorkerDies, Reconcile, Acknowledge, ProviderFails, CompleteJob, LeaseExpires
  <2>2. \/ UNCHANGED jobs
        \/ \E w \in Workers : Conclude(w) \/ \E i \in Ids : Plan(w, i)
        \/ \E i \in Ids : CompleteJob(i) \/ LeaseExpires(i)
    BY <1>2 DEF Other, IssueToken, EndSession, FinishEnd, Purge, ProjectionFails, EndPage,
       WorkerDies, Reconcile, Acknowledge, ProviderFails
  <2>3. UNCHANGED jobs => \A i \in Ids : SameJob(i) /\ SameGrants(i)
    BY DEF SameJob, SameGrants
  <2>4. \A i \in Ids : SameJob(i) /\ SameGrants(i)
    BY <2>2, <2>3, ConcludeKeepsJobs, PlanKeepsJobs, JobStepsKeepJobs
  <2> QED
    BY <2>1, <2>4, SameGrantsSameDebts
<1> QED
  BY <1>1, <1>2

------------------------
(***************************************************************************)
(* The theorems.                                                           *)
(***************************************************************************)

LEMMA InitIInv ==
  ASSUME ConvergenceConstantsAssumption, Init
  PROVE  IInv
<1>1. \A i \in Ids : jobs[i] = NoJob
  BY DEF Init
<1>2. \A w \in Workers : worker[w] = Idle
  BY DEF Init
<1>3. Books
  BY <1>1, <1>2 DEF Books, NoJob, Idle
<1>4. FinalsWait /\ Flights
  BY <1>2 DEF FinalsWait, Flights, Idle
<1>5. Remembered
  BY DEF Init, Remembered, Stale, NoRecipient
<1> QED
  BY <1>3, <1>4, <1>5, InitTyped, InitGrants DEF IInv

LEMMA NextIInv ==
  ASSUME ConvergenceConstantsAssumption, IInv, [Next]_vars
  PROVE  IInv'
<1>1. TypeOK /\ Books /\ FinalsWait /\ Flights /\ Remembered /\ Grants
  BY DEF IInv
<1>2. CASE UNCHANGED vars
  <2>1. UNCHANGED <<owner, acl, member, grant, session, recipient, jobs, worker, failures>>
    BY <1>2 DEF vars
  <2>2. TypeOK'
    BY <1>1, <1>2, NextTyped
  <2>3. Books' /\ FinalsWait' /\ Flights'
    BY <1>1, <2>1 DEF Books, FinalsWait, TargetsEnd, Flights
  <2>4. Remembered'
    BY <1>1, <2>1 DEF Remembered, Stale, Fresh, Covers, Minds
  <2>5. Grants'
    BY <1>1, <2>1, SameGrantsSameDebts DEF SameJob, SameGrants
  <2> QED
    BY <2>2, <2>3, <2>4, <2>5 DEF IInv
<1>3. CASE Next
  <2>1. Commanded \/ Other
    BY <1>1, <1>3, StepsOfNext
  <2>2. TypeOK'
    BY <1>1, <1>3, NextTyped
  <2>3. Books' /\ FinalsWait'
    BY <1>1, <2>1, CommandsInTheBooks, OthersInTheBooks
  <2>4. Flights'
    BY <1>1, <2>1, FlightsKept
  <2>5. Remembered'
    BY <1>1, <2>1, RememberedKept
  <2>6. Grants'
    BY <1>1, <2>1, SetAccessGrants, ChangeMemberGrants, TransferGrants, TerminateGrants,
       OthersGrants DEF Commanded
  <2> QED
    BY <2>2, <2>3, <2>4, <2>5, <2>6 DEF IInv
<1> QED
  BY <1>2, <1>3

LEMMA Inductive ==
  ASSUME ConvergenceConstantsAssumption
  PROVE  Spec => []IInv
<1>1. Init => IInv
  BY InitIInv
<1>2. IInv /\ [Next]_vars => IInv'
  BY NextIInv
<1> QED
  BY <1>1, <1>2, PTL DEF Spec

\* Access, grants, token recipients, jobs and invocations keep their types: in
\* particular no page is planned for a user who does not exist.
THEOREM TypeCorrect ==
  ASSUME ConvergenceConstantsAssumption
  PROVE  Spec => []TypeOK
<1>1. IInv => TypeOK
  BY DEF IInv
<1> QED
  BY <1>1, Inductive, PTL

\* Pages, refused reconciles, dead workers and expired leases forget nobody who
\* holds a media token of a live session on an authority that has changed:
\* processServerConvergencePage of convergence_runtime.js.
THEOREM NobodyIsForgotten ==
  ASSUME ConvergenceConstantsAssumption
  PROVE  Spec => []NobodyForgotten
<1>1. IInv => NobodyForgotten
  BY DEF IInv, Remembered, NobodyForgotten, Stale
<1> QED
  BY <1>1, Inductive, PTL

\* When no projection is pending, the grants of an active restricted channel are
\* those its policy allows: processServerControlOutboxPage of convergence.js.
THEOREM GrantsConverge ==
  ASSUME ConvergenceConstantsAssumption
  PROVE  Spec => []GrantsAreExact
<1>1. IInv => GrantsAreExact
  BY DEF IInv, Grants, Owed, Owes, Exact, GrantsAreExact
<1> QED
  BY <1>1, Inductive, PTL

\* No grant that matches is ever somebody's the policy excludes, or who left or
\* was banned: writeChannelGrant and refreshMemberChannelGrants.
THEOREM OutsidersHoldNoGrant ==
  ASSUME ConvergenceConstantsAssumption
  PROVE  Spec => []NoGrantForOutsiders
<1>1. IInv => NoGrantForOutsiders
  BY DEF IInv, Grants
<1> QED
  BY <1>1, Inductive, PTL

=============================================================================
