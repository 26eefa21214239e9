------------------------------ MODULE Convergence ------------------------------
(***************************************************************************)
(* Access to one restricted channel and the jobs that make it converge:    *)
(* functions/servers/channels.js and memberships.js change policies and    *)
(* standings, convergence.js projects grants page by page, and             *)
(* convergence_runtime.js reconciles the holders of media tokens, page by  *)
(* page, under a lease.                                                    *)
(*                                                                         *)
(*   acl       the policy of the channel, its aclRevision and its status   *)
(*   member    roles and bans with the authorizationRevision               *)
(*   grant     accessGrants/{uid}, by the two revisions it was written for *)
(*   session   the one media generation considered, live .. gone           *)
(*   recipient tokenRecipients/{uid} of it, by the revisions of the token  *)
(*   jobs      serverControlOutbox, in the order they were created         *)
(*   worker    invocations of processServerConvergencePage                 *)
(*                                                                         *)
(* Document ids order both collections that are paged: users are numbers.  *)
(* The end of a session is one step here, and a whole protocol in module   *)
(* ServerSession; the documents of a deleted channel go in ServerRemoval.  *)
(***************************************************************************)
EXTENDS Naturals, FiniteSets

CONSTANTS
  N,            \* users 1 .. N, the first owner is 1
  Policies,     \* the policies in use
  Workers,
  PageSize,
  MaxAcl,       \* bound: access revisions
  MaxRevision,  \* bound: membership revisions
  MaxJobs,      \* bound: jobs
  MaxFailures,  \* bound: failed provider calls, dead and slow workers
  None

Users == 1 .. N
Ids == 1 .. MaxJobs
Ranks == {"none", "member", "admin", "owner"}

ConvergenceConstantsAssumption ==
  /\ N \in Nat \ {0} /\ PageSize \in Nat \ {0}
  /\ MaxAcl \in Nat \ {0} /\ MaxRevision \in Nat \ {0}
  /\ MaxJobs \in Nat /\ MaxFailures \in Nat /\ None \notin Workers
  /\ Policies \subseteq [open : BOOLEAN, roles : SUBSET Ranks, users : SUBSET Users]
  /\ \A p \in Policies : p.open \/ "owner" \in p.roles

VARIABLES owner, acl, member, grant, session, recipient, jobs, worker, failures

vars == <<owner, acl, member, grant, session, recipient, jobs, worker, failures>>

NoGrant == [acl |-> 0, rev |-> 0]
NoRecipient == [st |-> "none", acl |-> 0, rev |-> 0]
NoJob == [kind |-> "none", user |-> 0, heir |-> 0, acl |-> 0, grants |-> "done", from |-> 0,
          target |-> "none", media |-> "done", cursor |-> 0, lease |-> None,
          expired |-> FALSE, status |-> "none"]
Idle == [job |-> 0, at |-> "idle", page |-> {}, flying |-> {}, last |-> 0,
         pageDone |-> FALSE, cursor |-> 0, pending |-> FALSE, doubt |-> FALSE]

Stamps == [acl : 0 .. MaxAcl, rev : 0 .. MaxRevision]

TypeOK ==
  /\ owner \in Users
  /\ acl \in [rev : 1 .. MaxAcl, policy : Policies,
              status : {"active", "archived", "deleting"}]
  /\ member \in [Users -> [role : Ranks, banned : BOOLEAN, rev : 0 .. MaxRevision]]
  /\ grant \in [Users -> Stamps]
  /\ session \in {"live", "ending", "ended", "gone"}
  /\ recipient \in [Users -> [st : {"none", "active", "revoking", "uncertain", "revoked"},
                              acl : 0 .. MaxAcl, rev : 0 .. MaxRevision]]
  /\ jobs \in [Ids ->
       [kind : {"none", "access", "member", "end", "transfer"}, user : 0 .. N, heir : 0 .. N,
        acl : 0 .. MaxAcl, grants : {"pending", "done"}, from : 0 .. N,
        target : {"none", "one", "all", "end"},
        media : {"pending", "recoveryRequired", "done"}, cursor : 0 .. N,
        lease : Workers \cup {None}, expired : BOOLEAN,
        status : {"none", "pending", "completed"}]]
  /\ worker \in [Workers ->
       [job : 0 .. MaxJobs, at : {"idle", "project", "media", "final"},
        page : SUBSET Users, flying : SUBSET Users, last : 0 .. N,
        pageDone : BOOLEAN, cursor : 0 .. N, pending : BOOLEAN, doubt : BOOLEAN]]
  /\ failures \in 0 .. MaxFailures

--------------------------------
(* Authority *)
canonicalMember(u) ==
  /\ member[u].role # "none" /\ ~member[u].banned
  /\ (member[u].role = "owner") = (owner = u)

policyAllowsMember(u) ==
  \/ acl.policy.open
  \/ member[u].role \in acl.policy.roles
  \/ u \in acl.policy.users

grantMatches(u) == grant[u] = [acl |-> acl.rev, rev |-> member[u].rev]

HasAccess(u) ==
  /\ canonicalMember(u) /\ policyAllowsMember(u)
  /\ acl.policy.open \/ grantMatches(u)

MayManage(u) == HasAccess(u) /\ member[u].role \in {"owner", "admin"}

\* readSessionTokenAuthority
TokenAuthority(u) == session = "live" /\ acl.status = "active" /\ HasAccess(u)

Fresh(u) == recipient[u].acl = acl.rev /\ recipient[u].rev = member[u].rev

\* writeChannelGrant under a policy, for the member as it becomes.
Written(p, rev, m, u) ==
  IF ~p.open /\ (m.role \in p.roles \/ u \in p.users)
  THEN [acl |-> rev, rev |-> m.rev] ELSE NoGrant

--------------------------------
(* Jobs *)
Free == {j \in Ids : jobs[j].kind = "none"}

Captured(target) == IF session \in {"live", "ending"} THEN target ELSE "none"

NewJob(kind, u, v, rev, grants, target) ==
  LET j == CHOOSE i \in Free : \A k \in Free : i <= k
      t == Captured(target)
  IN  jobs' = [jobs EXCEPT ![j] =
        [NoJob EXCEPT !.kind = kind, !.user = u, !.heir = v, !.acl = rev, !.grants = grants,
           !.target = t, !.media = IF t = "none" THEN "done" ELSE "pending",
           !.status = "pending"]]

Init ==
  /\ owner = 1
  /\ acl \in [rev : {1}, policy : Policies, status : {"active"}]
  /\ member = [u \in Users |-> [role |-> IF u = 1 THEN "owner" ELSE "member",
                                banned |-> FALSE, rev |-> 1]]
  /\ grant = [u \in Users |-> Written(acl.policy, 1, member[u], u)]
  /\ session = "live"
  /\ recipient = [u \in Users |-> NoRecipient]
  /\ jobs = [j \in Ids |-> NoJob]
  /\ worker = [w \in Workers |-> Idle]
  /\ failures = 0

--------------------------------
(* Commands *)
SetAccess(u, p) ==
  /\ Free # {} /\ acl.rev < MaxAcl
  /\ MayManage(u) /\ acl.status \in {"active", "archived"}
  /\ \A v \in p.users \cup {owner} : canonicalMember(v)
  /\ acl' = [acl EXCEPT !.rev = @ + 1, !.policy = p]
  /\ grant' = [v \in Users |-> IF v \in p.users \cup {owner, u}
                 THEN Written(p, acl.rev + 1, member[v], v) ELSE grant[v]]
  /\ NewJob("access", 0, 0, acl.rev + 1, "pending", "all")
  /\ UNCHANGED <<owner, member, session, recipient, worker, failures>>

Refreshed(u, m) ==
  grant' = [grant EXCEPT ![u] =
    IF m.role = "none" \/ m.banned \/ acl.status = "deleting" THEN NoGrant
    ELSE Written(acl.policy, acl.rev, m, u)]

\* A join, a departure, a role, a ban: module ServerAdmission says when.
ChangeMember(u, m) ==
  /\ Free # {} /\ u # owner /\ m.role # "owner"
  /\ m.rev = member[u].rev + 1 /\ m.rev <= MaxRevision
  /\ <<m.role, m.banned>> # <<member[u].role, member[u].banned>>
  /\ m.role = "none" => ~m.banned
  /\ member[u].role = "none" => m.role = "member" /\ ~m.banned
  /\ member' = [member EXCEPT ![u] = m]
  /\ Refreshed(u, m)
  /\ NewJob("member", u, 0, 0, "done", "one")
  /\ UNCHANGED <<owner, acl, session, recipient, worker, failures>>

\* Both owners' grants wait for the job; every live session is ended.
TransferOwnership(u) ==
  /\ Free # {} /\ u # owner /\ canonicalMember(u)
  /\ member[owner].rev < MaxRevision /\ member[u].rev < MaxRevision
  /\ owner' = u
  /\ member' = [member EXCEPT
       ![u].role = "owner", ![u].rev = @ + 1,
       ![owner].role = "admin", ![owner].rev = @ + 1]
  /\ session' = IF session = "live" THEN "ending" ELSE session
  /\ NewJob("transfer", owner, u, 0, "pending", "end")
  /\ UNCHANGED <<acl, grant, recipient, worker, failures>>

\* archiveServerChannelV1 and deleteServerChannelV1
Terminate(u, status) ==
  /\ Free # {} /\ acl.rev < MaxAcl
  /\ MayManage(u)
  /\ acl.status \in {"active", "archived"} /\ acl.status # status
  /\ acl' = [acl EXCEPT !.rev = @ + 1, !.status = status]
  /\ grant' = [grant EXCEPT ![u] = Written(acl.policy, acl.rev + 1, member[u], u)]
  /\ session' = IF session = "live" THEN "ending" ELSE session
  /\ NewJob("end", 0, 0, acl.rev + 1, "done", "end")
  /\ UNCHANGED <<owner, member, recipient, worker, failures>>

\* createServerChannelTokenV1
IssueToken(u) ==
  /\ TokenAuthority(u)
  /\ \/ recipient[u].st \in {"none", "revoked"}
     \/ recipient[u].st = "active" /\ Fresh(u)
  /\ recipient' = [recipient EXCEPT ![u] =
       [st |-> "active", acl |-> acl.rev, rev |-> member[u].rev]]
  /\ UNCHANGED <<owner, acl, member, grant, session, jobs, worker, failures>>

\* The end worker, which also settles attempts in doubt.
Ended ==
  /\ session' = "ended"
  /\ recipient' = [u \in Users |-> IF recipient[u].st = "none"
                     THEN NoRecipient ELSE [recipient[u] EXCEPT !.st = "revoked"]]

EndSession ==
  /\ session = "live" /\ session' = "ending"
  /\ UNCHANGED <<owner, acl, member, grant, recipient, jobs, worker, failures>>

FinishEnd ==
  /\ session = "ending" /\ Ended
  /\ UNCHANGED <<owner, acl, member, grant, jobs, worker, failures>>

\* The cleanup of a deleted channel removes the generation.
Purge ==
  /\ acl.status = "deleting" /\ session = "ended"
  /\ session' = "gone"
  /\ recipient' = [u \in Users |-> NoRecipient]
  /\ UNCHANGED <<owner, acl, member, grant, jobs, worker, failures>>

--------------------------------
(* processServerConvergencePage *)
Settled(j) == j.grants = "done" /\ j.media = "done"

Leased(j) == j.lease # None /\ ~j.expired

After(c) == {u \in Users : u > c /\ recipient[u].st # "none"}

FirstOf(S) == {u \in S : Cardinality({v \in S : v < u}) < PageSize}

Recipients(j) ==
  CASE j.target = "one" -> {j.user}
    [] j.target = "all" /\ j.media # "done" -> FirstOf(After(j.cursor))
    [] OTHER -> {}

LastOf(S, c) == IF S = {} THEN c ELSE CHOOSE u \in S : \A v \in S : v <= u

\* A job whose session is gone is refused: assertSessionBinding.
Plan(w, i) ==
  LET j == jobs[i] IN
  /\ worker[w].at = "idle" /\ j.status = "pending" /\ ~Settled(j) /\ ~Leased(j)
  /\ j.media = "done" \/ session # "gone"
  /\ worker' = [worker EXCEPT ![w] = [Idle EXCEPT
       !.job = i, !.at = IF j.grants = "done" THEN "media" ELSE "project",
       !.page = IF j.media = "done" THEN {} ELSE Recipients(j),
       !.pageDone = j.target = "all" =>
                      Cardinality(After(j.cursor)) <= PageSize,
       !.cursor = j.cursor, !.last = LastOf(Recipients(j), j.cursor)]]
  /\ jobs' = [jobs EXCEPT ![i].lease = w, ![i].expired = FALSE]
  /\ UNCHANGED <<owner, acl, member, grant, session, recipient, failures>>

CompleteJob(i) ==
  /\ jobs[i].status = "pending" /\ Settled(jobs[i])
  /\ jobs' = [jobs EXCEPT ![i].status = "completed"]
  /\ UNCHANGED <<owner, acl, member, grant, session, recipient, worker, failures>>

Existing(c) == {u \in Users : u > c /\ member[u].role # "none"}

\* canonicalMember of the page, by its standing now.
Projected(page) ==
  grant' = [u \in Users |-> IF u \notin page THEN grant[u]
    ELSE IF canonicalMember(u) /\ acl.status # "deleting"
         THEN Written(acl.policy, acl.rev, member[u], u) ELSE NoGrant]

Superseded(j) == acl.rev # j.acl \/ acl.status = "deleting"

\* One page of processServerControlOutboxPage, a transaction of its own that
\* reads its cursor again and is not fenced by the lease.
Project(w) ==
  LET i == worker[w].job
      j == jobs[i]
      page == FirstOf(Existing(j.from))
  IN
  /\ worker[w].at = "project"
  /\ \/ /\ j.grants = "done" /\ UNCHANGED <<grant, jobs>>
     \/ /\ j.grants = "pending" /\ j.kind = "transfer"
        /\ Projected({j.user, j.heir})
        /\ jobs' = [jobs EXCEPT ![i].grants = "done"]
     \/ /\ j.grants = "pending" /\ j.kind = "access" /\ Superseded(j)
        /\ jobs' = [jobs EXCEPT ![i].grants = "done"]
        /\ UNCHANGED grant
     \/ /\ j.grants = "pending" /\ j.kind = "access" /\ ~Superseded(j)
        /\ Projected(page)
        /\ jobs' = [jobs EXCEPT ![i].from = LastOf(page, @),
             ![i].grants = IF page = Existing(j.from) THEN "done" ELSE "pending"]
  /\ worker' = [worker EXCEPT ![w].at = "media"]
  /\ UNCHANGED <<owner, acl, member, session, recipient, failures>>

\* A projection that throws also skips the media of this invocation.
ProjectionFails(w) ==
  /\ worker[w].at = "project" /\ failures < MaxFailures
  /\ worker' = [worker EXCEPT ![w].at = "final", ![w].pending = TRUE]
  /\ failures' = failures + 1
  /\ UNCHANGED <<owner, acl, member, grant, session, recipient, jobs>>

TargetsEnd(w) == jobs[worker[w].job].target = "end"

\* One page of the end worker, which may leave work behind.
EndPage(w) ==
  /\ worker[w].at = "media" /\ TargetsEnd(w)
  /\ \/ /\ session = "ending" /\ Ended
        /\ worker' = [worker EXCEPT ![w].at = "final"]
     \/ /\ session = "ending" /\ UNCHANGED <<session, recipient>>
        /\ worker' = [worker EXCEPT ![w].at = "final", ![w].pending = TRUE]
     \/ /\ session # "ending" /\ UNCHANGED <<session, recipient>>
        /\ worker' = [worker EXCEPT ![w].at = "final"]
  /\ UNCHANGED <<owner, acl, member, grant, jobs, failures>>

Reconciling(w, u) == worker[w].at = "media" /\ ~TargetsEnd(w) /\ u \in worker[w].page

Answer(w, u, pending, doubt) ==
  worker' = [worker EXCEPT ![w].page = @ \ {u}, ![w].flying = @ \ {u},
                           ![w].pending = @ \/ pending, ![w].doubt = @ \/ doubt]

UpToDate(u) == TokenAuthority(u) /\ Fresh(u)

\* The first transaction of reconcileServerSessionParticipant.
Reconcile(w, u) ==
  LET st == recipient[u].st IN
  /\ Reconciling(w, u) /\ u \notin worker[w].flying
  /\ \/ /\ \/ st \in {"none", "revoked"}
           \/ st = "active" /\ UpToDate(u)
        /\ Answer(w, u, FALSE, FALSE)
        /\ UNCHANGED recipient
     \/ /\ st \in {"revoking", "uncertain"}
        /\ \E doubt \in (IF st = "uncertain" THEN {TRUE} ELSE BOOLEAN) :
             Answer(w, u, TRUE, doubt)
        /\ UNCHANGED recipient
     \/ /\ st = "active" /\ ~UpToDate(u)
        /\ recipient' = [recipient EXCEPT ![u].st = "revoking"]
        /\ worker' = [worker EXCEPT ![w].flying = @ \cup {u}]
  /\ UNCHANGED <<owner, acl, member, grant, session, jobs, failures>>

\* The provider confirmed; an end may have settled the recipient meanwhile.
Acknowledge(w, u) ==
  /\ Reconciling(w, u) /\ u \in worker[w].flying
  /\ recipient' = IF recipient[u].st = "revoking"
                  THEN [recipient EXCEPT ![u].st = "revoked"] ELSE recipient
  /\ Answer(w, u, FALSE, FALSE)
  /\ UNCHANGED <<owner, acl, member, grant, session, jobs, failures>>

ProviderFails(w, u) ==
  /\ Reconciling(w, u) /\ u \in worker[w].flying /\ failures < MaxFailures
  /\ recipient' = IF recipient[u].st = "revoking"
                  THEN [recipient EXCEPT ![u].st = "uncertain"] ELSE recipient
  /\ Answer(w, u, TRUE, TRUE)
  /\ failures' = failures + 1
  /\ UNCHANGED <<owner, acl, member, grant, session, jobs>>

Fenced(w, j) == j.lease = w /\ j.cursor = worker[w].cursor

Done(w) ==
  \/ worker[w].at = "final"
  \/ worker[w].at = "media" /\ ~TargetsEnd(w) /\ worker[w].page = {}

AdvancedAnyway(w, j) ==
  IF j.target = "none" \/ j.media = "done" THEN j
  ELSE IF worker[w].pageDone THEN [j EXCEPT !.media = "done", !.cursor = 0]
  ELSE [j EXCEPT !.media = "pending", !.cursor = worker[w].last]

\* The cursor only passes recipients whose reconcile is settled.
Advanced(w, j) ==
  IF j.target = "none" \/ j.media = "done" THEN j
  ELSE IF worker[w].pending
    THEN [j EXCEPT !.media = IF worker[w].doubt THEN "recoveryRequired" ELSE @]
  ELSE IF worker[w].pageDone THEN [j EXCEPT !.media = "done", !.cursor = 0]
  ELSE [j EXCEPT !.media = "pending", !.cursor = worker[w].last]

CompletedIfSettled(j) ==
  IF Settled(j) THEN [j EXCEPT !.status = "completed"] ELSE j

Released(j) == [j EXCEPT !.lease = None, !.expired = FALSE]

\* The last transaction of an invocation.
Conclude(w) ==
  LET i == worker[w].job IN
  /\ Done(w)
  /\ jobs' = IF Fenced(w, jobs[i])
             THEN [jobs EXCEPT ![i] = CompletedIfSettled(Released(Advanced(w, @)))]
             ELSE jobs
  /\ worker' = [worker EXCEPT ![w] = Idle]
  /\ UNCHANGED <<owner, acl, member, grant, session, recipient, failures>>

WorkerDies(w) ==
  /\ worker[w].at # "idle" /\ failures < MaxFailures
  /\ worker' = [worker EXCEPT ![w] = Idle]
  /\ failures' = failures + 1
  /\ UNCHANGED <<owner, acl, member, grant, session, recipient, jobs>>

\* LEASE_MS after its plan: its worker is gone, or slow, which is bounded
\* as a failure.
LeaseExpires(i) ==
  LET alive == worker[jobs[i].lease].job = i IN
  /\ Leased(jobs[i])
  /\ alive => failures < MaxFailures
  /\ failures' = IF alive THEN failures + 1 ELSE failures
  /\ jobs' = [jobs EXCEPT ![i].expired = TRUE]
  /\ UNCHANGED <<owner, acl, member, grant, session, recipient, worker>>

--------------------------------
Command ==
  \E u \in Users :
    \/ \E p \in Policies : SetAccess(u, p)
    \/ \E role \in Ranks, banned \in BOOLEAN :
         ChangeMember(u, [role |-> role, banned |-> banned, rev |-> member[u].rev + 1])
    \/ TransferOwnership(u) \/ IssueToken(u)
    \/ \E status \in {"archived", "deleting"} : Terminate(u, status)

WorkerStep(w) ==
  \/ \E i \in Ids : Plan(w, i)
  \/ Project(w) \/ EndPage(w) \/ Conclude(w)
  \/ \E u \in Users : Reconcile(w, u) \/ Acknowledge(w, u)

Fault(w) ==
  ProjectionFails(w) \/ WorkerDies(w) \/ \E u \in Users : ProviderFails(w, u)

Next ==
  \/ Command \/ EndSession \/ FinishEnd \/ Purge
  \/ \E w \in Workers : WorkerStep(w) \/ Fault(w)
  \/ \E i \in Ids : CompleteJob(i) \/ LeaseExpires(i)

Spec == Init /\ [][Next]_vars

--------------------------------
Covers(j, u) ==
  /\ j.status = "pending" /\ j.media # "done"
  /\ \/ j.target = "one" /\ j.user = u
     \/ j.target = "all" /\ j.cursor < u

(* Whoever holds a media token of a live generation on an authority that is *)
(* no longer current is in front of the cursor of some pending job: pages,  *)
(* refused reconciles, dead workers and expired leases forget nobody, who   *)
(* would keep the old token and be refused a new one.                       *)
NobodyForgotten ==
  session = "live" =>
    \A u \in Users :
      (recipient[u].st = "active" /\ ~Fresh(u)) => \E i \in Ids : Covers(jobs[i], u)

(* Once no projection is pending, exactly the members the policy of an      *)
(* active restricted channel allows hold a grant that matches, although     *)
(* pages, joins, bans, transfers and newer policies interleave.             *)
GrantsAreExact ==
  (\A i \in Ids : jobs[i].grants = "done") /\ acl.status = "active" /\ ~acl.policy.open =>
    \A u \in Users : canonicalMember(u) =>
      (grantMatches(u) <=> policyAllowsMember(u))

(* A grant that matches the current revisions was never written for anybody *)
(* the policy excludes, and never survives a departure or a ban.            *)
NoGrantForOutsiders ==
  \A u \in Users : grantMatches(u) => canonicalMember(u) /\ policyAllowsMember(u)

=============================================================================
