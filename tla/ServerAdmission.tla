---------------------------- MODULE ServerAdmission ----------------------------
(***************************************************************************)
(* Who belongs to a server: the commands of functions/servers/             *)
(* memberships.js, invites.js and management.js that admit, invite, rank,  *)
(* ban and remove members, over the documents                              *)
(*                                                                         *)
(*   root     clubs/{serverId}: owner, whether anyone may join, memberCount*)
(*   member   members/{uid}: role and ban, with "none" for no document     *)
(*   ledger   memberAuthorizations/{uid}: the revision of the membership,  *)
(*            which outlives the member document                           *)
(*   invite   invites/{uid}                                                *)
(*   pointer  the invitee's private pointer to the invitation, by its      *)
(*            generation (0: none)                                         *)
(*   friends  pairs that are friends, unblocked and unrestricted           *)
(*                                                                         *)
(* A command reads the clock before its transaction: it may see a time up  *)
(* to MaxLag old.  Every command is one transaction; what it does to the   *)
(* grants of channels is in module Convergence.                            *)
(***************************************************************************)
EXTENDS Naturals, FiniteSets

CONSTANTS
  Users,
  First,          \* the owner at creation
  Roles,          \* the roles in use
  Fickle,         \* bound: pairs whose friendship may end and return
  MaxTime,        \* bound: clock
  MaxLag,         \* bound: age of a clock reading at the commit
  TTL,            \* SERVER_INVITE_TTL_MS
  MaxRevision,    \* bound: membership revisions
  MaxGeneration,  \* bound: generations of an invitation
  None

\* ROLE_POWER
Power == [none |-> 0, guest |-> 1, member |-> 2, moderator |-> 3,
          admin |-> 4, coOwner |-> 5, owner |-> 6]

AdmissionConstantsAssumption ==
  /\ First \in Users /\ None \notin Users
  /\ {"owner", "coOwner", "member"} \subseteq Roles
  /\ Roles \subseteq DOMAIN Power \ {"none"}
  /\ Fickle \subseteq {p \in SUBSET Users : Cardinality(p) = 2}
  /\ MaxTime \in Nat /\ MaxLag \in Nat /\ TTL \in Nat \ {0}
  /\ MaxRevision \in Nat \ {0} /\ MaxGeneration \in Nat

\* broken and barred remember the past for the properties: the invitations
\* whose inviter's standing has changed since they were issued, and the
\* members whose ban nobody has lifted.
VARIABLES root, member, ledger, invite, pointer, friends, clock, broken, barred

vars == <<root, member, ledger, invite, pointer, friends, clock, broken, barred>>

--------------------------------
Pairs == {p \in SUBSET Users : Cardinality(p) = 2}

Absent == [role |-> "none", banned |-> FALSE]

NoInvite == [status |-> "none", generation |-> 0, inviter |-> None,
             revision |-> 0, created |-> 0, expires |-> 0]

TypeOK ==
  /\ root \in [owner : Users, open : BOOLEAN, count : Nat]
  /\ member \in [Users -> [role : Roles \cup {"none"}, banned : BOOLEAN]]
  /\ ledger \in [Users -> [status : {"none", "member", "left"},
                           revision : 0 .. MaxRevision, at : 0 .. MaxTime]]
  /\ invite \in [Users -> [status : {"none", "pending", "accepted",
                                     "declined", "revoked"},
                           generation : 0 .. MaxGeneration,
                           inviter : Users \cup {None},
                           revision : 0 .. MaxRevision,
                           created : 0 .. MaxTime,
                           expires : 0 .. MaxTime + TTL]]
  /\ pointer \in [Users -> 0 .. MaxGeneration]
  /\ friends \subseteq Pairs
  /\ clock \in 0 .. MaxTime
  /\ broken \subseteq Users /\ barred \subseteq Users

Init ==
  /\ root = [owner |-> First, open |-> FALSE, count |-> 1]
  /\ member = [u \in Users |-> IF u = First
                 THEN [role |-> "owner", banned |-> FALSE] ELSE Absent]
  /\ ledger = [u \in Users |-> IF u = First
                 THEN [status |-> "member", revision |-> 1, at |-> 0]
                 ELSE [status |-> "none", revision |-> 0, at |-> 0]]
  /\ invite = [u \in Users |-> NoInvite]
  /\ pointer = [u \in Users |-> 0]
  /\ friends = Pairs
  /\ clock = 0
  /\ broken = {} /\ barred = {}

--------------------------------
Readings == {t \in 0 .. clock : t + MaxLag >= clock}

Exists(u) == member[u].role # "none"

canonicalMember(u) ==
  /\ Exists(u) /\ ~member[u].banned
  /\ (member[u].role = "owner") = (root.owner = u)

Moderators == {"owner", "coOwner", "admin", "moderator"}

admitsPublicJoin == root.open

canInviteToServer(u) ==
  /\ canonicalMember(u)
  /\ member[u].role \in
       Moderators \cup (IF admitsPublicJoin THEN {"member"} ELSE {})

Outranks(u, v) == Power[member[u].role] > Power[member[v].role]

NextRevision(u) == ledger[u].revision + 1

\* The inviter holds the very membership that issued the invitation.
StandsAsThen(i) ==
  /\ canInviteToServer(i.inviter)
  /\ ledger[i.inviter].revision = i.revision

StandsNow(i) == canInviteToServer(i.inviter)

\* membershipInviterIsCurrent
StandsBehind(i) == StandsAsThen(i)

invitePredatesDeparture(u) ==
  ledger[u].status = "left" /\ invite[u].created <= ledger[u].at

Pending(u, now) ==
  /\ invite[u].status = "pending" /\ invite[u].expires > now
  /\ ~invitePredatesDeparture(u)

\* pendingInvitation with the admission policy.
Admissible(u, now) ==
  /\ Pending(u, now) /\ StandsBehind(invite[u])
  /\ {u, invite[u].inviter} \in friends

\* Invitations are void from the moment the standing of u changes.
Voided(u) == {v \in Users : invite[v].status = "pending" /\ invite[v].inviter = u}

Authorization(u, status, now) ==
  ledger' = [ledger EXCEPT ![u] =
               [status |-> status, revision |-> NextRevision(u), at |-> now]]

Answered(u, status) ==
  /\ invite' = IF invite[u].status = "pending"
               THEN [invite EXCEPT ![u].status = status] ELSE invite
  /\ pointer' = [pointer EXCEPT ![u] = 0]

\* Public admission supersedes an outstanding invitation.
Superseded(u) == Answered(u, "accepted")

--------------------------------
Joined(u, now) ==
  /\ ~Exists(u) /\ NextRevision(u) <= MaxRevision
  /\ member' = [member EXCEPT ![u] = [role |-> "member", banned |-> FALSE]]
  /\ Authorization(u, "member", now)
  /\ root' = [root EXCEPT !.count = @ + 1]
  /\ broken' = broken \cup Voided(u)
  /\ UNCHANGED <<friends, clock, barred>>

JoinPublic(u, now) ==
  /\ admitsPublicJoin
  /\ Joined(u, now)
  /\ Superseded(u)

\* joinServerV1 of a server that is not public, and an accepted invitation.
JoinInvited(u, now) ==
  /\ Admissible(u, now)
  /\ Joined(u, now)
  /\ Answered(u, "accepted")

Decline(u, now) ==
  /\ ~Exists(u) /\ Pending(u, now)
  /\ Answered(u, "declined")
  /\ UNCHANGED <<root, member, ledger, friends, clock, broken, barred>>

Invite(u, v, now) ==
  /\ u # v /\ canInviteToServer(u) /\ ~Exists(v) /\ {u, v} \in friends
  /\ ~(Pending(v, now) /\ StandsBehind(invite[v]))
  /\ invite[v].generation < MaxGeneration
  /\ invite' = [invite EXCEPT ![v] =
       [status |-> "pending", generation |-> @.generation + 1, inviter |-> u,
        revision |-> ledger[u].revision, created |-> now,
        expires |-> now + TTL]]
  /\ pointer' = [pointer EXCEPT ![v] = invite[v].generation + 1]
  /\ broken' = broken \ {v}
  /\ UNCHANGED <<root, member, ledger, friends, clock, barred>>

\* A manager withdraws any invitation, another member its own.
Revoke(u, v) ==
  /\ canonicalMember(u)
  /\ member[u].role \in Moderators \/ invite[v].inviter = u
  /\ invite[v].status = "pending"
  /\ Answered(v, "revoked")
  /\ UNCHANGED <<root, member, ledger, friends, clock, broken, barred>>

\* memberCount goes down by the documents removed.
Departing(u) == 1

\* The write set that leaving and being removed share.
Gone(u, now) ==
  /\ NextRevision(u) <= MaxRevision
  /\ root.count >= 2
  /\ member' = [member EXCEPT ![u] = Absent]
  /\ Authorization(u, "left", now)
  /\ root' = [root EXCEPT !.count = @ - Departing(u)]
  /\ Answered(u, "revoked")
  /\ broken' = broken \cup Voided(u)
  /\ UNCHANGED <<friends, clock, barred>>

Leave(u, now) ==
  /\ canonicalMember(u) /\ member[u].role # "owner"
  /\ Gone(u, now)

\* removeServerMemberV1; a banned member can be removed.
Remove(u, v, now) ==
  /\ u # v /\ canonicalMember(u) /\ member[u].role \in Moderators
  /\ Exists(v) /\ member[v].role # "owner" /\ Outranks(u, v)
  /\ Gone(v, now)

\* staffRemoveServerMember; whoever is no member only loses the invitation.
StaffRemove(v, now) ==
  /\ root.owner # v
  /\ \/ Exists(v) /\ Gone(v, now)
     \/ /\ ~Exists(v) /\ Answered(v, "revoked")
        /\ UNCHANGED <<root, member, ledger, friends, clock, broken, barred>>

SetRole(u, v, role, now) ==
  /\ u # v /\ canonicalMember(u) /\ member[u].role \in {"owner", "coOwner"}
  /\ canonicalMember(v) /\ Outranks(u, v)
  /\ role # "owner" /\ Power[member[u].role] > Power[role]
  /\ NextRevision(v) <= MaxRevision
  /\ member' = [member EXCEPT ![v].role = role]
  /\ Authorization(v, "member", now)
  /\ broken' = broken \cup Voided(v)
  /\ UNCHANGED <<root, invite, pointer, friends, clock, barred>>

\* applyMemberBan, in both directions.
Banned(v, banned, now) ==
  /\ Exists(v) /\ member[v].role # "owner" /\ member[v].banned # banned
  /\ NextRevision(v) <= MaxRevision
  /\ member' = [member EXCEPT ![v].banned = banned]
  /\ Authorization(v, "member", now)
  /\ broken' = broken \cup Voided(v)
  /\ barred' = IF banned THEN barred \cup {v} ELSE barred \ {v}
  /\ UNCHANGED <<root, invite, pointer, friends, clock>>

SetBan(u, v, banned, now) ==
  /\ u # v /\ canonicalMember(u) /\ member[u].role \in Moderators
  /\ Outranks(u, v)
  /\ Banned(v, banned, now)

StaffSetBan(v, banned, now) == Banned(v, banned, now)

HandedOver(u, v) == [member EXCEPT ![u].role = "coOwner", ![v].role = "owner"]

TransferOwnership(u, v, now) ==
  /\ u # v /\ canonicalMember(u) /\ member[u].role = "owner"
  /\ canonicalMember(v)
  /\ NextRevision(u) <= MaxRevision /\ NextRevision(v) <= MaxRevision
  /\ member' = HandedOver(u, v)
  /\ ledger' = [w \in Users |-> IF w \in {u, v}
       THEN [status |-> "member", revision |-> NextRevision(w), at |-> now]
       ELSE ledger[w]]
  /\ root' = [root EXCEPT !.owner = v]
  /\ broken' = broken \cup Voided(u) \cup Voided(v)
  /\ UNCHANGED <<invite, pointer, friends, clock, barred>>

\* updateServerV1 of the privacy of a community or podcast.
SetPrivacy(u) ==
  /\ canonicalMember(u) /\ member[u].role \in {"owner", "coOwner", "admin"}
  /\ root' = [root EXCEPT !.open = ~@]
  /\ UNCHANGED <<member, ledger, invite, pointer, friends, clock, broken, barred>>

\* Friendships end, blocks and restrictions come, and go again.
ToggleFriends(p) ==
  /\ friends' = IF p \in friends THEN friends \ {p} ELSE friends \cup {p}
  /\ UNCHANGED <<root, member, ledger, invite, pointer, clock, broken, barred>>

Tick ==
  /\ clock < MaxTime
  /\ clock' = clock + 1
  /\ UNCHANGED <<root, member, ledger, invite, pointer, friends, broken, barred>>

--------------------------------
Command(now) ==
  \E u \in Users :
    \/ JoinPublic(u, now) \/ JoinInvited(u, now) \/ Decline(u, now)
    \/ Leave(u, now) \/ StaffRemove(u, now)
    \/ \E banned \in BOOLEAN : StaffSetBan(u, banned, now)
    \/ \E v \in Users :
         \/ Invite(u, v, now) \/ Remove(u, v, now)
         \/ TransferOwnership(u, v, now)
         \/ \E role \in Roles : SetRole(u, v, role, now)
         \/ \E banned \in BOOLEAN : SetBan(u, v, banned, now)

Next ==
  \/ \E now \in Readings : Command(now)
  \/ \E u \in Users : SetPrivacy(u) \/ \E v \in Users : Revoke(u, v)
  \/ \E p \in Fickle : ToggleFriends(p)
  \/ Tick

Spec == Init /\ [][Next]_vars

--------------------------------
(* memberCount counts the member documents, banned ones included, through  *)
(* every way in and out; otherwise later departures are refused.           *)
CountMatchesRoster == root.count = Cardinality({u \in Users : Exists(u)})

(* The root and the roster name the same single owner, who is never        *)
(* banned: canonicalMember would lock everyone out of the server.          *)
OneOwner ==
  /\ {u \in Users : member[u].role = "owner"} = {root.owner}
  /\ ~member[root.owner].banned

(* An open invitation belongs to somebody outside the server, and a        *)
(* pointer leads to an open invitation of its own generation: an answered  *)
(* or superseded one can neither be discovered nor become a way back in.   *)
InvitationsAreForOutsiders ==
  \A u \in Users :
    /\ invite[u].status = "pending" => ~Exists(u)
    /\ pointer[u] > 0 =>
         invite[u].status = "pending" /\ invite[u].generation = pointer[u]

(* The ledger agrees with the roster: whoever left is remembered with a    *)
(* revision above every earlier membership.                                *)
LedgerAgrees ==
  \A u \in Users : Exists(u) <=> ledger[u].status = "member"

(* Any change of standing, also across leaving and coming back, raises the *)
(* revision, so that no grant, invitation or receipt of an earlier standing*)
(* ever matches again.                                                     *)
StandingsAreNumbered ==
  \A u \in Users :
       /\ ledger'[u].revision >= ledger[u].revision
       /\ member'[u] # member[u] =>
            ledger'[u].revision > ledger[u].revision

(* Nobody enters a private server through an invitation whose inviter was  *)
(* demoted, banned, removed or replaced since issuing it, even when the    *)
(* inviter has been reinstated meanwhile.                                  *)
InvitationsDieWithTheirIssuer ==
  \A u \in Users :
       ~Exists(u) /\ Exists(u)' /\ ~admitsPublicJoin => u \notin broken

=============================================================================
