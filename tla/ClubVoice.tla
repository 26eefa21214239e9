------------------------------ MODULE ClubVoice ------------------------------
(***************************************************************************)
(* A legacy Club, its members and the voice rooms bound to it.  Removing a *)
(* member, banning one, and handing the Club over each commit in Firestore *)
(* first and take the voice access away afterwards, room by room, in steps *)
(* that may fail, overlap, or be repeated by the caller.                   *)
(* Source: functions/clubs/{members,voice,ownership}.js and the staff      *)
(* callables of functions/admin/clubs.js.                                  *)
(***************************************************************************)
EXTENDS Integers, FiniteSets

CONSTANTS
  Users, Founder,  \* the accounts; the one that owns the Club at first
  Rooms,           \* rooms/{id} with this clubId: 1..n, in id order; 1 is the lounge
  PageSize,        \* MEMBER_REMOVAL_ROOM_PAGE_SIZE
  Calls,           \* callables that may overlap
  Kinds,           \* kinds of call of this instance
  Fragile,         \* kinds of call that may die between two steps
  MaxChanges       \* bound on membership and ownership changes, and on calls that die

ClubVoiceAssumption ==
  /\ IsFiniteSet(Users) /\ Founder \in Users
  /\ Rooms = 1..Cardinality(Rooms) /\ Rooms # {}
  /\ PageSize \in Nat /\ PageSize > 0 /\ IsFiniteSet(Calls) /\ MaxChanges \in Nat
  /\ Kinds \subseteq {"remove", "staffRemove", "ban", "reset"} /\ Fragile \subseteq Kinds

Lounge == 1
None == "none"
Roles == {"owner", "coOwner", "member"}
Power(role) == CASE role = "owner" -> 3 [] role = "coOwner" -> 2 [] OTHER -> 1

VARIABLES
  role,       \* clubs/{club}/members: the role of each row, None without one
  shelf,      \* users/{uid}/clubs/{club}: the projection of that role
  banned,     \* members with banned == true
  club,       \* ownerId, memberCount, ownershipVoiceResetPending, -ForOwner, -TransferredFrom
  host,       \* the lounge's hostId
  seat,       \* rooms/{r}/participants
  count,      \* rooms/{r}.participantCount
  mirror,     \* activeVoiceSessions/{uid}/rooms/{r}
  bearer,     \* LiveKit tokens that were issued and not revoked
  talking,    \* LiveKit's own participants
  removal,    \* clubMemberRemovalOperations: generation, status, cursor
  call, changes,
  earlier,    \* history: people in the lounge's call since before the last transfer
  dropped     \* history: people about whom a staff call died that no other was begun after

vars == <<role, shelf, banned, club, host, seat, count, mirror, bearer, talking, removal,
          call, changes, earlier, dropped>>
voice == <<seat, count, mirror, bearer, talking, earlier>>
members == <<role, shelf, banned, club, host>>

Idle == [kind |-> "idle", user |-> None, at |-> "idle", todo |-> {}, generation |-> 0]
NoRemoval == [generation |-> 0, status |-> None, cursor |-> 0]

TypeOK ==
  /\ role \in [Users -> Roles \cup {None}] /\ shelf \in [Users -> Roles \cup {None}]
  /\ banned \subseteq Users /\ host \in Users
  /\ club \in [owner : Users, size : 0..Cardinality(Users), pending : BOOLEAN,
               for : Users \cup {None}, from : Users \cup {None}]
  /\ seat \in [Rooms -> SUBSET Users] /\ count \in [Rooms -> 0..Cardinality(Users)]
  /\ \A v \in {mirror, bearer, talking} : v \in [Rooms -> SUBSET Users]
  /\ removal \in [Users -> [generation : 0..MaxChanges,
                            status : {None, "pending", "completed"}, cursor : {0} \cup Rooms]]
  /\ call \in [Calls -> [kind : Kinds \cup {"idle"}, user : Users \cup {None},
                         at : {"idle", "page", "row", "revoke", "mirror", "settle",
                               "end", "mirrors", "rows"},
                         todo : SUBSET Rooms, generation : 0..MaxChanges]]
  /\ changes \in 0..MaxChanges /\ earlier \cup dropped \subseteq Users

Init ==
  /\ role = [u \in Users |-> IF u = Founder THEN "owner" ELSE "member"] /\ shelf = role
  /\ banned = {} /\ host = Founder
  /\ club = [owner |-> Founder, size |-> Cardinality(Users), pending |-> FALSE,
             for |-> None, from |-> None]
  /\ seat = [r \in Rooms |-> {}] /\ count = [r \in Rooms |-> 0]
  /\ mirror = seat /\ bearer = seat /\ talking = seat
  /\ removal = [u \in Users |-> NoRemoval]
  /\ call = [c \in Calls |-> Idle] /\ changes = 0 /\ earlier = {} /\ dropped = {}

Member(u) == role[u] # None /\ u \notin banned
Changes == changes < MaxChanges /\ changes' = changes + 1
Begins(c, k, u, at, todo, generation) ==
  call' = [call EXCEPT ![c] = [kind |-> k, user |-> u, at |-> at, todo |-> todo,
                               generation |-> generation]]
Ends(c) == call' = [call EXCEPT ![c] = Idle]
Goes(c, at) == call' = [call EXCEPT ![c].at = at]
Less(n) == IF n = 0 THEN 0 ELSE n - 1
Lowest(S) == CHOOSE r \in S : \A s \in S : r <= s
Highest(S) == CHOOSE r \in S : \A s \in S : s <= r

(***************************************************************************)
(* People in the rooms: a row is admitted by the rules, a token by its row *)
(* and the membership, a connection by a token LiveKit has not revoked.    *)
(***************************************************************************)
TakeSeat(r, u) ==
  /\ Member(u) /\ u \notin seat[r]
  /\ seat' = [seat EXCEPT ![r] = @ \cup {u}] /\ count' = [count EXCEPT ![r] = @ + 1]
  /\ count[r] < Cardinality(Users)
  /\ UNCHANGED <<members, mirror, bearer, talking, removal, call, changes, earlier>>

IssueToken(r, u) ==
  /\ Member(u) /\ u \in seat[r] /\ u \notin bearer[r]
  /\ mirror' = [mirror EXCEPT ![r] = @ \cup {u}] /\ bearer' = [bearer EXCEPT ![r] = @ \cup {u}]
  /\ UNCHANGED <<members, seat, count, talking, removal, call, changes, earlier>>

Connect(r, u) ==
  /\ u \in bearer[r] \ talking[r] /\ talking' = [talking EXCEPT ![r] = @ \cup {u}]
  /\ UNCHANGED <<members, seat, count, mirror, bearer, removal, call, changes, earlier>>

Hangs(r, u) ==
  /\ talking' = [talking EXCEPT ![r] = @ \ {u}]
  /\ earlier' = IF r = Lounge THEN earlier \ {u} ELSE earlier
Disconnect(r, u) ==
  /\ u \in talking[r] /\ Hangs(r, u)
  /\ UNCHANGED <<members, seat, count, mirror, bearer, removal, call, changes>>

(***************************************************************************)
(* Membership.  An invitation is accepted by the invitee's own batch.      *)
(***************************************************************************)
AcceptInvite(u) ==
  /\ role[u] = None /\ Changes
  /\ role' = [role EXCEPT ![u] = "member"] /\ shelf' = [shelf EXCEPT ![u] = "member"]
  /\ club' = [club EXCEPT !.size = @ + 1]
  /\ UNCHANGED <<banned, host, voice, removal, call>>

DropsMember(u) ==
  /\ role' = [role EXCEPT ![u] = None] /\ shelf' = [shelf EXCEPT ![u] = None]
  /\ banned' = banned \ {u} /\ club' = [club EXCEPT !.size = Less(@)]

OutRanks(actor, u) == role[u] # "owner" /\ Power(role[actor]) > Power(role[u])
NextGeneration(u) == removal[u].generation + 1
RemovesRow(u) ==
  /\ Changes /\ DropsMember(u)
  /\ removal' = [removal EXCEPT ![u] = [generation |-> NextGeneration(u), status |-> "pending",
                                        cursor |-> 0]]
ResumesRemoval(u) ==
  /\ shelf' = [shelf EXCEPT ![u] = None] /\ removal[u].status # "completed"
  /\ removal' = [removal EXCEPT ![u].status = "pending",
                                ![u].generation = IF @ = 0 THEN 1 ELSE @]
  /\ UNCHANGED <<role, banned, club, changes>>
removeClubMemberSelf(c, actor, u) ==
  /\ "remove" \in Kinds /\ call[c] = Idle /\ actor # u
  /\ Member(actor) /\ Power(role[actor]) > 1
  /\ IF role[u] # None THEN OutRanks(actor, u) /\ RemovesRow(u) ELSE ResumesRemoval(u)
  /\ Begins(c, "remove", u, "page", {}, removal'[u].generation)
  /\ UNCHANGED <<host, voice>>

removeClubMember(c, u) ==
  /\ "staffRemove" \in Kinds /\ call[c] = Idle /\ club.owner # u
  /\ IF role[u] = None THEN shelf' = [shelf EXCEPT ![u] = None]
                              /\ UNCHANGED <<role, banned, club, changes>>
                       ELSE role[u] # "owner" /\ Changes /\ DropsMember(u)
  /\ Begins(c, "staffRemove", u, "row", Rooms, 0) /\ dropped' = dropped \ {u}
  /\ UNCHANGED <<host, voice, removal>>

setClubMemberBan(c, u) ==
  /\ "ban" \in Kinds /\ call[c] = Idle /\ club.owner # u /\ role[u] # None
  /\ banned' = banned \cup {u}
  /\ Begins(c, "ban", u, "row", Rooms, 0) /\ dropped' = dropped \ {u}
  /\ UNCHANGED <<role, shelf, club, host, voice, removal, changes>>
LiftBan(u) ==
  /\ "ban" \in Kinds /\ u \in banned /\ Changes /\ banned' = banned \ {u}
  /\ UNCHANGED <<role, shelf, club, host, voice, removal, call>>

(***************************************************************************)
(* Taking one member's voice away, room after room.  A removal works on a  *)
(* page of rooms and commits its progress; the staff calls take them all.  *)
(***************************************************************************)
ReadPage(c) ==
  LET u == call[c].user  rest == {r \in Rooms : r > removal[u].cursor}
      page == {r \in rest : Cardinality({s \in rest : s < r}) < PageSize} IN
  /\ call[c].kind = "remove" /\ call[c].at = "page"
  /\ call' = [call EXCEPT ![c] =
       IF removal[u].status = "completed" \/ removal[u].generation # @.generation THEN Idle
       ELSE [@ EXCEPT !.at = IF page = {} THEN "settle" ELSE "row", !.todo = page]]
  /\ UNCHANGED <<members, voice, removal, changes>>

RevokesRow(c) ==
  LET u == call[c].user  r == Lowest(call[c].todo)  seated == u \in seat[r] IN
  /\ call[c].at = "row" /\ Goes(c, "revoke")
  /\ seat' = [seat EXCEPT ![r] = @ \ {u}]
  /\ count' = [count EXCEPT ![r] = IF seated THEN Less(@) ELSE @]
  /\ UNCHANGED <<members, mirror, bearer, talking, removal, changes, earlier>>

RevokesParticipant(c) ==
  LET u == call[c].user  r == Lowest(call[c].todo) IN
  /\ call[c].at = "revoke" /\ Goes(c, "mirror")
  /\ bearer' = [bearer EXCEPT ![r] = @ \ {u}] /\ Hangs(r, u)
  /\ UNCHANGED <<members, seat, count, mirror, removal, changes>>

LastOfPage(c) == Cardinality(call[c].todo) = 1
DeletesMirror(c) ==
  LET u == call[c].user  r == Lowest(call[c].todo) IN
  /\ call[c].at = "mirror" /\ mirror' = [mirror EXCEPT ![r] = @ \ {u}]
  /\ call' = [call EXCEPT ![c] =
       IF ~LastOfPage(c) THEN [@ EXCEPT !.at = "row", !.todo = @ \ {r}]
       ELSE IF @.kind = "remove" THEN [@ EXCEPT !.at = "settle"] ELSE Idle]
  /\ UNCHANGED <<members, seat, count, bearer, talking, removal, changes, earlier>>

StillThisRemoval(c) ==
  LET u == call[c].user IN
  removal[u].generation = call[c].generation /\ removal[u].status # "completed"
StillAbsent(c) == role[call[c].user] = None
SettlesPage(c) ==
  LET u == call[c].user  done == IF call[c].todo = {} THEN removal[u].cursor
                                 ELSE Highest(call[c].todo) IN
  /\ call[c].kind = "remove" /\ call[c].at = "settle" /\ Ends(c)
  /\ removal' = IF StillThisRemoval(c) /\ StillAbsent(c)
       THEN [removal EXCEPT ![u].cursor = done,
               ![u].status = IF \E r \in Rooms : r > done THEN "pending" ELSE "completed"]
       ELSE removal
  /\ UNCHANGED <<members, voice, changes>>

(***************************************************************************)
(* Handing the Club over: the transaction commits the new owner, and the   *)
(* lounge's call is ended afterwards.                                      *)
(***************************************************************************)
StableClub == ~club.pending
CanReceive(u) == role[u] \notin {None, "owner"} /\ u \notin banned
Transfer(c, u, demoted) ==
  /\ "reset" \in Kinds /\ call[c] = Idle /\ StableClub /\ CanReceive(u) /\ Changes
  /\ role' = [role EXCEPT ![club.owner] = demoted, ![u] = "owner"]
  /\ shelf' = [shelf EXCEPT ![club.owner] = demoted, ![u] = "owner"]
  /\ club' = [club EXCEPT !.owner = u, !.from = club.owner, !.pending = TRUE, !.for = u]
  /\ host' = u /\ count' = [count EXCEPT ![Lounge] = 0] /\ earlier' = talking[Lounge]
  /\ Begins(c, "reset", u, "end", {}, 0)
  /\ UNCHANGED <<banned, seat, mirror, bearer, talking, removal>>
transferClubOwnershipSelf(c, u) == club.owner \notin banned /\ Transfer(c, u, "coOwner")
transferClubOwnership(c, u) == Transfer(c, u, "member")
finishPendingReset(c) ==
  /\ "reset" \in Kinds /\ call[c] = Idle /\ club.pending
  /\ Begins(c, "reset", club.owner, "end", {}, 0)
  /\ UNCHANGED <<members, voice, removal, changes>>

ResetEndsRoom(c) ==
  /\ call[c].at = "end" /\ Goes(c, "mirrors")
  /\ bearer' = [bearer EXCEPT ![Lounge] = @ \ talking[Lounge]]
  /\ talking' = [talking EXCEPT ![Lounge] = {}] /\ earlier' = {}
  /\ UNCHANGED <<members, seat, count, mirror, removal, changes>>
ResetDeletesMirrors(c) ==
  /\ call[c].at = "mirrors" /\ Goes(c, "rows") /\ mirror' = [mirror EXCEPT ![Lounge] = {}]
  /\ UNCHANGED <<members, seat, count, bearer, talking, removal, changes, earlier>>
ResetDeletesRows(c) ==
  /\ call[c].at = "rows" /\ Goes(c, "settle") /\ seat' = [seat EXCEPT ![Lounge] = {}]
  /\ UNCHANGED <<members, count, mirror, bearer, talking, removal, changes, earlier>>
ResetIsOurs(c) == club.owner = call[c].user /\ club.for = call[c].user
ResetSettles(c) ==
  /\ call[c].kind = "reset" /\ call[c].at = "settle" /\ Ends(c)
  /\ club' = IF ResetIsOurs(c) THEN [club EXCEPT !.pending = FALSE] ELSE club
  /\ UNCHANGED <<role, shelf, banned, host, voice, removal, changes>>
finishClubOwnershipVoiceReset(c) ==
  ResetEndsRoom(c) \/ ResetDeletesMirrors(c) \/ ResetDeletesRows(c) \/ ResetSettles(c)

revokeMemberVoicePage(c) ==
  ReadPage(c) \/ RevokesRow(c) \/ RevokesParticipant(c) \/ DeletesMirror(c) \/ SettlesPage(c)
\* The staff calls keep no record of what they still owe.
Unrecorded(kind) == kind \in {"staffRemove", "ban"}
CallStops(c) ==
  /\ call[c].kind \in Fragile /\ Changes /\ Ends(c) /\ UNCHANGED <<members, voice, removal>>
  /\ dropped' = IF Unrecorded(call[c].kind) THEN dropped \cup {call[c].user} ELSE dropped

Steps(c) == revokeMemberVoicePage(c) \/ finishClubOwnershipVoiceReset(c)
Next ==
  \/ UNCHANGED dropped /\
       \/ \E u \in Users : AcceptInvite(u) \/ LiftBan(u)
       \/ \E u \in Users, r \in Rooms :
            TakeSeat(r, u) \/ IssueToken(r, u) \/ Connect(r, u) \/ Disconnect(r, u)
       \/ \E c \in Calls, actor, u \in Users : removeClubMemberSelf(c, actor, u)
       \/ \E c \in Calls, u \in Users :
            transferClubOwnershipSelf(c, u) \/ transferClubOwnership(c, u)
       \/ \E c \in Calls : finishPendingReset(c) \/ Steps(c)
  \/ \E c \in Calls, u \in Users : removeClubMember(c, u) \/ setClubMemberBan(c, u)
  \/ \E c \in Calls : CallStops(c)

Spec == Init /\ [][Next]_vars

--------------------------------
Out(u) == \A r \in Rooms : u \notin seat[r] \cup mirror[r] \cup bearer[r] \cup talking[r]

(* A removal that is recorded as completed has left the person in no room  *)
(* of the Club: no row, no mirror, no token that still works, no call.     *)
(* Not so where staff removed the person again, as long as that call is    *)
(* under way, and if it died: the operation still reads completed          *)
(* (members.js:246).                                                       *)
StaffOwes(u) == u \in dropped \/ \E c \in Calls : Unrecorded(call[c].kind) /\ call[c].user = u
CompletedMeansOut ==
  \A u \in Users : removal[u].status = "completed" /\ role[u] = None /\ ~StaffOwes(u) => Out(u)

(* Staff leave no record of voice they still owe, so what they promise is  *)
(* promised by the calls: once every call about a banned or removed person *)
(* is through, the person is out of every room and can enter none, unless  *)
(* one died and none was begun since, and but for a removal by a member    *)
(* that is on record as pending.  A call begun anew makes good for every   *)
(* one that died before it.                                                *)
Unattended(u) == u \notin dropped /\ \A c \in Calls : call[c].user # u
BannedIsOut == \A u \in banned : Unattended(u) => Out(u)
RemovedIsOut ==
  \A u \in Users : role[u] = None /\ Unattended(u) /\ removal[u].status # "pending" => Out(u)

(* The Club has one owner, who is not banned, whose row, projection and    *)
(* lounge say so, and every projection repeats its member's row.           *)
OneOwner ==
  /\ {u \in Users : role[u] = "owner"} = {club.owner}
  /\ club.owner \notin banned /\ host = club.owner /\ shelf = role
  /\ club.size = Cardinality({u \in Users : role[u] # None})

(* A reset that is no longer pending has ended the call that was running   *)
(* under the previous owner.                                               *)
ResetEndsTheCall == ~club.pending => earlier = {}

=============================================================================
