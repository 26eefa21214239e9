------------------------------- MODULE Rooms -------------------------------
(***************************************************************************)
(* A legacy community room (rooms/participants.js, rooms/creation.js,      *)
(* rooms/liveness_sweeper.js, livekit/token.js): its voice sessions, the   *)
(* roster its clients join, the session mirrors the token callable writes, *)
(* and the LiveKit room of the same name.                                  *)
(*                                                                         *)
(* Every callable commits to Firestore first and reaches LiveKit after-    *)
(* wards; what it still owes is staged in a pending marker (on the room,   *)
(* the mirror or the participant row) that only the call with the same     *)
(* operation id clears.  A call may stop at any step, and another session  *)
(* may start before it goes on.                                            *)
(***************************************************************************)
EXTENDS Naturals, FiniteSets, TLC

CONSTANTS
  Users, Host,
  Calls,       \* callables in flight past their first commit
  Capacity,    \* maxParticipants
  MaxSessions, \* bound: voice sessions started
  MaxOps,      \* bound: operation ids drawn
  Operations   \* the optional handlers of an instance: moderate, status, delete, remove

RoomsAssumption ==
  /\ Host \in Users /\ {Capacity, MaxSessions, MaxOps} \subseteq Nat
  /\ Operations \subseteq {"moderate", "status", "delete", "remove"}

VARIABLES
  room,      \* open, shut (archived, closed), deleting, gone
  live,      \* isLive
  session,   \* sessionGeneration
  fresh,     \* updatedAt lies within the grace period
  count,     \* participantCount
  roster,    \* participants
  muted,     \* rows with hostMuted
  owed,      \* voicePermissionPending of each row
  teardown,  \* the control-pending field of the room
  done,      \* its control-completed field
  mirror,    \* activeVoiceSessions/{user}/rooms/{room}
  token,     \* LiveKit tokens still good: none, speak, listen
  connected, \* LiveKit: out, speak, listen
  calls,
  ops        \* operation ids drawn

doc == <<room, live, session, fresh, count>>
rows == <<roster, muted, owed>>
markers == <<teardown, done>>
sfu == <<token, connected>>
vars == <<doc, rows, markers, mirror, sfu, calls, ops>>

None == [op |-> 0]
Idle == [kind |-> "idle"]
NoMirror == [state |-> "none", op |-> 0, ends |-> FALSE]
Session == [state |-> "session", op |-> 0, ends |-> FALSE]

Init ==
  /\ room = "open" /\ live = FALSE /\ session = 0 /\ fresh = TRUE /\ count = 0
  /\ roster = {} /\ muted = {} /\ owed = [u \in Users |-> None]
  /\ teardown = None /\ done = 0
  /\ mirror = [u \in Users |-> NoMirror]
  /\ token = [u \in Users |-> "none"] /\ connected = [u \in Users |-> "out"]
  /\ calls = [c \in Calls |-> Idle] /\ ops = 0

Free(c) == calls[c].kind = "idle"
Begins(c, call) == calls' = [calls EXCEPT ![c] = call]
Ends(c) == calls' = [calls EXCEPT ![c] = Idle]
Goes(c, step) == calls' = [calls EXCEPT ![c].at = step]
Lower == IF count = 0 THEN 0 ELSE count - 1
WithoutRows(gone) ==
  /\ roster' = roster \ gone /\ muted' = muted \ gone
  /\ owed' = [u \in Users |-> IF u \in gone THEN None ELSE owed[u]]

--------------------------------
(* Sessions and rows *)

(* Any member may start: the room has membersCanStartVoice. *)
startRoomVoice ==
  /\ room = "open" /\ ~live /\ session < MaxSessions
  /\ live' = TRUE /\ session' = session + 1 /\ fresh' = TRUE
  /\ UNCHANGED <<room, count, rows, markers, mirror, sfu, calls, ops>>

joinRoom(u) ==
  /\ room = "open" /\ live /\ u \notin roster /\ count < Capacity
  /\ roster' = roster \cup {u} /\ count' = count + 1 /\ fresh' = TRUE
  /\ UNCHANGED <<room, live, session, muted, owed, markers, mirror, sfu, calls, ops>>

Grant(u) == IF u \in muted THEN "listen" ELSE "speak"

(* The token is minted first; the transaction that records it judges the room
   and the row again, and writes a whole new mirror. *)
recordAuthorizedVoiceSession(u) ==
  /\ room = "open" /\ live /\ u \in roster
  /\ mirror' = [mirror EXCEPT ![u] = Session] /\ token' = [token EXCEPT ![u] = Grant(u)]
  /\ UNCHANGED <<doc, rows, markers, connected, calls, ops>>

(* LiveKit opens a room of that name for whoever presents a good token. *)
Connects(u) ==
  /\ token[u] # "none" /\ connected[u] = "out"
  /\ connected' = [connected EXCEPT ![u] = token[u]]
  /\ UNCHANGED <<doc, rows, markers, mirror, token, calls, ops>>

Disconnects(u) ==
  /\ connected[u] # "out" /\ connected' = [connected EXCEPT ![u] = "out"]
  /\ UNCHANGED <<doc, rows, markers, mirror, token, calls, ops>>

TokenExpires(u) ==
  /\ token[u] # "none" /\ token' = [token EXCEPT ![u] = "none"]
  /\ UNCHANGED <<doc, rows, markers, mirror, connected, calls, ops>>

GraceRunsOut ==
  /\ fresh /\ fresh' = FALSE
  /\ UNCHANGED <<room, live, session, count, rows, markers, mirror, sfu, calls, ops>>

--------------------------------
(* Revoking one participant *)

(* A pending revocation is returned as it is, whatever it was staged for. *)
Staged(u, ends) ==
  IF mirror[u].state = "revoking" THEN mirror[u]
  ELSE [state |-> "revoking", op |-> ops + 1, ends |-> ends]

stageParticipantRevocation(c, u, ends, hasParticipant) ==
  IF mirror[u].state = "none" /\ ~hasParticipant
  THEN UNCHANGED <<mirror, calls, ops>>
  ELSE LET pending == Staged(u, ends)
       IN /\ mirror[u] = pending \/ ops < MaxOps
          /\ mirror' = [mirror EXCEPT ![u] = pending]
          /\ ops' = IF mirror[u] = pending THEN ops ELSE ops + 1
          /\ Begins(c, IF pending.ends
                       THEN [kind |-> "leave", at |-> "prepare", user |-> u]
                       ELSE [kind |-> "revoke", at |-> "revoke", user |-> u, op |-> pending.op])

RosterIsEmptyAfter(u) == roster \subseteq {u}

executeLeaveRoom(c, u) ==
  LET ended == Lower = 0 /\ live /\ room = "open" /\ RosterIsEmptyAfter(u)
  IN /\ Free(c) /\ UNCHANGED <<room, session, markers, sfu>>
     /\ IF u \in roster
        THEN /\ WithoutRows({u}) /\ count' = Lower /\ fresh' = TRUE
             /\ live' = (live /\ ~ended)
             /\ stageParticipantRevocation(c, u, ended, TRUE)
        ELSE /\ UNCHANGED <<live, fresh, count, rows>>
             /\ stageParticipantRevocation(c, u, FALSE, FALSE)

executeRemoveRoomParticipant(c, u) ==
  /\ "remove" \in Operations /\ Free(c) /\ u # Host /\ room = "open" /\ live
  /\ IF u \in roster
     THEN WithoutRows({u}) /\ count' = Lower /\ fresh' = TRUE
     ELSE UNCHANGED <<rows, count, fresh>>
  /\ stageParticipantRevocation(c, u, FALSE, u \in roster)
  /\ UNCHANGED <<room, live, session, markers, sfu>>

(* The cutoff kills the token of an absent user too. *)
RevokesParticipant(c) ==
  /\ calls[c].kind = "revoke" /\ calls[c].at = "revoke" /\ Goes(c, "complete")
  /\ connected' = [connected EXCEPT ![calls[c].user] = "out"]
  /\ token' = [token EXCEPT ![calls[c].user] = "none"]
  /\ UNCHANGED <<doc, rows, markers, mirror, ops>>

(* mutant: whatever the mirror says by now *)
AnyMirror(c) == TRUE
StillOurs(c) == mirror[calls[c].user].op = calls[c].op

completeParticipantRevocation(c) ==
  /\ calls[c].kind = "revoke" /\ calls[c].at = "complete" /\ Ends(c)
  /\ mirror' = IF StillOurs(c) THEN [mirror EXCEPT ![calls[c].user] = NoMirror] ELSE mirror
  /\ UNCHANGED <<doc, rows, markers, sfu, ops>>

--------------------------------
(* Ending the room *)

NeedsNewTeardown == teardown = None \/ teardown.session # session

stageRoomTeardown(c, kind) ==
  LET pending == IF NeedsNewTeardown THEN [op |-> ops + 1, session |-> session] ELSE teardown
  IN /\ NeedsNewTeardown => ops < MaxOps
     /\ ops' = IF NeedsNewTeardown THEN ops + 1 ELSE ops
     /\ teardown' = pending
     /\ Begins(c, [kind |-> kind, at |-> "prepare", op |-> pending.op,
                   session |-> pending.session])

executeEndRoomVoice(c, onlyIfEmpty) ==
  /\ Free(c) /\ room = "open" /\ (live \/ teardown # None)
  /\ onlyIfEmpty /\ teardown = None => roster \subseteq {Host}
  /\ live' = FALSE /\ count' = 0 /\ fresh' = TRUE
  /\ stageRoomTeardown(c, "end")
  /\ UNCHANGED <<room, session, rows, done, mirror, sfu>>

MayChangeStatus == room \in {"open", "shut"}

executeSetRoomStatus(c, status) ==
  /\ "status" \in Operations /\ Free(c) /\ MayChangeStatus
  /\ status = "open" => teardown = None
  /\ room' = status /\ fresh' = TRUE
  /\ IF status = "open" THEN UNCHANGED <<live, count, teardown, calls, ops>>
     ELSE /\ live' = FALSE /\ count' = 0
          /\ IF teardown # None \/ live \/ count > 0 \/ done # session
             THEN stageRoomTeardown(c, "end") ELSE UNCHANGED <<teardown, calls, ops>>
  /\ UNCHANGED <<session, rows, done, mirror, sfu>>

executeDeleteRoom(c) ==
  /\ "delete" \in Operations /\ Free(c) /\ room # "gone"
  /\ room' = "deleting" /\ live' = FALSE /\ count' = 0 /\ fresh' = TRUE
  /\ IF teardown # None \/ done # session THEN stageRoomTeardown(c, "delete")
     ELSE Begins(c, [kind |-> "delete", at |-> "erase"]) /\ UNCHANGED <<teardown, ops>>
  /\ UNCHANGED <<session, rows, done, mirror, sfu>>

PastGrace == ~fresh

ListsNobody == roster = {}

(* The scan is a hint: the transaction judges the room and its roster. *)
closeIfStillStranded(c) ==
  /\ Free(c) /\ room = "open" /\ live /\ PastGrace /\ ListsNobody
  /\ live' = FALSE /\ count' = 0 /\ fresh' = TRUE
  /\ Begins(c, [kind |-> "sweep", at |-> "disconnect"])
  /\ UNCHANGED <<room, session, rows, markers, mirror, sfu, ops>>

Mirrored == {u \in Users : mirror[u].state # "none"}

prepareRoomCleanup(c) ==
  /\ calls[c].kind \in {"end", "leave", "delete", "sweep"} /\ calls[c].at = "prepare"
  /\ Begins(c, [calls[c] EXCEPT !.at = "disconnect"] @@
               [mirrors |-> Mirrored \cup (IF calls[c].kind = "leave" THEN {calls[c].user} ELSE {}),
                rows |-> roster])
  /\ UNCHANGED <<doc, rows, markers, mirror, sfu, ops>>

(* endRoom cuts off whom it lists and deletes the LiveKit room. *)
EndsRoom(c) ==
  /\ calls[c].kind \in {"end", "leave", "delete", "sweep"} /\ calls[c].at = "disconnect"
  /\ token' = [u \in Users |-> IF connected[u] = "out" THEN token[u] ELSE "none"]
  /\ connected' = [u \in Users |-> "out"]
  /\ IF calls[c].kind = "sweep"
     THEN Begins(c, [kind |-> "sweep", at |-> "mirrors", mirrors |-> Mirrored])
     ELSE Goes(c, "mirrors")
  /\ UNCHANGED <<doc, rows, markers, mirror, ops>>

DeletesMirrors(c) ==
  /\ calls[c].kind # "idle" /\ calls[c].at = "mirrors"
  /\ mirror' = [u \in Users |-> IF u \in calls[c].mirrors THEN NoMirror ELSE mirror[u]]
  /\ IF calls[c].kind = "sweep" THEN Ends(c) ELSE Goes(c, "rows")
  /\ UNCHANGED <<doc, rows, markers, sfu, ops>>

DeletesRows(c) ==
  /\ calls[c].kind # "idle" /\ calls[c].at = "rows" /\ WithoutRows(calls[c].rows)
  /\ IF calls[c].kind = "leave" THEN Ends(c) ELSE Goes(c, "complete")
  /\ UNCHANGED <<doc, markers, mirror, sfu, ops>>

completeRoomTeardown(c) ==
  /\ calls[c].kind \in {"end", "delete"} /\ calls[c].at = "complete"
  /\ IF room # "gone" /\ teardown.op = calls[c].op
     THEN teardown' = None /\ done' = calls[c].session /\ fresh' = TRUE
     ELSE UNCHANGED <<teardown, done, fresh>>
  /\ IF calls[c].kind = "delete" THEN Goes(c, "erase") ELSE Ends(c)
  /\ UNCHANGED <<room, live, session, count, rows, mirror, sfu, ops>>

ErasesRoom(c) ==
  /\ calls[c].kind = "delete" /\ calls[c].at = "erase" /\ Ends(c)
  /\ room' = "gone" /\ live' = FALSE /\ count' = 0 /\ teardown' = None
  /\ WithoutRows(Users)
  /\ UNCHANGED <<session, fresh, done, mirror, sfu, ops>>

--------------------------------
(* Moderation *)

StagedPermission(u, publish) ==
  IF owed[u] # None /\ owed[u].publish = publish THEN owed[u]
  ELSE [op |-> ops + 1, publish |-> publish]

executeModerateRoomParticipant(c, u, mute) ==
  LET publish == IF mute THEN "listen" ELSE "speak"
      pending == StagedPermission(u, publish)
  IN /\ "moderate" \in Operations /\ Free(c) /\ u \in roster /\ room = "open" /\ live
     /\ ~(u = Host /\ mute)
     /\ (u \in muted) # mute \/ owed[u] # None
     /\ owed[u] = pending \/ ops < MaxOps
     /\ muted' = IF mute THEN muted \cup {u} ELSE muted \ {u}
     /\ owed' = [owed EXCEPT ![u] = pending]
     /\ ops' = IF owed[u] = pending THEN ops ELSE ops + 1
     /\ Begins(c, [kind |-> "permit", at |-> "permit", user |-> u, op |-> pending.op,
                   publish |-> pending.publish])
     /\ UNCHANGED <<doc, roster, markers, mirror, sfu>>

(* Somebody who is not connected is no failure. *)
PermitsParticipant(c) ==
  /\ calls[c].kind = "permit" /\ calls[c].at = "permit" /\ Goes(c, "complete")
  /\ connected' = [connected EXCEPT ![calls[c].user] =
                     IF @ = "out" THEN @ ELSE calls[c].publish]
  /\ UNCHANGED <<doc, rows, markers, mirror, token, ops>>

completePermissionUpdate(c) ==
  /\ calls[c].kind = "permit" /\ calls[c].at = "complete" /\ Ends(c)
  /\ owed' = IF owed[calls[c].user].op = calls[c].op
             THEN [owed EXCEPT ![calls[c].user] = None] ELSE owed
  /\ UNCHANGED <<doc, roster, muted, markers, mirror, sfu, ops>>

(* A call stops: LiveKit does not answer, or its instance dies. *)
Stops(c) ==
  /\ ~Free(c) /\ Ends(c)
  /\ UNCHANGED <<doc, rows, markers, mirror, sfu, ops>>

--------------------------------
CallGoesOn(c) ==
  \/ RevokesParticipant(c) \/ completeParticipantRevocation(c)
  \/ prepareRoomCleanup(c) \/ EndsRoom(c) \/ DeletesMirrors(c) \/ DeletesRows(c)
  \/ completeRoomTeardown(c) \/ ErasesRoom(c)
  \/ PermitsParticipant(c) \/ completePermissionUpdate(c)

Next ==
  \/ startRoomVoice \/ GraceRunsOut
  \/ \E u \in Users : joinRoom(u) \/ recordAuthorizedVoiceSession(u) \/ Connects(u)
                      \/ Disconnects(u) \/ TokenExpires(u)
  \/ \E c \in Calls :
       \/ \E u \in Users : \/ executeLeaveRoom(c, u) \/ executeRemoveRoomParticipant(c, u)
                           \/ \E mute \in BOOLEAN : executeModerateRoomParticipant(c, u, mute)
       \/ \E only \in BOOLEAN : executeEndRoomVoice(c, only)
       \/ \E status \in {"open", "shut"} : executeSetRoomStatus(c, status)
       \/ executeDeleteRoom(c) \/ closeIfStillStranded(c)
       \/ CallGoesOn(c) \/ Stops(c)

Spec == Init /\ [][Next]_vars

--------------------------------
(* Properties; those with primes are about every step. *)

(* The fields keep their shapes; what a call owes was staged with an operation
   id drawn before, and a row that is gone owes nothing. *)
TypeOK ==
  /\ room \in {"open", "shut", "deleting", "gone"} /\ {live, fresh} \subseteq BOOLEAN
  /\ count \in 0 .. Capacity
  /\ muted \subseteq roster /\ roster \subseteq Users
  /\ \A u \in Users : owed[u].op \in 0 .. ops /\ (owed[u] # None => u \in roster)
  /\ \A u \in Users : mirror[u].op \in 0 .. ops
  /\ teardown.op \in 0 .. ops /\ done \in 0 .. session

(* Without the host's word, a session ends only when the roster is empty: a
   leave or the sweep never takes liveness from somebody still listed, however
   far the counter has drifted after a stopped teardown. *)
EndsOnlyEmpty == live /\ ~live' /\ teardown' = teardown => roster' = {}

(* A room is not swept while it is within its grace period: the entry writes
   liveness first and joins second. *)
GraceIsKept == live /\ fresh /\ ~live' => roster # {} \/ teardown' # None \/ room' # "open"

(* A permission that is still owed is the one the row calls for. *)
OwedIsCurrent == \A u \in Users : owed[u] # None => owed[u].publish = Grant(u)

(* The completion of an older revocation never deletes the mirror of a session
   that was authorised since: only the cleanup of an ended room does. *)
NewerSessionKept ==
  \A u \in Users : mirror[u].state = "session" /\ mirror'[u].state = "none" =>
    \E c \in Calls : calls[c].kind # "idle" /\ calls[c].at = "mirrors"

(* A deletion that has begun, and stopped at any step, is not undone: the room
   is neither restored nor made live again before it is erased. *)
DeletionIsFinal ==
  room \in {"deleting", "gone"} => room' \in {"deleting", "gone"} /\ ~live'

=============================================================================
