------------------------------ MODULE RoomCovers ------------------------------
(***************************************************************************)
(* The cover of a room: its host reserves an upload of ten minutes, puts   *)
(* the bytes into Storage, and finalizing points the room at them.  The    *)
(* pointer is in Firestore and the object in Storage, so every operation   *)
(* reads the one, works on the other, and commits against what it read.    *)
(* A reservation nobody finalizes is swept with its object.                *)
(* Source: functions/rooms/covers.js and the room_images rule.             *)
(***************************************************************************)
EXTENDS Integers, FiniteSets

CONSTANTS
  Requests,      \* request ids of the host; each names one object path
  Legacy,        \* the path of a cover the room holds by a download URL
  Calls,         \* callables that may overlap
  Budget         \* reservations the daily byte budget admits

RoomCoversAssumption ==
  /\ IsFiniteSet(Requests) /\ IsFiniteSet(Calls)
  /\ Legacy \notin Requests /\ Budget \in Nat
  /\ "none" \notin Requests \cup {Legacy}   \* they are paths of objects

None == "none"
Paths == Requests \cup {Legacy}
Generations == 0..(Budget + 1)         \* 0: there is no object at the path
NoCover == [path |-> None, generation |-> 0]

VARIABLES
  room,         \* rooms/{room}: status, visibility, cover tuple and imageUrl
  object,       \* Storage: the generation at each path
  open,         \* objects that carry a durable download token
  uploads,      \* objects created so far; bounded by the budget
  reservation,  \* roomCoverUploadReservations: "none", "uploading", "expiring"
  lease,        \* roomCoverUploadLeases/{host}: a request, or None
  lapsed,       \* requests whose reservation's expiresAt has passed
  reserved,     \* bytes the host used today, counted in reservations
  reserveLedger, reservePreflight,      \* requests that have one
  finalLedger, finalPreflight,          \* the generation they were made for
  call, sweep,
  replaced,     \* history: covers whose deletion is left to the room's own
  revived       \* history: requests reserved again after their finalize began

vars == <<room, object, open, uploads, reservation, lease, lapsed, reserved, reserveLedger,
          reservePreflight, finalLedger, finalPreflight, call, sweep, replaced, revived>>
ledgers == <<reserveLedger, reservePreflight, finalLedger, finalPreflight>>
slot == <<reservation, lease, lapsed, reserved, revived>>

Unread == [visibility |-> None, cover |-> NoCover, image |-> None]
IdleCall == [at |-> "idle", request |-> None, generation |-> 0, state |-> Unread, path |-> None]
IdleSweep == [at |-> "idle", request |-> None]
CoverStates == [visibility : {"public", "private"},
                cover : [path : Paths \cup {None}, generation : Generations],
                image : {Legacy, None}]

TypeOK ==
  /\ room \in [status : {"active", "barred", "deleted"}, at : CoverStates]
  /\ object \in [Paths -> Generations] /\ uploads \in Generations
  /\ open \subseteq Paths /\ replaced \subseteq Paths
  /\ reservation \in [Requests -> {"none", "uploading", "expiring"}]
  /\ lease \in Requests \cup {None} /\ lapsed \subseteq Requests /\ reserved \in 0..Budget
  /\ reserveLedger \subseteq Requests /\ reservePreflight \subseteq Requests
  /\ finalLedger \in [Requests -> Generations] /\ finalPreflight \in [Requests -> Generations]
  /\ \A c \in Calls :
       /\ call[c].at \in {"idle", "reserve", "finalize", "checked", "previous", "public",
                          "private", "recovered", "grant", "signed"}
       /\ call[c].state \in CoverStates \cup {Unread}
  /\ sweep \in [at : {"idle", "queried", "claimed", "deleted"}, request : Requests \cup {None}]
  /\ revived \subseteq Requests

Init ==
  /\ room \in [status : {"active"},
               at : [visibility : {"public"}, cover : {NoCover}, image : {Legacy, None}]]
  /\ object = [p \in Paths |-> IF p = Legacy /\ room.at.image = Legacy THEN 1 ELSE 0]
  /\ open = {p \in Paths : object[p] # 0} /\ uploads = 1
  /\ reservation = [r \in Requests |-> "none"] /\ lease = None /\ lapsed = {} /\ reserved = 0
  /\ reserveLedger = {} /\ reservePreflight = {}
  /\ finalLedger = [r \in Requests |-> 0] /\ finalPreflight = [r \in Requests |-> 0]
  /\ call = [c \in Calls |-> IdleCall] /\ sweep = IdleSweep
  /\ replaced = {} /\ revived = {}

Ends(c) == call' = [call EXCEPT ![c] = IdleCall]
Goes(c, at) == call' = [call EXCEPT ![c].at = at]

\* An error, a lost instance or a refusal: the steps that are left do not run.
Fails(c) ==
  /\ call[c].at # "idle"
  /\ Ends(c)
  /\ UNCHANGED <<room, object, open, uploads, slot, ledgers, sweep, replaced>>

(***************************************************************************)
(* reserveRoomCoverUpload.  beginOperationAttempt leaves a preflight and   *)
(* drops a receipt that has expired; the transaction needs the preflight.  *)
(* A copy of the request may arrive at any time: finalizing deletes both,  *)
(* so nothing stands against one that arrives late.                        *)
(***************************************************************************)
beginReserve(c, r) ==
  /\ call[c].at = "idle"
  /\ call' = [call EXCEPT ![c] = [IdleCall EXCEPT !.at = "reserve", !.request = r]]
  /\ reservePreflight' = reservePreflight \cup {r}
  /\ reserveLedger' = reserveLedger \ {x \in {r} : x \in lapsed}
  /\ UNCHANGED <<room, object, open, uploads, slot, finalLedger, finalPreflight, sweep, replaced>>

AdmitsReserve(c) ==
  /\ call[c].at = "reserve" /\ room.status = "active"
  /\ call[c].request \in reservePreflight

Answered(r) ==
  /\ reserveLedger' = reserveLedger \cup {r}
  /\ reservePreflight' = reservePreflight \ {r}
  /\ UNCHANGED <<finalLedger, finalPreflight>>

\* A repeated request whose reservation still runs: answered, and recorded.
ReserveAgain(c) ==
  LET r == call[c].request IN
  /\ AdmitsReserve(c) /\ r \notin reserveLedger
  /\ reservation[r] = "uploading" /\ r \notin lapsed
  /\ Answered(r)
  /\ Ends(c)
  /\ UNCHANGED <<room, object, open, uploads, slot, sweep, replaced>>

FinalizeBegan(r) == finalLedger[r] # 0 \/ finalPreflight[r] # 0
BudgetLeft == reserved < Budget
LeaseFree == lease = None \/ lease \in lapsed

reserveRoomCoverUpload(c) ==
  LET r == call[c].request IN
  /\ AdmitsReserve(c) /\ r \notin reserveLedger
  /\ reservation[r] = "none" /\ LeaseFree /\ BudgetLeft
  /\ reservation' = [reservation EXCEPT ![r] = "uploading"]
  /\ lease' = r /\ lapsed' = lapsed \ {r} /\ reserved' = reserved + 1
  /\ revived' = revived \cup {q \in {r} : FinalizeBegan(q)}
  /\ Answered(r)
  /\ Ends(c)
  /\ UNCHANGED <<room, object, open, uploads, sweep, replaced>>

Lapse(r) ==
  /\ reservation[r] # "none" /\ r \notin lapsed
  /\ lapsed' = lapsed \cup {r}
  /\ UNCHANGED <<room, object, open, uploads, reservation, lease, reserved, ledgers, call, sweep,
                 replaced, revived>>

Upload(r) ==
  /\ object[r] = 0 /\ reservation[r] = "uploading" /\ r \notin lapsed
  /\ uploads < Budget + 1 /\ uploads' = uploads + 1
  /\ object' = [object EXCEPT ![r] = uploads + 1] /\ open' = open \cup {r}
  /\ UNCHANGED <<room, slot, ledgers, call, sweep, replaced>>

(***************************************************************************)
(* finalizeRoomCoverUpload: the attempt and the host's state, the metadata *)
(* (hardening takes the download token away), the commit, and the deletion *)
(* of the object it replaced, once and without a retry.                    *)
(***************************************************************************)
beginFinalize(c, r) ==
  /\ call[c].at = "idle" /\ object[r] # 0 /\ room.status = "active"
  /\ finalLedger[r] = 0 /\ finalPreflight[r] \in {0, object[r]}
  /\ finalPreflight' = [finalPreflight EXCEPT ![r] = object[r]]
  /\ call' = [call EXCEPT ![c] =
       [at |-> "finalize", request |-> r, generation |-> object[r], state |-> room.at,
        path |-> None]]
  /\ UNCHANGED <<room, object, open, uploads, slot, reserveLedger, reservePreflight, finalLedger,
                 sweep, replaced>>

validateStoredRoomCover(c) ==
  LET r == call[c].request IN
  /\ call[c].at = "finalize"
  /\ reservation[r] = "uploading" /\ r \notin lapsed /\ object[r] = call[c].generation
  /\ open' = open \ {r}
  /\ Goes(c, "checked")
  /\ UNCHANGED <<room, object, uploads, slot, ledgers, sweep, replaced>>

sameCoverState(c) == room.at = call[c].state

\* The object the room showed by its tuple, or else by its URL.
PreviousPath(state) == IF state.cover # NoCover THEN state.cover.path
                       ELSE IF state.image # None THEN state.image ELSE None

StillReserved(r) == reservation[r] = "uploading" /\ lease = r

\* Neither the receipt of the reservation nor a copy under way survives.
ForgetReserve(r) == reserveLedger' = reserveLedger \ {r} /\ reservePreflight' = reservePreflight \ {r}

finalizeRoomCoverUpload(c) ==
  LET r == call[c].request
      previous == PreviousPath(call[c].state)
  IN
  /\ call[c].at = "checked" /\ room.status = "active"
  /\ finalLedger[r] = 0 /\ finalPreflight[r] = call[c].generation
  /\ sameCoverState(c) /\ StillReserved(r)
  /\ room' = [room EXCEPT !.at.cover = [path |-> r, generation |-> call[c].generation],
                          !.at.image = None]
  /\ reservation' = [reservation EXCEPT ![r] = "none"] /\ lease' = None
  /\ finalLedger' = [finalLedger EXCEPT ![r] = call[c].generation]
  /\ finalPreflight' = [finalPreflight EXCEPT ![r] = 0]
  /\ ForgetReserve(r)
  /\ call' = [call EXCEPT ![c] = IF previous \in {None, r} THEN IdleCall
                                 ELSE [IdleCall EXCEPT !.at = "previous", !.path = previous]]
  /\ replaced' = replaced \cup ({previous} \ {None, r})
  /\ UNCHANGED <<object, open, uploads, lapsed, reserved, sweep, revived>>

DeletePrevious(c) ==
  /\ call[c].at = "previous"
  /\ object' = [object EXCEPT ![call[c].path] = 0] /\ open' = open \ {call[c].path}
  /\ Ends(c)
  /\ UNCHANGED <<room, uploads, slot, ledgers, sweep, replaced>>

(***************************************************************************)
(* setRoomVisibilitySelf: what becomes private keeps its cover, but only   *)
(* as a tuple, and the object loses its download token first.              *)
(***************************************************************************)
beginVisibility(c, visibility) ==
  /\ call[c].at = "idle" /\ room.status = "active" /\ room.at.visibility # visibility
  /\ call' = [call EXCEPT ![c] = [IdleCall EXCEPT !.at = visibility, !.state = room.at]]
  /\ UNCHANGED <<room, object, open, uploads, slot, ledgers, sweep, replaced>>

\* A cover by URL whose object is gone is dropped; a tuple's must be there.
RecoverCover(c) ==
  LET state == call[c].state
      path == PreviousPath(state)
      there == path # None /\ object[path] # 0
  IN
  /\ call[c].at = "private"
  /\ state.cover # NoCover => object[path] = state.cover.generation
  /\ open' = open \ {path}
  /\ call' = [call EXCEPT ![c].at = "recovered",
                          ![c].path = IF there THEN path ELSE None,
                          ![c].generation = IF there THEN object[path] ELSE 0]
  /\ UNCHANGED <<room, object, uploads, slot, ledgers, sweep, replaced>>

commitExpectedHostUpdate(c) ==
  /\ call[c].at \in {"public", "recovered"} /\ room.status = "active" /\ sameCoverState(c)
  /\ room' = IF call[c].at = "public" THEN [room EXCEPT !.at.visibility = "public"]
             ELSE [room EXCEPT !.at = [visibility |-> "private", image |-> None,
                    cover |-> [path |-> call[c].path, generation |-> call[c].generation]]]
  /\ Ends(c)
  /\ UNCHANGED <<object, open, uploads, slot, ledgers, sweep, replaced>>

(***************************************************************************)
(* getRoomCoverMediaAccess, for someone who may see public rooms only: the *)
(* tuple is authorized, its object signed, and the tuple authorized again. *)
(***************************************************************************)
authorizeMediaAccess(c) ==
  /\ call[c].at = "idle" /\ room.status = "active"
  /\ room.at.visibility = "public" /\ room.at.cover # NoCover
  /\ call' = [call EXCEPT ![c] = [IdleCall EXCEPT !.at = "grant", !.state = room.at]]
  /\ UNCHANGED <<room, object, open, uploads, slot, ledgers, sweep, replaced>>

SignUrl(c) ==
  LET cover == call[c].state.cover IN
  /\ call[c].at = "grant" /\ object[cover.path] = cover.generation
  /\ open' = open \ {cover.path}
  /\ Goes(c, "signed")
  /\ UNCHANGED <<room, object, uploads, slot, ledgers, sweep, replaced>>

AuthorizedAgain(c) ==
  /\ room.status = "active"
  /\ room.at.cover = call[c].state.cover /\ room.at.visibility = call[c].state.visibility

getRoomCoverMediaAccess(c) ==
  /\ call[c].at = "signed" /\ AuthorizedAgain(c)
  /\ Ends(c)
  /\ UNCHANGED <<room, object, open, uploads, slot, ledgers, sweep, replaced>>

(***************************************************************************)
(* expireRoomCoverUploadReservations.                                      *)
(***************************************************************************)
QueryExpired(r) ==
  /\ sweep.at = "idle" /\ r \in lapsed /\ reservation[r] # "none"
  /\ sweep' = [at |-> "queried", request |-> r]
  /\ UNCHANGED <<room, object, open, uploads, slot, ledgers, call, replaced>>

ClaimExpired ==
  LET r == sweep.request IN
  /\ sweep.at = "queried"
  /\ IF reservation[r] = "none"
       THEN sweep' = IdleSweep /\ UNCHANGED reservation
       ELSE /\ reservation' = [reservation EXCEPT ![r] = "expiring"]
            /\ sweep' = [sweep EXCEPT !.at = "claimed"]
  /\ UNCHANGED <<room, object, open, uploads, lease, lapsed, reserved, ledgers, call, replaced,
                 revived>>

DeleteExpired ==
  LET r == sweep.request IN
  /\ sweep.at = "claimed"
  /\ object' = [object EXCEPT ![r] = 0] /\ open' = open \ {r}
  /\ sweep' = [sweep EXCEPT !.at = "deleted"]
  /\ UNCHANGED <<room, uploads, slot, ledgers, call, replaced>>

FreedLease(r) == IF lease = r THEN None ELSE lease

ReleaseExpired ==
  LET r == sweep.request IN
  /\ sweep.at = "deleted"
  /\ reservation' = [reservation EXCEPT ![r] = "none"]
  /\ lease' = FreedLease(r)
  /\ sweep' = IdleSweep
  /\ UNCHANGED <<room, object, open, uploads, lapsed, reserved, ledgers, call, replaced, revived>>

\* The run dies; the next one finds the row again.
SweepStops ==
  /\ sweep.at # "idle"
  /\ sweep' = IdleSweep
  /\ UNCHANGED <<room, object, open, uploads, slot, ledgers, call, replaced>>

(***************************************************************************)
(* The host's account is restricted and restored; the room is deleted, and *)
(* its prefix with it (functions/media/cleanup.js).                        *)
(***************************************************************************)
Restrict ==
  /\ room.status \in {"active", "barred"}
  /\ room' = [room EXCEPT !.status = IF @ = "active" THEN "barred" ELSE "active"]
  /\ UNCHANGED <<object, open, uploads, slot, ledgers, call, sweep, replaced>>

DeleteRoom ==
  /\ room.status # "deleted"
  /\ room' = [room EXCEPT !.status = "deleted"]
  /\ object' = [p \in Paths |-> 0] /\ open' = {}
  /\ UNCHANGED <<uploads, slot, ledgers, call, sweep, replaced>>

HostActs(c) ==
  \/ \E r \in Requests : beginReserve(c, r) \/ beginFinalize(c, r)
  \/ reserveRoomCoverUpload(c) \/ ReserveAgain(c)
  \/ validateStoredRoomCover(c) \/ finalizeRoomCoverUpload(c) \/ DeletePrevious(c)
  \/ \E v \in {"public", "private"} : beginVisibility(c, v)
  \/ RecoverCover(c) \/ commitExpectedHostUpdate(c)
GuestActs(c) == authorizeMediaAccess(c) \/ SignUrl(c) \/ getRoomCoverMediaAccess(c)
SweepStep ==
  \/ \E r \in Requests : QueryExpired(r)
  \/ ClaimExpired \/ DeleteExpired \/ ReleaseExpired

Next ==
  \/ \E c \in Calls : HostActs(c) \/ GuestActs(c) \/ Fails(c)
  \/ SweepStep \/ SweepStops
  \/ \E r \in Requests : Upload(r) \/ Lapse(r)
  \/ Restrict \/ DeleteRoom

Spec == Init /\ [][Next]_vars

(***************************************************************************)
(* Properties                                                              *)
(***************************************************************************)
\* The cover a room shows is in Storage, in the very generation the room
\* names: no sweep and no deletion of a predecessor takes the bytes of a live
\* cover, unless a copy of its reserve request was admitted after its finalize
\* had begun; then the sweep of that reservation does.
CoverHasItsObject ==
  room.status # "deleted" /\ room.at.cover # NoCover /\ room.at.cover.path \notin revived =>
    object[room.at.cover.path] = room.at.cover.generation

\* Every object is the cover, belongs to a reservation that the sweep will
\* find, or was replaced by a newer cover: nothing is left that no document
\* knows of.
EveryObjectIsAccountedFor ==
  \A p \in Paths : object[p] # 0 =>
    \/ room.at.cover.path = p \/ room.at.image = p
    \/ p \in replaced
    \/ p \in Requests /\ reservation[p] # "none"

\* A room that became private shows its cover by the tuple alone, and the
\* object answers to no download URL any more; only a revived reservation lets
\* its host put new bytes there.
PrivateCoverIsSealed ==
  room.at.visibility = "private" =>
    room.at.image = None /\ (room.at.cover.path \in open => room.at.cover.path \in revived)

\* One upload at a time: two reservations of the host never both admit bytes.
OneUploadAtATime ==
  Cardinality({r \in Requests : reservation[r] = "uploading" /\ r \notin lapsed}) <= 1

\* A URL that is handed out is for an object that is still there: between
\* signing and answering the cover was not replaced, hidden or deleted, nor
\* swept, but for a revived reservation of it.
CoverIsShown ==
  \A c \in Calls :
    call[c].at = "signed" /\ getRoomCoverMediaAccess(c) =>
      LET cover == call[c].state.cover IN
      /\ room.at.visibility = "public"
      /\ object[cover.path] = cover.generation \/ cover.path \in revived

GrantShowsTheCover == [][CoverIsShown]_vars

=============================================================================
