----------------------------- MODULE ClubDeletion -----------------------------
(***************************************************************************)
(* The life of one community Club id: created in one transaction, marked   *)
(* for deletion in another, and then taken apart step by step by its owner *)
(* or by staff.  Moderation, invitations, media and repeated calls go on   *)
(* while the parts disappear.                                              *)
(* Source: functions/clubs/{creation,deletion}.js and the staff callables  *)
(* of functions/admin/clubs.js.                                            *)
(***************************************************************************)
EXTENDS Integers, FiniteSets

CONSTANTS
  Owner, Guests,   \* the one who creates the Club, and accounts it invites
  Calls,           \* callables that may overlap
  Kinds,           \* kinds of call of this instance
  MaxStops,        \* bound on calls that die between two steps
  MaxLives         \* bound on how often the id is created, and on uploads per life

ClubDeletionAssumption ==
  /\ Owner \notin Guests /\ IsFiniteSet(Guests) /\ IsFiniteSet(Calls)
  /\ Kinds \subseteq {"self", "staff", "suspend", "restore", "media"}
  /\ MaxStops \in Nat /\ MaxLives \in Nat

Users == Guests \cup {Owner}
None == "none"
VARIABLES
  root,       \* clubs/{club}: "none", "club", or "husk": a document without an owner
  status, deleting, cleaned,   \* its status, deletionInProgress, deletionMediaCleaned
  rows,       \* clubs/{club}/members
  shelf,      \* users/{uid}/clubs/{club}, the private projections
  lounge,     \* rooms/{lounge}: state "none", "room" or "husk"; status, isLive
  talking,    \* LiveKit's participants of the lounge
  mirror,     \* activeVoiceSessions/{uid}/rooms/{lounge}
  consent,    \* clubMarketingConsents/{club}: the life it was given for, 0 without one
  avatar,     \* avatarGeneration of the root
  object,     \* Storage: the generation under clubs/{Owner}/{club}/avatar, 0 without one
  published,  \* history: an upload was finalized in this life of the Club
  life, uploads, stops, call,
  bygone      \* history: a deletion of an earlier life was still under way when this one began

vars == <<root, status, deleting, cleaned, rows, shelf, lounge, talking, mirror, consent,
          avatar, object, published, life, uploads, stops, call, bygone>>
club == <<root, status, deleting, cleaned, rows, shelf>>
voice == <<lounge, talking, mirror>>
media == <<avatar, object, published, uploads>>
lives == <<life, bygone>>

NoLounge == [state |-> "none", status |-> None, live |-> FALSE]
Idle == [kind |-> "idle", at |-> "idle", shown |-> 0, cleaned |-> FALSE, live |-> FALSE]
Init ==
  /\ root = "none" /\ status = None /\ deleting = FALSE /\ cleaned = FALSE
  /\ rows = {} /\ shelf = {} /\ lounge = NoLounge /\ talking = {} /\ mirror = {}
  /\ consent = 0 /\ avatar = 0 /\ object = 0 /\ published = FALSE /\ life = 0 /\ uploads = 0 /\ stops = 0
  /\ bygone = FALSE
  /\ call = [c \in Calls |-> Idle]

Open == root = "club" /\ status = "active" /\ ~deleting
Member(u) == u \in rows /\ Open
Goes(c, at) == call' = [call EXCEPT ![c].at = at]
Ends(c) == call' = [call EXCEPT ![c] = Idle]

(***************************************************************************)
(* The Club while it lives.                                                *)
(***************************************************************************)
\* A replay of the creation answers with the Club that exists and changes nothing.
createCommunityClub ==
  /\ root = "none" /\ life < MaxLives /\ life' = life + 1
  /\ root' = "club" /\ status' = "active" /\ deleting' = FALSE /\ cleaned' = FALSE
  /\ rows' = {Owner} /\ shelf' = shelf \cup {Owner}
  /\ lounge' = [state |-> "room", status |-> "active", live |-> FALSE]
  /\ avatar' = 0 /\ published' = FALSE
  /\ bygone' = \E c \in Calls : call[c].kind \in {"self", "staff"}
  /\ UNCHANGED <<talking, mirror, consent, object, uploads, stops, call>>

AcceptInvite(u) ==
  /\ Open /\ u \notin rows /\ rows' = rows \cup {u} /\ shelf' = shelf \cup {u}
  /\ UNCHANGED <<root, status, deleting, cleaned, voice, consent, media, lives, stops, call>>

\* The lounge's own doors are in Rooms; what a Club adds is that it must be open.
Joins(u) ==
  /\ Member(u) /\ lounge.state = "room" /\ lounge.status = "active" /\ u \notin talking
  /\ talking' = talking \cup {u} /\ mirror' = mirror \cup {u} /\ lounge' = [lounge EXCEPT !.live = TRUE]
  /\ UNCHANGED <<club, consent, media, lives, stops, call>>

GivesConsent ==
  /\ Open /\ consent' = life /\ UNCHANGED <<club, voice, media, lives, stops, call>>

Uploads ==
  /\ Open /\ uploads < MaxLives /\ uploads' = uploads + 1 /\ object' = uploads'
  /\ UNCHANGED <<club, voice, consent, avatar, published, lives, stops, call>>

finalizeClubMedia(c) ==
  /\ "media" \in Kinds /\ call[c] = Idle /\ Open
  /\ call' = [call EXCEPT ![c] = [Idle EXCEPT !.kind = "media", !.at = "verify"]]
  /\ UNCHANGED <<club, voice, consent, media, lives, stops>>
verifiedClubMedia(c) ==
  /\ call[c].at = "verify"
  /\ call' = [call EXCEPT ![c] = IF object = 0 THEN Idle
                                 ELSE [@ EXCEPT !.at = "publish", !.shown = object]]
  /\ UNCHANGED <<club, voice, consent, media, lives, stops>>
CurrentAuthority == Open
PublishesMedia(c) ==
  /\ call[c].at = "publish" /\ Ends(c)
  /\ avatar' = IF CurrentAuthority THEN call[c].shown ELSE avatar
  /\ published' = (published \/ CurrentAuthority)
  /\ UNCHANGED <<club, voice, consent, object, uploads, lives, stops>>

(***************************************************************************)
(* Moderation: the root's status in a transaction, the rooms in a batch    *)
(* that writes what the query read, and the voice after that.              *)
(***************************************************************************)
setClubModerationStatus(c, kind) ==
  /\ kind \in {"suspend", "restore"} \cap Kinds /\ call[c] = Idle /\ root # "none"
  /\ status' = IF kind = "suspend" THEN "suspended" ELSE "active"
  /\ call' = [call EXCEPT ![c] = [Idle EXCEPT !.kind = kind, !.at = "rooms"]]
  /\ UNCHANGED <<root, deleting, cleaned, rows, shelf, voice, consent, media, lives, stops>>
ReadsRooms(c) ==
  /\ call[c].at = "rooms"
  /\ call' = [call EXCEPT ![c] = IF lounge.state # "room" THEN Idle
                                 ELSE [@ EXCEPT !.at = "batch", !.live = lounge.live]]
  /\ UNCHANGED <<club, voice, consent, media, lives, stops>>
\* set(..., {merge: true}): the document is created when it is gone.
WritesRooms(c) ==
  /\ call[c].at = "batch"
  /\ lounge' = [state |-> IF lounge.state = "room" THEN "room" ELSE "husk",
                status |-> IF call[c].kind = "suspend" THEN "suspended" ELSE "active",
                live |-> IF call[c].kind = "suspend" THEN FALSE ELSE call[c].live]
  /\ call' = [call EXCEPT ![c] = IF @.kind = "suspend" THEN [@ EXCEPT !.at = "end"] ELSE Idle]
  /\ UNCHANGED <<club, talking, mirror, consent, media, lives, stops>>
SuspensionEndsRoom(c) ==
  /\ call[c].at = "end" /\ talking' = {} /\ Goes(c, "endMirrors")
  /\ UNCHANGED <<club, lounge, mirror, consent, media, lives, stops>>
SuspensionDeletesMirrors(c) ==
  /\ call[c].at = "endMirrors" /\ mirror' = {} /\ Ends(c)
  /\ UNCHANGED <<club, lounge, talking, consent, media, lives, stops>>

(***************************************************************************)
(* Deletion.                                                               *)
(***************************************************************************)
Deletable(kind) ==
  \/ kind = "self" /\ root = "club" /\ status = "active"
  \/ kind = "staff" /\ root # "none"
ClosesLounge(kind) == kind = "self" /\ lounge.state = "room"
MarksDeletion(c, kind) ==
  /\ kind \in {"self", "staff"} \cap Kinds /\ call[c] = Idle
  /\ Deletable(kind) /\ deleting' = TRUE
  /\ lounge' = IF ClosesLounge(kind) THEN [lounge EXCEPT !.status = "closed", !.live = FALSE]
               ELSE lounge
  /\ call' = [call EXCEPT ![c] = [kind |-> kind, at |-> "room", shown |-> avatar,
                                  cleaned |-> cleaned, live |-> FALSE]]
  /\ UNCHANGED <<root, status, cleaned, rows, shelf, talking, mirror, consent, media, lives, stops>>

AfterRooms(c) == IF call[c].kind = "self" /\ call[c].cleaned THEN "shelf" ELSE "media"
DeletionEndsRoom(c) ==
  /\ call[c].at = "room"
  /\ IF lounge.state = "room"       \* found by its clubId, which a husk has not got
     THEN talking' = {} /\ Goes(c, "mirrors")
     ELSE UNCHANGED talking /\ Goes(c, AfterRooms(c))
  /\ UNCHANGED <<club, lounge, mirror, consent, media, lives, stops>>
DeletionDeletesMirrors(c) ==
  /\ call[c].at = "mirrors" /\ mirror' = {} /\ Goes(c, "erase")
  /\ UNCHANGED <<club, lounge, talking, consent, media, lives, stops>>
ErasesRoom(c) ==
  /\ call[c].at = "erase" /\ lounge' = NoLounge /\ Goes(c, AfterRooms(c))
  /\ UNCHANGED <<club, talking, mirror, consent, media, lives, stops>>

NamedObject(c) == call[c].shown # 0
cleanupClubMedia(c) ==
  /\ call[c].at = "media" /\ object' = IF NamedObject(c) THEN 0 ELSE object
  /\ Goes(c, IF call[c].kind = "self" THEN "cleaned" ELSE "shelf")
  /\ UNCHANGED <<club, voice, consent, avatar, published, uploads, lives, stops>>
\* set(..., {merge: true}) again: a root that is gone comes back without an owner.
MarksCleaned(c) ==
  /\ call[c].at = "cleaned" /\ cleaned' = TRUE /\ Goes(c, "shelf")
  /\ root' = IF root = "none" THEN "husk" ELSE root
  /\ UNCHANGED <<status, deleting, rows, shelf, voice, consent, media, lives, stops>>
DeletesProjections(c) ==
  /\ call[c].at = "shelf" /\ shelf' = {} /\ Goes(c, "consent")
  /\ UNCHANGED <<root, status, deleting, cleaned, rows, voice, consent, media, lives, stops>>
DeletesConsent(c) ==
  /\ call[c].at = "consent" /\ consent' = 0 /\ Goes(c, "root")
  /\ UNCHANGED <<club, voice, media, lives, stops>>
ErasesRoot(c) ==
  /\ call[c].at = "root" /\ Ends(c)
  /\ root' = "none" /\ status' = None /\ deleting' = FALSE /\ cleaned' = FALSE /\ rows' = {}
  /\ avatar' = 0 /\ UNCHANGED <<shelf, voice, consent, object, published, uploads, lives, stops>>

executeDeleteClubSelf(c) ==
  \/ DeletionEndsRoom(c) \/ DeletionDeletesMirrors(c) \/ ErasesRoom(c) \/ cleanupClubMedia(c)
  \/ MarksCleaned(c) \/ DeletesProjections(c) \/ DeletesConsent(c) \/ ErasesRoot(c)
CallStops(c) ==
  /\ call[c] # Idle /\ stops < MaxStops /\ stops' = stops + 1 /\ Ends(c)
  /\ UNCHANGED <<club, voice, consent, media, lives>>

Steps(c) ==
  \/ executeDeleteClubSelf(c) \/ verifiedClubMedia(c) \/ PublishesMedia(c)
  \/ ReadsRooms(c) \/ WritesRooms(c) \/ SuspensionEndsRoom(c) \/ SuspensionDeletesMirrors(c)
Next ==
  \/ createCommunityClub \/ GivesConsent \/ Uploads
  \/ \E u \in Users : AcceptInvite(u) \/ Joins(u)
  \/ \E c \in Calls : Steps(c) \/ CallStops(c) \/ finalizeClubMedia(c)
  \/ \E c \in Calls, kind \in Kinds : setClubModerationStatus(c, kind) \/ MarksDeletion(c, kind)

Spec == Init /\ [][Next]_vars

--------------------------------
(* A Club that is gone has left nothing: no projection, no room, nobody in  *)
(* voice, no mirror, no consent.  Two things are not covered.  A batch of   *)
(* moderation that read the lounge before it was erased, and a mark that    *)
(* the media are gone set after another call erased the root, bring a       *)
(* document back (admin/clubs.js:422, deletion.js:333): a husk, which no    *)
(* clubId or owner ties to a Club.  And a deletion that another call has    *)
(* overtaken takes what it likes of a Club created anew under the same id.  *)
GoneMeansGone ==
  root # "club" /\ ~bygone =>
    shelf = {} /\ lounge.state # "room" /\ talking = {} /\ mirror = {} /\ consent = 0

(* Projections disappear before the root: no member keeps one of a Club    *)
(* whose member list is gone.                                              *)
NoGhostProjection == ~bygone => shelf \subseteq rows

(* Nobody is in the voice of a Club whose deletion has passed its rooms,   *)
(* and its lounge is gone or a husk.                                       *)
DeletionSilences ==
  ~bygone /\ (\E c \in Calls : call[c].at \in {"media", "cleaned", "shelf", "consent", "root"}) =>
    talking = {} /\ mirror = {} /\ lounge.state # "room"

(* An image that was finalized does not outlive the Club: finalizing is    *)
(* refused once the deletion has read which objects it will delete.  One   *)
(* that was uploaded and never finalized does: no field names it, and the  *)
(* deletion deletes what is named (deletion.js:323).                       *)
FinalizedMediaIsGone == root # "club" /\ published /\ ~bygone => object = 0

=============================================================================
