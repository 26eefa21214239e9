---------------------------- MODULE MCVoice ----------------------------
(***************************************************************************)
(* TLC instances of the components that decide who is in a live room and   *)
(* when it ends: they read LiveKit or their own documents, wait, and write *)
(* what they decided.  They share no state in the code but the empty grace *)
(* of a generation, whose release ServerSession models; so a behaviour     *)
(* plays one of them, chosen in the initial state, while the others stand  *)
(* still.                                                                  *)
(***************************************************************************)
EXTENDS EmptyGrace, TLC

CONSTANTS c1, c2, none

TwoCalls == {c1, c2}
CallsAlike == Permutations(TwoCalls)
OneUser == {"a"}
AllKinds == {"sweep", "webhook", "release"}

\* The sweep beside the provider's events, and beside the releases of clients.
GraceKinds == {"events", "releases"}

\* One call among all the host can do, or two calls that overlap.
RoomKinds == {"host", "overlap"}
CallsOf(kind) == IF kind = "host" THEN {"c"} ELSE TwoCalls
OpsOf(kind) == IF kind = "host" THEN 2 ELSE 1
CapacityOf(kind) == IF kind = "host" THEN 2 ELSE 1
HostDoes(kind) == IF kind = "host" THEN {"moderate", "status", "delete", "remove"} ELSE {}

\* A Club of two rooms that removes a member page by page, one whose staff ban,
\* remove and hand over, and one where members and staff remove.  Any call may
\* die between two steps.
ClubKinds == {"removals", "bans", "both"}
ClubRoomsOf(kind) == IF kind = "removals" THEN 1..2 ELSE 1..1
StepsOf(kind) == CASE kind = "removals" -> {"remove"}
                   [] kind = "bans"     -> {"ban", "staffRemove", "reset"}
                   [] OTHER             -> {"remove", "ban", "staffRemove"}
ChangesOf(kind) == IF kind = "both" THEN 4 ELSE 2

\* A studio whose listeners ask for the episode, and one with slow workers.
StudioKinds == {"listeners", "slow"}

\* The policies of a restricted channel: by role and user, by role, open.
Closed == [open |-> FALSE, roles |-> {"owner", "admin"}, users |-> {2}]
Wider == [open |-> FALSE, roles |-> {"owner", "member"}, users |-> {}]
Public == [open |-> TRUE, roles |-> {}, users |-> {}]

\* A channel where one command converges under two workers that may fail, one of
\* two commands whose jobs supersede each other under two workers, and one of two
\* commands with a worker that may fail, die or outlive its lease.
ChannelKinds == {"channel", "commands", "failing"}
PoliciesOf(kind) == IF kind = "channel" THEN {Closed, Wider, Public} ELSE {Closed, Wider}
WorkersOf(kind) == IF kind = "failing" THEN {"w"} ELSE TwoCalls
JobsOf(kind) == IF kind = "channel" THEN 1 ELSE 2
FailuresOf(kind) == IF kind = "commands" THEN 0 ELSE 1

VARIABLES
  part,          \* the component whose life is played
  roomRoom, roomLive, roomSession, roomFresh, roomCount, roomRoster, roomMuted, roomOwed,
  roomTeardown, roomDone, roomMirror, roomToken, roomConnected, roomCalls, roomOps,
  clubRole, clubShelf, clubBanned, clubClub, clubHost, clubSeat, clubCount, clubMirror,
  clubBearer, clubTalking, clubRemoval, clubCall, clubChanges, clubEarlier, clubDropped,
  studioEpisode, studioState, studioJob, studioEgress, studioObject, studioLive,
  studioDeleting, studioWorker, studioSweep, studioListener, studioCrashes,
  channelOwner, channelAcl, channelMember, channelGrant, channelSession, channelRecipient,
  channelJobs, channelWorker, channelFailures

roomVars ==
  <<roomRoom, roomLive, roomSession, roomFresh, roomCount, roomRoster, roomMuted, roomOwed,
    roomTeardown, roomDone, roomMirror, roomToken, roomConnected, roomCalls, roomOps>>

RoomOf(kind) == INSTANCE Rooms WITH
  Users <- {"h", "a"}, Host <- "h", Calls <- CallsOf(kind), Capacity <- CapacityOf(kind),
  MaxSessions <- 2, MaxOps <- OpsOf(kind), Operations <- HostDoes(kind), room <- roomRoom,
  live <- roomLive, session <- roomSession, fresh <- roomFresh, count <- roomCount,
  roster <- roomRoster, muted <- roomMuted, owed <- roomOwed, teardown <- roomTeardown,
  done <- roomDone, mirror <- roomMirror, token <- roomToken, connected <- roomConnected,
  calls <- roomCalls, ops <- roomOps

clubVars ==
  <<clubRole, clubShelf, clubBanned, clubClub, clubHost, clubSeat, clubCount, clubMirror,
    clubBearer, clubTalking, clubRemoval, clubCall, clubChanges, clubEarlier,
    clubDropped>>

ClubOf(kind) == INSTANCE ClubVoice WITH
  Users <- {"founder", "ann"}, Founder <- "founder", Rooms <- ClubRoomsOf(kind),
  PageSize <- 1, Calls <- TwoCalls, Kinds <- StepsOf(kind), Fragile <- StepsOf(kind),
  MaxChanges <- ChangesOf(kind), role <- clubRole, shelf <- clubShelf, banned <- clubBanned,
  club <- clubClub, host <- clubHost, seat <- clubSeat, count <- clubCount,
  mirror <- clubMirror, bearer <- clubBearer, talking <- clubTalking,
  removal <- clubRemoval, call <- clubCall, changes <- clubChanges, earlier <- clubEarlier,
  dropped <- clubDropped

studioVars ==
  <<studioEpisode, studioState, studioJob, studioEgress, studioObject, studioLive,
    studioDeleting, studioWorker, studioSweep, studioListener, studioCrashes>>

StudioOf(kind) == INSTANCE PodcastEpisodes WITH
  Episodes <- {1}, Workers <- TwoCalls, MaxEgress <- 2,
  MaxCrashes <- (IF kind = "slow" THEN 0 ELSE 2), SlowWorkers <- (kind = "slow"),
  Listening <- (kind = "listeners"), episode <- studioEpisode, state <- studioState,
  job <- studioJob, egress <- studioEgress, object <- studioObject, live <- studioLive,
  deleting <- studioDeleting, worker <- studioWorker, sweep <- studioSweep,
  listener <- studioListener, crashes <- studioCrashes

channelVars ==
  <<channelOwner, channelAcl, channelMember, channelGrant, channelSession, channelRecipient,
    channelJobs, channelWorker, channelFailures>>

ChannelOf(kind) == INSTANCE Convergence WITH
  N <- 2, Policies <- PoliciesOf(kind), Workers <- WorkersOf(kind), PageSize <- 1,
  MaxAcl <- 2, MaxRevision <- 2, MaxJobs <- JobsOf(kind), MaxFailures <- FailuresOf(kind),
  None <- none, owner <- channelOwner, acl <- channelAcl, member <- channelMember,
  grant <- channelGrant, session <- channelSession, recipient <- channelRecipient,
  jobs <- channelJobs, worker <- channelWorker, failures <- channelFailures

ASSUME InstancesAreLegal ==
  /\ \A kind \in RoomKinds : RoomOf(kind)!RoomsAssumption
  /\ \A kind \in ClubKinds : ClubOf(kind)!ClubVoiceAssumption
  /\ \A kind \in StudioKinds : StudioOf(kind)!PodcastAssumption
  /\ \A kind \in ChannelKinds : ChannelOf(kind)!ConvergenceConstantsAssumption

\* The kind an instance has when it is not its part that is played.
Plays(kind, kinds, other) == kind = IF part \in kinds THEN part ELSE other

VoiceInit ==
  /\ part \in GraceKinds \cup RoomKinds \cup ClubKinds \cup StudioKinds \cup ChannelKinds
  /\ Init
  /\ \E kind \in RoomKinds : Plays(kind, RoomKinds, "overlap") /\ RoomOf(kind)!Init
  /\ \E kind \in ClubKinds : Plays(kind, ClubKinds, "bans") /\ ClubOf(kind)!Init
  /\ \E kind \in StudioKinds : Plays(kind, StudioKinds, "slow") /\ StudioOf(kind)!Init
  /\ \E kind \in ChannelKinds : Plays(kind, ChannelKinds, "channel") /\ ChannelOf(kind)!Init
  /\ part \notin ChannelKinds => channelAcl.policy = Closed

VoiceNext ==
  /\ UNCHANGED part
  /\ \/ /\ part = "events" /\ Next /\ reader'["release"] = Nil
        /\ UNCHANGED <<roomVars, clubVars, studioVars, channelVars>>
     \/ /\ part = "releases" /\ Next /\ finished' = Nil
        /\ UNCHANGED <<roomVars, clubVars, studioVars, channelVars>>
     \/ /\ \E kind \in RoomKinds : part = kind /\ RoomOf(kind)!Next
        /\ UNCHANGED <<vars, clubVars, studioVars, channelVars>>
     \/ /\ \E kind \in ClubKinds : part = kind /\ ClubOf(kind)!Next
        /\ UNCHANGED <<vars, roomVars, studioVars, channelVars>>
     \/ /\ \E kind \in StudioKinds : part = kind /\ StudioOf(kind)!Next
        /\ UNCHANGED <<vars, roomVars, clubVars, channelVars>>
     \/ /\ \E kind \in ChannelKinds : part = kind /\ ChannelOf(kind)!Next
        /\ UNCHANGED <<vars, roomVars, clubVars, studioVars>>

voiceVars == <<part, vars, roomVars, clubVars, studioVars, channelVars>>

VoiceSpec == VoiceInit /\ [][VoiceNext]_voiceVars

--------------------------------
(* A live room is ended only for the reason it is ended for: a session when
   nobody is listed or within its grace, a deleted room never comes back, the
   mirror of a newer session outlives the completion of an older call, and
   audio is handed out only while it may be heard. *)
StepsAreCurrent ==
  [][/\ \A kind \in RoomKinds : part = kind =>
          /\ RoomOf(kind)!EndsOnlyEmpty /\ RoomOf(kind)!GraceIsKept
          /\ RoomOf(kind)!NewerSessionKept /\ RoomOf(kind)!DeletionIsFinal
     /\ \A kind \in StudioKinds : part = kind => StudioOf(kind)!GrantIsCurrent]_voiceVars

(* Standing decides who is in: a removed or banned member of a Club is out of
   every room once the calls about them are through, unless a staff call died
   (ClubVoice!StaffOwes says of whom it left something owed), its one owner is the one every projection names, a permission
   still owed is the one the row calls for, and the grants and media tokens of
   a channel are those its policy allows, or a pending job will replace them. *)
StandingDecides ==
  /\ \A kind \in ClubKinds : part = kind =>
       /\ ClubOf(kind)!CompletedMeansOut /\ ClubOf(kind)!BannedIsOut
       /\ ClubOf(kind)!RemovedIsOut
       /\ ClubOf(kind)!OneOwner /\ ClubOf(kind)!ResetEndsTheCall
  /\ \A kind \in RoomKinds : part = kind => RoomOf(kind)!OwedIsCurrent
  /\ \A kind \in ChannelKinds : part = kind =>
       /\ ChannelOf(kind)!NobodyForgotten /\ ChannelOf(kind)!GrantsAreExact
       /\ ChannelOf(kind)!NoGrantForOutsiders

(* One recording per episode, none that nobody will end, and what is ready is
   the very file the provider completed; with workers that outlive their lease
   a stop is still not lost and the studio's state still the truth. *)
RecordingsAreTrue ==
  \A kind \in StudioKinds : part = kind =>
    /\ StudioOf(kind)!StopStays /\ StudioOf(kind)!StateFollows
    /\ kind = "listeners" =>
         /\ StudioOf(kind)!OneRecording /\ StudioOf(kind)!NothingStrands
         /\ StudioOf(kind)!MediaIsTheRecording /\ StudioOf(kind)!GoneMeansGone
=============================================================================
