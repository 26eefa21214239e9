--------------------------- MODULE PodcastEpisodes ---------------------------
(***************************************************************************)
(* The recording of a podcast episode: a studio channel holds one live     *)
(* session at a time, each session records at most one episode, and the    *)
(* recording itself runs at an outside provider (LiveKit egress) that      *)
(* writes the audio object.  A durable job, claimed under a lease by the   *)
(* callable that made it and by a scheduled worker, keeps the episode in   *)
(* step with the provider; the content cleanup of a deleted channel has to *)
(* bring the recording to an end before it may delete the episode.         *)
(* Source: functions/servers/podcast_episodes.js and the podcast page of   *)
(* functions/servers/content_cleanup.js.                                   *)
(***************************************************************************)
EXTENDS Integers, FiniteSets, FiniteSetsExt

CONSTANTS
  Episodes,      \* document ids, in document order: one per session of the studio
  Workers,       \* runs of processPodcastEgressJob that may overlap
  MaxEgress,     \* bound: recordings the provider ever starts
  MaxCrashes,    \* bound: workers and pages that die between two steps
  SlowWorkers,   \* TRUE: a worker may outlive its own lease of a minute
  Listening      \* TRUE: listeners ask for playback

PodcastAssumption ==
  /\ Episodes \subseteq Nat \ {0} /\ IsFiniteSet(Episodes)
  /\ MaxEgress \in Nat /\ MaxCrashes \in Nat
  /\ SlowWorkers \in BOOLEAN /\ Listening \in BOOLEAN

None == 0
EgressIds == 1..MaxEgress

VARIABLES
  episode,    \* the episode documents
  state,      \* podcastRecordingState/main of the studio
  job,        \* serverPodcastEgressJobs
  egress,     \* the provider's recordings
  object,     \* the audio object of an episode: the recording that wrote it, or None
  live,       \* the studio's live session (named by its episode), or None
  deleting,   \* the channel or its server is being deleted
  worker, sweep, listener, crashes

vars == <<episode, state, job, egress, object, live, deleting, worker, sweep, listener, crashes>>

EpisodeStatus == {"none", "recording", "processing", "ready", "published", "error"}
EgressStatus == {"unused", "running", "ending", "complete", "failed"}
NoEpisode == [status |-> "none", revision |-> 0, egressId |-> None, media |-> None]
NoState == [episodeId |-> None, revision |-> 0, status |-> "none"]
NoJob == [action |-> "none", egressId |-> None, lease |-> None, lapsed |-> FALSE]
IdleWorker == [at |-> "idle", episode |-> None, action |-> "none", egressId |-> None,
               info |-> "none"]
IdleSweep == [at |-> "idle", episode |-> None, seen |-> NoEpisode]
IdleListener == [at |-> "idle", episode |-> None, seen |-> NoEpisode]

TypeOK ==
  /\ episode \in [Episodes -> [status : EpisodeStatus, revision : Nat,
                               egressId : EgressIds \cup {None}, media : EgressIds \cup {None}]]
  /\ state \in [episodeId : Episodes \cup {None}, revision : Nat, status : EpisodeStatus]
  /\ job \in [Episodes -> [action : {"none", "start", "monitor", "stop"},
                           egressId : EgressIds \cup {None},
                           lease : Workers \cup {None}, lapsed : BOOLEAN]]
  /\ egress \in [EgressIds -> [episode : Episodes \cup {None}, status : EgressStatus]]
  /\ object \in [Episodes -> EgressIds \cup {None}]
  /\ live \in Episodes \cup {None} /\ deleting \in BOOLEAN /\ crashes \in 0..MaxCrashes

Init ==
  /\ episode = [e \in Episodes |-> NoEpisode]
  /\ state = NoState
  /\ job = [e \in Episodes |-> NoJob]
  /\ egress = [g \in EgressIds |-> [episode |-> None, status |-> "unused"]]
  /\ object = [e \in Episodes |-> None]
  /\ live = None /\ deleting = FALSE /\ crashes = 0
  /\ worker = [w \in Workers |-> IdleWorker]
  /\ sweep = IdleSweep /\ listener = IdleListener

Exists(e) == episode[e].status # "none"
HasJob(e) == job[e].action # "none"

(* stateDocument: the studio's state names the episode it was last written *)
(* for, with that episode's revision and status.                           *)
StateOf(e, ep) == [episodeId |-> e, revision |-> ep.revision, status |-> ep.status]
StateIsOf(e) == state.episodeId = e /\ state.revision = episode[e].revision

(* freshJob: a start job that knows no recording yet.                      *)
FreshJob == [NoJob EXCEPT !.action = "start"]

Write(e, ep) == episode' = [episode EXCEPT ![e] = ep] /\ state' = StateOf(e, ep)

(***************************************************************************)
(* The moderator's callables (each one transaction)                        *)
(***************************************************************************)
OpenSession(e) ==
  /\ ~deleting /\ live = None /\ ~Exists(e)
  /\ live' = e
  /\ UNCHANGED <<episode, state, job, egress, object, deleting, worker, sweep, listener, crashes>>

EndSession ==
  /\ live # None /\ live' = None
  /\ UNCHANGED <<episode, state, job, egress, object, deleting, worker, sweep, listener, crashes>>

(* startServerPodcastRecordingV1                                           *)
Start(e) ==
  /\ ~deleting /\ live = e /\ ~Exists(e) /\ ~HasJob(e)
  /\ state.status \notin {"recording", "processing"}
  /\ Write(e, [NoEpisode EXCEPT !.status = "recording", !.revision = 1])
  /\ job' = [job EXCEPT ![e] = FreshJob]
  /\ UNCHANGED <<egress, object, live, deleting, worker, sweep, listener, crashes>>

(* stopServerPodcastRecordingV1: the stop takes the job away from the      *)
(* worker that holds it.                                                   *)
Stop(e) ==
  /\ ~deleting /\ episode[e].status = "recording" /\ episode[e].egressId # None
  /\ StateIsOf(e) /\ job[e].egressId = episode[e].egressId
  /\ job[e].action \in {"monitor", "start"}
  /\ Write(e, [episode[e] EXCEPT !.status = "processing", !.revision = @ + 1])
  /\ job' = [job EXCEPT ![e] = [NoJob EXCEPT !.action = "stop", !.egressId = episode[e].egressId]]
  /\ UNCHANGED <<egress, object, live, deleting, worker, sweep, listener, crashes>>

(* retryServerPodcastRecordingV1                                           *)
Retry(e) ==
  /\ ~deleting /\ live = e /\ episode[e].status = "error" /\ ~HasJob(e) /\ StateIsOf(e)
  /\ Write(e, [episode[e] EXCEPT !.status = "recording", !.revision = @ + 1, !.egressId = None])
  /\ job' = [job EXCEPT ![e] = FreshJob]
  /\ UNCHANGED <<egress, object, live, deleting, worker, sweep, listener, crashes>>

(* publishServerPodcastEpisodeV1: the state follows only when it is still  *)
(* this episode's.                                                         *)
Publish(e) ==
  /\ ~deleting /\ episode[e].status = "ready"
  /\ LET ep == [episode[e] EXCEPT !.status = "published", !.revision = @ + 1]
     IN  /\ episode' = [episode EXCEPT ![e] = ep]
         /\ state' = IF StateIsOf(e) THEN StateOf(e, ep) ELSE state
  /\ UNCHANGED <<job, egress, object, live, deleting, worker, sweep, listener, crashes>>

(***************************************************************************)
(* The provider                                                            *)
(***************************************************************************)
ProviderSets(g, status) == egress' = [egress EXCEPT ![g].status = status]

(* The room emptied, or the recording reached its own limit.               *)
ProviderEnds(g) ==
  /\ egress[g].status = "running" /\ live # egress[g].episode /\ ProviderSets(g, "ending")
  /\ UNCHANGED <<episode, state, job, object, live, deleting, worker, sweep, listener, crashes>>

ProviderCompletes(g) ==
  /\ egress[g].status = "ending" /\ ProviderSets(g, "complete")
  /\ object' = [object EXCEPT ![egress[g].episode] = g]
  /\ UNCHANGED <<episode, state, job, live, deleting, worker, sweep, listener, crashes>>

ProviderFails(g) ==
  /\ egress[g].status \in {"running", "ending"} /\ ProviderSets(g, "failed")
  /\ UNCHANGED <<episode, state, job, object, live, deleting, worker, sweep, listener, crashes>>

(***************************************************************************)
(* processPodcastEgressJob                                                 *)
(***************************************************************************)
Leased(j) == j.lease # None /\ ~j.lapsed

(* claimJob: the claim copies the job and puts the worker's own token on it *)
Claim(w, e) ==
  /\ worker[w].at = "idle" /\ HasJob(e) /\ ~Leased(job[e])
  /\ job' = [job EXCEPT ![e].lease = w, ![e].lapsed = FALSE]
  /\ worker' = [worker EXCEPT ![w] =
        [IdleWorker EXCEPT !.at = IF job[e].action = "start" THEN "list" ELSE "look",
           !.episode = e, !.action = job[e].action, !.egressId = job[e].egressId]]
  /\ UNCHANGED <<episode, state, egress, object, live, deleting, sweep, listener, crashes>>

(* The token on the job is still this worker's.                            *)
Holds(w) == HasJob(worker[w].episode) /\ job[worker[w].episode].lease = w

Goes(w, at, g, info) ==
  worker' = [worker EXCEPT ![w].at = at, ![w].egressId = g, ![w].info = info]
Rests(w) == worker' = [worker EXCEPT ![w] = IdleWorker]

(* ensureAudioRecording, first call: a recording of the same path that has *)
(* not failed is adopted, one that is complete too.                        *)
Adoptable(e) == {g \in EgressIds : /\ egress[g].episode = e
                                   /\ egress[g].status \notin {"failed", "unused"}}
List(w) ==
  /\ worker[w].at = "list"
  /\ LET found == Adoptable(worker[w].episode)
     IN  \/ \E g \in found : Goes(w, "apply", g, egress[g].status)
         \/ found = {} /\ Goes(w, "begin", None, "none")
  /\ UNCHANGED <<episode, state, job, egress, object, live, deleting, sweep, listener, crashes>>

(* startRoomCompositeEgress: refused without the room; the answer may be   *)
(* lost after the recording has begun.                                     *)
Begin(w) ==
  /\ worker[w].at = "begin" /\ live = worker[w].episode
  /\ \E g \in EgressIds :
       /\ egress[g].status = "unused" /\ \A h \in EgressIds : h < g => egress[h].status # "unused"
       /\ egress' = [egress EXCEPT ![g] = [episode |-> worker[w].episode, status |-> "running"]]
       /\ \/ Goes(w, "apply", g, "running")
          \/ Goes(w, "release", None, "none")
  /\ UNCHANGED <<episode, state, job, object, live, deleting, sweep, listener, crashes>>

BeginRefused(w) ==
  /\ worker[w].at = "begin" /\ Goes(w, "release", None, "none")
  /\ UNCHANGED <<episode, state, job, egress, object, live, deleting, sweep, listener, crashes>>

(* getRecording, and stopRecording when the claimed job asked for a stop.  *)
Look(w) ==
  /\ worker[w].at = "look"
  /\ LET seen == egress[worker[w].egressId].status
     IN  Goes(w, IF worker[w].action = "stop" /\ seen = "running" THEN "halt" ELSE "apply",
              worker[w].egressId, seen)
  /\ UNCHANGED <<episode, state, job, egress, object, live, deleting, sweep, listener, crashes>>

Halt(w) ==
  /\ worker[w].at = "halt"
  /\ LET g == worker[w].egressId
     IN  IF egress[g].status = "running"
         THEN ProviderSets(g, "ending") /\ Goes(w, "apply", g, "ending")
         ELSE Goes(w, "release", g, "none") /\ UNCHANGED egress
  /\ UNCHANGED <<episode, state, job, object, live, deleting, sweep, listener, crashes>>

(* releaseJob                                                              *)
Release(w) ==
  /\ worker[w].at = "release" /\ Rests(w)
  /\ job' = IF Holds(w) THEN [job EXCEPT ![worker[w].episode].lease = None] ELSE job
  /\ UNCHANGED <<episode, state, egress, object, live, deleting, sweep, listener, crashes>>

(* markProviderError                                                       *)
ApplyFailed(w) ==
  LET e == worker[w].episode
  IN  /\ worker[w].at = "apply" /\ worker[w].info = "failed"
      /\ IF Holds(w) /\ StateIsOf(e)
         THEN /\ Write(e, [episode[e] EXCEPT !.status = "error", !.revision = @ + 1,
                                             !.egressId = worker[w].egressId])
              /\ job' = [job EXCEPT ![e] = NoJob]
              /\ Rests(w)
         ELSE UNCHANGED <<episode, state, job>> /\ Rests(w)
      /\ UNCHANGED <<egress, object, live, deleting, sweep, listener, crashes>>

(* completeEpisode, before its transaction: the object must be the one the *)
(* provider reported.                                                      *)
Inspect(w) ==
  /\ worker[w].at = "apply" /\ worker[w].info = "complete"
  /\ Goes(w, IF object[worker[w].episode] = worker[w].egressId THEN "complete" ELSE "release",
          worker[w].egressId, "complete")
  /\ UNCHANGED <<episode, state, job, egress, object, live, deleting, sweep, listener, crashes>>

(* completeEpisode: nothing is written for a token or a recording that is  *)
(* no longer the job's, and the lease is then left to run out.             *)
Complete(w) ==
  LET e == worker[w].episode
      g == worker[w].egressId
  IN  /\ worker[w].at = "complete"
      /\ IF Holds(w) /\ job[e].egressId = g
         THEN IF episode[e].egressId = g /\ episode[e].status \in {"recording", "processing"}
                 /\ StateIsOf(e)
              THEN /\ Write(e, [episode[e] EXCEPT !.status = "ready", !.revision = @ + 1,
                                                  !.media = object[e]])
                   /\ job' = [job EXCEPT ![e] = NoJob]
                   /\ Rests(w)
              ELSE Goes(w, "release", g, "none") /\ UNCHANGED <<episode, state, job>>
         ELSE UNCHANGED <<episode, state, job>> /\ Rests(w)
      /\ UNCHANGED <<egress, object, live, deleting, sweep, listener, crashes>>

(* applyProviderInfo for a recording that runs or is ending: a stop that   *)
(* was asked for meanwhile is kept.                                        *)
KeepsStop(e, info) ==
  episode[e].status = "processing" \/ info = "ending" \/ job[e].action = "stop"

ApplyRunning(w) ==
  LET e == worker[w].episode
      g == worker[w].egressId
      processing == KeepsStop(e, worker[w].info)
      status == IF processing THEN "processing" ELSE "recording"
      same == episode[e].status = status /\ episode[e].egressId = g
  IN  /\ worker[w].at = "apply" /\ worker[w].info \in {"running", "ending"}
      /\ IF Holds(w) /\ StateIsOf(e)
         THEN /\ Write(e, [episode[e] EXCEPT !.status = status, !.egressId = g,
                             !.revision = IF same THEN @ ELSE @ + 1])
              /\ job' = [job EXCEPT ![e] = [NoJob EXCEPT
                    !.action = IF processing /\ worker[w].info = "running"
                               THEN "stop" ELSE "monitor",
                    !.egressId = g]]
         ELSE UNCHANGED <<episode, state, job>>
      /\ Rests(w)
      /\ UNCHANGED <<egress, object, live, deleting, sweep, listener, crashes>>

(* The worker's process dies; its lease stays until the clock passes it.   *)
Crash(w) ==
  /\ crashes < MaxCrashes /\ worker[w].at # "idle"
  /\ crashes' = crashes + 1 /\ Rests(w)
  /\ UNCHANGED <<episode, state, job, egress, object, live, deleting, sweep, listener>>

HolderAlive(e) ==
  /\ job[e].lease \in Workers
  /\ worker[job[e].lease].at # "idle" /\ worker[job[e].lease].episode = e

Lapse(e) ==
  /\ HasJob(e) /\ Leased(job[e]) /\ (SlowWorkers \/ ~HolderAlive(e))
  /\ job' = [job EXCEPT ![e].lapsed = TRUE]
  /\ UNCHANGED <<episode, state, egress, object, live, deleting, worker, sweep, listener, crashes>>

(***************************************************************************)
(* Deletion of the channel or the server                                   *)
(***************************************************************************)
(* The session is over before the content cleanup reaches the episodes.    *)
Delete ==
  /\ ~deleting /\ deleting' = TRUE /\ live' = None
  /\ UNCHANGED <<episode, state, job, egress, object, worker, sweep, listener, crashes>>

(* podcastStateMatchesEpisode                                              *)
StateMatches(e) ==
  state = NoState \/ (StateIsOf(e) /\ state.status = episode[e].status)

(* The page always takes the first episode in document order.              *)
Page(e) ==
  /\ deleting /\ sweep.at = "idle" /\ Exists(e)
  /\ \A other \in Episodes : Exists(other) => e <= other
  /\ StateMatches(e)

(* A live recording is first turned into a stop job; a start job and a     *)
(* stop job are waited for, and so is a leased one.                        *)
SweepStops(e) ==
  /\ Page(e) /\ HasJob(e) /\ ~Leased(job[e]) /\ job[e].egressId # None
  /\ job[e].action # "stop" /\ episode[e].status \in {"recording", "processing"}
  /\ IF episode[e].status = "recording"
     THEN Write(e, [episode[e] EXCEPT !.status = "processing", !.revision = @ + 1])
     ELSE UNCHANGED <<episode, state>>
  /\ job' = [job EXCEPT ![e] = [NoJob EXCEPT !.action = "stop", !.egressId = job[e].egressId]]
  /\ UNCHANGED <<egress, object, live, deleting, worker, sweep, listener, crashes>>

(* mutant: the cleanup drops the job with the episode *)
SweepTakesAny(e) ==
  /\ Page(e) /\ sweep' = [at |-> "bytes", episode |-> e, seen |-> episode[e]]
  /\ job' = [job EXCEPT ![e] = NoJob]
  /\ UNCHANGED <<episode, state, egress, object, live, deleting, worker, listener, crashes>>

SweepTakes(e) ==
  /\ Page(e) /\ ~HasJob(e) /\ episode[e].status \in {"ready", "published", "error"}
  /\ sweep' = [at |-> "bytes", episode |-> e, seen |-> episode[e]]
  /\ UNCHANGED <<episode, state, job, egress, object, live, deleting, worker, listener, crashes>>

(* deleteUnpublished: of the recorded generation only, or of whatever is   *)
(* there when the episode has no media; refused otherwise.                 *)
SweepBytes ==
  LET e == sweep.episode
  IN  /\ sweep.at = "bytes"
      /\ IF object[e] = None \/ sweep.seen.media \in {None, object[e]}
         THEN /\ object' = [object EXCEPT ![e] = None]
              /\ sweep' = [sweep EXCEPT !.at = "settle"]
         ELSE sweep' = IdleSweep /\ UNCHANGED object
      /\ UNCHANGED <<episode, state, job, egress, live, deleting, worker, listener, crashes>>

SweepSettles ==
  LET e == sweep.episode
  IN  /\ sweep.at = "settle" /\ sweep' = IdleSweep
      /\ IF ~HasJob(e) /\ episode[e] = sweep.seen /\ StateMatches(e)
         THEN episode' = [episode EXCEPT ![e] = NoEpisode] /\ state' = NoState
         ELSE UNCHANGED <<episode, state>>
      /\ UNCHANGED <<job, egress, object, live, deleting, worker, listener, crashes>>

SweepCrash ==
  /\ crashes < MaxCrashes /\ sweep.at # "idle"
  /\ crashes' = crashes + 1 /\ sweep' = IdleSweep
  /\ UNCHANGED <<episode, state, job, egress, object, live, deleting, worker, listener>>

(***************************************************************************)
(* getServerPodcastEpisodeAccessV1                                         *)
(***************************************************************************)
(* authorizePlayback: the channel is there and the episode is published    *)
(* (a moderator may also hear a ready one).                                *)
MayHear(e) == ~deleting /\ episode[e].status \in {"ready", "published"}

Ask(e) ==
  /\ Listening /\ listener.at = "idle" /\ MayHear(e)
  /\ listener' = [at |-> "inspect", episode |-> e, seen |-> episode[e]]
  /\ UNCHANGED <<episode, state, job, egress, object, live, deleting, worker, sweep, crashes>>

(* The object must still be the recorded one before the link is signed.    *)
Sign ==
  /\ listener.at = "inspect"
  /\ listener' = IF object[listener.episode] = listener.seen.media
                 THEN [listener EXCEPT !.at = "signed"] ELSE IdleListener
  /\ UNCHANGED <<episode, state, job, egress, object, live, deleting, worker, sweep, crashes>>

(* samePlayback: authorized again after the signature, with nothing moved. *)
SamePlayback == MayHear(listener.episode) /\ episode[listener.episode] = listener.seen

Answer ==
  /\ listener.at = "signed"
  /\ listener' = IF SamePlayback THEN [listener EXCEPT !.at = "heard"] ELSE IdleListener
  /\ UNCHANGED <<episode, state, job, egress, object, live, deleting, worker, sweep, crashes>>

Leave ==
  /\ listener.at = "heard" /\ listener' = IdleListener
  /\ UNCHANGED <<episode, state, job, egress, object, live, deleting, worker, sweep, crashes>>

(***************************************************************************)
WorkerStep(w) ==
  List(w) \/ Begin(w) \/ BeginRefused(w) \/ Look(w) \/ Halt(w) \/ Release(w)
    \/ ApplyFailed(w) \/ Inspect(w) \/ Complete(w) \/ ApplyRunning(w)

Provider == \E g \in EgressIds : ProviderEnds(g) \/ ProviderCompletes(g) \/ ProviderFails(g)

Moderator ==
  \/ \E e \in Episodes : OpenSession(e) \/ Start(e) \/ Stop(e) \/ Retry(e) \/ Publish(e)
  \/ EndSession \/ Delete

Cleanup == (\E e \in Episodes : SweepStops(e) \/ SweepTakes(e)) \/ SweepBytes \/ SweepSettles

Listener == (\E e \in Episodes : Ask(e)) \/ Sign \/ Answer \/ Leave

Next ==
  \/ Moderator \/ Provider \/ Cleanup \/ Listener \/ SweepCrash
  \/ \E w \in Workers : WorkerStep(w) \/ Crash(w) \/ \E e \in Episodes : Claim(w, e)
  \/ \E e \in Episodes : Lapse(e)

Spec == Init /\ [][Next]_vars

(***************************************************************************)
(* Properties                                                              *)
(***************************************************************************)
Going(g) == egress[g].status \in {"running", "ending"}
RecordingsOf(e) == {g \in EgressIds : egress[g].episode = e /\ Going(g)}

(* Whatever a worker's crash or a lost answer leaves behind, the provider  *)
(* never runs two recordings into one audio path.                          *)
OneRecording == \A e \in Episodes : Cardinality(RecordingsOf(e)) <= 1

(* A recording that runs is always one somebody will still end: its        *)
(* episode exists, and its job either names it or is a start job whose     *)
(* worker will find it by its path.                                        *)
NothingStrands ==
  \A g \in EgressIds : Going(g) =>
    /\ Exists(egress[g].episode)
    /\ \/ job[egress[g].episode].egressId = g
       \/ job[egress[g].episode].action = "start"

(* A stop is never lost to an answer that was already on its way: while a  *)
(* stopped recording still runs, its job still asks for the stop.          *)
StopStays ==
  \A e \in Episodes :
    /\ episode[e].status = "processing" /\ episode[e].egressId # None
    /\ egress[episode[e].egressId].status = "running"
    => job[e].action = "stop"

(* The studio's recording state is the truth about its latest episode, and *)
(* no other episode is being recorded.                                     *)
StateFollows ==
  /\ state.episodeId # None =>
       LET e == state.episodeId
       IN  state.revision = episode[e].revision /\ state.status = episode[e].status
  /\ \A e \in Episodes :
       episode[e].status \in {"recording", "processing"} => state.episodeId = e

(* What is ready or published is exactly the file the provider completed   *)
(* for that episode, until the cleanup takes it.                           *)
MediaIsTheRecording ==
  \A e \in Episodes : episode[e].status \in {"ready", "published"} =>
    /\ episode[e].media # None /\ episode[e].media = episode[e].egressId
    /\ egress[episode[e].media].status = "complete"
    /\ object[e] = episode[e].media \/ sweep.episode = e \/ (deleting /\ object[e] = None)

(* An episode that is gone leaves no recording running and no audio.       *)
GoneMeansGone ==
  \A e \in Episodes : ~Exists(e) => object[e] = None /\ RecordingsOf(e) = {}

(* A playback link is handed out only for audio that may be heard at that  *)
(* moment, unchanged since it was signed.                                  *)
GrantIsCurrent ==
  (listener'.at = "heard" /\ listener.at # "heard") =>
    LET e == listener.episode
    IN  /\ ~deleting /\ episode[e].status \in {"ready", "published"}
        /\ listener.seen.revision = episode[e].revision

==============================================================================
