# YO Voice backend: models and proofs

TLA+ models of the Cloud Functions backend of YO Voice (`src/functions/`), the
TLC configurations that check them on small instances, and theorems about them
proved with TLAPS for every value of their constants.

The backend keeps all of its state in Firestore documents and Storage objects, its
control over media in LiveKit rooms, its payments at Stripe. Its code is
short-lived: callables that run one or several transactions, triggers that are
delivered at least once, schedules that sweep. What is hard about it is therefore
not inside one handler but between handlers: documents that have to agree although
different functions write them, objects that no transaction covers, a token that
must not leave the server behind a hang-up, workers whose leases lapse while an
outside service has not answered yet, retries of what was already done.

## The system

| Part | State it keeps | Operations | What is hard | What makes it correct |
|---|---|---|---|---|
| Direct calls, `calls/direct_calls.js` | `directCalls`, `directCallLocks`, `incomingCalls`, start and token ledgers, notifications, `directCallControlOutbox` | start, accept, decline, cancel, end, token, expiry sweep, teardown worker | requests that cross, clock readings older than their commit, at-least-once teardown, a token signed between two transactions | one live call per account, projections agree, transitions only advance, nothing survives a teardown, one token per request |
| Voice session mirrors, `livekit/sessions.js` | `activeVoiceSessions/{uid}/rooms/{roomId}` | written with a token, removed by teardown and account deletion | the writer races the remover | every disclosed token is indexed until it is revoked |
| Server media sessions and their staging, `servers/sessions.js`, `session_control.js`, `session_contract.js`, `session_authority.js`, `convergence_lifecycle.js` | `channelSessions`, `tokenRecipients`, pointers of channel and room, roster, mirrors, token ledger, `serverControlOutbox` | start, token, end, paged end worker, reconcile of one identity | leases, a page that fails in part, zombies, revocation racing re-admission | one unfinished generation, usable tokens on record, an ended generation leaves nothing, revocations hit only their target |
| Session staleness and release, `servers/session_staleness.js` | grace stamps on the session | sweep, `room_finished`, release | occupancy read outside the transaction | nobody admitted within the grace is cut off |
| Convergence jobs, `servers/convergence.js`, `convergence_runtime.js` | jobs with cursors, access grants | project grants, reconcile the holders of tokens after a change of authority | skipped recipients, resumed pages, slow workers | no holder is forgotten, grants are what the policy says |
| Memberships, roles, invitations, `servers/memberships.js`, `invites.js`, `management.js` | members, revision ledger, invitations and pointers | join, leave, invite, accept, rank, ban, transfer | stale invitations, clock readings | roster, counter, ledger and pointers agree |
| Channel and server deletion, `servers/channels.js`, `content_cleanup.js` | deletion jobs with phases, leases and tasks | archive, delete, clean page by page | crash between pages, storage behind the documents | gone leaves nothing, one cleaner |
| Podcast episodes, `servers/podcast_episodes.js` | episodes, recording state, leased jobs, recordings at the provider | start, stop, publish, worker, drain | a provider that answers late or not | one recording, none strands |
| Private server media, `servers/family_memories.js`, `company_files.js`, `message_media.js` | reservations, leases per member, rows, objects | reserve, finalize, sign, remove, sweep | publish races sweeps and teardown | what is shown has its bytes, no bytes are forgotten |
| Direct messages, `messaging/*.js` | conversations, cursors, unread counters, messages, attachments | send, edit, delete, read, attach | two cursors per reader, replays, objects outside transactions | badges have messages, attachments are safe |
| Legacy rooms and covers, `rooms/*.js`, `livekit/token.js` | rooms, roster, mirrors, pending markers, covers | join, leave, mute, end, sweep; reserve and finalize a cover | LiveKit after the commit, repeated calls | ended only when empty, no newer session is touched |
| Clubs, `clubs/*.js`, `admin/clubs.js` | roots, members, rooms, operations | create, delete step by step, remove, ban, hand over | voice is revoked after the commit | whoever is out is out of every room; gone means gone |
| Reels and Voice Moments, `reels/service.js`, `moments/*.js` | roots, drafts, comments, outbox rows, objects | draft, publish, comment, expire, delete, clean | tombstones with content under them, leased workers | what can be read can be played, evidence is kept, nothing is forgotten |
| Pages, `pages/*.js` | Pages, posts, reports, reservations, visibility index | publish, report, moderate, lapse, pause, delete | five writers of one standing, media under review | counts are true, evidence stays, lapses are live |
| Reports, `moderation/reports.js` | reports, audit log, requests | report, claim, resolve, remove | repeated requests, content that goes meanwhile | audit, counters and tombstones agree |
| Comment notices, `notifications/engagement*.js` | bell rows, receipts, likes | two triggers at least once, retirement | events out of order | nobody is told of what they may not see |
| Social graph, `friends/social_graph.js` | friendships, requests, follows, blocks, counters | request, accept, unfriend, follow, block | mirrored documents and counters, a deletion page by page | counters are exact, blocks sever |
| Account deletion, `account/*.js` | outbox row, stages, leases | freeze, revoke, erase in stages | crash between stages, a slow worker, the Auth trigger | the identity goes last, passed stages are empty |
| Account securing, `auth/federated_takeover.js` | ledger row, Auth record, push registrations | the owner's call, sweeps, resumable purge | two workers on one row, page bounds | what was opened before is over |
| Premium billing, `premium/*.js` | billing record, entitlement, receipts | Stripe webhooks, grants, sweep | late, repeated and reordered events | access is paid, refunds revoke |
| Voice time, `achievements/*.js` | session rows, day ledgers, outbox, progress | webhooks, the engine | reordered webhooks, two devices | credit is the union of the time |
| Profile media, `profile/media*.js` | leases, images, revisions | reserve, finalize, grant, sweep | orphan sweep against a finalize | what a profile shows exists |
| Not modelled | | LiveKit adapters, RTC binding, voice enforcement, OBS broadcast and its capacity, the servers migration, rate limits, page followers and engagement, list paging, likers, reports of Voice Moments, reel probe, push, room and role administration, retention, profile projections | | see the end |

Components interact in four ways. By shared documents: an account deletion drops a
busy lock, a block bars a pair, a membership revision changes a fingerprint. By
outbox documents that trigger a worker: a hang-up writes
`directCallControlOutbox/{callId}`, the end of a generation a `sessionEnd` job, a
deleted comment a cleanup row. By paths in Storage that a document names. And by
calls to LiveKit, Stripe and Firebase Auth, which may fail, or succeed and lose
their answer. No lock is held across transactions but the leases and busy locks
that are themselves documents.

`PROJECT.json` lists every part with its status, the hazards with the line where
each bites and the properties that would notice it, and for every definition the
lines it stands for.

## The modules

    CallLines                      Generations              what is promised
        ^  refines                     ^  refines
    DirectCalls  <- DirectCallTokens   ServerSession        what the code does
        ^               ^                  ^
    MCDirectCalls   MCDirectCallTokens MCServerSession      instances for TLC

    MCMedia     DirectAttachments + ServerMedia, PageUploads, ProfileMedia, RoomCovers
    MCDeletion  AccountDeletion   + ServerRemoval, ClubDeletion, ReelLifecycle, Moments
    MCVoice     EmptyGrace        + Rooms, ClubVoice, PodcastEpisodes, Convergence
    MCCounts    ReportTriage      + SocialGraph, ServerAdmission, PagePosts, CommentNotices
    MCAccounts  AccountSecuring   + PremiumBilling, VoiceCredit, PageStanding, DirectMessages

    theorems about
    DirectCallsProofs          DirectCalls, DirectCallTokens
    ServerSessionProofs        ServerSession
    DirectAttachmentsProofs    DirectAttachments + PageUploads, PageStanding, DirectMessages
    AccountDeletionProofs      AccountDeletion   + RoomCovers, ServerRemoval,
                               ReelLifecycle
    EmptyGraceProofs           EmptyGrace        + PodcastEpisodes
    ReportTriageProofs         ReportTriage      + ServerAdmission, ProfileMedia
    AccountSecuringProofs      AccountSecuring   + PremiumBilling, ServerMedia,
                               Moments
    ConvergenceProofs          Convergence

All of them follow one rule: a Firestore transaction is serializable, so it is one
action with all of its writes; between two transactions, and around each call to an
outside service, everything else may happen.

### The suites

The modules of a suite share no documents: what a Reel's cleanup does and what an
account's deletion does meet only where one module says so by an action of its
environment. They are therefore not composed step against step. A suite module
EXTENDS one component, takes the others by INSTANCE with their own constants and
variables, and has one more variable `part`, chosen in the initial state and
never changed: the component (and the instance of it: two accounts and a slow
worker, or one account and a second request) whose steps this behaviour takes. A
suite asks one question of several components - are the bytes kept, is the removed
gone, who is in, are the numbers right, does an account get what it is owed - and
its properties are the conjunction of what each of them has to say about it. The
proofs are about the components, not the suites.

### DirectCalls

One variable per collection (the header of the module lists them), indexed by
call or account; absence of a document is a constant record. Every callable is an
action of its own name: `Start`, `Accept`, `Decline`, `Cancel`, `End`, and
`RecordSession` for the last transaction of the token handler.
`transitionDirectCall` is one function in the code with a branch for each
operation; its common writes (call, ledger, inbox row, ringing notification) are
`WriteTransition`, and the common end of a call with its lock release and
teardown job is `Finish`. `Cancel` on a call that was answered in the meantime
ends it, as the code does. `Expire` is one document of the minute sweep.

The teardown trigger is `Deliver`, `CloseRoom`, `DeleteSessions`, `CompleteJob`;
each of its three awaited calls may throw (`StepFails`, then `MarkRetrying`), and
the instance may die (`Crash`). Deliveries may overlap: the code takes no lease,
so a delivery that fails marks a job `retrying` that another one completed.

Account deletion is present with the parts that touch calls: `FreezeAccount`,
`RevokeAccount` (the lock and the mirrors of the account go, the call stays),
`EraseSignal` and `EraseNotifications`. `ToggleBar` stands for blocks,
restrictions and ended friendships.

*Time.* `now` counts ticks. A transaction compares expiries with
`Timestamp.now()` read at its start, and it commits later: `Readings` is the set
of values it may have seen, at most `MaxLag` ticks old. An accept can therefore
answer a call that lapsed meanwhile. The history variable `displaced`, which no step
reads, holds the live calls whose parties such an answer took; the properties of the
locks except them and nothing else, and hold for every `MaxLag`.

*Abstracted.* Rate limits (a refused request is a request never made), names,
photos, hashes; the two request forms of a video protocol are one flag
`acknowledges`. A replayed start writes again what is there and is a stutter. The
LiveKit room itself is not a variable: `CloseRoom` is the call that returns.

### DirectCallTokens

`createDirectCallToken` in full: the replay (`ReplayToken`) or the charge of an
attempt (`RequestToken`), the authorization and the signature (`MintToken`), and
the transaction that authorizes again, writes the mirror and the ledger and lets
the token out (`AnswerMinted`), or finds the token of a concurrent run
(`AnswerStored`). It EXTENDS DirectCalls and takes `CallNext` for the rest of the
system; `RecordSession` now only happens as the last step of a handler, and
`CallsSpec` says the calls still behave as the smaller module says they do.

### ServerSession

One channel, its generations (`session`), and everything by which an account can
get into or be kept out of one. `Start`, `End` (its writes are `StageEnd`, the
same for a manual end and for one staged by convergence), the token handler in two
transactions around the signature (`Preflight`, `Disclose`, with `Replays` as the
guard of a stored answer), the end worker (`ClaimPage`, `ClaimDelete`,
`RevokeOne`, `RevokeOneFails`, `Receipt`, `Prepare`, `Defer`, `EndRoom`, `Final`,
with `Lost`, `Fail`, `ReleaseLease`, `Crash`), and the reconcile of one identity
(`PlanRevocation`, `RevokeOnline`, `RevokeUnanswered`, `Acknowledge`, `Doubt`,
`RevokerCrash`). An account may be deleted at any time: `FreezeAccount`, then
`RevokeAccount`, which takes the mirrors of a recipient that is still active
(`account/stages.js:300-303`).

*The authority fingerprint* is the number `standing[u]`: a change of role, mute,
membership or ACL makes it a new one. `admitted` is what can bar an account
without touching a revision (a sanction). *The pages* of the worker follow the
order of recipient ids; accounts are therefore numbers, and `ClaimPage` takes the
last one of its page as a parameter. *LiveKit* is the set `usable` of tokens it
accepts; `removeParticipant` takes the tokens of an identity out of it, and one
whose answer is lost may or may not have done so.

*Time* is what each timer can do to the protocol: a lease lapses
(`LeaseLapses`), a reconnect barrier lifts (`BarrierLifts`) at any moment. Every
behaviour with real clocks is one of these. A token never expires on its own in
the model, so a token counts as usable longer than it is, never shorter.

*Left out.* Who may end a generation (anyone may, here), the public liveness
badge of the channel, rate limits, the OBS lease (only its effect, `Defer`) and
the budget of calls to LiveKit per page, which a page cannot exceed.
`Receipt` compares the job's cursor with its plan in the code; holding the lease
implies it.

### CallLines and Generations

`CallLines` is the telephone line as a user understands it: a call engages two
parties until it is over, no party twice, and only a ringing call is answered.
No clocks, locks or documents. A talk whose expiry has passed is already over,
whether or not the sweep has been there; a ring has `lapsed`, and may still be
answered, out of time (`AnswerLate`): the calls this meets are `crossed`, the abstract
counterpart of `displaced`. `Generations` is what a channel promises:
generations follow one another, admission only to the live one, and one is closed
only when nobody can join it any more. `ImplementsLines` and
`ImplementsGenerations` say that the detailed modules implement them.

### The components of the suites

Each row: what one instance of the module is, and what it leaves out. All of them
count deaths, failures or changes against a bound named in the module (`MaxCrashes`,
`MaxFailures`, `MaxStops`, `MaxChanges`, ...), which TLC needs and the proofs do not.

| Module | One instance is | Abstractions |
|---|---|---|
| `DirectAttachments` | one attachment: reservation, object, finalizer calls under one or several requests, message, expiry, cleanup rows, author's and staff removal | the kinds of media; a probe either accepts the object or does not |
| `ServerMedia` | the items of one channel; `Kind` selects company files, family memories or message media | a Storage rule is judged when the object is created; budgets, input validation, ledger replays, moderator roles and page sizes are left out; memories go with the server only |
| `PageUploads` | one owner's uploads for posts, with three sweepers | `GrowsOld`: an object is old enough for the orphan sweep after an hour, four lives of its reservation, when no publish that began before the expiry still runs; text posts, daily budgets, the capability gate are left out. Bytes may land after the rule admitted them |
| `ProfileMedia` | avatar or banner of one account | `overtaken` (history): uploads reserved again while work on their past is under way; the image that was replaced is deleted by the orphan sweep only, as in the code |
| `RoomCovers` | one room and its host | `revived` (history): requests that a late copy of their reserve reserved again after their finalize began; the schedule runs one instance |
| `AccountDeletion` | one account: outbox row, leases, workers, the Auth trigger | a stage is a number of pages of data; what a page erases is not modelled, except the social one in `SocialGraph` |
| `ServerRemoval` | one server: root, channels by id, content by phase, stored objects, deletion jobs, workers | documents of one kind are counted; collections emptied the same way are one phase |
| `ClubDeletion` | one Club id: creation, deletion by the owner and by staff, media, moderation | seat, token and connection are one step (`Joins`); capacity guards and page sizes are left out; `bygone` (history): a deletion of an earlier life of the id went on into this one |
| `ReelLifecycle` | one Reel with voice comments and its cleanup outbox | text comments, likes, feeds, quarantine of malformed rows |
| `Moments` | the shelf of one author, the comments and the cleanup outbox | comment likes, grants, audience; forgetting is judged while the account is active |
| `EmptyGrace` | one live generation on a clock of ages; sweep, webhook, release | the unit of time is the admission window (30 s); LiveKit does not extend a token |
| `Rooms` | one legacy room, its sessions, roster, mirrors and the room at LiveKit, which the first connection creates | creation limits, lounges, temporary rooms, staff mutes; minting and recording of a token are one step because recording judges again |
| `ClubVoice` | one Club, its members and voice rooms | the Club's lounge is room 1; attempt budgets and audit are left out; `MaxChanges` bounds dying calls too; `dropped` (history): people about whom a staff call died and none was begun since |
| `PodcastEpisodes` | one studio, its episodes, the leased job, the provider | `SlowWorkers`: a lease may be outlived; a refused start leaves its job retrying, as in the code |
| `Convergence` | one restricted channel: policy, standings, grants, one media generation and the jobs | mirrors and jobs with several targets |
| `ReportTriage` | one Reel, its comments, reports, moderators' requests and the audit log | arms of Pages and Voice Moments (`PagePosts`, `Moments`), GIFs; no override of a moderator who left |
| `SocialGraph` | people, their edges, counters, ledger and alerts, and the social stage of a deletion | verification, restrictions, the Pages branch of a follow; `astray` (history): counters that an erasing page changed for an edge which a peer removed meanwhile |
| `ServerAdmission` | one server's roster, ledger, invitations and pointers, with clock readings up to `MaxLag` old | quotas; grants are in `Convergence` |
| `PagePosts` | posts of one Page, reports, the desk, tombstones, evidence, the deletion of the owner | notices, report text, ledgers, replay of moderation |
| `CommentNotices` | one parent with comments, two triggers, receipts | a mute stands for every inactive account; one window of mentions |
| `AccountSecuring` | one account with its ledger row and registrations, the owner's call and the sweep | second factors, moved addresses, foreign identities, cursors and time budgets; `overtaken` (history): jobs under which the other worker wrote |
| `PremiumBilling` | one member: Stripe, the billing record, receipts, entitlement | checkout and portal sessions, price validation, partial refunds |
| `VoiceCredit` | people and sessions, the provider's room, webhooks, ledgers, the engine | half-second unit; host time, titles and other sources; webhooks come late, twice, reordered or never, within `FreshFor` |
| `PageStanding` | one Page with its five writers and the visibility index | at least one post; `missed` (history): lapses no sweep judged, or only under the brake, in the days their notice is due |
| `DirectMessages` | one conversation of two | every handler is one transaction behind its ledger, so a replay is a stutter; muting and typing |

## What TLC checks

| Run | Instance | Distinct states | Shows |
|---|---|---|---|
| `locks` | 3 accounts, 2 calls (one with a requestId), audio, ring 1 tick, talk 2, horizon 3, lag 1, one account may be deleted | 235 k | `OneLiveCall`, `LocksCoverLiveCalls`, `ProjectionsAgree`, `ImplementsLines` |
| `liveness` | 2 accounts, 1 call, 2 deliveries, horizon 2, lag 1, a deletion, a block | 8 k | `SessionsTornDown`, `CallsFinish`, `MediaReleased` |
| `stale` | as `locks` | stops at the counterexample | `NeverInTwoCalls` fails, see below |
| `replay` | 2 handler runs, 1 requestId or none, 2 kinds of input, 2 signatures | 220 k | `OneTokenPerRequest`, `TokenMatchesAnswer`, `TokensIndexed`, `LifecycleOrder`, `CallsSpec` |
| `session_safety` | 2 accounts, 2 generations, page of 1, in three kinds: 2 end workers and 1 reconcile, 2 epochs; 1 account with 2 revisions and sanctions, 2 reconciles, 2 requests, 3 epochs; the same with a deletion in place of sanctions | 1172 k | `GenerationsAgree`, `EndedLeavesNothing`, `ActiveHoldersIndexed`, `UsableTokensOnRecord`, `NoStrayRevocation`, `ReplaysStillWork`, `ImplementsGenerations`, `RevocationIsFinal` |
| `session_liveness` | 2 accounts, 1 generation, 2 workers, page of 1, standings that change | 59 k | `EndsAreFinished` |
| `media` | suite: one attachment with 3 finalizer calls and 2 requests; one channel of each kind of private media; 2 page uploads; 2 avatars, or one whose upload id is reserved again; a cover request beside a legacy cover, whose late copies arrive, or 2 requests | 2132 k | `AttachmentsSafe`, `ShownHasItsBytes`, `NothingIsForgotten`, `OneUploadOfAnOwner`, `GrantsHold` |
| `deletion` | suite: one account with 2 workers; a server with a studio or a shelf of files; a Club deleted by owner and staff under moderation and uploads, one id that lives twice, with calls that go on from one life into the next or with an image in each; one Reel with 2 workers; a shelf of 2 moments, or a moment with comments and a leaving author | 1037 k | `DeletionInOrder`, `GoneLeavesNothing`, `StandingIsKept`, `DeletionIsFinal` |
| `voice` | suite: a generation with 2 readers, once with the provider's events, once with releases; a room with one busy host or two overlapping calls; a Club that removes page by page, bans and resets, or both removes and bans, where any call may die; a studio with a listener, or with slow workers; a channel with 2 users where one command meets failures under 2 workers, two commands meet each other, or two meet a failing worker | 1244 k | `StandingDecides`, `RecordingsAreTrue`, `EndsAreJustified`, `StepsAreCurrent` |
| `counts` | suite: a Reel with 2 reporters and 2 moderators; 3 people with requests from before the ledger, or 2 or 3 of whom one leaves; a roster of 3, or of 2 with clocks that lag; 1 post with a comment, or 2 posts; a Yeel, or a Voice Moment whose audience changes | 700 k | `TriageIsTrue`, `NumbersAreTrue`, `StepsOnRecord` |
| `grace_occupied` | one person, the sweep and a release | stops at the counterexample | `NobodyInsideIsCut` fails, see below |
| `accounts` | suite: securing by one worker at a time, by both at once, and by both while devices register anew; one subscription, a pass beside it (every event delivered twice), a deleted account; two devices in two rooms or two people in one; a Page; an inbox, a thread with edits | 2531 k | `OldSessionsEnd`, `OwedIsTrue`, `StepsAreOwed` |

Why the bounds are enough for what the runs ask:

* Two calls can compete for an account in any order, and a third account is
  what makes one of them a call between different parties. A ring of one tick and a
  talk of two, with a horizon of three, lets a call lapse, another one take its
  parties and a late operation on the first one arrive.
* The teardown concerns one call; two deliveries are what it takes for one to
  overwrite the other. Two devices are the bound one and another one.
* Two handler runs and two signatures are the smallest case of two answers to one
  request; input by a device and by a legacy client tells answers apart.
* A page of one with two recipients gives a worker a middle page and a last page;
  two workers make a zombie and its successor; two generations, an old one whose
  worker is late and a new one it could hurt.
* Two reconciles and three epochs: a revocation in doubt, a re-admission, and a
  second revocation.
* In the suites, pages hold one document and there are two of them wherever code
  pages; two workers or calls wherever a lease can be outlived or a call overtaken,
  one where the code has no second; one death or failure at any point is what a
  resumed sequence has to survive, and two where a repetition may itself die.
  Where two questions about one component need different bounds, they are two
  instances of it.

Where the code is known to break a promise in one situation, that situation is in the
instance and not left out of it: the step that begins it writes a history variable,
which no step reads, and the property excepts exactly what the variable names. These
are `displaced`, `revived`, `overtaken`, `missed`, `astray`, `dropped` and `bygone`
above; the table of divergences says what each is about.

`CHECK_DEADLOCK FALSE` is set in the session configurations and the suites only:
once all ids are used up and the bounded counters are at their bounds, a channel,
a post or a deleted account may really have nothing left to do. In the call
configurations something can always happen, and deadlock is checked.

Every property has in `PROJECT.json` a mutant of the code under which TLC finds it
violated. A property of a suite is a conjunction with one mutant; each conjunct had
a mutant of its own when its component was written, on larger instances than the
suites have room for. On the instances of the suites these conjuncts are not known
to fail under a mutant: `NoGrantForOutsiders` (Convergence, where it is proved),
`NothingForgotten` (Moments and ReelLifecycle), `CountIsTrue` (ReelLifecycle),
`StateFollows` (PodcastEpisodes), `OneUploadAtATime` (RoomCovers) and
`NothingIsReplacedUnseen` (ProfileMedia).

### Documented properties the code does not have

`docs/Backend.md:60-61` says that the locks "allow one ringing/active call per
account". The run `stale` shows two live calls of one account. An accept reads
`Timestamp.now()` at the start of its transaction and overwrites both locks
without reading them (`direct_calls.js:984`, `:1163-1172`). When the call lapses
between the reading and the commit, and another call of one of its parties was
started in between on a lock that had lapsed, the accept brings the old call back
to life. Nothing else does: of two live calls of one account one was displaced by
such an answer (`OneLiveCall`, checked in `locks` and proved for any lag), and where
readings are those of the commit nobody is in two calls (`OnlyLateAnswersCross`).

`docs/SECURITY.md:301-303` says that the settings of the empty grace "end generations
sooner without ever ending one somebody is in", and `:317` that a release "can only
ever end an empty room". The run `grace_occupied` shows the contrary: the code asks
LiveKit who is in the room and then runs a transaction that looks at documents only
(`session_staleness.js:329`); somebody whose token was issued before connects in
between. What does hold is `EndsAreJustified`: nobody is cut off who was *admitted*
within the grace.

### Further divergences met while modelling

While the components were written, TLC found other places where the code does not
do what a comment, a document or a test of the repository says. The models keep the
code's behaviour; the properties are stated for what does hold. They are not among
the runs, which ask one question each; a reader who works on one of these parts
should know them.

| Where | What happens |
|---|---|
| `servers/content_cleanup.js:1212` | a storage page whose file another job removed advances the phase without clearing its expired lease; later pages require none, so the deletion stops (`docs/Servers.md:489`: "resumable") |
| `servers/content_cleanup.js:1489` | a server transferred while a channel is being deleted: no page of that deletion is accepted any more |
| `servers/content_cleanup.js:873` | a studio with two episodes, the older one first in document order, is never drained |
| `servers/management.js:337` | removing a banned member deletes the document that keeps the ban (`:196-198`) |
| `servers/channels.js:286` | archiving a restricted channel leaves every grant but the actor's stale (`docs/Servers.md:494`: "retains authorized history") |
| `servers/podcast_episodes.js:838` | a recording that completed before its start was acknowledged is found and refused again and again |
| `servers/message_media.js:766` | a prefix run that dies between objects and index rows leaves the rows |
| `account/stages.js:356`, `:402`, `:434` | the social stage decrements a peer's counter for an edge the peer just removed, never gives back the ledger's pending counts, and leaves alerts, although `:354` means to prevent such drift (`SocialGraph!astray`) |
| `account/stages.js:322` | voice comments of others on a removed Moment lie under none of the deleted account's prefixes |
| `account/deletion.js:502`, `profile/public_profiles.js:543` | a merge after the deletion creates the profile again; the Auth trigger may complete a row whose last stage never ran |
| `admin/messages.js:445` | a message removed by staff no longer validates, and read cursors cannot pass it |
| `premium/stripe_billing.js:2314`, `:2178`, `:2022` | a resubscription may be cancelled as a duplicate; a stale retrieve may restore access; a refund delivery may be acknowledged without effect |
| `rooms/participants.js:737`, `:1198`, `:744` | an old leave's marker ends a room that started again; a mute before the connection does not reach a minted token; a token presented after an end has neither row nor mirror |
| `rooms/covers.js:1032` | a late copy of a finalized reserve request leads the sweep to the live cover (`RoomCovers!revived`) |
| `clubs/voice.js:81`, `:92`, `clubs/members.js:246` | a reset closes while somebody is connected, or closes a later owner's; a staff removal that dies is answered by an older operation (`ClubVoice!StaffOwes`) |
| `clubs/deletion.js:333`, `:323`, `admin/clubs.js:422` | a merge recreates an erased root or room (a `husk` in `ClubDeletion`); images no URL names stay |
| `profile/media_cleanup.js:93` | the expiry deletes an object that was reserved again and published in between (`ProfileMedia!overtaken`) |
| `profile/media.js:943` | the second transaction of a finalize checks neither `createdAt` nor the object again: an upload that expired and was reserved again in between is published without its object |
| `pages/moderation.js:287`, `pages/lapse_service.js:80`, `pages/lifecycle.js:247` | a hold outlives its review; a Page is hidden without its second warning after a brake or a week without sweep (`PageStanding!missed`); a Page created during a rename keeps the old name |
| `moderation/reports.js:631` | a repeated claim after a later action of the same moderator is refused although it was applied |
| `moments/integrity.js:1318` | a receipt shown again is not renewed and may lapse before a report |
| `notifications/engagement.js:320`, `:332` | a row that was read meanwhile, or whose receipt expired, outlives its comment |
| `achievements/voice_webhook.js:195` | a stay within one second has its leave before its join and is billed to the end of the room |
| `auth/federated_takeover.js:592`, `:529`, `:604` | a sweep may end sessions twice and purge a renewed device (`AccountSecuring!overtaken`); a call that dies after the unlink without a row is not resumed |

### Fairness

`DirectCalls`: time passes; the sweep runs every minute and handles each lapsed
call in the end (`WF` of `Expire`). The teardown trigger is registered with
`retry: true`, so an event is redelivered while deliveries fail: strong fairness of
`Deliver` and of the success of each of its steps, which says that LiveKit and
Firestore do not fail every time for ever. No fairness is assumed of anything a
user does; a call ends through its expiry alone.

`ServerSession`: a pending job is claimed while it can be (the trigger is retried
and a schedule looks for leftovers), leases lapse, an invocation in progress gets
some answer; and of the invocations that keep being started some keep their lease
through LiveKit's answers (strong fairness with `Holds`). A recipient is removed
in the end (`SF` of `RevokeOne` by a worker that holds the lease). `Prepare` with
strong fairness assumes that OBS leases do not defer a deletion for ever. The run has
pages of one: with several recipients in a page, success of each on its own does
not make a page succeed as a whole, and the code only moves on when it does; the
fairness that would be needed (a whole page succeeds infinitely often) is then a
different one.

The suites state safety only. What would have to happen in the end is there the
question whether something still leads to it: a job, a row, a reservation that a
sweep will find (`NothingIsForgotten`, `StandingDecides`, `GoneLeavesNothing`).

## What is proved

Assumptions are those of the modules, all about the constants; TLC evaluates them in
the runs. A proof module EXTENDS one component and may take others by INSTANCE; the
theorems about those carry the assumption on their constants as a hypothesis, and
`InstancesAreLegal` of the suites evaluates it for the instances TLC explores. The
sets of accounts, calls, sessions, workers, comments, registrations and the bounds are
arbitrary. Where a set has to be finite (comments and requests of a Reel, the
registrations of a device) the module says so, because the code counts or pages it.
Values that stand for "nothing" (`Nil`, `"none"`) are assumed not to be members of the
sets they stand beside.

`DirectCallsProofs`:

| Theorem | Property | Argument |
|---|---|---|
| `TypeCorrect` | `TypeOK` | inductive as it stands |
| `AccountsAreExclusive`, `LocksFollowCalls` | `OneLiveCall`, `LocksCoverLiveCalls`, any lag | see below |
| `OnlyLateAnswersCross` | `NeverInTwoCalls`, with `MaxLag = 0` | then no answer displaces anything |
| `TeardownLeavesNoSession` | `SessionsTornDown`, any lag | `SessionsInductive`: the job follows the status, mirrors need an answered call; a delivery past `deleteSessions` works on a call that is over, whose mirrors nobody writes again |
| `CallsOnlyAdvance` | `LifecycleOrder` | from the guards and the types |
| `ClientsSeeTheCall` | `ProjectionsAgree` | ledger, row and bells are written with each transition; inductive |
| `CallsImplementLines` | `ImplementsLines`, any lag | `CallStep`: each action is `Ring`, `Answer`, `AnswerLate`, `Over` (a tick may end or lapse several calls) or a stutter of the abstract module, under the inductive invariant |

`OneLiveCall` is not inductive: that a new call is alone follows from the locks
that refused it otherwise. `LocksInductive` therefore carries it together with
`LocksCoverLiveCalls` and the fact that every call has two different accounts for
parties. The locks alone are not enough either, since a frozen account has lost
its lock while its call is still live. What helps is that `Start` and `Accept`
require both accounts to be usable: a usable party of another live call that was not
displaced holds a lock that `Start` finds active at any reading (`LiveCallBlocks`).
An accept asks no lock; the live calls it meets are displaced from then on, and both
of its own locks are new (`AcceptKeepsLocks`).

`ServerSessionProofs`:

| Theorem | Property | Argument |
|---|---|---|
| `TypeCorrect` | `TypeOK` | with the parts that keep the records of workers in their types |
| `GenerationsNeverOverlap` | `GenerationsAgree` | with `LeasesArePending`: a lease is only held on a pending job, so a worker that still `Holds` one works on a generation that is ending, and a zombie fails at `Final` |
| `TokensAreOnRecord`, `RevocationsHitOnlyTheirs` | `UsableTokensOnRecord`, `NoStrayRevocation` | `TokensInductive`: an attempt in progress is the one recorded at its recipient, which is not active as long as the attempt is there (`AttemptsOwned`); a reconcile that will acknowledge, and a pass for each recipient it got an answer for, has cut every token of that account (`AttemptsCut`, `PassesCut`); a pass works on a generation that is not live any more, so nothing is issued behind it |
| `EndsAreComplete` | `EndedLeavesNothing` | `CleanupInductive`: roster entries and mirrors have a recipient with the same authority (`DocumentsMatch`), so the receipt's comparison removes them; every recipient at or before the cursor is revoked and cleared, and the checkpoint means there is none after it (`CursorSound`); the page of a pass that has the lease is everything between the cursor and its top (`PassSound`) |

The delicate step is the receipt of a pass. It compares roster entries and mirrors
with the authority its claim saw; the proof needs that nobody can change that
authority once the generation ends (`QuietSteps`), that a reconcile which
acknowledged meanwhile only made the recipient revoked, and that two passes with
the same page never both hold the lease.

And, in the same module, on the invariants above (`SessionsSound`):

| Theorem | Property | Argument |
|---|---|---|
| `ChannelImplementsGenerations` | `ImplementsGenerations` | `AccessSteps`: only a start, an end, a final step, a disclosure and a cut touch the generations or the tokens; they are `Open`, `Stage`, `Close`, `Admit`, `Expel`. `Close` needs that nobody is left: a worker in its last phase has a checkpointed job, so every recipient is revoked and none has a usable token (`FinalFindsNobody`) |
| `HoldersAreIndexed` | `ActiveHoldersIndexed` | a roster entry or mirror is only removed together with the revocation of the recipient it belongs to (`RemovedWithRevocation`), but for the mirrors of an account that is frozen and stays so, and a disclosure in one generation finds no roster entry of another |
| `StoredAnswersWork` | `ReplaysStillWork` | `ActiveMeansUsable`: whoever is active can use the token of that epoch, because a removal on its way is never of somebody active: a pass fenced its page first (`PagesFenced`) and a reconcile has its attempt on the recipient (`CutsSpareTheActive`) |
| `RevocationsAreFinal` | `RevocationIsFinal` | `KeptSteps` and `EpochsGrow`; a first token has epoch 1 because a recipient without a document has none (`FreshEpochs`) |

These four are proved over the conjunction `AccessInductive`: that the holder of an
active token is indexed helps to prove that no removal hits it, and the other way
round.

And, about the token handler, in `DirectCallsProofs`:

| Theorem | Property | Argument |
|---|---|---|
| `TokenTypeCorrect` | `TokenTypeOK` | with the types of the calls |
| `TokensImplementCalls` | `CallsSpec` | `TokenStepIsCallStep`: the last transaction of a run is `RecordSession`, every other step of the handler leaves the documents of the calls alone |
| `RetriesShareOneToken` | `OneTokenPerRequest` | `AnswersInductive`: an answer is what the ledger of its request holds, a ledger is written once and is its owner's, and a run signs what it was asked for |
| `TokensGrantTheAnswer` | `TokenMatchesAnswer` | a token that is held by a run or was let out is `Granted`; grants last (`GrantsLast`), since an answered call is never negotiated again |
| `TokensCanBeRevoked` | `TokensIndexed` | a mirror of a live call is only removed for an account that is frozen (`MirrorsOutliveCalls`), and frozen accounts stay frozen |

The last two use what is proved of the calls through `TokensImplementCalls`, so
nothing about the calls is proved twice.

About the components of the suites, first those that the proof modules are named for:

| Theorem | Property | Argument |
|---|---|---|
| `AttachmentsAreSafe` | `AttachmentsSafe` | see below |
| `EndsStayJustified` | `EndsAreJustified` | see below |
| `NobodyIsForgotten` | the component's `NobodyForgotten`, a part of `StandingDecides` | see below |
| `GrantsConverge`, `OutsidersHoldNoGrant` | the component's `GrantsAreExact` and `NoGrantForOutsiders`, parts of `StandingDecides` | see below |
| `TriageStaysTrue` | `TriageIsTrue` | see below |
| `TombstonesAreStable` | the component's `TombstoneIsStable`, a part of `StepsOnRecord` | a moderation looks at the root in its own transaction |
| `DeletionStaysInOrder` | `DeletionInOrder` | see below |
| `StagesNeverGoBack` | the component's `StageNeverBack`, a part of `DeletionIsFinal` | a report of a worker that lost the row is refused, and who holds it is not behind it (`HolderLeads`) |
| `OldSessionsStayEnded` | `OldSessionsEnd` | see below |
| `VerifiedPasswordsStay` | the component's `VerifiedStays`, a part of `StepsAreOwed` | whoever takes a password read one that nobody had verified, and nobody verifies it any more without ending the sessions first (`Verdict`) |

Each module has a `TypeCorrect` too. And about the components taken by INSTANCE, where
a property is a part of the suite property in brackets:

| Theorems | Properties of the component | Under |
|---|---|---|
| `AccountSecuringProofs`: `AccessAlwaysPaid`, `AccessAlwaysRevocable`, `RefundedAlwaysRevoked`, `DeletedNeverHasAccess`; `RefundsTakeTheirOwn`, `PassesGrantOnce` | all of `PremiumBilling` (`OwedIsTrue`; `StepsAreOwed`) | `BillingAssumption` |
| `AccountSecuringProofs`: `PrivateMediaStays`, `NothingPrivateIsLeft`, `LiveUploadsHoldTheLease`, `SignedLinksStillHold` | all of `ServerMedia` (`ShownHasItsBytes`, `NothingIsForgotten`, `OneUploadOfAnOwner`, `GrantsHold`) | `ServerMediaAssumption` |
| `DirectAttachmentsProofs`: `PublishedMediaStays`, `UploadsOneSetAtATime` | all of `PageUploads` (`ShownHasItsBytes`, `OneUploadOfAnOwner`) | `PageUploadsAssumption` |
| `DirectAttachmentsProofs`: `PagesShowTheirStanding`; `LapsesAreLive` | `IndexAgrees`, `PrivacyHolds` of `PageStanding` (`OwedIsTrue`); `LapseIsLive` (`StepsAreOwed`) | `StandingAssumption` |
| `DirectAttachmentsProofs`: `OwnersAreWarned` | `HiddenWasWarned` of `PageStanding` (`OwedIsTrue`) | `StandingAssumption` |
| `DirectAttachmentsProofs`: `InboxStaysTrue`; `InboxStepsHold` | all of `DirectMessages` (`OwedIsTrue`; `StepsAreOwed`) | `MessagesAssumption` |
| `AccountDeletionProofs`: `CoversStaySound`, `CoversUploadOneAtATime`, `GrantsShowTheCover` | all of `RoomCovers` (the same four) | `RoomCoversAssumption` |
| `AccountDeletionProofs`: `RemovalsLeaveNothing` | all of `ServerRemoval` (`GoneLeavesNothing`, `StandingIsKept`) | `RemovalConstantsAssumption` |
| `AccountDeletionProofs`: `ReelsAreKeptAndCleaned`; `ReelDeletionsAreFinal` | all of `ReelLifecycle` (`GoneLeavesNothing`, `StandingIsKept`; `DeletionIsFinal`) | `ReelAssumption`, finitely many comments |
| `AccountSecuringProofs`: `MomentsStayTrue`; `DeletedMomentsStay` | all of `Moments` (`GoneLeavesNothing`, `StandingIsKept`; `DeletionIsFinal`) | `MomentsAssumption` |
| `ReportTriageProofs`: `ShownImagesStay`, `ReplacedImagesWereSeen`, `GrantedImagesAreShown` | all of `ProfileMedia` (`ShownHasItsBytes`, `OneUploadOfAnOwner`, `GrantsHold`) | `ProfileMediaAssumption` |
| `ReportTriageProofs`: `RostersStayTrue`, `InvitationsStayOutside`; `StandingsStayNumbered`, `BrokenInvitationsAdmitNobody` | all of `ServerAdmission` (`NumbersAreTrue`; `StepsOnRecord`) | `AdmissionConstantsAssumption` |
| `EmptyGraceProofs`: `StudioStaysTrue`; `PlaybackIsCurrent` | `StateFollows`, `StopStays` of `PodcastEpisodes` (`RecordingsAreTrue`); `GrantIsCurrent` (`StepsAreCurrent`) | `PodcastAssumption` |
| `EmptyGraceProofs`: `RecordingsNeverStrand`, `OneRecordingPerEpisode`, `MediaAlwaysRecorded`, `GoneStaysGone` | the other four of `PodcastEpisodes` (`RecordingsAreTrue`) | and `~SlowWorkers`, `None \notin Workers` |

Each comes with the theorem that its strengthening is invariant and with one of type
correctness, or has the type invariant among what it states. One of these hypotheses says
more than that a set is what it is called.
`~SlowWorkers` of `PodcastEpisodes`: a worker ends or dies before its lease does,
which is what the lease is for; `StateFollows`, `StopStays` and `GrantIsCurrent` need
not even that and are proved without it. `MCVoice` runs both kinds of workers.

*An attachment.* The promises do not say who may still take the object away.
`Documents` says which documents can stand together: a cleanup row of the reservation
only without a message, one of the message only with a deleted one, a message only
with a reservation that is gone. `Credit` says that at most one request committed, and
that one did if there is a message; with `AtMostOne` that is the bound on the ledger.
`CallsRely` is what a finalizer call may rely on between its steps: a reservation that
is still open protects the object it checked, and after its commit there is a message.

*The empty grace.* The steps that end a generation look at documents only. What ties
these to LiveKit is the invariant: nobody was admitted later than the bound on the
session says (`AdmittedBeforeBound`), no token outlives that bound
(`TokensWithinBound`), and an invocation on the stale path whose reading still stands
has the last admission long behind it and, once it looked, nobody in the room
(`StaleReadings`).

*Convergence.* `NobodyForgotten` names a pending job in front of a holder whose token
is out of date; nothing in it stops an invocation that is on that job from carrying the
cursor past the holder. `Remembered` adds what each such invocation still `Minds`: it
skipped somebody and will leave the cursor where it is, it has the holder on its page,
or its page ends before the holder. That a page which ends early is a full one, and that
a page without the holder ends before the holder, are `PageIsFirst` and `LastIsLast`;
they rest on the order of document ids, whose minima come from well-foundedness in the
library. `Flights` says that a removal under way is of a recipient in revocation and of
one invocation only, so its answer settles nobody who got a token meanwhile;
`FinalsWait`, that an invocation which skipped its page says so. For the grants,
`Owed` holds between the quiet moments `GrantsAreExact` speaks of: a grant that is not
what the policy says is owed by a job in front of it, or by the transfer that changed the
standing; `Dated` says that no grant is ahead of the revisions, which is why a new
revision makes every older grant void. TLC checked this invariant before it was proved.
The bounds of the module are parameters, so the theorems hold for all of them; the
assumption on the constants is a hypothesis of each theorem, and `InstancesAreLegal` of
`MCVoice` evaluates it for the instances.

*Reports.* The promises leave out what a step relies on: a comment is there exactly
from its writing to its removal (`Lives`); a report is about something that was
written, a request about a report that was filed, an audit row about a request that was
made (`Grounded`); whoever deleted a comment by a request has the audit row (`Signed`);
a tombstone has no counter (`Tombless`). The counter is a cardinality, so the proof
uses the library's theorems about finite sets.

*The deletion of an account.* A worker walks stages in its own memory, and its lease
may be taken over meanwhile. The invariant is about that memory: the stages a worker
has behind it are empty whoever holds the row now (`BehindIsEmpty`), who holds the row
is not behind it (`HolderLeads`), status, holder and budgets of the row fit
(`RowAgrees`), and what the Auth trigger read before its transaction still counts in it
(`TriggerCarries`). A report of a worker that was overtaken is refused, which is what
keeps the stage from going back.

*The deletion of a server.* A cleaner goes through the phases of a channel page by page and
reports afterwards, while others still use what is left. A channel that a job is on is
`Fated`: nobody writes to it any more, so what a page found empty is empty when it reports
(`RemovalWorker`). `RemovalJobs` says how the two kinds of jobs share the channels: the job of
a server works on those only that have no job of their own; `RemovalMedia`, that a job waits
for each media generation its command found; `RemovalKnown`, that a document names whatever
lies outside Firestore, so that a channel without documents left nothing (`RemovalGone`).
The run has one channel, the theorem any number.

*A Reel.* Its outbox row may be claimed, abandoned and claimed again at any step, so the
argument is about what has no way back. A row is written only when what it removes is already
out of use (`ReelRowsFit`), and whatever is stored is named by a document that leads to such a
row (`ReelNamed`). A worker that was overtaken still deletes what it listed; that is harmless
because no step undoes what its listing found (`Keeps`, proved once of every action, and what
`ReelWorker` rests on).

*A shelf of Voice Moments.* A finalizer commits by checks made before its call to Storage:
`MomentBegun` is what those are still worth at the commit (the object is there as long as the
draft or the reservation is; the ages it saw are not ahead of the clock, so the capacity it
counted is not below the present one). A worker of the outbox deletes by a page it read
before: what the page left out is behind the cursor or behind a full page (`MomentPage`, from
`LowestOf`, which the pages of a purge use too), and nobody puts back a comment of a moment
that is being removed (`MomentKept`). The counts are cardinalities again.

*Securing.* Two calls work on one ledger row and one Auth record without a lock
between them. `Past(e)` says that the epoch `e` lies after every session and every
registration of the older password; the invariant says it of every epoch that the
record, the row or a call under way carries (`Epochs`, `CallRelies`), that the pages a
purge has behind it hold no such registration although they are read before they are
deleted (`Purges`, `PageLeads`), and that whoever takes a password away read one that
was never verified (`Verdict`). `Shares` is what no step of anybody undoes; each call's
part is stable under it, so the steps of one worker need not be looked at again in the
proof about the other. That a page is the lowest registrations there are needs minima of
finite sets, which come from well-foundedness in the library (`MinimalSet`, `Smallest`,
`PageIsLowest`).

*Paid access.* The provider changes its records on its own, and reports them late, twice
or out of order. `Collected` says that what the provider calls paid, and what a handler read
of it earlier, was charged; `Entitled`, that access names its window and, bought as a pass, a
purchase that was applied; `Refunding`, that a refund is of something that was charged, whose
payment is at risk before its receipt exists; `OneReader`, that no two handlers hold one event.
That subscriptions and passes have different ids, and neither is `"owner"`, is an assumption
on the constants that the proof needed (`sub_...` and `cs_...` in the code).

*Media.* The four components with objects in Storage have one shape of argument. Sweepers
delete by what they read earlier, without a lock, beside a client that creates objects. What
each relies on is something that no step undoes: of private media, that the upload is over
and no row shows it (`Settled`); of a Page post, that no call of publish works on the set any
more (`Closed`); of a profile image that was not `overtaken`, that the upload is used up (`Spent`) or may
still be finalized (`Alive`), and that the revision counts the finalized uploads, so that a finalize
that checked an older one is refused (`ImageRevisions`); of a cover, that only a `revived` request
is reserved again once it was finalized (`CoverRequest`) and that a room, as it is and as a call read it,
shows finalized requests only (`CoverRoom`). With that the sweepers' notes stay true whatever
happens after they were taken (`MediaExpirer`, `MediaWorker`, `MediaTear`, `PageOrphans`,
`ImageSweep`, `CoverSwept`). The sweep of a prefix knows no items: `MediaStand` says that no
row is left when its phase begins, and what it did not list has no bytes unless it is
reserved.

*A roster.* `Counted` says that the counter is a cardinality, with the library's theorems
about finite sets; `InvitationsAreDated`, that an open invitation carries a revision its
inviter had, and an older one than the present if the standing changed since, so that an
inviter who lost the role and got it back does not match it.

*The standing of a Page.* The sweep decides by reads of its own and commits later. What it
commits is decided again in the transaction, so the decision need not be right; it is enough
that the Page and its entry are only written together (`StandingWritten`), which is what
makes the index agree. The notice needs more: `StandingWarned` says that a Page old enough to
be hidden, and at the age of the notice one the sweep has judged, had the warning about the
lapse it is in, or that this lapse was `missed`.

*A thread.* Three cursors move apart: the public one, the one a reader who hides receipts
advances instead, and the cut-off. `ThreadCursors` bounds them by the thread and by each
other; `ThreadSecret` puts what was read in secret behind the cursor that the next page of
receipts starts from; `ThreadBadge` bounds a badge by the peer's messages after the cut-off
(a cardinality, with the library's theorems: a send adds one, a page read or a deletion takes
as many as it passes); `ThreadRevived` says who deleted a thread and sees it again.

*Recordings.* Between a start at the provider and its acknowledgement the provider records
and no document says so. `PodKept` says that there is at most one recording a job could still
adopt (`Adoptable`), that a job which monitors or stops names it, and that an episode with a
recording under way has a job; `PodHeld`, that a worker with the lease works on the action and
the recording the job has, so no two of them start; `PodSeen`, that what a listing or an
answer said is still so as far as it matters; `PodSwept`, that the cleanup takes an object
only when the job of its episode is gone.

So every safety property and refinement that the runs of `DirectCalls`,
`DirectCallTokens` and `ServerSession` check is also proved, for any number of
accounts, calls, generations, workers, handlers and requests. Of the suites the same holds
of the component each extends, of the convergence of one channel and of the twelve components
in the second table: of `MCMedia` this is every conjunct of every property, of `RecordingsAreTrue`
too, except that its four last conjuncts are there checked and proved only of workers within
their leases, and of `OwedIsTrue` and `StepsAreOwed` all but the conjuncts about `VoiceCredit`
(and two about overlapping workers, see below).

### Only model-checked

* Liveness: `CallsFinish`, `MediaReleased`, `EndsAreFinished`. Liveness under
  fairness, and `ENABLED`, are out of TLAPS's reach.
* The conjunctions of the suites as such. A suite is a fixed instance, so a theorem about it
  would say no more than its run does; what is proved is proved of the components, for every
  value of their constants.
* What the suites say of `Rooms`, `ClubVoice` (`StandingDecides`, `StepsAreCurrent`),
  `ClubDeletion` (`GoneLeavesNothing`, `StandingIsKept`, `DeletionIsFinal`),
  `SocialGraph`, `PagePosts`, `CommentNotices` (`NumbersAreTrue`, `StepsOnRecord`),
  `VoiceCredit` (`OwedIsTrue`). They need inductive invariants of their own.
* `SessionsEndOnce` and `NewPasswordStays` of `AccountSecuring`, with the exception of jobs
  `overtaken` by the other worker.

Induction over data, which these provers cannot do, comes up in one place: the balance of
`VoiceCredit` is a sum over records (`CreditIsTheUnion`, `CountedOnce`), a fold over a set
of any size. It would come up also with the rate limiter.

## What is not modelled, and the plan

Not modelled, with the reason at each component in `PROJECT.json`: adapters of outside
services (`livekit/control.js`, push delivery, the reel probe), single-transaction
staff tools, projections with one writer, reads without state of their own (list
paging, who liked), the one-time migration, the OBS broadcast and its capacity counter
(only its effect on a session's end, `Defer`), voice enforcement, RTC binding, followers
and engagement of Pages, receipts of shown Moments, and the sliding-window rate limits of
`integrity/guards.js`, which are over-approximated everywhere: a refused request is a
request never made.

Next, in this order:

1. Proofs of more suite parts, the ones whose failure costs a user most first: who is in a
   room (`Rooms`), the counts of followers and friends (`SocialGraph`).
2. The abstract specification of a leased outbox (claimed by one, finished by whoever
   holds it, resumable), which `AccountDeletion`, `ServerRemoval` and `ReelLifecycle` each
   implement in their own way.
3. The OBS lease and the capacity counter, composed with `ServerSession` in place of
   `Defer`.
