----------------------------- MODULE ServerSession -----------------------------
(***************************************************************************)
(* The media generations of one server channel: functions/servers/         *)
(* sessions.js, session_control.js, session_authority.js and the staging   *)
(* writer of convergence_lifecycle.js.                                     *)
(*                                                                         *)
(*   session    channelSessions/{sessionId} (its status)                   *)
(*   active     the channel's activeSessionId                              *)
(*   room       rooms/{roomId}: voiceSessionId and serverSessionCleanupId  *)
(*   recipient  channelSessions/{sessionId}/tokenRecipients/{uid}          *)
(*   roster     rooms/{roomId}/participants/{uid}                          *)
(*   mirror     activeVoiceSessions/{uid}/rooms/{roomId}                   *)
(*   receipt    the token operation's ledger, by request and account       *)
(*   job        serverControlOutbox, the sessionEnd job of a generation    *)
(*   worker     processServerSessionEndPage invocations in progress        *)
(*   revoker    reconcileServerSessionParticipant invocations in progress  *)
(*   handler    createServerChannelTokenV1 invocations in progress         *)
(*   standing   the revisions an account's authority fingerprint is made of*)
(*   admitted   the accounts no sanction or ACL keeps from joining         *)
(*   frozen     the accounts whose deletion has begun                      *)
(*   usable     the disclosed tokens LiveKit still accepts                 *)
(*                                                                         *)
(* A transaction is one step.  Time is abstracted to what each timer can   *)
(* do to the protocol: a lease lapses and a reconnect barrier lifts at any *)
(* moment, and a token stays good until LiveKit is told to cut it off.     *)
(***************************************************************************)
EXTENDS Integers, FiniteSets

CONSTANTS
  Users,        \* accounts, numbered in the order of their recipient ids
  Sessions,     \* session ids, each used by one start
  Workers,      \* concurrent invocations of the end-page worker
  Revokers,     \* concurrent invocations of the per-identity reconcile
  Handlers,     \* concurrent token requests
  Requests,     \* client request ids, each scoped to the account that sends it
  PageSize,     \* recipients in a page of the end job
  MaxRevision,  \* bound: how often the standing of an account changes
  MaxEpoch,     \* bound: how often a recipient is revoked on its own
  MaySanction,  \* the accounts that may be sanctioned
  MayFreeze,    \* the accounts that may be deleted
  None          \* absence of a document, a pointer or a lease

ASSUME SessionConstantsAssumption ==
  /\ Users \subseteq Nat \ {0}
  /\ None \notin Sessions \cup Workers \cup Revokers
  /\ PageSize \in Nat \ {0}
  /\ MaySanction \subseteq Users
  /\ MayFreeze \subseteq Users
  /\ MaxRevision \in Nat
  /\ MaxEpoch \in Nat

VARIABLES session, active, room, recipient, roster, mirror, receipt, job,
          worker, revoker, handler, standing, admitted, frozen, usable

pointers == <<session, active, room>>
ledgers == <<recipient, roster, mirror, receipt>>
runs == <<worker, revoker, handler>>
vars == <<pointers, ledgers, job, runs, standing, admitted, frozen, usable>>

--------------------------------
SessionOrNone == Sessions \cup {None}
Revisions == 0 .. MaxRevision

Attempt == [by : Revokers, epoch : Nat,
            state : {"pending", "uncertain", "acknowledged"}]

Recipient ==
  [state : {"none", "active", "revoking", "revoked"}, epoch : Nat,
   authority : Revisions, cooling : BOOLEAN, attempt : Attempt \cup {None}]

NoRecipient == [state |-> "none", epoch |-> 0, authority |-> 0,
                cooling |-> FALSE, attempt |-> None]

Token == [session : Sessions, user : Users, epoch : Nat]

Entry == [session : Sessions, authority : Revisions]

Access == [session : Sessions, authority : Revisions, epoch : Nat]

Job == [status : {"none", "pending", "completed"}, cursor : Nat,
        lease : Workers \cup {None}, expired : BOOLEAN, checkpoint : BOOLEAN]

NoJob == [status |-> "none", cursor |-> 0, lease |-> None, expired |-> FALSE,
          checkpoint |-> FALSE]

Idle == [phase |-> "idle"]

EndPass ==
  [phase : {"revoke", "prepare", "endRoom", "final", "fail"}, session : Sessions,
   page : SUBSET Users, top : Nat, seen : [Users -> Recipient],
   todo : SUBSET Users, failed : BOOLEAN, last : BOOLEAN]

Reconcile == [phase : {"provider", "acknowledge", "doubt"}, session : Sessions,
              user : Users, epoch : Nat]

Minted == [phase : {"minted"}, session : Sessions, user : Users,
           request : Requests, authority : Revisions, epoch : Nat]

ASSUME NoneIsNoDocument == None \notin Attempt \cup Entry \cup Access

TypeOK ==
  /\ session \in [Sessions -> {"none", "live", "ending", "ended"}]
  /\ active \in SessionOrNone
  /\ room \in [live : SessionOrNone, cleanup : SessionOrNone]
  /\ recipient \in [Sessions -> [Users -> Recipient]]
  /\ roster \in [Users -> Entry \cup {None}]
  /\ mirror \in [Users -> Access \cup {None}]
  /\ receipt \in [Requests -> [Users -> Access \cup {None}]]
  /\ job \in [Sessions -> Job]
  /\ worker \in [Workers -> EndPass \cup {Idle}]
  /\ revoker \in [Revokers -> Reconcile \cup {Idle}]
  /\ handler \in [Handlers -> Minted \cup {Idle}]
  /\ standing \in [Users -> Revisions]
  /\ admitted \subseteq Users
  /\ frozen \subseteq MayFreeze
  /\ usable \subseteq Token

Init ==
  /\ session = [s \in Sessions |-> "none"]
  /\ active = None
  /\ room = [live |-> None, cleanup |-> None]
  /\ recipient = [s \in Sessions |-> [u \in Users |-> NoRecipient]]
  /\ roster = [u \in Users |-> None]
  /\ mirror = [u \in Users |-> None]
  /\ receipt = [q \in Requests |-> [u \in Users |-> None]]
  /\ job = [s \in Sessions |-> NoJob]
  /\ worker = [w \in Workers |-> Idle]
  /\ revoker = [r \in Revokers |-> Idle]
  /\ handler = [h \in Handlers |-> Idle]
  /\ standing = [u \in Users |-> 0]
  /\ admitted = Users
  /\ frozen = {}
  /\ usable = {}

--------------------------------
(* Generations *)

\* Mutant of Startable: the channel pointer alone says that nothing runs.
StartableByPointer(s) == session[s] = "none" /\ active = None

\* The channel is idle and no earlier generation still needs its cleanup.
Startable(s) ==
  /\ session[s] = "none"
  /\ active = None
  /\ room = [live |-> None, cleanup |-> None]
  /\ \A other \in Sessions : session[other] \notin {"live", "ending"}

\* startServerChannelSessionV1.  A channel that is live answers with the
\* generation it has, a replay with the one it started: neither writes.
Start(s) ==
  /\ Startable(s)
  /\ session' = [session EXCEPT ![s] = "live"]
  /\ active' = s
  /\ room' = [live |-> s, cleanup |-> None]
  /\ UNCHANGED <<ledgers, job, runs, standing, admitted, frozen, usable>>

\* The writes that stage an end, the same for every operation that may.
StageEnd(s) ==
  /\ session' = [session EXCEPT ![s] = "ending"]
  /\ active' = None
  /\ room' = [live |-> None, cleanup |-> s]
  /\ job' = [job EXCEPT ![s] = [NoJob EXCEPT !.status = "pending"]]

\* endServerChannelSessionV1, or stageConvergenceSessionEnd on behalf of an
\* archive, a deletion, an ownership transfer or the stale-generation sweep.
End(s) ==
  /\ session[s] = "live"
  /\ active = s
  /\ room = [live |-> s, cleanup |-> None]
  /\ StageEnd(s)
  /\ UNCHANGED <<ledgers, runs, standing, admitted, frozen, usable>>

--------------------------------
(* Media tokens *)

\* hasUnresolvedRevocationAttempt
Unresolved(r) == r.attempt # None /\ r.attempt.state # "acknowledged"

\* readSessionTokenAuthority succeeds; the fingerprint it computes is standing.
Authority(u, s) ==
  /\ session[s] = "live"
  /\ active = s
  /\ room = [live |-> s, cleanup |-> None]
  /\ u \in admitted \ frozen
  /\ roster[u] # None => roster[u].session = s

\* requireIssuableRecipient
Issuable(u, s) ==
  LET r == recipient[s][u]
  IN \/ r.state = "none"
     \/ /\ ~Unresolved(r)
        /\ r.state # "revoking"
        /\ ~r.cooling
        /\ r.state = "active" => r.authority = standing[u]

\* Mutant of IssuedEpoch: every admission starts over.
FirstEpoch(u, s) == 1

IssuedEpoch(u, s) ==
  IF recipient[s][u].state = "none" THEN 1 ELSE recipient[s][u].epoch

\* The transaction that decides a request may have a token, which is then
\* signed outside of any transaction.
Preflight(h, u, s, q) ==
  /\ handler[h] = Idle
  /\ receipt[q][u] = None
  /\ Authority(u, s)
  /\ Issuable(u, s)
  /\ handler' = [handler EXCEPT ![h] =
       [phase |-> "minted", session |-> s, user |-> u, request |-> q,
        authority |-> standing[u], epoch |-> IssuedEpoch(u, s)]]
  /\ UNCHANGED <<pointers, ledgers, job, worker, revoker, standing, admitted,
                 frozen, usable>>

\* Mutant of Unchanged: the last transaction does not decide again.
AlwaysUnchanged(m) == TRUE

\* Nothing the preflight read has changed by the time of the last transaction.
Unchanged(m) ==
  /\ Authority(m.user, m.session)
  /\ Issuable(m.user, m.session)
  /\ m.authority = standing[m.user]
  /\ m.epoch = IssuedEpoch(m.user, m.session)
  /\ mirror[m.user] # None => mirror[m.user].session = m.session

\* The last transaction decides again on current state and only then discloses
\* the token, with every document through which it can be revoked.
Disclose(h) ==
  LET m == handler[h]
  IN /\ m.phase = "minted"
     /\ receipt[m.request][m.user] = None
     /\ Unchanged(m)
     /\ recipient' = [recipient EXCEPT ![m.session][m.user] =
          [state |-> "active", epoch |-> m.epoch, authority |-> m.authority,
           cooling |-> FALSE, attempt |-> None]]
     /\ roster' = [roster EXCEPT ![m.user] =
          [session |-> m.session, authority |-> m.authority]]
     /\ mirror' = [mirror EXCEPT ![m.user] =
          [session |-> m.session, authority |-> m.authority, epoch |-> m.epoch]]
     /\ receipt' = [receipt EXCEPT ![m.request][m.user] =
          [session |-> m.session, authority |-> m.authority, epoch |-> m.epoch]]
     /\ usable' = usable \cup
          {[session |-> m.session, user |-> m.user, epoch |-> m.epoch]}
     /\ handler' = [handler EXCEPT ![h] = Idle]
     /\ UNCHANGED <<pointers, job, worker, revoker, standing, admitted, frozen>>

\* A refusal, the stored answer of a concurrent run, or the end of the instance.
Abandon(h) ==
  /\ handler[h] # Idle
  /\ handler' = [handler EXCEPT ![h] = Idle]
  /\ UNCHANGED <<pointers, ledgers, job, worker, revoker, standing, admitted,
                 frozen, usable>>

\* Mutant of Replays: the epoch of the stored token is not compared.
ReplaysAnyEpoch(q, u) ==
  LET x == receipt[q][u]
  IN /\ x # None
     /\ Authority(u, x.session)
     /\ x.authority = standing[u]
     /\ recipient[x.session][u].state = "active"

\* authorizedTokenReplay: the guard of the answer that writes nothing.
Replays(q, u) ==
  LET x == receipt[q][u]
  IN /\ x # None
     /\ Authority(u, x.session)
     /\ x.authority = standing[u]
     /\ recipient[x.session][u].state = "active"
     /\ ~Unresolved(recipient[x.session][u])
     /\ ~recipient[x.session][u].cooling
     /\ recipient[x.session][u].epoch = x.epoch

\* LiveKit's removeParticipant: the tokens issued so far are refused from now on.
Cut(s, u) == usable' = {t \in usable : t.session # s \/ t.user # u}

--------------------------------
(* processServerSessionEndPage: claim, revoke, receipt, prepare, endRoom, *)
(* final.  Every transaction after the claim requires its own lease.      *)

Tail(s, cursor) == {u \in Users : u > cursor /\ recipient[s][u].state # "none"}

\* A page of the recipients after the cursor ends with top: it is as large as a
\* page may be, or it is all that is left.
Page(s, top) == Tail(s, job[s].cursor) \ Tail(s, top)

PageEnd(s, top) ==
  /\ Cardinality(Page(s, top)) <= PageSize
  /\ Cardinality(Page(s, top)) < PageSize => Tail(s, top) = {}

\* Mutant of Claimable: a lease is only ever given back, never taken over.
ClaimableUnleased(s) ==
  job[s].status = "pending" /\ session[s] = "ending" /\ job[s].lease = None

Claimable(s) ==
  /\ job[s].status = "pending"
  /\ session[s] = "ending"
  /\ job[s].lease = None \/ job[s].expired

\* A job whose lease is taken by an invocation or, with None, given back.
Leased(j, w) == [j EXCEPT !.lease = w, !.expired = FALSE]

\* Mutant of Fence: each pass of the worker takes a new epoch.
FenceAgain(r) ==
  IF r.state = "revoked" THEN r
  ELSE [r EXCEPT !.state = "revoking", !.epoch = r.epoch + 1]

Fence(r) ==
  IF r.state = "revoked" THEN r
  ELSE [r EXCEPT !.state = "revoking",
                 !.epoch = IF r.state = "active" THEN r.epoch + 1 ELSE r.epoch]

\* The claim of a page marks its recipients as being revoked.
ClaimPage(w, s, top) ==
  /\ worker[w] = Idle
  /\ Claimable(s)
  /\ ~job[s].checkpoint
  /\ PageEnd(s, top)
  /\ job' = [job EXCEPT ![s] = Leased(@, w)]
  /\ LET page == Page(s, top)
         fenced == [u \in Users |-> IF u \in page THEN Fence(recipient[s][u])
                                                  ELSE recipient[s][u]]
     IN /\ recipient' = [recipient EXCEPT ![s] = fenced]
        /\ worker' = [worker EXCEPT ![w] =
             [phase |-> "revoke", session |-> s, page |-> page, top |-> top,
              seen |-> [u \in Users |-> IF u \in page THEN fenced[u]
                                                      ELSE NoRecipient],
              todo |-> {u \in page : recipient[s][u].state # "revoked"},
              failed |-> FALSE, last |-> Tail(s, top) = {}]]
  /\ UNCHANGED <<pointers, roster, mirror, receipt, revoker, handler, standing,
                 admitted, frozen, usable>>

DeleteOnly(s) ==
  [phase |-> "prepare", session |-> s, page |-> {}, top |-> 0,
   seen |-> [u \in Users |-> NoRecipient], todo |-> {}, failed |-> FALSE,
   last |-> TRUE]

\* With every page acknowledged, a claim only deletes the room.
ClaimDelete(w, s) ==
  /\ worker[w] = Idle
  /\ Claimable(s)
  /\ job[s].checkpoint
  /\ job' = [job EXCEPT ![s] = Leased(@, w)]
  /\ worker' = [worker EXCEPT ![w] = DeleteOnly(s)]
  /\ UNCHANGED <<pointers, ledgers, revoker, handler, standing, admitted, frozen, usable>>

WorkerStep(w, next) ==
  /\ worker' = [worker EXCEPT ![w] = next]
  /\ UNCHANGED <<pointers, receipt, revoker, handler, standing, admitted, frozen>>

At(w, phase) == worker[w].phase = phase

\* One removeParticipant of the page is confirmed.
RevokeOne(w, u) ==
  /\ At(w, "revoke")
  /\ u \in worker[w].todo
  /\ Cut(worker[w].session, u)
  /\ WorkerStep(w, [worker[w] EXCEPT !.todo = @ \ {u}])
  /\ UNCHANGED <<recipient, roster, mirror, job>>

\* One fails, or its answer is lost; the others of the page are still sent.
RevokeOneFails(w, u) ==
  /\ At(w, "revoke")
  /\ u \in worker[w].todo
  /\ Cut(worker[w].session, u) \/ UNCHANGED usable
  /\ WorkerStep(w, [worker[w] EXCEPT !.todo = @ \ {u}, !.failed = TRUE])
  /\ UNCHANGED <<recipient, roster, mirror, job>>

Holds(w) ==
  LET j == job[worker[w].session] IN j.lease = w /\ ~j.expired

NextCursor(w) ==
  IF worker[w].page = {} THEN job[worker[w].session].cursor ELSE worker[w].top

\* The recipients of the page are as the claim left them, and the last page
\* leaves none behind (assertEmptyRecipientTail).
Agrees(w) ==
  /\ \A u \in worker[w].page :
       LET r == recipient[worker[w].session][u]
           seen == worker[w].seen[u]
       IN /\ r.epoch = seen.epoch
          /\ r.authority = seen.authority
          /\ r.state = seen.state
  /\ worker[w].last => Tail(worker[w].session, NextCursor(w)) = {}

\* Mutant of Revoked: the page counts although one of its calls failed.
RevokedInPart(w) == At(w, "revoke") /\ worker[w].todo = {}

\* Every call of the page was sent, and none failed.
Revoked(w) == At(w, "revoke") /\ worker[w].todo = {} /\ ~worker[w].failed

\* A roster entry or mirror belongs to the generation and the token at hand.
Clears(document, s, r) ==
  document # None /\ document.session = s /\ document.authority = r.authority

\* LiveKit confirmed the cutoff: new tokens wait for the reconnect barrier.
Settled(r) == [r EXCEPT !.state = "revoked", !.cooling = TRUE]

\* The receipt of a page: its recipients are revoked, their roster entries and
\* mirrors of this generation removed, and the last page is checkpointed.
Receipt(w) ==
  LET s == worker[w].session
      page == worker[w].page
      seen == worker[w].seen
      last == worker[w].last
  IN /\ Revoked(w)
     /\ Holds(w)
     /\ Agrees(w)
     /\ recipient' = [recipient EXCEPT ![s] = [u \in Users |->
          IF u \in page
          THEN Settled(recipient[s][u]) ELSE recipient[s][u]]]
     /\ roster' = [u \in Users |->
          IF u \in page /\ Clears(roster[u], s, seen[u]) THEN None ELSE roster[u]]
     /\ mirror' = [u \in Users |->
          IF u \in page /\ Clears(mirror[u], s, seen[u]) THEN None ELSE mirror[u]]
     /\ job' = [job EXCEPT ![s] =
                  [Leased(@, IF last THEN w ELSE None)
                     EXCEPT !.cursor = NextCursor(w), !.checkpoint = last]]
     /\ WorkerStep(w, IF last THEN DeleteOnly(s) ELSE Idle)
     /\ UNCHANGED usable

\* The room may be deleted: the lease is renewed over the call to LiveKit.
Prepare(w) ==
  /\ At(w, "prepare")
  /\ Holds(w)
  /\ Agrees(w)
  /\ job' = [job EXCEPT ![worker[w].session] = Leased(@, w)]
  /\ WorkerStep(w, [worker[w] EXCEPT !.phase = "endRoom"])
  /\ UNCHANGED <<recipient, roster, mirror, usable>>

\* An OBS provisioning lease still runs: the deletion waits for a later pass.
Defer(w) ==
  /\ At(w, "prepare")
  /\ Holds(w)
  /\ job' = [job EXCEPT ![worker[w].session] = Leased(@, None)]
  /\ WorkerStep(w, Idle)
  /\ UNCHANGED <<recipient, roster, mirror, usable>>

\* LiveKit's endRoom returns.
EndRoom(w) ==
  /\ At(w, "endRoom")
  /\ WorkerStep(w, [worker[w] EXCEPT !.phase = "final"])
  /\ UNCHANGED <<recipient, roster, mirror, job, usable>>

\* Mutant of Release: the room keeps waiting for a generation that is over.
KeepBarrier(s) == room

\* The room is idle again, if it is still this generation it waits for.
Release(s) ==
  IF room = [live |-> None, cleanup |-> s] THEN [room EXCEPT !.cleanup = None]
                                           ELSE room

\* The generation is over.
Final(w) ==
  LET s == worker[w].session
  IN /\ At(w, "final")
     /\ Holds(w)
     /\ session' = [session EXCEPT ![s] = "ended"]
     /\ room' = Release(s)
     /\ job' = [job EXCEPT ![s] =
                  [Leased(@, None) EXCEPT !.status = "completed"]]
     /\ worker' = [worker EXCEPT ![w] = Idle]
     /\ UNCHANGED <<active, ledgers, revoker, handler, standing, admitted, frozen, usable>>

\* A transaction finds that the lease lapsed or is another invocation's.
Lost(w) ==
  /\ Revoked(w) \/ At(w, "prepare") \/ At(w, "final")
  /\ ~Holds(w)
  /\ WorkerStep(w, Idle)
  /\ UNCHANGED <<recipient, roster, mirror, job, usable>>

\* A call to LiveKit failed, or the receipt finds the page changed.
Fail(w) ==
  /\ \/ At(w, "revoke") /\ worker[w].todo = {} /\ worker[w].failed
     \/ (Revoked(w) \/ At(w, "prepare")) /\ Holds(w) /\ ~Agrees(w)
     \/ At(w, "endRoom")
  /\ WorkerStep(w, [worker[w] EXCEPT !.phase = "fail"])
  /\ UNCHANGED <<recipient, roster, mirror, job, usable>>

\* releaseLease gives back its own lease of a job that is still pending.
ReleaseLease(w) ==
  LET s == worker[w].session
  IN /\ At(w, "fail")
     /\ job' = IF job[s].lease = w /\ job[s].status = "pending"
               THEN [job EXCEPT ![s] = Leased(@, None)]
               ELSE job
     /\ WorkerStep(w, Idle)
     /\ UNCHANGED <<recipient, roster, mirror, usable>>

\* The instance dies and leaves its lease behind.
Crash(w) ==
  /\ worker[w] # Idle
  /\ WorkerStep(w, Idle)
  /\ UNCHANGED <<recipient, roster, mirror, job, usable>>

LeaseLapses(s) ==
  /\ job[s].lease # None
  /\ ~job[s].expired
  /\ job' = [job EXCEPT ![s] = [@ EXCEPT !.expired = TRUE]]
  /\ UNCHANGED <<pointers, ledgers, runs, standing, admitted, frozen, usable>>

--------------------------------
(* reconcileServerSessionParticipant: plan, removeParticipant, acknowledge. *)

\* Mutant of Revocable: an attempt whose lease lapsed is tried again.
RevocableAgain(u, s) ==
  LET r == recipient[s][u]
  IN /\ r.state \in {"active", "revoking"}
     /\ ~(Authority(u, s) /\ r.authority = standing[u])

\* An issued token its holder's present authority does not back any more, and
\* that no other attempt, finished or not, has taken in hand.
Revocable(u, s) ==
  LET r == recipient[s][u]
  IN /\ r.state = "active"
     /\ ~Unresolved(r)
     /\ ~(Authority(u, s) /\ r.authority = standing[u])

\* The recipient while an attempt of invocation r is on its way.
Attempted(x, r) ==
  [x EXCEPT !.state = "revoking", !.epoch = x.epoch + 1,
            !.attempt = [by |-> r, epoch |-> x.epoch + 1, state |-> "pending"]]

\* The recipient with its attempt in another state.
Answered(x, state) == [x EXCEPT !.attempt = [x.attempt EXCEPT !.state = state]]

PlanRevocation(r, u, s) ==
  /\ revoker[r] = Idle
  /\ Revocable(u, s)
  /\ recipient[s][u].epoch < MaxEpoch
  /\ recipient' = [recipient EXCEPT ![s][u] = Attempted(@, r)]
  /\ revoker' = [revoker EXCEPT ![r] =
       [phase |-> "provider", session |-> s, user |-> u,
        epoch |-> recipient[s][u].epoch + 1]]
  /\ UNCHANGED <<pointers, roster, mirror, receipt, job, worker, handler,
                 standing, admitted, frozen, usable>>

RevokerStep(r, next) ==
  /\ revoker' = [revoker EXCEPT ![r] = next]
  /\ UNCHANGED <<pointers, roster, receipt, job, worker, handler, standing,
                 admitted, frozen>>

RevokeOnline(r) ==
  /\ revoker[r].phase = "provider"
  /\ Cut(revoker[r].session, revoker[r].user)
  /\ RevokerStep(r, [revoker[r] EXCEPT !.phase = "acknowledge"])
  /\ UNCHANGED <<recipient, mirror>>

\* The call fails, or its answer is lost.
RevokeUnanswered(r) ==
  /\ revoker[r].phase = "provider"
  /\ Cut(revoker[r].session, revoker[r].user) \/ UNCHANGED usable
  /\ RevokerStep(r, [revoker[r] EXCEPT !.phase = "doubt"])
  /\ UNCHANGED <<recipient, mirror>>

\* The recipient still has the attempt of this invocation, and it is pending.
Own(r) ==
  LET x == recipient[revoker[r].session][revoker[r].user]
  IN /\ x.epoch = revoker[r].epoch
     /\ x.attempt # None
     /\ x.attempt.by = r
     /\ x.attempt.state = "pending"

Doubt(r) ==
  /\ revoker[r].phase = "doubt"
  /\ recipient' = IF Own(r)
       THEN [recipient EXCEPT ![revoker[r].session][revoker[r].user] =
               Answered(@, "uncertain")]
       ELSE recipient
  /\ RevokerStep(r, Idle)
  /\ UNCHANGED <<mirror, usable>>

\* The acknowledgement writes only while the recipient is still being revoked
\* by this attempt; the roster entry keeps its role and moderator mute.
Acknowledge(r) ==
  LET s == revoker[r].session
      u == revoker[r].user
  IN /\ revoker[r].phase = "acknowledge"
     /\ IF Own(r) /\ recipient[s][u].state = "revoking"
        THEN /\ recipient' = [recipient EXCEPT ![s][u] =
                  Answered(Settled(@), "acknowledged")]
             /\ mirror' = IF /\ Clears(mirror[u], s, recipient[s][u])
                             /\ mirror[u].epoch < revoker[r].epoch
                          THEN [mirror EXCEPT ![u] = None] ELSE mirror
        ELSE UNCHANGED <<recipient, mirror>>
     /\ RevokerStep(r, Idle)
     /\ UNCHANGED usable

\* The instance dies: its attempt stays pending for good.
RevokerCrash(r) ==
  /\ revoker[r] # Idle
  /\ RevokerStep(r, Idle)
  /\ UNCHANGED <<recipient, mirror, usable>>

\* The reconnect barrier lies in the past.
BarrierLifts(u, s) ==
  /\ recipient[s][u].cooling
  /\ recipient' = [recipient EXCEPT ![s][u] = [@ EXCEPT !.cooling = FALSE]]
  /\ UNCHANGED <<pointers, roster, mirror, receipt, job, runs, standing, admitted,
                 frozen, usable>>

--------------------------------
(* What the authority of an account depends on. *)

\* A role, a mute, a membership or an ACL changes: revisions only grow.
ChangeStanding(u) ==
  /\ standing[u] < MaxRevision
  /\ standing' = [standing EXCEPT ![u] = @ + 1]
  /\ UNCHANGED <<pointers, ledgers, job, runs, admitted, frozen, usable>>

\* A sanction comes or goes, and leaves every revision as it was.
ToggleAdmission(u) ==
  /\ admitted' = (admitted \ {u}) \cup ({u} \ admitted)
  /\ UNCHANGED <<pointers, ledgers, job, runs, standing, frozen, usable>>

\* The deletion of an account begins: its profile is disabled for good.
FreezeAccount(u) ==
  /\ frozen' = frozen \cup {u}
  /\ UNCHANGED <<pointers, ledgers, job, runs, standing, admitted, usable>>

\* The revoke stage of account deletion, which may run again: the mirror goes,
\* whatever the state of the recipient it was written for.
RevokeAccount(u) ==
  /\ u \in frozen
  /\ mirror' = [mirror EXCEPT ![u] = None]
  /\ UNCHANGED <<pointers, recipient, roster, receipt, job, runs, standing, admitted,
                 frozen, usable>>

--------------------------------
Next ==
  \/ \E s \in Sessions : Start(s) \/ End(s) \/ LeaseLapses(s)
  \/ \E h \in Handlers, u \in Users, s \in Sessions, q \in Requests :
        Preflight(h, u, s, q)
  \/ \E h \in Handlers : Disclose(h) \/ Abandon(h)
  \/ \E w \in Workers, s \in Sessions, top \in Users \cup {0} :
        ClaimPage(w, s, top)
  \/ \E w \in Workers, s \in Sessions : ClaimDelete(w, s)
  \/ \E w \in Workers, u \in Users : RevokeOne(w, u) \/ RevokeOneFails(w, u)
  \/ \E w \in Workers :
        \/ Receipt(w) \/ Prepare(w) \/ Defer(w) \/ EndRoom(w) \/ Final(w)
        \/ Lost(w) \/ Fail(w) \/ ReleaseLease(w) \/ Crash(w)
  \/ \E r \in Revokers, u \in Users, s \in Sessions : PlanRevocation(r, u, s)
  \/ \E r \in Revokers :
        \/ RevokeOnline(r) \/ RevokeUnanswered(r) \/ Doubt(r) \/ Acknowledge(r)
        \/ RevokerCrash(r)
  \/ \E u \in Users, s \in Sessions : BarrierLifts(u, s)
  \/ \E u \in Users : ChangeStanding(u)
  \/ \E u \in MaySanction : ToggleAdmission(u)
  \/ \E u \in MayFreeze : FreezeAccount(u) \/ RevokeAccount(u)

Spec == Init /\ [][Next]_vars

\* Jobs are redelivered and swept, LiveKit answers or a call times out, leases
\* lapse; and of the invocations that keep being started some keep their lease
\* through LiveKit's answers, once no OBS lease is left to wait for.
Fairness ==
  /\ \A s \in Sessions :
       /\ WF_vars(LeaseLapses(s))
       /\ WF_vars(\E w \in Workers : \/ ClaimDelete(w, s)
                                    \/ \E top \in Users \cup {0} :
                                         ClaimPage(w, s, top))
  /\ \A w \in Workers :
       /\ WF_vars(\E u \in Users : RevokeOne(w, u) \/ RevokeOneFails(w, u))
       /\ WF_vars(EndRoom(w) \/ Lost(w) \/ Fail(w) \/ ReleaseLease(w))
  /\ \A u \in Users : SF_vars(\E w \in Workers : RevokeOne(w, u) /\ Holds(w))
  /\ SF_vars(\E w \in Workers : Receipt(w))
  /\ SF_vars(\E w \in Workers : Prepare(w))
  /\ SF_vars(\E w \in Workers : EndRoom(w) /\ Holds(w))
  /\ SF_vars(\E w \in Workers : Final(w))

FairSpec == Spec /\ Fairness

--------------------------------
(* Safety *)

\* The three documents that say what a channel is doing never disagree, at
\* most one generation is unfinished, and a generation that ends has its job:
\* a late worker of an older generation never idles or unlocks a newer one.
GenerationsAgree ==
  /\ \A s \in Sessions :
       /\ session[s] = "live" <=> active = s
       /\ session[s] = "live" <=> room.live = s
       /\ session[s] = "ending" <=> room.cleanup = s
       /\ session[s] = "ending" <=> job[s].status = "pending"
       /\ session[s] = "ended" <=> job[s].status = "completed"
  /\ room.live = None \/ room.cleanup = None

\* A generation that is over leaves nothing behind: every recipient is revoked,
\* LiveKit accepts none of its tokens, and no roster entry or mirror of it is
\* left to bar an account from the next generation.
EndedLeavesNothing ==
  \A s \in Sessions, u \in Users : session[s] = "ended" =>
    /\ recipient[s][u].state \in {"none", "revoked"}
    /\ roster[u] # None => roster[u].session # s
    /\ mirror[u] # None => mirror[u].session # s
    /\ \A t \in usable : t.session # s \/ t.user # u

\* Every token LiveKit accepts is on record: its recipient is active with the
\* epoch of the token, or is being revoked at a later one.  None outlives the
\* acknowledgement of its revocation.
UsableTokensOnRecord ==
  \A t \in usable :
    LET r == recipient[t.session][t.user]
    IN \/ r.state = "active" /\ r.epoch = t.epoch
       \/ r.state = "revoking" /\ r.epoch > t.epoch

\* A revocation that is on its way to LiveKit never hits a token issued after
\* it was planned, however long its answer takes.
NoStrayRevocation ==
  \A r \in Revokers : revoker[r] # Idle /\ revoker[r].phase = "provider" =>
    recipient[revoker[r].session][revoker[r].user].state # "active"

\* The holder of an active token of the live generation is on its roster and
\* has, of this very token, the mirror by which its revocation and the account's
\* deletion find it.  Nothing but the revocation of the token takes either away
\* earlier, save one step: the deletion of the account removes the mirror, of an
\* account that gets no further token and whose recipient still has its entry.
ActiveHoldersIndexed ==
  \A s \in Sessions, u \in Users :
    LET r == recipient[s][u] IN
    /\ r.attempt # None => r.attempt.epoch = r.epoch /\ r.state # "active"
    /\ r.state = "active" =>
         /\ roster[u] = [session |-> s, authority |-> r.authority]
         /\ \/ mirror[u] = [session |-> s, authority |-> r.authority,
                            epoch |-> r.epoch]
            \/ u \in frozen /\ mirror[u] = None

\* A repeated request is only ever answered with a token that still works.
ReplaysStillWork ==
  \A q \in Requests, u \in Users : Replays(q, u) =>
    [session |-> receipt[q][u].session, user |-> u, epoch |-> receipt[q][u].epoch]
      \in usable

\* Epochs never go back, a token is disclosed only to an account that has the
\* authority at that very step, and a generation that ended never changes its
\* verdict on a recipient.
RevocationIsFinal ==
  [][/\ \A s \in Sessions, u \in Users :
          /\ recipient'[s][u].epoch >= recipient[s][u].epoch
          /\ session[s] = "ended" =>
               recipient'[s][u].state = recipient[s][u].state
     /\ \A t \in usable' \ usable : Authority(t.user, t.session)]_vars

(* What the channel promises, with the documents taken away. *)

Holders == {<<t.session, t.user>> : t \in usable}

Media == INSTANCE Generations WITH phase <- session, held <- Holders

\* The documents, leases and concurrent workers implement one generation at a
\* time that admits only while it is live and is over when nobody can join it.
ImplementsGenerations == Media!Spec

(* Liveness *)

\* A generation whose end was staged is eventually over, and the channel free.
EndsAreFinished == \A s \in Sessions :
  session[s] = "ending" ~> session[s] = "ended" /\ room.cleanup # s

=============================================================================
