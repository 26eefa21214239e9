---------------------------- MODULE SocialGraph ----------------------------
(***************************************************************************)
(* The social graph of functions/friends/social_graph.js: friend requests, *)
(* friendships, follows and blocks, the counters kept on the users'        *)
(* profiles, the private capacity ledger and the alerts, together with the *)
(* social stage of an account's deletion (functions/account/stages.js).    *)
(*                                                                         *)
(* Every callable is one transaction.  The social stage is not: a worker   *)
(* reads a page of edges and then removes them one transaction each, and   *)
(* the callables of the other users run in between.                        *)
(*                                                                         *)
(* A friendship is one element of friends: its two mirrors and its two     *)
(* guards are written and deleted by the same commits.  So are the two     *)
(* documents of a follow.  The two documents of a request are kept apart,  *)
(* because requests from before the mirrors existed have only one.         *)
(***************************************************************************)
EXTENDS Integers, Sequences, FiniteSets, FiniteSetsExt

CONSTANTS
  Users,
  Creators,        \* the users whose audience accepts followers
  Blockers,        \* bound: the users who use the block list
  Leavers,         \* bound: the users who may delete their account
  LegacyRequests,  \* <<sender, receiver>>: requests without a mirror
  Workers,         \* the workers of the deletion pipeline
  EdgePage,        \* limits.edgePage
  MAX_FRIENDS, MAX_FOLLOWING, MAX_PENDING_REQUESTS, MAX_BLOCKED_USERS

SocialAssumption ==
  /\ Creators \subseteq Users /\ Blockers \subseteq Users
  /\ Leavers \subseteq Users /\ LegacyRequests \subseteq Users \X Users
  /\ \A r \in LegacyRequests : r[1] # r[2] /\ <<r[2], r[1]>> \notin LegacyRequests
  /\ EdgePage \in Nat \ {0}
  /\ {MAX_FRIENDS, MAX_FOLLOWING, MAX_PENDING_REQUESTS, MAX_BLOCKED_USERS}
       \subseteq Nat \ {0}

VARIABLES
  disabled,    \* users[u].disabled
  friends,     \* {a, b}: the friendship of a and b, guards included
  follows,     \* <<a, b>>: a follows b
  incoming,    \* <<s, r>>: users/r/friendRequests/s
  sent,        \* <<s, r>>: users/s/sentFriendRequests/r
  blocks,      \* <<a, b>>: users/a/blocked/b
  count,       \* users[u].friendCount, followingCount, followerCount
  ledger,      \* privateSocialGraphCapacities[u]
  alerts,      \* <<type, from, to>>: the alert an edge points at
  step,        \* the persisted step of the social stage of a leaver
  worker,      \* what each worker is doing: whose edges, which page
  astray       \* history: <<user, number>>: what the social stage put wrong

graph == <<friends, follows, incoming, sent, blocks>>
stage == <<step, worker, astray>>
vars  == <<disabled, graph, count, ledger, alerts, stage>>

Kinds     == {"blocked", "pendingOutgoing", "pendingIncoming"}
Counters  == {"friendCount", "followingCount", "followerCount"}
Steps     == <<"friends", "following", "followers", "friendRequests", "sentFriendRequests">>
Unmigrated == -1          \* no such field in the ledger yet
Idle == [on |-> "none", left |-> {}, full |-> FALSE]
Pairs == {p \in Users \X Users : p[1] # p[2]}

--------------------------------
(* The capacity ledger *)

maximum(k) == IF k = "blocked" THEN MAX_BLOCKED_USERS ELSE MAX_PENDING_REQUESTS

(* The collection a field of the ledger counts. *)
collection(u, k) ==
  CASE k = "blocked"         -> {p \in blocks : p[1] = u}
    [] k = "pendingOutgoing" -> {p \in sent : p[1] = u}
    [] k = "pendingIncoming" -> {p \in incoming : p[2] = u}

(* ensureSocialCapacity: the first use counts the collection, up to one
   more than the maximum.  That value stands for "overflowed". *)
Ensured(u, k) ==
  IF ledger[u][k] # Unmigrated THEN ledger[u][k]
  ELSE Min({Cardinality(collection(u, k)), maximum(k) + 1})

HasRoom(u, k) == Ensured(u, k) < maximum(k)

(* An overflowed field never leaves that state on a client's operation. *)
Moved(v, k, delta) == IF v > maximum(k) THEN v ELSE v + delta

(* changes is a set of <<user, kind, delta>>.  A decrement of 0 is refused
   with data-loss. *)
Canonical(changes) == \A c \in changes : c[3] < 0 => Ensured(c[1], c[2]) > 0
Adjusted(changes) ==
  [u \in Users |-> [k \in Kinds |->
     IF \E c \in changes : c[1] = u /\ c[2] = k
     THEN LET c == CHOOSE c \in changes : c[1] = u /\ c[2] = k
          IN Moved(Ensured(u, k), k, c[3])
     ELSE ledger[u][k]]]

--------------------------------
(* Counters and checks *)

Active(u) == u \notin disabled
Blocked(a, b) == {<<a, b>>, <<b, a>>} \cap blocks # {}
Decremented(n) == IF n > 0 THEN n - 1 ELSE 0

(* The counters after `down` and `up`, sets of <<user, counter>>. *)
Counted(down, up) ==
  [u \in Users |-> [c \in Counters |->
     IF <<u, c>> \in down THEN Decremented(count[u][c])
     ELSE IF <<u, c>> \in up THEN count[u][c] + 1 ELSE count[u][c]]]
Befriended(a, b) == {<<a, "friendCount">>, <<b, "friendCount">>}
Followed(a, b) == {<<a, "followingCount">>, <<b, "followerCount">>}

Init ==
  /\ disabled = {}
  /\ friends = {} /\ follows = {} /\ sent = {} /\ blocks = {}
  /\ incoming = LegacyRequests
  /\ alerts = {}
  /\ count = [u \in Users |-> [c \in Counters |-> 0]]
  /\ ledger = [u \in Users |-> [k \in Kinds |-> Unmigrated]]
  /\ step = [u \in Users |-> 0]
  /\ worker = [w \in Workers |-> Idle]
  /\ astray = {}

--------------------------------
(* sendFriendRequest *)

MaySend(a, b) == /\ a # b /\ Active(a) /\ Active(b) /\ ~Blocked(a, b)
                 /\ {a, b} \notin friends

Request(a, b) ==
  /\ MaySend(a, b)
  /\ <<a, b>> \notin incoming /\ <<b, a>> \notin incoming
  /\ IF HasRoom(a, "pendingOutgoing") /\ HasRoom(b, "pendingIncoming")
     THEN /\ ledger' = Adjusted({<<a, "pendingOutgoing", 1>>, <<b, "pendingIncoming", 1>>})
          /\ incoming' = incoming \cup {<<a, b>>}
          /\ sent' = sent \cup {<<a, b>>}
          /\ alerts' = alerts \cup {<<"friendRequest", a, b>>}
     ELSE \* the migration is kept, the caller is refused
          /\ ledger' = Adjusted({<<a, "pendingOutgoing", 0>>, <<b, "pendingIncoming", 0>>})
          /\ UNCHANGED <<incoming, sent, alerts>>
  /\ UNCHANGED <<disabled, friends, follows, blocks, count, stage>>

(* The request stands, its mirror is missing: the mirror is written again,
   without a new alert. *)
HealMirror(a, b) ==
  /\ MaySend(a, b)
  /\ <<a, b>> \in incoming /\ <<a, b>> \notin sent
  /\ IF HasRoom(a, "pendingOutgoing")
     THEN /\ ledger' = Adjusted({<<a, "pendingOutgoing", 1>>})
          /\ sent' = sent \cup {<<a, b>>}
     ELSE /\ ledger' = Adjusted({<<a, "pendingOutgoing", 0>>})
          /\ UNCHANGED sent
  /\ UNCHANGED <<disabled, friends, follows, incoming, blocks, count, alerts, stage>>

(* The fields a resolved request of s to r gives back. *)
Resolved(s, r) ==
  {<<r, "pendingIncoming", -1>>}
    \cup (IF <<s, r>> \in sent THEN {<<s, "pendingOutgoing", -1>>} ELSE {})

BelowFriendLimit(a, b) ==
  count[a].friendCount < MAX_FRIENDS /\ count[b].friendCount < MAX_FRIENDS

(* What respondToFriendRequest and sendFriendRequest with acceptIncoming
   both do to a request of s that r accepts. *)
Befriend(r, s) ==
  /\ BelowFriendLimit(r, s)
  /\ Canonical(Resolved(s, r)) /\ ledger' = Adjusted(Resolved(s, r))
  /\ friends' = friends \cup {{r, s}}
  /\ count' = Counted({}, Befriended(r, s))
  /\ incoming' = incoming \ {<<s, r>>} /\ sent' = sent \ {<<s, r>>}
  /\ alerts' = (alerts \ {<<"friendRequest", s, r>>}) \cup {<<"friendAccepted", r, s>>}

Accept(r, s) ==
  /\ MaySend(r, s) /\ <<s, r>> \in incoming
  /\ Befriend(r, s)
  /\ UNCHANGED <<disabled, follows, blocks, stage>>

Decline(r, s) ==
  /\ Active(r) /\ <<s, r>> \in incoming
  /\ Canonical(Resolved(s, r)) /\ ledger' = Adjusted(Resolved(s, r))
  /\ incoming' = incoming \ {<<s, r>>} /\ sent' = sent \ {<<s, r>>}
  /\ alerts' = alerts \ {<<"friendRequest", s, r>>}
  /\ UNCHANGED <<disabled, friends, follows, blocks, count, stage>>

(* cancelFriendRequest reads no profile: it works for a disabled caller
   whose session is still valid, and towards a disabled receiver. *)
Withdrawn(s, r) ==
  (IF <<s, r>> \in sent THEN {<<s, "pendingOutgoing", -1>>} ELSE {})
    \cup (IF <<s, r>> \in incoming THEN {<<r, "pendingIncoming", -1>>} ELSE {})
CancelRequest(s, r) ==
  /\ {<<s, r>>} \cap (incoming \cup sent) # {}
  /\ Canonical(Withdrawn(s, r)) /\ ledger' = Adjusted(Withdrawn(s, r))
  /\ incoming' = incoming \ {<<s, r>>} /\ sent' = sent \ {<<s, r>>}
  /\ alerts' = alerts \ {<<"friendRequest", s, r>>}
  /\ UNCHANGED <<disabled, friends, follows, blocks, count, stage>>

AcceptAlerts(a, b) == {<<"friendAccepted", a, b>>, <<"friendAccepted", b, a>>}

RemoveFriend(a, b) ==
  /\ a # b /\ Active(a) /\ {a, b} \in friends
  /\ friends' = friends \ {{a, b}}
  /\ count' = Counted(Befriended(a, b), {})
  /\ alerts' = alerts \ AcceptAlerts(a, b)
  /\ UNCHANGED <<disabled, follows, incoming, sent, blocks, ledger, stage>>

(* setFollow *)
Follow(a, b) ==
  /\ a # b /\ Active(a) /\ Active(b) /\ ~Blocked(a, b)
  /\ b \in Creators /\ <<a, b>> \notin follows
  /\ count[a].followingCount < MAX_FOLLOWING
  /\ follows' = follows \cup {<<a, b>>}
  /\ count' = Counted({}, Followed(a, b))
  /\ alerts' = alerts \cup {<<"follow", a, b>>}
  /\ UNCHANGED <<disabled, friends, incoming, sent, blocks, ledger, stage>>

Unfollow(a, b) ==
  /\ Active(a) /\ <<a, b>> \in follows
  /\ follows' = follows \ {<<a, b>>}
  /\ count' = Counted(Followed(a, b), {})
  /\ alerts' = alerts \ {<<"follow", a, b>>}
  /\ UNCHANGED <<disabled, friends, incoming, sent, blocks, ledger, stage>>

--------------------------------
(* setUserBlock *)

BlockChanges(a, b) ==
  {<<a, "blocked", IF <<a, b>> \in blocks THEN 0 ELSE 1>>}
    \cup Withdrawn(a, b) \cup Withdrawn(b, a)
(* mutant: the blocked user's follow is not counted down *)
BlockCountsOneWay(a, b) ==
  (IF {a, b} \in friends THEN Befriended(a, b) ELSE {})
    \cup (IF <<a, b>> \in follows THEN Followed(a, b) ELSE {})
BlockCounts(a, b) ==
  (IF {a, b} \in friends THEN Befriended(a, b) ELSE {})
    \cup (IF <<a, b>> \in follows THEN Followed(a, b) ELSE {})
    \cup (IF <<b, a>> \in follows THEN Followed(b, a) ELSE {})

(* Everything between the two goes, in both directions. *)
Sever(a, b) ==
  /\ friends' = friends \ {{a, b}}
  /\ follows' = follows \ {<<a, b>>, <<b, a>>}
  /\ incoming' = incoming \ {<<a, b>>, <<b, a>>}
  /\ sent' = sent \ {<<a, b>>, <<b, a>>}
  /\ alerts' = {n \in alerts : {n[2], n[3]} # {a, b}}
  /\ count' = Counted(BlockCounts(a, b), {})

Block(a, b) ==
  /\ a \in Blockers /\ a # b /\ Active(a) /\ Active(b)
  /\ IF <<a, b>> \in blocks \/ HasRoom(a, "blocked")
     THEN /\ Canonical(BlockChanges(a, b)) /\ ledger' = Adjusted(BlockChanges(a, b))
          /\ Sever(a, b)
          /\ blocks' = blocks \cup {<<a, b>>}
     ELSE /\ ledger' = Adjusted({<<a, "blocked", 0>>})
          /\ UNCHANGED <<graph, count, alerts>>
  /\ UNCHANGED <<disabled, stage>>

Unblock(a, b) ==
  /\ a \in Blockers /\ a # b /\ Active(a)
  /\ LET change == {<<a, "blocked", IF <<a, b>> \in blocks THEN -1 ELSE 0>>}
     IN Canonical(change) /\ ledger' = Adjusted(change)
  /\ blocks' = blocks \ {<<a, b>>}
  /\ UNCHANGED <<disabled, friends, follows, incoming, sent, count, alerts, stage>>

(* The receiver may delete an alert at any time. *)
DismissAlert(n) ==
  /\ alerts' = alerts \ {n}
  /\ UNCHANGED <<disabled, graph, count, ledger, stage>>

--------------------------------
(* The social stage of an account's deletion *)

(* executeDeleteAccountSelf disables the account first. *)
RequestDeletion(u) ==
  /\ u \in Leavers /\ Active(u)
  /\ disabled' = disabled \cup {u}
  /\ step' = [step EXCEPT ![u] = 1]
  /\ UNCHANGED <<graph, count, ledger, alerts, worker, astray>>

(* The peers named by the documents a step looks at. *)
Peers(u, s) ==
  CASE s = "friends"            -> {v \in Users : v # u /\ {u, v} \in friends}
    [] s = "following"          -> {v \in Users : <<u, v>> \in follows}
    [] s = "followers"          -> {v \in Users : <<v, u>> \in follows}
    [] s = "friendRequests"     -> {v \in Users : <<v, u>> \in incoming}
    [] s = "sentFriendRequests" -> {v \in Users : <<u, v>> \in sent}

(* The page is read outside any transaction. *)
ReadPage(w, u) ==
  /\ worker[w] = Idle /\ step[u] \in 1..Len(Steps)
  /\ LET all == Peers(u, Steps[step[u]]) IN
     \E page \in SUBSET all :
       /\ Cardinality(page) = Min({Cardinality(all), EdgePage})
       /\ worker' = [worker EXCEPT ![w] =
            [on |-> u, left |-> page, step |-> step[u],
             full |-> Cardinality(page) = EdgePage]]
  /\ UNCHANGED <<disabled, graph, count, ledger, alerts, step, astray>>

EdgeGone(u, v, s) ==
  CASE s = "friends"   -> friends' = friends \ {{u, v}} /\ UNCHANGED follows
    [] s = "following" -> follows' = follows \ {<<u, v>>} /\ UNCHANGED friends
    [] s = "followers" -> follows' = follows \ {<<v, u>>} /\ UNCHANGED friends

PeersCounter(s) ==
  CASE s = "friends"   -> "friendCount"
    [] s = "following" -> "followerCount"
    [] s = "followers" -> "followingCount"

(* removeFriendEdges, removeFollowEdges: an edge and the peer's counter, in
   a transaction that does not read the edge again. *)
RemoveEdge(w, v) ==
  /\ worker[w] # Idle /\ worker[w].step <= 3 /\ v \in worker[w].left
  /\ LET s == Steps[worker[w].step]
     IN  /\ EdgeGone(worker[w].on, v, s)
         /\ count' = Counted({<<v, PeersCounter(s)>>}, {})
         /\ astray' = astray \cup
              {<<p, PeersCounter(s)>> : p \in {v} \ Peers(worker[w].on, s)}
  /\ worker' = [worker EXCEPT ![w].left = @ \ {v}]
  /\ UNCHANGED <<disabled, incoming, sent, blocks, ledger, alerts, step>>

(* removeRequestEdges: the requests of the page and their mirrors, in one
   batch. *)
RemoveRequests(w) ==
  /\ worker[w] # Idle /\ worker[w].step >= 4 /\ worker[w].left # {}
  /\ LET u == worker[w].on
         gone == IF Steps[worker[w].step] = "friendRequests"
                 THEN worker[w].left \X {u} ELSE {u} \X worker[w].left
     IN /\ incoming' = incoming \ gone /\ sent' = sent \ gone
        /\ astray' = astray \cup {<<p[1], "pendingOutgoing">> : p \in gone \cap sent}
                            \cup {<<p[2], "pendingIncoming">> : p \in gone \cap incoming}
  /\ worker' = [worker EXCEPT ![w].left = {}]
  /\ UNCHANGED <<disabled, friends, follows, blocks, count, ledger, alerts, step>>

(* A page that was not full ends its step. *)
EndPage(w) ==
  /\ worker[w] # Idle /\ worker[w].left = {}
  /\ step' = [step EXCEPT ![worker[w].on] =
                IF worker[w].full THEN @ ELSE Max({@, worker[w].step + 1})]
  /\ worker' = [worker EXCEPT ![w] = Idle]
  /\ UNCHANGED <<disabled, graph, count, ledger, alerts, astray>>

(* A worker that fails or dies leaves its page; the next reads it again. *)
WorkerDies(w) ==
  /\ worker[w] # Idle
  /\ worker' = [worker EXCEPT ![w] = Idle]
  /\ UNCHANGED <<disabled, graph, count, ledger, alerts, step, astray>>

--------------------------------
Calls ==
  \/ \E a, b \in Users :
       \/ Request(a, b) \/ HealMirror(a, b)
       \/ Accept(a, b) \/ Decline(a, b) \/ CancelRequest(a, b)
       \/ RemoveFriend(a, b) \/ Follow(a, b) \/ Unfollow(a, b)
       \/ Block(a, b) \/ Unblock(a, b)
  \/ \E n \in alerts : DismissAlert(n)

SocialStage ==
  \/ \E u \in Users : RequestDeletion(u) \/ \E w \in Workers : ReadPage(w, u)
  \/ \E w \in Workers : \/ \E v \in Users : RemoveEdge(w, v)
                        \/ RemoveRequests(w) \/ EndPage(w) \/ WorkerDies(w)

Next == Calls \/ SocialStage
Spec == Init /\ [][Next]_vars

--------------------------------
TypeOK ==
  /\ disabled \subseteq Users
  /\ friends \subseteq {{p[1], p[2]} : p \in Pairs}
  /\ UNION {follows, incoming, sent, blocks} \subseteq Pairs
  /\ count \in [Users -> [Counters -> Nat]]
  /\ \A u \in Users, k \in Kinds : ledger[u][k] \in Unmigrated..(maximum(k) + 1)
  /\ alerts \subseteq {"friendRequest", "friendAccepted", "follow"} \X Users \X Users
  /\ step \in [Users -> 0..(Len(Steps) + 1)]
  /\ astray \subseteq Users \X (Counters \cup Kinds)

(* The counters on the profile of an active user are the sizes of the
   collections they stand for, whatever the order of requests, acceptances,
   unfollows and blocks (social_graph.js:1089-2322) and whoever leaves; but a
   counter that the social stage has decremented for an edge that the peer had
   removed since the page was read, which stages.js:356-373 does not read
   again, is wrong from then on. *)
CountsExact ==
  \A u \in Users \ disabled, c \in Counters :
    <<u, c>> \in astray \/ count[u][c] = Cardinality(
      CASE c = "friendCount"    -> {f \in friends : u \in f}
        [] c = "followingCount" -> {p \in follows : p[1] = u}
        [] c = "followerCount"  -> {p \in follows : p[2] = u})

(* The private ledger, once it has counted a collection, keeps counting it
   exactly, unless the collection was above the maximum when it was first
   counted (social_graph.js:274-332), or the social stage has removed a request
   of it, whose place it does not give back (stages.js:434-456). *)
LedgerExact ==
  \A u \in Users \ disabled, k \in Kinds :
    ledger[u][k] \in 0..maximum(k) =>
      <<u, k>> \in astray \/ ledger[u][k] = Cardinality(collection(u, k))

(* No user ever has more pending requests or blocks than the maximum, except
   the requests from before the ledger (social_graph.js:1344-1360). *)
CollectionsBounded ==
  \A u \in Users, k \in Kinds :
    Cardinality(collection(u, k) \ LegacyRequests) <= maximum(k)

(* A block leaves nothing between the two, in either direction, and nothing
   comes back while it stands (social_graph.js:2065-2322). *)
BlocksSever ==
  \A p \in blocks :
    /\ {p[1], p[2]} \notin friends
    /\ {p, <<p[2], p[1]>>} \cap UNION {follows, incoming, sent} = {}
    /\ \A n \in alerts : {n[2], n[3]} # {p[1], p[2]}

(* Two users are related at most once: never friends and pending at the same
   time, never pending in both directions (social_graph.js:1228-1275). *)
OneRelation ==
  \A p \in incoming :
    {p[1], p[2]} \notin friends /\ <<p[2], p[1]>> \notin incoming

(* An alert stands only while the edge it announces does: a request that was
   withdrawn, resolved or severed leaves no actionable alert behind
   (social_graph.js:1690-1694, docs/Bugs.md:5292-5297).  Those of somebody who
   leaves stay. *)
AlertsHaveEdges ==
  \A n \in alerts : {n[2], n[3]} \cap disabled = {} =>
    CASE n[1] = "friendRequest"  -> <<n[2], n[3]>> \in incoming
      [] n[1] = "friendAccepted" -> {n[2], n[3]} \in friends
      [] n[1] = "follow"         -> <<n[2], n[3]>> \in follows

(* When the social stage has walked a step, no edge of that step is left,
   and none comes back: the calls of the others refuse a disabled account
   (stages.js:526-560). *)
LeaversHaveNoEdges ==
  \A u \in Users, i \in 1..Len(Steps) : step[u] > i => Peers(u, Steps[i]) = {}
============================================================================
