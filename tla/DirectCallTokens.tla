--------------------------- MODULE DirectCallTokens ---------------------------
(***************************************************************************)
(* createDirectCallToken of functions/calls/direct_calls.js on top of the  *)
(* calls it serves.  The handler is three transactions with a signature in *)
(* between, so a call may be answered, ended or barred, a device changed   *)
(* and the same request retried between any two of its steps.              *)
(*                                                                         *)
(*   run       the handler invocations in progress                         *)
(*   stored    the token operation's ledger, by requestId                  *)
(*   answers   the responses that left the server                          *)
(*   minted    how many tokens were signed (bounded by MaxMints)           *)
(***************************************************************************)
EXTENDS DirectCalls

CONSTANTS
  Handlers,    \* handler invocations in progress at a time
  RequestIds,  \* client request ids, each scoped to the account that sends it
  Requested,   \* what clients ask for: a set of Input records
  TokenTTL,    \* TOKEN_TTL_SECONDS, in ticks
  MaxMints     \* bound: the number of signatures

\* What a request asks for: its input hash and its owner.
Input == [user : Users, call : Calls, device : DeviceOrNone,
          acknowledges : BOOLEAN]

ASSUME TokenConstantsAssumption ==
  /\ None \notin RequestIds
  /\ Requested \subseteq Input
  /\ TokenTTL \in Nat \ {0}
  /\ MaxMints \in Nat

VARIABLES run, stored, answers, minted

tokenVars == <<run, stored, answers, minted>>
allVars == <<vars, tokenVars>>

\* A signed token; id tells two signatures apart.
Token == [id : 1 .. MaxMints, user : Users, call : Calls,
          device : DeviceOrNone, media : Media, expiresAt : Nat]

Ready == [phase |-> "ready"]

Invocation ==
  {Ready} \cup
  [phase : {"authorize"}, requestId : RequestIds \cup {None}, input : Requested,
   startedAt : Times] \cup
  [phase : {"record"}, requestId : RequestIds \cup {None}, input : Requested,
   startedAt : Times, token : Token]

TokenTypeOK ==
  /\ run \in [Handlers -> Invocation]
  /\ stored \in [RequestIds \X Users -> {Ready} \cup [input : Requested, token : Token]]
  /\ answers \subseteq [requestId : RequestIds \cup {None}, token : Token]
  /\ minted \in 0 .. MaxMints

TokenInit ==
  /\ Init
  /\ run = [h \in Handlers |-> Ready]
  /\ stored = [op \in RequestIds \X Users |-> Ready]
  /\ answers = {}
  /\ minted = 0

--------------------------------
\* The ledger of the operation, if the request names one and it completed.
HasStored(q, input) == q # None /\ stored[<<q, input.user>>] # Ready

\* completedOperationReplay: the stored token answers the same request again
\* until it expires; any other use of the requestId is refused.
Replays(q, input, time) ==
  /\ HasStored(q, input)
  /\ stored[<<q, input.user>>].input = input
  /\ stored[<<q, input.user>>].token.expiresAt > time

Respond(q, token) == answers' = answers \cup {[requestId |-> q, token |-> token]}

Return(h) == run' = [run EXCEPT ![h] = Ready]

\* The first transaction: a completed request is answered from its ledger.
ReplayToken(h, q, input, t) ==
  /\ run[h] = Ready
  /\ Replays(q, input, t)
  /\ Respond(q, stored[<<q, input.user>>].token)
  /\ UNCHANGED <<vars, run, stored, minted>>

\* Otherwise the attempt is charged and the handler goes on.
RequestToken(h, q, input, t) ==
  /\ run[h] = Ready
  /\ ~HasStored(q, input)
  /\ run' = [run EXCEPT ![h] = [phase |-> "authorize", requestId |-> q,
                                input |-> input, startedAt |-> t]]
  /\ UNCHANGED <<vars, stored, answers, minted>>

AuthorizedRequest(input, t) ==
  Authorized(input.call, input.user, input.device, input.acknowledges, t)

\* The second transaction authorizes, and the token is signed for the media
\* the call document had in it.
MintToken(h, t) ==
  LET r == run[h]
  IN /\ r.phase = "authorize"
     /\ AuthorizedRequest(r.input, t)
     /\ minted < MaxMints
     /\ minted' = minted + 1
     /\ run' = [run EXCEPT ![h] =
          [phase |-> "record", requestId |-> r.requestId, input |-> r.input,
           startedAt |-> r.startedAt,
           token |-> [id |-> minted + 1, user |-> r.input.user,
                      call |-> r.input.call, device |-> r.input.device,
                      media |-> call[r.input.call].media,
                      expiresAt |-> r.startedAt + TokenTTL]]]
     /\ UNCHANGED <<vars, stored, answers>>

\* The third transaction finds that a concurrent run of the same request has
\* stored its token, and answers with that one.
AnswerStored(h) ==
  LET r == run[h]
  IN /\ r.phase = "record"
     /\ Replays(r.requestId, r.input, r.startedAt)
     /\ Respond(r.requestId, stored[<<r.requestId, r.input.user>>].token)
     /\ Return(h)
     /\ UNCHANGED <<vars, stored, minted>>

\* Mutant of Unanswered: the last transaction does not look for a stored token.
AlwaysUnanswered(r) == TRUE

Unanswered(r) == ~HasStored(r.requestId, r.input)

\* Mutant of Revalidate: the last transaction trusts the second one.
TrustEarlierAuthorization(r, t) ==
  /\ mirror' = [mirror EXCEPT ![r.input.call] = @ \cup {r.input.user}]
  /\ UNCHANGED <<now, call, lock, ledger, signal, bell, missed, job, worker,
                 frozen, barred, displaced>>

Revalidate(r, t) ==
  RecordSession(r.input.call, r.input.user, r.input.device,
                r.input.acknowledges, t)

\* Or it authorizes once more, writes the session mirror and the ledger, and
\* only then does the token leave the server.
AnswerMinted(h, t) ==
  LET r == run[h]
  IN /\ r.phase = "record"
     /\ Unanswered(r)
     /\ Revalidate(r, t)
     /\ stored' = IF r.requestId = None THEN stored
                  ELSE [stored EXCEPT ![<<r.requestId, r.input.user>>] =
                         [input |-> r.input, token |-> r.token]]
     /\ Respond(r.requestId, r.token)
     /\ Return(h)
     /\ UNCHANGED minted

\* A refusal, an error or the end of the instance: nothing is written.
Refuse(h) ==
  /\ run[h] # Ready
  /\ Return(h)
  /\ UNCHANGED <<vars, stored, answers, minted>>

TokenNext ==
  \/ CallNext /\ UNCHANGED tokenVars
  \/ \E h \in Handlers, q \in RequestIds \cup {None}, input \in Requested,
        t \in Readings : ReplayToken(h, q, input, t) \/ RequestToken(h, q, input, t)
  \/ \E h \in Handlers, t \in Readings : MintToken(h, t) \/ AnswerMinted(h, t)
  \/ \E h \in Handlers : AnswerStored(h) \/ Refuse(h)

TokenSpec == TokenInit /\ [][TokenNext]_allVars

--------------------------------
\* Retries of one request, concurrent or after a lost response, are all
\* answered with the same token: a second signature never leaves the server.
OneTokenPerRequest ==
  \A a, b \in answers :
    /\ a.requestId = b.requestId /\ a.requestId # None
    /\ a.token.user = b.token.user
    => a.token = b.token

\* A token that left the server grants exactly the media the two devices
\* settled on at the answer, to a participant, on the device that is bound.
TokenMatchesAnswer ==
  \A a \in answers :
    LET c == a.token.call IN
      /\ call[c].status \in {"active", "ended"}
      /\ a.token.user \in Participants(c)
      /\ a.token.media = call[c].media
      /\ Bound(c, a.token.user, a.token.device)

\* Every token that left the server can be revoked: its holder has a session
\* mirror as long as the call's teardown or the account's own has not run.
TokensIndexed ==
  \A a \in answers :
    \/ a.token.user \in mirror[a.token.call]
    \/ call[a.token.call].status = "ended"
    \/ a.token.user \in frozen

\* With the token handler in place of its last transaction alone, the calls
\* still behave as the calls do on their own.
CallsSpec == Spec

=============================================================================
