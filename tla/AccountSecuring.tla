--------------------------- MODULE AccountSecuring ---------------------------
(***************************************************************************)
(* One account that was registered with a password on an address nobody    *)
(* had verified, and whose owner then signs in with Google or Apple.  The  *)
(* owner's call and the sweep end the older sessions once and purge their  *)
(* push registrations; a call that dies, or whose purge runs out of pages, *)
(* is resumed from the checkpoint on the ledger row.                       *)
(***************************************************************************)
EXTENDS Naturals, FiniteSetsExt

CONSTANTS
  Nil,
  Tokens, Own,    \* push registrations by id; Own is on the owner's device
  PageSize, MaxPages, \* bounds of one purge
  Legacy,         \* was the account created before the trigger existed?
  Overlap,        \* may the owner's call and the sweep run together?
  MaxTime, MaxDeaths \* bounds: the clock, calls that die

Stamps == (0 .. MaxTime + 1) \cup {Nil}
Users == [password : BOOLEAN, verified : BOOLEAN, federated : BOOLEAN,
          validSince : 0 .. MaxTime, signedAt : 0 .. MaxTime]
Rows == [state : {"none", "pending", "verified", "remediated"},
         base : Stamps, checkpoint : Stamps]

ASSUME AccountSecuringAssumption ==
  /\ Tokens \subseteq Nat \ {0} /\ IsFiniteSet(Tokens) /\ Own \in Tokens
  /\ {PageSize, MaxPages, MaxTime} \subseteq Nat \ {0} /\ MaxDeaths \in Nat
  /\ {Legacy, Overlap} \subseteq BOOLEAN
  /\ Nil \notin Nat /\ Nil \notin Users /\ Nil \notin Rows

VARIABLES
  now,
  user,     \* the Auth record
  old,      \* authTime of the last session that the first password opened
  session,  \* authTime of the owner's session, or Nil
  added,    \* has the owner set a password since?
  event,    \* is the creation event still to be delivered?
  row,      \* authPasswordLedger/{uid}
  epoch,    \* users/{uid}.authSessionEpoch; 0 is absent
  tokens,   \* when each registration was written, or Nil
  job, deaths,
  crossed,  \* history: the jobs during which the other worker has written
  overtaken \* history: has such a job written after it?

people == <<user, old, session, added>>
store == <<row, epoch, tokens>>
vars == <<now, people, event, store, job, deaths, crossed, overtaken>>

Workers == {"call", "sweep"}
Idle == [at |-> "idle", walk |-> FALSE, auth |-> Nil, user |-> Nil, row |-> Nil,
         epoch |-> 0, cursor |-> 0, pages |-> 0, page |-> {}]
NoRow == [state |-> "none", base |-> Nil, checkpoint |-> Nil]

Tick == now < MaxTime /\ now' = now + 1 /\ UNCHANGED <<people, event, store, job, deaths>>

--------------------------------
(* The people and Firebase Auth.                                           *)

\* Whoever knows the first password.
PasswordSignsIn ==
  /\ user.password /\ ~user.federated /\ old # now
  /\ old' = now /\ user' = [user EXCEPT !.signedAt = now]
  /\ UNCHANGED <<now, session, added, event, store, job, deaths>>

VerifiesEmail ==
  /\ user.password /\ ~user.federated /\ ~user.verified
  /\ user' = [user EXCEPT !.verified = TRUE]
  /\ UNCHANGED <<now, old, session, added, event, store, job, deaths>>

\* The first Google or Apple sign-in replaces an unverified password, links a
\* verified one, and may be linked beside an unverified one.
SignsInFederated ==
  /\ ~user.federated /\ now > 0
  /\ session' = now
  /\ \/ /\ ~user.verified
        /\ user' = [user EXCEPT !.password = FALSE, !.verified = TRUE, !.federated = TRUE,
                                !.validSince = now, !.signedAt = now]
     \/ user' = [user EXCEPT !.federated = TRUE, !.signedAt = now]
  /\ UNCHANGED <<now, old, added, event, store, job, deaths>>

SignsInAgain ==
  /\ session # Nil /\ session < now
  /\ session' = now /\ user' = [user EXCEPT !.signedAt = now]
  /\ UNCHANGED <<now, old, added, event, store, job, deaths>>

SetsPassword ==
  /\ session # Nil /\ session >= epoch /\ user.verified /\ ~user.password
  /\ user' = [user EXCEPT !.password = TRUE, !.validSince = now]
  /\ added' = TRUE
  /\ UNCHANGED <<now, old, session, event, store, job, deaths>>

\* The rules take a registration from a session that is not before the epoch.
Registers(t) ==
  /\ LET auth == IF t = Own /\ session # Nil THEN session ELSE old
     IN  auth >= epoch
  /\ tokens[t] # now
  /\ tokens' = [tokens EXCEPT ![t] = now]
  /\ UNCHANGED <<now, people, event, row, epoch, job, deaths>>

--------------------------------
(* The verdict, from the record and the row alone.                         *)

Pending(r) == r.state = "pending"

credentialsChanged(u, r) == Pending(r) /\ (r.base = Nil \/ u.validSince > r.base)

planRemediation(u, r) ==
  CASE ~u.federated /\ u.password /\ ~u.verified -> "unverifiedPassword"
    [] ~u.federated /\ u.password /\ Pending(r) ->
         IF credentialsChanged(u, r) THEN "unconfirmedPassword" ELSE "verified"
    [] u.federated /\ \/ u.password /\ ~u.verified
                      \/ Pending(r) /\ ~u.password
                      \/ credentialsChanged(u, r) -> "takeover"
    [] u.federated /\ u.password /\ Pending(r) -> "ambiguous"
    [] OTHER -> "clean"

\* The checkpoint stands while there is no credential left to remove.
sessionsAlreadyEnded(u, r) == Pending(r) /\ r.checkpoint # Nil /\ ~u.password

--------------------------------
(* Seeding the ledger.                                                     *)

\* Evidence is the record as the event carries it; create() refuses a repeat.
recordPasswordAccountOrigin ==
  /\ event /\ event' = FALSE
  /\ row' = IF row = NoRow THEN [NoRow EXCEPT !.state = "pending", !.base = 0] ELSE row
  /\ UNCHANGED <<now, people, epoch, tokens, job, deaths>>

\* The walk's seeding merges, and clears a checkpoint when it re-arms.
watchUnverifiedPassword(w) ==
  /\ job[w].at = "read" /\ job[w].walk
  /\ planRemediation(job[w].user, NoRow) = "unverifiedPassword"
  /\ row' = IF Pending(job[w].row) THEN row
            ELSE [state |-> "pending", base |-> job[w].user.validSince,
                  checkpoint |-> IF job[w].row = NoRow THEN row.checkpoint ELSE Nil]
  /\ job' = [job EXCEPT ![w] = Idle]
  /\ UNCHANGED <<now, people, event, epoch, tokens, deaths>>

--------------------------------
(* remediateAccount.                                                       *)

MayStart(w) == job[w].at = "idle" /\ (Overlap \/ \A v \in Workers : job[v].at = "idle")

\* The owner's call reads the record, then the row.
secureFederatedSignIn ==
  /\ MayStart("call") /\ session # Nil
  /\ job' = [job EXCEPT !["call"] = [Idle EXCEPT !.at = "half", !.auth = session,
                                                 !.user = user]]
  /\ UNCHANGED <<now, people, event, store, deaths>>

\* The sweep's first part reads a page of pending rows, then their records.
sweepLedger ==
  /\ MayStart("sweep") /\ Pending(row)
  /\ job' = [job EXCEPT !["sweep"] = [Idle EXCEPT !.at = "half", !.row = row]]
  /\ UNCHANGED <<now, people, event, store, deaths>>

\* Its second part walks the records, then reads the rows of those it picked.
sweepUsers ==
  /\ MayStart("sweep")
  /\ planRemediation(user, NoRow) \in {"unverifiedPassword", "takeover"}
  /\ job' = [job EXCEPT !["sweep"] = [Idle EXCEPT !.at = "half", !.walk = TRUE, !.user = user]]
  /\ UNCHANGED <<now, people, event, store, deaths>>

ReadsOther(w) ==
  /\ job[w].at = "half"
  /\ job' = [job EXCEPT ![w].at = "read",
                        ![w].user = IF @ = Nil THEN user ELSE @,
                        ![w].row = IF @ = Nil THEN row ELSE @]
  /\ UNCHANGED <<now, people, event, store, deaths>>

Seeds(w) == job[w].walk /\ planRemediation(job[w].user, NoRow) = "unverifiedPassword"

\* Nothing to do, or the row can stop watching this password.
AnswersClean(w) ==
  LET verdict == planRemediation(job[w].user, job[w].row)
  IN  /\ job[w].at = "read" /\ ~Seeds(w) /\ verdict # "takeover"
      /\ row' = IF verdict \in {"verified", "ambiguous"}
                THEN [row EXCEPT !.state = "verified"] ELSE row
      /\ job' = [job EXCEPT ![w] = Idle]
      /\ UNCHANGED <<now, people, event, epoch, tokens, deaths>>

TakesOver(w) ==
  job[w].at = "read" /\ ~Seeds(w) /\ planRemediation(job[w].user, job[w].row) = "takeover"

\* The row records that the sessions were ended: continue at the purge.
Resumes(w) ==
  /\ TakesOver(w) /\ sessionsAlreadyEnded(job[w].user, job[w].row)
  /\ job' = [job EXCEPT ![w].at = "purge", ![w].epoch = job[w].row.checkpoint]
  /\ UNCHANGED <<now, people, event, store, deaths>>

\* 1. No new session from the first password.
Unlinks(w) ==
  /\ TakesOver(w) /\ ~sessionsAlreadyEnded(job[w].user, job[w].row)
  /\ user' = IF job[w].user.password
             THEN [user EXCEPT !.password = FALSE] ELSE user
  /\ job' = [job EXCEPT ![w].at = "revoke"]
  /\ UNCHANGED <<now, old, session, added, event, store, deaths>>

\* 2. No refresh of a session that already exists.
Revokes(w) ==
  /\ job[w].at = "revoke"
  /\ user' = [user EXCEPT !.validSince = now]
  /\ job' = [job EXCEPT ![w].at = "epoch"]
  /\ UNCHANGED <<now, old, session, added, event, store, deaths>>

(* mutant: the epoch is this second, in which the password may still sign in *)
NextEpoch_ThisSecond == IF epoch > now THEN epoch ELSE now

NextEpoch == IF epoch > now + 1 THEN epoch ELSE now + 1

\* 3. The epoch and the checkpoint in one transaction.
writeSessionEpoch(w) ==
  /\ job[w].at = "epoch"
  /\ epoch' = NextEpoch /\ row' = [row EXCEPT !.checkpoint = NextEpoch]
  /\ job' = [job EXCEPT ![w].at = "purge", ![w].epoch = NextEpoch]
  /\ UNCHANGED <<now, people, event, tokens, deaths>>

After(cursor) == {t \in Tokens : tokens[t] # Nil /\ t > cursor}
Page(cursor) == {t \in After(cursor) : Cardinality({u \in After(cursor) : u < t}) < PageSize}

\* 4. One page of registrations; what was read is deleted by a later write.
ReadsPage(w) ==
  /\ job[w].at = "purge" /\ job[w].pages < MaxPages /\ Page(job[w].cursor) # {}
  /\ job' = [job EXCEPT ![w].at = "delete",
                        ![w].page = {<<t, tokens[t]>> : t \in Page(job[w].cursor)}]
  /\ UNCHANGED <<now, people, event, store, deaths>>

PurgeEnds(w) == job[w].pages < MaxPages /\ Page(job[w].cursor) = {}

\* The owner keeps the calling device if it is the latest sign-in.
callerMayKeepDevice(w) == job[w].auth # Nil /\ job[w].auth >= job[w].user.signedAt

\* A kept registration is stamped with the epoch: the batch fails without it.
purgeFcmTokens(w) ==
  LET ids == {p[1] : p \in job[w].page}
      keeps == Own \in ids /\ callerMayKeepDevice(w)
      fresh == {p[1] : p \in {q \in job[w].page : q[2] >= job[w].epoch}}
      kept == fresh \cup (IF keeps THEN {Own} ELSE {})
  IN  /\ job[w].at = "delete"
      /\ IF keeps /\ tokens[Own] = Nil
         THEN UNCHANGED tokens /\ job' = [job EXCEPT ![w] = Idle]
         ELSE /\ tokens' = [t \in Tokens |-> IF t \in ids \ kept THEN Nil
                                            ELSE IF keeps /\ t = Own THEN job[w].epoch
                                            ELSE tokens[t]]
              /\ job' = [job EXCEPT
                   ![w].at = IF Cardinality(ids) < PageSize THEN "restore" ELSE "purge",
                   ![w].page = {}, ![w].cursor = Max(ids), ![w].pages = @ + 1]
      /\ UNCHANGED <<now, people, event, row, epoch, deaths>>

PurgeFinishes(w) ==
  /\ job[w].at = "purge" /\ PurgeEnds(w)
  /\ job' = [job EXCEPT ![w].at = "restore"]
  /\ UNCHANGED <<now, people, event, store, deaths>>

\* "securing": the row stays pending and the next call continues.
OutOfPages(w) ==
  /\ job[w].at = "purge" /\ ~PurgeEnds(w) /\ job[w].pages = MaxPages
  /\ job' = [job EXCEPT ![w] = Idle]
  /\ UNCHANGED <<now, people, event, store, deaths>>

\* 5. The owner's address, verified, where a password was unlinked.
Restores(w) ==
  /\ job[w].at = "restore"
  /\ user' = IF job[w].user.password THEN [user EXCEPT !.verified = TRUE] ELSE user
  /\ job' = [job EXCEPT ![w].at = "audit"]
  /\ UNCHANGED <<now, old, session, added, event, store, deaths>>

\* 6. The audit record and the row, together.
Audits(w) ==
  /\ job[w].at = "audit"
  /\ row' = [row EXCEPT !.state = "remediated", !.checkpoint = Nil]
  /\ job' = [job EXCEPT ![w] = Idle]
  /\ UNCHANGED <<now, people, event, epoch, tokens, deaths>>

Dies(w) ==
  /\ job[w].at # "idle" /\ deaths < MaxDeaths
  /\ job' = [job EXCEPT ![w] = Idle] /\ deaths' = deaths + 1
  /\ UNCHANGED <<now, people, event, store>>

--------------------------------
Init ==
  /\ now = 0
  /\ user = [password |-> TRUE, verified |-> FALSE, federated |-> FALSE,
             validSince |-> 0, signedAt |-> 0]
  /\ old = 0 /\ session = Nil /\ added = FALSE
  /\ event = ~Legacy
  /\ row = NoRow /\ epoch = 0
  /\ tokens = [t \in Tokens |-> 0]
  /\ job = [w \in Workers |-> Idle] /\ deaths = 0
  /\ crossed = {} /\ overtaken = FALSE

Works(w) ==
  \/ ReadsOther(w) \/ watchUnverifiedPassword(w) \/ AnswersClean(w)
  \/ Resumes(w) \/ Unlinks(w) \/ Revokes(w) \/ writeSessionEpoch(w)
  \/ ReadsPage(w) \/ purgeFcmTokens(w) \/ PurgeFinishes(w) \/ OutOfPages(w)
  \/ Restores(w) \/ Audits(w)

Acts ==
  \/ Tick
  \/ PasswordSignsIn \/ VerifiesEmail \/ SignsInFederated \/ SignsInAgain \/ SetsPassword
  \/ \E t \in Tokens : Registers(t)
  \/ recordPasswordAccountOrigin \/ secureFederatedSignIn \/ sweepLedger \/ sweepUsers
  \/ \E w \in Workers : Works(w) \/ Dies(w)

Writes(w) == job'[w] # job[w] /\ <<user, row, epoch>>' # <<user, row, epoch>>

Remembers ==
  /\ crossed' = {w \in Workers : /\ job[w].at # "idle" /\ job'[w].at # "idle"
                                 /\ w \in crossed \/ \E v \in Workers \ {w} : Writes(v)}
  /\ overtaken' = (overtaken \/ \E w \in crossed : Writes(w))

Next == Acts /\ Remembers

Spec == Init /\ [][Next]_vars

--------------------------------
TypeOK ==
  /\ now \in 0 .. MaxTime /\ deaths \in 0 .. MaxDeaths
  /\ user \in Users
  /\ old \in 0 .. MaxTime /\ session \in Stamps /\ {added, event} \subseteq BOOLEAN
  /\ row \in Rows
  /\ epoch \in 0 .. MaxTime + 1 /\ tokens \in [Tokens -> Stamps]
  /\ \A w \in Workers : job[w].page \subseteq Tokens \X Stamps
  /\ crossed \subseteq Workers /\ overtaken \in BOOLEAN

\* An account is only called remediated when the rules refuse every session the
\* first password opened, and none of the older registrations is left.
Secured ==
  row.state = "remediated" =>
    /\ old < epoch
    /\ \A t \in Tokens \ {Own} : tokens[t] = Nil

\* Push delivery ignores what was written before the epoch: from the moment it
\* is written, nothing an older session registered is delivered to.
OldNeverDelivered ==
  epoch > 0 => \A t \in Tokens \ {Own} : tokens[t] = Nil \/ tokens[t] < epoch

\* The two together: what was opened before the takeover was found is over.
OldSessionsEnd == Secured /\ OldNeverDelivered

\* A password whose holder verified the address before Google or Apple was
\* linked is never taken from them, whatever older record a worker acts on.
VerifiedStays ==
  (user.password /\ user.verified /\ ~added /\ user.validSince = 0) => user'.password

\* "never twice for one takeover": however often calls and sweeps die and
\* resume, the epoch is written once, unless a new password was added, or call
\* and sweep overlapped and one wrote what it had decided after the other had
\* written: the code takes no lease between them.
SessionsEndOnce == (epoch > 0 /\ ~added) => epoch' = epoch \/ overtaken'

\* A password the owner sets once the account is remediated is theirs, with the
\* same exception.
NewPasswordStays ==
  (row.state = "remediated" /\ user.password) => user'.password \/ overtaken'

=============================================================================
