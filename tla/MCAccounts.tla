---------------------------- MODULE MCAccounts ----------------------------
(***************************************************************************)
(* TLC instances of the components that settle what an account is entitled *)
(* to: its sessions, its payments, its voice time, its Page and its inbox. *)
(* They share no state in the code, so a behaviour plays one of them,      *)
(* chosen in the initial state, while the others stand still.              *)
(***************************************************************************)
EXTENDS AccountSecuring, TLC

CONSTANTS s1, q1, none

TwoTokens == {1, 2}

\* The owner's call and the sweep run one at a time and die, or together: for
\* one second, or for two in which nobody uses the first password or registers.
SecuringKinds == {"alone", "overlap", "again"}
Moves(kind) ==
  CASE kind = "alone" -> \E w \in Workers : job'[w].at = "idle"
    [] kind = "overlap" -> now' <= 1 /\ deaths' = 0
    [] kind = "again" -> /\ deaths' = 0 /\ old' = 0
                         /\ \A t \in Tokens : tokens'[t] \in {tokens[t], Nil, epoch'}

\* One subscription with a refund that Stripe delivers twice, a pass beside it,
\* and an account that is deleted.
BillingKinds == {"renewals", "passes", "deleted"}
PassesOf(kind) == IF kind = "renewals" THEN {} ELSE {q1}
PeriodsOf(kind) == IF kind = "renewals" THEN 2 ELSE 1
RefundsOf(kind) == CASE kind = "renewals" -> {<<s1, 1>>}
                     [] kind = "passes" -> {<<q1, 0>>}
                     [] OTHER -> {}
DeliveriesOf(kind) == IF kind = "deleted" THEN 1 ELSE 2
ReadingOf(kind) == IF kind = "deleted" THEN 1 ELSE 2
GrantsOf(kind) == IF kind = "deleted" THEN 1 ELSE 0

\* Two devices of one person in two rooms, or two people in one, one of whom
\* has a day that cannot be read.
CreditKinds == {"devices", "rooms"}
TwoSessions == {1, 2}
UsersOf(kind) == IF kind = "devices" THEN {1} ELSE {1, 2}
RoomsOf(kind) == IF kind = "devices" THEN {1, 2} ELSE {1}
PoisonedOf(kind) == IF kind = "devices" THEN {} ELSE {2}
FreshOf(kind) == IF kind = "devices" THEN 2 ELSE 3
DayOf(kind) == 2
EndOf(kind) == IF kind = "devices" THEN 3 ELSE 4
BoundOf(kind) == IF kind = "devices" THEN 1 ELSE 2
ChangesOf(kind) == IF kind = "devices" THEN 0 ELSE 1

\* A Page under a sweep that may be late and a brake that may be engaged.
PageKinds == {"page"}

\* An inbox, and a thread with edits and tombstones.
ThreadKinds == {"inbox", "thread"}
OperationsOf(kind) ==
  IF kind = "inbox" THEN {"read", "archive", "forget", "hide"}
  ELSE {"reply", "edit", "delete", "react", "remove", "block"}
WordsOf(kind) == IF kind = "inbox" THEN {"text"} ELSE {"text", "gif", "media"}
PremiumOf(kind) == IF kind = "inbox" THEN {"a"} ELSE {}
PageOf(kind) == IF kind = "inbox" THEN 1 ELSE 2
EditsOf(kind) == IF kind = "inbox" THEN 0 ELSE 1
LongOf(kind) == 2

VARIABLES
  part,          \* the component whose life is played
  payStripe, payCharged, payEnded, payInbox, payReading, payPending, payPassEvents,
  payPurchases, payRisks, payRefunds, payWorkers, payBilling, payEnt, payDeletion,
  payDuplicates, payGrants,
  voiceNow, voicePlace, voiceJoinedAt, voiceLeftAt, voiceFinishedAt, voiceMuted,
  voiceSeated, voiceChanges, voiceRow, voiceDays, voiceOutbox, voiceLedger, voiceProgress,
  voiceSweep,
  pageAlive, pageGranted, pageGrants, pagePublic, pageAudience, pageName, pageProjected,
  pagePage, pageAge, pageLapses, pageTold, pageIndex, pageLapseEnabled, pageTrigger,
  pageChosen, pageSwept, pageMissed,
  threadConv, threadMsg, threadPriv, threadHides, threadEntitled, threadBlocked,
  threadSecret

payVars ==
  <<payStripe, payCharged, payEnded, payInbox, payReading, payPending, payPassEvents,
    payPurchases, payRisks, payRefunds, payWorkers, payBilling, payEnt, payDeletion,
    payDuplicates, payGrants>>

BillingOf(kind) == INSTANCE PremiumBilling WITH
  Subs <- {s1}, Passes <- PassesOf(kind), MaxPeriod <- PeriodsOf(kind),
  Refundable <- RefundsOf(kind), Deliveries <- DeliveriesOf(kind),
  MaxReading <- ReadingOf(kind), MaxGrants <- GrantsOf(kind),
  MayDelete <- (kind = "deleted"), None <- none, stripe <- payStripe, charged <- payCharged,
  ended <- payEnded, inbox <- payInbox, reading <- payReading, pending <- payPending,
  passEvents <- payPassEvents, purchases <- payPurchases, risks <- payRisks,
  refunds <- payRefunds, workers <- payWorkers, billing <- payBilling, ent <- payEnt,
  deletion <- payDeletion, duplicates <- payDuplicates, grants <- payGrants

voiceVars ==
  <<voiceNow, voicePlace, voiceJoinedAt, voiceLeftAt, voiceFinishedAt, voiceMuted,
    voiceSeated, voiceChanges, voiceRow, voiceDays, voiceOutbox, voiceLedger, voiceProgress,
    voiceSweep>>

CreditOf(kind) == INSTANCE VoiceCredit WITH
  Sessions <- TwoSessions, Users <- UsersOf(kind), Rooms <- RoomsOf(kind),
  UserOf <- LAMBDA s : IF kind = "devices" THEN 1 ELSE s,
  RoomOf <- LAMBDA s : IF kind = "devices" THEN s ELSE 1, Poisoned <- PoisonedOf(kind),
  FreshFor <- FreshOf(kind), DayLength <- DayOf(kind), MaxIntervals <- BoundOf(kind),
  MaxSession <- 3, MaxTime <- EndOf(kind), MaxChanges <- ChangesOf(kind), None <- none,
  now <- voiceNow, place <- voicePlace, joinedAt <- voiceJoinedAt, leftAt <- voiceLeftAt,
  finishedAt <- voiceFinishedAt, muted <- voiceMuted, seated <- voiceSeated,
  changes <- voiceChanges, row <- voiceRow, days <- voiceDays, outbox <- voiceOutbox,
  ledger <- voiceLedger, progress <- voiceProgress, sweep <- voiceSweep

pageVars ==
  <<pageAlive, pageGranted, pageGrants, pagePublic, pageAudience, pageName, pageProjected,
    pagePage, pageAge, pageLapses, pageTold, pageIndex, pageLapseEnabled, pageTrigger,
    pageChosen, pageSwept, pageMissed>>

ThePage == INSTANCE PageStanding WITH
  Names <- {"ola"}, MaxLapses <- 2, MaxGrants <- 3, alive <- pageAlive, granted <- pageGranted,
  grants <- pageGrants, public <- pagePublic, audience <- pageAudience, name <- pageName,
  projected <- pageProjected, page <- pagePage, age <- pageAge, lapses <- pageLapses,
  told <- pageTold, index <- pageIndex, lapseEnabled <- pageLapseEnabled,
  trigger <- pageTrigger, chosen <- pageChosen, swept <- pageSwept,
  missed <- pageMissed

threadVars ==
  <<threadConv, threadMsg, threadPriv, threadHides, threadEntitled, threadBlocked,
    threadSecret>>

ThreadOf(kind) == INSTANCE DirectMessages WITH
  Users <- {"a", "b"}, Premium <- PremiumOf(kind), Kinds <- WordsOf(kind),
  readPageSize <- PageOf(kind), MaxMessages <- LongOf(kind), MaxEdits <- EditsOf(kind),
  Operations <- OperationsOf(kind), conv <- threadConv, msg <- threadMsg,
  priv <- threadPriv, hides <- threadHides, entitled <- threadEntitled,
  blocked <- threadBlocked, secret <- threadSecret

ASSUME InstancesAreLegal ==
  /\ \A kind \in BillingKinds : BillingOf(kind)!BillingAssumption
  /\ \A kind \in CreditKinds : CreditOf(kind)!PositiveLengths
  /\ ThePage!StandingAssumption
  /\ \A kind \in ThreadKinds : ThreadOf(kind)!MessagesAssumption

\* The kind an instance has when it is not its part that is played.
Plays(kind, kinds, other) == kind = IF part \in kinds THEN part ELSE other

AccountsInit ==
  /\ part \in SecuringKinds \cup BillingKinds \cup CreditKinds \cup PageKinds \cup ThreadKinds
  /\ Init
  /\ \E kind \in BillingKinds : Plays(kind, BillingKinds, "deleted") /\ BillingOf(kind)!Init
  /\ \E kind \in CreditKinds : Plays(kind, CreditKinds, "devices") /\ CreditOf(kind)!Init
  /\ ThePage!Init
  /\ part \notin PageKinds => pagePublic /\ ~pageAudience
  /\ \E kind \in ThreadKinds : Plays(kind, ThreadKinds, "inbox") /\ ThreadOf(kind)!Init

AccountsNext ==
  /\ UNCHANGED part
  /\ \/ /\ part \in SecuringKinds /\ Next /\ Moves(part)
        /\ UNCHANGED <<payVars, voiceVars, pageVars, threadVars>>
     \/ /\ \E kind \in BillingKinds : part = kind /\ BillingOf(kind)!Next
        /\ UNCHANGED <<vars, voiceVars, pageVars, threadVars>>
     \/ /\ \E kind \in CreditKinds : part = kind /\ CreditOf(kind)!Next
        /\ UNCHANGED <<vars, payVars, pageVars, threadVars>>
     \/ /\ part \in PageKinds /\ ThePage!Next
        /\ UNCHANGED <<vars, payVars, voiceVars, threadVars>>
     \/ /\ \E kind \in ThreadKinds : part = kind /\ ThreadOf(kind)!Next
        /\ UNCHANGED <<vars, payVars, voiceVars, pageVars>>

accountsVars == <<part, vars, payVars, voiceVars, pageVars, threadVars>>

AccountsSpec == AccountsInit /\ [][AccountsNext]_accountsVars

--------------------------------
(* What an account is shown or credited with is what it is owed: access that
   was paid, can be taken back and was not; the union of the time its devices
   were connected; a Page that is listed, private and warned as its owner's
   standing says; badges and previews of messages that can still be opened. *)
OwedIsTrue ==
  /\ \A kind \in BillingKinds : part = kind =>
       /\ BillingOf(kind)!AccessIsPaid /\ BillingOf(kind)!AccessIsRevocable
       /\ BillingOf(kind)!RefundedMeansRevoked /\ BillingOf(kind)!DeletedHasNoAccess
  /\ \A kind \in CreditKinds : part = kind =>
       /\ CreditOf(kind)!CreditIsTheUnion /\ CreditOf(kind)!CountedOnce
       /\ CreditOf(kind)!RoomEndReachesAll
       /\ CreditOf(kind)!BilledInsideRoom /\ CreditOf(kind)!DaysAreBounded
  /\ part \in PageKinds =>
       ThePage!IndexAgrees /\ ThePage!PrivacyHolds /\ ThePage!HiddenWasWarned
  /\ \A kind \in ThreadKinds : part = kind =>
       /\ ThreadOf(kind)!SecretReadsStaySecret /\ ThreadOf(kind)!BadgeHasMessages
       /\ ThreadOf(kind)!RevivedThreadsShowSomething /\ ThreadOf(kind)!PreviewIsLast

(* What an account has it does not lose to a repeated, late or older call: a
   second end of its sessions (but where call and sweep overlap, which
   AccountSecuring's overtaken records), a refund of another payment, a pass granted
   twice, a lapse decided from old reads, a cut-off or a cursor that moves
   back. *)
StepsAreOwed ==
  [][/\ part \in SecuringKinds => VerifiedStays /\ SessionsEndOnce /\ NewPasswordStays
     /\ \A kind \in BillingKinds : part = kind =>
          BillingOf(kind)!RefundTakesItsOwn /\ BillingOf(kind)!PassGrantedOnce
     /\ part \in PageKinds => ThePage!LapseIsLive
     /\ \A kind \in ThreadKinds : part = kind =>
          ThreadOf(kind)!PublicCursorFrozen /\ ThreadOf(kind)!CutOffHolds]_accountsVars
=============================================================================
