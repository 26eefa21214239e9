---------------------------- MODULE PageStanding ----------------------------
(***************************************************************************)
(* The standing of one Premium Page: may it be seen, and is it read-only?  *)
(* Five writers move it, each in one transaction of its own: the owner     *)
(* (create, update, resume, pause), the owner's PROFILE settings (privacy, *)
(* name, Creator audience), a moderator (suspend, lift), the lapse of the  *)
(* owner's VIP (a trigger and an hourly sweep), and account deletion.      *)
(* Each also writes the Page's entry of the visibility index, which the    *)
(* feed filters by before it reads any Page.                               *)
(*                                                                         *)
(* A lapsed Page is read-only, hidden after 30 days, and restored when the *)
(* capability returns. Its age is 0 (under 23 days), 1 (23 to 30) or 2     *)
(* (30 days and more); notices are keyed by the lapse they belong to.      *)
(***************************************************************************)
EXTENDS Naturals

CONSTANTS
  Names,         \* display names, all of them allowed for a Page
  MaxLapses,     \* bound: lapses of the Page
  MaxGrants      \* bound: changes of the capability

StandingAssumption ==
  /\ Names # {}
  /\ {MaxLapses, MaxGrants} \subseteq Nat

None == "none"
Statuses == {"active", "readOnly", "hidden"}
Decisions == {"restore", "readOnly", "hidden", "warn", "none"}

VARIABLES
  alive,      \* is the owner's account active?
  granted,    \* a live VIP grant or paid entitlement
  grants,     \* how often that changed
  public,     \* users/{uid}.profileVisibility = "public"
  audience,   \* users/{uid}.creatorAudienceEnabled
  name,       \* users/{uid}.displayName
  projected,  \* publicProfiles/{uid}.displayName, written by a trigger
  page,       \* pages/{uid}: [exists, status, lapse, paused, suspended, name, listed]
  age,        \* days since lapsedAt, as 0, 1 or 2
  lapses,     \* lapses so far; page.lapse is the number of the one it is in
  told,       \* the lapse notices sent: <<kind, lapse>>
  index,      \* the Page's entry of pageVisibility/v1
  lapseEnabled, \* appConfig/pagesV1.lapseEnabled; FALSE is the brake
  trigger,    \* a capability event to be delivered
  chosen,     \* what the sweep decided from its own reads, before it commits
  swept,      \* has the sweep judged the Page at this age, the brake released?
  missed      \* history: the lapses that were 30 days old before it had

owner == <<alive, granted, grants, public, audience, name, projected>>
clockwork == <<lapseEnabled, trigger, chosen, swept>>
lapse == <<age, lapses, told, missed>>
vars == <<owner, page, lapse, index, clockwork>>

Blank == [exists |-> FALSE, status |-> "active", lapse |-> 0, paused |-> FALSE,
          suspended |-> FALSE, name |-> None, listed |-> FALSE]

Exists == page.exists
Capable == alive /\ granted

Listed(p) == p.status = "active" /\ ~p.paused /\ ~p.suspended

WithListed(p) == [p EXCEPT !.listed = Listed(p)]

Entry(p) ==
  [notViewable |-> IF p.suspended THEN "suspended"
                   ELSE IF p.status = "hidden" THEN "hidden"
                   ELSE IF p.paused THEN "paused" ELSE None,
   since |-> IF p.status = "readOnly" THEN p.lapse ELSE 0]

\* the Page and its index entry, in one transaction
WritePage(p) == page' = WithListed(p) /\ index' = Entry(p)

NewPage == [Blank EXCEPT !.exists = TRUE, !.name = projected]

Restored(p) == [p EXCEPT !.status = "active", !.lapse = 0]

Init ==
  /\ alive = TRUE /\ granted = TRUE /\ grants = 0
  /\ public \in BOOLEAN /\ audience \in BOOLEAN
  /\ name \in Names /\ projected = name
  /\ page = Blank /\ index = Entry(Blank)
  /\ age = 0 /\ lapses = 0 /\ told = {}
  /\ lapseEnabled = TRUE /\ trigger = FALSE /\ chosen = "none" /\ swept = FALSE
  /\ missed = {}

--------------------------------
(* The owner.                                                              *)

\* a Page takes its name from the PUBLIC profile; an open audience is closed,
\* and only then is the public profile projected again
Create ==
  /\ Capable /\ ~Exists /\ public
  /\ page' = WithListed(NewPage) /\ index' = Entry(NewPage)
  /\ audience' = FALSE
  /\ projected' = IF audience THEN name ELSE projected
  /\ UNCHANGED <<alive, granted, grants, public, name, lapse, clockwork>>

OwnerWrite(p) ==
  /\ Capable /\ Exists /\ ~page.suspended
  /\ WritePage(Restored(p))
  /\ UNCHANGED <<owner, lapse, clockwork>>

Update == OwnerWrite(page)

Resume == public /\ OwnerWrite([page EXCEPT !.paused = FALSE])

\* a safety action: no capability, no activation, no verified e-mail
Pause ==
  /\ Exists /\ ~page.paused
  /\ WritePage([page EXCEPT !.paused = TRUE])
  /\ UNCHANGED <<owner, lapse, clockwork>>

SetMyProfileVisibility(v) ==
  /\ alive /\ public # v
  /\ public' = v
  /\ IF ~v /\ Exists /\ ~page.paused
       THEN WritePage([page EXCEPT !.paused = TRUE])
       ELSE UNCHANGED <<page, index>>
  /\ UNCHANGED <<alive, granted, grants, audience, name, projected, lapse, clockwork>>

SetCreatorAudience(on) ==
  /\ alive /\ audience # on
  /\ on => granted /\ ~Exists
  /\ audience' = on
  /\ UNCHANGED <<alive, granted, grants, public, name, projected, page, lapse, index, clockwork>>

\* the account's name and the Page's mirror of it move together
UpdateMyDisplayName(n) ==
  /\ alive /\ n # name
  /\ name' = n
  /\ page' = IF Exists THEN [page EXCEPT !.name = n] ELSE page
  /\ UNCHANGED <<alive, granted, grants, public, audience, projected, lapse, index, clockwork>>

\* onUserPrivacySourceChanged: the public profile follows the account
Project ==
  /\ alive /\ projected # name
  /\ projected' = name
  /\ UNCHANGED <<alive, granted, grants, public, audience, name, page, lapse, index, clockwork>>

DeleteAccount ==
  /\ alive
  /\ alive' = FALSE
  /\ UNCHANGED <<granted, grants, public, audience, name, projected, page, lapse, index, clockwork>>

\* the content stage of account deletion
RemovePage ==
  /\ ~alive /\ Exists
  /\ page' = Blank /\ index' = Entry(Blank)
  /\ UNCHANGED <<owner, lapse, clockwork>>

--------------------------------
(* A moderator, acting on a report.                                        *)

Suspend ==
  /\ Exists /\ ~page.suspended
  /\ WritePage([page EXCEPT !.suspended = TRUE])
  /\ UNCHANGED <<owner, lapse, clockwork>>

Lift ==
  /\ Exists /\ page.suspended
  /\ WritePage([page EXCEPT !.suspended = FALSE])
  /\ UNCHANGED <<owner, lapse, clockwork>>

--------------------------------
(* The lapse.                                                              *)

Decision(p, capable, enabled) ==
  IF ~p.exists THEN "none"
  ELSE IF capable THEN (IF p.status = "active" THEN "none" ELSE "restore")
  ELSE IF ~enabled THEN "none"
  ELSE IF p.status = "active" THEN "readOnly"
  ELSE IF p.status = "hidden" THEN "none"
  ELSE IF age = 2 THEN "hidden"
  ELSE IF age = 1 /\ <<"hidingSoon", p.lapse>> \notin told THEN "warn"
  ELSE "none"

Apply(decision) ==
  \/ /\ decision = "none"
     /\ UNCHANGED <<page, index, lapse>>
  \/ /\ decision = "warn"
     /\ told' = told \cup {<<"hidingSoon", page.lapse>>}
     /\ UNCHANGED <<page, index, age, lapses, missed>>
  \/ /\ decision = "restore"
     /\ WritePage(Restored(page))
     /\ UNCHANGED lapse
  \/ /\ decision = "readOnly" /\ lapses < MaxLapses
     /\ lapses' = lapses + 1 /\ age' = 0
     /\ WritePage([page EXCEPT !.status = "readOnly", !.lapse = lapses + 1])
     /\ told' = told \cup {<<"readOnly", lapses + 1>>}
     /\ UNCHANGED missed
  \/ /\ decision = "hidden"
     /\ WritePage([page EXCEPT !.status = "hidden"])
     /\ UNCHANGED lapse

\* reconcilePage: derives everything again inside its transaction
ReconcilePage == Apply(Decision(page, Capable, lapseEnabled))

\* onPageCapability...Changed
HandleCapabilityChange ==
  /\ trigger
  /\ trigger' = FALSE
  /\ ReconcilePage
  /\ swept' = (swept /\ lapses' = lapses)
  /\ UNCHANGED <<owner, lapseEnabled, chosen>>

\* the trigger has no retry: a failed delivery is lost
TriggerFails ==
  /\ trigger
  /\ trigger' = FALSE
  /\ UNCHANGED <<owner, page, lapse, index, lapseEnabled, chosen, swept>>

\* the sweep reads a batch and its capabilities outside any transaction ...
SweepReads ==
  /\ chosen = "none"
  /\ LET decision == Decision(page, Capable, lapseEnabled)
     IN  /\ chosen' = decision
         /\ swept' = (swept \/ (decision = "none" /\ lapseEnabled))
  /\ UNCHANGED <<owner, page, lapse, index, lapseEnabled, trigger>>

(* mutant: the transaction trusts what the sweep read *)
SweepReconciles_Stale ==
  /\ chosen # "none"
  /\ Exists /\ Apply(chosen)
  /\ chosen' = "none"
  /\ swept' = (lapseEnabled /\ lapses' = lapses)
  /\ UNCHANGED <<owner, lapseEnabled, trigger>>

\* ... and a Page that needs a transition pays for a transaction later
SweepReconciles ==
  /\ chosen # "none"
  /\ ReconcilePage
  /\ chosen' = "none"
  /\ swept' = (lapseEnabled /\ lapses' = lapses)
  /\ UNCHANGED <<owner, lapseEnabled, trigger>>

--------------------------------
(* The surroundings.                                                       *)

\* the grant or the entitlement is written: an event follows
ChangeGrant ==
  /\ alive /\ grants < MaxGrants
  /\ granted' = ~granted /\ grants' = grants + 1
  /\ trigger' = TRUE
  /\ UNCHANGED <<alive, public, audience, name, projected, page, lapse, index,
                 lapseEnabled, chosen, swept>>

\* it runs out: nothing is written and no event follows
GrantExpires ==
  /\ granted /\ grants < MaxGrants
  /\ granted' = FALSE /\ grants' = grants + 1
  /\ UNCHANGED <<alive, public, audience, name, projected, page, lapse, index, clockwork>>

\* the sweep is as late as it likes
DaysPass ==
  /\ Exists /\ page.status = "readOnly" /\ age < 2
  /\ age' = age + 1
  /\ missed' = missed \cup {l \in {page.lapse} : age = 1 /\ ~swept}
  /\ swept' = FALSE
  /\ UNCHANGED <<owner, page, lapses, told, index, lapseEnabled, trigger, chosen>>

Brake ==
  /\ lapseEnabled' = ~lapseEnabled
  /\ UNCHANGED <<owner, page, lapse, index, trigger, chosen, swept>>

Next ==
  \/ Create \/ Update \/ Resume \/ Pause
  \/ \E v \in BOOLEAN : SetMyProfileVisibility(v) \/ SetCreatorAudience(v)
  \/ \E n \in Names : UpdateMyDisplayName(n)
  \/ Project \/ DeleteAccount \/ RemovePage
  \/ Suspend \/ Lift
  \/ HandleCapabilityChange \/ TriggerFails \/ SweepReads \/ SweepReconciles
  \/ ChangeGrant \/ GrantExpires \/ DaysPass \/ Brake

Spec == Init /\ [][Next]_vars

--------------------------------
(* Properties.                                                             *)

TypeOK ==
  /\ {alive, granted, public, audience, lapseEnabled, trigger, swept} \subseteq BOOLEAN
  /\ {name, projected} \subseteq Names
  /\ page \in [exists : BOOLEAN, status : Statuses, lapse : 0..MaxLapses, paused : BOOLEAN,
                     suspended : BOOLEAN, name : Names \cup {None}, listed : BOOLEAN]
  /\ age \in 0..2 /\ lapses \in 0..MaxLapses /\ grants \in 0..MaxGrants
  /\ told \subseteq {"readOnly", "hidingSoon"} \X (1..MaxLapses)
  /\ missed \subseteq 0..MaxLapses
  /\ chosen \in Decisions

\* The index the feed filters by says of the Page what the Page says of
\* itself, whichever of the five writers committed last, and a Page that can
\* be found is one that can be seen.
IndexAgrees ==
  /\ index = Entry(page)
  /\ Exists => (page.listed <=> index.notViewable = None /\ index.since = 0)

\* A Page is never seen while its owner's profile is not public, and never
\* beside a Creator audience, which would make its followers listable: the
\* owner's Page calls and profile calls race for both.
PrivacyHolds == Exists => (public \/ page.paused) /\ ~audience

\* No lapse takes a Page down from an owner who is entitled when it commits,
\* nor while the brake is engaged, however old the sweep's own reads are.
LapseIsLive ==
  (Exists /\ page'.exists /\ page'.status # page.status /\ page'.status # "active")
       => ~Capable /\ lapseEnabled

\* "The owner is told twice": a Page is hidden only after the notice of its
\* CURRENT lapse that it will be, or when no sweep judged it in the last seven
\* of its thirty days: it was late, or the brake was engaged whenever it came.
HiddenWasWarned ==
  Exists /\ page.status = "hidden" =>
    <<"hidingSoon", page.lapse>> \in told \/ page.lapse \in missed

=============================================================================
