--------------------------- MODULE PremiumBilling ---------------------------
(***************************************************************************)
(* Premium of one member: Stripe owns payments and subscriptions,          *)
(* Firestore owns access (functions/premium/stripe_billing.js and          *)
(* entitlements.js).  Signed webhooks arrive late, twice, out of order and *)
(* again after a failure; each re-reads Stripe and commits the private     *)
(* billing record, the entitlement and its own receipt in one transaction. *)
(* A subscription event reads Stripe first and opens its transaction       *)
(* afterwards, so the two are steps of their own.  A refund of a recurring *)
(* charge claims its receipt under a lease, cancels the subscription at    *)
(* Stripe and only then revokes access.  The owner's complimentary grant,  *)
(* the expiry sweep and the deletion of the Auth account write the same    *)
(* entitlement.                                                            *)
(* A payment is an invoice <<subscription, period>> or a prepaid pass; the *)
(* window of paid time it buys is named after it and ends at any time.     *)
(***************************************************************************)
EXTENDS Integers, FiniteSets

CONSTANTS Subs,         \* subscriptions Stripe creates for the customer
          Passes,       \* one-time BLIK purchases
          MaxPeriod,    \* periods of a subscription
          Refundable,   \* payments whose full refund (or dispute) is explored
          Deliveries,   \* deliveries of one refund event: 1 .. Deliveries
          MaxReading,   \* subscription events handled at the same time
          MaxGrants,    \* complimentary grants and revocations of the owner
          MayDelete,    \* TRUE: the Auth account may be deleted
          None          \* no subscription, no payment

BillingAssumption ==
    /\ MaxPeriod \in Nat \ {0} /\ Deliveries \in Nat \ {0}
    /\ MaxReading \in Nat \ {0} /\ MaxGrants \in Nat /\ MayDelete \in BOOLEAN
    /\ None \notin Subs \cup Passes
    /\ Subs \cap Passes = {} /\ "owner" \notin Passes   \* Stripe's ids: sub_..., cs_...

Grant == <<"owner", 0>>                       \* the window of an owner's grant
Payments == (Subs \X (1 .. MaxPeriod)) \cup {<<q, 0>> : q \in Passes}
Statuses == {"none", "incomplete", "active", "past_due", "canceled"}
\* What a retrieve of a subscription returns; an event carries the state that
\* emitted it, which is its identity (no state recurs).
Snapshots == [status : Statuses, period : 1 .. MaxPeriod, paid : BOOLEAN]

VARIABLES
    stripe,      \* the provider's subscriptions
    charged,     \* payments that were collected
    ended,       \* windows of paid time that are over
    inbox,       \* subscription events with no receipt yet
    reading,     \* handlers between Stripe's answer and their transaction
    pending,     \* receipts waiting for the cancellation of a subscription
    passEvents,  \* undelivered events of each pass (completed, async-succeeded)
    purchases,   \* receipts of the passes
    risks,       \* stripeFinancialRisks
    refunds,     \* the full refund of a payment: receipt, claim, acknowledgement
    workers,     \* its deliveries
    billing,     \* billingAccounts/{uid}
    ent,         \* entitlements/{uid}
    deletion,    \* the Auth deletion trigger
    duplicates,  \* history: subscriptions cancelled as a second one, [sub, beside]
    grants       \* bound: the owner's writes so far

provider == <<stripe, charged, ended>>
passing == <<passEvents, purchases>>
refunding == <<refunds, workers>>
vars == <<stripe, charged, ended, inbox, reading, pending, passEvents, purchases,
          risks, refunds, workers, billing, ent, deletion, duplicates, grants>>

NoAccess == [source |-> "unknown", window |-> None, premium |-> FALSE]

Init ==
    /\ stripe = [s \in Subs |-> [status |-> "none", period |-> 1, paid |-> FALSE]]
    /\ charged = {} /\ ended = {} /\ inbox = {} /\ reading = {} /\ pending = {}
    /\ passEvents = [q \in Passes |-> 0] /\ purchases = [q \in Passes |-> "none"]
    /\ risks = {}
    /\ refunds = [p \in Refundable |-> [sent |-> FALSE, acked |-> FALSE,
                                        receipt |-> "none", token |-> 0, leased |-> FALSE]]
    /\ workers = [p \in Refundable |-> [d \in 1 .. Deliveries |-> "idle"]]
    /\ billing = [sub |-> None, payment |-> None, pass |-> None,
                  passActive |-> FALSE, deleted |-> FALSE]
    /\ ent = NoAccess
    /\ deletion = [pc |-> "none", list |-> {}]
    /\ duplicates = {} /\ grants = 0

Live(snapshot) == snapshot.status \notin {"none", "canceled"}
LiveSubs == {s \in Subs : Live(stripe[s])}

\* entitlementIsActiveAt
entitlementIsActive == ent.premium /\ ent.window \notin ended

\* buildEntitlements: access only while the window it names is not over.
buildEntitlements(source, window, active) ==
    [source |-> source, window |-> window, premium |-> active /\ window \notin ended]

Expired(source) == [source |-> source, window |-> None, premium |-> FALSE]

--------------------------------
(* The provider.  Every change of a subscription sends an event. *)

StripeChanges(s, snapshot) ==
    /\ stripe' = [stripe EXCEPT ![s] = snapshot]
    /\ inbox' = inbox \cup {[sub |-> s, at |-> snapshot]}

\* cancel with an idempotency key: a terminal subscription is left alone.
CancelAtStripe(s) ==
    IF Live(stripe[s])
    THEN StripeChanges(s, [stripe[s] EXCEPT !.status = "canceled"])
    ELSE UNCHANGED <<stripe, inbox>>

\* The member completes a hosted Checkout; the first invoice settles later.
Subscribe(s) ==
    /\ stripe[s].status = "none"
    /\ StripeChanges(s, [stripe[s] EXCEPT !.status = "incomplete"])
    /\ UNCHANGED <<charged, ended, reading, pending, passing, risks, refunding, billing,
                   ent, deletion, duplicates, grants>>

InvoicePaid(s) ==
    /\ stripe[s].status \in {"incomplete", "active", "past_due"} /\ ~stripe[s].paid
    /\ StripeChanges(s, [stripe[s] EXCEPT !.status = "active", !.paid = TRUE])
    /\ charged' = charged \cup {<<s, stripe[s].period>>}
    /\ UNCHANGED <<ended, reading, pending, passing, risks, refunding, billing, ent,
                   deletion, duplicates, grants>>

\* The renewal invoice is not collected at once: the subscription is past due.
PaymentFails(s) ==
    /\ stripe[s].status = "active" /\ ~stripe[s].paid
    /\ StripeChanges(s, [stripe[s] EXCEPT !.status = "past_due"])
    /\ UNCHANGED <<charged, ended, reading, pending, passing, risks, refunding, billing,
                   ent, deletion, duplicates, grants>>

\* A window ends.  The subscription it belongs to renews, still unpaid, or
\* was cancelled at the end of its period in the Customer Portal.
PeriodEnds(s) ==
    LET p == <<s, stripe[s].period>>
    IN  /\ stripe[s].paid /\ p \notin ended
        /\ ended' = ended \cup {p}
        /\ \/ /\ Live(stripe[s]) /\ stripe[s].period < MaxPeriod
              /\ StripeChanges(s, [status |-> "active", period |-> stripe[s].period + 1,
                                   paid |-> FALSE])
           \/ CancelAtStripe(s)
        /\ UNCHANGED <<charged, reading, pending, passing, risks, refunding, billing, ent,
                       deletion, duplicates, grants>>

WindowEnds(w) ==
    /\ ent.window = w /\ w \in {Grant} \cup {<<q, 0>> : q \in Passes}
    /\ w \notin ended
    /\ ended' = ended \cup {w}
    /\ UNCHANGED <<stripe, charged, inbox, reading, pending, passing, risks, refunding,
                   billing, ent, deletion, duplicates, grants>>

\* Stripe's own dunning or the Dashboard ends a subscription at once.
ProviderCancels(s) ==
    /\ stripe[s].status \in {"active", "past_due"}
    /\ CancelAtStripe(s)
    /\ UNCHANGED <<charged, ended, reading, pending, passing, risks, refunding, billing,
                   ent, deletion, duplicates, grants>>

\* A BLIK Checkout is paid; completed and async-succeeded both tell it.
PassPaid(q) ==
    /\ <<q, 0>> \notin charged
    /\ charged' = charged \cup {<<q, 0>>}
    /\ passEvents' = [passEvents EXCEPT ![q] = 2]
    /\ UNCHANGED <<stripe, ended, inbox, reading, pending, purchases, risks, refunding,
                   billing, ent, deletion, duplicates, grants>>

--------------------------------
(* Subscription events *)

\* The retrieve at the top of the transaction, before its first read.
SubscriptionReads(e) ==
    /\ e \in inbox /\ \A r \in reading : r.event # e
    /\ Cardinality(reading) < MaxReading
    /\ reading' = reading \cup {[event |-> e, seen |-> stripe[e.sub]]}
    /\ UNCHANGED <<provider, inbox, pending, passing, risks, refunding, billing, ent,
                   deletion, duplicates, grants>>

\* The instance dies, or the transaction fails: Stripe delivers again.
SubscriptionFails(r) ==
    /\ r \in reading
    /\ reading' = reading \ {r}
    /\ UNCHANGED <<provider, inbox, pending, passing, risks, refunding, billing, ent,
                   deletion, duplicates, grants>>

\* mapStripeSubscription: settled is active; unpaid keeps only what was paid.
mapStripeSubscription(s, seen) ==
    CASE seen.status = "active" /\ seen.paid ->
             [status |-> "active", window |-> <<s, seen.period>>]
      [] ~(seen.status = "active" /\ seen.paid) /\ seen.status \in {"active", "past_due"}
         /\ ent.source = "stripe" /\ entitlementIsActive ->
             [status |-> "grace", window |-> ent.window]
      [] OTHER -> [status |-> "expired", window |-> <<s, seen.period>>]

AccountIsDeleted == billing.deleted

\* The other canonical subscription, refreshed from Stripe.
PriorIsOther(s) == billing.sub \notin {None, s}
PriorIsTerminal(s) == PriorIsOther(s) /\ ~Live(stripe[billing.sub])

AtRisk(s, seen) ==
    seen.status = "active" /\ seen.paid /\ <<s, seen.period>> \in risks

IsDuplicate(s, seen) ==
    /\ PriorIsOther(s) /\ Live(seen)
    /\ ~(PriorIsTerminal(s) /\ mapStripeSubscription(s, seen).status = "active")

OverlapsAccess(s, seen) ==
    /\ entitlementIsActive
    /\ ~(ent.source = "stripe" /\ billing.sub = s)
    /\ ~(PriorIsTerminal(s) /\ ent.source = "stripe"
         /\ mapStripeSubscription(s, seen).status = "active")

\* Why an event is queued for review, and its subscription for cancellation,
\* in the order the transaction asks.
QueueReason(s, seen) ==
    CASE AccountIsDeleted -> "subscription-after-account-deletion"
      [] ~AccountIsDeleted /\ AtRisk(s, seen) -> "subscription-payment-at-financial-risk"
      [] ~AccountIsDeleted /\ ~AtRisk(s, seen) /\ IsDuplicate(s, seen) ->
             "duplicate-active-stripe-subscription"
      [] ~AccountIsDeleted /\ ~AtRisk(s, seen) /\ ~PriorIsOther(s) /\ OverlapsAccess(s, seen) ->
             "recurring-active-entitlement-overlap"
      [] ~AccountIsDeleted /\ ~AtRisk(s, seen) /\ PriorIsOther(s) /\ Live(seen)
         /\ ~IsDuplicate(s, seen) /\ OverlapsAccess(s, seen) ->
             "recurring-active-entitlement-overlap"
      [] OTHER -> "none"

Superseded(s, seen) == PriorIsOther(s) /\ ~Live(seen)

ProjectedBilling(s, seen) ==
    [billing EXCEPT !.sub = s,
                    !.payment = IF mapStripeSubscription(s, seen).status = "active"
                                THEN <<s, seen.period>> ELSE @]

\* The rest of the transaction: queue, ignore as superseded, or project.
applySubscription(r) ==
    LET s == r.event.sub
        seen == r.seen
        mapped == mapStripeSubscription(s, seen)
        reason == QueueReason(s, seen)
    IN  /\ r \in reading
        /\ reading' = reading \ {r}
        /\ inbox' = inbox \ {r.event}
        /\ \/ /\ reason # "none"
              /\ pending' = pending \cup {[event |-> r.event, reason |-> reason,
                                           cancel |-> Live(seen)]}
              /\ duplicates' = IF reason = "duplicate-active-stripe-subscription"
                               THEN duplicates \cup
                                    {[sub |-> s, beside |-> Live(stripe[billing.sub])]}
                               ELSE duplicates
              /\ UNCHANGED <<billing, ent>>
           \/ /\ reason = "none" /\ Superseded(s, seen)
              /\ UNCHANGED <<pending, billing, ent, duplicates>>
           \/ /\ reason = "none" /\ ~Superseded(s, seen)
              /\ billing' = ProjectedBilling(s, seen)
              /\ ent' = buildEntitlements("stripe", mapped.window,
                                          mapped.status # "expired")
              /\ UNCHANGED <<pending, duplicates>>
        /\ UNCHANGED <<provider, passing, risks, refunding, deletion, grants>>

\* After the commit, or on a delivery that finds the receipt pending: cancel
\* exactly this subscription, then complete the receipt.
OverlapCancels(x) ==
    /\ x \in pending /\ x.cancel /\ Live(stripe[x.event.sub])
    /\ CancelAtStripe(x.event.sub)
    /\ UNCHANGED <<charged, ended, reading, pending, passing, risks, refunding, billing,
                   ent, deletion, duplicates, grants>>

OverlapCompletes(x) ==
    /\ x \in pending /\ (x.cancel => ~Live(stripe[x.event.sub]))
    /\ pending' = pending \ {x}
    /\ UNCHANGED <<provider, inbox, reading, passing, risks, refunding, billing, ent,
                   deletion, duplicates, grants>>

--------------------------------
(* Prepaid passes *)

AlreadyPurchased(q) == purchases[q] # "none"

applyPrepaidPurchase(q) ==
    /\ passEvents[q] > 0
    /\ passEvents' = [passEvents EXCEPT ![q] = @ - 1]
    /\ \/ /\ AlreadyPurchased(q)
          /\ UNCHANGED <<purchases, billing, ent, ended>>
       \/ /\ ~AlreadyPurchased(q)
          /\ AccountIsDeleted \/ <<q, 0>> \in risks \/ entitlementIsActive
          /\ purchases' = [purchases EXCEPT ![q] = "review"]
          /\ UNCHANGED <<billing, ent, ended>>
       \/ /\ ~AlreadyPurchased(q)
          /\ ~AccountIsDeleted /\ <<q, 0>> \notin risks /\ ~entitlementIsActive
          /\ purchases' = [purchases EXCEPT ![q] = "applied"]
          /\ ended' = ended \ {<<q, 0>>}
          /\ billing' = [billing EXCEPT !.pass = q, !.passActive = TRUE]
          /\ ent' = [source |-> "stripe_prepaid", window |-> <<q, 0>>, premium |-> TRUE]
    /\ UNCHANGED <<stripe, charged, inbox, reading, pending, risks, refunding, deletion,
                   duplicates, grants>>

--------------------------------
(* Full refunds and disputes *)

Refund(p) ==
    /\ p \in charged /\ ~refunds[p].sent
    /\ refunds' = [refunds EXCEPT ![p].sent = TRUE]
    /\ UNCHANGED <<provider, inbox, reading, pending, passing, risks, workers, billing,
                   ent, deletion, duplicates, grants>>

isCurrentRecurring(p) ==
    p[1] = billing.sub /\ p = billing.payment /\ ent.source = "stripe" /\ ~AccountIsDeleted

isCurrentPrepaid(p) ==
    /\ p[1] = billing.pass /\ billing.passActive /\ ent.source = "stripe_prepaid"
    /\ ~AccountIsDeleted /\ purchases[p[1]] = "applied"

Acknowledge(p, d, refund) ==
    /\ refunds' = [refunds EXCEPT ![p] = [refund EXCEPT !.acked = TRUE]]
    /\ workers' = [workers EXCEPT ![p][d] = "gone"]

\* A delivery that finds a receipt: a claim whose lease ran out is taken over,
\* a live one is answered "in progress", a completed one is ignored.
RefundFindsReceipt(p, d) ==
    /\ refunds[p].receipt # "none"
    /\ IF refunds[p].receipt = "pending" /\ ~refunds[p].leased
       THEN /\ refunds' = [refunds EXCEPT
                            ![p] = [refunds[p] EXCEPT !.token = d, !.leased = TRUE]]
            /\ workers' = [workers EXCEPT ![p][d] = "claimed"]
       ELSE Acknowledge(p, d, refunds[p])
    /\ UNCHANGED <<risks, billing, ent>>

\* A recurring charge: claim its receipt when it pays the current period.
RefundClaims(p, d) ==
    /\ refunds[p].receipt = "none" /\ p[1] \in Subs
    /\ risks' = risks \cup {p}
    /\ IF isCurrentRecurring(p)
       THEN /\ refunds' = [refunds EXCEPT ![p] = [refunds[p] EXCEPT
                            !.receipt = "pending", !.token = d, !.leased = TRUE]]
            /\ workers' = [workers EXCEPT ![p][d] = "claimed"]
       ELSE Acknowledge(p, d, [refunds[p] EXCEPT !.receipt = "done"])
    /\ UNCHANGED <<billing, ent>>

\* A pass: revoke it in the same transaction when it is the current one.
RefundRevokesPass(p, d) ==
    /\ refunds[p].receipt = "none" /\ p[1] \in Passes
    /\ risks' = risks \cup {p}
    /\ IF isCurrentPrepaid(p)
       THEN /\ billing' = [billing EXCEPT !.passActive = FALSE]
            /\ ent' = Expired("stripe_prepaid")
       ELSE UNCHANGED <<billing, ent>>
    /\ Acknowledge(p, d, [refunds[p] EXCEPT !.receipt = "done"])

RefundDelivered(p, d) ==
    /\ refunds[p].sent /\ ~refunds[p].acked /\ workers[p][d] = "idle"
    /\ \A c \in 1 .. (d - 1) : workers[p][c] # "idle"
    /\ RefundFindsReceipt(p, d) \/ RefundClaims(p, d) \/ RefundRevokesPass(p, d)
    /\ UNCHANGED <<provider, inbox, reading, pending, passing, deletion, duplicates, grants>>

RefundCancels(p, d) ==
    /\ workers[p][d] = "claimed"
    /\ workers' = [workers EXCEPT ![p][d] = "cancelled"]
    /\ CancelAtStripe(p[1])
    /\ UNCHANGED <<charged, ended, reading, pending, passing, risks, refunds, billing, ent,
                   deletion, duplicates, grants>>

OwnsClaim(p, d) == refunds[p].receipt = "pending" /\ refunds[p].token = d

\* The second transaction.  A claim taken over fails the delivery.
RefundRevokes(p, d) ==
    /\ workers[p][d] = "cancelled"
    /\ IF OwnsClaim(p, d)
       THEN /\ ent' = IF isCurrentRecurring(p) THEN Expired("stripe") ELSE ent
            /\ Acknowledge(p, d, [refunds[p] EXCEPT !.receipt = "done", !.leased = FALSE])
       ELSE /\ workers' = [workers EXCEPT ![p][d] = "gone"]
            /\ UNCHANGED <<refunds, ent>>
    /\ UNCHANGED <<provider, inbox, reading, pending, passing, risks, billing, deletion,
                   duplicates, grants>>

\* A delivery dies; the last one of the bound does not.
RefundFails(p, d) ==
    /\ workers[p][d] \in {"claimed", "cancelled"} /\ d < Deliveries
    /\ workers' = [workers EXCEPT ![p][d] = "gone"]
    /\ UNCHANGED <<provider, inbox, reading, pending, passing, risks, refunds, billing,
                   ent, deletion, duplicates, grants>>

LeaseRunsOut(p) ==
    /\ refunds[p].leased /\ refunds[p].receipt = "pending"
    /\ refunds' = [refunds EXCEPT ![p].leased = FALSE]
    /\ UNCHANGED <<provider, inbox, reading, pending, passing, risks, workers, billing, ent,
                   deletion, duplicates, grants>>

--------------------------------
(* Other writers of the entitlement *)

adminSetPremiumEntitlements(active) ==
    /\ grants < MaxGrants
    /\ grants' = grants + 1
    /\ ended' = ended \ {Grant}
    /\ ent' = IF active THEN [source |-> "admin", window |-> Grant, premium |-> TRUE]
                        ELSE Expired("admin")
    /\ UNCHANGED <<stripe, charged, inbox, reading, pending, passing, risks, refunding,
                   billing, deletion, duplicates>>

\* commitExpiredPremiumPage re-reads each entitlement of its page.
ExpirySweep ==
    /\ ent.premium /\ ent.window \in ended
    /\ ent' = [ent EXCEPT !.premium = FALSE]
    /\ UNCHANGED <<provider, inbox, reading, pending, passing, risks, refunding, billing,
                   deletion, duplicates, grants>>

\* cancelStripeBillingForDeletedUser: the tombstone and the expiry first...
DeletionMarks ==
    /\ MayDelete /\ deletion.pc = "none"
    /\ billing' = [billing EXCEPT !.deleted = TRUE]
    /\ ent' = Expired(ent.source)
    /\ deletion' = [deletion EXCEPT !.pc = "marked"]
    /\ UNCHANGED <<provider, inbox, reading, pending, passing, risks, refunding, duplicates,
                   grants>>

\* ...then the subscriptions one listing returned, each cancelled in turn.
DeletionLists ==
    /\ deletion.pc = "marked"
    /\ deletion' = [pc |-> "cancelling", list |-> LiveSubs]
    /\ UNCHANGED <<provider, inbox, reading, pending, passing, risks, refunding, billing,
                   ent, duplicates, grants>>

DeletionCancels(s) ==
    /\ deletion.pc = "cancelling" /\ s \in deletion.list
    /\ deletion' = [deletion EXCEPT !.list = @ \ {s},
                                    !.pc = IF deletion.list = {s} THEN "done" ELSE @]
    /\ CancelAtStripe(s)
    /\ UNCHANGED <<charged, ended, reading, pending, passing, risks, refunding, billing,
                   ent, duplicates, grants>>

--------------------------------
Next ==
    \/ \E s \in Subs : Subscribe(s) \/ InvoicePaid(s) \/ PaymentFails(s) \/ PeriodEnds(s)
                       \/ ProviderCancels(s) \/ DeletionCancels(s)
    \/ \E q \in Passes : PassPaid(q) \/ applyPrepaidPurchase(q)
    \/ \E w \in Payments \cup {Grant} : WindowEnds(w)
    \/ \E e \in inbox : SubscriptionReads(e)
    \/ \E r \in reading : applySubscription(r) \/ SubscriptionFails(r)
    \/ \E x \in pending : OverlapCancels(x) \/ OverlapCompletes(x)
    \/ \E p \in Refundable :
          \/ Refund(p) \/ LeaseRunsOut(p)
          \/ \E d \in 1 .. Deliveries :
                RefundDelivered(p, d) \/ RefundCancels(p, d) \/ RefundRevokes(p, d)
                \/ RefundFails(p, d)
    \/ \E active \in BOOLEAN : adminSetPremiumEntitlements(active)
    \/ ExpirySweep
    \/ DeletionMarks \/ DeletionLists

Spec == Init /\ [][Next]_vars

--------------------------------
TypeOK ==
    /\ stripe \in [Subs -> Snapshots]
    /\ charged \subseteq Payments /\ risks \subseteq Payments
    /\ ended \subseteq Payments \cup {Grant}
    /\ inbox \subseteq [sub : Subs, at : Snapshots]
    /\ reading \subseteq [event : inbox, seen : Snapshots]
    /\ \A x \in pending : x.event.sub \in Subs /\ x.cancel \in BOOLEAN
    /\ passEvents \in [Passes -> 0 .. 2]
    /\ purchases \in [Passes -> {"none", "applied", "review"}]
    /\ \A p \in Refundable : refunds[p].receipt \in {"none", "pending", "done"}
    /\ billing.sub \in Subs \cup {None} /\ billing.payment \in Payments \cup {None}
    /\ ent.source \in {"unknown", "stripe", "stripe_prepaid", "admin"}
    /\ ent.window \in Payments \cup {Grant, None} /\ ent.premium \in BOOLEAN
    /\ deletion.pc \in {"none", "marked", "cancelling", "done"}

\* Access is paid for: the window an entitlement names was collected, or the
\* owner gave it.  An unpaid renewal never extends it, in whatever order the
\* events of a subscription arrive.
AccessIsPaid == ent.premium => ent.window \in charged \cup {Grant}

\* Whatever gives access can be taken back by a refund of exactly that
\* payment: the private record names the payment of the window.
AccessIsRevocable ==
    /\ ent.premium /\ ent.source = "stripe" =>
          ent.window = billing.payment /\ billing.payment[1] = billing.sub
    /\ ent.premium /\ ent.source = "stripe_prepaid" =>
          ent.window[1] = billing.pass /\ billing.passActive

\* Once the refund of a payment is processed, that payment gives no access,
\* although the event that grants it may come later, again, or be running.
RefundedMeansRevoked ==
    \A p \in Refundable :
        refunds[p].receipt = "done" => ~(ent.premium /\ ent.window = p)

\* A refund of an older charge never takes away a later purchase.
RefundTakesItsOwn ==
    \A p \in Refundable :
         refunds[p].receipt # "done" /\ refunds'[p].receipt = "done"
         /\ ent.premium /\ ~ent'.premium => ent.window = p

\* A pass is granted once, although two events tell its payment and the
\* second may arrive when its time is over.
PassGrantedOnce ==
    \A q \in Passes :
         ent'.premium /\ ent'.window = <<q, 0>> /\ ent'.window \notin ended'
         /\ ~(entitlementIsActive /\ ent.window = <<q, 0>>) => purchases[q] = "none"

\* A deleted account regains access from no late event.
DeletedHasNoAccess == billing.deleted /\ ent.premium => ent.source = "admin"

=============================================================================
