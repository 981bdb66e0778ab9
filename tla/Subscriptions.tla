---------------------------- MODULE Subscriptions ----------------------------
(***************************************************************************)
(* The plan of one institution: the payment provider's subscriptions, the  *)
(* events it sends (backend/api/v1/webhooks.py), the checkout and the      *)
(* synchronisation that clients ask for (backend/api/v1/billing.py) and the*)
(* administrator's own choice (backend/api/admin.py).                      *)
(*                                                                         *)
(* The provider is external.  It keeps the truth, queues an event for each *)
(* change and repeats an event until it is acknowledged; nothing makes it  *)
(* deliver in order.  A handler has one transaction: a handler that raises *)
(* leaves nothing behind, so an event answered with 500 or 502 is a step   *)
(* that changes nothing.  The institution's tier_quotas rows are seeded.   *)
(***************************************************************************)
EXTENDS Naturals, Sequences, SequencesExt

CONSTANTS
    Plans,        \* subscriptions that may come to exist
    PlanPrices,   \* prices the provider knows
    TierOf,       \* function: the configured prices, each to its tier
    OwnerIsAdmin, \* the billing owner has the role admin
    MaxEvents,    \* bound on the provider's events
    MaxLostAcks   \* bound on acknowledgements that get lost

ASSUME SubscriptionsAssumption ==
    /\ DOMAIN TierOf \subseteq PlanPrices
    /\ \A p \in DOMAIN TierOf : TierOf[p] # "free"
    /\ OwnerIsAdmin \in BOOLEAN
    /\ MaxEvents \in Nat /\ MaxLostAcks \in Nat

VARIABLES
    provider,     \* what the provider says of each plan: status and price
    events,       \* its undelivered events, the oldest first
    emitted,      \* how many it has produced
    lostAcks,
    sub,          \* status of each row of subscriptions, "none" without a row
    tier,         \* institutions.subscription_tier
    limits,       \* the tier whose quotas are in institutions.max_*
    lecturer,     \* the billing owner has the role dozent
    excuses       \* why the institution may differ from the provider

billingVars == <<provider, events, emitted, lostAcks, sub, tier, limits,
                 lecturer, excuses>>

LiveStatuses == {"active", "past_due"}
Tiers == {TierOf[p] : p \in DOMAIN TierOf} \cup {"free"}
Excuses == {"two plans", "out of order", "unknown price", "set by hand"}

LivePlans == {s \in Plans : provider[s].status \in LiveStatuses}

BillingInit ==
    /\ provider = [s \in Plans |-> [status |-> "none", price |-> "none"]]
    /\ events = <<>> /\ emitted = 0 /\ lostAcks = 0
    /\ sub = [s \in Plans |-> "none"]
    /\ tier = "free" /\ limits = "free"
    /\ lecturer \in BOOLEAN
    /\ excuses = {}

-----------------------------------------------------------------------------
(***************************************************************************)
(* The provider                                                            *)
(***************************************************************************)

Snapshot(kind, s) ==
    [kind |-> kind, plan |-> s, status |-> provider'[s].status,
     price |-> provider'[s].price]

Emit(new) ==
    /\ emitted + Len(new) <= MaxEvents
    /\ emitted' = emitted + Len(new)
    /\ events' = events \o new
    /\ UNCHANGED <<lostAcks, sub, tier, limits, lecturer>>

\* create_checkout_session: refused while a row of the institution is active.
OpenCheckout(s, p) ==
    /\ provider[s].status = "none"
    /\ \A t \in Plans : sub[t] # "active"
    /\ p \in DOMAIN TierOf
    /\ provider' = [provider EXCEPT ![s] = [status |-> "open", price |-> p]]
    /\ UNCHANGED <<events, emitted, lostAcks, sub, tier, limits, lecturer, excuses>>

\* The customer pays; which of the two events comes first is not determined.
Pay(s) ==
    /\ provider[s].status = "open"
    /\ provider' = [provider EXCEPT ![s].status = "active"]
    /\ \E new \in {<<Snapshot("checkout", s), Snapshot("created", s)>>,
                   <<Snapshot("created", s), Snapshot("checkout", s)>>} : Emit(new)
    /\ excuses' = excuses \cup (IF LivePlans # {} THEN {"two plans"} ELSE {})

\* A payment fails or succeeds at last; the customer changes the plan.
Change(s, status, p) ==
    /\ provider[s].status \in LiveStatuses
    /\ provider[s] # [status |-> status, price |-> p]
    /\ provider' = [provider EXCEPT ![s] = [status |-> status, price |-> p]]
    /\ Emit(<<Snapshot("updated", s)>>)
    /\ UNCHANGED excuses

End(s) ==
    /\ provider[s].status \in LiveStatuses
    /\ provider' = [provider EXCEPT ![s].status = "canceled"]
    /\ Emit(<<Snapshot("deleted", s)>>)
    /\ UNCHANGED excuses

-----------------------------------------------------------------------------
(***************************************************************************)
(* The handlers.  Each says what its transaction commits, given an event.  *)
(***************************************************************************)

\* sync_institution_quotas follows every change of the tier.
SetTier(t) == tier' = t /\ limits' = t

Nothing == UNCHANGED <<sub, tier, limits, lecturer>>

\* The row is created or updated from the provider's present state, not from
\* the event; the buyer becomes a lecturer.
CheckoutCompleted(e) ==
    LET now == provider[e.plan]
    IN  IF now.price \notin DOMAIN TierOf
        THEN Nothing
        ELSE /\ sub' = [sub EXCEPT ![e.plan] = now.status]
             /\ SetTier(TierOf[now.price])
             /\ lecturer' = TRUE

SubscriptionCreated(e) ==
    /\ sub' = [sub EXCEPT ![e.plan] = e.status]
    /\ UNCHANGED <<tier, limits, lecturer>>

SubscriptionUpdated(e) ==
    IF e.price \notin DOMAIN TierOf
    THEN Nothing
    ELSE /\ sub' = [sub EXCEPT ![e.plan] = e.status]
         /\ SetTier(TierOf[e.price])
         /\ UNCHANGED lecturer

SubscriptionDeletedMutant(e) ==
    /\ sub' = [sub EXCEPT ![e.plan] = "canceled"]
    /\ tier' = "free"
    /\ lecturer' = OwnerIsAdmin /\ lecturer
    /\ UNCHANGED limits

SubscriptionDeleted(e) ==
    /\ sub' = [sub EXCEPT ![e.plan] = "canceled"]
    /\ SetTier("free")
    /\ lecturer' = (OwnerIsAdmin /\ lecturer)

\* An unknown price is acknowledged: the event is not repeated.
UnknownPrice(e) ==
    \/ e.kind = "checkout" /\ provider[e.plan].price \notin DOMAIN TierOf
    \/ e.kind = "updated" /\ sub[e.plan] # "none" /\ e.price \notin DOMAIN TierOf

Handle(e) ==
    \/ e.kind = "checkout" /\ CheckoutCompleted(e)
    \/ e.kind # "checkout" /\ sub[e.plan] = "none" /\ Nothing
    \/ e.kind = "created" /\ sub[e.plan] # "none" /\ SubscriptionCreated(e)
    \/ e.kind = "updated" /\ sub[e.plan] # "none" /\ SubscriptionUpdated(e)
    \/ e.kind = "deleted" /\ sub[e.plan] # "none" /\ SubscriptionDeleted(e)

\* stripe_webhook; a lost acknowledgement brings the event again.
Deliver(i) ==
    /\ Handle(events[i])
    /\ excuses' = excuses
           \cup (IF i # 1 THEN {"out of order"} ELSE {})
           \cup (IF UnknownPrice(events[i]) THEN {"unknown price"} ELSE {})
    /\ \/ events' = RemoveAt(events, i) /\ UNCHANGED lostAcks
       \/ lostAcks < MaxLostAcks /\ lostAcks' = lostAcks + 1 /\ UNCHANGED events
    /\ UNCHANGED <<provider, emitted>>

\* sync_subscription_from_stripe: any active plan of the caller's customer;
\* an unknown price is refused.  It does not touch the roles.
SyncFromProvider(s) ==
    /\ provider[s].status = "active"
    /\ provider[s].price \in DOMAIN TierOf
    /\ sub' = [sub EXCEPT ![s] = "active"]
    /\ SetTier(TierOf[provider[s].price])
    /\ UNCHANGED <<provider, events, emitted, lostAcks, lecturer, excuses>>

\* update_institution
SetTierByHand(t) ==
    /\ SetTier(t)
    /\ excuses' = excuses \cup {"set by hand"}
    /\ UNCHANGED <<provider, events, emitted, lostAcks, sub, lecturer>>

BillingNext ==
    \/ \E s \in Plans :
          \/ \E p \in PlanPrices : OpenCheckout(s, p)
          \/ Pay(s)
          \/ \E status \in LiveStatuses, p \in PlanPrices : Change(s, status, p)
          \/ End(s)
          \/ SyncFromProvider(s)
    \/ \E i \in DOMAIN events : Deliver(i)
    \/ \E t \in Tiers : SetTierByHand(t)

BillingSpec == BillingInit /\ [][BillingNext]_billingVars

-----------------------------------------------------------------------------
(***************************************************************************)
(* Properties                                                              *)
(***************************************************************************)

TypesOfBilling ==
    /\ DOMAIN provider = Plans /\ DOMAIN sub = Plans
    /\ \A s \in Plans : sub[s] \in {"none", "canceled"} \cup LiveStatuses
    /\ tier \in Tiers /\ limits \in Tiers /\ lecturer \in BOOLEAN
    /\ excuses \subseteq Excuses

Settled == events = <<>> /\ excuses = {}

\* The quotas are those of the tier at all times.  Once every event has been
\* handled, each in its turn, the rows repeat what the provider says, the
\* institution has the tier it pays for, or free, and the buyer teaches while
\* the plan lasts: whatever was repeated, synchronised in between, or handled
\* after the provider had moved on (webhooks.py, all four handlers).
PlanMatchesProvider ==
    /\ TypesOfBilling
    /\ limits = tier
    /\ Settled =>
        /\ \A s \in Plans : provider[s].status \notin {"none", "open"} =>
              sub[s] = provider[s].status
        /\ tier = IF LivePlans = {} THEN "free"
                  ELSE TierOf[provider[CHOOSE s \in LivePlans : TRUE].price]
        /\ LivePlans # {} => lecturer
        /\ (\E s \in Plans : sub[s] = "canceled") /\ LivePlans = {} =>
              (lecturer => OwnerIsAdmin)

=============================================================================
