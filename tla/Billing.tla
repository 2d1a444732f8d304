------------------------------- MODULE Billing -------------------------------
(***************************************************************************)
(* BillingService of apps/api for one learner: the webhooks that bring     *)
(* Stripe's subscriptions and invoices into Subscription, Invoice and      *)
(* Entitlement rows.  Stripe delivers an event until it is answered with   *)
(* success, perhaps more than once, in any order and several at a time;    *)
(* the handler's statements are steps, outside any transaction, and one    *)
(* that throws answers 500.                                                *)
(***************************************************************************)
EXTENDS Naturals, Sequences

CONSTANTS
    Subs,           \* subscriptions of the learner at Stripe
    Handlers,       \* slots for webhooks in flight
    MaxEvents,      \* bound: events Stripe sends
    MaxFailures,    \* bound: handlers that throw, or whose answer is lost
    MaxRepeats      \* bound: events delivered again after a success answer

VARIABLES
    sent,           \* events in the order they happened: sub, kind, status
    row,            \* Subs -> status of the "Subscription", "none" without one
    invoice,        \* Subs -> status of the "Invoice" of its period, or "none"
    entitlement,    \* tier of the "Entitlement", "none" without one
    announced,      \* tier of the last billing.entitlement.changed (ghost)
    acked,          \* events answered with success
    hook,           \* Handlers -> where each is and what it holds
    highest,        \* the newest event any handler has begun (ghost)
    disordered,     \* an event was begun during another or after a newer one (ghost)
    failures, repeats

vars == <<sent, row, invoice, entitlement, announced, acked, hook, highest, disordered,
          failures, repeats>>

Idle == [pc |-> "idle", event |-> 0, found |-> FALSE]
At(h, pc) == hook[h].pc = pc
Goes(h, held) == hook' = [hook EXCEPT ![h] = held]
Event(h) == sent[hook[h].event]

-----------------------------------------------------------------------------
(* Stripe.                                                                  *)

SubscriptionStates == {"incomplete", "active", "past_due", "canceled"}
InvoiceStates == {"open", "paid"}

Last(s, kind) ==
    LET of == {n \in DOMAIN sent : sent[n].sub = s /\ sent[n].kind = kind}
    IN  IF of = {} THEN "none" ELSE sent[CHOOSE n \in of : \A k \in of : k <= n].status

\* A subscription starts incomplete, ends canceled, and has its invoices.
StripeEvent ==
    /\ Len(sent) < MaxEvents
    /\ \E s \in Subs :
         \/ \E status \in SubscriptionStates :
              /\ status # Last(s, "subscription") /\ Last(s, "subscription") # "canceled"
              /\ status = "incomplete" <=> Last(s, "subscription") = "none"
              /\ sent' = Append(sent, [sub |-> s, kind |-> "subscription", status |-> status])
         \/ \E status \in InvoiceStates :
              /\ status # Last(s, "invoice") /\ Last(s, "invoice") # "paid"
              /\ sent' = Append(sent, [sub |-> s, kind |-> "invoice", status |-> status])
    /\ UNCHANGED <<row, invoice, entitlement, announced, acked, hook, highest, disordered,
                   failures, repeats>>

-----------------------------------------------------------------------------
(* The webhook.                                                             *)

\* unpaid and paused read like past_due, incomplete_expired like incomplete,
\* trialing like active; customer.subscription.deleted forces CANCELED.
mapStripeSubscriptionStatus(status) ==
    CASE status = "active"     -> "ACTIVE"
      [] status = "past_due"   -> "PAST_DUE"
      [] status = "canceled"   -> "CANCELED"
      [] status = "incomplete" -> "EXPIRED"

mapStripeInvoiceStatus(status) == IF status = "paid" THEN "PAID" ELSE "OPEN"

TargetTier(status) == IF status \in {"CANCELED", "EXPIRED"} THEN "FREE" ELSE "PREMIUM"

handleWebhookEvent(h) ==
    /\ At(h, "idle")
    /\ \E n \in DOMAIN sent :
         /\ IF n \in acked THEN repeats < MaxRepeats /\ repeats' = repeats + 1
                           ELSE UNCHANGED repeats
         /\ Goes(h, [Idle EXCEPT !.pc = "find", !.event = n])
         /\ highest' = IF n > highest THEN n ELSE highest
         /\ disordered' = (disordered \/ n < highest \/ \E g \in Handlers \ {h} : ~ At(g, "idle"))
    /\ UNCHANGED <<sent, row, invoice, entitlement, announced, acked, failures>>

\* An invoice of a subscription without a row is ignored, with success.
FindSubscription(h) ==
    LET found == row[Event(h).sub] # "none" IN
    /\ At(h, "find")
    /\ Goes(h, [hook[h] EXCEPT !.found = found,
                  !.pc = CASE Event(h).kind = "subscription" -> "sync"
                           [] Event(h).kind = "invoice"      -> IF found THEN "invoice" ELSE "answer"])
    /\ UNCHANGED <<sent, row, invoice, entitlement, announced, acked, highest, disordered,
                   failures, repeats>>

\* syncSubscription, were a row that has the event's status already left alone
\* with its entitlement: a redelivery would then heal nothing.
syncSubscriptionOnce(h) ==
    LET s == Event(h).sub
        status == mapStripeSubscriptionStatus(Event(h).status)
    IN  /\ At(h, "sync")
        /\ row' = [row EXCEPT ![s] = status]
        /\ Goes(h, [hook[h] EXCEPT !.pc = IF status \in {"PAST_DUE", row[s]} THEN "answer" ELSE "entitle"])
        /\ UNCHANGED <<sent, invoice, entitlement, announced, acked, highest, disordered,
                       failures, repeats>>

\* The creation of a row that was created meanwhile fails (stripeSubscriptionId
\* is unique).  A PAST_DUE subscription leaves the entitlement as it is.
syncSubscription(h) ==
    LET s == Event(h).sub
        status == mapStripeSubscriptionStatus(Event(h).status)
    IN  /\ At(h, "sync")
        /\ IF ~ hook[h].found /\ row[s] # "none"
           THEN Goes(h, Idle) /\ UNCHANGED row
           ELSE /\ row' = [row EXCEPT ![s] = status]
                /\ Goes(h, [hook[h] EXCEPT !.pc = IF status = "PAST_DUE" THEN "answer" ELSE "entitle"])
        /\ UNCHANGED <<sent, invoice, entitlement, announced, acked, highest, disordered,
                       failures, repeats>>

syncEntitlement(h) ==
    /\ At(h, "entitle")
    /\ entitlement' = TargetTier(mapStripeSubscriptionStatus(Event(h).status))
    /\ Goes(h, [hook[h] EXCEPT !.pc = "publish"])
    /\ UNCHANGED <<sent, row, invoice, announced, acked, highest, disordered, failures, repeats>>

\* The change log and the two events.
PublishChange(h) ==
    /\ At(h, "publish")
    /\ announced' = TargetTier(mapStripeSubscriptionStatus(Event(h).status))
    /\ Goes(h, [hook[h] EXCEPT !.pc = "answer"])
    /\ UNCHANGED <<sent, row, invoice, entitlement, acked, highest, disordered, failures, repeats>>

syncInvoice(h) ==
    /\ At(h, "invoice")
    /\ invoice' = [invoice EXCEPT ![Event(h).sub] = mapStripeInvoiceStatus(Event(h).status)]
    /\ Goes(h, [hook[h] EXCEPT !.pc = "answer"])
    /\ UNCHANGED <<sent, row, entitlement, announced, acked, highest, disordered, failures, repeats>>

Answer(h) ==
    /\ At(h, "answer")
    /\ acked' = acked \cup {hook[h].event}
    /\ Goes(h, Idle)
    /\ UNCHANGED <<sent, row, invoice, entitlement, announced, highest, disordered, failures, repeats>>

\* A statement or a publication throws, the process dies, or the answer is lost.
WebhookFails(h) ==
    /\ ~ At(h, "idle") /\ failures < MaxFailures
    /\ failures' = failures + 1
    /\ Goes(h, Idle)
    /\ UNCHANGED <<sent, row, invoice, entitlement, announced, acked, highest, disordered, repeats>>

Init ==
    /\ sent = <<>> /\ acked = {} /\ highest = 0 /\ disordered = FALSE
    /\ row = [s \in Subs |-> "none"] /\ invoice = [s \in Subs |-> "none"]
    /\ entitlement = "none" /\ announced = "none"
    /\ hook = [h \in Handlers |-> Idle]
    /\ failures = 0 /\ repeats = 0

Next ==
    \/ StripeEvent
    \/ \E h \in Handlers :
         \/ handleWebhookEvent(h) \/ FindSubscription(h) \/ syncSubscription(h)
         \/ syncEntitlement(h) \/ PublishChange(h) \/ syncInvoice(h)
         \/ Answer(h) \/ WebhookFails(h)

Spec == Init /\ [][Next]_vars

-----------------------------------------------------------------------------
Quiet == acked = DOMAIN sent /\ \A h \in Handlers : At(h, "idle")

\* Events that decide the entitlement: PAST_DUE is a period of grace.
Deciding == {n \in DOMAIN sent : sent[n].kind = "subscription" /\ sent[n].status # "past_due"}

\* Retries heal: when events are handled one at a time and in order, every row is
\* in the end what Stripe last said, and the entitlement and its announcement
\* follow the last event that decides it, at whatever statements the handlers
\* failed, and however often an event was delivered before a newer one.
InOrderDeliveryConverges ==
    (Quiet /\ ~ disordered) =>
        /\ \A s \in Subs :
             Last(s, "subscription") # "none" =>
                 row[s] = mapStripeSubscriptionStatus(Last(s, "subscription"))
        /\ Deciding # {} =>
             LET last == CHOOSE n \in Deciding : \A k \in Deciding : k <= n
                 tier == TargetTier(mapStripeSubscriptionStatus(sent[last].status))
             IN  entitlement = tier /\ announced = tier
        /\ \A n \in DOMAIN sent :
             (/\ sent[n].kind = "invoice" /\ sent[n].status = Last(sent[n].sub, "invoice")
              /\ \E k \in 1..n : sent[k].sub = sent[n].sub /\ sent[k].kind = "subscription")
             => invoice[sent[n].sub] = mapStripeInvoiceStatus(sent[n].status)
=============================================================================
