------------------------------- MODULE Billing -------------------------------
(***************************************************************************)
(* The plan of an organization as Stripe's webhooks set it: stripe_webhook *)
(* of oriflux/api/billing.py, with the ledger stripe_events.               *)
(*                                                                         *)
(* Stripe numbers its events as they happen, delivers each until it gets a *)
(* 2xx, perhaps once more, in any order and to several requests at a time. *)
(* A request is one transaction: the event id goes into the ledger first,  *)
(* and a second insert of an id waits for the first one's transaction and  *)
(* fails if it commits.  The ORM writes a plan at the commit, and only if  *)
(* it differs from the one it read.                                        *)
(*                                                                         *)
(* One organization is modelled, and events of objects Oriflux tagged; all *)
(* others are acknowledged without a trace.                                *)
(***************************************************************************)
EXTENDS Integers, Sequences, FiniteSets

CONSTANTS Paid,         \* plans with a Stripe price
          FreePlan,     \* the plan of an organization that pays nothing
          NoPlan,       \* the event's price is of no plan; no subscription
          Subs,         \* subscriptions the organization may take out
          Requests,     \* webhook requests served at a time
          MaxEvents,    \* bound on Stripe's events
          MaxFaults     \* bound on requests that fail or are not answered

ASSUME BillingAssumption ==
    /\ FreePlan \notin Paid
    /\ NoPlan \notin Paid \cup {FreePlan}
    /\ MaxEvents \in Nat /\ MaxFaults \in Nat

VARIABLES
    bought,     \* at Stripe: plan of each live subscription
    doubled,    \* were two ever live at once? (history)
    sent,       \* Stripe's events: the plan each one asks for
    acked,      \* those Stripe got a 2xx for
    plan,       \* the organization's plan_slug
    ledger,     \* rows of stripe_events
    pc,         \* step of each request: idle, insert, load, commit or answer
    event,      \* the event it brings; 0: none
    read,       \* the plan its session read
    applied,    \* how often each event was committed (history)
    late,       \* was an event brought before an earlier one's 2xx? (history)
    faults      \* failures so far, of MaxFaults

stripe   == <<bought, doubled, sent, acked>>
database == <<plan, ledger>>
request  == <<pc, event, read>>
history  == <<applied, late>>
vars     == <<stripe, database, request, history, faults>>

Events == 1..Len(sent)
Asked  == Paid \cup {FreePlan, NoPlan}

Init ==
    /\ bought = [s \in Subs |-> NoPlan] /\ doubled = FALSE
    /\ sent = <<>> /\ acked = {}
    /\ plan = FreePlan /\ ledger = {}
    /\ pc = [r \in Requests |-> "idle"]
    /\ event = [r \in Requests |-> 0]
    /\ read = [r \in Requests |-> NoPlan]
    /\ applied = [e \in 1..MaxEvents |-> 0]
    /\ late = FALSE
    /\ faults = 0

-----------------------------------------------------------------------------
(* The customer, at Stripe.                                                 *)

Emit(p) == Len(sent) < MaxEvents /\ sent' = Append(sent, p)

\* checkout.session.completed names the plan.  Nothing keeps an organization
\* that has a subscription from checking out again.
Checkout(s, p) ==
    /\ bought[s] = NoPlan
    /\ Emit(p)
    /\ bought' = [bought EXCEPT ![s] = p]
    /\ doubled' = (doubled \/ \E t \in Subs \ {s} : bought[t] # NoPlan)
    /\ UNCHANGED <<acked, database, request, history, faults>>

\* customer.subscription.updated names the price; of a renewal, the same one.
Update(s, p) ==
    /\ bought[s] # NoPlan
    /\ Emit(p)
    /\ bought' = [bought EXCEPT ![s] = p]
    /\ UNCHANGED <<doubled, acked, database, request, history, faults>>

\* customer.subscription.deleted.
Cancel(s) ==
    /\ bought[s] # NoPlan
    /\ Emit(FreePlan)
    /\ bought' = [bought EXCEPT ![s] = NoPlan]
    /\ UNCHANGED <<doubled, acked, database, request, history, faults>>

\* An event of another kind, or with a price of no plan.
OtherEvent ==
    /\ Emit(NoPlan)
    /\ UNCHANGED <<bought, doubled, acked, database, request, history, faults>>

-----------------------------------------------------------------------------
(* stripe_webhook.                                                          *)

Deliver(r, e) ==
    /\ pc[r] = "idle"
    /\ e \in Events
    /\ pc' = [pc EXCEPT ![r] = "insert"]
    /\ event' = [event EXCEPT ![r] = e]
    /\ late' = (late \/ \E d \in 1..(e - 1) : d \notin acked)
    /\ UNCHANGED <<stripe, database, read, applied, faults>>

\* The transactions that inserted an id and have not ended.
Holds(r, e) == event[r] = e /\ pc[r] \in {"load", "commit"}

\* Slip: the ledger is asked before the insert, and nobody waits.
InsertWithoutFlush(r) ==
    /\ pc[r] = "insert"
    /\ event[r] \notin ledger
    /\ pc' = [pc EXCEPT ![r] = "load"]
    /\ UNCHANGED <<stripe, database, event, read, history, faults>>

Insert(r) ==
    /\ pc[r] = "insert"
    /\ event[r] \notin ledger
    /\ \A s \in Requests : ~Holds(s, event[r])
    /\ pc' = [pc EXCEPT ![r] = "load"]
    /\ UNCHANGED <<stripe, database, event, read, history, faults>>

\* Slip: an id another request is still at counts as a duplicate.
DuplicateWhileHeld(r) ==
    /\ pc[r] = "insert"
    /\ event[r] \in ledger \/ \E s \in Requests : Holds(s, event[r])
    /\ pc' = [pc EXCEPT ![r] = "answer"]
    /\ UNCHANGED <<stripe, database, event, read, history, faults>>

\* IntegrityError: rolled back and answered as a duplicate.
Duplicate(r) ==
    /\ pc[r] = "insert"
    /\ event[r] \in ledger
    /\ pc' = [pc EXCEPT ![r] = "answer"]
    /\ UNCHANGED <<stripe, database, event, read, history, faults>>

LoadOrg(r) ==
    /\ pc[r] = "load"
    /\ read' = [read EXCEPT ![r] = plan]
    /\ pc' = [pc EXCEPT ![r] = "commit"]
    /\ UNCHANGED <<stripe, database, event, history, faults>>

\* The transaction ends well, with this plan.
CommitAs(r, slug) ==
    /\ plan' = IF slug = read[r] THEN plan ELSE slug
    /\ ledger' = ledger \cup {event[r]}
    /\ applied' = [applied EXCEPT ![event[r]] = @ + 1]
    /\ pc' = [pc EXCEPT ![r] = "answer"]
    /\ read' = [read EXCEPT ![r] = NoPlan]
    /\ UNCHANGED <<stripe, event, late, faults>>

\* Slip: a price of no plan falls back to the free plan.
UnknownPriceIsFree(r) ==
    /\ pc[r] = "commit"
    /\ CommitAs(r, IF sent[event[r]] = NoPlan THEN FreePlan ELSE sent[event[r]])

\* Slip: a price of no plan raises.
UnknownPriceRaises(r) ==
    /\ pc[r] = "commit"
    /\ IF sent[event[r]] # NoPlan THEN CommitAs(r, sent[event[r]])
       ELSE /\ pc' = [pc EXCEPT ![r] = "idle"]
            /\ event' = [event EXCEPT ![r] = 0]
            /\ read' = [read EXCEPT ![r] = NoPlan]
            /\ UNCHANGED <<stripe, database, history, faults>>

\* The ledger row and the plan, together; a price of no plan changes nothing.
Commit(r) ==
    /\ pc[r] = "commit"
    /\ CommitAs(r, IF sent[event[r]] = NoPlan THEN read[r] ELSE sent[event[r]])

Done(r) == /\ pc' = [pc EXCEPT ![r] = "idle"]
           /\ event' = [event EXCEPT ![r] = 0]
           /\ read' = [read EXCEPT ![r] = NoPlan]

Answer(r) ==
    /\ pc[r] = "answer"
    /\ acked' = acked \cup {event[r]}
    /\ Done(r)
    /\ UNCHANGED <<bought, doubled, sent, database, history, faults>>

\* An exception, a crash, or an answer Stripe does not get: what was not
\* committed is rolled back, and Stripe will try again.
Fail(r) ==
    /\ pc[r] # "idle"
    /\ faults < MaxFaults /\ faults' = faults + 1
    /\ Done(r)
    /\ UNCHANGED <<stripe, database, history>>

-----------------------------------------------------------------------------
Webhook(r) == Insert(r) \/ Duplicate(r) \/ LoadOrg(r) \/ Commit(r) \/ Answer(r)

Next ==
    \/ OtherEvent
    \/ \E s \in Subs : Cancel(s) \/ \E p \in Paid : Checkout(s, p) \/ Update(s, p)
    \/ \E r \in Requests : Webhook(r) \/ Fail(r) \/ \E e \in Events : Deliver(r, e)

Spec == Init /\ [][Next]_vars

\* Requests are served, and Stripe keeps delivering what it has no 2xx for,
\* whenever the endpoint has a free slot from time to time.
FairSpec ==
    /\ Spec
    /\ \A r \in Requests : WF_vars(Webhook(r))
    /\ \A e \in 1..MaxEvents :
           SF_vars(e \notin acked /\ \E r \in Requests : Deliver(r, e))

-----------------------------------------------------------------------------
(* Properties.                                                              *)

\* Type invariant; what is acknowledged, or in hand, is an event of Stripe.
TypeOK ==
    /\ bought \in [Subs -> Paid \cup {NoPlan}] /\ doubled \in BOOLEAN
    /\ sent \in Seq(Asked) /\ Len(sent) <= MaxEvents
    /\ acked \subseteq Events
    /\ plan \in Paid \cup {FreePlan}
    /\ ledger \subseteq Events
    /\ pc \in [Requests -> {"idle", "insert", "load", "commit", "answer"}]
    /\ event \in [Requests -> Events \cup {0}]
    /\ \A r \in Requests : /\ event[r] = 0 <=> pc[r] = "idle"
                           /\ read[r] = NoPlan <=> pc[r] # "commit"
    /\ read \in [Requests -> Paid \cup {FreePlan, NoPlan}]
    /\ applied \in [1..MaxEvents -> Nat]
    /\ late \in BOOLEAN /\ faults \in 0..MaxFaults

\* "A replayed event is a no-op": whatever is delivered twice, at the same time
\* or after a failure, is committed once.
AppliedOnce == \A e \in 1..MaxEvents : applied[e] <= 1

\* Stripe never gets a 2xx for an event that was not applied: it would not send
\* it again.
AckedIsApplied == \A e \in acked : applied[e] = 1

Live == {s \in Subs : bought[s] # NoPlan}

\* The plan is Stripe's once all its events are acknowledged, provided that
\* they came one after the other and that no second subscription was taken out
\* beside the first.  Nothing in the webhook looks at the order of events, or
\* at other subscriptions: both conditions are needed.
PlanIsStripes ==
    ~late /\ ~doubled /\ acked = Events =>
        IF Live = {} THEN plan = FreePlan ELSE \E s \in Live : plan = bought[s]

\* Failed requests and lost answers only delay an event.
EveryEventIsApplied ==
    \A e \in 1..MaxEvents : e \in Events ~> applied[e] = 1

=============================================================================
