---------------------------- MODULE BillingProofs ----------------------------
(***************************************************************************)
(* Proofs about Billing: every event of Stripe is committed at most once,  *)
(* and answered with a 2xx only when it was committed, for any number of   *)
(* concurrent requests, events, subscriptions and failures.                *)
(*                                                                         *)
(* Neither is inductive: both rest on what the ledger's primary key does   *)
(* between two transactions, stated below as LedgerInv.                    *)
(*                                                                         *)
(* When events come in order the plan is Stripe's: the ledger then grows   *)
(* event by event (OrderInv), the plan is what its last event that names   *)
(* one asks for (PlanInv), and so, with one subscription at a time, is     *)
(* what was bought (StripeInv).                                            *)
(***************************************************************************)
EXTENDS Billing, TLAPS

InTransaction(r) == pc[r] \in {"load", "commit"}

\* An id is in at most one open transaction, and not in the ledger meanwhile; a
\* request about to answer found it there, or put it there.
LedgerInv ==
    /\ \A r, s \in Requests :
           InTransaction(r) /\ InTransaction(s) /\ event[r] = event[s] => r = s
    /\ \A r \in Requests : InTransaction(r) => event[r] \notin ledger
    /\ \A r \in Requests : pc[r] = "answer" => event[r] \in ledger
    /\ acked \subseteq ledger

\* The history counts what the ledger holds.
AppliedIsLedger ==
    \A e \in 1..MaxEvents : applied[e] = IF e \in ledger THEN 1 ELSE 0

IInv == TypeOK /\ LedgerInv /\ AppliedIsLedger

-----------------------------------------------------------------------------
(* Types.                                                                   *)

\* The initial state has the shape.
LEMMA TypeInit == Init => TypeOK
<1> SUFFICES ASSUME Init PROVE TypeOK
    OBVIOUS
<1>1. sent \in Seq(Asked) /\ Len(sent) = 0
    BY DEF Init
<1>2. doubled \in BOOLEAN /\ late \in BOOLEAN
    BY DEF Init
<1> QED
    BY <1>1, <1>2, BillingAssumption DEF Init, TypeOK, Events

\* A new event leaves the old ones in place.
LEMMA EmitGrows ==
    ASSUME TypeOK, NEW p \in Asked, Emit(p)
    PROVE  /\ sent' \in Seq(Asked) /\ Len(sent') <= MaxEvents
           /\ Events \subseteq Events'
<1>1. sent \in Seq(Asked) /\ Len(sent) \in Nat
    BY DEF TypeOK
<1>2. sent' = Append(sent, p) /\ Len(sent) < MaxEvents
    BY DEF Emit
<1>3. sent' \in Seq(Asked) /\ Len(sent') = Len(sent) + 1
    BY <1>1, <1>2
<1> QED
    BY <1>1, <1>2, <1>3, BillingAssumption DEF Events

\* Every step keeps the shape.
LEMMA TypeNext == TypeOK /\ [Next]_vars => TypeOK'
<1> SUFFICES ASSUME TypeOK, [Next]_vars PROVE TypeOK'
    OBVIOUS
<1> USE DEF stripe, database, request, history
<1>1. CASE UNCHANGED vars
    BY <1>1 DEF TypeOK, Events, vars
<1>2. ASSUME NEW p \in Asked, Emit(p), UNCHANGED <<acked, database, request, history, faults>>,
             bought' \in [Subs -> Paid \cup {NoPlan}], doubled' \in BOOLEAN
      PROVE  TypeOK'
    BY <1>2, EmitGrows DEF TypeOK
<1>3. CASE OtherEvent
    BY <1>2, <1>3 DEF OtherEvent, TypeOK, Asked
<1>4. ASSUME NEW s \in Subs, Cancel(s) PROVE TypeOK'
    BY <1>2, <1>4 DEF Cancel, TypeOK, Asked
<1>5. ASSUME NEW s \in Subs, NEW p \in Paid, Checkout(s, p) PROVE TypeOK'
  <2>1. doubled' \in BOOLEAN
    BY <1>5 DEF Checkout
  <2> QED
    BY <1>2, <1>5, <2>1 DEF Checkout, TypeOK, Asked
<1>6. ASSUME NEW s \in Subs, NEW p \in Paid, Update(s, p) PROVE TypeOK'
    BY <1>2, <1>6 DEF Update, TypeOK, Asked
<1>e. Events \subseteq 1..MaxEvents /\ (sent' = sent => Events' = Events)
    BY BillingAssumption DEF TypeOK, Events
<1>7. ASSUME NEW r \in Requests, NEW e \in Events, Deliver(r, e) PROVE TypeOK'
  <2>1. late' \in BOOLEAN
    BY <1>7 DEF Deliver
  <2>2. e # 0
    BY DEF Events
  <2> QED
    BY <1>7, <1>e, <2>1, <2>2 DEF Deliver, TypeOK
<1>8. ASSUME NEW r \in Requests, Insert(r) \/ Duplicate(r) PROVE TypeOK'
    BY <1>8, <1>e DEF Insert, Duplicate, TypeOK
<1>9. ASSUME NEW r \in Requests, LoadOrg(r) PROVE TypeOK'
    BY <1>9, <1>e, BillingAssumption DEF LoadOrg, TypeOK
<1>10. ASSUME NEW r \in Requests, Commit(r) PROVE TypeOK'
  <2>1. event[r] \in Events
    BY <1>10 DEF Commit, TypeOK
  <2>2. sent[event[r]] \in Asked
    BY <2>1 DEF TypeOK, Events
  <2>3. read[r] \in Paid \cup {FreePlan}
    BY <1>10 DEF Commit, TypeOK
  <2>4. plan' \in Paid \cup {FreePlan}
    BY <1>10, <2>2, <2>3 DEF Commit, CommitAs, TypeOK, Asked
  <2>5. applied' \in [1..MaxEvents -> Nat] /\ ledger' \subseteq Events
    <3>1. applied \in [1..MaxEvents -> Nat] /\ ledger \subseteq Events
      BY DEF TypeOK
    <3>2. /\ applied' = [applied EXCEPT ![event[r]] = applied[event[r]] + 1]
          /\ ledger' = ledger \cup {event[r]}
      BY <1>10 DEF Commit, CommitAs
    <3>3. applied[event[r]] \in Nat
      BY <1>e, <2>1, <3>1
    <3>4. applied[event[r]] + 1 \in Nat
      BY <3>3
    <3> QED
      BY <2>1, <3>1, <3>2, <3>4
  <2> QED
    BY <1>10, <1>e, <2>4, <2>5 DEF Commit, CommitAs, TypeOK
<1>11. ASSUME NEW r \in Requests, Answer(r) PROVE TypeOK'
  <2>1. event[r] \in Events
    BY <1>11 DEF Answer, TypeOK
  <2> QED
    BY <1>11, <1>e, <2>1 DEF Answer, Done, TypeOK
<1>12. ASSUME NEW r \in Requests, Fail(r) PROVE TypeOK'
    BY <1>12, <1>e, BillingAssumption DEF Fail, Done, TypeOK
<1> QED
    BY <1>1, <1>3, <1>4, <1>5, <1>6, <1>7, <1>8, <1>9, <1>10, <1>11, <1>12
    DEF Next, Webhook

\* In every reachable state what is acknowledged, logged or in hand is an event
\* of Stripe, and the organization has a plan.
THEOREM TypeCorrect == Spec => []TypeOK
BY TypeInit, TypeNext, PTL DEF Spec

-----------------------------------------------------------------------------
(* The ledger.                                                              *)

\* The invariant holds initially.
LEMMA IInvInit == Init => IInv
BY TypeInit DEF Init, IInv, LedgerInv, AppliedIsLedger, InTransaction

\* Every step keeps it.
LEMMA IInvNext == IInv /\ [Next]_vars => IInv'
<1> SUFFICES ASSUME IInv, [Next]_vars PROVE IInv'
    OBVIOUS
<1>0. TypeOK /\ TypeOK'
    BY TypeNext DEF IInv
<1>t. /\ pc \in [Requests -> {"idle", "insert", "load", "commit", "answer"}]
      /\ event \in [Requests -> Events \cup {0}]
      /\ applied \in [1..MaxEvents -> Nat]
      /\ Events \subseteq 1..MaxEvents
    BY <1>0, BillingAssumption DEF TypeOK, Events
<1> USE DEF IInv, LedgerInv, AppliedIsLedger, InTransaction, stripe, database, request, history
<1>1. CASE UNCHANGED vars
    BY <1>0, <1>1 DEF vars
<1>2. ASSUME UNCHANGED <<acked, database, request, history>> PROVE IInv'
    BY <1>0, <1>2
<1>3. CASE OtherEvent \/ \E s \in Subs : Cancel(s) \/ \E p \in Paid : Checkout(s, p) \/ Update(s, p)
    BY <1>2, <1>3 DEF OtherEvent, Cancel, Checkout, Update
<1>4. ASSUME NEW r \in Requests, NEW e \in Events, Deliver(r, e) PROVE IInv'
    BY <1>0, <1>t, <1>4 DEF Deliver
<1>5. ASSUME NEW r \in Requests, Insert(r) PROVE IInv'
    BY <1>0, <1>t, <1>5 DEF Insert, Holds
<1>6. ASSUME NEW r \in Requests, Duplicate(r) PROVE IInv'
    BY <1>0, <1>t, <1>6 DEF Duplicate
<1>7. ASSUME NEW r \in Requests, LoadOrg(r) PROVE IInv'
    BY <1>0, <1>t, <1>7 DEF LoadOrg
<1>8. ASSUME NEW r \in Requests, Commit(r) PROVE IInv'
  <2>0. pc[r] = "commit"
    BY <1>8 DEF Commit
  <2>1. event[r] \in 1..MaxEvents /\ event[r] \notin ledger
    <3>1. event[r] # 0
      BY <1>0, <2>0 DEF TypeOK
    <3> QED
      BY <1>t, <2>0, <3>1
  <2>2. AppliedIsLedger'
    BY <1>t, <1>8, <2>1 DEF Commit, CommitAs
  <2>3. LedgerInv'
    BY <1>t, <1>8, <2>1 DEF Commit, CommitAs
  <2> QED
    BY <1>0, <2>2, <2>3
<1>9. ASSUME NEW r \in Requests, Answer(r) PROVE IInv'
    BY <1>0, <1>t, <1>9 DEF Answer, Done
<1>10. ASSUME NEW r \in Requests, Fail(r) PROVE IInv'
    BY <1>0, <1>t, <1>10 DEF Fail, Done
<1> QED
    BY <1>1, <1>3, <1>4, <1>5, <1>6, <1>7, <1>8, <1>9, <1>10 DEF Next, Webhook

\* A replayed event is a no-op, concurrent deliveries and failures included.
THEOREM ReplayIsNoOp == Spec => []AppliedOnce
<1>1. IInv => AppliedOnce
    BY DEF IInv, AppliedIsLedger, AppliedOnce
<1> QED
    BY <1>1, IInvInit, IInvNext, PTL DEF Spec

\* No event is acknowledged that was not applied.
THEOREM AckedWasApplied == Spec => []AckedIsApplied
<1>1. IInv => AckedIsApplied
    BY BillingAssumption DEF IInv, TypeOK, Events, LedgerInv, AppliedIsLedger, AckedIsApplied
<1> QED
    BY <1>1, IInvInit, IInvNext, PTL DEF Spec

-----------------------------------------------------------------------------
(* The plan.                                                                *)

\* The last event of a set that asks for a plan.
LastOf(S, e) == e \in S /\ sent[e] # NoPlan /\ \A d \in S : d > e => sent[d] = NoPlan

\* Events that come in order are handled in order, and logged in order.
OrderInv ==
    ~late =>
        /\ \A r \in Requests : pc[r] # "idle" => \A d \in Events : d < event[r] => d \in acked
        /\ \A e \in ledger : \A d \in Events : d < e => d \in acked

\* The plan is that of the last event logged, and still the one a request has read.
PlanInv ==
    ~late =>
        /\ \A r \in Requests : pc[r] = "commit" => read[r] = plan
        /\ \/ plan = FreePlan /\ \A e \in ledger : sent[e] = NoPlan
           \/ \E e \in ledger : LastOf(ledger, e) /\ plan = sent[e]

\* With one subscription at a time, the last event says what was bought.
StripeInv ==
    ~doubled =>
        /\ \A s, t \in Live : s = t
        /\ (\A e \in Events : sent[e] = NoPlan) => Live = {}
        /\ \A e \in Events : LastOf(Events, e) =>
               /\ Live = {} => sent[e] = FreePlan
               /\ \A s \in Live : sent[e] = bought[s]

PInv == IInv /\ OrderInv /\ PlanInv /\ StripeInv


\* Nothing is sold or sent yet.
LEMMA PInvInit == Init => PInv
<1> SUFFICES ASSUME Init PROVE PInv
    OBVIOUS
<1>1. IInv
    BY IInvInit
<1>2. Live = {} /\ Events = {}
    BY <1>1 DEF Init, Live, Events, IInv, TypeOK
<1> QED
    BY <1>1, <1>2 DEF Init, PInv, OrderInv, PlanInv, StripeInv

\* What a request holds is an event of Stripe.
LEMMA HeldIsAnEvent ==
    ASSUME TypeOK, NEW r \in Requests, pc[r] # "idle"
    PROVE  event[r] \in Events /\ Events \subseteq Nat
BY DEF TypeOK, Events

\* While events come in order, an event in hand and not logged comes after the
\* whole ledger, which ends right before it.
LEMMA HeldIsNext ==
    ASSUME IInv, OrderInv, ~late, NEW r \in Requests, pc[r] # "idle", event[r] \notin ledger
    PROVE  \A d \in Events : d \in ledger <=> d < event[r]
<1>1. event[r] \in Events /\ Events \subseteq Nat /\ ledger \subseteq Events /\ acked \subseteq ledger
    BY HeldIsAnEvent DEF IInv, TypeOK, LedgerInv
<1> SUFFICES ASSUME NEW d \in Events PROVE d \in ledger <=> d < event[r]
    OBVIOUS
<1>2. d < event[r] => d \in ledger
    BY <1>1 DEF OrderInv
<1>3. ASSUME d \in ledger, ~(d < event[r]) PROVE FALSE
  <2>1. d # event[r] /\ d \in Nat /\ event[r] \in Nat
    BY <1>1, <1>3
  <2>2. event[r] < d
    BY <1>3, <2>1
  <2> QED
    BY <1>1, <1>3, <2>2 DEF OrderInv
<1> QED
    BY <1>2, <1>3

\* A new event is the last one, and the old ones are as they were.
LEMMA EmitIsLast ==
    ASSUME TypeOK, NEW p \in Asked, Emit(p)
    PROVE  /\ Events' = Events \cup {Len(sent) + 1} /\ Len(sent) \in Nat
           /\ \A e \in Events : sent'[e] = sent[e] /\ e < Len(sent) + 1 /\ e \in Nat
           /\ sent'[Len(sent) + 1] = p
<1>1. sent \in Seq(Asked) /\ Len(sent) \in Nat
    BY DEF TypeOK
<1>2. sent' = Append(sent, p)
    BY DEF Emit
<1>3. Len(sent') = Len(sent) + 1
    BY <1>1, <1>2
<1> QED
    BY <1>1, <1>2, <1>3 DEF Events

\* A customer's step leaves the ledger's order as it is: it brings a new event
\* behind all others.
LEMMA EmitKeepsOrder ==
    ASSUME IInv, OrderInv, PlanInv, NEW p \in Asked, Emit(p),
           UNCHANGED <<acked, database, request, history, faults>>
    PROVE  OrderInv' /\ PlanInv'
<1>1. /\ Events' = Events \cup {Len(sent) + 1} /\ Len(sent) \in Nat
      /\ \A e \in Events : sent'[e] = sent[e] /\ e < Len(sent) + 1 /\ e \in Nat
    BY EmitIsLast DEF IInv
<1>2. /\ ledger \subseteq Events
      /\ \A r \in Requests : pc[r] # "idle" => event[r] \in Events
    BY HeldIsAnEvent DEF IInv, TypeOK
<1>3. UNCHANGED <<acked, plan, ledger, pc, event, read, late>>
    BY DEF database, request, history
<1>4. OrderInv'
    BY <1>1, <1>2, <1>3 DEF OrderInv
<1>5. PlanInv'
    BY <1>1, <1>2, <1>3 DEF PlanInv, LastOf
<1> QED
    BY <1>4, <1>5


\* A request's step keeps the ledger in the order of the events.
LEMMA OrderNext ==
    ASSUME IInv, OrderInv, NEW r \in Requests, Webhook(r) \/ Fail(r)
    PROVE  OrderInv'
<1>1. /\ pc \in [Requests -> {"idle", "insert", "load", "commit", "answer"}]
      /\ event \in [Requests -> Events \cup {0}]
      /\ LedgerInv
    BY DEF IInv, TypeOK
<1>2. UNCHANGED <<bought, doubled, sent, late>> /\ Events' = Events
    BY DEF Webhook, Insert, Duplicate, LoadOrg, Commit, CommitAs, Answer, Fail, Done,
           stripe, history, Events
<1>3. CASE Insert(r) \/ Duplicate(r) \/ LoadOrg(r)
    BY <1>1, <1>2, <1>3 DEF Insert, Duplicate, LoadOrg, stripe, database, OrderInv
<1>4. CASE Commit(r)
    BY <1>1, <1>2, <1>4 DEF Commit, CommitAs, stripe, OrderInv
<1>5. CASE Answer(r) \/ Fail(r)
    BY <1>1, <1>2, <1>5 DEF Answer, Fail, Done, stripe, database, OrderInv
<1> QED
    BY <1>3, <1>4, <1>5 DEF Webhook

\* Of two events in order the later one is brought when the earlier one is
\* logged, so no two requests are at their commit.
LEMMA OneCommit ==
    ASSUME IInv, OrderInv, ~late, NEW r \in Requests, NEW s \in Requests,
           InTransaction(r), InTransaction(s)
    PROVE  r = s
<1>1. /\ event[r] \in Events /\ event[r] \notin ledger /\ pc[r] # "idle"
      /\ event[s] \in Events /\ event[s] \notin ledger /\ pc[s] # "idle"
      /\ Events \subseteq Nat
    BY HeldIsAnEvent DEF IInv, LedgerInv, InTransaction
<1>2. ~(event[s] < event[r]) /\ ~(event[r] < event[s])
    BY <1>1, HeldIsNext
<1>3. event[r] \in Nat /\ event[s] \in Nat
    BY <1>1
<1>4. event[r] = event[s]
    BY <1>2, <1>3
<1> QED
    BY <1>4 DEF IInv, LedgerInv

\* A commit logs the next event, and the plan becomes what it asks for.
LEMMA CommitPlan ==
    ASSUME IInv, OrderInv, PlanInv, NEW r \in Requests, Commit(r)
    PROVE  PlanInv'
<1> SUFFICES ASSUME ~late PROVE PlanInv'
    BY DEF Commit, CommitAs, PlanInv
<1>0. /\ pc \in [Requests -> {"idle", "insert", "load", "commit", "answer"}]
      /\ pc[r] = "commit" /\ read[r] = plan /\ InTransaction(r)
      /\ ledger' = ledger \cup {event[r]} /\ sent' = sent
      /\ pc' = [pc EXCEPT ![r] = "answer"]
    BY DEF Commit, CommitAs, IInv, TypeOK, PlanInv, InTransaction, stripe
<1>1. \A s \in Requests : pc'[s] # "commit"
  <2> SUFFICES ASSUME NEW s \in Requests, pc'[s] = "commit" PROVE FALSE
    OBVIOUS
  <2>1. s # r /\ pc[s] = "commit"
    BY <1>0
  <2> QED
    BY <1>0, <2>1, OneCommit DEF InTransaction
<1>2. /\ event[r] \in Events /\ event[r] \notin ledger /\ ledger \subseteq Events
      /\ Events \subseteq Nat
    BY <1>0, HeldIsAnEvent DEF IInv, LedgerInv, InTransaction, TypeOK
<1>3. \A d \in ledger : d < event[r] /\ ~(d > event[r]) /\ ~(event[r] < d)
  <2> SUFFICES ASSUME NEW d \in ledger PROVE d < event[r] /\ ~(d > event[r])
    BY <1>2
  <2>1. d < event[r]
    BY <1>0, <1>2, HeldIsNext
  <2>2. d \in Nat /\ event[r] \in Nat
    BY <1>2
  <2> QED
    BY <2>1, <2>2
<1>4. CASE sent[event[r]] = NoPlan
  <2>1. plan' = plan
    BY <1>0, <1>4 DEF Commit, CommitAs
  <2>2. ASSUME NEW e \in ledger, LastOf(ledger, e), plan = sent[e]
        PROVE  LastOf(ledger, e)' /\ e \in ledger' /\ plan' = sent'[e]
    BY <1>0, <1>4, <2>1, <2>2 DEF LastOf
  <2> QED
    BY <1>0, <1>1, <1>4, <2>1, <2>2 DEF PlanInv
<1>5. CASE sent[event[r]] # NoPlan
  <2>1. plan' = sent[event[r]]
    BY <1>0, <1>5 DEF Commit, CommitAs
  <2>3. ~(event[r] > event[r])
    <3>1. event[r] \in Nat
      BY <1>2
    <3> QED
      BY <3>1
  <2>2. LastOf(ledger, event[r])'
    <3>1. \A d \in ledger \cup {event[r]} : ~(d > event[r])
      BY <1>3, <2>3
    <3>2. event'[r] = event[r]
      BY DEF Commit, CommitAs
    <3> QED
      BY <1>0, <1>5, <3>1, <3>2 DEF LastOf
  <2>4. event'[r] = event[r]
    BY DEF Commit, CommitAs
  <2> QED
    BY <1>0, <1>1, <2>1, <2>2, <2>4 DEF PlanInv
<1> QED
    BY <1>4, <1>5

\* A request's other steps leave the plan alone.
LEMMA PlanNext ==
    ASSUME IInv, OrderInv, PlanInv, NEW r \in Requests, Webhook(r) \/ Fail(r)
    PROVE  PlanInv'
<1>1. pc \in [Requests -> {"idle", "insert", "load", "commit", "answer"}]
      /\ read \in [Requests -> Paid \cup {FreePlan, NoPlan}]
    BY DEF IInv, TypeOK
<1>2. CASE Insert(r) \/ Duplicate(r) \/ LoadOrg(r)
    BY <1>1, <1>2 DEF Insert, Duplicate, LoadOrg, stripe, database, history, PlanInv, LastOf
<1>3. CASE Answer(r) \/ Fail(r)
    BY <1>1, <1>3 DEF Answer, Fail, Done, stripe, database, history, PlanInv, LastOf
<1> QED
    BY <1>2, <1>3, CommitPlan DEF Webhook

\* Bringing an event keeps the order, unless it comes before its time.
LEMMA DeliverKeepsOrder ==
    ASSUME IInv, OrderInv, PlanInv, NEW r \in Requests, NEW e \in Events, Deliver(r, e)
    PROVE  OrderInv' /\ PlanInv'
<1>1. /\ pc \in [Requests -> {"idle", "insert", "load", "commit", "answer"}]
      /\ event \in [Requests -> Events \cup {0}] /\ Events' = Events
      /\ Events = 1..Len(sent) /\ Len(sent) \in Nat
    BY DEF IInv, TypeOK, Deliver, stripe, Events
<1>2. ASSUME ~late' PROVE ~late /\ \A d \in Events : d < e => d \in acked
  <2>1. ~late /\ \A d \in 1..(e - 1) : d \in acked
    BY <1>2 DEF Deliver
  <2>2. \A d \in Events : d < e => d \in 1..(e - 1)
    BY <1>1
  <2> QED
    BY <2>1, <2>2
<1>3. OrderInv'
    BY <1>1, <1>2 DEF Deliver, stripe, database, OrderInv
<1>4. PlanInv'
    BY <1>1, <1>2 DEF Deliver, stripe, database, PlanInv, LastOf
<1> QED
    BY <1>3, <1>4


\* A new event that asks for a plan is the last one to do so.
LEMMA NamedIsLast ==
    ASSUME TypeOK, NEW p \in Asked \ {NoPlan}, Emit(p)
    PROVE  /\ ~(\A e \in Events' : sent'[e] = NoPlan)
           /\ \A e \in Events' : LastOf(Events, e)' => sent'[e] = p
<1>1. /\ Events' = Events \cup {Len(sent) + 1} /\ Len(sent) \in Nat
      /\ \A e \in Events : e < Len(sent) + 1 /\ e \in Nat
      /\ sent'[Len(sent) + 1] = p
    BY EmitIsLast
<1>2. \A e \in Events : Len(sent) + 1 > e
    BY <1>1
<1> QED
    BY <1>1, <1>2 DEF LastOf

\* A customer's step keeps the last event the one that says what was bought.
LEMMA StripeEmits ==
    ASSUME TypeOK, StripeInv,
           OtherEvent \/ \E s \in Subs : Cancel(s) \/ \E p \in Paid : Checkout(s, p) \/ Update(s, p)
    PROVE  StripeInv'
<1>1. bought \in [Subs -> Paid \cup {NoPlan}]
    BY DEF TypeOK
<1>2. Paid \subseteq Asked \ {NoPlan} /\ FreePlan \in Asked \ {NoPlan} /\ NoPlan \in Asked
    BY BillingAssumption DEF Asked
<1>3. CASE OtherEvent
  <2>1. Emit(NoPlan) /\ UNCHANGED <<bought, doubled>> /\ Live' = Live
    BY <1>3 DEF OtherEvent, Live
  <2>2. /\ Events' = Events \cup {Len(sent) + 1}
        /\ \A e \in Events : sent'[e] = sent[e]
        /\ sent'[Len(sent) + 1] = NoPlan
    BY <1>2, <2>1, EmitIsLast
  <2>3. \A e \in Events' : LastOf(Events, e)' => e \in Events /\ LastOf(Events, e)
    BY <2>2 DEF LastOf
  <2>4. (\A e \in Events' : sent'[e] = NoPlan) => \A e \in Events : sent[e] = NoPlan
    BY <2>2
  <2> QED
    BY <2>1, <2>2, <2>3, <2>4 DEF StripeInv
<1>4. ASSUME NEW s \in Subs, Cancel(s) PROVE StripeInv'
  <2> SUFFICES ASSUME ~doubled' PROVE StripeInv'
    BY DEF StripeInv
  <2>1. Emit(FreePlan) /\ s \in Live /\ bought' = [bought EXCEPT ![s] = NoPlan] /\ ~doubled
    BY <1>4 DEF Cancel, Live
  <2>2. Live' = {}
    BY <1>1, <2>1 DEF Live, StripeInv
  <2>3. \A e \in Events' : LastOf(Events, e)' => sent'[e] = FreePlan
    BY <1>2, <2>1, NamedIsLast
  <2> QED
    BY <2>2, <2>3 DEF StripeInv
<1>5. ASSUME NEW s \in Subs, NEW p \in Paid, Checkout(s, p) \/ Update(s, p) PROVE StripeInv'
  <2> SUFFICES ASSUME ~doubled' PROVE StripeInv'
    BY DEF StripeInv
  <2>1. Emit(p) /\ bought' = [bought EXCEPT ![s] = p]
    BY <1>5 DEF Checkout, Update
  <2>2. ~doubled
    <3>1. CASE Checkout(s, p)
      <4>1. doubled \in BOOLEAN /\ doubled' = (doubled \/ \E t \in Subs \ {s} : bought[t] # NoPlan)
        BY <3>1 DEF Checkout, TypeOK
      <4> QED
        BY <4>1
    <3> QED
      BY <1>5, <3>1 DEF Update
  <2>3. \A t \in Subs \ {s} : bought[t] = NoPlan
    BY <1>5, <2>2 DEF Checkout, Update, StripeInv, Live
  <2>4. \A t \in Live' : t = s /\ bought'[t] = p
    BY <1>1, <2>1, <2>3 DEF Live
  <2>5. s \in Live'
    BY <1>1, <1>2, <2>1 DEF Live
  <2>6. /\ ~(\A e \in Events' : sent'[e] = NoPlan)
        /\ \A e \in Events' : LastOf(Events, e)' => sent'[e] = p
    BY <1>2, <2>1, NamedIsLast
  <2> QED
    BY <2>4, <2>5, <2>6 DEF StripeInv
<1> QED
    BY <1>3, <1>4, <1>5

\* Every step keeps the whole invariant.
LEMMA PInvNext == PInv /\ [Next]_vars => PInv'
<1> SUFFICES ASSUME PInv, [Next]_vars PROVE PInv'
    OBVIOUS
<1>0. IInv /\ OrderInv /\ PlanInv /\ StripeInv /\ IInv' /\ TypeOK
    BY IInvNext DEF PInv, IInv
<1>1. CASE UNCHANGED vars
    BY <1>0, <1>1 DEF vars, stripe, database, request, history, PInv,
                      OrderInv, PlanInv, StripeInv, Live, Events, LastOf
<1>2. CASE OtherEvent \/ \E s \in Subs : Cancel(s) \/ \E p \in Paid : Checkout(s, p) \/ Update(s, p)
  <2>1. /\ \E p \in Asked : Emit(p)
        /\ UNCHANGED <<acked, database, request, history, faults>>
    BY <1>2 DEF OtherEvent, Cancel, Checkout, Update, Asked
  <2>2. OrderInv' /\ PlanInv'
    BY <1>0, <2>1, EmitKeepsOrder
  <2> QED
    BY <1>0, <1>2, <2>2, StripeEmits DEF PInv
<1>3. ASSUME UNCHANGED stripe PROVE StripeInv'
    BY <1>0, <1>3 DEF stripe, StripeInv, Live, Events, LastOf
<1>4. ASSUME NEW r \in Requests, Webhook(r) \/ Fail(r) PROVE PInv'
  <2>1. UNCHANGED <<bought, doubled, sent>>
    BY <1>4 DEF Webhook, Insert, Duplicate, LoadOrg, Commit, CommitAs, Answer, Fail, stripe
  <2>2. StripeInv'
    BY <1>0, <2>1 DEF StripeInv, Live, Events, LastOf
  <2> QED
    BY <1>0, <1>4, <2>2, OrderNext, PlanNext DEF PInv
<1>5. ASSUME NEW r \in Requests, NEW e \in Events, Deliver(r, e) PROVE PInv'
  <2>1. UNCHANGED stripe
    BY <1>5 DEF Deliver
  <2> QED
    BY <1>0, <1>3, <1>5, <2>1, DeliverKeepsOrder DEF PInv
<1> QED
    BY <1>1, <1>2, <1>4, <1>5 DEF Next

\* When events come one after the other and there is one subscription at a
\* time, the plan is what was bought, as soon as all events are acknowledged.
THEOREM PlanFollowsStripe == Spec => []PlanIsStripes
<1>1. PInv => PlanIsStripes
  <2> SUFFICES ASSUME PInv, ~late, ~doubled, acked = Events
               PROVE  IF Live = {} THEN plan = FreePlan ELSE \E s \in Live : plan = bought[s]
    BY DEF PlanIsStripes
  <2>1. ledger = Events
    BY DEF PInv, IInv, TypeOK, LedgerInv
  <2>2. CASE plan = FreePlan /\ \A e \in ledger : sent[e] = NoPlan
    BY <2>1, <2>2 DEF PInv, StripeInv
  <2>3. ASSUME NEW e \in ledger, LastOf(ledger, e), plan = sent[e]
        PROVE  IF Live = {} THEN plan = FreePlan ELSE \E s \in Live : plan = bought[s]
    BY <2>1, <2>3 DEF PInv, StripeInv
  <2> QED
    BY <2>2, <2>3 DEF PInv, PlanInv
<1> QED
    BY <1>1, PInvInit, PInvNext, PTL DEF Spec

=============================================================================
