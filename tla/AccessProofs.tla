---------------------------- MODULE AccessProofs ----------------------------
(***************************************************************************)
(* Proofs about what is let through: by the ingestion gate and by the      *)
(* organization's handlers.                                                *)
(*                                                                         *)
(* IngestGate: its type invariant, and that the quota holds across         *)
(* replicas for every number of them, of requests in flight and of plans.  *)
(* QuotaHolds is not inductive: a request may be about to count against a  *)
(* limit it took from a cache long ago, and a cache may hold one from the  *)
(* month before.  What makes it so is that once the month has begun every  *)
(* limit in a cache, on its way there or about to be counted against is    *)
(* among the offered, and that no more was let through than was counted.   *)
(*                                                                         *)
(* Organization, for any users, requests in hand, budget and size of a     *)
(* call: a month is overspent by less than a call each, and no owner comes *)
(* or goes unless an owner asked.  The first rests on what those that wait *)
(* for the model may still spend, the second on what LoadMembership leaves *)
(* in an edit.                                                             *)
(***************************************************************************)
EXTENDS IngestGate, Organization, FiniteSetTheorems, TLAPS

-----------------------------------------------------------------------------
(* The gate: what limits have been.                                         *)

\* A limit that the month's events are counted against now, or may be later.
Matters(r) == r.ours \/ r.pc = "store"

\* Once the month has begun, every limit that is remembered, or that matters in a
\* request, is among the offered.
LimitsWereOffered ==
    begun => /\ \A p \in Replicas : limitCache[p] \in offered \cup {None}
             /\ \A q \in Requests : Matters(req[q]) => req[q].limit \in offered \cup {None}

\* What is let through has been counted, as far as the counter goes.
AdmittedIsCounted == used = Full \/ admitted <= used

\* The month starts from nothing.
NothingYet == ~begun => used = 0 /\ admitted = 0

IInv == TypeOK /\ LimitsWereOffered /\ AdmittedIsCounted /\ NothingYet /\ QuotaHolds

-----------------------------------------------------------------------------
(* The gate: requests as records.                                           *)

\* A request's record with its step, verdict, limit or month replaced is a record.
LEMMA EntryUpdate ==
    ASSUME NEW r \in Entry \cup {Free}, r.pc # "free",
           NEW step \in Steps, NEW g \in BOOLEAN, NEW l \in Plans \cup {None}
    PROVE  /\ r \in Entry
           /\ [r EXCEPT !.pc = step] \in Entry
           /\ [r EXCEPT !.pc = step, !.ours = g] \in Entry
           /\ [r EXCEPT !.pc = step, !.good = g] \in Entry
           /\ [r EXCEPT !.pc = step, !.limit = l] \in Entry
           /\ [r EXCEPT !.pc = step, !.ours = g, !.limit = l] \in Entry
<1>1. r \in Entry
    BY DEF Free
<1>2. [r EXCEPT !.pc = step] \in Entry /\ [r EXCEPT !.pc = step, !.ours = g] \in Entry
    BY <1>1 DEF Entry
<1>3. [r EXCEPT !.pc = step, !.good = g] \in Entry
    BY <1>1 DEF Entry
<1>4. [r EXCEPT !.pc = step, !.limit = l] \in Entry
    BY <1>1 DEF Entry
<1>5. [r EXCEPT !.pc = step, !.ours = g, !.limit = l] \in Entry
    BY <1>1 DEF Entry
<1> QED
    BY <1>1, <1>2, <1>3, <1>4, <1>5

\* An arriving request's record.
LEMMA EntryArrival ==
    ASSUME NEW p \in Replicas, NEW k \in Keys
    PROVE  [Free EXCEPT !.pc = "resolve", !.at = p, !.key = k] \in Entry
BY DEF Entry, Free, Steps

\* The counters stay in range, and below Full they are exact.
LEMMA PlusBounds ==
    ASSUME NEW c \in 0..Full, NEW n \in 1..MaxBatch
    PROVE  /\ Plus(c, n) \in 0..Full
           /\ c <= Plus(c, n)
           /\ Plus(c, n) # Full => Plus(c, n) = c + n /\ c # Full
BY GateAssumption DEF Plus

-----------------------------------------------------------------------------
(* The gate: types.                                                         *)

\* The empty gate has the shape.
LEMMA TypeInit == Init => TypeOK
<1> SUFFICES ASSUME Init PROVE TypeOK
    OBVIOUS
<1>1. /\ keyCache \in [Replicas -> [Keys -> {"none", "good", "bad"}]]
      /\ limitCache \in [Replicas -> Plans \cup {None}]
      /\ req \in [Requests -> Entry \cup {Free}]
    BY DEF Init
<1>2. \A q \in Requests : req[q] = Free
    BY DEF Init
<1>3. Free.pc = "free" /\ Free.limit = None /\ Free.good = FALSE /\ Free.ours = FALSE
    BY DEF Free
<1>4. /\ used \in 0..Full /\ admitted \in 0..Full /\ begun = FALSE /\ offered = {}
      /\ revoked \subseteq Keys /\ plan \in Plans
    BY GateAssumption DEF Init
<1> QED
    BY <1>1, <1>2, <1>3, <1>4 DEF TypeOK

\* Every step keeps it: each updates one request's record, one cache or a counter.
LEMMA TypeNext == TypeOK /\ [Next]_vars => TypeOK'
<1> SUFFICES ASSUME TypeOK, [Next]_vars PROVE TypeOK'
    OBVIOUS
<1> USE DEF TypeOK, database
<1>1. CASE UNCHANGED vars
    BY <1>1 DEF vars
<1>2. ASSUME NEW k \in Keys, Revoke(k) PROVE TypeOK'
    BY <1>2 DEF Revoke
<1>3. ASSUME NEW c \in Plans, ChangePlan(c) PROVE TypeOK'
    BY <1>3 DEF ChangePlan
<1>18. CASE TurnMonth
  <2>1. Remembered \subseteq Plans
    <3>1. ASSUME NEW q \in Requests, req[q].pc = "store" PROVE req[q].limit \in Plans
      <4>1. req[q] \in Entry /\ req[q].limit # None
        BY <3>1 DEF Free
      <4> QED
        BY <4>1 DEF Entry
    <3> QED
      BY <3>1 DEF Remembered
  <2> QED
    BY <1>18, <2>1 DEF TurnMonth
<1>4. ASSUME NEW p \in Replicas, NEW k \in Keys, ExpireKey(p, k) PROVE TypeOK'
    BY <1>4 DEF ExpireKey
<1>5. ASSUME NEW p \in Replicas, ExpireLimit(p) PROVE TypeOK'
    BY <1>5 DEF ExpireLimit
<1>6. ASSUME NEW p \in Replicas, Crash(p) PROVE TypeOK'
    BY <1>6, GateAssumption DEF Crash, Free
<1>7. ASSUME NEW q \in Requests, NEW p \in Replicas, NEW k \in Keys, Arrive(q, p, k)
      PROVE  TypeOK'
    BY <1>7, EntryArrival, GateAssumption DEF Arrive, At, Free
<1>8. ASSUME NEW q \in Requests, Leave(q), UNCHANGED <<database, keyCache, limitCache>>,
             used' \in 0..Full, admitted' \in 0..Full
      PROVE  TypeOK'
    BY <1>8, GateAssumption DEF Leave, Free
<1>9. ASSUME NEW q \in Requests, NEW r \in Entry,
             r.limit # None <=> r.pc \in {"store", "count"}, r.good => r.pc = "remember",
             r.ours => begun /\ r.pc \in {"plan", "store", "count"},
             req' = [req EXCEPT ![q] = r], UNCHANGED <<database, keyCache>>,
             limitCache' \in [Replicas -> Plans \cup {None}],
             used' \in 0..Full, admitted' \in 0..Full
      PROVE  TypeOK'
  <2>1. req' \in [Requests -> Entry \cup {Free}]
    BY <1>9
  <2>2. \A x \in Requests : req'[x] = IF x = q THEN r ELSE req[x]
    BY <1>9
  <2> QED
    BY <1>9, <2>1, <2>2
<1>10. ASSUME NEW q \in Requests, Resolve(q) PROVE TypeOK'
  <2>1. CASE Leave(q)
    BY <1>10, <2>1, <1>8 DEF Resolve
  <2>2. ASSUME NEW step \in {"meter", "lookup"}, GoTo(q, step) PROVE TypeOK'
    <3> DEFINE r == [req[q] EXCEPT !.pc = step]
    <3>1. req[q] \in Entry \cup {Free} /\ req[q].pc = "resolve"
      BY <1>10 DEF Resolve, At
    <3>2. r \in Entry /\ req[q] \in Entry
      BY <3>1, EntryUpdate DEF Steps
    <3>3. r.limit = None /\ r.pc = step /\ r.good = FALSE /\ r.ours = FALSE
      BY <3>1, <3>2 DEF Entry
    <3>4. req' = [req EXCEPT ![q] = r]
      BY <2>2 DEF GoTo
    <3> HIDE DEF r
    <3> QED
      BY <1>10, <1>9, <3>2, <3>3, <3>4 DEF Resolve
  <2> QED
    BY <1>10, <2>1, <2>2 DEF Resolve
<1>11. ASSUME NEW q \in Requests, Lookup(q) PROVE TypeOK'
  <2> DEFINE g == req[q].key \notin revoked
             r == [req[q] EXCEPT !.pc = "remember", !.good = g]
  <2>1. req[q] \in Entry \cup {Free} /\ req[q].pc = "lookup"
    BY <1>11 DEF Lookup, At
  <2>2. r \in Entry /\ req[q] \in Entry
    BY <2>1, EntryUpdate DEF Steps
  <2>3. r.limit = None /\ r.pc = "remember" /\ r.ours = FALSE
    BY <2>1, <2>2 DEF Entry
  <2>4. req' = [req EXCEPT ![q] = r]
    BY <1>11 DEF Lookup
  <2> HIDE DEF r
  <2> QED
    BY <1>11, <1>9, <2>2, <2>3, <2>4 DEF Lookup
<1>12. ASSUME NEW q \in Requests, Remember(q) PROVE TypeOK'
  <2> DEFINE r == [req[q] EXCEPT !.pc = "meter", !.good = FALSE]
             entry == IF req[q].good THEN "good" ELSE "bad"
  <2>1. req[q] \in Entry \cup {Free} /\ req[q].pc = "remember"
    BY <1>12 DEF Remember, At
  <2>2. r \in Entry /\ req[q] \in Entry
    BY <2>1, EntryUpdate DEF Steps
  <2>3. r.limit = None /\ r.pc = "meter" /\ r.good = FALSE /\ r.ours = FALSE
    BY <2>1, <2>2 DEF Entry
  <2>4. keyCache' \in [Replicas -> [Keys -> {"none", "good", "bad"}]]
    <3>1. keyCache' = [keyCache EXCEPT ![req[q].at][req[q].key] = entry]
      BY <1>12 DEF Remember
    <3> QED
      BY <3>1
  <2>5. req' = [req EXCEPT ![q] = r] \/ req' = [req EXCEPT ![q] = Free]
    BY <1>12 DEF Remember, Leave
  <2> HIDE DEF r
  <2>6. req' \in [Requests -> Entry \cup {Free}]
    BY <2>2, <2>5
  <2>7. \A x \in Requests : req'[x] = req[x] \/ req'[x] = Free \/ req'[x] = r
    BY <2>5
  <2>8. Free.pc = "free" /\ Free.limit = None /\ Free.good = FALSE /\ Free.ours = FALSE
    BY DEF Free
  <2> QED
    BY <1>12, <2>2, <2>3, <2>4, <2>6, <2>7, <2>8 DEF Remember
<1>13. ASSUME NEW q \in Requests, Meter(q) PROVE TypeOK'
  <2> DEFINE cached == limitCache[req[q].at]
             r == [req[q] EXCEPT !.pc = "count", !.ours = begun, !.limit = cached]
             s == [req[q] EXCEPT !.pc = "plan", !.ours = begun]
  <2>1. req[q] \in Entry \cup {Free} /\ req[q].pc = "meter"
    BY <1>13 DEF Meter, At
  <2>2. req[q] \in Entry
    BY <2>1 DEF Free
  <2>3. cached \in Plans \cup {None}
    BY <2>2 DEF Entry
  <2>4. r \in Entry /\ s \in Entry
    BY <2>1, <2>3, EntryUpdate DEF Steps
  <2>5. /\ r.limit = cached /\ r.pc = "count" /\ r.good = FALSE /\ r.ours = begun
        /\ s.limit = None /\ s.pc = "plan" /\ s.good = FALSE /\ s.ours = begun
    BY <2>1, <2>2 DEF Entry
  <2>6. \/ cached # None /\ req' = [req EXCEPT ![q] = r]
        \/ req' = [req EXCEPT ![q] = s]
    BY <1>13 DEF Meter
  <2> HIDE DEF r, s, cached
  <2> QED
    BY <1>13, <1>9, <2>4, <2>5, <2>6 DEF Meter
<1>14. ASSUME NEW q \in Requests, ReadPlan(q) PROVE TypeOK'
  <2> DEFINE r == [req[q] EXCEPT !.pc = "store", !.limit = plan]
  <2>1. req[q] \in Entry \cup {Free} /\ req[q].pc = "plan"
    BY <1>14 DEF ReadPlan, At
  <2>2. r \in Entry /\ req[q] \in Entry
    BY <2>1, EntryUpdate DEF Steps
  <2>3. /\ r.limit = plan /\ r.pc = "store" /\ r.good = FALSE /\ plan # None
        /\ r.ours => begun
    BY <2>1, <2>2, GateAssumption DEF Entry, Plans
  <2>4. req' = [req EXCEPT ![q] = r]
    BY <1>14 DEF ReadPlan
  <2> HIDE DEF r
  <2> QED
    BY <1>14, <1>9, <2>2, <2>3, <2>4 DEF ReadPlan
<1>15. ASSUME NEW q \in Requests, StoreLimit(q) PROVE TypeOK'
  <2> DEFINE r == [req[q] EXCEPT !.pc = "count"]
  <2>1. req[q] \in Entry \cup {Free} /\ req[q].pc = "store"
    BY <1>15 DEF StoreLimit, At
  <2>2. r \in Entry /\ req[q] \in Entry
    BY <2>1, EntryUpdate DEF Steps
  <2>3. /\ r.limit = req[q].limit /\ r.pc = "count" /\ r.good = FALSE /\ req[q].limit # None
        /\ r.ours => begun
    BY <2>1, <2>2 DEF Entry
  <2>4. req' = [req EXCEPT ![q] = r]
    BY <1>15 DEF StoreLimit, GoTo
  <2>5. limitCache' \in [Replicas -> Plans \cup {None}]
    BY <1>15, <2>2 DEF StoreLimit, Entry
  <2> HIDE DEF r
  <2> QED
    BY <1>15, <1>9, <2>2, <2>3, <2>4, <2>5 DEF StoreLimit
<1>16. ASSUME NEW q \in Requests,
              CountEarlier(q) \/ \E n \in 1..MaxBatch : Count(q, n)
       PROVE  TypeOK'
  <2> DEFINE r == [req[q] EXCEPT !.pc = "publish", !.ours = FALSE, !.limit = None]
  <2>1. req[q] \in Entry \cup {Free} /\ req[q].pc = "count"
    BY <1>16 DEF Count, CountEarlier, At
  <2>2. r \in Entry /\ req[q] \in Entry
    BY <2>1, EntryUpdate DEF Steps
  <2>3. r.limit = None /\ r.pc = "publish" /\ r.good = FALSE /\ r.ours = FALSE
    BY <2>1, <2>2 DEF Entry
  <2>4. req' = [req EXCEPT ![q] = r] \/ Leave(q)
    BY <1>16 DEF Count, CountEarlier, Decide, Verdict, Leave
  <2>5. used' \in 0..Full /\ admitted' \in 0..Full
    BY <1>16, PlusBounds DEF Count, CountEarlier, Decide
  <2>6. UNCHANGED <<database, keyCache, limitCache>>
    BY <1>16 DEF Count, CountEarlier
  <2> HIDE DEF r
  <2> QED
    BY <1>8, <1>9, <2>2, <2>3, <2>4, <2>5, <2>6
<1>17. ASSUME NEW q \in Requests, Publish(q) \/ End(q) PROVE TypeOK'
    BY <1>17, <1>8 DEF Publish, End
<1> QED
    BY <1>1, <1>2, <1>3, <1>4, <1>5, <1>6, <1>7, <1>10, <1>11, <1>12, <1>13, <1>14,
       <1>15, <1>16, <1>17, <1>18 DEF Next, Advance

\* In every reachable state the gate's state has its shape, and a request that
\* counts has a limit to compare with.
THEOREM TypeCorrect == Spec => []TypeOK
BY TypeInit, TypeNext, PTL DEF Spec

-----------------------------------------------------------------------------
(* The gate: the quota.                                                     *)

\* What an update of a request's record does to its step, its month and its limit.
LEMMA LimitUpdate ==
    ASSUME NEW r \in Entry \cup {Free}, NEW step, NEW g, NEW l
    PROVE  /\ LET s == [r EXCEPT !.pc = step]
              IN  s.pc = step /\ s.ours = r.ours /\ s.limit = r.limit
           /\ LET s == [r EXCEPT !.pc = step, !.good = g]
              IN  s.pc = step /\ s.ours = r.ours
           /\ LET s == [r EXCEPT !.pc = step, !.limit = l]
              IN  s.pc = step /\ s.ours = r.ours /\ s.limit = l
           /\ LET s == [r EXCEPT !.pc = step, !.ours = g]
              IN  s.pc = step /\ s.limit = r.limit
           /\ [r EXCEPT !.pc = step, !.ours = g, !.limit = l].limit = l
           /\ Free.pc = "free" /\ Free.ours = FALSE /\ Free.limit = None
<1>1. CASE r \in Entry
    BY <1>1 DEF Entry, Free
<1>2. CASE r = Free
    BY <1>2 DEF Free
<1> QED
    BY <1>1, <1>2

\* No step invents a limit: it is read from the plan in force, or copied from a
\* cache to a request or back.
LEMMA LimitsNext ==
    TypeOK /\ LimitsWereOffered /\ [Next]_vars => LimitsWereOffered'
<1> SUFFICES ASSUME TypeOK, LimitsWereOffered, [Next]_vars PROVE LimitsWereOffered'
    OBVIOUS
<1> USE DEF LimitsWereOffered, database
<1>0. /\ req \in [Requests -> Entry \cup {Free}]
      /\ limitCache \in [Replicas -> Plans \cup {None}]
      /\ begun => plan \in offered
    BY DEF TypeOK
<1>1. CASE UNCHANGED vars
    BY <1>1 DEF vars
<1>2. ASSUME NEW k \in Keys, Revoke(k) PROVE LimitsWereOffered'
    BY <1>2 DEF Revoke
<1>3. ASSUME NEW c \in Plans, ChangePlan(c) PROVE LimitsWereOffered'
    BY <1>3 DEF ChangePlan
<1>4. ASSUME NEW p \in Replicas, NEW k \in Keys, ExpireKey(p, k) PROVE LimitsWereOffered'
    BY <1>4 DEF ExpireKey
<1>5. ASSUME NEW p \in Replicas, ExpireLimit(p) PROVE LimitsWereOffered'
    BY <1>0, <1>5 DEF ExpireLimit
<1>6. ASSUME NEW p \in Replicas, Crash(p) PROVE LimitsWereOffered'
  <2>1. ~Matters(Free)
    BY DEF Free, Matters
  <2>2. /\ \A x \in Requests : req'[x] \in {req[x], Free}
        /\ \A x \in Replicas : limitCache'[x] \in {limitCache[x], None}
        /\ UNCHANGED <<begun, offered>>
    BY <1>0, <1>6 DEF Crash
  <2> QED
    BY <2>1, <2>2
<1>7. ASSUME NEW q \in Requests, NEW r, req' = [req EXCEPT ![q] = r],
             begun /\ Matters(r) => r.limit \in offered \cup {None},
             UNCHANGED <<begun, offered, limitCache>>
      PROVE  LimitsWereOffered'
    BY <1>0, <1>7
<1>8. CASE TurnMonth
  <2>1. \A q \in Requests : Matters(req[q]) => req[q].pc = "store"
    BY <1>8 DEF Matters, TypeOK, TurnMonth
  <2>2. /\ \A q \in Requests : req[q].pc = "store" => req[q].limit \in Remembered
        /\ \A p \in Replicas : limitCache[p] \in Remembered \cup {None}
    BY DEF Remembered
  <2>3. offered' = {plan} \cup Remembered /\ UNCHANGED <<req, limitCache>>
    BY <1>8 DEF TurnMonth
  <2> QED
    BY <2>1, <2>2, <2>3
<1>9. ASSUME NEW q \in Requests, NEW r, ~Matters(r), req' = [req EXCEPT ![q] = r],
             UNCHANGED <<begun, offered, limitCache>>
      PROVE  LimitsWereOffered'
    BY <1>7, <1>9
<1>10. ASSUME NEW q \in Requests, Leave(q), UNCHANGED <<begun, offered, limitCache>>
       PROVE  LimitsWereOffered'
  <2>1. ~Matters(Free)
    BY DEF Free, Matters
  <2> QED
    BY <1>9, <1>10, <2>1 DEF Leave
<1>11. ASSUME NEW q \in Requests, NEW p \in Replicas, NEW k \in Keys, Arrive(q, p, k)
       PROVE  LimitsWereOffered'
  <2>1. ~Matters([Free EXCEPT !.pc = "resolve", !.at = p, !.key = k])
    BY DEF Free, Matters
  <2> QED
    BY <1>11, <1>9, <2>1 DEF Arrive
<1>12. ASSUME NEW q \in Requests,
              Resolve(q) \/ Lookup(q) \/ Remember(q) \/ Publish(q) \/ End(q)
       PROVE  LimitsWereOffered'
  <2>1. UNCHANGED <<begun, offered, limitCache>>
    BY <1>12 DEF Resolve, Lookup, Remember, Publish, End
  <2>2. CASE Leave(q)
    BY <1>10, <2>1, <2>2
  <2>3. CASE Publish(q) \/ End(q)
    BY <2>2, <2>3 DEF Publish, End
  <2>4. ~req[q].ours \/ Publish(q) \/ End(q)
    BY <1>12 DEF Resolve, Lookup, Remember, At, TypeOK
  <2>5. CASE Resolve(q)
    <3>1. ASSUME NEW step \in {"meter", "lookup"}, GoTo(q, step) PROVE LimitsWereOffered'
      <4>1. ~req[q].ours
        BY <2>5 DEF Resolve, At, TypeOK
      <4>2. ~Matters([req[q] EXCEPT !.pc = step])
        BY <1>0, <4>1, LimitUpdate DEF Matters
      <4> QED
        BY <1>9, <2>1, <3>1, <4>2 DEF GoTo
    <3> QED
      BY <2>2, <2>5, <3>1 DEF Resolve
  <2>6. CASE Lookup(q) \/ Remember(q)
    <3>1. ~req[q].ours
      BY <2>6 DEF Lookup, Remember, At, TypeOK
    <3>2. ASSUME NEW step \in {"remember", "meter"}, NEW g
          PROVE  ~Matters([req[q] EXCEPT !.pc = step, !.good = g])
      BY <1>0, <3>1, LimitUpdate DEF Matters
    <3>3. \/ Leave(q)
          \/ \E step \in {"remember", "meter"}, g \in BOOLEAN :
                 req' = [req EXCEPT ![q] = [req[q] EXCEPT !.pc = step, !.good = g]]
      BY <2>6 DEF Lookup, Remember
    <3> QED
      BY <1>9, <2>1, <2>2, <3>2, <3>3
  <2> QED
    BY <1>12, <2>3, <2>5, <2>6
<1>13. ASSUME NEW q \in Requests, Meter(q) PROVE LimitsWereOffered'
  <2> DEFINE cached == limitCache[req[q].at]
             r == [req[q] EXCEPT !.pc = "count", !.ours = begun, !.limit = cached]
             s == [req[q] EXCEPT !.pc = "plan", !.ours = begun]
  <2>1. req[q] \in Entry /\ req[q].limit = None
    BY <1>0, <1>13 DEF Meter, At, Free, TypeOK
  <2>2. begun => cached \in offered \cup {None}
    BY <1>0, <2>1 DEF Entry
  <2>3. r.limit = cached /\ s.limit = None
    BY <2>1, LimitUpdate
  <2>4. req' = [req EXCEPT ![q] = r] \/ req' = [req EXCEPT ![q] = s]
    BY <1>13 DEF Meter
  <2>5. UNCHANGED <<begun, offered, limitCache>>
    BY <1>13 DEF Meter
  <2> HIDE DEF cached, r, s
  <2> QED
    BY <1>7, <2>2, <2>3, <2>4, <2>5
<1>14. ASSUME NEW q \in Requests, ReadPlan(q) PROVE LimitsWereOffered'
  <2> DEFINE r == [req[q] EXCEPT !.pc = "store", !.limit = plan]
  <2>1. r.limit = plan
    BY <1>0, LimitUpdate
  <2>2. req' = [req EXCEPT ![q] = r] /\ UNCHANGED <<begun, offered, limitCache>>
    BY <1>14 DEF ReadPlan
  <2> HIDE DEF r
  <2> QED
    BY <1>0, <1>7, <2>1, <2>2
<1>15. ASSUME NEW q \in Requests, StoreLimit(q) PROVE LimitsWereOffered'
  <2> DEFINE r == [req[q] EXCEPT !.pc = "count"]
  <2>1. req' = [req EXCEPT ![q] = r] /\ UNCHANGED <<begun, offered>>
    BY <1>15 DEF StoreLimit, GoTo
  <2>2. r.limit = req[q].limit
    BY <1>0, LimitUpdate
  <2>3. begun => req[q].limit \in offered \cup {None}
    BY <1>15 DEF StoreLimit, At, Matters
  <2>4. \A p \in Replicas : limitCache'[p] \in {limitCache[p], req[q].limit}
    BY <1>0, <1>15 DEF StoreLimit
  <2> HIDE DEF r
  <2>5. \A x \in Requests : req'[x] = IF x = q THEN r ELSE req[x]
    BY <1>0, <2>1
  <2> QED
    BY <2>1, <2>2, <2>3, <2>4, <2>5
<1>16. ASSUME NEW q \in Requests,
              CountEarlier(q) \/ \E n \in 1..MaxBatch : Count(q, n)
       PROVE  LimitsWereOffered'
  <2> DEFINE r == [req[q] EXCEPT !.pc = "publish", !.ours = FALSE, !.limit = None]
  <2>1. UNCHANGED <<begun, offered, limitCache>>
    BY <1>16 DEF Count, CountEarlier
  <2>2. r.limit = None
    BY <1>0, LimitUpdate
  <2>3. req' = [req EXCEPT ![q] = r] \/ Leave(q)
    BY <1>16 DEF Count, CountEarlier, Decide, Verdict, Leave
  <2> HIDE DEF r
  <2> QED
    BY <1>7, <1>10, <2>1, <2>2, <2>3
<1> QED
    BY <1>1, <1>2, <1>3, <1>4, <1>5, <1>6, <1>8, <1>11, <1>12, <1>13, <1>14, <1>15, <1>16
    DEF Next, Advance

\* A batch that fits is let through by a limit offered to the month, and the counter
\* it was added to is ahead of what was let through.
LEMMA CountKeepsQuota ==
    ASSUME IInv, NEW q \in Requests, NEW n \in 1..MaxBatch, Count(q, n)
    PROVE  AdmittedIsCounted' /\ QuotaHolds'
<1> DEFINE limit == req[q].limit
<1>1. /\ used \in 0..Full /\ admitted \in 0..Full /\ offered \subseteq Plans
      /\ limit \in offered /\ begun
    <2>1. req[q].pc = "count" /\ req[q].ours
      BY DEF Count, At
    <2>2. limit # None /\ begun
      BY <2>1 DEF IInv, TypeOK
    <2> QED
      BY <2>1, <2>2 DEF IInv, TypeOK, LimitsWereOffered, Matters
<1>2. used' = Plus(used, n) /\ offered' = offered /\ begun' = begun
    BY DEF Count, database
<1>3. CASE Fits(limit, used')
  <2>1. admitted' = Plus(admitted, n)
    BY <1>3 DEF Count, Decide
  <2>2. AdmittedIsCounted'
    BY <1>1, <1>2, <2>1, GateAssumption DEF IInv, AdmittedIsCounted, Plus
  <2>3. ASSUME Unlimited \notin offered PROVE admitted' <= limit
    <3>1. limit \in 0..(Full - 1) /\ used' <= limit
      BY <1>1, <1>3, <2>3, GateAssumption DEF Fits, Plans
    <3>2. used' # Full
      BY <1>1, <1>2, <3>1, PlusBounds, GateAssumption
    <3> QED
      BY <1>1, <1>2, <2>1, <2>2, <3>1, <3>2, PlusBounds, GateAssumption
      DEF AdmittedIsCounted
  <2> QED
    BY <1>1, <1>2, <2>2, <2>3 DEF QuotaHolds
<1>4. CASE ~Fits(limit, used')
  <2>1. admitted' = admitted
    BY <1>4 DEF Count, Decide
  <2> QED
    BY <1>1, <1>2, <2>1, PlusBounds, GateAssumption DEF IInv, AdmittedIsCounted, QuotaHolds
<1> QED
    BY <1>3, <1>4

\* The inductive invariant holds initially.
LEMMA IInvInit == Init => IInv
<1> SUFFICES ASSUME Init PROVE IInv
    OBVIOUS
<1>1. TypeOK
    BY TypeInit
<1>2. LimitsWereOffered /\ QuotaHolds
    BY DEF Init, LimitsWereOffered, QuotaHolds
<1>3. AdmittedIsCounted /\ NothingYet
    BY DEF Init, AdmittedIsCounted, NothingYet
<1> QED
    BY <1>1, <1>2, <1>3 DEF IInv

\* Every step keeps it; only Count changes what was let through.
LEMMA IInvNext == IInv /\ [Next]_vars => IInv'
<1> SUFFICES ASSUME IInv, [Next]_vars PROVE IInv'
    OBVIOUS
<1>1. TypeOK' /\ LimitsWereOffered'
    BY TypeNext, LimitsNext DEF IInv
<1>2. CASE \E q \in Requests, n \in 1..MaxBatch : Count(q, n)
  <2>1. PICK q \in Requests, n \in 1..MaxBatch : Count(q, n)
    BY <1>2
  <2>2. begun'
    BY <2>1 DEF Count, database, IInv, TypeOK
  <2> QED
    BY <1>1, <2>1, <2>2, CountKeepsQuota DEF IInv, NothingYet
<1>3. CASE UNCHANGED <<used, admitted, begun>> /\ offered \subseteq offered'
                /\ (Unlimited \in offered => Unlimited \in offered')
  <2>1. AdmittedIsCounted' /\ NothingYet'
    BY <1>3 DEF IInv, AdmittedIsCounted, NothingYet
  <2>2. QuotaHolds'
    BY <1>3 DEF IInv, QuotaHolds
  <2> QED
    BY <1>1, <2>1, <2>2 DEF IInv
<1>4. CASE TurnMonth \/ \E c \in Plans : ChangePlan(c) /\ ~begun
  <2>1. UNCHANGED <<used, admitted>> /\ used = 0 /\ admitted = 0
    BY <1>4 DEF TurnMonth, ChangePlan, IInv, NothingYet
  <2>2. AdmittedIsCounted' /\ NothingYet'
    BY <2>1 DEF AdmittedIsCounted, NothingYet
  <2>3. QuotaHolds'
    <3> SUFFICES ASSUME begun', Unlimited \notin offered'
                 PROVE  \E c \in offered' : admitted' <= c
      BY DEF QuotaHolds
    <3>1. plan' \in offered' /\ plan' \in Plans
      BY <1>1 DEF TypeOK
    <3>2. plan' \in 0..(Full - 1) /\ admitted' = 0
      BY <2>1, <3>1, GateAssumption DEF Plans
    <3> QED
      BY <3>1, <3>2, GateAssumption
  <2> QED
    BY <1>1, <2>2, <2>3 DEF IInv
<1>5. ASSUME NEW c \in Plans, ChangePlan(c), begun
      PROVE  UNCHANGED <<used, admitted, begun>> /\ offered \subseteq offered'
    BY <1>5 DEF ChangePlan
<1> QED
    BY <1>2, <1>3, <1>4, <1>5
    DEF Next, Advance, vars, database, Revoke, ExpireKey, ExpireLimit, Arrive,
        Resolve, Lookup, Remember, Meter, ReadPlan, StoreLimit, CountEarlier, Publish, End, Crash

\* All replicas together let through no more of a month's events than the largest cutoff
\* in force since it began or remembered then, for any number of replicas, of requests
\* (those left behind by the month before included) and of plans.
THEOREM QuotaKept == Spec => []QuotaHolds
<1>1. IInv => QuotaHolds
    BY DEF IInv
<1> QED
    BY <1>1, IInvInit, IInvNext, PTL DEF Spec

-----------------------------------------------------------------------------
(* Organization: what is still to come.                                     *)

\* With what is still to come, the tokens stay below the bound.
BudgetInv ==
    spent > 0 \/ calling # {} =>
        spent + MaxTokens * Cardinality(calling) < Budget + MaxTokens * Cardinality(Slots)

\* Whoever is about to write without being an owner writes about no owner it knows of.
EditInv ==
    \A s \in Slots :
        pc[s] = "commit" /\ edit[s].held # "owner" =>
            edit[s].new # "owner" /\ edit[s].was # "owner"

OrgIInv == OrgTypeOK /\ BudgetInv /\ EditInv

-----------------------------------------------------------------------------
(* Organization: types.                                                     *)

\* The initial state has the shape.
LEMMA OrgTypeInit == OrgInit => OrgTypeOK
<1> SUFFICES ASSUME OrgInit PROVE OrgTypeOK
    OBVIOUS
<1>1. role \in [Users -> Roles \cup {"none"}]
    BY DEF OrgInit, Roles
<1>2. \A s \in Slots : pc[s] = "idle"
    BY DEF OrgInit
<1> QED
    BY <1>1, <1>2 DEF OrgInit, OrgTypeOK, Places

\* Where a request goes, and the end of one, keep their shapes.
LEMMA PlaceTypes ==
    ASSUME OrgTypeOK, NEW s \in Slots
    PROVE  /\ \A place \in Places : Goto(s, place) => pc' \in [Slots -> Places]
           /\ Done(s) => /\ pc' \in [Slots -> Places] /\ edit' \in [Slots -> Edits \cup {NoEdit}]
                         /\ pc'[s] = "idle"
                         /\ \A r \in Slots : r # s => pc'[r] = pc[r] /\ edit'[r] = edit[r]
    BY DEF OrgTypeOK, Goto, Done, Places

\* A step of an edit keeps the shape.
LEMMA TypeEdit ==
    ASSUME OrgTypeOK, NEW s \in Slots,
           \/ \E u, v \in Users, r \in Roles : AddMember(s, u, v, r)
           \/ LoadMembership(s) \/ CommitMembership(s)
    PROVE  OrgTypeOK'
<1>1. ASSUME NEW u \in Users, NEW v \in Users, NEW r \in Roles, AddMember(s, u, v, r)
      PROVE  OrgTypeOK'
    <2> DEFINE e == [actor |-> u, target |-> v, new |-> r, held |-> role[u], was |-> "none"]
    <2>1. role[u] \in Roles
        BY <1>1 DEF AddMember, Roles
    <2>2. e \in Edits
        BY <2>1 DEF Edits
    <2>3. edit' = [edit EXCEPT ![s] = e] /\ pc' = [pc EXCEPT ![s] = "load"]
        BY <1>1 DEF AddMember, Goto
    <2> HIDE DEF e
    <2>4. edit' \in [Slots -> Edits \cup {NoEdit}] /\ pc' \in [Slots -> Places]
        BY <2>2, <2>3 DEF OrgTypeOK, Places
    <2>5. pc[s] = "idle" /\ UNCHANGED <<role, spent, calling>>
        BY <1>1 DEF AddMember
    <2>6. \A x \in calling' : pc'[x] \in Calls
        BY <2>3, <2>5 DEF OrgTypeOK, Calls
    <2>7. \A x \in Slots : pc'[x] \in {"load", "commit"} => edit'[x] \in Edits
        BY <2>2, <2>3 DEF OrgTypeOK
    <2> QED
        BY <2>4, <2>5, <2>6, <2>7 DEF OrgTypeOK
<1>2. CASE LoadMembership(s)
    <2> DEFINE e == [edit[s] EXCEPT !.was = IF edit[s].target = edit[s].actor
                                            THEN edit[s].held ELSE role[edit[s].target]]
    <2>1. edit[s] \in Edits /\ pc[s] = "load" /\ UNCHANGED <<role, spent, calling>>
        BY <1>2 DEF LoadMembership, OrgTypeOK
    <2>2. e \in Edits
        BY <2>1 DEF Edits, OrgTypeOK
    <2>3. \/ Done(s)
          \/ edit' = [edit EXCEPT ![s] = e] /\ pc' = [pc EXCEPT ![s] = "commit"]
        BY <1>2 DEF LoadMembership, Goto
    <2> HIDE DEF e
    <2>4. edit' \in [Slots -> Edits \cup {NoEdit}] /\ pc' \in [Slots -> Places]
        BY <2>2, <2>3, PlaceTypes DEF OrgTypeOK, Places
    <2>5. \A x \in calling' : pc'[x] \in Calls
        BY <2>1, <2>3, PlaceTypes DEF OrgTypeOK, Calls
    <2>6. \A x \in Slots : pc'[x] \in {"load", "commit"} => edit'[x] \in Edits
        BY <2>2, <2>3, PlaceTypes DEF OrgTypeOK
    <2> QED
        BY <2>1, <2>4, <2>5, <2>6 DEF OrgTypeOK
<1>3. CASE CommitMembership(s)
    <2>1. edit[s] \in Edits /\ pc[s] = "commit" /\ Done(s) /\ UNCHANGED <<spent, calling>>
        BY <1>3 DEF CommitMembership, OrgTypeOK
    <2>2. role' \in [Users -> Roles \cup {"none"}]
        BY <1>3, <2>1 DEF CommitMembership, OrgTypeOK, Edits
    <2>3. \A x \in calling' : pc'[x] \in Calls
        BY <2>1, PlaceTypes DEF OrgTypeOK, Calls
    <2>4. \A x \in Slots : pc'[x] \in {"load", "commit"} => edit'[x] \in Edits
        BY <2>1, PlaceTypes DEF OrgTypeOK
    <2> QED
        BY <2>1, <2>2, <2>3, <2>4, PlaceTypes DEF OrgTypeOK
<1> QED
    BY <1>1, <1>2, <1>3

\* A step that leaves the edits alone, and goes to no place of theirs, keeps the shape.
LEMMA TypeGoto ==
    ASSUME OrgTypeOK, NEW s \in Slots, NEW place \in Calls \cup {"idle", "query"},
           Goto(s, place), spent' \in Nat, UNCHANGED <<role, edit>>,
           calling' \in {calling, calling \ {s}}, s \in calling' => place \in Calls
    PROVE  OrgTypeOK'
<1>1. pc' \in [Slots -> Places] /\ pc' = [pc EXCEPT ![s] = place]
    BY DEF OrgTypeOK, Goto, Places, Calls
<1>2. \A x \in calling' : pc'[x] \in Calls
    BY <1>1 DEF OrgTypeOK
<1>3. \A x \in Slots : pc'[x] \in {"load", "commit"} => edit'[x] \in Edits
    BY <1>1 DEF OrgTypeOK, Calls
<1> QED
    BY <1>1, <1>2, <1>3 DEF OrgTypeOK

\* The end of a request that does not wait, or no longer, keeps it.
LEMMA TypeDone ==
    ASSUME OrgTypeOK, NEW s \in Slots, Done(s), spent' \in Nat, UNCHANGED role,
           calling' = calling \ {s}
    PROVE  OrgTypeOK'
<1>1. \A x \in calling' : pc'[x] \in Calls
    BY PlaceTypes DEF OrgTypeOK
<1>2. \A x \in Slots : pc'[x] \in {"load", "commit"} => edit'[x] \in Edits
    BY PlaceTypes DEF OrgTypeOK
<1> QED
    BY <1>1, <1>2, PlaceTypes DEF OrgTypeOK

\* A step of a question or a job, or a failure, keeps the shape.
LEMMA TypeCall ==
    ASSUME OrgTypeOK, NEW s \in Slots,
           \/ Begin(s) \/ Check(s) \/ Query(s)
           \/ \E tokens \in 0..MaxTokens : Answer(s, tokens) \/ Fail(s, tokens)
    PROVE  OrgTypeOK'
<1>0. MaxTokens \in Nat /\ spent \in Nat
    BY OrganizationAssumption DEF OrgTypeOK
<1>1. CASE Begin(s)
    <2>1. PICK place \in {"compile", "prose"} : Goto(s, place)
        BY <1>1 DEF Begin
    <2>2. UNCHANGED <<role, spent, calling, edit>>
        BY <1>1 DEF Begin
    <2> QED
        BY <1>0, <2>1, <2>2, TypeGoto DEF Calls
<1>2. CASE Check(s)
    <2>1. pc[s] \in Calls /\ s \notin calling /\ UNCHANGED <<role, spent>>
        BY <1>2 DEF Check
    <2>2. CASE Done(s) /\ UNCHANGED calling
        <3>1. calling' = calling \ {s}
            BY <2>1, <2>2
        <3> QED
            BY <1>0, <2>1, <2>2, <3>1, TypeDone
    <2>3. CASE calling' = calling \cup {s} /\ UNCHANGED <<pc, edit>>
        BY <2>1, <2>3 DEF OrgTypeOK
    <2> QED
        BY <1>2, <2>2, <2>3 DEF Check
<1>3. CASE Query(s)
    <2>1. Goto(s, "phrase") /\ UNCHANGED <<role, spent, calling, edit>>
        BY <1>3 DEF Query
    <2> QED
        BY <1>0, <2>1, TypeGoto DEF Calls
<1>4. ASSUME NEW tokens \in 0..MaxTokens, Answer(s, tokens)
      PROVE  OrgTypeOK'
    <2>1. spent' \in Nat /\ calling' = calling \ {s} /\ UNCHANGED <<role, edit>>
        BY <1>0, <1>4 DEF Answer
    <2>2. PICK place \in {"query", "repair", "idle"} : Goto(s, place)
        BY <1>4 DEF Answer
    <2> QED
        BY <2>1, <2>2, TypeGoto DEF Calls
<1>5. ASSUME NEW tokens \in 0..MaxTokens, Fail(s, tokens)
      PROVE  OrgTypeOK'
    <2>1. spent' \in {spent, spent + tokens}
        BY <1>5 DEF Fail
    <2>2. spent' \in Nat
        BY <1>0, <2>1
    <2> QED
        BY <1>5, <2>2, TypeDone DEF Fail
<1> QED
    BY <1>1, <1>2, <1>3, <1>4, <1>5

\* Every step keeps the shape.
LEMMA OrgTypeNext == OrgTypeOK /\ [OrgNext]_orgVars => OrgTypeOK'
<1> SUFFICES ASSUME OrgTypeOK, [OrgNext]_orgVars PROVE OrgTypeOK'
    OBVIOUS
<1>1. CASE NewMonth
    BY <1>1 DEF NewMonth, OrgTypeOK
<1>2. CASE UNCHANGED orgVars
    BY <1>2 DEF orgVars, OrgTypeOK
<1> QED
    BY <1>1, <1>2, TypeEdit, TypeCall DEF OrgNext

-----------------------------------------------------------------------------
(* Organization: the budget.                                                *)

\* Those that wait for the model can be counted, one more and one less.
LEMMA CountCalls ==
    ASSUME OrgTypeOK, NEW s \in Slots
    PROVE  /\ Cardinality(calling) \in Nat /\ Cardinality(Slots) \in Nat
           /\ Cardinality(calling \ {s}) \in Nat
           /\ s \notin calling => /\ Cardinality(calling \cup {s}) = Cardinality(calling) + 1
                                  /\ Cardinality(calling) + 1 <= Cardinality(Slots)
           /\ s \in calling => Cardinality(calling \ {s}) = Cardinality(calling) - 1
<1>1. IsFiniteSet(Slots) /\ calling \subseteq Slots /\ calling \cup {s} \subseteq Slots
    BY OrganizationAssumption DEF OrgTypeOK
<1>2. IsFiniteSet(calling) /\ IsFiniteSet(calling \ {s})
    BY <1>1, FS_Subset
<1>3. /\ Cardinality(calling) \in Nat /\ Cardinality(Slots) \in Nat
      /\ Cardinality(calling \ {s}) \in Nat
    BY <1>1, <1>2, FS_CardinalityType
<1>4. s \notin calling => Cardinality(calling \cup {s}) = Cardinality(calling) + 1
    BY <1>2, FS_AddElement
<1>5. Cardinality(calling \cup {s}) <= Cardinality(Slots)
    BY <1>1, FS_Subset
<1>6. s \in calling => Cardinality(calling \ {s}) = Cardinality(calling) - 1
    BY <1>2, FS_RemoveElement
<1> QED
    BY <1>3, <1>4, <1>5, <1>6

\* What one more call, and one less, may cost.
LEMMA Product ==
    ASSUME NEW t \in Nat, NEW m \in Nat, NEW n \in Nat
    PROVE  /\ t * m \in Nat
           /\ m <= n => t * m <= t * n
           /\ m > 0 => t * (m - 1) = t * m - t
<1>1. t * m \in Nat /\ (m > 0 => t * (m - 1) = t * m - t)
    OBVIOUS
<1>2. ASSUME m <= n PROVE t * m <= t * n
    <2>1. PICK k \in Nat : n = m + k
        <3>1. n - m \in Nat /\ n = m + (n - m)
            BY <1>2
        <3> QED
            BY <3>1
    <2>2. t * n = t * m + t * k /\ t * k \in Nat /\ t * m \in Nat
        BY <2>1
    <2> QED
        BY <2>2
<1> QED
    BY <1>1, <1>2

\* A request is let to the model, or refused.
LEMMA BudgetCheck ==
    ASSUME OrgTypeOK, BudgetInv, NEW s \in Slots, Check(s)
    PROVE  BudgetInv'
<1> DEFINE C == Cardinality(calling)
           N == Cardinality(Slots)
<1>1. MaxTokens \in Nat /\ Budget \in Nat /\ spent \in Nat /\ spent' = spent /\ s \notin calling
    BY OrganizationAssumption DEF OrgTypeOK, Check
<1>2. C \in Nat /\ N \in Nat
    BY CountCalls
<1>3. CASE UNCHANGED calling
    BY <1>1, <1>3 DEF BudgetInv
<1>4. CASE spent < Budget /\ calling' = calling \cup {s}
    <2>1. Cardinality(calling') = C + 1 /\ C + 1 <= N
        BY <1>1, <1>4, CountCalls
    <2> HIDE DEF C, N
    <2>2. MaxTokens * (C + 1) <= MaxTokens * N /\ MaxTokens * (C + 1) \in Nat /\ MaxTokens * N \in Nat
        BY <1>1, <1>2, <2>1, Product
    <2>3. spent' + MaxTokens * (C + 1) < Budget + MaxTokens * N
        BY <1>1, <1>4, <2>2
    <2> QED
        BY <2>1, <2>3 DEF BudgetInv, N
<1> QED
    BY <1>1, <1>3, <1>4 DEF Check

\* A call ends, and may have cost something.
LEMMA BudgetAnswer ==
    ASSUME OrgTypeOK, BudgetInv, NEW s \in Slots, s \in calling, NEW tokens \in 0..MaxTokens,
           spent' \in {spent, spent + tokens}, calling' = calling \ {s}
    PROVE  BudgetInv'
<1> DEFINE C == Cardinality(calling)
           N == Cardinality(Slots)
<1>1. MaxTokens \in Nat /\ Budget \in Nat /\ spent \in Nat
    BY OrganizationAssumption DEF OrgTypeOK
<1>2. C \in Nat /\ N \in Nat /\ Cardinality(calling') = C - 1 /\ C - 1 \in Nat
    BY CountCalls
<1>3. spent + MaxTokens * C < Budget + MaxTokens * N
    BY DEF BudgetInv
<1> HIDE DEF C, N
<1>4. /\ MaxTokens * (C - 1) = MaxTokens * C - MaxTokens
      /\ MaxTokens * C \in Nat /\ MaxTokens * N \in Nat
    BY <1>1, <1>2, Product
<1>5. spent' + MaxTokens * (C - 1) < Budget + MaxTokens * N
    BY <1>1, <1>3, <1>4
<1> QED
    BY <1>2, <1>5 DEF BudgetInv, N

\* Every step keeps the tokens, spent and to come, below the bound.
LEMMA BudgetNext == OrgTypeOK /\ BudgetInv /\ [OrgNext]_orgVars => BudgetInv'
<1> SUFFICES ASSUME OrgTypeOK, BudgetInv, [OrgNext]_orgVars PROVE BudgetInv'
    OBVIOUS
<1>1. CASE UNCHANGED <<spent, calling>>
    BY <1>1 DEF BudgetInv
<1>2. ASSUME NEW s \in Slots, Check(s) PROVE BudgetInv'
    BY <1>2, BudgetCheck
<1>3. ASSUME NEW s \in Slots, NEW tokens \in 0..MaxTokens, Answer(s, tokens) PROVE BudgetInv'
    BY <1>3, BudgetAnswer DEF Answer
<1>4. ASSUME NEW s \in Slots, NEW tokens \in 0..MaxTokens, Fail(s, tokens) PROVE BudgetInv'
    <2>1. CASE s \in calling
        BY <1>4, <2>1, BudgetAnswer DEF Fail
    <2>2. CASE s \notin calling
        <3>1. spent' = spent /\ calling' = calling
            BY <1>4, <2>2 DEF Fail
        <3> QED
            BY <3>1 DEF BudgetInv
    <2> QED
        BY <2>1, <2>2
<1>5. CASE NewMonth
    <2>1. spent' = 0 /\ calling' = calling
        BY <1>5 DEF NewMonth
    <2>2. CASE calling = {}
        BY <2>1, <2>2 DEF BudgetInv
    <2>3. ASSUME NEW s \in calling PROVE BudgetInv'
        <3>1. /\ spent \in Nat /\ MaxTokens \in Nat /\ Budget \in Nat
              /\ Cardinality(calling) \in Nat /\ Cardinality(Slots) \in Nat
            BY CountCalls, OrganizationAssumption DEF OrgTypeOK
        <3>2. MaxTokens * Cardinality(calling) \in Nat /\ MaxTokens * Cardinality(Slots) \in Nat
            BY <3>1, Product
        <3> QED
            BY <2>1, <2>3, <3>1, <3>2 DEF BudgetInv
    <2> QED
        BY <2>2, <2>3
<1>6. CASE UNCHANGED orgVars
    BY <1>1, <1>6 DEF orgVars
<1>7. ASSUME NEW s \in Slots,
             \/ \E u, v \in Users, r \in Roles : AddMember(s, u, v, r)
             \/ LoadMembership(s) \/ CommitMembership(s) \/ Begin(s) \/ Query(s)
      PROVE  BudgetInv'
    BY <1>1, <1>7 DEF AddMember, LoadMembership, CommitMembership, Begin, Query
<1> QED
    BY <1>2, <1>3, <1>4, <1>5, <1>6, <1>7 DEF OrgNext

-----------------------------------------------------------------------------
(* Organization: the edits.                                                 *)

\* What is about to be written was looked at.
LEMMA EditNext == OrgTypeOK /\ EditInv /\ [OrgNext]_orgVars => EditInv'
<1> SUFFICES ASSUME OrgTypeOK, EditInv, [OrgNext]_orgVars PROVE EditInv'
    OBVIOUS
<1>1. ASSUME NEW s \in Slots, NEW place, place # "commit", Goto(s, place),
             \A r \in Slots : r # s => edit'[r] = edit[r]
      PROVE  EditInv'
    BY <1>1 DEF EditInv, Goto, OrgTypeOK
<1>2. ASSUME NEW s \in Slots, Done(s) PROVE EditInv'
    BY <1>2, PlaceTypes DEF EditInv
<1>3. CASE UNCHANGED <<pc, edit>>
    BY <1>3 DEF EditInv
<1>4. ASSUME NEW s \in Slots, NEW u \in Users, NEW v \in Users, NEW r \in Roles,
             AddMember(s, u, v, r)
      PROVE  EditInv'
    <2>1. Goto(s, "load") /\ \A x \in Slots : x # s => edit'[x] = edit[x]
        BY <1>4 DEF AddMember, OrgTypeOK
    <2> QED
        BY <1>1, <2>1
<1>5. ASSUME NEW s \in Slots, LoadMembership(s) PROVE EditInv'
    <2> DEFINE e == [edit[s] EXCEPT !.was = IF edit[s].target = edit[s].actor
                                            THEN edit[s].held ELSE role[edit[s].target]]
    <2>1. CASE Done(s)
        BY <1>2, <2>1
    <2>2. CASE ~(TouchesOwner(e) /\ e.held # "owner") /\ edit' = [edit EXCEPT ![s] = e]
                   /\ Goto(s, "commit")
        <3>1. e.held # "owner" => e.new # "owner" /\ e.was # "owner"
            BY <2>2 DEF TouchesOwner
        <3> HIDE DEF e
        <3> QED
            BY <2>2, <3>1 DEF EditInv, Goto, OrgTypeOK
    <2> QED
        BY <1>5, <2>1, <2>2 DEF LoadMembership
<1>6. ASSUME NEW s \in Slots, Begin(s) PROVE EditInv'
    BY <1>1, <1>6 DEF Begin
<1>7. ASSUME NEW s \in Slots, Check(s) PROVE EditInv'
    BY <1>2, <1>3, <1>7 DEF Check
<1>8. ASSUME NEW s \in Slots, NEW tokens \in 0..MaxTokens, Answer(s, tokens) PROVE EditInv'
    <2>1. PICK place \in {"query", "repair", "idle"} : Goto(s, place)
        BY <1>8 DEF Answer
    <2> QED
        BY <1>1, <1>8, <2>1 DEF Answer
<1>9. ASSUME NEW s \in Slots, Query(s) PROVE EditInv'
    BY <1>1, <1>9 DEF Query
<1>10. CASE NewMonth \/ UNCHANGED orgVars
    BY <1>3, <1>10 DEF NewMonth, orgVars
<1>11. ASSUME NEW s \in Slots,
              CommitMembership(s) \/ \E tokens \in 0..MaxTokens : Fail(s, tokens)
       PROVE  EditInv'
    BY <1>2, <1>11 DEF CommitMembership, Fail
<1> QED
    BY <1>4, <1>5, <1>6, <1>7, <1>8, <1>9, <1>10, <1>11 DEF OrgNext

\* A write about an owner is an owner's, or about a membership that has changed.
LEMMA CommitIsAnswered ==
    ASSUME OrgTypeOK, EditInv, NEW s \in Slots, CommitMembership(s), NEW u \in Users,
           (role[u] = "owner") # (role'[u] = "owner")
    PROVE  /\ pc[s] = "commit" /\ edit[s].target = u /\ pc'[s] = "idle"
           /\ edit[s].held = "owner" \/ edit[s].was # role[u]
<1>1. pc[s] = "commit" /\ Done(s) /\ edit[s] \in Edits
    BY DEF CommitMembership, OrgTypeOK
<1>2. role' = [role EXCEPT ![edit[s].target] = edit[s].new]
    BY DEF CommitMembership
<1>3. edit[s].target = u /\ role'[u] = edit[s].new
    BY <1>1, <1>2 DEF OrgTypeOK, Edits
<1>4. edit[s].held # "owner" => edit[s].new # "owner" /\ edit[s].was # "owner"
    BY <1>1 DEF EditInv
<1>5. pc'[s] = "idle"
    BY <1>1, PlaceTypes
<1> QED
    BY <1>1, <1>3, <1>4, <1>5

\* What a step of any request may do to the owners.
OwnersStep ==
    \A u \in Users :
        (role[u] = "owner") # (role'[u] = "owner") =>
            \E s \in Slots :
                /\ pc[s] = "commit" /\ edit[s].target = u /\ pc'[s] = "idle"
                /\ edit[s].held = "owner" \/ edit[s].was # role[u]

\* Only a write of a membership changes a role.
LEMMA StepIsAnswered == OrgIInv /\ [OrgNext]_orgVars => [OwnersStep]_orgVars
<1> SUFFICES ASSUME OrgIInv, [OrgNext]_orgVars, NEW u \in Users,
                    (role[u] = "owner") # (role'[u] = "owner")
             PROVE  \E s \in Slots :
                        /\ pc[s] = "commit" /\ edit[s].target = u /\ pc'[s] = "idle"
                        /\ edit[s].held = "owner" \/ edit[s].was # role[u]
    BY DEF OwnersStep
<1>1. role' # role
    OBVIOUS
<1>2. \E s \in Slots : CommitMembership(s)
    BY <1>1 DEF OrgNext, orgVars, AddMember, LoadMembership, Begin, Check, Query, Answer, Fail, NewMonth
<1> QED
    BY <1>2, CommitIsAnswered DEF OrgIInv

-----------------------------------------------------------------------------
(* Organization: theorems.                                                  *)

\* The strengthened invariant holds at first, and every step keeps it.
LEMMA OrgInvInit == OrgInit => OrgIInv
<1> SUFFICES ASSUME OrgInit PROVE OrgIInv
    OBVIOUS
<1>1. BudgetInv /\ EditInv
    BY DEF OrgInit, BudgetInv, EditInv
<1> QED
    BY <1>1, OrgTypeInit DEF OrgIInv

\* Each conjunct by its lemma.
LEMMA OrgInvNext == OrgIInv /\ [OrgNext]_orgVars => OrgIInv'
<1> QED
    BY OrgTypeNext, BudgetNext, EditNext DEF OrgIInv

\* The roles, places, edits and tokens keep their shape, for any number of users and
\* of requests in hand.
THEOREM OrgTypeCorrect == OrgSpec => []OrgTypeOK
<1> QED
    BY OrgTypeInit, OrgTypeNext, PTL DEF OrgSpec

\* The bound is what BudgetInv says once no call is counted.
LEMMA BudgetSuffices == OrgIInv => OverspendIsBounded
<1> SUFFICES ASSUME OrgIInv, spent > 0
             PROVE  spent < Budget + Cardinality(Slots) * MaxTokens
    BY DEF OverspendIsBounded
<1>1. spent + MaxTokens * Cardinality(calling) < Budget + MaxTokens * Cardinality(Slots)
    BY DEF OrgIInv, BudgetInv
<1>2. IsFiniteSet(Slots) /\ IsFiniteSet(calling)
    BY OrganizationAssumption, FS_Subset DEF OrgIInv, OrgTypeOK
<1>3. /\ MaxTokens \in Nat /\ Budget \in Nat /\ spent \in Nat
      /\ Cardinality(calling) \in Nat /\ Cardinality(Slots) \in Nat
    BY <1>2, FS_CardinalityType, OrganizationAssumption DEF OrgIInv, OrgTypeOK
<1>4. /\ MaxTokens * Cardinality(calling) \in Nat
      /\ MaxTokens * Cardinality(Slots) = Cardinality(Slots) * MaxTokens
      /\ MaxTokens * Cardinality(Slots) \in Nat
    BY <1>3, Product
<1> QED
    BY <1>1, <1>3, <1>4

\* A month's budget is overspent by less than one call of each request in hand, for any
\* budget and any interleaving of checks and records (gateway.py).
THEOREM BudgetKept == OrgSpec => []OverspendIsBounded
<1> QED
    BY OrgInvInit, OrgInvNext, BudgetSuffices, PTL DEF OrgSpec

\* No owner comes or goes unless an owner asked, or the membership changed under the
\* request, for any users and edits under way (add_member).
THEOREM OwnersAnswer == OrgSpec => OwnersAnswerForOwners
<1>1. OrgSpec => [][OwnersStep]_orgVars
    BY OrgInvInit, OrgInvNext, StepIsAnswered, PTL DEF OrgSpec
<1> QED
    BY <1>1 DEF OwnersAnswerForOwners, OwnersStep

=============================================================================
