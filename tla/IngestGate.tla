----------------------------- MODULE IngestGate -----------------------------
(***************************************************************************)
(* What stands between a request and the event stream: authenticate,       *)
(* _meter_quota and collect of oriflux/ingest/main.py with                 *)
(* IngestKeyResolver (ingest/auth.py) and QuotaMeter (quota.py).           *)
(*                                                                         *)
(* The quota counter is in Redis, shared by every ingest replica.  The     *)
(* caches of keys and of plan limits are in each replica's memory and are  *)
(* filled across an await, so what is remembered may be older than what    *)
(* another request of the replica remembered before.  Time only matters    *)
(* through expiry, which may happen at any moment.  One organization is    *)
(* modelled, and one month's counter: the caches are filled before the     *)
(* month begins, requests of the month before are still in hand then, and  *)
(* those of the month may outlive it, which changes nothing for them.  The *)
(* rate limiter is a refusal that may happen.                              *)
(***************************************************************************)
EXTENDS Integers, FiniteSets

CONSTANTS Keys,         \* ingest keys of the organization
          Replicas,     \* ingest processes
          Requests,     \* slots for requests in flight at once
          None,         \* nothing remembered, no replica, no key
          MaxBatch,     \* most events one request brings
          Cutoffs,      \* plan limits, the tolerance included
          Unlimited,    \* a plan without a limit, or without a row
          Full          \* the counters stop here, beyond every cutoff

ASSUME GateAssumption ==
    /\ None \notin Replicas \cup Keys
    /\ MaxBatch \in Nat \ {0}
    /\ Full \in Nat
    /\ Cutoffs \subseteq 0..(Full - 1)
    /\ Unlimited \notin Int
    /\ None \notin Int \cup {Unlimited}

VARIABLES
    revoked,    \* keys whose row has revoked_at set
    plan,       \* cutoff of the organization's plan
    keyCache,   \* per replica, what is remembered of a key: good, bad or none
    limitCache, \* per replica, the cutoff remembered
    begun,      \* the month whose counter is modelled has begun
    used,       \* its quota counter
    req,        \* the requests in flight
    admitted,   \* events let through to the stream as the month's (history)
    offered     \* cutoffs in force since it began, or remembered then (history)

database == <<revoked, plan, begun, offered>>
vars     == <<database, keyCache, limitCache, used, req, admitted>>

Plans == Cutoffs \cup {Unlimited}
Steps == {"resolve", "lookup", "remember", "meter", "plan", "store", "count",
          "publish"}
Free  == [pc |-> "free", at |-> None, key |-> None, good |-> FALSE, limit |-> None,
          ours |-> FALSE]

Init ==
    /\ revoked = {}
    /\ plan \in Plans
    /\ begun = FALSE /\ offered = {}
    /\ keyCache = [p \in Replicas |-> [k \in Keys |-> "none"]]
    /\ limitCache = [p \in Replicas |-> None]
    /\ used = 0 /\ admitted = 0
    /\ req = [q \in Requests |-> Free]

-----------------------------------------------------------------------------
(* The admin API and the plan webhooks; expiry and eviction of the caches.  *)

Revoke(k) ==
    /\ k \notin revoked
    /\ revoked' = revoked \cup {k}
    /\ UNCHANGED <<plan, begun, offered, keyCache, limitCache, used, req, admitted>>

ChangePlan(c) ==
    /\ c # plan
    /\ plan' = c
    /\ offered' = IF begun THEN offered \cup {c} ELSE {}
    /\ UNCHANGED <<revoked, begun, keyCache, limitCache, used, req, admitted>>

\* Limits of an earlier plan that are in a cache, or will be.
Remembered ==
    ({limitCache[p] : p \in Replicas} \ {None})
        \cup {req[q].limit : q \in {r \in Requests : req[r].pc = "store"}}

\* Another counter, from 0; what is remembered of limits is of no month.
TurnMonth ==
    /\ ~begun
    /\ begun' = TRUE
    /\ offered' = {plan} \cup Remembered
    /\ UNCHANGED <<revoked, plan, keyCache, limitCache, used, req, admitted>>

ExpireKey(p, k) ==
    /\ keyCache[p][k] # "none"
    /\ keyCache' = [keyCache EXCEPT ![p][k] = "none"]
    /\ UNCHANGED <<database, limitCache, used, req, admitted>>

\* Slip: "no limit" is remembered for good.
ExpireFiniteLimit(p) ==
    /\ limitCache[p] \notin {None, Unlimited}
    /\ limitCache' = [limitCache EXCEPT ![p] = None]
    /\ UNCHANGED <<database, keyCache, used, req, admitted>>

ExpireLimit(p) ==
    /\ limitCache[p] # None
    /\ limitCache' = [limitCache EXCEPT ![p] = None]
    /\ UNCHANGED <<database, keyCache, used, req, admitted>>

-----------------------------------------------------------------------------
(* authenticate.                                                            *)

At(q, step)   == req[q].pc = step
GoTo(q, step) == req' = [req EXCEPT ![q].pc = step]
Leave(q)      == req' = [req EXCEPT ![q] = Free]

Arrive(q, p, k) ==
    /\ At(q, "free")
    /\ req' = [req EXCEPT ![q] = [Free EXCEPT !.pc = "resolve", !.at = p, !.key = k]]
    /\ UNCHANGED <<database, keyCache, limitCache, used, admitted>>

\* What is remembered is final; else PostgreSQL is asked.
Resolve(q) ==
    LET cached == keyCache[req[q].at][req[q].key]
    IN  /\ At(q, "resolve")
        /\ \/ cached = "good" /\ GoTo(q, "meter")
           \/ cached = "bad" /\ Leave(q)
           \/ cached = "none" /\ GoTo(q, "lookup")
        /\ UNCHANGED <<database, keyCache, limitCache, used, admitted>>

\* Slip: a revoked row is taken for a live one.
LookupIgnoresRevocation(q) ==
    /\ At(q, "lookup")
    /\ req' = [req EXCEPT ![q].pc = "remember", ![q].good = TRUE]
    /\ UNCHANGED <<database, keyCache, limitCache, used, admitted>>

\* The key's row; those of its source and project are read after it.
Lookup(q) ==
    /\ At(q, "lookup")
    /\ req' = [req EXCEPT ![q].pc = "remember", ![q].good = req[q].key \notin revoked]
    /\ UNCHANGED <<database, keyCache, limitCache, used, admitted>>

\* Remembered over whatever another request remembered since.
Remember(q) ==
    /\ At(q, "remember")
    /\ keyCache' = [keyCache EXCEPT ![req[q].at][req[q].key] =
                       IF req[q].good THEN "good" ELSE "bad"]
    /\ IF req[q].good
       THEN req' = [req EXCEPT ![q].pc = "meter", ![q].good = FALSE]
       ELSE Leave(q)
    /\ UNCHANGED <<database, limitCache, used, admitted>>

-----------------------------------------------------------------------------
(* _meter_quota, the enrichment and the publication.                        *)

\* The clock is read, which says whose counter is meant, and with no await in
\* between what is remembered.
Meter(q) ==
    LET cached == limitCache[req[q].at]
    IN  /\ At(q, "meter")
        /\ IF cached # None
           THEN req' = [req EXCEPT ![q].pc = "count", ![q].ours = begun, ![q].limit = cached]
           ELSE req' = [req EXCEPT ![q].pc = "plan", ![q].ours = begun]
        /\ UNCHANGED <<database, keyCache, limitCache, used, admitted>>

ReadPlan(q) ==
    /\ At(q, "plan")
    /\ req' = [req EXCEPT ![q].pc = "store", ![q].limit = plan]
    /\ UNCHANGED <<database, keyCache, limitCache, used, admitted>>

StoreLimit(q) ==
    /\ At(q, "store")
    /\ limitCache' = [limitCache EXCEPT ![req[q].at] = req[q].limit]
    /\ GoTo(q, "count")
    /\ UNCHANGED <<database, keyCache, used, admitted>>

\* Beyond every cutoff a counter only ever rejects: it stops at Full.
Plus(count, n) == IF count + n < Full THEN count + n ELSE Full

Fits(limit, count) == limit = Unlimited \/ count <= limit

\* A batch is let through, or refused.
Verdict(q, fits) ==
    req' = [req EXCEPT ![q] =
               IF fits THEN [@ EXCEPT !.pc = "publish", !.ours = FALSE, !.limit = None]
               ELSE Free]

\* A batch of n events of the month is.
Decide(q, n, fits) ==
    /\ Verdict(q, fits)
    /\ admitted' = IF fits THEN Plus(admitted, n) ELSE admitted

\* Slip: the counter is compared before the events are added.
CountChecksFirst(q, n) ==
    /\ At(q, "count") /\ req[q].ours
    /\ used' = Plus(used, n)
    /\ Decide(q, n, Fits(req[q].limit, used))
    /\ UNCHANGED <<database, keyCache, limitCache>>

\* INCRBY: what is refused has been counted too.
Count(q, n) ==
    /\ At(q, "count") /\ req[q].ours
    /\ used' = Plus(used, n)
    /\ Decide(q, n, Fits(req[q].limit, used'))
    /\ UNCHANGED <<database, keyCache, limitCache>>

\* The counter of the month before, which may have any value.
CountEarlier(q) ==
    /\ At(q, "count") /\ ~req[q].ours
    /\ \E fits \in BOOLEAN : Verdict(q, fits)
    /\ UNCHANGED <<database, keyCache, limitCache, used, admitted>>

\* Visitor, session and cadence are looked up in Redis, then the XADD.
Publish(q) ==
    /\ At(q, "publish")
    /\ Leave(q)
    /\ UNCHANGED <<database, keyCache, limitCache, used, admitted>>

\* Refused by the rate limiter, not to be tracked, an identify, or an error of
\* PostgreSQL or Redis, at any step: a request ends, and nothing is undone.
End(q) ==
    /\ ~At(q, "free")
    /\ Leave(q)
    /\ UNCHANGED <<database, keyCache, limitCache, used, admitted>>

\* A replica is replaced: its memory and its requests are lost.
Crash(p) ==
    /\ keyCache' = [keyCache EXCEPT ![p] = [k \in Keys |-> "none"]]
    /\ limitCache' = [limitCache EXCEPT ![p] = None]
    /\ req' = [q \in Requests |-> IF req[q].at = p THEN Free ELSE req[q]]
    /\ UNCHANGED <<database, used, admitted>>

-----------------------------------------------------------------------------
Advance(q) ==
    \/ Resolve(q) \/ Lookup(q) \/ Remember(q) \/ Meter(q) \/ ReadPlan(q)
    \/ StoreLimit(q) \/ CountEarlier(q) \/ Publish(q)
    \/ \E n \in 1..MaxBatch : Count(q, n)

Next ==
    \/ \E k \in Keys : Revoke(k)
    \/ \E c \in Plans : ChangePlan(c)
    \/ TurnMonth
    \/ \E p \in Replicas : Crash(p) \/ ExpireLimit(p) \/ \E k \in Keys : ExpireKey(p, k)
    \/ \E q \in Requests :
           \/ Advance(q) \/ End(q)
           \/ \E p \in Replicas, k \in Keys : Arrive(q, p, k)

Spec == Init /\ [][Next]_vars

\* Requests are answered, and the entries of the caches carry an expiry time.
FairSpec ==
    /\ Spec
    /\ \A q \in Requests : WF_vars(Advance(q))
    /\ \A p \in Replicas : WF_vars(ExpireLimit(p))
    /\ \A p \in Replicas, k \in Keys : WF_vars(ExpireKey(p, k))

-----------------------------------------------------------------------------
(* Properties.                                                              *)

Entry == [pc : Steps, at : Replicas, key : Keys, good : BOOLEAN, limit : Plans \cup {None},
          ours : BOOLEAN]

\* Type invariant; a request that counts has a limit to compare with, and counts in a
\* month that has begun.
TypeOK ==
    /\ revoked \subseteq Keys
    /\ plan \in Plans
    /\ keyCache \in [Replicas -> [Keys -> {"none", "good", "bad"}]]
    /\ limitCache \in [Replicas -> Plans \cup {None}]
    /\ used \in 0..Full
    /\ req \in [Requests -> Entry \cup {Free}]
    /\ \A q \in Requests :
           /\ req[q].limit # None <=> req[q].pc \in {"store", "count"}
           /\ req[q].good => req[q].pc = "remember"
           /\ req[q].ours => begun /\ req[q].pc \in {"plan", "store", "count"}
    /\ admitted \in 0..Full
    /\ begun \in BOOLEAN
    /\ offered \subseteq Plans /\ (begun => plan \in offered)

\* All replicas together let through no more of a month's events than the largest
\* cutoff in force since it began, or still remembered then of an earlier plan: no
\* interleaving of the fills of the caches lets a counter pass that.
QuotaHolds ==
    begun /\ Unlimited \notin offered => \E c \in offered : admitted <= c

LetThrough(k) ==
    \E q \in Requests : req[q].key = k /\ req[q].pc \notin {"resolve", "lookup", "remember"}

\* A revoked key is refused for good some time later, although a lookup made
\* before the revocation may be remembered over a refusal made after it.
RevokedKeyDies ==
    \A k \in Keys : k \in revoked ~> []~LetThrough(k)

\* Every replica ends up metering by a plan that stays.
PlanTakesHold ==
    \A c \in Plans :
        <>[](plan = c) => <>[](\A q \in Requests : At(q, "count") => req[q].limit = c)

=============================================================================
