--------------------------- MODULE AlertEvaluator ---------------------------
(***************************************************************************)
(* Threshold alerts: Evaluator.run_once (oriflux/alerting/evaluator.py),   *)
(* a Celery beat task every 60 s, against the rule CRUD of                 *)
(* oriflux/api/alerts.py and the delivery of oriflux/alerting/notify.py.   *)
(*                                                                         *)
(* A run loads the enabled rules once and keeps those objects (the session *)
(* factory does not expire them on commit), so a rule patched, disabled or *)
(* deleted while the run is under way is judged as it was loaded.  Each    *)
(* step below is one await of the run: the ClickHouse query, the SELECT of *)
(* the open event, a commit, an attempt to deliver.                        *)
(***************************************************************************)
EXTENDS Integers, FiniteSets

CONSTANTS Rules,        \* rule ids ever created
          NoRule,       \* "the run is between two rules"
          MaxMoves,     \* bound on metric moves and PATCH requests together
          MaxFaults     \* bound on failed queries, failed posts and crashes

ASSUME AlertAssumption ==
    /\ NoRule \notin Rules
    /\ IsFiniteSet(Rules)
    /\ MaxMoves \in Nat
    /\ MaxFaults \in Nat

VARIABLES
    status,     \* row of alert_rules: "new", "on", "off" (disabled) or "gone"
    threshold,  \* its threshold; the rule's condition is "gt"
    metric,     \* what evaluating the rule's query now would return
    moves,      \* metric moves and patches so far, of MaxMoves
    openEvents, \* rows of alert_events with resolved_at NULL
    pc,         \* step of the run: idle, next, select, store or notify
    todo,       \* loaded rules this run has not looked at
    loaded,     \* threshold of each rule as the run loaded it
    rule,       \* the rule in hand
    breached,   \* the verdict on it
    attempt,    \* failed delivery attempts of the notification in hand
    last,       \* last message each rule's channel received (history)
    told,       \* messages delivered since the rule's event changed (history)
    faults      \* failures so far, of MaxFaults

rules   == <<status, threshold>>
world   == <<metric, moves>>
run     == <<pc, todo, loaded, rule, breached, attempt>>
channel == <<last, told>>
vars    == <<rules, world, openEvents, run, channel, faults>>

Levels == 0..1
Exists(r)   == status[r] \in {"on", "off"}
Breaches(r) == metric[r] > threshold[r]

Init ==
    /\ status = [r \in Rules |-> "new"]
    /\ threshold = [r \in Rules |-> 0]
    /\ metric = [r \in Rules |-> 0]
    /\ moves = 0
    /\ openEvents = [r \in Rules |-> 0]
    /\ pc = "idle" /\ todo = {} /\ rule = NoRule
    /\ loaded = [r \in Rules |-> 0]
    /\ breached = FALSE /\ attempt = 0
    /\ last = [r \in Rules |-> "none"]
    /\ told = [r \in Rules |-> 0]
    /\ faults = 0

-----------------------------------------------------------------------------
(* The traffic the rules watch, and the admin API.                          *)

Move == moves < MaxMoves /\ moves' = moves + 1

MetricMoves(r) ==
    /\ Move
    /\ metric' = [metric EXCEPT ![r] = 1 - @]
    /\ UNCHANGED <<rules, openEvents, run, channel, faults>>

CreateRule(r) ==
    /\ status[r] = "new"
    /\ status' = [status EXCEPT ![r] = "on"]
    /\ \E t \in Levels : threshold' = [threshold EXCEPT ![r] = t]
    /\ UNCHANGED <<world, openEvents, run, channel, faults>>

\* PATCH changes the threshold, the enabled flag or both; an open event stays.
PatchRule(r) ==
    /\ Exists(r)
    /\ Move
    /\ \E s \in {"on", "off"}, t \in Levels :
           /\ status' = [status EXCEPT ![r] = s]
           /\ threshold' = [threshold EXCEPT ![r] = t]
    /\ UNCHANGED <<metric, openEvents, run, channel, faults>>

\* One transaction: the rule's events go with it.
DeleteRule(r) ==
    /\ Exists(r)
    /\ status' = [status EXCEPT ![r] = "gone"]
    /\ openEvents' = [openEvents EXCEPT ![r] = 0]
    /\ UNCHANGED <<threshold, world, run, channel, faults>>

-----------------------------------------------------------------------------
(* One run.                                                                 *)

GoNext == pc' = "next" /\ rule' = NoRule /\ breached' = FALSE /\ attempt' = 0

\* The run is over, or is given up.
Leave == /\ pc' = "idle" /\ todo' = {} /\ rule' = NoRule
         /\ breached' = FALSE /\ attempt' = 0
         /\ loaded' = [r \in Rules |-> 0]

\* Slip: rules that already have an open event are not loaded.
LoadSilentRules ==
    /\ pc = "idle"
    /\ pc' = "next"
    /\ todo' = {r \in Rules : status[r] = "on" /\ openEvents[r] = 0}
    /\ loaded' = [r \in Rules |-> threshold[r]]
    /\ UNCHANGED <<rules, world, openEvents, rule, breached, attempt, channel,
                   faults>>

Load ==
    /\ pc = "idle"
    /\ pc' = "next"
    /\ todo' = {r \in Rules : status[r] = "on"}
    /\ loaded' = [r \in Rules |-> threshold[r]]
    /\ UNCHANGED <<rules, world, openEvents, rule, breached, attempt, channel,
                   faults>>

\* The SELECT has no ORDER BY: the rules come in any order.
Evaluate(r) ==
    /\ pc = "next" /\ r \in todo
    /\ todo' = todo \ {r}
    /\ rule' = r
    /\ breached' = (metric[r] > loaded[r])
    /\ pc' = "select"
    /\ UNCHANGED <<rules, world, openEvents, loaded, attempt, channel, faults>>

EndRun ==
    /\ pc = "next" /\ todo = {}
    /\ Leave
    /\ UNCHANGED <<rules, world, openEvents, channel, faults>>

\* Slip: a persisting breach is not deduplicated against the open event.
SelectWithoutDedup ==
    /\ pc = "select"
    /\ IF breached \/ openEvents[rule] = 1
       THEN pc' = "store" /\ UNCHANGED <<rule, breached, attempt>>
       ELSE GoNext
    /\ UNCHANGED <<rules, world, openEvents, todo, loaded, channel, faults>>

\* The open event decides: a breach without one fires, a recovery with one
\* resolves, anything else is silent.
SelectOpenEvent ==
    /\ pc = "select"
    /\ IF breached <=> (openEvents[rule] = 0)
       THEN pc' = "store" /\ UNCHANGED <<rule, breached, attempt>>
       ELSE GoNext
    /\ UNCHANGED <<rules, world, openEvents, todo, loaded, channel, faults>>

\* Slip: the event is stored and the run goes on without a notification.
StoreSilently ==
    /\ pc = "store"
    /\ Exists(rule)
    /\ openEvents' = [openEvents EXCEPT ![rule] = IF breached THEN @ + 1 ELSE 0]
    /\ told' = [told EXCEPT ![rule] = 0]
    /\ IF breached THEN pc' = "notify" /\ UNCHANGED <<rule, breached, attempt>> ELSE GoNext
    /\ UNCHANGED <<rules, world, todo, loaded, last, faults>>

\* The commit of a new event, or of resolved_at.
StoreEvent ==
    /\ pc = "store"
    /\ Exists(rule)
    /\ openEvents' = [openEvents EXCEPT ![rule] = IF breached THEN @ + 1 ELSE 0]
    /\ told' = [told EXCEPT ![rule] = 0]
    /\ pc' = "notify"
    /\ UNCHANGED <<rules, world, todo, loaded, rule, breached, attempt, last, faults>>

\* The rule, and its event, were deleted meanwhile: the insert breaks the
\* foreign key, the update finds no row.  The commit is outside the try.
StoreFails ==
    /\ pc = "store"
    /\ ~Exists(rule)
    /\ Leave
    /\ UNCHANGED <<rules, world, openEvents, channel, faults>>

Kind == IF breached THEN "firing" ELSE "resolved"

Deliver ==
    /\ last' = [last EXCEPT ![rule] = Kind]
    /\ told' = [told EXCEPT ![rule] = @ + 1]

Notify ==
    /\ pc = "notify"
    /\ Deliver
    /\ GoNext
    /\ UNCHANGED <<rules, world, openEvents, todo, loaded, faults>>

-----------------------------------------------------------------------------
(* Failures.                                                                *)

Fault == faults < MaxFaults /\ faults' = faults + 1

\* The query raises: the rule is skipped, the run goes on.
EvaluateFails(r) ==
    /\ pc = "next" /\ r \in todo
    /\ Fault
    /\ todo' = todo \ {r}
    /\ UNCHANGED <<rules, world, openEvents, pc, loaded, rule, breached, attempt,
                   channel>>

\* Slip: one more attempt than three.
NotifyFourTimes ==
    /\ pc = "notify"
    /\ Fault
    /\ Deliver \/ UNCHANGED channel
    /\ IF attempt <= 2
       THEN attempt' = attempt + 1 /\ UNCHANGED <<pc, rule, breached>>
       ELSE GoNext
    /\ UNCHANGED <<rules, world, openEvents, todo, loaded>>

\* An attempt raises; the channel may have got the message all the same.  Three
\* attempts, then the failure is logged and the run goes on.
NotifyFails ==
    /\ pc = "notify"
    /\ Fault
    /\ Deliver \/ UNCHANGED channel
    /\ IF attempt < 2
       THEN attempt' = attempt + 1 /\ UNCHANGED <<pc, rule, breached>>
       ELSE GoNext
    /\ UNCHANGED <<rules, world, openEvents, todo, loaded>>

\* The worker's container is replaced; the next beat starts a new run.
Crash ==
    /\ pc # "idle"
    /\ Fault
    /\ Leave
    /\ UNCHANGED <<rules, world, openEvents, channel>>

-----------------------------------------------------------------------------
RunOnce ==
    \/ Load \/ EndRun \/ SelectOpenEvent \/ StoreEvent \/ StoreFails \/ Notify
    \/ \E r \in Rules : Evaluate(r)

Next ==
    \/ RunOnce \/ NotifyFails \/ Crash
    \/ \E r \in Rules :
           \/ MetricMoves(r) \/ CreateRule(r) \/ PatchRule(r) \/ DeleteRule(r)
           \/ EvaluateFails(r)

Spec == Init /\ [][Next]_vars

\* Beat keeps sending the task and the worker keeps running it.
FairSpec == Spec /\ WF_vars(RunOnce)

-----------------------------------------------------------------------------
(* Properties.                                                              *)

\* Type invariant; in hand are only rules that were once created.
TypeOK ==
    /\ status \in [Rules -> {"new", "on", "off", "gone"}]
    /\ threshold \in [Rules -> Levels]
    /\ metric \in [Rules -> Levels]
    /\ moves \in 0..MaxMoves
    /\ openEvents \in [Rules -> Nat]
    /\ pc \in {"idle", "next", "select", "store", "notify"}
    /\ todo \subseteq {r \in Rules : status[r] # "new"}
    /\ loaded \in [Rules -> Levels]
    /\ rule \in Rules \cup {NoRule}
    /\ rule = NoRule <=> pc \in {"idle", "next"}
    /\ breached \in BOOLEAN
    /\ attempt \in 0..2
    /\ last \in [Rules -> {"none", "firing", "resolved"}]
    /\ told \in [Rules -> Nat]
    /\ faults \in 0..MaxFaults

\* A rule never has two open events, nor an event without the rule: the
\* SELECT of the open event takes one row at most and would otherwise raise
\* in every later run.
OneOpenEvent ==
    \A r \in Rules : openEvents[r] <= (IF Exists(r) THEN 1 ELSE 0)

\* While nothing fails, who reads the channel knows the state: the last
\* message about a rule is "firing" exactly while an event is open, whatever
\* is patched, disabled or deleted while a run is under way.
ChannelTellsTheState ==
    \A r \in Rules :
        faults = 0 /\ Exists(r) /\ ~(pc = "notify" /\ rule = r)
            => (last[r] = "firing" <=> openEvents[r] = 1)

\* A breach, or a recovery, is announced once: every further copy is owed to
\* an attempt that failed after the channel had the message, three at most.
AnnouncedOnce ==
    \A r \in Rules : told[r] <= 3 /\ told[r] <= 1 + faults

\* An enabled rule whose metric stays on one side of a threshold that stays
\* ends up with an open event, or without one, accordingly; the failures and
\* deletions along the way only delay it.
EventsFollowTheMetric ==
    \A r \in Rules :
        /\ <>[](status[r] = "on" /\ Breaches(r)) => <>[](openEvents[r] = 1)
        /\ <>[](status[r] = "on" /\ ~Breaches(r)) => <>[](openEvents[r] = 0)

=============================================================================
