------------------------------- MODULE Digest -------------------------------
(***************************************************************************)
(* Email digests: run_digests (oriflux/workers/digest_job.py), an hourly   *)
(* Celery task, with the self-service preferences of oriflux/api/digest.py *)
(* and the due days of due_period (oriflux/workers/digests.py).            *)
(*                                                                         *)
(* A run snapshots every subscription, then takes them one by one: skip if *)
(* no period is due or the ledger digest_sends already has it, mail, then  *)
(* commit the ledger row.  Mail and commit are two steps, and the requests *)
(* of members, the end of the day and a crash may come between them.  A    *)
(* period is the cadence with the day it fell due, as each due day has a   *)
(* period key of its own.                                                  *)
(***************************************************************************)
EXTENDS Integers, FiniteSets

CONSTANTS Users,        \* members who may subscribe
          NoOne,        \* "the run is between two subscriptions"
          MaxDays,      \* bound on the days modelled
          WeeklyDue,    \* those that are Mondays
          MonthlyDue,   \* those that are the first of a month
          MaxSubs,      \* bound on subscription rows ever created
          MaxFaults     \* bound on failed mails, queries and crashes

Cadences == {"weekly", "monthly"}
Snapshot == [user : Users, id : 1..MaxSubs, cadence : Cadences]

ASSUME DigestAssumption ==
    /\ NoOne \notin Snapshot
    /\ MaxDays \in Nat \ {0}
    /\ WeeklyDue \subseteq 1..MaxDays
    /\ MonthlyDue \subseteq 1..MaxDays
    /\ MaxSubs \in Nat
    /\ MaxFaults \in Nat

VARIABLES
    day,        \* today, UTC
    sub,        \* id of each member's row of digest_subscriptions; 0: no row
    cadence,    \* its cadence
    lastSub,    \* subscription ids given out so far
    ledger,     \* digest_sends: <<subscription, period>>
    wish,       \* what the member asked for last: "in" or "out" (history)
    pc,         \* step of the run: idle, next, mail or commit
    now,        \* the day the run believes it is
    todo,       \* subscriptions of the snapshot not looked at
    hand,       \* the one in hand
    mailed,     \* <<member, subscription, period>> of digests that went out
    twice,      \* <<member, period>> of digests that went out again
    faults      \* failures so far, of MaxFaults

prefs == <<sub, cadence, lastSub, wish>>
run   == <<pc, now, todo, hand>>
post  == <<mailed, twice>>
vars  == <<day, prefs, ledger, run, post, faults>>

Days    == 1..MaxDays
Periods == Cadences \X Days
Hand    == Snapshot \cup {NoOne}

Due(c, d)  == d \in (IF c = "weekly" THEN WeeklyDue ELSE MonthlyDue)
Row(s)     == <<s.id, <<s.cadence, now>>>>
IsLive(id) == \E u \in Users : sub[u] = id
HasSends(u) == \E p \in Periods : <<sub[u], p>> \in ledger

Init ==
    /\ day = 1
    /\ sub = [u \in Users |-> 0]
    /\ cadence = [u \in Users |-> "weekly"]
    /\ lastSub = 0
    /\ ledger = {}
    /\ wish = [u \in Users |-> "out"]
    /\ pc = "idle" /\ now = 1 /\ todo = {} /\ hand = NoOne
    /\ mailed = {} /\ twice = {}
    /\ faults = 0

-----------------------------------------------------------------------------
(* Time, and the requests of members.                                       *)

NewDay ==
    /\ day < MaxDays
    /\ day' = day + 1
    /\ UNCHANGED <<prefs, ledger, run, post, faults>>

\* PUT: the member's row is updated, or one with a new id inserted.
SetDigestPref(u) ==
    /\ wish' = [wish EXCEPT ![u] = "in"]
    /\ \E c \in Cadences : cadence' = [cadence EXCEPT ![u] = c]
    /\ IF sub[u] # 0
       THEN UNCHANGED <<sub, lastSub>>
       ELSE /\ lastSub < MaxSubs
            /\ lastSub' = lastSub + 1
            /\ sub' = [sub EXCEPT ![u] = lastSub + 1]
    /\ UNCHANGED <<day, ledger, run, post, faults>>

\* DELETE.
Unsubscribe(u) ==
    /\ sub[u] # 0 /\ ~HasSends(u)
    /\ sub' = [sub EXCEPT ![u] = 0]
    /\ wish' = [wish EXCEPT ![u] = "out"]
    /\ UNCHANGED <<day, cadence, lastSub, ledger, run, post, faults>>

\* DELETE again: digest_sends references the row without a cascade, so once a
\* digest went out the foreign key refuses the deletion.
UnsubscribeRefused(u) ==
    /\ sub[u] # 0 /\ HasSends(u)
    /\ wish' = [wish EXCEPT ![u] = "out"]
    /\ UNCHANGED <<day, sub, cadence, lastSub, ledger, run, post, faults>>

-----------------------------------------------------------------------------
(* One run of the hourly job.                                               *)

GoNext == pc' = "next" /\ hand' = NoOne
Leave  == pc' = "idle" /\ todo' = {} /\ hand' = NoOne

LoadSubscriptions ==
    /\ pc = "idle"
    /\ pc' = "next"
    /\ now' = day
    /\ todo' = {s \in Snapshot : s.id = sub[s.user] /\ s.cadence = cadence[s.user]}
    /\ UNCHANGED <<day, prefs, ledger, hand, post, faults>>

\* Slip: the ledger is not consulted before the digest is written.
TakeWithoutLedger(s) ==
    /\ pc = "next" /\ s \in todo
    /\ todo' = todo \ {s}
    /\ IF Due(s.cadence, now)
       THEN pc' = "mail" /\ hand' = s
       ELSE UNCHANGED <<pc, hand>>
    /\ UNCHANGED <<day, prefs, ledger, now, post, faults>>

\* Slip: the ledger is asked for the period, whoever it went to.
TakeOncePerPeriod(s) ==
    /\ pc = "next" /\ s \in todo
    /\ todo' = todo \ {s}
    /\ IF Due(s.cadence, now) /\ \A id \in 1..MaxSubs : <<id, <<s.cadence, now>>>> \notin ledger
       THEN pc' = "mail" /\ hand' = s
       ELSE UNCHANGED <<pc, hand>>
    /\ UNCHANGED <<day, prefs, ledger, now, post, faults>>

\* No period due, or already in the ledger: on to the next subscription.
Take(s) ==
    /\ pc = "next" /\ s \in todo
    /\ todo' = todo \ {s}
    /\ IF Due(s.cadence, now) /\ Row(s) \notin ledger
       THEN pc' = "mail" /\ hand' = s
       ELSE UNCHANGED <<pc, hand>>
    /\ UNCHANGED <<day, prefs, ledger, now, post, faults>>

EndRun ==
    /\ pc = "next" /\ todo = {}
    /\ Leave
    /\ UNCHANGED <<day, prefs, ledger, now, post, faults>>

MailGoesOut(s) ==
    LET period == <<s.cadence, now>>
    IN  /\ mailed' = mailed \cup {<<s.user, s.id, period>>}
        /\ twice' = IF \E i \in 1..MaxSubs : <<s.user, i, period>> \in mailed
                    THEN twice \cup {<<s.user, period>>} ELSE twice

Mail ==
    /\ pc = "mail"
    /\ MailGoesOut(hand)
    /\ pc' = "commit"
    /\ UNCHANGED <<day, prefs, ledger, now, todo, hand, faults>>

Commit ==
    /\ pc = "commit"
    /\ IsLive(hand.id) /\ Row(hand) \notin ledger
    /\ ledger' = ledger \cup {Row(hand)}
    /\ GoNext
    /\ UNCHANGED <<day, prefs, now, todo, post, faults>>

\* IntegrityError: the subscription is gone.  Rolled back, next one.
CommitRefused ==
    /\ pc = "commit"
    /\ ~IsLive(hand.id) \/ Row(hand) \in ledger
    /\ GoNext
    /\ UNCHANGED <<day, prefs, ledger, now, todo, post, faults>>

-----------------------------------------------------------------------------
(* Failures.                                                                *)

Fault == faults < MaxFaults /\ faults' = faults + 1

\* Slip: a sender that raises is taken for one that delivered.
MailFailureRecorded ==
    /\ pc = "mail"
    /\ Fault
    /\ MailGoesOut(hand) \/ UNCHANGED post
    /\ pc' = "commit"
    /\ UNCHANGED <<day, prefs, ledger, now, todo, hand>>

\* The sender raises, on a time-out perhaps after the mail left: the exception
\* ends the run for the subscriptions still to come as well.
MailFails ==
    /\ pc = "mail"
    /\ Fault
    /\ MailGoesOut(hand) \/ UNCHANGED post
    /\ Leave
    /\ UNCHANGED <<day, prefs, ledger, now>>

\* The numbers cannot be queried, or the container is replaced, at any step.
RunLost ==
    /\ pc # "idle"
    /\ Fault
    /\ Leave
    /\ UNCHANGED <<day, prefs, ledger, now, post>>

-----------------------------------------------------------------------------
RunDigests ==
    \/ LoadSubscriptions \/ EndRun \/ Mail \/ Commit \/ CommitRefused
    \/ \E s \in Snapshot : Take(s)

Next ==
    \/ NewDay \/ RunDigests \/ MailFails \/ RunLost
    \/ \E u \in Users : SetDigestPref(u) \/ Unsubscribe(u) \/ UnsubscribeRefused(u)

Spec == Init /\ [][Next]_vars

\* Beat sends the task every hour and the worker runs it.
FairSpec == Spec /\ WF_vars(RunDigests)

-----------------------------------------------------------------------------
(* Properties.                                                              *)

\* Type invariant; subscription ids are not shared.
TypeOK ==
    /\ day \in Days
    /\ sub \in [Users -> 0..lastSub]
    /\ \A u, v \in Users : sub[u] = sub[v] => u = v \/ sub[u] = 0
    /\ cadence \in [Users -> Cadences]
    /\ lastSub \in 0..MaxSubs
    /\ ledger \subseteq (1..lastSub) \X Periods
    /\ wish \in [Users -> {"in", "out"}]
    /\ pc \in {"idle", "next", "mail", "commit"}
    /\ now \in 1..day
    /\ todo \subseteq Snapshot
    /\ hand \in Hand /\ (hand = NoOne <=> pc \in {"idle", "next"})
    /\ mailed \subseteq Users \X (1..lastSub) \X Periods
    /\ twice \subseteq Users \X Periods
    /\ faults \in 0..MaxFaults

\* "One row per digest actually sent": a period in the ledger went out to the
\* member, on a day it was due, so that skipping it later deprives nobody.
LedgerMeansMailed ==
    \A id \in 1..MaxSubs, p \in Periods :
        <<id, p>> \in ledger =>
            \E u \in Users : <<u, id, p>> \in mailed /\ Due(p[1], p[2])

\* A period goes out twice to a member only after a failure, or when the member
\* unsubscribed and subscribed again between the mail and the commit.
TwiceNeedsACause ==
    \A u \in Users, p \in Periods :
        <<u, p>> \in twice =>
            \/ faults > 0
            \/ \E i, j \in 1..MaxSubs :
                   i # j /\ {<<u, i, p>>, <<u, j, p>>} \subseteq mailed

\* A member who stays subscribed, with a period due on a day that lasts long
\* enough, gets the digest into the ledger, failed runs notwithstanding.  (Days
\* do end: the last one of the model is the one that lasts.)
DueDigestIsRecorded ==
    \A u \in Users, c \in Cadences :
        <>[](day = MaxDays /\ Due(c, day) /\ sub[u] # 0 /\ cadence[u] = c)
            => <>(<<sub[u], <<c, MaxDays>>>> \in ledger)

\* "DELETE = unsubscribe, honored immediately" (api/digest.py): whose last
\* request was DELETE is not subscribed any more.
UnsubscribeHonored == \A u \in Users : wish[u] = "out" => sub[u] = 0

=============================================================================
