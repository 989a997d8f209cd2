-------------------------------- MODULE Jobs --------------------------------
(***************************************************************************)
(* The periodic jobs of the workers (oriflux/workers/celery_app.py) other  *)
(* than alerts and digests: the GeoIP refresh, the detection of anomalies, *)
(* the insights and the export dumps.                                      *)
(*                                                                         *)
(* Each container runs a beat, which sends every job when its interval is  *)
(* over, and a worker, which takes one task at a time off the queue that   *)
(* all share, and acknowledges it before it runs it.  A container that is  *)
(* replaced loses its run and starts its intervals anew.                   *)
(*                                                                         *)
(* The insights and the dumps have an interval of a day: each beat sends   *)
(* them once a day, at the hour of the day its container was started at.   *)
(* When the other two are sent is left open, and one is queued once.       *)
(***************************************************************************)
EXTENDS Integers, FiniteSets

CONSTANTS Containers,  \* replicas of the workers' container
          Projects,    \* projects of organizations that did not mute anomalies
          Schedules,   \* enabled export schedules
          DailyJobs,   \* the insights and the exports, or those of them that are modelled
          DayLen,      \* hours in a day, and between two daily tasks of a beat
          MaxHours,    \* the last hour modelled; in it no database goes stale
          MaxRows,     \* bound on the deviations there are
          MaxFaults    \* bound on runs that fail and containers replaced

JobNames == {"geoip", "anomalies"} \cup DailyJobs
Files    == {"city", "asn"}

ASSUME JobsAssumption ==
    /\ DailyJobs \subseteq {"insights", "exports"}
    /\ DayLen \in Nat \ {0}
    /\ {MaxHours, MaxRows, MaxFaults} \subseteq Nat
    /\ Files \cap (Projects \cup Schedules) = {} /\ Projects \cap Schedules = {}
    /\ IsFiniteSet(Containers)

VARIABLES
    hour,       \* the hour, UTC
    phase,      \* the hour of the day at which each container's beat sends the daily jobs
    queue,      \* how many tasks of each job are in the broker
    run,        \* each worker's task, with what it has yet to do
    anomalies,  \* rows of anomaly_events: <<project, hour>>
    alarmed,    \* those an ops alert has counted
    again,      \* those another one has counted again (history)
    dropped,    \* those that a run had found when it failed (history)
    daily,      \* <<project, day>> whose insights are in the table, if it had any,
                \* and <<schedule, day>> whose dump is in the bucket
    spoilt,     \* the times that a beat's run of a daily job came to nothing, by day (history)
    fresh,      \* GeoIP databases younger than a month
    faults      \* failures so far, of MaxFaults

alarm   == <<alarmed, again>>
lost    == <<dropped, spoilt>>
records == <<anomalies, alarm, daily>>
vars    == <<hour, phase, queue, run, records, lost, fresh, faults>>

Hours   == 0..MaxHours
Day(h)  == h \div DayLen
Days    == {Day(h) : h \in Hours}
OfDay   == 0..DayLen - 1
Idle    == [job |-> "none", window |-> 0, todo |-> {}, found |-> {}]

\* What a worker goes on with: a run is over when nothing is left to do or to tell.
Going(r) == IF r.todo = {} /\ r.found = {} THEN Idle ELSE r

\* Whether the hour deviates, of the few that do.
Deviates(row) == Cardinality(anomalies \cup row) <= MaxRows

Sending(h) == Cardinality({w \in Containers : phase[w] = h % DayLen})

\* The containers were started on the day before; kick_startup_jobs has run.
Init ==
    /\ hour = 0
    /\ phase \in [Containers -> OfDay]
    /\ queue = [j \in JobNames |-> CASE j \in DailyJobs  -> Sending(0)
                                     [] j = "geoip"     -> 1
                                     [] j = "anomalies" -> 0]
    /\ run = [w \in Containers |-> Idle]
    /\ anomalies = {} /\ alarmed = {} /\ again = {}
    /\ daily = {}
    /\ dropped = {} /\ spoilt = [t \in DailyJobs \X Days |-> 0]
    /\ fresh = {}
    /\ faults = 0

-----------------------------------------------------------------------------
(* Time and the beat.                                                       *)

\* An hour passes: the beats whose interval is over send the daily jobs.  At midnight
\* what nobody took has missed its day; it will be run on another.
Tick ==
    /\ hour < MaxHours
    /\ hour' = hour + 1
    /\ queue' = [j \in JobNames |->
                    queue[j] + (IF j \in DailyJobs THEN Sending(hour + 1) ELSE 0)]
    /\ spoilt' = [t \in DailyJobs \X Days |->
                    spoilt[t] + (IF t[2] = Day(hour) /\ Day(hour + 1) # Day(hour)
                                 THEN queue[t[1]] ELSE 0)]
    /\ UNCHANGED <<phase, run, records, dropped, fresh, faults>>

\* A database is a month old.
GoStale(f) ==
    /\ hour < MaxHours
    /\ fresh' = fresh \ {f}
    /\ UNCHANGED <<hour, phase, queue, run, records, lost, faults>>

Send(j) == queue' = [queue EXCEPT ![j] = 1]

\* The jobs with an interval of hours.
Beat(j) ==
    /\ j \notin DailyJobs
    /\ Send(j)
    /\ UNCHANGED <<hour, phase, run, records, lost, fresh, faults>>

-----------------------------------------------------------------------------
(* One task.                                                                *)

\* Slip: one database that is fresh is taken for both.
GeoIpAnyFresh == IF fresh = {} THEN Files ELSE {}

\* _databases_fresh: nothing to do if both are, else both are fetched.
GeoIpWork == IF fresh = Files THEN {} ELSE Files

\* Slip: the dumps are written by the run of the first hour of the day only.
WorkAtMidnight(j) ==
    CASE j = "geoip"     -> GeoIpWork
      [] j \in {"anomalies", "insights"} -> Projects
      [] j = "exports"   -> IF hour % DayLen = 0 THEN Schedules ELSE {}

Work(j) ==
    CASE j = "geoip"     -> GeoIpWork
      [] j \in {"anomalies", "insights"} -> Projects
      [] j = "exports"   -> Schedules

\* window_start, day and today: the hour or the day that a run is about.
Window(j) ==
    CASE j = "geoip"     -> 0
      [] j = "anomalies" -> hour
      [] j \in DailyJobs -> Day(hour)

\* The task is taken, and what it is to look at is read at once.
Start(w, j) ==
    /\ run[w] = Idle /\ queue[j] > 0
    /\ queue' = [queue EXCEPT ![j] = @ - 1]
    /\ run' = [run EXCEPT ![w] = Going([job |-> j, window |-> Window(j), todo |-> Work(j),
                                        found |-> {}])]
    /\ UNCHANGED <<hour, phase, records, lost, fresh, faults>>

Doing(w, j, x)  == run[w].job = j /\ x \in run[w].todo
After(w, x, row) ==
    LET r == [run[w] EXCEPT !.todo = @ \ {x}, !.found = @ \cup row]
    IN  run' = [run EXCEPT ![w] = Going(r)]

\* No deviation in the hour before.
Quiet(w, x) ==
    /\ Doing(w, "anomalies", x)
    /\ After(w, x, {})
    /\ UNCHANGED <<hour, phase, queue, records, lost, fresh, faults>>

\* Slip: the row is committed and not counted.
DetectUncounted(w, x) ==
    /\ Doing(w, "anomalies", x)
    /\ Deviates({<<x, run[w].window>>})
    /\ anomalies' = anomalies \cup {<<x, run[w].window>>}
    /\ After(w, x, {})
    /\ UNCHANGED <<hour, phase, queue, alarm, daily, lost, fresh, faults>>

\* Slip: a row that is there already is counted as found.
DetectAgain(w, x) ==
    LET row == {<<x, run[w].window>>}
    IN  /\ Doing(w, "anomalies", x)
        /\ Deviates(row)
        /\ anomalies' = anomalies \cup row
        /\ After(w, x, row)
        /\ UNCHANGED <<hour, phase, queue, alarm, daily, lost, fresh, faults>>

\* The row is inserted; if the hour has one already, the insert is rolled back.
Detect(w, x) ==
    LET row == {<<x, run[w].window>>}
    IN  /\ Doing(w, "anomalies", x)
        /\ Deviates(row)
        /\ anomalies' = anomalies \cup row
        /\ After(w, x, row \ anomalies)
        /\ UNCHANGED <<hour, phase, queue, alarm, daily, lost, fresh, faults>>

\* The end of a run that found something: how much, in one message.
Alarm(w) ==
    /\ run[w].found # {} /\ run[w].todo = {}
    /\ run' = [run EXCEPT ![w] = Idle]
    /\ alarmed' = alarmed \cup run[w].found
    /\ again' = again \cup (alarmed \cap run[w].found)
    /\ UNCHANGED <<hour, phase, queue, anomalies, daily, lost, fresh, faults>>

\* A project's findings of the week, each inserted unless the day has it already;
\* or a schedule's rows, in the object of the day, which they replace.
Daily(w, x) ==
    /\ run[w].job \in DailyJobs /\ x \in run[w].todo
    /\ daily' = daily \cup {<<x, run[w].window>>}
    /\ After(w, x, {})
    /\ UNCHANGED <<hour, phase, queue, anomalies, alarm, lost, fresh, faults>>

\* Each database is fetched and replaced in one step, the cities first.
Refresh(w, x) ==
    /\ Doing(w, "geoip", x) /\ (x = "asn" => run[w].todo = {"asn"})
    /\ fresh' = fresh \cup {x}
    /\ After(w, x, {})
    /\ UNCHANGED <<hour, phase, queue, records, lost, faults>>

-----------------------------------------------------------------------------
(* Failures.                                                                *)

Fault == faults < MaxFaults /\ faults' = faults + 1

\* Whether the container's beat has yet to send the jobs of the day.
Unsent(w) == hour % DayLen < phase[w]

\* A run ends with what it has committed; and a container that ends sends no more.
Drop(w, ends) ==
    /\ run' = [run EXCEPT ![w] = Idle]
    /\ dropped' = dropped \cup run[w].found
    /\ spoilt' = [t \in DailyJobs \X Days |->
                    spoilt[t] + (IF t = <<run[w].job, run[w].window>> THEN 1 ELSE 0)
                              + (IF ends /\ Unsent(w) /\ t[2] = Day(hour) THEN 1 ELSE 0)]

\* A query, a download, an object or an alert fails: nothing tries the run again.
Fail(w) ==
    /\ run[w] # Idle
    /\ Fault
    /\ Drop(w, FALSE)
    /\ UNCHANGED <<hour, phase, queue, records, fresh>>

\* The container is replaced: the new one's intervals begin now, and it refreshes the
\* databases.
Replace(w) ==
    /\ Fault
    /\ Drop(w, TRUE)
    /\ phase' = [phase EXCEPT ![w] = hour % DayLen]
    /\ Send("geoip")
    /\ UNCHANGED <<hour, records, fresh>>

-----------------------------------------------------------------------------
Running(w) ==
    \/ Alarm(w)
    \/ \E x \in Projects : Quiet(w, x) \/ Detect(w, x)
    \/ \E x \in Projects \cup Schedules : Daily(w, x)
    \/ \E x \in Files : Refresh(w, x)

Next ==
    \/ Tick
    \/ \E f \in Files : GoStale(f)
    \/ \E j \in JobNames : Beat(j)
    \/ \E w \in Containers, j \in JobNames : Start(w, j)
    \/ \E w \in Containers : Running(w) \/ Fail(w) \/ Replace(w)

Spec == Init /\ [][Next]_vars

\* Beats send the refresh again and again, workers work, and it is not passed over for
\* ever: the broker hands its tasks out in their order.
FairSpec ==
    /\ Spec
    /\ WF_vars(Beat("geoip"))
    /\ SF_vars(\E w \in Containers : Start(w, "geoip"))
    /\ \A w \in Containers : WF_vars(Running(w))

-----------------------------------------------------------------------------
(* Properties.                                                              *)

\* Type invariant; what a run found is in the table.
TypeOK ==
    /\ hour \in Hours
    /\ phase \in [Containers -> OfDay] /\ queue \in [JobNames -> Nat]
    /\ \A w \in Containers :
          /\ run[w].job \in JobNames \cup {"none"} /\ run[w].window <= hour
          /\ run[w].todo \subseteq Projects \cup Schedules \cup Files
          /\ run[w].found \subseteq anomalies
    /\ anomalies \subseteq Projects \X Hours
    /\ again \subseteq alarmed /\ alarmed \cup dropped \subseteq anomalies
    /\ daily \subseteq (Projects \cup Schedules) \X Days
    /\ spoilt \in [DailyJobs \X Days -> Nat]
    /\ fresh \subseteq Files
    /\ faults \in 0..MaxFaults

\* "Idempotent per project x metric x hour" (anomaly_job.py): no anomaly is in
\* two alarms, however often the hour is scored and by how many at once.
AlarmedOnce ==
    /\ again = {}
    /\ \A v, w \in Containers : v # w => run[v].found \cap run[w].found = {}

\* An anomaly that is in the table was told, or is in the hands of the run that found
\* it, or that run failed before its alarm; and then no later run ever tells of it.
AnomaliesAccounted ==
    /\ anomalies = alarmed \cup dropped \cup UNION {run[w].found : w \in Containers}
    /\ dropped \cap alarmed = {}

\* "A failure retries at the next tick": when no database goes stale any more both are
\* fresh in the end, though fetching one may fail after the other.
DatabasesRenew == (hour = MaxHours) ~> (fresh = Files)

\* All that a beat's run of a day has to do is done, or each container's came to nothing:
\* it failed, its task waited past midnight, or the container was replaced before its
\* hour.  Asked when every beat has sent the jobs of the day and none waits or runs.
Settled(j, d) ==
    /\ hour >= d * DayLen + DayLen - 1
    /\ d = Day(hour) => queue[j] = 0
    /\ \A w \in Containers : ~(run[w].job = j /\ run[w].window = d)

Items(j) == IF j = "exports" THEN Schedules ELSE Projects

MissedDaysHaveCauses ==
    \A j \in DailyJobs, d \in Days :
        Settled(j, d) =>
            \/ spoilt[<<j, d>>] >= Cardinality(Containers)
            \/ \A x \in Items(j) : <<x, d>> \in daily

=============================================================================
