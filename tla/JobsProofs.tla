----------------------------- MODULE JobsProofs -----------------------------
(***************************************************************************)
(* Proofs about Jobs, for any containers, projects, schedules and lengths  *)
(* of the day: however many score an hour at once, an anomaly is in one    *)
(* alarm at most, and in one unless the run that found it failed; and a    *)
(* day whose dumps or insights are missing is one on which every beat's    *)
(* run of the job came to nothing.                                         *)
(*                                                                         *)
(* The first two rest on what a run has found and not told yet: it found   *)
(* it first, nobody else did, and it is in no alarm.  The third rests on a *)
(* count: each beat's task of the day is to come, waits, runs, or is       *)
(* spoilt, until one has done all there is to do.                          *)
(***************************************************************************)
EXTENDS Jobs, FiniteSetTheorems, TLAPS

Tasks == Projects \cup Schedules \cup Files
Runs  == [job : JobNames \cup {"none"}, window : Nat, todo : SUBSET Tasks,
          found : SUBSET (Projects \X Hours)]

\* The day that a daily run is about is one of the model, and the hour that a detection
\* is about.
WindowInv ==
    \A w \in Containers :
        /\ run[w].window \in 0..hour
        /\ run[w].job \in DailyJobs => run[w].window \in Days

\* What a run has found is in the table, in no alarm, and another run's never.
FoundInv ==
    /\ \A w \in Containers : run[w].found \subseteq anomalies \ alarmed
    /\ AlarmedOnce

\* AnomaliesAccounted, row by row.
RowsInv ==
    /\ \A row \in anomalies : \/ row \in alarmed \/ row \in dropped
                              \/ \E w \in Containers : row \in run[w].found
    /\ dropped \subseteq anomalies \ alarmed
    /\ \A w \in Containers : run[w].found \cap dropped = {}

IInv == TypeOK /\ run \in [Containers -> Runs] /\ WindowInv /\ FoundInv /\ RowsInv

-----------------------------------------------------------------------------
(* Runs.                                                                    *)

\* The daily jobs are not the others.
LEMMA JobFacts ==
    /\ DailyJobs \subseteq JobNames /\ {"geoip", "anomalies"} \subseteq JobNames
    /\ "geoip" \notin DailyJobs /\ "anomalies" \notin DailyJobs /\ "none" \notin DailyJobs
BY JobsAssumption DEF JobNames

\* A day is numbered no higher than its hours.
LEMMA DayBound == ASSUME NEW h \in Nat PROVE Day(h) \in 0..h
<1> DEFINE d == h \div DayLen
<1>1. DayLen \in Nat /\ DayLen >= 1
    BY JobsAssumption
<1>2. d \in Nat /\ DayLen * d <= h
    BY <1>1
<1> HIDE DEF d
<1>3. DayLen * d = d + (DayLen - 1) * d
    BY <1>1, <1>2
<1>4. (DayLen - 1) * d \in Nat
    BY <1>1, <1>2
<1>5. d <= h
    BY <1>1, <1>2, <1>3, <1>4
<1> QED
    BY <1>2, <1>5 DEF Day, d

\* A run that goes on, or is over, is a run, and has found what it had.
LEMMA GoingRuns ==
    ASSUME NEW r \in Runs
    PROVE  /\ Going(r) \in Runs /\ Going(r).found = r.found
           /\ Going(r).job \in {r.job, "none"} /\ Going(r).window \in {r.window, 0}
           /\ Going(r).job # "none" => Going(r) = r
           /\ Idle \in Runs /\ Idle.found = {} /\ Idle.window = 0 /\ Idle.job = "none"
<1>1. Idle \in Runs /\ Idle.found = {} /\ Idle.window = 0 /\ Idle.job = "none"
    BY DEF Idle, Runs
<1>2. CASE r.todo = {} /\ r.found = {}
    BY <1>1, <1>2 DEF Going
<1>3. CASE ~(r.todo = {} /\ r.found = {})
    BY <1>1, <1>3 DEF Going, Runs
<1> QED
    BY <1>1, <1>2, <1>3

\* A task that is done leaves its run as it was, but for what it found.
LEMMA AfterRuns ==
    ASSUME run \in [Containers -> Runs], NEW w \in Containers, NEW x,
           NEW row \in SUBSET (Projects \X Hours), After(w, x, row)
    PROVE  /\ run' \in [Containers -> Runs]
           /\ run'[w].found = run[w].found \cup row
           /\ run'[w].job \in {run[w].job, "none"} /\ run'[w].window \in {run[w].window, 0}
           /\ run'[w].job # "none" => run'[w].window = run[w].window
           /\ \A v \in Containers : v # w => run'[v] = run[v]
<1> DEFINE r == [run[w] EXCEPT !.todo = @ \ {x}, !.found = @ \cup row]
<1>1. run[w] \in Runs
    OBVIOUS
<1>2. r \in Runs /\ r.found = run[w].found \cup row /\ r.job = run[w].job
          /\ r.window = run[w].window
    BY <1>1 DEF Runs
<1>3. run' = [run EXCEPT ![w] = Going(r)]
    BY DEF After
<1> HIDE DEF r
<1> QED
    BY <1>2, <1>3, GoingRuns

\* A run that is dropped.
LEMMA IdleRuns ==
    ASSUME run \in [Containers -> Runs], NEW w \in Containers,
           run' = [run EXCEPT ![w] = Idle]
    PROVE  /\ run' \in [Containers -> Runs]
           /\ run'[w].found = {} /\ run'[w].window = 0 /\ run'[w].job = "none"
           /\ \A v \in Containers : v # w => run'[v] = run[v]
<1>1. Idle \in Runs /\ Idle.found = {} /\ Idle.window = 0 /\ Idle.job = "none"
    BY DEF Idle, Runs
<1> QED
    BY <1>1

-----------------------------------------------------------------------------
(* Steps.                                                                   *)

\* Hours are numbers.
LEMMA HourType == ASSUME IInv PROVE hour \in Nat /\ MaxHours \in Nat /\ hour <= MaxHours
<1>1. hour \in 0..MaxHours /\ MaxHours \in Nat
    BY JobsAssumption DEF IInv, TypeOK, Hours
<1> QED
    BY <1>1

\* The hour of a run that detects is one of the model.
LEMMA Windows ==
    ASSUME IInv, NEW w \in Containers
    PROVE  run[w].window \in Hours /\ hour \in Nat
<1>1. hour \in Nat /\ MaxHours \in Nat /\ hour <= MaxHours
    BY HourType
<1>2. run[w].window \in 0..hour
    BY DEF IInv, WindowInv
<1> QED
    BY <1>1, <1>2 DEF Hours

\* A number of containers.
LEMMA SendingType ==
    ASSUME NEW h
    PROVE  Sending(h) \in Nat /\ IsFiniteSet({w \in Containers : phase[w] = h % DayLen})
<1>1. IsFiniteSet(Containers)
    BY JobsAssumption
<1>2. IsFiniteSet({w \in Containers : phase[w] = h % DayLen})
    BY <1>1, FS_Subset
<1> QED
    BY <1>2, FS_CardinalityType DEF Sending

\* The initial state.
LEMMA InvInit == Init => IInv
<1> SUFFICES ASSUME Init PROVE IInv
    OBVIOUS
<1>0. phase \in [Containers -> OfDay]
    BY DEF Init
<1>1. 0 \in Hours /\ MaxFaults \in Nat
    BY JobsAssumption DEF Hours
<1>2. run = [w \in Containers |-> Idle] /\ Idle \in Runs
    BY DEF Init, Idle, Runs
<1>3. \A w \in Containers : run[w] = Idle
    BY <1>2
<1>4. TypeOK
    <2>1. queue \in [JobNames -> Nat]
        <3>1. Sending(0) \in Nat
            BY SendingType
        <3>2. \A j \in JobNames : j \in DailyJobs \/ j = "geoip" \/ j = "anomalies"
            BY DEF JobNames
        <3>3. \A j \in JobNames : (CASE j \in DailyJobs  -> Sending(0)
                                      [] j = "geoip"     -> 1
                                      [] j = "anomalies" -> 0) \in Nat
            BY <3>1, <3>2, JobFacts
        <3> QED
            BY <3>3 DEF Init
    <2>2. spoilt \in [DailyJobs \X Days -> Nat] /\ fresh = {} /\ faults = 0 /\ hour = 0
          /\ anomalies = {} /\ alarmed = {} /\ again = {} /\ daily = {} /\ dropped = {}
        BY DEF Init
    <2>3. \A w \in Containers :
              /\ run[w].job = "none" /\ run[w].window = 0
              /\ run[w].todo = {} /\ run[w].found = {}
        BY <1>3 DEF Idle
    <2> QED
        BY <1>0, <1>1, <2>1, <2>2, <2>3 DEF TypeOK
<1>5. WindowInv
    <2>1. \A w \in Containers : run[w].window = 0 /\ run[w].job = "none"
        <3>1. Idle.window = 0 /\ Idle.job = "none"
            BY DEF Idle
        <3> QED
            BY <1>3, <3>1
    <2>2. 0 \in 0..hour
        BY DEF Init
    <2> QED
        BY <2>1, <2>2, JobFacts DEF WindowInv
<1>6. FoundInv /\ RowsInv
    BY <1>3 DEF Init, FoundInv, AlarmedOnce, RowsInv, Idle
<1> QED
    BY <1>2, <1>4, <1>5, <1>6 DEF IInv

\* What the conjuncts about each run need after a step that changes no other's.
LEMMA RunsKept ==
    ASSUME IInv, NEW w \in Containers, run' \in [Containers -> Runs],
           \A v \in Containers : v # w => run'[v] = run[v],
           run'[w].window \in 0..hour, UNCHANGED hour,
           run'[w].job \in DailyJobs => run'[w].window \in Days
    PROVE  /\ WindowInv'
           /\ \A v \in Containers : /\ run'[v].job \in JobNames \cup {"none"}
                                    /\ run'[v].window <= hour'
                                    /\ run'[v].todo \subseteq Projects \cup Schedules \cup Files
<1>1. WindowInv'
    BY DEF IInv, WindowInv
<1>2. hour \in Nat
    BY Windows
<1>3. \A v \in Containers : /\ run'[v].job \in JobNames \cup {"none"}
                            /\ run'[v].todo \subseteq Projects \cup Schedules \cup Files
    BY DEF Runs, Tasks
<1>4. \A v \in Containers : run'[v].window <= hour'
    BY <1>1, <1>2 DEF WindowInv
<1> QED
    BY <1>1, <1>3, <1>4

\* A task is taken: there is nothing found yet.
LEMMA InvStart ==
    ASSUME IInv, NEW w \in Containers, NEW j \in JobNames, Start(w, j)
    PROVE  IInv'
<1> DEFINE r == [job |-> j, window |-> Window(j), todo |-> Work(j), found |-> {}]
<1>1. hour \in Hours /\ hour \in Nat
    BY Windows DEF IInv, TypeOK
<1>2. Window(j) \in 0..hour /\ Window(j) \in Nat
    BY <1>1, DayBound, JobFacts DEF Window, JobNames
<1>3. Work(j) \in SUBSET Tasks
    BY JobsAssumption DEF Work, JobNames, GeoIpWork, Tasks
<1>4. r \in Runs /\ r.job = j /\ r.window = Window(j) /\ r.found = {}
    BY <1>2, <1>3 DEF Runs
<1>5. j \in DailyJobs => Window(j) \in Days
    BY <1>1, JobFacts DEF Window, Days
<1>6. run' = [run EXCEPT ![w] = Going(r)] /\ queue[j] > 0
          /\ queue' = [queue EXCEPT ![j] = @ - 1]
          /\ UNCHANGED <<hour, phase, records, lost, fresh, faults>>
    BY DEF Start
<1>7. run[w] = Idle /\ run[w].found = {}
    BY DEF Start, Idle
<1> HIDE DEF r
<1>8. /\ run' \in [Containers -> Runs] /\ \A v \in Containers : v # w => run'[v] = run[v]
      /\ run'[w].found = {} /\ run'[w].window \in {Window(j), 0} /\ run'[w].job \in {j, "none"}
      /\ run'[w].job # "none" => run'[w].window = Window(j)
    BY <1>4, <1>6, GoingRuns DEF IInv
<1>9. run'[w].window \in 0..hour
    BY <1>1, <1>2, <1>8
<1>10. run'[w].job \in DailyJobs => run'[w].window \in Days
    BY <1>5, <1>8, JobFacts
<1>11. \A v \in Containers : run'[v].found = run[v].found
    BY <1>7, <1>8
<1>12. FoundInv' /\ RowsInv'
    BY <1>6, <1>11 DEF IInv, FoundInv, AlarmedOnce, RowsInv, records, alarm, lost
<1>13. queue' \in [JobNames -> Nat]
    <2>1. queue \in [JobNames -> Nat] /\ queue[j] - 1 \in Nat
        BY <1>6 DEF IInv, TypeOK
    <2> QED
        BY <1>6, <2>1
<1>14. /\ WindowInv'
       /\ \A v \in Containers : /\ run'[v].job \in JobNames \cup {"none"}
                                /\ run'[v].window <= hour'
                                /\ run'[v].todo \subseteq Projects \cup Schedules \cup Files
    BY <1>6, <1>8, <1>9, <1>10, RunsKept
<1>15. TypeOK'
    BY <1>6, <1>11, <1>13, <1>14 DEF IInv, TypeOK, records, alarm, lost
<1> QED
    BY <1>8, <1>12, <1>14, <1>15 DEF IInv

\* A step of a run, but for what it does to the tables: the invariants about windows.
LEMMA StepWindows ==
    ASSUME IInv, NEW w \in Containers, NEW x, NEW row \in SUBSET (Projects \X Hours),
           After(w, x, row), UNCHANGED hour
    PROVE  /\ WindowInv' /\ run' \in [Containers -> Runs]
           /\ \A v \in Containers : /\ run'[v].job \in JobNames \cup {"none"}
                                    /\ run'[v].window <= hour'
                                    /\ run'[v].todo \subseteq Projects \cup Schedules \cup Files
           /\ run'[w].found = run[w].found \cup row
           /\ \A v \in Containers : v # w => run'[v].found = run[v].found
<1>1. run \in [Containers -> Runs] /\ hour \in Nat /\ run[w].window \in 0..hour
    BY Windows DEF IInv, WindowInv
<1>2. /\ run' \in [Containers -> Runs] /\ run'[w].found = run[w].found \cup row
      /\ run'[w].job \in {run[w].job, "none"} /\ run'[w].window \in {run[w].window, 0}
      /\ run'[w].job # "none" => run'[w].window = run[w].window
      /\ \A v \in Containers : v # w => run'[v] = run[v]
    BY <1>1, AfterRuns
<1>3. run'[w].window \in 0..hour
    BY <1>1, <1>2
<1>4. run'[w].job \in DailyJobs => run'[w].window \in Days
    BY <1>2, JobFacts DEF IInv, WindowInv
<1> QED
    BY <1>2, <1>3, <1>4, RunsKept

\* A deviation is found by the run that records it, and by no other.
LEMMA InvDetect ==
    ASSUME IInv, NEW w \in Containers, NEW x \in Projects, Detect(w, x)
    PROVE  IInv'
<1> DEFINE row == {<<x, run[w].window>>}
<1>1. /\ After(w, x, row \ anomalies) /\ anomalies' = anomalies \cup row
      /\ UNCHANGED <<hour, phase, queue, alarmed, again, daily, dropped, spoilt, fresh, faults>>
    BY DEF Detect, alarm, lost
<1>2. row \in SUBSET (Projects \X Hours)
    BY Windows
<1> HIDE DEF row
<1>3. row \ anomalies \in SUBSET (Projects \X Hours)
    BY <1>2
<1>4. /\ WindowInv' /\ run' \in [Containers -> Runs]
      /\ \A v \in Containers : /\ run'[v].job \in JobNames \cup {"none"}
                               /\ run'[v].window <= hour'
                               /\ run'[v].todo \subseteq Projects \cup Schedules \cup Files
      /\ run'[w].found = run[w].found \cup (row \ anomalies)
      /\ \A v \in Containers : v # w => run'[v].found = run[v].found
    BY <1>1, <1>3, StepWindows
<1>5. \A v \in Containers : run'[v].found \subseteq anomalies' \ alarmed'
    <2>1. alarmed \subseteq anomalies
        BY DEF IInv, TypeOK
    <2> QED
        BY <1>1, <1>4, <2>1 DEF IInv, FoundInv
<1>6. AlarmedOnce'
    <2>1. ASSUME NEW u \in Containers, NEW v \in Containers, u # v
          PROVE  run'[u].found \cap run'[v].found = {}
        <3>1. /\ run[u].found \subseteq anomalies /\ run[v].found \subseteq anomalies
              /\ run[u].found \cap run[v].found = {}
            BY <2>1 DEF IInv, FoundInv, AlarmedOnce
        <3>2. CASE u = w
            BY <1>4, <2>1, <3>1, <3>2
        <3>3. CASE v = w
            BY <1>4, <2>1, <3>1, <3>3
        <3>4. CASE u # w /\ v # w
            BY <1>4, <3>1, <3>4
        <3> QED
            BY <3>2, <3>3, <3>4
    <2> QED
        BY <1>1, <2>1 DEF IInv, FoundInv, AlarmedOnce
<1>7. RowsInv'
    BY <1>1, <1>4 DEF IInv, RowsInv
<1>8. TypeOK'
    BY <1>1, <1>2, <1>4, <1>5 DEF IInv, TypeOK
<1> QED
    BY <1>4, <1>5, <1>6, <1>7, <1>8 DEF IInv, FoundInv

\* A task that finds nothing.
LEMMA InvTask ==
    ASSUME IInv, NEW w \in Containers, NEW x,
           \/ Quiet(w, x)
           \/ Daily(w, x) /\ x \in Projects \cup Schedules
           \/ Refresh(w, x) /\ x \in Files
    PROVE  IInv'
<1>1. After(w, x, {}) /\ UNCHANGED <<hour, phase, queue, anomalies, alarmed, again, dropped, spoilt, faults>>
    BY DEF Quiet, Daily, Refresh, records, alarm, lost
<1>2. /\ WindowInv' /\ run' \in [Containers -> Runs]
      /\ \A v \in Containers : /\ run'[v].job \in JobNames \cup {"none"}
                               /\ run'[v].window <= hour'
                               /\ run'[v].todo \subseteq Projects \cup Schedules \cup Files
      /\ run'[w].found = run[w].found \cup {}
      /\ \A v \in Containers : v # w => run'[v].found = run[v].found
    <2>1. {} \in SUBSET (Projects \X Hours)
        OBVIOUS
    <2> QED
        BY <1>1, <2>1, StepWindows
<1>3. FoundInv' /\ RowsInv'
    BY <1>1, <1>2 DEF IInv, FoundInv, AlarmedOnce, RowsInv
<1>4. daily' \subseteq (Projects \cup Schedules) \X Days
    <2>1. CASE Quiet(w, x) \/ Refresh(w, x)
        BY <2>1 DEF Quiet, Refresh, records, IInv, TypeOK
    <2>2. CASE Daily(w, x) /\ x \in Projects \cup Schedules
        <3>1. /\ run[w].job \in DailyJobs /\ x \in Projects \cup Schedules
              /\ daily' = daily \cup {<<x, run[w].window>>}
            BY <2>2 DEF Daily, Doing
        <3>2. run[w].window \in Days
            BY <3>1 DEF IInv, WindowInv
        <3> QED
            BY <3>1, <3>2 DEF IInv, TypeOK
    <2> QED
        BY <2>1, <2>2
<1>5. fresh' \subseteq Files
    <2>1. CASE Refresh(w, x) /\ x \in Files
        BY <2>1 DEF Refresh, IInv, TypeOK
    <2> QED
        BY <2>1 DEF Quiet, Daily, records, IInv, TypeOK
<1> QED
    BY <1>1, <1>2, <1>3, <1>4, <1>5 DEF IInv, TypeOK

\* The alarm counts what its run has found, which no other has.
LEMMA InvAlarm ==
    ASSUME IInv, NEW w \in Containers, Alarm(w)
    PROVE  IInv'
<1>1. /\ run' = [run EXCEPT ![w] = Idle]
      /\ alarmed' = alarmed \cup run[w].found /\ again' = again \cup (alarmed \cap run[w].found)
      /\ UNCHANGED <<hour, phase, queue, anomalies, daily, dropped, spoilt, fresh, faults>>
    BY DEF Alarm, lost
<1>2. /\ run' \in [Containers -> Runs]
      /\ run'[w].found = {} /\ run'[w].window = 0 /\ run'[w].job = "none"
      /\ \A v \in Containers : v # w => run'[v] = run[v]
    BY <1>1, IdleRuns DEF IInv
<1>3. 0 \in 0..hour
    BY Windows
<1>4. /\ WindowInv'
      /\ \A v \in Containers : /\ run'[v].job \in JobNames \cup {"none"}
                               /\ run'[v].window <= hour'
                               /\ run'[v].todo \subseteq Projects \cup Schedules \cup Files
    BY <1>1, <1>2, <1>3, JobFacts, RunsKept
<1>5. again = {} /\ alarmed \cap run[w].found = {} /\ again' = {}
    BY <1>1 DEF IInv, FoundInv, AlarmedOnce
<1>6. \A v \in Containers : run'[v].found \subseteq anomalies' \ alarmed'
    <2>1. ASSUME NEW v \in Containers PROVE run'[v].found \subseteq anomalies' \ alarmed'
        <3>1. CASE v = w
            BY <1>2, <3>1
        <3>2. CASE v # w
            <4>1. run[v].found \subseteq anomalies \ alarmed /\ run[v].found \cap run[w].found = {}
                BY <3>2 DEF IInv, FoundInv, AlarmedOnce
            <4> QED
                BY <1>1, <1>2, <3>2, <4>1
        <3> QED
            BY <3>1, <3>2
    <2> QED
        BY <2>1
<1>7. AlarmedOnce'
    <2>1. ASSUME NEW u \in Containers, NEW v \in Containers, u # v
          PROVE  run'[u].found \cap run'[v].found = {}
        BY <1>2, <2>1 DEF IInv, FoundInv, AlarmedOnce
    <2> QED
        BY <1>5, <2>1 DEF AlarmedOnce
<1>8. RowsInv'
    <2>1. ASSUME NEW row \in anomalies'
          PROVE  \/ row \in alarmed' \/ row \in dropped'
                 \/ \E v \in Containers : row \in run'[v].found
        BY <1>1, <1>2 DEF IInv, RowsInv
    <2>2. dropped' \subseteq anomalies' \ alarmed'
        BY <1>1 DEF IInv, RowsInv
    <2>3. \A v \in Containers : run'[v].found \cap dropped' = {}
        BY <1>1, <1>2 DEF IInv, RowsInv
    <2> QED
        BY <2>1, <2>2, <2>3 DEF RowsInv
<1>9. alarmed' \subseteq anomalies'
    BY <1>1 DEF IInv, TypeOK, FoundInv
<1>10. TypeOK'
    BY <1>1, <1>4, <1>5, <1>6, <1>9 DEF IInv, TypeOK
<1> QED
    BY <1>2, <1>4, <1>6, <1>7, <1>8, <1>10 DEF IInv, FoundInv

\* The count of what came to nothing stays one.
LEMMA DropSpoilt ==
    ASSUME spoilt \in [DailyJobs \X Days -> Nat], NEW w \in Containers, NEW ends \in BOOLEAN,
           Drop(w, ends)
    PROVE  /\ spoilt' \in [DailyJobs \X Days -> Nat]
           /\ \A t \in DailyJobs \X Days :
                 spoilt'[t] = spoilt[t] + (IF t = <<run[w].job, run[w].window>> THEN 1 ELSE 0)
                              + (IF ends /\ Unsent(w) /\ t[2] = Day(hour) THEN 1 ELSE 0)
<1>1. \A t \in DailyJobs \X Days :
          spoilt[t] + (IF t = <<run[w].job, run[w].window>> THEN 1 ELSE 0)
             + (IF ends /\ Unsent(w) /\ t[2] = Day(hour) THEN 1 ELSE 0) \in Nat
    OBVIOUS
<1> QED
    BY <1>1 DEF Drop

\* What is dropped was recorded, and is in the history of what was.
LEMMA InvDropped ==
    ASSUME IInv, NEW w \in Containers, Fail(w) \/ Replace(w)
    PROVE  IInv'
<1>1. /\ run' = [run EXCEPT ![w] = Idle] /\ dropped' = dropped \cup run[w].found
      /\ faults < MaxFaults /\ faults' = faults + 1
      /\ UNCHANGED <<hour, anomalies, alarmed, again, daily, fresh>>
    BY DEF Fail, Replace, Fault, Drop, records, alarm
<1>2. /\ run' \in [Containers -> Runs]
      /\ run'[w].found = {} /\ run'[w].window = 0 /\ run'[w].job = "none"
      /\ \A v \in Containers : v # w => run'[v] = run[v]
    BY <1>1, IdleRuns DEF IInv
<1>3. 0 \in 0..hour
    BY Windows
<1>4. /\ WindowInv'
      /\ \A v \in Containers : /\ run'[v].job \in JobNames \cup {"none"}
                               /\ run'[v].window <= hour'
                               /\ run'[v].todo \subseteq Projects \cup Schedules \cup Files
    BY <1>1, <1>2, <1>3, JobFacts, RunsKept
<1>5. \A v \in Containers : run'[v].found \subseteq run[v].found
    BY <1>2
<1>6. FoundInv'
    <2>1. ASSUME NEW u \in Containers, NEW v \in Containers, u # v
          PROVE  run'[u].found \cap run'[v].found = {}
        <3>1. run[u].found \cap run[v].found = {}
            BY <2>1 DEF IInv, FoundInv, AlarmedOnce
        <3> QED
            BY <1>5, <3>1
    <2> QED
        BY <1>1, <1>5, <2>1 DEF IInv, FoundInv, AlarmedOnce
<1>7. RowsInv'
    <2>1. dropped' \subseteq anomalies' \ alarmed'
        BY <1>1 DEF IInv, RowsInv, FoundInv
    <2>2. ASSUME NEW v \in Containers PROVE run'[v].found \cap dropped' = {}
        <3>1. CASE v = w
            BY <1>2, <3>1
        <3>2. CASE v # w
            <4>1. run[v].found \cap run[w].found = {} /\ run[v].found \cap dropped = {}
                BY <3>2 DEF IInv, FoundInv, AlarmedOnce, RowsInv
            <4> QED
                BY <1>1, <1>2, <3>2, <4>1
        <3> QED
            BY <3>1, <3>2
    <2>3. ASSUME NEW row \in anomalies'
          PROVE  \/ row \in alarmed' \/ row \in dropped'
                 \/ \E v \in Containers : row \in run'[v].found
        BY <1>1, <1>2 DEF IInv, RowsInv
    <2> QED
        BY <2>1, <2>2, <2>3 DEF RowsInv
<1>8. faults' \in 0..MaxFaults
    BY <1>1, JobsAssumption DEF IInv, TypeOK
<1>9. queue' \in [JobNames -> Nat] /\ phase' \in [Containers -> OfDay]
    <2>1. CASE Fail(w)
        BY <2>1 DEF Fail, IInv, TypeOK
    <2>2. CASE Replace(w)
        <3>1. hour % DayLen \in OfDay
            BY Windows, JobsAssumption DEF OfDay
        <3> QED
            BY <2>2, <3>1, JobFacts DEF Replace, Send, IInv, TypeOK
    <2> QED
        BY <2>1, <2>2
<1>10. spoilt' \in [DailyJobs \X Days -> Nat]
    BY DropSpoilt DEF Fail, Replace, IInv, TypeOK
<1>11. alarmed' \cup dropped' \subseteq anomalies'
    BY <1>1 DEF IInv, RowsInv, TypeOK, FoundInv
<1>12. \A v \in Containers : run'[v].found \subseteq anomalies'
    BY <1>1, <1>5 DEF IInv, TypeOK
<1>13. TypeOK'
    BY <1>1, <1>4, <1>8, <1>9, <1>10, <1>11, <1>12 DEF IInv, TypeOK
<1> QED
    BY <1>2, <1>4, <1>6, <1>7, <1>13 DEF IInv

\* Time, the beat, and databases that age leave the runs alone.
LEMMA InvOutside ==
    ASSUME IInv, UNCHANGED <<phase, run, records, dropped, faults>>,
           queue' \in [JobNames -> Nat], spoilt' \in [DailyJobs \X Days -> Nat],
           fresh' \subseteq Files, hour' \in {hour, hour + 1}, hour' <= MaxHours
    PROVE  IInv'
<1>1. hour \in Nat /\ hour' \in Hours /\ hour' \in Nat
    BY HourType DEF Hours
<1>2. \A w \in Containers : run[w].window \in 0..hour'
    <2>1. \A w \in Containers : run[w].window \in 0..hour
        BY DEF IInv, WindowInv
    <2> QED
        BY <1>1, <2>1
<1>3. WindowInv'
    BY <1>2 DEF IInv, WindowInv
<1>4. FoundInv' /\ RowsInv'
    BY DEF IInv, FoundInv, AlarmedOnce, RowsInv, records, alarm
<1>5. TypeOK'
    BY <1>1, <1>2 DEF IInv, TypeOK, records, alarm
<1> QED
    BY <1>3, <1>4, <1>5 DEF IInv

\* What an hour sends and what midnight spoils.
LEMMA TickCounts ==
    ASSUME IInv, Tick
    PROVE  /\ queue' \in [JobNames -> Nat] /\ spoilt' \in [DailyJobs \X Days -> Nat]
           /\ \A j \in DailyJobs : queue'[j] = queue[j] + Sending(hour + 1)
           /\ \A t \in DailyJobs \X Days :
                 spoilt'[t] = spoilt[t] + (IF t[2] = Day(hour) /\ Day(hour + 1) # Day(hour)
                                           THEN queue[t[1]] ELSE 0)
<1>1. queue \in [JobNames -> Nat] /\ spoilt \in [DailyJobs \X Days -> Nat]
    BY DEF IInv, TypeOK
<1>0. Sending(hour + 1) \in Nat
    BY SendingType
<1>2. \A j \in JobNames : queue[j] + (IF j \in DailyJobs THEN Sending(hour + 1) ELSE 0) \in Nat
    BY <1>0, <1>1
<1>3. \A t \in DailyJobs \X Days :
          spoilt[t] + (IF t[2] = Day(hour) /\ Day(hour + 1) # Day(hour)
                       THEN queue[t[1]] ELSE 0) \in Nat
    BY <1>1, JobFacts
<1>4. /\ queue' = [j \in JobNames |->
                      queue[j] + (IF j \in DailyJobs THEN Sending(hour + 1) ELSE 0)]
      /\ spoilt' = [t \in DailyJobs \X Days |->
                      spoilt[t] + (IF t[2] = Day(hour) /\ Day(hour + 1) # Day(hour)
                                   THEN queue[t[1]] ELSE 0)]
    BY DEF Tick
<1> QED
    BY <1>2, <1>3, <1>4, JobFacts

\* Every step keeps it.
LEMMA InvNext == IInv /\ [Next]_vars => IInv'
<1> SUFFICES ASSUME IInv, [Next]_vars PROVE IInv'
    OBVIOUS
<1>1. hour \in Nat /\ MaxHours \in Nat /\ hour <= MaxHours
    BY HourType
<1>2. CASE Tick
    <2>1. /\ hour' = hour + 1 /\ hour' <= MaxHours
          /\ UNCHANGED <<phase, run, records, dropped, fresh, faults>>
        BY <1>1, <1>2 DEF Tick
    <2>2. queue' \in [JobNames -> Nat] /\ spoilt' \in [DailyJobs \X Days -> Nat]
        BY <1>2, TickCounts
    <2> QED
        BY <2>1, <2>2, InvOutside DEF IInv, TypeOK
<1>3. ASSUME NEW f \in Files, GoStale(f) PROVE IInv'
    BY <1>1, <1>3, InvOutside DEF GoStale, lost, IInv, TypeOK
<1>4. ASSUME NEW j \in JobNames, Beat(j) PROVE IInv'
    BY <1>1, <1>4, InvOutside DEF Beat, Send, lost, IInv, TypeOK
<1>5. CASE UNCHANGED vars
    <2>1. UNCHANGED <<hour, phase, queue, run, records, dropped, spoilt, fresh, faults>>
        BY <1>5 DEF vars, lost
    <2> QED
        BY <1>1, <2>1, InvOutside DEF IInv, TypeOK
<1>6. ASSUME NEW w \in Containers, Running(w) PROVE IInv'
    BY <1>6, InvDetect, InvTask, InvAlarm DEF Running
<1> QED
    BY <1>2, <1>3, <1>4, <1>5, <1>6, InvStart, InvDropped DEF Next

-----------------------------------------------------------------------------
(* The count of a day's runs.                                               *)

\* Where each beat's run of the day can be: to come, waiting, running.
Pending(h, p, d) ==
    {w \in Containers : \/ d > Day(h)
                        \/ d = Day(h) /\ p[w] > h % DayLen}
Waiting(h, q, j, d) == IF d = Day(h) THEN q[j] ELSE 0
Busy(r, j, d) == {w \in Containers : r[w].job = j /\ r[w].window = d}

Chances(h, p, q, r, s, j, d) ==
    Cardinality(Pending(h, p, d)) + Waiting(h, q, j, d) + Cardinality(Busy(r, j, d)) + s[<<j, d>>]

Done(a, j, d) == \A x \in Items(j) : <<x, d>> \in a

\* Until one run has done all, each beat's is somewhere, or is spoilt.
CountInv ==
    \A j \in DailyJobs, d \in Days :
        \/ Done(daily, j, d)
        \/ Cardinality(Containers) <= Chances(hour, phase, queue, run, spoilt, j, d)

\* A daily run has something left, has found nothing, and has done the rest.
WorkInv ==
    \A w \in Containers :
        run[w].job \in DailyJobs =>
            /\ run[w].found = {} /\ run[w].todo # {} /\ run[w].todo \subseteq Items(run[w].job)
            /\ \A x \in Items(run[w].job) \ run[w].todo : <<x, run[w].window>> \in daily

\* An hour is the next of its day, or the first of the next.
LEMMA DayStep ==
    ASSUME NEW h \in Nat
    PROVE  /\ h % DayLen \in OfDay /\ Day(h) \in Nat
           /\ \/ Day(h + 1) = Day(h) /\ (h + 1) % DayLen = (h % DayLen) + 1
              \/ /\ Day(h + 1) = Day(h) + 1 /\ (h + 1) % DayLen = 0
                 /\ h % DayLen = DayLen - 1
<1> DEFINE q == h \div DayLen
           r == h % DayLen
           u == (h + 1) \div DayLen
           v == (h + 1) % DayLen
<1>1. DayLen \in Nat /\ DayLen >= 1
    BY JobsAssumption
<1>2. q \in Nat /\ r \in 0..DayLen - 1 /\ h = DayLen * q + r
    BY <1>1
<1>3. u \in Nat /\ v \in 0..DayLen - 1 /\ h + 1 = DayLen * u + v
    BY <1>1
<1> HIDE DEF q, r, u, v
<1>4. DayLen * u + v = DayLen * q + r + 1
    BY <1>1, <1>2, <1>3
<1>5. DayLen * (u - q) = r + 1 - v /\ u - q \in Int
    BY <1>1, <1>2, <1>3, <1>4
<1>6. u - q >= 0
    <2>1. CASE u - q <= -1
        <3>1. DayLen * (u - q) <= DayLen * (-1)
            BY <1>1, <1>5, <2>1
        <3> QED
            BY <1>1, <1>2, <1>3, <1>5, <3>1
    <2> QED
        BY <1>5, <2>1
<1>7. u - q <= 1
    <2>1. CASE u - q >= 2
        <3>1. DayLen * (u - q) >= DayLen * 2
            BY <1>1, <1>5, <2>1
        <3> QED
            BY <1>1, <1>2, <1>3, <1>5, <3>1
    <2> QED
        BY <1>5, <2>1
<1>8. CASE u - q = 0
    <2>1. DayLen * (u - q) = 0
        BY <1>1, <1>8
    <2>2. v = r + 1
        BY <1>1, <1>2, <1>3, <1>5, <2>1
    <2>3. u = q
        BY <1>2, <1>3, <1>8
    <2> QED
        BY <1>2, <2>2, <2>3 DEF Day, OfDay, q, r, u, v
<1>9. CASE u - q = 1
    <2>1. DayLen * (u - q) = DayLen
        BY <1>1, <1>9
    <2>2. v = 0 /\ r = DayLen - 1
        BY <1>1, <1>2, <1>3, <1>5, <2>1
    <2>3. u = q + 1
        BY <1>2, <1>3, <1>9
    <2> QED
        BY <1>2, <2>2, <2>3 DEF Day, OfDay, q, r, u, v
<1> QED
    BY <1>5, <1>6, <1>7, <1>8, <1>9

\* Days are numbers, and so are the parts of the count.
LEMMA DaysType == Days \subseteq Nat
<1>1. \A h \in Hours : h \in Nat
    BY JobsAssumption DEF Hours
<1> QED
    BY <1>1, DayBound DEF Days

LEMMA PartsType ==
    ASSUME NEW h, NEW p, NEW r, NEW j, NEW d
    PROVE  /\ IsFiniteSet(Pending(h, p, d)) /\ Cardinality(Pending(h, p, d)) \in Nat
           /\ IsFiniteSet(Busy(r, j, d)) /\ Cardinality(Busy(r, j, d)) \in Nat
           /\ Cardinality(Containers) \in Nat
<1>1. IsFiniteSet(Containers)
    BY JobsAssumption
<1>2. Pending(h, p, d) \in SUBSET Containers /\ Busy(r, j, d) \in SUBSET Containers
    BY DEF Pending, Busy
<1>3. IsFiniteSet(Pending(h, p, d)) /\ IsFiniteSet(Busy(r, j, d))
    BY <1>1, <1>2, FS_Subset
<1> QED
    BY <1>1, <1>3, FS_CardinalityType

\* The state's own parts.
LEMMA StateParts ==
    ASSUME IInv, NEW j \in DailyJobs, NEW d \in Days
    PROVE  queue[j] \in Nat /\ spoilt[<<j, d>>] \in Nat /\ Waiting(hour, queue, j, d) \in Nat
<1>1. queue[j] \in Nat /\ spoilt[<<j, d>>] \in Nat
    BY JobFacts DEF IInv, TypeOK
<1> QED
    BY <1>1 DEF Waiting

\* A set that is split in two.
LEMMA SplitCard ==
    ASSUME NEW S, NEW T, NEW U, IsFiniteSet(S), S = T \cup U, T \cap U = {}
    PROVE  Cardinality(S) = Cardinality(T) + Cardinality(U)
<1>1. T \in SUBSET S /\ U \in SUBSET S
    OBVIOUS
<1>2. IsFiniteSet(T) /\ IsFiniteSet(U)
    BY <1>1, FS_Subset
<1>3. Cardinality(T \cup U) = Cardinality(T) + Cardinality(U) - Cardinality(T \cap U)
    BY <1>2, FS_Union
<1>4. Cardinality(T \cap U) = 0
    BY FS_EmptySet
<1>5. Cardinality(T) \in Nat /\ Cardinality(U) \in Nat
    BY <1>2, FS_CardinalityType
<1> QED
    BY <1>3, <1>4, <1>5

\* A set without one of its elements.
LEMMA RemoveCard ==
    ASSUME NEW S, NEW x, IsFiniteSet(S)
    PROVE  Cardinality(S \ {x}) + (IF x \in S THEN 1 ELSE 0) = Cardinality(S)
<1>1. Cardinality(S) \in Nat
    BY FS_CardinalityType
<1>2. CASE x \in S
    <2>1. Cardinality(S \ {x}) = Cardinality(S) - 1
        BY <1>2, FS_RemoveElement
    <2> QED
        BY <1>1, <1>2, <2>1
<1>3. CASE x \notin S
    <2>1. S \ {x} = S
        BY <1>3
    <2> QED
        BY <1>1, <1>3, <2>1
<1> QED
    BY <1>2, <1>3

\* The beats of an hour are no more to come once it has begun.
LEMMA PendingStep ==
    ASSUME NEW h \in Nat, NEW p \in [Containers -> OfDay], NEW d \in Nat
    PROVE  /\ d = Day(h + 1) =>
                /\ Pending(h, p, d) = Pending(h + 1, p, d)
                                       \cup {w \in Containers : p[w] = (h + 1) % DayLen}
                /\ Pending(h + 1, p, d) \cap {w \in Containers : p[w] = (h + 1) % DayLen} = {}
           /\ d # Day(h + 1) => Pending(h + 1, p, d) = Pending(h, p, d)
           /\ (h % DayLen = DayLen - 1 /\ d = Day(h)) => Pending(h, p, d) = {}
<1>1. /\ h % DayLen \in OfDay /\ Day(h) \in Nat
      /\ \/ Day(h + 1) = Day(h) /\ (h + 1) % DayLen = (h % DayLen) + 1
         \/ Day(h + 1) = Day(h) + 1 /\ (h + 1) % DayLen = 0 /\ h % DayLen = DayLen - 1
    BY DayStep
<1>2. DayLen \in Nat /\ \A w \in Containers : p[w] \in 0..DayLen - 1
    BY JobsAssumption DEF OfDay
<1>3. (h % DayLen = DayLen - 1 /\ d = Day(h)) => Pending(h, p, d) = {}
    BY <1>1, <1>2 DEF Pending
<1>4. CASE Day(h + 1) = Day(h) /\ (h + 1) % DayLen = (h % DayLen) + 1
    <2>1. \A w \in Containers :
              (p[w] > h % DayLen) <=> (p[w] > (h + 1) % DayLen \/ p[w] = (h + 1) % DayLen)
        BY <1>1, <1>2, <1>4 DEF OfDay
    <2>2. \A w \in Containers : ~(p[w] > (h + 1) % DayLen /\ p[w] = (h + 1) % DayLen)
        BY <1>1, <1>2, <1>4 DEF OfDay
    <2>3. ~(Day(h) > Day(h)) /\ ~(Day(h + 1) > Day(h + 1))
        BY <1>1, <1>4
    <2> QED
        BY <1>3, <1>4, <2>1, <2>2, <2>3 DEF Pending
<1>5. CASE Day(h + 1) = Day(h) + 1 /\ (h + 1) % DayLen = 0 /\ h % DayLen = DayLen - 1
    <2>1. \A w \in Containers : /\ p[w] > 0 \/ p[w] = 0
                                /\ ~(p[w] > 0 /\ p[w] = 0) /\ ~(p[w] > DayLen - 1)
        BY <1>2
    <2>2. d = Day(h) + 1 => d > Day(h) /\ ~(d > Day(h) + 1)
        BY <1>1
    <2>3. d # Day(h) + 1 => (d > Day(h) + 1 <=> d > Day(h))
        BY <1>1
    <2> QED
        BY <1>3, <1>5, <2>1, <2>2, <2>3 DEF Pending
<1> QED
    BY <1>1, <1>4, <1>5

\* An hour passes: what is to come is sent, and what waits at midnight is spoilt.
LEMMA CountTick ==
    ASSUME IInv, Tick, NEW j \in DailyJobs, NEW d \in Days,
           Cardinality(Containers) <= Chances(hour, phase, queue, run, spoilt, j, d)
    PROVE  Cardinality(Containers) <= Chances(hour', phase', queue', run', spoilt', j, d)
<1> DEFINE n == Cardinality(Containers)
           c == Cardinality(Pending(hour, phase, d))
           e == Cardinality(Pending(hour + 1, phase, d))
           b == Cardinality(Busy(run, j, d))
           t == spoilt[<<j, d>>]
           sent == Sending(hour + 1)
<1>1. /\ hour \in Nat /\ hour' = hour + 1 /\ phase' = phase /\ run' = run
      /\ phase \in [Containers -> OfDay]
    BY HourType DEF Tick, IInv, TypeOK
<1>2. /\ queue[j] \in Nat /\ t \in Nat /\ sent \in Nat /\ d \in Nat
      /\ c \in Nat /\ e \in Nat /\ b \in Nat /\ n \in Nat
    BY StateParts, PartsType, SendingType, DaysType
<1>3. /\ queue'[j] = queue[j] + sent
      /\ spoilt'[<<j, d>>] = t + (IF d = Day(hour) /\ Day(hour + 1) # Day(hour)
                                  THEN queue[j] ELSE 0)
    BY TickCounts
<1>4. /\ Day(hour) \in Nat
      /\ \/ Day(hour + 1) = Day(hour)
         \/ Day(hour + 1) = Day(hour) + 1 /\ hour % DayLen = DayLen - 1
    BY <1>1, DayStep
<1>5. d = Day(hour + 1) => c = e + sent
    <2> DEFINE S == {w \in Containers : phase[w] = (hour + 1) % DayLen}
    <2> SUFFICES ASSUME d = Day(hour + 1) PROVE c = e + sent
        OBVIOUS
    <2>1. /\ Pending(hour, phase, d) = Pending(hour + 1, phase, d) \cup S
          /\ Pending(hour + 1, phase, d) \cap S = {}
        BY <1>1, <1>2, PendingStep
    <2>2. IsFiniteSet(Pending(hour, phase, d))
        BY PartsType
    <2>3. sent = Cardinality(S)
        BY DEF Sending
    <2> HIDE DEF S
    <2> QED
        BY ONLY <2>1, <2>2, <2>3, SplitCard
<1>6. d # Day(hour + 1) => e = c
    BY <1>1, <1>2, PendingStep
<1>7. (Day(hour + 1) # Day(hour) /\ d = Day(hour)) => c = 0
    <2> SUFFICES ASSUME Day(hour + 1) # Day(hour), d = Day(hour) PROVE c = 0
        OBVIOUS
    <2>1. hour % DayLen = DayLen - 1
        BY <1>4
    <2>2. Pending(hour, phase, d) = {}
        BY <1>1, <1>2, <2>1, PendingStep
    <2> QED
        BY <2>2, FS_EmptySet
<1>8. n <= c + (IF d = Day(hour) THEN queue[j] ELSE 0) + b + t
    BY DEF Chances, Waiting
<1>9. Chances(hour', phase', queue', run', spoilt', j, d)
        = e + (IF d = Day(hour + 1) THEN queue[j] + sent ELSE 0) + b + spoilt'[<<j, d>>]
    BY <1>1, <1>3 DEF Chances, Waiting
<1> HIDE DEF n, c, e, b, t, sent
<1>10. n <= e + (IF d = Day(hour + 1) THEN queue[j] + sent ELSE 0) + b + spoilt'[<<j, d>>]
    BY ONLY <1>2, <1>3, <1>4, <1>5, <1>6, <1>7, <1>8
<1> QED
    BY <1>9, <1>10 DEF n

\* A container's run, and nobody else's, is another.
LEMMA BusyStep ==
    ASSUME NEW r, NEW q, NEW w \in Containers, NEW j, NEW d,
           \A v \in Containers : v # w => q[v] = r[v]
    PROVE  Cardinality(Busy(q, j, d)) + (IF w \in Busy(r, j, d) THEN 1 ELSE 0)
             = Cardinality(Busy(r, j, d)) + (IF w \in Busy(q, j, d) THEN 1 ELSE 0)
<1> DEFINE R == Busy(r, j, d) \ {w}
<1>1. R = Busy(q, j, d) \ {w}
    BY DEF Busy
<1>2. /\ IsFiniteSet(Busy(r, j, d)) /\ Cardinality(Busy(r, j, d)) \in Nat
      /\ IsFiniteSet(Busy(q, j, d)) /\ Cardinality(Busy(q, j, d)) \in Nat
    BY PartsType
<1>3. Cardinality(R) + (IF w \in Busy(r, j, d) THEN 1 ELSE 0) = Cardinality(Busy(r, j, d))
    BY ONLY <1>2, RemoveCard
<1>4. Cardinality(Busy(q, j, d) \ {w}) + (IF w \in Busy(q, j, d) THEN 1 ELSE 0)
        = Cardinality(Busy(q, j, d))
    BY ONLY <1>2, RemoveCard
<1>5. Cardinality(R) \in Nat
    <2>1. IsFiniteSet(R)
        BY <1>2, FS_RemoveElement
    <2> QED
        BY <2>1, FS_CardinalityType
<1> HIDE DEF R
<1> QED
    BY <1>1, <1>2, <1>3, <1>4, <1>5

\* A daily task that is taken has all its work to do; without any, all is done.
LEMMA CountStart ==
    ASSUME IInv, NEW w \in Containers, NEW k \in JobNames, Start(w, k),
           NEW j \in DailyJobs, NEW d \in Days,
           Cardinality(Containers) <= Chances(hour, phase, queue, run, spoilt, j, d)
    PROVE  \/ Done(daily', j, d)
           \/ Cardinality(Containers) <= Chances(hour', phase', queue', run', spoilt', j, d)
<1> DEFINE n == Cardinality(Containers)
           c == Cardinality(Pending(hour, phase, d))
           b == Cardinality(Busy(run, j, d))
           b1 == Cardinality(Busy(run', j, d))
           t == spoilt[<<j, d>>]
           r == [job |-> k, window |-> Window(k), todo |-> Work(k), found |-> {}]
<1>1. /\ hour' = hour /\ phase' = phase /\ spoilt' = spoilt /\ run[w] = Idle
      /\ queue[k] > 0 /\ queue' = [queue EXCEPT ![k] = @ - 1]
      /\ run' = [run EXCEPT ![w] = Going(r)]
    BY DEF Start, lost
<1>2. /\ queue[j] \in Nat /\ t \in Nat /\ c \in Nat /\ b \in Nat /\ b1 \in Nat /\ n \in Nat
      /\ queue \in [JobNames -> Nat] /\ run \in [Containers -> Runs]
    BY StateParts, PartsType DEF IInv, TypeOK
<1>3. w \notin Busy(run, j, d)
    BY <1>1, JobFacts DEF Busy, Idle
<1>4. b1 = b + (IF w \in Busy(run', j, d) THEN 1 ELSE 0)
    <2>1. \A v \in Containers : v # w => run'[v] = run[v]
        BY <1>1, <1>2
    <2>2. b1 + 0 = b + (IF w \in Busy(run', j, d) THEN 1 ELSE 0)
        BY <1>3, <2>1, BusyStep
    <2> QED
        BY <1>2, <2>2
<1>5. n <= c + (IF d = Day(hour) THEN queue[j] ELSE 0) + b + t
    BY DEF Chances, Waiting
<1>6. Chances(hour', phase', queue', run', spoilt', j, d)
        = c + (IF d = Day(hour) THEN queue'[j] ELSE 0) + b1 + t
    BY <1>1 DEF Chances, Waiting
<1>7. CASE k # j \/ d # Day(hour)
    <2>1. d = Day(hour) => queue'[j] = queue[j]
        BY <1>1, <1>2, <1>7, JobFacts
    <2> HIDE DEF n, c, b, b1, t
    <2>2. b1 >= b
        BY <1>2, <1>4
    <2>3. n <= c + (IF d = Day(hour) THEN queue'[j] ELSE 0) + b1 + t
        BY ONLY <1>2, <1>5, <2>1, <2>2
    <2> QED
        BY <1>6, <2>3 DEF n
<1>8. CASE k = j /\ d = Day(hour)
    <2>1. Work(k) = Items(j) /\ Window(k) = d
        BY <1>8, JobFacts, JobsAssumption DEF Work, Items, Window
    <2>2. CASE Items(j) = {}
        BY <2>2 DEF Done
    <2>3. CASE Items(j) # {}
        <3>1. Going(r) = r /\ r.job = j /\ r.window = d
            BY <1>8, <2>1, <2>3 DEF Going
        <3>2. run'[w] = r
            BY <1>1, <1>2, <3>1
        <3>3. w \in Busy(run', j, d)
            BY <3>1, <3>2 DEF Busy
        <3>4. queue'[j] = queue[j] - 1 /\ queue[j] > 0
            BY <1>1, <1>2, <1>8
        <3> HIDE DEF n, c, b, b1, t
        <3>5. n <= c + (IF d = Day(hour) THEN queue'[j] ELSE 0) + b1 + t
            BY ONLY <1>2, <1>4, <1>5, <1>8, <3>3, <3>4
        <3> QED
            BY <1>6, <3>5 DEF n
    <2> QED
        BY <2>2, <2>3
<1> QED
    BY <1>7, <1>8

\* A step of a run that is not a daily one; a daily run's step, with which it may be over.
LEMMA RunningStep ==
    ASSUME IInv, WorkInv, NEW w \in Containers, Running(w)
    PROVE  /\ UNCHANGED <<hour, phase, queue, spoilt>> /\ daily \subseteq daily'
           /\ \A v \in Containers : v # w => run'[v] = run[v]
           /\ run[w].job \notin DailyJobs => run'[w].job \notin DailyJobs
           /\ run[w].job \in DailyJobs =>
                \/ /\ run'[w].job = run[w].job /\ run'[w].window = run[w].window
                   /\ run'[w].found = {} /\ run'[w].todo # {}
                   /\ run'[w].todo \subseteq Items(run[w].job)
                   /\ \A x \in Items(run[w].job) \ run'[w].todo : <<x, run[w].window>> \in daily'
                \/ run'[w].job = "none" /\ Done(daily', run[w].job, run[w].window)
<1>0. run \in [Containers -> Runs] /\ run[w] \in Runs
    BY DEF IInv
<1>1. ASSUME NEW x \in Projects, Quiet(w, x) \/ Detect(w, x)
      PROVE  /\ UNCHANGED <<hour, phase, queue, spoilt, daily>> /\ run[w].job \notin DailyJobs
             /\ \A v \in Containers : v # w => run'[v] = run[v]
             /\ run'[w].job \notin DailyJobs
    <2>1. PICK row \in SUBSET (Projects \X Hours) : After(w, x, row)
        <3>1. CASE Quiet(w, x)
            BY <3>1 DEF Quiet
        <3>2. CASE Detect(w, x)
            <4>1. {<<x, run[w].window>>} \ anomalies \in SUBSET (Projects \X Hours)
                BY Windows
            <4> QED
                BY <3>2, <4>1 DEF Detect
        <3> QED
            BY <1>1, <3>1, <3>2
    <2>2. run[w].job = "anomalies" /\ UNCHANGED <<hour, phase, queue, spoilt, daily>>
        BY <1>1 DEF Quiet, Detect, Doing, lost, records
    <2>3. /\ run'[w].job \in {run[w].job, "none"}
          /\ \A v \in Containers : v # w => run'[v] = run[v]
        BY <1>0, <2>1, AfterRuns
    <2> QED
        BY <2>2, <2>3, JobFacts
<1>2. ASSUME NEW x \in Files, Refresh(w, x)
      PROVE  /\ UNCHANGED <<hour, phase, queue, spoilt, daily>> /\ run[w].job \notin DailyJobs
             /\ \A v \in Containers : v # w => run'[v] = run[v]
             /\ run'[w].job \notin DailyJobs
    <2>1. /\ After(w, x, {}) /\ run[w].job = "geoip"
          /\ UNCHANGED <<hour, phase, queue, spoilt, daily>>
        BY <1>2 DEF Refresh, Doing, lost, records
    <2>2. {} \in SUBSET (Projects \X Hours)
        OBVIOUS
    <2>3. /\ run'[w].job \in {run[w].job, "none"}
          /\ \A v \in Containers : v # w => run'[v] = run[v]
        BY <1>0, <2>1, <2>2, AfterRuns
    <2> QED
        BY <2>1, <2>3, JobFacts
<1>3. ASSUME Alarm(w)
      PROVE  /\ UNCHANGED <<hour, phase, queue, spoilt, daily>> /\ run[w].job \notin DailyJobs
             /\ \A v \in Containers : v # w => run'[v] = run[v]
             /\ run'[w].job \notin DailyJobs
    <2>1. /\ run[w].found # {} /\ run' = [run EXCEPT ![w] = Idle]
          /\ UNCHANGED <<hour, phase, queue, spoilt, daily>>
        BY <1>3 DEF Alarm, lost
    <2>2. run'[w].job = "none" /\ \A v \in Containers : v # w => run'[v] = run[v]
        BY <1>0, <2>1, IdleRuns
    <2> QED
        BY <2>1, <2>2, JobFacts DEF WorkInv
<1>4. ASSUME NEW x \in Projects \cup Schedules, Daily(w, x)
      PROVE  /\ UNCHANGED <<hour, phase, queue, spoilt>> /\ daily \subseteq daily'
             /\ \A v \in Containers : v # w => run'[v] = run[v]
             /\ run[w].job \in DailyJobs
             /\ \/ /\ run'[w].job = run[w].job /\ run'[w].window = run[w].window
                   /\ run'[w].found = {} /\ run'[w].todo # {}
                   /\ run'[w].todo \subseteq Items(run[w].job)
                   /\ \A y \in Items(run[w].job) \ run'[w].todo : <<y, run[w].window>> \in daily'
                \/ run'[w].job = "none" /\ Done(daily', run[w].job, run[w].window)
    <2> DEFINE k == run[w].job
               d == run[w].window
               left == run[w].todo \ {x}
               r == [run[w] EXCEPT !.todo = @ \ {x}, !.found = @ \cup {}]
    <2>1. /\ k \in DailyJobs /\ x \in run[w].todo /\ daily' = daily \cup {<<x, d>>}
          /\ run' = [run EXCEPT ![w] = Going(r)] /\ UNCHANGED <<hour, phase, queue, spoilt>>
        BY <1>4 DEF Daily, After, lost
    <2>2. /\ run[w].found = {} /\ run[w].todo \subseteq Items(k)
          /\ \A y \in Items(k) \ run[w].todo : <<y, d>> \in daily
        BY <2>1 DEF WorkInv
    <2>3. r.job = k /\ r.window = d /\ r.todo = left /\ r.found = {}
        BY <1>0, <2>2 DEF Runs
    <2>4. run'[w] = Going(r) /\ \A v \in Containers : v # w => run'[v] = run[v]
        BY <1>0, <2>1
    <2>5. \A y \in Items(k) \ left : <<y, d>> \in daily'
        BY <2>1, <2>2
    <2> HIDE DEF r
    <2>6. CASE left = {}
        <3>1. run'[w] = Idle /\ Idle.job = "none"
            BY <2>3, <2>4, <2>6 DEF Going, Idle
        <3>2. Done(daily', k, d)
            BY <2>5, <2>6 DEF Done
        <3> QED
            BY <2>1, <2>4, <3>1, <3>2
    <2>7. CASE left # {}
        <3>1. run'[w] = r
            BY <2>3, <2>4, <2>7 DEF Going
        <3> QED
            BY <2>1, <2>2, <2>3, <2>4, <2>5, <2>7, <3>1
    <2> QED
        BY <2>6, <2>7
<1> QED
    BY <1>1, <1>2, <1>3, <1>4 DEF Running

\* A run goes on, or is over with all its work done.
LEMMA CountRunning ==
    ASSUME IInv, WorkInv, NEW w \in Containers, Running(w), NEW j \in DailyJobs, NEW d \in Days,
           Cardinality(Containers) <= Chances(hour, phase, queue, run, spoilt, j, d)
    PROVE  \/ Done(daily', j, d)
           \/ Cardinality(Containers) <= Chances(hour', phase', queue', run', spoilt', j, d)
<1> DEFINE n == Cardinality(Containers)
           c == Cardinality(Pending(hour, phase, d))
           b == Cardinality(Busy(run, j, d))
           b1 == Cardinality(Busy(run', j, d))
           u == Waiting(hour, queue, j, d)
           t == spoilt[<<j, d>>]
<1>1. UNCHANGED <<hour, phase, queue, spoilt>> /\ \A v \in Containers : v # w => run'[v] = run[v]
    BY RunningStep
<1>2. u \in Nat /\ t \in Nat /\ c \in Nat /\ b \in Nat /\ b1 \in Nat /\ n \in Nat
    BY StateParts, PartsType
<1>3. b1 + (IF w \in Busy(run, j, d) THEN 1 ELSE 0)
        = b + (IF w \in Busy(run', j, d) THEN 1 ELSE 0)
    BY <1>1, BusyStep
<1>4. n <= c + u + b + t
    BY DEF Chances
<1>5. Chances(hour', phase', queue', run', spoilt', j, d) = c + u + b1 + t
    BY <1>1 DEF Chances
<1>6. CASE w \in Busy(run, j, d) /\ w \notin Busy(run', j, d)
    <2>1. run[w].job = j /\ run[w].window = d /\ ~(run'[w].job = j /\ run'[w].window = d)
        BY <1>6 DEF Busy
    <2>2. Done(daily', j, d)
        BY <2>1, RunningStep
    <2> QED
        BY <2>2
<1>7. CASE w \in Busy(run, j, d) => w \in Busy(run', j, d)
    <2> HIDE DEF n, c, b, b1, u, t
    <2>1. b1 >= b
        BY <1>2, <1>3, <1>7
    <2>2. n <= c + u + b1 + t
        BY <1>2, <1>4, <2>1
    <2> QED
        BY <1>5, <2>2 DEF n
<1> QED
    BY <1>6, <1>7

\* A run that fails, and a beat that ends before its hour, are counted as spoilt.
LEMMA CountDropped ==
    ASSUME IInv, NEW w \in Containers, Fail(w) \/ Replace(w), NEW j \in DailyJobs, NEW d \in Days,
           Cardinality(Containers) <= Chances(hour, phase, queue, run, spoilt, j, d)
    PROVE  Cardinality(Containers) <= Chances(hour', phase', queue', run', spoilt', j, d)
<1> DEFINE n == Cardinality(Containers)
           c == Cardinality(Pending(hour, phase, d))
           c1 == Cardinality(Pending(hour, phase', d))
           b == Cardinality(Busy(run, j, d))
           b1 == Cardinality(Busy(run', j, d))
           u == Waiting(hour, queue, j, d)
           t == spoilt[<<j, d>>]
           was == IF w \in Busy(run, j, d) THEN 1 ELSE 0
           cut == IF Replace(w) /\ Unsent(w) /\ d = Day(hour) THEN 1 ELSE 0
<1>1. /\ hour' = hour /\ run' = [run EXCEPT ![w] = Idle] /\ queue'[j] = queue[j]
      /\ hour \in Nat /\ phase \in [Containers -> OfDay]
    <2>1. queue \in [JobNames -> Nat] /\ phase \in [Containers -> OfDay] /\ hour \in Nat
        BY HourType DEF IInv, TypeOK
    <2> QED
        BY <2>1, JobFacts DEF Fail, Replace, Drop, Send
<1>2. /\ u \in Nat /\ t \in Nat /\ c \in Nat /\ c1 \in Nat /\ b \in Nat /\ b1 \in Nat /\ n \in Nat
      /\ d \in Nat
    BY StateParts, PartsType, DaysType
<1>3. b1 + was = b
    <2>1. run'[w].job = "none" /\ \A v \in Containers : v # w => run'[v] = run[v]
        BY <1>1, IdleRuns DEF IInv
    <2>2. w \notin Busy(run', j, d)
        BY <2>1, JobFacts DEF Busy
    <2>3. b1 + was = b + 0
        BY <2>1, <2>2, BusyStep
    <2> QED
        BY <1>2, <2>3
<1>4. c1 + cut >= c
    <2>1. CASE ~Replace(w)
        <3>1. phase' = phase
            BY <2>1 DEF Fail
        <3>2. c1 = c /\ cut = 0
            BY <2>1, <3>1
        <3> QED
            BY <1>2, <3>2
    <2>2. CASE Replace(w)
        <3>1. phase' = [phase EXCEPT ![w] = hour % DayLen] /\ hour % DayLen \in OfDay
            BY <1>1, <2>2, DayStep DEF Replace
        <3>2. phase'[w] = hour % DayLen /\ \A v \in Containers : v # w => phase'[v] = phase[v]
            BY <1>1, <3>1
        <3>3. ~(hour % DayLen > hour % DayLen)
            BY <3>1, JobsAssumption DEF OfDay
        <3>4. CASE d > Day(hour)
            <4>1. Pending(hour, phase', d) = Pending(hour, phase, d)
                BY <3>4 DEF Pending
            <4> QED
                BY <1>2, <4>1
        <3>5. CASE ~(d > Day(hour))
            <4>1. Pending(hour, phase', d) = Pending(hour, phase, d) \ {w}
                BY <3>2, <3>3, <3>5 DEF Pending
            <4>2. w \in Pending(hour, phase, d) => Unsent(w) /\ d = Day(hour)
                <5>1. phase[w] > hour % DayLen => hour % DayLen < phase[w]
                    BY <1>1, <3>1, JobsAssumption DEF OfDay
                <5> QED
                    BY <3>5, <5>1 DEF Pending, Unsent
            <4>3. c1 + (IF w \in Pending(hour, phase, d) THEN 1 ELSE 0) = c
                <5>1. IsFiniteSet(Pending(hour, phase, d))
                    BY PartsType
                <5> QED
                    BY ONLY <4>1, <5>1, RemoveCard
            <4> QED
                BY <1>2, <2>2, <4>2, <4>3
        <3> QED
            BY <3>4, <3>5
    <2> QED
        BY <2>1, <2>2
<1>5. spoilt'[<<j, d>>] >= t + was + cut
    <2>1. PICK ends \in BOOLEAN : Drop(w, ends) /\ (Replace(w) => ends)
        BY DEF Fail, Replace
    <2>2. spoilt'[<<j, d>>] = t + (IF <<j, d>> = <<run[w].job, run[w].window>> THEN 1 ELSE 0)
                               + (IF ends /\ Unsent(w) /\ d = Day(hour) THEN 1 ELSE 0)
        <3>1. spoilt \in [DailyJobs \X Days -> Nat] /\ <<j, d>> \in DailyJobs \X Days
            BY DEF IInv, TypeOK
        <3> QED
            BY <2>1, <3>1, DropSpoilt
    <2>3. w \in Busy(run, j, d) <=> <<j, d>> = <<run[w].job, run[w].window>>
        BY DEF Busy
    <2> QED
        BY <1>2, <2>1, <2>2, <2>3
<1>6. n <= c + u + b + t
    BY DEF Chances
<1>7. Chances(hour', phase', queue', run', spoilt', j, d) = c1 + u + b1 + spoilt'[<<j, d>>]
    BY <1>1 DEF Chances, Waiting
<1>8. spoilt'[<<j, d>>] \in Nat /\ was \in Nat /\ cut \in Nat
    <2>1. IInv'
        BY InvDropped
    <2> QED
        BY <2>1 DEF IInv, TypeOK
<1> DEFINE t1 == spoilt'[<<j, d>>]
<1>9. t1 \in Nat /\ t1 >= t + was + cut
    BY <1>5, <1>8
<1> HIDE DEF n, c, c1, b, b1, u, t, was, cut, t1
<1>10. n <= c1 + u + b1 + t1
    BY ONLY <1>2, <1>3, <1>4, <1>6, <1>8, <1>9
<1> QED
    BY <1>7, <1>10 DEF n, t1

\* The states before anything is sent have all to come.
LEMMA CountInit == Init => CountInv /\ WorkInv
<1> SUFFICES ASSUME Init PROVE CountInv /\ WorkInv
    OBVIOUS
<1>1. /\ hour = 0 /\ phase \in [Containers -> OfDay] /\ \A w \in Containers : run[w] = Idle
      /\ spoilt = [t \in DailyJobs \X Days |-> 0]
    BY DEF Init
<1>2. WorkInv
    BY <1>1, JobFacts DEF WorkInv, Idle
<1>3. ASSUME NEW j \in DailyJobs, NEW d \in Days
      PROVE  Cardinality(Containers) <= Chances(hour, phase, queue, run, spoilt, j, d)
    <2> DEFINE n == Cardinality(Containers)
               c == Cardinality(Pending(0, phase, d))
               b == Cardinality(Busy(run, j, d))
               sent == Sending(0)
               S == {w \in Containers : phase[w] = 0 % DayLen}
    <2>1. c \in Nat /\ b \in Nat /\ n \in Nat /\ sent \in Nat /\ d \in Nat
        BY PartsType, SendingType, DaysType
    <2>2. queue[j] = sent /\ spoilt[<<j, d>>] = 0
        BY <1>1, JobFacts DEF Init
    <2>3. Day(0) = 0 /\ 0 % DayLen = 0
        <3>1. DayLen \in Nat /\ DayLen >= 1
            BY JobsAssumption
        <3>2. Day(0) \in 0..0
            BY DayBound
        <3>3. 0 % DayLen = 0
            BY <3>1
        <3> QED
            BY <3>2, <3>3
    <2>4. CASE d = 0
        <3>1. Containers = Pending(0, phase, d) \cup S /\ Pending(0, phase, d) \cap S = {}
            <4>1. DayLen \in Nat /\ \A w \in Containers : phase[w] \in 0..DayLen - 1
                BY <1>1, JobsAssumption DEF OfDay
            <4>2. \A w \in Containers : (phase[w] > 0 \/ phase[w] = 0) /\ ~(phase[w] > 0 /\ phase[w] = 0)
                BY <4>1
            <4> QED
                BY <2>3, <2>4, <4>2 DEF Pending
        <3>2. IsFiniteSet(Containers) /\ sent = Cardinality(S)
            BY JobsAssumption DEF Sending
        <3> HIDE DEF S
        <3>3. n = c + sent
            BY ONLY <3>1, <3>2, SplitCard
        <3>4. Chances(hour, phase, queue, run, spoilt, j, d) = c + sent + b + 0
            BY <1>1, <2>2, <2>3, <2>4 DEF Chances, Waiting
        <3> HIDE DEF n, c, b, sent
        <3>5. n <= c + sent + b + 0
            BY <2>1, <3>3
        <3> QED
            BY <3>4, <3>5 DEF n
    <2>5. CASE d # 0
        <3>1. Pending(0, phase, d) = Containers
            BY <2>1, <2>3, <2>5 DEF Pending
        <3>2. Chances(hour, phase, queue, run, spoilt, j, d) = n + 0 + b + 0
            BY <1>1, <2>2, <2>3, <2>5, <3>1 DEF Chances, Waiting
        <3> QED
            BY <2>1, <3>2
    <2> QED
        BY <2>4, <2>5
<1> QED
    BY <1>2, <1>3 DEF CountInv

\* A daily run that is taken has all its work before it.
LEMMA WorkStart ==
    ASSUME IInv, WorkInv, NEW w \in Containers, NEW k \in JobNames, Start(w, k)
    PROVE  WorkInv'
<1> DEFINE r == [job |-> k, window |-> Window(k), todo |-> Work(k), found |-> {}]
<1>1. run' = [run EXCEPT ![w] = Going(r)] /\ daily' = daily /\ run \in [Containers -> Runs]
    BY DEF Start, records, IInv
<1>2. run'[w] = Going(r) /\ \A v \in Containers : v # w => run'[v] = run[v]
    BY <1>1
<1>3. r.job = k /\ r.todo = Work(k) /\ r.found = {}
    OBVIOUS
<1>4. k \in DailyJobs => Work(k) = Items(k)
    BY JobFacts, JobsAssumption DEF Work, Items
<1> HIDE DEF r
<1>5. CASE Work(k) = {}
    BY <1>1, <1>2, <1>3, <1>5, JobFacts DEF WorkInv, Going, Idle
<1>6. CASE Work(k) # {}
    <2>1. run'[w] = r
        BY <1>2, <1>3, <1>6 DEF Going
    <2>2. run'[w].job \in DailyJobs =>
              /\ run'[w].found = {} /\ run'[w].todo # {} /\ run'[w].todo \subseteq Items(run'[w].job)
              /\ \A x \in Items(run'[w].job) \ run'[w].todo : <<x, run'[w].window>> \in daily'
        BY <1>3, <1>4, <1>6, <2>1
    <2> QED
        BY <1>1, <1>2, <2>2 DEF WorkInv
<1> QED
    BY <1>5, <1>6

\* A run that goes on has done what it no longer has to do.
LEMMA WorkRunning ==
    ASSUME IInv, WorkInv, NEW w \in Containers, Running(w)
    PROVE  WorkInv'
<1> SUFFICES ASSUME NEW v \in Containers, run'[v].job \in DailyJobs
             PROVE  /\ run'[v].found = {} /\ run'[v].todo # {}
                    /\ run'[v].todo \subseteq Items(run'[v].job)
                    /\ \A x \in Items(run'[v].job) \ run'[v].todo :
                          <<x, run'[v].window>> \in daily'
    BY DEF WorkInv
<1>1. CASE v # w
    BY <1>1, RunningStep DEF WorkInv
<1>2. CASE v = w
    <2>1. run[w].job \in DailyJobs /\ run'[w].job # "none"
        BY <1>2, RunningStep, JobFacts
    <2> QED
        BY <1>2, <2>1, RunningStep
<1> QED
    BY <1>1, <1>2

\* What leaves the hour, the beats, the daily jobs' tasks and the runs alone.
LEMMA CountKept ==
    ASSUME CountInv, WorkInv, UNCHANGED <<hour, phase, run, daily, spoilt>>,
           \A j \in DailyJobs : queue'[j] = queue[j]
    PROVE  CountInv' /\ WorkInv'
<1>1. WorkInv'
    BY DEF WorkInv
<1>2. \A j \in DailyJobs, d \in Days :
          Chances(hour', phase', queue', run', spoilt', j, d)
            = Chances(hour, phase, queue, run, spoilt, j, d)
    BY DEF Chances, Waiting
<1> QED
    BY <1>1, <1>2 DEF CountInv

\* Every step keeps the count.
LEMMA CountNext == IInv /\ CountInv /\ WorkInv /\ [Next]_vars => CountInv' /\ WorkInv'
<1> SUFFICES ASSUME IInv, CountInv, WorkInv, [Next]_vars PROVE CountInv' /\ WorkInv'
    OBVIOUS
<1>1. CASE Tick
    <2>1. WorkInv'
        BY <1>1 DEF Tick, records, WorkInv
    <2>2. daily' = daily
        BY <1>1 DEF Tick, records
    <2> QED
        BY <1>1, <2>1, <2>2, CountTick DEF CountInv
<1>2. ASSUME NEW f \in Files, GoStale(f) PROVE CountInv' /\ WorkInv'
    BY <1>2, CountKept DEF GoStale, records, lost
<1>3. ASSUME NEW k \in JobNames, Beat(k) PROVE CountInv' /\ WorkInv'
    <2>1. \A j \in DailyJobs : queue'[j] = queue[j]
        BY <1>3, JobFacts DEF Beat, Send, IInv, TypeOK
    <2> QED
        BY <1>3, <2>1, CountKept DEF Beat, records, lost
<1>4. CASE UNCHANGED vars
    BY <1>4, CountKept DEF vars, records, lost
<1>5. ASSUME NEW w \in Containers, NEW k \in JobNames, Start(w, k) PROVE CountInv' /\ WorkInv'
    <2>1. daily' = daily
        BY <1>5 DEF Start, records
    <2> QED
        BY <1>5, <2>1, CountStart, WorkStart DEF CountInv
<1>6. ASSUME NEW w \in Containers, Running(w) PROVE CountInv' /\ WorkInv'
    <2>1. daily \subseteq daily'
        BY <1>6, RunningStep
    <2>2. \A j \in DailyJobs, d \in Days : Done(daily, j, d) => Done(daily', j, d)
        BY <2>1 DEF Done
    <2> QED
        BY <1>6, <2>2, CountRunning, WorkRunning DEF CountInv
<1>7. ASSUME NEW w \in Containers, Fail(w) \/ Replace(w) PROVE CountInv' /\ WorkInv'
    <2>1. daily' = daily /\ run' = [run EXCEPT ![w] = Idle] /\ run \in [Containers -> Runs]
        BY <1>7 DEF Fail, Replace, Drop, records, IInv
    <2>2. run'[w].job = "none" /\ \A v \in Containers : v # w => run'[v] = run[v]
        BY <2>1, IdleRuns
    <2>3. WorkInv'
        BY <2>1, <2>2, JobFacts DEF WorkInv
    <2> QED
        BY <1>7, <2>1, <2>3, CountDropped DEF CountInv
<1> QED
    BY <1>1, <1>2, <1>3, <1>4, <1>5, <1>6, <1>7 DEF Next

\* When all of a day's runs are over or spoilt, none is left but the spoilt ones.
LEMMA CountSettled ==
    ASSUME IInv, CountInv, NEW j \in DailyJobs, NEW d \in Days, Settled(j, d)
    PROVE  spoilt[<<j, d>>] >= Cardinality(Containers) \/ Done(daily, j, d)
<1>1. hour \in Nat /\ d \in Nat /\ DayLen \in Nat /\ DayLen >= 1 /\ phase \in [Containers -> OfDay]
    BY HourType, DaysType, JobsAssumption DEF IInv, TypeOK
<1>2. Busy(run, j, d) = {}
    BY DEF Settled, Busy
<1>3. Waiting(hour, queue, j, d) = 0
    BY DEF Settled, Waiting
<1>4. Pending(hour, phase, d) = {}
    <2> DEFINE q == hour \div DayLen
               r == hour % DayLen
    <2>1. q \in Nat /\ r \in 0..DayLen - 1 /\ hour = DayLen * q + r
        BY <1>1
    <2>2. hour >= d * DayLen + DayLen - 1
        BY DEF Settled
    <2>3. Day(hour) = q
        BY DEF Day
    <2> HIDE DEF q, r
    <2>4. DayLen * (d - q) <= r + 1 - DayLen
        BY <1>1, <2>1, <2>2
    <2>5. d <= q
        <3>1. CASE d - q >= 1
            <4>1. DayLen * (d - q) >= DayLen
                BY <1>1, <2>1, <3>1
            <4> QED
                BY <1>1, <2>1, <2>4, <4>1
        <3> QED
            BY <1>1, <2>1, <3>1
    <2>6. d = q => r = DayLen - 1
        BY <1>1, <2>1, <2>4
    <2>7. CASE d = q
        BY <1>1, <2>3, <2>6, <2>7, PendingStep DEF r
    <2>8. CASE d # q
        BY <1>1, <2>1, <2>3, <2>5, <2>8 DEF Pending
    <2> QED
        BY <2>7, <2>8
<1>5. Cardinality(Pending(hour, phase, d)) = 0 /\ Cardinality(Busy(run, j, d)) = 0
    BY <1>2, <1>4, FS_EmptySet
<1>6. spoilt[<<j, d>>] \in Nat /\ Cardinality(Containers) \in Nat
    BY StateParts, PartsType
<1>7. Chances(hour, phase, queue, run, spoilt, j, d) = 0 + 0 + 0 + spoilt[<<j, d>>]
    BY <1>3, <1>5 DEF Chances
<1> QED
    BY <1>6, <1>7 DEF CountInv

-----------------------------------------------------------------------------
(* Theorems.                                                                *)

\* The queue, the runs and the tables keep their shape, for any number of containers.
THEOREM TypeCorrect == Spec => []TypeOK
<1>1. IInv => TypeOK
    BY DEF IInv
<1> QED
    BY <1>1, InvInit, InvNext, PTL DEF Spec

\* No anomaly is in two alarms, however many containers score an hour at once: who
\* inserts its row alarms (run_detection).
THEOREM NeverAlarmedTwice == Spec => []AlarmedOnce
<1>1. IInv => AlarmedOnce
    BY DEF IInv, FoundInv
<1> QED
    BY <1>1, InvInit, InvNext, PTL DEF Spec

\* The anomalies in the table are those told, those in the hands of a run, and those whose
\* run failed after it had found them; and none of the last is ever told.
THEOREM SilenceHasACause == Spec => []AnomaliesAccounted
<1>1. IInv => AnomaliesAccounted
    <2> SUFFICES ASSUME IInv PROVE AnomaliesAccounted
        OBVIOUS
    <2> DEFINE inHand == UNION {run[w].found : w \in Containers}
    <2>1. inHand \subseteq anomalies
        BY DEF IInv, FoundInv
    <2>2. anomalies \subseteq alarmed \cup dropped \cup inHand
        BY DEF IInv, RowsInv
    <2>3. alarmed \cup dropped \subseteq anomalies
        BY DEF IInv, TypeOK
    <2>4. dropped \cap alarmed = {}
        BY DEF IInv, RowsInv
    <2> HIDE DEF inHand
    <2>5. anomalies = alarmed \cup dropped \cup inHand
        BY <2>1, <2>2, <2>3
    <2> QED
        BY <2>4, <2>5 DEF AnomaliesAccounted, inHand
<1> QED
    BY <1>1, InvInit, InvNext, PTL DEF Spec

\* The insights or the dumps of a day are missing only if every container's run of the job
\* came to nothing: it failed, waited past midnight, or its container was replaced before it
\* was sent.  Beats send one a day, and nothing tries it again.
THEOREM MissedDaysExplained == Spec => []MissedDaysHaveCauses
<1>1. IInv /\ CountInv => MissedDaysHaveCauses
    BY CountSettled DEF MissedDaysHaveCauses, Done
<1>2. Init => IInv /\ CountInv /\ WorkInv
    BY InvInit, CountInit
<1>3. IInv /\ CountInv /\ WorkInv /\ [Next]_vars => (IInv /\ CountInv /\ WorkInv)'
    BY InvNext, CountNext
<1> QED
    BY <1>1, <1>2, <1>3, PTL DEF Spec

=============================================================================
