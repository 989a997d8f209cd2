------------------------------- MODULE Query --------------------------------
(***************************************************************************)
(* The query surface (oriflux/query and the handlers of oriflux/api that   *)
(* read ClickHouse): the registry of metrics and dimensions, what a        *)
(* request may ask for, what the SQL that it compiles to answers, funnels, *)
(* retention, goals, comparisons, shared dashboards and the live map.      *)
(*                                                                         *)
(* The tables collapse copies of a row when they are merged, some day, and *)
(* a SELECT with FINAL does it at once.  A request reads a row or not;     *)
(* one that takes several SELECTs sees the table change between them.      *)
(*                                                                         *)
(* "/" begins every path of the model, and no other path begins another.   *)
(* Of the metrics those are left out that differ from one of these in a    *)
(* fragment only, and the quantiles.                                       *)
(***************************************************************************)
EXTENDS Integers, Sequences, FiniteSets, FiniteSetsExt

CONSTANTS Rows,       \* rows that may be stored, of both tables
          None,       \* no session, user, visitor or bucket
          DayLen,     \* units of time in a day
          WeekLen,    \* and in a week
          Periods,    \* the periods asked for: records with a start and an end
          Funnels,    \* the funnels asked for
          Goals,      \* conversion goals of the projects
          Sockets,    \* browsers that may watch the live map of an organization
          MaxCopies,  \* bound on the copies of a row
          MaxRows     \* bound on the rows stored, copies included

Orgs     == {r.org : r \in Rows}
Projects == {r.project : r \in Rows}
Shares   == {[org |-> r.org, project |-> r.project] : r \in Rows}

ASSUME QueryAssumption ==
    /\ DayLen \in Nat \ {0} /\ WeekLen \in Nat \ {0}
    /\ MaxCopies \in Nat /\ MaxRows \in Nat /\ IsFiniteSet(Rows)
    /\ \A r \in Rows : r.at \in Nat /\ r.value \in Int
    /\ \A p \in Periods : p \in [start : Nat, end : Nat] /\ p.start < p.end
    /\ \A f \in Funnels : Len(f.steps) \in 2..8

VARIABLES
    table,   \* copies of each row in ClickHouse
    rate,    \* the goal whose rate is being worked out, the visitors read so far,
             \* and the percentage answered
    sockets, \* those connected to the hub of the live map
    hub      \* its broadcaster: where it is, and those still to be sent to

live == <<sockets, hub>>
vars == <<table, rate, live>>

-----------------------------------------------------------------------------
(* The registry.                                                            *)

DIMENSIONS ==
    [project_id |-> [sql |-> "project", sources |-> {"events", "api"}],
     page       |-> [sql |-> "path",    sources |-> {"events"}],
     event_name |-> [sql |-> "name",    sources |-> {"events"}],
     endpoint   |-> [sql |-> "path",    sources |-> {"api"}]]

METRICS ==
    [pageviews             |-> [shape |-> "event",   sql |-> "count",   of |-> "pageviews"],
     visitors              |-> [shape |-> "event",   sql |-> "uniq",    of |-> "pageviews"],
     sessions              |-> [shape |-> "session", sql |-> "count",   of |-> "pageviews"],
     bounce_rate           |-> [shape |-> "session", sql |-> "bounces", of |-> "pageviews"],
     session_duration      |-> [shape |-> "session", sql |-> "average", of |-> "pageviews"],
     custom_events         |-> [shape |-> "event",   sql |-> "count",   of |-> "others"],
     custom_event_visitors |-> [shape |-> "event",   sql |-> "uniq",    of |-> "others"],
     revenue               |-> [shape |-> "event",   sql |-> "sum",     of |-> "revenue"],
     api_requests          |-> [shape |-> "api",     sql |-> "sum",     of |-> "all"]]

Source(metric) == IF METRICS[metric].shape = "api" THEN "api" ELSE "events"

EventFilter(of, name) ==
    \/ of = "all"
    \/ of = "pageviews" /\ name = "pageview"
    \/ of = "others" /\ name # "pageview"
    \/ of = "revenue" /\ name = "revenue"

PUBLIC_METRICS == {"visitors", "pageviews", "sessions", "bounce_rate", "session_duration"}
PUBLIC_DIMENSIONS == {"page"}

-----------------------------------------------------------------------------
(* Requests.                                                                *)

StartsWith(path, prefix) == prefix = "/" \/ path = prefix

\* Every dimension, of the breakdown and of the filters, is one of the metric's table.
Valid(q) ==
    \A d \in q.dimensions \cup {f.dimension : f \in q.filters} :
        Source(q.metric) \in DIMENSIONS[d].sources

\* Values are sets, of one value but for "in".
Filters ==
    [dimension : {"project_id"}, op : {"eq", "neq"}, value : {{p} : p \in Projects}]
        \cup [dimension : {"page"}, op : {"prefix"}, value : {{"/"}, {"/buy"}}]
        \cup [dimension : {"event_name"}, op : {"in"}, value : {{"signup", "revenue"}}]

Requests ==
    {q \in [metric : DOMAIN METRICS, dimensions : {{}, {"page"}, {"endpoint"}},
            filters : {{}} \cup {{f} : f \in Filters},
            granularity : {None, "day"}, period : Periods] : Valid(q)}

\* replace(year - 1), and 28 February for the 29th: t is a day of a leap year, counted
\* from its first, yearLen the length of the year before, leapDay the number of the 29th.
YearBack(t, yearLen, leapDay) == IF t < leapDay THEN t - yearLen ELSE t - 1 - yearLen

PreviousPeriod(p) == [start |-> p.start - (p.end - p.start), end |-> p.start]

PreviousYear(p, yearLen, leapDay) ==
    [start |-> YearBack(p.start, yearLen, leapDay), end |-> YearBack(p.end, yearLen, leapDay)]

-----------------------------------------------------------------------------
(* What the SQL answers, in org o and table t.                              *)

Final(t) == {r \in Rows : t[r] > 0}

In(p, r) == p.start <= r.at /\ r.at < p.end

Matches(f, r) ==
    LET v == r[DIMENSIONS[f.dimension].sql]
    IN  CASE f.op \in {"eq", "in"} -> v \in f.value
          [] f.op = "neq"         -> v \notin f.value
          [] f.op = "prefix"      -> \E x \in f.value : StartsWith(v, x)

\* Slip: the filters of a request replace the organization's.
WhereUnscoped(q, o, r) ==
    /\ r.table = Source(q.metric) /\ In(q.period, r)
    /\ EventFilter(METRICS[q.metric].of, r.name)
    /\ IF q.filters = {} THEN r.org = o ELSE \A f \in q.filters : Matches(f, r)

Where(q, o, r) ==
    /\ r.table = Source(q.metric) /\ r.org = o /\ In(q.period, r)
    /\ EventFilter(METRICS[q.metric].of, r.name)
    /\ \A f \in q.filters : Matches(f, r)

Read(q, o, t) == {r \in Final(t) : Where(q, o, r)}

Columns(q, r) == [d \in q.dimensions |-> r[DIMENSIONS[d].sql]]

\* What is aggregated: rows, or sessions, which are placed at their first row and
\* have the columns of any of their rows.
Session(q, rows) ==
    [at |-> Min({r.at : r \in rows}), by |-> Columns(q, CHOOSE r \in rows : TRUE),
     views |-> Cardinality(rows), lasts |-> Max({r.at : r \in rows}) - Min({r.at : r \in rows}),
     id |-> (CHOOSE r \in rows : TRUE).session]

\* Slip: a series groups its sessions by day before it places them.
AggregatedByDay(q, rows) ==
    IF METRICS[q.metric].shape = "session"
    THEN LET Of(r) == IF q.granularity = None THEN <<r.session>> ELSE <<r.session, r.at \div DayLen>>
             sessions == {r \in rows : r.session # None}
         IN  {Session(q, {r \in sessions : Of(r) = k}) : k \in {Of(r) : r \in sessions}}
    ELSE {[at |-> r.at, by |-> Columns(q, r), visitor |-> r.visitor, value |-> r.value,
           id |-> r] : r \in rows}

Aggregated(q, rows) ==
    IF METRICS[q.metric].shape = "session"
    THEN {Session(q, {r \in rows : r.session = s}) : s \in {r.session : r \in rows} \ {None}}
    ELSE {[at |-> r.at, by |-> Columns(q, r), visitor |-> r.visitor, value |-> r.value,
           id |-> r] : r \in rows}

Value(sql, xs) ==
    CASE sql = "count"   -> Cardinality(xs)
      [] sql = "uniq"    -> Cardinality({x.visitor : x \in xs})
      [] sql = "sum"     -> SumFunctionOnSet([x \in xs |-> x.value], xs)
      [] sql = "bounces" -> IF xs = {} THEN 0
                            ELSE (100 * Cardinality({x \in xs : x.views = 1})) \div Cardinality(xs)
      [] sql = "average" -> IF xs = {} THEN 0
                            ELSE MapThenSumSet(LAMBDA x : x.lasts, xs) \div Cardinality(xs)

Group(q, x) ==
    [bucket |-> IF q.granularity = None THEN None ELSE x.at \div DayLen, by |-> x.by]

\* SELECT ... GROUP BY; without groups there is one line, even of no rows.
Lines(q, rows) ==
    LET xs     == Aggregated(q, rows)
        groups == IF q.granularity = None /\ q.dimensions = {}
                  THEN {[bucket |-> None, by |-> <<>>]}
                  ELSE {Group(q, x) : x \in xs}
    IN  [g \in groups |-> Value(METRICS[q.metric].sql, {x \in xs : Group(q, x) = g})]

\* Slip: the copies that are not merged yet are counted.
ResultWithCopies(q, o, t) ==
    LET rows == Read(q, o, t)
        more == MapThenSumSet(LAMBDA r : t[r] - 1, rows)
    IN  [g \in DOMAIN Lines(q, rows) |-> Lines(q, rows)[g] + more]

Result(q, o, t) == Lines(q, Read(q, o, t))

Scalar(metric, filters, p, o, t) ==
    Value(METRICS[metric].sql,
          LET q == [metric |-> metric, dimensions |-> {}, filters |-> filters,
                    granularity |-> None, period |-> p]
          IN  Aggregated(q, Read(q, o, t)))

OfProject(p) == [dimension |-> "project_id", op |-> "eq", value |-> {p}]

-----------------------------------------------------------------------------
(* Funnels and retention: FROM events, copies included; retention counts    *)
(* distinct users.  A project or a segment of theirs filters or groups as    *)
(* above, and is left out.                                                   *)

Meets(step, r) ==
    IF step.kind = "event" THEN r.name = step.target ELSE StartsWith(r.path, step.target)

Key(f, r) == IF f.scope = "session" THEN r.session ELSE r.user

\* windowFunnel: how many steps in a row the copies xs meet, one copy a step.
Level(f, xs) ==
    Max({n \in 0..Len(f.steps) :
           n = 0 \/ \E c \in [1..n -> xs] :
               /\ \A i, j \in 1..n : i < j => c[i] # c[j] /\ c[i][1].at <= c[j][1].at
               /\ \A i \in 1..n : Meets(f.steps[i], c[i][1])
               /\ c[n][1].at - c[1][1].at <= f.window})

Funnel(f, o, t) ==
    LET xs == {x \in Rows \X (1..MaxCopies) :
                  /\ x[2] <= t[x[1]] /\ x[1].table = "events" /\ x[1].org = o
                  /\ In(f.period, x[1]) /\ Key(f, x[1]) # None
                  /\ \E i \in 1..Len(f.steps) : Meets(f.steps[i], x[1])}
        Of(k) == {x \in xs : Key(f, x[1]) = k}
    IN  [i \in 1..Len(f.steps) |->
            Cardinality({k \in {Key(f, x[1]) : x \in xs} : Level(f, Of(k)) >= i})]

Week(r) == r.at \div WeekLen

\* Users of each cohort (the week of the first activation) by the weeks since.
Retention(activation, p, o, t) ==
    LET rows    == {r \in Final(t) : r.table = "events" /\ r.org = o /\ In(p, r) /\ r.user # None}
        first   == [u \in {r.user : r \in {x \in rows : x.name = activation}} |->
                       Min({Week(r) : r \in {x \in rows : x.user = u /\ x.name = activation}})]
        Back(c, n) == {u \in DOMAIN first : first[u] = c /\ \E r \in rows : r.user = u /\ Week(r) = c + n}
    IN  [x \in {first[u] : u \in DOMAIN first} \X (0..Max({0} \cup {Week(r) : r \in rows})) |->
            Cardinality(Back(x[1], x[2]))]

-----------------------------------------------------------------------------
(* Handlers.                                                                *)

IsPublic(q) ==
    /\ q.metric \in PUBLIC_METRICS
    /\ q.dimensions \cup {f.dimension : f \in q.filters} \subseteq PUBLIC_DIMENSIONS

\* What a share of project p of org o answers.
PublicQuery(q, o, p, t) ==
    IF IsPublic(q) THEN Result([q EXCEPT !.filters = @ \cup {OfProject(p)}], o, t) ELSE "refused"

\* get_overview, and the tiles that the live map is sent.
Overview(o, p, period, t) ==
    [m \in DOMAIN METRICS |-> Scalar(m, {OfProject(p)}, period, o, t)]

\* get_api_health: a number for the whole and one for each endpoint.
ApiHealth(o, p, period, t) ==
    [requests  |-> Scalar("api_requests", {OfProject(p)}, period, o, t),
     endpoints |-> Result([metric |-> "api_requests", dimensions |-> {"endpoint"},
                           filters |-> {OfProject(p)}, granularity |-> None,
                           period |-> period], o, t)]

\* query, compare_to "previous_period": the same request, of another period.
Compared(q, o, t) ==
    [results    |-> Result(q, o, t),
     comparison |-> Result([q EXCEPT !.period = PreviousPeriod(@)], o, t)]

Converting(g, p, t) ==
    IF g.kind = "event"
    THEN Scalar("custom_event_visitors",
                {OfProject(g.project), [dimension |-> "event_name", op |-> "eq", value |-> {g.target}]},
                p, g.org, t)
    ELSE Scalar("visitors",
                {OfProject(g.project), [dimension |-> "page", op |-> "prefix", value |-> {g.target}]},
                p, g.org, t)

\* Slip: visitors who convert are taken for some of those who view.
PercentUncapped(converting, visitors) ==
    IF visitors = 0 THEN 0 ELSE (100 * converting) \div visitors

Percent(converting, visitors) ==
    IF visitors = 0 THEN 0
    ELSE (100 * (IF converting < visitors THEN converting ELSE visitors)) \div visitors

NoRate == [goal |-> None, visitors |-> 0, percent |-> 0]

Init ==
    /\ table = [r \in Rows |-> 0]
    /\ rate = NoRate
    /\ sockets = {} /\ hub = [at |-> "none", to |-> {}]

\* list_goals reads the visitors, and for each goal those who convert, later.
ReadVisitors(g, p) ==
    /\ rate = NoRate
    /\ rate' = [goal |-> [of |-> g, period |-> p], percent |-> 0,
                visitors |-> Scalar("visitors", {OfProject(g.project)}, p, g.org, table)]
    /\ UNCHANGED <<table, live>>

ReadConverting ==
    /\ rate.goal # None
    /\ rate' = [NoRate EXCEPT !.percent =
                   Percent(Converting(rate.goal.of, rate.goal.period, table), rate.visitors)]
    /\ UNCHANGED <<table, live>>

Reset == rate # NoRate /\ rate.goal = None /\ rate' = NoRate /\ UNCHANGED <<table, live>>

-----------------------------------------------------------------------------
(* The live map (LiveHub): the steps of one event loop, from one await to   *)
(* the next.                                                                *)

Hub(at, to) == hub' = [at |-> at, to |-> to] /\ UNCHANGED <<table, rate>>

\* Slip: a broadcaster that has ended is not started again.
Startable == hub.at = "none"

\* No broadcaster, or one that is done, if only by an exception.
Unattended == hub.at \in {"none", "ended", "died"}

Connect(w) ==
    /\ w \notin sockets
    /\ sockets' = sockets \cup {w}
    /\ IF Unattended THEN Hub("starting", {}) ELSE Hub(hub.at, hub.to)

Disconnect(w) ==
    /\ w \in sockets
    /\ sockets' = sockets \ {w}
    /\ Hub(hub.at, hub.to)

\* The loop goes on while there are sockets; nothing catches a failure before it.
Loop == IF sockets = {} THEN Hub("ended", {}) ELSE Hub("reading", {})

BroadcastStarts ==
    /\ hub.at = "starting"
    /\ Loop \/ Hub("died", {})
    /\ UNCHANGED sockets

\* The payload is computed in a thread, or its queries fail, and the tick is over.
BroadcastReads ==
    /\ hub.at = "reading"
    /\ Hub("sending", sockets) \/ Hub("sleeping", {})
    /\ UNCHANGED sockets

\* Each of the sockets there were gets it; one that cannot is disconnected.
BroadcastSends(w) ==
    /\ w \in hub.to
    /\ Hub(hub.at, hub.to \ {w})
    /\ sockets' \in {sockets, sockets \ {w}}

BroadcastSleeps ==
    /\ hub.at = "sending" /\ hub.to = {}
    /\ Hub("sleeping", {})
    /\ UNCHANGED sockets

BroadcastWakes ==
    /\ hub.at = "sleeping"
    /\ Loop
    /\ UNCHANGED sockets

Live ==
    \/ \E w \in Sockets : Connect(w) \/ Disconnect(w) \/ BroadcastSends(w)
    \/ BroadcastStarts \/ BroadcastReads \/ BroadcastSleeps \/ BroadcastWakes

-----------------------------------------------------------------------------
\* A row is inserted, once more if its entry was delivered twice.
Store(r) ==
    /\ table[r] < MaxCopies
    /\ MapThenSumSet(LAMBDA x : table[x], Rows) < MaxRows
    /\ table' = [table EXCEPT ![r] = @ + 1]
    /\ UNCHANGED <<rate, live>>

\* ReplacingMergeTree, when it likes.
Merge(r) ==
    /\ table[r] > 1
    /\ table' = [table EXCEPT ![r] = 1]
    /\ UNCHANGED <<rate, live>>

Next ==
    \/ \E r \in Rows : Store(r) \/ Merge(r)
    \/ \E g \in Goals, p \in Periods : ReadVisitors(g, p)
    \/ ReadConverting \/ Reset
    \/ Live

Spec == Init /\ [][Next]_vars

-----------------------------------------------------------------------------
(* Properties.  Those of the answers are about the table, and look at it when *)
(* nothing else goes on.                                                     *)

AtRest    == rate = NoRate /\ sockets = {} /\ hub.at = "none"
Once(t)   == [r \in Rows |-> IF t[r] > 0 THEN 1 ELSE 0]
Only(t, S) == [r \in Rows |-> IF r \in S THEN t[r] ELSE 0]
Sum(lines) == SumFunctionOnSet(lines, DOMAIN lines)
Whole(q)   == [q EXCEPT !.granularity = None, !.dimensions = {}]
Additive   == {"pageviews", "custom_events", "revenue", "api_requests"}

\* No row meets two steps of the funnel.
Apart(f) ==
    \A r \in Rows, i, j \in 1..Len(f.steps) : i # j => ~(Meets(f.steps[i], r) /\ Meets(f.steps[j], r))

\* Type invariant; the rate of a goal is at most 100 %, though its visitors are counted
\* before those who convert, and some may convert who were not seen to view a page.
TypeOK ==
    /\ table \in [Rows -> 0..MaxCopies]
    /\ rate.percent \in 0..100
    /\ hub.to \subseteq Sockets /\ (hub.to # {} => hub.at = "sending")

\* What an organization asks is answered from its own rows, and what a share answers,
\* the overview and the health of an API from its project's, whatever the filters.
ScopesHold ==
    AtRest =>
        /\ \A q \in Requests, o \in Orgs :
               Result(q, o, table) = Result(q, o, Only(table, {r \in Rows : r.org = o}))
        /\ \A q \in {x \in Requests : IsPublic(x)}, s \in Shares :
               PublicQuery(q, s.org, s.project, table) =
                   PublicQuery(q, s.org, s.project, Only(table, {r \in Rows : r.project = s.project}))
        /\ \A p \in Periods, s \in Shares :
               LET own == Only(table, {r \in Rows : r.project = s.project})
               IN  /\ Overview(s.org, s.project, p, table) = Overview(s.org, s.project, p, own)
                   /\ ApiHealth(s.org, s.project, p, table) = ApiHealth(s.org, s.project, p, own)

\* "At-least-once delivery upstream, exactly-once counts downstream" (clickhouse.py): a
\* copy of a row changes no answer, and no funnel unless one row can meet two of its steps.
CopiesDoNotCount ==
    AtRest => \A o \in Orgs :
        /\ \A q \in Requests : Result(q, o, table) = Result(q, o, Once(table))
        /\ \A f \in Funnels : Apart(f) => Funnel(f, o, table) = Funnel(f, o, Once(table))

\* The lines of a breakdown and the days of a series add up to the whole, sessions that
\* last over midnight included; a period and the one it is compared with to both; and
\* the cohorts of a retention to those who were activated.
AnswersAddUp ==
    AtRest => \A q \in Requests, o \in Orgs :
        /\ q.metric \in Additive \cup {"sessions"} =>
               Sum(Result(q, o, table)) = Sum(Result(Whole(q), o, table))
        /\ q.metric \in Additive /\ q = Whole(q) =>
               LET both == Compared(q, o, table)
                   from == PreviousPeriod(q.period).start
               IN  Sum(both.results) + Sum(both.comparison) =
                   Sum(Result([q EXCEPT !.period.start = from], o, table))
        /\ q = Whole(q) /\ q.metric = "custom_events" /\ q.filters = {} =>
               LET cohorts == Retention("signup", q.period, o, table)
               IN  SumFunctionOnSet(cohorts, {x \in DOMAIN cohorts : x[2] = 0}) =
                   Cardinality({r.user : r \in {x \in Read(q, o, table) : x.name = "signup"}}
                                   \ {None})

\* "One broadcaster task per org while sockets exist" (live.py): whoever is connected is
\* attended to, unless the broadcaster died before its loop.
SocketsAreServed == sockets # {} => hub.at \notin {"none", "ended"}

=============================================================================
