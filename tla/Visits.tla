------------------------------- MODULE Visits -------------------------------
(***************************************************************************)
(* What the collection endpoint does to a request once it is admitted and  *)
(* metered (collect in oriflux/ingest/main.py): the daily salt and hash of *)
(* the visitor, the session and the user bound to it, the cadence of the   *)
(* visitor, the event to publish (oriflux/enrichment/).                    *)
(*                                                                         *)
(* All of it lives in Redis keys with a time to live, read and written one *)
(* command at a time by the requests of several processes.  A request is a *)
(* record of what it has read, and at its end it is the event.  Time is    *)
(* counted in ticks, of which a day has DayLen.                            *)
(***************************************************************************)
EXTENDS Integers, FiniteSets

CONSTANTS Visitors,       \* an address with a user agent, on one project
          Users,          \* pseudonymous user ids
          None,           \* no value
          Processes,      \* replicas of the ingest service
          Ahead,          \* those whose clock is a tick ahead
          Requests,       \* requests served at a time
          DayLen,         \* ticks in a day
          SaltTTL,        \* 26 hours
          SessionGap,     \* 30 minutes
          CadenceWindow,  \* 60 seconds
          CadenceLimit,   \* events in a window that are still a person's
          MaxDelay,       \* bound on the ticks a request takes
          MaxTime,        \* bound on the ticks modelled
          MaxRequests,    \* bound on the requests
          MaxFaults       \* bound on processes killed and on commands that fail

\* The salt outlives its day, for late clocks and late requests.
ASSUME VisitsAssumption ==
    /\ None \notin Users \cup Processes \cup Visitors \cup Nat
    /\ Ahead \subseteq Processes
    /\ {DayLen, SaltTTL, SessionGap, CadenceWindow, CadenceLimit} \subseteq Nat \ {0}
    /\ {MaxDelay, MaxTime, MaxRequests, MaxFaults} \subseteq Nat
    /\ DayLen + MaxDelay < SaltTTL

VARIABLES
    now,        \* the time, in ticks
    salt,       \* Redis: the salt of each day
    session,    \* Redis: the session of each visitor hash
    user,       \* Redis: the user bound to each session
    cadence,    \* Redis: the count of events of each visitor hash
    memo,       \* the one salt each process remembers, with its day
    req,        \* the requests
    came,       \* requests so far
    tokens,     \* salts and session ids drawn so far
    faults,     \* processes killed and commands failed so far
    hashed,     \* <<day, salt>> visitors were hashed with (history)
    seen,       \* when the session of a hash was last slid; -1: never (history)
    named,      \* <<session, user>>: a request of the session named the user (history)
    since,      \* when the count of a hash was begun (history)
    orphans     \* hashes whose count was begun by a request cut short (history)

redis   == <<salt, session, user, cadence>>
begun   == <<since, orphans>>
history == <<hashed, seen, named, begun>>
vars    == <<now, redis, memo, req, came, tokens, faults, history>>

Tokens  == 1..(4 * MaxRequests)
Days    == 0..((MaxTime + 1) \div DayLen)
Hashes  == Tokens \X Visitors
Never   == MaxTime + CadenceWindow + 1
Missing == [val |-> None, exp |-> 0]
NoCount == [val |-> 0, exp |-> 0]
NoMemo  == [day |-> 0, salt |-> None]
Key(v, ttl) == [val |-> v, exp |-> now + ttl]

Skew(p)    == IF p \in Ahead THEN 1 ELSE 0
DayOf(q)   == q.at \div DayLen
HashOf(q)  == <<q.salt, q.who>>

\* Page views and web vitals; custom events, which may name a user; identify().
Kinds == {"view", "event", "identify"}

NoRequest == [pc |-> "idle", kind |-> "view", proc |-> None, who |-> None, at |-> 0,
              retried |-> FALSE, salt |-> None, session |-> None, user |-> None]

Init ==
    /\ now = 0
    /\ salt = [d \in Days |-> Missing]
    /\ session = [h \in Hashes |-> Missing]
    /\ user = [s \in Tokens |-> Missing]
    /\ cadence = [h \in Hashes |-> NoCount]
    /\ memo = [p \in Processes |-> NoMemo]
    /\ req = [r \in Requests |-> NoRequest]
    /\ came = 0 /\ tokens = 0
    /\ faults = 0
    /\ hashed = {} /\ seen = [h \in Hashes |-> -1] /\ named = {}
    /\ since = [h \in Hashes |-> 0] /\ orphans = {}

At(r, pc) == req[r].pc = pc
Goto(r, q, pc) == req' = [req EXCEPT ![r] = [q EXCEPT !.pc = pc]]
Done(r) == req' = [req EXCEPT ![r] = NoRequest]

\* Time passes, and Redis drops the keys that expire.
Tick ==
    LET Kept(table, absent) ==
            [k \in DOMAIN table |-> IF table[k].exp <= now + 1 THEN absent ELSE table[k]]
    IN  /\ now < MaxTime
        /\ \A r \in Requests :
               At(r, "idle") \/ now + Skew(req[r].proc) < req[r].at + MaxDelay
        /\ now' = now + 1
        /\ salt' = Kept(salt, Missing) /\ session' = Kept(session, Missing)
        /\ user' = Kept(user, Missing) /\ cadence' = Kept(cadence, NoCount)
        /\ UNCHANGED <<memo, req, came, tokens, faults, history>>

-----------------------------------------------------------------------------
(* One request, one Redis command after the other.                          *)

\* Slip: the value is not fresh.
SetNXStale(table, k, ttl) ==
    /\ UNCHANGED tokens
    /\ IF table[k].val # None THEN UNCHANGED table
       ELSE table' = [table EXCEPT ![k] = Key(tokens + 1, ttl)]

\* SET NX: the first to come draws the value, for all.
SetNX(table, k, ttl) ==
    IF table[k].val # None
    THEN UNCHANGED <<table, tokens>>
    ELSE /\ tokens' = tokens + 1
         /\ table' = [table EXCEPT ![k] = Key(tokens + 1, ttl)]

\* Not found: SET again, once, then a RuntimeError (500).
Retry(r, pc) ==
    IF req[r].retried THEN Done(r) ELSE Goto(r, [req[r] EXCEPT !.retried = TRUE], pc)

\* A request without DNT, within its quota; the day is the day it starts.
Arrive(r, p, v, kind) ==
    /\ At(r, "idle") /\ came < MaxRequests
    /\ came' = came + 1
    /\ Goto(r, [NoRequest EXCEPT !.kind = kind, !.proc = p, !.who = v,
                                 !.at = now + Skew(p)], "salt")
    /\ UNCHANGED <<now, redis, memo, tokens, faults, history>>

Hash(r, s) ==
    /\ Goto(r, [req[r] EXCEPT !.salt = s, !.retried = FALSE], "session")
    /\ hashed' = hashed \cup {<<DayOf(req[r]), s>>}

\* Slip: the memo is not asked which day it is of.
Remembers(r) == memo[req[r].proc].salt # None

Recalls(r) ==
    memo[req[r].proc].salt # None /\ memo[req[r].proc].day = DayOf(req[r])

Recall(r) ==
    /\ At(r, "salt") /\ Recalls(r)
    /\ Hash(r, memo[req[r].proc].salt)
    /\ UNCHANGED <<now, redis, memo, came, tokens, faults, seen, named, begun>>

SetSalt(r) ==
    /\ At(r, "set salt") \/ (At(r, "salt") /\ ~Recalls(r))
    /\ SetNX(salt, DayOf(req[r]), SaltTTL)
    /\ Goto(r, req[r], "get salt")
    /\ UNCHANGED <<now, session, user, cadence, memo, came, faults, history>>

GetSalt(r) ==
    LET d == DayOf(req[r])
        s == salt[d].val
    IN  /\ At(r, "get salt")
        /\ IF s = None
           THEN Retry(r, "set salt") /\ UNCHANGED <<memo, hashed>>
           ELSE Hash(r, s) /\ memo' = [memo EXCEPT ![req[r].proc] = [day |-> d, salt |-> s]]
        /\ UNCHANGED <<now, redis, came, tokens, faults, seen, named, begun>>

SetSession(r) ==
    /\ At(r, "session")
    /\ SetNX(session, HashOf(req[r]), SessionGap)
    /\ Goto(r, req[r], "get session")
    /\ UNCHANGED <<now, salt, user, cadence, memo, came, faults, history>>

GetSession(r) ==
    LET s == session[HashOf(req[r])].val
    IN  /\ At(r, "get session")
        /\ IF s = None THEN Retry(r, "session")
                       ELSE Goto(r, [req[r] EXCEPT !.session = s], "slide")
        /\ UNCHANGED <<now, redis, memo, came, tokens, faults, history>>

\* Slip: the event of a known session does not slide its window.
SlideNothing(r) ==
    LET h == HashOf(req[r])
    IN  /\ At(r, "slide")
        /\ seen' = IF session[h].val = None THEN seen ELSE [seen EXCEPT ![h] = now]
        /\ Goto(r, req[r], IF req[r].kind = "identify" THEN "identify" ELSE "user")
        /\ UNCHANGED <<now, redis, memo, came, tokens, faults, hashed, named, begun>>

\* EXPIRE, which finds no key when the session has just ended.
Slide(r) ==
    LET h == HashOf(req[r])
        s == session[h].val
    IN  /\ At(r, "slide")
        /\ IF s = None
           THEN UNCHANGED <<session, seen>>
           ELSE /\ session' = [session EXCEPT ![h] = Key(s, SessionGap)]
                /\ seen' = [seen EXCEPT ![h] = now]
        /\ Goto(r, req[r], IF req[r].kind = "identify" THEN "identify" ELSE "user")
        /\ UNCHANGED <<now, salt, user, cadence, memo, came, tokens, faults, hashed, named, begun>>

\* Slip: the user is bound to the visitor of the day.
DailyKey(q) == q.salt

BindingKey(q) == q.session

Identify(r) ==
    /\ At(r, "identify")
    /\ \E u \in Users :
          /\ user' = [user EXCEPT ![BindingKey(req[r])] = Key(u, SessionGap)]
          /\ named' = named \cup {<<req[r].session, u>>}
    /\ Done(r)
    /\ UNCHANGED <<now, salt, session, cadence, memo, came, tokens, faults, hashed, seen, begun>>

\* A custom event may name its user; any other gets the one bound to its session.
UserFor(r) ==
    /\ At(r, "user")
    /\ \/ \E u \in Users :
             /\ req[r].kind = "event"
             /\ Goto(r, [req[r] EXCEPT !.user = u], "count")
             /\ named' = named \cup {<<req[r].session, u>>}
       \/ /\ Goto(r, [req[r] EXCEPT !.user = user[BindingKey(req[r])].val], "count")
          /\ UNCHANGED named
    /\ UNCHANGED <<now, redis, memo, came, tokens, faults, hashed, seen, begun>>

\* Slip: the first event is expected to find a counter at zero.
CountFromZero(r) ==
    LET h == HashOf(req[r])
        n == IF cadence[h].val <= CadenceLimit THEN cadence[h].val + 1 ELSE cadence[h].val
    IN  /\ At(r, "count")
        /\ cadence' = [cadence EXCEPT ![h] =
                           [val |-> n, exp |-> IF n = 1 THEN Never ELSE cadence[h].exp]]
        /\ since' = IF n = 1 THEN [since EXCEPT ![h] = now] ELSE since
        /\ Goto(r, req[r], IF n = 0 THEN "expire" ELSE "publish")
        /\ UNCHANGED <<now, salt, session, user, memo, came, tokens, faults, hashed, seen,
                       named, orphans>>

\* INCR keeps the time to live, of which a new counter has none.
Count(r) ==
    LET h == HashOf(req[r])
        n == IF cadence[h].val <= CadenceLimit THEN cadence[h].val + 1 ELSE cadence[h].val
    IN  /\ At(r, "count")
        /\ cadence' = [cadence EXCEPT ![h] =
                           [val |-> n, exp |-> IF n = 1 THEN Never ELSE cadence[h].exp]]
        /\ since' = IF n = 1 THEN [since EXCEPT ![h] = now] ELSE since
        /\ Goto(r, req[r], IF n = 1 THEN "expire" ELSE "publish")
        /\ UNCHANGED <<now, salt, session, user, memo, came, tokens, faults, hashed, seen,
                       named, orphans>>

ExpireCadence(r) ==
    /\ At(r, "expire")
    /\ cadence' = [cadence EXCEPT ![HashOf(req[r])].exp = now + CadenceWindow]
    /\ Goto(r, req[r], "publish")
    /\ UNCHANGED <<now, salt, session, user, memo, came, tokens, faults, history>>

\* EnrichedEvent, with the salt forgotten but for the visitor hash.
Publish(r) ==
    /\ At(r, "publish")
    /\ Done(r)
    /\ UNCHANGED <<now, redis, memo, came, tokens, faults, history>>

Collect(r) ==
    \/ Recall(r) \/ SetSalt(r) \/ GetSalt(r)
    \/ SetSession(r) \/ GetSession(r) \/ Slide(r)
    \/ Identify(r) \/ UserFor(r) \/ Count(r) \/ ExpireCadence(r) \/ Publish(r)

\* Of the requests that are cut short, those that would have given a new counter its
\* time to live.
Orphaned(cut) == {HashOf(req[r]) : r \in {x \in cut : At(x, "expire")}}

\* A Redis command raises, applied or not: a 500, and nothing is undone.
Fail(r) ==
    /\ ~At(r, "idle")
    /\ faults < MaxFaults
    /\ faults' = faults + 1
    /\ Done(r)
    /\ orphans' = orphans \cup Orphaned({r})
    /\ UNCHANGED <<now, redis, memo, came, tokens, hashed, seen, named, since>>

\* A process is replaced: its requests are lost and its memo is empty.
Crash(p) ==
    LET cut == {r \in Requests : req[r].proc = p}
    IN  /\ faults < MaxFaults
        /\ faults' = faults + 1
        /\ memo' = [memo EXCEPT ![p] = NoMemo]
        /\ req' = [r \in Requests |-> IF r \in cut THEN NoRequest ELSE req[r]]
        /\ orphans' = orphans \cup Orphaned(cut)
        /\ UNCHANGED <<now, redis, came, tokens, hashed, seen, named, since>>

-----------------------------------------------------------------------------
Next ==
    \/ Tick
    \/ \E r \in Requests : Collect(r) \/ Fail(r)
    \/ \E r \in Requests, p \in Processes, v \in Visitors, k \in Kinds : Arrive(r, p, v, k)
    \/ \E p \in Processes : Crash(p)

Spec == Init /\ [][Next]_vars

-----------------------------------------------------------------------------
(* Properties.                                                              *)

\* Type invariant; a token is a salt or a session id, not both.
TypeOK ==
    /\ now \in 0..MaxTime
    /\ \A d \in Days : salt[d].val \in Tokens \cup {None}
    /\ \A h \in Hashes : /\ session[h].val \in Tokens \cup {None}
                         /\ cadence[h].val \in 0..(CadenceLimit + 1)
    /\ \A s \in Tokens : user[s].val \in Users \cup {None}
    /\ \A p \in Processes : memo[p].day \in Days /\ memo[p].salt \in Tokens \cup {None}
    /\ \A r \in Requests : /\ req[r].salt \in Tokens \cup {None}
                           /\ req[r].session \in Tokens \cup {None}
                           /\ req[r].user \in Users \cup {None}
                           /\ DayOf(req[r]) \in Days
    /\ hashed \subseteq Days \X Tokens
    /\ named \subseteq (Tokens \ {x[2] : x \in hashed}) \X Users
    /\ came \in 0..MaxRequests
    /\ tokens \in 0..(4 * MaxRequests)
    /\ faults \in 0..MaxFaults
    /\ orphans \subseteq Hashes

\* The daily hash (visitor.py): whichever process hashes a visitor, and
\* whatever a replacement forgets, the salt of a day is one, and of no other.
SaltIsTheDay == \A x, y \in hashed : x[1] = y[1] <=> x[2] = y[2]

\* "A session ends after 30 minutes of inactivity" (sessions.py): a visitor gets
\* another session only when no request slid the last one for that long.
SessionIsAVisit ==
    [][\A h \in Hashes :
          session'[h].val \notin {session[h].val, None} /\ seen[h] >= 0
              => session[h].val = None /\ now >= seen[h] + SessionGap]_vars

\* The binding of identify(): an event about to be published carries a user only
\* if some request of the same session named it.
UserIsTheSessions ==
    \A r \in Requests :
        At(r, "publish") /\ req[r].user # None => <<req[r].session, req[r].user>> \in named

\* "Events seen for this visitor in the last ~minute" (sessions.py): what a request adds
\* its event to was begun within the window and the time a request takes; where the
\* request that began it was cut short before its EXPIRE, on the same day at least.
CadenceIsRecent ==
    \A r \in Requests :
        LET h == HashOf(req[r])
        IN  At(r, "count") /\ cadence[h].val > 0 =>
                /\ DayOf(req[r]) * DayLen <= since[h] + 1
                /\ now < since[h] + MaxDelay + CadenceWindow \/ h \in orphans

=============================================================================
