----------------------------- MODULE VisitsProofs -----------------------------
(***************************************************************************)
(* Proofs about Visits, for any visitors, users, processes and requests,   *)
(* and any lengths of days, sessions and windows: the salt of a day is     *)
(* one and of no other, a session ends by inactivity only, an event has a  *)
(* user of its session, and is added to a count of the last minute, or of  *)
(* the day where an EXPIRE was lost.                                       *)
(*                                                                         *)
(* None is inductive.  They rest on what a request has at each of its      *)
(* steps (PathInv), on tokens being drawn once (TokenInv, FreshInv), and   *)
(* on the times to live that the keys have left (SaltInv, SessionInv,      *)
(* CadenceInv).                                                            *)
(***************************************************************************)
EXTENDS Visits, FiniteSetTheorems, TLAPS

-----------------------------------------------------------------------------
(* The invariant.                                                           *)

BeforeHash == {"salt", "set salt", "get salt"}
InSession  == {"slide", "identify", "user", "count", "expire", "publish"}
Steps      == BeforeHash \cup {"idle", "session", "get session"} \cup InSession

Request == [pc : Steps, kind : Kinds, proc : Processes \cup {None}, who : Visitors \cup {None},
            at : 0..(MaxTime + 1), retried : BOOLEAN, salt : Tokens \cup {None},
            session : Tokens \cup {None}, user : Users \cup {None}]

Timed(S) == [val : S, exp : Nat]

\* The state as functions and records.
Shape ==
    /\ now \in 0..MaxTime
    /\ salt \in [Days -> Timed(Tokens \cup {None})]
    /\ session \in [Hashes -> Timed(Tokens \cup {None})]
    /\ user \in [Tokens -> Timed(Users \cup {None})]
    /\ cadence \in [Hashes -> Timed(0..(CadenceLimit + 1))]
    /\ memo \in [Processes -> [day : Days, salt : Tokens \cup {None}]]
    /\ req \in [Requests -> Request]
    /\ came \in 0..MaxRequests /\ tokens \in Nat /\ faults \in 0..MaxFaults
    /\ hashed \subseteq Days \X Tokens
    /\ seen \in [Hashes -> (-1)..MaxTime]
    /\ named \subseteq Tokens \X Users
    /\ since \in [Hashes -> 0..MaxTime] /\ orphans \subseteq Hashes

\* What a request has at each of its steps, and how long it may take.
Path(q) ==
    q.pc # "idle" =>
        /\ q.proc \in Processes /\ q.who \in Visitors
        /\ q.pc \notin BeforeHash => q.salt \in Tokens
        /\ q.pc \in InSession => q.session \in Tokens
        /\ q.pc = "salt" => ~q.retried
        /\ q.pc = "set salt" => q.retried
        /\ q.at <= now + Skew(q.proc) /\ now + Skew(q.proc) <= q.at + MaxDelay

PathInv == \A r \in Requests : Path(req[r])

\* The tokens a request may still draw.
Left(q) ==
    CASE q.pc = "salt" -> 4
      [] q.pc = "set salt" -> 3
      [] q.pc = "get salt" -> IF q.retried THEN 2 ELSE 3
      [] q.pc = "session" -> IF q.retried THEN 1 ELSE 2
      [] q.pc = "get session" -> IF q.retried THEN 0 ELSE 1
      [] OTHER -> 0

Draws == {x \in Requests \X (1..4) : x[2] <= Left(req[x[1]])}

\* There are tokens for all requests.
TokenInv == IsFiniteSet(Draws) /\ tokens + Cardinality(Draws) <= 4 * came

\* A token is drawn once: it is the salt of one day, or a session id.
Salts    == {salt[d].val : d \in Days} \cup {x[2] : x \in hashed}
Sessions == {session[h].val : h \in Hashes} \cup {req[r].session : r \in Requests}
                \cup {x[1] : x \in named}

FreshInv ==
    /\ Salts \cup Sessions \subseteq 1..tokens \cup {None}
    /\ Salts \cap Sessions \subseteq {None}
    /\ \A d, e \in Days : salt[d].val = salt[e].val /\ salt[d].val # None => d = e
    /\ \A x \in hashed, d \in Days : salt[d].val = x[2] => d = x[1]

\* When the last request of a day is over, whatever its clock says.
End(d) == (d + 1) * DayLen + MaxDelay

\* The salt of a day lives until then, and what a process remembers was it.
SaltInv ==
    /\ \A d \in Days : salt[d].val # None => salt[d].exp >= End(d)
    /\ \A x \in hashed : salt[x[1]].val = x[2] \/ now >= End(x[1])
    /\ \A p \in Processes : memo[p].salt # None => <<memo[p].day, memo[p].salt>> \in hashed
    /\ SaltIsTheDay

\* A session lives as long as it was last slid for, and after that it is gone.
SessionInv ==
    \A h \in Hashes :
        seen[h] >= 0 =>
            /\ seen[h] <= now
            /\ IF session[h].val = None THEN now >= seen[h] + SessionGap
                                        ELSE session[h].exp >= seen[h] + SessionGap

\* A user was named by a request of the session it is bound to, or was taken for.
UserInv ==
    /\ \A s \in Tokens : user[s].val # None => <<s, user[s].val>> \in named
    /\ \A r \in Requests :
           req[r].user # None => /\ req[r].pc \in {"count", "expire", "publish"}
                                 /\ <<req[r].session, req[r].user>> \in named

\* A request with a visitor hash has hashed it.
HashedInv ==
    \A r \in Requests :
        req[r].pc \notin BeforeHash \cup {"idle"} => <<DayOf(req[r]), req[r].salt>> \in hashed

\* A request that is to give a counter its time to live came before the count began.
BeganInv ==
    \A r \in Requests :
        req[r].pc = "expire" => req[r].at <= since[HashOf(req[r])] + Skew(req[r].proc)

\* A counter was begun on the day of its salt, is not past its time to live, and has one
\* that began with the count, is about to get it, or was left without.
Counter(h) ==
    cadence[h].val > 0 =>
        /\ since[h] <= now /\ now < cadence[h].exp
        /\ \E d \in Days : <<d, h[1]>> \in hashed /\ d * DayLen <= since[h] + 1
        /\ \/ cadence[h].exp <= since[h] + MaxDelay + CadenceWindow
           \/ h \in orphans
           \/ \E r \in Requests : req[r].pc = "expire" /\ HashOf(req[r]) = h

CadenceInv == HashedInv /\ BeganInv /\ \A h \in Hashes : Counter(h)

IInv == /\ Shape /\ PathInv /\ TokenInv /\ FreshInv
        /\ SaltInv /\ SessionInv /\ UserInv /\ CadenceInv

-----------------------------------------------------------------------------
(* Days, requests and tokens.                                               *)

\* A time lies in its day.
LEMMA InItsDay ==
    ASSUME NEW t \in Nat
    PROVE  /\ t \div DayLen \in Nat
           /\ (t \div DayLen) * DayLen <= t
           /\ t < (t \div DayLen + 1) * DayLen
<1>1. DayLen \in Nat /\ DayLen > 0
    BY VisitsAssumption
<1>2. t \div DayLen \in Nat
    BY <1>1
<1>3. t = DayLen * (t \div DayLen) + (t % DayLen) /\ t % DayLen \in 0..(DayLen - 1)
    BY <1>1
<1> QED
    BY <1>1, <1>2, <1>3

\* A later time lies in no earlier day.
LEMMA DaysPass ==
    ASSUME NEW t \in Nat, NEW u \in Nat, t <= u
    PROVE  t \div DayLen <= u \div DayLen
<1> DEFINE d == t \div DayLen
           e == u \div DayLen
<1>1. d \in Nat /\ e \in Nat /\ d * DayLen <= t /\ u < (e + 1) * DayLen /\ DayLen \in Nat \ {0}
    BY InItsDay, VisitsAssumption
<1> HIDE DEF d, e
<1>2. ASSUME ~(d <= e) PROVE FALSE
    <2>1. PICK k \in Nat : d = e + 1 + k
        <3>1. d - e - 1 \in Nat /\ d = e + 1 + (d - e - 1)
            BY <1>1, <1>2
        <3> QED
            BY <3>1
    <2>2. d * DayLen = (e + 1) * DayLen + k * DayLen /\ k * DayLen \in Nat
        BY <1>1, <2>1
    <2>3. d * DayLen \in Nat /\ (e + 1) * DayLen \in Nat
        BY <1>1
    <2> QED
        BY <1>1, <2>2, <2>3
<1> QED
    BY <1>2 DEF d, e

\* The day of a request is one of the days modelled.
LEMMA DayIsModelled == ASSUME NEW q \in Request PROVE DayOf(q) \in Days
<1>1. q.at \in Nat /\ q.at <= MaxTime + 1 /\ MaxTime + 1 \in Nat
    BY VisitsAssumption DEF Request
<1>2. q.at \div DayLen \in Nat /\ (MaxTime + 1) \div DayLen \in Nat
    BY <1>1, InItsDay
<1>3. q.at \div DayLen <= (MaxTime + 1) \div DayLen
    BY <1>1, DaysPass
<1> QED
    BY <1>2, <1>3 DEF DayOf, Days

\* No request is a request without anything.
LEMMA NoRequestIsOne == NoRequest \in Request
BY VisitsAssumption DEF NoRequest, Request, Steps, Kinds

\* A request that has a token left to draw will find one.
LEMMA CanDraw ==
    ASSUME Shape, TokenInv, NEW r \in Requests, Left(req[r]) \in {1, 2, 3, 4}
    PROVE  tokens + 1 \in Tokens
<1>1. <<r, 1>> \in Draws
    BY DEF Draws
<1>2. Cardinality(Draws) \in Nat /\ Cardinality(Draws) # 0
    BY <1>1, FS_CardinalityType, FS_EmptySet DEF TokenInv
<1>3. tokens \in Nat /\ came \in Nat /\ came <= MaxRequests /\ MaxRequests \in Nat
    BY VisitsAssumption DEF Shape
<1> QED
    BY <1>2, <1>3 DEF TokenInv, Tokens

\* Requests that have no more left to draw than before.
LEMMA DrawsShrink ==
    ASSUME Shape, TokenInv, UNCHANGED <<came, tokens>>, Draws' \subseteq Draws
    PROVE  TokenInv'
<1>1. IsFiniteSet(Draws') /\ Cardinality(Draws') <= Cardinality(Draws)
    BY FS_Subset DEF TokenInv
<1>2. Cardinality(Draws') \in Nat /\ Cardinality(Draws) \in Nat
    BY <1>1, FS_CardinalityType DEF TokenInv
<1>3. came \in Nat /\ tokens \in Nat
    BY DEF Shape
<1> QED
    BY <1>1, <1>2, <1>3 DEF TokenInv

\* One request takes a step, and draws a token or not.
LEMMA OneDraws ==
    ASSUME Shape, TokenInv, NEW r \in Requests, UNCHANGED came,
           \A s \in Requests \ {r} : req'[s] = req[s],
           Left(req[r]) \in {0, 1, 2, 3, 4}, Left(req'[r]) \in {0, 1, 2, 3, 4}, Left(req'[r]) <= Left(req[r]),
           \/ tokens' = tokens
           \/ tokens' = tokens + 1 /\ Left(req'[r]) < Left(req[r])
    PROVE  TokenInv'
<1> DEFINE n == Left(req[r])
<1>1. Draws' \subseteq Draws
    BY DEF Draws
<1>2. CASE tokens' = tokens
    BY <1>1, <1>2, DrawsShrink
<1>3. CASE tokens' = tokens + 1 /\ Left(req'[r]) < n
    <2>1. n \in {1, 2, 3, 4}
        BY <1>3
    <2>2. <<r, n>> \in Draws /\ <<r, n>> \notin Draws'
        BY <1>3, <2>1 DEF Draws
    <2>3. IsFiniteSet(Draws \ {<<r, n>>}) /\ Cardinality(Draws \ {<<r, n>>}) = Cardinality(Draws) - 1
        BY <2>2, FS_RemoveElement DEF TokenInv
    <2>4. IsFiniteSet(Draws') /\ Cardinality(Draws') <= Cardinality(Draws \ {<<r, n>>})
        BY <1>1, <2>2, <2>3, FS_Subset
    <2>5. Cardinality(Draws') \in Nat /\ Cardinality(Draws) \in Nat
        BY <2>4, FS_CardinalityType DEF TokenInv
    <2>6. came \in Nat /\ tokens \in Nat
        BY DEF Shape
    <2> QED
        BY <1>3, <2>3, <2>4, <2>5, <2>6 DEF TokenInv
<1> QED
    BY <1>2, <1>3


\* A request has from none to four tokens left, by its step.
LEMMA LeftIs ==
    ASSUME NEW q
    PROVE  /\ Left(q) \in {0, 1, 2, 3, 4}
           /\ q.pc = "salt" => Left(q) = 4
           /\ q.pc = "set salt" => Left(q) = 3
           /\ q.pc = "get salt" => Left(q) = IF q.retried THEN 2 ELSE 3
           /\ q.pc = "session" => Left(q) = IF q.retried THEN 1 ELSE 2
           /\ q.pc = "get session" => Left(q) = IF q.retried THEN 0 ELSE 1
           /\ q.pc \in InSession \cup {"idle"} => Left(q) = 0
<1>1. q.pc = "salt" => Left(q) = 4
    BY DEF Left
<1>2. q.pc = "set salt" => Left(q) = 3
    BY DEF Left
<1>3. q.pc = "get salt" => Left(q) = IF q.retried THEN 2 ELSE 3
    BY DEF Left
<1>4. q.pc = "session" => Left(q) = IF q.retried THEN 1 ELSE 2
    BY DEF Left
<1>5. q.pc = "get session" => Left(q) = IF q.retried THEN 0 ELSE 1
    BY DEF Left
<1>6. q.pc \notin BeforeHash \cup {"session", "get session"} => Left(q) = 0
    BY DEF Left, BeforeHash
<1> QED
    BY <1>1, <1>2, <1>3, <1>4, <1>5, <1>6 DEF InSession, BeforeHash

-----------------------------------------------------------------------------
(* Shape, paths and tokens.                                                 *)

BaseInv == Shape /\ PathInv /\ TokenInv

\* A request goes on with what its step needs.
LEMMA GoesOn ==
    ASSUME BaseInv, NEW r \in Requests, NEW n \in Request, req' = [req EXCEPT ![r] = n],
           Path(n), UNCHANGED <<now, came>>, Left(n) <= Left(req[r]),
           \/ tokens' = tokens
           \/ tokens' = tokens + 1 /\ Left(n) < Left(req[r])
    PROVE  req' \in [Requests -> Request] /\ PathInv' /\ TokenInv'
<1>1. /\ req' \in [Requests -> Request]
      /\ req'[r] = n
      /\ \A s \in Requests \ {r} : req'[s] = req[s]
    BY DEF BaseInv, Shape
<1>2. PathInv'
    BY <1>1 DEF BaseInv, PathInv, Path
<1>3. Left(n) \in {0, 1, 2, 3, 4} /\ Left(req[r]) \in {0, 1, 2, 3, 4}
    BY LeftIs
<1>4. TokenInv'
    BY <1>1, <1>3, OneDraws DEF BaseInv
<1> QED
    BY <1>1, <1>2, <1>4

\* A request ends.
LEMMA Ends ==
    ASSUME BaseInv, NEW r \in Requests, Done(r), UNCHANGED <<now, came, tokens>>
    PROVE  req' \in [Requests -> Request] /\ PathInv' /\ TokenInv'
<1>1. NoRequest \in Request /\ NoRequest.pc = "idle"
    BY NoRequestIsOne DEF NoRequest
<1>2. Path(NoRequest) /\ Left(NoRequest) = 0
    BY <1>1, LeftIs DEF Path
<1>3. Left(req[r]) \in {0, 1, 2, 3, 4}
    BY LeftIs
<1>4. Left(NoRequest) <= Left(req[r])
    BY <1>2, <1>3
<1> QED
    BY <1>1, <1>2, <1>4, GoesOn DEF Done

\* What a request on its way has.
LEMMA OnItsWay ==
    ASSUME BaseInv, NEW r \in Requests, req[r].pc # "idle"
    PROVE  /\ req[r] \in Request /\ Path(req[r]) /\ DayOf(req[r]) \in Days
           /\ req[r].salt \in Tokens => HashOf(req[r]) \in Hashes
BY DayIsModelled DEF BaseInv, Shape, PathInv, Path, HashOf, Hashes

\* SET NX draws a fresh value, or leaves the table alone.
LEMMA SetsOnce ==
    ASSUME BaseInv, NEW r \in Requests, Left(req[r]) \in {1, 2, 3, 4}, NEW ttl \in Nat,
           NEW K, NEW k \in K
    PROVE  /\ SetNX(salt, k, ttl) /\ salt \in [K -> Timed(Tokens \cup {None})] =>
                  /\ salt' \in [K -> Timed(Tokens \cup {None})]
                  /\ tokens' \in {tokens, tokens + 1}
           /\ SetNX(session, k, ttl) /\ session \in [K -> Timed(Tokens \cup {None})] =>
                  /\ session' \in [K -> Timed(Tokens \cup {None})]
                  /\ tokens' \in {tokens, tokens + 1}
<1>1. tokens + 1 \in Tokens
    BY CanDraw DEF BaseInv
<1>2. now + ttl \in Nat
    BY VisitsAssumption DEF BaseInv, Shape
<1>3. Key(tokens + 1, ttl) \in Timed(Tokens \cup {None})
    BY <1>1, <1>2 DEF Key, Timed
<1> QED
    BY <1>3 DEF SetNX

\* The salt: recalled, set or read.
LEMMA BaseSalt ==
    ASSUME BaseInv, NEW r \in Requests, Recall(r) \/ SetSalt(r) \/ GetSalt(r)
    PROVE  BaseInv'
<1>1. req[r].pc \in BeforeHash
    BY DEF Recall, SetSalt, GetSalt, At, BeforeHash
<1>2. req[r] \in Request /\ Path(req[r]) /\ DayOf(req[r]) \in Days /\ req[r].proc \in Processes
    BY <1>1, OnItsWay DEF Path, BeforeHash
<1>3. ASSUME NEW t \in Tokens, Hash(r, t), UNCHANGED <<now, came, tokens>>
      PROVE  /\ req' \in [Requests -> Request] /\ PathInv' /\ TokenInv'
             /\ hashed' \subseteq Days \X Tokens
    <2> DEFINE n == [req[r] EXCEPT !.salt = t, !.retried = FALSE, !.pc = "session"]
    <2>1. n \in Request /\ n.pc = "session" /\ ~n.retried /\ req' = [req EXCEPT ![r] = n]
        BY <1>2, <1>3 DEF Hash, Goto, Request, Steps
    <2>2. Path(n)
        BY <1>1, <1>2 DEF Path, Request, BeforeHash, InSession
    <2> HIDE DEF n
    <2>3. Left(n) = 2 /\ Left(req[r]) \in {2, 3, 4}
        BY <1>1, <2>1, LeftIs DEF BeforeHash
    <2>4. Left(n) <= Left(req[r])
        BY <2>3
    <2>5. req' \in [Requests -> Request] /\ PathInv' /\ TokenInv'
        BY <1>3, <2>1, <2>2, <2>4, GoesOn
    <2> QED
        BY <1>2, <1>3, <2>5 DEF Hash, BaseInv, Shape
<1>4. CASE Recall(r)
    <2>1. memo[req[r].proc].salt \in Tokens
        BY <1>2, <1>4 DEF Recall, Recalls, BaseInv, Shape
    <2>2. Hash(r, memo[req[r].proc].salt) /\ UNCHANGED <<now, redis, memo, came, tokens, faults, seen, named, begun>>
        BY <1>4 DEF Recall
    <2> QED
        BY <1>3, <2>1, <2>2 DEF BaseInv, Shape, redis, begun
<1>5. CASE SetSalt(r)
    <2>1. /\ SetNX(salt, DayOf(req[r]), SaltTTL) /\ Goto(r, req[r], "get salt")
          /\ UNCHANGED <<now, session, user, cadence, memo, came, faults, history>>
          /\ req[r].pc \in {"salt", "set salt"}
        BY <1>5 DEF SetSalt, At
    <2> DEFINE n == [req[r] EXCEPT !.pc = "get salt"]
    <2>2. Path(n) /\ n \in Request /\ req' = [req EXCEPT ![r] = n]
        BY <1>2, <2>1 DEF Path, Request, BeforeHash, InSession, Steps, Goto
    <2>3. /\ Left(n) \in {2, 3} /\ Left(req[r]) \in {3, 4}
          /\ Left(n) <= Left(req[r]) /\ Left(n) < Left(req[r])
        <3>1. n.pc = "get salt" /\ n.retried = req[r].retried /\ req[r].retried \in BOOLEAN
            BY <1>2 DEF Request
        <3>2. IF req[r].retried THEN req[r].pc = "set salt" ELSE req[r].pc = "salt"
            BY <1>2, <2>1 DEF Path
        <3> HIDE DEF n
        <3>3. CASE req[r].pc = "salt"
            <4>1. Left(n) = 3
                BY <3>1, <3>2, <3>3, LeftIs
            <4>2. Left(req[r]) = 4
                BY <3>3, LeftIs
            <4> QED
                BY <4>1, <4>2
        <3>4. CASE req[r].pc = "set salt"
            <4>1. Left(n) = 2
                BY <3>1, <3>2, <3>4, LeftIs
            <4>2. Left(req[r]) = 3
                BY <3>4, LeftIs
            <4> QED
                BY <4>1, <4>2
        <3> QED
            BY <2>1, <3>3, <3>4
    <2> HIDE DEF n
    <2>4. salt' \in [Days -> Timed(Tokens \cup {None})] /\ tokens' \in {tokens, tokens + 1}
        BY <1>2, <2>1, <2>3, SetsOnce, VisitsAssumption DEF BaseInv, Shape
    <2>5. req' \in [Requests -> Request] /\ PathInv' /\ TokenInv'
        BY <2>1, <2>2, <2>3, <2>4, GoesOn
    <2>6. tokens' \in Nat
        BY <2>4 DEF BaseInv, Shape
    <2> QED
        BY <2>1, <2>4, <2>5, <2>6 DEF BaseInv, Shape, history, begun
<1>6. CASE GetSalt(r)
    <2>1. UNCHANGED <<now, redis, came, tokens, faults, seen, named, begun>> /\ req[r].pc = "get salt"
        BY <1>6 DEF GetSalt, At
    <2> DEFINE t == salt[DayOf(req[r])].val
    <2>2. t \in Tokens \cup {None}
        BY <1>2 DEF BaseInv, Shape, Timed
    <2>3. CASE t = None
        <3>1. Retry(r, "set salt") /\ UNCHANGED <<memo, hashed>>
            BY <1>6, <2>3 DEF GetSalt
        <3>2. CASE req[r].retried
            <4>1. Done(r)
                BY <3>1, <3>2 DEF Retry
            <4> QED
                BY <2>1, <3>1, <4>1, Ends DEF BaseInv, Shape, redis, begun
        <3>3. CASE ~req[r].retried
            <4> DEFINE n == [req[r] EXCEPT !.retried = TRUE, !.pc = "set salt"]
            <4>1. n \in Request /\ n.pc = "set salt" /\ req' = [req EXCEPT ![r] = n]
                BY <1>2, <3>1, <3>3 DEF Retry, Goto, Request, Steps, BeforeHash
            <4>2. Path(n)
                BY <1>2, <2>1 DEF Path, Request, BeforeHash, InSession
            <4> HIDE DEF n
            <4>3. Left(n) = 3 /\ Left(req[r]) = 3
                BY <2>1, <3>3, <4>1, LeftIs
            <4>4. Left(n) <= Left(req[r])
                BY <4>3
            <4>5. req' \in [Requests -> Request] /\ PathInv' /\ TokenInv'
                BY <2>1, <4>1, <4>2, <4>4, GoesOn
            <4> QED
                BY <2>1, <3>1, <4>5 DEF BaseInv, Shape, redis, begun
        <3> QED
            BY <3>2, <3>3
    <2>4. CASE t # None
        <3>1. Hash(r, t) /\ memo' = [memo EXCEPT ![req[r].proc] = [day |-> DayOf(req[r]), salt |-> t]]
            BY <1>6, <2>4 DEF GetSalt
        <3>2. memo' \in [Processes -> [day : Days, salt : Tokens \cup {None}]]
            BY <1>2, <2>2, <3>1 DEF BaseInv, Shape
        <3> HIDE DEF t
        <3>3. /\ req' \in [Requests -> Request] /\ PathInv' /\ TokenInv'
              /\ hashed' \subseteq Days \X Tokens
            BY <1>3, <2>1, <2>2, <2>4, <3>1
        <3> QED
            BY <2>1, <3>2, <3>3 DEF BaseInv, Shape, redis, begun
    <2> QED
        BY <2>3, <2>4
<1> QED
    BY <1>4, <1>5, <1>6

\* The session: set or read.
LEMMA BaseSession ==
    ASSUME BaseInv, NEW r \in Requests, SetSession(r) \/ GetSession(r)
    PROVE  BaseInv'
<1>1. req[r].pc \in {"session", "get session"}
    BY DEF SetSession, GetSession, At
<1>2. /\ req[r] \in Request /\ Path(req[r]) /\ req[r].proc \in Processes
      /\ req[r].salt \in Tokens /\ HashOf(req[r]) \in Hashes
    BY <1>1, OnItsWay DEF Path, BeforeHash
<1>3. CASE SetSession(r)
    <2>1. /\ SetNX(session, HashOf(req[r]), SessionGap) /\ Goto(r, req[r], "get session")
          /\ UNCHANGED <<now, salt, user, cadence, memo, came, faults, history>>
          /\ req[r].pc = "session"
        BY <1>3 DEF SetSession, At
    <2> DEFINE n == [req[r] EXCEPT !.pc = "get session"]
    <2>2. Path(n) /\ n \in Request /\ req' = [req EXCEPT ![r] = n]
        BY <1>2, <2>1 DEF Path, Request, BeforeHash, InSession, Steps, Goto
    <2>3. /\ Left(req[r]) \in {1, 2}
          /\ Left(n) <= Left(req[r]) /\ Left(n) < Left(req[r])
        <3>1. n.pc = "get session" /\ n.retried = req[r].retried /\ req[r].retried \in BOOLEAN
            BY <1>2 DEF Request
        <3> HIDE DEF n
        <3>2. CASE req[r].retried
            <4>1. Left(n) = 0
                BY <3>1, <3>2, LeftIs
            <4>2. Left(req[r]) = 1
                BY <2>1, <3>2, LeftIs
            <4> QED
                BY <4>1, <4>2
        <3>3. CASE ~req[r].retried
            <4>1. Left(n) = 1
                BY <3>1, <3>3, LeftIs
            <4>2. Left(req[r]) = 2
                BY <2>1, <3>3, LeftIs
            <4> QED
                BY <4>1, <4>2
        <3> QED
            BY <3>2, <3>3
    <2> HIDE DEF n
    <2>4. session' \in [Hashes -> Timed(Tokens \cup {None})] /\ tokens' \in {tokens, tokens + 1}
        BY <1>2, <2>1, <2>3, SetsOnce, VisitsAssumption DEF BaseInv, Shape
    <2>5. req' \in [Requests -> Request] /\ PathInv' /\ TokenInv'
        BY <2>1, <2>2, <2>3, <2>4, GoesOn
    <2>6. tokens' \in Nat
        BY <2>4 DEF BaseInv, Shape
    <2> QED
        BY <2>1, <2>4, <2>5, <2>6 DEF BaseInv, Shape, history, begun
<1>4. CASE GetSession(r)
    <2>1. /\ UNCHANGED <<now, redis, memo, came, tokens, faults, history>>
          /\ req[r].pc = "get session"
        BY <1>4 DEF GetSession, At
    <2> DEFINE t == session[HashOf(req[r])].val
    <2>2. t \in Tokens \cup {None}
        BY <1>2 DEF BaseInv, Shape, Timed
    <2>3. req' \in [Requests -> Request] /\ PathInv' /\ TokenInv'
        <3>1. CASE t = None /\ req[r].retried
            <4>1. Done(r)
                BY <1>4, <3>1 DEF GetSession, Retry
            <4> QED
                BY <2>1, <4>1, Ends
        <3>2. CASE t = None /\ ~req[r].retried
            <4> DEFINE n == [req[r] EXCEPT !.retried = TRUE, !.pc = "session"]
            <4>1. n \in Request /\ n.pc = "session" /\ n.retried /\ req' = [req EXCEPT ![r] = n]
                BY <1>2, <1>4, <3>2 DEF GetSession, Retry, Goto, Request, Steps
            <4>2. Path(n)
                BY <1>2, <2>1 DEF Path, Request, BeforeHash, InSession
            <4> HIDE DEF n
            <4>3. Left(n) = 1 /\ Left(req[r]) = 1
                BY <2>1, <3>2, <4>1, LeftIs
            <4>4. Left(n) <= Left(req[r])
                BY <4>3
            <4> QED
                BY <2>1, <4>1, <4>2, <4>4, GoesOn
        <3>3. CASE t # None
            <4> DEFINE n == [req[r] EXCEPT !.session = t, !.pc = "slide"]
            <4>1. n \in Request /\ n.pc = "slide" /\ req' = [req EXCEPT ![r] = n]
                BY <1>2, <1>4, <2>2, <3>3 DEF GetSession, Goto, Request, Steps, InSession
            <4>2. Path(n)
                BY <1>2, <2>1, <2>2, <3>3 DEF Path, Request, BeforeHash, InSession
            <4> HIDE DEF n, t
            <4>3. Left(n) = 0 /\ Left(req[r]) \in {0, 1, 2, 3, 4}
                BY <4>1, LeftIs DEF InSession
            <4>4. Left(n) <= Left(req[r])
                BY <4>3
            <4> QED
                BY <2>1, <4>1, <4>2, <4>4, GoesOn
        <3> QED
            BY <3>1, <3>2, <3>3
    <2> QED
        BY <2>1, <2>3 DEF BaseInv, Shape, redis, history, begun
<1> QED
    BY <1>3, <1>4

\* A request of a session goes on.
LEMMA StaysInSession ==
    ASSUME BaseInv, NEW r \in Requests, req[r].pc \in InSession,
           NEW n \in Request, n.pc \in InSession, req' = [req EXCEPT ![r] = n],
           n.proc = req[r].proc, n.who = req[r].who, n.at = req[r].at,
           n.salt = req[r].salt, n.session = req[r].session,
           UNCHANGED <<now, came, tokens>>
    PROVE  req' \in [Requests -> Request] /\ PathInv' /\ TokenInv'
<1>1. Path(req[r]) /\ req[r].pc # "idle"
    BY DEF BaseInv, PathInv, InSession
<1>2. Path(n)
    BY <1>1 DEF Path, InSession, BeforeHash
<1>3. Left(n) = 0 /\ Left(req[r]) = 0
    BY LeftIs
<1>4. Left(n) <= Left(req[r])
    BY <1>3
<1> QED
    BY <1>2, <1>4, GoesOn

\* The rest of a request: its session slides, its user is bound or read, its visitor
\* is counted, and it ends.
LEMMA BaseEvent ==
    ASSUME BaseInv, NEW r \in Requests,
           \/ Slide(r) \/ Identify(r) \/ UserFor(r) \/ Count(r) \/ ExpireCadence(r) \/ Publish(r)
    PROVE  BaseInv'
<1>1. req[r].pc \in InSession
    BY DEF Slide, Identify, UserFor, Count, ExpireCadence, Publish, At, InSession
<1>2. /\ req[r] \in Request /\ Path(req[r]) /\ req[r].session \in Tokens
      /\ HashOf(req[r]) \in Hashes
    BY <1>1, OnItsWay DEF Path, BeforeHash, InSession
<1>3. ASSUME NEW pc \in InSession, Goto(r, req[r], pc), UNCHANGED <<now, came, tokens>>
      PROVE  req' \in [Requests -> Request] /\ PathInv' /\ TokenInv'
    <2> DEFINE n == [req[r] EXCEPT !.pc = pc]
    <2>1. n \in Request /\ n.pc \in InSession /\ req' = [req EXCEPT ![r] = n]
        BY <1>2, <1>3 DEF Request, Steps, Goto
    <2>2. /\ n.proc = req[r].proc /\ n.who = req[r].who /\ n.at = req[r].at
          /\ n.salt = req[r].salt /\ n.session = req[r].session
        BY <1>2 DEF Request
    <2> HIDE DEF n
    <2> QED
        BY <1>1, <1>3, <2>1, <2>2, StaysInSession
<1>4. /\ now \in Nat /\ now <= MaxTime /\ MaxTime \in Nat
      /\ {SessionGap, CadenceWindow, CadenceLimit} \subseteq Nat
    BY VisitsAssumption DEF BaseInv, Shape
<1>5. CASE Slide(r)
    <2> DEFINE h == HashOf(req[r])
               t == session[h].val
    <2>1. PICK pc \in InSession : Goto(r, req[r], pc)
        BY <1>5 DEF Slide, InSession
    <2>2. UNCHANGED <<now, salt, user, cadence, memo, came, tokens, faults, hashed, named, begun>>
        BY <1>5 DEF Slide
    <2>3. session' \in [Hashes -> Timed(Tokens \cup {None})] /\ seen' \in [Hashes -> (-1)..MaxTime]
        <3>1. t \in Tokens \cup {None}
            BY <1>2 DEF BaseInv, Shape, Timed
        <3>2. Key(t, SessionGap) \in Timed(Tokens \cup {None}) /\ now \in (-1)..MaxTime
            BY <1>4, <3>1 DEF Key, Timed
        <3> QED
            BY <1>2, <1>5, <3>2 DEF Slide, BaseInv, Shape
    <2>4. req' \in [Requests -> Request] /\ PathInv' /\ TokenInv'
        BY <1>3, <2>1, <2>2
    <2> QED
        BY <2>2, <2>3, <2>4 DEF BaseInv, Shape, begun
<1>6. CASE Identify(r)
    <2>1. Done(r) /\ UNCHANGED <<now, salt, session, cadence, memo, came, tokens, faults, hashed, seen, begun>>
        BY <1>6 DEF Identify
    <2>2. user' \in [Tokens -> Timed(Users \cup {None})] /\ named' \subseteq Tokens \X Users
        <3>1. PICK u \in Users :
                  /\ user' = [user EXCEPT ![req[r].session] = Key(u, SessionGap)]
                  /\ named' = named \cup {<<req[r].session, u>>}
            BY <1>6 DEF Identify, BindingKey
        <3>2. Key(u, SessionGap) \in Timed(Users \cup {None})
            BY <1>4 DEF Key, Timed
        <3>3. named' \subseteq Tokens \X Users
            BY <1>2, <3>1 DEF BaseInv, Shape
        <3> QED
            BY <1>2, <3>1, <3>2, <3>3 DEF BaseInv, Shape
    <2>3. req' \in [Requests -> Request] /\ PathInv' /\ TokenInv'
        BY <2>1, Ends
    <2> QED
        BY <2>1, <2>2, <2>3 DEF BaseInv, Shape, begun
<1>7. CASE UserFor(r)
    <2>1. UNCHANGED <<now, redis, memo, came, tokens, faults, hashed, seen, begun>>
        BY <1>7 DEF UserFor
    <2>2. PICK u \in Users \cup {None} :
              /\ Goto(r, [req[r] EXCEPT !.user = u], "count")
              /\ named' \subseteq named \cup {<<req[r].session, u>>}
              /\ u = None => named' = named
        <3>1. user[BindingKey(req[r])].val \in Users \cup {None}
            BY <1>2 DEF BaseInv, Shape, Timed, BindingKey
        <3> QED
            BY <1>7, <3>1, VisitsAssumption DEF UserFor
    <2> DEFINE n == [req[r] EXCEPT !.user = u, !.pc = "count"]
    <2>3. n \in Request /\ n.pc \in InSession /\ req' = [req EXCEPT ![r] = n]
        BY <1>2, <2>2 DEF Request, Steps, Goto, InSession
    <2>4. /\ n.proc = req[r].proc /\ n.who = req[r].who /\ n.at = req[r].at
          /\ n.salt = req[r].salt /\ n.session = req[r].session
        BY <1>2 DEF Request
    <2> HIDE DEF n
    <2>5. req' \in [Requests -> Request] /\ PathInv' /\ TokenInv'
        BY <1>1, <2>1, <2>3, <2>4, StaysInSession
    <2>6. named' \subseteq Tokens \X Users
        BY <1>2, <2>2 DEF BaseInv, Shape
    <2> QED
        BY <2>1, <2>5, <2>6 DEF BaseInv, Shape, redis, begun
<1>8. CASE Count(r)
    <2> DEFINE h == HashOf(req[r])
               k == IF cadence[h].val <= CadenceLimit THEN cadence[h].val + 1
                                                      ELSE cadence[h].val
    <2>1. PICK pc \in InSession : Goto(r, req[r], pc)
        BY <1>8 DEF Count, InSession
    <2>2. /\ UNCHANGED <<now, salt, session, user, memo, came, tokens, faults, hashed, seen, named,
                         orphans>>
          /\ since' \in [Hashes -> 0..MaxTime]
        BY <1>4, <1>8 DEF Count, BaseInv, Shape
    <2>3. cadence' \in [Hashes -> Timed(0..(CadenceLimit + 1))]
        <3>1. cadence[h].val \in 0..(CadenceLimit + 1) /\ cadence[h].exp \in Nat
            BY <1>2 DEF BaseInv, Shape, Timed
        <3>2. k \in 0..(CadenceLimit + 1)
            BY <1>4, <3>1
        <3>3. Never \in Nat
            BY <1>4 DEF Never
        <3>4. cadence' = [cadence EXCEPT ![h] =
                              [val |-> k, exp |-> IF k = 1 THEN Never ELSE cadence[h].exp]]
            BY <1>8 DEF Count
        <3> HIDE DEF k, h
        <3> QED
            BY <3>1, <3>2, <3>3, <3>4 DEF BaseInv, Shape, Timed
    <2>4. req' \in [Requests -> Request] /\ PathInv' /\ TokenInv'
        BY <1>3, <2>1, <2>2
    <2> QED
        BY <2>2, <2>3, <2>4 DEF BaseInv, Shape
<1>9. CASE ExpireCadence(r)
    <2>1. Goto(r, req[r], "publish") /\ "publish" \in InSession
        BY <1>9 DEF ExpireCadence, InSession
    <2>2. UNCHANGED <<now, salt, session, user, memo, came, tokens, faults, history>>
        BY <1>9 DEF ExpireCadence
    <2>3. cadence' \in [Hashes -> Timed(0..(CadenceLimit + 1))]
        <3>1. now + CadenceWindow \in Nat
            BY <1>4
        <3> QED
            BY <1>2, <1>9, <3>1 DEF ExpireCadence, BaseInv, Shape, Timed
    <2>4. req' \in [Requests -> Request] /\ PathInv' /\ TokenInv'
        BY <1>3, <2>1, <2>2
    <2> QED
        BY <2>2, <2>3, <2>4 DEF BaseInv, Shape, history, begun
<1>10. CASE Publish(r)
    BY <1>10, Ends DEF Publish, BaseInv, Shape, redis, history, begun
<1> QED
    BY <1>5, <1>6, <1>7, <1>8, <1>9, <1>10

\* A request cut short at its EXPIRE had hashed its visitor.
LEMMA OrphansAreHashes == ASSUME BaseInv, NEW cut \in SUBSET Requests PROVE Orphaned(cut) \subseteq Hashes
<1> SUFFICES ASSUME NEW r \in cut, req[r].pc = "expire" PROVE HashOf(req[r]) \in Hashes
    BY DEF Orphaned, At
<1> QED
    BY OnItsWay DEF Path, BeforeHash

\* A command fails, and the request ends.
LEMMA BaseFail == ASSUME BaseInv, NEW r \in Requests, Fail(r) PROVE BaseInv'
<1>1. /\ Done(r) /\ faults < MaxFaults /\ faults' = faults + 1
      /\ UNCHANGED <<now, redis, memo, came, tokens, hashed, seen, named, since>>
      /\ orphans' = orphans \cup Orphaned({r})
    BY DEF Fail
<1>2. faults' \in 0..MaxFaults
    BY <1>1, VisitsAssumption DEF BaseInv, Shape
<1>3. orphans' \subseteq Hashes
    BY <1>1, OrphansAreHashes DEF BaseInv, Shape
<1>4. req' \in [Requests -> Request] /\ PathInv' /\ TokenInv'
    BY <1>1, Ends
<1> QED
    BY <1>1, <1>2, <1>3, <1>4 DEF BaseInv, Shape, redis

\* A process is killed, and its requests draw nothing more.
LEMMA BaseCrash == ASSUME BaseInv, NEW p \in Processes, Crash(p) PROVE BaseInv'
<1>1. /\ faults < MaxFaults /\ faults' = faults + 1
      /\ memo' = [memo EXCEPT ![p] = NoMemo]
      /\ req' = [r \in Requests |-> IF req[r].proc = p THEN NoRequest ELSE req[r]]
      /\ UNCHANGED <<now, redis, came, tokens, hashed, seen, named, since>>
    BY DEF Crash
<1>2. \A r \in Requests : req'[r] \in {NoRequest, req[r]}
    BY <1>1
<1>3. NoRequest \in Request /\ NoRequest.pc = "idle"
    BY NoRequestIsOne DEF NoRequest
<1>4. NoMemo \in [day : Days, salt : Tokens \cup {None}]
    <2>1. MaxTime + 1 \in Nat
        BY VisitsAssumption
    <2>2. (MaxTime + 1) \div DayLen \in Nat
        BY <2>1, InItsDay
    <2>3. 0 \in Days
        BY <2>2 DEF Days
    <2> QED
        BY <2>3 DEF NoMemo
<1>5. Shape'
    <2>1. req' \in [Requests -> Request]
        BY <1>1, <1>3 DEF BaseInv, Shape
    <2>2. faults' \in 0..MaxFaults
        BY <1>1, VisitsAssumption DEF BaseInv, Shape
    <2>3. memo' \in [Processes -> [day : Days, salt : Tokens \cup {None}]]
        BY <1>1, <1>4 DEF BaseInv, Shape
    <2>4. orphans' \subseteq Hashes
        BY OrphansAreHashes DEF Crash, BaseInv, Shape
    <2> QED
        BY <1>1, <2>1, <2>2, <2>3, <2>4 DEF BaseInv, Shape, redis
<1>6. PathInv'
    BY <1>1, <1>2, <1>3 DEF BaseInv, PathInv, Path
<1>7. TokenInv'
    <2>1. Left(NoRequest) = 0
        BY <1>3, LeftIs
    <2>2. Draws' \subseteq Draws
        BY <1>2, <2>1 DEF Draws
    <2> QED
        BY <1>1, <2>2, DrawsShrink DEF BaseInv
<1> QED
    BY <1>5, <1>6, <1>7 DEF BaseInv

\* One more element.
LEMMA OneMore ==
    ASSUME NEW S, NEW x, IsFiniteSet(S)
    PROVE  IsFiniteSet(S \cup {x}) /\ Cardinality(S \cup {x}) <= Cardinality(S) + 1
<1>1. Cardinality(S) \in Nat
    BY FS_CardinalityType
<1>2. IsFiniteSet(S \cup {x}) /\ Cardinality(S \cup {x}) \in {Cardinality(S), Cardinality(S) + 1}
    BY FS_AddElement
<1>3. ASSUME NEW c, c \in {Cardinality(S), Cardinality(S) + 1} PROVE c <= Cardinality(S) + 1
    BY <1>1, <1>3
<1> QED
    BY <1>2, <1>3

\* A request comes, with four tokens to draw.
LEMMA BaseArrive ==
    ASSUME BaseInv, NEW r \in Requests, NEW p \in Processes, NEW v \in Visitors, NEW k \in Kinds,
           Arrive(r, p, v, k)
    PROVE  BaseInv'
<1> DEFINE n == [NoRequest EXCEPT !.kind = k, !.proc = p, !.who = v, !.at = now + Skew(p),
                                  !.pc = "salt"]
<1>1. /\ req[r].pc = "idle" /\ came < MaxRequests /\ came' = came + 1
      /\ req' = [req EXCEPT ![r] = n]
      /\ UNCHANGED <<now, redis, memo, tokens, faults, history>>
    BY DEF Arrive, At, Goto, NoRequest
<1>2. now + Skew(p) \in 0..(MaxTime + 1)
    BY VisitsAssumption DEF BaseInv, Shape, Skew
<1>3. n \in Request
    BY <1>2, VisitsAssumption DEF NoRequest, Request, Steps, BeforeHash
<1>4. Path(n)
    BY <1>2, VisitsAssumption DEF NoRequest, Path, BeforeHash, InSession
<1> HIDE DEF n
<1>5. /\ req' \in [Requests -> Request] /\ req'[r] = n
      /\ \A s \in Requests \ {r} : req'[s] = req[s]
    BY <1>1, <1>3 DEF BaseInv, Shape
<1>6. Shape'
    <2>1. came' \in 0..MaxRequests
        BY <1>1, VisitsAssumption DEF BaseInv, Shape
    <2> QED
        BY <1>1, <1>5, <2>1 DEF BaseInv, Shape, redis, history, begun
<1>7. PathInv'
    BY <1>1, <1>4, <1>5 DEF BaseInv, PathInv, Path
<1>8. TokenInv'
    <2> DEFINE D1 == Draws \cup {<<r, 1>>}
               D2 == D1 \cup {<<r, 2>>}
               D3 == D2 \cup {<<r, 3>>}
               D4 == D3 \cup {<<r, 4>>}
    <2>1. Draws' \subseteq D4
        BY <1>5 DEF Draws
    <2>2. IsFiniteSet(D1) /\ Cardinality(D1) <= Cardinality(Draws) + 1
        BY OneMore DEF BaseInv, TokenInv
    <2> HIDE DEF D1
    <2>3. IsFiniteSet(D2) /\ Cardinality(D2) <= Cardinality(D1) + 1
        BY <2>2, OneMore
    <2> HIDE DEF D2
    <2>4. IsFiniteSet(D3) /\ Cardinality(D3) <= Cardinality(D2) + 1
        BY <2>3, OneMore
    <2> HIDE DEF D3
    <2>5. IsFiniteSet(D4) /\ Cardinality(D4) <= Cardinality(D3) + 1
        BY <2>4, OneMore
    <2> HIDE DEF D4
    <2>6. IsFiniteSet(Draws') /\ Cardinality(Draws') <= Cardinality(D4)
        BY <2>1, <2>5, FS_Subset
    <2>7. /\ Cardinality(Draws) \in Nat /\ Cardinality(D1) \in Nat /\ Cardinality(D2) \in Nat
          /\ Cardinality(D3) \in Nat /\ Cardinality(D4) \in Nat /\ Cardinality(Draws') \in Nat
        BY <2>2, <2>3, <2>4, <2>5, <2>6, FS_CardinalityType DEF BaseInv, TokenInv
    <2>8. Cardinality(Draws') <= Cardinality(Draws) + 4
        BY <2>2, <2>3, <2>4, <2>5, <2>6, <2>7
    <2>9. came \in Nat /\ tokens \in Nat /\ tokens' = tokens /\ came' = came + 1
        BY <1>1 DEF BaseInv, Shape
    <2> QED
        BY <2>6, <2>7, <2>8, <2>9 DEF BaseInv, TokenInv
<1> QED
    BY <1>6, <1>7, <1>8 DEF BaseInv

\* Time passes.
LEMMA BaseTick == ASSUME BaseInv, Tick PROVE BaseInv'
<1>1. /\ now < MaxTime /\ now' = now + 1
      /\ \A r \in Requests :
             req[r].pc = "idle" \/ now + Skew(req[r].proc) < req[r].at + MaxDelay
      /\ UNCHANGED <<memo, req, came, tokens, faults, history>>
    BY DEF Tick, At
<1>2. Shape'
    <2>1. now' \in 0..MaxTime
        BY <1>1, VisitsAssumption DEF BaseInv, Shape
    <2>2. salt' \in [Days -> Timed(Tokens \cup {None})]
        BY DEF Tick, BaseInv, Shape, Timed, Missing
    <2>3. session' \in [Hashes -> Timed(Tokens \cup {None})]
        BY DEF Tick, BaseInv, Shape, Timed, Missing
    <2>4. user' \in [Tokens -> Timed(Users \cup {None})]
        BY DEF Tick, BaseInv, Shape, Timed, Missing
    <2>5. cadence' \in [Hashes -> Timed(0..(CadenceLimit + 1))]
        BY VisitsAssumption DEF Tick, BaseInv, Shape, Timed, NoCount
    <2> QED
        BY <1>1, <2>1, <2>2, <2>3, <2>4, <2>5 DEF BaseInv, Shape, history, begun
<1>3. PathInv'
    <2> SUFFICES ASSUME NEW r \in Requests, req[r].pc # "idle"
                 PROVE  Path(req[r])'
        BY <1>1 DEF PathInv, Path
    <2>1. Path(req[r]) /\ now + Skew(req[r].proc) < req[r].at + MaxDelay
        BY <1>1 DEF BaseInv, PathInv
    <2> DEFINE k == Skew(req[r].proc)
               a == req[r].at
    <2>2. now \in Nat /\ a \in Nat /\ MaxDelay \in Nat /\ k \in Nat
        BY VisitsAssumption DEF BaseInv, Shape, Request, Skew
    <2>3. a <= now + 1 + k /\ now + 1 + k <= a + MaxDelay
        <3>1. a <= now + k /\ now + k < a + MaxDelay
            BY <1>1, <2>1 DEF Path
        <3> HIDE DEF a, k
        <3> QED
            BY <2>2, <3>1
    <2>4. now' = now + 1 /\ req' = req
        BY <1>1
    <2>5. req[r].at <= now' + Skew(req[r].proc) /\ now' + Skew(req[r].proc) <= req[r].at + MaxDelay
        BY <2>3, <2>4
    <2> QED
        BY <2>1, <2>4, <2>5 DEF Path
<1>4. Draws' = Draws
    BY <1>1 DEF Draws, Left
<1>5. TokenInv'
    BY <1>1, <1>4, DrawsShrink DEF BaseInv
<1> QED
    BY <1>2, <1>3, <1>5 DEF BaseInv

\* Every step keeps it.
LEMMA BaseNext == BaseInv /\ [Next]_vars => BaseInv'
<1> SUFFICES ASSUME BaseInv, [Next]_vars PROVE BaseInv'
    OBVIOUS
<1>1. CASE Tick
    BY <1>1, BaseTick
<1>2. ASSUME NEW r \in Requests, Collect(r) PROVE BaseInv'
    BY <1>2, BaseSalt, BaseSession, BaseEvent DEF Collect
<1>6. ASSUME NEW r \in Requests, Fail(r) PROVE BaseInv'
    BY <1>6, BaseFail
<1>3. ASSUME NEW r \in Requests, NEW p \in Processes, NEW v \in Visitors, NEW k \in Kinds,
             Arrive(r, p, v, k)
      PROVE  BaseInv'
    BY <1>3, BaseArrive
<1>4. ASSUME NEW p \in Processes, Crash(p) PROVE BaseInv'
    BY <1>4, BaseCrash
<1>5. CASE UNCHANGED vars
    <2>1. UNCHANGED <<now, salt, session, user, cadence, memo, req, came, tokens, faults,
                      hashed, seen, named, since, orphans>>
        BY <1>5 DEF vars, redis, history, begun
    <2>2. Shape'
        BY <2>1 DEF BaseInv, Shape
    <2>3. PathInv'
        BY <2>1 DEF BaseInv, PathInv, Path, Skew
    <2>4. Draws' = Draws
        BY <2>1 DEF Draws, Left
    <2>5. TokenInv'
        BY <2>1, <2>4, DrawsShrink DEF BaseInv
    <2> QED
        BY <2>2, <2>3, <2>5 DEF BaseInv
<1> QED
    BY <1>1, <1>2, <1>3, <1>4, <1>5, <1>6 DEF Next

-----------------------------------------------------------------------------
(* Salts and tokens.                                                        *)

\* The last moment of a day is after its requests.
LEMMA EndIs == ASSUME NEW d \in Days PROVE End(d) \in Nat
<1>1. d \in Nat /\ DayLen \in Nat /\ MaxDelay \in Nat
    BY VisitsAssumption DEF Days
<1> QED
    BY <1>1 DEF End

\* A request is counted before the end of its day, and the day's salt outlives it.
LEMMA BeforeTheEnd ==
    ASSUME BaseInv, NEW r \in Requests, req[r].pc # "idle"
    PROVE  now < End(DayOf(req[r])) /\ End(DayOf(req[r])) <= now + SaltTTL
<1> DEFINE a == req[r].at
           k == Skew(req[r].proc)
           d == DayOf(req[r])
<1>1. /\ now \in Nat /\ a \in Nat /\ k \in Nat /\ k <= 1 /\ d \in Nat
      /\ DayLen \in Nat /\ MaxDelay \in Nat /\ SaltTTL \in Nat /\ DayLen + MaxDelay < SaltTTL
    <2>1. req[r] \in Request /\ d \in Days
        BY OnItsWay
    <2>2. a \in Nat /\ d \in Nat
        BY <2>1 DEF Request, Days
    <2>3. k \in Nat /\ k <= 1
        BY DEF Skew
    <2> QED
        BY <2>2, <2>3, VisitsAssumption DEF BaseInv, Shape
<1>2. a <= now + k /\ now + k <= a + MaxDelay
    BY OnItsWay DEF Path
<1>3. d * DayLen <= a /\ a < (d + 1) * DayLen
    BY <1>1, InItsDay DEF DayOf
<1>4. End(d) = (d + 1) * DayLen + MaxDelay
    BY DEF End
<1> HIDE DEF a, k, d
<1>5. (d + 1) * DayLen = d * DayLen + DayLen /\ d * DayLen \in Nat
    BY <1>1
<1>6. now < (d + 1) * DayLen + MaxDelay /\ (d + 1) * DayLen + MaxDelay <= now + SaltTTL
    <2> DEFINE m == d * DayLen
    <2>1. m \in Nat /\ m <= a /\ a < m + DayLen
        BY <1>3, <1>5
    <2> HIDE DEF m
    <2>2. now < m + DayLen + MaxDelay /\ m + DayLen + MaxDelay <= now + SaltTTL
        BY <1>1, <1>2, <2>1
    <2> QED
        BY <1>1, <1>5, <2>2 DEF m
<1> QED
    BY <1>4, <1>6 DEF d

\* A step that draws nothing.
LEMMA FreshKept ==
    ASSUME BaseInv, BaseInv', FreshInv, tokens' = tokens,
           \A d \in Days : salt'[d].val \in {salt[d].val, None},
           \A x \in hashed' : x \in hashed \/ salt[x[1]].val = x[2],
           \A h \in Hashes : session'[h].val \in {session[h].val, None},
           \A r \in Requests : req'[r].session \in Sessions \cup {None},
           \A x \in named' : x[1] \in Sessions
    PROVE  FreshInv'
<1>1. \A x \in hashed' : x[1] \in Days /\ x[2] \in Tokens /\ x[2] # None
    <2> SUFFICES ASSUME NEW x \in hashed' PROVE x[1] \in Days /\ x[2] \in Tokens /\ x[2] # None
        OBVIOUS
    <2>1. x \in Days \X Tokens
        BY DEF BaseInv, Shape
    <2>2. None \notin Tokens
        BY VisitsAssumption DEF Tokens
    <2> QED
        BY <2>1, <2>2
<1>2. Salts' \subseteq Salts \cup {None}
    BY <1>1 DEF Salts
<1>3. Sessions' \subseteq Sessions \cup {None}
    BY DEF Sessions
<1>4. /\ (Salts \cup Sessions \subseteq 1..tokens \cup {None})'
      /\ (Salts \cap Sessions \subseteq {None})'
    BY <1>2, <1>3 DEF FreshInv
<1>5. \A d, e \in Days : salt'[d].val = salt'[e].val /\ salt'[d].val # None => d = e
    BY DEF FreshInv
<1>6. \A x \in hashed', d \in Days : salt'[d].val = x[2] => d = x[1]
    <2> SUFFICES ASSUME NEW x \in hashed', NEW d \in Days, salt'[d].val = x[2] PROVE d = x[1]
        OBVIOUS
    <2>1. salt[d].val = x[2] /\ x[2] # None /\ x[1] \in Days
        BY <1>1
    <2> QED
        BY <2>1 DEF FreshInv
<1> QED
    BY <1>4, <1>5, <1>6 DEF FreshInv

\* A step that draws a token, for a salt or for a session.
LEMMA FreshDrawn ==
    ASSUME BaseInv, FreshInv, tokens' = tokens + 1, UNCHANGED <<hashed, named>>,
           \A r \in Requests : req'[r].session = req[r].session,
           \/ /\ UNCHANGED session
              /\ \E d \in Days : salt'[d].val = tokens + 1 /\ \A e \in Days \ {d} : salt'[e] = salt[e]
           \/ /\ UNCHANGED salt
              /\ \E h \in Hashes : session'[h].val = tokens + 1 /\ \A g \in Hashes \ {h} : session'[g] = session[g]
    PROVE  FreshInv'
<1> DEFINE t == tokens + 1
<1>0. tokens \in Nat
    BY DEF BaseInv, Shape
<1>1. /\ t \notin 1..tokens /\ 1..tokens \subseteq 1..t /\ t \in 1..t /\ t # None
      /\ None \notin 1..tokens
    BY <1>0, VisitsAssumption
<1>2. t \notin Salts \cup Sessions
    BY <1>1 DEF FreshInv
<1> HIDE DEF t
<1>3. CASE /\ UNCHANGED session
           /\ \E d \in Days : salt'[d].val = t /\ \A e \in Days \ {d} : salt'[e] = salt[e]
    <2>1. PICK d \in Days : salt'[d].val = t /\ \A e \in Days \ {d} : salt'[e] = salt[e]
        BY <1>3
    <2>2. Salts' \subseteq Salts \cup {t} /\ Sessions' = Sessions
        BY <1>3, <2>1 DEF Salts, Sessions
    <2>3. \A e \in Days : salt[e].val # t
        BY <1>2 DEF Salts
    <2>4. \A x \in hashed : x[2] # t
        BY <1>2 DEF Salts
    <2>5. /\ (Salts \cup Sessions \subseteq 1..tokens \cup {None})'
          /\ (Salts \cap Sessions \subseteq {None})'
        BY <1>1, <1>2, <2>2 DEF FreshInv, t
    <2>6. \A e, f \in Days : salt'[e].val = salt'[f].val /\ salt'[e].val # None => e = f
        BY <2>1, <2>3 DEF FreshInv
    <2>7. \A x \in hashed', e \in Days : salt'[e].val = x[2] => e = x[1]
        BY <2>1, <2>4 DEF FreshInv
    <2> QED
        BY <2>5, <2>6, <2>7 DEF FreshInv
<1>4. CASE /\ UNCHANGED salt
           /\ \E h \in Hashes : session'[h].val = t /\ \A g \in Hashes \ {h} : session'[g] = session[g]
    <2>1. PICK h \in Hashes : session'[h].val = t /\ \A g \in Hashes \ {h} : session'[g] = session[g]
        BY <1>4
    <2>2. Sessions' \subseteq Sessions \cup {t} /\ Salts' = Salts
        BY <1>4, <2>1 DEF Salts, Sessions
    <2>3. /\ (Salts \cup Sessions \subseteq 1..tokens \cup {None})'
          /\ (Salts \cap Sessions \subseteq {None})'
        BY <1>1, <1>2, <2>2 DEF FreshInv, t
    <2> QED
        BY <1>4, <2>3 DEF FreshInv
<1> QED
    BY <1>3, <1>4 DEF t

\* The session of a request that goes on.
LEMMA SessionStays ==
    ASSUME req \in [Requests -> Request], NEW r \in Requests, NEW n \in Request,
           req' = [req EXCEPT ![r] = n]
    PROVE  \A s \in Requests : req'[s].session \in {req[s].session, n.session}
OBVIOUS

\* And of one that ends.
LEMMA SessionEnds ==
    ASSUME req \in [Requests -> Request], NEW r \in Requests, Done(r)
    PROVE  \A s \in Requests : req'[s].session \in {req[s].session, None}
<1>1. NoRequest.session = None
    BY DEF NoRequest
<1> QED
    BY <1>1 DEF Done

\* What salts, sessions and names a step may leave behind.
LEMMA FreshNext ==
    ASSUME BaseInv, BaseInv', FreshInv, SaltInv, [Next]_vars
    PROVE  FreshInv'
<1>1. \A r \in Requests : req[r].session \in Sessions
    BY DEF Sessions
<1>2. \A x \in named : x[1] \in Sessions
    BY DEF Sessions
<1>3. NoRequest.session = None /\ Missing.val = None
    BY DEF NoRequest, Missing
<1>4. req \in [Requests -> Request]
    BY DEF BaseInv, Shape
<1>5. CASE Tick
    <2>1. UNCHANGED <<req, tokens, hashed, named>>
        BY <1>5 DEF Tick, history
    <2>2. \A d \in Days : salt'[d].val \in {salt[d].val, None}
        BY <1>3, <1>5 DEF Tick, BaseInv, Shape
    <2>3. \A h \in Hashes : session'[h].val \in {session[h].val, None}
        BY <1>3, <1>5 DEF Tick, BaseInv, Shape
    <2> QED
        BY <1>1, <1>2, <2>1, <2>2, <2>3, FreshKept
<1>6. ASSUME NEW r \in Requests, Recall(r) PROVE FreshInv'
    <2>1. UNCHANGED <<salt, session, tokens, named>>
        BY <1>6 DEF Recall, redis
    <2>2. \A s \in Requests : req'[s].session = req[s].session
        BY <1>4, <1>6 DEF Recall, Hash, Goto, Request
    <2>3. \A x \in hashed' : x \in hashed
        <3>1. req[r].proc \in Processes
            BY <1>6, OnItsWay DEF Recall, At, Path
        <3> QED
            BY <1>6, <3>1 DEF Recall, Recalls, Hash, SaltInv
    <2> QED
        BY <1>1, <1>2, <2>1, <2>2, <2>3, FreshKept
<1>7. ASSUME NEW r \in Requests, SetSalt(r) PROVE FreshInv'
    <2> DEFINE d == DayOf(req[r])
    <2>1. UNCHANGED <<session, hashed, named>>
        BY <1>7 DEF SetSalt, history
    <2>2. \A s \in Requests : req'[s].session = req[s].session
        BY <1>4, <1>7 DEF SetSalt, Goto, Request
    <2>3. d \in Days
        BY <1>7, OnItsWay DEF SetSalt, At
    <2>4. CASE salt[d].val # None
        <3>1. UNCHANGED <<salt, tokens>>
            BY <1>7, <2>4 DEF SetSalt, SetNX
        <3> QED
            BY <1>1, <1>2, <2>1, <2>2, <3>1, FreshKept
    <2>5. CASE salt[d].val = None
        <3>1. tokens' = tokens + 1 /\ salt' = [salt EXCEPT ![d] = Key(tokens + 1, SaltTTL)]
            BY <1>7, <2>5 DEF SetSalt, SetNX
        <3>2. salt'[d].val = tokens + 1 /\ \A e \in Days \ {d} : salt'[e] = salt[e]
            BY <2>3, <3>1 DEF BaseInv, Shape, Key
        <3> QED
            BY <2>1, <2>2, <2>3, <3>1, <3>2, FreshDrawn
    <2> QED
        BY <2>4, <2>5
<1>8. ASSUME NEW r \in Requests, GetSalt(r) PROVE FreshInv'
    <2>1. UNCHANGED <<salt, session, tokens, named>>
        BY <1>8 DEF GetSalt, redis
    <2>2. \A s \in Requests : req'[s].session \in {req[s].session, None}
        <3> DEFINE t == salt[DayOf(req[r])].val
                   q == [req[r] EXCEPT !.retried = TRUE, !.pc = "set salt"]
                   n == [req[r] EXCEPT !.salt = t, !.retried = FALSE, !.pc = "session"]
        <3>1. t \in Tokens \cup {None}
            BY <1>8, OnItsWay DEF GetSalt, At, BaseInv, Shape, Timed
        <3>2. /\ q \in Request /\ q.session = req[r].session
              /\ n \in Request /\ n.session = req[r].session
            BY <1>4, <3>1 DEF Request, Steps, BeforeHash
        <3>3. Done(r) \/ req' = [req EXCEPT ![r] = q] \/ req' = [req EXCEPT ![r] = n]
            BY <1>8 DEF GetSalt, Retry, Hash, Goto
        <3> HIDE DEF t, q, n
        <3> QED
            BY <1>4, <3>2, <3>3, SessionEnds, SessionStays
    <2>3. \A x \in hashed' : x \in hashed \/ salt[x[1]].val = x[2]
        <3>1. hashed' \subseteq hashed \cup {<<DayOf(req[r]), salt[DayOf(req[r])].val>>}
            BY <1>8 DEF GetSalt, Hash
        <3> QED
            BY <3>1
    <2> QED
        BY <1>1, <1>2, <2>1, <2>2, <2>3, FreshKept
<1>9. ASSUME NEW r \in Requests, SetSession(r) PROVE FreshInv'
    <2> DEFINE h == HashOf(req[r])
    <2>1. UNCHANGED <<salt, hashed, named>>
        BY <1>9 DEF SetSession, history
    <2>2. \A s \in Requests : req'[s].session = req[s].session
        BY <1>4, <1>9 DEF SetSession, Goto, Request
    <2>3. h \in Hashes
        BY <1>9, OnItsWay DEF SetSession, At, Path, BeforeHash
    <2>4. CASE session[h].val # None
        <3>1. UNCHANGED <<session, tokens>>
            BY <1>9, <2>4 DEF SetSession, SetNX
        <3> QED
            BY <1>1, <1>2, <2>1, <2>2, <3>1, FreshKept
    <2>5. CASE session[h].val = None
        <3>1. tokens' = tokens + 1 /\ session' = [session EXCEPT ![h] = Key(tokens + 1, SessionGap)]
            BY <1>9, <2>5 DEF SetSession, SetNX
        <3>2. session'[h].val = tokens + 1 /\ \A g \in Hashes \ {h} : session'[g] = session[g]
            BY <2>3, <3>1 DEF BaseInv, Shape, Key
        <3> QED
            BY <2>1, <2>2, <2>3, <3>1, <3>2, FreshDrawn
    <2> QED
        BY <2>4, <2>5
<1>10. ASSUME NEW r \in Requests, GetSession(r) PROVE FreshInv'
    <2>1. UNCHANGED <<salt, session, tokens, hashed, named>>
        BY <1>10 DEF GetSession, redis, history
    <2>2. HashOf(req[r]) \in Hashes
        BY <1>10, OnItsWay DEF GetSession, At, Path, BeforeHash
    <2>3. \A s \in Requests : req'[s].session \in {req[s].session, None, session[HashOf(req[r])].val}
        <3> DEFINE t == session[HashOf(req[r])].val
                   q == [req[r] EXCEPT !.retried = TRUE, !.pc = "session"]
                   n == [req[r] EXCEPT !.session = t, !.pc = "slide"]
        <3>1. t \in Tokens \cup {None}
            BY <2>2 DEF BaseInv, Shape, Timed
        <3>2. /\ q \in Request /\ q.session = req[r].session
              /\ n \in Request /\ n.session = t
            BY <1>4, <3>1 DEF Request, Steps, InSession
        <3>3. Done(r) \/ req' = [req EXCEPT ![r] = q] \/ req' = [req EXCEPT ![r] = n]
            BY <1>10 DEF GetSession, Retry, Goto
        <3> HIDE DEF q, n
        <3> QED
            BY <1>4, <3>2, <3>3, SessionEnds, SessionStays
    <2>4. session[HashOf(req[r])].val \in Sessions
        BY <2>2 DEF Sessions
    <2> QED
        BY <1>1, <1>2, <2>1, <2>3, <2>4, FreshKept
<1>11. ASSUME NEW r \in Requests, Slide(r) PROVE FreshInv'
    <2>1. UNCHANGED <<salt, tokens, hashed, named>>
        BY <1>11 DEF Slide
    <2>2. \A s \in Requests : req'[s].session = req[s].session
        BY <1>4, <1>11 DEF Slide, Goto, Request
    <2>3. \A h \in Hashes : session'[h].val = session[h].val
        <3>1. \A e : Key(session[HashOf(req[r])].val, e).val = session[HashOf(req[r])].val
            BY DEF Key
        <3> QED
            BY <1>11, <3>1 DEF Slide, BaseInv, Shape
    <2> QED
        BY <1>1, <1>2, <2>1, <2>2, <2>3, FreshKept
<1>12. ASSUME NEW r \in Requests, Identify(r) \/ UserFor(r) PROVE FreshInv'
    <2>1. UNCHANGED <<salt, session, tokens, hashed>>
        BY <1>12 DEF Identify, UserFor, redis
    <2>2. \A s \in Requests : req'[s].session \in {req[s].session, None}
        <3>1. CASE Identify(r)
            BY <1>4, <3>1, SessionEnds DEF Identify
        <3>2. CASE UserFor(r)
            <4>1. PICK u \in Users \cup {None} : Goto(r, [req[r] EXCEPT !.user = u], "count")
                <5>1. req[r].session \in Tokens
                    BY <3>2, OnItsWay DEF UserFor, At, Path, InSession
                <5>2. user[req[r].session].val \in Users \cup {None}
                    BY <5>1 DEF BaseInv, Shape, Timed
                <5> QED
                    BY <3>2, <5>2 DEF UserFor, BindingKey
            <4> DEFINE n == [req[r] EXCEPT !.user = u, !.pc = "count"]
            <4>2. n \in Request /\ n.session = req[r].session /\ req' = [req EXCEPT ![r] = n]
                BY <1>4, <4>1 DEF Request, Steps, InSession, Goto
            <4> HIDE DEF n
            <4> QED
                BY <1>4, <4>2, SessionStays
        <3> QED
            BY <1>12, <3>1, <3>2
    <2>3. \A x \in named' : x[1] \in Sessions
        <3>1. \A x \in named' : x \in named \/ \E u \in Users : x = <<req[r].session, u>>
            BY <1>12 DEF Identify, UserFor
        <3> QED
            BY <1>1, <1>2, <3>1
    <2> QED
        BY <1>1, <2>1, <2>2, <2>3, FreshKept
<1>13. ASSUME NEW r \in Requests, Count(r) \/ ExpireCadence(r) \/ Publish(r) \/ Fail(r)
       PROVE  FreshInv'
    <2>1. UNCHANGED <<salt, session, tokens, hashed, named>>
        BY <1>13 DEF Count, ExpireCadence, Publish, Fail, redis, history
    <2>2. \A s \in Requests : req'[s].session \in {req[s].session, None}
        BY <1>3, <1>4, <1>13 DEF Count, ExpireCadence, Publish, Fail, Done, Goto, Request
    <2> QED
        BY <1>1, <1>2, <2>1, <2>2, FreshKept
<1>14. ASSUME NEW r \in Requests, NEW p \in Processes, NEW v \in Visitors, NEW k \in Kinds,
              Arrive(r, p, v, k)
       PROVE  FreshInv'
    <2>1. UNCHANGED <<salt, session, tokens, hashed, named>>
        BY <1>14 DEF Arrive, redis, history
    <2>2. \A s \in Requests : req'[s].session \in {req[s].session, None}
        BY <1>4, <1>14 DEF Arrive, NoRequest, Goto
    <2> QED
        BY <1>1, <1>2, <2>1, <2>2, FreshKept
<1>15. ASSUME NEW p \in Processes, Crash(p) PROVE FreshInv'
    <2>1. UNCHANGED <<salt, session, tokens, hashed, named>>
        BY <1>15 DEF Crash, redis, history
    <2>2. \A s \in Requests : req'[s].session \in {req[s].session, None}
        BY <1>3, <1>15 DEF Crash
    <2> QED
        BY <1>1, <1>2, <2>1, <2>2, FreshKept
<1>16. CASE UNCHANGED vars
    <2>1. UNCHANGED <<salt, session, tokens, hashed, named, req>>
        BY <1>16 DEF vars, redis, history
    <2> QED
        BY <1>1, <1>2, <2>1, FreshKept
<1> QED
    BY <1>5, <1>6, <1>7, <1>8, <1>9, <1>10, <1>11, <1>12, <1>13, <1>14, <1>15, <1>16
       DEF Next, Collect

\* The salt of a day lives as long as its requests, and every process takes that one.
LEMMA SaltNext ==
    ASSUME BaseInv, BaseInv', FreshInv, SaltInv, [Next]_vars
    PROVE  SaltInv'
<1>1. /\ \A d \in Days : salt[d].val \in Tokens \cup {None} /\ salt[d].exp \in Nat
      /\ \A x \in hashed : x[1] \in Days /\ x[2] \in Tokens /\ x[2] # None
      /\ None \notin Tokens
    <2>1. None \notin Tokens
        BY VisitsAssumption DEF Tokens
    <2>2. \A x \in hashed : x \in Days \X Tokens
        BY DEF BaseInv, Shape
    <2>3. \A d \in Days : salt[d] \in Timed(Tokens \cup {None})
        BY DEF BaseInv, Shape
    <2> QED
        BY <2>1, <2>2, <2>3 DEF Timed
<1>2. CASE UNCHANGED <<now, salt, hashed, memo>>
    <2>1. \A d : End(d)' = End(d)
        BY DEF End
    <2> QED
        BY <1>2, <2>1 DEF SaltInv, SaltIsTheDay
<1>3. CASE Tick
    <2>1. UNCHANGED <<hashed, memo>> /\ now' = now + 1
        BY <1>3 DEF Tick, history
    <2>2. ASSUME NEW d \in Days
          PROVE  \/ salt'[d] = salt[d]
                 \/ salt'[d].val = None /\ salt[d].exp <= now'
        BY <1>3 DEF Tick, BaseInv, Shape, Missing
    <2>3. \A d \in Days : salt'[d].val # None => salt'[d].exp >= End(d)
        BY <2>2 DEF SaltInv
    <2>4. ASSUME NEW x \in hashed
          PROVE  salt'[x[1]].val = x[2] \/ now' >= End(x[1])
        <3> DEFINE d == x[1]
        <3>1. d \in Days /\ End(d) \in Nat /\ now \in Nat /\ salt[d].exp \in Nat
            BY <1>1, EndIs DEF BaseInv, Shape
        <3>2. CASE now >= End(d)
            <4> HIDE DEF d
            <4>1. now' >= End(d)
                BY <2>1, <3>1, <3>2
            <4> QED
                BY <4>1 DEF d
        <3>3. CASE salt[d].val = x[2] /\ salt'[d] = salt[d]
            BY <3>3
        <3>4. CASE salt[d].val = x[2] /\ salt[d].exp <= now'
            <4>1. salt[d].exp >= End(d)
                BY <1>1, <3>1, <3>4 DEF SaltInv
            <4> DEFINE e == salt[d].exp
            <4>2. e \in Nat /\ e >= End(d) /\ e <= now' /\ now' \in Nat
                BY <2>1, <3>1, <3>4, <4>1
            <4> HIDE DEF d, e
            <4>3. now' >= End(d)
                BY <3>1, <4>2
            <4> QED
                BY <4>3 DEF d
        <3> QED
            BY <2>2, <3>1, <3>2, <3>3, <3>4 DEF SaltInv
    <2> QED
        BY <2>1, <2>3, <2>4 DEF SaltInv, SaltIsTheDay, End
<1>4. ASSUME NEW r \in Requests, Recall(r) PROVE SaltInv'
    <2>1. UNCHANGED <<now, salt, memo>>
        BY <1>4 DEF Recall, redis
    <2>2. hashed' = hashed
        <3>1. req[r].proc \in Processes
            BY <1>4, OnItsWay DEF Recall, At, Path
        <3> QED
            BY <1>4, <3>1 DEF Recall, Recalls, Hash, SaltInv
    <2> QED
        BY <1>2, <2>1, <2>2
<1>5. ASSUME NEW r \in Requests, SetSalt(r) PROVE SaltInv'
    <2> DEFINE d == DayOf(req[r])
    <2>1. UNCHANGED <<now, hashed, memo>>
        BY <1>5 DEF SetSalt, history
    <2>2. d \in Days /\ req[r].pc # "idle"
        BY <1>5, OnItsWay DEF SetSalt, At
    <2>3. CASE salt[d].val # None
        <3>1. UNCHANGED salt
            BY <1>5, <2>3 DEF SetSalt, SetNX
        <3> QED
            BY <1>2, <2>1, <3>1
    <2>4. CASE salt[d].val = None
        <3>1. salt' = [salt EXCEPT ![d] = [val |-> tokens + 1, exp |-> now + SaltTTL]]
            BY <1>5, <2>4 DEF SetSalt, SetNX, Key
        <3> HIDE DEF d
        <3>2. /\ salt'[d].exp = now + SaltTTL
              /\ \A e \in Days \ {d} : salt'[e] = salt[e]
            BY <2>2, <3>1 DEF BaseInv, Shape
        <3>3. now + SaltTTL >= End(d)
            <4>1. End(d) <= now + SaltTTL
                BY <2>2, BeforeTheEnd DEF d
            <4>2. End(d) \in Nat /\ now + SaltTTL \in Nat
                BY <2>2, EndIs, VisitsAssumption DEF BaseInv, Shape
            <4> QED
                BY <4>1, <4>2
        <3>4. \A e \in Days : salt'[e].val # None => salt'[e].exp >= End(e)
            BY <3>2, <3>3 DEF SaltInv
        <3>5. \A x \in hashed : salt'[x[1]].val = x[2] \/ now >= End(x[1])
            BY <1>1, <2>4, <3>2 DEF SaltInv
        <3>6. \A p \in Processes : memo[p].salt # None => <<memo[p].day, memo[p].salt>> \in hashed
            BY DEF SaltInv
        <3>7. SaltIsTheDay'
            BY <2>1 DEF SaltInv, SaltIsTheDay
        <3> QED
            BY <2>1, <3>4, <3>5, <3>6, <3>7 DEF SaltInv, End
    <2> QED
        BY <2>3, <2>4
<1>6. ASSUME NEW r \in Requests, GetSalt(r) PROVE SaltInv'
    <2> DEFINE d == DayOf(req[r])
               t == salt[d].val
    <2>1. UNCHANGED <<now, salt>>
        BY <1>6 DEF GetSalt, redis
    <2>2. d \in Days /\ req[r].pc # "idle" /\ req[r].proc \in Processes
        BY <1>6, OnItsWay DEF GetSalt, At, Path
    <2>3. CASE t = None
        <3>1. UNCHANGED <<memo, hashed>>
            BY <1>6, <2>3 DEF GetSalt
        <3> QED
            BY <1>2, <2>1, <3>1
    <2>4. CASE t # None
        <3>1. /\ hashed' = hashed \cup {<<d, t>>}
              /\ memo' = [memo EXCEPT ![req[r].proc] = [day |-> d, salt |-> t]]
            BY <1>6, <2>4 DEF GetSalt, Hash
        <3>2. \A e \in Days : salt'[e].val # None => salt'[e].exp >= End(e)
            BY <2>1 DEF SaltInv
        <3>3. \A x \in hashed' : salt'[x[1]].val = x[2] \/ now' >= End(x[1])
            BY <2>1, <3>1 DEF SaltInv
        <3>4. \A p \in Processes : memo'[p].salt # None => <<memo'[p].day, memo'[p].salt>> \in hashed'
            BY <2>2, <3>1 DEF SaltInv, BaseInv, Shape
        <3>5. \A x \in hashed : x[1] = d <=> x[2] = t
            <4> SUFFICES ASSUME NEW x \in hashed PROVE x[1] = d <=> x[2] = t
                OBVIOUS
            <4>1. ASSUME x[1] = d PROVE x[2] = t
                <5>1. now < End(d)
                    BY <2>2, BeforeTheEnd
                <5>2. End(d) \in Nat /\ now \in Nat
                    BY <2>2, EndIs DEF BaseInv, Shape
                <5>3. ~(now >= End(d))
                    BY <5>1, <5>2
                <5> QED
                    BY <4>1, <5>3 DEF SaltInv
            <4>2. ASSUME x[2] = t PROVE x[1] = d
                BY <2>2, <4>2 DEF FreshInv
            <4> QED
                BY <4>1, <4>2
        <3>6. SaltIsTheDay'
            <4> HIDE DEF d, t
            <4>1. \A x \in hashed' : x \in hashed \/ (x[1] = d /\ x[2] = t)
                BY <3>1
            <4> QED
                BY <3>5, <4>1 DEF SaltInv, SaltIsTheDay
        <3> QED
            BY <3>2, <3>3, <3>4, <3>6 DEF SaltInv, End
    <2> QED
        BY <2>3, <2>4
<1>7. ASSUME NEW p \in Processes, Crash(p) PROVE SaltInv'
    <2>1. UNCHANGED <<now, salt, hashed>> /\ memo' = [memo EXCEPT ![p] = NoMemo]
        BY <1>7 DEF Crash, redis, history
    <2>2. \A q \in Processes : memo'[q].salt # None => memo'[q] = memo[q]
        BY <2>1 DEF NoMemo, BaseInv, Shape
    <2> QED
        BY <2>1, <2>2 DEF SaltInv, SaltIsTheDay, End
<1>8. ASSUME NEW r \in Requests,
             \/ SetSession(r) \/ GetSession(r) \/ Slide(r) \/ Identify(r) \/ UserFor(r)
             \/ Count(r) \/ ExpireCadence(r) \/ Publish(r) \/ Fail(r)
      PROVE  SaltInv'
    BY <1>2, <1>8 DEF SetSession, GetSession, Slide, Identify, UserFor, Count, ExpireCadence,
                      Publish, Fail, redis, history
<1>9. ASSUME NEW r \in Requests, NEW p \in Processes, NEW v \in Visitors, NEW k \in Kinds,
             Arrive(r, p, v, k)
      PROVE  SaltInv'
    BY <1>2, <1>9 DEF Arrive, redis, history
<1>10. CASE UNCHANGED vars
    BY <1>2, <1>10 DEF vars, redis, history
<1> QED
    BY <1>3, <1>4, <1>5, <1>6, <1>7, <1>8, <1>9, <1>10 DEF Next, Collect

-----------------------------------------------------------------------------
(* Sessions, users and counters.                                            *)

\* A session is gone only when no request slid it for its gap.
LEMMA SessionNext ==
    ASSUME BaseInv, BaseInv', SessionInv, [Next]_vars
    PROVE  SessionInv'
<1>1. now \in Nat /\ now' \in Nat /\ SessionGap \in Nat
    BY VisitsAssumption DEF BaseInv, Shape
<1>2. CASE UNCHANGED <<now, session, seen>>
    BY <1>2 DEF SessionInv
<1>3. CASE Tick
    <2>1. UNCHANGED seen /\ now' = now + 1
        BY <1>3 DEF Tick, history
    <2> SUFFICES ASSUME NEW h \in Hashes, seen[h] >= 0
                 PROVE  /\ seen[h] <= now'
                        /\ IF session'[h].val = None THEN now' >= seen[h] + SessionGap
                                                     ELSE session'[h].exp >= seen[h] + SessionGap
        BY <2>1 DEF SessionInv
    <2> DEFINE s == seen[h]
               e == session[h].exp
    <2>2. \/ session'[h] = session[h]
          \/ session'[h].val = None /\ e <= now'
        BY <1>3 DEF Tick, BaseInv, Shape, Missing
    <2>3. /\ s <= now
          /\ IF session[h].val = None THEN now >= s + SessionGap ELSE e >= s + SessionGap
        BY DEF SessionInv
    <2>4. s \in Int /\ e \in Nat
        BY DEF BaseInv, Shape, Timed
    <2> DEFINE v == session[h].val
               w == session'[h].val
               f == session'[h].exp
    <2>5. (w = v /\ f = e) \/ (w = None /\ e <= now')
        BY <2>2
    <2> HIDE DEF s, e, v, w, f
    <2>6. s <= now' /\ IF w = None THEN now' >= s + SessionGap ELSE f >= s + SessionGap
        BY <1>1, <2>1, <2>3, <2>4, <2>5 DEF v
    <2> QED
        BY <2>6 DEF s, w, f
<1>4. ASSUME NEW r \in Requests, SetSession(r) PROVE SessionInv'
    <2> DEFINE h == HashOf(req[r])
    <2>1. UNCHANGED <<now, seen>>
        BY <1>4 DEF SetSession, history
    <2>2. h \in Hashes
        BY <1>4, OnItsWay DEF SetSession, At, Path, BeforeHash
    <2>3. CASE session[h].val # None
        <3>1. UNCHANGED session
            BY <1>4, <2>3 DEF SetSession, SetNX
        <3> QED
            BY <1>2, <2>1, <3>1
    <2>4. CASE session[h].val = None
        <3>1. session' = [session EXCEPT ![h] = [val |-> tokens + 1, exp |-> now + SessionGap]]
            BY <1>4, <2>4 DEF SetSession, SetNX, Key
        <3> HIDE DEF h
        <3>2. /\ session'[h].val = tokens + 1 /\ session'[h].exp = now + SessionGap
              /\ \A g \in Hashes \ {h} : session'[g] = session[g]
            BY <2>2, <3>1 DEF BaseInv, Shape
        <3>3. tokens + 1 # None
            BY VisitsAssumption DEF BaseInv, Shape
        <3>4. ASSUME seen[h] >= 0
              PROVE  seen[h] <= now /\ session'[h].exp >= seen[h] + SessionGap
            <4>1. seen[h] \in Int /\ seen[h] <= now
                BY <2>2, <3>4 DEF BaseInv, Shape, SessionInv
            <4>2. now + SessionGap >= seen[h] + SessionGap
                BY <1>1, <4>1
            <4> QED
                BY <3>2, <4>1, <4>2
        <3> QED
            BY <2>1, <3>2, <3>3, <3>4 DEF SessionInv
    <2> QED
        BY <2>3, <2>4
<1>5. ASSUME NEW r \in Requests, Slide(r) PROVE SessionInv'
    <2> DEFINE h == HashOf(req[r])
               s == session[h].val
    <2>1. UNCHANGED now
        BY <1>5 DEF Slide
    <2>2. h \in Hashes
        BY <1>5, OnItsWay DEF Slide, At, Path, BeforeHash
    <2>3. CASE s = None
        <3>1. UNCHANGED <<session, seen>>
            BY <1>5, <2>3 DEF Slide
        <3> QED
            BY <1>2, <2>1, <3>1
    <2>4. CASE s # None
        <3>1. /\ session' = [session EXCEPT ![h] = [val |-> s, exp |-> now + SessionGap]]
              /\ seen' = [seen EXCEPT ![h] = now]
            BY <1>5, <2>4 DEF Slide, Key
        <3> HIDE DEF h, s
        <3>2. /\ session'[h].val = s /\ session'[h].exp = now + SessionGap /\ seen'[h] = now
              /\ \A g \in Hashes \ {h} : session'[g] = session[g] /\ seen'[g] = seen[g]
            BY <2>2, <3>1 DEF BaseInv, Shape
        <3>3. now <= now /\ now + SessionGap >= now + SessionGap
            BY <1>1
        <3> QED
            BY <2>1, <2>4, <3>2, <3>3 DEF SessionInv
    <2> QED
        BY <2>3, <2>4
<1>6. ASSUME NEW r \in Requests,
             \/ Recall(r) \/ SetSalt(r) \/ GetSalt(r) \/ GetSession(r) \/ Identify(r) \/ UserFor(r)
             \/ Count(r) \/ ExpireCadence(r) \/ Publish(r) \/ Fail(r)
      PROVE  SessionInv'
    BY <1>2, <1>6 DEF Recall, SetSalt, GetSalt, GetSession, Identify, UserFor, Count,
                      ExpireCadence, Publish, Fail, redis, history
<1>7. ASSUME NEW r \in Requests, NEW p \in Processes, NEW v \in Visitors, NEW k \in Kinds,
             Arrive(r, p, v, k)
      PROVE  SessionInv'
    BY <1>2, <1>7 DEF Arrive, redis, history
<1>8. ASSUME NEW p \in Processes, Crash(p) PROVE SessionInv'
    BY <1>2, <1>8 DEF Crash, redis, history
<1>9. CASE UNCHANGED vars
    BY <1>2, <1>9 DEF vars, redis, history
<1> QED
    BY <1>3, <1>4, <1>5, <1>6, <1>7, <1>8, <1>9 DEF Next, Collect

\* Only identify() and UserFor give a session or a request a user.
LEMMA UserNext ==
    ASSUME BaseInv, BaseInv', UserInv, [Next]_vars
    PROVE  UserInv'
<1>1. req \in [Requests -> Request]
    BY DEF BaseInv, Shape
<1>2. NoRequest.user = None
    BY DEF NoRequest
<1>4. CASE UNCHANGED <<user, named, req>>
    BY <1>4 DEF UserInv
<1>5. CASE Tick
    <2>1. UNCHANGED <<req, named>>
        BY <1>5 DEF Tick, history
    <2>2. \A s \in Tokens : user'[s].val # None => user'[s] = user[s]
        BY <1>5 DEF Tick, BaseInv, Shape, Missing
    <2> QED
        BY <2>1, <2>2 DEF UserInv
<1>6. ASSUME NEW r \in Requests,
             \/ Recall(r) \/ SetSalt(r) \/ GetSalt(r) \/ SetSession(r) \/ GetSession(r) \/ Slide(r)
      PROVE  UserInv'
    <2>1. UNCHANGED <<user, named>>
        BY <1>6 DEF Recall, SetSalt, GetSalt, SetSession, GetSession, Slide, redis, history
    <2>2. req[r].user = None
        BY <1>6 DEF Recall, SetSalt, GetSalt, SetSession, GetSession, Slide, At, UserInv
    <2>3. \E n : req' = [req EXCEPT ![r] = n] /\ n.user = None
        <3>1. \A s : [[req[r] EXCEPT !.salt = s, !.retried = FALSE] EXCEPT !.pc = "session"].user = None
            BY <1>1, <2>2 DEF Request
        <3>2. \A s : [[req[r] EXCEPT !.session = s] EXCEPT !.pc = "slide"].user = None
            BY <1>1, <2>2 DEF Request
        <3>3. \A pc : [[req[r] EXCEPT !.retried = TRUE] EXCEPT !.pc = pc].user = None
            BY <1>1, <2>2 DEF Request
        <3>4. \A pc : [req[r] EXCEPT !.pc = pc].user = None
            BY <1>1, <2>2 DEF Request
        <3>5. CASE Recall(r)
            BY <3>1, <3>5 DEF Recall, Hash, Goto
        <3>6. CASE SetSalt(r)
            BY <3>4, <3>6 DEF SetSalt, Goto
        <3>7. CASE GetSalt(r)
            BY <1>2, <3>1, <3>3, <3>7 DEF GetSalt, Hash, Retry, Done, Goto
        <3>8. CASE SetSession(r)
            BY <3>4, <3>8 DEF SetSession, Goto
        <3>9. CASE GetSession(r)
            BY <1>2, <3>2, <3>3, <3>9 DEF GetSession, Retry, Done, Goto
        <3>10. CASE Slide(r)
            BY <3>4, <3>10 DEF Slide, Goto
        <3> QED
            BY <1>6, <3>5, <3>6, <3>7, <3>8, <3>9, <3>10
    <2>4. \A s \in Requests : req'[s].user = None \/ req'[s] = req[s]
        BY <1>1, <2>3
    <2> QED
        BY <2>1, <2>4 DEF UserInv
<1>7. ASSUME NEW r \in Requests, Identify(r) PROVE UserInv'
    <2> DEFINE t == req[r].session
    <2>1. t \in Tokens
        BY <1>7, OnItsWay DEF Identify, At, Path, InSession
    <2>2. PICK u \in Users : user' = [user EXCEPT ![t] = Key(u, SessionGap)] /\ named' = named \cup {<<t, u>>}
        BY <1>7 DEF Identify, BindingKey
    <2> HIDE DEF t
    <2>3. Key(u, SessionGap).val = u
        BY DEF Key
    <2>4. \A s \in Tokens : user'[s].val # None => <<s, user'[s].val>> \in named'
        BY <2>1, <2>2, <2>3 DEF UserInv, BaseInv, Shape
    <2>5. \A s \in Requests : req'[s].user = None \/ req'[s] = req[s]
        BY <1>1, <1>2, <1>7 DEF Identify, Done
    <2>6. named \subseteq named'
        BY <2>2
    <2> QED
        BY <2>4, <2>5, <2>6 DEF UserInv
<1>8. ASSUME NEW r \in Requests, UserFor(r) PROVE UserInv'
    <2> DEFINE t == req[r].session
    <2>1. t \in Tokens
        BY <1>8, OnItsWay DEF UserFor, At, Path, InSession
    <2>2. PICK u : /\ Goto(r, [req[r] EXCEPT !.user = u], "count")
                   /\ named \subseteq named'
                   /\ u # None => <<t, u>> \in named'
        <3>1. user[t].val # None => <<t, user[t].val>> \in named
            BY <2>1 DEF UserInv
        <3> QED
            BY <1>8, <3>1 DEF UserFor, BindingKey
    <2> DEFINE n == [req[r] EXCEPT !.user = u, !.pc = "count"]
    <2>3. n.user = u /\ n.pc = "count" /\ n.session = t /\ req' = [req EXCEPT ![r] = n]
        BY <1>1, <2>2 DEF Request, Goto
    <2>4. UNCHANGED user
        BY <1>8 DEF UserFor, redis
    <2> HIDE DEF n, t
    <2>5. req'[r] = n /\ \A s \in Requests \ {r} : req'[s] = req[s]
        BY <1>1, <2>3
    <2>6. u # None => <<n.session, n.user>> \in named'
        BY <2>2, <2>3
    <2>7. \A s \in Tokens : user'[s].val # None => <<s, user'[s].val>> \in named'
        BY <2>2, <2>4 DEF UserInv
    <2>8. ASSUME NEW s \in Requests, req'[s].user # None
          PROVE  /\ req'[s].pc \in {"count", "expire", "publish"}
                 /\ <<req'[s].session, req'[s].user>> \in named'
        <3>1. CASE s = r
            BY <2>3, <2>5, <2>6, <2>8, <3>1
        <3>2. CASE s # r
            BY <2>2, <2>5, <2>8, <3>2 DEF UserInv
        <3> QED
            BY <3>1, <3>2
    <2> QED
        BY <2>7, <2>8 DEF UserInv
<1>9. ASSUME NEW r \in Requests, Count(r) \/ ExpireCadence(r) PROVE UserInv'
    <2>1. UNCHANGED <<user, named>>
        BY <1>9 DEF Count, ExpireCadence, history
    <2>2. PICK pc \in {"expire", "publish"} : req' = [req EXCEPT ![r] = [req[r] EXCEPT !.pc = pc]]
        BY <1>9 DEF Count, ExpireCadence, Goto
    <2> DEFINE n == [req[r] EXCEPT !.pc = pc]
    <2>3. n.user = req[r].user /\ n.session = req[r].session /\ n.pc = pc
        BY <1>1 DEF Request
    <2> HIDE DEF n
    <2>4. \A s \in Requests : req'[s] = IF s = r THEN n ELSE req[s]
        BY <1>1, <2>2 DEF n
    <2> QED
        BY <2>1, <2>2, <2>3, <2>4 DEF UserInv
<1>10. ASSUME NEW r \in Requests, Publish(r) \/ Fail(r) PROVE UserInv'
    <2>1. UNCHANGED <<user, named>>
        BY <1>10 DEF Publish, Fail, redis, history
    <2>2. \A s \in Requests : req'[s].user = None \/ req'[s] = req[s]
        BY <1>1, <1>2, <1>10 DEF Publish, Fail, Done
    <2> QED
        BY <2>1, <2>2 DEF UserInv
<1>11. ASSUME NEW r \in Requests, NEW p \in Processes, NEW v \in Visitors, NEW k \in Kinds,
              Arrive(r, p, v, k)
       PROVE  UserInv'
    <2>1. UNCHANGED <<user, named>>
        BY <1>11 DEF Arrive, redis, history
    <2>2. \A s \in Requests : req'[s].user = None \/ req'[s] = req[s]
        BY <1>1, <1>11 DEF Arrive, Goto, NoRequest
    <2> QED
        BY <2>1, <2>2 DEF UserInv
<1>12. ASSUME NEW p \in Processes, Crash(p) PROVE UserInv'
    <2>1. UNCHANGED <<user, named>>
        BY <1>12 DEF Crash, redis, history
    <2>2. \A s \in Requests : req'[s].user = None \/ req'[s] = req[s]
        BY <1>2, <1>12 DEF Crash
    <2> QED
        BY <2>1, <2>2 DEF UserInv
<1>13. CASE UNCHANGED vars
    BY <1>4, <1>13 DEF vars, redis, history
<1> QED
    BY <1>5, <1>6, <1>7, <1>8, <1>9, <1>10, <1>11, <1>12, <1>13 DEF Next, Collect

\* A request about to give a counter its time to live began it a short while ago.
LEMMA StillYoung ==
    ASSUME BaseInv, BeganInv, NEW r \in Requests, req[r].pc = "expire"
    PROVE  now <= since[HashOf(req[r])] + MaxDelay
<1> DEFINE s == since[HashOf(req[r])]
           k == Skew(req[r].proc)
           a == req[r].at
<1>1. a <= s + k
    BY DEF BeganInv
<1>2. now + k <= a + MaxDelay /\ HashOf(req[r]) \in Hashes
    BY OnItsWay DEF Path, BeforeHash
<1>3. now \in Nat /\ s \in Nat /\ a \in Nat /\ k \in Nat /\ MaxDelay \in Nat
    BY <1>2, VisitsAssumption DEF BaseInv, Shape, Request, Skew
<1> HIDE DEF s, k, a
<1>4. now <= s + MaxDelay
    BY <1>1, <1>2, <1>3
<1> QED
    BY <1>4 DEF s

\* A step of one request leaves the others alone.
LEMMA OneMoves ==
    ASSUME BaseInv, NEW r \in Requests, Collect(r) \/ Fail(r) \/
               \E p \in Processes, v \in Visitors, k \in Kinds : Arrive(r, p, v, k)
    PROVE  \A s \in Requests \ {r} : req'[s] = req[s]
<1>1. Done(r) \/ \E q, pc : Goto(r, q, pc)
    BY DEF Collect, Fail, Arrive, Recall, SetSalt, GetSalt, SetSession, GetSession, Slide, Identify,
           UserFor, Count, ExpireCadence, Publish, Hash, Retry
<1> QED
    BY <1>1 DEF Done, Goto, BaseInv, Shape

\* A step that leaves what is hashed alone keeps a request on this side of the hashing.
LEMMA HashedKept ==
    ASSUME BaseInv, HashedInv, NEW r \in Requests, NEW n, req' = [req EXCEPT ![r] = n],
           hashed \subseteq hashed',
           \/ n.pc \in BeforeHash \cup {"idle"}
           \/ <<DayOf(n), n.salt>> \in hashed'
    PROVE  HashedInv'
<1>1. \A s \in Requests : req'[s] = IF s = r THEN n ELSE req[s]
    BY DEF BaseInv, Shape
<1> QED
    BY <1>1 DEF HashedInv, DayOf

\* A visitor hash is made once, and kept.
LEMMA HashedNext == ASSUME BaseInv, HashedInv, [Next]_vars PROVE HashedInv'
<1>1. req \in [Requests -> Request]
    BY DEF BaseInv, Shape
<1>2. CASE UNCHANGED <<req, hashed>>
    BY <1>2 DEF HashedInv, DayOf
<1>3. ASSUME NEW r \in Requests, Done(r), UNCHANGED hashed PROVE HashedInv'
    BY <1>3, HashedKept DEF Done, NoRequest
<1>4. ASSUME NEW r \in Requests, NEW s, Hash(r, s) PROVE HashedInv'
    <2> DEFINE n == [[req[r] EXCEPT !.salt = s, !.retried = FALSE] EXCEPT !.pc = "session"]
    <2>1. n.at = req[r].at /\ n.salt = s
        BY <1>1 DEF Request
    <2>2. req' = [req EXCEPT ![r] = n] /\ hashed' = hashed \cup {<<DayOf(req[r]), s>>}
        BY <1>4 DEF Hash, Goto
    <2> HIDE DEF n
    <2> QED
        BY <2>1, <2>2, HashedKept DEF DayOf
<1>5. ASSUME NEW r \in Requests, NEW q \in {req[r], [req[r] EXCEPT !.retried = TRUE]}, NEW pc,
             pc \in BeforeHash \/ req[r].pc \notin BeforeHash \cup {"idle"}, Goto(r, q, pc),
             UNCHANGED hashed
      PROVE  HashedInv'
    <2> DEFINE n == [q EXCEPT !.pc = pc]
    <2>1. n.pc = pc /\ n.at = req[r].at /\ n.salt = req[r].salt
        BY <1>1, <1>5 DEF Request
    <2>2. req' = [req EXCEPT ![r] = n]
        BY <1>5 DEF Goto
    <2> HIDE DEF n
    <2> QED
        BY <1>5, <2>1, <2>2, HashedKept DEF HashedInv, DayOf
<1>6. ASSUME NEW r \in Requests, Recall(r) PROVE HashedInv'
    BY <1>4, <1>6 DEF Recall
<1>7. ASSUME NEW r \in Requests, SetSalt(r) PROVE HashedInv'
    BY <1>5, <1>7 DEF SetSalt, history, BeforeHash
<1>8. ASSUME NEW r \in Requests, GetSalt(r) PROVE HashedInv'
    BY <1>3, <1>4, <1>5, <1>8 DEF GetSalt, Retry, BeforeHash
<1>9. ASSUME NEW r \in Requests, SetSession(r) \/ Slide(r) \/ Count(r) \/ ExpireCadence(r)
      PROVE  HashedInv'
    BY <1>5, <1>9 DEF SetSession, Slide, Count, ExpireCadence, history, At, BeforeHash
<1>10. ASSUME NEW r \in Requests, GetSession(r) PROVE HashedInv'
    <2>1. UNCHANGED hashed /\ req[r].pc = "get session"
        BY <1>10 DEF GetSession, history, At
    <2>2. CASE Retry(r, "session")
        BY <1>3, <1>5, <2>1, <2>2 DEF Retry, BeforeHash
    <2>3. ASSUME NEW s, Goto(r, [req[r] EXCEPT !.session = s], "slide") PROVE HashedInv'
        <3> DEFINE n == [[req[r] EXCEPT !.session = s] EXCEPT !.pc = "slide"]
        <3>1. n.at = req[r].at /\ n.salt = req[r].salt
            BY <1>1 DEF Request
        <3>2. req' = [req EXCEPT ![r] = n]
            BY <2>3 DEF Goto
        <3> HIDE DEF n
        <3> QED
            BY <2>1, <3>1, <3>2, HashedKept DEF HashedInv, DayOf, BeforeHash
    <2> QED
        BY <1>10, <2>2, <2>3 DEF GetSession
<1>11. ASSUME NEW r \in Requests, UserFor(r) PROVE HashedInv'
    <2>1. UNCHANGED hashed /\ req[r].pc = "user"
        BY <1>11 DEF UserFor, At
    <2>2. PICK u : Goto(r, [req[r] EXCEPT !.user = u], "count")
        BY <1>11 DEF UserFor
    <2> DEFINE n == [[req[r] EXCEPT !.user = u] EXCEPT !.pc = "count"]
    <2>3. n.at = req[r].at /\ n.salt = req[r].salt
        BY <1>1 DEF Request
    <2>4. req' = [req EXCEPT ![r] = n]
        BY <2>2 DEF Goto
    <2> HIDE DEF n
    <2> QED
        BY <2>1, <2>3, <2>4, HashedKept DEF HashedInv, DayOf, BeforeHash
<1>12. ASSUME NEW r \in Requests, Identify(r) \/ Publish(r) \/ Fail(r) PROVE HashedInv'
    BY <1>3, <1>12 DEF Identify, Publish, Fail, history
<1>13. ASSUME NEW r \in Requests, NEW p \in Processes, NEW v \in Visitors, NEW k \in Kinds,
              Arrive(r, p, v, k)
       PROVE  HashedInv'
    <2> DEFINE n == [[NoRequest EXCEPT !.kind = k, !.proc = p, !.who = v, !.at = now + Skew(p)]
                        EXCEPT !.pc = "salt"]
    <2>1. n.pc = "salt"
        BY DEF NoRequest
    <2>2. req' = [req EXCEPT ![r] = n] /\ UNCHANGED hashed
        BY <1>13 DEF Arrive, Goto, history
    <2> HIDE DEF n
    <2> QED
        BY <2>1, <2>2, HashedKept DEF BeforeHash
<1>14. ASSUME NEW p \in Processes, Crash(p) PROVE HashedInv'
    <2>1. \A s \in Requests : req'[s] \in {req[s], NoRequest}
        BY <1>14 DEF Crash
    <2> QED
        BY <1>14, <2>1 DEF Crash, HashedInv, NoRequest, DayOf
<1>15. CASE Tick \/ UNCHANGED vars
    BY <1>2, <1>15 DEF Tick, vars, history
<1> QED
    BY <1>6, <1>7, <1>8, <1>9, <1>10, <1>11, <1>12, <1>13, <1>14, <1>15 DEF Next, Collect

\* A step that neither counts nor gives a time to live keeps what is said of counters.
LEMMA CounterKept ==
    ASSUME BeganInv, \A h \in Hashes : Counter(h), UNCHANGED <<now, cadence, since>>,
           hashed \subseteq hashed', orphans \subseteq orphans',
           \A r \in Requests :
               /\ req'[r].pc = "expire" => req'[r] = req[r]
               /\ req[r].pc = "expire" => req'[r] = req[r] \/ HashOf(req[r]) \in orphans'
    PROVE  BeganInv' /\ \A h \in Hashes : Counter(h)'
<1>1. BeganInv'
    BY DEF BeganInv, HashOf, Skew
<1>2. ASSUME NEW h \in Hashes, cadence[h].val > 0 PROVE Counter(h)'
    <2>1. /\ since[h] <= now /\ now < cadence[h].exp
          /\ \E d \in Days : <<d, h[1]>> \in hashed /\ d * DayLen <= since[h] + 1
        BY <1>2 DEF Counter
    <2>2. \/ cadence[h].exp <= since[h] + MaxDelay + CadenceWindow
          \/ h \in orphans
          \/ \E r \in Requests : req[r].pc = "expire" /\ HashOf(req[r]) = h
        BY <1>2 DEF Counter
    <2>3. \/ h \in orphans'
          \/ cadence[h].exp <= since[h] + MaxDelay + CadenceWindow
          \/ \E r \in Requests : req'[r].pc = "expire" /\ HashOf(req'[r]) = h
        BY <2>2
    <2> QED
        BY <2>1, <2>3 DEF Counter, HashOf
<1> QED
    BY <1>1, <1>2 DEF Counter

\* A counter begins, or is counted on.
LEMMA CounterCounted ==
    ASSUME BaseInv, HashedInv, BeganInv, \A h \in Hashes : Counter(h), NEW r \in Requests, Count(r)
    PROVE  BeganInv' /\ \A h \in Hashes : Counter(h)'
<1> DEFINE h == HashOf(req[r])
           n == IF cadence[h].val <= CadenceLimit THEN cadence[h].val + 1 ELSE cadence[h].val
           q == [req[r] EXCEPT !.pc = IF n = 1 THEN "expire" ELSE "publish"]
           k == Skew(req[r].proc)
<1>1. /\ req[r].pc = "count" /\ h \in Hashes /\ h[1] = req[r].salt /\ DayOf(req[r]) \in Days
      /\ req[r] \in Request /\ req[r].at <= now + k
    BY OnItsWay DEF Count, At, Path, BeforeHash, HashOf
<1>2. /\ cadence' = [cadence EXCEPT ![h] =
                         [val |-> n, exp |-> IF n = 1 THEN Never ELSE cadence[h].exp]]
      /\ since' = IF n = 1 THEN [since EXCEPT ![h] = now] ELSE since
      /\ req' = [req EXCEPT ![r] = q]
      /\ UNCHANGED <<now, hashed, orphans>>
    BY DEF Count, Goto
<1>3. /\ q.pc = (IF n = 1 THEN "expire" ELSE "publish") /\ HashOf(q) = h /\ q.at = req[r].at
      /\ q.proc = req[r].proc
    BY <1>1 DEF Request, HashOf
<1>4. /\ now \in Nat /\ now <= MaxTime /\ now < Never /\ k \in {0, 1} /\ req[r].at \in Nat
      /\ cadence[h].val \in Nat /\ CadenceLimit \in Nat \ {0}
    BY <1>1, VisitsAssumption DEF BaseInv, Shape, Never, Skew, Request, Timed
<1>5. /\ cadence'[h] = [val |-> n, exp |-> IF n = 1 THEN Never ELSE cadence[h].exp]
      /\ \A g \in Hashes \ {h} : cadence'[g] = cadence[g] /\ since'[g] = since[g]
      /\ since'[h] = IF n = 1 THEN now ELSE since[h]
      /\ req'[r] = q /\ \A s \in Requests \ {r} : req'[s] = req[s]
    BY <1>1, <1>2 DEF BaseInv, Shape
<1>6. DayOf(req[r]) * DayLen <= now + 1
    <2>1. /\ DayOf(req[r]) * DayLen <= req[r].at
          /\ DayOf(req[r]) \in Nat
        BY <1>4, InItsDay DEF DayOf
    <2>2. DayOf(req[r]) * DayLen \in Nat
        BY <2>1, VisitsAssumption
    <2> DEFINE x == DayOf(req[r]) * DayLen
               a == req[r].at
    <2>3. x <= a /\ a <= now + k /\ x \in Nat /\ a \in Nat
        BY <1>1, <1>4, <2>1, <2>2
    <2> HIDE DEF x, a, k
    <2>4. x <= now + 1
        BY <1>4, <2>3
    <2> QED
        BY <2>4 DEF x
<1>7. <<DayOf(req[r]), h[1]>> \in hashed
    BY <1>1 DEF HashedInv, BeforeHash
<1>8. n # 1 => cadence[h].val > 0
    BY <1>4
<1> HIDE DEF h, n, q, k
<1>9. BeganInv'
    <2> SUFFICES ASSUME NEW s \in Requests, req'[s].pc = "expire"
                 PROVE  req'[s].at <= since'[HashOf(req'[s])] + Skew(req'[s].proc)
        BY DEF BeganInv, HashOf, Skew
    <2>1. CASE s = r
        BY <1>1, <1>3, <1>5, <2>1 DEF k
    <2>2. CASE s # r
        <3>1. req'[s] = req[s] /\ HashOf(req[s]) \in Hashes
            BY <1>5, <2>2, OnItsWay DEF Path, BeforeHash
        <3>2. CASE HashOf(req[s]) = h /\ n = 1
            <4>1. req[s].at <= now + Skew(req[s].proc)
                BY <3>1, OnItsWay DEF Path
            <4> QED
                BY <1>5, <3>1, <3>2, <4>1
        <3>3. CASE ~(HashOf(req[s]) = h /\ n = 1)
            BY <1>5, <3>1, <3>3 DEF BeganInv
        <3> QED
            BY <3>2, <3>3
    <2> QED
        BY <2>1, <2>2
<1>10. ASSUME NEW g \in Hashes, cadence'[g].val > 0 PROVE Counter(g)'
    <2>1. CASE g = h /\ n = 1
        <3>1. since'[g] = now /\ cadence'[g].exp = Never
            BY <1>5, <2>1
        <3>2. req'[r].pc = "expire" /\ HashOf(req'[r]) = g
            BY <1>3, <1>5, <2>1
        <3>3. \E d \in Days : <<d, g[1]>> \in hashed' /\ d * DayLen <= since'[g] + 1
            BY <1>1, <1>2, <1>6, <1>7, <2>1, <3>1
        <3> QED
            BY <1>2, <1>4, <3>1, <3>2, <3>3 DEF Counter, HashOf
    <2>2. CASE ~(g = h /\ n = 1)
        <3>1. since'[g] = since[g] /\ cadence'[g].exp = cadence[g].exp /\ cadence[g].val > 0
            BY <1>5, <1>8, <1>10, <2>2
        <3>2. Counter(g)
            OBVIOUS
        <3>3. ASSUME NEW s \in Requests, req[s].pc = "expire", HashOf(req[s]) = g
              PROVE  req'[s].pc = "expire" /\ HashOf(req'[s]) = g
            <4>1. s # r
                BY <1>1, <3>3
            <4> QED
                BY <1>5, <3>3, <4>1
        <3>4. \/ cadence[g].exp <= since[g] + MaxDelay + CadenceWindow
              \/ g \in orphans
              \/ \E s \in Requests : req'[s].pc = "expire" /\ HashOf(req'[s]) = g
            BY <3>1, <3>2, <3>3 DEF Counter
        <3> QED
            BY <1>2, <3>1, <3>2, <3>4 DEF Counter, HashOf
    <2> QED
        BY <2>1, <2>2
<1> QED
    BY <1>9, <1>10 DEF Counter

\* A counter gets its time to live while its count is young.
LEMMA CounterExpires ==
    ASSUME BaseInv, BeganInv, \A h \in Hashes : Counter(h), NEW r \in Requests, ExpireCadence(r)
    PROVE  BeganInv' /\ \A h \in Hashes : Counter(h)'
<1> DEFINE h == HashOf(req[r])
<1>1. req[r].pc = "expire" /\ h \in Hashes /\ req[r] \in Request
    BY OnItsWay DEF ExpireCadence, At, Path, BeforeHash
<1>2. /\ cadence' = [cadence EXCEPT ![h].exp = now + CadenceWindow]
      /\ req' = [req EXCEPT ![r] = [req[r] EXCEPT !.pc = "publish"]]
      /\ UNCHANGED <<now, since, hashed, orphans>>
    BY DEF ExpireCadence, Goto, history, begun
<1>3. /\ cadence'[h].exp = now + CadenceWindow /\ cadence'[h].val = cadence[h].val
      /\ \A g \in Hashes \ {h} : cadence'[g] = cadence[g]
    BY <1>1, <1>2 DEF BaseInv, Shape, Timed
<1>4. /\ req'[r].pc = "publish" /\ \A s \in Requests \ {r} : req'[s] = req[s]
    BY <1>1, <1>2 DEF BaseInv, Shape, Request
<1>5. now + CadenceWindow <= since[h] + MaxDelay + CadenceWindow /\ now < now + CadenceWindow
    <2>1. now <= since[h] + MaxDelay
        BY <1>1, StillYoung
    <2>2. now \in Nat /\ since[h] \in Nat /\ MaxDelay \in Nat /\ CadenceWindow \in Nat \ {0}
        BY <1>1, VisitsAssumption DEF BaseInv, Shape
    <2> HIDE DEF h
    <2> QED
        BY <2>1, <2>2
<1> HIDE DEF h
<1>6. BeganInv'
    BY <1>2, <1>4 DEF BeganInv, HashOf, Skew
<1>7. ASSUME NEW g \in Hashes, cadence'[g].val > 0 PROVE Counter(g)'
    <2>1. cadence[g].val > 0 /\ Counter(g)
        BY <1>3, <1>7
    <2>2. CASE g = h
        BY <1>2, <1>3, <1>5, <2>1, <2>2 DEF Counter
    <2>3. CASE g # h
        <3>1. ASSUME NEW s \in Requests, req[s].pc = "expire", HashOf(req[s]) = g
              PROVE  req'[s].pc = "expire" /\ HashOf(req'[s]) = g
            <4>1. s # r
                BY <2>3, <3>1 DEF h
            <4> QED
                BY <1>4, <3>1, <4>1
        <3>2. \/ cadence[g].exp <= since[g] + MaxDelay + CadenceWindow
              \/ g \in orphans
              \/ \E s \in Requests : req'[s].pc = "expire" /\ HashOf(req'[s]) = g
            BY <2>1, <3>1 DEF Counter
        <3> QED
            BY <1>2, <1>3, <2>1, <2>3, <3>2 DEF Counter, HashOf
    <2> QED
        BY <2>2, <2>3
<1> QED
    BY <1>6, <1>7 DEF Counter

\* Time passes, and a counter past its time to live is gone.
LEMMA CounterTicks ==
    ASSUME BaseInv, BeganInv, \A h \in Hashes : Counter(h), Tick
    PROVE  BeganInv' /\ \A h \in Hashes : Counter(h)'
<1>1. now' = now + 1 /\ now \in Nat /\ UNCHANGED <<req, hashed, since, orphans>>
    BY DEF Tick, history, begun, BaseInv, Shape
<1>2. BeganInv'
    BY <1>1 DEF BeganInv, HashOf, Skew
<1>3. ASSUME NEW h \in Hashes, cadence'[h].val > 0 PROVE Counter(h)'
    <2>1. cadence'[h] = IF cadence[h].exp <= now + 1 THEN NoCount ELSE cadence[h]
        BY DEF Tick, BaseInv, Shape
    <2>2. cadence'[h] = cadence[h] /\ ~(cadence[h].exp <= now + 1)
        BY <1>3, <2>1 DEF NoCount
    <2>3. cadence[h].exp \in Nat /\ since[h] \in Nat
        BY DEF BaseInv, Shape, Timed
    <2>4. cadence[h].val > 0 /\ Counter(h)
        BY <1>3, <2>2
    <2>5. since[h] <= now' /\ now' < cadence[h].exp
        BY <1>1, <2>2, <2>3, <2>4 DEF Counter
    <2>6. /\ \E d \in Days : <<d, h[1]>> \in hashed /\ d * DayLen <= since[h] + 1
          /\ \/ cadence[h].exp <= since[h] + MaxDelay + CadenceWindow
             \/ h \in orphans
             \/ \E r \in Requests : req[r].pc = "expire" /\ HashOf(req[r]) = h
        BY <2>4 DEF Counter
    <2> QED
        BY <1>1, <2>2, <2>5, <2>6 DEF Counter, HashOf
<1> QED
    BY <1>2, <1>3 DEF Counter

\* Every step keeps what is said of counters.
LEMMA CadenceNext ==
    ASSUME BaseInv, CadenceInv, [Next]_vars
    PROVE  CadenceInv'
<1>0. HashedInv /\ BeganInv /\ \A h \in Hashes : Counter(h)
    BY DEF CadenceInv
<1> DEFINE Goal == BeganInv' /\ \A h \in Hashes : Counter(h)'
<1>1. ASSUME Tick PROVE Goal
    BY <1>0, <1>1, CounterTicks
<1>2. ASSUME NEW r \in Requests, Count(r) PROVE Goal
    BY <1>0, <1>2, CounterCounted
<1>3. ASSUME NEW r \in Requests, ExpireCadence(r) PROVE Goal
    BY <1>0, <1>3, CounterExpires
<1>4. ASSUME NEW r \in Requests,
             \/ Recall(r) \/ SetSalt(r) \/ GetSalt(r) \/ SetSession(r) \/ GetSession(r) \/ Slide(r)
             \/ Identify(r) \/ UserFor(r) \/ Publish(r)
             \/ \E p \in Processes, v \in Visitors, k \in Kinds : Arrive(r, p, v, k)
      PROVE  Goal
    <2>1. UNCHANGED <<now, cadence, since, orphans>> /\ hashed \subseteq hashed'
        BY <1>4 DEF Recall, SetSalt, GetSalt, SetSession, GetSession, Slide, Identify, UserFor,
                    Publish, Arrive, Hash, redis, history, begun
    <2>2. req[r].pc # "expire"
        BY <1>4 DEF Recall, SetSalt, GetSalt, SetSession, GetSession, Slide, Identify, UserFor,
                    Publish, Arrive, At
    <2>3. \A s \in Requests \ {r} : req'[s] = req[s]
        BY <1>4, OneMoves DEF Collect
    <2>4. req'[r].pc # "expire"
        <3>1. req[r] \in Request /\ req \in [Requests -> Request]
            BY DEF BaseInv, Shape
        <3>2. CASE Done(r)
            BY <3>1, <3>2 DEF Done, NoRequest
        <3>3. ASSUME NEW s, Hash(r, s) PROVE req'[r].pc # "expire"
            BY <3>1, <3>3 DEF Hash, Goto, Request
        <3>4. ASSUME NEW q \in {req[r], [req[r] EXCEPT !.retried = TRUE]}, NEW pc, pc # "expire",
                     Goto(r, q, pc)
              PROVE  req'[r].pc # "expire"
            BY <3>1, <3>4 DEF Goto, Request
        <3>5. ASSUME NEW pc, pc # "expire", Retry(r, pc) PROVE req'[r].pc # "expire"
            BY <3>2, <3>4, <3>5 DEF Retry
        <3>6. CASE Recall(r) \/ SetSalt(r) \/ GetSalt(r) \/ SetSession(r) \/ Slide(r)
            BY <3>3, <3>4, <3>5, <3>6 DEF Recall, SetSalt, GetSalt, SetSession, Slide
        <3>7. CASE GetSession(r)
            <4>1. \A s : Goto(r, [req[r] EXCEPT !.session = s], "slide") => req'[r].pc # "expire"
                BY <3>1 DEF Goto, Request
            <4> QED
                BY <3>5, <3>7, <4>1 DEF GetSession
        <3>8. CASE UserFor(r)
            <4>1. \A u : Goto(r, [req[r] EXCEPT !.user = u], "count") => req'[r].pc # "expire"
                BY <3>1 DEF Goto, Request
            <4> QED
                BY <3>8, <4>1 DEF UserFor
        <3>9. CASE Identify(r) \/ Publish(r)
            BY <3>2, <3>9 DEF Identify, Publish
        <3>10. ASSUME NEW p \in Processes, NEW v \in Visitors, NEW k \in Kinds, Arrive(r, p, v, k)
               PROVE  req'[r].pc # "expire"
            BY <3>1, <3>10 DEF Arrive, Goto, NoRequest
        <3> QED
            BY <1>4, <3>6, <3>7, <3>8, <3>9, <3>10
    <2> QED
        BY <1>0, <2>1, <2>2, <2>3, <2>4, CounterKept
<1>5. ASSUME NEW r \in Requests, Fail(r) PROVE Goal
    <2>1. /\ UNCHANGED <<now, cadence, since, hashed>>
          /\ orphans' = orphans \cup Orphaned({r})
        BY <1>5 DEF Fail, redis
    <2>2. req[r].pc = "expire" => HashOf(req[r]) \in orphans'
        BY <2>1 DEF Orphaned, At
    <2>3. \A s \in Requests \ {r} : req'[s] = req[s]
        BY <1>5, OneMoves
    <2>4. req'[r].pc # "expire"
        BY <1>5 DEF Fail, Done, NoRequest, BaseInv, Shape
    <2> QED
        BY <1>0, <2>1, <2>2, <2>3, <2>4, CounterKept
<1>6. ASSUME NEW p \in Processes, Crash(p) PROVE Goal
    <2> DEFINE cut == {r \in Requests : req[r].proc = p}
    <2>1. /\ UNCHANGED <<now, cadence, since, hashed>>
          /\ orphans' = orphans \cup Orphaned(cut)
          /\ req' = [r \in Requests |-> IF r \in cut THEN NoRequest ELSE req[r]]
        BY <1>6 DEF Crash, redis
    <2>2. \A r \in cut : req[r].pc = "expire" => HashOf(req[r]) \in orphans'
        BY <2>1 DEF Orphaned, At
    <2>3. /\ \A r \in cut : req'[r].pc # "expire"
          /\ \A r \in Requests \ cut : req'[r] = req[r]
        BY <2>1 DEF NoRequest
    <2> HIDE DEF cut
    <2> QED
        BY <1>0, <2>1, <2>2, <2>3, CounterKept
<1>7. ASSUME UNCHANGED vars PROVE Goal
    BY <1>0, <1>7, CounterKept DEF vars, redis, history, begun
<1>8. Goal
    BY <1>1, <1>2, <1>3, <1>4, <1>5, <1>6, <1>7 DEF Next, Collect
<1>9. HashedInv'
    BY <1>0, HashedNext
<1> QED
    BY <1>8, <1>9 DEF CadenceInv

-----------------------------------------------------------------------------
(* The theorems.                                                            *)

\* The invariant holds at the start.
LEMMA InvInit == Init => IInv
<1> SUFFICES ASSUME Init PROVE IInv
    OBVIOUS
<1>1. Shape
    <2>1. 0 \in Days
        <3>1. MaxTime + 1 \in Nat
            BY VisitsAssumption
        <3>2. (MaxTime + 1) \div DayLen \in Nat
            BY <3>1, InItsDay
        <3> QED
            BY <3>2 DEF Days
    <2>2. /\ Missing \in Timed(Tokens \cup {None}) /\ Missing \in Timed(Users \cup {None})
          /\ NoCount \in Timed(0..(CadenceLimit + 1))
        BY VisitsAssumption DEF Missing, NoCount, Timed
    <2>3. NoMemo \in [day : Days, salt : Tokens \cup {None}]
        BY <2>1 DEF NoMemo
    <2>4. -1 \in (-1)..MaxTime
        BY VisitsAssumption
    <2>5. /\ now \in 0..MaxTime /\ came \in 0..MaxRequests /\ tokens \in Nat
          /\ faults \in 0..MaxFaults
        BY VisitsAssumption DEF Init
    <2>6. /\ salt \in [Days -> Timed(Tokens \cup {None})]
          /\ session \in [Hashes -> Timed(Tokens \cup {None})]
          /\ user \in [Tokens -> Timed(Users \cup {None})]
          /\ cadence \in [Hashes -> Timed(0..(CadenceLimit + 1))]
        BY <2>2 DEF Init
    <2>7. /\ memo \in [Processes -> [day : Days, salt : Tokens \cup {None}]]
          /\ req \in [Requests -> Request]
        BY <2>3, NoRequestIsOne DEF Init
    <2>8. /\ seen \in [Hashes -> (-1)..MaxTime] /\ since \in [Hashes -> 0..MaxTime]
          /\ orphans \subseteq Hashes
          /\ hashed \subseteq Days \X Tokens /\ named \subseteq Tokens \X Users
        BY <2>4, VisitsAssumption DEF Init
    <2> QED
        BY <2>5, <2>6, <2>7, <2>8 DEF Shape
<1>2. NoRequest.pc = "idle" /\ NoRequest.session = None /\ NoRequest.user = None
    BY DEF NoRequest
<1>3. PathInv
    BY <1>2 DEF Init, PathInv, Path
<1>4. TokenInv
    <2>1. Left(NoRequest) = 0
        BY <1>2, LeftIs
    <2>2. Draws = {}
        BY <2>1 DEF Init, Draws
    <2>3. Cardinality(Draws) = 0 /\ IsFiniteSet(Draws)
        BY <2>2, FS_EmptySet
    <2> QED
        BY <2>3 DEF Init, TokenInv
<1>5. FreshInv
    <2>1. Salts \subseteq {None} /\ Sessions \subseteq {None}
        BY <1>2 DEF Init, Salts, Sessions, Missing
    <2> QED
        BY <2>1 DEF Init, FreshInv, Missing
<1>6. SaltInv
    BY DEF Init, SaltInv, SaltIsTheDay, Missing, NoMemo
<1>7. SessionInv
    <2>1. \A h \in Hashes : seen[h] = -1
        BY DEF Init
    <2>2. ~(-1 >= 0)
        OBVIOUS
    <2> QED
        BY <2>1, <2>2 DEF SessionInv
<1>8. UserInv
    BY <1>2 DEF Init, UserInv, Missing
<1>9. CadenceInv
    <2>1. HashedInv /\ BeganInv
        BY <1>2 DEF Init, HashedInv, BeganInv
    <2>2. \A h \in Hashes : cadence[h].val = 0
        BY DEF Init, NoCount
    <2> QED
        BY <2>1, <2>2 DEF CadenceInv, Counter
<1> QED
    BY <1>1, <1>3, <1>4, <1>5, <1>6, <1>7, <1>8, <1>9 DEF IInv

\* And every step keeps it.
LEMMA InvNext == IInv /\ [Next]_vars => IInv'
<1> SUFFICES ASSUME IInv, [Next]_vars PROVE IInv'
    OBVIOUS
<1>1. BaseInv /\ FreshInv /\ SaltInv /\ SessionInv /\ UserInv /\ CadenceInv
    BY DEF IInv, BaseInv
<1>2. BaseInv'
    BY <1>1, BaseNext
<1>3. FreshInv' /\ SaltInv'
    BY <1>1, <1>2, FreshNext, SaltNext
<1>4. SessionInv' /\ UserInv' /\ CadenceInv'
    BY <1>1, <1>2, SessionNext, UserNext, CadenceNext
<1> QED
    BY <1>2, <1>3, <1>4 DEF IInv, BaseInv

\* The invariant is always true.
LEMMA InvAlways == Spec => []IInv
<1> QED
    BY InvInit, InvNext, PTL DEF Spec

\* Type correctness: whatever the requests do, the keys and the requests have what
\* their names say, and the name of a salt is never the name of a session.
THEOREM TypeCorrect == Spec => []TypeOK
<1>1. IInv => TypeOK
    <2> SUFFICES ASSUME IInv PROVE TypeOK
        OBVIOUS
    <2>1. Shape /\ TokenInv /\ FreshInv
        BY DEF IInv
    <2>2. \A r \in Requests : req[r] \in Request /\ DayOf(req[r]) \in Days
        BY <2>1, DayIsModelled DEF Shape
    <2>3. tokens \in 0..(4 * MaxRequests)
        <3>1. Cardinality(Draws) \in Nat /\ tokens \in Nat /\ came \in Nat /\ came <= MaxRequests /\ MaxRequests \in Nat
            BY <2>1, FS_CardinalityType, VisitsAssumption DEF TokenInv, Shape
        <3> QED
            BY <2>1, <3>1 DEF TokenInv
    <2>4. named \subseteq (Tokens \ {x[2] : x \in hashed}) \X Users
        <3> SUFFICES ASSUME NEW x \in named PROVE x \in (Tokens \ {y[2] : y \in hashed}) \X Users
            OBVIOUS
        <3>1. x \in Tokens \X Users /\ x[1] \in Sessions
            BY <2>1 DEF Shape, Sessions
        <3>2. x[1] # None
            BY <3>1, VisitsAssumption DEF Tokens
        <3>3. \A y \in hashed : y[2] # x[1]
            BY <2>1, <3>1, <3>2 DEF FreshInv, Salts
        <3> QED
            BY <3>1, <3>3
    <2>5. /\ \A d \in Days : salt[d].val \in Tokens \cup {None}
          /\ \A h \in Hashes : /\ session[h].val \in Tokens \cup {None}
                               /\ cadence[h].val \in 0..(CadenceLimit + 1)
          /\ \A s \in Tokens : user[s].val \in Users \cup {None}
          /\ \A p \in Processes : memo[p].day \in Days /\ memo[p].salt \in Tokens \cup {None}
        BY <2>1 DEF Shape, Timed
    <2>6. \A r \in Requests : /\ req[r].salt \in Tokens \cup {None}
                              /\ req[r].session \in Tokens \cup {None}
                              /\ req[r].user \in Users \cup {None}
        BY <2>2 DEF Request
    <2> QED
        BY <2>1, <2>2, <2>3, <2>4, <2>5, <2>6 DEF TypeOK, Shape
<1> QED
    BY <1>1, InvAlways, PTL

\* The daily hash: whichever process hashes a visitor, whatever its clock says and
\* whatever a replacement forgets, the salt of a day is one, and of no other.
THEOREM OneSaltADay == Spec => []SaltIsTheDay
<1>1. IInv => SaltIsTheDay
    BY DEF IInv, SaltInv
<1> QED
    BY <1>1, InvAlways, PTL

\* A published event has no user but one that a request of its session named.
THEOREM UsersStayInTheirSession == Spec => []UserIsTheSessions
<1>1. IInv => UserIsTheSessions
    BY DEF IInv, UserInv, UserIsTheSessions
<1> QED
    BY <1>1, InvAlways, PTL

\* What a visitor's event is added to was begun within the last minute and the time a
\* request takes, or, where its EXPIRE was lost, on the same day.
THEOREM CountsAreRecent == Spec => []CadenceIsRecent
<1>1. IInv => CadenceIsRecent
    <2> SUFFICES ASSUME IInv, NEW r \in Requests, req[r].pc = "count",
                        cadence[HashOf(req[r])].val > 0
                 PROVE  /\ DayOf(req[r]) * DayLen <= since[HashOf(req[r])] + 1
                        /\ \/ now < since[HashOf(req[r])] + MaxDelay + CadenceWindow
                           \/ HashOf(req[r]) \in orphans
        BY DEF CadenceIsRecent, At
    <2> DEFINE h == HashOf(req[r])
    <2>1. BaseInv /\ SaltInv /\ HashedInv /\ BeganInv
        BY DEF IInv, BaseInv, CadenceInv
    <2>2. h \in Hashes /\ DayOf(req[r]) \in Days /\ h[1] = req[r].salt
        BY <2>1, OnItsWay DEF Path, BeforeHash, HashOf
    <2>3. Counter(h)
        BY <2>2 DEF IInv, CadenceInv
    <2>4. DayOf(req[r]) * DayLen <= since[h] + 1
        <3>1. PICK d \in Days : <<d, h[1]>> \in hashed /\ d * DayLen <= since[h] + 1
            BY <2>3 DEF Counter
        <3>2. <<DayOf(req[r]), h[1]>> \in hashed
            BY <2>1, <2>2 DEF HashedInv, BeforeHash
        <3>3. d = DayOf(req[r])
            BY <2>1, <3>1, <3>2 DEF SaltInv, SaltIsTheDay
        <3> QED
            BY <3>1, <3>3
    <2>5. now < since[h] + MaxDelay + CadenceWindow \/ h \in orphans
        <3>1. /\ now \in Nat /\ since[h] \in Nat /\ cadence[h].exp \in Nat
              /\ MaxDelay \in Nat /\ CadenceWindow \in Nat \ {0}
            BY <2>1, <2>2, VisitsAssumption DEF BaseInv, Shape, Timed
        <3>2. CASE cadence[h].exp <= since[h] + MaxDelay + CadenceWindow
            <4>1. now < cadence[h].exp
                BY <2>3 DEF Counter
            <4> HIDE DEF h
            <4> QED
                BY <3>1, <3>2, <4>1
        <3>3. ASSUME NEW s \in Requests, req[s].pc = "expire", HashOf(req[s]) = h
              PROVE  now < since[h] + MaxDelay + CadenceWindow
            <4>1. now <= since[h] + MaxDelay
                BY <2>1, <3>3, StillYoung
            <4> HIDE DEF h
            <4> QED
                BY <3>1, <4>1
        <3> QED
            BY <2>3, <3>2, <3>3 DEF Counter
    <2> QED
        BY <2>4, <2>5
<1> QED
    BY <1>1, InvAlways, PTL

\* A visitor gets another session only after the last one went without a request for
\* its gap, whatever the requests that slide it and the request that finds it gone do.
THEOREM SessionsEndByInactivity == Spec => SessionIsAVisit
<1> DEFINE P == \A h \in Hashes :
                    session'[h].val \notin {session[h].val, None} /\ seen[h] >= 0
                        => session[h].val = None /\ now >= seen[h] + SessionGap
<1>1. IInv /\ [Next]_vars => [P]_vars
    <2> SUFFICES ASSUME IInv, Next, NEW h \in Hashes,
                        session'[h].val \notin {session[h].val, None}, seen[h] >= 0
                 PROVE  session[h].val = None /\ now >= seen[h] + SessionGap
        BY DEF P
    <2>1. SessionInv /\ BaseInv
        BY DEF IInv, BaseInv
    <2>2. session[h].val = None
        <3>1. CASE Tick
            BY <3>1 DEF Tick, Missing, IInv, Shape
        <3>2. ASSUME NEW r \in Requests, SetSession(r) PROVE session[h].val = None
            BY <3>2 DEF SetSession, SetNX, IInv, Shape
        <3>3. ASSUME NEW r \in Requests, Slide(r) PROVE session[h].val = None
            <4> DEFINE g == HashOf(req[r])
            <4>1. session' = session \/ session' = [session EXCEPT ![g] = Key(session[g].val, SessionGap)]
                BY <3>3 DEF Slide
            <4>2. Key(session[g].val, SessionGap).val = session[g].val
                BY DEF Key
            <4> HIDE DEF g
            <4> QED
                BY <4>1, <4>2 DEF IInv, Shape
        <3>4. CASE UNCHANGED session
            BY <3>4
        <3> QED
            BY <3>1, <3>2, <3>3, <3>4
               DEF Next, Collect, Recall, SetSalt, GetSalt, GetSession, Identify, UserFor, Count,
                   ExpireCadence, Publish, Arrive, Fail, Crash, redis, history
    <2> QED
        BY <2>1, <2>2 DEF SessionInv
<1> QED
    BY <1>1, InvAlways, PTL DEF Spec, SessionIsAVisit, P

=============================================================================
