---------------------------- MODULE BatcherProofs ----------------------------
(***************************************************************************)
(* Proofs about Batcher for every set of container names, stream bound,    *)
(* batch size and set of undecodable payloads.                             *)
(***************************************************************************)
EXTENDS Batcher, FiniteSetTheorems, TLAPS

-----------------------------------------------------------------------------
(* What a read returns.                                                     *)

\* A read returns only entries it was asked to choose from.
LEMMA FirstNSubset ==
  ASSUME NEW S, NEW n PROVE FirstN(S, n) \subseteq S
BY DEF FirstN

\* A read skips nothing: an entry below a returned one is returned too.
LEMMA FirstNIsAPrefix ==
  ASSUME NEW S \in SUBSET Int, IsFiniteSet(S), NEW n \in Nat,
         NEW x \in FirstN(S, n), NEW y \in S, y <= x
  PROVE  y \in FirstN(S, n)
<1> DEFINE below(z) == {w \in S : w < z}
<1>0. x \in Int /\ y \in Int
  BY FirstNSubset
<1>1. below(y) \subseteq below(x)
  <2> SUFFICES ASSUME NEW w \in S, w < y PROVE w < x
    OBVIOUS
  <2> QED
    BY <1>0
<1>2. IsFiniteSet(below(x))
  BY FS_Subset
<1>3. Cardinality(below(y)) <= Cardinality(below(x))
  BY <1>1, <1>2, FS_Subset
<1>4. Cardinality(below(x)) \in Nat /\ Cardinality(below(y)) \in Nat
  BY <1>1, <1>2, FS_Subset, FS_CardinalityType
<1>5. Cardinality(below(x)) < n
  BY DEF FirstN
<1>6. Cardinality(below(y)) < n
  BY <1>3, <1>4, <1>5
<1> QED
  BY <1>6 DEF FirstN

-----------------------------------------------------------------------------
(* Type correctness.                                                        *)

\* The cursor is only set by EnsureGroup while the group does not exist, and
\* no worker is past EnsureGroup before it does.
GroupInv ==
    /\ ~group => delivered = 0
    /\ \A c \in Consumers : pc[c] \notin {"new", "ensure", "dead"} => group

TypeInv == TypeOK /\ GroupInv

\* The state an empty Redis and no worker start from has its shape.
LEMMA TypeInit == Init => TypeInv
<1> SUFFICES ASSUME Init PROVE TypeInv
  OBVIOUS
<1> USE BatcherAssumption DEF Init
<1>1. lastId \in 0..MaxEntries /\ trimTo \in 0..MaxEntries /\ delivered \in 0..lastId
  OBVIOUS
<1>2. faults \in 0..MaxFaults
  OBVIOUS
<1>3. owner \in [Entry -> Consumers \cup {NoConsumer}]
  OBVIOUS
<1>4. pc \in [Consumers -> Steps]
  BY DEF Steps
<1>5. /\ ids \in [Consumers -> SUBSET (1..delivered)]
      /\ events \in [Consumers -> SUBSET (1..delivered)]
      /\ victims \in [Consumers -> SUBSET Consumers]
  OBVIOUS
<1>6. TypeOK
  BY <1>1, <1>2, <1>3, <1>4, <1>5 DEF TypeOK
<1>7. GroupInv
  BY DEF GroupInv
<1> QED
  BY <1>6, <1>7 DEF TypeInv

\* Every step of publishers, workers and failures keeps the shape.
LEMMA TypeStep == TypeInv /\ [Next]_vars => TypeInv'
<1> SUFFICES ASSUME TypeInv, [Next]_vars PROVE TypeInv'
  OBVIOUS
<1> USE BatcherAssumption
<1>1. CASE Publish
  BY <1>1 DEF Publish, TypeInv, TypeOK, GroupInv, Entry, stream, redis, worker, sink
<1>2. CASE UNCHANGED vars
  BY <1>2 DEF TypeInv, TypeOK, GroupInv, vars, stream, redis, worker, sink
<1> SUFFICES ASSUME NEW c \in Consumers,
                    \/ GoIdle(c) \/ Start(c) \/ RunOnce(c)
                    \/ RedisError(c) \/ InsertFails(c)
                    \/ Hang(c) \/ Crash(c) \/ HealthRestart(c)
             PROVE  TypeInv'
  BY <1>1, <1>2 DEF Next
<1> USE DEF TypeInv, TypeOK, GroupInv, Steps, LoopSteps, stream, redis, worker, sink
<1>3. CASE GoIdle(c)
  BY <1>3 DEF GoIdle
<1>4. CASE Start(c)
  BY <1>4 DEF Start, GoTo
<1>5. CASE EnsureGroup(c)
  BY <1>5 DEF EnsureGroup, GoTo
<1>6. CASE ReadOwn(c)
  <2> DEFINE S == FirstN(PendingOf(c), BatchSize)
  <2>1. S \subseteq 1..delivered
    BY FirstNSubset DEF PendingOf, Entry
  <2> HIDE DEF S
  <2>2. /\ pc' \in [Consumers -> Steps]
        /\ ids' \in [Consumers -> SUBSET (1..delivered)]
        /\ events' \in [Consumers -> SUBSET (1..delivered)]
        /\ ticked' \subseteq Consumers
        /\ \A d \in Consumers : d # c => pc'[d] = pc[d]
    BY <1>6, <2>1 DEF ReadOwn, Handle, Again, GoTo, SetBatch, S
  <2> QED
    BY <1>6, <2>2 DEF ReadOwn, Interact
<1>7. CASE Claim(c)
  <2> DEFINE S == FirstN({e \in Entry : owner[e] \in idle}, BatchSize)
  <2>1. S \subseteq 1..delivered
    BY FirstNSubset DEF Entry
  <2>2. S \subseteq Entry
    BY FirstNSubset
  <2> HIDE DEF S
  <2>3. /\ owner' \in [Entry -> Consumers \cup {NoConsumer}]
        /\ \A e \in Entry : owner'[e] # NoConsumer => e <= delivered
    BY <1>7, <2>1, <2>2 DEF Claim, S
  <2> QED
    BY <1>7, <2>1, <2>3 DEF Claim, Interact, GoTo, SetBatch, S
<1>8. CASE Inspect(c)
  BY <1>8 DEF Inspect, GoTo
<1>9. CASE Prune(c)
  BY <1>9 DEF Prune
<1>10. CASE EndPrune(c)
  BY <1>10 DEF EndPrune, Handle, Again, GoTo, SetBatch
<1>11. CASE ReadNew(c)
  <2> DEFINE S == FirstN(Undelivered, BatchSize)
  <2>1. S \subseteq Undelivered
    BY FirstNSubset
  <2> HIDE DEF S
  <2>2. group
    BY <1>11 DEF ReadNew
  <2>3. CASE S = {}
    BY <1>11, <2>3 DEF ReadNew, Interact, Again, GoTo, SetBatch, S
  <2>4. CASE S # {}
    <3>1. /\ delivered' \in S /\ \A e \in S : e <= delivered'
          /\ owner' = [e \in Entry |-> IF e \in S THEN c ELSE owner[e]]
          /\ Handle(c, S, S)
      BY <1>11, <2>4 DEF ReadNew, S
    <3>2. delivered' \in 1..lastId /\ delivered <= delivered'
      BY <3>1, <2>1 DEF Undelivered
    <3>3. S \subseteq 1..delivered'
      BY <3>1, <3>2, <2>1 DEF Undelivered
    <3>4. /\ ids' \in [Consumers -> SUBSET (1..delivered')]
          /\ events' \in [Consumers -> SUBSET (1..delivered')]
          /\ pc' \in [Consumers -> Steps]
          /\ ticked' \subseteq Consumers
      <4>1. 1..delivered \subseteq 1..delivered'
        BY <3>2
      <4>2. /\ ids \in [Consumers -> SUBSET (1..delivered')]
            /\ events \in [Consumers -> SUBSET (1..delivered')]
        BY <4>1
      <4>3. \/ ids' = [ids EXCEPT ![c] = S] /\ events' = [events EXCEPT ![c] = S]
            \/ ids' = [ids EXCEPT ![c] = {}] /\ events' = [events EXCEPT ![c] = {}]
        BY <3>1 DEF Handle, Again, SetBatch
      <4>4. pc' \in [Consumers -> Steps] /\ ticked' \subseteq Consumers
        BY <3>1 DEF Handle, Again, GoTo
      <4> QED
        BY <4>2, <4>3, <4>4, <3>3
    <3>5. /\ owner' \in [Entry -> Consumers \cup {NoConsumer}]
          /\ \A e \in Entry : owner'[e] # NoConsumer => e <= delivered'
      BY <3>1, <3>2, <3>3 DEF Entry
    <3>6. UNCHANGED <<stream, group, victims, hung, sink, faults>> /\ Interact(c)
      BY <1>11 DEF ReadNew
    <3>7. stored' \subseteq 1..delivered' /\ twice' \subseteq stored'
      BY <3>2, <3>6
    <3> QED
      BY <3>2, <3>4, <3>5, <3>6, <3>7, <2>2 DEF Interact
  <2> QED
    BY <2>3, <2>4
<1>12. CASE Insert(c)
  BY <1>12 DEF Insert, Land, GoTo
<1>13. CASE Ack(c)
  BY <1>13 DEF Ack, Again, GoTo, SetBatch
<1>14. CASE RedisError(c)
  BY <1>14 DEF RedisError, Fault, Again, GoTo, SetBatch
<1>15. CASE InsertFails(c)
  BY <1>15 DEF InsertFails, Fault, Land, Again, GoTo, SetBatch
<1>16. CASE Hang(c)
  BY <1>16 DEF Hang
<1>17. CASE Die(c)
  BY <1>17 DEF Die, Land, SetBatch
<1> QED
  BY <1>3, <1>4, <1>5, <1>6, <1>7, <1>8, <1>9, <1>10, <1>11, <1>12, <1>13,
     <1>14, <1>15, <1>16, <1>17 DEF RunOnce, Crash, HealthRestart

\* The batcher's state keeps its shape, with any number of workers at once.
THEOREM TypeCorrect == Spec => []TypeOK
<1>1. TypeInv => TypeOK
  BY DEF TypeInv
<1> QED
  BY <1>1, TypeInit, TypeStep, PTL DEF Spec

-----------------------------------------------------------------------------
(* No entry is lost with one worker at a time.                              *)

\* What a worker acks it has read, or found trimmed; and it acks it only
\* after the insert.
CarryInv ==
    \A c \in Consumers :
        /\ \A e \in ids[c] : e \in events[c] \/ e <= trimTo
        /\ pc[c] = "ack" => events[c] \subseteq stored

OneLive == \A c, d \in Consumers : Live(c) /\ Live(d) => c = d

\* Between XINFO and DELCONSUMER nothing becomes pending on a consumer to be
\* deleted.  This is where several workers at once break the promise.
VictimsInv ==
    \A c \in Consumers : \A d \in victims[c] :
        pc[c] = "prune" /\ \A e \in Entry : owner[e] # d

LossInv == CarryInv /\ OneLive /\ VictimsInv /\ SettledIsStored

\* Nothing is lost before anything was published.
LEMMA LossInit == Init => LossInv
BY BatcherAssumption
   DEF Init, LossInv, CarryInv, OneLive, Live, VictimsInv, SettledIsStored, Settled

\* With one worker at a time no step loses an entry: crashes, failed calls and
\* claims leave it pending, and only an ack that follows the insert settles it.
LEMMA LossStep ==
  ASSUME Overlap = FALSE
  PROVE  TypeInv /\ TypeInv' /\ LossInv /\ [Next]_vars => LossInv'
<1> SUFFICES ASSUME TypeInv, TypeInv', LossInv, [Next]_vars PROVE LossInv'
  OBVIOUS
<1> USE BatcherAssumption
        DEF LossInv, CarryInv, OneLive, Live, VictimsInv, SettledIsStored, Settled,
            stream, redis, worker, sink
<1>1. CASE Publish
  <2>1. /\ lastId' = lastId + 1 /\ trimTo <= trimTo'
        /\ UNCHANGED <<redis, worker, sink>>
    BY <1>1 DEF Publish, TypeInv, TypeOK
  <2>2. CarryInv'
    BY <2>1 DEF TypeInv, TypeOK
  <2>3. SettledIsStored'
    BY <2>1 DEF TypeInv, TypeOK, Entry
  <2> QED
    BY <2>1, <2>2, <2>3
<1>2. CASE UNCHANGED vars
  BY <1>2 DEF vars
<1> SUFFICES ASSUME NEW c \in Consumers,
                    \/ GoIdle(c) \/ Start(c) \/ RunOnce(c)
                    \/ RedisError(c) \/ InsertFails(c)
                    \/ Hang(c) \/ Crash(c) \/ HealthRestart(c)
             PROVE  LossInv'
  BY <1>1, <1>2 DEF Next
<1>a. /\ pc \in [Consumers -> Steps] /\ ids \in [Consumers -> SUBSET (1..delivered)]
      /\ events \in [Consumers -> SUBSET (1..delivered)]
      /\ victims \in [Consumers -> SUBSET Consumers]
      /\ owner \in [Entry -> Consumers \cup {NoConsumer}]
      /\ lastId \in Nat /\ trimTo \in Nat /\ delivered \in 0..lastId
  BY DEF TypeInv, TypeOK
<1>3. CASE GoIdle(c)
  BY <1>3 DEF GoIdle
<1>4. CASE Start(c)
  BY <1>4, <1>a DEF Start, GoTo
<1>5. CASE EnsureGroup(c)
  BY <1>5, <1>a DEF EnsureGroup, GoTo, TypeInv, GroupInv
<1>6. CASE ReadOwn(c)
  <2> DEFINE S == FirstN(PendingOf(c), BatchSize)
  <2> HIDE DEF S
  <2>1. UNCHANGED <<lastId, trimTo, group, delivered, owner, victims, stored>>
    BY <1>6 DEF ReadOwn
  <2>2. /\ pc[c] = "recover" /\ pc'[c] \notin {"new", "dead", "ack"}
        /\ \A d \in Consumers \ {c} : /\ pc'[d] = pc[d] /\ ids'[d] = ids[d]
                                       /\ events'[d] = events[d]
    BY <1>6, <1>a DEF ReadOwn, Handle, Again, GoTo, SetBatch
  <2>3. \A e \in ids'[c] : e \in events'[c] \/ e <= trimTo
    <3>1. S \subseteq Entry
      BY FirstNSubset DEF S, PendingOf
    <3>2. \A e \in S : e \in {x \in S : x > trimTo} \/ e <= trimTo
      BY <3>1, <1>a DEF Entry
    <3> QED
      BY <1>6, <1>a, <3>2 DEF ReadOwn, Handle, Again, GoTo, SetBatch, S
  <2> QED
    BY <2>1, <2>2, <2>3
<1>7. CASE Claim(c)
  <2> DEFINE S == FirstN({e \in Entry : owner[e] \in idle}, BatchSize)
             got == {e \in S : e > trimTo}
  <2>1. S \subseteq Entry
    BY FirstNSubset
  <2> HIDE DEF S
  <2>2. /\ owner' = [e \in Entry |-> IF e \in got THEN c
                                    ELSE IF e \in S THEN NoConsumer ELSE owner[e]]
        /\ SetBatch(c, got, got) /\ GoTo(c, "inspect") /\ pc[c] = "claim"
        /\ UNCHANGED <<lastId, trimTo, delivered, victims, stored>>
    BY <1>7 DEF Claim, S
  <2>3. CarryInv' /\ OneLive'
    BY <2>2, <1>a DEF SetBatch, GoTo
  <2>4. VictimsInv'
    BY <2>2, <1>a DEF GoTo
  <2>5. SettledIsStored'
    <3>1. \A e \in S \ got : e <= trimTo
      BY <2>1, <1>a DEF Entry
    <3> QED
      BY <2>2, <3>1, <1>a
  <2> QED
    BY <2>3, <2>4, <2>5
<1>8. CASE Inspect(c)
  BY <1>8, <1>a DEF Inspect, GoTo, PendingOf
<1>9. CASE Prune(c)
  BY <1>9, <1>a DEF Prune
<1>10. CASE EndPrune(c)
  BY <1>10, <1>a DEF EndPrune, Handle, Again, GoTo, SetBatch
<1>11. CASE ReadNew(c)
  <2> DEFINE S == FirstN(Undelivered, BatchSize)
  <2>1. S \subseteq Undelivered
    BY FirstNSubset
  <2>2. ASSUME NEW x \in S, NEW y \in Undelivered, y <= x PROVE y \in S
    <3>1. Undelivered \in SUBSET (1..lastId)
      BY DEF Undelivered
    <3>2. IsFiniteSet(1..lastId)
      BY <1>a, FS_Interval
    <3>3. IsFiniteSet(Undelivered)
      BY <3>1, <3>2, FS_Subset
    <3>4. Undelivered \in SUBSET Int
      BY <3>1
    <3> QED
      BY <2>2, <3>3, <3>4, FirstNIsAPrefix
  <2> HIDE DEF S
  <2>3. /\ pc[c] = "read" /\ pc'[c] \notin {"new", "dead", "ack"}
        /\ \A d \in Consumers \ {c} : /\ pc'[d] = pc[d] /\ ids'[d] = ids[d]
                                       /\ events'[d] = events[d]
        /\ \A e \in ids'[c] : e \in events'[c]
        /\ UNCHANGED <<lastId, trimTo, victims, stored>>
    BY <1>11, <1>a DEF ReadNew, Handle, Again, GoTo, SetBatch
  <2>4. CarryInv' /\ OneLive'
    BY <2>3
  <2>5. VictimsInv'
    <3> SUFFICES ASSUME NEW d \in Consumers, NEW v \in victims'[d] PROVE FALSE
      OBVIOUS
    <3>1. v \in victims[d] /\ pc[d] = "prune"
      BY <2>3
    <3> QED
      BY <2>3, <3>1
  <2>6. SettledIsStored'
    <3>1. CASE S = {}
      <4>1. UNCHANGED <<delivered, owner>>
        BY <1>11, <3>1 DEF ReadNew, S
      <4> QED
        BY <4>1, <2>3
    <3>2. CASE S # {}
      <4>1. /\ delivered' \in S
            /\ owner' = [e \in Entry |-> IF e \in S THEN c ELSE owner[e]]
        BY <1>11, <3>2 DEF ReadNew, S
      <4> SUFFICES ASSUME NEW e \in Entry, Settled(e)' PROVE e \in stored' \/ e <= trimTo'
        OBVIOUS
      <4>2. e \notin S /\ owner[e] = NoConsumer
        BY <4>1
      <4>3. e <= delivered \/ e <= trimTo
        BY <4>1, <4>2, <2>2, <2>3, <1>a DEF Undelivered, Entry
      <4> QED
        BY <4>2, <4>3, <2>3
    <3> QED
      BY <3>1, <3>2
  <2> QED
    BY <2>4, <2>5, <2>6
<1>12. CASE Insert(c)
  BY <1>12, <1>a DEF Insert, Land, GoTo
<1>13. CASE Ack(c)
  <2>1. /\ pc[c] = "ack"
        /\ owner' = [e \in Entry |-> IF e \in ids[c] THEN NoConsumer ELSE owner[e]]
        /\ Again(c)
        /\ UNCHANGED <<lastId, trimTo, delivered, victims, stored>>
    BY <1>13 DEF Ack
  <2>2. CarryInv' /\ OneLive' /\ VictimsInv'
    BY <2>1, <1>a DEF Again, GoTo, SetBatch
  <2>3. SettledIsStored'
    BY <2>1, <1>a
  <2> QED
    BY <2>2, <2>3
<1>14. CASE RedisError(c)
  BY <1>14, <1>a DEF RedisError, Again, GoTo, SetBatch, LoopSteps
<1>15. CASE InsertFails(c)
  BY <1>15, <1>a DEF InsertFails, Land, Again, GoTo, SetBatch
<1>16. CASE Hang(c)
  BY <1>16 DEF Hang
<1>17. CASE Die(c)
  BY <1>17, <1>a DEF Die, Land, SetBatch
<1> QED
  BY <1>3, <1>4, <1>5, <1>6, <1>7, <1>8, <1>9, <1>10, <1>11, <1>12, <1>13,
     <1>14, <1>15, <1>16, <1>17 DEF RunOnce, Crash, HealthRestart

\* With one worker at a time, an entry the group is done with is stored, or was
\* trimmed by the capped stream: crashes and retries never lose one.
THEOREM NoEntryLost ==
  ASSUME Overlap = FALSE
  PROVE  Spec => []SettledIsStored
<1>1. LossInv => SettledIsStored
  BY DEF LossInv
<1>2. TypeInv /\ [Next]_vars => TypeInv'
  BY TypeStep
<1>3. TypeInv /\ TypeInv' /\ LossInv /\ [Next]_vars => LossInv'
  BY LossStep
<1> QED
  BY <1>1, <1>2, <1>3, TypeInit, LossInit, PTL DEF Spec

-----------------------------------------------------------------------------
(* No duplicates without a failure, with one worker at a time.              *)

\* No call has failed and no worker has died.
Smooth == faults = 0 /\ \A c \in Consumers : pc[c] # "dead"

\* In a smooth run a stored entry is settled, or about to be acked by the worker
\* that stored it, and no worker holds a stored entry before its insert.
OnceInv ==
    Smooth =>
        /\ twice = {}
        /\ \A e \in stored : \/ owner[e] = NoConsumer
                             \/ \E c \in Consumers : pc[c] = "ack" /\ e \in ids[c]
        /\ \A c \in Consumers : /\ events[c] \subseteq ids[c]
                                /\ pc[c] # "ack" => events[c] \cap stored = {}
                                /\ pc[c] = "new" => ids[c] = {}

\* Nothing is stored or read at first.
LEMMA OnceInit == Init => OnceInv
BY DEF Init, OnceInv

\* An entry pending on a worker that has read no batch is not stored.
LEMMA PendingIsNotStored ==
  ASSUME TypeInv, OneLive, OnceInv, Smooth,
         NEW c \in Consumers, Live(c), pc[c] # "ack",
         NEW e \in Entry, owner[e] # NoConsumer
  PROVE  e \notin stored
BY DEF OneLive, Live, OnceInv

\* No step of a smooth run inserts an entry a second time.
LEMMA OnceStep == TypeInv /\ TypeInv' /\ OneLive /\ OnceInv /\ [Next]_vars => OnceInv'
<1> SUFFICES ASSUME TypeInv, TypeInv', OneLive, OnceInv, [Next]_vars, Smooth' PROVE OnceInv'
  BY DEF OnceInv
<1> USE BatcherAssumption DEF stream, redis, worker, sink
<1>a. /\ pc \in [Consumers -> Steps] /\ ids \in [Consumers -> SUBSET (1..delivered)]
      /\ events \in [Consumers -> SUBSET (1..delivered)]
      /\ owner \in [Entry -> Consumers \cup {NoConsumer}]
      /\ lastId \in Nat /\ trimTo \in Nat /\ delivered \in 0..lastId
      /\ stored \subseteq 1..delivered /\ lastId \in 0..MaxEntries
  BY DEF TypeInv, TypeOK
<1>b. stored \subseteq Entry
  BY <1>a DEF Entry
<1>1. CASE Publish \/ UNCHANGED vars
  BY <1>1 DEF Publish, vars, Smooth, OnceInv
<1> SUFFICES ASSUME NEW c \in Consumers,
                    \/ GoIdle(c) \/ Start(c) \/ RunOnce(c)
                    \/ RedisError(c) \/ InsertFails(c)
                    \/ Hang(c) \/ Crash(c) \/ HealthRestart(c)
             PROVE  OnceInv'
  BY <1>1 DEF Next
<1>2. CASE RedisError(c) \/ InsertFails(c)
  BY <1>2 DEF RedisError, InsertFails, Fault, Smooth, TypeInv, TypeOK
<1>3. CASE Crash(c) \/ HealthRestart(c)
  BY <1>3, <1>a DEF Crash, HealthRestart, Die, Smooth
<1>4. CASE GoIdle(c) \/ Hang(c)
  BY <1>4 DEF GoIdle, Hang, Smooth, OnceInv
<1>5. CASE Start(c) \/ EnsureGroup(c) \/ Inspect(c)
  BY <1>5, <1>a DEF Start, EnsureGroup, Inspect, GoTo, Smooth, OnceInv
<1> SUFFICES ASSUME RunOnce(c), ~EnsureGroup(c), ~Inspect(c) PROVE OnceInv'
  BY <1>2, <1>3, <1>4, <1>5 DEF RunOnce
<1>6. Live(c) /\ UNCHANGED <<lastId, trimTo, faults>>
  BY DEF Live, RunOnce, ReadOwn, Claim, Prune, EndPrune, ReadNew, Insert, Ack
<1>7. Smooth /\ \A d \in Consumers \ {c} : pc[d] = "new" /\ pc'[d] = "new"
  <2>1. \A d \in Consumers \ {c} : pc'[d] = pc[d]
    BY <1>a DEF RunOnce, ReadOwn, Claim, Prune, EndPrune, ReadNew, Insert, Ack,
                Handle, Again, GoTo
  <2>2. pc[c] # "dead"
    BY <1>6 DEF Live
  <2>3. Smooth
    BY <1>6, <2>1, <2>2 DEF Smooth
  <2> QED
    BY <1>6, <2>1, <2>3 DEF OneLive, Live, Smooth
<1>8. /\ twice = {}
      /\ \A e \in stored : \/ owner[e] = NoConsumer
                           \/ \E d \in Consumers : pc[d] = "ack" /\ e \in ids[d]
      /\ \A d \in Consumers : /\ events[d] \subseteq ids[d]
                              /\ pc[d] # "ack" => events[d] \cap stored = {}
                              /\ pc[d] = "new" => ids[d] = {}
  BY <1>7 DEF OnceInv
<1>9. ASSUME pc[c] # "ack", NEW S \in SUBSET Entry, \A e \in S : e \notin stored,
             NEW E \in SUBSET S,
             \/ SetBatch(c, S, E) \/ Again(c) \/ UNCHANGED <<ids, events>>,
             pc'[c] \notin {"new", "ack"},
             UNCHANGED <<stored, twice>>,
             \A e \in Entry : owner'[e] = owner[e] \/ owner'[e] = NoConsumer \/ e \in S
      PROVE  OnceInv'
  <2>1. /\ \/ ids'[c] = S /\ events'[c] = E
           \/ ids'[c] = {} /\ events'[c] = {}
           \/ ids'[c] = ids[c] /\ events'[c] = events[c]
        /\ \A d \in Consumers \ {c} : ids'[d] = ids[d] /\ events'[d] = events[d]
    BY <1>9, <1>a DEF SetBatch, Again
  <2>2. \A e \in stored : owner[e] = NoConsumer /\ owner'[e] = NoConsumer
    BY <1>7, <1>8, <1>9, <1>b
  <2> QED
    BY <1>7, <1>8, <1>9, <2>1, <2>2 DEF OnceInv
<1>10. CASE ReadOwn(c)
  <2> DEFINE S == FirstN(PendingOf(c), BatchSize)
  <2>1. S \subseteq PendingOf(c)
    BY FirstNSubset
  <2>2. S \subseteq Entry /\ \A e \in S : e \notin stored
    <3>1. c # NoConsumer /\ pc[c] # "ack"
      BY <1>10 DEF ReadOwn
    <3> QED
      BY <2>1, <3>1, <1>6, <1>7, PendingIsNotStored DEF PendingOf
  <2> HIDE DEF S
  <2>3. /\ pc[c] = "recover" /\ pc'[c] \notin {"new", "ack"} /\ UNCHANGED <<owner, stored, twice>>
        /\ \/ SetBatch(c, S, {e \in S : e > trimTo}) \/ Again(c) \/ UNCHANGED <<ids, events>>
    BY <1>10, <1>a DEF ReadOwn, Handle, Again, GoTo, S
  <2> QED
    BY <1>9, <2>2, <2>3
<1>11. CASE Claim(c)
  <2> DEFINE S == FirstN({e \in Entry : owner[e] \in idle}, BatchSize)
             got == {e \in S : e > trimTo}
  <2>1. S \subseteq {e \in Entry : owner[e] \in idle}
    BY FirstNSubset
  <2>2. S \subseteq Entry /\ \A e \in S : e \notin stored
    <3>1. NoConsumer \notin idle /\ pc[c] # "ack"
      BY <1>11 DEF Claim, TypeInv, TypeOK
    <3> QED
      BY <2>1, <3>1, <1>6, <1>7, PendingIsNotStored
  <2> HIDE DEF S
  <2>3. /\ pc[c] = "claim" /\ pc'[c] = "inspect" /\ UNCHANGED <<stored, twice>>
        /\ SetBatch(c, got, got)
        /\ owner' = [e \in Entry |-> IF e \in got THEN c
                                    ELSE IF e \in S THEN NoConsumer ELSE owner[e]]
    BY <1>11, <1>a DEF Claim, GoTo, S
  <2>4. \A e \in Entry : owner'[e] = owner[e] \/ owner'[e] = NoConsumer \/ e \in got
    BY <2>3
  <2>5. got \in SUBSET Entry /\ \A e \in got : e \notin stored
    BY <2>2
  <2> HIDE DEF got
  <2> QED
    BY <1>9, <2>3, <2>4, <2>5
<1>12. CASE Prune(c)
  BY <1>12, <1>8, <1>b, <1>7 DEF Prune, OnceInv
<1>13. CASE EndPrune(c)
  <2>1. /\ pc[c] = "prune" /\ pc'[c] \notin {"new", "ack"} /\ UNCHANGED <<owner, stored, twice>>
        /\ \/ SetBatch(c, ids[c], events[c]) \/ Again(c) \/ UNCHANGED <<ids, events>>
    BY <1>13, <1>a DEF EndPrune, Handle, Again, GoTo
  <2>2. \A d \in Consumers : \/ ids'[d] = ids[d] /\ events'[d] = events[d]
                             \/ ids'[d] = {} /\ events'[d] = {}
    BY <2>1, <1>a DEF SetBatch, Again
  <2> QED
    BY <1>7, <1>8, <2>1, <2>2 DEF OnceInv
<1>14. CASE ReadNew(c)
  <2> DEFINE S == FirstN(Undelivered, BatchSize)
  <2>1. S \subseteq Undelivered
    BY FirstNSubset
  <2>2. S \subseteq Entry /\ \A e \in S : e \notin stored
    BY <2>1, <1>a DEF Undelivered, Entry
  <2> HIDE DEF S
  <2>3. /\ pc[c] = "read" /\ pc'[c] \notin {"new", "ack"} /\ UNCHANGED <<stored, twice>>
        /\ SetBatch(c, S, S) \/ Again(c)
        /\ \A e \in Entry : owner'[e] = owner[e] \/ e \in S
    BY <1>14, <1>a DEF ReadNew, Handle, Again, GoTo, S
  <2> QED
    BY <1>9, <2>2, <2>3
<1>15. CASE Insert(c)
  <2>1. /\ pc[c] = "insert" /\ pc' = [pc EXCEPT ![c] = "ack"]
        /\ stored' = stored \cup events[c] /\ twice' = twice \cup (stored \cap events[c])
        /\ UNCHANGED <<owner, ids, events>>
    BY <1>15 DEF Insert, Land, GoTo
  <2>2. twice' = {}
    BY <1>8, <2>1
  <2>3. \A e \in stored : owner[e] = NoConsumer
    BY <1>7, <1>8, <2>1
  <2>4. pc'[c] = "ack" /\ events[c] \subseteq ids'[c]
    BY <1>a, <1>8, <2>1
  <2>5. \A d \in Consumers \ {c} : events[d] = {}
    BY <1>7, <1>8
  <2> QED
    BY <1>7, <1>8, <2>1, <2>2, <2>3, <2>4, <2>5 DEF OnceInv
<1>16. CASE Ack(c)
  <2>1. /\ pc[c] = "ack" /\ pc'[c] \notin {"new", "ack"}
        /\ owner' = [e \in Entry |-> IF e \in ids[c] THEN NoConsumer ELSE owner[e]]
        /\ ids' = [ids EXCEPT ![c] = {}] /\ events' = [events EXCEPT ![c] = {}]
        /\ UNCHANGED <<stored, twice>>
    BY <1>16, <1>a DEF Ack, Again, GoTo, SetBatch
  <2>2. \A e \in stored : owner'[e] = NoConsumer
    BY <1>7, <1>8, <1>b, <2>1
  <2> QED
    BY <1>a, <1>7, <1>8, <2>1, <2>2 DEF OnceInv
<1> QED
  BY <1>10, <1>11, <1>12, <1>13, <1>14, <1>15, <1>16 DEF RunOnce

\* With one worker at a time every entry is inserted once, unless a call fails or
\* a worker dies.
THEOREM ExactlyOnceWithoutFaults ==
  ASSUME Overlap = FALSE
  PROVE  Spec => []DuplicatesNeedAFault
<1>1. TypeInv /\ [Next]_vars => TypeInv'
  BY TypeStep
<1>2. TypeInv /\ TypeInv' /\ LossInv /\ [Next]_vars => LossInv'
  BY LossStep
<1>3. TypeInv /\ TypeInv' /\ LossInv /\ OnceInv /\ [Next]_vars => OnceInv'
  BY OnceStep DEF LossInv
<1>4. TypeInv /\ OnceInv => DuplicatesNeedAFault
  <2> SUFFICES ASSUME TypeInv, OnceInv, ~(faults > 0), \A c \in Consumers : pc[c] # "dead"
               PROVE  twice = {}
    BY DEF DuplicatesNeedAFault
  <2>1. faults \in Nat
    BY BatcherAssumption DEF TypeInv, TypeOK
  <2>2. faults = 0
    BY <2>1
  <2> QED
    BY <2>2 DEF OnceInv, Smooth
<1> QED
  BY <1>1, <1>2, <1>3, <1>4, TypeInit, LossInit, OnceInit, PTL DEF Spec

-----------------------------------------------------------------------------
(* The batcher implements Delivery.                                         *)

SettledSet == {e \in Entry : Settled(e)}

\* Entries only ever settle: no step hands a settled one out again.
LEMMA SettledGrows ==
  ASSUME TypeInv, TypeInv', LossInv, [Next]_vars
  PROVE  \A e \in Entry : Settled(e) => Settled(e)'
<1> USE DEF Settled, stream, redis, worker, sink
<1>a. /\ owner \in [Entry -> Consumers \cup {NoConsumer}]
      /\ lastId \in Nat /\ trimTo \in Nat /\ delivered \in 0..lastId
      /\ idle \subseteq Consumers /\ NoConsumer \notin Consumers
  BY BatcherAssumption DEF TypeInv, TypeOK
<1>1. CASE Publish
  BY <1>1, <1>a DEF Publish, TypeInv, TypeOK, Entry
<1>2. CASE UNCHANGED vars
  BY <1>2 DEF vars
<1> SUFFICES ASSUME NEW c \in Consumers,
                    \/ GoIdle(c) \/ Start(c) \/ RunOnce(c)
                    \/ RedisError(c) \/ InsertFails(c)
                    \/ Hang(c) \/ Crash(c) \/ HealthRestart(c)
             PROVE  \A e \in Entry : Settled(e) => Settled(e)'
  BY <1>1, <1>2 DEF Next
<1>3. CASE EnsureGroup(c)
  BY <1>3 DEF EnsureGroup, TypeInv, GroupInv
<1>4. CASE Claim(c)
  <2> DEFINE S == FirstN({e \in Entry : owner[e] \in idle}, BatchSize)
             got == {e \in S : e > trimTo}
  <2>1. \A e \in S : owner[e] # NoConsumer
    BY FirstNSubset, <1>a
  <2> HIDE DEF S
  <2>2. /\ owner' = [e \in Entry |-> IF e \in got THEN c
                                    ELSE IF e \in S THEN NoConsumer ELSE owner[e]]
        /\ UNCHANGED <<lastId, trimTo, delivered>>
    BY <1>4 DEF Claim, S
  <2> QED
    BY <2>1, <2>2
<1>5. CASE ReadNew(c)
  <2> DEFINE S == FirstN(Undelivered, BatchSize)
  <2>1. S \subseteq Undelivered
    BY FirstNSubset
  <2> HIDE DEF S
  <2>2. \/ UNCHANGED <<delivered, owner>>
        \/ /\ delivered' \in S
           /\ owner' = [e \in Entry |-> IF e \in S THEN c ELSE owner[e]]
    BY <1>5 DEF ReadNew, S
  <2>3. UNCHANGED <<lastId, trimTo>>
    BY <1>5 DEF ReadNew
  <2>4. ASSUME NEW e \in Entry, Settled(e) PROVE Settled(e)'
    <3>1. e \notin S /\ e \in Int
      BY <2>1, <2>4, <1>a DEF Undelivered, Entry
    <3>2. owner'[e] = NoConsumer
      BY <2>2, <2>4, <3>1
    <3>3. delivered <= delivered' /\ delivered' \in Int
      <4>1. CASE delivered' = delivered
        BY <4>1, <1>a
      <4>2. CASE delivered' \in S
        BY <4>2, <2>1, <1>a DEF Undelivered
      <4> QED
        BY <4>1, <4>2, <2>2
    <3> QED
      BY <2>3, <2>4, <3>1, <3>2, <3>3, <1>a
  <2> QED
    BY <2>4
<1>6. CASE Prune(c) \/ Ack(c)
  <2>1. UNCHANGED <<lastId, trimTo, delivered>>
    BY <1>6 DEF Prune, Ack
  <2>2. \A e \in Entry : owner'[e] \in {owner[e], NoConsumer}
    <3>1. CASE Prune(c)
      BY <3>1 DEF Prune
    <3>2. CASE Ack(c)
      BY <3>2 DEF Ack
    <3> QED
      BY <1>6, <3>1, <3>2
  <2> QED
    BY <2>1, <2>2
<1>7. CASE ReadOwn(c) \/ Inspect(c) \/ EndPrune(c)
  BY <1>7 DEF ReadOwn, Inspect, EndPrune
<1>8. CASE GoIdle(c) \/ Start(c) \/ RedisError(c) \/ Insert(c)
  BY <1>8 DEF GoIdle, Start, RedisError, Insert
<1>9. CASE InsertFails(c) \/ Hang(c) \/ Die(c)
  BY <1>9 DEF InsertFails, Hang, Die
<1> QED
  BY <1>3, <1>4, <1>5, <1>6, <1>7, <1>8, <1>9 DEF RunOnce, Crash, HealthRestart

\* A step inserts rows of read entries, or leaves the store alone.
LEMMA StoreOrNot ==
  ASSUME TypeInv, [Next]_vars
  PROVE  \/ UNCHANGED stored
         \/ /\ UNCHANGED <<stream, redis>>
            /\ \E S \in SUBSET (1..lastId) : stored' = stored \cup S
<1> USE DEF stream, redis, worker, sink
<1>1. \A c \in Consumers : events[c] \subseteq 1..lastId
  BY DEF TypeInv, TypeOK
<1>2. CASE Publish \/ UNCHANGED vars
  BY <1>2 DEF Publish, vars
<1> SUFFICES ASSUME NEW c \in Consumers,
                    \/ GoIdle(c) \/ Start(c) \/ RunOnce(c)
                    \/ RedisError(c) \/ InsertFails(c)
                    \/ Hang(c) \/ Crash(c) \/ HealthRestart(c)
             PROVE  \/ UNCHANGED stored
                    \/ /\ UNCHANGED <<stream, redis>>
                       /\ \E S \in SUBSET (1..lastId) : stored' = stored \cup S
  BY <1>2 DEF Next
<1>3. CASE Insert(c) \/ InsertFails(c) \/ Die(c)
  BY <1>1, <1>3 DEF Insert, InsertFails, Die, Land
<1>4. CASE GoIdle(c) \/ Start(c) \/ RedisError(c) \/ Hang(c)
  BY <1>4 DEF GoIdle, Start, RedisError, Hang
<1>5. CASE EnsureGroup(c) \/ ReadOwn(c) \/ Claim(c) \/ Inspect(c)
  BY <1>5 DEF EnsureGroup, ReadOwn, Claim, Inspect
<1>6. CASE Prune(c) \/ EndPrune(c) \/ ReadNew(c) \/ Ack(c)
  BY <1>6 DEF Prune, EndPrune, ReadNew, Ack
<1> QED
  BY <1>3, <1>4, <1>5, <1>6 DEF RunOnce, Crash, HealthRestart

\* What settles is stored or has left the window the stream keeps.
LEMMA SettledBound ==
  TypeInv /\ SettledIsStored =>
     SettledSet \subseteq stored \cup {e \in 1..lastId : e <= lastId - MaxLen}
<1> SUFFICES ASSUME TypeInv, SettledIsStored,
                    NEW e \in Entry, Settled(e), e \notin stored
             PROVE  e \in 1..lastId /\ e <= lastId - MaxLen
  BY DEF SettledSet
<1>1. e <= trimTo
  BY DEF SettledIsStored
<1> QED
  BY <1>1, BatcherAssumption DEF TypeInv, TypeOK, Settled, Entry

\* The same of the state after a step.
LEMMA SettledBoundNext ==
  (TypeInv /\ SettledIsStored)' =>
     (SettledSet \subseteq stored \cup {e \in 1..lastId : e <= lastId - MaxLen})'
BY SettledBound, PTL

\* Every step of the batcher is a publish, a store, a settle or a stutter of
\* Delivery.
LEMMA SimulatesStep ==
  ASSUME TypeInv, TypeInv', LossInv, LossInv', [Next]_vars
  PROVE  [D!Next]_(D!vars)
<1> USE DEF SettledSet
<1>1. SettledSet \subseteq SettledSet'
  BY SettledGrows
<1>2. SettledSet' \subseteq stored' \cup {e \in 1..lastId' : e <= lastId' - MaxLen}
  BY SettledBoundNext DEF LossInv
<1>3. CASE Publish
  <2>1. /\ lastId < MaxEntries /\ lastId' = lastId + 1
        /\ UNCHANGED <<stored, owner, delivered>>
    BY <1>3 DEF Publish, redis, sink
  <2>2. SettledSet' \ SettledSet \subseteq (D!Overflowed)'
    <3>1. ASSUME NEW e \in SettledSet' \ SettledSet PROVE e \in (D!Overflowed)'
      <4>1. e \in Entry /\ Settled(e)' /\ ~Settled(e)
        BY <3>1
      <4>2. e <= lastId + 1 /\ owner[e] = NoConsumer /\ (e <= delivered \/ e <= trimTo')
        BY <4>1, <2>1 DEF Settled
      <4>3. e <= trimTo'
        BY <4>1, <4>2, <2>1 DEF Settled, TypeInv, TypeOK, Entry
      <4>4. e \in 1..(lastId + 1) /\ e <= lastId + 1 - MaxLen
        BY <4>1, <4>2, <4>3, <2>1, BatcherAssumption DEF TypeInv, TypeOK, Entry
      <4> QED
        BY <4>4, <2>1, BatcherAssumption DEF D!Overflowed, TypeInv, TypeOK
    <3> QED
      BY <3>1
  <2>3. SettledSet' = SettledSet \cup (SettledSet' \ SettledSet)
    BY <1>1
  <2>4. D!Publish
    BY <2>1, <2>2, <2>3 DEF D!Publish
  <2> QED
    BY <2>4 DEF D!Next
<1>4. CASE UNCHANGED lastId /\ UNCHANGED stored
  <2>1. SettledSet' \subseteq stored \cup D!Overflowed
    BY <1>2, <1>4 DEF D!Overflowed
  <2>2. SettledSet' = SettledSet \cup SettledSet'
    BY <1>1
  <2>3. D!Settle
    BY <2>1, <2>2, <1>4 DEF D!Settle
  <2> QED
    BY <2>3 DEF D!Next
<1>5. CASE /\ UNCHANGED <<stream, redis>>
           /\ \E S \in SUBSET (1..lastId) : stored' = stored \cup S
  <2>1. SettledSet' = SettledSet
    BY <1>5 DEF Settled, stream, redis
  <2>2. D!Store
    BY <1>5, <2>1 DEF D!Store, stream
  <2> QED
    BY <2>2 DEF D!Next
<1>6. UNCHANGED lastId \/ Publish
  BY DEF Next, vars, stream, GoIdle, Start, RunOnce, EnsureGroup, ReadOwn, Claim,
         Inspect, Prune, EndPrune, ReadNew, Insert, Ack, RedisError, InsertFails,
         Hang, Crash, HealthRestart, Die
<1> QED
  BY <1>3, <1>4, <1>5, <1>6, StoreOrNot

\* With one worker at a time, the batcher keeps the promise of the ingestion bus:
\* whatever it does is a publish, a store or a settle that Delivery allows.
THEOREM BatcherImplementsDelivery ==
  ASSUME Overlap = FALSE
  PROVE  Spec => ImplementsDelivery
<1>1. Init => D!Init
  BY DEF Init, D!Init, Settled, Entry
<1>2. TypeInv /\ [Next]_vars => TypeInv'
  BY TypeStep
<1>3. TypeInv /\ TypeInv' /\ LossInv /\ [Next]_vars => LossInv'
  BY LossStep
<1>4. TypeInv /\ TypeInv' /\ LossInv /\ LossInv' /\ [Next]_vars => [D!Next]_(D!vars)
  BY SimulatesStep
<1> QED
  BY <1>1, <1>2, <1>3, <1>4, TypeInit, LossInit, PTL DEF Spec, ImplementsDelivery, D!Spec

=============================================================================
