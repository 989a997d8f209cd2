------------------------------- MODULE Batcher -------------------------------
(***************************************************************************)
(* The micro-batcher: a Redis Streams consumer group drained into          *)
(* ClickHouse (oriflux/workers/batcher.py).  The events batcher and the    *)
(* api-metrics batcher are two instances of this class on two streams, so  *)
(* one stream, one group and the consumers that ever join it are modelled. *)
(*                                                                         *)
(* Stream entries are numbered in publication order.  A consumer name is a *)
(* container hostname: a restarted container joins under a new one.  Each  *)
(* step of a worker is one Redis command or the ClickHouse insert, so      *)
(* workers, publishers and the passing of time interleave at every await.  *)
(***************************************************************************)
EXTENDS Integers, FiniteSets

CONSTANTS Consumers,    \* hostnames the workers' containers ever get
          NoConsumer,   \* "not pending on anybody"
          MaxEntries,   \* bound on the entries ever published
          MaxLen,       \* XADD MAXLEN: the newest entries always kept
          BatchSize,    \* COUNT of every read
          Malformed,    \* entries whose payload the model class rejects
          Overlap,      \* TRUE: several workers may run at once
          MaxFaults     \* bound on failed Redis calls and failed inserts

ASSUME BatcherAssumption ==
    /\ NoConsumer \notin Consumers
    /\ IsFiniteSet(Consumers)
    /\ MaxEntries \in Nat
    /\ MaxLen \in Nat \ {0}
    /\ BatchSize \in Nat \ {0}
    /\ Malformed \subseteq 1..MaxEntries
    /\ Overlap \in BOOLEAN
    /\ MaxFaults \in Nat

VARIABLES
    lastId,     \* newest stream entry
    trimTo,     \* entries up to this one were trimmed from the stream
    group,      \* does the consumer group exist?
    delivered,  \* the group's last-delivered-id
    owner,      \* pending entries list: entry -> consumer it is pending on
    members,    \* consumers the group knows
    idle,       \* members whose last command is claim_idle_ms or more old
    pc,         \* next step of each worker
    ids,        \* entry ids of the worker's current batch
    events,     \* those of ids whose payload was read
    victims,    \* consumers XINFO showed prunable, not deleted yet
    ticked,     \* workers whose last_tick was ever set
    hung,       \* workers stuck inside an insert, past batch_stall_s
    stored,     \* entries with a row in ClickHouse
    twice,      \* entries inserted more than once (history)
    faults      \* failures so far, of MaxFaults

stream  == <<lastId, trimTo>>
redis   == <<group, delivered, owner, members, idle>>
worker  == <<pc, ids, events, victims, ticked, hung>>
sink    == <<stored, twice>>
vars    == <<stream, redis, worker, sink, faults>>

Entry == 1..MaxEntries

LoopSteps == {"ensure", "recover", "claim", "inspect", "prune", "read", "ack"}
Steps     == LoopSteps \cup {"new", "insert", "dead"}

Live(c)      == pc[c] \notin {"new", "dead"}
PendingOf(c) == {e \in Entry : owner[e] = c}
Undelivered  == {e \in 1..lastId : e > delivered /\ e > trimTo}

\* The n lowest entries of S: Redis answers in id order, COUNT at a time.
FirstN(S, n) == {e \in S : Cardinality({x \in S : x < e}) < n}

Init ==
    /\ lastId = 0 /\ trimTo = 0
    /\ group = FALSE /\ delivered = 0
    /\ owner = [e \in Entry |-> NoConsumer]
    /\ members = {} /\ idle = {}
    /\ pc = [c \in Consumers |-> "new"]
    /\ ids = [c \in Consumers |-> {}]
    /\ events = [c \in Consumers |-> {}]
    /\ victims = [c \in Consumers |-> {}]
    /\ ticked = {} /\ hung = {}
    /\ stored = {} /\ twice = {}
    /\ faults = 0

-----------------------------------------------------------------------------
(* Publishers and time.                                                     *)

\* XADD with an approximate MAXLEN: Redis trims whole nodes, so how far it
\* trims is open, but never into the MaxLen newest entries.
Publish ==
    /\ lastId < MaxEntries
    /\ lastId' = lastId + 1
    /\ trimTo' \in trimTo..lastId
    /\ trimTo' = trimTo \/ trimTo' <= lastId' - MaxLen
    /\ UNCHANGED <<redis, worker, sink, faults>>

\* Only a worker inside an insert, or a dead one, leaves Redis alone that long.
GoIdle(c) ==
    /\ c \in members \ idle
    /\ pc[c] \in {"insert", "dead"}
    /\ idle' = idle \cup {c}
    /\ UNCHANGED <<stream, group, delivered, owner, members, worker, sink, faults>>

-----------------------------------------------------------------------------
(* One iteration of run_once.                                               *)

\* A command that names the consumer creates it and refreshes its idle time.
Interact(c) == members' = members \cup {c} /\ idle' = idle \ {c}

GoTo(c, step) == pc' = [pc EXCEPT ![c] = step]

SetBatch(c, S, E) == /\ ids' = [ids EXCEPT ![c] = S]
                     /\ events' = [events EXCEPT ![c] = E]

\* An exception, or the end of the iteration: run_forever starts the next one.
Again(c) == GoTo(c, "ensure") /\ SetBatch(c, {}, {})

\* The batch is in hand: tick, then decode.  A payload the model class rejects
\* raises before anything is inserted.
Handle(c, S, E) ==
    /\ ticked' = ticked \cup {c}
    /\ IF E \cap Malformed = {}
       THEN GoTo(c, "insert") /\ SetBatch(c, S, E)
       ELSE Again(c)

Start(c) ==
    /\ pc[c] = "new"
    /\ Overlap \/ \A d \in Consumers : ~Live(d)
    /\ GoTo(c, "ensure")
    /\ UNCHANGED <<stream, redis, ids, events, victims, ticked, hung, sink, faults>>

\* Slip: the group is created at "$", the end of the stream.
CreateGroupAtEnd(c) ==
    /\ pc[c] = "ensure"
    /\ group' = TRUE
    /\ delivered' = IF group THEN delivered ELSE lastId
    /\ GoTo(c, "recover")
    /\ UNCHANGED <<stream, owner, members, idle, ids, events, victims, ticked, hung,
                   sink, faults>>

\* Slip: the group is set back to id 0 on every iteration.
ResetGroup(c) ==
    /\ pc[c] = "ensure"
    /\ group' = TRUE
    /\ delivered' = 0
    /\ GoTo(c, "recover")
    /\ UNCHANGED <<stream, owner, members, idle, ids, events, victims, ticked, hung,
                   sink, faults>>

\* XGROUP CREATE at id 0; BUSYGROUP means the group is already there.
EnsureGroup(c) ==
    /\ pc[c] = "ensure"
    /\ group' = TRUE
    /\ delivered' = IF group THEN delivered ELSE 0
    /\ GoTo(c, "recover")
    /\ UNCHANGED <<stream, owner, members, idle, ids, events, victims, ticked, hung,
                   sink, faults>>

\* XREADGROUP "0": this consumer's own pending entries.  A trimmed one comes
\* back without fields, so it is only acked.
ReadOwn(c) ==
    /\ pc[c] = "recover"
    /\ Interact(c)
    /\ LET S == FirstN(PendingOf(c), BatchSize)
       IN  IF S = {}
           THEN GoTo(c, "claim") /\ UNCHANGED <<ids, events, ticked>>
           ELSE Handle(c, S, {e \in S : e > trimTo})
    /\ UNCHANGED <<stream, group, delivered, owner, victims, hung, sink, faults>>

\* XAUTOCLAIM from 0-0: entries pending on idle consumers move to this one;
\* those already trimmed leave the pending list instead.
Claim(c) ==
    /\ pc[c] = "claim"
    /\ Interact(c)
    /\ LET S == FirstN({e \in Entry : owner[e] \in idle}, BatchSize)
           got == {e \in S : e > trimTo}
       IN  /\ owner' = [e \in Entry |-> IF e \in got THEN c
                                        ELSE IF e \in S THEN NoConsumer ELSE owner[e]]
           /\ SetBatch(c, got, got)
    /\ GoTo(c, "inspect")
    /\ UNCHANGED <<stream, group, delivered, victims, ticked, hung, sink, faults>>

\* XINFO CONSUMERS: the others that are idle with nothing pending.
Inspect(c) ==
    /\ pc[c] = "inspect"
    /\ victims' = [victims EXCEPT ![c] =
                      {d \in members \ {c} : d \in idle /\ PendingOf(d) = {}}]
    /\ GoTo(c, "prune")
    /\ UNCHANGED <<stream, redis, ids, events, ticked, hung, sink, faults>>

\* XGROUP DELCONSUMER, one of them at a time, on what XINFO said: whatever is
\* pending on the deleted consumer by now leaves the pending list with it.
Prune(c) ==
    /\ pc[c] = "prune"
    /\ \E d \in victims[c] :
           /\ victims' = [victims EXCEPT ![c] = @ \ {d}]
           /\ members' = members \ {d}
           /\ idle' = idle \ {d}
           /\ owner' = [e \in Entry |-> IF owner[e] = d THEN NoConsumer ELSE owner[e]]
    /\ UNCHANGED <<stream, group, delivered, pc, ids, events, ticked, hung, sink, faults>>

\* _claim_orphans returns: claimed entries are handled, else new ones are read.
EndPrune(c) ==
    /\ pc[c] = "prune"
    /\ victims[c] = {}
    /\ IF ids[c] = {}
       THEN GoTo(c, "read") /\ UNCHANGED <<ids, events, ticked>>
       ELSE Handle(c, ids[c], events[c])
    /\ UNCHANGED <<stream, redis, victims, hung, sink, faults>>

\* XREADGROUP ">": entries never delivered to anyone in the group.
ReadNew(c) ==
    /\ pc[c] = "read"
    /\ Interact(c)
    /\ LET S == FirstN(Undelivered, BatchSize)
       IN  IF S = {}
           THEN /\ ticked' = ticked \cup {c}
                /\ Again(c)
                /\ UNCHANGED <<delivered, owner>>
           ELSE /\ delivered' \in S /\ \A e \in S : e <= delivered'
                /\ owner' = [e \in Entry |-> IF e \in S THEN c ELSE owner[e]]
                /\ Handle(c, S, S)
    /\ UNCHANGED <<stream, group, victims, hung, sink, faults>>

\* Rows reach ClickHouse.  A second row of an entry has the same sorting key,
\* so the table's FINAL view still counts it once.
Land(S) == stored' = stored \cup S /\ twice' = twice \cup (stored \cap S)

Insert(c) ==
    /\ pc[c] = "insert" /\ c \notin hung
    /\ Land(events[c])
    /\ GoTo(c, "ack")
    /\ UNCHANGED <<stream, redis, ids, events, victims, ticked, hung, faults>>

\* XACK, only after the insert returned; it does not look at the owner.
Ack(c) ==
    /\ pc[c] = "ack"
    /\ owner' = [e \in Entry |-> IF e \in ids[c] THEN NoConsumer ELSE owner[e]]
    /\ ticked' = ticked \cup {c}
    /\ Again(c)
    /\ UNCHANGED <<stream, group, delivered, members, idle, victims, hung, sink, faults>>

-----------------------------------------------------------------------------
(* Failures.                                                                *)

Fault == faults < MaxFaults /\ faults' = faults + 1

\* A Redis call raises: nothing is acked and the loop starts over.
RedisError(c) ==
    /\ pc[c] \in LoopSteps
    /\ Fault
    /\ Again(c)
    /\ victims' = [victims EXCEPT ![c] = {}]
    /\ UNCHANGED <<stream, redis, ticked, hung, sink>>

\* Slip: the exception of the insert is swallowed and the batch acked.
InsertFailureAcked(c) ==
    /\ pc[c] = "insert" /\ c \notin hung
    /\ Fault
    /\ \E S \in SUBSET events[c] : Land(S)
    /\ GoTo(c, "ack")
    /\ UNCHANGED <<stream, redis, ids, events, victims, ticked, hung>>

\* The insert raises; any part of the block may have been committed, because
\* a timeout says nothing of what ClickHouse did.
InsertFails(c) ==
    /\ pc[c] = "insert" /\ c \notin hung
    /\ Fault
    /\ \E S \in SUBSET events[c] : Land(S)
    /\ Again(c)
    /\ UNCHANGED <<stream, redis, victims, ticked, hung>>

\* Container names left to restart under (a bound of the model).
CanRestart == \E d \in Consumers : pc[d] = "new"

Hang(c) ==
    /\ pc[c] = "insert" /\ c \notin hung
    /\ CanRestart
    /\ hung' = hung \cup {c}
    /\ UNCHANGED <<stream, redis, pc, ids, events, victims, ticked, sink, faults>>

\* The process ends; an insert it had under way may still be committed.
Die(c) ==
    /\ pc' = [pc EXCEPT ![c] = "dead"]
    /\ SetBatch(c, {}, {})
    /\ victims' = [victims EXCEPT ![c] = {}]
    /\ hung' = hung \ {c}
    /\ \E S \in SUBSET events[c] : /\ S = {} \/ pc[c] = "insert"
                                   /\ Land(S)
    /\ UNCHANGED <<stream, redis, ticked, faults>>

Crash(c) == Live(c) /\ CanRestart /\ Die(c)

\* Slip: /healthz only says that the HTTP loop is up.
HttpLoopIsUp(c) == TRUE

\* is_alive, as /healthz asks it: a worker that never ticked counts as alive.
IsAlive(c) == c \notin ticked \/ c \notin hung

\* /healthz answers 503 and Swarm replaces the container.
HealthRestart(c) == ~IsAlive(c) /\ Die(c)

-----------------------------------------------------------------------------
RunOnce(c) ==
    \/ EnsureGroup(c) \/ ReadOwn(c) \/ Claim(c) \/ Inspect(c) \/ Prune(c)
    \/ EndPrune(c) \/ ReadNew(c) \/ Insert(c) \/ Ack(c)

Next ==
    \/ Publish
    \/ \E c \in Consumers :
           \/ GoIdle(c) \/ Start(c) \/ RunOnce(c)
           \/ RedisError(c) \/ InsertFails(c)
           \/ Hang(c) \/ Crash(c) \/ HealthRestart(c)

Spec == Init /\ [][Next]_vars

\* The scheduler keeps running the loop, Swarm keeps replacing containers and
\* time passes.  Nothing is assumed of publishers; failures are bounded by
\* MaxFaults and crashes by the container names.
Fairness == \A c \in Consumers :
                /\ WF_vars(RunOnce(c))
                /\ WF_vars(Start(c))
                /\ WF_vars(HealthRestart(c))
                /\ WF_vars(GoIdle(c))

FairSpec == Spec /\ Fairness

-----------------------------------------------------------------------------
(* Properties.                                                              *)

\* Type invariant.  The cursor never passes the newest entry, only existing
\* entries are pending, and the trim stays clear of the MaxLen newest.
TypeOK ==
    /\ lastId \in 0..MaxEntries
    /\ trimTo \in 0..MaxEntries /\ (trimTo = 0 \/ trimTo <= lastId - MaxLen)
    /\ group \in BOOLEAN
    /\ delivered \in 0..lastId
    /\ owner \in [Entry -> Consumers \cup {NoConsumer}]
    /\ \A e \in Entry : owner[e] # NoConsumer => e <= delivered
    /\ members \subseteq Consumers /\ idle \subseteq members
    /\ pc \in [Consumers -> Steps]
    /\ ids \in [Consumers -> SUBSET (1..delivered)]
    /\ events \in [Consumers -> SUBSET (1..delivered)]
    /\ victims \in [Consumers -> SUBSET Consumers]
    /\ ticked \subseteq Consumers /\ hung \subseteq Consumers
    /\ stored \subseteq 1..delivered /\ twice \subseteq stored
    /\ faults \in 0..MaxFaults

\* Nothing will hand this entry to a worker's next read or claim any more.
Settled(e) == /\ e <= lastId
              /\ e <= delivered \/ e <= trimTo
              /\ owner[e] = NoConsumer

\* Every entry the group is done with is in ClickHouse, unless the capped
\* stream had already trimmed it: whatever crashes, restarts, failed calls and
\* claims come in between, "undelivered and un-acked entries survive".
SettledIsStored == \A e \in Entry : Settled(e) => e \in stored \/ e <= trimTo

\* The same promise when several workers run: an entry nobody will be handed
\* again may still be in the hands of a worker about to insert it.
NeverForgotten ==
    \A e \in Entry : Settled(e) =>
        \/ e \in stored \/ e <= trimTo
        \/ \E c \in Consumers : e \in events[c]

\* Only a failure, or a worker that died, makes an entry be inserted twice; a
\* run without either delivers each entry exactly once.
DuplicatesNeedAFault ==
    twice # {} => faults > 0 \/ \E c \in Consumers : pc[c] = "dead"

\* The batcher implements the promise of the ingestion bus.
D == INSTANCE Delivery WITH published <- lastId,
                            settled <- {e \in Entry : Settled(e)}
ImplementsDelivery == D!Spec

\* Every published entry eventually settles, although workers hang and crash:
\* /healthz gets a hung one replaced and the replacement claims what is pending
\* on the dead hostname once it has been idle long enough.  Only an entry that
\* does not decode stops it: its batch fails before the insert, each time.
EveryEntrySettles ==
    \A e \in Entry : (e <= lastId) ~> (Settled(e) \/ \E m \in Malformed : m <= lastId)

=============================================================================
