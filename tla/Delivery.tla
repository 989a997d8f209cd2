------------------------------ MODULE Delivery ------------------------------
(***************************************************************************)
(* What the ingestion bus promises, without a word about consumer groups,  *)
(* workers or crashes: every published entry is in the event store before  *)
(* the bus forgets it, unless the bus overflowed.  An entry is "settled"   *)
(* once nothing will ever hand it to a worker again.  The stream is capped *)
(* to its MaxLen newest entries, so only an older entry may settle without *)
(* having been stored.  Batcher implements this specification.             *)
(***************************************************************************)
EXTENDS Integers

CONSTANTS MaxEntries,   \* bound on the number of entries ever published
          MaxLen        \* the stream keeps at least its MaxLen newest entries

VARIABLES published,    \* entries 1..published were handed to the bus
          stored,       \* entries with at least one row in the event store
          settled       \* entries the bus will never deliver again

vars == <<published, stored, settled>>

\* Entries the cap allows the bus to drop.
Overflowed == {e \in 1..published : e <= published - MaxLen}

Init == /\ published = 0
        /\ stored = {}
        /\ settled = {}

\* A publish may push the oldest entries out of the capped stream.
Publish ==
    /\ published < MaxEntries
    /\ published' = published + 1
    /\ \E S \in SUBSET Overflowed' : settled' = settled \cup S
    /\ UNCHANGED stored

Store ==
    /\ \E S \in SUBSET (1..published) : stored' = stored \cup S
    /\ UNCHANGED <<published, settled>>

Settle ==
    /\ \E S \in SUBSET (stored \cup Overflowed) :
           settled' = settled \cup S
    /\ UNCHANGED <<published, stored>>

Next == Publish \/ Store \/ Settle

Spec == Init /\ [][Next]_vars

=============================================================================
