------------------------------ MODULE Senders ------------------------------
(***************************************************************************)
(* Two senders that post to the ingest service on their own account, and   *)
(* what it makes of their posts.                                           *)
(*                                                                         *)
(* The SDKs (sdk/python, sdk/node) count the requests an API serves in a   *)
(* window of cells keyed by route and caller's address, and post it every  *)
(* minute: nothing is retried, a breaker pauses after failures in a row.   *)
(* collect_api_metrics (oriflux/ingest/main.py) turns each entry into a    *)
(* row with a country in place of the address.  A route stands for the     *)
(* endpoint, method, status code and consumer, an address for its country. *)
(*                                                                         *)
(* A payment provider posts each charge until it is answered               *)
(* (billing_webhook and oriflux/connectors/revenue.py).                    *)
(***************************************************************************)
EXTENDS Integers, FiniteSets, FiniteSetsExt

CONSTANTS Routes,      \* what is counted separately whoever calls
          Callers,     \* addresses, one per country
          NoIp,        \* no address known
          Over,        \* the address of the Node SDK's overflow cells
          Unresolved,  \* the country of overflow entries
          Posts,       \* posts the SDK may have under way
          Charges,     \* revenue events of the payment provider
          MaxKeys,     \* cells before the window overflows
          WireMax,     \* entries the service accepts in a post
          Threshold,   \* failures in a row that open the breaker
          MaxMade,     \* bound on the requests counted
          MaxFaults    \* bound on failed posts, lost answers and restarts

ASSUME SendersAssumption ==
    /\ IsFiniteSet(Routes) /\ IsFiniteSet(Callers) /\ IsFiniteSet(Posts)
    /\ NoIp \notin Callers /\ Over \notin Callers \cup {NoIp}
    /\ Unresolved \notin Callers \cup {NoIp, Over}
    /\ {MaxKeys, WireMax, Threshold} \subseteq Nat \ {0}
    /\ {MaxMade, MaxFaults} \subseteq Nat

VARIABLES
    sdk,        \* which one: "python" or "node"
    made,       \* requests made to the API, by route and address (history)
    window,     \* requests counted in each cell
    overflow,   \* cells marked as overflow
    sending,    \* what each post carries: counts and marks; empty: idle
    failures,   \* failures the breaker has counted
    open,       \* is the breaker open?
    cut,        \* was an entry left out, or a post too long? (history)
    stored,     \* requests in api_minutely, by route and country
    owed,       \* charges not answered yet
    revenue,    \* revenue events: <<charge, delivery>>
    deliveries, \* deliveries of charges so far: the clock that stamps them
    faults      \* failures so far, of MaxFaults

memory  == <<window, overflow>>
breaker == <<failures, open>>
money   == <<owed, revenue, deliveries>>
sendersVars    == <<sdk, made, memory, sending, breaker, cut, stored, money, faults>>

Ips       == Callers \cup {NoIp}
Cells     == Routes \X (Ips \cup {Over})
Countries == Ips \cup {Unresolved}
Empty     == [c \in Cells |-> 0]
Nothing   == [count |-> Empty, marks |-> {}]

Used(w)       == {c \in Cells : w[c] > 0}
Total(w, cs)  == SumFunctionOnSet(w, cs)
IsIdle(p)     == sending[p] = Nothing

SendersInit ==
    /\ sdk \in {"python", "node"}
    /\ made = [x \in Routes \X Ips |-> 0]
    /\ window = Empty /\ overflow = {}
    /\ sending = [p \in Posts |-> Nothing]
    /\ failures = 0 /\ open = FALSE
    /\ cut = FALSE
    /\ stored = [x \in Routes \X Countries |-> 0]
    /\ owed = Charges /\ revenue = {} /\ deliveries = 0
    /\ faults = 0

-----------------------------------------------------------------------------
(* The window.                                                              *)

\* Python drops the address of a request that does not fit, which may lead to
\* the cell of callers without one; Node has cells of their own for them.
OverflowCell(r, ip) == IF sdk = "python" THEN <<r, NoIp>> ELSE <<r, Over>>

\* Slip: a cell that exists already is not marked.
RecordMarkingNew(r, ip) ==
    LET full == window[<<r, ip>>] = 0 /\ Cardinality(Used(window)) >= MaxKeys
        cell == IF full THEN OverflowCell(r, ip) ELSE <<r, ip>>
    IN  /\ Total(made, DOMAIN made) < MaxMade
        /\ made' = [made EXCEPT ![<<r, ip>>] = @ + 1]
        /\ window' = [window EXCEPT ![cell] = @ + 1]
        /\ overflow' = IF full /\ window[cell] = 0 THEN overflow \cup {cell} ELSE overflow
        /\ UNCHANGED <<sdk, sending, breaker, cut, stored, money, faults>>

\* Slip: a request that does not fit is only counted as overflow.
RecordOnlyWhatFits(r, ip) ==
    LET full == window[<<r, ip>>] = 0 /\ Cardinality(Used(window)) >= MaxKeys
    IN  /\ Total(made, DOMAIN made) < MaxMade
        /\ made' = [made EXCEPT ![<<r, ip>>] = @ + 1]
        /\ window' = IF full THEN window ELSE [window EXCEPT ![<<r, ip>>] = @ + 1]
        /\ UNCHANGED <<sdk, overflow, sending, breaker, cut, stored, money, faults>>

Record(r, ip) ==
    LET full == window[<<r, ip>>] = 0 /\ Cardinality(Used(window)) >= MaxKeys
        cell == IF full THEN OverflowCell(r, ip) ELSE <<r, ip>>
    IN  /\ Total(made, DOMAIN made) < MaxMade
        /\ made' = [made EXCEPT ![<<r, ip>>] = @ + 1]
        /\ window' = [window EXCEPT ![cell] = @ + 1]
        /\ overflow' = IF full THEN overflow \cup {cell} ELSE overflow
        /\ UNCHANGED <<sdk, sending, breaker, cut, stored, money, faults>>

-----------------------------------------------------------------------------
(* The flush.  Python has one thread for it; in Node the next may start     *)
(* before the last is answered.                                             *)

\* Slip: the marks of the window are not cleared with it.
DrainedButMarks == window' = Empty /\ UNCHANGED overflow

Drained == window' = Empty /\ overflow' = {}
MayFlush == Used(window) # {} /\ (sdk = "python" => \A p \in Posts : IsIdle(p))

\* Node sends the first entries that the service would accept, Python them all.
Sent == IF sdk = "node" /\ Cardinality(Used(window)) > WireMax
        THEN kSubset(WireMax, Used(window)) ELSE {Used(window)}

Flush(p) ==
    /\ MayFlush /\ ~open /\ IsIdle(p)
    /\ \E cells \in Sent :
          /\ sending' = [sending EXCEPT ![p] =
                 [count |-> [c \in Cells |-> IF c \in cells THEN window[c] ELSE 0],
                  marks |-> overflow \cap cells]]
          /\ cut' = (cut \/ cells # Used(window))
    /\ Drained
    /\ UNCHANGED <<sdk, made, breaker, stored, money, faults>>

\* Slip: the breaker is asked before the window is drained.
SkipWithoutDraining ==
    /\ MayFlush /\ open
    /\ UNCHANGED sendersVars

\* The breaker is open: the window is dropped.
Skip ==
    /\ MayFlush /\ open
    /\ Drained
    /\ UNCHANGED <<sdk, made, sending, breaker, cut, stored, money, faults>>

Success == failures' = 0 /\ UNCHANGED open

Failure ==
    IF failures + 1 >= Threshold
    THEN failures' = 0 /\ open' = TRUE
    ELSE failures' = failures + 1 /\ UNCHANGED open

Cooldown ==
    /\ open
    /\ open' = FALSE
    /\ UNCHANGED <<sdk, made, memory, sending, failures, cut, stored, money, faults>>

-----------------------------------------------------------------------------
(* The service.                                                             *)

Fault == faults < MaxFaults /\ faults' = faults + 1
End(p) == sending' = [sending EXCEPT ![p] = Nothing]
Posted(p) == Used(sending[p].count)
TooLong(p) == Cardinality(Posted(p)) > WireMax

\* ApiMinuteRow.from_entry: an entry marked as overflow is of no country.
Country(p, c) == IF c \in sending[p].marks THEN Unresolved ELSE c[2]

StoreRows(p) ==
    stored' = [x \in DOMAIN stored |-> stored[x] +
                  Total(sending[p].count, {c \in Posted(p) : c[1] = x[1] /\ Country(p, c) = x[2]})]

Accept(p) ==
    /\ ~IsIdle(p) /\ ~TooLong(p)
    /\ StoreRows(p) /\ Success /\ End(p)
    /\ UNCHANGED <<sdk, made, memory, cut, money, faults>>

\* 4xx, for a post that is too long, or for the key or the quota: a failure to
\* Python, and not one to Node.
Refuse(p) ==
    /\ ~IsIdle(p)
    /\ IF TooLong(p) THEN cut' = TRUE /\ UNCHANGED faults ELSE Fault /\ UNCHANGED cut
    /\ IF sdk = "python" THEN Failure ELSE Success
    /\ End(p)
    /\ UNCHANGED <<sdk, made, memory, stored, money>>

\* Slip: what failed goes back into the window.
FailAndKeep(p) ==
    /\ ~IsIdle(p) /\ ~TooLong(p)
    /\ Fault /\ Failure /\ End(p)
    /\ StoreRows(p) \/ UNCHANGED stored
    /\ window' = [c \in Cells |-> window[c] + sending[p].count[c]]
    /\ overflow' = overflow \cup sending[p].marks
    /\ UNCHANGED <<sdk, made, cut, money>>

\* 5xx, or no answer in time, when the rows may be published all the same.
Fail(p) ==
    /\ ~IsIdle(p) /\ ~TooLong(p)
    /\ Fault /\ Failure /\ End(p)
    /\ StoreRows(p) \/ UNCHANGED stored
    /\ UNCHANGED <<sdk, made, memory, cut, money>>

\* The host of the SDK stops, and nothing is flushed.
Restart ==
    /\ Used(window) # {} \/ failures > 0 \/ open
    /\ \A p \in Posts : IsIdle(p)
    /\ Fault
    /\ Drained
    /\ failures' = 0 /\ open' = FALSE
    /\ UNCHANGED <<sdk, made, sending, cut, stored, money>>

-----------------------------------------------------------------------------
(* Webhooks.                                                                *)

\* Slip: the provider is answered before the event is published.
ChargeAnsweredFirst(c) ==
    /\ c \in owed
    /\ deliveries' = deliveries + 1
    /\ owed' = owed \ {c}
    /\ \/ Fault /\ UNCHANGED revenue
       \/ revenue' = revenue \cup {<<c, deliveries'>>} /\ UNCHANGED faults
    /\ UNCHANGED <<sdk, made, memory, sending, breaker, cut, stored>>

\* The event has the provider's id and the time of the delivery.  The provider
\* tries again when the service fails or its answer does not arrive.
Charge(c) ==
    /\ c \in owed
    /\ deliveries' = deliveries + 1
    /\ \/ /\ owed' = owed \ {c} /\ UNCHANGED faults
          /\ revenue' = revenue \cup {<<c, deliveries'>>}
       \/ /\ Fault /\ UNCHANGED owed
          /\ revenue' \in {revenue, revenue \cup {<<c, deliveries'>>}}
    /\ UNCHANGED <<sdk, made, memory, sending, breaker, cut, stored>>

-----------------------------------------------------------------------------
Ends(p) == Accept(p) \/ Refuse(p) \/ Fail(p)

SendersNext ==
    \/ \E r \in Routes, ip \in Ips : Record(r, ip)
    \/ \E p \in Posts : Flush(p) \/ Ends(p)
    \/ Skip \/ Cooldown \/ Restart
    \/ \E c \in Charges : Charge(c)

SendersSpec == SendersInit /\ [][SendersNext]_sendersVars

\* The timer of the SDK, the time-out of its posts, and the provider's retries.
SendersFairSpec ==
    /\ SendersSpec
    /\ WF_sendersVars(Skip \/ \E p \in Posts : Flush(p))
    /\ \A p \in Posts : WF_sendersVars(Ends(p))
    /\ \A c \in Charges : WF_sendersVars(Charge(c))

-----------------------------------------------------------------------------
(* Properties.                                                              *)

InRoute(count, r) == Total(count, {x \in DOMAIN count : x[1] = r})
Pending(r) == InRoute(window, r) + Total([p \in Posts |-> InRoute(sending[p].count, r)], Posts)

\* Type invariant.  Marks are of cells in use, and a window has no more cells than its
\* limit and, beyond them, one for each route that overflowed ("bounded memory").
SendersTypeOK ==
    /\ sdk \in {"python", "node"}
    /\ made \in [Routes \X Ips -> 0..MaxMade]
    /\ window \in [Cells -> 0..MaxMade] /\ overflow \subseteq Used(window)
    /\ Cardinality(Used(window) \ overflow) <= MaxKeys
    /\ \A c, d \in overflow : c[1] = d[1] => c = d
    /\ \A p \in Posts : sending[p].marks \subseteq Used(sending[p].count)
    /\ failures \in 0..(Threshold - 1) /\ open \in BOOLEAN
    /\ stored \in [Routes \X Countries -> 0..MaxMade]
    /\ owed \subseteq Charges /\ revenue \subseteq Charges \X (1..deliveries)
    /\ faults \in 0..MaxFaults

\* "The data stays honest about itself" (aggregator.py): no row counts more
\* requests from a country than its callers made, or more without one than were
\* made without an address, whatever overflowed into its cell.
RowsAreHonest == \A r \in Routes, ip \in Ips : stored[<<r, ip>>] <= made[<<r, ip>>]

\* Rows, posts and window together count no request twice, not even one of a
\* post that was published although the SDK took it for lost.
NothingCountsTwice == \A r \in Routes : InRoute(stored, r) + Pending(r) <= InRoute(made, r)

\* Every request made is in the window, on its way or in a row, until something
\* fails or a window grows longer than a post may be.
NothingIsLostUnasked ==
    faults = 0 /\ ~cut =>
        \A r \in Routes : InRoute(stored, r) + Pending(r) = InRoute(made, r)

\* What the SDK holds it lets go, whatever becomes of the service.
MemoryIsReleased == []<>(window = Empty) /\ \A p \in Posts : []<>IsIdle(p)

\* A charge that is revenue ends in an event, whatever deliveries fail.
ChargesArrive == \A c \in Charges : <>(\E x \in revenue : x[1] = c)

\* "Idempotent under redelivery ... the ClickHouse dedup absorbs duplicates"
\* (billing_webhook): a charge counts once, where rows are one if their event id
\* and their timestamp are (ORDER BY of the events table).
RevenueCountedOnce == \A x, y \in revenue : x[1] = y[1] => x = y

=============================================================================
