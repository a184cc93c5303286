--------------------------- MODULE DeliveryTrace ----------------------------
(***************************************************************************)
(* The delivery-trace table of the store (src/store.rs) under the keys of  *)
(* src/store_record.rs: hops of messages are asserted one at a time, the   *)
(* table is reclaimed in key order after each and on open, and a query     *)
(* reads the hops of one message.                                          *)
(*                                                                         *)
(* One engine: its identifier is the first position of every key.  An      *)
(* event is its key; its status is carried along.  `trail` and             *)
(* `unreclaimed` are history.                                              *)
(***************************************************************************)
EXTENDS Integers, FiniteSets, Sequences

CONSTANTS
    Slots,                \* message slots
    Originators,          \* component names, numbered as they sort
    Hops,                 \* hop indices, of at most ten digits
    DeliveryTraceEvents,  \* PersistenceRetention.delivery_trace_events
    RecordBound,          \* how many events a behaviour records
    FaultBound,           \* how many engine failures
    RestartBound          \* how many deaths of the process

ASSUME DeliveryTraceAssumption ==
    /\ Slots \subseteq Nat /\ Originators \subseteq Nat /\ Hops \subseteq Nat
    /\ DeliveryTraceEvents \in Nat \ {0}
    /\ {RecordBound, FaultBound, RestartBound} \subseteq Nat

VARIABLES
    rows,        \* record key -> place in `trail`, the durable table
    stage,       \* what the store is doing with the table
    trail,       \* the keys in the order they were asserted
    unreclaimed, \* has a reclaim failed and none been completed since
    faults, restarts

failures == <<unreclaimed, faults, restarts>>
vars == <<rows, stage, trail, failures>>

-----------------------------------------------------------------------------
RecordKey(slot, originator, hop) == <<slot, originator, hop>>

Keys == {RecordKey(s, o, h) : s \in Slots, o \in Originators, h \in Hops}

\* The slot goes into the key as its decimal digits, unpadded.
Decimal[n \in Nat] == IF n < 10 THEN <<n>> ELSE Append(Decimal[n \div 10], n % 10)

\* The order of two slots as strings: at the first difference, or as a prefix.
SlotBefore(m, n) ==
    LET s == Decimal[m]
        t == Decimal[n]
    IN  \E i \in 1 .. Len(t) :
            /\ \A j \in 1 .. i - 1 : j <= Len(s) /\ s[j] = t[j]
            /\ IF i <= Len(s) THEN s[i] < t[i] ELSE i = Len(s) + 1

\* A mistake: the hop is not padded either.
KeyBeforeUnpadded(j, k) ==
    \/ SlotBefore(j[1], k[1])
    \/ j[1] = k[1] /\ j[2] < k[2]
    \/ j[1] = k[1] /\ j[2] = k[2] /\ SlotBefore(j[3], k[3])

\* Keys sort by slot, originator, and the hop padded to ten digits.
KeyBefore(j, k) ==
    \/ SlotBefore(j[1], k[1])
    \/ j[1] = k[1] /\ j[2] < k[2]
    \/ j[1] = k[1] /\ j[2] = k[2] /\ j[3] < k[3]

-----------------------------------------------------------------------------
Init ==
    /\ rows = [k \in {} |-> {}]
    /\ stage = "Idle"
    /\ trail = <<>>
    /\ unreclaimed = FALSE
    /\ faults = 0 /\ restarts = 0

\* A mistake: a hop that is there already is written over.
RecordOverwriting(key) ==
    /\ stage = "Idle"
    /\ Len(trail) < RecordBound
    /\ trail' = Append(trail, key)
    /\ rows' = [k \in DOMAIN rows \cup {key} |-> IF k = key THEN Len(trail) + 1 ELSE rows[k]]
    /\ stage' = "Reclaiming"
    /\ UNCHANGED failures

\* record_delivery_trace_event: assert refuses a key that is there, and the
\* sender gets the error; nothing changes then.
Record(key) ==
    /\ stage = "Idle"
    /\ Len(trail) < RecordBound
    /\ key \notin DOMAIN rows
    /\ trail' = Append(trail, key)
    /\ rows' = [k \in DOMAIN rows \cup {key} |-> IF k = key THEN Len(trail) + 1 ELSE rows[k]]
    /\ stage' = "Reclaiming"
    /\ UNCHANGED failures

Excess == Cardinality(DOMAIN rows) > DeliveryTraceEvents

\* A mistake: rows are taken from the other end of the scan.
LastRows == {k \in DOMAIN rows : \A j \in DOMAIN rows \ {k} : KeyBefore(j, k)}

\* A mistake: the row just asserted is never the one to go.
FirstButNewest ==
    LET older == {k \in DOMAIN rows : rows[k] # Len(trail)}
    IN  {k \in older : \A j \in older \ {k} : KeyBefore(k, j)}

\* The rows a full scan returns first.
Victims == {k \in DOMAIN rows : \A j \in DOMAIN rows \ {k} : KeyBefore(k, j)}

Reclaim ==
    /\ stage \in {"Reclaiming", "Opening"} /\ Excess
    /\ \E k \in Victims : rows' = [j \in DOMAIN rows \ {k} |-> rows[j]]
    /\ UNCHANGED <<stage, trail, failures>>

\* A mistake: the table is not reclaimed when it is opened.
FinishUnlessFull ==
    /\ stage \in {"Reclaiming", "Opening"}
    /\ stage = "Opening" \/ ~Excess
    /\ stage' = "Idle"
    /\ unreclaimed' = FALSE
    /\ UNCHANGED <<rows, trail, faults, restarts>>

\* The event is acknowledged, or the store is open.
Finish ==
    /\ stage \in {"Reclaiming", "Opening"} /\ ~Excess
    /\ stage' = "Idle"
    /\ unreclaimed' = FALSE
    /\ UNCHANGED <<rows, trail, faults, restarts>>

\* A retraction fails: the call ends in an error, an open leaves no daemon.
ReclaimFails ==
    /\ stage \in {"Reclaiming", "Opening"} /\ Excess
    /\ faults < FaultBound
    /\ faults' = faults + 1
    /\ unreclaimed' = TRUE
    /\ stage' = IF stage = "Opening" THEN "Down" ELSE "Idle"
    /\ UNCHANGED <<rows, trail, restarts>>

Crash ==
    /\ stage # "Down"
    /\ restarts < RestartBound
    /\ restarts' = restarts + 1
    /\ stage' = "Down"
    /\ UNCHANGED <<rows, trail, unreclaimed, faults>>

Open ==
    /\ stage = "Down"
    /\ stage' = "Opening"
    /\ UNCHANGED <<rows, trail, failures>>

Next ==
    \/ \E k \in Keys : Record(k)
    \/ Reclaim \/ Finish \/ ReclaimFails
    \/ Crash \/ Open

Spec == Init /\ [][Next]_vars

-----------------------------------------------------------------------------
OfMessage(key, slot, originator) == key[1] = slot /\ key[2] = originator

\* delivery_trace: the range of one message, sorted by hop_index.
DeliveryTrace(slot, originator) ==
    LET held == {k \in DOMAIN rows : OfMessage(k, slot, originator)}
    IN  CHOOSE f \in [1 .. Cardinality(held) -> held] :
            \A i, j \in 1 .. Cardinality(held) : i < j => f[i][3] < f[j][3]

\* The places in `trail` of the hops recorded of a message.
RecordedOf(slot, originator) ==
    {n \in 1 .. Len(trail) : OfMessage(trail[n], slot, originator)}

(* Every row is the one its assertion wrote, and the table never exceeds   *)
(* its cap by more than the row of the call that runs and those of calls   *)
(* that failed, whatever died in between.                                  *)
TypeOK ==
    /\ trail \in Seq(Keys)
    /\ DOMAIN rows \subseteq Keys
    /\ \A k \in DOMAIN rows : rows[k] \in 1 .. Len(trail) /\ trail[rows[k]] = k
    /\ Cardinality(DOMAIN rows) <= DeliveryTraceEvents + 1 + faults
    /\ stage \in {"Idle", "Reclaiming", "Opening", "Down"}
    /\ {faults, restarts} \subseteq Nat

(* What a client reads of a message whose hops were recorded in hop order  *)
(* is the end of that chain, in order and without a gap: retention over    *)
(* all messages, failures and restarts only ever shorten it from the front.*)
TraceIsTheEndOfTheChain ==
    \A slot \in Slots, originator \in Originators :
        LET recorded == RecordedOf(slot, originator)
            trace == DeliveryTrace(slot, originator)
            shown == {rows[trace[i]] : i \in DOMAIN trace}
        IN  (\A m, n \in recorded : m < n => trail[m][3] < trail[n][3])
              => /\ shown \subseteq recorded
                 /\ \A i, j \in DOMAIN trace : i < j => rows[trace[i]] < rows[trace[j]]
                 /\ \A m \in recorded \ shown, n \in shown : m < n

Settled == stage = "Idle" /\ ~unreclaimed

(* Whatever the order in which its hops arrive, and however often others   *)
(* were recorded or taken in between: when the store answers a client, no  *)
(* hop of a message is missing behind one that is there, so the trace read *)
(* is short at its front only.  A reclaim that failed may leave a gap,     *)
(* until one is completed.                                                 *)
TraceHasNoGap ==
    Settled =>
        \A slot \in Slots, originator \in Originators :
            \A n \in RecordedOf(slot, originator), k \in DOMAIN rows :
                OfMessage(k, slot, originator) /\ k[3] < trail[n][3]
                    => trail[n] \in DOMAIN rows

Gone == (1 .. Len(trail)) \ {rows[k] : k \in DOMAIN rows}

(* "Bounded retention reclaims the oldest diagnostic rows": the rows that  *)
(* are gone are those recorded first.                                      *)
ReclaimsOldest == Gone = 1 .. Cardinality(Gone)

(* What does hold of it: as long as events are recorded in the order of    *)
(* their keys, which needs slots of one length and one message at a time,  *)
(* the rows that are gone are those recorded first.                        *)
ReclaimsOldestInKeyOrder ==
    (\A i, j \in 1 .. Len(trail) : i < j => KeyBefore(trail[i], trail[j]))
        => ReclaimsOldest

Table == INSTANCE BoundedTable
            WITH Cap <- DeliveryTraceEvents, table <- rows, settled <- Settled

(* The table is a BoundedTable: no hop is rewritten, none is taken while   *)
(* there is room, and it is within its cap between two calls, unless a     *)
(* retraction has failed; then it is so again after the next event         *)
(* recorded or the next open, whatever died in the middle of a reclaim.    *)
ImplementsTable == Table!Spec
=============================================================================
