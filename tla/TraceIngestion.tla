--------------------------- MODULE TraceIngestion ---------------------------
(***************************************************************************)
(* The component-trace plane: emitters push events to the trace socket,    *)
(* the drain task of ComponentTraceListener (src/runtime.rs) collects a    *)
(* window of them and asks the store (src/store.rs) to record each, and    *)
(* the store keeps a bounded table in key order (src/store_record.rs).     *)
(*                                                                         *)
(* The socket is external: it hands over what was pushed, in order.        *)
(* `ordinal`, `trail`, `gone`, `lost` and `unreclaimed` are history.       *)
(***************************************************************************)
EXTENDS Integers, FiniteSets, Sequences

CONSTANTS
    Components,           \* emitting components, numbered as their key prefixes sort
    ComponentTraceEvents, \* PersistenceRetention.component_trace_events
    PushBound,            \* how many events a behaviour pushes
    EmitterRestartBound,  \* how many times an emitter starts counting again
    FaultBound,           \* how many collect or engine failures a behaviour has
    RestartBound          \* how many times the daemon dies and comes back

ASSUME TraceAssumption ==
    /\ Components \subseteq Nat
    /\ ComponentTraceEvents \in Nat \ {0}
    /\ PushBound \in Nat /\ EmitterRestartBound \in Nat
    /\ FaultBound \in Nat /\ RestartBound \in Nat

VARIABLES
    next,             \* component -> the trace_sequence of its next event
    pushed,           \* how many events were pushed
    socket,           \* events pushed and not yet collected
    batch,            \* events collected and not yet forwarded
    drain,            \* what the drain task is doing
    rows,             \* record key -> event, the durable table
    reclaiming,       \* is the store reclaiming after an assert or on open
    up,               \* is the daemon running
    trail,            \* events in the order they were asserted
    gone,             \* events retention retracted
    lost,             \* events pushed that never reached the table
    unreclaimed,      \* has a reclaim failed and none been completed since
    emitterRestarts, faults, restarts

emitters == <<next, pushed, emitterRestarts>>
table == <<rows, trail, gone>>
failures == <<unreclaimed, faults, restarts>>
vars == <<emitters, socket, batch, drain, table, reclaiming, up, lost, failures>>

\* A mistake: the key keeps too few digits of the sequence.
RecordKeyShort(event) == <<event.component, event.sequence % 2>>

RecordKey(event) == <<event.component, event.sequence>>

ToSet(events) == {events[i] : i \in 1 .. Len(events)}

-----------------------------------------------------------------------------
Init ==
    /\ next = [c \in Components |-> 0]
    /\ pushed = 0 /\ emitterRestarts = 0
    /\ socket = <<>> /\ batch = <<>>
    /\ drain = "Collecting"
    /\ rows = [k \in {} |-> {}] /\ reclaiming = FALSE
    /\ up = TRUE
    /\ trail = <<>> /\ gone = {} /\ lost = {}
    /\ unreclaimed = FALSE
    /\ faults = 0 /\ restarts = 0

\* An emitter pushes its next event; one that nobody listens for is lost.
Push(c) ==
    LET event == [component |-> c, sequence |-> next[c], ordinal |-> pushed] IN
    /\ pushed < PushBound
    /\ pushed' = pushed + 1
    /\ next' = [next EXCEPT ![c] = @ + 1]
    /\ IF drain = "Collecting" THEN socket' = Append(socket, event) /\ UNCHANGED lost
       ELSE lost' = lost \cup {event} /\ UNCHANGED socket
    /\ UNCHANGED <<batch, drain, table, reclaiming, up, emitterRestarts, failures>>

RestartEmitter(c) ==
    /\ emitterRestarts < EmitterRestartBound
    /\ next[c] > 0
    /\ next' = [next EXCEPT ![c] = 0]
    /\ emitterRestarts' = emitterRestarts + 1
    /\ UNCHANGED <<pushed, socket, batch, drain, table, reclaiming, up, lost, failures>>

-----------------------------------------------------------------------------
Idle == ~reclaiming /\ drain = "Collecting" /\ batch = <<>>

\* collect_for returns what arrived within its window.
Collect ==
    /\ Idle
    /\ \E n \in 1 .. Len(socket) :
        /\ batch' = SubSeq(socket, 1, n)
        /\ socket' = SubSeq(socket, n + 1, Len(socket))
    /\ UNCHANGED <<emitters, drain, table, reclaiming, up, lost, failures>>

Fault == faults < FaultBound /\ faults' = faults + 1 /\ UNCHANGED restarts

\* collect_for fails: the window counts as empty, whatever it had taken.
CollectFails ==
    /\ Idle
    /\ \E n \in 1 .. Len(socket) :
        /\ lost' = lost \cup ToSet(SubSeq(socket, 1, n))
        /\ socket' = SubSeq(socket, n + 1, Len(socket))
    /\ Fault
    /\ UNCHANGED <<emitters, batch, drain, table, reclaiming, up, unreclaimed>>

Forwarding == ~reclaiming /\ drain = "Collecting" /\ batch # <<>>

\* Two mistakes: the batch is taken from its end; a row is overwritten.
ForwardFromTheEnd ==
    LET event == batch[Len(batch)] IN
    /\ Forwarding
    /\ RecordKey(event) \notin DOMAIN rows
    /\ rows' = [k \in DOMAIN rows \cup {RecordKey(event)} |->
                  IF k = RecordKey(event) THEN event ELSE rows[k]]
    /\ trail' = Append(trail, event)
    /\ batch' = SubSeq(batch, 1, Len(batch) - 1)
    /\ reclaiming' = TRUE
    /\ UNCHANGED <<emitters, socket, drain, gone, up, lost, failures>>

ForwardOverwriting ==
    LET event == Head(batch) IN
    /\ Forwarding
    /\ rows' = [k \in DOMAIN rows \cup {RecordKey(event)} |->
                  IF k = RecordKey(event) THEN event ELSE rows[k]]
    /\ trail' = Append(trail, event)
    /\ batch' = Tail(batch)
    /\ reclaiming' = TRUE
    /\ UNCHANGED <<emitters, socket, drain, gone, up, lost, failures>>

\* record_component_trace_event: assert, which takes a key only once.
Forward ==
    LET event == Head(batch) IN
    /\ Forwarding
    /\ RecordKey(event) \notin DOMAIN rows
    /\ rows' = [k \in DOMAIN rows \cup {RecordKey(event)} |->
                  IF k = RecordKey(event) THEN event ELSE rows[k]]
    /\ trail' = Append(trail, event)
    /\ batch' = Tail(batch)
    /\ reclaiming' = TRUE
    /\ UNCHANGED <<emitters, socket, drain, gone, up, lost, failures>>

\* A mistake: a task that has ended still holds its batch.
StopDrainHolding ==
    /\ drain' = "Stopped"
    /\ UNCHANGED <<batch, socket, lost>>

\* What the drain task had in hand goes with it, and so does the socket it owns.
StopDrain ==
    /\ drain' = "Stopped"
    /\ lost' = lost \cup ToSet(batch) \cup ToSet(socket)
    /\ batch' = <<>> /\ socket' = <<>>

\* The first error answer ends the task.
ForwardRejected ==
    /\ Forwarding
    /\ RecordKey(Head(batch)) \in DOMAIN rows
    /\ StopDrain
    /\ UNCHANGED <<emitters, table, reclaiming, up, failures>>

ForwardFails ==
    /\ drain = "Collecting" /\ (batch # <<>> \/ reclaiming)
    /\ StopDrain
    /\ reclaiming' = FALSE
    /\ unreclaimed' = (unreclaimed \/ reclaiming)
    /\ Fault
    /\ UNCHANGED <<emitters, table, up>>

\* The blocking call that collects does not come back: the loop breaks.
JoinFails ==
    /\ Idle
    /\ StopDrain
    /\ Fault
    /\ UNCHANGED <<emitters, table, reclaiming, up, unreclaimed>>

\* A mistake: one row too many is kept.
ExcessByOne == Cardinality(DOMAIN rows) > ComponentTraceEvents + 1

Excess == Cardinality(DOMAIN rows) > ComponentTraceEvents

KeyBefore(j, k) == j[1] < k[1] \/ (j[1] = k[1] /\ j[2] <= k[2])

\* A mistake: rows are taken from the other end of the scan.
LastRows == {k \in DOMAIN rows : \A j \in DOMAIN rows : KeyBefore(j, k)}

\* reclaim_component_trace_events takes the rows a full scan returns first.
Victims == {k \in DOMAIN rows : \A j \in DOMAIN rows : KeyBefore(k, j)}

Reclaim ==
    /\ reclaiming /\ Excess
    /\ \E k \in Victims :
        /\ rows' = [j \in DOMAIN rows \ {k} |-> rows[j]]
        /\ gone' = gone \cup {rows[k]}
    /\ UNCHANGED <<emitters, socket, batch, drain, reclaiming, up, trail, lost, failures>>

\* A mistake: the store waits for a table that is not full.
FinishUnderCap ==
    /\ reclaiming /\ Cardinality(DOMAIN rows) < ComponentTraceEvents
    /\ reclaiming' = FALSE /\ unreclaimed' = FALSE
    /\ drain' = "Collecting"
    /\ UNCHANGED <<emitters, socket, batch, table, up, lost, faults, restarts>>

FinishReclaim ==
    /\ reclaiming /\ ~Excess
    /\ reclaiming' = FALSE /\ unreclaimed' = FALSE
    /\ drain' = "Collecting"
    /\ UNCHANGED <<emitters, socket, batch, table, up, lost, faults, restarts>>

-----------------------------------------------------------------------------
Crash ==
    /\ up
    /\ restarts < RestartBound
    /\ restarts' = restarts + 1
    /\ up' = FALSE /\ reclaiming' = FALSE
    /\ StopDrain
    /\ UNCHANGED <<emitters, table, unreclaimed, faults>>

\* The table is reclaimed as it is opened; then on_start binds and drains anew.
Restart ==
    /\ ~up
    /\ up' = TRUE
    /\ drain' = "Opening" /\ reclaiming' = TRUE
    /\ UNCHANGED <<emitters, socket, batch, table, lost, failures>>

\* The engine fails as the store opens: the daemon does not start.
OpenFails ==
    /\ drain = "Opening"
    /\ up' = FALSE /\ drain' = "Stopped" /\ reclaiming' = FALSE
    /\ Fault
    /\ UNCHANGED <<emitters, socket, batch, table, lost, unreclaimed>>

\* on_start cannot bind the socket: the listener dies, the daemon stays up.
BindFails ==
    /\ drain = "Opening" /\ ~Excess
    /\ drain' = "Stopped" /\ reclaiming' = FALSE
    /\ unreclaimed' = FALSE
    /\ Fault
    /\ UNCHANGED <<emitters, socket, batch, table, up, lost>>

DaemonStep == Collect \/ Forward \/ ForwardRejected \/ Reclaim \/ FinishReclaim

Next ==
    \/ \E c \in Components : Push(c) \/ RestartEmitter(c)
    \/ DaemonStep
    \/ CollectFails \/ ForwardFails \/ JoinFails \/ OpenFails \/ BindFails
    \/ Crash \/ Restart

\* The runtime polls the drain task and the store as long as they can go on.
Spec == Init /\ [][Next]_vars /\ WF_vars(DaemonStep)

-----------------------------------------------------------------------------
Stored == {rows[k] : k \in DOMAIN rows}

TypeOK ==
    /\ next \in [Components -> 0 .. PushBound]
    /\ \A k \in DOMAIN rows : RecordKey(rows[k]) = k
    /\ drain \in {"Collecting", "Stopped", "Opening"}
    /\ drain # "Collecting" => batch = <<>> /\ socket = <<>>
    /\ drain = "Opening" => up /\ reclaiming

(* Every event pushed is in one place: on the socket, in the drain task's  *)
(* hands, in the table, taken by retention, or lost; and as long as no     *)
(* emitter restarted, nothing failed and the daemon stayed up, none is     *)
(* lost.                                                                   *)
EveryEventIsSomewhere ==
    LET places == <<ToSet(socket), ToSet(batch), Stored, gone, lost>> IN
    /\ {e.ordinal : e \in UNION {places[i] : i \in 1 .. 5}} = 0 .. pushed - 1
    /\ \A i, j \in 1 .. 5 : i < j => places[i] \cap places[j] = {}
    /\ emitterRestarts + faults + restarts = 0 => lost = {}

\* component_trace: the rows in the range of one component; the answer is
\* sorted by trace_sequence, and a name only leaves out rows of it.
ComponentTrace(c) == {rows[k] : k \in {j \in DOMAIN rows : j[1] = c}}

(* "Returns its events in monotonic emission order": as long as emitters   *)
(* go on counting, sorting a component's rows by sequence is sorting them  *)
(* by emission, and they were recorded in that order, across crashes too.  *)
KeyOrderIsEmissionOrder ==
    emitterRestarts = 0 =>
        /\ \A c \in Components : \A e, f \in ComponentTrace(c) :
             e.sequence < f.sequence => e.ordinal < f.ordinal
        /\ \A m, n \in 1 .. Len(trail) :
             m < n /\ trail[m].component = trail[n].component
                => trail[m].sequence < trail[n].sequence

(* "Bounded retention reclaims the oldest diagnostic rows": not so across  *)
(* components, whose names come before age in the key, but while emitters  *)
(* go on counting the rows of each component that are gone are those of    *)
(* its rows recorded first.                                                *)
ReclaimsOldestOfComponent ==
    emitterRestarts = 0 =>
        \A m, n \in 1 .. Len(trail) :
            /\ m < n /\ trail[m].component = trail[n].component
            /\ trail[n] \in gone
            => trail[m] \in gone

Table == INSTANCE BoundedTable
            WITH Cap <- ComponentTraceEvents, table <- rows,
                 settled <- up /\ ~reclaiming /\ ~unreclaimed

(* The table is a BoundedTable: no event is rewritten, none is taken while *)
(* there is room, and it is within its cap whenever it is not being        *)
(* reclaimed, unless a reclaim has failed; that ends the drain task, and   *)
(* the next start of the daemon makes up for it, as for a crash in the     *)
(* middle of a reclaim.                                                    *)
ImplementsTable == Table!Spec

(* "The loop runs continuously": while the daemon is up and its engine and *)
(* its socket work, the drain task is there to forward the next event.     *)
DrainRunsWhileUp == up /\ faults = 0 => drain # "Stopped"

(* What does hold of it: no sequence of batches, reclaims, crashes and     *)
(* restarts makes the store refuse an event of an emitter that goes on     *)
(* counting, so nothing but a failure ends the drain task.                 *)
DrainEndsByFailureOnly == emitterRestarts = 0 => DrainRunsWhileUp

(* Every event that reached the socket is recorded in the end, even if     *)
(* retention takes it at once, unless an emitter restarts or something     *)
(* fails: neither the batches nor the reclaims starve the loop.            *)
EveryEventIsRecorded ==
    \A n \in 0 .. PushBound - 1 :
        (\E e \in ToSet(socket) : e.ordinal = n)
            ~> \/ \E i \in 1 .. Len(trail) : trail[i].ordinal = n
               \/ emitterRestarts + faults + restarts > 0
=============================================================================
