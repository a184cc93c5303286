# A TLA+ model of introspect

`introspect` is a daemon that answers typed queries about the components of an
engine, ingests the trace events they push and the system events their hosts
report, and keeps all of it in one durable store, `introspect.sema`. This
directory models the parts of it that keep state, checks them with TLC and
proves every safety property of the passing runs with TLAPS.

## 1. Inventory

| Part | State | Operations | Works with |
|---|---|---|---|
| Contract readings, `contract.rs` | none | admission, exact-duplicate identity, domain | called by the store and the coalescer |
| Exact-duplicate coalescer, `coalescer.rs` | one open window per identity, an eviction counter | `ingest`, `flush_boot`, `flush_all` | owned by the store actor |
| Store actor, `store.rs`, `store_record.rs`, `store_message.rs` | four tables (observations, delivery trace, component trace, system-event summaries), each with a cap; the coalescer | one message per operation; `on_stop` flushes | asked by the root and by the trace listener; calls sema-engine, one commit per write or retraction |
| Root actor, `runtime.rs` | `handled_queries` | two query messages, one delivery-trace ingress message | asked by connections; asks the store and the router client, one message at a time |
| Trace listener, `runtime.rs`, `trace_frame.rs` | the bound socket, a drain task | collect a window of pushed events, forward each | emitters push; asks the store |
| Router client, `runtime.rs` | a socket path | connect, write, read, each blocking | asked by the root |
| Daemon and its shell, `daemon.rs`, `daemon_shell.rs` | the root's reference, two listeners, request permits | serve a connection, start, stop | triad_runtime's listener |
| Scaffold actors, `runtime.rs` | a value each | none | stopped with the tree |
| CLIs, codecs, errors | none | one request, one reply | the daemon's sockets |

What makes these parts correct, and hard to test:

* **Coalescer.** Events come in any order of instants, over several boots, up to
  the ends of i64. Every event must be counted once; a window must close at its
  age, of its own boot only; the table must stay within its capacity and evict
  only when it must. These are properties of long call sequences.
* **System-event store.** One call is many commits, and the coalescer has
  changed before the first. The process can die, or the engine fail, between any
  two. What a client was told must survive; retention must not take what is
  newer than what it keeps; rows and windows must agree.
* **Root.** Every answer is numbered, recorded, and then sent. The number is a
  counter in memory over a table on disk, advanced by some arms only.
* **Trace ingestion.** The keys of the table are the emitters' own counters,
  which outlive nothing. The loop that feeds it ends on the first refusal.
* **Delivery traces.** The order of the keys is the order of strings; retention
  runs over all messages between the hops of one, and a reader must not be shown
  a chain with a hole in it.
* **Connections, router, shutdown.** Reads and writes without a deadline hold
  permits; the root waits for a peer whose `connect` may never return; a stop
  kills the root in the middle of what it does and races the end of the process.

`PROJECT.json` lists every hazard at its line with the properties that watch it.

## 2. Modules

| Module | Models | Used by |
|---|---|---|
| `Contract` | the readings of `contract.rs` as operators on records | `Coalescer` |
| `Coalescer` | `ExactDuplicateCoalescer`; an action per mutating method | `CoalescerAccounting`, `SystemEventStore` |
| `EventLedger` | abstract: each occurrence is counted once, open or settled | `CoalescerAccounting` |
| `CoalescerAccounting` | the coalescer with a history of what it counted; the refinement mapping to the ledger | proofs |
| `SystemEventStore` | the store's system-event half, on top of `Coalescer` | |
| `IntrospectionRoot` | the root, its mailbox, and the observation table | |
| `TraceIngestion` | emitters, trace socket, drain task, component-trace table and its query | |
| `DeliveryTrace` | the delivery-trace table, its keys as strings, and its query | |
| `Daemon` | connections and permits, the root's handler, the router call, the store's mailbox and the drain task, together, until the process ends | |
| `BoundedTable` | abstract: rows are added under new keys, never rewritten, taken only over the cap | `IntrospectionRoot`, `TraceIngestion`, `DeliveryTrace` |
| `CoalescerProofs`, `CoalescerAccountingProofs`, `SystemEventStoreProofs`, `IntrospectionRootProofs`, `TraceIngestionProofs`, `DeliveryKeyProofs`, `DeliveryTraceProofs`, `DaemonProofs` | theorems | `SystemEventStoreProofs` builds on `CoalescerProofs`, `DeliveryTraceProofs` on `DeliveryKeyProofs` |
| `MC*` | values of the constants for TLC | the `.cfg` files |

### How state and actions correspond to the code

`Coalescer`: `active` is the hash map (a function from identity to summary; a
record with identifier and instant set to 0 is the identity, as in
`ExactDuplicateIdentity::of`), `evictions` the counter, `update` what the last
call returned. `Suppress` and `OpenWindow` are the two ways `ingest` ends.
Ties of `min_by_key` are broken by hash-map order in the code, so by choice in
the model. Arithmetic saturates at `MinInteger` and `MaxInteger`.

`SystemEventStore`: `rows` is the `system_event_summaries` table. A call begins
(`RecordSystemEvent`, `FlushSystemEvents`, `Stop`, `Open`) by changing the
coalescer and putting what `?` would go on to write in `work`; then
`PersistSystemEventSummary` and `Retract` are one engine commit each; then
`AcceptSystemEvent`, `FinishFlush`, `FinishStop` or `FinishOpen` ends it.
`EngineFault` abandons a call as `?` does, except that the shutdown flush drops
one summary and goes on (`let _ =`). `Crash` is the death of the process
anywhere. The order in which several windows closed by one call are written is
hash-map order, hence any; the evicted one comes after them and the current one
last. `reclaimed`, `accepted` and `issued` are history variables.

`IntrospectionRoot`: a request goes from `mailbox` into `handling`, through the
stages Connecting (a router query only: the blocking `connect`), Answering (the
rest of `answer` and whom it asks), Recording (the assertion), Reclaiming (one
retraction per step), and its `fate` says what its client got. `Counted` and
`Audited` are the arms of `answer` and the `matches!` of the handler. Snapshot
queries and the two of them the code answers alike are one kind, the three store
reads another.

`TraceIngestion`: `batch` is the vector the drain loop is forwarding. `Forward`
is the store's assertion, `Reclaim` one retraction, `StopDrain` the `return`
with everything it drops (after a refused ask, or in `JoinFails` after a
collecting thread that did not come back), `BindFails` an `on_start` that ends
the listener and nothing else. `ComponentTrace` is the query. The socket is
external: events reach it in the order they were pushed.

`DeliveryTrace`: a key is a triple, and `KeyBefore` orders keys as their strings
are ordered: the slot by its decimal digits (`Decimal`, `SlotBefore`), because
`delivery_trace_prefix` does not pad it; the hop by value, because `record_key`
pads it to ten digits. One engine, whose name is the first part of every key.
The `DeliveryTrace` operator is the range query, filtered and sorted by hop.

In these three `unreclaimed` remembers that a reclaim has failed and none has
been completed since: the refinement of `BoundedTable` calls the table settled
between two calls except then, so it speaks of what comes after a failure, too.

`Daemon`: `connection` is how far a connection is: accepted, then with a permit
read from, asked of the root, written to (`Write`), then answered or failed. The
clients in `Stalling` need neither send nor read, ever. A client may hang up
wherever the code looks at its socket (`HangUp`). `Take` dequeues and asks,
`stage` says whom the handler awaits, `call` is the thread `spawn_blocking`
runs, `inbox` the store's mailbox. `Kill` is `stop`; `StopListener`, `StopStore`
and `RootStops` are the lines of `stop_children` that matter (the other children
have no behaviour); `StoreStops` is `flush_on_shutdown`, whose commits
`SystemEventStore` models one by one. `DropTasks` is the runtime being dropped
when `run` returns: it may come at any point after the kill, since nobody waits
for the root.

### What is assumed of code that is not here

sema-engine: a commit is atomic and durable, `assert` refuses a key that exists
and `mutate` needs one (`persist_system_event_summary` branches on just that),
a full scan returns rows in key order, any operation can fail and changes
nothing then. Were `assert` to overwrite instead, the findings about colliding
observation keys would become lost rows rather than refused ones. kameo: a
mailbox is FIFO, a handler runs alone, `stop_gracefully` queues a stop behind
what is in the mailbox and `on_stop` runs there, `kill` aborts the handler at
its await and runs `on_stop` at once, an `ask` of an actor that is gone is an
error. tokio: an aborted task goes no further, a blocking thread cannot be
aborted, and dropping the runtime drops tasks and waits for blocking threads.
triad_runtime: a connection takes a permit before its handler runs and returns
it after, the two tiers share the permits, and `stop` is called once. The trace
socket hands over what was pushed, once, in order.

## 3. Runs

| Run | Question | Bounds and why they are enough |
|---|---|---|
| `coalescer` | table bounded, windows closed on time and within their boot, eviction a last resort, every event counted once; the coalescer implements `EventLedger` | the integers from -3 to 2 with instants at and next to the lower end, at zero and at the upper end, so ages are under, at and over the interval and saturate either way; three events of each identity where counters end at two, so that they saturate; two identities on one boot and one on another, with instants at the two ends, over two slots, so eviction, expiry and reuse all meet |
| `system_event_store` | table and memory agree, retention keeps the newest | occurrences of two identities in any order of instants and identifiers, one on another boot, one inadmissible; two slots, two rows; counters that saturate at 2 |
| `system_event_store_faults` | what survives when the process dies or the engine fails; the table within its cap again with the next record, open, or flush that closes a window | two disruptions, so that a failure can hit the recovery from another; one row, so that every second write reclaims |
| `root` | recorded before answered; numbers, retention and time; a crash in the middle of a handler, a restart over the table; the table implements `BoundedTable`; every query ends unless a connect to the router never returns | three requests, one row, one failure, two restarts: a row is reclaimed by the second request, and a restart can follow the recovery from another. Kinds that the root treats alike are represented by one |
| `trace` | no duplicate, no overwrite, nothing lost unnoticed; order, retention within a component; the table implements `BoundedTable`; everything recorded in the end | five events of two components, two rows, one emitter restart, one failure, one crash, at any point |
| `delivery` | a reader gets a chain without a gap, whatever the order its hops came in, and its end if they came in order; retention by age while keys grow; the table implements `BoundedTable` | slots and hops 9 and 10, where the number of digits changes, two originators, two rows, five events, one failure, one crash: a reclaim can be cut short and healed by the next call or the next open |
| `daemon` | every connection ends while those that stall leave a permit and the router accepts; one with its permit ends through a stop as well, the owner's past a root that hangs; a stop flushes, whatever it meets | an owner's, a witness's, a recorder's and a stalling recorder's connection on two permits, of which the last can hold one for ever; the stop can come at any point of any of them |

The runs named under "Disagreements found" check one property each, with the
smallest constants that show it.

Requests, pushes and events are bounded by name (`AcceptBound`, `IngestBound`,
`PushBound`, `RecordBound`, `DisruptionBound`, `FaultBound`, `RestartBound`,
`EmitterRestartBound`). Root, trace, delivery and daemon runs end when their
requests are used up or the process has exited, which is why they do not check
for deadlock; the coalescer and store runs do.

### Fairness

Only steps of the program are weakly fair: a handler that has begun, the drain
loop, an actor that is stopping, because tokio polls a task that can run and the
engine's operations return. Of clients it is assumed in `Daemon` that one that
does not stall sends its query and reads its response, of the listener that a
free permit is given out, and of an actor that has stopped that whoever still
asks it is refused. `RouterTimesOut` is fair: each read and write has a deadline
of five seconds (`runtime.rs:449`), and a frame has a bounded number of bytes, so
even a router that sends one byte at a time cannot go on for ever. `connect` has
no deadline, so `ConnectReturns` is fair in neither module: `EveryQueryEnds`,
`EveryConnectionEnds` and, for a query, `AdmittedConnectionsEnd` have a router
that accepts what connects to it, answering or not (`RouterAccepts`), as their
hypothesis; `StopFlushes` and, for the owner, `AdmittedConnectionsEnd` do
without. The owner's connection needs its permit first: while stalling
connections hold them all nobody is served, the owner included, which is why
`EveryConnectionEnds` assumes that they leave one. Nothing is assumed of
emitters, crashes, restarts, failures, the kill, or when the runtime drops its
tasks.

### Disagreements found

| Run | What happens |
|---|---|
| `root_flush_unrecorded` | a flush does not advance `handled_queries`; its audit row collides with the last one and a flush that was done is answered with an error |
| `root_restart_unrecorded` | the counter restarts at zero over the surviving rows; the first queries after a restart are refused, and a row that does get a low sequence is reclaimed before older ones |
| `delivery_retention` | delivery traces are reclaimed in key order with an unpadded slot: the hop of slot 10 in a table full of slots 8 and 9 is acknowledged and reclaimed at once. Component traces are reclaimed by component name before age in the same way. `LongerSlotsSortFirst` says how often slots do this: for any two of one length, the smaller with a digit more sorts before the larger |
| `trace_drain_stops` | an emitter that restarts its counter ends ingestion for good |
| `reused_identifiers` | a reused event identifier overwrites the row of a closed window |

The passing runs say under what condition each promise does hold:
`UniqueIdentifiers` for the store; one session and no flush for the numbering
(`NumberedQueryIsRecorded`); one component for component traces
(`ReclaimsOldestOfComponent`) and growing keys for delivery traces
(`ReclaimsOldestInKeyOrder`); emitters that go on counting for the drain task
(`DrainEndsByFailureOnly`); a tree that is left to stop for the flush
(`StoppedMeansFlushed`, `StopFlushes`). A query that ends in an error leaves no
row either, though ARCHITECTURE.md:78 speaks of a query/reply/error audit trail;
that is plain from `runtime.rs:315` and has no run.

## 4. Proofs

All theorems hold for every value of the constants that the named assumptions
of the modules allow: every set of events and occurrences, every policy and cap,
every set of clients, slots, components and requests, every number of failures
and restarts, and every integer width with `MinInteger < 0` and
`MaxInteger > 1`. Every bound of the runs is a constant here.

| Module | Theorem (property) | Argument |
|---|---|---|
| `CoalescerProofs` | `TypeCorrect` (`TypeOK`) | inductive; one lemma per way a call ends (`SuppressType`, `OpenWindowType`, `FlushType`). The relation of the two counters survives saturation because the suppressed one is computed from the other |
| | `Bounded` (`ActiveBounded`) | strengthened to `FiniteBound`, finite and bounded: a new key enters a table of which one key was removed or which had room |
| | `Span` (`WindowSpan`), `OverdueWindowsAreClosed` (`NoOverdueWindow`) | a duplicate shares its window's boot (`DuplicatesShareBoot`), so a window that is left is not overdue, and a positive interval is reached by the saturating difference exactly when it is by the true one (`SaturationKeepsOverdue`) |
| | `BootPartitions` (`IntervalWithinBoot`), `EvictionOnlyWhenFull` (`EvictionIsLastResort`) | action properties, from `TypeOK` and the finite table |
| | `IngestNeverFails` | a non-empty table has a window `min_by_key` returns: the least instant of its windows, and of those the least identifier (`LeastInteger`) |
| `CoalescerAccountingProofs` | `AccountingCorrect` (`Accounting`) | `Books` = types + accounts. Each step is an `Entry`: some windows settle with the count they had, and at most one identity gains an event |
| | `CoalescerImplementsLedger` (`ImplementsLedger`) | the same entries are the ledger's actions, but for an event that a counter at its maximum does not count: then no window settles and no count moves (`CountsNoFurther`) |
| `SystemEventStoreProofs` | `StoreTypeCorrect` (`StoreTypeOK`) | `Sound`: the parts of the type invariant with the life of a call |
| | `UnclassifiedIsNotKept` (`NoUnclassifiedPayload`) | `Clean`, over windows, summaries being written and rows: every summary has the origin of an old one or is the event being admitted (`OriginStep`) |
| | `AnsweredWithinRetention` (`RetentionBound`) | a call that wrote something, and an open, end only past a reclaim that found no excess; a flush that closed nothing has nothing to write, and is not covered |
| | `NewestAreKept` (`RetentionKeepsNewest`) | `Survived`: at least a full table of rows sorts no earlier than a row that is gone. The order retention goes by is transitive (`OrderIsTransitive`), so taking the first row of an over-full table keeps it true |
| | `HistoryIsMonotone` (`SummariesOnlyGrow`), `WindowsAreWritten` (`OpenWindowsAreWritten`), `NoOrphans` (`ActiveRowsAreOpen`) | `Named`: a record key names one event. `Tracked`: what is in memory under a key is one summary, whose row is Active and counts no more. `Mirrored` and `Adopted`: between memory and table there is only what the call in progress has still to write. `Follows` says what one call makes of each window |
| | `AcknowledgedAreCounted` (`AcknowledgedIsCounted`) | `Accounted`: the places of an identity's occurrences, a record key and a number up to its row's count, are at least as many as its acknowledgements. They only become more (`TallyGrows`: a row is rewritten with a higher count, and keeps its places when retention takes it), and the write of a record call's current summary adds one before the call is acknowledged (`WriteCounts`) |
| | `StoreKeepsWindows` (`ActiveBounded`, `WindowSpan`, `NoOverdueWindow`), `StoreClosesWindows` (`IntervalWithinBoot`, `EvictionIsLastResort`) | each step of the store is a step of the coalescer, forgets all its windows, or leaves them alone (`CoalescerInStore`); the step lemmas of `CoalescerProofs` do the rest |
| | `CallsTerminate` | `StepsLeft`, a number, falls with every step of a call: a summary to write is worth more than the row it may add, a row more than nothing. `CanGoOn`: until the call ends it has a row to take (`OldestRowExists`), a summary to write (`NextExists`), or an answer to give |
| `IntrospectionRootProofs` | `RootTypeCorrect` (`TypeOK`), `AnswersAreRecorded` (`AnsweredIsRecorded`) | `Base`, and `Audit`: whoever is being answered past the stage Recording has a row |
| | `NumberedQueriesAreRecorded` (`NumberedQueryIsRecorded`) | `Numbers`: no row has a sequence above the counter, and while a query that advanced it has still to be recorded, none has its number (`KeysBehind`) |
| | `SequenceFollowsTime` (`SequenceIsTime`), `OldestIsReclaimed` (`ReclaimsOldest`) | rows enter the trail once (`TrailOnce`) with keys above all before (`KeysBehind`), so those gone are a prefix (`Oldest`) |
| | `AuditTrailImplementsTable` (`ImplementsTable`) | `Room`: past the retractions the table is within its cap; every step maps to one of `BoundedTable` or a stutter |
| | `AuditTrailIsBounded` | `ExcessByFailures`: only a failure lets a handler end with the row it added and the excess it met, and opening the table takes all of it |
| | `QueriesTerminate` | `StepsLeft`: a request unsent is worth more than one in the mailbox, that more than the handler's stages and the row they add. Whoever waits is in the mailbox or handled, and the stage's guard holds, or its handler is held by a connect that has not returned (`HeldByRouter`) |
| `TraceIngestionProofs` | `TraceTypeCorrect` (`TypeOK`), `EventsAreSomewhere` (`EveryEventIsSomewhere`) | `Somewhere`: the five places partition the events, by ordinal, and each step moves events from one to the next |
| | `KeysFollowEmission` (`KeyOrderIsEmissionOrder`), `DrainEndsOnlyByFailure` (`DrainEndsByFailureOnly`) | `Line`: an emitter's events on their way, from the table over the batch to the socket, ascend in sequence and ordinal; so the next event's key is new |
| | `OldestOfComponentIsReclaimed` (`ReclaimsOldestOfComponent`) | `Kept`: what was recorded is in the table or gone, and nothing else is; with `Line`, key order within a component is the order of recording |
| | `ComponentTraceImplementsTable` (`ImplementsTable`) | as above |
| | `TraceTableIsBounded` | `OneOver`: a drain task that collects has left the table within its cap; a failure ends the task, so that there is no second row before the next open |
| | `TracesTerminate` | `StepsLeft`: an event to push, on the socket, in hand, in the table is worth less at each of these places; a reclaim that is due has a row to take (`VictimExists`) |
| `DeliveryKeyProofs` | `KeysAreOrdered` | that `Decimal` is the recursive function it says, and which digits it gives, by a least counterexample; then two different sequences of digits part at a first place or one begins the other |
| | `SlotsSortAsNumbers`, `LongerSlotsSortFirst` | the same, on the quotient and the remainder by ten: digits of one length compare as the numbers do, and a digit at the end changes no comparison that was decided before it |
| `DeliveryTraceProofs` | `TypeCorrect` (`TypeOK`), `DeliveryTraceImplementsTable` (`ImplementsTable`) | each call adds at most one row over the cap, and each failure leaves at most one |
| | `DeliveryTraceIsBounded` | the same invariant, `Inv` |
| | `OldestGoFirstInKeyOrder` (`ReclaimsOldestInKeyOrder`), `OldestGoFirstInSlotOrder` | `GoneInOrder`: of two events recorded in key order, the later is not gone while the earlier is there, because a reclaim takes the first key and an event enters behind those it follows |
| | `TraceIsTheEnd` (`TraceIsTheEndOfTheChain`) | the hops of one message differ in the hop alone, so for them key order is hop order; sorting them is onto and in order (`HopsSort`), and `GoneInOrder` leaves no hole |
| | `NoGapInTheTrace` (`TraceHasNoGap`) | `Survived`: behind each key that was recorded and is gone at least a full table of rows sorts, because a reclaim takes the first key and leaves a full table; a row before such a key would be one more than the cap (`Room`) |
| | `OneVictim` | a finite table has a first key, and, keys being ordered, one |
| `DaemonProofs` | `DaemonTypeCorrect` (`TypeOK`), `StopLosesNothing` (`StoppedMeansFlushed`) | `Handled`, `Lives`, `Answers`, `Awaited`, `AskedOnce`, `Permitted`: each query is in one place, a stop is the last message the store takes, and what it took before is in a window or flushed |
| | `StopIsNotHeldUp` | `StopOnItsWay`: from the kill until the store has stopped, the stop is the root's next thing to send or in the store's mailbox; `StopGetsOn`: others only append behind it (`OnlyAppends`), and each message the store handles brings it one place closer |

`NewestAreKept`, `HistoryIsMonotone`, `WindowsAreWritten`, `NoOrphans` and
`AcknowledgedAreCounted` assume `UniqueIdentifiers`: clients number the events of
a boot apart. The run `reused_identifiers` shows what happens when they do not.
`AcknowledgedAreCounted` also assumes `AcceptBound <= MaxInteger`, since a count
that saturates cannot tell how many there were.

The library's induction theorems take an operator as parameter and cannot be
used, so what needs induction over data is proved by a least counterexample:
the set of numbers that violate the claim has a least element if it has any
(`WFMin` on the naturals), and that one is refuted. `LeastNatural` and
`LeastInteger` are that fact. `AcknowledgedIsCounted` is stated as the size of a
set of places, and `TraceIsTheEndOfTheChain` of sets of places in `trail`, so
that neither needs a sum or a filter over a sequence.

Only model-checked: liveness (`EveryQueryEnds`, `EveryEventIsRecorded`,
`EveryConnectionEnds`, `AdmittedConnectionsEnd`, `StopFlushes`), which TLAPS
cannot prove under fairness. For three of them the half that is safety is proved
for every value of the constants: a number that every step lowers, and, by the
guards of the actions, a step to take until it is done (`QueriesTerminate`,
`TracesTerminate`, `StopIsNotHeldUp`); `CallsTerminate` says the same of a call
of the store. What is left to TLC is that fairness then makes the steps happen:
`ENABLED` of an action is beyond the prover, so the guards are written out in
`CanGoOn` and that they enable the action is read from the model. For the two
about connections there is no such theorem: they depend on what clients and the
router do.

## 5. What is left

The models cover the plan they were written to: coalescer, store, root, traces
of both sorts, connections, router and shutdown, with `BoundedTable` over three
of the four tables (the fourth is rewritten in place by design, and
`SummariesOnlyGrow` is what it promises instead). All 35 safety properties of the
passing runs are theorems. What would add to the proofs: permits that come back
to waiting connections (the safety half of `EveryConnectionEnds`), and how much of
the order of keys survives where slots gain a digit. What would add to the
models: the
numbers of rows as the 64-bit integers they are, slots and hops that are
negative or longer than their padding, names with a `/` in them, and several
engines in one table.

## 6. Not modelled

The scaffold actors (no message is handled), the command lines and the meta
client, a daemon with no router or no trace socket configured, the text
projection and the error types (sequential input and output, no state), schema
registration and migration at open (static, and sema-engine's), the wire
framing (external crates), socket modes (constants, one of which ignores the
configuration: `daemon_shell.rs:170`), and policy revision, severity and
extractor of an event, which no decision reads one by one: they are part of the
opaque observation.
