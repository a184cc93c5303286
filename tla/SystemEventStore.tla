-------------------------- MODULE SystemEventStore --------------------------
(***************************************************************************)
(* The targeted-system-event half of IntrospectionStore (src/store.rs,     *)
(* store_message.rs, the summary key of store_record.rs): admission, the   *)
(* in-memory coalescer of Coalescer.tla, and the durable table behind it.  *)
(*                                                                         *)
(* The actor runs one message at a time, but a message is many engine      *)
(* commits: each summary is written, then the excess rows are retracted    *)
(* one by one.  Every commit is a step of its own, because the process can *)
(* die and the engine can fail between any two of them.  `reclaimed`,      *)
(* `accepted` and `issued` are history: they record, and decide nothing    *)
(* but what the environment may still send.                                *)
(***************************************************************************)
EXTENDS Coalescer

CONSTANTS
    SystemEventSummaries,  \* PersistenceRetention.system_event_summaries
    UniqueIdentifiers,     \* do clients number the events of a boot apart
    AcceptBound,           \* how many events of one identity are acknowledged
    DisruptionBound        \* how many engine failures and crashes a behaviour has

ASSUME StoreAssumption ==
    /\ SystemEventSummaries \in Nat
    /\ UniqueIdentifiers \in BOOLEAN
    /\ AcceptBound \in Nat /\ DisruptionBound \in Nat

VARIABLES
    rows,        \* record key -> summary, the durable table
    call,        \* what the store is doing
    work,        \* summaries this call has still to write
    reclaiming,  \* is the table being reclaimed after a write or on open
    reply,       \* how the last call ended
    faulted,     \* has an engine operation failed since the store opened
    disruptions, \* engine failures and process deaths so far
    reclaimed,   \* record key -> the summary its row had when last retracted
    accepted,    \* identity -> events acknowledged to their clients
    issued       \* record keys of the events sent so far

durable == <<rows, reclaimed>>
control == <<call, work, reclaiming, reply>>
history == <<accepted, issued>>
vars == <<coalescerVars, durable, control, history, faulted, disruptions>>

\* A mistake: the rows of one kind of event share a key.
RecordKeyByKind(summary) ==
    <<summary.representative.boot_identifier, summary.representative.targeted_system_event>>

RecordKey(summary) ==
    <<summary.representative.boot_identifier, summary.representative.event_identifier>>

Empty == [k \in {} |-> {}]

-----------------------------------------------------------------------------
StoreInit ==
    /\ Init
    /\ rows = Empty /\ reclaimed = Empty
    /\ call = "Idle" /\ work = {} /\ reclaiming = FALSE /\ reply = "None"
    /\ faulted = FALSE /\ disruptions = 0
    /\ accepted = [i \in Identities |-> 0]
    /\ issued = {}

\* A mistake: only closed windows are written.
BeginClosedOnly(kind) ==
    /\ call = "Idle"
    /\ call' = kind
    /\ work' = update'.closed
    /\ reply' = "None"
    /\ UNCHANGED <<durable, reclaiming, faulted, disruptions>>

Begin(kind) ==
    /\ call = "Idle"
    /\ call' = kind
    /\ work' = update'.closed \cup update'.current
    /\ reply' = "None"
    /\ UNCHANGED <<durable, reclaiming, faulted, disruptions>>

MayBeSent(event) ==
    /\ accepted[ExactDuplicateIdentity(event)] < AcceptBound
    /\ UniqueIdentifiers => <<event.boot_identifier, event.event_identifier>> \notin issued

\* record_system_event up to its first engine operation.
RecordSystemEvent(event) ==
    /\ MayBeSent(event)
    /\ ValidateSystemEvent(event)
    /\ Ingest(event)
    /\ Begin("Record")
    /\ issued' = issued \cup {<<event.boot_identifier, event.event_identifier>>}
    /\ UNCHANGED accepted

\* validate_system_event says why not: nothing changes.
RefuseSystemEvent(event) ==
    /\ call = "Idle"
    /\ ~ValidateSystemEvent(event)
    /\ reply' = "Refused"
    /\ UNCHANGED <<coalescerVars, durable, call, work, reclaiming, history, faulted, disruptions>>

FlushSystemEvents(boot) ==
    /\ FlushBoot(boot, "ExplicitFlush")
    /\ Begin("Flush")
    /\ UNCHANGED history

\* A mistake: the actor stops without flushing.
StopUnflushed ==
    /\ call = "Idle"
    /\ call' = "Shutdown"
    /\ UNCHANGED <<coalescerVars, durable, work, reclaiming, reply, history, faulted, disruptions>>

\* on_stop: the mailbox is closed and the actor is between two messages.
Stop ==
    /\ FlushAll("Shutdown")
    /\ Begin("Shutdown")
    /\ UNCHANGED history

-----------------------------------------------------------------------------
\* The closed windows are written first, the evicted one last among them,
\* and the current summary after them all.
Rank(summary) ==
    CASE summary.closure = "Eviction" -> 1
      [] summary.closure = "Active"   -> 2
      [] OTHER                        -> 0

NextToWrite == {s \in work : \A t \in work : Rank(s) <= Rank(t)}

\* A mistake: one row too many is kept.
ExcessByOne == Cardinality(DOMAIN rows) > SystemEventSummaries + 1

Excess == Cardinality(DOMAIN rows) > SystemEventSummaries

ReclaimOver == ~(reclaiming /\ Excess)

\* A mistake: a row that exists is left as it is.
PersistUnlessPresent ==
    /\ ReclaimOver
    /\ \E summary \in NextToWrite :
        LET key == RecordKey(summary) IN
        /\ rows' = [k \in DOMAIN rows \cup {key} |->
                      IF k \in DOMAIN rows THEN rows[k] ELSE summary]
        /\ reclaimed' = [k \in DOMAIN reclaimed \ {key} |-> reclaimed[k]]
        /\ work' = work \ {summary}
    /\ reclaiming' = TRUE
    /\ UNCHANGED <<coalescerVars, call, reply, history, faulted, disruptions>>

\* mutate when the key exists, assert when it does not: one row per key.
PersistSystemEventSummary ==
    /\ ReclaimOver
    /\ \E summary \in NextToWrite :
        LET key == RecordKey(summary) IN
        /\ rows' = [k \in DOMAIN rows \cup {key} |->
                      IF k = key THEN summary ELSE rows[k]]
        /\ reclaimed' = [k \in DOMAIN reclaimed \ {key} |-> reclaimed[k]]
        /\ work' = work \ {summary}
    /\ reclaiming' = TRUE
    /\ UNCHANGED <<coalescerVars, call, reply, history, faulted, disruptions>>

OlderOrSame(s, t) ==
    \/ s.first_seen < t.first_seen
    \/ /\ s.first_seen = t.first_seen
       /\ s.representative.event_identifier <= t.representative.event_identifier

\* A mistake: rows are taken in key order.
FirstRows == {k \in DOMAIN rows : \A j \in DOMAIN rows : k[2] <= j[2]}

\* Rows that sort first; the record key breaks ties, in an order not modelled.
OldestRows == {k \in DOMAIN rows : \A j \in DOMAIN rows : OlderOrSame(rows[k], rows[j])}

\* reclaim_system_event_summaries retracts one of its rows.
Retract ==
    /\ reclaiming /\ Excess
    /\ \E key \in OldestRows :
        /\ rows' = [k \in DOMAIN rows \ {key} |-> rows[k]]
        /\ reclaimed' = [k \in DOMAIN reclaimed \cup {key} |->
                           IF k = key THEN rows[k] ELSE reclaimed[k]]
    /\ reclaiming' = Excess'
    /\ UNCHANGED <<coalescerVars, call, work, reply, history, faulted, disruptions>>

-----------------------------------------------------------------------------
Written == work = {} /\ ReclaimOver

AcceptSystemEvent ==
    /\ call = "Record" /\ Written
    /\ call' = "Idle" /\ reclaiming' = FALSE /\ reply' = "Accepted"
    /\ \E s \in update.current :
         accepted' = [accepted EXCEPT ![ExactDuplicateIdentity(s.representative)] = @ + 1]
    /\ UNCHANGED <<coalescerVars, durable, work, issued, faulted, disruptions>>

FinishFlush ==
    /\ call = "Flush" /\ Written
    /\ call' = "Idle" /\ reclaiming' = FALSE /\ reply' = "Flushed"
    /\ UNCHANGED <<coalescerVars, durable, work, history, faulted, disruptions>>

\* The process's memory is gone.
Forget ==
    /\ active' = Empty /\ evictions' = 0
    /\ update' = [current |-> {}, closed |-> {}]

FinishStop ==
    /\ call = "Shutdown" /\ Written
    /\ call' = "Down" /\ reclaiming' = FALSE
    /\ Forget
    /\ UNCHANGED <<durable, work, reply, history, faulted, disruptions>>

Disrupt == disruptions < DisruptionBound /\ disruptions' = disruptions + 1

\* The engine fails in the middle of a call.  `?` abandons what is left of it;
\* only the shutdown flush goes on with its next summary.
EngineFault ==
    /\ work # {} \/ reclaiming
    /\ \/ /\ call \in {"Record", "Flush"}
          /\ call' = "Idle" /\ reply' = "Failed" /\ work' = {}
       \/ /\ call = "Shutdown"
          /\ \/ reclaiming /\ work' = work
             \/ ReclaimOver /\ \E s \in NextToWrite : work' = work \ {s}
          /\ UNCHANGED <<call, reply>>
       \/ /\ call = "Opening"
          /\ call' = "Down"
          /\ UNCHANGED <<work, reply>>
    /\ reclaiming' = FALSE
    /\ faulted' = TRUE
    /\ Disrupt
    /\ UNCHANGED <<coalescerVars, durable, history>>

Crash ==
    /\ call # "Down"
    /\ call' = "Down" /\ work' = {} /\ reclaiming' = FALSE /\ reply' = "None"
    /\ Disrupt
    /\ Forget
    /\ UNCHANGED <<durable, history, faulted>>

\* open_with_policies: an empty coalescer over the rows found, which are reclaimed.
Open ==
    /\ call = "Down"
    /\ Forget
    /\ call' = "Opening" /\ reclaiming' = TRUE
    /\ faulted' = FALSE
    /\ UNCHANGED <<durable, work, reply, history, disruptions>>

FinishOpen ==
    /\ call = "Opening" /\ ReclaimOver
    /\ call' = "Idle" /\ reclaiming' = FALSE /\ reply' = "Opened"
    /\ UNCHANGED <<coalescerVars, durable, work, history, faulted, disruptions>>

StoreNext ==
    \/ \E e \in Events : RecordSystemEvent(e) \/ RefuseSystemEvent(e)
    \/ \E b \in Boots : FlushSystemEvents(b)
    \/ Stop
    \/ PersistSystemEventSummary \/ Retract
    \/ AcceptSystemEvent \/ FinishFlush \/ FinishStop
    \/ EngineFault \/ Crash \/ Open \/ FinishOpen

StoreSpec == StoreInit /\ [][StoreNext]_vars

-----------------------------------------------------------------------------
\* system_events: the rows a SystemEvents query of these domains returns.
SystemEvents(boot, domains) ==
    {s \in {rows[k] : k \in DOMAIN rows} :
        /\ s.representative.boot_identifier = boot
        /\ SystemEventDomain(s.representative.targeted_system_event) \in domains}

\* A row as it stands, or as it stood when retention took it.
Latest(key) == IF key \in DOMAIN rows THEN rows[key] ELSE reclaimed[key]

KnownKeys == DOMAIN rows \cup DOMAIN reclaimed

StoreTypeOK ==
    /\ TypeOK
    /\ \A k \in DOMAIN rows : rows[k] \in CoalescedSystemEvent /\ RecordKey(rows[k]) = k
    /\ DOMAIN rows \cap DOMAIN reclaimed = {}
    /\ call \in {"Idle", "Record", "Flush", "Shutdown", "Down", "Opening"}
    /\ work \subseteq update.closed \cup update.current
    /\ accepted \in [Identities -> 0 .. AcceptBound]
    /\ {reclaiming, faulted} \subseteq BOOLEAN
    /\ disruptions \in 0 .. DisruptionBound

\* The occurrences of an identity that summaries count, <<key, 1>>, <<key, 2>>
\* and so on for each: rows that a query of its boot and domain returns, and
\* rows that retention took.
Counted(i) ==
    LET domain   == SystemEventDomain(i.targeted_system_event)
        returned == SystemEvents(i.boot_identifier, {domain})
    IN  {o \in KnownKeys \X (1 .. MaxInteger) :
            /\ o[1] \in DOMAIN rows => rows[o[1]] \in returned
            /\ ExactDuplicateIdentity(Latest(o[1]).representative) = i
            /\ o[2] <= Latest(o[1]).count}

(* What was acknowledged is counted: the events of an identity that were   *)
(* answered with SystemEventAccepted are all in the counts a query of its  *)
(* boot and domain returns, or in rows that retention took, whatever       *)
(* crashes and engine failures came in between.                            *)
AcknowledgedIsCounted ==
    \A i \in Identities : accepted[i] <= Cardinality(Counted(i))

(* A record, an open, or a flush that closed a window, when it succeeds,   *)
(* leaves no more rows than the policy allows, even after failed reclaims  *)
(* left some over.  A flush that finds no window writes nothing, reclaims  *)
(* nothing, and is answered over whatever a failed reclaim left.           *)
RetentionBound ==
    \/ reply \in {"Accepted", "Opened"}
    \/ reply = "Flushed" /\ update.closed # {}
    => Cardinality(DOMAIN rows) <= SystemEventSummaries

(* "Bounded retention reclaims the oldest diagnostic rows": a row that is  *)
(* gone sorts no later than any row that is kept, and none is taken from a *)
(* table that is not full.                                                 *)
RetentionKeepsNewest ==
    ~reclaiming /\ ~Excess =>
        \A d \in DOMAIN reclaimed :
            /\ Cardinality(DOMAIN rows) = SystemEventSummaries
            /\ \A k \in DOMAIN rows : OlderOrSame(reclaimed[d], rows[k])

(* The in-memory windows and the table agree between calls: as long as the *)
(* engine has not failed since the start, every open window was last       *)
(* written exactly as it is now.                                           *)
OpenWindowsAreWritten ==
    call = "Idle" /\ ~faulted =>
        \A i \in DOMAIN active :
            /\ RecordKey(active[i]) \in KnownKeys
            /\ Latest(RecordKey(active[i])) = active[i]

(* A row marked Active has an open window behind it, so a graceful stop    *)
(* leaves none marked Active.  A crash or a failed write may orphan a row. *)
ActiveRowsAreOpen ==
    call \in {"Idle", "Down"} /\ disruptions = 0 =>
        \A k \in KnownKeys :
            Latest(k).closure = "Active" =>
                \E i \in DOMAIN active : RecordKey(active[i]) = k

(* The table's history is monotone: a closed summary is never reopened or  *)
(* rewritten, and an active one never counts fewer events than before.     *)
SummariesOnlyGrow ==
    [][\A k \in KnownKeys :
          /\ k \in KnownKeys'
          /\ Latest(k)'.count >= Latest(k).count
          /\ Latest(k).closure # "Active" => Latest(k)' = Latest(k)
      ]_vars

(* "Unclassified targeted input never retains a message preview", neither  *)
(* in the table nor in the memory a shutdown flush writes from.            *)
NoUnclassifiedPayload ==
    \A s \in {rows[k] : k \in DOMAIN rows} \cup {active[i] : i \in DOMAIN active} :
        ~(/\ IsUnclassified(s.representative.targeted_system_event)
          /\ s.representative.bounded_payload)
=============================================================================
