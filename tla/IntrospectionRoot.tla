------------------------- MODULE IntrospectionRoot --------------------------
(***************************************************************************)
(* The root actor (src/runtime.rs) and the audit trail it keeps in the     *)
(* observation table of the store (src/store.rs, store_record.rs): queries *)
(* arrive in its mailbox, it answers one at a time, numbers the answer     *)
(* with handled_queries, has it recorded, and only then replies.           *)
(*                                                                         *)
(* A request is sent once.  What the store or the router answers is        *)
(* abstracted to whether it did, and the router may hold a query up for    *)
(* ever; the tables other than the observations are in SystemEventStore    *)
(* and TraceIngestion.  `fate`, `trail`, `gone` and `unreclaimed` are      *)
(* history.                                                                *)
(***************************************************************************)
EXTENDS Integers, FiniteSets, Sequences

CONSTANTS
    Requests,            \* what clients send, each once
    Kinds,               \* the kinds of request in this instance
    ObservationCap,      \* PersistenceRetention.observations
    FaultBound,          \* how many engine and router failures a behaviour has
    RestartBound         \* how many times the process dies and comes back

\* Queries answered from the root alone, from the store, and from the router;
\* the two writes; and the message that feeds the delivery trace.
AllKinds == {"EngineSnapshot", "StoreRead", "PrototypeWitness",
             "RecordSystemEvent", "FlushSystemEvents", "DeliveryTraceEvent"}

ASSUME RootAssumption ==
    /\ IsFiniteSet(Requests)
    /\ Kinds \subseteq AllKinds
    /\ ObservationCap \in Nat \ {0}
    /\ FaultBound \in Nat /\ RestartBound \in Nat

VARIABLES
    mailbox,          \* requests the root has not taken yet
    kind,             \* request -> its kind, once it is sent
    handling,         \* the request the root is handling, if any
    stage,            \* how far that handler is
    handled_queries,  \* the counter that numbers the observations
    observations,     \* sequence -> the request whose answer the row holds
    up,               \* is the daemon running
    fate,             \* request -> how it ended for its client
    trail,            \* requests in the order their rows were asserted
    gone,             \* requests whose rows retention retracted
    unreclaimed,      \* has a reclaim failed and none been completed since
    faults, restarts  \* how many of each so far

root == <<mailbox, kind, handling, stage, handled_queries>>
failures == <<unreclaimed, faults, restarts>>
vars == <<root, observations, up, fate, trail, gone, failures>>

-----------------------------------------------------------------------------
Fates == {"Unsent", "Waiting", "Answered", "Error", "Lost"}

Init ==
    /\ mailbox = <<>>
    /\ kind = [r \in {} |-> "EngineSnapshot"]
    /\ handling = {} /\ stage = "Idle" /\ handled_queries = 0
    /\ observations = [s \in {} |-> {}]
    /\ up = TRUE
    /\ fate = [r \in Requests |-> "Unsent"]
    /\ trail = <<>> /\ gone = {}
    /\ unreclaimed = FALSE
    /\ faults = 0 /\ restarts = 0

\* A connection reads one query and asks the root.
Submit(r, k) ==
    /\ up /\ stage # "Opening"
    /\ fate[r] = "Unsent"
    /\ fate' = [fate EXCEPT ![r] = "Waiting"]
    /\ kind' = [q \in DOMAIN kind \cup {r} |-> IF q = r THEN k ELSE kind[q]]
    /\ mailbox' = Append(mailbox, r)
    /\ UNCHANGED <<handling, stage, handled_queries, observations, up, trail, gone, failures>>

\* A mistake: an arm of answer() forgets to count.
CountedWitnesses(k) == k = "PrototypeWitness"

\* Two queries and the trace event leave handled_queries as it is.
Counted(k) == k \notin {"RecordSystemEvent", "FlushSystemEvents", "DeliveryTraceEvent"}

\* Every answer is recorded but those to the two record messages.
Audited(k) == k \notin {"RecordSystemEvent", "DeliveryTraceEvent"}

\* Two mistakes: the message stays in the mailbox; the counter is too narrow.
ReceiveAgain ==
    /\ up /\ stage = "Idle" /\ mailbox # <<>>
    /\ handling' = {Head(mailbox)}
    /\ stage' = "Answering"
    /\ handled_queries' = handled_queries + IF Counted(kind[Head(mailbox)]) THEN 1 ELSE 0
    /\ UNCHANGED <<mailbox, kind, observations, up, fate, trail, gone, failures>>

ReceiveNarrow ==
    /\ up /\ stage = "Idle" /\ mailbox # <<>>
    /\ handling' = {Head(mailbox)}
    /\ mailbox' = Tail(mailbox)
    /\ stage' = "Answering"
    /\ handled_queries' = (handled_queries + IF Counted(kind[Head(mailbox)]) THEN 1 ELSE 0) % 2
    /\ UNCHANGED <<kind, observations, up, fate, trail, gone, failures>>

\* prototype_witness asks the router client, whose thread connects first.
FirstStage(k) == IF k = "PrototypeWitness" THEN "Connecting" ELSE "Answering"

\* The root takes its next message; the query's arm counts it first thing.
Receive ==
    /\ up /\ stage = "Idle" /\ mailbox # <<>>
    /\ handling' = {Head(mailbox)}
    /\ mailbox' = Tail(mailbox)
    /\ stage' = FirstStage(kind[Head(mailbox)])
    /\ handled_queries' = handled_queries + IF Counted(kind[Head(mailbox)]) THEN 1 ELSE 0
    /\ UNCHANGED <<kind, observations, up, fate, trail, gone, failures>>

\* The connect to the router returns, refused or not; it has no deadline, and
\* a router that listens but does not accept need never let it.
ConnectReturns ==
    /\ stage = "Connecting"
    /\ stage' = "Answering"
    /\ UNCHANGED <<mailbox, kind, handling, handled_queries, observations, up,
                   fate, trail, gone, failures>>

\* The handler ends and its client learns how.
Reply(r, outcome) ==
    /\ handling' = {} /\ stage' = "Idle"
    /\ fate' = [fate EXCEPT ![r] = outcome]
    /\ UNCHANGED <<mailbox, kind, handled_queries, up>>

\* answer() succeeds on a message whose reply is not recorded.
AnswerUnrecorded(r) ==
    /\ stage = "Answering" /\ ~Audited(kind[r])
    /\ Reply(r, "Answered")
    /\ UNCHANGED <<observations, trail, gone, failures>>

\* answer() succeeds; its effect, a flush for one, is done.
Answer(r) ==
    /\ stage = "Answering" /\ Audited(kind[r])
    /\ stage' = "Recording"
    /\ UNCHANGED <<mailbox, kind, handling, handled_queries, observations, up,
                   fate, trail, gone, failures>>

\* answer() asks nobody, so it cannot fail.
Infallible(k) == k = "EngineSnapshot"

Fault == faults < FaultBound /\ faults' = faults + 1 /\ UNCHANGED restarts

\* The table keeps the rows a reclaim has not come to.
CutShort(failing) == unreclaimed' = (unreclaimed \/ failing)

\* The store or the router fails: `?` leaves the handler before it records.
AnswerFails(r) ==
    /\ stage = "Answering" /\ ~Infallible(kind[r])
    /\ Reply(r, "Error")
    /\ Fault /\ CutShort(FALSE)
    /\ UNCHANGED <<observations, trail, gone>>

\* record_observation: assert, which takes a key only once.
AssertObservation(r) ==
    /\ stage = "Recording"
    /\ handled_queries \notin DOMAIN observations
    /\ observations' = [s \in DOMAIN observations \cup {handled_queries} |->
                          IF s = handled_queries THEN r ELSE observations[s]]
    /\ trail' = Append(trail, r)
    /\ stage' = "Reclaiming"
    /\ UNCHANGED <<mailbox, kind, handling, handled_queries, up, fate, gone, failures>>

\* A mistake: a rejected assertion is not reported.
AssertionRejectedQuietly(r) ==
    /\ stage = "Recording"
    /\ handled_queries \in DOMAIN observations
    /\ Reply(r, "Answered")
    /\ UNCHANGED <<observations, trail, gone, failures>>

AssertionRejected(r) ==
    /\ stage = "Recording"
    /\ handled_queries \in DOMAIN observations
    /\ Reply(r, "Error")
    /\ UNCHANGED <<observations, trail, gone, failures>>

Excess == Cardinality(DOMAIN observations) > ObservationCap

\* A mistake: rows are taken from the other end.
LastRows == {s \in DOMAIN observations : \A t \in DOMAIN observations : t <= s}

\* The row with the lowest sequence is retracted.
Victims == {s \in DOMAIN observations : \A t \in DOMAIN observations : s <= t}

ReclaimObservation ==
    /\ stage \in {"Reclaiming", "Opening"} /\ Excess
    /\ \E s \in Victims :
        /\ observations' = [t \in DOMAIN observations \ {s} |-> observations[t]]
        /\ gone' = gone \cup {observations[s]}
    /\ UNCHANGED <<root, up, fate, trail, failures>>

\* A mistake: the handler waits for a table that is not full.
ReplyUnderCap(r) ==
    /\ stage = "Reclaiming" /\ Cardinality(DOMAIN observations) < ObservationCap
    /\ Reply(r, "Answered")
    /\ UNCHANGED <<observations, trail, gone, failures>>

ReplyRecorded(r) ==
    /\ stage = "Reclaiming" /\ ~Excess
    /\ Reply(r, "Answered")
    /\ unreclaimed' = FALSE
    /\ UNCHANGED <<observations, trail, gone, faults, restarts>>

\* The engine fails while it asserts or reclaims.
RecordFails(r) ==
    /\ stage \in {"Recording", "Reclaiming"}
    /\ Reply(r, "Error")
    /\ Fault /\ CutShort(stage = "Reclaiming")
    /\ UNCHANGED <<observations, trail, gone>>

-----------------------------------------------------------------------------
Crash ==
    /\ up
    /\ restarts < RestartBound
    /\ up' = FALSE
    /\ mailbox' = <<>> /\ handling' = {} /\ stage' = "Idle"
    /\ fate' = [r \in Requests |-> IF fate[r] = "Waiting" THEN "Lost" ELSE fate[r]]
    /\ restarts' = restarts + 1
    /\ UNCHANGED <<kind, handled_queries, observations, trail, gone, unreclaimed, faults>>

\* spawn_root: a new counter over the rows that are there; open reclaims them.
Restart ==
    /\ ~up
    /\ up' = TRUE
    /\ handled_queries' = 0
    /\ stage' = "Opening"
    /\ UNCHANGED <<mailbox, kind, handling, observations, fate, trail, gone, failures>>

\* A mistake: the table is not reclaimed when it is opened.
OpenUnreclaimed ==
    /\ stage = "Opening"
    /\ stage' = "Idle"
    /\ unreclaimed' = FALSE
    /\ UNCHANGED <<mailbox, kind, handling, handled_queries, observations, up,
                   fate, trail, gone, faults, restarts>>

FinishOpen ==
    /\ stage = "Opening" /\ ~Excess
    /\ stage' = "Idle"
    /\ unreclaimed' = FALSE
    /\ UNCHANGED <<mailbox, kind, handling, handled_queries, observations, up,
                   fate, trail, gone, faults, restarts>>

HandlerStep ==
    \/ Receive \/ ReclaimObservation \/ FinishOpen
    \/ \E r \in handling :
         \/ AnswerUnrecorded(r) \/ Answer(r) \/ AnswerFails(r)
         \/ AssertObservation(r) \/ AssertionRejected(r)
         \/ ReplyRecorded(r) \/ RecordFails(r)

Next ==
    \/ \E r \in Requests, k \in Kinds : Submit(r, k)
    \/ HandlerStep
    \/ ConnectReturns
    \/ Crash \/ Restart

\* The runtime polls the root until its handler ends, the store answers, and so
\* does, within its deadlines, a router that has let the connect return.
\* Nothing makes it return.
Spec == Init /\ [][Next]_vars /\ WF_vars(HandlerStep)

-----------------------------------------------------------------------------
Held == {observations[s] : s \in DOMAIN observations}

Recorded(r) == r \in Held \cup gone

TypeOK ==
    /\ DOMAIN kind = {r \in Requests : fate[r] # "Unsent"}
    /\ \A r \in DOMAIN kind : kind[r] \in Kinds
    /\ fate \in [Requests -> Fates]
    /\ Cardinality(handling) <= 1
    /\ {r \in Requests : fate[r] = "Waiting"}
         = handling \cup {mailbox[i] : i \in 1 .. Len(mailbox)}
    /\ stage \in {"Idle", "Opening", "Connecting", "Answering", "Recording", "Reclaiming"}
    /\ handling = {} <=> stage \in {"Idle", "Opening"}
    /\ stage = "Connecting" => \A r \in handling : kind[r] = "PrototypeWitness"
    /\ handled_queries \in 0 .. Cardinality(Requests)
    /\ DOMAIN observations \subseteq 0 .. Cardinality(Requests)

(* A client is answered only after its query and answer were recorded: the *)
(* row is in the table, or retention has taken it since.                   *)
AnsweredIsRecorded ==
    \A r \in DOMAIN kind :
        Audited(kind[r]) /\ fate[r] = "Answered" => Recorded(r)

(* "The query/reply audit trail is persisted": as long as neither store    *)
(* nor router fails, every audited query that ended is recorded.           *)
EveryQueryIsRecorded ==
    faults = 0 =>
        \A r \in DOMAIN kind :
            Audited(kind[r]) /\ fate[r] \in {"Answered", "Error"} => Recorded(r)

(* What does hold of it: within one session handled_queries gives every    *)
(* audited query but a flush a number of its own, whatever kinds come      *)
(* before it, so as long as nothing fails it is recorded.                  *)
NumberedQueryIsRecorded ==
    faults = 0 /\ restarts = 0 =>
        \A r \in DOMAIN kind :
            /\ Audited(kind[r]) /\ kind[r] # "FlushSystemEvents"
            /\ fate[r] \in {"Answered", "Error"}
            => Recorded(r)

(* "Bounded retention reclaims the oldest diagnostic rows": within one     *)
(* session the rows that are gone are those asserted first.                *)
ReclaimsOldest ==
    restarts = 0 => gone = {trail[i] : i \in 1 .. Cardinality(gone)}

(* Within one session, sorting the table by sequence is sorting it by the  *)
(* time of its rows.                                                       *)
SequenceIsTime ==
    restarts = 0 =>
        \A s, t \in DOMAIN observations : s < t =>
            \E i, j \in 1 .. Len(trail) :
                i < j /\ trail[i] = observations[s] /\ trail[j] = observations[t]

Table == INSTANCE BoundedTable
            WITH Cap <- ObservationCap, table <- observations,
                 settled <- up /\ stage = "Idle" /\ ~unreclaimed

(* The audit trail is a BoundedTable: no row is rewritten, none is taken   *)
(* while there is room, and it is within its cap whenever the root is      *)
(* ready for the next message, unless a reclaim has failed; then it is so  *)
(* again after the next row recorded or the next start, whatever crashed   *)
(* in the middle of a reclaim.                                             *)
ImplementsTable == Table!Spec

\* No connect of the router client goes on for ever.
RouterAccepts == []<>(stage # "Connecting")

(* Every query sent is answered, refused or lost with the process: nothing *)
(* but a connect to the router that never returns makes one wait for ever, *)
(* for its own answer or in the mailbox behind another's.                  *)
EveryQueryEnds ==
    RouterAccepts => \A r \in Requests : fate[r] = "Waiting" ~> fate[r] # "Waiting"
=============================================================================
