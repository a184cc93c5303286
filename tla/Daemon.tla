------------------------------- MODULE Daemon --------------------------------
(***************************************************************************)
(* The daemon from its connections to its end: connections take a permit   *)
(* and are read and written without a deadline (src/daemon.rs,             *)
(* daemon_shell.rs), the root handles one query at a time and asks the     *)
(* router, over a blocking socket, or the store; stop kills the root,      *)
(* whose on_stop stops the other actors while the runtime is dropped       *)
(* around them (src/runtime.rs).                                           *)
(*                                                                         *)
(* Who sends what is fixed: Metas ask the owner tier, Witnesses the root   *)
(* for a prototype witness, Recorders have it record one system event      *)
(* each.  Stalling clients may stop for good before they have sent all of  *)
(* it or read all of the answer.  What the store does with a message is    *)
(* SystemEventStore's; here a recorded event is an open window until a     *)
(* flush closes it.  The listener and its permits are triad_runtime's, the *)
(* tasks and blocking threads tokio's.  No engine failure, no crash.       *)
(***************************************************************************)
EXTENDS Integers, FiniteSets, Sequences

CONSTANTS
    Metas, Witnesses, Recorders,  \* connections, by what they ask
    Stalling,                     \* those that need neither send nor read
    Permits                       \* MAXIMUM_CONCURRENT_REQUESTS

Clients == Metas \cup Witnesses \cup Recorders

ASSUME DaemonAssumption ==
    /\ Permits \in Nat \ {0}
    /\ Metas \cap (Witnesses \cup Recorders) = {}
    /\ Witnesses \cap Recorders = {}
    /\ Stalling \subseteq Clients

VARIABLES
    connection,  \* client -> how far its connection is
    mailbox,     \* queries the root has not taken yet
    handling,    \* the query the root is handling, if any
    stage,       \* whom that handler awaits
    call,        \* the blocking thread of the router client
    inbox,       \* messages the store has not taken yet
    drain,       \* the drain task of the trace listener
    open,        \* recorded events whose window is open
    closed,      \* recorded events whose window a flush closed
    root, listener, store,  \* the life of each of these actors
    process      \* the life of the process

serving == <<connection, mailbox, handling, stage>>
windows == <<open, closed>>
actors == <<root, listener, store>>
vars == <<serving, call, inbox, drain, windows, actors, process>>

Ended == {"Answered", "Failed"}

\* A connection holds its permit until its handler returns.
Admitted == {"Reading", "Asked", "Writing"}

Holding == {c \in Clients : connection[c] \in Admitted}

\* Does the runtime poll its tasks?
Polled == process \in {"Serving", "Stopping"}

-----------------------------------------------------------------------------
Init ==
    /\ connection = [c \in Clients |-> "Away"]
    /\ mailbox = <<>> /\ handling = {} /\ stage = "Idle"
    /\ call = "None"
    /\ inbox = <<>> /\ drain = "Collecting"
    /\ open = {} /\ closed = {}
    /\ root = "Running" /\ listener = "Running" /\ store = "Running"
    /\ process = "Serving"

Step(c, from, to) ==
    /\ Polled
    /\ connection[c] = from
    /\ connection' = [connection EXCEPT ![c] = to]

Connect(c) ==
    /\ process = "Serving"
    /\ Step(c, "Away", "Accepted")
    /\ UNCHANGED <<mailbox, handling, stage, call, inbox, drain, windows, actors, process>>

Admit(c) ==
    /\ process = "Serving"
    /\ Cardinality(Holding) < Permits
    /\ Step(c, "Accepted", "Reading")
    /\ UNCHANGED <<mailbox, handling, stage, call, inbox, drain, windows, actors, process>>

\* A mistake: the owner's query is put to the root.
ReadMetaByRoot(c) ==
    /\ c \in Metas
    /\ Step(c, "Reading", "Asked")
    /\ mailbox' = Append(mailbox, c)
    /\ UNCHANGED <<handling, stage, call, inbox, drain, windows, actors, process>>

\* handle_meta_connection has its answer ready once the query is read.
ReadMeta(c) ==
    /\ c \in Metas
    /\ Step(c, "Reading", "Writing")
    /\ UNCHANGED <<mailbox, handling, stage, call, inbox, drain, windows, actors, process>>

\* handle_working_connection: the query is read and put to the root.
ReadQuery(c) ==
    /\ c \in Witnesses \cup Recorders
    /\ root = "Running"
    /\ Step(c, "Reading", "Asked")
    /\ mailbox' = Append(mailbox, c)
    /\ UNCHANGED <<handling, stage, call, inbox, drain, windows, actors, process>>

\* The root is gone before or after it was asked.
Refuse(c) ==
    /\ root # "Running"
    /\ c \in Witnesses \cup Recorders
    /\ \E from \in {"Reading", "Asked"} : Step(c, from, "Failed")
    /\ UNCHANGED <<mailbox, handling, stage, call, inbox, drain, windows, actors, process>>

\* The response is written and flushed, as fast as the client reads it.
Write(c) ==
    /\ Step(c, "Writing", "Answered")
    /\ UNCHANGED <<mailbox, handling, stage, call, inbox, drain, windows, actors, process>>

\* A client hangs up, or sends what is no query; while the root is asked
\* nobody looks.
HangUp(c) ==
    /\ \E from \in {"Reading", "Writing"} : Step(c, from, "Failed")
    /\ UNCHANGED <<mailbox, handling, stage, call, inbox, drain, windows, actors, process>>

-----------------------------------------------------------------------------
\* The root takes its next query and asks the router or the store.
Take ==
    /\ root = "Running" /\ stage = "Idle" /\ mailbox # <<>>
    /\ LET c == Head(mailbox) IN
        /\ handling' = {c}
        /\ mailbox' = Tail(mailbox)
        /\ IF c \in Witnesses
           THEN stage' = "Router" /\ call' = "Connecting" /\ UNCHANGED inbox
           ELSE stage' = "Store" /\ inbox' = Append(inbox, <<"Record", c>>) /\ UNCHANGED call
    /\ UNCHANGED <<connection, drain, windows, actors, process>>

\* The handler of the query ends, with a response to write or an error that
\* closes the connection unwritten.
Reply(c, outcome) ==
    /\ connection' = [connection EXCEPT ![c] = outcome]
    /\ handling' = {} /\ stage' = "Idle"
    /\ UNCHANGED mailbox

\* A router that listens but does not accept blocks this for ever.
ConnectReturns ==
    /\ call = "Connecting"
    /\ call' = "Exchanging"
    /\ UNCHANGED <<serving, inbox, drain, windows, actors, process>>

\* The blocking thread ends; the root, if it still waits, fails the query or
\* has the answer recorded.
CallEnds(fails) ==
    /\ call' = "None"
    /\ IF stage = "Router"
       THEN \E c \in handling :
              IF fails THEN Reply(c, "Failed") /\ UNCHANGED inbox
              ELSE /\ stage' = "Store"
                   /\ inbox' = Append(inbox, <<"Observe", c>>)
                   /\ UNCHANGED <<connection, mailbox, handling>>
       ELSE UNCHANGED <<serving, inbox>>
    /\ UNCHANGED <<drain, windows, actors, process>>

ConnectRefused == call = "Connecting" /\ CallEnds(TRUE)

\* router_summary_readiness: a summary says ready or not, an unimplemented
\* reply that the router is unseen, and anything else is an error.
RouterReplies == {"Summary", "Unimplemented", "Unexpected"}

RouterAnswers ==
    /\ call = "Exchanging"
    /\ \E reply \in RouterReplies : CallEnds(reply = "Unexpected")

\* A mistake: the read has no deadline either.
NeverTimesOut == FALSE /\ CallEnds(TRUE)

\* The deadline of a read or a write passes, or the frame is too long.
RouterTimesOut == call = "Exchanging" /\ CallEnds(TRUE)

-----------------------------------------------------------------------------
\* The store handles its next message and the asking task goes on; an asker
\* that is gone gets nothing.
StoreHandles ==
    /\ store = "Running" /\ Polled
    /\ inbox # <<>> /\ Head(inbox) # <<"Stop">>
    /\ inbox' = Tail(inbox)
    /\ LET message == Head(inbox) IN
        IF message = <<"Trace">>
        THEN /\ drain' = IF drain = "Asking" THEN "Collecting" ELSE drain
             /\ UNCHANGED <<serving, open>>
        ELSE /\ open' = IF message[1] = "Record" THEN open \cup {message[2]} ELSE open
             /\ IF message[2] \in handling THEN Reply(message[2], "Writing")
                ELSE UNCHANGED serving
             /\ UNCHANGED drain
    /\ UNCHANGED <<call, closed, actors, process>>

\* on_stop of the store: every window is flushed; what is left is refused.
StoreStops ==
    /\ store = "Running" /\ Polled
    /\ inbox # <<>> /\ Head(inbox) = <<"Stop">>
    /\ inbox' = <<>>
    /\ open' = {} /\ closed' = closed \cup open
    /\ store' = "Stopped"
    /\ UNCHANGED <<serving, call, drain, root, listener, process>>

\* The drain task forwards an event it has collected.
DrainAsks ==
    /\ drain = "Collecting" /\ Polled
    /\ IF store = "Running" THEN drain' = "Asking" /\ inbox' = Append(inbox, <<"Trace">>)
       ELSE drain' = "Done" /\ UNCHANGED inbox
    /\ UNCHANGED <<serving, call, windows, actors, process>>

\* The store it asked is gone: `return`.
DrainRefused ==
    /\ drain = "Asking" /\ Polled /\ store = "Stopped"
    /\ drain' = "Done"
    /\ UNCHANGED <<serving, call, inbox, windows, actors, process>>

-----------------------------------------------------------------------------
\* A mistake: the handler that is aborted is not forgotten.
KillGently ==
    /\ process = "Serving"
    /\ process' = "Stopping" /\ root' = "StopListener"
    /\ mailbox' = <<>>
    /\ UNCHANGED <<connection, handling, stage, call, inbox, drain, windows, listener, store>>

\* stop: the root is killed and nobody waits for it; its handler is aborted
\* and its on_stop begins while the runtime goes down.
Kill ==
    /\ process = "Serving"
    /\ process' = "Stopping" /\ root' = "StopListener"
    /\ mailbox' = <<>> /\ handling' = {} /\ stage' = "Idle"
    /\ UNCHANGED <<connection, call, inbox, drain, windows, listener, store>>

\* stop_children sends each child its stop first ...
StopListener ==
    /\ root = "StopListener" /\ Polled
    /\ root' = "StopStore" /\ listener' = "Stopping"
    /\ UNCHANGED <<serving, call, inbox, drain, windows, store, process>>

\* A mistake: a child is awaited before the next is sent its stop.
StopStoreAfterRouter ==
    /\ root = "StopStore" /\ Polled
    /\ call = "None"
    /\ root' = "Waiting"
    /\ inbox' = Append(inbox, <<"Stop">>)
    /\ UNCHANGED <<serving, call, drain, windows, listener, store, process>>

StopStore ==
    /\ root = "StopStore" /\ Polled
    /\ root' = "Waiting"
    /\ inbox' = Append(inbox, <<"Stop">>)
    /\ UNCHANGED <<serving, call, drain, windows, listener, store, process>>

\* A mistake: the store is not awaited.
RootStopsEarly ==
    /\ root = "Waiting" /\ Polled
    /\ call = "None"
    /\ listener = "Stopped"
    /\ root' = "Stopped"
    /\ UNCHANGED <<serving, call, inbox, drain, windows, listener, store, process>>

\* ... and waits for all of them, the router client in its handler included.
RootStops ==
    /\ root = "Waiting" /\ Polled
    /\ call = "None"
    /\ listener = "Stopped"
    /\ store = "Stopped"
    /\ root' = "Stopped"
    /\ UNCHANGED <<serving, call, inbox, drain, windows, listener, store, process>>

\* on_stop of the listener aborts the drain task, wherever it awaits; what it
\* has asked the store stays in the inbox.
ListenerStops ==
    /\ listener = "Stopping" /\ Polled
    /\ listener' = "Stopped" /\ drain' = "Done"
    /\ UNCHANGED <<serving, call, inbox, windows, root, store, process>>

\* run has returned: the runtime drops every task wherever it awaits ...
DropTasks ==
    /\ process = "Stopping"
    /\ process' = "Dropped"
    /\ connection' = [c \in Clients |-> IF connection[c] \in Admitted \cup {"Accepted"}
                                       THEN "Failed" ELSE connection[c]]
    /\ UNCHANGED <<mailbox, handling, stage, call, inbox, drain, windows, actors>>

\* ... and waits for the blocking thread.
Exit ==
    /\ process = "Dropped" /\ call = "None"
    /\ process' = "Exited"
    /\ UNCHANGED <<serving, call, inbox, drain, windows, actors>>

RootStep == Take \/ StopListener \/ StopStore \/ RootStops
StoreStep == StoreHandles \/ StoreStops
DrainStep == DrainAsks \/ DrainRefused
ReadStep(c) == ReadMeta(c) \/ ReadQuery(c)

Next ==
    \/ \E c \in Clients :
         Connect(c) \/ Admit(c) \/ ReadStep(c) \/ Refuse(c) \/ Write(c) \/ HangUp(c)
    \/ RootStep \/ StoreStep \/ DrainStep \/ ListenerStops
    \/ ConnectReturns \/ ConnectRefused \/ RouterAnswers \/ RouterTimesOut
    \/ Kill \/ DropTasks \/ Exit

\* The runtime polls every task that can go on, a client that does not stall
\* sends and reads, a root that has stopped answers nobody, and a deadline
\* passes; nothing makes connect return, a client connect, the daemon stop, or
\* the runtime drop its tasks.
Fairness ==
    /\ \A c \in Clients : WF_vars(Admit(c))
    /\ \A c \in Clients \ Stalling :
         WF_vars(ReadStep(c)) /\ WF_vars(Write(c)) /\ WF_vars(root = "Stopped" /\ Refuse(c))
    /\ WF_vars(RootStep) /\ WF_vars(StoreStep) /\ WF_vars(DrainStep)
    /\ WF_vars(ListenerStops) /\ WF_vars(RouterTimesOut)

Spec == Init /\ [][Next]_vars /\ Fairness

-----------------------------------------------------------------------------
Pending(message) == \E i \in 1 .. Len(inbox) : inbox[i] = message

TypeOK ==
    /\ connection \in [Clients -> {"Away", "Accepted"} \cup Admitted \cup Ended]
    /\ Cardinality(Holding) <= Permits
    /\ root = "Running" =>
         {c \in Clients : connection[c] = "Asked"}
           = handling \cup {mailbox[i] : i \in 1 .. Len(mailbox)}
    /\ Cardinality(handling) = IF stage = "Idle" THEN 0 ELSE 1
    /\ stage # "Idle" => root = "Running"
    /\ stage = "Router" => call # "None"
    /\ stage = "Store" =>
         \E c \in handling : Pending(<<"Record", c>>) \/ Pending(<<"Observe", c>>)
    /\ drain = "Asking" => Pending(<<"Trace">>) \/ store = "Stopped"
    /\ process = "Serving" <=> root = "Running"
    /\ process = "Serving" => listener = "Running" /\ store = "Running"
    /\ open \cap closed = {} /\ open \cup closed \subseteq Recorders

(* A tree that was left to stop has flushed every window: what a client    *)
(* was, or is being, answered and what the store took from a handler that  *)
(* was aborted.                                                            *)
StoppedMeansFlushed ==
    /\ {c \in Recorders : connection[c] \in {"Writing", "Answered"}} \subseteq open \cup closed
    /\ root = "Stopped" =>
         open = {} /\ \A c \in Clients : ~Pending(<<"Record", c>>)

\* The connect of the router client returns whenever it is called.
RouterAccepts == []<>(call # "Connecting")

(* A connection that was accepted and does not stall ends, however many    *)
(* others are served and traces drained beside it, as long as those that   *)
(* stall leave a permit, the router accepts what connects to it, answering *)
(* or not, and the daemon is not stopped.                                  *)
EveryConnectionEnds ==
    Cardinality(Stalling) < Permits /\ RouterAccepts =>
        \A c \in Clients \ Stalling :
            connection[c] = "Accepted" ~> connection[c] \in Ended \/ process # "Serving"

(* A connection that has its permit ends whether the daemon serves on or   *)
(* is stopped under it, at any point, and whoever stalls beside it: the    *)
(* owner's even while the root hangs in a connect for ever, a query's if   *)
(* the router accepts what connects to it.                                 *)
AdmittedConnectionsEnd ==
    \A c \in Clients \ Stalling :
        c \in Metas \/ RouterAccepts =>
            (connection[c] \in Admitted ~> connection[c] \in Ended)

(* A kill ends in the store's flush even while a call to the router hangs  *)
(* and traces keep coming, unless the runtime drops the tasks first.       *)
StopFlushes == process = "Stopping" ~> store = "Stopped" \/ ~Polled
=============================================================================
