---------------------------- MODULE DaemonProofs ----------------------------
(***************************************************************************)
(* Proofs about the daemon of Daemon.tla, for any number of connections    *)
(* and of permits: types, that a tree left to stop has flushed what its    *)
(* clients were answered, and that nothing holds up its stop.              *)
(***************************************************************************)
EXTENDS Daemon, FiniteSetTheorems, TLAPS

\* What lies in the store's mailbox.
Messages == ({"Record"} \X Recorders) \cup ({"Observe"} \X Witnesses)
              \cup {<<"Trace">>, <<"Stop">>}

Queriers == Witnesses \cup Recorders

Queued(box) == {box[i] : i \in 1 .. Len(box)}

OnceEach(box) == \A i, j \in 1 .. Len(box) : box[i] = box[j] => i = j

-----------------------------------------------------------------------------
(* A mailbox with one more at its end.                                     *)
LEMMA Longer ==
  ASSUME NEW S, NEW box \in Seq(S), NEW x \in S
  PROVE  /\ Append(box, x) \in Seq(S)
         /\ Queued(Append(box, x)) = Queued(box) \cup {x}
         /\ OnceEach(box) /\ x \notin Queued(box) => OnceEach(Append(box, x))
<1>1. /\ Append(box, x) \in Seq(S) /\ Len(Append(box, x)) = Len(box) + 1 /\ Len(box) \in Nat
      /\ \A i \in 1 .. Len(box) : Append(box, x)[i] = box[i]
      /\ Append(box, x)[Len(box) + 1] = x
  OBVIOUS
<1> QED
  BY <1>1 DEF Queued, OnceEach

(* A mailbox without its first.                                            *)
LEMMA Shorter ==
  ASSUME NEW S, NEW box \in Seq(S), box # <<>>
  PROVE  /\ Tail(box) \in Seq(S) /\ Head(box) \in S
         /\ Queued(box) = Queued(Tail(box)) \cup {Head(box)}
         /\ OnceEach(box) => OnceEach(Tail(box)) /\ Head(box) \notin Queued(Tail(box))
<1>1. /\ Tail(box) \in Seq(S) /\ Head(box) \in S
      /\ Len(box) \in Nat /\ Len(box) > 0 /\ Len(Tail(box)) = Len(box) - 1
      /\ \A i \in 1 .. Len(Tail(box)) : Tail(box)[i] = box[i + 1]
      /\ Head(box) = box[1]
  OBVIOUS
<1>2. ASSUME NEW x PROVE x \in Queued(box) <=> x \in Queued(Tail(box)) \/ x = Head(box)
  <2>1. ASSUME NEW i \in 1 .. Len(box), x = box[i]
        PROVE  x \in Queued(Tail(box)) \/ x = Head(box)
    <3>1. CASE i = 1
      BY <1>1, <2>1, <3>1
    <3>2. CASE i # 1
      <4>1. i - 1 \in 1 .. Len(Tail(box)) /\ Tail(box)[i - 1] = x
        BY <1>1, <2>1, <3>2
      <4> QED
        BY <4>1 DEF Queued
    <3> QED
      BY <3>1, <3>2
  <2>2. ASSUME NEW i \in 1 .. Len(Tail(box)), x = Tail(box)[i]
        PROVE  x \in Queued(box)
    <3>1. i + 1 \in 1 .. Len(box) /\ box[i + 1] = x
      BY <1>1, <2>2
    <3> QED
      BY <3>1 DEF Queued
  <2>3. Head(box) \in Queued(box)
    BY <1>1 DEF Queued
  <2> QED
    BY <2>1, <2>2, <2>3 DEF Queued
<1>3. ASSUME OnceEach(box) PROVE OnceEach(Tail(box)) /\ Head(box) \notin Queued(Tail(box))
  <2>1. OnceEach(Tail(box))
    BY <1>1, <1>3 DEF OnceEach
  <2>2. ASSUME NEW i \in 1 .. Len(Tail(box)) PROVE Tail(box)[i] # Head(box)
    <3>1. i + 1 \in 1 .. Len(box) /\ 1 \in 1 .. Len(box) /\ i + 1 # 1
      BY <1>1
    <3> QED
      BY <1>1, <1>3, <3>1 DEF OnceEach
  <2> QED
    BY <2>1, <2>2 DEF Queued
<1> QED
  BY <1>1, <1>2, <1>3

(* The empty mailbox.                                                      *)
LEMMA Nothing == ASSUME NEW S PROVE <<>> \in Seq(S) /\ Queued(<<>>) = {} /\ OnceEach(<<>>)
  BY DEF Queued, OnceEach

LEMMA PendingIsQueued == \A m : Pending(m) <=> m \in Queued(inbox)
  BY DEF Pending, Queued

-----------------------------------------------------------------------------
\* The inductive invariant, in parts.  The queries in the daemon and whom their
\* handler awaits:
Handled ==
    /\ mailbox \in Seq(Queriers) /\ inbox \in Seq(Messages)
    /\ handling \subseteq Queriers
    /\ stage \in {"Idle", "Router", "Store"}
    /\ stage = "Idle" => handling = {}
    /\ stage # "Idle" => root = "Running" /\ \E c : handling = {c}
    /\ stage = "Router" => handling \subseteq Witnesses /\ call # "None"

\* The order in which the tree stops, and what the store's end does to it:
Lives ==
    /\ process = "Serving" <=> root = "Running"
    /\ process = "Serving" => listener = "Running" /\ store = "Running"
    /\ store \in {"Running", "Stopped"}
    /\ <<"Stop">> \in Queued(inbox) => root \in {"Waiting", "Stopped"}
    /\ store = "Stopped" => root \in {"Waiting", "Stopped"} /\ inbox = <<>> /\ open = {}
    /\ store = "Running" => closed = {}
    /\ root = "Stopped" => store = "Stopped"

\* What a recorder was answered lies in a window:
Answers ==
    /\ connection \in [Clients -> {"Away", "Accepted"} \cup Admitted \cup Ended]
    /\ open \subseteq Recorders /\ closed \subseteq Recorders
    /\ {c \in Recorders : connection[c] \in {"Writing", "Answered"}} \subseteq open \cup closed

\* Whoever waits for the store has a message there:
Awaited ==
    /\ stage = "Store" =>
         \E c \in handling : <<"Record", c>> \in Queued(inbox) \/ <<"Observe", c>> \in Queued(inbox)
    /\ drain = "Asking" => <<"Trace">> \in Queued(inbox) \/ store = "Stopped"

\* A connection that waits for the root is in its mailbox or in its handler:
AskedOnce ==
    /\ OnceEach(mailbox) /\ handling \cap Queued(mailbox) = {}
    /\ root = "Running" =>
         {c \in Clients : connection[c] = "Asked"} = handling \cup Queued(mailbox)

\* No more connections are read or handled than there are permits:
Permitted == IsFiniteSet(Holding) /\ Cardinality(Holding) <= Permits

(* The messages that are sent.                                             *)
LEMMA Sent ==
  /\ \A c \in Recorders : <<"Record", c>> \in Messages
  /\ \A c \in Witnesses : <<"Observe", c>> \in Messages
  /\ <<"Trace">> \in Messages /\ <<"Stop">> \in Messages
  BY DEF Messages

(* Every query is put to the root, taken, and ends once.                   *)
LEMMA HandledStep ==
  ASSUME Handled, Lives, [Next]_vars
  PROVE  Handled'
<1>1. ASSUME UNCHANGED <<mailbox, handling, stage, inbox, root, call>> PROVE Handled'
  BY <1>1 DEF Handled
<1>2. ASSUME NEW c \in Clients,
             Connect(c) \/ Admit(c) \/ ReadMeta(c) \/ Refuse(c) \/ Write(c) \/ HangUp(c)
      PROVE  Handled'
  BY <1>1, <1>2 DEF Connect, Admit, ReadMeta, Refuse, Write, HangUp, actors
<1>3. ASSUME NEW c \in Clients, ReadQuery(c) PROVE Handled'
  <2>1. mailbox' = Append(mailbox, c) /\ c \in Queriers
    BY <1>3 DEF ReadQuery, Queriers
  <2>2. mailbox' \in Seq(Queriers)
    BY <2>1, Longer DEF Handled
  <2> QED
    BY <1>3, <2>2 DEF ReadQuery, Handled, actors
<1>4. CASE Take
  <2> DEFINE c == Head(mailbox)
  <2>1. /\ c \in Queriers /\ Tail(mailbox) \in Seq(Queriers)
        /\ mailbox' = Tail(mailbox) /\ handling' = {c} /\ root' = "Running"
    BY <1>4, Shorter DEF Take, Handled, actors
  <2>2. CASE c \in Witnesses
    BY <1>4, <2>1, <2>2 DEF Take, Handled
  <2>3. CASE c \notin Witnesses
    <3>1. c \in Recorders
      BY <2>1, <2>3 DEF Queriers
    <3>2. inbox' = Append(inbox, <<"Record", c>>) /\ stage' = "Store"
      BY <1>4, <2>3 DEF Take
    <3>3. inbox' \in Seq(Messages)
      BY <3>1, <3>2, Sent, Longer DEF Handled
    <3> QED
      BY <2>1, <3>2, <3>3 DEF Handled
  <2> QED
    BY <2>2, <2>3
<1>5. CASE ConnectReturns
  BY <1>5 DEF ConnectReturns, serving, actors, Handled
<1>6. ASSUME NEW fails, CallEnds(fails) PROVE Handled'
  <2>1. CASE stage # "Router"
    BY <1>6, <2>1 DEF CallEnds, serving, actors, Handled
  <2>2. CASE stage = "Router"
    <3>1. PICK c \in handling :
            IF fails THEN Reply(c, "Failed") /\ UNCHANGED inbox
            ELSE /\ stage' = "Store" /\ inbox' = Append(inbox, <<"Observe", c>>)
                 /\ UNCHANGED <<connection, mailbox, handling>>
      BY <1>6, <2>2 DEF CallEnds
    <3>2. Append(inbox, <<"Observe", c>>) \in Seq(Messages)
      BY <2>2, Sent, Longer DEF Handled
    <3>3. root' = root
      BY <1>6 DEF CallEnds, actors
    <3> QED
      BY <2>2, <3>1, <3>2, <3>3 DEF Reply, Handled
  <2> QED
    BY <2>1, <2>2
<1>7. CASE StoreHandles
  <2>1. inbox' = Tail(inbox) /\ Tail(inbox) \in Seq(Messages)
    BY <1>7, Shorter DEF StoreHandles, Handled
  <2>2. \/ UNCHANGED serving
        \/ mailbox' = mailbox /\ handling' = {} /\ stage' = "Idle"
    BY <1>7 DEF StoreHandles, Reply
  <2>3. root' = root /\ call' = call
    BY <1>7 DEF StoreHandles, actors
  <2> QED
    BY <2>1, <2>2, <2>3 DEF Handled, serving
<1>8. CASE StoreStops
  BY <1>8, Nothing DEF StoreStops, serving, Handled
<1>9. CASE DrainAsks
  <2>1. inbox' = Append(inbox, <<"Trace">>) \/ inbox' = inbox
    BY <1>9 DEF DrainAsks
  <2>2. inbox' \in Seq(Messages)
    <3>1. <<"Trace">> \in Messages /\ inbox \in Seq(Messages)
      BY Sent DEF Handled
    <3>2. Append(inbox, <<"Trace">>) \in Seq(Messages)
      BY <3>1, Longer
    <3> QED
      BY <2>1, <3>1, <3>2
  <2> QED
    BY <1>9, <2>2 DEF DrainAsks, serving, actors, Handled
<1>10. CASE DrainRefused \/ DropTasks \/ Exit
  BY <1>1, <1>10 DEF DrainRefused, DropTasks, Exit, serving, actors
<1>11. CASE Kill
  BY <1>11, Nothing DEF Kill, Handled
<1>12. CASE StopStore
  <2>1. inbox' \in Seq(Messages)
    BY <1>12, Sent, Longer DEF StopStore, Handled
  <2>2. stage = "Idle"
    BY <1>12 DEF StopStore, Handled
  <2> QED
    BY <1>12, <2>1, <2>2 DEF StopStore, serving, Handled
<1>13. CASE StopListener \/ RootStops \/ ListenerStops
  BY <1>13 DEF StopListener, RootStops, ListenerStops, serving, Handled
<1>14. CASE UNCHANGED vars
  BY <1>1, <1>14 DEF vars, serving, actors
<1> QED
  BY <1>2, <1>3, <1>4, <1>5, <1>6, <1>7, <1>8, <1>9, <1>10, <1>11, <1>12, <1>13, <1>14
  DEF Next, ReadStep, RootStep, StoreStep, DrainStep, ConnectRefused, RouterAnswers, RouterTimesOut

(* The store stops last and only when it is told to; nothing is put to it  *)
(* after that.                                                             *)
LEMMA LivesStep ==
  ASSUME Handled, Lives, [Next]_vars
  PROVE  Lives'
<1>1. ASSUME UNCHANGED <<inbox, open, closed, root, listener, store, process>> PROVE Lives'
  BY <1>1 DEF Lives
<1>2. ASSUME NEW c \in Clients,
             Connect(c) \/ Admit(c) \/ ReadMeta(c) \/ ReadQuery(c) \/ Refuse(c) \/ Write(c) \/ HangUp(c)
      PROVE  Lives'
  BY <1>1, <1>2 DEF Connect, Admit, ReadMeta, ReadQuery, Refuse, Write, HangUp, windows, actors
<1>3. ASSUME NEW m \in Messages, m # <<"Stop">>, inbox' = Append(inbox, m) \/ inbox' = inbox,
             store = "Running", UNCHANGED <<open, closed, root, listener, store, process>>
      PROVE  Lives'
  <2>1. <<"Stop">> \in Queued(inbox') => <<"Stop">> \in Queued(inbox)
    <3>1. inbox \in Seq(Messages)
      BY DEF Handled
    <3>2. Queued(Append(inbox, m)) = Queued(inbox) \cup {m}
      BY <3>1, Longer
    <3> QED
      BY <1>3, <3>2
  <2> QED
    BY <1>3, <2>1 DEF Lives
<1>4. CASE Take
  <2> DEFINE c == Head(mailbox)
  <2>1. c \in Queriers /\ store = "Running"
    BY <1>4, Shorter DEF Take, Handled, Lives
  <2>2. UNCHANGED <<open, closed, root, listener, store, process>>
    BY <1>4 DEF Take, windows, actors
  <2>3. CASE c \in Witnesses
    BY <1>1, <1>4, <2>2, <2>3 DEF Take
  <2>4. CASE c \notin Witnesses
    <3>1. inbox' = Append(inbox, <<"Record", c>>)
      BY <1>4, <2>4 DEF Take
    <3>2. <<"Record", c>> \in Messages /\ <<"Record", c>> # <<"Stop">>
      BY <2>1, <2>4, Sent DEF Queriers
    <3> QED
      BY <1>3, <2>1, <2>2, <3>1, <3>2
  <2> QED
    BY <2>3, <2>4
<1>5. CASE ConnectReturns \/ DrainRefused
  BY <1>1, <1>5 DEF ConnectReturns, DrainRefused, windows, actors
<1>6. ASSUME NEW fails, CallEnds(fails) PROVE Lives'
  <2>1. UNCHANGED <<open, closed, root, listener, store, process>>
    BY <1>6 DEF CallEnds, windows, actors
  <2>2. CASE inbox' = inbox
    BY <1>1, <2>1, <2>2
  <2>3. CASE inbox' # inbox
    <3>1. PICK c \in handling : stage = "Router" /\ inbox' = Append(inbox, <<"Observe", c>>)
      BY <1>6, <2>3 DEF CallEnds
    <3>2. <<"Observe", c>> \in Messages /\ <<"Observe", c>> # <<"Stop">> /\ store = "Running"
      BY <3>1, Sent DEF Handled, Lives
    <3> QED
      BY <1>3, <2>1, <3>1, <3>2
  <2> QED
    BY <2>2, <2>3
<1>7. CASE StoreHandles
  <2>1. /\ Queued(inbox') \subseteq Queued(inbox)
        /\ store = "Running"
    BY <1>7, Shorter DEF StoreHandles, Handled
  <2>2. UNCHANGED <<closed, root, listener, store, process>>
    BY <1>7 DEF StoreHandles, actors
  <2> QED
    BY <2>1, <2>2 DEF Lives
<1>8. CASE StoreStops
  <2>1. <<"Stop">> \in Queued(inbox)
    BY <1>8, Shorter DEF StoreStops, Handled
  <2>2. /\ inbox' = <<>> /\ open' = {} /\ store' = "Stopped" /\ root' = root /\ process' = process
        /\ root \in {"Waiting", "Stopped"}
    BY <1>8, <2>1 DEF StoreStops, Lives
  <2>3. Queued(inbox') = {}
    BY <2>2, Nothing
  <2>4. process # "Serving"
    BY <2>2 DEF Lives
  <2> QED
    BY <2>2, <2>3, <2>4 DEF Lives
<1>9. CASE DrainAsks
  <2>1. UNCHANGED <<open, closed, root, listener, store, process>>
    BY <1>9 DEF DrainAsks, windows, actors
  <2>2. CASE inbox' = inbox
    BY <1>1, <2>1, <2>2
  <2>3. CASE inbox' # inbox
    <3>1. store = "Running" /\ inbox' = Append(inbox, <<"Trace">>)
      BY <1>9, <2>3 DEF DrainAsks
    <3>2. <<"Trace">> \in Messages /\ <<"Trace">> # <<"Stop">>
      BY Sent
    <3> QED
      BY <1>3, <2>1, <3>1, <3>2
  <2> QED
    BY <2>2, <2>3
<1>10. CASE Kill
  BY <1>10 DEF Kill, windows, Lives
<1>11. CASE StopListener
  BY <1>11 DEF StopListener, windows, Lives
<1>12. CASE StopStore
  BY <1>12 DEF StopStore, windows, Lives
<1>13. CASE RootStops \/ ListenerStops
  BY <1>13 DEF RootStops, ListenerStops, windows, Lives
<1>14. CASE DropTasks \/ Exit
  BY <1>14 DEF DropTasks, Exit, windows, actors, Lives
<1>15. CASE UNCHANGED vars
  BY <1>1, <1>15 DEF vars, windows, actors
<1> QED
  BY <1>2, <1>4, <1>5, <1>6, <1>7, <1>8, <1>9, <1>10, <1>11, <1>12, <1>13, <1>14, <1>15
  DEF Next, ReadStep, RootStep, StoreStep, DrainStep, ConnectRefused, RouterAnswers, RouterTimesOut

(* A connection moves one at a time, to a state of its own.                *)
LEMMA Moved ==
  ASSUME NEW c \in Clients, NEW state,
         connection \in [Clients -> {"Away", "Accepted"} \cup Admitted \cup Ended],
         state \in {"Accepted"} \cup Admitted \cup Ended,
         connection' = [connection EXCEPT ![c] = state]
  PROVE  /\ connection' \in [Clients -> {"Away", "Accepted"} \cup Admitted \cup Ended]
         /\ connection'[c] = state
         /\ \A d \in Clients : d # c => connection'[d] = connection[d]
  OBVIOUS

(* What a message is about is told by its first word.                      *)
LEMMA MessageForms ==
  ASSUME NEW m \in Messages
  PROVE  \/ m = <<"Trace">> \/ m = <<"Stop">>
         \/ \E c \in Recorders : m = <<"Record", c>> /\ m[1] = "Record" /\ m[2] = c
         \/ \E c \in Witnesses : m = <<"Observe", c>> /\ m[1] = "Observe" /\ m[2] = c
  BY DEF Messages

(* A recorder is answered when its window is open, and a window that is    *)
(* flushed stays known.                                                    *)
LEMMA AnswersStep ==
  ASSUME Handled, Lives, Answers, [Next]_vars
  PROVE  Answers'
<1>1. ASSUME UNCHANGED <<connection, open, closed>> PROVE Answers'
  BY <1>1 DEF Answers
<1>2. ASSUME NEW c \in Clients, NEW state \in {"Accepted"} \cup Admitted \cup Ended,
             connection' = [connection EXCEPT ![c] = state],
             state \in {"Writing", "Answered"} /\ c \in Recorders => c \in open' \cup closed',
             open \subseteq open', open' \subseteq Recorders, closed' = closed
      PROVE  Answers'
  <2>1. /\ connection' \in [Clients -> {"Away", "Accepted"} \cup Admitted \cup Ended]
        /\ connection'[c] = state
        /\ \A d \in Clients : d # c => connection'[d] = connection[d]
    BY <1>2, Moved DEF Answers
  <2>2. Recorders \subseteq Clients
    BY DEF Clients
  <2> QED
    BY <1>2, <2>1, <2>2 DEF Answers
<1>3. ASSUME NEW c \in Clients,
             Connect(c) \/ Admit(c) \/ ReadMeta(c) \/ ReadQuery(c) \/ Refuse(c) \/ Write(c) \/ HangUp(c)
      PROVE  Answers'
  <2>1. UNCHANGED windows
    BY <1>3 DEF Connect, Admit, ReadMeta, ReadQuery, Refuse, Write, HangUp
  <2>2. CASE ReadMeta(c)
    <3>1. c \notin Recorders /\ connection' = [connection EXCEPT ![c] = "Writing"]
      BY <2>2, DaemonAssumption DEF ReadMeta, Step
    <3> QED
      BY <1>2, <2>1, <3>1 DEF Admitted, Ended, windows, Answers
  <2>3. CASE Write(c)
    <3>1. connection[c] = "Writing" /\ connection' = [connection EXCEPT ![c] = "Answered"]
      BY <2>3 DEF Write, Step
    <3>2. c \in Recorders => c \in open \cup closed
      BY <3>1 DEF Answers
    <3> QED
      BY <1>2, <2>1, <3>1, <3>2 DEF Admitted, Ended, windows, Answers
  <2>4. CASE ~ReadMeta(c) /\ ~Write(c)
    <3>1. \E state \in {"Accepted", "Reading", "Asked", "Failed"} :
             connection' = [connection EXCEPT ![c] = state]
      BY <1>3, <2>4 DEF Connect, Admit, ReadQuery, Refuse, HangUp, Step
    <3> QED
      BY <1>2, <2>1, <3>1 DEF Admitted, Ended, windows, Answers
  <2> QED
    BY <2>2, <2>3, <2>4
<1>4. CASE Take \/ ConnectReturns \/ DrainAsks \/ DrainRefused \/ Kill \/ StopListener
        \/ StopStore \/ RootStops \/ ListenerStops \/ Exit
  BY <1>1, <1>4 DEF Take, ConnectReturns, DrainAsks, DrainRefused, Kill, StopListener, StopStore,
     RootStops, ListenerStops, Exit, serving, windows
<1>5. ASSUME NEW fails, CallEnds(fails) PROVE Answers'
  <2>1. open' = open /\ closed' = closed
    BY <1>5 DEF CallEnds, windows
  <2>2. CASE connection' = connection
    BY <1>1, <2>1, <2>2
  <2>3. CASE connection' # connection
    <3>1. PICK c \in handling : connection' = [connection EXCEPT ![c] = "Failed"]
      BY <1>5, <2>3 DEF CallEnds, Reply, serving
    <3>2. c \in Clients
      BY DEF Handled, Queriers, Clients
    <3> QED
      BY <1>2, <2>1, <3>1, <3>2 DEF Admitted, Ended, Answers
  <2> QED
    BY <2>2, <2>3
<1>6. CASE StoreHandles
  <2> DEFINE m == Head(inbox)
  <2>1. m \in Messages /\ m # <<"Stop">> /\ closed' = closed
    BY <1>6, Shorter DEF StoreHandles, Handled
  <2>2. CASE m = <<"Trace">>
    BY <1>1, <1>6, <2>1, <2>2 DEF StoreHandles, serving
  <2>3. CASE m # <<"Trace">>
    <3>1. /\ open' = IF m[1] = "Record" THEN open \cup {m[2]} ELSE open
          /\ \/ m[2] \in handling /\ connection' = [connection EXCEPT ![m[2]] = "Writing"]
             \/ connection' = connection
      BY <1>6, <2>3 DEF StoreHandles, Reply, serving
    <3>2. CASE \E c \in Recorders : m[1] = "Record" /\ m[2] = c
      <4>1. PICK c \in Recorders : m[1] = "Record" /\ m[2] = c
        BY <3>2
      <4>2. c \in Clients /\ open' = open \cup {c} /\ open' \subseteq Recorders
        BY <3>1, <4>1 DEF Clients, Answers
      <4>3. CASE connection' = connection
        BY <2>1, <4>2, <4>3 DEF Answers
      <4>4. CASE connection' = [connection EXCEPT ![c] = "Writing"]
        BY <1>2, <2>1, <4>2, <4>4 DEF Admitted, Ended
      <4> QED
        BY <3>1, <4>1, <4>3, <4>4
    <3>3. CASE \E c \in Witnesses : m[1] = "Observe" /\ m[2] = c
      <4>1. PICK c \in Witnesses : m[1] = "Observe" /\ m[2] = c
        BY <3>3
      <4>2. c \in Clients /\ c \notin Recorders /\ open' = open
        BY <3>1, <4>1, DaemonAssumption DEF Clients
      <4>3. CASE connection' = connection
        BY <1>1, <2>1, <4>2, <4>3
      <4>4. CASE connection' = [connection EXCEPT ![c] = "Writing"]
        BY <1>2, <2>1, <4>2, <4>4 DEF Admitted, Ended, Answers
      <4> QED
        BY <3>1, <4>1, <4>3, <4>4
    <3> HIDE DEF m
    <3> QED
      BY <2>1, <2>3, <3>2, <3>3, MessageForms
  <2> QED
    BY <2>2, <2>3
<1>7. CASE StoreStops
  BY <1>7 DEF StoreStops, serving, Answers
<1>8. CASE DropTasks
  <2>1. /\ connection' \in [Clients -> {"Away", "Accepted"} \cup Admitted \cup Ended]
        /\ \A c \in Recorders : connection'[c] \in {"Writing", "Answered"}
                                => connection[c] \in {"Writing", "Answered"}
    BY <1>8 DEF DropTasks, Admitted, Ended, Answers, Clients
  <2>2. Recorders \subseteq Clients /\ open' = open /\ closed' = closed
    BY <1>8 DEF DropTasks, windows, Clients
  <2> QED
    BY <2>1, <2>2 DEF Answers
<1>9. CASE UNCHANGED vars
  BY <1>1, <1>9 DEF vars, serving, windows
<1> QED
  BY <1>3, <1>4, <1>5, <1>6, <1>7, <1>8, <1>9
  DEF Next, ReadStep, RootStep, StoreStep, DrainStep, ConnectRefused, RouterAnswers, RouterTimesOut

(* Whoever awaits the store has a message there that it has not taken.     *)
LEMMA AwaitedStep ==
  ASSUME Handled, Lives, Awaited, [Next]_vars
  PROVE  Awaited'
<1>1. ASSUME UNCHANGED <<stage, handling, drain, store>>, Queued(inbox) \subseteq Queued(inbox')
      PROVE  Awaited'
  BY <1>1 DEF Awaited
<1>2. ASSUME NEW c \in Clients,
             Connect(c) \/ Admit(c) \/ ReadMeta(c) \/ ReadQuery(c) \/ Refuse(c) \/ Write(c) \/ HangUp(c)
      PROVE  Awaited'
  BY <1>1, <1>2 DEF Connect, Admit, ReadMeta, ReadQuery, Refuse, Write, HangUp, actors
<1>3. CASE Take
  <2> DEFINE c == Head(mailbox)
  <2>1. c \in Queriers /\ handling' = {c} /\ drain' = drain /\ store' = store
    BY <1>3, Shorter DEF Take, Handled, actors
  <2>2. CASE c \in Witnesses
    BY <1>3, <2>1, <2>2 DEF Take, Awaited
  <2>3. CASE c \notin Witnesses
    <3>1. c \in Recorders /\ inbox' = Append(inbox, <<"Record", c>>)
      BY <1>3, <2>1, <2>3 DEF Take, Queriers
    <3>2. <<"Record", c>> \in Messages /\ inbox \in Seq(Messages)
      BY <3>1, Sent DEF Handled
    <3>3. Queued(Append(inbox, <<"Record", c>>)) = Queued(inbox) \cup {<<"Record", c>>}
      BY <3>2, Longer
    <3> QED
      BY <2>1, <3>1, <3>3 DEF Awaited
  <2> QED
    BY <2>2, <2>3
<1>4. CASE ConnectReturns \/ StopListener \/ RootStops \/ DropTasks \/ Exit
  BY <1>1, <1>4 DEF ConnectReturns, StopListener, RootStops, DropTasks, Exit, serving, actors
<1>5. ASSUME NEW fails, CallEnds(fails) PROVE Awaited'
  <2>1. drain' = drain /\ store' = store
    BY <1>5 DEF CallEnds, actors
  <2>2. CASE UNCHANGED <<serving, inbox>>
    BY <1>1, <2>1, <2>2 DEF serving
  <2>3. CASE \E c \in handling : Reply(c, "Failed") /\ UNCHANGED inbox
    BY <2>1, <2>3 DEF Reply, Awaited
  <2>4. CASE \E c \in handling :
               /\ stage = "Router" /\ inbox' = Append(inbox, <<"Observe", c>>) /\ handling' = handling
    <3>1. PICK c \in handling : /\ stage = "Router"
                                /\ inbox' = Append(inbox, <<"Observe", c>>) /\ handling' = handling
      BY <2>4
    <3>2. <<"Observe", c>> \in Messages /\ inbox \in Seq(Messages)
      BY <3>1, Sent DEF Handled
    <3>3. Queued(Append(inbox, <<"Observe", c>>)) = Queued(inbox) \cup {<<"Observe", c>>}
      BY <3>2, Longer
    <3> QED
      BY <2>1, <3>1, <3>3 DEF Awaited
  <2> QED
    BY <1>5, <2>2, <2>3, <2>4 DEF CallEnds
<1>6. CASE StoreHandles
  <2> DEFINE m == Head(inbox)
  <2>1. /\ m \in Messages /\ m # <<"Stop">>
        /\ Queued(inbox) = Queued(inbox') \cup {m}
    BY <1>6, Shorter DEF StoreHandles, Handled
  <2>2. store' = store
    BY <1>6 DEF StoreHandles, actors
  <2>3. CASE m = <<"Trace">>
    <3>1. /\ UNCHANGED serving
          /\ drain' # "Asking"
      BY <1>6, <2>3 DEF StoreHandles
    <3>2. \A c : <<"Record", c>> # m /\ <<"Observe", c>> # m
      BY <2>3
    <3> QED
      BY <2>1, <3>1, <3>2 DEF Awaited, serving
  <2>4. CASE m # <<"Trace">>
    <3>1. /\ drain' = drain
          /\ \/ m[2] \in handling /\ stage' = "Idle"
             \/ m[2] \notin handling /\ UNCHANGED serving
      BY <1>6, <2>4 DEF StoreHandles, Reply
    <3>2. stage' # "Idle" =>
            \A c \in handling : <<"Record", c>> # m /\ <<"Observe", c>> # m
      BY <3>1 DEF serving
    <3>3. stage' = "Store" =>
            \E c \in handling' : \/ <<"Record", c>> \in Queued(inbox')
                                 \/ <<"Observe", c>> \in Queued(inbox')
      BY <2>1, <3>1, <3>2 DEF serving, Awaited
    <3>4. drain' = "Asking" => <<"Trace">> \in Queued(inbox') \/ store' = "Stopped"
      BY <2>1, <2>2, <2>4, <3>1 DEF Awaited
    <3> QED
      BY <3>3, <3>4 DEF Awaited
  <2> QED
    BY <2>3, <2>4
<1>7. CASE StoreStops
  <2>1. <<"Stop">> \in Queued(inbox)
    BY <1>7, Shorter DEF StoreStops, Handled
  <2>2. stage = "Idle" /\ stage' = stage /\ store' = "Stopped"
    BY <1>7, <2>1 DEF StoreStops, serving, Handled, Lives
  <2> QED
    BY <2>2 DEF Awaited
<1>8. CASE DrainAsks
  <2>1. /\ UNCHANGED serving /\ store' = store
        /\ \/ drain' = "Asking" /\ inbox' = Append(inbox, <<"Trace">>)
           \/ drain' = "Done" /\ inbox' = inbox
    BY <1>8 DEF DrainAsks, actors
  <2>2. <<"Trace">> \in Messages /\ inbox \in Seq(Messages)
    BY Sent DEF Handled
  <2>3. Queued(Append(inbox, <<"Trace">>)) = Queued(inbox) \cup {<<"Trace">>}
    BY <2>2, Longer
  <2> QED
    BY <2>1, <2>3 DEF serving, Awaited
<1>9. CASE DrainRefused \/ ListenerStops
  BY <1>9 DEF DrainRefused, ListenerStops, serving, Awaited
<1>10. CASE Kill
  BY <1>10 DEF Kill, Awaited
<1>11. CASE StopStore
  <2>1. <<"Stop">> \in Messages /\ inbox \in Seq(Messages)
    BY Sent DEF Handled
  <2>2. Queued(Append(inbox, <<"Stop">>)) = Queued(inbox) \cup {<<"Stop">>}
    BY <2>1, Longer
  <2> QED
    BY <1>1, <1>11, <2>2 DEF StopStore, serving
<1>12. CASE UNCHANGED vars
  BY <1>1, <1>12 DEF vars, serving, actors
<1> QED
  BY <1>2, <1>3, <1>4, <1>5, <1>6, <1>7, <1>8, <1>9, <1>10, <1>11, <1>12
  DEF Next, ReadStep, RootStep, StoreStep, DrainStep, ConnectRefused, RouterAnswers, RouterTimesOut

(* A connection that asks the root is put into its mailbox once, and is    *)
(* there or in the handler until it ends.                                  *)
LEMMA AskedOnceStep ==
  ASSUME Handled, Lives, Answers, AskedOnce, [Next]_vars
  PROVE  AskedOnce'
<1> DEFINE Waiting == {c \in Clients : connection[c] = "Asked"}
<1>1. ASSUME UNCHANGED <<connection, mailbox, handling>>, root' = "Running" => root = "Running"
      PROVE  AskedOnce'
  BY <1>1 DEF AskedOnce
<1>2. ASSUME NEW c \in Clients, NEW state \in {"Accepted"} \cup Admitted \cup Ended,
             connection' = [connection EXCEPT ![c] = state]
      PROVE  {d \in Clients : connection'[d] = "Asked"}
               = IF state = "Asked" THEN Waiting \cup {c} ELSE Waiting \ {c}
  <2>1. /\ connection'[c] = state
        /\ \A d \in Clients : d # c => connection'[d] = connection[d]
    BY <1>2, Moved DEF Answers
  <2> QED
    BY <2>1
<1>3. ASSUME NEW c \in Clients, Connect(c) \/ Admit(c) \/ ReadMeta(c) \/ Write(c) \/ HangUp(c)
      PROVE  AskedOnce'
  <2>1. PICK state \in {"Accepted", "Reading", "Writing", "Answered", "Failed"} :
          connection' = [connection EXCEPT ![c] = state]
    BY <1>3 DEF Connect, Admit, ReadMeta, Write, HangUp, Step
  <2>2. connection[c] # "Asked" /\ UNCHANGED <<mailbox, handling, root>>
    BY <1>3 DEF Connect, Admit, ReadMeta, Write, HangUp, Step, actors
  <2>3. {d \in Clients : connection'[d] = "Asked"} = Waiting
    BY <1>2, <2>1, <2>2 DEF Admitted, Ended
  <2> QED
    BY <2>2, <2>3 DEF AskedOnce
<1>4. ASSUME NEW c \in Clients, ReadQuery(c) PROVE AskedOnce'
  <2>1. /\ connection' = [connection EXCEPT ![c] = "Asked"] /\ connection[c] = "Reading"
        /\ mailbox' = Append(mailbox, c) /\ handling' = handling
        /\ root = "Running" /\ c \in Queriers
    BY <1>4 DEF ReadQuery, Step, Queriers
  <2>2. Waiting = handling \cup Queued(mailbox)
    BY <2>1 DEF AskedOnce
  <2>3. c \notin handling \cup Queued(mailbox)
    BY <2>1, <2>2
  <2>4. mailbox \in Seq(Queriers) /\ OnceEach(mailbox)
    BY DEF Handled, AskedOnce
  <2>5. Queued(mailbox') = Queued(mailbox) \cup {c} /\ OnceEach(mailbox')
    BY <2>1, <2>3, <2>4, Longer
  <2>6. {d \in Clients : connection'[d] = "Asked"} = Waiting \cup {c}
    BY <1>2, <2>1 DEF Admitted
  <2> QED
    BY <2>1, <2>2, <2>3, <2>5, <2>6 DEF AskedOnce
<1>5. ASSUME NEW c \in Clients, Refuse(c) PROVE AskedOnce'
  BY <1>5 DEF Refuse, actors, AskedOnce
<1>6. CASE Take
  <2> DEFINE c == Head(mailbox)
  <2>1. /\ handling' = {c} /\ mailbox' = Tail(mailbox) /\ handling = {}
        /\ connection' = connection /\ root' = root
    BY <1>6 DEF Take, Handled, actors
  <2>2. mailbox \in Seq(Queriers) /\ mailbox # <<>> /\ OnceEach(mailbox)
    BY <1>6 DEF Take, Handled, AskedOnce
  <2>3. /\ Queued(mailbox) = Queued(mailbox') \cup {c}
        /\ OnceEach(mailbox') /\ c \notin Queued(mailbox')
    BY <2>1, <2>2, Shorter
  <2> QED
    BY <2>1, <2>3 DEF AskedOnce
<1>7. CASE ConnectReturns \/ StopListener \/ RootStops \/ Exit \/ DrainAsks \/ DrainRefused
        \/ StoreStops \/ StopStore \/ ListenerStops
  BY <1>1, <1>7 DEF ConnectReturns, StopListener, RootStops, Exit, DrainAsks, DrainRefused,
     StoreStops, StopStore, ListenerStops, serving, actors
<1>8. ASSUME NEW c \in handling, NEW outcome \in {"Writing", "Failed"}, Reply(c, outcome), root' = root
      PROVE  AskedOnce'
  <2>1. /\ connection' = [connection EXCEPT ![c] = outcome] /\ handling' = {} /\ mailbox' = mailbox
        /\ handling = {c} /\ c \in Clients
    BY <1>8 DEF Reply, Handled, Queriers, Clients
  <2>2. {d \in Clients : connection'[d] = "Asked"} = Waiting \ {c}
    BY <1>2, <2>1 DEF Admitted, Ended
  <2> QED
    BY <1>8, <2>1, <2>2 DEF AskedOnce
<1>9. ASSUME NEW fails, CallEnds(fails) PROVE AskedOnce'
  <2>1. root' = root
    BY <1>9 DEF CallEnds, actors
  <2>2. \/ UNCHANGED <<connection, mailbox, handling>>
        \/ \E c \in handling : Reply(c, "Failed")
    BY <1>9 DEF CallEnds, serving
  <2> QED
    BY <1>1, <1>8, <2>1, <2>2 DEF Admitted, Ended
<1>10. CASE StoreHandles
  <2>1. /\ root' = root
        /\ \/ UNCHANGED <<connection, mailbox, handling>>
           \/ \E c \in handling : Reply(c, "Writing")
    BY <1>10 DEF StoreHandles, serving, actors
  <2> QED
    BY <1>1, <1>8, <2>1 DEF Admitted, Ended
<1>11. CASE Kill
  BY <1>11, Nothing DEF Kill, AskedOnce
<1>12. CASE DropTasks
  <2>1. root # "Running" /\ root' = root /\ UNCHANGED <<mailbox, handling>>
    BY <1>12 DEF DropTasks, actors, Lives
  <2> QED
    BY <2>1 DEF AskedOnce
<1>13. CASE UNCHANGED vars
  BY <1>1, <1>13 DEF vars, serving, actors
<1> QED
  BY <1>3, <1>4, <1>5, <1>6, <1>7, <1>9, <1>10, <1>11, <1>12, <1>13
  DEF Next, ReadStep, RootStep, StoreStep, DrainStep, ConnectRefused, RouterAnswers, RouterTimesOut

(* Only Admit takes a permit, and only when one is left.                   *)
LEMMA PermittedStep ==
  ASSUME Handled, Answers, AskedOnce, Permitted, [Next]_vars
  PROVE  Permitted'
<1>1. ASSUME Holding' \subseteq Holding PROVE Permitted'
  <2>1. /\ IsFiniteSet(Holding') /\ Cardinality(Holding') <= Cardinality(Holding)
        /\ Cardinality(Holding') \in Nat /\ Cardinality(Holding) \in Nat
    BY <1>1, FS_Subset, FS_CardinalityType DEF Permitted
  <2> QED
    BY <2>1, DaemonAssumption DEF Permitted
<1>2. ASSUME NEW c \in Clients, NEW state \in {"Accepted"} \cup Admitted \cup Ended,
             connection' = [connection EXCEPT ![c] = state]
      PROVE  /\ Holding' \subseteq Holding \cup {c}
             /\ c \in Holding \/ state \notin Admitted => Holding' \subseteq Holding
  <2>1. /\ connection'[c] = state
        /\ \A d \in Clients : d # c => connection'[d] = connection[d]
    BY <1>2, Moved DEF Answers
  <2> QED
    BY <2>1 DEF Holding
<1>3. ASSUME NEW c \in Clients, Admit(c) PROVE Permitted'
  <2>1. /\ Holding' \subseteq Holding \cup {c} /\ Cardinality(Holding) < Permits
        /\ IsFiniteSet(Holding)
    BY <1>2, <1>3 DEF Admit, Step, Permitted, Admitted
  <2>2. /\ IsFiniteSet(Holding \cup {c}) /\ Cardinality(Holding \cup {c}) <= Cardinality(Holding) + 1
        /\ Cardinality(Holding) \in Nat
    <3>1. Cardinality(Holding) \in Nat
      BY <2>1, FS_CardinalityType
    <3>2. /\ IsFiniteSet(Holding \cup {c})
          /\ Cardinality(Holding \cup {c})
               = IF c \in Holding THEN Cardinality(Holding) ELSE Cardinality(Holding) + 1
      BY <2>1, FS_AddElement
    <3> QED
      BY <3>1, <3>2
  <2>3. /\ IsFiniteSet(Holding') /\ Cardinality(Holding') <= Cardinality(Holding \cup {c})
        /\ Cardinality(Holding') \in Nat /\ Cardinality(Holding \cup {c}) \in Nat
    BY <2>1, <2>2, FS_Subset, FS_CardinalityType
  <2> QED
    BY <2>1, <2>2, <2>3, DaemonAssumption DEF Permitted
<1>4. ASSUME NEW c \in Clients,
             Connect(c) \/ ReadMeta(c) \/ ReadQuery(c) \/ Refuse(c) \/ Write(c) \/ HangUp(c)
      PROVE  Permitted'
  <2>1. PICK state \in {"Accepted", "Asked", "Writing"} \cup Ended :
          /\ connection' = [connection EXCEPT ![c] = state]
          /\ state \in Admitted => connection[c] = "Reading"
    BY <1>4 DEF Connect, ReadMeta, ReadQuery, Refuse, Write, HangUp, Step, Admitted, Ended
  <2>2. state \in Admitted => c \in Holding
    BY <2>1 DEF Holding, Admitted
  <2> QED
    BY <1>1, <1>2, <2>1, <2>2 DEF Admitted, Ended
<1>5. CASE connection' = connection
  BY <1>1, <1>5 DEF Holding
<1>6. ASSUME NEW c \in handling, NEW outcome \in {"Writing", "Failed"}, Reply(c, outcome)
      PROVE  Permitted'
  <2>1. c \in Clients /\ connection' = [connection EXCEPT ![c] = outcome]
    BY <1>6 DEF Reply, Handled, Queriers, Clients
  <2>2. c \in Holding
    BY <1>6, <2>1 DEF Handled, AskedOnce, Holding, Admitted
  <2> QED
    BY <1>1, <1>2, <2>1, <2>2 DEF Admitted, Ended
<1>7. ASSUME NEW fails, CallEnds(fails) PROVE Permitted'
  <2>1. connection' = connection \/ \E c \in handling : Reply(c, "Failed")
    BY <1>7 DEF CallEnds, serving
  <2> QED
    BY <1>5, <1>6, <2>1 DEF Admitted, Ended
<1>8. CASE StoreHandles
  <2>1. connection' = connection \/ \E c \in handling : Reply(c, "Writing")
    BY <1>8 DEF StoreHandles, serving
  <2> QED
    BY <1>5, <1>6, <2>1 DEF Admitted, Ended
<1>9. CASE DropTasks
  BY <1>1, <1>9 DEF DropTasks, Holding, Admitted, Ended
<1>10. CASE Take \/ ConnectReturns \/ StopListener \/ RootStops \/ Exit \/ DrainAsks \/ DrainRefused
        \/ StoreStops \/ StopStore \/ ListenerStops \/ Kill \/ UNCHANGED vars
  BY <1>5, <1>10 DEF Take, ConnectReturns, StopListener, RootStops, Exit, DrainAsks, DrainRefused,
     StoreStops, StopStore, ListenerStops, Kill, serving, vars
<1> QED
  BY <1>3, <1>4, <1>7, <1>8, <1>9, <1>10
  DEF Next, ReadStep, RootStep, StoreStep, DrainStep, ConnectRefused, RouterAnswers, RouterTimesOut

-----------------------------------------------------------------------------
Inductive == Handled /\ Lives /\ Answers /\ Awaited /\ AskedOnce /\ Permitted

LEMMA InductiveStart == Init => Inductive
<1> SUFFICES ASSUME Init PROVE Inductive
  OBVIOUS
<1>1. Holding = {} /\ IsFiniteSet({}) /\ Cardinality({}) = 0
  BY FS_EmptySet DEF Init, Holding, Admitted
<1>2. Permitted
  BY <1>1, DaemonAssumption DEF Permitted
<1>3. Handled /\ AskedOnce
  BY Nothing DEF Init, Handled, AskedOnce
<1>4. Lives /\ Awaited
  BY Nothing DEF Init, Lives, Awaited
<1>5. Answers
  <2>1. connection = [c \in Clients |-> "Away"] /\ open = {} /\ closed = {}
    BY DEF Init
  <2>2. \A c \in Recorders : connection[c] = "Away"
    BY <2>1 DEF Clients
  <2> QED
    BY <2>1, <2>2 DEF Answers
<1> QED
  BY <1>2, <1>3, <1>4, <1>5 DEF Inductive

LEMMA DaemonIsSound == Spec => []Inductive
<1>1. Inductive /\ [Next]_vars => Inductive'
  BY HandledStep, LivesStep, AnswersStep, AwaitedStep, AskedOnceStep, PermittedStep DEF Inductive
<1> QED
  BY <1>1, InductiveStart, PTL DEF Spec

(* The type invariant of the daemon, for any connections and permits: none *)
(* is read without a permit, none waits for the root outside its mailbox   *)
(* and its handler, and no handler or drain waits for a message the store  *)
(* does not have.                                                          *)
THEOREM DaemonTypeCorrect == Spec => []TypeOK
<1>1. Inductive => TypeOK
  <2> SUFFICES ASSUME Inductive PROVE TypeOK
    OBVIOUS
  <2>1. /\ connection \in [Clients -> {"Away", "Accepted"} \cup Admitted \cup Ended]
        /\ Cardinality(Holding) <= Permits
        /\ open \cup closed \subseteq Recorders
    BY DEF Inductive, Answers, Permitted
  <2>2. root = "Running" =>
          {c \in Clients : connection[c] = "Asked"}
            = handling \cup {mailbox[i] : i \in 1 .. Len(mailbox)}
    BY DEF Inductive, AskedOnce, Queued
  <2>3. Cardinality(handling) = IF stage = "Idle" THEN 0 ELSE 1
    <3>1. CASE stage = "Idle"
      BY <3>1, FS_EmptySet DEF Inductive, Handled
    <3>2. CASE stage # "Idle"
      <4>1. PICK c : handling = {c}
        BY <3>2 DEF Inductive, Handled
      <4> QED
        BY <3>2, <4>1, FS_Singleton
    <3> QED
      BY <3>1, <3>2
  <2>4. /\ stage # "Idle" => root = "Running"
        /\ stage = "Router" => call # "None"
    BY DEF Inductive, Handled
  <2>5. /\ stage = "Store" =>
             \E c \in handling : Pending(<<"Record", c>>) \/ Pending(<<"Observe", c>>)
        /\ drain = "Asking" => Pending(<<"Trace">>) \/ store = "Stopped"
    BY PendingIsQueued DEF Inductive, Awaited
  <2>6. /\ process = "Serving" <=> root = "Running"
        /\ process = "Serving" => listener = "Running" /\ store = "Running"
        /\ open \cap closed = {}
    BY DEF Inductive, Lives
  <2> QED
    BY <2>1, <2>2, <2>3, <2>4, <2>5, <2>6 DEF TypeOK
<1> QED
  BY <1>1, DaemonIsSound, PTL

(* A tree that was left to stop has flushed every window: what a recorder  *)
(* was answered, and what the store took from a handler that was aborted,  *)
(* StoppedMeansFlushed for any connections and permits.                    *)
THEOREM StopLosesNothing == Spec => []StoppedMeansFlushed
<1>1. Inductive => StoppedMeansFlushed
  <2> SUFFICES ASSUME Inductive PROVE StoppedMeansFlushed
    OBVIOUS
  <2>1. {c \in Recorders : connection[c] \in {"Writing", "Answered"}} \subseteq open \cup closed
    BY DEF Inductive, Answers
  <2>2. ASSUME root = "Stopped"
        PROVE  open = {} /\ \A c \in Clients : ~Pending(<<"Record", c>>)
    <3>1. open = {} /\ inbox = <<>>
      BY <2>2 DEF Inductive, Lives
    <3>2. Queued(inbox) = {}
      BY <3>1, Nothing
    <3> QED
      BY <3>1, <3>2, PendingIsQueued
  <2> QED
    BY <2>1, <2>2 DEF StoppedMeansFlushed
<1> QED
  BY <1>1, DaemonIsSound, PTL

-----------------------------------------------------------------------------
StopAt(n) == n \in 1 .. Len(inbox) /\ inbox[n] = <<"Stop">>

\* The stop of the store is still to be sent, by a root that waits for nobody,
\* or it is in the store's mailbox.
StopOnItsWay ==
    process = "Stopping" /\ store = "Running" =>
        \/ root \in {"StopListener", "StopStore"}
        \/ root = "Waiting" /\ \E n \in Nat : StopAt(n)

\* How it gets on: by one step of the root or one message of the store at a
\* time, and nobody else moves it, whatever they put into the mailbox.
StopGetsOn ==
    /\ root = "StopListener" => root' = IF RootStep THEN "StopStore" ELSE root
    /\ root = "StopStore" => root' = IF RootStep THEN "Waiting" ELSE root
    /\ \A n \in Nat : store = "Running" /\ StopAt(n) =>
         IF StoreStep THEN store' = "Stopped" \/ (n > 1 /\ StopAt(n - 1)') ELSE StopAt(n)'

\* What the steps of the others do to the mailbox of the store.
LEMMA OnlyAppends ==
  ASSUME Next, ~StoreStep
  PROVE  inbox' = inbox \/ \E m : inbox' = Append(inbox, m)
<1>1. CASE Take
  BY <1>1 DEF Take
<1>2. ASSUME NEW fails, CallEnds(fails)
      PROVE  inbox' = inbox \/ \E m : inbox' = Append(inbox, m)
  BY <1>2 DEF CallEnds
<1>3. CASE DrainAsks \/ StopStore
  BY <1>3 DEF DrainAsks, StopStore
<1>4. CASE ConnectReturns \/ DrainRefused \/ StopListener \/ RootStops \/ ListenerStops
           \/ Kill \/ DropTasks \/ Exit
  BY <1>4 DEF ConnectReturns, DrainRefused, StopListener, RootStops, ListenerStops, Kill,
     DropTasks, Exit
<1>5. ASSUME NEW c \in Clients,
             Connect(c) \/ Admit(c) \/ ReadMeta(c) \/ ReadQuery(c) \/ Refuse(c) \/ Write(c) \/ HangUp(c)
      PROVE  inbox' = inbox
  BY <1>5 DEF Connect, Admit, ReadMeta, ReadQuery, Refuse, Write, HangUp
<1> QED
  BY <1>1, <1>2, <1>3, <1>4, <1>5
  DEF Next, ReadStep, RootStep, DrainStep, ConnectRefused, RouterAnswers, RouterTimesOut

\* A stop in the mailbox keeps its place behind what is put there, and moves up
\* by each message the store handles.
LEMMA StopMoves ==
  ASSUME Handled, Next, NEW n \in Nat, store = "Running", StopAt(n)
  PROVE  IF StoreStep THEN store' = "Stopped" \/ (n > 1 /\ StopAt(n - 1)') ELSE StopAt(n)'
<1>1. inbox \in Seq(Messages) /\ Len(inbox) \in Nat /\ n \in 1 .. Len(inbox) /\ inbox[n] = <<"Stop">>
  BY DEF Handled, StopAt
<1>2. CASE ~StoreStep
  <2>1. CASE inbox' = inbox
    BY <1>2, <2>1 DEF StopAt
  <2>2. ASSUME NEW m, inbox' = Append(inbox, m) PROVE StopAt(n)'
    <3>1. Len(inbox') = Len(inbox) + 1 /\ inbox'[n] = inbox[n]
      BY <1>1, <2>2
    <3> QED
      BY <1>1, <3>1 DEF StopAt
  <2> QED
    BY <1>2, <2>1, <2>2, OnlyAppends
<1>3. CASE StoreHandles
  <2>1. inbox # <<>> /\ Head(inbox) # <<"Stop">> /\ inbox' = Tail(inbox)
    BY <1>3 DEF StoreHandles
  <2>2. /\ Head(inbox) = inbox[1] /\ Len(inbox') = Len(inbox) - 1
        /\ \A i \in 1 .. Len(inbox') : inbox'[i] = inbox[i + 1]
    BY <1>1, <2>1
  <2>3. n > 1 /\ n - 1 \in 1 .. Len(inbox')
    BY <1>1, <2>1, <2>2
  <2>4. inbox'[n - 1] = <<"Stop">>
    BY <1>1, <2>2, <2>3
  <2> QED
    BY <1>3, <2>3, <2>4 DEF StoreStep, StopAt
<1>4. CASE StoreStops
  BY <1>4 DEF StoreStep, StoreStops
<1> QED
  BY <1>2, <1>3, <1>4 DEF StoreStep

\* Only the root moves itself on.
LEMMA RootMoves ==
  ASSUME Lives, Next, root \in {"StopListener", "StopStore"}
  PROVE  IF RootStep THEN root' = (IF root = "StopListener" THEN "StopStore" ELSE "Waiting")
         ELSE root' = root
<1>1. CASE RootStep
  BY <1>1 DEF RootStep, Take, StopListener, StopStore, RootStops
<1>2. CASE ~RootStep
  <2>1. ~Kill
    BY DEF Kill, Lives
  <2> QED
    BY <1>2, <2>1 DEF Next, StoreStep, DrainStep, ReadStep, Connect, Admit, ReadMeta, ReadQuery,
       Refuse, Write, HangUp, StoreHandles, StoreStops, DrainAsks, DrainRefused, ListenerStops,
       ConnectReturns, ConnectRefused, RouterAnswers, RouterTimesOut, CallEnds, DropTasks, Exit, actors
<1> QED
  BY <1>1, <1>2

LEMMA StopStep ==
  ASSUME Handled, Lives, StopOnItsWay, [Next]_vars
  PROVE  StopOnItsWay' /\ [StopGetsOn]_vars
<1>1. CASE UNCHANGED vars
  BY <1>1 DEF vars, actors, StopOnItsWay, StopAt
<1>2. CASE Next
  <2>1. StopGetsOn
    BY <1>2, StopMoves, RootMoves DEF StopGetsOn
  <2>2. StopOnItsWay'
    <3> SUFFICES ASSUME process' = "Stopping", store' = "Running"
                 PROVE  \/ root' \in {"StopListener", "StopStore"}
                        \/ root' = "Waiting" /\ \E n \in Nat : StopAt(n)'
      BY DEF StopOnItsWay
    <3>1. CASE Kill
      BY <3>1 DEF Kill
    <3>2. CASE StopStore
      <4>1. Len(inbox) \in Nat /\ inbox' = Append(inbox, <<"Stop">>) /\ inbox \in Seq(Messages)
            /\ root' = "Waiting"
        BY <3>2 DEF StopStore, Handled
      <4>2. Len(inbox') = Len(inbox) + 1 /\ inbox'[Len(inbox) + 1] = <<"Stop">>
        BY <4>1
      <4>3. PICK n \in Nat : n = Len(inbox) + 1
        BY <4>1
      <4>4. StopAt(n)'
        BY <4>1, <4>2, <4>3 DEF StopAt
      <4> QED
        BY <4>1, <4>4
    <3>3. CASE ~Kill /\ ~StopStore
      <4>1. process = "Stopping"
        BY <1>2, <3>3 DEF Next, RootStep, StoreStep, DrainStep, ReadStep, Connect, Admit, ReadMeta,
           ReadQuery, Refuse, Write, HangUp, Take, StopListener, RootStops, StoreHandles, StoreStops,
           DrainAsks, DrainRefused, ListenerStops, ConnectReturns, ConnectRefused, RouterAnswers,
           RouterTimesOut, CallEnds, DropTasks, Exit, actors
      <4>2. store = "Running"
        BY <1>2 DEF Lives, Next, RootStep, StoreStep, DrainStep, ReadStep, Connect, Admit, ReadMeta,
           ReadQuery, Refuse, Write, HangUp, Take, StopListener, StopStore, RootStops, StoreHandles,
           StoreStops, DrainAsks, DrainRefused, ListenerStops, ConnectReturns, ConnectRefused,
           RouterAnswers, RouterTimesOut, CallEnds, Kill, DropTasks, Exit, actors
      <4>3. CASE root \in {"StopListener", "StopStore"}
        <5>1. root' = "StopStore" \/ root' = root
          BY <1>2, <3>3, <4>3, RootMoves DEF RootStep, Take, StopListener, RootStops
        <5> QED
          BY <4>3, <5>1
      <4>4. CASE root = "Waiting" /\ \E n \in Nat : StopAt(n)
        <5>1. PICK n \in Nat : StopAt(n)
          BY <4>4
        <5>2. \E m \in Nat : StopAt(m)'
          <6>1. IF StoreStep THEN store' = "Stopped" \/ (n > 1 /\ StopAt(n - 1)') ELSE StopAt(n)'
            BY <1>2, <4>2, <5>1, StopMoves
          <6>2. n > 1 => n - 1 \in Nat
            BY <5>1
          <6> QED
            BY <5>1, <6>1, <6>2
        <5>3. root' = "Waiting"
          BY <1>2, <3>3, <4>1, <4>2, <4>4
             DEF Next, RootStep, StoreStep, DrainStep, ReadStep, Connect, Admit, ReadMeta,
             ReadQuery, Refuse, Write, HangUp, Take, StopListener, RootStops, StoreHandles, StoreStops,
             DrainAsks, DrainRefused, ListenerStops, ConnectReturns, ConnectRefused, RouterAnswers,
             RouterTimesOut, CallEnds, DropTasks, Exit, actors
        <5> QED
          BY <5>2, <5>3
      <4> QED
        BY <4>1, <4>2, <4>3, <4>4 DEF StopOnItsWay
    <3> QED
      BY <3>1, <3>2, <3>3
  <2> QED
    BY <2>1, <2>2
<1> QED
  BY <1>1, <1>2

(* A kill is never overtaken or forgotten: until the store has flushed,    *)
(* its stop is yet to be sent by a root that waits for no child, or it is  *)
(* in the store's mailbox, where each message handled brings it closer and *)
(* neither a hanging router call nor the traces that keep coming push it   *)
(* back (kameo's stop_children as runtime.rs uses it).  With the fairness  *)
(* of the runtime that is StopFlushes.                                     *)
THEOREM StopIsNotHeldUp == Spec => []StopOnItsWay /\ [][StopGetsOn]_vars
<1>1. Init => StopOnItsWay
  BY DEF Init, StopOnItsWay
<1>2. Inductive /\ StopOnItsWay /\ [Next]_vars => StopOnItsWay' /\ [StopGetsOn]_vars
  BY StopStep DEF Inductive
<1> QED
  BY <1>1, <1>2, DaemonIsSound, PTL DEF Spec
=============================================================================
