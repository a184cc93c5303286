------------------------ MODULE TraceIngestionProofs ------------------------
(***************************************************************************)
(* Proofs about the component-trace plane, for every set of components,    *)
(* every cap, and any number of events, failures and restarts: where each  *)
(* event is, the order of keys, what retention takes, how large the table  *)
(* gets, what ends the drain task, and that its work is finite.            *)
(***************************************************************************)
EXTENDS TraceIngestion, FiniteSetTheorems, SequenceTheorems, TLAPS

Event == [component : Components, sequence : Nat, ordinal : Nat]

(* TypeOK made inductive.                                                  *)
Base ==
    /\ TypeOK
    /\ pushed \in 0 .. PushBound /\ \A c \in Components : next[c] <= pushed
    /\ socket \in Seq(Event) /\ batch \in Seq(Event) /\ trail \in Seq(Event)
    /\ \A k \in DOMAIN rows : rows[k] \in Event
    /\ IsFiniteSet(DOMAIN rows)
    /\ drain = "Stopped" => ~reclaiming
    /\ ~up => drain = "Stopped"
    /\ restarts = 0 => up /\ drain # "Opening"
    /\ faults \in Nat /\ restarts \in Nat /\ emitterRestarts \in Nat

-----------------------------------------------------------------------------
(* The drain task ends, with or without the daemon.                        *)
Stops ==
    /\ StopDrain
    /\ reclaiming' = FALSE
    /\ UNCHANGED <<emitters, table>>
    /\ \/ ForwardRejected \/ ForwardFails \/ JoinFails \/ Crash

(* A step that moves no event.                                             *)
Quiet ==
    /\ UNCHANGED <<emitters, socket, batch, table, lost>>
    /\ FinishReclaim \/ Restart \/ OpenFails \/ BindFails \/ UNCHANGED vars

(* The steps, by what they move.                                           *)
LEMMA StepCases ==
  ASSUME Base, [Next]_vars
  PROVE  \/ \E c \in Components : Push(c) \/ RestartEmitter(c)
         \/ Collect \/ CollectFails \/ Forward \/ Reclaim \/ Stops \/ Quiet
BY DEF Base, TypeOK, Next, DaemonStep, Stops, ForwardRejected, ForwardFails, JoinFails, Idle,
       Forwarding, Crash, Quiet, FinishReclaim, Restart, OpenFails, BindFails, Fault, vars, failures

(* Neither count of what went wrong ever goes back.                        *)
LEMMA BoundsGrow ==
  ASSUME Base, [Next]_vars
  PROVE  /\ faults' \in Nat /\ restarts' \in Nat /\ emitterRestarts' \in Nat
         /\ faults' = 0 => faults = 0
         /\ restarts' = 0 => restarts = 0
         /\ emitterRestarts' = 0 => emitterRestarts = 0
<1>1. /\ faults' \in {faults, faults + 1} /\ restarts' \in {restarts, restarts + 1}
      /\ emitterRestarts' \in {emitterRestarts, emitterRestarts + 1}
  BY StepCases DEF Push, RestartEmitter, Collect, CollectFails, Forward, Reclaim, Stops,
     ForwardRejected, ForwardFails, JoinFails, Crash, Quiet, FinishReclaim, Restart, OpenFails, BindFails,
     Fault, vars, failures, emitters
<1> QED
  BY <1>1 DEF Base

(* The event an emitter pushes, and where it goes.                         *)
Pushed(c) == [component |-> c, sequence |-> next[c], ordinal |-> pushed]

LEMMA PushEffect ==
  ASSUME Base, NEW c \in Components, Push(c)
  PROVE  /\ Pushed(c) \in Event /\ pushed \in Nat /\ pushed' = pushed + 1 /\ pushed' <= PushBound
         /\ next' = [next EXCEPT ![c] = @ + 1] /\ next[c] \in Nat
         /\ UNCHANGED <<batch, drain, table, reclaiming, up, emitterRestarts, failures>>
         /\ \/ /\ drain = "Collecting" /\ lost' = lost
               /\ socket' \in Seq(Event) /\ Len(socket') = Len(socket) + 1 /\ Len(socket) \in Nat
               /\ \A i \in 1 .. Len(socket) : socket'[i] = socket[i]
               /\ socket'[Len(socket) + 1] = Pushed(c)
            \/ drain # "Collecting" /\ lost' = lost \cup {Pushed(c)} /\ socket' = socket
<1>1. next[c] \in Nat /\ pushed \in Nat /\ PushBound \in Nat
  BY TraceAssumption DEF Base, TypeOK
<1>2. Pushed(c) \in Event
  BY <1>1 DEF Pushed, Event
<1>3. pushed' = pushed + 1 /\ pushed' <= PushBound
  BY <1>1 DEF Push
<1>4. CASE drain = "Collecting"
  <2>1. socket' = Append(socket, Pushed(c)) /\ lost' = lost
    BY <1>4 DEF Push, Pushed
  <2>2. socket \in Seq(Event)
    BY DEF Base
  <2> QED
    BY <1>1, <1>2, <1>3, <1>4, <2>1, <2>2, AppendProperties, LenProperties DEF Push
<1>5. CASE drain # "Collecting"
  BY <1>1, <1>2, <1>3, <1>5 DEF Push, Pushed
<1> QED
  BY <1>4, <1>5

(* A window takes the first n events of the socket.                        *)
Window(n) ==
    /\ n \in 1 .. Len(socket)
    /\ socket' \in Seq(Event) /\ Len(socket') = Len(socket) - n
    /\ \A i \in 1 .. Len(socket') : socket'[i] = socket[n + i]

LEMMA WindowEffect ==
  ASSUME Base, NEW n \in 1 .. Len(socket), socket' = SubSeq(socket, n + 1, Len(socket))
  PROVE  /\ Window(n) /\ Len(socket) \in Nat
         /\ SubSeq(socket, 1, n) \in Seq(Event) /\ Len(SubSeq(socket, 1, n)) = n
         /\ \A i \in 1 .. n : SubSeq(socket, 1, n)[i] = socket[i]
<1>1. socket \in Seq(Event) /\ Len(socket) \in Nat /\ \A i \in 1 .. Len(socket) : socket[i] \in Event
  BY LenProperties, ElementOfSeq DEF Base
<1>2. /\ SubSeq(socket, 1, n) \in Seq(Event) /\ Len(SubSeq(socket, 1, n)) = n
      /\ \A i \in 1 .. n : SubSeq(socket, 1, n)[i] = socket[i]
  <2>1. \A i \in 1 .. n : socket[i] \in Event
    BY <1>1
  <2> QED
    BY <1>1, <2>1, SubSeqProperties
<1>3. /\ socket' \in Seq(Event) /\ Len(socket') = Len(socket) - n
      /\ \A i \in 1 .. Len(socket) - n : socket'[i] = socket[(n + 1) + i - 1]
  <2>1. \A i \in n + 1 .. Len(socket) : socket[i] \in Event
    BY <1>1
  <2>2. n + 1 \in Int /\ Len(socket) \in Int /\ Len(socket) - (n + 1) + 1 = Len(socket) - n
    BY <1>1
  <2>3. CASE n = Len(socket)
    BY <1>1, <2>2, <2>3, SubSeqEmpty, EmptySeq
  <2>4. CASE n < Len(socket)
    <3>1. /\ SubSeq(socket, n + 1, Len(socket)) \in Seq(Event)
          /\ Len(SubSeq(socket, n + 1, Len(socket)))
               = IF n + 1 <= Len(socket) THEN Len(socket) - (n + 1) + 1 ELSE 0
          /\ \A i \in 1 .. Len(socket) - (n + 1) + 1 :
               SubSeq(socket, n + 1, Len(socket))[i] = socket[(n + 1) + i - 1]
      BY <2>1, <2>2, SubSeqProperties
    <3>2. n + 1 <= Len(socket)
      BY <1>1, <2>4
    <3> QED
      BY <2>2, <3>1, <3>2
  <2> QED
    BY <1>1, <2>3, <2>4
<1> QED
  BY <1>1, <1>2, <1>3 DEF Window

(* What asserting the next event of a batch does.                          *)
LEMMA ForwardEffect ==
  ASSUME Base, Forward
  PROVE  /\ Head(batch) \in Event /\ Len(batch) \in Nat /\ 1 \in 1 .. Len(batch) /\ Head(batch) = batch[1]
         /\ batch' \in Seq(Event) /\ Len(batch') = Len(batch) - 1
         /\ \A i \in 1 .. Len(batch') : batch'[i] = batch[i + 1]
         /\ trail' \in Seq(Event) /\ Len(trail) \in Nat /\ Len(trail') = Len(trail) + 1
         /\ \A i \in 1 .. Len(trail) : trail'[i] = trail[i]
         /\ trail'[Len(trail) + 1] = Head(batch)
         /\ RecordKey(Head(batch)) \notin DOMAIN rows
         /\ DOMAIN rows' = DOMAIN rows \cup {RecordKey(Head(batch))}
         /\ rows'[RecordKey(Head(batch))] = Head(batch)
         /\ \A k \in DOMAIN rows : rows'[k] = rows[k]
         /\ UNCHANGED <<emitters, socket, drain, gone, up, lost, failures>>
<1>1. batch # <<>> /\ batch \in Seq(Event) /\ trail \in Seq(Event)
  BY DEF Forward, Forwarding, Base
<1>2. /\ Head(batch) \in Event /\ Len(batch) \in Nat /\ 1 \in 1 .. Len(batch) /\ Head(batch) = batch[1]
      /\ batch' \in Seq(Event) /\ Len(batch') = Len(batch) - 1
      /\ \A i \in 1 .. Len(batch') : batch'[i] = batch[i + 1]
  BY <1>1, HeadTailProperties, LenProperties, EmptySeq DEF Forward
<1>3. /\ trail' \in Seq(Event) /\ Len(trail) \in Nat /\ Len(trail') = Len(trail) + 1
      /\ \A i \in 1 .. Len(trail) : trail'[i] = trail[i]
      /\ trail'[Len(trail) + 1] = Head(batch)
  BY <1>1, <1>2, AppendProperties, LenProperties DEF Forward
<1> QED
  BY <1>2, <1>3 DEF Forward

(* What retention does.                                                    *)
LEMMA ReclaimEffect ==
  ASSUME Reclaim
  PROVE  \E k \in DOMAIN rows :
           /\ \A j \in DOMAIN rows : KeyBefore(k, j)
           /\ DOMAIN rows' = DOMAIN rows \ {k}
           /\ \A j \in DOMAIN rows' : rows'[j] = rows[j]
           /\ gone' = gone \cup {rows[k]}
           /\ UNCHANGED <<emitters, socket, batch, drain, reclaiming, up, trail, lost, failures>>
BY DEF Reclaim, Victims

-----------------------------------------------------------------------------
LEMMA BaseStep == Base /\ [Next]_vars => Base'
<1> SUFFICES ASSUME Base, [Next]_vars PROVE Base'
  OBVIOUS
<1>0. faults' \in Nat /\ restarts' \in Nat /\ emitterRestarts' \in Nat
  BY BoundsGrow
<1>1. ASSUME NEW c \in Components, Push(c)
      PROVE  Base'
  <2>1. next' \in [Components -> 0 .. PushBound] /\ \A d \in Components : next'[d] <= pushed'
    <3>1. /\ next' = [next EXCEPT ![c] = @ + 1] /\ pushed' = pushed + 1 /\ pushed' <= PushBound
          /\ next \in [Components -> 0 .. PushBound] /\ \A d \in Components : next[d] <= pushed
          /\ pushed \in Nat /\ PushBound \in Nat
      BY <1>1, PushEffect, TraceAssumption DEF Base, TypeOK
    <3>2. \A d \in Components : next'[d] \in 0 .. PushBound /\ next'[d] <= pushed'
      BY <3>1
    <3> QED
      BY <3>1, <3>2
  <2>2. pushed' \in 0 .. PushBound
    BY <1>1, PushEffect, TraceAssumption
  <2> QED
    BY <1>0, <1>1, <2>1, <2>2, PushEffect DEF Base, TypeOK, table, failures
<1>2. ASSUME NEW c \in Components, RestartEmitter(c)
      PROVE  Base'
  <2>1. next' \in [Components -> 0 .. PushBound] /\ \A d \in Components : next'[d] <= pushed'
    BY <1>2, TraceAssumption DEF RestartEmitter, Base, TypeOK
  <2> QED
    BY <1>0, <1>2, <2>1 DEF RestartEmitter, Base, TypeOK, table, failures
<1>3. CASE Collect
  <2>1. PICK n \in 1 .. Len(socket) : /\ batch' = SubSeq(socket, 1, n)
                                      /\ socket' = SubSeq(socket, n + 1, Len(socket))
    BY <1>3 DEF Collect
  <2>2. socket' \in Seq(Event) /\ batch' \in Seq(Event)
    BY <2>1, WindowEffect DEF Window
  <2> QED
    BY <1>0, <1>3, <2>2 DEF Collect, Idle, Base, TypeOK, emitters, table, failures
<1>4. CASE CollectFails
  <2>1. PICK n \in 1 .. Len(socket) : socket' = SubSeq(socket, n + 1, Len(socket))
    BY <1>4 DEF CollectFails
  <2>2. socket' \in Seq(Event)
    BY <2>1, WindowEffect DEF Window
  <2> QED
    BY <1>0, <1>4, <2>2 DEF CollectFails, Idle, Fault, Base, TypeOK, emitters, table
<1>5. CASE Forward
  <2>1. IsFiniteSet(DOMAIN rows')
    BY <1>5, ForwardEffect, FS_AddElement DEF Base
  <2>2. reclaiming' = TRUE /\ drain = "Collecting"
    BY <1>5 DEF Forward, Forwarding
  <2>3. \A k \in DOMAIN rows' : rows'[k] \in Event /\ RecordKey(rows'[k]) = k
    BY <1>5, ForwardEffect DEF Base, TypeOK
  <2> QED
    BY <1>0, <1>5, <2>1, <2>2, <2>3, ForwardEffect DEF Base, TypeOK, emitters, failures
<1>6. CASE Reclaim
  <2>1. /\ IsFiniteSet(DOMAIN rows')
        /\ \A k \in DOMAIN rows' : rows'[k] \in Event /\ RecordKey(rows'[k]) = k
    BY <1>6, ReclaimEffect, FS_RemoveElement DEF Base, TypeOK
  <2> QED
    <3>1. UNCHANGED <<next, pushed, socket, batch, drain, reclaiming, up, trail, restarts>>
      BY <1>6, ReclaimEffect DEF emitters, failures
    <3> QED
      BY <1>0, <2>1, <3>1 DEF Base, TypeOK
<1>7. CASE Stops
  <2>1. /\ drain' = "Stopped" /\ batch' = <<>> /\ socket' = <<>> /\ ~reclaiming'
        /\ UNCHANGED <<emitters, table>>
    BY <1>7 DEF Stops, StopDrain
  <2>2. batch' \in Seq(Event) /\ socket' \in Seq(Event)
    BY <2>1, EmptySeq
  <2>3. restarts' = 0 => up' /\ drain' # "Opening"
    <3>1. (up' = up /\ restarts' = restarts) \/ restarts' = restarts + 1
      BY <1>7 DEF Stops, ForwardRejected, ForwardFails, JoinFails, Fault, Crash, failures
    <3> QED
      BY <2>1, <3>1 DEF Base
  <2> QED
    BY <1>0, <2>1, <2>2, <2>3 DEF Base, TypeOK, emitters, table
<1>8. CASE Quiet
  <2>1. /\ drain' \in {"Collecting", "Stopped", "Opening"}
        /\ drain' # "Collecting" => batch = <<>> /\ socket = <<>>
        /\ drain' = "Opening" => up' /\ reclaiming'

        /\ drain' = "Stopped" => ~reclaiming'
        /\ ~up' => drain' = "Stopped"
        /\ restarts' = 0 => up' /\ drain' # "Opening"
    BY <1>8 DEF Quiet, FinishReclaim, Restart, OpenFails, BindFails, Fault, vars, failures, Base, TypeOK
  <2> QED
    BY <1>0, <1>8, <2>1 DEF Quiet, Base, TypeOK, emitters, table
<1> QED
  BY <1>1, <1>2, <1>3, <1>4, <1>5, <1>6, <1>7, <1>8, StepCases

LEMMA InitBase == Init => Base
<1> SUFFICES ASSUME Init PROVE Base
  OBVIOUS
<1>1. DOMAIN rows = {} /\ IsFiniteSet({}) /\ socket \in Seq(Event)
      /\ batch \in Seq(Event) /\ trail \in Seq(Event)
  BY FS_EmptySet, EmptySeq DEF Init
<1> QED
  BY <1>1, TraceAssumption DEF Init, Base, TypeOK

(* Every row is under the key of its event, a drain task that has ended    *)
(* holds nothing, and none counts past what was pushed (runtime.rs, the    *)
(* trace listener; store_record.rs, the component trace key).              *)
THEOREM TraceTypeCorrect == Spec => []TypeOK
<1>1. Spec => []Base
  BY InitBase, BaseStep, PTL DEF Spec
<1> QED
  BY <1>1, PTL DEF Base

-----------------------------------------------------------------------------
(* The line of events from the trail over the batch to the socket: each    *)
(* was pushed before those behind it, and as long as emitters go on        *)
(* counting has a lower sequence than those of its component.              *)
Precedes(e, f, resets) ==
    /\ e.ordinal < f.ordinal
    /\ resets = 0 /\ e.component = f.component => e.sequence < f.sequence

Increasing(s, resets) == \A i, j \in 1 .. Len(s) : i < j => Precedes(s[i], s[j], resets)

Before(s, t, resets) == \A i \in 1 .. Len(s), j \in 1 .. Len(t) : Precedes(s[i], t[j], resets)

AllPrecede(s, f, resets) == \A i \in 1 .. Len(s) : Precedes(s[i], f, resets)

\* The events of s come before the next one each emitter pushes.
Issued(s, counters, total, resets) ==
    \A i \in 1 .. Len(s) :
        /\ s[i].ordinal < total
        /\ resets = 0 => s[i].sequence < counters[s[i].component]

Line ==
    /\ Increasing(trail, emitterRestarts)
    /\ Increasing(batch, emitterRestarts)
    /\ Increasing(socket, emitterRestarts)
    /\ Before(trail, batch, emitterRestarts)
    /\ Before(trail, socket, emitterRestarts)
    /\ Before(batch, socket, emitterRestarts)
    /\ Issued(trail, next, pushed, emitterRestarts)
    /\ Issued(batch, next, pushed, emitterRestarts)
    /\ Issued(socket, next, pushed, emitterRestarts)

(* A run of consecutive events of a sequence stands in its line.           *)
LEMMA Part ==
  ASSUME NEW s, NEW t, NEW d \in Nat, NEW resets, Len(s) \in Nat, Len(t) \in Nat,
         d + Len(t) <= Len(s), \A i \in 1 .. Len(t) : t[i] = s[d + i]
  PROVE  /\ Increasing(s, resets) => Increasing(t, resets)
         /\ \A u : Before(u, s, resets) => Before(u, t, resets)
         /\ \A u : Before(s, u, resets) => Before(t, u, resets)
         /\ \A counters, total : Issued(s, counters, total, resets) => Issued(t, counters, total, resets)
<1>1. \A i \in 1 .. Len(t) : d + i \in 1 .. Len(s)
  OBVIOUS
<1>2. \A i, j \in 1 .. Len(t) : i < j => d + i < d + j
  OBVIOUS
<1>3. ASSUME Increasing(s, resets), NEW i \in 1 .. Len(t), NEW j \in 1 .. Len(t), i < j
      PROVE  Precedes(t[i], t[j], resets)
  BY <1>1, <1>2, <1>3 DEF Increasing
<1>4. ASSUME NEW u, Before(u, s, resets), NEW i \in 1 .. Len(u), NEW j \in 1 .. Len(t)
      PROVE  Precedes(u[i], t[j], resets)
  BY <1>1, <1>4 DEF Before
<1>5. ASSUME NEW u, Before(s, u, resets), NEW i \in 1 .. Len(t), NEW j \in 1 .. Len(u)
      PROVE  Precedes(t[i], u[j], resets)
  BY <1>1, <1>5 DEF Before
<1>6. \A counters, total : Issued(s, counters, total, resets) => Issued(t, counters, total, resets)
  BY <1>1 DEF Issued
<1> QED
  BY <1>3, <1>4, <1>5, <1>6 DEF Increasing, Before

(* One more event at the end of a sequence.                                *)
LEMMA Longer ==
  ASSUME NEW s, NEW t, NEW e, NEW resets, Len(s) \in Nat, Len(t) = Len(s) + 1,
         \A i \in 1 .. Len(s) : t[i] = s[i], t[Len(s) + 1] = e
  PROVE  /\ Increasing(s, resets) /\ AllPrecede(s, e, resets) => Increasing(t, resets)
         /\ \A u : Before(u, s, resets) /\ AllPrecede(u, e, resets) => Before(u, t, resets)
         /\ \A u : Before(s, u, resets) /\ (\A i \in 1 .. Len(u) : Precedes(e, u[i], resets))
                  => Before(t, u, resets)
         /\ \A counters, total :
              /\ Issued(s, counters, total, resets)
              /\ e.ordinal < total
              /\ resets = 0 => e.sequence < counters[e.component]
              => Issued(t, counters, total, resets)
<1>1. \A i \in 1 .. Len(t) : (i \in 1 .. Len(s) /\ t[i] = s[i]) \/ (i = Len(s) + 1 /\ t[i] = e)
  OBVIOUS
<1>2. ASSUME Increasing(s, resets), AllPrecede(s, e, resets),
             NEW i \in 1 .. Len(t), NEW j \in 1 .. Len(t), i < j
      PROVE  Precedes(t[i], t[j], resets)
  <2>1. i \in 1 .. Len(s) /\ t[i] = s[i]
    BY <1>2
  <2> QED
    BY <1>1, <1>2, <2>1 DEF Increasing, AllPrecede
<1>3. ASSUME NEW u, Before(u, s, resets), AllPrecede(u, e, resets),
             NEW i \in 1 .. Len(u), NEW j \in 1 .. Len(t)
      PROVE  Precedes(u[i], t[j], resets)
  BY <1>1, <1>3 DEF Before, AllPrecede
<1>4. ASSUME NEW u, Before(s, u, resets), \A i \in 1 .. Len(u) : Precedes(e, u[i], resets),
             NEW i \in 1 .. Len(t), NEW j \in 1 .. Len(u)
      PROVE  Precedes(t[i], u[j], resets)
  BY <1>1, <1>4 DEF Before
<1>5. ASSUME NEW counters, NEW total, Issued(s, counters, total, resets), e.ordinal < total,
             resets = 0 => e.sequence < counters[e.component]
      PROVE  Issued(t, counters, total, resets)
  BY <1>1, <1>5 DEF Issued
<1> QED
  BY <1>2, <1>3, <1>4, <1>5 DEF Increasing, Before

(* The lengths and elements of the three sequences.                        *)
LEMMA Elements ==
  ASSUME Base
  PROVE  /\ Len(trail) \in Nat /\ Len(batch) \in Nat /\ Len(socket) \in Nat
         /\ \A i \in 1 .. Len(trail) : trail[i] \in Event
         /\ \A i \in 1 .. Len(batch) : batch[i] \in Event
         /\ \A i \in 1 .. Len(socket) : socket[i] \in Event
BY LenProperties, ElementOfSeq DEF Base

(* A push keeps what was issued so, and its event comes after all of it.   *)
LEMMA PushIssues ==
  ASSUME Base, NEW c \in Components, Push(c), NEW s, \A i \in 1 .. Len(s) : s[i] \in Event,
         Issued(s, next, pushed, emitterRestarts)
  PROVE  /\ Issued(s, next', pushed', emitterRestarts)
         /\ AllPrecede(s, Pushed(c), emitterRestarts)
<1>1. /\ pushed \in Nat /\ pushed' = pushed + 1
      /\ next' = [next EXCEPT ![c] = @ + 1] /\ next \in [Components -> Nat]
  BY PushEffect, TraceAssumption DEF Base, TypeOK
<1>2. \A d \in Components : next'[d] \in Nat /\ next[d] \in Nat /\ next[d] <= next'[d]
  BY <1>1
<1>3. \A i \in 1 .. Len(s) : s[i].component \in Components /\ s[i].ordinal \in Nat /\ s[i].sequence \in Nat
  BY DEF Event
<1>4. Issued(s, next', pushed', emitterRestarts)
  BY <1>1, <1>2, <1>3 DEF Issued
<1>5. Pushed(c).component = c /\ Pushed(c).sequence = next[c] /\ Pushed(c).ordinal = pushed
  BY DEF Pushed
<1>6. AllPrecede(s, Pushed(c), emitterRestarts)
  BY <1>5 DEF Issued, AllPrecede, Precedes
<1> QED
  BY <1>4, <1>6

LEMMA LineStep == Base /\ Line /\ [Next]_vars => Line'
<1> SUFFICES ASSUME Base, Line, [Next]_vars PROVE Line'
  OBVIOUS
<1>0. Len(trail) \in Nat /\ Len(batch) \in Nat /\ Len(socket) \in Nat
  BY Elements
<1>1. ASSUME NEW c \in Components, Push(c)
      PROVE  Line'
  <2>1. emitterRestarts' = emitterRestarts /\ batch' = batch /\ trail' = trail
    BY <1>1, PushEffect DEF table
  <2>2. /\ Issued(trail, next', pushed', emitterRestarts) /\ AllPrecede(trail, Pushed(c), emitterRestarts)
        /\ Issued(batch, next', pushed', emitterRestarts) /\ AllPrecede(batch, Pushed(c), emitterRestarts)
        /\ Issued(socket, next', pushed', emitterRestarts) /\ AllPrecede(socket, Pushed(c), emitterRestarts)
    BY <1>1, PushIssues, Elements DEF Line
  <2>3. CASE socket' = socket
    BY <2>1, <2>2, <2>3 DEF Line
  <2>4. CASE /\ Len(socket') = Len(socket) + 1
             /\ \A i \in 1 .. Len(socket) : socket'[i] = socket[i]
             /\ socket'[Len(socket) + 1] = Pushed(c)
    <3>1. /\ Pushed(c).ordinal < pushed'
          /\ Pushed(c).sequence < next'[Pushed(c).component]
      <4>1. /\ pushed \in Nat /\ pushed' = pushed + 1 /\ next[c] \in Nat /\ next' = [next EXCEPT ![c] = @ + 1]
            /\ c \in DOMAIN next
        BY <1>1, PushEffect DEF Base, TypeOK
      <4>2. Pushed(c).component = c /\ Pushed(c).sequence = next[c] /\ Pushed(c).ordinal = pushed
        BY DEF Pushed
      <4> QED
        BY <4>1, <4>2
    <3>2. /\ Increasing(socket', emitterRestarts)
          /\ Before(trail, socket', emitterRestarts) /\ Before(batch, socket', emitterRestarts)
          /\ Issued(socket', next', pushed', emitterRestarts)
      BY <1>0, <2>2, <2>4, <3>1, Longer DEF Line
    <3> QED
      BY <2>1, <2>2, <3>2 DEF Line
  <2> QED
    BY <1>1, <2>3, <2>4, PushEffect
<1>2. ASSUME NEW c \in Components, RestartEmitter(c)
      PROVE  Line'
  <2>1. emitterRestarts' # 0 /\ UNCHANGED <<pushed, socket, batch, trail>>
    BY <1>2 DEF RestartEmitter, Base, table
  <2> QED
    BY <2>1 DEF Line, Issued, Increasing, Before, Precedes
<1>3. CASE Collect
  <2>1. PICK n \in 1 .. Len(socket) : /\ batch' = SubSeq(socket, 1, n)
                                      /\ socket' = SubSeq(socket, n + 1, Len(socket))
    BY <1>3 DEF Collect
  <2>2. /\ Len(socket') = Len(socket) - n /\ \A i \in 1 .. Len(socket') : socket'[i] = socket[n + i]
        /\ Len(batch') = n /\ \A i \in 1 .. Len(batch') : batch'[i] = socket[0 + i]
    BY <2>1, WindowEffect DEF Window
  <2>3. UNCHANGED <<next, pushed, emitterRestarts, trail>>
    BY <1>3 DEF Collect, emitters, table
  <2>4. n + Len(socket') <= Len(socket) /\ 0 + Len(batch') <= Len(socket) /\ n \in Nat /\ Len(socket') \in Nat
    BY <1>0, <2>2
  <2>5. /\ Increasing(batch', emitterRestarts) /\ Before(trail, batch', emitterRestarts)
        /\ Issued(batch', next, pushed, emitterRestarts)
    BY <1>0, <2>2, <2>4, Part DEF Line
  <2>6. /\ Increasing(socket', emitterRestarts) /\ Before(trail, socket', emitterRestarts)
        /\ Issued(socket', next, pushed, emitterRestarts)
    BY <1>0, <2>2, <2>4, Part DEF Line
  <2>7. Before(batch', socket', emitterRestarts)
    <3> SUFFICES ASSUME NEW i \in 1 .. Len(batch'), NEW j \in 1 .. Len(socket')
                 PROVE  Precedes(batch'[i], socket'[j], emitterRestarts)
      BY DEF Before
    <3>1. /\ i \in 1 .. Len(socket) /\ n + j \in 1 .. Len(socket) /\ i < n + j
          /\ batch'[i] = socket[i] /\ socket'[j] = socket[n + j]
      BY <1>0, <2>2, <2>4
    <3> QED
      BY <3>1 DEF Line, Increasing
  <2> QED
    BY <2>3, <2>5, <2>6, <2>7 DEF Line
<1>4. CASE CollectFails
  <2>1. PICK n \in 1 .. Len(socket) : socket' = SubSeq(socket, n + 1, Len(socket))
    BY <1>4 DEF CollectFails
  <2>2. Len(socket') = Len(socket) - n /\ \A i \in 1 .. Len(socket') : socket'[i] = socket[n + i]
    BY <2>1, WindowEffect DEF Window
  <2>3. UNCHANGED <<next, pushed, emitterRestarts, trail, batch>>
    BY <1>4 DEF CollectFails, emitters, table
  <2>4. n + Len(socket') <= Len(socket) /\ n \in Nat /\ Len(socket') \in Nat
    BY <1>0, <2>2
  <2>5. /\ Increasing(socket', emitterRestarts) /\ Issued(socket', next, pushed, emitterRestarts)
        /\ Before(trail, socket', emitterRestarts) /\ Before(batch, socket', emitterRestarts)
    BY <1>0, <2>2, <2>4, Part DEF Line
  <2> QED
    BY <2>3, <2>5 DEF Line
<1>5. CASE Forward
  <2>1. /\ 1 \in 1 .. Len(batch) /\ Len(batch') = Len(batch) - 1
        /\ \A i \in 1 .. Len(batch') : batch'[i] = batch[1 + i]
        /\ Len(trail') = Len(trail) + 1 /\ trail'[Len(trail) + 1] = batch[1]
        /\ \A i \in 1 .. Len(trail) : trail'[i] = trail[i]
        /\ UNCHANGED <<next, pushed, emitterRestarts, socket>>
    BY <1>5, ForwardEffect DEF emitters
  <2>2. 1 + Len(batch') <= Len(batch) /\ Len(batch') \in Nat
    BY <1>0, <2>1
  <2>3. /\ Increasing(batch', emitterRestarts) /\ Before(trail, batch', emitterRestarts)
        /\ Before(batch', socket, emitterRestarts) /\ Issued(batch', next, pushed, emitterRestarts)
    BY <1>0, <2>1, <2>2, Part DEF Line
  <2>4. AllPrecede(trail, batch[1], emitterRestarts)
    BY <2>1 DEF Line, Before, AllPrecede
  <2>5. \A i \in 1 .. Len(batch') : Precedes(batch[1], batch'[i], emitterRestarts)
    <3>1. \A i \in 1 .. Len(batch') : 1 + i \in 1 .. Len(batch) /\ 1 < 1 + i
      BY <1>0, <2>1
    <3> QED
      BY <2>1, <3>1 DEF Line, Increasing
  <2>6. \A i \in 1 .. Len(socket) : Precedes(batch[1], socket[i], emitterRestarts)
    BY <2>1 DEF Line, Before
  <2>7. /\ batch[1].ordinal < pushed
        /\ emitterRestarts = 0 => batch[1].sequence < next[batch[1].component]
    BY <2>1 DEF Line, Issued
  <2>8. /\ Increasing(trail', emitterRestarts) /\ Before(trail', batch', emitterRestarts)
        /\ Before(trail', socket, emitterRestarts) /\ Issued(trail', next, pushed, emitterRestarts)
    <3>1. /\ Increasing(trail, emitterRestarts) /\ Before(trail, socket, emitterRestarts)
          /\ Issued(trail, next, pushed, emitterRestarts)
      BY DEF Line
    <3>2. /\ Len(trail) \in Nat /\ Len(trail') = Len(trail) + 1 /\ trail'[Len(trail) + 1] = batch[1]
          /\ \A i \in 1 .. Len(trail) : trail'[i] = trail[i]
      BY <1>0, <2>1
    <3>3. Increasing(trail', emitterRestarts)
      BY <2>4, <3>1, <3>2, Longer
    <3>4. Before(trail', batch', emitterRestarts)
      BY <2>3, <2>5, <3>2, Longer
    <3>5. Before(trail', socket, emitterRestarts)
      BY <2>6, <3>1, <3>2, Longer
    <3>6. Issued(trail', next, pushed, emitterRestarts)
      BY <2>7, <3>1, <3>2, Longer
    <3> QED
      BY <3>3, <3>4, <3>5, <3>6
  <2> QED
    BY <2>1, <2>3, <2>8 DEF Line
<1>6. CASE Reclaim \/ Quiet
  BY <1>6, ReclaimEffect DEF Quiet, emitters, table, Line
<1>7. CASE Stops
  <2>1. UNCHANGED <<next, pushed, emitterRestarts, trail>> /\ batch' = <<>> /\ socket' = <<>>
    BY <1>7 DEF Stops, StopDrain, emitters, table
  <2>2. Len(batch') = 0 /\ Len(socket') = 0
    BY <2>1, EmptySeq
  <2> QED
    BY <2>1, <2>2 DEF Line, Issued, Increasing, Before
<1> QED
  BY <1>1, <1>2, <1>3, <1>4, <1>5, <1>6, <1>7, StepCases

LEMMA InitLine == Init => Line
<1> SUFFICES ASSUME Init PROVE Line
  OBVIOUS
<1>1. Len(trail) = 0 /\ Len(batch) = 0 /\ Len(socket) = 0
  BY EmptySeq DEF Init
<1> QED
  BY <1>1 DEF Line, Issued, Increasing, Before

-----------------------------------------------------------------------------
(* What was asserted is in the table or gone, and nothing else is.         *)
Kept ==
    /\ \A k \in DOMAIN rows : \E i \in 1 .. Len(trail) : trail[i] = rows[k]
    /\ \A e \in gone : \E i \in 1 .. Len(trail) : trail[i] = e
    /\ \A i \in 1 .. Len(trail) : trail[i] \in gone \cup Stored

LEMMA KeptStep == Base /\ Kept /\ [Next]_vars => Kept'
<1> SUFFICES ASSUME Base, Kept, [Next]_vars PROVE Kept'
  OBVIOUS
<1>1. CASE UNCHANGED table
  BY <1>1 DEF table, Kept, Stored
<1>2. CASE Forward
  <2> DEFINE e == Head(batch)
  <2>1. /\ Len(trail) \in Nat /\ Len(trail') = Len(trail) + 1 /\ trail'[Len(trail) + 1] = e
        /\ \A i \in 1 .. Len(trail) : trail'[i] = trail[i]
        /\ gone' = gone
    BY <1>2, ForwardEffect
  <2>2. /\ DOMAIN rows' = DOMAIN rows \cup {RecordKey(e)} /\ rows'[RecordKey(e)] = e
        /\ \A k \in DOMAIN rows : rows'[k] = rows[k]
    BY <1>2, ForwardEffect
  <2>3. Stored' = Stored \cup {e}
    BY <2>2 DEF Stored
  <2>4. \A i \in 1 .. Len(trail') : (i \in 1 .. Len(trail) /\ trail'[i] = trail[i]) \/ trail'[i] = e
    BY <2>1
  <2>5. \A i \in 1 .. Len(trail) : i \in 1 .. Len(trail')
    BY <2>1
  <2>6. \A k \in DOMAIN rows' : \E i \in 1 .. Len(trail') : trail'[i] = rows'[k]
    <3> SUFFICES ASSUME NEW k \in DOMAIN rows'
                 PROVE  \E i \in 1 .. Len(trail') : trail'[i] = rows'[k]
      OBVIOUS
    <3>1. CASE k \in DOMAIN rows
      BY <2>1, <2>2, <2>5, <3>1 DEF Kept
    <3>2. CASE k = RecordKey(e)
      <4>1. Len(trail) + 1 \in 1 .. Len(trail')
        BY <2>1
      <4> QED
        BY <2>1, <2>2, <3>2, <4>1
    <3> QED
      BY <2>2, <3>1, <3>2
  <2>7. \A f \in gone' : \E i \in 1 .. Len(trail') : trail'[i] = f
    BY <2>1, <2>5 DEF Kept
  <2>8. \A i \in 1 .. Len(trail') : trail'[i] \in gone' \cup Stored'
    BY <2>1, <2>3, <2>4 DEF Kept
  <2> QED
    BY <2>6, <2>7, <2>8 DEF Kept
<1>3. CASE Reclaim
  <2>1. PICK k \in DOMAIN rows :
          /\ DOMAIN rows' = DOMAIN rows \ {k} /\ \A j \in DOMAIN rows' : rows'[j] = rows[j]
          /\ gone' = gone \cup {rows[k]} /\ trail' = trail
    BY <1>3, ReclaimEffect
  <2>2. Stored \subseteq Stored' \cup {rows[k]}
    BY <2>1 DEF Stored
  <2> QED
    BY <2>1, <2>2 DEF Kept
<1> QED
  BY <1>1, <1>2, <1>3, StepCases DEF Push, RestartEmitter, Collect, CollectFails, Stops, Quiet

LEMMA InitKept == Init => Kept
<1> SUFFICES ASSUME Init PROVE Kept
  OBVIOUS
<1>1. Len(trail) = 0 /\ DOMAIN rows = {} /\ gone = {}
  BY EmptySeq DEF Init
<1> QED
  BY <1>1 DEF Kept

LEMMA LineInvariant == Spec => [](Base /\ Line /\ Kept)
BY InitBase, BaseStep, InitLine, LineStep, InitKept, KeptStep, PTL DEF Spec

(* Sorting the rows of a component by sequence is sorting them by          *)
(* emission, and they were recorded in that order (store.rs,               *)
(* component_trace), as long as its emitter goes on counting.              *)
THEOREM KeysFollowEmission == Spec => []KeyOrderIsEmissionOrder
<1>1. ASSUME Base, Line, Kept, emitterRestarts = 0
      PROVE  /\ \A c \in Components : \A e, f \in ComponentTrace(c) :
                  e.sequence < f.sequence => e.ordinal < f.ordinal
             /\ \A m, n \in 1 .. Len(trail) :
                  m < n /\ trail[m].component = trail[n].component
                     => trail[m].sequence < trail[n].sequence
  <2>1. \A m, n \in 1 .. Len(trail) :
          m < n => /\ trail[m].ordinal < trail[n].ordinal
                   /\ trail[m].component = trail[n].component => trail[m].sequence < trail[n].sequence
    BY <1>1 DEF Line, Increasing, Precedes
  <2>2. ASSUME NEW c \in Components, NEW e \in ComponentTrace(c), NEW f \in ComponentTrace(c),
               e.sequence < f.sequence
        PROVE  e.ordinal < f.ordinal
    <3>1. PICK j \in DOMAIN rows, k \in DOMAIN rows : e = rows[j] /\ j[1] = c /\ f = rows[k] /\ k[1] = c
      BY <2>2 DEF ComponentTrace
    <3>2. e \in Event /\ f \in Event /\ e.component = c /\ f.component = c
      BY <1>1, <3>1 DEF Base, TypeOK, RecordKey
    <3>3. PICK m \in 1 .. Len(trail), n \in 1 .. Len(trail) : trail[m] = e /\ trail[n] = f
      BY <1>1, <3>1 DEF Kept
    <3>4. e.sequence \in Nat /\ f.sequence \in Nat /\ ~(f.sequence < e.sequence) /\ e # f
      BY <2>2, <3>2 DEF Event
    <3>5. m < n
      BY <1>1, <2>1, <3>2, <3>3, <3>4
    <3> QED
      BY <2>1, <3>3, <3>5
  <2> QED
    BY <2>1, <2>2
<1>2. Base /\ Line /\ Kept => KeyOrderIsEmissionOrder
  BY <1>1 DEF KeyOrderIsEmissionOrder
<1> QED
  BY <1>2, LineInvariant, PTL

-----------------------------------------------------------------------------
(* The next event of a batch is not in the table yet.                      *)
LEMMA NextIsNew ==
  ASSUME Base, Line, Kept, emitterRestarts = 0, batch # <<>>
  PROVE  RecordKey(Head(batch)) \notin DOMAIN rows
<1>1. 1 \in 1 .. Len(batch) /\ Head(batch) = batch[1] /\ batch[1] \in Event
  BY HeadTailProperties, EmptySeq, Elements DEF Base
<1> SUFFICES ASSUME NEW k \in DOMAIN rows, k = RecordKey(batch[1]) PROVE FALSE
  BY <1>1
<1>2. PICK i \in 1 .. Len(trail) : trail[i] = rows[k]
  BY DEF Kept
<1>3. trail[i].component = batch[1].component /\ trail[i].sequence = batch[1].sequence
  BY <1>2 DEF Base, TypeOK, RecordKey
<1>4. trail[i].sequence < batch[1].sequence /\ batch[1].sequence \in Nat
  BY <1>1, <1>3 DEF Line, Before, Precedes, Event
<1> QED
  BY <1>3, <1>4

LEMMA DrainStep == Base /\ Line /\ Kept /\ DrainEndsByFailureOnly /\ [Next]_vars => DrainEndsByFailureOnly'
<1> SUFFICES ASSUME Base, Line, Kept, DrainEndsByFailureOnly, [Next]_vars,
                    emitterRestarts' = 0, up', faults' = 0
             PROVE  drain' # "Stopped"
  BY DEF DrainEndsByFailureOnly, DrainRunsWhileUp
<1>1. emitterRestarts = 0 /\ faults = 0
  BY BoundsGrow
<1>2. CASE Stops
  <2>1. CASE ForwardRejected
    BY <1>1, <2>1, NextIsNew DEF ForwardRejected, Forwarding
  <2>2. CASE ForwardFails \/ JoinFails
    BY <1>1, <2>2 DEF ForwardFails, JoinFails, Fault
  <2>3. CASE Crash
    BY <2>3 DEF Crash
  <2> QED
    BY <1>2, <2>1, <2>2, <2>3 DEF Stops
<1>3. CASE Quiet
  <2>1. CASE FinishReclaim \/ Restart
    BY <2>1 DEF FinishReclaim, Restart
  <2>2. CASE OpenFails \/ BindFails
    BY <1>1, <2>2 DEF OpenFails, BindFails, Fault
  <2>3. CASE UNCHANGED vars
    BY <1>1, <2>3 DEF vars, failures, DrainEndsByFailureOnly, DrainRunsWhileUp
  <2> QED
    BY <1>3, <2>1, <2>2, <2>3 DEF Quiet
<1>4. CASE \/ \E c \in Components : Push(c) \/ RestartEmitter(c)
           \/ Collect \/ CollectFails \/ Forward \/ Reclaim
  <2>1. UNCHANGED <<drain, up>>
    BY <1>4 DEF Push, RestartEmitter, Collect, CollectFails, Forward, Reclaim
  <2> QED
    BY <1>1, <2>1 DEF DrainEndsByFailureOnly, DrainRunsWhileUp
<1> QED
  BY <1>2, <1>3, <1>4, StepCases

LEMMA DrainInvariant == Spec => [](Base /\ Line /\ Kept /\ DrainEndsByFailureOnly)
<1>1. Init => DrainEndsByFailureOnly
  BY DEF Init, DrainEndsByFailureOnly, DrainRunsWhileUp
<1> QED
  BY <1>1, LineInvariant, DrainStep, PTL DEF Spec

(* Nothing but a failure ends the drain task of a daemon that is up:       *)
(* no sequence of batches, reclaims and crashes makes the store refuse an  *)
(* event of an emitter that goes on counting (runtime.rs, the drain loop). *)
THEOREM DrainEndsOnlyByFailure == Spec => []DrainEndsByFailureOnly
BY DrainInvariant, PTL

-----------------------------------------------------------------------------
LEMMA OldestStep == Base /\ Line /\ Kept /\ ReclaimsOldestOfComponent /\ [Next]_vars
                      => ReclaimsOldestOfComponent'
<1> SUFFICES ASSUME Base, Line, Kept, ReclaimsOldestOfComponent, [Next]_vars, emitterRestarts' = 0,
                    NEW m \in 1 .. Len(trail'), NEW n \in 1 .. Len(trail'), m < n,
                    trail'[m].component = trail'[n].component, trail'[n] \in gone'
             PROVE  trail'[m] \in gone'
  BY DEF ReclaimsOldestOfComponent
<1>0. /\ emitterRestarts = 0 /\ Len(trail) \in Nat
      /\ \A i \in 1 .. Len(trail) : trail[i] \in Event
  BY BoundsGrow, Elements
<1>1. CASE UNCHANGED table
  BY <1>0, <1>1 DEF table, ReclaimsOldestOfComponent
<1>2. CASE Forward
  <2>1. /\ Len(trail') = Len(trail) + 1 /\ trail'[Len(trail) + 1] = batch[1]
        /\ \A i \in 1 .. Len(trail) : trail'[i] = trail[i]
        /\ gone' = gone /\ 1 \in 1 .. Len(batch) /\ batch[1] \in Event
    BY <1>2, ForwardEffect, Elements
  <2>2. n # Len(trail) + 1
    <3> SUFFICES ASSUME n = Len(trail) + 1 PROVE FALSE
      OBVIOUS
    <3>1. PICK i \in 1 .. Len(trail) : trail[i] = batch[1]
      BY <2>1 DEF Kept
    <3>2. trail[i].ordinal < batch[1].ordinal /\ batch[1].ordinal \in Nat
      BY <2>1 DEF Line, Before, Precedes, Event
    <3> QED
      BY <3>1, <3>2
  <2>3. n \in 1 .. Len(trail) /\ m \in 1 .. Len(trail)
    BY <1>0, <2>1, <2>2
  <2> QED
    BY <1>0, <2>1, <2>3 DEF ReclaimsOldestOfComponent
<1>3. CASE Reclaim
  <2>1. PICK k \in DOMAIN rows :
          (\A j \in DOMAIN rows : KeyBefore(k, j)) /\ gone' = gone \cup {rows[k]} /\ trail' = trail
    BY <1>3, ReclaimEffect
  <2>2. CASE trail[n] \in gone
    BY <1>0, <2>1, <2>2 DEF ReclaimsOldestOfComponent
  <2>3. CASE trail[n] = rows[k] /\ trail[m] \notin gone
    <3>1. trail[m] \in Stored
      BY <2>1, <2>3 DEF Kept
    <3>2. PICK j \in DOMAIN rows : trail[m] = rows[j]
      BY <3>1 DEF Stored
    <3>3. j = RecordKey(trail[m]) /\ k = RecordKey(trail[n])
      BY <2>3, <3>2 DEF Base, TypeOK
    <3>4. trail[m].sequence < trail[n].sequence /\ trail[m].component = trail[n].component
      BY <1>0, <2>1 DEF Line, Increasing, Precedes
    <3>5. /\ trail[m].sequence \in Nat /\ trail[n].sequence \in Nat
          /\ trail[m].component \in Nat /\ trail[n].component \in Nat
      BY <1>0, <2>1, TraceAssumption DEF Event
    <3>6. KeyBefore(k, j)
      BY <2>1
    <3> QED
      BY <3>3, <3>4, <3>5, <3>6 DEF KeyBefore, RecordKey
  <2> QED
    BY <2>1, <2>2, <2>3
<1> QED
  BY <1>1, <1>2, <1>3, StepCases DEF Push, RestartEmitter, Collect, CollectFails, Stops, Quiet

(* Retention takes the rows of a component in the order they were          *)
(* recorded (store.rs, reclaim_component_trace_events), as long as its     *)
(* emitter goes on counting.                                               *)
THEOREM OldestOfComponentIsReclaimed == Spec => []ReclaimsOldestOfComponent
<1>1. Init => ReclaimsOldestOfComponent
  <2> SUFFICES ASSUME Init PROVE gone = {}
    BY DEF ReclaimsOldestOfComponent
  <2> QED
    BY DEF Init
<1> QED
  BY <1>1, LineInvariant, OldestStep, PTL DEF Spec

-----------------------------------------------------------------------------
(* A store that is not reclaiming the table is within the cap, unless it   *)
(* has cut a reclaim short and not made up for it.                         *)
Room == up /\ ~reclaiming /\ ~unreclaimed => ~Excess

(* Every step of the table is one of BoundedTable or leaves it alone.      *)
LEMMA TableStep ==
  ASSUME Room, [Next]_vars
  PROVE  Room' /\ [Table!Next]_(Table!vars)
<1> DEFINE settled == up /\ ~reclaiming /\ ~unreclaimed
<1>0. Table!Over = Excess /\ (Table!Over)' = Excess'
  BY DEF Table!Over, Excess, Cardinality, Table!Cardinality
<1>1. CASE \/ \E c \in Components : Push(c) \/ RestartEmitter(c)
           \/ Collect \/ CollectFails \/ ForwardRejected \/ JoinFails \/ UNCHANGED vars
  <2>1. UNCHANGED <<rows, up, reclaiming, unreclaimed>>
    BY <1>1 DEF Push, RestartEmitter, Collect, CollectFails, ForwardRejected, JoinFails, vars,
                table, failures
  <2> QED
    BY <2>1 DEF Room, Excess, Table!vars
<1>2. CASE Crash \/ Restart \/ OpenFails
  <2>1. (~up' \/ reclaiming') /\ rows' = rows
    BY <1>2 DEF Crash, Restart, OpenFails, table
  <2>2. settled' = FALSE
    BY <2>1
  <2> QED
    BY <2>1, <2>2 DEF Room, Table!Next, Table!Doubt
<1>3. CASE Forward
  <2> DEFINE k == RecordKey(Head(batch))
  <2>1. /\ k \in DOMAIN rows' \ DOMAIN rows /\ reclaiming'
        /\ rows' = [j \in DOMAIN rows \cup {k} |-> IF j = k THEN rows'[k] ELSE rows[j]]
    BY <1>3 DEF Forward
  <2>2. settled' = FALSE
    BY <2>1
  <2> QED
    BY <2>1, <2>2 DEF Room, Table!Next, Table!Add
<1>4. CASE ForwardFails
  <2>1. /\ UNCHANGED <<rows, up>> /\ ~reclaiming'
        /\ unreclaimed' = (unreclaimed \/ reclaiming)
    BY <1>4 DEF ForwardFails, table
  <2>2. Room'
    BY <2>1 DEF Room, Excess
  <2>3. CASE settled'
    BY <1>0, <2>1, <2>2, <2>3 DEF Room, Table!Next, Table!Settle
  <2>4. CASE ~settled'
    <3>1. settled' = FALSE /\ rows' = rows
      BY <2>1, <2>4
    <3> QED
      BY <2>2, <3>1 DEF Table!Next, Table!Doubt
  <2> QED
    BY <2>2, <2>3, <2>4
<1>5. CASE Reclaim
  <2>1. UNCHANGED <<up, reclaiming, unreclaimed>> /\ reclaiming
    BY <1>5 DEF Reclaim, failures
  <2> QED
    BY <1>0, <1>5, <2>1 DEF Reclaim, Victims, Room, Table!Next, Table!Take
<1>6. CASE FinishReclaim \/ BindFails
  <2>1. UNCHANGED <<rows, up>> /\ ~Excess /\ ~Excess'
    BY <1>6 DEF FinishReclaim, BindFails, table, Excess
  <2>2. CASE settled'
    BY <1>0, <2>1, <2>2 DEF Room, Table!Next, Table!Settle
  <2>3. CASE ~settled'
    BY <2>1, <2>3 DEF Room, Table!Next, Table!Doubt
  <2> QED
    BY <2>2, <2>3
<1> QED
  BY <1>1, <1>2, <1>3, <1>4, <1>5, <1>6 DEF Next, DaemonStep

(* The component-trace table implements BoundedTable (store.rs,            *)
(* record_component_trace_event and reclaim_component_trace_events),       *)
(* whatever fails or dies.                                                 *)
THEOREM ComponentTraceImplementsTable == Spec => ImplementsTable
<1>1. Init => Room /\ Table!Init
  <2> SUFFICES ASSUME Init PROVE Room /\ Table!Init
    OBVIOUS
  <2>1. Cardinality(DOMAIN rows) = 0
    BY FS_EmptySet DEF Init
  <2>2. Room
    BY <2>1, TraceAssumption DEF Room, Excess
  <2> QED
    BY <2>2 DEF Init, Table!Init
<1>2. Spec => []Room
  BY <1>1, TableStep, PTL DEF Spec
<1> QED
  BY <1>1, <1>2, TableStep, PTL DEF Spec, ImplementsTable, Table!Spec

-----------------------------------------------------------------------------
Ordinals == {e.ordinal : e \in UNION {ToSet(socket), ToSet(batch), Stored, gone, lost}}

\* Nothing restarted or failed so far.
Calm == emitterRestarts = 0 /\ faults = 0 /\ restarts = 0

(* EveryEventIsSomewhere, its five places spelt out.                       *)
Somewhere ==
    /\ Ordinals = 0 .. pushed - 1
    /\ ToSet(socket) \cap (ToSet(batch) \cup Stored \cup gone \cup lost) = {}
    /\ ToSet(batch) \cap (Stored \cup gone \cup lost) = {}
    /\ Stored \cap (gone \cup lost) = {}
    /\ gone \cap lost = {}
    /\ Calm => lost = {}

LEMMA SomewhereIsEverywhere == Base /\ Somewhere => EveryEventIsSomewhere
<1> SUFFICES ASSUME Base, Somewhere PROVE EveryEventIsSomewhere
  OBVIOUS
<1> DEFINE places == <<ToSet(socket), ToSet(batch), Stored, gone, lost>>
<1>1. /\ places[1] = ToSet(socket) /\ places[2] = ToSet(batch) /\ places[3] = Stored
      /\ places[4] = gone /\ places[5] = lost
  OBVIOUS
<1>2. \A i : i \in 1 .. 5 <=> i = 1 \/ i = 2 \/ i = 3 \/ i = 4 \/ i = 5
  OBVIOUS
<1> HIDE DEF places
<1>3. {places[i] : i \in 1 .. 5} = {ToSet(socket), ToSet(batch), Stored, gone, lost}
  BY <1>1, <1>2
<1>4. {e.ordinal : e \in UNION {places[i] : i \in 1 .. 5}} = 0 .. pushed - 1
  BY <1>3 DEF Somewhere, Ordinals
<1>5. \A i, j \in 1 .. 5 : i < j => places[i] \cap places[j] = {}
  BY <1>1, <1>2 DEF Somewhere
<1>6. emitterRestarts + faults + restarts = 0 => Calm
  BY DEF Base, Calm
<1> QED
  BY <1>4, <1>5, <1>6 DEF Somewhere, EveryEventIsSomewhere, places

(* What a sequence holds once one of its ends is taken away.               *)
LEMMA Halves ==
  ASSUME NEW s, NEW t, NEW u, NEW n \in Nat, Len(s) \in Nat, n <= Len(s), Increasing(s, emitterRestarts),
         \A i \in 1 .. Len(s) : s[i] \in Event,
         Len(t) = n, \A i \in 1 .. n : t[i] = s[i],
         Len(u) = Len(s) - n, \A i \in 1 .. Len(u) : u[i] = s[n + i]
  PROVE  ToSet(s) = ToSet(t) \cup ToSet(u) /\ ToSet(t) \cap ToSet(u) = {}
<1>1. \A i \in 1 .. Len(u) : n + i \in 1 .. Len(s)
  OBVIOUS
<1>2. \A i \in 1 .. Len(s) : i \in 1 .. n \/ (i - n \in 1 .. Len(u) /\ n + (i - n) = i)
  OBVIOUS
<1>3. ToSet(s) \subseteq ToSet(t) \cup ToSet(u)
  <2> SUFFICES ASSUME NEW i \in 1 .. Len(s) PROVE s[i] \in ToSet(t) \cup ToSet(u)
    BY DEF ToSet
  <2>1. CASE i \in 1 .. n
    BY <2>1 DEF ToSet
  <2>2. CASE i - n \in 1 .. Len(u) /\ n + (i - n) = i
    BY <2>2 DEF ToSet
  <2> QED
    BY <1>2, <2>1, <2>2
<1>4. ToSet(t) \subseteq ToSet(s) /\ ToSet(u) \subseteq ToSet(s)
  <2>1. \A i \in 1 .. n : i \in 1 .. Len(s)
    OBVIOUS
  <2> QED
    BY <1>1, <2>1 DEF ToSet
<1>5. ASSUME NEW i \in 1 .. n, NEW j \in 1 .. Len(u)
      PROVE  t[i] # u[j]
  <2>1. i \in 1 .. Len(s) /\ n + j \in 1 .. Len(s) /\ i < n + j /\ t[i] = s[i] /\ u[j] = s[n + j]
    BY <1>1
  <2>2. s[i].ordinal < s[n + j].ordinal /\ s[i].ordinal \in Nat
    BY <2>1 DEF Increasing, Precedes, Event
  <2> QED
    BY <2>1, <2>2
<1> QED
  BY <1>3, <1>4, <1>5 DEF ToSet

LEMMA SameSomewhere ==
  ASSUME Somewhere, Calm' => Calm,
         UNCHANGED <<pushed, socket, batch, rows, gone, lost>>
  PROVE  Somewhere'
<1>1. ToSet(socket') = ToSet(socket) /\ ToSet(batch') = ToSet(batch) /\ Stored' = Stored
  BY DEF Stored
<1>2. Ordinals' = Ordinals
  BY <1>1 DEF Ordinals
<1> QED
  BY <1>1, <1>2 DEF Somewhere

LEMMA SomewhereStep == Base /\ Line /\ Kept /\ DrainEndsByFailureOnly /\ Somewhere /\ [Next]_vars
                         => Somewhere'
<1> SUFFICES ASSUME Base, Line, Kept, DrainEndsByFailureOnly, Somewhere, [Next]_vars PROVE Somewhere'
  OBVIOUS
<1>0. /\ Len(trail) \in Nat /\ Len(batch) \in Nat /\ Len(socket) \in Nat /\ pushed \in Nat
      /\ \A i \in 1 .. Len(batch) : batch[i] \in Event
      /\ \A i \in 1 .. Len(socket) : socket[i] \in Event
  BY Elements DEF Base
<1>1. Calm' => Calm
  BY BoundsGrow DEF Calm
<1>2. ASSUME NEW c \in Components, Push(c)
      PROVE  Somewhere'
  <2> DEFINE e == Pushed(c)
  <2>1. /\ pushed' = pushed + 1 /\ UNCHANGED <<batch, rows, gone, emitterRestarts, faults, restarts, drain, up>>
        /\ e.ordinal = pushed
    BY <1>2, PushEffect DEF table, failures, Pushed
  <2>2. \A f \in UNION {ToSet(socket), ToSet(batch), Stored, gone, lost} : f.ordinal \in 0 .. pushed - 1
    BY DEF Somewhere, Ordinals
  <2>3. e \notin UNION {ToSet(socket), ToSet(batch), Stored, gone, lost}
    BY <1>0, <2>1, <2>2
  <2>4. 0 .. pushed' - 1 = (0 .. pushed - 1) \cup {pushed}
    BY <1>0, <2>1
  <2>5. CASE ToSet(socket') = ToSet(socket) \cup {e} /\ lost' = lost
    <3>1. ToSet(batch') = ToSet(batch) /\ Stored' = Stored
      BY <2>1 DEF ToSet, Stored
    <3>2. Ordinals' = Ordinals \cup {e.ordinal}
      BY <2>1, <2>5, <3>1 DEF Ordinals
    <3> QED
      BY <1>1, <2>1, <2>3, <2>4, <2>5, <3>1, <3>2 DEF Somewhere
  <2>6. CASE drain # "Collecting" /\ socket' = socket /\ lost' = lost \cup {e}
    <3>1. ToSet(batch') = ToSet(batch) /\ ToSet(socket') = ToSet(socket) /\ Stored' = Stored
      BY <2>1, <2>6 DEF ToSet, Stored
    <3>2. Ordinals' = Ordinals \cup {e.ordinal}
      BY <2>1, <2>6, <3>1 DEF Ordinals
    <3>3. ~Calm'
      BY <1>1, <2>6 DEF Calm, Base, TypeOK, DrainEndsByFailureOnly, DrainRunsWhileUp
    <3> QED
      BY <2>1, <2>3, <2>4, <2>6, <3>1, <3>2, <3>3 DEF Somewhere
  <2>7. \/ ToSet(socket') = ToSet(socket) \cup {e} /\ lost' = lost
        \/ drain # "Collecting" /\ socket' = socket /\ lost' = lost \cup {e}
    <3>1. ASSUME Len(socket') = Len(socket) + 1, \A i \in 1 .. Len(socket) : socket'[i] = socket[i],
                 socket'[Len(socket) + 1] = e
          PROVE  ToSet(socket') = ToSet(socket) \cup {e}
      <4>1. \A i \in 1 .. Len(socket') : (i \in 1 .. Len(socket) /\ socket'[i] = socket[i]) \/ socket'[i] = e
        BY <1>0, <3>1
      <4>2. Len(socket) + 1 \in 1 .. Len(socket') /\ \A i \in 1 .. Len(socket) : i \in 1 .. Len(socket')
        BY <1>0, <3>1
      <4> QED
        BY <3>1, <4>1, <4>2 DEF ToSet
    <3> QED
      BY <1>2, <3>1, PushEffect
  <2> QED
    BY <2>5, <2>6, <2>7
<1>3. ASSUME NEW c \in Components, RestartEmitter(c)
      PROVE  Somewhere'
  <2>1. UNCHANGED <<pushed, socket, batch, rows, gone, lost>> /\ ~Calm'
    BY <1>3 DEF RestartEmitter, table, Base, Calm
  <2> QED
    BY <2>1, SameSomewhere
<1>4. CASE Collect
  <2>1. PICK n \in 1 .. Len(socket) : /\ batch' = SubSeq(socket, 1, n)
                                      /\ socket' = SubSeq(socket, n + 1, Len(socket))
    BY <1>4 DEF Collect
  <2>2. batch = <<>> /\ UNCHANGED <<pushed, rows, gone, lost, emitterRestarts, faults, restarts>>
    BY <1>4 DEF Collect, Idle, emitters, table, failures
  <2>3. ToSet(socket) = ToSet(batch') \cup ToSet(socket') /\ ToSet(batch') \cap ToSet(socket') = {}
    <3>1. /\ Len(batch') = n /\ \A i \in 1 .. n : batch'[i] = socket[i]
          /\ Len(socket') = Len(socket) - n /\ \A i \in 1 .. Len(socket') : socket'[i] = socket[n + i]
      BY <2>1, WindowEffect DEF Window
    <3>2. n \in Nat /\ n <= Len(socket) /\ Increasing(socket, emitterRestarts)
      BY <1>0 DEF Line
    <3>3. \A t, u :
            /\ Len(t) = n /\ \A i \in 1 .. n : t[i] = socket[i]
            /\ Len(u) = Len(socket) - n /\ \A i \in 1 .. Len(u) : u[i] = socket[n + i]
            => ToSet(socket) = ToSet(t) \cup ToSet(u) /\ ToSet(t) \cap ToSet(u) = {}
      BY <1>0, <3>2, Halves
    <3> QED
      BY <3>1, <3>3
  <2>4. ToSet(batch) = {}
    BY <2>2, EmptySeq DEF ToSet
  <2>5. Ordinals' = Ordinals
    BY <2>2, <2>3, <2>4 DEF Ordinals, Stored
  <2> QED
    BY <1>1, <2>2, <2>3, <2>4, <2>5 DEF Somewhere, Stored, Calm
<1>5. CASE CollectFails
  <2>1. PICK n \in 1 .. Len(socket) : /\ socket' = SubSeq(socket, n + 1, Len(socket))
                                      /\ lost' = lost \cup ToSet(SubSeq(socket, 1, n))
    BY <1>5 DEF CollectFails
  <2> DEFINE taken == SubSeq(socket, 1, n)
  <2>2. UNCHANGED <<pushed, rows, gone, batch>> /\ faults' = faults + 1
    BY <1>5 DEF CollectFails, Fault, emitters, table
  <2>3. ToSet(socket) = ToSet(taken) \cup ToSet(socket') /\ ToSet(taken) \cap ToSet(socket') = {}
    <3>1. /\ Len(taken) = n /\ \A i \in 1 .. n : taken[i] = socket[i]
          /\ Len(socket') = Len(socket) - n /\ \A i \in 1 .. Len(socket') : socket'[i] = socket[n + i]
      BY <2>1, WindowEffect DEF Window
    <3>2. n \in Nat /\ n <= Len(socket) /\ Increasing(socket, emitterRestarts)
      BY <1>0 DEF Line
    <3>3. \A t, u :
            /\ Len(t) = n /\ \A i \in 1 .. n : t[i] = socket[i]
            /\ Len(u) = Len(socket) - n /\ \A i \in 1 .. Len(u) : u[i] = socket[n + i]
            => ToSet(socket) = ToSet(t) \cup ToSet(u) /\ ToSet(t) \cap ToSet(u) = {}
      BY <1>0, <3>2, Halves
    <3> QED
      BY <3>1, <3>3
  <2>4. Ordinals' = Ordinals
    BY <2>1, <2>2, <2>3 DEF Ordinals, Stored
  <2>5. ~Calm'
    BY <2>2 DEF Calm, Base
  <2> QED
    BY <2>1, <2>2, <2>3, <2>4, <2>5 DEF Somewhere, Stored
<1>6. CASE Forward
  <2> DEFINE e == Head(batch)
  <2>1. /\ Len(batch') = Len(batch) - 1 /\ \A i \in 1 .. Len(batch') : batch'[i] = batch[1 + i]
        /\ 1 \in 1 .. Len(batch) /\ e = batch[1]
        /\ UNCHANGED <<pushed, socket, gone, lost, emitterRestarts, faults, restarts>>
    BY <1>6, ForwardEffect DEF emitters, failures
  <2>2. Stored' = Stored \cup {e}
    <3>1. /\ DOMAIN rows' = DOMAIN rows \cup {RecordKey(e)} /\ rows'[RecordKey(e)] = e
          /\ \A k \in DOMAIN rows : rows'[k] = rows[k]
      BY <1>6, ForwardEffect
    <3> QED
      BY <3>1 DEF Stored
  <2>3. ToSet(batch) = {e} \cup ToSet(batch') /\ e \notin ToSet(batch')
    <3>1. Len(<<e>>) = 1 /\ \A i \in 1 .. 1 : <<e>>[i] = batch[i]
      BY <2>1
    <3>2. ToSet(<<e>>) = {e}
      BY <3>1, <2>1 DEF ToSet
    <3>3. /\ 1 \in Nat /\ 1 <= Len(batch) /\ Increasing(batch, emitterRestarts)
          /\ Len(batch') = Len(batch) - 1 /\ \A i \in 1 .. Len(batch') : batch'[i] = batch[1 + i]
      BY <1>0, <2>1 DEF Line
    <3>4. \A t : Len(t) = 1 /\ (\A i \in 1 .. 1 : t[i] = batch[i])
                => ToSet(batch) = ToSet(t) \cup ToSet(batch') /\ ToSet(t) \cap ToSet(batch') = {}
      BY <1>0, <3>3, Halves
    <3> QED
      BY <3>1, <3>2, <3>4
  <2>4. Ordinals' = Ordinals
    BY <2>1, <2>2, <2>3 DEF Ordinals
  <2> QED
    BY <1>1, <2>1, <2>2, <2>3, <2>4 DEF Somewhere
<1>7. CASE Reclaim
  <2>1. PICK k \in DOMAIN rows :
          /\ DOMAIN rows' = DOMAIN rows \ {k} /\ \A j \in DOMAIN rows' : rows'[j] = rows[j]
          /\ gone' = gone \cup {rows[k]}
          /\ UNCHANGED <<emitters, socket, batch, lost, failures>>
    BY <1>7, ReclaimEffect
  <2>2. Stored = Stored' \cup {rows[k]} /\ rows[k] \notin Stored'
    <3>1. \A j \in DOMAIN rows : rows[j] = rows[k] => j = k
      BY DEF Base, TypeOK
    <3> QED
      BY <2>1, <3>1 DEF Stored
  <2>3. Ordinals' = Ordinals
    BY <2>1, <2>2 DEF Ordinals, ToSet
  <2> QED
    <3>1. /\ ToSet(socket') = ToSet(socket) /\ ToSet(batch') = ToSet(batch)
          /\ UNCHANGED <<pushed, lost>>
      BY <2>1 DEF emitters
    <3> QED
      BY <1>1, <2>1, <2>2, <2>3, <3>1 DEF Somewhere
<1>8. CASE Stops
  <2>1. /\ lost' = lost \cup ToSet(batch) \cup ToSet(socket) /\ batch' = <<>> /\ socket' = <<>>
        /\ UNCHANGED <<pushed, rows, gone>>
    BY <1>8 DEF Stops, StopDrain, emitters, table
  <2>2. ToSet(batch') = {} /\ ToSet(socket') = {} /\ Stored' = Stored
    BY <2>1, EmptySeq DEF ToSet, Stored
  <2>3. Ordinals' = Ordinals
    BY <2>1, <2>2 DEF Ordinals
  <2>4. ~Calm'
    <3>1. CASE ForwardRejected
      BY <1>1, <3>1, NextIsNew DEF ForwardRejected, Forwarding, Calm
    <3>2. CASE ForwardFails \/ JoinFails \/ Crash
      BY <3>2 DEF ForwardFails, JoinFails, Fault, Crash, Calm, Base
    <3> QED
      BY <1>8, <3>1, <3>2 DEF Stops
  <2> QED
    BY <2>1, <2>2, <2>3, <2>4 DEF Somewhere
<1>9. CASE Quiet
  <2>1. UNCHANGED <<pushed, socket, batch, rows, gone, lost>>
    BY <1>9 DEF Quiet, emitters, table
  <2> QED
    BY <1>1, <2>1, SameSomewhere
<1> QED
  BY <1>2, <1>3, <1>4, <1>5, <1>6, <1>7, <1>8, <1>9, StepCases

(* Every event pushed is in exactly one place: the socket, the drain       *)
(* task's hands, the table, what retention took, or lost; and none is lost *)
(* while nothing fails or restarts (runtime.rs, the drain loop; store.rs,  *)
(* the component trace).                                                   *)
THEOREM EventsAreSomewhere == Spec => []EveryEventIsSomewhere
<1>1. Init => Somewhere
  <2> SUFFICES ASSUME Init PROVE Somewhere
    OBVIOUS
  <2>1. ToSet(socket) = {} /\ ToSet(batch) = {} /\ Stored = {} /\ gone = {} /\ lost = {} /\ pushed = 0
    BY EmptySeq DEF Init, ToSet, Stored
  <2> QED
    BY <2>1 DEF Somewhere, Ordinals
<1> QED
  BY <1>1, DrainInvariant, SomewhereStep, SomewhereIsEverywhere, PTL DEF Spec

-----------------------------------------------------------------------------
\* Events still to be pushed, and whether a reclaim and the drain task have
\* still to end.
Unpushed == PushBound - pushed

Reclaims == (IF reclaiming THEN 1 ELSE 0) + (IF drain = "Stopped" THEN 0 ELSE 1)

\* A bound on the steps to come before the next crash or restart: an event is
\* pushed, collected, asserted, and may be reclaimed, and every assertion ends
\* with a reclaim that finds nothing more to take.
StepsLeft ==
    5 * Unpushed + 4 * Len(socket) + 3 * Len(batch)
      + Cardinality(DOMAIN rows) + Reclaims

\* The parts of StepsLeft are numbers.
LEMMA StepsLeftType ==
  ASSUME Base
  PROVE  /\ Unpushed \in Nat
         /\ Len(socket) \in Nat /\ Len(batch) \in Nat
         /\ Cardinality(DOMAIN rows) \in Nat /\ Reclaims \in 0 .. 2 /\ StepsLeft \in Nat
<1>1. Unpushed \in Nat
  BY TraceAssumption DEF Base, Unpushed
<1>2. Len(socket) \in Nat /\ Len(batch) \in Nat
  BY LenProperties DEF Base
<1>3. Cardinality(DOMAIN rows) \in Nat
  BY FS_CardinalityType DEF Base
<1>4. Reclaims \in 0 .. 2
  BY DEF Reclaims
<1> QED
  BY <1>1, <1>2, <1>3, <1>4 DEF StepsLeft

\* The drain task that ends leaves nothing to do for a table at rest.
LEMMA StopDescends ==
  ASSUME Base, StopDrain, ~reclaiming', UNCHANGED <<pushed, rows>>, drain # "Stopped"
  PROVE  StepsLeft' < StepsLeft
<1>0. /\ Unpushed \in Nat
      /\ Len(socket) \in Nat /\ Len(batch) \in Nat
      /\ Cardinality(DOMAIN rows) \in Nat /\ Reclaims \in 0 .. 2
  BY StepsLeftType
<1>1. /\ Len(socket') = 0 /\ Len(batch') = 0 /\ Reclaims' = 0
      /\ Unpushed' = Unpushed /\ Cardinality(DOMAIN rows') = Cardinality(DOMAIN rows)
  BY EmptySeq DEF StopDrain, Reclaims, Unpushed
<1>2. Reclaims > 0
  BY DEF Reclaims
<1> QED
  BY <1>0, <1>1, <1>2 DEF StepsLeft

\* Every step but a crash and a restart takes something off.
LEMMA StepDescends ==
  ASSUME Base, Next, ~Crash, ~Restart, \A c \in Components : ~RestartEmitter(c)
  PROVE  StepsLeft' < StepsLeft
<1>0. /\ Unpushed \in Nat
      /\ Len(socket) \in Nat /\ Len(batch) \in Nat
      /\ Cardinality(DOMAIN rows) \in Nat /\ Reclaims \in 0 .. 2
  BY StepsLeftType
<1>1. ASSUME NEW c \in Components, Push(c)
      PROVE  StepsLeft' < StepsLeft
  <2>1. /\ Unpushed' = Unpushed - 1
        /\ Len(batch') = Len(batch) /\ Cardinality(DOMAIN rows') = Cardinality(DOMAIN rows)
        /\ reclaiming' = reclaiming /\ drain' = drain
        /\ Len(socket') \in {Len(socket), Len(socket) + 1}
    BY <1>1, PushEffect, TraceAssumption DEF table, Unpushed
  <2>2. Reclaims' = Reclaims
    BY <2>1 DEF Reclaims
  <2> QED
    BY <1>0, <2>1, <2>2 DEF StepsLeft
<1>2. CASE Collect
  <2>1. PICK n \in 1 .. Len(socket) : /\ batch' = SubSeq(socket, 1, n)
                                      /\ socket' = SubSeq(socket, n + 1, Len(socket))
    BY <1>2 DEF Collect
  <2>2. Len(socket') = Len(socket) - n /\ Len(batch') = n /\ Len(batch) = 0
    BY <1>2, <2>1, WindowEffect, EmptySeq DEF Window, Collect, Idle
  <2>3. Unpushed' = Unpushed /\ Cardinality(DOMAIN rows') = Cardinality(DOMAIN rows) /\ Reclaims' = Reclaims
    BY <1>2 DEF Collect, emitters, table, Reclaims, Unpushed
  <2> QED
    BY <1>0, <2>2, <2>3 DEF StepsLeft
<1>3. CASE CollectFails
  <2>1. PICK n \in 1 .. Len(socket) : socket' = SubSeq(socket, n + 1, Len(socket))
    BY <1>3 DEF CollectFails
  <2>2. Len(socket') = Len(socket) - n
    BY <2>1, WindowEffect DEF Window
  <2>3. /\ Unpushed' = Unpushed /\ Cardinality(DOMAIN rows') = Cardinality(DOMAIN rows)
        /\ Len(batch') = Len(batch) /\ Reclaims' = Reclaims
    BY <1>3 DEF CollectFails, emitters, table, Reclaims, Unpushed
  <2> QED
    BY <1>0, <2>2, <2>3 DEF StepsLeft
<1>4. CASE Forward
  <2>1. /\ RecordKey(Head(batch)) \notin DOMAIN rows
        /\ DOMAIN rows' = DOMAIN rows \cup {RecordKey(Head(batch))}
    BY <1>4, ForwardEffect
  <2>2. Cardinality(DOMAIN rows') = Cardinality(DOMAIN rows) + 1
    BY <2>1, FS_AddElement DEF Base
  <2>3. Reclaims = 1 /\ Reclaims' = 2
    BY <1>4 DEF Forward, Forwarding, Reclaims
  <2>4. Len(batch') = Len(batch) - 1 /\ Unpushed' = Unpushed /\ Len(socket') = Len(socket)
    BY <1>4, ForwardEffect DEF emitters, Unpushed
  <2> QED
    BY <1>0, <2>2, <2>3, <2>4 DEF StepsLeft
<1>5. CASE Reclaim
  <2>1. PICK k \in DOMAIN rows : DOMAIN rows' = DOMAIN rows \ {k}
    BY <1>5, ReclaimEffect
  <2>2. Cardinality(DOMAIN rows') = Cardinality(DOMAIN rows) - 1
    BY <2>1, FS_RemoveElement DEF Base
  <2>3. Unpushed' = Unpushed /\ Len(socket') = Len(socket) /\ Len(batch') = Len(batch) /\ Reclaims' = Reclaims
    BY <1>5 DEF Reclaim, emitters, Reclaims, Unpushed
  <2> QED
    BY <1>0, <2>2, <2>3 DEF StepsLeft
<1>6. CASE FinishReclaim \/ OpenFails \/ BindFails
  <2>1. /\ Unpushed' = Unpushed /\ Len(socket') = Len(socket) /\ Len(batch') = Len(batch)
        /\ Cardinality(DOMAIN rows') = Cardinality(DOMAIN rows) /\ Reclaims = 2 /\ Reclaims' \in 0 .. 1
    BY <1>6 DEF FinishReclaim, OpenFails, BindFails, emitters, table, Reclaims, Unpushed, Base, TypeOK
  <2> QED
    BY <1>0, <2>1 DEF StepsLeft
<1>7. CASE ForwardRejected \/ ForwardFails \/ JoinFails
  BY <1>7, StopDescends DEF ForwardRejected, ForwardFails, JoinFails, Idle, Forwarding, emitters, table
<1> QED
  BY <1>1, <1>2, <1>3, <1>4, <1>5, <1>6, <1>7 DEF Next, DaemonStep

\* Every non-empty set of naturals has a least element.
LEMMA LeastNatural ==
  ASSUME NEW T \in SUBSET Nat, T # {}
  PROVE  \E n \in T : \A m \in T : n <= m
<1>1. PICK less : /\ IsWellFoundedOn(less, Nat)
                  /\ \A m, n \in Nat : m < n => <<m, n>> \in less
  BY NatLessThanWellFounded DEF OpToRel
<1>2. IsWellFoundedOn(less, Nat)
  BY <1>1
<1>3. PICK n \in T : \A m \in T : ~(<<m, n>> \in less)
  BY <1>2, WFMin
<1>4. ASSUME NEW m \in T PROVE n <= m
  <2>1. m \in Nat /\ n \in Nat /\ ~(m < n)
    BY <1>1, <1>3
  <2> QED
    BY <2>1
<1> QED
  BY <1>3, <1>4

\* A table that holds rows has one a full scan returns first: of the component
\* that sorts first, the one with the lowest sequence.
LEMMA VictimExists ==
  ASSUME Base, DOMAIN rows # {}
  PROVE  Victims # {}
<1>1. ASSUME NEW k \in DOMAIN rows PROVE k[1] \in Nat /\ k[2] \in Nat
  <2>1. k = <<rows[k].component, rows[k].sequence>> /\ rows[k] \in Event
    BY DEF Base, TypeOK, RecordKey
  <2>2. k[1] = rows[k].component /\ k[2] = rows[k].sequence
    BY <2>1
  <2> QED
    BY <2>1, <2>2, TraceAssumption DEF Event
<1> DEFINE Names == {k[1] : k \in DOMAIN rows}
<1>2. PICK c \in Names : \A d \in Names : c <= d
  <2>1. Names \in SUBSET Nat /\ Names # {}
    BY <1>1
  <2> HIDE DEF Names
  <2> QED
    BY <2>1, LeastNatural
<1> DEFINE First == {k \in DOMAIN rows : k[1] = c}
           Sequences == {k[2] : k \in First}
<1>3. PICK n \in Sequences : \A m \in Sequences : n <= m
  <2>1. Sequences \in SUBSET Nat /\ Sequences # {}
    BY <1>1, <1>2
  <2> HIDE DEF Sequences
  <2> QED
    BY <2>1, LeastNatural
<1>4. PICK k \in First : k[2] = n
  BY <1>3
<1>5. ASSUME NEW j \in DOMAIN rows PROVE KeyBefore(k, j)
  <2>1. k[1] = c /\ c <= j[1] /\ c \in Nat /\ j[1] \in Nat
    BY <1>1, <1>2, <1>4
  <2>2. CASE j[1] = c
    <3>1. n <= j[2]
      BY <1>3, <2>2
    <3> QED
      BY <1>4, <2>1, <2>2, <3>1 DEF KeyBefore
  <2>3. CASE j[1] # c
    BY <2>1, <2>3 DEF KeyBefore
  <2> QED
    BY <2>2, <2>3
<1> QED
  BY <1>4, <1>5 DEF Victims

\* What the daemon needs for its next step: events on the socket to collect,
\* one in hand to record, a row to reclaim, or a reclaim to end.
CanGoOn ==
    \/ Idle /\ socket # <<>>
    \/ Forwarding
    \/ reclaiming /\ Excess /\ Victims # {}
    \/ reclaiming /\ ~Excess

(* No event waits for ever behind the batches and reclaims before it: as   *)
(* long as one is on the socket or in hand the daemon has a step to take,  *)
(* and between crashes and restarts every step, a failure included, leaves *)
(* fewer to come (runtime.rs, the drain loop of the trace listener;        *)
(* store.rs:262-276, 327-343).  With the fairness of the runtime that is   *)
(* EveryEventIsRecorded.                                                   *)
THEOREM TracesTerminate ==
  Spec => /\ [](/\ StepsLeft \in Nat
                /\ socket # <<>> \/ batch # <<>> \/ reclaiming => CanGoOn)
          /\ [][~(Crash \/ Restart \/ \E c \in Components : RestartEmitter(c))
                => StepsLeft' < StepsLeft]_vars
<1>1. Base => StepsLeft \in Nat
  BY StepsLeftType
<1>2. Base /\ (socket # <<>> \/ batch # <<>> \/ reclaiming) => CanGoOn
  <2> SUFFICES ASSUME Base, socket # <<>> \/ batch # <<>> \/ reclaiming PROVE CanGoOn
    OBVIOUS
  <2>1. CASE reclaiming /\ Excess
    <3>1. DOMAIN rows # {}
      BY <2>1, FS_EmptySet, TraceAssumption DEF Excess
    <3> QED
      BY <2>1, <3>1, VictimExists DEF CanGoOn
  <2>2. CASE ~(reclaiming /\ Excess)
    BY <2>2 DEF CanGoOn, Base, TypeOK, Idle, Forwarding
  <2> QED
    BY <2>1, <2>2
<1>3. Base /\ [Next]_vars
        => [~(Crash \/ Restart \/ \E c \in Components : RestartEmitter(c))
              => StepsLeft' < StepsLeft]_vars
  BY StepDescends
<1> QED
  BY <1>1, <1>2, <1>3, InitBase, BaseStep, PTL DEF Spec

-----------------------------------------------------------------------------
Size == Cardinality(DOMAIN rows)

\* A drain task that collects has left the table within its cap, so that one
\* assertion puts it at most one over.
OneOver ==
    /\ drain = "Collecting" /\ ~reclaiming => Size <= ComponentTraceEvents
    /\ Size <= ComponentTraceEvents + 1

LEMMA OneOverStep ==
  ASSUME Base, OneOver, [Next]_vars
  PROVE  OneOver'
<1>0. Size \in Nat /\ ComponentTraceEvents \in Nat
  BY StepsLeftType, TraceAssumption DEF Size
<1>1. CASE \/ \E c \in Components : Push(c) \/ RestartEmitter(c)
           \/ Collect \/ CollectFails \/ Stops \/ UNCHANGED vars
  <2>1. rows' = rows
    BY <1>1 DEF Push, RestartEmitter, Collect, CollectFails, Stops, vars, table
  <2>2. drain' = "Stopped" \/ (drain' = drain /\ reclaiming' = reclaiming)
    BY <1>1 DEF Push, RestartEmitter, Collect, CollectFails, Stops, StopDrain, vars
  <2> QED
    BY <2>1, <2>2 DEF OneOver, Size
<1>2. CASE Forward
  <2>1. /\ RecordKey(Head(batch)) \notin DOMAIN rows
        /\ DOMAIN rows' = DOMAIN rows \cup {RecordKey(Head(batch))}
    BY <1>2, ForwardEffect
  <2>2. Size' = Size + 1
    BY <2>1, FS_AddElement DEF Base, Size
  <2>3. drain = "Collecting" /\ ~reclaiming /\ reclaiming'
    BY <1>2 DEF Forward, Forwarding
  <2> QED
    BY <1>0, <2>2, <2>3 DEF OneOver
<1>3. CASE Reclaim
  <2>1. PICK k \in DOMAIN rows : DOMAIN rows' = DOMAIN rows \ {k}
    BY <1>3, ReclaimEffect
  <2>2. Size' = Size - 1
    BY <2>1, FS_RemoveElement DEF Base, Size
  <2>3. reclaiming'
    BY <1>3 DEF Reclaim
  <2> QED
    BY <1>0, <2>2, <2>3 DEF OneOver
<1>4. CASE Quiet
  <2>1. Size' = Size
    BY <1>4 DEF Quiet, table, Size
  <2>2. CASE FinishReclaim
    <3>1. Size <= ComponentTraceEvents
      BY <1>0, <2>2 DEF FinishReclaim, Excess, Size
    <3> QED
      BY <2>1, <3>1 DEF OneOver
  <2>3. CASE Restart \/ OpenFails \/ BindFails
    BY <2>1, <2>3 DEF Restart, OpenFails, BindFails, OneOver
  <2> QED
    BY <1>1, <1>4, <2>2, <2>3 DEF Quiet
<1> QED
  BY <1>1, <1>2, <1>3, <1>4, StepCases

(* The component-trace table is never more than one row over its cap,      *)
(* whatever fails and however often the process dies: the first error ends *)
(* the drain task, and opening the table reclaims it before there is       *)
(* another (store.rs:262-276, 327-343; runtime.rs, the drain loop).        *)
THEOREM TraceTableIsBounded == Spec => [](Size <= ComponentTraceEvents + 1)
<1>1. Init => OneOver
  <2> SUFFICES ASSUME Init PROVE OneOver
    OBVIOUS
  <2>1. Size = 0
    BY FS_EmptySet DEF Init, Size
  <2> QED
    BY <2>1, TraceAssumption DEF OneOver
<1>2. OneOver => Size <= ComponentTraceEvents + 1
  BY DEF OneOver
<1> QED
  BY <1>1, <1>2, OneOverStep, InitBase, BaseStep, PTL DEF Spec
=============================================================================
