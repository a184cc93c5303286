----------------------- MODULE IntrospectionRootProofs -----------------------
(***************************************************************************)
(* Proofs about the root actor and its audit trail, for every finite set   *)
(* of requests, every cap, and any number of failures and restarts: what   *)
(* is recorded and under which number, what retention takes, how large the *)
(* table gets, and that no query waits behind work without end.            *)
(***************************************************************************)
EXTENDS IntrospectionRoot, FiniteSetTheorems, SequenceTheorems, TLAPS

Waiting == {r \in Requests : fate[r] = "Waiting"}

Queued == {mailbox[i] : i \in 1 .. Len(mailbox)}

\* The requests the root has received, in this session or an earlier one.
Taken == DOMAIN kind \ Queued

(* TypeOK made inductive: a request is in the mailbox once, or handled;    *)
(* the counter is at most the number of requests received.                 *)
Base ==
    /\ TypeOK
    /\ \A p, q \in handling : p = q
    /\ mailbox \in Seq(Requests)
    /\ \A i, j \in 1 .. Len(mailbox) : mailbox[i] = mailbox[j] => i = j
    /\ Queued \cap handling = {}
    /\ handled_queries <= Cardinality(Taken)
    /\ ~up => stage = "Idle" /\ mailbox = <<>> /\ restarts > 0
    /\ faults \in Nat /\ restarts \in Nat /\ unreclaimed \in BOOLEAN

-----------------------------------------------------------------------------
(* How a handler ends: with an answer only if nothing is to be recorded or *)
(* it was; with an error only if something failed or the key was taken.    *)
Ends(r, outcome) ==
    /\ stage \in {"Answering", "Recording", "Reclaiming"}
    /\ Reply(r, outcome)
    /\ UNCHANGED <<observations, trail, gone, restarts>>
    /\ outcome = "Answered" => ~Audited(kind[r]) \/ stage = "Reclaiming"
    /\ \/ /\ outcome = "Error" /\ faults' = faults + 1
          /\ unreclaimed' = (unreclaimed \/ stage = "Reclaiming")
       \/ /\ faults' = faults
          /\ outcome = "Error" => stage = "Recording" /\ handled_queries \in DOMAIN observations
          /\ IF stage = "Reclaiming" THEN ~Excess /\ unreclaimed' = FALSE
             ELSE unreclaimed' = unreclaimed

(* The steps of the root, by what they change.                             *)
LEMMA HandlerCases ==
  ASSUME HandlerStep
  PROVE  \/ Receive \/ ReclaimObservation \/ FinishOpen
         \/ \E r \in handling : \/ Answer(r) \/ AssertObservation(r)
                                \/ \E outcome \in {"Answered", "Error"} : Ends(r, outcome)
BY DEF HandlerStep, AnswerUnrecorded, AnswerFails, AssertionRejected, ReplyRecorded,
       RecordFails, Fault, CutShort, Ends, failures

(* Where a handler starts.                                                 *)
LEMMA FirstStages ==
  ASSUME NEW k
  PROVE  FirstStage(k) \in {"Connecting", "Answering"} /\ (FirstStage(k) = "Connecting" => k = "PrototypeWitness")
BY DEF FirstStage

(* The sizes the counter is measured by.                                   *)
LEMMA Sizes ==
  ASSUME Base
  PROVE  /\ IsFiniteSet(DOMAIN kind) /\ IsFiniteSet(Taken)
         /\ Cardinality(Taken) \in Nat /\ Cardinality(Requests) \in Nat
         /\ Cardinality(Taken) <= Cardinality(Requests)
         /\ handled_queries \in Nat
<1>1. Taken \subseteq Requests /\ DOMAIN kind \subseteq Requests
  BY DEF Base, TypeOK, Taken
<1>2. IsFiniteSet(Taken) /\ IsFiniteSet(DOMAIN kind)
  BY <1>1, FS_Subset, RootAssumption
<1>3. Cardinality(Taken) <= Cardinality(Requests)
  BY <1>1, FS_Subset, RootAssumption
<1>4. Cardinality(Requests) \in Nat
  BY FS_CardinalityType, RootAssumption
<1>5. Cardinality(Taken) \in Nat
  BY <1>2, FS_CardinalityType
<1> QED
  BY <1>2, <1>3, <1>4, <1>5 DEF Base, TypeOK

LEMMA SmallSets == Cardinality({}) <= 1 /\ \A r : Cardinality({r}) <= 1
BY FS_EmptySet, FS_Singleton

(* A request sent joins the mailbox.                                       *)
LEMMA SubmitBase ==
  ASSUME Base, NEW r \in Requests, NEW k \in Kinds, Submit(r, k)
  PROVE  Base'
<1>1. /\ up /\ stage # "Opening" /\ fate[r] = "Unsent"
      /\ fate' = [fate EXCEPT ![r] = "Waiting"]
      /\ kind' = [q \in DOMAIN kind \cup {r} |-> IF q = r THEN k ELSE kind[q]]
      /\ mailbox' = Append(mailbox, r)
      /\ UNCHANGED <<handling, stage, handled_queries, observations, up,
                     faults, restarts, unreclaimed>>
  BY DEF Submit, failures
<1>2. /\ fate \in [Requests -> Fates] /\ mailbox \in Seq(Requests)
      /\ DOMAIN kind = {q \in Requests : fate[q] # "Unsent"}
      /\ Waiting = handling \cup Queued
  BY DEF Base, TypeOK, Waiting, Queued
<1>3. /\ mailbox' \in Seq(Requests) /\ Len(mailbox') = Len(mailbox) + 1
      /\ \A i \in 1 .. Len(mailbox) : mailbox'[i] = mailbox[i]
      /\ mailbox'[Len(mailbox) + 1] = r
      /\ Len(mailbox) \in Nat
  BY <1>1, <1>2, AppendProperties, LenProperties
<1>4. r \notin Waiting /\ r \notin DOMAIN kind
  BY <1>1, <1>2 DEF Waiting
<1>5. Queued' = Queued \cup {r}
  BY <1>3 DEF Queued
<1>6. fate' \in [Requests -> Fates] /\ Waiting' = Waiting \cup {r}
  BY <1>1, <1>2 DEF Waiting, Fates
<1>7. /\ DOMAIN kind' = DOMAIN kind \cup {r}
      /\ DOMAIN kind' = {q \in Requests : fate'[q] # "Unsent"}
      /\ \A q \in DOMAIN kind' : kind'[q] \in Kinds
  BY <1>1, <1>2 DEF Base, TypeOK
<1>8. Taken' = Taken
  BY <1>4, <1>5, <1>7 DEF Taken
<1>9. \A i, j \in 1 .. Len(mailbox') : mailbox'[i] = mailbox'[j] => i = j
  <2>1. \A i \in 1 .. Len(mailbox) : mailbox[i] # r
    BY <1>2, <1>4 DEF Queued
  <2> QED
    BY <1>3, <2>1 DEF Base
<1>10. \A q \in handling : kind'[q] = kind[q]
  BY <1>1, <1>2, <1>4 DEF Waiting
<1>11. TypeOK'
  BY <1>1, <1>2, <1>5, <1>6, <1>7, <1>10 DEF Base, TypeOK, Waiting, Queued
<1> QED
  BY <1>1, <1>2, <1>3, <1>4, <1>5, <1>8, <1>9, <1>11 DEF Base

(* A request received moves from the mailbox to the handler, and is        *)
(* counted at most once.                                                   *)
LEMMA ReceiveBase ==
  ASSUME Base, Receive
  PROVE  Base'
<1> DEFINE r == Head(mailbox)
<1>1. /\ up /\ stage = "Idle" /\ mailbox # <<>>
      /\ handling' = {r} /\ mailbox' = Tail(mailbox) /\ stage' = FirstStage(kind[r])
      /\ handled_queries' \in {handled_queries, handled_queries + 1}
      /\ UNCHANGED <<kind, observations, up, fate, faults, restarts, unreclaimed>>
  <2>1. handled_queries \in Nat
    BY Sizes
  <2> QED
    BY <2>1 DEF Receive, failures
<1>2. /\ mailbox \in Seq(Requests) /\ handling = {}
      /\ Waiting = handling \cup Queued
  BY <1>1 DEF Base, TypeOK, Waiting, Queued
<1>3. /\ r \in Requests /\ r = mailbox[1] /\ Len(mailbox) \in Nat /\ Len(mailbox) >= 1
      /\ mailbox' \in Seq(Requests) /\ Len(mailbox') = Len(mailbox) - 1
      /\ \A i \in 1 .. Len(mailbox') : mailbox'[i] = mailbox[i + 1]
  BY <1>1, <1>2, HeadTailProperties, LenProperties, EmptySeq
<1>4. /\ \A i, j \in 1 .. Len(mailbox') : mailbox'[i] = mailbox'[j] => i = j
      /\ \A i \in 1 .. Len(mailbox') : mailbox'[i] # r
  BY <1>3 DEF Base
<1>5. Queued = Queued' \cup {r} /\ r \notin Queued'
  <2>1. \A i \in 1 .. Len(mailbox) : i # 1 => mailbox[i] = mailbox'[i - 1]
    BY <1>3
  <2>2. Queued \subseteq Queued' \cup {r}
    BY <1>3, <2>1 DEF Queued
  <2>3. Queued' \subseteq Queued /\ r \in Queued
    BY <1>3 DEF Queued
  <2> QED
    BY <1>4, <2>2, <2>3 DEF Queued
<1>6. r \in Waiting /\ r \in DOMAIN kind
  BY <1>2, <1>5 DEF Base, TypeOK, Waiting
<1>7. Taken' = Taken \cup {r} /\ r \notin Taken
  BY <1>1, <1>5, <1>6 DEF Taken
<1>8. /\ Cardinality(Taken') = Cardinality(Taken) + 1
      /\ Cardinality(Taken') <= Cardinality(Requests)
      /\ handled_queries' \in Nat /\ handled_queries' <= Cardinality(Taken')
      /\ Cardinality(Requests) \in Nat
  <2>1. Cardinality(Taken') = Cardinality(Taken) + 1
    BY <1>7, Sizes, FS_AddElement
  <2>2. Taken' \subseteq Requests
    BY <1>1 DEF Taken, Base, TypeOK
  <2>3. Cardinality(Taken') <= Cardinality(Requests)
    BY <2>2, FS_Subset, RootAssumption
  <2> QED
    BY <1>1, <2>1, <2>3, Sizes DEF Base
<1>9. TypeOK'
  <2>1. Waiting' = handling' \cup Queued'
    BY <1>1, <1>2, <1>5 DEF Waiting
  <2>2. handled_queries' \in 0 .. Cardinality(Requests)
    BY <1>8, Sizes
  <2> QED
    BY <1>1, <2>1, <2>2, SmallSets, FirstStages DEF Base, TypeOK, Waiting, Queued
<1> QED
  BY <1>1, <1>3, <1>4, <1>5, <1>8, <1>9 DEF Base

(* A handler that ends leaves its request waiting no more.                 *)
LEMMA EndsBase ==
  ASSUME Base, NEW r \in handling, NEW outcome \in {"Answered", "Error"}, Ends(r, outcome)
  PROVE  Base'
<1>1. /\ stage \in {"Answering", "Recording", "Reclaiming"}
      /\ handling' = {} /\ stage' = "Idle"
      /\ fate' = [fate EXCEPT ![r] = outcome]
      /\ faults' \in {faults, faults + 1} /\ unreclaimed' \in BOOLEAN
      /\ UNCHANGED <<mailbox, kind, handled_queries, up, observations, restarts>>
  BY DEF Ends, Reply, Base
<1>2. handling = {r} /\ Waiting = handling \cup Queued /\ r \notin Queued
  BY DEF Base, TypeOK, Waiting, Queued
<1>3. /\ r \in Requests /\ fate[r] = "Waiting" /\ fate' \in [Requests -> Fates]
      /\ \A q \in Requests : q # r => fate'[q] = fate[q]
      /\ fate'[r] = outcome
  BY <1>1, <1>2 DEF Base, TypeOK, Waiting, Fates
<1>4. Waiting' = handling' \cup Queued' /\ Queued' = Queued
  BY <1>1, <1>2, <1>3 DEF Waiting, Queued
<1>5. DOMAIN kind' = {q \in Requests : fate'[q] # "Unsent"}
  BY <1>1, <1>3 DEF Base, TypeOK
<1>6. TypeOK'
  BY <1>1, <1>3, <1>4, <1>5, SmallSets DEF Base, TypeOK, Waiting, Queued
<1> QED
  BY <1>1, <1>4, <1>6 DEF Base, Taken

(* A step that moves no request.                                           *)
LEMMA TableBase ==
  ASSUME Base,
         \/ ReclaimObservation \/ FinishOpen \/ ConnectReturns \/ Restart \/ UNCHANGED vars
         \/ \E r \in handling : Answer(r) \/ AssertObservation(r)
  PROVE  Base'
<1>1. /\ UNCHANGED <<mailbox, kind, handling, fate, faults, restarts>>
      /\ unreclaimed' \in {FALSE, unreclaimed}
  BY DEF ReclaimObservation, FinishOpen, ConnectReturns, Restart, vars, Answer, AssertObservation,
         root, failures
<1>2. Queued' = Queued /\ Taken' = Taken
  BY <1>1 DEF Queued, Taken
<1>3. handled_queries' \in {0, handled_queries}
  BY DEF ReclaimObservation, FinishOpen, ConnectReturns, Restart, vars, Answer, AssertObservation, root
<1>4. DOMAIN observations' \subseteq 0 .. Cardinality(Requests)
  <2>1. DOMAIN observations' \subseteq DOMAIN observations \cup {handled_queries}
    BY DEF ReclaimObservation, FinishOpen, ConnectReturns, Restart, vars, Answer, AssertObservation
  <2> QED
    BY <2>1 DEF Base, TypeOK
<1>5. /\ stage' \in {"Idle", "Opening", "Connecting", "Answering", "Recording", "Reclaiming"}
      /\ stage' = "Connecting" => stage = "Connecting"
      /\ handling' = {} <=> stage' \in {"Idle", "Opening"}
      /\ ~up' => stage' = "Idle" /\ mailbox' = <<>> /\ restarts' > 0
  BY DEF Base, TypeOK, ReclaimObservation, FinishOpen, ConnectReturns, Restart, vars, Answer,
         AssertObservation, root, failures
<1>6. TypeOK'
  BY <1>1, <1>3, <1>4, <1>5, Sizes DEF Base, TypeOK
<1>7. handled_queries' <= Cardinality(Taken')
  BY <1>2, <1>3, Sizes DEF Base
<1> QED
  BY <1>1, <1>2, <1>5, <1>6, <1>7 DEF Base

(* A crash loses what waited.                                              *)
LEMMA CrashBase ==
  ASSUME Base, Crash
  PROVE  Base'
<1>1. /\ mailbox' = <<>> /\ handling' = {} /\ stage' = "Idle" /\ restarts' = restarts + 1
      /\ fate' = [r \in Requests |-> IF fate[r] = "Waiting" THEN "Lost" ELSE fate[r]]
      /\ UNCHANGED <<kind, handled_queries, observations, faults, unreclaimed>>
  BY DEF Crash
<1>2. fate' \in [Requests -> Fates] /\ Waiting' = {} /\ Queued' = {}
  BY <1>1 DEF Base, TypeOK, Fates, Waiting, Queued
<1>3. DOMAIN kind' = {q \in Requests : fate'[q] # "Unsent"}
  BY <1>1 DEF Base, TypeOK
<1>4. TypeOK'
  BY <1>1, <1>2, <1>3, SmallSets DEF Base, TypeOK, Waiting, Queued
<1>5. handled_queries' <= Cardinality(Taken')
  <2>1. Taken \subseteq Taken' /\ Taken' \subseteq Requests
    BY <1>1, <1>2 DEF Taken, Base, TypeOK
  <2>2. IsFiniteSet(Taken')
    BY <2>1, FS_Subset, RootAssumption
  <2>3. Cardinality(Taken) <= Cardinality(Taken')
    BY <2>1, <2>2, FS_Subset
  <2>4. Cardinality(Taken') \in Nat
    BY <2>2, FS_CardinalityType
  <2> QED
    BY <1>1, <2>3, <2>4, Sizes DEF Base
<1>6. mailbox' \in Seq(Requests) /\ Len(mailbox') = 0
  BY <1>1, EmptySeq
<1> QED
  BY <1>1, <1>2, <1>4, <1>5, <1>6 DEF Base

LEMMA BaseStep == Base /\ [Next]_vars => Base'
<1> SUFFICES ASSUME Base, [Next]_vars PROVE Base'
  OBVIOUS
<1>1. CASE \E r \in Requests, k \in Kinds : Submit(r, k)
  BY <1>1, SubmitBase
<1>2. CASE HandlerStep
  BY <1>2, HandlerCases, ReceiveBase, EndsBase, TableBase
<1>3. CASE Crash \/ Restart \/ ConnectReturns \/ UNCHANGED vars
  BY <1>3, CrashBase, TableBase
<1> QED
  BY <1>1, <1>2, <1>3 DEF Next

LEMMA InitBase == Init => Base
<1> SUFFICES ASSUME Init PROVE Base
  OBVIOUS
<1>1. /\ mailbox = <<>> /\ DOMAIN kind = {} /\ handling = {} /\ Len(mailbox) = 0
      /\ mailbox \in Seq(Requests) /\ Queued = {} /\ Taken = {}
  BY EmptySeq DEF Init, Queued, Taken
<1>2. Cardinality(Requests) \in Nat
  BY FS_CardinalityType, RootAssumption
<1>3. TypeOK
  BY <1>1, <1>2, FS_EmptySet DEF Init, TypeOK, Fates
<1>4. handled_queries <= Cardinality(Taken) /\ faults \in Nat /\ restarts \in Nat
  BY <1>1, FS_EmptySet DEF Init
<1>5. up /\ unreclaimed \in BOOLEAN
  BY DEF Init
<1> QED
  BY <1>1, <1>3, <1>4, <1>5 DEF Base

LEMMA BaseInvariant == Spec => []Base
BY InitBase, BaseStep, PTL DEF Spec

(* The fates of the requests, the mailbox and the handler agree, and the   *)
(* counter and the keys of the audit trail are at most the requests sent   *)
(* (runtime.rs, the root's handlers and answer()).                         *)
THEOREM RootTypeCorrect == Spec => []TypeOK
BY BaseInvariant, PTL DEF Base

-----------------------------------------------------------------------------
(* How a step may change the audit trail.                                  *)
LEMMA TrailCases ==
  ASSUME [Next]_vars
  PROVE  \/ UNCHANGED <<observations, trail, gone>>
         \/ ReclaimObservation
         \/ \E r \in handling : AssertObservation(r)
<1>1. CASE HandlerStep
  BY <1>1, HandlerCases DEF Receive, FinishOpen, Answer, Ends
<1>2. CASE ~HandlerStep
  BY <1>2 DEF Next, Submit, ConnectReturns, Crash, Restart, vars
<1> QED
  BY <1>1, <1>2

(* What was recorded stays so: in the table, or taken by retention.        *)
LEMMA RecordedStays ==
  ASSUME [Next]_vars, NEW r, Recorded(r)
  PROVE  Recorded(r)'
<1>1. CASE UNCHANGED <<observations, trail, gone>>
  BY <1>1 DEF Recorded, Held
<1>2. CASE ReclaimObservation
  <2>1. PICK s \in DOMAIN observations :
          /\ observations' = [t \in DOMAIN observations \ {s} |-> observations[t]]
          /\ gone' = gone \cup {observations[s]}
    BY <1>2 DEF ReclaimObservation, Victims
  <2>2. \A t \in DOMAIN observations : t # s => t \in DOMAIN observations' /\ observations'[t] = observations[t]
    BY <2>1
  <2> QED
    BY <2>1, <2>2 DEF Recorded, Held
<1>3. ASSUME NEW q \in handling, AssertObservation(q)
      PROVE  Recorded(r)'
  <2>1. \A t \in DOMAIN observations : t \in DOMAIN observations' /\ observations'[t] = observations[t]
    BY <1>3 DEF AssertObservation
  <2> QED
    BY <1>3, <2>1 DEF AssertObservation, Recorded, Held
<1> QED
  BY <1>1, <1>2, <1>3, TrailCases

(* The row an assertion writes holds its request.                          *)
LEMMA AssertionRecords ==
  ASSUME NEW r, AssertObservation(r)
  PROVE  Recorded(r)'
<1>1. handled_queries \in DOMAIN observations' /\ observations'[handled_queries] = r
  BY DEF AssertObservation
<1> QED
  BY <1>1 DEF Recorded, Held

(* AnsweredIsRecorded made inductive: a handler that reclaims has recorded *)
(* its request.                                                            *)
Audit ==
    /\ AnsweredIsRecorded
    /\ stage = "Reclaiming" => \A r \in handling : Recorded(r)

(* How a step may change the fate and the kind of a request.               *)
LEMMA FateCases ==
  ASSUME Base, [Next]_vars, NEW r \in Requests
  PROVE  \/ /\ fate'[r] = fate[r]
            /\ r \in DOMAIN kind' => r \in DOMAIN kind /\ kind'[r] = kind[r]
         \/ fate'[r] \in {"Waiting", "Lost"}
         \/ \E outcome \in {"Answered", "Error"} :
               r \in handling /\ Ends(r, outcome) /\ fate'[r] = outcome
<1>1. CASE \E q \in Requests, k \in Kinds : Submit(q, k)
  <2>1. PICK q \in Requests, k \in Kinds : Submit(q, k)
    BY <1>1
  <2>2. /\ fate' = [fate EXCEPT ![q] = "Waiting"]
        /\ kind' = [p \in DOMAIN kind \cup {q} |-> IF p = q THEN k ELSE kind[p]]
    BY <2>1 DEF Submit
  <2>3. fate \in [Requests -> Fates]
    BY DEF Base, TypeOK
  <2>4. CASE r = q
    BY <2>2, <2>3, <2>4
  <2>5. CASE r # q
    BY <2>2, <2>3, <2>5
  <2> QED
    BY <2>4, <2>5
<1>2. CASE HandlerStep
  <2>1. CASE \/ Receive \/ ReclaimObservation \/ FinishOpen
             \/ \E q \in handling : Answer(q) \/ AssertObservation(q)
    BY <2>1 DEF Receive, ReclaimObservation, FinishOpen, Answer, AssertObservation, root, failures
  <2>2. ASSUME NEW q \in handling, NEW outcome \in {"Answered", "Error"}, Ends(q, outcome)
        PROVE  \/ UNCHANGED <<fate[r], kind>>
               \/ r = q /\ fate'[r] = outcome
    BY <2>2 DEF Ends, Reply, Base, TypeOK
  <2> QED
    BY <1>2, <2>1, <2>2, HandlerCases
<1>3. CASE Crash
  BY <1>3 DEF Crash
<1>4. CASE ConnectReturns \/ Restart \/ UNCHANGED vars
  BY <1>4 DEF ConnectReturns, Restart, vars, root
<1> QED
  BY <1>1, <1>2, <1>3, <1>4 DEF Next

LEMMA AuditStep == Base /\ Audit /\ [Next]_vars => Audit'
<1> SUFFICES ASSUME Base, Audit, [Next]_vars PROVE Audit'
  OBVIOUS
<1>0. Base'
  BY BaseStep
<1>1. AnsweredIsRecorded'
  <2> SUFFICES ASSUME NEW r \in DOMAIN kind', Audited(kind'[r]), fate'[r] = "Answered"
               PROVE  Recorded(r)'
    BY DEF AnsweredIsRecorded
  <2>0. r \in Requests
    BY <1>0 DEF Base, TypeOK
  <2>1. CASE fate'[r] = fate[r] /\ r \in DOMAIN kind /\ kind'[r] = kind[r]
    BY <2>1, RecordedStays DEF Audit, AnsweredIsRecorded
  <2>2. ASSUME r \in handling, NEW outcome \in {"Answered", "Error"}, Ends(r, outcome),
               fate'[r] = outcome
        PROVE  Recorded(r)'
    <3>1. kind' = kind /\ stage = "Reclaiming"
      BY <2>2 DEF Ends, Reply
    <3> QED
      BY <2>2, <3>1, RecordedStays DEF Audit
  <2> QED
    BY <2>0, <2>1, <2>2, FateCases
<1>2. stage' = "Reclaiming" => \A r \in handling' : Recorded(r)'
  <2>1. CASE \E q \in Requests, k \in Kinds : Submit(q, k)
    BY <2>1, RecordedStays DEF Submit, Audit
  <2>2. CASE HandlerStep
    <3>1. CASE Receive \/ FinishOpen \/ \E r \in handling : Answer(r)
      BY <3>1 DEF Receive, FirstStage, FinishOpen, Answer
    <3>2. CASE ReclaimObservation
      BY <3>2, RecordedStays DEF ReclaimObservation, root, Audit
    <3>3. ASSUME NEW r \in handling, AssertObservation(r)
          PROVE  \A q \in handling' : Recorded(q)'
      BY <3>3, AssertionRecords DEF AssertObservation, Base
    <3>4. ASSUME NEW r \in handling, NEW outcome \in {"Answered", "Error"}, Ends(r, outcome)
          PROVE  stage' # "Reclaiming"
      BY <3>4 DEF Ends, Reply
    <3> QED
      BY <2>2, <3>1, <3>2, <3>3, <3>4, HandlerCases
  <2>3. CASE ConnectReturns \/ Crash \/ Restart
    BY <2>3 DEF ConnectReturns, Crash, Restart
  <2>4. CASE UNCHANGED vars
    BY <2>4, RecordedStays DEF vars, root, Audit
  <2> QED
    BY <2>1, <2>2, <2>3, <2>4 DEF Next
<1> QED
  BY <1>1, <1>2 DEF Audit

LEMMA InitAudit == Init => Audit
BY DEF Init, Audit, AnsweredIsRecorded

(* No client is answered before its query and answer are recorded: the row *)
(* is in the table or retention has taken it (runtime.rs, handle and       *)
(* record_observation), whatever fails and however often the daemon dies.  *)
THEOREM AnswersAreRecorded == Spec => []AnsweredIsRecorded
<1>1. Spec => []Audit
  BY InitBase, BaseStep, InitAudit, AuditStep, PTL DEF Spec
<1> QED
  BY <1>1, PTL DEF Audit

-----------------------------------------------------------------------------
(* NumberedQueryIsRecorded made inductive: within one session the counter  *)
(* is past every key in the table, strictly so while a request that it     *)
(* counts is being answered.                                               *)
KeysBehind ==
    /\ \A s \in DOMAIN observations : s <= handled_queries
    /\ \A r \in handling :
         stage \in {"Connecting", "Answering", "Recording"} /\ Counted(kind[r])
           => handled_queries \notin DOMAIN observations

Numbers ==
    /\ NumberedQueryIsRecorded
    /\ restarts = 0 => KeysBehind

(* Neither counter of what went wrong ever goes back.                      *)
LEMMA BoundsGrow ==
  ASSUME Base, [Next]_vars
  PROVE  /\ faults' \in {faults, faults + 1} /\ restarts' \in {restarts, restarts + 1}
         /\ faults' = 0 => faults = 0
         /\ restarts' = 0 => restarts = 0
<1>1. faults' \in {faults, faults + 1} /\ restarts' \in {restarts, restarts + 1}
  <2>1. CASE HandlerStep
    BY <2>1, HandlerCases DEF Receive, ReclaimObservation, FinishOpen, Answer,
                              AssertObservation, Ends, failures
  <2>2. CASE ~HandlerStep
    BY <2>2 DEF Next, Submit, ConnectReturns, Crash, Restart, vars, failures
  <2> QED
    BY <2>1, <2>2
<1> QED
  BY <1>1 DEF Base

LEMMA KeysStep ==
  ASSUME Base, KeysBehind, restarts = 0, [Next]_vars, restarts' = 0
  PROVE  KeysBehind'
<1>0. /\ handled_queries \in Nat
      /\ \A s \in DOMAIN observations : s \in Nat /\ s <= handled_queries
  BY Sizes DEF KeysBehind, Base, TypeOK
<1>1. CASE \E q \in Requests, k \in Kinds : Submit(q, k)
  <2>1. PICK q \in Requests, k \in Kinds : Submit(q, k)
    BY <1>1
  <2>2. /\ UNCHANGED <<handling, stage, handled_queries, observations>>
        /\ kind' = [p \in DOMAIN kind \cup {q} |-> IF p = q THEN k ELSE kind[p]]
        /\ fate[q] = "Unsent"
    BY <2>1 DEF Submit
  <2>3. \A r \in handling : r \in DOMAIN kind /\ fate[r] = "Waiting"
    BY DEF Base, TypeOK
  <2>4. \A r \in handling : kind'[r] = kind[r]
    BY <2>2, <2>3
  <2> QED
    BY <2>2, <2>4 DEF KeysBehind
<1>2. CASE Receive
  <2>1. /\ UNCHANGED <<kind, observations>> /\ handling' = {Head(mailbox)}
        /\ handled_queries' = handled_queries + IF Counted(kind[Head(mailbox)]) THEN 1 ELSE 0
    BY <1>2 DEF Receive
  <2>2. CASE Counted(kind[Head(mailbox)])
    <3>1. \A s \in DOMAIN observations' : s < handled_queries'
      BY <1>0, <2>1, <2>2
    <3> QED
      BY <1>0, <2>1, <2>2, <3>1 DEF KeysBehind
  <2>3. CASE ~Counted(kind[Head(mailbox)])
    BY <1>0, <2>1, <2>3 DEF KeysBehind
  <2> QED
    BY <2>2, <2>3
<1>3. CASE ReclaimObservation
  <2>1. DOMAIN observations' \subseteq DOMAIN observations
    BY <1>3 DEF ReclaimObservation
  <2> QED
    BY <1>0, <1>3, <2>1 DEF ReclaimObservation, root, KeysBehind
<1>4. CASE FinishOpen
  BY <1>4 DEF FinishOpen, KeysBehind
<1>5. ASSUME NEW r \in handling, Answer(r)
      PROVE  KeysBehind'
  BY <1>5 DEF Answer, KeysBehind
<1>6. ASSUME NEW r \in handling, AssertObservation(r)
      PROVE  KeysBehind'
  <2>1. /\ UNCHANGED <<handling, handled_queries>> /\ stage' = "Reclaiming"
        /\ DOMAIN observations' = DOMAIN observations \cup {handled_queries}
    BY <1>6 DEF AssertObservation
  <2> QED
    BY <1>0, <2>1 DEF KeysBehind
<1>7. ASSUME NEW r \in handling, NEW outcome \in {"Answered", "Error"}, Ends(r, outcome)
      PROVE  KeysBehind'
  BY <1>7 DEF Ends, Reply, KeysBehind
<1>8. CASE Crash \/ Restart
  BY <1>8 DEF Crash, Restart, Base
<1>9. CASE UNCHANGED vars
  BY <1>9 DEF vars, root, KeysBehind
<1>10. CASE ConnectReturns
  BY <1>10 DEF ConnectReturns, KeysBehind
<1> QED
  BY <1>1, <1>2, <1>3, <1>4, <1>5, <1>6, <1>7, <1>8, <1>9, <1>10, HandlerCases DEF Next

LEMMA NumbersStep == Base /\ Audit /\ Numbers /\ [Next]_vars => Numbers'
<1> SUFFICES ASSUME Base, Audit, Numbers, [Next]_vars PROVE Numbers'
  OBVIOUS
<1>0. Base' /\ Audit'
  BY BaseStep, AuditStep
<1>1. ASSUME faults' = 0, restarts' = 0
      PROVE  NumberedQueryIsRecorded'
  <2> SUFFICES ASSUME NEW r \in DOMAIN kind', Audited(kind'[r]),
                      kind'[r] # "FlushSystemEvents", fate'[r] \in {"Answered", "Error"}
               PROVE  Recorded(r)'
    BY DEF NumberedQueryIsRecorded
  <2>1. r \in Requests /\ kind'[r] \in AllKinds /\ faults = 0 /\ restarts = 0
    BY <1>0, <1>1, BoundsGrow, RootAssumption DEF Base, TypeOK
  <2>2. CASE fate'[r] = fate[r] /\ r \in DOMAIN kind /\ kind'[r] = kind[r]
    BY <2>1, <2>2, RecordedStays DEF Numbers, NumberedQueryIsRecorded
  <2>3. CASE fate'[r] = "Answered"
    BY <1>0, <2>3 DEF Audit, AnsweredIsRecorded
  <2>4. ASSUME r \in handling, Ends(r, "Error")
        PROVE  FALSE
    <3>1. kind' = kind /\ stage = "Recording" /\ handled_queries \in DOMAIN observations
      BY <1>1, <2>1, <2>4 DEF Ends, Reply
    <3>2. Counted(kind[r])
      BY <2>1, <3>1 DEF Audited, Counted
    <3> QED
      BY <2>1, <2>4, <3>1, <3>2 DEF Numbers, KeysBehind
  <2> QED
    BY <2>1, <2>2, <2>3, <2>4, FateCases
<1>2. restarts' = 0 => KeysBehind'
  BY BoundsGrow, KeysStep DEF Numbers
<1> QED
  BY <1>1, <1>2 DEF Numbers, NumberedQueryIsRecorded

LEMMA InitNumbers == Init => Numbers
BY DEF Init, Numbers, NumberedQueryIsRecorded, KeysBehind

(* Within one session and without a failure every audited query but a      *)
(* flush is recorded once it ended, whatever kinds come between: the       *)
(* counter of answer() gives each a key of its own.                        *)
THEOREM NumberedQueriesAreRecorded == Spec => []NumberedQueryIsRecorded
<1>1. Spec => [](Base /\ Audit /\ Numbers)
  BY InitBase, BaseStep, InitAudit, AuditStep, InitNumbers, NumbersStep, PTL DEF Spec
<1> QED
  BY <1>1, PTL DEF Numbers

-----------------------------------------------------------------------------
(* The history of the trail: a request is in it at most once, not before   *)
(* its row was asserted, and every row of the table is.                    *)
TrailOnce ==
    /\ trail \in Seq(Requests)
    /\ \A i, j \in 1 .. Len(trail) : trail[i] = trail[j] => i = j
    /\ \A i \in 1 .. Len(trail) :
         /\ fate[trail[i]] # "Unsent"
         /\ fate[trail[i]] = "Waiting" => trail[i] \in handling /\ stage = "Reclaiming"
    /\ \A s \in DOMAIN observations : \E i \in 1 .. Len(trail) : trail[i] = observations[s]

(* What an assertion does to the trail.                                    *)
LEMMA Asserted ==
  ASSUME Base, TrailOnce, NEW r \in handling, AssertObservation(r)
  PROVE  /\ r \in Requests /\ \A i \in 1 .. Len(trail) : trail[i] # r
         /\ trail' \in Seq(Requests) /\ Len(trail) \in Nat /\ Len(trail') = Len(trail) + 1
         /\ \A i \in 1 .. Len(trail) : trail'[i] = trail[i]
         /\ trail'[Len(trail) + 1] = r
         /\ handled_queries \notin DOMAIN observations
         /\ DOMAIN observations' = DOMAIN observations \cup {handled_queries}
         /\ observations'[handled_queries] = r
         /\ \A s \in DOMAIN observations : observations'[s] = observations[s]
<1>1. r \in Requests /\ fate[r] = "Waiting"
  BY DEF Base, TypeOK
<1>2. stage = "Recording" /\ trail' = Append(trail, r)
  BY DEF AssertObservation
<1>3. \A i \in 1 .. Len(trail) : trail[i] # r
  BY <1>1, <1>2 DEF TrailOnce
<1>4. /\ trail' \in Seq(Requests) /\ Len(trail) \in Nat /\ Len(trail') = Len(trail) + 1
      /\ \A i \in 1 .. Len(trail) : trail'[i] = trail[i]
      /\ trail'[Len(trail) + 1] = r
  BY <1>1, <1>2, AppendProperties, LenProperties DEF TrailOnce
<1> QED
  BY <1>1, <1>3, <1>4 DEF AssertObservation

(* What retention does to the table.                                       *)
LEMMA Reclaimed ==
  ASSUME ReclaimObservation
  PROVE  \E s \in DOMAIN observations :
           /\ \A t \in DOMAIN observations : s <= t
           /\ DOMAIN observations' = DOMAIN observations \ {s}
           /\ \A t \in DOMAIN observations' : observations'[t] = observations[t]
           /\ gone' = gone \cup {observations[s]}
           /\ UNCHANGED <<trail, restarts, fate, handling, stage>>
BY DEF ReclaimObservation, Victims, root, failures

LEMMA TrailOnceStep == Base /\ TrailOnce /\ [Next]_vars => TrailOnce'
<1> SUFFICES ASSUME Base, TrailOnce, [Next]_vars PROVE TrailOnce'
  OBVIOUS
<1>0. \A i \in 1 .. Len(trail) : trail[i] \in Requests
  BY ElementOfSeq DEF TrailOnce
<1>1. CASE \E q \in Requests, k \in Kinds : Submit(q, k)
  <2>1. PICK q \in Requests, k \in Kinds : Submit(q, k)
    BY <1>1
  <2>2. /\ UNCHANGED <<handling, stage, observations, trail>>
        /\ fate[q] = "Unsent" /\ fate' = [fate EXCEPT ![q] = "Waiting"]
    BY <2>1 DEF Submit
  <2>3. \A i \in 1 .. Len(trail) : fate'[trail[i]] = fate[trail[i]]
    BY <1>0, <2>2 DEF TrailOnce, Base, TypeOK
  <2> QED
    BY <2>2, <2>3 DEF TrailOnce
<1>2. CASE Receive \/ FinishOpen \/ ConnectReturns \/ Restart \/ UNCHANGED vars
  <2>1. UNCHANGED <<fate, observations, trail>>
    BY <1>2 DEF Receive, FinishOpen, ConnectReturns, Restart, vars
  <2>2. UNCHANGED <<handling, stage>> \/ stage \in {"Idle", "Opening", "Connecting"} \/ ~up
    BY <1>2 DEF Receive, FinishOpen, ConnectReturns, Restart, vars, root
  <2>3. \A i \in 1 .. Len(trail) : fate[trail[i]] = "Waiting" => UNCHANGED <<handling, stage>>
    BY <2>2 DEF TrailOnce, Base
  <2> QED
    BY <2>1, <2>3 DEF TrailOnce
<1>3. CASE ReclaimObservation
  <2>1. /\ UNCHANGED <<trail, fate, handling, stage>>
        /\ \A s \in DOMAIN observations' : s \in DOMAIN observations /\ observations'[s] = observations[s]
    BY <1>3, Reclaimed
  <2>2. \A s \in DOMAIN observations' : \E i \in 1 .. Len(trail') : trail'[i] = observations'[s]
    BY <2>1 DEF TrailOnce
  <2> QED
    BY <2>1, <2>2 DEF TrailOnce
<1>4. ASSUME NEW r \in handling, Answer(r)
      PROVE  TrailOnce'
  BY <1>4 DEF Answer, TrailOnce
<1>5. ASSUME NEW r \in handling, AssertObservation(r)
      PROVE  TrailOnce'
  <2>1. UNCHANGED <<fate, handling>> /\ stage' = "Reclaiming" /\ fate[r] = "Waiting"
    BY <1>5 DEF AssertObservation, Base, TypeOK
  <2>2. \A i, j \in 1 .. Len(trail') : trail'[i] = trail'[j] => i = j
    BY <1>5, Asserted DEF TrailOnce
  <2>3. \A i \in 1 .. Len(trail') :
          /\ fate'[trail'[i]] # "Unsent"
          /\ fate'[trail'[i]] = "Waiting" => trail'[i] \in handling' /\ stage' = "Reclaiming"
    <3> SUFFICES ASSUME NEW i \in 1 .. Len(trail')
                 PROVE  /\ fate[trail'[i]] # "Unsent"
                        /\ fate[trail'[i]] = "Waiting" => trail'[i] \in handling
      BY <2>1
    <3>1. CASE i \in 1 .. Len(trail)
      BY <1>5, <3>1, Asserted DEF TrailOnce
    <3>2. CASE i = Len(trail) + 1
      BY <1>5, <2>1, <3>2, Asserted
    <3> QED
      BY <1>5, <3>1, <3>2, Asserted
  <2>4. \A s \in DOMAIN observations' : \E i \in 1 .. Len(trail') : trail'[i] = observations'[s]
    <3> SUFFICES ASSUME NEW s \in DOMAIN observations'
                 PROVE  \E i \in 1 .. Len(trail') : trail'[i] = observations'[s]
      OBVIOUS
    <3>1. CASE s = handled_queries
      BY <1>5, <3>1, Asserted
    <3>2. CASE s \in DOMAIN observations
      BY <1>5, <3>2, Asserted DEF TrailOnce
    <3> QED
      BY <1>5, <3>1, <3>2, Asserted
  <2> QED
    BY <1>5, <2>2, <2>3, <2>4, Asserted DEF TrailOnce
<1>6. ASSUME NEW r \in handling, NEW outcome \in {"Answered", "Error"}, Ends(r, outcome)
      PROVE  TrailOnce'
  <2>1. /\ UNCHANGED <<observations, trail>>
        /\ fate' = [fate EXCEPT ![r] = outcome] /\ handling = {r}
        /\ fate \in [Requests -> Fates]
    BY <1>6 DEF Ends, Reply, Base, TypeOK
  <2>2. \A i \in 1 .. Len(trail) : fate'[trail[i]] \notin {"Unsent", "Waiting"}
    BY <1>0, <2>1 DEF TrailOnce
  <2> QED
    BY <2>1, <2>2 DEF TrailOnce
<1>7. CASE Crash
  <2>1. \A i \in 1 .. Len(trail) : fate'[trail[i]] \notin {"Unsent", "Waiting"}
    BY <1>0, <1>7 DEF Crash, TrailOnce
  <2> QED
    BY <1>7, <2>1 DEF Crash, TrailOnce
<1> QED
  BY <1>1, <1>2, <1>3, <1>4, <1>5, <1>6, <1>7, HandlerCases DEF Next

LEMMA InitTrailOnce == Init => TrailOnce
<1> SUFFICES ASSUME Init PROVE TrailOnce
  OBVIOUS
<1>1. trail = <<>> /\ trail \in Seq(Requests) /\ Len(trail) = 0 /\ DOMAIN observations = {}
  BY EmptySeq DEF Init
<1> QED
  BY <1>1 DEF TrailOnce

(* Within one session the keys grow along the trail: a new row gets a key  *)
(* past all those in the table.                                            *)
LEMMA SequenceStep == Base /\ TrailOnce /\ Numbers /\ SequenceIsTime /\ [Next]_vars => SequenceIsTime'
<1> SUFFICES ASSUME Base, TrailOnce, Numbers, SequenceIsTime, [Next]_vars, restarts' = 0,
                    NEW s \in DOMAIN observations', NEW t \in DOMAIN observations', s < t
             PROVE  \E i, j \in 1 .. Len(trail') :
                      i < j /\ trail'[i] = observations'[s] /\ trail'[j] = observations'[t]
  BY DEF SequenceIsTime
<1>0. restarts = 0
  BY BoundsGrow
<1>1. CASE UNCHANGED <<observations, trail, gone>>
  BY <1>0, <1>1 DEF SequenceIsTime
<1>2. CASE ReclaimObservation
  <2>1. /\ trail' = trail /\ {s, t} \subseteq DOMAIN observations
        /\ observations'[s] = observations[s] /\ observations'[t] = observations[t]
    BY <1>2, Reclaimed
  <2> QED
    BY <1>0, <2>1 DEF SequenceIsTime
<1>3. ASSUME NEW r \in handling, AssertObservation(r)
      PROVE  \E i, j \in 1 .. Len(trail') :
               i < j /\ trail'[i] = observations'[s] /\ trail'[j] = observations'[t]
  <2>1. \A u \in DOMAIN observations : u \in Nat /\ u <= handled_queries /\ handled_queries \in Nat
    BY <1>0, Sizes DEF Numbers, KeysBehind, Base, TypeOK
  <2>2. s \in DOMAIN observations /\ observations'[s] = observations[s]
    <3>1. t \in DOMAIN observations \cup {handled_queries} /\ s # t
      BY <1>3, <2>1, Sizes, Asserted DEF Base, TypeOK
    <3>2. s # handled_queries
      BY <2>1, <3>1, Sizes
    <3> QED
      BY <1>3, <3>2, Asserted
  <2>3. CASE t \in DOMAIN observations
    <3>1. PICK i, j \in 1 .. Len(trail) :
            i < j /\ trail[i] = observations[s] /\ trail[j] = observations[t]
      BY <1>0, <2>2, <2>3 DEF SequenceIsTime
    <3>2. observations'[t] = observations[t]
      BY <1>3, <2>3, Asserted
    <3>3. i \in 1 .. Len(trail') /\ j \in 1 .. Len(trail') /\ trail'[i] = trail[i] /\ trail'[j] = trail[j]
      BY <1>3, <3>1, Asserted
    <3> QED
      BY <2>2, <3>1, <3>2, <3>3
  <2>4. CASE t = handled_queries
    <3>1. PICK i \in 1 .. Len(trail) : trail[i] = observations[s]
      BY <2>2 DEF TrailOnce
    <3>2. /\ i \in 1 .. Len(trail') /\ trail'[i] = observations'[s]
          /\ Len(trail) + 1 \in 1 .. Len(trail') /\ i < Len(trail) + 1
          /\ trail'[Len(trail) + 1] = observations'[t]
      BY <1>3, <2>2, <2>4, <3>1, Asserted
    <3> QED
      BY <3>2
  <2> QED
    BY <1>3, <2>3, <2>4, Asserted
<1> QED
  BY <1>1, <1>2, <1>3, TrailCases

LEMMA TrailInvariant == Spec => [](Base /\ TrailOnce /\ SequenceIsTime)
<1>1. Init => SequenceIsTime
  BY DEF Init, SequenceIsTime
<1>2. Spec => [](Base /\ Audit /\ Numbers /\ TrailOnce /\ SequenceIsTime)
  BY InitBase, BaseStep, InitAudit, AuditStep, InitNumbers, NumbersStep, InitTrailOnce,
     TrailOnceStep, <1>1, SequenceStep, PTL DEF Spec
<1> QED
  BY <1>2, PTL

(* Within one session, sorting the audit trail by key is sorting it by     *)
(* time (store.rs, the observation table; runtime.rs, handled_queries).    *)
THEOREM SequenceFollowsTime == Spec => []SequenceIsTime
BY TrailInvariant, PTL

-----------------------------------------------------------------------------
(* ReclaimsOldest made inductive: the trail is what is gone, in the order  *)
(* it was asserted, and then what is in the table.                         *)
Oldest ==
    restarts = 0 =>
        /\ IsFiniteSet(gone) /\ Cardinality(gone) <= Len(trail)
        /\ gone = {trail[i] : i \in 1 .. Cardinality(gone)}
        /\ \A i \in Cardinality(gone) + 1 .. Len(trail) :
             \E s \in DOMAIN observations : observations[s] = trail[i]
        /\ \A s \in DOMAIN observations :
             \E i \in Cardinality(gone) + 1 .. Len(trail) : observations[s] = trail[i]

LEMMA OldestStep == Base /\ TrailOnce /\ SequenceIsTime /\ Oldest /\ [Next]_vars => Oldest'
<1> SUFFICES ASSUME Base, TrailOnce, SequenceIsTime, Oldest, [Next]_vars, restarts' = 0
             PROVE  Oldest'
  BY DEF Oldest
<1> DEFINE g == Cardinality(gone)
<1>0. restarts = 0 /\ g \in Nat /\ Len(trail) \in Nat
  BY BoundsGrow, FS_CardinalityType, LenProperties DEF Oldest, TrailOnce
<1>p. gone = {trail[i] : i \in 1 .. g}
  BY <1>0 DEF Oldest
<1>1. CASE UNCHANGED <<observations, trail, gone>>
  BY <1>0, <1>1 DEF Oldest
<1>2. CASE ReclaimObservation
  <2>1. PICK s \in DOMAIN observations :
          /\ \A t \in DOMAIN observations : s <= t
          /\ DOMAIN observations' = DOMAIN observations \ {s}
          /\ \A t \in DOMAIN observations' : observations'[t] = observations[t]
          /\ gone' = gone \cup {observations[s]} /\ trail' = trail
    BY <1>2, Reclaimed
  <2>2. PICK i \in g + 1 .. Len(trail) : observations[s] = trail[i]
    BY <1>0 DEF Oldest
  <2>3. \A t \in DOMAIN observations : t # s =>
          \E j \in i + 1 .. Len(trail) : observations[t] = trail[j]
    <3> SUFFICES ASSUME NEW t \in DOMAIN observations, t # s
                 PROVE  \E j \in i + 1 .. Len(trail) : observations[t] = trail[j]
      OBVIOUS
    <3>1. s < t
      BY <2>1, Sizes DEF Base, TypeOK
    <3>2. PICK k, j \in 1 .. Len(trail) :
            k < j /\ trail[k] = observations[s] /\ trail[j] = observations[t]
      BY <1>0, <3>1 DEF SequenceIsTime
    <3>3. k = i
      BY <1>0, <2>2, <3>2 DEF TrailOnce
    <3> QED
      BY <1>0, <3>2, <3>3
  <2>4. i = g + 1
    <3> SUFFICES ASSUME i # g + 1 PROVE FALSE
      OBVIOUS
    <3>1. g + 1 \in g + 1 .. Len(trail) /\ g + 1 < i
      BY <1>0, <2>2
    <3>2. PICK t \in DOMAIN observations : observations[t] = trail[g + 1]
      BY <1>0, <3>1 DEF Oldest
    <3>3. PICK j \in i .. Len(trail) : observations[t] = trail[j]
      BY <1>0, <2>2, <2>3
    <3>4. j = g + 1
      <4>1. j \in 1 .. Len(trail) /\ g + 1 \in 1 .. Len(trail) /\ trail[j] = trail[g + 1]
        BY <1>0, <2>2, <3>1, <3>2, <3>3
      <4> QED
        BY <4>1 DEF TrailOnce
    <3> QED
      BY <1>0, <2>2, <3>1, <3>3, <3>4
  <2>5. trail[g + 1] \notin gone
    <3>1. \A k \in 1 .. g : trail[k] # trail[g + 1]
      BY <1>0, <2>2, <2>4 DEF TrailOnce
    <3> HIDE DEF g
    <3> QED
      BY <1>p, <3>1
  <2>6. IsFiniteSet(gone') /\ Cardinality(gone') = g + 1
    <3>1. IsFiniteSet(gone) /\ gone' = gone \cup {trail[g + 1]}
      BY <1>0, <2>1, <2>2, <2>4 DEF Oldest
    <3> QED
      BY <2>5, <3>1, FS_AddElement
  <2>7. gone' = {trail'[k] : k \in 1 .. g + 1}
    <3>1. \A k : k \in 1 .. g + 1 <=> k \in 1 .. g \/ k = g + 1
      BY <1>0
    <3>2. gone' = gone \cup {trail[g + 1]} /\ trail' = trail
      BY <2>1, <2>2, <2>4
    <3> HIDE DEF g
    <3> QED
      BY <1>p, <3>1, <3>2
  <2>8. \A k \in (g + 1) + 1 .. Len(trail) : \E t \in DOMAIN observations' : observations'[t] = trail[k]
    <3> SUFFICES ASSUME NEW k \in (g + 1) + 1 .. Len(trail)
                 PROVE  \E t \in DOMAIN observations' : observations'[t] = trail[k]
      OBVIOUS
    <3>0. k \in g + 1 .. Len(trail)
      BY <1>0
    <3>1. PICK t \in DOMAIN observations : observations[t] = trail[k]
      BY <1>0, <3>0 DEF Oldest
    <3>2. t # s
      <4>1. k \in 1 .. Len(trail) /\ i \in 1 .. Len(trail) /\ k # i
        BY <1>0, <2>2, <2>4
      <4> QED
        BY <2>2, <3>1, <4>1 DEF TrailOnce
    <3> QED
      BY <2>1, <3>1, <3>2
  <2>9. \A t \in DOMAIN observations' : \E k \in (g + 1) + 1 .. Len(trail) : observations'[t] = trail[k]
    BY <1>0, <2>1, <2>3, <2>4
  <2>10. g + 1 <= Len(trail)
    BY <1>0, <2>2, <2>4
  <2> QED
    BY <2>1, <2>6, <2>7, <2>8, <2>9, <2>10 DEF Oldest
<1>3. ASSUME NEW r \in handling, AssertObservation(r)
      PROVE  Oldest'
  <2>0. /\ Len(trail') = Len(trail) + 1 /\ trail'[Len(trail) + 1] = r
        /\ \A i \in 1 .. Len(trail) : trail'[i] = trail[i]
        /\ DOMAIN observations' = DOMAIN observations \cup {handled_queries}
        /\ observations'[handled_queries] = r
        /\ \A s \in DOMAIN observations : observations'[s] = observations[s]
        /\ g <= Len(trail)
    BY <1>0, <1>3, Asserted DEF Oldest
  <2>1. gone' = gone
    BY <1>3 DEF AssertObservation
  <2>2. gone = {trail'[i] : i \in 1 .. g}
    <3>1. \A i \in 1 .. g : trail'[i] = trail[i]
      BY <1>0, <2>0 DEF Oldest
    <3> HIDE DEF g
    <3> QED
      BY <1>p, <3>1
  <2>3. \A i \in g + 1 .. Len(trail') : \E s \in DOMAIN observations' : observations'[s] = trail'[i]
    <3> SUFFICES ASSUME NEW i \in g + 1 .. Len(trail')
                 PROVE  \E s \in DOMAIN observations' : observations'[s] = trail'[i]
      OBVIOUS
    <3>1. CASE i \in g + 1 .. Len(trail)
      <4>1. PICK s \in DOMAIN observations : observations[s] = trail[i]
        BY <1>0, <3>1 DEF Oldest
      <4> QED
        BY <1>0, <2>0, <3>1, <4>1
    <3>2. CASE i = Len(trail) + 1
      BY <2>0, <3>2
    <3> QED
      BY <1>0, <2>0, <3>1, <3>2
  <2>4. \A s \in DOMAIN observations' : \E i \in g + 1 .. Len(trail') : observations'[s] = trail'[i]
    <3> SUFFICES ASSUME NEW s \in DOMAIN observations'
                 PROVE  \E i \in g + 1 .. Len(trail') : observations'[s] = trail'[i]
      OBVIOUS
    <3>1. CASE s \in DOMAIN observations
      <4>1. PICK i \in g + 1 .. Len(trail) : observations[s] = trail[i]
        BY <1>0, <3>1 DEF Oldest
      <4> QED
        BY <1>0, <2>0, <3>1, <4>1
    <3>2. CASE s = handled_queries
      <4>1. Len(trail) + 1 \in g + 1 .. Len(trail') /\ observations'[s] = trail'[Len(trail) + 1]
        BY <1>0, <2>0, <3>2 DEF Oldest
      <4> QED
        BY <4>1
    <3> QED
      BY <2>0, <3>1, <3>2
  <2>5. g <= Len(trail')
    BY <1>0, <2>0 DEF Oldest
  <2> QED
    BY <1>0, <2>1, <2>2, <2>3, <2>4, <2>5 DEF Oldest
<1> QED
  BY <1>1, <1>2, <1>3, TrailCases

(* Within one session retention takes the rows of the audit trail in the   *)
(* order they were asserted (store.rs, the reclaim of the observations).   *)
THEOREM OldestIsReclaimed == Spec => []ReclaimsOldest
<1>1. Init => Oldest
  <2> SUFFICES ASSUME Init PROVE Oldest
    OBVIOUS
  <2>1. gone = {} /\ IsFiniteSet(gone) /\ Cardinality(gone) = 0 /\ Len(trail) = 0
        /\ DOMAIN observations = {}
    BY FS_EmptySet, EmptySeq DEF Init
  <2> QED
    BY <2>1 DEF Oldest
<1>2. Spec => []Oldest
  BY <1>1, TrailInvariant, OldestStep, PTL DEF Spec
<1>3. Oldest => ReclaimsOldest
  BY DEF Oldest, ReclaimsOldest
<1> QED
  BY <1>2, <1>3, PTL

-----------------------------------------------------------------------------
(* A root that is not recording an answer is within the cap, unless it has *)
(* cut a reclaim short and not made up for it.                             *)
Room ==
    up /\ ~unreclaimed /\ stage \in {"Idle", "Connecting", "Answering", "Recording"} => ~Excess

(* Every step of the audit trail is one of BoundedTable or leaves it alone.*)
LEMMA TableStep ==
  ASSUME Base, Room, [Next]_vars
  PROVE  Room' /\ [Table!Next]_(Table!vars)
<1> DEFINE settled == up /\ stage = "Idle" /\ ~unreclaimed
<1>0. /\ Table!Over = Excess /\ (Table!Over)' = Excess' /\ settled \in BOOLEAN
      /\ unreclaimed \in BOOLEAN
  BY DEF Base, Table!Over, Excess, Cardinality, Table!Cardinality
<1>1. CASE \E q \in Requests, k \in Kinds : Submit(q, k)
  BY <1>0, <1>1 DEF Submit, Room, Excess, Table!vars, failures
<1>2. CASE Receive
  <2>1. /\ UNCHANGED <<observations, unreclaimed, up>>
        /\ stage = "Idle" /\ stage' \in {"Connecting", "Answering"}
    BY <1>2, FirstStages DEF Receive, failures
  <2> QED
    BY <2>1 DEF Room, Excess, Table!Next, Table!Doubt
<1>3. CASE ReclaimObservation
  BY <1>0, <1>3 DEF ReclaimObservation, Victims, Room, Table!Next, Table!Take, root, failures
<1>4. CASE FinishOpen
  <2>1. UNCHANGED <<observations, up>> /\ unreclaimed' = FALSE /\ stage' = "Idle" /\ ~Excess
    BY <1>4 DEF FinishOpen, failures
  <2> QED
    BY <1>0, <2>1 DEF Room, Excess, Table!Next, Table!Settle, Table!Doubt
<1>5. CASE ConnectReturns \/ \E r \in handling : Answer(r)
  <2>1. /\ UNCHANGED <<observations, unreclaimed, up>>
        /\ stage \in {"Connecting", "Answering"} /\ stage' \in {"Answering", "Recording"}
    BY <1>5 DEF ConnectReturns, Answer, failures
  <2> QED
    BY <2>1 DEF Room, Excess, Table!vars
<1>6. ASSUME NEW r \in handling, AssertObservation(r)
      PROVE  Room' /\ [Table!Next]_(Table!vars)
  <2>1. /\ stage' = "Reclaiming" /\ handled_queries \in DOMAIN observations' \ DOMAIN observations
        /\ observations' = [s \in DOMAIN observations \cup {handled_queries} |->
                              IF s = handled_queries THEN observations'[handled_queries]
                              ELSE observations[s]]
    BY <1>6 DEF AssertObservation
  <2> QED
    BY <2>1 DEF Room, Table!Next, Table!Add
<1>7. ASSUME NEW r \in handling, NEW outcome \in {"Answered", "Error"}, Ends(r, outcome)
      PROVE  Room' /\ [Table!Next]_(Table!vars)
  <2>1. /\ UNCHANGED <<observations, up>> /\ stage' = "Idle"
        /\ stage \in {"Answering", "Recording", "Reclaiming"}
        /\ \/ unreclaimed'
           \/ stage = "Reclaiming" /\ ~Excess
           \/ stage # "Reclaiming" /\ unreclaimed' = unreclaimed
    BY <1>0, <1>7 DEF Ends, Reply
  <2>2. up' /\ ~unreclaimed' => ~Excess
    BY <1>0, <2>1 DEF Room
  <2>3. Room'
    BY <2>1, <2>2 DEF Room, Excess
  <2>4. Table!Settle \/ Table!Doubt
    BY <1>0, <2>1, <2>2 DEF Table!Settle, Table!Doubt
  <2> QED
    BY <2>3, <2>4 DEF Table!Next
<1>8. CASE Crash \/ Restart
  <2>1. settled' = FALSE /\ UNCHANGED observations /\ Room'
    BY <1>8 DEF Crash, Restart, Room
  <2> QED
    BY <2>1 DEF Table!Next, Table!Doubt
<1>9. CASE UNCHANGED vars
  BY <1>9 DEF vars, root, failures, Room, Excess, Table!vars
<1> QED
  BY <1>1, <1>2, <1>3, <1>4, <1>5, <1>6, <1>7, <1>8, <1>9, HandlerCases DEF Next

(* The audit trail implements BoundedTable (store.rs, the observation      *)
(* table), whatever fails or dies.                                         *)
THEOREM AuditTrailImplementsTable == Spec => ImplementsTable
<1>1. Init => Room /\ Table!Init
  <2> SUFFICES ASSUME Init PROVE Room /\ Table!Init
    OBVIOUS
  <2>1. DOMAIN observations = {} /\ Cardinality(DOMAIN observations) = 0
    BY FS_EmptySet DEF Init
  <2> QED
    BY <2>1, RootAssumption DEF Init, Room, Excess, Table!Init
<1>2. Spec => [](Base /\ Room)
  BY <1>1, InitBase, BaseStep, TableStep, PTL DEF Spec
<1> QED
  BY <1>1, <1>2, TableStep, PTL DEF Spec, ImplementsTable, Table!Spec

-----------------------------------------------------------------------------
\* How many steps the stage a handler, or the opening of the table, is in has
\* left at most, a row to assert counted twice: it may be reclaimed as well.
Rank == IF stage = "Idle" THEN 0
        ELSE IF stage \in {"Opening", "Reclaiming"} THEN 1
        ELSE IF stage = "Recording" THEN 3
        ELSE IF stage = "Answering" THEN 4 ELSE 5

Unsent == {r \in Requests : fate[r] = "Unsent"}

\* A bound on the steps to come before the next crash.
StepsLeft ==
    7 * Cardinality(Unsent) + 6 * Len(mailbox) + Cardinality(DOMAIN observations) + Rank

\* The parts of StepsLeft are numbers.
LEMMA StepsLeftType ==
  ASSUME Base
  PROVE  /\ IsFiniteSet(DOMAIN observations) /\ IsFiniteSet(Unsent)
         /\ Cardinality(DOMAIN observations) \in Nat /\ Cardinality(Unsent) \in Nat
         /\ Len(mailbox) \in Nat /\ Rank \in Nat /\ StepsLeft \in Nat
<1>1. IsFiniteSet(0 .. Cardinality(Requests))
  BY Sizes, FS_Interval
<1>2. DOMAIN observations \subseteq 0 .. Cardinality(Requests)
  BY DEF Base, TypeOK
<1>3. IsFiniteSet(DOMAIN observations)
  BY <1>1, <1>2, FS_Subset
<1>4. IsFiniteSet(Unsent)
  BY FS_Subset, RootAssumption DEF Unsent
<1>5. Cardinality(DOMAIN observations) \in Nat /\ Cardinality(Unsent) \in Nat
  BY <1>3, <1>4, FS_CardinalityType
<1>6. Len(mailbox) \in Nat
  BY LenProperties DEF Base
<1>7. Rank \in Nat
  BY DEF Rank
<1> QED
  BY <1>3, <1>4, <1>5, <1>6, <1>7 DEF StepsLeft

\* A request that leaves the unsent takes one off their number.
LEMMA OneSent ==
  ASSUME Base, NEW r \in Requests, NEW k \in Kinds, Submit(r, k)
  PROVE  Cardinality(Unsent') = Cardinality(Unsent) - 1
<1>1. fate \in [Requests -> Fates] /\ fate[r] = "Unsent" /\ fate' = [fate EXCEPT ![r] = "Waiting"]
  BY DEF Base, TypeOK, Submit
<1>2. r \in Unsent /\ Unsent' = Unsent \ {r}
  BY <1>1 DEF Unsent
<1> QED
  BY <1>2, StepsLeftType, FS_RemoveElement

\* No handler unsends a request.
LEMMA UnsentStays ==
  ASSUME Base, HandlerStep
  PROVE  Unsent' = Unsent
<1>1. fate \in [Requests -> Fates] /\ \A r \in handling : r \in Requests /\ fate[r] = "Waiting"
  BY DEF Base, TypeOK
<1>2. CASE UNCHANGED fate
  BY <1>2 DEF Unsent
<1>3. ASSUME NEW r \in handling, NEW outcome \in {"Answered", "Error"}, Ends(r, outcome)
      PROVE  Unsent' = Unsent
  <2>1. fate' = [fate EXCEPT ![r] = outcome]
    BY <1>3 DEF Ends, Reply
  <2> QED
    BY <1>1, <2>1 DEF Unsent
<1> QED
  BY <1>2, <1>3, HandlerCases DEF Receive, ReclaimObservation, FinishOpen, Answer, AssertObservation

\* What a step of the root takes off: a message, a row or a stage.
LEMMA HandlerDescends ==
  ASSUME Base, HandlerStep
  PROVE  StepsLeft' < StepsLeft
<1>1. /\ Cardinality(Unsent') = Cardinality(Unsent)
      /\ Cardinality(Unsent) \in Nat /\ Cardinality(DOMAIN observations) \in Nat
      /\ Len(mailbox) \in Nat /\ Rank \in Nat
  BY UnsentStays, StepsLeftType
<1>2. CASE Receive
  <2>1. Len(mailbox') = Len(mailbox) - 1 /\ observations' = observations
    BY <1>2, HeadTailProperties, EmptySeq DEF Receive, Base
  <2>2. Rank = 0 /\ Rank' \in {4, 5}
    BY <1>2 DEF Receive, FirstStage, Rank
  <2> QED
    BY <1>1, <2>1, <2>2 DEF StepsLeft
<1>3. CASE ReclaimObservation
  <2>1. PICK s \in DOMAIN observations : DOMAIN observations' = DOMAIN observations \ {s}
    BY <1>3 DEF ReclaimObservation, Victims
  <2>2. Cardinality(DOMAIN observations') = Cardinality(DOMAIN observations) - 1
    BY <2>1, StepsLeftType, FS_RemoveElement
  <2>3. mailbox' = mailbox /\ Rank' = Rank
    BY <1>3 DEF ReclaimObservation, root, Rank
  <2> QED
    BY <1>1, <2>2, <2>3 DEF StepsLeft
<1>4. CASE FinishOpen
  <2>1. mailbox' = mailbox /\ observations' = observations /\ Rank = 1 /\ Rank' = 0
    BY <1>4 DEF FinishOpen, Rank
  <2> QED
    BY <1>1, <2>1 DEF StepsLeft
<1>5. ASSUME NEW r \in handling, Answer(r)
      PROVE  StepsLeft' < StepsLeft
  <2>1. mailbox' = mailbox /\ observations' = observations /\ Rank = 4 /\ Rank' = 3
    BY <1>5 DEF Answer, Rank
  <2> QED
    BY <1>1, <2>1 DEF StepsLeft
<1>6. ASSUME NEW r \in handling, AssertObservation(r)
      PROVE  StepsLeft' < StepsLeft
  <2>1. /\ mailbox' = mailbox /\ Rank = 3 /\ Rank' = 1
        /\ DOMAIN observations' = DOMAIN observations \cup {handled_queries}
        /\ handled_queries \notin DOMAIN observations
    BY <1>6 DEF AssertObservation, Rank
  <2>2. Cardinality(DOMAIN observations') = Cardinality(DOMAIN observations) + 1
    BY <2>1, StepsLeftType, FS_AddElement
  <2> QED
    BY <1>1, <2>1, <2>2 DEF StepsLeft
<1>7. ASSUME NEW r \in handling, NEW outcome \in {"Answered", "Error"}, Ends(r, outcome)
      PROVE  StepsLeft' < StepsLeft
  <2>1. mailbox' = mailbox /\ observations' = observations /\ Rank > 0 /\ Rank' = 0
    BY <1>7 DEF Ends, Reply, Rank
  <2> QED
    BY <1>1, <2>1 DEF StepsLeft
<1> QED
  BY <1>2, <1>3, <1>4, <1>5, <1>6, <1>7, HandlerCases

\* Every step but a crash and a restart takes something off.
LEMMA StepDescends ==
  ASSUME Base, Next, ~Crash, ~Restart
  PROVE  StepsLeft' < StepsLeft
<1>1. CASE HandlerStep
  BY <1>1, HandlerDescends
<1>2. ASSUME NEW r \in Requests, NEW k \in Kinds, Submit(r, k)
      PROVE  StepsLeft' < StepsLeft
  <2>1. Cardinality(Unsent') = Cardinality(Unsent) - 1
    BY <1>2, OneSent
  <2>2. Len(mailbox') = Len(mailbox) + 1
    BY <1>2, AppendProperties DEF Submit, Base
  <2>3. observations' = observations /\ Rank' = Rank
    BY <1>2 DEF Submit, Rank
  <2> QED
    BY <2>1, <2>2, <2>3, StepsLeftType DEF StepsLeft
<1>3. CASE ConnectReturns
  <2>1. UNCHANGED <<mailbox, observations, fate>> /\ Rank = 5 /\ Rank' = 4
    BY <1>3 DEF ConnectReturns, Rank
  <2>2. Unsent' = Unsent
    BY <2>1 DEF Unsent
  <2> QED
    BY <2>1, <2>2, StepsLeftType DEF StepsLeft
<1> QED
  BY <1>1, <1>2, <1>3 DEF Next

\* A table that holds rows has an oldest one.
LEMMA VictimExists ==
  ASSUME Base, DOMAIN observations # {}
  PROVE  Victims # {}
<1> DEFINE T == DOMAIN observations
<1>1. T \in SUBSET Nat /\ T # {}
  BY Sizes DEF Base, TypeOK
<1>2. PICK less : /\ IsWellFoundedOn(less, Nat)
                  /\ \A m, n \in Nat : m < n => <<m, n>> \in less
  BY NatLessThanWellFounded DEF OpToRel
<1>3. \E n \in T : \A m \in T : ~(<<m, n>> \in less)
  <2> HIDE DEF T
  <2>1. IsWellFoundedOn(less, Nat)
    BY <1>2
  <2> QED
    BY <1>1, <2>1, WFMin
<1>4. PICK n \in T : \A m \in T : ~(<<m, n>> \in less)
  BY <1>3
<1>5. ASSUME NEW m \in T PROVE n <= m
  <2>1. m \in Nat /\ n \in Nat /\ ~(m < n)
    BY <1>1, <1>2, <1>4
  <2> QED
    BY <2>1
<1> QED
  BY <1>4, <1>5 DEF Victims

\* What the root needs for a step of its own, a failure left aside: a message
\* to take, a row to reclaim, or a handler whose next stage nothing holds up.
CanGoOn ==
    \/ stage = "Idle" /\ mailbox # <<>>
    \/ stage \in {"Opening", "Reclaiming"} /\ Excess /\ Victims # {}
    \/ stage = "Opening" /\ ~Excess
    \/ stage = "Reclaiming" /\ ~Excess /\ handling # {}
    \/ stage \in {"Answering", "Recording"} /\ handling # {}

\* The router client has a connect open, for a query about the prototype.
HeldByRouter ==
    stage = "Connecting" /\ \E r \in handling : kind[r] = "PrototypeWitness"

\* Whoever waits is in the mailbox or handled by a root that can go on, unless
\* the root waits for the router.
LEMMA WaitingCanGoOn ==
  ASSUME Base, Waiting # {}
  PROVE  up /\ (HeldByRouter \/ CanGoOn)
<1>1. Waiting = handling \cup Queued
  BY DEF Base, TypeOK, Waiting, Queued
<1>2. CASE handling # {}
  <2>1. stage \in {"Connecting", "Answering", "Recording", "Reclaiming"}
    BY <1>2 DEF Base, TypeOK
  <2>3. stage = "Connecting" => HeldByRouter
    BY <1>2 DEF HeldByRouter, Base, TypeOK
  <2>2. CASE stage = "Reclaiming" /\ Excess
    <3>1. DOMAIN observations # {}
      BY <2>2, FS_EmptySet, RootAssumption DEF Excess
    <3> QED
      BY <1>2, <2>1, <2>2, <3>1, VictimExists DEF CanGoOn, Base
  <2> QED
    BY <1>2, <2>1, <2>2, <2>3 DEF CanGoOn, Base
<1>3. CASE handling = {}
  <2>1. mailbox # <<>> /\ stage \in {"Idle", "Opening"} /\ up
    BY <1>1, <1>3, EmptySeq DEF Base, TypeOK, Queued
  <2>2. CASE stage = "Opening" /\ Excess
    <3>1. DOMAIN observations # {}
      BY <2>2, FS_EmptySet, RootAssumption DEF Excess
    <3> QED
      BY <2>1, <2>2, <3>1, VictimExists DEF CanGoOn
  <2> QED
    BY <2>1, <2>2 DEF CanGoOn
<1> QED
  BY <1>2, <1>3

(* No query waits behind work without end or behind a root that is stuck   *)
(* on its own account: while a client waits the root has a step to take,   *)
(* or a connect to the router, opened for a prototype witness, has not     *)
(* returned (runtime.rs:443-458), which nothing bounds; and between a      *)
(* restart and a crash every step, whoever takes it and whether or not     *)
(* something fails, leaves fewer to come (runtime.rs, the query handler;   *)
(* store.rs:203-212, 298-307).  With the fairness of the runtime that is   *)
(* EveryQueryEnds, whose hypothesis is that the connects return.           *)
THEOREM QueriesTerminate ==
  Spec => /\ [](StepsLeft \in Nat /\ (Waiting # {} => up /\ (HeldByRouter \/ CanGoOn)))
          /\ [][~Crash /\ ~Restart => StepsLeft' < StepsLeft]_vars
<1>1. Base => StepsLeft \in Nat /\ (Waiting # {} => up /\ (HeldByRouter \/ CanGoOn))
  BY StepsLeftType, WaitingCanGoOn
<1>2. Base /\ [Next]_vars => [~Crash /\ ~Restart => StepsLeft' < StepsLeft]_vars
  BY StepDescends
<1> QED
  BY <1>1, <1>2, BaseInvariant, PTL DEF Spec

-----------------------------------------------------------------------------
Size == Cardinality(DOMAIN observations)

\* Each failure leaves one row too many at most; a row is asserted on top.
ExcessByFailures ==
    /\ up /\ stage \in {"Idle", "Connecting", "Answering", "Recording"} => Size <= ObservationCap + faults
    /\ stage = "Reclaiming" => Size <= ObservationCap + faults + 1

LEMMA ExcessStep ==
  ASSUME Base, ExcessByFailures, [Next]_vars
  PROVE  ExcessByFailures'
<1>0. Size \in Nat /\ ObservationCap \in Nat /\ faults \in Nat
  BY StepsLeftType, RootAssumption DEF Size, Base
<1>1. CASE Receive \/ ConnectReturns \/ \E r \in handling : Answer(r)
  <2>1. /\ UNCHANGED <<observations, up, faults>> /\ stage' # "Reclaiming"
        /\ stage \in {"Idle", "Connecting", "Answering", "Recording"}
    BY <1>1, FirstStages DEF Receive, ConnectReturns, Answer, failures
  <2> QED
    BY <1>0, <2>1 DEF ExcessByFailures, Size
<1>2. CASE ReclaimObservation
  <2>1. PICK s \in DOMAIN observations : DOMAIN observations' = DOMAIN observations \ {s}
    BY <1>2 DEF ReclaimObservation, Victims
  <2>2. Size' = Size - 1
    BY <2>1, StepsLeftType, FS_RemoveElement DEF Size
  <2>3. stage \in {"Reclaiming", "Opening"} /\ UNCHANGED <<up, stage, faults>>
    BY <1>2 DEF ReclaimObservation, root, failures
  <2> QED
    BY <1>0, <2>2, <2>3 DEF ExcessByFailures
<1>3. CASE FinishOpen
  BY <1>0, <1>3 DEF FinishOpen, ExcessByFailures, Excess, Size, failures
<1>4. ASSUME NEW r \in handling, AssertObservation(r)
      PROVE  ExcessByFailures'
  <2>1. /\ DOMAIN observations' = DOMAIN observations \cup {handled_queries}
        /\ handled_queries \notin DOMAIN observations
        /\ stage = "Recording" /\ stage' = "Reclaiming" /\ UNCHANGED <<up, faults>>
    BY <1>4 DEF AssertObservation, failures
  <2>2. Size' = Size + 1
    BY <2>1, StepsLeftType, FS_AddElement DEF Size
  <2>3. up
    BY <2>1 DEF Base
  <2> QED
    BY <1>0, <2>1, <2>2, <2>3 DEF ExcessByFailures
<1>5. ASSUME NEW r \in handling, NEW outcome \in {"Answered", "Error"}, Ends(r, outcome)
      PROVE  ExcessByFailures'
  <2>1. /\ Size' = Size /\ up' = up /\ stage' = "Idle" /\ faults' \in {faults, faults + 1}
        /\ stage \in {"Answering", "Recording", "Reclaiming"}
        /\ stage = "Reclaiming" /\ faults' = faults => ~Excess
    BY <1>5, <1>0 DEF Ends, Reply, Size
  <2> QED
    BY <1>0, <2>1 DEF ExcessByFailures, Excess, Size
<1>6. CASE Crash \/ Restart
  BY <1>6 DEF Crash, Restart, ExcessByFailures
<1>7. CASE UNCHANGED vars \/ \E r \in Requests, k \in Kinds : Submit(r, k)
  <2>1. UNCHANGED <<observations, up, stage, faults>>
    BY <1>7 DEF vars, Submit, root, failures
  <2> QED
    BY <2>1 DEF ExcessByFailures, Size
<1> QED
  BY <1>1, <1>2, <1>3, <1>4, <1>5, <1>6, <1>7, HandlerCases DEF Next

(* The audit trail is bounded even where the engine fails: between two     *)
(* queries it holds at most one row over its cap for each failure since    *)
(* the behaviour began, however often the process died in between          *)
(* (store.rs:203-212, 298-307).                                            *)
THEOREM AuditTrailIsBounded ==
  Spec => [](up /\ stage = "Idle" => Size <= ObservationCap + faults)
<1>1. Init => ExcessByFailures
  <2> SUFFICES ASSUME Init PROVE ExcessByFailures
    OBVIOUS
  <2>1. Size = 0
    BY FS_EmptySet DEF Init, Size
  <2> QED
    BY <2>1, RootAssumption DEF Init, ExcessByFailures
<1>2. ExcessByFailures => (up /\ stage = "Idle" => Size <= ObservationCap + faults)
  BY DEF ExcessByFailures
<1> QED
  BY <1>1, <1>2, ExcessStep, BaseInvariant, PTL DEF Spec
=============================================================================
