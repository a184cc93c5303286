--------------------- MODULE CoalescerAccountingProofs ----------------------
(***************************************************************************)
(* Proofs about the accounts of CoalescerAccounting.tla: for every set of  *)
(* events, policy and integer width every event is counted exactly once,   *)
(* and the coalescer implements EventLedger while no counter saturates.    *)
(***************************************************************************)
EXTENDS CoalescerAccounting, CoalescerProofs

(* The history changes nothing the coalescer does.                         *)
LEMMA HistoryOnly == AccountingSpec => Spec
<1>1. AccountingInit => Init
  BY DEF AccountingInit
<1>2. [AccountingNext]_accountingVars => [Next]_coalescerVars
  <2> SUFFICES ASSUME [AccountingNext]_accountingVars PROVE [Next]_coalescerVars
    OBVIOUS
  <2>1. ASSUME NEW e \in Events, IngestCounted(e) PROVE Next
    BY <2>1 DEF IngestCounted, Next
  <2>2. ASSUME NEW b \in Boots, FlushBootCounted(b) PROVE Next
    BY <2>2 DEF FlushBootCounted, Next
  <2>3. ASSUME FlushAllCounted PROVE Next
    BY <2>3 DEF FlushAllCounted, Next
  <2>4. ASSUME UNCHANGED accountingVars PROVE UNCHANGED coalescerVars
    BY <2>4 DEF accountingVars, coalescerVars
  <2> QED
    BY <2>1, <2>2, <2>3, <2>4 DEF AccountingNext
<1> QED
  BY <1>1, <1>2, PTL DEF AccountingSpec, Spec

(* Open counts are counts of 64-bit width, zero for identities not open.   *)
LEMMA OpenCountType ==
  ASSUME TypeOK, NEW i
  PROVE  OpenCount(i) \in Nat /\ OpenCount(i) <= MaxInteger
<1>1. CASE i \in DOMAIN active
  <2>1. active[i].count \in Integers64 /\ active[i].count >= 1
    BY <1>1 DEF TypeOK, CoalescedSystemEvent
  <2> QED
    BY <1>1, <2>1, IntegerAssumption DEF OpenCount, Integers64
<1>2. CASE i \notin DOMAIN active
  BY <1>2, IntegerAssumption DEF OpenCount
<1> QED
  BY <1>1, <1>2

(* What closed summaries report for an identity is the count its window    *)
(* had: closing windows neither loses nor invents events.                  *)
LEMMA ClosedCounts ==
  ASSUME TypeOK,
         NEW left \in SUBSET DOMAIN active, NEW right \in SUBSET DOMAIN active,
         NEW c \in CoalescingClosures, NEW d \in CoalescingClosures,
         update'.closed = Closed(left, c) \cup Closed(right, d),
         NEW i
  PROVE  ClosedCount(i) = IF i \in left \cup right THEN OpenCount(i) ELSE 0
<1> DEFINE summaries ==
      {s \in update'.closed : ExactDuplicateIdentity(s.representative) = i}
<1>1. ASSUME NEW k \in DOMAIN active, NEW closure \in CoalescingClosures
      PROVE  /\ ExactDuplicateIdentity(Close(active[k], closure).representative) = k
             /\ Close(active[k], closure).count = active[k].count
  BY CloseSummary DEF TypeOK
<1>2. ASSUME NEW s \in summaries
      PROVE  i \in left \cup right /\ s.count = active[i].count
  BY <1>1, <1>2 DEF Closed
<1>3. ASSUME i \in left \cup right
      PROVE  summaries # {}
  <2>1. CASE i \in left
    <3>1. Close(active[i], c) \in summaries
      BY <1>1, <2>1 DEF Closed
    <3> QED
      BY <3>1
  <2>2. CASE i \in right
    <3>1. Close(active[i], d) \in summaries
      BY <1>1, <2>2 DEF Closed
    <3> QED
      BY <3>1
  <2> QED
    BY <1>3, <2>1, <2>2
<1>4. ClosedCount(i) = IF summaries = {} THEN 0 ELSE (CHOOSE s \in summaries : TRUE).count
  BY DEF ClosedCount
<1> HIDE DEF summaries
<1>5. summaries # {} => (CHOOSE s \in summaries : TRUE) \in summaries
  OBVIOUS
<1> QED
  BY <1>2, <1>3, <1>4, <1>5 DEF OpenCount

\* A step's effect on the counts: `closing` settles, `counted` grows by one event.
Entry(closing, counted) ==
    \A i \in Identities :
        LET rest == IF i \in closing THEN 0 ELSE OpenCount(i) IN
        /\ ClosedCount(i) = IF i \in closing THEN OpenCount(i) ELSE 0
        /\ OpenCount(i)' = IF i \in counted THEN SaturatingAdd(rest, 1) ELSE rest

(* A suppressed duplicate settles the overdue windows and adds one.        *)
LEMMA SuppressEntry ==
  ASSUME TypeOK, NEW e \in Events, Suppress(e)
  PROVE  \E closing \in SUBSET Identities : Entry(closing, {ExactDuplicateIdentity(e)})
<1> DEFINE expired == Expired(e.boot_identifier, e.event_instant)
           identity == ExactDuplicateIdentity(e)
           current == Repeated(active[identity], e.event_instant)
<1>1. /\ identity \in DOMAIN active /\ identity \notin expired
      /\ active' = [k \in DOMAIN active \ expired |->
                       IF k = identity THEN current ELSE active[k]]
      /\ update'.closed = Closed(expired, "Interval") \cup Closed({}, "Interval")
  BY DEF Suppress, Closed
<1>2. expired \in SUBSET DOMAIN active
  BY DEF Expired
<1>3. current.count = SaturatingAdd(active[identity].count, 1)
  BY <1>1, RepeatedSummary, EventsAssumption DEF TypeOK, SystemEvent
<1> HIDE DEF expired, identity, current
<1>4. \A i : ClosedCount(i) = IF i \in expired THEN OpenCount(i) ELSE 0
  BY <1>1, <1>2, ClosedCounts DEF CoalescingClosures
<1>5. Entry(expired, {identity})
  BY <1>1, <1>3, <1>4 DEF Entry, OpenCount
<1>6. expired \in SUBSET Identities
  BY <1>2 DEF TypeOK
<1> QED
  BY <1>5, <1>6 DEF identity

(* A fresh window settles the overdue and the evicted ones and starts at   *)
(* one, whether or not its identity had an overdue window.                 *)
LEMMA OpenWindowEntry ==
  ASSUME TypeOK, NEW e \in Events, OpenWindow(e)
  PROVE  \E closing \in SUBSET Identities : Entry(closing, {ExactDuplicateIdentity(e)})
<1> DEFINE expired == Expired(e.boot_identifier, e.event_instant)
           identity == ExactDuplicateIdentity(e)
           current == Coalesced(e, "Active")
<1>1. PICK evicted \in Evictions(DOMAIN active \ expired) :
        /\ active' = [k \in ((DOMAIN active \ expired) \ evicted) \cup {identity} |->
                         IF k = identity THEN current ELSE active[k]]
        /\ update'.closed = Closed(expired, "Interval") \cup Closed(evicted, "Eviction")
  BY DEF OpenWindow
<1>2. identity \notin DOMAIN active \ expired
  BY DEF OpenWindow
<1>3. expired \in SUBSET DOMAIN active /\ evicted \in SUBSET DOMAIN active
  BY EvictedKeys DEF Expired
<1>4. current.count = 1 /\ SaturatingAdd(0, 1) = 1
  BY CoalescedSummary, EventsAssumption, IntegerAssumption DEF SaturatingAdd
<1> HIDE DEF expired, identity, current
<1>5. \A i : ClosedCount(i) = IF i \in expired \cup evicted THEN OpenCount(i) ELSE 0
  BY <1>1, <1>3, ClosedCounts DEF CoalescingClosures
<1>6. ASSUME NEW i \in Identities
      PROVE  OpenCount(i)' =
                LET rest == IF i \in expired \cup evicted THEN 0 ELSE OpenCount(i)
                IN  IF i \in {identity} THEN SaturatingAdd(rest, 1) ELSE rest
  BY <1>1, <1>2, <1>4 DEF OpenCount
<1>7. Entry(expired \cup evicted, {identity})
  BY <1>5, <1>6 DEF Entry
<1>8. expired \cup evicted \in SUBSET Identities
  BY <1>3 DEF TypeOK
<1> QED
  BY <1>7, <1>8 DEF identity

(* A flush settles what it closes and adds nothing.                        *)
LEMMA FlushEntry ==
  ASSUME TypeOK, NEW ids \in SUBSET DOMAIN active, NEW closure \in CoalescingClosures,
         FlushIdentities(ids, closure)
  PROVE  \E closing \in SUBSET Identities : Entry(closing, {})
<1>1. /\ active' = [k \in DOMAIN active \ ids |-> active[k]]
      /\ update'.closed = Closed(ids, closure) \cup Closed({}, closure)
  BY DEF FlushIdentities, Closed
<1>2. \A i : ClosedCount(i) = IF i \in ids THEN OpenCount(i) ELSE 0
  <2>1. {} \in SUBSET DOMAIN active
    OBVIOUS
  <2>2. \A i : ClosedCount(i) = IF i \in ids \cup {} THEN OpenCount(i) ELSE 0
    BY <1>1, <2>1, ClosedCounts
  <2> QED
    BY <2>2
<1>3. Entry(ids, {})
  BY <1>1, <1>2 DEF Entry, OpenCount
<1>4. ids \in SUBSET Identities
  BY DEF TypeOK
<1> QED
  BY <1>3, <1>4

-----------------------------------------------------------------------------
\* Every counted step is an entry for the identity ingested, or a flush.
LEMMA CountedStep ==
  ASSUME TypeOK, AccountingTypeOK, AccountingNext
  PROVE  /\ settled' = [i \in Identities |-> settled[i] + ClosedCount(i)]
         /\ \E closing \in SUBSET Identities :
              \/ \E identity \in Identities :
                    /\ seen[identity] < IngestBound
                    /\ seen' = [seen EXCEPT ![identity] = @ + 1]
                    /\ Entry(closing, {identity})
              \/ UNCHANGED seen /\ Entry(closing, {})
<1>1. ASSUME NEW e \in Events, IngestCounted(e)
      PROVE  \E closing \in SUBSET Identities : \E identity \in Identities :
                /\ seen[identity] < IngestBound
                /\ seen' = [seen EXCEPT ![identity] = @ + 1]
                /\ Entry(closing, {identity})
  <2> DEFINE identity == ExactDuplicateIdentity(e)
  <2>1. identity \in Identities
    BY DEF Identities
  <2>2. /\ seen[identity] < IngestBound
        /\ seen' = [seen EXCEPT ![identity] = @ + 1]
        /\ Ingest(e)
    BY <1>1 DEF IngestCounted
  <2>3. \E closing \in SUBSET Identities : Entry(closing, {identity})
    BY <2>2, SuppressEntry, OpenWindowEntry DEF Ingest
  <2> HIDE DEF identity
  <2> QED
    BY <2>1, <2>2, <2>3
<1>2. ASSUME NEW b \in Boots, FlushBootCounted(b)
      PROVE  UNCHANGED seen /\ \E closing \in SUBSET Identities : Entry(closing, {})
  <2>1. OfBoot(b) \in SUBSET DOMAIN active /\ FlushIdentities(OfBoot(b), "ExplicitFlush")
    BY <1>2 DEF FlushBootCounted, FlushBoot, OfBoot
  <2> QED
    BY <1>2, <2>1, FlushEntry DEF FlushBootCounted, CoalescingClosures
<1>3. ASSUME FlushAllCounted
      PROVE  UNCHANGED seen /\ \E closing \in SUBSET Identities : Entry(closing, {})
  BY <1>3, FlushEntry DEF FlushAllCounted, FlushAll, CoalescingClosures
<1>4. Settle
  BY DEF AccountingNext, IngestCounted, FlushBootCounted, FlushAllCounted
<1> QED
  BY <1>1, <1>2, <1>3, <1>4 DEF AccountingNext, Settle

\* The counts are naturals, before and after a step.
LEMMA CountsAreNaturals ==
  ASSUME TypeOK, AccountingTypeOK, TypeOK', NEW i \in Identities
  PROVE  /\ OpenCount(i) \in Nat /\ OpenCount(i) <= MaxInteger
         /\ OpenCount(i)' \in Nat /\ OpenCount(i)' <= MaxInteger
         /\ seen[i] \in Nat /\ settled[i] \in Nat
<1>1. OpenCount(i)' \in Nat /\ OpenCount(i)' <= MaxInteger
  <2>1. CASE i \in DOMAIN active'
    <3>1. active'[i].count \in Integers64 /\ active'[i].count >= 1
      BY <2>1 DEF TypeOK, CoalescedSystemEvent
    <3> QED
      BY <2>1, <3>1, IntegerAssumption DEF OpenCount, Integers64
  <2>2. CASE i \notin DOMAIN active'
    BY <2>2, IntegerAssumption DEF OpenCount
  <2> QED
    BY <2>1, <2>2
<1> QED
  BY <1>1, OpenCountType DEF AccountingTypeOK

LEMMA AccountingTypes ==
  ASSUME TypeOK, AccountingTypeOK, AccountingNext
  PROVE  AccountingTypeOK'
<1>1. PICK closing \in SUBSET Identities :
        \/ \E identity \in Identities :
              /\ seen' = [seen EXCEPT ![identity] = @ + 1]
              /\ Entry(closing, {identity})
        \/ UNCHANGED seen /\ Entry(closing, {})
  BY CountedStep
<1>2. settled' = [i \in Identities |-> settled[i] + ClosedCount(i)]
  BY CountedStep
<1>3. \A i \in Identities : ClosedCount(i) \in Nat
  BY <1>1, OpenCountType DEF Entry
<1>4. seen' \in [Identities -> Nat]
  <2>1. ASSUME NEW identity \in Identities, seen' = [seen EXCEPT ![identity] = @ + 1]
        PROVE  seen' \in [Identities -> Nat]
    BY <2>1 DEF AccountingTypeOK
  <2>2. UNCHANGED seen => seen' \in [Identities -> Nat]
    BY DEF AccountingTypeOK
  <2> QED
    BY <1>1, <2>1, <2>2
<1>5. settled' \in [Identities -> Nat]
  BY <1>2, <1>3 DEF AccountingTypeOK
<1> QED
  BY <1>4, <1>5 DEF AccountingTypeOK

(* The types of the history, and its balance, are preserved together with  *)
(* the coalescer's type invariant.                                         *)
LEMMA AccountingStep ==
  ASSUME TypeOK, AccountingTypeOK, Accounting, AccountingNext, TypeOK'
  PROVE  Accounting'
<1>1. PICK closing \in SUBSET Identities :
        \/ \E identity \in Identities :
              /\ seen' = [seen EXCEPT ![identity] = @ + 1]
              /\ Entry(closing, {identity})
        \/ UNCHANGED seen /\ Entry(closing, {})
  BY CountedStep
<1>2. settled' = [i \in Identities |-> settled[i] + ClosedCount(i)]
  BY CountedStep
<1>3. ASSUME NEW i \in Identities
      PROVE  /\ OpenCount(i)' + settled'[i] <= seen'[i]
             /\ seen'[i] <= MaxInteger => OpenCount(i)' + settled'[i] = seen'[i]
  <2> DEFINE rest == IF i \in closing THEN 0 ELSE OpenCount(i)
  <2>1. /\ OpenCount(i) \in Nat /\ OpenCount(i) <= MaxInteger
        /\ seen[i] \in Nat /\ settled[i] \in Nat
    BY <1>3, CountsAreNaturals
  <2>2. /\ OpenCount(i) + settled[i] <= seen[i]
        /\ seen[i] <= MaxInteger => OpenCount(i) + settled[i] = seen[i]
    BY <1>3 DEF Accounting
  <2>3. /\ settled'[i] = settled[i] + ClosedCount(i)
        /\ ClosedCount(i) = IF i \in closing THEN OpenCount(i) ELSE 0
    BY <1>1, <1>2, <1>3 DEF Entry
  <2>4. rest \in Nat /\ rest <= MaxInteger /\ rest + settled'[i] = OpenCount(i) + settled[i]
    BY <2>1, <2>3, IntegerAssumption
  <2>5. \/ seen'[i] = seen[i] + 1 /\ OpenCount(i)' = SaturatingAdd(rest, 1)
        \/ seen'[i] = seen[i] /\ OpenCount(i)' = rest
    BY <1>1, <1>3 DEF Entry, AccountingTypeOK
  <2>6. settled'[i] \in Nat
    BY <2>1, <2>3
  <2> HIDE DEF rest
  <2> QED
    BY <2>1, <2>2, <2>4, <2>5, <2>6, IntegerAssumption DEF SaturatingAdd
<1> QED
  BY <1>3 DEF Accounting

\* The inductive invariant of the accounts.
Books == TypeOK /\ AccountingTypeOK /\ Accounting

LEMMA BooksInvariant == AccountingSpec => []Books
<1>1. AccountingInit => AccountingTypeOK /\ Accounting
  BY DEF AccountingInit, Init, AccountingTypeOK, Accounting, OpenCount
<1>2. TypeOK /\ TypeOK' /\ AccountingTypeOK /\ Accounting /\ [AccountingNext]_accountingVars
        => AccountingTypeOK' /\ Accounting'
  <2>1. ASSUME UNCHANGED accountingVars
        PROVE  /\ AccountingTypeOK => AccountingTypeOK'
               /\ Accounting => Accounting'
    BY <2>1 DEF accountingVars, AccountingTypeOK, Accounting, OpenCount
  <2> QED
    BY <2>1, AccountingTypes, AccountingStep
<1> QED
  BY <1>1, <1>2, HistoryOnly, TypeCorrect, PTL DEF AccountingSpec, Books

(* Every event is counted exactly once, for every set of events, policy    *)
(* and width; a saturated counter can only report too few.                 *)
THEOREM AccountingCorrect == AccountingSpec => []Accounting
<1>1. Books => Accounting
  BY DEF Books
<1> QED
  BY <1>1, BooksInvariant, PTL

-----------------------------------------------------------------------------
\* A step of the coalescer is an entry of the ledger, unless it finds a counter
\* at its limit.
LEMMA LedgerStep ==
  ASSUME Books, Books', [AccountingNext]_accountingVars
  PROVE  [Ledger!Next \/ CountsNoFurther]_(Ledger!vars)
<1> USE DEF Ledger!Settle, Ledger!Remaining
<1>1. CASE UNCHANGED accountingVars
  <2>1. UNCHANGED <<active, seen, settled>>
    BY <1>1 DEF accountingVars
  <2>2. \A i : OpenCount(i)' = OpenCount(i)
    BY <2>1 DEF OpenCount
  <2> QED
    BY <2>1, <2>2 DEF Ledger!vars
<1>2. CASE AccountingNext
  <2>1. PICK closing \in SUBSET Identities :
          \/ \E identity \in Identities :
                /\ seen' = [seen EXCEPT ![identity] = @ + 1]
                /\ Entry(closing, {identity})
          \/ UNCHANGED seen /\ Entry(closing, {})
    BY <1>2, CountedStep DEF Books
  <2>2. settled' = [i \in Identities |-> settled[i] + ClosedCount(i)]
    BY <1>2, CountedStep DEF Books
  <2>3. Ledger!Settle(closing)
    BY <2>1, <2>2 DEF Entry
  <2>4. ASSUME NEW identity \in Identities,
               seen' = [seen EXCEPT ![identity] = @ + 1],
               Entry(closing, {identity})
        PROVE  Ledger!Observe(identity, closing) \/ CountsNoFurther
    <3> SUFFICES ASSUME ~CountsNoFurther PROVE Ledger!Observe(identity, closing)
      OBVIOUS
    <3>1. ASSUME NEW i \in Identities
          PROVE  OpenCount(i)' = (IF i \in closing THEN 0 ELSE OpenCount(i))
                                   + (IF i = identity THEN 1 ELSE 0)
      <4> DEFINE rest == IF i \in closing THEN 0 ELSE OpenCount(i)
      <4>1. OpenCount(i) \in Nat /\ OpenCount(i) <= MaxInteger /\ seen[i] \in Nat
        BY <3>1, CountsAreNaturals DEF Books
      <4>2. OpenCount(i)' = IF i = identity THEN SaturatingAdd(rest, 1) ELSE rest
        BY <2>4, <3>1 DEF Entry
      <4>3. CASE i # identity
        BY <4>1, <4>2, <4>3
      <4>4. CASE i = identity
        <5>1. seen'[i] = seen[i] + 1
          BY <2>4, <4>4 DEF Books, AccountingTypeOK
        <5>2. ~(OpenCount(i) = MaxInteger /\ OpenCount(i)' = MaxInteger)
          BY <3>1, <4>1, <5>1 DEF CountsNoFurther
        <5>3. rest \in Nat /\ rest <= MaxInteger /\ (rest = OpenCount(i) \/ rest = 0)
          BY <4>1, IntegerAssumption
        <5> HIDE DEF rest
        <5>4. SaturatingAdd(rest, 1) = rest + 1
          BY <4>1, <4>2, <4>4, <5>2, <5>3, IntegerAssumption DEF SaturatingAdd
        <5> USE DEF rest
        <5> QED
          BY <4>2, <4>4, <5>4
      <4> QED
        BY <4>3, <4>4
    <3>2. [i \in Identities |-> OpenCount(i)]' =
            [i \in Identities |-> (IF i \in closing THEN 0 ELSE OpenCount(i))
                                    + (IF i = identity THEN 1 ELSE 0)]
      BY <3>1
    <3> QED
      BY <2>3, <2>4, <3>2 DEF Ledger!Observe
  <2>5. ASSUME UNCHANGED seen, Entry(closing, {})
        PROVE  Ledger!Flush(closing)
    <3>1. \A i \in Identities :
            OpenCount(i)' = IF i \in closing THEN 0 ELSE OpenCount(i)
      BY <2>5 DEF Entry
    <3> QED
      BY <2>3, <2>5, <3>1 DEF Ledger!Flush
  <2> QED
    BY <2>1, <2>4, <2>5 DEF Ledger!Next
<1> QED
  BY <1>1, <1>2

(* The coalescer implements EventLedger, for every set of events, policy   *)
(* and width; only an event that a counter at its limit leaves uncounted   *)
(* is no entry of the ledger.                                              *)
THEOREM CoalescerImplementsLedger == AccountingSpec => ImplementsLedger
<1>1. AccountingInit => Ledger!Init
  BY DEF AccountingInit, Init, Ledger!Init, Ledger!Zero, OpenCount
<1>2. Books /\ Books' /\ [AccountingNext]_accountingVars
        => [Ledger!Next \/ CountsNoFurther]_(Ledger!vars)
  BY LedgerStep
<1> QED
  BY <1>1, <1>2, BooksInvariant, PTL DEF AccountingSpec, ImplementsLedger
=============================================================================
