-------------------------- MODULE CoalescerProofs ---------------------------
(***************************************************************************)
(* Proofs about the coalescer of Coalescer.tla, for every set of events,   *)
(* every policy and every integer width: types, the capacity of the table, *)
(* the span of a window, which windows an event closes, and that there is  *)
(* always one to evict.                                                    *)
(***************************************************************************)
EXTENDS Coalescer, FiniteSetTheorems, TLAPS

(* Saturating addition stays within the width (i64::saturating_add).       *)
LEMMA SaturatingAddType ==
  ASSUME NEW a \in Int, NEW b \in Int
  PROVE  SaturatingAdd(a, b) \in Integers64
  BY IntegerAssumption DEF SaturatingAdd, Integers64

(* Saturation never hides that a window is overdue: a positive interval is *)
(* reached by the saturating difference exactly when it is reached by the  *)
(* true one (close_expired, coalescer.rs:130-141).                         *)
LEMMA SaturationKeepsOverdue ==
  ASSUME NEW s \in CoalescedSystemEvent, NEW now \in Integers64,
         IntervalMicroseconds > 0
  PROVE  Overdue(s, now) <=> now - s.first_seen >= IntervalMicroseconds
  BY IntegerAssumption, PolicyAssumption
  DEF Overdue, SaturatingSub, SaturatingAdd, Integers64, CoalescedSystemEvent

(* What an exact duplicate does to the summary it joins.                   *)
LEMMA RepeatedSummary ==
  ASSUME NEW s \in CoalescedSystemEvent, NEW now \in Integers64, s.count >= 1
  PROVE  LET t == Repeated(s, now) IN
         /\ t \in CoalescedSystemEvent
         /\ t.representative = s.representative
         /\ t.closure = s.closure
         /\ t.first_seen = s.first_seen /\ t.last_seen = now
         /\ t.count = SaturatingAdd(s.count, 1)
         /\ t.count >= 1 /\ t.suppressed_count = t.count - 1
<1>1. s.count \in Int /\ s.count <= MaxInteger
  BY IntegerAssumption DEF CoalescedSystemEvent, Integers64
<1>2. /\ SaturatingAdd(s.count, 1) \in Integers64
      /\ SaturatingAdd(s.count, 1) >= 1
  BY <1>1, IntegerAssumption DEF SaturatingAdd, Integers64
<1>3. /\ SaturatingSub(SaturatingAdd(s.count, 1), 1) = SaturatingAdd(s.count, 1) - 1
      /\ SaturatingSub(SaturatingAdd(s.count, 1), 1) \in Integers64
  BY <1>2, IntegerAssumption DEF SaturatingSub, SaturatingAdd, Integers64
<1> QED
  BY <1>2, <1>3 DEF Repeated, CoalescedSystemEvent

(* A fresh window is well formed and as long as an instant.                *)
LEMMA CoalescedSummary ==
  ASSUME NEW e \in SystemEvent
  PROVE  LET t == Coalesced(e, "Active") IN
         /\ t \in CoalescedSystemEvent
         /\ t.representative = e
         /\ t.closure = "Active"
         /\ t.count = 1 /\ t.suppressed_count = 0
         /\ t.first_seen = e.event_instant /\ t.last_seen = e.event_instant
  BY IntegerAssumption
  DEF Coalesced, CoalescedSystemEvent, SystemEvent, CoalescingClosures, Integers64

(* Exact duplicates come from one boot (contract.rs:95-114).               *)
LEMMA DuplicatesShareBoot ==
  ASSUME NEW e \in SystemEvent, NEW f \in SystemEvent,
         ExactDuplicateIdentity(e) = ExactDuplicateIdentity(f)
  PROVE  e.boot_identifier = f.boot_identifier
<1>1. ExactDuplicateIdentity(e).boot_identifier = e.boot_identifier
  BY DEF ExactDuplicateIdentity, SystemEvent
<1>2. ExactDuplicateIdentity(f).boot_identifier = f.boot_identifier
  BY DEF ExactDuplicateIdentity, SystemEvent
<1> QED
  BY <1>1, <1>2

(* Closing a window changes its closure only.                              *)
LEMMA CloseSummary ==
  ASSUME NEW s \in CoalescedSystemEvent, NEW closure \in CoalescingClosures
  PROVE  /\ Close(s, closure) \in CoalescedSystemEvent
         /\ Close(s, closure).representative = s.representative
         /\ Close(s, closure).count = s.count
         /\ Close(s, closure).closure = closure
  BY DEF Close, CoalescedSystemEvent

(* The summaries a call returns as closed are well formed.                 *)
LEMMA ClosedSummaries ==
  ASSUME TypeOK, NEW ids \in SUBSET DOMAIN active, NEW closure \in CoalescingClosures
  PROVE  Closed(ids, closure) \subseteq CoalescedSystemEvent
<1> SUFFICES ASSUME NEW k \in ids PROVE Close(active[k], closure) \in CoalescedSystemEvent
  BY DEF Closed
<1> QED
  BY CloseSummary DEF TypeOK

(* What eviction takes from the table is one of its keys, or nothing.      *)
LEMMA EvictedKeys ==
  ASSUME NEW open, NEW evicted \in Evictions(open)
  PROVE  evicted \subseteq open
  BY DEF Evictions, Oldest

-----------------------------------------------------------------------------
(* Joining a window keeps the table well formed.                           *)
LEMMA SuppressType ==
  ASSUME TypeOK, NEW e \in Events, Suppress(e)
  PROVE  TypeOK'
<1> DEFINE expired == Expired(e.boot_identifier, e.event_instant)
           identity == ExactDuplicateIdentity(e)
           current == Repeated(active[identity], e.event_instant)
<1>1. /\ identity \in DOMAIN active /\ identity \notin expired
      /\ active' = [k \in DOMAIN active \ expired |->
                       IF k = identity THEN current ELSE active[k]]
      /\ update' = [current |-> {current}, closed |-> Closed(expired, "Interval")]
      /\ evictions' = evictions
  BY DEF Suppress
<1>2. e.event_instant \in Integers64
  BY EventsAssumption DEF SystemEvent
<1>3. /\ current \in CoalescedSystemEvent
      /\ current.representative = active[identity].representative
      /\ current.closure = "Active"
      /\ current.count >= 1 /\ current.suppressed_count = current.count - 1
  BY <1>1, <1>2, RepeatedSummary DEF TypeOK
<1>4. Closed(expired, "Interval") \subseteq CoalescedSystemEvent
  <2>1. expired \in SUBSET DOMAIN active
    BY DEF Expired
  <2> HIDE DEF expired
  <2> QED
    BY <2>1, ClosedSummaries DEF CoalescingClosures
<1> HIDE DEF expired, identity, current
<1>5. ASSUME NEW k \in DOMAIN active'
      PROVE  /\ active'[k] \in CoalescedSystemEvent
             /\ ExactDuplicateIdentity(active'[k].representative) = k
             /\ active'[k].closure = "Active"
             /\ active'[k].count >= 1
             /\ active'[k].suppressed_count = active'[k].count - 1
  BY <1>1, <1>3, <1>5 DEF TypeOK
<1>6. DOMAIN active' \subseteq Identities
  BY <1>1 DEF TypeOK
<1>7. update' \in [current : SUBSET CoalescedSystemEvent,
                  closed  : SUBSET CoalescedSystemEvent]
  BY <1>1, <1>3, <1>4
<1> QED
  BY <1>1, <1>5, <1>6, <1>7 DEF TypeOK

(* Opening a window keeps the table well formed.                           *)
LEMMA OpenWindowType ==
  ASSUME TypeOK, NEW e \in Events, OpenWindow(e)
  PROVE  TypeOK'
<1> DEFINE expired == Expired(e.boot_identifier, e.event_instant)
           identity == ExactDuplicateIdentity(e)
           current == Coalesced(e, "Active")
<1>1. PICK evicted \in Evictions(DOMAIN active \ expired) :
        /\ active' = [k \in ((DOMAIN active \ expired) \ evicted) \cup {identity} |->
                         IF k = identity THEN current ELSE active[k]]
        /\ update' = [current |-> {current},
                      closed  |-> Closed(expired, "Interval")
                                    \cup Closed(evicted, "Eviction")]
        /\ evictions' = IF evicted = {} THEN evictions ELSE SaturatingAdd(evictions, 1)
  BY DEF OpenWindow
<1>2. /\ current \in CoalescedSystemEvent
      /\ current.representative = e
      /\ current.closure = "Active"
      /\ current.count = 1 /\ current.suppressed_count = 0
  BY CoalescedSummary, EventsAssumption
<1>3. expired \subseteq DOMAIN active
  BY DEF Expired
<1> HIDE DEF expired, current
<1>4. evicted \subseteq DOMAIN active
  BY EvictedKeys
<1>5. /\ Closed(expired, "Interval") \subseteq CoalescedSystemEvent
      /\ Closed(evicted, "Eviction") \subseteq CoalescedSystemEvent
  BY <1>3, <1>4, ClosedSummaries DEF CoalescingClosures
<1>6. identity \in Identities
  BY DEF Identities
<1>7. evictions' \in 0 .. MaxInteger
  BY <1>1, IntegerAssumption DEF TypeOK, SaturatingAdd
<1>8. ASSUME NEW k \in DOMAIN active'
      PROVE  /\ active'[k] \in CoalescedSystemEvent
             /\ ExactDuplicateIdentity(active'[k].representative) = k
             /\ active'[k].closure = "Active"
             /\ active'[k].count >= 1
             /\ active'[k].suppressed_count = active'[k].count - 1
  <2>1. CASE k = identity
    BY <1>1, <1>2, <2>1
  <2>2. CASE k # identity
    <3> HIDE DEF identity
    <3> QED
      BY <1>1, <1>8, <2>2 DEF TypeOK
  <2> QED
    BY <2>1, <2>2
<1> HIDE DEF identity
<1>9. DOMAIN active' \subseteq Identities
  BY <1>1, <1>6 DEF TypeOK
<1>10. update' \in [current : SUBSET CoalescedSystemEvent,
                   closed  : SUBSET CoalescedSystemEvent]
  BY <1>1, <1>2, <1>5
<1> QED
  BY <1>7, <1>8, <1>9, <1>10 DEF TypeOK

(* So does closing any set of windows.                                     *)
LEMMA FlushType ==
  ASSUME TypeOK, NEW ids \in SUBSET DOMAIN active, NEW closure \in CoalescingClosures,
         FlushIdentities(ids, closure)
  PROVE  TypeOK'
<1>1. /\ active' = [k \in DOMAIN active \ ids |-> active[k]]
      /\ update' = [current |-> {}, closed |-> Closed(ids, closure)]
      /\ evictions' = evictions
  BY DEF FlushIdentities
<1>2. Closed(ids, closure) \subseteq CoalescedSystemEvent
  BY ClosedSummaries
<1>3. update' \in [current : SUBSET CoalescedSystemEvent,
                  closed  : SUBSET CoalescedSystemEvent]
  BY <1>1, <1>2
<1> QED
  BY <1>1, <1>3 DEF TypeOK

(* The steps of the coalescer, as flushes of some windows or ingestions.   *)
LEMMA StepCases ==
  ASSUME [Next]_coalescerVars
  PROVE  \/ \E e \in Events : Suppress(e) \/ OpenWindow(e)
         \/ \E ids \in SUBSET DOMAIN active, closure \in {"ExplicitFlush", "Shutdown"} :
              FlushIdentities(ids, closure)
         \/ UNCHANGED coalescerVars
<1>1. ASSUME NEW b \in Boots, FlushBoot(b, "ExplicitFlush")
      PROVE  \E ids \in SUBSET DOMAIN active : FlushIdentities(ids, "ExplicitFlush")
  <2>1. OfBoot(b) \in SUBSET DOMAIN active
    BY DEF OfBoot
  <2> QED
    BY <1>1, <2>1 DEF FlushBoot
<1>2. ASSUME FlushAll("Shutdown")
      PROVE  \E ids \in SUBSET DOMAIN active : FlushIdentities(ids, "Shutdown")
  BY <1>2 DEF FlushAll
<1> QED
  BY <1>1, <1>2 DEF Next, Ingest

(* The type invariant: every window is kept under the identity of its      *)
(* representative, is Active and counts what it suppressed.                *)
THEOREM TypeCorrect == Spec => []TypeOK
<1>1. Init => TypeOK
  BY IntegerAssumption DEF Init, TypeOK
<1>2. TypeOK /\ [Next]_coalescerVars => TypeOK'
  <2> SUFFICES ASSUME TypeOK, [Next]_coalescerVars PROVE TypeOK'
    OBVIOUS
  <2>1. ASSUME NEW e \in Events, Suppress(e) PROVE TypeOK'
    BY <2>1, SuppressType
  <2>2. ASSUME NEW e \in Events, OpenWindow(e) PROVE TypeOK'
    BY <2>2, OpenWindowType
  <2>3. ASSUME NEW ids \in SUBSET DOMAIN active,
               NEW closure \in {"ExplicitFlush", "Shutdown"},
               FlushIdentities(ids, closure)
        PROVE  TypeOK'
    BY <2>3, FlushType DEF CoalescingClosures
  <2>4. CASE UNCHANGED coalescerVars
    BY <2>4 DEF coalescerVars, TypeOK
  <2> QED
    BY <2>1, <2>2, <2>3, <2>4, StepCases
<1> QED
  BY <1>1, <1>2, PTL DEF Spec

-----------------------------------------------------------------------------
\* The capacity is a number of keys only because the table is finite.
FiniteBound == IsFiniteSet(DOMAIN active) /\ ActiveBounded

(* A new key enters only after making room: the table stays within bounds. *)
LEMMA OpenWindowBound ==
  ASSUME FiniteBound, NEW e \in Events, OpenWindow(e)
  PROVE  FiniteBound'
<1> DEFINE identity == ExactDuplicateIdentity(e)
           open == DOMAIN active \ Expired(e.boot_identifier, e.event_instant)
<1>1. PICK evicted \in Evictions(open) :
        DOMAIN active' = (open \ evicted) \cup {identity}
  BY DEF OpenWindow
<1>2. /\ IsFiniteSet(open) /\ Cardinality(open) \in Nat
      /\ Cardinality(open) <= Cardinality(DOMAIN active)
      /\ Cardinality(DOMAIN active) \in Nat
  BY FS_Subset, FS_CardinalityType DEF FiniteBound
<1>3. identity \notin open
  BY DEF OpenWindow
<1> HIDE DEF open, identity
<1>4. CASE Cardinality(open) >= MaximumActiveKeys /\ open # {}
  <2>1. PICK k \in open : evicted = {k}
    BY <1>4 DEF Evictions, Oldest
  <2>2. /\ IsFiniteSet(open \ {k})
        /\ Cardinality(open \ {k}) = Cardinality(open) - 1
    BY <1>2, FS_RemoveElement
  <2>3. /\ IsFiniteSet((open \ {k}) \cup {identity})
        /\ Cardinality((open \ {k}) \cup {identity}) = Cardinality(open)
    BY <1>2, <1>3, <2>2, FS_AddElement
  <2>4. DOMAIN active' = (open \ {k}) \cup {identity}
    BY <1>1, <2>1
  <2> QED
    BY <1>2, <2>3, <2>4, PolicyAssumption DEF FiniteBound, ActiveBounded
<1>5. CASE ~(Cardinality(open) >= MaximumActiveKeys /\ open # {})
  <2>1. evicted = {}
    BY <1>5 DEF Evictions
  <2>2. /\ IsFiniteSet(open \cup {identity})
        /\ Cardinality(open \cup {identity}) = Cardinality(open) + 1
    BY <1>2, <1>3, FS_AddElement
  <2>3. Cardinality(open) < MaximumActiveKeys \/ Cardinality(open) = 0
    BY <1>2, <1>5, PolicyAssumption, FS_EmptySet
  <2>4. DOMAIN active' = open \cup {identity}
    BY <1>1, <2>1
  <2> QED
    BY <1>2, <2>2, <2>3, <2>4, PolicyAssumption DEF FiniteBound, ActiveBounded
<1> QED
  BY <1>4, <1>5

(* Every other call only takes keys away.                                  *)
LEMMA BoundStep ==
  ASSUME FiniteBound, [Next]_coalescerVars
  PROVE  FiniteBound'
<1>1. ASSUME DOMAIN active' \subseteq DOMAIN active PROVE FiniteBound'
  <2>1. /\ IsFiniteSet(DOMAIN active') /\ Cardinality(DOMAIN active') \in Nat
        /\ Cardinality(DOMAIN active') <= Cardinality(DOMAIN active)
        /\ Cardinality(DOMAIN active) \in Nat
    BY <1>1, FS_Subset, FS_CardinalityType DEF FiniteBound
  <2> QED
    BY <2>1, PolicyAssumption DEF FiniteBound, ActiveBounded
<1>2. ASSUME NEW e \in Events, Suppress(e) PROVE FiniteBound'
  BY <1>1, <1>2 DEF Suppress
<1>3. ASSUME NEW e \in Events, OpenWindow(e) PROVE FiniteBound'
  BY <1>3, OpenWindowBound
<1>4. ASSUME NEW ids \in SUBSET DOMAIN active,
             NEW closure \in {"ExplicitFlush", "Shutdown"},
             FlushIdentities(ids, closure)
      PROVE  FiniteBound'
  BY <1>1, <1>4 DEF FlushIdentities
<1>5. CASE UNCHANGED coalescerVars
  BY <1>1, <1>5 DEF coalescerVars
<1> QED
  BY <1>2, <1>3, <1>4, <1>5, StepCases

(* The table stays finite and within its capacity in every run.            *)
LEMMA FiniteTable == Spec => []FiniteBound
<1>1. Init => FiniteBound
  BY FS_EmptySet, PolicyAssumption DEF Init, FiniteBound, ActiveBounded
<1> QED
  BY <1>1, BoundStep, PTL DEF Spec

(* "Active duplicate keys are bounded": ActiveBounded for every set of     *)
(* events and every policy.                                                *)
THEOREM Bounded == Spec => []ActiveBounded
<1>1. FiniteBound => ActiveBounded
  BY DEF FiniteBound
<1> QED
  BY <1>1, FiniteTable, PTL

-----------------------------------------------------------------------------
(* A duplicate joins a window only if the window is not overdue at its     *)
(* instant, so the window still spans less than the interval.              *)
LEMMA SuppressSpan ==
  ASSUME TypeOK, WindowSpan, NEW e \in Events, Suppress(e)
  PROVE  WindowSpan'
<1> SUFFICES ASSUME IntervalMicroseconds > 0, NEW k \in DOMAIN active'
             PROVE  active'[k].last_seen - active'[k].first_seen < IntervalMicroseconds
  BY DEF WindowSpan
<1> DEFINE expired == Expired(e.boot_identifier, e.event_instant)
           identity == ExactDuplicateIdentity(e)
           window == active[identity]
           current == Repeated(window, e.event_instant)
<1>1. /\ identity \in DOMAIN active /\ identity \notin expired
      /\ active' = [i \in DOMAIN active \ expired |->
                       IF i = identity THEN current ELSE active[i]]
  BY DEF Suppress
<1>2. /\ window \in CoalescedSystemEvent /\ window.count >= 1
      /\ ExactDuplicateIdentity(window.representative) = ExactDuplicateIdentity(e)
  BY <1>1 DEF TypeOK
<1>3. /\ window.representative \in SystemEvent
      /\ e \in SystemEvent /\ e.event_instant \in Integers64
  BY <1>2, EventsAssumption DEF CoalescedSystemEvent, SystemEvent
<1>4. window.representative.boot_identifier = e.boot_identifier
  BY <1>2, <1>3, DuplicatesShareBoot
<1>5. ~Overdue(window, e.event_instant)
  BY <1>1, <1>4 DEF Expired
<1>6. /\ e.event_instant - window.first_seen < IntervalMicroseconds
      /\ current.first_seen = window.first_seen
      /\ current.last_seen = e.event_instant
  <2>1. ~(e.event_instant - window.first_seen >= IntervalMicroseconds)
    BY <1>2, <1>3, <1>5, SaturationKeepsOverdue
  <2>2. e.event_instant \in Int /\ window.first_seen \in Int /\ IntervalMicroseconds \in Int
    BY <1>2, <1>3, IntegerAssumption, PolicyAssumption DEF CoalescedSystemEvent, Integers64
  <2> QED
    BY <1>2, <1>3, <2>1, <2>2, RepeatedSummary
<1> HIDE DEF expired, identity, window, current
<1>7. CASE k = identity
  BY <1>1, <1>6, <1>7
<1>8. CASE k # identity
  BY <1>1, <1>8 DEF WindowSpan
<1> QED
  BY <1>7, <1>8

(* A fresh window spans nothing.                                           *)
LEMMA OpenWindowSpan ==
  ASSUME TypeOK, WindowSpan, NEW e \in Events, OpenWindow(e)
  PROVE  WindowSpan'
<1> SUFFICES ASSUME IntervalMicroseconds > 0, NEW k \in DOMAIN active'
             PROVE  active'[k].last_seen - active'[k].first_seen < IntervalMicroseconds
  BY DEF WindowSpan
<1> DEFINE identity == ExactDuplicateIdentity(e)
           current == Coalesced(e, "Active")
<1>1. /\ active'[k] = IF k = identity THEN current ELSE active[k]
      /\ k # identity => k \in DOMAIN active
  BY DEF OpenWindow
<1>2. current.last_seen - current.first_seen = 0
  BY CoalescedSummary, EventsAssumption, IntegerAssumption DEF SystemEvent, Integers64
<1> HIDE DEF identity, current
<1> QED
  BY <1>1, <1>2, PolicyAssumption DEF WindowSpan, Integers64

(* No call makes a window span the interval.                               *)
LEMMA SpanStep ==
  ASSUME TypeOK, WindowSpan, [Next]_coalescerVars
  PROVE  WindowSpan'
<1>1. ASSUME NEW e \in Events, Suppress(e) PROVE WindowSpan'
  BY <1>1, SuppressSpan
<1>2. ASSUME NEW e \in Events, OpenWindow(e) PROVE WindowSpan'
  BY <1>2, OpenWindowSpan
<1>3. ASSUME NEW ids \in SUBSET DOMAIN active,
             NEW closure \in {"ExplicitFlush", "Shutdown"},
             FlushIdentities(ids, closure)
      PROVE  WindowSpan'
  BY <1>3 DEF FlushIdentities, WindowSpan
<1>4. CASE UNCHANGED coalescerVars
  BY <1>4 DEF coalescerVars, WindowSpan
<1> QED
  BY <1>1, <1>2, <1>3, <1>4, StepCases

(* A window never counts an occurrence an interval or more after its       *)
(* first: WindowSpan for every set of events, policy and integer width.    *)
THEOREM Span == Spec => []WindowSpan
<1>1. Init => WindowSpan
  BY DEF Init, WindowSpan
<1> QED
  BY <1>1, SpanStep, TypeCorrect, PTL DEF Spec

-----------------------------------------------------------------------------
\* What a call closes by age is of the boot of the event it was given.
ClosesOwnBoot ==
    \A s \in update'.closed :
        s.closure = "Interval" =>
            \A c \in update'.current :
                c.representative.boot_identifier = s.representative.boot_identifier

LEMMA BootStep ==
  ASSUME TypeOK, [Next]_coalescerVars
  PROVE  ClosesOwnBoot \/ UNCHANGED coalescerVars
<1> USE DEF ClosesOwnBoot
<1>1. ASSUME NEW e \in Events, NEW k \in Expired(e.boot_identifier, e.event_instant)
      PROVE  Close(active[k], "Interval").representative.boot_identifier
                = e.boot_identifier
  BY CloseSummary DEF Expired, TypeOK, CoalescingClosures
<1>2. ASSUME NEW e \in Events, Suppress(e) PROVE ClosesOwnBoot
  <2> DEFINE expired == Expired(e.boot_identifier, e.event_instant)
             window == active[ExactDuplicateIdentity(e)]
  <2>1. /\ window \in CoalescedSystemEvent /\ window.count >= 1
        /\ ExactDuplicateIdentity(window.representative) = ExactDuplicateIdentity(e)
        /\ update'.current = {Repeated(window, e.event_instant)}
        /\ update'.closed = Closed(expired, "Interval")
    BY <1>2 DEF Suppress, TypeOK
  <2>2. window.representative \in SystemEvent /\ e \in SystemEvent
        /\ e.event_instant \in Integers64
    BY <2>1, EventsAssumption DEF CoalescedSystemEvent, SystemEvent
  <2>3. Repeated(window, e.event_instant).representative.boot_identifier
          = e.boot_identifier
    BY <2>1, <2>2, DuplicatesShareBoot, RepeatedSummary
  <2> QED
    BY <1>1, <2>1, <2>3 DEF Closed
<1>3. ASSUME NEW e \in Events, OpenWindow(e) PROVE ClosesOwnBoot
  <2> DEFINE expired == Expired(e.boot_identifier, e.event_instant)
  <2>1. PICK evicted \in Evictions(DOMAIN active \ expired) :
          /\ update'.current = {Coalesced(e, "Active")}
          /\ update'.closed = Closed(expired, "Interval") \cup Closed(evicted, "Eviction")
    BY <1>3 DEF OpenWindow
  <2>2. \A s \in Closed(evicted, "Eviction") : s.closure = "Eviction"
    BY EvictedKeys, CloseSummary DEF Closed, TypeOK, CoalescingClosures
  <2>3. Coalesced(e, "Active").representative = e
    BY CoalescedSummary, EventsAssumption
  <2> QED
    BY <1>1, <2>1, <2>2, <2>3 DEF Closed
<1>4. ASSUME NEW ids \in SUBSET DOMAIN active,
             NEW closure \in {"ExplicitFlush", "Shutdown"},
             FlushIdentities(ids, closure)
      PROVE  ClosesOwnBoot
  BY <1>4 DEF FlushIdentities
<1> QED
  BY <1>2, <1>3, <1>4, StepCases

(* "Interval comparison never crosses boot partitions": the windows closed *)
(* by age are of the boot of the event that closed them.                   *)
THEOREM BootPartitions == Spec => IntervalWithinBoot
<1>1. TypeOK /\ [Next]_coalescerVars => [ClosesOwnBoot]_coalescerVars
  BY BootStep
<1> QED
  BY <1>1, TypeCorrect, PTL DEF Spec, IntervalWithinBoot, ClosesOwnBoot

-----------------------------------------------------------------------------
(* A window of the ingested event's boot that ingest leaves alone is not   *)
(* overdue at the event's instant: close_expired would have taken it.      *)
LEMMA KeptIsNotOverdue ==
  ASSUME TypeOK, IntervalMicroseconds > 0, NEW e \in Events,
         NEW k \in DOMAIN active \ Expired(e.boot_identifier, e.event_instant),
         active[k].representative.boot_identifier = e.boot_identifier
  PROVE  e.event_instant - active[k].first_seen < IntervalMicroseconds
<1>1. active[k] \in CoalescedSystemEvent /\ e.event_instant \in Integers64
  BY EventsAssumption DEF TypeOK, SystemEvent
<1>2. ~Overdue(active[k], e.event_instant)
  BY DEF Expired
<1>3. ~(e.event_instant - active[k].first_seen >= IntervalMicroseconds)
  BY <1>1, <1>2, SaturationKeepsOverdue
<1>4. e.event_instant \in Int /\ active[k].first_seen \in Int /\ IntervalMicroseconds \in Int
  BY <1>1, IntegerAssumption, PolicyAssumption DEF CoalescedSystemEvent, Integers64
<1> QED
  BY <1>3, <1>4

(* Joining a window leaves no overdue window of the event's boot.          *)
LEMMA SuppressClosesOverdue ==
  ASSUME TypeOK, WindowSpan', NEW e \in Events, Suppress(e)
  PROVE  NoOverdueWindow'
<1> DEFINE expired == Expired(e.boot_identifier, e.event_instant)
           identity == ExactDuplicateIdentity(e)
           window == active[identity]
           current == Repeated(window, e.event_instant)
<1>1. /\ identity \in DOMAIN active \ expired
      /\ active' = [i \in DOMAIN active \ expired |->
                       IF i = identity THEN current ELSE active[i]]
      /\ update'.current = {current}
  BY DEF Suppress
<1>2. /\ window \in CoalescedSystemEvent /\ window.count >= 1
      /\ ExactDuplicateIdentity(window.representative) = ExactDuplicateIdentity(e)
  BY <1>1 DEF TypeOK
<1>3. /\ window.representative \in SystemEvent
      /\ e \in SystemEvent /\ e.event_instant \in Integers64
  BY <1>2, EventsAssumption DEF CoalescedSystemEvent, SystemEvent
<1>4. /\ current.last_seen = e.event_instant
      /\ current.representative.boot_identifier = e.boot_identifier
  BY <1>2, <1>3, RepeatedSummary, DuplicatesShareBoot
<1>5. SUFFICES ASSUME IntervalMicroseconds > 0, NEW k \in DOMAIN active',
                      active'[k].representative.boot_identifier = e.boot_identifier
               PROVE  e.event_instant - active'[k].first_seen < IntervalMicroseconds
  BY <1>1, <1>4 DEF NoOverdueWindow
<1>6. CASE k = identity
  <2>1. active'[k].last_seen = e.event_instant
    BY <1>1, <1>4, <1>6
  <2> QED
    BY <1>5, <2>1 DEF WindowSpan
<1>7. CASE k # identity
  <2>1. k \in DOMAIN active \ expired /\ active'[k] = active[k]
    BY <1>1, <1>5, <1>7
  <2> QED
    BY <1>5, <2>1, KeptIsNotOverdue
<1> QED
  BY <1>6, <1>7

(* Nor does opening one.                                                   *)
LEMMA OpenWindowClosesOverdue ==
  ASSUME TypeOK, WindowSpan', NEW e \in Events, OpenWindow(e)
  PROVE  NoOverdueWindow'
<1> DEFINE expired == Expired(e.boot_identifier, e.event_instant)
           identity == ExactDuplicateIdentity(e)
           current == Coalesced(e, "Active")
<1>1. /\ update'.current = {current}
      /\ \A k \in DOMAIN active' :
            /\ k = identity => active'[k] = current
            /\ k # identity => k \in DOMAIN active \ expired /\ active'[k] = active[k]
  BY DEF OpenWindow
<1>2. /\ current.last_seen = e.event_instant
      /\ current.representative.boot_identifier = e.boot_identifier
  BY CoalescedSummary, EventsAssumption
<1>3. SUFFICES ASSUME IntervalMicroseconds > 0, NEW k \in DOMAIN active',
                      active'[k].representative.boot_identifier = e.boot_identifier
               PROVE  e.event_instant - active'[k].first_seen < IntervalMicroseconds
  BY <1>1, <1>2 DEF NoOverdueWindow
<1>4. CASE k = identity
  <2>1. active'[k].last_seen = e.event_instant
    BY <1>1, <1>2, <1>4
  <2> QED
    BY <1>3, <2>1 DEF WindowSpan
<1>5. CASE k # identity
  <2>1. k \in DOMAIN active \ expired /\ active'[k] = active[k]
    BY <1>1, <1>3, <1>5
  <2> QED
    BY <1>3, <2>1, KeptIsNotOverdue
<1> QED
  BY <1>4, <1>5

(* No call leaves a window overdue.                                        *)
LEMMA OverdueStep ==
  ASSUME TypeOK, WindowSpan', NoOverdueWindow, [Next]_coalescerVars
  PROVE  NoOverdueWindow'
<1>1. ASSUME NEW e \in Events, Suppress(e) PROVE NoOverdueWindow'
  BY <1>1, SuppressClosesOverdue
<1>2. ASSUME NEW e \in Events, OpenWindow(e) PROVE NoOverdueWindow'
  BY <1>2, OpenWindowClosesOverdue
<1>3. ASSUME NEW ids \in SUBSET DOMAIN active,
             NEW closure \in {"ExplicitFlush", "Shutdown"},
             FlushIdentities(ids, closure)
      PROVE  NoOverdueWindow'
  BY <1>3 DEF FlushIdentities, NoOverdueWindow
<1>4. CASE UNCHANGED coalescerVars
  BY <1>4 DEF coalescerVars, NoOverdueWindow
<1> QED
  BY <1>1, <1>2, <1>3, <1>4, StepCases

(* One event closes every overdue window of its boot: NoOverdueWindow for  *)
(* every set of events, policy and integer width.                          *)
THEOREM OverdueWindowsAreClosed == Spec => []NoOverdueWindow
<1>1. Init => NoOverdueWindow
  BY DEF Init, NoOverdueWindow
<1> QED
  BY <1>1, OverdueStep, TypeCorrect, Span, PTL DEF Spec

-----------------------------------------------------------------------------
\* The windows among `closed` that eviction closed.
EvictedOf(closed) == {s \in closed : s.closure = "Eviction"}

(* The one window an ingest evicts leaves a full table behind, and none of *)
(* the windows it leaves was seen earlier.                                 *)
LEMMA OneEvicted ==
  ASSUME TypeOK, FiniteBound, NEW e \in Events,
         NEW open, open = DOMAIN active \ Expired(e.boot_identifier, e.event_instant),
         ExactDuplicateIdentity(e) \notin open,
         NEW k \in Oldest(open), Cardinality(open) >= MaximumActiveKeys
  PROVE  /\ Cardinality((open \ {k}) \cup {ExactDuplicateIdentity(e)}) >= MaximumActiveKeys
         /\ \A j \in open \ {k} :
               active[j].last_seen >= Close(active[k], "Eviction").last_seen
<1> DEFINE identity == ExactDuplicateIdentity(e)
<1>1. /\ k \in open /\ open \subseteq DOMAIN active
      /\ \A j \in open : NoOlderThan(active[j], active[k])
  BY DEF Oldest
<1>2. IsFiniteSet(open) /\ Cardinality(open) \in Nat
  BY <1>1, FS_Subset, FS_CardinalityType DEF FiniteBound
<1>3. /\ IsFiniteSet(open \ {k})
      /\ Cardinality(open \ {k}) = Cardinality(open) - 1
  BY <1>1, <1>2, FS_RemoveElement
<1> HIDE DEF identity
<1>4. identity \notin open \ {k}
  BY DEF identity
<1>5. Cardinality((open \ {k}) \cup {identity}) = Cardinality(open)
  <2>1. Cardinality((open \ {k}) \cup {identity}) = Cardinality(open \ {k}) + 1
    BY <1>3, <1>4, FS_AddElement
  <2> QED
    BY <1>2, <1>3, <2>1
<1>6. ASSUME NEW j \in open \ {k}
      PROVE  active[j].last_seen >= Close(active[k], "Eviction").last_seen
  <2>1. active[j] \in CoalescedSystemEvent /\ active[k] \in CoalescedSystemEvent
    BY <1>1 DEF TypeOK
  <2>2. Close(active[k], "Eviction").last_seen = active[k].last_seen
    BY <2>1 DEF Close, CoalescedSystemEvent
  <2>3. active[j].last_seen \in Int /\ active[k].last_seen \in Int
    BY <2>1, IntegerAssumption DEF CoalescedSystemEvent, Integers64
  <2> QED
    BY <1>1, <2>2, <2>3 DEF NoOlderThan
<1> QED
  BY <1>5, <1>6 DEF identity

\* A call evicts one window at most, from a full table, and the oldest.
EvictsLast ==
    LET evicted == EvictedOf(update'.closed) IN
    /\ Cardinality(evicted) <= 1
    /\ evicted # {} =>
          /\ Cardinality(DOMAIN active') >= MaximumActiveKeys
          /\ evictions' = SaturatingAdd(evictions, 1)
          /\ \A s \in evicted, k \in DOMAIN active' :
                \/ active'[k] \in update'.current
                \/ active'[k].last_seen >= s.last_seen

LEMMA EvictionStep ==
  ASSUME TypeOK, FiniteBound, [Next]_coalescerVars
  PROVE  EvictsLast \/ UNCHANGED coalescerVars
<1> DEFINE evicted == EvictedOf(update'.closed)
<1> USE DEF EvictsLast
<1>1. ASSUME evicted = {} PROVE EvictsLast
  BY <1>1, FS_EmptySet
<1>2. ASSUME NEW ids \in SUBSET DOMAIN active,
             NEW closure \in CoalescingClosures, closure # "Eviction"
      PROVE  EvictedOf(Closed(ids, closure)) = {}
  BY <1>2, CloseSummary DEF EvictedOf, Closed, TypeOK
<1>3. ASSUME NEW e \in Events
      PROVE  EvictedOf(Closed(Expired(e.boot_identifier, e.event_instant), "Interval")) = {}
  <2>1. Expired(e.boot_identifier, e.event_instant) \subseteq DOMAIN active
    BY DEF Expired
  <2> QED
    BY <1>2, <2>1 DEF CoalescingClosures
<1>4. ASSUME NEW e \in Events, Suppress(e) PROVE EvictsLast
  BY <1>1, <1>3, <1>4 DEF Suppress
<1>5. ASSUME NEW e \in Events, OpenWindow(e) PROVE EvictsLast
  <2> DEFINE expired == Expired(e.boot_identifier, e.event_instant)
             open == DOMAIN active \ expired
             identity == ExactDuplicateIdentity(e)
             current == Coalesced(e, "Active")
  <2>1. PICK out \in Evictions(open) :
          /\ active' = [k \in (open \ out) \cup {identity} |->
                           IF k = identity THEN current ELSE active[k]]
          /\ update' = [current |-> {current},
                        closed  |-> Closed(expired, "Interval") \cup Closed(out, "Eviction")]
          /\ evictions' = IF out = {} THEN evictions ELSE SaturatingAdd(evictions, 1)
    BY <1>5 DEF OpenWindow
  <2>2. identity \notin open
    BY <1>5 DEF OpenWindow
  <2>3. evicted = EvictedOf(Closed(out, "Eviction"))
    BY <1>3, <2>1 DEF EvictedOf
  <2>4. CASE out = {}
    BY <1>1, <2>3, <2>4 DEF EvictedOf, Closed
  <2>5. CASE out # {}
    <3>1. PICK k \in Oldest(open) : out = {k} /\ Cardinality(open) >= MaximumActiveKeys
      BY <2>5 DEF Evictions
    <3>2. /\ Cardinality((open \ {k}) \cup {identity}) >= MaximumActiveKeys
          /\ \A j \in open \ {k} :
                active[j].last_seen >= Close(active[k], "Eviction").last_seen
      BY <2>2, <3>1, OneEvicted
    <3>3. evicted \subseteq {Close(active[k], "Eviction")}
      BY <2>3, <3>1 DEF EvictedOf, Closed
    <3>4. Cardinality(evicted) <= 1
      <4>1. /\ IsFiniteSet({Close(active[k], "Eviction")})
            /\ Cardinality({Close(active[k], "Eviction")}) = 1
        BY FS_Singleton
      <4> QED
        BY <3>3, <4>1, FS_Subset, FS_CardinalityType
    <3>5. DOMAIN active' = (open \ {k}) \cup {identity}
      BY <2>1, <3>1
    <3>6. ASSUME NEW s \in evicted, NEW j \in DOMAIN active'
          PROVE  \/ active'[j] \in update'.current
                 \/ active'[j].last_seen >= s.last_seen
      <4>1. s = Close(active[k], "Eviction")
        BY <3>3
      <4>2. CASE j = identity
        BY <2>1, <4>2
      <4>3. CASE j # identity
        BY <2>1, <3>2, <3>5, <4>1, <4>3
      <4> QED
        BY <4>2, <4>3
    <3> QED
      BY <2>1, <2>5, <3>2, <3>4, <3>5, <3>6
  <2> QED
    BY <2>4, <2>5
<1>6. ASSUME NEW ids \in SUBSET DOMAIN active,
             NEW closure \in {"ExplicitFlush", "Shutdown"},
             FlushIdentities(ids, closure)
      PROVE  EvictsLast
  BY <1>1, <1>2, <1>6 DEF FlushIdentities, CoalescingClosures
<1> QED
  BY <1>4, <1>5, <1>6, StepCases

(* Eviction is a last resort: EvictionIsLastResort for every set of        *)
(* events, policy and integer width.                                       *)
THEOREM EvictionOnlyWhenFull == Spec => EvictionIsLastResort
<1>1. TypeOK /\ FiniteBound /\ [Next]_coalescerVars => [EvictsLast]_coalescerVars
  BY EvictionStep
<1> QED
  BY <1>1, TypeCorrect, FiniteTable, PTL DEF Spec, EvictionIsLastResort, EvictsLast, EvictedOf

-----------------------------------------------------------------------------
(* Every non-empty set of integers of the width has a least one.           *)
LEMMA LeastInteger ==
  ASSUME NEW T \in SUBSET Integers64, T # {}
  PROVE  \E n \in T : \A m \in T : n <= m
<1> DEFINE Shifted == {n - MinInteger : n \in T}
<1>1. \A n \in T : n \in Int /\ n - MinInteger \in Nat
  BY IntegerAssumption DEF Integers64
<1>2. Shifted \subseteq Nat /\ Shifted # {}
  BY <1>1
<1>3. PICK less : /\ IsWellFoundedOn(less, Nat)
                  /\ \A m, n \in Nat : m < n => <<m, n>> \in less
  BY NatLessThanWellFounded DEF OpToRel
<1>4. \E x \in Shifted : \A y \in Shifted : ~(<<y, x>> \in less)
  <2> HIDE DEF Shifted
  <2>1. IsWellFoundedOn(less, Nat)
    BY <1>3
  <2> QED
    BY <1>2, <2>1, WFMin
<1>5. PICK x \in Shifted : \A y \in Shifted : ~(<<y, x>> \in less)
  BY <1>4
<1>6. PICK n \in T : x = n - MinInteger
  BY <1>5
<1>7. ASSUME NEW m \in T PROVE n <= m
  <2>1. ~(m - MinInteger < n - MinInteger)
    BY <1>1, <1>3, <1>5, <1>6
  <2> QED
    BY <1>1, <2>1, IntegerAssumption
<1> QED
  BY <1>7

(* min_by_key finds a window in every table that has one.                  *)
LEMMA OldestExists ==
  ASSUME TypeOK, NEW open \in SUBSET DOMAIN active, open # {}
  PROVE  Oldest(open) # {}
<1>1. \A k \in open : /\ active[k].last_seen \in Integers64
                      /\ active[k].representative.event_identifier \in Integers64
  BY DEF TypeOK, CoalescedSystemEvent, SystemEvent
<1> DEFINE Instants == {active[k].last_seen : k \in open}
<1>2. PICK l \in Instants : \A m \in Instants : l <= m
  <2>1. Instants \in SUBSET Integers64 /\ Instants # {}
    BY <1>1
  <2> HIDE DEF Instants
  <2> QED
    BY <2>1, LeastInteger
<1> DEFINE First == {k \in open : active[k].last_seen = l}
           Identifiers == {active[k].representative.event_identifier : k \in First}
<1>3. PICK i \in Identifiers : \A m \in Identifiers : i <= m
  <2>1. Identifiers \in SUBSET Integers64 /\ Identifiers # {}
    BY <1>1, <1>2
  <2> HIDE DEF Identifiers
  <2> QED
    BY <2>1, LeastInteger
<1>4. PICK k \in First : active[k].representative.event_identifier = i
  BY <1>3
<1>5. ASSUME NEW j \in open PROVE NoOlderThan(active[j], active[k])
  <2>1. l <= active[j].last_seen /\ active[k].last_seen = l
    BY <1>2, <1>4
  <2>2. /\ l \in Int /\ active[j].last_seen \in Int
        /\ active[k].representative.event_identifier \in Int
        /\ active[j].representative.event_identifier \in Int
    BY <1>1, <1>4, <2>1, IntegerAssumption DEF Integers64
  <2>3. CASE active[j].last_seen = l
    <3>1. i <= active[j].representative.event_identifier
      BY <1>3, <2>3
    <3> QED
      BY <1>4, <2>1, <2>2, <2>3, <3>1 DEF NoOlderThan
  <2>4. CASE active[j].last_seen > l
    BY <2>1, <2>4 DEF NoOlderThan
  <2> QED
    BY <2>1, <2>2, <2>3, <2>4
<1> QED
  BY <1>4, <1>5 DEF Oldest

(* Ingesting never fails, whatever the event and the table: it joins a     *)
(* window, or there is room, or there is a window to evict                 *)
(* (coalescer.rs:74-103).                                                  *)
THEOREM IngestNeverFails ==
  Spec => [](\A e \in Events :
               LET open == DOMAIN active \ Expired(e.boot_identifier, e.event_instant)
               IN  ExactDuplicateIdentity(e) \in open \/ Evictions(open) # {})
<1>1. ASSUME TypeOK, NEW open \in SUBSET DOMAIN active PROVE Evictions(open) # {}
  BY <1>1, OldestExists DEF Evictions
<1>2. TypeOK =>
        \A e \in Events :
          LET open == DOMAIN active \ Expired(e.boot_identifier, e.event_instant)
          IN  ExactDuplicateIdentity(e) \in open \/ Evictions(open) # {}
  BY <1>1
<1> QED
  BY <1>2, TypeCorrect, PTL
=============================================================================
