----------------------- MODULE SystemEventStoreProofs -----------------------
(***************************************************************************)
(* Proofs about the system-event store of SystemEventStore.tla, for every  *)
(* set of events, both policies, every integer width and however often the *)
(* engine fails or the process dies: types, admission of unclassified      *)
(* input, the size of the table after a call, which rows retention keeps,  *)
(* that every acknowledged event is counted in one summary, that the       *)
(* coalescer's properties hold inside the store, and that calls end.       *)
(***************************************************************************)
EXTENDS SystemEventStore, CoalescerProofs

\* Where a summary comes from: its first event, which also dates it.
SameOrigin(s, t) == s.representative = t.representative /\ s.first_seen = t.first_seen

FreshFrom(s, e) == s.representative = e /\ s.first_seen = e.event_instant

\* Every summary of an open window, of the last call, and of the table.
Summaries ==
    {active[i] : i \in DOMAIN active} \cup update.current \cup update.closed
    \cup {rows[k] : k \in DOMAIN rows} \cup {reclaimed[d] : d \in DOMAIN reclaimed}

\* The inductive core: what the store holds is well formed, and a call that is
\* over has nothing left to write.
Sound ==
    /\ TypeOK
    /\ \A k \in DOMAIN rows : rows[k] \in CoalescedSystemEvent /\ RecordKey(rows[k]) = k
    /\ \A d \in DOMAIN reclaimed :
          reclaimed[d] \in CoalescedSystemEvent /\ RecordKey(reclaimed[d]) = d
    /\ DOMAIN rows \cap DOMAIN reclaimed = {}
    /\ call \in {"Idle", "Record", "Flush", "Shutdown", "Down", "Opening"}
    /\ work \subseteq update.closed \cup update.current
    /\ call \in {"Idle", "Down", "Opening"} => work = {}

-----------------------------------------------------------------------------
(* What ingest leaves and returns: one current summary of the event's      *)
(* identity, which is the event's own or that of the window it joins; the  *)
(* open windows besides it, and the closed ones, were open before.         *)
LEMMA IngestUpdate ==
  ASSUME TypeOK, NEW e \in Events, Ingest(e)
  PROVE  \E s \in CoalescedSystemEvent :
           /\ update'.current = {s}
           /\ ExactDuplicateIdentity(s.representative) = ExactDuplicateIdentity(e)
           /\ \/ FreshFrom(s, e)
              \/ \E i \in DOMAIN active : SameOrigin(s, active[i])
           /\ \A i \in DOMAIN active' :
                active'[i] = s \/ (i \in DOMAIN active /\ active'[i] = active[i])
           /\ \A t \in update'.closed :
                \E i \in DOMAIN active : SameOrigin(t, active[i])
<1> DEFINE expired == Expired(e.boot_identifier, e.event_instant)
           identity == ExactDuplicateIdentity(e)
<1>1. ASSUME NEW ids \in SUBSET DOMAIN active, NEW closure \in CoalescingClosures,
             NEW t \in Closed(ids, closure)
      PROVE  \E i \in DOMAIN active : SameOrigin(t, active[i])
  <2>1. PICK i \in ids : t = Close(active[i], closure)
    BY DEF Closed
  <2>2. active[i] \in CoalescedSystemEvent
    BY DEF TypeOK
  <2> QED
    BY <2>1, <2>2 DEF Close, SameOrigin, CoalescedSystemEvent
<1>2. expired \subseteq DOMAIN active
  BY DEF Expired
<1>3. CASE Suppress(e)
  <2> DEFINE window == active[identity]
             current == Repeated(window, e.event_instant)
  <2>1. /\ identity \in DOMAIN active
        /\ active' = [k \in DOMAIN active \ expired |->
                         IF k = identity THEN current ELSE active[k]]
        /\ update' = [current |-> {current}, closed |-> Closed(expired, "Interval")]
    BY <1>3 DEF Suppress
  <2>2. /\ window \in CoalescedSystemEvent /\ window.count >= 1
        /\ ExactDuplicateIdentity(window.representative) = identity
    BY <2>1 DEF TypeOK
  <2>3. /\ current \in CoalescedSystemEvent
        /\ SameOrigin(current, window)
        /\ current.representative = window.representative
    BY <2>2, RepeatedSummary, EventsAssumption DEF SystemEvent, SameOrigin
  <2> HIDE DEF current, expired
  <2>4. /\ update'.current = {current}
        /\ ExactDuplicateIdentity(current.representative) = identity
        /\ \E i \in DOMAIN active : SameOrigin(current, active[i])
    BY <2>1, <2>2, <2>3
  <2>5. \A i \in DOMAIN active' :
           active'[i] = current \/ (i \in DOMAIN active /\ active'[i] = active[i])
    BY <2>1
  <2>6. \A t \in update'.closed : \E i \in DOMAIN active : SameOrigin(t, active[i])
    BY <1>1, <1>2, <2>1 DEF CoalescingClosures
  <2> QED
    BY <2>3, <2>4, <2>5, <2>6
<1>4. CASE OpenWindow(e)
  <2> DEFINE current == Coalesced(e, "Active")
  <2>1. PICK evicted \in Evictions(DOMAIN active \ expired) :
          /\ active' = [k \in ((DOMAIN active \ expired) \ evicted) \cup {identity} |->
                           IF k = identity THEN current ELSE active[k]]
          /\ update' = [current |-> {current},
                        closed  |-> Closed(expired, "Interval")
                                      \cup Closed(evicted, "Eviction")]
    BY <1>4 DEF OpenWindow
  <2>2. evicted \subseteq DOMAIN active
    BY EvictedKeys
  <2>3. /\ current \in CoalescedSystemEvent
        /\ current.representative = e
        /\ FreshFrom(current, e)
    BY CoalescedSummary, EventsAssumption DEF FreshFrom
  <2> HIDE DEF current, expired
  <2>4. /\ update'.current = {current}
        /\ ExactDuplicateIdentity(current.representative) = identity
    BY <2>1, <2>3
  <2>5. \A i \in DOMAIN active' :
           active'[i] = current \/ (i \in DOMAIN active /\ active'[i] = active[i])
    BY <2>1
  <2>6. \A t \in update'.closed : \E i \in DOMAIN active : SameOrigin(t, active[i])
    <3>1. /\ \A t \in Closed(expired, "Interval") :
                \E i \in DOMAIN active : SameOrigin(t, active[i])
          /\ \A t \in Closed(evicted, "Eviction") :
                \E i \in DOMAIN active : SameOrigin(t, active[i])
      BY <1>1, <1>2, <2>2 DEF CoalescingClosures
    <3> QED
      BY <2>1, <3>1
  <2> QED
    BY <2>3, <2>4, <2>5, <2>6
<1> QED
  BY <1>3, <1>4 DEF Ingest

(* What a flush leaves and returns.                                        *)
LEMMA FlushUpdate ==
  ASSUME TypeOK, NEW ids \in SUBSET DOMAIN active, NEW closure \in CoalescingClosures,
         FlushIdentities(ids, closure)
  PROVE  /\ update'.current = {}
         /\ \A i \in DOMAIN active' : i \in DOMAIN active /\ active'[i] = active[i]
         /\ \A t \in update'.closed :
              \E i \in DOMAIN active : SameOrigin(t, active[i])
<1>1. /\ active' = [k \in DOMAIN active \ ids |-> active[k]]
      /\ update' = [current |-> {}, closed |-> Closed(ids, closure)]
  BY DEF FlushIdentities
<1>2. ASSUME NEW t \in Closed(ids, closure)
      PROVE  \E i \in DOMAIN active : SameOrigin(t, active[i])
  <2>1. PICK i \in ids : t = Close(active[i], closure)
    BY DEF Closed
  <2>2. active[i] \in CoalescedSystemEvent
    BY DEF TypeOK
  <2> QED
    BY <2>1, <2>2 DEF Close, SameOrigin, CoalescedSystemEvent
<1> QED
  BY <1>1, <1>2

(* The two flushes of the store are flushes of some windows.               *)
LEMMA StoreFlush ==
  ASSUME (\E b \in Boots : FlushSystemEvents(b)) \/ Stop
  PROVE  \E ids \in SUBSET DOMAIN active, closure \in CoalescingClosures, kind \in {"Flush", "Shutdown"} :
           FlushIdentities(ids, closure) /\ Begin(kind) /\ UNCHANGED history
<1>1. ASSUME NEW b \in Boots PROVE OfBoot(b) \in SUBSET DOMAIN active
  BY DEF OfBoot
<1> QED
  BY <1>1 DEF FlushSystemEvents, Stop, FlushBoot, FlushAll, CoalescingClosures

-----------------------------------------------------------------------------
(* Admission keeps the store sound: the coalescer takes the event, and the *)
(* summaries it returns are the work of the call.                          *)
LEMMA RecordSound ==
  ASSUME Sound, NEW e \in Events, RecordSystemEvent(e)
  PROVE  Sound'
<1>1. TypeOK'
  BY SuppressType, OpenWindowType DEF Sound, RecordSystemEvent, Ingest
<1>2. /\ rows' = rows /\ reclaimed' = reclaimed
      /\ call' = "Record"
      /\ work' = update'.closed \cup update'.current
  BY DEF RecordSystemEvent, Begin, durable
<1>3. /\ \A k \in DOMAIN rows' : rows'[k] \in CoalescedSystemEvent /\ RecordKey(rows'[k]) = k
      /\ \A d \in DOMAIN reclaimed' :
           reclaimed'[d] \in CoalescedSystemEvent /\ RecordKey(reclaimed'[d]) = d
      /\ DOMAIN rows' \cap DOMAIN reclaimed' = {}
  BY <1>2 DEF Sound
<1> QED
  BY <1>1, <1>2, <1>3 DEF Sound

(* So does a flush, by command or at shutdown.                             *)
LEMMA FlushSound ==
  ASSUME Sound, (\E b \in Boots : FlushSystemEvents(b)) \/ Stop
  PROVE  Sound'
<1>1. PICK ids \in SUBSET DOMAIN active, closure \in CoalescingClosures,
           kind \in {"Flush", "Shutdown"} :
        FlushIdentities(ids, closure) /\ Begin(kind)
  BY StoreFlush
<1>2. TypeOK'
  BY <1>1, FlushType DEF Sound
<1>3. /\ rows' = rows /\ reclaimed' = reclaimed
      /\ call' \in {"Flush", "Shutdown"}
      /\ work' = update'.closed \cup update'.current
  BY <1>1 DEF Begin, durable
<1>4. /\ \A k \in DOMAIN rows' : rows'[k] \in CoalescedSystemEvent /\ RecordKey(rows'[k]) = k
      /\ \A d \in DOMAIN reclaimed' :
           reclaimed'[d] \in CoalescedSystemEvent /\ RecordKey(reclaimed'[d]) = d
      /\ DOMAIN rows' \cap DOMAIN reclaimed' = {}
  BY <1>3 DEF Sound
<1> QED
  BY <1>2, <1>3, <1>4 DEF Sound

(* A coalescer that is left alone stays well formed, and so does one that  *)
(* forgets everything.                                                     *)
LEMMA CoalescerKept ==
  ASSUME TypeOK, UNCHANGED coalescerVars \/ Forget
  PROVE  TypeOK'
<1>1. CASE UNCHANGED coalescerVars
  BY <1>1 DEF coalescerVars, TypeOK
<1>2. CASE Forget
  BY <1>2, IntegerAssumption DEF Forget, Empty, TypeOK
<1> QED
  BY <1>1, <1>2

(* A commit writes one summary of the call under its own key.              *)
LEMMA PersistSound ==
  ASSUME Sound, PersistSystemEventSummary
  PROVE  Sound'
<1>1. PICK s \in work :
        /\ rows' = [k \in DOMAIN rows \cup {RecordKey(s)} |->
                      IF k = RecordKey(s) THEN s ELSE rows[k]]
        /\ reclaimed' = [k \in DOMAIN reclaimed \ {RecordKey(s)} |-> reclaimed[k]]
        /\ work' = work \ {s}
  BY DEF PersistSystemEventSummary, NextToWrite
<1>2. /\ UNCHANGED coalescerVars /\ call' = call
      /\ update' = update
  BY DEF PersistSystemEventSummary, coalescerVars
<1>3. s \in CoalescedSystemEvent
  BY DEF Sound, TypeOK
<1>4. TypeOK'
  BY <1>2, CoalescerKept DEF Sound
<1>5. \A k \in DOMAIN rows' : rows'[k] \in CoalescedSystemEvent /\ RecordKey(rows'[k]) = k
  BY <1>1, <1>3 DEF Sound
<1>6. /\ \A d \in DOMAIN reclaimed' :
           reclaimed'[d] \in CoalescedSystemEvent /\ RecordKey(reclaimed'[d]) = d
      /\ DOMAIN rows' \cap DOMAIN reclaimed' = {}
  BY <1>1 DEF Sound
<1>7. /\ call' \in {"Idle", "Record", "Flush", "Shutdown", "Down", "Opening"}
      /\ work' \subseteq update'.closed \cup update'.current
      /\ call' \in {"Idle", "Down", "Opening"} => work' = {}
  BY <1>1, <1>2 DEF Sound
<1> QED
  BY <1>4, <1>5, <1>6, <1>7 DEF Sound

(* A retraction moves one row to the reclaimed ones.                       *)
LEMMA RetractSound ==
  ASSUME Sound, Retract
  PROVE  Sound'
<1>1. PICK x \in DOMAIN rows :
        /\ rows' = [k \in DOMAIN rows \ {x} |-> rows[k]]
        /\ reclaimed' = [k \in DOMAIN reclaimed \cup {x} |->
                           IF k = x THEN rows[k] ELSE reclaimed[k]]
  BY DEF Retract, OldestRows
<1>2. /\ UNCHANGED coalescerVars
      /\ call' = call /\ work' = work /\ update' = update
  BY DEF Retract, coalescerVars
<1>3. TypeOK'
  BY <1>2, CoalescerKept DEF Sound
<1>4. /\ \A k \in DOMAIN rows' : rows'[k] \in CoalescedSystemEvent /\ RecordKey(rows'[k]) = k
      /\ \A d \in DOMAIN reclaimed' :
           reclaimed'[d] \in CoalescedSystemEvent /\ RecordKey(reclaimed'[d]) = d
      /\ DOMAIN rows' \cap DOMAIN reclaimed' = {}
  BY <1>1 DEF Sound
<1> QED
  BY <1>2, <1>3, <1>4 DEF Sound

(* The other steps leave the table alone and write nothing.                *)
LEMMA ControlSound ==
  ASSUME Sound,
         \/ \E e \in Events : RefuseSystemEvent(e)
         \/ AcceptSystemEvent \/ FinishFlush \/ FinishStop
         \/ EngineFault \/ Crash \/ Open \/ FinishOpen
         \/ UNCHANGED vars
  PROVE  Sound'
<1>1. /\ UNCHANGED coalescerVars \/ Forget
      /\ rows' = rows /\ reclaimed' = reclaimed
  BY DEF RefuseSystemEvent, AcceptSystemEvent, FinishFlush, FinishStop, EngineFault, Crash,
         Open, FinishOpen, vars, durable
<1>2. TypeOK'
  BY <1>1, CoalescerKept DEF Sound
<1>3. /\ \A k \in DOMAIN rows' : rows'[k] \in CoalescedSystemEvent /\ RecordKey(rows'[k]) = k
      /\ \A d \in DOMAIN reclaimed' :
           reclaimed'[d] \in CoalescedSystemEvent /\ RecordKey(reclaimed'[d]) = d
      /\ DOMAIN rows' \cap DOMAIN reclaimed' = {}
  BY <1>1 DEF Sound
<1>4. /\ call' \in {"Idle", "Record", "Flush", "Shutdown", "Down", "Opening"}
      /\ call' \in {"Idle", "Down", "Opening"} => work' = {}
      /\ work' \subseteq work
  BY DEF Sound, RefuseSystemEvent, AcceptSystemEvent, FinishFlush, FinishStop, EngineFault,
         Crash, Open, FinishOpen, Written, vars, control
<1>5. update' = update \/ work' = {}
  BY DEF Sound, RefuseSystemEvent, AcceptSystemEvent, FinishFlush, FinishStop, EngineFault,
         Crash, Open, FinishOpen, Written, vars, coalescerVars
<1>6. work' \subseteq update'.closed \cup update'.current
  BY <1>4, <1>5 DEF Sound
<1> QED
  BY <1>2, <1>3, <1>4, <1>6 DEF Sound

LEMMA SoundStep ==
  ASSUME Sound, [StoreNext]_vars
  PROVE  Sound'
BY RecordSound, FlushSound, PersistSound, RetractSound, ControlSound DEF StoreNext

LEMMA SoundStart == StoreInit => Sound
<1> SUFFICES ASSUME StoreInit PROVE Sound
  OBVIOUS
<1>1. TypeOK
  BY IntegerAssumption DEF StoreInit, Init, TypeOK
<1> QED
  BY <1>1 DEF StoreInit, Sound, Empty

(* The store is sound in every run.                                        *)
LEMMA StoreIsSound == StoreSpec => []Sound
  BY SoundStart, SoundStep, PTL DEF StoreSpec

-----------------------------------------------------------------------------
\* An acknowledgement has room: the event of a record call was admitted below
\* the bound, and nothing is acknowledged before the call is.
Admitted ==
    /\ accepted \in [Identities -> 0 .. AcceptBound]
    /\ disruptions \in 0 .. DisruptionBound
    /\ call = "Record" =>
         \E i \in Identities :
            /\ accepted[i] < AcceptBound
            /\ \A s \in update.current : ExactDuplicateIdentity(s.representative) = i

Flags == reclaiming \in BOOLEAN /\ faulted \in BOOLEAN

LEMMA FlagsStep ==
  ASSUME Flags, [StoreNext]_vars
  PROVE  Flags'
<1>1. ASSUME NEW e \in Events, RecordSystemEvent(e) PROVE Flags'
  BY <1>1 DEF RecordSystemEvent, Begin, Flags
<1>2. ASSUME NEW e \in Events, RefuseSystemEvent(e) PROVE Flags'
  BY <1>2 DEF RefuseSystemEvent, Flags
<1>3. ASSUME NEW b \in Boots, FlushSystemEvents(b) PROVE Flags'
  BY <1>3 DEF FlushSystemEvents, Begin, Flags
<1>4. CASE Stop
  BY <1>4 DEF Stop, Begin, Flags
<1>5. CASE PersistSystemEventSummary
  BY <1>5 DEF PersistSystemEventSummary, Flags
<1>6. CASE Retract
  <2>1. reclaiming' = Excess' /\ faulted' = faulted
    BY <1>6 DEF Retract
  <2>2. Excess' \in BOOLEAN
    BY DEF Excess
  <2> QED
    BY <2>1, <2>2 DEF Flags
<1>7. CASE AcceptSystemEvent \/ FinishFlush \/ FinishStop \/ FinishOpen \/ Open
  BY <1>7 DEF AcceptSystemEvent, FinishFlush, FinishStop, FinishOpen, Open, Flags
<1>8. CASE EngineFault \/ Crash
  BY <1>8 DEF EngineFault, Crash, Flags
<1>9. CASE UNCHANGED vars
  BY <1>9 DEF vars, control, Flags
<1> QED
  BY <1>1, <1>2, <1>3, <1>4, <1>5, <1>6, <1>7, <1>8, <1>9 DEF StoreNext

(* Admission is what the acknowledgement relies on.                        *)
LEMMA AdmittedStep ==
  ASSUME Sound, Admitted, [StoreNext]_vars
  PROVE  Admitted'
<1>1. ASSUME NEW e \in Events, RecordSystemEvent(e) PROVE Admitted'
  <2>1. PICK s : /\ update'.current = {s}
                 /\ ExactDuplicateIdentity(s.representative) = ExactDuplicateIdentity(e)
    BY <1>1, IngestUpdate DEF RecordSystemEvent, Sound
  <2>2. ExactDuplicateIdentity(e) \in Identities
    BY DEF Identities
  <2>3. /\ accepted' = accepted /\ disruptions' = disruptions
        /\ accepted[ExactDuplicateIdentity(e)] < AcceptBound
    BY <1>1 DEF RecordSystemEvent, Begin, MayBeSent
  <2> QED
    BY <2>1, <2>2, <2>3 DEF Admitted
<1>2. CASE AcceptSystemEvent
  <2>1. PICK s \in update.current :
          accepted' = [accepted EXCEPT ![ExactDuplicateIdentity(s.representative)] = @ + 1]
    BY <1>2 DEF AcceptSystemEvent
  <2>2. PICK i \in Identities :
          accepted[i] < AcceptBound /\ ExactDuplicateIdentity(s.representative) = i
    BY <1>2, <2>1 DEF AcceptSystemEvent, Admitted
  <2>3. accepted' = [accepted EXCEPT ![i] = accepted[i] + 1]
    BY <2>1, <2>2
  <2>4. accepted[i] + 1 \in 0 .. AcceptBound
    BY <2>2, StoreAssumption DEF Admitted
  <2>5. accepted' \in [Identities -> 0 .. AcceptBound]
    BY <2>2, <2>3, <2>4 DEF Admitted
  <2> QED
    BY <1>2, <2>5 DEF AcceptSystemEvent, Admitted
<1>3. ASSUME accepted' = accepted, disruptions' \in 0 .. DisruptionBound,
             call' = "Record" => call = "Record" /\ update' = update
      PROVE  Admitted'
  BY <1>3 DEF Admitted
<1>4. ASSUME NEW b \in Boots, FlushSystemEvents(b) PROVE Admitted'
  BY <1>3, <1>4 DEF FlushSystemEvents, Begin, history, Admitted
<1>5. CASE Stop
  BY <1>3, <1>5 DEF Stop, Begin, history, Admitted
<1>6. ASSUME NEW e \in Events, RefuseSystemEvent(e) PROVE Admitted'
  BY <1>3, <1>6 DEF RefuseSystemEvent, coalescerVars, history, Admitted
<1>7. CASE PersistSystemEventSummary \/ Retract
  BY <1>3, <1>7 DEF PersistSystemEventSummary, Retract, coalescerVars, history, Admitted
<1>8. CASE FinishFlush \/ FinishStop \/ FinishOpen \/ Open
  BY <1>3, <1>8 DEF FinishFlush, FinishStop, FinishOpen, Open, history, Admitted
<1>9. CASE EngineFault \/ Crash
  <2>1. disruptions' \in 0 .. DisruptionBound
    BY <1>9, StoreAssumption DEF EngineFault, Crash, Disrupt, Admitted
  <2> QED
    BY <1>3, <1>9, <2>1 DEF EngineFault, Crash, coalescerVars, history
<1>10. CASE UNCHANGED vars
  BY <1>3, <1>10 DEF vars, coalescerVars, control, history, Admitted
<1> QED
  BY <1>1, <1>2, <1>4, <1>5, <1>6, <1>7, <1>8, <1>9, <1>10 DEF StoreNext

(* The type invariant of the store, for every value of its constants.      *)
THEOREM StoreTypeCorrect == StoreSpec => []StoreTypeOK
<1>1. StoreInit => Admitted /\ Flags
  <2> SUFFICES ASSUME StoreInit PROVE Admitted /\ Flags
    OBVIOUS
  <2>1. accepted \in [Identities -> 0 .. AcceptBound] /\ disruptions \in 0 .. DisruptionBound
    BY StoreAssumption DEF StoreInit
  <2>2. call # "Record" /\ Flags
    BY DEF StoreInit, Flags
  <2> QED
    BY <2>1, <2>2 DEF Admitted
<1>2. Sound /\ Admitted /\ Flags /\ [StoreNext]_vars => Admitted' /\ Flags'
  BY AdmittedStep, FlagsStep
<1>3. Sound /\ Admitted /\ Flags => StoreTypeOK
  <2> SUFFICES ASSUME Sound, Admitted, Flags PROVE StoreTypeOK
    OBVIOUS
  <2>1. {reclaiming, faulted} \subseteq BOOLEAN
    BY DEF Flags
  <2>2. /\ TypeOK
        /\ \A k \in DOMAIN rows : rows[k] \in CoalescedSystemEvent /\ RecordKey(rows[k]) = k
        /\ DOMAIN rows \cap DOMAIN reclaimed = {}
        /\ call \in {"Idle", "Record", "Flush", "Shutdown", "Down", "Opening"}
        /\ work \subseteq update.closed \cup update.current
    BY DEF Sound
  <2>3. /\ accepted \in [Identities -> 0 .. AcceptBound]
        /\ disruptions \in 0 .. DisruptionBound
    BY DEF Admitted
  <2> QED
    BY <2>1, <2>2, <2>3 DEF StoreTypeOK
<1> QED
  BY <1>1, <1>2, <1>3, StoreIsSound, PTL DEF StoreSpec

-----------------------------------------------------------------------------
(* A summary that lies in the store after a step lay in it before, up to   *)
(* its counts, or is the current one and opens with the event just         *)
(* admitted.                                                               *)
LEMMA OriginStep ==
  ASSUME Sound, [StoreNext]_vars, NEW s \in Summaries'
  PROVE  \/ \E t \in Summaries : SameOrigin(s, t)
         \/ \E e \in Events : RecordSystemEvent(e) /\ FreshFrom(s, e) /\ update'.current = {s}
<1> DEFINE Old == \E t \in Summaries : SameOrigin(s, t)
<1>1. s \in Summaries => Old
  BY DEF SameOrigin
<1>2. \/ \E i \in DOMAIN active' : s = active'[i]
      \/ s \in update'.current \/ s \in update'.closed
      \/ \E k \in DOMAIN rows' : s = rows'[k]
      \/ \E d \in DOMAIN reclaimed' : s = reclaimed'[d]
  BY DEF Summaries
<1>3. \A i \in DOMAIN active : active[i] \in Summaries
  BY DEF Summaries
<1>4. /\ \A k \in DOMAIN rows : rows[k] \in Summaries
      /\ \A d \in DOMAIN reclaimed : reclaimed[d] \in Summaries
      /\ update.current \cup update.closed \subseteq Summaries
  BY DEF Summaries
<1>5. ASSUME UNCHANGED coalescerVars \/ Forget, rows' = rows, reclaimed' = reclaimed
      PROVE  Old
  <2>1. CASE UNCHANGED coalescerVars
    BY <1>1, <1>2, <1>3, <1>4, <1>5, <2>1 DEF coalescerVars
  <2>2. CASE Forget
    BY <1>1, <1>2, <1>4, <1>5, <2>2 DEF Forget, Empty
  <2> QED
    BY <1>5, <2>1, <2>2
<1>6. ASSUME NEW e \in Events, RecordSystemEvent(e)
      PROVE  Old \/ (FreshFrom(s, e) /\ update'.current = {s})
  <2>1. rows' = rows /\ reclaimed' = reclaimed
    BY <1>6 DEF RecordSystemEvent, Begin, durable
  <2>2. PICK c \in CoalescedSystemEvent :
          /\ update'.current = {c}
          /\ FreshFrom(c, e) \/ \E i \in DOMAIN active : SameOrigin(c, active[i])
          /\ \A i \in DOMAIN active' :
               active'[i] = c \/ (i \in DOMAIN active /\ active'[i] = active[i])
          /\ \A t \in update'.closed : \E i \in DOMAIN active : SameOrigin(t, active[i])
    BY <1>6, IngestUpdate DEF RecordSystemEvent, Sound
  <2>3. s = c => Old \/ (FreshFrom(s, e) /\ update'.current = {s})
    BY <1>3, <2>2
  <2>4. s \in update'.closed => Old
    BY <1>3, <2>2
  <2>5. \A i \in DOMAIN active' : s = active'[i] => s = c \/ Old
    BY <1>1, <1>3, <2>2
  <2>6. \/ s = c \/ Old \/ s \in update'.closed
        \/ \E k \in DOMAIN rows : s = rows[k]
        \/ \E d \in DOMAIN reclaimed : s = reclaimed[d]
    BY <1>2, <2>1, <2>2, <2>5
  <2> QED
    BY <1>1, <1>4, <2>3, <2>4, <2>6
<1>7. ASSUME (\E b \in Boots : FlushSystemEvents(b)) \/ Stop
      PROVE  Old
  <2>1. PICK ids \in SUBSET DOMAIN active, closure \in CoalescingClosures,
             kind \in {"Flush", "Shutdown"} :
          FlushIdentities(ids, closure) /\ Begin(kind)
    BY <1>7, StoreFlush
  <2>2. rows' = rows /\ reclaimed' = reclaimed
    BY <2>1 DEF Begin, durable
  <2>3. /\ update'.current = {}
        /\ \A i \in DOMAIN active' : i \in DOMAIN active /\ active'[i] = active[i]
        /\ \A t \in update'.closed : \E i \in DOMAIN active : SameOrigin(t, active[i])
    BY <2>1, FlushUpdate DEF Sound
  <2> QED
    BY <1>1, <1>2, <1>3, <1>4, <2>2, <2>3
<1>8. CASE PersistSystemEventSummary
  <2>1. PICK w \in work :
          /\ rows' = [k \in DOMAIN rows \cup {RecordKey(w)} |->
                        IF k = RecordKey(w) THEN w ELSE rows[k]]
          /\ reclaimed' = [k \in DOMAIN reclaimed \ {RecordKey(w)} |-> reclaimed[k]]
    BY <1>8 DEF PersistSystemEventSummary, NextToWrite
  <2>2. active' = active /\ update' = update
    BY <1>8 DEF PersistSystemEventSummary, coalescerVars
  <2>3. w \in Summaries
    BY <1>4 DEF Sound
  <2>4. \A k \in DOMAIN rows' : rows'[k] = w \/ (k \in DOMAIN rows /\ rows'[k] = rows[k])
    BY <2>1
  <2>5. \A d \in DOMAIN reclaimed' : d \in DOMAIN reclaimed /\ reclaimed'[d] = reclaimed[d]
    BY <2>1
  <2> QED
    BY <1>1, <1>2, <1>3, <1>4, <2>2, <2>3, <2>4, <2>5
<1>9. CASE Retract
  <2>1. PICK x \in DOMAIN rows :
          /\ rows' = [k \in DOMAIN rows \ {x} |-> rows[k]]
          /\ reclaimed' = [k \in DOMAIN reclaimed \cup {x} |->
                             IF k = x THEN rows[k] ELSE reclaimed[k]]
    BY <1>9 DEF Retract, OldestRows
  <2>2. active' = active /\ update' = update
    BY <1>9 DEF Retract, coalescerVars
  <2>3. \A k \in DOMAIN rows' : k \in DOMAIN rows /\ rows'[k] = rows[k]
    BY <2>1
  <2>4. \A d \in DOMAIN reclaimed' :
           reclaimed'[d] = rows[x] \/ (d \in DOMAIN reclaimed /\ reclaimed'[d] = reclaimed[d])
    BY <2>1
  <2> QED
    BY <1>1, <1>2, <1>3, <1>4, <2>1, <2>2, <2>3, <2>4
<1>10. CASE \/ \E e \in Events : RefuseSystemEvent(e)
            \/ AcceptSystemEvent \/ FinishFlush \/ FinishStop
            \/ EngineFault \/ Crash \/ Open \/ FinishOpen
            \/ UNCHANGED vars
  <2>1. /\ UNCHANGED coalescerVars \/ Forget
        /\ rows' = rows /\ reclaimed' = reclaimed
    BY <1>10 DEF RefuseSystemEvent, AcceptSystemEvent, FinishFlush, FinishStop, EngineFault,
       Crash, Open, FinishOpen, vars, durable
  <2> QED
    BY <1>5, <2>1
<1> QED
  BY <1>6, <1>7, <1>8, <1>9, <1>10 DEF StoreNext

(* No summary anywhere in the store has a payload it should not have.      *)
Clean == \A s \in Summaries : ValidateSystemEvent(s.representative)

LEMMA CleanStep ==
  ASSUME Sound, Clean, [StoreNext]_vars
  PROVE  Clean'
<1> SUFFICES ASSUME NEW s \in Summaries' PROVE ValidateSystemEvent(s.representative)
  BY DEF Clean
<1>1. CASE \E t \in Summaries : SameOrigin(s, t)
  BY <1>1 DEF Clean, SameOrigin
<1>2. CASE \E e \in Events : RecordSystemEvent(e) /\ FreshFrom(s, e)
  BY <1>2 DEF RecordSystemEvent, FreshFrom
<1> QED
  BY <1>1, <1>2, OriginStep

(* "Unclassified targeted input never retains a message preview": neither  *)
(* a row nor an open window has one, whatever is recorded, and however     *)
(* often the engine fails or the process restarts.                         *)
THEOREM UnclassifiedIsNotKept == StoreSpec => []NoUnclassifiedPayload
<1>1. StoreInit => Clean
  BY DEF StoreInit, Init, Empty, Clean, Summaries
<1>2. Clean => NoUnclassifiedPayload
  <2> SUFFICES ASSUME Clean,
                      NEW s \in {rows[k] : k \in DOMAIN rows} \cup {active[i] : i \in DOMAIN active}
               PROVE  ~(/\ IsUnclassified(s.representative.targeted_system_event)
                        /\ s.representative.bounded_payload)
    BY DEF NoUnclassifiedPayload
  <2>1. s \in Summaries
    BY DEF Summaries
  <2>2. ValidateSystemEvent(s.representative)
    BY <2>1 DEF Clean
  <2> QED
    BY <2>2 DEF ValidateSystemEvent
<1> QED
  BY <1>1, <1>2, CleanStep, StoreIsSound, PTL DEF StoreSpec

-----------------------------------------------------------------------------
\* An answer is given to a table that is not over its bound, and a call that
\* has written everything is reclaiming unless there is nothing to reclaim.
\* Only a flush of no window at all may be answered without having written.
Settled ==
    /\ IsFiniteSet(DOMAIN rows)
    /\ reclaiming => call \notin {"Idle", "Down"}
    /\ reply \in {"Accepted", "Opened"} => call = "Idle" /\ ~Excess
    /\ reply = "Flushed" => call = "Idle" /\ (update.closed # {} => ~Excess)
    /\ call = "Flush" /\ work = {} /\ update.closed # {} => reclaiming \/ ~Excess
    /\ call = "Record" /\ work = {} => reclaiming \/ ~Excess
    /\ call = "Opening" => reclaiming \/ ~Excess

(* A record call starts with a current summary to write.                   *)
LEMMA RecordSettled ==
  ASSUME Sound, Settled, NEW e \in Events, RecordSystemEvent(e)
  PROVE  Settled'
<1>1. rows' = rows /\ reply' = "None" /\ call' = "Record"
  BY DEF RecordSystemEvent, Begin, durable
<1>2. work' # {}
  <2>1. work' = update'.closed \cup update'.current
    BY DEF RecordSystemEvent, Begin
  <2>2. \E s : update'.current = {s}
    BY IngestUpdate DEF RecordSystemEvent, Sound
  <2> QED
    BY <2>1, <2>2
<1> QED
  BY <1>1, <1>2 DEF Settled

LEMMA SettledStep ==
  ASSUME Sound, Settled, [StoreNext]_vars
  PROVE  Settled'
<1>1. ASSUME NEW b \in Boots, FlushSystemEvents(b) PROVE Settled'
  <2>1. work' = {} => update'.closed = {}
    BY <1>1 DEF FlushSystemEvents, Begin
  <2> QED
    BY <1>1, <2>1 DEF FlushSystemEvents, Begin, durable, Settled
<1>2. CASE Stop
  BY <1>2 DEF Stop, Begin, durable, Settled
<1>3. ASSUME NEW e \in Events, RefuseSystemEvent(e) PROVE Settled'
  BY <1>3 DEF RefuseSystemEvent, durable, coalescerVars, Settled
<1>4. CASE PersistSystemEventSummary
  <2>1. PICK w \in work : DOMAIN rows' = DOMAIN rows \cup {RecordKey(w)}
    BY <1>4 DEF PersistSystemEventSummary, NextToWrite
  <2>2. IsFiniteSet(DOMAIN rows')
    BY <2>1, FS_AddElement DEF Settled
  <2>3. reclaiming' = TRUE /\ call' = call /\ reply' = reply /\ update' = update
    BY <1>4 DEF PersistSystemEventSummary, coalescerVars
  <2>4. call \notin {"Idle", "Down", "Opening"}
    BY <2>1 DEF Sound
  <2> QED
    BY <2>2, <2>3, <2>4 DEF Settled
<1>5. CASE Retract
  <2>1. PICK x : DOMAIN rows' = DOMAIN rows \ {x}
    BY <1>5 DEF Retract
  <2>2. IsFiniteSet(DOMAIN rows')
    BY <2>1, FS_RemoveElement DEF Settled
  <2>3. reclaiming /\ (reclaiming' <=> Excess') /\ call' = call /\ reply' = reply
    BY <1>5 DEF Retract
  <2>4. reply \notin {"Accepted", "Opened", "Flushed"}
    BY <1>5 DEF Retract, Settled
  <2> QED
    BY <2>2, <2>3, <2>4 DEF Settled
<1>6. CASE AcceptSystemEvent
  <2>1. ~Excess
    BY <1>6 DEF AcceptSystemEvent, Written, ReclaimOver, Settled
  <2>2. rows' = rows /\ call' = "Idle" /\ ~reclaiming' /\ reply' = "Accepted"
    BY <1>6 DEF AcceptSystemEvent, durable
  <2> QED
    BY <2>1, <2>2 DEF Settled, Excess
<1>7. CASE FinishOpen
  <2>1. ~Excess
    BY <1>7 DEF FinishOpen, ReclaimOver, Settled
  <2>2. rows' = rows /\ call' = "Idle" /\ ~reclaiming' /\ reply' = "Opened"
    BY <1>7 DEF FinishOpen, durable
  <2> QED
    BY <2>1, <2>2 DEF Settled, Excess
<1>8. CASE FinishFlush
  <2>1. update.closed # {} => ~Excess
    BY <1>8 DEF FinishFlush, Written, ReclaimOver, Settled
  <2>2. /\ rows' = rows /\ update' = update
        /\ call' = "Idle" /\ reply' = "Flushed" /\ ~reclaiming'
    BY <1>8 DEF FinishFlush, durable, coalescerVars
  <2> QED
    BY <2>1, <2>2 DEF Settled, Excess
<1>12. CASE FinishStop \/ Open
  BY <1>12 DEF FinishStop, Open, durable, Settled
<1>9. CASE EngineFault
  <2>1. call \in {"Record", "Flush", "Shutdown", "Opening"}
    BY <1>9 DEF EngineFault
  <2>2. reply \notin {"Accepted", "Opened", "Flushed"}
    BY <2>1 DEF Settled
  <2>3. rows' = rows /\ call' \notin {"Record", "Flush", "Opening"} /\ ~reclaiming'
    BY <1>9 DEF EngineFault, durable
  <2>4. reply' \notin {"Accepted", "Opened", "Flushed"}
    BY <1>9, <2>2 DEF EngineFault
  <2> QED
    BY <2>3, <2>4 DEF Settled
<1>10. CASE Crash
  BY <1>10 DEF Crash, durable, Settled
<1>11. CASE UNCHANGED vars
  BY <1>11 DEF vars, durable, control, coalescerVars, Settled, Excess
<1> QED
  BY <1>1, <1>2, <1>3, <1>4, <1>5, <1>6, <1>7, <1>8, <1>9, <1>10, <1>11, <1>12,
     RecordSettled
  DEF StoreNext

LEMMA StoreIsSettled == StoreSpec => []Settled
<1>1. StoreInit => Settled
  BY FS_EmptySet, StoreAssumption DEF StoreInit, Empty, Settled
<1> QED
  BY <1>1, SettledStep, StoreIsSound, PTL DEF StoreSpec

(* A record, an open, or a flush that closed a window, when it succeeds,   *)
(* leaves no more rows than the policy allows, however many failed         *)
(* reclaims left rows over before it.                                      *)
THEOREM AnsweredWithinRetention == StoreSpec => []RetentionBound
<1>1. Settled => RetentionBound
  <2> SUFFICES ASSUME Settled,
                      \/ reply \in {"Accepted", "Opened"}
                      \/ reply = "Flushed" /\ update.closed # {}
               PROVE  Cardinality(DOMAIN rows) <= SystemEventSummaries
    BY DEF RetentionBound
  <2>1. ~(Cardinality(DOMAIN rows) > SystemEventSummaries)
    BY DEF Settled, Excess
  <2>2. Cardinality(DOMAIN rows) \in Nat
    BY FS_CardinalityType DEF Settled
  <2> QED
    BY <2>1, <2>2, StoreAssumption
<1> QED
  BY <1>1, StoreIsSettled, PTL

-----------------------------------------------------------------------------
\* Clients number the events of a boot apart, so a record key names one event,
\* which dates its summaries.
Named ==
    /\ \A s \in Summaries :
          /\ s.first_seen = s.representative.event_instant
          /\ RecordKey(s) \in issued
    /\ UniqueIdentifiers =>
          \A s, t \in Summaries :
             RecordKey(s) = RecordKey(t) => s.representative = t.representative

(* The event that opens a window has a record key never sent before.       *)
LEMMA NamedStep ==
  ASSUME Sound, Named, [StoreNext]_vars
  PROVE  Named'
<1>1. issued \subseteq issued'
  BY DEF StoreNext, RecordSystemEvent, RefuseSystemEvent, FlushSystemEvents, Stop,
     PersistSystemEventSummary, Retract, AcceptSystemEvent, FinishFlush, FinishStop,
     EngineFault, Crash, Open, FinishOpen, vars, history
<1>2. ASSUME NEW s \in Summaries', NEW t \in Summaries, SameOrigin(s, t)
      PROVE  /\ s.representative = t.representative /\ s.first_seen = t.first_seen
             /\ RecordKey(s) = RecordKey(t)
             /\ RecordKey(s) \in issued
  BY <1>2 DEF SameOrigin, RecordKey, Named
<1>3. ASSUME NEW s \in Summaries', NEW e \in Events, RecordSystemEvent(e), FreshFrom(s, e)
      PROVE  /\ s.representative = e /\ s.first_seen = e.event_instant
             /\ RecordKey(s) = <<e.boot_identifier, e.event_identifier>>
             /\ RecordKey(s) \in issued'
             /\ UniqueIdentifiers => RecordKey(s) \notin issued
             /\ issued' = issued \cup {RecordKey(s)}
  BY <1>3 DEF FreshFrom, RecordKey, RecordSystemEvent, MayBeSent
<1>4. ASSUME NEW s \in Summaries'
      PROVE  /\ s.first_seen = s.representative.event_instant
             /\ RecordKey(s) \in issued'
  BY <1>1, <1>2, <1>3, OriginStep DEF Named
<1>5. ASSUME UniqueIdentifiers, NEW s \in Summaries', NEW t \in Summaries',
             RecordKey(s) = RecordKey(t)
      PROVE  s.representative = t.representative
  <2>1. CASE /\ \E u \in Summaries : SameOrigin(s, u)
             /\ \E v \in Summaries : SameOrigin(t, v)
    <3>1. PICK u \in Summaries : SameOrigin(s, u)
      BY <2>1
    <3>2. PICK v \in Summaries : SameOrigin(t, v)
      BY <2>1
    <3>3. /\ s.representative = u.representative /\ RecordKey(s) = RecordKey(u)
          /\ t.representative = v.representative /\ RecordKey(t) = RecordKey(v)
      BY <1>2, <3>1, <3>2
    <3> QED
      BY <1>5, <3>3 DEF Named
  <2>2. CASE /\ \E e \in Events : RecordSystemEvent(e) /\ FreshFrom(s, e)
             /\ \E v \in Summaries : SameOrigin(t, v)
    BY <1>2, <1>3, <1>5, <2>2
  <2>3. CASE /\ \E e \in Events : RecordSystemEvent(e) /\ FreshFrom(t, e)
             /\ \E u \in Summaries : SameOrigin(s, u)
    BY <1>2, <1>3, <1>5, <2>3
  <2>4. CASE update'.current = {s} /\ update'.current = {t}
    BY <2>4
  <2> QED
    BY <2>1, <2>2, <2>3, <2>4, OriginStep
<1> QED
  BY <1>4, <1>5 DEF Named

LEMMA StoreIsNamed == StoreSpec => []Named
<1>1. StoreInit => Named
  BY DEF StoreInit, Init, Empty, Named, Summaries
<1> QED
  BY <1>1, NamedStep, StoreIsSound, PTL DEF StoreSpec

\* The rows of a table that sort no earlier than a summary.
NoEarlier(table, s) == {k \in DOMAIN table : OlderOrSame(s, table[k])}

\* A reclaimed row is survived by a full table of rows no earlier than itself.
Survived ==
    \A d \in DOMAIN reclaimed :
        Cardinality(NoEarlier(rows, reclaimed[d])) >= SystemEventSummaries

(* The order in which retention takes rows is transitive.                  *)
LEMMA OrderIsTransitive ==
  ASSUME NEW s \in CoalescedSystemEvent, NEW t \in CoalescedSystemEvent,
         NEW u \in CoalescedSystemEvent, OlderOrSame(s, t), OlderOrSame(t, u)
  PROVE  OlderOrSame(s, u)
<1>1. /\ s.first_seen \in Int /\ t.first_seen \in Int /\ u.first_seen \in Int
      /\ s.representative \in SystemEvent /\ t.representative \in SystemEvent
      /\ u.representative \in SystemEvent
  BY IntegerAssumption DEF CoalescedSystemEvent, Integers64
<1>2. /\ s.representative.event_identifier \in Int /\ t.representative.event_identifier \in Int
      /\ u.representative.event_identifier \in Int
  BY <1>1, IntegerAssumption DEF SystemEvent, Integers64
<1> QED
  BY <1>1, <1>2 DEF OlderOrSame

(* Writing a summary takes no row from those that survive a reclaimed one: *)
(* a row that is rewritten keeps its place in the order.                   *)
LEMMA PersistSurvived ==
  ASSUME UniqueIdentifiers, Sound, Settled, Named, Survived, PersistSystemEventSummary
  PROVE  Survived'
<1>1. PICK w \in work :
        /\ rows' = [k \in DOMAIN rows \cup {RecordKey(w)} |->
                      IF k = RecordKey(w) THEN w ELSE rows[k]]
        /\ reclaimed' = [k \in DOMAIN reclaimed \ {RecordKey(w)} |-> reclaimed[k]]
  BY DEF PersistSystemEventSummary, NextToWrite
<1>2. ASSUME NEW k \in DOMAIN rows
      PROVE  /\ rows'[k].first_seen = rows[k].first_seen
             /\ rows'[k].representative = rows[k].representative
  <2>1. CASE k = RecordKey(w)
    <3>1. w \in Summaries /\ rows[k] \in Summaries
      BY DEF Sound, Summaries
    <3>2. RecordKey(rows[k]) = RecordKey(w)
      BY <2>1 DEF Sound
    <3>3. w.representative = rows[k].representative
      BY <3>1, <3>2 DEF Named
    <3>4. w.first_seen = rows[k].first_seen
      BY <3>1, <3>3 DEF Named
    <3> QED
      BY <1>1, <2>1, <3>3, <3>4
  <2>2. CASE k # RecordKey(w)
    BY <1>1, <2>2
  <2> QED
    BY <2>1, <2>2
<1>3. SUFFICES ASSUME NEW d \in DOMAIN reclaimed'
               PROVE  Cardinality(NoEarlier(rows', reclaimed'[d])) >= SystemEventSummaries
  BY DEF Survived, NoEarlier
<1>4. d \in DOMAIN reclaimed /\ reclaimed'[d] = reclaimed[d]
  BY <1>1, <1>3
<1> DEFINE before == NoEarlier(rows, reclaimed[d])
           after == NoEarlier(rows', reclaimed[d])
<1>5. before \subseteq after
  BY <1>1, <1>2 DEF NoEarlier, OlderOrSame
<1>6. IsFiniteSet(after)
  <2>1. IsFiniteSet(DOMAIN rows')
    BY <1>1, FS_AddElement DEF Settled
  <2>2. after \subseteq DOMAIN rows'
    BY DEF NoEarlier
  <2> QED
    BY <2>1, <2>2, FS_Subset
<1>7. Cardinality(before) >= SystemEventSummaries
  BY <1>4 DEF Survived
<1> HIDE DEF before, after
<1>8. /\ Cardinality(before) <= Cardinality(after)
      /\ Cardinality(before) \in Nat /\ Cardinality(after) \in Nat
  BY <1>5, <1>6, FS_Subset, FS_CardinalityType
<1>9. Cardinality(after) >= SystemEventSummaries
  BY <1>7, <1>8, StoreAssumption
<1> QED
  BY <1>4, <1>9 DEF after

(* Retention takes a row that sorts no later than any other from a table   *)
(* over its bound: a full table of later rows stays, for that row and for  *)
(* every one taken before.                                                 *)
LEMMA RetractSurvived ==
  ASSUME Sound, Settled, Survived, Retract
  PROVE  Survived'
<1>1. PICK x \in OldestRows :
        /\ rows' = [k \in DOMAIN rows \ {x} |-> rows[k]]
        /\ reclaimed' = [k \in DOMAIN reclaimed \cup {x} |->
                           IF k = x THEN rows[k] ELSE reclaimed[k]]
  BY DEF Retract
<1>2. /\ x \in DOMAIN rows
      /\ \A j \in DOMAIN rows : OlderOrSame(rows[x], rows[j])
  BY DEF OldestRows
<1>3. /\ IsFiniteSet(DOMAIN rows) /\ Cardinality(DOMAIN rows) \in Nat
      /\ Cardinality(DOMAIN rows) > SystemEventSummaries
  BY FS_CardinalityType DEF Settled, Retract, Excess
<1>4. Cardinality(DOMAIN rows \ {x}) >= SystemEventSummaries
  <2>1. Cardinality(DOMAIN rows \ {x}) = Cardinality(DOMAIN rows) - 1
    BY <1>2, <1>3, FS_RemoveElement
  <2> QED
    BY <1>3, <2>1, StoreAssumption
<1>5. SUFFICES ASSUME NEW d \in DOMAIN reclaimed'
               PROVE  Cardinality(NoEarlier(rows', reclaimed'[d])) >= SystemEventSummaries
  BY DEF Survived, NoEarlier
<1>6. CASE d = x \/ OlderOrSame(reclaimed[d], rows[x])
  <2>1. \A k \in DOMAIN rows : OlderOrSame(reclaimed'[d], rows[k])
    <3>1. CASE d = x
      BY <1>1, <1>2, <3>1
    <3>2. CASE d # x
      <4>1. d \in DOMAIN reclaimed /\ reclaimed'[d] = reclaimed[d]
        BY <1>1, <1>5, <3>2
      <4>2. /\ reclaimed[d] \in CoalescedSystemEvent
            /\ \A k \in DOMAIN rows : rows[k] \in CoalescedSystemEvent
        BY <4>1 DEF Sound
      <4> QED
        BY <1>2, <1>6, <3>2, <4>1, <4>2, OrderIsTransitive
    <3> QED
      BY <3>1, <3>2
  <2>2. NoEarlier(rows', reclaimed'[d]) = DOMAIN rows \ {x}
    BY <1>1, <2>1 DEF NoEarlier
  <2> QED
    BY <1>4, <2>2
<1>7. CASE d # x /\ ~OlderOrSame(reclaimed[d], rows[x])
  <2>1. d \in DOMAIN reclaimed /\ reclaimed'[d] = reclaimed[d]
    BY <1>1, <1>5, <1>7
  <2>2. NoEarlier(rows', reclaimed'[d]) = NoEarlier(rows, reclaimed[d])
    BY <1>1, <1>7, <2>1 DEF NoEarlier
  <2> QED
    BY <2>1, <2>2 DEF Survived
<1> QED
  BY <1>6, <1>7

LEMMA SurvivedStep ==
  ASSUME UniqueIdentifiers, Sound, Settled, Named, Survived, [StoreNext]_vars
  PROVE  Survived'
<1>1. ASSUME rows' = rows, reclaimed' = reclaimed PROVE Survived'
  BY <1>1 DEF Survived, NoEarlier
<1>2. CASE PersistSystemEventSummary
  BY <1>2, PersistSurvived
<1>3. CASE Retract
  BY <1>3, RetractSurvived
<1>4. CASE ~PersistSystemEventSummary /\ ~Retract
  <2>1. rows' = rows /\ reclaimed' = reclaimed
    BY <1>4 DEF StoreNext, RecordSystemEvent, RefuseSystemEvent, FlushSystemEvents, Stop, Begin,
       AcceptSystemEvent, FinishFlush, FinishStop, EngineFault, Crash, Open, FinishOpen,
       vars, durable
  <2> QED
    BY <1>1, <2>1
<1> QED
  BY <1>2, <1>3, <1>4

(* "Bounded retention reclaims the oldest diagnostic rows": wherever the   *)
(* clients number the events of a boot apart, a row that is gone sorts no  *)
(* later than any row that is kept, and none is taken from a table that is *)
(* not full, whatever fails or restarts in between.                        *)
THEOREM NewestAreKept == UniqueIdentifiers => (StoreSpec => []RetentionKeepsNewest)
<1> SUFFICES ASSUME UniqueIdentifiers PROVE StoreSpec => []RetentionKeepsNewest
  OBVIOUS
<1>1. StoreInit => Survived
  BY DEF StoreInit, Empty, Survived
<1>2. Sound /\ Settled /\ Named /\ Survived /\ [StoreNext]_vars => Survived'
  BY SurvivedStep
<1>3. Settled /\ Survived => RetentionKeepsNewest
  <2> SUFFICES ASSUME Settled, Survived, ~Excess, NEW d \in DOMAIN reclaimed
               PROVE  /\ Cardinality(DOMAIN rows) = SystemEventSummaries
                      /\ \A k \in DOMAIN rows : OlderOrSame(reclaimed[d], rows[k])
    BY DEF RetentionKeepsNewest
  <2> DEFINE later == NoEarlier(rows, reclaimed[d])
  <2>1. later \subseteq DOMAIN rows
    BY DEF NoEarlier
  <2>2. Cardinality(later) >= SystemEventSummaries
    BY DEF Survived
  <2>3. ~(Cardinality(DOMAIN rows) > SystemEventSummaries)
    BY DEF Excess
  <2> HIDE DEF later
  <2>4. /\ IsFiniteSet(later)
        /\ Cardinality(later) <= Cardinality(DOMAIN rows)
        /\ Cardinality(DOMAIN rows) = Cardinality(later) => DOMAIN rows = later
        /\ Cardinality(later) \in Nat /\ Cardinality(DOMAIN rows) \in Nat
    BY <2>1, FS_Subset, FS_CardinalityType DEF Settled
  <2>5. /\ Cardinality(DOMAIN rows) = SystemEventSummaries
        /\ Cardinality(DOMAIN rows) = Cardinality(later)
    BY <2>2, <2>3, <2>4, StoreAssumption
  <2>6. DOMAIN rows = later
    BY <2>4, <2>5
  <2> QED
    BY <2>5, <2>6 DEF later, NoEarlier
<1> QED
  BY <1>1, <1>2, <1>3, StoreIsSound, StoreIsSettled, StoreIsNamed, PTL DEF StoreSpec

-----------------------------------------------------------------------------
\* From here on the windows and the rows are followed together.  A call turns
\* the windows of `gone` into closed summaries, each with its own closure.
Turned(gone, closing) == {Close(active[i], closing[i]) : i \in gone}

\* What a recorded event makes of its identity's window.
JoinsOrOpens(c, e, gone) ==
    LET identity == ExactDuplicateIdentity(e) IN
    \/ /\ identity \in DOMAIN active \ gone
       /\ SameOrigin(c, active[identity]) /\ c.count >= active[identity].count
       /\ c.count > active[identity].count \/ c.count = MaxInteger
    \/ identity \notin DOMAIN active \ gone /\ FreshFrom(c, e)

(* Saturating counters never count down, and up until they are full.       *)
LEMMA RepeatedCounts ==
  ASSUME NEW s \in CoalescedSystemEvent, NEW now \in Integers64, s.count >= 1
  PROVE  LET count == Repeated(s, now).count IN
         count >= s.count /\ (count > s.count \/ count = MaxInteger)
<1>1. s.count \in Int /\ s.count <= MaxInteger
  BY IntegerAssumption DEF CoalescedSystemEvent, Integers64
<1>2. LET count == SaturatingAdd(s.count, 1) IN
      count >= s.count /\ (count > s.count \/ count = MaxInteger)
  BY <1>1, IntegerAssumption DEF SaturatingAdd
<1> QED
  BY <1>2, RepeatedSummary

(* What a record call does to the windows, and the work it leaves.         *)
LEMMA RecordTurn ==
  ASSUME Sound, NEW e \in Events, RecordSystemEvent(e)
  PROVE  \E gone \in SUBSET DOMAIN active :
         \E closing \in [gone -> CoalescingClosures \ {"Active"}] :
         \E c \in CoalescedSystemEvent :
           /\ c.closure = "Active"
           /\ active' = [k \in (DOMAIN active \ gone) \cup {ExactDuplicateIdentity(e)} |->
                           IF k = ExactDuplicateIdentity(e) THEN c ELSE active[k]]
           /\ work' = Turned(gone, closing) \cup {c} /\ update'.current = {c}
           /\ JoinsOrOpens(c, e, gone)
<1> DEFINE expired == Expired(e.boot_identifier, e.event_instant)
           identity == ExactDuplicateIdentity(e)
<1>1. expired \subseteq DOMAIN active
  BY DEF Expired
<1>2. work' = update'.closed \cup update'.current
  BY DEF RecordSystemEvent, Begin
<1>3. CASE Suppress(e)
  <2> DEFINE window == active[identity]
             current == Repeated(window, e.event_instant)
             closing == [k \in expired |-> "Interval"]
  <2>1. /\ identity \in DOMAIN active \ expired
        /\ active' = [k \in DOMAIN active \ expired |->
                         IF k = identity THEN current ELSE active[k]]
        /\ update' = [current |-> {current}, closed |-> Closed(expired, "Interval")]
    BY <1>3 DEF Suppress
  <2>2. /\ window \in CoalescedSystemEvent /\ window.count >= 1
        /\ window.closure = "Active"
    BY <2>1 DEF Sound, TypeOK
  <2>3. e.event_instant \in Integers64
    BY EventsAssumption DEF SystemEvent
  <2>4. /\ current \in CoalescedSystemEvent /\ current.closure = "Active"
        /\ SameOrigin(current, window) /\ current.count >= window.count
        /\ current.count > window.count \/ current.count = MaxInteger
    BY <2>2, <2>3, RepeatedSummary, RepeatedCounts DEF SameOrigin
  <2>5. closing \in [expired -> CoalescingClosures \ {"Active"}]
    BY DEF CoalescingClosures
  <2> HIDE DEF current, expired
  <2>6. Closed(expired, "Interval") = Turned(expired, closing)
    BY DEF Closed, Turned
  <2> HIDE DEF closing
  <2>7. /\ work' = Turned(expired, closing) \cup {current} /\ update'.current = {current}
        /\ (DOMAIN active \ expired) \cup {identity} = DOMAIN active \ expired
    BY <1>2, <2>1, <2>6
  <2>8. JoinsOrOpens(current, e, expired)
    BY <2>1, <2>4 DEF JoinsOrOpens
  <2> QED
    BY <1>1, <2>1, <2>4, <2>5, <2>7, <2>8
<1>4. CASE OpenWindow(e)
  <2> DEFINE current == Coalesced(e, "Active")
  <2>1. PICK evicted \in Evictions(DOMAIN active \ expired) :
          /\ active' = [k \in ((DOMAIN active \ expired) \ evicted) \cup {identity} |->
                           IF k = identity THEN current ELSE active[k]]
          /\ update' = [current |-> {current},
                        closed  |-> Closed(expired, "Interval")
                                      \cup Closed(evicted, "Eviction")]
    BY <1>4 DEF OpenWindow
  <2> DEFINE gone == expired \cup evicted
             closing == [k \in gone |-> IF k \in expired THEN "Interval" ELSE "Eviction"]
  <2>2. /\ evicted \subseteq DOMAIN active \ expired
        /\ identity \notin DOMAIN active \ expired
    BY <1>4, EvictedKeys DEF OpenWindow
  <2>3. /\ current \in CoalescedSystemEvent /\ current.closure = "Active"
        /\ FreshFrom(current, e)
    BY CoalescedSummary, EventsAssumption DEF FreshFrom
  <2>4. closing \in [gone -> CoalescingClosures \ {"Active"}]
    BY DEF CoalescingClosures
  <2> HIDE DEF current, expired
  <2>5. Closed(expired, "Interval") \cup Closed(evicted, "Eviction") = Turned(gone, closing)
    BY <2>2 DEF Closed, Turned
  <2>6. work' = Turned(gone, closing) \cup {current} /\ update'.current = {current}
    BY <1>2, <2>1, <2>5
  <2>7. (DOMAIN active \ expired) \ evicted = DOMAIN active \ gone
    OBVIOUS
  <2>8. JoinsOrOpens(current, e, gone)
    BY <2>2, <2>3 DEF JoinsOrOpens
  <2>9. gone \in SUBSET DOMAIN active
    BY <1>1, <2>2
  <2>10. active' = [k \in (DOMAIN active \ gone) \cup {identity} |->
                      IF k = identity THEN current ELSE active[k]]
    BY <2>1, <2>7
  <2> HIDE DEF gone, closing
  <2> QED
    BY <2>3, <2>4, <2>6, <2>8, <2>9, <2>10
<1> QED
  BY <1>3, <1>4 DEF RecordSystemEvent, Ingest

(* What a flush does.                                                      *)
LEMMA FlushTurn ==
  ASSUME Sound, (\E b \in Boots : FlushSystemEvents(b)) \/ Stop
  PROVE  \E gone \in SUBSET DOMAIN active :
         \E closing \in [gone -> CoalescingClosures \ {"Active"}] :
           /\ active' = [k \in DOMAIN active \ gone |-> active[k]]
           /\ work' = Turned(gone, closing)
           /\ Stop => gone = DOMAIN active
<1>1. ASSUME NEW gone \in SUBSET DOMAIN active,
             NEW closure \in {"ExplicitFlush", "Shutdown"}, NEW kind,
             FlushIdentities(gone, closure), Begin(kind)
      PROVE  \E closing \in [gone -> CoalescingClosures \ {"Active"}] :
               /\ active' = [k \in DOMAIN active \ gone |-> active[k]]
               /\ work' = Turned(gone, closing)
  <2> DEFINE closing == [k \in gone |-> closure]
  <2>1. closing \in [gone -> CoalescingClosures \ {"Active"}]
    BY DEF CoalescingClosures
  <2>2. Closed(gone, closure) = Turned(gone, closing)
    BY DEF Closed, Turned
  <2>3. /\ active' = [k \in DOMAIN active \ gone |-> active[k]]
        /\ work' = Closed(gone, closure)
    BY <1>1 DEF FlushIdentities, Begin
  <2> QED
    BY <2>1, <2>2, <2>3
<1>2. CASE Stop
  <2>1. DOMAIN active \in SUBSET DOMAIN active
    OBVIOUS
  <2> QED
    BY <1>1, <1>2, <2>1 DEF Stop, FlushAll
<1>3. CASE ~Stop /\ \E b \in Boots : FlushSystemEvents(b)
  <2>1. PICK b \in Boots : FlushIdentities(OfBoot(b), "ExplicitFlush") /\ Begin("Flush")
    BY <1>3 DEF FlushSystemEvents, FlushBoot
  <2>2. OfBoot(b) \in SUBSET DOMAIN active
    BY DEF OfBoot
  <2> QED
    BY <1>1, <1>3, <2>1, <2>2
<1> QED
  BY <1>2, <1>3

(* A summary turned closed keeps its window's key and count.               *)
LEMMA TurnedSummary ==
  ASSUME TypeOK, NEW gone \in SUBSET DOMAIN active,
         NEW closing \in [gone -> CoalescingClosures \ {"Active"}], NEW i \in gone
  PROVE  LET w == Close(active[i], closing[i]) IN
         /\ w.closure # "Active" /\ w.count = active[i].count
         /\ RecordKey(w) = RecordKey(active[i])
<1>1. active[i] \in CoalescedSystemEvent /\ closing[i] \in CoalescingClosures /\ closing[i] # "Active"
  BY DEF TypeOK
<1> QED
  BY <1>1, CloseSummary DEF RecordKey

\* The summaries in memory: of the open windows, and still to be written.
Live == {active[i] : i \in DOMAIN active} \cup work

\* What a call makes of each window that was open: `turn` keeps its key and its
\* count, and closed windows and changed ones are to be written.  Besides them
\* there is the window `c` that a fresh key opens, if any.
Follows(turn, c) ==
    /\ \A i \in DOMAIN active :
          /\ RecordKey(turn[i]) = RecordKey(active[i])
          /\ turn[i].count >= active[i].count
          /\ \/ turn[i].closure # "Active" /\ turn[i] \in work'
             \/ i \in DOMAIN active' /\ active'[i] = turn[i]
    /\ \A s \in Live' :
          \/ \E i \in DOMAIN active : s = turn[i]
          \/ s = c /\ RecordKey(c) \notin issued
    /\ \A i \in DOMAIN active' :
          active'[i] \in work' \/ (i \in DOMAIN active /\ active'[i] = active[i])
    /\ \A w \in work' :
          w.closure = "Active" => \E i \in DOMAIN active' : active'[i] = w

(* A record call follows the windows in this sense ...                     *)
LEMMA RecordFollows ==
  ASSUME UniqueIdentifiers, Sound, NEW e \in Events, RecordSystemEvent(e)
  PROVE  \E turn, c : Follows(turn, c)
<1> DEFINE identity == ExactDuplicateIdentity(e)
<1>0. PICK gone \in SUBSET DOMAIN active :
        \E closing \in [gone -> CoalescingClosures \ {"Active"}], c \in CoalescedSystemEvent :
           /\ c.closure = "Active"
           /\ active' = [k \in (DOMAIN active \ gone) \cup {identity} |->
                           IF k = identity THEN c ELSE active[k]]
           /\ work' = Turned(gone, closing) \cup {c}
           /\ JoinsOrOpens(c, e, gone)
  BY RecordTurn
<1>1. PICK closing \in [gone -> CoalescingClosures \ {"Active"}], c \in CoalescedSystemEvent :
        /\ c.closure = "Active"
        /\ active' = [k \in (DOMAIN active \ gone) \cup {identity} |->
                        IF k = identity THEN c ELSE active[k]]
        /\ work' = Turned(gone, closing) \cup {c}
        /\ JoinsOrOpens(c, e, gone)
  BY <1>0
<1> DEFINE turn == [i \in DOMAIN active |->
                      IF i \in gone THEN Close(active[i], closing[i])
                      ELSE IF i = identity THEN c ELSE active[i]]
<1>2. TypeOK /\ \A i \in DOMAIN active : active[i].count \in Int
  BY IntegerAssumption DEF Sound, TypeOK, CoalescedSystemEvent, Integers64
<1>3. ASSUME NEW i \in gone
      PROVE  /\ turn[i] \in work' /\ turn[i].closure # "Active"
             /\ turn[i].count = active[i].count
             /\ RecordKey(turn[i]) = RecordKey(active[i])
  <2>1. turn[i] = Close(active[i], closing[i])
    OBVIOUS
  <2>2. turn[i] \in work'
    BY <1>1, <2>1 DEF Turned
  <2> HIDE DEF turn
  <2> QED
    BY <1>2, <2>1, <2>2, TurnedSummary
<1>4. ASSUME NEW i \in DOMAIN active \ gone, i # identity
      PROVE  turn[i] = active[i] /\ i \in DOMAIN active' /\ active'[i] = turn[i]
  BY <1>1, <1>4
<1>5. ASSUME NEW i \in DOMAIN active \ gone, i = identity
      PROVE  /\ turn[i] = c /\ i \in DOMAIN active' /\ active'[i] = turn[i]
             /\ turn[i].count >= active[i].count
             /\ RecordKey(turn[i]) = RecordKey(active[i])
  BY <1>1, <1>5 DEF JoinsOrOpens, SameOrigin, RecordKey
<1>6. identity \in DOMAIN active \ gone \/ RecordKey(c) \notin issued
  BY <1>1 DEF JoinsOrOpens, FreshFrom, RecordKey, RecordSystemEvent, MayBeSent
<1>7. ASSUME NEW w \in Turned(gone, closing)
      PROVE  /\ \E i \in gone : w = turn[i]
             /\ w.closure # "Active"
  <2>1. PICK i \in gone : w = Close(active[i], closing[i])
    BY DEF Turned
  <2>2. w = turn[i]
    BY <2>1
  <2> HIDE DEF turn
  <2> QED
    BY <1>3, <2>2
<1> HIDE DEF turn, identity
<1>8. ASSUME NEW i \in DOMAIN active
      PROVE  /\ RecordKey(turn[i]) = RecordKey(active[i])
             /\ turn[i].count >= active[i].count
             /\ \/ turn[i].closure # "Active" /\ turn[i] \in work'
                \/ i \in DOMAIN active' /\ active'[i] = turn[i]
  <2>1. CASE i \in gone
    BY <1>2, <1>3, <2>1
  <2>2. CASE i \notin gone /\ i # identity
    BY <1>2, <1>4, <2>2
  <2>3. CASE i \notin gone /\ i = identity
    BY <1>5, <2>3
  <2> QED
    BY <2>1, <2>2, <2>3
<1>9. ASSUME NEW s \in Live'
      PROVE  \/ \E i \in DOMAIN active : s = turn[i]
             \/ s = c /\ RecordKey(c) \notin issued
  <2>1. s = c => (\E i \in DOMAIN active : s = turn[i]) \/ RecordKey(c) \notin issued
    BY <1>5, <1>6
  <2>2. CASE s \in work'
    BY <1>1, <1>7, <2>1, <2>2
  <2>3. CASE \E i \in DOMAIN active' : s = active'[i]
    BY <1>1, <1>4, <2>1, <2>3
  <2> QED
    BY <2>2, <2>3 DEF Live
<1>10. \A i \in DOMAIN active' :
          active'[i] \in work' \/ (i \in DOMAIN active /\ active'[i] = active[i])
  BY <1>1
<1>11. \A w \in work' : w.closure = "Active" => \E i \in DOMAIN active' : active'[i] = w
  BY <1>1, <1>7
<1>12. Follows(turn, c)
  BY <1>8, <1>9, <1>10, <1>11 DEF Follows
<1> QED
  BY <1>12

(* ... and so does a flush.                                                *)
LEMMA FlushFollows ==
  ASSUME Sound, (\E b \in Boots : FlushSystemEvents(b)) \/ Stop
  PROVE  \E turn, c : Follows(turn, c)
<1>0. PICK gone \in SUBSET DOMAIN active :
        \E closing \in [gone -> CoalescingClosures \ {"Active"}] :
           /\ active' = [k \in DOMAIN active \ gone |-> active[k]]
           /\ work' = Turned(gone, closing)
  BY FlushTurn
<1>1. PICK closing \in [gone -> CoalescingClosures \ {"Active"}] :
        /\ active' = [k \in DOMAIN active \ gone |-> active[k]]
        /\ work' = Turned(gone, closing)
  BY <1>0
<1> DEFINE turn == [i \in DOMAIN active |->
                      IF i \in gone THEN Close(active[i], closing[i]) ELSE active[i]]
<1>2. TypeOK /\ \A i \in DOMAIN active : active[i].count \in Int
  BY IntegerAssumption DEF Sound, TypeOK, CoalescedSystemEvent, Integers64
<1>3. ASSUME NEW i \in gone
      PROVE  /\ turn[i] \in work' /\ turn[i].closure # "Active"
             /\ turn[i].count = active[i].count
             /\ RecordKey(turn[i]) = RecordKey(active[i])
  <2>1. turn[i] = Close(active[i], closing[i])
    OBVIOUS
  <2>2. turn[i] \in work'
    BY <1>1, <2>1 DEF Turned
  <2> HIDE DEF turn
  <2> QED
    BY <1>2, <2>1, <2>2, TurnedSummary
<1>4. ASSUME NEW i \in DOMAIN active \ gone
      PROVE  turn[i] = active[i] /\ i \in DOMAIN active' /\ active'[i] = turn[i]
  BY <1>1
<1>5. ASSUME NEW w \in work'
      PROVE  (\E i \in gone : w = turn[i]) /\ w.closure # "Active"
  <2>1. PICK i \in gone : w = Close(active[i], closing[i])
    BY <1>1 DEF Turned
  <2>2. w = turn[i]
    BY <2>1
  <2> HIDE DEF turn
  <2> QED
    BY <1>3, <2>2
<1> HIDE DEF turn
<1>6. ASSUME NEW i \in DOMAIN active
      PROVE  /\ RecordKey(turn[i]) = RecordKey(active[i])
             /\ turn[i].count >= active[i].count
             /\ \/ turn[i].closure # "Active" /\ turn[i] \in work'
                \/ i \in DOMAIN active' /\ active'[i] = turn[i]
  <2>1. CASE i \in gone
    BY <1>2, <1>3, <2>1
  <2>2. CASE i \notin gone
    BY <1>2, <1>4, <2>2
  <2> QED
    BY <2>1, <2>2
<1>7. ASSUME NEW s \in Live' PROVE \E i \in DOMAIN active : s = turn[i]
  <2>1. CASE s \in work'
    BY <1>5, <2>1
  <2>2. CASE \E i \in DOMAIN active' : s = active'[i]
    BY <1>1, <1>4, <2>2
  <2> QED
    BY <2>1, <2>2 DEF Live
<1>8. \A i \in DOMAIN active' :
         active'[i] \in work' \/ (i \in DOMAIN active /\ active'[i] = active[i])
  BY <1>1
<1>9. Follows(turn, {})
  BY <1>5, <1>6, <1>7, <1>8 DEF Follows
<1> QED
  BY <1>9

-----------------------------------------------------------------------------
\* The steps with which a call begins.
Begins ==
    \/ \E e \in Events : RecordSystemEvent(e)
    \/ \E b \in Boots : FlushSystemEvents(b)
    \/ Stop

(* A call begins with nothing left to write and touches no row.            *)
LEMMA BeginFollows ==
  ASSUME UniqueIdentifiers, Sound, Begins
  PROVE  /\ \E turn, c : Follows(turn, c)
         /\ call = "Idle" /\ work = {} /\ faulted' = faulted /\ disruptions' = disruptions
         /\ UNCHANGED durable
<1>1. \E turn, c : Follows(turn, c)
  BY RecordFollows, FlushFollows DEF Begins
<1> QED
  BY <1>1 DEF Begins, RecordSystemEvent, FlushSystemEvents, Stop, Begin, Sound

(* Every key of the table has been sent, and so has every window's.        *)
LEMMA KeysWereIssued ==
  ASSUME Sound, Named
  PROVE  /\ \A k \in KnownKeys :
              k \in issued /\ Latest(k) \in CoalescedSystemEvent /\ RecordKey(Latest(k)) = k
         /\ \A i \in DOMAIN active : RecordKey(active[i]) \in issued
<1>1. ASSUME NEW k \in KnownKeys
      PROVE  /\ Latest(k) \in Summaries /\ Latest(k) \in CoalescedSystemEvent
             /\ RecordKey(Latest(k)) = k
  <2>1. CASE k \in DOMAIN rows
    BY <2>1 DEF Latest, Summaries, Sound
  <2>2. CASE k \notin DOMAIN rows
    BY <2>2 DEF Latest, KnownKeys, Summaries, Sound
  <2> QED
    BY <2>1, <2>2
<1>2. \A i \in DOMAIN active : active[i] \in Summaries
  BY DEF Summaries
<1> QED
  BY <1>1, <1>2 DEF Named

(* Two open windows have two record keys.                                  *)
LEMMA WindowKeys ==
  ASSUME UniqueIdentifiers, Sound, Named,
         NEW i \in DOMAIN active, NEW j \in DOMAIN active,
         RecordKey(active[i]) = RecordKey(active[j])
  PROVE  i = j
<1>1. active[i] \in Summaries /\ active[j] \in Summaries
  BY DEF Summaries
<1>2. active[i].representative = active[j].representative
  BY <1>1 DEF Named
<1> QED
  BY <1>2 DEF Sound, TypeOK

(* What a commit makes of the table, read with the rows retention took.    *)
LEMMA PersistTable ==
  ASSUME PersistSystemEventSummary
  PROVE  \E w \in work :
           /\ work' = work \ {w}
           /\ KnownKeys' = KnownKeys \cup {RecordKey(w)}
           /\ \A k \in KnownKeys' :
                Latest(k)' = IF k = RecordKey(w) THEN w ELSE Latest(k)
           /\ active' = active
<1>1. PICK w \in work :
        /\ rows' = [k \in DOMAIN rows \cup {RecordKey(w)} |->
                      IF k = RecordKey(w) THEN w ELSE rows[k]]
        /\ reclaimed' = [k \in DOMAIN reclaimed \ {RecordKey(w)} |-> reclaimed[k]]
        /\ work' = work \ {w}
  BY DEF PersistSystemEventSummary, NextToWrite
<1>2. KnownKeys' = KnownKeys \cup {RecordKey(w)}
  BY <1>1 DEF KnownKeys
<1>3. ASSUME NEW k \in KnownKeys'
      PROVE  Latest(k)' = IF k = RecordKey(w) THEN w ELSE Latest(k)
  <2>1. Latest(k)' = IF k \in DOMAIN rows' THEN rows'[k] ELSE reclaimed'[k]
    BY DEF Latest
  <2>2. CASE k = RecordKey(w)
    BY <1>1, <2>1, <2>2
  <2>3. CASE k # RecordKey(w) /\ k \in DOMAIN rows
    BY <1>1, <2>1, <2>3 DEF Latest
  <2>4. CASE k # RecordKey(w) /\ k \notin DOMAIN rows
    <3>1. k \in DOMAIN reclaimed \ {RecordKey(w)}
      BY <1>2, <2>4 DEF KnownKeys
    <3> QED
      BY <1>1, <2>1, <2>4, <3>1 DEF Latest
  <2> QED
    BY <2>2, <2>3, <2>4
<1>4. active' = active
  BY DEF PersistSystemEventSummary, coalescerVars
<1> QED
  BY <1>1, <1>2, <1>3, <1>4

(* Retention takes rows out of the table and not out of its history; no    *)
(* other step but a commit touches either.                                 *)
LEMMA TableKept ==
  ASSUME Sound, [StoreNext]_vars, ~PersistSystemEventSummary
  PROVE  KnownKeys' = KnownKeys /\ \A k \in KnownKeys : Latest(k)' = Latest(k)
<1>1. CASE Retract
  <2>1. PICK x \in DOMAIN rows :
          /\ rows' = [k \in DOMAIN rows \ {x} |-> rows[k]]
          /\ reclaimed' = [k \in DOMAIN reclaimed \cup {x} |->
                             IF k = x THEN rows[k] ELSE reclaimed[k]]
    BY <1>1 DEF Retract, OldestRows
  <2>2. KnownKeys' = KnownKeys
    BY <2>1 DEF KnownKeys
  <2>3. ASSUME NEW k \in KnownKeys PROVE Latest(k)' = Latest(k)
    <3>1. Latest(k)' = IF k \in DOMAIN rows' THEN rows'[k] ELSE reclaimed'[k]
      BY DEF Latest
    <3>2. CASE k = x
      BY <2>1, <3>1, <3>2 DEF Latest
    <3>3. CASE k # x /\ k \in DOMAIN rows
      BY <2>1, <3>1, <3>3 DEF Latest
    <3>4. CASE k # x /\ k \notin DOMAIN rows
      <4>1. k \in DOMAIN reclaimed
        BY <3>4 DEF KnownKeys
      <4> QED
        BY <2>1, <3>1, <3>4, <4>1 DEF Latest
    <3> QED
      BY <3>2, <3>3, <3>4
  <2> QED
    BY <2>2, <2>3
<1>2. CASE ~Retract
  <2>1. rows' = rows /\ reclaimed' = reclaimed
    BY <1>2 DEF StoreNext, RecordSystemEvent, RefuseSystemEvent, FlushSystemEvents, Stop, Begin,
       AcceptSystemEvent, FinishFlush, FinishStop, EngineFault, Crash, Open, FinishOpen,
       vars, durable
  <2> QED
    BY <2>1 DEF KnownKeys, Latest
<1> QED
  BY <1>1, <1>2

(* Between its beginning and its end a call opens no window and finds no   *)
(* new work.                                                               *)
LEMMA LiveKept ==
  ASSUME Sound, [StoreNext]_vars, ~Begins
  PROVE  /\ work' \subseteq work
         /\ active' = active \/ (active' = Empty /\ work' = {})
         /\ Live' \subseteq Live
<1>1. work' \subseteq work
  BY DEF StoreNext, Begins, RefuseSystemEvent, PersistSystemEventSummary, Retract,
     AcceptSystemEvent, FinishFlush, FinishStop, EngineFault, Crash, Open, FinishOpen,
     vars, control
<1>2. active' = active \/ (active' = Empty /\ work' = {})
  BY DEF StoreNext, Begins, RefuseSystemEvent, PersistSystemEventSummary, Retract,
     AcceptSystemEvent, FinishFlush, FinishStop, EngineFault, Crash, Open, FinishOpen,
     vars, coalescerVars, Forget, Written, Sound
<1>3. Live' \subseteq Live
  <2>1. CASE active' = active
    BY <1>1, <2>1 DEF Live
  <2>2. CASE active' = Empty /\ work' = {}
    BY <2>2 DEF Live, Empty
  <2> QED
    BY <1>2, <2>1, <2>2
<1> QED
  BY <1>1, <1>2, <1>3

-----------------------------------------------------------------------------
\* A record key names one summary in memory, and a row it may still overwrite
\* is marked Active and counts no more.
Tracked ==
    /\ \A s, t \in Live : RecordKey(s) = RecordKey(t) => s = t
    /\ \A s \in Live :
          RecordKey(s) \in KnownKeys =>
              /\ Latest(RecordKey(s)).closure = "Active"
              /\ Latest(RecordKey(s)).count <= s.count

LEMMA TrackedStep ==
  ASSUME UniqueIdentifiers, Sound, Named, Tracked, [StoreNext]_vars
  PROVE  Tracked'
<1>1. CASE Begins
  <2>1. PICK turn, c : Follows(turn, c)
    BY <1>1, BeginFollows
  <2>2. /\ KnownKeys' = KnownKeys /\ \A k \in KnownKeys : Latest(k)' = Latest(k)
        /\ \A i \in DOMAIN active : active[i] \in Live
    BY <1>1, BeginFollows DEF durable, KnownKeys, Latest, Live
  <2>3. ASSUME NEW s \in Live', NEW t \in Live', RecordKey(s) = RecordKey(t)
        PROVE  s = t
    <3>1. CASE s = c /\ t = c
      BY <3>1
    <3>2. CASE (\E i \in DOMAIN active : s = turn[i]) /\ \E j \in DOMAIN active : t = turn[j]
      <4>1. PICK i \in DOMAIN active : s = turn[i]
        BY <3>2
      <4>2. PICK j \in DOMAIN active : t = turn[j]
        BY <3>2
      <4>3. RecordKey(active[i]) = RecordKey(active[j])
        BY <2>1, <2>3, <4>1, <4>2 DEF Follows
      <4> QED
        BY <4>1, <4>2, <4>3, WindowKeys
    <3>3. \A i \in DOMAIN active : RecordKey(turn[i]) \in issued
      BY <2>1, KeysWereIssued DEF Follows
    <3> QED
      BY <2>1, <2>3, <3>1, <3>2, <3>3 DEF Follows
  <2>4. ASSUME NEW s \in Live', RecordKey(s) \in KnownKeys
        PROVE  /\ Latest(RecordKey(s)).closure = "Active"
               /\ Latest(RecordKey(s)).count <= s.count
    <3>1. RecordKey(s) \in issued
      BY <2>4, KeysWereIssued
    <3>2. PICK i \in DOMAIN active : s = turn[i]
      BY <2>1, <3>1 DEF Follows
    <3>3. RecordKey(s) = RecordKey(active[i]) /\ s.count >= active[i].count
      BY <2>1, <3>2 DEF Follows
    <3>4. /\ Latest(RecordKey(s)).closure = "Active"
          /\ Latest(RecordKey(s)).count <= active[i].count
      BY <2>2, <2>4, <3>3 DEF Tracked
    <3>5. Latest(RecordKey(s)).count \in Int /\ active[i].count \in Int /\ s.count \in Int
      <4>1. Latest(RecordKey(s)) \in CoalescedSystemEvent /\ active[i] \in CoalescedSystemEvent
        BY <2>4, KeysWereIssued DEF Sound, TypeOK
      <4>2. s \in CoalescedSystemEvent
        BY SoundStep DEF Live, Sound, TypeOK
      <4> QED
        BY <4>1, <4>2, IntegerAssumption DEF CoalescedSystemEvent, Integers64
    <3> QED
      BY <3>3, <3>4, <3>5
  <2>5. \A s \in Live' : RecordKey(s) \in KnownKeys' =>
           /\ Latest(RecordKey(s))'.closure = "Active"
           /\ Latest(RecordKey(s))'.count <= s.count
    BY <2>2, <2>4
  <2> QED
    BY <2>3, <2>5 DEF Tracked
<1>2. CASE PersistSystemEventSummary
  <2>1. PICK w \in work :
          /\ work' = work \ {w}
          /\ KnownKeys' = KnownKeys \cup {RecordKey(w)}
          /\ \A k \in KnownKeys' : Latest(k)' = IF k = RecordKey(w) THEN w ELSE Latest(k)
          /\ active' = active
    BY <1>2, PersistTable
  <2>2. w \in Live /\ Live' \subseteq Live
    BY <2>1 DEF Live
  <2>3. ASSUME NEW s \in Live', RecordKey(s) \in KnownKeys'
        PROVE  /\ Latest(RecordKey(s))'.closure = "Active"
               /\ Latest(RecordKey(s))'.count <= s.count
    <3>1. CASE RecordKey(s) = RecordKey(w)
      <4>1. s = w
        BY <2>2, <3>1 DEF Tracked
      <4>2. \E i \in DOMAIN active : w = active[i]
        BY <2>1, <4>1 DEF Live
      <4>3. /\ w.closure = "Active" /\ w \in CoalescedSystemEvent
            /\ Latest(RecordKey(s))' = w
        BY <2>1, <2>3, <3>1, <4>2 DEF Sound, TypeOK
      <4>4. w.count <= w.count
        BY <4>3, IntegerAssumption DEF CoalescedSystemEvent, Integers64
      <4> QED
        BY <4>1, <4>3, <4>4
    <3>2. CASE RecordKey(s) # RecordKey(w)
      BY <2>1, <2>2, <2>3, <3>2 DEF Tracked
    <3> QED
      BY <3>1, <3>2
  <2>4. \A s, t \in Live' : RecordKey(s) = RecordKey(t) => s = t
    BY <2>2 DEF Tracked
  <2> QED
    BY <2>3, <2>4 DEF Tracked
<1>3. CASE ~Begins /\ ~PersistSystemEventSummary
  <2>1. /\ KnownKeys' = KnownKeys /\ \A k \in KnownKeys : Latest(k)' = Latest(k)
        /\ Live' \subseteq Live
    BY <1>3, TableKept, LiveKept
  <2>2. \A s \in Live' : RecordKey(s) \in KnownKeys' =>
           /\ Latest(RecordKey(s))'.closure = "Active"
           /\ Latest(RecordKey(s))'.count <= s.count
    BY <2>1 DEF Tracked
  <2>3. \A s, t \in Live' : RecordKey(s) = RecordKey(t) => s = t
    BY <2>1 DEF Tracked
  <2> QED
    BY <2>2, <2>3 DEF Tracked
<1> QED
  BY <1>1, <1>2, <1>3

LEMMA StoreIsTracked == UniqueIdentifiers => (StoreSpec => []Tracked)
<1> SUFFICES ASSUME UniqueIdentifiers PROVE StoreSpec => []Tracked
  OBVIOUS
<1>1. StoreInit => Tracked
  BY DEF StoreInit, Init, Empty, Tracked, Live
<1>2. Sound /\ Named /\ Tracked /\ [StoreNext]_vars => Tracked'
  BY TrackedStep
<1> QED
  BY <1>1, <1>2, StoreIsSound, StoreIsNamed, PTL DEF StoreSpec

(* The table's history is monotone wherever the clients number the events  *)
(* of a boot apart: a closed summary is never reopened or rewritten, and   *)
(* an active one never counts fewer events than before.                    *)
THEOREM HistoryIsMonotone == UniqueIdentifiers => (StoreSpec => SummariesOnlyGrow)
<1> SUFFICES ASSUME UniqueIdentifiers PROVE StoreSpec => SummariesOnlyGrow
  OBVIOUS
<1> DEFINE Grow == \A k \in KnownKeys :
                      /\ k \in KnownKeys'
                      /\ Latest(k)'.count >= Latest(k).count
                      /\ Latest(k).closure # "Active" => Latest(k)' = Latest(k)
<1>1. Sound /\ Named /\ Tracked /\ [StoreNext]_vars => Grow
  <2> SUFFICES ASSUME Sound, Named, Tracked, [StoreNext]_vars, NEW k \in KnownKeys
               PROVE  /\ k \in KnownKeys'
                      /\ Latest(k)'.count >= Latest(k).count
                      /\ Latest(k).closure # "Active" => Latest(k)' = Latest(k)
    OBVIOUS
  <2>1. Latest(k).count \in Int
    BY KeysWereIssued, IntegerAssumption DEF CoalescedSystemEvent, Integers64
  <2>2. CASE PersistSystemEventSummary
    <3>1. PICK w \in work :
            /\ KnownKeys' = KnownKeys \cup {RecordKey(w)}
            /\ \A j \in KnownKeys' : Latest(j)' = IF j = RecordKey(w) THEN w ELSE Latest(j)
      BY <2>2, PersistTable
    <3>2. CASE k = RecordKey(w)
      <4>1. w \in Live /\ w \in CoalescedSystemEvent
        BY DEF Live, Sound, TypeOK
      <4>2. Latest(k).closure = "Active" /\ Latest(k).count <= w.count
        BY <3>2, <4>1 DEF Tracked
      <4>3. w.count \in Int
        BY <4>1, IntegerAssumption DEF CoalescedSystemEvent, Integers64
      <4>4. Latest(k)' = w /\ k \in KnownKeys'
        BY <3>1, <3>2
      <4> QED
        BY <2>1, <4>2, <4>3, <4>4
    <3>3. CASE k # RecordKey(w)
      BY <2>1, <3>1, <3>3
    <3> QED
      BY <3>2, <3>3
  <2>3. CASE ~PersistSystemEventSummary
    BY <2>1, <2>3, TableKept
  <2> QED
    BY <2>2, <2>3
<1>2. Grow <=> \A k \in KnownKeys :
                  /\ k \in KnownKeys'
                  /\ Latest(k)'.count >= Latest(k).count
                  /\ Latest(k).closure # "Active" => Latest(k)' = Latest(k)
  OBVIOUS
<1> QED
  BY <1>1, <1>2, StoreIsSound, StoreIsNamed, StoreIsTracked, PTL
  DEF StoreSpec, SummariesOnlyGrow

-----------------------------------------------------------------------------
\* While the engine does not fail, an open window is written as it is or is
\* about to be.
Mirrored ==
    ~faulted =>
        \A s \in {active[i] : i \in DOMAIN active} :
            \/ s \in work
            \/ RecordKey(s) \in KnownKeys /\ Latest(RecordKey(s)) = s

LEMMA MirroredStep ==
  ASSUME UniqueIdentifiers, Sound, Named, Tracked, Mirrored, [StoreNext]_vars
  PROVE  Mirrored'
<1> SUFFICES ASSUME ~faulted', NEW s, NEW i \in DOMAIN active', s = active'[i]
             PROVE  \/ s \in work'
                    \/ RecordKey(s) \in KnownKeys' /\ Latest(RecordKey(s))' = s
  BY DEF Mirrored
<1>1. active' # Empty
  BY DEF Empty
<1>2. ~faulted
  <2>1. \/ UNCHANGED faulted \/ active' = Empty \/ faulted'
    BY DEF StoreNext, RecordSystemEvent, RefuseSystemEvent, FlushSystemEvents, Stop, Begin,
     PersistSystemEventSummary, Retract, AcceptSystemEvent, FinishFlush, FinishStop,
     EngineFault, Crash, Open, Forget, FinishOpen, vars
  <2> QED
    BY <1>1, <2>1
<1>3. CASE Begins
  <2>1. PICK turn, c : Follows(turn, c)
    BY <1>3, BeginFollows
  <2>2. CASE s \in work'
    BY <2>2
  <2>3. CASE i \in DOMAIN active /\ s = active[i]
    <3>1. /\ KnownKeys' = KnownKeys /\ \A k \in KnownKeys : Latest(k)' = Latest(k)
          /\ work = {}
      BY <1>3, BeginFollows DEF durable, KnownKeys, Latest
    <3>2. RecordKey(s) \in KnownKeys /\ Latest(RecordKey(s)) = s
      BY <1>2, <2>3, <3>1 DEF Mirrored
    <3> QED
      BY <3>1, <3>2
  <2> QED
    BY <2>1, <2>2, <2>3 DEF Follows
<1>4. CASE PersistSystemEventSummary
  <2>1. PICK w \in work :
          /\ work' = work \ {w}
          /\ KnownKeys' = KnownKeys \cup {RecordKey(w)}
          /\ \A k \in KnownKeys' : Latest(k)' = IF k = RecordKey(w) THEN w ELSE Latest(k)
          /\ active' = active
    BY <1>4, PersistTable
  <2>2. s \in Live /\ w \in Live
    BY <2>1 DEF Live
  <2>3. CASE RecordKey(s) = RecordKey(w)
    <3>1. s = w
      BY <2>2, <2>3 DEF Tracked
    <3> QED
      BY <2>1, <3>1
  <2>4. CASE RecordKey(s) # RecordKey(w)
    <3>1. s \in work \/ (RecordKey(s) \in KnownKeys /\ Latest(RecordKey(s)) = s)
      BY <1>2, <2>1 DEF Mirrored
    <3>2. s # w
      BY <2>4
    <3> QED
      BY <2>1, <2>4, <3>1, <3>2
  <2> QED
    BY <2>3, <2>4
<1>5. CASE ~Begins /\ ~PersistSystemEventSummary
  <2>1. /\ KnownKeys' = KnownKeys /\ \A k \in KnownKeys : Latest(k)' = Latest(k)
        /\ active' = active
    BY <1>1, <1>5, TableKept, LiveKept
  <2>2. s \in work \/ (RecordKey(s) \in KnownKeys /\ Latest(RecordKey(s)) = s)
    BY <1>2, <2>1 DEF Mirrored
  <2>3. work' = work
    BY <1>1, <1>5 DEF StoreNext, Begins, RefuseSystemEvent, PersistSystemEventSummary, Retract,
     AcceptSystemEvent, FinishFlush, FinishStop, EngineFault, Crash, Open, Forget, FinishOpen,
     vars, control
  <2> QED
    BY <2>1, <2>2, <2>3
<1> QED
  BY <1>3, <1>4, <1>5

(* The windows in memory and the table agree between calls, as long as the *)
(* engine has not failed since the start: OpenWindowsAreWritten wherever   *)
(* the clients number the events of a boot apart.                          *)
THEOREM WindowsAreWritten == UniqueIdentifiers => (StoreSpec => []OpenWindowsAreWritten)
<1> SUFFICES ASSUME UniqueIdentifiers PROVE StoreSpec => []OpenWindowsAreWritten
  OBVIOUS
<1>1. StoreInit => Mirrored
  BY DEF StoreInit, Init, Mirrored
<1>2. Sound /\ Named /\ Tracked /\ Mirrored /\ [StoreNext]_vars => Mirrored'
  BY MirroredStep
<1>3. Sound /\ Mirrored => OpenWindowsAreWritten
  BY DEF Sound, Mirrored, OpenWindowsAreWritten
<1> QED
  BY <1>1, <1>2, <1>3, StoreIsSound, StoreIsNamed, StoreIsTracked, PTL DEF StoreSpec

-----------------------------------------------------------------------------
\* While nothing fails, a row marked Active has its window, or the summary that
\* closes it is about to be written.
Adopted ==
    /\ disruptions \in Nat
    /\ call \in {"Shutdown", "Down", "Opening"} => DOMAIN active = {}
    /\ \A w \in work : w.closure = "Active" => \E i \in DOMAIN active : active[i] = w
    /\ disruptions = 0 =>
         \A k \in KnownKeys :
            Latest(k).closure = "Active" =>
                \/ \E i \in DOMAIN active : RecordKey(active[i]) = k
                \/ \E w \in work : RecordKey(w) = k /\ w.closure # "Active"

LEMMA AdoptedStep ==
  ASSUME UniqueIdentifiers, Sound, Named, Adopted, [StoreNext]_vars
  PROVE  Adopted'
<1>1. disruptions' \in Nat /\ (disruptions' = 0 => disruptions = 0)
  BY DEF Adopted, StoreNext, RecordSystemEvent, RefuseSystemEvent, FlushSystemEvents, Stop, Begin,
     PersistSystemEventSummary, Retract, AcceptSystemEvent, FinishFlush, FinishStop,
     EngineFault, Crash, Disrupt, Open, FinishOpen, vars
<1>2. call' \in {"Shutdown", "Down", "Opening"} => DOMAIN active' = {}
  <2>1. CASE Stop
    BY <2>1, FlushTurn
  <2>2. CASE ~Stop
    BY <2>2 DEF Adopted, StoreNext, RecordSystemEvent, RefuseSystemEvent, FlushSystemEvents, Begin,
     PersistSystemEventSummary, Retract, AcceptSystemEvent, FinishFlush, FinishStop, coalescerVars,
     EngineFault, Crash, Open, Forget, Empty, FinishOpen, vars, control
  <2> QED
    BY <2>1, <2>2
<1>3. ASSUME NEW w \in work', w.closure = "Active"
      PROVE  \E i \in DOMAIN active' : active'[i] = w
  <2>1. CASE Begins
    BY <1>3, <2>1, BeginFollows DEF Follows
  <2>2. CASE ~Begins
    BY <1>3, <2>2, LiveKept DEF Adopted
  <2> QED
    BY <2>1, <2>2
<1>4. ASSUME disruptions' = 0, NEW k \in KnownKeys', Latest(k)'.closure = "Active"
      PROVE  \/ \E i \in DOMAIN active' : RecordKey(active'[i]) = k
             \/ \E w \in work' : RecordKey(w) = k /\ w.closure # "Active"
  <2>1. disruptions = 0
    BY <1>1, <1>4
  <2>2. CASE Begins
    <3>1. PICK turn, c : Follows(turn, c)
      BY <2>2, BeginFollows
    <3>2. k \in KnownKeys /\ Latest(k)' = Latest(k) /\ work = {}
      BY <1>4, <2>2, BeginFollows DEF durable, KnownKeys, Latest
    <3>3. PICK i \in DOMAIN active : RecordKey(active[i]) = k
      BY <1>4, <2>1, <3>2 DEF Adopted
    <3> QED
      BY <3>1, <3>3 DEF Follows
  <2>3. CASE PersistSystemEventSummary
    <3>1. PICK w \in work :
            /\ work' = work \ {w}
            /\ KnownKeys' = KnownKeys \cup {RecordKey(w)}
            /\ \A j \in KnownKeys' : Latest(j)' = IF j = RecordKey(w) THEN w ELSE Latest(j)
            /\ active' = active
      BY <2>3, PersistTable
    <3>2. CASE k = RecordKey(w)
      <4>1. w.closure = "Active"
        BY <1>4, <3>1, <3>2
      <4> QED
        BY <3>1, <3>2, <4>1 DEF Adopted
    <3>3. CASE k # RecordKey(w)
      <4>1. k \in KnownKeys /\ Latest(k).closure = "Active"
        BY <1>4, <3>1, <3>3
      <4>2. \/ \E i \in DOMAIN active : RecordKey(active[i]) = k
            \/ \E v \in work : RecordKey(v) = k /\ v.closure # "Active"
        BY <2>1, <4>1 DEF Adopted
      <4> QED
        BY <3>1, <3>3, <4>2
    <3> QED
      BY <3>2, <3>3
  <2>4. CASE ~Begins /\ ~PersistSystemEventSummary
    <3>1. k \in KnownKeys /\ Latest(k)' = Latest(k)
      BY <1>4, <2>4, TableKept
    <3>2. \/ \E i \in DOMAIN active : RecordKey(active[i]) = k
          \/ \E w \in work : RecordKey(w) = k /\ w.closure # "Active"
      BY <1>4, <2>1, <3>1 DEF Adopted
    <3>3. CASE active' = active /\ work' = work
      BY <3>2, <3>3
    <3>4. CASE ~(active' = active /\ work' = work)
      <4>1. CASE EngineFault \/ Crash
        BY <1>4, <2>1, <4>1 DEF EngineFault, Crash, Disrupt
      <4>2. CASE FinishStop \/ Open
        <5>1. work = {} /\ DOMAIN active = {}
          BY <4>2 DEF FinishStop, Open, Written, Sound, Adopted
        <5> QED
          BY <3>2, <5>1
      <4>3. CASE ~(EngineFault \/ Crash \/ FinishStop \/ Open)
        BY <2>4, <3>4, <4>3 DEF StoreNext, Begins, RefuseSystemEvent, Retract, AcceptSystemEvent,
           FinishFlush, FinishOpen, vars, control, coalescerVars
      <4> QED
        BY <4>1, <4>2, <4>3
    <3> QED
      BY <3>3, <3>4
  <2> QED
    BY <2>2, <2>3, <2>4
<1> QED
  BY <1>1, <1>2, <1>3, <1>4 DEF Adopted

(* A row marked Active has an open window behind it until something fails, *)
(* so a graceful stop leaves none: ActiveRowsAreOpen wherever the clients  *)
(* number the events of a boot apart.                                      *)
THEOREM NoOrphans == UniqueIdentifiers => (StoreSpec => []ActiveRowsAreOpen)
<1> SUFFICES ASSUME UniqueIdentifiers PROVE StoreSpec => []ActiveRowsAreOpen
  OBVIOUS
<1>1. StoreInit => Adopted
  BY DEF StoreInit, Init, Empty, Adopted, KnownKeys
<1>2. Sound /\ Named /\ Adopted /\ [StoreNext]_vars => Adopted'
  BY AdoptedStep
<1>3. Sound /\ Adopted => ActiveRowsAreOpen
  BY DEF Sound, Adopted, ActiveRowsAreOpen
<1> QED
  BY <1>1, <1>2, <1>3, StoreIsSound, StoreIsNamed, PTL DEF StoreSpec
-----------------------------------------------------------------------------
\* The current summary of a record call still counts an occurrence its row does
\* not, unless the counter is full.
Owing ==
    call = "Record" =>
        \A s \in update.current :
            /\ s.count >= 1
            /\ s \in work /\ RecordKey(s) \in KnownKeys =>
                  Latest(RecordKey(s)).count < s.count \/ s.count = MaxInteger

LEMMA OwingStep ==
  ASSUME UniqueIdentifiers, Sound, Named, Tracked, Owing, [StoreNext]_vars
  PROVE  Owing'
<1> SUFFICES ASSUME call' = "Record", NEW s \in update'.current
             PROVE  /\ s.count >= 1
                    /\ s \in work' /\ RecordKey(s) \in KnownKeys' =>
                          Latest(RecordKey(s))'.count < s.count \/ s.count = MaxInteger
  BY DEF Owing
<1>1. ASSUME NEW e \in Events, RecordSystemEvent(e)
      PROVE  /\ s.count >= 1
             /\ RecordKey(s) \in KnownKeys' =>
                   Latest(RecordKey(s))'.count < s.count \/ s.count = MaxInteger
  <2> DEFINE identity == ExactDuplicateIdentity(e)
  <2>1. PICK gone \in SUBSET DOMAIN active, closing, c \in CoalescedSystemEvent :
          /\ active' = [k \in (DOMAIN active \ gone) \cup {identity} |->
                          IF k = identity THEN c ELSE active[k]]
          /\ update'.current = {c}
          /\ JoinsOrOpens(c, e, gone)
    BY <1>1, RecordTurn
  <2>2. s = c /\ active'[identity] = c /\ identity \in DOMAIN active'
    BY <2>1
  <2>3. s.count >= 1
    BY <2>2, SoundStep DEF Sound, TypeOK
  <2>4. KnownKeys' = KnownKeys /\ \A k \in KnownKeys : Latest(k)' = Latest(k)
    BY <1>1 DEF RecordSystemEvent, Begin, durable, KnownKeys, Latest
  <2>5. ASSUME RecordKey(s) \in KnownKeys
        PROVE  Latest(RecordKey(s)).count < s.count \/ s.count = MaxInteger
    <3>1. RecordKey(s) \in issued
      BY <2>5, KeysWereIssued
    <3>2. ~FreshFrom(c, e)
      BY <1>1, <2>2, <3>1 DEF FreshFrom, RecordKey, RecordSystemEvent, MayBeSent
    <3>3. /\ identity \in DOMAIN active
          /\ SameOrigin(c, active[identity])
          /\ c.count > active[identity].count \/ c.count = MaxInteger
      BY <2>1, <3>2 DEF JoinsOrOpens
    <3>4. RecordKey(active[identity]) = RecordKey(s) /\ active[identity] \in Live
      BY <2>2, <3>3 DEF SameOrigin, RecordKey, Live
    <3>5. Latest(RecordKey(s)).count <= active[identity].count
      BY <2>5, <3>4 DEF Tracked
    <3>6. /\ Latest(RecordKey(s)).count \in Int /\ active[identity].count \in Int
          /\ c.count \in Int
      <4>1. Latest(RecordKey(s)) \in CoalescedSystemEvent
            /\ active[identity] \in CoalescedSystemEvent
        BY <2>5, <3>3, KeysWereIssued DEF Sound, TypeOK
      <4> QED
        BY <2>1, <4>1, IntegerAssumption DEF CoalescedSystemEvent, Integers64
    <3> QED
      BY <2>2, <3>3, <3>5, <3>6
  <2> QED
    BY <2>3, <2>4, <2>5
<1>2. CASE PersistSystemEventSummary
  <2>1. PICK w \in work :
          /\ work' = work \ {w}
          /\ KnownKeys' = KnownKeys \cup {RecordKey(w)}
          /\ \A k \in KnownKeys' : Latest(k)' = IF k = RecordKey(w) THEN w ELSE Latest(k)
    BY <1>2, PersistTable
  <2>2. call = "Record" /\ update' = update
    BY <1>2 DEF PersistSystemEventSummary, coalescerVars
  <2>3. ASSUME s \in work' PROVE RecordKey(s) # RecordKey(w)
    BY <2>1, <2>3 DEF Tracked, Live
  <2> QED
    BY <2>1, <2>2, <2>3 DEF Owing
<1>3. CASE ~Begins /\ ~PersistSystemEventSummary
  <2>1. /\ KnownKeys' = KnownKeys /\ \A k \in KnownKeys : Latest(k)' = Latest(k)
        /\ work' \subseteq work
    BY <1>3, TableKept, LiveKept
  <2>2. call = "Record" /\ update' = update
    BY <1>3 DEF StoreNext, Begins, RefuseSystemEvent, PersistSystemEventSummary, Retract,
       AcceptSystemEvent, FinishFlush, FinishStop, EngineFault, Crash, Open, FinishOpen,
       vars, control, coalescerVars
  <2> QED
    BY <2>1, <2>2 DEF Owing
<1>4. ~((\E b \in Boots : FlushSystemEvents(b)) \/ Stop)
  BY DEF FlushSystemEvents, Stop, Begin
<1> QED
  BY <1>1, <1>2, <1>3, <1>4 DEF Begins

-----------------------------------------------------------------------------
\* Counted, without the query: a row is returned to those who ask for it.
Tally(i) ==
    {o \in KnownKeys \X (1 .. MaxInteger) :
        /\ ExactDuplicateIdentity(Latest(o[1]).representative) = i
        /\ o[2] <= Latest(o[1]).count}

LEMMA TallyIsCounted ==
  ASSUME Sound, NEW i
  PROVE  Tally(i) \subseteq Counted(i)
<1> SUFFICES ASSUME NEW k \in DOMAIN rows,
                    ExactDuplicateIdentity(rows[k].representative) = i
             PROVE  rows[k] \in SystemEvents(i.boot_identifier,
                                             {SystemEventDomain(i.targeted_system_event)})
  BY DEF Tally, Counted, Latest
<1>1. rows[k].representative \in SystemEvent
  BY DEF Sound, CoalescedSystemEvent
<1>2. /\ i.boot_identifier = rows[k].representative.boot_identifier
      /\ i.targeted_system_event = rows[k].representative.targeted_system_event
  BY <1>1 DEF ExactDuplicateIdentity, SystemEvent
<1> QED
  BY <1>2 DEF SystemEvents

(* Nothing that is counted is lost by a step.                              *)
LEMMA TallyGrows ==
  ASSUME UniqueIdentifiers, Sound, Named, Tracked, [StoreNext]_vars, NEW i
  PROVE  Tally(i) \subseteq Tally(i)'
<1> SUFFICES ASSUME NEW o \in Tally(i) PROVE o \in Tally(i)'
  OBVIOUS
<1> DEFINE k == o[1]
<1>1. /\ k \in KnownKeys /\ o \in KnownKeys \X (1 .. MaxInteger)
      /\ ExactDuplicateIdentity(Latest(k).representative) = i
      /\ o[2] <= Latest(k).count
      /\ o = <<k, o[2]>> /\ o[2] \in 1 .. MaxInteger
  BY DEF Tally
<1>2. CASE PersistSystemEventSummary
  <2>1. PICK w \in work :
          /\ KnownKeys' = KnownKeys \cup {RecordKey(w)}
          /\ \A j \in KnownKeys' : Latest(j)' = IF j = RecordKey(w) THEN w ELSE Latest(j)
    BY <1>2, PersistTable
  <2>2. CASE k = RecordKey(w)
    <3>1. w \in Live /\ w \in Summaries /\ w \in CoalescedSystemEvent
      BY DEF Live, Summaries, Sound, TypeOK
    <3>2. /\ Latest(k) \in Summaries /\ Latest(k) \in CoalescedSystemEvent
          /\ RecordKey(Latest(k)) = k
      <4>1. Latest(k) \in Summaries
        BY <1>1 DEF Latest, KnownKeys, Summaries
      <4> QED
        BY <1>1, <4>1, KeysWereIssued
    <3>3. Latest(k).representative = w.representative
      BY <2>2, <3>1, <3>2 DEF Named
    <3>4. Latest(k).count <= w.count
      BY <1>1, <2>2, <3>1 DEF Tracked
    <3>5. Latest(k).count \in Int /\ w.count \in Int
      BY <3>1, <3>2, IntegerAssumption DEF CoalescedSystemEvent, Integers64
    <3>6. Latest(k)' = w /\ k \in KnownKeys'
      BY <2>1, <2>2
    <3>7. o[2] <= w.count
      BY <1>1, <3>4, <3>5, IntegerAssumption
    <3> QED
      BY <1>1, <3>3, <3>6, <3>7 DEF Tally
  <2>3. CASE k # RecordKey(w)
    <3>1. k \in KnownKeys' /\ Latest(k)' = Latest(k)
      BY <1>1, <2>1, <2>3
    <3> QED
      BY <1>1, <3>1 DEF Tally
  <2> QED
    BY <2>2, <2>3
<1>3. CASE ~PersistSystemEventSummary
  <2>1. k \in KnownKeys' /\ Latest(k)' = Latest(k)
    BY <1>1, <1>3, TableKept
  <2> QED
    BY <1>1, <2>1 DEF Tally
<1> QED
  BY <1>2, <1>3

\* Each acknowledgement has its occurrence, and so has the one a record call is
\* about to give once its current summary is written.
Accounted ==
    /\ IsFiniteSet(KnownKeys)
    /\ \A i \in Identities : accepted[i] <= Cardinality(Tally(i))
    /\ call = "Record" =>
         \A s \in update.current :
            LET i == ExactDuplicateIdentity(s.representative) IN
            s \notin work => accepted[i] + 1 <= Cardinality(Tally(i))

LEMMA TallyIsFinite ==
  ASSUME IsFiniteSet(KnownKeys), NEW i
  PROVE  IsFiniteSet(Tally(i)) /\ Cardinality(Tally(i)) \in Nat
<1>0. IsFiniteSet(1 .. MaxInteger)
  BY FS_Interval, IntegerAssumption
<1>1. IsFiniteSet(KnownKeys \X (1 .. MaxInteger))
  BY <1>0, FS_Product
<1>2. Tally(i) \in SUBSET (KnownKeys \X (1 .. MaxInteger))
  BY DEF Tally
<1>3. IsFiniteSet(Tally(i))
  BY <1>1, <1>2, FS_Subset
<1> QED
  BY <1>3, FS_CardinalityType

(* The counts never go down.                                               *)
LEMMA TallyCounts ==
  ASSUME UniqueIdentifiers, Sound, Named, Tracked, Accounted, [StoreNext]_vars, NEW i
  PROVE  /\ IsFiniteSet(KnownKeys')
         /\ IsFiniteSet(Tally(i)) /\ Cardinality(Tally(i)) \in Nat
         /\ IsFiniteSet(Tally(i)') /\ Cardinality(Tally(i)') \in Nat
         /\ Cardinality(Tally(i)) <= Cardinality(Tally(i)')
<1>1. IsFiniteSet(KnownKeys')
  <2>1. CASE PersistSystemEventSummary
    BY <2>1, PersistTable, FS_AddElement DEF Accounted
  <2>2. CASE ~PersistSystemEventSummary
    BY <2>2, TableKept DEF Accounted
  <2> QED
    BY <2>1, <2>2
<1>2. IsFiniteSet(KnownKeys' \X (1 .. MaxInteger))
  <2>1. IsFiniteSet(1 .. MaxInteger)
    BY FS_Interval, IntegerAssumption
  <2> QED
    BY <1>1, <2>1, FS_Product
<1>3. Tally(i)' \in SUBSET (KnownKeys' \X (1 .. MaxInteger))
  BY DEF Tally
<1>4. IsFiniteSet(Tally(i)') /\ Cardinality(Tally(i)') \in Nat
  BY <1>2, <1>3, FS_Subset, FS_CardinalityType
<1>5. IsFiniteSet(Tally(i)) /\ Cardinality(Tally(i)) \in Nat
  BY TallyIsFinite DEF Accounted
<1>6. Tally(i) \in SUBSET Tally(i)'
  BY TallyGrows
<1> QED
  BY <1>1, <1>4, <1>5, <1>6, FS_Subset

(* The write of the current summary makes room for its acknowledgement.    *)
LEMMA WriteCounts ==
  ASSUME UniqueIdentifiers, AcceptBound <= MaxInteger, Sound, Named, Tracked, Admitted,
         Owing, Accounted, PersistSystemEventSummary, [StoreNext]_vars,
         call = "Record", NEW s \in update.current, s \in work, s \notin work'
  PROVE  LET i == ExactDuplicateIdentity(s.representative) IN
         accepted[i] + 1 <= Cardinality(Tally(i)')
<1> DEFINE i == ExactDuplicateIdentity(s.representative)
           k == RecordKey(s)
<1>1. /\ KnownKeys' = KnownKeys \cup {k}
      /\ Latest(k)' = s
  BY PersistTable
<1>2. s \in CoalescedSystemEvent /\ s.count \in 1 .. MaxInteger
  <2>1. s \in CoalescedSystemEvent
    BY DEF Sound, TypeOK
  <2>2. s.count >= 1
    BY DEF Owing
  <2> QED
    BY <2>1, <2>2, IntegerAssumption DEF CoalescedSystemEvent, Integers64
<1>3. /\ i \in Identities /\ accepted[i] \in Nat /\ accepted[i] + 1 <= MaxInteger
      /\ accepted[i] <= Cardinality(Tally(i))
  BY StoreAssumption, IntegerAssumption DEF Admitted, Accounted
<1>4. /\ IsFiniteSet(Tally(i)) /\ Cardinality(Tally(i)) \in Nat
      /\ IsFiniteSet(Tally(i)') /\ Cardinality(Tally(i)') \in Nat
  BY TallyCounts
<1>5. ASSUME NEW n \in 1 .. MaxInteger, n <= s.count
      PROVE  <<k, n>> \in Tally(i)'
  BY <1>1, <1>5 DEF Tally
<1>6. CASE s.count = MaxInteger
  <2> DEFINE T == {k} \X (1 .. MaxInteger)
  <2>1. Cardinality(T) = MaxInteger
    <3>1. IsFiniteSet({k}) /\ Cardinality({k}) = 1
      BY FS_Singleton
    <3>2. IsFiniteSet(1 .. MaxInteger) /\ Cardinality(1 .. MaxInteger) = MaxInteger
      BY FS_Interval, IntegerAssumption
    <3>3. Cardinality(T) = Cardinality({k}) * Cardinality(1 .. MaxInteger)
      BY <3>1, <3>2, FS_Product
    <3>4. 1 * MaxInteger = MaxInteger
      BY IntegerAssumption
    <3> QED
      BY <3>1, <3>2, <3>3, <3>4
  <2>2. T \in SUBSET Tally(i)'
    BY <1>5, <1>6
  <2>3. MaxInteger <= Cardinality(Tally(i)')
    BY <1>4, <2>1, <2>2, FS_Subset
  <2> QED
    BY <1>3, <1>4, <2>3, IntegerAssumption
<1>7. CASE s.count # MaxInteger
  <2> DEFINE o == <<k, s.count>>
  <2>1. o \notin Tally(i)
    <3>1. CASE k \in KnownKeys
      <4>1. Latest(k).count < s.count
        BY <1>7, <3>1 DEF Owing
      <4>2. Latest(k).count \in Int
        BY <3>1, KeysWereIssued, IntegerAssumption DEF CoalescedSystemEvent, Integers64
      <4> QED
        BY <1>2, <4>1, <4>2 DEF Tally
    <3>2. CASE k \notin KnownKeys
      BY <3>2 DEF Tally
    <3> QED
      BY <3>1, <3>2
  <2>2. o \in Tally(i)'
    BY <1>2, <1>5
  <2>3. Tally(i) \cup {o} \in SUBSET Tally(i)'
    BY <2>2, TallyGrows
  <2>4. Cardinality(Tally(i) \cup {o}) = Cardinality(Tally(i)) + 1
    BY <1>4, <2>1, FS_AddElement
  <2>5. Cardinality(Tally(i)) + 1 <= Cardinality(Tally(i)')
    BY <1>4, <2>3, <2>4, FS_Subset
  <2> QED
    BY <1>3, <1>4, <2>5
<1> QED
  BY <1>6, <1>7

LEMMA AccountedStep ==
  ASSUME UniqueIdentifiers, AcceptBound <= MaxInteger, Sound, Named, Tracked, Admitted,
         Owing, Accounted, [StoreNext]_vars
  PROVE  Accounted'
<1>1. IsFiniteSet(KnownKeys')
  BY TallyCounts
<1>2. ASSUME NEW i
      PROVE  /\ Cardinality(Tally(i)) \in Nat /\ Cardinality(Tally(i)') \in Nat
             /\ Cardinality(Tally(i)) <= Cardinality(Tally(i)')
  BY TallyCounts
<1>3. \A i \in Identities : accepted[i] \in Nat
  BY DEF Admitted
<1>4. CASE AcceptSystemEvent
  <2>1. PICK s \in update.current :
          accepted' = [accepted EXCEPT ![ExactDuplicateIdentity(s.representative)] = @ + 1]
    BY <1>4 DEF AcceptSystemEvent
  <2>2. call = "Record" /\ s \notin work /\ call' # "Record"
    BY <1>4 DEF AcceptSystemEvent, Written
  <2>3. ASSUME NEW i \in Identities PROVE accepted'[i] <= Cardinality(Tally(i)')
    <3>1. CASE i = ExactDuplicateIdentity(s.representative)
      <4>1. accepted'[i] = accepted[i] + 1
        BY <2>1, <3>1 DEF Admitted
      <4>2. accepted[i] + 1 <= Cardinality(Tally(i))
        BY <2>2, <3>1 DEF Accounted
      <4> QED
        BY <1>2, <1>3, <4>1, <4>2
    <3>2. CASE i # ExactDuplicateIdentity(s.representative)
      <4>1. accepted'[i] = accepted[i] /\ accepted[i] <= Cardinality(Tally(i))
        BY <2>1, <3>2 DEF Admitted, Accounted
      <4> QED
        BY <1>2, <1>3, <4>1
    <3> QED
      BY <3>1, <3>2
  <2> QED
    BY <1>1, <2>2, <2>3 DEF Accounted
<1>5. CASE ~AcceptSystemEvent
  <2>1. accepted' = accepted
    BY <1>5 DEF StoreNext, RecordSystemEvent, RefuseSystemEvent, FlushSystemEvents, Stop,
       PersistSystemEventSummary, Retract, FinishFlush, FinishStop, EngineFault, Crash, Open,
       FinishOpen, vars, history
  <2>2. ASSUME NEW i \in Identities PROVE accepted'[i] <= Cardinality(Tally(i)')
    <3>1. accepted[i] <= Cardinality(Tally(i))
      BY DEF Accounted
    <3> QED
      BY <1>2, <1>3, <2>1, <3>1
  <2>3. ASSUME call' = "Record", NEW s \in update'.current, s \notin work',
               NEW i, i = ExactDuplicateIdentity(s.representative)
        PROVE  accepted'[i] + 1 <= Cardinality(Tally(i)')
    <3>1. ~Begins
      BY <2>3 DEF Begins, RecordSystemEvent, FlushSystemEvents, Stop, Begin
    <3>2. call = "Record" /\ update' = update
      BY <1>5, <2>3, <3>1 DEF StoreNext, Begins, RefuseSystemEvent, PersistSystemEventSummary,
         Retract, FinishFlush, FinishStop, EngineFault, Crash, Open, FinishOpen, vars, control,
         coalescerVars
    <3>3. i \in Identities /\ accepted[i] \in Nat
      BY <2>3, <3>2 DEF Admitted
    <3>4. CASE s \notin work
      <4>1. accepted[i] + 1 <= Cardinality(Tally(i))
        BY <2>3, <3>2, <3>4 DEF Accounted
      <4> QED
        BY <1>2, <2>1, <3>3, <4>1
    <3>5. CASE s \in work
      <4>1. PersistSystemEventSummary
        BY <1>5, <2>3, <3>1, <3>2, <3>5 DEF StoreNext, Begins, RefuseSystemEvent, Retract,
           FinishFlush, FinishStop, EngineFault, Crash, Open, FinishOpen, vars, control
      <4> QED
        BY <2>1, <2>3, <3>2, <3>5, <4>1, WriteCounts
    <3> QED
      BY <3>4, <3>5
  <2> QED
    BY <1>1, <2>2, <2>3 DEF Accounted
<1> QED
  BY <1>4, <1>5

(* What was acknowledged is counted, through crashes and engine failures,  *)
(* wherever the clients number the events of a boot apart and no identity  *)
(* has more acknowledgements than the width of a counter can tell.         *)
THEOREM AcknowledgedAreCounted ==
  UniqueIdentifiers /\ AcceptBound <= MaxInteger => (StoreSpec => []AcknowledgedIsCounted)
<1> SUFFICES ASSUME UniqueIdentifiers, AcceptBound <= MaxInteger
             PROVE  StoreSpec => []AcknowledgedIsCounted
  OBVIOUS
<1>1. StoreInit => Admitted /\ Owing /\ Accounted
  <2> SUFFICES ASSUME StoreInit PROVE Admitted /\ Owing /\ Accounted
    OBVIOUS
  <2>1. KnownKeys = {} /\ call = "Idle" /\ \A i \in Identities : accepted[i] = 0
    BY DEF StoreInit, Empty, KnownKeys
  <2>2. IsFiniteSet(KnownKeys)
    BY <2>1, FS_EmptySet
  <2>3. \A i \in Identities : accepted[i] <= Cardinality(Tally(i))
    BY <2>1, <2>2, TallyIsFinite
  <2>4. Admitted
    BY <2>1, StoreAssumption DEF StoreInit, Admitted
  <2> QED
    BY <2>1, <2>2, <2>3, <2>4 DEF Owing, Accounted
<1>2. Sound /\ Named /\ Tracked /\ Admitted /\ Owing /\ Accounted /\ [StoreNext]_vars
        => Admitted' /\ Owing' /\ Accounted'
  BY AdmittedStep, OwingStep, AccountedStep
<1>3. Sound /\ Accounted => AcknowledgedIsCounted
  <2> SUFFICES ASSUME Sound, Accounted, NEW i \in Identities
               PROVE  accepted[i] <= Cardinality(Counted(i))
    BY DEF AcknowledgedIsCounted
  <2>1. Counted(i) = Tally(i)
    BY TallyIsCounted DEF Counted, Tally
  <2> QED
    BY <2>1 DEF Accounted
<1> QED
  BY <1>1, <1>2, <1>3, StoreIsSound, StoreIsNamed, StoreIsTracked, PTL DEF StoreSpec

-----------------------------------------------------------------------------
(* What the store does to its coalescer is what the coalescer does alone,  *)
(* or the end of its process.                                              *)
LEMMA CoalescerInStore ==
  ASSUME [StoreNext]_vars
  PROVE  [Next]_coalescerVars \/ Forget
<1>1. ASSUME NEW e \in Events, RecordSystemEvent(e) PROVE Next
  BY <1>1 DEF RecordSystemEvent, Next
<1>2. ASSUME NEW b \in Boots, FlushSystemEvents(b) PROVE Next
  BY <1>2 DEF FlushSystemEvents, Next
<1>3. ASSUME Stop PROVE Next
  BY <1>3 DEF Stop, Next
<1>4. CASE \/ \E e \in Events : RefuseSystemEvent(e)
           \/ PersistSystemEventSummary \/ Retract \/ AcceptSystemEvent
           \/ FinishFlush \/ EngineFault \/ FinishOpen \/ UNCHANGED vars
  BY <1>4 DEF RefuseSystemEvent, PersistSystemEventSummary, Retract, AcceptSystemEvent,
     FinishFlush, EngineFault, FinishOpen, vars
<1>5. CASE FinishStop \/ Crash \/ Open
  BY <1>5 DEF FinishStop, Crash, Open
<1> QED
  BY <1>1, <1>2, <1>3, <1>4, <1>5 DEF StoreNext

LEMMA WindowsInStore ==
  StoreSpec => [](FiniteBound /\ WindowSpan /\ NoOverdueWindow)
<1> DEFINE Windows == FiniteBound /\ WindowSpan /\ NoOverdueWindow
<1>1. ASSUME DOMAIN active = {}, update.current = {} PROVE Windows
  BY <1>1, FS_EmptySet, PolicyAssumption DEF FiniteBound, ActiveBounded, WindowSpan, NoOverdueWindow
<1>2. StoreInit => Windows
  BY <1>1 DEF StoreInit, Init
<1>3. ASSUME Forget PROVE Windows'
  <2>1. DOMAIN active' = {} /\ update'.current = {}
    BY <1>3 DEF Forget, Empty
  <2> QED
    BY <2>1, FS_EmptySet, PolicyAssumption
    DEF FiniteBound, ActiveBounded, WindowSpan, NoOverdueWindow
<1>4. Sound /\ Sound' /\ Windows /\ [StoreNext]_vars => Windows'
  <2> SUFFICES ASSUME Sound, Sound', Windows, [StoreNext]_vars PROVE Windows'
    OBVIOUS
  <2>1. CASE [Next]_coalescerVars
    BY <2>1, BoundStep, SpanStep, OverdueStep DEF Sound
  <2> QED
    BY <1>3, <2>1, CoalescerInStore
<1> QED
  BY <1>2, <1>4, StoreIsSound, PTL DEF StoreSpec

(* What holds of the coalescer alone holds of it in the store, through     *)
(* failed commits and deaths of the process: its table is bounded, no      *)
(* window spans the interval, and none is left overdue by an event of its  *)
(* boot.                                                                   *)
THEOREM StoreKeepsWindows == StoreSpec => [](ActiveBounded /\ WindowSpan /\ NoOverdueWindow)
<1>1. FiniteBound => ActiveBounded
  BY DEF FiniteBound
<1> QED
  BY <1>1, WindowsInStore, PTL

(* So do the properties of its calls: the store closes a window by age     *)
(* only for an event of its boot, and evicts one only from a full table.   *)
THEOREM StoreClosesWindows == StoreSpec => IntervalWithinBoot /\ EvictionIsLastResort
<1>1. Sound /\ FiniteBound /\ [StoreNext]_vars
        => [ClosesOwnBoot]_coalescerVars /\ [EvictsLast]_coalescerVars
  <2> SUFFICES ASSUME Sound, FiniteBound, [StoreNext]_vars
               PROVE  [ClosesOwnBoot]_coalescerVars /\ [EvictsLast]_coalescerVars
    OBVIOUS
  <2>1. CASE [Next]_coalescerVars
    BY <2>1, BootStep, EvictionStep DEF Sound
  <2>2. CASE Forget
    <3>1. update'.closed = {}
      BY <2>2 DEF Forget
    <3>2. ClosesOwnBoot
      BY <3>1 DEF ClosesOwnBoot
    <3>3. EvictedOf(update'.closed) = {}
      BY <3>1 DEF EvictedOf
    <3>4. EvictsLast
      BY <3>3, FS_EmptySet DEF EvictsLast
    <3> QED
      BY <3>2, <3>4
  <2> QED
    BY <2>1, <2>2, CoalescerInStore
<1> QED
  BY <1>1, StoreIsSound, WindowsInStore, PTL
  DEF StoreSpec, IntervalWithinBoot, ClosesOwnBoot, EvictionIsLastResort, EvictsLast, EvictedOf

-----------------------------------------------------------------------------
\* A call is made of finitely many commits, and a record call has the summary
\* it will acknowledge.
FiniteWork ==
    /\ IsFiniteSet(work)
    /\ call = "Record" => update.current # {}

(* Finitely many windows turn into finitely many summaries.                *)
LEMMA TurnedIsFinite ==
  ASSUME NEW gone, IsFiniteSet(gone), NEW closing
  PROVE  IsFiniteSet(Turned(gone, closing))
<1> DEFINE f == [i \in gone |-> Close(active[i], closing[i])]
<1>1. f \in Surjection(gone, Turned(gone, closing))
  BY DEF Surjection, Turned
<1> HIDE DEF f
<1> QED
  BY <1>1, FS_Surjection

LEMMA FiniteWorkStep ==
  ASSUME Sound, FiniteBound, FiniteWork, [StoreNext]_vars
  PROVE  FiniteWork'
<1>0. \A gone \in SUBSET DOMAIN active : IsFiniteSet(gone)
  BY FS_Subset DEF FiniteBound
<1>1. ASSUME NEW e \in Events, RecordSystemEvent(e) PROVE FiniteWork'
  <2>1. PICK gone \in SUBSET DOMAIN active :
          \E closing \in [gone -> CoalescingClosures \ {"Active"}], c \in CoalescedSystemEvent :
             work' = Turned(gone, closing) \cup {c} /\ update'.current = {c}
    BY <1>1, RecordTurn
  <2>2. PICK closing \in [gone -> CoalescingClosures \ {"Active"}], c \in CoalescedSystemEvent :
          work' = Turned(gone, closing) \cup {c} /\ update'.current = {c}
    BY <2>1
  <2>3. IsFiniteSet(work')
    BY <1>0, <2>2, TurnedIsFinite, FS_AddElement
  <2> QED
    BY <2>2, <2>3 DEF FiniteWork
<1>2. CASE (\E b \in Boots : FlushSystemEvents(b)) \/ Stop
  <2>1. PICK gone \in SUBSET DOMAIN active :
          \E closing \in [gone -> CoalescingClosures \ {"Active"}] : work' = Turned(gone, closing)
    BY <1>2, FlushTurn
  <2>2. IsFiniteSet(work')
    BY <1>0, <2>1, TurnedIsFinite
  <2>3. call' # "Record"
    BY <1>2 DEF FlushSystemEvents, Stop, Begin
  <2> QED
    BY <2>2, <2>3 DEF FiniteWork
<1>3. ASSUME work' \subseteq work,
             (call' = call /\ update' = update) \/ call' # "Record"
      PROVE  FiniteWork'
  BY <1>3, FS_Subset DEF FiniteWork
<1>4. CASE \/ \E e \in Events : RefuseSystemEvent(e)
           \/ PersistSystemEventSummary \/ Retract \/ UNCHANGED vars
  <2>1. work' \subseteq work /\ call' = call /\ update' = update
    BY <1>4 DEF RefuseSystemEvent, PersistSystemEventSummary, Retract, vars, control, coalescerVars
  <2> QED
    BY <1>3, <2>1
<1>5. CASE AcceptSystemEvent \/ FinishFlush \/ FinishStop \/ Crash \/ Open \/ FinishOpen
  <2>1. work' \subseteq work /\ call' # "Record"
    BY <1>5 DEF AcceptSystemEvent, FinishFlush, FinishStop, Crash, Open, FinishOpen
  <2> QED
    BY <1>3, <2>1
<1>6. CASE EngineFault
  <2>1. work' \subseteq work /\ call' # "Record"
    BY <1>6 DEF EngineFault
  <2> QED
    BY <1>3, <2>1
<1> QED
  BY <1>1, <1>2, <1>4, <1>5, <1>6 DEF StoreNext

LEMMA WorkIsFinite == StoreSpec => []FiniteWork
<1>1. StoreInit => FiniteWork
  BY FS_EmptySet DEF StoreInit, FiniteWork
<1> QED
  BY <1>1, FiniteWorkStep, StoreIsSound, WindowsInStore, PTL DEF StoreSpec

Busy == call \notin {"Idle", "Down"}

\* How many steps a call can still take: a summary to write may add a row and
\* set off a reclaim, a row may be retracted, and the call ends once.
StepsLeft ==
    3 * Cardinality(work) + Cardinality(DOMAIN rows)
      + (IF reclaiming THEN 1 ELSE 0) + (IF Busy THEN 1 ELSE 0)

LEMMA StepsLeftType ==
  ASSUME Settled, FiniteWork
  PROVE  /\ Cardinality(work) \in Nat /\ Cardinality(DOMAIN rows) \in Nat
         /\ StepsLeft \in Nat
<1>1. Cardinality(work) \in Nat /\ Cardinality(DOMAIN rows) \in Nat
  BY FS_CardinalityType DEF Settled, FiniteWork
<1> QED
  BY <1>1 DEF StepsLeft

LEMMA BusyStep ==
  ASSUME Sound, Settled, Settled', FiniteWork, FiniteWork', StoreNext, Busy
  PROVE  StepsLeft' < StepsLeft
<1>0. /\ Cardinality(work) \in Nat /\ Cardinality(DOMAIN rows) \in Nat
      /\ Cardinality(work') \in Nat /\ Cardinality(DOMAIN rows') \in Nat
  BY StepsLeftType, FS_CardinalityType DEF Settled, FiniteWork
<1>1. CASE PersistSystemEventSummary
  <2>1. PICK s \in work : /\ DOMAIN rows' = DOMAIN rows \cup {RecordKey(s)}
                          /\ work' = work \ {s}
    BY <1>1 DEF PersistSystemEventSummary, NextToWrite
  <2>2. Cardinality(work') = Cardinality(work) - 1
    BY <2>1, FS_RemoveElement DEF FiniteWork
  <2>3. Cardinality(DOMAIN rows') <= Cardinality(DOMAIN rows) + 1
    BY <1>0, <2>1, FS_AddElement DEF Settled
  <2>4. Busy'
    BY <1>1 DEF PersistSystemEventSummary, Busy
  <2> QED
    BY <1>0, <2>2, <2>3, <2>4 DEF StepsLeft
<1>2. CASE Retract
  <2>1. PICK x \in DOMAIN rows : DOMAIN rows' = DOMAIN rows \ {x}
    BY <1>2 DEF Retract, OldestRows
  <2>2. Cardinality(DOMAIN rows') = Cardinality(DOMAIN rows) - 1
    BY <2>1, FS_RemoveElement DEF Settled
  <2>3. reclaiming /\ work' = work /\ Busy'
    BY <1>2 DEF Retract, Busy
  <2> QED
    BY <1>0, <2>2, <2>3 DEF StepsLeft
<1>3. CASE AcceptSystemEvent \/ FinishFlush \/ FinishStop \/ FinishOpen
  <2>1. ~Busy' /\ work' = work /\ rows' = rows /\ reclaiming' = FALSE
    BY <1>3 DEF AcceptSystemEvent, FinishFlush, FinishStop, FinishOpen, Busy, durable
  <2> QED
    BY <1>0, <2>1 DEF StepsLeft
<1>4. CASE EngineFault
  <2>1. rows' = rows /\ reclaiming' = FALSE
    BY <1>4 DEF EngineFault, durable
  <2>2. CASE ~Busy'
    <3>1. work' \subseteq work
      BY <1>4 DEF EngineFault
    <3>2. Cardinality(work') <= Cardinality(work)
      BY <3>1, FS_Subset DEF FiniteWork
    <3> QED
      BY <1>0, <2>1, <2>2, <3>2 DEF StepsLeft
  <2>3. CASE Busy'
    <3>1. \/ reclaiming /\ work' = work
          \/ \E s \in work : work' = work \ {s}
      BY <1>4, <2>3 DEF EngineFault, Busy, NextToWrite
    <3>2. CASE reclaiming /\ work' = work
      BY <1>0, <2>1, <2>3, <3>2 DEF StepsLeft
    <3>3. ASSUME NEW s \in work, work' = work \ {s} PROVE StepsLeft' < StepsLeft
      <4>1. Cardinality(work') = Cardinality(work) - 1
        BY <3>3, FS_RemoveElement DEF FiniteWork
      <4> QED
        BY <1>0, <2>1, <2>3, <4>1 DEF StepsLeft
    <3> QED
      BY <3>1, <3>2, <3>3
  <2> QED
    BY <2>2, <2>3
<1>5. CASE Crash
  <2>1. work' = {} /\ rows' = rows /\ ~Busy' /\ reclaiming' = FALSE
    BY <1>5 DEF Crash, durable, Busy
  <2>2. Cardinality(work') = 0
    BY <2>1, FS_EmptySet
  <2> QED
    BY <1>0, <2>1, <2>2 DEF StepsLeft
<1>6. /\ ~ \E e \in Events : RecordSystemEvent(e) \/ RefuseSystemEvent(e)
      /\ ~ \E b \in Boots : FlushSystemEvents(b)
      /\ ~Stop /\ ~Open
  BY DEF RecordSystemEvent, RefuseSystemEvent, FlushSystemEvents, Stop, Begin, Open, Busy
<1> QED
  BY <1>1, <1>2, <1>3, <1>4, <1>5, <1>6 DEF StoreNext

(* Retention finds a row to take in every table that has one.              *)
LEMMA OldestRowExists ==
  ASSUME Sound, DOMAIN rows # {}
  PROVE  OldestRows # {}
<1> DEFINE Id(k) == rows[k].representative.event_identifier
<1>1. \A k \in DOMAIN rows : rows[k].first_seen \in Integers64 /\ Id(k) \in Integers64
  BY DEF Sound, CoalescedSystemEvent, SystemEvent
<1> DEFINE Instants == {rows[k].first_seen : k \in DOMAIN rows}
<1>2. PICK l \in Instants : \A m \in Instants : l <= m
  <2>1. Instants \in SUBSET Integers64 /\ Instants # {}
    BY <1>1
  <2> HIDE DEF Instants
  <2> QED
    BY <2>1, LeastInteger
<1> DEFINE First == {k \in DOMAIN rows : rows[k].first_seen = l}
           Identifiers == {Id(k) : k \in First}
<1>3. PICK i \in Identifiers : \A m \in Identifiers : i <= m
  <2>1. Identifiers \in SUBSET Integers64 /\ Identifiers # {}
    BY <1>1, <1>2
  <2> HIDE DEF Identifiers
  <2> QED
    BY <2>1, LeastInteger
<1>4. PICK k \in First : Id(k) = i
  BY <1>3
<1>5. ASSUME NEW j \in DOMAIN rows PROVE OlderOrSame(rows[k], rows[j])
  <2>1. l <= rows[j].first_seen /\ rows[k].first_seen = l
    BY <1>2, <1>4
  <2>2. l \in Int /\ rows[j].first_seen \in Int
    BY <1>1, <1>4, <2>1, IntegerAssumption DEF Integers64
  <2>3. CASE rows[j].first_seen = l
    <3>1. Id(k) <= Id(j)
      BY <1>3, <1>4, <2>3
    <3> QED
      BY <2>1, <2>3, <3>1 DEF OlderOrSame
  <2>4. CASE l < rows[j].first_seen
    BY <2>1, <2>4 DEF OlderOrSame
  <2> QED
    BY <2>1, <2>2, <2>3, <2>4
<1> QED
  BY <1>4, <1>5 DEF OldestRows

(* Some summary is the next to write as long as there is one.              *)
LEMMA NextExists ==
  ASSUME work # {}
  PROVE  NextToWrite # {}
<1>1. \A s \in work : Rank(s) \in 0 .. 2
  BY DEF Rank
<1>2. CASE \E s \in work : Rank(s) = 0
  BY <1>1, <1>2 DEF NextToWrite
<1>3. CASE (~ \E s \in work : Rank(s) = 0) /\ \E s \in work : Rank(s) = 1
  BY <1>1, <1>3 DEF NextToWrite
<1>4. CASE \A s \in work : Rank(s) = 2
  BY <1>1, <1>4 DEF NextToWrite
<1> QED
  BY <1>1, <1>2, <1>3, <1>4

\* What the running call needs for its next step: a row to take, a summary to
\* write, or nothing left and an answer to give.
CanGoOn ==
    \/ reclaiming /\ Excess /\ OldestRows # {}
    \/ ReclaimOver /\ NextToWrite # {}
    \/ /\ Written
       /\ call \in {"Record", "Flush", "Shutdown", "Opening"}
       /\ call = "Record" => update.current # {}

(* No call of the store runs for ever or gets stuck: each of its steps     *)
(* leaves fewer to come, a failure or the death of the process included,   *)
(* and until it ends it has a step to take (store.rs:345-379, 412-463).    *)
THEOREM CallsTerminate ==
  StoreSpec => /\ [](StepsLeft \in Nat /\ (Busy => CanGoOn))
               /\ [][Busy => StepsLeft' < StepsLeft]_vars
<1>1. Settled /\ FiniteWork => StepsLeft \in Nat
  BY StepsLeftType
<1>2. Sound /\ FiniteWork => (Busy => CanGoOn)
  <2> SUFFICES ASSUME Sound, FiniteWork, Busy PROVE CanGoOn
    OBVIOUS
  <2>1. CASE reclaiming /\ Excess
    <3>1. DOMAIN rows # {}
      BY <2>1, FS_EmptySet, StoreAssumption DEF Excess
    <3> QED
      BY <2>1, <3>1, OldestRowExists DEF CanGoOn
  <2>2. CASE ~(reclaiming /\ Excess) /\ work # {}
    BY <2>2, NextExists DEF CanGoOn, ReclaimOver
  <2>3. CASE ~(reclaiming /\ Excess) /\ work = {}
    BY <2>3 DEF CanGoOn, ReclaimOver, Written, Busy, Sound, FiniteWork
  <2> QED
    BY <2>1, <2>2, <2>3
<1>3. Sound /\ Settled /\ Settled' /\ FiniteWork /\ FiniteWork' /\ [StoreNext]_vars
        => [Busy => StepsLeft' < StepsLeft]_vars
  BY BusyStep
<1> QED
  BY <1>1, <1>2, <1>3, StoreIsSound, StoreIsSettled, WorkIsFinite, PTL DEF StoreSpec
=============================================================================
