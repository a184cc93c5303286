----------------------------- MODULE Coalescer ------------------------------
(***************************************************************************)
(* The exact-duplicate coalescer (src/coalescer.rs): one open window per   *)
(* exact-duplicate identity, closed by interval, flush, shutdown or        *)
(* eviction.  One action per public mutating method; what the method       *)
(* returns is left in `update`.                                            *)
(***************************************************************************)
EXTENDS Contract, FiniteSets

CONSTANTS
    Events,               \* the system events that can arrive
    MaximumActiveKeys,    \* ExactCoalescingPolicy.maximum_active_keys
    IntervalMicroseconds  \* ExactCoalescingPolicy.interval_microseconds

ASSUME EventsAssumption == Events \subseteq SystemEvent

ASSUME PolicyAssumption ==
    /\ MaximumActiveKeys \in Nat
    /\ IntervalMicroseconds \in Integers64

VARIABLES
    active,      \* identity -> summary of its open window
    evictions,   \* how many windows eviction closed since the start
    update       \* what the last call returned: at most one current summary, the closed ones

coalescerVars == <<active, evictions, update>>

Identities == {ExactDuplicateIdentity(e) : e \in Events}

-----------------------------------------------------------------------------
Close(summary, closure) == [summary EXCEPT !.closure = closure]

\* A mistake: the two counters saturate each on its own.
RepeatedIndependently(summary, now) ==
    [summary EXCEPT !.count            = SaturatingAdd(@, 1),
                    !.suppressed_count = SaturatingAdd(@, 1),
                    !.last_seen        = now]

\* A duplicate joins the window: its instant becomes the last one seen.
Repeated(summary, now) ==
    [summary EXCEPT !.count            = SaturatingAdd(@, 1),
                    !.suppressed_count = SaturatingSub(SaturatingAdd(summary.count, 1), 1),
                    !.last_seen        = now]

\* A mistake: an evicted window is dropped without a trace.
ClosedUnlessEvicted(identities, closure) ==
    IF closure = "Eviction" THEN {} ELSE {Close(active[k], closure) : k \in identities}

Closed(identities, closure) == {Close(active[k], closure) : k \in identities}

\* Two mistakes: a whole interval is not enough; the age wraps around.
OverdueLate(summary, now) ==
    SaturatingSub(now, summary.first_seen) > IntervalMicroseconds

OverdueWrapping(summary, now) ==
    LET width == MaxInteger - MinInteger + 1
    IN  ((now - summary.first_seen - MinInteger) % width) + MinInteger >= IntervalMicroseconds

Overdue(summary, now) ==
    SaturatingSub(now, summary.first_seen) >= IntervalMicroseconds

\* A mistake: instants of two boots are compared.
ExpiredAnywhere(boot, now) == {k \in DOMAIN active : Overdue(active[k], now)}

\* The windows an event on `boot` at `now` closes by age: its own boot's only.
Expired(boot, now) ==
    {k \in DOMAIN active : /\ active[k].representative.boot_identifier = boot
                           /\ Overdue(active[k], now)}

\* A mistake: windows are evicted by the age of their first event.
NoOlderThanByFirst(s, t) == s.first_seen >= t.first_seen

\* min_by_key over (last_seen, event_identifier); the map's order breaks ties.
NoOlderThan(s, t) ==
    \/ s.last_seen > t.last_seen
    \/ /\ s.last_seen = t.last_seen
       /\ s.representative.event_identifier >= t.representative.event_identifier

Oldest(identities) ==
    {k \in identities : \A j \in identities : NoOlderThan(active[j], active[k])}

\* A mistake: the new key is not reckoned with.
EvictionsLate(open) ==
    IF Cardinality(open) > MaximumActiveKeys THEN {{k} : k \in Oldest(open)} ELSE {{}}

\* The windows a new key pushes out of the table `open`: none, or one of the oldest.
Evictions(open) ==
    IF Cardinality(open) >= MaximumActiveKeys /\ open # {}
    THEN {{k} : k \in Oldest(open)}
    ELSE {{}}

-----------------------------------------------------------------------------
Init ==
    /\ active = [k \in {} |-> {}]
    /\ evictions = 0
    /\ update = [current |-> {}, closed |-> {}]

\* ingest, when the identity still has an open window after close_expired.
Suppress(event) ==
    LET now      == event.event_instant
        expired  == Expired(event.boot_identifier, now)
        identity == ExactDuplicateIdentity(event)
        current  == Repeated(active[identity], now)
    IN  /\ identity \in DOMAIN active \ expired
        /\ active' = [k \in DOMAIN active \ expired |->
                        IF k = identity THEN current ELSE active[k]]
        /\ update' = [current |-> {current}, closed |-> Closed(expired, "Interval")]
        /\ UNCHANGED evictions

\* ingest, when the event opens a window, after making room for its key.
OpenWindow(event) ==
    LET expired  == Expired(event.boot_identifier, event.event_instant)
        identity == ExactDuplicateIdentity(event)
        current  == Coalesced(event, "Active")
    IN  /\ identity \notin DOMAIN active \ expired
        /\ \E evicted \in Evictions(DOMAIN active \ expired) :
            /\ active' = [k \in ((DOMAIN active \ expired) \ evicted) \cup {identity} |->
                            IF k = identity THEN current ELSE active[k]]
            /\ update' = [current |-> {current},
                          closed  |-> Closed(expired, "Interval")
                                        \cup Closed(evicted, "Eviction")]
            /\ evictions' = IF evicted = {} THEN evictions
                            ELSE SaturatingAdd(evictions, 1)

Ingest(event) == Suppress(event) \/ OpenWindow(event)

\* A mistake: the flushed windows are returned and stay open.
FlushIdentitiesKeeping(identities, closure) ==
    /\ update' = [current |-> {}, closed |-> Closed(identities, closure)]
    /\ UNCHANGED <<active, evictions>>

FlushIdentities(identities, closure) ==
    /\ active' = [k \in DOMAIN active \ identities |-> active[k]]
    /\ update' = [current |-> {}, closed |-> Closed(identities, closure)]
    /\ UNCHANGED evictions

OfBoot(boot) == {k \in DOMAIN active : active[k].representative.boot_identifier = boot}

FlushBoot(boot, closure) == FlushIdentities(OfBoot(boot), closure)

FlushAll(closure) == FlushIdentities(DOMAIN active, closure)

Next ==
    \/ \E e \in Events : Ingest(e)
    \/ \E b \in Boots : FlushBoot(b, "ExplicitFlush")
    \/ FlushAll("Shutdown")

Spec == Init /\ [][Next]_coalescerVars

-----------------------------------------------------------------------------
(* Every open window is kept under its representative's identity and is    *)
(* marked Active; the suppressed count is what the representative leaves   *)
(* of the count, up to saturation (coalescer.rs:79-86, contract.rs:117).   *)
TypeOK ==
    /\ DOMAIN active \subseteq Identities
    /\ \A k \in DOMAIN active :
          /\ active[k] \in CoalescedSystemEvent
          /\ ExactDuplicateIdentity(active[k].representative) = k
          /\ active[k].closure = "Active"
          /\ active[k].count >= 1
          /\ active[k].suppressed_count = active[k].count - 1
    /\ evictions \in 0 .. MaxInteger
    /\ update \in [current : SUBSET CoalescedSystemEvent,
                   closed  : SUBSET CoalescedSystemEvent]

(* "Active duplicate keys are bounded": whatever is ingested, over however *)
(* many boots, the table never holds more keys than the policy allows.  A  *)
(* policy of zero keys still holds the window just opened.                 *)
ActiveBounded ==
    Cardinality(DOMAIN active) <=
        IF MaximumActiveKeys = 0 THEN 1 ELSE MaximumActiveKeys

(* With a positive interval a window never counts an occurrence that is a  *)
(* whole interval or more after its first one (close_expired runs before   *)
(* the duplicate is looked up), even where the subtraction saturates.      *)
WindowSpan ==
    IntervalMicroseconds > 0 =>
        \A k \in DOMAIN active :
            active[k].last_seen - active[k].first_seen < IntervalMicroseconds

(* Once an event of a boot has been ingested, no window of that boot is    *)
(* older than the interval at the event's instant: one event closes every  *)
(* overdue window of its boot, not only its own identity's.                *)
NoOverdueWindow ==
    IntervalMicroseconds > 0 =>
        \A s \in update.current, k \in DOMAIN active :
            active[k].representative.boot_identifier = s.representative.boot_identifier
                => s.last_seen - active[k].first_seen < IntervalMicroseconds

(* "Interval comparison never crosses boot partitions": a window closed by *)
(* age is closed by an event of its own boot.                              *)
IntervalWithinBoot ==
    [][\A s \in update'.closed :
          s.closure = "Interval" =>
              \A c \in update'.current :
                  c.representative.boot_identifier = s.representative.boot_identifier
      ]_coalescerVars

(* Eviction is observable and a last resort: a call evicts one window at   *)
(* most, counts it, and only when the table is full after the windows      *)
(* closed by age are gone; the evicted window was seen no later than any   *)
(* window it leaves behind, whatever their boots.                          *)
EvictionIsLastResort ==
    [][LET evicted == {s \in update'.closed : s.closure = "Eviction"} IN
       /\ Cardinality(evicted) <= 1
       /\ evicted # {} =>
             /\ Cardinality(DOMAIN active') >= MaximumActiveKeys
             /\ evictions' = SaturatingAdd(evictions, 1)
             /\ \A s \in evicted, k \in DOMAIN active' :
                   \/ active'[k] \in update'.current
                   \/ active'[k].last_seen >= s.last_seen
      ]_coalescerVars
=============================================================================
