------------------------------ MODULE Contract ------------------------------
(***************************************************************************)
(* introspect's reading of the contract types (src/contract.rs): which     *)
(* system events are admitted, when two of them are exact duplicates, and  *)
(* what a coalesced summary means.  Pure operators, no state.              *)
(*                                                                         *)
(* The fields of an event that no decision looks at one by one (severity,  *)
(* extractor and policy revision, unit names) are part of the observation, *)
(* an opaque value; only "Unclassified" is told apart.                     *)
(***************************************************************************)
EXTENDS Integers

CONSTANTS
    Boots,          \* boot identifiers
    Observations,   \* what a targeted event can say, apart from "Unclassified"
    MinInteger,     \* i64::MIN
    MaxInteger      \* i64::MAX

ASSUME IntegerAssumption ==
    /\ MinInteger \in Int /\ MaxInteger \in Int
    /\ MinInteger < 0 /\ MaxInteger > 1

Integers64 == MinInteger .. MaxInteger

SaturatingAdd(a, b) ==
    IF a + b > MaxInteger THEN MaxInteger
    ELSE IF a + b < MinInteger THEN MinInteger ELSE a + b

SaturatingSub(a, b) == SaturatingAdd(a, -b)

-----------------------------------------------------------------------------
EventSources == {"Journal", "BusConnection", "Application"}

ProvenanceTrusts == {"TrustedJournalMetadata", "TrustedConnectionMetadata",
                     "UntrustedApplicationMetadata"}

EventProvenance == [event_source : EventSources, provenance_trust : ProvenanceTrusts]

TargetedSystemEvent == [target : {"Bluetooth", "Systemd"},
                        topic  : Observations \cup {"Unclassified"}]

SystemEvent ==
    [event_identifier      : Integers64,
     event_instant         : Integers64,
     boot_identifier       : Boots,
     targeted_system_event : TargetedSystemEvent,
     event_provenance      : EventProvenance,
     bounded_payload       : BOOLEAN]       \* is there payload text at all

SystemEventDomain(targeted) ==
    IF targeted.target = "Bluetooth" THEN "Hardware" ELSE "ServiceControl"

IsUnclassified(targeted) == targeted.topic = "Unclassified"

\* The one trust each source can support.
SupportedTrust ==
    [s \in EventSources |->
        CASE s = "Journal"       -> "TrustedJournalMetadata"
          [] s = "BusConnection" -> "TrustedConnectionMetadata"
          [] s = "Application"   -> "UntrustedApplicationMetadata"]

ProvenanceIsConsistent(provenance) ==
    provenance.provenance_trust = SupportedTrust[provenance.event_source]

\* A mistake: the payload of unclassified input is let in.
ValidateProvenanceOnly(event) == ProvenanceIsConsistent(event.event_provenance)

ValidateSystemEvent(event) ==
    /\ ProvenanceIsConsistent(event.event_provenance)
    /\ ~(IsUnclassified(event.targeted_system_event) /\ event.bounded_payload)

-----------------------------------------------------------------------------
(* Everything the event says about what happened, without the identifier   *)
(* and the instant that say which occurrence it is.                        *)
ExactDuplicateIdentity(event) ==
    [event EXCEPT !.event_identifier = 0, !.event_instant = 0]

CoalescingClosures == {"Active", "Interval", "ExplicitFlush", "Shutdown", "Eviction"}

CoalescedSystemEvent ==
    [representative   : SystemEvent,
     count            : Integers64,
     first_seen       : Integers64,
     last_seen        : Integers64,
     suppressed_count : Integers64,
     closure          : CoalescingClosures]

\* A fresh window around its first, and so far only, event.
Coalesced(event, closure) ==
    [representative   |-> event,
     count            |-> 1,
     first_seen       |-> event.event_instant,
     last_seen        |-> event.event_instant,
     suppressed_count |-> 0,
     closure          |-> closure]
=============================================================================
