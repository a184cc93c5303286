------------------------- MODULE MCSystemEventStore -------------------------
(***************************************************************************)
(* The system-event store on three identities of two boots, a table of one *)
(* or two rows and an active set of two windows, so that intervals,        *)
(* evictions and retention all meet within four events.                    *)
(***************************************************************************)
EXTENDS SystemEventStore

CONSTANTS Occurrences   \* <<identifier, instant>> of the new boot's events

MCMinInteger == -8

MCEvent(boot, topic, at, identifier, payload) ==
    [event_identifier      |-> identifier,
     event_instant         |-> at,
     boot_identifier       |-> boot,
     targeted_system_event |-> [target |-> "Systemd", topic |-> topic],
     event_provenance      |-> [event_source     |-> "Journal",
                                provenance_trust |-> "TrustedJournalMetadata"],
     bounded_payload       |-> payload]

\* Numbered in arrival order or not, and one instant behind its number.
MCOccurrences == {<<0, 0>>, <<1, 1>>, <<1, 2>>, <<2, 0>>, <<2, 2>>}
MCFewOccurrences == {<<1, 0>>, <<2, 2>>}

\* Two identities on the new boot, one on the old, and one inadmissible event.
MCEvents ==
    {MCEvent("new", topic, o[2], o[1], FALSE) :
        topic \in {"failed", "started"}, o \in Occurrences}
    \cup {MCEvent("old", "Unclassified", 1, 1, FALSE)}
    \cup {MCEvent("new", "Unclassified", 0, 1, TRUE)}
=============================================================================
