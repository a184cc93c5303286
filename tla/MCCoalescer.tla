---------------------------- MODULE MCCoalescer -----------------------------
(***************************************************************************)
(* Two boots, three identities and a table smaller than their number, on   *)
(* integers so few that the third event of a window saturates its counter. *)
(* The instants lie less than the interval of two, exactly it, and so far  *)
(* apart, either way, that the difference saturates.                       *)
(***************************************************************************)
EXTENDS Coalescer

CONSTANTS Instants, Identifiers

\* Six integers around zero, one more below it than above, as in two's complement.
MCMinInteger == -3
MCMaxInteger == 2

MCInstants == {MCMinInteger, MCMinInteger + 1, 0, MCMaxInteger}

MCBoots == {"old", "new"}

MCObservations == {"on", "off"}

MCEvent(boot, observation, at, identifier) ==
    [event_identifier      |-> identifier,
     event_instant         |-> at,
     boot_identifier       |-> boot,
     targeted_system_event |-> [target |-> "Bluetooth", topic |-> observation],
     event_provenance      |-> [event_source     |-> "Journal",
                                provenance_trust |-> "TrustedJournalMetadata"],
     bounded_payload       |-> FALSE]

\* Two identities on the new boot; one on the old, at the ends of the range.
MCEvents ==
    {MCEvent("new", o, at, id) : o \in MCObservations, at \in Instants, id \in Identifiers}
    \cup {MCEvent("old", "on", at, id) :
             at \in Instants \cap {MCMinInteger, MCMaxInteger}, id \in Identifiers}
=============================================================================
