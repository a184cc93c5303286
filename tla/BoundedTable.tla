---------------------------- MODULE BoundedTable ----------------------------
(***************************************************************************)
(* What every diagnostic table of the store promises, with its keys,       *)
(* callers and failures forgotten: a row is added under a key of its own   *)
(* and never rewritten, retention takes rows one at a time and only while  *)
(* the table is over its cap, and a table that is settled is within it.    *)
(***************************************************************************)
EXTENDS Naturals, FiniteSets

CONSTANTS Cap

VARIABLES table,     \* key -> row
          settled    \* does the store answer for the bound at this moment

vars == <<table, settled>>

Over == Cardinality(DOMAIN table) > Cap

Init == table = [k \in {} |-> {}] /\ settled = TRUE

Add ==
    /\ \E k \in DOMAIN table' \ DOMAIN table :
        table' = [j \in DOMAIN table \cup {k} |-> IF j = k THEN table'[k] ELSE table[j]]
    /\ settled' = FALSE

Take ==
    /\ Over
    /\ \E k \in DOMAIN table : table' = [j \in DOMAIN table \ {k} |-> table[j]]
    /\ UNCHANGED settled

Settle == ~Over /\ settled' = TRUE /\ UNCHANGED table

Doubt == settled' = FALSE /\ UNCHANGED table

Next == Add \/ Take \/ Settle \/ Doubt

Spec == Init /\ [][Next]_vars

(* A settled table is within its cap.                                      *)
Bounded == settled => ~Over
=============================================================================
