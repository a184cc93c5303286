---------------------------- MODULE EventLedger -----------------------------
(***************************************************************************)
(* What exact coalescing promises, with windows, ages, capacities and      *)
(* boots forgotten: every occurrence of an identity is counted exactly     *)
(* once, in the open count of that identity or in its settled one, and the *)
(* settled count only grows by whole open counts.                          *)
(***************************************************************************)
EXTENDS Naturals

CONSTANTS Identities

VARIABLES observed,   \* occurrences seen so far, per identity
          open,       \* of those, counted by the open window
          settled     \* of those, counted by windows already closed

vars == <<observed, open, settled>>

Zero == [i \in Identities |-> 0]

Init == observed = Zero /\ open = Zero /\ settled = Zero

\* The open counts of the identities in `closing` are settled as they stand.
Settle(closing) ==
    settled' = [i \in Identities |-> settled[i] + IF i \in closing THEN open[i] ELSE 0]

Remaining(i, closing) == IF i \in closing THEN 0 ELSE open[i]

Observe(identity, closing) ==
    /\ Settle(closing)
    /\ observed' = [observed EXCEPT ![identity] = @ + 1]
    /\ open' = [i \in Identities |->
                  Remaining(i, closing) + IF i = identity THEN 1 ELSE 0]

Flush(closing) ==
    /\ Settle(closing)
    /\ open' = [i \in Identities |-> Remaining(i, closing)]
    /\ UNCHANGED observed

Next ==
    \E closing \in SUBSET Identities :
        \/ \E identity \in Identities : Observe(identity, closing)
        \/ Flush(closing)

Spec == Init /\ [][Next]_vars

TypeOK ==
    /\ observed \in [Identities -> Nat]
    /\ open \in [Identities -> Nat]
    /\ settled \in [Identities -> Nat]

(* No occurrence is lost and none is counted twice.                        *)
Balanced == \A i \in Identities : observed[i] = open[i] + settled[i]
=============================================================================
