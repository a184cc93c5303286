------------------------ MODULE CoalescerAccounting -------------------------
(***************************************************************************)
(* The coalescer of Coalescer.tla with two history variables: how many     *)
(* events of each identity were ingested, and how many the summaries it    *)
(* returned as closed account for.  They change nothing the coalescer does *)
(* and make it comparable with EventLedger.                                *)
(***************************************************************************)
EXTENDS Coalescer

CONSTANTS IngestBound   \* how many events of one identity a behaviour ingests

ASSUME IngestBoundAssumption == IngestBound \in Nat

VARIABLES
    seen,      \* identity -> events ingested
    settled    \* identity -> events the closed summaries count

accountingVars == <<active, evictions, update, seen, settled>>

\* The count the call's closed summaries report for an identity.
ClosedCount(i) ==
    LET summaries == {s \in update'.closed : ExactDuplicateIdentity(s.representative) = i}
    IN  IF summaries = {} THEN 0 ELSE (CHOOSE s \in summaries : TRUE).count

Settle == settled' = [i \in Identities |-> settled[i] + ClosedCount(i)]

IngestCounted(event) ==
    LET identity == ExactDuplicateIdentity(event)
    IN  /\ seen[identity] < IngestBound
        /\ Ingest(event)
        /\ seen' = [seen EXCEPT ![identity] = @ + 1]
        /\ Settle

FlushBootCounted(boot) ==
    FlushBoot(boot, "ExplicitFlush") /\ Settle /\ UNCHANGED seen

FlushAllCounted == FlushAll("Shutdown") /\ Settle /\ UNCHANGED seen

AccountingInit ==
    /\ Init
    /\ seen = [i \in Identities |-> 0]
    /\ settled = [i \in Identities |-> 0]

AccountingNext ==
    \/ \E e \in Events : IngestCounted(e)
    \/ \E b \in Boots : FlushBootCounted(b)
    \/ FlushAllCounted

AccountingSpec == AccountingInit /\ [][AccountingNext]_accountingVars

-----------------------------------------------------------------------------
OpenCount(i) == IF i \in DOMAIN active THEN active[i].count ELSE 0

AccountingTypeOK == seen \in [Identities -> Nat] /\ settled \in [Identities -> Nat]

(* Every event ingested is counted exactly once, by the open window of its *)
(* identity or by one closed summary, over any interleaving of duplicates, *)
(* intervals, evictions and flushes; past i64::MAX the saturating counter  *)
(* can only report too few (coalescer.rs:79-82).                           *)
Accounting ==
    \A i \in Identities :
        /\ OpenCount(i) + settled[i] <= seen[i]
        /\ seen[i] <= MaxInteger => OpenCount(i) + settled[i] = seen[i]

Ledger == INSTANCE EventLedger
            WITH observed <- seen,
                 open     <- [i \in Identities |-> OpenCount(i)],
                 settled  <- settled

\* An event joins a window whose counter can count no further.
CountsNoFurther ==
    \E i \in Identities :
        OpenCount(i) = MaxInteger /\ OpenCount(i)' = MaxInteger /\ seen'[i] # seen[i]

(* The coalescer implements EventLedger: its calls are ledger entries, and *)
(* no other effect on the counts exists but an event that a counter at     *)
(* i64::MAX leaves uncounted.                                              *)
ImplementsLedger == Ledger!Init /\ [][Ledger!Next \/ CountsNoFurther]_(Ledger!vars)
=============================================================================
