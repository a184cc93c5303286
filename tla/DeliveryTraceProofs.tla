------------------------- MODULE DeliveryTraceProofs -------------------------
(***************************************************************************)
(* Proofs about the delivery-trace table, for every set of keys, every     *)
(* cap, and any number of failures and restarts: types with the bound on   *)
(* the table's excess, the promise of BoundedTable, what retention takes   *)
(* first, and what a client is shown of a message.                         *)
(***************************************************************************)
EXTENDS DeliveryKeyProofs

Size == Cardinality(DOMAIN rows)

(* TypeOK made inductive: the table is finite, and between two calls its   *)
(* excess is that of the calls that failed.                                *)
Inv ==
    /\ TypeOK
    /\ IsFiniteSet(DOMAIN rows)
    /\ stage = "Idle" => Size <= DeliveryTraceEvents + faults

(* Asserting a row makes the table one row larger.                         *)
LEMMA RecordKeeps ==
  ASSUME Inv, NEW key \in Keys, Record(key)
  PROVE  Inv'
<1>1. /\ stage = "Idle" /\ stage' = "Reclaiming"
      /\ key \notin DOMAIN rows
      /\ trail' = Append(trail, key)
      /\ rows' = [k \in DOMAIN rows \cup {key} |-> IF k = key THEN Len(trail) + 1 ELSE rows[k]]
      /\ UNCHANGED <<faults, restarts>>
  BY DEF Record, failures
<1>2. trail \in Seq(Keys) /\ Len(trail) \in Nat
  BY DEF Inv, TypeOK
<1>3. trail' \in Seq(Keys) /\ Len(trail') = Len(trail) + 1
  BY <1>1, <1>2
<1>4. DOMAIN rows' = DOMAIN rows \cup {key}
  BY <1>1
<1>5. IsFiniteSet(DOMAIN rows') /\ Size' = Size + 1 /\ Size \in Nat
  BY <1>1, <1>4, FS_AddElement, FS_CardinalityType DEF Inv, Size
<1>6. \A k \in DOMAIN rows' : rows'[k] \in 1 .. Len(trail') /\ trail'[rows'[k]] = k
  <2> SUFFICES ASSUME NEW k \in DOMAIN rows'
               PROVE  rows'[k] \in 1 .. Len(trail') /\ trail'[rows'[k]] = k
    OBVIOUS
  <2>1. CASE k = key
    BY <1>1, <1>2, <1>3, <2>1
  <2>2. CASE k # key
    <3>1. k \in DOMAIN rows /\ rows'[k] = rows[k]
      BY <1>1, <1>4, <2>2
    <3>2. rows[k] \in 1 .. Len(trail) /\ trail[rows[k]] = k
      BY <3>1 DEF Inv, TypeOK
    <3> QED
      BY <1>1, <1>2, <1>3, <3>1, <3>2
  <2> QED
    BY <2>1, <2>2
<1>7. Size' <= DeliveryTraceEvents + 1 + faults'
  BY <1>1, <1>5, DeliveryTraceAssumption DEF Inv, TypeOK
<1> QED
  BY <1>1, <1>3, <1>4, <1>5, <1>6, <1>7 DEF Inv, TypeOK, Size

(* Retracting a row makes the table one row smaller.                       *)
LEMMA ReclaimKeeps ==
  ASSUME Inv, Reclaim
  PROVE  Inv'
<1>1. PICK key \in DOMAIN rows : rows' = [j \in DOMAIN rows \ {key} |-> rows[j]]
  BY DEF Reclaim, Victims
<1>2. stage \in {"Reclaiming", "Opening"} /\ UNCHANGED <<stage, trail, faults, restarts>>
  BY DEF Reclaim, failures
<1>3. DOMAIN rows' = DOMAIN rows \ {key} /\ \A k \in DOMAIN rows' : rows'[k] = rows[k]
  BY <1>1
<1>4. IsFiniteSet(DOMAIN rows') /\ Size' = Size - 1 /\ Size \in Nat
  BY <1>1, <1>3, FS_RemoveElement, FS_CardinalityType DEF Inv, Size
<1>5. Size' <= DeliveryTraceEvents + 1 + faults'
  BY <1>2, <1>4, DeliveryTraceAssumption DEF Inv, TypeOK, Size
<1> QED
  BY <1>2, <1>3, <1>4, <1>5 DEF Inv, TypeOK, Size

(* A step that leaves the table alone.                                     *)
LEMMA OthersKeep ==
  ASSUME Inv, Finish \/ ReclaimFails \/ Crash \/ Open \/ UNCHANGED vars
  PROVE  Inv'
<1>1. UNCHANGED <<rows, trail>> /\ Size' = Size
  BY DEF Finish, ReclaimFails, Crash, Open, vars, Size
<1>2. Size \in Nat
  BY FS_CardinalityType DEF Inv, Size
<1>3. /\ faults' \in Nat /\ restarts' \in Nat /\ faults' >= faults
      /\ stage' \in {"Idle", "Reclaiming", "Opening", "Down"}
  BY DEF Inv, TypeOK, Finish, ReclaimFails, Crash, Open, vars, failures
<1>4. stage' = "Idle" => Size <= DeliveryTraceEvents + faults'
  <2>1. CASE Finish
    BY <1>2, <1>3, <2>1, DeliveryTraceAssumption DEF Finish, Excess, Size
  <2>2. CASE ReclaimFails
    BY <1>2, <2>2, DeliveryTraceAssumption DEF Inv, TypeOK, ReclaimFails, Size
  <2>3. CASE Crash \/ Open
    BY <2>3 DEF Crash, Open
  <2>4. CASE UNCHANGED vars
    BY <2>4 DEF vars, failures, Inv
  <2> QED
    BY <2>1, <2>2, <2>3, <2>4
<1>5. Size <= DeliveryTraceEvents + 1 + faults'
  BY <1>2, <1>3, DeliveryTraceAssumption DEF Inv, TypeOK, Size
<1> QED
  BY <1>1, <1>3, <1>4, <1>5 DEF Inv, TypeOK, Size

LEMMA InitInv == Init => Inv
<1> SUFFICES ASSUME Init PROVE Inv
  OBVIOUS
<1>1. DOMAIN rows = {} /\ trail = <<>> /\ faults = 0 /\ restarts = 0
  BY DEF Init
<1>2. IsFiniteSet(DOMAIN rows) /\ Size = 0
  BY <1>1, FS_EmptySet DEF Size
<1> QED
  BY <1>1, <1>2, DeliveryTraceAssumption DEF Init, Inv, TypeOK, Size

LEMMA InvInvariant == Spec => []Inv
<1>1. Inv /\ [Next]_vars => Inv'
  BY RecordKeeps, ReclaimKeeps, OthersKeep DEF Next
<1> QED
  BY InitInv, <1>1, PTL DEF Spec

(* Every row is the one its assertion wrote, and the table is over its cap *)
(* by no more than the row of the running call and those of failed ones.   *)
THEOREM TypeCorrect == Spec => []TypeOK
BY InvInvariant, PTL DEF Inv

(* Between two calls the table is within its cap, unless a reclaim was cut *)
(* short and not made up for.                                              *)
Room == Settled => ~Excess

(* Every step of the table is one of BoundedTable or leaves it alone.      *)
LEMMA TableStep ==
  ASSUME Room, [Next]_vars
  PROVE  Room' /\ [Table!Next]_(Table!vars)
<1>0. Table!Over = Excess /\ (Table!Over)' = Excess'
  BY DEF Table!Over, Excess, Cardinality, Table!Cardinality
<1>1. ASSUME NEW key \in Keys, Record(key)
      PROVE  Room' /\ Table!Add
  <2>1. key \in DOMAIN rows' \ DOMAIN rows /\ Settled' = FALSE
    BY <1>1 DEF Record, Settled
  <2>2. rows' = [j \in DOMAIN rows \cup {key} |-> IF j = key THEN rows'[key] ELSE rows[j]]
    BY <1>1, <2>1 DEF Record
  <2> QED
    BY <2>1, <2>2 DEF Room, Table!Add
<1>2. ASSUME Reclaim
      PROVE  Room' /\ Table!Take
  <2>1. stage' = stage /\ stage # "Idle" /\ unreclaimed' = unreclaimed
    BY <1>2 DEF Reclaim, failures
  <2>2. Settled' = Settled /\ ~Settled'
    BY <2>1 DEF Settled
  <2> QED
    BY <1>0, <1>2, <2>2 DEF Reclaim, Victims, Room, Table!Take
<1>3. CASE Finish
  <2>1. Settled' = TRUE /\ rows' = rows /\ ~Excess /\ ~Excess'
    BY <1>3 DEF Finish, Excess, Settled
  <2> QED
    BY <1>0, <2>1 DEF Room, Table!Next, Table!Settle
<1>4. CASE ReclaimFails \/ Crash \/ Open
  <2>1. Settled' = FALSE /\ UNCHANGED rows
    BY <1>4 DEF ReclaimFails, Crash, Open, Settled
  <2> QED
    BY <2>1 DEF Room, Table!Next, Table!Doubt
<1>5. CASE UNCHANGED vars
  BY <1>5 DEF vars, failures, Settled, Room, Excess, Table!vars
<1> QED
  BY <1>1, <1>2, <1>3, <1>4, <1>5 DEF Next, Table!Next

LEMMA RoomInvariant == Spec => []Room /\ ImplementsTable
<1>1. Init => Room /\ Table!Init
  <2> SUFFICES ASSUME Init PROVE Room /\ Table!Init
    OBVIOUS
  <2>1. Cardinality(DOMAIN rows) = 0
    BY FS_EmptySet DEF Init
  <2>2. ~Excess
    BY <2>1, DeliveryTraceAssumption DEF Excess
  <2> QED
    BY <2>2 DEF Init, Room, Settled, Table!Init
<1> QED
  BY <1>1, TableStep, PTL DEF Spec, ImplementsTable, Table!Spec

(* The delivery-trace table implements BoundedTable (store.rs:222-236 and  *)
(* 309-325), whatever fails or dies.                                       *)
THEOREM DeliveryTraceImplementsTable == Spec => ImplementsTable
BY RoomInvariant, PTL

(* The delivery trace is bounded even where the engine fails: between two  *)
(* calls it holds at most one row over its cap for each call that failed   *)
(* (store.rs:222-236, 309-325).                                            *)
THEOREM DeliveryTraceIsBounded ==
  Spec => [](stage = "Idle" => Size <= DeliveryTraceEvents + faults)
BY InvInvariant, PTL DEF Inv

-----------------------------------------------------------------------------
(* Rows go in the order of their keys: of two that were recorded in that   *)
(* order, the later is not gone while the earlier is there.                *)
GoneInOrder ==
    \A m, n \in 1 .. Len(trail) :
        m < n /\ KeyBefore(trail[m], trail[n]) /\ n \in Gone => m \in Gone

(* A row that is recorded is not gone.                                     *)
LEMMA RecordKeepsOrder ==
  ASSUME Inv, Inv', GoneInOrder, NEW key \in Keys, Record(key)
  PROVE  GoneInOrder'
<1> DEFINE l == Len(trail)
<1>1. /\ trail' = Append(trail, key) /\ DOMAIN rows' = DOMAIN rows \cup {key}
      /\ rows'[key] = l + 1 /\ key \notin DOMAIN rows
      /\ \A k \in DOMAIN rows : rows'[k] = rows[k]
  BY DEF Record
<1>2. /\ l \in Nat /\ Len(trail') = l + 1
      /\ \A n \in 1 .. l : trail'[n] = trail[n]
  <2>1. trail \in Seq(Keys)
    BY DEF Inv, TypeOK
  <2> QED
    BY <1>1, <2>1, AppendProperties
<1>3. \A k \in DOMAIN rows : rows[k] \in 1 .. l
  BY DEF Inv, TypeOK
<1> HIDE DEF l
<1>4. {rows'[k] : k \in DOMAIN rows'} = {rows[k] : k \in DOMAIN rows} \cup {l + 1}
  BY <1>1
<1>5. Gone' = Gone
  <2> DEFINE Kept == {rows[k] : k \in DOMAIN rows}
  <2>1. Gone = (1 .. l) \ Kept /\ Gone' = (1 .. l + 1) \ (Kept \cup {l + 1})
    BY <1>2, <1>4 DEF Gone, l
  <2>2. Kept \subseteq 1 .. l
    BY <1>3
  <2> HIDE DEF Kept
  <2> QED
    BY <1>2, <2>1, <2>2
<1>6. Gone \subseteq 1 .. l
  BY DEF Gone, l
<1> SUFFICES ASSUME NEW m \in 1 .. l + 1, NEW n \in 1 .. l + 1,
                    m < n, KeyBefore(trail'[m], trail'[n]), n \in Gone
             PROVE  m \in Gone
  BY <1>2, <1>5 DEF GoneInOrder
<1>7. n \in 1 .. l /\ m \in 1 .. l
  BY <1>2, <1>6
<1> QED
  BY <1>2, <1>7 DEF GoneInOrder, l

(* The row that is reclaimed has no row before it.                         *)
LEMMA ReclaimKeepsOrder ==
  ASSUME Inv, GoneInOrder, Reclaim
  PROVE  GoneInOrder'
<1>1. PICK key \in Victims : rows' = [j \in DOMAIN rows \ {key} |-> rows[j]]
  BY DEF Reclaim
<1>2. /\ trail' = trail /\ DOMAIN rows' = DOMAIN rows \ {key}
      /\ \A k \in DOMAIN rows' : rows'[k] = rows[k]
  BY <1>1 DEF Reclaim
<1>3. \A k \in DOMAIN rows : k \in Keys /\ rows[k] \in 1 .. Len(trail) /\ trail[rows[k]] = k
  BY DEF Inv, TypeOK
<1>4. key \in DOMAIN rows /\ \A j \in DOMAIN rows \ {key} : KeyBefore(key, j)
  BY <1>1 DEF Victims
<1>5. Gone' = Gone \cup {rows[key]}
  <2>1. {rows[k] : k \in DOMAIN rows} = {rows'[k] : k \in DOMAIN rows'} \cup {rows[key]}
    BY <1>2, <1>4
  <2>2. ~(rows[key] \in {rows'[k] : k \in DOMAIN rows'})
    BY <1>2, <1>3, <1>4
  <2> QED
    BY <1>2, <1>3, <1>4, <2>1, <2>2 DEF Gone
<1> SUFFICES ASSUME NEW m \in 1 .. Len(trail), NEW n \in 1 .. Len(trail),
                    m < n, KeyBefore(trail[m], trail[n]), n \in Gone \cup {rows[key]}
             PROVE  m \in Gone \cup {rows[key]}
  BY <1>2, <1>5 DEF GoneInOrder
<1>6. CASE n \in Gone
  BY <1>6 DEF GoneInOrder
<1>7. CASE n = rows[key]
  <2> SUFFICES ASSUME ~(m \in Gone), m # rows[key] PROVE FALSE
    OBVIOUS
  <2>1. PICK j \in DOMAIN rows : m = rows[j]
    BY DEF Gone
  <2>2. KeyBefore(j, key) /\ KeyBefore(key, j)
    BY <1>3, <1>4, <1>7, <2>1
  <2> QED
    BY <1>3, <1>4, <2>2, KeysAreOrdered
<1> QED
  BY <1>6, <1>7

LEMMA GoneInOrderInvariant == Spec => []GoneInOrder
<1>1. Init => GoneInOrder
  BY DEF Init, GoneInOrder
<1>2. Inv /\ Inv' /\ GoneInOrder /\ [Next]_vars => GoneInOrder'
  <2> SUFFICES ASSUME Inv, Inv', GoneInOrder, [Next]_vars PROVE GoneInOrder'
    OBVIOUS
  <2>1. CASE Finish \/ ReclaimFails \/ Crash \/ Open \/ UNCHANGED vars
    <3>1. UNCHANGED <<rows, trail>>
      BY <2>1 DEF Finish, ReclaimFails, Crash, Open, vars
    <3> QED
      BY <3>1 DEF GoneInOrder, Gone
  <2> QED
    BY <2>1, RecordKeepsOrder, ReclaimKeepsOrder DEF Next
<1> QED
  BY InvInvariant, <1>1, <1>2, PTL DEF Spec

(* When events are recorded in the order of their keys, the rows that are  *)
(* gone are those recorded first (store.rs:309-325).                       *)
THEOREM OldestGoFirstInKeyOrder == Spec => []ReclaimsOldestInKeyOrder
<1>1. ASSUME Inv, GoneInOrder PROVE ReclaimsOldestInKeyOrder
  <2> DEFINE l == Len(trail)
             Held == (1 .. l) \ Gone
  <2> SUFFICES ASSUME \A i, j \in 1 .. l : i < j => KeyBefore(trail[i], trail[j])
               PROVE  ReclaimsOldest
    BY DEF ReclaimsOldestInKeyOrder
  <2>1. l \in Nat
    BY <1>1 DEF Inv, TypeOK
  <2>2. Gone \subseteq 1 .. l /\ \A m, n \in 1 .. l : m < n /\ n \in Gone => m \in Gone
    BY <1>1 DEF GoneInOrder, Gone
  <2> HIDE DEF l
  <2>3. \E c \in Nat : Gone = 1 .. c
    <3>1. CASE Held = {}
      <4>1. Gone = 1 .. l
        BY <2>2, <3>1
      <4> QED
        BY <2>1, <4>1
    <3>2. CASE Held # {}
      <4>1. Held \in SUBSET Nat
        BY <2>1
      <4>2. PICK n \in Held : \A m \in Held : n <= m
        BY <3>2, <4>1, LeastNatural
      <4>3. n \in 1 .. l /\ ~(n \in Gone) /\ n - 1 \in Nat
        BY <2>1, <4>2
      <4>4. ASSUME NEW m \in 1 .. l PROVE m \in Gone <=> m <= n - 1
        BY <2>1, <2>2, <4>2, <4>3
      <4>5. Gone = 1 .. n - 1
        <5>1. ASSUME NEW m \in Gone PROVE m \in 1 .. n - 1
          <6>1. m \in 1 .. l
            BY <2>2
          <6> QED
            BY <2>1, <4>3, <4>4, <6>1
        <5>2. ASSUME NEW m \in 1 .. n - 1 PROVE m \in Gone
          <6>1. m \in 1 .. l /\ m <= n - 1
            BY <2>1, <4>3
          <6> QED
            BY <4>4, <6>1
        <5> QED
          BY <5>1, <5>2
      <4> QED
        BY <4>3, <4>5
    <3> QED
      BY <3>1, <3>2
  <2>4. PICK c \in Nat : Gone = 1 .. c
    BY <2>3
  <2>5. Cardinality(1 .. c) = c
    BY FS_Interval
  <2> QED
    BY <2>4, <2>5 DEF ReclaimsOldest
<1> QED
  BY InvInvariant, GoneInOrderInvariant, <1>1, PTL

(* Which holds in particular of slots with as many digits that are         *)
(* recorded in numeric order, one hop each.                                *)
THEOREM OldestGoFirstInSlotOrder ==
  Spec => []((\A m, n \in 1 .. Len(trail) : m < n =>
                 /\ Len(Decimal[trail[m][1]]) = Len(Decimal[trail[n][1]])
                 /\ trail[m][1] < trail[n][1])
              => ReclaimsOldest)
<1>1. ASSUME Inv, ReclaimsOldestInKeyOrder,
             \A m, n \in 1 .. Len(trail) : m < n =>
                 /\ Len(Decimal[trail[m][1]]) = Len(Decimal[trail[n][1]])
                 /\ trail[m][1] < trail[n][1]
      PROVE  ReclaimsOldest
  <2>1. \A n \in 1 .. Len(trail) : trail[n][1] \in Nat
    <3>1. \A k \in Keys : k[1] \in Nat
      BY DeliveryTraceAssumption DEF Keys, RecordKey
    <3>2. \A n \in 1 .. Len(trail) : trail[n] \in Keys
      BY <1>1 DEF Inv, TypeOK
    <3> QED
      BY <3>1, <3>2
  <2>2. ASSUME NEW m \in 1 .. Len(trail), NEW n \in 1 .. Len(trail), m < n
        PROVE  KeyBefore(trail[m], trail[n])
    BY <1>1, <2>1, <2>2, SlotsOfOneLength DEF KeyBefore
  <2> QED
    BY <1>1, <2>2 DEF ReclaimsOldestInKeyOrder
<1> QED
  BY InvInvariant, OldestGoFirstInKeyOrder, <1>1, PTL

(* A reclaim that is due has one row to take: the scan's first is unique,  *)
(* so the loop is never without a victim and never has a choice.           *)
THEOREM OneVictim == Spec => [](Excess => \E k \in DOMAIN rows : Victims = {k})
<1>1. ASSUME Inv, Excess PROVE \E k \in DOMAIN rows : Victims = {k}
  <2>1. DOMAIN rows \in SUBSET Keys /\ IsFiniteSet(DOMAIN rows)
    BY <1>1 DEF Inv, TypeOK
  <2>2. DOMAIN rows # {}
    BY <1>1, FS_EmptySet, DeliveryTraceAssumption DEF Excess
  <2>3. PICK k \in DOMAIN rows : \A j \in DOMAIN rows \ {k} : KeyBefore(k, j)
    BY <2>1, <2>2, FirstKey
  <2>4. ASSUME NEW j \in Victims PROVE j = k
    <3>1. j \in DOMAIN rows /\ \A i \in DOMAIN rows \ {j} : KeyBefore(j, i)
      BY DEF Victims
    <3>2. j # k => KeyBefore(j, k) /\ KeyBefore(k, j)
      BY <2>3, <3>1
    <3> QED
      BY <2>1, <2>3, <3>1, <3>2, KeysAreOrdered
  <2> QED
    BY <2>3, <2>4 DEF Victims
<1> QED
  BY InvInvariant, <1>1, PTL

-----------------------------------------------------------------------------
\* The keys of S in the order of their hops.
InHopOrder(f, S) ==
    /\ f \in [1 .. Cardinality(S) -> S]
    /\ \A i, j \in 1 .. Cardinality(S) : i < j => f[i][3] < f[j][3]

(* Finitely many keys, each with a hop of its own, can be so sorted.       *)
LEMMA HopsSort ==
  ASSUME NEW S \in SUBSET Keys, IsFiniteSet(S), \A j, k \in S : j # k => j[3] # k[3]
  PROVE  \E f : InHopOrder(f, S)
<1> DEFINE Of(T) == /\ T \in SUBSET Keys /\ IsFiniteSet(T)
                    /\ \A j, k \in T : j # k => j[3] # k[3]
           Bad == {n \in Nat : \E T \in SUBSET Keys :
                      Of(T) /\ Cardinality(T) = n /\ ~ \E f : InHopOrder(f, T)}
<1> SUFFICES ASSUME Bad # {} PROVE FALSE
  BY FS_CardinalityType
<1>1. PICK n \in Bad : \A m \in Bad : n <= m
  BY LeastNatural
<1>2. PICK T \in SUBSET Keys : Of(T) /\ Cardinality(T) = n /\ ~ \E f : InHopOrder(f, T)
  BY <1>1
<1>3. n \in Nat
  BY <1>1
<1>4. \A k \in T : k[3] \in Nat
  BY <1>2, DeliveryTraceAssumption DEF Keys, RecordKey
<1>5. CASE T = {}
  <2> DEFINE f == [i \in 1 .. 0 |-> i]
  <2>1. Cardinality(T) = 0
    BY <1>5, FS_EmptySet
  <2>2. f \in [1 .. 0 -> T]
    OBVIOUS
  <2> HIDE DEF f
  <2>3. InHopOrder(f, T)
    BY <2>1, <2>2 DEF InHopOrder
  <2> QED
    BY <1>2, <2>3
<1>6. CASE T # {}
  <2> DEFINE Values == {k[3] : k \in T}
  <2>1. Values \in SUBSET Nat /\ Values # {}
    BY <1>4, <1>6
  <2>2. PICK v \in Values : \A w \in Values : v <= w
    BY <2>1, LeastNatural
  <2>3. PICK x \in T : v = x[3]
    BY <2>2
  <2> DEFINE U == T \ {x}
  <2>4. IsFiniteSet(U) /\ Cardinality(U) = n - 1 /\ n - 1 \in Nat
    <3>1. IsFiniteSet(T) /\ Cardinality(T) = n
      BY <1>2
    <3>2. IsFiniteSet(U) /\ Cardinality(U) = n - 1
      BY <2>3, <3>1, FS_RemoveElement
    <3>3. Cardinality(U) \in Nat
      BY <3>2, FS_CardinalityType
    <3> HIDE DEF U
    <3> QED
      BY <3>2, <3>3
  <2>5. ~(n - 1 \in Bad)
    BY <1>1, <1>3, <2>4
  <2>6. Of(U)
    BY <1>2, <2>4
  <2>7. \E g : InHopOrder(g, U)
    <3> SUFFICES ASSUME ~ \E g : InHopOrder(g, U) PROVE n - 1 \in Bad
      BY <2>5
    <3>1. U \in SUBSET Keys
      BY <1>2
    <3> HIDE DEF U, Of
    <3> QED
      BY <2>4, <2>6, <3>1
  <2>8. PICK g : InHopOrder(g, U)
    BY <2>7
  <2>9. /\ g \in [1 .. n - 1 -> U]
        /\ \A i, j \in 1 .. n - 1 : i < j => g[i][3] < g[j][3]
    BY <2>4, <2>8 DEF InHopOrder
  <2>10. \A k \in U : x[3] < k[3]
    <3> SUFFICES ASSUME NEW k \in U PROVE x[3] < k[3]
      OBVIOUS
    <3>1. k \in T /\ k # x
      OBVIOUS
    <3>2. x[3] <= k[3] /\ x[3] # k[3]
      BY <1>2, <2>2, <2>3, <3>1
    <3> QED
      BY <1>4, <3>1, <3>2
  <2> DEFINE f == [i \in 1 .. n |-> IF i = 1 THEN x ELSE g[i - 1]]
  <2>11. \A i \in 1 .. n : i # 1 => i - 1 \in 1 .. n - 1
    BY <1>3
  <2>12. f \in [1 .. n -> T]
    <3>1. \A i \in 1 .. n : i # 1 => g[i - 1] \in T
      BY <2>9, <2>11
    <3> QED
      BY <2>3, <3>1
  <2>13. ASSUME NEW i \in 1 .. n, NEW j \in 1 .. n, i < j PROVE f[i][3] < f[j][3]
    <3>1. j # 1 /\ f[j] = g[j - 1] /\ j - 1 \in 1 .. n - 1 /\ g[j - 1] \in U
      BY <1>3, <2>9, <2>11, <2>13
    <3>2. CASE i = 1
      BY <2>10, <3>1, <3>2
    <3>3. CASE i # 1
      <4>1. f[i] = g[i - 1] /\ i - 1 \in 1 .. n - 1 /\ i - 1 < j - 1
        BY <1>3, <2>11, <2>13, <3>3
      <4> HIDE DEF f
      <4> QED
        BY <2>9, <3>1, <4>1
    <3> QED
      BY <3>2, <3>3
  <2> HIDE DEF f
  <2>14. InHopOrder(f, T)
    BY <1>2, <2>12, <2>13 DEF InHopOrder
  <2> QED
    BY <1>2, <2>14
<1> QED
  BY <1>5, <1>6

(* Such a list has every key of the set in it.                             *)
LEMMA HopOrderIsOnto ==
  ASSUME NEW S \in SUBSET Keys, IsFiniteSet(S), NEW f, InHopOrder(f, S)
  PROVE  \A k \in S : \E i \in 1 .. Cardinality(S) : f[i] = k
<1> DEFINE N == Cardinality(S)
<1>1. N \in Nat
  BY FS_CardinalityType
<1>2. IsFiniteSet(1 .. N) /\ Cardinality(1 .. N) = N
  BY <1>1, FS_Interval
<1>3. f \in [1 .. N -> S] /\ \A i, j \in 1 .. N : i < j => f[i][3] < f[j][3]
  BY DEF InHopOrder
<1>4. \A k \in S : k[3] \in Nat
  BY DeliveryTraceAssumption DEF Keys, RecordKey
<1> HIDE DEF N
<1>5. \A i, j \in 1 .. N : f[i] = f[j] => i = j
  <2> SUFFICES ASSUME NEW i \in 1 .. N, NEW j \in 1 .. N, f[i] = f[j], i < j PROVE FALSE
    BY <1>1
  <2> QED
    BY <1>3, <1>4
<1>6. f \in Injection(1 .. N, S)
  BY <1>3, <1>5 DEF Injection, IsInjective
<1>7. f \in Surjection(1 .. N, S)
  BY <1>2, <1>6, FS_Injection DEF N
<1> QED
  BY <1>7 DEF Surjection, N

(* What a query returns: the rows held of the message, each once, by hop.  *)
LEMMA TraceOfHeld ==
  ASSUME Inv, NEW slot \in Slots, NEW originator \in Originators
  PROVE  LET held == {k \in DOMAIN rows : OfMessage(k, slot, originator)}
             trace == DeliveryTrace(slot, originator)
         IN  /\ DOMAIN trace = 1 .. Cardinality(held)
             /\ \A i \in DOMAIN trace : trace[i] \in held
             /\ \A i, j \in DOMAIN trace : i < j => trace[i][3] < trace[j][3]
             /\ \A k \in held : \E i \in DOMAIN trace : trace[i] = k
<1> DEFINE held == {k \in DOMAIN rows : OfMessage(k, slot, originator)}
           trace == DeliveryTrace(slot, originator)
<1>1. held \in SUBSET Keys /\ IsFiniteSet(held)
  BY FS_Subset DEF Inv, TypeOK
<1>2. \A j, k \in held : j # k => j[3] # k[3]
  <2>1. \A k \in Keys : k = <<k[1], k[2], k[3]>>
    BY DEF Keys, RecordKey
  <2>2. \A k \in held : k[1] = slot /\ k[2] = originator
    BY DEF OfMessage
  <2> HIDE DEF held
  <2> QED
    BY <1>1, <2>1, <2>2
<1>3. \E f : InHopOrder(f, held)
  <2> HIDE DEF held
  <2> QED
    BY <1>1, <1>2, HopsSort
<1>4. InHopOrder(trace, held)
  <2>1. trace = CHOOSE f \in [1 .. Cardinality(held) -> held] :
                    \A i, j \in 1 .. Cardinality(held) : i < j => f[i][3] < f[j][3]
    BY DEF DeliveryTrace
  <2> HIDE DEF held, trace
  <2> QED
    BY <1>3, <2>1 DEF InHopOrder
<1>5. /\ trace \in [1 .. Cardinality(held) -> held]
      /\ \A i, j \in 1 .. Cardinality(held) : i < j => trace[i][3] < trace[j][3]
  <2> HIDE DEF held, trace
  <2> QED
    BY <1>4 DEF InHopOrder
<1>6. \A k \in held : \E i \in 1 .. Cardinality(held) : trace[i] = k
  <2> HIDE DEF held, trace
  <2> QED
    BY <1>1, <1>4, HopOrderIsOnto
<1>7. DOMAIN trace = 1 .. Cardinality(held)
  <2> HIDE DEF held, trace
  <2> QED
    BY <1>5
<1> HIDE DEF held, trace
<1>8. /\ DOMAIN trace = 1 .. Cardinality(held)
      /\ \A i \in DOMAIN trace : trace[i] \in held
      /\ \A i, j \in DOMAIN trace : i < j => trace[i][3] < trace[j][3]
      /\ \A k \in held : \E i \in DOMAIN trace : trace[i] = k
  BY <1>5, <1>6, <1>7
<1> QED
  BY <1>8 DEF held, trace

(* What a client reads of a message recorded in hop order is the end of    *)
(* its chain, in order and without a gap (store.rs:238-260).               *)
THEOREM TraceIsTheEnd == Spec => []TraceIsTheEndOfTheChain
<1>1. ASSUME Inv, GoneInOrder, NEW slot \in Slots, NEW originator \in Originators,
             \A m, n \in RecordedOf(slot, originator) : m < n => trail[m][3] < trail[n][3]
      PROVE  LET recorded == RecordedOf(slot, originator)
                 trace == DeliveryTrace(slot, originator)
                 shown == {rows[trace[i]] : i \in DOMAIN trace}
             IN  /\ shown \subseteq recorded
                 /\ \A i, j \in DOMAIN trace : i < j => rows[trace[i]] < rows[trace[j]]
                 /\ \A m \in recorded \ shown, n \in shown : m < n
  <2> DEFINE held == {k \in DOMAIN rows : OfMessage(k, slot, originator)}
             recorded == RecordedOf(slot, originator)
             trace == DeliveryTrace(slot, originator)
             shown == {rows[trace[i]] : i \in DOMAIN trace}
  <2>1. /\ \A i \in DOMAIN trace : trace[i] \in held
        /\ \A i, j \in DOMAIN trace : i < j => trace[i][3] < trace[j][3]
        /\ \A k \in held : \E i \in DOMAIN trace : trace[i] = k
    BY <1>1, TraceOfHeld
  <2>2. \A k \in DOMAIN rows : /\ k \in Keys /\ rows[k] \in 1 .. Len(trail)
                               /\ trail[rows[k]] = k
    BY <1>1 DEF Inv, TypeOK
  <2>3. \A m, n \in recorded : m < n => trail[m][3] < trail[n][3]
    BY <1>1
  <2>4. recorded = {n \in 1 .. Len(trail) : OfMessage(trail[n], slot, originator)}
    BY DEF RecordedOf
  <2>5. Len(trail) \in Nat /\ \A n \in 1 .. Len(trail) : trail[n] \in Keys
    BY <1>1 DEF Inv, TypeOK
  <2>6. \A k \in Keys : k[3] \in Nat
    BY DeliveryTraceAssumption DEF Keys, RecordKey
  <2> HIDE DEF trace, recorded
  <2>7. \A k \in held : k \in Keys /\ rows[k] \in recorded /\ trail[rows[k]] = k
    BY <2>2, <2>4
  <2>8. \A n \in recorded : n \in 1 .. Len(trail) /\ trail[n][3] \in Nat
    BY <2>4, <2>5, <2>6
  <2>9. shown \subseteq recorded
    BY <2>1, <2>7
  <2>10. ASSUME NEW i \in DOMAIN trace, NEW j \in DOMAIN trace, i < j
         PROVE  rows[trace[i]] < rows[trace[j]]
    <3> DEFINE m == rows[trace[i]]
               n == rows[trace[j]]
    <3>1. trail[m][3] < trail[n][3] /\ m \in recorded /\ n \in recorded
      BY <2>1, <2>7, <2>10
    <3> HIDE DEF m, n
    <3>2. m < n
      BY <2>3, <2>5, <2>8, <3>1
    <3> QED
      BY <3>2 DEF m, n
  <2>11. ASSUME NEW m \in recorded, ~(m \in shown), NEW n \in shown
         PROVE  m < n
    <3>1. n \in recorded /\ \E k \in DOMAIN rows : n = rows[k]
      BY <2>1, <2>9
    <3>2. m \in Gone
      <4> SUFFICES ASSUME NEW k \in DOMAIN rows, m = rows[k] PROVE m \in shown
        BY <2>8, <2>11 DEF Gone
      <4>1. k \in held
        BY <2>2, <2>4
      <4> QED
        BY <2>1, <4>1
    <3>3. ~(n \in Gone)
      BY <3>1 DEF Gone
    <3>4. ASSUME n < m PROVE FALSE
      <4>1. trail[n][3] < trail[m][3]
        BY <2>3, <3>1, <3>4
      <4>2. /\ trail[n][1] = slot /\ trail[n][2] = originator
            /\ trail[m][1] = slot /\ trail[m][2] = originator
        BY <2>4, <3>1 DEF OfMessage
      <4>3. KeyBefore(trail[n], trail[m])
        BY <4>1, <4>2 DEF KeyBefore
      <4> QED
        BY <1>1, <2>8, <3>1, <3>2, <3>3, <3>4, <4>3 DEF GoneInOrder
    <3>5. m # n
      BY <2>11
    <3>6. m \in Nat /\ n \in Nat
      BY <2>5, <2>8, <3>1
    <3> QED
      BY <3>4, <3>5, <3>6
  <2> HIDE DEF shown
  <2>12. /\ shown \subseteq recorded
         /\ \A i, j \in DOMAIN trace : i < j => rows[trace[i]] < rows[trace[j]]
         /\ \A m \in recorded \ shown, n \in shown : m < n
    BY <2>9, <2>10, <2>11
  <2> QED
    BY <2>12 DEF shown, trace, recorded
<1>2. Inv /\ GoneInOrder => TraceIsTheEndOfTheChain
  BY <1>1 DEF TraceIsTheEndOfTheChain
<1> QED
  BY InvInvariant, GoneInOrderInvariant, <1>2, PTL

-----------------------------------------------------------------------------
Beyond(j) == {k \in DOMAIN rows : KeyBefore(j, k)}

(* Whatever was taken had a capful of rows beyond it, and still has: a row *)
(* goes only as the first of more.                                         *)
Survived ==
    \A n \in 1 .. Len(trail) :
        trail[n] \notin DOMAIN rows => Cardinality(Beyond(trail[n])) >= DeliveryTraceEvents

LEMMA BeyondIsFinite ==
  ASSUME Inv, NEW j
  PROVE  IsFiniteSet(Beyond(j)) /\ Cardinality(Beyond(j)) \in Nat
<1>1. IsFiniteSet(Beyond(j))
  BY FS_Subset DEF Inv, Beyond
<1> QED
  BY <1>1, FS_CardinalityType

LEMMA RecordSurvived ==
  ASSUME Inv, Inv', Survived, NEW key \in Keys, Record(key)
  PROVE  Survived'
<1>1. /\ DOMAIN rows' = DOMAIN rows \cup {key} /\ Len(trail) \in Nat
      /\ Len(trail') = Len(trail) + 1 /\ trail'[Len(trail) + 1] = key
      /\ \A n \in 1 .. Len(trail) : trail'[n] = trail[n]
  <2>1. trail \in Seq(Keys)
    BY DEF Inv, TypeOK
  <2> QED
    BY <2>1, AppendProperties DEF Record
<1> SUFFICES ASSUME NEW n \in 1 .. Len(trail'), trail'[n] \notin DOMAIN rows'
             PROVE  Cardinality(Beyond(trail[n])') >= DeliveryTraceEvents
  BY DEF Survived, Beyond
<1>2. n \in 1 .. Len(trail) /\ trail'[n] = trail[n] /\ trail[n] \notin DOMAIN rows
  BY <1>1
<1>3. Cardinality(Beyond(trail[n])) >= DeliveryTraceEvents
  BY <1>2 DEF Survived
<1>4. Beyond(trail[n]) \subseteq Beyond(trail[n])'
  BY <1>1, <1>2 DEF Beyond
<1>5. IsFiniteSet(Beyond(trail[n])')
  BY FS_Subset DEF Inv, Beyond
<1>6. Cardinality(Beyond(trail[n])) <= Cardinality(Beyond(trail[n])')
  BY <1>4, <1>5, FS_Subset
<1>7. Cardinality(Beyond(trail[n])') \in Nat /\ Cardinality(Beyond(trail[n])) \in Nat
  BY <1>5, BeyondIsFinite, FS_CardinalityType
<1> QED
  BY <1>3, <1>6, <1>7, DeliveryTraceAssumption

LEMMA ReclaimSurvived ==
  ASSUME Inv, Inv', Survived, Reclaim
  PROVE  Survived'
<1>1. PICK v \in DOMAIN rows : /\ \A j \in DOMAIN rows \ {v} : KeyBefore(v, j)
                               /\ rows' = [j \in DOMAIN rows \ {v} |-> rows[j]]
  BY DEF Reclaim, Victims
<1>2. /\ DOMAIN rows' = DOMAIN rows \ {v} /\ trail' = trail
      /\ DOMAIN rows \subseteq Keys /\ \A n \in 1 .. Len(trail) : trail[n] \in Keys
  BY <1>1 DEF Reclaim, Inv, TypeOK
<1>3. Cardinality(DOMAIN rows') >= DeliveryTraceEvents
  <2>1. Size' = Size - 1 /\ Size \in Nat
    BY <1>1, <1>2, FS_RemoveElement, FS_CardinalityType DEF Inv, Size
  <2> QED
    BY <2>1, DeliveryTraceAssumption DEF Reclaim, Excess, Size
<1> SUFFICES ASSUME NEW n \in 1 .. Len(trail), trail[n] \notin DOMAIN rows'
             PROVE  Cardinality(Beyond(trail[n])') >= DeliveryTraceEvents
  BY <1>2 DEF Survived, Beyond
<1>4. CASE trail[n] = v \/ KeyBefore(trail[n], v)
  <2>1. \A k \in DOMAIN rows' : KeyBefore(trail[n], k)
    BY <1>1, <1>2, <1>4, KeysAreOrdered
  <2>2. Beyond(trail[n])' = DOMAIN rows'
    BY <1>2, <2>1 DEF Beyond
  <2> QED
    BY <1>3, <2>2
<1>5. CASE trail[n] # v /\ ~KeyBefore(trail[n], v)
  <2>1. Beyond(trail[n])' = Beyond(trail[n])
    BY <1>2, <1>5 DEF Beyond
  <2> QED
    BY <1>2, <1>5, <2>1 DEF Survived
<1> QED
  BY <1>4, <1>5

LEMMA SurvivedInvariant == Spec => []Survived
<1>1. Init => Survived
  <2> SUFFICES ASSUME Init PROVE Survived
    OBVIOUS
  <2>1. Len(trail) = 0
    BY EmptySeq DEF Init
  <2> QED
    BY <2>1 DEF Survived
<1>2. Inv /\ Inv' /\ Survived /\ [Next]_vars => Survived'
  <2> SUFFICES ASSUME Inv, Inv', Survived, [Next]_vars PROVE Survived'
    OBVIOUS
  <2>1. CASE Finish \/ ReclaimFails \/ Crash \/ Open \/ UNCHANGED vars
    <3>1. UNCHANGED <<rows, trail>>
      BY <2>1 DEF Finish, ReclaimFails, Crash, Open, vars
    <3> QED
      BY <3>1 DEF Survived, Beyond
  <2> QED
    BY <2>1, RecordSurvived, ReclaimSurvived DEF Next
<1> QED
  BY InvInvariant, <1>1, <1>2, PTL DEF Spec

(* In whatever order hops arrive, the trace a client reads of a message    *)
(* has no gap: what is held is later in key order than all that is not     *)
(* (store.rs:222-260, 309-325), unless a reclaim was cut short since.      *)
THEOREM NoGapInTheTrace == Spec => []TraceHasNoGap
<1>1. ASSUME Inv, Room, Survived, Settled, NEW slot \in Slots, NEW originator \in Originators,
             NEW n \in RecordedOf(slot, originator), NEW k \in DOMAIN rows,
             OfMessage(k, slot, originator), k[3] < trail[n][3], trail[n] \notin DOMAIN rows
      PROVE  FALSE
  <2>1. /\ n \in 1 .. Len(trail) /\ trail[n][1] = slot /\ trail[n][2] = originator
        /\ k[1] = slot /\ k[2] = originator
    BY <1>1 DEF RecordedOf, OfMessage
  <2>2. KeyBefore(k, trail[n]) /\ trail[n] \in Keys /\ k \in Keys
    BY <1>1, <2>1 DEF KeyBefore, Inv, TypeOK
  <2>3. Beyond(trail[n]) \subseteq DOMAIN rows \ {k}
    BY <2>2, KeysAreOrdered DEF Beyond
  <2>4. /\ IsFiniteSet(DOMAIN rows \ {k}) /\ Cardinality(DOMAIN rows \ {k}) = Size - 1
        /\ Size \in Nat
    BY <1>1, FS_RemoveElement, FS_CardinalityType DEF Inv, Size
  <2>5. Cardinality(Beyond(trail[n])) <= Size - 1
    BY <2>3, <2>4, FS_Subset
  <2>6. Cardinality(Beyond(trail[n])) >= DeliveryTraceEvents
    BY <1>1, <2>1 DEF Survived
  <2>7. Size <= DeliveryTraceEvents
    BY <1>1, <2>4, DeliveryTraceAssumption DEF Room, Excess, Size
  <2>8. Cardinality(Beyond(trail[n])) \in Nat
    BY <1>1, BeyondIsFinite
  <2> QED
    BY <2>4, <2>5, <2>6, <2>7, <2>8, DeliveryTraceAssumption
<1>2. Inv /\ Room /\ Survived => TraceHasNoGap
  BY <1>1 DEF TraceHasNoGap
<1> QED
  BY InvInvariant, RoomInvariant, SurvivedInvariant, <1>2, PTL
=============================================================================
