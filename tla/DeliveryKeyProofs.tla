-------------------------- MODULE DeliveryKeyProofs --------------------------
(***************************************************************************)
(* The order of the delivery-trace keys, proved from the definition of the *)
(* decimal digits: it is a strict total order, and it is the order of the  *)
(* numbers only among slots with as many digits.                           *)
(*                                                                         *)
(* The induction theorems of the library take an operator, which no prover *)
(* here can instantiate.  Each induction below is made by contradiction,   *)
(* on the least member of the set of counterexamples.                      *)
(***************************************************************************)
EXTENDS DeliveryTrace, FiniteSetTheorems, SequenceTheorems, TLAPS

(* Every non-empty set of naturals has a least element.                    *)
LEMMA LeastNatural ==
  ASSUME NEW T \in SUBSET Nat, T # {}
  PROVE  \E n \in T : \A m \in T : n <= m
<1>1. PICK less : /\ IsWellFoundedOn(less, Nat)
                  /\ \A m, n \in Nat : m < n => <<m, n>> \in less
  BY NatLessThanWellFounded DEF OpToRel
<1>2. IsWellFoundedOn(less, Nat) /\ T \subseteq Nat
  BY <1>1
<1>3. \E n \in T : \A m \in T : ~(<<m, n>> \in less)
  BY <1>2, WFMin
<1>4. PICK n \in T : \A m \in T : ~(<<m, n>> \in less)
  BY <1>3
<1>5. \A m \in T : ~(m < n)
  BY <1>1, <1>4
<1> QED
  BY <1>4, <1>5

-----------------------------------------------------------------------------
\* One step of the recursion.
Digits(f, n) == IF n < 10 THEN <<n>> ELSE Append(f[n \div 10], n % 10)

\* `f` gives the digits of the numbers up to n.
DigitsUpTo(f, n) ==
    f \in [0 .. n -> Seq(Nat)] /\ \A m \in 0 .. n : f[m] = Digits(f, m)

(* Taking the last digit off leaves a smaller number.                      *)
LEMMA Quotient ==
  ASSUME NEW n \in Nat, n >= 10
  PROVE  n \div 10 \in Nat /\ n \div 10 < n /\ n % 10 \in Nat
OBVIOUS

(* The recursion has an answer up to every number.                         *)
LEMMA DigitsExist ==
  ASSUME NEW n \in Nat
  PROVE  \E f : DigitsUpTo(f, n)
<1> DEFINE Bad == {m \in Nat : ~ \E f : DigitsUpTo(f, m)}
<1> SUFFICES ASSUME Bad # {} PROVE FALSE
  OBVIOUS
<1>1. PICK m \in Bad : \A k \in Bad : m <= k
  BY LeastNatural
<1>2. m \in Nat /\ ~ \E f : DigitsUpTo(f, m)
  BY <1>1
<1>3. CASE m = 0
  <2> DEFINE f == [k \in 0 .. 0 |-> <<k>>]
  <2>1. f \in [0 .. 0 -> Seq(Nat)]
    OBVIOUS
  <2>2. \A k \in 0 .. 0 : f[k] = Digits(f, k)
    BY DEF Digits
  <2> QED
    BY <1>2, <1>3, <2>1, <2>2 DEF DigitsUpTo
<1>4. CASE m # 0
  <2>1. m - 1 \in Nat /\ m - 1 \notin Bad
    BY <1>1, <1>2, <1>4
  <2>2. PICK g : DigitsUpTo(g, m - 1)
    BY <2>1
  <2> DEFINE f == [k \in 0 .. m |-> IF k < m THEN g[k] ELSE Digits(g, m)]
  <2>3. \A k \in 0 .. m : k < m => k \in 0 .. m - 1
    BY <1>2
  <2>4. \A k \in 0 .. m : k >= 10 => k \div 10 \in 0 .. m - 1
    BY <1>2, Quotient
  <2>5. \A k \in 0 .. m : Digits(f, k) = Digits(g, k)
    BY <1>2, <2>4 DEF Digits
  <2>6. Digits(g, m) \in Seq(Nat)
    <3>1. CASE m < 10
      BY <1>2, <3>1 DEF Digits
    <3>2. CASE m >= 10
      <4>1. g[m \div 10] \in Seq(Nat) /\ m % 10 \in Nat
        BY <1>2, <2>2, <2>4, <3>2, Quotient DEF DigitsUpTo
      <4> QED
        BY <1>2, <3>2, <4>1 DEF Digits
    <3> QED
      BY <1>2, <3>1, <3>2
  <2>7. f \in [0 .. m -> Seq(Nat)]
    BY <2>2, <2>3, <2>6 DEF DigitsUpTo
  <2>8. \A k \in 0 .. m : f[k] = Digits(g, k)
    <3> SUFFICES ASSUME NEW k \in 0 .. m PROVE f[k] = Digits(g, k)
      OBVIOUS
    <3>1. CASE k < m
      BY <2>2, <2>3, <3>1 DEF DigitsUpTo
    <3>2. CASE k = m
      BY <3>2
    <3> QED
      BY <1>2, <3>1, <3>2
  <2> HIDE DEF f
  <2> QED
    BY <1>2, <2>5, <2>7, <2>8 DEF DigitsUpTo
<1> QED
  BY <1>3, <1>4

(* And only one.                                                           *)
LEMMA DigitsAgree ==
  ASSUME NEW m \in Nat, NEW n \in Nat, NEW f, NEW g, DigitsUpTo(f, m), DigitsUpTo(g, n),
         NEW k \in 0 .. m, k <= n
  PROVE  f[k] = g[k]
<1> DEFINE Bad == {j \in Nat : j <= m /\ j <= n /\ f[j] # g[j]}
<1> SUFFICES ASSUME Bad # {} PROVE FALSE
  OBVIOUS
<1>1. PICK j \in Bad : \A i \in Bad : j <= i
  BY LeastNatural
<1>2. j \in Nat /\ j <= m /\ j <= n /\ f[j] # g[j]
  BY <1>1
<1>3. f[j] = Digits(f, j) /\ g[j] = Digits(g, j)
  BY <1>2 DEF DigitsUpTo
<1>4. CASE j < 10
  BY <1>2, <1>3, <1>4 DEF Digits
<1>5. CASE j >= 10
  <2>1. j \div 10 \in Nat /\ j \div 10 < j
    BY <1>2, <1>5, Quotient
  <2>2. f[j \div 10] = g[j \div 10]
    BY <1>1, <1>2, <2>1
  <2> QED
    BY <1>2, <1>3, <1>5, <2>2 DEF Digits
<1> QED
  BY <1>2, <1>4, <1>5

(* So Decimal is the function its equation says it is.                     *)
LEMMA DecimalDefined == Decimal = [n \in Nat |-> Digits(Decimal, n)]
<1> DEFINE upTo(n) == CHOOSE f : DigitsUpTo(f, n)
           d == [n \in Nat |-> upTo(n)[n]]
<1>1. \A n \in Nat : DigitsUpTo(upTo(n), n)
  BY DigitsExist
<1> HIDE DEF upTo
<1>2. ASSUME NEW n \in Nat PROVE d[n] = Digits(d, n)
  <2>1. d[n] = Digits(upTo(n), n)
    BY <1>1 DEF DigitsUpTo
  <2>2. CASE n < 10
    BY <2>1, <2>2 DEF Digits
  <2>3. CASE n >= 10
    <3>1. n \div 10 \in Nat /\ n \div 10 < n
      BY <2>3, Quotient
    <3>2. upTo(n)[n \div 10] = upTo(n \div 10)[n \div 10]
      BY <1>1, <3>1, DigitsAgree
    <3> QED
      BY <2>1, <2>3, <3>1, <3>2 DEF Digits
  <2> QED
    BY <2>2, <2>3
<1>3. d = [n \in Nat |-> Digits(d, n)]
  <2> HIDE DEF d
  <2>1. d = [n \in Nat |-> d[n]]
    BY DEF d
  <2> QED
    BY <1>2, <2>1
<1> HIDE DEF d
<1>4. Decimal = CHOOSE f : f = [n \in Nat |-> IF n < 10 THEN <<n>> ELSE Append(f[n \div 10], n % 10)]
  BY DEF Decimal
<1>5. d = [n \in Nat |-> IF n < 10 THEN <<n>> ELSE Append(d[n \div 10], n % 10)]
  BY <1>3, Zenon DEF Digits
<1>6. Decimal = [n \in Nat |-> IF n < 10 THEN <<n>> ELSE Append(Decimal[n \div 10], n % 10)]
  BY <1>4, <1>5, Zenon
<1> QED
  BY <1>6, Zenon DEF Digits

(* The digits of a number are a sequence.                                  *)
LEMMA DecimalType == Decimal \in [Nat -> Seq(Nat)]
<1>1. Decimal = [n \in Nat |-> Digits(Decimal, n)]
  BY DecimalDefined
<1> DEFINE Bad == {n \in Nat : Decimal[n] \notin Seq(Nat)}
<1>2. Bad = {}
  <2> SUFFICES ASSUME Bad # {} PROVE FALSE
    OBVIOUS
  <2>1. PICK n \in Bad : \A m \in Bad : n <= m
    BY LeastNatural
  <2>2. n \in Nat /\ Decimal[n] \notin Seq(Nat)
    BY <2>1
  <2>3. Decimal[n] = Digits(Decimal, n)
    BY <1>1, <2>2
  <2>4. CASE n < 10
    BY <2>2, <2>3, <2>4 DEF Digits
  <2>5. CASE n >= 10
    <3>1. n \div 10 \in Nat /\ n \div 10 < n /\ n % 10 \in Nat
      BY <2>2, <2>5, Quotient
    <3>2. Decimal[n \div 10] \in Seq(Nat)
      BY <2>1, <2>2, <3>1
    <3> QED
      BY <2>2, <2>3, <2>5, <3>1, <3>2 DEF Digits
  <2> QED
    BY <2>2, <2>4, <2>5
<1>3. \A n \in Nat : Decimal[n] \in Seq(Nat)
  BY <1>2
<1> QED
  BY <1>1, <1>3

(* A number has a digit, one if it is below ten and more otherwise.        *)
LEMMA DecimalEquations ==
  ASSUME NEW n \in Nat
  PROVE  /\ Decimal[n] \in Seq(Nat) /\ Len(Decimal[n]) >= 1
         /\ n < 10 => Decimal[n] = <<n>>
         /\ n < 10 <=> Len(Decimal[n]) = 1
         /\ n >= 10 => /\ Decimal[n] = Append(Decimal[n \div 10], n % 10)
                       /\ n \div 10 \in Nat /\ n \div 10 < n /\ n % 10 \in 0 .. 9
                       /\ Decimal[n \div 10] \in Seq(Nat)
                       /\ Len(Decimal[n \div 10]) >= 1
                       /\ Len(Decimal[n]) = Len(Decimal[n \div 10]) + 1
<1>1. ASSUME NEW k \in Nat
      PROVE  /\ Decimal[k] \in Seq(Nat)
             /\ k < 10 => Decimal[k] = <<k>>
             /\ k >= 10 => /\ Decimal[k] = Append(Decimal[k \div 10], k % 10)
                           /\ k \div 10 \in Nat /\ k \div 10 < k /\ k % 10 \in 0 .. 9
                           /\ Decimal[k \div 10] \in Seq(Nat)
  <2>1. Decimal[k] \in Seq(Nat) /\ Decimal[k] = Digits(Decimal, k)
    BY DecimalType, DecimalDefined
  <2>2. k >= 10 => k \div 10 \in Nat /\ k \div 10 < k /\ k % 10 \in 0 .. 9
    OBVIOUS
  <2>3. k >= 10 => Decimal[k \div 10] \in Seq(Nat)
    BY <2>2, DecimalType
  <2> QED
    BY <2>1, <2>2, <2>3 DEF Digits
<1>2. \A k \in Nat : Len(Decimal[k]) >= 1
  <2> SUFFICES ASSUME NEW k \in Nat PROVE Len(Decimal[k]) >= 1
    OBVIOUS
  <2>1. CASE k < 10
    BY <1>1, <2>1
  <2>2. CASE k >= 10
    BY <1>1, <2>2
  <2> QED
    BY <2>1, <2>2
<1>3. n >= 10 => Len(Decimal[n]) = Len(Decimal[n \div 10]) + 1
  BY <1>1
<1>4. (n < 10) <=> (Len(Decimal[n]) = 1)
  <2>1. CASE n < 10
    <3>1. Decimal[n] = <<n>>
      BY <1>1, <2>1
    <3>2. Len(Decimal[n]) = 1
      BY <3>1
    <3> QED
      BY <2>1, <3>2
  <2>2. CASE n >= 10
    <3> DEFINE l == Len(Decimal[n \div 10])
    <3>1. l >= 1 /\ l \in Nat
      BY <1>1, <1>2, <2>2
    <3>2. Len(Decimal[n]) = l + 1
      BY <1>3, <2>2
    <3> HIDE DEF l
    <3>3. Len(Decimal[n]) # 1
      BY <3>1, <3>2
    <3> QED
      BY <2>2, <3>3
  <2> QED
    BY <2>1, <2>2
<1>5. n >= 10 => Len(Decimal[n \div 10]) >= 1
  BY <1>1, <1>2
<1> QED
  BY <1>1, <1>2, <1>3, <1>4, <1>5

(* No two numbers have the same digits.                                    *)
LEMMA DecimalInjective ==
  ASSUME NEW m \in Nat, NEW n \in Nat, Decimal[m] = Decimal[n]
  PROVE  m = n
<1> DEFINE Bad == {j \in Nat : \E k \in Nat : Decimal[j] = Decimal[k] /\ j # k}
<1> SUFFICES ASSUME Bad # {} PROVE FALSE
  OBVIOUS
<1>1. PICK j \in Bad : \A i \in Bad : j <= i
  BY LeastNatural
<1>2. PICK k \in Nat : Decimal[j] = Decimal[k] /\ j # k
  BY <1>1
<1>3. j \in Nat
  BY <1>1
<1>4. CASE j < 10 \/ k < 10
  <2>1. j < 10 <=> Len(Decimal[j]) = 1
    BY <1>3, DecimalEquations
  <2>2. k < 10 <=> Len(Decimal[k]) = 1
    BY <1>2, DecimalEquations
  <2>3. j < 10 /\ k < 10
    BY <1>2, <1>4, <2>1, <2>2
  <2>4. Decimal[j] = <<j>>
    BY <1>3, <2>3, DecimalEquations
  <2>5. Decimal[k] = <<k>>
    BY <1>2, <2>3, DecimalEquations
  <2>6. <<j>>[1] = <<k>>[1]
    BY <1>2, <2>4, <2>5
  <2> QED
    BY <1>2, <2>6
<1>5. CASE j >= 10 /\ k >= 10
  <2> DEFINE s == Decimal[j \div 10]
             t == Decimal[k \div 10]
  <2>1. /\ Decimal[j] = Append(s, j % 10) /\ Decimal[k] = Append(t, k % 10)
        /\ s \in Seq(Nat) /\ t \in Seq(Nat)
        /\ j \div 10 \in Nat /\ k \div 10 \in Nat /\ j \div 10 < j
        /\ j % 10 \in 0 .. 9 /\ k % 10 \in 0 .. 9
    BY <1>2, <1>3, <1>5, DecimalEquations
  <2> HIDE DEF s, t
  <2>2. s = t /\ j % 10 = k % 10
    <3> DEFINE x == j % 10
               y == k % 10
    <3>1. Append(s, x) = Append(t, y)
      BY <1>2, <2>1
    <3>2. /\ s \in Seq(Nat) /\ t \in Seq(Nat) /\ x \in Nat /\ y \in Nat
      BY <2>1
    <3> HIDE DEF x, y
    <3>3. Len(s) = Len(t)
      BY <3>1, <3>2
    <3>4. \A i \in 1 .. Len(s) : s[i] = t[i]
      <4>1. \A i \in 1 .. Len(s) : Append(s, x)[i] = s[i]
        BY <3>2, AppendProperties
      <4>2. \A i \in 1 .. Len(t) : Append(t, y)[i] = t[i]
        BY <3>2, AppendProperties
      <4> QED
        BY <3>1, <3>3, <4>1, <4>2
    <3>5. x = y
      <4>1. Append(s, x)[Len(s) + 1] = x
        BY <3>2, AppendProperties
      <4>2. Append(t, y)[Len(t) + 1] = y
        BY <3>2, AppendProperties
      <4> QED
        BY <3>1, <3>3, <4>1, <4>2
    <3>6. s = t
      BY <3>2, <3>3, <3>4, SeqEqual
    <3> QED
      BY <3>5, <3>6 DEF x, y
  <2>3. j \div 10 = k \div 10
    <3>1. j \div 10 \notin Bad
      BY <1>1, <1>3, <2>1
    <3> QED
      BY <2>1, <2>2, <3>1 DEF s, t
  <2> QED
    BY <1>2, <1>3, <2>2, <2>3
<1> QED
  BY <1>2, <1>3, <1>4, <1>5

-----------------------------------------------------------------------------
\* Digits compared as strings.
Precedes(s, t) ==
    \E i \in 1 .. Len(t) :
        /\ \A j \in 1 .. i - 1 : j <= Len(s) /\ s[j] = t[j]
        /\ IF i <= Len(s) THEN s[i] < t[i] ELSE i = Len(s) + 1

(* Slots compare as the strings of their digits.                           *)
LEMMA SlotsAsStrings ==
  ASSUME NEW m \in Nat, NEW n \in Nat
  PROVE  /\ SlotBefore(m, n) <=> Precedes(Decimal[m], Decimal[n])
         /\ Decimal[m] \in Seq(Nat) /\ Decimal[n] \in Seq(Nat)
BY DecimalType DEF SlotBefore, Precedes

(* No two strings precede each other.                                      *)
LEMMA PrecedesAsymmetric ==
  ASSUME NEW s \in Seq(Nat), NEW t \in Seq(Nat), Precedes(s, t), Precedes(t, s)
  PROVE  FALSE
<1>1. PICK i \in 1 .. Len(t) :
        /\ \A j \in 1 .. i - 1 : j <= Len(s) /\ s[j] = t[j]
        /\ IF i <= Len(s) THEN s[i] < t[i] ELSE i = Len(s) + 1
  BY DEF Precedes
<1>2. PICK k \in 1 .. Len(s) :
        /\ \A j \in 1 .. k - 1 : j <= Len(t) /\ t[j] = s[j]
        /\ IF k <= Len(t) THEN t[k] < s[k] ELSE k = Len(t) + 1
  BY DEF Precedes
<1>3. \A j \in 1 .. Len(s) : s[j] \in Nat
  OBVIOUS
<1>4. \A j \in 1 .. Len(t) : t[j] \in Nat
  OBVIOUS
<1>5. Len(s) \in Nat /\ Len(t) \in Nat
  OBVIOUS
<1>6. CASE i < k
  <2>1. i <= Len(s) /\ t[i] = s[i]
    BY <1>2, <1>5, <1>6
  <2>2. s[i] < t[i]
    BY <1>1, <2>1
  <2> QED
    BY <1>4, <2>1, <2>2
<1>7. CASE k < i
  <2>1. k <= Len(t) /\ s[k] = t[k]
    BY <1>1, <1>5, <1>7
  <2>2. t[k] < s[k]
    BY <1>2, <2>1
  <2> QED
    BY <1>3, <2>1, <2>2
<1>8. CASE i = k
  BY <1>1, <1>2, <1>3, <1>4, <1>5, <1>8
<1> QED
  BY <1>5, <1>6, <1>7, <1>8

(* The order of strings is transitive.                                     *)
LEMMA PrecedesTransitive ==
  ASSUME NEW s \in Seq(Nat), NEW t \in Seq(Nat), NEW u \in Seq(Nat),
         Precedes(s, t), Precedes(t, u)
  PROVE  Precedes(s, u)
<1>1. PICK i \in 1 .. Len(t) :
        /\ \A j \in 1 .. i - 1 : j <= Len(s) /\ s[j] = t[j]
        /\ IF i <= Len(s) THEN s[i] < t[i] ELSE i = Len(s) + 1
  BY DEF Precedes
<1>2. PICK k \in 1 .. Len(u) :
        /\ \A j \in 1 .. k - 1 : j <= Len(t) /\ t[j] = u[j]
        /\ IF k <= Len(t) THEN t[k] < u[k] ELSE k = Len(t) + 1
  BY DEF Precedes
<1>3. /\ \A j \in 1 .. Len(s) : s[j] \in Nat
      /\ \A j \in 1 .. Len(t) : t[j] \in Nat
      /\ \A j \in 1 .. Len(u) : u[j] \in Nat
  OBVIOUS
<1>4. Len(s) \in Nat /\ Len(t) \in Nat /\ Len(u) \in Nat
  OBVIOUS
<1>5. CASE i < k
  <2>1. t[i] = u[i] /\ i \in 1 .. Len(u)
    BY <1>2, <1>4, <1>5
  <2>2. ASSUME NEW j \in 1 .. i - 1 PROVE j <= Len(s) /\ s[j] = u[j]
    <3>1. j \in 1 .. k - 1
      BY <1>4, <1>5
    <3> QED
      BY <1>1, <1>2, <3>1
  <2>3. IF i <= Len(s) THEN s[i] < u[i] ELSE i = Len(s) + 1
    BY <1>1, <2>1
  <2> QED
    BY <2>1, <2>2, <2>3 DEF Precedes
<1>6. CASE k < i
  <2>1. k <= Len(s) /\ s[k] = t[k] /\ k <= Len(t)
    BY <1>1, <1>4, <1>6
  <2>2. ASSUME NEW j \in 1 .. k - 1 PROVE j <= Len(s) /\ s[j] = u[j]
    <3>1. j \in 1 .. i - 1
      BY <1>4, <1>6
    <3> QED
      BY <1>1, <1>2, <3>1
  <2>3. s[k] < u[k]
    BY <1>2, <2>1
  <2> QED
    BY <2>1, <2>2, <2>3 DEF Precedes
<1>7. CASE i = k
  <2>1. t[k] < u[k] /\ k \in 1 .. Len(u) /\ k <= Len(t)
    BY <1>1, <1>2, <1>4, <1>7
  <2>2. \A j \in 1 .. k - 1 : j <= Len(s) /\ s[j] = u[j]
    BY <1>1, <1>2, <1>4, <1>7
  <2>3. CASE k <= Len(s)
    <3>1. s[k] < t[k]
      BY <1>1, <1>7, <2>3
    <3>2. s[k] \in Nat /\ t[k] \in Nat /\ u[k] \in Nat
      BY <1>3, <1>4, <2>1, <2>3
    <3>3. s[k] < u[k]
      BY <2>1, <3>1, <3>2
    <3> QED
      BY <2>1, <2>2, <2>3, <3>3 DEF Precedes
  <2>4. CASE ~(k <= Len(s))
    <3>1. k = Len(s) + 1
      BY <1>1, <1>7, <2>4
    <3> QED
      BY <2>1, <2>2, <2>4, <3>1 DEF Precedes
  <2> QED
    BY <2>3, <2>4
<1> QED
  BY <1>4, <1>5, <1>6, <1>7

(* Two strings that differ have a first difference.                        *)
LEMMA PrecedesTotal ==
  ASSUME NEW s \in Seq(Nat), NEW t \in Seq(Nat), s # t
  PROVE  Precedes(s, t) \/ Precedes(t, s)
<1> DEFINE Apart == {i \in Nat : /\ i >= 1
                                 /\ \/ i <= Len(s) /\ i <= Len(t) /\ s[i] # t[i]
                                    \/ i <= Len(s) /\ i > Len(t)
                                    \/ i > Len(s) /\ i <= Len(t)}
<1>0. Len(s) \in Nat /\ Len(t) \in Nat
  OBVIOUS
<1>1. Apart # {}
  <2> SUFFICES ASSUME Apart = {} PROVE s = t
    OBVIOUS
  <2>1. Len(s) = Len(t)
    <3>1. CASE Len(s) > Len(t)
      <4>1. Len(s) \in Apart
        BY <1>0, <3>1
      <4> QED
        BY <4>1
    <3>2. CASE Len(s) < Len(t)
      <4>1. Len(t) \in Apart
        BY <1>0, <3>2
      <4> QED
        BY <4>1
    <3> QED
      BY <1>0, <3>1, <3>2
  <2>2. \A i \in 1 .. Len(s) : s[i] = t[i]
    <3> SUFFICES ASSUME NEW i \in 1 .. Len(s), s[i] # t[i] PROVE FALSE
      OBVIOUS
    <3>1. i \in Apart
      BY <1>0, <2>1
    <3> QED
      BY <3>1
  <2> QED
    BY <2>1, <2>2, SeqEqual
<1>2. PICK i \in Apart : \A j \in Apart : i <= j
  BY <1>1, LeastNatural
<1>3. /\ i \in Nat /\ i >= 1
      /\ \/ i <= Len(s) /\ i <= Len(t) /\ s[i] # t[i]
         \/ i <= Len(s) /\ i > Len(t)
         \/ i > Len(s) /\ i <= Len(t)
  BY <1>2
<1>4. \A j \in 1 .. i - 1 : j <= Len(s) /\ j <= Len(t) /\ s[j] = t[j]
  <2> SUFFICES ASSUME NEW j \in 1 .. i - 1, ~(j <= Len(s) /\ j <= Len(t) /\ s[j] = t[j])
               PROVE  FALSE
    OBVIOUS
  <2>1. j \in Nat /\ j >= 1 /\ j < i
    BY <1>3
  <2>2. j \in Apart
    BY <1>0, <1>3, <2>1
  <2> QED
    BY <1>2, <1>3, <2>1, <2>2
<1>5. CASE i <= Len(s) /\ i <= Len(t) /\ s[i] < t[i]
  <2>1. i \in 1 .. Len(t)
    BY <1>0, <1>3, <1>5
  <2> QED
    BY <1>4, <1>5, <2>1 DEF Precedes
<1>6. CASE i <= Len(s) /\ i <= Len(t) /\ t[i] < s[i]
  <2>1. i \in 1 .. Len(s)
    BY <1>0, <1>3, <1>6
  <2> QED
    BY <1>4, <1>6, <2>1 DEF Precedes
<1>7. CASE i <= Len(s) /\ i > Len(t)
  <2>1. i \in 1 .. Len(s) /\ ~(i <= Len(t))
    BY <1>0, <1>3, <1>7
  <2>2. i = Len(t) + 1
    <3>1. CASE i = 1
      BY <1>0, <1>7, <3>1
    <3>2. CASE i # 1
      BY <1>0, <1>3, <1>4, <1>7, <3>2
    <3> QED
      BY <3>1, <3>2
  <2> QED
    BY <1>4, <2>1, <2>2 DEF Precedes
<1>8. CASE i > Len(s) /\ i <= Len(t)
  <2>1. i \in 1 .. Len(t) /\ ~(i <= Len(s))
    BY <1>0, <1>3, <1>8
  <2>2. i = Len(s) + 1
    <3>1. CASE i = 1
      BY <1>0, <1>8, <3>1
    <3>2. CASE i # 1
      BY <1>0, <1>3, <1>4, <1>8, <3>2
    <3> QED
      BY <3>1, <3>2
  <2> QED
    BY <1>4, <2>1, <2>2 DEF Precedes
<1>9. i <= Len(s) /\ i <= Len(t) => s[i] \in Nat /\ t[i] \in Nat
  BY <1>3
<1> QED
  BY <1>3, <1>5, <1>6, <1>7, <1>8, <1>9

-----------------------------------------------------------------------------
(* Keys sort in a strict total order: the digits of a slot name it, so two *)
(* keys that neither precedes are the same key.                            *)
THEOREM KeysAreOrdered ==
  ASSUME NEW i \in Keys, NEW j \in Keys, NEW k \in Keys
  PROVE  /\ ~(KeyBefore(j, k) /\ KeyBefore(k, j))
         /\ KeyBefore(i, j) /\ KeyBefore(j, k) => KeyBefore(i, k)
         /\ j # k => KeyBefore(j, k) \/ KeyBefore(k, j)
<1>1. \A x \in Keys : /\ x[1] \in Nat /\ x[2] \in Nat /\ x[3] \in Nat
                      /\ x = <<x[1], x[2], x[3]>>
  BY DeliveryTraceAssumption DEF Keys, RecordKey
<1>2. \A m, n \in Nat : ~(SlotBefore(m, n) /\ SlotBefore(n, m))
  BY SlotsAsStrings, PrecedesAsymmetric
<1>3. \A l, m, n \in Nat : SlotBefore(l, m) /\ SlotBefore(m, n) => SlotBefore(l, n)
  BY SlotsAsStrings, PrecedesTransitive
<1>4. \A m, n \in Nat : m # n => SlotBefore(m, n) \/ SlotBefore(n, m)
  BY SlotsAsStrings, PrecedesTotal, DecimalInjective
<1>5. ~(KeyBefore(j, k) /\ KeyBefore(k, j))
  BY <1>1, <1>2 DEF KeyBefore
<1>6. ASSUME KeyBefore(i, j), KeyBefore(j, k) PROVE KeyBefore(i, k)
  <2>1. /\ i[1] \in Nat /\ i[2] \in Nat /\ i[3] \in Nat
        /\ j[1] \in Nat /\ j[2] \in Nat /\ j[3] \in Nat
        /\ k[1] \in Nat /\ k[2] \in Nat /\ k[3] \in Nat
    BY <1>1
  <2>2. CASE SlotBefore(i[1], j[1]) \/ SlotBefore(j[1], k[1])
    BY <1>3, <1>6, <2>1, <2>2 DEF KeyBefore
  <2>3. CASE ~(SlotBefore(i[1], j[1]) \/ SlotBefore(j[1], k[1]))
    BY <1>6, <2>1, <2>3 DEF KeyBefore
  <2> QED
    BY <2>2, <2>3
<1>7. ASSUME j # k PROVE KeyBefore(j, k) \/ KeyBefore(k, j)
  <2>1. /\ j[1] \in Nat /\ j[2] \in Nat /\ j[3] \in Nat
        /\ k[1] \in Nat /\ k[2] \in Nat /\ k[3] \in Nat
        /\ j[1] # k[1] \/ j[2] # k[2] \/ j[3] # k[3]
    BY <1>1, <1>7
  <2> QED
    BY <1>4, <2>1 DEF KeyBefore
<1> QED
  BY <1>5, <1>6, <1>7

(* Every non-empty finite set of keys has a first one.                     *)
LEMMA FirstKey ==
  ASSUME NEW S \in SUBSET Keys, IsFiniteSet(S), S # {}
  PROVE  \E k \in S : \A j \in S \ {k} : KeyBefore(k, j)
<1> DEFINE HasFirst(T) == \E k \in T : \A j \in T \ {k} : KeyBefore(k, j)
           Bad == {n \in Nat : \E T \in SUBSET Keys :
                      /\ IsFiniteSet(T) /\ T # {} /\ Cardinality(T) = n
                      /\ ~HasFirst(T)}
<1> SUFFICES ASSUME Bad # {} PROVE FALSE
  BY FS_CardinalityType
<1>1. PICK n \in Bad : \A m \in Bad : n <= m
  BY LeastNatural
<1>2. PICK T \in SUBSET Keys :
        IsFiniteSet(T) /\ T # {} /\ Cardinality(T) = n /\ ~HasFirst(T)
  BY <1>1
<1>3. PICK x \in T : TRUE
  BY <1>2
<1> DEFINE U == T \ {x}
<1>4. IsFiniteSet(U) /\ Cardinality(U) = n - 1 /\ Cardinality(U) \in Nat
  BY <1>2, <1>3, FS_RemoveElement, FS_CardinalityType
<1>5. CASE U = {}
  <2>1. \A j \in T \ {x} : KeyBefore(x, j)
    BY <1>5
  <2> QED
    BY <1>2, <1>3, <2>1
<1>6. CASE U # {}
  <2>1. ~(n - 1 \in Bad) /\ n - 1 \in Nat
    BY <1>1, <1>4
  <2>2. HasFirst(U)
    <3> SUFFICES ASSUME ~HasFirst(U) PROVE n - 1 \in Bad
      BY <2>1
    <3>1. U \in SUBSET Keys
      BY <1>2
    <3> HIDE DEF U, HasFirst
    <3> QED
      BY <1>4, <1>6, <2>1, <3>1
  <2>3. PICK k \in U : \A j \in U \ {k} : KeyBefore(k, j)
    BY <2>2
  <2>4. k \in Keys /\ x \in Keys /\ k # x /\ \A j \in T : j \in Keys
    BY <1>2, <1>3, <2>3
  <2>5. CASE KeyBefore(k, x)
    <3>1. \A j \in T \ {k} : KeyBefore(k, j)
      BY <2>3, <2>5
    <3> QED
      BY <1>2, <2>3, <3>1
  <2>6. CASE KeyBefore(x, k)
    <3>1. \A j \in T \ {x} : KeyBefore(x, j)
      BY <2>3, <2>4, <2>6, KeysAreOrdered
    <3> QED
      BY <1>2, <1>3, <3>1
  <2> QED
    BY <2>4, <2>5, <2>6, KeysAreOrdered
<1> QED
  BY <1>5, <1>6

(* Among slots of as many digits a smaller number precedes.                *)
LEMMA SlotsOfOneLength ==
  ASSUME NEW m \in Nat, NEW n \in Nat, Len(Decimal[m]) = Len(Decimal[n]), m < n
  PROVE  SlotBefore(m, n)
<1> DEFINE Bad == {j \in Nat : \E k \in Nat : /\ Len(Decimal[j]) = Len(Decimal[k]) /\ j < k
                                             /\ ~Precedes(Decimal[j], Decimal[k])}
<1> SUFFICES ASSUME Bad # {} PROVE FALSE
  BY SlotsAsStrings
<1>1. PICK j \in Bad : \A i \in Bad : j <= i
  BY LeastNatural
<1>2. PICK k \in Nat : /\ Len(Decimal[j]) = Len(Decimal[k]) /\ j < k
                       /\ ~Precedes(Decimal[j], Decimal[k])
  BY <1>1
<1>3. j \in Nat
  BY <1>1
<1>4. (j < 10 <=> Len(Decimal[j]) = 1) /\ (k < 10 <=> Len(Decimal[k]) = 1)
  BY <1>2, <1>3, DecimalEquations
<1>5. CASE j < 10
  <2>1. Decimal[j] = <<j>> /\ Decimal[k] = <<k>>
    BY <1>2, <1>3, <1>4, <1>5, DecimalEquations
  <2>2. Precedes(<<j>>, <<k>>)
    <3>1. 1 \in 1 .. Len(<<k>>) /\ 1 <= Len(<<j>>) /\ <<j>>[1] < <<k>>[1]
      BY <1>2, <1>3
    <3> QED
      BY <3>1 DEF Precedes
  <2> QED
    BY <1>2, <2>1, <2>2
<1>6. CASE j >= 10
  <2> DEFINE s == Decimal[j \div 10]
             t == Decimal[k \div 10]
             x == j % 10
             y == k % 10
  <2>1. k >= 10
    BY <1>2, <1>3, <1>4, <1>6
  <2>2. /\ Decimal[j] = Append(s, x) /\ Decimal[k] = Append(t, y)
        /\ s \in Seq(Nat) /\ t \in Seq(Nat) /\ x \in Nat /\ y \in Nat
        /\ j \div 10 \in Nat /\ k \div 10 \in Nat /\ j \div 10 < j
    <3>1. /\ Decimal[j] = Append(s, x) /\ s \in Seq(Nat) /\ x \in 0 .. 9
          /\ j \div 10 \in Nat /\ j \div 10 < j
      BY <1>3, <1>6, DecimalEquations
    <3>2. /\ Decimal[k] = Append(t, y) /\ t \in Seq(Nat) /\ y \in 0 .. 9
          /\ k \div 10 \in Nat
      BY <1>2, <2>1, DecimalEquations
    <3> HIDE DEF s, t, x, y
    <3> QED
      BY <3>1, <3>2
  <2>3. Len(s) = Len(t) /\ Len(s) \in Nat
    <3>1. Len(Append(s, x)) = Len(Append(t, y))
      BY <1>2, <2>2
    <3>2. s \in Seq(Nat) /\ t \in Seq(Nat) /\ x \in Nat /\ y \in Nat
      BY <2>2
    <3> HIDE DEF s, t, x, y
    <3> QED
      BY <3>1, <3>2
  <2>4. \/ j \div 10 < k \div 10
        \/ j \div 10 = k \div 10 /\ x < y
    BY <1>2, <1>3
  <2>5. CASE j \div 10 < k \div 10
    <3>1. j \div 10 \notin Bad
      BY <1>1, <1>3, <2>2
    <3>2. Precedes(s, t)
      BY <2>2, <2>3, <2>5, <3>1
    <3> HIDE DEF s, t, x, y
    <3>3. PICK i \in 1 .. Len(t) :
            /\ \A l \in 1 .. i - 1 : l <= Len(s) /\ s[l] = t[l]
            /\ IF i <= Len(s) THEN s[i] < t[i] ELSE i = Len(s) + 1
      BY <3>2 DEF Precedes
    <3>4. s[i] < t[i] /\ i \in 1 .. Len(s)
      BY <2>3, <3>3
    <3>5. /\ \A l \in 1 .. Len(s) : Append(s, x)[l] = s[l] /\ Append(t, y)[l] = t[l]
          /\ Len(Append(s, x)) = Len(s) + 1 /\ Len(Append(t, y)) = Len(s) + 1
      <4>1. s \in Seq(Nat) /\ x \in Nat /\ t \in Seq(Nat) /\ y \in Nat
        BY <2>2
      <4>2. /\ \A l \in 1 .. Len(s) : Append(s, x)[l] = s[l]
            /\ Len(Append(s, x)) = Len(s) + 1
        BY <4>1, AppendProperties
      <4>3. /\ \A l \in 1 .. Len(t) : Append(t, y)[l] = t[l]
            /\ Len(Append(t, y)) = Len(t) + 1
        BY <4>1, AppendProperties
      <4> QED
        BY <2>3, <4>2, <4>3
    <3>6. \A l \in 1 .. i - 1 : l \in 1 .. Len(s)
      BY <2>3, <3>4
    <3>7. Precedes(Append(s, x), Append(t, y))
      <4>1. i \in 1 .. Len(Append(t, y)) /\ i <= Len(Append(s, x))
        BY <2>3, <3>4, <3>5
      <4>2. \A l \in 1 .. i - 1 : /\ l <= Len(Append(s, x))
                                  /\ Append(s, x)[l] = Append(t, y)[l]
        BY <2>3, <3>3, <3>5, <3>6
      <4>3. Append(s, x)[i] < Append(t, y)[i]
        BY <3>4, <3>5
      <4> QED
        BY <4>1, <4>2, <4>3 DEF Precedes
    <3> QED
      BY <1>2, <2>2, <3>7
  <2>6. CASE j \div 10 = k \div 10 /\ x < y
    <3>1. s = t
      BY <2>6
    <3> HIDE DEF s, t, x, y
    <3> DEFINE i == Len(s) + 1
    <3>2. /\ i \in 1 .. Len(Append(t, y)) /\ i <= Len(Append(s, x))
          /\ Append(s, x)[i] < Append(t, y)[i]
      BY <2>2, <2>3, <2>6, <3>1
    <3>3. \A l \in 1 .. i - 1 : /\ l <= Len(Append(s, x))
                                /\ Append(s, x)[l] = Append(t, y)[l]
      BY <2>2, <2>3, <3>1
    <3> HIDE DEF i
    <3>4. Precedes(Append(s, x), Append(t, y))
      BY <3>2, <3>3 DEF Precedes
    <3> QED
      BY <1>2, <2>2, <3>4
  <2> QED
    BY <2>4, <2>5, <2>6
<1> QED
  BY <1>3, <1>5, <1>6

(* Slots sort as numbers among those with as many digits: the key writes a *)
(* slot unpadded (store_record.rs:139), so this is all that holds.         *)
THEOREM SlotsSortAsNumbers ==
  ASSUME NEW m \in Nat, NEW n \in Nat, Len(Decimal[m]) = Len(Decimal[n])
  PROVE  SlotBefore(m, n) <=> m < n
<1>1. m < n => SlotBefore(m, n)
  BY SlotsOfOneLength
<1>2. n < m => SlotBefore(n, m)
  BY SlotsOfOneLength
<1>3. ~(SlotBefore(m, n) /\ SlotBefore(n, m))
  BY SlotsAsStrings, PrecedesAsymmetric
<1> QED
  BY <1>1, <1>2, <1>3

(* A number is less than ten times any other with as many digits.          *)
LEMMA OneDigitMore ==
  ASSUME NEW m \in Nat, NEW n \in Nat, Len(Decimal[m]) = Len(Decimal[n]), m # 0
  PROVE  n < 10 * m
<1> DEFINE Bad == {j \in Nat : j # 0 /\ \E k \in Nat : Len(Decimal[j]) = Len(Decimal[k]) /\ ~(k < 10 * j)}
<1> SUFFICES ASSUME Bad # {} PROVE FALSE
  OBVIOUS
<1>1. PICK j \in Bad : \A i \in Bad : j <= i
  BY LeastNatural
<1>2. PICK k \in Nat : Len(Decimal[j]) = Len(Decimal[k]) /\ ~(k < 10 * j)
  BY <1>1
<1>3. j \in Nat /\ j # 0
  BY <1>1
<1>4. (j < 10 <=> Len(Decimal[j]) = 1) /\ (k < 10 <=> Len(Decimal[k]) = 1)
  BY <1>2, <1>3, DecimalEquations
<1>5. j >= 10 /\ k >= 10
  BY <1>2, <1>3, <1>4
<1> DEFINE i == j \div 10
           l == k \div 10
<1>6. /\ i \in Nat /\ i < j /\ Decimal[i] \in Seq(Nat)
      /\ Len(Decimal[j]) = Len(Decimal[i]) + 1
  BY <1>3, <1>5, DecimalEquations
<1>7. /\ l \in Nat /\ Decimal[l] \in Seq(Nat)
      /\ Len(Decimal[k]) = Len(Decimal[l]) + 1
  BY <1>2, <1>5, DecimalEquations
<1>8. i # 0 /\ 10 * i <= j /\ k <= 10 * l + 9
  BY <1>2, <1>3, <1>5
<1> HIDE DEF i, l
<1>9. Len(Decimal[i]) = Len(Decimal[l])
  <2>1. Len(Decimal[i]) \in Nat /\ Len(Decimal[l]) \in Nat
    BY <1>6, <1>7, LenProperties
  <2>2. Len(Decimal[i]) + 1 = Len(Decimal[l]) + 1
    BY <1>2, <1>6, <1>7
  <2> QED
    BY <2>1, <2>2
<1>10. ~(i \in Bad)
  BY <1>1, <1>3, <1>6
<1>11. l < 10 * i
  BY <1>6, <1>7, <1>8, <1>9, <1>10
<1> QED
  BY <1>2, <1>3, <1>6, <1>7, <1>8, <1>11

(* And only there: with one digit more, ten times a slot sorts before      *)
(* every later slot of the first one's length, though it is the greater.   *)
(* Retention then takes its hops first, whenever they were recorded.       *)
THEOREM LongerSlotsSortFirst ==
  ASSUME NEW m \in Nat, NEW n \in Nat, Len(Decimal[m]) = Len(Decimal[n]), m # 0, m < n
  PROVE  SlotBefore(10 * m, n) /\ n < 10 * m
<1> DEFINE s == Decimal[m]
           t == Decimal[n]
<1>1. Precedes(s, t) /\ s \in Seq(Nat) /\ t \in Seq(Nat)
  BY SlotsOfOneLength, SlotsAsStrings
<1>2. 10 * m \in Nat /\ 10 * m >= 10 /\ (10 * m) \div 10 = m /\ (10 * m) % 10 = 0
  OBVIOUS
<1>3. Decimal[10 * m] = Append(s, 0)
  BY <1>2, DecimalEquations
<1>4. Len(s) = Len(t)
  OBVIOUS
<1> HIDE DEF s, t
<1>5. PICK i \in 1 .. Len(t) :
        /\ \A l \in 1 .. i - 1 : l <= Len(s) /\ s[l] = t[l]
        /\ IF i <= Len(s) THEN s[i] < t[i] ELSE i = Len(s) + 1
  BY <1>1 DEF Precedes
<1>6. /\ \A l \in 1 .. Len(s) : Append(s, 0)[l] = s[l]
      /\ Len(Append(s, 0)) = Len(s) + 1 /\ Len(s) \in Nat
  BY <1>1, AppendProperties
<1>7. i \in 1 .. Len(s) /\ s[i] < t[i] /\ \A l \in 1 .. i - 1 : l \in 1 .. Len(s)
  BY <1>4, <1>5, <1>6
<1>8. /\ \A l \in 1 .. i - 1 : l <= Len(Append(s, 0)) /\ Append(s, 0)[l] = t[l]
      /\ i <= Len(Append(s, 0)) /\ Append(s, 0)[i] < t[i]
  BY <1>5, <1>6, <1>7
<1>9. Precedes(Append(s, 0), t)
  BY <1>5, <1>8 DEF Precedes
<1>10. SlotBefore(10 * m, n)
  BY <1>2, <1>3, <1>9, SlotsAsStrings DEF t
<1> QED
  BY <1>10, OneDigitMore
=============================================================================
