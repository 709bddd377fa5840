---------------------------- MODULE MaglevProofs ----------------------------
(***************************************************************************)
(* Theorems about the weighted backends and the Maglev table of a route,   *)
(* for any prime table size, any pods and weights and any hash function.   *)
(***************************************************************************)
EXTENDS MaglevTable, FiniteSetTheorems, WellFoundedInduction, TLAPS

\* An element of a list.
LEMMA Element == ASSUME NEW S, NEW s \in Seq(S), NEW i \in 1 .. Len(s) PROVE s[i] \in S
OBVIOUS

\* What appending to a list yields.
LEMMA Appending ==
  ASSUME NEW S, NEW s \in Seq(S), NEW t \in Seq(S)
  PROVE  /\ s \o t \in Seq(S)
         /\ Len(s \o t) = Len(s) + Len(t)
         /\ \A i \in 1 .. Len(s) + Len(t) : (s \o t)[i] = IF i <= Len(s) THEN s[i] ELSE t[i - Len(s)]
OBVIOUS

\* Every nonempty set of naturals has a least element: intervals are
\* well-founded under inclusion.
LEMMA LeastIn == ASSUME NEW S \in SUBSET Nat, S # {} PROVE \E i \in S : \A j \in S : i <= j
<1> DEFINE Below(i) == 1 .. i
           Intervals == {Below(i) : i \in S}
<1>1. Intervals \subseteq FiniteSubsetsOf(Nat)
  <2>1. ASSUME NEW i \in S PROVE Below(i) \in FiniteSubsetsOf(Nat)
    <3>1. 1 \in Int /\ i \in Int
      OBVIOUS
    <3>2. IsFiniteSet(Below(i))
      BY <3>1, FS_Interval
    <3>3. Below(i) \in SUBSET Nat
      OBVIOUS
    <3> QED
      BY <3>2, <3>3 DEF FiniteSubsetsOf
  <2> QED
    BY <2>1
<1>2. PICK R \in Intervals : \A T \in Intervals : <<T, R>> \notin StrictSubsetOrdering(Nat)
  <2>1. Intervals # {}
    BY Zenon
  <2>2. IsWellFoundedOn(StrictSubsetOrdering(Nat), FiniteSubsetsOf(Nat))
    BY FS_StrictSubsetOrderingWellFounded
  <2> HIDE DEF Intervals
  <2> QED
    BY <1>1, <2>1, <2>2, WFMin
<1>3. PICK i \in S : R = Below(i)
  OBVIOUS
<1>4. ASSUME NEW j \in S, j < i PROVE FALSE
  <2>1. i \in Below(i) /\ i \notin Below(j)
    BY <1>4
  <2>2. Below(j) \subseteq Below(i) /\ Below(j) # Below(i) /\ Below(i) \in SUBSET Nat
    BY <1>4, <2>1
  <2> HIDE DEF Below
  <2> QED
    BY <1>2, <1>3, <2>2, Zenon DEF StrictSubsetOrdering
<1> QED
  BY <1>4

\* Induction up to a bound, for the elements of a set.
LEMMA UpTo ==
  ASSUME NEW m \in Nat, NEW S, 0 \in S, \A i \in 0 .. m - 1 : i \in S => i + 1 \in S
  PROVE  \A i \in 0 .. m : i \in S
<1> DEFINE Missing == {i \in 0 .. m : i \notin S}
<1> SUFFICES ASSUME Missing # {} PROVE FALSE
  OBVIOUS
<1>0. Missing \in SUBSET Nat
  OBVIOUS
<1> HIDE DEF Missing
<1>1. PICK i \in Missing : \A j \in Missing : i <= j
  BY <1>0, LeastIn
<1> USE DEF Missing
<1>2. i # 0 /\ i - 1 \in 0 .. m - 1 /\ i - 1 \notin Missing
  BY <1>1
<1>3. (i - 1) + 1 \in S
  BY <1>2
<1> QED
  BY <1>1, <1>3
-----------------------------------------------------------------------------
(***************************************************************************)
(* A permutation of generate_permutation_compact visits every slot, since  *)
(* the table's size is a prime.                                            *)
(***************************************************************************)

\* x is a multiple of the table's size.
Multiple(x) == \E q \in Int : x = Size * q

\* A prime that divides the product of two numbers divides one of them.
LEMMA Euclid ==
  ASSUME NEW d \in 1 .. Size - 1, NEW s \in 1 .. Size - 1, Multiple(d * s)
  PROVE  FALSE
<1> USE SizeAssumption
<1> DEFINE S == {m \in 1 .. Size : Multiple(d * m)}
<1>1. s \in S
  OBVIOUS
<1>0. S \in SUBSET Nat
  OBVIOUS
<1> HIDE DEF S
<1>2. PICK m \in S : \A j \in S : m <= j
  BY <1>0, <1>1, LeastIn
<1>3. m <= s
  BY <1>1, <1>2
<1> USE DEF S
<1>12. m \in 1 .. Size - 1
  BY <1>2, <1>3
<1>4. PICK q \in Int : d * m = Size * q
  BY <1>2 DEF Multiple
<1> DEFINE r == Size % m
           k == Size \div m
<1>5. r \in 0 .. m - 1 /\ k \in Nat /\ Size = m * k + r
  BY <1>12
<1> HIDE DEF r, k
<1>6. Multiple(d * r)
  <2>1. d * r = d * (Size - m * k)
    BY <1>12, <1>5
  <2>2. d * (Size - m * k) = d * Size - (d * m) * k
    BY <1>12, <1>5
  <2>3. (d * m) * k = Size * (q * k)
    BY <1>4, <1>5
  <2>4. d * Size - Size * (q * k) = Size * (d - q * k)
    BY <1>4, <1>5
  <2>5. d - q * k \in Int
    BY <1>4, <1>5
  <2> QED
    BY <2>1, <2>2, <2>3, <2>4, <2>5 DEF Multiple
<1>7. r = 0
  <2> SUFFICES ASSUME r # 0 PROVE FALSE
    OBVIOUS
  <2>1. r \in 1 .. Size /\ r < m
    BY <1>12, <1>5
  <2> QED
    BY <1>2, <1>6, <2>1, SMTT(30)
<1>8. m = 1
  BY <1>12, <1>7 DEF r
<1>9. d = Size * q
  BY <1>4, <1>8
<1>10. CASE q <= 0
  <2>1. Size * q <= 0
    BY <1>10
  <2> QED
    BY <1>9, <2>1
<1>11. CASE q >= 1
  <2>1. Size * q >= Size
    BY <1>11
  <2> QED
    BY <1>9, <2>1
<1> QED
  BY <1>4, <1>10, <1>11

\* Within one pass, a permutation visits no slot twice.
LEMMA NoSlotTwice ==
  ASSUME NEW offset \in Nat, NEW skip \in 1 .. Size - 1, NEW i \in Slots, NEW j \in Slots, i < j,
         (offset + i * skip) % Size = (offset + j * skip) % Size
  PROVE  FALSE
<1> USE SizeAssumption
<1> DEFINE x == offset + i * skip
           y == offset + j * skip
<1>1. x \in Nat /\ y \in Nat
  BY DEF Slots
<1>2. y - x = (j - i) * skip
  BY DEF Slots
<1> HIDE DEF x, y
<1>3. x = Size * (x \div Size) + (x % Size) /\ y = Size * (y \div Size) + (y % Size)
  BY <1>1
<1> DEFINE a == x \div Size
           b == y \div Size
<1>4. a \in Int /\ b \in Int
  BY <1>1
<1>5. x % Size = y % Size
  BY DEF x, y
<1>6. y - x = Size * b - Size * a
  BY <1>1, <1>3, <1>4, <1>5
<1> HIDE DEF a, b
<1>7. y - x = Size * (b - a)
  BY <1>4, <1>6
<1>8. Multiple((j - i) * skip)
  <2>1. b - a \in Int
    BY <1>4
  <2>2. (j - i) * skip = Size * (b - a)
    BY <1>2, <1>7
  <2> QED
    BY <2>1, <2>2, Zenon DEF Multiple
<1>9. j - i \in 1 .. Size - 1
  BY DEF Slots
<1> QED
  BY <1>8, <1>9, Euclid
-----------------------------------------------------------------------------
(***************************************************************************)
(* Sums                                                                    *)
(***************************************************************************)

\* g holds the sums of the first elements of f, up to m of them.
Sums(g, f, m) == g = [i \in 0 .. m |-> IF i = 0 THEN 0 ELSE g[i - 1] + f[i]]

\* The recursive function that sums the elements of f exists.
LEMMA SumsExist == ASSUME NEW f, NEW m \in Nat PROVE \E g : Sums(g, f, m)
<1> DEFINE S == {i \in 0 .. m : \E g : Sums(g, f, i)}
<1>1. 0 \in S
  <2>1. Sums([i \in 0 .. 0 |-> 0], f, 0)
    BY DEF Sums
  <2> QED
    BY <2>1
<1>2. ASSUME NEW n \in 0 .. m - 1, n \in S PROVE n + 1 \in S
  <2>1. PICK g : Sums(g, f, n)
    BY <1>2
  <2> DEFINE h == [i \in 0 .. n + 1 |-> IF i = n + 1 THEN g[n] + f[n + 1] ELSE g[i]]
  <2>2. ASSUME NEW i \in 0 .. n + 1 PROVE h[i] = IF i = 0 THEN 0 ELSE h[i - 1] + f[i]
    BY <2>1 DEF Sums
  <2>3. Sums(h, f, n + 1)
    BY <2>2 DEF Sums
  <2> QED
    BY <2>3
<1> HIDE DEF S
<1>3. \A i \in 0 .. m : i \in S
  BY <1>1, <1>2, UpTo
<1> QED
  BY <1>3 DEF S

\* The sums do not depend on how far they are taken.
LEMMA SumsAgree ==
  ASSUME NEW f, NEW m \in Nat, NEW n \in 0 .. m, NEW g, NEW h, Sums(g, f, m), Sums(h, f, n)
  PROVE  \A i \in 0 .. n : g[i] = h[i]
<1> DEFINE S == {i \in 0 .. n : g[i] = h[i]}
<1>1. 0 \in S
  BY DEF Sums
<1>2. ASSUME NEW i \in 0 .. n - 1, i \in S PROVE i + 1 \in S
  <2>1. g[i + 1] = g[(i + 1) - 1] + f[i + 1] /\ h[i + 1] = h[(i + 1) - 1] + f[i + 1]
    BY DEF Sums
  <2>2. (i + 1) - 1 = i
    OBVIOUS
  <2> QED
    BY <1>2, <2>1, <2>2
<1> HIDE DEF S
<1>3. \A i \in 0 .. n : i \in S
  BY <1>1, <1>2, UpTo
<1> QED
  BY <1>3 DEF S

\* SumTo is the last of the sums.
LEMMA SumToIs == ASSUME NEW f, NEW m \in Nat, NEW g, Sums(g, f, m) PROVE SumTo(f, m) = g[m]
<1> DEFINE h == CHOOSE x : Sums(x, f, m)
<1>1. Sums(h, f, m)
  OBVIOUS
<1>2. SumTo(f, m) = h[m]
  BY DEF SumTo, Sums
<1> HIDE DEF h
<1> QED
  BY <1>1, <1>2, SumsAgree

\* Nothing sums to 0.
LEMMA SumToZero == ASSUME NEW f PROVE SumTo(f, 0) = 0
<1>1. PICK g : Sums(g, f, 0)
  BY SumsExist
<1>2. g[0] = 0
  BY <1>1 DEF Sums
<1> QED
  BY <1>1, <1>2, SumToIs

\* One more element is added to the sum.
LEMMA SumToNext == ASSUME NEW f, NEW m \in Nat PROVE SumTo(f, m + 1) = SumTo(f, m) + f[m + 1]
<1>1. PICK g : Sums(g, f, m + 1)
  BY SumsExist
<1>2. PICK h : Sums(h, f, m)
  BY SumsExist
<1>3. g[m] = h[m]
  BY <1>1, <1>2, SumsAgree
<1>4. g[m + 1] = g[m] + f[m + 1]
  BY <1>1 DEF Sums
<1> QED
  BY <1>1, <1>2, <1>3, <1>4, SumToIs

\* Sums of naturals are naturals and grow.
LEMMA SumToNat ==
  ASSUME NEW f, NEW m \in Nat, \A i \in 1 .. m : f[i] \in Nat
  PROVE  \A i \in 0 .. m : SumTo(f, i) \in Nat /\ SumTo(f, i) <= SumTo(f, m)
<1> DEFINE S == {i \in 0 .. m : \A j \in 0 .. i : SumTo(f, j) \in Nat /\ SumTo(f, j) <= SumTo(f, i)}
<1>1. 0 \in S
  BY SumToZero
<1>2. ASSUME NEW i \in 0 .. m - 1, i \in S PROVE i + 1 \in S
  <2>1. SumTo(f, i + 1) = SumTo(f, i) + f[i + 1] /\ f[i + 1] \in Nat
    BY SumToNext
  <2>2. SumTo(f, i + 1) \in Nat /\ SumTo(f, i) <= SumTo(f, i + 1)
    BY <1>2, <2>1
  <2>3. ASSUME NEW j \in 0 .. i + 1 PROVE SumTo(f, j) \in Nat /\ SumTo(f, j) <= SumTo(f, i + 1)
    <3>1. CASE j = i + 1
      BY <2>2, <3>1
    <3>2. CASE j \in 0 .. i
      <4>1. SumTo(f, j) \in Nat /\ SumTo(f, j) <= SumTo(f, i) /\ SumTo(f, i) \in Nat
        BY <1>2, <3>2
      <4> QED
        BY <2>2, <4>1
    <3> QED
      BY <3>1, <3>2
  <2> QED
    BY <2>3
<1> HIDE DEF S
<1>3. \A i \in 0 .. m : i \in S
  BY <1>1, <1>2, UpTo
<1> QED
  BY <1>3 DEF S

\* The sum of zeros and ones counts the ones.
LEMMA SumToCounts ==
  ASSUME NEW f, NEW m \in Nat, \A i \in 1 .. m : f[i] \in {0, 1}
  PROVE  SumTo(f, m) = Cardinality({i \in 1 .. m : f[i] = 1})
<1> DEFINE Ones(i) == {j \in 1 .. i : f[j] = 1}
           S == {i \in 0 .. m : IsFiniteSet(Ones(i)) /\ SumTo(f, i) = Cardinality(Ones(i))}
<1>1. 0 \in S
  <2>1. Ones(0) = {}
    OBVIOUS
  <2> QED
    BY <2>1, SumToZero, FS_EmptySet
<1>2. ASSUME NEW i \in 0 .. m - 1, i \in S PROVE i + 1 \in S
  <2>1. SumTo(f, i + 1) = SumTo(f, i) + f[i + 1] /\ f[i + 1] \in {0, 1}
    BY SumToNext
  <2>2. i + 1 \notin Ones(i) /\ Cardinality(Ones(i)) \in Nat
    BY <1>2, FS_CardinalityType
  <2>3. CASE f[i + 1] = 1
    <3>1. Ones(i + 1) = Ones(i) \cup {i + 1}
      BY <2>3
    <3>2. IsFiniteSet(Ones(i + 1)) /\ Cardinality(Ones(i + 1)) = Cardinality(Ones(i)) + 1
      BY <1>2, <2>2, <3>1, FS_AddElement
    <3> QED
      BY <1>2, <2>1, <2>3, <3>2
  <2>4. CASE f[i + 1] = 0
    <3>1. Ones(i + 1) = Ones(i)
      BY <2>4
    <3> QED
      BY <1>2, <2>1, <2>2, <2>4, <3>1
  <2> QED
    BY <2>1, <2>3, <2>4
<1> HIDE DEF S
<1>3. \A i \in 0 .. m : i \in S
  BY <1>1, <1>2, UpTo
<1> QED
  BY <1>3 DEF S

\* The sum of two functions.
LEMMA SumToPlus ==
  ASSUME NEW f, NEW g, NEW h, NEW m \in Nat,
         \A i \in 1 .. m : f[i] \in Nat /\ g[i] \in Nat /\ h[i] = f[i] + g[i]
  PROVE  SumTo(h, m) = SumTo(f, m) + SumTo(g, m)
<1> DEFINE S == {i \in 0 .. m : SumTo(h, i) = SumTo(f, i) + SumTo(g, i)}
<1>1. 0 \in S
  BY SumToZero
<1>2. ASSUME NEW i \in 0 .. m - 1, i \in S PROVE i + 1 \in S
  <2>1. /\ SumTo(f, i + 1) = SumTo(f, i) + f[i + 1] /\ SumTo(g, i + 1) = SumTo(g, i) + g[i + 1]
        /\ SumTo(h, i + 1) = SumTo(h, i) + h[i + 1]
    BY SumToNext
  <2>2. f[i + 1] \in Nat /\ g[i + 1] \in Nat /\ h[i + 1] = f[i + 1] + g[i + 1]
    OBVIOUS
  <2>3. SumTo(f, i) \in Nat /\ SumTo(g, i) \in Nat
    BY SumToNat
  <2> QED
    BY <1>2, <2>1, <2>2, <2>3
<1> HIDE DEF S
<1>3. \A i \in 0 .. m : i \in S
  BY <1>1, <1>2, UpTo
<1> QED
  BY <1>3 DEF S
-----------------------------------------------------------------------------
(***************************************************************************)
(* The largest-remainder method                                            *)
(***************************************************************************)

\* A resolved service has a weight and at least one pod: reconcile keeps no
\* service without endpoints.
LEMMA ServiceType ==
  ASSUME NEW ss \in ServiceLists
  PROVE  /\ Len(ss) \in Nat
         /\ \A i \in 1 .. Len(ss) : /\ ss[i].weight \in Nat
                                    /\ ss[i].pods \in Seq(Pods)
                                    /\ Len(ss[i].pods) \in Nat \ {0}
<1>1. ss \in Seq([pods : Seq(Pods) \ {<<>>}, weight : Nat])
  BY ServicesAssumption, Zenon
<1>2. ASSUME NEW i \in 1 .. Len(ss) PROVE ss[i] \in [pods : Seq(Pods) \ {<<>>}, weight : Nat]
  BY <1>1, Element, Zenon
<1>3. ASSUME NEW s \in Seq(Pods) \ {<<>>} PROVE Len(s) \in Nat \ {0}
  OBVIOUS
<1> QED
  BY <1>1, <1>2, <1>3

\* The floors of the shares sum to at most MAX_MAGLEV_BACKENDS, and fall short
\* of it by less than a slot for each service.
LEMMA FloorsFallShort ==
  ASSUME NEW w, NEW fl, NEW m \in Nat, NEW t \in Nat \ {0}, NEW max \in Nat, SumTo(w, m) = t,
         \A i \in 1 .. m : w[i] \in Nat /\ fl[i] = (w[i] * max) \div t
  PROVE  SumTo(fl, m) \in Nat /\ max - SumTo(fl, m) \in 0 .. m
<1> DEFINE Lack(i) == SumTo(w, i) * max - SumTo(fl, i) * t
           S == {i \in 0 .. m : Lack(i) \in 0 .. i * (t - 1)}
<1>0. ASSUME NEW i \in 1 .. m PROVE fl[i] \in Nat
  <2> DEFINE x == w[i] * max
  <2>1. x \in Nat /\ fl[i] = x \div t
    OBVIOUS
  <2> HIDE DEF x
  <2> QED
    BY <2>1
<1>1. 0 \in S
  BY SumToZero
<1>2. ASSUME NEW i \in 0 .. m - 1, i \in S PROVE i + 1 \in S
  <2>1. SumTo(w, i + 1) = SumTo(w, i) + w[i + 1] /\ SumTo(fl, i + 1) = SumTo(fl, i) + fl[i + 1]
    BY SumToNext
  <2>2. SumTo(w, i) \in Nat /\ SumTo(fl, i) \in Nat
    BY <1>0, SumToNat
  <2>3. w[i + 1] \in Nat /\ fl[i + 1] \in Nat
    BY <1>0
  <2> DEFINE x == w[i + 1] * max
  <2>4. x \in Nat /\ fl[i + 1] = x \div t
    BY <2>3
  <2> HIDE DEF x
  <2>5. x - fl[i + 1] * t \in 0 .. t - 1
    BY <2>4
  <2>6. Lack(i + 1) = Lack(i) + (x - fl[i + 1] * t)
    <3>1. (SumTo(w, i) + w[i + 1]) * max = SumTo(w, i) * max + x
      BY <2>2, <2>3 DEF x
    <3>2. (SumTo(fl, i) + fl[i + 1]) * t = SumTo(fl, i) * t + fl[i + 1] * t
      BY <2>2, <2>3
    <3> QED
      BY <2>1, <2>2, <2>3, <2>4, <3>1, <3>2
  <2>7. (i + 1) * (t - 1) = i * (t - 1) + (t - 1)
    OBVIOUS
  <2>8. Lack(i) \in 0 .. i * (t - 1)
    BY <1>2
  <2>9. Lack(i + 1) \in 0 .. (i + 1) * (t - 1)
    BY <2>5, <2>6, <2>7, <2>8
  <2> QED
    BY <2>9
<1> HIDE DEF S
<1>3. \A i \in 0 .. m : i \in S
  BY <1>1, <1>2, UpTo, SMTT(30)
<1>4. Lack(m) \in 0 .. m * (t - 1)
  BY <1>3 DEF S
<1>5. SumTo(fl, m) \in Nat
  BY <1>0, SumToNat
<1> DEFINE rest == max - SumTo(fl, m)
<1>6. rest \in Int /\ Lack(m) = t * rest
  BY <1>5
<1> HIDE DEF rest, Lack
<1>7. m * (t - 1) = t * m - m
  OBVIOUS
<1>8. ASSUME rest < 0 PROVE FALSE
  <2>1. t * rest < 0
    BY <1>6, <1>8
  <2> QED
    BY <1>4, <1>6, <2>1
<1>9. ASSUME rest > m PROVE FALSE
  <2>1. t * rest > t * m
    BY <1>6, <1>9
  <2> QED
    BY <1>4, <1>6, <1>7, <2>1
<1> QED
  BY <1>5, <1>6, <1>8, <1>9 DEF rest

\* How many elements an interval has.
LEMMA Count == ASSUME NEW m \in Nat PROVE /\ IsFiniteSet(1 .. m) /\ Cardinality(1 .. m) = m
                                          /\ IsFiniteSet(0 .. m - 1) /\ Cardinality(0 .. m - 1) = m
<1>1. IsFiniteSet(1 .. m) /\ Cardinality(1 .. m) = IF 1 > m THEN 0 ELSE m - 1 + 1
  BY FS_Interval
<1>2. IsFiniteSet(0 .. m - 1) /\ Cardinality(0 .. m - 1) = IF 0 > m - 1 THEN 0 ELSE m - 1 - 0 + 1
  BY FS_Interval
<1> QED
  BY <1>1, <1>2

\* The floors and remainders of the shares; the slots that the floors leave are
\* at most one per service.
LEMMA Shares ==
  ASSUME NEW ss \in ServiceLists, TotalWeight(ss) > 0
  PROVE  /\ TotalWeight(ss) \in Nat \ {0}
         /\ RemainingSlots(ss) \in 0 .. Len(ss)
         /\ \A i \in 1 .. Len(ss) : Floor(ss, i) \in Nat /\ Remainder(ss, i) \in Nat
<1> DEFINE w == [i \in 1 .. Len(ss) |-> ss[i].weight]
           fl == [i \in 1 .. Len(ss) |-> Floor(ss, i)]
           t == TotalWeight(ss)
<1>1. Len(ss) \in Nat /\ \A i \in 1 .. Len(ss) : w[i] \in Nat
  BY ServiceType
<1>2. t = SumTo(w, Len(ss))
  BY DEF TotalWeight
<1>3. t \in Nat \ {0}
  <2>1. t > 0
    OBVIOUS
  <2> HIDE DEF w, t
  <2> QED
    BY <1>1, <1>2, <2>1, SumToNat
<1>4. MaxSlots \in Nat
  BY BoundsAssumption
<1>5. ASSUME NEW i \in 1 .. Len(ss)
      PROVE  fl[i] = (w[i] * MaxSlots) \div t /\ Floor(ss, i) \in Nat /\ Remainder(ss, i) \in Nat
  <2> DEFINE x == ss[i].weight * MaxSlots
  <2>1. x \in Nat
    BY <1>1, <1>4
  <2>2. Floor(ss, i) = x \div t /\ Remainder(ss, i) = x % t
    BY DEF Floor, Remainder
  <2>3. fl[i] = Floor(ss, i) /\ w[i] * MaxSlots = x
    OBVIOUS
  <2> HIDE DEF x, t, fl, w
  <2> QED
    BY <1>3, <2>1, <2>2, <2>3
<1>6. RemainingSlots(ss) = MaxSlots - SumTo(fl, Len(ss))
  BY DEF RemainingSlots
<1> HIDE DEF w, fl, t
<1>7. MaxSlots - SumTo(fl, Len(ss)) \in 0 .. Len(ss)
  BY <1>1, <1>2, <1>3, <1>4, <1>5, FloorsFallShort, Zenon
<1> QED
  BY <1>3, <1>5, <1>6, <1>7 DEF t

\* As many services as there are ranks below r have such a rank: the sort by
\* remainder, ties by position, is a total order.
LEMMA RanksBelow ==
  ASSUME NEW ss \in ServiceLists, TotalWeight(ss) > 0, NEW r \in 0 .. Len(ss)
  PROVE  Cardinality({i \in 1 .. Len(ss) : Cardinality(Ahead(ss, i)) < r}) = r
<1> DEFINE N == Len(ss)
           Rank(i) == Cardinality(Ahead(ss, i))
           f == [i \in 1 .. N |-> Rank(i)]
           Low == {i \in 1 .. N : Rank(i) < r}
           g == [i \in Low |-> Rank(i)]
<1>1. N \in Nat /\ \A i \in 1 .. N : Remainder(ss, i) \in Nat
  BY Shares, ServiceType
<1>2. IsFiniteSet(1 .. N) /\ Cardinality(1 .. N) = N
  BY <1>1, Count
<1>3. ASSUME NEW i \in 1 .. N
      PROVE  IsFiniteSet(Ahead(ss, i)) /\ Rank(i) \in 0 .. N - 1
  <2>1. Ahead(ss, i) \in SUBSET (1 .. N) /\ i \notin Ahead(ss, i)
    BY <1>1 DEF Ahead
  <2>2. IsFiniteSet(Ahead(ss, i)) /\ Rank(i) <= N /\ (N = Rank(i) => 1 .. N = Ahead(ss, i))
    BY <1>2, <2>1, FS_Subset
  <2>3. Rank(i) \in Nat
    BY <2>2, FS_CardinalityType
  <2>4. Rank(i) # N
    BY <2>1, <2>2
  <2> HIDE DEF Rank
  <2> QED
    BY <1>1, <2>2, <2>3, <2>4
<1>4. ASSUME NEW i \in 1 .. N, NEW j \in 1 .. N, i \in Ahead(ss, j) PROVE Rank(i) < Rank(j)
  <2>1. Ahead(ss, i) \in SUBSET Ahead(ss, j) /\ i \notin Ahead(ss, i)
    BY <1>1, <1>4 DEF Ahead
  <2>2. Ahead(ss, i) # Ahead(ss, j)
    BY <1>4, <2>1
  <2>3. IsFiniteSet(Ahead(ss, j))
    BY <1>3
  <2>4. Rank(i) <= Rank(j) /\ Rank(i) # Rank(j)
    BY <2>1, <2>2, <2>3, FS_Subset
  <2>5. Rank(i) \in 0 .. N - 1 /\ Rank(j) \in 0 .. N - 1
    BY <1>3
  <2> HIDE DEF Rank
  <2> QED
    BY <1>1, <2>4, <2>5
<1>5. ASSUME NEW i \in 1 .. N, NEW j \in 1 .. N, i # j PROVE Rank(i) # Rank(j)
  <2>1. i \in Ahead(ss, j) \/ j \in Ahead(ss, i)
    BY <1>1, <1>5 DEF Ahead
  <2>2. Rank(i) < Rank(j) \/ Rank(j) < Rank(i)
    BY <1>4, <2>1
  <2>3. Rank(i) \in 0 .. N - 1 /\ Rank(j) \in 0 .. N - 1
    BY <1>3
  <2> HIDE DEF Rank
  <2> QED
    BY <1>1, <2>2, <2>3
<1> HIDE DEF Rank
<1>6. f \in Injection(1 .. N, 0 .. N - 1)
  BY <1>3, <1>5 DEF Injection, IsInjective
<1>7. IsFiniteSet(0 .. N - 1) /\ Cardinality(0 .. N - 1) = N
  BY <1>1, Count
<1>8. f \in Surjection(1 .. N, 0 .. N - 1)
  <2> HIDE DEF f, N
  <2> QED
    BY <1>2, <1>6, <1>7, FS_Injection
<1>9. g \in Bijection(Low, 0 .. r - 1)
  <2>1. g \in [Low -> 0 .. r - 1]
    BY <1>1, <1>3
  <2>2. ASSUME NEW i \in Low, NEW j \in Low, g[i] = g[j] PROVE i = j
    BY <1>5, <2>2
  <2>3. ASSUME NEW x \in 0 .. r - 1 PROVE \E i \in Low : g[i] = x
    <3>1. x \in 0 .. N - 1
      BY <1>1
    <3>2. PICK i \in 1 .. N : f[i] = x
      BY <1>8, <3>1, Zenon DEF Surjection
    <3>3. i \in Low /\ g[i] = x
      BY <3>2
    <3> QED
      BY <3>3
  <2> QED
    BY <2>1, <2>2, <2>3 DEF Bijection, Injection, Surjection, IsInjective
<1>10. IsFiniteSet(Low)
  <2>1. Low \in SUBSET (1 .. N)
    OBVIOUS
  <2> QED
    BY <1>2, <2>1, FS_Subset
<1>11. IsFiniteSet(0 .. r - 1) /\ Cardinality(0 .. r - 1) = r
  BY <1>1, Count
<1>12. ExistsBijection(Low, 0 .. r - 1)
  BY <1>9 DEF ExistsBijection
<1>13. Cardinality(0 .. r - 1) = Cardinality(Low)
  <2> HIDE DEF Low
  <2> QED
    BY <1>10, <1>12, FS_Bijection
<1> QED
  BY <1>11, <1>13 DEF Rank

\* The slots of the services sum to exactly MAX_MAGLEV_BACKENDS.
LEMMA SlotsSum ==
  ASSUME NEW ss \in ServiceLists, TotalWeight(ss) > 0
  PROVE  SumTo([i \in 1 .. Len(ss) |-> ServiceSlots(ss, i)], Len(ss)) = MaxSlots
<1> DEFINE N == Len(ss)
           Extra(i) == IF Cardinality(Ahead(ss, i)) < RemainingSlots(ss) THEN 1 ELSE 0
           fl == [i \in 1 .. N |-> Floor(ss, i)]
           ex == [i \in 1 .. N |-> Extra(i)]
           sl == [i \in 1 .. N |-> ServiceSlots(ss, i)]
<1>1. N \in Nat /\ RemainingSlots(ss) \in 0 .. N /\ \A i \in 1 .. N : Floor(ss, i) \in Nat
  BY Shares, ServiceType
<1>2. \A i \in 1 .. N : fl[i] \in Nat /\ ex[i] \in Nat /\ ex[i] \in {0, 1} /\ sl[i] = fl[i] + ex[i]
  BY <1>1 DEF ServiceSlots
<1>3. {i \in 1 .. N : ex[i] = 1} = {i \in 1 .. N : Cardinality(Ahead(ss, i)) < RemainingSlots(ss)}
  OBVIOUS
<1>4. Cardinality({i \in 1 .. N : ex[i] = 1}) = RemainingSlots(ss)
  BY <1>1, <1>3, RanksBelow, Zenon
<1>5. RemainingSlots(ss) = MaxSlots - SumTo(fl, N)
  BY DEF RemainingSlots
<1> HIDE DEF fl, ex, sl, N
<1>6. SumTo(sl, N) = SumTo(fl, N) + SumTo(ex, N)
  BY <1>1, <1>2, SumToPlus
<1>7. SumTo(ex, N) = RemainingSlots(ss)
  BY <1>1, <1>2, <1>4, SumToCounts
<1>8. SumTo(fl, N) \in Nat
  BY <1>1, <1>2, SumToNat
<1>9. MaxSlots \in Nat
  BY BoundsAssumption
<1>10. SumTo(sl, N) = MaxSlots
  BY <1>5, <1>6, <1>7, <1>8, <1>9
<1> QED
  BY <1>10 DEF sl, N
-----------------------------------------------------------------------------
(***************************************************************************)
(* The inductive invariant                                                 *)
(***************************************************************************)

HasBackends == phase \in {"fill", "ready", "probe", "chosen"}

\* How many pods the first i services have.
PodsTo(ss, i) == SumTo([x \in 1 .. Len(ss) |-> Len(ss[x].pods)], i)

\* The pods of the i-th service are in bs where the first round puts them.
Laid(ss, bs, i) ==
  \A j \in 1 .. Len(ss[i].pods) :
    PodsTo(ss, i - 1) + j <= Len(bs) /\ bs[PodsTo(ss, i - 1) + j] = ss[i].pods[j]

AllLaid == \A i \in 1 .. Len(services) : Laid(services, backends, i)

\* The interleaving has laid out the pods of the services it has passed, and
\* truncation keeps them if they fit.
InterleaveOK ==
  /\ phase \in {"resolved", "none"} => backends = <<>> /\ round = 1 /\ turn = 1
  /\ phase \in {"interleave", "trim"} \/ HasBackends => TotalWeight(services) > 0
  /\ phase = "interleave" =>
       /\ turn \in 1 .. Len(services)
       /\ IF round = 1
          THEN /\ Len(backends) = PodsTo(services, turn - 1)
               /\ \A i \in 1 .. turn - 1 : Laid(services, backends, i)
          ELSE AllLaid
  /\ phase = "trim" => turn = 1 /\ AllLaid
  /\ HasBackends => /\ Len(backends) \in 1 .. MaxSlots
                    /\ PodCount(services) <= MaxSlots => AllLaid

\* Permutation p visits a slot in lap j before the loop gets to where it is.
Visited(p, j) == j < lap \/ (j = lap /\ p < turn)

\* The slot belongs to its first visitor.
Owned(c) == \E p \in PermIndices, j \in Slots : FirstVisit(c, p, j) /\ maglev_table[c] = Index(p)

\* The filled slots are those that have been visited; each belongs to its first
\* visitor.
FilledOK ==
  /\ lap < Size
  /\ ~ HasBackends => maglev_table = [c \in Slots |-> 0] /\ filled = {} /\ lap = 0
  /\ HasBackends => turn \in PermIndices /\ \A c \in filled : Owned(c)
  /\ phase = "fill" => /\ filled # Slots
                       /\ \A p \in PermIndices, j \in Slots : Visited(p, j) => Perm(p, j) \in filled
  /\ phase \in {"ready", "probe", "chosen"} => filled = Slots

\* The probing request has been refused by the backend of every slot so far.
SelectOK ==
  /\ phase = "probe" => /\ tried = refused /\ chosen = NoBackend
                        /\ refused \subseteq 0 .. Len(backends) - 1
                        /\ \A b \in 0 .. attempt - 1 : At(b) \in refused
  /\ SelectsFirstHealthy

MaglevInv == MTypeOK /\ InterleaveOK /\ FilledOK /\ SelectOK
-----------------------------------------------------------------------------
(***************************************************************************)
(* The permutations                                                        *)
(***************************************************************************)

\* A permutation belongs to one of the backends.
LEMMA IndexRange ==
  ASSUME NEW p \in PermIndices, Len(backends) \in Nat
  PROVE  Index(p) \in 0 .. Len(backends) - 1
<1> DEFINE L == Len(backends)
           q == (p - 1) \div Repetitions
<1>1. Repetitions \in Nat \ {0}
  BY BoundsAssumption
<1>2. L * Repetitions \in Nat /\ p \in 1 .. L * Repetitions
  BY <1>1 DEF PermIndices
<1>3. p - 1 \in Nat
  BY <1>2
<1>4. q \in Nat /\ q * Repetitions <= p - 1
  BY <1>1, <1>3
<1>5. q * Repetitions < L * Repetitions
  BY <1>1, <1>2, <1>4
<1> HIDE DEF q
<1>6. ASSUME q >= L PROVE FALSE
  <2>1. q * Repetitions >= L * Repetitions
    BY <1>1, <1>4, <1>6
  <2> QED
    BY <1>1, <1>2, <1>4, <1>5, <2>1
<1> QED
  BY <1>4, <1>6 DEF Index, q

\* The seeds of a permutation are among those the hash is defined for.
LEMMA SeedRange ==
  ASSUME NEW p \in PermIndices, Len(backends) \in 1 .. MaxSlots
  PROVE  {Seed(p), Seed(p) + 1} \subseteq 0 .. MaxSlots * SeedStride + Repetitions
<1> DEFINE i == Index(p)
           r == (p - 1) % Repetitions
<1>1. {MaxSlots, SeedStride, Repetitions} \subseteq Nat \ {0}
  BY BoundsAssumption
<1>2. i \in 0 .. MaxSlots - 1
  BY <1>1, IndexRange
<1>3. r \in 0 .. Repetitions - 1
  <2>1. p - 1 \in Nat
    BY <1>1 DEF PermIndices
  <2> QED
    BY <1>1, <2>1
<1>4. Seed(p) = i * SeedStride + r
  BY DEF Seed
<1> HIDE DEF i, r
<1>5. i * SeedStride \in Nat /\ i * SeedStride <= MaxSlots * SeedStride
  BY <1>1, <1>2
<1>6. MaxSlots * SeedStride \in Nat
  BY <1>1
<1> QED
  BY <1>1, <1>3, <1>4, <1>5, <1>6, SMTT(30)

\* What generate_permutation_compact computes: the multiples of a skip that is
\* not 0, from an offset.
LEMMA PermShape ==
  ASSUME MTypeOK, Len(backends) \in 1 .. MaxSlots, NEW p \in PermIndices
  PROVE  \E offset \in Nat, skip \in 1 .. Size - 1 : \A j : Perm(p, j) = (offset + j * skip) % Size
<1> DEFINE pod == backends[Index(p) + 1]
           x == hash[<<pod, Seed(p)>>]
           y == hash[<<pod, Seed(p) + 1>>]
<1>1. pod \in Pods
  <2>1. Index(p) + 1 \in 1 .. Len(backends)
    BY BoundsAssumption, IndexRange, SMTT(30)
  <2>2. backends \in Seq(Pods)
    BY DEF MTypeOK
  <2> QED
    BY <2>1, <2>2
<1>2. x \in Nat /\ y \in Nat
  BY <1>1, SeedRange, HashesAssumption DEF MTypeOK
<1>3. \A j : Perm(p, j) = ((x % Size) + j * ((y % (Size - 1)) + 1)) % Size
  BY DEF Perm
<1> HIDE DEF x, y
<1>4. x % Size \in Nat
  BY <1>2, SizeAssumption
<1>5. (y % (Size - 1)) + 1 \in 1 .. Size - 1
  <2> DEFINE m == Size - 1
  <2>1. m \in Nat \ {0}
    BY SizeAssumption
  <2> HIDE DEF m
  <2>2. y % m \in 0 .. m - 1
    BY <1>2, <2>1
  <2>3. (y % m) + 1 \in 1 .. m
    BY <2>1, <2>2
  <2> QED
    BY <2>3 DEF m
<1> QED
  BY <1>3, <1>4, <1>5

\* A permutation visits slots of the table.
LEMMA PermSlot ==
  ASSUME MTypeOK, Len(backends) \in 1 .. MaxSlots, NEW p \in PermIndices, NEW j \in Nat
  PROVE  Perm(p, j) \in Slots
<1>1. PICK offset \in Nat, skip \in 1 .. Size - 1 : \A i : Perm(p, i) = (offset + i * skip) % Size
  BY PermShape
<1>2. offset + j * skip \in Nat
  BY SizeAssumption
<1>3. (offset + j * skip) % Size \in Slots
  BY <1>2, SizeAssumption DEF Slots
<1> QED
  BY <1>1, <1>3

\* Each permutation visits every slot, so that the table is full after at most
\* Size laps.
LEMMA VisitsEverySlot ==
  ASSUME MTypeOK, Len(backends) \in 1 .. MaxSlots, NEW p \in PermIndices, NEW c \in Slots
  PROVE  \E j \in Slots : Perm(p, j) = c
<1> DEFINE f == [j \in Slots |-> Perm(p, j)]
<1>1. PICK offset \in Nat, skip \in 1 .. Size - 1 : \A i : Perm(p, i) = (offset + i * skip) % Size
  BY PermShape
<1>2. f \in [Slots -> Slots]
  BY PermSlot, SizeAssumption, SMTT(30) DEF Slots
<1>3. ASSUME NEW i \in Slots, NEW j \in Slots, f[i] = f[j] PROVE i = j
  <2>1. (offset + i * skip) % Size = (offset + j * skip) % Size
    BY <1>1, <1>3
  <2>2. ~ (i < j) /\ ~ (j < i)
    BY <2>1, NoSlotTwice
  <2> QED
    BY <2>2, SizeAssumption DEF Slots
<1>4. f \in Injection(Slots, Slots)
  BY <1>2, <1>3 DEF Injection, IsInjective
<1>5. IsFiniteSet(Slots)
  BY SizeAssumption, Count, SMTT(30) DEF Slots
<1> HIDE DEF f
<1>6. f \in Surjection(Slots, Slots)
  BY <1>4, <1>5, FS_Injection
<1> QED
  BY <1>6, Zenon DEF Surjection, f
-----------------------------------------------------------------------------
(***************************************************************************)
(* The interleaving                                                        *)
(***************************************************************************)

\* Where there is weight, there is a service.
LEMMA HasServices == ASSUME NEW ss \in ServiceLists, TotalWeight(ss) > 0 PROVE Len(ss) \in Nat \ {0}
<1>1. Len(ss) \in Nat
  BY ServiceType
<1>2. ASSUME Len(ss) = 0 PROVE FALSE
  <2>1. TotalWeight(ss) = 0
    BY <1>2, SumToZero DEF TotalWeight
  <2> QED
    BY <2>1
<1> QED
  BY <1>1, <1>2

\* Every service gets a replica of its pods: the code raises a count of 0 to 1.
LEMMA ReplicasPositive ==
  ASSUME NEW ss \in ServiceLists, TotalWeight(ss) > 0, NEW i \in 1 .. Len(ss)
  PROVE  Replicas(ss, i) \in Nat \ {0}
<1> DEFINE a == ServiceSlots(ss, i) + Len(ss[i].pods) - 1
           b == Len(ss[i].pods)
<1>1. ServiceSlots(ss, i) \in Nat /\ b \in Nat \ {0}
  BY Shares, ServiceType DEF ServiceSlots
<1>2. a \in Nat
  BY <1>1
<1>3. Replicas(ss, i) = IF a \div b = 0 THEN 1 ELSE a \div b
  BY DEF Replicas, CeilDiv
<1> HIDE DEF a, b
<1>4. a \div b \in Nat
  BY <1>1, <1>2
<1> QED
  BY <1>3, <1>4

\* The pods of the services up to the i-th, counted.
LEMMA PodsToFacts ==
  ASSUME NEW ss \in ServiceLists, NEW i \in 1 .. Len(ss)
  PROVE  /\ PodsTo(ss, 0) = 0
         /\ PodsTo(ss, i - 1) \in Nat
         /\ PodsTo(ss, i) = PodsTo(ss, i - 1) + Len(ss[i].pods)
         /\ PodsTo(ss, i) <= PodCount(ss)
         /\ PodCount(ss) \in Nat
<1> DEFINE f == [x \in 1 .. Len(ss) |-> Len(ss[x].pods)]
<1>1. Len(ss) \in Nat /\ \A x \in 1 .. Len(ss) : f[x] \in Nat
  BY ServiceType
<1>2. f[i] = Len(ss[i].pods)
  OBVIOUS
<1>3. \A x : PodsTo(ss, x) = SumTo(f, x)
  BY DEF PodsTo
<1>4. PodCount(ss) = SumTo(f, Len(ss))
  BY DEF PodCount
<1> HIDE DEF f
<1>5. i - 1 \in Nat /\ (i - 1) + 1 = i /\ i - 1 \in 0 .. Len(ss) /\ i \in 0 .. Len(ss) /\ Len(ss) \in 0 .. Len(ss)
  BY <1>1
<1>6. SumTo(f, 0) = 0
  BY SumToZero
<1>7. SumTo(f, i) = SumTo(f, i - 1) + f[i]
  BY <1>5, SumToNext
<1>8. SumTo(f, i - 1) \in Nat /\ SumTo(f, i) <= SumTo(f, Len(ss)) /\ SumTo(f, Len(ss)) \in Nat
  BY <1>1, <1>5, SumToNat
<1> QED
  BY <1>2, <1>3, <1>4, <1>6, <1>7, <1>8

\* What is laid out stays where it is when the list of backends grows.
LEMMA LaidExtends ==
  ASSUME NEW ss \in ServiceLists, NEW i \in 1 .. Len(ss), NEW bs \in Seq(Pods), NEW xs \in Seq(Pods),
         Laid(ss, bs, i)
  PROVE  Laid(ss, bs \o xs, i)
<1> SUFFICES ASSUME NEW j \in 1 .. Len(ss[i].pods)
             PROVE  /\ PodsTo(ss, i - 1) + j <= Len(bs \o xs)
                    /\ (bs \o xs)[PodsTo(ss, i - 1) + j] = ss[i].pods[j]
  BY Zenon DEF Laid
<1> DEFINE b == PodsTo(ss, i - 1) + j
<1>1. b <= Len(bs) /\ bs[b] = ss[i].pods[j]
  BY DEF Laid
<1>2. b \in Nat \ {0}
  BY PodsToFacts, ServiceType, SMTT(30)
<1>3. Len(bs) \in Nat /\ Len(xs) \in Nat
  OBVIOUS
<1> HIDE DEF b
<1>4. b \in 1 .. Len(bs) + Len(xs)
  BY <1>1, <1>2, <1>3
<1>5. Len(bs \o xs) = Len(bs) + Len(xs) /\ (bs \o xs)[b] = bs[b]
  BY <1>1, <1>4, Appending
<1> QED
  BY <1>1, <1>2, <1>3, <1>5 DEF b

\* The turn of a service in the first round lays out its pods.
LEMMA LaidNext ==
  ASSUME NEW ss \in ServiceLists, NEW i \in 1 .. Len(ss), NEW bs \in Seq(Pods), Len(bs) = PodsTo(ss, i - 1)
  PROVE  /\ Laid(ss, bs \o ss[i].pods, i)
         /\ Len(bs \o ss[i].pods) = PodsTo(ss, i)
<1> DEFINE xs == ss[i].pods
<1>1. xs \in Seq(Pods) /\ Len(xs) \in Nat /\ Len(bs) \in Nat
  BY ServiceType
<1>2. Len(bs \o xs) = Len(bs) + Len(xs)
  BY <1>1, Appending, Zenon
<1>3. PodsTo(ss, i) = PodsTo(ss, i - 1) + Len(xs)
  BY PodsToFacts
<1>4. ASSUME NEW j \in 1 .. Len(xs) PROVE Len(bs) + j <= Len(bs \o xs) /\ (bs \o xs)[Len(bs) + j] = xs[j]
  <2> HIDE DEF xs
  <2>1. Len(bs) + j \in 1 .. Len(bs) + Len(xs) /\ ~ (Len(bs) + j <= Len(bs)) /\ (Len(bs) + j) - Len(bs) = j
    BY <1>1
  <2> QED
    BY <1>1, <1>2, <2>1, Appending
<1> QED
  BY <1>2, <1>3, <1>4, SMTT(30) DEF Laid

\* The truncation keeps the first round of pods that fit the table.
LEMMA LaidTrim ==
  ASSUME NEW ss \in ServiceLists, NEW i \in 1 .. Len(ss), NEW bs \in Seq(Pods), Laid(ss, bs, i),
         Len(bs) > MaxSlots, PodCount(ss) <= MaxSlots
  PROVE  Laid(ss, SubSeq(bs, 1, MaxSlots), i)
<1> DEFINE cut == SubSeq(bs, 1, MaxSlots)
<1>0. MaxSlots \in Nat \ {0} /\ Len(bs) \in Nat
  BY BoundsAssumption
<1>1. Len(cut) = MaxSlots /\ \A b \in 1 .. MaxSlots : cut[b] = bs[b]
  BY <1>0
<1> HIDE DEF cut
<1> SUFFICES ASSUME NEW j \in 1 .. Len(ss[i].pods)
             PROVE  PodsTo(ss, i - 1) + j <= Len(cut) /\ cut[PodsTo(ss, i - 1) + j] = ss[i].pods[j]
  BY Zenon DEF Laid, cut
<1> DEFINE b == PodsTo(ss, i - 1) + j
<1>2. bs[b] = ss[i].pods[j]
  BY DEF Laid
<1>3. b \in 1 .. MaxSlots
  <2>1. /\ PodsTo(ss, i - 1) \in Nat /\ PodsTo(ss, i) = PodsTo(ss, i - 1) + Len(ss[i].pods)
        /\ PodsTo(ss, i) <= PodCount(ss) /\ PodCount(ss) \in Nat
    BY PodsToFacts
  <2>2. Len(ss[i].pods) \in Nat
    BY ServiceType
  <2> QED
    BY <1>0, <2>1, <2>2, SMTT(30)
<1> HIDE DEF b
<1> QED
  BY <1>0, <1>1, <1>2, <1>3 DEF b

\* The steps that leave the rule's services and backends alone.
LEMMA InterleaveKept ==
  ASSUME InterleaveOK, UNCHANGED rule,
         \/ HasBackends /\ HasBackends'
         \/ phase' = phase /\ turn' = turn
  PROVE  InterleaveOK'
<1>1. services' = services /\ backends' = backends /\ round' = round
  BY DEF rule
<1>2. AllLaid' = AllLaid
  BY <1>1 DEF AllLaid
<1>3. TotalWeight(services)' = TotalWeight(services) /\ PodCount(services)' = PodCount(services)
  BY <1>1
<1>4. CASE HasBackends /\ HasBackends'
  BY <1>1, <1>2, <1>3, <1>4 DEF InterleaveOK, HasBackends
<1>5. CASE phase' = phase /\ turn' = turn
  BY <1>1, <1>2, <1>3, <1>5 DEF InterleaveOK, HasBackends
<1> QED
  BY <1>4, <1>5

\* Every step keeps the layout of the first round.
LEMMA InterleaveStep ==
  ASSUME MTypeOK, InterleaveOK, MTypeOK', [MNext]_mvars
  PROVE  InterleaveOK'
<1>0. services \in ServiceLists /\ backends \in Seq(Pods) /\ Len(backends) \in Nat
  BY DEF MTypeOK
<1>1. CASE Allocate
  <2>1. /\ phase = "resolved" /\ phase' \in {"interleave", "none"} /\ turn' = turn /\ services' = services
        /\ backends' = backends /\ round' = round /\ (phase' = "interleave" => TotalWeight(services) > 0)
    BY <1>1 DEF Allocate, rule
  <2>2. backends = <<>> /\ round = 1 /\ turn = 1
    BY <2>1 DEF InterleaveOK
  <2>3. CASE phase' = "none"
    BY <2>1, <2>2, <2>3 DEF InterleaveOK, HasBackends
  <2>4. CASE phase' = "interleave"
    <3>1. Len(services) \in Nat \ {0}
      BY <1>0, <2>1, <2>4, HasServices
    <3>2. PodsTo(services, 0) = 0
      BY SumToZero DEF PodsTo
    <3>3. Len(backends) = PodsTo(services, 0) /\ 1 - 1 = 0 /\ 1 .. 0 = {}
      BY <2>2, <3>2
    <3> QED
      BY <2>1, <2>2, <2>4, <3>1, <3>3 DEF InterleaveOK, HasBackends
  <2> QED
    BY <2>1, <2>3, <2>4
<1>2. CASE InterleaveTurn
  <2>1. /\ phase = "interleave" /\ services' = services
        /\ backends' = IF round <= Replicas(services, turn) THEN backends \o services[turn].pods ELSE backends
        /\ \/ turn < Len(services) /\ turn' = turn + 1 /\ round' = round /\ phase' = "interleave"
           \/ /\ turn' = 1 /\ round' = round + 1 /\ ~ (turn < Len(services))
              /\ phase' = "trim" \/ phase' = "interleave"
    BY <1>2 DEF InterleaveTurn
  <2>2. /\ turn \in 1 .. Len(services) /\ TotalWeight(services) > 0 /\ round \in Nat \ {0}
        /\ Len(services) \in Nat
    BY <1>0, <2>1, ServiceType, Zenon DEF InterleaveOK, MTypeOK
  <2>3. services[turn].pods \in Seq(Pods)
    BY <1>0, <2>2, ServiceType
  <2>4. ASSUME NEW i \in 1 .. Len(services), Laid(services, backends, i) PROVE Laid(services, backends', i)
    BY <1>0, <2>1, <2>3, <2>4, LaidExtends
  <2>5. CASE round = 1
    <3>1. backends' = backends \o services[turn].pods
      BY <1>0, <2>1, <2>2, <2>5, ReplicasPositive, SMTT(30)
    <3>2. Len(backends) = PodsTo(services, turn - 1) /\ \A i \in 1 .. turn - 1 : Laid(services, backends, i)
      BY <2>1, <2>5 DEF InterleaveOK
    <3>3. Laid(services, backends', turn) /\ Len(backends') = PodsTo(services, turn)
      BY <1>0, <2>2, <3>1, <3>2, LaidNext
    <3>4. \A i \in 1 .. turn : Laid(services, backends', i)
      BY <2>2, <2>4, <3>2, <3>3
    <3>5. CASE turn < Len(services) /\ turn' = turn + 1 /\ round' = round /\ phase' = "interleave"
      <4>1. turn' - 1 = turn /\ turn' \in 1 .. Len(services)
        BY <2>2, <3>5
      <4> QED
        BY <2>1, <2>2, <2>5, <3>3, <3>4, <3>5, <4>1, ZenonT(30) DEF InterleaveOK, HasBackends
    <3>6. CASE turn' = 1 /\ round' = round + 1 /\ ~ (turn < Len(services)) /\ (phase' = "trim" \/ phase' = "interleave")
      <4>1. turn = Len(services) /\ turn' \in 1 .. Len(services) /\ round' # 1
        BY <2>2, <2>5, <3>6
      <4>2. AllLaid'
        BY <2>1, <3>4, <4>1 DEF AllLaid
      <4> QED
        BY <2>1, <2>2, <3>6, <4>1, <4>2 DEF InterleaveOK, HasBackends
    <3> QED
      BY <2>1, <3>5, <3>6
  <2>6. CASE round # 1
    <3>1. AllLaid'
      BY <2>1, <2>4, <2>6 DEF InterleaveOK, AllLaid
    <3>2. turn' \in 1 .. Len(services) /\ round' # 1
      BY <2>1, <2>2, <2>6
    <3> QED
      BY <2>1, <2>2, <3>1, <3>2 DEF InterleaveOK, HasBackends
  <2> QED
    BY <2>5, <2>6
<1>3. CASE Trim
  <2>1. /\ phase = "trim" /\ phase' = "fill" /\ services' = services
        /\ backends' = IF Len(backends) > MaxSlots THEN SubSeq(backends, 1, MaxSlots) ELSE backends
    BY <1>3 DEF Trim
  <2>2. AllLaid /\ TotalWeight(services) > 0
    BY <2>1 DEF InterleaveOK
  <2>3. Len(backends) >= 1
    <3>1. 1 \in 1 .. Len(services)
      BY <1>0, <2>2, HasServices
    <3>2. Laid(services, backends, 1) /\ 1 - 1 = 0
      BY <2>2, <3>1 DEF AllLaid
    <3>3. 1 \in 1 .. Len(services[1].pods)
      BY <1>0, <3>1, ServiceType
    <3>4. PodsTo(services, 0) = 0
      BY <1>0, <3>1, PodsToFacts, Zenon
    <3> QED
      BY <3>2, <3>3, <3>4 DEF Laid
  <2>4. MaxSlots \in Nat \ {0}
    BY BoundsAssumption
  <2>5. Len(backends') \in 1 .. MaxSlots
    BY <1>0, <2>1, <2>3, <2>4
  <2>6. ASSUME PodCount(services) <= MaxSlots PROVE AllLaid'
    <3>1. ASSUME NEW i \in 1 .. Len(services) PROVE Laid(services, backends', i)
      BY <1>0, <2>1, <2>2, <2>6, LaidTrim DEF AllLaid
    <3> QED
      BY <2>1, <3>1 DEF AllLaid
  <2> QED
    BY <2>1, <2>2, <2>5, <2>6, Zenon DEF InterleaveOK, HasBackends
<1>4. CASE \E ss \in ServiceLists : Reconcile(ss)
  BY <1>4 DEF Reconcile, InterleaveOK, HasBackends
<1>5. CASE UNCHANGED mvars
  BY <1>5, InterleaveKept DEF mvars
<1>6. CASE Fill \/ Probe \/ Answered \/ \E f, healthy : Select(f, healthy)
  <2>1. UNCHANGED rule /\ HasBackends /\ HasBackends'
    BY <1>6, Zenon DEF Fill, Probe, Answered, Select, HasBackends, Exhausted, AlreadyTried, Refused, Healthy
  <2> QED
    BY <2>1, InterleaveKept, SMTT(30)
<1> QED
  BY <1>1, <1>2, <1>3, <1>4, <1>5, <1>6 DEF MNext
-----------------------------------------------------------------------------
(***************************************************************************)
(* The table                                                               *)
(***************************************************************************)

\* Every step keeps the types.
LEMMA MTypeStep ==
  ASSUME MTypeOK, InterleaveOK, FilledOK, [MNext]_mvars
  PROVE  MTypeOK'
<1>0. Size \in Nat /\ Size > 1 /\ {Repetitions, MaxSlots, FlowMod} \subseteq Nat \ {0}
  BY SizeAssumption, BoundsAssumption
<1>1. CASE Allocate
  BY <1>1 DEF Allocate, rule, building, selection, MTypeOK
<1>2. CASE InterleaveTurn
  <2>1. turn \in 1 .. Len(services) /\ services \in ServiceLists
    BY <1>2 DEF InterleaveTurn, InterleaveOK, MTypeOK
  <2>2. services[turn].pods \in Seq(Pods)
    BY <2>1, ServiceType
  <2>3. backends' \in Seq(Pods)
    BY <1>2, <2>2, Appending, Zenon DEF InterleaveTurn, MTypeOK
  <2>4. turn' \in Nat \ {0} /\ round' \in Nat \ {0} /\ phase' \in {"interleave", "trim"}
    BY <1>2, <2>1 DEF InterleaveTurn, MTypeOK
  <2> QED
    BY <1>2, <2>3, <2>4 DEF InterleaveTurn, building, selection, MTypeOK
<1>3. CASE Trim
  <2>1. backends' \in Seq(Pods)
    BY <1>0, <1>3 DEF Trim, MTypeOK
  <2> QED
    BY <1>3, <2>1 DEF Trim, building, selection, MTypeOK
<1>4. CASE Fill
  <2> DEFINE c == Perm(turn, lap % Size)
  <2>1. turn \in PermIndices /\ Len(backends) \in 1 .. MaxSlots /\ lap \in Nat
    BY <1>4, Zenon DEF Fill, FilledOK, InterleaveOK, HasBackends, MTypeOK
  <2>2. c \in Slots
    <3>1. lap % Size \in Nat
      BY <1>0, <2>1
    <3> QED
      BY <2>1, <3>1, PermSlot
  <2>3. Index(turn) \in Nat
    BY <1>0, <2>1, IndexRange
  <2> HIDE DEF c
  <2>4. /\ maglev_table' = [maglev_table EXCEPT ![c] = IF Claims(c) THEN Index(turn) ELSE @]
        /\ filled' = filled \union {c} /\ phase' \in {"fill", "ready"}
        /\ (turn' = turn \/ turn' = turn + 1 \/ turn' = 1) /\ (lap' = lap \/ lap' = lap + 1)
    BY <1>4 DEF Fill, c
  <2>5. maglev_table' \in [Slots -> Nat] /\ filled' \subseteq Slots
    BY <2>2, <2>3, <2>4 DEF MTypeOK
  <2>6. turn' \in Nat \ {0} /\ lap' \in Nat
    BY <2>4 DEF MTypeOK
  <2> QED
    BY <1>4, <2>4, <2>5, <2>6, ZenonT(30) DEF Fill, rule, selection, MTypeOK
<1>5. CASE \E ss \in ServiceLists : Reconcile(ss)
  BY <1>5 DEF Reconcile, MTypeOK
<1>6. CASE \E f \in 0 .. FlowMod - 1 : \E healthy : Select(f, healthy)
  BY <1>0, <1>6 DEF Select, rule, building, MTypeOK
<1>7. CASE Probe
  <2>1. attempt' \in Nat /\ phase' \in {"probe", "chosen"}
    BY <1>7 DEF Probe, Exhausted, AlreadyTried, Refused, Healthy, MTypeOK
  <2> QED
    BY <1>7, <2>1 DEF Probe, rule, building, MTypeOK
<1>8. CASE Answered
  BY <1>8 DEF Answered, rule, building, MTypeOK
<1>9. CASE UNCHANGED mvars
  BY <1>9 DEF mvars, rule, building, selection, MTypeOK
<1> QED
  BY <1>1, <1>2, <1>3, <1>4, <1>5, <1>6, <1>7, <1>8, <1>9 DEF MNext

\* The steps that leave the table and what it is built from alone.
LEMMA FilledKept ==
  ASSUME FilledOK, UNCHANGED <<hash, backends, turn, building>>,
         \/ phase' = phase
         \/ {phase, phase'} \subseteq {"ready", "probe", "chosen"}
  PROVE  FilledOK'
<1>1. /\ hash' = hash /\ backends' = backends /\ turn' = turn /\ maglev_table' = maglev_table
      /\ filled' = filled /\ lap' = lap
  BY DEF building
<1>2. \A p, j : Perm(p, j)' = Perm(p, j) /\ Visited(p, j)' = Visited(p, j)
  BY <1>1, ZenonT(30) DEF Perm, Visited
<1>3. PermIndices' = PermIndices
  BY <1>1 DEF PermIndices
<1>4. \A c : Owned(c)' = Owned(c)
  BY <1>1, <1>2, <1>3, Zenon DEF Owned, FirstVisit
<1> QED
  BY <1>1, <1>2, <1>3, <1>4 DEF FilledOK, HasBackends

\* One turn of the loop: an unclaimed slot has not been visited before.
LEMMA FillStep ==
  ASSUME MTypeOK, InterleaveOK, FilledOK, Fill
  PROVE  FilledOK'
<1> DEFINE c == Perm(turn, lap)
           final == Len(backends) * Repetitions
<1>0. Size \in Nat /\ Size > 1 /\ Repetitions \in Nat \ {0} /\ MaxSlots \in Nat \ {0}
  BY SizeAssumption, BoundsAssumption
<1>1. /\ phase = "fill" /\ turn \in PermIndices /\ Len(backends) \in 1 .. MaxSlots /\ lap \in Nat /\ lap < Size
      /\ filled \subseteq Slots /\ maglev_table \in [Slots -> Nat]
  BY Zenon DEF Fill, FilledOK, InterleaveOK, HasBackends, MTypeOK
<1>2. lap % Size = lap /\ lap \in Slots
  BY <1>0, <1>1, SMTT(30) DEF Slots
<1>3. /\ maglev_table' = [maglev_table EXCEPT ![c] = IF Claims(c) THEN Index(turn) ELSE @]
      /\ filled' = filled \union {c} /\ hash' = hash /\ backends' = backends
  BY <1>2, ZenonT(30) DEF Fill, rule
<1>4. c \in Slots
  BY <1>1, PermSlot
<1>5. \/ filled' = Slots /\ phase' = "ready" /\ lap' = lap /\ turn' = turn
      \/ filled' # Slots /\ phase' = "fill" /\ turn < final /\ turn' = turn + 1 /\ lap' = lap
      \/ filled' # Slots /\ phase' = "fill" /\ turn = final /\ turn' = 1 /\ lap' = lap + 1
  BY DEF Fill
<1>6. final \in Nat \ {0} /\ PermIndices = 1 .. final
  <2>1. Len(backends) * Repetitions \in Nat \ {0}
    BY <1>0, <1>1, SMTT(30)
  <2> QED
    BY <2>1 DEF PermIndices
<1>7. /\ \A p, j : Perm(p, j)' = Perm(p, j)
      /\ PermIndices' = PermIndices
  BY <1>3, Zenon DEF Perm, PermIndices
<1>8. \A x, p, j : FirstVisit(x, p, j)' = FirstVisit(x, p, j)
  BY <1>7 DEF FirstVisit
<1>9. \A p \in PermIndices, j \in Slots : (j < lap \/ (j = lap /\ p < turn)) => Perm(p, j) \in filled
  BY <1>1 DEF FilledOK, Visited
<1> HIDE DEF c, final
<1>10. ASSUME NEW x \in filled' PROVE Owned(x)'
  <2>1. CASE x \in filled
    <3>1. PICK p \in PermIndices, j \in Slots : FirstVisit(x, p, j) /\ maglev_table[x] = Index(p)
      BY <1>1, <2>1 DEF FilledOK, Owned, HasBackends
    <3>2. maglev_table'[x] = maglev_table[x]
      BY <1>1, <1>3, <2>1 DEF Claims
    <3> QED
      BY <1>7, <1>8, <3>1, <3>2, Zenon DEF Owned
  <2>2. CASE x \notin filled
    <3>1. x = c /\ maglev_table'[x] = Index(turn)
      BY <1>1, <1>3, <1>4, <1>10, <2>2 DEF Claims
    <3>2. FirstVisit(x, turn, lap)
      BY <1>9, <2>2, <3>1 DEF FirstVisit, c
    <3> QED
      BY <1>1, <1>2, <1>7, <1>8, <3>1, <3>2 DEF Owned
  <2> QED
    BY <2>1, <2>2
<1>11. ASSUME NEW p \in PermIndices, NEW j \in Slots, j < lap \/ (j = lap /\ p <= turn)
       PROVE  Perm(p, j) \in filled'
  <2>1. CASE j = lap /\ p = turn
    BY <1>3, <2>1 DEF c
  <2>2. CASE j < lap \/ (j = lap /\ p < turn)
    BY <1>3, <1>9, <2>2
  <2> QED
    BY <1>1, <1>6, <1>11, <2>1, <2>2
<1>12. CASE filled' = Slots /\ phase' = "ready" /\ lap' = lap /\ turn' = turn
  BY <1>1, <1>7, <1>10, <1>12 DEF FilledOK, HasBackends
<1>13. CASE filled' # Slots /\ phase' = "fill" /\ turn < final /\ turn' = turn + 1 /\ lap' = lap
  <2>1. turn' \in PermIndices
    BY <1>1, <1>6, <1>13
  <2>2. ASSUME NEW p \in PermIndices, NEW j \in Slots, Visited(p, j)' PROVE Perm(p, j) \in filled'
    <3>1. j < lap \/ (j = lap /\ p <= turn)
      BY <1>1, <1>6, <1>13, <2>2, SMTT(30) DEF Visited
    <3> QED
      BY <1>11, <3>1
  <2> QED
    BY <1>1, <1>7, <1>10, <1>13, <2>1, <2>2 DEF FilledOK, HasBackends
<1>14. CASE filled' # Slots /\ phase' = "fill" /\ turn = final /\ turn' = 1 /\ lap' = lap + 1
  <2>1. turn' \in PermIndices
    BY <1>6, <1>14
  <2>2. ASSUME NEW p \in PermIndices, NEW j \in Slots, j <= lap PROVE Perm(p, j) \in filled'
    <3>1. p <= turn
      BY <1>6, <1>14
    <3>2. j < lap \/ (j = lap /\ p <= turn)
      BY <1>1, <2>2, <3>1 DEF Slots
    <3> QED
      BY <1>11, <3>2
  <2>3. lap' < Size
    <3> SUFFICES ASSUME lap = Size - 1 PROVE FALSE
      BY <1>0, <1>1, <1>14
    <3>1. ASSUME NEW x \in Slots PROVE x \in filled'
      <4>1. PICK j \in Slots : Perm(turn', j) = x
        BY <1>1, <2>1, VisitsEverySlot
      <4>2. j <= lap
        BY <1>0, <1>1, <4>1 DEF Slots
      <4> QED
        BY <2>1, <2>2, <4>1, <4>2
    <3>2. filled' \subseteq Slots
      BY <1>1, <1>3, <1>4
    <3> QED
      BY <1>14, <3>1, <3>2, Zenon
  <2>4. ASSUME NEW p \in PermIndices, NEW j \in Slots, Visited(p, j)' PROVE Perm(p, j) \in filled'
    <3>1. j <= lap
      BY <1>1, <1>6, <1>14, <2>4 DEF Visited, Slots
    <3> QED
      BY <2>2, <3>1
  <2> QED
    BY <1>1, <1>7, <1>10, <1>14, <2>1, <2>3, <2>4, Zenon DEF FilledOK, HasBackends
<1> QED
  BY <1>5, <1>12, <1>13, <1>14

\* Every step keeps each claimed slot with its first visitor.
LEMMA FilledStep ==
  ASSUME MTypeOK, InterleaveOK, FilledOK, InterleaveOK', MTypeOK', [MNext]_mvars
  PROVE  FilledOK'
<1>0. Size \in Nat /\ Size > 1 /\ Repetitions \in Nat \ {0} /\ MaxSlots \in Nat \ {0}
  BY SizeAssumption, BoundsAssumption
<1>1. CASE Allocate \/ InterleaveTurn
  BY <1>1, ZenonT(30) DEF Allocate, InterleaveTurn, building, FilledOK, HasBackends
<1>2. CASE Trim
  <2>1. /\ phase = "trim" /\ phase' = "fill" /\ turn' = turn /\ maglev_table' = maglev_table
        /\ filled' = filled /\ lap' = lap
    BY <1>2 DEF Trim, building
  <2>2. filled = {} /\ lap = 0 /\ turn = 1
    BY <2>1, Zenon DEF FilledOK, InterleaveOK, HasBackends
  <2>3. Len(backends') \in 1 .. MaxSlots
    BY <2>1 DEF InterleaveOK, HasBackends
  <2>4. 1 \in PermIndices' /\ \A p \in PermIndices' : ~ (p < 1)
    BY <1>0, <2>3 DEF PermIndices
  <2>5. \A p \in PermIndices', j \in Slots : ~ Visited(p, j)'
    BY <1>0, <2>1, <2>2, <2>4 DEF Visited, Slots
  <2>6. Slots # {}
    <3>1. 0 \in Slots
      BY <1>0 DEF Slots
    <3> QED
      BY <3>1
  <2> QED
    BY <1>0, <2>1, <2>2, <2>4, <2>5, <2>6 DEF FilledOK, HasBackends
<1>3. CASE Fill
  BY <1>3, FillStep
<1>4. CASE \E ss \in ServiceLists : Reconcile(ss)
  BY <1>0, <1>4 DEF Reconcile, FilledOK, HasBackends
<1>5. CASE Probe \/ Answered \/ \E f, healthy : Select(f, healthy)
  <2>1. UNCHANGED <<hash, backends, turn, building>> /\ {phase, phase'} \subseteq {"ready", "probe", "chosen"}
    BY <1>5, Zenon DEF Probe, Answered, Select, rule, Exhausted, AlreadyTried, Refused, Healthy
  <2> QED
    BY <2>1, FilledKept, Zenon
<1>6. CASE UNCHANGED mvars
  BY <1>6, FilledKept DEF mvars, rule
<1> QED
  BY <1>1, <1>2, <1>3, <1>4, <1>5, <1>6, ZenonT(30) DEF MNext
-----------------------------------------------------------------------------
(***************************************************************************)
(* The selection                                                           *)
(***************************************************************************)

\* What the probing finds are indices of backends.
LEMMA AtRange ==
  ASSUME MTypeOK, InterleaveOK, FilledOK, phase \in {"ready", "probe", "chosen"}, NEW a \in Nat
  PROVE  At(a) \in 0 .. Len(backends) - 1
<1> DEFINE x == flow + a
           c == (x % FlowMod) % Size
<1>1. x \in Nat /\ FlowMod \in Nat \ {0} /\ Size \in Nat /\ Size > 1
  BY SizeAssumption, BoundsAssumption DEF MTypeOK
<1> HIDE DEF x
<1>2. x % FlowMod \in Nat
  BY <1>1
<1>3. c \in Slots
  BY <1>1, <1>2 DEF Slots
<1>4. Owned(c)
  BY <1>3 DEF FilledOK, HasBackends
<1>5. At(a) = maglev_table[c]
  BY DEF At, x
<1> HIDE DEF c
<1>6. PICK p \in PermIndices : maglev_table[c] = Index(p)
  BY <1>4 DEF Owned
<1>7. Len(backends) \in Nat
  BY DEF MTypeOK
<1> QED
  BY <1>5, <1>6, <1>7, IndexRange

\* Every step keeps what select_backend knows of the slots it has probed: each
\* of them holds a refused backend, and the mask holds no other.
LEMMA SelectStep ==
  ASSUME MTypeOK, InterleaveOK, FilledOK, SelectOK, MTypeOK', [MNext]_mvars
  PROVE  SelectOK'
<1>1. CASE Probe
  <2> DEFINE L == Len(backends)
             i == Probed
  <2>0. /\ phase = "probe" /\ attempt \in Nat /\ flow \in Nat /\ L \in 1 .. MaxSlots /\ L \in Nat
        /\ {MaxSlots, MaskBits, Probes} \subseteq Nat \ {0} /\ MaxSlots <= MaskBits /\ NoBackend \notin Nat
    <3>1. phase = "probe"
      BY <1>1, Zenon DEF Probe
    <3>2. attempt \in Nat /\ flow \in Nat
      BY Zenon DEF MTypeOK
    <3>3. L \in 1 .. MaxSlots
      BY <3>1, Zenon DEF InterleaveOK, HasBackends
    <3> HIDE DEF L
    <3>4. L \in Nat
      BY <3>3, BoundsAssumption
    <3> QED
      BY <3>1, <3>2, <3>3, <3>4, BoundsAssumption, Zenon
  <2>1. /\ tried = refused /\ chosen = NoBackend /\ refused \subseteq 0 .. L - 1
        /\ \A b \in 0 .. attempt - 1 : At(b) \in refused
    BY <2>0 DEF SelectOK
  <2>2. /\ backends' = backends /\ snapshot' = snapshot /\ flow' = flow /\ maglev_table' = maglev_table
        /\ \A a : At(a)' = At(a)
    BY <1>1 DEF Probe, rule, building, At
  <2>3. i = At(attempt) /\ i \in 0 .. L - 1
    <3>1. i = At(attempt)
      BY DEF Probed, maglev_lookup_compact, At
    <3> QED
      BY <2>0, <3>1, AtRange
  <2>4. Bit = i
    <3> HIDE DEF i
    <3>1. i % MaskBits = i
      BY <2>0, <2>3
    <3> QED
      BY <3>1 DEF Bit, i
  <2>5. Attempts = L * Probes /\ L * Probes \in Nat
    BY <2>0 DEF Attempts
  <2> DEFINE N == L * Probes
  <2> HIDE DEF i, L, N
  <2>p. ASSUME phase' = "probe", tried' = refused', chosen' = NoBackend, refused' \in SUBSET (0 .. L - 1),
               \A b \in 0 .. attempt' - 1 : At(b)' \in refused'
        PROVE  SelectOK'
    <3>1. phase' # "chosen"
      BY <2>p, Zenon
    <3> QED
      BY <2>2, <2>p, <3>1, Zenon DEF SelectOK, SelectsFirstHealthy, L
  <2>n. ASSUME phase' = "chosen", chosen' = NoBackend, \A a \in 0 .. N - 1 : At(a)' \in refused'
        PROVE  SelectOK'
    <3>1. phase' # "probe"
      BY <2>n, Zenon
    <3> QED
      BY <2>2, <2>n, <3>1, Zenon DEF SelectOK, SelectsFirstHealthy, L, N
  <2>6. CASE Exhausted
    <3>1. attempt >= N /\ phase' = "chosen" /\ refused' = refused /\ chosen' = NoBackend
      BY <2>1, <2>5, <2>6 DEF Exhausted, N
    <3>2. \A a \in 0 .. N - 1 : At(a)' \in refused'
      BY <2>0, <2>1, <2>2, <2>5, <3>1, SMTT(30) DEF N
    <3> QED
      BY <2>n, <3>1, <3>2, Zenon
  <2>7. CASE AlreadyTried
    <3>1. phase' = "probe" /\ refused' = refused /\ tried' = tried /\ chosen' = chosen /\ attempt' = attempt + 1 /\ i \in refused
      BY <2>0, <2>1, <2>4, <2>7 DEF AlreadyTried
    <3>2. \A b \in 0 .. attempt' - 1 : At(b)' \in refused'
      BY <2>0, <2>1, <2>2, <2>3, <3>1
    <3> QED
      BY <2>1, <2>p, <3>1, <3>2, Zenon
  <2>8. CASE Refused
    <3>1. /\ tried' = tried \union {i} /\ refused' = refused \union {i} /\ chosen' = chosen /\ attempt' = attempt + 1
          /\ phase' = IF Cardinality(tried') = L THEN "chosen" ELSE "probe"
      BY <2>0, <2>4, <2>8 DEF Refused, L, i
    <3>2. tried' = refused' /\ refused' \in SUBSET (0 .. L - 1)
      BY <2>1, <2>3, <3>1, Zenon
    <3>3. \A b \in 0 .. attempt' - 1 : At(b)' \in refused'
      BY <2>0, <2>1, <2>2, <2>3, <3>1, SMTT(30)
    <3>4. CASE Cardinality(tried') = L
      <4>1. IsFiniteSet(0 .. L - 1) /\ Cardinality(0 .. L - 1) = L
        BY <2>0, Count
      <4>2. refused' = 0 .. L - 1
        BY <3>2, <3>4, <4>1, FS_Subset, Zenon
      <4>3. \A a \in 0 .. N - 1 : At(a)' \in refused'
        BY <2>0, <2>2, <2>5, <4>2, AtRange, SMTT(30) DEF L, N
      <4> QED
        BY <2>1, <2>n, <3>1, <3>4, <4>3, Zenon
    <3>5. CASE Cardinality(tried') # L
      BY <2>1, <2>p, <3>1, <3>2, <3>3, <3>5, Zenon
    <3> QED
      BY <3>4, <3>5
  <2>9. CASE Healthy
    <3>1. /\ attempt < N /\ i \notin refused /\ backends[i + 1] \in snapshot
          /\ chosen' = i /\ phase' = "chosen" /\ refused' = refused
      BY <2>1, <2>4, <2>5, <2>9 DEF Healthy, i, N
    <3>2. chosen' # NoBackend
      BY <2>0, <2>3, <3>1, SMTT(30)
    <3>3. attempt \in 0 .. N - 1
      BY <2>0, <2>5, <3>1 DEF N
    <3>4. At(attempt) = chosen' /\ \A b \in 0 .. attempt - 1 : At(b) \in refused'
      BY <2>1, <2>3, <3>1
    <3>5. \E a \in 0 .. N - 1 : At(a) = chosen' /\ \A b \in 0 .. a - 1 : At(b) \in refused'
      BY <3>3, <3>4
    <3>6. \E a \in 0 .. N - 1 : At(a)' = chosen' /\ \A b \in 0 .. a - 1 : At(b)' \in refused'
      BY <2>2, <3>5
    <3> QED
      BY <2>2, <3>1, <3>2, <3>6 DEF SelectOK, SelectsFirstHealthy, L, N
  <2> QED
    BY <1>1, <2>6, <2>7, <2>8, <2>9, SMTT(30) DEF Probe
<1>2. CASE \E f \in 0 .. FlowMod - 1 : \E healthy : Select(f, healthy)
  <2>1. phase' = "probe" /\ attempt' = 0 /\ tried' = {} /\ refused' = {} /\ chosen' = NoBackend
    BY <1>2 DEF Select
  <2>2. 0 .. attempt' - 1 = {}
    BY <2>1
  <2> QED
    BY <2>1, <2>2 DEF SelectOK, SelectsFirstHealthy
<1>3. CASE UNCHANGED mvars
  <2>1. /\ phase' = phase /\ tried' = tried /\ refused' = refused /\ chosen' = chosen /\ attempt' = attempt
        /\ backends' = backends /\ snapshot' = snapshot /\ \A a : At(a)' = At(a)
    BY <1>3 DEF mvars, rule, building, selection, At
  <2> QED
    BY <2>1 DEF SelectOK, SelectsFirstHealthy
<1>4. CASE Allocate \/ InterleaveTurn \/ Trim \/ Fill \/ Answered \/ \E ss \in ServiceLists : Reconcile(ss)
  <2>1. phase' # "probe" /\ phase' # "chosen"
    BY <1>4, Zenon DEF Allocate, InterleaveTurn, Trim, Fill, Answered, Reconcile
  <2> QED
    BY <2>1, SMTT(30) DEF SelectOK, SelectsFirstHealthy
<1> QED
  BY <1>1, <1>2, <1>3, <1>4 DEF MNext
-----------------------------------------------------------------------------
\* The inductive invariant holds of a rule that has just been resolved.
LEMMA MaglevInit == MInit => MaglevInv
<1> SUFFICES ASSUME MInit PROVE MaglevInv
  OBVIOUS
<1>1. Size \in Nat /\ Size > 1
  BY SizeAssumption
<1>2. MTypeOK
  BY DEF MInit, MTypeOK
<1>3. InterleaveOK
  BY DEF MInit, InterleaveOK, HasBackends
<1>4. FilledOK
  BY <1>1 DEF MInit, FilledOK, HasBackends
<1>5. SelectOK
  BY DEF MInit, SelectOK, SelectsFirstHealthy
<1> QED
  BY <1>2, <1>3, <1>4, <1>5 DEF MaglevInv

\* The inductive invariant is kept by every step.
LEMMA MaglevStep == MaglevInv /\ [MNext]_mvars => MaglevInv'
<1> SUFFICES ASSUME MaglevInv, [MNext]_mvars PROVE MaglevInv'
  OBVIOUS
<1>1. MTypeOK /\ InterleaveOK /\ FilledOK /\ SelectOK
  BY DEF MaglevInv
<1>2. MTypeOK'
  BY <1>1, MTypeStep
<1>3. InterleaveOK'
  BY <1>1, <1>2, InterleaveStep
<1>4. FilledOK'
  BY <1>1, <1>2, <1>3, FilledStep
<1>5. SelectOK'
  BY <1>1, <1>2, SelectStep
<1> QED
  BY <1>2, <1>3, <1>4, <1>5 DEF MaglevInv

\* Whatever the weights, the slots that reconcile gives to the services sum to
\* MAX_MAGLEV_BACKENDS, and a rule whose pods fit the table serves all of them.
THEOREM WeightsAreHonoured == MSpec => []WeightsHonoured
<1>1. MaglevInv => WeightsHonoured
  <2> SUFFICES ASSUME MaglevInv PROVE WeightsHonoured
    OBVIOUS
  <2>1. services \in ServiceLists /\ backends \in Seq(Pods) /\ InterleaveOK
    BY DEF MaglevInv, MTypeOK
  <2>2. SlotsExact
    <3> SUFFICES ASSUME phase \in {"interleave", "ready"}
                 PROVE  SumTo([i \in 1 .. Len(services) |-> ServiceSlots(services, i)], Len(services)) = MaxSlots
      BY DEF SlotsExact
    <3>1. TotalWeight(services) > 0
      BY <2>1 DEF InterleaveOK, HasBackends
    <3> QED
      BY <2>1, <3>1, SlotsSum
  <2>3. PodsServed
    <3> SUFFICES ASSUME phase \in {"fill", "ready"}, PodCount(services) <= MaxSlots,
                        NEW i \in 1 .. Len(services), NEW j \in 1 .. Len(services[i].pods)
                 PROVE  \E b \in 1 .. Len(backends) : backends[b] = services[i].pods[j]
      BY SMTT(30) DEF PodsServed
    <3> DEFINE b == PodsTo(services, i - 1) + j
    <3>1. Laid(services, backends, i)
      BY <2>1, Zenon DEF InterleaveOK, HasBackends, AllLaid
    <3>2. b <= Len(backends) /\ backends[b] = services[i].pods[j]
      BY <3>1, Zenon DEF Laid
    <3>3. services \in ServiceLists /\ Len(backends) \in Nat
      BY <2>1
    <3>4. PodsTo(services, i - 1) \in Nat
      BY <3>3, PodsToFacts, Zenon
    <3>5. Len(services[i].pods) \in Nat
      BY <3>3, ServiceType, Zenon
    <3>6. b \in 1 .. Len(backends)
      BY <3>2, <3>3, <3>4, <3>5
    <3> QED
      BY <3>2, <3>6, Zenon
  <2> QED
    BY <2>2, <2>3 DEF WeightsHonoured
<1> QED
  BY <1>1, MaglevInit, MaglevStep, PTL DEF MSpec

\* maglev_build_compact_table ends within Size laps, and gives each slot to the
\* permutation that visits it first.
THEOREM EarliestClaim == MSpec => []EarliestClaims
<1>1. MaglevInv => EarliestClaims
  BY DEF MaglevInv, FilledOK, HasBackends, Owned, EarliestClaims
<1> QED
  BY <1>1, MaglevInit, MaglevStep, PTL DEF MSpec

\* select_backend picks the first backend that its health checks let through.
THEOREM FirstHealthySelected == MSpec => []SelectsFirstHealthy
<1>1. MaglevInv => SelectsFirstHealthy
  BY DEF MaglevInv, SelectOK
<1> QED
  BY <1>1, MaglevInit, MaglevStep, PTL DEF MSpec
=============================================================================
