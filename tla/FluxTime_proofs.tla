--------------------------- MODULE FluxTime_proofs ---------------------------
(***************************************************************************)
(* What GetTimeKey computes, for every shape of the ring, and how sums     *)
(* over finite sets, SumFunctionOnSet of the community modules, change.    *)
(***************************************************************************)
EXTENDS FluxTime, FiniteSetTheorems, WellFoundedInduction, TLAPS

\* Division with remainder, as the provers need it stated.
LEMMA DivMod ==
  ASSUME NEW a \in Nat, NEW b \in Nat \ {0}
  PROVE  /\ a % b \in 0 .. b - 1
         /\ a % b <= a
         /\ a \div b \in Nat
         /\ a = (a \div b) * b + (a % b)
<1>1. a % b \in 0 .. b - 1  OBVIOUS
<1>2. a % b <= a  OBVIOUS
<1>3. a \div b \in Int /\ a \div b >= 0  OBVIOUS
<1>4. a = (a \div b) * b + (a % b)  OBVIOUS
<1> QED BY <1>1, <1>2, <1>3, <1>4

\* The ring covers at least one second.
LEMMA PeriodPositive == Period \in Nat \ {0}
<1>1. NumPerMin \in Nat \ {0} /\ NumPerIndex \in Nat \ {0}
  BY SlotAssumption
<1> QED BY <1>1, Z3 DEF Period

\* The remainder by the period, split into a slot and a second of the slot.
LEMMA SplitRemainder ==
  ASSUME NEW t \in Nat
  PROVE  /\ t % Period \in Nat /\ t % Period < Period /\ t % Period <= t
         /\ SlotIndex(t) \in Nat
         /\ \E s \in 0 .. NumPerIndex - 1 :
              t % Period = SlotIndex(t) * NumPerIndex + s
<1>1. NumPerIndex \in Nat \ {0}  BY SlotAssumption
<1>2. /\ t % Period \in 0 .. Period - 1
      /\ t % Period <= t
  BY PeriodPositive, DivMod
<1>3. t % Period \in Nat /\ t % Period < Period
  BY <1>2, PeriodPositive
<1>4. /\ SlotIndex(t) \in Nat
      /\ (t % Period) % NumPerIndex \in 0 .. NumPerIndex - 1
      /\ t % Period = SlotIndex(t) * NumPerIndex + ((t % Period) % NumPerIndex)
  BY <1>1, <1>3, DivMod DEF SlotIndex
<1> QED BY <1>2, <1>3, <1>4

\* GetTimeKey names a slot of the ring (module.go, 189-195).
THEOREM SlotIndexInRing ==
  ASSUME NEW t \in Nat
  PROVE  SlotIndex(t) \in Slots
<1>1. NumPerMin \in Nat \ {0} /\ NumPerIndex \in Nat \ {0}
  BY SlotAssumption
<1>2. PICK s \in 0 .. NumPerIndex - 1 :
        t % Period = SlotIndex(t) * NumPerIndex + s
  BY SplitRemainder
<1>3. SlotIndex(t) \in Nat /\ t % Period < Period
  BY SplitRemainder
<1>4. SlotIndex(t) * NumPerIndex < NumPerMin * NumPerIndex
  BY <1>1, <1>2, <1>3, Z3 DEF Period
<1>5. SlotIndex(t) < NumPerMin
  BY <1>1, <1>3, <1>4, Z3
<1> QED BY <1>1, <1>3, <1>5 DEF Slots

\* The timekey is the first second of the slot that holds t: no later than t
\* and less than the length of a slot before it (module.go, 189-195).
THEOREM TimeKeyBounds ==
  ASSUME NEW t \in Nat
  PROVE  /\ TimeKey(t) \in Nat
         /\ TimeKey(t) <= t
         /\ t < TimeKey(t) + NumPerIndex
<1>1. NumPerIndex \in Nat \ {0}  BY SlotAssumption
<1>2. PICK s \in 0 .. NumPerIndex - 1 :
        t % Period = SlotIndex(t) * NumPerIndex + s
  BY SplitRemainder
<1>3. SlotIndex(t) \in Nat /\ t % Period \in Nat /\ t % Period <= t
  BY SplitRemainder
<1>4. SlotIndex(t) * NumPerIndex \in Nat  BY <1>1, <1>3, Z3
<1>5. TimeKey(t) = t - s  BY <1>2, <1>3, <1>4, <1>1 DEF TimeKey
<1> QED BY <1>1, <1>2, <1>3, <1>4, <1>5

\* Division is determined by what it leaves.
LEMMA DivUnique ==
  ASSUME NEW b \in Nat \ {0}, NEW q \in Nat, NEW r \in 0 .. b - 1
  PROVE  (q * b + r) \div b = q /\ (q * b + r) % b = r
<1> DEFINE a == q * b + r
           d == a \div b
           m == a % b
<1>1. q * b \in Nat  BY Z3
<1>2. a \in Nat  BY <1>1
<1>3. d \in Nat /\ m \in 0 .. b - 1 /\ a = d * b + m  BY <1>2, DivMod
<1> HIDE DEF d, m
<1>4. ~(d >= q + 1)
  <2>1. d >= q + 1 => d * b >= q * b + b  BY <1>3, Z3
  <2> QED BY <1>1, <1>3, <2>1, Z3
<1>5. ~(q >= d + 1)
  <2>1. q >= d + 1 => q * b >= d * b + b  BY <1>3, Z3
  <2> QED BY <1>1, <1>3, <2>1, Z3
<1>6. d = q  BY <1>3, <1>4, <1>5
<1>7. m = r  BY <1>1, <1>3, <1>6, Z3
<1> QED BY <1>6, <1>7 DEF d, m

\* A slot starts in its own place of the ring.
LEMMA TimeKeySlot ==
  ASSUME NEW t \in Nat
  PROVE  SlotIndex(TimeKey(t)) = SlotIndex(t)
<1>1. NumPerIndex \in Nat \ {0} /\ Period \in Nat \ {0}
  BY SlotAssumption, PeriodPositive
<1> DEFINE i == SlotIndex(t)
           q == t \div Period
           r == t % Period
<1>2. /\ q \in Nat /\ t = q * Period + r
      /\ r \in Nat /\ r < Period
  BY <1>1, DivMod, SplitRemainder
<1>3. PICK s \in 0 .. NumPerIndex - 1 : r = i * NumPerIndex + s
  BY SplitRemainder
<1>4. i \in Nat  BY SplitRemainder
<1>5. TimeKey(t) = (t - r) + i * NumPerIndex  BY DEF TimeKey
<1> HIDE DEF i, q, r
<1>6. i * NumPerIndex \in Nat /\ q * Period \in Nat  BY <1>1, <1>2, <1>4, Z3
<1>7. TimeKey(t) = q * Period + i * NumPerIndex /\ i * NumPerIndex \in 0 .. Period - 1
  BY <1>1, <1>2, <1>3, <1>5, <1>6
<1>8. TimeKey(t) % Period = i * NumPerIndex
  <2> DEFINE x == i * NumPerIndex
  <2>1. x \in 0 .. Period - 1 /\ TimeKey(t) = q * Period + x  BY <1>7
  <2> HIDE DEF x
  <2>2. TimeKey(t) % Period = x  BY <1>1, <1>2, <2>1, DivUnique
  <2> QED BY <2>2 DEF x
<1>9. (i * NumPerIndex) \div NumPerIndex = i
  <2>1. (i * NumPerIndex + 0) \div NumPerIndex = i
    <3>1. 0 \in 0 .. NumPerIndex - 1  BY <1>1
    <3> QED BY <1>1, <1>4, <3>1, DivUnique
  <2>2. i * NumPerIndex + 0 = i * NumPerIndex  BY <1>6
  <2> QED BY <2>1, <2>2
<1>10. SlotIndex(TimeKey(t)) = i  BY <1>8, <1>9 DEF SlotIndex
<1> QED BY <1>10 DEF i

\* A timekey is a whole number of slots.
LEMMA TimeKeyMultiple ==
  ASSUME NEW t \in Nat
  PROVE  \E j \in Nat : TimeKey(t) = j * NumPerIndex
<1>1. NumPerIndex \in Nat \ {0} /\ NumPerMin \in Nat \ {0}
      /\ Period = NumPerMin * NumPerIndex
  BY SlotAssumption DEF Period
<1> DEFINE i == SlotIndex(t)
           q == t \div Period
           r == t % Period
<1>2. q \in Nat /\ t = q * Period + r /\ r \in Nat /\ i \in Nat
  BY PeriodPositive, DivMod, SplitRemainder
<1>3. TimeKey(t) = (t - r) + i * NumPerIndex  BY DEF TimeKey
<1> HIDE DEF i, q, r
<1>4. q * Period \in Nat /\ i * NumPerIndex \in Nat  BY <1>2, <1>1, PeriodPositive, Z3
<1>5. TimeKey(t) = q * Period + i * NumPerIndex  BY <1>2, <1>3, <1>4
<1>6. q * Period + i * NumPerIndex = (q * NumPerMin + i) * NumPerIndex
  BY <1>1, <1>2, Z3
<1>7. q * NumPerMin + i \in Nat  BY <1>1, <1>2, Z3
<1> QED BY <1>5, <1>6, <1>7

\* Time does not go back to an earlier slot.
LEMMA TimeKeyMonotone ==
  ASSUME NEW t \in Nat, NEW u \in Nat, t <= u
  PROVE  TimeKey(t) <= TimeKey(u)
<1>1. NumPerIndex \in Nat \ {0}  BY SlotAssumption
<1>2. PICK j \in Nat : TimeKey(t) = j * NumPerIndex  BY TimeKeyMultiple
<1>3. PICK k \in Nat : TimeKey(u) = k * NumPerIndex  BY TimeKeyMultiple
<1>4. j * NumPerIndex \in Nat /\ k * NumPerIndex \in Nat  BY <1>1, <1>2, <1>3, Z3
<1>5. j * NumPerIndex < k * NumPerIndex + NumPerIndex
  BY <1>1, <1>2, <1>3, <1>4, TimeKeyBounds
<1>6. ~(j >= k + 1)
  <2>1. j >= k + 1 => j * NumPerIndex >= k * NumPerIndex + NumPerIndex
    BY <1>1, <1>2, <1>3, Z3
  <2> QED BY <1>1, <1>4, <1>5, <2>1
<1>7. j <= k  BY <1>2, <1>3, <1>6
<1>8. j * NumPerIndex <= k * NumPerIndex  BY <1>1, <1>2, <1>3, <1>7, Z3
<1> QED BY <1>2, <1>3, <1>8

\* Numbers with one remainder are a divisor apart at least.
LEMMA SameRemainder ==
  ASSUME NEW a \in Nat, NEW c \in Nat, NEW b \in Nat \ {0}, a % b = c % b, a < c
  PROVE  a + b <= c
<1> DEFINE p == a \div b
           q == c \div b
           r == a % b
<1>1. /\ p \in Nat /\ q \in Nat /\ r \in Nat
      /\ a = p * b + r /\ c = q * b + r
  <2>1. r \in 0 .. b - 1 /\ p \in Nat /\ a = p * b + r  BY DivMod
  <2>2. q \in Nat /\ c = q * b + (c % b)  BY DivMod
  <2>3. c % b = r  OBVIOUS
  <2> HIDE DEF p, q, r
  <2>4. r \in Nat  BY <2>1
  <2> QED BY <2>1, <2>2, <2>3, <2>4
<1> HIDE DEF p, q, r
<1>2. p * b \in Nat /\ q * b \in Nat  BY <1>1, Z3
<1>3. p * b < q * b  BY <1>1, <1>2
<1>4. ~(q <= p)
  <2>1. q <= p => q * b <= p * b  BY <1>1, Z3
  <2> QED BY <1>2, <1>3, <2>1
<1>5. p + 1 <= q  BY <1>1, <1>4
<1>6. p * b + b <= q * b  BY <1>1, <1>5, Z3
<1> QED BY <1>1, <1>2, <1>6

\* Two slots with one place in the ring are a period apart at least.
LEMMA TimeKeysApart ==
  ASSUME NEW t \in Nat, NEW u \in Nat, SlotIndex(t) = SlotIndex(u),
         TimeKey(t) < TimeKey(u)
  PROVE  TimeKey(t) + Period <= TimeKey(u)
<1>1. Period \in Nat \ {0}  BY PeriodPositive
<1> DEFINE p == t \div Period
           q == u \div Period
           x == SlotIndex(t) * NumPerIndex
<1>2. /\ p \in Nat /\ t = p * Period + (t % Period)
      /\ q \in Nat /\ u = q * Period + (u % Period)
  BY <1>1, DivMod
<1>3. t % Period \in Nat /\ u % Period \in Nat  BY SplitRemainder
<1>4. x \in Nat
  <2>1. SlotIndex(t) \in Nat /\ NumPerIndex \in Nat  BY SplitRemainder, SlotAssumption
  <2> QED BY <2>1, Z3
<1>5. p * Period \in Nat /\ q * Period \in Nat  BY <1>1, <1>2, Z3
<1>6. /\ TimeKey(t) = (t - (t % Period)) + x
      /\ TimeKey(u) = (u - (u % Period)) + x
  BY DEF TimeKey
<1> HIDE DEF p, q, x
<1>7. TimeKey(t) = p * Period + x /\ TimeKey(u) = q * Period + x
  BY <1>2, <1>3, <1>4, <1>5, <1>6
<1>8. p * Period < q * Period  BY <1>4, <1>5, <1>7
<1>9. ~(q <= p)
  <2>1. q <= p => q * Period <= p * Period  BY <1>1, <1>2, Z3
  <2> QED BY <1>5, <1>8, <2>1
<1>10. p + 1 <= q  BY <1>2, <1>9
<1>11. p * Period + Period <= q * Period  BY <1>1, <1>2, <1>10, Z3
<1> QED BY <1>1, <1>4, <1>5, <1>7, <1>11

-----------------------------------------------------------------------------
\* The least of some numbers.
LEMMA Least ==
  ASSUME NEW T \in SUBSET Nat, T # {}
  PROVE  \E n \in T : \A m \in T : n <= m
<1>1. IsWellFoundedOn(OpToRel(<, Nat), Nat)  BY NatLessThanWellFounded
<1>2. PICK n \in T : \A m \in T : <<m, n>> \notin OpToRel(<, Nat)
  BY <1>1, WFMin
<1>3. \A m \in T : ~(m < n)  BY <1>2 DEF OpToRel
<1> QED BY <1>3

-----------------------------------------------------------------------------
\* Sums over finite sets.  An element is taken out at a time, as CHOOSE has it.

Some(s) == CHOOSE x \in s : TRUE
Rest(s) == s \ {Some(s)}

LEMMA RestSmaller ==
  ASSUME NEW s, IsFiniteSet(s), s # {}
  PROVE  /\ Some(s) \in s /\ IsFiniteSet(Rest(s)) /\ Rest(s) \subseteq s
         /\ Cardinality(s) \in Nat \ {0}
         /\ Cardinality(Rest(s)) = Cardinality(s) - 1
<1>1. Some(s) \in s  BY DEF Some
<1>2. Cardinality(s) \in Nat /\ Cardinality(s) # 0
  BY FS_CardinalityType, FS_EmptySet
<1> QED BY <1>1, <1>2, FS_RemoveElement DEF Rest

\* Of sets that are part of a finite one there is a smallest.
LEMMA Smallest ==
  ASSUME NEW S, IsFiniteSet(S), NEW X \in SUBSET SUBSET S, X # {}
  PROVE  \E U \in X : IsFiniteSet(U) /\ \A x \in U : U \ {x} \notin X
<1> DEFINE T == {Cardinality(U) : U \in X}
<1>1. \A U \in X : IsFiniteSet(U) /\ Cardinality(U) \in Nat
  BY FS_Subset, FS_CardinalityType
<1>2. T \in SUBSET Nat /\ T # {}  BY <1>1
<1>3. PICK n \in T : \A m \in T : n <= m
  <2> HIDE DEF T
  <2> QED BY <1>2, Least
<1>4. PICK U \in X : n = Cardinality(U)  OBVIOUS
<1>5. ASSUME NEW x \in U, U \ {x} \in X PROVE FALSE
  <2>1. Cardinality(U \ {x}) = Cardinality(U) - 1
    BY <1>1, FS_RemoveElement
  <2>2. Cardinality(U) <= Cardinality(U \ {x})  BY <1>3, <1>4, <1>5
  <2> QED BY <1>1, <2>1, <2>2
<1> QED BY <1>1, <1>5

\* g sums f over the members of D.
Sums(f, D, g) ==
  g = [s \in D |-> IF s = {} THEN 0 ELSE f[Some(s)] + g[Rest(s)]]

Upto(S, n) == {s \in SUBSET S : Cardinality(s) <= n}

LEMMA SumsExist ==
  ASSUME NEW S, IsFiniteSet(S), NEW f
  PROVE  \E g : Sums(f, SUBSET S, g)
<1>0. \A s \in SUBSET S : IsFiniteSet(s) /\ Cardinality(s) \in Nat
                           /\ Cardinality(s) <= Cardinality(S)
  BY FS_Subset, FS_CardinalityType
<1> DEFINE N == Cardinality(S)
           T == {n \in 0 .. N : ~\E g : Sums(f, Upto(S, n), g)}
<1>a. N \in Nat  BY FS_CardinalityType
<1>b. Upto(S, N) = SUBSET S  BY <1>0 DEF Upto
<1> SUFFICES ASSUME T # {} PROVE FALSE
  <2>1. N \in 0 .. N  BY <1>a
  <2>2. \E g : Sums(f, Upto(S, N), g)
    <3> HIDE DEF Upto, N
    <3> QED BY <2>1
  <2> QED BY <1>b, <2>2
<1>1. PICK m \in T : \A k \in T : m <= k
  <2>1. T \in SUBSET Nat  OBVIOUS
  <2> HIDE DEF T
  <2> QED BY <2>1, Least
<1>2. m \in 0 .. N /\ ~\E g : Sums(f, Upto(S, m), g)  OBVIOUS
<1>3. m # 0
  <2>1. Upto(S, 0) = {{}}
    BY <1>0, FS_EmptySet DEF Upto
  <2>2. Sums(f, Upto(S, 0), [s \in {{}} |-> 0])  BY <2>1 DEF Sums
  <2> QED BY <1>2, <2>2
<1>4. m - 1 \in 0 .. N - 1 /\ m - 1 \in 0 .. N /\ m - 1 \notin T
  <2>1. m - 1 \in 0 .. N - 1 /\ m - 1 \in 0 .. N /\ ~(m <= m - 1)
    BY <1>2, <1>3, <1>a
  <2> QED BY <1>1, <2>1
<1>5. PICK g : Sums(f, Upto(S, m - 1), g)  BY <1>4
<1> DEFINE h == [s \in Upto(S, m) |-> IF Cardinality(s) = m
                                      THEN f[Some(s)] + g[Rest(s)] ELSE g[s]]
<1>6. ASSUME NEW s \in Upto(S, m)
      PROVE  h[s] = IF s = {} THEN 0 ELSE f[Some(s)] + h[Rest(s)]
  <2>0. s \in SUBSET S /\ IsFiniteSet(s) /\ Cardinality(s) \in Nat /\ Cardinality(s) <= m
    BY <1>0 DEF Upto
  <2>1. CASE s = {}
    <3>1. Cardinality(s) = 0  BY <2>1, FS_EmptySet
    <3>2. s \in Upto(S, m - 1) /\ h[s] = g[s]  BY <1>2, <1>3, <2>0, <3>1 DEF Upto
    <3> QED BY <1>5, <2>1, <3>2 DEF Sums
  <2>2. CASE s # {}
    <3>1. Rest(s) \in SUBSET S /\ Cardinality(s) \in Nat \ {0}
          /\ Cardinality(Rest(s)) = Cardinality(s) - 1
      BY <2>0, <2>2, RestSmaller
    <3>2. Rest(s) \in Upto(S, m)  BY <1>2, <2>0, <3>1 DEF Upto
    <3>3. h[Rest(s)] = g[Rest(s)]
      <4>1. Cardinality(Rest(s)) # m  BY <1>2, <2>0, <3>1
      <4> QED BY <3>2, <4>1
    <3>4. CASE Cardinality(s) = m  BY <2>2, <3>3, <3>4
    <3>5. CASE Cardinality(s) # m
      <4>1. s \in Upto(S, m - 1)  BY <1>2, <2>0, <3>5 DEF Upto
      <4>2. g[s] = f[Some(s)] + g[Rest(s)]  BY <1>5, <2>2, <4>1 DEF Sums
      <4> QED BY <2>2, <3>3, <3>5, <4>2
    <3> QED BY <3>4, <3>5
  <2> QED BY <2>1, <2>2
<1>7. Sums(f, Upto(S, m), h)
  <2> HIDE DEF h
  <2>1. h = [s \in Upto(S, m) |-> h[s]]  BY DEF h
  <2> QED BY <1>6, <2>1 DEF Sums
<1> QED BY <1>2, <1>7

\* SumFunctionOnSet is such a g.
Summed(f, S) == CHOOSE g : Sums(f, SUBSET S, g)

LEMMA SummedSums ==
  ASSUME NEW S, IsFiniteSet(S), NEW f
  PROVE  Sums(f, SUBSET S, Summed(f, S)) /\ SumFunctionOnSet(f, S) = Summed(f, S)[S]
<1>1. Sums(f, SUBSET S, Summed(f, S))  BY SumsExist DEF Summed
<1>2. SumFunctionOnSet(f, S) = Summed(f, S)[S]
  BY DEF SumFunctionOnSet, FoldFunctionOnSet, MapThenFoldSet, Summed, Sums, Some, Rest
<1> QED BY <1>1, <1>2

\* Whatever the set around it, the sum of a set is the same.
LEMMA SummedAgree ==
  ASSUME NEW S, IsFiniteSet(S), NEW R \in SUBSET S, NEW f
  PROVE  Summed(f, S)[R] = SumFunctionOnSet(f, R)
<1>0. IsFiniteSet(R)  BY FS_Subset
<1> DEFINE g == Summed(f, S)
           h == Summed(f, R)
           X == {U \in SUBSET R : g[U] # h[U]}
<1>1. Sums(f, SUBSET S, g) /\ Sums(f, SUBSET R, h) /\ SumFunctionOnSet(f, R) = h[R]
  BY <1>0, SummedSums
<1> HIDE DEF g, h
<1>2. X = {}
  <2> SUFFICES ASSUME X # {} PROVE FALSE  OBVIOUS
  <2>1. PICK U \in X : IsFiniteSet(U) /\ \A x \in U : U \ {x} \notin X
    <3>1. X \in SUBSET SUBSET R  OBVIOUS
    <3> HIDE DEF X
    <3> QED BY <1>0, <3>1, Smallest
  <2>2. U \in SUBSET R /\ U \in SUBSET S /\ g[U] # h[U]  OBVIOUS
  <2>3. U # {}  BY <1>1, <2>2 DEF Sums
  <2>4. Some(U) \in U /\ Rest(U) \in SUBSET R  BY <2>1, <2>2, <2>3, RestSmaller
  <2>5. g[Rest(U)] = h[Rest(U)]  BY <2>1, <2>4 DEF Rest
  <2>6. g[U] = f[Some(U)] + g[Rest(U)] /\ h[U] = f[Some(U)] + h[Rest(U)]
    BY <1>1, <2>2, <2>3 DEF Sums
  <2> QED BY <2>2, <2>5, <2>6
<1>3. R \notin X  BY <1>2
<1> QED BY <1>1, <1>3 DEF g

LEMMA SumEmpty ==
  ASSUME NEW f
  PROVE  SumFunctionOnSet(f, {}) = 0
<1>1. IsFiniteSet({})  BY FS_EmptySet
<1> QED BY <1>1, SummedSums DEF Sums

LEMMA SumRest ==
  ASSUME NEW S, IsFiniteSet(S), S # {}, NEW f
  PROVE  SumFunctionOnSet(f, S) = f[Some(S)] + SumFunctionOnSet(f, Rest(S))
<1>1. Rest(S) \in SUBSET S  BY DEF Rest
<1>2. Summed(f, S)[Rest(S)] = SumFunctionOnSet(f, Rest(S))  BY <1>1, SummedAgree
<1>3. Sums(f, SUBSET S, Summed(f, S)) /\ SumFunctionOnSet(f, S) = Summed(f, S)[S]
  BY SummedSums
<1> QED BY <1>2, <1>3 DEF Sums

LEMMA SumInt ==
  ASSUME NEW S, IsFiniteSet(S), NEW f, \A x \in S : f[x] \in Int
  PROVE  SumFunctionOnSet(f, S) \in Int
<1> DEFINE X == {U \in SUBSET S : SumFunctionOnSet(f, U) \notin Int}
<1> SUFFICES ASSUME X # {} PROVE FALSE  OBVIOUS
<1>1. PICK U \in X : IsFiniteSet(U) /\ \A x \in U : U \ {x} \notin X
  <2>1. X \in SUBSET SUBSET S  OBVIOUS
  <2> HIDE DEF X
  <2> QED BY <2>1, Smallest
<1>2. U \in SUBSET S /\ SumFunctionOnSet(f, U) \notin Int  OBVIOUS
<1>3. U # {}  BY <1>2, SumEmpty
<1>4. Some(U) \in U /\ Rest(U) \in SUBSET S  BY <1>1, <1>2, <1>3, RestSmaller
<1>5. SumFunctionOnSet(f, Rest(U)) \in Int  BY <1>1, <1>4 DEF Rest
<1>6. f[Some(U)] \in Int  BY <1>2, <1>4
<1>7. SumFunctionOnSet(f, U) = f[Some(U)] + SumFunctionOnSet(f, Rest(U))
  BY <1>1, <1>3, SumRest
<1> QED BY <1>2, <1>5, <1>6, <1>7

\* Any element can be taken out.
LEMMA SumSplit ==
  ASSUME NEW S, IsFiniteSet(S), NEW f, \A x \in S : f[x] \in Int, NEW e \in S
  PROVE  SumFunctionOnSet(f, S) = f[e] + SumFunctionOnSet(f, S \ {e})
<1> DEFINE Good(U) == \A x \in U : SumFunctionOnSet(f, U)
                                     = f[x] + SumFunctionOnSet(f, U \ {x})
           X == {U \in SUBSET S : ~Good(U)}
<1> SUFFICES ASSUME X # {} PROVE FALSE
  <2>1. S \in SUBSET S  OBVIOUS
  <2> QED BY <2>1
<1>1. PICK U \in X : IsFiniteSet(U) /\ \A x \in U : U \ {x} \notin X
  <2>1. X \in SUBSET SUBSET S  OBVIOUS
  <2> HIDE DEF X
  <2> QED BY <2>1, Smallest
<1>2. U \in SUBSET S /\ ~Good(U)  OBVIOUS
<1>3. PICK x \in U : SumFunctionOnSet(f, U) # f[x] + SumFunctionOnSet(f, U \ {x})
  BY <1>2
<1> DEFINE c == Some(U)
<1>4. U # {} /\ c \in U /\ Rest(U) = U \ {c} /\ Rest(U) \in SUBSET S
      /\ IsFiniteSet(Rest(U))
  BY <1>1, <1>2, RestSmaller DEF Rest
<1>5. SumFunctionOnSet(f, U) = f[c] + SumFunctionOnSet(f, U \ {c})
  BY <1>1, <1>4, SumRest
<1>6. x # c  BY <1>3, <1>5
<1>7. U \ {c} \in SUBSET S /\ U \ {x} \in SUBSET S /\ U \ {c} \notin X /\ U \ {x} \notin X
  BY <1>1, <1>2, <1>4
<1>8. Good(U \ {c}) /\ Good(U \ {x})  BY <1>7
<1>9. x \in U \ {c} /\ c \in U \ {x} /\ (U \ {c}) \ {x} = (U \ {x}) \ {c}
  BY <1>4, <1>6
<1> DEFINE both == SumFunctionOnSet(f, (U \ {c}) \ {x})
<1>10. SumFunctionOnSet(f, U \ {c}) = f[x] + both
       /\ SumFunctionOnSet(f, U \ {x}) = f[c] + both
  BY <1>8, <1>9
<1>11. both \in Int
  <2>1. IsFiniteSet((U \ {c}) \ {x})  BY <1>1, FS_Subset
  <2>2. \A y \in (U \ {c}) \ {x} : f[y] \in Int  BY <1>2
  <2> QED BY <2>1, <2>2, SumInt
<1>12. f[x] \in Int /\ f[c] \in Int  BY <1>2, <1>4
<1> HIDE DEF both, c
<1> QED BY <1>3, <1>5, <1>10, <1>11, <1>12

\* A function of at least as much has at least the sum.
LEMMA SumLess ==
  ASSUME NEW S, IsFiniteSet(S), NEW f, NEW g,
         \A x \in S : f[x] \in Int /\ g[x] \in Int /\ f[x] <= g[x]
  PROVE  SumFunctionOnSet(f, S) <= SumFunctionOnSet(g, S)
<1> DEFINE Good(U) == SumFunctionOnSet(f, U) <= SumFunctionOnSet(g, U)
           X == {U \in SUBSET S : ~Good(U)}
<1> SUFFICES ASSUME X # {} PROVE FALSE
  <2>1. S \in SUBSET S  OBVIOUS
  <2> QED BY <2>1
<1>1. PICK U \in X : IsFiniteSet(U) /\ \A x \in U : U \ {x} \notin X
  <2>1. X \in SUBSET SUBSET S  OBVIOUS
  <2> HIDE DEF X
  <2> QED BY <2>1, Smallest
<1>2. U \in SUBSET S /\ ~Good(U)  OBVIOUS
<1>3. U # {}  BY <1>2, SumEmpty
<1>4. PICK x \in U : TRUE  BY <1>3
<1>5. U \ {x} \in SUBSET S /\ U \ {x} \notin X /\ IsFiniteSet(U \ {x})
  BY <1>1, <1>2, FS_Subset
<1>6. Good(U \ {x})  BY <1>5
<1>7. /\ SumFunctionOnSet(f, U) = f[x] + SumFunctionOnSet(f, U \ {x})
      /\ SumFunctionOnSet(g, U) = g[x] + SumFunctionOnSet(g, U \ {x})
  BY <1>1, <1>2, SumSplit
<1>8. /\ SumFunctionOnSet(f, U \ {x}) \in Int
      /\ SumFunctionOnSet(g, U \ {x}) \in Int
  BY <1>2, <1>5, SumInt
<1>9. f[x] \in Int /\ g[x] \in Int /\ f[x] <= g[x]  BY <1>2
<1> QED BY <1>2, <1>6, <1>7, <1>8, <1>9

LEMMA SumSame ==
  ASSUME NEW S, IsFiniteSet(S), NEW f, NEW g,
         \A x \in S : f[x] \in Int /\ g[x] = f[x]
  PROVE  SumFunctionOnSet(f, S) = SumFunctionOnSet(g, S)
<1>1. \A x \in S : f[x] \in Int /\ g[x] \in Int /\ f[x] <= g[x] /\ g[x] <= f[x]
  OBVIOUS
<1>2. SumFunctionOnSet(f, S) <= SumFunctionOnSet(g, S)
      /\ SumFunctionOnSet(g, S) <= SumFunctionOnSet(f, S)
  BY <1>1, SumLess
<1>3. SumFunctionOnSet(f, S) \in Int /\ SumFunctionOnSet(g, S) \in Int
  BY <1>1, SumInt
<1> QED BY <1>2, <1>3

\* A function that is changed in one place.
LEMMA SumChanged ==
  ASSUME NEW S, IsFiniteSet(S), NEW f, NEW g, NEW e \in S,
         \A x \in S : f[x] \in Int /\ g[x] \in Int,
         \A x \in S \ {e} : g[x] = f[x]
  PROVE  SumFunctionOnSet(g, S) = (SumFunctionOnSet(f, S) - f[e]) + g[e]
<1>1. /\ SumFunctionOnSet(f, S) = f[e] + SumFunctionOnSet(f, S \ {e})
      /\ SumFunctionOnSet(g, S) = g[e] + SumFunctionOnSet(g, S \ {e})
  BY SumSplit
<1>2. IsFiniteSet(S \ {e})  BY FS_Subset
<1>3. SumFunctionOnSet(f, S \ {e}) = SumFunctionOnSet(g, S \ {e})
  BY <1>2, SumSame
<1>4. SumFunctionOnSet(f, S \ {e}) \in Int  BY <1>2, SumInt
<1>5. f[e] \in Int /\ g[e] \in Int  OBVIOUS
<1> QED BY <1>1, <1>3, <1>4, <1>5

\* Sums of naturals.
LEMMA SumZero ==
  ASSUME NEW S, IsFiniteSet(S), NEW f, \A x \in S : f[x] = 0
  PROVE  SumFunctionOnSet(f, S) = 0
<1> DEFINE X == {U \in SUBSET S : SumFunctionOnSet(f, U) # 0}
<1> SUFFICES ASSUME X # {} PROVE FALSE
  <2>1. S \in SUBSET S  OBVIOUS
  <2> QED BY <2>1
<1>1. PICK U \in X : IsFiniteSet(U) /\ \A x \in U : U \ {x} \notin X
  <2>1. X \in SUBSET SUBSET S  OBVIOUS
  <2> HIDE DEF X
  <2> QED BY <2>1, Smallest
<1>2. U \in SUBSET S /\ SumFunctionOnSet(f, U) # 0  OBVIOUS
<1>3. U # {}  BY <1>2, SumEmpty
<1>4. Some(U) \in U /\ Rest(U) \in SUBSET S  BY <1>1, <1>2, <1>3, RestSmaller
<1>5. SumFunctionOnSet(f, Rest(U)) = 0  BY <1>1, <1>4 DEF Rest
<1>6. SumFunctionOnSet(f, U) = f[Some(U)] + SumFunctionOnSet(f, Rest(U))
  BY <1>1, <1>3, SumRest
<1> QED BY <1>2, <1>4, <1>5, <1>6

LEMMA SumNat ==
  ASSUME NEW S, IsFiniteSet(S), NEW f, \A x \in S : f[x] \in Nat
  PROVE  SumFunctionOnSet(f, S) \in Nat
<1> DEFINE zero == [x \in S |-> 0]
<1>1. \A x \in S : zero[x] = 0 /\ zero[x] \in Int /\ f[x] \in Int /\ zero[x] <= f[x]
  OBVIOUS
<1>2. SumFunctionOnSet(zero, S) <= SumFunctionOnSet(f, S)
  <2> HIDE DEF zero
  <2> QED BY <1>1, SumLess
<1>3. SumFunctionOnSet(zero, S) = 0
  <2> HIDE DEF zero
  <2> QED BY <1>1, SumZero
<1>4. SumFunctionOnSet(f, S) \in Int  BY <1>1, SumInt
<1> QED BY <1>2, <1>3, <1>4

\* Sets that do not overlap have together as many elements as they have one by
\* one.
LEMMA SumCards ==
  ASSUME NEW S, IsFiniteSet(S), NEW f, NEW cell,
         \A x \in S : IsFiniteSet(cell[x]) /\ f[x] = Cardinality(cell[x]),
         \A x, y \in S : x # y => cell[x] \cap cell[y] = {},
         NEW V, \A v : v \in V <=> \E x \in S : v \in cell[x]
  PROVE  SumFunctionOnSet(f, S) = Cardinality(V)
<1> DEFINE Cells(U) == UNION {cell[x] : x \in U}
           Good(U) == IsFiniteSet(Cells(U)) /\ SumFunctionOnSet(f, U) = Cardinality(Cells(U))
           X == {U \in SUBSET S : ~Good(U)}
<1> SUFFICES ASSUME X # {} PROVE FALSE
  <2>1. S \in SUBSET S  OBVIOUS
  <2>2. V = Cells(S)  OBVIOUS
  <2> QED BY <2>1, <2>2
<1>1. PICK U \in X : IsFiniteSet(U) /\ \A x \in U : U \ {x} \notin X
  <2>1. X \in SUBSET SUBSET S  OBVIOUS
  <2> HIDE DEF X
  <2> QED BY <2>1, Smallest
<1>2. U \in SUBSET S /\ ~Good(U)  OBVIOUS
<1>3. CASE U = {}
  <2>1. Cells(U) = {}  BY <1>3
  <2>2. IsFiniteSet({}) /\ Cardinality({}) = 0  BY FS_EmptySet
  <2> QED BY <1>2, <1>3, <2>1, <2>2, SumEmpty
<1>4. ASSUME NEW e \in U PROVE FALSE
  <2> DEFINE R == U \ {e}
  <2>1. R \in SUBSET S /\ Good(R)  BY <1>1, <1>2
  <2>2. \A x \in U : f[x] \in Int  BY <1>2, FS_CardinalityType
  <2>3. SumFunctionOnSet(f, U) = f[e] + SumFunctionOnSet(f, R)
    BY <1>1, <2>2, SumSplit
  <2>4. Cells(U) = cell[e] \cup Cells(R)  OBVIOUS
  <2>5. cell[e] \cap Cells(R) = {}  BY <1>2
  <2>6. IsFiniteSet(cell[e]) /\ f[e] = Cardinality(cell[e])  BY <1>2
  <2> HIDE DEF R, Cells
  <2>7. /\ IsFiniteSet(Cells(U))
        /\ Cardinality(Cells(U)) = Cardinality(cell[e]) + Cardinality(Cells(R)) - 0
    <3>1. Cardinality({}) = 0  BY FS_EmptySet
    <3> QED BY <2>1, <2>4, <2>5, <2>6, <3>1, FS_Union
  <2>8. Cardinality(cell[e]) \in Nat /\ Cardinality(Cells(R)) \in Nat
    BY <2>1, <2>6, FS_CardinalityType
  <2> QED BY <1>2, <2>1, <2>3, <2>6, <2>7, <2>8
<1> QED BY <1>3, <1>4

\* A part of a set has at most its sum.
LEMMA SumPart ==
  ASSUME NEW S, IsFiniteSet(S), NEW R \in SUBSET S, NEW f, \A x \in S : f[x] \in Nat
  PROVE  SumFunctionOnSet(f, R) <= SumFunctionOnSet(f, S)
<1> DEFINE Good(U) == SumFunctionOnSet(f, U \cap R) <= SumFunctionOnSet(f, U)
           X == {U \in SUBSET S : ~Good(U)}
<1> SUFFICES ASSUME X # {} PROVE FALSE
  <2>1. S \in SUBSET S /\ S \cap R = R  OBVIOUS
  <2> QED BY <2>1
<1>1. PICK U \in X : IsFiniteSet(U) /\ \A x \in U : U \ {x} \notin X
  <2>1. X \in SUBSET SUBSET S  OBVIOUS
  <2> HIDE DEF X
  <2> QED BY <2>1, Smallest
<1>2. U \in SUBSET S /\ ~Good(U)  OBVIOUS
<1>3. U # {}
  <2>1. {} \cap R = {}  OBVIOUS
  <2> QED BY <1>2, <2>1, SumEmpty
<1>4. PICK x \in U : TRUE  BY <1>3
<1>5. U \ {x} \in SUBSET S /\ U \ {x} \notin X /\ IsFiniteSet(U \ {x})
      /\ IsFiniteSet(U \cap R) /\ IsFiniteSet((U \ {x}) \cap R)
  BY <1>1, <1>2, FS_Subset
<1>6. Good(U \ {x})  BY <1>5
<1>7. SumFunctionOnSet(f, U) = f[x] + SumFunctionOnSet(f, U \ {x})
  BY <1>1, <1>2, SumSplit
<1>8. /\ SumFunctionOnSet(f, U \ {x}) \in Int
      /\ SumFunctionOnSet(f, (U \ {x}) \cap R) \in Int
      /\ f[x] \in Nat
  BY <1>2, <1>5, SumInt
<1>9. CASE x \in R
  <2>1. (U \cap R) \ {x} = (U \ {x}) \cap R /\ x \in U \cap R  BY <1>9
  <2>2. SumFunctionOnSet(f, U \cap R) = f[x] + SumFunctionOnSet(f, (U \ {x}) \cap R)
    BY <1>2, <1>5, <2>1, SumSplit
  <2> QED BY <1>2, <1>6, <1>7, <1>8, <2>2
<1>10. CASE x \notin R
  <2>1. U \cap R = (U \ {x}) \cap R  BY <1>10
  <2> QED BY <1>2, <1>6, <1>7, <1>8, <2>1
<1> QED BY <1>9, <1>10

-----------------------------------------------------------------------------
\* The mean of quotas is a number.

LEMMA MeanType ==
  ASSUME NEW n \in Nat \ {0}, NEW q \in [0 .. n - 1 -> Nat]
  PROVE  Mean(q, n) \in Nat
<1> DEFINE some == {i \in 0 .. n - 1 : q[i] > 0}
           sum == SumFunctionOnSet(q, 0 .. n - 1)
<1>1. IsFiniteSet(0 .. n - 1)  BY FS_Interval
<1>2. sum \in Nat  BY <1>1, SumNat
<1>3. some # {} => Cardinality(some) \in Nat \ {0}
  <2>1. IsFiniteSet(some)  BY <1>1, FS_Subset
  <2> QED BY <2>1, FS_CardinalityType, FS_EmptySet
<1>4. Mean(q, n) = 0 \/ (some # {} /\ Mean(q, n) = sum \div Cardinality(some))
  BY DEF Mean
<1>5. \A a \in Nat, b \in Nat \ {0} : a \div b \in Nat  BY DivMod
<1> HIDE DEF some, sum
<1> QED BY <1>2, <1>3, <1>4, <1>5

\* The members of a set, counted one by one.
LEMMA SumOnes ==
  ASSUME NEW S, IsFiniteSet(S), NEW f, \A x \in S : f[x] = 1
  PROVE  SumFunctionOnSet(f, S) = Cardinality(S)
<1> DEFINE cell == [x \in S |-> {x}]
<1>1. \A x \in S : cell[x] = {x}  OBVIOUS
<1>2. \A x : IsFiniteSet({x}) /\ Cardinality({x}) = 1  BY FS_Singleton
<1> HIDE DEF cell
<1>3. \A x \in S : IsFiniteSet(cell[x]) /\ f[x] = Cardinality(cell[x])  BY <1>1, <1>2
<1>4. \A x, y \in S : x # y => cell[x] \cap cell[y] = {}  BY <1>1
<1>5. PICK V : V = S  OBVIOUS
<1>6. \A v : v \in V <=> \E x \in S : v \in cell[x]  BY <1>1, <1>5
<1>7. IsFiniteSet(S)  OBVIOUS
<1>8. SumFunctionOnSet(f, S) = Cardinality(V)
  BY ONLY <1>3, <1>4, <1>6, <1>7, SumCards
<1> QED BY <1>5, <1>8

\* The mean is above 0 when one of the quotas is.
LEMMA MeanPositive ==
  ASSUME NEW n \in Nat \ {0}, NEW q \in [0 .. n - 1 -> Nat], NEW i \in 0 .. n - 1,
         q[i] > 0
  PROVE  Mean(q, n) \in Nat \ {0}
<1> DEFINE some == {j \in 0 .. n - 1 : q[j] > 0}
           sum == SumFunctionOnSet(q, 0 .. n - 1)
           ones == [j \in some |-> 1]
<1>1. IsFiniteSet(0 .. n - 1)  BY FS_Interval
<1>2. some \in SUBSET (0 .. n - 1) /\ IsFiniteSet(some)  BY <1>1, FS_Subset
<1>3. Cardinality(some) \in Nat \ {0}
  <2>1. some # {}  OBVIOUS
  <2> QED BY <1>2, <2>1, FS_CardinalityType, FS_EmptySet
<1>4. SumFunctionOnSet(q, some) <= sum  BY <1>1, <1>2, SumPart
<1>5. SumFunctionOnSet(ones, some) = Cardinality(some)
  <2>1. \A j \in some : ones[j] = 1  OBVIOUS
  <2> HIDE DEF ones, some
  <2> QED BY <1>2, <2>1, SumOnes
<1>6. SumFunctionOnSet(ones, some) <= SumFunctionOnSet(q, some)
  <2>1. \A j \in some : ones[j] \in Int /\ q[j] \in Int /\ ones[j] <= q[j]  OBVIOUS
  <2> HIDE DEF ones, some
  <2> QED BY <1>2, <2>1, SumLess
<1>7. sum \in Nat /\ SumFunctionOnSet(q, some) \in Int
  <2>1. sum \in Nat  BY <1>1, SumNat
  <2>2. \A j \in some : q[j] \in Int  OBVIOUS
  <2> HIDE DEF some
  <2> QED BY <1>2, <2>1, <2>2, SumInt
<1>8. Mean(q, n) = sum \div Cardinality(some)
  <2>1. some # {}  OBVIOUS
  <2> QED BY <2>1 DEF Mean
<1>9. \A a \in Nat, b \in Nat \ {0} : a >= b => a \div b \in Nat \ {0}
  <2>1. SUFFICES ASSUME NEW a \in Nat, NEW b \in Nat \ {0}, a >= b
                 PROVE  a \div b \in Nat \ {0}
    OBVIOUS
  <2>2. /\ a \div b \in Nat /\ a % b \in 0 .. b - 1
        /\ a = (a \div b) * b + (a % b)
    BY DivMod
  <2>3. a \div b # 0
    <3>1. ASSUME a \div b = 0 PROVE FALSE
      <4>1. (a \div b) * b = 0  BY <3>1
      <4> QED BY <2>1, <2>2, <4>1
    <3> QED BY <3>1
  <2> QED BY <2>2, <2>3
<1> HIDE DEF some, sum, ones
<1>10. sum >= Cardinality(some)
  BY <1>3, <1>4, <1>5, <1>6, <1>7
<1> QED BY <1>3, <1>7, <1>8, <1>9, <1>10
=============================================================================
