--------------------------- MODULE KeyRangeProofs ---------------------------
(* What a limited range read returns, and that a scan made of them leaves   *)
(* nothing out, for any set of keys and any batch size.                     *)
EXTENDS KeyRange, FiniteSetTheorems, TLAPS

\* Leaves are given to Zenon unless they name another prover.
USE ZenonT(30)

\* The order of keys is a strict total order.
LEMMA KeyOrder ==
    /\ \A a \in Nat \X Nat : ~Before(a, a)
    /\ \A a, b, c \in Nat \X Nat : Before(a, b) /\ Before(b, c) => Before(a, c)
    /\ \A a, b \in Nat \X Nat : a = b \/ Before(a, b) \/ Before(b, a)
<1>1. \A a \in Nat \X Nat : a[1] \in Nat /\ a[2] \in Nat /\ a = <<a[1], a[2]>>
  BY SMTT(30)
<1> QED
  BY SMTT(30), <1>1 DEF Before

\* A set of keys that is not empty and finite has a first key.
LEMMA FirstKey ==
    ASSUME NEW S \in SUBSET (Nat \X Nat), IsFiniteSet(S), S # {}
    PROVE  \E k \in S : \A j \in S : ~Before(j, k)
<1> DEFINE Below(k) == {j \in S : Before(j, k)}
           T == {Below(k) : k \in S}
<1>1. \A k \in S : Below(k) \in FiniteSubsetsOf(S)
  <2> SUFFICES ASSUME NEW k \in S PROVE Below(k) \in FiniteSubsetsOf(S)
    OBVIOUS
  <2>1. Below(k) \in SUBSET S
    OBVIOUS
  <2>2. IsFiniteSet(Below(k))
    BY <2>1, FS_Subset
  <2> QED
    BY <2>1, <2>2 DEF FiniteSubsetsOf
<1>2. T \subseteq FiniteSubsetsOf(S) /\ T # {}
  BY <1>1
<1>3. \E x \in T : \A y \in T : ~(<<y, x>> \in StrictSubsetOrdering(S))
  <2> HIDE DEF T
  <2> QED
    BY <1>2, FS_StrictSubsetOrderingWellFounded, WFMin
<1>4. PICK k \in S : \A j \in S : ~(<<Below(j), Below(k)>> \in StrictSubsetOrdering(S))
  BY <1>3
<1>5. ASSUME NEW j \in S, Before(j, k) PROVE FALSE
  <2>1. Below(j) \subseteq Below(k)
    BY <1>5, KeyOrder
  <2>2. j \in Below(k) /\ j \notin Below(j)
    BY <1>5, KeyOrder
  <2>3. <<Below(j), Below(k)>> \in StrictSubsetOrdering(S)
    BY <2>1, <2>2 DEF StrictSubsetOrdering
  <2> QED
    BY <2>3, <1>4
<1> QED
  BY <1>5

\* It also has a last key.
LEMMA FinalKey ==
    ASSUME NEW S \in SUBSET (Nat \X Nat), IsFiniteSet(S), S # {}
    PROVE  \E k \in S : \A j \in S : ~Before(k, j)
<1> DEFINE Above(k) == {j \in S : Before(k, j)}
           T == {Above(k) : k \in S}
<1>1. \A k \in S : Above(k) \in FiniteSubsetsOf(S)
  <2> SUFFICES ASSUME NEW k \in S PROVE Above(k) \in FiniteSubsetsOf(S)
    OBVIOUS
  <2>1. Above(k) \in SUBSET S
    OBVIOUS
  <2>2. IsFiniteSet(Above(k))
    BY <2>1, FS_Subset
  <2> QED
    BY <2>1, <2>2 DEF FiniteSubsetsOf
<1>2. T \subseteq FiniteSubsetsOf(S) /\ T # {}
  BY <1>1
<1>3. \E x \in T : \A y \in T : ~(<<y, x>> \in StrictSubsetOrdering(S))
  <2> HIDE DEF T
  <2> QED
    BY <1>2, FS_StrictSubsetOrderingWellFounded, WFMin
<1>4. PICK k \in S : \A j \in S : ~(<<Above(j), Above(k)>> \in StrictSubsetOrdering(S))
  BY <1>3
<1>5. ASSUME NEW j \in S, Before(k, j) PROVE FALSE
  <2>1. Above(j) \subseteq Above(k)
    BY <1>5, KeyOrder
  <2>2. j \in Above(k) /\ j \notin Above(j)
    BY <1>5, KeyOrder
  <2>3. <<Above(j), Above(k)>> \in StrictSubsetOrdering(S)
    BY <2>1, <2>2 DEF StrictSubsetOrdering
  <2> QED
    BY <2>3, <1>4
<1> QED
  BY <1>5

\* A batch of a limited range read: it is empty only when the scan is at its end,
\* and otherwise the scan goes on after it and leaves no key out.
LEMMA BatchCovers ==
    ASSUME NEW S \in SUBSET (Nat \X Nat), IsFiniteSet(S), NEW cursor \in Nat \X Nat,
           NEW n \in Nat \ {0}
    PROVE  LET batch == NextKeys(S, cursor, n)
           IN  /\ batch \subseteq S
               /\ batch = {} => \A k \in S : ~Before(cursor, k)
               /\ batch # {} => /\ LastKey(batch) \in batch
                                /\ \A k \in S : Before(cursor, k) =>
                                      k \in batch \/ Before(LastKey(batch), k)
<1> DEFINE rest == {k \in S : Before(cursor, k)}
           Below(k) == {j \in rest : Before(j, k)}
           batch == NextKeys(S, cursor, n)
<1>1. rest \in SUBSET S /\ IsFiniteSet(rest)
  BY FS_Subset
<1>2. batch = {k \in rest : Cardinality(Below(k)) < n}
  BY DEF NextKeys
<1>3. batch \in SUBSET S /\ IsFiniteSet(batch)
  BY <1>2, FS_Subset
<1>4. \A k \in rest : IsFiniteSet(Below(k)) /\ Cardinality(Below(k)) \in Nat
  <2> SUFFICES ASSUME NEW k \in rest
               PROVE  IsFiniteSet(Below(k)) /\ Cardinality(Below(k)) \in Nat
    OBVIOUS
  <2>1. Below(k) \in SUBSET rest
    OBVIOUS
  <2>2. IsFiniteSet(Below(k))
    BY <2>1, <1>1, FS_Subset
  <2> QED
    BY <2>2, FS_CardinalityType
<1>5. ASSUME rest # {} PROVE batch # {}
  <2>1. PICK k \in rest : \A j \in rest : ~Before(j, k)
    BY <1>1, <1>5, FirstKey
  <2>2. Below(k) = {}
    BY <2>1
  <2>3. Cardinality(Below(k)) = 0
    BY <2>2, FS_EmptySet
  <2> QED
    BY SMTT(30), <2>1, <2>3, <1>2
<1>6. ASSUME batch # {} PROVE LastKey(batch) \in batch /\ \A j \in batch : ~Before(LastKey(batch), j)
  <2>1. \E k \in batch : \A j \in batch : ~Before(k, j)
    BY <1>3, <1>6, FinalKey
  <2> HIDE DEF batch
  <2> QED
    BY <2>1 DEF LastKey
<1>7. ASSUME batch # {}, NEW k \in rest, k \notin batch PROVE Before(LastKey(batch), k)
  <2> DEFINE l == LastKey(batch)
  <2>1. l \in batch /\ l \in rest /\ l \in Nat \X Nat /\ k \in Nat \X Nat
    BY <1>6, <1>7, <1>2, <1>1
  <2>2. SUFFICES ASSUME Before(k, l) PROVE FALSE
    BY <2>1, <1>7, KeyOrder
  <2>3. Below(k) \subseteq Below(l)
    BY <2>1, <2>2, KeyOrder
  <2>4. Cardinality(Below(k)) <= Cardinality(Below(l))
    BY <2>1, <2>3, <1>4, FS_Subset
  <2>5. Cardinality(Below(l)) < n /\ ~(Cardinality(Below(k)) < n)
    BY <2>1, <1>2, <1>7
  <2> HIDE DEF l, Below
  <2> QED
    BY SMTT(30), <2>1, <2>4, <2>5, <1>4, <1>7
<1> HIDE DEF batch
<1> QED
  BY <1>3, <1>5, <1>6, <1>7, <1>2 DEF batch
=============================================================================
