---------------------------- MODULE ListProofs ------------------------------
(***************************************************************************)
(* Lemmas about least elements, positions and selections from lists.  They  *)
(* take the place of induction over a list: a set of counterexamples has a  *)
(* least element.                                                          *)
(***************************************************************************)
EXTENDS Bytes, SequencesExt, FiniteSetTheorems, SequenceTheorems, WellFoundedInduction, TLAPS

(* A set of naturals has a least element. *)
LEMMA LeastNat ==
    ASSUME NEW T, T \subseteq Nat, T # {}
    PROVE  \E x \in T : \A y \in T : x <= y
<1>1. PICK x \in T : \A y \in T : ~(<<y, x>> \in OpToRel(<, Nat))
  BY NatLessThanWellFounded, WFMin
<1>2. \A y \in T : <<y, x>> \in OpToRel(<, Nat) <=> y < x
  BY DEF OpToRel
<1>3. \A y \in T : ~(y < x)
  BY <1>1, <1>2, Zenon
<1>4. x \in Nat /\ \A y \in T : y \in Nat
  OBVIOUS
<1> HIDE <1>1, <1>2
<1> QED
  BY <1>3, <1>4

(* A set of naturals with a bound has a greatest element. *)
LEMMA GreatestNat ==
    ASSUME NEW T, T \subseteq Nat, T # {}, NEW n \in Nat, \A x \in T : x <= n
    PROVE  \E x \in T : \A y \in T : y <= x
<1> DEFINE U == {n - x : x \in T}
<1>0. \A x \in T : n - x \in Nat
  OBVIOUS
<1>1. U \subseteq Nat /\ U # {}
  BY <1>0, Zenon
<1>2. PICK u \in U : \A v \in U : u <= v
  BY <1>1, LeastNat
<1>3. PICK x \in T : u = n - x
  BY <1>2
<1>4. \A y \in T : n - x <= n - y
  BY <1>2, <1>3
<1> QED
  BY <1>4

-----------------------------------------------------------------------------
(* Ranks: how many members of a set of positions are not above a position. *)

Below(S, i) == {j \in S : j <= i}
Rank(S, i) == Cardinality(Below(S, i))

LEMMA FinitePositions ==
    ASSUME NEW n \in Nat, NEW S \in SUBSET (1..n)
    PROVE  IsFiniteSet(S) /\ Cardinality(S) \in Nat /\ Cardinality(S) <= n
<1>1. IsFiniteSet(1..n) /\ Cardinality(1..n) = n
  BY FS_Interval
<1>2. IsFiniteSet(S) /\ Cardinality(S) <= n
  BY <1>1, FS_Subset
<1> QED
  BY <1>2, FS_CardinalityType

LEMMA FiniteBelow ==
    ASSUME NEW n \in Nat, NEW S \in SUBSET (1..n), NEW i
    PROVE  IsFiniteSet(Below(S, i)) /\ Below(S, i) \subseteq S
<1>1. IsFiniteSet(S)
  BY FinitePositions
<1>2. Below(S, i) \in SUBSET S
  BY DEF Below
<1> QED
  BY <1>1, <1>2, FS_Subset

LEMMA RankType ==
    ASSUME NEW n \in Nat, NEW S \in SUBSET (1..n), NEW i
    PROVE  Rank(S, i) \in Nat /\ Rank(S, i) <= Cardinality(S)
<1>1. IsFiniteSet(S)
  BY FinitePositions
<1>2. IsFiniteSet(Below(S, i)) /\ Below(S, i) \in SUBSET S
  BY FiniteBelow
<1>3. Cardinality(Below(S, i)) <= Cardinality(S)
  BY <1>1, <1>2, FS_Subset
<1> QED
  BY <1>2, <1>3, FS_CardinalityType DEF Rank

(* The rank goes up at each member. *)
LEMMA RankStrict ==
    ASSUME NEW n \in Nat, NEW S \in SUBSET (1..n),
           NEW i \in Int, NEW j \in S, i < j
    PROVE  Rank(S, i) < Rank(S, j)
<1>0. S \subseteq Int
  OBVIOUS
<1>1. Below(S, i) \subseteq Below(S, j) /\ Below(S, i) # Below(S, j)
  <2>1. j \in Int /\ j <= j /\ ~(j <= i)
    BY <1>0
  <2>2. j \in Below(S, j) /\ j \notin Below(S, i)
    BY <2>1, Zenon DEF Below
  <2>3. \A x \in S : x <= i => x <= j
    BY <1>0, <2>1
  <2> QED
    BY <2>2, <2>3, Zenon DEF Below
<1>2. IsFiniteSet(Below(S, j))
  BY FiniteBelow
<1>3. /\ Cardinality(Below(S, i)) <= Cardinality(Below(S, j))
      /\ Cardinality(Below(S, i)) # Cardinality(Below(S, j))
  BY <1>1, <1>2, FS_Subset
<1>4. Rank(S, i) \in Nat /\ Rank(S, j) \in Nat
  BY RankType
<1> QED
  BY <1>3, <1>4 DEF Rank

LEMMA RankOfZero ==
    ASSUME NEW n \in Nat, NEW S \in SUBSET (1..n)
    PROVE  Rank(S, 0) = 0
<1>1. \A j \in S : j \in Int /\ ~(j <= 0)
  OBVIOUS
<1>2. Below(S, 0) = {}
  BY <1>1, Zenon DEF Below
<1> QED
  BY <1>2, FS_EmptySet DEF Rank

(* A member has a rank from 1 on, and no other member has it. *)
LEMMA RankOfMember ==
    ASSUME NEW n \in Nat, NEW S \in SUBSET (1..n), NEW i \in S
    PROVE  /\ Rank(S, i) \in 1..Cardinality(S)
           /\ Nth(S, Rank(S, i)) = i
<1>0. S \subseteq Int /\ 0 < i
  OBVIOUS
<1>1. Rank(S, i) \in 1..Cardinality(S)
  <2>1. Rank(S, 0) < Rank(S, i)
    BY <1>0, RankStrict
  <2>2. Rank(S, i) \in Nat /\ Rank(S, i) <= Cardinality(S)
    BY RankType
  <2>3. Cardinality(S) \in Nat
    BY FinitePositions
  <2> QED
    BY <2>1, <2>2, <2>3, RankOfZero
<1>2. ASSUME NEW j \in S, Rank(S, j) = Rank(S, i)
      PROVE  j = i
  <2>0. Rank(S, i) \in Nat
    BY RankType, Zenon
  <2>1. ~(Rank(S, i) < Rank(S, i))
    BY <2>0
  <2>2. i \in Int /\ j \in Int
    BY <1>0
  <2>3. i < j => Rank(S, i) < Rank(S, j)
    BY <2>2, RankStrict
  <2>4. j < i => Rank(S, j) < Rank(S, i)
    BY <2>2, RankStrict
  <2>5. ~(i < j) /\ ~(j < i)
    BY <1>2, <2>1, <2>3, <2>4
  <2> QED
    BY <2>2, <2>5
<1>3. Nth(S, Rank(S, i)) = CHOOSE j \in S : Rank(S, j) = Rank(S, i)
  BY DEF Nth, Rank, Below
<1> QED
  BY <1>1, <1>2, <1>3

(* And every number up to the size of the set is the rank of a member. *)
LEMMA NthType ==
    ASSUME NEW n \in Nat, NEW S \in SUBSET (1..n), NEW k \in 1..Cardinality(S)
    PROVE  Nth(S, k) \in S /\ Rank(S, Nth(S, k)) = k
<1> DEFINE T == {m \in Nat : k <= Rank(S, m)}
<1>0. S \subseteq Nat /\ k \in Nat /\ k >= 1
  OBVIOUS
<1>1. n \in T
  <2>1. \A j \in S : j <= n
    OBVIOUS
  <2>2. Below(S, n) = S
    BY <2>1, Zenon DEF Below
  <2>3. Cardinality(S) \in Nat
    BY FinitePositions, Zenon
  <2> QED
    BY <2>2, <2>3 DEF Rank
<1>2. PICK m \in T : \A y \in T : m <= y
  BY <1>1, LeastNat
<1>3. m \in Nat /\ k <= Rank(S, m)
  BY <1>2
<1>4. m # 0
  <2>1. Rank(S, 0) = 0
    BY RankOfZero, Zenon
  <2> QED
    BY <1>0, <1>3, <2>1
<1>5. m - 1 \in Nat /\ Rank(S, m - 1) \in Nat /\ Rank(S, m) \in Nat
  <2>1. m - 1 \in Nat
    BY <1>3, <1>4
  <2>2. Rank(S, m - 1) \in Nat /\ Rank(S, m) \in Nat
    BY RankType, Zenon
  <2> QED
    BY <2>1, <2>2
<1>6. ~(k <= Rank(S, m - 1))
  BY <1>2, <1>3, <1>5
<1>7. m \in S
  <2> SUFFICES ASSUME m \notin S PROVE FALSE
    OBVIOUS
  <2>1. \A j \in S : j <= m <=> j <= m - 1
    BY <1>0, <1>3
  <2>2. Below(S, m) = Below(S, m - 1)
    BY <2>1 DEF Below
  <2> QED
    BY <1>3, <1>6, <2>2 DEF Rank
<1>8. Rank(S, m) = Rank(S, m - 1) + 1
  <2>1. \A j \in S : j <= m <=> (j <= m - 1 \/ j = m)
    BY <1>0, <1>3
  <2>2. Below(S, m) = Below(S, m - 1) \cup {m}
    BY <1>7, <2>1 DEF Below
  <2>3. IsFiniteSet(Below(S, m - 1))
    BY FiniteBelow
  <2>4. m \notin Below(S, m - 1)
    BY <1>3 DEF Below
  <2>5. Cardinality(Below(S, m - 1) \cup {m}) = Cardinality(Below(S, m - 1)) + 1
    BY <2>3, <2>4, FS_AddElement
  <2> QED
    BY <2>2, <2>5 DEF Rank
<1>9. Rank(S, m) = k
  BY <1>0, <1>3, <1>5, <1>6, <1>8
<1> QED
  BY <1>7, <1>9, RankOfMember

-----------------------------------------------------------------------------
(* Selections. *)

LEMMA NthInjective ==
    ASSUME NEW n \in Nat, NEW S \in SUBSET (1..n),
           NEW k \in 1..Cardinality(S), NEW l \in 1..Cardinality(S),
           Nth(S, k) = Nth(S, l)
    PROVE  k = l
BY NthType, Zenon

LEMMA EntriesType ==
    ASSUME NEW X, NEW list \in Seq(X), NEW S \in SUBSET (DOMAIN list),
           NEW Y, \A i \in S : list[i] \in Y
    PROVE  /\ EntriesAt(list, S) \in Seq(Y)
           /\ DOMAIN EntriesAt(list, S) = 1..Cardinality(S)
           /\ Len(EntriesAt(list, S)) = Cardinality(S)
           /\ Cardinality(S) \in Nat
           /\ \A k \in 1..Cardinality(S) :
                 EntriesAt(list, S)[k] = list[Nth(S, k)] /\ Nth(S, k) \in S
<1>1. Len(list) \in Nat /\ S \in SUBSET (1..Len(list))
  OBVIOUS
<1>2. Cardinality(S) \in Nat
  BY <1>1, FinitePositions, Zenon
<1>3. \A k \in 1..Cardinality(S) : Nth(S, k) \in S
  BY <1>1, NthType, Zenon
<1> DEFINE m == Cardinality(S)
           f == [k \in 1..m |-> list[Nth(S, k)]]
<1>4. \A k \in 1..m : list[Nth(S, k)] \in Y
  BY <1>3, Zenon
<1>5. m \in Nat
  BY <1>2
<1> HIDE DEF m
<1>6. f \in Seq(Y) /\ DOMAIN f = 1..m /\ Len(f) = m
  BY <1>4, <1>5
<1> QED
  BY <1>2, <1>3, <1>6, Zenon DEF EntriesAt, m

(* Every entry that is selected is found. *)
LEMMA EntriesCover ==
    ASSUME NEW X, NEW list \in Seq(X), NEW S \in SUBSET (DOMAIN list), NEW i \in S
    PROVE  \E k \in 1..Cardinality(S) :
               EntriesAt(list, S)[k] = list[i] /\ Nth(S, k) = i
<1>1. Len(list) \in Nat /\ S \in SUBSET (1..Len(list))
  OBVIOUS
<1>2. Rank(S, i) \in 1..Cardinality(S) /\ Nth(S, Rank(S, i)) = i
  BY <1>1, RankOfMember, Zenon
<1>3. EntriesAt(list, S)[Rank(S, i)] = list[Nth(S, Rank(S, i))]
  BY <1>2, Zenon DEF EntriesAt
<1> QED
  BY <1>2, <1>3, Zenon

(* A selection of all is the list. *)
LEMMA EntriesAll ==
    ASSUME NEW X, NEW list \in Seq(X)
    PROVE  EntriesAt(list, DOMAIN list) = list
<1> DEFINE n == Len(list)
<1>1. n \in Nat /\ DOMAIN list = 1..n
  OBVIOUS
<1> HIDE DEF n
<1>2. Cardinality(1..n) = n
  BY <1>1, FS_Interval
<1>3. ASSUME NEW k \in 1..n
      PROVE  Nth(1..n, k) = k
  <2>1. \A j \in 1..n : j <= k <=> j \in 1..k
    BY <1>1
  <2>2. 1..k \subseteq 1..n
    BY <1>1
  <2>3. Below(1..n, k) = 1..k
    BY <2>1, <2>2, Zenon DEF Below
  <2>4. Cardinality(1..k) = k
    BY <1>1, FS_Interval
  <2>5. Rank(1..n, k) = k
    BY <2>3, <2>4 DEF Rank
  <2> QED
    BY <1>1, <2>5, RankOfMember
<1>4. EntriesAt(list, 1..n) = [k \in 1..n |-> list[Nth(1..n, k)]]
  BY <1>2 DEF EntriesAt
<1>5. [k \in 1..n |-> list[Nth(1..n, k)]] = [k \in 1..n |-> list[k]]
  BY <1>3, Zenon
<1>6. list = [k \in 1..n |-> list[k]]
  BY <1>1
<1> QED
  BY <1>1, <1>4, <1>5, <1>6, Zenon

-----------------------------------------------------------------------------
(* How the k-th position of one set goes over into that of another. *)

LEMMA NthIncreasing ==
    ASSUME NEW n \in Nat, NEW S \in SUBSET (1..n),
           NEW k \in 1..Cardinality(S), NEW l \in 1..Cardinality(S), k < l
    PROVE  Nth(S, k) < Nth(S, l)
<1>1. /\ Nth(S, k) \in S /\ Rank(S, Nth(S, k)) = k
      /\ Nth(S, l) \in S /\ Rank(S, Nth(S, l)) = l
  BY NthType, Zenon
<1>2. Nth(S, k) \in Int /\ Nth(S, l) \in Int
  <2>1. S \subseteq Int
    OBVIOUS
  <2> QED
    BY <1>1, <2>1, Zenon
<1>3. Nth(S, l) < Nth(S, k) => l < k
  BY <1>1, <1>2, RankStrict
<1>4. k \in Int /\ l \in Int
  OBVIOUS
<1>5. Nth(S, k) # Nth(S, l)
  BY <1>1, <1>4
<1> QED
  BY <1>2, <1>3, <1>4, <1>5

(* A one-to-one image has as many members. *)
LEMMA ImageCardinality ==
    ASSUME NEW A, IsFiniteSet(A), NEW T, NEW f \in [A -> T],
           \A i, j \in A : f[i] = f[j] => i = j,
           \A t \in T : \E i \in A : f[i] = t
    PROVE  Cardinality(T) = Cardinality(A)
<1>1. f \in Bijection(A, T)
  BY DEF Bijection, Injection, Surjection, IsInjective
<1>2. ExistsBijection(A, T)
  BY <1>1 DEF ExistsBijection
<1> QED
  BY <1>2, FS_Bijection

(* S is a set of positions of some list. *)
Positions(S) == \E n \in Nat : S \in SUBSET (1..n)

(* f maps the positions S to the positions T, in order. *)
Increasing(f, S, T) ==
    /\ f \in [S -> T]
    /\ \A i, j \in S : i < j => f[i] < f[j]
    /\ \A t \in T : \E i \in S : f[i] = t

(* An increasing image keeps ranks. *)
LEMMA ImageNth ==
    ASSUME NEW S, NEW T, NEW f, Positions(S), Positions(T), Increasing(f, S, T)
    PROVE  /\ Cardinality(T) = Cardinality(S)
           /\ \A k \in 1..Cardinality(S) : Nth(T, k) = f[Nth(S, k)]
<1>a. PICK n \in Nat : S \in SUBSET (1..n)
  BY DEF Positions
<1>b. PICK m \in Nat : T \in SUBSET (1..m)
  BY DEF Positions
<1>c. /\ f \in [S -> T]
      /\ \A i, j \in S : i < j => f[i] < f[j]
      /\ \A t \in T : \E i \in S : f[i] = t
  BY DEF Increasing
<1>0. \A i \in S : i \in Int /\ f[i] \in Int
  <2>1. S \subseteq Int /\ T \subseteq Int
    BY <1>a, <1>b
  <2> QED
    BY <1>c, <2>1
<1>1. \A i, j \in S : /\ f[i] = f[j] => i = j
                      /\ f[j] <= f[i] <=> j <= i
  <2> SUFFICES ASSUME NEW i \in S, NEW j \in S
               PROVE  (f[i] = f[j] => i = j) /\ (f[j] <= f[i] <=> j <= i)
    OBVIOUS
  <2>1. i \in Int /\ j \in Int /\ f[i] \in Int /\ f[j] \in Int
    BY <1>0
  <2>2. (i < j => f[i] < f[j]) /\ (j < i => f[j] < f[i])
    BY <1>c
  <2> QED
    BY <2>1, <2>2
<1>2. IsFiniteSet(S)
  BY <1>a, FinitePositions
<1>3. Cardinality(T) = Cardinality(S)
  <2>1. \A i, j \in S : f[i] = f[j] => i = j
    BY <1>1, Zenon
  <2> QED
    BY <1>2, <1>c, <2>1, ImageCardinality
<1>4. ASSUME NEW i \in S
      PROVE  Rank(T, f[i]) = Rank(S, i)
  <2> DEFINE A == Below(S, i)
             g == [j \in A |-> f[j]]
  <2>1. IsFiniteSet(A) /\ A \subseteq S
    BY <1>a, FiniteBelow
  <2>2. Below(T, f[i]) = {f[j] : j \in A}
    <3>1. ASSUME NEW t \in Below(T, f[i])
          PROVE  \E j \in A : t = f[j]
      <4>1. PICK j \in S : f[j] = t
        BY <1>c, <3>1 DEF Below
      <4>2. f[j] <= f[i]
        BY <3>1, <4>1 DEF Below
      <4>3. j \in A
        BY <1>1, <4>2 DEF Below
      <4> QED
        BY <4>1, <4>3
    <3>2. \A j \in A : f[j] \in Below(T, f[i])
      BY <1>1, <1>c DEF Below
    <3> HIDE DEF A
    <3> QED
      BY <3>1, <3>2
  <2> DEFINE B == {f[j] : j \in A}
  <2> HIDE DEF A
  <2>3. /\ g \in [A -> B]
        /\ \A j, h \in A : g[j] = g[h] => j = h
        /\ \A t \in B : \E j \in A : g[j] = t
    BY <1>1, <1>c, <2>1
  <2> HIDE DEF B, g
  <2>4. Cardinality(B) = Cardinality(A)
    BY <2>1, <2>3, ImageCardinality
  <2> QED
    BY <2>2, <2>4 DEF Rank, A, B
<1>5. ASSUME NEW k \in 1..Cardinality(S)
      PROVE  Nth(T, k) = f[Nth(S, k)]
  <2>1. Nth(S, k) \in S /\ Rank(S, Nth(S, k)) = k
    BY <1>a, NthType, Zenon
  <2>2. f[Nth(S, k)] \in T /\ Rank(T, f[Nth(S, k)]) = k
    BY <1>4, <1>c, <2>1
  <2> QED
    BY <1>b, <2>2, RankOfMember, Zenon
<1> QED
  BY <1>3, <1>5

(* The positions of a part of a list. *)
LEMMA ShiftNth ==
    ASSUME NEW m \in Nat, NEW S, Positions(S)
    PROVE  /\ Positions({m + k : k \in S})
           /\ Cardinality({m + k : k \in S}) = Cardinality(S)
           /\ \A k \in 1..Cardinality(S) :
                 Nth({m + i : i \in S}, k) = m + Nth(S, k)
<1> DEFINE T == {m + k : k \in S}
           f == [k \in S |-> m + k]
<1>1. Positions(T)
  <2>1. PICK n \in Nat : S \in SUBSET (1..n)
    BY DEF Positions
  <2>2. m + n \in Nat /\ T \in SUBSET (1..(m + n))
    BY <2>1
  <2> QED
    BY <2>2 DEF Positions
<1>2. Increasing(f, S, T)
  <2>1. \A i \in S : i \in Int
    BY DEF Positions
  <2> QED
    BY <2>1 DEF Increasing
<1>3. \A i \in S : f[i] = m + i
  OBVIOUS
<1>4. \A k \in 1..Cardinality(S) : Nth(S, k) \in S
  BY NthType, Zenon DEF Positions
<1> HIDE DEF T, f
<1>5. /\ Cardinality(T) = Cardinality(S)
      /\ \A k \in 1..Cardinality(S) : Nth(T, k) = f[Nth(S, k)]
  BY <1>1, <1>2, ImageNth, Zenon
<1>6. \A k \in 1..Cardinality(S) : Nth(T, k) = m + Nth(S, k)
  BY <1>3, <1>4, <1>5, Zenon
<1> QED
  BY <1>1, <1>5, <1>6, Zenon DEF T

LEMMA DisjointCardinality ==
    ASSUME NEW A, NEW B, IsFiniteSet(A), IsFiniteSet(B), A \cap B = {}
    PROVE  Cardinality(A \cup B) = Cardinality(A) + Cardinality(B)
<1>1. Cardinality(A \cap B) = 0
  BY FS_EmptySet
<1>2. Cardinality(A \cup B) = Cardinality(A) + Cardinality(B) - Cardinality(A \cap B)
  BY FS_Union
<1>3. Cardinality(A) \in Nat /\ Cardinality(B) \in Nat
  BY FS_CardinalityType
<1> HIDE <1>1
<1>4. \A a, b \in Nat : a + b - 0 = a + b
  OBVIOUS
<1> QED
  BY <1>1, <1>2, <1>3, <1>4

(* The positions of one set, then those of another behind it. *)
LEMMA UnionNth ==
    ASSUME NEW n \in Nat, NEW A \in SUBSET (1..n), NEW B \in SUBSET (1..n),
           \A a \in A, b \in B : a < b
    PROVE  /\ Cardinality(A \cup B) = Cardinality(A) + Cardinality(B)
           /\ \A k \in 1..Cardinality(A) : Nth(A \cup B, k) = Nth(A, k)
           /\ \A k \in 1..Cardinality(B) :
                 Nth(A \cup B, Cardinality(A) + k) = Nth(B, k)
<1>1. A \cup B \in SUBSET (1..n)
  OBVIOUS
<1>2. /\ IsFiniteSet(A) /\ IsFiniteSet(B)
      /\ Cardinality(A) \in Nat /\ Cardinality(B) \in Nat
  BY <1>1, FinitePositions
<1>3. \A a \in A, b \in B : a \in Int /\ b \in Int /\ a < b
  <2>1. A \subseteq Int /\ B \subseteq Int
    OBVIOUS
  <2> QED
    BY <2>1
<1>4. A \cap B = {}
  BY <1>3
<1>5. Cardinality(A \cup B) = Cardinality(A) + Cardinality(B)
  BY <1>2, <1>4, DisjointCardinality, Zenon
<1>6. ASSUME NEW i \in A
      PROVE  Rank(A \cup B, i) = Rank(A, i)
  <2>1. \A b \in B : ~(b <= i)
    BY <1>3
  <2>2. Below(A \cup B, i) = Below(A, i)
    BY <2>1 DEF Below
  <2> QED
    BY <2>2 DEF Rank
<1>7. ASSUME NEW i \in B
      PROVE  Rank(A \cup B, i) = Cardinality(A) + Rank(B, i)
  <2>1. \A a \in A : a <= i
    BY <1>3
  <2>2. Below(A \cup B, i) = A \cup Below(B, i)
    BY <2>1 DEF Below
  <2>3. IsFiniteSet(Below(B, i)) /\ Below(B, i) \subseteq B
    BY <1>1, FiniteBelow
  <2>4. A \cap Below(B, i) = {}
    BY <1>4, <2>3
  <2>5. Cardinality(A \cup Below(B, i)) = Cardinality(A) + Cardinality(Below(B, i))
    BY <1>2, <2>3, <2>4, DisjointCardinality, Zenon
  <2> QED
    BY <2>2, <2>5 DEF Rank
<1>8. ASSUME NEW k \in 1..Cardinality(A)
      PROVE  Nth(A \cup B, k) = Nth(A, k)
  <2>1. Nth(A, k) \in A /\ Rank(A, Nth(A, k)) = k
    BY <1>1, NthType, Zenon
  <2>2. Nth(A, k) \in A \cup B /\ Rank(A \cup B, Nth(A, k)) = k
    BY <1>6, <2>1
  <2> QED
    BY <1>1, <2>2, RankOfMember
<1>9. ASSUME NEW k \in 1..Cardinality(B)
      PROVE  Nth(A \cup B, Cardinality(A) + k) = Nth(B, k)
  <2>1. Nth(B, k) \in B /\ Rank(B, Nth(B, k)) = k
    BY <1>1, NthType, Zenon
  <2>2. /\ Nth(B, k) \in A \cup B
        /\ Rank(A \cup B, Nth(B, k)) = Cardinality(A) + k
    BY <1>7, <2>1
  <2> QED
    BY <1>1, <2>2, RankOfMember
<1> QED
  BY <1>5, <1>8, <1>9

-----------------------------------------------------------------------------
(* Selections of lists made from lists. *)

(* P is a set of positions of list; these are the positions of what stands  *)
(* at P in b when b is put behind a.                                       *)
Selects(list, P) == P \in SUBSET (DOMAIN list)
Behind(a, P) == {Len(a) + k : k \in P}

(* What is selected from two lists, one behind the other. *)
LEMMA EntriesConcat ==
    ASSUME NEW X, NEW a \in Seq(X), NEW b \in Seq(X),
           NEW A, NEW B, Selects(a, A), Selects(b, B)
    PROVE  EntriesAt(a \o b, A \cup Behind(a, B))
             = EntriesAt(a, A) \o EntriesAt(b, B)
<1> DEFINE m == Len(a)
           n == Len(a) + Len(b)
           C == {m + k : k \in B}
           c == a \o b
           ca == Cardinality(A)
           cb == Cardinality(B)
<1>0. /\ m \in Nat /\ Len(b) \in Nat /\ n \in Nat /\ m \in 0..n
      /\ c \in Seq(X) /\ Len(c) = n
      /\ A \in SUBSET (1..m) /\ B \in SUBSET (1..Len(b))
      /\ C \in SUBSET ((m + 1)..n)
  BY DEF Selects
<1>1. /\ Cardinality(A \cup C) = ca + Cardinality(C)
      /\ \A k \in 1..ca : Nth(A \cup C, k) = Nth(A, k)
      /\ \A k \in 1..Cardinality(C) : Nth(A \cup C, ca + k) = Nth(C, k)
  <2>1. \A i \in A, j \in C : i < j
    BY <1>0
  <2>2. A \in SUBSET (1..n) /\ C \in SUBSET (1..n)
    BY <1>0
  <2> HIDE DEF m, n, C
  <2> QED
    BY <1>0, <2>1, <2>2, UnionNth DEF ca
<1>2. /\ Cardinality(C) = cb
      /\ \A k \in 1..cb : Nth(C, k) = m + Nth(B, k)
  <2>1. m \in Nat /\ Positions(B)
    BY <1>0 DEF Positions
  <2> HIDE DEF m
  <2> QED
    BY <2>1, ShiftNth, Zenon DEF cb, C
<1>3. /\ \A k \in 1..ca : Nth(A, k) \in A
      /\ \A k \in 1..cb : Nth(B, k) \in B
      /\ ca \in Nat /\ cb \in Nat
  BY <1>0, NthType, FinitePositions, Zenon
<1>4. /\ \A i \in A : c[i] = a[i]
      /\ \A i \in B : c[m + i] = b[i]
  BY <1>0
<1> HIDE DEF m, n, c, ca, cb
<1>5. ASSUME NEW k \in 1..ca
      PROVE  c[Nth(A \cup C, k)] = a[Nth(A, k)]
  BY <1>1, <1>3, <1>4
<1>6. ASSUME NEW k \in 1..cb
      PROVE  c[Nth(A \cup C, ca + k)] = b[Nth(B, k)]
  <2>1. Nth(A \cup C, ca + k) = m + Nth(B, k) /\ Nth(B, k) \in B
    BY <1>1, <1>2, <1>3, Zenon
  <2> QED
    BY <1>4, <2>1
<1> DEFINE g == [k \in 1..(ca + cb) |-> c[Nth(A \cup C, k)]]
           ga == [k \in 1..ca |-> a[Nth(A, k)]]
           gb == [k \in 1..cb |-> b[Nth(B, k)]]
<1>7. g = ga \o gb
  <2>1. \A k \in 1..ca : a[Nth(A, k)] \in X
    BY <1>3 DEF Selects
  <2>2. \A k \in 1..cb : b[Nth(B, k)] \in X
    BY <1>3 DEF Selects
  <2>3. ga \in Seq(X) /\ gb \in Seq(X) /\ Len(ga) = ca /\ Len(gb) = cb
    BY <1>3, <2>1, <2>2
  <2>4. ga \o gb = [k \in 1..(ca + cb) |->
                       IF k <= ca THEN ga[k] ELSE gb[k - ca]]
    BY <1>3, <2>3
  <2>5. ASSUME NEW k \in 1..(ca + cb)
        PROVE  c[Nth(A \cup C, k)] = IF k <= ca THEN ga[k] ELSE gb[k - ca]
    <3>1. CASE k <= ca
      <4>1. k \in 1..ca
        BY <1>3, <3>1
      <4> QED
        BY <1>5, <3>1, <4>1
    <3>2. CASE ~(k <= ca)
      <4>1. k - ca \in 1..cb /\ ca + (k - ca) = k
        BY <1>3, <3>2
      <4> QED
        BY <1>6, <3>2, <4>1
    <3> QED
      BY <3>1, <3>2
  <2> HIDE DEF ga, gb
  <2> QED
    BY <2>4, <2>5, Zenon
<1>8. EntriesAt(c, A \cup C) = g
  BY <1>1, <1>2 DEF EntriesAt, ca, cb
<1>9. EntriesAt(a, A) = ga /\ EntriesAt(b, B) = gb
  BY DEF EntriesAt, ca, cb
<1> HIDE DEF g, ga, gb
<1> QED
  BY <1>7, <1>8, <1>9 DEF Behind, c, m

-----------------------------------------------------------------------------
(* Lines at sets of newlines. *)

LEMMA LinesType ==
    ASSUME NEW b, NEW P, Positions(P)
    PROVE  /\ Cardinality(P) \in Nat
           /\ Len(LinesAt(b, P)) = Cardinality(P)
           /\ DOMAIN LinesAt(b, P) = 1..Cardinality(P)
           /\ LinesAt(b, P) \in Seq({LineAt(b, i) : i \in P})
           /\ \A k \in 1..Cardinality(P) :
                 /\ LinesAt(b, P)[k] = LineAt(b, Nth(P, k))
                 /\ Nth(P, k) \in P
<1> DEFINE c == Cardinality(P)
           f == [k \in 1..c |-> LineAt(b, Nth(P, k))]
           Y == {LineAt(b, i) : i \in P}
<1>1. c \in Nat /\ \A k \in 1..c : Nth(P, k) \in P
  BY FinitePositions, NthType, Zenon DEF Positions
<1>2. \A k \in 1..c : LineAt(b, Nth(P, k)) \in Y
  BY <1>1, Zenon
<1> HIDE DEF c, Y
<1>3. f \in Seq(Y) /\ Len(f) = c /\ DOMAIN f = 1..c
  BY <1>1, <1>2
<1>4. LinesAt(b, P) = f
  BY DEF LinesAt, c
<1>5. \A k \in 1..c : f[k] = LineAt(b, Nth(P, k))
  OBVIOUS
<1> HIDE DEF f
<1> QED
  BY <1>1, <1>3, <1>4, <1>5 DEF c, Y

LEMMA LinesSeq ==
    ASSUME NEW b, NEW P, Positions(P), NEW Z, \A i \in P : LineAt(b, i) \in Z
    PROVE  LinesAt(b, P) \in Seq(Z)
<1> DEFINE c == Cardinality(P)
<1>1. c \in Nat /\ \A k \in 1..c : Nth(P, k) \in P
  BY FinitePositions, NthType, Zenon DEF Positions
<1>2. \A k \in 1..c : LineAt(b, Nth(P, k)) \in Z
  BY <1>1, Zenon
<1> HIDE DEF c
<1>3. [k \in 1..c |-> LineAt(b, Nth(P, k))] \in Seq(Z)
  BY <1>1, <1>2
<1> QED
  BY <1>3 DEF LinesAt, c

(* The lines at one set of newlines, then those at another behind it. *)
LEMMA LinesAtUnion ==
    ASSUME NEW b, NEW n \in Nat, NEW A \in SUBSET (1..n), NEW B \in SUBSET (1..n),
           \A i \in A, j \in B : i < j
    PROVE  LinesAt(b, A \cup B) = LinesAt(b, A) \o LinesAt(b, B)
<1> DEFINE ca == Cardinality(A)
           cb == Cardinality(B)
           U == A \cup B
<1>1. /\ Cardinality(U) = ca + cb
      /\ \A k \in 1..ca : Nth(U, k) = Nth(A, k)
      /\ \A k \in 1..cb : Nth(U, ca + k) = Nth(B, k)
  BY UnionNth
<1>2. Positions(A) /\ Positions(B) /\ Positions(U)
  <2>1. U \in SUBSET (1..n)
    OBVIOUS
  <2> QED
    BY <2>1, Zenon DEF Positions
<1> HIDE DEF U
<1>3. /\ ca \in Nat /\ Len(LinesAt(b, A)) = ca
      /\ \A k \in 1..ca : LinesAt(b, A)[k] = LineAt(b, Nth(A, k))
  BY <1>2, LinesType, Zenon
<1>4. /\ cb \in Nat /\ Len(LinesAt(b, B)) = cb
      /\ \A k \in 1..cb : LinesAt(b, B)[k] = LineAt(b, Nth(B, k))
  BY <1>2, LinesType, Zenon
<1> DEFINE la == LinesAt(b, A)
           lb == LinesAt(b, B)
           lu == LinesAt(b, U)
           Z == {LineAt(b, i) : i \in U}
<1>5. la \in Seq(Z) /\ lb \in Seq(Z) /\ lu \in Seq(Z)
  <2>1. /\ \A i \in A : LineAt(b, i) \in Z
        /\ \A i \in B : LineAt(b, i) \in Z
        /\ \A i \in U : LineAt(b, i) \in Z
    BY DEF U
  <2> HIDE DEF Z
  <2> QED
    BY <1>2, <2>1, LinesSeq
<1>6. /\ Len(lu) = ca + cb
      /\ \A k \in 1..(ca + cb) : lu[k] = LineAt(b, Nth(U, k))
  BY <1>1, <1>2, LinesType, Zenon
<1> HIDE DEF ca, cb, la, lb, lu, Z
<1>7. la \o lb \in Seq(Z) /\ Len(la \o lb) = ca + cb
  BY <1>3, <1>4, <1>5, ConcatProperties DEF la, lb
<1>8. ASSUME NEW k \in 1..(ca + cb)
      PROVE  lu[k] = (la \o lb)[k]
  <2>1. Len(la) = ca /\ Len(lb) = cb
    BY <1>3, <1>4 DEF la, lb
  <2>2. (la \o lb)[k] = IF k <= ca THEN la[k] ELSE lb[k - ca]
    BY <1>5, <2>1, ConcatProperties
  <2>3. CASE k <= ca
    <3>1. k \in 1..ca
      BY <1>3, <2>3
    <3> QED
      BY <1>1, <1>3, <1>6, <2>2, <2>3, <3>1 DEF la
  <2>4. CASE ~(k <= ca)
    <3>1. k - ca \in 1..cb /\ ca + (k - ca) = k
      BY <1>3, <1>4, <2>4
    <3>2. Nth(U, k) = Nth(B, k - ca)
      BY <1>1, <3>1
    <3>3. lb[k - ca] = LineAt(b, Nth(B, k - ca))
      BY <1>4, <3>1 DEF lb
    <3> QED
      BY <1>6, <2>2, <2>4, <3>2, <3>3
  <2> QED
    BY <2>3, <2>4
<1>9. lu = la \o lb
  BY <1>5, <1>6, <1>7, <1>8, SeqEqual
<1> QED
  BY <1>9 DEF lu, la, lb, U

(* The lines of G among lines. *)
LEMMA EntriesOfLines ==
    ASSUME NEW b, NEW P, NEW T, NEW G, Positions(P),
           T \subseteq P, \A i \in P : i \in T <=> LineAt(b, i) \in G
    PROVE  MembersIn(LinesAt(b, P), G) = LinesAt(b, T)
<1> DEFINE c == Cardinality(P)
           L == LinesAt(b, P)
           K == {k \in DOMAIN L : L[k] \in G}
           f == [k \in K |-> Nth(P, k)]
<1>1. /\ c \in Nat /\ DOMAIN L = 1..c
      /\ \A k \in 1..c : L[k] = LineAt(b, Nth(P, k)) /\ Nth(P, k) \in P
  BY LinesType, Zenon
<1> HIDE DEF L
<1>2. Positions(K) /\ Positions(T)
  <2>1. K \in SUBSET (1..c)
    BY <1>1
  <2>2. Positions(K)
    BY <1>1, <2>1, Zenon DEF Positions
  <2>3. Positions(T)
    BY DEF Positions
  <2> QED
    BY <2>2, <2>3
<1>3. \A k \in K : k \in 1..c /\ f[k] = Nth(P, k) /\ f[k] \in T
  BY <1>1
<1>4. ASSUME NEW k \in K, NEW l \in K, k < l
      PROVE  f[k] < f[l]
  BY <1>3, <1>4, NthIncreasing, Zenon DEF Positions
<1>5. ASSUME NEW t \in T
      PROVE  \E k \in K : f[k] = t
  <2>1. t \in P /\ LineAt(b, t) \in G
    OBVIOUS
  <2>2. Rank(P, t) \in 1..c /\ Nth(P, Rank(P, t)) = t
    BY <2>1, RankOfMember, Zenon DEF Positions
  <2>3. Rank(P, t) \in K
    BY <1>1, <2>1, <2>2
  <2> QED
    BY <2>2, <2>3
<1>6. Increasing(f, K, T)
  <2>1. f \in [K -> T]
    BY <1>3
  <2> HIDE DEF f
  <2> QED
    BY <1>4, <1>5, <2>1 DEF Increasing
<1>7. /\ Cardinality(T) = Cardinality(K)
      /\ \A k \in 1..Cardinality(K) : Nth(T, k) = f[Nth(K, k)]
  <2> HIDE DEF f, K
  <2> QED
    BY <1>2, <1>6, ImageNth, Zenon
<1>8. ASSUME NEW k \in 1..Cardinality(K)
      PROVE  L[Nth(K, k)] = LineAt(b, Nth(T, k))
  <2>1. Nth(K, k) \in K
    BY <1>2, NthType, Zenon DEF Positions
  <2> HIDE DEF f, K
  <2> QED
    BY <1>1, <1>3, <1>7, <2>1, Zenon
<1> HIDE DEF K, f
<1>9. [k \in 1..Cardinality(K) |-> L[Nth(K, k)]]
        = [k \in 1..Cardinality(T) |-> LineAt(b, Nth(T, k))]
  BY <1>7, <1>8
<1> QED
  BY <1>9, Zenon DEF MembersIn, EntriesAt, LinesAt, K, L

-----------------------------------------------------------------------------
(* Where a line starts. *)

(* s is where the line that ends at i starts. *)
Starts(b, i, s) ==
    /\ s \in 1..i
    /\ s = 1 \/ b[s - 1] = NL
    /\ \A j \in s..(i - 1) : b[j] # NL

LEMMA LineStartExists ==
    ASSUME NEW b, NEW i \in Nat \ {0}
    PROVE  Starts(b, i, LineStart(b, i))
<1> DEFINE T == {s \in 1..i : s = 1 \/ b[s - 1] = NL}
<1>1. 1 \in T /\ T \subseteq Nat /\ \A s \in T : s <= i
  OBVIOUS
<1>2. PICK s \in T : \A t \in T : t <= s
  BY <1>1, GreatestNat
<1>3. ASSUME NEW j \in s..(i - 1), b[j] = NL
      PROVE  FALSE
  <2>1. j \in Int /\ s \in Int /\ s >= 1 /\ s <= j /\ j <= i - 1
    BY <1>1
  <2>2. j + 1 \in 1..i /\ (j + 1) - 1 = j
    BY <2>1
  <2>3. j + 1 \in T
    BY <1>3, <2>2
  <2>4. ~(j + 1 <= s)
    BY <2>1
  <2> QED
    BY <1>2, <2>3, <2>4
<1>4. Starts(b, i, s)
  BY <1>3 DEF Starts
<1>5. LineStart(b, i) = CHOOSE t : Starts(b, i, t)
  BY DEF LineStart, Starts
<1> QED
  BY <1>4, <1>5

LEMMA LineStartUnique ==
    ASSUME NEW b, NEW i \in Nat \ {0}, NEW s, Starts(b, i, s)
    PROVE  LineStart(b, i) = s
<1> SUFFICES ASSUME NEW t, Starts(b, i, t)
             PROVE  t = s
  BY LineStartExists
<1>1. /\ s \in Int /\ s >= 1 /\ s <= i /\ (s = 1 \/ b[s - 1] = NL)
      /\ t \in Int /\ t >= 1 /\ t <= i /\ (t = 1 \/ b[t - 1] = NL)
  BY DEF Starts
<1>2. ~(s < t)
  <2> SUFFICES ASSUME s < t PROVE FALSE
    OBVIOUS
  <2>1. t - 1 \in s..(i - 1) /\ b[t - 1] = NL
    BY <1>1
  <2> QED
    BY <2>1 DEF Starts
<1>3. ~(t < s)
  <2> SUFFICES ASSUME t < s PROVE FALSE
    OBVIOUS
  <2>1. s - 1 \in t..(i - 1) /\ b[s - 1] = NL
    BY <1>1
  <2> QED
    BY <2>1 DEF Starts
<1> QED
  BY <1>1, <1>2, <1>3

(* A line starts behind every newline before its own. *)
LEMMA LineStartBehind ==
    ASSUME NEW b, NEW i \in Nat \ {0}, NEW j \in 1..(i - 1), b[j] = NL
    PROVE  j < LineStart(b, i)
<1> DEFINE s == LineStart(b, i)
<1>1. s \in 1..i /\ \A k \in s..(i - 1) : b[k] # NL
  BY LineStartExists DEF Starts
<1> HIDE DEF s
<1>2. ~(s <= j)
  BY <1>1
<1> QED
  BY <1>1, <1>2 DEF s

LEMMA EmptyLine ==
    ASSUME NEW b, NEW i \in Nat \ {0}
    PROVE  Empty(b, i) <=> LineStart(b, i) = i
<1> DEFINE s == LineStart(b, i)
<1>1. /\ s \in 1..i /\ (s = 1 \/ b[s - 1] = NL)
      /\ \A k \in s..(i - 1) : b[k] # NL
  BY LineStartExists DEF Starts
<1> HIDE DEF s
<1>2. s = i => Empty(b, i)
  BY <1>1 DEF Empty
<1>3. s # i => i # 1 /\ i - 1 \in s..(i - 1)
  BY <1>1
<1>4. s # i => ~Empty(b, i)
  BY <1>1, <1>3 DEF Empty
<1> QED
  BY <1>2, <1>4 DEF s

-----------------------------------------------------------------------------
(* A part R of a stream s, from the byte behind p to the byte q. *)

Part(R, s, p, q) ==
    /\ p \in Nat /\ q \in Nat /\ p <= q /\ q <= Len(s)
    /\ R = SubSeq(s, p + 1, q)

(* The part cuts no line of G in two, and what it leaves of a line it cuts  *)
(* is none of G.                                                           *)
CutsNone(s, p, G) ==
    \A i \in LineEnds(s) : LineStart(s, i) <= p /\ p < i =>
        /\ LineAt(s, i) \notin G
        /\ p + 1 < i => SubSeq(s, p + 1, i - 1) \notin G

LEMMA PartType ==
    ASSUME NEW X, NEW s \in Seq(X), NEW R, NEW p, NEW q, Part(R, s, p, q)
    PROVE  /\ R \in Seq(X) /\ Len(R) = q - p
           /\ \A k \in 1..(q - p) : R[k] = s[p + k]
BY DEF Part

LEMMA PartLineStart ==
    ASSUME NEW X, NEW s \in Seq(X), NEW R, NEW p, NEW q, Part(R, s, p, q),
           NEW i \in (p + 1)..q
    PROVE  LineStart(R, i - p)
             = IF p < LineStart(s, i) THEN LineStart(s, i) - p ELSE 1
<1> DEFINE t == LineStart(s, i)
<1>0. p \in Nat /\ q \in Nat /\ i \in Nat \ {0} /\ i - p \in Nat \ {0} /\ p < i /\ i <= q
  BY DEF Part
<1>1. \A k \in 1..(q - p) : R[k] = s[p + k]
  BY PartType
<1>2. /\ t \in 1..i /\ (t = 1 \/ s[t - 1] = NL)
      /\ \A j \in t..(i - 1) : s[j] # NL
  BY <1>0, LineStartExists DEF Starts
<1> HIDE DEF t
<1>3. CASE p < t
  <2>1. t - p \in 1..(i - p)
    BY <1>0, <1>2, <1>3
  <2>2. t - p = 1 \/ R[(t - p) - 1] = NL
    <3> SUFFICES ASSUME t - p # 1 PROVE R[(t - p) - 1] = NL
      OBVIOUS
    <3>1. (t - p) - 1 \in 1..(q - p) /\ p + ((t - p) - 1) = t - 1 /\ t # 1
      BY <1>0, <1>2, <1>3
    <3> QED
      BY <1>1, <1>2, <3>1
  <2>3. ASSUME NEW j \in (t - p)..((i - p) - 1)
        PROVE  R[j] # NL
    <3>1. j \in 1..(q - p) /\ p + j \in t..(i - 1)
      BY <1>0, <1>2, <1>3
    <3> QED
      BY <1>1, <1>2, <3>1
  <2>4. Starts(R, i - p, t - p)
    BY <2>1, <2>2, <2>3 DEF Starts
  <2> QED
    BY <1>0, <1>3, <2>4, LineStartUnique DEF t
<1>4. CASE ~(p < t)
  <2>1. ASSUME NEW j \in 1..((i - p) - 1)
        PROVE  R[j] # NL
    <3>1. j \in 1..(q - p) /\ p + j \in t..(i - 1)
      BY <1>0, <1>2, <1>4
    <3> QED
      BY <1>1, <1>2, <3>1
  <2>2. 1 \in 1..(i - p)
    BY <1>0
  <2>3. Starts(R, i - p, 1)
    BY <2>1, <2>2 DEF Starts
  <2> QED
    BY <1>0, <1>4, <2>3, LineStartUnique DEF t
<1> QED
  BY <1>3, <1>4

LEMMA PartLineAt ==
    ASSUME NEW X, NEW s \in Seq(X), NEW R, NEW p, NEW q, Part(R, s, p, q),
           NEW i \in (p + 1)..q
    PROVE  LineAt(R, i - p) = IF p < LineStart(s, i) THEN LineAt(s, i)
                              ELSE SubSeq(s, p + 1, i - 1)
<1> DEFINE a == LineStart(R, i - p)
           c == i - p - 1
           t == LineStart(s, i)
           u == SubSeq(R, a, c)
           v == SubSeq(s, p + a, p + c)
<1>0. /\ p \in Nat /\ q \in Nat /\ p <= q /\ q <= Len(s) /\ Len(s) \in Nat
      /\ i \in Nat \ {0} /\ i - p \in Nat \ {0} /\ p < i /\ i <= q
      /\ c \in Int /\ 0 <= c /\ c <= q - p /\ p + c = i - 1 /\ (i - p) - 1 = c
  BY DEF Part
<1>a. a \in Int /\ 1 <= a /\ a <= q - p
  <2>1. a \in 1..(i - p)
    BY <1>0, LineStartExists DEF Starts
  <2> QED
    BY <1>0, <2>1
<1>b. a = IF p < t THEN t - p ELSE 1
  BY PartLineStart
<1>c. t \in Int
  <2>1. t \in 1..i
    BY <1>0, LineStartExists DEF Starts
  <2> QED
    BY <2>1
<1>d. LineAt(R, i - p) = u
  BY <1>0 DEF LineAt
<1>e. LineAt(s, i) = SubSeq(s, t, i - 1)
  BY DEF LineAt
<1> HIDE DEF a, c, t
<1>1. /\ R \in Seq(X) /\ Len(R) = q - p
      /\ \A k \in 1..(q - p) : R[k] = s[p + k]
  BY PartType
<1>2. \A k \in a..c : R[k] \in X
  BY <1>0, <1>a, <1>1
<1>3. \A k \in (p + a)..(p + c) : s[k] \in X
  BY <1>0, <1>a
<1>4. /\ u \in Seq(X) /\ Len(u) = IF a <= c THEN c - a + 1 ELSE 0
      /\ \A k \in 1..(c - a + 1) : u[k] = R[a + k - 1]
  BY <1>0, <1>a, <1>2, SubSeqProperties
<1>5. /\ v \in Seq(X)
      /\ Len(v) = IF p + a <= p + c THEN (p + c) - (p + a) + 1 ELSE 0
      /\ \A k \in 1..((p + c) - (p + a) + 1) : v[k] = s[(p + a) + k - 1]
  BY <1>0, <1>a, <1>3, SubSeqProperties
<1> HIDE DEF u, v
<1>6. Len(u) = Len(v)
  <2>1. /\ a <= c <=> p + a <= p + c
        /\ c - a + 1 = (p + c) - (p + a) + 1
    BY <1>0, <1>a
  <2>2. Len(u) = IF a <= c THEN c - a + 1 ELSE 0
    BY <1>4
  <2>3. Len(v) = IF p + a <= p + c THEN (p + c) - (p + a) + 1 ELSE 0
    BY <1>5
  <2> QED
    BY <2>1, <2>2, <2>3
<1>7. ASSUME NEW k \in 1..Len(u)
      PROVE  u[k] = v[k]
  <2>1. /\ k \in 1..(c - a + 1) /\ k \in 1..((p + c) - (p + a) + 1)
        /\ a + k - 1 \in 1..(q - p)
        /\ p + (a + k - 1) = (p + a) + k - 1
    BY <1>0, <1>a, <1>4
  <2> QED
    BY <1>1, <1>4, <1>5, <2>1
<1> QED
  <2>1. u = v
    BY <1>4, <1>5, <1>6, <1>7, SeqEqual
  <2>2. p < t => p + a = t
    BY <1>0, <1>a, <1>b, <1>c
  <2>3. ~(p < t) => p + a = p + 1
    BY <1>b
  <2>4. p < t => v = LineAt(s, i)
    BY <1>0, <1>a, <1>e, <2>2, Zenon DEF v
  <2>5. ~(p < t) => v = SubSeq(s, p + 1, i - 1)
    BY <1>0, <2>3, Zenon DEF v
  <2> HIDE DEF u, v
  <2> QED
    BY <1>d, <2>1, <2>4, <2>5, Zenon DEF t

LEMMA PartEnds ==
    ASSUME NEW X, NEW s \in Seq(X), NEW R, NEW p, NEW q, Part(R, s, p, q),
           NEW G, CutsNone(s, p, G), NEW i \in (p + 1)..q
    PROVE  /\ i - p \in EndsIn(R, G) <=> i \in EndsIn(s, G)
           /\ i \in EndsIn(s, G) => LineAt(R, i - p) = LineAt(s, i)
<1> DEFINE k == i - p
           t == LineStart(s, i)
           l == LineStart(R, k)
<1>0. /\ p \in Nat /\ q \in Nat /\ p <= q /\ q <= Len(s) /\ Len(s) \in Nat
      /\ i \in Nat \ {0} /\ k \in Nat \ {0} /\ p < i /\ i <= q
      /\ k \in 1..(q - p) /\ i \in 1..Len(s) /\ p + k = i
  BY DEF Part
<1>1. R \in Seq(X) /\ Len(R) = q - p /\ R[k] = s[i]
  <2>1. R \in Seq(X) /\ Len(R) = q - p /\ \A j \in 1..(q - p) : R[j] = s[p + j]
    BY PartType
  <2> HIDE DEF k
  <2> QED
    BY <1>0, <2>1
<1>2. k \in LineEnds(R) <=> i \in LineEnds(s)
  BY <1>0, <1>1 DEF LineEnds
<1>3. l = IF p < t THEN t - p ELSE 1
  BY PartLineStart
<1>4. t \in 1..i /\ l \in 1..k
  BY <1>0, LineStartExists DEF Starts
<1>5. (Empty(R, k) <=> l = k) /\ (Empty(s, i) <=> t = i)
  BY <1>0, EmptyLine
<1>6. LineAt(R, k) = IF p < t THEN LineAt(s, i) ELSE SubSeq(s, p + 1, i - 1)
  BY PartLineAt, Zenon
<1> HIDE DEF k, t, l
<1>8. CASE p < t
  <2>1. p + l = t /\ (l = k <=> t = i)
    BY <1>0, <1>3, <1>4, <1>8
  <2>2. LineAt(R, k) = LineAt(s, i) /\ (Empty(R, k) <=> Empty(s, i))
    BY <1>5, <1>6, <1>8, <2>1
  <2>3. k \in EndsIn(R, G) <=> i \in EndsIn(s, G)
    BY <1>2, <2>2, Zenon DEF EndsIn
  <2> QED
    BY <2>2, <2>3 DEF k
<1>9. CASE ~(p < t)
  <2>0. t <= p /\ l = 1
    BY <1>0, <1>3, <1>4, <1>9
  <2>1. i \in LineEnds(s) =>
           /\ LineAt(s, i) \notin G
           /\ p + 1 < i => SubSeq(s, p + 1, i - 1) \notin G
    BY <1>0, <2>0 DEF CutsNone, t
  <2>2. i \notin EndsIn(s, G)
    BY <2>1 DEF EndsIn
  <2>3. k = 1 \/ p + 1 < i
    BY <1>0 DEF k
  <2>4. k = 1 => Empty(R, k)
    BY DEF Empty
  <2>5. p + 1 < i /\ k \in LineEnds(R) => LineAt(R, k) \notin G
    BY <1>2, <1>6, <1>9, <2>1
  <2>6. k \notin EndsIn(R, G)
    BY <2>3, <2>4, <2>5 DEF EndsIn
  <2> QED
    BY <2>2, <2>6 DEF k
<1> QED
  BY <1>8, <1>9

(* Where the lines of G end that end behind p and not behind q. *)
EndsBetween(s, G, p, q) == {i \in EndsIn(s, G) : p < i /\ i <= q}

LEMMA EndsPositions ==
    ASSUME NEW X, NEW s \in Seq(X), NEW G
    PROVE  /\ EndsIn(s, G) \in SUBSET (1..Len(s))
           /\ \A p, q : EndsBetween(s, G, p, q) \in SUBSET (1..Len(s))
BY DEF EndsIn, LineEnds, EndsBetween

InOrder(p, q, r) == p \in Int /\ q \in Int /\ r \in Int /\ p <= q /\ q <= r

LEMMA EndsBetweenUnion ==
    ASSUME NEW X, NEW s \in Seq(X), NEW G, NEW p, NEW q, NEW r, InOrder(p, q, r)
    PROVE  LinesAt(s, EndsBetween(s, G, p, r))
             = LinesAt(s, EndsBetween(s, G, p, q)) \o LinesAt(s, EndsBetween(s, G, q, r))
<1> DEFINE A == EndsBetween(s, G, p, q)
           B == EndsBetween(s, G, q, r)
<1>1. /\ A \in SUBSET (1..Len(s)) /\ B \in SUBSET (1..Len(s)) /\ Len(s) \in Nat
      /\ EndsIn(s, G) \subseteq Int
  <2>1. /\ A \in SUBSET (1..Len(s)) /\ B \in SUBSET (1..Len(s))
        /\ EndsIn(s, G) \in SUBSET (1..Len(s))
    BY EndsPositions, Zenon
  <2> HIDE DEF A, B
  <2> QED
    BY <2>1
<1>2. \A i \in A, j \in B : i < j
  BY <1>1 DEF EndsBetween, InOrder
<1>3. EndsBetween(s, G, p, r) = A \cup B
  BY <1>1 DEF EndsBetween, InOrder
<1> HIDE DEF A, B
<1>4. LinesAt(s, A \cup B) = LinesAt(s, A) \o LinesAt(s, B)
  BY <1>1, <1>2, LinesAtUnion
<1> QED
  BY <1>3, <1>4 DEF A, B

(* The lines of G in a part of a stream are lines of the stream. *)
LEMMA PartLines ==
    ASSUME NEW X, NEW s \in Seq(X), NEW R, NEW p, NEW q, Part(R, s, p, q),
           NEW G, CutsNone(s, p, G), NEW c \in 0..(q - p)
    PROVE  LinesAt(R, {k \in EndsIn(R, G) : k <= c})
             = LinesAt(s, EndsBetween(s, G, p, p + c))
<1> DEFINE S == EndsBetween(s, G, p, p + c)
           T == {k \in EndsIn(R, G) : k <= c}
           f == [i \in S |-> i - p]
<1>0. /\ p \in Nat /\ q \in Nat /\ p <= q /\ q <= Len(s) /\ Len(s) \in Nat
      /\ R \in Seq(X) /\ Len(R) = q - p /\ c \in Int /\ 0 <= c /\ c <= q - p
  BY PartType DEF Part
<1>1. S \in SUBSET (1..Len(s)) /\ T \in SUBSET (1..Len(R)) /\ Len(R) \in Nat
  <2>1. S \in SUBSET (1..Len(s)) /\ EndsIn(R, G) \in SUBSET (1..Len(R))
    BY <1>0, EndsPositions, Zenon
  <2> HIDE DEF S
  <2> QED
    BY <1>0, <2>1
<1>2. Positions(S) /\ Positions(T)
  BY <1>0, <1>1, Zenon DEF Positions
<1>3. ASSUME NEW i \in S
      PROVE  i - p \in T /\ LineAt(R, i - p) = LineAt(s, i)
  <2>1. i \in EndsIn(s, G) /\ i \in (p + 1)..q /\ i - p <= c
    BY <1>0, <1>1 DEF EndsBetween
  <2> QED
    BY <2>1, PartEnds
<1>4. ASSUME NEW k \in T
      PROVE  k + p \in S /\ (k + p) - p = k
  <2>1. k \in EndsIn(R, G) /\ k \in Int /\ 1 <= k /\ k <= c
    BY <1>0, <1>1
  <2>2. k + p \in (p + 1)..q /\ (k + p) - p = k
    BY <1>0, <2>1
  <2>3. k + p \in EndsIn(s, G)
    BY <2>1, <2>2, PartEnds
  <2> QED
    BY <1>0, <2>1, <2>2, <2>3 DEF EndsBetween
<1>5. \A i \in S : i \in Int
  BY <1>1
<1> HIDE DEF S, T
<1>6. Increasing(f, S, T)
  <2>1. f \in [S -> T]
    BY <1>3
  <2>2. \A i, j \in S : i < j => f[i] < f[j]
    BY <1>0, <1>5
  <2>3. \A t \in T : \E i \in S : f[i] = t
    BY <1>4
  <2> HIDE DEF f
  <2> QED
    BY <2>1, <2>2, <2>3, Zenon DEF Increasing
<1>7. \A i \in S : f[i] = i - p
  OBVIOUS
<1> HIDE DEF f
<1>8. /\ Cardinality(T) = Cardinality(S)
      /\ \A k \in 1..Cardinality(S) : Nth(T, k) = f[Nth(S, k)]
  BY <1>2, <1>6, ImageNth, Zenon
<1>9. ASSUME NEW k \in 1..Cardinality(S)
      PROVE  LineAt(R, Nth(T, k)) = LineAt(s, Nth(S, k))
  <2>1. Nth(S, k) \in S
    BY <1>2, NthType, Zenon DEF Positions
  <2> QED
    BY <1>3, <1>7, <1>8, <2>1
<1>10. [k \in 1..Cardinality(T) |-> LineAt(R, Nth(T, k))]
         = [k \in 1..Cardinality(S) |-> LineAt(s, Nth(S, k))]
  BY <1>8, <1>9
<1> QED
  BY <1>10, Zenon DEF LinesAt, S, T

LEMMA PartAllLines ==
    ASSUME NEW X, NEW s \in Seq(X), NEW R, NEW p, NEW q, Part(R, s, p, q),
           NEW G, CutsNone(s, p, G)
    PROVE  LinesIn(R, G) = LinesAt(s, EndsBetween(s, G, p, q))
<1>0. /\ p \in Nat /\ q \in Nat /\ p <= q
      /\ R \in Seq(X) /\ Len(R) = q - p
  BY PartType DEF Part
<1>1. q - p \in 0..(q - p) /\ p + (q - p) = q
  BY <1>0
<1>2. \A k \in EndsIn(R, G) : k <= q - p
  BY <1>0, EndsPositions
<1>3. {k \in EndsIn(R, G) : k <= q - p} = EndsIn(R, G)
  BY <1>2
<1>4. LinesAt(R, {k \in EndsIn(R, G) : k <= q - p})
        = LinesAt(s, EndsBetween(s, G, p, p + (q - p)))
  BY <1>1, PartLines
<1> QED
  BY <1>1, <1>3, <1>4 DEF LinesIn

(* No line is cut at the start or behind a newline. *)
LEMMA CutsNoneAtStart ==
    ASSUME NEW X, NEW s \in Seq(X), NEW G
    PROVE  CutsNone(s, 0, G)
<1>1. ASSUME NEW i \in LineEnds(s)
      PROVE  ~(LineStart(s, i) <= 0)
  <2>1. i \in Nat \ {0}
    BY DEF LineEnds
  <2>2. LineStart(s, i) \in 1..i
    BY <2>1, LineStartExists DEF Starts
  <2> QED
    BY <2>2
<1> QED
  BY <1>1 DEF CutsNone

LEMMA CutsNoneBehindNewline ==
    ASSUME NEW X, NEW s \in Seq(X), NEW G, NEW p \in LineEnds(s)
    PROVE  CutsNone(s, p, G)
<1>1. p \in 1..Len(s) /\ s[p] = NL
  BY DEF LineEnds
<1>2. ASSUME NEW i \in LineEnds(s), p < i
      PROVE  ~(LineStart(s, i) <= p)
  <2>1. i \in Nat \ {0} /\ p \in 1..(i - 1)
    BY <1>1, <1>2 DEF LineEnds
  <2>2. LineStart(s, i) \in 1..i /\ p < LineStart(s, i)
    BY <1>1, <2>1, LineStartBehind, LineStartExists DEF Starts
  <2> QED
    BY <2>1, <2>2
<1> QED
  BY <1>2 DEF CutsNone

(* What makes a sequence a part of a stream. *)
LEMMA PartIs ==
    ASSUME NEW X, NEW s \in Seq(X), NEW R \in Seq(X), NEW p \in Nat, NEW q \in Nat,
           p <= q, q <= Len(s), Len(R) = q - p,
           \A k \in 1..(q - p) : R[k] = s[p + k]
    PROVE  Part(R, s, p, q)
<1> DEFINE v == SubSeq(s, p + 1, q)
<1>1. \A k \in (p + 1)..q : s[k] \in X
  OBVIOUS
<1>2. /\ v \in Seq(X)
      /\ Len(v) = IF p + 1 <= q THEN q - (p + 1) + 1 ELSE 0
      /\ \A k \in 1..(q - (p + 1) + 1) : v[k] = s[(p + 1) + k - 1]
  BY <1>1, SubSeqProperties
<1> HIDE DEF v
<1>3. Len(v) = q - p
  BY <1>2
<1>4. ASSUME NEW k \in 1..Len(R)
      PROVE  R[k] = v[k]
  <2>1. k \in 1..(q - p) /\ k \in 1..(q - (p + 1) + 1) /\ (p + 1) + k - 1 = p + k
    OBVIOUS
  <2> QED
    BY <1>2, <2>1
<1>5. R = v
  BY <1>2, <1>3, <1>4, SeqEqual
<1> QED
  BY <1>5 DEF Part, v

(* What is read behind a part lengthens it. *)
LEMMA PartConcat ==
    ASSUME NEW X, NEW s \in Seq(X), NEW R, NEW p, NEW q, Part(R, s, p, q),
           NEW r \in Nat, q <= r, r <= Len(s)
    PROVE  Part(R \o SubSeq(s, q + 1, r), s, p, r)
<1> DEFINE Q == SubSeq(s, q + 1, r)
           c == R \o Q
<1>0. p \in Nat /\ q \in Nat /\ p <= q /\ Len(s) \in Nat
  BY DEF Part
<1>1. /\ R \in Seq(X) /\ Len(R) = q - p
      /\ \A k \in 1..(q - p) : R[k] = s[p + k]
  BY PartType
<1>2. Part(Q, s, q, r)
  BY <1>0 DEF Part
<1> HIDE DEF Q
<1>3. /\ Q \in Seq(X) /\ Len(Q) = r - q
      /\ \A k \in 1..(r - q) : Q[k] = s[q + k]
  BY <1>2, PartType
<1>4. /\ c \in Seq(X) /\ Len(c) = Len(R) + Len(Q)
      /\ \A k \in 1..(Len(R) + Len(Q)) : c[k] = IF k <= Len(R) THEN R[k] ELSE Q[k - Len(R)]
  BY <1>1, <1>3, ConcatProperties
<1> HIDE DEF c
<1>5. p <= r /\ Len(c) = r - p
  BY <1>0, <1>1, <1>3, <1>4
<1>6. ASSUME NEW k \in 1..(r - p)
      PROVE  c[k] = s[p + k]
  <2>1. c[k] = IF k <= q - p THEN R[k] ELSE Q[k - (q - p)]
    BY <1>1, <1>4, <1>5
  <2>2. CASE k <= q - p
    <3>1. k \in 1..(q - p)
      BY <1>0, <2>2
    <3> QED
      BY <1>1, <2>1, <2>2, <3>1
  <2>3. CASE ~(k <= q - p)
    <3>1. k - (q - p) \in 1..(r - q) /\ q + (k - (q - p)) = p + k
      BY <1>0, <2>3
    <3> QED
      BY <1>3, <2>1, <2>3, <3>1
  <2> QED
    BY <2>2, <2>3
<1>7. Part(c, s, p, r)
  BY <1>0, <1>4, <1>5, <1>6, PartIs
<1> QED
  BY <1>7 DEF c, Q

(* And what is taken off its front shortens it. *)
LEMMA PartRest ==
    ASSUME NEW X, NEW s \in Seq(X), NEW R, NEW p, NEW q, Part(R, s, p, q),
           NEW c \in Nat, c <= q - p
    PROVE  Part(SubSeq(R, c + 1, Len(R)), s, p + c, q)
<1> DEFINE u == SubSeq(R, c + 1, Len(R))
           l == p + c
<1>0. p \in Nat /\ q \in Nat /\ p <= q /\ q <= Len(s) /\ Len(s) \in Nat
  BY DEF Part
<1>1. /\ R \in Seq(X) /\ Len(R) = q - p
      /\ \A k \in 1..(q - p) : R[k] = s[p + k]
  BY PartType
<1>2. c + 1 \in Int /\ Len(R) \in Int /\ \A k \in (c + 1)..Len(R) : R[k] \in X
  BY <1>1
<1>3. /\ u \in Seq(X)
      /\ Len(u) = IF c + 1 <= Len(R) THEN Len(R) - (c + 1) + 1 ELSE 0
      /\ \A k \in 1..(Len(R) - (c + 1) + 1) : u[k] = R[(c + 1) + k - 1]
  BY <1>2, SubSeqProperties
<1> HIDE DEF u
<1>4. l \in Nat /\ l <= q /\ Len(u) = q - l
  BY <1>0, <1>1, <1>3
<1>5. ASSUME NEW k \in 1..(q - l)
      PROVE  u[k] = s[l + k]
  <2>1. /\ k \in 1..(Len(R) - (c + 1) + 1) /\ (c + 1) + k - 1 = c + k
        /\ c + k \in 1..(q - p) /\ p + (c + k) = l + k
    BY <1>0, <1>1
  <2> QED
    BY <1>1, <1>3, <2>1
<1> HIDE DEF l
<1>6. Part(u, s, l, q)
  BY <1>0, <1>3, <1>4, <1>5, PartIs
<1> QED
  BY <1>6 DEF u, l

(* An end of a line in a part is one in the stream. *)
LEMMA PartLineEnds ==
    ASSUME NEW X, NEW s \in Seq(X), NEW R, NEW p, NEW q, Part(R, s, p, q),
           NEW k \in 1..(q - p)
    PROVE  k \in LineEnds(R) <=> p + k \in LineEnds(s)
<1>0. p \in Nat /\ q \in Nat /\ p <= q /\ q <= Len(s) /\ Len(s) \in Nat
  BY DEF Part
<1>1. /\ R \in Seq(X) /\ Len(R) = q - p
      /\ \A j \in 1..(q - p) : R[j] = s[p + j]
  BY PartType
<1>2. p + k \in 1..Len(s)
  BY <1>0
<1> QED
  BY <1>1, <1>2 DEF LineEnds

-----------------------------------------------------------------------------
(* Lists that grow. *)

LEMMA NothingSelected ==
    ASSUME NEW b
    PROVE  LinesAt(b, {}) = <<>>
<1>1. Cardinality({}) = 0
  BY FS_EmptySet
<1>2. 1..0 = {}
  OBVIOUS
<1> QED
  BY <1>1, <1>2 DEF LinesAt

LEMMA NoMembers ==
    ASSUME NEW G
    PROVE  MembersIn(<<>>, G) = <<>>
<1>1. {k \in DOMAIN <<>> : <<>>[k] \in G} = {}
  OBVIOUS
<1>2. Cardinality({}) = 0 /\ 1..0 = {}
  BY FS_EmptySet
<1> QED
  BY <1>1, <1>2 DEF MembersIn, EntriesAt

(* What of two lists, one behind the other, belongs to G. *)
LEMMA MembersConcat ==
    ASSUME NEW X, NEW a \in Seq(X), NEW b \in Seq(X), NEW G
    PROVE  MembersIn(a \o b, G) = MembersIn(a, G) \o MembersIn(b, G)
<1> DEFINE c == a \o b
           A == {k \in DOMAIN a : a[k] \in G}
           B == {k \in DOMAIN b : b[k] \in G}
           C == {k \in DOMAIN c : c[k] \in G}
<1>1. Selects(a, A) /\ Selects(b, B)
  BY DEF Selects
<1>2. C = A \cup Behind(a, B)
  <2>1. /\ DOMAIN a = 1..Len(a) /\ DOMAIN b = 1..Len(b)
        /\ Len(a) \in Nat /\ Len(b) \in Nat
    OBVIOUS
  <2>2. /\ DOMAIN c = 1..(Len(a) + Len(b))
        /\ \A k \in 1..(Len(a) + Len(b)) :
              c[k] = IF k <= Len(a) THEN a[k] ELSE b[k - Len(a)]
    BY <2>1, ConcatProperties
  <2> HIDE DEF c
  <2>3. ASSUME NEW k \in C
        PROVE  k \in A \cup {Len(a) + l : l \in B}
    <3>1. k \in 1..(Len(a) + Len(b)) /\ c[k] \in G
      BY <2>2
    <3>2. CASE k <= Len(a)
      BY <2>1, <2>2, <3>1, <3>2
    <3>3. CASE ~(k <= Len(a))
      <4>1. k - Len(a) \in 1..Len(b) /\ Len(a) + (k - Len(a)) = k
        BY <2>1, <3>1, <3>3
      <4>2. k - Len(a) \in B
        BY <2>1, <2>2, <3>1, <3>3, <4>1
      <4> QED
        BY <4>1, <4>2
    <3> QED
      BY <3>2, <3>3
  <2>4. ASSUME NEW k \in A
        PROVE  k \in C
    BY <2>1, <2>2
  <2>5. ASSUME NEW l \in B
        PROVE  Len(a) + l \in C
    <3>1. l \in 1..Len(b) /\ b[l] \in G
      BY <2>1
    <3>2. /\ Len(a) + l \in 1..(Len(a) + Len(b))
          /\ ~(Len(a) + l <= Len(a)) /\ (Len(a) + l) - Len(a) = l
      BY <2>1, <3>1
    <3> QED
      BY <2>2, <3>1, <3>2
  <2> HIDE DEF A, B, C
  <2> QED
    BY <2>3, <2>4, <2>5 DEF Behind
<1>3. EntriesAt(c, A \cup Behind(a, B)) = EntriesAt(a, A) \o EntriesAt(b, B)
  <2> HIDE DEF A, B
  <2> QED
    BY <1>1, EntriesConcat
<1> QED
  BY <1>2, <1>3 DEF MembersIn

LEMMA PrefixConcat ==
    ASSUME NEW X, NEW a \in Seq(X), NEW b \in Seq(X)
    PROVE  IsPrefix(a, a \o b)
<1>1. /\ Len(a) \in Nat /\ Len(b) \in Nat
      /\ a \o b \in Seq(X) /\ Len(a \o b) = Len(a) + Len(b)
  OBVIOUS
<1>2. SubSeq(a, 1, Len(a)) = a
  BY SubSeqFull
<1>3. SubSeq(a \o b, 1, Len(a)) = a
  <2>1. CASE Len(a) = 0
    BY <2>1
  <2>2. CASE Len(a) # 0
    <3>1. 1 \in 1..Len(a) /\ Len(a) \in 1..Len(a)
      BY <1>1, <2>2
    <3> QED
      BY <1>2, <3>1, SubSeqOfConcat1
  <2> QED
    BY <2>1, <2>2
<1> QED
  BY <1>1, <1>2, <1>3 DEF IsPrefix

-----------------------------------------------------------------------------
(* Lines of a stream. *)

LEMMA LineAtType ==
    ASSUME NEW X, NEW s \in Seq(X), NEW i \in 1..Len(s)
    PROVE  /\ LineStart(s, i) \in 1..i
           /\ LineAt(s, i) \in Seq(X)
           /\ Len(LineAt(s, i)) = i - LineStart(s, i)
<1> DEFINE t == LineStart(s, i)
<1>1. i \in Nat \ {0} /\ i <= Len(s) /\ Len(s) \in Nat
  OBVIOUS
<1>2. t \in 1..i
  BY <1>1, LineStartExists DEF Starts
<1> HIDE DEF t
<1>3. t \in Int /\ i - 1 \in Int /\ \A k \in t..(i - 1) : s[k] \in X
  BY <1>1, <1>2
<1>4. /\ SubSeq(s, t, i - 1) \in Seq(X)
      /\ Len(SubSeq(s, t, i - 1)) = IF t <= i - 1 THEN (i - 1) - t + 1 ELSE 0
  BY <1>3, SubSeqProperties
<1>5. (IF t <= i - 1 THEN (i - 1) - t + 1 ELSE 0) = i - t
  BY <1>1, <1>2
<1> QED
  BY <1>2, <1>4, <1>5 DEF LineAt, t

(* The lines of G between two places. *)
LinesBetween(s, G, p, q) == LinesAt(s, EndsBetween(s, G, p, q))

LEMMA LinesBetweenType ==
    ASSUME NEW X, NEW s \in Seq(X), NEW G
    PROVE  \A p, q : LinesBetween(s, G, p, q) \in Seq(Seq(X))
<1> SUFFICES ASSUME NEW p, NEW q PROVE LinesBetween(s, G, p, q) \in Seq(Seq(X))
  OBVIOUS
<1> DEFINE E == EndsBetween(s, G, p, q)
<1>1. E \in SUBSET (1..Len(s))
  BY EndsPositions, Zenon
<1> HIDE DEF E
<1>2. Len(s) \in Nat
  OBVIOUS
<1>3. Positions(E)
  BY <1>1, <1>2, Zenon DEF Positions
<1>4. \A i \in E : LineAt(s, i) \in Seq(X)
  BY <1>1, LineAtType
<1> QED
  BY <1>3, <1>4, LinesSeq DEF LinesBetween, E

LEMMA LinesBetweenConcat ==
    ASSUME NEW X, NEW s \in Seq(X), NEW G
    PROVE  \A p, q, r : InOrder(p, q, r) =>
               LinesBetween(s, G, p, r)
                 = LinesBetween(s, G, p, q) \o LinesBetween(s, G, q, r)
BY EndsBetweenUnion, Zenon DEF LinesBetween

(* Nothing ends between a place and itself. *)
LEMMA NoLinesBetween ==
    ASSUME NEW X, NEW s \in Seq(X), NEW G, NEW p \in Int
    PROVE  EndsBetween(s, G, p, p) = {} /\ LinesBetween(s, G, p, p) = <<>>
<1>1. EndsIn(s, G) \subseteq Int
  <2>1. EndsIn(s, G) \in SUBSET (1..Len(s))
    BY EndsPositions, Zenon
  <2> QED
    BY <2>1
<1>2. \A i \in Int : ~(p < i /\ i <= p)
  OBVIOUS
<1>3. EndsBetween(s, G, p, p) = {}
  BY <1>1, <1>2, Zenon DEF EndsBetween
<1> QED
  BY <1>3, NothingSelected DEF LinesBetween

(* A stretch without lines of G may be left out. *)
LEMMA LinesOverGap ==
    ASSUME NEW X, NEW s \in Seq(X), NEW G, NEW p, NEW q, NEW r, InOrder(p, q, r),
           EndsBetween(s, G, p, q) = {}
    PROVE  LinesBetween(s, G, p, r) = LinesBetween(s, G, q, r)
<1>1. EndsIn(s, G) \subseteq Int
  <2>1. EndsIn(s, G) \in SUBSET (1..Len(s))
    BY EndsPositions, Zenon
  <2> QED
    BY <2>1
<1>2. \A i \in EndsIn(s, G) : ~(p < i /\ i <= q)
  BY DEF EndsBetween
<1>3. \A i \in EndsIn(s, G) : p < i <=> q < i
  BY <1>1, <1>2 DEF InOrder
<1> QED
  BY <1>3, Zenon DEF LinesBetween, EndsBetween

LEMMA EmptyPart ==
    ASSUME NEW X, NEW s \in Seq(X), NEW p \in Nat, p <= Len(s)
    PROVE  Part(<<>>, s, p, p)
<1>1. /\ <<>> \in Seq(X) /\ Len(<<>>) = p - p /\ 1..(p - p) = {} /\ p <= p
  OBVIOUS
<1> QED
  BY <1>1, PartIs

(* A part without newlines: no line ends in it, and a line it belongs to    *)
(* and that goes on behind it is as long.                                  *)
LEMMA PartWithoutLines ==
    ASSUME NEW X, NEW s \in Seq(X), NEW R, NEW p, NEW q, Part(R, s, p, q),
           LineEnds(R) = {}, NEW G
    PROVE  /\ EndsBetween(s, G, p, q) = {}
           /\ \A i \in LineEnds(s) : LineStart(s, i) <= q /\ q < i =>
                  Len(LineAt(s, i)) \in Nat /\ Len(LineAt(s, i)) >= q - p
<1>0. p \in Nat /\ q \in Nat /\ p <= q /\ q <= Len(s) /\ Len(s) \in Nat
  BY DEF Part
<1>1. ASSUME NEW i \in (p + 1)..q
      PROVE  i \notin LineEnds(s)
  <2> DEFINE j == i - p
  <2>1. j \in 1..(q - p) /\ p + j = i
    BY <1>0
  <2> HIDE DEF j
  <2>2. j \in LineEnds(R) <=> p + j \in LineEnds(s)
    BY <1>0, <2>1, PartLineEnds
  <2> QED
    BY <2>1, <2>2
<1>2. EndsBetween(s, G, p, q) = {}
  <2>1. ASSUME NEW i \in EndsBetween(s, G, p, q)
        PROVE  FALSE
    <3>1. i \in LineEnds(s) /\ p < i /\ i <= q
      BY <2>1 DEF EndsBetween, EndsIn
    <3>2. i \in Int
      BY <1>0, <3>1 DEF LineEnds
    <3> QED
      BY <1>0, <1>1, <3>1, <3>2
  <2> QED
    BY <2>1
<1>3. ASSUME NEW i \in LineEnds(s), LineStart(s, i) <= q, q < i
      PROVE  Len(LineAt(s, i)) \in Nat /\ Len(LineAt(s, i)) >= q - p
  <2> DEFINE t == LineStart(s, i)
  <2>1. i \in Nat \ {0} /\ i <= Len(s) /\ i \in 1..Len(s)
    BY <1>0 DEF LineEnds
  <2>2. t \in 1..i /\ (t = 1 \/ s[t - 1] = NL)
    BY <2>1, LineStartExists DEF Starts
  <2>3. t <= p + 1
    <3> SUFFICES ASSUME p + 1 < t PROVE FALSE
      BY <1>0, <2>2
    <3>1. t - 1 \in (p + 1)..q /\ t - 1 \in 1..Len(s) /\ t # 1
      BY <1>0, <1>3, <2>1, <2>2
    <3>2. t - 1 \in LineEnds(s)
      BY <2>2, <3>1 DEF LineEnds
    <3> QED
      BY <1>1, <3>1, <3>2
  <2>4. Len(LineAt(s, i)) = i - t
    BY <2>1, LineAtType
  <2>5. i - t \in Nat /\ i - t >= q - p
    <3> HIDE DEF t
    <3> QED
      BY <1>0, <1>3, <2>1, <2>2, <2>3
  <2> QED
    BY <2>4, <2>5
<1> QED
  BY <1>2, <1>3

-----------------------------------------------------------------------------
(* Functions that are defined from their value at n - 1. *)

(* f[n] is what the first n steps of g make of d. *)
Iterates(f, g, d, N, D) ==
    /\ f \in [0..N -> D] /\ f[0] = d
    /\ \A n \in 1..N : f[n] = g[<<f[n - 1], n>>]

(* A function that is defined from its value at n - 1 exists. *)
LEMMA Iterate ==
    ASSUME NEW D, NEW d \in D, NEW N \in Nat, NEW g \in [D \X (1..N) -> D]
    PROVE  \E f : Iterates(f, g, d, N, D)
<1> DEFINE Up(m, f) == Iterates(f, g, d, m, D)
           T == {m \in 0..N : ~\E f : Up(m, f)}
<1> USE DEF Iterates
<1>1. \E f : Up(N, f)
  <2> SUFFICES ASSUME ~\E f : Up(N, f) PROVE FALSE
    OBVIOUS
  <2>1. T \subseteq Nat /\ T # {}
    <3> HIDE DEF Up
    <3>1. N \in T
      OBVIOUS
    <3> QED
      BY <3>1
  <2>2. PICK m \in T : \A k \in T : m <= k
    <3> HIDE DEF T
    <3> QED
      BY <2>1, LeastNat
  <2>3. m # 0
    <3>1. Up(0, [n \in 0..0 |-> d])
      OBVIOUS
    <3> QED
      BY <2>2, <3>1
  <2>4. m - 1 \in 0..N /\ m \in 1..N /\ m - 1 \notin T
    <3>1. m \in 0..N
      OBVIOUS
    <3>2. m - 1 \in T => m <= m - 1
      BY <2>2
    <3> HIDE DEF T
    <3> QED
      BY <2>3, <3>1, <3>2
  <2>5. PICK f : Up(m - 1, f)
    BY <2>4
  <2> DEFINE h == [n \in 0..m |-> IF n = m THEN g[<<f[m - 1], m>>] ELSE f[n]]
  <2>6. f[m - 1] \in D /\ <<f[m - 1], m>> \in D \X (1..N)
    BY <2>4, <2>5
  <2>7. h \in [0..m -> D]
    BY <2>4, <2>5, <2>6
  <2>8. h[0] = d
    BY <2>4, <2>5
  <2>9. ASSUME NEW n \in 1..m
        PROVE  h[n] = g[<<h[n - 1], n>>]
    <3>1. n - 1 \in 0..m /\ n - 1 # m /\ h[n - 1] = f[n - 1]
      BY <2>4
    <3>2. n \in 0..m /\ (n # m => n \in 1..(m - 1))
      BY <2>4
    <3>3. CASE n = m
      BY <3>1, <3>2, <3>3
    <3>4. CASE n # m
      <4>1. h[n] = f[n] /\ f[n] = g[<<f[n - 1], n>>]
        BY <2>5, <3>2, <3>4
      <4> QED
        BY <3>1, <4>1
    <3> QED
      BY <3>3, <3>4
  <2>10. Up(m, h)
    BY <2>7, <2>8, <2>9
  <2> QED
    BY <2>2, <2>10
<1> QED
  BY <1>1
=============================================================================
