---------------------------- MODULE SessionProofs -----------------------------
(***************************************************************************)
(* Theorems about module Session and the modules it is made of, for every   *)
(* set of states of the daemon and every number of changes, deaths and      *)
(* commands of the user.                                                   *)
(***************************************************************************)
EXTENDS Session, ListProofs

(* The windows of a class, as positions in the list. *)
OfKey(cs, key) == {i \in DOMAIN cs : Fold[cs[i].class] = key}

(* Where the j-th window of a class comes from. *)
Source(cs, key, j) == Nth(OfKey(cs, key), j)

LEMMA InstancesAre ==
    ASSUME NEW cs \in Seq(Window), NEW key
    PROVE  LET inst == Instances(cs, key)
           IN  /\ \A j \in DOMAIN inst :
                     /\ Source(cs, key, j) \in DOMAIN cs
                     /\ Fold[cs[Source(cs, key, j)].class] = key
                     /\ inst[j] = cs[Source(cs, key, j)]
               /\ \A j, k \in DOMAIN inst :
                     Source(cs, key, j) = Source(cs, key, k) => j = k
               /\ \A i \in DOMAIN cs : Fold[cs[i].class] = key =>
                     \E j \in DOMAIN inst : Source(cs, key, j) = i
<1> DEFINE K == OfKey(cs, key)
           inst == EntriesAt(cs, K)
<1>1. K \in SUBSET (DOMAIN cs) /\ DOMAIN cs = 1..Len(cs) /\ Len(cs) \in Nat
  BY DEF OfKey
<1>2. \A i \in K : cs[i] \in Window
  BY <1>1
<1> HIDE DEF K
<1>3. /\ DOMAIN inst = 1..Cardinality(K)
      /\ \A j \in 1..Cardinality(K) : inst[j] = cs[Nth(K, j)] /\ Nth(K, j) \in K
  BY <1>1, <1>2, EntriesType
<1>4. \A i \in K : \E j \in 1..Cardinality(K) : Nth(K, j) = i
  <2>1. K \in SUBSET (1..Len(cs))
    BY <1>1
  <2> QED
    BY <1>1, <2>1, RankOfMember, Zenon
<1>5. \A j, k \in 1..Cardinality(K) : Nth(K, j) = Nth(K, k) => j = k
  <2>1. K \in SUBSET (1..Len(cs))
    BY <1>1
  <2> QED
    BY <1>1, <2>1, NthInjective, Zenon
<1>6. Instances(cs, key) = inst
  BY DEF Instances, K, OfKey
<1>7. \A i \in K : i \in DOMAIN cs /\ Fold[cs[i].class] = key
  BY DEF K, OfKey
<1>8. \A i \in DOMAIN cs : Fold[cs[i].class] = key => i \in K
  BY DEF K, OfKey
<1> HIDE DEF inst
<1>9. \A j : Source(cs, key, j) = Nth(K, j)
  BY DEF Source, K
<1>10. \A j \in DOMAIN inst :
          /\ Source(cs, key, j) \in DOMAIN cs
          /\ Fold[cs[Source(cs, key, j)].class] = key
          /\ inst[j] = cs[Source(cs, key, j)]
  BY <1>3, <1>7, <1>9
<1>11. \A j, k \in DOMAIN inst : Source(cs, key, j) = Source(cs, key, k) => j = k
  BY <1>3, <1>5, <1>9
<1>12. \A i \in DOMAIN cs : Fold[cs[i].class] = key =>
            \E j \in DOMAIN inst : Source(cs, key, j) = i
  BY <1>3, <1>4, <1>8, <1>9
<1> QED
  BY <1>6, <1>10, <1>11, <1>12, Zenon

(* A function on 1..n is a sequence. *)
LEMMA FunctionIsSeq ==
    ASSUME NEW n \in Nat, NEW X, NEW f \in [1..n -> X]
    PROVE  f \in Seq(X) /\ Len(f) = n /\ DOMAIN f = 1..n
OBVIOUS

(* What _recompute returns: the pinned items, and an item for each window   *)
(* that is the first of its class.                                         *)
LEMMA ItemsAre ==
    ASSUME NEW cs \in Seq(Window), NEW ps \in Seq(Class)
    PROVE  LET items == recompute(cs, ps)
               S == FirstsUnpinned(cs, ps)
           IN  /\ DOMAIN items = 1..(Len(ps) + Cardinality(S))
               /\ Cardinality(S) \in Nat
               /\ \A p \in 1..Len(ps) :
                     items[p] = Item(ps[p], TRUE, Instances(cs, Fold[ps[p]]))
               /\ \A k \in 1..Cardinality(S) :
                     LET c == cs[Nth(S, k)].class
                     IN  /\ Nth(S, k) \in S
                         /\ items[Len(ps) + k]
                              = Item(c, FALSE, Instances(cs, Fold[c]))
               /\ \A k, l \in 1..Cardinality(S) : Nth(S, k) = Nth(S, l) => k = l
               /\ \A i \in S : \E k \in 1..Cardinality(S) : Nth(S, k) = i
<1> DEFINE S == FirstsUnpinned(cs, ps)
           m == Cardinality(S)
           n == Len(ps)
           firsts == EntriesAt(cs, S)
           pin(p) == Item(ps[p], TRUE, Instances(cs, Fold[ps[p]]))
           run(k) == Item(firsts[k].class, FALSE,
                          Instances(cs, Fold[firsts[k].class]))
           P == [p \in 1..n |-> pin(p)]
           R == [k \in 1..m |-> run(k)]
           X == {pin(p) : p \in 1..n} \cup {run(k) : k \in 1..m}
<1>1. S \in SUBSET (DOMAIN cs) /\ DOMAIN cs = 1..Len(cs) /\ Len(cs) \in Nat
  BY DEF FirstsUnpinned
<1>2. \A i \in S : cs[i] \in Window
  BY <1>1
<1>3. n \in Nat /\ DOMAIN ps = 1..n
  OBVIOUS
<1> HIDE DEF S
<1>4. /\ DOMAIN firsts = 1..m /\ m \in Nat
      /\ \A k \in 1..m : firsts[k] = cs[Nth(S, k)] /\ Nth(S, k) \in S
  BY <1>1, <1>2, EntriesType
<1>5. \A i \in S : \E k \in 1..m : Nth(S, k) = i
  <2>1. S \in SUBSET (1..Len(cs))
    BY <1>1
  <2> QED
    BY <1>1, <2>1, RankOfMember, Zenon
<1>6. \A k, l \in 1..m : Nth(S, k) = Nth(S, l) => k = l
  <2>1. S \in SUBSET (1..Len(cs))
    BY <1>1
  <2> QED
    BY <1>1, <2>1, NthInjective, Zenon
<1>7. recompute(cs, ps) = P \o R
  BY <1>3, <1>4, Zenon DEF recompute, PinnedItems, RunningItems, S
<1> HIDE DEF firsts, m, n
<1>8. P \in Seq(X) /\ Len(P) = n /\ R \in Seq(X) /\ Len(R) = m
  <2>1. P \in [1..n -> X] /\ R \in [1..m -> X]
    <3> HIDE DEF pin, run
    <3> QED
      OBVIOUS
  <2> HIDE DEF P, R, X
  <2> QED
    BY <1>3, <1>4, <2>1, FunctionIsSeq
<1>9. \A p \in 1..n : P[p] = pin(p)
  OBVIOUS
<1>10. \A k \in 1..m : R[k] = run(k)
  OBVIOUS
<1> HIDE DEF P, R, X
<1>11. /\ P \o R \in Seq(X) /\ Len(P \o R) = n + m
       /\ \A i \in 1..(n + m) : (P \o R)[i] = IF i <= n THEN P[i] ELSE R[i - n]
  BY <1>8, ConcatProperties
<1>12. DOMAIN (P \o R) = 1..(n + m)
  BY <1>11
<1>13. \A p \in 1..n : (P \o R)[p] = P[p]
  <2>1. \A p \in 1..n : p \in 1..(n + m) /\ p <= n
    BY <1>3, <1>4
  <2> QED
    BY <1>11, <2>1
<1>14. \A k \in 1..m : (P \o R)[n + k] = R[k]
  <2>1. \A k \in 1..m : n + k \in 1..(n + m) /\ ~(n + k <= n) /\ (n + k) - n = k
    BY <1>3, <1>4
  <2> QED
    BY <1>11, <2>1
<1>15. \A k \in 1..m : (P \o R)[n + k]
             = Item(cs[Nth(S, k)].class, FALSE, Instances(cs, Fold[cs[Nth(S, k)].class]))
  BY <1>4, <1>10, <1>14, Zenon
<1>16. \A p \in 1..n : (P \o R)[p] = Item(ps[p], TRUE, Instances(cs, Fold[ps[p]]))
  BY <1>9, <1>13, Zenon
<1> QED
  BY <1>4, <1>5, <1>6, <1>7, <1>12, <1>15, <1>16, Zenon DEF S, m, n

(* The class of an item, lower-cased. *)
KeyOf(item) == Fold[item.className]

(* Each item holds the windows of its class. *)
LEMMA ItemsHold ==
    ASSUME NEW cs \in Seq(Window), NEW ps \in Seq(Class)
    PROVE  LET items == recompute(cs, ps)
           IN  \A i \in DOMAIN items :
                  /\ items[i].instances = Instances(cs, KeyOf(items[i]))
                  /\ i \in DOMAIN ps <=> items[i].isPinned
                  /\ i \in DOMAIN ps => items[i].className = ps[i]
                  /\ items[i].isActive = \E j \in DOMAIN items[i].instances :
                                            items[i].instances[j].active
<1> DEFINE items == recompute(cs, ps)
           S == FirstsUnpinned(cs, ps)
           m == Cardinality(S)
           n == Len(ps)
<1>1. /\ DOMAIN items = 1..(n + m) /\ m \in Nat
      /\ \A p \in 1..n : items[p] = Item(ps[p], TRUE, Instances(cs, Fold[ps[p]]))
      /\ \A k \in 1..m : items[n + k] =
            Item(cs[Nth(S, k)].class, FALSE, Instances(cs, Fold[cs[Nth(S, k)].class]))
  BY ItemsAre
<1>2. n \in Nat /\ DOMAIN ps = 1..n
  OBVIOUS
<1> HIDE DEF items, S, m, n
<1> SUFFICES ASSUME NEW i \in DOMAIN items
             PROVE  /\ items[i].instances = Instances(cs, KeyOf(items[i]))
                    /\ i \in DOMAIN ps <=> items[i].isPinned
                    /\ i \in DOMAIN ps => items[i].className = ps[i]
                    /\ items[i].isActive = \E j \in DOMAIN items[i].instances :
                                              items[i].instances[j].active
  BY DEF items
<1>3. CASE i \in 1..n
  <2>1. items[i] = Item(ps[i], TRUE, Instances(cs, Fold[ps[i]]))
    BY <1>1, <1>3
  <2> QED
    BY <1>2, <1>3, <2>1 DEF Item, KeyOf
<1>4. CASE i \notin 1..n
  <2>1. i - n \in 1..m /\ i = n + (i - n)
    BY <1>1, <1>2, <1>4
  <2>2. PICK k \in 1..m : i = n + k
    BY <2>1
  <2> DEFINE c == cs[Nth(S, k)].class
  <2>3. items[i] = Item(c, FALSE, Instances(cs, Fold[c]))
    BY <1>1, <2>2
  <2> HIDE DEF c
  <2> QED
    BY <1>2, <1>4, <2>3 DEF Item, KeyOf
<1> QED
  BY <1>3, <1>4

(* No class has two items. *)
LEMMA KeysDiffer ==
    ASSUME NEW cs \in Seq(Window), NEW ps \in Seq(Class),
           \A i, j \in DOMAIN ps : Fold[ps[i]] = Fold[ps[j]] => i = j
    PROVE  LET items == recompute(cs, ps)
           IN  \A i, j \in DOMAIN items : KeyOf(items[i]) = KeyOf(items[j]) => i = j
<1> DEFINE items == recompute(cs, ps)
           S == FirstsUnpinned(cs, ps)
           m == Cardinality(S)
           n == Len(ps)
           first(i) == Nth(S, i - n)
<1>1. /\ DOMAIN items = 1..(n + m) /\ m \in Nat
      /\ \A p \in 1..n : items[p] = Item(ps[p], TRUE, Instances(cs, Fold[ps[p]]))
      /\ \A k \in 1..m :
            /\ Nth(S, k) \in S
            /\ items[n + k] =
                 Item(cs[Nth(S, k)].class, FALSE, Instances(cs, Fold[cs[Nth(S, k)].class]))
      /\ \A k, l \in 1..m : Nth(S, k) = Nth(S, l) => k = l
  BY ItemsAre
<1>2. n \in Nat /\ DOMAIN ps = 1..n
  OBVIOUS
<1>3. \A f \in S : /\ f \in Int
                   /\ \A p \in DOMAIN ps : Fold[ps[p]] # Fold[cs[f].class]
                   /\ \A j \in 1..(f - 1) : Fold[cs[j].class] # Fold[cs[f].class]
  BY DEF FirstsUnpinned
<1>4. \A f, g \in S : Fold[cs[f].class] = Fold[cs[g].class] => f = g
  <2> SUFFICES ASSUME NEW f \in S, NEW g \in S, Fold[cs[f].class] = Fold[cs[g].class],
                      f < g
               PROVE  FALSE
    BY <1>3
  <2>1. f \in 1..(g - 1)
    <3>1. f >= 1
      BY DEF FirstsUnpinned
    <3> QED
      BY <1>3, <3>1
  <2> QED
    BY <1>3, <2>1
<1> HIDE DEF items, S, m, n
<1>5. ASSUME NEW p \in 1..n
      PROVE  KeyOf(items[p]) = Fold[ps[p]]
  <2>1. items[p] = Item(ps[p], TRUE, Instances(cs, Fold[ps[p]]))
    BY <1>1
  <2> QED
    BY <2>1 DEF Item, KeyOf
<1>6. \A i \in DOMAIN items : i \notin 1..n =>
          /\ i - n \in 1..m
          /\ first(i) \in S
          /\ KeyOf(items[i]) = Fold[cs[first(i)].class]
  <2> SUFFICES ASSUME NEW i \in DOMAIN items, i \notin 1..n
               PROVE  /\ i - n \in 1..m
                      /\ first(i) \in S
                      /\ KeyOf(items[i]) = Fold[cs[first(i)].class]
    OBVIOUS
  <2>1. i - n \in 1..m /\ i = n + (i - n)
    BY <1>1, <1>2
  <2>2. PICK k \in 1..m : i = n + k /\ i - n = k
    BY <2>1
  <2> DEFINE c == cs[Nth(S, k)].class
  <2>3. items[i] = Item(c, FALSE, Instances(cs, Fold[c])) /\ Nth(S, k) \in S
    BY <1>1, <2>2
  <2> HIDE DEF c
  <2>4. KeyOf(items[i]) = Fold[c]
    BY <2>3 DEF Item, KeyOf
  <2> QED
    BY <2>1, <2>2, <2>3, <2>4 DEF c
<1> HIDE DEF first
<1>7. SUFFICES ASSUME NEW i \in DOMAIN items, NEW j \in DOMAIN items,
                      KeyOf(items[i]) = KeyOf(items[j])
               PROVE  i = j
  BY DEF items
<1>8. CASE i \in 1..n /\ j \in 1..n
  BY <1>2, <1>5, <1>7, <1>8
<1>9. CASE i \in 1..n /\ j \notin 1..n
  BY <1>2, <1>3, <1>5, <1>6, <1>7, <1>9
<1>10. CASE i \notin 1..n /\ j \in 1..n
  BY <1>2, <1>3, <1>5, <1>6, <1>7, <1>10
<1>11. CASE i \notin 1..n /\ j \notin 1..n
  <2>1. first(i) = first(j)
    BY <1>4, <1>6, <1>7, <1>11
  <2>2. i - n = j - n
    BY <1>1, <1>6, <1>11, <2>1 DEF first
  <2> QED
    BY <1>1, <1>2, <2>2
<1> QED
  BY <1>8, <1>9, <1>10, <1>11

(* Every window's class has an item. *)
LEMMA KeysCover ==
    ASSUME NEW cs \in Seq(Window), NEW ps \in Seq(Class), NEW c \in DOMAIN cs
    PROVE  \E i \in DOMAIN recompute(cs, ps) :
               KeyOf(recompute(cs, ps)[i]) = Fold[cs[c].class]
<1> DEFINE items == recompute(cs, ps)
           S == FirstsUnpinned(cs, ps)
           m == Cardinality(S)
           n == Len(ps)
           key == Fold[cs[c].class]
<1>1. /\ DOMAIN items = 1..(n + m) /\ m \in Nat
      /\ \A p \in 1..n : items[p] = Item(ps[p], TRUE, Instances(cs, Fold[ps[p]]))
      /\ \A k \in 1..m :
            items[n + k] =
                 Item(cs[Nth(S, k)].class, FALSE, Instances(cs, Fold[cs[Nth(S, k)].class]))
      /\ \A f \in S : \E k \in 1..m : Nth(S, k) = f
  BY ItemsAre
<1>2. n \in Nat /\ DOMAIN ps = 1..n /\ DOMAIN cs \subseteq Nat
  OBVIOUS
<1> HIDE DEF items, m, n
<1>3. CASE \E p \in DOMAIN ps : Fold[ps[p]] = key
  <2>1. PICK p \in DOMAIN ps : Fold[ps[p]] = key
    BY <1>3
  <2>2. p \in DOMAIN items /\ p \in 1..n
    BY <1>1, <1>2
  <2>3. items[p] = Item(ps[p], TRUE, Instances(cs, Fold[ps[p]]))
    BY <1>1, <2>2
  <2> HIDE DEF key
  <2>4. KeyOf(items[p]) = key
    BY <2>1, <2>3 DEF Item, KeyOf
  <2> QED
    BY <2>2, <2>4 DEF items, key
<1>4. CASE \A p \in DOMAIN ps : Fold[ps[p]] # key
  <2> DEFINE T == {f \in DOMAIN cs : Fold[cs[f].class] = key}
  <2>1. PICK f \in T : \A g \in T : f <= g
    <3>1. T \subseteq Nat /\ T # {}
      BY <1>2
    <3> HIDE DEF T
    <3> QED
      BY <3>1, LeastNat
  <2>2. f \in S
    <3>1. \A j \in 1..(f - 1) : Fold[cs[j].class] # key
      <4> SUFFICES ASSUME NEW j \in 1..(f - 1), Fold[cs[j].class] = key
                   PROVE  FALSE
        OBVIOUS
      <4>1. j \in DOMAIN cs /\ f \in Nat /\ j < f
        BY <1>2
      <4> QED
        BY <2>1, <4>1
    <3> QED
      BY <1>4, <3>1 DEF FirstsUnpinned
  <2> HIDE DEF S
  <2>3. PICK k \in 1..m : Nth(S, k) = f
    BY <1>1, <2>2
  <2>4. n + k \in DOMAIN items
    BY <1>1, <1>2
  <2>5. items[n + k] = Item(cs[f].class, FALSE, Instances(cs, Fold[cs[f].class]))
    BY <1>1, <2>3
  <2>6. Fold[cs[f].class] = key
    OBVIOUS
  <2> HIDE DEF key
  <2>7. KeyOf(items[n + k]) = key
    BY <2>5, <2>6 DEF Item, KeyOf
  <2> QED
    BY <2>4, <2>7 DEF items, key
<1> QED
  BY <1>3, <1>4

-----------------------------------------------------------------------------
(* What the dock shows of an unambiguous state. *)

(* A window stands in the dock once. *)
LEMMA OnePlace ==
    ASSUME NEW cs \in Seq(Window), NEW ps \in Seq(Class),
           \A i, j \in DOMAIN cs : cs[i].addr = cs[j].addr => i = j,
           \A i, j \in DOMAIN ps : Fold[ps[i]] = Fold[ps[j]] => i = j,
           NEW c \in DOMAIN cs
    PROVE  Cardinality(Places(recompute(cs, ps), cs[c].addr)) = 1
<1> DEFINE items == recompute(cs, ps)
           a == cs[c].addr
           key == Fold[cs[c].class]
<1>1. \A i \in DOMAIN items : items[i].instances = Instances(cs, KeyOf(items[i]))
  <2>1. \A i \in DOMAIN items :
            /\ items[i].instances = Instances(cs, KeyOf(items[i]))
            /\ i \in DOMAIN ps <=> items[i].isPinned
            /\ i \in DOMAIN ps => items[i].className = ps[i]
            /\ items[i].isActive = \E j \in DOMAIN items[i].instances :
                                      items[i].instances[j].active
    BY ItemsHold
  <2> HIDE DEF items
  <2> QED
    BY <2>1
<1>2. \A i, j \in DOMAIN items : KeyOf(items[i]) = KeyOf(items[j]) => i = j
  BY KeysDiffer
<1>3. PICK i \in DOMAIN items : KeyOf(items[i]) = key
  BY KeysCover
<1> HIDE DEF items
<1> DEFINE inst == Instances(cs, key)
<1>4. /\ \A j \in DOMAIN inst :
            /\ Source(cs, key, j) \in DOMAIN cs
            /\ inst[j] = cs[Source(cs, key, j)]
      /\ \A j, k \in DOMAIN inst : Source(cs, key, j) = Source(cs, key, k) => j = k
      /\ \E j \in DOMAIN inst : Source(cs, key, j) = c
  BY InstancesAre
<1>5. PICK j \in DOMAIN inst : Source(cs, key, j) = c
  BY <1>4
<1>6. items[i].instances = inst
  BY <1>1, <1>3
<1> HIDE DEF inst
<1>7. items[i].instances[j].addr = a
  BY <1>4, <1>5, <1>6
<1>8. ASSUME NEW k \in DOMAIN items, NEW l \in DOMAIN items[k].instances,
             items[k].instances[l].addr = a
      PROVE  k = i /\ l = j
  <2> DEFINE other == KeyOf(items[k])
             n == Source(cs, other, l)
  <2>1. items[k].instances = Instances(cs, other)
    BY <1>1
  <2>2. n \in DOMAIN cs /\ Fold[cs[n].class] = other /\ Instances(cs, other)[l] = cs[n]
    BY <1>8, <2>1, InstancesAre
  <2>3. n = c
    BY <1>8, <2>1, <2>2
  <2>4. other = key
    BY <2>2, <2>3
  <2>5. k = i
    BY <1>2, <1>3, <2>4
  <2>6. l \in DOMAIN inst /\ Source(cs, key, l) = c
    BY <1>6, <2>3, <2>4, <2>5
  <2> QED
    BY <1>4, <1>5, <2>5, <2>6
<1>9. Places(items, a) = {<<i, j>>}
  <2>1. <<i, j>> \in Places(items, a)
    BY <1>6, <1>7 DEF Places
  <2>2. ASSUME NEW p \in Places(items, a)
        PROVE  p = <<i, j>>
    <3>1. PICK k \in DOMAIN items : \E l \in DOMAIN items[k].instances : p = <<k, l>>
      BY DEF Places
    <3>2. PICK l \in DOMAIN items[k].instances : p = <<k, l>>
      BY <3>1
    <3>3. items[k].instances[l].addr = a
      BY <3>2 DEF Places
    <3> QED
      BY <1>8, <3>2, <3>3
  <2> QED
    BY <2>1, <2>2
<1> QED
  BY <1>9, FS_Singleton DEF items

(* The items are grouped as Grouped says. *)
LEMMA GroupedItems ==
    ASSUME NEW cs \in Seq(Window), NEW ps \in Seq(Class),
           \A i, j \in DOMAIN ps : Fold[ps[i]] = Fold[ps[j]] => i = j
    PROVE  LET items == recompute(cs, ps)
           IN  /\ \A i, j \in DOMAIN items :
                     Fold[items[i].className] = Fold[items[j].className] => i = j
               /\ \A i \in DOMAIN items :
                     /\ i \in DOMAIN ps <=> items[i].isPinned
                     /\ i \in DOMAIN ps => items[i].className = ps[i]
                     /\ \A j \in DOMAIN items[i].instances :
                           /\ Fold[items[i].instances[j].class]
                                 = Fold[items[i].className]
                           /\ items[i].instances[j].active => items[i].isActive
                     /\ items[i].isActive =>
                           \E c \in DOMAIN cs :
                               /\ cs[c].active
                               /\ Fold[cs[c].class] = Fold[items[i].className]
<1> DEFINE items == recompute(cs, ps)
<1>1. \A i, j \in DOMAIN items : KeyOf(items[i]) = KeyOf(items[j]) => i = j
  BY KeysDiffer
<1>2. \A i \in DOMAIN items :
          /\ items[i].instances = Instances(cs, KeyOf(items[i]))
          /\ i \in DOMAIN ps <=> items[i].isPinned
          /\ i \in DOMAIN ps => items[i].className = ps[i]
          /\ items[i].isActive = \E j \in DOMAIN items[i].instances :
                                    items[i].instances[j].active
  BY ItemsHold
<1> HIDE DEF items
<1>3. ASSUME NEW i \in DOMAIN items
      PROVE  /\ \A j \in DOMAIN items[i].instances :
                   /\ Fold[items[i].instances[j].class] = KeyOf(items[i])
                   /\ items[i].instances[j].active => items[i].isActive
             /\ items[i].isActive =>
                   \E c \in DOMAIN cs :
                       /\ cs[c].active
                       /\ Fold[cs[c].class] = KeyOf(items[i])
  <2> DEFINE key == KeyOf(items[i])
             inst == Instances(cs, key)
  <2>1. /\ items[i].instances = inst
        /\ items[i].isActive = \E j \in DOMAIN inst : inst[j].active
    BY <1>2
  <2>2. \A j \in DOMAIN inst : /\ Source(cs, key, j) \in DOMAIN cs
                               /\ Fold[cs[Source(cs, key, j)].class] = key
                               /\ inst[j] = cs[Source(cs, key, j)]
    BY InstancesAre
  <2> HIDE DEF key, inst
  <2>3. \A j \in DOMAIN inst : Fold[inst[j].class] = key
    BY <2>2
  <2>4. (\E j \in DOMAIN inst : inst[j].active) =>
            \E c \in DOMAIN cs : cs[c].active /\ Fold[cs[c].class] = key
    BY <2>2
  <2> QED
    BY <2>1, <2>3, <2>4 DEF key
<1>4. \A i, j \in DOMAIN items :
          Fold[items[i].className] = Fold[items[j].className] => i = j
  BY <1>1 DEF KeyOf
<1>5. \A i \in DOMAIN items :
          /\ i \in DOMAIN ps <=> items[i].isPinned
          /\ i \in DOMAIN ps => items[i].className = ps[i]
          /\ \A j \in DOMAIN items[i].instances :
                /\ Fold[items[i].instances[j].class] = Fold[items[i].className]
                /\ items[i].instances[j].active => items[i].isActive
          /\ items[i].isActive =>
                \E c \in DOMAIN cs :
                    /\ cs[c].active
                    /\ Fold[cs[c].class] = Fold[items[i].className]
  BY <1>2, <1>3 DEF KeyOf
<1> QED
  BY <1>4, <1>5, Zenon DEF items

-----------------------------------------------------------------------------
(* The processes. *)

Line == {ConfigLine, TornLine} \cup {StateLine(s) : s \in States}

(* The shell and its daemon. *)
BridgeInv ==
    /\ TypeOK
    /\ stdout \in Seq(Line)
    /\ running \/ restartTimer \/ alive => up

(* A command brings one dock at most, and the first dock is nobody's         *)
(* command: the docks that are up, those that are still to be started and   *)
(* the daemons left behind are no more than that.  A run that was not given *)
(* does nothing.                                                           *)
CountInv ==
    /\ extra \in Nat /\ orphans \in Nat /\ runs \in 0..MaxRuns
    /\ script \in [Runs -> {"none", "kill", "restart", "start"}]
    /\ \A i \in Runs : i > runs => script[i] = "none"
    /\ orphans + Docks + Cardinality(Starting) <= runs + 1

FlagsInv ==
    /\ up \in BOOLEAN /\ told \in BOOLEAN /\ wanted \in BOOLEAN
    /\ overtaken \in BOOLEAN /\ second \in BOOLEAN

(* What the shell holds is nothing, or one state of the daemon.            *)
ShownInv ==
    \/ clients = <<>> /\ pinned = <<>> /\ dockItems = <<>>
    \/ /\ [clients |-> clients, pinned |-> pinned] \in States
       /\ dockItems = recompute(clients, pinned)

IInv == BridgeInv /\ CountInv /\ FlagsInv

LEMMA LineTypes ==
    /\ ConfigLine \in Line /\ TornLine \in Line
    /\ \A s \in States : StateLine(s) \in Line
    /\ \A l \in Line : l.type \in {"config", "state", "torn"}
    /\ \A l \in Line : l.type = "state" =>
          /\ [clients |-> l.clients, pinned |-> l.pinned] \in States
<1>1. \A l \in Line : l.type \in {"config", "state", "torn"}
  BY DEF Line, ConfigLine, TornLine, StateLine
<1>2. ASSUME NEW l \in Line, l.type = "state"
      PROVE  [clients |-> l.clients, pinned |-> l.pinned] \in States
  <2>1. PICK s \in States : l = StateLine(s)
    BY <1>2 DEF Line, ConfigLine, TornLine
  <2>2. l.clients = s.clients /\ l.pinned = s.pinned
    BY <2>1 DEF StateLine
  <2>3. s \in [clients : Seq(Window), pinned : Seq(Class)]
    BY StatesAssumption
  <2>4. s = [clients |-> s.clients, pinned |-> s.pinned]
    BY <2>3
  <2> QED
    BY <2>2, <2>4
<1> QED
  BY <1>1, <1>2 DEF Line

LEMMA InitInvariant == SessionInit => IInv /\ ShownInv
<1> SUFFICES ASSUME SessionInit PROVE IInv /\ ShownInv
  OBVIOUS
<1>1. /\ state \in States /\ stdout = <<ConfigLine, StateLine(state)>>
      /\ alive = TRUE /\ running = TRUE /\ restartTimer = FALSE /\ config = FALSE
      /\ changes = 0 /\ crashes = 0
      /\ clients = <<>> /\ pinned = <<>> /\ dockItems = <<>>
  BY DEF SessionInit, Init
<1>2. /\ up = TRUE /\ told = FALSE /\ wanted = TRUE
      /\ overtaken = FALSE /\ second = FALSE
      /\ extra = 0 /\ orphans = 0 /\ runs = 0
      /\ script = [i \in Runs |-> "none"]
  BY DEF SessionInit
<1>3. BridgeInv
  <2>1. ConfigLine \in Line /\ StateLine(state) \in Line
    BY <1>1, LineTypes
  <2>2. stdout \in Seq(Line)
    BY <1>1, <2>1
  <2>3. \A i \in DOMAIN stdout : stdout[i].type \in {"config", "state", "torn"}
    BY <2>2, LineTypes
  <2>4. changes \in 0..MaxChanges /\ crashes \in 0..MaxCrashes
    BY <1>1, ChangesAssumption
  <2> QED
    BY <1>1, <1>2, <2>2, <2>3, <2>4 DEF BridgeInv, TypeOK
<1>4. CountInv
  <2>1. Starting = {}
    BY <1>2 DEF Starting
  <2>2. Cardinality(Starting) = 0
    BY <2>1, FS_EmptySet
  <2>3. Docks = 1
    BY <1>2 DEF Docks
  <2>4. script \in [Runs -> {"none", "kill", "restart", "start"}]
    BY <1>2
  <2>5. \A i \in Runs : script[i] = "none"
    BY <1>2
  <2> QED
    BY <1>2, <2>2, <2>3, <2>4, <2>5, RunsAssumption DEF CountInv
<1>6. FlagsInv
  BY <1>2 DEF FlagsInv
<1>5. ShownInv
  BY <1>1 DEF ShownInv
<1> QED
  BY <1>3, <1>4, <1>5, <1>6 DEF IInv

(* Lines are added to what is printed, or taken from its front. *)
LEMMA StdoutType ==
    ASSUME stdout' \in Seq(Line)
    PROVE  \A i \in DOMAIN stdout' : stdout'[i].type \in {"config", "state", "torn"}
BY LineTypes

LEMMA BridgeStepType ==
    ASSUME BridgeInv, Next, UNCHANGED up
    PROVE  BridgeInv'
<1> USE DEF BridgeInv, TypeOK
<1>0. \A s \in States : StateLine(s) \in Line /\ ConfigLine \in Line /\ TornLine \in Line
  BY LineTypes
<1>1. ASSUME NEW s \in Later, Change(s)
      PROVE  BridgeInv'
  <2>1. s \in States
    BY StatesAssumption
  <2>2. stdout' \in Seq(Line)
    BY <1>0, <1>1, <2>1 DEF Change
  <2>3. changes' \in 0..MaxChanges
    BY <1>1, ChangesAssumption DEF Change
  <2> QED
    BY <1>1, <2>1, <2>2, <2>3, StdoutType DEF Change, shown
<1>2. CASE Crash
  <2>1. stdout' \in Seq(Line)
    BY <1>0, <1>2 DEF Crash
  <2>2. crashes' \in 0..MaxCrashes
    BY <1>2, ChangesAssumption DEF Crash
  <2> QED
    BY <1>2, <2>1, <2>2, StdoutType DEF Crash, shown
<1>3. CASE onRead
  <2>1. stdout # <<>> /\ stdout' = Tail(stdout) /\ UNCHANGED <<child, running, restartTimer>>
    BY <1>3 DEF onRead
  <2>2. stdout' \in Seq(Line)
    BY <2>1
  <2>3. config' \in BOOLEAN
    BY <1>3, Zenon DEF onRead, _onDaemonLine, shown
  <2> QED
    BY <2>1, <2>2, <2>3, StdoutType DEF child
<1>4. CASE onRunningChanged
  BY <1>4 DEF onRunningChanged, child, shown
<1>5. CASE onTriggered
  <2>1. state' \in States
    BY <1>5, StatesAssumption DEF onTriggered
  <2>2. stdout' \in Seq(Line)
    <3>1. <<ConfigLine, StateLine(state')>> \in Seq(Line)
      BY <1>0, <2>1
    <3> QED
      BY <1>5, <3>1 DEF onTriggered
  <2> QED
    BY <1>5, <2>1, <2>2, StdoutType DEF onTriggered, shown
<1> QED
  BY <1>1, <1>2, <1>3, <1>4, <1>5 DEF Next, Shell

(* The steps of the session. *)

LEMMA ScriptStepType ==
    ASSUME BridgeInv, SessionNext, ~BridgeStep
    PROVE  BridgeInv'
<1> USE DEF BridgeInv, TypeOK
<1>1. ASSUME UNCHANGED <<vars, up>>
      PROVE  BridgeInv'
  BY <1>1 DEF vars, child, shown
<1>2. ASSUME NEW i \in Runs, KillShell(i)
      PROVE  BridgeInv'
  <2>1. <<>> \in Seq(Line)
    OBVIOUS
  <2>2. /\ stdout' = <<>> /\ clients' = <<>> /\ pinned' = <<>> /\ dockItems' = <<>>
        /\ alive' = FALSE /\ running' = FALSE /\ restartTimer' = FALSE /\ config' = FALSE
        /\ UNCHANGED <<state, changes, crashes>>
    BY <1>2 DEF KillShell
  <2> QED
    BY <2>1, <2>2, StdoutType
<1>3. ASSUME StartShell
      PROVE  BridgeInv'
  <2>1. CASE UNCHANGED <<vars, up>>
    BY <1>1, <2>1
  <2>2. CASE /\ up' = TRUE /\ running' = TRUE /\ alive' = TRUE /\ state' \in Later
             /\ stdout' = <<ConfigLine, StateLine(state')>>
             /\ UNCHANGED <<changes, crashes, restartTimer, shown>>
    <3>1. state' \in States
      BY <2>2, StatesAssumption
    <3>2. <<ConfigLine, StateLine(state')>> \in Seq(Line)
      BY <3>1, LineTypes
    <3>3. stdout' \in Seq(Line)
      BY <2>2, <3>2
    <3> QED
      BY <2>2, <3>1, <3>3, StdoutType DEF shown
  <2> QED
    BY <1>3, <2>1, <2>2 DEF StartShell
<1>4. CASE Terminate
  BY <1>4 DEF Terminate, shown
<1>5. CASE \E andStart \in BOOLEAN : do_kill(andStart)
  BY <1>1, <1>5 DEF do_kill
<1>6. CASE OrphanEnds
  BY <1>1, <1>6 DEF OrphanEnds
<1>7. ASSUME NEW i \in Runs, StartAgain(i)
      PROVE  BridgeInv'
  BY <1>3, <1>7 DEF StartAgain
<1>8. CASE do_start
  BY <1>3, <1>8 DEF do_start
<1> QED
  BY <1>2, <1>4, <1>5, <1>6, <1>7, <1>8 DEF SessionNext

(* The runs that are going to start a dock, step by step. *)

LEMMA StartingFinite ==
    /\ Starting \subseteq Runs /\ IsFiniteSet(Starting)
    /\ Cardinality(Starting) \in Nat
<1>1. IsFiniteSet(Runs)
  BY RunsAssumption, FS_Interval DEF Runs
<1>2. Starting \in SUBSET Runs
  BY DEF Starting
<1>3. IsFiniteSet(Starting)
  BY <1>1, <1>2, FS_Subset
<1> QED
  BY <1>2, <1>3, FS_CardinalityType

LEMMA CommandGiven ==
    ASSUME CountInv, NEW andStart \in BOOLEAN, do_kill(andStart)
    PROVE  /\ script' \in [Runs -> {"none", "kill", "restart", "start"}]
           /\ \A i \in Runs : i > runs' => script'[i] = "none"
           /\ Cardinality(Starting') \in Nat
           /\ Cardinality(Starting') <= Cardinality(Starting) + 1
<1> DEFINE next == IF andStart THEN "restart" ELSE "kill"
<1>1. /\ runs < MaxRuns /\ runs' = runs + 1
      /\ script' = [script EXCEPT ![runs'] = next]
  BY DEF do_kill, Command
<1>2. runs' \in Runs /\ runs \in Int /\ MaxRuns \in Int
  BY <1>1, RunsAssumption DEF CountInv, Runs
<1>3. next \in {"none", "kill", "restart", "start"}
  OBVIOUS
<1> HIDE DEF next
<1>4. script' \in [Runs -> {"none", "kill", "restart", "start"}]
  BY <1>1, <1>3 DEF CountInv
<1>5. \A i \in Runs : i # runs' => script'[i] = script[i]
  BY <1>1 DEF CountInv
<1>6. \A i \in Runs : i > runs' => script'[i] = "none"
  <2> SUFFICES ASSUME NEW i \in Runs, i > runs'
               PROVE  script'[i] = "none"
    OBVIOUS
  <2>1. i # runs' /\ i > runs
    BY <1>1, <1>2 DEF Runs
  <2> QED
    BY <1>5, <2>1 DEF CountInv
<1>7. \/ Starting' = Starting
      \/ Starting' = Starting \cup {runs'}
      \/ Starting' = Starting \ {runs'}
  <2>1. \A i \in Runs : i # runs' => (i \in Starting' <=> i \in Starting)
    BY <1>5 DEF Starting
  <2>2. Starting \subseteq Runs /\ Starting' \subseteq Runs
    BY DEF Starting
  <2> QED
    BY <2>1, <2>2
<1>8. /\ Cardinality(Starting) \in Nat
      /\ Cardinality(Starting \cup {runs'}) \in {Cardinality(Starting), Cardinality(Starting) + 1}
      /\ runs' \notin Starting
  <2>1. runs' \notin Starting
    BY <1>1, <1>2 DEF CountInv, Starting
  <2> QED
    BY <2>1, StartingFinite, FS_AddElement
<1>9. Starting \ {runs'} = Starting
  BY <1>8
<1> QED
  BY <1>4, <1>6, <1>7, <1>8, <1>9

LEMMA ShellKilled ==
    ASSUME CountInv, NEW i \in Runs, KillShell(i)
    PROVE  /\ script' \in [Runs -> {"none", "kill", "restart", "start"}]
           /\ \A j \in Runs : j > runs => script'[j] = "none"
           /\ Starting' = Starting
<1>1. /\ script[i] \in {"kill", "restart"}
      /\ script' = [script EXCEPT ![i] = Killed(script[i])]
  BY DEF KillShell
<1>2. \/ script[i] = "kill" /\ Killed(script[i]) = "none"
      \/ script[i] = "restart" /\ Killed(script[i]) = "start"
  BY <1>1 DEF Killed
<1>3. script' \in [Runs -> {"none", "kill", "restart", "start"}]
  BY <1>1, <1>2 DEF CountInv
<1>4. script'[i] = Killed(script[i])
  BY <1>1 DEF CountInv
<1>5. \A j \in Runs : j # i => script'[j] = script[j]
  BY <1>1 DEF CountInv
<1>6. \A j \in Runs : j > runs => script'[j] = "none"
  <2>1. ~(i > runs)
    BY <1>1 DEF CountInv
  <2> QED
    BY <1>5, <2>1 DEF CountInv
<1>7. \A j \in Runs : j \in Starting' <=> j \in Starting
  BY <1>2, <1>4, <1>5 DEF Starting
<1> QED
  BY <1>3, <1>6, <1>7 DEF Starting

LEMMA DockStarted ==
    ASSUME CountInv, NEW i \in Runs, StartAgain(i)
    PROVE  /\ script' \in [Runs -> {"none", "kill", "restart", "start"}]
           /\ \A j \in Runs : j > runs => script'[j] = "none"
           /\ Cardinality(Starting) \in Nat
           /\ Cardinality(Starting') = Cardinality(Starting) - 1
<1>1. script[i] = "start" /\ script' = [script EXCEPT ![i] = "none"]
  BY DEF StartAgain
<1>2. script' \in [Runs -> {"none", "kill", "restart", "start"}]
  BY <1>1 DEF CountInv
<1>3. script'[i] = "none" /\ \A j \in Runs : j # i => script'[j] = script[j]
  BY <1>1 DEF CountInv
<1>4. \A j \in Runs : j > runs => script'[j] = "none"
  BY <1>3 DEF CountInv
<1>5. Starting' = Starting \ {i} /\ i \in Starting
  <2>1. \A j \in Runs : j \in Starting' <=> (j \in Starting /\ j # i)
    BY <1>3 DEF Starting
  <2>2. Starting \subseteq Runs /\ Starting' \subseteq Runs
    BY DEF Starting
  <2>3. i \in Starting
    BY <1>1 DEF Starting
  <2> QED
    BY <2>1, <2>2, <2>3
<1>6. Cardinality(Starting \ {i}) = Cardinality(Starting) - 1
  BY <1>5, StartingFinite, FS_RemoveElement
<1> QED
  BY <1>2, <1>4, <1>5, <1>6, StartingFinite

(* A dock more is up. *)
LEMMA OneDockMore ==
    ASSUME extra \in Nat, up \in BOOLEAN, StartShell
    PROVE  extra' \in Nat /\ Docks' = Docks + 1 /\ orphans' = orphans
<1>1. CASE ~up
  <2>1. up' = TRUE /\ UNCHANGED <<extra, orphans>>
    BY <1>1 DEF StartShell
  <2> QED
    BY <1>1, <2>1 DEF Docks
<1>2. CASE up
  <2>1. extra' = extra + 1 /\ UNCHANGED <<up, orphans>>
    BY <1>2 DEF StartShell
  <2> QED
    BY <1>2, <2>1 DEF Docks
<1> QED
  BY <1>1, <1>2

LEMMA CountStep ==
    ASSUME IInv, SessionNext
    PROVE  CountInv'
<1>0. /\ runs \in Nat /\ MaxRuns \in Nat /\ extra \in Nat /\ orphans \in Nat
      /\ runs <= MaxRuns
      /\ up \in BOOLEAN
      /\ orphans + Docks + Cardinality(Starting) <= runs + 1
      /\ CountInv
  BY RunsAssumption DEF IInv, CountInv, FlagsInv
<1>1. Docks \in Nat
  BY <1>0 DEF Docks
<1>2. Cardinality(Starting) \in Nat
  BY StartingFinite
<1>3. ASSUME UNCHANGED <<up, extra, script, runs>>,
             orphans' \in Nat, orphans' <= orphans
      PROVE  CountInv'
  <2>1. Docks' = Docks /\ Starting' = Starting
    BY <1>3 DEF Docks, Starting
  <2>2. orphans' + Docks' + Cardinality(Starting') <= runs' + 1
    BY <1>0, <1>1, <1>2, <1>3, <2>1
  <2> QED
    BY <1>0, <1>3, <2>2 DEF CountInv
<1>4. CASE BridgeStep
  <2>1. UNCHANGED <<up, extra, script, runs, orphans>>
    BY <1>4 DEF BridgeStep, user
  <2> QED
    BY <1>0, <1>3, <2>1
<1>5. CASE Terminate
  <2>1. UNCHANGED <<up, extra, script, runs, orphans>>
    BY <1>5 DEF Terminate, user
  <2> QED
    BY <1>0, <1>3, <2>1
<1>6. CASE OrphanEnds
  <2>1. orphans > 0 /\ orphans' = orphans - 1 /\ UNCHANGED <<up, extra, script, runs>>
    BY <1>6 DEF OrphanEnds, user
  <2>2. orphans' \in Nat /\ orphans' <= orphans
    BY <1>0, <2>1
  <2> QED
    BY <1>3, <2>1, <2>2
<1>7. ASSUME NEW andStart \in BOOLEAN, do_kill(andStart)
      PROVE  CountInv'
  <2>1. runs < MaxRuns /\ runs' = runs + 1 /\ UNCHANGED <<up, extra, orphans>>
    BY <1>7 DEF do_kill, Command
  <2>2. /\ script' \in [Runs -> {"none", "kill", "restart", "start"}]
        /\ \A i \in Runs : i > runs' => script'[i] = "none"
        /\ Cardinality(Starting') \in Nat
        /\ Cardinality(Starting') <= Cardinality(Starting) + 1
    BY <1>0, <1>7, CommandGiven
  <2>3. Docks' = Docks
    BY <2>1 DEF Docks
  <2>4. orphans' + Docks' + Cardinality(Starting') <= runs' + 1
    BY <1>0, <1>1, <1>2, <2>1, <2>2, <2>3
  <2> QED
    BY <1>0, <2>1, <2>2, <2>4 DEF CountInv
<1>8. ASSUME NEW i \in Runs, KillShell(i)
      PROVE  CountInv'
  <2>1. up' = FALSE /\ extra' = 0 /\ runs' = runs
    BY <1>8 DEF KillShell, user
  <2>2. PICK n \in 0..extra : orphans' = orphans + n + IF alive THEN 1 ELSE 0
    BY <1>8 DEF KillShell
  <2>3. /\ script' \in [Runs -> {"none", "kill", "restart", "start"}]
        /\ \A j \in Runs : j > runs => script'[j] = "none"
        /\ Starting' = Starting
    BY <1>0, <1>8, ShellKilled
  <2>4. Docks' = 0
    BY <2>1 DEF Docks
  <2>5. orphans' \in Nat /\ orphans' <= orphans + Docks
    <3>1. CASE alive
      <4>1. up = TRUE
        BY <3>1 DEF IInv, BridgeInv, FlagsInv
      <4>2. orphans' = orphans + n + 1 /\ Docks = extra + 1
        BY <2>2, <3>1, <4>1 DEF Docks
      <4> QED
        BY <1>0, <4>2
    <3>2. CASE ~alive
      <4>1. orphans' = orphans + n + 0 /\ Docks >= extra
        BY <1>0, <2>2, <3>2 DEF Docks
      <4> QED
        BY <1>0, <1>1, <4>1
    <3> QED
      BY <3>1, <3>2
  <2>6. orphans' + Docks' + Cardinality(Starting') <= runs' + 1
    BY <1>0, <1>1, <1>2, <2>1, <2>3, <2>4, <2>5
  <2> QED
    BY <1>0, <2>1, <2>3, <2>5, <2>6 DEF CountInv
<1>9. ASSUME NEW i \in Runs, StartAgain(i)
      PROVE  CountInv'
  <2>1. runs' = runs /\ StartShell
    BY <1>9 DEF StartAgain, user
  <2>2. extra' \in Nat /\ Docks' = Docks + 1 /\ orphans' = orphans
    BY <1>0, <2>1, OneDockMore
  <2>3. /\ script' \in [Runs -> {"none", "kill", "restart", "start"}]
        /\ \A j \in Runs : j > runs => script'[j] = "none"
        /\ Cardinality(Starting') = Cardinality(Starting) - 1
    BY <1>0, <1>9, DockStarted
  <2>4. orphans' + Docks' + Cardinality(Starting') <= runs' + 1
    BY <1>0, <1>1, <1>2, <2>1, <2>2, <2>3
  <2> QED
    BY <1>0, <2>1, <2>2, <2>3, <2>4 DEF CountInv
<1>10. CASE do_start
  <2>1. runs < MaxRuns /\ runs' = runs + 1 /\ StartShell /\ script' = script
    BY <1>10 DEF do_start, Command
  <2>2. extra' \in Nat /\ Docks' = Docks + 1 /\ orphans' = orphans
    BY <1>0, <2>1, OneDockMore
  <2>3. Starting' = Starting
    BY <2>1 DEF Starting
  <2>4. orphans' + Docks' + Cardinality(Starting') <= runs' + 1
    BY <1>0, <1>1, <1>2, <2>1, <2>2, <2>3
  <2>5. \A i \in Runs : i > runs' => script'[i] = "none"
    <3> SUFFICES ASSUME NEW i \in Runs, i > runs'
                 PROVE  script'[i] = "none"
      OBVIOUS
    <3>1. i > runs
      BY <1>0, <2>1 DEF Runs
    <3> QED
      BY <1>0, <2>1, <3>1 DEF CountInv
  <2> QED
    BY <1>0, <2>1, <2>2, <2>4, <2>5 DEF CountInv
<1> QED
  BY <1>4, <1>5, <1>6, <1>7, <1>8, <1>9, <1>10 DEF SessionNext

LEMMA FlagsStep ==
    ASSUME IInv, SessionNext
    PROVE  FlagsInv'
<1>0. FlagsInv /\ alive \in BOOLEAN
  BY DEF IInv, BridgeInv, TypeOK
<1> USE DEF FlagsInv
<1>1. CASE BridgeStep
  BY <1>0, <1>1 DEF BridgeStep, user, history
<1>2. ASSUME NEW andStart \in BOOLEAN, do_kill(andStart)
      PROVE  FlagsInv'
  <2>1. told' = alive /\ wanted' = andStart /\ up' = up /\ UNCHANGED history
    BY <1>2 DEF do_kill, Command
  <2> QED
    BY <1>0, <1>2, <2>1 DEF history
<1>3. ASSUME NEW i \in Runs, KillShell(i)
      PROVE  FlagsInv'
  BY <1>0, <1>3 DEF KillShell, user
<1>4. ASSUME NEW i \in Runs, StartAgain(i)
      PROVE  FlagsInv'
  BY <1>0, <1>4 DEF StartAgain, StartShell, user
<1>5. CASE do_start
  BY <1>0, <1>5 DEF do_start, Command, StartShell
<1>6. CASE Terminate
  BY <1>0, <1>6 DEF Terminate, user, history
<1>7. CASE OrphanEnds
  BY <1>0, <1>7 DEF OrphanEnds, user, history
<1> QED
  BY <1>1, <1>2, <1>3, <1>4, <1>5, <1>6, <1>7 DEF SessionNext

LEMMA StutterKeeps ==
    ASSUME IInv, UNCHANGED sessionVars
    PROVE  IInv'
BY DEF IInv, BridgeInv, CountInv, FlagsInv, TypeOK, Docks, Starting, sessionVars, session,
       processes, user, history, vars, child, shown

LEMMA StepKeeps ==
    ASSUME IInv, [SessionNext]_sessionVars
    PROVE  IInv'
<1>1. CASE UNCHANGED sessionVars
  BY <1>1, StutterKeeps
<1>2. CASE SessionNext
  <2>1. BridgeInv'
    <3>1. CASE BridgeStep
      BY <3>1, BridgeStepType DEF IInv, BridgeStep
    <3>2. CASE ~BridgeStep
      BY <1>2, <3>2, ScriptStepType DEF IInv
    <3> QED
      BY <3>1, <3>2
  <2>2. CountInv'
    BY <1>2, CountStep
  <2>3. FlagsInv'
    BY <1>2, FlagsStep
  <2> QED
    BY <2>1, <2>2, <2>3 DEF IInv
<1> QED
  BY <1>1, <1>2

(* Every variable keeps its type, a running daemon of the first dock has    *)
(* its shell, and however the runs of the script overlap, the docks, the    *)
(* daemons left behind and the docks still to be started are no more than   *)
(* the user's commands and the first dock (snappy-dock.sh:154, 164, 205).   *)
THEOREM SessionTypeCorrect == SessionSpec => []SessionTypeOK
<1>1. SessionInit => IInv
  BY InitInvariant
<1>2. IInv /\ [SessionNext]_sessionVars => IInv'
  BY StepKeeps
<1>3. IInv => SessionTypeOK
  <2> SUFFICES ASSUME IInv PROVE SessionTypeOK
    OBVIOUS
  <2>1. TypeOK /\ (alive => up)
    BY DEF IInv, BridgeInv
  <2> QED
    BY <2>1 DEF SessionTypeOK, IInv, CountInv, FlagsInv
<1> QED
  BY <1>1, <1>2, <1>3, PTL DEF SessionSpec

(* The dock is emptied when its shell ends, and otherwise changes only when *)
(* a line is read.                                                         *)
LEMMA ShownStep ==
    ASSUME IInv, ShownInv, SessionNext
    PROVE  ShownInv'
<1>1. ASSUME UNCHANGED shown
      PROVE  ShownInv'
  BY <1>1 DEF ShownInv, shown
<1>2. CASE onRead
  <2>1. stdout # <<>> /\ _onDaemonLine(Head(stdout))
    BY <1>2 DEF onRead
  <2> DEFINE line == Head(stdout)
  <2>2. line \in Line
    <3>1. stdout \in Seq(Line)
      BY DEF IInv, BridgeInv
    <3> QED
      BY <2>1, <3>1
  <2> HIDE DEF line
  <2>3. _onDaemonLine(line)
    BY <2>1 DEF line
  <2>4. \/ UNCHANGED <<clients, pinned, dockItems>>
        \/ /\ line.type = "state"
           /\ clients' = line.clients /\ pinned' = line.pinned
           /\ dockItems' = recompute(clients', pinned')
    <3>1. CASE line.type = "config"
      BY <2>3, <3>1, Zenon DEF _onDaemonLine
    <3>2. CASE line.type = "state"
      <4>1. line.type # "config"
        BY <3>2
      <4> QED
        BY <2>3, <3>2, <4>1, Zenon DEF _onDaemonLine
    <3>3. CASE line.type # "config" /\ line.type # "state"
      BY <2>3, <3>3, Zenon DEF _onDaemonLine, shown
    <3> QED
      BY <3>1, <3>2, <3>3
  <2>5. line.type = "state" =>
            [clients |-> line.clients, pinned |-> line.pinned] \in States
    BY <2>2, LineTypes
  <2> QED
    BY <2>4, <2>5 DEF ShownInv
<1>3. CASE \E i \in Runs : KillShell(i)
  BY <1>3 DEF KillShell, ShownInv
<1>4. CASE BridgeStep /\ ~onRead
  <2>1. UNCHANGED shown
    BY <1>4 DEF BridgeStep, Next, Shell, Change, Crash, onRunningChanged, onTriggered
  <2> QED
    BY <1>1, <2>1
<1>5. CASE \/ \E andStart \in BOOLEAN : do_kill(andStart)
           \/ \E i \in Runs : StartAgain(i)
           \/ do_start \/ Terminate \/ OrphanEnds
  <2>1. UNCHANGED shown
    BY <1>5 DEF do_kill, StartAgain, do_start, StartShell, Terminate, OrphanEnds, vars
  <2> QED
    BY <1>1, <2>1
<1> QED
  BY <1>2, <1>3, <1>4, <1>5 DEF SessionNext, BridgeStep

LEMMA ShownAlways == SessionSpec => []ShownInv
<1>1. SessionInit => IInv /\ ShownInv
  BY InitInvariant
<1>2. IInv /\ ShownInv /\ [SessionNext]_sessionVars => (IInv /\ ShownInv)'
  <2> SUFFICES ASSUME IInv, ShownInv, [SessionNext]_sessionVars
               PROVE  IInv' /\ ShownInv'
    OBVIOUS
  <2>1. IInv'
    BY StepKeeps
  <2>2. CASE SessionNext
    BY <2>1, <2>2, ShownStep
  <2>3. CASE UNCHANGED sessionVars
    <3>1. ShownInv'
      BY <2>3 DEF sessionVars, vars, shown, ShownInv
    <3> QED
      BY <2>1, <3>1
  <2> QED
    BY <2>2, <2>3
<1> QED
  BY <1>1, <1>2, PTL DEF SessionSpec

(* In a session in which the daemon says nothing ambiguous, every window    *)
(* the dock was told of stands in it exactly once, whatever is pinned and   *)
(* in whatever spelling, and whatever restarts the dock went through        *)
(* (DaemonBridge.qml:71).                                                  *)
THEOREM EveryWindowOnce ==
    ASSUME \A s \in States : Unambiguous(s)
    PROVE  SessionSpec => []EachWindowOnce
<1>1. ShownInv => EachWindowOnce
  <2> SUFFICES ASSUME ShownInv PROVE EachWindowOnce
    OBVIOUS
  <2>1. CASE clients = <<>>
    BY <2>1 DEF EachWindowOnce
  <2>2. CASE /\ [clients |-> clients, pinned |-> pinned] \in States
             /\ dockItems = recompute(clients, pinned)
    <3>1. clients \in Seq(Window) /\ pinned \in Seq(Class)
      BY <2>2, StatesAssumption
    <3>2. /\ \A i, j \in DOMAIN clients : clients[i].addr = clients[j].addr => i = j
          /\ \A i, j \in DOMAIN pinned : Fold[pinned[i]] = Fold[pinned[j]] => i = j
      BY <2>2 DEF Unambiguous
    <3> QED
      BY <2>2, <3>1, <3>2, OnePlace DEF EachWindowOnce
  <2> QED
    BY <2>1, <2>2 DEF ShownInv
<1> QED
  BY <1>1, ShownAlways, PTL

(* In such a session the windows of a class always stand together, the      *)
(* pinned apps come first and in their order, and the item marked active is *)
(* the one with the active window.                                         *)
THEOREM WindowsGrouped ==
    ASSUME \A s \in States : Unambiguous(s)
    PROVE  SessionSpec => []Grouped
<1>1. ShownInv => Grouped
  <2> SUFFICES ASSUME ShownInv PROVE Grouped
    OBVIOUS
  <2>1. CASE pinned = <<>> /\ dockItems = <<>>
    BY <2>1 DEF Grouped
  <2>2. CASE /\ [clients |-> clients, pinned |-> pinned] \in States
             /\ dockItems = recompute(clients, pinned)
    <3>1. clients \in Seq(Window) /\ pinned \in Seq(Class)
      BY <2>2, StatesAssumption
    <3>2. \A i, j \in DOMAIN pinned : Fold[pinned[i]] = Fold[pinned[j]] => i = j
      BY <2>2 DEF Unambiguous
    <3> QED
      BY <2>2, <3>1, <3>2, GroupedItems DEF Grouped
  <2> QED
    BY <2>1, <2>2 DEF ShownInv
<1> QED
  BY <1>1, ShownAlways, PTL
=============================================================================
