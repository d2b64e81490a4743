-------------------------- MODULE SharedFilesProofs --------------------------
(***************************************************************************)
(* Theorems about the two files that the daemon and the settings program    *)
(* share.  The pinned list (module Pinned): for every set of classes and    *)
(* spellings, every file the daemon may start from, and any number of      *)
(* commands, edits, crashes and failing saves.  config.ini (module         *)
(* ConfigReload, further down): for every text of a value, every file and   *)
(* any number of rewrites.                                                 *)
(***************************************************************************)
EXTENDS Pinned, ConfigReload, ListProofs, SequenceTheorems

(* A list without its i-th entry. *)
LEMMA RemoveAtEntries ==
    ASSUME NEW X, NEW l \in Seq(X), NEW i \in DOMAIN l
    PROVE  /\ RemoveAt(l, i) \in Seq(X)
           /\ Len(RemoveAt(l, i)) = Len(l) - 1
           /\ \A k \in 1..(Len(l) - 1) :
                 RemoveAt(l, i)[k] = l[IF k < i THEN k ELSE k + 1]
<1> DEFINE a == SubSeq(l, 1, i - 1)
           b == SubSeq(l, i + 1, Len(l))
<1>1. Len(l) \in Nat /\ i \in 1..Len(l)
  OBVIOUS
<1>2. a \in Seq(X) /\ Len(a) = i - 1 /\ \A k \in 1..(i - 1) : a[k] = l[k]
  BY <1>1
<1>3. /\ b \in Seq(X) /\ Len(b) = Len(l) - i
      /\ \A k \in 1..(Len(l) - i) : b[k] = l[k + i]
  BY <1>1
<1> HIDE DEF a, b
<1>4. a \o b \in Seq(X) /\ Len(a \o b) = Len(l) - 1
  BY <1>1, <1>2, <1>3, ConcatProperties
<1>5. ASSUME NEW k \in 1..(Len(l) - 1)
      PROVE  (a \o b)[k] = l[IF k < i THEN k ELSE k + 1]
  <2>1. CASE k < i
    BY <1>1, <1>2, <1>3, <2>1, ConcatProperties
  <2>2. CASE ~(k < i)
    <3>0. k \in 1..(Len(a) + Len(b)) /\ ~(k <= Len(a))
      BY <1>1, <1>2, <1>3, <2>2
    <3>1. (a \o b)[k] = b[k - (i - 1)]
      BY <1>2, <1>3, <3>0, ConcatProperties
    <3>2. k - (i - 1) \in 1..(Len(l) - i) /\ k - (i - 1) + i = k + 1
      BY <1>1, <2>2
    <3> QED
      BY <1>3, <2>2, <3>1, <3>2
  <2> QED
    BY <2>1, <2>2
<1>6. RemoveAt(l, i) = a \o b
  BY DEF RemoveAt, a, b
<1> QED
  BY <1>4, <1>5, <1>6

(* A list with an entry put in at i. *)
LEMMA InsertAtEntries ==
    ASSUME NEW X, NEW l \in Seq(X), NEW i \in 1..(Len(l) + 1), NEW e \in X
    PROVE  /\ InsertAt(l, i, e) \in Seq(X)
           /\ Len(InsertAt(l, i, e)) = Len(l) + 1
           /\ \A k \in 1..(Len(l) + 1) :
                 InsertAt(l, i, e)[k] =
                     IF k < i THEN l[k] ELSE IF k = i THEN e ELSE l[k - 1]
<1> DEFINE a == SubSeq(l, 1, i - 1)
           b == SubSeq(l, i, Len(l))
<1>1. Len(l) \in Nat
  OBVIOUS
<1>2. a \in Seq(X) /\ Len(a) = i - 1 /\ \A k \in 1..(i - 1) : a[k] = l[k]
  BY <1>1
<1>3. /\ b \in Seq(X) /\ Len(b) = Len(l) - i + 1
      /\ \A k \in 1..(Len(l) - i + 1) : b[k] = l[k + i - 1]
  BY <1>1
<1>4. <<e>> \in Seq(X) /\ Len(<<e>>) = 1 /\ <<e>>[1] = e
  OBVIOUS
<1> DEFINE c == a \o <<e>>
<1> HIDE DEF a, b
<1>5. /\ c \in Seq(X) /\ Len(c) = i
      /\ \A k \in 1..i : c[k] = IF k < i THEN l[k] ELSE e
  BY <1>1, <1>2, <1>4, ConcatProperties
<1> HIDE DEF c
<1>6. c \o b \in Seq(X) /\ Len(c \o b) = Len(l) + 1
  <2>1. c \o b \in Seq(X) /\ Len(c \o b) = Len(c) + Len(b)
    BY <1>3, <1>5, ConcatProperties
  <2>2. Len(c) + Len(b) = Len(l) + 1
    BY <1>1, <1>3, <1>5
  <2> QED
    BY <2>1, <2>2
<1>7. ASSUME NEW k \in 1..(Len(l) + 1)
      PROVE  (c \o b)[k] = IF k < i THEN l[k] ELSE IF k = i THEN e ELSE l[k - 1]
  <2>1. CASE k <= i
    BY <1>1, <1>3, <1>5, <2>1, ConcatProperties
  <2>2. CASE ~(k <= i)
    <3>1. (c \o b)[k] = b[k - i]
      BY <1>1, <1>3, <1>5, <2>2, ConcatProperties
    <3>2. k - i \in 1..(Len(l) - i + 1) /\ k - i + i - 1 = k - 1
      BY <1>1, <2>2
    <3> QED
      BY <1>3, <2>2, <3>1, <3>2
  <2> QED
    BY <2>1, <2>2
<1>8. InsertAt(l, i, e) = c \o b
  BY DEF InsertAt, a, b, c
<1> QED
  BY <1>6, <1>7, <1>8

-----------------------------------------------------------------------------
(* What the two parsers return. *)

Entry == Class \cup {Blank}
Filled(ls) == {i \in DOMAIN ls : ls[i] # Blank}
Plain(ls) == {i \in DOMAIN ls : ls[i] # Blank /\ ls[i] \notin Hidden}

(* A selection names an app twice if two of the places chosen name it. *)
LEMMA SelectionUnique ==
    ASSUME NEW ls \in Seq(Entry), NEW S \in SUBSET (DOMAIN ls)
    PROVE  Unique(EntriesAt(ls, S)) <=>
               \A i, j \in S : Fold[ls[i]] = Fold[ls[j]] => i = j
<1> DEFINE e == EntriesAt(ls, S)
<1>1. Len(ls) \in Nat /\ S \in SUBSET (1..Len(ls))
  OBVIOUS
<1>2. /\ DOMAIN e = 1..Cardinality(S)
      /\ \A k \in 1..Cardinality(S) : e[k] = ls[Nth(S, k)] /\ Nth(S, k) \in S
  <2>1. \A i \in S : ls[i] \in Entry
    OBVIOUS
  <2> QED
    BY <2>1, EntriesType, Zenon
<1>3. \A i \in S : \E k \in 1..Cardinality(S) : e[k] = ls[i] /\ Nth(S, k) = i
  BY EntriesCover, Zenon
<1>4. \A k, m \in 1..Cardinality(S) : Nth(S, k) = Nth(S, m) => k = m
  BY <1>1, NthInjective, Zenon
<1> HIDE DEF e
<1>5. ASSUME Unique(e), NEW i \in S, NEW j \in S, Fold[ls[i]] = Fold[ls[j]]
      PROVE  i = j
  <2>1. PICK k \in 1..Cardinality(S) : e[k] = ls[i] /\ Nth(S, k) = i
    BY <1>3, Zenon
  <2>2. PICK m \in 1..Cardinality(S) : e[m] = ls[j] /\ Nth(S, m) = j
    BY <1>3, Zenon
  <2>3. k = m
    BY <1>2, <1>5, <2>1, <2>2, Zenon DEF Unique
  <2> QED
    BY <2>1, <2>2, <2>3, Zenon
<1>6. ASSUME \A i, j \in S : Fold[ls[i]] = Fold[ls[j]] => i = j,
             NEW k \in DOMAIN e, NEW m \in DOMAIN e, Fold[e[k]] = Fold[e[m]]
      PROVE  k = m
  <2>1. k \in 1..Cardinality(S) /\ m \in 1..Cardinality(S)
    BY <1>2, Zenon
  <2>2. /\ e[k] = ls[Nth(S, k)] /\ Nth(S, k) \in S
        /\ e[m] = ls[Nth(S, m)] /\ Nth(S, m) \in S
    BY <1>2, <2>1, Zenon
  <2>3. Fold[ls[Nth(S, k)]] = Fold[ls[Nth(S, m)]]
    BY <1>6, <2>2, Zenon
  <2>4. Nth(S, k) = Nth(S, m)
    BY <1>6, <2>2, <2>3, Zenon
  <2> QED
    BY <1>4, <2>1, <2>4, Zenon
<1> QED
  BY <1>5, <1>6, Zenon DEF Unique, e

LEMMA SelectionFolded ==
    ASSUME NEW ls \in Seq(Entry), NEW S \in SUBSET (DOMAIN ls)
    PROVE  Folded(EntriesAt(ls, S)) = {Fold[ls[i]] : i \in S}
<1> DEFINE e == EntriesAt(ls, S)
<1>1. /\ DOMAIN e = 1..Cardinality(S)
      /\ \A k \in 1..Cardinality(S) : e[k] = ls[Nth(S, k)] /\ Nth(S, k) \in S
  <2>1. \A i \in S : ls[i] \in Entry
    OBVIOUS
  <2> QED
    BY <2>1, EntriesType, Zenon
<1>2. \A i \in S : \E k \in 1..Cardinality(S) : e[k] = ls[i]
  BY EntriesCover, Zenon
<1> HIDE DEF e
<1>3. Folded(e) = {Fold[e[k]] : k \in DOMAIN e}
  BY DEF Folded
<1>4. ASSUME NEW k \in DOMAIN e
      PROVE  Fold[e[k]] \in {Fold[ls[i]] : i \in S}
  BY <1>1, Zenon
<1>5. ASSUME NEW i \in S
      PROVE  Fold[ls[i]] \in {Fold[e[k]] : k \in DOMAIN e}
  <2>1. PICK k \in DOMAIN e : e[k] = ls[i]
    BY <1>1, <1>2, Zenon
  <2> QED
    BY <2>1, Zenon
<1>6. {Fold[e[k]] : k \in DOMAIN e} = {Fold[ls[i]] : i \in S}
  BY <1>4, <1>5
<1> QED
  BY <1>3, <1>6, Zenon DEF e

LEMMA LoadIsSelection ==
    ASSUME NEW ls \in Seq(Entry)
    PROVE  /\ Load(ls) = EntriesAt(ls, Filled(ls))
           /\ Parse(ls) = EntriesAt(ls, Plain(ls))
           /\ Filled(ls) \in SUBSET (DOMAIN ls)
           /\ Plain(ls) \in SUBSET Filled(ls)
           /\ Load(ls) \in Seq(Class)
           /\ Parse(ls) \in Seq(Class)
<1>1. Filled(ls) \in SUBSET (DOMAIN ls) /\ Plain(ls) \in SUBSET (DOMAIN ls)
  BY Zenon DEF Filled, Plain
<1>2. /\ \A i \in Filled(ls) : ls[i] \in Class
      /\ \A i \in Plain(ls) : ls[i] \in Class
  BY DEF Filled, Plain, Entry
<1>3. EntriesAt(ls, Filled(ls)) \in Seq(Class)
  BY <1>1, <1>2, EntriesType, Zenon
<1>4. EntriesAt(ls, Plain(ls)) \in Seq(Class)
  BY <1>1, <1>2, EntriesType, Zenon
<1>5. Plain(ls) \in SUBSET Filled(ls)
  BY Zenon DEF Filled, Plain
<1>6. /\ Load(ls) = EntriesAt(ls, Filled(ls))
      /\ Parse(ls) = EntriesAt(ls, Plain(ls))
  BY Zenon DEF Load, Parse, Filled, Plain
<1> QED
  BY <1>1, <1>3, <1>4, <1>5, <1>6

(* What either program writes is read back as it is. *)
LEMMA LoadStored ==
    ASSUME NEW list \in Seq(Class)
    PROVE  Load(list) = list /\ list \in Seq(Entry)
<1>1. \A i \in DOMAIN list : list[i] # Blank
  BY ClassAssumption
<1>2. {i \in DOMAIN list : list[i] # Blank} = DOMAIN list
  BY <1>1, Zenon
<1>3. EntriesAt(list, DOMAIN list) = list
  BY EntriesAll
<1> QED
  BY <1>2, <1>3 DEF Load, Entry

(* The settings program takes no app twice from a file that names each once. *)
LEMMA ParseUnique ==
    ASSUME NEW ls \in Seq(Entry), Unique(Load(ls))
    PROVE  Unique(Parse(ls))
<1>1. /\ Load(ls) = EntriesAt(ls, Filled(ls))
      /\ Parse(ls) = EntriesAt(ls, Plain(ls))
      /\ Filled(ls) \in SUBSET (DOMAIN ls)
      /\ Plain(ls) \in SUBSET (DOMAIN ls)
      /\ \A i \in Plain(ls) : i \in Filled(ls)
  BY LoadIsSelection
<1>2. \A i, j \in Filled(ls) : Fold[ls[i]] = Fold[ls[j]] => i = j
  BY <1>1, SelectionUnique, Zenon
<1>3. \A i, j \in Plain(ls) : Fold[ls[i]] = Fold[ls[j]] => i = j
  BY <1>1, <1>2, Zenon
<1>4. Unique(EntriesAt(ls, Plain(ls)))
  BY <1>1, <1>3, SelectionUnique, Zenon
<1> QED
  BY <1>1, <1>4, Zenon

HiddenFolded == {Fold[c] : c \in Hidden}

(* And it misses those only that look like a comment. *)
LEMMA ParseMisses ==
    ASSUME NEW ls \in Seq(Entry)
    PROVE  Folded(Load(ls)) \ HiddenFolded \subseteq Folded(Parse(ls))
<1>1. Folded(Load(ls)) = {Fold[ls[i]] : i \in Filled(ls)}
  BY LoadIsSelection, SelectionFolded, Zenon
<1>2. Folded(Parse(ls)) = {Fold[ls[i]] : i \in Plain(ls)}
  BY LoadIsSelection, SelectionFolded, Zenon
<1>3. \A i \in Filled(ls) : i \in Plain(ls) \/ ls[i] \in Hidden
  BY Zenon DEF Filled, Plain
<1> QED
  BY <1>1, <1>2, <1>3, Zenon DEF HiddenFolded

-----------------------------------------------------------------------------
(* What pin, unpin and the edits do to a list. *)

LEMMA AppendUnique ==
    ASSUME NEW l \in Seq(Class), NEW c \in Class
    PROVE  /\ Append(l, c) \in Seq(Class)
           /\ Folded(Append(l, c)) = Folded(l) \cup {Fold[c]}
           /\ Unique(l) /\ Fold[c] \notin Folded(l) => Unique(Append(l, c))
<1> DEFINE r == Append(l, c)
           n == Len(l)
<1>1. /\ n \in Nat /\ DOMAIN l = 1..n
      /\ r \in Seq(Class) /\ DOMAIN r = 1..(n + 1)
      /\ \A k \in 1..n : r[k] = l[k]
      /\ r[n + 1] = c
  OBVIOUS
<1> HIDE DEF r, n
<1>2. \A k \in 1..(n + 1) : k \in 1..n \/ k = n + 1
  BY <1>1
<1>3. n + 1 \in 1..(n + 1) /\ \A k \in 1..n : k \in 1..(n + 1)
  BY <1>1
<1>4. Folded(r) = Folded(l) \cup {Fold[c]}
  <2>1. \A k \in DOMAIN r : Fold[r[k]] \in Folded(l) \cup {Fold[c]}
    BY <1>1, <1>2 DEF Folded
  <2>2. \A k \in DOMAIN l : Fold[l[k]] \in Folded(r)
    BY <1>1, <1>3 DEF Folded
  <2>3. Fold[c] \in Folded(r)
    BY <1>1, <1>3 DEF Folded
  <2> QED
    BY <2>1, <2>2, <2>3 DEF Folded
<1>5. Unique(l) /\ Fold[c] \notin Folded(l) => Unique(r)
  BY <1>1, <1>2 DEF Unique, Folded
<1> QED
  BY <1>1, <1>4, <1>5 DEF r

LEMMA RemoveAtUnique ==
    ASSUME NEW l \in Seq(Class), NEW i \in DOMAIN l
    PROVE  /\ RemoveAt(l, i) \in Seq(Class)
           /\ Folded(l) \ {Fold[l[i]]} \subseteq Folded(RemoveAt(l, i))
           /\ Unique(l) => /\ Unique(RemoveAt(l, i))
                           /\ Fold[l[i]] \notin Folded(RemoveAt(l, i))
<1> DEFINE r == RemoveAt(l, i)
           n == Len(l)
           from(k) == IF k < i THEN k ELSE k + 1
<1>1. n \in Nat /\ DOMAIN l = 1..n /\ i \in 1..n
  OBVIOUS
<1>2. /\ r \in Seq(Class) /\ Len(r) = n - 1
      /\ \A k \in 1..(n - 1) : r[k] = l[from(k)]
  BY RemoveAtEntries
<1>3. DOMAIN r = 1..(n - 1)
  BY <1>2
<1> HIDE DEF r, n
<1>4. \A k \in 1..(n - 1) : from(k) \in 1..n
  BY <1>1
<1>5. \A k, m \in 1..(n - 1) : from(k) = from(m) => k = m
  BY <1>1
<1>6. \A j \in 1..n : j # i => \E k \in 1..(n - 1) : from(k) = j
  <2> SUFFICES ASSUME NEW j \in 1..n, j # i
               PROVE  \E k \in 1..(n - 1) : from(k) = j
    OBVIOUS
  <2>1. CASE j < i
    BY <1>1, <2>1
  <2>2. CASE j > i
    <3>1. j - 1 \in 1..(n - 1) /\ from(j - 1) = j
      BY <1>1, <2>2
    <3> QED
      BY <3>1
  <2> QED
    BY <1>1, <2>1, <2>2
<1> HIDE DEF from
<1>7. Folded(l) \ {Fold[l[i]]} \subseteq Folded(r)
  <2> SUFFICES ASSUME NEW j \in 1..n, Fold[l[j]] # Fold[l[i]]
               PROVE  Fold[l[j]] \in Folded(r)
    BY <1>1 DEF Folded
  <2>1. j # i
    OBVIOUS
  <2>2. PICK k \in 1..(n - 1) : from(k) = j
    BY <1>6, <2>1
  <2>3. r[k] = l[j]
    BY <1>2, <2>2
  <2> QED
    BY <1>3, <2>3 DEF Folded
<1>8. ASSUME Unique(l)
      PROVE  Unique(r)
  <2> SUFFICES ASSUME NEW k \in 1..(n - 1), NEW j \in 1..(n - 1),
                      Fold[r[k]] = Fold[r[j]]
               PROVE  k = j
    BY <1>3, Zenon DEF Unique
  <2>1. from(k) \in DOMAIN l /\ from(j) \in DOMAIN l
    BY <1>1, <1>4, Zenon
  <2>2. Fold[l[from(k)]] = Fold[l[from(j)]]
    BY <1>2, Zenon
  <2>3. from(k) = from(j)
    BY <1>8, <2>1, <2>2, Zenon DEF Unique
  <2> QED
    BY <1>5, <2>3, Zenon
<1>9. ASSUME Unique(l), NEW k \in DOMAIN r
      PROVE  Fold[r[k]] # Fold[l[i]]
  <2>1. from(k) \in DOMAIN l /\ r[k] = l[from(k)]
    BY <1>1, <1>2, <1>3, <1>4, Zenon
  <2>2. from(k) # i
    BY <1>1, <1>3 DEF from
  <2> QED
    BY <1>9, <2>1, <2>2, Zenon DEF Unique
<1> QED
  BY <1>2, <1>7, <1>8, <1>9 DEF r, Folded

LEMMA InsertAtUnique ==
    ASSUME NEW l \in Seq(Class), NEW i \in 1..(Len(l) + 1), NEW c \in Class
    PROVE  /\ InsertAt(l, i, c) \in Seq(Class)
           /\ Folded(l) \cup {Fold[c]} \subseteq Folded(InsertAt(l, i, c))
           /\ Unique(l) /\ Fold[c] \notin Folded(l) => Unique(InsertAt(l, i, c))
<1> DEFINE r == InsertAt(l, i, c)
           n == Len(l)
<1>1. n \in Nat /\ DOMAIN l = 1..n /\ i \in 1..(n + 1)
  OBVIOUS
<1>2. /\ r \in Seq(Class) /\ Len(r) = n + 1
      /\ \A k \in 1..(n + 1) :
            r[k] = IF k < i THEN l[k] ELSE IF k = i THEN c ELSE l[k - 1]
  BY InsertAtEntries
<1>3. DOMAIN r = 1..(n + 1)
  BY <1>2
<1> HIDE DEF r, n
<1>4. ASSUME NEW j \in 1..n
      PROVE  \E k \in 1..(n + 1) : r[k] = l[j]
  <2>1. CASE j < i
    BY <1>1, <1>2, <2>1
  <2>2. CASE ~(j < i)
    <3>1. j + 1 \in 1..(n + 1) /\ ~(j + 1 < i) /\ j + 1 # i /\ (j + 1) - 1 = j
      BY <1>1, <2>2
    <3>2. r[j + 1] = l[j]
      BY <1>2, <3>1
    <3> QED
      BY <3>1, <3>2
  <2> QED
    BY <2>1, <2>2
<1>5. r[i] = c
  BY <1>1, <1>2
<1>6. Folded(l) \cup {Fold[c]} \subseteq Folded(r)
  <2>1. \A j \in 1..n : Fold[l[j]] \in Folded(r)
    BY <1>3, <1>4 DEF Folded
  <2>2. Fold[c] \in Folded(r)
    BY <1>1, <1>3, <1>5 DEF Folded
  <2> QED
    BY <1>1, <2>1, <2>2 DEF Folded
<1>7. ASSUME Unique(l), Fold[c] \notin Folded(l),
             NEW k \in 1..(n + 1), NEW j \in 1..(n + 1), k < j
      PROVE  Fold[r[k]] # Fold[r[j]]
  <2>1. \A m \in 1..n : Fold[l[m]] # Fold[c]
    BY <1>1, <1>7 DEF Folded
  <2>2. \A m, o \in 1..n : m # o => Fold[l[m]] # Fold[l[o]]
    BY <1>1, <1>7 DEF Unique
  <2>3. CASE k < i /\ j < i
    <3>1. k \in 1..n /\ j \in 1..n /\ k # j
      BY <1>1, <1>7, <2>3
    <3>2. r[k] = l[k] /\ r[j] = l[j]
      BY <1>2, <2>3
    <3> QED
      BY <2>2, <3>1, <3>2
  <2>4. CASE k < i /\ j = i
    BY <1>1, <1>2, <2>1, <2>4
  <2>5. CASE k < i /\ i < j
    <3>1. k \in 1..n /\ j - 1 \in 1..n /\ k # j - 1
      BY <1>1, <2>5
    <3>2. r[k] = l[k] /\ r[j] = l[j - 1]
      BY <1>1, <1>2, <2>5
    <3> QED
      BY <2>2, <3>1, <3>2
  <2>6. CASE k = i
    <3>1. j - 1 \in 1..n /\ r[j] = l[j - 1] /\ r[k] = c
      BY <1>1, <1>2, <1>7, <2>6
    <3> QED
      BY <2>1, <3>1
  <2>7. CASE i < k
    <3>1. k - 1 \in 1..n /\ j - 1 \in 1..n /\ k - 1 # j - 1
      BY <1>1, <1>7, <2>7
    <3>2. r[k] = l[k - 1] /\ r[j] = l[j - 1]
      BY <1>1, <1>2, <1>7, <2>7
    <3> QED
      BY <2>2, <3>1, <3>2
  <2> QED
    BY <1>1, <1>7, <2>3, <2>4, <2>5, <2>6, <2>7
<1>8. Unique(l) /\ Fold[c] \notin Folded(l) => Unique(r)
  <2> SUFFICES ASSUME Unique(l), Fold[c] \notin Folded(l),
                      NEW k \in 1..(n + 1), NEW j \in 1..(n + 1), k # j
               PROVE  Fold[r[k]] # Fold[r[j]]
    BY <1>3, Zenon DEF Unique
  <2>1. k < j \/ j < k
    BY <1>1
  <2> QED
    BY <1>7, <2>1
<1> QED
  BY <1>2, <1>6, <1>8 DEF r

(* An entry is taken out and put in elsewhere. *)
LEMMA MoveUnique ==
    ASSUME NEW l \in Seq(Class), NEW i \in DOMAIN l, NEW t \in DOMAIN l
    PROVE  /\ InsertAt(RemoveAt(l, i), t, l[i]) \in Seq(Class)
           /\ Folded(l) \subseteq Folded(InsertAt(RemoveAt(l, i), t, l[i]))
           /\ Unique(l) => Unique(InsertAt(RemoveAt(l, i), t, l[i]))
<1>1. PICK r \in Seq(Class) : r = RemoveAt(l, i)
  BY RemoveAtUnique
<1>2. Len(r) = Len(l) - 1
  BY <1>1, RemoveAtEntries
<1>3. PICK c \in Class : c = l[i]
  OBVIOUS
<1>4. t \in 1..(Len(r) + 1)
  BY <1>2
<1>5. /\ InsertAt(r, t, c) \in Seq(Class)
      /\ Folded(r) \cup {Fold[c]} \subseteq Folded(InsertAt(r, t, c))
      /\ Unique(r) /\ Fold[c] \notin Folded(r) => Unique(InsertAt(r, t, c))
  BY <1>4, InsertAtUnique, Zenon
<1>6. /\ Folded(l) \ {Fold[c]} \subseteq Folded(r)
      /\ Unique(l) => Unique(r) /\ Fold[c] \notin Folded(r)
  BY <1>1, <1>3, RemoveAtUnique, Zenon
<1> QED
  BY <1>1, <1>3, <1>5, <1>6, Zenon

-----------------------------------------------------------------------------
(* Types. *)

LEMMA InitType == Init => TypeOK
<1> SUFFICES ASSUME Init PROVE TypeOK
  OBVIOUS
<1>1. file \in Seq(Entry)
  BY FilesAssumption DEF Init, Entry
<1>2. Load(file) \in Seq(Class)
  BY <1>1, LoadIsSelection
<1>3. Folded(Load(file)) \subseteq {Fold[c] : c \in Class}
  BY <1>2 DEF Folded
<1>4. <<>> \in Seq(Class) /\ 0 \in 0..MaxOps
  BY OpsAssumption
<1> QED
  BY <1>1, <1>2, <1>3, <1>4 DEF Init, TypeOK, Entry

LEMMA BeginSaveType ==
    ASSUME TypeOK, BeginSave
    PROVE  /\ file' \in Seq(Class \cup {Blank})
           /\ saving' \in {"no", "truncated", "orphan"}
           /\ daemonKnows' \in BOOLEAN /\ guiKnows' \in BOOLEAN
           /\ mishap' \in BOOLEAN
<1>1. <<>> \in Seq(Class \cup {Blank})
  OBVIOUS
<1> QED
  BY <1>1 DEF BeginSave, TypeOK

LEMMA StepType == TypeOK /\ [Next]_vars => TypeOK'
<1> SUFFICES ASSUME TypeOK, [Next]_vars PROVE TypeOK'
  OBVIOUS
<1>0. file \in Seq(Entry) /\ pinned \in Seq(Class) /\ pinnedApps \in Seq(Class)
  BY DEF TypeOK, Entry
<1>1. ASSUME NEW c \in Class, state_pin(c) PROVE TypeOK'
  <2>1. pinned' \in Seq(Class)
    BY <1>0, <1>1, AppendUnique DEF state_pin
  <2>2. wanted' \subseteq {Fold[d] : d \in Class}
    BY <1>1 DEF state_pin, TypeOK
  <2>3. ops' \in 0..MaxOps
    BY <1>1, OpsAssumption DEF state_pin, Step, TypeOK
  <2>4. BeginSave
    BY <1>1 DEF state_pin
  <2> QED
    BY <1>1, <2>1, <2>2, <2>3, <2>4, BeginSaveType
    DEF state_pin, TypeOK, settings
<1>2. ASSUME NEW c \in Class, state_unpin(c) PROVE TypeOK'
  <2>1. pinned' \in Seq(Class)
    BY <1>0, <1>2, RemoveAtUnique DEF state_unpin
  <2>2. wanted' \subseteq {Fold[d] : d \in Class}
    BY <1>2 DEF state_unpin, TypeOK
  <2>3. ops' \in 0..MaxOps
    BY <1>2, OpsAssumption DEF state_unpin, Step, TypeOK
  <2>4. BeginSave
    BY <1>2 DEF state_unpin
  <2> QED
    BY <1>2, <2>1, <2>2, <2>3, <2>4, BeginSaveType
    DEF state_unpin, TypeOK, settings
<1>3. CASE EndSave
  <2>1. file' \in Seq(Entry)
    BY <1>0, <1>3, LoadStored DEF EndSave
  <2> QED
    BY <1>3, <2>1 DEF EndSave, TypeOK, settings, Entry
<1>4. CASE Stop
  BY <1>4 DEF Stop, TypeOK, settings
<1>5. CASE Start
  BY <1>0, <1>5, LoadIsSelection DEF Start, TypeOK, settings
<1>6. CASE Open
  <2>1. pinnedApps' \in Seq(Class)
    BY <1>0, <1>6, LoadIsSelection DEF Open
  <2>2. ops' \in 0..MaxOps
    BY <1>6, OpsAssumption DEF Open, Step, TypeOK
  <2> QED
    BY <1>6, <2>1, <2>2 DEF Open, TypeOK, daemon
<1>7. CASE Close
  <2>1. <<>> \in Seq(Class)
    OBVIOUS
  <2> QED
    BY <1>7, <2>1 DEF Close, TypeOK, daemon
<1>8. ASSUME NEW l \in Seq(Class), savePinned(l), ops' \in 0..MaxOps,
             wanted' \subseteq {Fold[d] : d \in Class}
      PROVE  TypeOK'
  <2>1. file' \in Seq(Entry)
    BY <1>8, LoadStored DEF savePinned
  <2> QED
    BY <1>8, <2>1 DEF savePinned, TypeOK, Entry
<1>9. Step => ops' \in 0..MaxOps
  BY OpsAssumption DEF Step, TypeOK
<1>10. CASE save
  BY <1>0, <1>8, <1>9, <1>10 DEF save, TypeOK
<1>11. ASSUME NEW i \in DOMAIN pinnedApps, NEW j \in DOMAIN pinnedApps,
              movePinned(i, j)
       PROVE  TypeOK'
  BY <1>0, <1>8, <1>9, <1>11, MoveUnique DEF movePinned, TypeOK
<1>12. ASSUME NEW i \in DOMAIN pinnedApps, removePinned(i)
       PROVE  TypeOK'
  <2>1. wanted' \subseteq {Fold[d] : d \in Class}
    BY <1>12 DEF removePinned, TypeOK
  <2> QED
    BY <1>0, <1>8, <1>9, <1>12, <2>1, RemoveAtUnique DEF removePinned
<1>13. CASE UNCHANGED vars
  BY <1>13 DEF vars, daemon, settings, history, TypeOK
<1> QED
  BY <1>1, <1>2, <1>3, <1>4, <1>5, <1>6, <1>7, <1>10, <1>11, <1>12, <1>13
  DEF Next

(* Every variable keeps its type: what the parsers take from any file is a  *)
(* list of classes, and so is what pins, unpins and edits make of it.      *)
THEOREM TypeCorrect == Spec => []TypeOK
  BY InitType, StepType, PTL DEF Spec

-----------------------------------------------------------------------------
(* No duplicates. *)

LEMMA StepUnique == TypeOK /\ NoDuplicates /\ [Next]_vars => NoDuplicates'
<1> SUFFICES ASSUME TypeOK, NoDuplicates, [Next]_vars PROVE NoDuplicates'
  OBVIOUS
<1>0. /\ file \in Seq(Entry) /\ pinned \in Seq(Class) /\ pinnedApps \in Seq(Class)
      /\ Unique(Load(file)) /\ Unique(pinned) /\ Unique(pinnedApps)
  BY DEF TypeOK, Entry, NoDuplicates
<1>1. Load(<<>>) = <<>> /\ Unique(<<>>)
  <2>1. <<>> \in Seq(Class)
    OBVIOUS
  <2>2. Load(<<>>) = <<>>
    BY <2>1, LoadStored, Zenon
  <2> QED
    BY <2>2 DEF Unique
<1>2. BeginSave => Unique(Load(file'))
  BY <1>0, <1>1 DEF BeginSave
<1>3. ASSUME NEW c \in Class, state_pin(c) PROVE NoDuplicates'
  <2>1. Unique(pinned')
    BY <1>0, <1>3, AppendUnique DEF state_pin, state_is_pinned
  <2> QED
    BY <1>0, <1>2, <1>3, <2>1 DEF state_pin, settings, NoDuplicates
<1>4. ASSUME NEW c \in Class, state_unpin(c) PROVE NoDuplicates'
  <2>1. Unique(pinned')
    BY <1>0, <1>4, RemoveAtUnique DEF state_unpin
  <2> QED
    BY <1>0, <1>2, <1>4, <2>1 DEF state_unpin, settings, NoDuplicates
<1>5. CASE EndSave
  <2>1. Unique(Load(file'))
    BY <1>0, <1>5, LoadStored DEF EndSave
  <2> QED
    BY <1>0, <1>5, <2>1 DEF EndSave, settings, NoDuplicates
<1>6. CASE Stop \/ Start
  BY <1>0, <1>6 DEF Stop, Start, settings, NoDuplicates
<1>7. CASE Open
  BY <1>0, <1>7, ParseUnique DEF Open, daemon, NoDuplicates
<1>8. CASE Close
  BY <1>0, <1>1, <1>8 DEF Close, daemon, NoDuplicates
<1>9. ASSUME NEW l \in Seq(Class), savePinned(l), Unique(l)
      PROVE  NoDuplicates'
  BY <1>0, <1>9, LoadStored DEF savePinned, NoDuplicates
<1>10. CASE save
  BY <1>0, <1>9, <1>10 DEF save
<1>11. ASSUME NEW i \in DOMAIN pinnedApps, NEW j \in DOMAIN pinnedApps,
              movePinned(i, j)
       PROVE  NoDuplicates'
  BY <1>0, <1>9, <1>11, MoveUnique DEF movePinned
<1>12. ASSUME NEW i \in DOMAIN pinnedApps, removePinned(i)
       PROVE  NoDuplicates'
  BY <1>0, <1>9, <1>12, RemoveAtUnique DEF removePinned
<1>13. CASE UNCHANGED vars
  BY <1>0, <1>13 DEF vars, daemon, settings, NoDuplicates
<1> QED
  BY <1>3, <1>4, <1>5, <1>6, <1>7, <1>8, <1>10, <1>11, <1>12, <1>13 DEF Next

(* From a file that names every app once, no list and no file ever names    *)
(* one twice in any spelling, whatever is pinned, edited, lost or reloaded. *)
THEOREM NothingTwice ==
    ASSUME \A f \in Files : Unique(Load(f))
    PROVE  Spec => []NoDuplicates
<1>1. Init => NoDuplicates
  BY DEF Init, NoDuplicates, Unique
<1> QED
  BY <1>1, StepUnique, TypeCorrect, PTL DEF Spec

-----------------------------------------------------------------------------
(* What is lost, and how. *)

(* The invariant behind PinsLostOnlyByMishap: without a mishap, what the    *)
(* user wants is in the list that a save under way will write; and a        *)
(* settings program that knows the file has every app of it but those that *)
(* look like a comment.                                                    *)
PinsInv ==
    /\ saving # "no" => up
    /\ ListIsStored
    /\ PinsLostOnlyByMishap
    /\ saving = "truncated" /\ daemonKnows /\ ~mishap =>
           wanted \ HiddenFolded \subseteq Folded(pinned)
    /\ guiKnows => Folded(Load(file)) \ HiddenFolded \subseteq Folded(pinnedApps)

LEMMA InitPins == Init => PinsInv
BY DEF Init, PinsInv, ListIsStored, PinsLostOnlyByMishap

(* A save that begins: the list holds what the user wants. *)
LEMMA BeginSavePins ==
    ASSUME TypeOK, PinsInv, BeginSave, up, UNCHANGED <<up, pinnedApps>>,
           daemonKnows /\ ~mishap =>
               wanted' \ HiddenFolded \subseteq Folded(pinned')
    PROVE  PinsInv'
<1>1. CASE /\ file' = <<>> /\ saving' = "truncated"
           /\ mishap' = (mishap \/ ~daemonKnows)
           /\ guiKnows' = FALSE /\ UNCHANGED daemonKnows
  BY <1>1 DEF PinsInv, ListIsStored, PinsLostOnlyByMishap
<1>2. CASE /\ mishap' = TRUE
           /\ UNCHANGED <<file, saving, daemonKnows, guiKnows>>
  BY <1>2 DEF PinsInv, ListIsStored, PinsLostOnlyByMishap
<1> QED
  BY <1>1, <1>2 DEF BeginSave

(* A save of the settings program, with the list l. *)
LEMMA SavePinnedPins ==
    ASSUME TypeOK, PinsInv, NEW l \in Seq(Class), savePinned(l),
           wanted' \subseteq wanted,
           Folded(pinnedApps) \cap wanted' \subseteq Folded(l)
    PROVE  PinsInv'
<1>1. Load(l) = l /\ file' = l /\ pinnedApps' = l /\ daemonKnows' = FALSE
  BY LoadStored DEF savePinned
<1>2. (saving' = "no" <=> saving = "no") /\ up' = up
  BY DEF savePinned
<1>3. ~mishap' => ~mishap /\ guiKnows
  BY DEF savePinned, TypeOK
<1>4. saving' = "no" /\ ~mishap' => wanted' \ HiddenFolded \subseteq Folded(l)
  <2> SUFFICES ASSUME saving = "no", ~mishap, guiKnows
               PROVE  wanted' \ HiddenFolded \subseteq Folded(l)
    BY <1>2, <1>3
  <2>1. wanted \ HiddenFolded \subseteq Folded(Load(file))
    BY DEF PinsInv, PinsLostOnlyByMishap, HiddenFolded
  <2>2. Folded(Load(file)) \ HiddenFolded \subseteq Folded(pinnedApps)
    BY DEF PinsInv
  <2> QED
    BY <2>1, <2>2
<1>5. ListIsStored'
  BY <1>1 DEF ListIsStored
<1>6. PinsLostOnlyByMishap'
  BY <1>1, <1>4 DEF PinsLostOnlyByMishap, HiddenFolded
<1>7. Folded(Load(file')) \ HiddenFolded \subseteq Folded(pinnedApps')
  BY <1>1
<1> QED
  BY <1>1, <1>2, <1>5, <1>6, <1>7 DEF PinsInv

LEMMA StepPins == TypeOK /\ PinsInv /\ [Next]_vars => PinsInv'
<1> SUFFICES ASSUME TypeOK, PinsInv, [Next]_vars PROVE PinsInv'
  OBVIOUS
<1>0. file \in Seq(Entry) /\ pinned \in Seq(Class) /\ pinnedApps \in Seq(Class)
  BY DEF TypeOK, Entry
<1>1. up /\ saving = "no" /\ daemonKnows /\ ~mishap =>
          wanted \ HiddenFolded \subseteq Folded(pinned)
  BY DEF PinsInv, ListIsStored, PinsLostOnlyByMishap, HiddenFolded
<1>2. ASSUME NEW c \in Class, state_pin(c) PROVE PinsInv'
  <2>1. Folded(pinned') = Folded(pinned) \cup {Fold[c]}
    BY <1>0, <1>2, AppendUnique DEF state_pin
  <2>2. up /\ saving = "no" /\ wanted' = wanted \cup {Fold[c]} /\ BeginSave
        /\ UNCHANGED <<up, pinnedApps>>
    BY <1>2 DEF state_pin, settings
  <2>3. daemonKnows /\ ~mishap =>
            wanted' \ HiddenFolded \subseteq Folded(pinned')
    BY <1>1, <2>1, <2>2
  <2> QED
    BY <2>2, <2>3, BeginSavePins
<1>3. ASSUME NEW c \in Class, state_unpin(c) PROVE PinsInv'
  <2>1. Folded(pinned) \ {Fold[c]} \subseteq Folded(pinned')
    BY <1>0, <1>3, RemoveAtUnique DEF state_unpin
  <2>2. up /\ saving = "no" /\ wanted' = wanted \ {Fold[c]} /\ BeginSave
        /\ UNCHANGED <<up, pinnedApps>>
    BY <1>3 DEF state_unpin, settings
  <2>3. daemonKnows /\ ~mishap =>
            wanted' \ HiddenFolded \subseteq Folded(pinned')
    BY <1>1, <2>1, <2>2
  <2> QED
    BY <2>2, <2>3, BeginSavePins
<1>4. CASE EndSave
  <2>1. CASE /\ saving = "truncated" /\ file' = pinned
             /\ mishap' = (mishap \/ ~daemonKnows)
             /\ daemonKnows' = TRUE /\ guiKnows' = FALSE
    <3>1. Load(file') = pinned'
      BY <1>0, <1>4, <2>1, LoadStored DEF EndSave
    <3>2. wanted' = wanted /\ pinned' = pinned /\ saving' = "no"
      BY <1>4 DEF EndSave
    <3>3. ~mishap' => wanted' \ HiddenFolded \subseteq Folded(Load(file'))
      BY <2>1, <3>1, <3>2 DEF PinsInv
    <3> QED
      BY <2>1, <3>1, <3>2, <3>3
      DEF PinsInv, ListIsStored, PinsLostOnlyByMishap, HiddenFolded
  <2>2. CASE saving = "orphan" /\ mishap' = TRUE
             /\ UNCHANGED <<file, daemonKnows, guiKnows>>
    BY <1>4, <2>2
    DEF EndSave, settings, PinsInv, ListIsStored, PinsLostOnlyByMishap
  <2> QED
    BY <1>4, <2>1, <2>2 DEF EndSave
<1>5. CASE Stop
  BY <1>5 DEF Stop, settings, PinsInv, ListIsStored, PinsLostOnlyByMishap, TypeOK
<1>6. CASE Start
  <2>1. saving = "no"
    BY <1>6 DEF Start, PinsInv
  <2> QED
    BY <1>6, <2>1 DEF Start, settings, PinsInv, ListIsStored, PinsLostOnlyByMishap
<1>7. CASE Open
  <2>1. Folded(Load(file')) \ HiddenFolded \subseteq Folded(pinnedApps')
    BY <1>0, <1>7, ParseMisses DEF Open
  <2> QED
    BY <1>7, <2>1
    DEF Open, daemon, PinsInv, ListIsStored, PinsLostOnlyByMishap
<1>8. CASE Close
  BY <1>8 DEF Close, daemon, PinsInv, ListIsStored, PinsLostOnlyByMishap
<1>9. CASE save
  BY <1>0, <1>9, SavePinnedPins DEF save
<1>10. ASSUME NEW i \in DOMAIN pinnedApps, NEW j \in DOMAIN pinnedApps,
              movePinned(i, j)
       PROVE  PinsInv'
  BY <1>0, <1>10, MoveUnique, SavePinnedPins DEF movePinned
<1>11. ASSUME NEW i \in DOMAIN pinnedApps, removePinned(i)
       PROVE  PinsInv'
  BY <1>0, <1>11, RemoveAtUnique, SavePinnedPins DEF removePinned
<1>12. CASE UNCHANGED vars
  BY <1>12
  DEF vars, daemon, settings, history, PinsInv, ListIsStored, PinsLostOnlyByMishap
<1> QED
  BY <1>2, <1>3, <1>4, <1>5, <1>6, <1>7, <1>8, <1>9, <1>10, <1>11, <1>12 DEF Next

(* What the daemon shows is what a restart would load, unless the settings  *)
(* program wrote the file in between or a save failed.                     *)
THEOREM RestartShowsTheSame == Spec => []ListIsStored
<1>1. PinsInv => ListIsStored
  BY DEF PinsInv
<1> QED
  BY <1>1, InitPins, StepPins, TypeCorrect, PTL DEF Spec

(* A pin is lost only by a failed save, a crash in a save, or a writer that *)
(* had not read the file it overwrote; or because it looks like a comment.  *)
THEOREM PinsAreKept == Spec => []PinsLostOnlyByMishap
<1>1. PinsInv => PinsLostOnlyByMishap
  BY DEF PinsInv
<1> QED
  BY <1>1, InitPins, StepPins, TypeCorrect, PTL DEF Spec

-----------------------------------------------------------------------------
(* config.ini. *)

(* Two functions that start alike and go on alike end alike. *)
LEMMA AlikeToTheEnd ==
    ASSUME NEW N \in Nat, NEW f, NEW h, f[0] = h[0],
           \A n \in 1..N : f[n - 1] = h[n - 1] => f[n] = h[n]
    PROVE  f[N] = h[N]
<1> DEFINE T == {n \in 0..N : f[n] # h[n]}
<1> SUFFICES ASSUME f[N] # h[N] PROVE FALSE
  OBVIOUS
<1>1. T \subseteq Nat /\ T # {}
  OBVIOUS
<1>2. PICK n \in T : \A m \in T : n <= m
  <2> HIDE DEF T
  <2> QED
    BY <1>1, LeastNat
<1>3. n \in 1..N /\ n - 1 \in 0..N /\ ~(n <= n - 1)
  BY <1>1
<1>4. f[n - 1] = h[n - 1]
  BY <1>2, <1>3
<1> QED
  BY <1>3, <1>4

(* The types of the lines: what a line makes of a configuration or of the   *)
(* fields of the settings program is one.                                  *)
LEMMA ApplyType ==
    ASSUME NEW c \in Configs, NEW l \in Lines
    PROVE  config_apply_ini_key(c, l) \in Configs
<1>1. /\ l.key \in Keys /\ l.val.word \in Text /\ l.val.num \in Int
      /\ c.exclusive_zone \in Int
  BY DEF Configs, Lines
<1>2. ApplyZone(c.exclusive_zone, l.val) \in Int
  BY <1>1 DEF ApplyZone
<1>3. ApplyZoneValue(c.exclusive_zone, l.val) \in Int
  BY <1>1 DEF ApplyZoneValue
<1> QED
  BY <1>1, <1>2, <1>3 DEF Configs, config_apply_ini_key, Keys

LEMMA ParseLineType ==
    ASSUME NEW s \in Stores, NEW l \in Lines
    PROVE  ParseLine(s, l) \in Stores
<1>1. l.key \in Keys /\ l.val.word \in Text /\ l.val.num \in Int
  BY DEF Lines
<1>2. ParseZone(s, l.val) \in Stores
  <2>1. \A b \in BOOLEAN, v \in Int :
           /\ [s EXCEPT !.exclusiveZone = b] \in Stores
           /\ [s EXCEPT !.exclusiveZone = b, !.exclusiveZoneValue = v] \in Stores
    BY DEF Stores
  <2> DEFINE v == l.val
             b == v.num > 0
  <2>2. v.num \in Int /\ b \in BOOLEAN
    BY <1>1
  <2>3. \/ ParseZone(s, v) = [s EXCEPT !.exclusiveZone = TRUE]
        \/ ParseZone(s, v) = [s EXCEPT !.exclusiveZone = FALSE]
        \/ ParseZone(s, v) =
               [s EXCEPT !.exclusiveZone = TRUE, !.exclusiveZoneValue = 0]
        \/ ParseZone(s, v) =
               [s EXCEPT !.exclusiveZone = b, !.exclusiveZoneValue = v.num]
    BY DEF ParseZone
  <2> HIDE DEF Stores, b, v
  <2>4. TRUE \in BOOLEAN /\ FALSE \in BOOLEAN /\ 0 \in Int
    OBVIOUS
  <2>5. ParseZone(s, v) \in Stores
    BY <2>1, <2>2, <2>3, <2>4, Zenon
  <2> QED
    BY <2>5 DEF v
<1>3. \A d \in Int : ParseInt(l.val, d) \in Int
  BY <1>1 DEF ParseInt
<1> QED
  BY <1>1, <1>2, <1>3 DEF Stores, ParseLine, Keys

LEMMA DefaultsType ==
    config_set_defaults \in Configs /\ StoreDefaults \in Stores
BY TextAssumption
DEF Configs, Stores, Layers, config_set_defaults,
       StoreDefaults

(* The functions the two readers are defined by go through the lines. *)
LEMMA LoadIs ==
    ASSUME NEW ls \in Seq(Lines)
    PROVE  \E f : /\ f[0] = config_set_defaults
                  /\ \A n \in 1..Len(ls) :
                        f[n] = config_apply_ini_key(f[n - 1], ls[n])
                  /\ \A n \in 0..Len(ls) : f[n] \in Configs
                  /\ config_load_ini(ls) = f[Len(ls)]
<1> DEFINE N == Len(ls)
           d == config_set_defaults
           Up(h, n) == config_apply_ini_key(h, ls[n])
           Is(f) == f = [n \in 0..N |-> IF n = 0 THEN d ELSE Up(f[n - 1], n)]
           g == [p \in Configs \X (1..N) |-> Up(p[1], p[2])]
           f == CHOOSE f : Is(f)
<1>0. N \in Nat /\ \A n \in 1..N : ls[n] \in Lines
  OBVIOUS
<1>1. d \in Configs /\ \A h \in Configs, n \in 1..N : Up(h, n) \in Configs
  BY <1>0, ApplyType, DefaultsType
<1>2. config_load_ini(ls) = f[N]
  BY Zenon DEF config_load_ini
<1> HIDE DEF N, Up, d
<1>3. g \in [Configs \X (1..N) -> Configs]
  BY <1>1
<1>4. \A h \in Configs, n \in 1..N : g[<<h, n>>] = Up(h, n)
  OBVIOUS
<1> HIDE DEF g
<1>5. PICK h : Iterates(h, g, d, N, Configs)
  BY <1>0, <1>1, <1>3, Iterate
<1>6. h \in [0..N -> Configs] /\ h[0] = d /\ \A n \in 1..N : h[n] = g[<<h[n - 1], n>>]
  BY <1>5 DEF Iterates
<1>7. \A n \in 1..N : n - 1 \in 0..N /\ n \in 0..N
  BY <1>0
<1>8. \A n \in 1..N : h[n] = Up(h[n - 1], n)
  BY <1>4, <1>6, <1>7
<1>9. Is(h)
  <2>1. \A n \in 0..N : h[n] = IF n = 0 THEN d ELSE Up(h[n - 1], n)
    <3>1. \A n \in 0..N : n # 0 => n \in 1..N
      BY <1>0
    <3> QED
      BY <1>6, <1>8, <3>1
  <2> QED
    BY <1>6, <2>1
<1>10. Is(f)
  BY <1>9
<1> HIDE DEF f
<1>11. f[0] = d /\ \A n \in 1..N : f[n] = Up(f[n - 1], n)
  <2>1. \A n \in 0..N : f[n] = IF n = 0 THEN d ELSE Up(f[n - 1], n)
    BY <1>10, Zenon
  <2> QED
    BY <1>0, <1>7, <2>1
<1>12. ASSUME NEW n \in 0..N
       PROVE  f[n] = h[n]
  <2>1. n \in Nat /\ \A m \in 1..n : m \in 1..N
    BY <1>0
  <2>2. \A m \in 1..n : f[m - 1] = h[m - 1] => f[m] = h[m]
    BY <1>8, <1>11, <2>1
  <2>3. f[0] = h[0]
    BY <1>6, <1>11
  <2>4. \A m \in 1..n : h[m - 1] = f[m - 1] => h[m] = f[m]
    BY <2>2
  <2> QED
    BY <2>1, <2>3, <2>2, AlikeToTheEnd, Zenon
<1>13. \A n \in 0..N : f[n] \in Configs
  BY <1>6, <1>12
<1> QED
  BY <1>2, <1>11, <1>13 DEF N, Up, d

LEMMA ParseIs ==
    ASSUME NEW ls \in Seq(Lines)
    PROVE  \E f : /\ f[0] = StoreDefaults
                  /\ \A n \in 1..Len(ls) :
                        f[n] = ParseLine(f[n - 1], ls[n])
                  /\ \A n \in 0..Len(ls) : f[n] \in Stores
                  /\ _parseIni(ls) = f[Len(ls)]
<1> DEFINE N == Len(ls)
           d == StoreDefaults
           Up(h, n) == ParseLine(h, ls[n])
           Is(f) == f = [n \in 0..N |-> IF n = 0 THEN d ELSE Up(f[n - 1], n)]
           g == [p \in Stores \X (1..N) |-> Up(p[1], p[2])]
           f == CHOOSE f : Is(f)
<1>0. N \in Nat /\ \A n \in 1..N : ls[n] \in Lines
  OBVIOUS
<1>1. d \in Stores /\ \A h \in Stores, n \in 1..N : Up(h, n) \in Stores
  BY <1>0, ParseLineType, DefaultsType
<1>2. _parseIni(ls) = f[N]
  BY Zenon DEF _parseIni
<1> HIDE DEF N, Up, d
<1>3. g \in [Stores \X (1..N) -> Stores]
  BY <1>1
<1>4. \A h \in Stores, n \in 1..N : g[<<h, n>>] = Up(h, n)
  OBVIOUS
<1> HIDE DEF g
<1>5. PICK h : Iterates(h, g, d, N, Stores)
  BY <1>0, <1>1, <1>3, Iterate
<1>6. h \in [0..N -> Stores] /\ h[0] = d /\ \A n \in 1..N : h[n] = g[<<h[n - 1], n>>]
  BY <1>5 DEF Iterates
<1>7. \A n \in 1..N : n - 1 \in 0..N /\ n \in 0..N
  BY <1>0
<1>8. \A n \in 1..N : h[n] = Up(h[n - 1], n)
  BY <1>4, <1>6, <1>7
<1>9. Is(h)
  <2>1. \A n \in 0..N : h[n] = IF n = 0 THEN d ELSE Up(h[n - 1], n)
    <3>1. \A n \in 0..N : n # 0 => n \in 1..N
      BY <1>0
    <3> QED
      BY <1>6, <1>8, <3>1
  <2> QED
    BY <1>6, <2>1
<1>10. Is(f)
  BY <1>9
<1> HIDE DEF f
<1>11. f[0] = d /\ \A n \in 1..N : f[n] = Up(f[n - 1], n)
  <2>1. \A n \in 0..N : f[n] = IF n = 0 THEN d ELSE Up(f[n - 1], n)
    BY <1>10, Zenon
  <2> QED
    BY <1>0, <1>7, <2>1
<1>12. ASSUME NEW n \in 0..N
       PROVE  f[n] = h[n]
  <2>1. n \in Nat /\ \A m \in 1..n : m \in 1..N
    BY <1>0
  <2>2. \A m \in 1..n : f[m - 1] = h[m - 1] => f[m] = h[m]
    BY <1>8, <1>11, <2>1
  <2>3. f[0] = h[0]
    BY <1>6, <1>11
  <2>4. \A m \in 1..n : h[m - 1] = f[m - 1] => h[m] = f[m]
    BY <2>2
  <2> QED
    BY <2>1, <2>3, <2>2, AlikeToTheEnd, Zenon
<1>13. \A n \in 0..N : f[n] \in Stores
  BY <1>6, <1>12
<1> QED
  BY <1>2, <1>11, <1>13 DEF N, Up, d

(* One line more at the end is applied last. *)
LEMMA LoadAppend ==
    ASSUME NEW ls \in Seq(Lines), NEW l \in Lines
    PROVE  /\ ls \o <<l>> \in Seq(Lines)
           /\ config_load_ini(ls) \in Configs
           /\ config_load_ini(ls \o <<l>>) =
                 config_apply_ini_key(config_load_ini(ls), l)
<1> DEFINE N == Len(ls)
           ms == ls \o <<l>>
<1>1. /\ N \in Nat /\ ms \in Seq(Lines) /\ Len(ms) = N + 1 /\ ms[N + 1] = l
      /\ \A n \in 1..N : ms[n] = ls[n]
  OBVIOUS
<1> HIDE DEF ms
<1>2. PICK f : /\ f[0] = config_set_defaults
               /\ \A n \in 1..N : f[n] = config_apply_ini_key(f[n - 1], ls[n])
               /\ \A n \in 0..N : f[n] \in Configs
               /\ config_load_ini(ls) = f[N]
  BY LoadIs
<1>3. PICK h : /\ h[0] = config_set_defaults
               /\ \A n \in 1..(N + 1) : h[n] = config_apply_ini_key(h[n - 1], ms[n])
               /\ config_load_ini(ms) = h[N + 1]
  <2>1. PICK h : /\ h[0] = config_set_defaults
                 /\ \A n \in 1..Len(ms) :
                       h[n] = config_apply_ini_key(h[n - 1], ms[n])
                 /\ config_load_ini(ms) = h[Len(ms)]
    BY <1>1, LoadIs, Zenon
  <2> QED
    BY <1>1, <2>1
<1> HIDE DEF N
<1>4. f[N] = h[N]
  <2>1. \A n \in 1..N : f[n - 1] = h[n - 1] => f[n] = h[n]
    <3>1. \A n \in 1..N : n \in 1..(N + 1)
      BY <1>1
    <3> QED
      BY <1>1, <1>2, <1>3, <3>1, Zenon
  <2>2. f[0] = h[0]
    BY <1>2, <1>3
  <2> QED
    BY <1>1, <2>1, <2>2, AlikeToTheEnd, Zenon
<1>5. h[N + 1] = config_apply_ini_key(h[N], l)
  BY <1>1, <1>3
<1>6. f[N] \in Configs
  BY <1>1, <1>2
<1> QED
  BY <1>1, <1>2, <1>3, <1>4, <1>5, <1>6 DEF ms

LEMMA ParseAppend ==
    ASSUME NEW ls \in Seq(Lines), NEW l \in Lines
    PROVE  /\ ls \o <<l>> \in Seq(Lines)
           /\ _parseIni(ls) \in Stores
           /\ _parseIni(ls \o <<l>>) =
                 ParseLine(_parseIni(ls), l)
<1> DEFINE N == Len(ls)
           ms == ls \o <<l>>
<1>1. /\ N \in Nat /\ ms \in Seq(Lines) /\ Len(ms) = N + 1 /\ ms[N + 1] = l
      /\ \A n \in 1..N : ms[n] = ls[n]
  OBVIOUS
<1> HIDE DEF ms
<1>2. PICK f : /\ f[0] = StoreDefaults
               /\ \A n \in 1..N : f[n] = ParseLine(f[n - 1], ls[n])
               /\ \A n \in 0..N : f[n] \in Stores
               /\ _parseIni(ls) = f[N]
  BY ParseIs
<1>3. PICK h : /\ h[0] = StoreDefaults
               /\ \A n \in 1..(N + 1) : h[n] = ParseLine(h[n - 1], ms[n])
               /\ _parseIni(ms) = h[N + 1]
  <2>1. PICK h : /\ h[0] = StoreDefaults
                 /\ \A n \in 1..Len(ms) :
                       h[n] = ParseLine(h[n - 1], ms[n])
                 /\ _parseIni(ms) = h[Len(ms)]
    BY <1>1, ParseIs, Zenon
  <2> QED
    BY <1>1, <2>1
<1> HIDE DEF N
<1>4. f[N] = h[N]
  <2>1. \A n \in 1..N : f[n - 1] = h[n - 1] => f[n] = h[n]
    <3>1. \A n \in 1..N : n \in 1..(N + 1)
      BY <1>1
    <3> QED
      BY <1>1, <1>2, <1>3, <3>1, Zenon
  <2>2. f[0] = h[0]
    BY <1>2, <1>3
  <2> QED
    BY <1>1, <2>1, <2>2, AlikeToTheEnd, Zenon
<1>5. h[N + 1] = ParseLine(h[N], l)
  BY <1>1, <1>3
<1>6. f[N] \in Stores
  BY <1>1, <1>2
<1> QED
  BY <1>1, <1>2, <1>3, <1>4, <1>5, <1>6 DEF ms

LEMMA EmptyFile ==
    /\ <<>> \in Seq(Lines)
           /\ config_load_ini(<<>>) = config_set_defaults
           /\ _parseIni(<<>>) = StoreDefaults
<1> DEFINE e == <<>>
<1>1. e \in Seq(Lines) /\ Len(e) = 0
  OBVIOUS
<1> HIDE DEF e
<1>2. /\ config_load_ini(e) = config_set_defaults
      /\ _parseIni(e) = StoreDefaults
  BY <1>1, LoadIs, ParseIs
<1> QED
  BY <1>1, <1>2 DEF e

(* What the lines of generateIni do to what is read so far. *)
LEMMA ApplyLine ==
    ASSUME NEW c \in Configs
    PROVE  /\ \A w \in Text :
                 config_apply_ini_key(c, Line("Layer", Word(w))) =
                 [c EXCEPT !.layer = w]
           /\ \A b \in BOOLEAN :
                 config_apply_ini_key(c, Line("ExclusiveZone", Bool(b))) =
                 [c EXCEPT !.exclusive_zone =
                     IF b THEN IF @ = 0 THEN -1 ELSE @ ELSE 0]
           /\ \A n \in Int :
                 config_apply_ini_key(c, Line("ExclusiveZoneValue", Num(n))) =
                 [c EXCEPT !.exclusive_zone =
                     IF @ = 0 THEN 0 ELSE IF n <= 0 THEN -1 ELSE n]
           /\ \A n \in Int :
                 config_apply_ini_key(c, Line("HotspotDelay", Num(n))) =
                 [c EXCEPT !.hotspot_delay = n]
           /\ \A w \in Text :
                 config_apply_ini_key(c, Line("Background", Word(w))) =
                 [c EXCEPT !.theme_bg = w]
           /\ \A n \in Int :
                 config_apply_ini_key(c, Line("BorderWidth", Num(n))) =
                 [c EXCEPT !.theme_border_width = n]
<1> USE DEF config_apply_ini_key, Line
<1>1. \A b \in BOOLEAN :
         ApplyZone(c.exclusive_zone, Bool(b)) =
         IF b THEN IF c.exclusive_zone = 0 THEN -1 ELSE c.exclusive_zone ELSE 0
  <2> TAKE b \in BOOLEAN
  <2>1. CASE b
    BY <2>1 DEF ApplyZone, IsTrue, Bool, Word
  <2>2. CASE ~b
    BY <2>2 DEF ApplyZone, IsTrue, Bool, Word, Num
  <2> QED
    BY <2>1, <2>2
<1>2. \A n \in Int :
         ApplyZoneValue(c.exclusive_zone, Num(n)) =
         IF c.exclusive_zone = 0 THEN 0 ELSE IF n <= 0 THEN -1 ELSE n
  BY DEF ApplyZoneValue, Num
<1>3. \A n : Num(n).num = n /\ Word(n).word = n
  BY DEF Num, Word
<1>4. \A w \in Text :
         config_apply_ini_key(c, Line("Layer", Word(w))) =
         [c EXCEPT !.layer = w]
  BY <1>3
<1>5. \A b \in BOOLEAN :
         config_apply_ini_key(c, Line("ExclusiveZone", Bool(b))) =
         [c EXCEPT !.exclusive_zone = IF b THEN IF @ = 0 THEN -1 ELSE @ ELSE 0]
  BY <1>1
<1>6. \A n \in Int :
         config_apply_ini_key(c, Line("ExclusiveZoneValue", Num(n))) =
         [c EXCEPT !.exclusive_zone =
             IF @ = 0 THEN 0 ELSE IF n <= 0 THEN -1 ELSE n]
  BY <1>2
<1>7. \A n \in Int :
         config_apply_ini_key(c, Line("HotspotDelay", Num(n))) =
         [c EXCEPT !.hotspot_delay = n]
  BY <1>3
<1>8. \A w \in Text :
         config_apply_ini_key(c, Line("Background", Word(w))) =
         [c EXCEPT !.theme_bg = w]
  BY <1>3
<1>9. \A n \in Int :
         config_apply_ini_key(c, Line("BorderWidth", Num(n))) =
         [c EXCEPT !.theme_border_width = n]
  BY <1>3
<1> QED
  BY <1>4, <1>5, <1>6, <1>7, <1>8, <1>9, Zenon

LEMMA ParseOneLine ==
    ASSUME NEW s \in Stores
    PROVE  /\ \A w \in Text :
                 ParseLine(s, Line("Layer", Word(w))) =
                 [s EXCEPT !.layer = w]
           /\ \A b \in BOOLEAN :
                 ParseLine(s, Line("ExclusiveZone", Bool(b))) =
                 [s EXCEPT !.exclusiveZone = b]
           /\ \A n \in Int :
                 ParseLine(s, Line("ExclusiveZoneValue", Num(n))) =
                 [s EXCEPT !.exclusiveZoneValue = n]
           /\ \A n \in Int :
                 ParseLine(s, Line("HotspotDelay", Num(n))) =
                 [s EXCEPT !.hotspotDelay = IF n = 0 THEN 300 ELSE n]
           /\ \A w \in Text :
                 ParseLine(s, Line("Background", Word(w))) =
                 [s EXCEPT !.themeBg = w]
           /\ \A n \in Int :
                 ParseLine(s, Line("BorderWidth", Num(n))) =
                 [s EXCEPT !.themeBorderWidth = IF n = 0 THEN 1 ELSE n]
<1> USE DEF ParseLine, Line
<1>1. \A b \in BOOLEAN :
         ParseZone(s, Bool(b)) = [s EXCEPT !.exclusiveZone = b]
  <2> TAKE b \in BOOLEAN
  <2>1. CASE b = TRUE
    BY <2>1 DEF ParseZone, IsTrue, Bool, Word, Num
  <2>2. CASE b = FALSE
    BY <2>2 DEF ParseZone, IsTrue, Bool, Word, Num
  <2> QED
    BY <2>1, <2>2
<1>2. \A n \in Int :
         /\ ParseInt(Num(n), 0) = n
         /\ ParseInt(Num(n), 300) = IF n = 0 THEN 300 ELSE n
         /\ ParseInt(Num(n), 1) = IF n = 0 THEN 1 ELSE n
  BY DEF ParseInt, Num
<1>3. \A w : Word(w).word = w
  BY DEF Word
<1>4. /\ \A w \in Text :
            ParseLine(s, Line("Layer", Word(w))) = [s EXCEPT !.layer = w]
      /\ \A w \in Text :
            ParseLine(s, Line("Background", Word(w))) =
            [s EXCEPT !.themeBg = w]
  BY <1>3
<1>5. \A b \in BOOLEAN :
         ParseLine(s, Line("ExclusiveZone", Bool(b))) =
         [s EXCEPT !.exclusiveZone = b]
  BY <1>1
<1>6. \A n \in Int :
         ParseLine(s, Line("ExclusiveZoneValue", Num(n))) =
         [s EXCEPT !.exclusiveZoneValue = n]
  BY <1>2
<1>7. \A n \in Int :
         ParseLine(s, Line("HotspotDelay", Num(n))) =
         [s EXCEPT !.hotspotDelay = IF n = 0 THEN 300 ELSE n]
  BY <1>2
<1>8. \A n \in Int :
         ParseLine(s, Line("BorderWidth", Num(n))) =
         [s EXCEPT !.themeBorderWidth = IF n = 0 THEN 1 ELSE n]
  BY <1>2
<1> QED
  BY <1>4, <1>5, <1>6, <1>7, <1>8, Zenon

LEMMA LineType ==
    ASSUME NEW w \in Text, NEW n \in Int, NEW b \in BOOLEAN,
           NEW k \in Keys
    PROVE  /\ Line(k, Word(w)) \in Lines
           /\ Line(k, Num(n)) \in Lines
           /\ Line(k, Bool(b)) \in Lines
<1>1. "true" \in Text /\ "false" \in Text /\ "number" \in Text
  BY TextAssumption DEF Layers
<1>2. \A t \in Text : Line(k, Word(t)) \in Lines
  BY DEF Line, Word, Lines
<1>3. Line(k, Num(n)) \in Lines
  BY <1>1 DEF Line, Num, Lines
<1>4. Bool(b) = Word("true") \/ Bool(b) = Word("false")
  BY DEF Bool
<1> QED
  BY <1>1, <1>2, <1>3, <1>4, Zenon

(* The file that the settings program writes, line by line: what the daemon *)
(* and the settings program have read when the line has been read.         *)
LEMMA GeneratedFile ==
    ASSUME NEW s \in Stores
    PROVE  /\ generateIni(s) \in Seq(Lines)
           /\ Reads(s, config_parse(generateIni(s)))
           /\ ReadsBack(s, _parseIni(generateIni(s)))
<1> DEFINE LS == Seq(Lines)
           Read(x) == config_load_ini(x)
           Back(x) == _parseIni(x)
           E == <<>>
           l1 == Line("Layer", Word(s.layer))
           l2 == Line("ExclusiveZone", Bool(s.exclusiveZone))
           l3 == Line("ExclusiveZoneValue", Num(s.exclusiveZoneValue))
           l4 == Line("HotspotDelay", Num(s.hotspotDelay))
           l5 == Line("Background", Word(s.themeBg))
           l6 == Line("BorderWidth", Num(s.themeBorderWidth))
           f1 == E \o <<l1>>
           f2 == f1 \o <<l2>>
           f3 == IF s.exclusiveZone THEN f2 \o <<l3>> ELSE f2
           f4 == f3 \o <<l4>>
           f5 == IF s.themeBg # Unset THEN f4 \o <<l5>> ELSE f4
           f6 == IF s.themeBorderWidth >= 0 THEN f5 \o <<l6>> ELSE f5
           c0 == config_set_defaults
           r0 == StoreDefaults
<1>1. /\ s.layer \in Text /\ s.themeBg \in Text /\ s.exclusiveZone \in BOOLEAN
      /\ s.exclusiveZoneValue \in Int /\ s.hotspotDelay \in Int
      /\ s.themeBorderWidth \in Int
  BY DEF Stores
<1>2. l1 \in Lines /\ l2 \in Lines /\ l3 \in Lines /\ l4 \in Lines
      /\ l5 \in Lines /\ l6 \in Lines
  BY <1>1, LineType DEF Keys
<1>3. E \in LS /\ Read(E) = c0 /\ Back(E) = r0
  BY EmptyFile
<1>4. \A x \in LS, l \in Lines :
         /\ x \o <<l>> \in LS
         /\ Read(x) \in Configs /\ Back(x) \in Stores
         /\ Read(x \o <<l>>) = config_apply_ini_key(Read(x), l)
         /\ Back(x \o <<l>>) = ParseLine(Back(x), l)
  BY LoadAppend, ParseAppend
<1>5. \A x \in LS : Read(x) \in Configs /\ Back(x) \in Stores
  BY <1>2, <1>4
<1>6. generateIni(s) = f6
  <2>1. /\ <<l1, l2>> \in LS /\ <<l1, l2>> = f2
        /\ \A x \in LS : x \o <<>> = x
    BY <1>2
  <2> DEFINE e3 == IF s.exclusiveZone THEN <<l3>> ELSE <<>>
             e5 == IF s.themeBg # Unset THEN <<l5>> ELSE <<>>
             e6 == IF s.themeBorderWidth >= 0 THEN <<l6>> ELSE <<>>
  <2>2. generateIni(s) = <<l1, l2>> \o e3 \o <<l4>> \o e5 \o e6
    BY Zenon DEF generateIni
  <2> HIDE DEF LS, l1, l2, l3, l4, l5, l6, f2
  <2>3. f2 \o e3 = f3 /\ f3 \in LS
    BY <1>2, <1>4, <2>1, Zenon
  <2> HIDE DEF f3, e3
  <2>4. f4 \in LS /\ f4 \o e5 = f5 /\ f5 \in LS
    BY <1>2, <1>4, <2>1, <2>3, Zenon
  <2> HIDE DEF f4, f5, e5
  <2>5. f5 \o e6 = f6
    BY <2>1, <2>4, Zenon
  <2> HIDE DEF f6, e6
  <2>6. f3 \o <<l4>> = f4
    BY DEF f4
  <2> QED
    BY <2>1, <2>2, <2>3, <2>4, <2>5, <2>6, Zenon
<1> HIDE DEF LS, Read, Back, E, l1, l2, l3, l4, l5, l6
<1>7. f1 \in LS /\ f2 \in LS /\ f3 \in LS /\ f4 \in LS /\ f5 \in LS /\ f6 \in LS
  <2>1. f1 \in LS
    BY <1>2, <1>3, <1>4, Zenon
  <2> HIDE DEF f1
  <2>2. f2 \in LS
    BY <1>2, <1>4, <2>1, Zenon
  <2> HIDE DEF f2
  <2>3. f3 \in LS
    BY <1>2, <1>4, <2>2, Zenon
  <2> HIDE DEF f3
  <2>4. f4 \in LS
    BY <1>2, <1>4, <2>3, Zenon
  <2> HIDE DEF f4
  <2>5. f5 \in LS
    BY <1>2, <1>4, <2>4, Zenon
  <2> HIDE DEF f5
  <2>6. f6 \in LS
    BY <1>2, <1>4, <2>5, Zenon
  <2> QED
    BY <2>1, <2>2, <2>3, <2>4, <2>5, <2>6
<1>8. \A c \in Configs, r \in Stores :
         /\ config_apply_ini_key(c, l1) = [c EXCEPT !.layer = s.layer]
         /\ config_apply_ini_key(c, l2) =
               [c EXCEPT !.exclusive_zone =
                   IF s.exclusiveZone THEN IF @ = 0 THEN -1 ELSE @ ELSE 0]
         /\ config_apply_ini_key(c, l3) =
               [c EXCEPT !.exclusive_zone =
                   IF @ = 0 THEN 0
                   ELSE IF s.exclusiveZoneValue <= 0 THEN -1
                   ELSE s.exclusiveZoneValue]
         /\ config_apply_ini_key(c, l4) = [c EXCEPT !.hotspot_delay = s.hotspotDelay]
         /\ config_apply_ini_key(c, l5) = [c EXCEPT !.theme_bg = s.themeBg]
         /\ config_apply_ini_key(c, l6) =
               [c EXCEPT !.theme_border_width = s.themeBorderWidth]
         /\ ParseLine(r, l1) = [r EXCEPT !.layer = s.layer]
         /\ ParseLine(r, l2) = [r EXCEPT !.exclusiveZone = s.exclusiveZone]
         /\ ParseLine(r, l3) =
               [r EXCEPT !.exclusiveZoneValue = s.exclusiveZoneValue]
         /\ ParseLine(r, l4) =
               [r EXCEPT !.hotspotDelay =
                   IF s.hotspotDelay = 0 THEN 300 ELSE s.hotspotDelay]
         /\ ParseLine(r, l5) = [r EXCEPT !.themeBg = s.themeBg]
         /\ ParseLine(r, l6) =
               [r EXCEPT !.themeBorderWidth =
                   IF s.themeBorderWidth = 0 THEN 1 ELSE s.themeBorderWidth]
  <2> TAKE c \in Configs, r \in Stores
  <2>1. config_apply_ini_key(c, l1) = [c EXCEPT !.layer = s.layer]
    BY <1>1, ApplyLine DEF l1
  <2>2. config_apply_ini_key(c, l2) =
               [c EXCEPT !.exclusive_zone =
                   IF s.exclusiveZone THEN IF @ = 0 THEN -1 ELSE @ ELSE 0]
    BY <1>1, ApplyLine DEF l2
  <2>3. config_apply_ini_key(c, l3) =
               [c EXCEPT !.exclusive_zone =
                   IF @ = 0 THEN 0
                   ELSE IF s.exclusiveZoneValue <= 0 THEN -1
                   ELSE s.exclusiveZoneValue]
    BY <1>1, ApplyLine DEF l3
  <2>4. config_apply_ini_key(c, l4) =
            [c EXCEPT !.hotspot_delay = s.hotspotDelay]
    BY <1>1, ApplyLine DEF l4
  <2>5. config_apply_ini_key(c, l5) = [c EXCEPT !.theme_bg = s.themeBg]
    BY <1>1, ApplyLine DEF l5
  <2>6. config_apply_ini_key(c, l6) =
            [c EXCEPT !.theme_border_width = s.themeBorderWidth]
    BY <1>1, ApplyLine DEF l6
  <2>7. ParseLine(r, l1) = [r EXCEPT !.layer = s.layer]
    BY <1>1, ParseOneLine DEF l1
  <2>8. ParseLine(r, l2) = [r EXCEPT !.exclusiveZone = s.exclusiveZone]
    BY <1>1, ParseOneLine DEF l2
  <2>9. ParseLine(r, l3) =
            [r EXCEPT !.exclusiveZoneValue = s.exclusiveZoneValue]
    BY <1>1, ParseOneLine DEF l3
  <2>10. ParseLine(r, l4) =
            [r EXCEPT !.hotspotDelay =
                IF s.hotspotDelay = 0 THEN 300 ELSE s.hotspotDelay]
    BY <1>1, ParseOneLine DEF l4
  <2>11. ParseLine(r, l5) = [r EXCEPT !.themeBg = s.themeBg]
    BY <1>1, ParseOneLine DEF l5
  <2>12. ParseLine(r, l6) =
            [r EXCEPT !.themeBorderWidth =
                IF s.themeBorderWidth = 0 THEN 1 ELSE s.themeBorderWidth]
    BY <1>1, ParseOneLine DEF l6
  <2> QED
    BY <2>1, <2>2, <2>3, <2>4, <2>5, <2>6, <2>7, <2>8, <2>9, <2>10, <2>11, <2>12,
       Zenon
<1>9. \A x \in {f1, f2, f3, f4, f5, f6} : Read(x) \in Configs /\ Back(x) \in Stores
  BY <1>5, <1>7
<1> DEFINE z == IF s.exclusiveZone THEN -1 ELSE 0
           size == IF s.exclusiveZoneValue <= 0 THEN -1 ELSE s.exclusiveZoneValue
<1>10. LET c == Read(f2)
           r == Back(f2)
       IN  /\ c.layer = s.layer /\ c.exclusive_zone = z /\ c.hotspot_delay = 300
           /\ c.theme_border_width = 1 /\ c.theme_bg = Unset
           /\ r.layer = s.layer /\ r.exclusiveZone = s.exclusiveZone
           /\ r.exclusiveZoneValue = 0 /\ r.themeBg = Unset
           /\ r.themeBorderWidth = 1
  <2>1. c0 \in Configs /\ r0 \in Stores
    BY DefaultsType
  <2>2. /\ Read(f1) = [c0 EXCEPT !.layer = s.layer]
        /\ Back(f1) = [r0 EXCEPT !.layer = s.layer]
    <3> HIDE DEF c0, r0
    <3>1. /\ Read(f1) = config_apply_ini_key(c0, l1)
          /\ Back(f1) = ParseLine(r0, l1)
      BY <1>2, <1>3, <1>4, Zenon
    <3>2. Read(f1) = [c0 EXCEPT !.layer = s.layer]
      BY <1>8, <2>1, <3>1, Zenon
    <3>3. Back(f1) = [r0 EXCEPT !.layer = s.layer]
      BY <1>8, <2>1, <3>1, Zenon
    <3> QED
      BY <3>2, <3>3
  <2>3. /\ Read(f1).layer = s.layer /\ Read(f1).exclusive_zone = 0
        /\ Read(f1).hotspot_delay = 300 /\ Read(f1).theme_border_width = 1
        /\ Read(f1).theme_bg = Unset
        /\ Back(f1).layer = s.layer /\ Back(f1).exclusiveZoneValue = 0
        /\ Back(f1).themeBg = Unset /\ Back(f1).themeBorderWidth = 1
    <3> HIDE DEF f1
    <3> QED
      BY <2>2 DEF config_set_defaults, StoreDefaults
  <2> HIDE DEF f1
  <2>4. /\ Read(f2) = [Read(f1) EXCEPT !.exclusive_zone =
                           IF s.exclusiveZone THEN IF @ = 0 THEN -1 ELSE @ ELSE 0]
        /\ Back(f2) = [Back(f1) EXCEPT !.exclusiveZone = s.exclusiveZone]
    BY <1>2, <1>4, <1>7, <1>8, Zenon
  <2>5. Read(f1) \in Configs /\ Back(f1) \in Stores
    BY <1>9
  <2> HIDE DEF f2
  <2> QED
    BY <1>1, <2>3, <2>4, <2>5 DEF Configs, Stores
<1> HIDE DEF f2
<1>11. LET c == Read(f3)
           r == Back(f3)
       IN  /\ c.exclusive_zone = IF s.exclusiveZone THEN size ELSE 0
           /\ c.layer = s.layer /\ c.hotspot_delay = 300
           /\ c.theme_border_width = 1 /\ c.theme_bg = Unset
           /\ r.exclusiveZone = s.exclusiveZone
           /\ s.exclusiveZone => r.exclusiveZoneValue = s.exclusiveZoneValue
           /\ r.layer = s.layer /\ r.themeBg = Unset
           /\ r.themeBorderWidth = 1
  <2>1. CASE s.exclusiveZone
    <3>1. f3 = f2 \o <<l3>>
      BY <2>1
    <3>2. Read(f2) \in Configs /\ Back(f2) \in Stores
      BY <1>9
    <3>3. Read(f3) = config_apply_ini_key(Read(f2), l3)
      BY <1>2, <1>4, <1>7, <3>1, Zenon
    <3>4. Back(f3) = ParseLine(Back(f2), l3)
      BY <1>2, <1>4, <1>7, <3>1, Zenon
    <3>5. Read(f3) = [Read(f2) EXCEPT !.exclusive_zone =
                         IF @ = 0 THEN 0
                         ELSE IF s.exclusiveZoneValue <= 0 THEN -1
                         ELSE s.exclusiveZoneValue]
      BY <1>8, <3>2, <3>3, Zenon
    <3>6. Back(f3) = [Back(f2) EXCEPT !.exclusiveZoneValue = s.exclusiveZoneValue]
      BY <1>8, <3>2, <3>4, Zenon
    <3> HIDE DEF f3
    <3> QED
      <4>1. Read(f2).exclusive_zone = -1
        BY <1>10, <2>1
      <4>2. Read(f3).exclusive_zone = size
        BY <3>2, <3>5, <4>1 DEF Configs
      <4>3. /\ Read(f3).layer = s.layer /\ Read(f3).hotspot_delay = 300
            /\ Read(f3).theme_border_width = 1 /\ Read(f3).theme_bg = Unset
        BY <1>10, <3>2, <3>5 DEF Configs
      <4>4. /\ Back(f3).exclusiveZone = s.exclusiveZone
            /\ Back(f3).exclusiveZoneValue = s.exclusiveZoneValue
            /\ Back(f3).layer = s.layer /\ Back(f3).themeBg = Unset
            /\ Back(f3).themeBorderWidth = 1
        BY <1>1, <1>10, <3>2, <3>6 DEF Stores
      <4> QED
        BY <2>1, <4>2, <4>3, <4>4
  <2>2. CASE ~s.exclusiveZone
    BY <1>10, <2>2
  <2> QED
    BY <2>1, <2>2
<1> HIDE DEF f3
<1>12. LET c == Read(f4)
           r == Back(f4)
       IN  /\ c.exclusive_zone = IF s.exclusiveZone THEN size ELSE 0
           /\ c.layer = s.layer /\ c.hotspot_delay = s.hotspotDelay
           /\ c.theme_border_width = 1 /\ c.theme_bg = Unset
           /\ r.exclusiveZone = s.exclusiveZone
           /\ s.exclusiveZone => r.exclusiveZoneValue = s.exclusiveZoneValue
           /\ s.hotspotDelay # 0 => r.hotspotDelay = s.hotspotDelay
           /\ r.layer = s.layer /\ r.themeBg = Unset
           /\ r.themeBorderWidth = 1
  <2>1. Read(f3) \in Configs /\ Back(f3) \in Stores
    BY <1>9
  <2>2. Read(f4) = config_apply_ini_key(Read(f3), l4)
    BY <1>2, <1>4, <1>7, Zenon
  <2>3. Back(f4) = ParseLine(Back(f3), l4)
    BY <1>2, <1>4, <1>7, Zenon
  <2>4. Read(f4) = [Read(f3) EXCEPT !.hotspot_delay = s.hotspotDelay]
    BY <1>8, <2>1, <2>2, Zenon
  <2>5. Back(f4) = [Back(f3) EXCEPT !.hotspotDelay =
                       IF s.hotspotDelay = 0 THEN 300 ELSE s.hotspotDelay]
    BY <1>8, <2>1, <2>3, Zenon
  <2> HIDE DEF f4
  <2> QED
    BY <1>1, <1>11, <2>1, <2>4, <2>5 DEF Configs, Stores
<1> HIDE DEF f4
<1>13. LET c == Read(f5)
           r == Back(f5)
       IN  /\ c.exclusive_zone = IF s.exclusiveZone THEN size ELSE 0
           /\ c.layer = s.layer /\ c.hotspot_delay = s.hotspotDelay
           /\ c.theme_border_width = 1 /\ c.theme_bg = s.themeBg
           /\ r.exclusiveZone = s.exclusiveZone
           /\ s.exclusiveZone => r.exclusiveZoneValue = s.exclusiveZoneValue
           /\ s.hotspotDelay # 0 => r.hotspotDelay = s.hotspotDelay
           /\ r.layer = s.layer /\ r.themeBg = s.themeBg
           /\ r.themeBorderWidth = 1
  <2>1. Read(f4) \in Configs /\ Back(f4) \in Stores
    BY <1>9
  <2>2. CASE s.themeBg # Unset
    <3>1. f5 = f4 \o <<l5>>
      BY <2>2
    <3>2. Read(f5) = config_apply_ini_key(Read(f4), l5)
      BY <1>2, <1>4, <1>7, <3>1, Zenon
    <3>3. Back(f5) = ParseLine(Back(f4), l5)
      BY <1>2, <1>4, <1>7, <3>1, Zenon
    <3>4. Read(f5) = [Read(f4) EXCEPT !.theme_bg = s.themeBg]
      BY <1>8, <2>1, <3>2, Zenon
    <3>5. Back(f5) = [Back(f4) EXCEPT !.themeBg = s.themeBg]
      BY <1>8, <2>1, <3>3, Zenon
    <3> HIDE DEF f5
    <3> QED
      BY <1>1, <1>12, <2>1, <3>4, <3>5 DEF Configs, Stores
  <2>3. CASE s.themeBg = Unset
    BY <1>12, <2>3
  <2> QED
    BY <2>2, <2>3
<1> HIDE DEF f5
<1>14. LET c == Read(f6)
           r == Back(f6)
       IN  /\ c.exclusive_zone = IF s.exclusiveZone THEN size ELSE 0
           /\ c.layer = s.layer /\ c.hotspot_delay = s.hotspotDelay
           /\ s.themeBorderWidth >= 0 => c.theme_border_width = s.themeBorderWidth
           /\ c.theme_bg = s.themeBg
           /\ r.exclusiveZone = s.exclusiveZone
           /\ s.exclusiveZone => r.exclusiveZoneValue = s.exclusiveZoneValue
           /\ s.hotspotDelay # 0 => r.hotspotDelay = s.hotspotDelay
           /\ r.layer = s.layer /\ r.themeBg = s.themeBg
           /\ s.themeBorderWidth > 0 => r.themeBorderWidth = s.themeBorderWidth
  <2>1. Read(f5) \in Configs /\ Back(f5) \in Stores
    BY <1>9
  <2>2. CASE s.themeBorderWidth >= 0
    <3>1. f6 = f5 \o <<l6>>
      BY <2>2
    <3>2. Read(f6) = config_apply_ini_key(Read(f5), l6)
      BY <1>2, <1>4, <1>7, <3>1, Zenon
    <3>3. Back(f6) = ParseLine(Back(f5), l6)
      BY <1>2, <1>4, <1>7, <3>1, Zenon
    <3>4. Read(f6) = [Read(f5) EXCEPT !.theme_border_width = s.themeBorderWidth]
      BY <1>8, <2>1, <3>2, Zenon
    <3>5. Back(f6) = [Back(f5) EXCEPT !.themeBorderWidth =
                         IF s.themeBorderWidth = 0 THEN 1 ELSE s.themeBorderWidth]
      BY <1>8, <2>1, <3>3, Zenon
    <3> HIDE DEF f6
    <3> QED
      BY <1>1, <1>13, <2>1, <3>4, <3>5 DEF Configs, Stores
  <2>3. CASE ~(s.themeBorderWidth >= 0)
    BY <1>1, <1>13, <2>3
  <2> QED
    BY <2>2, <2>3
<1> HIDE DEF f6
<1>15. Read(f6) \in Configs
  BY <1>9
<1>16. Reads(s, config_validate(Read(f6)))
  <2> DEFINE c == config_validate(Read(f6))
  <2>1. /\ c.exclusive_zone = Read(f6).exclusive_zone
        /\ c.theme_border_width = Read(f6).theme_border_width
        /\ c.theme_bg = Read(f6).theme_bg
        /\ Read(f6).hotspot_delay \in 0..5000 => c.hotspot_delay = Read(f6).hotspot_delay
        /\ Read(f6).layer \in Layers => c.layer = Read(f6).layer
    BY <1>15 DEF config_validate, Configs
  <2> HIDE DEF c
  <2>2. Reads(s, c)
    BY <1>1, <1>14, <2>1 DEF Reads
  <2> QED
    BY <2>2 DEF c
<1>17. ReadsBack(s, Back(f6))
  BY <1>1, <1>14 DEF ReadsBack
<1> QED
  BY <1>6, <1>7, <1>16, <1>17, Zenon DEF LS, Read, Back, config_parse

(* What the daemon uses of a file is validated. *)
LEMMA ParsedType ==
    ASSUME NEW ls \in Seq(Lines)
    PROVE  Valid(config_parse(ls))
<1> DEFINE c == config_load_ini(ls)
           v == config_validate(c)
<1>1. c \in Configs
  BY LoadIs
<1>2. config_parse(ls) = v
  BY DEF config_parse
<1> HIDE DEF c
<1>3. /\ "top" \in Layers
      /\ \A w \in Layers : w \in Text
  BY TextAssumption DEF Layers
<1> DEFINE l == IF c.layer \in Layers THEN c.layer ELSE "top"
           h == IF c.hotspot_delay \in 0..5000 THEN c.hotspot_delay ELSE 300
<1>4. v = [c EXCEPT !.layer = l, !.hotspot_delay = h]
  BY DEF config_validate
<1>5. l \in Layers /\ l \in Text /\ h \in 0..5000 /\ h \in Int
  <2>1. l \in Layers
    BY <1>3
  <2>2. h \in 0..5000
    OBVIOUS
  <2> HIDE DEF l, h
  <2> QED
    BY <1>3, <2>1, <2>2
<1> HIDE DEF v, l, h
<1>6. v \in Configs /\ v.layer = l /\ v.hotspot_delay = h
  <2>1. /\ c.exclusive_zone \in Int /\ c.theme_border_width \in Int /\ c.theme_bg \in Text
        /\ DOMAIN c = {"exclusive_zone", "hotspot_delay", "theme_border_width", "layer",
                       "theme_bg"}
    BY <1>1 DEF Configs
  <2>2. v = [exclusive_zone |-> c.exclusive_zone, hotspot_delay |-> h,
             theme_border_width |-> c.theme_border_width, layer |-> l,
             theme_bg |-> c.theme_bg]
    BY <1>1, <1>4 DEF Configs
  <2> QED
    BY <1>5, <2>1, <2>2 DEF Configs
<1> QED
  BY <1>2, <1>5, <1>6 DEF Valid

(* ... and what the settings program reads has the types of its fields,     *)
(* which setting some of them keeps.                                       *)
LEMMA ReadType ==
    ASSUME NEW ls \in Seq(Lines)
    PROVE  _parseIni(ls) \in Stores
BY ParseIs

LEMMA SetType ==
    ASSUME NEW t \in Stores, NEW s,
           With(StoreDefaults, s) \in Stores
    PROVE  With(t, s) \in Stores
<1> DEFINE F == {"exclusiveZone", "exclusiveZoneValue", "hotspotDelay",
                 "themeBorderWidth", "layer", "themeBg"}
           d == StoreDefaults
<1>1. d \in Stores
  BY DefaultsType
<1> HIDE DEF d
<1>2. DOMAIN d = F /\ DOMAIN t = F
  BY <1>1 DEF Stores
<1>3. /\ With(t, s) = [f \in F |-> IF f \in DOMAIN s THEN s[f] ELSE t[f]]
      /\ With(d, s) = [f \in F |-> IF f \in DOMAIN s THEN s[f] ELSE d[f]]
  BY <1>2 DEF With
<1>4. With(d, s) \in Stores
  BY DEF d
<1> DEFINE u == With(d, s)
           w == With(t, s)
<1>5. \A f \in F : w[f] = u[f] \/ w[f] = t[f]
  BY <1>3
<1>6. w = [f \in F |-> w[f]] /\ u \in Stores
  BY <1>3, <1>4
<1> HIDE DEF u, w
<1>7. w \in Stores
  BY <1>5, <1>6 DEF Stores
<1> QED
  BY <1>7 DEF w

(* A file that is being written has a name.                                *)
FileOK ==
    /\ inode \in Nat /\ target \in Seq(Lines) /\ editing \in BOOLEAN
    /\ editing => inode # 0
    /\ IF editing THEN \E n \in 0..Len(target) : lines = SubSeq(target, 1, n)
       ELSE lines = target

(* Before the daemon is in its loop it watches nothing, and no event comes. *)
WatchOK ==
    /\ pc \in {"parse", "watch", "loop", "reload"}
    /\ watch \in 0..inode /\ event \in BOOLEAN
    /\ pc \in {"parse", "watch"} => watch = 0 /\ ~event

(* In the loop the shell has been told what the daemon uses, and that is    *)
(* what the file says, but for an event, an open file or an unseen change.  *)
Current == cfg = config_parse(lines)
UseOK ==
    /\ Valid(cfg) /\ Valid(sent)
    /\ pc \in {"loop", "reload"} => sent = cfg
    /\ pc = "watch" /\ ~editing /\ ~missed => Current
    /\ pc = "loop" /\ ~event /\ ~editing /\ ~missed => Current

RestOK ==
    /\ missed \in BOOLEAN /\ guiOpen \in BOOLEAN /\ store \in Stores
    /\ changes \in 0..MaxChanges

ConfigInv == FileOK /\ WatchOK /\ UseOK /\ RestOK

LEMMA ConfigInvImplies == ConfigInv => ReloadTypeOK /\ WaitsUpToDate
<1> SUFFICES ASSUME ConfigInv PROVE ReloadTypeOK /\ WaitsUpToDate
  OBVIOUS
<1>1. ReloadTypeOK
  <2>1. /\ inode \in Nat /\ target \in Seq(Lines) /\ editing \in BOOLEAN
        /\ IF editing THEN \E n \in 0..Len(target) : lines = SubSeq(target, 1, n)
           ELSE lines = target
    BY Zenon DEF ConfigInv, FileOK
  <2>2. /\ pc \in {"parse", "watch", "loop", "reload"}
        /\ watch \in 0..inode /\ event \in BOOLEAN
    BY Zenon DEF ConfigInv, WatchOK
  <2>3. Valid(cfg) /\ Valid(sent)
    BY Zenon DEF ConfigInv, UseOK
  <2>4. /\ missed \in BOOLEAN /\ guiOpen \in BOOLEAN /\ store \in Stores
        /\ changes \in 0..MaxChanges
    BY Zenon DEF ConfigInv, RestOK
  <2> QED
    BY <2>1, <2>2, <2>3, <2>4, Zenon DEF ReloadTypeOK
<1>2. WaitsUpToDate
  BY DEF ConfigInv, UseOK, Current, WaitsUpToDate
<1> QED
  BY <1>1, <1>2

LEMMA InitConfig ==
    ASSUME ReloadInit PROVE ConfigInv
<1>1. /\ inode \in Nat /\ watch = 0 /\ event = FALSE /\ editing = FALSE
      /\ missed = FALSE /\ guiOpen = FALSE /\ store = StoreDefaults /\ changes = 0
      /\ pc = "parse" /\ cfg = config_set_defaults
      /\ sent = config_set_defaults /\ target = lines
  BY DEF ReloadInit
<1>2. FileOK
  <2>1. <<>> \in Seq(Lines)
    OBVIOUS
  <2>2. IniFiles \subseteq Seq(Lines)
    BY IniAssumption
  <2>3. lines = <<>> \/ lines \in IniFiles
    BY DEF ReloadInit
  <2> QED
    BY <1>1, <2>1, <2>2, <2>3 DEF FileOK
<1>3. WatchOK
  <2>1. watch \in 0..inode
    BY <1>1
  <2>2. event \in BOOLEAN
    BY <1>1
  <2> QED
    BY <1>1, <2>1, <2>2, Zenon DEF WatchOK
<1>4. UseOK
  <2>1. Valid(config_set_defaults)
    <3>1. config_set_defaults \in Configs
      BY DefaultsType
    <3> QED
      BY <3>1 DEF config_set_defaults, Layers, Valid
  <2> QED
    BY <1>1, <2>1 DEF UseOK
<1>5. RestOK
  <2>1. StoreDefaults \in Stores
    BY DefaultsType
  <2>2. changes \in 0..MaxChanges
    BY <1>1, ChangesAssumption
  <2>3. missed \in BOOLEAN /\ guiOpen \in BOOLEAN
    BY <1>1
  <2> QED
    BY <1>1, <2>1, <2>2, <2>3, Zenon DEF RestOK
<1> QED
  BY <1>2, <1>3, <1>4, <1>5 DEF ConfigInv

(* A step of the daemon. *)
LEMMA DaemonConfig ==
    ASSUME ConfigInv, Daemon PROVE ConfigInv'
<1>1. lines \in Seq(Lines)
  <2>1. ASSUME NEW n \in 0..Len(target)
        PROVE  SubSeq(target, 1, n) \in Seq(Lines)
    BY DEF ConfigInv, FileOK
  <2> QED
    BY <2>1 DEF ConfigInv, FileOK
<1> DEFINE p == config_parse(lines)
<1>2. Valid(p)
  BY <1>1, ParsedType
<1> HIDE DEF p
<1>3. /\ UNCHANGED <<inode, lines, target, editing, guiOpen, store, changes, missed>>
      /\ \/ /\ pc = "parse" /\ pc' = "watch" /\ cfg' = p
            /\ UNCHANGED <<watch, event, sent>>
         \/ /\ pc = "watch" /\ pc' = "loop" /\ watch' = inode /\ sent' = cfg
            /\ UNCHANGED <<event, cfg>>
         \/ /\ pc = "loop" /\ pc' = "reload" /\ event' = FALSE
            /\ UNCHANGED <<watch, cfg, sent>>
         \/ /\ pc = "reload" /\ pc' = "loop" /\ cfg' = p /\ sent' = p
            /\ UNCHANGED <<watch, event>>
  BY DEF Daemon, ParseAtStart, config_watcher_init, ReadEvent, Reload,
         disk, p
<1>4. FileOK' /\ RestOK'
  BY <1>3 DEF ConfigInv, FileOK, RestOK
<1>5. WatchOK'
  <2>1. /\ inode \in Nat /\ watch \in 0..inode /\ event \in BOOLEAN
        /\ pc \in {"parse", "watch"} => ~event
        /\ pc \in {"parse", "watch"} => watch = 0
    BY Zenon DEF ConfigInv, FileOK, WatchOK
  <2>2. watch' \in 0..inode'
    BY <1>3, <2>1
  <2>3. event' \in BOOLEAN
    BY <1>3, <2>1
  <2>4. pc' \in {"parse", "watch", "loop", "reload"}
    BY <1>3
  <2>5. pc' \in {"parse", "watch"} => watch' = 0 /\ ~event'
    <3>1. pc' \in {"parse", "watch"} => pc = "parse" /\ UNCHANGED <<watch, event>>
      BY <1>3
    <3> QED
      BY <2>1, <3>1, Zenon
  <2> QED
    BY <2>2, <2>3, <2>4, <2>5, Zenon DEF WatchOK
<1>6. UseOK'
  <2>1. /\ Current' <=> cfg' = p
        /\ Current <=> cfg = p
    BY <1>3 DEF p, Current
  <2>2. /\ Valid(cfg) /\ Valid(sent)
        /\ pc \in {"loop", "reload"} => sent = cfg
        /\ pc = "watch" /\ ~editing /\ ~missed => Current
    BY Zenon DEF ConfigInv, UseOK
  <2>3. /\ cfg' \in {cfg, p} /\ sent' \in {cfg, sent, p}
        /\ pc' \in {"loop", "reload"} => sent' = cfg'
    BY <1>3, <2>2
  <2>4. Valid(cfg') /\ Valid(sent')
    BY <1>2, <2>2, <2>3
  <2>5. pc' = "watch" \/ pc' = "loop" => cfg' = p \/ (pc = "watch" /\ cfg' = cfg)
    BY <1>3
  <2>6. (editing' <=> editing) /\ (missed' <=> missed)
    BY <1>3
  <2>7. cfg' = cfg => (Current => Current')
    BY <2>1
  <2>8. /\ pc' = "watch" /\ ~editing' /\ ~missed' => Current'
        /\ pc' = "loop" /\ ~editing' /\ ~missed' => Current'
    BY <2>1, <2>2, <2>5, <2>6, <2>7, Zenon
  <2> QED
    BY <2>3, <2>4, <2>8, Zenon DEF UseOK
<1> QED
  BY <1>4, <1>5, <1>6 DEF ConfigInv

(* A step of the user, an editor or the settings program. *)
LEMMA UserConfig ==
    ASSUME ConfigInv,
           \/ \E f \in Rewrites : BeginEdit(f) \/ Replace(f)
           \/ WritePiece \/ EndEdit
           \/ OpenSettings \/ saveIni
           \/ \E s \in Settings : SetField(s)
    PROVE  ConfigInv'
<1>0. /\ inode \in Nat /\ target \in Seq(Lines) /\ editing \in BOOLEAN
      /\ IF editing THEN \E n \in 0..Len(target) : lines = SubSeq(target, 1, n)
         ELSE lines = target
      /\ watch \in 0..inode /\ event \in BOOLEAN /\ missed \in BOOLEAN
      /\ store \in Stores /\ changes \in 0..MaxChanges
      /\ MaxChanges \in Nat
  BY ChangesAssumption, Zenon DEF ConfigInv, FileOK, WatchOK, RestOK
<1>f. \A f \in Rewrites : f \in Seq(Lines)
  BY IniAssumption
<1>l. lines \in Seq(Lines)
  <2>1. ASSUME NEW n \in 0..Len(target)
        PROVE  SubSeq(target, 1, n) \in Seq(Lines)
    BY <1>0
  <2> QED
    BY <1>0, <2>1
<1>c. /\ Valid(cfg) /\ Valid(sent)
      /\ pc \in {"loop", "reload"} => sent = cfg
  BY Zenon DEF ConfigInv, UseOK
<1>d. /\ pc = "watch" /\ ~editing /\ ~missed => Current
      /\ pc = "loop" /\ ~event /\ ~editing /\ ~missed => Current
  BY Zenon DEF ConfigInv, UseOK
<1>w. /\ pc \in {"parse", "watch", "loop", "reload"}
      /\ pc \in {"parse", "watch"} => watch = 0 /\ ~event
      /\ editing => inode # 0
  BY Zenon DEF ConfigInv, FileOK, WatchOK
<1>s. \A way : Change(way) => changes' \in 0..MaxChanges
  BY <1>0 DEF Change
(* The file is replaced: no event, and the daemon's watch stays behind. *)
<1>r. ASSUME NEW f \in Seq(Lines), Replaced(f),
             store' \in Stores, guiOpen' \in BOOLEAN, changes' \in 0..MaxChanges
      PROVE  ConfigInv'
  <2>1. /\ ~editing /\ inode' = inode + 1 /\ lines' = f /\ target' = f
        /\ UNCHANGED <<editing, pc, watch, event, cfg, sent>>
        /\ missed' = (missed \/ pc # "parse")
    BY <1>r DEF Replaced, Unseen, reader
  <2>2. FileOK'
    <3>1. inode' \in Nat /\ target' \in Seq(Lines) /\ inode' # 0 /\ lines' = target'
      BY <1>0, <1>r, <2>1
    <3>2. ~editing' /\ editing' \in BOOLEAN
      BY <1>0, <2>1
    <3> QED
      BY <3>1, <3>2, Zenon DEF FileOK
  <2>3. WatchOK'
    <3>1. watch' \in 0..inode'
      BY <1>0, <2>1
    <3>2. (event' <=> event) /\ pc' = pc /\ watch' = watch /\ event' \in BOOLEAN
      BY <1>0, <2>1
    <3> QED
      BY <3>1, <3>2, Zenon DEF ConfigInv, WatchOK
  <2>4. UseOK'
    <3>1. cfg' = cfg /\ sent' = sent /\ pc' = pc /\ (event' <=> event)
      BY <2>1
    <3>2. /\ pc' = "watch" => missed'
          /\ pc' = "loop" => missed'
      BY <2>1
    <3>3. /\ Valid(cfg') /\ Valid(sent')
          /\ pc' \in {"loop", "reload"} => sent' = cfg'
      BY <1>c, <3>1
    <3> QED
      BY <3>2, <3>3, Zenon DEF UseOK
  <2>5. missed' \in BOOLEAN
    BY <2>1
  <2> QED
    BY <1>r, <2>2, <2>3, <2>4, <2>5, Zenon DEF ConfigInv, RestOK
(* Neither the file nor the daemon changes. *)
<1>u. ASSUME UNCHANGED <<inode, lines, target, editing, pc, watch, event, cfg, sent,
                         missed>>,
             store' \in Stores, guiOpen' \in BOOLEAN, changes' \in 0..MaxChanges
      PROVE  ConfigInv'
  <2>1. FileOK'
    BY <1>u DEF ConfigInv, FileOK
  <2>2. WatchOK'
    BY <1>u DEF ConfigInv, WatchOK
  <2>3. UseOK'
    <3>1. /\ cfg' = cfg /\ sent' = sent /\ pc' = pc
          /\ (event' <=> event) /\ (editing' <=> editing) /\ (missed' <=> missed)
      BY <1>u
    <3>2. Current' <=> Current
      BY <1>u DEF Current
    <3>3. /\ Valid(cfg') /\ Valid(sent')
          /\ pc' \in {"loop", "reload"} => sent' = cfg'
      BY <1>c, <3>1
    <3>p. (pc' = "watch" <=> pc = "watch") /\ (pc' = "loop" <=> pc = "loop")
      BY <3>1
    <3>4. /\ pc' = "watch" /\ ~editing' /\ ~missed' => Current'
          /\ pc' = "loop" /\ ~event' /\ ~editing' /\ ~missed' => Current'
      BY <1>d, <3>1, <3>2, <3>p, Zenon
    <3> QED
      BY <3>3, <3>4, Zenon DEF UseOK
  <2>4. RestOK'
    BY <1>u DEF ConfigInv, RestOK
  <2> QED
    BY <2>1, <2>2, <2>3, <2>4 DEF ConfigInv
(* Another file of this name: neither the daemon nor its watch is touched,  *)
(* and nothing is read until an event or the end of the writing.           *)
<1>k. ASSUME UNCHANGED <<inode, target, watch, pc, cfg, sent, store, guiOpen>>,
             changes' \in 0..MaxChanges, FileOK', event' \in BOOLEAN, missed' \in BOOLEAN,
             pc \in {"parse", "watch"} => ~event',
             \/ editing'
             \/ event' /\ pc \in {"loop", "reload"}
             \/ missed'
             \/ pc = "parse"
      PROVE  ConfigInv'
  <2>1. WatchOK'
    <3>1. watch' \in 0..inode'
      BY <1>0, <1>k
    <3>2. /\ pc' \in {"parse", "watch", "loop", "reload"}
          /\ pc' \in {"parse", "watch"} => watch' = 0
      BY <1>w, <1>k
    <3>3. pc' = pc
      BY <1>k
    <3>4. pc' \in {"parse", "watch"} => ~event'
      BY <1>k, <3>3, Zenon
    <3> QED
      BY <1>k, <3>1, <3>2, <3>4, Zenon DEF WatchOK
  <2>2. UseOK'
    <3>1. cfg' = cfg /\ sent' = sent /\ pc' = pc
      BY <1>k
    <3>2. /\ Valid(cfg') /\ Valid(sent')
          /\ pc' \in {"loop", "reload"} => sent' = cfg'
      BY <1>c, <3>1
    <3>3. pc = "watch" => pc # "parse" /\ pc \notin {"loop", "reload"}
      OBVIOUS
    <3>4. pc = "loop" => pc # "parse"
      OBVIOUS
    <3>5. pc' = "watch" => editing' \/ missed'
      BY <1>k, <3>1, <3>3, Zenon
    <3>6. pc' = "loop" => editing' \/ missed' \/ event'
      BY <1>k, <3>1, <3>4, Zenon
    <3> QED
      BY <3>2, <3>5, <3>6, Zenon DEF UseOK
  <2>3. RestOK'
    <3>1. store' = store /\ (guiOpen' <=> guiOpen) /\ guiOpen' \in BOOLEAN
      BY <1>k DEF ConfigInv, RestOK
    <3> QED
      BY <1>0, <1>k, <3>1, Zenon DEF RestOK
  <2> QED
    BY <1>k, <2>1, <2>2, <2>3, Zenon DEF ConfigInv
<1>1. ASSUME NEW f \in Rewrites, BeginEdit(f)
      PROVE  ConfigInv'
  <2>1. /\ editing' = TRUE /\ lines' = <<>> /\ target' = f /\ inode # 0
        /\ UNCHANGED <<inode, pc, watch, event, cfg, sent, guiOpen, store, missed>>
        /\ changes' \in 0..MaxChanges
    BY <1>1, <1>s DEF BeginEdit, reader
  <2>2. FileOK'
    <3>1. target' \in Seq(Lines) /\ inode' \in Nat /\ inode' # 0
      BY <1>0, <1>f, <2>1
    <3>2. 0 \in 0..Len(target') /\ lines' = SubSeq(target', 1, 0)
      BY <2>1, <3>1
    <3>3. editing' /\ editing' \in BOOLEAN
      BY <2>1
    <3> QED
      BY <3>1, <3>2, <3>3, Zenon DEF FileOK
  <2>3. WatchOK'
    BY <2>1 DEF ConfigInv, WatchOK
  <2>4. UseOK'
    <3>1. cfg' = cfg /\ sent' = sent /\ pc' = pc
      BY <2>1
    <3>2. /\ Valid(cfg') /\ Valid(sent')
          /\ pc' \in {"loop", "reload"} => sent' = cfg'
      BY <1>c, <3>1
    <3>3. editing'
      BY <2>1
    <3> QED
      BY <3>2, <3>3, Zenon DEF UseOK
  <2>5. RestOK'
    BY <2>1 DEF ConfigInv, RestOK
  <2> QED
    BY <2>2, <2>3, <2>4, <2>5, Zenon DEF ConfigInv
<1>2. ASSUME NEW f \in Rewrites, Replace(f)
      PROVE  ConfigInv'
  <2>1. f \in Seq(Lines) /\ Replaced(f) /\ changes' \in 0..MaxChanges
    BY <1>2, <1>f, <1>s DEF Replace
  <2>2. store' \in Stores /\ guiOpen' \in BOOLEAN
    BY <1>2 DEF Replace, ConfigInv, RestOK
  <2> QED
    BY <1>r, <2>1, <2>2
<1>3. ASSUME WritePiece
      PROVE  ConfigInv'
  <2>1. /\ editing /\ Len(lines) < Len(target)
        /\ lines' = SubSeq(target, 1, Len(lines) + 1)
        /\ UNCHANGED <<inode, target, editing, pc, watch, event, cfg, sent, guiOpen,
                       store, changes, missed>>
    BY <1>3 DEF WritePiece, reader
  <2>2. FileOK'
    <3>1. Len(lines) + 1 \in 0..Len(target')
      BY <1>0, <1>l, <2>1
    <3>2. lines' = SubSeq(target', 1, Len(lines) + 1)
      BY <2>1
    <3>3. target' \in Seq(Lines) /\ inode' \in Nat /\ inode' # 0
      BY <1>0, <1>w, <2>1
    <3>4. editing' /\ editing' \in BOOLEAN
      BY <1>0, <2>1
    <3> QED
      BY <3>1, <3>2, <3>3, <3>4, Zenon DEF FileOK
  <2>3. WatchOK'
    BY <2>1 DEF ConfigInv, WatchOK
  <2>4. UseOK'
    <3>1. cfg' = cfg /\ sent' = sent /\ pc' = pc
      BY <2>1
    <3>2. /\ Valid(cfg') /\ Valid(sent')
          /\ pc' \in {"loop", "reload"} => sent' = cfg'
      BY <1>c, <3>1
    <3>3. editing'
      BY <2>1
    <3> QED
      BY <3>2, <3>3, Zenon DEF UseOK
  <2>5. RestOK'
    BY <2>1 DEF ConfigInv, RestOK
  <2> QED
    BY <2>2, <2>3, <2>4, <2>5, Zenon DEF ConfigInv
<1>4. ASSUME EndEdit
      PROVE  ConfigInv'
  <2>1. /\ editing /\ lines = target /\ editing' = FALSE
        /\ UNCHANGED <<inode, lines, target, pc, watch, cfg, sent, guiOpen, store,
                       changes>>
        /\ \/ watch = inode /\ event' = TRUE /\ UNCHANGED missed
           \/ missed' = (missed \/ pc # "parse") /\ UNCHANGED event
    BY <1>4 DEF EndEdit, Unseen
  <2>2. FileOK'
    <3>1. /\ inode' \in Nat /\ target' \in Seq(Lines) /\ lines' = target'
          /\ ~editing' /\ editing' \in BOOLEAN
      BY <1>0, <2>1
    <3> QED
      BY <3>1, Zenon DEF FileOK
  <2>3. changes' \in 0..MaxChanges
    BY <1>0, <2>1
  <2>4. UNCHANGED <<inode, target, watch, pc, cfg, sent, store, guiOpen>>
    BY <2>1
  <2>5. CASE watch = inode /\ event' = TRUE /\ UNCHANGED missed
    <3>1. pc \in {"loop", "reload"}
      BY <1>w, <2>1, <2>5
    <3>2. event' /\ event' \in BOOLEAN /\ missed' \in BOOLEAN
      BY <1>0, <2>5
    <3>3. pc \notin {"parse", "watch"}
      BY <3>1
    <3> QED
      BY <1>k, <2>2, <2>3, <2>4, <3>1, <3>2, <3>3, Zenon
  <2>6. CASE missed' = (missed \/ pc # "parse") /\ UNCHANGED event
    <3>1. missed' \/ pc = "parse"
      BY <2>6
    <3>2. (event' <=> event) /\ event' \in BOOLEAN /\ missed' \in BOOLEAN
      BY <1>0, <2>6
    <3>3. pc \in {"parse", "watch"} => ~event'
      BY <1>w, <3>2, Zenon
    <3> QED
      BY <1>k, <2>2, <2>3, <2>4, <3>1, <3>2, <3>3, Zenon
  <2> QED
    BY <2>1, <2>5, <2>6, Zenon
<1>5. ASSUME OpenSettings
      PROVE  ConfigInv'
  <2>1. /\ guiOpen' = TRUE /\ store' = _parseIni(lines) /\ changes' \in 0..MaxChanges
        /\ UNCHANGED <<inode, lines, target, editing, pc, watch, event, cfg, sent,
                       missed>>
    BY <1>5, <1>s DEF OpenSettings, disk, reader
  <2>2. store' \in Stores
    BY <1>0, <1>l, <2>1, ReadType
  <2> QED
    BY <1>u, <2>1, <2>2
<1>6. ASSUME saveIni
      PROVE  ConfigInv'
  <2>1. /\ Replaced(generateIni(store)) /\ changes' \in 0..MaxChanges
        /\ UNCHANGED <<guiOpen, store>>
    BY <1>6, <1>s DEF saveIni
  <2>2. generateIni(store) \in Seq(Lines)
    BY <1>0, GeneratedFile
  <2>3. store' \in Stores /\ guiOpen' \in BOOLEAN
    BY <2>1 DEF ConfigInv, RestOK
  <2> HIDE DEF ConfigInv
  <2> QED
    BY <1>r, <2>1, <2>2, <2>3, Zenon
<1>7. ASSUME NEW s \in Settings, SetField(s)
      PROVE  ConfigInv'
  <2>1. /\ store' = With(store, s) /\ changes' \in 0..MaxChanges
        /\ UNCHANGED <<inode, lines, target, editing, pc, watch, event, cfg, sent,
                       guiOpen, missed>>
    BY <1>7, <1>s DEF SetField, disk, reader
  <2>2. store' \in Stores
    <3>1. With(StoreDefaults, s) \in Stores
      BY SettingsAssumption
    <3> QED
      BY <1>0, <2>1, <3>1, SetType
  <2>3. guiOpen' \in BOOLEAN
    BY <2>1 DEF ConfigInv, RestOK
  <2> QED
    BY <1>u, <2>1, <2>2, <2>3
<1> QED
  BY <1>1, <1>2, <1>3, <1>4, <1>5, <1>6, <1>7, Zenon

LEMMA StepConfig ==
    ASSUME ConfigInv, [ReloadNext]_reloadVars PROVE ConfigInv'
<1>1. CASE Daemon
  BY <1>1, DaemonConfig
<1>2. CASE UNCHANGED reloadVars
  <2>1. /\ UNCHANGED <<inode, lines, target, editing, pc, watch, event, cfg, sent>>
        /\ UNCHANGED <<guiOpen, store, changes, missed>>
    BY <1>2 DEF reloadVars, disk, reader
  <2>2. FileOK' /\ WatchOK' /\ RestOK'
    BY <2>1 DEF ConfigInv, FileOK, WatchOK, RestOK
  <2>3. UseOK'
    <3>1. (editing' <=> editing) /\ (missed' <=> missed) /\ (event' <=> event)
          /\ (Current' <=> Current)
      BY <2>1 DEF Current
    <3>2. cfg' = cfg /\ sent' = sent /\ pc' = pc
      BY <2>1
    <3>3. /\ Valid(cfg) /\ Valid(sent)
          /\ pc \in {"loop", "reload"} => sent = cfg
          /\ pc = "watch" /\ ~editing /\ ~missed => Current
          /\ pc = "loop" /\ ~event /\ ~editing /\ ~missed => Current
      BY Zenon DEF ConfigInv, UseOK
    <3>4. /\ Valid(cfg') /\ Valid(sent')
          /\ pc' \in {"loop", "reload"} => sent' = cfg'
      BY <3>2, <3>3
    <3>p. (pc' = "watch" <=> pc = "watch") /\ (pc' = "loop" <=> pc = "loop")
      BY <3>2
    <3>5. /\ pc' = "watch" /\ ~editing' /\ ~missed' => Current'
          /\ pc' = "loop" /\ ~event' /\ ~editing' /\ ~missed' => Current'
      BY <3>1, <3>3, <3>p, Zenon
    <3> QED
      BY <3>4, <3>5, Zenon DEF UseOK
  <2> QED
    BY <2>2, <2>3, Zenon DEF ConfigInv
<1>3. ASSUME ~Daemon, ReloadNext
      PROVE  ConfigInv'
  <2>1. \/ \E f \in Rewrites : BeginEdit(f) \/ Replace(f)
        \/ WritePiece \/ EndEdit
        \/ OpenSettings \/ saveIni
        \/ \E s \in Settings : SetField(s)
    BY <1>3, Zenon DEF ReloadNext
  <2> QED
    BY <2>1, UserConfig, Zenon
<1> QED
  BY <1>1, <1>2, <1>3, Zenon

LEMMA ConfigAlways == ReloadSpec => []ConfigInv
<1>1. ReloadInit => ConfigInv
  BY InitConfig
<1>2. ConfigInv /\ [ReloadNext]_reloadVars => ConfigInv'
  BY StepConfig
<1> QED
  BY <1>1, <1>2, PTL DEF ReloadSpec

(* The watch is never on a file that is still to come, the file is what it  *)
(* was given or a first part of that, and the daemon uses validated values  *)
(* (config.c:343).                                                         *)
THEOREM ConfigTypeCorrect == ReloadSpec => []ReloadTypeOK
<1>1. ConfigInv => ReloadTypeOK
  BY ConfigInvImplies
<1> QED
  BY <1>1, ConfigAlways, PTL

(* A daemon that waits with no event to read uses the file as it is and has *)
(* told the shell, but for a rewrite under way and changes no event tells: *)
(* an event that comes while the daemon parses stays for it                *)
(* (config_watcher.c:62-73).                                               *)
THEOREM WaitsOnTheFile == ReloadSpec => []WaitsUpToDate
<1>1. ConfigInv => WaitsUpToDate
  BY ConfigInvImplies
<1> QED
  BY <1>1, ConfigAlways, PTL

(* What the settings program saves, the daemon reads as it was shown, and   *)
(* so does the settings program the next time, whatever was set: the file   *)
(* is read line by line in GeneratedFile (ConfigStore.qml:253, 323,        *)
(* config.c:154).                                                          *)
THEOREM SavedIsReadAsShown == ReloadSpec => SavedAsShown
<1> DEFINE Shown == /\ Reads(store', config_parse(lines'))
                    /\ ReadsBack(store', _parseIni(lines'))
<1>1. ConfigInv /\ [ReloadNext]_reloadVars => [saveIni => Shown]_reloadVars
  <2>1. ASSUME ConfigInv, saveIni
        PROVE  Shown
    <3>1. store' = store /\ lines' = generateIni(store)
      BY <2>1 DEF saveIni, Replaced
    <3>2. store \in Stores
      BY <2>1, Zenon DEF ConfigInv, RestOK
    <3>3. /\ Reads(store, config_parse(generateIni(store)))
          /\ ReadsBack(store, _parseIni(generateIni(store)))
      BY <3>2, GeneratedFile
    <3> QED
      BY <3>1, <3>3, Zenon
  <2> QED
    BY <2>1, Zenon
<1>2. ReloadSpec => [][ReloadNext]_reloadVars
  BY DEF ReloadSpec
<1> QED
  BY <1>1, <1>2, ConfigAlways, PTL DEF SavedAsShown
=============================================================================
