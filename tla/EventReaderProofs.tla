------------------------- MODULE EventReaderProofs --------------------------
(***************************************************************************)
(* Theorems about module EventReader, for every buffer size, every stream   *)
(* and every number of lines a call may hand out.                          *)
(***************************************************************************)
EXTENDS EventReader, ListProofs

(* What a call passes ends with the last newline that it passes. *)
LEMMA CutPasses ==
    ASSUME NEW b \in Seq(Byte)
    PROVE  /\ Cut(b) \in 0..Len(b)
           /\ LineEnds(b) # {} => Cut(b) \in LineEnds(b)
           /\ LineEnds(b) = {} => Cut(b) = 0
           /\ Passed(b) = {i \in LineEnds(b) : i <= Cut(b)}
<1> DEFINE L == LineEnds(b)
           Before(i) == {j \in LineEnds(b) : j < i /\ ~Empty(b, j)}
<1>0. L \in SUBSET (1..Len(b)) /\ Len(b) \in Nat /\ L \subseteq Nat
  BY DEF LineEnds
<1>1. IsFiniteSet(L)
  BY <1>0, FinitePositions
<1>2. CASE L = {}
  BY <1>0, <1>2 DEF Cut, Passed
<1>3. CASE L # {}
  <2>1. PICK f \in L : \A j \in L : f <= j
    BY <1>0, <1>3, LeastNat
  <2>2. f \in Passed(b)
    <3>1. Before(f) = {}
      BY <1>0, <2>1
    <3>2. Cardinality(Before(f)) < MaxEvents
      <4>1. Cardinality(Before(f)) = 0
        BY <3>1, FS_EmptySet, Zenon
      <4> QED
        BY <4>1, MaxEventsAssumption
    <3> QED
      BY <2>1, <3>2 DEF Passed
  <2>3. Passed(b) \subseteq L /\ Passed(b) \subseteq 1..Len(b)
    BY <1>0 DEF Passed
  <2>4. \E m \in Passed(b) : \A j \in Passed(b) : j <= m
    BY <1>0, <2>2, <2>3, GreatestNat
  <2>5. Cut(b) \in Passed(b) /\ \A j \in Passed(b) : j <= Cut(b)
    BY <2>2, <2>4 DEF Cut
  <2>6. ASSUME NEW i \in L, i <= Cut(b)
        PROVE  i \in Passed(b)
    <3>1. Before(i) \subseteq Before(Cut(b)) /\ Before(Cut(b)) \subseteq L
      BY <1>0, <2>3, <2>5, <2>6
    <3>2. /\ IsFiniteSet(Before(Cut(b))) /\ IsFiniteSet(Before(i))
          /\ Cardinality(Before(i)) <= Cardinality(Before(Cut(b)))
      <4>1. IsFiniteSet(Before(Cut(b)))
        BY <1>1, <3>1, FS_Subset
      <4> HIDE DEF Before
      <4> QED
        BY <3>1, <4>1, FS_Subset
    <3>3. /\ Cardinality(Before(i)) \in Nat /\ Cardinality(Before(Cut(b))) \in Nat
      BY <3>2, FS_CardinalityType
    <3>4. Cardinality(Before(Cut(b))) < MaxEvents
      BY <2>5 DEF Passed
    <3> HIDE DEF Before
    <3>5. Cardinality(Before(i)) < MaxEvents
      BY <3>2, <3>3, <3>4, MaxEventsAssumption
    <3> QED
      BY <3>5 DEF Passed, Before
  <2>7. Passed(b) = {i \in L : i <= Cut(b)}
    BY <2>3, <2>5, <2>6
  <2> QED
    BY <1>0, <1>3, <2>3, <2>5, <2>7
<1> QED
  BY <1>2, <1>3

(* What a call leaves in the buffer, from the buffer and what it read. *)
LEMMA Remainder ==
    ASSUME NEW b \in Seq(Byte), Len(b) <= Size - 1
    PROVE  LET r == SubSeq(b, Cut(b) + 1, Len(b))
           IN  /\ r \in Seq(Byte)
               /\ Len(r) <= Size - 1
               /\ Space(r) <= 0 => LineEnds(r) = {}
<1> DEFINE r == SubSeq(b, Cut(b) + 1, Len(b))
<1>1. CASE LineEnds(b) = {}
  <2>1. r = b
    BY <1>1, CutPasses
  <2> QED
    BY <1>1, <2>1
<1>2. CASE LineEnds(b) # {}
  <2>1. Cut(b) \in 1..Len(b)
    BY <1>2, CutPasses DEF LineEnds
  <2>2. r \in Seq(Byte) /\ Len(r) = Len(b) - Cut(b)
    BY <2>1
  <2>3. Len(r) < Size - 1
    BY <2>1, <2>2, SizeAssumption
  <2> QED
    BY <2>2, <2>3, SizeAssumption DEF Space
<1> QED
  BY <1>1, <1>2

(* DiscardKeepsLines is inductive over the states of the right type. *)
IInv == TypeOK /\ DiscardKeepsLines

LEMMA InitInvariant == Init => IInv
<1> SUFFICES ASSUME Init PROVE IInv
  OBVIOUS
<1>1. Len(stream) \in Nat /\ stream \in Seq(Byte)
  BY StreamsAssumption DEF Init
<1>2. s_buf = <<>>
  BY DEF Init
<1>3. s_buf \in Seq(Byte) /\ Len(s_buf) = 0 /\ LineEnds(s_buf) = {}
  BY <1>2 DEF LineEnds
<1>4. Len(s_buf) <= Size - 1
  BY <1>3, SizeAssumption
<1>5. /\ written = 0 /\ taken = 0
      /\ closed \in BOOLEAN /\ s_fd \in BOOLEAN
  BY DEF Init
<1>6. written \in 0..Len(stream) /\ taken \in 0..written
  BY <1>1, <1>5
<1> QED
  BY <1>1, <1>3, <1>4, <1>5, <1>6 DEF IInv, TypeOK, DiscardKeepsLines

LEMMA StepInvariant == IInv /\ [Next]_vars => IInv'
<1> SUFFICES ASSUME IInv, [Next]_vars PROVE IInv'
  OBVIOUS
<1>0. stream \in Seq(Byte) /\ Len(stream) \in Nat /\ s_buf \in Seq(Byte)
  BY DEF IInv, TypeOK
<1>1. CASE Write
  <2>1. written' \in 0..Len(stream) /\ taken \in 0..written'
    BY <1>0, <1>1 DEF Write, IInv, TypeOK
  <2> QED
    BY <1>1, <2>1 DEF Write, IInv, TypeOK, DiscardKeepsLines
<1>2. CASE Close
  BY <1>2 DEF Close, IInv, TypeOK, DiscardKeepsLines
<1>3. CASE hypr_events_read
  <2>1. Kept \in Seq(Byte) /\ Len(Kept) \in 0..(Size - 2)
    BY <1>0, SizeAssumption DEF Kept, Space, IInv, TypeOK
  <2>2. CASE ReadLines
    <3>1. Chunk \in 0..(written - taken) /\ Chunk <= Size - 1 - Len(Kept)
      BY <2>1, <2>2, SizeAssumption DEF ReadLines, Chunk, Space, IInv, TypeOK
    <3>2. taken + Chunk \in 0..Len(stream) /\ taken \in Nat /\ Chunk \in Nat
      BY <1>0, <3>1 DEF IInv, TypeOK
    <3>3. /\ SubSeq(stream, taken + 1, taken + Chunk) \in Seq(Byte)
          /\ Len(SubSeq(stream, taken + 1, taken + Chunk)) = Chunk
      BY <1>0, <3>2
    <3>4. Filled \in Seq(Byte) /\ Len(Filled) <= Size - 1
      BY <2>1, <3>1, <3>3, SizeAssumption DEF Filled
    <3>5. taken' \in 0..written
      BY <2>2, <3>1 DEF ReadLines, IInv, TypeOK
    <3>6. /\ s_buf' \in Seq(Byte)
          /\ Len(s_buf') <= Size - 1
          /\ Space(s_buf') <= 0 => LineEnds(s_buf') = {}
      BY <2>2, <3>4, Remainder DEF ReadLines
    <3> QED
      BY <2>2, <3>5, <3>6 DEF ReadLines, IInv, TypeOK, DiscardKeepsLines
  <2>3. CASE ReadEnd
    <3>1. s_buf' \in Seq(Byte) /\ Len(s_buf') <= Size - 1
      BY <2>1, <2>3, SizeAssumption DEF ReadEnd
    <3>2. ~(Space(s_buf') <= 0)
      BY <2>1, <2>3, SizeAssumption DEF ReadEnd, Space
    <3>3. DiscardKeepsLines'
      BY <3>2 DEF DiscardKeepsLines
    <3>4. TypeOK'
      BY <2>3, <3>1 DEF ReadEnd, IInv, TypeOK
    <3> QED
      BY <3>3, <3>4 DEF IInv
  <2> QED
    BY <1>3, <2>2, <2>3 DEF hypr_events_read
<1>4. CASE UNCHANGED vars
  BY <1>4 DEF vars, IInv, TypeOK, DiscardKeepsLines
<1> QED
  BY <1>1, <1>2, <1>3, <1>4 DEF Next

(* Every variable has its type, and the buffer never outgrows its array. *)
THEOREM TypeCorrect == Spec => []TypeOK
<1>1. IInv => TypeOK
  BY DEF IInv
<1> QED
  BY <1>1, InitInvariant, StepInvariant, PTL DEF Spec

(* Whatever is written to the socket, the overflow branch of               *)
(* hypr_events_read never throws away a complete line.                     *)
THEOREM OverflowKeepsLines == Spec => []DiscardKeepsLines
<1>1. IInv => DiscardKeepsLines
  BY DEF IInv
<1> QED
  BY <1>1, InitInvariant, StepInvariant, PTL DEF Spec

-----------------------------------------------------------------------------
(* The reader implements the queue.  The buffer is the part of the stream   *)
(* from the byte behind start on; the lines of the stream that fit are out  *)
(* as far as start, and queued behind it.                                  *)

G == Whole(stream)
start == taken - Len(s_buf)
Lines(p, q) == LinesBetween(stream, G, p, q)

(* The queue and what was got, as module EventReader maps them. *)
QueueNow ==
    LinesIn(s_buf \o SubSeq(stream, taken + 1, written), Whole(stream))
GotNow == OutIn(Whole(stream))

RInv ==
    /\ IInv
    /\ stream \in Streams
    /\ out \in Seq(Seq(Byte))
    /\ Part(s_buf, stream, start, taken)
    /\ CutsNone(stream, start, G)
    /\ GotNow = Lines(0, start)

LEMMA RTypes ==
    RInv => /\ stream \in Seq(Byte) /\ Len(stream) \in Nat /\ s_buf \in Seq(Byte)
            /\ Len(s_buf) \in Nat /\ Len(s_buf) <= Size - 1
            /\ written \in Nat /\ written <= Len(stream)
            /\ taken \in Nat /\ taken <= written
            /\ start \in Nat /\ start <= taken /\ taken - start = Len(s_buf)
<1> SUFFICES ASSUME RInv
             PROVE  /\ stream \in Seq(Byte) /\ Len(stream) \in Nat /\ s_buf \in Seq(Byte)
                    /\ Len(s_buf) \in Nat /\ Len(s_buf) <= Size - 1
                    /\ written \in Nat /\ written <= Len(stream)
                    /\ taken \in Nat /\ taken <= written
                    /\ start \in Nat /\ start <= taken /\ taken - start = Len(s_buf)
  OBVIOUS
<1>1. stream \in Seq(Byte) /\ s_buf \in Seq(Byte) /\ start \in Nat
  BY DEF RInv, IInv, TypeOK, Part
<1>2. written \in 0..Len(stream) /\ taken \in 0..written /\ Len(s_buf) <= Size - 1
  BY DEF RInv, IInv, TypeOK
<1> QED
  BY <1>1, <1>2 DEF start

(* The queue holds the lines that end behind start. *)
LEMMA QueueIs == RInv => QueueNow = Lines(start, written)
<1> SUFFICES ASSUME RInv
             PROVE  QueueNow = Lines(start, written)
  OBVIOUS
<1> DEFINE R == s_buf \o SubSeq(stream, taken + 1, written)
<1>1. /\ stream \in Seq(Byte) /\ written \in Nat /\ taken <= written
      /\ written <= Len(stream)
      /\ Part(s_buf, stream, start, taken) /\ CutsNone(stream, start, G)
  BY RTypes DEF RInv
<1>2. Part(R, stream, start, written)
  BY <1>1, PartConcat
<1> HIDE DEF R
<1>3. LinesIn(R, G) = LinesAt(stream, EndsBetween(stream, G, start, written))
  BY <1>1, <1>2, PartAllLines
<1> QED
  BY <1>3, Zenon DEF QueueNow, R, G, Lines, LinesBetween

(* What is thrown away holds no line that fits, nor does the line it is     *)
(* torn from.                                                              *)
LEMMA KeptPart ==
    ASSUME RInv, FragmentsDiffer(stream)
    PROVE  LET kept == taken - Len(Kept)
           IN  /\ Part(Kept, stream, kept, taken)
               /\ CutsNone(stream, kept, G)
               /\ start <= kept /\ kept <= taken /\ kept \in Nat
               /\ EndsBetween(stream, G, start, kept) = {}
               /\ Len(Kept) <= Size - 2
<1>0. /\ stream \in Seq(Byte) /\ Len(stream) \in Nat /\ s_buf \in Seq(Byte)
      /\ Len(s_buf) \in Nat /\ Len(s_buf) <= Size - 1
      /\ taken \in Nat /\ taken <= Len(stream)
      /\ start \in Nat /\ start <= taken /\ taken - start = Len(s_buf)
  BY RTypes
<1>1. Part(s_buf, stream, start, taken) /\ CutsNone(stream, start, G)
  BY DEF RInv
<1>2. CASE ~(Space(s_buf) <= 0)
  <2>1. Kept = s_buf /\ taken - Len(s_buf) = start
    BY <1>0, <1>2 DEF Kept
  <2>2. Len(s_buf) <= Size - 2
    BY <1>0, <1>2, SizeAssumption DEF Space
  <2>3. EndsBetween(stream, G, start, start) = {}
    BY <1>0, NoLinesBetween
  <2> QED
    BY <1>0, <1>1, <2>1, <2>2, <2>3
<1>3. CASE Space(s_buf) <= 0
  <2>1. Kept = <<>> /\ Len(Kept) = 0
    BY <1>3 DEF Kept
  <2>2. LineEnds(s_buf) = {} /\ Len(s_buf) = Size - 1
    <3>1. LineEnds(s_buf) = {}
      BY <1>3 DEF RInv, IInv, DiscardKeepsLines
    <3> QED
      BY <1>0, <1>3, <3>1, SizeAssumption DEF Space
  <2>3. /\ EndsBetween(stream, G, start, taken) = {}
        /\ \A i \in LineEnds(stream) : LineStart(stream, i) <= taken /\ taken < i =>
              Len(LineAt(stream, i)) \in Nat /\ Len(LineAt(stream, i)) >= taken - start
    BY <1>0, <1>1, <2>2, PartWithoutLines
  <2>4. Part(Kept, stream, taken, taken)
    BY <1>0, <2>1, EmptyPart
  <2>5. CutsNone(stream, taken, G)
    <3> SUFFICES ASSUME NEW i \in LineEnds(stream),
                        LineStart(stream, i) <= taken, taken < i
                 PROVE  /\ LineAt(stream, i) \notin G
                        /\ SubSeq(stream, taken + 1, i - 1) \notin G
      BY DEF CutsNone
    <3>1. Len(LineAt(stream, i)) \in Nat /\ Len(LineAt(stream, i)) >= taken - start
      BY <2>3
    <3>2. Len(LineAt(stream, i)) > Size - 2 /\ ~(Len(LineAt(stream, i)) <= Size - 2)
      BY <1>0, <2>2, <3>1, SizeAssumption
    <3>3. LineAt(stream, i) \notin G
      BY <3>2 DEF G, Whole
    <3>4. i \in 1..Len(stream)
      BY DEF LineEnds
    <3>5. LineStart(stream, i) \in 1..i
      BY <1>0, <3>4, LineAtType
    <3>6. taken \in LineStart(stream, i)..(i - 1)
      BY <1>0, <3>4, <3>5
    <3>7. SubSeq(stream, taken + 1, i - 1) \notin G
      BY <3>2, <3>6 DEF FragmentsDiffer, G
    <3> QED
      BY <3>3, <3>7
  <2> QED
    BY <1>0, <2>1, <2>3, <2>4, <2>5, SizeAssumption
<1> QED
  BY <1>2, <1>3

LEMMA InitRefines ==
    ASSUME Init
    PROVE  RInv /\ QueueNow = <<>> /\ GotNow = <<>>
<1>1. IInv /\ stream \in Streams /\ stream \in Seq(Byte) /\ Len(stream) \in Nat
  BY InitInvariant, StreamsAssumption DEF Init
<1>2. /\ s_buf = <<>> /\ out = <<>> /\ taken = 0 /\ written = 0
      /\ Len(s_buf) = 0 /\ start = 0 /\ s_buf \in Seq(Byte) /\ out \in Seq(Seq(Byte))
  <2>1. s_buf = <<>> /\ out = <<>> /\ taken = 0 /\ written = 0
    BY DEF Init
  <2>2. <<>> \in Seq(Byte) /\ <<>> \in Seq(Seq(Byte)) /\ Len(<<>>) = 0
    OBVIOUS
  <2>3. /\ s_buf \in Seq(Byte) /\ out \in Seq(Seq(Byte))
        /\ Len(s_buf) = 0
    BY <2>1, <2>2, Zenon
  <2>4. start = 0
    <3>1. start = 0 - 0
      BY <2>1, <2>3, Zenon DEF start
    <3> QED
      BY <3>1
  <2> QED
    BY <2>1, <2>3, <2>4, Zenon
<1>3. Part(s_buf, stream, start, taken)
  <2>1. 1..(taken - start) = {} /\ Len(s_buf) = taken - start
    BY <1>2
  <2>2. start \in Nat /\ taken \in Nat /\ start <= taken /\ taken <= Len(stream)
    BY <1>1, <1>2
  <2> QED
    BY <1>1, <1>2, <2>1, <2>2, PartIs
<1>4. CutsNone(stream, start, G)
  BY <1>1, <1>2, CutsNoneAtStart
<1>6. Lines(0, 0) = <<>>
  BY <1>1, NoLinesBetween DEF Lines
<1>7. GotNow = <<>>
  BY <1>2, NoMembers DEF GotNow, OutIn
<1>8. RInv
  BY <1>1, <1>2, <1>3, <1>4, <1>6, <1>7 DEF RInv
<1>9. QueueNow = <<>>
  BY <1>2, <1>6, <1>8, QueueIs
<1> QED
  BY <1>7, <1>8, <1>9

(* One call hands out the lines of Filled that end within its cut. *)
LEMMA NewLines ==
    ASSUME RInv, NEW b \in Seq(Byte), NEW p \in Nat, NEW q \in Nat,
           Part(b, stream, p, q), CutsNone(stream, p, G)
    PROVE  LET new == LinesAt(b, {i \in Passed(b) : ~Empty(b, i)})
           IN  /\ new \in Seq(Seq(Byte))
               /\ MembersIn(new, G) = Lines(p, p + Cut(b))
<1> DEFINE P == {i \in Passed(b) : ~Empty(b, i)}
           new == LinesAt(b, P)
           c == Cut(b)
<1>0. stream \in Seq(Byte) /\ Len(b) \in Nat
  BY RTypes
<1>1. /\ c \in 0..Len(b) /\ Passed(b) = {i \in LineEnds(b) : i <= c}
  BY CutPasses
<1>2. Len(b) = q - p
  BY <1>0, PartType
<1>3. P \in SUBSET (1..Len(b)) /\ Positions(P)
  <2>1. P \in SUBSET (1..Len(b))
    BY <1>1 DEF LineEnds
  <2> HIDE DEF P
  <2> QED
    BY <1>0, <2>1, Zenon DEF Positions
<1>4. \A i \in P : LineAt(b, i) \in Seq(Byte)
  BY <1>3, LineAtType
<1>5. new \in Seq(Seq(Byte))
  <2> HIDE DEF P
  <2> QED
    BY <1>3, <1>4, LinesSeq
<1> DEFINE T == {k \in EndsIn(b, G) : k <= c}
<1>6. T \subseteq P /\ \A i \in P : i \in T <=> LineAt(b, i) \in G
  BY <1>1 DEF EndsIn
<1>7. MembersIn(new, G) = LinesAt(b, T)
  <2> HIDE DEF P, T
  <2> QED
    BY <1>3, <1>6, EntriesOfLines, Zenon
<1>8. LinesAt(b, {k \in EndsIn(b, G) : k <= c}) = Lines(p, p + c)
  <2>1. c \in 0..(q - p)
    BY <1>1, <1>2
  <2> HIDE DEF c
  <2>2. LinesAt(b, {k \in EndsIn(b, G) : k <= c})
          = LinesAt(stream, EndsBetween(stream, G, p, p + c))
    BY <1>0, <2>1, PartLines
  <2> QED
    BY <2>2, Zenon DEF Lines, LinesBetween
<1> HIDE DEF P, c
<1> QED
  BY <1>5, <1>7, <1>8 DEF P, c

(* A step that only adds to what is written, or only moves start forward,   *)
(* sends to the queue or receives from it.                                 *)
LEMMA StepRefines ==
    ASSUME RInv, RInv', UNCHANGED stream,
           \/ UNCHANGED start /\ written <= written'
           \/ start <= start' /\ UNCHANGED written
    PROVE  Queue!Next
<1>1. QueueNow = Lines(start, written) /\ GotNow = Lines(0, start)
  BY QueueIs DEF RInv
<1>2. QueueNow' = Lines(start', written') /\ GotNow' = Lines(0, start')
  <2>1. (QueueNow = Lines(start, written))'
    BY QueueIs, PTL
  <2>2. (Lines(start, written))' = Lines(start', written')
    BY DEF Lines, G
  <2>3. (Lines(0, start))' = Lines(0, start')
    BY DEF Lines, G
  <2> QED
    BY <2>1, <2>2, <2>3 DEF RInv
<1>3. /\ stream \in Seq(Byte) /\ start \in Int /\ written \in Int
      /\ 0 <= start /\ start <= written
  BY RTypes
<1>4. /\ start' \in Int /\ written' \in Int /\ 0 <= start' /\ start' <= written'
  <2>1. (/\ start \in Nat /\ written \in Nat /\ taken \in Nat
         /\ start <= taken /\ taken <= written)'
    BY RTypes, PTL
  <2> QED
    BY <2>1
<1>5. \A p, q, r : InOrder(p, q, r) => Lines(p, r) = Lines(p, q) \o Lines(q, r)
  BY <1>3, LinesBetweenConcat DEF Lines
<1>6. \A p, q : Lines(p, q) \in Seq(Seq(Byte))
  BY <1>3, LinesBetweenType DEF Lines
<1>7. CASE UNCHANGED start /\ written <= written'
  <2>1. QueueNow' = QueueNow \o Lines(written, written') /\ GotNow' = GotNow
    <3>1. InOrder(start, written, written')
      BY <1>3, <1>4, <1>7 DEF InOrder
    <3>2. Lines(start, written') = Lines(start, written) \o Lines(written, written')
      BY <1>5, <3>1
    <3>3. QueueNow' = Lines(start, written') /\ GotNow' = Lines(0, start)
      BY <1>2, <1>7
    <3> QED
      BY <1>1, <3>2, <3>3
  <2>2. Queue!IsPrefix(QueueNow, QueueNow')
    <3>1. IsPrefix(QueueNow, QueueNow')
      BY <1>1, <1>6, <2>1, PrefixConcat
    <3> QED
      BY <3>1 DEF IsPrefix, Queue!IsPrefix
  <2> QED
    BY <2>1, <2>2, Zenon DEF Queue!Next, Queue!Send, QueueNow, GotNow
<1>8. CASE start <= start' /\ UNCHANGED written
  <2>1. GotNow' = GotNow \o Lines(start, start')
    <3>1. InOrder(0, start, start')
      BY <1>3, <1>4, <1>8 DEF InOrder
    <3> QED
      BY <1>1, <1>2, <1>5, <3>1
  <2>2. Queue!IsPrefix(GotNow, GotNow')
    <3>1. IsPrefix(GotNow, GotNow')
      BY <1>1, <1>6, <2>1, PrefixConcat
    <3> QED
      BY <3>1 DEF IsPrefix, Queue!IsPrefix
  <2>3. GotNow' \o QueueNow' = Lines(0, written')
    <3>1. InOrder(0, start', written')
      BY <1>4 DEF InOrder
    <3>2. Lines(0, written') = Lines(0, start') \o Lines(start', written')
      BY <1>5, <3>1
    <3> QED
      BY <1>2, <3>2
  <2>4. GotNow \o QueueNow = Lines(0, written)
    <3>1. InOrder(0, start, written)
      BY <1>3 DEF InOrder
    <3> QED
      BY <1>1, <1>5, <3>1
  <2>5. GotNow' \o QueueNow' = GotNow \o QueueNow
    BY <1>8, <2>3, <2>4
  <2> QED
    BY <2>2, <2>5, Zenon DEF Queue!Next, Queue!Receive, QueueNow, GotNow
<1> QED
  BY <1>7, <1>8

LEMMA WriteStep ==
    ASSUME RInv, Write
    PROVE  RInv' /\ UNCHANGED <<stream, start>> /\ written <= written'
<1>1. UNCHANGED <<stream, taken, s_buf, out>>
  BY DEF Write
<1>2. /\ UNCHANGED start /\ UNCHANGED G /\ UNCHANGED GotNow
      /\ (Lines(0, start))' = Lines(0, start)
  BY <1>1 DEF start, G, GotNow, OutIn, Lines
<1>3. IInv'
  BY StepInvariant DEF RInv, Next
<1>4. written <= written'
  BY RTypes DEF Write
<1> QED
  BY <1>1, <1>2, <1>3, <1>4 DEF RInv

LEMMA CloseStep ==
    ASSUME RInv, Close
    PROVE  RInv' /\ UNCHANGED <<stream, start, written>>
<1>1. UNCHANGED <<stream, written, taken, s_buf, out>>
  BY DEF Close
<1>2. /\ UNCHANGED start /\ UNCHANGED G /\ UNCHANGED GotNow
      /\ (Lines(0, start))' = Lines(0, start)
  BY <1>1 DEF start, G, GotNow, OutIn, Lines
<1>3. IInv'
  BY StepInvariant DEF RInv, Next
<1> QED
  BY <1>1, <1>2, <1>3 DEF RInv

LEMMA ReadLinesStep ==
    ASSUME RInv, FragmentsDiffer(stream), s_fd, ReadLines
    PROVE  RInv' /\ UNCHANGED <<stream, written>> /\ start <= start'
<1> DEFINE kept == taken - Len(Kept)
           till == taken + Chunk
           c == Cut(Filled)
           next == kept + c
           new == LinesAt(Filled, {i \in Passed(Filled) : ~Empty(Filled, i)})
<1>0. /\ stream \in Seq(Byte) /\ Len(stream) \in Nat
      /\ written \in Nat /\ written <= Len(stream)
      /\ taken \in Nat /\ taken <= written /\ start \in Nat
  BY RTypes
<1>1. /\ Part(Kept, stream, kept, taken) /\ CutsNone(stream, kept, G)
      /\ start <= kept /\ kept <= taken /\ kept \in Nat
      /\ EndsBetween(stream, G, start, kept) = {} /\ Len(Kept) <= Size - 2
  BY KeptPart
<1>2. UNCHANGED <<stream, written, s_fd>>
  BY DEF ReadLines
<1>3. /\ taken' = till /\ out' = out \o new
      /\ s_buf' = SubSeq(Filled, c + 1, Len(Filled))
  BY DEF ReadLines
<1>4. IInv'
  BY StepInvariant DEF RInv, Next, hypr_events_read
<1>5. till \in Nat /\ taken <= till /\ till <= written /\ till <= Len(stream)
  <2>1. Len(Kept) \in Nat /\ Size \in Nat
    BY <1>0, <1>1, PartType, SizeAssumption
  <2>2. Chunk \in Int /\ 0 <= Chunk /\ Chunk <= written - taken
    BY <1>0, <1>1, <2>1 DEF Chunk, Space
  <2> QED
    BY <1>0, <2>2
<1>6. Part(Filled, stream, kept, till)
  <2> HIDE DEF kept, till
  <2>1. Part(Kept \o SubSeq(stream, taken + 1, till), stream, kept, till)
    BY <1>0, <1>1, <1>5, PartConcat
  <2> QED
    BY <2>1 DEF Filled, till
<1> HIDE DEF kept, till
<1>7. Filled \in Seq(Byte) /\ Len(Filled) = till - kept
  BY <1>0, <1>6, PartType
<1>8. /\ c \in Nat /\ c <= till - kept
      /\ LineEnds(Filled) # {} => c \in LineEnds(Filled)
      /\ LineEnds(Filled) = {} => c = 0
  <2>1. /\ c \in 0..Len(Filled)
        /\ LineEnds(Filled) # {} => c \in LineEnds(Filled)
        /\ LineEnds(Filled) = {} => c = 0
    BY <1>7, CutPasses
  <2> HIDE DEF c
  <2> QED
    BY <1>7, <2>1
<1>9. Part(s_buf', stream, next, till)
  <2> HIDE DEF c
  <2> QED
    BY <1>0, <1>3, <1>6, <1>8, PartRest
<1>10. next \in Nat /\ start <= next /\ next <= till
  <2> HIDE DEF c
  <2> QED
    BY <1>0, <1>1, <1>5, <1>8
<1>11. start' = next
  <2> HIDE DEF next
  <2>1. Len(s_buf') = till - next
    BY <1>0, <1>9, PartType
  <2>2. start' = till - (till - next)
    BY <1>3, <2>1 DEF start
  <2> QED
    BY <1>5, <1>10, <2>2
<1>12. CutsNone(stream, next, G)
  <2>1. CASE LineEnds(Filled) = {}
    <3>1. next = kept
      BY <1>1, <1>8, <2>1
    <3> QED
      BY <1>1, <3>1
  <2>2. CASE LineEnds(Filled) # {}
    <3> HIDE DEF c
    <3>1. c \in LineEnds(Filled) /\ c \in 1..(till - kept)
      BY <1>7, <1>8, <2>2 DEF LineEnds
    <3>2. next \in LineEnds(stream)
      BY <1>0, <1>6, <3>1, PartLineEnds
    <3> HIDE DEF next
    <3> QED
      BY <1>0, <3>2, CutsNoneBehindNewline
  <2> QED
    BY <2>1, <2>2
<1>13. new \in Seq(Seq(Byte)) /\ MembersIn(new, G) = Lines(kept, next)
  BY <1>1, <1>5, <1>6, <1>7, NewLines
<1> HIDE DEF new, next
<1>14. GotNow' = GotNow \o Lines(kept, next)
  <2>1. out \in Seq(Seq(Byte)) /\ UNCHANGED G
    BY <1>2 DEF RInv, G
  <2>2. MembersIn(out \o new, G) = MembersIn(out, G) \o MembersIn(new, G)
    <3>1. \A a, b \in Seq(Seq(Byte)) :
              MembersIn(a \o b, G) = MembersIn(a, G) \o MembersIn(b, G)
      BY MembersConcat
    <3> QED
      BY <1>13, <2>1, <3>1, Zenon
  <2>3. GotNow = MembersIn(out, G) /\ GotNow' = MembersIn(out', G')
    BY DEF GotNow, OutIn, G
  <2> QED
    BY <1>3, <1>13, <2>1, <2>2, <2>3, Zenon
<1>15. Lines(0, next) = Lines(0, start) \o Lines(kept, next)
  <2>1. InOrder(0, start, next)
    BY <1>0, <1>10 DEF InOrder
  <2>2. Lines(0, next) = Lines(0, start) \o Lines(start, next)
    BY <1>0, <2>1, LinesBetweenConcat DEF Lines
  <2>3. InOrder(start, kept, next)
    BY <1>0, <1>1, <1>8, <1>10 DEF InOrder, next
  <2>4. Lines(start, next) = Lines(kept, next)
    BY <1>0, <1>1, <2>3, LinesOverGap DEF Lines
  <2> QED
    BY <2>2, <2>4
<1>16. (Lines(0, start))' = Lines(0, next)
  BY <1>2, <1>11 DEF Lines, G
<1>17. GotNow' = (Lines(0, start))'
  BY <1>14, <1>15, <1>16 DEF RInv
<1>18. out' \in Seq(Seq(Byte))
  BY <1>3, <1>13 DEF RInv
<1>19. UNCHANGED G
  BY <1>2 DEF G
<1>20. Part(s_buf', stream', start', taken') /\ CutsNone(stream', start', G')
  BY <1>2, <1>3, <1>9, <1>11, <1>12, <1>19
<1> QED
  BY <1>2, <1>4, <1>10, <1>11, <1>17, <1>18, <1>20 DEF RInv

LEMMA ReadEndStep ==
    ASSUME RInv, FragmentsDiffer(stream), s_fd, ReadEnd
    PROVE  RInv' /\ UNCHANGED <<stream, written>> /\ start <= start'
<1> DEFINE kept == taken - Len(Kept)
<1>1. /\ Part(Kept, stream, kept, taken) /\ CutsNone(stream, kept, G)
      /\ start <= kept /\ kept <= taken /\ kept \in Nat
      /\ EndsBetween(stream, G, start, kept) = {}
  BY KeptPart
<1>2. UNCHANGED <<stream, written, taken, out>> /\ s_buf' = Kept
  BY DEF ReadEnd
<1>3. start' = kept
  BY <1>2 DEF start
<1> HIDE DEF kept
<1>4. IInv'
  BY StepInvariant DEF RInv, Next, hypr_events_read
<1>5. /\ stream \in Seq(Byte) /\ start \in Nat
      /\ out \in Seq(Seq(Byte)) /\ GotNow = Lines(0, start)
  BY RTypes DEF RInv
<1>6. Lines(0, kept) = Lines(0, start)
  <2>1. InOrder(0, start, kept) /\ InOrder(start, kept, kept) /\ kept \in Int
    BY <1>1, <1>5 DEF InOrder
  <2>2. Lines(0, kept) = Lines(0, start) \o Lines(start, kept)
    <3>1. \A p, q, r : InOrder(p, q, r) => Lines(p, r) = Lines(p, q) \o Lines(q, r)
      BY <1>5, LinesBetweenConcat DEF Lines
    <3> QED
      BY <2>1, <3>1
  <2>3. Lines(start, kept) = Lines(kept, kept)
    BY <1>1, <1>5, <2>1, LinesOverGap DEF Lines
  <2>4. Lines(kept, kept) = <<>>
    BY <1>5, <2>1, NoLinesBetween DEF Lines
  <2>5. Lines(0, start) \in Seq(Seq(Byte))
    BY <1>5, LinesBetweenType DEF Lines
  <2> QED
    BY <2>2, <2>3, <2>4, <2>5, ConcatEmptySeq
<1>7. UNCHANGED G /\ UNCHANGED GotNow /\ (Lines(0, start))' = Lines(0, kept)
  BY <1>2, <1>3 DEF G, GotNow, OutIn, Lines
<1> QED
  BY <1>1, <1>2, <1>3, <1>4, <1>5, <1>6, <1>7 DEF RInv

(* For the lines that fit, the reader is a queue (hypr_events.c:131-179):   *)
(* on every stream in which what is left of a line that is torn cannot be   *)
(* taken for one of them, each is handed out whole, once and in order.     *)
THEOREM ReaderIsAQueue ==
    ASSUME \A s \in Streams : FragmentsDiffer(s)
    PROVE  Spec => ImplementsQueue
<1>1. Init => RInv /\ Queue!Init
  BY InitRefines DEF Queue!Init, QueueNow, GotNow
<1>2. RInv /\ [Next]_vars => RInv' /\ (Queue!Next \/ UNCHANGED <<QueueNow, GotNow>>)
  <2> SUFFICES ASSUME RInv, [Next]_vars
               PROVE  RInv' /\ (Queue!Next \/ UNCHANGED <<QueueNow, GotNow>>)
    OBVIOUS
  <2>0. FragmentsDiffer(stream)
    BY DEF RInv
  <2>1. CASE Write
    BY <2>1, WriteStep, StepRefines
  <2>2. CASE Close
    <3>1. RInv' /\ UNCHANGED <<stream, start, written>>
      BY <2>2, CloseStep
    <3>2. start <= start'
      BY <3>1, RTypes
    <3> QED
      BY <3>1, <3>2, StepRefines
  <2>3. CASE s_fd /\ ReadLines
    BY <2>0, <2>3, ReadLinesStep, StepRefines
  <2>4. CASE s_fd /\ ReadEnd
    BY <2>0, <2>4, ReadEndStep, StepRefines
  <2>5. CASE UNCHANGED vars
    <3>1. UNCHANGED <<QueueNow, GotNow, G>>
      BY <2>5 DEF vars, QueueNow, GotNow, OutIn, G
    <3>2. RInv'
      BY <2>5, <3>1 DEF vars, RInv, IInv, TypeOK, DiscardKeepsLines, Lines, start
    <3> QED
      BY <3>1, <3>2
  <2> QED
    BY <2>1, <2>2, <2>3, <2>4, <2>5 DEF Next, hypr_events_read
<1>3. (Queue!Next \/ UNCHANGED <<QueueNow, GotNow>>)
        => [Queue!Next]_<<LinesIn(s_buf \o SubSeq(stream, taken + 1, written), Whole(stream)),
                          OutIn(Whole(stream))>>
  BY DEF QueueNow, GotNow
<1> QED
  BY <1>1, <1>2, <1>3, PTL DEF Spec, ImplementsQueue, Queue!Spec
=============================================================================
