------------------------ MODULE CommandReaderProofs -------------------------
(***************************************************************************)
(* Theorems about module CommandReader, for every buffer size, every stream *)
(* of the shell and every set of commands.                                 *)
(***************************************************************************)
EXTENDS CommandReader, ListProofs

(* The first newline. *)
LEMMA FirstIs ==
    ASSUME NEW b \in Seq(Byte), LineEnds(b) # {}
    PROVE  First(b) \in LineEnds(b) /\ \A j \in LineEnds(b) : First(b) <= j
<1>1. LineEnds(b) \subseteq Nat
  BY DEF LineEnds
<1>2. \E i \in LineEnds(b) : \A j \in LineEnds(b) : i <= j
  BY <1>1, LeastNat
<1> QED
  BY <1>2 DEF First

(* The buffer is the part of the stream from the byte behind start on; its  *)
(* commands are handled as far as start, and queued behind it.  A buffer   *)
(* that is full has no newline.                                            *)

start == taken - Len(s_stdin_buf)
Lines(p, q) == LinesBetween(stream, Commands, p, q)

(* The queue, as module CommandReader maps it. *)
QueueNow ==
    LinesIn(s_stdin_buf \o SubSeq(stream, taken + 1, written), Commands)

IInv ==
    /\ TypeOK
    /\ Space(s_stdin_buf) <= 0 => LineEnds(s_stdin_buf) = {}
    /\ Part(s_stdin_buf, stream, start, taken)

CInv ==
    /\ IInv
    /\ stream \in Streams
    /\ CutsNone(stream, start, Commands)
    /\ out = Lines(0, start)

LEMMA CTypes ==
    IInv => /\ stream \in Seq(Byte) /\ Len(stream) \in Nat /\ s_stdin_buf \in Seq(Byte)
            /\ Len(s_stdin_buf) \in Nat /\ Len(s_stdin_buf) <= Size - 1
            /\ written \in Nat /\ written <= Len(stream)
            /\ taken \in Nat /\ taken <= written
            /\ start \in Nat /\ start <= taken /\ taken - start = Len(s_stdin_buf)
<1> SUFFICES ASSUME IInv
             PROVE  /\ stream \in Seq(Byte) /\ Len(stream) \in Nat /\ s_stdin_buf \in Seq(Byte)
                    /\ Len(s_stdin_buf) \in Nat /\ Len(s_stdin_buf) <= Size - 1
                    /\ written \in Nat /\ written <= Len(stream)
                    /\ taken \in Nat /\ taken <= written
                    /\ start \in Nat /\ start <= taken /\ taken - start = Len(s_stdin_buf)
  OBVIOUS
<1>1. stream \in Seq(Byte) /\ s_stdin_buf \in Seq(Byte) /\ start \in Nat
  BY DEF IInv, TypeOK, Part
<1>2. written \in 0..Len(stream) /\ taken \in 0..written /\ Len(s_stdin_buf) <= Size - 1
  BY DEF IInv, TypeOK
<1> QED
  BY <1>1, <1>2 DEF start

-----------------------------------------------------------------------------
(* Type correctness. *)

(* What a call starts from: the buffer, or nothing when the buffer is full. *)
LEMMA KeptType ==
    ASSUME IInv
    PROVE  LET kept == taken - Len(Kept)
           IN  /\ Kept \in Seq(Byte) /\ Len(Kept) \in Nat /\ Len(Kept) <= Size - 2
               /\ Part(Kept, stream, kept, taken)
               /\ kept \in Nat /\ start <= kept /\ kept <= taken
<1>0. /\ stream \in Seq(Byte) /\ Len(stream) \in Nat /\ s_stdin_buf \in Seq(Byte)
      /\ Len(s_stdin_buf) \in Nat /\ Len(s_stdin_buf) <= Size - 1
      /\ taken \in Nat /\ taken <= Len(stream)
      /\ start \in Nat /\ start <= taken /\ taken - start = Len(s_stdin_buf)
  BY CTypes
<1>1. CASE ~(Space(s_stdin_buf) <= 0)
  <2>1. Kept = s_stdin_buf /\ taken - Len(s_stdin_buf) = start
    BY <1>0, <1>1 DEF Kept
  <2>2. Len(s_stdin_buf) <= Size - 2
    BY <1>0, <1>1, SizeAssumption DEF Space
  <2> QED
    BY <1>0, <2>1, <2>2 DEF IInv
<1>2. CASE Space(s_stdin_buf) <= 0
  <2>1. Kept = <<>> /\ Len(Kept) = 0
    BY <1>2 DEF Kept
  <2>2. Kept \in Seq(Byte)
    BY <2>1
  <2>3. Part(Kept, stream, taken, taken)
    BY <1>0, <2>1, EmptyPart
  <2> QED
    BY <1>0, <2>1, <2>2, <2>3, SizeAssumption
<1> QED
  BY <1>1, <1>2

(* What a call looks at: what it kept and what it read. *)
LEMMA FilledType ==
    ASSUME IInv
    PROVE  LET kept == taken - Len(Kept)
               till == taken + Chunk
           IN  /\ till \in Nat /\ taken <= till /\ till <= written
               /\ till <= Len(stream)
               /\ Part(Filled, stream, kept, till)
               /\ Filled \in Seq(Byte) /\ Len(Filled) = till - kept
               /\ Len(Filled) <= Size - 1
<1> DEFINE kept == taken - Len(Kept)
           till == taken + Chunk
<1>0. /\ stream \in Seq(Byte) /\ Len(stream) \in Nat
      /\ written \in Nat /\ written <= Len(stream)
      /\ taken \in Nat /\ taken <= written
  BY CTypes
<1>1. /\ Len(Kept) \in Nat /\ Len(Kept) <= Size - 2
      /\ Part(Kept, stream, kept, taken) /\ kept \in Nat
  BY KeptType
<1>2. Chunk \in Int /\ 0 <= Chunk /\ Chunk <= written - taken
                    /\ Chunk <= Size - 1 - Len(Kept)
  BY <1>0, <1>1, SizeAssumption DEF Chunk, Space
<1>3. till \in Nat /\ taken <= till /\ till <= written /\ till <= Len(stream)
  BY <1>0, <1>2
<1>4. till - kept <= Size - 1
  BY <1>0, <1>1, <1>2, SizeAssumption
<1>5. Part(Filled, stream, kept, till)
  <2> HIDE DEF kept, till
  <2>1. Part(Kept \o SubSeq(stream, taken + 1, till), stream, kept, till)
    BY <1>0, <1>1, <1>3, PartConcat
  <2> QED
    BY <2>1 DEF Filled, till
<1> HIDE DEF kept, till
<1>6. Filled \in Seq(Byte) /\ Len(Filled) = till - kept
  BY <1>0, <1>5, PartType
<1> QED
  BY <1>3, <1>4, <1>5, <1>6 DEF kept, till

(* What TakeLine leaves. *)
LEMMA RestType ==
    ASSUME IInv, LineEnds(Filled) # {}
    PROVE  LET kept == taken - Len(Kept)
               till == taken + Chunk
               c == First(Filled)
               rest == SubSeq(Filled, c + 1, Len(Filled))
           IN  /\ c \in Nat \ {0} /\ c <= till - kept
               /\ Part(rest, stream, kept + c, till)
               /\ rest \in Seq(Byte) /\ Len(rest) = till - (kept + c)
               /\ Len(rest) <= Size - 2
<1> DEFINE kept == taken - Len(Kept)
           till == taken + Chunk
           c == First(Filled)
           next == kept + c
           rest == SubSeq(Filled, c + 1, Len(Filled))
<1>1. /\ till \in Nat /\ Part(Filled, stream, kept, till)
      /\ Filled \in Seq(Byte) /\ Len(Filled) = till - kept /\ Len(Filled) <= Size - 1
  BY FilledType
<1>2. stream \in Seq(Byte) /\ kept \in Nat
  BY CTypes, KeptType
<1> HIDE DEF kept, till
<1>3. c \in Nat \ {0} /\ c <= till - kept
  <2>1. c \in 1..Len(Filled)
    BY <1>1, FirstIs DEF LineEnds
  <2> HIDE DEF c
  <2> QED
    BY <1>1, <2>1
<1> HIDE DEF c
<1>4. Part(rest, stream, next, till)
  BY <1>1, <1>2, <1>3, PartRest
<1> HIDE DEF rest
<1>5. rest \in Seq(Byte) /\ Len(rest) = till - next
  BY <1>2, <1>4, PartType
<1>6. till - next <= Size - 2
  BY <1>1, <1>2, <1>3, SizeAssumption
<1> QED
  BY <1>3, <1>4, <1>5, <1>6 DEF kept, till, c, rest

LEMMA InitInvariant == Init => IInv
<1> SUFFICES ASSUME Init PROVE IInv
  OBVIOUS
<1>1. stream \in Seq(Byte) /\ Len(stream) \in Nat
  BY StreamsAssumption DEF Init
<1>2. s_stdin_buf = <<>> /\ taken = 0 /\ written = 0
  BY DEF Init
<1>3. /\ <<>> \in Seq(Byte) /\ Len(<<>>) = 0 /\ LineEnds(<<>>) = {}
  BY DEF LineEnds
<1>4. s_stdin_buf \in Seq(Byte) /\ Len(s_stdin_buf) = 0 /\ LineEnds(s_stdin_buf) = {}
  BY <1>2, <1>3, Zenon
<1>5. start = 0
  <2>1. start = 0 - 0
    BY <1>2, <1>4, Zenon DEF start
  <2> QED
    BY <2>1
<1>6. Part(s_stdin_buf, stream, start, taken)
  <2>1. 0 \in Nat /\ 0 <= Len(stream)
    BY <1>1
  <2>2. Part(<<>>, stream, 0, 0)
    BY <1>1, <2>1, EmptyPart
  <2> QED
    BY <1>2, <1>5, <2>2, Zenon
<1>7. /\ written \in 0..Len(stream) /\ taken \in 0..written
      /\ Len(s_stdin_buf) <= Size - 1
  BY <1>1, <1>2, <1>4, SizeAssumption
<1>8. closed \in BOOLEAN /\ hup \in BOOLEAN /\ pc \in {"poll", "commands", "stopped"}
  BY DEF Init
<1> QED
  BY <1>1, <1>4, <1>6, <1>7, <1>8 DEF IInv, TypeOK

LEMMA StepInvariant == IInv /\ [Next]_vars => IInv'
<1> SUFFICES ASSUME IInv, [Next]_vars PROVE IInv'
  OBVIOUS
<1> USE DEF IInv, TypeOK
<1>0. /\ stream \in Seq(Byte) /\ Len(stream) \in Nat /\ s_stdin_buf \in Seq(Byte)
      /\ written \in Nat /\ written <= Len(stream) /\ taken \in Nat /\ taken <= written
  BY CTypes
<1>1. CASE Write
  <2>1. written' \in 0..Len(stream) /\ taken \in 0..written'
    BY <1>0, <1>1 DEF Write
  <2>2. UNCHANGED <<stream, closed, taken, s_stdin_buf, pc, hup>> /\ UNCHANGED start
    BY <1>1 DEF Write, start
  <2> QED
    BY <2>1, <2>2
<1>2. CASE Close
  <2>1. UNCHANGED <<stream, written, taken, s_stdin_buf, pc, hup>> /\ closed' \in BOOLEAN
    BY <1>2 DEF Close
  <2>2. UNCHANGED start
    BY <2>1 DEF start
  <2> QED
    BY <2>1, <2>2
<1>3. CASE Poll
  <2>1. /\ UNCHANGED <<stream, written, closed, taken, s_stdin_buf>>
        /\ hup' \in BOOLEAN /\ pc' \in {"poll", "commands", "stopped"}
    BY <1>3 DEF Poll
  <2>2. UNCHANGED start
    BY <2>1 DEF start
  <2> QED
    BY <2>1, <2>2
<1>4. CASE protocol_read_cmd
  <2> DEFINE kept == taken - Len(Kept)
             till == taken + Chunk
  <2>0. UNCHANGED <<stream, written, closed, hup>>
    BY <1>4 DEF protocol_read_cmd
  <2>1. /\ Kept \in Seq(Byte) /\ Len(Kept) \in Nat /\ Len(Kept) <= Size - 2
        /\ Part(Kept, stream, kept, taken) /\ kept \in Nat
    BY KeptType
  <2>2. /\ till \in Nat /\ taken <= till /\ till <= written
        /\ Part(Filled, stream, kept, till)
        /\ Filled \in Seq(Byte) /\ Len(Filled) = till - kept /\ Len(Filled) <= Size - 1
    BY FilledType
  <2>3. CASE EndOfPipe
    <3>1. taken' = taken /\ s_stdin_buf' = Kept /\ pc' \in {"poll", "commands", "stopped"}
      BY <2>3 DEF EndOfPipe, LeaveLoop
    <3>2. start' = kept
      BY <3>1 DEF start
    <3>3. ~(Space(s_stdin_buf') <= 0) /\ Len(s_stdin_buf') <= Size - 1
      BY <2>1, <3>1, SizeAssumption DEF Space
    <3> HIDE DEF kept, till
    <3> QED
      BY <2>0, <2>1, <3>1, <3>2, <3>3
  <2>4. CASE NoLine
    <3>1. taken' = till /\ s_stdin_buf' = Filled /\ pc' \in {"poll", "commands", "stopped"}
      BY <2>4 DEF NoLine, LeaveLoop
    <3>2. LineEnds(s_stdin_buf') = {}
      BY <2>4, <3>1 DEF NoLine
    <3>3. start' = till - Len(Filled)
      BY <3>1 DEF start
    <3> HIDE DEF kept, till
    <3>4. start' = kept
      BY <2>1, <2>2, <3>3
    <3>5. taken' \in 0..written'
      BY <1>0, <2>0, <2>2, <3>1
    <3> QED
      BY <2>0, <2>2, <3>1, <3>2, <3>4, <3>5
  <2>5. CASE TakeLine
    <3> DEFINE c == First(Filled)
               next == kept + c
               rest == SubSeq(Filled, c + 1, Len(Filled))
    <3>1. /\ taken' = till /\ s_stdin_buf' = rest
          /\ pc' \in {"poll", "commands", "stopped"} /\ LineEnds(Filled) # {}
      BY <2>5 DEF TakeLine, LeaveLoop
    <3>2. /\ c \in Nat \ {0} /\ c <= till - kept
          /\ Part(rest, stream, next, till)
          /\ rest \in Seq(Byte) /\ Len(rest) = till - next /\ Len(rest) <= Size - 2
      BY <3>1, RestType
    <3>3. start' = till - Len(rest)
      BY <3>1 DEF start
    <3> HIDE DEF kept, till, c, rest
    <3>4. start' = next
      BY <2>1, <2>2, <3>2, <3>3
    <3>5. ~(Space(s_stdin_buf') <= 0) /\ Len(s_stdin_buf') <= Size - 1
      <4>1. Len(s_stdin_buf') \in Nat /\ Len(s_stdin_buf') <= Size - 2
        BY <3>1, <3>2
      <4> QED
        BY <4>1, SizeAssumption DEF Space
    <3>6. taken' \in 0..written'
      BY <1>0, <2>0, <2>2, <3>1
    <3> HIDE DEF next
    <3> QED
      BY <2>0, <2>2, <3>1, <3>2, <3>4, <3>5, <3>6
  <2> QED
    BY <1>4, <2>3, <2>4, <2>5 DEF protocol_read_cmd
<1>5. CASE UNCHANGED vars
  BY <1>5 DEF vars, start
<1> QED
  BY <1>1, <1>2, <1>3, <1>4, <1>5 DEF Next, Daemon

(* Every variable has its type, and the buffer never outgrows its array,    *)
(* with a byte left for the terminating zero (protocol.c:193-247).         *)
THEOREM TypeCorrect == Spec => []TypeOK
<1>1. IInv => TypeOK
  BY DEF IInv
<1> QED
  BY <1>1, InitInvariant, StepInvariant, PTL DEF Spec

-----------------------------------------------------------------------------
(* The reader implements the queue. *)

(* The queue holds the commands that end behind start. *)
LEMMA QueueIs == CInv => QueueNow = Lines(start, written)
<1> SUFFICES ASSUME CInv
             PROVE  QueueNow = Lines(start, written)
  OBVIOUS
<1> DEFINE R == s_stdin_buf \o SubSeq(stream, taken + 1, written)
<1>1. /\ stream \in Seq(Byte) /\ written \in Nat /\ taken <= written
      /\ written <= Len(stream)
      /\ Part(s_stdin_buf, stream, start, taken) /\ CutsNone(stream, start, Commands)
  BY CTypes DEF CInv, IInv
<1>2. Part(R, stream, start, written)
  BY <1>1, PartConcat
<1> HIDE DEF R
<1>3. LinesIn(R, Commands) = LinesAt(stream, EndsBetween(stream, Commands, start, written))
  BY <1>1, <1>2, PartAllLines
<1> QED
  BY <1>3, Zenon DEF QueueNow, R, Lines, LinesBetween

(* What is thrown away holds no command, nor does the line it is torn from. *)
LEMMA KeptPart ==
    ASSUME CInv, CommandsWhole(stream)
    PROVE  LET kept == taken - Len(Kept)
           IN  /\ CutsNone(stream, kept, Commands)
               /\ EndsBetween(stream, Commands, start, kept) = {}
<1>0. /\ stream \in Seq(Byte) /\ Len(stream) \in Nat /\ s_stdin_buf \in Seq(Byte)
      /\ Len(s_stdin_buf) \in Nat /\ Len(s_stdin_buf) <= Size - 1
      /\ taken \in Nat /\ taken <= Len(stream)
      /\ start \in Nat /\ start <= taken /\ taken - start = Len(s_stdin_buf)
  BY CTypes DEF CInv
<1>1. Part(s_stdin_buf, stream, start, taken) /\ CutsNone(stream, start, Commands)
  BY DEF CInv, IInv
<1>2. CASE ~(Space(s_stdin_buf) <= 0)
  <2>1. Kept = s_stdin_buf /\ taken - Len(s_stdin_buf) = start
    BY <1>0, <1>2 DEF Kept
  <2>2. EndsBetween(stream, Commands, start, start) = {}
    BY <1>0, NoLinesBetween
  <2> QED
    BY <1>1, <2>1, <2>2
<1>3. CASE Space(s_stdin_buf) <= 0
  <2>1. Kept = <<>> /\ Len(Kept) = 0 /\ taken - Len(Kept) = taken
    <3>1. Kept = <<>> /\ Len(Kept) = 0
      BY <1>3 DEF Kept
    <3> QED
      BY <1>0, <3>1
  <2>2. LineEnds(s_stdin_buf) = {} /\ Len(s_stdin_buf) = Size - 1
    <3>1. LineEnds(s_stdin_buf) = {}
      BY <1>3 DEF CInv, IInv
    <3> QED
      BY <1>0, <1>3, <3>1, SizeAssumption DEF Space
  <2>3. /\ EndsBetween(stream, Commands, start, taken) = {}
        /\ \A i \in LineEnds(stream) : LineStart(stream, i) <= taken /\ taken < i =>
              Len(LineAt(stream, i)) \in Nat /\ Len(LineAt(stream, i)) >= taken - start
    BY <1>0, <1>1, <2>2, PartWithoutLines
  <2>4. CutsNone(stream, taken, Commands)
    <3> SUFFICES ASSUME NEW i \in LineEnds(stream),
                        LineStart(stream, i) <= taken, taken < i
                 PROVE  /\ LineAt(stream, i) \notin Commands
                        /\ SubSeq(stream, taken + 1, i - 1) \notin Commands
      BY DEF CutsNone
    <3>1. Len(LineAt(stream, i)) \in Nat /\ Len(LineAt(stream, i)) >= taken - start
      BY <2>3
    <3>2. Len(LineAt(stream, i)) > Size - 2
      BY <1>0, <2>2, <3>1, SizeAssumption
    <3>3. i \in 1..Len(stream)
      BY DEF LineEnds
    <3>4. LineStart(stream, i) \in 1..i
      BY <1>0, <3>3, LineAtType
    <3>5. taken \in LineStart(stream, i)..(i - 1)
      BY <1>0, <3>3, <3>4
    <3> QED
      BY <3>2, <3>5 DEF CommandsWhole
  <2> QED
    BY <2>1, <2>3, <2>4
<1> QED
  BY <1>2, <1>3

LEMMA InitRefines ==
    ASSUME Init
    PROVE  CInv /\ QueueNow = <<>> /\ out = <<>>
<1>1. IInv /\ stream \in Streams /\ stream \in Seq(Byte)
  BY InitInvariant, StreamsAssumption DEF Init
<1>2. taken = 0 /\ written = 0 /\ out = <<>> /\ s_stdin_buf = <<>>
  BY DEF Init
<1>3. start = 0
  <2>1. Len(s_stdin_buf) = 0
    BY <1>2
  <2>2. start = 0 - 0
    BY <1>2, <2>1, Zenon DEF start
  <2> QED
    BY <2>2
<1>4. CutsNone(stream, start, Commands)
  BY <1>1, <1>3, CutsNoneAtStart
<1>5. Lines(0, 0) = <<>>
  BY <1>1, NoLinesBetween DEF Lines
<1>6. CInv
  <2>1. out = Lines(0, start)
    BY <1>2, <1>3, <1>5, Zenon
  <2> QED
    BY <1>1, <1>4, <2>1 DEF CInv
<1>7. QueueNow = <<>>
  <2>1. QueueNow = Lines(start, written)
    BY <1>6, QueueIs
  <2> QED
    BY <1>2, <1>3, <1>5, <2>1, Zenon
<1> QED
  BY <1>2, <1>6, <1>7

(* A step that only adds to what is written, or only moves start forward,   *)
(* sends to the queue or receives from it.                                 *)
LEMMA StepRefines ==
    ASSUME CInv, CInv', UNCHANGED stream,
           \/ UNCHANGED start /\ written <= written'
           \/ start <= start' /\ UNCHANGED written
    PROVE  Queue!Next
<1>1. QueueNow = Lines(start, written) /\ out = Lines(0, start)
  BY QueueIs DEF CInv
<1>2. QueueNow' = Lines(start', written') /\ out' = Lines(0, start')
  <2>1. (QueueNow = Lines(start, written))'
    BY QueueIs, PTL
  <2>2. (Lines(start, written))' = Lines(start', written')
    BY DEF Lines
  <2>3. (Lines(0, start))' = Lines(0, start')
    BY DEF Lines
  <2> QED
    BY <2>1, <2>2, <2>3 DEF CInv
<1>3. /\ stream \in Seq(Byte) /\ start \in Int /\ written \in Int
      /\ 0 <= start /\ start <= written
  BY CTypes DEF CInv
<1>4. /\ start' \in Int /\ written' \in Int /\ 0 <= start' /\ start' <= written'
  <2>1. IInv'
    BY DEF CInv
  <2>2. (/\ start \in Nat /\ written \in Nat /\ taken \in Nat
         /\ start <= taken /\ taken <= written)'
    BY <2>1, CTypes, PTL
  <2> QED
    BY <2>2
<1>5. \A p, q, r : InOrder(p, q, r) => Lines(p, r) = Lines(p, q) \o Lines(q, r)
  BY <1>3, LinesBetweenConcat DEF Lines
<1>6. \A p, q : Lines(p, q) \in Seq(Seq(Byte))
  BY <1>3, LinesBetweenType DEF Lines
<1>7. CASE UNCHANGED start /\ written <= written'
  <2>1. QueueNow' = QueueNow \o Lines(written, written') /\ out' = out
    <3>1. InOrder(start, written, written')
      BY <1>3, <1>4, <1>7 DEF InOrder
    <3>2. Lines(start, written') = Lines(start, written) \o Lines(written, written')
      BY <1>5, <3>1
    <3>3. QueueNow' = Lines(start, written') /\ out' = Lines(0, start)
      BY <1>2, <1>7
    <3> QED
      BY <1>1, <3>2, <3>3
  <2>2. Queue!IsPrefix(QueueNow, QueueNow')
    <3>1. IsPrefix(QueueNow, QueueNow')
      BY <1>1, <1>6, <2>1, PrefixConcat
    <3> QED
      BY <3>1 DEF IsPrefix, Queue!IsPrefix
  <2> QED
    BY <2>1, <2>2, Zenon DEF Queue!Next, Queue!Send, QueueNow
<1>8. CASE start <= start' /\ UNCHANGED written
  <2>1. out' = out \o Lines(start, start')
    <3>1. InOrder(0, start, start')
      BY <1>3, <1>4, <1>8 DEF InOrder
    <3> QED
      BY <1>1, <1>2, <1>5, <3>1
  <2>2. Queue!IsPrefix(out, out')
    <3>1. IsPrefix(out, out')
      BY <1>1, <1>6, <2>1, PrefixConcat
    <3> QED
      BY <3>1 DEF IsPrefix, Queue!IsPrefix
  <2>3. out' \o QueueNow' = Lines(0, written')
    <3>1. InOrder(0, start', written')
      BY <1>4 DEF InOrder
    <3>2. Lines(0, written') = Lines(0, start') \o Lines(start', written')
      BY <1>5, <3>1
    <3> QED
      BY <1>2, <3>2
  <2>4. out \o QueueNow = Lines(0, written)
    <3>1. InOrder(0, start, written)
      BY <1>3 DEF InOrder
    <3>2. Lines(0, written) = Lines(0, start) \o Lines(start, written)
      BY <1>5, <3>1
    <3> QED
      BY <1>1, <3>2, Zenon
  <2>5. out' \o QueueNow' = out \o QueueNow
    BY <1>8, <2>3, <2>4
  <2> QED
    BY <2>2, <2>5, Zenon DEF Queue!Next, Queue!Receive, QueueNow
<1> QED
  BY <1>7, <1>8

(* A step of the shell, or of poll, leaves the reader alone. *)
LEMMA OtherStep ==
    ASSUME CInv, [Write \/ Close \/ Poll]_vars
    PROVE  CInv' /\ UNCHANGED <<stream, start>> /\ written <= written'
<1>1. UNCHANGED <<stream, taken, s_stdin_buf, out>>
  BY DEF Write, Close, Poll, vars
<1>2. UNCHANGED start /\ (Lines(0, start))' = Lines(0, start)
  BY <1>1 DEF start, Lines
<1>3. IInv'
  BY StepInvariant DEF CInv, Next, Daemon
<1>4. written \in Nat /\ Len(stream) \in Nat
  BY CTypes DEF CInv
<1>5. written <= written'
  BY <1>4 DEF Write, Close, Poll, vars
<1> QED
  BY <1>1, <1>2, <1>3, <1>5 DEF CInv

(* What a call throws away takes nothing from the commands of the stream. *)
LEMMA OverKept ==
    ASSUME CInv, CommandsWhole(stream), NEW r \in Int, taken - Len(Kept) <= r
    PROVE  Lines(0, r) = Lines(0, start) \o Lines(taken - Len(Kept), r)
<1> DEFINE kept == taken - Len(Kept)
<1>1. stream \in Seq(Byte) /\ start \in Nat /\ kept \in Nat /\ start <= kept
  BY CTypes, KeptType DEF CInv
<1>2. EndsBetween(stream, Commands, start, kept) = {}
  BY KeptPart
<1> HIDE DEF kept
<1>3. kept <= r
  BY DEF kept
<1>4. InOrder(0, start, r) /\ InOrder(start, kept, r)
  BY <1>1, <1>3 DEF InOrder
<1>5. \A p, q, s : InOrder(p, q, s) => Lines(p, s) = Lines(p, q) \o Lines(q, s)
  BY <1>1, LinesBetweenConcat DEF Lines
<1>6. Lines(0, r) = Lines(0, start) \o Lines(start, r)
  BY <1>4, <1>5
<1>7. Lines(start, r) = Lines(kept, r)
  BY <1>1, <1>2, <1>4, LinesOverGap DEF Lines
<1> QED
  BY <1>6, <1>7 DEF kept

(* A call that takes no line moves start to what it kept. *)
LEMMA KeepsStep ==
    ASSUME CInv, CommandsWhole(stream), protocol_read_cmd, EndOfPipe \/ NoLine
    PROVE  CInv' /\ UNCHANGED <<stream, written>> /\ start <= start'
<1> DEFINE kept == taken - Len(Kept)
<1>1. UNCHANGED <<stream, written, out>>
  BY DEF protocol_read_cmd, EndOfPipe, NoLine
<1>2. IInv'
  BY StepInvariant DEF CInv, Next, Daemon
<1>3. start' = kept
  <2>1. CASE EndOfPipe
    BY <2>1 DEF EndOfPipe, start
  <2>2. CASE NoLine
    <3>1. taken' = taken + Chunk /\ s_stdin_buf' = Filled
      BY <2>2 DEF NoLine
    <3>2. /\ taken + Chunk \in Nat
          /\ Len(Filled) = (taken + Chunk) - kept
      BY FilledType DEF CInv
    <3>3. kept \in Nat
      BY KeptType DEF CInv
    <3>4. start' = (taken + Chunk) - Len(Filled)
      BY <3>1 DEF start
    <3> HIDE DEF kept
    <3> QED
      BY <3>2, <3>3, <3>4
  <2> QED
    BY <2>1, <2>2
<1>4. CutsNone(stream, kept, Commands)
  BY KeptPart
<1>5. kept \in Nat /\ start <= kept /\ stream \in Seq(Byte)
  BY CTypes, KeptType DEF CInv
<1>6. Lines(0, kept) = Lines(0, start)
  <2>1. Lines(0, kept) = Lines(0, start) \o Lines(kept, kept)
    <3>1. kept \in Int /\ kept <= kept
      BY <1>5
    <3> QED
      BY <3>1, OverKept
  <2> HIDE DEF kept
  <2>2. Lines(kept, kept) = <<>>
    BY <1>5, NoLinesBetween DEF Lines
  <2>3. Lines(0, start) \in Seq(Seq(Byte))
    BY <1>5, LinesBetweenType DEF Lines
  <2> QED
    BY <2>1, <2>2, <2>3, ConcatEmptySeq
<1> HIDE DEF kept
<1>7. (Lines(0, start))' = Lines(0, kept)
  BY <1>1, <1>3 DEF Lines
<1>8. out' = (Lines(0, start))'
  BY <1>1, <1>6, <1>7 DEF CInv
<1>9. stream' \in Streams /\ CutsNone(stream', start', Commands)
  BY <1>1, <1>3, <1>4 DEF CInv
<1> QED
  BY <1>1, <1>2, <1>3, <1>5, <1>8, <1>9 DEF CInv

(* The first line of a buffer, and whether it is a command. *)
LEMMA FirstLine ==
    ASSUME NEW b \in Seq(Byte), LineEnds(b) # {}
    PROVE  LET c == First(b)
               line == SubSeq(b, 1, c - 1)
               new == LinesAt(b, {k \in EndsIn(b, Commands) : k <= c})
           IN  new = IF line \in Commands THEN <<line>> ELSE <<>>
<1> DEFINE c == First(b)
           line == SubSeq(b, 1, c - 1)
           T == {k \in EndsIn(b, Commands) : k <= c}
<1>1. c \in LineEnds(b) /\ \A j \in LineEnds(b) : c <= j
  BY FirstIs
<1>2. c \in Nat \ {0} /\ c <= Len(b) /\ b[c] = NL
  BY <1>1 DEF LineEnds
<1>3. LineEnds(b) \subseteq Int
  BY DEF LineEnds
<1> HIDE DEF c
<1>4. Starts(b, c, 1)
  <2>1. \A j \in 1..(c - 1) : b[j] # NL
    BY <1>1, <1>2 DEF LineEnds
  <2> QED
    BY <1>2, <2>1 DEF Starts
<1>5. LineStart(b, c) = 1 /\ LineAt(b, c) = line
  <2>1. LineStart(b, c) = 1
    BY <1>2, <1>4, LineStartUnique
  <2> QED
    BY <2>1 DEF LineAt
<1>6. T = IF c \in EndsIn(b, Commands) THEN {c} ELSE {}
  <2>1. EndsIn(b, Commands) \subseteq LineEnds(b)
    BY DEF EndsIn
  <2> QED
    BY <1>1, <1>2, <1>3, <2>1
<1>7. c \in EndsIn(b, Commands) <=> line \in Commands
  <2>1. c \in EndsIn(b, Commands) <=> ~Empty(b, c) /\ line \in Commands
    BY <1>1, <1>5 DEF EndsIn
  <2>2. Empty(b, c) => line = <<>>
    <3> SUFFICES ASSUME Empty(b, c) PROVE line = <<>>
      OBVIOUS
    <3>1. c = 1
      BY <1>2, <1>5, EmptyLine
    <3>2. line = SubSeq(b, 1, 0)
      BY <3>1
    <3>3. SubSeq(b, 1, 0) \in Seq(Byte) /\ Len(SubSeq(b, 1, 0)) = 0
      BY SubSeqProperties
    <3> QED
      BY <3>2, <3>3, EmptySeq
  <2> QED
    BY <2>1, <2>2, CommandsAssumption
<1>8. CASE line \in Commands
  <2>1. T = {c}
    BY <1>6, <1>7, <1>8
  <2>2. Cardinality({c}) = 1
    BY FS_Singleton
  <2>3. Nth({c}, 1) = c
    <3>1. {j \in {c} : j <= c} = {c}
      BY <1>2
    <3> QED
      BY <2>2, <3>1 DEF Nth
  <2>4. LinesAt(b, T) = [k \in 1..1 |-> LineAt(b, Nth({c}, k))]
    BY <2>1, <2>2, Zenon DEF LinesAt
  <2>5. LinesAt(b, T) = <<line>>
    <3> HIDE DEF line, T
    <3>1. 1..1 = {1} /\ LineAt(b, Nth({c}, 1)) = line
      BY <1>5, <2>3
    <3> QED
      BY <2>4, <3>1
  <2> QED
    BY <1>8, <2>5 DEF c
<1>9. CASE line \notin Commands
  <2>1. T = {}
    BY <1>6, <1>7, <1>9
  <2>2. LinesAt(b, T) = <<>>
    BY <2>1, NothingSelected
  <2> QED
    BY <1>9, <2>2 DEF c
<1> QED
  BY <1>8, <1>9

LEMMA TakeStep ==
    ASSUME CInv, CommandsWhole(stream), protocol_read_cmd, TakeLine
    PROVE  CInv' /\ UNCHANGED <<stream, written>> /\ start <= start'
<1> DEFINE kept == taken - Len(Kept)
           till == taken + Chunk
           c == First(Filled)
           next == kept + c
           line == SubSeq(Filled, 1, c - 1)
<1>1. UNCHANGED <<stream, written>> /\ LineEnds(Filled) # {} /\ taken' = till
  BY DEF protocol_read_cmd, TakeLine
<1>2. out' = IF line \in Commands THEN Append(out, line) ELSE out
  BY DEF TakeLine
<1>3. IInv'
  BY StepInvariant DEF CInv, Next, Daemon
<1>4. /\ c \in Nat \ {0} /\ c <= till - kept
      /\ Len(s_stdin_buf') = till - next
  BY <1>1, RestType DEF CInv, TakeLine
<1>5. /\ kept \in Nat /\ start <= kept /\ till \in Nat
      /\ start \in Nat /\ stream \in Seq(Byte)
      /\ Part(Filled, stream, kept, till) /\ Filled \in Seq(Byte)
      /\ Len(Filled) = till - kept
  BY CTypes, KeptType, FilledType DEF CInv
<1>6. c \in LineEnds(Filled)
  BY <1>1, <1>5, FirstIs
<1>7. Lines(0, next) = Lines(0, start) \o Lines(kept, next)
  <2>1. next \in Int /\ kept <= next
    <3> HIDE DEF kept, c
    <3> QED
      BY <1>4, <1>5
  <2> HIDE DEF next
  <2> QED
    BY <2>1, OverKept
<1>8. CutsNone(stream, kept, Commands)
  BY KeptPart
<1>9. Lines(kept, next) = IF line \in Commands THEN <<line>> ELSE <<>>
  <2>1. LinesAt(Filled, {k \in EndsIn(Filled, Commands) : k <= c})
          = IF line \in Commands THEN <<line>> ELSE <<>>
    BY <1>1, <1>5, FirstLine
  <2> HIDE DEF c, kept, till, line
  <2>2. c \in 0..(till - kept)
    BY <1>4, <1>5
  <2>3. LinesAt(Filled, {k \in EndsIn(Filled, Commands) : k <= c})
          = LinesAt(stream, EndsBetween(stream, Commands, kept, kept + c))
    BY <1>5, <1>8, <2>2, PartLines
  <2> QED
    BY <2>1, <2>3, Zenon DEF Lines, LinesBetween, next
<1> HIDE DEF c, kept, till
<1>10. next \in Nat /\ start <= next
  BY <1>4, <1>5
<1>11. start' = next
  <2>1. start' = till - (till - next)
    BY <1>1, <1>4, Zenon DEF start
  <2> QED
    BY <1>5, <1>10, <2>1
<1>12. CutsNone(stream, next, Commands)
  <2>1. c \in 1..(till - kept)
    BY <1>4, <1>5
  <2>2. next \in LineEnds(stream)
    BY <1>5, <1>6, <2>1, PartLineEnds
  <2> HIDE DEF next
  <2> QED
    BY <1>5, <2>2, CutsNoneBehindNewline
<1> HIDE DEF next, line
<1>13. out' = Lines(0, next)
  <2>1. out = Lines(0, start)
    BY DEF CInv
  <2>2. Lines(0, start) \in Seq(Seq(Byte))
    BY <1>5, LinesBetweenType DEF Lines
  <2>3. CASE line \in Commands
    <3>1. Lines(0, next) = out \o <<line>> /\ out' = Append(out, line)
      BY <1>2, <1>7, <1>9, <2>1, <2>3, Zenon
    <3> QED
      BY <2>1, <2>2, <3>1, AppendIsConcat
  <2>4. CASE line \notin Commands
    <3>1. Lines(0, next) = out \o <<>> /\ out' = out
      BY <1>2, <1>7, <1>9, <2>1, <2>4, Zenon
    <3> QED
      BY <2>1, <2>2, <3>1, ConcatEmptySeq
  <2> QED
    BY <2>3, <2>4
<1>14. (Lines(0, start))' = Lines(0, next)
  BY <1>1, <1>11 DEF Lines
<1>15. out' = (Lines(0, start))'
  BY <1>13, <1>14, Zenon
<1>16. stream' \in Streams /\ CutsNone(stream', start', Commands)
  BY <1>1, <1>11, <1>12 DEF CInv
<1> QED
  BY <1>1, <1>3, <1>10, <1>11, <1>15, <1>16 DEF CInv

(* The commands of the shell reach the daemon as through a queue            *)
(* (protocol.c:193-247, main.c:271-285): on every stream whose commands fit *)
(* the buffer, and however it is cut into pieces, each command is handled   *)
(* once and in order, whatever other lines stand between them.             *)
THEOREM CommandsAreAQueue ==
    ASSUME \A s \in Streams : CommandsWhole(s)
    PROVE  Spec => ImplementsQueue
<1>1. Init => CInv /\ Queue!Init
  BY InitRefines DEF Queue!Init, QueueNow
<1>2. CInv /\ [Next]_vars => CInv' /\ (Queue!Next \/ UNCHANGED <<QueueNow, out>>)
  <2> SUFFICES ASSUME CInv, [Next]_vars
               PROVE  CInv' /\ (Queue!Next \/ UNCHANGED <<QueueNow, out>>)
    OBVIOUS
  <2>0. CommandsWhole(stream)
    BY DEF CInv
  <2>1. CASE Write \/ Close \/ Poll \/ UNCHANGED vars
    BY <2>1, OtherStep, StepRefines
  <2>2. CASE protocol_read_cmd
    <3>1. CInv' /\ UNCHANGED <<stream, written>> /\ start <= start'
      <4>1. CASE TakeLine
        BY <2>0, <2>2, <4>1, TakeStep
      <4>2. CASE EndOfPipe \/ NoLine
        BY <2>0, <2>2, <4>2, KeepsStep
      <4> QED
        BY <2>2, <4>1, <4>2 DEF protocol_read_cmd
    <3> QED
      BY <3>1, StepRefines
  <2> QED
    BY <2>1, <2>2 DEF Next, Daemon
<1>3. (Queue!Next \/ UNCHANGED <<QueueNow, out>>)
        => [Queue!Next]_<<LinesIn(s_stdin_buf \o SubSeq(stream, taken + 1, written), Commands),
                          out>>
  BY DEF QueueNow
<1> QED
  BY <1>1, <1>2, <1>3, PTL DEF Spec, ImplementsQueue, Queue!Spec
=============================================================================
