---------------------------- MODULE EventReader -----------------------------
(***************************************************************************)
(* hypr_events_read (hypr_events.c): the Socket2 byte stream is cut into    *)
(* event lines through the buffer s_buf of Size bytes, at most MaxEvents    *)
(* lines a call.  The compositor may write a line in pieces.               *)
(***************************************************************************)
EXTENDS Bytes, SequencesExt

CONSTANTS
    Byte,       \* the bytes of a stream
    Size,       \* sizeof(s_buf): 8192 in the code
    MaxEvents,  \* the max_events of main's call: 32 in the code
    Streams     \* what the compositor may write over one connection

ASSUME ByteAssumption == NL \in Byte
ASSUME SizeAssumption == Size \in Nat /\ Size >= 2
ASSUME MaxEventsAssumption == MaxEvents \in Nat \ {0}
ASSUME StreamsAssumption == Streams \subseteq Seq(Byte)

VARIABLES
    stream,     \* the bytes of this connection
    written,    \* bytes written so far
    closed,     \* the compositor has closed the connection
    taken,      \* bytes read so far
    s_buf,      \* s_buf[0 .. s_buf_len)
    s_fd,       \* s_fd >= 0
    out         \* history: the lines handed out, call after call

vars == <<stream, written, closed, taken, s_buf, s_fd, out>>

Init ==
    /\ stream \in Streams
    /\ written = 0
    /\ closed = FALSE
    /\ taken = 0
    /\ s_buf = <<>>
    /\ s_fd = TRUE
    /\ out = <<>>

(* The compositor, outside the repository. *)
Write ==
    /\ written' \in (written + 1)..Len(stream)
    /\ UNCHANGED <<stream, closed, taken, s_buf, s_fd, out>>

Close ==
    /\ ~closed
    /\ written = Len(stream)
    /\ closed' = TRUE
    /\ UNCHANGED <<stream, written, taken, s_buf, s_fd, out>>

(* Mutant of Space: no byte is left for the terminating zero. *)
SpaceToTheEnd(b) == Size - Len(b)

(* Room for one read(); without any, what is buffered is thrown away. *)
Space(b) == Size - Len(b) - 1
(* Mutant of Kept: the buffer is thrown away with one byte to spare. *)
KeptEarly == IF Space(s_buf) <= 1 THEN <<>> ELSE s_buf

Kept == IF Space(s_buf) <= 0 THEN <<>> ELSE s_buf

(* Mutant of Passed: one line a call. *)
PassedOne(b) == {i \in LineEnds(b) : \A j \in LineEnds(b) : i <= j}

(* The newlines one call passes: the loop stops before a newline once      *)
(* MaxEvents lines that are not empty lie before it.                       *)
Passed(b) ==
    {i \in LineEnds(b) :
        Cardinality({j \in LineEnds(b) : j < i /\ ~Empty(b, j)}) < MaxEvents}

(* Mutant of Cut: nothing is compacted. *)
CutNone(b) == 0

(* The length of the part of b that is handed out or skipped. *)
Cut(b) ==
    IF Passed(b) = {} THEN 0
    ELSE CHOOSE i \in Passed(b) : \A j \in Passed(b) : j <= i

(* What read() returns: all there is, up to the room in the buffer. *)
Chunk ==
    IF Space(Kept) <= written - taken THEN Space(Kept) ELSE written - taken
Filled == Kept \o SubSeq(stream, taken + 1, taken + Chunk)

(* One call, made when poll() finds data or the end of the stream. *)
ReadLines ==
    /\ taken < written
    /\ taken' = taken + Chunk
    /\ out' = out \o LinesAt(Filled, {i \in Passed(Filled) : ~Empty(Filled, i)})
    /\ s_buf' = SubSeq(Filled, Cut(Filled) + 1, Len(Filled))
    /\ UNCHANGED <<stream, written, closed, s_fd>>

ReadEnd ==
    /\ taken = written
    /\ closed
    /\ s_fd' = FALSE
    /\ s_buf' = Kept
    /\ UNCHANGED <<stream, written, closed, taken, out>>

hypr_events_read == s_fd /\ (ReadLines \/ ReadEnd)

Next == Write \/ Close \/ hypr_events_read

(* The loop calls again whenever poll() reports the socket ready. *)
Spec == Init /\ [][Next]_vars
FairSpec == Spec /\ WF_vars(hypr_events_read)

-----------------------------------------------------------------------------

(* Every variable has its type, and the buffer its bound. *)
TypeOK ==
    /\ stream \in Seq(Byte)
    /\ written \in 0..Len(stream)
    /\ taken \in 0..written
    /\ closed \in BOOLEAN
    /\ s_buf \in Seq(Byte)
    /\ Len(s_buf) <= Size - 1
    /\ s_fd \in BOOLEAN

(* What an overflow throws away holds no complete line, whatever the size  *)
(* of the lines and the number of them a call leaves behind                *)
(* (hypr_events.c:131).                                                    *)
DiscardKeepsLines == Space(s_buf) <= 0 => LineEnds(s_buf) = {}

(* The lines of the stream s that fit the buffer with their newlines.      *)
Whole(s) ==
    {LineAt(s, i) : i \in {j \in LineEnds(s) : ~Empty(s, j)
                                    /\ Len(LineAt(s, j)) <= Size - 2}}

(* The rest of a line that does not fit and is torn is none of the lines   *)
(* that do: a fragment is told from a line.                                *)
FragmentsDiffer(s) ==
    \A i \in LineEnds(s) : \A p \in LineStart(s, i)..(i - 1) :
        Len(LineAt(s, i)) > Size - 2 => SubSeq(s, p + 1, i - 1) \notin Whole(s)

(* The lines handed out that belong to G. *)
OutIn(G) == MembersIn(out, G)

(* For the lines that fit, the reader is a queue: whatever pieces they come *)
(* in, and though lines that do not fit stand between them and are torn,   *)
(* each is handed out whole, once and in order (hypr_events.c:131-179).    *)
Queue == INSTANCE LineQueue WITH
    queue <- LinesIn(s_buf \o SubSeq(stream, taken + 1, written), Whole(stream)),
    got <- OutIn(Whole(stream))
ImplementsQueue == Queue!Spec

(* And none of them stays in the buffer for ever, if one call may hand out  *)
(* as many lines as come (main.c:247, hypr_events.c:158).                  *)
AllHandedOut ==
    <>[](Cardinality({i \in LineEnds(stream) : ~Empty(stream, i)}) <= MaxEvents =>
            OutIn(Whole(stream)) = LinesIn(SubSeq(stream, 1, written), Whole(stream)))
=============================================================================
