--------------------------- MODULE CommandReader ----------------------------
(***************************************************************************)
(* The shell's commands: protocol_read_cmd (protocol.c) over a pipe set to  *)
(* non-blocking, and the stdin block of main's loop that calls it until it  *)
(* returns false.                                                          *)
(*                                                                         *)
(* Each call reads what the pipe holds, up to the room in the buffer, and   *)
(* takes one line out of it.  The shell may write a line in pieces, and     *)
(* closes the pipe when it exits.                                          *)
(***************************************************************************)
EXTENDS Bytes, SequencesExt

CONSTANTS
    Byte,       \* the bytes of a stream
    Size,       \* sizeof(s_stdin_buf): 4096 in the code
    Streams,    \* what the shell may write
    Commands    \* the lines that are JSON objects with a "cmd"

ASSUME ByteAssumption == NL \in Byte
ASSUME SizeAssumption == Size \in Nat /\ Size >= 2
ASSUME StreamsAssumption == Streams \subseteq Seq(Byte)
ASSUME CommandsAssumption == <<>> \notin Commands

VARIABLES
    stream,     \* the bytes the shell writes
    written,    \* bytes written so far
    closed,     \* the shell has closed the pipe
    taken,      \* bytes read so far
    s_stdin_buf,
    pc,         \* "poll", "commands" (the while loop) or "stopped"
    hup,        \* poll() reported POLLHUP
    out         \* history: the commands handled

vars == <<stream, written, closed, taken, s_stdin_buf, pc, hup, out>>

Init ==
    /\ stream \in Streams
    /\ written = 0
    /\ closed = FALSE
    /\ taken = 0
    /\ s_stdin_buf = <<>>
    /\ pc = "poll"
    /\ hup = FALSE
    /\ out = <<>>

(* DaemonBridge's daemon.write(), through the pipe. *)
Write ==
    /\ ~closed
    /\ written' \in (written + 1)..Len(stream)
    /\ UNCHANGED <<stream, closed, taken, s_stdin_buf, pc, hup, out>>

(* The shell exits, possibly in the middle of a line. *)
Close ==
    /\ ~closed
    /\ closed' = TRUE
    /\ UNCHANGED <<stream, written, taken, s_stdin_buf, pc, hup, out>>

Poll ==
    /\ pc = "poll"
    /\ taken < written \/ closed
    /\ hup' = closed
    /\ pc' = "commands"
    /\ UNCHANGED <<stream, written, closed, taken, s_stdin_buf, out>>

-----------------------------------------------------------------------------
(* protocol_read_cmd. *)

(* Mutant of Space: no byte is left for the terminating zero. *)
SpaceToTheEnd(b) == Size - Len(b)

Space(b) == Size - Len(b) - 1
Kept == IF Space(s_stdin_buf) <= 0 THEN <<>> ELSE s_stdin_buf

Chunk ==
    IF Space(Kept) <= written - taken THEN Space(Kept) ELSE written - taken
Filled == Kept \o SubSeq(stream, taken + 1, taken + Chunk)

(* Mutant of First: the last newline. *)
LastNewline(b) == CHOOSE i \in LineEnds(b) : \A j \in LineEnds(b) : j <= i

(* The first newline. *)
First(b) == CHOOSE i \in LineEnds(b) : \A j \in LineEnds(b) : i <= j

(* Mutant of LeaveLoop: the hang-up is forgotten. *)
LeaveLoopOnly == pc' = "poll"

(* A return of false ends the while loop, and the program after a hang-up. *)
LeaveLoop == pc' = IF hup THEN "stopped" ELSE "poll"

(* read() returned 0: the buffer is not looked at. *)
EndOfPipe ==
    /\ taken = written
    /\ closed
    /\ s_stdin_buf' = Kept
    /\ LeaveLoop
    /\ UNCHANGED <<taken, out>>

(* There is no complete line. *)
NoLine ==
    /\ taken < written \/ ~closed
    /\ LineEnds(Filled) = {}
    /\ taken' = taken + Chunk
    /\ s_stdin_buf' = Filled
    /\ LeaveLoop
    /\ UNCHANGED out

(* Mutant of TakeLine: one command an iteration of the main loop. *)
TakeOneLine ==
    /\ taken < written \/ ~closed
    /\ LineEnds(Filled) # {}
    /\ taken' = taken + Chunk
    /\ s_stdin_buf' = SubSeq(Filled, First(Filled) + 1, Len(Filled))
    /\ LET line == SubSeq(Filled, 1, First(Filled) - 1)
       IN  out' = IF line \in Commands THEN Append(out, line) ELSE out
    /\ LeaveLoop

(* The first line leaves the buffer; if it is a command it is handled and  *)
(* the loop goes on, if not the loop ends.                                 *)
TakeLine ==
    /\ taken < written \/ ~closed
    /\ LineEnds(Filled) # {}
    /\ taken' = taken + Chunk
    /\ s_stdin_buf' = SubSeq(Filled, First(Filled) + 1, Len(Filled))
    /\ LET line == SubSeq(Filled, 1, First(Filled) - 1)
       IN  IF line \in Commands
           THEN out' = Append(out, line) /\ UNCHANGED pc
           ELSE LeaveLoop /\ UNCHANGED out

protocol_read_cmd ==
    /\ pc = "commands"
    /\ EndOfPipe \/ NoLine \/ TakeLine
    /\ UNCHANGED <<stream, written, closed, hup>>

Daemon == Poll \/ protocol_read_cmd

Next == Write \/ Close \/ Daemon

(* The daemon's thread runs. *)
Spec == Init /\ [][Next]_vars
FairSpec == Spec /\ WF_vars(Daemon)

-----------------------------------------------------------------------------

(* Every variable has its type, and the buffer its bound. *)
TypeOK ==
    /\ stream \in Seq(Byte)
    /\ written \in 0..Len(stream)
    /\ taken \in 0..written
    /\ closed \in BOOLEAN
    /\ s_stdin_buf \in Seq(Byte)
    /\ Len(s_stdin_buf) <= Size - 1
    /\ pc \in {"poll", "commands", "stopped"}
    /\ hup \in BOOLEAN

(* The shell writes nothing but commands that fit. *)
AllCommands ==
    EndsIn(stream, Commands) = {i \in LineEnds(stream) : ~Empty(stream, i)}

(* The commands of s fit the buffer with their newlines, and the rest of a  *)
(* line that does not fit and is torn is none of them.                     *)
CommandsWhole(s) ==
    \A i \in LineEnds(s) :
        Len(LineAt(s, i)) > Size - 2 =>
            /\ LineAt(s, i) \notin Commands
            /\ \A p \in LineStart(s, i)..(i - 1) :
                  SubSeq(s, p + 1, i - 1) \notin Commands

(* While its commands fit the buffer, the shell is heard: each command is   *)
(* handled once and in order, whatever other lines stand between them.     *)
Queue == INSTANCE LineQueue WITH
    queue <- LinesIn(s_stdin_buf \o SubSeq(stream, taken + 1, written), Commands),
    got <- out
ImplementsQueue == Queue!Spec

(* A shell that writes nothing else and lives gets every command handled   *)
(* (protocol.c:226, main.c:273).                                           *)
CommandsHandled ==
    <>[](closed \/ ~AllCommands
         \/ out = LinesIn(SubSeq(stream, 1, written), Commands))

(* The exit of the shell stops the daemon (main.c:279). *)
HangupStops == closed ~> pc = "stopped"
=============================================================================
