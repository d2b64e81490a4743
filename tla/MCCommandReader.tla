-------------------------- MODULE MCCommandReader ---------------------------
(* Small instances of CommandReader for TLC: line k is k written Length[k]  *)
(* times, and the lines in Bad are no commands.                            *)
EXTENDS CommandReader, TLC

CONSTANTS MaxLines, Bad

Length == <<1, 2, 3, 6>>

Line(k) == [i \in 1..Length[k] |-> k]

StreamOf(lines) == FlattenSeq([n \in DOMAIN lines |-> Line(lines[n]) \o <<NL>>])

(* Line 4 does not fit a buffer of 6. *)
AllStreams == {StreamOf(lines) : lines \in BoundedSeq(1..4, MaxLines)}

GoodLines == {Line(k) : k \in (1..4) \ Bad}

(* What the theorem of the queue asks of a stream. *)
ASSUME WholeAssumption == \A s \in Streams : CommandsWhole(s)
=============================================================================
