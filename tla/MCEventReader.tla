--------------------------- MODULE MCEventReader ----------------------------
(* Small instances of EventReader for TLC: a byte carries the number of its *)
(* line, so that no two lines are equal.                                   *)
EXTENDS EventReader, TLC

CONSTANTS MaxLines, MaxLength

(* The stream of lines of the given lengths. *)
StreamOf(lens) ==
    FlattenSeq([k \in DOMAIN lens |-> [i \in 1..lens[k] |-> k] \o <<NL>>])

AllStreams == {StreamOf(lens) : lens \in BoundedSeq(0..MaxLength, MaxLines)}

(* What the theorem of the queue asks of a stream. *)
ASSUME FragmentsAssumption == \A s \in Streams : FragmentsDiffer(s)
=============================================================================
