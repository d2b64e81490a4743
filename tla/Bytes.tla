------------------------------- MODULE Bytes --------------------------------
(***************************************************************************)
(* Lines in a buffer of bytes, as hypr_events_read and protocol_read_cmd    *)
(* find them: a line is what stands between two newlines.                  *)
(***************************************************************************)
EXTENDS Selection

NL == 10    \* '\n'

(* The positions of the newlines in b. *)
LineEnds(b) == {i \in DOMAIN b : b[i] = NL}

(* Where the line that ends with the newline at i starts. *)
LineStart(b, i) ==
    CHOOSE s \in 1..i : /\ s = 1 \/ b[s - 1] = NL
                        /\ \A j \in s..(i - 1) : b[j] # NL

LineAt(b, i) == SubSeq(b, LineStart(b, i), i - 1)

(* The line that ends at i has no byte of its own. *)
Empty(b, i) == i = 1 \/ b[i - 1] = NL

(* The lines that end at the positions E, in order. *)
LinesAt(b, E) == [k \in 1..Cardinality(E) |-> LineAt(b, Nth(E, k))]

(* Where the lines of b end that are not empty and belong to G. *)
EndsIn(b, G) == {i \in LineEnds(b) : ~Empty(b, i) /\ LineAt(b, i) \in G}

LinesIn(b, G) == LinesAt(b, EndsIn(b, G))
=============================================================================
