----------------------------- MODULE LineQueue ------------------------------
(***************************************************************************)
(* What the daemon's two line readers promise: the other side sends lines,  *)
(* the daemon is handed every one of them, once and in the order of         *)
(* sending.  EventReader (hypr_events.c) and CommandReader (protocol.c)     *)
(* implement it with a byte stream and a fixed buffer.                     *)
(***************************************************************************)
EXTENDS SequencesExt

VARIABLES
    queue,  \* lines sent and not yet handed out, oldest first
    got     \* lines handed out

Init == queue = <<>> /\ got = <<>>

(* Lines are added at the end. *)
Send == IsPrefix(queue, queue') /\ UNCHANGED got

(* Lines are handed out from the front. *)
Receive == IsPrefix(got, got') /\ got' \o queue' = got \o queue

Next == Send \/ Receive

Spec == Init /\ [][Next]_<<queue, got>>
=============================================================================
