--------------------------- MODULE MCConfigReload ---------------------------
(* Small instances of ConfigReload for TLC. *)
EXTENDS ConfigReload, SequencesExt, TLC

AnyWord == STRING

(* The lines a user may write. *)
ZoneLines ==
    {Line("ExclusiveZone", v) :
        v \in {Word("true"), Word("false"), Word("auto"), Num(48), Num(-1)}}
    \cup {Line("ExclusiveZoneValue", v) : v \in {Word("auto"), Num(0), Num(32)}}
OtherLines ==
    {Line("HotspotDelay", v) : v \in {Num(0), Num(800), Num(9999)}}
    \cup {Line("Layer", Word(w)) : w \in {"top", "middle"}}
    \cup {Line("BorderWidth", Num(0)), Line("Background", Word("red"))}

(* Every file of at most two lines, and two of them. *)
ShortFiles == BoundedSeq(ZoneLines \cup OtherLines, 2)
TwoFiles ==
    {<<>>, <<Line("ExclusiveZone", Num(48)), Line("HotspotDelay", Num(9999))>>}

(* What is moved in the settings program. *)
Sliders ==
    {[exclusiveZone |-> TRUE], [exclusiveZone |-> FALSE],
     [exclusiveZoneValue |-> 32], [hotspotDelay |-> 0], [themeBg |-> "red"]}
=============================================================================
