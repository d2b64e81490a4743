------------------------------- MODULE Config -------------------------------
(***************************************************************************)
(* config.ini, as its two readers understand it: the daemon (config.c) and  *)
(* the settings program (ConfigStore.qml), and as the latter writes it.    *)
(*                                                                         *)
(* A file is a sequence of lines; sections, comments and the spelling of    *)
(* keys are left out.  Six keys stand for the others: the two of the        *)
(* exclusive zone, whose meanings depend on each other, and one key each   *)
(* of a validated number, a plain number, a validated word and a free text. *)
(***************************************************************************)
EXTENDS Integers, Sequences

CONSTANT
    Text        \* the words that may be the value of a key

Layers == {"background", "bottom", "top", "overlay"}
Unset == ""

ASSUME TextAssumption ==
    Layers \cup {"number", "true", "false", Unset} \subseteq Text

(* A value is a number, or a word: atoi and parseInt make 0 of a word.      *)
Num(n) == [word |-> "number", num |-> n]
Word(w) == [word |-> w, num |-> 0]
Line(k, v) == [key |-> k, val |-> v]

Keys ==
    {"ExclusiveZone", "ExclusiveZoneValue", "HotspotDelay", "BorderWidth", "Layer",
     "Background"}
Lines == [key : Keys, val : [word : Text, num : Int]]

IsTrue(v) == v.word \in {"true", "yes"} \/ v = Num(1)

-----------------------------------------------------------------------------
(* The daemon. *)

Configs ==
    [exclusive_zone : Int, hotspot_delay : Int, theme_border_width : Int,
     layer : Text, theme_bg : Text]

config_set_defaults ==
    [exclusive_zone |-> 0, hotspot_delay |-> 300, theme_border_width |-> 1,
     layer |-> "overlay", theme_bg |-> Unset]

ApplyZone(zone, v) ==
    CASE IsTrue(v) -> IF zone = 0 THEN -1 ELSE zone
      [] v.word \in {"false", "no", "off"} -> 0
      [] v.word = "auto" -> -1
      [] OTHER -> v.num

(* The size counts only if the zone was enabled on an earlier line. *)
ApplyZoneValue(zone, v) ==
    IF zone = 0 THEN 0 ELSE IF v.num <= 0 THEN -1 ELSE v.num

config_apply_ini_key(cfg, l) ==
    CASE l.key = "ExclusiveZone" ->
            [cfg EXCEPT !.exclusive_zone = ApplyZone(@, l.val)]
      [] l.key = "ExclusiveZoneValue" ->
            [cfg EXCEPT !.exclusive_zone = ApplyZoneValue(@, l.val)]
      [] l.key = "HotspotDelay" -> [cfg EXCEPT !.hotspot_delay = l.val.num]
      [] l.key = "BorderWidth" -> [cfg EXCEPT !.theme_border_width = l.val.num]
      [] l.key = "Layer" -> [cfg EXCEPT !.layer = l.val.word]
      [] l.key = "Background" -> [cfg EXCEPT !.theme_bg = l.val.word]

(* Mutant of config_validate: the delay is not validated. *)
ValidatesWords(cfg) == [cfg EXCEPT !.layer = IF @ \in Layers THEN @ ELSE "top"]

config_validate(cfg) ==
    [cfg EXCEPT
        !.layer = IF @ \in Layers THEN @ ELSE "top",
        !.hotspot_delay = IF @ \in 0..5000 THEN @ ELSE 300]

config_load_ini(lines) ==
    LET after[n \in 0..Len(lines)] ==
            IF n = 0 THEN config_set_defaults
            ELSE config_apply_ini_key(after[n - 1], lines[n])
    IN  after[Len(lines)]

config_parse(lines) == config_validate(config_load_ini(lines))

-----------------------------------------------------------------------------
(* The settings program. *)

Stores ==
    [exclusiveZone : BOOLEAN, exclusiveZoneValue : Int, hotspotDelay : Int,
     themeBorderWidth : Int, layer : Text, themeBg : Text]

StoreDefaults ==
    [exclusiveZone |-> FALSE, exclusiveZoneValue |-> 0, hotspotDelay |-> 300,
     themeBorderWidth |-> 1, layer |-> "top", themeBg |-> Unset]

(* A store in which the fields of s are set. *)
With(store, s) ==
    [f \in DOMAIN store |-> IF f \in DOMAIN s THEN s[f] ELSE store[f]]

(* parseInt(val) || default *)
ParseInt(v, default) == IF v.num = 0 THEN default ELSE v.num

ParseZone(s, v) ==
    CASE IsTrue(v) -> [s EXCEPT !.exclusiveZone = TRUE]
      [] v.word \in {"false", "no", "off"} \/ v = Num(0) ->
            [s EXCEPT !.exclusiveZone = FALSE]
      [] v.word = "auto" ->
            [s EXCEPT !.exclusiveZone = TRUE, !.exclusiveZoneValue = 0]
      [] OTHER ->
            [s EXCEPT !.exclusiveZone = v.num > 0, !.exclusiveZoneValue = v.num]

ParseLine(s, l) ==
    CASE l.key = "ExclusiveZone" -> ParseZone(s, l.val)
      [] l.key = "ExclusiveZoneValue" ->
            [s EXCEPT !.exclusiveZoneValue = ParseInt(l.val, 0)]
      [] l.key = "HotspotDelay" ->
            [s EXCEPT !.hotspotDelay = ParseInt(l.val, 300)]
      [] l.key = "BorderWidth" ->
            [s EXCEPT !.themeBorderWidth = ParseInt(l.val, 1)]
      [] l.key = "Layer" -> [s EXCEPT !.layer = l.val.word]
      [] l.key = "Background" -> [s EXCEPT !.themeBg = l.val.word]

_parseIni(lines) ==
    LET after[n \in 0..Len(lines)] ==
            IF n = 0 THEN StoreDefaults ELSE ParseLine(after[n - 1], lines[n])
    IN  after[Len(lines)]

Bool(b) == Word(IF b THEN "true" ELSE "false")

(* Mutant of generateIni: the size is written before the switch. *)
SizeFirst(s) ==
    (IF s.exclusiveZone
     THEN <<Line("ExclusiveZoneValue", Num(s.exclusiveZoneValue))>> ELSE <<>>)
    \o <<Line("ExclusiveZone", Bool(s.exclusiveZone)),
         Line("Layer", Word(s.layer)), Line("HotspotDelay", Num(s.hotspotDelay))>>
    \o (IF s.themeBg # Unset THEN <<Line("Background", Word(s.themeBg))>> ELSE <<>>)
    \o <<Line("BorderWidth", Num(s.themeBorderWidth))>>

generateIni(s) ==
    <<Line("Layer", Word(s.layer)), Line("ExclusiveZone", Bool(s.exclusiveZone))>>
    \o (IF s.exclusiveZone
        THEN <<Line("ExclusiveZoneValue", Num(s.exclusiveZoneValue))>> ELSE <<>>)
    \o <<Line("HotspotDelay", Num(s.hotspotDelay))>>
    \o (IF s.themeBg # Unset THEN <<Line("Background", Word(s.themeBg))>> ELSE <<>>)
    \o (IF s.themeBorderWidth >= 0
        THEN <<Line("BorderWidth", Num(s.themeBorderWidth))>> ELSE <<>>)
=============================================================================
