------------------------------- MODULE Pinned -------------------------------
(***************************************************************************)
(* The pinned apps: the list in the daemon (state.c), the list in the       *)
(* settings program (ConfigStore.qml), and the file both of them rewrite    *)
(* as a whole.                                                             *)
(*                                                                         *)
(* The daemon empties the file with fopen("w") and fills it when the stream *)
(* is closed; it can die in between.  The settings program replaces the     *)
(* file through Quickshell's FileView, which is not part of the repository: *)
(* a daemon in the middle of saving may be left with a file that has no     *)
(* name any more.  A missing file and an empty one are both <<>>.  Lines    *)
(* have no blanks at their ends and fit the daemon's line buffer.           *)
(***************************************************************************)
EXTENDS Selection, SequencesExt

CONSTANTS
    Class,      \* application classes
    Fold,       \* Fold[c]: c in lower case, what strcasecmp compares
    Hidden,     \* the classes that start with # or ;
    Blank,      \* an empty line
    Files,      \* what the file may hold at first
    Faults,     \* subset of {"crash", "write_error", "settings"}
    MaxOps      \* bound: commands and edits of the user

ASSUME ClassAssumption ==
    Blank \notin Class /\ Hidden \subseteq Class /\ Class \subseteq DOMAIN Fold
ASSUME FilesAssumption == Files \subseteq Seq(Class \cup {Blank})
ASSUME OpsAssumption == MaxOps \in Nat

VARIABLES
    file,       \* the lines of the pinned file
    up,         \* the daemon runs
    pinned,     \* its list, in display order
    saving,     \* "no", "truncated", or "orphan": its file has been replaced
    open,       \* the settings program runs
    pinnedApps, \* its list
    ops,        \* commands and edits so far
    wanted,     \* history: what the user has pinned and not removed (folded)
    daemonKnows,    \* history: the file is what the daemon last read or wrote
    guiKnows,       \* history: the same of the settings program
    mishap      \* history: a save failed, was cut short, or overwrote a file
                \* its writer had not read

daemon == <<up, pinned, saving>>
settings == <<open, pinnedApps>>
history == <<wanted, daemonKnows, guiKnows, mishap>>
vars == <<file, daemon, settings, ops, history>>

Folded(list) == {Fold[list[i]] : i \in DOMAIN list}

(* Mutants of Parse: blank lines count, and a last line is lost. *)
ParseBlank(lines) ==
    EntriesAt(lines, {i \in DOMAIN lines : lines[i] \notin Hidden})
ParseTerminated(lines) ==
    EntriesAt(lines, {i \in 1..(Len(lines) - 1) :
                        lines[i] # Blank /\ lines[i] \notin Hidden})

(* state_load_pinned and ConfigStore._parsePinned. *)
Load(lines) == EntriesAt(lines, {i \in DOMAIN lines : lines[i] # Blank})
Parse(lines) ==
    EntriesAt(lines, {i \in DOMAIN lines :
                        lines[i] # Blank /\ lines[i] \notin Hidden})

Init ==
    /\ file \in Files
    /\ up = TRUE /\ pinned = Load(file) /\ saving = "no"
    /\ open = FALSE /\ pinnedApps = <<>>
    /\ ops = 0
    /\ wanted = Folded(Load(file))
    /\ daemonKnows = TRUE /\ guiKnows = FALSE /\ mishap = FALSE

Step == ops < MaxOps /\ ops' = ops + 1

-----------------------------------------------------------------------------
(* The daemon.  It is one thread: it takes no command while it saves.  To   *)
(* pin a pinned app, or unpin one that is not, changes nothing.             *)

(* Mutant of state_is_pinned: classes are compared letter by letter. *)
PinnedAsSpelt(list, c) == \E i \in DOMAIN list : list[i] = c

state_is_pinned(list, c) == Fold[c] \in Folded(list)

(* Mutant of BeginSave: the list is not saved. *)
NoSave == UNCHANGED <<file, saving, mishap, daemonKnows, guiKnows>>

(* save_pinned up to fopen, which may fail: that is only logged. *)
BeginSave ==
    \/ /\ file' = <<>>
       /\ saving' = "truncated"
       /\ mishap' = (mishap \/ ~daemonKnows)
       /\ guiKnows' = FALSE
       /\ UNCHANGED daemonKnows
    \/ /\ "write_error" \in Faults
       /\ mishap' = TRUE
       /\ UNCHANGED <<file, saving, daemonKnows, guiKnows>>

state_pin(c) ==
    /\ up /\ saving = "no" /\ Step
    /\ ~state_is_pinned(pinned, c)
    /\ pinned' = Append(pinned, c)
    /\ wanted' = wanted \cup {Fold[c]}
    /\ BeginSave
    /\ UNCHANGED <<up, settings>>

(* The first entry of the class goes. *)
state_unpin(c) ==
    /\ up /\ saving = "no" /\ Step
    /\ \E i \in DOMAIN pinned :
          /\ Fold[pinned[i]] = Fold[c]
          /\ \A j \in 1..(i - 1) : Fold[pinned[j]] # Fold[c]
          /\ pinned' = RemoveAt(pinned, i)
    /\ wanted' = wanted \ {Fold[c]}
    /\ BeginSave
    /\ UNCHANGED <<up, settings>>

(* save_pinned from fopen to fclose. *)
EndSave ==
    /\ saving # "no"
    /\ saving' = "no"
    /\ \/ /\ saving = "truncated"
          /\ file' = pinned
          /\ mishap' = (mishap \/ ~daemonKnows)
          /\ daemonKnows' = TRUE /\ guiKnows' = FALSE
       \/ /\ saving = "orphan"
          /\ mishap' = TRUE
          /\ UNCHANGED <<file, daemonKnows, guiKnows>>
    /\ UNCHANGED <<up, pinned, settings, ops, wanted>>

(* The daemon ends, in the middle of a save if it crashes. *)
Stop ==
    /\ up
    /\ saving = "no" \/ "crash" \in Faults
    /\ up' = FALSE
    /\ saving' = "no"
    /\ mishap' = (mishap \/ saving # "no")
    /\ UNCHANGED <<file, pinned, settings, ops, wanted, daemonKnows, guiKnows>>

Start ==
    /\ ~up
    /\ up' = TRUE
    /\ pinned' = Load(file)
    /\ daemonKnows' = TRUE
    /\ UNCHANGED <<file, saving, settings, ops, wanted, guiKnows, mishap>>

-----------------------------------------------------------------------------
(* The settings program reads the file when it starts, and never again.    *)

Open ==
    /\ "settings" \in Faults
    /\ ~open /\ Step
    /\ open' = TRUE
    /\ pinnedApps' = Parse(file)
    /\ guiKnows' = (saving # "truncated")
    /\ UNCHANGED <<file, daemon, wanted, daemonKnows, mishap>>

Close ==
    /\ open
    /\ open' = FALSE
    /\ pinnedApps' = <<>>
    /\ guiKnows' = FALSE
    /\ UNCHANGED <<file, daemon, ops, wanted, daemonKnows, mishap>>

(* savePinned of the list l; the daemon's half-written file may lose its name *)
savePinned(l) ==
    /\ pinnedApps' = l
    /\ file' = l
    /\ saving' \in IF saving = "truncated" THEN {"truncated", "orphan"}
                   ELSE {saving}
    /\ mishap' = (mishap \/ ~guiKnows)
    /\ guiKnows' = TRUE /\ daemonKnows' = FALSE
    /\ UNCHANGED <<up, pinned, open>>

movePinned(from, to) ==
    /\ open /\ Step
    /\ from # to
    /\ savePinned(InsertAt(RemoveAt(pinnedApps, from), to, pinnedApps[from]))
    /\ UNCHANGED wanted

removePinned(i) ==
    /\ open /\ Step
    /\ savePinned(RemoveAt(pinnedApps, i))
    /\ wanted' = wanted \ {Fold[pinnedApps[i]]}

(* The Save button writes both files, also when the list did not change. *)
save ==
    /\ open /\ Step
    /\ savePinned(pinnedApps)
    /\ UNCHANGED wanted

Next ==
    \/ \E c \in Class : state_pin(c) \/ state_unpin(c)
    \/ EndSave \/ Stop \/ Start
    \/ Open \/ Close \/ save
    \/ \E i, j \in DOMAIN pinnedApps : movePinned(i, j)
    \/ \E i \in DOMAIN pinnedApps : removePinned(i)

Spec == Init /\ [][Next]_vars

-----------------------------------------------------------------------------

(* Every variable has its type. *)
TypeOK ==
    /\ file \in Seq(Class \cup {Blank})
    /\ up \in BOOLEAN
    /\ pinned \in Seq(Class)
    /\ saving \in {"no", "truncated", "orphan"}
    /\ open \in BOOLEAN
    /\ pinnedApps \in Seq(Class)
    /\ ops \in 0..MaxOps
    /\ wanted \subseteq {Fold[c] : c \in Class}
    /\ daemonKnows \in BOOLEAN
    /\ guiKnows \in BOOLEAN
    /\ mishap \in BOOLEAN

(* No app occurs twice. *)
Unique(list) ==
    \A i, j \in DOMAIN list : Fold[list[i]] = Fold[list[j]] => i = j

(* From a file that names every app once, no list ever names one twice in  *)
(* any spelling, whatever is pinned, edited, lost or reloaded: the shell    *)
(* would show its windows twice (state.c:164, DaemonBridge.qml:76).        *)
NoDuplicates == Unique(Load(file)) /\ Unique(pinned) /\ Unique(pinnedApps)

(* The daemon shows what a restart would load, unless the settings program  *)
(* wrote the file after the daemon last read or wrote it, or a save failed. *)
ListIsStored ==
    up /\ saving = "no" /\ daemonKnows /\ ~mishap => pinned = Load(file)

(* A pin is lost only when a save fails, is cut short by a crash, or        *)
(* overwrites a file its writer had not read; or when the settings program  *)
(* takes the class for a comment (state.c:152, ConfigStore.qml:137, 145).  *)
PinsLostOnlyByMishap ==
    saving = "no" /\ ~mishap =>
        wanted \ {Fold[c] : c \in Hidden} \subseteq Folded(Load(file))
=============================================================================
