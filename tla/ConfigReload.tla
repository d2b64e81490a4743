---------------------------- MODULE ConfigReload ----------------------------
(***************************************************************************)
(* The life of config.ini: the daemon parses it at start-up, watches it     *)
(* with inotify and parses it again (config_watcher.c); the user rewrites   *)
(* it in place or has an editor replace it; the settings program reads it   *)
(* once and replaces it with what it shows.                                *)
(*                                                                         *)
(* The watch is on the file that had the name when it was set, inode, and   *)
(* stays with it: a file moved over the name is another file.  The kernel   *)
(* merges equal events that wait.                                          *)
(***************************************************************************)
EXTENDS Config

CONSTANTS
    IniFiles,   \* what the file may hold at first
    Rewrites,   \* bound: those of them the user may write later
    Settings,   \* what the user may set in the settings program
    Ways,       \* subset of {"in place", "replace", "settings", "early"}
    MaxChanges  \* bound: changes made by the user

ASSUME IniAssumption == Rewrites \subseteq IniFiles /\ IniFiles \subseteq Seq(Lines)
ASSUME SettingsAssumption ==
    \A s \in Settings : With(StoreDefaults, s) \in Stores
ASSUME ChangesAssumption == MaxChanges \in Nat

VARIABLES
    inode,      \* which file has the name config.ini; 0 if none
    lines,      \* what it holds
    target,     \* what it is being rewritten to, in place
    editing,    \* a program has it open for writing
    pc,         \* "parse", "watch", "loop", "reload": where the daemon is
    watch,      \* the watched inode; 0 if none
    event,      \* an IN_CLOSE_WRITE waits to be read
    cfg,        \* the daemon's configuration
    sent,       \* the one it last sent to the shell
    guiOpen, store, \* the settings program runs; its fields
    changes,
    missed      \* history: the file changed with no event for the daemon

disk == <<inode, lines, target, editing>>
reader == <<pc, watch, event, cfg, sent>>
reloadVars == <<disk, reader, guiOpen, store, changes, missed>>

ReloadInit ==
    /\ inode \in {0, 1}
    /\ lines \in IF inode = 0 THEN {<<>>} ELSE IniFiles
    /\ target = lines
    /\ editing = FALSE
    /\ pc = "parse"
    /\ watch = 0 /\ event = FALSE
    /\ cfg = config_set_defaults /\ sent = config_set_defaults
    /\ guiOpen = FALSE /\ store = StoreDefaults
    /\ changes = 0
    /\ missed = FALSE

-----------------------------------------------------------------------------
(* The user and the settings program. *)

Change(way) ==
    /\ way \in Ways
    /\ pc \in {"parse", "watch"} => "early" \in Ways
    /\ changes < MaxChanges
    /\ changes' = changes + 1

(* No event tells the daemon, which has parsed the file before. *)
Unseen == missed' = (missed \/ pc # "parse")

(* Open for writing: the file is empty, and fills piece by piece. *)
BeginEdit(f) ==
    /\ Change("in place")
    /\ inode # 0 /\ ~editing
    /\ editing' = TRUE
    /\ lines' = <<>>
    /\ target' = f
    /\ UNCHANGED <<inode, reader, guiOpen, store, missed>>

WritePiece ==
    /\ editing
    /\ Len(lines) < Len(target)
    /\ lines' = SubSeq(target, 1, Len(lines) + 1)
    /\ UNCHANGED <<inode, target, editing, reader, guiOpen, store, changes, missed>>

EndEdit ==
    /\ editing
    /\ lines = target
    /\ editing' = FALSE
    /\ \/ watch = inode /\ event' = TRUE /\ UNCHANGED missed
       \/ watch # inode /\ Unseen /\ UNCHANGED event
    /\ UNCHANGED <<inode, lines, target, pc, watch, cfg, sent, guiOpen, store, changes>>

(* A new file is moved over the name, or is the first to have it. *)
Replaced(f) ==
    /\ ~editing
    /\ inode' = inode + 1
    /\ lines' = f /\ target' = f
    /\ Unseen
    /\ UNCHANGED <<editing, reader>>

Replace(f) ==
    /\ Change("replace")
    /\ Replaced(f)
    /\ UNCHANGED <<guiOpen, store>>

OpenSettings ==
    /\ Change("settings")
    /\ ~guiOpen
    /\ guiOpen' = TRUE
    /\ store' = _parseIni(lines)
    /\ UNCHANGED <<disk, reader, missed>>

SetField(s) ==
    /\ Change("settings")
    /\ guiOpen
    /\ store' = With(store, s)
    /\ UNCHANGED <<disk, reader, guiOpen, missed>>

saveIni ==
    /\ Change("settings")
    /\ guiOpen
    /\ Replaced(generateIni(store))
    /\ UNCHANGED <<guiOpen, store>>

-----------------------------------------------------------------------------
(* The daemon. *)

ParseAtStart ==
    /\ pc = "parse"
    /\ cfg' = config_parse(lines)
    /\ pc' = "watch"
    /\ UNCHANGED <<disk, watch, event, sent, guiOpen, store, changes, missed>>

(* A missing file cannot be watched, and nothing is watched in its place. *)
config_watcher_init ==
    /\ pc = "watch"
    /\ watch' = inode
    /\ sent' = cfg
    /\ pc' = "loop"
    /\ UNCHANGED <<disk, event, cfg, guiOpen, store, changes, missed>>

(* config_watcher_handle: read the event, then parse the file and send it. *)
ReadEvent ==
    /\ pc = "loop"
    /\ event
    /\ event' = FALSE
    /\ pc' = "reload"
    /\ UNCHANGED <<disk, watch, cfg, sent, guiOpen, store, changes, missed>>

(* Mutant of Reload: the shell is not told. *)
ReloadQuietly ==
    /\ pc = "reload"
    /\ cfg' = config_parse(lines)
    /\ pc' = "loop"
    /\ UNCHANGED <<disk, watch, event, sent, guiOpen, store, changes, missed>>

Reload ==
    /\ pc = "reload"
    /\ cfg' = config_parse(lines)
    /\ sent' = cfg'
    /\ pc' = "loop"
    /\ UNCHANGED <<disk, watch, event, guiOpen, store, changes, missed>>

Daemon == ParseAtStart \/ config_watcher_init \/ ReadEvent \/ Reload

ReloadNext ==
    \/ Daemon
    \/ \E f \in Rewrites : BeginEdit(f) \/ Replace(f)
    \/ WritePiece \/ EndEdit
    \/ OpenSettings \/ saveIni
    \/ \E s \in Settings : SetField(s)

(* The daemon's thread runs, and who has opened the file closes it. *)
ReloadSpec == ReloadInit /\ [][ReloadNext]_reloadVars
FairReloadSpec ==
    /\ ReloadSpec
    /\ WF_reloadVars(Daemon) /\ WF_reloadVars(WritePiece) /\ WF_reloadVars(EndEdit)

-----------------------------------------------------------------------------

(* What config_validate leaves as it is (config.c:343). *)
Valid(c) == c \in Configs /\ c.layer \in Layers /\ c.hotspot_delay \in 0..5000

(* Every variable has its type, the watch is on no file that is still to    *)
(* come, a file holds what it was given, or a first part of it while that   *)
(* is being written, and what the daemon uses is validated (config.c:343).  *)
ReloadTypeOK ==
    /\ inode \in Nat /\ watch \in 0..inode
    /\ target \in Seq(Lines)
    /\ IF editing THEN \E n \in 0..Len(target) : lines = SubSeq(target, 1, n)
       ELSE lines = target
    /\ editing \in BOOLEAN /\ event \in BOOLEAN /\ missed \in BOOLEAN
    /\ guiOpen \in BOOLEAN
    /\ store \in Stores
    /\ pc \in {"parse", "watch", "loop", "reload"}
    /\ changes \in 0..MaxChanges
    /\ Valid(cfg) /\ Valid(sent)

(* A daemon that waits with no event to read uses the file as it is, and    *)
(* has told the shell, unless the file is being written or was changed by   *)
(* something no event tells: it may have parsed half of a file, but then    *)
(* the event of its closing is still to come (config_watcher.c:62-73).     *)
WaitsUpToDate ==
    pc = "loop" /\ ~event /\ ~editing /\ ~missed =>
        cfg = config_parse(lines) /\ sent = cfg

(* However rewrites of the watched file and reloads interleave, and though  *)
(* the daemon may parse a file that is half written, it ends up with what   *)
(* the file says, and has told the shell (config_watcher.c:62-73).         *)
ReloadSettles ==
    <>[](~missed => cfg = config_parse(lines) /\ sent = cfg)

(* What the settings program has saved, the daemon reads as it was shown,   *)
(* and so does the settings program the next time: the lines of the zone    *)
(* are written in the order the daemon needs (ConfigStore.qml:253, 323,    *)
(* config.c:154).                                                          *)
Reads(s, c) ==
    /\ c.exclusive_zone =
          IF ~s.exclusiveZone THEN 0
          ELSE IF s.exclusiveZoneValue <= 0 THEN -1 ELSE s.exclusiveZoneValue
    /\ s.hotspotDelay \in 0..5000 => c.hotspot_delay = s.hotspotDelay
    /\ s.themeBorderWidth >= 0 => c.theme_border_width = s.themeBorderWidth
    /\ s.layer \in Layers => c.layer = s.layer
    /\ c.theme_bg = s.themeBg

(* A second start of the settings program: a number it shows as 0 but has   *)
(* another default, and a size of a zone that is off, are not read again.  *)
ReadsBack(s, r) ==
    /\ r.exclusiveZone = s.exclusiveZone
    /\ s.exclusiveZone => r.exclusiveZoneValue = s.exclusiveZoneValue
    /\ s.hotspotDelay # 0 => r.hotspotDelay = s.hotspotDelay
    /\ s.themeBorderWidth > 0 => r.themeBorderWidth = s.themeBorderWidth
    /\ r.layer = s.layer /\ r.themeBg = s.themeBg

SavedAsShown ==
    [][saveIni => /\ Reads(store', config_parse(lines'))
               /\ ReadsBack(store', _parseIni(lines'))]_reloadVars
=============================================================================
