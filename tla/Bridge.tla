------------------------------- MODULE Bridge -------------------------------
(***************************************************************************)
(* The shell's end of the protocol, DaemonBridge.qml: it runs the daemon as *)
(* a child, follows the lines the child prints, and starts it again two     *)
(* seconds after it went.  Here the daemon is only what it prints: its      *)
(* config and its state when it starts, its state whenever that changes,   *)
(* and nothing in between; a dying daemon can leave a line cut short, which *)
(* JSON.parse refuses.                                                     *)
(***************************************************************************)
EXTENDS DockItems

CONSTANTS
    States,         \* the states the daemon may print
    Later,          \* bound: those of them it may change to
    MaxChanges,     \* bound: changes of the daemon's state
    MaxCrashes      \* bound: deaths of the daemon

ASSUME StatesAssumption ==
    /\ Later \subseteq States
    /\ States \subseteq [clients : Seq(Window), pinned : Seq(Class)]
ASSUME ChangesAssumption == MaxChanges \in Nat /\ MaxCrashes \in Nat

VARIABLES
    alive,      \* the daemon's process exists
    state,      \* its state: [clients, pinned]
    stdout,     \* lines printed and not yet read by the shell
    changes, crashes,
    running,    \* daemon.running, as the shell knows it
    restartTimer,   \* restartTimer is counting
    config,     \* a config message has been taken in
    clients, pinned, dockItems

child == <<alive, state, changes, crashes>>
shown == <<config, clients, pinned, dockItems>>
vars == <<child, stdout, running, restartTimer, shown>>

ConfigLine == [type |-> "config"]
TornLine == [type |-> "torn"]
(* Mutant of StateLine: a type the shell does not know. *)
UntypedLine(s) == [type |-> "", clients |-> s.clients, pinned |-> s.pinned]

StateLine(s) == [type |-> "state", clients |-> s.clients, pinned |-> s.pinned]

Init ==
    /\ alive = TRUE
    /\ state \in States
    /\ stdout = <<ConfigLine, StateLine(state)>>
    /\ changes = 0 /\ crashes = 0
    /\ running = TRUE /\ restartTimer = FALSE
    /\ config = FALSE
    /\ clients = <<>> /\ pinned = <<>> /\ dockItems = <<>>

(* The daemon. *)

Change(s) ==
    /\ alive
    /\ changes < MaxChanges
    /\ changes' = changes + 1
    /\ state' = s
    /\ stdout' = Append(stdout, StateLine(s))
    /\ UNCHANGED <<alive, crashes, running, restartTimer, shown>>

Crash ==
    /\ alive
    /\ crashes < MaxCrashes
    /\ crashes' = crashes + 1
    /\ alive' = FALSE
    /\ \/ UNCHANGED stdout
       \/ stdout' = Append(stdout, TornLine)
    /\ UNCHANGED <<state, changes, running, restartTimer, shown>>

(* The shell. *)

_onDaemonLine(line) ==
    CASE line.type = "config" ->
            config' = TRUE /\ UNCHANGED <<clients, pinned, dockItems>>
      [] line.type = "state" ->
            /\ clients' = line.clients
            /\ pinned' = line.pinned
            /\ dockItems' = recompute(clients', pinned')
            /\ UNCHANGED config
      [] OTHER -> UNCHANGED shown

onRead ==
    /\ stdout # <<>>
    /\ _onDaemonLine(Head(stdout))
    /\ stdout' = Tail(stdout)
    /\ UNCHANGED <<child, running, restartTimer>>

(* Mutant of onRunningChanged: the timer is not started. *)
onRunningChangedOnly ==
    /\ running /\ ~alive
    /\ running' = FALSE
    /\ UNCHANGED <<child, stdout, restartTimer, shown>>

(* The end of the process may be noticed before its last lines are read.   *)
onRunningChanged ==
    /\ running /\ ~alive
    /\ running' = FALSE
    /\ restartTimer' = TRUE
    /\ UNCHANGED <<child, stdout, shown>>

onTriggered ==
    /\ restartTimer
    /\ restartTimer' = FALSE
    /\ running' = TRUE
    /\ alive' = TRUE
    /\ state' \in Later
    /\ stdout' = stdout \o <<ConfigLine, StateLine(state')>>
    /\ UNCHANGED <<changes, crashes, shown>>

Shell == onRead \/ onRunningChanged \/ onTriggered

Next == (\E s \in Later : Change(s)) \/ Crash \/ Shell

(* The shell's event loop runs: it reads what there is, and its timer fires *)
Fairness == WF_vars(onRead) /\ WF_vars(onRunningChanged) /\ WF_vars(onTriggered)

Spec == Init /\ [][Next]_vars
FairSpec == Spec /\ Fairness

-----------------------------------------------------------------------------

(* Every variable has its type. *)
TypeOK ==
    /\ alive \in BOOLEAN /\ running \in BOOLEAN /\ restartTimer \in BOOLEAN
    /\ state \in States
    /\ changes \in 0..MaxChanges /\ crashes \in 0..MaxCrashes
    /\ config \in BOOLEAN
    /\ \A i \in DOMAIN stdout : stdout[i].type \in {"config", "state", "torn"}

(* What the daemon says of windows and pins: no address twice (module       *)
(* DockState) and no class pinned twice (NoDuplicates of module Pinned).   *)
Unambiguous(s) ==
    /\ \A i, j \in DOMAIN s.clients : s.clients[i].addr = s.clients[j].addr => i = j
    /\ \A i, j \in DOMAIN s.pinned : Fold[s.pinned[i]] = Fold[s.pinned[j]] => i = j

(* Every window the daemon lists stands in the dock exactly once: pinned or *)
(* not, in whatever spelling its class is pinned (DaemonBridge.qml:71).    *)
EachWindowOnce ==
    \A i \in DOMAIN clients :
        Cardinality(Places(dockItems, clients[i].addr)) = 1

(* All the windows of a class stand in one item, the pinned items are the   *)
(* pinned classes in their order and come first, and the active item is    *)
(* the one with the active window.                                         *)
Grouped ==
    /\ \A i, j \in DOMAIN dockItems :
          Fold[dockItems[i].className] = Fold[dockItems[j].className] => i = j
    /\ \A i \in DOMAIN dockItems :
          /\ i \in DOMAIN pinned <=> dockItems[i].isPinned
          /\ i \in DOMAIN pinned => dockItems[i].className = pinned[i]
          /\ \A j \in DOMAIN dockItems[i].instances :
                /\ Fold[dockItems[i].instances[j].class]
                      = Fold[dockItems[i].className]
                /\ dockItems[i].instances[j].active => dockItems[i].isActive
          /\ dockItems[i].isActive =>
                \E c \in DOMAIN clients :
                    /\ clients[c].active
                    /\ Fold[clients[c].class] = Fold[dockItems[i].className]

=============================================================================
