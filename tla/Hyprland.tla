------------------------------ MODULE Hyprland ------------------------------
(***************************************************************************)
(* The compositor, as src/daemon uses it.  It is not part of the           *)
(* repository: this module is the environment of the daemon, reconstructed *)
(* from the requests of hypr_ipc.c, the fields state_refresh reads out of  *)
(* the replies and the Socket2 events state_on_* parse.                    *)
(*                                                                         *)
(* The compositor answers requests and changes its state in one event      *)
(* loop, so a state change and the events that announce it are one step.   *)
(* Events go to the subscribers connected at that moment and to nobody     *)
(* else: what happens while the daemon is not subscribed is never said.    *)
(***************************************************************************)
EXTENDS Integers, Sequences

CONSTANTS
    Addr,       \* window addresses
    NoAddr,     \* no window: the empty address
    Workspace,  \* workspace ids; a negative id is a special workspace
    Monitor,    \* monitor names
    ClassOf,    \* ClassOf[a]: the application class of the window at a
    NoClass,    \* the empty class string
    Ops,        \* what this compositor does (see CompositorStep)
    MaxSteps,   \* bound: steps of the compositor
    MaxDrops    \* bound: times the compositor drops its subscriber

ASSUME AddrAssumption == NoAddr \notin Addr
ASSUME WorkspaceAssumption == Workspace \subseteq Int
ASSUME ClassAssumption == Addr \subseteq DOMAIN ClassOf
ASSUME BoundAssumption == MaxSteps \in Nat /\ MaxDrops \in Nat

VARIABLES
    win,        \* the open windows: a function from their addresses
    focus,      \* the focused window, or NoAddr
    mon,        \* the focused monitor
    mws,        \* the active workspace of each monitor
    listening,  \* Socket2 accepts connections
    subscribed, \* the daemon's connection to Socket2 is alive on this side
    sock,       \* event lines sent to the daemon and not yet read
    steps,      \* compositor steps taken
    drops       \* times the subscriber was dropped

compositor == <<win, focus, mon, mws, steps>>
socket2 == <<listening, subscribed, sock, drops>>
hyprVars == <<compositor, socket2>>

(* The workspaces a monitor can be on; a special one is shown over them.    *)
Normal == {w \in Workspace : w >= 0}

Window == [ws : Workspace, floating : BOOLEAN, fullscreen : BOOLEAN]
Windows == UNION {[S -> Window] : S \in SUBSET Addr}

(***************************************************************************)
(* The event lines of EVENT_MAP, with the fields the daemon reads.  "other" *)
(* is a line whose name is not in the table, or "urgent".                  *)
(***************************************************************************)
OpenEv == [type |-> "openwindow"]
FullscreenEv == [type |-> "fullscreen"]
ReloadedEv == [type |-> "configreloaded"]
OtherEv == [type |-> "other"]
CloseEv(a) == [type |-> "closewindow", addr |-> a]
ActiveEv(a) == [type |-> "activewindowv2", addr |-> a]
MoveEv(a, w) == [type |-> "movewindowv2", addr |-> a, ws |-> w]
FloatEv(a, b) == [type |-> "changefloatingmode", addr |-> a, floating |-> b]
WorkspaceEv(w) == [type |-> "workspacev2", ws |-> w]
MonitorEv(m) == [type |-> "focusedmon", mon |-> m]

Event ==
    {OpenEv, FullscreenEv, ReloadedEv, OtherEv}
    \cup {CloseEv(a) : a \in Addr}
    \cup {ActiveEv(a) : a \in Addr \cup {NoAddr}}
    \cup {MoveEv(a, w) : a \in Addr, w \in Workspace}
    \cup {FloatEv(a, b) : a \in Addr, b \in BOOLEAN}
    \cup {WorkspaceEv(w) : w \in Workspace}
    \cup {MonitorEv(m) : m \in Monitor}

HyprInit ==
    /\ \E S \in SUBSET Addr, w \in Workspace :
          win = [a \in S |-> [ws |-> w, floating |-> FALSE, fullscreen |-> FALSE]]
    /\ focus \in DOMAIN win \cup {NoAddr}
    /\ mon \in Monitor
    /\ \E w \in Normal : mws = [m \in Monitor |-> w]
    /\ listening \in BOOLEAN
    /\ subscribed = FALSE
    /\ sock = <<>>
    /\ steps = 0
    /\ drops = 0

Post(evs) ==
    /\ sock' = IF subscribed THEN sock \o evs ELSE sock
    /\ steps' = steps + 1
    /\ UNCHANGED <<listening, subscribed, drops>>

-----------------------------------------------------------------------------

(* A window is mapped and takes the focus. *)
OpenWindow(a, w) ==
    /\ a \notin DOMAIN win
    /\ win' = [b \in DOMAIN win \cup {a} |->
                 IF b = a
                 THEN [ws |-> w, floating |-> FALSE, fullscreen |-> FALSE]
                 ELSE win[b]]
    /\ focus' = a
    /\ Post(<<OpenEv, ActiveEv(a)>>)
    /\ UNCHANGED <<mon, mws>>

(* A window goes; if it had the focus, another one or none gets it. *)
CloseWindow(a) ==
    /\ a \in DOMAIN win
    /\ win' = [b \in DOMAIN win \ {a} |-> win[b]]
    /\ \/ /\ focus # a
          /\ Post(<<CloseEv(a)>>)
          /\ UNCHANGED focus
       \/ /\ focus = a
          /\ focus' \in (DOMAIN win \ {a}) \cup {NoAddr}
          /\ Post(<<CloseEv(a), ActiveEv(focus')>>)
    /\ UNCHANGED <<mon, mws>>

FocusWindow(a) ==
    /\ a \in DOMAIN win \cup {NoAddr}
    /\ a # focus
    /\ focus' = a
    /\ Post(<<ActiveEv(a)>>)
    /\ UNCHANGED <<win, mon, mws>>

MoveWindow(a, w) ==
    /\ a \in DOMAIN win
    /\ win[a].ws # w
    /\ win' = [win EXCEPT ![a].ws = w]
    /\ Post(<<MoveEv(a, w)>>)
    /\ UNCHANGED <<focus, mon, mws>>

ToggleFloating(a) ==
    /\ a \in DOMAIN win
    /\ win' = [win EXCEPT ![a].floating = ~@]
    /\ Post(<<FloatEv(a, win'[a].floating)>>)
    /\ UNCHANGED <<focus, mon, mws>>

ToggleFullscreen(a) ==
    /\ a \in DOMAIN win
    /\ win' = [win EXCEPT ![a].fullscreen = ~@]
    /\ Post(<<FullscreenEv>>)
    /\ UNCHANGED <<focus, mon, mws>>

SwitchWorkspace(w) ==
    /\ w # mws[mon]
    /\ mws' = [mws EXCEPT ![mon] = w]
    /\ Post(<<WorkspaceEv(w)>>)
    /\ UNCHANGED <<win, focus, mon>>

FocusMonitor(m) ==
    /\ m # mon
    /\ mon' = m
    /\ Post(<<MonitorEv(m)>>)
    /\ UNCHANGED <<win, focus, mws>>

(* A configuration reload, or an event the daemon has no handler for. *)
Announce(ev) ==
    /\ Post(<<ev>>)
    /\ UNCHANGED <<win, focus, mon, mws>>

CompositorStep ==
    /\ steps < MaxSteps
    /\ \/ /\ "open" \in Ops
          /\ \E a \in Addr, w \in Workspace : OpenWindow(a, w)
       \/ "close" \in Ops /\ \E a \in Addr : CloseWindow(a)
       \/ "focus" \in Ops /\ \E a \in Addr \cup {NoAddr} : FocusWindow(a)
       \/ "move" \in Ops /\ \E a \in Addr, w \in Workspace : MoveWindow(a, w)
       \/ "float" \in Ops /\ \E a \in Addr : ToggleFloating(a)
       \/ "fullscreen" \in Ops /\ \E a \in Addr : ToggleFullscreen(a)
       \/ "workspace" \in Ops /\ \E w \in Normal : SwitchWorkspace(w)
       \/ "monitor" \in Ops /\ \E m \in Monitor : FocusMonitor(m)
       \/ "reload" \in Ops /\ Announce(ReloadedEv)
       \/ "other" \in Ops /\ Announce(OtherEv)

-----------------------------------------------------------------------------

(* The compositor hangs up on the daemon; what it already sent can still   *)
(* be read.  The socket may stop accepting connections for a while.        *)
DropSubscriber ==
    /\ subscribed
    /\ drops < MaxDrops
    /\ subscribed' = FALSE
    /\ listening' \in BOOLEAN
    /\ drops' = drops + 1
    /\ UNCHANGED <<compositor, sock>>

Listen ==
    /\ ~listening
    /\ listening' = TRUE
    /\ UNCHANGED <<compositor, subscribed, sock, drops>>

HyprTypeOK ==
    /\ win \in Windows
    /\ focus \in Addr \cup {NoAddr}
    /\ mon \in Monitor
    /\ mws \in [Monitor -> Workspace]
    /\ listening \in BOOLEAN
    /\ subscribed \in BOOLEAN
    /\ sock \in Seq(Event)
    /\ steps \in 0..MaxSteps
    /\ drops \in 0..MaxDrops

=============================================================================
