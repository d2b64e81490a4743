----------------------------- MODULE DockState ------------------------------
(***************************************************************************)
(* The daemon's data model of running windows, state.c: what state_refresh  *)
(* and each state_on_* handler do to a DockState, as functions from a state *)
(* to the next one.                                                        *)
(*                                                                         *)
(* clients is a function from the addresses of the listed windows: the code *)
(* keeps an array filled from one reply, in which an address occurs once,   *)
(* and looks entries up by address.  Class and icon are functions of the    *)
(* address (ClassOf); the title is left out.  A NULL and an empty           *)
(* active_addr are both NoAddr.  The pinned list is in module Pinned.      *)
(***************************************************************************)
EXTENDS Hyprland

DockClient ==
    [workspace_id : Workspace, is_active : BOOLEAN,
     is_floating : BOOLEAN, is_fullscreen : BOOLEAN]

Dock ==
    [clients : UNION {[S -> DockClient] : S \in SUBSET Addr},
     active_addr : Addr \cup {NoAddr},
     active_ws : Workspace \cup {0},
     active_mon : Monitor \cup {""}]

NoClients == [a \in {} |-> a]

state_init ==
    [clients |-> NoClients, active_addr |-> NoAddr,
     active_ws |-> 0, active_mon |-> ""]

(* is_active of every client, from active_addr. *)
MarkActive(d) ==
    [d EXCEPT !.clients =
        [a \in DOMAIN @ |-> [@[a] EXCEPT !.is_active = (a = d.active_addr)]]]

-----------------------------------------------------------------------------
(* state_refresh, one operator per reply it waits for.                     *)

(* The windows a snapshot keeps: not on a special workspace, with a class. *)
Listed(ws) == {a \in DOMAIN ws : ws[a].ws >= 0 /\ ClassOf[a] # NoClass}

ClearClients(d) == [d EXCEPT !.clients = NoClients]

(* Mutant of LoadClients: the old list is not cleared. *)
LoadClientsOver(d, ws) ==
    [d EXCEPT !.clients =
        [a \in Listed(ws) \cup DOMAIN @ |->
            IF a \notin Listed(ws) THEN @[a]
            ELSE [workspace_id |-> ws[a].ws, is_active |-> FALSE,
                  is_floating |-> ws[a].floating,
                  is_fullscreen |-> ws[a].fullscreen]]]

LoadClients(d, ws) ==
    [d EXCEPT !.clients =
        [a \in Listed(ws) |->
            [workspace_id |-> ws[a].ws, is_active |-> FALSE,
             is_floating |-> ws[a].floating,
             is_fullscreen |-> ws[a].fullscreen]]]

(* Mutant of LoadActive: the clients are not marked. *)
LoadActiveUnmarked(d, f) ==
    [d EXCEPT !.active_addr = IF f = NoAddr THEN @ ELSE f]

(* The reply for no focused window has no address: active_addr stays.      *)
LoadActive(d, f) ==
    MarkActive([d EXCEPT !.active_addr = IF f = NoAddr THEN @ ELSE f])

LoadMonitors(d, m, w) == [d EXCEPT !.active_mon = m, !.active_ws = w]

(* An undisturbed refresh, all three replies from the same moment.         *)
state_refresh(d, ws, f, m, w) ==
    LoadMonitors(LoadActive(LoadClients(d, ws), f), m, w)

-----------------------------------------------------------------------------
(* The incremental handlers.                                               *)

state_on_closewindow(d, a) ==
    [d EXCEPT !.clients = [b \in DOMAIN @ \ {a} |-> @[b]]]

(* Mutants of state_on_activewindow: the event of an empty address, or of a *)
(* window that is not listed, is dropped.                                  *)
DropsNoFocus(d, a) ==
    IF a = NoAddr THEN d ELSE MarkActive([d EXCEPT !.active_addr = a])
DropsUnlisted(d, a) ==
    IF a \in DOMAIN d.clients \cup {NoAddr}
    THEN MarkActive([d EXCEPT !.active_addr = a]) ELSE d

state_on_activewindow(d, a) == MarkActive([d EXCEPT !.active_addr = a])

(* Mutant of state_on_movewindow: an unlisted window is entered half-filled *)
MovesUnlisted(d, a, w) ==
    IF a \in DOMAIN d.clients
    THEN [d EXCEPT !.clients[a].workspace_id = w]
    ELSE [d EXCEPT !.clients = [b \in DOMAIN @ \cup {a} |->
            IF b = a THEN [workspace_id |-> w, is_active |-> FALSE] ELSE @[b]]]

state_on_movewindow(d, a, w) ==
    IF a \in DOMAIN d.clients
    THEN [d EXCEPT !.clients[a].workspace_id = w] ELSE d

state_on_floating(d, a, b) ==
    IF a \in DOMAIN d.clients
    THEN [d EXCEPT !.clients[a].is_floating = b] ELSE d

state_on_workspace(d, w) == [d EXCEPT !.active_ws = w]

state_on_focusedmon(d, m) == [d EXCEPT !.active_mon = m]

(* Mutant of NeedsRefresh: fullscreen is left to no handler. *)
RefreshesForOpen(ev) == ev.type \in {"openwindow", "configreloaded"}

(* openwindow, fullscreen and configreloaded are answered by a full refresh *)
NeedsRefresh(ev) == ev.type \in {"openwindow", "fullscreen", "configreloaded"}

(* handle_event for an event that is handled from its own data. *)
handle_event(d, ev) ==
    CASE ev.type = "closewindow" -> state_on_closewindow(d, ev.addr)
      [] ev.type = "activewindowv2" -> state_on_activewindow(d, ev.addr)
      [] ev.type = "movewindowv2" -> state_on_movewindow(d, ev.addr, ev.ws)
      [] ev.type = "changefloatingmode" ->
            state_on_floating(d, ev.addr, ev.floating)
      [] ev.type = "workspacev2" -> state_on_workspace(d, ev.ws)
      [] ev.type = "focusedmon" -> state_on_focusedmon(d, ev.mon)
      [] OTHER -> d

(* Mutants of Reports: a close that is not reported, and a focus that is    *)
(* reported only when a listed window gets it.                             *)
ReportsNoClose(d, ev) ==
    CASE ev.type \in {"movewindowv2", "changefloatingmode"} ->
            ev.addr \in DOMAIN d.clients
      [] ev.type = "activewindowv2" -> TRUE
      [] ev.type = "workspacev2" -> ev.ws # d.active_ws
      [] ev.type = "focusedmon" -> ev.mon # d.active_mon
      [] OTHER -> FALSE
ReportsListed(d, ev) ==
    CASE ev.type \in {"closewindow", "movewindowv2", "changefloatingmode",
                       "activewindowv2"} ->
            ev.addr \in DOMAIN d.clients
      [] ev.type = "workspacev2" -> ev.ws # d.active_ws
      [] ev.type = "focusedmon" -> ev.mon # d.active_mon
      [] OTHER -> FALSE

(* What the handler returns, which makes the loop emit the state. *)
Reports(d, ev) ==
    CASE ev.type \in {"closewindow", "movewindowv2", "changefloatingmode"} ->
            ev.addr \in DOMAIN d.clients
      [] ev.type = "activewindowv2" -> TRUE
      [] ev.type = "workspacev2" -> ev.ws # d.active_ws
      [] ev.type = "focusedmon" -> ev.mon # d.active_mon
      [] OTHER -> FALSE

=============================================================================
