------------------------------ MODULE MainLoop ------------------------------
(***************************************************************************)
(* snappydock-d's main(): start-up, the poll() loop, the Socket2            *)
(* connection, and the state it emits to the shell, running against the    *)
(* compositor of module Hyprland.                                          *)
(*                                                                         *)
(* The daemon is one thread; pc is the place it has reached.  Whatever     *)
(* waits for another process is a step of its own: each of the three       *)
(* replies of state_refresh, connect(), poll(), read().  Between two steps *)
(* the compositor may move on.  back is where a refresh returns to.        *)
(***************************************************************************)
EXTENDS DockState

CONSTANTS
    MaxEvents,  \* the size of main's events[] array: 32 in the code
    MaxCmds,    \* bound: command lines the shell sends
    MaxFails,   \* bound: IPC requests that fail
    Faults      \* subset of {"startup_activity", "shell_exit"}

ASSUME LoopAssumption ==
    MaxEvents \in Nat \ {0} /\ MaxCmds \in Nat /\ MaxFails \in Nat

VARIABLES
    pc, back,   \* where the daemon is, and where its refresh returns to
    dock,       \* the DockState
    s_fd,       \* s_fd >= 0: the daemon holds a Socket2 connection
    batch,      \* events[]: the events of this iteration not yet handled
    buf,        \* complete lines left in s_buf by the last read
    changed,    \* state_changed
    ret,        \* the result of poll(): 0 after a timeout
    revents,    \* the inputs poll() found ready
    s_running,
    stdin,      \* command lines in the pipe: "pin" changes the state
    cmds,       \* command lines sent
    hup,        \* the shell has closed its end of the pipe
    fails,      \* IPC requests that failed
    shown,      \* the last state emitted: what the dock displays
    winSync,    \* history: no window change has gone unannounced since a
                \* snapshot of the clients that no older event could undo
    crossed,    \* history: since that snapshot a window went to or came from
                \* a special workspace
    focusSync   \* history: the same as winSync of the focus

daemon == <<pc, back, dock, s_fd, batch, buf, changed, ret, revents, s_running>>
shell == <<stdin, cmds, hup>>
history == <<winSync, crossed, focusSync>>
vars == <<hyprVars, daemon, shell, fails, shown, history>>

(* Everything announced to the daemon and not yet handled, oldest first. *)
pending == batch \o buf \o sock

RefreshStages == {"clients", "active", "monitors"}
Stages == RefreshStages \cup
    {"subscribe", "poll", "read", "reinit", "socket2", "stdin", "emit",
     "retry", "stopped"}

(* Before the loop: state_refresh and hypr_events_init of main's set-up. *)
Starting == pc = "subscribe" \/ (pc \in RefreshStages /\ back = "subscribe")

Init ==
    /\ HyprInit
    /\ pc = "clients" /\ back = "subscribe"
    /\ dock = state_init
    /\ s_fd = FALSE
    /\ batch = <<>> /\ buf = <<>>
    /\ changed = FALSE
    /\ ret = 1 /\ revents = {}
    /\ s_running = TRUE
    /\ stdin = <<>> /\ cmds = 0 /\ hup = FALSE
    /\ fails = 0
    /\ shown = state_init
    /\ winSync = FALSE /\ crossed = FALSE
    /\ focusSync = (focus = NoAddr)

-----------------------------------------------------------------------------
(* state_refresh: three requests.  A request fails when the compositor's   *)
(* request socket gives no reply.                                          *)

(* For the history only: no event from before a gap waits to be replayed   *)
(* over the snapshot taken now.                                            *)
Unstale == subscribed \/ pending = <<>>

Fail == fails < MaxFails /\ fails' = fails + 1

(* Return from state_refresh.  Only an event handler's caller looks at the *)
(* result; the other three callers emit the state whatever it is.          *)
Return(result) ==
    /\ pc' = back
    /\ changed' = IF back = "socket2" THEN changed \/ result ELSE TRUE

RefreshClients ==
    /\ pc = "clients"
    /\ \/ /\ dock' = LoadClients(dock, win)
          /\ winSync' = (winSync \/ Unstale)
          /\ crossed' = FALSE
          /\ pc' = "active"
          /\ UNCHANGED <<fails, changed>>
       \/ /\ Fail
          /\ dock' = ClearClients(dock)
          /\ winSync' = FALSE
          /\ Return(FALSE)
          /\ UNCHANGED crossed
    /\ UNCHANGED <<hyprVars, back, s_fd, batch, buf, ret, revents, s_running,
                   shell, shown, focusSync>>

RefreshActive ==
    /\ pc = "active"
    /\ pc' = "monitors"
    /\ \/ /\ dock' = LoadActive(dock, focus)
          /\ focusSync' = (focusSync \/ (focus # NoAddr /\ Unstale))
          /\ UNCHANGED fails
       \/ /\ Fail
          /\ dock' = MarkActive(dock)
          /\ UNCHANGED focusSync
    /\ UNCHANGED <<hyprVars, back, s_fd, batch, buf, changed, ret, revents,
                   s_running, shell, shown, winSync, crossed>>

RefreshMonitors ==
    /\ pc = "monitors"
    /\ \/ dock' = LoadMonitors(dock, mon, mws[mon]) /\ UNCHANGED fails
       \/ Fail /\ UNCHANGED dock
    /\ Return(TRUE)
    /\ UNCHANGED <<hyprVars, back, s_fd, batch, buf, ret, revents, s_running,
                   shell, shown, history>>

-----------------------------------------------------------------------------
(* hypr_events_init, when it succeeds: a new connection and an empty line  *)
(* buffer.  Lines of the old connection still in the buffer are forgotten. *)
Connect ==
    /\ listening
    /\ s_fd' = TRUE
    /\ subscribed' = TRUE
    /\ sock' = <<>>
    /\ buf' = <<>>
    /\ focusSync' = (focusSync /\ buf = <<>>)
    /\ UNCHANGED <<listening, drops>>

NoConnect ==
    /\ ~listening
    /\ s_fd' = FALSE
    /\ UNCHANGED <<socket2, buf, focusSync>>

(* The end of main's set-up: subscribe, then the first emit. *)
Subscribe ==
    /\ pc = "subscribe"
    /\ Connect \/ NoConnect
    /\ pc' = "emit"
    /\ UNCHANGED <<compositor, back, dock, batch, changed, ret, revents,
                   s_running, shell, fails, shown, winSync, crossed>>

(* What the shell writes: a pin or unpin, or any other command. *)
Command == {"pin", "other"}

Ready == {i \in {"socket2", "stdin", "hangup"} :
            \/ i = "socket2" /\ s_fd /\ (sock # <<>> \/ ~subscribed)
            \/ i = "stdin" /\ stdin # <<>>
            \/ i = "hangup" /\ hup}

(* poll(): returns when an input is ready, or, with no Socket2 connection, *)
(* after a second.                                                         *)
Poll ==
    /\ pc = "poll"
    /\ Ready # {} \/ ~s_fd
    /\ revents' = Ready
    /\ ret' = IF Ready = {} THEN 0 ELSE 1
    /\ changed' = FALSE
    /\ pc' = IF "socket2" \in Ready THEN "read" ELSE "stdin"
    /\ UNCHANGED <<hyprVars, back, dock, s_fd, batch, buf, s_running, shell,
                   fails, shown, history>>

(* hypr_events_read: at most MaxEvents lines are handed out, the rest stay *)
(* in the buffer.  End of file closes the connection.                      *)
Read ==
    /\ pc = "read"
    /\ \/ /\ sock # <<>>
          /\ LET lines == buf \o sock
                 n == IF Len(lines) <= MaxEvents THEN Len(lines) ELSE MaxEvents
             IN  /\ batch' = SubSeq(lines, 1, n)
                 /\ buf' = SubSeq(lines, n + 1, Len(lines))
          /\ sock' = <<>>
          /\ pc' = "socket2"
          /\ UNCHANGED s_fd
       \/ /\ sock = <<>>
          /\ s_fd' = FALSE
          /\ pc' = "reinit"
          /\ UNCHANGED <<sock, batch, buf>>
    /\ UNCHANGED <<compositor, listening, subscribed, drops, back, dock,
                   changed, ret, revents, s_running, shell, fails, shown,
                   history>>

(* Mutant of Reinit: no refresh after the connection. *)
ReinitOnly ==
    /\ pc = "reinit"
    /\ Connect \/ NoConnect
    /\ pc' = "stdin"
    /\ UNCHANGED <<compositor, back, dock, batch, changed, ret, revents,
                   s_running, shell, fails, shown, winSync, crossed>>

(* A second after the connection was lost: connect, then refresh. *)
Reinit ==
    /\ pc = "reinit"
    /\ \/ Connect /\ pc' = "clients" /\ back' = "stdin"
       \/ NoConnect /\ pc' = "stdin" /\ UNCHANGED back
    /\ UNCHANGED <<compositor, dock, batch, changed, ret, revents, s_running,
                   shell, fails, shown, winSync, crossed>>

(* One iteration of the for loop over events[]: handle_event. *)
HandleEvent ==
    /\ pc = "socket2"
    /\ batch # <<>>
    /\ batch' = Tail(batch)
    /\ \/ /\ NeedsRefresh(Head(batch))
          /\ pc' = "clients" /\ back' = "socket2"
          /\ UNCHANGED <<dock, changed>>
       \/ /\ ~NeedsRefresh(Head(batch))
          /\ dock' = handle_event(dock, Head(batch))
          /\ changed' = (changed \/ Reports(dock, Head(batch)))
          /\ UNCHANGED <<pc, back>>
    /\ UNCHANGED <<hyprVars, s_fd, buf, ret, revents, s_running, shell, fails,
                   shown, history>>

EventsDone ==
    /\ pc = "socket2"
    /\ batch = <<>>
    /\ pc' = "stdin"
    /\ UNCHANGED <<hyprVars, back, dock, s_fd, batch, buf, changed, ret,
                   revents, s_running, shell, fails, shown, history>>

(* The stdin block: the commands in the pipe, then the hang-up poll() saw. *)
(* Once the shell has closed the pipe the second read() meets its end, so  *)
(* only the first command is handled.  "pin" stands for pin and unpin,     *)
(* which handle_command reports as a change; the other commands make the   *)
(* compositor do one of its steps.                                         *)
ReadCommands ==
    /\ pc = "stdin"
    /\ pc' = "emit"
    /\ \/ /\ revents \cap {"stdin", "hangup"} # {}
          /\ stdin' = <<>>
          /\ changed' = (changed \/ \E i \in DOMAIN stdin :
                                      stdin[i] = "pin" /\ (hup => i = 1))
          /\ s_running' = (s_running /\ "hangup" \notin revents)
       \/ /\ revents \cap {"stdin", "hangup"} = {}
          /\ UNCHANGED <<stdin, changed, s_running>>
    /\ UNCHANGED <<hyprVars, back, dock, s_fd, batch, buf, ret, revents, cmds,
                   hup, fails, shown, history>>

Emit ==
    /\ pc = "emit"
    /\ shown' = IF changed THEN dock ELSE shown
    /\ pc' = "retry"
    /\ UNCHANGED <<hyprVars, back, dock, s_fd, batch, buf, changed, ret,
                   revents, s_running, shell, fails, history>>

(* The end of an iteration: reconnect if poll timed out with no connection *)
Retry ==
    /\ pc = "retry"
    /\ \/ /\ ~s_fd /\ ret = 0
          /\ Connect
          /\ pc' = "clients" /\ back' = "emit"
       \/ /\ s_fd \/ ret # 0 \/ ~listening
          /\ pc' = IF s_running THEN "poll" ELSE "stopped"
          /\ UNCHANGED <<socket2, s_fd, buf, back, focusSync>>
    /\ UNCHANGED <<compositor, dock, batch, changed, ret, revents, s_running,
                   shell, fails, shown, winSync, crossed>>

-----------------------------------------------------------------------------

SendCommand(c) ==
    /\ cmds < MaxCmds
    /\ ~hup
    /\ cmds' = cmds + 1
    /\ stdin' = Append(stdin, c)
    /\ UNCHANGED <<hyprVars, daemon, hup, fails, shown, history>>

ShellExit ==
    /\ "shell_exit" \in Faults
    /\ ~hup
    /\ hup' = TRUE
    /\ UNCHANGED <<hyprVars, daemon, stdin, cmds, fails, shown, history>>

(* A change of the compositor that the daemon is not told of. *)
Compositor ==
    /\ Starting => "startup_activity" \in Faults
    /\ CompositorStep
    /\ winSync' = (winSync /\ (subscribed \/ win' = win))
    /\ crossed' = (crossed \/ \E a \in DOMAIN win \cap DOMAIN win' :
                       (win[a].ws < 0) # (win'[a].ws < 0))
    /\ focusSync' = IF focus' = focus THEN focusSync ELSE subscribed
    /\ UNCHANGED <<daemon, shell, fails, shown>>

Hangup == DropSubscriber /\ UNCHANGED <<daemon, shell, fails, shown, history>>
Reopen == Listen /\ UNCHANGED <<daemon, shell, fails, shown, history>>

Daemon ==
    \/ RefreshClients \/ RefreshActive \/ RefreshMonitors
    \/ Subscribe \/ Poll \/ Read \/ Reinit
    \/ HandleEvent \/ EventsDone \/ ReadCommands \/ Emit \/ Retry

Next ==
    \/ Daemon
    \/ Compositor \/ Hangup \/ Reopen
    \/ \E c \in Command : SendCommand(c)
    \/ ShellExit

(* The daemon's thread runs, and a socket that was closed opens again; the *)
(* compositor, the user and the faults are under no obligation.            *)
Fairness == WF_vars(Daemon) /\ WF_vars(Reopen)

Spec == Init /\ [][Next]_vars
FairSpec == Spec /\ Fairness

-----------------------------------------------------------------------------

(* Every variable has its type. *)
TypeOK ==
    /\ HyprTypeOK
    /\ pc \in Stages
    /\ back \in {"subscribe", "socket2", "stdin", "emit"}
    /\ dock \in Dock
    /\ s_fd \in BOOLEAN
    /\ batch \in Seq(Event)
    /\ buf \in Seq(Event)
    /\ changed \in BOOLEAN
    /\ ret \in {0, 1}
    /\ revents \in SUBSET {"socket2", "stdin", "hangup"}
    /\ s_running \in BOOLEAN
    /\ stdin \in Seq(Command)
    /\ cmds \in 0..MaxCmds
    /\ hup \in BOOLEAN
    /\ fails \in 0..MaxFails
    /\ shown \in Dock
    /\ winSync \in BOOLEAN /\ crossed \in BOOLEAN
    /\ focusSync \in BOOLEAN

(* The highlighted client is the one active_addr names. *)
Coherent(d) ==
    \A a \in DOMAIN d.clients : d.clients[a].is_active = (a = d.active_addr)

(* Whatever the order of snapshots and replayed events, the highlight and  *)
(* active_addr agree in the state the daemon holds, except while a refresh *)
(* waits for its second reply, and in every state the shell is given.      *)
(* main.c emits only at the end of an iteration (state.c:274, 364).        *)
ActiveCoherent ==
    /\ pc # "active" => Coherent(dock)
    /\ Coherent(shown)

(* When the loop blocks in poll() the shell has been given the daemon's    *)
(* present state: no handler changes it and reports no change (main.c:259, *)
(* 286).                                                                   *)
ShownCurrent == pc = "poll" => shown = dock

(* While the daemon waits with a live subscription, its list stems from a  *)
(* snapshot no unannounced change has followed: after a lost connection it *)
(* subscribes first and takes the snapshot second (main.c:252-254, 292).   *)
LiveIsSynced == pc = "poll" /\ subscribed => winSync

(* What the daemon's state becomes if the compositor stands still and all  *)
(* that is pending is handled, a pending refresh reading today's state.    *)
Settle(d, ev) ==
    IF NeedsRefresh(ev) THEN state_refresh(d, win, focus, mon, mws[mon])
    ELSE handle_event(d, ev)

(* The state once the refresh under way, if there is one, is through. *)
Resumed ==
    CASE pc = "clients" -> state_refresh(dock, win, focus, mon, mws[mon])
      [] pc = "active" -> LoadActive(dock, focus)
      [] OTHER -> dock

Settled ==
    LET after[n \in 0..Len(pending)] ==
            IF n = 0 THEN Resumed ELSE Settle(after[n - 1], pending[n])
    IN  after[Len(pending)]

Mirrors(d) ==
    /\ DOMAIN d.clients = Listed(win)
    /\ \A a \in Listed(win) :
          /\ d.clients[a].workspace_id = win[a].ws
          /\ d.clients[a].is_floating = win[a].floating
          /\ d.clients[a].is_fullscreen = win[a].fullscreen

(* In every state, replaying the announced and unhandled events over the   *)
(* daemon's list gives the compositor's windows: each discrepancy, however *)
(* snapshots newer than queued events, reused addresses and reconnections  *)
(* interleave, has its repair already in the pipe (state.c:205-436).  A    *)
(* window that goes to or comes from a special workspace waits for a new    *)
(* snapshot: the handler of a move neither drops nor enters it (state.c:393). *)
WindowsSettle == winSync /\ ~crossed => Mirrors(Settled)

(* The same of the focused window and of active_addr (state.c:262, 343). *)
FocusSettles == focusSync => Settled.active_addr = focus

(* The shell ends up displaying the compositor's windows and stays so. *)
WindowsConverge == <>[]Mirrors(shown)

(* The shell ends up with the focused window as active_addr and stays so,  *)
(* unless the focus went where nobody told the daemon: focusSync stays     *)
(* FALSE from then on only if the desktop has the focus (state.c:266).     *)
FocusConverges == <>[](focusSync => shown.active_addr = focus)

(* The daemon is waiting, subscribed, and nothing is on its way to it. *)
Idle == pc = "poll" /\ s_fd /\ subscribed /\ sock = <<>>

(* README.md:24, "Shows running Hyprland windows as dock icons". *)
ShowsRunningWindows == Idle => DOMAIN shown.clients = Listed(win)
=============================================================================
