------------------------------ MODULE Commands ------------------------------
(***************************************************************************)
(* The commands of the menu, from the click to their effect: the shell      *)
(* writes them to the daemon, handle_command (main.c) makes requests of    *)
(* them (hypr_ipc.c) or starts a program (launcher.c, icons.c), and         *)
(* Hyprland carries out what it understands.                               *)
(*                                                                         *)
(* Three views of the windows lag behind each other: Hyprland's, at; the   *)
(* daemon's, clients; the shell's, shown.  Windows have a number, which     *)
(* nobody sees, and an address, which can be used again.  Each request is   *)
(* a step of its own: windows come and go and the user moves the focus      *)
(* while the daemon waits for a reply or settles.                          *)
(***************************************************************************)
EXTENDS Icons

CONSTANTS
    Addr,
    NoAddr,
    Apps,           \* .desktop files that may be installed
    Override,       \* lines that [IconOverrides] of config.ini may have
    AtStart,        \* the pinned apps when the daemon starts
    Ops,            \* what may happen besides: see Step
    MaxSteps,       \* bound: things that happen
    MaxCmds,        \* bound: clicks
    MaxFails        \* bound: requests that fail

ASSUME CommandsAssumption ==
    /\ NoAddr \notin Addr
    /\ MaxSteps \in Nat /\ MaxCmds \in Nat /\ MaxFails \in Nat
    /\ Override \subseteq [class : Class, icon : STRING]
    /\ AtStart \in Seq(Class)

VARIABLES
    at,             \* Hyprland: the windows, [id, class] by address
    focus,          \* the address of the active window
    lua,            \* it takes commands in Lua, and no others
    opened, steps,
    files,          \* the installed .desktop files
    clients,        \* the daemon: its list, [addr, id, class]
    use_lua_dispatch,
    s_cache, s_overrides,
    reloaded,       \* a configreloaded event waits
    todo,           \* the requests the command it handles has yet to make
    spawned,        \* the programs it has started: [class, exec]
    fails,
    shown,          \* the shell: the list it was sent last
    stdin,          \* commands on their way to the daemon
    cmds,
    now,            \* history: the command that is or was last handled,
    hit,            \* what it did to windows, <<effect, id>>,
    calm            \* and that nothing happened and no request failed in
                    \* between, the daemon's view being up to date before

hypr == <<at, focus, lua, opened, steps, files>>
icons == <<s_cache, s_overrides>>
daemon == <<clients, use_lua_dispatch, icons, reloaded, spawned>>
shell == <<shown, stdin, cmds>>
history == <<now, hit, calm>>
vars == <<hypr, daemon, todo, fails, shell, history>>

ByClick == {"focus", "close", "toggle_float", "toggle_fullscreen", "move_to_ws"}
NoCmd == [cmd |-> "", addr |-> NoAddr, id |-> 0, class |-> ""]

Open(id) == \E a \in DOMAIN at : at[a].id = id
IdsOf(list) == {list[i].id : i \in DOMAIN list}
UpToDate(list) ==
    {<<list[i].addr, list[i].id>> : i \in DOMAIN list}
        = {<<a, at[a].id>> : a \in DOMAIN at}

(* What the cache holds after the icons of a list of classes were asked for. *)
CacheAfter(cache, classes) ==
    LET after[n \in 0..Len(classes)] ==
            IF n = 0 THEN cache
            ELSE icons_get_name(files, s_overrides, after[n - 1], classes[n]).cache
    IN  after[Len(classes)]

(* state_load_pinned has asked for the icons of the pinned apps. *)
Init ==
    /\ at = <<>> /\ focus = NoAddr
    /\ lua \in BOOLEAN /\ use_lua_dispatch \in {FALSE, lua}
    /\ opened = 0 /\ steps = 0
    /\ files = <<>>
    /\ clients = <<>> /\ shown = <<>>
    /\ s_overrides = <<>> /\ s_cache = CacheAfter(<<>>, AtStart)
    /\ reloaded = FALSE
    /\ todo = <<>> /\ spawned = <<>> /\ fails = 0
    /\ stdin = <<>> /\ cmds = 0
    /\ now = NoCmd /\ hit = {} /\ calm = FALSE

-----------------------------------------------------------------------------
(* Hyprland, the user, and the files. *)

Step(op) ==
    /\ op \in Ops
    /\ steps < MaxSteps
    /\ steps' = steps + 1
    /\ calm' = FALSE
    /\ UNCHANGED <<todo, fails, shell, now, hit, clients, use_lua_dispatch,
                   s_cache, spawned>>

OpenWindow(a, c) ==
    /\ Step("open")
    /\ a \notin DOMAIN at
    /\ opened' = opened + 1
    /\ at' = [b \in DOMAIN at \cup {a} |->
                 IF b = a THEN [id |-> opened', class |-> c] ELSE at[b]]
    /\ focus' = a
    /\ UNCHANGED <<lua, files, s_overrides, reloaded>>

CloseWindow(a) ==
    /\ Step("close")
    /\ a \in DOMAIN at
    /\ at' = [b \in DOMAIN at \ {a} |-> at[b]]
    /\ focus' = IF focus = a THEN NoAddr ELSE focus
    /\ UNCHANGED <<lua, opened, files, s_overrides, reloaded>>

MoveFocus(a) ==
    /\ Step("focus")
    /\ a \in DOMAIN at
    /\ focus' = a
    /\ UNCHANGED <<at, lua, opened, files, s_overrides, reloaded>>

(* Hyprland reads its configuration again, perhaps in the other language. *)
ReloadHyprland(l) ==
    /\ Step("reload")
    /\ lua' = l
    /\ reloaded' = TRUE
    /\ UNCHANGED <<at, focus, opened, files, s_overrides>>

(* A file is installed for all users, or for this one and so found first. *)
Install(f) ==
    /\ Step("install")
    /\ f \notin Range(files)
    /\ files' \in {Append(files, f), <<f>> \o files}
    /\ UNCHANGED <<at, focus, lua, opened, s_overrides, reloaded>>

(* config.ini is read again: icons_clear_overrides, then line by line. *)
OverridesOf(ls) ==
    LET after[n \in 0..Len(ls)] ==
            IF n = 0 THEN <<>> ELSE icons_set_override(after[n - 1], ls[n])
    IN  after[Len(ls)]

Overrides(ls) ==
    /\ Step("overrides")
    /\ todo = <<>>
    /\ s_overrides' = OverridesOf(ls)
    /\ UNCHANGED <<at, focus, lua, opened, files, reloaded>>

-----------------------------------------------------------------------------
(* The shell. *)

Click(c) ==
    /\ cmds < MaxCmds
    /\ cmds' = cmds + 1
    /\ stdin' = Append(stdin, c)
    /\ UNCHANGED <<hypr, daemon, todo, fails, shown, history>>

ClickWindow ==
    \E i \in DOMAIN shown, cmd \in ByClick :
        Click([cmd |-> cmd, addr |-> shown[i].addr, id |-> shown[i].id,
               class |-> shown[i].class])

ClickApp ==
    \E c \in Class, cmd \in {"close_all", "launch"} :
        Click([cmd |-> cmd, addr |-> NoAddr, id |-> 0, class |-> c])

ReadState ==
    /\ shown # clients
    /\ shown' = clients
    /\ UNCHANGED <<hypr, daemon, todo, fails, stdin, cmds, history>>

-----------------------------------------------------------------------------
(* hypr_ipc.c: the requests of a command, in the order they are made.  A   *)
(* request without an address is about the active window.                  *)

Req(do, a) == [do |-> do, addr |-> a, lua |-> use_lua_dispatch]

hypr_ipc_focus_window(a) ==
    IF use_lua_dispatch
    THEN <<Req("focus", a), Req("raise", a), Req("focus", NoAddr)>>
    ELSE <<Req("focus", a), Req("raise", NoAddr)>>

(* Mutant of hypr_ipc_toggle_fullscreen: the window is not focused before.  *)
fullscreenOnly(a) ==
    IF use_lua_dispatch THEN <<Req("toggle_fullscreen", a)>>
    ELSE <<Req("toggle_fullscreen", NoAddr)>>

hypr_ipc_toggle_fullscreen(a) ==
    IF use_lua_dispatch THEN <<Req("toggle_fullscreen", a)>>
    ELSE hypr_ipc_focus_window(a) \o <<Req("toggle_fullscreen", NoAddr)>>

(* Mutant of CloseAll: the first window of the list is passed over. *)
CloseAllButFirst(c) ==
    LET of == EntriesAt(clients, {i \in DOMAIN clients \ {1} :
                                     Fold[clients[i].class] = Fold[c]})
    IN  [i \in DOMAIN of |-> Req("close", of[Len(of) - i + 1].addr)]

CloseAll(c) ==
    LET of == EntriesAt(clients, {i \in DOMAIN clients :
                                     Fold[clients[i].class] = Fold[c]})
    IN  [i \in DOMAIN of |-> Req("close", of[Len(of) - i + 1].addr)]

Requests(c) ==
    CASE c.cmd = "focus" -> hypr_ipc_focus_window(c.addr)
      [] c.cmd = "toggle_fullscreen" -> hypr_ipc_toggle_fullscreen(c.addr)
      [] c.cmd \in {"close", "toggle_float", "move_to_ws"} -> <<Req(c.cmd, c.addr)>>
      [] c.cmd = "close_all" -> CloseAll(c.class)
      [] c.cmd = "launch" -> <<>>

(* launcher_exec_class: a file with no Exec key starts nothing. *)
Launch(c) ==
    LET f == icons_find_desktop(files, c)
    IN  IF f.exec = "" THEN <<>> ELSE <<[class |-> c, exec |-> f.exec]>>

handle_command ==
    /\ todo = <<>>
    /\ stdin # <<>>
    /\ stdin' = Tail(stdin)
    /\ now' = Head(stdin)
    /\ todo' = Requests(Head(stdin))
    /\ spawned' = spawned \o
            (IF now'.cmd = "launch" THEN Launch(now'.class) ELSE <<>>)
    /\ hit' = {}
    /\ calm' = (UpToDate(clients) /\ use_lua_dispatch = lua)
    /\ UNCHANGED <<hypr, clients, use_lua_dispatch, icons, reloaded, fails,
                   shown, cmds>>

(* fire_and_forget: Hyprland does it if it understands the language and    *)
(* there is such a window, and the daemon does not look at the reply.  To  *)
(* focus the active window is moot.                                        *)
Request ==
    /\ todo # <<>>
    /\ todo' = Tail(todo)
    /\ LET r == Head(todo)
           a == IF r.addr = NoAddr THEN focus ELSE r.addr
           done == r.lua = lua /\ a \in DOMAIN at
           moot == r.do = "focus" /\ r.addr = NoAddr
       IN  \/ /\ hit' = IF done /\ ~moot THEN hit \cup {<<r.do, at[a].id>>} ELSE hit
              /\ focus' = IF done /\ r.do = "focus" THEN a ELSE focus
              /\ UNCHANGED <<fails, calm>>
           \/ /\ fails < MaxFails
              /\ fails' = fails + 1
              /\ calm' = FALSE
              /\ UNCHANGED <<hit, focus>>
    /\ UNCHANGED <<at, lua, opened, steps, files, daemon, shell, now>>

(* The daemon catches up with the windows: events and state_refresh, which *)
(* asks for the icon of each (module MainLoop has how).                    *)
CatchUp ==
    /\ todo = <<>>
    /\ clients' \in SetToSeqs(
            {[addr |-> a, id |-> at[a].id, class |-> at[a].class] : a \in DOMAIN at})
    /\ s_cache' = CacheAfter(s_cache, [i \in DOMAIN clients' |-> clients'[i].class])
    /\ UNCHANGED <<hypr, use_lua_dispatch, s_overrides, reloaded, todo, spawned,
                   fails, shell, history>>

(* configreloaded: hypr_ipc_init asks for the version and the language,     *)
(* unless it finds no socket; the language stays the one it was then.       *)
detect_dispatch_syntax ==
    /\ todo = <<>>
    /\ reloaded
    /\ reloaded' = FALSE
    /\ \/ use_lua_dispatch' = lua /\ UNCHANGED fails
       \/ /\ fails < MaxFails
          /\ fails' = fails + 1
          /\ use_lua_dispatch' \in {FALSE, use_lua_dispatch}
    /\ UNCHANGED <<hypr, clients, icons, todo, spawned, shell, history>>

Next ==
    \/ \E a \in Addr : CloseWindow(a) \/ MoveFocus(a)
    \/ \E a \in Addr, c \in Class : OpenWindow(a, c)
    \/ \E l \in BOOLEAN : ReloadHyprland(l)
    \/ \E f \in Apps : Install(f)
    \/ \E ls \in BoundedSeq(Override, 2) : Overrides(ls)
    \/ ClickWindow \/ ClickApp \/ ReadState
    \/ handle_command \/ Request \/ CatchUp \/ detect_dispatch_syntax

Spec == Init /\ [][Next]_vars

-----------------------------------------------------------------------------

(* Every variable has its type. *)
TypeOK ==
    /\ DOMAIN at \subseteq Addr
    /\ focus \in DOMAIN at \cup {NoAddr}
    /\ lua \in BOOLEAN /\ use_lua_dispatch \in BOOLEAN /\ reloaded \in BOOLEAN
    /\ calm \in BOOLEAN
    /\ \A list \in {clients, shown} : IdsOf(list) \subseteq 1..opened
    /\ now.cmd \in ByClick \cup {"", "close_all", "launch"}
    /\ Range(files) \subseteq Apps
    /\ Len(s_cache) <= MaxCache /\ Len(s_overrides) <= MaxCache
    /\ steps \in 0..MaxSteps /\ cmds \in 0..MaxCmds /\ fails \in 0..MaxFails

(* A command for one window does something to another only if the window    *)
(* it was for is gone, or if it needs the focus (no Lua) and the focus or  *)
(* a request went astray in between (hypr_ipc.c:227-233, 284-286).         *)
HitsWhatWasMeant ==
    [][\A h \in hit' \ hit :
          now.addr # NoAddr /\ h[2] # now.id
             => ~Open(now.id) \/ (~use_lua_dispatch /\ ~calm)]_vars

(* What a command is to do to the windows. *)
Wanted(c) ==
    IF c.cmd = "close_all"
    THEN {<<"close", at[a].id>> :
             a \in {b \in DOMAIN at : Fold[at[b].class] = Fold[c.class]}}
    ELSE IF c.cmd \in ByClick THEN {<<c.cmd, c.id>>} ELSE {}

(* A command whose window is still there, and that nothing disturbs, does   *)
(* what it is to do, to all the windows it is to and to no others, in both  *)
(* languages; close_all does not depend on how the class is spelt          *)
(* (main.c:65-104).                                                        *)
DoneAsTold ==
    calm /\ todo = <<>> /\ (now.addr # NoAddr => Open(now.id)) =>
        /\ Wanted(now) \subseteq hit
        /\ {h[2] : h \in hit} = {h[2] : h \in Wanted(now)}

(* The icons that the files can give; overrides are told from them by      *)
(* theirs, for CacheSound to see them.                                     *)
Icon == {FALLBACK_ICON} \cup {f.icon : f \in Apps}
OverridesDiffer == \A o \in Override : o.icon \notin Icon

(* The cache has one entry for a class, however it is spelt, and holds no   *)
(* override: one that is taken out of config.ini is gone (icons.c:299, 419). *)
CacheSound ==
    /\ \A i, j \in DOMAIN s_cache :
          Fold[s_cache[i].class] = Fold[s_cache[j].class] => i = j
    /\ \A i \in DOMAIN s_cache :
          \A o \in Override : s_cache[i].icon # o.icon

(* The launcher's scan comes first to a file whose name goes on after       *)
(* .desktop: no file has the name of the class.                            *)
BackupFirst(fs, c) ==
    /\ search_exact(fs, c) = NoFile /\ search_lower(fs, c) = NoFile
    /\ scan_anywhere(fs, c).suffix = "more"

(* The two searches of icons.c agree: what a click on an app starts is the  *)
(* program of the file that gives the app its icon, provided that all       *)
(* files have both, that the file is not found by the last part of the      *)
(* class alone, and that no backup of a file is in the way of the           *)
(* launcher's scan (icons.c:138, 229, 262; launcher.c:128).                 *)
LaunchesWhatIsShown ==
    [][\A c \in Class :
          /\ stdin # <<>> /\ stdin' = Tail(stdin)
          /\ Head(stdin).cmd = "launch" /\ Head(stdin).class = c
          /\ \A f \in Range(files) : f.icon # "" /\ f.exec # ""
          /\ search_reverse_domain(files, c) = NoFile
          /\ ~BackupFirst(files, c)
          => LET f == IconFile(files, c)
             IN  IF f = NoFile THEN spawned' = spawned
                 ELSE spawned' = Append(spawned, [class |-> c, exec |-> f.exec])]_vars
=============================================================================
