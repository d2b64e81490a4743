--------------------------- MODULE MainLoopProofs ---------------------------
(***************************************************************************)
(* Theorems about module MainLoop, for every set of addresses, every length *)
(* of a run and every fault: the type invariant; that the highlighted       *)
(* client agrees with active_addr; that a live subscription rests on a      *)
(* snapshot; that every change is shown; and that what is pending repairs   *)
(* the list and the focus.                                                 *)
(***************************************************************************)
EXTENDS MainLoop, ListProofs

(* What the handlers need to know of a DockState. *)
LEMMA DockType ==
    ASSUME NEW d \in Dock
    PROVE  /\ d = [clients |-> d.clients, active_addr |-> d.active_addr,
                   active_ws |-> d.active_ws, active_mon |-> d.active_mon]
           /\ DOMAIN d.clients \subseteq Addr
           /\ d.clients \in [DOMAIN d.clients -> DockClient]
BY DEF Dock

LEMMA ClientsType ==
    ASSUME NEW d \in Dock, NEW S \in SUBSET Addr, NEW f \in [S -> DockClient]
    PROVE  [d EXCEPT !.clients = f] \in Dock
BY DEF Dock

(* MarkActive makes every state coherent, and keeps its type. *)
LEMMA MarkActiveCoherent ==
    ASSUME NEW d \in Dock
    PROVE  MarkActive(d) \in Dock /\ Coherent(MarkActive(d))
<1> DEFINE f == [a \in DOMAIN d.clients |->
                   [d.clients[a] EXCEPT !.is_active = (a = d.active_addr)]]
<1>1. MarkActive(d) = [d EXCEPT !.clients = f]
  BY DEF MarkActive
<1>2. d.clients \in [DOMAIN d.clients -> DockClient] /\ DOMAIN d.clients \subseteq Addr
  BY DockType
<1>3. f \in [DOMAIN d.clients -> DockClient]
  BY <1>2 DEF DockClient
<1>4. MarkActive(d) \in Dock
  <2> HIDE DEF f
  <2>1. [d EXCEPT !.clients = f] \in Dock
    BY <1>2, <1>3, ClientsType
  <2> QED
    BY <1>1, <2>1
<1>5. /\ MarkActive(d).clients = f
      /\ MarkActive(d).active_addr = d.active_addr
  BY <1>1 DEF Dock
<1>6. \A a \in DOMAIN f : f[a].is_active = (a = d.active_addr)
  BY <1>2 DEF DockClient
<1> QED
  BY <1>4, <1>5, <1>6 DEF Coherent

(* Each incremental handler keeps the type and the coherence of a state. *)
LEMMA CloseWindowCoherent ==
    ASSUME NEW d \in Dock, Coherent(d), NEW a \in Addr
    PROVE  LET e == state_on_closewindow(d, a) IN e \in Dock /\ Coherent(e)
<1> DEFINE f == [b \in DOMAIN d.clients \ {a} |-> d.clients[b]]
<1>1. state_on_closewindow(d, a) = [d EXCEPT !.clients = f]
  BY DEF state_on_closewindow
<1>2. d.clients \in [DOMAIN d.clients -> DockClient] /\ DOMAIN d.clients \subseteq Addr
  BY DockType
<1>3. f \in [DOMAIN d.clients \ {a} -> DockClient]
  BY <1>2
<1>4. [d EXCEPT !.clients = f] \in Dock
  <2> HIDE DEF f
  <2> QED
    BY <1>2, <1>3, ClientsType
<1>5. Coherent([d EXCEPT !.clients = f])
  BY <1>2, DockType DEF Coherent, Dock
<1> QED
  BY <1>1, <1>4, <1>5

LEMMA ActiveWindowCoherent ==
    ASSUME NEW d \in Dock, NEW a \in Addr \cup {NoAddr}
    PROVE  LET e == state_on_activewindow(d, a) IN e \in Dock /\ Coherent(e)
<1>1. [d EXCEPT !.active_addr = a] \in Dock
  BY DEF Dock
<1> QED
  BY <1>1, MarkActiveCoherent DEF state_on_activewindow

(* A client's workspace and mode do not touch the highlight. *)
LEMMA ClientFieldCoherent ==
    ASSUME NEW d \in Dock, Coherent(d), NEW a \in DOMAIN d.clients,
           NEW c \in DockClient, c.is_active = d.clients[a].is_active
    PROVE  LET e == [d EXCEPT !.clients = [d.clients EXCEPT ![a] = c]]
           IN  e \in Dock /\ Coherent(e)
<1> DEFINE f == [d.clients EXCEPT ![a] = c]
<1>1. d.clients \in [DOMAIN d.clients -> DockClient] /\ DOMAIN d.clients \subseteq Addr
  BY DockType
<1>2. f \in [DOMAIN d.clients -> DockClient]
  BY <1>1
<1>3. [d EXCEPT !.clients = f] \in Dock
  <2> HIDE DEF f
  <2> QED
    BY <1>1, <1>2, ClientsType
<1>4. Coherent([d EXCEPT !.clients = f])
  BY <1>1, DockType DEF Coherent, Dock
<1> QED
  BY <1>3, <1>4

LEMMA MoveWindowCoherent ==
    ASSUME NEW d \in Dock, Coherent(d), NEW a \in Addr, NEW w \in Workspace
    PROVE  LET e == state_on_movewindow(d, a, w) IN e \in Dock /\ Coherent(e)
<1>1. CASE a \notin DOMAIN d.clients
  BY <1>1 DEF state_on_movewindow
<1>2. CASE a \in DOMAIN d.clients
  <2> DEFINE c == [d.clients[a] EXCEPT !.workspace_id = w]
  <2>1. d.clients[a] \in DockClient
    BY <1>2, DockType
  <2>2. c \in DockClient /\ c.is_active = d.clients[a].is_active
    BY <2>1 DEF DockClient
  <2>3. state_on_movewindow(d, a, w)
          = [d EXCEPT !.clients = [d.clients EXCEPT ![a] = c]]
    BY <1>2 DEF state_on_movewindow, Dock
  <2> HIDE DEF c
  <2> QED
    BY <1>2, <2>2, <2>3, ClientFieldCoherent
<1> QED
  BY <1>1, <1>2

LEMMA FloatingCoherent ==
    ASSUME NEW d \in Dock, Coherent(d), NEW a \in Addr, NEW b \in BOOLEAN
    PROVE  LET e == state_on_floating(d, a, b) IN e \in Dock /\ Coherent(e)
<1>1. CASE a \notin DOMAIN d.clients
  BY <1>1 DEF state_on_floating
<1>2. CASE a \in DOMAIN d.clients
  <2> DEFINE c == [d.clients[a] EXCEPT !.is_floating = b]
  <2>1. d.clients[a] \in DockClient
    BY <1>2, DockType
  <2>2. c \in DockClient /\ c.is_active = d.clients[a].is_active
    BY <2>1 DEF DockClient
  <2>3. state_on_floating(d, a, b)
          = [d EXCEPT !.clients = [d.clients EXCEPT ![a] = c]]
    BY <1>2 DEF state_on_floating, Dock
  <2> HIDE DEF c
  <2> QED
    BY <1>2, <2>2, <2>3, ClientFieldCoherent
<1> QED
  BY <1>1, <1>2

(* The other fields of a state do not touch the highlight. *)
LEMMA WorkspaceCoherent ==
    ASSUME NEW d \in Dock, Coherent(d), NEW w \in Workspace
    PROVE  LET e == state_on_workspace(d, w) IN e \in Dock /\ Coherent(e)
BY DEF Dock, Coherent, state_on_workspace

LEMMA FocusedMonCoherent ==
    ASSUME NEW d \in Dock, Coherent(d), NEW m \in Monitor
    PROVE  LET e == state_on_focusedmon(d, m) IN e \in Dock /\ Coherent(e)
BY DEF Dock, Coherent, state_on_focusedmon

LEMMA LoadMonitorsCoherent ==
    ASSUME NEW d \in Dock, Coherent(d), NEW m \in Monitor, NEW w \in Workspace
    PROVE  LET e == LoadMonitors(d, m, w) IN e \in Dock /\ Coherent(e)
BY DEF Dock, Coherent, LoadMonitors

(* Every event that is handled from its own data keeps both. *)
LEMMA HandleEventCoherent ==
    ASSUME NEW d \in Dock, Coherent(d), NEW ev \in Event
    PROVE  handle_event(d, ev) \in Dock /\ Coherent(handle_event(d, ev))
<1>1. CASE ev \in {OpenEv, FullscreenEv, ReloadedEv, OtherEv}
  BY <1>1 DEF handle_event, OpenEv, FullscreenEv, ReloadedEv, OtherEv
<1>2. CASE \E a \in Addr : ev = CloseEv(a)
  BY <1>2, CloseWindowCoherent DEF handle_event, CloseEv
<1>3. CASE \E a \in Addr \cup {NoAddr} : ev = ActiveEv(a)
  BY <1>3, ActiveWindowCoherent DEF handle_event, ActiveEv
<1>4. CASE \E a \in Addr, w \in Workspace : ev = MoveEv(a, w)
  BY <1>4, MoveWindowCoherent DEF handle_event, MoveEv
<1>5. CASE \E a \in Addr, b \in BOOLEAN : ev = FloatEv(a, b)
  BY <1>5, FloatingCoherent DEF handle_event, FloatEv
<1>6. CASE \E w \in Workspace : ev = WorkspaceEv(w)
  BY <1>6, WorkspaceCoherent DEF handle_event, WorkspaceEv
<1>7. CASE \E m \in Monitor : ev = MonitorEv(m)
  BY <1>7, FocusedMonCoherent DEF handle_event, MonitorEv
<1> QED
  BY <1>1, <1>2, <1>3, <1>4, <1>5, <1>6, <1>7 DEF Event

-----------------------------------------------------------------------------
(* state_refresh. *)

LEMMA LoadClientsType ==
    ASSUME NEW d \in Dock, NEW ws \in Windows
    PROVE  LoadClients(d, ws) \in Dock
<1> DEFINE f == [a \in Listed(ws) |->
                   [workspace_id |-> ws[a].ws, is_active |-> FALSE,
                    is_floating |-> ws[a].floating,
                    is_fullscreen |-> ws[a].fullscreen]]
<1>1. PICK S \in SUBSET Addr : ws \in [S -> Window]
  BY DEF Windows
<1>2. Listed(ws) \in SUBSET Addr /\ Listed(ws) \subseteq S
  BY <1>1 DEF Listed
<1>3. f \in [Listed(ws) -> DockClient]
  BY <1>1, <1>2 DEF Window, DockClient
<1> HIDE DEF f
<1>4. [d EXCEPT !.clients = f] \in Dock
  BY <1>2, <1>3, ClientsType
<1> QED
  BY <1>4 DEF LoadClients, f

LEMMA ClearClientsCoherent ==
    ASSUME NEW d \in Dock
    PROVE  ClearClients(d) \in Dock /\ Coherent(ClearClients(d))
<1>1. NoClients \in [{} -> DockClient] /\ DOMAIN NoClients = {}
  BY DEF NoClients
<1>2. ClearClients(d) = [d EXCEPT !.clients = NoClients]
  BY DEF ClearClients
<1>3. ClearClients(d) \in Dock
  BY <1>1, <1>2, ClientsType
<1>4. ClearClients(d).clients = NoClients
  BY <1>2 DEF Dock
<1> QED
  BY <1>1, <1>3, <1>4 DEF Coherent

LEMMA LoadActiveCoherent ==
    ASSUME NEW d \in Dock, NEW f \in Addr \cup {NoAddr}
    PROVE  LoadActive(d, f) \in Dock /\ Coherent(LoadActive(d, f))
<1>1. [d EXCEPT !.active_addr = IF f = NoAddr THEN @ ELSE f] \in Dock
  BY DEF Dock
<1> QED
  BY <1>1, MarkActiveCoherent DEF LoadActive

LEMMA InitialDock == state_init \in Dock /\ Coherent(state_init)
<1>1. NoClients \in [{} -> DockClient] /\ DOMAIN NoClients = {}
  BY DEF NoClients
<1>2. /\ state_init.clients = NoClients
      /\ state_init.active_addr = NoAddr
      /\ state_init.active_ws = 0
      /\ state_init.active_mon = ""
  BY DEF state_init
<1>3. NoClients \in UNION {[S -> DockClient] : S \in SUBSET Addr}
  BY <1>1
<1>4. state_init \in Dock
  BY <1>3 DEF Dock, state_init
<1> QED
  BY <1>1, <1>2, <1>4 DEF Coherent

-----------------------------------------------------------------------------
(* The compositor keeps its type. *)

LEMMA EventType ==
    /\ {OpenEv, FullscreenEv, ReloadedEv, OtherEv} \subseteq Event
    /\ \A a \in Addr : CloseEv(a) \in Event
    /\ \A a \in Addr \cup {NoAddr} : ActiveEv(a) \in Event
    /\ \A a \in Addr, w \in Workspace : MoveEv(a, w) \in Event
    /\ \A a \in Addr, b \in BOOLEAN : FloatEv(a, b) \in Event
    /\ \A w \in Workspace : WorkspaceEv(w) \in Event
    /\ \A m \in Monitor : MonitorEv(m) \in Event
BY DEF Event

LEMMA WindowsSuffice ==
    ASSUME NEW S \in SUBSET Addr, NEW f \in [S -> Window]
    PROVE  f \in Windows
BY DEF Windows

LEMMA WindowsType ==
    ASSUME NEW f \in Windows
    PROVE  DOMAIN f \in SUBSET Addr /\ f \in [DOMAIN f -> Window]
BY DEF Windows

LEMMA PostType ==
    ASSUME HyprTypeOK, steps < MaxSteps, NEW evs \in Seq(Event), Post(evs)
    PROVE  /\ sock' \in Seq(Event)
           /\ steps' \in 0..MaxSteps
           /\ listening' \in BOOLEAN /\ subscribed' \in BOOLEAN
           /\ drops' \in 0..MaxDrops
<1>1. sock' \in Seq(Event)
  BY DEF HyprTypeOK, Post
<1>2. steps' \in 0..MaxSteps
  BY BoundAssumption DEF HyprTypeOK, Post
<1> QED
  BY <1>1, <1>2 DEF HyprTypeOK, Post

LEMMA CompositorType ==
    ASSUME HyprTypeOK, CompositorStep
    PROVE  HyprTypeOK'
<1> DEFINE Frame == /\ win' \in Windows
                    /\ focus' \in Addr \cup {NoAddr}
                    /\ mon' \in Monitor
                    /\ mws' \in [Monitor -> Workspace]
                    /\ \E evs \in Seq(Event) : Post(evs)
<1>0. win \in [DOMAIN win -> Window] /\ DOMAIN win \in SUBSET Addr
  BY WindowsType DEF HyprTypeOK
<1>1. ASSUME NEW a \in Addr, NEW w \in Workspace, OpenWindow(a, w)
      PROVE  Frame
  <2>1. win' \in [DOMAIN win \cup {a} -> Window]
    BY <1>0, <1>1 DEF OpenWindow, Window
  <2>2. win' \in Windows
    BY <1>0, <2>1, WindowsSuffice
  <2>3. <<OpenEv, ActiveEv(a)>> \in Seq(Event)
    BY EventType
  <2> QED
    BY <1>1, <2>2, <2>3 DEF OpenWindow, HyprTypeOK
<1>2. ASSUME NEW a \in Addr, CloseWindow(a)
      PROVE  Frame
  <2>1. win' \in [DOMAIN win \ {a} -> Window]
    BY <1>0, <1>2 DEF CloseWindow
  <2>2. win' \in Windows
    BY <1>0, <2>1, WindowsSuffice
  <2>3. focus' \in Addr \cup {NoAddr}
    BY <1>0, <1>2 DEF CloseWindow, HyprTypeOK
  <2>4. /\ <<CloseEv(a)>> \in Seq(Event)
        /\ <<CloseEv(a), ActiveEv(focus')>> \in Seq(Event)
    BY <2>3, EventType
  <2> QED
    BY <1>2, <2>2, <2>3, <2>4 DEF CloseWindow, HyprTypeOK
<1>3. ASSUME NEW a \in Addr \cup {NoAddr}, FocusWindow(a)
      PROVE  Frame
  <2>1. <<ActiveEv(a)>> \in Seq(Event)
    BY EventType
  <2> QED
    BY <1>3, <2>1 DEF FocusWindow, HyprTypeOK
<1>4. ASSUME NEW a \in Addr, NEW w \in Workspace, MoveWindow(a, w)
      PROVE  Frame
  <2>1. win' \in [DOMAIN win -> Window]
    BY <1>0, <1>4 DEF MoveWindow, Window
  <2>2. win' \in Windows
    BY <1>0, <2>1, WindowsSuffice
  <2>3. <<MoveEv(a, w)>> \in Seq(Event)
    BY EventType
  <2> QED
    BY <1>4, <2>2, <2>3 DEF MoveWindow, HyprTypeOK
<1>5. ASSUME NEW a \in Addr, ToggleFloating(a)
      PROVE  Frame
  <2>1. win' \in [DOMAIN win -> Window]
    BY <1>0, <1>5 DEF ToggleFloating, Window
  <2>2. win' \in Windows
    BY <1>0, <2>1, WindowsSuffice
  <2>3. a \in DOMAIN win'
    BY <1>5 DEF ToggleFloating
  <2>4. win'[a].floating \in BOOLEAN
    BY <2>1, <2>3 DEF Window
  <2>5. <<FloatEv(a, win'[a].floating)>> \in Seq(Event)
    BY <2>4, EventType
  <2> QED
    BY <1>5, <2>2, <2>5 DEF ToggleFloating, HyprTypeOK
<1>6. ASSUME NEW a \in Addr, ToggleFullscreen(a)
      PROVE  Frame
  <2>1. win' \in [DOMAIN win -> Window]
    BY <1>0, <1>6 DEF ToggleFullscreen, Window
  <2>2. win' \in Windows
    BY <1>0, <2>1, WindowsSuffice
  <2>3. <<FullscreenEv>> \in Seq(Event)
    BY EventType
  <2> QED
    BY <1>6, <2>2, <2>3 DEF ToggleFullscreen, HyprTypeOK
<1>7. ASSUME NEW w \in Workspace, SwitchWorkspace(w)
      PROVE  Frame
  <2>1. <<WorkspaceEv(w)>> \in Seq(Event)
    BY EventType
  <2>2. mws' \in [Monitor -> Workspace]
    BY <1>7 DEF SwitchWorkspace, HyprTypeOK
  <2> QED
    BY <1>7, <2>1, <2>2 DEF SwitchWorkspace, HyprTypeOK
<1>8. ASSUME NEW m \in Monitor, FocusMonitor(m)
      PROVE  Frame
  <2>1. <<MonitorEv(m)>> \in Seq(Event)
    BY EventType
  <2> QED
    BY <1>8, <2>1 DEF FocusMonitor, HyprTypeOK
<1>9. ASSUME NEW ev \in {ReloadedEv, OtherEv}, Announce(ev)
      PROVE  Frame
  <2>1. <<ev>> \in Seq(Event)
    BY EventType
  <2> QED
    BY <1>9, <2>1 DEF Announce, HyprTypeOK
<1>10. Frame
  <2> HIDE DEF Frame
  <2> QED
    BY <1>1, <1>2, <1>3, <1>4, <1>5, <1>6, <1>7, <1>8, <1>9
       DEF CompositorStep, Normal
<1>11. steps < MaxSteps
  BY DEF CompositorStep
<1> QED
  BY <1>10, <1>11, PostType DEF HyprTypeOK

-----------------------------------------------------------------------------
(* The daemon. *)

(* ActiveCoherent alone is not inductive: what a handler makes of the      *)
(* dock depends on its being a DockState, and on what an event is.         *)
IInv == TypeOK /\ ActiveCoherent

LEMMA InitInvariant == Init => IInv
<1> SUFFICES ASSUME Init PROVE IInv
  OBVIOUS
<1>1. HyprTypeOK
  <2>1. PICK S \in SUBSET Addr, w \in Workspace :
          win = [a \in S |-> [ws |-> w, floating |-> FALSE, fullscreen |-> FALSE]]
    BY DEF Init, HyprInit
  <2>2. win \in [S -> Window] /\ DOMAIN win = S
    BY <2>1 DEF Window
  <2>3. win \in Windows
    BY <2>2, WindowsSuffice
  <2>4. focus \in Addr \cup {NoAddr}
    BY <2>2 DEF Init, HyprInit
  <2>5. mws \in [Monitor -> Workspace]
    BY DEF Init, HyprInit, Normal
  <2>6. steps \in 0..MaxSteps /\ drops \in 0..MaxDrops
    BY BoundAssumption DEF Init, HyprInit
  <2>7. mon \in Monitor /\ listening \in BOOLEAN /\ subscribed \in BOOLEAN
    BY DEF Init, HyprInit
  <2>8. sock = <<>>
    BY DEF Init, HyprInit
  <2> QED
    BY <2>3, <2>4, <2>5, <2>6, <2>7, <2>8 DEF HyprTypeOK
<1>2. TypeOK
  <2>1. cmds \in 0..MaxCmds /\ fails \in 0..MaxFails
    BY LoopAssumption DEF Init
  <2>2. /\ batch \in Seq(Event) /\ buf \in Seq(Event)
        /\ stdin \in Seq(Command)
    BY DEF Init
  <2>3. dock \in Dock /\ shown \in Dock
    BY InitialDock DEF Init
  <2>4. /\ pc \in Stages /\ back \in {"subscribe", "socket2", "stdin", "emit"}
        /\ ret \in {0, 1} /\ revents \in SUBSET {"socket2", "stdin", "hangup"}
        /\ s_fd \in BOOLEAN /\ changed \in BOOLEAN /\ s_running \in BOOLEAN
        /\ hup \in BOOLEAN /\ winSync \in BOOLEAN /\ crossed \in BOOLEAN
        /\ focusSync \in BOOLEAN
    BY DEF Init, Stages, RefreshStages
  <2> QED
    BY <1>1, <2>1, <2>2, <2>3, <2>4 DEF TypeOK
<1>3. ActiveCoherent
  BY InitialDock DEF Init, ActiveCoherent
<1> QED
  BY <1>2, <1>3 DEF IInv

LEMMA ConnectType ==
    ASSUME TypeOK, Connect \/ NoConnect
    PROVE  /\ s_fd' \in BOOLEAN /\ subscribed' \in BOOLEAN
           /\ listening' \in BOOLEAN /\ drops' \in 0..MaxDrops
           /\ sock' \in Seq(Event) /\ buf' \in Seq(Event)
           /\ focusSync' \in BOOLEAN
<1>1. CASE Connect
  <2>1. sock' \in Seq(Event) /\ buf' \in Seq(Event)
    BY <1>1 DEF Connect
  <2>2. focusSync' \in BOOLEAN
    BY <1>1 DEF Connect
  <2> QED
    BY <1>1, <2>1, <2>2 DEF Connect, TypeOK, HyprTypeOK
<1>2. CASE NoConnect
  BY <1>2 DEF NoConnect, TypeOK, HyprTypeOK, socket2
<1> QED
  BY <1>1, <1>2

LEMMA FailType ==
    ASSUME TypeOK, Fail
    PROVE  fails' \in 0..MaxFails
BY LoopAssumption DEF TypeOK, Fail

LEMMA ReturnType ==
    ASSUME TypeOK, NEW r \in BOOLEAN, Return(r)
    PROVE  pc' \in Stages /\ changed' \in BOOLEAN /\ pc' # "active"
BY DEF TypeOK, Return, Stages

LEMMA RefreshInvariant ==
    ASSUME IInv, RefreshClients \/ RefreshActive \/ RefreshMonitors
    PROVE  IInv'
<1> USE DEF IInv
<1>0. dock \in Dock /\ win \in Windows /\ focus \in Addr \cup {NoAddr}
      /\ mon \in Monitor /\ mws[mon] \in Workspace
  BY DEF TypeOK, HyprTypeOK
<1>1. CASE RefreshClients
  <2>1. dock' \in Dock
    BY <1>0, <1>1, LoadClientsType, ClearClientsCoherent DEF RefreshClients
  <2>2. pc' # "active" => Coherent(dock')
    BY <1>0, <1>1, ClearClientsCoherent DEF RefreshClients
  <2>3. pc' \in Stages /\ changed' \in BOOLEAN
    BY <1>1, ReturnType DEF RefreshClients, TypeOK, Stages, RefreshStages
  <2>4. fails' \in 0..MaxFails
    BY <1>1, FailType DEF RefreshClients, TypeOK
  <2>5. winSync' \in BOOLEAN /\ crossed' \in BOOLEAN
    BY <1>1 DEF RefreshClients, TypeOK, HyprTypeOK, Unstale
  <2>6. HyprTypeOK'
    BY <1>1 DEF RefreshClients, TypeOK, HyprTypeOK, hyprVars, compositor, socket2
  <2>7. TypeOK'
    BY <1>1, <2>1, <2>3, <2>4, <2>5, <2>6 DEF RefreshClients, TypeOK, shell
  <2> QED
    BY <1>1, <2>2, <2>7 DEF RefreshClients, ActiveCoherent
<1>2. CASE RefreshActive
  <2>1. dock' \in Dock /\ Coherent(dock')
    BY <1>0, <1>2, LoadActiveCoherent, MarkActiveCoherent DEF RefreshActive
  <2>2. fails' \in 0..MaxFails
    BY <1>2, FailType DEF RefreshActive, TypeOK
  <2>3. focusSync' \in BOOLEAN
    BY <1>2 DEF RefreshActive, TypeOK, HyprTypeOK, Unstale
  <2>4. HyprTypeOK'
    BY <1>2 DEF RefreshActive, TypeOK, HyprTypeOK, hyprVars, compositor, socket2
  <2>5. TypeOK'
    BY <1>2, <2>1, <2>2, <2>3, <2>4
    DEF RefreshActive, TypeOK, shell, Stages, RefreshStages
  <2> QED
    BY <1>2, <2>1, <2>5 DEF RefreshActive, ActiveCoherent
<1>3. CASE RefreshMonitors
  <2>1. Coherent(dock)
    BY <1>3 DEF RefreshMonitors, ActiveCoherent
  <2>2. dock' \in Dock /\ Coherent(dock')
    BY <1>0, <1>3, <2>1, LoadMonitorsCoherent DEF RefreshMonitors
  <2>3. pc' \in Stages /\ changed' \in BOOLEAN
    BY <1>3, ReturnType DEF RefreshMonitors
  <2>4. fails' \in 0..MaxFails
    BY <1>3, FailType DEF RefreshMonitors, TypeOK
  <2>5. HyprTypeOK'
    BY <1>3 DEF RefreshMonitors, TypeOK, HyprTypeOK, hyprVars, compositor, socket2
  <2>6. TypeOK'
    BY <1>3, <2>2, <2>3, <2>4, <2>5 DEF RefreshMonitors, TypeOK, shell, history
  <2> QED
    BY <1>3, <2>2, <2>6 DEF RefreshMonitors, ActiveCoherent
<1> QED
  BY <1>1, <1>2, <1>3

LEMMA LoopInvariant ==
    ASSUME IInv,
           \/ Subscribe \/ Poll \/ Read \/ Reinit \/ HandleEvent
           \/ EventsDone \/ ReadCommands \/ Emit \/ Retry
    PROVE  IInv'
<1> USE DEF IInv, Stages, RefreshStages
<1>1. CASE Subscribe
  BY <1>1, ConnectType
  DEF Subscribe, TypeOK, HyprTypeOK, ActiveCoherent, compositor, shell
<1>2. CASE Poll
  <2>1. /\ UNCHANGED <<hyprVars, back, dock, s_fd, batch, buf, s_running, shell,
                       fails, shown, history>>
        /\ revents' \in SUBSET {"socket2", "stdin", "hangup"}
        /\ ret' \in {0, 1} /\ changed' \in BOOLEAN
        /\ pc' \in {"read", "stdin"}
    BY <1>2 DEF Poll, Ready
  <2>2. HyprTypeOK'
    BY <2>1 DEF TypeOK, HyprTypeOK, hyprVars, compositor, socket2
  <2>3. TypeOK'
    BY <2>1, <2>2 DEF TypeOK, shell, history
  <2> QED
    BY <1>2, <2>1, <2>3 DEF Poll, ActiveCoherent
<1>3. CASE Read
  <2>1. batch' \in Seq(Event) /\ buf' \in Seq(Event) /\ sock' \in Seq(Event)
    <3>1. CASE sock = <<>>
      BY <1>3, <3>1 DEF Read, TypeOK, HyprTypeOK
    <3>2. CASE sock # <<>>
      <4> DEFINE lines == buf \o sock
                 n == IF Len(lines) <= MaxEvents THEN Len(lines) ELSE MaxEvents
      <4>1. lines \in Seq(Event) /\ n \in 0..Len(lines)
        BY LoopAssumption DEF TypeOK, HyprTypeOK
      <4>2. /\ batch' = SubSeq(lines, 1, n)
            /\ buf' = SubSeq(lines, n + 1, Len(lines))
            /\ sock' = <<>>
        BY <1>3, <3>2 DEF Read
      <4> HIDE DEF lines, n
      <4>3. SubSeq(lines, 1, n) \in Seq(Event)
        BY <4>1
      <4>4. SubSeq(lines, n + 1, Len(lines)) \in Seq(Event)
        BY <4>1
      <4> QED
        BY <4>2, <4>3, <4>4
    <3> QED
      BY <3>1, <3>2
  <2>2. s_fd' \in BOOLEAN /\ pc' \in Stages /\ pc' # "active"
    BY <1>3 DEF Read, TypeOK
  <2>3. HyprTypeOK'
    BY <1>3, <2>1 DEF Read, TypeOK, HyprTypeOK, compositor
  <2>4. TypeOK'
    BY <1>3, <2>1, <2>2, <2>3 DEF Read, TypeOK, shell, history
  <2>5. pc # "active" /\ UNCHANGED <<dock, shown>>
    BY <1>3 DEF Read
  <2> QED
    BY <2>2, <2>4, <2>5 DEF ActiveCoherent
<1>4. CASE Reinit
  BY <1>4, ConnectType
  DEF Reinit, TypeOK, HyprTypeOK, ActiveCoherent, compositor, shell
<1>5. CASE HandleEvent
  <2>1. batch \in Seq(Event) /\ batch # <<>>
    BY <1>5 DEF HandleEvent, TypeOK
  <2>2. Head(batch) \in Event /\ Tail(batch) \in Seq(Event)
    BY <2>1
  <2>3. dock \in Dock /\ Coherent(dock)
    BY <1>5 DEF HandleEvent, TypeOK, ActiveCoherent
  <2>4. dock' \in Dock /\ Coherent(dock')
    BY <1>5, <2>2, <2>3, HandleEventCoherent DEF HandleEvent
  <2>5. changed' \in BOOLEAN
    BY <1>5 DEF HandleEvent, TypeOK
  <2>6. pc' \in Stages /\ back' \in {"subscribe", "socket2", "stdin", "emit"}
    BY <1>5 DEF HandleEvent, TypeOK
  <2>7. batch' \in Seq(Event)
    BY <1>5, <2>2 DEF HandleEvent
  <2>8. TypeOK'
    BY <1>5, <2>4, <2>5, <2>6, <2>7
    DEF HandleEvent, TypeOK, HyprTypeOK, hyprVars, compositor, socket2, shell,
        history
  <2> QED
    BY <1>5, <2>4, <2>8 DEF HandleEvent, ActiveCoherent
<1>6. CASE EventsDone
  BY <1>6
  DEF EventsDone, TypeOK, HyprTypeOK, ActiveCoherent, hyprVars, compositor,
      socket2, shell, history
<1>7. CASE ReadCommands
  <2>1. stdin' \in Seq(Command)
    <3>1. stdin' = <<>> \/ stdin' = stdin
      BY <1>7 DEF ReadCommands
    <3>2. stdin \in Seq(Command)
      BY DEF TypeOK
    <3>3. <<>> \in Seq(Command)
      OBVIOUS
    <3> QED
      BY <3>1, <3>2, <3>3, Zenon
  <2>2. changed' \in BOOLEAN /\ s_running' \in BOOLEAN
    BY <1>7 DEF ReadCommands, TypeOK
  <2> QED
    BY <1>7, <2>1, <2>2
    DEF ReadCommands, TypeOK, HyprTypeOK, ActiveCoherent, hyprVars, compositor,
        socket2, history
<1>8. CASE Emit
  BY <1>8
  DEF Emit, TypeOK, HyprTypeOK, ActiveCoherent, hyprVars, compositor, socket2,
      shell, history
<1>9. CASE Retry
  <2>1. /\ s_fd' \in BOOLEAN /\ subscribed' \in BOOLEAN
        /\ listening' \in BOOLEAN /\ drops' \in 0..MaxDrops
        /\ sock' \in Seq(Event) /\ buf' \in Seq(Event)
        /\ focusSync' \in BOOLEAN
    BY <1>9, ConnectType DEF Retry, TypeOK, HyprTypeOK, socket2
  <2> QED
    BY <1>9, <2>1
    DEF Retry, TypeOK, HyprTypeOK, ActiveCoherent, compositor, shell
<1> QED
  BY <1>1, <1>2, <1>3, <1>4, <1>5, <1>6, <1>7, <1>8, <1>9

LEMMA EnvironmentInvariant ==
    ASSUME IInv,
           \/ Compositor \/ Hangup \/ Reopen \/ ShellExit
           \/ \E c \in Command : SendCommand(c)
    PROVE  IInv'
<1> USE DEF IInv
<1>1. CASE Compositor
  <2>1. HyprTypeOK'
    BY <1>1, CompositorType DEF Compositor, TypeOK
  <2>2. winSync' \in BOOLEAN /\ focusSync' \in BOOLEAN
    BY <1>1 DEF Compositor, TypeOK, HyprTypeOK
  <2> QED
    BY <1>1, <2>1, <2>2 DEF Compositor, TypeOK, ActiveCoherent, daemon, shell
<1>2. CASE Hangup
  <2>1. drops' \in 0..MaxDrops
    BY <1>2, BoundAssumption DEF Hangup, DropSubscriber, TypeOK, HyprTypeOK
  <2>2. HyprTypeOK'
    BY <1>2, <2>1 DEF Hangup, DropSubscriber, TypeOK, HyprTypeOK, compositor
  <2> QED
    BY <1>2, <2>2 DEF Hangup, TypeOK, ActiveCoherent, daemon, shell, history
<1>3. CASE Reopen
  BY <1>3
  DEF Reopen, Listen, TypeOK, HyprTypeOK, ActiveCoherent, compositor, daemon,
      shell, history
<1>4. CASE ShellExit
  BY <1>4
  DEF ShellExit, TypeOK, HyprTypeOK, ActiveCoherent, hyprVars, compositor,
      socket2, daemon, history
<1>5. ASSUME NEW c \in Command, SendCommand(c)
      PROVE  IInv'
  <2>1. stdin' \in Seq(Command)
    BY <1>5 DEF SendCommand, TypeOK
  <2>2. cmds' \in 0..MaxCmds
    BY <1>5, LoopAssumption DEF SendCommand, TypeOK
  <2> QED
    BY <1>5, <2>1, <2>2
    DEF SendCommand, TypeOK, HyprTypeOK, ActiveCoherent, hyprVars, compositor,
        socket2, daemon, history
<1> QED
  BY <1>1, <1>2, <1>3, <1>4, <1>5

LEMMA StepInvariant == IInv /\ [Next]_vars => IInv'
<1> SUFFICES ASSUME IInv, [Next]_vars PROVE IInv'
  OBVIOUS
<1>1. CASE Next
  BY <1>1, RefreshInvariant, LoopInvariant, EnvironmentInvariant DEF Next, Daemon
<1>2. CASE UNCHANGED vars
  BY <1>2
  DEF IInv, TypeOK, HyprTypeOK, ActiveCoherent, vars, hyprVars, compositor,
      socket2, daemon, shell, history
<1> QED
  BY <1>1, <1>2

(* Every variable keeps its type in every run of the daemon. *)
THEOREM TypeCorrect == Spec => []TypeOK
<1>1. IInv => TypeOK
  BY DEF IInv
<1> QED
  BY <1>1, InitInvariant, StepInvariant, PTL DEF Spec

(* In every run, for any number of windows, events and faults, the client   *)
(* marked active is the one active_addr names: in the daemon, unless it is  *)
(* between two replies of a refresh, and in everything the shell was sent.  *)
THEOREM HighlightAgrees == Spec => []ActiveCoherent
<1>1. IInv => ActiveCoherent
  BY DEF IInv
<1> QED
  BY <1>1, InitInvariant, StepInvariant, PTL DEF Spec

-----------------------------------------------------------------------------
(* Subscribe first, snapshot second. *)

(* LiveIsSynced speaks of the loop at rest; the argument is about every     *)
(* step.  Once the daemon subscribes, the only stage at which its list may  *)
(* be older than the subscription is just before the snapshot; and the      *)
(* start-up, which snapshots first, is safe while the compositor rests.     *)
SyncInv ==
    /\ subscribed /\ pc # "clients" => winSync
    /\ Starting => /\ ~subscribed /\ batch = <<>> /\ buf = <<>> /\ sock = <<>>
                   /\ pc # "clients" => winSync

LEMMA InitSync == Init => SyncInv
BY DEF Init, HyprInit, SyncInv, Starting, RefreshStages

LEMMA NoFailure ==
    ASSUME TypeOK, MaxFails = 0
    PROVE  ~Fail
BY DEF TypeOK, Fail

LEMMA RefreshSync ==
    ASSUME TypeOK, SyncInv, MaxFails = 0,
           RefreshClients \/ RefreshActive \/ RefreshMonitors
    PROVE  SyncInv'
<1>0. ~Fail
  BY NoFailure
<1>1. CASE RefreshClients
  <2>1. Starting => pending = <<>>
    BY DEF SyncInv, pending
  <2>2. subscribed \/ Starting => winSync'
    BY <1>0, <1>1, <2>1 DEF RefreshClients, Unstale
  <2>3. /\ pc = "clients" /\ pc' = "active"
        /\ UNCHANGED <<subscribed, back, batch, buf, sock>>
    BY <1>0, <1>1 DEF RefreshClients, hyprVars, socket2
  <2>4. Starting' <=> Starting
    BY <2>3 DEF Starting, RefreshStages
  <2> QED
    BY <2>2, <2>3, <2>4 DEF SyncInv
<1>2. CASE RefreshActive
  <2>1. /\ pc = "active" /\ pc' = "monitors"
        /\ UNCHANGED <<subscribed, back, batch, buf, sock, winSync>>
    BY <1>2 DEF RefreshActive, hyprVars, socket2
  <2>2. Starting' <=> Starting
    BY <2>1 DEF Starting, RefreshStages
  <2> QED
    BY <2>1, <2>2 DEF SyncInv
<1>3. CASE RefreshMonitors
  <2>1. /\ pc = "monitors" /\ pc' = back
        /\ UNCHANGED <<subscribed, back, batch, buf, sock, winSync>>
    BY <1>3 DEF RefreshMonitors, Return, hyprVars, socket2, history
  <2>2. Starting' => Starting
    BY <2>1 DEF TypeOK, Starting, RefreshStages
  <2> QED
    BY <2>1, <2>2 DEF SyncInv
<1> QED
  BY <1>1, <1>2, <1>3

(* A step that leaves the list, the connection and the queue alone. *)
LEMMA QuietSync ==
    ASSUME SyncInv, UNCHANGED <<subscribed, winSync>>,
           pc # "clients" \/ pc' = "clients", ~Starting'
    PROVE  SyncInv'
BY DEF SyncInv

LEMMA LoopSync ==
    ASSUME TypeOK, SyncInv,
           \/ Subscribe \/ Poll \/ Read \/ Reinit \/ HandleEvent
           \/ EventsDone \/ ReadCommands \/ Emit \/ Retry
    PROVE  SyncInv'
<1> USE DEF RefreshStages
<1>1. CASE Subscribe
  <2>1. winSync' /\ pc' = "emit"
    BY <1>1 DEF Subscribe, SyncInv, Starting
  <2> QED
    BY <2>1 DEF SyncInv, Starting
<1>2. CASE Poll
  BY <1>2, QuietSync DEF Poll, hyprVars, socket2, history, Starting
<1>3. CASE Read
  BY <1>3, QuietSync DEF Read, history, Starting
<1>4. CASE Reinit
  <2>1. CASE Connect /\ pc' = "clients" /\ back' = "stdin"
    BY <2>1 DEF SyncInv, Starting
  <2>2. CASE NoConnect /\ pc' = "stdin" /\ UNCHANGED back
    BY <1>4, <2>2, QuietSync DEF Reinit, NoConnect, socket2, Starting
  <2> QED
    BY <1>4, <2>1, <2>2 DEF Reinit
<1>5. CASE HandleEvent
  BY <1>5, QuietSync DEF HandleEvent, hyprVars, socket2, history, Starting
<1>6. CASE EventsDone
  BY <1>6, QuietSync DEF EventsDone, hyprVars, socket2, history, Starting
<1>7. CASE ReadCommands
  BY <1>7, QuietSync DEF ReadCommands, hyprVars, socket2, history, Starting
<1>8. CASE Emit
  BY <1>8, QuietSync DEF Emit, hyprVars, socket2, history, Starting
<1>9. CASE Retry
  <2>1. CASE pc' = "clients" /\ back' = "emit"
    BY <2>1 DEF SyncInv, Starting
  <2>2. CASE /\ pc' \in {"poll", "stopped"}
             /\ UNCHANGED <<socket2, s_fd, buf, back, focusSync>>
    BY <1>9, <2>2, QuietSync DEF Retry, socket2, Starting
  <2> QED
    BY <1>9, <2>1, <2>2 DEF Retry
<1> QED
  BY <1>1, <1>2, <1>3, <1>4, <1>5, <1>6, <1>7, <1>8, <1>9

LEMMA EnvironmentSync ==
    ASSUME TypeOK, SyncInv, "startup_activity" \notin Faults,
           \/ Compositor \/ Hangup \/ Reopen \/ ShellExit
           \/ \E c \in Command : SendCommand(c)
    PROVE  SyncInv'
<1>1. CASE Compositor
  <2>1. ~Starting /\ UNCHANGED <<pc, back>>
    BY <1>1 DEF Compositor, daemon
  <2>2. ~Starting'
    BY <2>1 DEF Starting
  <2>3. subscribed => winSync' = winSync
    BY <1>1 DEF Compositor, TypeOK
  <2>4. subscribed' = subscribed
    BY <1>1 DEF Compositor, CompositorStep, OpenWindow, CloseWindow, FocusWindow,
       MoveWindow, ToggleFloating, ToggleFullscreen, SwitchWorkspace,
       FocusMonitor, Announce, Post
  <2> QED
    BY <2>1, <2>2, <2>3, <2>4 DEF SyncInv
<1>2. CASE Hangup
  <2>1. subscribed /\ ~subscribed' /\ UNCHANGED <<pc, back>>
    BY <1>2 DEF Hangup, DropSubscriber, daemon
  <2> QED
    BY <2>1 DEF SyncInv, Starting
<1>3. CASE Reopen \/ ShellExit \/ \E c \in Command : SendCommand(c)
  <2>1. UNCHANGED <<pc, back, batch, buf, sock, subscribed, winSync>>
    BY <1>3 DEF Reopen, Listen, ShellExit, SendCommand, hyprVars, socket2, daemon,
       history
  <2> QED
    BY <2>1 DEF SyncInv, Starting
<1> QED
  BY <1>1, <1>2, <1>3

(* If no request fails and the compositor rests while the daemon starts,    *)
(* then whenever the daemon waits with a live subscription no change since  *)
(* its snapshot went unannounced, however often the connection is lost.     *)
THEOREM SubscribedInSync ==
    ASSUME MaxFails = 0, "startup_activity" \notin Faults
    PROVE  Spec => []LiveIsSynced
<1>1. TypeOK /\ SyncInv /\ [Next]_vars => SyncInv'
  <2> SUFFICES ASSUME TypeOK, SyncInv, [Next]_vars PROVE SyncInv'
    OBVIOUS
  <2>1. CASE Next
    BY <2>1, RefreshSync, LoopSync, EnvironmentSync DEF Next, Daemon
  <2>2. CASE UNCHANGED vars
    BY <2>2 DEF SyncInv, Starting, vars, hyprVars, socket2, daemon, history
  <2> QED
    BY <2>1, <2>2
<1>2. SyncInv => LiveIsSynced
  BY DEF SyncInv, LiveIsSynced
<1> QED
  BY <1>1, <1>2, InitSync, TypeCorrect, PTL DEF Spec

-----------------------------------------------------------------------------
(* Whoever changes the dock says so. *)

(* An event whose handler reports no change makes none. *)
LEMMA SilentEvents ==
    ASSUME NEW d \in Dock, NEW ev \in Event, ~NeedsRefresh(ev), ~Reports(d, ev)
    PROVE  handle_event(d, ev) = d
<1>0. /\ d = [clients |-> d.clients, active_addr |-> d.active_addr,
              active_ws |-> d.active_ws, active_mon |-> d.active_mon]
      /\ d.clients \in [DOMAIN d.clients -> DockClient]
  BY DockType
<1>1. CASE ev \in {OpenEv, FullscreenEv, ReloadedEv, OtherEv}
  BY <1>1 DEF handle_event, OpenEv, FullscreenEv, ReloadedEv, OtherEv
<1>2. ASSUME NEW a \in Addr, ev = CloseEv(a)
      PROVE  handle_event(d, ev) = d
  <2>1. a \notin DOMAIN d.clients
    BY <1>2 DEF Reports, CloseEv
  <2>2. handle_event(d, ev) = state_on_closewindow(d, a)
    BY <1>2 DEF handle_event, CloseEv
  <2>3. [b \in DOMAIN d.clients \ {a} |-> d.clients[b]] = d.clients
    BY <1>0, <2>1
  <2>4. state_on_closewindow(d, a)
          = [d EXCEPT !.clients = [b \in DOMAIN d.clients \ {a} |-> d.clients[b]]]
    BY DEF state_on_closewindow
  <2> QED
    BY <1>0, <2>2, <2>3, <2>4
<1>3. ASSUME NEW a \in Addr \cup {NoAddr}, ev = ActiveEv(a)
      PROVE  FALSE
  BY <1>3 DEF Reports, ActiveEv
<1>4. ASSUME NEW a \in Addr, NEW w \in Workspace, ev = MoveEv(a, w)
      PROVE  handle_event(d, ev) = d
  <2>1. a \notin DOMAIN d.clients
    BY <1>4 DEF Reports, MoveEv
  <2>2. handle_event(d, ev) = state_on_movewindow(d, a, w)
    BY <1>4 DEF handle_event, MoveEv
  <2> QED
    BY <2>1, <2>2 DEF state_on_movewindow
<1>5. ASSUME NEW a \in Addr, NEW b \in BOOLEAN, ev = FloatEv(a, b)
      PROVE  handle_event(d, ev) = d
  <2>1. a \notin DOMAIN d.clients
    BY <1>5 DEF Reports, FloatEv
  <2>2. handle_event(d, ev) = state_on_floating(d, a, b)
    BY <1>5 DEF handle_event, FloatEv
  <2> QED
    BY <2>1, <2>2 DEF state_on_floating
<1>6. ASSUME NEW w \in Workspace, ev = WorkspaceEv(w)
      PROVE  handle_event(d, ev) = d
  <2>1. w = d.active_ws
    BY <1>6 DEF Reports, WorkspaceEv
  <2>2. handle_event(d, ev) = state_on_workspace(d, w)
    BY <1>6 DEF handle_event, WorkspaceEv
  <2> QED
    BY <1>0, <2>1, <2>2 DEF state_on_workspace
<1>7. ASSUME NEW m \in Monitor, ev = MonitorEv(m)
      PROVE  handle_event(d, ev) = d
  <2>1. m = d.active_mon
    BY <1>7 DEF Reports, MonitorEv
  <2>2. handle_event(d, ev) = state_on_focusedmon(d, m)
    BY <1>7 DEF handle_event, MonitorEv
  <2> QED
    BY <1>0, <2>1, <2>2 DEF state_on_focusedmon
<1> QED
  BY <1>1, <1>2, <1>3, <1>4, <1>5, <1>6, <1>7 DEF Event

(* Where the loop stands between poll() and its emit, it remembers that the *)
(* shell has yet to be given the dock.  During a refresh nothing need be    *)
(* remembered: every way out of one that succeeds sets changed.            *)
Owed ==
    /\ pc \in {"poll", "retry"} => shown = dock
    /\ pc \in {"subscribe", "read", "reinit", "socket2", "stdin", "emit"} =>
          changed \/ shown = dock

OwedInv == fails = 0 => Owed

LEMMA RefreshOwed ==
    ASSUME TypeOK, OwedInv, fails' = 0,
           RefreshClients \/ RefreshActive \/ RefreshMonitors
    PROVE  Owed'
<1>1. ~Fail
  BY LoopAssumption DEF TypeOK, Fail
<1>2. CASE RefreshClients \/ RefreshActive
  <2>1. pc' \in {"active", "monitors"}
    BY <1>1, <1>2 DEF RefreshClients, RefreshActive
  <2> QED
    BY <2>1 DEF Owed
<1>3. CASE RefreshMonitors
  <2>1. changed' /\ pc' \in {"subscribe", "socket2", "stdin", "emit"}
    BY <1>3 DEF RefreshMonitors, Return, TypeOK
  <2> QED
    BY <2>1 DEF Owed
<1> QED
  BY <1>2, <1>3

LEMMA LoopOwed ==
    ASSUME TypeOK, OwedInv, fails' = 0,
           \/ Subscribe \/ Poll \/ Read \/ Reinit \/ HandleEvent
           \/ EventsDone \/ ReadCommands \/ Emit \/ Retry
    PROVE  Owed'
<1>0. Owed
  BY DEF OwedInv, Subscribe, Poll, Read, Reinit, HandleEvent, EventsDone,
         ReadCommands, Emit, Retry
<1> USE <1>0 DEF Owed
<1>1. CASE Subscribe
  BY <1>1 DEF Subscribe
<1>2. CASE Poll
  BY <1>2 DEF Poll
<1>3. CASE Read
  BY <1>3 DEF Read
<1>4. CASE Reinit
  BY <1>4 DEF Reinit
<1>5. CASE HandleEvent
  <2>1. batch # <<>> /\ batch \in Seq(Event) /\ dock \in Dock /\ pc = "socket2"
    BY <1>5 DEF HandleEvent, TypeOK
  <2>2. Head(batch) \in Event
    BY <2>1
  <2>3. CASE pc' = "clients"
    BY <2>3
  <2>4. CASE /\ ~NeedsRefresh(Head(batch))
             /\ dock' = handle_event(dock, Head(batch))
             /\ changed' = (changed \/ Reports(dock, Head(batch)))
             /\ UNCHANGED <<pc, back>>
    <3>1. UNCHANGED shown
      BY <1>5 DEF HandleEvent
    <3>2. Reports(dock, Head(batch)) \/ dock' = dock
      BY <2>1, <2>2, <2>4, SilentEvents
    <3> QED
      BY <2>1, <2>4, <3>1, <3>2
  <2> QED
    BY <1>5, <2>3, <2>4 DEF HandleEvent
<1>6. CASE EventsDone
  BY <1>6 DEF EventsDone
<1>7. CASE ReadCommands
  <2>1. changed => changed'
    BY <1>7 DEF ReadCommands
  <2> QED
    BY <1>7, <2>1 DEF ReadCommands
<1>8. CASE Emit
  BY <1>8 DEF Emit
<1>9. CASE Retry
  <2>1. /\ pc = "retry" /\ pc' \in {"clients", "poll", "stopped"}
        /\ UNCHANGED <<dock, shown>>
    BY <1>9 DEF Retry
  <2> QED
    BY <2>1
<1> QED
  BY <1>1, <1>2, <1>3, <1>4, <1>5, <1>6, <1>7, <1>8, <1>9

LEMMA EnvironmentOwed ==
    ASSUME OwedInv, \/ Compositor \/ Hangup \/ Reopen \/ ShellExit
                    \/ \E c \in Command : SendCommand(c)
                    \/ UNCHANGED vars
    PROVE  OwedInv'
<1>1. UNCHANGED <<pc, changed, dock, shown, fails>>
  BY DEF Compositor, Hangup, Reopen, ShellExit, SendCommand, daemon, vars
<1> QED
  BY <1>1 DEF OwedInv, Owed

(* As long as no request has failed, the shell shows the daemon's state     *)
(* whenever the loop waits: every handler that changes the dock reports it  *)
(* (state.c:319-459), and every refresh is followed by an emit             *)
(* (main.c:259, 286).  After a failed request in the middle of an iteration *)
(* this is not so: the list is cleared and nothing is reported             *)
(* (state.c:205).                                                          *)
THEOREM EveryChangeIsShown == Spec => [](fails = 0 => ShownCurrent)
<1>1. Init => OwedInv
  BY DEF Init, OwedInv, Owed
<1>2. TypeOK /\ OwedInv /\ [Next]_vars => OwedInv'
  <2> SUFFICES ASSUME TypeOK, OwedInv, [Next]_vars PROVE OwedInv'
    OBVIOUS
  <2>1. CASE Daemon
    BY <2>1, RefreshOwed, LoopOwed DEF Daemon, OwedInv
  <2>2. CASE ~Daemon
    BY <2>2, EnvironmentOwed DEF Next
  <2> QED
    BY <2>1, <2>2
<1>3. OwedInv => (fails = 0 => ShownCurrent)
  BY DEF OwedInv, Owed, ShownCurrent
<1> QED
  BY <1>1, <1>2, <1>3, TypeCorrect, PTL DEF Spec

-----------------------------------------------------------------------------
(* What is pending repairs the list. *)

(* e is the last member of the set K in the queue q. *)
Latest(q, K, e) ==
    \E i \in DOMAIN q : q[i] = e /\ e \in K
                        /\ \A j \in DOMAIN q : j > i => q[j] \notin K

(* The queue has no member of K. *)
Lacks(q, K) == \A i \in DOMAIN q : q[i] \notin K

(* The events that have a say in whether a client is listed, in its        *)
(* workspace, in its mode, and in the focus.                               *)
Refreshing == {OpenEv, FullscreenEv, ReloadedEv}
Closes(a) == Refreshing \cup {CloseEv(a)}
Moves(a) == Refreshing \cup {MoveEv(a, s) : s \in Workspace}
Floats(a) == Refreshing \cup {FloatEv(a, b) : b \in BOOLEAN}
Focuses == {ActiveEv(a) : a \in Addr \cup {NoAddr}}

(* The queue q ends with the truth about the window at a. *)
Told(q, w, a) ==
    /\ Latest(q, Closes(a), CloseEv(a)) => a \notin DOMAIN w
    /\ a \in DOMAIN w =>
          /\ \A s \in Workspace : Latest(q, Moves(a), MoveEv(a, s)) => w[a].ws = s
          /\ \A b \in BOOLEAN :
                Latest(q, Floats(a), FloatEv(a, b)) => w[a].floating = b

(* What the state d says of the window at a is true, but for what the      *)
(* queue q will put right.                                                 *)
Tracks(q, w, d, a) ==
    /\ a \in Listed(w) <=> a \in DOMAIN d.clients /\ Lacks(q, Closes(a))
    /\ a \in Listed(w) =>
          /\ Lacks(q, Moves(a)) => d.clients[a].workspace_id = w[a].ws
          /\ Lacks(q, Floats(a)) => d.clients[a].is_floating = w[a].floating
          /\ d.clients[a].is_fullscreen = w[a].fullscreen

(* The queue q ends with the truth about the focus f. *)
FocusTold(q, f) ==
    \A a \in Addr \cup {NoAddr} : Latest(q, Focuses, ActiveEv(a)) => a = f

WindowInv ==
    /\ subscribed \/ winSync => \A a \in Addr : Told(pending, win, a)
    /\ winSync /\ ~crossed /\ pc # "clients" /\ Lacks(pending, Refreshing) =>
          \A a \in Addr : Tracks(pending, win, dock, a)

FocusInv ==
    /\ subscribed \/ focusSync => FocusTold(pending, focus)
    /\ focusSync /\ Lacks(pending, Focuses) => dock.active_addr = focus

(* Where the queue is empty, and when there is a connection. *)
QueueInv ==
    /\ batch # <<>> => pc = "socket2" \/ (pc \in RefreshStages /\ back = "socket2")
    /\ subscribed \/ sock # <<>> => s_fd
    /\ pc = "read" => sock # <<>> \/ ~subscribed
    /\ pc = "reinit" \/ Starting => ~s_fd
    /\ Starting => buf = <<>>

-----------------------------------------------------------------------------
(* Queues. *)

LEMMA EmptyQueue ==
    ASSUME NEW K, NEW e
    PROVE  ~Latest(<<>>, K, e) /\ Lacks(<<>>, K)
BY DEF Latest, Lacks

(* A queue that does not lack K has a last member of K. *)
LEMMA LatestExists ==
    ASSUME NEW q \in Seq(Event), NEW K, ~Lacks(q, K)
    PROVE  \E e \in K : Latest(q, K, e)
<1> DEFINE T == {i \in DOMAIN q : q[i] \in K}
<1>1. T \subseteq Nat /\ T # {} /\ Len(q) \in Nat /\ \A i \in T : i <= Len(q)
  BY DEF Lacks
<1>2. PICK i \in T : \A j \in T : j <= i
  BY <1>1, GreatestNat
<1>3. \A j \in DOMAIN q : j > i => q[j] \notin K
  BY <1>2
<1>4. i \in DOMAIN q /\ q[i] \in K
  BY <1>2
<1>5. Latest(q, K, q[i])
  BY <1>3, <1>4 DEF Latest
<1> QED
  BY <1>4, <1>5

(* Taking the first event. *)
LEMMA TailLatest ==
    ASSUME NEW q \in Seq(Event), q # <<>>, NEW K, NEW e, Latest(Tail(q), K, e)
    PROVE  Latest(q, K, e)
<1>1. PICK i \in DOMAIN Tail(q) :
         /\ Tail(q)[i] = e /\ e \in K
         /\ \A j \in DOMAIN Tail(q) : j > i => Tail(q)[j] \notin K
  BY DEF Latest
<1>2. /\ DOMAIN q = 1..Len(q) /\ Len(q) \in Nat /\ DOMAIN Tail(q) = 1..(Len(q) - 1)
      /\ \A j \in DOMAIN Tail(q) : Tail(q)[j] = q[j + 1]
  OBVIOUS
<1>3. i + 1 \in DOMAIN q /\ q[i + 1] = e
  BY <1>1, <1>2
<1>4. ASSUME NEW j \in DOMAIN q, j > i + 1
      PROVE  q[j] \notin K
  <2>1. j - 1 \in DOMAIN Tail(q) /\ j - 1 > i /\ (j - 1) + 1 = j
    BY <1>1, <1>2, <1>4
  <2>2. Tail(q)[j - 1] \notin K
    BY <1>1, <2>1
  <2> QED
    BY <1>2, <2>1, <2>2
<1> QED
  BY <1>1, <1>3, <1>4 DEF Latest

LEMMA TailLacks ==
    ASSUME NEW q \in Seq(Event), q # <<>>, NEW K
    PROVE  Lacks(q, K) <=> Head(q) \notin K /\ Lacks(Tail(q), K)
<1>1. /\ DOMAIN q = 1..Len(q) /\ Len(q) \in Nat /\ DOMAIN Tail(q) = 1..(Len(q) - 1)
      /\ \A j \in DOMAIN Tail(q) : Tail(q)[j] = q[j + 1]
      /\ Head(q) = q[1] /\ 1 \in DOMAIN q
  OBVIOUS
<1>2. ASSUME Lacks(q, K)
      PROVE  Head(q) \notin K /\ Lacks(Tail(q), K)
  BY <1>1, <1>2 DEF Lacks
<1>3. ASSUME Head(q) \notin K, Lacks(Tail(q), K), NEW i \in DOMAIN q
      PROVE  q[i] \notin K
  <2>1. CASE i = 1
    BY <1>1, <1>3, <2>1
  <2>2. CASE i # 1
    <3>1. i - 1 \in DOMAIN Tail(q) /\ (i - 1) + 1 = i
      BY <1>1, <2>2
    <3> QED
      BY <1>1, <1>3, <3>1 DEF Lacks
  <2> QED
    BY <2>1, <2>2
<1> QED
  BY <1>2, <1>3 DEF Lacks

(* The first event is the last of its kind if no other follows. *)
LEMMA HeadLatest ==
    ASSUME NEW q \in Seq(Event), q # <<>>, NEW K, Head(q) \in K, Lacks(Tail(q), K)
    PROVE  Latest(q, K, Head(q))
<1>1. /\ DOMAIN q = 1..Len(q) /\ Len(q) \in Nat /\ DOMAIN Tail(q) = 1..(Len(q) - 1)
      /\ \A j \in DOMAIN Tail(q) : Tail(q)[j] = q[j + 1]
      /\ Head(q) = q[1] /\ 1 \in DOMAIN q
  OBVIOUS
<1>2. ASSUME NEW j \in DOMAIN q, j > 1
      PROVE  q[j] \notin K
  <2>1. j - 1 \in DOMAIN Tail(q) /\ (j - 1) + 1 = j
    BY <1>1, <1>2
  <2> QED
    BY <1>1, <2>1 DEF Lacks
<1> QED
  BY <1>1, <1>2 DEF Latest

(* One event more. *)
LEMMA AppendQueue ==
    ASSUME NEW q \in Seq(Event), NEW K, NEW ev \in Event
    PROVE  /\ Append(q, ev) \in Seq(Event)
           /\ Lacks(Append(q, ev), K) <=> Lacks(q, K) /\ ev \notin K
           /\ \A e : Latest(Append(q, ev), K, e) <=>
                        IF ev \in K THEN e = ev ELSE Latest(q, K, e)
<1> DEFINE p == Append(q, ev)
           n == Len(q)
<1>1. /\ DOMAIN q = 1..n /\ n \in Nat /\ DOMAIN p = 1..(n + 1)
      /\ \A j \in DOMAIN q : p[j] = q[j]
      /\ p[n + 1] = ev /\ p \in Seq(Event)
  OBVIOUS
<1> HIDE DEF p, n
<1>2. Lacks(p, K) <=> Lacks(q, K) /\ ev \notin K
  BY <1>1 DEF Lacks
<1>3. ASSUME NEW e
      PROVE  Latest(p, K, e) <=> IF ev \in K THEN e = ev ELSE Latest(q, K, e)
  <2>1. CASE ev \in K
    <3>1. ASSUME Latest(p, K, e)
          PROVE  e = ev
      <4>1. PICK i \in DOMAIN p : p[i] = e /\ \A j \in DOMAIN p : j > i => p[j] \notin K
        BY <3>1 DEF Latest
      <4>2. i = n + 1
        BY <1>1, <2>1, <4>1
      <4> QED
        BY <1>1, <4>1, <4>2
    <3>2. Latest(p, K, ev)
      BY <1>1, <2>1 DEF Latest
    <3> QED
      BY <2>1, <3>1, <3>2
  <2>2. CASE ev \notin K
    <3>1. ASSUME Latest(p, K, e)
          PROVE  Latest(q, K, e)
      <4>1. PICK i \in DOMAIN p : /\ p[i] = e /\ e \in K
                                  /\ \A j \in DOMAIN p : j > i => p[j] \notin K
        BY <3>1 DEF Latest
      <4>2. i \in DOMAIN q
        BY <1>1, <2>2, <4>1
      <4>3. \A j \in DOMAIN q : j > i => q[j] \notin K
        BY <1>1, <4>1
      <4> QED
        BY <1>1, <4>1, <4>2, <4>3 DEF Latest
    <3>2. ASSUME Latest(q, K, e)
          PROVE  Latest(p, K, e)
      <4>1. PICK i \in DOMAIN q : /\ q[i] = e /\ e \in K
                                  /\ \A j \in DOMAIN q : j > i => q[j] \notin K
        BY <3>2 DEF Latest
      <4>2. \A j \in DOMAIN p : j > i => p[j] \notin K
        BY <1>1, <2>2, <4>1
      <4> QED
        BY <1>1, <4>1, <4>2 DEF Latest
    <3> QED
      BY <2>2, <3>1, <3>2
  <2> QED
    BY <2>1, <2>2
<1> QED
  BY <1>1, <1>2, <1>3 DEF p

-----------------------------------------------------------------------------
(* Events. *)

(* What tells the events apart. *)
LEMMA EventFields ==
    /\ OpenEv.type = "openwindow" /\ FullscreenEv.type = "fullscreen"
    /\ ReloadedEv.type = "configreloaded" /\ OtherEv.type = "other"
    /\ \A a : CloseEv(a).type = "closewindow" /\ CloseEv(a).addr = a
    /\ \A a : ActiveEv(a).type = "activewindowv2" /\ ActiveEv(a).addr = a
    /\ \A a, s : /\ MoveEv(a, s).type = "movewindowv2"
                 /\ MoveEv(a, s).addr = a /\ MoveEv(a, s).ws = s
    /\ \A a, b : /\ FloatEv(a, b).type = "changefloatingmode"
                 /\ FloatEv(a, b).addr = a /\ FloatEv(a, b).floating = b
    /\ \A s : WorkspaceEv(s).type = "workspacev2"
    /\ \A m : MonitorEv(m).type = "focusedmon"
BY DEF OpenEv, FullscreenEv, ReloadedEv, OtherEv, CloseEv, ActiveEv, MoveEv,
       FloatEv, WorkspaceEv, MonitorEv

LEMMA RefreshingEvents ==
    ASSUME NEW ev \in Event
    PROVE  NeedsRefresh(ev) <=> ev \in Refreshing
BY EventFields DEF Event, NeedsRefresh, Refreshing

(* The sets of events that concern an address, told by their fields. *)
LEMMA ConcernsByFields ==
    ASSUME NEW ev \in Event, NEW a \in Addr
    PROVE  /\ ev \in Closes(a) <=> \/ NeedsRefresh(ev)
                                   \/ ev.type = "closewindow" /\ ev.addr = a
           /\ ev \in Moves(a) <=> \/ NeedsRefresh(ev)
                                  \/ ev.type = "movewindowv2" /\ ev.addr = a
           /\ ev \in Floats(a) <=> \/ NeedsRefresh(ev)
                                   \/ ev.type = "changefloatingmode" /\ ev.addr = a
<1> USE EventFields DEF NeedsRefresh, Refreshing, Closes, Moves, Floats
<1>1. CASE ev \in {OpenEv, FullscreenEv, ReloadedEv, OtherEv}
  BY <1>1
<1>2. CASE \E b \in Addr : ev = CloseEv(b)
  BY <1>2
<1>3. CASE \E b \in Addr \cup {NoAddr} : ev = ActiveEv(b)
  BY <1>3
<1>4. CASE \E b \in Addr, s \in Workspace : ev = MoveEv(b, s)
  BY <1>4
<1>5. CASE \E b \in Addr, f \in BOOLEAN : ev = FloatEv(b, f)
  BY <1>5
<1>6. CASE \E s \in Workspace : ev = WorkspaceEv(s)
  BY <1>6
<1>7. CASE \E m \in Monitor : ev = MonitorEv(m)
  BY <1>7
<1> QED
  BY <1>1, <1>2, <1>3, <1>4, <1>5, <1>6, <1>7 DEF Event

-----------------------------------------------------------------------------
(* What a step makes of the entry of an address. *)

(* e has the same entries as d, but for is_active. *)
SameEntries(d, e) ==
    /\ DOMAIN e.clients = DOMAIN d.clients
    /\ \A a \in DOMAIN d.clients :
          /\ e.clients[a].workspace_id = d.clients[a].workspace_id
          /\ e.clients[a].is_floating = d.clients[a].is_floating
          /\ e.clients[a].is_fullscreen = d.clients[a].is_fullscreen

LEMMA MarkActiveEntries ==
    ASSUME NEW d \in Dock
    PROVE  SameEntries(d, MarkActive(d)) /\ MarkActive(d).active_addr = d.active_addr
<1> DEFINE f == [a \in DOMAIN d.clients |->
                   [d.clients[a] EXCEPT !.is_active = (a = d.active_addr)]]
<1>1. MarkActive(d) = [d EXCEPT !.clients = f]
  BY DEF MarkActive
<1>2. d.clients \in [DOMAIN d.clients -> DockClient]
  BY DockType
<1>3. /\ MarkActive(d).clients = f
      /\ MarkActive(d).active_addr = d.active_addr
  BY <1>1 DEF Dock
<1>4. /\ DOMAIN f = DOMAIN d.clients
      /\ \A a \in DOMAIN d.clients :
            /\ f[a].workspace_id = d.clients[a].workspace_id
            /\ f[a].is_floating = d.clients[a].is_floating
            /\ f[a].is_fullscreen = d.clients[a].is_fullscreen
  BY <1>2 DEF DockClient
<1> QED
  BY <1>3, <1>4 DEF SameEntries

LEMMA LoadActiveEntries ==
    ASSUME NEW d \in Dock, NEW f \in Addr \cup {NoAddr}
    PROVE  /\ SameEntries(d, LoadActive(d, f))
           /\ LoadActive(d, f).active_addr = IF f = NoAddr THEN d.active_addr ELSE f
<1> DEFINE e == [d EXCEPT !.active_addr = IF f = NoAddr THEN @ ELSE f]
<1>1. /\ e \in Dock /\ e.clients = d.clients
      /\ e.active_addr = IF f = NoAddr THEN d.active_addr ELSE f
  BY DEF Dock
<1>2. LoadActive(d, f) = MarkActive(e)
  BY DEF LoadActive
<1> HIDE DEF e
<1>3. SameEntries(e, MarkActive(e)) /\ MarkActive(e).active_addr = e.active_addr
  BY <1>1, MarkActiveEntries
<1> QED
  BY <1>1, <1>2, <1>3 DEF SameEntries

LEMMA LoadMonitorsEntries ==
    ASSUME NEW d \in Dock, NEW m \in Monitor, NEW s \in Workspace
    PROVE  /\ SameEntries(d, LoadMonitors(d, m, s))
           /\ LoadMonitors(d, m, s).active_addr = d.active_addr
BY DEF Dock, LoadMonitors, SameEntries

LEMMA LoadClientsEntries ==
    ASSUME NEW d \in Dock, NEW w \in Windows
    PROVE  /\ DOMAIN LoadClients(d, w).clients = Listed(w)
           /\ LoadClients(d, w).active_addr = d.active_addr
           /\ \A a \in Listed(w) :
                 /\ LoadClients(d, w).clients[a].workspace_id = w[a].ws
                 /\ LoadClients(d, w).clients[a].is_floating = w[a].floating
                 /\ LoadClients(d, w).clients[a].is_fullscreen = w[a].fullscreen
BY DEF Dock, LoadClients

(* An event that is handled from its own data. *)
Handled(d, e, ev, a) ==
    /\ a \in DOMAIN e.clients <=>
          /\ a \in DOMAIN d.clients
          /\ ~(ev.type = "closewindow" /\ ev.addr = a)
    /\ a \in DOMAIN e.clients =>
          /\ e.clients[a].workspace_id =
                IF ev.type = "movewindowv2" /\ ev.addr = a
                THEN ev.ws ELSE d.clients[a].workspace_id
          /\ e.clients[a].is_floating =
                IF ev.type = "changefloatingmode" /\ ev.addr = a
                THEN ev.floating ELSE d.clients[a].is_floating
          /\ e.clients[a].is_fullscreen = d.clients[a].is_fullscreen
    /\ e.active_addr = IF ev.type = "activewindowv2" THEN ev.addr ELSE d.active_addr

LEMMA SameHandled ==
    ASSUME NEW d, NEW e, SameEntries(d, e), NEW ev, NEW a,
           ev.type \notin {"closewindow", "movewindowv2", "changefloatingmode"},
           e.active_addr = IF ev.type = "activewindowv2" THEN ev.addr ELSE d.active_addr
    PROVE  Handled(d, e, ev, a)
BY DEF SameEntries, Handled

LEMMA HandleEffect ==
    ASSUME NEW d \in Dock, NEW ev \in Event, NEW a
    PROVE  Handled(d, handle_event(d, ev), ev, a)
<1>0. d.clients \in [DOMAIN d.clients -> DockClient]
  BY DockType
<1>1. CASE ev \in {OpenEv, FullscreenEv, ReloadedEv, OtherEv}
  <2>1. handle_event(d, ev) = d
    BY <1>1 DEF handle_event, OpenEv, FullscreenEv, ReloadedEv, OtherEv
  <2>2. SameEntries(d, d)
    BY DEF SameEntries
  <2> QED
    BY <1>1, <2>1, <2>2, EventFields, SameHandled
<1>2. ASSUME NEW b \in Addr, ev = CloseEv(b)
      PROVE  Handled(d, handle_event(d, ev), ev, a)
  <2>1. handle_event(d, ev) = state_on_closewindow(d, b)
    BY <1>2 DEF handle_event, CloseEv
  <2> DEFINE f == [c \in DOMAIN d.clients \ {b} |-> d.clients[c]]
             e == [d EXCEPT !.clients = f]
  <2>2. state_on_closewindow(d, b) = e
    BY DEF state_on_closewindow
  <2>3. e.clients = f /\ e.active_addr = d.active_addr
    BY DEF Dock
  <2>4. Handled(d, e, ev, a)
    <3>1. ev.type = "closewindow" /\ ev.addr = b
      BY <1>2, EventFields
    <3>2. /\ DOMAIN f = DOMAIN d.clients \ {b}
          /\ \A c \in DOMAIN f : f[c] = d.clients[c]
      OBVIOUS
    <3> HIDE DEF e, f
    <3> QED
      BY <2>3, <3>1, <3>2 DEF Handled
  <2> QED
    BY <2>1, <2>2, <2>4
<1>3. ASSUME NEW b \in Addr \cup {NoAddr}, ev = ActiveEv(b)
      PROVE  Handled(d, handle_event(d, ev), ev, a)
  <2>1. handle_event(d, ev) = state_on_activewindow(d, b)
    BY <1>3 DEF handle_event, ActiveEv
  <2> DEFINE e == [d EXCEPT !.active_addr = b]
  <2>2. e \in Dock /\ e.clients = d.clients /\ e.active_addr = b
    BY DEF Dock
  <2>3. state_on_activewindow(d, b) = MarkActive(e)
    BY DEF state_on_activewindow
  <2> HIDE DEF e
  <2>4. SameEntries(e, MarkActive(e)) /\ MarkActive(e).active_addr = b
    BY <2>2, MarkActiveEntries
  <2>5. SameEntries(d, MarkActive(e))
    BY <2>2, <2>4 DEF SameEntries
  <2>6. ev.type = "activewindowv2" /\ ev.addr = b
    BY <1>3, EventFields
  <2> QED
    BY <2>1, <2>3, <2>4, <2>5, <2>6, SameHandled
<1>4. ASSUME NEW b \in Addr, NEW s \in Workspace, ev = MoveEv(b, s)
      PROVE  Handled(d, handle_event(d, ev), ev, a)
  <2>1. handle_event(d, ev) = state_on_movewindow(d, b, s)
    BY <1>4 DEF handle_event, MoveEv
  <2>2. ev.type = "movewindowv2" /\ ev.addr = b /\ ev.ws = s
    BY <1>4, EventFields
  <2>3. CASE b \notin DOMAIN d.clients
    BY <2>1, <2>2, <2>3 DEF state_on_movewindow, Handled
  <2>4. CASE b \in DOMAIN d.clients
    <3> DEFINE e == [d EXCEPT !.clients[b].workspace_id = s]
    <3>1. state_on_movewindow(d, b, s) = e
      BY <2>4 DEF state_on_movewindow
    <3>2. /\ DOMAIN e.clients = DOMAIN d.clients /\ e.active_addr = d.active_addr
          /\ \A c \in DOMAIN d.clients : c # b => e.clients[c] = d.clients[c]
          /\ e.clients[b] = [d.clients[b] EXCEPT !.workspace_id = s]
      BY <1>0, <2>4 DEF Dock
    <3>3. /\ e.clients[b].workspace_id = s
          /\ e.clients[b].is_floating = d.clients[b].is_floating
          /\ e.clients[b].is_fullscreen = d.clients[b].is_fullscreen
      BY <1>0, <2>4, <3>2 DEF DockClient
    <3> HIDE DEF e
    <3> QED
      BY <2>1, <2>2, <2>4, <3>1, <3>2, <3>3 DEF Handled
  <2> QED
    BY <2>3, <2>4
<1>5. ASSUME NEW b \in Addr, NEW x \in BOOLEAN, ev = FloatEv(b, x)
      PROVE  Handled(d, handle_event(d, ev), ev, a)
  <2>1. handle_event(d, ev) = state_on_floating(d, b, x)
    BY <1>5 DEF handle_event, FloatEv
  <2>2. ev.type = "changefloatingmode" /\ ev.addr = b /\ ev.floating = x
    BY <1>5, EventFields
  <2>3. CASE b \notin DOMAIN d.clients
    BY <2>1, <2>2, <2>3 DEF state_on_floating, Handled
  <2>4. CASE b \in DOMAIN d.clients
    <3> DEFINE e == [d EXCEPT !.clients[b].is_floating = x]
    <3>1. state_on_floating(d, b, x) = e
      BY <2>4 DEF state_on_floating
    <3>2. /\ DOMAIN e.clients = DOMAIN d.clients /\ e.active_addr = d.active_addr
          /\ \A c \in DOMAIN d.clients : c # b => e.clients[c] = d.clients[c]
          /\ e.clients[b] = [d.clients[b] EXCEPT !.is_floating = x]
      BY <1>0, <2>4 DEF Dock
    <3>3. /\ e.clients[b].is_floating = x
          /\ e.clients[b].workspace_id = d.clients[b].workspace_id
          /\ e.clients[b].is_fullscreen = d.clients[b].is_fullscreen
      BY <1>0, <2>4, <3>2 DEF DockClient
    <3> HIDE DEF e
    <3>4. handle_event(d, ev) = e
      BY <2>1, <3>1
    <3>5. ASSUME a \in DOMAIN e.clients, ev.addr = a
          PROVE  e.clients[a].is_floating = ev.floating
      BY <2>2, <3>3, <3>5, Zenon
    <3>6. ASSUME a \in DOMAIN e.clients, ev.addr # a
          PROVE  e.clients[a].is_floating = d.clients[a].is_floating
      BY <2>2, <3>2, <3>6, Zenon
    <3>7. ASSUME a \in DOMAIN e.clients
          PROVE  /\ e.clients[a].workspace_id = d.clients[a].workspace_id
                 /\ e.clients[a].is_fullscreen = d.clients[a].is_fullscreen
      BY <3>2, <3>3, <3>7, Zenon
    <3> QED
      BY <2>2, <3>2, <3>4, <3>5, <3>6, <3>7, Zenon DEF Handled
  <2> QED
    BY <2>3, <2>4
<1>6. ASSUME NEW s \in Workspace, ev = WorkspaceEv(s)
      PROVE  Handled(d, handle_event(d, ev), ev, a)
  <2>1. handle_event(d, ev) = state_on_workspace(d, s)
    BY <1>6 DEF handle_event, WorkspaceEv
  <2>2. /\ SameEntries(d, state_on_workspace(d, s))
        /\ state_on_workspace(d, s).active_addr = d.active_addr
    BY DEF state_on_workspace, SameEntries, Dock
  <2> QED
    BY <1>6, <2>1, <2>2, EventFields, SameHandled
<1>7. ASSUME NEW m \in Monitor, ev = MonitorEv(m)
      PROVE  Handled(d, handle_event(d, ev), ev, a)
  <2>1. handle_event(d, ev) = state_on_focusedmon(d, m)
    BY <1>7 DEF handle_event, MonitorEv
  <2>2. /\ SameEntries(d, state_on_focusedmon(d, m))
        /\ state_on_focusedmon(d, m).active_addr = d.active_addr
    BY DEF state_on_focusedmon, SameEntries, Dock
  <2> QED
    BY <1>7, <2>1, <2>2, EventFields, SameHandled
<1> QED
  BY <1>1, <1>2, <1>3, <1>4, <1>5, <1>6, <1>7 DEF Event

-----------------------------------------------------------------------------
(* Queue, windows and state. *)

(* The state e has just been read from the windows w. *)
Loaded(w, e) ==
    /\ DOMAIN e.clients = Listed(w)
    /\ \A a \in Listed(w) :
          /\ e.clients[a].workspace_id = w[a].ws
          /\ e.clients[a].is_floating = w[a].floating
          /\ e.clients[a].is_fullscreen = w[a].fullscreen

LEMMA ListedOpen ==
    ASSUME NEW w, NEW a \in Listed(w)
    PROVE  a \in DOMAIN w
BY DEF Listed

LEMMA TailTold ==
    ASSUME NEW q \in Seq(Event), q # <<>>, NEW w, NEW a, Told(q, w, a)
    PROVE  Told(Tail(q), w, a)
<1>1. \A K, e : Latest(Tail(q), K, e) => Latest(q, K, e)
  BY TailLatest
<1> QED
  BY <1>1, Zenon DEF Told

(* No close of an open window waits, unless a refresh follows. *)
LEMMA OpenNotClosed ==
    ASSUME NEW q \in Seq(Event), NEW w, NEW a \in DOMAIN w, Told(q, w, a),
           Lacks(q, Refreshing)
    PROVE  Lacks(q, Closes(a))
<1> SUFFICES ASSUME ~Lacks(q, Closes(a)) PROVE FALSE
  OBVIOUS
<1>1. PICK e \in Closes(a) : Latest(q, Closes(a), e)
  BY LatestExists
<1>2. e \notin Refreshing
  BY <1>1 DEF Latest, Lacks
<1>3. e = CloseEv(a)
  BY <1>1, <1>2 DEF Closes
<1> QED
  BY <1>1, <1>3 DEF Told

(* A snapshot is right but for the events it has overtaken, and these put   *)
(* back what it already says.                                              *)
LEMMA LoadedTracks ==
    ASSUME NEW q \in Seq(Event), NEW w, NEW a, NEW e, Told(q, w, a),
           Lacks(q, Refreshing), Loaded(w, e)
    PROVE  Tracks(q, w, e, a)
<1>1. a \in Listed(w) => Lacks(q, Closes(a))
  BY OpenNotClosed, ListedOpen
<1>2. a \in Listed(w) =>
        /\ e.clients[a].workspace_id = w[a].ws
        /\ e.clients[a].is_floating = w[a].floating
        /\ e.clients[a].is_fullscreen = w[a].fullscreen
  BY DEF Loaded
<1>3. DOMAIN e.clients = Listed(w)
  BY DEF Loaded
<1> QED
  BY <1>1, <1>2, <1>3, Zenon DEF Tracks

LEMMA SameTracks ==
    ASSUME NEW d, NEW e, SameEntries(d, e), NEW q, NEW w, NEW a, Tracks(q, w, d, a)
    PROVE  Tracks(q, w, e, a)
<1>1. DOMAIN e.clients = DOMAIN d.clients
  BY DEF SameEntries
<1>2. a \in DOMAIN d.clients =>
        /\ e.clients[a].workspace_id = d.clients[a].workspace_id
        /\ e.clients[a].is_floating = d.clients[a].is_floating
        /\ e.clients[a].is_fullscreen = d.clients[a].is_fullscreen
  BY DEF SameEntries
<1>3. a \in Listed(w) => a \in DOMAIN d.clients
  BY DEF Tracks
<1> QED
  BY <1>1, <1>2, <1>3, Zenon DEF Tracks

LEMMA SameLoaded ==
    ASSUME NEW d, NEW e, SameEntries(d, e), NEW w, Loaded(w, d)
    PROVE  Loaded(w, e)
BY Zenon DEF Loaded, SameEntries

(* Handling the first event. *)
LEMMA HandleTracks ==
    ASSUME NEW q \in Seq(Event), q # <<>>, ~NeedsRefresh(Head(q)), NEW w,
           NEW d \in Dock, NEW a \in Addr, Told(q, w, a), Tracks(q, w, d, a)
    PROVE  Tracks(Tail(q), w, handle_event(d, Head(q)), a)
<1> DEFINE ev == Head(q)
           e == handle_event(d, ev)
<1>0. ev \in Event
  OBVIOUS
<1>1. Handled(d, e, ev, a)
  BY <1>0, HandleEffect
<1>2. \A K : Lacks(q, K) <=> ev \notin K /\ Lacks(Tail(q), K)
  BY TailLacks
<1>3. \A K : ev \in K /\ Lacks(Tail(q), K) => Latest(q, K, ev)
  BY HeadLatest
<1>4. ~NeedsRefresh(ev)
  OBVIOUS
<1> HIDE DEF ev, e
<1>5. /\ ev \in Closes(a) <=> ev.type = "closewindow" /\ ev.addr = a
      /\ ev \in Moves(a) <=> ev.type = "movewindowv2" /\ ev.addr = a
      /\ ev \in Floats(a) <=> ev.type = "changefloatingmode" /\ ev.addr = a
  BY <1>0, <1>4, ConcernsByFields
<1>6. a \in Listed(w) <=> a \in DOMAIN e.clients /\ Lacks(Tail(q), Closes(a))
  BY <1>1, <1>2, <1>5, Zenon DEF Handled, Tracks
<1>7. ASSUME a \in Listed(w), Lacks(Tail(q), Moves(a))
      PROVE  e.clients[a].workspace_id = w[a].ws
  <2>1. a \in DOMAIN e.clients /\ a \in DOMAIN w
    BY <1>6, <1>7, ListedOpen
  <2>2. CASE ev \in Moves(a)
    <3>1. PICK s \in Workspace : ev = MoveEv(a, s)
      BY <1>0, <1>4, <2>2, RefreshingEvents DEF Moves
    <3>2. w[a].ws = s
      BY <1>3, <1>7, <2>1, <2>2, <3>1, Zenon DEF Told
    <3>3. ev.ws = s /\ ev.type = "movewindowv2" /\ ev.addr = a
      BY <3>1, EventFields
    <3> QED
      BY <1>1, <2>1, <3>2, <3>3 DEF Handled
  <2>3. CASE ev \notin Moves(a)
    <3>1. Lacks(q, Moves(a))
      BY <1>2, <1>7, <2>3, Zenon
    <3>2. d.clients[a].workspace_id = w[a].ws
      BY <1>7, <3>1, Zenon DEF Tracks
    <3>3. ~(ev.type = "movewindowv2" /\ ev.addr = a)
      BY <1>5, <2>3
    <3>4. e.clients[a].workspace_id = d.clients[a].workspace_id
      BY <1>1, <2>1, <3>3, Zenon DEF Handled
    <3> QED
      BY <3>2, <3>4, Zenon
  <2> QED
    BY <2>2, <2>3
<1>8. ASSUME a \in Listed(w), Lacks(Tail(q), Floats(a))
      PROVE  e.clients[a].is_floating = w[a].floating
  <2>1. a \in DOMAIN e.clients /\ a \in DOMAIN w
    BY <1>6, <1>8, ListedOpen
  <2>2. CASE ev \in Floats(a)
    <3>1. PICK b \in BOOLEAN : ev = FloatEv(a, b)
      BY <1>0, <1>4, <2>2, RefreshingEvents DEF Floats
    <3>2. w[a].floating = b
      BY <1>3, <1>8, <2>1, <2>2, <3>1, Zenon DEF Told
    <3>3. ev.floating = b /\ ev.type = "changefloatingmode" /\ ev.addr = a
      BY <3>1, EventFields
    <3> QED
      BY <1>1, <2>1, <3>2, <3>3, Zenon DEF Handled
  <2>3. CASE ev \notin Floats(a)
    <3>1. Lacks(q, Floats(a))
      BY <1>2, <1>8, <2>3, Zenon
    <3>2. d.clients[a].is_floating = w[a].floating
      BY <1>8, <3>1, Zenon DEF Tracks
    <3>3. ~(ev.type = "changefloatingmode" /\ ev.addr = a)
      BY <1>5, <2>3
    <3>4. e.clients[a].is_floating = d.clients[a].is_floating
      BY <1>1, <2>1, <3>3, Zenon DEF Handled
    <3> QED
      BY <3>2, <3>4, Zenon
  <2> QED
    BY <2>2, <2>3
<1>9. a \in Listed(w) => e.clients[a].is_fullscreen = w[a].fullscreen
  BY <1>1, <1>6, Zenon DEF Handled, Tracks
<1>10. Tracks(Tail(q), w, e, a)
  BY <1>6, <1>7, <1>8, <1>9, Zenon DEF Tracks
<1> QED
  BY <1>10 DEF ev, e

-----------------------------------------------------------------------------
(* What the compositor says of the window at an address. *)

SameWindow(w, v, a) ==
    /\ a \in DOMAIN v <=> a \in DOMAIN w
    /\ a \in DOMAIN w => v[a] = w[a]

(* The event ev says what has become of the window at a, from the windows w *)
(* to the windows v.                                                       *)
Announces(w, v, ev, a) ==
    \/ ev \in Refreshing
    \/ SameWindow(w, v, a) /\ ev \notin Closes(a) \cup Moves(a) \cup Floats(a)
    \/ ev = CloseEv(a) /\ a \notin DOMAIN v
    \/ /\ a \in DOMAIN w /\ a \in DOMAIN v
       /\ v[a].fullscreen = w[a].fullscreen
       /\ \/ /\ \E s \in Workspace : ev = MoveEv(a, s) /\ v[a].ws = s
             /\ v[a].floating = w[a].floating
          \/ /\ \E b \in BOOLEAN : ev = FloatEv(a, b) /\ v[a].floating = b
             /\ v[a].ws = w[a].ws

(* The window goes to, or comes from, a special workspace. *)
Crosses(w, v, a) ==
    a \in DOMAIN w /\ a \in DOMAIN v /\ (w[a].ws < 0) # (v[a].ws < 0)

(* What an event of each kind is to each of the three sets. *)
LEMMA KindsApart ==
    ASSUME NEW a \in Addr
    PROVE  /\ CloseEv(a) \in Closes(a) /\ CloseEv(a) \notin Moves(a) \cup Floats(a)
           /\ \A s \in Workspace : /\ MoveEv(a, s) \in Moves(a)
                                   /\ MoveEv(a, s) \notin Closes(a) \cup Floats(a)
           /\ \A b \in BOOLEAN : /\ FloatEv(a, b) \in Floats(a)
                                 /\ FloatEv(a, b) \notin Closes(a) \cup Moves(a)
           /\ \A ev \in Refreshing : ev \in Closes(a) /\ ev \in Moves(a) /\ ev \in Floats(a)
           /\ \A s \in Workspace : MoveEv(a, s) \notin Refreshing
           /\ \A b \in BOOLEAN : FloatEv(a, b) \notin Refreshing
           /\ CloseEv(a) \notin Refreshing
<1>1. Refreshing \subseteq Event
  BY EventType DEF Refreshing
<1>2. /\ CloseEv(a) \in Closes(a)
      /\ \A s \in Workspace : MoveEv(a, s) \in Moves(a)
      /\ \A b \in BOOLEAN : FloatEv(a, b) \in Floats(a)
      /\ \A ev \in Refreshing : ev \in Closes(a) /\ ev \in Moves(a) /\ ev \in Floats(a)
  BY DEF Closes, Moves, Floats
<1>3. \A ev \in Refreshing : ev.type \in {"openwindow", "fullscreen", "configreloaded"}
  BY EventFields DEF Refreshing
<1>4. CloseEv(a) \notin Refreshing
  BY <1>3, EventFields
<1>5. ASSUME NEW s \in Workspace
      PROVE  MoveEv(a, s) \notin Refreshing
  BY <1>3, EventFields
<1>6. ASSUME NEW b \in BOOLEAN
      PROVE  FloatEv(a, b) \notin Refreshing
  BY <1>3, EventFields
<1>7. CloseEv(a) \notin Moves(a) /\ CloseEv(a) \notin Floats(a)
  BY <1>4, EventFields DEF Moves, Floats
<1>8. ASSUME NEW s \in Workspace
      PROVE  MoveEv(a, s) \notin Closes(a) /\ MoveEv(a, s) \notin Floats(a)
  BY <1>5, EventFields DEF Closes, Floats
<1>9. ASSUME NEW b \in BOOLEAN
      PROVE  FloatEv(a, b) \notin Closes(a) /\ FloatEv(a, b) \notin Moves(a)
  BY <1>6, EventFields DEF Closes, Moves
<1> QED
  BY <1>2, <1>4, <1>5, <1>6, <1>7, <1>8, <1>9, Zenon

LEMMA EventInjective ==
    ASSUME NEW a
    PROVE  /\ \A s, t : MoveEv(a, s) = MoveEv(a, t) => s = t
           /\ \A b, c : FloatEv(a, b) = FloatEv(a, c) => b = c
BY EventFields

LEMMA AnnounceTold ==
    ASSUME NEW q \in Seq(Event), NEW ev \in Event, NEW a \in Addr, NEW w, NEW v,
           Told(q, w, a), Announces(w, v, ev, a)
    PROVE  Told(Append(q, ev), v, a)
<1> DEFINE p == Append(q, ev)
<1>1. \A K, e : Latest(p, K, e) <=> IF ev \in K THEN e = ev ELSE Latest(q, K, e)
  BY AppendQueue
<1> HIDE DEF p
<1>2. CASE ev \in Refreshing
  <2>1. /\ ~Latest(p, Closes(a), CloseEv(a))
        /\ \A s \in Workspace : ~Latest(p, Moves(a), MoveEv(a, s))
        /\ \A b \in BOOLEAN : ~Latest(p, Floats(a), FloatEv(a, b))
    BY <1>1, <1>2, KindsApart, Zenon
  <2> QED
    BY <2>1, Zenon DEF Told, p
<1>3. CASE SameWindow(w, v, a) /\ ev \notin Closes(a) \cup Moves(a) \cup Floats(a)
  <2>1. /\ Latest(p, Closes(a), CloseEv(a)) => Latest(q, Closes(a), CloseEv(a))
        /\ \A s : Latest(p, Moves(a), MoveEv(a, s)) => Latest(q, Moves(a), MoveEv(a, s))
        /\ \A b : Latest(p, Floats(a), FloatEv(a, b)) => Latest(q, Floats(a), FloatEv(a, b))
    BY <1>1, <1>3, Zenon
  <2> QED
    BY <1>3, <2>1, Zenon DEF Told, SameWindow, p
<1>4. CASE ev = CloseEv(a) /\ a \notin DOMAIN v
  BY <1>4, Zenon DEF Told, p
<1>5. ASSUME a \in DOMAIN w, a \in DOMAIN v, NEW s \in Workspace, ev = MoveEv(a, s),
             v[a].ws = s, v[a].floating = w[a].floating
      PROVE  Told(p, v, a)
  <2>1. ev \in Moves(a) /\ ev \notin Closes(a) /\ ev \notin Floats(a)
    BY <1>5, KindsApart
  <2>2. ~Latest(p, Closes(a), CloseEv(a))
    BY <1>1, <1>5, <2>1, Zenon DEF Told
  <2>3. ASSUME NEW t \in Workspace, Latest(p, Moves(a), MoveEv(a, t))
        PROVE  v[a].ws = t
    BY <1>1, <1>5, <2>1, <2>3, EventInjective, Zenon
  <2>4. ASSUME NEW b \in BOOLEAN, Latest(p, Floats(a), FloatEv(a, b))
        PROVE  v[a].floating = b
    <3>1. Latest(q, Floats(a), FloatEv(a, b))
      BY <1>1, <2>1, <2>4, Zenon
    <3>2. w[a].floating = b
      BY <1>5, <3>1, Zenon DEF Told
    <3> QED
      BY <1>5, <3>2, Zenon
  <2> QED
    BY <2>2, <2>3, <2>4, Zenon DEF Told
<1>6. ASSUME a \in DOMAIN w, a \in DOMAIN v, NEW b \in BOOLEAN, ev = FloatEv(a, b),
             v[a].floating = b, v[a].ws = w[a].ws
      PROVE  Told(p, v, a)
  <2>1. ev \in Floats(a) /\ ev \notin Closes(a) /\ ev \notin Moves(a)
    BY <1>6, KindsApart
  <2>2. ~Latest(p, Closes(a), CloseEv(a))
    BY <1>1, <1>6, <2>1, Zenon DEF Told
  <2>3. ASSUME NEW c \in BOOLEAN, Latest(p, Floats(a), FloatEv(a, c))
        PROVE  v[a].floating = c
    BY <1>1, <1>6, <2>1, <2>3, EventInjective, Zenon
  <2>4. ASSUME NEW t \in Workspace, Latest(p, Moves(a), MoveEv(a, t))
        PROVE  v[a].ws = t
    <3>1. Latest(q, Moves(a), MoveEv(a, t))
      BY <1>1, <2>1, <2>4, Zenon
    <3>2. w[a].ws = t
      BY <1>6, <3>1, Zenon DEF Told
    <3> QED
      BY <1>6, <3>2, Zenon
  <2> QED
    BY <2>2, <2>3, <2>4, Zenon DEF Told
<1>7. Told(p, v, a)
  BY <1>2, <1>3, <1>4, <1>5, <1>6, Zenon DEF Announces, p
<1> QED
  BY <1>7 DEF p

LEMMA WindowWorkspace ==
    ASSUME NEW w \in Windows, NEW a \in DOMAIN w
    PROVE  w[a].ws \in Workspace /\ w[a].ws \in Int
<1>1. w \in [DOMAIN w -> Window]
  BY WindowsType
<1> QED
  BY <1>1, WorkspaceAssumption DEF Window

LEMMA AnnounceTracks ==
    ASSUME NEW q \in Seq(Event), NEW ev \in Event, NEW a \in Addr,
           NEW w \in Windows, NEW v \in Windows,
           NEW d, Tracks(q, w, d, a), Announces(w, v, ev, a), ~Crosses(w, v, a),
           Lacks(Append(q, ev), Refreshing)
    PROVE  Tracks(Append(q, ev), v, d, a)
<1> DEFINE p == Append(q, ev)
<1>1. \A K : Lacks(p, K) <=> Lacks(q, K) /\ ev \notin K
  BY AppendQueue
<1>2. ev \notin Refreshing
  BY <1>1
<1> SUFFICES Tracks(p, v, d, a)
  OBVIOUS
<1> HIDE DEF p
<1>3. CASE SameWindow(w, v, a) /\ ev \notin Closes(a) \cup Moves(a) \cup Floats(a)
  <2>1. a \in Listed(v) <=> a \in Listed(w)
    BY <1>3 DEF SameWindow, Listed
  <2>2. /\ Lacks(p, Closes(a)) <=> Lacks(q, Closes(a))
        /\ Lacks(p, Moves(a)) <=> Lacks(q, Moves(a))
        /\ Lacks(p, Floats(a)) <=> Lacks(q, Floats(a))
    BY <1>1, <1>3, Zenon
  <2>3. a \in Listed(w) => v[a] = w[a]
    BY <1>3, ListedOpen DEF SameWindow
  <2> QED
    BY <2>1, <2>2, <2>3, Zenon DEF Tracks
<1>4. CASE ev = CloseEv(a) /\ a \notin DOMAIN v
  <2>1. a \notin Listed(v)
    BY <1>4, ListedOpen
  <2>2. ~Lacks(p, Closes(a))
    BY <1>1, <1>4, KindsApart
  <2> QED
    BY <2>1, <2>2, Zenon DEF Tracks
<1>5. CASE a \in DOMAIN w /\ a \in DOMAIN v /\ (a \in Listed(v) <=> a \in Listed(w))
           /\ v[a].fullscreen = w[a].fullscreen
  <2>1. ASSUME NEW s \in Workspace, ev = MoveEv(a, s), v[a].floating = w[a].floating
        PROVE  Tracks(p, v, d, a)
    <3>1. ev \in Moves(a) /\ ev \notin Closes(a) /\ ev \notin Floats(a)
      BY <2>1, KindsApart
    <3>2. /\ Lacks(p, Closes(a)) <=> Lacks(q, Closes(a))
          /\ Lacks(p, Floats(a)) <=> Lacks(q, Floats(a))
          /\ ~Lacks(p, Moves(a))
      BY <1>1, <3>1, Zenon
    <3> QED
      BY <1>5, <2>1, <3>2, Zenon DEF Tracks
  <2>2. ASSUME NEW b \in BOOLEAN, ev = FloatEv(a, b), v[a].ws = w[a].ws
        PROVE  Tracks(p, v, d, a)
    <3>1. ev \in Floats(a) /\ ev \notin Closes(a) /\ ev \notin Moves(a)
      BY <2>2, KindsApart
    <3>2. /\ Lacks(p, Closes(a)) <=> Lacks(q, Closes(a))
          /\ Lacks(p, Moves(a)) <=> Lacks(q, Moves(a))
          /\ ~Lacks(p, Floats(a))
      BY <1>1, <3>1, Zenon
    <3> QED
      BY <1>5, <2>2, <3>2, Zenon DEF Tracks
  <2> QED
    BY <1>2, <1>3, <1>4, <2>1, <2>2, Zenon DEF Announces
<1>6. ASSUME a \in DOMAIN w, a \in DOMAIN v
      PROVE  a \in Listed(v) <=> a \in Listed(w)
  <2>1. w[a].ws \in Int /\ v[a].ws \in Int
    BY <1>6, WindowWorkspace
  <2>2. w[a].ws >= 0 <=> v[a].ws >= 0
    BY <1>6, <2>1 DEF Crosses
  <2> QED
    BY <1>6, <2>2 DEF Listed
<1> QED
  BY <1>2, <1>3, <1>4, <1>5, <1>6, Zenon DEF Announces

-----------------------------------------------------------------------------

LEMMA NoConcern ==
    ASSUME NEW ev \in Event, NEW a \in Addr, ~NeedsRefresh(ev),
           \/ ev.type \notin {"closewindow", "movewindowv2", "changefloatingmode"}
           \/ ev.addr # a
    PROVE  ev \notin Closes(a) \cup Moves(a) \cup Floats(a)
BY ConcernsByFields

(* An event about no window. *)
LEMMA NoWindowAnnounced ==
    ASSUME NEW w, NEW ev \in Event, NEW a \in Addr, ~NeedsRefresh(ev),
           ev.type \notin {"closewindow", "movewindowv2", "changefloatingmode"}
    PROVE  Announces(w, w, ev, a)
<1>1. SameWindow(w, w, a)
  BY DEF SameWindow
<1> QED
  BY <1>1, NoConcern DEF Announces

(* An event that names another window. *)
LEMMA OtherWindowAnnounced ==
    ASSUME NEW w, NEW v, NEW ev \in Event, NEW a \in Addr, ~NeedsRefresh(ev),
           ev.addr # a, SameWindow(w, v, a)
    PROVE  Announces(w, v, ev, a)
BY NoConcern DEF Announces

(* What the compositor has told the daemon when it has taken a step: an      *)
(* event, and another one if the focus has gone elsewhere with it.         *)
Tells(ev) ==
    /\ ev \in Event
    /\ \A a \in Addr : Announces(win, win', ev, a)
    /\ \/ /\ sock' = Append(sock, ev)
          /\ IF ev \in Focuses THEN ev = ActiveEv(focus') ELSE focus' = focus
       \/ sock' = Append(Append(sock, ev), ActiveEv(focus'))

LEMMA AppendAsConcat ==
    ASSUME NEW q \in Seq(Event), NEW e \in Event, NEW f \in Event
    PROVE  q \o <<e>> = Append(q, e) /\ q \o <<e, f>> = Append(Append(q, e), f)
OBVIOUS

LEMMA PostSays ==
    ASSUME HyprTypeOK, subscribed
    PROVE  /\ \A e \in Event : Post(<<e>>) => sock' = Append(sock, e)
           /\ \A e, f \in Event : Post(<<e, f>>) => sock' = Append(Append(sock, e), f)
BY AppendAsConcat DEF Post, HyprTypeOK

LEMMA CompositorTells ==
    ASSUME HyprTypeOK, CompositorStep, subscribed
    PROVE  \E ev : Tells(ev)
<1>0. win \in [DOMAIN win -> Window] /\ DOMAIN win \in SUBSET Addr
  BY WindowsType DEF HyprTypeOK
<1>1. ASSUME NEW a \in Addr, NEW w \in Workspace, OpenWindow(a, w)
      PROVE  Tells(OpenEv)
  <2>1. OpenEv \in Event /\ ActiveEv(a) \in Event /\ OpenEv \in Refreshing
    BY EventType DEF Refreshing
  <2>2. sock' = Append(Append(sock, OpenEv), ActiveEv(a)) /\ focus' = a
    BY <1>1, <2>1, PostSays DEF OpenWindow
  <2> QED
    BY <2>1, <2>2, Zenon DEF Tells, Announces
<1>2. ASSUME NEW a \in Addr, CloseWindow(a)
      PROVE  Tells(CloseEv(a))
  <2>1. CloseEv(a) \in Event /\ CloseEv(a).type = "closewindow" /\ CloseEv(a).addr = a
    BY EventType, EventFields
  <2>2. ~NeedsRefresh(CloseEv(a))
    BY <2>1 DEF NeedsRefresh
  <2>3. a \notin DOMAIN win' /\ \A b \in Addr \ {a} : SameWindow(win, win', b)
    BY <1>0, <1>2 DEF CloseWindow, SameWindow
  <2>4. ASSUME NEW b \in Addr
        PROVE  Announces(win, win', CloseEv(a), b)
    <3>1. CASE b = a
      BY <2>3, <3>1, Zenon DEF Announces
    <3>2. CASE b # a
      BY <2>1, <2>2, <2>3, <3>2, OtherWindowAnnounced
    <3> QED
      BY <3>1, <3>2
  <2>5. CASE focus # a /\ Post(<<CloseEv(a)>>) /\ UNCHANGED focus
    <3>1. sock' = Append(sock, CloseEv(a)) /\ focus' = focus
      BY <2>1, <2>5, PostSays
    <3>2. CloseEv(a) \notin Focuses
      BY <2>1, EventFields DEF Focuses
    <3> QED
      BY <2>1, <2>4, <3>1, <3>2, Zenon DEF Tells
  <2>6. CASE /\ focus' \in (DOMAIN win \ {a}) \cup {NoAddr}
             /\ Post(<<CloseEv(a), ActiveEv(focus')>>)
    <3>1. ActiveEv(focus') \in Event
      BY <1>0, <2>6, EventType
    <3>2. sock' = Append(Append(sock, CloseEv(a)), ActiveEv(focus'))
      BY <2>1, <2>6, <3>1, PostSays
    <3> QED
      BY <2>1, <2>4, <3>2, Zenon DEF Tells
  <2> QED
    BY <1>2, <2>5, <2>6 DEF CloseWindow
<1>3. ASSUME NEW a \in Addr \cup {NoAddr}, FocusWindow(a)
      PROVE  Tells(ActiveEv(a))
  <2>1. ActiveEv(a) \in Event /\ ActiveEv(a).type = "activewindowv2"
    BY EventType, EventFields
  <2>2. ~NeedsRefresh(ActiveEv(a))
    BY <2>1 DEF NeedsRefresh
  <2>3. sock' = Append(sock, ActiveEv(a)) /\ focus' = a /\ win' = win
    BY <1>3, <2>1, PostSays DEF FocusWindow
  <2>4. \A b \in Addr : Announces(win, win', ActiveEv(a), b)
    BY <2>1, <2>2, <2>3, NoWindowAnnounced
  <2>5. ActiveEv(a) \in Focuses
    BY DEF Focuses
  <2> QED
    BY <2>1, <2>3, <2>4, <2>5, Zenon DEF Tells
<1>4. ASSUME NEW a \in Addr, NEW w \in Workspace, MoveWindow(a, w)
      PROVE  Tells(MoveEv(a, w))
  <2>1. /\ MoveEv(a, w) \in Event /\ MoveEv(a, w).type = "movewindowv2"
        /\ MoveEv(a, w).addr = a
    BY EventType, EventFields
  <2>2. ~NeedsRefresh(MoveEv(a, w))
    BY <2>1 DEF NeedsRefresh
  <2>3. /\ a \in DOMAIN win /\ DOMAIN win' = DOMAIN win
        /\ win'[a] = [win[a] EXCEPT !.ws = w]
        /\ \A b \in Addr \ {a} : SameWindow(win, win', b)
        /\ focus' = focus
    BY <1>0, <1>4 DEF MoveWindow, SameWindow
  <2>4. /\ win'[a].ws = w /\ win'[a].fullscreen = win[a].fullscreen
        /\ win'[a].floating = win[a].floating
    BY <1>0, <2>3 DEF Window
  <2>5. ASSUME NEW b \in Addr
        PROVE  Announces(win, win', MoveEv(a, w), b)
    <3>1. CASE b = a
      BY <2>3, <2>4, <3>1, Zenon DEF Announces
    <3>2. CASE b # a
      BY <2>1, <2>2, <2>3, <3>2, OtherWindowAnnounced
    <3> QED
      BY <3>1, <3>2
  <2>6. sock' = Append(sock, MoveEv(a, w))
    BY <1>4, <2>1, PostSays DEF MoveWindow
  <2>7. MoveEv(a, w) \notin Focuses
    BY <2>1, EventFields DEF Focuses
  <2> QED
    BY <2>1, <2>3, <2>5, <2>6, <2>7, Zenon DEF Tells
<1>5. ASSUME NEW a \in Addr, ToggleFloating(a)
      PROVE  \E ev : Tells(ev)
  <2> DEFINE x == win'[a].floating
  <2>1. /\ a \in DOMAIN win /\ DOMAIN win' = DOMAIN win
        /\ win'[a] = [win[a] EXCEPT !.floating = ~@]
        /\ \A b \in Addr \ {a} : SameWindow(win, win', b)
        /\ focus' = focus
    BY <1>0, <1>5 DEF ToggleFloating, SameWindow
  <2>2. /\ x \in BOOLEAN /\ win'[a].fullscreen = win[a].fullscreen
        /\ win'[a].ws = win[a].ws
    BY <1>0, <2>1 DEF Window
  <2>3. Post(<<FloatEv(a, x)>>)
    BY <1>5 DEF ToggleFloating
  <2>4. win'[a].floating = x
    OBVIOUS
  <2> HIDE DEF x
  <2>5. /\ FloatEv(a, x) \in Event /\ FloatEv(a, x).type = "changefloatingmode"
        /\ FloatEv(a, x).addr = a
    BY <2>2, EventType, EventFields
  <2>6. ~NeedsRefresh(FloatEv(a, x))
    BY <2>5 DEF NeedsRefresh
  <2>7. ASSUME NEW b \in Addr
        PROVE  Announces(win, win', FloatEv(a, x), b)
    <3>1. CASE b = a
      BY <2>1, <2>2, <2>4, <3>1, Zenon DEF Announces
    <3>2. CASE b # a
      BY <2>1, <2>5, <2>6, <3>2, OtherWindowAnnounced
    <3> QED
      BY <3>1, <3>2
  <2>8. sock' = Append(sock, FloatEv(a, x))
    BY <2>3, <2>5, PostSays
  <2>9. FloatEv(a, x) \notin Focuses
    BY <2>5, EventFields DEF Focuses
  <2> QED
    BY <2>1, <2>5, <2>7, <2>8, <2>9, Zenon DEF Tells
<1>6. ASSUME NEW a \in Addr, ToggleFullscreen(a)
      PROVE  Tells(FullscreenEv)
  <2>1. /\ FullscreenEv \in Event /\ FullscreenEv \in Refreshing
        /\ FullscreenEv \notin Focuses
    BY EventType, EventFields DEF Refreshing, Focuses
  <2>2. sock' = Append(sock, FullscreenEv) /\ focus' = focus
    BY <1>6, <2>1, PostSays DEF ToggleFullscreen
  <2> QED
    BY <2>1, <2>2, Zenon DEF Tells, Announces
<1>7. ASSUME NEW ev \in Event, ev.type \in {"workspacev2", "focusedmon", "other"},
             Post(<<ev>>), win' = win, focus' = focus
      PROVE  Tells(ev)
  <2>1. ~NeedsRefresh(ev) /\ ev \notin Focuses
    BY <1>7, EventFields DEF NeedsRefresh, Focuses
  <2>2. \A b \in Addr : Announces(win, win', ev, b)
    BY <1>7, <2>1, NoWindowAnnounced
  <2>3. sock' = Append(sock, ev)
    BY <1>7, PostSays
  <2> QED
    BY <1>7, <2>1, <2>2, <2>3, Zenon DEF Tells
<1>8. ASSUME NEW w \in Workspace, SwitchWorkspace(w)
      PROVE  Tells(WorkspaceEv(w))
  BY <1>7, <1>8, EventType, EventFields DEF SwitchWorkspace
<1>9. ASSUME NEW m \in Monitor, FocusMonitor(m)
      PROVE  Tells(MonitorEv(m))
  BY <1>7, <1>9, EventType, EventFields DEF FocusMonitor
<1>10. ASSUME Announce(OtherEv)
       PROVE  Tells(OtherEv)
  BY <1>7, <1>10, EventType, EventFields DEF Announce
<1>11. ASSUME Announce(ReloadedEv)
       PROVE  Tells(ReloadedEv)
  <2>1. /\ ReloadedEv \in Event /\ ReloadedEv \in Refreshing
        /\ ReloadedEv \notin Focuses
    BY EventType, EventFields DEF Refreshing, Focuses
  <2>2. sock' = Append(sock, ReloadedEv) /\ focus' = focus
    BY <1>11, <2>1, PostSays DEF Announce
  <2> QED
    BY <2>1, <2>2, Zenon DEF Tells, Announces
<1> HIDE DEF Tells
<1>12. Normal \subseteq Workspace
  BY DEF Normal
<1> QED
  BY <1>1, <1>2, <1>3, <1>4, <1>5, <1>6, <1>8, <1>9, <1>10, <1>11, <1>12
     DEF CompositorStep

(* To a daemon that is not subscribed it says nothing. *)
LEMMA CompositorSilent ==
    ASSUME CompositorStep, ~subscribed
    PROVE  UNCHANGED <<sock, subscribed>>
BY DEF CompositorStep, OpenWindow, CloseWindow, FocusWindow, MoveWindow,
   ToggleFloating, ToggleFullscreen, SwitchWorkspace, FocusMonitor, Announce, Post

LEMMA CompositorKeepsSubscriber ==
    ASSUME CompositorStep
    PROVE  UNCHANGED subscribed
BY DEF CompositorStep, OpenWindow, CloseWindow, FocusWindow, MoveWindow,
   ToggleFloating, ToggleFullscreen, SwitchWorkspace, FocusMonitor, Announce, Post

-----------------------------------------------------------------------------
(* The queue in each step of the daemon. *)

LEMMA PendingType ==
    ASSUME TypeOK
    PROVE  pending \in Seq(Event)
BY DEF TypeOK, HyprTypeOK, pending

LEMMA InitQueue == Init => QueueInv /\ pending = <<>>
BY DEF Init, HyprInit, QueueInv, pending, Starting, RefreshStages

LEMMA ConnectQueue ==
    ASSUME TypeOK, QueueInv, Connect, ~s_fd, batch = <<>>, UNCHANGED batch
    PROVE  /\ pending' = <<>>
           /\ focusSync' => pending = <<>>
           /\ s_fd' /\ sock' = <<>> /\ buf' = <<>> /\ batch' = <<>>
<1>1. sock = <<>>
  BY DEF QueueInv
<1>2. <<>> \o <<>> = <<>>
  OBVIOUS
<1>3. s_fd' /\ sock' = <<>> /\ buf' = <<>> /\ batch' = <<>>
  BY DEF Connect
<1>4. focusSync' => buf = <<>>
  BY DEF Connect
<1> QED
  BY <1>1, <1>2, <1>3, <1>4, Zenon DEF pending

LEMMA ReadQueue ==
    ASSUME TypeOK, QueueInv, Read
    PROVE  pending' = pending /\ QueueInv'
<1>0. batch = <<>> /\ pc = "read"
  BY DEF QueueInv, Read, RefreshStages
<1>1. CASE sock # <<>>
  <2> DEFINE lines == buf \o sock
             n == IF Len(lines) <= MaxEvents THEN Len(lines) ELSE MaxEvents
  <2>1. lines \in Seq(Event) /\ n \in 0..Len(lines)
    BY LoopAssumption DEF TypeOK, HyprTypeOK
  <2>2. /\ batch' = SubSeq(lines, 1, n)
        /\ buf' = SubSeq(lines, n + 1, Len(lines))
        /\ sock' = <<>> /\ pc' = "socket2" /\ UNCHANGED <<s_fd, back, subscribed>>
    BY <1>1 DEF Read
  <2>3. pending = lines
    BY <1>0 DEF pending, TypeOK, HyprTypeOK
  <2> HIDE DEF lines, n
  <2>4. SubSeq(lines, 1, n) \in Seq(Event) /\ SubSeq(lines, n + 1, Len(lines)) \in Seq(Event)
    BY <2>1
  <2>5. SubSeq(lines, 1, n) \o SubSeq(lines, n + 1, Len(lines)) = lines
    <3>1. /\ 1 \in 1..(Len(lines) + 1) /\ n \in 0..Len(lines) /\ Len(lines) \in Nat
          /\ n \in 1 - 1..Len(lines) /\ Len(lines) \in n..Len(lines)
      BY <2>1
    <3>2. SubSeq(lines, 1, n) \o SubSeq(lines, n + 1, Len(lines))
             = SubSeq(lines, 1, Len(lines))
      BY <2>1, <3>1, ConcatAdjacentSubSeq
    <3>3. SubSeq(lines, 1, Len(lines)) = lines
      BY <2>1, SubSeqFull
    <3> QED
      BY <3>2, <3>3
  <2>6. lines \o <<>> = lines
    BY <2>1
  <2>7. pending' = lines
    BY <2>2, <2>5, <2>6, Zenon DEF pending
  <2>8. s_fd
    BY <1>1 DEF QueueInv
  <2> QED
    BY <2>2, <2>3, <2>7, <2>8 DEF QueueInv, Starting, RefreshStages
<1>2. CASE sock = <<>>
  <2>1. /\ UNCHANGED <<batch, buf, sock, subscribed, back>>
        /\ s_fd' = FALSE /\ pc' = "reinit"
    BY <1>2 DEF Read
  <2>2. ~subscribed
    BY <1>0, <1>2 DEF QueueInv
  <2> QED
    BY <1>0, <1>2, <2>1, <2>2 DEF QueueInv, pending, Starting, RefreshStages
<1> QED
  BY <1>1, <1>2

LEMMA HandleQueue ==
    ASSUME TypeOK, QueueInv, HandleEvent
    PROVE  /\ pending # <<>> /\ Head(pending) = Head(batch)
           /\ pending' = Tail(pending)
           /\ QueueInv'
<1>1. /\ batch \in Seq(Event) /\ buf \in Seq(Event) /\ sock \in Seq(Event)
      /\ batch # <<>>
  BY DEF TypeOK, HyprTypeOK, HandleEvent
<1>2. batch' = Tail(batch) /\ UNCHANGED <<buf, sock>>
  BY DEF HandleEvent, hyprVars, socket2
<1>3. /\ batch \o buf \o sock # <<>> /\ Head(batch \o buf \o sock) = Head(batch)
      /\ Tail(batch) \o buf \o sock = Tail(batch \o buf \o sock)
  <2> DEFINE rest == buf \o sock
  <2>1. /\ rest \in Seq(Event)
        /\ batch \o buf \o sock = batch \o rest
        /\ Tail(batch) \o buf \o sock = Tail(batch) \o rest
    BY <1>1
  <2> HIDE DEF rest
  <2>2. /\ batch \o rest # <<>> /\ Head(batch \o rest) = Head(batch)
        /\ Tail(batch) \o rest = Tail(batch \o rest)
    BY <1>1, <2>1
  <2> QED
    BY <2>1, <2>2
<1>4. /\ pc = "socket2"
      /\ \/ pc' = "clients" /\ back' = "socket2"
         \/ UNCHANGED <<pc, back>>
      /\ UNCHANGED <<subscribed, s_fd>>
  BY DEF HandleEvent, hyprVars, socket2
<1>5. QueueInv'
  BY <1>2, <1>4 DEF QueueInv, Starting, RefreshStages
<1> QED
  BY <1>2, <1>3, <1>5 DEF pending

(* The other steps of the loop leave the queue as it is. *)
LEMMA LoopQueue ==
    ASSUME TypeOK, QueueInv, Poll \/ EventsDone \/ ReadCommands \/ Emit
    PROVE  pending' = pending /\ QueueInv'
<1>1. UNCHANGED <<batch, buf, sock, subscribed, s_fd, back>>
  BY DEF Poll, EventsDone, ReadCommands, Emit, hyprVars, socket2
<1>2. /\ batch = <<>>
      /\ pc' \in {"read", "stdin", "emit", "retry"}
      /\ pc' = "read" => sock # <<>> \/ ~subscribed
  BY DEF Poll, EventsDone, ReadCommands, Emit, QueueInv, RefreshStages, Ready
<1> QED
  BY <1>1, <1>2 DEF QueueInv, pending, Starting, RefreshStages

LEMMA RefreshQueue ==
    ASSUME TypeOK, QueueInv, RefreshClients \/ RefreshActive \/ RefreshMonitors
    PROVE  pending' = pending /\ QueueInv'
<1>1. UNCHANGED <<batch, buf, sock, subscribed, s_fd, back>>
  BY DEF RefreshClients, RefreshActive, RefreshMonitors, hyprVars, socket2
<1>2. pc \in RefreshStages /\ (pc' = back \/ pc' \in RefreshStages)
  BY DEF RefreshClients, RefreshActive, RefreshMonitors, Return, RefreshStages
<1>3. back \in {"subscribe", "socket2", "stdin", "emit"}
  BY DEF TypeOK
<1> QED
  BY <1>1, <1>2, <1>3 DEF QueueInv, pending, Starting, RefreshStages

LEMMA ConnectionQueue ==
    ASSUME TypeOK, QueueInv, Subscribe \/ Reinit \/ Retry
    PROVE  QueueInv' /\ batch = <<>>
<1>1. batch = <<>> /\ UNCHANGED batch
  BY DEF Subscribe, Reinit, Retry, QueueInv, RefreshStages
<1>2. CASE Subscribe
  BY <1>1, <1>2, ConnectQueue
     DEF Subscribe, NoConnect, QueueInv, Starting, RefreshStages, socket2
<1>3. CASE Reinit
  BY <1>1, <1>3, ConnectQueue
     DEF Reinit, NoConnect, QueueInv, Starting, RefreshStages, socket2
<1>4. CASE Retry
  BY <1>1, <1>4, ConnectQueue DEF Retry, QueueInv, Starting, RefreshStages, socket2
<1> QED
  BY <1>1, <1>2, <1>3, <1>4

LEMMA EnvironmentQueue ==
    ASSUME QueueInv, Hangup \/ Reopen \/ ShellExit \/ (\E c \in Command : SendCommand(c))
                     \/ UNCHANGED vars
    PROVE  /\ QueueInv' /\ pending' = pending
           /\ UNCHANGED <<win, focus, dock, pc, winSync, crossed, focusSync>>
           /\ subscribed' => subscribed
<1>1. /\ UNCHANGED <<batch, buf, sock, s_fd, back>>
      /\ UNCHANGED <<win, focus, dock, pc, winSync, crossed, focusSync>>
      /\ subscribed' => subscribed
  BY DEF Hangup, Reopen, ShellExit, SendCommand, DropSubscriber, Listen, hyprVars,
     socket2, compositor, daemon, history, vars
<1> QED
  BY <1>1 DEF QueueInv, pending, Starting, RefreshStages

LEMMA CompositorQueue ==
    ASSUME TypeOK, QueueInv, Compositor
    PROVE  /\ QueueInv'
           /\ ~subscribed => pending' = pending
           /\ \A ev \in Event : sock' = Append(sock, ev) => pending' = Append(pending, ev)
           /\ \A e, f \in Event : sock' = Append(Append(sock, e), f) =>
                                     pending' = Append(Append(pending, e), f)
<1>1. CompositorStep /\ UNCHANGED daemon
  BY DEF Compositor
<1>2. UNCHANGED <<batch, buf, s_fd, pc, back, subscribed>>
  BY <1>1, CompositorKeepsSubscriber DEF daemon
<1>3. /\ batch \in Seq(Event) /\ buf \in Seq(Event) /\ sock \in Seq(Event)
      /\ batch \o buf \in Seq(Event)
  BY DEF TypeOK, HyprTypeOK
<1>4. \A p, q \in Seq(Event), e \in Event :
         p \o Append(q, e) = Append(p \o q, e) /\ Append(q, e) \in Seq(Event)
  OBVIOUS
<1>5. ~subscribed => UNCHANGED sock
  BY <1>1, CompositorSilent
<1>6. ASSUME NEW ev \in Event, sock' = Append(sock, ev)
      PROVE  pending' = Append(pending, ev)
  BY <1>2, <1>3, <1>4, <1>6 DEF pending
<1>7. ASSUME NEW e \in Event, NEW f \in Event, sock' = Append(Append(sock, e), f)
      PROVE  pending' = Append(Append(pending, e), f)
  <2> DEFINE b == batch \o buf
  <2>1. b \in Seq(Event) /\ Append(sock, e) \in Seq(Event)
    BY <1>3, <1>4
  <2>2. pending' = b \o Append(Append(sock, e), f) /\ pending = b \o sock
    BY <1>2, <1>7 DEF pending
  <2> HIDE DEF b
  <2>3. b \o Append(Append(sock, e), f) = Append(b \o Append(sock, e), f)
    BY <1>4, <2>1, Zenon
  <2>4. b \o Append(sock, e) = Append(b \o sock, e)
    BY <1>3, <1>4, <2>1, Zenon
  <2> QED
    BY <2>2, <2>3, <2>4
<1>8. QueueInv'
  <2>1. subscribed \/ UNCHANGED sock
    BY <1>5
  <2>2. CASE UNCHANGED sock
    BY <1>2, <2>2 DEF QueueInv, Starting
  <2>3. CASE subscribed
    <3>1. PICK ev : Tells(ev)
      BY <1>1, <2>3, CompositorTells DEF TypeOK
    <3>2. focus' \in Addr \cup {NoAddr}
      BY <1>1, CompositorType DEF TypeOK, HyprTypeOK
    <3>3. ev \in Event /\ ActiveEv(focus') \in Event
      BY <3>1, <3>2, EventType DEF Tells
    <3>4. ASSUME NEW q \in Seq(Event), NEW e \in Event
          PROVE  Append(q, e) # <<>>
      <4>1. Len(Append(q, e)) = Len(q) + 1 /\ Len(q) \in Nat
        BY <3>4
      <4> QED
        BY <4>1
    <3>5. sock' # <<>>
      BY <1>3, <1>4, <3>1, <3>3, <3>4 DEF Tells
    <3> QED
      BY <1>2, <2>3, <3>5 DEF QueueInv, Starting
  <2> QED
    BY <2>1, <2>2, <2>3
<1>9. ~subscribed => pending' = pending
  BY <1>2, <1>5 DEF pending
<1> QED
  BY <1>6, <1>7, <1>8, <1>9

-----------------------------------------------------------------------------
(* The list is kept in step by every action. *)

LEMMA EmptyTold ==
    ASSUME NEW w, NEW a
    PROVE  Told(<<>>, w, a)
BY EmptyQueue DEF Told

LEMMA InitWindows == Init => WindowInv
<1> SUFFICES ASSUME Init PROVE WindowInv
  OBVIOUS
<1>1. pending = <<>> /\ winSync = FALSE
  BY InitQueue DEF Init
<1> QED
  BY <1>1, EmptyTold DEF WindowInv

(* A step that leaves the queue and the windows alone, and of the dock      *)
(* changes only what the windows do not determine.                         *)
LEMMA QuietWindows ==
    ASSUME WindowInv, UNCHANGED <<pending, win, winSync, crossed>>,
           subscribed' => subscribed, pc # "clients" \/ pc' = "clients",
           SameEntries(dock, dock')
    PROVE  WindowInv'
<1>1. subscribed' \/ winSync' => \A a \in Addr : Told(pending', win', a)
  BY DEF WindowInv
<1>2. ASSUME winSync', ~crossed', pc' # "clients", Lacks(pending', Refreshing),
             NEW a \in Addr
      PROVE  Tracks(pending', win', dock', a)
  <2>1. Tracks(pending, win, dock, a)
    BY <1>2 DEF WindowInv
  <2> QED
    BY <2>1, SameTracks
<1> QED
  BY <1>1, <1>2 DEF WindowInv

LEMMA SameAsItself ==
    ASSUME NEW d
    PROVE  SameEntries(d, d)
BY DEF SameEntries

LEMMA RefreshWindows ==
    ASSUME TypeOK, QueueInv, WindowInv,
           RefreshClients \/ RefreshActive \/ RefreshMonitors
    PROVE  WindowInv'
<1>0. /\ pending' = pending /\ pending \in Seq(Event)
      /\ UNCHANGED <<win, subscribed>>
      /\ dock \in Dock /\ win \in Windows /\ focus \in Addr \cup {NoAddr}
      /\ mon \in Monitor /\ mws[mon] \in Workspace
  BY RefreshQueue, PendingType
     DEF RefreshClients, RefreshActive, RefreshMonitors, hyprVars, socket2,
         compositor, TypeOK, HyprTypeOK
<1>1. CASE RefreshClients
  <2>1. subscribed' => \A a \in Addr : Told(pending', win', a)
    BY <1>0 DEF WindowInv
  <2>2. CASE /\ dock' = LoadClients(dock, win)
             /\ winSync' = (winSync \/ Unstale)
    <3>1. subscribed' \/ winSync' => \A a \in Addr : Told(pending', win', a)
      BY <1>0, <2>2, EmptyTold DEF WindowInv, Unstale
    <3>2. Loaded(win, dock')
      BY <1>0, <2>2, LoadClientsEntries DEF Loaded
    <3>3. ASSUME winSync', Lacks(pending', Refreshing), NEW a \in Addr
          PROVE  Tracks(pending', win', dock', a)
      BY <1>0, <3>1, <3>2, <3>3, LoadedTracks
    <3> QED
      BY <3>1, <3>3 DEF WindowInv
  <2>3. CASE winSync' = FALSE
    BY <2>1, <2>3 DEF WindowInv
  <2> QED
    BY <1>1, <2>2, <2>3 DEF RefreshClients
<1>2. CASE RefreshActive
  <2>1. /\ pc' = "monitors" /\ pc = "active" /\ UNCHANGED <<winSync, crossed>>
        /\ dock' = LoadActive(dock, focus) \/ dock' = MarkActive(dock)
    BY <1>2 DEF RefreshActive
  <2>2. SameEntries(dock, dock')
    BY <1>0, <2>1, LoadActiveEntries, MarkActiveEntries
  <2> QED
    BY <1>0, <2>1, <2>2, QuietWindows
<1>3. CASE RefreshMonitors
  <2>1. /\ pc = "monitors" /\ UNCHANGED <<winSync, crossed>>
        /\ dock' = LoadMonitors(dock, mon, mws[mon]) \/ dock' = dock
    BY <1>3 DEF RefreshMonitors, history
  <2>2. SameEntries(dock, dock')
    BY <1>0, <2>1, LoadMonitorsEntries, SameAsItself
  <2> QED
    BY <1>0, <2>1, <2>2, QuietWindows
<1> QED
  BY <1>1, <1>2, <1>3

LEMMA HandleWindows ==
    ASSUME TypeOK, QueueInv, WindowInv, HandleEvent
    PROVE  WindowInv'
<1>0. /\ pending # <<>> /\ Head(pending) = Head(batch)
      /\ pending' = Tail(pending) /\ pending \in Seq(Event)
      /\ dock \in Dock /\ Head(pending) \in Event
  BY HandleQueue, PendingType DEF TypeOK
<1>1. /\ pc = "socket2" /\ UNCHANGED <<win, subscribed, winSync, crossed>>
      /\ \/ pc' = "clients"
         \/ /\ ~NeedsRefresh(Head(batch))
            /\ dock' = handle_event(dock, Head(batch))
  BY DEF HandleEvent, hyprVars, socket2, compositor, history
<1>2. ASSUME subscribed' \/ winSync', NEW a \in Addr
      PROVE  Told(pending, win, a) /\ Told(pending', win', a)
  <2>1. Told(pending, win, a)
    BY <1>1, <1>2 DEF WindowInv
  <2>2. Told(Tail(pending), win, a)
    BY <1>0, <2>1, TailTold
  <2> QED
    BY <1>0, <1>1, <2>1, <2>2
<1>3. ASSUME winSync', ~crossed', pc' # "clients", Lacks(pending', Refreshing),
             NEW a \in Addr
      PROVE  Tracks(pending', win', dock', a)
  <2>1. ~NeedsRefresh(Head(pending)) /\ dock' = handle_event(dock, Head(pending))
    BY <1>0, <1>1, <1>3
  <2>2. Lacks(pending, Refreshing)
    BY <1>0, <1>3, <2>1, TailLacks, RefreshingEvents
  <2>3. Tracks(pending, win, dock, a)
    BY <1>1, <1>3, <2>2 DEF WindowInv
  <2>4. Told(pending, win, a)
    BY <1>2, <1>3
  <2> QED
    BY <1>0, <1>1, <2>1, <2>3, <2>4, HandleTracks
<1> QED
  BY <1>2, <1>3 DEF WindowInv

(* A new connection starts with an empty queue, and the snapshot follows.   *)
LEMMA ConnectionWindows ==
    ASSUME TypeOK, QueueInv, WindowInv, Subscribe \/ Reinit \/ Retry
    PROVE  WindowInv'
<1>0. /\ batch = <<>> /\ UNCHANGED <<batch, win, dock, winSync, crossed>>
      /\ pc # "clients"
  BY ConnectionQueue DEF Subscribe, Reinit, Retry, compositor
<1>1. \/ Connect /\ ~s_fd /\ (Subscribe \/ pc' = "clients")
      \/ UNCHANGED <<socket2, buf>>
  <2>1. Subscribe \/ Reinit => ~s_fd
    BY DEF Subscribe, Reinit, QueueInv, Starting
  <2> QED
    BY <2>1 DEF Subscribe, Reinit, Retry, NoConnect
<1>2. CASE Connect /\ ~s_fd /\ (Subscribe \/ pc' = "clients")
  <2>1. pending' = <<>>
    BY <1>0, <1>2, ConnectQueue
  <2>2. \A a \in Addr : Told(pending', win', a)
    BY <2>1, EmptyTold
  <2>3. CASE pc' = "clients"
    BY <2>2, <2>3 DEF WindowInv
  <2>4. CASE Subscribe
    <3>1. pending = <<>>
      <4>1. sock = <<>> /\ buf = <<>>
        BY <1>2, <2>4 DEF QueueInv, Subscribe, Starting
      <4> QED
        BY <1>0, <4>1 DEF pending
    <3>2. ASSUME winSync', ~crossed', Lacks(pending', Refreshing), NEW a \in Addr
          PROVE  Tracks(pending', win', dock', a)
      BY <1>0, <2>1, <3>1, <3>2 DEF WindowInv
    <3> QED
      BY <2>2, <3>2 DEF WindowInv
  <2> QED
    BY <1>2, <2>3, <2>4
<1>3. CASE UNCHANGED <<socket2, buf>>
  <2>1. pending' = pending /\ subscribed' = subscribed
    BY <1>0, <1>3 DEF pending, socket2
  <2> QED
    BY <1>0, <2>1, QuietWindows, SameAsItself
<1> QED
  BY <1>1, <1>2, <1>3

LEMMA LoopWindows ==
    ASSUME TypeOK, QueueInv, WindowInv,
           Poll \/ Read \/ EventsDone \/ ReadCommands \/ Emit
    PROVE  WindowInv'
<1>1. /\ UNCHANGED <<win, dock, winSync, crossed, subscribed>>
      /\ pc # "clients"
  BY DEF Poll, Read, EventsDone, ReadCommands, Emit, hyprVars, socket2, compositor,
     history
<1>2. pending' = pending
  BY LoopQueue, ReadQueue
<1> QED
  BY <1>1, <1>2, QuietWindows, SameAsItself

LEMMA CompositorWindows ==
    ASSUME TypeOK, QueueInv, WindowInv, Compositor
    PROVE  WindowInv'
<1>0. /\ CompositorStep /\ UNCHANGED <<subscribed, pc, dock>>
      /\ winSync' = (winSync /\ (subscribed \/ win' = win))
      /\ pending \in Seq(Event) /\ win \in Windows /\ HyprTypeOK
  BY CompositorKeepsSubscriber, PendingType
     DEF Compositor, daemon, TypeOK, HyprTypeOK
<1>1. win' \in Windows /\ focus' \in Addr \cup {NoAddr}
  BY <1>0, CompositorType DEF HyprTypeOK
<1>2. ~crossed' => ~crossed /\ \A a \in Addr : ~Crosses(win, win', a)
  BY DEF Compositor, Crosses
<1>3. CASE ~subscribed
  <2>1. pending' = pending
    BY <1>3, CompositorQueue
  <2> QED
    BY <1>0, <1>2, <1>3, <2>1 DEF WindowInv
<1>4. CASE subscribed
  <2>1. PICK ev : Tells(ev)
    BY <1>0, <1>4, CompositorTells
  <2>2. ev \in Event /\ \A a \in Addr : Announces(win, win', ev, a)
    BY <2>1 DEF Tells
  <2> DEFINE p == Append(pending, ev)
             f == ActiveEv(focus')
  <2>3. f \in Event /\ ~NeedsRefresh(f) /\ f.type = "activewindowv2"
    BY <1>1, EventType, EventFields DEF NeedsRefresh
  <2>4. pending' = p \/ pending' = Append(p, f)
    BY <2>1, <2>2, <2>3, CompositorQueue DEF Tells
  <2>5. p \in Seq(Event)
    BY <1>0, <2>2, AppendQueue
  <2>6. \A a \in Addr : Told(p, win', a)
    BY <1>0, <1>4, <2>2, AnnounceTold DEF WindowInv
  <2>7. ASSUME winSync, ~crossed', pc # "clients", Lacks(p, Refreshing), NEW a \in Addr
        PROVE  Tracks(p, win', dock, a)
    <3>1. Lacks(pending, Refreshing)
      BY <1>0, <2>2, <2>7, AppendQueue
    <3>2. Tracks(pending, win, dock, a)
      BY <1>2, <2>7, <3>1 DEF WindowInv
    <3>3. ~Crosses(win, win', a) /\ Announces(win, win', ev, a)
      BY <1>2, <2>2, <2>7
    <3> QED
      BY <1>0, <1>1, <2>2, <2>7, <3>2, <3>3, AnnounceTracks
  <2> HIDE DEF p, f
  <2>8. CASE pending' = p
    BY <1>0, <2>6, <2>7, <2>8 DEF WindowInv
  <2>9. CASE pending' = Append(p, f)
    <3>1. \A a \in Addr : Announces(win', win', f, a)
      BY <2>3, NoWindowAnnounced
    <3>2. \A a \in Addr : Told(pending', win', a)
      BY <2>3, <2>5, <2>6, <2>9, <3>1, AnnounceTold
    <3>3. ASSUME winSync', ~crossed', pc' # "clients", Lacks(pending', Refreshing),
                 NEW a \in Addr
          PROVE  Tracks(pending', win', dock', a)
      <4>1. Lacks(p, Refreshing) /\ Lacks(Append(p, f), Refreshing)
        BY <2>3, <2>5, <2>9, <3>3, AppendQueue
      <4>2. Tracks(p, win', dock, a)
        BY <1>0, <2>7, <3>3, <4>1
      <4>3. ~Crosses(win', win', a)
        BY DEF Crosses
      <4>4. Tracks(Append(p, f), win', dock, a)
        BY <1>1, <2>3, <2>5, <3>1, <4>1, <4>2, <4>3, AnnounceTracks
      <4> QED
        BY <1>0, <2>9, <4>4
    <3> QED
      BY <3>2, <3>3 DEF WindowInv
  <2> QED
    BY <2>4, <2>8, <2>9
<1> QED
  BY <1>3, <1>4

-----------------------------------------------------------------------------
(* And so is active_addr. *)

LEMMA InitFocus == Init => FocusInv
<1> SUFFICES ASSUME Init PROVE FocusInv
  OBVIOUS
<1>1. pending = <<>> /\ dock = state_init /\ focusSync = (focus = NoAddr)
  BY InitQueue DEF Init
<1>2. state_init.active_addr = NoAddr
  BY DEF state_init
<1> QED
  BY <1>1, <1>2, EmptyQueue, Zenon DEF FocusInv, FocusTold

LEMMA QuietFocus ==
    ASSUME FocusInv, UNCHANGED <<pending, focus, focusSync>>,
           subscribed' => subscribed, dock'.active_addr = dock.active_addr
    PROVE  FocusInv'
BY DEF FocusInv, FocusTold

LEMMA RefreshFocus ==
    ASSUME TypeOK, QueueInv, FocusInv,
           RefreshClients \/ RefreshActive \/ RefreshMonitors
    PROVE  FocusInv'
<1>0. /\ pending' = pending
      /\ UNCHANGED <<focus, subscribed>>
      /\ dock \in Dock /\ win \in Windows /\ focus \in Addr \cup {NoAddr}
      /\ mon \in Monitor /\ mws[mon] \in Workspace
  BY RefreshQueue
     DEF RefreshClients, RefreshActive, RefreshMonitors, hyprVars, socket2,
         compositor, TypeOK, HyprTypeOK
<1>1. CASE RefreshClients
  <2>1. /\ UNCHANGED focusSync
        /\ dock' = LoadClients(dock, win) \/ dock' = ClearClients(dock)
    BY <1>1 DEF RefreshClients
  <2>2. ClearClients(dock).active_addr = dock.active_addr
    BY <1>0 DEF ClearClients, Dock
  <2>3. dock'.active_addr = dock.active_addr
    BY <1>0, <2>1, <2>2, LoadClientsEntries
  <2> QED
    BY <1>0, <2>1, <2>3, QuietFocus
<1>2. CASE RefreshActive
  <2>1. CASE /\ dock' = LoadActive(dock, focus)
             /\ focusSync' = (focusSync \/ (focus # NoAddr /\ Unstale))
    <3>1. dock'.active_addr = IF focus = NoAddr THEN dock.active_addr ELSE focus
      BY <1>0, <2>1, LoadActiveEntries
    <3>2. ASSUME subscribed' \/ focusSync', NEW a \in Addr \cup {NoAddr},
                 Latest(pending', Focuses, ActiveEv(a))
          PROVE  a = focus'
      <4>1. pending # <<>>
        BY <1>0, <3>2, EmptyQueue
      <4>2. subscribed \/ focusSync
        BY <1>0, <2>1, <3>2, <4>1 DEF Unstale
      <4> QED
        BY <1>0, <3>2, <4>2 DEF FocusInv, FocusTold
    <3>3. ASSUME focusSync', Lacks(pending', Focuses)
          PROVE  dock'.active_addr = focus'
      BY <1>0, <2>1, <3>1, <3>3 DEF FocusInv, FocusTold
    <3> QED
      BY <3>2, <3>3 DEF FocusInv, FocusTold
  <2>2. CASE dock' = MarkActive(dock) /\ UNCHANGED focusSync
    BY <1>0, <2>2, MarkActiveEntries, QuietFocus
  <2> QED
    BY <1>2, <2>1, <2>2 DEF RefreshActive
<1>3. CASE RefreshMonitors
  <2>1. /\ UNCHANGED focusSync
        /\ dock' = LoadMonitors(dock, mon, mws[mon]) \/ dock' = dock
    BY <1>3 DEF RefreshMonitors, history
  <2>2. dock'.active_addr = dock.active_addr
    BY <1>0, <2>1, LoadMonitorsEntries
  <2> QED
    BY <1>0, <2>1, <2>2, QuietFocus
<1> QED
  BY <1>1, <1>2, <1>3

LEMMA FocusByType ==
    ASSUME NEW ev \in Event
    PROVE  ev \in Focuses <=> ev.type = "activewindowv2"
BY EventFields DEF Event, Focuses

LEMMA ActiveInjective == \A a, b : ActiveEv(a) = ActiveEv(b) => a = b
BY EventFields

LEMMA HandleFocused ==
    ASSUME NEW q \in Seq(Event), q # <<>>, NEW d \in Dock, NEW f, FocusTold(q, f),
           Lacks(q, Focuses) => d.active_addr = f, Lacks(Tail(q), Focuses)
    PROVE  handle_event(d, Head(q)).active_addr = f
<1> DEFINE ev == Head(q)
           e == handle_event(d, ev)
<1>0. ev \in Event
  OBVIOUS
<1>1. Handled(d, e, ev, NoAddr)
  BY <1>0, HandleEffect
<1>2. e.active_addr = IF ev.type = "activewindowv2" THEN ev.addr ELSE d.active_addr
  BY <1>1 DEF Handled
<1>3. ev \in Focuses => Latest(q, Focuses, ev)
  BY HeadLatest
<1>4. ev \notin Focuses => Lacks(q, Focuses)
  BY TailLacks
<1> HIDE DEF ev, e
<1>5. CASE ev \in Focuses
  <2>1. PICK a \in Addr \cup {NoAddr} : ev = ActiveEv(a)
    BY <1>5 DEF Focuses
  <2>2. a = f
    BY <1>3, <1>5, <2>1 DEF FocusTold
  <2>3. e.active_addr = a
    BY <1>2, <2>1, EventFields
  <2> QED
    BY <2>2, <2>3 DEF e, ev
<1>6. CASE ev \notin Focuses
  <2>1. ev.type # "activewindowv2"
    <3>1. ev.type = "activewindowv2" => ev \in Focuses
      BY <1>0, FocusByType
    <3> QED
      BY <1>6, <3>1
  <2>2. e.active_addr = d.active_addr
    BY <1>2, <2>1
  <2> QED
    BY <1>4, <1>6, <2>2 DEF e, ev
<1> QED
  BY <1>5, <1>6

LEMMA HandleFocus ==
    ASSUME TypeOK, QueueInv, FocusInv, HandleEvent
    PROVE  FocusInv'
<1>0. /\ pending # <<>> /\ Head(pending) = Head(batch)
      /\ pending' = Tail(pending) /\ pending \in Seq(Event)
      /\ dock \in Dock /\ Head(pending) \in Event
  BY HandleQueue, PendingType DEF TypeOK
<1>1. /\ UNCHANGED <<focus, subscribed, focusSync>>
      /\ \/ NeedsRefresh(Head(batch)) /\ dock' = dock
         \/ dock' = handle_event(dock, Head(batch))
  BY DEF HandleEvent, hyprVars, socket2, compositor, history
<1>2. ASSUME subscribed \/ focusSync
      PROVE  FocusTold(pending, focus)
  BY <1>2 DEF FocusInv, FocusTold
<1>3. ASSUME subscribed' \/ focusSync', NEW a \in Addr \cup {NoAddr},
             Latest(pending', Focuses, ActiveEv(a))
      PROVE  a = focus'
  <2>1. Latest(pending, Focuses, ActiveEv(a))
    BY <1>0, <1>3, TailLatest
  <2> QED
    BY <1>1, <1>2, <1>3, <2>1 DEF FocusTold
<1>4. ASSUME focusSync', Lacks(pending', Focuses)
      PROVE  dock'.active_addr = focus'
  <2>1. Lacks(pending, Focuses) => dock.active_addr = focus
    BY <1>1, <1>4 DEF FocusInv, FocusTold
  <2>2. CASE NeedsRefresh(Head(batch)) /\ dock' = dock
    <3>1. Head(pending) \notin Focuses
      BY <1>0, <2>2, FocusByType DEF NeedsRefresh
    <3>2. Lacks(pending, Focuses)
      BY <1>0, <1>4, <3>1, TailLacks
    <3> QED
      BY <1>1, <2>1, <2>2, <3>2
  <2>3. CASE dock' = handle_event(dock, Head(batch))
    <3>1. FocusTold(pending, focus)
      BY <1>1, <1>2, <1>4
    <3>2. Lacks(Tail(pending), Focuses)
      BY <1>0, <1>4
    <3>3. handle_event(dock, Head(pending)).active_addr = focus
      BY <1>0, <2>1, <3>1, <3>2, HandleFocused
    <3> QED
      BY <1>0, <1>1, <2>3, <3>3
  <2> QED
    BY <1>1, <2>2, <2>3
<1> QED
  BY <1>3, <1>4 DEF FocusInv, FocusTold

LEMMA ConnectionFocus ==
    ASSUME TypeOK, QueueInv, FocusInv, Subscribe \/ Reinit \/ Retry
    PROVE  FocusInv'
<1>0. batch = <<>> /\ UNCHANGED <<batch, focus, dock>>
  BY ConnectionQueue DEF Subscribe, Reinit, Retry, compositor
<1>1. \/ Connect /\ ~s_fd
      \/ UNCHANGED <<socket2, buf, focusSync>>
  <2>1. Subscribe \/ Reinit => ~s_fd
    BY DEF Subscribe, Reinit, QueueInv, Starting
  <2> QED
    BY <2>1 DEF Subscribe, Reinit, Retry, NoConnect
<1>2. CASE Connect /\ ~s_fd
  <2>1. pending' = <<>> /\ (focusSync' => pending = <<>>)
    BY <1>0, <1>2, ConnectQueue
  <2>2. focusSync' => focusSync
    BY <1>2 DEF Connect
  <2>3. focusSync' => dock'.active_addr = focus'
    BY <1>0, <2>1, <2>2, EmptyQueue DEF FocusInv, FocusTold
  <2> QED
    BY <2>1, <2>3, EmptyQueue DEF FocusInv, FocusTold
<1>3. CASE UNCHANGED <<socket2, buf, focusSync>>
  <2>1. pending' = pending /\ subscribed' = subscribed
    BY <1>0, <1>3 DEF pending, socket2
  <2> QED
    BY <1>0, <1>3, <2>1, QuietFocus
<1> QED
  BY <1>1, <1>2, <1>3

LEMMA LoopFocus ==
    ASSUME TypeOK, QueueInv, FocusInv,
           Poll \/ Read \/ EventsDone \/ ReadCommands \/ Emit
    PROVE  FocusInv'
<1>1. UNCHANGED <<focus, dock, focusSync, subscribed>>
  BY DEF Poll, Read, EventsDone, ReadCommands, Emit, hyprVars, socket2, compositor,
     history
<1>2. pending' = pending
  BY LoopQueue, ReadQueue
<1> QED
  BY <1>1, <1>2, QuietFocus

LEMMA CompositorFocus ==
    ASSUME TypeOK, QueueInv, FocusInv, Compositor
    PROVE  FocusInv'
<1>0. /\ CompositorStep /\ UNCHANGED <<subscribed, dock>>
      /\ focusSync' = IF focus' = focus THEN focusSync ELSE subscribed
      /\ pending \in Seq(Event) /\ HyprTypeOK
  BY CompositorKeepsSubscriber, PendingType DEF Compositor, daemon, TypeOK
<1>1. focus' \in Addr \cup {NoAddr}
  BY <1>0, CompositorType DEF HyprTypeOK
<1>2. CASE ~subscribed
  <2>1. pending' = pending
    BY <1>2, CompositorQueue
  <2>2. CASE focus' = focus
    BY <1>0, <2>1, <2>2, QuietFocus
  <2>3. CASE focus' # focus
    BY <1>0, <1>2, <2>3 DEF FocusInv, FocusTold
  <2> QED
    BY <2>2, <2>3
<1>3. CASE subscribed
  <2>1. PICK ev : Tells(ev)
    BY <1>0, <1>3, CompositorTells
  <2>2. ev \in Event /\ ActiveEv(focus') \in Event /\ ActiveEv(focus') \in Focuses
    BY <1>1, <2>1, EventType DEF Tells, Focuses
  <2>3. CASE sock' = Append(sock, ev) /\ ev \notin Focuses /\ focus' = focus
    <3>1. pending' = Append(pending, ev)
      BY <2>2, <2>3, CompositorQueue
    <3>2. /\ Lacks(pending', Focuses) => Lacks(pending, Focuses)
          /\ \A e : Latest(pending', Focuses, e) => Latest(pending, Focuses, e)
      BY <1>0, <2>2, <2>3, <3>1, AppendQueue
    <3> QED
      BY <1>0, <2>3, <3>2 DEF FocusInv, FocusTold
  <2>4. ASSUME NEW q \in Seq(Event), pending' = Append(q, ActiveEv(focus'))
        PROVE  FocusInv'
    <3>1. /\ ~Lacks(pending', Focuses)
          /\ \A e : Latest(pending', Focuses, e) => e = ActiveEv(focus')
      BY <2>2, <2>4, AppendQueue
    <3> QED
      BY <3>1, ActiveInjective DEF FocusInv, FocusTold
  <2>5. CASE sock' = Append(sock, ev) /\ ev = ActiveEv(focus')
    BY <1>0, <2>2, <2>4, <2>5, CompositorQueue
  <2>6. CASE sock' = Append(Append(sock, ev), ActiveEv(focus'))
    <3>1. pending' = Append(Append(pending, ev), ActiveEv(focus'))
      BY <2>2, <2>6, CompositorQueue
    <3>2. Append(pending, ev) \in Seq(Event)
      BY <1>0, <2>2, AppendQueue
    <3> QED
      BY <2>4, <3>1, <3>2
  <2> QED
    BY <2>1, <2>3, <2>5, <2>6 DEF Tells
<1> QED
  BY <1>2, <1>3

(* Together with the type, what every step keeps. *)
SettleInv == QueueInv /\ WindowInv /\ FocusInv

LEMMA StepSettle == TypeOK /\ SettleInv /\ [Next]_vars => SettleInv'
<1> SUFFICES ASSUME TypeOK, SettleInv, [Next]_vars PROVE SettleInv'
  OBVIOUS
<1> USE DEF SettleInv
<1>1. CASE RefreshClients \/ RefreshActive \/ RefreshMonitors
  BY <1>1, RefreshQueue, RefreshWindows, RefreshFocus
<1>2. CASE HandleEvent
  BY <1>2, HandleQueue, HandleWindows, HandleFocus
<1>3. CASE Subscribe \/ Reinit \/ Retry
  BY <1>3, ConnectionQueue, ConnectionWindows, ConnectionFocus
<1>4. CASE Poll \/ Read \/ EventsDone \/ ReadCommands \/ Emit
  BY <1>4, LoopQueue, ReadQueue, LoopWindows, LoopFocus
<1>5. CASE Compositor
  BY <1>5, CompositorQueue, CompositorWindows, CompositorFocus
<1>6. CASE \/ Hangup \/ Reopen \/ ShellExit \/ \E c \in Command : SendCommand(c)
           \/ UNCHANGED vars
  BY <1>6, EnvironmentQueue, QuietWindows, QuietFocus, SameAsItself
<1> QED
  BY <1>1, <1>2, <1>3, <1>4, <1>5, <1>6 DEF Next, Daemon

-----------------------------------------------------------------------------
(* What the daemon's state becomes once the queue is handled. *)

(* The states a daemon hands to its handlers. *)
Sound == {d \in Dock : Coherent(d)}

LEMMA RefreshEntries ==
    ASSUME NEW d \in Dock, TypeOK
    PROVE  LET e == state_refresh(d, win, focus, mon, mws[mon])
           IN  /\ e \in Sound /\ Loaded(win, e)
               /\ e.active_addr = IF focus = NoAddr THEN d.active_addr ELSE focus
<1> DEFINE c == LoadClients(d, win)
           f == LoadActive(c, focus)
           e == LoadMonitors(f, mon, mws[mon])
<1>0. /\ win \in Windows /\ focus \in Addr \cup {NoAddr}
      /\ mon \in Monitor /\ mws[mon] \in Workspace
  BY DEF TypeOK, HyprTypeOK
<1>1. c \in Dock /\ Loaded(win, c) /\ c.active_addr = d.active_addr
  BY <1>0, LoadClientsType, LoadClientsEntries DEF Loaded
<1> HIDE DEF c
<1>2. /\ f \in Dock /\ Coherent(f) /\ SameEntries(c, f)
      /\ f.active_addr = IF focus = NoAddr THEN c.active_addr ELSE focus
  BY <1>0, <1>1, LoadActiveCoherent, LoadActiveEntries
<1> HIDE DEF f
<1>3. /\ e \in Dock /\ Coherent(e) /\ SameEntries(f, e)
      /\ e.active_addr = f.active_addr
  BY <1>0, <1>2, LoadMonitorsCoherent, LoadMonitorsEntries
<1> HIDE DEF e
<1>4. Loaded(win, e)
  BY <1>1, <1>2, <1>3, SameLoaded
<1>5. e = state_refresh(d, win, focus, mon, mws[mon])
  BY DEF e, f, c, state_refresh
<1> QED
  BY <1>1, <1>2, <1>3, <1>4, <1>5 DEF Sound

LEMMA SettleType ==
    ASSUME TypeOK, NEW d \in Sound, NEW ev \in Event
    PROVE  Settle(d, ev) \in Sound
BY RefreshEntries, HandleEventCoherent DEF Settle, Sound

LEMMA ResumedType ==
    ASSUME TypeOK, ActiveCoherent
    PROVE  Resumed \in Sound
<1>0. dock \in Dock /\ focus \in Addr \cup {NoAddr}
  BY DEF TypeOK, HyprTypeOK
<1>1. CASE pc = "clients"
  <2>1. Resumed = state_refresh(dock, win, focus, mon, mws[mon])
    BY <1>1, Zenon DEF Resumed
  <2> QED
    BY <1>0, <2>1, RefreshEntries
<1>2. CASE pc = "active"
  <2>1. Resumed = LoadActive(dock, focus)
    BY <1>2 DEF Resumed
  <2> QED
    BY <1>0, <2>1, LoadActiveCoherent DEF Sound
<1>3. CASE pc # "clients" /\ pc # "active"
  <2>1. Resumed = dock
    BY <1>3 DEF Resumed
  <2> QED
    BY <1>0, <1>3, <2>1 DEF ActiveCoherent, Sound
<1> QED
  BY <1>1, <1>2, <1>3

(* The states in between, one for each event handled. *)
LEMMA SettledSteps ==
    ASSUME TypeOK, ActiveCoherent
    PROVE  \E f \in [0..Len(pending) -> Sound] :
              /\ f[0] = Resumed
              /\ \A n \in 1..Len(pending) : f[n] = Settle(f[n - 1], pending[n])
              /\ Settled = f[Len(pending)]
<1> DEFINE N == Len(pending)
           g == [x \in Sound \X (1..N) |-> Settle(x[1], pending[x[2]])]
<1>0. pending \in Seq(Event) /\ N \in Nat /\ \A n \in 1..N : pending[n] \in Event
  BY PendingType
<1>1. g \in [Sound \X (1..N) -> Sound]
  BY <1>0, SettleType
<1>2. \A d \in Sound, n \in 1..N : g[<<d, n>>] = Settle(d, pending[n])
  <2>1. ASSUME NEW d \in Sound, NEW n \in 1..N
        PROVE  g[<<d, n>>] = Settle(d, pending[n])
    <3>1. <<d, n>> \in Sound \X (1..N) /\ <<d, n>>[1] = d /\ <<d, n>>[2] = n
      OBVIOUS
    <3> QED
      BY <3>1, Zenon
  <2> QED
    BY <2>1
<1> HIDE DEF g
<1>3. PICK f : Iterates(f, g, Resumed, N, Sound)
  <2> HIDE DEF N
  <2>1. Resumed \in Sound
    BY ResumedType
  <2> QED
    BY <1>0, <1>1, <2>1, Iterate
<1> DEFINE G(h) == [n \in 0..N |->
                      IF n = 0 THEN Resumed ELSE Settle(h[n - 1], pending[n])]
<1>4. \A n \in 0..N : f[n] = IF n = 0 THEN Resumed ELSE Settle(f[n - 1], pending[n])
  <2>1. ASSUME NEW n \in 1..N
        PROVE  f[n] = Settle(f[n - 1], pending[n])
    <3>1. n - 1 \in 0..N /\ n \in 0..N /\ n # 0
      BY <1>0
    <3>2. f[n] = g[<<f[n - 1], n>>]
      BY <1>3 DEF Iterates
    <3>3. f[n - 1] \in Sound
      BY <1>3, <3>1 DEF Iterates
    <3> QED
      BY <1>2, <3>2, <3>3
  <2>2. f[0] = Resumed
    BY <1>3 DEF Iterates
  <2> QED
    BY <1>0, <2>1, <2>2
<1>5. f = G(f)
  <2>1. f \in [0..N -> Sound]
    BY <1>3 DEF Iterates
  <2> QED
    BY <1>4, <2>1
<1>6. \A h : h = G(h) => \A n \in 0..N : h[n] = f[n]
  <2> SUFFICES ASSUME NEW h, h = G(h) PROVE \A n \in 0..N : h[n] = f[n]
    OBVIOUS
  <2>0. /\ h[0] = Resumed
        /\ \A n \in 1..N : h[n] = Settle(h[n - 1], pending[n])
    BY <1>0
  <2> HIDE DEF G
  <2> DEFINE T == {n \in 0..N : h[n] # f[n]}
  <2> SUFFICES ASSUME T # {} PROVE FALSE
    OBVIOUS
  <2>1. T \subseteq Nat
    OBVIOUS
  <2>2. PICK m \in T : \A k \in T : m <= k
    BY <2>1, LeastNat
  <2>3. m # 0
    BY <1>0, <1>4, <2>0, <2>2
  <2>4. m - 1 \in 0..N /\ m \in 1..N /\ m - 1 \notin T
    BY <1>0, <2>2, <2>3
  <2>5. h[m - 1] = f[m - 1]
    BY <2>4
  <2>6. h[m] = f[m]
    BY <1>4, <2>0, <2>4, <2>5
  <2> QED
    BY <2>2, <2>6
<1> DEFINE after == CHOOSE h : h = G(h)
<1>7. after = G(after)
  <2> HIDE DEF G
  <2> QED
    BY <1>5, Zenon
<1>8. after[N] = f[N]
  <2> HIDE DEF G, after
  <2> QED
    BY <1>0, <1>6, <1>7
<1>9. Settled = after[N]
  BY DEF Settled
<1>10. /\ f[0] = Resumed
       /\ \A n \in 1..N : f[n] = Settle(f[n - 1], pending[n])
       /\ Settled = f[N]
  <2>1. \A n \in 1..N : n \in 0..N /\ n # 0
    BY <1>0
  <2>2. 0 \in 0..N
    BY <1>0
  <2> HIDE DEF after
  <2> QED
    BY <1>4, <1>8, <1>9, <2>1, <2>2
<1>11. f \in [0..N -> Sound]
  BY <1>3 DEF Iterates
<1> QED
  BY <1>10, <1>11

-----------------------------------------------------------------------------

(* What is left of the queue when n events are handled. *)
Rest(n) == SubSeq(pending, n + 1, Len(pending))

LEMMA RestOfQueue ==
    ASSUME TypeOK
    PROVE  /\ Rest(0) = pending /\ Rest(Len(pending)) = <<>>
           /\ \A n \in 1..Len(pending) :
                 /\ Rest(n - 1) \in Seq(Event) /\ Rest(n - 1) # <<>>
                 /\ Head(Rest(n - 1)) = pending[n] /\ pending[n] \in Event
                 /\ Tail(Rest(n - 1)) = Rest(n) /\ Rest(n) \in Seq(Event)
<1> DEFINE q == pending
<1>0. q \in Seq(Event) /\ Len(q) \in Nat
  BY PendingType
<1> HIDE DEF q
<1>1. SubSeq(q, 0 + 1, Len(q)) = q
  BY <1>0, SubSeqFull
<1>2. SubSeq(q, Len(q) + 1, Len(q)) = <<>>
  BY <1>0, SubSeqEmpty
<1>3. ASSUME NEW n \in 1..Len(q)
      PROVE  /\ SubSeq(q, n - 1 + 1, Len(q)) \in Seq(Event)
             /\ SubSeq(q, n - 1 + 1, Len(q)) # <<>>
             /\ Head(SubSeq(q, n - 1 + 1, Len(q))) = q[n] /\ q[n] \in Event
             /\ Tail(SubSeq(q, n - 1 + 1, Len(q))) = SubSeq(q, n + 1, Len(q))
             /\ SubSeq(q, n + 1, Len(q)) \in Seq(Event)
  <2>1. n - 1 + 1 = n /\ Len(q) \in n..Len(q) /\ q[n] \in Event
    BY <1>0
  <2>2. /\ Head(SubSeq(q, n, Len(q))) = q[n]
        /\ Tail(SubSeq(q, n, Len(q))) = SubSeq(q, n + 1, Len(q))
    BY <1>0, <2>1, HeadTailOfSubSeq
  <2>3. SubSeq(q, n, Len(q)) \in Seq(Event) /\ SubSeq(q, n + 1, Len(q)) \in Seq(Event)
    BY <1>0
  <2>4. Len(SubSeq(q, n, Len(q))) = Len(q) - n + 1
    BY <1>0
  <2>5. SubSeq(q, n, Len(q)) # <<>>
    <3>1. Len(SubSeq(q, n, Len(q))) # 0
      BY <1>0, <2>1, <2>4
    <3>2. Len(<<>>) = 0
      OBVIOUS
    <3> QED
      BY <3>1, <3>2, Zenon
  <2> QED
    BY <2>1, <2>2, <2>3, <2>5
<1> QED
  BY <1>1, <1>2, <1>3 DEF Rest, q

LEMMA ResumedTracks ==
    ASSUME TypeOK, WindowInv, winSync, ~crossed, Lacks(pending, Refreshing),
           NEW a \in Addr
    PROVE  Tracks(pending, win, Resumed, a)
<1>0. dock \in Dock /\ focus \in Addr \cup {NoAddr} /\ pending \in Seq(Event)
  BY PendingType DEF TypeOK, HyprTypeOK
<1>1. CASE pc = "clients"
  <2>1. Resumed = state_refresh(dock, win, focus, mon, mws[mon])
    BY <1>1, Zenon DEF Resumed
  <2>2. Loaded(win, Resumed)
    BY <1>0, <2>1, RefreshEntries
  <2>3. Told(pending, win, a)
    BY DEF WindowInv
  <2> QED
    BY <1>0, <2>2, <2>3, LoadedTracks
<1>2. CASE pc # "clients"
  <2>1. Tracks(pending, win, dock, a)
    BY <1>2 DEF WindowInv
  <2>2. Resumed = LoadActive(dock, focus) \/ Resumed = dock
    <3>1. CASE pc = "active"
      BY <3>1 DEF Resumed
    <3>2. CASE pc # "active"
      BY <1>2, <3>2 DEF Resumed
    <3> QED
      BY <3>1, <3>2
  <2>3. SameEntries(dock, Resumed)
    BY <1>0, <2>2, LoadActiveEntries, SameAsItself
  <2> QED
    BY <2>1, <2>3, SameTracks
<1> QED
  BY <1>1, <1>2

LEMMA WindowsFollow ==
    ASSUME TypeOK, ActiveCoherent, WindowInv
    PROVE  WindowsSettle
<1> SUFFICES ASSUME winSync, ~crossed PROVE Mirrors(Settled)
  BY DEF WindowsSettle
<1> DEFINE N == Len(pending)
<1>0. N \in Nat
  BY PendingType
<1>1. PICK f \in [0..N -> Sound] :
         /\ f[0] = Resumed
         /\ \A n \in 1..N : f[n] = Settle(f[n - 1], pending[n])
         /\ Settled = f[N]
  BY SettledSteps
<1> DEFINE Good(n) ==
              /\ \A a \in Addr : Told(Rest(n), win, a)
              /\ Lacks(Rest(n), Refreshing) =>
                    \A a \in Addr : Tracks(Rest(n), win, f[n], a)
           T == {n \in 0..N : ~Good(n)}
<1>2. Good(0)
  <2>1. Rest(0) = pending
    BY RestOfQueue
  <2>2. \A a \in Addr : Told(pending, win, a)
    BY DEF WindowInv
  <2>3. Lacks(pending, Refreshing) => \A a \in Addr : Tracks(pending, win, Resumed, a)
    BY ResumedTracks
  <2> QED
    BY <1>1, <2>1, <2>2, <2>3, Zenon
<1>3. ASSUME NEW n \in 1..N, Good(n - 1)
      PROVE  Good(n)
  <2> DEFINE q == Rest(n - 1)
             ev == pending[n]
             d == f[n - 1]
  <2>1. /\ q \in Seq(Event) /\ q # <<>> /\ Head(q) = ev /\ ev \in Event
        /\ Tail(q) = Rest(n) /\ Rest(n) \in Seq(Event)
    BY RestOfQueue
  <2>2. d \in Dock
    <3>1. n - 1 \in 0..N
      BY <1>0
    <3> QED
      BY <1>1, <3>1 DEF Sound
  <2>3. f[n] = Settle(d, ev)
    BY <1>1
  <2>4. /\ \A a \in Addr : Told(q, win, a)
        /\ Lacks(q, Refreshing) => \A a \in Addr : Tracks(q, win, d, a)
    BY <1>3
  <2> HIDE DEF q, ev, d
  <2>5. \A a \in Addr : Told(Rest(n), win, a)
    BY <2>1, <2>4, TailTold
  <2>6. ASSUME Lacks(Rest(n), Refreshing), NEW a \in Addr
        PROVE  Tracks(Rest(n), win, f[n], a)
    <3>1. CASE NeedsRefresh(ev)
      <4>1. f[n] = state_refresh(d, win, focus, mon, mws[mon])
        BY <2>3, <3>1 DEF Settle
      <4>2. Loaded(win, f[n])
        BY <2>2, <4>1, RefreshEntries
      <4> QED
        BY <2>1, <2>5, <2>6, <4>2, LoadedTracks
    <3>2. CASE ~NeedsRefresh(ev)
      <4>1. f[n] = handle_event(d, ev)
        BY <2>3, <3>2 DEF Settle
      <4>2. Lacks(q, Refreshing)
        BY <2>1, <2>6, <3>2, TailLacks, RefreshingEvents
      <4>3. Tracks(Tail(q), win, handle_event(d, Head(q)), a)
        BY <2>1, <2>2, <2>4, <3>2, <4>2, HandleTracks
      <4> QED
        BY <2>1, <4>1, <4>3
    <3> QED
      BY <3>1, <3>2
  <2> QED
    BY <2>5, <2>6
<1>4. Good(N)
  <2> HIDE DEF Good
  <2> SUFFICES ASSUME ~Good(N) PROVE FALSE
    OBVIOUS
  <2>1. T \subseteq Nat /\ T # {}
    BY <1>0
  <2>2. PICK m \in T : \A k \in T : m <= k
    BY <2>1, LeastNat
  <2>3. m # 0
    BY <1>2, <2>2
  <2>4. m - 1 \in 0..N /\ m \in 1..N /\ m - 1 \notin T
    BY <1>0, <2>2, <2>3
  <2> QED
    BY <1>3, <2>2, <2>4
<1>5. \A a \in Addr : Tracks(<<>>, win, Settled, a)
  BY <1>1, <1>4, RestOfQueue, EmptyQueue
<1>6. DOMAIN Settled.clients \subseteq Addr /\ Listed(win) \subseteq Addr
  <2>1. Settled \in Dock
    BY <1>0, <1>1 DEF Sound
  <2> QED
    BY <2>1, DockType, WindowsType DEF Listed, TypeOK, HyprTypeOK
<1>7. \A K : Lacks(<<>>, K)
  BY EmptyQueue
<1>8. \A a \in Addr :
        /\ a \in DOMAIN Settled.clients <=> a \in Listed(win)
        /\ a \in Listed(win) =>
             /\ Settled.clients[a].workspace_id = win[a].ws
             /\ Settled.clients[a].is_floating = win[a].floating
             /\ Settled.clients[a].is_fullscreen = win[a].fullscreen
  BY <1>5, <1>7, Zenon DEF Tracks
<1>9. DOMAIN Settled.clients = Listed(win)
  BY <1>6, <1>8
<1> QED
  BY <1>6, <1>8, <1>9 DEF Mirrors

LEMMA FocusFollows ==
    ASSUME TypeOK, ActiveCoherent, FocusInv
    PROVE  FocusSettles
<1> SUFFICES ASSUME focusSync PROVE Settled.active_addr = focus
  BY DEF FocusSettles
<1> DEFINE N == Len(pending)
<1>0. N \in Nat /\ focus \in Addr \cup {NoAddr} /\ dock \in Dock
  BY PendingType DEF TypeOK, HyprTypeOK
<1>1. PICK f \in [0..N -> Sound] :
         /\ f[0] = Resumed
         /\ \A n \in 1..N : f[n] = Settle(f[n - 1], pending[n])
         /\ Settled = f[N]
  BY SettledSteps
<1> DEFINE Good(n) ==
              /\ FocusTold(Rest(n), focus)
              /\ Lacks(Rest(n), Focuses) => f[n].active_addr = focus
           T == {n \in 0..N : ~Good(n)}
<1>2. Good(0)
  <2>1. Rest(0) = pending
    BY RestOfQueue
  <2>2. FocusTold(pending, focus)
    BY DEF FocusInv, FocusTold
  <2>3. Lacks(pending, Focuses) => dock.active_addr = focus
    BY DEF FocusInv, FocusTold
  <2>4. Resumed.active_addr = dock.active_addr \/ Resumed.active_addr = focus
    <3>1. CASE pc = "clients"
      <4>1. Resumed = state_refresh(dock, win, focus, mon, mws[mon])
        BY <3>1, Zenon DEF Resumed
      <4> QED
        BY <1>0, <4>1, RefreshEntries
    <3>2. CASE pc = "active"
      <4>1. Resumed = LoadActive(dock, focus)
        BY <3>2 DEF Resumed
      <4> QED
        BY <1>0, <4>1, LoadActiveEntries
    <3>3. CASE pc # "clients" /\ pc # "active"
      BY <3>3 DEF Resumed
    <3> QED
      BY <3>1, <3>2, <3>3
  <2> QED
    BY <1>1, <2>1, <2>2, <2>3, <2>4
<1>3. ASSUME NEW n \in 1..N, Good(n - 1)
      PROVE  Good(n)
  <2> DEFINE q == Rest(n - 1)
             ev == pending[n]
             d == f[n - 1]
  <2>1. /\ q \in Seq(Event) /\ q # <<>> /\ Head(q) = ev /\ ev \in Event
        /\ Tail(q) = Rest(n)
    BY RestOfQueue
  <2>2. d \in Dock
    <3>1. n - 1 \in 0..N
      BY <1>0
    <3> QED
      BY <1>1, <3>1 DEF Sound
  <2>3. f[n] = Settle(d, ev)
    BY <1>1
  <2>4. FocusTold(q, focus) /\ (Lacks(q, Focuses) => d.active_addr = focus)
    BY <1>3
  <2> HIDE DEF q, ev, d
  <2>5. FocusTold(Rest(n), focus)
    BY <2>1, <2>4, TailLatest DEF FocusTold
  <2>6. ASSUME Lacks(Rest(n), Focuses)
        PROVE  f[n].active_addr = focus
    <3>1. CASE NeedsRefresh(ev)
      <4>1. f[n].active_addr = IF focus = NoAddr THEN d.active_addr ELSE focus
        BY <2>2, <2>3, <3>1, RefreshEntries DEF Settle
      <4>2. ev \notin Focuses
        BY <2>1, <3>1, FocusByType DEF NeedsRefresh
      <4>3. Lacks(q, Focuses)
        BY <2>1, <2>6, <4>2, TailLacks
      <4> QED
        BY <2>4, <4>1, <4>3
    <3>2. CASE ~NeedsRefresh(ev)
      <4>1. f[n] = handle_event(d, Head(q))
        BY <2>1, <2>3, <3>2 DEF Settle
      <4> QED
        BY <2>1, <2>2, <2>4, <2>6, <4>1, HandleFocused
    <3> QED
      BY <3>1, <3>2
  <2> QED
    BY <2>5, <2>6
<1>4. Good(N)
  <2> HIDE DEF Good
  <2> SUFFICES ASSUME ~Good(N) PROVE FALSE
    OBVIOUS
  <2>1. T \subseteq Nat /\ T # {}
    BY <1>0
  <2>2. PICK m \in T : \A k \in T : m <= k
    BY <2>1, LeastNat
  <2>3. m # 0
    BY <1>2, <2>2
  <2>4. m - 1 \in 0..N /\ m \in 1..N /\ m - 1 \notin T
    BY <1>0, <2>2, <2>3
  <2> QED
    BY <1>3, <2>2, <2>4
<1> QED
  BY <1>1, <1>4, RestOfQueue, EmptyQueue

LEMMA InitSettle == Init => SettleInv
BY InitQueue, InitWindows, InitFocus DEF SettleInv

(* In every state of every run, whatever the sizes, the faults and the      *)
(* interleaving: if the snapshot behind the list was followed by no         *)
(* unannounced change, then handling what is still in the pipe makes the    *)
(* daemon's list the compositor's windows (state.c:205-436).               *)
THEOREM PendingRepairsTheList == Spec => []WindowsSettle
<1>1. TypeOK /\ ActiveCoherent /\ SettleInv => WindowsSettle
  BY WindowsFollow DEF SettleInv
<1> QED
  BY <1>1, InitSettle, StepSettle, TypeCorrect, HighlightAgrees, PTL DEF Spec

(* And active_addr becomes the focused window (state.c:262, 343).          *)
THEOREM PendingRepairsTheFocus == Spec => []FocusSettles
<1>1. TypeOK /\ ActiveCoherent /\ SettleInv => FocusSettles
  BY FocusFollows DEF SettleInv
<1> QED
  BY <1>1, InitSettle, StepSettle, TypeCorrect, HighlightAgrees, PTL DEF Spec
=============================================================================
