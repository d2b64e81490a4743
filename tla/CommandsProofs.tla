--------------------------- MODULE CommandsProofs ---------------------------
(***************************************************************************)
(* Proofs of what a command of the menu does, whatever numbers of windows,  *)
(* clicks and failures there are.                                          *)
(*                                                                         *)
(* It hits the window it was for: an address that was once right for a      *)
(* window stays right for as long as the window is open, in whatever list  *)
(* or command it travels; and a request about the active window comes       *)
(* after one that has given that window the focus.  It is done: what a      *)
(* command is to do is done, or one of the requests that are left will do   *)
(* it.  The cache of icons and the table of overrides keep their shape      *)
(* under each of their operations, and so under a loop over them.          *)
(***************************************************************************)
EXTENDS Commands, ListProofs

Cmd == [cmd : ByClick \cup {"close_all", "launch"}, addr : Addr \cup {NoAddr},
        id : Nat, class : Class]
Rq == [do : ByClick \cup {"raise"}, addr : Addr \cup {NoAddr}, lua : BOOLEAN]

(* Window id, if it is open, is at address a. *)
Known(a, id) ==
    /\ id \in 1..opened
    /\ \A b \in DOMAIN at : at[b].id = id => b = a

WindowsOK ==
    /\ opened \in Nat
    /\ DOMAIN at \subseteq Addr
    /\ \A a \in DOMAIN at : at[a].class \in Class /\ Known(a, at[a].id)

ListOK(list) ==
    \A i \in DOMAIN list :
        /\ list[i].addr \in Addr /\ list[i].class \in Class
        /\ Known(list[i].addr, list[i].id)

CmdOK(c) == c.addr # NoAddr => Known(c.addr, c.id) /\ c.cmd \in ByClick

(* The window the command is for has the focus. *)
FocusHere == calm /\ Open(now.id) => focus = now.addr

(* It has it, or it will be given it before request i is made. *)
FocusBefore(i) ==
    \/ FocusHere
    \/ \E j \in 1..(i - 1) : todo[j].do = "focus" /\ todo[j].addr = now.addr

TodoOK ==
    now.addr # NoAddr =>
        /\ todo \in Seq(Rq)
        /\ \A i \in DOMAIN todo :
              /\ todo[i].lua = use_lua_dispatch
              /\ todo[i].addr \in {now.addr, NoAddr}
              /\ todo[i].addr = NoAddr =>
                    IF use_lua_dispatch THEN todo[i].do = "focus"
                                        ELSE FocusBefore(i)
        /\ calm /\ todo # <<>> => use_lua_dispatch = lua

IInv ==
    /\ lua \in BOOLEAN /\ use_lua_dispatch \in BOOLEAN
    /\ WindowsOK
    /\ ListOK(clients) /\ ListOK(shown)
    /\ stdin \in Seq(Cmd) /\ \A i \in DOMAIN stdin : CmdOK(stdin[i])
    /\ CmdOK(now)
    /\ TodoOK

(* What HitsWhatWasMeant says of a step. *)
Meant ==
    \A h \in hit' \ hit :
        now.addr # NoAddr /\ h[2] # now.id
            => ~Open(now.id) \/ (~use_lua_dispatch /\ ~calm)

-----------------------------------------------------------------------------

LEMMA Initial == Init => IInv
<1> SUFFICES ASSUME Init PROVE IInv
  OBVIOUS
<1>1. opened \in Nat /\ DOMAIN at = {}
  BY DEF Init
<1>5. lua \in BOOLEAN /\ use_lua_dispatch \in BOOLEAN
  BY Zenon DEF Init
<1>2. \A l \in {clients, shown} : l = <<>>
  BY DEF Init
<1>3. stdin = <<>> /\ now = NoCmd
  BY DEF Init
<1>4. now.addr = NoAddr
  BY <1>3 DEF NoCmd
<1> QED
  BY <1>1, <1>2, <1>3, <1>4, <1>5 DEF CmdOK, TodoOK, IInv, WindowsOK, ListOK

(* A known address stays known when windows come and go. *)
LEMMA KnownStays ==
    ASSUME WindowsOK, NEW a, NEW id, Known(a, id),
           \/ UNCHANGED <<at, opened>>
           \/ \E b \in Addr : CloseWindow(b)
           \/ \E b \in Addr, c \in Class : OpenWindow(b, c)
    PROVE  Known(a, id)'
<1>1. CASE UNCHANGED <<at, opened>>
  BY <1>1 DEF Known
<1>2. ASSUME NEW b \in Addr, CloseWindow(b)
      PROVE  Known(a, id)'
  BY <1>2 DEF CloseWindow, Known
<1>3. ASSUME NEW b \in Addr, NEW c \in Class, OpenWindow(b, c)
      PROVE  Known(a, id)'
  BY <1>3 DEF OpenWindow, Known, WindowsOK
<1> QED
  BY <1>1, <1>2, <1>3

LEMMA WindowsStay ==
    ASSUME WindowsOK,
           \/ UNCHANGED <<at, opened>>
           \/ \E b \in Addr : CloseWindow(b)
           \/ \E b \in Addr, c \in Class : OpenWindow(b, c)
    PROVE  WindowsOK'
<1>1. CASE UNCHANGED <<at, opened>>
  BY <1>1 DEF WindowsOK, Known
<1>2. ASSUME NEW b \in Addr, CloseWindow(b)
      PROVE  WindowsOK'
  BY <1>2 DEF CloseWindow, WindowsOK, Known
<1>3. ASSUME NEW b \in Addr, NEW c \in Class, OpenWindow(b, c)
      PROVE  WindowsOK'
  <2>1. opened' = opened + 1 /\ b \notin DOMAIN at /\ opened' \in Nat
    BY <1>3 DEF OpenWindow, WindowsOK
  <2>2. /\ DOMAIN at' = DOMAIN at \cup {b}
        /\ at'[b] = [id |-> opened', class |-> c]
        /\ \A d \in DOMAIN at : at'[d] = at[d]
    BY <1>3, <2>1 DEF OpenWindow
  <2> QED
    BY <2>1, <2>2 DEF WindowsOK, Known
<1> QED
  BY <1>1, <1>2, <1>3

(* Everything but the requests keeps the requests' invariant if it changes  *)
(* nothing they look at, or happens to the windows and so ends the calm.   *)
LEMMA TodoStays ==
    ASSUME TodoOK,
           UNCHANGED <<todo, now, use_lua_dispatch>>,
           UNCHANGED <<at, focus, lua, calm>> \/ ~calm'
    PROVE  TodoOK'
<1>1. CASE UNCHANGED <<at, focus, lua, calm>>
  BY <1>1 DEF TodoOK, FocusBefore, FocusHere, Open
<1>2. CASE ~calm'
  BY <1>2 DEF TodoOK, FocusBefore, FocusHere
<1> QED
  BY <1>1, <1>2

(* Steps that leave the lists, the commands and what is asked alone. *)
LEMMA OutsideKeeps ==
    ASSUME IInv,
           \/ UNCHANGED <<at, opened>>
           \/ \E b \in Addr : CloseWindow(b)
           \/ \E b \in Addr, c \in Class : OpenWindow(b, c),
           UNCHANGED <<clients, shown, stdin, now, todo, use_lua_dispatch, hit>>,
           UNCHANGED <<at, focus, lua, calm>> \/ ~calm',
           lua' \in BOOLEAN
    PROVE  IInv' /\ Meant
<1>1. WindowsOK'
  BY WindowsStay DEF IInv
<1>2. \A a, id : Known(a, id) => Known(a, id)'
  BY KnownStays DEF IInv
<1>3. ListOK(clients)' /\ ListOK(shown)'
  BY <1>2 DEF IInv, ListOK
<1>4. /\ stdin' \in Seq(Cmd)
      /\ \A i \in DOMAIN stdin' : CmdOK(stdin[i])'
      /\ CmdOK(now)'
  BY <1>2 DEF IInv, CmdOK
<1>5. TodoOK'
  BY TodoStays DEF IInv
<1>6. Meant
  BY DEF Meant
<1> QED
  BY <1>1, <1>3, <1>4, <1>5, <1>6 DEF IInv

LEMMA ClickKeeps ==
    ASSUME IInv, NEW c \in Cmd, CmdOK(c), Click(c)
    PROVE  IInv' /\ Meant
<1>1. /\ stdin' = Append(stdin, c)
      /\ UNCHANGED <<at, opened, focus, lua, calm, clients, shown, now, todo,
                     use_lua_dispatch, hit>>
  BY DEF Click, hypr, daemon, history
<1>2. stdin' \in Seq(Cmd) /\ \A i \in DOMAIN stdin' : CmdOK(stdin'[i])
  BY <1>1 DEF IInv
<1>3. TodoOK'
  BY <1>1, TodoStays DEF IInv
<1>4. \A a, id : Known(a, id)' <=> Known(a, id)
  BY <1>1 DEF Known
<1> QED
  BY <1>1, <1>2, <1>3, <1>4 DEF IInv, WindowsOK, ListOK, CmdOK, Meant

LEMMA ClickWindowKeeps ==
    ASSUME IInv, ClickWindow
    PROVE  IInv' /\ Meant
<1>1. PICK i \in DOMAIN shown, cmd \in ByClick :
         Click([cmd |-> cmd, addr |-> shown[i].addr, id |-> shown[i].id,
                class |-> shown[i].class])
  BY DEF ClickWindow
<1> DEFINE c == [cmd |-> cmd, addr |-> shown[i].addr, id |-> shown[i].id,
                 class |-> shown[i].class]
<1>2. /\ shown[i].addr \in Addr /\ shown[i].class \in Class
      /\ Known(shown[i].addr, shown[i].id)
  BY DEF IInv, ListOK
<1>3. shown[i].id \in Nat
  BY <1>2 DEF Known, IInv, WindowsOK
<1>4. c \in Cmd
  BY <1>2, <1>3 DEF Cmd
<1>5. CmdOK(c)
  BY <1>2 DEF CmdOK
<1> QED
  BY <1>1, <1>4, <1>5, ClickKeeps

LEMMA ClickAppKeeps ==
    ASSUME IInv, ClickApp
    PROVE  IInv' /\ Meant
<1>1. PICK cl \in Class, cmd \in {"close_all", "launch"} :
         Click([cmd |-> cmd, addr |-> NoAddr, id |-> 0, class |-> cl])
  BY DEF ClickApp
<1> DEFINE c == [cmd |-> cmd, addr |-> NoAddr, id |-> 0, class |-> cl]
<1>2. c \in Cmd /\ CmdOK(c)
  BY DEF Cmd, CmdOK
<1> QED
  BY <1>1, <1>2, ClickKeeps

LEMMA ReadStateKeeps ==
    ASSUME IInv, ReadState
    PROVE  IInv' /\ Meant
<1>1. /\ shown' = clients
      /\ UNCHANGED <<at, opened, focus, lua, calm, clients, stdin, now, todo,
                     use_lua_dispatch, hit>>
  BY DEF ReadState, hypr, daemon, history
<1>2. TodoOK'
  BY <1>1, TodoStays DEF IInv
<1>3. \A a, id : Known(a, id)' <=> Known(a, id)
  BY <1>1 DEF Known
<1> QED
  BY <1>1, <1>2, <1>3 DEF IInv, WindowsOK, ListOK, CmdOK, Meant

(* The addresses of the daemon's new list are those the windows have. *)
LEMMA CatchUpKeeps ==
    ASSUME IInv, CatchUp
    PROVE  IInv' /\ Meant
<1>1. UNCHANGED <<at, opened, focus, lua, calm, shown, stdin, now, todo,
                  use_lua_dispatch, hit>>
  BY DEF CatchUp, hypr, shell, history
<1> DEFINE S == {[addr |-> a, id |-> at[a].id, class |-> at[a].class] :
                    a \in DOMAIN at}
<1>2. \A w \in S : w.addr \in Addr /\ w.class \in Class /\ Known(w.addr, w.id)
  BY DEF IInv, WindowsOK
<1>3. PICK n : clients' \in [1..n -> S]
  BY DEF CatchUp, SetToSeqs
<1>4. \A i \in DOMAIN clients' : clients'[i] \in S
  BY <1>3
<1>5. \A a, id : Known(a, id)' <=> Known(a, id)
  BY <1>1 DEF Known
<1>6. TodoOK'
  BY <1>1, TodoStays DEF IInv
<1> HIDE DEF S
<1>7. ListOK(clients)'
  BY <1>2, <1>4, <1>5 DEF ListOK
<1> QED
  BY <1>1, <1>5, <1>6, <1>7 DEF IInv, WindowsOK, ListOK, CmdOK, Meant

LEMMA DetectKeeps ==
    ASSUME IInv, detect_dispatch_syntax
    PROVE  IInv' /\ Meant
<1>1. /\ todo = <<>> /\ use_lua_dispatch' \in BOOLEAN
      /\ UNCHANGED <<at, opened, focus, lua, calm, clients, shown, stdin, now,
                     todo, hit>>
  BY DEF detect_dispatch_syntax, hypr, shell, history, IInv
<1>2. TodoOK'
  BY <1>1 DEF TodoOK
<1>3. \A a, id : Known(a, id)' <=> Known(a, id)
  BY <1>1 DEF Known
<1> QED
  BY <1>1, <1>2, <1>3 DEF IInv, WindowsOK, ListOK, CmdOK, Meant

(* The requests of a command for a window name it, or come after the focus. *)
LEMMA RequestsOK ==
    ASSUME IInv, NEW c \in Cmd, c.cmd \in ByClick, c.addr # NoAddr,
           NEW i \in DOMAIN Requests(c)
    PROVE  /\ Requests(c) \in Seq(Rq)
           /\ Requests(c)[i].lua = use_lua_dispatch
           /\ Requests(c)[i].addr \in {c.addr, NoAddr}
           /\ Requests(c)[i].addr = NoAddr =>
                 IF use_lua_dispatch
                 THEN Requests(c)[i].do = "focus"
                 ELSE \E j \in 1..(i - 1) : /\ Requests(c)[j].do = "focus"
                                            /\ Requests(c)[j].addr = c.addr
<1>1. use_lua_dispatch \in BOOLEAN /\ c.addr \in Addr \cup {NoAddr}
  BY DEF IInv, Cmd
<1>2. \A do \in ByClick \cup {"raise"}, a \in Addr \cup {NoAddr} :
         /\ Req(do, a) \in Rq
         /\ Req(do, a).do = do /\ Req(do, a).addr = a
         /\ Req(do, a).lua = use_lua_dispatch
  BY <1>1 DEF Req, Rq
<1>3. CASE c.cmd = "focus"
  <2>1. Requests(c) = hypr_ipc_focus_window(c.addr)
    BY <1>3 DEF Requests
  <2>2. CASE use_lua_dispatch
    <3>1. Requests(c) = <<Req("focus", c.addr), Req("raise", c.addr),
                          Req("focus", NoAddr)>>
      BY <2>1, <2>2 DEF hypr_ipc_focus_window
    <3>2. i \in {1, 2, 3} /\ Requests(c) \in Seq(Rq)
      BY <3>1, <1>1, <1>2 DEF ByClick
    <3>3. Requests(c)[i].lua = use_lua_dispatch
      BY <3>1, <3>2, <1>1, <1>2 DEF ByClick
    <3>4. /\ Requests(c)[i].addr \in {c.addr, NoAddr}
          /\ Requests(c)[i].addr = NoAddr => Requests(c)[i].do = "focus"
      BY <3>1, <3>2, <1>1, <1>2 DEF ByClick
    <3> QED
      BY <3>2, <3>3, <3>4, <2>2, Zenon
  <2>3. CASE ~use_lua_dispatch
    <3>1. Requests(c) = <<Req("focus", c.addr), Req("raise", NoAddr)>>
      BY <2>1, <2>3 DEF hypr_ipc_focus_window
    <3>2. i \in {1, 2} /\ Requests(c) \in Seq(Rq)
      BY <3>1, <1>1, <1>2 DEF ByClick
    <3>3. i = 2 => 1 \in 1..(i - 1)
      OBVIOUS
    <3> QED
      BY <3>1, <3>2, <3>3, <2>3, <1>1, <1>2 DEF ByClick
  <2> QED
    BY <2>2, <2>3
<1>4. CASE c.cmd = "toggle_fullscreen"
  <2>1. Requests(c) = hypr_ipc_toggle_fullscreen(c.addr)
    BY <1>4 DEF Requests
  <2>2. CASE use_lua_dispatch
    <3>1. Requests(c) = <<Req("toggle_fullscreen", c.addr)>>
      BY <2>1, <2>2 DEF hypr_ipc_toggle_fullscreen
    <3>2. i = 1 /\ Requests(c) \in Seq(Rq)
      BY <3>1, <1>1, <1>2 DEF ByClick
    <3> QED
      BY <3>1, <3>2, <1>1, <1>2 DEF ByClick
  <2>3. CASE ~use_lua_dispatch
    <3>1. Requests(c) = <<Req("focus", c.addr), Req("raise", NoAddr)>>
                           \o <<Req("toggle_fullscreen", NoAddr)>>
      <4>1. Requests(c) = hypr_ipc_focus_window(c.addr)
                             \o <<Req("toggle_fullscreen", NoAddr)>>
        BY <2>1, <2>3, Zenon DEF hypr_ipc_toggle_fullscreen
      <4>2. hypr_ipc_focus_window(c.addr)
               = <<Req("focus", c.addr), Req("raise", NoAddr)>>
        BY <2>3, Zenon DEF hypr_ipc_focus_window
      <4> QED
        BY <4>1, <4>2, Zenon
    <3>2. /\ i \in {1, 2, 3} /\ Requests(c) \in Seq(Rq)
          /\ Requests(c)[1] = Req("focus", c.addr)
          /\ Requests(c)[2] = Req("raise", NoAddr)
          /\ Requests(c)[3] = Req("toggle_fullscreen", NoAddr)
      <4>1. /\ <<Req("focus", c.addr), Req("raise", NoAddr)>> \in Seq(Rq)
            /\ <<Req("toggle_fullscreen", NoAddr)>> \in Seq(Rq)
        BY <1>1, <1>2 DEF ByClick
      <4> QED
        BY <3>1, <4>1, ConcatProperties
    <3>3. i \in {2, 3} => 1 \in 1..(i - 1)
      OBVIOUS
    <3> QED
      BY <3>2, <3>3, <2>3, <1>1, <1>2 DEF ByClick
  <2> QED
    BY <2>2, <2>3
<1>5. CASE c.cmd \in {"close", "toggle_float", "move_to_ws"}
  <2>1. Requests(c) = <<Req(c.cmd, c.addr)>>
    BY <1>5 DEF Requests
  <2> QED
    BY <2>1, <1>5, <1>1, <1>2 DEF ByClick
<1> QED
  BY <1>3, <1>4, <1>5 DEF ByClick

LEMMA HandleKeeps ==
    ASSUME IInv, handle_command
    PROVE  IInv' /\ Meant
<1>1. /\ stdin # <<>> /\ stdin' = Tail(stdin) /\ now' = Head(stdin)
      /\ todo' = Requests(now') /\ hit' = {}
      /\ calm' => use_lua_dispatch = lua
      /\ UNCHANGED <<at, opened, focus, lua, clients, shown, use_lua_dispatch>>
  BY DEF handle_command, hypr
<1>2. \A a, id : Known(a, id)' <=> Known(a, id)
  BY <1>1 DEF Known
<1>3. /\ stdin' \in Seq(Cmd) /\ now' \in Cmd
      /\ \A i \in DOMAIN stdin' : CmdOK(stdin'[i])
      /\ CmdOK(now')
  BY <1>1 DEF IInv
<1>4. TodoOK'
  <2> SUFFICES ASSUME now'.addr # NoAddr
               PROVE  TodoOK'
    BY DEF TodoOK
  <2>1. now'.cmd \in ByClick
    BY <1>3 DEF CmdOK
  <2>2. \A i \in DOMAIN todo' :
           /\ todo' \in Seq(Rq)
           /\ todo'[i].lua = use_lua_dispatch
           /\ todo'[i].addr \in {now'.addr, NoAddr}
           /\ todo'[i].addr = NoAddr =>
                 IF use_lua_dispatch
                 THEN todo'[i].do = "focus"
                 ELSE \E j \in 1..(i - 1) : /\ todo'[j].do = "focus"
                                            /\ todo'[j].addr = now'.addr
    BY <1>1, <1>3, <2>1, RequestsOK
  <2>3. todo' \in Seq(Rq)
    BY <1>1, <1>3, <2>1, <2>2 DEF Requests, hypr_ipc_focus_window,
       hypr_ipc_toggle_fullscreen, ByClick
  <2> QED
    BY <1>1, <2>2, <2>3 DEF TodoOK, FocusBefore
<1> QED
  BY <1>1, <1>2, <1>3, <1>4 DEF IInv, WindowsOK, ListOK, CmdOK, Meant

LEMMA RequestKeeps ==
    ASSUME IInv, Request
    PROVE  IInv' /\ Meant
<1> DEFINE r == Head(todo)
           a == IF r.addr = NoAddr THEN focus ELSE r.addr
           done == r.lua = lua /\ a \in DOMAIN at
           moot == r.do = "focus" /\ r.addr = NoAddr
<1>1. /\ todo # <<>> /\ todo' = Tail(todo)
      /\ UNCHANGED <<at, opened, lua, clients, shown, stdin, now,
                     use_lua_dispatch>>
  BY DEF Request, daemon, shell
<1>2. \/ /\ hit' = IF done /\ ~moot THEN hit \cup {<<r.do, at[a].id>>} ELSE hit
         /\ focus' = IF done /\ r.do = "focus" THEN a ELSE focus
         /\ calm' = calm
      \/ hit' = hit /\ focus' = focus /\ calm' = FALSE
  BY DEF Request
<1>3. \A b, id : Known(b, id)' <=> Known(b, id)
  BY <1>1 DEF Known
<1>4. ASSUME now.addr # NoAddr
      PROVE  /\ Known(now.addr, now.id)
             /\ todo \in Seq(Rq) /\ r = todo[1] /\ 1 \in DOMAIN todo
             /\ r.lua = use_lua_dispatch /\ r.addr \in {now.addr, NoAddr}
             /\ r.addr = NoAddr =>
                   IF use_lua_dispatch THEN r.do = "focus" ELSE FocusHere
             /\ calm => use_lua_dispatch = lua
  BY <1>1, <1>4 DEF IInv, CmdOK, TodoOK, FocusBefore
<1>5. Meant
  <2> SUFFICES ASSUME NEW h \in hit' \ hit, now.addr # NoAddr, h[2] # now.id,
                      Open(now.id), use_lua_dispatch \/ calm
               PROVE  FALSE
    BY <1>1 DEF Meant
  <2>1. done /\ ~moot /\ h[2] = at[a].id
    BY <1>2
  <2>2. \A b \in DOMAIN at : at[b].id = now.id => b = now.addr
    BY <1>4 DEF Known
  <2>3. a # now.addr
    BY <2>1, <2>2 DEF Open
  <2>4. r.addr = NoAddr
    BY <2>3, <1>4
  <2>5. FocusHere /\ ~use_lua_dispatch
    BY <2>1, <2>4, <1>4
  <2> QED
    BY <2>3, <2>4, <2>5 DEF FocusHere
<1>6. TodoOK'
  <2> SUFFICES ASSUME now.addr # NoAddr
               PROVE  TodoOK'
    BY <1>1 DEF TodoOK
  <2>1. /\ todo' \in Seq(Rq)
        /\ \A i \in DOMAIN todo' : i + 1 \in DOMAIN todo /\ todo'[i] = todo[i + 1]
    BY <1>1, <1>4
  <2>2. FocusHere => FocusHere'
    BY <1>1, <1>2, <1>4 DEF FocusHere, Open
  <2>3. r.do = "focus" /\ r.addr = now.addr => FocusHere'
    <3> SUFFICES ASSUME r.do = "focus", r.addr = now.addr, calm', Open(now.id)
                 PROVE  focus' = now.addr
      BY <1>1 DEF FocusHere, Open
    <3>1. now.addr \in DOMAIN at
      BY <1>4 DEF Known, Open
    <3>2. done /\ a = now.addr
      BY <1>2, <1>4, <3>1
    <3> QED
      BY <1>2, <3>2
  <2>4. \A i \in DOMAIN todo' : FocusBefore(i + 1) => FocusBefore(i)'
    <3> SUFFICES ASSUME NEW i \in DOMAIN todo', ~FocusHere',
                        NEW j \in 1..i, todo[j].do = "focus",
                        todo[j].addr = now.addr
                 PROVE  \E k \in 1..(i - 1) : /\ todo'[k].do = "focus"
                                              /\ todo'[k].addr = now.addr
      BY <1>1, <2>1, <2>2 DEF FocusBefore
    <3>1. j # 1
      BY <2>3, <1>4
    <3>2. j - 1 \in 1..(i - 1) /\ j - 1 \in DOMAIN todo'
      BY <2>1, <3>1
    <3> QED
      BY <2>1, <3>2
  <2>5. calm' => calm
    BY <1>2
  <2> QED
    BY <1>1, <1>4, <2>1, <2>4, <2>5 DEF TodoOK, IInv
<1> QED
  BY <1>1, <1>3, <1>5, <1>6 DEF IInv, WindowsOK, ListOK, CmdOK

-----------------------------------------------------------------------------

LEMMA StepKeeps == IInv /\ [Next]_vars => IInv' /\ Meant
<1> SUFFICES ASSUME IInv, [Next]_vars
             PROVE  IInv' /\ Meant
  OBVIOUS
<1>0. lua \in BOOLEAN
  BY DEF IInv
<1>1. CASE UNCHANGED vars
  BY <1>0, <1>1, OutsideKeeps DEF vars, hypr, daemon, shell, history
<1>2. ASSUME NEW a \in Addr, CloseWindow(a) \/ MoveFocus(a)
      PROVE  IInv' /\ Meant
  <2>1. CASE CloseWindow(a)
    BY <1>0, <2>1, OutsideKeeps DEF CloseWindow, Step, shell
  <2>2. CASE MoveFocus(a)
    BY <1>0, <2>2, OutsideKeeps DEF MoveFocus, Step, shell
  <2> QED
    BY <1>2, <2>1, <2>2
<1>3. ASSUME NEW a \in Addr, NEW c \in Class, OpenWindow(a, c)
      PROVE  IInv' /\ Meant
  BY <1>0, <1>3, OutsideKeeps DEF OpenWindow, Step, shell
<1>4. ASSUME NEW l \in BOOLEAN, ReloadHyprland(l)
      PROVE  IInv' /\ Meant
  BY <1>4, OutsideKeeps DEF ReloadHyprland, Step, shell
<1>5. ASSUME NEW f \in Apps, Install(f)
      PROVE  IInv' /\ Meant
  BY <1>0, <1>5, OutsideKeeps DEF Install, Step, shell
<1>6. ASSUME NEW ls, Overrides(ls)
      PROVE  IInv' /\ Meant
  BY <1>0, <1>6, OutsideKeeps DEF Overrides, Step, shell
<1> QED
  BY <1>1, <1>2, <1>3, <1>4, <1>5, <1>6, ClickWindowKeeps, ClickAppKeeps,
     ReadStateKeeps, HandleKeeps, RequestKeeps, CatchUpKeeps, DetectKeeps DEF Next

(* A command for one window does something to another only if its window    *)
(* is gone, or if Hyprland takes no Lua and the command was disturbed.      *)
THEOREM CommandsHit == Spec => HitsWhatWasMeant
<1>1. IInv /\ [Next]_vars => [Meant]_vars
  BY StepKeeps
<1> QED
  BY Initial, StepKeeps, <1>1, PTL DEF Spec, HitsWhatWasMeant, Meant

-----------------------------------------------------------------------------
(* icons.c: searches. *)

(* The place of the first entry that passes a test, as SelectInSeq has it. *)
Least(I) == IF I # {} THEN Min(I) ELSE 0

LEMMA LeastIs ==
    ASSUME NEW n \in Nat, NEW I \in SUBSET (1..n)
    PROVE  \/ I = {} /\ Least(I) = 0
           \/ Least(I) \in I /\ Least(I) # 0 /\ \A i \in I : Least(I) <= i
<1>1. I \subseteq Nat /\ 0 \notin I
  OBVIOUS
<1>2. CASE I = {}
  BY <1>2 DEF Least
<1>3. CASE I # {}
  <2>1. \E x \in I : \A y \in I : x <= y
    BY <1>1, <1>3, LeastNat
  <2>2. Min(I) \in I /\ \A y \in I : Min(I) <= y
    BY <2>1 DEF Min
  <2> QED
    BY <1>1, <1>3, <2>2 DEF Least
<1> QED
  BY <1>2, <1>3

LEMMA EntryIs ==
    ASSUME NEW X, NEW t \in Seq(X), NEW c
    PROVE  \/ /\ Entry(t, c) = 0
              /\ \A i \in DOMAIN t : Fold[t[i].class] # Fold[c]
           \/ /\ Entry(t, c) # 0 /\ Entry(t, c) \in DOMAIN t
              /\ Fold[t[Entry(t, c)].class] = Fold[c]
<1> DEFINE I == {i \in 1..Len(t) : Fold[t[i].class] = Fold[c]}
<1>1. Entry(t, c) = Least(I)
  BY Zenon DEF Entry, SelectInSeq, Least
<1>2. DOMAIN t = 1..Len(t) /\ Len(t) \in Nat
  OBVIOUS
<1>3. I \in SUBSET (1..Len(t))
  OBVIOUS
<1>4. \/ I = {} /\ Least(I) = 0
      \/ Least(I) \in I /\ Least(I) # 0
  <2> HIDE DEF I
  <2> QED
    BY <1>2, <1>3, LeastIs, Zenon
<1> QED
  BY <1>1, <1>2, <1>4

(* f is the first of several answers that is one. *)
FirstOf(s, f) ==
    \/ f = NoFile /\ \A i \in DOMAIN s : s[i] = NoFile
    \/ \E n \in DOMAIN s : /\ s[n] # NoFile /\ f = s[n]
                           /\ \A m \in DOMAIN s : m < n => s[m] = NoFile

LEMMA FirstFoundIs ==
    ASSUME NEW X, NEW s \in Seq(X)
    PROVE  FirstOf(s, FirstFound(s))
<1> DEFINE I == {i \in 1..Len(s) : s[i] # NoFile}
           n == Least(I)
<1>1. FirstFound(s) = IF n = 0 THEN NoFile ELSE s[n]
  BY Zenon DEF FirstFound, First, SelectInSeq, Least
<1>2. DOMAIN s = 1..Len(s) /\ Len(s) \in Nat
  OBVIOUS
<1>3. I \in SUBSET (1..Len(s))
  OBVIOUS
<1>4. \/ I = {} /\ n = 0
      \/ n \in I /\ n # 0 /\ \A i \in I : n <= i
  <2> HIDE DEF I
  <2> QED
    BY <1>2, <1>3, LeastIs, Zenon
<1>5. CASE I = {} /\ n = 0
  BY <1>1, <1>2, <1>5, Zenon DEF FirstOf
<1>6. CASE n \in I /\ n # 0 /\ \A i \in I : n <= i
  <2>1. ASSUME NEW m \in DOMAIN s, m < n
        PROVE  s[m] = NoFile
    <3>1. m \in Int /\ n \in Int /\ ~(n <= m)
      <4> HIDE DEF n
      <4> QED
        BY <1>2, <1>6, <2>1
    <3>2. m \notin I
      BY <1>6, <3>1
    <3> QED
      BY <1>2, <3>2
  <2>2. n \in DOMAIN s /\ s[n] # NoFile /\ FirstFound(s) = s[n]
    BY <1>1, <1>2, <1>6, Zenon
  <2> HIDE DEF n
  <2> QED
    BY <2>1, <2>2, Zenon DEF FirstOf
<1> QED
  BY <1>4, <1>5, <1>6

(* What the searches find is one of the files. *)
LEMMA SearchesFind ==
    ASSUME NEW X, NEW s \in Seq(X), NEW c
    PROVE  /\ search_exact(s, c) \in X \cup {NoFile}
           /\ search_lower(s, c) \in X \cup {NoFile}
           /\ search_reverse_domain(s, c) \in X \cup {NoFile}
           /\ search_scan(s, c) \in X \cup {NoFile}
           /\ search_wmclass(s, c) \in X \cup {NoFile}
           /\ scan_anywhere(s, c) \in X \cup {NoFile}
<1>1. ASSUME NEW I \in SUBSET (1..Len(s))
      PROVE  (IF Least(I) = 0 THEN NoFile ELSE s[Least(I)]) \in X \cup {NoFile}
  <2>1. Len(s) \in Nat /\ \A i \in 1..Len(s) : s[i] \in X
    OBVIOUS
  <2>2. Least(I) # 0 => Least(I) \in 1..Len(s)
    BY <2>1, LeastIs, Zenon
  <2> QED
    BY <2>1, <2>2, Zenon
<1>2. ASSUME NEW name
      PROVE  named(s, name) \in X \cup {NoFile}
  <2> DEFINE A == {i \in 1..Len(s) : s[i].suffix = "plain" /\ s[i].stem = name}
  <2>1. named(s, name) = (IF Least(A) = 0 THEN NoFile ELSE s[Least(A)])
    BY Zenon DEF named, First, SelectInSeq, Least
  <2>2. A \in SUBSET (1..Len(s))
    BY Zenon
  <2> HIDE DEF A
  <2> QED
    BY <1>1, <2>1, <2>2, Zenon
<1>3. search_reverse_domain(s, c) \in X \cup {NoFile}
  BY <1>2, Zenon DEF search_reverse_domain
<1> DEFINE C == {i \in 1..Len(s) : <<s[i].stem, Fold[c]>> \in Within}
           D == {i \in 1..Len(s) :
                    s[i].suffix # "more" /\ <<s[i].stem, Fold[c]>> \in Within}
           E == {i \in 1..Len(s) : /\ s[i].suffix # "more"
                                   /\ s[i].wmclass # "" /\ Fold[s[i].wmclass] = Fold[c]}
<1>4. /\ scan_anywhere(s, c) = (IF Least(C) = 0 THEN NoFile ELSE s[Least(C)])
      /\ search_scan(s, c) = (IF Least(D) = 0 THEN NoFile ELSE s[Least(D)])
  BY Zenon DEF scan_anywhere, search_scan, First, SelectInSeq, Least
<1>5. search_wmclass(s, c) = (IF Least(E) = 0 THEN NoFile ELSE s[Least(E)])
  BY Zenon DEF search_wmclass, First, SelectInSeq, Least
<1>6. /\ C \in SUBSET (1..Len(s)) /\ D \in SUBSET (1..Len(s))
      /\ E \in SUBSET (1..Len(s))
  BY Zenon
<1> HIDE DEF C, D, E
<1>7. /\ search_scan(s, c) \in X \cup {NoFile}
      /\ search_wmclass(s, c) \in X \cup {NoFile}
      /\ scan_anywhere(s, c) \in X \cup {NoFile}
  BY <1>1, <1>4, <1>5, <1>6, Zenon
<1> QED
  BY <1>2, <1>3, <1>7, Zenon DEF search_exact, search_lower

(* The two scans agree, if the launcher's comes first to a file whose name  *)
(* ends in .desktop, or to none.                                           *)
LEMMA ScansAgree ==
    ASSUME NEW X, NEW s \in Seq(X), NEW c,
           scan_anywhere(s, c).suffix # "more"
    PROVE  search_scan(s, c) = scan_anywhere(s, c)
<1> DEFINE C == {i \in 1..Len(s) : <<s[i].stem, Fold[c]>> \in Within}
           D == {i \in 1..Len(s) :
                    s[i].suffix # "more" /\ <<s[i].stem, Fold[c]>> \in Within}
           n == Least(C)
<1>1. /\ scan_anywhere(s, c) = (IF n = 0 THEN NoFile ELSE s[n])
      /\ search_scan(s, c) = (IF Least(D) = 0 THEN NoFile ELSE s[Least(D)])
  BY Zenon DEF scan_anywhere, search_scan, First, SelectInSeq, Least
<1>2. Len(s) \in Nat
  OBVIOUS
<1>3. /\ C \in SUBSET (1..Len(s)) /\ D \in SUBSET (1..Len(s)) /\ D \subseteq C
      /\ \A i \in C : s[i].suffix # "more" => i \in D
  BY Zenon
<1> HIDE DEF C, D
<1>4. /\ \/ C = {} /\ n = 0
         \/ n \in C /\ n # 0 /\ \A i \in C : n <= i
      /\ \/ D = {} /\ Least(D) = 0
         \/ Least(D) \in D /\ Least(D) # 0 /\ \A i \in D : Least(D) <= i
  BY <1>2, <1>3, LeastIs, Zenon
<1>7. \A i \in C : i \in Int
  BY <1>3
<1> HIDE DEF n
<1>5. CASE C = {} /\ n = 0
  <2>1. Least(D) = 0
    BY <1>3, <1>4, <1>5
  <2> QED
    BY <1>1, <1>5, <2>1, Zenon
<1>6. CASE n \in C /\ n # 0 /\ \A i \in C : n <= i
  <2>1. s[n].suffix # "more"
    BY <1>1, <1>6, Zenon
  <2>2. n \in D
    BY <1>3, <1>6, <2>1, Zenon
  <2>3. Least(D) \in D /\ Least(D) # 0 /\ Least(D) <= n /\ n <= Least(D)
    BY <1>3, <1>4, <1>6, <2>2
  <2>4. Least(D) \in Int /\ n \in Int
    BY <1>3, <1>6, <1>7, <2>3, Zenon
  <2>5. Least(D) = n
    BY <2>3, <2>4
  <2> QED
    BY <1>1, <1>6, <2>3, <2>5, Zenon
<1> QED
  BY <1>4, <1>5, <1>6

(* The file that gives the icon is one of the files. *)
LEMMA IconFileIs ==
    ASSUME NEW X, NEW s \in Seq(X), NEW c
    PROVE  IconFile(s, c) \in X \cup {NoFile}
<1> DEFINE G == {f \in Range(s) : f.icon # ""}
           P == {k \in DOMAIN s : s[k] \in G}
           w == MembersIn(s, G)
           five == <<search_exact(w, c), search_lower(w, c),
                     search_reverse_domain(w, c), search_scan(w, c),
                     search_wmclass(w, c)>>
<1>1. w \in Seq(X)
  <2>1. P \in SUBSET (DOMAIN s) /\ \A k \in P : s[k] \in X
    <3> HIDE DEF G
    <3> QED
      OBVIOUS
  <2>2. w = EntriesAt(s, P)
    BY Zenon DEF MembersIn
  <2> HIDE DEF P, w
  <2> QED
    BY <2>1, <2>2, EntriesType
<1>2. IconFile(s, c) = FirstFound(five)
  BY Zenon DEF IconFile
<1> HIDE DEF w
<1>3. five \in Seq(X \cup {NoFile})
  BY <1>1, SearchesFind
<1>4. \A i \in DOMAIN five : five[i] \in X \cup {NoFile}
  BY <1>3
<1> HIDE DEF five
<1>5. FirstOf(five, FirstFound(five))
  BY <1>3, FirstFoundIs
<1> QED
  BY <1>2, <1>4, <1>5 DEF FirstOf

LEMMA FirstOfUnique ==
    ASSUME NEW X, NEW s \in Seq(X), NEW f, NEW g, FirstOf(s, f), FirstOf(s, g)
    PROVE  f = g
<1>1. DOMAIN s = 1..Len(s) /\ Len(s) \in Nat
  OBVIOUS
<1>2. ASSUME NEW n \in DOMAIN s, NEW m \in DOMAIN s, s[n] # NoFile, s[m] # NoFile,
             \A k \in DOMAIN s : k < n => s[k] = NoFile,
             \A k \in DOMAIN s : k < m => s[k] = NoFile
      PROVE  n = m
  <2>1. n \in Int /\ m \in Int
    BY <1>1
  <2>2. ~(n < m) /\ ~(m < n)
    BY <1>2
  <2> QED
    BY <2>1, <2>2
<1> QED
  BY <1>2, Zenon DEF FirstOf

(* An answer that is none can be left out. *)
LEMMA SkipNone ==
    ASSUME NEW a, NEW b, NEW d, NEW e
    PROVE  FirstFound(<<a, b, NoFile, d, e>>) = FirstFound(<<a, b, d, e>>)
<1> DEFINE X == {a, b, d, e, NoFile}
           s == <<a, b, NoFile, d, e>>
           t == <<a, b, d, e>>
           f == FirstFound(t)
<1>1. s \in Seq(X) /\ t \in Seq(X)
  OBVIOUS
<1>2. /\ DOMAIN s = 1..5 /\ s[1] = a /\ s[2] = b /\ s[3] = NoFile
      /\ s[4] = d /\ s[5] = e
      /\ DOMAIN t = 1..4 /\ t[1] = a /\ t[2] = b /\ t[3] = d /\ t[4] = e
  OBVIOUS
<1> HIDE DEF X, s, t
<1>3. FirstOf(t, FirstFound(t)) /\ FirstOf(s, FirstFound(s))
  BY <1>1, FirstFoundIs
<1>4. FirstOf(s, f)
  <2> HIDE DEF f
  <2>1. FirstOf(t, f)
    BY <1>3 DEF f
  <2>2. CASE f = NoFile /\ \A i \in DOMAIN t : t[i] = NoFile
    <3>1. a = NoFile /\ b = NoFile /\ d = NoFile /\ e = NoFile
      BY <1>2, <2>2
    <3>2. \A i \in 1..5 : i = 1 \/ i = 2 \/ i = 3 \/ i = 4 \/ i = 5
      OBVIOUS
    <3> QED
      BY <1>2, <2>2, <3>1, <3>2, Zenon DEF FirstOf
  <2>3. ASSUME NEW n \in DOMAIN t, t[n] # NoFile, f = t[n],
               \A m \in DOMAIN t : m < n => t[m] = NoFile
        PROVE  FirstOf(s, f)
    <3> DEFINE p == IF n <= 2 THEN n ELSE n + 1
    <3>1. n \in 1..4
      BY <1>2
    <3>2. p \in 1..5 /\ s[p] = t[n]
      BY <1>2, <3>1
    <3>3. ASSUME NEW m \in 1..5, m < p
          PROVE  s[m] = NoFile
      <4>1. CASE m <= 2
        BY <1>2, <2>3, <3>1, <3>3, <4>1
      <4>2. CASE m = 3
        BY <1>2, <4>2
      <4>3. CASE m > 3
        <5>1. m - 1 \in 1..4 /\ m - 1 < n /\ s[m] = t[m - 1]
          BY <1>2, <3>1, <3>3, <4>3
        <5> QED
          BY <1>2, <2>3, <5>1
      <4> QED
        BY <4>1, <4>2, <4>3
    <3> HIDE DEF p
    <3> QED
      BY <1>2, <2>3, <3>2, <3>3 DEF FirstOf
  <2> QED
    BY <2>1, <2>2, <2>3 DEF FirstOf
<1>5. FirstFound(s) = FirstFound(t)
  BY <1>1, <1>3, <1>4, FirstOfUnique, Zenon
<1> QED
  BY <1>5 DEF s, t

(* An answer behind the first one that is one does not matter. *)
LEMMA EarlyAnswer ==
    ASSUME NEW a, NEW b, NEW d, NEW g, NEW e, a # NoFile \/ b # NoFile
    PROVE  FirstFound(<<a, b, d, e>>) = FirstFound(<<a, b, g, e>>)
<1> DEFINE X == {a, b, d, g, e}
           s == <<a, b, d, e>>
           t == <<a, b, g, e>>
           f == IF a # NoFile THEN a ELSE b
<1>1. s \in Seq(X) /\ t \in Seq(X)
  OBVIOUS
<1>2. /\ DOMAIN s = 1..4 /\ s[1] = a /\ s[2] = b
      /\ DOMAIN t = 1..4 /\ t[1] = a /\ t[2] = b
  OBVIOUS
<1> HIDE DEF X, s, t
<1>3. ASSUME NEW q \in Seq(X), DOMAIN q = 1..4, q[1] = a, q[2] = b
      PROVE  FirstOf(q, f)
  <2>1. CASE a # NoFile
    <3>1. 1 \in DOMAIN q /\ q[1] # NoFile /\ f = q[1]
      BY <1>3, <2>1
    <3>2. \A m \in DOMAIN q : ~(m < 1)
      BY <1>3
    <3> HIDE DEF f
    <3> QED
      BY <3>1, <3>2 DEF FirstOf
  <2>2. CASE a = NoFile
    <3>1. 2 \in DOMAIN q /\ q[2] # NoFile /\ f = q[2]
      BY <1>3, <2>2
    <3>2. \A m \in DOMAIN q : m < 2 => m = 1
      BY <1>3
    <3>3. \A m \in DOMAIN q : m < 2 => q[m] = NoFile
      BY <1>3, <2>2, <3>2
    <3> HIDE DEF f
    <3> QED
      BY <3>1, <3>3 DEF FirstOf
  <2> QED
    BY <2>1, <2>2
<1>4. FirstOf(s, f) /\ FirstOf(t, f)
  BY <1>1, <1>2, <1>3
<1> HIDE DEF f
<1>5. FirstFound(s) = f /\ FirstFound(t) = f
  BY <1>1, <1>4, FirstFoundIs, FirstOfUnique, Zenon
<1> QED
  BY <1>5 DEF s, t

(* If all files have an icon, the last part of the class finds none, and no *)
(* backup is in the way, the file that is launched is the one that gives    *)
(* the icon.                                                               *)
LEMMA SearchesAgree ==
    ASSUME NEW X, NEW s \in Seq(X), NEW c,
           \A f \in Range(s) : f.icon # "",
           search_reverse_domain(s, c) = NoFile,
           ~BackupFirst(s, c)
    PROVE  icons_find_desktop(s, c) = IconFile(s, c)
<1> DEFINE G == {f \in Range(s) : f.icon # ""}
           P == {k \in DOMAIN s : s[k] \in G}
           a == search_exact(s, c)
           b == search_lower(s, c)
           d == search_scan(s, c)
           g == scan_anywhere(s, c)
           e == search_wmclass(s, c)
<1>1. P = DOMAIN s
  BY Zenon DEF Range
<1>2. MembersIn(s, G) = EntriesAt(s, P)
  BY Zenon DEF MembersIn
<1>3. EntriesAt(s, DOMAIN s) = s
  BY EntriesAll
<1>4. MembersIn(s, G) = s
  BY <1>1, <1>2, <1>3, Zenon
<1>5. IconFile(s, c) = FirstFound(<<a, b, NoFile, d, e>>)
  BY <1>4, Zenon DEF IconFile
<1>6. IconFile(s, c) = FirstFound(<<a, b, d, e>>)
  BY <1>5, SkipNone, Zenon
<1>7. icons_find_desktop(s, c) = FirstFound(<<a, b, g, e>>)
  BY Zenon DEF icons_find_desktop
<1>8. a # NoFile \/ b # NoFile \/ g.suffix # "more"
  BY Zenon DEF BackupFirst
<1>9. CASE g.suffix # "more"
  <2>1. d = g
    BY <1>9, ScansAgree, Zenon
  <2> QED
    BY <1>6, <1>7, <2>1, Zenon
<1>10. CASE a # NoFile \/ b # NoFile
  <2> HIDE DEF a, b, d, g, e
  <2>1. FirstFound(<<a, b, d, e>>) = FirstFound(<<a, b, g, e>>)
    BY <1>10, EarlyAnswer, Zenon
  <2> QED
    BY <1>6, <1>7, <2>1, Zenon
<1> QED
  BY <1>8, <1>9, <1>10

-----------------------------------------------------------------------------
(* The cache and the overrides. *)

CacheEntry == [class : Class, icon : Icon]

Caches ==
    {t \in Seq(CacheEntry) :
        /\ Len(t) <= MaxCache
        /\ \A i, j \in DOMAIN t : Fold[t[i].class] = Fold[t[j].class] => i = j}

OverrideLines == [class : Class, icon : STRING]
OverrideTables == {t \in Seq(OverrideLines) : Len(t) <= MaxCache}

LEMMA SearchIs ==
    ASSUME NEW s \in Seq(Apps), NEW c
    PROVE  search(s, c) \in Icon
<1>1. IconFile(s, c) \in Apps \cup {NoFile}
  BY IconFileIs
<1> QED
  BY <1>1, Zenon DEF search, Icon

LEMMA InsertKeeps ==
    ASSUME NEW t \in Caches, NEW c \in Class, NEW icon \in Icon, Entry(t, c) = 0
    PROVE  cache_insert(t, c, icon) \in Caches
<1> DEFINE e == [class |-> c, icon |-> icon]
           u == IF Len(t) >= MaxCache THEN Tail(t) ELSE t
           v == u \o <<e>>
<1>1. /\ t \in Seq(CacheEntry) /\ Len(t) \in Nat /\ Len(t) <= MaxCache
      /\ \A i, j \in DOMAIN t : Fold[t[i].class] = Fold[t[j].class] => i = j
      /\ DOMAIN t = 1..Len(t) /\ MaxCache \in Nat /\ MaxCache >= 1
  BY CacheAssumption DEF Caches
<1>2. \A i \in DOMAIN t : Fold[t[i].class] # Fold[c]
  BY <1>1, EntryIs
<1>3. e \in CacheEntry /\ e.class = c
  BY DEF CacheEntry
<1> HIDE DEF e
<1>4. /\ u \in Seq(CacheEntry) /\ Len(u) \in Nat /\ Len(u) + 1 <= MaxCache
      /\ \E d \in Nat : \A i \in 1..Len(u) : i + d \in DOMAIN t /\ u[i] = t[i + d]
  <2>1. CASE Len(t) >= MaxCache
    <3>1. t # <<>> /\ u = Tail(t)
      BY <1>1, <2>1
    <3> HIDE DEF u
    <3>2. /\ u \in Seq(CacheEntry) /\ Len(u) = Len(t) - 1
          /\ \A i \in 1..Len(u) : u[i] = t[i + 1]
      BY <1>1, <3>1, HeadTailProperties
    <3>3. \A i \in 1..Len(u) : i + 1 \in DOMAIN t
      BY <1>1, <3>2
    <3>4. Len(u) \in Nat /\ Len(u) + 1 <= MaxCache
      BY <1>1, <3>2
    <3>5. 1 \in Nat
      OBVIOUS
    <3> QED
      BY <3>2, <3>3, <3>4, <3>5, Zenon
  <2>2. CASE ~(Len(t) >= MaxCache)
    <3>1. u = t /\ Len(t) + 1 <= MaxCache
      BY <1>1, <2>2
    <3> HIDE DEF u
    <3>2. \A i \in 1..Len(u) : i + 0 \in DOMAIN t /\ u[i] = t[i + 0]
      BY <1>1, <3>1
    <3>3. 0 \in Nat
      OBVIOUS
    <3> QED
      BY <1>1, <3>1, <3>2, <3>3, Zenon
  <2> QED
    BY <2>1, <2>2
<1> HIDE DEF u
<1>5. PICK d \in Nat : \A i \in 1..Len(u) : i + d \in DOMAIN t /\ u[i] = t[i + d]
  BY <1>4
<1>6. /\ v \in Seq(CacheEntry) /\ Len(v) = Len(u) + 1
      /\ \A i \in 1..Len(u) : v[i] = t[i + d]
      /\ v[Len(u) + 1] = e /\ DOMAIN v = 1..(Len(u) + 1)
  BY <1>3, <1>4, <1>5
<1> HIDE DEF v
<1>7. ASSUME NEW i \in DOMAIN v, NEW j \in DOMAIN v,
             Fold[v[i].class] = Fold[v[j].class]
      PROVE  i = j
  <2>1. CASE i \in 1..Len(u) /\ j \in 1..Len(u)
    <3>1. /\ i + d \in DOMAIN t /\ j + d \in DOMAIN t
          /\ v[i] = t[i + d] /\ v[j] = t[j + d]
      BY <1>5, <1>6, <2>1
    <3>2. i + d = j + d
      BY <1>1, <1>7, <3>1, Zenon
    <3> QED
      BY <1>4, <2>1, <3>2
  <2>2. CASE i = Len(u) + 1 /\ j \in 1..Len(u)
    BY <1>2, <1>3, <1>5, <1>6, <1>7, <2>2
  <2>3. CASE i \in 1..Len(u) /\ j = Len(u) + 1
    BY <1>2, <1>3, <1>5, <1>6, <1>7, <2>3
  <2>4. \A k \in DOMAIN v : k \in 1..Len(u) \/ k = Len(u) + 1
    BY <1>4, <1>6
  <2> QED
    BY <2>1, <2>2, <2>3, <2>4
<1>8. v \in Caches
  BY <1>4, <1>6, <1>7 DEF Caches
<1> QED
  BY <1>8 DEF cache_insert, v, u, e

LEMMA GetNameKeeps ==
    ASSUME NEW s \in Seq(Apps), NEW o, NEW t \in Caches, NEW c \in Class
    PROVE  icons_get_name(s, o, t, c).cache \in Caches
<1>1. search(s, c) \in Icon
  BY SearchIs
<1>2. Entry(t, c) = 0 => cache_insert(t, c, search(s, c)) \in Caches
  BY <1>1, InsertKeeps
<1>3. \A i, u : Answer(i, u).cache = u
  BY DEF Answer
<1> QED
  BY <1>2, <1>3, Zenon DEF icons_get_name

LEMMA CacheAfterKeeps ==
    ASSUME files \in Seq(Apps), NEW t \in Caches, NEW cs \in Seq(Class)
    PROVE  CacheAfter(t, cs) \in Caches
<1> DEFINE N == Len(cs)
           Up(h, n) == icons_get_name(files, s_overrides, h, cs[n]).cache
           Is(f) == f = [n \in 0..N |-> IF n = 0 THEN t ELSE Up(f[n - 1], n)]
           g == [p \in Caches \X (1..N) |-> Up(p[1], p[2])]
           f == CHOOSE f : Is(f)
<1>0. N \in Nat /\ \A n \in 1..N : cs[n] \in Class
  OBVIOUS
<1>1. \A h \in Caches, n \in 1..N : Up(h, n) \in Caches
  BY <1>0, GetNameKeeps
<1>2. CacheAfter(t, cs) = f[N]
  BY Zenon DEF CacheAfter
<1> HIDE DEF N, Up
<1>3. g \in [Caches \X (1..N) -> Caches]
  BY <1>1
<1>4. \A h \in Caches, n \in 1..N : g[<<h, n>>] = Up(h, n)
  OBVIOUS
<1> HIDE DEF g
<1>5. PICK h : Iterates(h, g, t, N, Caches)
  BY <1>0, <1>3, Iterate
<1>6. h \in [0..N -> Caches] /\ h[0] = t /\ \A n \in 1..N : h[n] = g[<<h[n - 1], n>>]
  BY <1>5 DEF Iterates
<1>7. \A n \in 1..N : n - 1 \in 0..N /\ n \in 0..N
  BY <1>0
<1>8. Is(h)
  <2>1. ASSUME NEW n \in 0..N
        PROVE  h[n] = IF n = 0 THEN t ELSE Up(h[n - 1], n)
    <3>1. n # 0 => n \in 1..N
      BY <1>0
    <3> QED
      BY <1>4, <1>6, <1>7, <3>1
  <2> QED
    BY <1>6, <2>1
<1>9. Is(f)
  BY <1>8
<1> HIDE DEF f
<1>10. f[0] = t /\ \A n \in 1..N : f[n] = Up(f[n - 1], n)
  <2>1. \A n \in 0..N : f[n] = IF n = 0 THEN t ELSE Up(f[n - 1], n)
    BY <1>9, Zenon
  <2> QED
    BY <1>0, <1>7, <2>1
<1>11. f[N] \in Caches
  <2> SUFFICES ASSUME f[N] \notin Caches PROVE FALSE
    OBVIOUS
  <2> DEFINE T == {n \in 0..N : f[n] \notin Caches}
  <2>1. T \subseteq Nat /\ T # {}
    BY <1>0
  <2>2. PICK n \in T : \A m \in T : n <= m
    <3> HIDE DEF T
    <3> QED
      BY <2>1, LeastNat
  <2>3. n # 0 /\ n \in 1..N
    BY <1>0, <1>10
  <2>4. f[n - 1] \in Caches
    <3>1. n - 1 \in 0..N /\ ~(n <= n - 1)
      BY <1>0, <2>3
    <3> QED
      BY <2>2, <3>1
  <2> QED
    BY <1>1, <1>10, <2>3, <2>4
<1> QED
  BY <1>2, <1>11

LEMMA SetOverrideKeeps ==
    ASSUME NEW t \in OverrideTables, NEW l \in OverrideLines
    PROVE  icons_set_override(t, l) \in OverrideTables
<1> DEFINE n == Entry(t, l.class)
<1>1. /\ t \in Seq(OverrideLines) /\ Len(t) \in Nat /\ Len(t) <= MaxCache
      /\ DOMAIN t = 1..Len(t) /\ MaxCache \in Nat
  BY CacheAssumption DEF OverrideTables
<1>2. n # 0 => n \in DOMAIN t
  BY <1>1, EntryIs
<1> HIDE DEF n
<1>3. CASE n # 0
  <2> DEFINE r == t[n]
             Z == STRING
  <2>r. r \in OverrideLines
    BY <1>1, <1>2, <1>3
  <2>l. \A x \in OverrideLines : x \in [class : Class, icon : Z]
    BY DEF OverrideLines
  <2> HIDE DEF r, Z
  <2>0. r \in [class : Class, icon : Z] /\ l.icon \in Z
    BY <2>r, <2>l
  <2>a. [r EXCEPT !.icon = l.icon] \in [class : Class, icon : Z]
    BY <2>0
  <2>1. [t[n] EXCEPT !.icon = l.icon] \in OverrideLines
    BY <2>a DEF OverrideLines, r, Z
  <2>2. [t EXCEPT ![n].icon = l.icon] \in OverrideTables
    BY <1>1, <1>2, <1>3, <2>1 DEF OverrideTables
  <2> QED
    BY <1>3, <2>2 DEF icons_set_override, n
<1>4. CASE n = 0 /\ Len(t) < MaxCache
  <2>1. Append(t, l) \in OverrideTables
    BY <1>1, <1>4 DEF OverrideTables
  <2> QED
    BY <1>4, <2>1 DEF icons_set_override, n
<1>5. CASE n = 0 /\ ~(Len(t) < MaxCache)
  BY <1>5 DEF icons_set_override, n
<1> QED
  BY <1>3, <1>4, <1>5

LEMMA OverridesKeeps ==
    ASSUME NEW ls \in Seq(OverrideLines)
    PROVE  OverridesOf(ls) \in OverrideTables
<1> DEFINE N == Len(ls)
           Up(h, n) == icons_set_override(h, ls[n])
           Is(f) == f = [n \in 0..N |-> IF n = 0 THEN <<>> ELSE Up(f[n - 1], n)]
           g == [p \in OverrideTables \X (1..N) |-> Up(p[1], p[2])]
           f == CHOOSE f : Is(f)
<1>0. N \in Nat /\ \A n \in 1..N : ls[n] \in OverrideLines
  OBVIOUS
<1>1. \A h \in OverrideTables, n \in 1..N : Up(h, n) \in OverrideTables
  BY <1>0, SetOverrideKeeps
<1>2. OverridesOf(ls) = f[N]
  BY Zenon DEF OverridesOf
<1>3. <<>> \in OverrideTables
  BY CacheAssumption DEF OverrideTables
<1> HIDE DEF N, Up
<1>4. g \in [OverrideTables \X (1..N) -> OverrideTables]
  BY <1>1
<1>5. \A h \in OverrideTables, n \in 1..N : g[<<h, n>>] = Up(h, n)
  OBVIOUS
<1> HIDE DEF g
<1>6. PICK h : Iterates(h, g, <<>>, N, OverrideTables)
  BY <1>0, <1>3, <1>4, Iterate
<1>7. /\ h \in [0..N -> OverrideTables] /\ h[0] = <<>>
      /\ \A n \in 1..N : h[n] = g[<<h[n - 1], n>>]
  BY <1>6 DEF Iterates
<1>8. \A n \in 1..N : n - 1 \in 0..N /\ n \in 0..N
  BY <1>0
<1>9. Is(h)
  <2>1. ASSUME NEW n \in 0..N
        PROVE  h[n] = IF n = 0 THEN <<>> ELSE Up(h[n - 1], n)
    <3>1. n # 0 => n \in 1..N
      BY <1>0
    <3> QED
      BY <1>5, <1>7, <1>8, <3>1
  <2> QED
    BY <1>7, <2>1
<1>10. Is(f)
  BY <1>9
<1> HIDE DEF f
<1>11. f[0] = <<>> /\ \A n \in 1..N : f[n] = Up(f[n - 1], n)
  <2>1. \A n \in 0..N : f[n] = IF n = 0 THEN <<>> ELSE Up(f[n - 1], n)
    BY <1>10, Zenon
  <2> QED
    BY <1>0, <1>8, <2>1
<1>12. f[N] \in OverrideTables
  <2> SUFFICES ASSUME f[N] \notin OverrideTables PROVE FALSE
    OBVIOUS
  <2> DEFINE T == {n \in 0..N : f[n] \notin OverrideTables}
  <2>1. T \subseteq Nat /\ T # {}
    BY <1>0
  <2>2. PICK n \in T : \A m \in T : n <= m
    <3> HIDE DEF T
    <3> QED
      BY <2>1, LeastNat
  <2>3. n # 0 /\ n \in 1..N
    BY <1>0, <1>3, <1>11
  <2>4. f[n - 1] \in OverrideTables
    <3>1. n - 1 \in 0..N /\ ~(n <= n - 1)
      BY <1>0, <2>3
    <3> QED
      BY <2>2, <3>1
  <2> QED
    BY <1>1, <1>11, <2>3, <2>4
<1> QED
  BY <1>2, <1>12

-----------------------------------------------------------------------------
(* Types. *)

TypeInv ==
    /\ focus \in DOMAIN at \cup {NoAddr}
    /\ reloaded \in BOOLEAN /\ calm \in BOOLEAN
    /\ now = NoCmd \/ now \in Cmd
    /\ files \in Seq(Apps)
    /\ s_cache \in Caches /\ s_overrides \in OverrideTables
    /\ steps \in 0..MaxSteps /\ cmds \in 0..MaxCmds /\ fails \in 0..MaxFails

(* The list of the daemon has the classes of its windows: that of a window   *)
(* does not change.                                                         *)
ClientsOK ==
    /\ IsFiniteSet(DOMAIN at)
    /\ clients \in Seq([addr : Addr, id : Nat, class : Class])
    /\ \A i \in DOMAIN clients, a \in DOMAIN at :
          at[a].id = clients[i].id => at[a].class = clients[i].class

TInv == IInv /\ TypeInv /\ ClientsOK

LEMMA InitialTypes == Init => TInv
<1> SUFFICES ASSUME Init PROVE TInv
  OBVIOUS
<1>1. /\ at = <<>> /\ focus = NoAddr /\ files = <<>> /\ clients = <<>>
      /\ steps = 0 /\ cmds = 0 /\ fails = 0
  BY Zenon DEF Init
<1>2. /\ reloaded = FALSE /\ calm = FALSE /\ now = NoCmd
      /\ s_overrides = <<>> /\ s_cache = CacheAfter(<<>>, AtStart)
  BY Zenon DEF Init
<1>3. <<>> \in Caches /\ <<>> \in OverrideTables
  BY CacheAssumption DEF Caches, OverrideTables
<1>4. files \in Seq(Apps)
  BY <1>1
<1>5. AtStart \in Seq(Class)
  BY CommandsAssumption
<1>6. s_cache \in Caches
  BY <1>2, <1>3, <1>4, <1>5, CacheAfterKeeps, Zenon
<1>7. reloaded \in BOOLEAN /\ calm \in BOOLEAN
  BY <1>2
<1>8. steps \in 0..MaxSteps /\ cmds \in 0..MaxCmds /\ fails \in 0..MaxFails
  BY <1>1, CommandsAssumption
<1>9. focus \in DOMAIN at \cup {NoAddr} /\ s_overrides \in OverrideTables
  BY <1>1, <1>2, <1>3
<1>10. TypeInv
  BY <1>2, <1>4, <1>6, <1>7, <1>8, <1>9, Zenon DEF TypeInv
<1>11. DOMAIN at = {} /\ DOMAIN clients = {}
  BY <1>1
<1>12. IsFiniteSet(DOMAIN at)
  BY <1>11, FS_EmptySet
<1>13. ClientsOK
  BY <1>1, <1>11, <1>12 DEF ClientsOK
<1> QED
  BY <1>10, <1>13, Initial DEF TInv

(* A command of a window names it. *)
Named(c) == c.cmd \in ByClick => c.addr \in Addr

LEMMA ClickWindowCmd ==
    ASSUME IInv, ClickWindow
    PROVE  \E c \in Cmd : Named(c) /\ Click(c)
<1>1. PICK i \in DOMAIN shown, cmd \in ByClick :
         Click([cmd |-> cmd, addr |-> shown[i].addr, id |-> shown[i].id,
                class |-> shown[i].class])
  BY DEF ClickWindow
<1>2. /\ shown[i].addr \in Addr /\ shown[i].class \in Class
      /\ Known(shown[i].addr, shown[i].id)
  BY DEF IInv, ListOK
<1>3. shown[i].id \in Nat
  BY <1>2 DEF Known, IInv, WindowsOK
<1> DEFINE c == [cmd |-> cmd, addr |-> shown[i].addr, id |-> shown[i].id,
                 class |-> shown[i].class]
<1>4. c \in Cmd /\ Named(c)
  BY <1>2, <1>3 DEF Cmd, Named
<1>5. Click(c)
  BY <1>1
<1> HIDE DEF c
<1> QED
  BY <1>4, <1>5

LEMMA ClickAppCmd ==
    ASSUME ClickApp
    PROVE  \E c \in Cmd : Named(c) /\ Click(c)
<1>1. PICK cl \in Class, cmd \in {"close_all", "launch"} :
         Click([cmd |-> cmd, addr |-> NoAddr, id |-> 0, class |-> cl])
  BY DEF ClickApp
<1> DEFINE c == [cmd |-> cmd, addr |-> NoAddr, id |-> 0, class |-> cl]
<1>2. c \in Cmd /\ Named(c)
  BY DEF Cmd, Named, ByClick
<1>3. Click(c)
  BY <1>1
<1> HIDE DEF c
<1> QED
  BY <1>2, <1>3

LEMMA OpenTypes ==
    ASSUME TInv, NEW b \in Addr, NEW c \in Class, OpenWindow(b, c)
    PROVE  TypeInv' /\ ClientsOK'
<1>1. /\ opened' = opened + 1 /\ b \notin DOMAIN at /\ focus' = b
      /\ steps < MaxSteps /\ steps' = steps + 1 /\ calm' = FALSE
      /\ UNCHANGED <<clients, files, s_cache, s_overrides, reloaded, now, cmds, fails>>
  BY DEF OpenWindow, Step, shell
<1>2. /\ DOMAIN at' = DOMAIN at \cup {b}
      /\ at'[b] = [id |-> opened + 1, class |-> c]
      /\ \A d \in DOMAIN at : at'[d] = at[d]
  BY <1>1 DEF OpenWindow
<1>3. IsFiniteSet(DOMAIN at \cup {b})
  BY FS_AddElement DEF TInv, ClientsOK
<1>4. steps' \in 0..MaxSteps
  BY <1>1, CommandsAssumption DEF TInv, TypeInv
<1>5. TypeInv'
  BY <1>1, <1>2, <1>4 DEF TInv, TypeInv
<1>6. \A i \in DOMAIN clients : clients[i].id \in 1..opened /\ opened \in Nat
  BY DEF TInv, IInv, ListOK, Known, WindowsOK
<1>7. ASSUME NEW i \in DOMAIN clients, NEW a \in DOMAIN at', at'[a].id = clients[i].id
      PROVE  at'[a].class = clients[i].class
  <2>1. a # b
    BY <1>2, <1>6, <1>7
  <2> QED
    BY <1>2, <1>7, <2>1 DEF TInv, ClientsOK
<1>8. ClientsOK'
  BY <1>1, <1>2, <1>3, <1>7 DEF TInv, ClientsOK
<1> QED
  BY <1>5, <1>8

LEMMA CloseTypes ==
    ASSUME TInv, NEW b \in Addr, CloseWindow(b)
    PROVE  TypeInv' /\ ClientsOK'
<1>1. /\ b \in DOMAIN at /\ focus' = IF focus = b THEN NoAddr ELSE focus
      /\ steps < MaxSteps /\ steps' = steps + 1 /\ calm' = FALSE
      /\ UNCHANGED <<clients, files, s_cache, s_overrides, reloaded, now, cmds, fails>>
  BY DEF CloseWindow, Step, shell
<1>2. /\ DOMAIN at' = DOMAIN at \ {b}
      /\ \A d \in DOMAIN at' : at'[d] = at[d]
  BY DEF CloseWindow
<1>3. IsFiniteSet(DOMAIN at \ {b})
  BY FS_RemoveElement DEF TInv, ClientsOK
<1>4. steps' \in 0..MaxSteps
  BY <1>1, CommandsAssumption DEF TInv, TypeInv
<1>5. focus' \in DOMAIN at' \cup {NoAddr}
  BY <1>1, <1>2 DEF TInv, TypeInv
<1>6. TypeInv'
  BY <1>1, <1>4, <1>5 DEF TInv, TypeInv
<1>7. ClientsOK'
  BY <1>1, <1>2, <1>3 DEF TInv, ClientsOK
<1> QED
  BY <1>6, <1>7

LEMMA CatchUpTypes ==
    ASSUME TInv, CatchUp
    PROVE  TypeInv' /\ ClientsOK'
<1> DEFINE W == [addr : Addr, id : Nat, class : Class]
           w(a) == [addr |-> a, id |-> at[a].id, class |-> at[a].class]
           S == {w(a) : a \in DOMAIN at}
           cs == [i \in DOMAIN clients' |-> clients'[i].class]
<1>1. /\ clients' \in SetToSeqs(S)
      /\ s_cache' = CacheAfter(s_cache, cs)
      /\ UNCHANGED <<at, focus, files, s_overrides, reloaded, calm, now, steps,
                     cmds, fails>>
  BY DEF CatchUp, hypr, shell, history
<1>2. \A a \in DOMAIN at : w(a) \in W
  BY DEF TInv, IInv, WindowsOK, Known
<1>3. S \subseteq W
  BY <1>2
<1>4. IsFiniteSet(S)
  <2>1. IsFiniteSet(DOMAIN at)
    BY DEF TInv, ClientsOK
  <2> HIDE DEF w
  <2>2. [a \in DOMAIN at |-> w(a)] \in Surjection(DOMAIN at, S)
    BY DEF Surjection
  <2> QED
    BY <2>1, <2>2, FS_Surjection
<1>5. Cardinality(S) \in Nat
  BY <1>4, FS_CardinalityType
<1>6. clients' \in [1..Cardinality(S) -> S]
  <2> HIDE DEF S
  <2> QED
    BY <1>1 DEF SetToSeqs
<1>7. clients' \in Seq(W) /\ \A i \in DOMAIN clients' : clients'[i] \in S
  <2> HIDE DEF S, W
  <2> QED
    BY <1>3, <1>5, <1>6
<1>8. cs \in Seq(Class)
  <2>1. \A i \in DOMAIN clients' : clients'[i].class \in Class
    BY <1>7
  <2>2. DOMAIN clients' = 1..Len(clients') /\ Len(clients') \in Nat
    BY <1>7
  <2> QED
    BY <2>1, <2>2
<1>9. s_cache' \in Caches
  <2> HIDE DEF cs
  <2> QED
    BY <1>1, <1>8, CacheAfterKeeps DEF TInv, TypeInv
<1>10. TypeInv'
  BY <1>1, <1>9 DEF TInv, TypeInv
<1>11. \A a, b \in DOMAIN at : at[a].id = at[b].id => a = b
  BY DEF TInv, IInv, WindowsOK, Known
<1>12. ASSUME NEW i \in DOMAIN clients', NEW a \in DOMAIN at, at[a].id = clients'[i].id
       PROVE  at[a].class = clients'[i].class
  <2>1. PICK b \in DOMAIN at : clients'[i] = w(b)
    BY <1>7
  <2> QED
    BY <1>11, <1>12, <2>1
<1> HIDE DEF S
<1>13. ClientsOK'
  BY <1>1, <1>7, <1>12 DEF TInv, ClientsOK
<1> QED
  BY <1>10, <1>13

LEMMA RequestTypes ==
    ASSUME TInv, Request
    PROVE  TypeInv' /\ ClientsOK'
<1>1. UNCHANGED <<at, files, clients, s_cache, s_overrides, reloaded, now, steps, cmds>>
  BY DEF Request, daemon, shell, icons
<1>2. \/ focus' \in DOMAIN at \cup {focus} /\ UNCHANGED <<fails, calm>>
      \/ fails < MaxFails /\ fails' = fails + 1 /\ calm' = FALSE /\ focus' = focus
  BY DEF Request
<1>a. calm \in BOOLEAN
  BY DEF TInv, TypeInv
<1>b. calm' \in BOOLEAN
  BY <1>2, <1>a
<1>c. focus' \in DOMAIN at' \cup {NoAddr}
  BY <1>1, <1>2, CommandsAssumption DEF TInv, TypeInv
<1>d. fails' \in 0..MaxFails
  BY <1>2, CommandsAssumption DEF TInv, TypeInv
<1>3. focus' \in DOMAIN at' \cup {NoAddr} /\ calm' \in BOOLEAN /\ fails' \in 0..MaxFails
  BY <1>b, <1>c, <1>d
<1> QED
  BY <1>1, <1>3 DEF TInv, TypeInv, ClientsOK

(* Steps that leave the windows and the list of the daemon alone. *)
LEMMA OtherTypes ==
    ASSUME TInv,
           UNCHANGED <<at, clients, s_cache>>,
           focus' \in DOMAIN at \cup {NoAddr},
           reloaded' \in BOOLEAN, calm' \in BOOLEAN,
           now' \in {now} \cup Cmd,
           files' \in Seq(Apps), s_overrides' \in OverrideTables,
           steps' \in 0..MaxSteps, cmds' \in 0..MaxCmds, fails' \in 0..MaxFails
    PROVE  TypeInv' /\ ClientsOK'
BY DEF TInv, TypeInv, ClientsOK

LEMMA HappeningTypes ==
    ASSUME TInv, NEW op, Step(op), at' = at,
           focus' \in DOMAIN at \cup {NoAddr},
           reloaded' \in BOOLEAN,
           files' \in Seq(Apps), s_overrides' \in OverrideTables
    PROVE  TypeInv' /\ ClientsOK'
<1>1. /\ UNCHANGED <<clients, s_cache, now, cmds, fails>>
      /\ calm' = FALSE /\ steps < MaxSteps /\ steps' = steps + 1
  BY DEF Step, shell
<1>2. steps' \in 0..MaxSteps
  BY <1>1, CommandsAssumption DEF TInv, TypeInv
<1> QED
  BY <1>1, <1>2, OtherTypes DEF TInv, TypeInv

LEMMA StepTypes == TInv /\ [Next]_vars => TypeInv' /\ ClientsOK'
<1> SUFFICES ASSUME TInv, [Next]_vars
             PROVE  TypeInv' /\ ClientsOK'
  OBVIOUS
<1>0. /\ focus \in DOMAIN at \cup {NoAddr} /\ reloaded \in BOOLEAN
      /\ calm \in BOOLEAN /\ files \in Seq(Apps)
      /\ s_overrides \in OverrideTables /\ steps \in 0..MaxSteps
      /\ cmds \in 0..MaxCmds /\ fails \in 0..MaxFails
  BY DEF TInv, TypeInv
<1>1. CASE UNCHANGED vars
  BY <1>0, <1>1, OtherTypes DEF vars, hypr, daemon, shell, history, icons
<1>2. ASSUME NEW a \in Addr, CloseWindow(a) \/ MoveFocus(a)
      PROVE  TypeInv' /\ ClientsOK'
  <2>1. CASE CloseWindow(a)
    BY <2>1, CloseTypes
  <2>2. CASE MoveFocus(a)
    BY <1>0, <2>2, HappeningTypes DEF MoveFocus
  <2> QED
    BY <1>2, <2>1, <2>2
<1>3. ASSUME NEW a \in Addr, NEW c \in Class, OpenWindow(a, c)
      PROVE  TypeInv' /\ ClientsOK'
  BY <1>3, OpenTypes
<1>4. ASSUME NEW l \in BOOLEAN, ReloadHyprland(l)
      PROVE  TypeInv' /\ ClientsOK'
  BY <1>0, <1>4, HappeningTypes DEF ReloadHyprland
<1>5. ASSUME NEW f \in Apps, Install(f)
      PROVE  TypeInv' /\ ClientsOK'
  <2>1. files' = Append(files, f) \/ files' = <<f>> \o files
    BY <1>5 DEF Install
  <2>a. <<f>> \in Seq(Apps)
    OBVIOUS
  <2>b. Append(files, f) \in Seq(Apps)
    BY <1>0
  <2>c. <<f>> \o files \in Seq(Apps)
    BY <1>0, <2>a, ConcatProperties
  <2>2. files' \in Seq(Apps)
    BY <2>1, <2>b, <2>c, Zenon
  <2> QED
    BY <1>0, <1>5, <2>2, HappeningTypes DEF Install
<1>6. ASSUME NEW ls \in BoundedSeq(Override, 2), Overrides(ls)
      PROVE  TypeInv' /\ ClientsOK'
  <2>1. PICK n \in 0..2 : ls \in [1..n -> Override]
    BY Zenon DEF BoundedSeq, SeqOf
  <2>2. Override \subseteq OverrideLines
    BY CommandsAssumption DEF OverrideLines
  <2>3. ls \in Seq(OverrideLines)
    BY <2>1, <2>2
  <2>4. s_overrides' \in OverrideTables
    BY <1>6, <2>3, OverridesKeeps DEF Overrides
  <2> QED
    BY <1>0, <1>6, <2>4, HappeningTypes DEF Overrides
<1>7. ASSUME NEW c \in Cmd, Click(c)
      PROVE  TypeInv' /\ ClientsOK'
  <2>1. cmds' \in 0..MaxCmds
    BY <1>0, <1>7, CommandsAssumption DEF Click
  <2> QED
    BY <1>0, <1>7, <2>1, OtherTypes DEF Click, hypr, daemon, icons, history
<1>8. CASE ReadState
  BY <1>0, <1>8, OtherTypes DEF ReadState, hypr, daemon, icons, history
<1>9. CASE handle_command
  <2>1. stdin # <<>> /\ now' = Head(stdin) /\ stdin \in Seq(Cmd)
    BY <1>9 DEF handle_command, TInv, IInv
  <2>2. now' \in Cmd
    BY <2>1
  <2>3. calm' \in BOOLEAN
    BY <1>9, Zenon DEF handle_command
  <2> QED
    BY <1>0, <1>9, <2>2, <2>3, OtherTypes DEF handle_command, hypr, icons
<1>10. CASE detect_dispatch_syntax
  <2>1. fails' \in 0..MaxFails
    <3>1. fails' = fails \/ (fails < MaxFails /\ fails' = fails + 1)
      BY <1>10, Zenon DEF detect_dispatch_syntax
    <3> QED
      BY <1>0, <3>1, CommandsAssumption
  <2> QED
    BY <1>0, <1>10, <2>1, OtherTypes
       DEF detect_dispatch_syntax, hypr, icons, shell, history
<1> QED
  BY <1>1, <1>2, <1>3, <1>4, <1>5, <1>6, <1>7, <1>8, <1>9, <1>10, ClickWindowCmd,
     ClickAppCmd, CatchUpTypes, RequestTypes DEF Next, TInv

LEMMA KeepTypes == Spec => []TInv
<1>1. TInv /\ [Next]_vars => TInv'
  BY StepTypes, StepKeeps DEF TInv
<1> QED
  BY <1>1, InitialTypes, PTL DEF Spec

(* Every variable has its type, and the cache and the overrides never       *)
(* outgrow their arrays, for any number of windows, apps and happenings.   *)
THEOREM TypeCorrect == Spec => []TypeOK
<1>1. TInv => TypeOK
  <2> SUFFICES ASSUME TInv PROVE TypeOK
    OBVIOUS
  <2>1. now.cmd \in ByClick \cup {"", "close_all", "launch"}
    <3>1. CASE now = NoCmd
      BY <3>1, Zenon DEF NoCmd
    <3>2. CASE now \in Cmd
      <4>1. now.cmd \in ByClick \cup {"close_all", "launch"}
        BY <3>2 DEF Cmd
      <4> QED
        BY <4>1, Zenon
    <3> QED
      BY <3>1, <3>2 DEF TInv, TypeInv
  <2>2. \A list \in {clients, shown} : IdsOf(list) \subseteq 1..opened
    BY DEF TInv, IInv, ListOK, Known, IdsOf
  <2>3. Range(files) \subseteq Apps
    BY DEF TInv, TypeInv, Range
  <2>4. Len(s_cache) <= MaxCache /\ Len(s_overrides) <= MaxCache
    BY DEF TInv, TypeInv, Caches, OverrideTables
  <2>5. DOMAIN at \subseteq Addr
    BY DEF TInv, IInv, WindowsOK
  <2>6. /\ lua \in BOOLEAN /\ use_lua_dispatch \in BOOLEAN
        /\ reloaded \in BOOLEAN /\ calm \in BOOLEAN
    BY Zenon DEF TInv, IInv, TypeInv
  <2>7. /\ focus \in DOMAIN at \cup {NoAddr}
        /\ steps \in 0..MaxSteps /\ cmds \in 0..MaxCmds /\ fails \in 0..MaxFails
    BY DEF TInv, TypeInv
  <2> QED
    BY <2>1, <2>2, <2>3, <2>4, <2>5, <2>6, <2>7, Zenon DEF TypeOK
<1> QED
  BY <1>1, KeepTypes, PTL

(* The cache has one entry for a class, and no override stays in it: an     *)
(* override that is gone from config.ini is gone from the dock.            *)
THEOREM CacheIsSound ==
    ASSUME OverridesDiffer
    PROVE  Spec => []CacheSound
<1>1. TInv => CacheSound
  <2> SUFFICES ASSUME TInv PROVE CacheSound
    OBVIOUS
  <2>1. /\ s_cache \in Seq(CacheEntry)
        /\ \A i, j \in DOMAIN s_cache :
              Fold[s_cache[i].class] = Fold[s_cache[j].class] => i = j
    BY DEF TInv, TypeInv, Caches
  <2>2. \A e \in CacheEntry : e.icon \in Icon
    BY DEF CacheEntry
  <2>3. \A i \in DOMAIN s_cache : s_cache[i].icon \in Icon
    BY <2>1, <2>2
  <2> QED
    BY <2>1, <2>3, Zenon DEF CacheSound, OverridesDiffer
<1> QED
  BY <1>1, KeepTypes, PTL

-----------------------------------------------------------------------------
(* What a command has done, and has yet to do. *)

(* Request i does w to a window.  One of a command for a window does it to   *)
(* that window, by TodoOK.                                                  *)
Moot(i) == todo[i].do = "focus" /\ todo[i].addr = NoAddr
Does(i, w) ==
    /\ todo[i].do = w[1] /\ ~Moot(i)
    /\ now.addr = NoAddr => at[todo[i].addr].id = w[2]

(* The requests of close_all are for windows of its class. *)
Aimed ==
    now.addr = NoAddr =>
        \A i \in DOMAIN todo :
            /\ todo[i].lua = use_lua_dispatch /\ todo[i].do = "close"
            /\ now.cmd = "close_all"
            /\ todo[i].addr \in DOMAIN at
            /\ Fold[at[todo[i].addr].class] = Fold[now.class]

Targets == {w[2] : w \in Wanted(now)}

DoneInv ==
    calm =>
        /\ now \in Cmd /\ todo \in Seq(Rq)
        /\ todo # <<>> => use_lua_dispatch = lua
        /\ Aimed
        /\ (now.addr # NoAddr => Open(now.id)) =>
              /\ \A h \in hit : h[2] \in Targets
              /\ \A w \in Wanted(now) :
                    w \in hit \/ \E i \in DOMAIN todo : Does(i, w)

ClicksInv == \A i \in DOMAIN stdin : Named(stdin[i])

DInv == TInv /\ ClicksInv /\ DoneInv

LEMMA DoneStays ==
    ASSUME DoneInv,
           ~calm' \/ /\ UNCHANGED <<at, now, hit, todo, calm>>
                     /\ UNCHANGED <<lua, use_lua_dispatch>> \/ todo = <<>>
    PROVE  DoneInv'
<1>1. CASE ~calm'
  BY <1>1 DEF DoneInv
<1>2. CASE UNCHANGED <<at, now, hit, todo, calm, lua, use_lua_dispatch>>
  BY <1>2 DEF DoneInv, Aimed, Targets, Wanted, Does, Moot, Open
<1>3. CASE UNCHANGED <<at, now, hit, todo, calm>> /\ todo = <<>>
  <2>1. DOMAIN todo = {}
    BY <1>3
  <2>2. Aimed'
    BY <1>3, <2>1 DEF Aimed
  <2> QED
    BY <1>3, <2>1, <2>2 DEF DoneInv, Targets, Wanted, Does, Moot, Open
<1> QED
  BY <1>1, <1>2, <1>3

(* Some request of a command does what the command says. *)
LEMMA RequestsDo ==
    ASSUME IInv, NEW c \in Cmd, c.cmd \in ByClick, c.addr \in Addr
    PROVE  \E i \in DOMAIN Requests(c) :
               /\ Requests(c)[i].do = c.cmd
               /\ ~(Requests(c)[i].do = "focus" /\ Requests(c)[i].addr = NoAddr)
<1>1. \A do, a : Req(do, a).do = do /\ Req(do, a).addr = a
  BY DEF Req
<1>2. c.addr # NoAddr
  BY CommandsAssumption
<1>3. CASE c.cmd = "focus"
  <2>1. Requests(c) = hypr_ipc_focus_window(c.addr)
    BY <1>3 DEF Requests
  <2>2. 1 \in DOMAIN Requests(c) /\ Requests(c)[1] = Req("focus", c.addr)
    BY <2>1 DEF hypr_ipc_focus_window
  <2> QED
    BY <1>1, <1>2, <1>3, <2>2
<1>4. CASE c.cmd = "toggle_fullscreen"
  <2>1. Requests(c) = hypr_ipc_toggle_fullscreen(c.addr)
    BY <1>4 DEF Requests
  <2>2. CASE use_lua_dispatch
    <3>1. /\ 1 \in DOMAIN Requests(c)
          /\ Requests(c)[1] = Req("toggle_fullscreen", c.addr)
      BY <2>1, <2>2 DEF hypr_ipc_toggle_fullscreen
    <3> QED
      BY <1>1, <1>4, <3>1
  <2>3. CASE ~use_lua_dispatch
    <3>1. Requests(c) = <<Req("focus", c.addr), Req("raise", NoAddr)>>
                           \o <<Req("toggle_fullscreen", NoAddr)>>
      <4>1. Requests(c) = hypr_ipc_focus_window(c.addr)
                             \o <<Req("toggle_fullscreen", NoAddr)>>
        BY <2>1, <2>3, Zenon DEF hypr_ipc_toggle_fullscreen
      <4>2. hypr_ipc_focus_window(c.addr)
               = <<Req("focus", c.addr), Req("raise", NoAddr)>>
        BY <2>3, Zenon DEF hypr_ipc_focus_window
      <4> QED
        BY <4>1, <4>2, Zenon
    <3>2. 3 \in DOMAIN Requests(c) /\ Requests(c)[3] = Req("toggle_fullscreen", NoAddr)
      <4> DEFINE X == {Req("focus", c.addr), Req("raise", NoAddr),
                       Req("toggle_fullscreen", NoAddr)}
      <4>1. /\ <<Req("focus", c.addr), Req("raise", NoAddr)>> \in Seq(X)
            /\ <<Req("toggle_fullscreen", NoAddr)>> \in Seq(X)
        OBVIOUS
      <4> HIDE DEF X
      <4> QED
        BY <3>1, <4>1, ConcatProperties
    <3> QED
      BY <1>1, <1>4, <3>2
  <2> QED
    BY <2>2, <2>3
<1>5. CASE c.cmd \in {"close", "toggle_float", "move_to_ws"}
  <2>1. Requests(c) = <<Req(c.cmd, c.addr)>>
    BY <1>5 DEF Requests
  <2>2. 1 \in DOMAIN Requests(c) /\ Requests(c)[1] = Req(c.cmd, c.addr)
    BY <2>1
  <2> QED
    BY <1>1, <1>2, <2>2
<1> QED
  BY <1>3, <1>4, <1>5 DEF ByClick

(* close_all makes one request for each listed window of the class. *)
LEMMA CloseAllIs ==
    ASSUME TInv, NEW c
    PROVE  LET S == {i \in DOMAIN clients : Fold[clients[i].class] = Fold[c]}
           IN  /\ CloseAll(c) \in Seq(Rq)
               /\ \A j \in DOMAIN CloseAll(c) :
                     \E i \in S : CloseAll(c)[j] = Req("close", clients[i].addr)
               /\ \A i \in S : \E j \in DOMAIN CloseAll(c) :
                     CloseAll(c)[j] = Req("close", clients[i].addr)
<1> DEFINE W == [addr : Addr, id : Nat, class : Class]
           S == {i \in DOMAIN clients : Fold[clients[i].class] = Fold[c]}
           of == EntriesAt(clients, S)
           n == Len(of)
           r == [i \in DOMAIN of |-> Req("close", of[n - i + 1].addr)]
<1>1. clients \in Seq(W) /\ use_lua_dispatch \in BOOLEAN
  BY DEF TInv, ClientsOK, IInv
<1>2. CloseAll(c) = r
  BY Zenon DEF CloseAll
<1> HIDE DEF W
<1>3. S \in SUBSET (DOMAIN clients) /\ \A i \in S : clients[i] \in W
  <2>1. \A i \in DOMAIN clients : clients[i] \in W
    BY <1>1
  <2>2. S \subseteq DOMAIN clients
    OBVIOUS
  <2> QED
    BY <2>1, <2>2
<1> HIDE DEF S
<1>4. /\ of \in Seq(W) /\ DOMAIN of = 1..Cardinality(S) /\ n = Cardinality(S)
      /\ n \in Nat
      /\ \A k \in 1..n : of[k] = clients[Nth(S, k)] /\ Nth(S, k) \in S
  BY <1>1, <1>3, EntriesType
<1>5. \A i \in S : \E k \in 1..n : of[k] = clients[i]
  BY <1>1, <1>3, <1>4, EntriesCover
<1> HIDE DEF of, n
<1>6. \A k \in 1..n : n - k + 1 \in 1..n /\ n - (n - k + 1) + 1 = k
  BY <1>4
<1>7. DOMAIN r = 1..n /\ \A k \in 1..n : r[k] = Req("close", of[n - k + 1].addr)
  BY <1>4
<1>8. r \in Seq(Rq)
  <2>1. \A w \in W : Req("close", w.addr) \in Rq
    BY <1>1 DEF W, Req, Rq, ByClick
  <2>2. \A k \in 1..n : of[n - k + 1] \in W
    BY <1>4, <1>6
  <2>3. \A k \in 1..n : Req("close", of[n - k + 1].addr) \in Rq
    BY <2>1, <2>2
  <2> QED
    BY <1>4, <2>3
<1> HIDE DEF r
<1>9. ASSUME NEW j \in DOMAIN r
      PROVE  \E i \in S : r[j] = Req("close", clients[i].addr)
  <2>1. j \in 1..n /\ n - j + 1 \in 1..n
    BY <1>6, <1>7
  <2>2. Nth(S, n - j + 1) \in S /\ of[n - j + 1] = clients[Nth(S, n - j + 1)]
    BY <1>4, <2>1
  <2> QED
    BY <1>7, <2>1, <2>2
<1>10. ASSUME NEW i \in S
       PROVE  \E j \in DOMAIN r : r[j] = Req("close", clients[i].addr)
  <2>1. PICK k \in 1..n : of[k] = clients[i]
    BY <1>5
  <2>2. n - k + 1 \in DOMAIN r /\ r[n - k + 1] = Req("close", of[k].addr)
    BY <1>6, <1>7
  <2> QED
    BY <2>1, <2>2
<1>11. /\ CloseAll(c) \in Seq(Rq)
       /\ \A j \in DOMAIN CloseAll(c) :
             \E i \in S : CloseAll(c)[j] = Req("close", clients[i].addr)
       /\ \A i \in S : \E j \in DOMAIN CloseAll(c) :
             CloseAll(c)[j] = Req("close", clients[i].addr)
  BY <1>2, <1>8, <1>9, <1>10
<1> QED
  BY <1>11 DEF S

(* Clients, when it is up to date, has the windows and their classes. *)
LEMMA UpToDateIs ==
    ASSUME TInv, UpToDate(clients)
    PROVE  /\ \A i \in DOMAIN clients :
                 /\ clients[i].addr \in DOMAIN at
                 /\ at[clients[i].addr].id = clients[i].id
                 /\ at[clients[i].addr].class = clients[i].class
           /\ \A a \in DOMAIN at : \E i \in DOMAIN clients :
                 clients[i].addr = a /\ clients[i].class = at[a].class
<1> DEFINE A == {<<clients[i].addr, clients[i].id>> : i \in DOMAIN clients}
           B == {<<a, at[a].id>> : a \in DOMAIN at}
<1>1. A = B
  BY DEF UpToDate
<1>2. \A i \in DOMAIN clients, a \in DOMAIN at :
          at[a].id = clients[i].id => at[a].class = clients[i].class
  BY DEF TInv, ClientsOK
<1>3. ASSUME NEW i \in DOMAIN clients
      PROVE  /\ clients[i].addr \in DOMAIN at
             /\ at[clients[i].addr].id = clients[i].id
             /\ at[clients[i].addr].class = clients[i].class
  <2>1. <<clients[i].addr, clients[i].id>> \in B
    BY <1>1
  <2> QED
    BY <1>2, <2>1
<1>4. ASSUME NEW a \in DOMAIN at
      PROVE  \E i \in DOMAIN clients :
                 clients[i].addr = a /\ clients[i].class = at[a].class
  <2>1. <<a, at[a].id>> \in A
    BY <1>1
  <2> QED
    BY <1>2, <2>1
<1> QED
  BY <1>3, <1>4

LEMMA HandleDone ==
    ASSUME DInv, handle_command
    PROVE  DoneInv'
<1> SUFFICES ASSUME calm' PROVE DoneInv'
  BY DEF DoneInv
<1> DEFINE c == Head(stdin)
<1>1. /\ stdin # <<>> /\ now' = c /\ todo' = Requests(c) /\ hit' = {}
      /\ UNCHANGED <<at, lua, use_lua_dispatch, clients>>
  BY DEF handle_command, hypr
<1>2. UpToDate(clients) /\ use_lua_dispatch = lua
  BY DEF handle_command
<1>3. c \in Cmd /\ (c.addr # NoAddr => c.cmd \in ByClick) /\ Named(c)
  <2>1. stdin \in Seq(Cmd) /\ \A i \in DOMAIN stdin : CmdOK(stdin[i]) /\ Named(stdin[i])
    BY DEF DInv, TInv, IInv, ClicksInv
  <2>2. c = stdin[1] /\ 1 \in DOMAIN stdin
    BY <1>1, <2>1
  <2> QED
    BY <2>1, <2>2 DEF CmdOK
<1> HIDE DEF c
<1>4. TInv
  BY DEF DInv
<1>5. CASE c.cmd \in ByClick
  <2>1. c.addr \in Addr /\ c.addr # NoAddr
    BY <1>3, <1>5, CommandsAssumption DEF Named
  <2>2. PICK i \in DOMAIN Requests(c) :
               /\ Requests(c)[i].do = c.cmd
               /\ ~(Requests(c)[i].do = "focus" /\ Requests(c)[i].addr = NoAddr)
    BY <1>3, <1>4, <1>5, <2>1, RequestsDo DEF TInv
  <2>3. Requests(c) \in Seq(Rq)
    BY <1>3, <1>4, <1>5, <2>1, RequestsOK DEF TInv
  <2>4. Wanted(now)' = {<<c.cmd, c.id>>}
    BY <1>1, <1>5 DEF Wanted, ByClick
  <2>5. \A w : w = <<c.cmd, c.id>> => Does(i, w)'
    <3> SUFFICES ASSUME NEW w, w = <<c.cmd, c.id>>
                 PROVE  Does(i, w)'
      OBVIOUS
    <3>1. w[1] = c.cmd
      OBVIOUS
    <3>2. todo'[i].do = w[1] /\ now'.addr # NoAddr
      BY <1>1, <2>1, <2>2, <3>1
    <3>3. ~(todo'[i].do = "focus" /\ todo'[i].addr = NoAddr)
      BY <1>1, <2>2
    <3> QED
      BY <3>2, <3>3, Zenon DEF Does, Moot
  <2>6. Aimed'
    BY <1>1, <2>1 DEF Aimed
  <2>7. \A w \in Wanted(now)' : \E j \in DOMAIN todo' : Does(j, w)'
    BY <1>1, <2>2, <2>4, <2>5
  <2> QED
    BY <1>1, <1>2, <1>3, <2>3, <2>6, <2>7 DEF DoneInv
<1>6. CASE c.cmd = "close_all"
  <2> DEFINE S == {i \in DOMAIN clients : Fold[clients[i].class] = Fold[c.class]}
  <2>0. c.addr = NoAddr /\ Requests(c) = CloseAll(c.class)
    BY <1>3, <1>6 DEF Requests, ByClick
  <2>1. /\ todo' \in Seq(Rq)
        /\ \A j \in DOMAIN todo' :
              \E i \in S : todo'[j] = Req("close", clients[i].addr)
        /\ \A i \in S : \E j \in DOMAIN todo' :
              todo'[j] = Req("close", clients[i].addr)
    BY <1>1, <1>4, <2>0, CloseAllIs
  <2>2. \A a : /\ Req("close", a).do = "close" /\ Req("close", a).addr = a
               /\ Req("close", a).lua = use_lua_dispatch
    BY DEF Req
  <2>3. Aimed'
    <3> SUFFICES ASSUME NEW j \in DOMAIN todo'
                 PROVE  /\ todo'[j].lua = use_lua_dispatch' /\ todo'[j].do = "close"
                        /\ now'.cmd = "close_all"
                        /\ todo'[j].addr \in DOMAIN at'
                        /\ Fold[at'[todo'[j].addr].class] = Fold[now'.class]
      BY DEF Aimed
    <3>1. PICK i \in S : todo'[j] = Req("close", clients[i].addr)
      BY <2>1
    <3>2. /\ clients[i].addr \in DOMAIN at
          /\ at[clients[i].addr].class = clients[i].class
      BY <1>2, <1>4, UpToDateIs
    <3> QED
      BY <1>1, <1>6, <2>2, <3>1, <3>2
  <2>4. ASSUME NEW w \in Wanted(now)'
        PROVE  \E j \in DOMAIN todo' : Does(j, w)'
    <3>1. PICK a \in DOMAIN at : /\ w = <<"close", at[a].id>>
                                 /\ Fold[at[a].class] = Fold[c.class]
      BY <1>1, <1>6 DEF Wanted
    <3>2. PICK i \in DOMAIN clients :
             clients[i].addr = a /\ clients[i].class = at[a].class
      BY <1>2, <1>4, UpToDateIs
    <3>3. i \in S
      BY <3>1, <3>2
    <3>4. PICK j \in DOMAIN todo' : todo'[j] = Req("close", clients[i].addr)
      BY <2>1, <3>3
    <3>5. todo'[j].do = "close" /\ todo'[j].addr = a
      BY <2>2, <3>2, <3>4
    <3>6. Does(j, w)'
      BY <1>1, <3>1, <3>5 DEF Does, Moot
    <3> QED
      BY <3>6
  <2> QED
    BY <1>1, <1>2, <1>3, <2>1, <2>3, <2>4 DEF DoneInv
<1>7. CASE c.cmd = "launch"
  <2>1. Requests(c) = <<>>
    BY <1>7 DEF Requests
  <2>2. todo' = <<>> /\ DOMAIN todo' = {} /\ todo' \in Seq(Rq)
    BY <1>1, <2>1
  <2>3. Wanted(now)' = {}
    BY <1>1, <1>7 DEF Wanted, ByClick
  <2>4. Aimed'
    BY <2>2 DEF Aimed
  <2> QED
    BY <1>1, <1>3, <2>2, <2>3, <2>4 DEF DoneInv
<1> QED
  BY <1>3, <1>5, <1>6, <1>7 DEF Cmd

LEMMA RequestDone ==
    ASSUME DInv, Request
    PROVE  DoneInv'
<1> SUFFICES ASSUME calm' PROVE DoneInv'
  BY DEF DoneInv
<1> DEFINE r == Head(todo)
           a == IF r.addr = NoAddr THEN focus ELSE r.addr
           done == r.lua = lua /\ a \in DOMAIN at
           moot == r.do = "focus" /\ r.addr = NoAddr
<1>1. /\ todo # <<>> /\ todo' = Tail(todo)
      /\ UNCHANGED <<at, lua, now, use_lua_dispatch>>
  BY DEF Request, daemon
<1>2. /\ hit' = IF done /\ ~moot THEN hit \cup {<<r.do, at[a].id>>} ELSE hit
      /\ calm
  BY DEF Request
<1>3. /\ now \in Cmd /\ todo \in Seq(Rq) /\ use_lua_dispatch = lua /\ Aimed
      /\ (now.addr # NoAddr => Open(now.id)) =>
              /\ \A h \in hit : h[2] \in Targets
              /\ \A w \in Wanted(now) :
                    w \in hit \/ \E i \in DOMAIN todo : Does(i, w)
  BY <1>1, <1>2 DEF DInv, DoneInv
<1>4. /\ r = todo[1] /\ 1 \in DOMAIN todo /\ todo' \in Seq(Rq)
      /\ \A i \in DOMAIN todo' : i + 1 \in DOMAIN todo /\ todo'[i] = todo[i + 1]
      /\ \A i \in DOMAIN todo : i # 1 => i - 1 \in DOMAIN todo' /\ todo'[i - 1] = todo[i]
  <2>1. Len(todo) \in Nat /\ DOMAIN todo = 1..Len(todo) /\ Len(todo) >= 1
    BY <1>1, <1>3
  <2>2. /\ todo' \in Seq(Rq) /\ Len(todo') = Len(todo) - 1
        /\ \A i \in 1..Len(todo') : todo'[i] = todo[i + 1]
    BY <1>1, <1>3, HeadTailProperties
  <2>3. DOMAIN todo' = 1..(Len(todo) - 1)
    BY <2>2
  <2>4. r = todo[1] /\ 1 \in DOMAIN todo
    BY <1>1, <1>3, <2>1
  <2>5. \A i \in DOMAIN todo' : i + 1 \in DOMAIN todo /\ todo'[i] = todo[i + 1]
    BY <2>1, <2>2, <2>3
  <2>6. \A i \in DOMAIN todo : i # 1 => /\ i - 1 \in DOMAIN todo'
                                        /\ (i - 1) + 1 = i
    BY <2>1, <2>3
  <2> QED
    BY <2>2, <2>4, <2>5, <2>6
<1> HIDE DEF r
<1>5. Aimed'
  BY <1>1, <1>3, <1>4 DEF Aimed
<1>6. Wanted(now)' = Wanted(now) /\ Targets' = Targets /\ (Open(now.id)' <=> Open(now.id))
  BY <1>1 DEF Wanted, Targets, Open
<1>7. \A w : \A i \in DOMAIN todo :
         i # 1 /\ Does(i, w) => Does(i - 1, w)' /\ i - 1 \in DOMAIN todo'
  BY <1>1, <1>4 DEF Does, Moot
<1> SUFFICES ASSUME now.addr # NoAddr => Open(now.id)
             PROVE  /\ \A h \in hit' : h[2] \in Targets
                    /\ \A w \in Wanted(now) :
                          w \in hit' \/ \E i \in DOMAIN todo' : Does(i, w)'
  BY <1>1, <1>3, <1>4, <1>5, <1>6 DEF DoneInv
<1>8. /\ ~moot => done /\ at[a].id \in Targets
      /\ ~moot => \A w \in Wanted(now) : Does(1, w) => w = <<r.do, at[a].id>>
  <2>1. CASE now.addr = NoAddr
    <3>1. /\ r.lua = use_lua_dispatch /\ r.do = "close" /\ now.cmd = "close_all"
          /\ r.addr \in DOMAIN at /\ Fold[at[r.addr].class] = Fold[now.class]
      BY <1>3, <1>4, <2>1 DEF Aimed
    <3>2. r.addr # NoAddr
      BY <3>1, CommandsAssumption DEF DInv, TInv, IInv, WindowsOK
    <3>3. a = r.addr /\ done
      BY <1>3, <3>1, <3>2
    <3>4. Wanted(now) = {<<"close", at[x].id>> :
                 x \in {b \in DOMAIN at : Fold[at[b].class] = Fold[now.class]}}
      BY <3>1 DEF Wanted
    <3>5. <<"close", at[a].id>> \in Wanted(now)
      BY <3>1, <3>3, <3>4
    <3>6. at[a].id \in Targets
      <4>1. <<"close", at[a].id>>[2] \in Targets
        BY <3>5 DEF Targets
      <4> QED
        BY <4>1
    <3>7. ASSUME NEW w \in Wanted(now), Does(1, w)
          PROVE  w = <<r.do, at[a].id>>
      <4>1. PICK x : w = <<"close", x>>
        BY <3>4
      <4>2. w[1] = "close" /\ w[2] = x
        BY <4>1
      <4>3. at[r.addr].id = w[2]
        BY <1>4, <2>1, <3>7 DEF Does
      <4> QED
        BY <3>1, <3>3, <4>1, <4>2, <4>3
    <3> QED
      BY <3>3, <3>6, <3>7
  <2>2. CASE now.addr # NoAddr
    <3>1. /\ Known(now.addr, now.id) /\ now.cmd \in ByClick
          /\ r.lua = use_lua_dispatch /\ r.addr \in {now.addr, NoAddr}
          /\ r.addr = NoAddr =>
                IF use_lua_dispatch THEN r.do = "focus" ELSE FocusHere
      BY <1>4, <2>2 DEF DInv, TInv, IInv, CmdOK, TodoOK, FocusBefore
    <3>2. now.addr \in DOMAIN at /\ at[now.addr].id = now.id
      BY <2>2, <3>1 DEF Known, Open
    <3>3. ~moot => a = now.addr
      BY <1>2, <2>2, <3>1 DEF FocusHere
    <3>4. Wanted(now) = {<<now.cmd, now.id>>}
      BY <3>1 DEF Wanted, ByClick
    <3>5. now.id \in Targets
      BY <3>4 DEF Targets
    <3>6. ASSUME NEW w \in Wanted(now), Does(1, w)
          PROVE  w = <<r.do, now.id>>
      <4>1. w = <<now.cmd, now.id>> /\ w[1] = now.cmd
        BY <3>4
      <4>2. r.do = w[1]
        BY <1>4, <3>6 DEF Does
      <4> QED
        BY <4>1, <4>2
    <3> QED
      BY <1>3, <3>1, <3>2, <3>3, <3>5, <3>6
  <2> QED
    BY <2>1, <2>2
<1>9. \A w : Does(1, w) => ~moot
  BY <1>4 DEF Does, Moot
<1>10. \A h \in hit' : h[2] \in Targets
  <2>1. \A h \in hit : h[2] \in Targets
    BY <1>3
  <2>2. <<r.do, at[a].id>>[2] = at[a].id
    OBVIOUS
  <2> HIDE DEF a, moot, done
  <2> QED
    BY <1>2, <1>8, <2>1, <2>2
<1>11. ASSUME NEW w \in Wanted(now)
       PROVE  w \in hit' \/ \E i \in DOMAIN todo' : Does(i, w)'
  <2> HIDE DEF a, moot, done
  <2>1. CASE w \in hit
    BY <1>2, <2>1
  <2>2. CASE Does(1, w)
    BY <1>2, <1>8, <1>9, <2>2
  <2>3. ASSUME NEW i \in DOMAIN todo, i # 1, Does(i, w)
        PROVE  \E j \in DOMAIN todo' : Does(j, w)'
    BY <1>7, <2>3
  <2> QED
    BY <1>3, <2>1, <2>2, <2>3
<1> QED
  BY <1>10, <1>11

LEMMA AppendIs ==
    ASSUME NEW X, NEW q \in Seq(X)
    PROVE  /\ q \o <<>> = q
           /\ \A x \in X : q \o <<x>> = Append(q, x) /\ <<x>> \in Seq(X)
           /\ q \in Seq(Range(q)) /\ Range(q) \subseteq X
<1>1. q \o <<>> = q
  OBVIOUS
<1>2. \A x \in X : q \o <<x>> = Append(q, x) /\ <<x>> \in Seq(X)
  OBVIOUS
<1>3. q \in Seq(Range(q))
  <2>1. DOMAIN q = 1..Len(q) /\ Len(q) \in Nat /\ q = [i \in 1..Len(q) |-> q[i]]
    OBVIOUS
  <2>2. \A i \in 1..Len(q) : q[i] \in Range(q)
    BY <2>1, Zenon DEF Range
  <2> DEFINE R == Range(q)
  <2> HIDE DEF R
  <2>3. \A i \in 1..Len(q) : q[i] \in R
    BY <2>2 DEF R
  <2>4. q \in Seq(R)
    BY <2>1, <2>3
  <2> QED
    BY <2>4 DEF R
<1>4. Range(q) \subseteq X
  BY DEF Range
<1> QED
  BY <1>1, <1>2, <1>3, <1>4

Spawn == [class : Class, exec : {f.exec : f \in Apps \cup {NoFile}}]
SpawnedInv == spawned \in Seq(Spawn)

LInv == DInv /\ SpawnedInv

LEMMA SpawnIs ==
    ASSUME NEW c \in Class, NEW f \in Apps \cup {NoFile}
    PROVE  [class |-> c, exec |-> f.exec] \in Spawn
BY DEF Spawn

LEMMA LaunchIs ==
    ASSUME files \in Seq(Apps), NEW c \in Class
    PROVE  Launch(c) \in Seq(Spawn)
<1> DEFINE f == icons_find_desktop(files, c)
           s == [class |-> c, exec |-> f.exec]
           four == <<search_exact(files, c), search_lower(files, c),
                     scan_anywhere(files, c), search_wmclass(files, c)>>
<1>1. four \in Seq(Apps \cup {NoFile})
  BY SearchesFind
<1>2. \A i \in DOMAIN four : four[i] \in Apps \cup {NoFile}
  BY <1>1
<1>3. f = FirstFound(four)
  BY Zenon DEF icons_find_desktop
<1> HIDE DEF four
<1>4. f \in Apps \cup {NoFile}
  BY <1>1, <1>2, <1>3, FirstFoundIs DEF FirstOf
<1>5. Launch(c) = <<>> \/ Launch(c) = <<s>>
  BY Zenon DEF Launch
<1> HIDE DEF f
<1>6. s \in Spawn
  BY <1>4 DEF Spawn
<1> HIDE DEF s
<1>7. <<>> \in Seq(Spawn) /\ <<s>> \in Seq(Spawn)
  BY <1>6, AppendIs
<1> QED
  BY <1>5, <1>7, Zenon

LEMMA InitialDone == Init => LInv
<1> SUFFICES ASSUME Init PROVE LInv
  OBVIOUS
<1>1. calm = FALSE /\ stdin = <<>> /\ spawned = <<>>
  BY Zenon DEF Init
<1>2. DoneInv /\ ClicksInv /\ SpawnedInv
  BY <1>1 DEF DoneInv, ClicksInv, SpawnedInv
<1> QED
  BY <1>2, InitialTypes DEF LInv, DInv

(* A step leaves the commands, the programs and what was asked alone, or    *)
(* ends the calm, or it is one of these.                                   *)
LEMMA StepDone == LInv /\ [Next]_vars => DoneInv' /\ ClicksInv' /\ SpawnedInv'
<1> SUFFICES ASSUME LInv, [Next]_vars
             PROVE  DoneInv' /\ ClicksInv' /\ SpawnedInv'
  OBVIOUS
<1>0. /\ DoneInv /\ ClicksInv /\ SpawnedInv /\ stdin \in Seq(Cmd)
      /\ files \in Seq(Apps)
  BY DEF LInv, DInv, TInv, TypeInv, IInv
<1>1. CASE UNCHANGED vars
  <2>1. UNCHANGED <<at, now, hit, todo, calm, lua, use_lua_dispatch, stdin, spawned>>
    BY <1>1 DEF vars, hypr, daemon, shell, history
  <2> QED
    BY <1>0, <2>1, DoneStays DEF ClicksInv, SpawnedInv
<1>2. ASSUME NEW op, Step(op)
      PROVE  DoneInv' /\ ClicksInv' /\ SpawnedInv'
  <2>1. ~calm' /\ UNCHANGED <<stdin, spawned>>
    BY <1>2 DEF Step, shell
  <2> QED
    BY <1>0, <2>1, DoneStays DEF ClicksInv, SpawnedInv
<1>3. ASSUME NEW c \in Cmd, Named(c), Click(c)
      PROVE  DoneInv' /\ ClicksInv' /\ SpawnedInv'
  <2>1. /\ stdin' = Append(stdin, c)
        /\ UNCHANGED <<at, now, hit, todo, calm, lua, use_lua_dispatch, spawned>>
    BY <1>3 DEF Click, hypr, daemon, history
  <2>2. \A i \in DOMAIN stdin' :
           (i \in DOMAIN stdin /\ stdin'[i] = stdin[i]) \/ stdin'[i] = c
    BY <1>0, <2>1
  <2>3. ClicksInv'
    BY <1>0, <1>3, <2>2 DEF ClicksInv
  <2> QED
    BY <1>0, <2>1, <2>3, DoneStays DEF SpawnedInv
<1>4. CASE ReadState
  <2>1. UNCHANGED <<at, now, hit, todo, calm, lua, use_lua_dispatch, stdin, spawned>>
    BY <1>4 DEF ReadState, hypr, daemon, history
  <2> QED
    BY <1>0, <2>1, DoneStays DEF ClicksInv, SpawnedInv
<1>5. CASE handle_command
  <2>1. stdin # <<>> /\ stdin' = Tail(stdin) /\ now' = Head(stdin)
    BY <1>5 DEF handle_command
  <2>2. \A i \in DOMAIN stdin' : i + 1 \in DOMAIN stdin /\ stdin'[i] = stdin[i + 1]
    BY <1>0, <2>1
  <2>3. ClicksInv'
    BY <1>0, <2>2 DEF ClicksInv
  <2>a. \A c \in Cmd : c.class \in Class
    BY DEF Cmd
  <2>4. now'.class \in Class
    BY <1>0, <2>1, <2>a
  <2>5. spawned' = spawned \o Launch(now'.class) \/ spawned' = spawned \o <<>>
    BY <1>5, Zenon DEF handle_command
  <2>6. Launch(now'.class) \in Seq(Spawn) /\ <<>> \in Seq(Spawn)
    BY <1>0, <2>4, LaunchIs
  <2>7. SpawnedInv'
    BY <1>0, <2>5, <2>6, ConcatProperties DEF SpawnedInv
  <2> QED
    BY <1>5, <2>3, <2>7, HandleDone DEF LInv
<1>6. CASE Request
  <2>1. UNCHANGED <<stdin, spawned>>
    BY <1>6 DEF Request, daemon, shell
  <2> QED
    BY <1>0, <1>6, <2>1, RequestDone DEF LInv, ClicksInv, SpawnedInv
<1>7. CASE CatchUp
  <2>1. UNCHANGED <<at, now, hit, todo, calm, lua, use_lua_dispatch, stdin, spawned>>
    BY <1>7 DEF CatchUp, hypr, shell, history
  <2> QED
    BY <1>0, <2>1, DoneStays DEF ClicksInv, SpawnedInv
<1>8. CASE detect_dispatch_syntax
  <2>1. /\ todo = <<>>
        /\ UNCHANGED <<at, now, hit, todo, calm, stdin, spawned>>
    BY <1>8 DEF detect_dispatch_syntax, hypr, shell, history
  <2> QED
    BY <1>0, <2>1, DoneStays DEF ClicksInv, SpawnedInv
<1>9. (\E c \in Cmd : Named(c) /\ Click(c)) => DoneInv' /\ ClicksInv' /\ SpawnedInv'
  BY <1>3
<1>10. ClickWindow \/ ClickApp => DoneInv' /\ ClicksInv' /\ SpawnedInv'
  BY <1>9, ClickWindowCmd, ClickAppCmd DEF LInv, DInv, TInv
<1>11. ASSUME \/ \E a \in Addr : CloseWindow(a) \/ MoveFocus(a)
              \/ \E a \in Addr, c \in Class : OpenWindow(a, c)
              \/ \E l \in BOOLEAN : ReloadHyprland(l)
              \/ \E f \in Apps : Install(f)
              \/ \E ls \in BoundedSeq(Override, 2) : Overrides(ls)
       PROVE  \E op : Step(op)
  BY <1>11, Zenon DEF CloseWindow, MoveFocus, OpenWindow, ReloadHyprland,
     Install, Overrides
<1> QED
  BY <1>1, <1>2, <1>4, <1>5, <1>6, <1>7, <1>8, <1>10, <1>11 DEF Next

LEMMA KeepDone == Spec => []LInv
<1>1. LInv /\ [Next]_vars => LInv'
  BY StepDone, StepTypes, StepKeeps DEF LInv, DInv, TInv
<1> QED
  BY <1>1, InitialDone, PTL DEF Spec

(* A command whose window is there and that nothing disturbs is done, to    *)
(* all the windows it is for and to no others, in both languages.           *)
THEOREM CommandsAreDone == Spec => []DoneAsTold
<1>1. LInv => DoneAsTold
  <2> SUFFICES ASSUME LInv, calm, todo = <<>>, now.addr # NoAddr => Open(now.id)
               PROVE  /\ Wanted(now) \subseteq hit
                      /\ {h[2] : h \in hit} = {h[2] : h \in Wanted(now)}
    BY DEF DoneAsTold
  <2>1. DOMAIN todo = {}
    OBVIOUS
  <2>2. /\ \A h \in hit : h[2] \in Targets
        /\ \A w \in Wanted(now) : w \in hit
    BY <2>1 DEF LInv, DInv, DoneInv
  <2> QED
    BY <2>2 DEF Targets
<1> QED
  BY <1>1, KeepDone, PTL

(* What LaunchesWhatIsShown says of a step. *)
Launches ==
    \A c \in Class :
          /\ stdin # <<>> /\ stdin' = Tail(stdin)
          /\ Head(stdin).cmd = "launch" /\ Head(stdin).class = c
          /\ \A f \in Range(files) : f.icon # "" /\ f.exec # ""
          /\ search_reverse_domain(files, c) = NoFile
          /\ ~BackupFirst(files, c)
          => LET f == IconFile(files, c)
             IN  IF f = NoFile THEN spawned' = spawned
                 ELSE spawned' = Append(spawned, [class |-> c, exec |-> f.exec])

(* Only a command that is handled leaves the queue of commands. *)
LEMMA HandledLeaves ==
    ASSUME stdin \in Seq(Cmd), [Next]_vars, stdin # <<>>, stdin' = Tail(stdin)
    PROVE  handle_command
<1>1. stdin' # stdin /\ \A c : stdin' # Append(stdin, c)
  <2>1. Len(stdin') = Len(stdin) - 1 /\ Len(stdin) \in Nat
    BY HeadTailProperties
  <2>2. \A c : Len(Append(stdin, c)) = Len(stdin) + 1
    OBVIOUS
  <2>3. ASSUME stdin' = stdin
        PROVE  FALSE
    <3>1. Len(stdin') = Len(stdin)
      BY <2>3, Zenon
    <3> HIDE <2>3
    <3> QED
      BY <2>1, <3>1
  <2>4. ASSUME NEW c, stdin' = Append(stdin, c)
        PROVE  FALSE
    BY <2>1, <2>2, <2>4
  <2> QED
    BY <2>3, <2>4
<1>2. stdin' = stdin \/ (\E c : stdin' = Append(stdin, c)) \/ handle_command
  BY DEF Next, vars, shell, CloseWindow, MoveFocus, OpenWindow, ReloadHyprland,
     Install, Overrides, Step, ClickWindow, ClickApp, Click, ReadState, Request,
     CatchUp, detect_dispatch_syntax
<1> QED
  BY <1>1, <1>2

LEMMA StepLaunches ==
    ASSUME LInv, [Next]_vars
    PROVE  Launches
<1> SUFFICES ASSUME NEW c \in Class,
                    stdin # <<>>, stdin' = Tail(stdin),
                    Head(stdin).cmd = "launch", Head(stdin).class = c,
                    \A f \in Range(files) : f.icon # "" /\ f.exec # "",
                    search_reverse_domain(files, c) = NoFile,
                    ~BackupFirst(files, c)
             PROVE  IF IconFile(files, c) = NoFile THEN spawned' = spawned
                    ELSE spawned' = Append(spawned, [class |-> c,
                                                     exec |-> IconFile(files, c).exec])
  BY Zenon DEF Launches
<1> DEFINE f == IconFile(files, c)
           s == [class |-> c, exec |-> f.exec]
<1>1. /\ stdin \in Seq(Cmd) /\ files \in Seq(Apps) /\ spawned \in Seq(Spawn)
  BY DEF LInv, DInv, TInv, TypeInv, IInv, SpawnedInv
<1>2. handle_command
  BY <1>1, HandledLeaves
<1>3. spawned' = spawned \o Launch(c)
  BY <1>2, Zenon DEF handle_command
<1>4. \A g \in Range(files) : g.icon # ""
  BY Zenon
<1>5. icons_find_desktop(files, c) = f
  BY <1>1, <1>4, SearchesAgree
<1>6. Launch(c) = IF f.exec = "" THEN <<>> ELSE <<s>>
  BY <1>5, Zenon DEF Launch
<1> HIDE DEF f
<1>7. CASE f = NoFile
  <2>1. f.exec = ""
    BY <1>7, Zenon DEF NoFile
  <2>2. Launch(c) = <<>>
    BY <1>6, <2>1, Zenon
  <2>3. spawned \o <<>> = spawned
    BY <1>1, AppendIs, Zenon
  <2> QED
    BY <1>3, <1>7, <2>2, <2>3 DEF f
<1>8. CASE f # NoFile
  <2>1. f \in Range(files)
    <3>1. files \in Seq(Range(files))
      BY <1>1, AppendIs, Zenon
    <3> QED
      BY <1>8, <3>1, IconFileIs DEF f
  <2>2. Launch(c) = <<s>>
    BY <1>6, <2>1, Zenon
  <2>3. f \in Apps
    <3>1. Range(files) \subseteq Apps
      BY <1>1, AppendIs, Zenon
    <3> QED
      BY <2>1, <3>1, Zenon
  <2>4. s \in Spawn
    BY <2>3, SpawnIs, Zenon
  <2> HIDE DEF s
  <2>5. spawned \o <<s>> = Append(spawned, s)
    BY <1>1, <2>4, AppendIs, Zenon
  <2> QED
    BY <1>3, <1>8, <2>2, <2>5 DEF f, s
<1> QED
  BY <1>7, <1>8

(* What a click on an app starts is the program of the file that gives the  *)
(* app its icon, for any files that have both an icon and a program, unless *)
(* the icon is found by the last part of the class or the launcher's scan   *)
(* comes first to a backup (icons.c:138, 229, 262; launcher.c:128).         *)
THEOREM LaunchedAsShown == Spec => LaunchesWhatIsShown
<1>1. LInv /\ [Next]_vars => [Launches]_vars
  BY StepLaunches
<1> QED
  BY <1>1, KeepDone, PTL DEF Spec, LaunchesWhatIsShown, Launches
=============================================================================
