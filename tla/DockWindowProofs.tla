-------------------------- MODULE DockWindowProofs --------------------------
(***************************************************************************)
(* Proofs about DockWindow, for any number of screens and items: each       *)
(* function of Dock.qml keeps what the invariants say of one dock; the      *)
(* docks a step does not touch keep it because nothing they share with     *)
(* others changed against them.                                            *)
(***************************************************************************)
EXTENDS DockWindow, TLAPS

(* What is always so of the dock d of screen s, given the configuration c,  *)
(* the name of the open menu m, the plugged screens p and the unsettled     *)
(* ones u.  Its last conjunct is what NeverHidesUnderPointer rests on.     *)
DockInv(s, d, c, m, p, u) ==
    /\ d \in Dock
    /\ d.dockRevealed \/ c.autohide
    /\ d.expanded => c.snappy
    /\ m # NoMenu /\ s \in p => d.dockRevealed
    /\ d.expanded => d.hovered \/ d.contractTimer
    /\ d.hovered /\ s \notin u => d.mouseInDock

IInv ==
    /\ plugged \in SUBSET Screens
    /\ config \in Config
    /\ items \in SUBSET Items
    /\ activeMenuId \in itemId \cup {NoMenu}
    /\ dock \in [Screens -> Dock]
    /\ unsettled \in SUBSET Screens
    /\ \A s \in Screens :
          DockInv(s, dock[s], config, activeMenuId, plugged, unsettled)

(* The fields the invariants speak of, but for dockRevealed, agree. *)
Alike(d, e) ==
    /\ e.hovered = d.hovered /\ e.mouseInDock = d.mouseInDock
    /\ e.expanded = d.expanded /\ e.contractTimer = d.contractTimer

(* A dock that hides in a step has no pointer that it knows of. *)
Asked ==
    \A t \in Screens :
        dock[t].dockRevealed /\ ~dock'[t].dockRevealed => ~dock[t].mouseInDock

-----------------------------------------------------------------------------
(* What the functions of Dock.qml do to a dock. *)

LEMMA ContractKeeps ==
    ASSUME NEW d \in Dock, NEW e, e = scheduleSnappyContract(d)
    PROVE  /\ e \in Dock
           /\ e.hovered = d.hovered /\ e.mouseInDock = d.mouseInDock
           /\ e.dockRevealed = d.dockRevealed
           /\ e.expanded => d.expanded /\ e.contractTimer
  BY DEF scheduleSnappyContract, _doClearSnappyPointer, Dock

LEMMA PointerKeeps ==
    ASSUME NEW d \in Dock, NEW inside \in BOOLEAN, NEW e,
           e = updateSnappyPointerFromContainer(d, inside)
    PROVE  /\ e \in Dock
           /\ e.hovered = d.hovered /\ e.mouseInDock = d.mouseInDock
           /\ e.dockRevealed = d.dockRevealed
  BY DEF updateSnappyPointerFromContainer, cancelSnappyContract,
         scheduleSnappyContract, _doClearSnappyPointer, Dock

LEMMA ShowReveals ==
    ASSUME NEW d \in Dock, NEW e, e = showDock(d)
    PROVE  e \in Dock /\ Alike(d, e) /\ e.dockRevealed
  BY DEF showDock, Alike, Dock

LEMMA ScheduleKeeps ==
    ASSUME NEW d \in Dock, NEW m, NEW e, e = scheduleHide(d, m)
    PROVE  e \in Dock /\ Alike(d, e) /\ e.dockRevealed = d.dockRevealed
  BY DEF scheduleHide, Alike, Dock

LEMMA HideAsks ==
    ASSUME NEW d \in Dock, NEW e, e = startHideAnimation(d)
    PROVE  /\ e \in Dock /\ Alike(d, e)
           /\ \/ e.dockRevealed = d.dockRevealed
              \/ config.autohide /\ activeMenuId = NoMenu /\ ~d.mouseInDock
  BY DEF startHideAnimation, MayHide, Alike, Dock

LEMMA ResetReveals ==
    ASSUME NEW h \in BOOLEAN, NEW c \in Config, NEW e,
           e = resetAutohideState(h, c)
    PROVE  e \in Dock /\ e.hovered = h /\ e.dockRevealed /\ ~e.expanded
  BY DEF resetAutohideState, Dock, Config

-----------------------------------------------------------------------------

LEMMA Initial == Init => IInv
<1> SUFFICES ASSUME Init PROVE IInv
  OBVIOUS
<1>1. \A s \in Screens :
         /\ dock[s] \in Dock /\ ~dock[s].hovered
         /\ dock[s].dockRevealed /\ ~dock[s].expanded
  BY ResetReveals DEF Init
<1>2. dock \in [Screens -> Dock]
  BY <1>1 DEF Init
<1> QED
  BY <1>1, <1>2 DEF Init, IInv, DockInv

(* A step that leaves everything but the dock of s alone. *)
LEMMA OneDock ==
    ASSUME IInv, NEW s \in Screens, NEW e,
           dock' = [dock EXCEPT ![s] = e],
           UNCHANGED <<plugged, config, items, activeMenuId>>,
           unsettled' = unsettled \/ unsettled' = unsettled \ {s},
           DockInv(s, e, config, activeMenuId, plugged, unsettled'),
           dock[s].dockRevealed => e.dockRevealed \/ ~dock[s].mouseInDock
    PROVE  IInv' /\ Asked
<1>1. dock' \in [Screens -> Dock]
  BY DEF IInv, DockInv
<1>2. \A t \in Screens :
         DockInv(t, dock'[t], config, activeMenuId, plugged, unsettled')
  <2> TAKE t \in Screens
  <2>1. CASE t = s
    BY <2>1 DEF IInv
  <2>2. CASE t # s
    BY <2>2 DEF IInv, DockInv
  <2> QED
    BY <2>1, <2>2
<1>3. IInv'
  BY <1>1, <1>2 DEF IInv
<1>4. Asked
  BY DEF Asked, IInv
<1> QED
  BY <1>3, <1>4

LEMMA EnterKeeps ==
    ASSUME IInv, NEW s \in Screens, NEW inside \in BOOLEAN, Enter(s, inside)
    PROVE  IInv' /\ Asked
<1> DEFINE b == [dock[s] EXCEPT !.hovered = TRUE, !.mouseInDock = TRUE]
           c == cancelSnappyContract(b)
           d == showDock(c)
           e == IF config.snappy THEN updateSnappyPointerFromContainer(d, inside)
                ELSE d
<1>1. /\ d = showDock(c)
      /\ e = IF config.snappy THEN updateSnappyPointerFromContainer(d, inside)
            ELSE d
  OBVIOUS
<1>2. /\ dock' = [dock EXCEPT ![s] = e]
      /\ UNCHANGED <<plugged, config, items, activeMenuId>>
      /\ unsettled' = unsettled \ {s}
  BY DEF Enter, shared
<1>3. DockInv(s, dock[s], config, activeMenuId, plugged, unsettled)
  BY DEF IInv
<1>4. /\ c \in Dock /\ c.hovered /\ c.mouseInDock
      /\ c.expanded = dock[s].expanded
  BY <1>3 DEF DockInv, cancelSnappyContract, Dock
<1> HIDE DEF b, c, d, e
<1>5. d \in Dock /\ d.hovered /\ d.mouseInDock /\ d.expanded = c.expanded
      /\ d.dockRevealed
  BY <1>1, <1>4, ShowReveals DEF Alike
<1>6. e \in Dock /\ e.hovered /\ e.mouseInDock /\ e.dockRevealed
      /\ (~config.snappy => e = d)
  BY <1>1, <1>5, PointerKeeps
<1>7. e.expanded => config.snappy
  BY <1>3, <1>4, <1>5, <1>6 DEF DockInv
<1>8. DockInv(s, e, config, activeMenuId, plugged, unsettled')
  BY <1>6, <1>7 DEF DockInv
<1> QED
  BY <1>2, <1>6, <1>8, OneDock

LEMMA LeaveKeeps ==
    ASSUME IInv, NEW s \in Screens, Leave(s)
    PROVE  IInv' /\ Asked
<1> DEFINE b == [dock[s] EXCEPT !.hovered = FALSE, !.mouseInDock = FALSE,
                                !.inIcons = FALSE]
           d == scheduleSnappyContract(b)
           e == scheduleHide(d, activeMenuId)
<1>1. d = scheduleSnappyContract(b) /\ e = scheduleHide(d, activeMenuId)
  OBVIOUS
<1>2. /\ dock' = [dock EXCEPT ![s] = e]
      /\ UNCHANGED <<plugged, config, items, activeMenuId, unsettled>>
  BY DEF Leave, shared
<1>3. DockInv(s, dock[s], config, activeMenuId, plugged, unsettled)
  BY DEF IInv
<1>4. /\ b \in Dock /\ ~b.hovered
      /\ b.expanded = dock[s].expanded /\ b.dockRevealed = dock[s].dockRevealed
  BY <1>3 DEF DockInv, Dock
<1> HIDE DEF b, d, e
<1>5. /\ d \in Dock /\ ~d.hovered
      /\ d.dockRevealed = b.dockRevealed
      /\ d.expanded => b.expanded /\ d.contractTimer
  BY <1>1, <1>4, ContractKeeps
<1>6. /\ e \in Dock /\ ~e.hovered
      /\ e.dockRevealed = d.dockRevealed
      /\ e.expanded = d.expanded /\ e.contractTimer = d.contractTimer
  BY <1>1, <1>5, ScheduleKeeps DEF Alike
<1>7. DockInv(s, e, config, activeMenuId, plugged, unsettled)
  BY <1>3, <1>4, <1>5, <1>6 DEF DockInv
<1> QED
  BY <1>2, <1>4, <1>5, <1>6, <1>7, OneDock

LEMMA MoveKeeps ==
    ASSUME IInv, NEW s \in Screens, NEW inside \in BOOLEAN, Move(s, inside)
    PROVE  IInv' /\ Asked
<1> DEFINE e == updateSnappyPointerFromContainer(dock[s], inside)
<1>1. e = updateSnappyPointerFromContainer(dock[s], inside)
  OBVIOUS
<1>2. /\ dock' = [dock EXCEPT ![s] = e]
      /\ UNCHANGED <<plugged, config, items, activeMenuId, unsettled>>
  BY DEF Move, shared
<1> HIDE DEF e
<1>3. DockInv(s, dock[s], config, activeMenuId, plugged, unsettled)
  BY DEF IInv
<1>4. /\ e \in Dock /\ e.hovered
      /\ e.mouseInDock = dock[s].mouseInDock
      /\ e.dockRevealed = dock[s].dockRevealed
  BY <1>1, <1>3, PointerKeeps DEF DockInv, Move
<1>5. DockInv(s, e, config, activeMenuId, plugged, unsettled)
  BY <1>3, <1>4 DEF DockInv, Move
<1> QED
  BY <1>2, <1>4, <1>5, OneDock

(* A name is given to the open menu or taken from it. *)
LEMMA AssignKeeps ==
    ASSUME IInv, NEW m \in itemId \cup {NoMenu}, Assign(m)
    PROVE  IInv' /\ Asked
<1>1. /\ UNCHANGED <<plugged, config, items, unsettled>> /\ activeMenuId' = m
      /\ dock' = onActiveMenuIdChanged(dock, m)
  BY DEF Assign, shared
<1>2. ASSUME NEW s \in Screens
      PROVE  /\ dock'[s] \in Dock
             /\ Alike(dock[s], dock'[s])
             /\ dock[s].dockRevealed => dock'[s].dockRevealed
             /\ m # NoMenu /\ s \in plugged => dock'[s].dockRevealed
  <2>1. DockInv(s, dock[s], config, activeMenuId, plugged, unsettled)
    BY DEF IInv
  <2>2. CASE m = activeMenuId \/ s \notin plugged
    <3>1. dock'[s] = dock[s]
      BY <1>1, <2>2 DEF onActiveMenuIdChanged
    <3> QED
      BY <2>1, <2>2, <3>1 DEF DockInv, Alike
  <2>3. CASE ~(m = activeMenuId \/ s \notin plugged) /\ m # NoMenu
    <3>1. dock'[s] = showDock(dock[s])
      BY <1>1, <2>3 DEF onActiveMenuIdChanged
    <3> QED
      BY <2>1, <3>1, ShowReveals DEF DockInv
  <2>4. CASE ~(m = activeMenuId \/ s \notin plugged) /\ m = NoMenu
    <3>1. dock'[s] = scheduleHide(dock[s], m)
      BY <1>1, <2>4 DEF onActiveMenuIdChanged
    <3> QED
      BY <2>1, <2>4, <3>1, ScheduleKeeps DEF DockInv
  <2> QED
    BY <2>2, <2>3, <2>4
<1>3. dock' \in [Screens -> Dock]
  BY <1>1, <1>2 DEF onActiveMenuIdChanged
<1>4. \A s \in Screens : DockInv(s, dock'[s], config, m, plugged, unsettled)
  BY <1>2 DEF IInv, DockInv, Alike
<1>5. IInv'
  BY <1>1, <1>3, <1>4 DEF IInv
<1> QED
  BY <1>2, <1>5 DEF Asked

LEMMA ConfigKeeps ==
    ASSUME IInv, NEW c \in Config, ConfigMessage(c)
    PROVE  IInv' /\ Asked
<1>1. \A s \in Screens :
         /\ dock'[s] \in Dock /\ dock'[s].hovered = dock[s].hovered
         /\ dock'[s].dockRevealed /\ ~dock'[s].expanded
         /\ dock[s].hovered => s \in unsettled'
  <2> TAKE s \in Screens
  <2>1. dock[s].hovered \in BOOLEAN
    BY DEF IInv, Dock
  <2> QED
    BY <2>1, ResetReveals DEF ConfigMessage
<1>2. dock' \in [Screens -> Dock]
  BY <1>1 DEF ConfigMessage
<1>3. /\ UNCHANGED <<plugged, items, activeMenuId>> /\ config' = c
      /\ unsettled' \in SUBSET Screens
  BY DEF ConfigMessage
<1>4. \A s \in Screens :
         DockInv(s, dock'[s], c, activeMenuId, plugged, unsettled')
  BY <1>1 DEF DockInv
<1>5. IInv'
  BY <1>2, <1>3, <1>4 DEF IInv
<1> QED
  BY <1>1, <1>5 DEF Asked

(* A screen that comes or goes has a dock without a pointer. *)
LEMMA PlugKeeps ==
    ASSUME IInv, NEW s \in Screens, Plug(s) \/ Unplug(s)
    PROVE  IInv' /\ Asked
<1> DEFINE e == resetAutohideState(FALSE, config)
<1>1. e \in Dock /\ ~e.hovered /\ e.dockRevealed /\ ~e.expanded
  BY ResetReveals DEF IInv
<1>2. /\ dock' = [dock EXCEPT ![s] = e]
      /\ UNCHANGED <<config, items, activeMenuId>>
      /\ \A t \in Screens : t # s => (t \in plugged' <=> t \in plugged)
      /\ \A t \in Screens : t # s => (t \in unsettled' <=> t \in unsettled)
      /\ plugged' \in SUBSET Screens /\ unsettled' \in SUBSET Screens
  BY DEF Plug, Unplug, IInv
<1> HIDE DEF e
<1>3. ASSUME NEW t \in Screens
      PROVE  /\ DockInv(t, dock'[t], config, activeMenuId, plugged', unsettled')
             /\ dock[t].dockRevealed => dock'[t].dockRevealed
  <2>1. CASE t = s
    <3>1. dock'[t] = e
      BY <1>2, <2>1 DEF IInv
    <3> QED
      BY <1>1, <3>1 DEF DockInv
  <2>2. CASE t # s
    BY <1>2, <2>2 DEF IInv, DockInv
  <2> QED
    BY <2>1, <2>2
<1>4. dock' \in [Screens -> Dock]
  BY <1>1, <1>2 DEF IInv
<1>5. IInv'
  BY <1>2, <1>3, <1>4 DEF IInv
<1> QED
  BY <1>3, <1>5 DEF Asked

(* The timers that may hide a dock. *)
LEMMA HideTimersKeep ==
    ASSUME IInv, NEW s \in Screens,
           hideTimerTriggered(s) \/ initialHideTimerTriggered(s)
    PROVE  IInv' /\ Asked
<1>1. PICK b : /\ dock' = [dock EXCEPT ![s] = startHideAnimation(b)]
               /\ \/ b = [dock[s] EXCEPT !.hideTimer = FALSE]
                  \/ b = [dock[s] EXCEPT !.initialHideTimer = FALSE]
  BY DEF hideTimerTriggered, initialHideTimerTriggered, IInv
<1>2. UNCHANGED <<plugged, config, items, activeMenuId, unsettled>>
  BY DEF hideTimerTriggered, initialHideTimerTriggered, Timer, shared
<1>3. DockInv(s, dock[s], config, activeMenuId, plugged, unsettled)
  BY DEF IInv
<1>4. b \in Dock /\ Alike(dock[s], b) /\ b.dockRevealed = dock[s].dockRevealed
  BY <1>1, <1>3 DEF DockInv, Dock, Alike
<1> DEFINE e == startHideAnimation(b)
<1>5. /\ e \in Dock /\ Alike(b, e)
      /\ \/ e.dockRevealed = b.dockRevealed
         \/ config.autohide /\ activeMenuId = NoMenu /\ ~b.mouseInDock
  BY <1>4, HideAsks
<1>6. dock' = [dock EXCEPT ![s] = e]
  BY <1>1
<1> HIDE DEF e
<1>7. DockInv(s, e, config, activeMenuId, plugged, unsettled)
  BY <1>3, <1>4, <1>5 DEF DockInv, Alike
<1>8. dock[s].dockRevealed => e.dockRevealed \/ ~dock[s].mouseInDock
  BY <1>4, <1>5 DEF Alike
<1> QED
  BY <1>2, <1>6, <1>7, <1>8, OneDock

LEMMA ContractTimerKeeps ==
    ASSUME IInv, NEW s \in Screens, contractTimerTriggered(s)
    PROVE  IInv' /\ Asked
<1> DEFINE b == _doClearSnappyPointer([dock[s] EXCEPT !.contractTimer = FALSE])
           e == scheduleHide(b, activeMenuId)
<1>1. e = scheduleHide(b, activeMenuId)
  OBVIOUS
<1>2. /\ dock' = [dock EXCEPT ![s] = e]
      /\ UNCHANGED <<plugged, config, items, activeMenuId, unsettled>>
  BY DEF contractTimerTriggered, Timer, shared, IInv
<1>3. DockInv(s, dock[s], config, activeMenuId, plugged, unsettled)
  BY DEF IInv
<1>4. /\ b \in Dock /\ ~b.expanded
      /\ b.hovered = dock[s].hovered /\ b.mouseInDock = dock[s].mouseInDock
      /\ b.dockRevealed = dock[s].dockRevealed
  BY <1>3 DEF DockInv, Dock, _doClearSnappyPointer
<1> HIDE DEF b, e
<1>5. e \in Dock /\ Alike(b, e) /\ e.dockRevealed = b.dockRevealed
  BY <1>1, <1>4, ScheduleKeeps
<1>6. DockInv(s, e, config, activeMenuId, plugged, unsettled)
  BY <1>3, <1>4, <1>5 DEF DockInv, Alike
<1> QED
  BY <1>2, <1>4, <1>5, <1>6, OneDock

-----------------------------------------------------------------------------

LEMMA StepKeeps == IInv /\ [Next]_vars => IInv' /\ Asked
<1> SUFFICES ASSUME IInv, [Next]_vars PROVE IInv' /\ Asked
  OBVIOUS
<1>1. ASSUME NEW s \in Screens, NEW inside \in BOOLEAN,
             Enter(s, inside) \/ Move(s, inside)
      PROVE  IInv' /\ Asked
  BY <1>1, EnterKeeps, MoveKeeps
<1>2. ASSUME NEW s \in Screens, Leave(s)
      PROVE  IInv' /\ Asked
  BY <1>2, LeaveKeeps
<1>3. ASSUME NEW s \in Screens, LeftClick(s)
      PROVE  IInv' /\ Asked
  BY <1>3, AssignKeeps DEF LeftClick
<1>4. ASSUME NEW s \in Screens, Plug(s) \/ Unplug(s)
      PROVE  IInv' /\ Asked
  BY <1>4, PlugKeeps
<1>5. ASSUME NEW s \in Screens, Timers(s)
      PROVE  IInv' /\ Asked
  BY <1>5, HideTimersKeep, ContractTimerKeeps DEF Timers
<1>6. ASSUME NEW id \in itemId, RightClick(id)
      PROVE  IInv' /\ Asked
  BY <1>6, AssignKeeps DEF RightClick
<1>7. CASE CloseMenu
  BY <1>7, AssignKeeps DEF CloseMenu
<1>8. ASSUME NEW new \in SUBSET Items, ItemsChange(new)
      PROVE  IInv' /\ Asked
  BY <1>8 DEF ItemsChange, IInv, Asked
<1>9. ASSUME NEW c \in Config, ConfigMessage(c)
      PROVE  IInv' /\ Asked
  BY <1>9, ConfigKeeps
<1>10. CASE UNCHANGED vars
  BY <1>10 DEF vars, IInv, Asked
<1> QED
  BY <1>1, <1>2, <1>3, <1>4, <1>5, <1>6, <1>7, <1>8, <1>9, <1>10 DEF Next

LEMMA Inductive == Spec => []IInv
  BY Initial, StepKeeps, PTL DEF Spec

(* Every variable has its type, a hidden dock is one that is to hide and a  *)
(* magnified one one that is to be (Dock.qml:546).                         *)
THEOREM TypeCorrect == Spec => []TypeOK
<1>1. IInv => TypeOK
  BY DEF IInv, TypeOK, DockInv
<1> QED
  BY <1>1, Inductive, PTL

(* While a menu is open no dock hides, on whatever screen (Dock.qml:527). *)
THEOREM OpenMenuKeepsDocks == Spec => []MenuKeepsDock
<1>1. IInv => MenuKeepsDock
  BY DEF IInv, MenuKeepsDock, DockInv
<1> QED
  BY <1>1, Inductive, PTL

(* A dock is magnified only for a pointer, or until its contract timer      *)
(* fires (Dock.qml:353, 378).                                              *)
THEOREM NoGhostPointer == Spec => []MagnifiedByPointer
<1>1. IInv => MagnifiedByPointer
  BY DEF IInv, MagnifiedByPointer, DockInv
<1> QED
  BY <1>1, Inductive, PTL

(* A dock hides under the pointer only if a config message has made it      *)
(* forget the pointer (Dock.qml:527, 546).                                 *)
THEOREM HidesFromNobody == Spec => NeverHidesUnderPointer
<1>1. IInv /\ [Next]_vars =>
        [\A s \in Screens :
            dock[s].dockRevealed /\ ~dock'[s].dockRevealed
               => ~dock[s].hovered \/ s \in unsettled]_vars
  BY StepKeeps DEF IInv, DockInv, Asked
<1> QED
  BY <1>1, Inductive, PTL DEF Spec, NeverHidesUnderPointer
=============================================================================
