----------------------------- MODULE DockWindow -----------------------------
(***************************************************************************)
(* The dock on each screen: auto-hide, the pointer, magnification and the   *)
(* context menu (Dock.qml, DockItem.qml, DockMenu.qml).  Dock.qml makes one *)
(* dock per screen; all of them share the configuration, the items and the *)
(* name of the open menu, which are DaemonBridge's.                        *)
(*                                                                         *)
(* The shell is one thread: a handler, with every handler its assignments   *)
(* set off, is one step.  Bindings on a property are taken to be evaluated  *)
(* before the handlers of its change.  A timer is running or not; it may   *)
(* fire at any time while it runs.                                         *)
(***************************************************************************)
EXTENDS FiniteSets

CONSTANTS
    Screens,
    Items,      \* className and title of an item
    NoMenu      \* the empty activeMenuId

(* An item's itemId: the name of its screen, its class and its title.      *)
itemId == Screens \X Items

ASSUME NoMenuAssumption == NoMenu \notin itemId

VARIABLES
    plugged,        \* the screens there are
    config,         \* of the last config message
    items,          \* dockItems
    activeMenuId,
    dock,           \* the state of each screen's dock
    unsettled       \* history: screens whose dock a config message has reset
                    \* since the pointer came to it

vars == <<plugged, config, items, activeMenuId, dock, unsettled>>

Config == [autohide : BOOLEAN, snappy : BOOLEAN, contract_delay : BOOLEAN]

(* hovered is the HoverHandler's; expanded says that the magnification     *)
(* follows a pointer: snappyMouseX or _pendingX is set.                    *)
Dock ==
    [hovered : BOOLEAN, mouseInDock : BOOLEAN, dockRevealed : BOOLEAN,
     hideTimer : BOOLEAN, initialHideTimer : BOOLEAN,
     contractTimer : BOOLEAN, inIcons : BOOLEAN, expanded : BOOLEAN]

(* The menu whose popup is on the screen: its item is there by that name.  *)
menuVisible(id) == id = activeMenuId /\ id \in plugged \X items

-----------------------------------------------------------------------------
(* The functions of Dock.qml, on the state d of one dock. *)

_doClearSnappyPointer(d) == [d EXCEPT !.inIcons = FALSE, !.expanded = FALSE]

(* Mutant of scheduleSnappyContract: the delay is not waited for, nor is    *)
(* the pointer cleared.                                                    *)
scheduleNothing(d) == IF d.expanded THEN d ELSE _doClearSnappyPointer(d)

scheduleSnappyContract(d) ==
    IF d.expanded /\ config.contract_delay THEN [d EXCEPT !.contractTimer = TRUE]
    ELSE _doClearSnappyPointer(d)

cancelSnappyContract(d) == [d EXCEPT !.contractTimer = FALSE]

updateSnappyPointerFromContainer(d, inside) ==
    IF inside
    THEN cancelSnappyContract([d EXCEPT !.inIcons = TRUE, !.expanded = TRUE])
    ELSE IF d.inIcons THEN scheduleSnappyContract([d EXCEPT !.inIcons = FALSE])
    ELSE d

showDock(d) == [d EXCEPT !.hideTimer = FALSE, !.dockRevealed = TRUE]

MayHide(d, menu) == config.autohide /\ menu = NoMenu /\ ~d.mouseInDock

(* Mutants of startHideAnimation: it does not ask for the menu, or for the  *)
(* pointer.                                                                *)
hideDespiteMenu(d) ==
    IF config.autohide /\ ~d.mouseInDock /\ ~d.contractTimer
    THEN [d EXCEPT !.dockRevealed = FALSE] ELSE d
hideDespitePointer(d) ==
    IF config.autohide /\ activeMenuId = NoMenu /\ ~d.contractTimer
    THEN [d EXCEPT !.dockRevealed = FALSE] ELSE d

startHideAnimation(d) ==
    IF MayHide(d, activeMenuId) /\ ~d.contractTimer
    THEN [d EXCEPT !.dockRevealed = FALSE] ELSE d

scheduleHide(d, menu) ==
    IF MayHide(d, menu) THEN [d EXCEPT !.hideTimer = TRUE] ELSE d

resetAutohideState(hovered, c) ==
    [hovered |-> hovered, mouseInDock |-> FALSE, dockRevealed |-> TRUE,
     hideTimer |-> FALSE, initialHideTimer |-> c.autohide,
     contractTimer |-> FALSE, inIcons |-> FALSE, expanded |-> FALSE]

(* onActiveMenuIdChanged, in every dock. *)
onActiveMenuIdChanged(docks, menu) ==
    [s \in Screens |->
        IF menu = activeMenuId \/ s \notin plugged THEN docks[s]
        ELSE IF menu # NoMenu THEN showDock(docks[s])
        ELSE scheduleHide(docks[s], menu)]

-----------------------------------------------------------------------------

Init ==
    /\ plugged = Screens
    /\ config \in Config
    /\ items = {}
    /\ activeMenuId = NoMenu
    /\ dock = [s \in Screens |-> resetAutohideState(FALSE, config)]
    /\ unsettled = {}

shared == <<plugged, config, items>>

(* onHoveredChanged: there is one pointer, and it leaves a surface before   *)
(* it enters another.                                                      *)
Enter(s, inside) ==
    /\ s \in plugged
    /\ \A t \in Screens : ~dock[t].hovered
    /\ LET d == showDock(cancelSnappyContract(
                    [dock[s] EXCEPT !.hovered = TRUE, !.mouseInDock = TRUE]))
       IN  dock' = [dock EXCEPT ![s] =
                        IF config.snappy
                        THEN updateSnappyPointerFromContainer(d, inside) ELSE d]
    /\ unsettled' = unsettled \ {s}
    /\ UNCHANGED <<shared, activeMenuId>>

(* Mutant of Leave: nothing is scheduled. *)
LeaveOnly(s) ==
    /\ dock[s].hovered
    /\ dock' = [dock EXCEPT ![s] = scheduleSnappyContract(
                  [dock[s] EXCEPT !.hovered = FALSE, !.mouseInDock = FALSE,
                                  !.inIcons = FALSE])]
    /\ UNCHANGED <<shared, activeMenuId, unsettled>>

Leave(s) ==
    /\ dock[s].hovered
    /\ dock' = [dock EXCEPT ![s] = scheduleHide(scheduleSnappyContract(
                  [dock[s] EXCEPT !.hovered = FALSE, !.mouseInDock = FALSE,
                                  !.inIcons = FALSE]), activeMenuId)]
    /\ UNCHANGED <<shared, activeMenuId, unsettled>>

(* onPointChanged: the pointer moves, to an icon or off the icons. *)
Move(s, inside) ==
    /\ dock[s].hovered /\ dock[s].dockRevealed
    /\ config.snappy
    /\ dock' = [dock EXCEPT ![s] = updateSnappyPointerFromContainer(@, inside)]
    /\ UNCHANGED <<shared, activeMenuId, unsettled>>

Assign(menu) ==
    /\ activeMenuId' = menu
    /\ dock' = onActiveMenuIdChanged(dock, menu)
    /\ UNCHANGED <<shared, unsettled>>

(* A right click on an item opens its menu or closes it. *)
RightClick(id) ==
    /\ id[1] \in plugged /\ id[2] \in items
    /\ dock[id[1]].hovered
    /\ Assign(IF activeMenuId = id THEN NoMenu ELSE id)

(* A left click sends a command, and closes what menu there is. *)
LeftClick(s) ==
    /\ items # {}
    /\ dock[s].hovered
    /\ activeMenuId # NoMenu
    /\ Assign(NoMenu)

(* An entry is chosen, Escape is pressed, or the compositor dismisses the  *)
(* popup: closeMenu, or onVisibleChanged of a popup of that name.          *)
CloseMenu ==
    /\ menuVisible(activeMenuId)
    /\ Assign(NoMenu)

(* A state message: apps come and go, or have other titles.  A popup whose *)
(* item is renamed or gone is no longer shown, and does not find itself in *)
(* activeMenuId.                                                           *)
ItemsChange(new) ==
    /\ items' = new
    /\ UNCHANGED <<plugged, config, activeMenuId, dock, unsettled>>

(* Mutant of ConfigMessage: the docks are not reset. *)
ConfigTaken(c) ==
    /\ config' = c
    /\ UNCHANGED <<plugged, items, activeMenuId, dock, unsettled>>

ConfigMessage(c) ==
    /\ config' = c
    /\ dock' = [s \in Screens |-> resetAutohideState(dock[s].hovered, c)]
    /\ unsettled' = {s \in Screens : dock[s].hovered}
    /\ UNCHANGED <<plugged, items, activeMenuId>>

Plug(s) ==
    /\ s \notin plugged
    /\ plugged' = plugged \cup {s}
    /\ dock' = [dock EXCEPT ![s] = resetAutohideState(FALSE, config)]
    /\ UNCHANGED <<config, items, activeMenuId, unsettled>>

Unplug(s) ==
    /\ s \in plugged
    /\ plugged' = plugged \ {s}
    /\ dock' = [dock EXCEPT ![s] = resetAutohideState(FALSE, config)]
    /\ unsettled' = unsettled \ {s}
    /\ UNCHANGED <<config, items, activeMenuId>>

-----------------------------------------------------------------------------
(* The timers of a dock. *)

Timer(s) == s \in plugged /\ UNCHANGED <<shared, activeMenuId, unsettled>>

hideTimerTriggered(s) ==
    /\ Timer(s)
    /\ dock[s].hideTimer
    /\ dock' = [dock EXCEPT ![s] =
                  startHideAnimation([@ EXCEPT !.hideTimer = FALSE])]

initialHideTimerTriggered(s) ==
    /\ Timer(s)
    /\ dock[s].initialHideTimer
    /\ dock' = [dock EXCEPT ![s] =
                  startHideAnimation([@ EXCEPT !.initialHideTimer = FALSE])]

contractTimerTriggered(s) ==
    /\ Timer(s)
    /\ dock[s].contractTimer
    /\ dock' = [dock EXCEPT ![s] = scheduleHide(
                  _doClearSnappyPointer([@ EXCEPT !.contractTimer = FALSE]),
                  activeMenuId)]

Timers(s) ==
    \/ hideTimerTriggered(s)
    \/ initialHideTimerTriggered(s)
    \/ contractTimerTriggered(s)

Next ==
    \/ \E s \in Screens :
          \/ \E inside \in BOOLEAN : Enter(s, inside) \/ Move(s, inside)
          \/ Leave(s) \/ LeftClick(s)
          \/ Plug(s) \/ Unplug(s)
          \/ Timers(s)
    \/ \E id \in itemId : RightClick(id)
    \/ CloseMenu
    \/ \E new \in SUBSET Items : ItemsChange(new)
    \/ \E c \in Config : ConfigMessage(c)

(* A running timer fires in the end: nobody restarts it faster for ever.   *)
Fairness ==
    \A s \in Screens :
        /\ WF_vars(hideTimerTriggered(s))
        /\ WF_vars(initialHideTimerTriggered(s))
        /\ WF_vars(contractTimerTriggered(s))

Spec == Init /\ [][Next]_vars
FairSpec == Spec /\ Fairness

-----------------------------------------------------------------------------

(* Every variable has its type, and only a dock that is to hide is hidden,  *)
(* only one that is to be magnified is: a config message resets the docks. *)
TypeOK ==
    /\ plugged \in SUBSET Screens
    /\ config \in Config
    /\ items \in SUBSET Items
    /\ activeMenuId \in itemId \cup {NoMenu}
    /\ dock \in [Screens -> Dock]
    /\ unsettled \in SUBSET Screens
    /\ \A s \in Screens : /\ dock[s].dockRevealed \/ config.autohide
                         /\ dock[s].expanded => config.snappy

(* While a menu is open no dock hides, whichever timer was running when it  *)
(* was opened and on whatever screen (Dock.qml:527, 871).                  *)
MenuKeepsDock ==
    activeMenuId # NoMenu => \A s \in plugged : dock[s].dockRevealed

(* Icons stay magnified only for a pointer that is there or a contract      *)
(* timer that will let them go (Dock.qml:353, 378, 416).                   *)
MagnifiedByPointer ==
    \A s \in Screens :
        dock[s].expanded => dock[s].hovered \/ dock[s].contractTimer

(* A dock never hides under the pointer, unless a config message has made   *)
(* it forget the pointer since it came (Dock.qml:527, 546).                *)
NeverHidesUnderPointer ==
    [][\A s \in Screens :
          dock[s].dockRevealed /\ ~dock'[s].dockRevealed
             => ~dock[s].hovered \/ s \in unsettled]_vars

(* The pointer is elsewhere for good, and the dock is to hide itself. *)
Left(s) == s \in plugged /\ config.autohide /\ ~dock[s].hovered

(* A dock the pointer has left hides in the end if no menu is named, in     *)
(* whatever order its three timers fire: the contract delay can hold the   *)
(* hiding up and starts it again (Dock.qml:381, 530).                      *)
HidesAtLast ==
    \A s \in Screens :
        <>[](Left(s) /\ activeMenuId = NoMenu) => []<>~dock[s].dockRevealed

(* README.md:228, AutoHide: "Hide dock when pointer leaves."  No menu is    *)
(* on the screen.                                                          *)
HidesWhenLeft ==
    \A s \in Screens :
        <>[](Left(s) /\ ~menuVisible(activeMenuId)) => []<>~dock[s].dockRevealed
=============================================================================
