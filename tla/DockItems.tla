----------------------------- MODULE DockItems ------------------------------
(***************************************************************************)
(* What the dock shows: _recompute of DaemonBridge.qml, as a function of    *)
(* the list of windows and the list of pinned classes the daemon sent.     *)
(*                                                                         *)
(* A window is [addr, class, active].  Icons and titles are left out.       *)
(* Items of apps that are not pinned stand in the order in which their     *)
(* first windows do (a class that reads as a number would come first).     *)
(***************************************************************************)
EXTENDS Selection

CONSTANTS
    Address,    \* window addresses
    Class,      \* application classes
    Fold        \* Fold[c]: c.toLowerCase()

Window == [addr : Address, class : Class, active : BOOLEAN]

(* The windows of a class, in the order of clients. *)
Instances(clients, key) ==
    EntriesAt(clients, {i \in DOMAIN clients : Fold[clients[i].class] = key})

Item(cls, pin, instances) ==
    [className |-> cls,
     isPinned |-> pin,
     isActive |-> \E i \in DOMAIN instances : instances[i].active,
     instances |-> instances]

PinnedItems(clients, pinned) ==
    [p \in DOMAIN pinned |->
        Item(pinned[p], TRUE, Instances(clients, Fold[pinned[p]]))]

(* Mutants of FirstsUnpinned: pinned classes are not left out, and classes  *)
(* that are spelt differently are different.                               *)
FirstsOfAll(clients, pinned) ==
    {i \in DOMAIN clients :
        \A j \in 1..(i - 1) : Fold[clients[j].class] # Fold[clients[i].class]}
FirstsAsSpelt(clients, pinned) ==
    {i \in DOMAIN clients :
        /\ \A p \in DOMAIN pinned : Fold[pinned[p]] # Fold[clients[i].class]
        /\ \A j \in 1..(i - 1) : clients[j].class # clients[i].class}

(* The windows that are the first of a class that is not pinned. *)
FirstsUnpinned(clients, pinned) ==
    {i \in DOMAIN clients :
        /\ \A p \in DOMAIN pinned : Fold[pinned[p]] # Fold[clients[i].class]
        /\ \A j \in 1..(i - 1) : Fold[clients[j].class] # Fold[clients[i].class]}

RunningItems(clients, pinned) ==
    LET firsts == EntriesAt(clients, FirstsUnpinned(clients, pinned))
    IN  [k \in DOMAIN firsts |->
            Item(firsts[k].class, FALSE,
                 Instances(clients, Fold[firsts[k].class]))]

recompute(clients, pinned) ==
    PinnedItems(clients, pinned) \o RunningItems(clients, pinned)

(* The places an address has among the items. *)
Places(items, a) ==
    {p \in UNION {{<<i, j>> : j \in DOMAIN items[i].instances} :
                    i \in DOMAIN items} :
        items[p[1]].instances[p[2]].addr = a}
=============================================================================
