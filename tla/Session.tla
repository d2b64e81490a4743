------------------------------ MODULE Session -------------------------------
(***************************************************************************)
(* The dock as a session of processes: snappy-dock.sh starts the shell,     *)
(* which runs the daemon (module Bridge); snappy-dock --kill, --restart and *)
(* --restart-dock stop the daemons first and the shells a fifth of a second *)
(* later, while a shell restarts a daemon that went.  Nothing is assumed    *)
(* of these delays: every order of the steps is possible.                   *)
(*                                                                         *)
(* The script asks nobody whether a dock is up or another run of it is     *)
(* under way: runs overlap, and a dock may be started beside another one.   *)
(* Bridge is the first dock; of the others only their number is kept, for   *)
(* they differ in nothing, and for each of them whether it has a daemon     *)
(* when its shell is killed is left open.                                   *)
(*                                                                         *)
(* A daemon told to stop by SIGTERM notices that at the next event if the   *)
(* signal falls between its test of s_running and poll(); one whose shell   *)
(* is gone meets the end of its stdin.  The shells are taken to be ones    *)
(* that the script's pkill -f finds.                                        *)
(***************************************************************************)
EXTENDS Bridge

CONSTANT
    MaxRuns         \* bound: commands the user gives

ASSUME RunsAssumption == MaxRuns \in Nat

Runs == 1..MaxRuns

VARIABLES
    up,         \* the first dock's shell exists
    extra,      \* docks started while one was up: a shell and its daemon each
    told,       \* the first dock's daemon has been sent SIGTERM
    orphans,    \* daemons whose shell is gone
    script,     \* what each run of snappy-dock.sh does next
    wanted,     \* the user's last command leaves a dock running
    runs,       \* commands given; the last one's run has this number
    overtaken,  \* a run undid what a later command had asked for
    second      \* the user started a dock while one was up

processes == <<up, extra, told, orphans>>
user == <<wanted, runs>>
history == <<overtaken, second>>
session == <<processes, script, user, history>>
sessionVars == <<vars, session>>

SessionInit ==
    /\ Init
    /\ up = TRUE /\ extra = 0 /\ told = FALSE /\ orphans = 0
    /\ script = [i \in Runs |-> "none"]
    /\ wanted = TRUE /\ runs = 0
    /\ overtaken = FALSE /\ second = FALSE

(* What the first shell and its daemon do by themselves. *)
BridgeStep ==
    /\ Next
    /\ told' = (told /\ alive')
    /\ UNCHANGED <<up, extra, orphans, script, user, history>>

(* The user gives a command, whatever earlier ones are still doing. *)
Command(isWanted) ==
    /\ runs < MaxRuns
    /\ runs' = runs + 1
    /\ wanted' = isWanted

(* do_kill, do_kill_dock_only: pkill -x snappydock-d, a sleep, and then ... *)
do_kill(andStart) ==
    /\ Command(andStart)
    /\ script' = [script EXCEPT ![runs'] = IF andStart THEN "restart" ELSE "kill"]
    /\ told' = alive
    /\ UNCHANGED <<vars, up, extra, orphans, history>>

(* After its second pkill a restart sleeps again, and then starts the dock. *)
Killed(next) == IF next = "restart" THEN "start" ELSE "none"

(* Mutant of KillShell: the shells are left to close by themselves. *)
KillNothing(i) ==
    /\ script[i] \in {"kill", "restart"}
    /\ script' = [script EXCEPT ![i] = Killed(@)]
    /\ UNCHANGED <<vars, processes, user, history>>

(* ... pkill -f quickshell: the daemon of a shell, if it has one just then, *)
(* is left alone with a stdin that has ended, and what the docks showed is  *)
(* gone.                                                                   *)
KillShell(i) ==
    /\ script[i] \in {"kill", "restart"}
    /\ script' = [script EXCEPT ![i] = Killed(@)]
    /\ up' = FALSE /\ extra' = 0
    /\ \E n \in 0..extra : orphans' = orphans + n + IF alive THEN 1 ELSE 0
    /\ alive' = FALSE /\ told' = FALSE
    /\ stdout' = <<>>
    /\ running' = FALSE /\ restartTimer' = FALSE
    /\ config' = FALSE
    /\ clients' = <<>> /\ pinned' = <<>> /\ dockItems' = <<>>
    /\ overtaken' = (i # runs /\ (overtaken \/ wanted))
    /\ second' = FALSE
    /\ UNCHANGED <<state, changes, crashes, user>>

(* exec quickshell: a shell and the daemon it runs, beside those there are. *)
StartShell ==
    \/ /\ ~up
       /\ up' = TRUE
       /\ running' = TRUE /\ alive' = TRUE
       /\ state' \in Later
       /\ stdout' = <<ConfigLine, StateLine(state')>>
       /\ UNCHANGED <<changes, crashes, restartTimer, shown, extra, told, orphans>>
    \/ /\ up
       /\ extra' = extra + 1
       /\ UNCHANGED <<vars, up, told, orphans>>

(* Mutant of StartAgain: the run does not end. *)
StartForever(i) ==
    /\ script[i] = "start"
    /\ StartShell
    /\ overtaken' = (overtaken \/ i # runs)
    /\ UNCHANGED <<script, user, second>>

(* --restart, --restart-dock: the dock is started at the end. *)
StartAgain(i) ==
    /\ script[i] = "start"
    /\ script' = [script EXCEPT ![i] = "none"]
    /\ StartShell
    /\ overtaken' = (overtaken \/ i # runs)
    /\ UNCHANGED <<user, second>>

(* snappy-dock without a command: do_start, and nothing else. *)
do_start ==
    /\ Command(TRUE)
    /\ StartShell
    /\ overtaken' = (overtaken /\ up)
    /\ second' = up
    /\ UNCHANGED script

(* The daemon leaves its loop: on_signal has cleared s_running. *)
Terminate ==
    /\ told
    /\ alive' = FALSE /\ told' = FALSE
    /\ UNCHANGED <<state, changes, crashes, stdout, running, restartTimer, shown,
                   up, extra, orphans, script, user, history>>

(* poll() reports POLLHUP to a daemon whose shell is gone, and it ends. *)
OrphanEnds ==
    /\ orphans > 0
    /\ orphans' = orphans - 1
    /\ UNCHANGED <<vars, up, extra, told, script, user, history>>

SessionNext ==
    \/ BridgeStep
    \/ \E andStart \in BOOLEAN : do_kill(andStart)
    \/ \E i \in Runs : KillShell(i) \/ StartAgain(i)
    \/ do_start
    \/ Terminate \/ OrphanEnds

(* Every run of the script goes on, and a daemon sees that its stdin has    *)
(* ended.  That one notices a signal in time is not assumed.               *)
SessionFairness ==
    /\ Fairness
    /\ \A i \in Runs : WF_sessionVars(KillShell(i)) /\ WF_sessionVars(StartAgain(i))
    /\ WF_sessionVars(OrphanEnds)

SessionSpec == SessionInit /\ [][SessionNext]_sessionVars /\ SessionFairness

-----------------------------------------------------------------------------

(* The runs that are still going to start a dock. *)
Starting == {i \in Runs : script[i] \in {"restart", "start"}}

(* Docks that are up. *)
Docks == extra + IF up THEN 1 ELSE 0

(* Every variable has its type, and the processes there are, or are going   *)
(* to be, are no more than were ever started: a daemon that a kill leaves   *)
(* behind is not left behind twice.                                        *)
SessionTypeOK ==
    /\ TypeOK
    /\ up \in BOOLEAN /\ told \in BOOLEAN /\ wanted \in BOOLEAN
    /\ overtaken \in BOOLEAN /\ second \in BOOLEAN
    /\ extra \in Nat /\ orphans \in Nat /\ runs \in 0..MaxRuns
    /\ script \in [Runs -> {"none", "kill", "restart", "start"}]
    /\ alive => up
    /\ orphans + Docks + Cardinality(Starting) <= runs + 1

(* However often the daemon dies or is sent a signal, it comes back, and    *)
(* the dock the user wants ends up with what it says, the only one unless   *)
(* the user started another beside it.  The exception is a command that was *)
(* still under way when the last one came, and killed or started a dock     *)
(* after that one's own kill (DaemonBridge.qml:151, 160, snappy-dock.sh:298).*)
DockFollows ==
    <>[](wanted /\ ~overtaken =>
            /\ up /\ alive /\ config /\ orphans = 0
            /\ dockItems = recompute(state.clients, state.pinned)
            /\ extra = 0 \/ second)

(* --kill stops every dock and every daemon, though a shell may restart its *)
(* daemon before it is stopped itself, and though the signal may go         *)
(* unnoticed.  The exception is a restart under way that started the dock   *)
(* after the kill (snappy-dock.sh:154, main.c:209, protocol.c hang-up).     *)
KillStops == <>[](~wanted /\ ~overtaken => ~up /\ ~alive /\ extra = 0 /\ orphans = 0)
=============================================================================
