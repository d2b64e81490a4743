# A model of snappy-dock

snappy-dock is a dock for Hyprland: a C daemon, `snappydock-d`, keeps a model
of the windows; a QuickShell (QML) shell runs the daemon as a child process and
draws what it prints; a second QML program edits the settings. This directory
holds TLA+ modules of the parts where order, timing and failure matter, TLC
configurations that check them, and TLAPS proofs.

## Inventory

| Part | State it keeps | Operations | Hard because |
|---|---|---|---|
| Event loop, `main.c` | `s_running`, the poll set, `events[32]`, `state_changed` | start-up, poll, read events, handle commands, reload, emit, reconnect | three inputs, a peer that moves on between any two steps, a connection that is lost |
| Window model, `state.c` | `DockState`: clients, `active_addr`, `active_ws`, `active_mon` | `state_refresh` (three requests), eight `state_on_*` handlers | events older than a snapshot are replayed over it; a refresh can fail half-way |
| Pinned apps, `state.c`, `ConfigStore.qml` | the list in each program, one file | load, pin, unpin, save; move, remove, save | two writers, each with a list of its own; a save is not atomic |
| Socket2 reader, `hypr_events.c` | `s_fd`, `s_buf`, `s_buf_len` | connect, read, cut into lines | partial reads, a full buffer, at most 32 lines a call |
| Command reader, `protocol.c` | `s_stdin_buf` | one command a call | partial writes, lines that are no commands, the pipe closing |
| Messages, `protocol.c` | none | emit config, emit state | text; what matters is when they are sent |
| Hyprland requests, `hypr_ipc.c` | none, the socket path | three queries, dispatches | a request may get no reply |
| Configuration, `config.c` | `DockConfig`, one default per key | parse, validate | two keys change one field |
| Config watcher, `config_watcher.c` | `watch_fd`, `watch_wd`, `watched_path` | watch, reload | a watch on an inode; files half written |
| Launcher, `launcher.c` | the child processes | fork and exec, one `waitpid` | children that outlive the call |
| Icons, `icons.c` | a cache of 128, overrides | resolve | the cache is full, an override changes |
| Shell bridge, `DaemonBridge.qml` | the child, a restart timer, clients, pinned, `dockItems` | take a line, restart, group windows, send commands | the child dies in the middle of a line |
| Dock window, `Dock.qml` | revealed or hidden, magnified or not, hover, three timers, on each screen | auto-hide, magnification | timers against pointer, menu and config |
| Menu, `DockMenu.qml`, `DockItem.qml` | the page and the address it is about | commands for a window | the window goes while the menu is open |
| Settings program, `ConfigStore.qml`, `shell.qml`, `IconResolver.qml` | one field per key, pinned list, icon requests | read, set, save | writes over what it has not read |
| Wrapper, `snappy-dock.sh` | none | start, kill, restart | the shell restarts the daemon the script has killed; two runs of the script overlap |

How they interact: the daemon asks Hyprland over one socket (request and reply)
and listens to another (events); it prints JSON lines to the shell, which writes
JSON commands to its standard input; the daemon and the settings program share
`config.ini`, which the daemon watches, and the pinned file, which it does not.
The daemon is one thread. All concurrency is between processes.

What makes each part correct, and so what is to be checked:

- Event loop and window model: in every state, what differs between the daemon
  and the compositor is on its way to be repaired; the highlight agrees with
  `active_addr`; no change stays unsent; in the end the dock shows the windows
  and the focus.
- Readers: a line or command that fits is handed out once, whole and in order,
  and eventually; the buffer keeps its bound; an overflow loses no complete line.
- Pinned apps: nothing occurs twice, a restart finds what was shown, and a pin
  is lost only through an identified mishap.
- Configuration: what the settings program saves is what the daemon reads;
  rewrites and reloads settle on the file.
- Bridge and wrapper: every window stands in the dock once, with its class; a
  dead daemon is replaced and followed; after the last `--kill` or `--restart`
  there is no dock, or one, unless an earlier run of the script acts after it.
- Dock window: no dock hides under the pointer or an open menu, and one that is
  left hides.
- Menu and requests: a command does what it says, to the window it was for.
- Icons and launcher: an app that has an icon is started by the file that gives
  it, save for the cases named below; an override that is gone leaves no trace.

## Modules

| Module | Models | Notes |
|---|---|---|
| `Hyprland` | the compositor, from how `src/daemon` uses it | environment: windows, focus, workspaces, its Socket2 queue and hang-ups |
| `DockState` | `state.c`, `handle_event` of `main.c` | operators from a `DockState` to the next |
| `MainLoop` | `main()` | one step per wait: each reply of `state_refresh`, `connect`, `poll`, `read`; composes `DockState` and `Hyprland` |
| `MainLoopProofs` | | theorems about `MainLoop` |
| `LineQueue` | | what a line reader promises: a queue of lines |
| `Selection` | loops that go through a list once and keep some of its entries | choose positions, so that a theorem can say where an entry comes from |
| `Bytes` | how both readers find lines | a byte is a number, `'\n'` is 10 |
| `EventReader`, `EventReaderProofs` | `hypr_events_read` | implements `LineQueue` |
| `CommandReader`, `CommandReaderProofs` | `protocol_read_cmd` and its loop in `main()` | implements `LineQueue` |
| `Pinned` | the pinned list and file, two programs | |
| `DockItems`, `Bridge` | `_recompute` and the rest of `DaemonBridge.qml` | |
| `Session`, `SessionProofs` | `snappy-dock.sh`: start, `--kill`, `--restart`, `--restart-dock`; SIGTERM and hang-up in `main()` | extends `Bridge`: runs of the script, shells and daemons as processes |
| `DockWindow`, `DockWindowProofs` | `Dock.qml`, and what of `DockItem.qml` and `DockMenu.qml` opens and closes the menu | one dock per screen, sharing configuration, items and menu |
| `Icons` | `icons.c` | pure operators: the searches, the cache, the overrides |
| `Commands`, `CommandsProofs` | `handle_command` of `main.c`, the dispatches of `hypr_ipc.c`, the choice of program in `launcher.c`, `state_refresh` as far as it asks for icons | extends `Icons`: the menu, the daemon and the compositor, each with its own view of the windows |
| `Config` | parsing and writing `config.ini` on both sides | pure operators; the words that may stand in a file are a constant, `Text` |
| `ConfigReload` | the life of `config.ini`, `config_watcher.c` | |
| `SharedFilesProofs` | | theorems about the two files that the programs share: `Pinned` and `ConfigReload`. What would be the same name in both is spelt out in `ConfigReload` (`ReloadInit`, `ReloadSpec`, `changes`) |
| `ListProofs` | | lemmas about positions, selections, lines and loops that the other proof modules share |
| `MC...` | | constants for TLC, and the hypotheses of the theorems as assumptions, so that every run meets them |

Loops over a list are recursive functions of how far the loop has come: the
reading of a file in `Config`, the requests for icons in `Icons` and `Commands`,
and what the pending events make of the list in `MainLoop` (`Settled`, which
starts from `Resumed`, the end of the refresh under way).

Names of the source are kept: `pc` is a place in `main()`, `s_buf`, `s_fd`,
`dock`, `pinned`, `watch` and so on are the variables of the code, and an action
is named after the function or branch it stands for. Variables marked
`history` in a module record what happened and have no influence on it.

Abstractions that hold throughout: titles are left out, and icon names but in
`Icons`; an application class is a value whose lower-case form is given by
`Fold`, and in `Icons` its last dotted part by `LastPart` and what contains it by
`Within`, while of a file's name `suffix` says where `.desktop` stands in it;
the events the daemon does not know are one event; `sleep(1)` and poll's timeout
are steps that may happen at any time the code waits for them.

In `MainLoop` the events of Socket2 are whole lines, as `EventReader` shows they
may be for lines that fit 8191 bytes. The compositor answers a request and
announces a change in one step of its own loop, so an event is queued at the
moment the state it announces exists. Two things of it that the code cannot
tell are assumed: a client hung up on may still read what was sent before, and
a window that opens takes the focus.

In `DockWindow` a handler of the shell, with all the handlers its assignments set
off, is one step; a binding on a property is taken to be evaluated before the
handlers of its change. A dock is magnified or not; by how much is rendering.
`expanded` stands for `snappyMouseX` or `_pendingX` being set.

In `Commands` a window has a number besides its address, which nobody in the
system sees: it tells a window from a later one at the same address. The
requests of one command are separate steps, so that windows and focus change
between them. Pinning is in `Pinned`; `launch_cmd` and the life of a launched
process are left out. Which variables are the compositor's, the daemon's and the
shell's is said where they are declared.

`Session` takes the shells to be ones that the script's `pkill -f` finds (see
below), and assumes nothing of the lengths of its sleeps. A command may be given
at any time: each run of the script has its place in `script`, and runs overlap.
The script does not ask whether a dock is up, so `StartShell` may add a second
one. `Bridge` is the first dock; of the others the number is kept (`extra`), and when
their shells are killed each may have a daemon or wait to restart it.

## Runs

`tlc -config X.cfg M`; deadlock checking is off everywhere because every model
stops once its bound on the environment is used up.

| Run | Shows |
|---|---|
| `loop_sync` | `WindowsSettle`, `FocusSettles`: replaying the announced events over the daemon's state gives the compositor's windows and focus, in every state; `LiveIsSynced`: a subscribed daemon rests on a snapshot no unannounced change has followed; `ShownCurrent`: the daemon never sleeps on a state it has not sent |
| `loop_faults` | `ActiveCoherent` and `FocusSettles` under start-up activity, a failing request, batches of two, two monitors, a window without a class, commands and the exit of the shell |
| `loop_converge` | `WindowsConverge`, `FocusConverges`: the dock ends up showing the compositor |
| `event_reader` | `ImplementsQueue` for the lines that fit, among lines that do not; `DiscardKeepsLines`; `AllHandedOut` if one call may hand out all |
| `command_reader` | the same for commands: `ImplementsQueue`, `CommandsHandled`, and `HangupStops` |
| `pinned_writers` | `NoDuplicates`, `ListIsStored`, `PinsLostOnlyByMishap` with crashes, restarts, failing saves and the settings program |
| `dock_shell` | `EachWindowOnce` and `Grouped`; `DockFollows` and `KillStops`: whatever the order of the steps of two overlapping runs of the script, the death of a daemon and its restart by the shell, the dock ends up as the user last told it to, with one daemon or none; `SessionTypeOK`: processes do not multiply. The exception, `overtaken`, is a run that kills or starts a dock although a later command was given, and whose effect no later kill removes; `second` is a start by the user beside a dock that is up |
| `config_life` | `SavedAsShown`: the daemon, and the settings program when it is started again, read what was saved as it was shown; `WaitsUpToDate`: a daemon that waits uses the file as it is, though it may have parsed half of one before; `ReloadSettles`, its liveness; every file of up to two lines out of fifteen, four changes |
| `dock_window` | `MenuKeepsDock`, `MagnifiedByPointer`, `NeverHidesUnderPointer`, and `HidesAtLast`: a dock the pointer has left hides, in whatever order its three timers fire |
| `menu_commands` | `HitsWhatWasMeant` and `DoneAsTold`: what a click on an item does to which windows, in both languages of Hyprland; `CacheSound`; `LaunchesWhatIsShown`: the two searches of `icons.c` agree, but for reverse-domain names and backups (`BackupFirst`) |
| `startup_race`, `menu_stuck` | two things that do not hold, below |

The bounds. Two addresses suffice for a close and reopen of the same address
and for focus passing between windows; three compositor steps with a lost
connection give close, open and close again across a reconnection. Two
workspaces and two monitors give every event a value that changes something; in
`loop_sync` one of the workspaces is special, in `loop_converge` windows move
between two normal ones.
In `loop_faults` windows close (the focus passes on), workspaces and monitors
switch; the other changes are met in the other loop runs.
Batches of two events leave lines behind in `loop_faults`; 32 in the others is
more than can be queued. Buffers of 4 and 6 bytes are met by lines that just
fit, by one byte more, and by a line that fills the buffer more than once in
pieces; a byte carries the number of its line, so a fragment is never taken for
a line. Two spellings of one class, a class that looks like a comment and four
operations reach every combination of the two writers of the pinned file.
In `dock_shell` two commands, one death and one change of the state suffice for a
kill, a start or another restart during a restart, and for the shell restarting
the daemon between the two halves of a kill; five lists of windows and pins have
a class split by another, spelt in two ways, pinned in either, and pinned but
not running (`EveryWindowOnce` and `WindowsGrouped` hold for every list).
`dock_window` needs no bound on its steps; two
screens are as many as a pointer can go between, one item suffices as the menu is
open or not, and the item may go and come back. In `menu_commands` one click is followed
through everything: three happenings give an address that is closed and used
again while the click, or its last request, is on its way. The addresses are
symmetric, as only equality is asked of them. Four classes (one spelt in two
ways, one in reverse-domain notation) fill a cache of two. Of five files one is
found by its name, one by a part of it, one by what it says inside (its suffix
in capitals), one is hidden, and one is a backup.

Fairness. `WF(Daemon)`: the daemon is a thread the scheduler runs, and each of
its steps waits for something that comes or times out. `WF(Reopen)`: a socket
that was closed by a restarting compositor opens again; without this nothing
can be shown. The shell's event loop gets weak fairness for taking a line,
noticing the child's end and firing its timer; every run of the script goes on; a daemon
whose shell is gone meets the end of its standard input, since `poll()` reports
it. That a daemon notices SIGTERM is not assumed: the signal may fall between the
test of `s_running` and `poll()` (`main.c:209`), and `KillStops` holds all the same,
because the hang-up ends it. Each timer of a dock fires in the end while it runs:
`WF` of its action, which a handler that restarts the timer does not refute, as
no handler runs for ever. An editor that has opened a file finishes writing it.
Nothing is assumed of the user, the compositor, faults or the readers' peers.

Every property of a passing run has a mutant, an operator beside the definition
it replaces, that stands for a slip in the code (a missing refresh, an
off-by-one in the room of a buffer, a forgotten hang-up, a comparison that
minds case) and makes TLC find the property violated under the same constants.

## What does not hold

Two runs are expected to end in a violation; each checks what the
documentation says against what the code does.

- `startup_race`: `main()` takes its first snapshot before it subscribes
  (`main.c:179`, `main.c:183`). A window that opens in between is in neither. After a
  lost connection the order is the right one, which is `LiveIsSynced`.
- `menu_stuck`: an item's name contains its title (`DockItem.qml:41`). If it is
  renamed while its menu is open the popup is hidden, and compares
  `activeMenuId` with the new name before resetting it (`DockItem.qml:486`); the old
  name stays, and no dock hides until somebody clicks. `HidesAtLast` is stated
  for times at which no menu is named.

Met while modelling and described here only:

- A restart sleeps before it starts the dock (`snappy-dock.sh:300`,
  `snappy-dock.sh:306`). A `--kill` given then finds nothing, and the dock starts
  afterwards, though `README.md:129` says that `--kill` stops it. In the same way
  two restarts that overlap can leave two docks. Both are the exception of
  `DockFollows` and `KillStops` (`overtaken`).
- `snappy-dock` while a dock is up starts another beside it, with a daemon of its
  own: `do_start` does not ask `is_running` (`snappy-dock.sh:173`, `snappy-dock.sh:358`).
  `DockFollows` calls it `second`. Two daemons then save the same pinned file, which
  is not modelled.
- `hypr_events_read` hands out 32 lines at most and leaves complete lines in its
  buffer, which `poll()` does not see, until the next event comes
  (`hypr_events.c:157`). `AllHandedOut` is stated for batches that hold what comes.
- Save in the settings program writes back the pinned list it read when it
  started, over pins made since (`ConfigStore.qml:145`): one of the mishaps of
  `PinsLostOnlyByMishap`.
- The watch is on the inode: a file moved over `config.ini` is never noticed
  (`config_watcher.c:30`). `ReloadSettles` is stated up to the first change that no
  event tells.
- A refresh whose first request fails leaves an empty list and returns false
  (`state.c:214`), so the shell keeps the old one. `ShownCurrent` is checked
  without failing requests for this reason.
- If no window has the focus the reply has no address and `active_addr` stays
  (`state.c:266`). `focusSync`, and with it `FocusSettles` and
  `FocusConverges`, starts from a snapshot that had a focus.
- The snapshot leaves out windows on a special workspace (`state.c:239`), and the
  handler of a move changes listed windows only (`state.c:393`). A window that comes
  back to a normal workspace stays missing until something makes the daemon
  refresh, and one that goes there stays listed until then. `WindowsSettle` is
  stated from one snapshot to the next such move (`crossed`).
- `focusedmon` carries the workspace of the monitor, which the handler drops
  (`state.c:445`); `active_ws`, the "currently active workspace ID" of `state.h:57`, is that
  of the other monitor until the next workspace event.
- `ExclusiveZone=-5` is kept as it is (`config.c:152`), a value `config.h:27` does
  not list; the shell takes every negative one for automatic.
- `ExclusiveZone=48` followed by `ExclusiveZoneValue=0` gives an automatic zone
  (`config.c:154`); the default layer is `overlay` where `README.md:224` says
  `top` (`config.c:81`); a stored delay of 0 is saved back as 300
  (`ConfigStore.qml:253`).
- A command line that is no JSON ends the loop over commands, and those behind
  it wait for more input (`protocol.c:243`): `CommandsHandled` is about a shell
  that writes commands only, as ours does.
- Without Lua, raising a window and making it fullscreen are requests about the
  active window, made after the focus (`hypr_ipc.c:284`). If the focus goes elsewhere
  in between, another window is hit: the exception of `HitsWhatWasMeant`.
- `icons_find_desktop` lacks the search by the last part of a class in
  reverse-domain notation that finds icons (`icons.c:138`, `icons.c:250`): such an app can have an
  icon and not start. `LaunchesWhatIsShown` excludes it.
- The launcher's scan takes a name that has `.desktop` anywhere in it
  (`icons.c:262`), the scan for icons one that ends so (`icons.c:181`). Where no file
  has the name of the class, `code.desktop.bak` can be launched, though
  `icons.h:48` says "the .desktop file", and its icon is never shown.
  `LaunchesWhatIsShown` excepts it (`BackupFirst`).
- A config message resets the docks and with them what they know of the pointer
  (`Dock.qml:541`), so a dock can hide under a pointer that does not move:
  the exception of `NeverHidesUnderPointer`.
- A colour removed from `config.ini` keeps its old value in the shell
  (`DaemonBridge.qml:190`).
- The comment at `snappy-dock.sh:156` says that the daemon's end closes QuickShell. The
  shell restarts the daemon instead; it is the second `pkill` that closes it.
- The `pkill -f` of `do_kill` (`snappy-dock.sh:159`) wants `snappy-dock/shell` in the
  command line. A shell that runs from `~/.config/quickshell/snappy-dock`
  (`snappy-dock.sh:37`) or another `SNAPPY_DOCK_SHELL` is not found: it goes on and
  starts the daemon again, and a restart adds a second dock. `KillStops` and
  `DockFollows` say nothing of that case.
- `launcher.c:122` calls `waitpid` once, with `WNOHANG`; an application that
  exits later stays a zombie until the daemon ends.

## Proofs

`tlapm M.tla` checks the eight modules with theorems. They hold for all values
of the constants that satisfy the named assumptions of the modules
(`AddrAssumption`, `LoopAssumption`, `SizeAssumption` and so on), so for any
number of windows, any bound and any buffer. Every invariant and every action
property that a run checks is a theorem, and so are both refinements of
`LineQueue`. Where a theorem has a hypothesis of its own, it is named, the code
that justifies it is said below, and the MC module assumes it, so TLC finds that
the constants of the run satisfy it.

Induction over a list is done by least counterexamples. If a statement about
the first n entries failed for some n, there would be a least such n
(`ListProofs!LeastNat`, from the well-foundedness of `<` on the naturals), and
the step from n - 1 contradicts it. `Iterate` gives the values of a recursive
function in the same way.

**The loop, `MainLoopProofs`.**

- `TypeCorrect` and `HighlightAgrees`: `[]TypeOK` and `[]ActiveCoherent`, with
  all faults. The inductive invariant is their conjunction: the type gives the
  handlers' lemmas their hypotheses, and `ActiveCoherent` needs its exception
  for `pc = "active"`, where the list is new and unmarked. One lemma per handler
  says that it keeps type and coherence; the lemmas about refresh, loop and
  environment steps cite those.
- `SubscribedInSync`: `[]LiveIsSynced`, if no request fails and nothing happens
  during start-up. The strengthening, `SyncInv`, says of each place in the loop
  what a live subscription there means; a subscription alone does not imply the
  snapshot, for at `pc = "clients"` it is still to come.
- `EveryChangeIsShown`: `ShownCurrent` as long as no request has failed.
  `OwedInv` says where in an iteration an unsent change is remembered, in
  `changed`; it rests on a lemma per handler: one that reports no change makes
  none. After a failed request it does not hold (see above).
- `PendingRepairsTheList` and `PendingRepairsTheFocus`: `[]WindowsSettle` and
  `[]FocusSettles`, with all faults. These speak of the end of a replay,
  which no step can be compared with directly. The invariant `SettleInv` says instead, window
  by window, that the last pending event which has a say about it tells the
  truth (`Told`), and that what no pending event has a say about is already
  right in the daemon (`Tracks`). `WindowsFollow` and `FocusFollows` derive the
  end of the replay from that, by induction along the queue. The compositor's
  steps keep it because they announce what they change; the daemon's because
  an event that is handled leaves the queue and makes its part of the list right.

**The readers, `EventReaderProofs` and `CommandReaderProofs`.**

- `TypeCorrect` of both: the buffer keeps its bound for any size, stream and
  division into pieces. `OverflowKeepsLines`: what an overflow discards holds no
  complete line; a call that leaves a newline in the buffer has cut at
  least one byte off it, so the buffer is not full.
- `ReaderIsAQueue` and `CommandsAreAQueue`: `Spec => ImplementsQueue`. The
  invariant says that the buffer is the part of the stream between two
  positions, `start` and `taken`, that the lines handed out are those that
  end before `start`, and that `start` is within no line that fits (`CutsNone`).
  A step of the reader moves `start` over some lines and is a step of the
  queue; one that drops bytes moves it within a line that does not fit. They ask
  that a torn fragment is not taken for a line (`FragmentsDiffer`,
  `CommandsWhole`): the rest of an event longer than the buffer might spell
  another event, and nothing in the code would notice.

**The menu, `CommandsProofs`.**

- `CommandsHit`: `HitsWhatWasMeant`. The invariant `IInv` says that an address
  which was once right for a window stays right as long as the window is open,
  in whichever list or command it travels (`Known`); and that a request about the
  active window comes after one that gives that window the focus, or finds it
  there (`FocusBefore`). The first half is kept because the compositor hands out
  an address anew only after a close, the second by induction along the requests
  that are left.
- `CommandsAreDone`: `[]DoneAsTold`. What a command is to do has been done, or one
  of the requests that are left will do it (`DoneInv`), and none of them is for
  another window. `close_all` needs in addition that the classes in the daemon's
  list are those of the windows (`ClientsOK`); that the list has them all when the
  command is taken is part of its not being disturbed (`calm`).
- `CacheIsSound`: `[]CacheSound`. Each operation on the cache and on the
  overrides keeps a set of tables with one entry for a class (`Caches`,
  `OverrideTables`), and so does a loop over such operations. It asks that no
  override has the icon of a file (`OverridesDiffer`), without which the two
  could not be told apart.
- `LaunchedAsShown`: `LaunchesWhatIsShown`, from a comparison of the two searches,
  pass by pass. `ScansAgree` compares their scans, which agree if the launcher's
  comes first to a name that ends in `.desktop`; otherwise an earlier pass of both
  must find a file (`EarlyAnswer`), or `BackupFirst` excepts it; `TypeCorrect`.

**The shared files, `SharedFilesProofs`.**

- `TypeCorrect`, `NothingTwice`, `RestartShowsTheSame` and `PinsAreKept` are the
  four invariants of `Pinned`. `NothingTwice` asks that the first file names no
  app twice, as a file edited by hand might. `PinsInv`, behind the last two, says of a
  save that is under way that the list it will write holds what the user
  wants, and of a settings program that has read the file that it has every app
  in it but those that look like comments.
- `ConfigTypeCorrect` and `WaitsOnTheFile`: `[]ReloadTypeOK` and
  `[]WaitsUpToDate`. `ConfigInv` adds that nothing is watched and no event waits
  before the daemon is in its loop, and that a file being written has a
  name: without these a rewrite that ends between parsing and watching would
  seem to be announced.
- `SavedIsReadAsShown`: `SavedAsShown`, for every content of the fields. The
  lemma `GeneratedFile` goes through the file that `generateIni` writes line by
  line and says what both readers hold after each; three of the lines may be
  missing.

**The shell, `SessionProofs` and `DockWindowProofs`.**

- `SessionTypeCorrect`: `[]SessionTypeOK`, whose point is the bound on processes,
  however runs of the script overlap: the docks that are up, the runs that are
  still to start one (`Starting`) and the daemons a kill left behind are no more
  than the commands given and the first dock. `CountInv` adds that a run which was
  not given does nothing; a step moves a process from one of the three to another,
  ends one, or comes with a command.
- `EveryWindowOnce` and `WindowsGrouped`: `[]EachWindowOnce` and `[]Grouped`. The
  shell holds nothing, or one state of the daemon and its items (`ShownInv`);
  for these `recompute` is shown to place every position of the list in
  exactly one item. They ask that the daemon says nothing ambiguous
  (`Unambiguous`): no address twice, which the type of `DockState` gives, and no class
  pinned twice, which is `NothingTwice`. The latter compares with
  `strcasecmp`, the shell with `toLowerCase`; they agree on ASCII.
- `DockWindowProofs`, for any number of screens and items: `TypeCorrect`,
  `OpenMenuKeepsDocks`, `NoGhostPointer` and `HidesFromNobody`. The inductive
  invariant is `DockInv` of every dock. Beside the invariants it says that a dock
  which does not know of the pointer over it has been reset since the pointer
  came, which is what `NeverHidesUnderPointer` rests on. One lemma per function
  of `Dock.qml` says that it keeps `DockInv`; steps cite those.

Only model-checked: liveness, which the prover does not cover (`WindowsConverge`,
`FocusConverges`, `AllHandedOut`, `HangupStops`, `CommandsHandled`, `DockFollows`,
`KillStops`, `ReloadSettles`, `HidesAtLast`). For most of them the safety half is
proved: what converges is what settles (`WindowsSettle`, `FocusSettles`), what
waits is up to date (`WaitsUpToDate`), what is handed out is a queue.

## Not modelled

Forms, presets, layout, geometry, animation and the theme: rendering or data,
with no order of events to get wrong. The icon requests of the settings program:
a late answer shows an old icon in a preview. The JSON text of the messages, and
the colours of the config message. The life of launched processes, on which
nothing in the daemon depends. The search for the socket path and for the
installation of the shell, `--status`, and the tests.

Partly: the keys of `config.ini`, six of which stand for the kinds there are, and
the workspace of `focusedmon`.

## Plan

Done: `Hyprland`, `DockState`, `MainLoop`; then the readers with `LineQueue`; then
`Pinned`, `Bridge`, `Config`, `ConfigReload`; then `DockWindow`, `Session`, `Icons`,
`Commands`; and the theorems above.

Next: the colours of the config message in `Bridge`, the workspace of
`focusedmon`, and a shell that the script does not find in `Session`. Each adds
a conjunct or a case to an invariant that is proved (`Grouped`, `SyncInv`,
`CountInv`), and its theorem is to be kept.

Proofs planned: that what `EventReader` hands out is what `MainLoop` takes for
its `batch` (no theorem joins the two modules yet), and that the list a daemon
sends satisfies `Unambiguous`, from `NothingTwice` and the type of the
window model.
