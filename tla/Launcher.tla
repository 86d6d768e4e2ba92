------------------------------ MODULE Launcher ------------------------------
(***************************************************************************)
(* ZeroLauncher and the music player daemon it starts, tells to quit and   *)
(* makes room for: the mpd module (add-ons/mpd/mpd.c), the patched mpdc    *)
(* module with its "Kill MPD" and "Initiate MPD" items, and the patched    *)
(* ways to run a program (core/browser.c).                                 *)
(*                                                                         *)
(* The daemon is a process of its own: it comes up, fails, quits after     *)
(* "kill" or dies when it likes, and only one can hold its port.  The      *)
(* launcher knows of it through MPD_ACTIVE alone.  Scripts that run a      *)
(* program kill the launcher, which init starts again afterwards; the      *)
(* device may lose power at any moment, and only the saved settings        *)
(* survive.  Dialogs are the user's choices; the backlight, the loopback   *)
(* interface and mpd.conf (the same at every start) are left out.          *)
(***************************************************************************)
EXTENDS Naturals

CONSTANTS
    MaxStarting,  \* bound: daemons that have not yet come up or failed
    MaxCuts,      \* bound: how often the power is cut
    MaxFaults     \* bound: daemons and updates that fail of themselves

ASSUME LauncherAssumption ==
    MaxStarting \in Nat /\ MaxCuts \in Nat /\ MaxFaults \in Nat

VARIABLES
    installed,    \* /opt/Base/MPD/MPD-ke can be executed
    disk,         \* the saved settings
    config,       \* the launcher's copy of them
    MPD_ACTIVE,   \* the launcher's belief about the daemon
    items,        \* menu items registered: "update" (mpd), "mpdc"
    cpu,          \* processor speed in MHz
    pc,           \* what the launcher executes
    how,          \* how the running program was started
    agreed,       \* its user was asked about memory, and said yes
    listening,    \* the daemon that holds the port, if any
    starting,     \* daemons executed that do not listen yet
    \* ghosts: an update was asked for and saved and has not been done; the
    \* last update failed; a daemon may run that the launcher lost track
    \* of; "MPD process killed." was the last word on the daemon
    owed, failed, lost, said,
    cuts, faults  \* counters for the bounds

daemon == <<listening, starting>>
settings == <<disk, config>>
ghosts == <<owed, failed, lost, said>>
counters == <<cuts, faults>>
vars == <<installed, settings, MPD_ACTIVE, items, cpu, pc, how, agreed, daemon,
          ghosts, counters>>

Settings == [mpd : BOOLEAN, update : BOOLEAN]
Speeds   == {72, 75, 78}

\* boot: Launch.sh up to the mpd module; update, updating, updated, reboot:
\* init_db; start, connect: init_mpd from init; mpdc: init_mpdc; menu;
\* restart, reconnect: init_mpd from force_init; program: a program runs;
\* hung: a child of vfork that did not exec loops, its parent never resumes
Pcs == {"boot", "update", "updating", "updated", "reboot", "start", "connect",
        "mpdc", "menu", "restart", "reconnect", "program", "hung"}

Counts ==
    /\ starting \in 0 .. MaxStarting
    /\ cuts \in 0 .. MaxCuts /\ faults \in 0 .. MaxFaults

Values ==
    /\ disk \in Settings /\ config \in Settings
    /\ items \subseteq {"update", "mpdc"}
    /\ cpu \in Speeds
    /\ pc \in Pcs
    /\ how \in {"none", "plain", "script", "kill"}
    /\ listening \in {"none", "up", "dying"}

Flags ==
    /\ installed \in BOOLEAN /\ MPD_ACTIVE \in BOOLEAN /\ agreed \in BOOLEAN
    /\ owed \in BOOLEAN /\ failed \in BOOLEAN
    /\ lost \in BOOLEAN /\ said \in BOOLEAN

TypeOK == Counts /\ Values /\ Flags

\* What init sets when the file has no settings yet
Defaults == [mpd |-> FALSE, update |-> TRUE]

Init ==
    /\ installed \in BOOLEAN
    /\ disk = Defaults /\ config = Defaults
    /\ MPD_ACTIVE = FALSE /\ items = {} /\ cpu = 75
    /\ pc = "boot" /\ how = "none" /\ agreed = FALSE
    /\ listening = "none" /\ starting = 0
    /\ owed = TRUE /\ failed = FALSE /\ lost = FALSE /\ said = FALSE
    /\ cuts = 0 /\ faults = 0

-----------------------------------------------------------------------------
(* Start *)

\* Launch.sh slows the processor down, the mpd module loads its settings.
Boot ==
    /\ pc = "boot"
    /\ cpu' = 75
    /\ config' = disk
    /\ MPD_ACTIVE' = FALSE
    /\ said' = FALSE
    /\ items' = IF disk.mpd THEN {"update"} ELSE {}
    /\ pc' = IF ~disk.mpd THEN "mpdc" ELSE IF disk.update THEN "update" ELSE "start"
    /\ UNCHANGED <<installed, disk, how, agreed, daemon, owed, failed, lost,
                   counters>>

\* mutant of UpdateRun: the flag is cleared and saved before the update
UpdateRunClears ==
    /\ pc = "update"
    /\ pc' = IF installed THEN "updating" ELSE "hung"
    /\ config' = [config EXCEPT !.update = FALSE]
    /\ disk' = config'
    /\ UNCHANGED <<installed, MPD_ACTIVE, items, cpu, how, agreed, daemon,
                   ghosts, counters>>

\* init_db runs the daemon's binary with --update-db and waits for it.  In
\* a child that could not exec, pid is 0 and kill(0, 0) succeeds for ever.
UpdateRun ==
    /\ pc = "update"
    /\ pc' = IF installed THEN "updating" ELSE "hung"
    /\ UNCHANGED <<installed, settings, MPD_ACTIVE, items, cpu, how, agreed,
                   daemon, ghosts, counters>>

\* The update's own end, which may be a failure; its status is not looked at.
UpdateEnds(done) ==
    /\ pc = "updating" /\ pc' = "updated"
    /\ done \/ faults < MaxFaults
    /\ faults' = IF done THEN faults ELSE faults + 1
    /\ owed' = (owed /\ ~done)
    /\ failed' = ~done
    /\ UNCHANGED <<installed, settings, MPD_ACTIVE, items, cpu, how, agreed,
                   daemon, lost, said, cuts>>

\* mutant of NoUpdate: the flag stays
NoUpdateNot(c) == c

NoUpdate(c) == [c EXCEPT !.update = FALSE]

UpdateClear ==
    /\ pc = "updated" /\ pc' = "reboot"
    /\ config' = NoUpdate(config)
    /\ disk' = config'
    /\ UNCHANGED <<installed, MPD_ACTIVE, items, cpu, how, agreed, daemon,
                   ghosts, counters>>

\* mutant of StartDaemon: parent and child both execute the daemon
StartDaemonTwice(from, to) ==
    /\ pc = from
    /\ cpu' = 78
    /\ IF installed THEN pc' = to ELSE pc' = "hung"
    /\ IF installed /\ "update" \in items
       THEN starting < MaxStarting /\ starting' = starting + 2
       ELSE UNCHANGED starting
    /\ UNCHANGED <<installed, settings, MPD_ACTIVE, items, how, agreed,
                   listening, ghosts, counters>>

\* init_mpd executes the daemon with the processor overclocked.  Its path is
\* known when init found the module enabled, which is when it registered
\* "update"; without it the child of vfork goes on as the launcher.
StartDaemon(from, to) ==
    /\ pc = from
    /\ cpu' = 78
    /\ IF installed THEN pc' = to ELSE pc' = "hung"
    /\ IF installed /\ "update" \in items
       THEN starting < MaxStarting /\ starting' = starting + 1
       ELSE UNCHANGED starting
    /\ UNCHANGED <<installed, settings, MPD_ACTIVE, items, how, agreed,
                   listening, ghosts, counters>>

\* connect succeeds: somebody listens, one told to quit still does
Answers == listening # "none"

\* while (send_command("")): it tries again until somebody answers
Connect ==
    /\ pc = "connect" /\ Answers
    /\ pc' = "mpdc"
    /\ UNCHANGED <<installed, settings, MPD_ACTIVE, items, cpu, how, agreed,
                   daemon, ghosts, counters>>

\* init_mpdc registers the module's items only when it finds a daemon.
InitMpdc ==
    /\ pc = "mpdc" /\ pc' = "menu"
    /\ MPD_ACTIVE' = Answers
    /\ items' = IF Answers THEN items \union {"mpdc"} ELSE items
    /\ lost' = (~Answers /\ (lost \/ starting > 0))
    /\ UNCHANGED <<installed, settings, cpu, how, agreed, daemon, owed, failed,
                   said, counters>>

-----------------------------------------------------------------------------
(* Telling the daemon to quit, and saving *)

\* mutant of KillMpd: it looks for a daemon that is believed inactive
KillMpdInactive(active) ==
    IF active THEN UNCHANGED <<listening, cpu>>
    ELSE /\ listening' = IF listening = "up" THEN "dying" ELSE listening
         /\ cpu' = 75

\* kill_mpd: "kill" to whoever listens, and the default speed
KillMpd(active) ==
    IF active THEN /\ listening' = IF listening = "up" THEN "dying" ELSE listening
                   /\ cpu' = 75
    ELSE UNCHANGED <<listening, cpu>>

\* The settings in memory reach the file.  An update that the user has asked
\* for, or thought better of, counts from here on.
Save(c) ==
    /\ disk' = c
    /\ owed' = IF c.update # disk.update THEN c.update ELSE owed

\* pz_modules_cleanup, as far as the mpd module: cleanup_mpd
CleanUp ==
    /\ KillMpd(MPD_ACTIVE)
    /\ MPD_ACTIVE' = FALSE
    /\ Save(config)

-----------------------------------------------------------------------------
(* The menu *)

\* A setting is changed; it is saved at once or with a later clean-up.
Toggle(c) ==
    /\ pc = "menu"
    /\ \/ c = [config EXCEPT !.mpd = ~@]
       \/ "update" \in items /\ c = [config EXCEPT !.update = ~@]
    /\ config' = c
    /\ Save(c) \/ UNCHANGED <<disk, owed>>
    /\ UNCHANGED <<installed, MPD_ACTIVE, items, cpu, pc, how, agreed, daemon,
                   failed, lost, said, counters>>

\* "Kill MPD".  kill_mpd is called when MPD_ACTIVE is already 0.
ForceKill ==
    /\ pc = "menu" /\ "mpdc" \in items /\ MPD_ACTIVE
    /\ MPD_ACTIVE' = FALSE
    /\ KillMpd(MPD_ACTIVE')
    /\ said' = TRUE
    /\ lost' = (listening = "up" \/ starting > 0)
    /\ UNCHANGED <<installed, settings, items, pc, how, agreed, starting,
                   owed, failed, counters>>

\* "Initiate MPD"
ForceInit ==
    /\ pc = "menu" /\ "mpdc" \in items /\ ~MPD_ACTIVE
    /\ pc' = "restart"
    /\ said' = FALSE
    /\ UNCHANGED <<installed, settings, MPD_ACTIVE, items, cpu, how, agreed,
                   daemon, owed, failed, lost, counters>>

Reconnect ==
    /\ pc = "reconnect" /\ Answers
    /\ pc' = "menu"
    /\ MPD_ACTIVE' = TRUE
    /\ lost' = FALSE
    /\ UNCHANGED <<installed, settings, items, cpu, how, agreed, daemon, owed,
                   failed, said, counters>>

\* pz_execv and pz_exec: with the daemon active the user is asked first
\* (mpd_check); a "No" leaves everything as it is.
Exec(kind) ==
    /\ pc = "menu" /\ pc' = "program"
    /\ kind \in {"plain", "script"}
    /\ how' = kind
    /\ agreed' = MPD_ACTIVE
    /\ said' = FALSE
    /\ UNCHANGED <<installed, settings, MPD_ACTIVE, items, cpu, daemon, owed,
                   failed, lost, counters>>

\* pz_execv_kill and pz_exec_kill: the same question, then the modules are
\* cleaned up and the program is run; MPD_ACTIVE being 0 by then, pz_exec
\* does not ask again.
ExecKill ==
    /\ pc = "menu" /\ pc' = "program"
    /\ how' = "kill"
    /\ agreed' = MPD_ACTIVE
    /\ CleanUp
    /\ lost' = (lost \/ starting > 0)
    /\ said' = FALSE
    /\ UNCHANGED <<installed, config, items, starting, failed, counters>>

\* A plain program returns to the launcher, maybe at the speed its script
\* leaves (cpu_speed 72); other scripts began with "killall -15
\* ZeroLauncher", and init starts the launcher again.  One run after a
\* clean-up without that killall would return to a launcher that has freed
\* its settings; from there on nothing is modelled but the next start.
ProgramEnds ==
    /\ pc = "program"
    /\ pc' = IF how = "plain" THEN "menu" ELSE "boot"
    /\ cpu' \in {cpu, 72}
    /\ how' = "none" /\ agreed' = FALSE
    /\ UNCHANGED <<installed, settings, MPD_ACTIVE, items, daemon, ghosts,
                   counters>>

-----------------------------------------------------------------------------
(* Power *)

\* what a reboot leaves of processes and memory
AllOff ==
    /\ pc' = "boot"
    /\ how' = "none" /\ agreed' = FALSE
    /\ listening' = "none" /\ starting' = 0
    /\ lost' = FALSE /\ said' = FALSE
    /\ UNCHANGED <<installed, items>>

\* pz_ipod_reboot and pz_ipod_powerdown clean up first.
Reboot ==
    /\ pc \in {"reboot", "menu"}
    /\ AllOff
    /\ MPD_ACTIVE' = FALSE
    /\ Save(config)
    /\ cpu' = 75
    /\ UNCHANGED <<config, failed, counters>>

\* A cut at any moment: the settings in memory are gone.
PowerCut ==
    /\ cuts < MaxCuts /\ cuts' = cuts + 1
    /\ AllOff
    /\ UNCHANGED <<settings, MPD_ACTIVE, cpu, owed, failed, faults>>

-----------------------------------------------------------------------------
(* The daemon *)

Listen ==
    /\ starting > 0 /\ listening = "none"
    /\ starting' = starting - 1 /\ listening' = "up"
    /\ UNCHANGED <<installed, settings, MPD_ACTIVE, items, cpu, pc, how, agreed,
                   ghosts, counters>>

\* The port is taken
BindFails ==
    /\ starting > 0 /\ listening # "none"
    /\ starting' = starting - 1
    /\ UNCHANGED <<installed, settings, MPD_ACTIVE, items, cpu, pc, how, agreed,
                   listening, ghosts, counters>>

Quit ==
    /\ listening = "dying" /\ listening' = "none"
    /\ UNCHANGED <<installed, settings, MPD_ACTIVE, items, cpu, pc, how, agreed,
                   starting, ghosts, counters>>

\* A daemon that fails before it listens, or later
Crash ==
    /\ faults < MaxFaults /\ faults' = faults + 1
    /\ \/ starting > 0 /\ starting' = starting - 1 /\ UNCHANGED listening
       \/ listening = "up" /\ listening' = "none" /\ UNCHANGED starting
    /\ UNCHANGED <<installed, settings, MPD_ACTIVE, items, cpu, pc, how, agreed,
                   ghosts, cuts>>

-----------------------------------------------------------------------------
\* what the launcher does without being asked
Startup ==
    \/ Boot \/ UpdateRun \/ UpdateClear \/ (pc = "reboot" /\ Reboot)
    \/ StartDaemon("start", "connect") \/ Connect \/ InitMpdc
    \/ StartDaemon("restart", "reconnect") \/ Reconnect

Update == \E done \in BOOLEAN : UpdateEnds(done)

Menu ==
    \/ \E c \in Settings : Toggle(c)
    \/ ForceKill \/ ForceInit
    \/ \E kind \in {"plain", "script"} : Exec(kind)
    \/ ExecKill \/ ProgramEnds
    \/ (pc = "menu" /\ Reboot)

Daemon == Listen \/ BindFails \/ Quit

Next == Startup \/ Update \/ Menu \/ Daemon \/ Crash \/ PowerCut

Spec == Init /\ [][Next]_vars

\* The launcher, an update and the daemon are processes the kernel runs; the
\* user, a program and the failures promise nothing.
Fairness == WF_vars(Startup) /\ WF_vars(Update) /\ WF_vars(Daemon)

LiveSpec == Spec /\ Fairness
-----------------------------------------------------------------------------
(* What the user is promised *)

\* An update of the database that was asked for and saved stays asked for
\* until it has been done, whatever restarts happen in between (mpd.c:105-
\* 128); only an update that ran and failed is forgotten.
UpdateNotLost == owed => disk.update \/ failed

\* A daemon that runs is one the launcher knows of, and a program shares
\* the memory with it only by the user's leave (core-browser.c.patch:18-27,
\* 46-64): unless "Kill MPD" left one running, or a daemon came up after
\* the launcher had stopped waiting for it.
NoUnknownDaemon ==
    listening = "up" /\ ~lost =>
        /\ pc = "menu" => MPD_ACTIVE
        /\ pc = "program" => agreed /\ how # "kill"

\* Nobody is there to answer init_mpd, and nobody will be.
NobodyComes ==
    pc \in {"connect", "reconnect"} /\ listening = "none" /\ starting = 0

\* After a start the menu comes up, through an update and its reboot too,
\* unless the daemon is gone before it answered, or its binary is missing
\* (mpd.c:121, 145).
MenuComes == pc = "boot" ~> (pc = "menu" \/ NobodyComes \/ pc = "hung")

\* "MPD process killed." (modules-mpdc-mpdc.c.patch:56): while this is the
\* last word, no daemon runs that has not been told to quit.
KilledIsKilled == said /\ pc = "menu" => listening # "up"
=============================================================================
