--------------------------- MODULE LauncherProofs ---------------------------
(* Proofs about Launcher: types, the database update that is not lost, and *)
(* the daemon nobody knows of.                                             *)
EXTENDS Launcher, TLAPS

\* What Save and NoUpdate do to the settings
LEMMA SettingsLemma ==
    ASSUME NEW c \in Settings
    PROVE  /\ NoUpdate(c) \in Settings
           /\ NoUpdate(c).update = FALSE
  BY DEF NoUpdate, Settings

LEMMA ToggleLemma ==
    ASSUME NEW c \in Settings
    PROVE  /\ [c EXCEPT !.mpd = ~@] \in Settings
           /\ [c EXCEPT !.update = ~@] \in Settings
           /\ c.update \in BOOLEAN
  BY DEF Settings

\* The counters stay within their bounds.
LEMMA CountsStep == Counts /\ [Next]_vars => Counts'
  <1> SUFFICES ASSUME Counts, [Next]_vars PROVE Counts'
    OBVIOUS
  <1> USE LauncherAssumption DEF Counts, daemon, counters
  <1>1. ASSUME UNCHANGED <<starting, counters>> PROVE Counts'
    BY <1>1
  <1>2. CASE Startup
    <2>1. CASE StartDaemon("start", "connect") \/ StartDaemon("restart", "reconnect")
      BY <2>1 DEF StartDaemon
    <2>2. CASE Reboot
      BY <2>2 DEF Reboot, AllOff
    <2>3. CASE Boot \/ UpdateRun \/ UpdateClear \/ Connect \/ InitMpdc \/ Reconnect
      BY <2>3, <1>1 DEF Boot, UpdateRun, UpdateClear, Connect, InitMpdc, Reconnect
    <2> QED
      BY <1>2, <2>1, <2>2, <2>3 DEF Startup
  <1>3. CASE Update
    <2>1. PICK done \in BOOLEAN : UpdateEnds(done)
      BY <1>3 DEF Update
    <2>2. /\ UNCHANGED <<starting, cuts>>
          /\ \/ faults' = faults
             \/ faults < MaxFaults /\ faults' = faults + 1
      BY <2>1 DEF UpdateEnds
    <2> QED
      BY <2>2
  <1>4. CASE Menu
    <2>1. CASE Reboot
      BY <2>1 DEF Reboot, AllOff
    <2>2. CASE ~Reboot
      <3>1. UNCHANGED <<starting, cuts, faults>>
        BY <2>2, <1>4
        DEF Menu, Toggle, ForceKill, ForceInit, Exec, ExecKill, ProgramEnds
      <3> QED
        BY <3>1, <1>1
    <2> QED
      BY <2>1, <2>2
  <1>5. CASE Daemon \/ Crash
    BY <1>5 DEF Daemon, Listen, BindFails, Quit, Crash
  <1>6. CASE PowerCut
    BY <1>6 DEF PowerCut, AllOff
  <1>7. CASE UNCHANGED vars
    BY <1>7 DEF vars
  <1> QED
    BY <1>2, <1>3, <1>4, <1>5, <1>6, <1>7 DEF Next

\* So do the settings, the menu and the program counters,
LEMMA ValuesStep == Values /\ [Next]_vars => Values'
  <1> SUFFICES ASSUME Values, [Next]_vars PROVE Values'
    OBVIOUS
  <1> USE DEF Values, daemon, settings, Pcs, Speeds
  <1>1. CASE Startup
    <2>1. CASE Boot \/ UpdateRun
      BY <2>1, ZenonT(60) DEF Boot, UpdateRun
    <2>2. CASE UpdateClear
      BY <2>2, SettingsLemma DEF UpdateClear
    <2>3. CASE Reboot
      BY <2>3 DEF Reboot, AllOff, Save
    <2>4. CASE StartDaemon("start", "connect") \/ StartDaemon("restart", "reconnect")
      BY <2>4 DEF StartDaemon
    <2>5. CASE Connect
      BY <2>5 DEF Connect
    <2>6. CASE Reconnect
      BY <2>6 DEF Reconnect
    <2>7. CASE InitMpdc
      BY <2>7 DEF InitMpdc
    <2> QED
      BY <1>1, <2>1, <2>2, <2>3, <2>4, <2>5, <2>6, <2>7 DEF Startup
  <1>2. CASE Update
    BY <1>2 DEF Update, UpdateEnds
  <1>3. CASE Menu
    <2>1. ASSUME NEW c \in Settings, Toggle(c) PROVE Values'
      BY <2>1 DEF Toggle, Save
    <2>2. CASE ForceKill
      BY <2>2 DEF ForceKill, KillMpd
    <2>3. ASSUME NEW kind \in {"plain", "script"}, Exec(kind) PROVE Values'
      BY <2>3 DEF Exec
    <2>4. CASE ExecKill
      BY <2>4 DEF ExecKill, CleanUp, KillMpd, Save
    <2>5. CASE ForceInit
      BY <2>5 DEF ForceInit
    <2>6. CASE Reboot
      BY <2>6 DEF Reboot, AllOff, Save
    <2>7. CASE ProgramEnds
      BY <2>7 DEF ProgramEnds
    <2> QED
      BY <1>3, <2>1, <2>2, <2>3, <2>4, <2>5, <2>6, <2>7 DEF Menu
  <1>4. CASE Daemon \/ Crash
    <2>1. /\ listening' \in {listening, "none", "up"}
          /\ UNCHANGED <<disk, config, items, cpu, pc, how>>
      BY <1>4, Zenon DEF Daemon, Listen, BindFails, Quit, Crash
    <2> QED
      BY <2>1
  <1>5. CASE PowerCut
    BY <1>5 DEF PowerCut, AllOff
  <1>6. CASE UNCHANGED vars
    BY <1>6 DEF vars
  <1> QED
    BY <1>1, <1>2, <1>3, <1>4, <1>5, <1>6 DEF Next

\* and the flags.
LEMMA FlagsStep == Values /\ Flags /\ [Next]_vars => Flags'
  <1> SUFFICES ASSUME Values, Flags, [Next]_vars PROVE Flags'
    OBVIOUS
  <1> USE DEF Flags, ghosts
  <1>1. disk.update \in BOOLEAN /\ config.update \in BOOLEAN
    BY ToggleLemma DEF Values
  <1>2. CASE Startup
    <2>1. CASE Boot
      BY <2>1, Zenon DEF Boot
    <2>2. CASE Reboot
      BY <2>2, <1>1, Zenon DEF Reboot, AllOff, Save
    <2>3. CASE UpdateRun \/ UpdateClear
      BY <2>3, Zenon DEF UpdateRun, UpdateClear
    <2>4. CASE StartDaemon("start", "connect") \/ StartDaemon("restart", "reconnect")
      BY <2>4, ZenonT(60) DEF StartDaemon
    <2>5. CASE Connect
      BY <2>5, Zenon DEF Connect
    <2>6. CASE Reconnect
      BY <2>6, Zenon DEF Reconnect
    <2>7. CASE InitMpdc
      BY <2>7, Zenon DEF InitMpdc, Answers
    <2> QED
      BY <1>2, <2>1, <2>2, <2>3, <2>4, <2>5, <2>6, <2>7 DEF Startup
  <1>3. CASE Update
    BY <1>3, Zenon DEF Update, UpdateEnds
  <1>4. CASE Menu
    <2>1. ASSUME NEW c \in Settings, Toggle(c) PROVE Flags'
      <3>1. c.update \in BOOLEAN
        BY ToggleLemma
      <3> QED
        BY <2>1, <3>1, <1>1, Zenon DEF Toggle, Save
    <2>2. CASE ForceKill
      BY <2>2, Zenon DEF ForceKill
    <2>3. ASSUME NEW kind \in {"plain", "script"}, Exec(kind) PROVE Flags'
      BY <2>3, Zenon DEF Exec
    <2>4. CASE ExecKill
      BY <2>4, <1>1, Zenon DEF ExecKill, CleanUp, Save
    <2>5. CASE ForceInit
      BY <2>5, Zenon DEF ForceInit
    <2>6. CASE ProgramEnds
      BY <2>6, Zenon DEF ProgramEnds
    <2>7. CASE Reboot
      BY <2>7, <1>1, Zenon DEF Reboot, AllOff, Save
    <2> QED
      BY <1>4, <2>1, <2>2, <2>3, <2>4, <2>5, <2>6, <2>7 DEF Menu
  <1>5. CASE Daemon \/ Crash
    BY <1>5, Zenon DEF Daemon, Listen, BindFails, Quit, Crash
  <1>6. CASE PowerCut
    BY <1>6, Zenon DEF PowerCut, AllOff
  <1>7. CASE UNCHANGED vars
    BY <1>7, Zenon DEF vars
  <1> QED
    BY <1>2, <1>3, <1>4, <1>5, <1>6, <1>7 DEF Next

\* Every variable keeps its type.
THEOREM TypeCorrect == Spec => []TypeOK
  <1>1. Init => TypeOK
    <2>1. Init => Counts
      BY LauncherAssumption DEF Init, Counts
    <2>2. Defaults \in Settings
      BY DEF Defaults, Settings
    <2>3. Init => Values
      BY <2>2 DEF Init, Values, Speeds, Pcs
    <2>4. Init => Flags
      BY Zenon DEF Init, Flags
    <2> QED
      BY <2>1, <2>3, <2>4 DEF TypeOK
  <1>2. TypeOK /\ [Next]_vars => TypeOK'
    BY CountsStep, ValuesStep, FlagsStep DEF TypeOK
  <1> QED
    BY <1>1, <1>2, PTL DEF Spec

-----------------------------------------------------------------------------
\* After an update that was asked for and is still owed, failed is set, so
\* that clearing the flag forgets nothing else.
UpdateInv ==
    /\ UpdateNotLost
    /\ pc = "updated" => (owed => failed)

\* An update that was asked for is done or has failed before it is
\* forgotten: UpdateNotLost, for any number of power cuts and failures.
THEOREM UpdateKept == Spec => []UpdateNotLost
  <1>1. Init => UpdateInv
    BY DEF Init, UpdateInv, UpdateNotLost, Defaults
  <1>2. TypeOK /\ UpdateInv /\ [Next]_vars => UpdateInv'
    <2> SUFFICES ASSUME TypeOK, UpdateInv, [Next]_vars PROVE UpdateInv'
      OBVIOUS
    <2> USE DEF UpdateInv, UpdateNotLost, daemon, settings, ghosts, counters
    <2>1. disk \in Settings /\ config \in Settings
      BY DEF TypeOK, Values
    <2>2. ASSUME NEW c \in Settings, Save(c), failed' = failed, pc' # "updated"
          PROVE  UpdateInv'
      BY <2>1, <2>2, ToggleLemma DEF Save
    <2>3. ASSUME UNCHANGED <<disk, owed, failed>>,
                 pc' # "updated" \/ pc' = pc
          PROVE  UpdateInv'
      BY <2>3
    <2>4. CASE Startup
      <3>1. CASE UpdateClear
        BY <3>1, <2>1, SettingsLemma DEF UpdateClear
      <3>2. CASE Reboot
        BY <3>2, <2>1, <2>2 DEF Reboot, AllOff
      <3>3. CASE Boot
        BY <3>3, <2>3 DEF Boot
      <3>4. CASE UpdateRun \/ Connect \/ InitMpdc \/ Reconnect
        BY <3>4, <2>3 DEF UpdateRun, Connect, InitMpdc, Reconnect
      <3>5. CASE StartDaemon("start", "connect") \/ StartDaemon("restart", "reconnect")
        BY <3>5, <2>3 DEF StartDaemon
      <3> QED
        BY <2>4, <3>1, <3>2, <3>3, <3>4, <3>5 DEF Startup
    <2>5. CASE Update
      BY <2>5 DEF Update, UpdateEnds
    <2>6. CASE Menu
      <3>1. ASSUME NEW c \in Settings, Toggle(c) PROVE UpdateInv'
        BY <3>1, <2>2, <2>3 DEF Toggle
      <3>2. CASE ExecKill
        BY <3>2, <2>1, <2>2 DEF ExecKill, CleanUp
      <3>3. CASE Reboot
        BY <3>3, <2>1, <2>2 DEF Reboot, AllOff
      <3>4. CASE ForceKill \/ ForceInit \/ ProgramEnds
        BY <3>4, <2>3 DEF ForceKill, ForceInit, ProgramEnds
      <3>5. ASSUME NEW kind \in {"plain", "script"}, Exec(kind) PROVE UpdateInv'
        BY <3>5, <2>3 DEF Exec
      <3> QED
        BY <2>6, <3>1, <3>2, <3>3, <3>4, <3>5 DEF Menu
    <2>7. CASE Daemon \/ Crash
      BY <2>7, <2>3 DEF Daemon, Listen, BindFails, Quit, Crash
    <2>8. CASE PowerCut
      BY <2>8, <2>3 DEF PowerCut, AllOff
    <2>9. CASE UNCHANGED vars
      BY <2>9, <2>3 DEF vars
    <2> QED
      BY <2>4, <2>5, <2>6, <2>7, <2>8, <2>9 DEF Next
  <1>3. UpdateInv => UpdateNotLost
    BY DEF UpdateInv
  <1> QED
    BY <1>1, <1>2, <1>3, TypeCorrect, PTL DEF Spec

-----------------------------------------------------------------------------
\* a daemon that runs or is on its way, not told to quit
Running == listening = "up" \/ starting > 0

\* The strengthening of NoUnknownDaemon: daemons on their way count too, and
\* a plain program leaves the launcher's belief for the menu that follows.
DaemonInv ==
    Running /\ ~lost =>
        /\ pc = "menu" => MPD_ACTIVE
        /\ pc = "program" => /\ agreed
                             /\ how # "kill"
                             /\ how = "plain" => MPD_ACTIVE

\* With nothing new to run, an invariant at the same place stays.
LEMMA KeepDaemon ==
    ASSUME DaemonInv, Running' => Running, pc' \notin {"menu", "program"}, lost' = lost
    PROVE  DaemonInv'
  BY DEF DaemonInv

\* A daemon that runs is known, and shares the memory by leave only:
\* NoUnknownDaemon, for any number of daemons, cuts and failures.
THEOREM DaemonsKnown == Spec => []NoUnknownDaemon
  <1>1. Init => DaemonInv
    BY DEF Init, DaemonInv, Running
  <1>2. TypeOK /\ DaemonInv /\ [Next]_vars => DaemonInv'
    <2> SUFFICES ASSUME TypeOK, DaemonInv, [Next]_vars PROVE DaemonInv'
      OBVIOUS
    <2>1. Flags /\ Counts /\ starting \in Nat
      BY LauncherAssumption DEF TypeOK, Counts
    <2>2. ASSUME UNCHANGED daemon PROVE Running' <=> Running
      BY <2>2 DEF daemon, Running
    <2>3. CASE AllOff
      <3>1. ~Running'
        <4>1. listening' = "none" /\ starting' = 0
          BY <2>3, Zenon DEF AllOff
        <4> QED
          BY <4>1 DEF Running
      <3> QED
        BY <3>1, Zenon DEF DaemonInv
    <2>4. CASE Startup
      <3>1. CASE Boot \/ UpdateRun \/ UpdateClear \/ Connect
        <4>1. /\ pc' \notin {"menu", "program"} /\ lost' = lost
              /\ UNCHANGED daemon
          BY <3>1 DEF Boot, UpdateRun, UpdateClear, Connect, ghosts
        <4> QED
          BY <4>1, <2>2, KeepDaemon
      <3>2. CASE StartDaemon("start", "connect") \/ StartDaemon("restart", "reconnect")
        <4>1. pc' \notin {"menu", "program"}
          BY <3>2 DEF StartDaemon
        <4> QED
          BY <4>1, Zenon DEF DaemonInv
      <3>3. CASE InitMpdc
        <4>1. UNCHANGED daemon /\ pc' = "menu"
          BY <3>3, Zenon DEF InitMpdc
        <4>2. ~Answers => listening # "up"
          BY DEF Answers
        <4>3. CASE Answers
          BY <3>3, <4>1, <4>3, Zenon DEF InitMpdc, DaemonInv
        <4>4. CASE ~Answers
          BY <3>3, <4>1, <4>2, <4>4, <2>2, Zenon DEF InitMpdc, DaemonInv, Running
        <4> QED
          BY <4>3, <4>4
      <3>4. CASE Reconnect
        BY <3>4, Zenon DEF Reconnect, DaemonInv
      <3>5. CASE Reboot
        BY <3>5, <2>3, Zenon DEF Reboot
      <3> QED
        BY <2>4, <3>1, <3>2, <3>3, <3>4, <3>5 DEF Startup
    <2>5. CASE Update
      <3>1. pc' \notin {"menu", "program"} /\ lost' = lost /\ UNCHANGED daemon
        BY <2>5 DEF Update, UpdateEnds
      <3> QED
        BY <3>1, <2>2, KeepDaemon
    <2>6. CASE Menu
      <3>1. ASSUME NEW c \in Settings, Toggle(c) PROVE DaemonInv'
        <4>1. UNCHANGED <<daemon, MPD_ACTIVE, pc, how, agreed, lost>>
          BY <3>1, Zenon DEF Toggle
        <4> QED
          BY <4>1, <2>2, Zenon DEF DaemonInv
      <3>2. CASE ForceKill
        <4>1. /\ ~MPD_ACTIVE' /\ pc' = "menu" /\ pc = "menu"
              /\ starting' = starting
              /\ lost' = (listening = "up" \/ starting > 0)
          BY <3>2, Zenon DEF ForceKill
        <4>2. listening' = listening
          BY <3>2, <4>1, Zenon DEF ForceKill, KillMpd
        <4>3. Running' => lost'
          BY <4>1, <4>2, Zenon DEF Running
        <4> QED
          BY <4>3, Zenon DEF DaemonInv
      <3>3. CASE ForceInit
        <4>1. pc' = "restart"
          BY <3>3, Zenon DEF ForceInit
        <4> QED
          BY <4>1, Zenon DEF DaemonInv
      <3>4. ASSUME NEW kind \in {"plain", "script"}, Exec(kind) PROVE DaemonInv'
        <4>1. /\ pc = "menu" /\ pc' = "program" /\ how' = kind
              /\ agreed' = MPD_ACTIVE
              /\ UNCHANGED <<daemon, MPD_ACTIVE, lost>>
          BY <3>4, Zenon DEF Exec
        <4>2. how' # "kill"
          BY <4>1, <3>4
        <4> QED
          BY <4>1, <4>2, <2>2, Zenon DEF DaemonInv
      <3>5. CASE ExecKill
        <4>1. /\ pc = "menu" /\ pc' = "program" /\ starting' = starting
              /\ lost' = (lost \/ starting > 0)
              /\ KillMpd(MPD_ACTIVE)
          BY <3>5, Zenon DEF ExecKill, CleanUp
        <4>2. CASE MPD_ACTIVE
          <5>1. listening' # "up"
            BY <4>1, <4>2, Zenon DEF KillMpd
          <5>2. Running' => lost'
            BY <4>1, <5>1, Zenon DEF Running
          <5> QED
            BY <5>2, Zenon DEF DaemonInv
        <4>3. CASE ~MPD_ACTIVE
          <5>1. listening' = listening
            BY <4>1, <4>3, Zenon DEF KillMpd
          <5>2. Running' => Running
            BY <4>1, <5>1, Zenon DEF Running
          <5>3. Running => lost
            BY <4>1, <4>3, Zenon DEF DaemonInv
          <5> QED
            BY <4>1, <5>2, <5>3, Zenon DEF DaemonInv
        <4> QED
          BY <4>2, <4>3
      <3>6. CASE ProgramEnds
        <4>1. /\ pc = "program" /\ UNCHANGED <<daemon, MPD_ACTIVE, lost>>
              /\ pc' = IF how = "plain" THEN "menu" ELSE "boot"
          BY <3>6, Zenon DEF ProgramEnds, ghosts
        <4>2. CASE how = "plain"
          <5>1. pc' = "menu"
            BY <4>1, <4>2
          <5> QED
            BY <4>1, <4>2, <5>1, <2>2, Zenon DEF DaemonInv
        <4>3. CASE how # "plain"
          <5>1. pc' \notin {"menu", "program"}
            BY <4>1, <4>3
          <5> QED
            BY <5>1, Zenon DEF DaemonInv
        <4> QED
          BY <4>2, <4>3
      <3>7. CASE Reboot
        BY <3>7, <2>3, Zenon DEF Reboot
      <3> QED
        BY <2>6, <3>1, <3>2, <3>3, <3>4, <3>5, <3>6, <3>7 DEF Menu
    <2>7. CASE Daemon \/ Crash
      <3>1. UNCHANGED <<MPD_ACTIVE, pc, how, agreed, lost>>
        BY <2>7, Zenon DEF Daemon, Listen, BindFails, Quit, Crash, ghosts
      <3>2. Running' => Running
        <4>1. CASE Daemon
          BY <4>1, <2>1 DEF Daemon, Listen, BindFails, Quit, Running
        <4>2. CASE Crash
          BY <4>2, <2>1 DEF Crash, Running
        <4> QED
          BY <2>7, <4>1, <4>2
      <3> QED
        BY <3>1, <3>2, Zenon DEF DaemonInv
    <2>8. CASE PowerCut
      BY <2>8, <2>3, Zenon DEF PowerCut
    <2>9. CASE UNCHANGED vars
      <3>1. UNCHANGED <<daemon, MPD_ACTIVE, pc, how, agreed, lost>>
        BY <2>9 DEF vars, ghosts
      <3> QED
        BY <3>1, <2>2, Zenon DEF DaemonInv
    <2> QED
      BY <2>4, <2>5, <2>6, <2>7, <2>8, <2>9 DEF Next
  <1>3. DaemonInv => NoUnknownDaemon
    BY DEF DaemonInv, Running, NoUnknownDaemon
  <1> QED
    BY <1>1, <1>2, <1>3, TypeCorrect, PTL DEF Spec
=============================================================================
