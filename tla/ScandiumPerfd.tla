--------------------------- MODULE ScandiumPerfd ---------------------------
(***************************************************************************)
(* The performance daemon scandiumd (ScandiumPerfd.cpp, main.cpp), the     *)
(* init service that runs it (scandiumd.rc) and the world it watches: the  *)
(* application in the foreground, the CPU temperature and the persistent   *)
(* system properties.                                                      *)
(*                                                                         *)
(* The daemon is one thread, so a function runs to its end without another *)
(* function of the daemon in between; but init may kill the process and a  *)
(* signal may arrive between any two of the writes it makes.  A call that  *)
(* changes the device is therefore a list of writes, todo, performed one   *)
(* per step, after which control goes on at cont.                          *)
(***************************************************************************)
EXTENDS PerfProfile, Sequences

CONSTANTS
    Games,        \* packages GameDetector::is_game accepts
    OtherApps,    \* packages it does not accept
    NoApp,        \* the empty package name: no foreground application found
    Temps,        \* readings of read_cpu_temp; negative when it cannot read
    MaxSettings,  \* bound: times the user sets the level or persistent
    MaxFaults     \* bound: signals, kills, reboots and failing system calls

Apps == Games \union OtherApps

ASSUME AppsAssumption ==
    /\ Games \intersect OtherApps = {}
    /\ NoApp \notin Apps
ASSUME TempsAssumption == Temps \subseteq Int
ASSUME BoundsAssumption == MaxSettings \in Nat /\ MaxFaults \in Nat

(* hw[t] when nothing has been written since the device booted.            *)
Untouched == [edition |-> "none", variant |-> "base"]

VARIABLES
    (* The world. *)
    foreground,     \* what the scan of /proc finds in the foreground
    temp,           \* what read_cpu_temp returns
    settings,       \* times the user has set a property so far
    faults,         \* faults so far
    (* What outlives the process. *)
    level,          \* persist.scandium.perf.level
    persistent,     \* persist.scandium.daemon.persistent
    modeProp,       \* persist.scandium.daemon.mode
    gameProp,       \* persist.scandium.daemon.game
    hw,             \* hw[t]: the profile section tuner t was last given
    (* init's view of the service. *)
    svc,            \* "stopped", "running" or "restarting"
    triggers,       \* actions queued by the triggers of scandiumd.rc
    lastExit,       \* how the last process ended; no step of the system depends on it
    (* The process. *)
    pc, todo, cont, \* control: where it is, the writes under way, what follows
    mEdition, mCurrentMode, mBaseProfile, mActiveProfile,
    mRunning, mGameDetected, mCurrentGame,
    sigterm,        \* SIGTERM or SIGINT has been delivered to this process
    epollOk,        \* mEpollFd >= 0
    timerOk         \* mTimerFd >= 0

world   == <<foreground, temp, settings, faults>>
props   == <<level, persistent, modeProp, gameProp>>
service == <<svc, triggers, lastExit>>
control == <<pc, todo, cont>>
profile == <<mEdition, mBaseProfile, mActiveProfile>>
gameVars == <<mCurrentMode, mGameDetected, mCurrentGame>>
loopVars == <<mRunning, sigterm, epollOk, timerOk>>
vars == <<world, props, hw, service, control, profile, gameVars, loopVars>>

-----------------------------------------------------------------------------

(* The writes of apply_base_profile, in the order of the code.  (It also   *)
(* sets daemon.status and daemon.last_apply, which nothing reads.)         *)
BaseWrites == <<"Cpu", "Gpu", "GpuSpoof", "Memory", "Io", "Thermal", "Network",
                "Sched", "Display", "Kernel", "Fs", "Irq", "Lmk">>

(* Mutant: the boost is applied before the tuners that write the same knobs.*)
GamingWritesBoostFirst ==
    <<"cpuBoost", "Cpu", "Gpu", "Memory", "Io", "Sched", "Display", "Network",
      "touchBoost", "mode", "game">>

(* Mutant: the network section, which gaming does not change, is left out. *)
GamingWritesNoNetwork ==
    <<"Cpu", "Gpu", "Memory", "Io", "Sched", "Display",
      "cpuBoost", "touchBoost", "mode", "game">>

(* The writes of apply_gaming_profile: the tuners it calls, in its order,  *)
(* CpuTuner::apply_boost, DisplayTuner::apply_touch_boost and the two      *)
(* properties at its end.  (Dropping caches and compacting memory, here    *)
(* and in handle_timer_event, leave no state behind.)                      *)
GamingWrites == <<"Cpu", "Gpu", "Memory", "Io", "Sched", "Display", "Network",
                  "cpuBoost", "touchBoost", "mode", "game">>

(* Mutant: only the tuners a game has set are set back.                    *)
RevertWritesGamingOnly ==
    <<"Cpu", "Gpu", "Memory", "Io", "Sched", "Display", "Network", "mode", "game">>

(* revert_to_base: the base profile, then the two properties.              *)
RevertWrites == BaseWrites \o <<"mode", "game">>

(* Mutants: one of the three calls is missing.                             *)
SustainedWritesNoThermal == <<"Cpu", "mode">>
SustainedWritesNoCpu     == <<"Thermal", "mode">>
SustainedWritesNoMode    == <<"Cpu", "Thermal">>

(* switch_mode(SUSTAINED): two tuners only, then the property.             *)
SustainedWrites == <<"Cpu", "Thermal", "mode">>

(* Thermal recovery: switch_mode(GAMING) only sets the property, then      *)
(* apply_gaming_profile is called.                                         *)
RecoverWrites == <<"mode">> \o GamingWrites

(* The boosts set knobs of their own, which module DeviceKnobs adds.       *)
Writes == Tuners \union {"cpuBoost", "touchBoost", "mode", "game"}

(* perfmode_to_string                                                      *)
perfmode_to_string(mode) ==
    CASE mode = "GAMING"        -> "gaming"
      [] mode = "BATTERY_SAVER" -> "battery_saver"
      [] mode = "SUSTAINED"     -> "sustained"
      [] OTHER                  -> "default"

ModeStrings == {"gaming", "battery_saver", "sustained", "default"}

(* Start the writes of a call; the process continues at next afterwards.   *)
Call(writes, next) ==
    /\ pc' = "writing"
    /\ todo' = writes
    /\ cont' = next

Goto(next) ==
    /\ pc' = next
    /\ UNCHANGED <<todo, cont>>

(* One more fault, if the bound allows it.                                 *)
Fault == faults < MaxFaults /\ faults' = faults + 1

(* The assignments at the head of apply_base_profile.                      *)
EnterBase ==
    /\ mActiveProfile' = mBaseProfile
    /\ mCurrentMode' = "DEFAULT"

(* The assignments at the head of apply_gaming_profile(package).           *)
EnterGaming(package) ==
    /\ mActiveProfile' = get_gaming_profile(mEdition)
    /\ mCurrentMode' = "GAMING"
    /\ mCurrentGame' = package
    /\ mGameDetected' = TRUE

-----------------------------------------------------------------------------
(***************************************************************************)
(* The process: main, the constructor and run.                             *)
(***************************************************************************)

(* The process is gone, and its memory with it.                            *)
Gone ==
    /\ pc' = "dead" /\ todo' = <<>> /\ cont' = "persistent"
    /\ mEdition' = "CASUAL"
    /\ mBaseProfile' = get_profile("CASUAL") /\ mActiveProfile' = get_profile("CASUAL")
    /\ mCurrentMode' = "DEFAULT" /\ mGameDetected' = FALSE /\ mCurrentGame' = NoApp
    /\ mRunning' = FALSE /\ sigterm' = FALSE /\ epollOk' = FALSE /\ timerOk' = FALSE

(* init starts the service: the constructor reads the level, and run goes  *)
(* straight into apply_base_profile.  A SIGTERM before g_daemon is set is  *)
(* dropped by the handler, one after it is overwritten by run_event_loop:  *)
(* the two cases are one.                                                  *)
Launch ==
    LET edition == detect_edition(level) IN
    /\ svc' = "running"
    /\ mEdition' = edition
    /\ mBaseProfile' = get_profile(edition)
    /\ mActiveProfile' = get_profile(edition)
    /\ mCurrentMode' = "DEFAULT"
    /\ mGameDetected' = FALSE
    /\ mCurrentGame' = NoApp
    /\ mRunning' = FALSE
    /\ sigterm' = FALSE
    /\ epollOk' = FALSE
    /\ timerOk' = FALSE
    /\ Call(BaseWrites, "persistent")
    /\ UNCHANGED lastExit

(* One write of the call under way.                                        *)
Write ==
    /\ pc = "writing"
    /\ LET w == Head(todo) IN
       /\ hw' = IF w \in Tuners
                THEN [hw EXCEPT ![w] = IF w = "GpuSpoof"
                                       THEN get_profile(mEdition)
                                       ELSE Section(mActiveProfile, w)]
                ELSE hw
       /\ modeProp' = IF w = "mode" THEN perfmode_to_string(mCurrentMode) ELSE modeProp
       /\ gameProp' = IF w = "game" THEN mCurrentGame ELSE gameProp
    /\ todo' = Tail(todo)
    /\ pc' = IF Tail(todo) = <<>> THEN cont ELSE pc
    /\ UNCHANGED <<cont, world, level, persistent, service, profile,
                   gameVars, loopVars>>

(* The process returns from main.                                          *)
Exit(how) ==
    /\ Gone
    /\ lastExit' = how
    /\ svc' = "restarting"
    /\ UNCHANGED triggers

(* run: a process that is not to be persistent returns after the base      *)
(* profile.                                                                *)
ReadPersistent ==
    /\ pc = "persistent"
    /\ IF persistent
       THEN Goto("setup") /\ UNCHANGED <<service, profile, gameVars, loopVars>>
       ELSE Exit("oneshot")
    /\ UNCHANGED <<world, props, hw>>

(* setup_event_loop: either call may fail, which is only logged.           *)
SetupEventLoop ==
    /\ pc = "setup"
    /\ \/ /\ epollOk' = TRUE /\ timerOk' = TRUE
          /\ UNCHANGED faults
       \/ /\ epollOk' \in BOOLEAN /\ timerOk' = FALSE
          /\ Fault
    /\ Goto("enter")
    /\ UNCHANGED <<foreground, temp, settings, props, hw, service, profile,
                   gameVars, mRunning, sigterm>>

(* run_event_loop, before the loop.                                        *)
EnterLoop ==
    /\ pc = "enter"
    /\ mRunning' = TRUE
    /\ Goto("head")
    /\ UNCHANGED <<world, props, hw, service, profile, gameVars,
                   sigterm, epollOk, timerOk>>

-----------------------------------------------------------------------------
(***************************************************************************)
(* The event loop.                                                         *)
(***************************************************************************)

(* Mutant: the loop does not test mRunning.                                *)
LoopHeadForEver ==
    /\ pc = "head"
    /\ Goto("wait")
    /\ UNCHANGED <<world, props, hw, service, profile, gameVars, loopVars>>

LoopHead ==
    /\ pc = "head"
    /\ IF mRunning
       THEN Goto("wait") /\ UNCHANGED <<service, profile, gameVars, loopVars>>
       ELSE Exit("loop")
    /\ UNCHANGED <<world, props, hw>>

(* epoll_wait on a descriptor that could not be created: EBADF, and break. *)
WaitFails ==
    /\ pc = "wait"
    /\ ~epollOk
    /\ Exit("loop")
    /\ UNCHANGED <<world, props, hw>>

(* A signal that arrived after the test of mRunning interrupts epoll_wait. *)
WaitInterrupted ==
    /\ pc = "wait"
    /\ epollOk
    /\ ~mRunning
    /\ Goto("head")
    /\ UNCHANGED <<world, props, hw, service, profile, gameVars, loopVars>>

(* epoll_wait returns without the timer: after the timeout, or for inotify *)
(* events, which handle_proc_event only drains.                            *)
WaitReturns ==
    /\ pc = "wait"
    /\ epollOk
    /\ Goto("foreground")
    /\ UNCHANGED <<world, props, hw, service, profile, gameVars, loopVars>>

WaitTimer ==
    /\ pc = "wait"
    /\ epollOk
    /\ timerOk
    /\ Goto("timer")
    /\ UNCHANGED <<world, props, hw, service, profile, gameVars, loopVars>>

(* Mutant: a reading equal to the threshold is not too hot.                *)
TooHotStrictly == temp >= 0 /\ temp > throttle_temp(mActiveProfile)

(* Mutant: the hysteresis is added.                                        *)
CoolDownAbove == temp >= 0 /\ temp < throttle_temp(mActiveProfile) + 10

(* handle_timer_event compares the temperature with the threshold of the   *)
(* profile the daemon holds to be active.                                  *)
TooHot   == temp >= 0 /\ temp >= throttle_temp(mActiveProfile)
CoolDown == temp >= 0 /\ temp < throttle_temp(mActiveProfile) - 10

(* Mutant: any mode is throttled.                                          *)
ThrottleAnyMode ==
    /\ pc = "timer"
    /\ TooHot
    /\ mCurrentMode' = "SUSTAINED"
    /\ mActiveProfile' = SustainedProfile
    /\ Call(SustainedWrites, "foreground")
    /\ UNCHANGED <<world, props, hw, service, mEdition, mBaseProfile,
                   mGameDetected, mCurrentGame, loopVars>>

Throttle ==
    /\ pc = "timer"
    /\ TooHot
    /\ mCurrentMode = "GAMING"
    /\ mCurrentMode' = "SUSTAINED"
    /\ mActiveProfile' = SustainedProfile
    /\ Call(SustainedWrites, "foreground")
    /\ UNCHANGED <<world, props, hw, service, mEdition, mBaseProfile,
                   mGameDetected, mCurrentGame, loopVars>>

Recover ==
    /\ pc = "timer"
    /\ CoolDown
    /\ mCurrentMode = "SUSTAINED"
    /\ IF mGameDetected
       THEN EnterGaming(mCurrentGame) /\ Call(RecoverWrites, "foreground")
       ELSE EnterBase /\ Call(BaseWrites \o <<"mode">>, "foreground")
                      /\ UNCHANGED <<mCurrentGame, mGameDetected>>
    /\ UNCHANGED <<world, props, hw, service, mEdition, mBaseProfile, loopVars>>

NoThermalChange ==
    /\ pc = "timer"
    /\ ~(TooHot /\ mCurrentMode = "GAMING")
    /\ ~(CoolDown /\ mCurrentMode = "SUSTAINED")
    /\ Goto("foreground")
    /\ UNCHANGED <<world, props, hw, service, profile, gameVars, loopVars>>

(* The loop looks at the foreground application: it acts only on one that  *)
(* is found and is not the current game.                                   *)
Foreground(app) == pc = "foreground" /\ foreground = app /\ app \notin {NoApp, mCurrentGame}

(* Mutant: is_game is not asked.                                           *)
GameEntersAnyApp ==
    /\ \E app \in Apps : Foreground(app) /\ EnterGaming(app)
    /\ Call(GamingWrites, "edition")
    /\ UNCHANGED <<world, props, hw, service, mEdition, mBaseProfile, loopVars>>

GameEnters ==
    /\ \E game \in Games : Foreground(game) /\ EnterGaming(game)
    /\ Call(GamingWrites, "edition")
    /\ UNCHANGED <<world, props, hw, service, mEdition, mBaseProfile, loopVars>>

(* Mutant: the package name is not cleared.                                *)
RevertToBaseKeepsGame ==
    /\ \E app \in OtherApps : Foreground(app)
    /\ mGameDetected
    /\ mGameDetected' = FALSE
    /\ EnterBase
    /\ Call(RevertWrites, "edition")
    /\ UNCHANGED <<world, props, hw, service, mEdition, mBaseProfile,
                   mCurrentGame, loopVars>>

RevertToBase ==
    /\ \E app \in OtherApps : Foreground(app)
    /\ mGameDetected
    /\ mGameDetected' = FALSE
    /\ mCurrentGame' = NoApp
    /\ EnterBase
    /\ Call(RevertWrites, "edition")
    /\ UNCHANGED <<world, props, hw, service, mEdition, mBaseProfile, loopVars>>

SameForeground ==
    /\ pc = "foreground"
    /\ \/ foreground \in {NoApp, mCurrentGame}
       \/ foreground \in OtherApps /\ ~mGameDetected
    /\ Goto("edition")
    /\ UNCHANGED <<world, props, hw, service, profile, gameVars, loopVars>>

(* Mutant: a new edition is taken note of only outside a game.             *)
ReadLevelKeepsBase ==
    LET new_edition == detect_edition(level) IN
    /\ pc = "edition"
    /\ mEdition' = new_edition
    /\ IF new_edition = mEdition \/ mGameDetected
       THEN Goto("head") /\ UNCHANGED <<mBaseProfile, mActiveProfile, mCurrentMode>>
       ELSE /\ mBaseProfile' = get_profile(new_edition)
            /\ mActiveProfile' = get_profile(new_edition)
            /\ mCurrentMode' = "DEFAULT"
            /\ Call(BaseWrites, "head")
    /\ UNCHANGED <<world, props, hw, service, mGameDetected, mCurrentGame, loopVars>>

(* The loop reads the level again.  A new edition is applied at once only  *)
(* when no game is running.                                                *)
ReadLevel ==
    LET new_edition == detect_edition(level) IN
    /\ pc = "edition"
    /\ IF new_edition = mEdition
       THEN Goto("head") /\ UNCHANGED <<profile, mCurrentMode>>
       ELSE /\ mEdition' = new_edition
            /\ mBaseProfile' = get_profile(new_edition)
            /\ IF mGameDetected
               THEN Goto("head") /\ UNCHANGED <<mActiveProfile, mCurrentMode>>
               ELSE /\ mActiveProfile' = get_profile(new_edition)
                    /\ mCurrentMode' = "DEFAULT"
                    /\ Call(BaseWrites, "head")
    /\ UNCHANGED <<world, props, hw, service, mGameDetected, mCurrentGame, loopVars>>

(* The steps of the daemon that write nothing outside it.                  *)
DaemonControl ==
    \/ ReadPersistent \/ SetupEventLoop \/ EnterLoop
    \/ LoopHead \/ WaitFails \/ WaitInterrupted \/ WaitReturns \/ WaitTimer
    \/ Throttle \/ Recover \/ NoThermalChange
    \/ GameEnters \/ RevertToBase \/ SameForeground \/ ReadLevel

Daemon == Write \/ DaemonControl

-----------------------------------------------------------------------------
(***************************************************************************)
(* init: the triggers and the service options of scandiumd.rc.             *)
(***************************************************************************)

(* At boot every property trigger whose property has a matching value runs *)
(* once; sys.boot_completed follows.                                       *)
BootTriggers(isPersistent) ==
    <<"restart">> \o (IF isPersistent THEN <<>> ELSE <<"stop">>) \o <<"start">>

(* The process disappears between two of its steps.                        *)
Die(next) ==
    /\ Gone
    /\ lastExit' = IF pc = "dead" THEN lastExit ELSE "killed"
    /\ svc' = next

StayAsIs == UNCHANGED <<svc, lastExit, control, profile, gameVars, loopVars>>

(* Take the action at the head of init's queue.                            *)
Trigger(action) ==
    /\ triggers # <<>>
    /\ Head(triggers) = action
    /\ triggers' = Tail(triggers)
    /\ UNCHANGED <<world, props, hw>>

InitStart ==
    /\ Trigger("start")
    /\ IF svc = "running" THEN StayAsIs ELSE Launch

InitRestart ==
    /\ Trigger("restart")
    /\ CASE svc = "running"    -> Die("restarting")
         [] svc = "stopped"    -> Launch
         [] svc = "restarting" -> StayAsIs

InitStop ==
    /\ Trigger("stop")
    /\ Die("stopped")

(* Mutant: a process that returned from main is not started again.         *)
RespawnKilled ==
    /\ svc = "restarting"
    /\ lastExit = "killed"
    /\ Launch
    /\ UNCHANGED <<triggers, world, props, hw>>

(* The service is not a oneshot service: init starts it again whenever its *)
(* process has ended, however it ended.                                    *)
Respawn ==
    /\ svc = "restarting"
    /\ Launch
    /\ UNCHANGED <<triggers, world, props, hw>>

InitProcess == InitStart \/ InitRestart \/ InitStop \/ Respawn

-----------------------------------------------------------------------------
(***************************************************************************)
(* The world: the user, the applications, the temperature, the faults.     *)
(***************************************************************************)

ForegroundChanges ==
    /\ foreground' \in (Apps \union {NoApp}) \ {foreground}
    /\ UNCHANGED <<temp, settings, faults, props, hw, service, control, profile,
                   gameVars, loopVars>>

TemperatureChanges ==
    /\ temp' \in Temps \ {temp}
    /\ UNCHANGED <<foreground, settings, faults, props, hw, service, control,
                   profile, gameVars, loopVars>>

(* The user sets a property, within the bound; to the value that it has,   *)
(* too, which fires the trigger all the same.                              *)
Set == settings < MaxSettings /\ settings' = settings + 1

SetLevel ==
    /\ Set
    /\ level' \in Levels
    /\ triggers' = Append(triggers, "restart")
    /\ UNCHANGED <<foreground, temp, faults, persistent, modeProp, gameProp, hw,
                   svc, lastExit, control, profile, gameVars, loopVars>>

SetPersistent ==
    /\ Set
    /\ persistent' \in BOOLEAN
    /\ triggers' = IF persistent' THEN triggers ELSE Append(triggers, "stop")
    /\ UNCHANGED <<foreground, temp, faults, level, modeProp, gameProp, hw,
                   svc, lastExit, control, profile, gameVars, loopVars>>

(* signal_handler -> request_shutdown, between any two steps.              *)
Sigterm ==
    /\ pc # "dead"
    /\ Fault
    /\ mRunning' = FALSE
    /\ sigterm' = TRUE
    /\ UNCHANGED <<foreground, temp, settings, props, hw, service, control,
                   profile, gameVars, epollOk, timerOk>>

(* A crash, the low memory killer, an uncaught exception.                  *)
Kill ==
    /\ pc # "dead"
    /\ Fault
    /\ Die("restarting")
    /\ UNCHANGED <<foreground, temp, settings, props, hw, triggers>>

(* The persistent properties survive a reboot, the kernel's knobs do not.  *)
Reboot ==
    /\ Fault
    /\ foreground' = NoApp
    /\ hw' = [t \in Tuners |-> Untouched]
    /\ triggers' = BootTriggers(persistent)
    /\ Die("stopped")
    /\ UNCHANGED <<temp, settings, props>>

WorldEvent ==
    \/ ForegroundChanges \/ TemperatureChanges \/ SetLevel \/ SetPersistent
    \/ Sigterm \/ Kill

World == WorldEvent \/ Reboot

-----------------------------------------------------------------------------

(* The values config/editions/*.mk build into the image.                   *)
FactorySettings ==
    \/ level = "efficient" /\ persistent = FALSE
    \/ level \in {"balanced", "aggressive"} /\ persistent = TRUE

Init ==
    /\ foreground = NoApp /\ temp \in Temps /\ settings = 0 /\ faults = 0
    /\ FactorySettings
    /\ modeProp = "" /\ gameProp = NoApp
    /\ hw = [t \in Tuners |-> Untouched]
    /\ svc = "stopped" /\ triggers = BootTriggers(persistent) /\ lastExit = "none"
    /\ pc = "dead" /\ todo = <<>> /\ cont = "persistent"
    /\ mEdition = "CASUAL" /\ mBaseProfile = get_profile("CASUAL")
    /\ mActiveProfile = get_profile("CASUAL")
    /\ mCurrentMode = "DEFAULT" /\ mGameDetected = FALSE /\ mCurrentGame = NoApp
    /\ mRunning = FALSE /\ sigterm = FALSE /\ epollOk = FALSE /\ timerOk = FALSE

Next == Daemon \/ InitProcess \/ World

Spec == Init /\ [][Next]_vars

(* The kernel schedules the daemon and init; the timer is periodic and     *)
(* level-triggered, so epoll_wait cannot miss it for ever.  Nothing is     *)
(* assumed of the world.                                                   *)
Fairness ==
    /\ WF_vars(Daemon)
    /\ WF_vars(InitStart \/ InitRestart \/ InitStop)
    /\ WF_vars(Respawn)
    /\ SF_vars(WaitTimer)

FairSpec == Spec /\ Fairness
=============================================================================
