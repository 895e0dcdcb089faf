---------------------- MODULE ScandiumPerfdProperties ----------------------
(***************************************************************************)
(* What must hold of scandiumd.                                            *)
(***************************************************************************)
EXTENDS ScandiumPerfd

LoopPoints == {"head", "wait", "timer", "foreground", "edition"}
Points == LoopPoints \union {"dead", "writing", "persistent", "setup", "enter"}

WorldTypes ==
    /\ foreground \in Apps \union {NoApp}
    /\ temp \in Temps
    /\ settings \in 0 .. MaxSettings
    /\ faults \in 0 .. MaxFaults

PropTypes ==
    /\ level \in Levels
    /\ persistent \in BOOLEAN
    /\ modeProp \in ModeStrings \union {""}
    /\ gameProp \in Games \union {NoApp}

HwTypes == hw \in [Tuners -> Profiles \union {Untouched}]

ServiceTypes ==
    /\ svc \in {"stopped", "running", "restarting"}
    /\ triggers \in Seq({"start", "restart", "stop"})
    /\ lastExit \in {"none", "oneshot", "loop", "killed"}

(* A call under way has a write left to do.                                *)
ControlTypes ==
    /\ pc \in Points
    /\ todo \in Seq(Writes)
    /\ pc = "writing" => todo # <<>>
    /\ cont \in {"persistent", "foreground", "edition", "head"}

ProfileTypes ==
    /\ mEdition \in Editions
    /\ mBaseProfile \in Profiles
    /\ mActiveProfile \in Profiles

GameTypes ==
    /\ mCurrentMode \in PerfModes
    /\ mGameDetected \in BOOLEAN
    /\ mCurrentGame \in Games \union {NoApp}

LoopTypes ==
    /\ mRunning \in BOOLEAN
    /\ sigterm \in BOOLEAN
    /\ epollOk \in BOOLEAN
    /\ timerOk \in BOOLEAN

(* Every variable has its type, and a call that is under way a next write. *)
TypeOK ==
    /\ WorldTypes /\ PropTypes /\ HwTypes /\ ServiceTypes
    /\ ControlTypes /\ ProfileTypes /\ GameTypes /\ LoopTypes

-----------------------------------------------------------------------------
(* The daemon's own account of what it is doing.                           *)

(* The four fields that say whether a game runs never disagree: the flag,  *)
(* the package name, the mode and the variant of the active profile.  (So  *)
(* handle_timer_event never leaves SUSTAINED for DEFAULT, and BATTERY_SAVER*)
(* is never entered.)                                                      *)
GameConsistent ==
    /\ mGameDetected <=> mCurrentGame \in Games
    /\ mCurrentMode \in (IF mGameDetected THEN {"GAMING", "SUSTAINED"} ELSE {"DEFAULT"})
    /\ mActiveProfile.variant = (CASE mCurrentMode = "GAMING"    -> "gaming"
                                   [] mCurrentMode = "SUSTAINED" -> "sustained"
                                   [] OTHER                      -> "base")

(* Outside a game the active profile is the base profile of the edition.   *)
BaseIsActive ==
    /\ mBaseProfile = get_profile(mEdition)
    /\ ~mGameDetected => mActiveProfile = mBaseProfile

-----------------------------------------------------------------------------
(* The device.  AtLoop: the loop has no write under way.                   *)

AtLoop == pc \in LoopPoints

(* In DEFAULT mode every one of the thirteen tuners was last given the     *)
(* profile of the current edition, whatever ran, crashed or rebooted       *)
(* before.                                                                 *)
DefaultHardware ==
    AtLoop /\ mCurrentMode = "DEFAULT"
        => \A t \in Tuners : hw[t] = get_profile(mEdition)

(* In GAMING mode the tuners that apply_gaming_profile calls hold the      *)
(* active profile, and the others still hold one and the same base         *)
(* profile, but for the thermal one, which may have kept the settings of   *)
(* an earlier SUSTAINED episode.                                           *)
GamingHardware ==
    AtLoop /\ mCurrentMode = "GAMING"
        => /\ \A t \in ChangedSections("gaming") \union {"Network"} :
                  hw[t] = Section(mActiveProfile, t)
           /\ \E e \in Editions :
                /\ \A t \in {"GpuSpoof", "Kernel", "Fs", "Irq", "Lmk"} :
                       hw[t] = get_profile(e)
                /\ hw["Thermal"] \in {get_profile(e), SustainedProfile}

(* In SUSTAINED mode only the CPU and the thermal settings are those of    *)
(* the sustained profile: graphics, memory, storage, scheduler and display *)
(* keep the gaming profile of the game that was throttled.                 *)
SustainedHardware ==
    AtLoop /\ mCurrentMode = "SUSTAINED"
        => /\ hw["Thermal"] = SustainedProfile
           /\ hw["Cpu"] = get_profile("CASUAL")
           /\ \E e \in Editions :
                \A t \in ChangedSections("gaming") \ {"Cpu"} :
                    hw[t] = get_gaming_profile(e)

(* While a game runs, what the properties tell other processes is what the *)
(* daemon is doing.                                                        *)
PublishedWhileGaming ==
    AtLoop /\ mGameDetected
        => /\ modeProp = perfmode_to_string(mCurrentMode)
           /\ gameProp = mCurrentGame

(* Seen through its modes alone, and with the writes of a call left out,   *)
(* the daemon is the abstract one: each step of it is one step of          *)
(* PerfModes or none.                                                      *)
Modes == INSTANCE PerfModes WITH
            alive <- pc # "dead", edition <- mEdition, mode <- mCurrentMode,
            game <- mCurrentGame, active <- mActiveProfile

ImplementsPerfModes == Modes!ModesSpec

-----------------------------------------------------------------------------
(* Liveness, all of it under Fairness.                                     *)

(* A shutdown request that reaches the loop ends the process.              *)
InLoop == pc \in LoopPoints \/ (pc = "writing" /\ cont # "persistent")

ShutdownCompletes == (InLoop /\ ~mRunning) ~> (pc = "dead")

(* From some time on the user, the applications, the temperature and the   *)
(* faults leave the system alone.                                          *)
QuietWorld == <>[][~World]_vars

(* In a quiet world, a daemon that is to be persistent and has not been    *)
(* stopped comes to serve what is in the foreground with the profile of    *)
(* the level that is set: a game with the gaming profile of its edition,   *)
(* any other application with the base profile.                            *)
Serves ==
    LET edition == detect_edition(level) IN
    /\ mEdition = edition
    /\ foreground \in Games =>
         /\ mCurrentGame = foreground
         /\ hw["Gpu"] = get_gaming_profile(edition)
    /\ foreground \in OtherApps =>
         \A t \in Tuners : hw[t] = get_profile(edition)

Converges ==
    QuietWorld /\ <>[](persistent /\ svc # "stopped") => <>[](pc # "dead" /\ Serves)

(* In a quiet world the mode is not switched for ever between GAMING and   *)
(* SUSTAINED, whatever the temperature.                                    *)
ModeSettles ==
    QuietWorld /\ <>[]persistent
        => \E mode \in PerfModes : <>[](pc # "dead" => mCurrentMode = mode)

(* A game on a device that stays as hot as its edition's threshold, or     *)
(* hotter, is throttled, if the process has its timer.                     *)
HotForEdition == temp >= BaseThrottle[detect_edition(level)]

ThermalProtection ==
    QuietWorld /\ <>[](HotForEdition /\ pc # "dead" /\ timerOk)
        => <>[](mCurrentMode # "GAMING")

=============================================================================
