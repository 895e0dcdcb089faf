------------------------ MODULE ScandiumPerfd_proofs ------------------------
(***************************************************************************)
(* Proofs about scandiumd, for any sets of applications and temperatures   *)
(* and any bounds: first about the daemon, then about the knobs of a       *)
(* device, with any of the nodes the code looks for.                       *)
(***************************************************************************)
EXTENDS DeviceKnobs, SequenceTheorems, TLAPS

-----------------------------------------------------------------------------
(* Lemmas about the lists of writes and the profiles.                      *)

(* The lists the code performs are lists of writes, and not empty.         *)
LEMMA WriteLists ==
    /\ BaseWrites \in Seq(Writes) /\ BaseWrites # <<>>
    /\ GamingWrites \in Seq(Writes) /\ GamingWrites # <<>>
    /\ RevertWrites \in Seq(Writes) /\ RevertWrites # <<>>
    /\ SustainedWrites \in Seq(Writes) /\ SustainedWrites # <<>>
    /\ RecoverWrites \in Seq(Writes) /\ RecoverWrites # <<>>
    /\ BaseWrites \o <<"mode">> \in Seq(Writes) /\ BaseWrites \o <<"mode">> # <<>>
<1>1. BaseWrites \in Seq(Writes) /\ BaseWrites # <<>> /\ Len(BaseWrites) = 13
  BY DEF BaseWrites, Writes, Tuners
<1>2. GamingWrites \in Seq(Writes) /\ GamingWrites # <<>> /\ Len(GamingWrites) = 11
  BY DEF GamingWrites, Writes, Tuners
<1>3. SustainedWrites \in Seq(Writes) /\ SustainedWrites # <<>>
  BY DEF SustainedWrites, Writes, Tuners
<1>4. /\ <<"mode", "game">> \in Seq(Writes) /\ Len(<<"mode", "game">>) = 2
      /\ <<"mode">> \in Seq(Writes) /\ Len(<<"mode">>) = 1
  BY DEF Writes
<1>5. RevertWrites \in Seq(Writes) /\ RevertWrites # <<>>
  BY <1>1, <1>4, ConcatProperties, ConcatEqualIffEmpty DEF RevertWrites
<1>6. RecoverWrites \in Seq(Writes) /\ RecoverWrites # <<>>
  BY <1>2, <1>4, ConcatProperties, ConcatEqualIffEmpty DEF RecoverWrites
<1>7. BaseWrites \o <<"mode">> \in Seq(Writes) /\ BaseWrites \o <<"mode">> # <<>>
  BY <1>1, <1>4, ConcatProperties, ConcatEqualIffEmpty
<1>. QED  BY <1>1, <1>2, <1>3, <1>5, <1>6, <1>7

(* What the profile functions return are profiles, of the edition asked    *)
(* for.                                                                    *)
LEMMA ProfileFunctions ==
    /\ \A l : detect_edition(l) \in Editions
    /\ \A e \in Editions : get_profile(e) \in Profiles /\ get_gaming_profile(e) \in Profiles
    /\ SustainedProfile \in Profiles
    /\ \A t : \A p \in Profiles : Section(p, t) \in Profiles
    /\ \A m : perfmode_to_string(m) \in ModeStrings
BY DEF detect_edition, Editions, get_profile, get_gaming_profile, SustainedProfile,
       Profiles, Section, perfmode_to_string, ModeStrings

-----------------------------------------------------------------------------
(* Type correctness.                                                       *)

(* What init queues at boot.                                               *)
LEMMA BootTriggersType == \A p : BootTriggers(p) \in Seq({"start", "restart", "stop"})
<1>. DEFINE S == {"start", "restart", "stop"}
<1>. TAKE p
<1>1. <<"restart">> \in Seq(S) /\ <<"stop">> \in Seq(S) /\ <<"start">> \in Seq(S)
  OBVIOUS
<1>2. (IF p THEN <<>> ELSE <<"stop">>) \in Seq(S)
  BY <1>1, EmptySeq
<1>. QED  BY <1>1, <1>2, ConcatProperties DEF BootTriggers

(* The initial states have the types.                                      *)
LEMMA InitTypes == Init => TypeOK
<1>. SUFFICES ASSUME Init PROVE TypeOK
  OBVIOUS
<1>1. WorldTypes
  <2>1. foreground = NoApp /\ temp \in Temps /\ settings = 0 /\ faults = 0
    BY DEF Init
  <2>. QED  BY <2>1, BoundsAssumption DEF WorldTypes
<1>2. PropTypes
  <2>1. FactorySettings /\ modeProp = "" /\ gameProp = NoApp
    BY DEF Init
  <2>. QED  BY <2>1 DEF FactorySettings, Levels, PropTypes
<1>3. HwTypes
  BY DEF Init, HwTypes
<1>4. ServiceTypes
  <2>1. svc = "stopped" /\ triggers = BootTriggers(persistent) /\ lastExit = "none"
    BY DEF Init
  <2>. QED  BY <2>1, BootTriggersType DEF ServiceTypes
<1>5. ControlTypes
  <2>1. pc = "dead" /\ todo = <<>> /\ cont = "persistent"
    BY DEF Init
  <2>. QED  BY <2>1, EmptySeq DEF ControlTypes, Points
<1>6. ProfileTypes
  BY ProfileFunctions DEF Init, ProfileTypes, Editions
<1>7. GameTypes
  BY DEF Init, GameTypes, PerfModes
<1>8. LoopTypes
  BY DEF Init, LoopTypes
<1>. QED
  BY <1>1, <1>2, <1>3, <1>4, <1>5, <1>6, <1>7, <1>8 DEF TypeOK

(* A group of variables that a step leaves alone keeps its types.          *)
LEMMA FrameTypes ==
    /\ WorldTypes /\ UNCHANGED world => WorldTypes'
    /\ PropTypes /\ UNCHANGED props => PropTypes'
    /\ HwTypes /\ UNCHANGED hw => HwTypes'
    /\ ServiceTypes /\ UNCHANGED service => ServiceTypes'
    /\ ControlTypes /\ UNCHANGED control => ControlTypes'
    /\ ProfileTypes /\ UNCHANGED profile => ProfileTypes'
    /\ GameTypes /\ UNCHANGED gameVars => GameTypes'
    /\ LoopTypes /\ UNCHANGED loopVars => LoopTypes'
<1>1. WorldTypes /\ UNCHANGED world => WorldTypes'
  BY DEF WorldTypes, world
<1>2. PropTypes /\ UNCHANGED props => PropTypes'
  BY DEF PropTypes, props
<1>3. HwTypes /\ UNCHANGED hw => HwTypes'
  BY DEF HwTypes
<1>4. ServiceTypes /\ UNCHANGED service => ServiceTypes'
  BY DEF ServiceTypes, service
<1>5. ControlTypes /\ UNCHANGED control => ControlTypes'
  BY DEF ControlTypes, control
<1>6. ProfileTypes /\ UNCHANGED profile => ProfileTypes'
  BY DEF ProfileTypes, profile
<1>7. GameTypes /\ UNCHANGED gameVars => GameTypes'
  BY DEF GameTypes, gameVars
<1>8. LoopTypes /\ UNCHANGED loopVars => LoopTypes'
  BY DEF LoopTypes, loopVars
<1>. QED
  BY <1>1, <1>2, <1>3, <1>4, <1>5, <1>6, <1>7, <1>8

(* Moving on to another point of the code, or starting a call.             *)
LEMMA GotoTypes ==
    ASSUME ControlTypes, NEW next \in Points \ {"writing"}, Goto(next)
    PROVE  ControlTypes'
BY DEF ControlTypes, Goto

LEMMA CallTypes ==
    ASSUME NEW writes \in Seq(Writes), writes # <<>>,
           NEW next \in {"persistent", "foreground", "edition", "head"},
           Call(writes, next)
    PROVE  ControlTypes'
BY DEF ControlTypes, Call, Points

(* A process that ends or starts has well-typed memory.                    *)
LEMMA GoneTypes ==
    Gone => ControlTypes' /\ ProfileTypes' /\ GameTypes' /\ LoopTypes'
<1>. SUFFICES ASSUME Gone PROVE ControlTypes' /\ ProfileTypes' /\ GameTypes' /\ LoopTypes'
  OBVIOUS
<1>1. ControlTypes'
  BY DEF Gone, ControlTypes, Points
<1>2. ProfileTypes'
  BY ProfileFunctions DEF Gone, ProfileTypes, Editions
<1>3. GameTypes' /\ LoopTypes'
  BY DEF Gone, GameTypes, LoopTypes, PerfModes
<1>. QED  BY <1>1, <1>2, <1>3

LEMMA LaunchTypes ==
    Launch => ControlTypes' /\ ProfileTypes' /\ GameTypes' /\ LoopTypes'
<1>. SUFFICES ASSUME Launch PROVE ControlTypes' /\ ProfileTypes' /\ GameTypes' /\ LoopTypes'
  OBVIOUS
<1>1. ControlTypes'
  BY CallTypes, WriteLists DEF Launch
<1>2. ProfileTypes'
  BY ProfileFunctions DEF Launch, ProfileTypes
<1>3. GameTypes' /\ LoopTypes'
  BY DEF Launch, GameTypes, LoopTypes, PerfModes
<1>. QED  BY <1>1, <1>2, <1>3

(* Every step of the daemon, of init and of the world keeps the types.     *)
LEMMA DaemonTypes == TypeOK /\ Daemon => TypeOK'
<1>. SUFFICES ASSUME TypeOK, Daemon PROVE TypeOK'
  OBVIOUS
<1>. USE FrameTypes DEF TypeOK
<1>1. CASE Write
  <2>. DEFINE w == Head(todo)
  <2>1. w \in Writes /\ Tail(todo) \in Seq(Writes)
    BY <1>1, HeadTailProperties DEF Write, ControlTypes
  <2>2. PropTypes'
    BY <1>1, ProfileFunctions DEF Write, PropTypes, GameTypes
  <2>3. HwTypes'
    BY <1>1, ProfileFunctions DEF Write, HwTypes, ProfileTypes
  <2>4. ControlTypes'
    BY <1>1, <2>1 DEF Write, ControlTypes, Points, LoopPoints
  <2>. QED  BY <1>1, <2>2, <2>3, <2>4 DEF Write
<1>2. CASE ReadPersistent
  <2>1. CASE persistent
    BY <1>2, <2>1, GotoTypes DEF ReadPersistent, Points
  <2>2. CASE ~persistent
    <3>1. ServiceTypes'
      BY <1>2, <2>2 DEF ReadPersistent, Exit, ServiceTypes
    <3>. QED  BY <1>2, <2>2, <3>1, GoneTypes DEF ReadPersistent, Exit
  <2>. QED  BY <2>1, <2>2
<1>3. CASE SetupEventLoop
  <2>1. WorldTypes'
    BY <1>3, BoundsAssumption DEF SetupEventLoop, Fault, WorldTypes
  <2>2. LoopTypes'
    BY <1>3 DEF SetupEventLoop, LoopTypes
  <2>. QED  BY <1>3, <2>1, <2>2, GotoTypes DEF SetupEventLoop, Points
<1>4. CASE EnterLoop
  <2>1. LoopTypes'
    BY <1>4 DEF EnterLoop, LoopTypes
  <2>. QED  BY <1>4, <2>1, GotoTypes DEF EnterLoop, Points, LoopPoints
<1>5. CASE LoopHead
  <2>1. CASE mRunning
    BY <1>5, <2>1, GotoTypes DEF LoopHead, Points, LoopPoints
  <2>2. CASE ~mRunning
    <3>1. ServiceTypes'
      BY <1>5, <2>2 DEF LoopHead, Exit, ServiceTypes
    <3>. QED  BY <1>5, <2>2, <3>1, GoneTypes DEF LoopHead, Exit
  <2>. QED  BY <2>1, <2>2
<1>6. CASE WaitFails
  <2>1. ServiceTypes'
    BY <1>6 DEF WaitFails, Exit, ServiceTypes
  <2>. QED  BY <1>6, <2>1, GoneTypes DEF WaitFails, Exit
<1>7. CASE WaitInterrupted \/ WaitReturns \/ WaitTimer \/ NoThermalChange \/ SameForeground
  BY <1>7, GotoTypes DEF WaitInterrupted, WaitReturns, WaitTimer, NoThermalChange,
     SameForeground, Points, LoopPoints
<1>8. CASE Throttle
  <2>1. ProfileTypes'
    BY <1>8, ProfileFunctions DEF Throttle, ProfileTypes
  <2>2. GameTypes'
    BY <1>8 DEF Throttle, GameTypes, PerfModes
  <2>3. ControlTypes'
    BY <1>8, CallTypes, WriteLists DEF Throttle
  <2>. QED  BY <1>8, <2>1, <2>2, <2>3 DEF Throttle
<1>9. CASE Recover
  <2>1. ProfileTypes'
    BY <1>9, ProfileFunctions DEF Recover, EnterGaming, EnterBase, ProfileTypes
  <2>2. GameTypes'
    BY <1>9 DEF Recover, EnterGaming, EnterBase, GameTypes, PerfModes
  <2>3. ControlTypes'
    BY <1>9, CallTypes, WriteLists DEF Recover
  <2>. QED  BY <1>9, <2>1, <2>2, <2>3 DEF Recover
<1>10. CASE GameEnters
  <2>1. ProfileTypes'
    BY <1>10, ProfileFunctions DEF GameEnters, EnterGaming, ProfileTypes
  <2>2. GameTypes'
    BY <1>10 DEF GameEnters, EnterGaming, GameTypes, PerfModes
  <2>3. ControlTypes'
    BY <1>10, CallTypes, WriteLists DEF GameEnters
  <2>. QED  BY <1>10, <2>1, <2>2, <2>3 DEF GameEnters
<1>11. CASE RevertToBase
  <2>1. ProfileTypes'
    BY <1>11 DEF RevertToBase, EnterBase, ProfileTypes
  <2>2. GameTypes'
    BY <1>11 DEF RevertToBase, EnterBase, GameTypes, PerfModes
  <2>3. ControlTypes'
    BY <1>11, CallTypes, WriteLists DEF RevertToBase
  <2>. QED  BY <1>11, <2>1, <2>2, <2>3 DEF RevertToBase
<1>12. CASE ReadLevel
  <2>1. ProfileTypes'
    BY <1>12, ProfileFunctions DEF ReadLevel, ProfileTypes, profile
  <2>2. GameTypes'
    BY <1>12 DEF ReadLevel, GameTypes, PerfModes
  <2>3. ControlTypes'
    BY <1>12, CallTypes, GotoTypes, WriteLists DEF ReadLevel, Points, LoopPoints
  <2>. QED  BY <1>12, <2>1, <2>2, <2>3 DEF ReadLevel
<1>. QED
  BY <1>1, <1>2, <1>3, <1>4, <1>5, <1>6, <1>7, <1>8, <1>9, <1>10, <1>11, <1>12
  DEF Daemon, DaemonControl

LEMMA InitProcessTypes == TypeOK /\ InitProcess => TypeOK'
<1>. SUFFICES ASSUME TypeOK, InitProcess PROVE TypeOK'
  OBVIOUS
<1>. USE FrameTypes DEF TypeOK
<1>1. ASSUME NEW action, Trigger(action), svc' \in {"stopped", "running", "restarting"},
             lastExit' \in {"none", "oneshot", "loop", "killed"}
      PROVE  WorldTypes' /\ PropTypes' /\ HwTypes' /\ ServiceTypes'
  <2>1. triggers' \in Seq({"start", "restart", "stop"})
    BY <1>1, HeadTailProperties DEF Trigger, ServiceTypes
  <2>. QED  BY <1>1, <2>1 DEF Trigger, ServiceTypes
<1>2. StayAsIs => /\ ControlTypes' /\ ProfileTypes' /\ GameTypes' /\ LoopTypes'
                  /\ UNCHANGED <<svc, lastExit>>
  BY DEF StayAsIs
<1>3. \A next : Die(next) => /\ ControlTypes' /\ ProfileTypes' /\ GameTypes' /\ LoopTypes'
                             /\ svc' = next /\ lastExit' \in {lastExit, "killed"}
  BY GoneTypes DEF Die
<1>4. Launch => /\ ControlTypes' /\ ProfileTypes' /\ GameTypes' /\ LoopTypes'
                /\ svc' = "running" /\ lastExit' = lastExit
  BY LaunchTypes DEF Launch
<1>5. CASE InitStart
  BY <1>1, <1>2, <1>4, <1>5 DEF InitStart, ServiceTypes
<1>6. CASE InitRestart
  BY <1>1, <1>2, <1>3, <1>4, <1>6 DEF InitRestart, ServiceTypes
<1>7. CASE InitStop
  BY <1>1, <1>3, <1>7 DEF InitStop, ServiceTypes
<1>8. CASE Respawn
  <2>1. ServiceTypes'
    BY <1>4, <1>8 DEF Respawn, ServiceTypes
  <2>. QED  BY <1>4, <1>8, <2>1 DEF Respawn
<1>. QED  BY <1>5, <1>6, <1>7, <1>8 DEF InitProcess

LEMMA WorldTypesStep == TypeOK /\ World => TypeOK'
<1>. SUFFICES ASSUME TypeOK, World PROVE TypeOK'
  OBVIOUS
<1>. USE FrameTypes DEF TypeOK
<1>1. CASE ForegroundChanges
  <2>1. WorldTypes'
    BY <1>1 DEF ForegroundChanges, WorldTypes
  <2>. QED  BY <1>1, <2>1 DEF ForegroundChanges
<1>2. CASE TemperatureChanges
  <2>1. WorldTypes'
    BY <1>2 DEF TemperatureChanges, WorldTypes
  <2>. QED  BY <1>2, <2>1 DEF TemperatureChanges
<1>3. CASE SetLevel
  <2>1. WorldTypes'
    BY <1>3, BoundsAssumption DEF SetLevel, Set, WorldTypes
  <2>2. PropTypes'
    BY <1>3 DEF SetLevel, PropTypes
  <2>3. ServiceTypes'
    BY <1>3, AppendProperties DEF SetLevel, ServiceTypes
  <2>. QED  BY <1>3, <2>1, <2>2, <2>3 DEF SetLevel
<1>4. CASE SetPersistent
  <2>1. WorldTypes'
    BY <1>4, BoundsAssumption DEF SetPersistent, Set, WorldTypes
  <2>2. PropTypes'
    BY <1>4 DEF SetPersistent, PropTypes
  <2>3. ServiceTypes'
    BY <1>4, AppendProperties DEF SetPersistent, ServiceTypes
  <2>. QED  BY <1>4, <2>1, <2>2, <2>3 DEF SetPersistent
<1>5. CASE Sigterm
  <2>1. WorldTypes'
    BY <1>5, BoundsAssumption DEF Sigterm, Fault, WorldTypes
  <2>2. LoopTypes'
    BY <1>5 DEF Sigterm, LoopTypes
  <2>. QED  BY <1>5, <2>1, <2>2 DEF Sigterm, props
<1>6. CASE Kill
  <2>1. WorldTypes'
    BY <1>6, BoundsAssumption DEF Kill, Fault, WorldTypes
  <2>2. ServiceTypes'
    BY <1>6 DEF Kill, Die, ServiceTypes
  <2>. QED  BY <1>6, <2>1, <2>2, GoneTypes DEF Kill, Die
<1>7. CASE Reboot
  <2>1. WorldTypes'
    BY <1>7, BoundsAssumption DEF Reboot, Fault, WorldTypes
  <2>2. ServiceTypes'
    BY <1>7, BootTriggersType DEF Reboot, Die, ServiceTypes
  <2>3. HwTypes'
    BY <1>7 DEF Reboot, HwTypes
  <2>. QED  BY <1>7, <2>1, <2>2, <2>3, GoneTypes DEF Reboot, Die
<1>. QED  BY <1>1, <1>2, <1>3, <1>4, <1>5, <1>6, <1>7 DEF World, WorldEvent

(* TypeOK: every variable of the daemon, of init and of the world has its  *)
(* type in every reachable state, and a call of the daemon that is under   *)
(* way has a next write.                                                   *)
THEOREM TypeCorrect == Spec => []TypeOK
<1>1. TypeOK /\ [Next]_vars => TypeOK'
  <2>. SUFFICES ASSUME TypeOK, [Next]_vars PROVE TypeOK'
    OBVIOUS
  <2>1. CASE UNCHANGED vars
    BY <2>1, FrameTypes DEF TypeOK, vars
  <2>. QED  BY <2>1, DaemonTypes, InitProcessTypes, WorldTypesStep DEF Next
<1>. QED  BY <1>1, InitTypes, PTL DEF Spec

-----------------------------------------------------------------------------
(* The modes of the daemon.                                                *)

(* init holds the service to be running exactly while there is a process.  *)
ServiceAlive == svc = "running" <=> pc # "dead"

(* Without a process its memory is that of the next one's constructor.     *)
DeadMemory ==
    pc = "dead" =>
        /\ mEdition = "CASUAL"
        /\ mActiveProfile = get_profile("CASUAL")
        /\ mCurrentMode = "DEFAULT" /\ mCurrentGame = NoApp

ModesInv == GameConsistent /\ BaseIsActive /\ ServiceAlive /\ DeadMemory

(* The edition and the variant a profile was built for.                    *)
LEMMA ProfileFields ==
    /\ \A e : get_profile(e).edition = e /\ get_profile(e).variant = "base"
    /\ \A e : get_gaming_profile(e).edition = e /\ get_gaming_profile(e).variant = "gaming"
    /\ SustainedProfile.edition = "CASUAL" /\ SustainedProfile.variant = "sustained"
BY DEF get_profile, get_gaming_profile, SustainedProfile

LEMMA InitModes == Init => ModesInv
<1>. SUFFICES ASSUME Init PROVE ModesInv
  OBVIOUS
<1>1. GameConsistent /\ BaseIsActive
  BY ProfileFields, AppsAssumption DEF Init, GameConsistent, BaseIsActive, Apps
<1>2. ServiceAlive /\ DeadMemory
  BY DEF Init, ServiceAlive, DeadMemory
<1>. QED  BY <1>1, <1>2 DEF ModesInv

(* Steps that leave the profiles and the game alone.                       *)
LEMMA FrameModes ==
    ASSUME GameConsistent, BaseIsActive, UNCHANGED <<profile, gameVars>>
    PROVE  GameConsistent' /\ BaseIsActive'
BY DEF GameConsistent, BaseIsActive, profile, gameVars

(* A process that ends, or starts.                                         *)
LEMMA GoneModes == Gone => GameConsistent' /\ BaseIsActive' /\ DeadMemory' /\ pc' = "dead"
BY ProfileFields, AppsAssumption DEF Gone, GameConsistent, BaseIsActive, DeadMemory, Apps

LEMMA LaunchModes == Launch => ModesInv' /\ pc' = "writing"
<1>. SUFFICES ASSUME Launch PROVE ModesInv' /\ pc' = "writing"
  OBVIOUS
<1>1. GameConsistent' /\ BaseIsActive'
  BY ProfileFields, AppsAssumption DEF Launch, GameConsistent, BaseIsActive, Apps
<1>2. ServiceAlive' /\ DeadMemory' /\ pc' = "writing"
  BY DEF Launch, Call, ServiceAlive, DeadMemory
<1>. QED  BY <1>1, <1>2 DEF ModesInv

(* A step that goes on in the code, or starts a call, leaves the process   *)
(* alive.                                                                  *)
LEMMA AliveModes ==
    ASSUME ServiceAlive, pc # "dead", pc' # "dead", UNCHANGED service
    PROVE  ServiceAlive' /\ DeadMemory'
BY DEF ServiceAlive, DeadMemory, service

LEMMA DaemonModes == TypeOK /\ ModesInv /\ Daemon => ModesInv'
<1>. SUFFICES ASSUME TypeOK, ModesInv, Daemon PROVE ModesInv'
  OBVIOUS
<1>. USE DEF ModesInv
<1>1. CASE Write
  <2>1. pc # "dead" /\ pc' # "dead"
    BY <1>1 DEF Write, TypeOK, ControlTypes
  <2>. QED  BY <1>1, <2>1, FrameModes, AliveModes DEF Write
<1>2. \A how : Exit(how) => ModesInv'
  BY GoneModes DEF Exit, ServiceAlive
<1>3. CASE ReadPersistent \/ LoopHead \/ WaitFails
  BY <1>2, <1>3, FrameModes, AliveModes DEF ReadPersistent, LoopHead, WaitFails, Goto
<1>4. CASE SetupEventLoop \/ EnterLoop
  BY <1>4, FrameModes, AliveModes DEF SetupEventLoop, EnterLoop, Goto
<1>5. CASE WaitInterrupted \/ WaitReturns \/ WaitTimer \/ NoThermalChange \/ SameForeground
  BY <1>5, FrameModes, AliveModes DEF WaitInterrupted, WaitReturns, WaitTimer,
     NoThermalChange, SameForeground, Goto
<1>6. CASE Throttle
  <2>1. GameConsistent' /\ BaseIsActive'
    BY <1>6, ProfileFields DEF Throttle, GameConsistent, BaseIsActive
  <2>. QED  BY <1>6, <2>1, AliveModes DEF Throttle, Call
<1>7. CASE Recover
  <2>1. mGameDetected /\ mCurrentGame \in Games
    BY <1>7 DEF Recover, GameConsistent
  <2>2. EnterGaming(mCurrentGame) /\ Call(RecoverWrites, "foreground")
    BY <1>7, <2>1 DEF Recover
  <2>3. UNCHANGED <<service, mEdition, mBaseProfile>>
    BY <1>7 DEF Recover
  <2>4. GameConsistent' /\ BaseIsActive'
    BY <2>1, <2>2, <2>3, ProfileFields DEF EnterGaming, GameConsistent, BaseIsActive
  <2>. QED  BY <1>7, <2>2, <2>3, <2>4, AliveModes DEF Recover, Call
<1>8. CASE GameEnters
  <2>1. GameConsistent' /\ BaseIsActive'
    BY <1>8, ProfileFields DEF GameEnters, EnterGaming, GameConsistent, BaseIsActive
  <2>. QED  BY <1>8, <2>1, AliveModes DEF GameEnters, Foreground, Call
<1>9. CASE RevertToBase
  <2>1. GameConsistent' /\ BaseIsActive'
    BY <1>9, ProfileFields, AppsAssumption
    DEF RevertToBase, EnterBase, GameConsistent, BaseIsActive, Apps
  <2>. QED  BY <1>9, <2>1, AliveModes DEF RevertToBase, Foreground, Call
<1>10. CASE ReadLevel
  <2>1. GameConsistent' /\ BaseIsActive'
    BY <1>10, ProfileFields DEF ReadLevel, GameConsistent, BaseIsActive, profile
  <2>2. pc # "dead" /\ pc' # "dead" /\ UNCHANGED service
    BY <1>10 DEF ReadLevel, Goto, Call
  <2>. QED  BY <2>1, <2>2, AliveModes
<1>. QED
  BY <1>1, <1>3, <1>4, <1>5, <1>6, <1>7, <1>8, <1>9, <1>10 DEF Daemon, DaemonControl

LEMMA InitProcessModes == TypeOK /\ ModesInv /\ InitProcess => ModesInv'
<1>. SUFFICES ASSUME TypeOK, ModesInv, InitProcess PROVE ModesInv'
  OBVIOUS
<1>. USE DEF ModesInv
<1>1. StayAsIs => ModesInv'
  BY FrameModes DEF StayAsIs, control, ServiceAlive, DeadMemory, profile, gameVars
<1>2. Die("stopped") \/ Die("restarting") => ModesInv'
  BY GoneModes DEF Die, ServiceAlive
<1>3. CASE InitStart \/ InitStop \/ Respawn
  BY <1>1, <1>2, <1>3, LaunchModes DEF InitStart, InitStop, Respawn
<1>4. CASE InitRestart
  BY <1>1, <1>2, <1>4, LaunchModes DEF InitRestart, TypeOK, ServiceTypes
<1>. QED  BY <1>3, <1>4 DEF InitProcess

LEMMA WorldModes == ModesInv /\ World => ModesInv'
<1>. SUFFICES ASSUME ModesInv, World PROVE ModesInv'
  OBVIOUS
<1>. USE DEF ModesInv
<1>1. CASE ForegroundChanges \/ TemperatureChanges
  BY <1>1, FrameModes DEF ForegroundChanges, TemperatureChanges, service, control,
     ServiceAlive, DeadMemory, profile, gameVars
<1>2. CASE SetLevel \/ SetPersistent \/ Sigterm
  BY <1>2, FrameModes DEF SetLevel, SetPersistent, Sigterm, service, control,
     ServiceAlive, DeadMemory, profile, gameVars
<1>3. CASE Kill \/ Reboot
  BY <1>3, GoneModes DEF Kill, Reboot, Die, ServiceAlive
<1>. QED  BY <1>1, <1>2, <1>3 DEF World, WorldEvent

(* The inductive invariant behind the theorems about the modes.            *)
THEOREM ModesInductive == Spec => []ModesInv
<1>1. TypeOK /\ ModesInv /\ [Next]_vars => ModesInv'
  <2>. SUFFICES ASSUME TypeOK, ModesInv, [Next]_vars PROVE ModesInv'
    OBVIOUS
  <2>1. CASE UNCHANGED vars
    BY <2>1, FrameModes DEF ModesInv, vars, service, control, ServiceAlive, DeadMemory,
       profile, gameVars
  <2>. QED  BY <2>1, DaemonModes, InitProcessModes, WorldModes DEF Next
<1>. QED  BY <1>1, InitModes, TypeCorrect, PTL DEF Spec

(* GameConsistent: the flag, the package name, the mode and the variant of *)
(* the active profile never disagree about whether a game runs.            *)
THEOREM GameFieldsAgree == Spec => []GameConsistent
BY ModesInductive, PTL DEF ModesInv

(* BaseIsActive: outside a game the active profile is the base profile of  *)
(* the edition.                                                            *)
THEOREM BaseProfileActive == Spec => []BaseIsActive
BY ModesInductive, PTL DEF ModesInv
-----------------------------------------------------------------------------
(***************************************************************************)
(* scandiumd implements PerfModes: each of its steps is, seen through the  *)
(* refinement mapping of ScandiumPerfdProperties, a step of the abstract   *)
(* specification or none.                                                  *)
(***************************************************************************)

(* The profiles and the editions of the two modules are the same.          *)
LEMMA SameProfiles ==
    /\ \A e : Modes!get_profile(e) = get_profile(e)
    /\ \A e : Modes!get_gaming_profile(e) = get_gaming_profile(e)
    /\ Modes!SustainedProfile = SustainedProfile
    /\ Modes!Editions = Editions
BY DEF Modes!get_profile, get_profile, Modes!get_gaming_profile, get_gaming_profile,
       Modes!SustainedProfile, SustainedProfile, Modes!Editions, Editions

(* The initial states are those of PerfModes.                              *)
LEMMA InitRefines == Init => Modes!ModesInit
BY SameProfiles DEF Init, Modes!ModesInit

(* Stuttering: nothing PerfModes sees has changed.                         *)
LEMMA StutterRefines ==
    ASSUME UNCHANGED <<profile, gameVars>>, (pc # "dead") <=> (pc' # "dead")
    PROVE  UNCHANGED Modes!modeVars
BY DEF profile, gameVars, Modes!modeVars

(* A process appears: Start, with the edition the level asks for.          *)
LEMMA LaunchRefines == pc = "dead" /\ Launch => Modes!ModesNext
<1>. SUFFICES ASSUME pc = "dead", Launch PROVE Modes!ModesNext
  OBVIOUS
<1>. DEFINE e == detect_edition(level)
<1>1. e \in Modes!Editions
  BY ProfileFunctions, SameProfiles
<1>2. Modes!Start(e)
  BY SameProfiles DEF Launch, Call, Modes!Start, Modes!InDefault
<1>. QED  BY <1>1, <1>2 DEF Modes!ModesNext

(* It ends: Stop, or nothing if there was none.                            *)
LEMMA GoneRefines == ModesInv /\ Gone => [Modes!ModesNext]_(Modes!modeVars)
<1>. SUFFICES ASSUME ModesInv, Gone PROVE [Modes!ModesNext]_(Modes!modeVars)
  OBVIOUS
<1>1. CASE pc = "dead"
  BY <1>1 DEF ModesInv, DeadMemory, Gone, Modes!modeVars
<1>2. CASE pc # "dead"
  <2>1. Modes!Stop
    BY <1>2, SameProfiles DEF Gone, Modes!Stop, Modes!InDefault
  <2>. QED  BY <2>1 DEF Modes!ModesNext
<1>. QED  BY <1>1, <1>2

(* The steps of the daemon.                                                *)
LEMMA DaemonRefines ==
    TypeOK /\ ModesInv /\ Daemon => [Modes!ModesNext]_(Modes!modeVars)
<1>. SUFFICES ASSUME TypeOK, ModesInv, Daemon PROVE [Modes!ModesNext]_(Modes!modeVars)
  OBVIOUS
<1>1. CASE Write
  <2>1. pc # "dead" /\ pc' # "dead"
    BY <1>1 DEF Write, TypeOK, ControlTypes
  <2>. QED  BY <1>1, <2>1, StutterRefines DEF Write
<1>2. CASE ReadPersistent \/ LoopHead \/ WaitFails
  BY <1>2, GoneRefines, StutterRefines DEF ReadPersistent, LoopHead, WaitFails, Exit, Goto
<1>3. CASE SetupEventLoop \/ EnterLoop
  BY <1>3, StutterRefines DEF SetupEventLoop, EnterLoop, Goto
<1>4. CASE WaitInterrupted \/ WaitReturns \/ WaitTimer \/ NoThermalChange \/ SameForeground
  BY <1>4, StutterRefines DEF WaitInterrupted, WaitReturns, WaitTimer, NoThermalChange,
     SameForeground, Goto
<1>5. CASE Throttle
  <2>1. Modes!Sustain
    BY <1>5, SameProfiles DEF Throttle, Call, Modes!Sustain
  <2>. QED  BY <2>1 DEF Modes!ModesNext
<1>6. CASE Recover
  <2>1. mGameDetected
    BY <1>6 DEF Recover, ModesInv, GameConsistent
  <2>2. Modes!Resume
    BY <1>6, <2>1, SameProfiles DEF Recover, EnterGaming, Call, Modes!Resume, Modes!InGaming
  <2>. QED  BY <2>2 DEF Modes!ModesNext
<1>7. CASE GameEnters
  <2>1. PICK g \in Games : Foreground(g) /\ EnterGaming(g)
    BY <1>7 DEF GameEnters
  <2>2. Modes!Enter(g)
    BY <1>7, <2>1, SameProfiles
    DEF GameEnters, Foreground, EnterGaming, Call, Modes!Enter, Modes!InGaming
  <2>. QED  BY <2>2 DEF Modes!ModesNext
<1>8. CASE RevertToBase
  <2>1. mCurrentGame # NoApp
    BY <1>8, AppsAssumption DEF RevertToBase, ModesInv, GameConsistent, Apps
  <2>2. mBaseProfile = get_profile(mEdition)
    BY DEF ModesInv, BaseIsActive
  <2>3. Modes!Leave
    BY <1>8, <2>1, <2>2, SameProfiles
    DEF RevertToBase, Foreground, EnterBase, Call, Modes!Leave, Modes!InDefault
  <2>. QED  BY <2>3 DEF Modes!ModesNext
<1>9. CASE ReadLevel
  <2>. DEFINE e == detect_edition(level)
  <2>1. pc # "dead" /\ pc' # "dead"
    BY <1>9 DEF ReadLevel, Goto, Call
  <2>2. CASE e = mEdition
    BY <1>9, <2>1, <2>2 DEF ReadLevel, profile, Modes!modeVars
  <2>3. CASE e # mEdition
    <3>1. e \in Modes!Editions
      BY ProfileFunctions, SameProfiles
    <3>2. mCurrentMode = "DEFAULT" <=> ~mGameDetected
      BY DEF ModesInv, GameConsistent
    <3>3. mCurrentMode = "DEFAULT" => mCurrentGame = NoApp
      BY <3>2 DEF TypeOK, GameTypes, ModesInv, GameConsistent
    <3>4. Modes!ChangeEdition(e)
      BY <1>9, <2>1, <2>3, <3>2, <3>3, SameProfiles
      DEF ReadLevel, Modes!ChangeEdition, Modes!InDefault
    <3>. QED  BY <3>1, <3>4 DEF Modes!ModesNext
  <2>. QED  BY <2>2, <2>3
<1>. QED
  BY <1>1, <1>2, <1>3, <1>4, <1>5, <1>6, <1>7, <1>8, <1>9 DEF Daemon, DaemonControl

(* The steps of init and of the world.                                     *)
LEMMA InitProcessRefines ==
    TypeOK /\ ModesInv /\ InitProcess => [Modes!ModesNext]_(Modes!modeVars)
<1>. SUFFICES ASSUME TypeOK, ModesInv, InitProcess
              PROVE  [Modes!ModesNext]_(Modes!modeVars)
  OBVIOUS
<1>1. StayAsIs => UNCHANGED Modes!modeVars
  BY StutterRefines DEF StayAsIs, control
<1>2. svc # "running" => pc = "dead"
  BY DEF ModesInv, ServiceAlive
<1>3. CASE InitStart
  BY <1>1, <1>2, <1>3, LaunchRefines DEF InitStart
<1>4. CASE InitRestart
  BY <1>1, <1>2, <1>4, LaunchRefines, GoneRefines
  DEF InitRestart, Die, TypeOK, ServiceTypes
<1>5. CASE InitStop
  BY <1>5, GoneRefines DEF InitStop, Die
<1>6. CASE Respawn
  BY <1>2, <1>6, LaunchRefines DEF Respawn
<1>. QED  BY <1>3, <1>4, <1>5, <1>6 DEF InitProcess

LEMMA WorldRefines == ModesInv /\ World => [Modes!ModesNext]_(Modes!modeVars)
<1>. SUFFICES ASSUME ModesInv, World PROVE [Modes!ModesNext]_(Modes!modeVars)
  OBVIOUS
<1>1. CASE ForegroundChanges \/ TemperatureChanges \/ SetLevel \/ SetPersistent \/ Sigterm
  BY <1>1, StutterRefines
  DEF ForegroundChanges, TemperatureChanges, SetLevel, SetPersistent, Sigterm, control
<1>2. CASE Kill \/ Reboot
  BY <1>2, GoneRefines DEF Kill, Reboot, Die
<1>. QED  BY <1>1, <1>2 DEF World, WorldEvent

(* ImplementsPerfModes: through its modes alone the daemon is the abstract *)
(* one.  Every call is one step of it, every restart a Stop and a Start.   *)
THEOREM Refinement == Spec => ImplementsPerfModes
<1>1. TypeOK /\ ModesInv /\ [Next]_vars => [Modes!ModesNext]_(Modes!modeVars)
  <2>. SUFFICES ASSUME TypeOK, ModesInv, [Next]_vars
                PROVE  [Modes!ModesNext]_(Modes!modeVars)
    OBVIOUS
  <2>1. CASE UNCHANGED vars
    BY <2>1, StutterRefines DEF vars, control
  <2>. QED  BY <2>1, DaemonRefines, InitProcessRefines, WorldRefines DEF Next
<1>. QED
  BY <1>1, InitRefines, TypeCorrect, ModesInductive, PTL
  DEF Spec, ImplementsPerfModes, Modes!ModesSpec
-----------------------------------------------------------------------------
(***************************************************************************)
(* What the device and the properties hold once no write is under way.     *)
(*                                                                         *)
(* The argument is the same for every mode: what a call is to establish    *)
(* holds for each tuner and property that is not among the writes the call *)
(* has left to do.  When the call begins that says little, when it ends it *)
(* says everything, and a process that is killed on the way is followed by *)
(* one that begins with all thirteen tuners.                               *)
(***************************************************************************)

Elements(seq) == {seq[i] : i \in 1 .. Len(seq)}

(* The writes that a call under way has left to do.                        *)
Pending == IF pc = "writing" THEN Elements(todo) ELSE {}

GamingTuners == ChangedSections("gaming") \union {"Network"}

(* The tuners that only apply_base_profile calls.                          *)
BaseOnlyTuners == {"GpuSpoof", "Kernel", "Fs", "Irq", "Lmk"}

DefaultWritten ==
    pc # "dead" /\ mCurrentMode = "DEFAULT"
        => \A t \in Tuners \ Pending : hw[t] = get_profile(mEdition)

(* During a game, throttled or not, the other tuners hold what the         *)
(* apply_base_profile before the game left, for one edition e.             *)
BaseOnlyWritten(e) ==
    /\ \A t \in BaseOnlyTuners : hw[t] = get_profile(e)
    /\ hw["Thermal"] \in {get_profile(e), SustainedProfile}

GamingWritten ==
    mCurrentMode = "GAMING"
        => /\ Pending \subseteq Elements(GamingWrites)
           /\ \A t \in GamingTuners \ Pending : hw[t] = Section(mActiveProfile, t)
           /\ \E e \in Editions : BaseOnlyWritten(e)

SustainedWritten ==
    mCurrentMode = "SUSTAINED"
        => /\ mActiveProfile = SustainedProfile
           /\ Pending \subseteq Elements(SustainedWrites)
           /\ "Thermal" \notin Pending => hw["Thermal"] = SustainedProfile
           /\ "Cpu" \notin Pending => hw["Cpu"] = get_profile("CASUAL")
           /\ \E e \in Editions :
                \A t \in ChangedSections("gaming") \ {"Cpu"} : hw[t] = get_gaming_profile(e)
           /\ \E e \in Editions : BaseOnlyWritten(e)

Published ==
    mGameDetected
        => /\ "mode" \notin Pending => modeProp = perfmode_to_string(mCurrentMode)
           /\ "game" \notin Pending => gameProp = mCurrentGame

HardwareInv == DefaultWritten /\ GamingWritten /\ SustainedWritten /\ Published

-----------------------------------------------------------------------------
(* Lemmas about lists of writes.                                           *)

(* What the lists of writes contain.                                       *)
LEMMA ListContents ==
    /\ Tuners \subseteq Elements(BaseWrites)
    /\ Tuners \subseteq Elements(BaseWrites \o <<"mode">>)
    /\ Tuners \subseteq Elements(RevertWrites)
    /\ Elements(GamingWrites) =
           {"Cpu", "Gpu", "Memory", "Io", "Sched", "Display", "Network",
            "cpuBoost", "touchBoost", "mode", "game"}
    /\ Elements(RecoverWrites) = Elements(GamingWrites)
    /\ Elements(SustainedWrites) = {"Cpu", "Thermal", "mode"}
<1>1. Len(BaseWrites) = 13 /\ BaseWrites \in Seq(Writes)
  BY DEF BaseWrites, Writes, Tuners
<1>2. \A t \in Tuners : \E i \in 1 .. 13 : BaseWrites[i] = t
  BY DEF BaseWrites, Tuners
<1>3. Tuners \subseteq Elements(BaseWrites)
  BY <1>1, <1>2 DEF Elements
<1>4. ASSUME NEW s \in Seq(Writes)
      PROVE  Tuners \subseteq Elements(BaseWrites \o s)
  <2>1. /\ Len(BaseWrites \o s) = 13 + Len(s)
        /\ Len(s) \in Nat
        /\ \A i \in 1 .. 13 + Len(s) :
               (BaseWrites \o s)[i] = IF i <= 13 THEN BaseWrites[i] ELSE s[i - 13]
    <3>1. /\ Len(BaseWrites \o s) = Len(BaseWrites) + Len(s)
          /\ \A i \in 1 .. Len(BaseWrites) + Len(s) :
                 (BaseWrites \o s)[i] =
                     IF i <= Len(BaseWrites) THEN BaseWrites[i] ELSE s[i - Len(BaseWrites)]
      BY <1>1, ConcatProperties
    <3>2. Len(s) \in Nat
      BY LenProperties
    <3>. QED  BY <1>1, <3>1, <3>2
  <2>2. \A i \in 1 .. 13 : i \in 1 .. Len(BaseWrites \o s) /\ (BaseWrites \o s)[i] = BaseWrites[i]
    BY <2>1
  <2>. QED  BY <1>2, <2>2 DEF Elements
<1>5. <<"mode">> \in Seq(Writes) /\ <<"mode", "game">> \in Seq(Writes)
  BY DEF Writes
<1>6. Elements(GamingWrites) =
          {"Cpu", "Gpu", "Memory", "Io", "Sched", "Display", "Network",
           "cpuBoost", "touchBoost", "mode", "game"}
  BY DEF Elements, GamingWrites
<1>7. Elements(RecoverWrites) = Elements(GamingWrites)
  <2>1. Len(GamingWrites) = 11 /\ GamingWrites \in Seq(Writes) /\ GamingWrites[10] = "mode"
    BY DEF GamingWrites, Writes, Tuners
  <2>2. /\ Len(RecoverWrites) = 12
        /\ \A i \in 1 .. 12 : RecoverWrites[i] = IF i <= 1 THEN <<"mode">>[i] ELSE GamingWrites[i - 1]
    <3>1. /\ Len(RecoverWrites) = Len(<<"mode">>) + Len(GamingWrites)
          /\ \A i \in 1 .. Len(<<"mode">>) + Len(GamingWrites) :
                 RecoverWrites[i] = IF i <= Len(<<"mode">>) THEN <<"mode">>[i]
                                    ELSE GamingWrites[i - Len(<<"mode">>)]
      BY <1>5, <2>1, ConcatProperties DEF RecoverWrites
    <3>2. Len(<<"mode">>) = 1
      OBVIOUS
    <3>. QED  BY <2>1, <3>1, <3>2
  <2>3. \A i \in 1 .. 12 : RecoverWrites[i] = IF i = 1 THEN "mode" ELSE GamingWrites[i - 1]
    BY <2>2
  <2>4. Elements(RecoverWrites) \subseteq Elements(GamingWrites)
    BY <2>1, <2>2, <2>3 DEF Elements
  <2>5. \A i \in 1 .. 11 : RecoverWrites[i + 1] = GamingWrites[i]
    BY <2>3
  <2>6. Elements(GamingWrites) \subseteq Elements(RecoverWrites)
    BY <2>1, <2>2, <2>5 DEF Elements
  <2>. QED  BY <2>4, <2>6
<1>8. Elements(SustainedWrites) = {"Cpu", "Thermal", "mode"}
  BY DEF Elements, SustainedWrites
<1>. QED  BY <1>3, <1>4, <1>5, <1>6, <1>7, <1>8 DEF RevertWrites

(* A write is one of the pending ones, and the only one no longer pending  *)
(* after it.                                                               *)
LEMMA WritePending ==
    ASSUME ControlTypes, Write
    PROVE  /\ Head(todo) \in Pending
           /\ Pending' \subseteq Pending
           /\ Pending \subseteq Pending' \union {Head(todo)}
<1>1. /\ todo \in Seq(Writes) /\ todo # <<>> /\ pc = "writing" /\ todo' = Tail(todo)
      /\ pc' = IF Tail(todo) = <<>> THEN cont ELSE pc
      /\ cont # "writing"
  BY DEF Write, ControlTypes
<1>2. /\ Tail(todo) \in Seq(Writes)
      /\ Len(Tail(todo)) = Len(todo) - 1
      /\ \A i \in 1 .. Len(Tail(todo)) : Tail(todo)[i] = todo[i + 1]
      /\ Len(todo) \in Nat \ {0}
      /\ Head(todo) = todo[1]
  BY <1>1, HeadTailProperties, EmptySeq
<1>3. Head(todo) \in Pending
  BY <1>1, <1>2 DEF Pending, Elements
<1>4. Pending = Elements(Tail(todo)) \union {Head(todo)}
  <2>1. \A i \in 1 .. Len(todo) : i = 1 \/ (i - 1 \in 1 .. Len(Tail(todo)) /\ todo[i] = Tail(todo)[i - 1])
    BY <1>2
  <2>2. \A i \in 1 .. Len(Tail(todo)) : i + 1 \in 1 .. Len(todo)
    BY <1>2
  <2>. QED  BY <1>1, <1>2, <2>1, <2>2 DEF Pending, Elements
<1>5. Pending' = Elements(Tail(todo))
  <2>1. CASE Tail(todo) = <<>>
    <3>1. Pending' = {}
      BY <1>1, <2>1 DEF Pending
    <3>2. Len(Tail(todo)) = 0
      BY <2>1, EmptySeq
    <3>. QED  BY <3>1, <3>2 DEF Elements
  <2>2. CASE Tail(todo) # <<>>
    BY <1>1, <2>2 DEF Pending, Elements
  <2>. QED  BY <2>1, <2>2
<1>. QED  BY <1>3, <1>4, <1>5

LEMMA CallPending ==
    ASSUME NEW writes, NEW next, Call(writes, next) PROVE Pending' = Elements(writes)
BY DEF Call, Pending, Elements

(* Elsewhere in the code nothing is pending.                               *)
LEMMA NonePending ==
    /\ pc # "writing" => Pending = {}
    /\ pc' # "writing" => Pending' = {}
BY DEF Pending

(* The sections of each variant of a profile.                              *)
LEMMA Sections ==
    /\ \A e, t : Section(get_profile(e), t) = get_profile(e)
    /\ Section(SustainedProfile, "Thermal") = SustainedProfile
    /\ Section(SustainedProfile, "Cpu") = get_profile("CASUAL")
    /\ \A p \in Profiles : p.variant = "gaming" =>
           /\ p = get_gaming_profile(p.edition) /\ p.edition \in Editions
           /\ \A t \in ChangedSections("gaming") : Section(p, t) = p
<1>1. \A e, t : Section(get_profile(e), t) = get_profile(e)
  BY DEF Section, ChangedSections, get_profile
<1>2. Section(SustainedProfile, "Thermal") = SustainedProfile
  BY DEF Section, ChangedSections, SustainedProfile
<1>3. Section(SustainedProfile, "Cpu") = get_profile("CASUAL")
  BY DEF Section, ChangedSections, SustainedProfile
<1>4. ASSUME NEW p \in Profiles, p.variant = "gaming"
      PROVE  /\ p = get_gaming_profile(p.edition) /\ p.edition \in Editions
             /\ \A t \in ChangedSections("gaming") : Section(p, t) = p
  BY <1>4 DEF Profiles, get_gaming_profile, Section
<1>. QED  BY <1>1, <1>2, <1>3, <1>4

-----------------------------------------------------------------------------
(* The induction.                                                          *)

LEMMA InitHardware == Init => HardwareInv
BY DEF Init, HardwareInv, DefaultWritten, GamingWritten, SustainedWritten, Published

(* Steps that write nothing and change neither the mode nor the profile.   *)
LEMMA FrameHardware ==
    ASSUME HardwareInv, Pending' = Pending, pc' # "dead" => pc # "dead",
           UNCHANGED <<hw, modeProp, gameProp, mActiveProfile, gameVars>>,
           mCurrentMode = "DEFAULT" => UNCHANGED mEdition
    PROVE  HardwareInv'
<1>1. UNCHANGED <<mCurrentMode, mGameDetected, mCurrentGame>>
  BY DEF gameVars
<1>2. DefaultWritten'
  BY <1>1 DEF HardwareInv, DefaultWritten
<1>3. GamingWritten'
  BY <1>1 DEF HardwareInv, GamingWritten, BaseOnlyWritten
<1>4. SustainedWritten'
  BY <1>1 DEF HardwareInv, SustainedWritten, BaseOnlyWritten
<1>5. Published'
  BY <1>1 DEF HardwareInv, Published
<1>. QED  BY <1>2, <1>3, <1>4, <1>5 DEF HardwareInv

(* The process ends, or a call is to write every tuner in DEFAULT mode.    *)
LEMMA BaseCallHardware ==
    ASSUME mCurrentMode' = "DEFAULT", ~mGameDetected', pc' = "dead" \/ Tuners \subseteq Pending'
    PROVE  HardwareInv'
BY DEF HardwareInv, DefaultWritten, GamingWritten, SustainedWritten, Published

LEMMA GoneHardware == Gone => HardwareInv'
BY BaseCallHardware DEF Gone

LEMMA LaunchHardware == Launch => HardwareInv'
BY BaseCallHardware, CallPending, ListContents DEF Launch

(* One write.                                                              *)
LEMMA WriteHardware == TypeOK /\ ModesInv /\ HardwareInv /\ Write => HardwareInv'
<1>. SUFFICES ASSUME TypeOK, ModesInv, HardwareInv, Write PROVE HardwareInv'
  OBVIOUS
<1>. DEFINE w == Head(todo)
<1>1. /\ w \in Pending
      /\ Pending' \subseteq Pending
      /\ Pending \subseteq Pending' \union {w}
  BY WritePending DEF TypeOK
<1>2. /\ UNCHANGED <<mEdition, mActiveProfile, mCurrentMode, mGameDetected, mCurrentGame>>
      /\ pc # "dead"
  BY DEF Write, profile, gameVars
<1>3. \A t \in Tuners : hw'[t] =
          IF t # w THEN hw[t]
          ELSE IF t = "GpuSpoof" THEN get_profile(mEdition) ELSE Section(mActiveProfile, t)
  BY DEF Write, TypeOK, HwTypes
<1>4. DefaultWritten'
  <2>. SUFFICES ASSUME mCurrentMode = "DEFAULT", NEW t \in Tuners, t \notin Pending'
                PROVE  hw'[t] = get_profile(mEdition)
    BY <1>2 DEF DefaultWritten
  <2>1. mActiveProfile = get_profile(mEdition)
    BY DEF ModesInv, GameConsistent, BaseIsActive
  <2>2. CASE t = w
    BY <1>3, <2>1, <2>2, Sections
  <2>3. CASE t # w
    BY <1>1, <1>2, <1>3, <2>3 DEF HardwareInv, DefaultWritten
  <2>. QED  BY <2>2, <2>3
<1>5. GamingWritten'
  <2>. SUFFICES ASSUME mCurrentMode = "GAMING" PROVE GamingWritten'
    BY <1>2 DEF GamingWritten
  <2>1. /\ Pending \subseteq Elements(GamingWrites)
        /\ \A t \in GamingTuners \ Pending : hw[t] = Section(mActiveProfile, t)
    BY DEF HardwareInv, GamingWritten
  <2>2. PICK e \in Editions : BaseOnlyWritten(e)
    BY DEF HardwareInv, GamingWritten
  <2>3. w \notin BaseOnlyTuners \union {"Thermal"}
    BY <1>1, <2>1, ListContents DEF BaseOnlyTuners
  <2>4. \A t \in GamingTuners \ Pending' : hw'[t] = Section(mActiveProfile, t)
    <3>1. GamingTuners \subseteq Tuners \ {"GpuSpoof"}
      BY DEF GamingTuners, ChangedSections, Tuners
    <3>. QED  BY <1>1, <1>3, <2>1, <3>1
  <2>5. BaseOnlyWritten(e)'
    <3>1. BaseOnlyTuners \union {"Thermal"} \subseteq Tuners
      BY DEF BaseOnlyTuners, Tuners
    <3>. QED  BY <1>3, <2>2, <2>3, <3>1 DEF BaseOnlyWritten
  <2>. QED  BY <1>1, <1>2, <2>1, <2>4, <2>5 DEF GamingWritten
<1>6. SustainedWritten'
  <2>. SUFFICES ASSUME mCurrentMode = "SUSTAINED" PROVE SustainedWritten'
    BY <1>2 DEF SustainedWritten
  <2>1. /\ mActiveProfile = SustainedProfile
        /\ Pending \subseteq Elements(SustainedWrites)
        /\ "Thermal" \notin Pending => hw["Thermal"] = SustainedProfile
        /\ "Cpu" \notin Pending => hw["Cpu"] = get_profile("CASUAL")
    BY DEF HardwareInv, SustainedWritten
  <2>2. PICK e1 \in Editions :
            \A t \in ChangedSections("gaming") \ {"Cpu"} : hw[t] = get_gaming_profile(e1)
    BY DEF HardwareInv, SustainedWritten
  <2>3. PICK e2 \in Editions : BaseOnlyWritten(e2)
    BY DEF HardwareInv, SustainedWritten
  <2>4. w \in {"Cpu", "Thermal", "mode"}
    BY <1>1, <2>1, ListContents
  <2>5. /\ "Thermal" \notin Pending' => hw'["Thermal"] = SustainedProfile
        /\ "Cpu" \notin Pending' => hw'["Cpu"] = get_profile("CASUAL")
    BY <1>1, <1>3, <2>1, Sections DEF Tuners
  <2>6. \A t \in ChangedSections("gaming") \ {"Cpu"} : hw'[t] = get_gaming_profile(e1)
    BY <1>3, <2>2, <2>4 DEF ChangedSections, Tuners
  <2>7. BaseOnlyWritten(e2)'
    <3>1. \A t \in BaseOnlyTuners : hw'[t] = hw[t]
      BY <1>3, <2>4 DEF BaseOnlyTuners, Tuners
    <3>2. hw'["Thermal"] \in {hw["Thermal"], SustainedProfile}
      BY <1>3, <2>1, Sections DEF Tuners
    <3>. QED  BY <2>3, <3>1, <3>2 DEF BaseOnlyWritten
  <2>. QED  BY <1>1, <1>2, <2>1, <2>5, <2>6, <2>7 DEF SustainedWritten
<1>7. Published'
  <2>1. /\ modeProp' = IF w = "mode" THEN perfmode_to_string(mCurrentMode) ELSE modeProp
        /\ gameProp' = IF w = "game" THEN mCurrentGame ELSE gameProp
    BY DEF Write
  <2>. QED  BY <1>1, <1>2, <2>1 DEF HardwareInv, Published
<1>. QED  BY <1>4, <1>5, <1>6, <1>7 DEF HardwareInv

(* The four calls that begin in the loop, where nothing is pending.        *)
LEMMA ThrottleHardware == TypeOK /\ ModesInv /\ HardwareInv /\ Throttle => HardwareInv'
<1>. SUFFICES ASSUME TypeOK, ModesInv, HardwareInv, Throttle PROVE HardwareInv'
  OBVIOUS
<1>1. /\ mCurrentMode = "GAMING" /\ mCurrentMode' = "SUSTAINED"
      /\ mActiveProfile' = SustainedProfile
      /\ UNCHANGED <<hw, modeProp, gameProp, mCurrentGame, mGameDetected>>
  BY DEF Throttle, props
<1>2. Pending = {} /\ Pending' = {"Cpu", "Thermal", "mode"}
  BY NonePending, CallPending, ListContents DEF Throttle
<1>3. \E e \in Editions :
          \A t \in ChangedSections("gaming") \ {"Cpu"} : hw[t] = get_gaming_profile(e)
  <2>1. mActiveProfile \in Profiles /\ mActiveProfile.variant = "gaming"
    BY <1>1 DEF TypeOK, ProfileTypes, ModesInv, GameConsistent
  <2>2. \A t \in ChangedSections("gaming") : hw[t] = mActiveProfile
    BY <1>1, <1>2, <2>1, Sections DEF HardwareInv, GamingWritten, GamingTuners
  <2>. QED  BY <2>1, <2>2, Sections
<1>4. \E e \in Editions : BaseOnlyWritten(e)
  BY <1>1 DEF HardwareInv, GamingWritten
<1>5. SustainedWritten'
  BY <1>1, <1>2, <1>3, <1>4, ListContents DEF SustainedWritten, BaseOnlyWritten
<1>6. Published'
  BY <1>1, <1>2 DEF HardwareInv, Published
<1>. QED  BY <1>1, <1>5, <1>6 DEF HardwareInv, DefaultWritten, GamingWritten

(* A game begins, another one takes over, or a throttled one comes back.   *)
LEMMA EnterGamingHardware ==
    ASSUME TypeOK, ModesInv, HardwareInv, pc \notin {"dead", "writing"},
           NEW package, EnterGaming(package), UNCHANGED hw,
           Pending' = Elements(GamingWrites)
    PROVE  HardwareInv'
<1>1. Pending = {}
  BY NonePending
<1>2. \E e \in Editions : BaseOnlyWritten(e)
  <2>1. CASE mCurrentMode = "DEFAULT"
    <3>1. \A t \in Tuners : hw[t] = get_profile(mEdition)
      BY <1>1, <2>1 DEF HardwareInv, DefaultWritten
    <3>. QED  BY <3>1 DEF BaseOnlyWritten, BaseOnlyTuners, Tuners, TypeOK, ProfileTypes
  <2>2. CASE mCurrentMode = "GAMING"
    BY <2>2 DEF HardwareInv, GamingWritten
  <2>3. CASE mCurrentMode = "SUSTAINED"
    BY <2>3 DEF HardwareInv, SustainedWritten
  <2>. QED  BY <2>1, <2>2, <2>3 DEF ModesInv, GameConsistent
<1>3. GamingTuners \subseteq Pending'
  BY ListContents DEF GamingTuners, ChangedSections
<1>4. GamingWritten'
  BY <1>2, <1>3 DEF GamingWritten, BaseOnlyWritten
<1>5. mCurrentMode' = "GAMING" /\ "mode" \in Pending' /\ "game" \in Pending'
  BY ListContents DEF EnterGaming
<1>. QED
  BY <1>4, <1>5 DEF HardwareInv, DefaultWritten, SustainedWritten, Published

LEMMA DaemonHardware == TypeOK /\ ModesInv /\ HardwareInv /\ Daemon => HardwareInv'
<1>. SUFFICES ASSUME TypeOK, ModesInv, HardwareInv, Daemon PROVE HardwareInv'
  OBVIOUS
<1>1. ASSUME pc # "writing", NEW next \in Points \ {"writing"}, Goto(next), pc # "dead",
             UNCHANGED <<hw, props, profile, gameVars>>
      PROVE  HardwareInv'
  <2>1. Pending' = Pending
    BY <1>1, NonePending DEF Goto
  <2>. QED  BY <1>1, <2>1, FrameHardware DEF props, profile
<1>2. \A how : Exit(how) => HardwareInv'
  BY GoneHardware DEF Exit
<1>3. CASE ReadPersistent \/ LoopHead \/ WaitFails
  BY <1>1, <1>2, <1>3 DEF ReadPersistent, LoopHead, WaitFails, Points, LoopPoints
<1>4. CASE SetupEventLoop \/ EnterLoop
  BY <1>1, <1>4 DEF SetupEventLoop, EnterLoop, Points, LoopPoints
<1>5. CASE WaitInterrupted \/ WaitReturns \/ WaitTimer \/ NoThermalChange \/ SameForeground
  BY <1>1, <1>5 DEF WaitInterrupted, WaitReturns, WaitTimer, NoThermalChange,
     SameForeground, Points, LoopPoints
<1>6. CASE Recover
  <2>1. mGameDetected
    BY <1>6 DEF Recover, ModesInv, GameConsistent
  <2>2. /\ EnterGaming(mCurrentGame) /\ Call(RecoverWrites, "foreground")
        /\ UNCHANGED hw /\ pc = "timer"
    BY <1>6, <2>1 DEF Recover
  <2>. QED  BY <2>2, EnterGamingHardware, CallPending, ListContents
<1>7. CASE GameEnters
  <2>1. PICK g \in Games : Foreground(g) /\ EnterGaming(g)
    BY <1>7 DEF GameEnters
  <2>2. Call(GamingWrites, "edition") /\ UNCHANGED hw /\ pc = "foreground"
    BY <1>7, <2>1 DEF GameEnters, Foreground
  <2>. QED  BY <2>1, <2>2, EnterGamingHardware, CallPending
<1>8. CASE RevertToBase
  <2>1. mCurrentMode' = "DEFAULT" /\ ~mGameDetected' /\ Call(RevertWrites, "edition")
    BY <1>8 DEF RevertToBase, EnterBase
  <2>. QED  BY <2>1, BaseCallHardware, CallPending, ListContents
<1>9. CASE ReadLevel
  <2>1. CASE detect_edition(level) = mEdition
    <3>1. /\ Goto("head") /\ pc = "edition"
          /\ UNCHANGED <<hw, props, mEdition, mActiveProfile, gameVars>>
      BY <1>9, <2>1 DEF ReadLevel, profile, gameVars
    <3>2. Pending' = Pending
      BY <3>1, NonePending DEF Goto
    <3>. QED  BY <3>1, <3>2, FrameHardware DEF props
  <2>2. CASE detect_edition(level) # mEdition /\ mGameDetected
    <3>1. /\ Goto("head") /\ pc = "edition"
          /\ UNCHANGED <<hw, props, mActiveProfile, gameVars>>
      BY <1>9, <2>2 DEF ReadLevel, gameVars
    <3>2. Pending' = Pending
      BY <3>1, NonePending DEF Goto
    <3>3. mCurrentMode # "DEFAULT"
      BY <2>2 DEF ModesInv, GameConsistent
    <3>. QED  BY <3>1, <3>2, <3>3, FrameHardware DEF props
  <2>3. CASE detect_edition(level) # mEdition /\ ~mGameDetected
    <3>1. mCurrentMode' = "DEFAULT" /\ ~mGameDetected' /\ Call(BaseWrites, "head")
      BY <1>9, <2>3 DEF ReadLevel
    <3>. QED  BY <3>1, BaseCallHardware, CallPending, ListContents
  <2>. QED  BY <2>1, <2>2, <2>3
<1>. QED
  BY <1>3, <1>4, <1>5, <1>6, <1>7, <1>8, <1>9, WriteHardware, ThrottleHardware
  DEF Daemon, DaemonControl

LEMMA InitProcessHardware == TypeOK /\ HardwareInv /\ InitProcess => HardwareInv'
<1>. SUFFICES ASSUME TypeOK, HardwareInv, InitProcess PROVE HardwareInv'
  OBVIOUS
<1>1. StayAsIs /\ UNCHANGED <<hw, props>> => HardwareInv'
  BY FrameHardware DEF StayAsIs, control, Pending, props, profile
<1>2. \A next : Die(next) => HardwareInv'
  BY GoneHardware DEF Die
<1>3. CASE InitStart \/ InitStop \/ Respawn
  BY <1>1, <1>2, <1>3, LaunchHardware DEF InitStart, InitStop, Respawn, Trigger
<1>4. CASE InitRestart
  BY <1>1, <1>2, <1>4, LaunchHardware DEF InitRestart, Trigger, TypeOK, ServiceTypes
<1>. QED  BY <1>3, <1>4 DEF InitProcess

LEMMA WorldHardware == HardwareInv /\ World => HardwareInv'
<1>. SUFFICES ASSUME HardwareInv, World PROVE HardwareInv'
  OBVIOUS
<1>1. CASE ForegroundChanges \/ TemperatureChanges \/ SetLevel \/ SetPersistent \/ Sigterm
  <2>1. UNCHANGED <<hw, modeProp, gameProp, control, profile, gameVars>>
    BY <1>1 DEF ForegroundChanges, TemperatureChanges, SetLevel, SetPersistent, Sigterm, props
  <2>. QED  BY <2>1, FrameHardware DEF control, Pending, profile
<1>2. CASE Kill \/ Reboot
  BY <1>2, GoneHardware DEF Kill, Reboot, Die
<1>. QED  BY <1>1, <1>2 DEF World, WorldEvent

(* The inductive invariant behind the theorems about the device.           *)
THEOREM HardwareInductive == Spec => []HardwareInv
<1>1. TypeOK /\ ModesInv /\ HardwareInv /\ [Next]_vars => HardwareInv'
  <2>. SUFFICES ASSUME TypeOK, ModesInv, HardwareInv, [Next]_vars PROVE HardwareInv'
    OBVIOUS
  <2>1. CASE UNCHANGED vars
    BY <2>1, FrameHardware DEF vars, control, Pending, props, profile
  <2>. QED  BY <2>1, DaemonHardware, InitProcessHardware, WorldHardware DEF Next
<1>. QED  BY <1>1, InitHardware, TypeCorrect, ModesInductive, PTL DEF Spec

-----------------------------------------------------------------------------

LEMMA LoopPending == AtLoop => Pending = {} /\ pc # "dead"
BY NonePending DEF AtLoop, LoopPoints

(* DefaultHardware: in DEFAULT mode all thirteen tuners were last given    *)
(* the profile of the current edition, after any history of games,         *)
(* throttling, changes of edition, crashes and reboots.                    *)
THEOREM DefaultSections == Spec => []DefaultHardware
<1>1. HardwareInv => DefaultHardware
  BY LoopPending DEF HardwareInv, DefaultWritten, DefaultHardware
<1>. QED  BY <1>1, HardwareInductive, PTL

(* GamingHardware: in GAMING mode the tuners apply_gaming_profile calls    *)
(* hold the active profile, the others one and the same base profile but   *)
(* for the thermal settings, which an earlier throttling may have left.    *)
THEOREM GamingSections == Spec => []GamingHardware
<1>1. HardwareInv => GamingHardware
  BY LoopPending DEF HardwareInv, GamingWritten, GamingTuners, BaseOnlyWritten,
     BaseOnlyTuners, GamingHardware
<1>. QED  BY <1>1, HardwareInductive, PTL

(* SustainedHardware: a throttled game has the sustained CPU and thermal   *)
(* settings and the gaming profile in everything else it had set.          *)
THEOREM SustainedSections == Spec => []SustainedHardware
<1>1. HardwareInv => SustainedHardware
  BY LoopPending DEF HardwareInv, SustainedWritten, SustainedHardware
<1>. QED  BY <1>1, HardwareInductive, PTL

(* PublishedWhileGaming: the mode and game properties tell the truth while *)
(* a game runs.                                                            *)
THEOREM PublishedTruth == Spec => []PublishedWhileGaming
<1>1. HardwareInv => PublishedWhileGaming
  BY LoopPending DEF HardwareInv, Published, PublishedWhileGaming
<1>. QED  BY <1>1, HardwareInductive, PTL

-----------------------------------------------------------------------------
(* Lemmas about the tuners: which knobs they write, and what.              *)

(* The functions a tuner is put together from.                             *)
LEMMA Give ==
    \A k, v : /\ \A x : x \in DOMAIN (k := v) <=> x = k
              /\ (k := v)[k] = v
BY DEF :=

LEMMA Over ==
    \A f, g, k : /\ k \in DOMAIN (f ++ g) <=> k \in DOMAIN f \/ k \in DOMAIN g
                 /\ k \in DOMAIN f => (f ++ g)[k] = f[k]
                 /\ k \in DOMAIN g \ DOMAIN f => (f ++ g)[k] = g[k]
BY DEF ++

LEMMA Empty == \A k : k \notin DOMAIN Nothing
BY DEF Nothing

Restored == Knobs \ OneWayKnobs

CpuKnobs == {"scaling_governor", "sched_energy_aware", "schedtune.boost", "input_boost"}

GraphicsKnobs ==
    {"kgsl/governor", "kgsl/min_freq", "kgsl/pwrlevel", "gpubw/governor", "gpubw/min_freq",
     "mali/governor", "mali/min_freq", "mali/power_policy", "mali/dvfs_enabled",
     "pvr/governor", "pvr/min_freq", "gpufreq/governor", "gpufreq/min_freq"}

(* What is written to a device of devfreq does not depend on the profile,  *)
(* but for the clock, which is one-way.                                    *)
LEMMA DevfreqDomain ==
    ASSUME NEW p, NEW d \in {"kgsl", "gpubw", "mali", "pvr", "gpufreq"}
    PROVE  LET writes == tune_gpu_devfreq(devfreq[d], p) IN
           /\ \A k : k \notin OneWayKnobs =>
                  (k \in DOMAIN writes
                       <=> k \in {devfreq[d].governor, devfreq[d].polling_interval})
           /\ DOMAIN writes \subseteq
                  {devfreq[d].governor, devfreq[d].polling_interval, devfreq[d].min_freq}
BY Give, Over, Empty DEF When, tune_gpu_devfreq, devfreq, OneWayKnobs

LEMMA AdrenoDomain ==
    ASSUME NEW p, NEW q, NEW k, k \notin OneWayKnobs
    PROVE  k \in DOMAIN set_adreno(p) <=> k \in DOMAIN set_adreno(q)
BY Give, Over, Empty DEF When, set_adreno, tune_adreno_idler, OneWayKnobs

LEMMA CpuDomain ==
    ASSUME NEW p, NEW q, NEW k, k \notin OneWayKnobs
    PROVE  k \in DOMAIN CpuTuner(p) <=> k \in DOMAIN CpuTuner(q)
BY Give, Over, Empty DEF When, CpuTuner, OneWayKnobs

LEMMA GpuSpoofDomain ==
    ASSUME NEW p, NEW q, NEW k, k \notin OneWayKnobs
    PROVE  k \in DOMAIN GpuSpoof(p) <=> k \in DOMAIN GpuSpoof(q)
BY Give, Over, Empty DEF When, GpuSpoof, OneWayKnobs, WriteOnce

LEMMA MemoryDomain ==
    ASSUME NEW p, NEW q, NEW k, k \notin OneWayKnobs
    PROVE  k \in DOMAIN MemoryTuner(p) <=> k \in DOMAIN MemoryTuner(q)
BY Give, Over, Empty DEF When, MemoryTuner, OneWayKnobs

LEMMA OtherDomains ==
    ASSUME NEW p, NEW q, NEW k, k \notin OneWayKnobs
    PROVE  /\ k \in DOMAIN IoTuner(p) <=> k \in DOMAIN IoTuner(q)
           /\ k \in DOMAIN ThermalMonitor(p) <=> k \in DOMAIN ThermalMonitor(q)
           /\ k \in DOMAIN NetworkTuner(p) <=> k \in DOMAIN NetworkTuner(q)
           /\ k \in DOMAIN SchedTuner(p) <=> k \in DOMAIN SchedTuner(q)
           /\ k \in DOMAIN DisplayTuner(p) <=> k \in DOMAIN DisplayTuner(q)
           /\ k \in DOMAIN KernelTuner(p) <=> k \in DOMAIN KernelTuner(q)
           /\ k \in DOMAIN FsOptimizer(p) <=> k \in DOMAIN FsOptimizer(q)
           /\ k \in DOMAIN InterruptBalancer(p) <=> k \in DOMAIN InterruptBalancer(q)
           /\ k \in DOMAIN LmkTuner(p) <=> k \in DOMAIN LmkTuner(q)
BY Give, Over, Empty
DEF When, IoTuner, ThermalMonitor, NetworkTuner, SchedTuner, DisplayTuner, KernelTuner,
    FsOptimizer, InterruptBalancer, LmkTuner, OneWayKnobs

(* What a gaming profile gives a device of devfreq.                        *)
LEMMA DevfreqGaming ==
    ASSUME NEW p, p.variant = "gaming",
           NEW d \in {"kgsl", "gpubw", "mali", "pvr", "gpufreq"}
    PROVE  LET writes == tune_gpu_devfreq(devfreq[d], p) IN
           /\ {devfreq[d].governor, devfreq[d].min_freq} \subseteq DOMAIN writes
           /\ writes[devfreq[d].governor] = "performance"
           /\ writes[devfreq[d].min_freq] = "max"
<1>1. governor(p) = 2 /\ force_max_clock(p)
  BY DEF governor, force_max_clock, Gaming
<1>. QED  BY <1>1, Give, Over, Empty DEF When, tune_gpu_devfreq, devfreq

(* The knobs each of the four functions of GpuTuner writes.                *)
LEMMA GpuParts ==
    ASSUME NEW p
    PROVE  /\ \A k \in DOMAIN set_powervr(p) :
                  k \in {"pvr/governor", "pvr/min_freq", "pvr/polling_interval"}
           /\ \A k \in DOMAIN set_mali(p) :
                  k \in {"mali/governor", "mali/min_freq", "mali/polling_interval",
                         "mali/power_policy", "mali/dvfs_enabled"}
           /\ \A k \in DOMAIN set_generic(p) :
                  k \in {"kgsl/governor", "kgsl/min_freq", "kgsl/polling_interval",
                         "gpubw/governor", "gpubw/min_freq", "gpubw/polling_interval",
                         "gpufreq/governor", "gpufreq/min_freq", "gpufreq/polling_interval"}
           /\ \A k \in DOMAIN set_adreno(p) :
                  k \in {"kgsl/governor", "kgsl/min_freq", "kgsl/pwrlevel", "adrenoboost",
                         "throttling+bus+force_on+idle_timer", "adreno_idler_active",
                         "adreno_idler_idleworkload"}
<1>1. \A k \in DOMAIN set_powervr(p) :
         k \in {"pvr/governor", "pvr/min_freq", "pvr/polling_interval"}
  BY DevfreqDomain, Empty DEF When, set_powervr, devfreq
<1>2. \A k \in DOMAIN set_mali(p) :
         k \in {"mali/governor", "mali/min_freq", "mali/polling_interval",
                "mali/power_policy", "mali/dvfs_enabled"}
  BY DevfreqDomain, Give, Over, Empty DEF When, set_mali, devfreq
<1>3. \A k \in DOMAIN set_generic(p) :
         k \in {"kgsl/governor", "kgsl/min_freq", "kgsl/polling_interval",
                "gpubw/governor", "gpubw/min_freq", "gpubw/polling_interval",
                "gpufreq/governor", "gpufreq/min_freq", "gpufreq/polling_interval"}
  BY DevfreqDomain, Give, Over, Empty DEF When, set_generic, devfreq
<1>4. \A k \in DOMAIN set_adreno(p) :
         k \in {"kgsl/governor", "kgsl/min_freq", "kgsl/pwrlevel", "adrenoboost",
                "throttling+bus+force_on+idle_timer", "adreno_idler_active",
                "adreno_idler_idleworkload"}
  BY Give, Over, Empty DEF When, set_adreno, tune_adreno_idler
<1>. QED  BY <1>1, <1>2, <1>3, <1>4

(* The graphics tuner as a whole, likewise.                                *)
LEMMA GpuDomain ==
    ASSUME NEW p, NEW q, NEW k, k \notin OneWayKnobs
    PROVE  k \in DOMAIN GpuTuner(p) <=> k \in DOMAIN GpuTuner(q)
<1>1. k \in DOMAIN set_powervr(p) <=> k \in DOMAIN set_powervr(q)
  BY DevfreqDomain, Empty DEF When, set_powervr
<1>2. k \in DOMAIN set_mali(p) <=> k \in DOMAIN set_mali(q)
  BY DevfreqDomain, Give, Over, Empty DEF When, set_mali
<1>3. k \in DOMAIN set_generic(p) <=> k \in DOMAIN set_generic(q)
  BY DevfreqDomain, Give, Over, Empty DEF When, set_generic
<1>. QED  BY <1>1, <1>2, <1>3, AdrenoDomain, Over DEF GpuTuner

(* The governors are performance and the clocks at their maximum for a     *)
(* gaming profile, on whatever the device has.                             *)
LEMMA GpuGaming ==
    ASSUME NEW p, p.variant = "gaming"
    PROVE  LET writes == GpuTuner(p) IN
           /\ \A d \in {"gpubw", "mali", "pvr", "gpufreq"} \intersect Nodes :
                  /\ {devfreq[d].governor, devfreq[d].min_freq} \subseteq DOMAIN writes
                  /\ writes[devfreq[d].governor] = "performance"
                  /\ writes[devfreq[d].min_freq] = "max"
           /\ {"kgsl", "5000000.kgsl-3d0"} \intersect Nodes # {} =>
                  /\ {"kgsl/governor", "kgsl/min_freq"} \subseteq DOMAIN writes
                  /\ writes["kgsl/governor"] = "performance"
                  /\ writes["kgsl/min_freq"] = "max"
           /\ "kgsl" \in Nodes =>
                  "kgsl/pwrlevel" \in DOMAIN writes /\ writes["kgsl/pwrlevel"] = 0
           /\ "mali" \in Nodes =>
                  /\ {"mali/power_policy", "mali/dvfs_enabled"} \subseteq DOMAIN writes
                  /\ writes["mali/power_policy"] = "always_on"
                  /\ writes["mali/dvfs_enabled"] = 0
<1>. DEFINE writes == GpuTuner(p)
<1>1. governor(p) = 2 /\ force_max_clock(p)
  BY DEF governor, force_max_clock, Gaming
<1>2. /\ \A k \in DOMAIN set_adreno(p) :
            /\ k \in DOMAIN writes
            /\ k \notin DOMAIN set_generic(p) => writes[k] = set_adreno(p)[k]
      /\ \A k \in DOMAIN set_mali(p) : k \in DOMAIN writes /\ writes[k] = set_mali(p)[k]
      /\ \A k \in DOMAIN set_powervr(p) : k \in DOMAIN writes /\ writes[k] = set_powervr(p)[k]
      /\ \A k \in DOMAIN set_generic(p) : k \in DOMAIN writes /\ writes[k] = set_generic(p)[k]
  BY GpuParts, Over DEF GpuTuner
<1>3. "mali" \in Nodes =>
          /\ {"mali/governor", "mali/min_freq", "mali/power_policy", "mali/dvfs_enabled"}
                 \subseteq DOMAIN set_mali(p)
          /\ set_mali(p)["mali/governor"] = "performance"
          /\ set_mali(p)["mali/min_freq"] = "max"
          /\ set_mali(p)["mali/power_policy"] = "always_on"
          /\ set_mali(p)["mali/dvfs_enabled"] = 0
  BY <1>1, DevfreqGaming, Give, Over DEF When, set_mali, devfreq
<1>4. "pvr" \in Nodes =>
          /\ {"pvr/governor", "pvr/min_freq"} \subseteq DOMAIN set_powervr(p)
          /\ set_powervr(p)["pvr/governor"] = "performance"
          /\ set_powervr(p)["pvr/min_freq"] = "max"
  BY DevfreqGaming DEF When, set_powervr, devfreq
<1>5. "gpubw" \in Nodes =>
          /\ {"gpubw/governor", "gpubw/min_freq"} \subseteq DOMAIN set_generic(p)
          /\ set_generic(p)["gpubw/governor"] = "performance"
          /\ set_generic(p)["gpubw/min_freq"] = "max"
  BY <1>1, DevfreqGaming, DevfreqDomain, Give, Over, Empty DEF When, set_generic, devfreq
<1>6. "gpufreq" \in Nodes =>
          /\ {"gpufreq/governor", "gpufreq/min_freq"} \subseteq DOMAIN set_generic(p)
          /\ set_generic(p)["gpufreq/governor"] = "performance"
          /\ set_generic(p)["gpufreq/min_freq"] = "max"
  BY <1>1, DevfreqGaming, DevfreqDomain, Give, Over, Empty DEF When, set_generic, devfreq
<1>7. "5000000.kgsl-3d0" \in Nodes =>
          /\ {"kgsl/governor", "kgsl/min_freq"} \subseteq DOMAIN set_generic(p)
          /\ set_generic(p)["kgsl/governor"] = "performance"
          /\ set_generic(p)["kgsl/min_freq"] = "max"
  BY <1>1, DevfreqGaming, DevfreqDomain, Give, Over, Empty DEF When, set_generic, devfreq
<1>8. "5000000.kgsl-3d0" \notin Nodes =>
          \A k \in {"kgsl/governor", "kgsl/min_freq"} : k \notin DOMAIN set_generic(p)
  BY DevfreqDomain, Give, Over, Empty DEF When, set_generic, devfreq
<1>9. "kgsl" \in Nodes =>
          /\ {"kgsl/governor", "kgsl/min_freq", "kgsl/pwrlevel"} \subseteq DOMAIN set_adreno(p)
          /\ set_adreno(p)["kgsl/governor"] = "performance"
          /\ set_adreno(p)["kgsl/min_freq"] = "max"
          /\ set_adreno(p)["kgsl/pwrlevel"] = 0
  BY <1>1, Give, Over, Empty DEF When, set_adreno, tune_adreno_idler
<1>10. "kgsl/pwrlevel" \notin DOMAIN set_generic(p)
  BY GpuParts
<1>11. {"kgsl", "5000000.kgsl-3d0"} \intersect Nodes # {} =>
           /\ {"kgsl/governor", "kgsl/min_freq"} \subseteq DOMAIN writes
           /\ writes["kgsl/governor"] = "performance"
           /\ writes["kgsl/min_freq"] = "max"
  <2>1. CASE "5000000.kgsl-3d0" \in Nodes
    BY <1>2, <1>7, <2>1
  <2>2. CASE "5000000.kgsl-3d0" \notin Nodes
    BY <1>2, <1>8, <1>9, <2>2
  <2>. QED  BY <2>1, <2>2
<1>12. ASSUME NEW d \in {"gpubw", "mali", "pvr", "gpufreq"} \intersect Nodes
       PROVE  /\ {devfreq[d].governor, devfreq[d].min_freq} \subseteq DOMAIN writes
              /\ writes[devfreq[d].governor] = "performance"
              /\ writes[devfreq[d].min_freq] = "max"
  BY <1>2, <1>3, <1>4, <1>5, <1>6 DEF devfreq
<1>13. "kgsl" \in Nodes =>
           "kgsl/pwrlevel" \in DOMAIN writes /\ writes["kgsl/pwrlevel"] = 0
  BY <1>2, <1>9, <1>10
<1>14. "mali" \in Nodes =>
           /\ {"mali/power_policy", "mali/dvfs_enabled"} \subseteq DOMAIN writes
           /\ writes["mali/power_policy"] = "always_on"
           /\ writes["mali/dvfs_enabled"] = 0
  BY <1>2, <1>3
<1>. HIDE DEF writes
<1>. QED  BY <1>11, <1>12, <1>13, <1>14 DEF writes

(* The CPU's governor and boost for the three kinds of profile the loop    *)
(* gives it.                                                               *)
LEMMA CpuValues ==
    ASSUME NEW p
    PROVE  LET writes == CpuTuner(p) IN
           /\ {"scaling_governor", "sched_energy_aware", "schedtune.boost"}
                  \subseteq DOMAIN writes
           /\ p.variant = "gaming" =>
                  /\ writes["scaling_governor"] = "performance"
                  /\ writes["sched_energy_aware"] = 0
           /\ p.variant # "gaming" /\ p.edition = "CASUAL" =>
                  /\ writes["scaling_governor"] = "schedutil"
                  /\ writes["schedtune.boost"] = 5
           /\ \A k \in DOMAIN writes :
                  k \in {"cpusets+uclamp+migration", "schedtune.boost", "sched_energy_aware",
                         "schedutil/hispeed", "scaling_governor"}
<1>. DEFINE writes == CpuTuner(p)
<1>1. \A k : /\ k \in {"scaling_governor", "sched_energy_aware", "schedtune.boost"}
                  => k \in DOMAIN writes
             /\ k \in DOMAIN writes =>
                  k \in {"cpusets+uclamp+migration", "schedtune.boost", "sched_energy_aware",
                         "schedutil/hispeed", "scaling_governor"}
  BY Give, Over, Empty DEF When, CpuTuner
<1>2. writes["scaling_governor"] = <<"powersave", "schedutil", "performance">>[sched_boost(p) + 1]
  BY Give, Over, Empty DEF When, CpuTuner
<1>3. writes["sched_energy_aware"] = IF energy_aware(p) THEN 1 ELSE 0
  BY Give, Over, Empty DEF When, CpuTuner
<1>4. writes["schedtune.boost"] = 5 * sched_boost(p)
  BY Give, Over, Empty DEF When, CpuTuner
<1>. HIDE DEF writes
<1>5. p.variant = "gaming" => sched_boost(p) = 2 /\ ~energy_aware(p)
  BY DEF sched_boost, energy_aware, Gaming
<1>6. p.variant # "gaming" /\ p.edition = "CASUAL" => sched_boost(p) = 1
  BY DEF sched_boost, Gaming, PerEdition
<1>7. p.variant = "gaming" => writes["scaling_governor"] = "performance"
  BY <1>2, <1>5
<1>8. p.variant = "gaming" => writes["sched_energy_aware"] = 0
  BY <1>3, <1>5
<1>9. p.variant # "gaming" /\ p.edition = "CASUAL" =>
          writes["scaling_governor"] = "schedutil" /\ writes["schedtune.boost"] = 5
  BY <1>2, <1>4, <1>6
<1>. QED  BY <1>1, <1>7, <1>8, <1>9 DEF writes

LEMMA BoostValues ==
    ASSUME NEW p
    PROVE  LET writes == apply_boost(p) IN
           /\ p.variant = "gaming" =>
                  /\ {"schedtune.boost", "input_boost"} \subseteq DOMAIN writes
                  /\ writes["schedtune.boost"] = 15 /\ writes["input_boost"] = 5000
           /\ \A k \in DOMAIN writes :
                  k \in {"schedtune.boost", "input_boost", "cpu.boost_active"}
<1>1. \A k \in DOMAIN apply_boost(p) :
          k \in {"schedtune.boost", "input_boost", "cpu.boost_active"}
  BY Give, Over, Empty DEF When, apply_boost
<1>2. ASSUME p.variant = "gaming"
      PROVE  /\ {"schedtune.boost", "input_boost"} \subseteq DOMAIN apply_boost(p)
             /\ apply_boost(p)["schedtune.boost"] = 15
             /\ apply_boost(p)["input_boost"] = 5000
  <2>1. boost_duration_ms(p) = 5000
    BY <1>2 DEF boost_duration_ms, Gaming
  <2>2. apply_boost(p) = ("schedtune.boost" := 15) ++ ("input_boost" := boost_duration_ms(p))
                         ++ ("cpu.boost_active" := "true")
    BY <2>1 DEF apply_boost, When
  <2>. QED  BY <2>1, <2>2, Give, Over
<1>. QED  BY <1>1, <1>2

(* The tuners a game calls besides these two write neither their knobs nor *)
(* those of the graphics devices.                                          *)
LEMMA OthersApart ==
    ASSUME NEW p, NEW k \in CpuKnobs \union GraphicsKnobs
    PROVE  /\ k \notin DOMAIN MemoryTuner(p) /\ k \notin DOMAIN IoTuner(p)
           /\ k \notin DOMAIN ThermalMonitor(p) /\ k \notin DOMAIN NetworkTuner(p)
           /\ k \notin DOMAIN SchedTuner(p) /\ k \notin DOMAIN DisplayTuner(p)
           /\ k \notin DOMAIN apply_touch_boost(p)
<1>1. k \notin DOMAIN MemoryTuner(p) /\ k \notin DOMAIN IoTuner(p)
  BY Give, Over, Empty DEF When, MemoryTuner, IoTuner, CpuKnobs, GraphicsKnobs
<1>2. k \notin DOMAIN ThermalMonitor(p) /\ k \notin DOMAIN NetworkTuner(p)
  BY Give, Over, Empty DEF When, ThermalMonitor, NetworkTuner, CpuKnobs, GraphicsKnobs
<1>3. /\ k \notin DOMAIN SchedTuner(p) /\ k \notin DOMAIN DisplayTuner(p)
      /\ k \notin DOMAIN apply_touch_boost(p)
  BY Give, Over, Empty
  DEF When, SchedTuner, DisplayTuner, apply_touch_boost, CpuKnobs, GraphicsKnobs
<1>. QED  BY <1>1, <1>2, <1>3

LEMMA TunerCases ==
    ASSUME NEW p
    PROVE  /\ TunerWrites("Cpu", p) = CpuTuner(p) /\ TunerWrites("Gpu", p) = GpuTuner(p)
           /\ TunerWrites("GpuSpoof", p) = GpuSpoof(p)
           /\ TunerWrites("Memory", p) = MemoryTuner(p) /\ TunerWrites("Io", p) = IoTuner(p)
           /\ TunerWrites("Thermal", p) = ThermalMonitor(p)
           /\ TunerWrites("Network", p) = NetworkTuner(p)
           /\ TunerWrites("Sched", p) = SchedTuner(p)
           /\ TunerWrites("Display", p) = DisplayTuner(p)
           /\ TunerWrites("Kernel", p) = KernelTuner(p) /\ TunerWrites("Fs", p) = FsOptimizer(p)
           /\ TunerWrites("Irq", p) = InterruptBalancer(p) /\ TunerWrites("Lmk", p) = LmkTuner(p)
           /\ TunerWrites("cpuBoost", p) = apply_boost(p)
           /\ TunerWrites("touchBoost", p) = apply_touch_boost(p)
BY DEF TunerWrites

(* Whether a tuner writes a knob that the base profile restores depends on *)
(* the device but not on the profile.                                      *)
LEMMA TunerDomain ==
    ASSUME NEW t \in Tuners, NEW p, NEW q, NEW k, k \notin OneWayKnobs
    PROVE  k \in DOMAIN TunerWrites(t, p) <=> k \in DOMAIN TunerWrites(t, q)
BY TunerCases, CpuDomain, GpuDomain, GpuSpoofDomain, MemoryDomain, OtherDomains DEF Tuners

(* The boosts: one such knob, which the Cpu tuner writes as well.          *)
LEMMA BoostDomain ==
    ASSUME NEW t \in {"cpuBoost", "touchBoost"}, NEW p, NEW k, k \notin OneWayKnobs,
           k \in DOMAIN TunerWrites(t, p)
    PROVE  k \in DOMAIN TunerWrites("Cpu", get_profile("CASUAL"))
<1>1. \A x \in DOMAIN apply_touch_boost(p) : x = "touch_boost"
  BY Give, Empty DEF When, apply_touch_boost
<1>. QED  BY <1>1, TunerCases, BoostValues, CpuValues DEF OneWayKnobs

(* What a write makes of a knob that can be set more than once.            *)
LEMMA WriteEffect ==
    ASSUME WriteKnobs, NEW k \in Knobs \ WriteOnce
    PROVE  LET w == Head(todo)
               writes == TunerWrites(w, WrittenProfile(w))
           IN  /\ w \in {"mode", "game"} => knobs'[k] = knobs[k]
               /\ w \notin {"mode", "game"} /\ k \in DOMAIN writes => knobs'[k] = writes[k]
               /\ w \notin {"mode", "game"} /\ k \notin DOMAIN writes => knobs'[k] = knobs[k]
BY DEF WriteKnobs, Written

-----------------------------------------------------------------------------
(* The inductive invariant.                                                *)

Reached(k) == \E t \in Tuners : k \in DOMAIN TunerWrites(t, get_profile("CASUAL"))

(* A knob that the device does not have, or no tuner writes, is as at boot.*)
UnreachedBoot == \A k \in Restored : ~Reached(k) => knobs[k] = Boot

(* In DEFAULT mode only the base profile is applied, and its tuners are    *)
(* called in their order.                                                  *)
BaseInOrder(seq) ==
    \A a \in 1 .. Len(seq), i, j \in 1 .. 13 :
        i < j /\ seq[a] = BaseWrites[i]
            => \E b \in 1 .. Len(seq) : a < b /\ seq[b] = BaseWrites[j]

DefaultOrder ==
    pc = "writing" /\ mCurrentMode = "DEFAULT"
        => Elements(todo) \subseteq Tuners \union {"mode", "game"} /\ BaseInOrder(todo)

(* What no write that is left to do will set again is as on a fresh device.*)
DefaultKnobs ==
    pc # "dead" /\ mCurrentMode = "DEFAULT"
        => \A k \in Restored :
             (\A t \in Pending \intersect Tuners :
                  k \notin DOMAIN TunerWrites(t, get_profile(mEdition)))
                => knobs[k] = FreshDevice[mEdition][k]

(* The boost is written after the Cpu tuner, which sets one knob of it.    *)
BoostComesAfter(seq) ==
    \A a \in 1 .. Len(seq) :
        seq[a] = "Cpu" => \E b \in 1 .. Len(seq) : a < b /\ seq[b] = "cpuBoost"

GamingOrder == pc = "writing" /\ mCurrentMode = "GAMING" => BoostComesAfter(todo)

GamingKnobs ==
    mCurrentMode = "GAMING"
        => /\ "Gpu" \notin Pending => GraphicsPinned
           /\ "Cpu" \notin Pending =>
                 knobs["scaling_governor"] = "performance" /\ knobs["sched_energy_aware"] = 0
           /\ "cpuBoost" \notin Pending =>
                 knobs["schedtune.boost"] = 15 /\ knobs["input_boost"] = 5000

SustainedKnobs ==
    mCurrentMode = "SUSTAINED"
        => /\ GraphicsPinned /\ knobs["input_boost"] = 5000
           /\ "Cpu" \notin Pending =>
                 knobs["scaling_governor"] = "schedutil" /\ knobs["schedtune.boost"] = 5

KnobInv ==
    UnreachedBoot /\ DefaultOrder /\ DefaultKnobs /\ GamingOrder /\ GamingKnobs
        /\ SustainedKnobs

(* The graphics knobs are pinned as long as nobody writes them.            *)
LEMMA PinnedFrame ==
    ASSUME GraphicsPinned, \A k \in GraphicsKnobs : knobs'[k] = knobs[k]
    PROVE  GraphicsPinned'
BY DEF GraphicsPinned, GraphicsDevices, GraphicsKnobs, devfreq

LEMMA InitKnobs == KnobInit => KnobInv
<1>. SUFFICES ASSUME KnobInit PROVE KnobInv
  OBVIOUS
<1>1. UnreachedBoot
  BY DEF KnobInit, UnreachedBoot, BootKnobs, Restored
<1>2. pc = "dead" /\ mCurrentMode = "DEFAULT"
  <2>1. Init
    BY DEF KnobInit
  <2>2. pc = "dead"
    BY <2>1, Zenon DEF Init
  <2>3. mCurrentMode = "DEFAULT"
    BY <2>1, Zenon DEF Init
  <2>. QED  BY <2>2, <2>3
<1>. QED
  BY <1>1, <1>2 DEF KnobInv, DefaultOrder, DefaultKnobs, GamingOrder, GamingKnobs, SustainedKnobs

(* Steps that write nothing and change neither the mode nor the writes to  *)
(* do.                                                                     *)
LEMMA FrameKnobs ==
    ASSUME KnobInv, UNCHANGED <<knobs, mCurrentMode>>, Pending' = Pending,
           pc' = "writing" => pc = "writing" /\ todo' = todo,
           pc' # "dead" => pc # "dead", mCurrentMode = "DEFAULT" => UNCHANGED mEdition
    PROVE  KnobInv'
<1>1. UnreachedBoot'
  BY DEF KnobInv, UnreachedBoot
<1>2. DefaultOrder' /\ GamingOrder'
  <2>1. CASE pc' # "writing"
    BY <2>1 DEF DefaultOrder, GamingOrder
  <2>2. CASE pc' = "writing"
    <3>1. pc = "writing" /\ todo' = todo
      BY <2>2
    <3>2. /\ Elements(todo)' = Elements(todo)
          /\ BaseInOrder(todo)' <=> BaseInOrder(todo)
          /\ BoostComesAfter(todo)' <=> BoostComesAfter(todo)
      BY <3>1 DEF Elements, BaseInOrder, BoostComesAfter
    <3>. QED  BY <3>1, <3>2 DEF KnobInv, DefaultOrder, GamingOrder
  <2>. QED  BY <2>1, <2>2
<1>3. DefaultKnobs'
  BY DEF KnobInv, DefaultKnobs
<1>4. GraphicsPinned => GraphicsPinned'
  BY PinnedFrame
<1>5. GamingKnobs' /\ SustainedKnobs'
  BY <1>4 DEF KnobInv, GamingKnobs, SustainedKnobs
<1>. QED  BY <1>1, <1>2, <1>3, <1>5 DEF KnobInv

(* The base profile names each tuner once.                                 *)
LEMMA BaseOrder ==
    /\ Elements(BaseWrites) \subseteq Tuners /\ BaseInOrder(BaseWrites)
    /\ \A s \in Seq({"mode", "game"}) :
          /\ Elements(BaseWrites \o s) \subseteq Tuners \union {"mode", "game"}
          /\ BaseInOrder(BaseWrites \o s)
<1>1. Len(BaseWrites) = 13 /\ BaseWrites \in Seq(Tuners)
  BY DEF BaseWrites, Tuners
<1>2. \A i, j \in 1 .. 13 : BaseWrites[i] = BaseWrites[j] => i = j
  BY DEF BaseWrites
<1>3. \A i \in 1 .. 13 : BaseWrites[i] \in Tuners \ {"mode", "game"}
  BY DEF BaseWrites, Tuners
<1>4. Elements(BaseWrites) \subseteq Tuners /\ BaseInOrder(BaseWrites)
  BY <1>1, <1>2, <1>3 DEF Elements, BaseInOrder
<1>5. ASSUME NEW s \in Seq({"mode", "game"})
      PROVE  /\ Elements(BaseWrites \o s) \subseteq Tuners \union {"mode", "game"}
             /\ BaseInOrder(BaseWrites \o s)
  <2>1. /\ Len(BaseWrites \o s) = 13 + Len(s)
        /\ Len(s) \in Nat
        /\ \A i \in 1 .. 13 + Len(s) :
               (BaseWrites \o s)[i] = IF i <= 13 THEN BaseWrites[i] ELSE s[i - 13]
    <3>1. BaseWrites \in Seq(Writes) /\ s \in Seq(Writes)
      BY <1>1 DEF Writes
    <3>2. /\ Len(BaseWrites \o s) = Len(BaseWrites) + Len(s)
          /\ \A i \in 1 .. Len(BaseWrites) + Len(s) :
                 (BaseWrites \o s)[i] =
                     IF i <= Len(BaseWrites) THEN BaseWrites[i] ELSE s[i - Len(BaseWrites)]
      BY <3>1, ConcatProperties
    <3>3. Len(s) \in Nat
      BY LenProperties
    <3>. QED  BY <1>1, <3>2, <3>3
  <2>2. \A i \in 1 .. Len(s) : s[i] \in {"mode", "game"}
    BY ElementOfSeq
  <2>3. \A i \in 14 .. 13 + Len(s) : (BaseWrites \o s)[i] \in {"mode", "game"}
    <3>1. \A i \in 14 .. 13 + Len(s) : i - 13 \in 1 .. Len(s) /\ ~(i <= 13)
      BY <2>1
    <3>. QED  BY <2>1, <2>2, <3>1
  <2>4. \A i \in 1 .. 13 : i \in 1 .. 13 + Len(s) /\ (BaseWrites \o s)[i] = BaseWrites[i]
    BY <2>1
  <2>5. \A a \in 1 .. 13 + Len(s) : a \in 1 .. 13 \/ a \in 14 .. 13 + Len(s)
    BY <2>1
  <2>6. Elements(BaseWrites \o s) \subseteq Tuners \union {"mode", "game"}
    <3>1. \A a \in 1 .. 13 + Len(s) : (BaseWrites \o s)[a] \in Tuners \union {"mode", "game"}
      BY <1>3, <2>3, <2>4, <2>5
    <3>. QED  BY <2>1, <3>1 DEF Elements
  <2>7. ASSUME NEW a \in 1 .. 13 + Len(s), NEW i \in 1 .. 13, NEW j \in 1 .. 13, i < j,
               (BaseWrites \o s)[a] = BaseWrites[i]
        PROVE  \E b \in 1 .. 13 + Len(s) : a < b /\ (BaseWrites \o s)[b] = BaseWrites[j]
    <3>1. a \in 1 .. 13
      BY <1>3, <2>3, <2>7, <2>5
    <3>2. a = i
      BY <1>2, <2>4, <2>7, <3>1
    <3>. QED  BY <2>4, <2>7, <3>2
  <2>8. BaseInOrder(BaseWrites \o s)
    BY <2>1, <2>7 DEF BaseInOrder
  <2>. QED  BY <2>6, <2>8
<1>. QED  BY <1>4, <1>5

(* The process ends, or a call is to write every tuner in DEFAULT mode.    *)
LEMMA BaseCallKnobs ==
    ASSUME UnreachedBoot', mCurrentMode' = "DEFAULT", mEdition' \in Editions,
           \/ pc' = "dead"
           \/ pc' = "writing" /\ todo' \in {BaseWrites, RevertWrites, BaseWrites \o <<"mode">>}
    PROVE  KnobInv'
<1>1. DefaultOrder'
  <2>1. <<"mode">> \in Seq({"mode", "game"}) /\ <<"mode", "game">> \in Seq({"mode", "game"})
    OBVIOUS
  <2>2. \A writes \in {BaseWrites, RevertWrites, BaseWrites \o <<"mode">>} :
           Elements(writes) \subseteq Tuners \union {"mode", "game"} /\ BaseInOrder(writes)
    BY <2>1, BaseOrder DEF RevertWrites
  <2>3. CASE pc' = "dead"
    BY <2>3 DEF DefaultOrder
  <2>4. CASE pc' = "writing" /\ todo' \in {BaseWrites, RevertWrites, BaseWrites \o <<"mode">>}
    BY <2>2, <2>4 DEF DefaultOrder, Elements, BaseInOrder
  <2>. QED  BY <2>3, <2>4
<1>2. DefaultKnobs'
  <2>. SUFFICES ASSUME pc' # "dead", NEW k \in Restored,
                       \A t \in Pending' \intersect Tuners :
                           k \notin DOMAIN TunerWrites(t, get_profile(mEdition'))
                PROVE  knobs'[k] = FreshDevice[mEdition'][k]
    BY DEF DefaultKnobs
  <2>1. Tuners \subseteq Pending'
    <3>1. Pending' = Elements(todo')
      BY DEF Pending, Elements
    <3>. QED  BY <3>1, ListContents
  <2>2. k \in Knobs /\ k \notin OneWayKnobs
    BY DEF Restored
  <2>3. \A t \in Tuners : k \notin DOMAIN TunerWrites(t, get_profile(mEdition'))
    BY <2>1
  <2>4. ~Reached(k)
    BY <2>2, <2>3, TunerDomain DEF Reached
  <2>5. knobs'[k] = Boot
    BY <2>4 DEF UnreachedBoot, Reached
  <2>6. BaseWriters(mEdition', k) = {}
    <3>1. \A i \in 1 .. Len(BaseWrites) : BaseWrites[i] \in Tuners
      BY BaseOrder DEF Elements
    <3>. QED  BY <2>3, <3>1 DEF BaseWriters
  <2>7. FreshDevice[mEdition'][k] = Boot
    BY <2>2, <2>6 DEF FreshDevice
  <2>. QED  BY <2>5, <2>7
<1>. QED
  BY <1>1, <1>2 DEF KnobInv, GamingOrder, GamingKnobs, SustainedKnobs

LEMMA GoneKnobs ==
    ASSUME Gone, KnobInv, \A k \in Knobs : knobs'[k] \in {knobs[k], Boot}
    PROVE  KnobInv'
<1>1. UnreachedBoot'
  BY DEF KnobInv, UnreachedBoot, Restored, Reached
<1>2. mCurrentMode' = "DEFAULT" /\ mEdition' \in Editions /\ pc' = "dead"
  BY DEF Gone, Editions
<1>. QED  BY <1>1, <1>2, BaseCallKnobs

LEMMA LaunchKnobs == ASSUME Launch, KnobInv, UNCHANGED knobs PROVE KnobInv'
<1>1. UnreachedBoot'
  BY DEF KnobInv, UnreachedBoot, Reached
<1>2. mCurrentMode' = "DEFAULT" /\ mEdition' = detect_edition(level)
  BY DEF Launch
<1>3. mEdition' \in Editions
  BY <1>2 DEF detect_edition, Editions
<1>4. pc' = "writing" /\ todo' = BaseWrites
  BY DEF Launch, Call
<1>. QED  BY <1>1, <1>2, <1>3, <1>4, BaseCallKnobs

(* In the lists of a game the boost comes after the Cpu tuner.             *)
LEMMA BoostOrder == BoostComesAfter(GamingWrites) /\ BoostComesAfter(RecoverWrites)
<1>1. /\ Len(GamingWrites) = 11 /\ GamingWrites \in Seq(Writes)
      /\ GamingWrites[1] = "Cpu" /\ GamingWrites[8] = "cpuBoost"
      /\ \A i \in 2 .. 11 : GamingWrites[i] # "Cpu"
  BY DEF GamingWrites, Writes, Tuners
<1>2. BoostComesAfter(GamingWrites)
  <2>1. \A a \in 1 .. 11 : GamingWrites[a] = "Cpu" => a < 8
    BY <1>1
  <2>. QED  BY <1>1, <2>1 DEF BoostComesAfter
<1>3. /\ Len(RecoverWrites) = 12 /\ RecoverWrites[1] = "mode"
      /\ \A i \in 2 .. 12 : RecoverWrites[i] = GamingWrites[i - 1]
  <2>1. <<"mode">> \in Seq(Writes) /\ Len(<<"mode">>) = 1 /\ <<"mode">>[1] = "mode"
    BY DEF Writes
  <2>2. /\ Len(RecoverWrites) = Len(<<"mode">>) + Len(GamingWrites)
        /\ \A i \in 1 .. Len(<<"mode">>) + Len(GamingWrites) :
               RecoverWrites[i] = IF i <= Len(<<"mode">>) THEN <<"mode">>[i]
                                  ELSE GamingWrites[i - Len(<<"mode">>)]
    BY <1>1, <2>1, ConcatProperties DEF RecoverWrites
  <2>. QED  BY <1>1, <2>1, <2>2
<1>4. BoostComesAfter(RecoverWrites)
  <2>1. \A a \in 1 .. 12 : RecoverWrites[a] = "Cpu" => a < 9
    <3>1. \A a \in 3 .. 12 : RecoverWrites[a] # "Cpu"
      BY <1>1, <1>3
    <3>. QED  BY <3>1
  <2>2. RecoverWrites[9] = "cpuBoost"
    BY <1>1, <1>3
  <2>. QED  BY <1>3, <2>1, <2>2 DEF BoostComesAfter
<1>. QED  BY <1>2, <1>4

(* A game begins, another one takes over, or a throttled one comes back:   *)
(* everything is to be written.                                            *)
LEMMA EnterGamingKnobs ==
    ASSUME KnobInv, UNCHANGED knobs, mCurrentMode' = "GAMING", pc' = "writing",
           todo' \in {GamingWrites, RecoverWrites}
    PROVE  KnobInv'
<1>1. UnreachedBoot'
  BY DEF KnobInv, UnreachedBoot, Reached
<1>2. GamingOrder'
  BY BoostOrder DEF GamingOrder, BoostComesAfter
<1>3. {"Gpu", "Cpu", "cpuBoost"} \subseteq Pending'
  <2>1. Pending' = Elements(todo')
    BY DEF Pending, Elements
  <2>. QED  BY <2>1, ListContents
<1>. QED
  BY <1>1, <1>2, <1>3
  DEF KnobInv, DefaultOrder, DefaultKnobs, GamingKnobs, SustainedKnobs

LEMMA ThrottleKnobs == KnobInv /\ UNCHANGED knobs /\ Throttle => KnobInv'
<1>. SUFFICES ASSUME KnobInv, UNCHANGED knobs, Throttle PROVE KnobInv'
  OBVIOUS
<1>1. mCurrentMode = "GAMING" /\ mCurrentMode' = "SUSTAINED"
  BY DEF Throttle
<1>2. Pending = {} /\ "Cpu" \in Pending'
  BY NonePending, CallPending, ListContents DEF Throttle
<1>3. GraphicsPinned /\ knobs["input_boost"] = 5000
  BY <1>1, <1>2 DEF KnobInv, GamingKnobs
<1>4. GraphicsPinned'
  BY <1>3, PinnedFrame
<1>5. UnreachedBoot'
  BY DEF KnobInv, UnreachedBoot, Reached
<1>. QED
  BY <1>1, <1>2, <1>3, <1>4, <1>5
  DEF KnobInv, DefaultOrder, DefaultKnobs, GamingOrder, GamingKnobs, SustainedKnobs

(* A write takes the first of the list.                                    *)
LEMMA WriteTodo ==
    ASSUME ControlTypes, Write
    PROVE  /\ pc = "writing" /\ todo' = Tail(todo)
           /\ Len(todo) \in Nat \ {0} /\ Len(todo') = Len(todo) - 1
           /\ Head(todo) = todo[1]
           /\ \A i \in 1 .. Len(todo') : todo'[i] = todo[i + 1]
           /\ Pending = Elements(todo)
           /\ \A i \in 2 .. Len(todo) : todo[i] \in Pending'
<1>1. /\ todo \in Seq(Writes) /\ todo # <<>> /\ pc = "writing" /\ todo' = Tail(todo)
      /\ pc' = IF Tail(todo) = <<>> THEN cont ELSE pc
  BY DEF Write, ControlTypes
<1>2. /\ Tail(todo) \in Seq(Writes)
      /\ Len(Tail(todo)) = Len(todo) - 1
      /\ \A i \in 1 .. Len(Tail(todo)) : Tail(todo)[i] = todo[i + 1]
      /\ Len(todo) \in Nat \ {0}
      /\ Head(todo) = todo[1]
  BY <1>1, HeadTailProperties, EmptySeq
<1>3. ASSUME NEW i \in 2 .. Len(todo) PROVE todo[i] \in Pending'
  <2>1. i - 1 \in 1 .. Len(Tail(todo)) /\ Tail(todo)[i - 1] = todo[i]
    BY <1>2
  <2>2. Tail(todo) # <<>>
    <3>1. Len(Tail(todo)) # 0
      BY <1>2, <2>1
    <3>. QED  BY <3>1, EmptySeq
  <2>3. pc' = "writing"
    BY <1>1, <2>2
  <2>. QED  BY <1>1, <2>1, <2>3 DEF Pending, Elements
<1>. QED  BY <1>1, <1>2, <1>3 DEF Pending

(* The writes left keep their order.                                       *)
LEMMA WriteOrder ==
    ASSUME ControlTypes, Write, UNCHANGED mCurrentMode, DefaultOrder, GamingOrder
    PROVE  DefaultOrder' /\ GamingOrder'
<1>1. /\ pc = "writing" /\ Len(todo) \in Nat \ {0} /\ Len(todo') = Len(todo) - 1
      /\ \A i \in 1 .. Len(todo') : i + 1 \in 1 .. Len(todo) /\ todo'[i] = todo[i + 1]
      /\ \A i \in 2 .. Len(todo) : i - 1 \in 1 .. Len(todo') /\ todo'[i - 1] = todo[i]
  BY WriteTodo
<1>2. Elements(todo') \subseteq Elements(todo)
  BY <1>1 DEF Elements
<1>3. ASSUME BaseInOrder(todo) PROVE BaseInOrder(todo')
  <2>. SUFFICES ASSUME NEW a \in 1 .. Len(todo'), NEW i \in 1 .. 13, NEW j \in 1 .. 13,
                       i < j, todo'[a] = BaseWrites[i]
                PROVE  \E b \in 1 .. Len(todo') : a < b /\ todo'[b] = BaseWrites[j]
    BY DEF BaseInOrder
  <2>1. a + 1 \in 1 .. Len(todo) /\ todo[a + 1] = BaseWrites[i]
    BY <1>1
  <2>2. PICK b \in 1 .. Len(todo) : a + 1 < b /\ todo[b] = BaseWrites[j]
    BY <1>3, <2>1 DEF BaseInOrder
  <2>3. b - 1 \in 1 .. Len(todo') /\ a < b - 1 /\ todo'[b - 1] = BaseWrites[j]
    BY <1>1, <2>2
  <2>. QED  BY <2>3
<1>4. ASSUME BoostComesAfter(todo) PROVE BoostComesAfter(todo')
  <2>. SUFFICES ASSUME NEW a \in 1 .. Len(todo'), todo'[a] = "Cpu"
                PROVE  \E b \in 1 .. Len(todo') : a < b /\ todo'[b] = "cpuBoost"
    BY DEF BoostComesAfter
  <2>1. PICK b \in 1 .. Len(todo) : a + 1 < b /\ todo[b] = "cpuBoost"
    BY <1>1, <1>4 DEF BoostComesAfter
  <2>2. b - 1 \in 1 .. Len(todo') /\ a < b - 1 /\ todo'[b - 1] = "cpuBoost"
    BY <1>1, <2>1
  <2>. QED  BY <2>2
<1>5. DefaultOrder'
  <2>1. Elements(todo)' = Elements(todo') /\ (BaseInOrder(todo)' <=> BaseInOrder(todo'))
    BY DEF Elements, BaseInOrder
  <2>. QED  BY <1>1, <1>2, <1>3, <2>1 DEF DefaultOrder
<1>6. GamingOrder'
  <2>1. BoostComesAfter(todo)' <=> BoostComesAfter(todo')
    BY DEF BoostComesAfter
  <2>. QED  BY <1>1, <1>4, <2>1 DEF GamingOrder
<1>. QED  BY <1>5, <1>6

(* One write in DEFAULT mode: a tuner that nothing after it overrides      *)
(* leaves what it leaves on a fresh device.                                *)
LEMMA WriteDefaultKnobs ==
    ASSUME TypeOK, ModesInv, DefaultOrder, DefaultKnobs, WriteKnobs
    PROVE  DefaultKnobs'
<1>1. /\ UNCHANGED <<mEdition, mCurrentMode>> /\ pc = "writing" /\ Write
  BY DEF WriteKnobs, Write, profile, gameVars
<1>. SUFFICES ASSUME mCurrentMode = "DEFAULT", NEW k \in Restored,
                     \A t \in Pending' \intersect Tuners :
                         k \notin DOMAIN TunerWrites(t, get_profile(mEdition))
              PROVE  knobs'[k] = FreshDevice[mEdition][k]
  BY <1>1 DEF DefaultKnobs
<1>. DEFINE w == Head(todo)
            writes == TunerWrites(w, get_profile(mEdition))
<1>2. /\ w \in Pending /\ Pending' \subseteq Pending /\ Pending \subseteq Pending' \union {w}
  BY <1>1, WritePending DEF TypeOK
<1>3. /\ Len(todo) \in Nat \ {0} /\ w = todo[1]
      /\ \A i \in 2 .. Len(todo) : todo[i] \in Pending'
      /\ Pending = Elements(todo)
  BY <1>1, WriteTodo DEF TypeOK
<1>4. w \in Tuners \union {"mode", "game"} /\ BaseInOrder(todo)
  BY <1>1, <1>2, <1>3 DEF DefaultOrder
<1>5. WrittenProfile(w) = get_profile(mEdition) /\ mEdition \in Editions
  BY DEF WrittenProfile, ModesInv, GameConsistent, BaseIsActive, TypeOK, ProfileTypes
<1>6. k \in Knobs \ WriteOnce /\ k \in Knobs
  BY DEF Restored, OneWayKnobs
<1>7. /\ w \in {"mode", "game"} \/ k \notin DOMAIN writes => knobs'[k] = knobs[k]
      /\ w \notin {"mode", "game"} /\ k \in DOMAIN writes => knobs'[k] = writes[k]
  BY <1>5, <1>6, WriteEffect
<1>. HIDE DEF w
<1>8. CASE w \in {"mode", "game"} \/ k \notin DOMAIN writes
  <2>1. \A t \in Pending \intersect Tuners :
            k \notin DOMAIN TunerWrites(t, get_profile(mEdition))
    BY <1>2, <1>8 DEF Tuners
  <2>. QED  BY <1>1, <1>7, <1>8, <2>1 DEF DefaultKnobs
<1>9. CASE w \in Tuners /\ w \notin {"mode", "game"} /\ k \in DOMAIN writes
  <2>1. Len(BaseWrites) = 13 /\ \A i \in 1 .. 13 : BaseWrites[i] \in Tuners
    BY BaseOrder DEF Elements, BaseWrites
  <2>2. PICK i \in 1 .. 13 : BaseWrites[i] = w
    BY <1>9, <2>1, ListContents DEF Elements
  <2>3. i \in BaseWriters(mEdition, k)
    BY <1>9, <2>1, <2>2 DEF BaseWriters
  <2>4. ASSUME NEW j \in BaseWriters(mEdition, k) PROVE j <= i
    <3>1. /\ j \in 1 .. 13 /\ BaseWrites[j] \in Tuners
          /\ k \in DOMAIN TunerWrites(BaseWrites[j], get_profile(mEdition))
      BY <2>1 DEF BaseWriters
    <3>. SUFFICES ASSUME i < j PROVE FALSE
      BY <3>1
    <3>2. 1 \in 1 .. Len(todo) /\ i \in 1 .. 13 /\ j \in 1 .. 13 /\ todo[1] = BaseWrites[i]
      BY <1>3, <2>2, <3>1
    <3>3. PICK b \in 1 .. Len(todo) : 1 < b /\ todo[b] = BaseWrites[j]
      BY <1>4, <3>2 DEF BaseInOrder
    <3>4. b \in 2 .. Len(todo)
      BY <1>3, <3>3
    <3>5. todo[b] \in Pending'
      BY <1>3, <3>4
    <3>6. BaseWrites[j] \in Pending' \intersect Tuners
      BY <3>1, <3>3, <3>5
    <3>7. k \notin DOMAIN TunerWrites(BaseWrites[j], get_profile(mEdition))
      BY <3>6
    <3>. QED  BY <3>1, <3>7
  <2>5. (CHOOSE m \in BaseWriters(mEdition, k) : \A j \in BaseWriters(mEdition, k) : j <= m) = i
    <3>1. BaseWriters(mEdition, k) \subseteq Int
      BY <2>1 DEF BaseWriters
    <3>. HIDE DEF BaseWriters
    <3>2. \A m \in BaseWriters(mEdition, k) :
              (\A j \in BaseWriters(mEdition, k) : j <= m) => m = i
      BY <2>3, <2>4, <3>1
    <3>. QED  BY <2>3, <2>4, <3>2
  <2>6. FreshDevice[mEdition][k] = writes[k]
    BY <1>5, <1>6, <2>2, <2>3, <2>5 DEF FreshDevice
  <2>. QED  BY <1>7, <1>9, <2>6
<1>. QED  BY <1>4, <1>8, <1>9

(* A write does not reach what no tuner writes.                            *)
LEMMA WriteUnreached ==
    ASSUME TypeOK, UnreachedBoot, WriteKnobs
    PROVE  UnreachedBoot'
<1>. DEFINE w == Head(todo)
            p == WrittenProfile(w)
<1>1. Write /\ Len(todo) \in Nat \ {0} /\ w = todo[1] /\ todo \in Seq(Writes)
  BY WriteTodo DEF WriteKnobs, TypeOK, ControlTypes
<1>2. w \in Tuners \union {"cpuBoost", "touchBoost", "mode", "game"}
  BY <1>1, ElementOfSeq DEF Writes
<1>. HIDE DEF w, p
<1>3. ASSUME NEW k \in Restored, ~Reached(k) PROVE knobs'[k] = knobs[k]
  <2>1. k \in Knobs \ WriteOnce /\ k \notin OneWayKnobs
    BY DEF Restored, OneWayKnobs
  <2>2. w \in Tuners => k \notin DOMAIN TunerWrites(w, p)
    BY <1>3, <2>1, TunerDomain DEF Reached
  <2>3. w \in {"cpuBoost", "touchBoost"} => k \notin DOMAIN TunerWrites(w, p)
    BY <1>3, <2>1, BoostDomain DEF Reached, Tuners
  <2>4. w \in {"mode", "game"} \/ k \notin DOMAIN TunerWrites(w, p) => knobs'[k] = knobs[k]
    BY <2>1, WriteEffect DEF w, p
  <2>. QED  BY <1>2, <2>2, <2>3, <2>4
<1>4. ASSUME NEW k \in Restored, ~Reached(k)' PROVE ~Reached(k)
  BY <1>4 DEF Reached
<1>. QED  BY <1>3, <1>4 DEF UnreachedBoot

(* What a tuner that is called after a base profile leaves alone.          *)
LEMMA WriteApart ==
    ASSUME WriteKnobs, Head(todo) \in Elements(GamingWrites) \union {"Thermal"}
    PROVE  /\ Head(todo) # "Gpu" =>
                  \A k \in GraphicsKnobs \union {"input_boost"} :
                      Head(todo) # "cpuBoost" \/ k # "input_boost" => knobs'[k] = knobs[k]
           /\ Head(todo) \notin {"Cpu", "cpuBoost"} =>
                  \A k \in CpuKnobs : knobs'[k] = knobs[k]
           /\ Head(todo) = "cpuBoost" =>
                  \A k \in {"scaling_governor", "sched_energy_aware"} : knobs'[k] = knobs[k]
<1>. DEFINE w == Head(todo)
            p == WrittenProfile(w)
<1>1. w \in {"Cpu", "Gpu", "Memory", "Io", "Sched", "Display", "Network", "Thermal",
             "cpuBoost", "touchBoost", "mode", "game"}
  BY ListContents
<1>2. \A k \in CpuKnobs \union GraphicsKnobs :
          w \in {"mode", "game"} \/ k \notin DOMAIN TunerWrites(w, p) => knobs'[k] = knobs[k]
  <2>1. CpuKnobs \union GraphicsKnobs \subseteq Knobs \ WriteOnce
    BY DEF CpuKnobs, GraphicsKnobs, Knobs, WriteOnce
  <2>. QED  BY <2>1, WriteEffect
<1>. HIDE DEF w, p
<1>3. ASSUME w \notin {"Gpu", "Cpu", "cpuBoost"}, NEW k \in CpuKnobs \union GraphicsKnobs
      PROVE  knobs'[k] = knobs[k]
  <2>1. w \in {"mode", "game"} \/ k \notin DOMAIN TunerWrites(w, p)
    BY <1>1, <1>3, OthersApart, TunerCases
  <2>. QED  BY <1>2, <2>1
<1>4. ASSUME w = "Gpu", NEW k \in CpuKnobs PROVE knobs'[k] = knobs[k]
  <2>1. k \notin DOMAIN GpuTuner(p)
    BY GpuParts, Over DEF GpuTuner, CpuKnobs
  <2>. QED  BY <1>2, <1>4, <2>1, TunerCases
<1>5. ASSUME w = "Cpu", NEW k \in GraphicsKnobs \union {"input_boost"}
      PROVE  knobs'[k] = knobs[k]
  <2>1. k \notin DOMAIN CpuTuner(p)
    BY CpuValues DEF GraphicsKnobs
  <2>. QED  BY <1>2, <1>5, <2>1, TunerCases DEF CpuKnobs
<1>6. ASSUME w = "cpuBoost",
             NEW k \in GraphicsKnobs \union {"scaling_governor", "sched_energy_aware"}
      PROVE  knobs'[k] = knobs[k]
  <2>1. k \notin DOMAIN apply_boost(p)
    BY BoostValues DEF GraphicsKnobs
  <2>. QED  BY <1>2, <1>6, <2>1, TunerCases DEF CpuKnobs
<1>7. "input_boost" \in CpuKnobs
  BY DEF CpuKnobs
<1>8. w # "Gpu" => \A k \in GraphicsKnobs \union {"input_boost"} :
                      w # "cpuBoost" \/ k # "input_boost" => knobs'[k] = knobs[k]
  BY <1>3, <1>5, <1>6, <1>7
<1>9. w \notin {"Cpu", "cpuBoost"} => \A k \in CpuKnobs : knobs'[k] = knobs[k]
  BY <1>3, <1>4
<1>10. w = "cpuBoost" =>
          \A k \in {"scaling_governor", "sched_energy_aware"} : knobs'[k] = knobs[k]
  BY <1>6
<1>. QED  BY <1>8, <1>9, <1>10 DEF w

(* Writing the Gpu tuner with a gaming profile pins the graphics.          *)
LEMMA WriteGpuPins ==
    ASSUME WriteKnobs, Head(todo) = "Gpu", mActiveProfile.variant = "gaming"
    PROVE  GraphicsPinned'
<1>. DEFINE writes == GpuTuner(mActiveProfile)
<1>1. TunerWrites(Head(todo), WrittenProfile(Head(todo))) = writes
  BY TunerCases DEF WrittenProfile
<1>2. \A k \in GraphicsKnobs : k \in DOMAIN writes => knobs'[k] = writes[k]
  <2>1. GraphicsKnobs \subseteq Knobs \ WriteOnce
    BY DEF GraphicsKnobs, Knobs, WriteOnce
  <2>. QED  BY <1>1, <2>1, WriteEffect
<1>. HIDE DEF writes
<1>3. ASSUME NEW base \in GraphicsDevices
      PROVE  knobs'[base.governor] = "performance" /\ knobs'[base.min_freq] = "max"
  <2>1. CASE \E d \in {"gpubw", "mali", "pvr", "gpufreq"} \intersect Nodes : base = devfreq[d]
    <3>1. PICK d \in {"gpubw", "mali", "pvr", "gpufreq"} \intersect Nodes : base = devfreq[d]
      BY <2>1
    <3>2. {devfreq[d].governor, devfreq[d].min_freq} \subseteq GraphicsKnobs
      BY DEF devfreq, GraphicsKnobs
    <3>3. /\ {devfreq[d].governor, devfreq[d].min_freq} \subseteq DOMAIN writes
          /\ writes[devfreq[d].governor] = "performance"
          /\ writes[devfreq[d].min_freq] = "max"
      BY GpuGaming DEF writes
    <3>. QED  BY <1>2, <3>1, <3>2, <3>3
  <2>2. CASE base = devfreq.kgsl /\ "5000000.kgsl-3d0" \in Nodes
    <3>1. base.governor = "kgsl/governor" /\ base.min_freq = "kgsl/min_freq"
      BY <2>2 DEF devfreq
    <3>2. /\ {"kgsl/governor", "kgsl/min_freq"} \subseteq DOMAIN writes
          /\ writes["kgsl/governor"] = "performance"
          /\ writes["kgsl/min_freq"] = "max"
      BY <2>2, GpuGaming DEF writes
    <3>. QED  BY <1>2, <3>1, <3>2 DEF GraphicsKnobs
  <2>. QED  BY <2>1, <2>2 DEF GraphicsDevices
<1>4. "kgsl" \in Nodes =>
          /\ knobs'["kgsl/governor"] = "performance" /\ knobs'["kgsl/min_freq"] = "max"
          /\ knobs'["kgsl/pwrlevel"] = 0
  <2>. SUFFICES ASSUME "kgsl" \in Nodes
                PROVE  /\ knobs'["kgsl/governor"] = "performance"
                       /\ knobs'["kgsl/min_freq"] = "max"
                       /\ knobs'["kgsl/pwrlevel"] = 0
    OBVIOUS
  <2>1. /\ {"kgsl/governor", "kgsl/min_freq", "kgsl/pwrlevel"} \subseteq DOMAIN writes
        /\ writes["kgsl/governor"] = "performance"
        /\ writes["kgsl/min_freq"] = "max" /\ writes["kgsl/pwrlevel"] = 0
    BY GpuGaming DEF writes
  <2>. QED  BY <1>2, <2>1 DEF GraphicsKnobs
<1>5. "mali" \in Nodes =>
          knobs'["mali/power_policy"] = "always_on" /\ knobs'["mali/dvfs_enabled"] = 0
  <2>. SUFFICES ASSUME "mali" \in Nodes
                PROVE  /\ knobs'["mali/power_policy"] = "always_on"
                       /\ knobs'["mali/dvfs_enabled"] = 0
    OBVIOUS
  <2>1. /\ {"mali/power_policy", "mali/dvfs_enabled"} \subseteq DOMAIN writes
        /\ writes["mali/power_policy"] = "always_on" /\ writes["mali/dvfs_enabled"] = 0
    BY GpuGaming DEF writes
  <2>. QED  BY <1>2, <2>1 DEF GraphicsKnobs
<1>6. GraphicsDevices' = GraphicsDevices
  BY DEF GraphicsDevices, devfreq
<1>. QED  BY <1>3, <1>4, <1>5, <1>6 DEF GraphicsPinned

(* One write of a gaming profile.                                          *)
LEMMA WriteGamingKnobs ==
    ASSUME TypeOK, ModesInv, HardwareInv, GamingOrder, GamingKnobs, WriteKnobs
    PROVE  GamingKnobs'
<1>. SUFFICES ASSUME mCurrentMode' = "GAMING" PROVE GamingKnobs'
  BY DEF GamingKnobs
<1>. DEFINE w == Head(todo)
<1>1. Write /\ pc = "writing" /\ mCurrentMode = "GAMING"
  BY DEF WriteKnobs, Write, gameVars
<1>2. /\ w \in Pending /\ Pending' \subseteq Pending /\ Pending \subseteq Pending' \union {w}
  BY <1>1, WritePending DEF TypeOK
<1>3. w \in Elements(GamingWrites)
  BY <1>1, <1>2 DEF HardwareInv, GamingWritten
<1>4. mActiveProfile.variant = "gaming"
  BY <1>1 DEF ModesInv, GameConsistent
<1>5. w # "GpuSpoof" => WrittenProfile(w) = mActiveProfile
  BY DEF WrittenProfile
<1>6. {"scaling_governor", "sched_energy_aware", "schedtune.boost", "input_boost"}
          \subseteq Knobs \ WriteOnce
  BY DEF Knobs, WriteOnce
<1>7. "Gpu" \notin Pending' => GraphicsPinned'
  <2>1. CASE w = "Gpu"
    BY <1>4, <2>1, WriteGpuPins
  <2>2. CASE w # "Gpu"
    <3>. SUFFICES ASSUME "Gpu" \notin Pending' PROVE GraphicsPinned'
      OBVIOUS
    <3>1. GraphicsPinned
      BY <1>1, <1>2, <2>2 DEF GamingKnobs
    <3>2. \A k \in GraphicsKnobs : knobs'[k] = knobs[k]
      BY <1>3, <2>2, WriteApart DEF GraphicsKnobs
    <3>. QED  BY <3>1, <3>2, PinnedFrame
  <2>. QED  BY <2>1, <2>2
<1>8. "Cpu" \notin Pending' =>
          knobs'["scaling_governor"] = "performance" /\ knobs'["sched_energy_aware"] = 0
  <2>1. CASE w = "Cpu"
    <3>1. TunerWrites(w, WrittenProfile(w)) = CpuTuner(mActiveProfile)
      BY <1>5, <2>1, TunerCases
    <3>2. \A k \in {"scaling_governor", "sched_energy_aware"} :
              knobs'[k] = CpuTuner(mActiveProfile)[k]
      BY <1>6, <2>1, <3>1, CpuValues, WriteEffect
    <3>. QED  BY <1>4, <3>2, CpuValues
  <2>2. CASE w # "Cpu"
    <3>1. \A k \in {"scaling_governor", "sched_energy_aware"} : knobs'[k] = knobs[k]
      BY <1>3, <2>2, WriteApart DEF CpuKnobs
    <3>. QED  BY <1>1, <1>2, <2>2, <3>1 DEF GamingKnobs
  <2>. QED  BY <2>1, <2>2
<1>9. "cpuBoost" \notin Pending' =>
          knobs'["schedtune.boost"] = 15 /\ knobs'["input_boost"] = 5000
  <2>1. CASE w = "cpuBoost"
    <3>1. TunerWrites(w, WrittenProfile(w)) = apply_boost(mActiveProfile)
      BY <1>5, <2>1, TunerCases
    <3>2. \A k \in {"schedtune.boost", "input_boost"} :
              knobs'[k] = apply_boost(mActiveProfile)[k]
      BY <1>4, <1>6, <2>1, <3>1, BoostValues, WriteEffect
    <3>. QED  BY <1>4, <3>2, BoostValues
  <2>2. CASE w = "Cpu"
    <3>1. /\ Len(todo) \in Nat \ {0} /\ w = todo[1]
          /\ \A i \in 2 .. Len(todo) : todo[i] \in Pending'
      BY <1>1, WriteTodo DEF TypeOK
    <3>2. PICK b \in 1 .. Len(todo) : 1 < b /\ todo[b] = "cpuBoost"
      BY <1>1, <2>2, <3>1 DEF GamingOrder, BoostComesAfter
    <3>3. b \in 2 .. Len(todo)
      BY <3>1, <3>2
    <3>. QED  BY <3>1, <3>2, <3>3
  <2>3. CASE w \notin {"Cpu", "cpuBoost"}
    <3>1. \A k \in CpuKnobs : knobs'[k] = knobs[k]
      BY <1>3, <2>3, WriteApart
    <3>. QED  BY <1>1, <1>2, <2>3, <3>1 DEF GamingKnobs, CpuKnobs
  <2>. QED  BY <2>1, <2>2, <2>3
<1>. QED  BY <1>7, <1>8, <1>9 DEF GamingKnobs

(* One write of a throttled game.                                          *)
LEMMA WriteSustainedKnobs ==
    ASSUME TypeOK, HardwareInv, SustainedKnobs, WriteKnobs
    PROVE  SustainedKnobs'
<1>. SUFFICES ASSUME mCurrentMode' = "SUSTAINED" PROVE SustainedKnobs'
  BY DEF SustainedKnobs
<1>. DEFINE w == Head(todo)
<1>1. Write /\ mCurrentMode = "SUSTAINED"
  BY DEF WriteKnobs, Write, gameVars
<1>2. /\ w \in Pending /\ Pending' \subseteq Pending /\ Pending \subseteq Pending' \union {w}
  BY <1>1, WritePending DEF TypeOK
<1>3. w \in {"Cpu", "Thermal", "mode"} /\ mActiveProfile = SustainedProfile
  BY <1>1, <1>2, ListContents DEF HardwareInv, SustainedWritten
<1>4. w \in Elements(GamingWrites) \union {"Thermal"}
  BY <1>3, ListContents
<1>5. GraphicsPinned' /\ knobs'["input_boost"] = 5000
  <2>1. \A k \in GraphicsKnobs \union {"input_boost"} : knobs'[k] = knobs[k]
    BY <1>3, <1>4, WriteApart
  <2>. QED  BY <1>1, <2>1, PinnedFrame DEF SustainedKnobs
<1>6. "Cpu" \notin Pending' =>
          knobs'["scaling_governor"] = "schedutil" /\ knobs'["schedtune.boost"] = 5
  <2>1. CASE w = "Cpu"
    <3>1. TunerWrites(w, WrittenProfile(w)) = CpuTuner(SustainedProfile)
      BY <1>3, <2>1, TunerCases DEF WrittenProfile
    <3>2. {"scaling_governor", "schedtune.boost"} \subseteq Knobs \ WriteOnce
      BY DEF Knobs, WriteOnce
    <3>3. \A k \in {"scaling_governor", "schedtune.boost"} :
              knobs'[k] = CpuTuner(SustainedProfile)[k]
      BY <2>1, <3>1, <3>2, CpuValues, WriteEffect
    <3>4. SustainedProfile.variant # "gaming" /\ SustainedProfile.edition = "CASUAL"
      BY DEF SustainedProfile
    <3>. QED  BY <3>3, <3>4, CpuValues
  <2>2. CASE w # "Cpu"
    <3>1. \A k \in CpuKnobs : knobs'[k] = knobs[k]
      BY <1>3, <1>4, <2>2, WriteApart
    <3>. QED  BY <1>1, <1>2, <2>2, <3>1 DEF SustainedKnobs, CpuKnobs
  <2>. QED  BY <2>1, <2>2
<1>. QED  BY <1>5, <1>6 DEF SustainedKnobs

LEMMA WriteKeepsKnobs ==
    TypeOK /\ ModesInv /\ HardwareInv /\ KnobInv /\ WriteKnobs => KnobInv'
<1>. SUFFICES ASSUME TypeOK, ModesInv, HardwareInv, KnobInv, WriteKnobs PROVE KnobInv'
  OBVIOUS
<1>1. Write /\ UNCHANGED mCurrentMode
  BY DEF WriteKnobs, Write, gameVars
<1>2. DefaultOrder' /\ GamingOrder'
  BY <1>1, WriteOrder DEF TypeOK, KnobInv
<1>. QED
  BY <1>2, WriteUnreached, WriteDefaultKnobs, WriteGamingKnobs, WriteSustainedKnobs DEF KnobInv

(* The steps of the daemon that write nothing.                             *)
LEMMA DaemonKnobs ==
    TypeOK /\ ModesInv /\ KnobInv /\ DaemonControl /\ UNCHANGED knobs => KnobInv'
<1>. SUFFICES ASSUME TypeOK, ModesInv, KnobInv, DaemonControl, UNCHANGED knobs PROVE KnobInv'
  OBVIOUS
<1>1. ASSUME pc # "writing", NEW next \in Points \ {"writing"}, Goto(next), pc # "dead",
             UNCHANGED <<profile, gameVars>>
      PROVE  KnobInv'
  <2>1. Pending' = Pending /\ pc' = next
    BY <1>1, NonePending DEF Goto
  <2>. QED  BY <1>1, <2>1, FrameKnobs DEF profile, gameVars
<1>2. \A how : Exit(how) => KnobInv'
  BY GoneKnobs DEF Exit
<1>3. UnreachedBoot'
  BY DEF KnobInv, UnreachedBoot, Reached
<1>4. CASE ReadPersistent \/ LoopHead \/ WaitFails
  BY <1>1, <1>2, <1>4 DEF ReadPersistent, LoopHead, WaitFails, Points, LoopPoints
<1>5. CASE SetupEventLoop \/ EnterLoop
  BY <1>1, <1>5 DEF SetupEventLoop, EnterLoop, Points, LoopPoints
<1>6. CASE WaitInterrupted \/ WaitReturns \/ WaitTimer \/ NoThermalChange \/ SameForeground
  BY <1>1, <1>6 DEF WaitInterrupted, WaitReturns, WaitTimer, NoThermalChange,
     SameForeground, Points, LoopPoints
<1>7. CASE Recover
  <2>1. mGameDetected
    BY <1>7 DEF Recover, ModesInv, GameConsistent
  <2>2. EnterGaming(mCurrentGame) /\ Call(RecoverWrites, "foreground")
    BY <1>7, <2>1 DEF Recover
  <2>. QED  BY <2>2, EnterGamingKnobs DEF EnterGaming, Call
<1>8. CASE GameEnters
  <2>1. PICK g \in Games : Foreground(g) /\ EnterGaming(g)
    BY <1>8 DEF GameEnters
  <2>2. Call(GamingWrites, "edition")
    BY <1>8 DEF GameEnters
  <2>. QED  BY <2>1, <2>2, EnterGamingKnobs DEF EnterGaming, Call
<1>9. CASE RevertToBase
  <2>1. /\ mCurrentMode' = "DEFAULT" /\ pc' = "writing" /\ todo' = RevertWrites
        /\ mEdition' = mEdition /\ mEdition \in Editions
    BY <1>9 DEF RevertToBase, EnterBase, Call, TypeOK, ProfileTypes
  <2>. QED  BY <1>3, <2>1, BaseCallKnobs
<1>10. CASE ReadLevel
  <2>1. CASE detect_edition(level) = mEdition
    <3>1. Goto("head") /\ pc = "edition" /\ UNCHANGED <<profile, gameVars>>
      BY <1>10, <2>1 DEF ReadLevel, profile, gameVars
    <3>. QED  BY <1>1, <3>1 DEF Points, LoopPoints
  <2>2. CASE detect_edition(level) # mEdition /\ mGameDetected
    <3>1. Goto("head") /\ pc = "edition" /\ UNCHANGED mCurrentMode
      BY <1>10, <2>2 DEF ReadLevel
    <3>2. Pending' = Pending /\ pc' = "head"
      BY <3>1, NonePending DEF Goto
    <3>3. mCurrentMode # "DEFAULT"
      BY <2>2 DEF ModesInv, GameConsistent
    <3>. QED  BY <3>1, <3>2, <3>3, FrameKnobs
  <2>3. CASE detect_edition(level) # mEdition /\ ~mGameDetected
    <3>1. /\ mCurrentMode' = "DEFAULT" /\ pc' = "writing" /\ todo' = BaseWrites
          /\ mEdition' = detect_edition(level)
      BY <1>10, <2>3 DEF ReadLevel, Call
    <3>2. mEdition' \in Editions
      BY <3>1 DEF detect_edition, Editions
    <3>. QED  BY <1>3, <3>1, <3>2, BaseCallKnobs
  <2>. QED  BY <2>1, <2>2, <2>3
<1>11. CASE Throttle
  BY <1>11, ThrottleKnobs
<1>. QED
  BY <1>4, <1>5, <1>6, <1>7, <1>8, <1>9, <1>10, <1>11 DEF DaemonControl

LEMMA InitProcessKnobs ==
    TypeOK /\ KnobInv /\ InitProcess /\ UNCHANGED knobs => KnobInv'
<1>. SUFFICES ASSUME TypeOK, KnobInv, InitProcess, UNCHANGED knobs PROVE KnobInv'
  OBVIOUS
<1>1. StayAsIs => KnobInv'
  BY FrameKnobs DEF StayAsIs, control, Pending, profile, gameVars
<1>2. \A next : Die(next) => KnobInv'
  BY GoneKnobs DEF Die
<1>3. CASE InitStart \/ InitStop \/ Respawn
  BY <1>1, <1>2, <1>3, LaunchKnobs DEF InitStart, InitStop, Respawn, Trigger
<1>4. CASE InitRestart
  BY <1>1, <1>2, <1>4, LaunchKnobs DEF InitRestart, Trigger, TypeOK, ServiceTypes
<1>. QED  BY <1>3, <1>4 DEF InitProcess

LEMMA WorldKnobs == KnobInv /\ WorldEvent /\ UNCHANGED knobs => KnobInv'
<1>. SUFFICES ASSUME KnobInv, WorldEvent, UNCHANGED knobs PROVE KnobInv'
  OBVIOUS
<1>1. CASE ForegroundChanges \/ TemperatureChanges \/ SetLevel \/ SetPersistent \/ Sigterm
  <2>1. UNCHANGED <<control, profile, gameVars>>
    BY <1>1 DEF ForegroundChanges, TemperatureChanges, SetLevel, SetPersistent, Sigterm
  <2>. QED  BY <2>1, FrameKnobs DEF control, Pending, profile, gameVars
<1>2. CASE Kill
  BY <1>2, GoneKnobs DEF Kill, Die
<1>. QED  BY <1>1, <1>2 DEF WorldEvent

LEMMA RebootKeepsKnobs == KnobInv /\ RebootKnobs => KnobInv'
<1>. SUFFICES ASSUME KnobInv, RebootKnobs PROVE KnobInv'
  OBVIOUS
<1>1. \A k \in Knobs : knobs'[k] \in {knobs[k], Boot}
  BY DEF RebootKnobs
<1>. QED  BY <1>1, GoneKnobs DEF RebootKnobs, Reboot, Die

-----------------------------------------------------------------------------
(* The theorems.                                                           *)

(* The daemon with its knobs is the daemon.                                *)
LEMMA KnobsRefine == KnobSpec => Spec
<1>1. KnobInit => Init
  BY DEF KnobInit
<1>2. [KnobNext]_knobVars => [Next]_vars
  BY DEF KnobNext, knobVars, WriteKnobs, RebootKnobs, Next, Daemon, World
<1>. QED  BY <1>1, <1>2, PTL DEF KnobSpec, Spec

(* The inductive invariant behind the theorems about the knobs.            *)
THEOREM KnobsInductive == KnobSpec => []KnobInv
<1>1. TypeOK /\ ModesInv /\ HardwareInv /\ KnobInv /\ [KnobNext]_knobVars => KnobInv'
  <2>. SUFFICES ASSUME TypeOK, ModesInv, HardwareInv, KnobInv, [KnobNext]_knobVars
                PROVE  KnobInv'
    OBVIOUS
  <2>1. CASE UNCHANGED knobVars
    BY <2>1, FrameKnobs DEF knobVars, vars, control, Pending, profile, gameVars
  <2>. QED
    BY <2>1, WriteKeepsKnobs, DaemonKnobs, InitProcessKnobs, WorldKnobs, RebootKeepsKnobs
    DEF KnobNext
<1>. QED
  BY <1>1, InitKnobs, KnobsRefine, TypeCorrect, ModesInductive, HardwareInductive, PTL
  DEF KnobSpec

(* BaseRestoresDevice: on any device, the knobs a base profile restores    *)
(* are in DEFAULT mode what a fresh boot with the edition leads to,        *)
(* whatever games, throttling, changes of edition and crashes came before. *)
THEOREM BaseRestores == KnobSpec => []BaseRestoresDevice
<1>1. KnobInv => BaseRestoresDevice
  BY LoopPending DEF KnobInv, DefaultKnobs, Restored, BaseRestoresDevice
<1>. QED  BY <1>1, KnobsInductive, PTL

(* GamingDevice: whatever graphics devices there are, a game has them      *)
(* pinned at their maximum, with the performance governor and the boosts.  *)
THEOREM GamingKnobsHeld == KnobSpec => []GamingDevice
<1>1. KnobInv => GamingDevice
  BY LoopPending DEF KnobInv, GamingKnobs, GamingDevice
<1>. QED  BY <1>1, KnobsInductive, PTL

(* SustainedDevice: throttling sets back the CPU governor and nothing of   *)
(* the graphics or of the input boost.                                     *)
THEOREM SustainedKnobsHeld == KnobSpec => []SustainedDevice
<1>1. KnobInv => SustainedDevice
  BY LoopPending DEF KnobInv, SustainedKnobs, SustainedDevice
<1>. QED  BY <1>1, KnobsInductive, PTL
=============================================================================
