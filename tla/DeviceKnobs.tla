---------------------------- MODULE DeviceKnobs ----------------------------
(***************************************************************************)
(* The daemon together with the knobs of the device: every write of        *)
(* ScandiumPerfd is carried out with the values of module Tuners.  Where   *)
(* ScandiumPerfd says which profile a tuner was last given, this module    *)
(* says what that has made of the device.                                  *)
(***************************************************************************)
EXTENDS ScandiumPerfdProperties, Tuners

VARIABLE knobs

knobVars == <<vars, knobs>>

(* The profile a write is made from.                                       *)
WrittenProfile(w) == IF w = "GpuSpoof" THEN get_profile(mEdition) ELSE mActiveProfile

WriteKnobs ==
    /\ Write
    /\ LET w == Head(todo) IN
       knobs' = IF w \in {"mode", "game"}
                THEN knobs
                ELSE Written(knobs, TunerWrites(w, WrittenProfile(w)))

RebootKnobs ==
    /\ Reboot
    /\ knobs' = [k \in Knobs |-> IF k \in Persist THEN knobs[k] ELSE Boot]

KnobInit == Init /\ knobs = BootKnobs

KnobNext ==
    \/ WriteKnobs
    \/ RebootKnobs
    \/ (DaemonControl \/ InitProcess \/ WorldEvent) /\ UNCHANGED knobs

KnobSpec == KnobInit /\ [][KnobNext]_knobVars

-----------------------------------------------------------------------------

(* What the device has just after a boot and the base profile of edition e,*)
(* apart from the properties that can be set once: a knob holds what the   *)
(* last of the writes gave it.                                             *)
BaseWriters(e, k) ==
    {i \in 1 .. Len(BaseWrites) :
        k \in DOMAIN TunerWrites(BaseWrites[i], get_profile(e))}

FreshDevice ==
    [e \in Editions |-> [k \in Knobs |->
        IF BaseWriters(e, k) = {}
        THEN Boot
        ELSE LET last == CHOOSE i \in BaseWriters(e, k) :
                             \A j \in BaseWriters(e, k) : j <= i
             IN  TunerWrites(BaseWrites[last], get_profile(e))[k]]]

(* The knobs that some profile writes and that applying the base profile   *)
(* of the edition does not bring back: written on one side of a condition  *)
(* only, by the boosts, or once for all.                                   *)
OneWayKnobs ==
    WriteOnce \union
    {"schedutil/hispeed", "input_boost", "cpu.boost_active", "touch_boost",
     "kgsl/min_freq", "gpubw/min_freq", "mali/min_freq", "pvr/min_freq",
     "gpufreq/min_freq", "kgsl/pwrlevel", "adreno_idler_idleworkload",
     "gpu.spoof", "debug.hwui", "aniso_filter+vulkan.deferred",
     "zram/comp_algorithm", "zram/reset", "ksm/pages_to_scan",
     "irq/smp_affinity", "rps_sock_flow_entries"}

(* Apart from those, a device in DEFAULT mode is in the state a fresh boot *)
(* with its edition leads to, whatever games, throttling, changes of       *)
(* edition and crashes it has been through.  (SurfaceFlinger's tiling is   *)
(* written by two tuners: the order of the calls decides.)                 *)
BaseRestoresDevice ==
    AtLoop /\ mCurrentMode = "DEFAULT"
        => \A k \in Knobs \ OneWayKnobs : knobs[k] = FreshDevice[mEdition][k]

(* The devices under /sys/class/devfreq that one of the functions finds.   *)
GraphicsDevices ==
    {devfreq[d] : d \in {"gpubw", "mali", "pvr", "gpufreq"} \intersect Nodes}
    \union (IF "5000000.kgsl-3d0" \in Nodes THEN {devfreq.kgsl} ELSE {})

(* Every graphics device and its bus, whatever function tuned it, is       *)
(* pinned at its maximum clock.                                            *)
GraphicsPinned ==
    /\ \A base \in GraphicsDevices :
          knobs[base.governor] = "performance" /\ knobs[base.min_freq] = "max"
    /\ "kgsl" \in Nodes =>
          /\ knobs["kgsl/governor"] = "performance" /\ knobs["kgsl/min_freq"] = "max"
          /\ knobs["kgsl/pwrlevel"] = 0
    /\ "mali" \in Nodes =>
          knobs["mali/power_policy"] = "always_on" /\ knobs["mali/dvfs_enabled"] = 0

(* While a game runs unthrottled, the graphics clock is pinned at its      *)
(* maximum, the governors are the performance ones and input boost is on.  *)
GamingDevice ==
    AtLoop /\ mCurrentMode = "GAMING"
        => /\ GraphicsPinned
           /\ knobs["scaling_governor"] = "performance"
           /\ knobs["schedtune.boost"] = 15 /\ knobs["input_boost"] = 5000
           /\ knobs["sched_energy_aware"] = 0

(* A throttled game gets the ordinary CPU governor back but keeps the      *)
(* graphics at full clock, and the input boost stays on.                   *)
SustainedDevice ==
    AtLoop /\ mCurrentMode = "SUSTAINED"
        => /\ knobs["scaling_governor"] = "schedutil" /\ knobs["schedtune.boost"] = 5
           /\ GraphicsPinned /\ knobs["input_boost"] = 5000
=============================================================================
