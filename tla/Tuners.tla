------------------------------- MODULE Tuners -------------------------------
(***************************************************************************)
(* What each tuner of scandiumd writes.  A knob is a file of sysfs or proc *)
(* or a system property, or a group of them that is always written         *)
(* together.  The value of a group is the profile section it was copied    *)
(* from; the fields that decide whether or what something else is written  *)
(* have the values of the source.                                          *)
(*                                                                         *)
(* A tuner is a function from the knobs it writes to the values it writes. *)
(* Many write a knob for some profiles only: the domain then depends on    *)
(* the profile, and a knob outside it keeps what an earlier call left.     *)
(***************************************************************************)
EXTENDS PerfProfile

CONSTANTS
    Boot,     \* the value of a knob nothing has written since the boot
    Nodes     \* what the device has of the things the code looks for

(* The graphics devices the code knows, the bbr congestion control, and    *)
(* the file systems in /proc/mounts.                                       *)
ASSUME NodesAssumption ==
    Nodes \subseteq {"kgsl", "adreno_idler", "mali", "pvr", "gpufreq",
                     "5000000.kgsl-3d0", "gpubw", "bbr", "f2fs", "ext4"}

PerEdition(academy, casual, professional) ==
    [ACADEMY |-> academy, CASUAL |-> casual, PROFESSIONAL |-> professional]

Gaming(p) == p.variant = "gaming"

(* The fields of a profile that control what is written.                   *)
sched_boost(p)       == IF Gaming(p) THEN 2 ELSE PerEdition(0, 1, 2)[p.edition]
boost_duration_ms(p) == IF Gaming(p) THEN 5000 ELSE PerEdition(0, 500, 2000)[p.edition]
energy_aware(p)      == ~Gaming(p) /\ p.edition # "PROFESSIONAL"
governor(p)          == IF Gaming(p) THEN 2 ELSE PerEdition(0, 1, 2)[p.edition]
force_max_clock(p)   == Gaming(p) \/ p.edition = "PROFESSIONAL"
adreno_idler_active(p) == ~Gaming(p) /\ p.edition # "PROFESSIONAL"
adreno_idler_delay(p) == PerEdition(15, 10, 0)[p.edition]
zram_enabled(p)      == p.edition # "PROFESSIONAL"
swappiness(p)        == PerEdition(100, 60, 10)[p.edition]
refresh_rate(p)      == PerEdition(60, 90, 120)[p.edition]
gpu_comp_tiling(p)   == PerEdition(0, 1, 1)[p.edition]
touch_boost_duration_ms(p) ==
    IF Gaming(p) THEN PerEdition(0, 500, 5000)[p.edition]
                 ELSE PerEdition(0, 500, 2000)[p.edition]
tcp_congestion(p)    == PerEdition("cubic", "bbr", "bbr")[p.edition]
trip_point_0(p)      == 1000 * BaseThrottle[p.edition]
balance_irqs(p)      == p.edition # "ACADEMY"
rfs_enabled(p)       == p.edition # "ACADEMY"

(* Nothing is written; a value is written to a knob; first b is written,   *)
(* then a.  (TLC's :> and @@, which a proof could not look into.)          *)
Nothing == [k \in {} |-> Boot]

knob := value == [k \in {knob} |-> value]

a ++ b == [k \in DOMAIN a \union DOMAIN b |-> IF k \in DOMAIN a THEN a[k] ELSE b[k]]

When(condition, writes) == IF condition THEN writes ELSE Nothing

-----------------------------------------------------------------------------

CpuTuner(p) ==
    ("cpusets+uclamp+migration" := Section(p, "Cpu"))
    ++ ("schedtune.boost" := 5 * sched_boost(p))
    ++ ("sched_energy_aware" := IF energy_aware(p) THEN 1 ELSE 0)
    ++ When(sched_boost(p) = 2, "schedutil/hispeed" := "max")
    ++ ("scaling_governor" := <<"powersave", "schedutil", "performance">>[sched_boost(p) + 1])

apply_boost(p) ==
    When(boost_duration_ms(p) > 0,
        ("schedtune.boost" := 15)
        ++ ("input_boost" := boost_duration_ms(p))
        ++ ("cpu.boost_active" := "true"))

tune_adreno_idler(p) ==
    ("adreno_idler_active" := adreno_idler_active(p))
    ++ When(adreno_idler_active(p), "adreno_idler_idleworkload" := adreno_idler_delay(p))

(* Adreno.  (The comment before the last write has swallowed the condition *)
(* of it.)                                                                 *)
set_adreno(p) ==
    When("kgsl" \in Nodes,
        When("adreno_idler" \in Nodes, tune_adreno_idler(p))
        ++ ("kgsl/governor" := <<"powersave", "msm-adreno-tz", "performance">>[governor(p) + 1])
        ++ When(force_max_clock(p), "kgsl/min_freq" := "max")
        ++ ("throttling+bus+force_on+idle_timer" := Section(p, "Gpu"))
        ++ When(governor(p) = 2, "kgsl/pwrlevel" := 0)
        ++ ("adrenoboost" := 2))

(* The files of a graphics device under /sys/class/devfreq.                *)
devfreq ==
    [kgsl    |-> [governor |-> "kgsl/governor", min_freq |-> "kgsl/min_freq",
                  polling_interval |-> "kgsl/polling_interval"],
     gpubw   |-> [governor |-> "gpubw/governor", min_freq |-> "gpubw/min_freq",
                  polling_interval |-> "gpubw/polling_interval"],
     mali    |-> [governor |-> "mali/governor", min_freq |-> "mali/min_freq",
                  polling_interval |-> "mali/polling_interval"],
     pvr     |-> [governor |-> "pvr/governor", min_freq |-> "pvr/min_freq",
                  polling_interval |-> "pvr/polling_interval"],
     gpufreq |-> [governor |-> "gpufreq/governor", min_freq |-> "gpufreq/min_freq",
                  polling_interval |-> "gpufreq/polling_interval"]]

tune_gpu_devfreq(base, p) ==
    (base.governor := <<"powersave", "simple_ondemand", "performance">>[governor(p) + 1])
    ++ When(force_max_clock(p), base.min_freq := "max")
    ++ (base.polling_interval := IF governor(p) = 2 THEN 10 ELSE 50)

set_mali(p) ==
    When("mali" \in Nodes,
        ("mali/power_policy" := IF governor(p) = 2 THEN "always_on" ELSE "demand")
        ++ ("mali/dvfs_enabled" := IF governor(p) = 2 THEN 0 ELSE 1)
        ++ tune_gpu_devfreq(devfreq.mali, p))

set_powervr(p) == When("pvr" \in Nodes, tune_gpu_devfreq(devfreq.pvr, p))

(* Mutant: the bus governor is set for performance and never back.         *)
set_genericKeepsBus(p) ==
    When("gpubw" \in Nodes,
        When(governor(p) = 2, "gpubw/governor" := "performance")
        ++ ("gpubw/polling_interval" := IF governor(p) = 2 THEN 10 ELSE 50))
    ++ When("5000000.kgsl-3d0" \in Nodes, tune_gpu_devfreq(devfreq.kgsl, p))

(* Any vendor's, among them the memory bus of an Adreno, which has its own *)
(* governors, and the Adreno itself under another name: the governor that  *)
(* set_adreno chose is written over.                                       *)
set_generic(p) ==
    When("gpubw" \in Nodes,
        ("gpubw/governor" := IF governor(p) = 2 THEN "performance" ELSE "bw_vbif")
        ++ tune_gpu_devfreq(devfreq.gpubw, p))
    ++ When("5000000.kgsl-3d0" \in Nodes, tune_gpu_devfreq(devfreq.kgsl, p))
    ++ When("gpufreq" \in Nodes, tune_gpu_devfreq(devfreq.gpufreq, p))

(* All four are tried, whatever the others found.                          *)
GpuTuner(p) == set_generic(p) ++ set_powervr(p) ++ set_mali(p) ++ set_adreno(p)

(* GpuSpoof::apply takes the edition; p is its base profile.               *)
GpuSpoof(p) ==
    ("gpu.msaa+vulkan+shader_cache+texture_quality" := p.edition)
    ++ ("force_msaa+hwui.renderer" := p.edition)
    ++ When(p.edition # "ACADEMY",
           ("gpu.spoof" := PerEdition("none", "Adreno_730", "Adreno_750")[p.edition])
           ++ ("debug.hwui" := p.edition)
           ++ ("ro.opengles.version" := PerEdition(0, 196609, 196610)[p.edition]))
    ++ When(p.edition = "PROFESSIONAL", "aniso_filter+vulkan.deferred" := "on")
    ++ ("sf.gpu_comp_tiling" := 1)

MemoryTuner(p) ==
    ("vm" := Section(p, "Memory"))
    ++ (IF zram_enabled(p) THEN "zram/comp_algorithm" := "lz4" ELSE "zram/reset" := 1)
    ++ ("transparent_hugepage" := IF swappiness(p) <= 10 THEN "always" ELSE "madvise")
    ++ ("ksm/run" := IF swappiness(p) >= 80 THEN 1 ELSE 0)
    ++ When(swappiness(p) >= 80, "ksm/pages_to_scan" := 100)

IoTuner(p) == "block_queues" := Section(p, "Io")

(* set_throttle_threshold writes the first trip point of zone 0, and       *)
(* configure_trip_points then writes that of every zone.                   *)
ThermalMonitor(p) ==
    ("thermal.threshold" := throttle_temp(p))
    ++ ("zone0/trip_point_0" := trip_point_0(p))
    ++ ("zone0/trip_point_0" := 1000 * throttle_temp(p))
    ++ ("trip_points+polling" := get_profile(p.edition))
    ++ ("thermal.adaptive" := get_profile(p.edition))

(* cubic is written over bbr when the kernel does not list bbr.            *)
NetworkTuner(p) ==
    When(tcp_congestion(p) = "bbr" /\ "bbr" \notin Nodes, "tcp_congestion_control" := "cubic")
    ++ ("tcp_congestion_control" := tcp_congestion(p))
    ++ ("tcp" := Section(p, "Network"))

SchedTuner(p) == "cfs+autogroup+perf_event" := Section(p, "Sched")

(* surface_flinger's timers are ro properties, chosen by the refresh rate. *)
DisplayTuner(p) ==
    ("sf.gpu_comp_tiling" := gpu_comp_tiling(p))
    ++ ("phase_offsets+backpressure" := p.edition)
    ++ ("ro.surface_flinger_timers" := refresh_rate(p))
    ++ ("display.refresh_rate" := refresh_rate(p))

apply_touch_boost(p) ==
    When(touch_boost_duration_ms(p) > 0, "touch_boost" := touch_boost_duration_ms(p))

KernelTuner(p) == "kernel+random+rt" := p.edition

has_f2fs == "f2fs" \in Nodes
has_ext4 == "ext4" \in Nodes

FsOptimizer(p) ==
    When(has_f2fs, "f2fs" := p.edition)
    ++ When(has_ext4, "dir-notify-enable" := 0)
    ++ ("inotify+file_limits" := p.edition)

InterruptBalancer(p) ==
    When(balance_irqs(p), "irq/smp_affinity" := p.edition)
    ++ ("rps+xps" := p.edition)
    ++ When(rfs_enabled(p), "rps_sock_flow_entries" := p.edition)

(* All of lmkd's settings are ro properties.                               *)
LmkTuner(p) == "ro.lmk" := p.edition

-----------------------------------------------------------------------------

TunerWrites(t, p) ==
    CASE t = "Cpu"        -> CpuTuner(p)
      [] t = "Gpu"        -> GpuTuner(p)
      [] t = "GpuSpoof"   -> GpuSpoof(p)
      [] t = "Memory"     -> MemoryTuner(p)
      [] t = "Io"         -> IoTuner(p)
      [] t = "Thermal"    -> ThermalMonitor(p)
      [] t = "Network"    -> NetworkTuner(p)
      [] t = "Sched"      -> SchedTuner(p)
      [] t = "Display"    -> DisplayTuner(p)
      [] t = "Kernel"     -> KernelTuner(p)
      [] t = "Fs"         -> FsOptimizer(p)
      [] t = "Irq"        -> InterruptBalancer(p)
      [] t = "Lmk"        -> LmkTuner(p)
      [] t = "cpuBoost"   -> apply_boost(p)
      [] t = "touchBoost" -> apply_touch_boost(p)

(* A property whose name begins with ro. keeps the first value it is given.*)
WriteOnce == {"ro.opengles.version", "ro.surface_flinger_timers", "ro.lmk"}

(* One whose name begins with persist. is there again after a reboot.      *)
Persist == {"cpu.boost_active", "touch_boost", "display.refresh_rate",
            "gpu.spoof", "gpu.msaa+vulkan+shader_cache+texture_quality",
            "aniso_filter+vulkan.deferred", "thermal.threshold", "thermal.adaptive"}

Knobs == WriteOnce \union Persist \union
    {"cpusets+uclamp+migration", "schedtune.boost", "sched_energy_aware",
     "schedutil/hispeed", "scaling_governor", "input_boost",
     "kgsl/governor", "kgsl/min_freq", "kgsl/polling_interval",
     "gpubw/governor", "gpubw/min_freq", "gpubw/polling_interval",
     "mali/governor", "mali/min_freq", "mali/polling_interval",
     "mali/power_policy", "mali/dvfs_enabled",
     "pvr/governor", "pvr/min_freq", "pvr/polling_interval",
     "gpufreq/governor", "gpufreq/min_freq", "gpufreq/polling_interval",
     "throttling+bus+force_on+idle_timer", "adreno_idler_active",
     "adreno_idler_idleworkload", "kgsl/pwrlevel", "adrenoboost",
     "force_msaa+hwui.renderer", "debug.hwui", "sf.gpu_comp_tiling", "vm",
     "zram/comp_algorithm", "zram/reset", "transparent_hugepage", "ksm/run",
     "ksm/pages_to_scan", "block_queues",
     "zone0/trip_point_0", "trip_points+polling",
     "tcp_congestion_control", "tcp", "cfs+autogroup+perf_event",
     "phase_offsets+backpressure",
     "kernel+random+rt", "f2fs", "dir-notify-enable", "inotify+file_limits", "irq/smp_affinity",
     "rps+xps", "rps_sock_flow_entries"}

BootKnobs == [k \in Knobs |-> Boot]

(* The knobs after the writes.                                             *)
Written(knobs, writes) ==
    [k \in Knobs |->
        IF k \notin DOMAIN writes \/ (k \in WriteOnce /\ knobs[k] # Boot)
        THEN knobs[k]
        ELSE writes[k]]
=============================================================================
