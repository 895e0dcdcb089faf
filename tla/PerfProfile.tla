---------------------------- MODULE PerfProfile ----------------------------
(***************************************************************************)
(* The editions, the modes and the performance profiles of scandiumd       *)
(* (include/PerfProfile.h and the profile functions at the end of          *)
(* ScandiumPerfd.cpp).                                                     *)
(*                                                                         *)
(* A profile is named by the edition it was built for and by the variant   *)
(* of it that was built: "base" (get_profile), "gaming"                    *)
(* (get_gaming_profile) or "sustained" (the copy that switch_mode adjusts).*)
(* Section says which sections a variant takes over unchanged from its     *)
(* edition's profile; the values inside the sections are in module Tuners. *)
(***************************************************************************)
EXTENDS Integers

Editions  == {"ACADEMY", "CASUAL", "PROFESSIONAL"}
PerfModes == {"DEFAULT", "GAMING", "BATTERY_SAVER", "SUSTAINED"}

(* The values of persist.scandium.perf.level the build files set.          *)
Levels == {"efficient", "balanced", "aggressive"}

(* The property value is turned into an edition; any value that is not one *)
(* of the two named ones is CASUAL.                                        *)
detect_edition(level) ==
    CASE level = "aggressive" -> "PROFESSIONAL"
      [] level = "efficient"  -> "ACADEMY"
      [] OTHER                -> "CASUAL"

-----------------------------------------------------------------------------

(* One section of a profile for each tuner that is handed one, in the      *)
(* order apply_base_profile calls them; GpuSpoof takes the edition.        *)
Tuners == {"Cpu", "Gpu", "GpuSpoof", "Memory", "Io", "Thermal", "Network",
           "Sched", "Display", "Kernel", "Fs", "Irq", "Lmk"}

Profiles == [edition : Editions, variant : {"base", "gaming", "sustained"}]

get_profile(edition) == [edition |-> edition, variant |-> "base"]

get_gaming_profile(edition) == [edition |-> edition, variant |-> "gaming"]

(* switch_mode(SUSTAINED): CASUAL's profile, whatever the edition, with a  *)
(* threshold five degrees lower (sched_boost is set to 1, which it is).    *)
SustainedProfile == [edition |-> "CASUAL", variant |-> "sustained"]

(* The sections a variant changes in its edition's profile.                *)
ChangedSections(variant) ==
    CASE variant = "base"      -> {}
      [] variant = "gaming"    -> {"Cpu", "Gpu", "Memory", "Io", "Sched", "Display"}
      [] variant = "sustained" -> {"Thermal"}

(* What section t of profile p holds.                                      *)
Section(p, t) ==
    IF t \in ChangedSections(p.variant) THEN p ELSE get_profile(p.edition)

BaseThrottle == [ACADEMY |-> 38, CASUAL |-> 42, PROFESSIONAL |-> 50]

(* p.thermal.throttle_temp, in degrees Celsius.                            *)
throttle_temp(p) ==
    IF p.variant = "sustained" THEN BaseThrottle["CASUAL"] - 5
                               ELSE BaseThrottle[p.edition]
=============================================================================
