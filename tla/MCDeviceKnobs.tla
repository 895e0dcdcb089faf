--------------------------- MODULE MCDeviceKnobs ---------------------------
(***************************************************************************)
(* Instances of the daemon with the knobs of the device for TLC.           *)
(***************************************************************************)
EXTENDS DeviceKnobs

CONSTANTS g1, a1, none, boot

(* Cool, and hot for every edition.                                        *)
MCKnobTemps == {26, 50}

(* A device with everything the code looks for but bbr: each kind of       *)
(* graphics device has knobs of its own.                                   *)
MCNodes == {"kgsl", "adreno_idler", "mali", "pvr", "gpufreq", "5000000.kgsl-3d0",
            "gpubw", "f2fs", "ext4"}
=============================================================================
