-------------------------- MODULE MCScandiumPerfd --------------------------
(***************************************************************************)
(* Instances of the daemon for TLC.                                        *)
(***************************************************************************)
EXTENDS ScandiumPerfdProperties, TLC

CONSTANTS g1, g2, a1, none

(* No reading, recovering from SUSTAINED, hot for ACADEMY, hot for all.     *)
MCTemps == {-1, 26, 40, 50}

(* Cool, and exactly at CASUAL's threshold.                                *)
MCLivenessTemps == {26, 42}

(* Cool, and exactly at the threshold of each edition.                     *)
MCThermalTemps == {26, 38, 42, 50}

GameSymmetry == Permutations({g1, g2})
=============================================================================
