--------------------------- MODULE MCThermalZones ---------------------------
(***************************************************************************)
(* Instances of the thermal zones for TLC.                                 *)
(***************************************************************************)
EXTENDS ThermalZones

CONSTANTS unreadable, garbage

(* Below zero, and a temperature.                                          *)
MCMilli == {-5000, 40000}

(* Two temperatures, to tell zones apart.                                  *)
MCWarmMilli == {40000, 55000}

MCTenths == {310}
=============================================================================
