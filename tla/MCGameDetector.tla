--------------------------- MODULE MCGameDetector ---------------------------
(***************************************************************************)
(* Instances of the scan for TLC.                                          *)
(***************************************************************************)
EXTENDS GameDetector

CONSTANTS g1, a1, zygote, none

(* One pid the scan skips and two it looks at.                             *)
MCPids == {100, 101, 102}

(* A persistent system application, the foreground, the background.        *)
MCAdjs == {-800, 0, 200}

MCTwoAdjs == {-800, 0}
=============================================================================
