----------------------------- MODULE MCRepoPick -----------------------------
(***************************************************************************)
(* Instances of the pool for TLC: two projects with three changes and one, *)
(* and two threads.                                                        *)
(***************************************************************************)
EXTENDS RepoPick

CONSTANTS kernel, device

MCPlace == [p \in {kernel, device} |-> IF p = kernel THEN 1 ELSE 2]
MCCount == [p \in {kernel, device} |-> IF p = kernel THEN 3 ELSE 1]
MCPickedSets == {{}, {<<kernel, 2>>}}
=============================================================================
