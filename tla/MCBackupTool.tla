---------------------------- MODULE MCBackupTool ----------------------------
(***************************************************************************)
(* Instances of the recovery's backup for TLC: 50-scandium.sh between two  *)
(* other add-ons: one lists the hosts file too, and vendor files that it   *)
(* cannot reach; one has a library in a partition of its own.              *)
(***************************************************************************)
EXTENDS BackupTool

CONSTANTS old, new, other, cookie, hosts, app, lib, blob, odexed, launcher, vendor

MCVersion == <<1, 2, 3>>
MCLists == <<{blob, odexed, hosts}, {hosts}, {app, lib}>>
MCObsolete == [f \in Files |-> IF f = app THEN {launcher} ELSE {}]
MCPartition == [f \in Files |-> IF f \in {lib, blob} THEN vendor ELSE "system"]

(* Every build has a hosts file, a launcher and the script 50-scandium.sh. *)
MCStock == [i \in Images |-> {hosts, launcher}]
MCStockScripts == [i \in Images |-> {2}]

(* The new build has its vendor files in the system.                       *)
MCSeparate == [i \in Images |-> IF i = new THEN {} ELSE {vendor}]
=============================================================================
