--------------------------- MODULE MCBackupToolAB ---------------------------
(***************************************************************************)
(* Instances of the backup for two slots for TLC: 50-scandium.sh and three *)
(* add-ons, with files in the system and in two partitions.                *)
(***************************************************************************)
EXTENDS BackupToolAB

CONSTANTS old, new, other, hosts, app, lib, overlay, tweak, odexed, launcher, vendor, product

MCVersion == <<3, 2, 1, 2>>
MCLists == <<{app, lib, overlay}, {hosts}, {tweak}, {odexed, overlay, tweak}>>
MCObsolete == [f \in Files |-> IF f = app THEN {launcher} ELSE {}]
MCPartition ==
    [f \in Files |-> CASE f = lib -> vendor [] f = overlay -> product [] OTHER -> "system"]
MCStock == [i \in Images |-> {hosts, launcher}]
MCStockScripts == [i \in Images |-> {2}]

(* The old build has a product partition and its version there, the new one *)
(* has its product in the system; the other one is not accepted.            *)
MCSeparate == [i \in Images |-> IF i = new THEN {vendor} ELSE {vendor, product}]
MCVersionIn ==
    [i \in Images |-> CASE i = old -> product [] i = new -> "system" [] OTHER -> "nowhere"]
=============================================================================
