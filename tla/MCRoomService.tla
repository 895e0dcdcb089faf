---------------------------- MODULE MCRoomService ----------------------------
(***************************************************************************)
(* Instances of the dependencies for TLC: the device needs two             *)
(* repositories, any of which may need others, in chains, diamonds and     *)
(* cycles.  One repository may lack a branch, be named with a branch by    *)
(* one of those that need it, or be listed in the main manifest.           *)
(***************************************************************************)
EXTENDS RoomService

CONSTANTS device, kernel, common, vendor

MCRepos == {device, kernel, common, vendor}

MCGraphs ==
    {g \in [MCRepos -> SUBSET MCRepos] :
        /\ g[device] = {kernel, common}
        /\ g[kernel] \subseteq {common, vendor}
        /\ g[common] \subseteq {kernel, vendor}
        /\ g[vendor] \subseteq {common}}

MCBranchless == {{}, {vendor}, {common}}

MCPins == {[r \in MCRepos |-> {}], [r \in MCRepos |-> IF r = kernel THEN {vendor, common} ELSE {}]}

MCShippedSets == {{}, {common}, {device}}

MCOnDisk == {{}, {vendor}}
=============================================================================
