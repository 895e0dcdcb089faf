---------------------------- MODULE BackupToolAB ----------------------------
(***************************************************************************)
(* prebuilt/common/bin/backuptool_postinstall.sh, backuptool_ab.sh and     *)
(* backuptool_ab.functions: on a device with two slots, the add-ons of the *)
(* system that runs are carried over into the slot that was updated.  The  *)
(* update engine mounts that system under /postinstall and runs the script *)
(* that calls `backuptool_ab.sh backup' and `backuptool_ab.sh restore',    *)
(* whatever the first one says.  It may be stopped at any moment, by a     *)
(* reboot or not, and is then run again.                                   *)
(*                                                                         *)
(* An extra partition (vendor, product, system_ext) that the updated       *)
(* system does not use is a link there, and as links are followed from the *)
(* root of the system that runs, it leads to that system's partition: one  *)
(* that is mounted and must stay so.  The partitions of the updated slot   *)
(* can be written only while they are mounted under /postinstall.          *)
(***************************************************************************)
EXTENDS Naturals, FiniteSets

CONSTANTS Images,       \* builds: the one that runs and the update
          Separate,     \* the extra partitions each build uses
          VersionIn,    \* where each build says it is of the version that is
                        \* accepted: "system", an extra partition, "nowhere"
          Scripts,      \* the scripts of add-ons, numbered as they are sorted
          StockScripts, \* those that come with each build
          Version,      \* ADDOND_VERSION of each script
          Files,        \* the files that matter
          Lists,        \* the files each script lists
          Obsolete,     \* the files that a restored file replaces
          Odexed,       \* the apps with an odex file beside them
          Stock,        \* the files that come with each build
          Partition,    \* where each file is: "system" or an extra partition
          Extra,        \* all_V3_partitions
          MaxStops      \* how often the script is stopped

NoFile == "none"
Addon  == "addon"       \* contents an add-on or the user put into a file

ASSUME BackupToolABAssumption ==
    /\ Separate \in [Images -> SUBSET Extra]
    /\ VersionIn \in [Images -> Extra \cup {"system", "nowhere"}]
    /\ Scripts \subseteq Nat
    /\ StockScripts \in [Images -> SUBSET Scripts]
    /\ Version \in [Scripts -> 1 .. 3]
    /\ Lists \in [Scripts -> SUBSET Files]
    /\ Obsolete \in [Files -> SUBSET Files]
    /\ \A f \in Files : \A s \in Scripts : Obsolete[f] \cap Lists[s] = {}
    /\ Odexed \subseteq Files
    /\ Stock \in [Images -> SUBSET Files]
    /\ Partition \in [Files -> Extra \cup {"system"}]
    /\ "system" \notin Extra /\ "nowhere" \notin Extra
    /\ NoFile \notin Images /\ Addon \notin Images
    /\ MaxStops \in Nat

Contents == {NoFile, Addon} \cup Images   \* Addon, or as the build has it

VARIABLES
    \* The system that runs, and the update: chosen once.
    running, update,
    addon_d,     \* the scripts in /system/addon.d
    file,        \* the files of the system that runs
    \* What is mounted.
    runMounted,  \* the extra partitions of the system that runs
    slotMounted, \* those of the updated slot, under /postinstall
    tmpMounted,  \* /postinstall/tmp
    \* The updated slot.
    slotFile, slotAddon,
    \* /postinstall/tmp
    C,           \* backupdir
    tmpAddon,    \* addon.d
    \* The script.
    pc, todo, stops,
    \* History.
    mountFailed, \* a partition could not be mounted since the script was started
    tmpBusy      \* /postinstall/tmp could not be unmounted in the last cleanup

world  == <<running, update, addon_d, file>>
mounts == <<runMounted, slotMounted, tmpMounted>>
slot   == <<slotFile, slotAddon>>
tmp    == <<C, tmpAddon>>
history == <<mountFailed, tmpBusy>>
vars   == <<world, mounts, slot, tmp, pc, todo, stops, history>>

Nothing == [f \in Files |-> NoFile]
AsBuilt(i) == [f \in Files |-> IF f \in Stock[i] THEN i ELSE NoFile]

Init ==
    /\ running \in Images
    /\ update \in Images
    /\ \E added \in SUBSET Scripts :
        /\ addon_d = StockScripts[running] \cup added
        /\ file = [f \in Files |-> IF \E s \in added : f \in Lists[s] THEN Addon
                                   ELSE AsBuilt(running)[f]]
    /\ runMounted = Separate[running]
    /\ slotMounted = {}
    /\ tmpMounted = FALSE
    /\ slotFile = AsBuilt(update)
    /\ slotAddon = StockScripts[update]
    /\ C = Nothing
    /\ tmpAddon = {}
    /\ pc = "start"
    /\ todo = {}
    /\ stops = 0
    /\ mountFailed = FALSE
    /\ tmpBusy = FALSE

-----------------------------------------------------------------------------
(* Mounts and paths.                                                       *)

\* A path of the system that runs leads to its files.
Readable(p) == p \in Separate[running] => p \in runMounted

\* check_prereq looks at the system that runs, before backup and restore.
check_prereq ==
    /\ VersionIn[running] # "nowhere"
    /\ Readable(VersionIn[running])

\* Where the update has no partition, /postinstall/<partition> is a link to
\* /system/<partition>, which is the directory of the system that runs.
IsLink(p) == p \notin Separate[update]

\* umount -l of /postinstall/<partition>: it unmounts what is mounted where the
\* path leads.
Unmount(partitions) ==
    /\ slotMounted' = slotMounted \ {p \in partitions : ~ IsLink(p)}
    /\ runMounted' = runMounted \ {p \in partitions : IsLink(p)}

\* Mutant: links are not looked at.
umount_everything == Unmount(Extra)

umount_extra == Unmount({p \in Extra : ~ IsLink(p)})

\* Those that are neither mounted nor a link.  A partition may turn out not to be
\* mountable, which is not looked at.
mount_extra ==
    LET partitions == {p \in Extra \ slotMounted : ~ IsLink(p)}
    IN  \E failed \in SUBSET partitions :
            /\ slotMounted' = slotMounted \cup (partitions \ failed)
            /\ mountFailed' = (mountFailed \/ failed # {})
            /\ UNCHANGED runMounted

\* Mutant: version 3 is not yet the one that has the partitions mounted.
MountForAfter3(s) ==
    IF Version[s] > 3 THEN mount_extra ELSE umount_extra /\ UNCHANGED mountFailed

\* run_stages, by the version of the script.
MountFor(s) ==
    IF Version[s] >= 3 THEN mount_extra ELSE umount_extra /\ UNCHANGED mountFailed

\* cleanup: if the tmpfs is busy it stays mounted, but emptied.
Cleanup ==
    /\ umount_extra
    /\ tmpBusy' \in BOOLEAN
    /\ tmpMounted' = tmpBusy'
    /\ C' = Nothing
    /\ tmpAddon' = {}

\* The script that is next.
Script == CHOOSE s \in todo : \A t \in todo : s <= t

-----------------------------------------------------------------------------
(* backuptool_ab.sh backup                                                 *)

\* Mutant: scripts of version 1 are kept.
BackupStartAll ==
    /\ pc = "start"
    /\ IF check_prereq
       THEN /\ tmpMounted' = TRUE
            /\ tmpAddon' = tmpAddon \cup addon_d
            /\ todo' = tmpAddon'
            /\ pc' = "backup"
            /\ UNCHANGED <<runMounted, slotMounted, C, tmpBusy>>
       ELSE pc' = "restore_start" /\ Cleanup /\ UNCHANGED todo
    /\ UNCHANGED <<world, slot, stops, mountFailed>>

\* /postinstall/tmp is mounted; check_prereq; preserve_addon_d, which discards
\* the scripts of version 1.
BackupStart ==
    /\ pc = "start"
    /\ IF check_prereq
       THEN /\ tmpMounted' = TRUE
            /\ tmpAddon' = {s \in tmpAddon \cup addon_d : Version[s] # 1}
            /\ todo' = tmpAddon'
            /\ pc' = "backup"
            /\ UNCHANGED <<runMounted, slotMounted, C, tmpBusy>>
       ELSE pc' = "restore_start" /\ Cleanup /\ UNCHANGED todo
    /\ UNCHANGED <<world, slot, stops, mountFailed>>

\* backup_file for the files of a script that are found, but for odexed apps.
BackupScript ==
    /\ pc = "backup"
    /\ todo # {}
    /\ MountFor(Script)
    /\ C' = [f \in Files |->
                IF f \in Lists[Script] \ Odexed /\ file[f] # NoFile /\ Readable(Partition[f])
                THEN file[f] ELSE C[f]]
    /\ todo' = todo \ {Script}
    /\ UNCHANGED <<world, tmpMounted, slot, tmpAddon, pc, stops, tmpBusy>>

BackupEnd ==
    /\ pc = "backup"
    /\ todo = {}
    /\ umount_extra
    /\ pc' = "restore_start"
    /\ UNCHANGED <<world, tmpMounted, slot, tmp, todo, stops, history>>

-----------------------------------------------------------------------------
(* backuptool_ab.sh restore                                                *)

\* Mutant: nothing is cleaned up when the tool refuses to work.
RestoreStartDirty ==
    /\ pc = "restore_start"
    /\ tmpMounted' = TRUE
    /\ IF check_prereq
       THEN pc' = "restore" /\ todo' = tmpAddon
       ELSE pc' = "done" /\ UNCHANGED todo
    /\ UNCHANGED <<world, runMounted, slotMounted, slot, tmp, stops, history>>

RestoreStart ==
    /\ pc = "restore_start"
    /\ IF check_prereq
       THEN /\ pc' = "restore"
            /\ tmpMounted' = TRUE
            /\ todo' = tmpAddon
            /\ UNCHANGED <<runMounted, slotMounted, tmp, tmpBusy>>
       ELSE pc' = "done" /\ Cleanup /\ UNCHANGED todo
    /\ UNCHANGED <<world, slot, stops, mountFailed>>

\* get_output_path leads to the updated slot: to its partition if that is
\* mounted, which it is for scripts of version 3 only, or to its system.
\* Everything else is a link to the system that runs, which is read-only.
Reached(mounted) ==
    {f \in Files : Partition[f] \in Separate[update] => Partition[f] \in mounted}

\* restore_file for some files of a script: those that were backed up are
\* moved, and what they replace is removed.
Restorable(files) == {f \in files : C[f] # NoFile}
Restored(files, reached) ==
    LET restored == Restorable(files)
        removed  == UNION {Obsolete[f] : f \in restored}
    IN  [f \in Files |-> IF f \in restored \cap reached THEN C[f]
                        ELSE IF f \in removed \cap reached THEN NoFile
                        ELSE slotFile[f]]
Moved(files, reached) ==
    [f \in Files |-> IF f \in Restorable(files) \cap reached THEN NoFile ELSE C[f]]

RestoreScript ==
    /\ pc = "restore"
    /\ todo # {}
    /\ MountFor(Script)
    /\ slotFile' = Restored(Lists[Script], Reached(slotMounted'))
    /\ C' = Moved(Lists[Script], Reached(slotMounted'))
    /\ todo' = todo \ {Script}
    /\ UNCHANGED <<world, tmpMounted, slotAddon, tmpAddon, pc, stops, tmpBusy>>

\* restore_addon_d and cleanup.
RestoreEnd ==
    /\ pc = "restore"
    /\ todo = {}
    /\ slotAddon' = slotAddon \cup tmpAddon
    /\ Cleanup
    /\ pc' = "done"
    /\ UNCHANGED <<world, slotFile, todo, stops, mountFailed>>

-----------------------------------------------------------------------------
(* The script is stopped, and started again by the update engine.          *)

\* All that is in memory may be lost, or still be there with any partitions of
\* the slot mounted; the slot may be written anew.
StopAndStart(files, backup, scripts) ==
    /\ pc # "done"
    /\ stops < MaxStops
    /\ stops' = stops + 1
    /\ pc' = "start"
    /\ todo' = {}
    /\ mountFailed' = FALSE
    /\ tmpBusy' = FALSE
    /\ \/ /\ slotMounted' \in SUBSET Separate[update]
          /\ C' = backup
          /\ UNCHANGED <<runMounted, tmpMounted, tmpAddon>>
       \/ /\ runMounted' = Separate[running]
          /\ slotMounted' = {}
          /\ tmpMounted' = FALSE
          /\ C' = Nothing
          /\ tmpAddon' = {}
    /\ \/ slotFile' = files /\ slotAddon' = scripts
       \/ slotFile' = AsBuilt(update) /\ slotAddon' = StockScripts[update]
    /\ UNCHANGED world

Stop == StopAndStart(slotFile, C, slotAddon)

\* In the middle of a script: some of its files are restored.
StopInScript ==
    /\ pc = "restore"
    /\ todo # {}
    /\ \E mounted \in {{}, Separate[update]},
          files \in SUBSET Lists[Script] :
        /\ mounted # {} => Version[Script] >= 3
        /\ StopAndStart(Restored(files, Reached(mounted)), Moved(files, Reached(mounted)),
                        slotAddon)

\* In the middle of restore_addon_d: some of the scripts are copied.
StopInAddonD ==
    /\ pc = "restore"
    /\ todo = {}
    /\ \E scripts \in SUBSET tmpAddon : StopAndStart(slotFile, C, slotAddon \cup scripts)

Next ==
    \/ BackupStart \/ BackupScript \/ BackupEnd
    \/ RestoreStart \/ RestoreScript \/ RestoreEnd
    \/ Stop \/ StopInScript \/ StopInAddonD

Spec == Init /\ [][Next]_vars

-----------------------------------------------------------------------------
(* Properties.                                                             *)

TypeOK ==
    /\ {running, update} \subseteq Images
    /\ addon_d \subseteq Scripts
    /\ file \in [Files -> Contents]
    /\ runMounted \subseteq Extra
    /\ slotMounted \subseteq Separate[update]
    /\ slotFile \in [Files -> Contents]
    /\ slotAddon \subseteq Scripts
    /\ C \in [Files -> Contents]
    /\ tmpAddon \subseteq {s \in addon_d : Version[s] >= 2}
    /\ todo \subseteq tmpAddon
    /\ pc \in {"start", "backup", "restore_start", "restore", "done"}
    /\ pc \in {"backup", "restore"} => tmpMounted
    /\ stops \in 0 .. MaxStops

\* Whether a script can be relied on to carry a file over: it is not an odexed
\* app, and the updated slot has it in its system, or the script is of version 3
\* and no partition failed to be mounted.
Carries(s, f) ==
    /\ f \in Lists[s] \ Odexed
    /\ Partition[f] \in Separate[update] => Version[s] >= 3 /\ ~ mountFailed

\* However often it was stopped: when the script is through, the updated slot
\* has every script that is not of version 1 and every file it carries over as
\* they are in the system that runs, without what the file replaces.
AddonsCarriedOver ==
    pc = "done" /\ VersionIn[running] # "nowhere" =>
        \A s \in addon_d : Version[s] >= 2 =>
            /\ s \in slotAddon
            /\ \A f \in Files :
                Carries(s, f) /\ file[f] # NoFile =>
                    /\ slotFile[f] = file[f]
                    /\ \A o \in Obsolete[f] : Partition[o] \notin Separate[update] => slotFile[o] = NoFile

\* backuptool_ab.sh:161: "Careful with unmounting": wherever the paths of the
\* update lead, the system that runs never loses one of its partitions.
RunningStaysMounted == runMounted = Separate[running]

\* When the script is through, whether it worked, refused to, or was stopped
\* before, no backup and no mount of it is left, but for a tmpfs that was busy.
NothingIsLeft ==
    pc = "done" =>
        slotMounted = {} /\ (tmpMounted => tmpBusy) /\ C = Nothing /\ tmpAddon = {}
=============================================================================
