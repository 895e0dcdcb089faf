----------------------------- MODULE BackupTool -----------------------------
(***************************************************************************)
(* prebuilt/common/bin/backuptool.sh and backuptool.functions: the add-ons *)
(* of a system are kept over an update that is flashed in recovery.  The   *)
(* updater calls `backuptool.sh backup', formats and writes the system,    *)
(* and calls `backuptool.sh restore'.                                      *)
(*                                                                         *)
(* An add-on is a script in /system/addon.d that lists its files.  Backup  *)
(* keeps scripts and files in /tmp, which is memory of the recovery and    *)
(* lasts until the reboot: it outlives an update whose restore is refused  *)
(* or whose installation fails.  Power may be cut at any moment: what was  *)
(* restored since the build was written is then on the disk, or lost, file *)
(* by file; what there is at the end is on the disk by the tool's sync.    *)
(*                                                                         *)
(* A path under vendor or system_ext leads to a directory of the system,   *)
(* or by a link to a partition of its own.  Unless that is mounted, the    *)
(* link leads to a directory of the recovery, lost at the reboot.          *)
(***************************************************************************)
EXTENDS Naturals, FiniteSets

CONSTANTS Images,       \* the builds that may be flashed
          Compatible,   \* those with a build.prop the tool accepts
          Separate,     \* the partitions of its own each build uses
          Scripts,      \* the scripts, numbered as they are sorted
          StockScripts, \* those that come with each build
          Version,      \* ADDOND_VERSION of each script
          Files,        \* the files that matter
          Lists,        \* the files each script lists
          Obsolete,     \* the files that a restored file replaces
          Odexed,       \* the apps with an odex file beside them
          Stock,        \* the files that come with each build
          Partition,    \* where each file is: "system" or an extra partition
          Extra,        \* all_V3_partitions
          MaxFlashes    \* how often an update is flashed

NoImage == "erased"
NoFile  == "none"
Addon   == "addon"      \* contents an add-on or the user put into a file
NoSaved == [none |-> TRUE]

ASSUME BackupToolAssumption ==
    /\ Compatible \subseteq Images
    /\ Separate \in [Images -> SUBSET Extra]
    /\ Scripts \subseteq Nat
    /\ StockScripts \in [Images -> SUBSET Scripts]
    /\ Version \in [Scripts -> 1 .. 3]
    /\ Lists \in [Scripts -> SUBSET Files]
    /\ Obsolete \in [Files -> SUBSET Files]
    /\ \A f \in Files : \A s \in Scripts : Obsolete[f] \cap Lists[s] = {}
    /\ Odexed \subseteq Files
    /\ Stock \in [Images -> SUBSET Files]
    /\ Partition \in [Files -> Extra \cup {"system"}]
    /\ "system" \notin Extra
    /\ \A i \in Images : \A s \in StockScripts[i] : Lists[s] \subseteq Stock[i]
    /\ NoImage \notin Images /\ NoFile \notin Images /\ Addon \notin Images
    /\ MaxFlashes \in Nat

Contents == {NoFile, Addon} \cup Images   \* Addon, or as the build has it

VARIABLES
    \* The system that is installed.
    image,      \* its build, NoImage while it is formatted
    file,       \* its files
    addon_d,    \* the scripts in its addon.d
    \* The recovery.
    ramdisk,    \* what was written where no partition was mounted
    C,          \* /tmp/backupdir
    tmpAddon,   \* /tmp/addon.d
    mounted,    \* extra partitions that are mounted
    \* The updater and its calls of backuptool.sh.
    pc, zip, todo, flashes,
    \* History.
    saved,      \* the system as it was at the last backup, until it is restored
    mountFailed,\* a partition could not be mounted
    torn        \* scripts that are on the disk while a file of theirs was lost

system   == <<image, file, addon_d>>
tmp      == <<C, tmpAddon>>
recovery == <<ramdisk, tmp, mounted>>
history  == <<saved, mountFailed, torn>>
vars     == <<system, recovery, pc, zip, todo, flashes, history>>

Nothing == [f \in Files |-> NoFile]

\* A system as a build leaves it, with all files of some add-ons.
FilesOf(i, scripts) ==
    [f \in Files |-> IF \E s \in scripts : f \in Lists[s] THEN Addon
                     ELSE IF f \in Stock[i] THEN i ELSE NoFile]

Init ==
    /\ image \in Images
    /\ \E added \in SUBSET Scripts :
        /\ addon_d = StockScripts[image] \cup added
        /\ file = FilesOf(image, added)
    /\ ramdisk = Nothing
    /\ C = Nothing
    /\ tmpAddon = {}
    /\ mounted = {}
    /\ pc = "idle"
    /\ zip = image
    /\ todo = {}
    /\ flashes = 0
    /\ saved = NoSaved
    /\ mountFailed = FALSE
    /\ torn = {}

-----------------------------------------------------------------------------
(* Paths and mounts.                                                       *)

\* The path of a file leads to the system that is installed.
Leads(f, i, mounts) == Partition[f] \notin Separate[i] \/ Partition[f] \in mounts

\* check_prereq.  $$P/etc/build.prop is no path, so the system's build.prop
\* must be there; the version is looked for in the product's too.
check_prereq == image \in Compatible

\* Mutant: version 3 is not yet the one that has the partitions mounted.
MountForAfter3(s) ==
    IF Version[s] > 3
    THEN \E failed \in SUBSET (Separate[image] \ mounted) :
            /\ mounted' = mounted \cup (Separate[image] \ failed)
            /\ mountFailed' = (mountFailed \/ failed # {})
    ELSE mounted' = {} /\ UNCHANGED mountFailed

\* mount_extra and umount_extra, by the version of the script.  A partition
\* may turn out not to be mountable, which is not looked at.
MountFor(s) ==
    IF Version[s] >= 3
    THEN \E failed \in SUBSET (Separate[image] \ mounted) :
            /\ mounted' = mounted \cup (Separate[image] \ failed)
            /\ mountFailed' = (mountFailed \/ failed # {})
    ELSE mounted' = {} /\ UNCHANGED mountFailed

\* The script that is next.
Script == CHOOSE s \in todo : \A t \in todo : s <= t

-----------------------------------------------------------------------------
(* The user and the updater.                                               *)

\* A zip is flashed; the user may have mounted partitions before.
Flash ==
    /\ pc \in {"idle", "updated"}
    /\ flashes < MaxFlashes
    /\ flashes' = flashes + 1
    /\ zip' \in Images
    /\ \E mounts \in SUBSET Extra :
        /\ image # NoImage => mounts \subseteq Separate[image]
        /\ image = NoImage => mounts = {}
        /\ mounted' = mounted \cup mounts
    /\ saved' = IF pc = "updated" THEN NoSaved ELSE saved
    /\ pc' = "backup_start"
    /\ UNCHANGED <<system, ramdisk, tmp, todo, mountFailed, torn>>

\* The updater formats the partitions, and writes the build.
Format ==
    /\ pc = "format"
    /\ image' = NoImage
    /\ file' = Nothing
    /\ addon_d' = {}
    /\ pc' = "write"
    /\ UNCHANGED <<recovery, zip, todo, flashes, history>>

Write ==
    /\ pc = "write"
    /\ image' = zip
    /\ file' = FilesOf(zip, {})
    /\ addon_d' = StockScripts[zip]
    /\ pc' = "restore_start"
    /\ UNCHANGED <<recovery, zip, todo, flashes, history>>

\* The installation fails, and the recovery goes on.
Fail ==
    /\ pc \in {"format", "write"}
    /\ pc' = "idle"
    /\ UNCHANGED <<system, recovery, zip, todo, flashes, history>>

-----------------------------------------------------------------------------
(* backuptool.sh backup                                                    *)

\* Mutant: the scripts are run where they are.
BackupStartInPlace ==
    /\ pc = "backup_start"
    /\ IF check_prereq
       THEN /\ todo' = addon_d
            /\ saved' = [image |-> image, file |-> file, addon_d |-> addon_d]
            /\ pc' = "backup"
       ELSE pc' = "format" /\ UNCHANGED <<todo, saved>>
    /\ UNCHANGED <<system, ramdisk, C, tmpAddon, mounted, zip, flashes, mountFailed, torn>>

\* check_prereq and preserve_addon_d, which adds to what is in /tmp/addon.d.
BackupStart ==
    /\ pc = "backup_start"
    /\ IF check_prereq
       THEN /\ tmpAddon' = tmpAddon \cup addon_d
            /\ todo' = tmpAddon'
            /\ saved' = [image |-> image, file |-> file, addon_d |-> addon_d]
            /\ pc' = "backup"
       ELSE pc' = "format" /\ UNCHANGED <<tmpAddon, todo, saved>>
    /\ UNCHANGED <<system, ramdisk, C, mounted, zip, flashes, mountFailed, torn>>

\* backup_file for the files of a script that are found, but for odexed apps.
BackupScript ==
    /\ pc = "backup"
    /\ todo # {}
    /\ MountFor(Script)
    /\ LET found(f) == IF Leads(f, image, mounted') THEN file[f] ELSE ramdisk[f]
       IN  C' = [f \in Files |-> IF f \in Lists[Script] \ Odexed /\ found(f) # NoFile
                                 THEN found(f) ELSE C[f]]
    /\ todo' = todo \ {Script}
    /\ UNCHANGED <<system, ramdisk, tmpAddon, pc, zip, flashes, saved, torn>>

BackupEnd ==
    /\ pc = "backup"
    /\ todo = {}
    /\ mounted' = {}
    /\ pc' = "format"
    /\ UNCHANGED <<system, ramdisk, tmp, zip, todo, flashes, history>>

-----------------------------------------------------------------------------
(* backuptool.sh restore                                                   *)

\* Mutant: addon.d is restored before the scripts are run.
RestoreStartAddons ==
    /\ pc = "restore_start"
    /\ IF check_prereq
       THEN pc' = "restore" /\ todo' = tmpAddon /\ addon_d' = addon_d \cup tmpAddon
       ELSE pc' = "idle" /\ UNCHANGED <<todo, addon_d>>
    /\ UNCHANGED <<image, file, recovery, zip, flashes, history>>

\* check_prereq, now of the new system.
RestoreStart ==
    /\ pc = "restore_start"
    /\ IF check_prereq
       THEN pc' = "restore" /\ todo' = tmpAddon
       ELSE pc' = "idle" /\ UNCHANGED todo
    /\ UNCHANGED <<system, recovery, zip, flashes, history>>

\* restore_file for some files of a script: those that were backed up are
\* copied, and what they replace is removed, in the files that are reached.
Restored(files, reached, old) ==
    LET restored == {f \in files : C[f] # NoFile}
        removed  == UNION {Obsolete[f] : f \in restored}
    IN  [f \in Files |-> IF f \in restored \cap reached THEN C[f]
                        ELSE IF f \in removed \cap reached THEN NoFile
                        ELSE old[f]]

Reached(mounts) == {f \in Files : Leads(f, image, mounts)}

RestoreScript ==
    /\ pc = "restore"
    /\ todo # {}
    /\ MountFor(Script)
    /\ file' = Restored(Lists[Script], Reached(mounted'), file)
    /\ ramdisk' = Restored(Lists[Script], Files \ Reached(mounted'), ramdisk)
    /\ todo' = todo \ {Script}
    /\ UNCHANGED <<image, addon_d, tmp, pc, zip, flashes, saved, torn>>

\* restore_addon_d, the backup is removed, and sync: all of it is on the disk.
RestoreEnd ==
    /\ pc = "restore"
    /\ todo = {}
    /\ mounted' = {}
    /\ addon_d' = addon_d \cup tmpAddon
    /\ tmpAddon' = {}
    /\ C' = Nothing
    /\ pc' = "updated"
    /\ UNCHANGED <<image, file, ramdisk, zip, todo, flashes, history>>

-----------------------------------------------------------------------------
(* Power is cut, or the user reboots: the recovery starts anew.            *)

Reset ==
    /\ ramdisk' = Nothing
    /\ C' = Nothing
    /\ tmpAddon' = {}
    /\ mounted' = {}
    /\ todo' = {}
    /\ pc' = "idle"
    /\ saved' = NoSaved
    /\ UNCHANGED <<zip, flashes>>

\* While nothing is restored the disk has the system as it is: the build as the
\* updater wrote it, or all that was restored and synced.
CutOff ==
    /\ pc # "restore"
    /\ Reset
    /\ UNCHANGED <<system, mountFailed, torn>>

\* Some of what was restored is lost: there, the build is as it was written.
Losing(lost, restored) ==
    [f \in Files |-> IF f \in lost THEN FilesOf(image, {})[f] ELSE restored[f]]

\* In the middle of a script.
CutOffInScript ==
    /\ pc = "restore"
    /\ todo # {}
    /\ \E mounts \in {{}, Separate[image]}, lost \in SUBSET Files :
        /\ mounts # {} => Version[Script] >= 3
        /\ file' = Losing(lost, Restored(Lists[Script], Reached(mounts), file))
    /\ Reset
    /\ UNCHANGED <<image, addon_d, mountFailed, torn>>

\* In restore_addon_d, or before sync: some of the scripts are on the disk.
CutOffInAddonD ==
    /\ pc = "restore"
    /\ todo = {}
    /\ \E scripts \in SUBSET tmpAddon, lost \in SUBSET Files :
        /\ addon_d' = addon_d \cup scripts
        /\ file' = Losing(lost, file)
        /\ torn' = torn \cup {s \in scripts \ addon_d : Lists[s] \cap lost # {}}
    /\ Reset
    /\ UNCHANGED <<image, mountFailed>>

Next ==
    \/ Flash \/ Format \/ Write \/ Fail
    \/ BackupStart \/ BackupScript \/ BackupEnd
    \/ RestoreStart \/ RestoreScript \/ RestoreEnd
    \/ CutOff \/ CutOffInScript \/ CutOffInAddonD

Spec == Init /\ [][Next]_vars

-----------------------------------------------------------------------------
(* Properties.                                                             *)

TypeOK ==
    /\ image \in Images \cup {NoImage}
    /\ file \in [Files -> Contents]
    /\ addon_d \subseteq Scripts
    /\ ramdisk \in [Files -> Contents]
    /\ C \in [Files -> Contents]
    /\ tmpAddon \subseteq Scripts
    /\ mounted \subseteq Extra
    /\ zip \in Images
    /\ todo \subseteq tmpAddon
    /\ flashes \in 0 .. MaxFlashes

\* Whether a script can be relied on to keep a file: it is not an odexed app,
\* and it is in the system itself, or no partition failed to be mounted and
\* every script that lists the file is of version 3.  (One of version 2 that
\* lists it too would back up what it finds in the recovery's directory.)
Keeps(s, f) ==
    /\ f \in Lists[s] \ Odexed
    /\ Partition[f] \in Extra =>
        ~ mountFailed /\ \A t \in Scripts : f \in Lists[t] => Version[t] >= 3

\* An update that is restored leaves every script and every file it keeps as
\* they were at the last backup, with what the file replaces removed; also if
\* other builds were flashed between, whose restore was refused, or if an
\* installation failed.
AddonsSurvive ==
    pc = "updated" /\ saved # NoSaved =>
        \A s \in saved.addon_d :
            /\ s \in addon_d
            /\ \A f \in Files :
                Keeps(s, f) /\ saved.file[f] # NoFile =>
                    /\ file[f] = saved.file[f]
                    /\ \A o \in Obsolete[f] : Partition[o] \notin Extra => file[o] = NoFile

\* Whenever the power is cut: a script that is in addon.d has the files it
\* keeps, so that the next update finds them; only between restore_addon_d and
\* the sync may it reach the disk while a file of its own does not.
ScriptHasItsFiles ==
    image # NoImage =>
        \A s \in addon_d \ torn : \A f \in Files : Keeps(s, f) => file[f] # NoFile

\* 50-scandium.sh:6: "During a ScandiumUI upgrade, this script backs up
\* /system/etc/hosts": when the system is formatted, there is a backup of the
\* files that the scripts keep.
UpgradeBacksUp ==
    pc = "format" =>
        \A s \in addon_d : \A f \in Files :
            Keeps(s, f) /\ file[f] # NoFile => C[f] = file[f]
=============================================================================
