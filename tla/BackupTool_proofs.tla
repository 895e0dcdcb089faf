------------------------- MODULE BackupTool_proofs --------------------------
(***************************************************************************)
(* What the recovery's add-on backup guarantees for any builds, any        *)
(* partitions, any add-ons, and however often updates are flashed, refused *)
(* or cut off.                                                             *)
(*                                                                         *)
(* The argument: a script gets into /tmp/addon.d together with the files   *)
(* it keeps, and the backup only ever grows; what is in the backup is what *)
(* the last system that was backed up had, because a file that counts is   *)
(* found where it belongs by every script that lists it; a script that is  *)
(* through restoring has its files in the system, and no later script      *)
(* takes them away, because what a file replaces is nobody's file.         *)
(***************************************************************************)
EXTENDS BackupTool, TLAPS, WellFoundedInduction

USE BackupToolAssumption

Phases == {"idle", "backup_start", "backup", "format", "write",
           "restore_start", "restore", "updated"}

\* What the updater has the tool do, and to which system.
Phased ==
    /\ pc \in Phases
    /\ pc \in {"backup", "restore"} => image \in Images
    /\ pc \notin {"backup", "restore"} => todo = {}
    /\ pc \in {"restore_start", "restore"} => image \in Images /\ addon_d = StockScripts[image]

Typed == TypeOK /\ mountFailed \in BOOLEAN /\ Phased

\* A script has the files it keeps in the backup; in the system.
HasBackup(s) == s \notin torn => \A f \in Files : Keeps(s, f) => C[f] # NoFile
HasFiles(s)  == s \notin torn => \A f \in Files : Keeps(s, f) => file[f] # NoFile

\* A script in /tmp/addon.d has its files there, once it has backed up those
\* of the system it comes from.
BackedUp ==
    \A s \in tmpAddon : (pc = "backup" => s \notin addon_d \/ s \notin todo) => HasBackup(s)

\* A script that is through restoring has its files in the system.
RestoredAll ==
    pc = "restore" => \A s \in tmpAddon \ todo : HasFiles(s)

\* A file that a script kept of the system that was saved.
Due(s, f) == s \in saved.addon_d /\ f \in Files /\ Keeps(s, f) /\ saved.file[f] # NoFile

\* It is in the system, and what it replaces is not.
InPlace(f) ==
    /\ file[f] = saved.file[f]
    /\ \A o \in Obsolete[f] : Partition[o] \notin Extra => file[o] = NoFile

\* What was saved is in /tmp from when the script is through backing up until
\* the restore is complete.
SavedIsKept ==
    saved # NoSaved =>
        /\ pc = "backup" => saved.file = file /\ saved.addon_d = addon_d
        /\ pc # "updated" => saved.addon_d \subseteq tmpAddon
        /\ \A s, f : Due(s, f) =>
            /\ pc # "updated" /\ (pc = "backup" => s \notin todo) => C[f] = saved.file[f]
            /\ pc = "restore" /\ s \notin todo => InPlace(f)

KeepInv == BackedUp /\ ScriptHasItsFiles /\ RestoredAll /\ SavedIsKept /\ AddonsSurvive

-----------------------------------------------------------------------------
(* The operators.                                                          *)

\* The script that is next is one that is still to do: there is a least one.
LEMMA ScriptToDo ==
    ASSUME todo \subseteq Scripts, todo # {}
    PROVE  Script \in todo
<1> DEFINE below == {ss \in Nat \X Nat : ss[1] < ss[2]}
<1>1. OpToRel(<, Nat) = below
  BY DEF OpToRel
<1>2. IsWellFoundedOn(below, Nat)
  BY <1>1, NatLessThanWellFounded
<1> HIDE DEF below
<1>3. PICK s \in todo : \A t \in todo : ~ (<<t, s>> \in below)
  BY <1>2, WFMin
<1>4. \A t \in todo : s <= t
  <2> SUFFICES ASSUME NEW t \in todo PROVE s <= t
    OBVIOUS
  <2>1. t \in Nat /\ s \in Nat
    OBVIOUS
  <2>2. <<t, s>> \in Nat \X Nat /\ ~ (<<t, s>> \in below)
    BY <1>3, <2>1
  <2>3. ~ (t < s)
    BY <2>2 DEF below
  <2> QED
    BY <2>1, <2>3
<1> QED
  BY <1>4 DEF Script

\* A system as a build leaves it has the files of its scripts and of the add-ons.
LEMMA BuiltFiles ==
    ASSUME NEW i \in Images, NEW added \in SUBSET Scripts
    PROVE  /\ FilesOf(i, added) \in [Files -> Contents]
           /\ \A s \in StockScripts[i] \cup added : \A f \in Lists[s] :
                FilesOf(i, added)[f] # NoFile
<1>1. i # NoFile /\ Addon # NoFile
  BY DEF Addon, NoFile
<1>2. FilesOf(i, added) \in [Files -> Contents]
  BY DEF FilesOf, Contents
<1>3. ASSUME NEW s \in StockScripts[i] \cup added, NEW f \in Lists[s]
      PROVE  FilesOf(i, added)[f] # NoFile
  <2>1. f \in Files
    OBVIOUS
  <2>2. s \in added \/ f \in Stock[i]
    OBVIOUS
  <2> QED
    BY <1>1, <1>3, <2>1, <2>2 DEF FilesOf
<1> QED
  BY <1>2, <1>3

\* Mounting partitions for a script: those of the build, if it is of version 3
\* and no mount fails.
LEMMA MountsFor ==
    ASSUME Typed, image \in Images, NEW s \in Scripts, MountFor(s)
    PROVE  /\ mounted' \subseteq Extra
           /\ mountFailed' \in BOOLEAN
           /\ mountFailed => mountFailed'
           /\ Version[s] >= 3 /\ ~ mountFailed' => Separate[image] \subseteq mounted'
<1>1. Separate[image] \subseteq Extra /\ mounted \subseteq Extra /\ mountFailed \in BOOLEAN
  BY DEF Typed, TypeOK
<1>2. CASE Version[s] >= 3
  <2>1. PICK failed \in SUBSET (Separate[image] \ mounted) :
            /\ mounted' = mounted \cup (Separate[image] \ failed)
            /\ mountFailed' = (mountFailed \/ failed # {})
    BY <1>2 DEF MountFor
  <2> QED
    BY <1>1, <2>1
<1>3. CASE ~ (Version[s] >= 3)
  BY <1>1, <1>3 DEF MountFor
<1> QED
  BY <1>2, <1>3

\* What a restore makes of the files.
LEMMA RestoredFiles ==
    ASSUME Typed, NEW files \in SUBSET Files, NEW reached, NEW old \in [Files -> Contents]
    PROVE  Restored(files, reached, old) \in [Files -> Contents]
<1>1. C \in [Files -> Contents] /\ NoFile \in Contents
  BY DEF Typed, TypeOK, Contents
<1> QED
  BY <1>1, Zenon DEF Restored

\* What is left of the files when some are lost: those of the scripts that come
\* with the build are never lost altogether.
LEMMA LosingFiles ==
    ASSUME Typed, image \in Images, NEW lost, NEW restored \in [Files -> Contents]
    PROVE  /\ Losing(lost, restored) \in [Files -> Contents]
           /\ \A s \in StockScripts[image] : \A f \in Lists[s] :
                restored[f] # NoFile => Losing(lost, restored)[f] # NoFile
<1>1. /\ FilesOf(image, {}) \in [Files -> Contents]
      /\ \A s \in StockScripts[image] : \A f \in Lists[s] : FilesOf(image, {})[f] # NoFile
  BY BuiltFiles
<1>2. \A s \in StockScripts[image] : Lists[s] \subseteq Files
  OBVIOUS
<1> QED
  BY <1>1, <1>2 DEF Losing

-----------------------------------------------------------------------------
(* Types.                                                                  *)

LEMMA InitTyped == Init => Typed
<1> SUFFICES ASSUME Init PROVE Typed
  OBVIOUS
<1>1. image \in Images /\ StockScripts[image] \subseteq Scripts
  BY DEF Init
<1>2. PICK added \in SUBSET Scripts :
        addon_d = StockScripts[image] \cup added /\ file = FilesOf(image, added)
  BY DEF Init
<1>3. file \in [Files -> Contents] /\ addon_d \subseteq Scripts
  BY <1>1, <1>2, BuiltFiles
<1>4. ramdisk \in [Files -> Contents] /\ C \in [Files -> Contents]
  BY DEF Init, Nothing, Contents
<1>5. /\ tmpAddon = {} /\ mounted = {} /\ pc = "idle" /\ zip = image /\ todo = {}
      /\ flashes \in 0 .. MaxFlashes /\ mountFailed = FALSE
  BY DEF Init
<1>6. TypeOK
  BY <1>1, <1>3, <1>4, <1>5 DEF TypeOK
<1> QED
  BY <1>5, <1>6 DEF Typed, Phased, Phases

\* Power is cut.
LEMMA ResetTyped ==
    ASSUME Typed, Reset, image' = image, file' \in [Files -> Contents],
           addon_d' \subseteq Scripts, mountFailed' = mountFailed
    PROVE  Typed'
<1>1. Nothing \in [Files -> Contents]
  BY DEF Nothing, Contents
<1> QED
  BY <1>1 DEF Reset, Typed, TypeOK, Phased, Phases

LEMMA NextTyped == Typed /\ [Next]_vars => Typed'
<1> SUFFICES ASSUME Typed, [Next]_vars PROVE Typed'
  OBVIOUS
<1> USE DEF Typed, Phased, Phases
<1>0. Compatible \subseteq Images
  OBVIOUS
<1>1. CASE Flash
  <2>1. mounted' \subseteq Extra
    BY <1>1 DEF Flash, TypeOK
  <2>2. flashes' \in 0 .. MaxFlashes
    BY <1>1 DEF Flash, TypeOK
  <2> QED
    BY <1>1, <2>1, <2>2 DEF Flash, TypeOK, system, tmp
<1>2. CASE Format
  <2>1. Nothing \in [Files -> Contents]
    BY DEF Nothing, Contents
  <2> QED
    BY <1>2, <2>1 DEF Format, TypeOK, recovery, tmp, history
<1>3. CASE Write
  <2>1. FilesOf(zip, {}) \in [Files -> Contents] /\ StockScripts[zip] \subseteq Scripts
    BY BuiltFiles DEF TypeOK
  <2> QED
    BY <1>3, <2>1 DEF Write, TypeOK, recovery, tmp, history
<1>4. CASE Fail
  BY <1>4 DEF Fail, TypeOK, system, recovery, tmp, history
<1>5. CASE BackupStart
  BY <1>0, <1>5 DEF BackupStart, check_prereq, TypeOK, system
<1>6. CASE BackupScript
  <2>1. /\ image \in Images /\ Script \in todo /\ Script \in Scripts
    BY <1>6, ScriptToDo DEF BackupScript, TypeOK
  <2>2. mounted' \subseteq Extra /\ mountFailed' \in BOOLEAN
    BY <1>6, <2>1, MountsFor DEF BackupScript
  <2>3. C' \in [Files -> Contents]
    BY <1>6 DEF BackupScript, TypeOK
  <2> QED
    BY <1>6, <2>1, <2>2, <2>3 DEF BackupScript, TypeOK, system
<1>7. CASE BackupEnd
  BY <1>7 DEF BackupEnd, TypeOK, system, tmp, history
<1>8. CASE RestoreStart
  BY <1>0, <1>8 DEF RestoreStart, check_prereq, TypeOK, system, recovery, tmp, history
<1>9. CASE RestoreScript
  <2>1. /\ image \in Images /\ Script \in todo /\ Script \in Scripts
        /\ Lists[Script] \in SUBSET Files
    BY <1>9, ScriptToDo DEF RestoreScript, TypeOK
  <2>2. mounted' \subseteq Extra /\ mountFailed' \in BOOLEAN
    BY <1>9, <2>1, MountsFor DEF RestoreScript
  <2>3. file' \in [Files -> Contents] /\ ramdisk' \in [Files -> Contents]
    BY <1>9, <2>1, RestoredFiles DEF RestoreScript, TypeOK
  <2> QED
    BY <1>9, <2>1, <2>2, <2>3 DEF RestoreScript, TypeOK, tmp
<1>10. CASE RestoreEnd
  <2>1. Nothing \in [Files -> Contents]
    BY DEF Nothing, Contents
  <2> QED
    BY <1>10, <2>1 DEF RestoreEnd, TypeOK, history
<1>11. CASE CutOff
  BY <1>11, ResetTyped DEF CutOff, TypeOK, system
<1>12. CASE CutOffInScript
  <2>1. Lists[Script] \in SUBSET Files
    BY <1>12, ScriptToDo DEF CutOffInScript, TypeOK
  <2>2. file' \in [Files -> Contents]
    <3>1. PICK mounts \in {{}, Separate[image]}, lost \in SUBSET Files :
            file' = Losing(lost, Restored(Lists[Script], Reached(mounts), file))
      BY <1>12 DEF CutOffInScript
    <3>2. Restored(Lists[Script], Reached(mounts), file) \in [Files -> Contents]
      BY <2>1, RestoredFiles DEF TypeOK
    <3> QED
      BY <1>12, <3>1, <3>2, LosingFiles DEF CutOffInScript
  <2> QED
    BY <1>12, <2>2, ResetTyped DEF CutOffInScript, TypeOK
<1>13. CASE CutOffInAddonD
  <2>1. file' \in [Files -> Contents]
    BY <1>13, LosingFiles DEF CutOffInAddonD, TypeOK
  <2> QED
    BY <1>13, <2>1, ResetTyped DEF CutOffInAddonD, TypeOK
<1>14. CASE UNCHANGED vars
  BY <1>14 DEF vars, system, recovery, tmp, history, TypeOK
<1> QED
  BY <1>1, <1>2, <1>3, <1>4, <1>5, <1>6, <1>7, <1>8, <1>9, <1>10, <1>11, <1>12, <1>13, <1>14
  DEF Next

\* The state is of its types; in particular a script is only run, or still to
\* be run, that is in /tmp/addon.d.
THEOREM BackupTypeCorrect == Spec => []TypeOK
<1>1. Typed => TypeOK
  BY DEF Typed
<1> QED
  BY InitTyped, NextTyped, <1>1, PTL DEF Spec

-----------------------------------------------------------------------------
(* What is kept.                                                           *)

\* A file that is kept is found where it belongs by every script that lists it.
LEMMA KeptIsReached ==
    ASSUME Typed, image \in Images, NEW s \in Scripts, MountFor(s),
           NEW t \in Scripts, NEW f \in Lists[s], Keeps(t, f)'
    PROVE  Leads(f, image, mounted')
<1>1. f \in Files /\ Separate[image] \subseteq Extra
  OBVIOUS
<1>2. CASE Partition[f] \in Extra
  <2>1. Version[s] >= 3 /\ ~ mountFailed'
    BY <1>2 DEF Keeps
  <2>2. Separate[image] \subseteq mounted'
    BY <2>1, MountsFor
  <2> QED
    BY <2>2 DEF Leads
<1>3. CASE Partition[f] \notin Extra
  BY <1>1, <1>3 DEF Leads
<1> QED
  BY <1>2, <1>3

\* A mount that failed stays so: what could not be relied on is not now.
LEMMA KeptBefore ==
    ASSUME mountFailed => mountFailed', NEW s, NEW f, Keeps(s, f)'
    PROVE  Keeps(s, f)
BY DEF Keeps

\* What a restore makes of the files of any script, and of what they replace.
LEMMA RestoreKeeps ==
    ASSUME NEW s \in Scripts, NEW files, NEW reached, files \subseteq Lists[s],
           file' = Restored(files, reached, file)
    PROVE  \A t \in Scripts : \A f \in Lists[t] :
            /\ file'[f] = IF f \in files \cap reached /\ C[f] # NoFile THEN C[f] ELSE file[f]
            /\ \A o \in Obsolete[f] :
                /\ file[o] = NoFile => file'[o] = NoFile
                /\ f \in files /\ C[f] # NoFile /\ o \in reached => file'[o] = NoFile
<1> SUFFICES ASSUME NEW t \in Scripts, NEW f \in Lists[t]
             PROVE  /\ file'[f] = IF f \in files \cap reached /\ C[f] # NoFile
                                  THEN C[f] ELSE file[f]
                    /\ \A o \in Obsolete[f] :
                        /\ file[o] = NoFile => file'[o] = NoFile
                        /\ f \in files /\ C[f] # NoFile /\ o \in reached => file'[o] = NoFile
  OBVIOUS
<1> DEFINE restored == {g \in files : C[g] # NoFile}
           removed  == UNION {Obsolete[g] : g \in restored}
<1>1. f \in Files /\ Obsolete[f] \subseteq Files
  OBVIOUS
<1>2. f \notin removed
  OBVIOUS
<1>3. \A o \in Obsolete[f] : o \notin restored
  OBVIOUS
<1>4. \A g \in Files :
        file'[g] = IF g \in restored \cap reached THEN C[g]
                   ELSE IF g \in removed \cap reached THEN NoFile ELSE file[g]
  BY DEF Restored
<1>5. f \in restored => Obsolete[f] \subseteq removed
  OBVIOUS
<1>6. f \in restored <=> f \in files /\ C[f] # NoFile
  OBVIOUS
<1> HIDE DEF restored, removed
<1>7. file'[f] = IF f \in restored \cap reached THEN C[f] ELSE file[f]
  BY <1>1, <1>2, <1>4
<1>8. ASSUME NEW o \in Obsolete[f]
      PROVE  /\ file[o] = NoFile => file'[o] = NoFile
             /\ f \in restored /\ o \in reached => file'[o] = NoFile
  BY <1>1, <1>3, <1>4, <1>5
<1> QED
  BY <1>6, <1>7, <1>8

\* However far a restore comes, no script loses a file.
LEMMA RestoreAnyKeeps ==
    ASSUME NEW s \in Scripts, NEW files, NEW reached, files \subseteq Lists[s]
    PROVE  \A t \in Scripts : \A f \in Lists[t] :
             file[f] # NoFile => Restored(files, reached, file)[f] # NoFile
<1> SUFFICES ASSUME NEW t \in Scripts, NEW f \in Lists[t], file[f] # NoFile
             PROVE  Restored(files, reached, file)[f] # NoFile
  OBVIOUS
<1>1. f \in Files
  OBVIOUS
<1>2. f \notin UNION {Obsolete[g] : g \in {h \in files : C[h] # NoFile}}
  OBVIOUS
<1> QED
  BY <1>1, <1>2 DEF Restored

\* When power is cut, the system is to have the files of its scripts: what was
\* kept elsewhere is gone.
LEMMA ResetKeeps ==
    ASSUME Reset, ScriptHasItsFiles'
    PROVE  KeepInv'
BY DEF Reset, KeepInv, BackedUp, RestoredAll, SavedIsKept, AddonsSurvive

LEMMA InitKeeps == Init => KeepInv
<1> SUFFICES ASSUME Init PROVE KeepInv
  OBVIOUS
<1>1. PICK added \in SUBSET Scripts :
        addon_d = StockScripts[image] \cup added /\ file = FilesOf(image, added)
  BY DEF Init
<1>2. \A s \in addon_d : \A f \in Lists[s] : file[f] # NoFile
  BY <1>1, BuiltFiles DEF Init
<1>3. ScriptHasItsFiles
  BY <1>2 DEF ScriptHasItsFiles, Keeps
<1> QED
  BY <1>3 DEF Init, KeepInv, BackedUp, RestoredAll, SavedIsKept, AddonsSurvive

LEMMA WriteKeeps ==
    ASSUME Typed, KeepInv, Write
    PROVE  KeepInv'
<1>1. /\ file' = FilesOf(zip, {}) /\ addon_d' = StockScripts[zip] /\ zip \in Images
      /\ pc = "write" /\ pc' = "restore_start" /\ tmpAddon' = tmpAddon /\ C' = C
      /\ saved' = saved /\ mountFailed' = mountFailed /\ torn' = torn
  BY DEF Write, recovery, tmp, history, Typed, TypeOK
<1>2. \A s \in StockScripts[zip] : \A f \in Lists[s] : FilesOf(zip, {})[f] # NoFile
  BY <1>1, BuiltFiles
<1>3. ScriptHasItsFiles'
  BY <1>1, <1>2 DEF ScriptHasItsFiles, Keeps
<1> QED
  BY <1>1, <1>3
  DEF KeepInv, BackedUp, HasBackup, Keeps, RestoredAll, SavedIsKept, Due, AddonsSurvive

LEMMA BackupStartKeeps ==
    ASSUME Typed, KeepInv, BackupStart
    PROVE  KeepInv'
<1>1. /\ image' = image /\ file' = file /\ addon_d' = addon_d /\ C' = C
      /\ mountFailed' = mountFailed /\ torn' = torn /\ pc = "backup_start"
  BY DEF BackupStart, system
<1>2. ScriptHasItsFiles'
  BY <1>1 DEF KeepInv, ScriptHasItsFiles, Keeps
<1>3. CASE check_prereq
  <2>1. /\ tmpAddon' = tmpAddon \cup addon_d /\ todo' = tmpAddon' /\ pc' = "backup"
        /\ saved'.file = file /\ saved'.addon_d = addon_d
    BY <1>3 DEF BackupStart
  <2>2. BackedUp'
    BY <1>1, <2>1 DEF KeepInv, BackedUp, HasBackup, Keeps
  <2>3. SavedIsKept'
    BY <1>1, <2>1 DEF SavedIsKept, Due
  <2> QED
    BY <1>2, <2>1, <2>2, <2>3 DEF KeepInv, RestoredAll, AddonsSurvive
<1>4. CASE ~ check_prereq
  <2>1. /\ tmpAddon' = tmpAddon /\ todo' = todo /\ saved' = saved /\ pc' = "format"
    BY <1>4 DEF BackupStart
  <2> QED
    BY <1>1, <1>2, <2>1
    DEF KeepInv, BackedUp, HasBackup, Keeps, RestoredAll, SavedIsKept, Due, AddonsSurvive
<1> QED
  BY <1>3, <1>4

LEMMA BackupScriptKeeps ==
    ASSUME Typed, KeepInv, BackupScript
    PROVE  KeepInv'
<1>1. /\ image' = image /\ file' = file /\ addon_d' = addon_d /\ tmpAddon' = tmpAddon
      /\ saved' = saved /\ torn' = torn /\ pc = "backup" /\ pc' = "backup"
      /\ image \in Images
  BY DEF BackupScript, system, Typed, Phased
<1>2. PICK s \in todo : s = Script
  BY ScriptToDo DEF BackupScript, Typed, TypeOK
<1>3. s \in Scripts /\ MountFor(s) /\ todo' = todo \ {s}
  BY <1>2 DEF BackupScript, Typed, TypeOK
<1>4. mountFailed => mountFailed'
  BY <1>1, <1>3, MountsFor
<1> DEFINE found(f) == IF Leads(f, image, mounted') THEN file[f] ELSE ramdisk[f]
<1>5. \A f \in Files : C'[f] = IF f \in Lists[s] \ Odexed /\ found(f) # NoFile
                               THEN found(f) ELSE C[f]
  BY <1>2 DEF BackupScript
<1>6. ASSUME NEW t \in Scripts, NEW f \in Files, Keeps(t, f)'
      PROVE  /\ C[f] # NoFile => C'[f] # NoFile
             /\ f \in Lists[s] => f \notin Odexed /\ found(f) = file[f]
  <2>1. f \notin Odexed
    BY <1>6 DEF Keeps
  <2>2. f \in Lists[s] => found(f) = file[f]
    BY <1>1, <1>3, <1>6, KeptIsReached
  <2> HIDE DEF found
  <2> QED
    BY <1>5, <2>1, <2>2
<1> HIDE DEF found
<1>7. BackedUp'
  <2> SUFFICES ASSUME NEW t \in tmpAddon \ torn,
                      t \notin addon_d \/ t \notin todo \/ t = s, NEW f \in Files, Keeps(t, f)'
               PROVE  C'[f] # NoFile
    BY <1>1, <1>3 DEF BackedUp, HasBackup
  <2>1. t \in Scripts /\ Keeps(t, f) /\ f \in Lists[t]
    BY <1>4, KeptBefore DEF Typed, TypeOK, Keeps
  <2>2. CASE t \notin addon_d \/ t \notin todo
    <3>1. C[f] # NoFile
      BY <1>1, <2>1, <2>2 DEF KeepInv, BackedUp, HasBackup
    <3> QED
      BY <1>6, <2>1, <3>1
  <2>3. CASE t = s /\ t \in addon_d
    <3>1. file[f] # NoFile
      BY <1>1, <2>1, <2>3 DEF KeepInv, ScriptHasItsFiles, NoImage
    <3> QED
      BY <1>5, <1>6, <2>1, <2>3, <3>1
  <2> QED
    BY <2>2, <2>3
<1>8. ScriptHasItsFiles'
  BY <1>1, <1>4, KeptBefore DEF KeepInv, ScriptHasItsFiles
<1>9. SavedIsKept'
  <2> SUFFICES ASSUME saved # NoSaved
               PROVE  /\ saved.file = file /\ saved.addon_d = addon_d
                      /\ saved.addon_d \subseteq tmpAddon
                      /\ \A t, f : Due(t, f)' /\ t \notin todo' => C'[f] = saved.file[f]
    BY <1>1 DEF SavedIsKept
  <2>1. /\ saved.file = file /\ saved.addon_d = addon_d
        /\ saved.addon_d \subseteq tmpAddon
        /\ \A t, f : Due(t, f) /\ t \notin todo => C[f] = file[f]
    BY <1>1 DEF KeepInv, SavedIsKept
  <2>2. ASSUME NEW t, NEW f, Due(t, f)', t \notin todo' PROVE C'[f] = file[f]
    <3>1. /\ t \in Scripts /\ t \in addon_d /\ f \in Files /\ file[f] # NoFile /\ Keeps(t, f)'
      BY <1>1, <2>1, <2>2 DEF Due, Typed, TypeOK
    <3>2. f \in Lists[t]
      BY <3>1 DEF Keeps
    <3>3. CASE f \in Lists[s]
      BY <1>5, <1>6, <3>1, <3>3
    <3>4. CASE f \notin Lists[s]
      <4>1. t \notin todo
        BY <1>3, <2>2, <3>2, <3>4
      <4>2. Due(t, f)
        BY <1>1, <1>4, <2>2, KeptBefore DEF Due
      <4> QED
        BY <1>5, <2>1, <3>1, <3>4, <4>1, <4>2
    <3> QED
      BY <3>3, <3>4
  <2> QED
    BY <2>1, <2>2
<1> QED
  BY <1>1, <1>7, <1>8, <1>9 DEF KeepInv, RestoredAll, AddonsSurvive

LEMMA RestoreStartKeeps ==
    ASSUME Typed, KeepInv, RestoreStart
    PROVE  KeepInv'
<1>1. /\ image' = image /\ file' = file /\ addon_d' = addon_d /\ C' = C
      /\ tmpAddon' = tmpAddon /\ saved' = saved /\ mountFailed' = mountFailed /\ torn' = torn
      /\ pc = "restore_start" /\ pc' \in {"restore", "idle"}
      /\ pc' = "restore" => todo' = tmpAddon
  BY DEF RestoreStart, system, recovery, tmp, history
<1>2. ScriptHasItsFiles'
  BY <1>1 DEF KeepInv, ScriptHasItsFiles, Keeps
<1>3. BackedUp' /\ RestoredAll'
  BY <1>1 DEF KeepInv, BackedUp, RestoredAll, HasBackup, Keeps
<1>4. SavedIsKept'
  <2>1. \A t, f : Due(t, f)' <=> Due(t, f)
    BY <1>1 DEF Due, Keeps
  <2>2. \A t, f : saved # NoSaved /\ Due(t, f) => t \in tmpAddon
    BY <1>1 DEF KeepInv, SavedIsKept, Due
  <2> QED
    BY <1>1, <2>1, <2>2 DEF KeepInv, SavedIsKept
<1> QED
  BY <1>1, <1>2, <1>3, <1>4 DEF KeepInv, AddonsSurvive

LEMMA RestoreScriptKeeps ==
    ASSUME Typed, KeepInv, RestoreScript
    PROVE  KeepInv'
<1>1. /\ image' = image /\ addon_d' = addon_d /\ tmpAddon' = tmpAddon /\ C' = C
      /\ saved' = saved /\ torn' = torn /\ pc = "restore" /\ pc' = "restore"
      /\ image \in Images
      /\ addon_d \subseteq Scripts /\ tmpAddon \subseteq Scripts
  BY DEF RestoreScript, tmp, Typed, TypeOK, Phased
<1>2. PICK s \in todo : s = Script
  BY ScriptToDo DEF RestoreScript, Typed, TypeOK
<1> DEFINE reached == Reached(mounted')
<1>3. /\ s \in Scripts /\ MountFor(s) /\ todo' = todo \ {s}
      /\ Lists[s] \in SUBSET Files /\ file' = Restored(Lists[s], reached, file)
  BY <1>2 DEF RestoreScript, Typed, TypeOK
<1>4. mountFailed => mountFailed'
  BY <1>1, <1>3, MountsFor
<1>5. \A t \in Scripts : \A f \in Lists[s] : Keeps(t, f)' => f \in reached
  BY <1>1, <1>3, KeptIsReached DEF Reached
<1>6. \A o \in Files : Partition[o] \notin Extra => o \in reached
  BY <1>1 DEF Reached, Leads
<1> HIDE DEF reached
<1>7. \A t \in Scripts : \A f \in Lists[t] :
             /\ file'[f] = IF f \in Lists[s] \cap reached /\ C[f] # NoFile THEN C[f] ELSE file[f]
             /\ \A o \in Obsolete[f] :
                  /\ file[o] = NoFile => file'[o] = NoFile
                  /\ f \in Lists[s] /\ C[f] # NoFile /\ o \in reached => file'[o] = NoFile
  <2>1. s \in Scripts /\ Lists[s] \subseteq Lists[s] /\ file' = Restored(Lists[s], reached, file)
    BY <1>3
  <2> QED
    BY ONLY <2>1, RestoreKeeps
<1>8. ScriptHasItsFiles'
  <2> SUFFICES ASSUME NEW t \in addon_d \ torn, NEW f \in Files, Keeps(t, f)'
               PROVE  file'[f] # NoFile
    BY <1>1 DEF ScriptHasItsFiles
  <2>1. t \in Scripts /\ f \in Lists[t] /\ Keeps(t, f)
    BY <1>1, <1>4, KeptBefore DEF Keeps
  <2>2. file[f] # NoFile
    BY <1>1, <2>1 DEF KeepInv, ScriptHasItsFiles, NoImage
  <2> QED
    BY <1>7, <2>1, <2>2
<1>9. BackedUp'
  BY <1>1, <1>4, KeptBefore DEF KeepInv, BackedUp, HasBackup
<1>10. RestoredAll'
  <2> SUFFICES ASSUME NEW t \in tmpAddon \ torn, t \notin todo \/ t = s,
                      NEW f \in Files, Keeps(t, f)'
               PROVE  file'[f] # NoFile
    BY <1>1, <1>3 DEF RestoredAll, HasFiles
  <2>1. t \in Scripts /\ f \in Lists[t] /\ Keeps(t, f)
    BY <1>1, <1>4, KeptBefore DEF Keeps
  <2>2. C[f] # NoFile
    BY <1>1, <2>1 DEF KeepInv, BackedUp, HasBackup
  <2>3. CASE t \notin todo
    <3>1. file[f] # NoFile
      BY <1>1, <2>1, <2>3 DEF KeepInv, RestoredAll, HasFiles
    <3> QED
      BY <1>7, <2>1, <3>1
  <2>4. CASE t = s
    BY <1>5, <1>7, <2>1, <2>2, <2>4
  <2> QED
    BY <2>3, <2>4
<1>11. SavedIsKept'
  <2> SUFFICES ASSUME saved # NoSaved
               PROVE  /\ saved.addon_d \subseteq tmpAddon
                      /\ \A t, f : Due(t, f)' =>
                          /\ C[f] = saved.file[f]
                          /\ t \notin todo' => InPlace(f)'
    BY <1>1 DEF SavedIsKept
  <2>1. /\ saved.addon_d \subseteq tmpAddon
        /\ \A t, f : Due(t, f) =>
            /\ C[f] = saved.file[f]
            /\ t \notin todo => InPlace(f)
    BY <1>1 DEF KeepInv, SavedIsKept
  <2>2. ASSUME NEW t, NEW f, Due(t, f)'
        PROVE  C[f] = saved.file[f] /\ (t \notin todo' => InPlace(f)')
    <3>1. /\ t \in Scripts /\ f \in Lists[t] /\ Keeps(t, f)' /\ Due(t, f)
          /\ Obsolete[f] \subseteq Files /\ saved.file[f] # NoFile
      BY <1>1, <1>4, <2>1, <2>2, KeptBefore DEF Due, Keeps
    <3>2. C[f] = saved.file[f] /\ C[f] # NoFile
      BY <2>1, <3>1
    <3>3. CASE t \notin todo
      <4>1. file[f] = saved.file[f]
        BY <2>1, <3>1, <3>3 DEF InPlace
      <4>2. file'[f] = saved.file[f]
        BY <1>7, <3>1, <3>2, <4>1
      <4>3. \A o \in Obsolete[f] : Partition[o] \notin Extra => file'[o] = NoFile
        BY <1>7, <2>1, <3>1, <3>3 DEF InPlace
      <4> QED
        BY <1>1, <3>2, <4>2, <4>3 DEF InPlace
    <3>4. CASE t = s
      <4>1. file'[f] = saved.file[f]
        BY <1>5, <1>7, <3>1, <3>2, <3>4
      <4>2. \A o \in Obsolete[f] : Partition[o] \notin Extra => file'[o] = NoFile
        BY <1>6, <1>7, <3>1, <3>2, <3>4
      <4> QED
        BY <1>1, <3>2, <4>1, <4>2 DEF InPlace
    <3> QED
      BY <1>3, <3>2, <3>3, <3>4
  <2> QED
    BY <2>1, <2>2
<1> QED
  BY <1>1, <1>8, <1>9, <1>10, <1>11 DEF KeepInv, AddonsSurvive

LEMMA RestoreEndKeeps ==
    ASSUME Typed, KeepInv, RestoreEnd
    PROVE  KeepInv'
<1>1. /\ image' = image /\ file' = file /\ addon_d' = addon_d \cup tmpAddon
      /\ tmpAddon' = {} /\ saved' = saved /\ mountFailed' = mountFailed /\ torn' = torn
      /\ pc = "restore" /\ todo = {} /\ pc' = "updated" /\ image \in Images
  BY DEF RestoreEnd, history, Typed, Phased
<1>2. ScriptHasItsFiles'
  BY <1>1 DEF KeepInv, ScriptHasItsFiles, RestoredAll, HasFiles, Keeps, NoImage
<1>3. AddonsSurvive'
  <2> SUFFICES ASSUME saved # NoSaved, NEW s \in saved.addon_d
               PROVE  /\ s \in addon_d'
                      /\ \A f \in Files : Keeps(s, f)' /\ saved.file[f] # NoFile => InPlace(f)'
    BY <1>1 DEF AddonsSurvive, InPlace
  <2>1. s \in addon_d'
    BY <1>1 DEF KeepInv, SavedIsKept
  <2>2. ASSUME NEW f \in Files, Keeps(s, f)', saved.file[f] # NoFile PROVE InPlace(f)'
    <3>1. Due(s, f)
      BY <1>1, <2>2 DEF Due, Keeps
    <3>2. InPlace(f)
      BY <1>1, <3>1 DEF KeepInv, SavedIsKept
    <3> QED
      BY <1>1, <3>2 DEF InPlace
  <2> QED
    BY <2>1, <2>2
<1> QED
  BY <1>1, <1>2, <1>3 DEF KeepInv, BackedUp, RestoredAll, SavedIsKept

\* While nothing but files is restored: addon.d has the scripts of the build.
LEMMA CutOffInScriptKeeps ==
    ASSUME Typed, KeepInv, CutOffInScript
    PROVE  KeepInv'
<1>1. /\ image' = image /\ addon_d' = addon_d /\ mountFailed' = mountFailed /\ torn' = torn
      /\ image \in Images /\ addon_d = StockScripts[image] /\ addon_d \subseteq Scripts
  BY DEF CutOffInScript, Typed, TypeOK, Phased
<1>2. PICK s \in todo : s = Script
  BY ScriptToDo DEF CutOffInScript, Typed, TypeOK
<1>3. s \in Scripts /\ Lists[s] \in SUBSET Files /\ file \in [Files -> Contents]
  BY <1>2 DEF Typed, TypeOK
<1>4. PICK mounts \in {{}, Separate[image]}, lost \in SUBSET Files :
        file' = Losing(lost, Restored(Lists[s], Reached(mounts), file))
  BY <1>2 DEF CutOffInScript
<1> DEFINE restored == Restored(Lists[s], Reached(mounts), file)
<1>5. restored \in [Files -> Contents]
  BY <1>3, RestoredFiles
<1>6. \A t \in Scripts : \A f \in Lists[t] : file[f] # NoFile => restored[f] # NoFile
  <2>1. Lists[s] \subseteq Lists[s]
    OBVIOUS
  <2> QED
    BY <1>3, <2>1, RestoreAnyKeeps
<1> HIDE DEF restored
<1>7. \A t \in addon_d : \A f \in Lists[t] : restored[f] # NoFile => file'[f] # NoFile
  BY <1>1, <1>4, <1>5, LosingFiles DEF restored
<1>8. ScriptHasItsFiles'
  <2> SUFFICES ASSUME NEW t \in addon_d \ torn, NEW f \in Files, Keeps(t, f)
               PROVE  file'[f] # NoFile
    BY <1>1 DEF ScriptHasItsFiles, Keeps
  <2>1. t \in Scripts /\ f \in Lists[t]
    BY <1>1 DEF Keeps
  <2>2. file[f] # NoFile
    BY <1>1 DEF KeepInv, ScriptHasItsFiles, NoImage
  <2> QED
    BY <1>6, <1>7, <2>1, <2>2
<1> QED
  BY <1>8, ResetKeeps DEF CutOffInScript

\* Scripts are through restoring before they are copied; one whose files are lost
\* is torn.
LEMMA CutOffInAddonDKeeps ==
    ASSUME Typed, KeepInv, CutOffInAddonD
    PROVE  KeepInv'
<1>1. /\ image' = image /\ mountFailed' = mountFailed /\ todo = {} /\ pc = "restore"
      /\ image \in Images /\ addon_d = StockScripts[image] /\ addon_d \subseteq Scripts
      /\ tmpAddon \subseteq Scripts /\ file \in [Files -> Contents]
  BY DEF CutOffInAddonD, Typed, TypeOK, Phased
<1>2. PICK scripts \in SUBSET tmpAddon, lost \in SUBSET Files :
        /\ addon_d' = addon_d \cup scripts
        /\ file' = Losing(lost, file)
        /\ torn' = torn \cup {s \in scripts \ addon_d : Lists[s] \cap lost # {}}
  BY DEF CutOffInAddonD
<1>3. ScriptHasItsFiles'
  <2> SUFFICES ASSUME NEW t \in (addon_d \cup scripts) \ torn', NEW f \in Files, Keeps(t, f)
               PROVE  file'[f] # NoFile
    BY <1>1, <1>2 DEF ScriptHasItsFiles, Keeps
  <2>1. t \in Scripts /\ f \in Lists[t] /\ t \notin torn
    BY <1>1, <1>2 DEF Keeps
  <2>2. file[f] # NoFile
    <3>1. t \in addon_d => file[f] # NoFile
      BY <1>1, <2>1 DEF KeepInv, ScriptHasItsFiles, NoImage
    <3>2. t \in tmpAddon => file[f] # NoFile
      BY <1>1, <2>1 DEF KeepInv, RestoredAll, HasFiles
    <3> QED
      BY <1>2, <3>1, <3>2
  <2>3. CASE t \in addon_d
    BY <1>1, <1>2, <2>1, <2>2, <2>3, LosingFiles
  <2>4. CASE t \notin addon_d
    <3>1. f \notin lost
      BY <1>2, <2>1, <2>4
    <3> QED
      BY <1>2, <2>2, <3>1 DEF Losing
  <2> QED
    BY <2>3, <2>4
<1> QED
  BY <1>3, ResetKeeps DEF CutOffInAddonD

LEMMA NextKeeps == Typed /\ KeepInv /\ [Next]_vars => KeepInv'
<1> SUFFICES ASSUME Typed, KeepInv, [Next]_vars PROVE KeepInv'
  OBVIOUS
<1> USE DEF KeepInv, BackedUp, HasBackup, Keeps, RestoredAll, HasFiles,
            SavedIsKept, Due, InPlace, ScriptHasItsFiles, AddonsSurvive
<1>1. CASE Flash
  BY <1>1 DEF Flash, system, tmp
<1>2. CASE Format
  BY <1>2 DEF Format, recovery, tmp, history
<1>3. CASE Write
  BY <1>3, WriteKeeps
<1>4. CASE Fail
  BY <1>4 DEF Fail, system, recovery, tmp, history
<1>5. CASE BackupStart
  BY <1>5, BackupStartKeeps
<1>6. CASE BackupScript
  BY <1>6, BackupScriptKeeps
<1>7. CASE BackupEnd
  BY <1>7 DEF BackupEnd, system, tmp, history
<1>8. CASE RestoreStart
  BY <1>8, RestoreStartKeeps
<1>9. CASE RestoreScript
  BY <1>9, RestoreScriptKeeps
<1>10. CASE RestoreEnd
  BY <1>10, RestoreEndKeeps
<1>11. CASE CutOff
  BY <1>11, ResetKeeps DEF CutOff, system
<1>12. CASE CutOffInScript
  BY <1>12, CutOffInScriptKeeps
<1>13. CASE CutOffInAddonD
  BY <1>13, CutOffInAddonDKeeps
<1>14. CASE UNCHANGED vars
  BY <1>14 DEF vars, system, recovery, tmp, history
<1> QED
  BY <1>1, <1>2, <1>3, <1>4, <1>5, <1>6, <1>7, <1>8, <1>9, <1>10, <1>11, <1>12, <1>13, <1>14
  DEF Next

LEMMA AlwaysKept == Spec => [](Typed /\ KeepInv)
<1>1. Init => Typed /\ KeepInv
  BY InitTyped, InitKeeps
<1>2. Typed /\ KeepInv /\ [Next]_vars => (Typed /\ KeepInv)'
  BY NextTyped, NextKeeps
<1> QED
  BY <1>1, <1>2, PTL DEF Spec

\* backuptool.sh keeps the add-ons: when an update is restored, every script
\* that was in addon.d at the last backup is there, with every file that it can
\* be relied on to keep, and without what these files replace; also if other
\* builds were flashed between, whose restore was refused, or that failed.
THEOREM AddonsSurviveUpdates == Spec => []AddonsSurvive
<1>1. Typed /\ KeepInv => AddonsSurvive
  BY DEF KeepInv
<1> QED
  BY AlwaysKept, <1>1, PTL

\* restore_addon_d comes after the scripts are run: wherever the power is cut, a
\* script that is in addon.d has the files it keeps, so that the next update
\* carries them on.
THEOREM ScriptsHaveTheirFiles == Spec => []ScriptHasItsFiles
<1>1. Typed /\ KeepInv => ScriptHasItsFiles
  BY DEF KeepInv
<1> QED
  BY AlwaysKept, <1>1, PTL
=============================================================================
