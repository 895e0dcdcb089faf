------------------------ MODULE BackupToolAB_proofs -------------------------
(***************************************************************************)
(* What the add-on backup between slots guarantees for any builds, any     *)
(* partitions, any add-ons and any number of stops.                        *)
(*                                                                         *)
(* The argument: a backup holds nothing but the files of the system that   *)
(* runs, also after a restore that was cut off; while the scripts back up, *)
(* those that are through have their files in it; while they restore, a    *)
(* file is in the backup or where it belongs, and an add-on's script that  *)
(* is through has its files where they belong.                             *)
(***************************************************************************)
EXTENDS BackupToolAB, TLAPS, WellFoundedInduction

USE BackupToolABAssumption

\* The scripts that are not of version 1, and the files that are theirs.
Wanted == {s \in addon_d : Version[s] >= 2}
Carried(s) == {f \in Lists[s] \ Odexed : file[f] # NoFile}

\* A file is in the updated slot, and what it replaces is not.
InPlace(f) ==
    /\ slotFile[f] = file[f]
    /\ \A o \in Obsolete[f] : Partition[o] \notin Separate[update] => slotFile[o] = NoFile

Idle == pc \notin {"backup", "restore"} => todo = {}

OnlyOurs == \A f \in Files : C[f] \in {NoFile, file[f]}

Remembered ==
    VersionIn[running] # "nowhere" /\ pc \in {"backup", "restore_start", "restore"} =>
        Wanted \subseteq tmpAddon

BackedUp ==
    pc \in {"backup", "restore_start"} =>
        \A s \in tmpAddon \ todo : \A f \in Carried(s) : C[f] = file[f]

NoneLost ==
    pc = "restore" =>
        /\ \A s \in tmpAddon : \A f \in Carried(s) : C[f] = file[f] \/ InPlace(f)
        /\ \A s \in tmpAddon \ todo : \A f \in Carried(s) : Carries(s, f) => InPlace(f)

Mounted ==
    /\ TypeOK /\ Idle /\ RunningStaysMounted /\ NothingIsLeft
    /\ mountFailed \in BOOLEAN /\ tmpBusy \in BOOLEAN
CarryInv == OnlyOurs /\ Remembered /\ BackedUp /\ NoneLost /\ AddonsCarriedOver

-----------------------------------------------------------------------------
(* The operators.                                                          *)

\* The script that is next is one that is still to do: there is a least one.
LEMMA ScriptToDo ==
    ASSUME todo \subseteq Scripts, todo # {}
    PROVE  Script \in todo
<1> DEFINE below == {ss \in Nat \X Nat : ss[1] < ss[2]}
<1>1. OpToRel(<, Nat) = below
  BY DEF OpToRel
<1>2. IsWellFoundedOn(below, Nat)
  BY <1>1, NatLessThanWellFounded
<1> HIDE DEF below
<1>3. PICK s \in todo : \A t \in todo : ~ (<<t, s>> \in below)
  BY <1>2, WFMin
<1>4. \A t \in todo : s <= t
  <2> SUFFICES ASSUME NEW t \in todo PROVE s <= t
    OBVIOUS
  <2>1. t \in Nat /\ s \in Nat
    OBVIOUS
  <2>2. <<t, s>> \in Nat \X Nat /\ ~ (<<t, s>> \in below)
    BY <1>3, <2>1
  <2>3. ~ (t < s)
    BY <2>2 DEF below
  <2> QED
    BY <2>1, <2>3
<1> QED
  BY <1>4 DEF Script

\* The files of both builds.
LEMMA BuiltFiles ==
    ASSUME NEW i \in Images
    PROVE  AsBuilt(i) \in [Files -> Contents]
BY DEF AsBuilt, Contents

\* The paths that are unmounted are none that lead to the system that runs.
LEMMA UmountOfTheSlot ==
    ASSUME update \in Images, slotMounted \subseteq Separate[update], umount_extra
    PROVE  runMounted' = runMounted /\ slotMounted' = {}
<1>1. Separate[update] \subseteq Extra
  OBVIOUS
<1>2. \A p \in {q \in Extra : ~ IsLink(q)} : ~ IsLink(p)
  OBVIOUS
<1>3. \A p \in slotMounted : p \in Extra /\ ~ IsLink(p)
  BY <1>1 DEF IsLink
<1> QED
  BY <1>2, <1>3 DEF umount_extra, Unmount

\* What mount_extra mounts: all that the update has, but for what fails.
LEMMA MountExtra ==
    ASSUME update \in Images, slotMounted \subseteq Separate[update], mount_extra
    PROVE  /\ runMounted' = runMounted
           /\ \E failed \in SUBSET (Separate[update] \ slotMounted) :
                /\ slotMounted' = Separate[update] \ failed
                /\ mountFailed' = (mountFailed \/ failed # {})
<1>1. Separate[update] \subseteq Extra
  OBVIOUS
<1>2. {p \in Extra \ slotMounted : ~ IsLink(p)} = Separate[update] \ slotMounted
  BY <1>1 DEF IsLink
<1>3. PICK failed \in SUBSET (Separate[update] \ slotMounted) :
        /\ slotMounted' = slotMounted \cup ((Separate[update] \ slotMounted) \ failed)
        /\ mountFailed' = (mountFailed \/ failed # {})
  BY <1>2 DEF mount_extra
<1>4. slotMounted' = Separate[update] \ failed
  BY <1>3
<1> QED
  BY <1>3, <1>4 DEF mount_extra

\* Mounting partitions of the slot and unmounting them is about the slot only.
LEMMA MountsOfTheSlot ==
    ASSUME NEW s, Mounted, MountFor(s)
    PROVE  /\ runMounted' = runMounted
           /\ slotMounted' \subseteq Separate[update]
           /\ mountFailed' \in BOOLEAN
<1>0. update \in Images /\ slotMounted \subseteq Separate[update] /\ mountFailed \in BOOLEAN
  BY DEF Mounted, TypeOK
<1>1. CASE Version[s] >= 3
  BY <1>0, <1>1, MountExtra DEF MountFor
<1>2. CASE ~ (Version[s] >= 3)
  BY <1>0, <1>2, UmountOfTheSlot DEF MountFor
<1> QED
  BY <1>1, <1>2

\* What the restore makes of the files, and what is left of the backup.
LEMMA RestoredFiles ==
    ASSUME Mounted, NEW files \in SUBSET Files, NEW reached
    PROVE  /\ Restored(files, reached) \in [Files -> Contents]
           /\ Moved(files, reached) \in [Files -> Contents]
           /\ OnlyOurs => \A f \in Files : Moved(files, reached)[f] \in {NoFile, file[f]}
<1>1. /\ C \in [Files -> Contents] /\ slotFile \in [Files -> Contents]
      /\ NoFile \in Contents
  BY DEF Mounted, TypeOK, Contents
<1>2. Restored(files, reached) \in [Files -> Contents]
  BY <1>1, Zenon DEF Restored
<1>3. Moved(files, reached) \in [Files -> Contents]
  BY <1>1 DEF Moved
<1>4. ASSUME OnlyOurs, NEW f \in Files PROVE Moved(files, reached)[f] \in {NoFile, file[f]}
  BY <1>4 DEF Moved, OnlyOurs
<1> QED
  BY <1>2, <1>3, <1>4

\* A stop leaves all that is mounted to the next start.
LEMMA StopMounted ==
    ASSUME Mounted, NEW files \in [Files -> Contents], NEW backup \in [Files -> Contents],
           NEW scripts \in SUBSET Scripts, StopAndStart(files, backup, scripts)
    PROVE  Mounted'
<1>1. TypeOK'
  <2>1. /\ {running, update}' \subseteq Images /\ addon_d' \subseteq Scripts
        /\ file' \in [Files -> Contents]
    BY DEF Mounted, TypeOK, StopAndStart, world
  <2>2. runMounted' \subseteq Extra /\ slotMounted' \subseteq Separate[update']
    BY DEF Mounted, TypeOK, StopAndStart, world
  <2>3. slotFile' \in [Files -> Contents] /\ slotAddon' \subseteq Scripts
    <3>1. AsBuilt(update) \in [Files -> Contents] /\ StockScripts[update] \subseteq Scripts
      BY BuiltFiles DEF Mounted, TypeOK
    <3>2. \/ slotFile' = files /\ slotAddon' = scripts
          \/ slotFile' = AsBuilt(update) /\ slotAddon' = StockScripts[update]
      BY DEF StopAndStart
    <3> QED
      BY <3>1, <3>2
  <2>4. C' \in [Files -> Contents]
    BY DEF StopAndStart, Nothing, Contents
  <2>5. /\ tmpAddon' \subseteq {s \in addon_d' : Version[s] >= 2}
        /\ todo' \subseteq tmpAddon'
    BY DEF Mounted, TypeOK, StopAndStart, world
  <2>6. pc' = "start" /\ stops' \in 0 .. MaxStops
    BY DEF Mounted, TypeOK, StopAndStart
  <2> QED
    BY <2>1, <2>2, <2>3, <2>4, <2>5, <2>6 DEF TypeOK
<1>2. Idle' /\ RunningStaysMounted' /\ NothingIsLeft' /\ (mountFailed \in BOOLEAN /\ tmpBusy \in BOOLEAN)'
  BY DEF Mounted, RunningStaysMounted, NothingIsLeft, StopAndStart, world, Idle
<1> QED
  BY <1>1, <1>2 DEF Mounted

-----------------------------------------------------------------------------
(* What is mounted.                                                        *)

LEMMA InitMounted == Init => Mounted
<1> SUFFICES ASSUME Init PROVE Mounted
  OBVIOUS
<1>1. file \in [Files -> Contents] /\ slotFile \in [Files -> Contents]
  <2>1. \A i \in Images : AsBuilt(i) \in [Files -> Contents]
    BY BuiltFiles
  <2>2. Addon \in Contents
    BY DEF Contents
  <2> QED
    BY <2>1, <2>2 DEF Init
<1>2. addon_d \subseteq Scripts /\ slotAddon \subseteq Scripts
  BY DEF Init
<1>3. C \in [Files -> Contents]
  BY DEF Init, Nothing, Contents
<1>4. runMounted \subseteq Extra /\ {running, update} \subseteq Images
  BY DEF Init
<1>5. /\ slotMounted = {} /\ tmpAddon = {} /\ todo = {} /\ pc = "start"
      /\ stops = 0 /\ mountFailed = FALSE /\ tmpBusy = FALSE
  BY DEF Init
<1>6. TypeOK
  BY <1>1, <1>2, <1>3, <1>4, <1>5 DEF TypeOK
<1> QED
  BY <1>5, <1>6 DEF Init, Mounted, Idle, RunningStaysMounted, NothingIsLeft

LEMMA NextMounted == Mounted /\ [Next]_vars => Mounted'
<1> SUFFICES ASSUME Mounted, [Next]_vars PROVE Mounted'
  OBVIOUS
<1> USE DEF Mounted
<1>0. umount_extra => runMounted' = runMounted /\ slotMounted' = {}
  BY UmountOfTheSlot DEF TypeOK
<1>1. CASE BackupStart
  <2>1. /\ tmpAddon' \subseteq {s \in addon_d : Version[s] >= 2}
        /\ todo' \subseteq tmpAddon' /\ pc' \in {"backup", "restore_start"}
        /\ pc' = "backup" => tmpMounted'
        /\ pc' # "backup" => todo' = {}
    <3>1. CASE check_prereq
      <4>1. /\ tmpAddon' = {s \in tmpAddon \cup addon_d : Version[s] # 1}
            /\ todo' = tmpAddon' /\ pc' = "backup" /\ tmpMounted'
        BY <1>1, <3>1 DEF BackupStart
      <4>2. \A s \in addon_d : Version[s] \in 1 .. 3
        BY DEF TypeOK
      <4>3. tmpAddon' \subseteq {s \in addon_d : Version[s] >= 2}
        <5> SUFFICES ASSUME NEW s \in tmpAddon' PROVE s \in addon_d /\ Version[s] >= 2
          OBVIOUS
        <5> QED
          BY <4>1, <4>2 DEF TypeOK
      <4> QED
        BY <4>1, <4>3
    <3>2. CASE ~ check_prereq
      BY <1>1, <3>2 DEF BackupStart, Cleanup, TypeOK, Idle
    <3> QED
      BY <3>1, <3>2
  <2>2. /\ runMounted' = runMounted /\ slotMounted' \subseteq Separate[update]
        /\ C' \in [Files -> Contents] /\ tmpBusy' \in BOOLEAN
    BY <1>0, <1>1 DEF BackupStart, Cleanup, TypeOK, Nothing, Contents
  <2> QED
    BY <1>1, <2>1, <2>2 DEF BackupStart, world, slot, TypeOK, Idle, RunningStaysMounted, NothingIsLeft
<1>2. CASE BackupScript
  <2>1. /\ runMounted' = runMounted /\ slotMounted' \subseteq Separate[update]
        /\ mountFailed' \in BOOLEAN
    BY <1>2, MountsOfTheSlot DEF BackupScript
  <2>2. C' \in [Files -> Contents]
    BY <1>2 DEF BackupScript, TypeOK
  <2> QED
    BY <1>2, <2>1, <2>2
    DEF BackupScript, world, slot, TypeOK, Idle, RunningStaysMounted, NothingIsLeft
<1>3. CASE BackupEnd
  BY <1>0, <1>3
  DEF BackupEnd, world, slot, tmp, history, TypeOK, Idle, RunningStaysMounted, NothingIsLeft
<1>4. CASE RestoreStart
  <2>1. CASE check_prereq
    BY <1>4, <2>1
    DEF RestoreStart, world, slot, tmp, TypeOK, Idle, RunningStaysMounted, NothingIsLeft
  <2>2. CASE ~ check_prereq
    <3>1. C' \in [Files -> Contents]
      BY <1>4, <2>2 DEF RestoreStart, Cleanup, Nothing, Contents
    <3>2. slotMounted' = {} /\ runMounted' = runMounted
      BY <1>0, <1>4, <2>2 DEF RestoreStart, Cleanup
    <3> QED
      BY <1>4, <2>2, <3>1, <3>2
      DEF RestoreStart, Cleanup, world, slot, TypeOK, Idle, RunningStaysMounted, NothingIsLeft, Nothing
  <2> QED
    BY <2>1, <2>2
<1>5. CASE RestoreScript
  <2>1. /\ runMounted' = runMounted /\ slotMounted' \subseteq Separate[update]
        /\ mountFailed' \in BOOLEAN
    BY <1>5, MountsOfTheSlot DEF RestoreScript
  <2>2. Lists[Script] \in SUBSET Files
    BY <1>5, ScriptToDo DEF RestoreScript, TypeOK
  <2>3. C' \in [Files -> Contents] /\ slotFile' \in [Files -> Contents]
    BY <1>5, <2>2, RestoredFiles DEF RestoreScript
  <2> QED
    BY <1>5, <2>1, <2>3
    DEF RestoreScript, world, TypeOK, Idle, RunningStaysMounted, NothingIsLeft
<1>6. CASE RestoreEnd
  <2>1. C' = Nothing /\ C' \in [Files -> Contents]
    BY <1>6 DEF RestoreEnd, Cleanup, Nothing, Contents
  <2>2. slotMounted' = {} /\ runMounted' = runMounted
    BY <1>0, <1>6 DEF RestoreEnd, Cleanup
  <2> QED
    BY <1>6, <2>1, <2>2
    DEF RestoreEnd, Cleanup, world, TypeOK, Idle, RunningStaysMounted, NothingIsLeft
<1>7. CASE Stop
  BY <1>7, StopMounted DEF Stop, TypeOK
<1>8. CASE StopInScript
  <2>1. Lists[Script] \in SUBSET Files
    BY <1>8, ScriptToDo DEF StopInScript, TypeOK
  <2>2. PICK mounted \in {{}, Separate[update]}, files \in SUBSET Lists[Script] :
            StopAndStart(Restored(files, Reached(mounted)), Moved(files, Reached(mounted)), slotAddon)
    BY <1>8 DEF StopInScript
  <2>3. /\ Restored(files, Reached(mounted)) \in [Files -> Contents]
        /\ Moved(files, Reached(mounted)) \in [Files -> Contents]
    BY <2>1, RestoredFiles
  <2> QED
    BY <2>2, <2>3, StopMounted DEF TypeOK
<1>9. CASE StopInAddonD
  BY <1>9, StopMounted DEF StopInAddonD, TypeOK
<1>10. CASE UNCHANGED vars
  BY <1>10
  DEF vars, world, mounts, slot, tmp, history, TypeOK, Idle, RunningStaysMounted, NothingIsLeft
<1> QED
  BY <1>1, <1>2, <1>3, <1>4, <1>5, <1>6, <1>7, <1>8, <1>9, <1>10 DEF Next

\* The state is of its types.
THEOREM BackupABTypeCorrect == Spec => []TypeOK
<1>1. Mounted => TypeOK
  BY DEF Mounted
<1> QED
  BY InitMounted, NextMounted, <1>1, PTL DEF Spec

\* backuptool_ab.sh:161, "Careful with unmounting": the system that runs never
\* loses one of its partitions, wherever the links of the update lead: umount_extra
\* only takes paths that are no links.
THEOREM RunningKeepsItsPartitions == Spec => []RunningStaysMounted
<1>1. Mounted => RunningStaysMounted
  BY DEF Mounted
<1> QED
  BY InitMounted, NextMounted, <1>1, PTL DEF Spec

\* cleanup: when the script is through, whether it worked or refused to, no
\* backup and no mount of it is left, but for a tmpfs that was busy.
THEOREM CleanedUp == Spec => []NothingIsLeft
<1>1. Mounted => NothingIsLeft
  BY DEF Mounted
<1> QED
  BY InitMounted, NextMounted, <1>1, PTL DEF Spec

-----------------------------------------------------------------------------
(* What is carried over.                                                   *)

\* A build that says its version is accepted: its partitions are mounted.
LEMMA Accepted ==
    ASSUME Mounted, VersionIn[running] # "nowhere"
    PROVE  check_prereq
BY DEF Mounted, RunningStaysMounted, check_prereq, Readable

\* The scripts of add-ons list files, and no script lists what is obsolete.
LEMMA CarriedFiles ==
    ASSUME Mounted, NEW s \in tmpAddon
    PROVE  /\ s \in Scripts
           /\ Carried(s) \subseteq Files
           /\ \A f \in Carried(s) : Obsolete[f] \subseteq Files
<1>1. s \in Scripts
  BY DEF Mounted, TypeOK
<1>2. Lists[s] \subseteq Files
  BY <1>1
<1> QED
  BY <1>1, <1>2 DEF Carried

\* A stop leaves only a backup of the system that runs.
LEMMA StopCarries ==
    ASSUME NEW files, NEW backup, NEW scripts, StopAndStart(files, backup, scripts),
           \A f \in Files : backup[f] \in {NoFile, file[f]}
    PROVE  CarryInv'
<1>1. pc' = "start" /\ file' = file
  BY DEF StopAndStart, world
<1>2. OnlyOurs'
  BY <1>1 DEF OnlyOurs, StopAndStart, Nothing
<1> QED
  BY <1>1, <1>2 DEF CarryInv, Remembered, BackedUp, NoneLost, AddonsCarriedOver

\* A file of a script that is restored, and one that is not of the script.
LEMMA RestoreKeeps ==
    ASSUME Mounted, OnlyOurs, NEW s \in Scripts, NEW reached,
           slotFile' = Restored(Lists[s], reached), C' = Moved(Lists[s], reached),
           UNCHANGED world, NEW t \in tmpAddon, NEW f \in Carried(t),
           C[f] = file[f] \/ InPlace(f),
           \A g \in Files : Partition[g] \notin Separate[update] => g \in reached
    PROVE  /\ C'[f] = file[f] \/ InPlace(f)'
           /\ InPlace(f) => InPlace(f)'
           /\ f \in Lists[s] \cap reached => InPlace(f)'
<1>1. /\ t \in Scripts /\ f \in Files /\ f \in Lists[t] /\ file[f] # NoFile
      /\ Obsolete[f] \subseteq Files /\ Lists[s] \subseteq Files
  BY CarriedFiles DEF Carried
<1> DEFINE restored == Restorable(Lists[s])
           removed  == UNION {Obsolete[g] : g \in restored}
<1>2. restored \subseteq Lists[s]
  BY DEF Restorable
<1>3. f \notin removed
  BY <1>1, <1>2
<1>4. \A o \in Obsolete[f] : o \in Files /\ o \notin restored
  BY <1>1, <1>2
<1>5. \A g \in Files :
        /\ g \in restored \cap reached => slotFile'[g] = C[g] /\ C'[g] = NoFile
        /\ g \notin restored \cap reached =>
            /\ C'[g] = C[g]
            /\ slotFile'[g] = IF g \in removed \cap reached THEN NoFile ELSE slotFile[g]
  BY DEF Restored, Moved
<1> HIDE DEF restored
<1>6. file' = file /\ update' = update
  BY DEF world
<1>7. CASE f \in restored \cap reached
  <2>1. C[f] # NoFile
    BY <1>7 DEF restored, Restorable
  <2>2. slotFile'[f] = file[f]
    BY <1>1, <1>5, <1>7, <2>1 DEF OnlyOurs
  <2>3. \A o \in Obsolete[f] : Partition[o] \notin Separate[update] => slotFile'[o] = NoFile
    BY <1>1, <1>4, <1>5, <1>7
  <2> QED
    BY <1>6, <2>2, <2>3 DEF InPlace
<1>8. CASE f \notin restored \cap reached
  <2>1. C'[f] = C[f] /\ slotFile'[f] = slotFile[f]
    BY <1>1, <1>3, <1>5, <1>8
  <2>2. InPlace(f) => InPlace(f)'
    <3>1. \A o \in Obsolete[f] : slotFile[o] = NoFile => slotFile'[o] = NoFile
      BY <1>4, <1>5
    <3> QED
      BY <1>6, <2>1, <3>1 DEF InPlace
  <2>3. f \in Lists[s] \cap reached => C[f] = NoFile
    BY <1>8 DEF restored, Restorable
  <2> QED
    BY <1>1, <2>1, <2>2, <2>3
<1> QED
  BY <1>7, <1>8

LEMMA InitCarries == Init => CarryInv
BY DEF Init, CarryInv, OnlyOurs, Nothing, Remembered, BackedUp, NoneLost, AddonsCarriedOver

LEMMA BackupStartCarries ==
    ASSUME Mounted, CarryInv, BackupStart
    PROVE  CarryInv'
<1>1. file' = file /\ addon_d' = addon_d /\ running' = running /\ pc' \in {"backup", "restore_start"}
  BY DEF BackupStart, world
<1>2. CASE check_prereq
  <2>1. /\ tmpAddon' = {s \in tmpAddon \cup addon_d : Version[s] # 1}
        /\ todo' = tmpAddon' /\ pc' = "backup" /\ C' = C
    BY <1>2 DEF BackupStart
  <2>2. Wanted \subseteq tmpAddon'
    BY <2>1 DEF Wanted, Mounted, TypeOK
  <2> QED
    BY <1>1, <2>1, <2>2
    DEF CarryInv, OnlyOurs, Remembered, Wanted, BackedUp, NoneLost, AddonsCarriedOver
<1>3. CASE ~ check_prereq
  <2>1. VersionIn[running] = "nowhere" /\ pc' = "restore_start" /\ tmpAddon' = {} /\ C' = Nothing
    BY <1>3, Accepted DEF BackupStart, Cleanup
  <2>2. OnlyOurs'
    BY <2>1 DEF OnlyOurs, Nothing
  <2> QED
    BY <1>1, <2>1, <2>2 DEF CarryInv, Remembered, BackedUp, NoneLost, AddonsCarriedOver
<1> QED
  BY <1>2, <1>3

LEMMA BackupScriptCarries ==
    ASSUME Mounted, CarryInv, BackupScript
    PROVE  CarryInv'
<1>1. /\ file' = file /\ addon_d' = addon_d /\ running' = running
      /\ tmpAddon' = tmpAddon /\ pc = "backup" /\ pc' = "backup"
      /\ todo' = todo \ {Script}
  BY DEF BackupScript, world
<1>2. \A f \in Files : Readable(Partition[f])
  BY DEF Mounted, RunningStaysMounted, Readable
<1>3. \A f \in Files :
        C'[f] = IF f \in Lists[Script] \ Odexed /\ file[f] # NoFile THEN file[f] ELSE C[f]
  BY <1>2 DEF BackupScript
<1>4. OnlyOurs'
  BY <1>1, <1>3 DEF CarryInv, OnlyOurs
<1>5. BackedUp'
  <2> SUFFICES ASSUME NEW s \in tmpAddon, s \notin todo \/ s = Script, NEW f \in Carried(s)
               PROVE  C'[f] = file[f]
    BY <1>1 DEF BackedUp, Carried
  <2>1. f \in Files /\ f \in Lists[s] \ Odexed /\ file[f] # NoFile
    BY CarriedFiles DEF Carried
  <2>2. CASE s = Script
    BY <1>3, <2>1, <2>2
  <2>3. CASE s \notin todo
    <3>1. C[f] = file[f]
      BY <1>1, <2>3 DEF CarryInv, BackedUp
    <3> QED
      BY <1>3, <2>1, <3>1
  <2> QED
    BY <2>2, <2>3
<1> QED
  BY <1>1, <1>4, <1>5 DEF CarryInv, Remembered, Wanted, NoneLost, AddonsCarriedOver

LEMMA RestoreStartCarries ==
    ASSUME Mounted, CarryInv, RestoreStart
    PROVE  CarryInv'
<1>1. /\ file' = file /\ addon_d' = addon_d /\ running' = running /\ update' = update
      /\ slotFile' = slotFile /\ pc = "restore_start"
  BY DEF RestoreStart, world, slot
<1>2. CASE check_prereq
  <2>1. tmpAddon' = tmpAddon /\ todo' = tmpAddon /\ C' = C /\ pc' = "restore"
    BY <1>2 DEF RestoreStart, tmp
  <2>2. \A s \in tmpAddon : \A f \in Carried(s) : C[f] = file[f]
    BY <1>1 DEF CarryInv, BackedUp, Mounted, Idle
  <2>3. NoneLost'
    BY <1>1, <2>1, <2>2 DEF NoneLost, Carried
  <2> QED
    BY <1>1, <2>1, <2>3
    DEF CarryInv, OnlyOurs, Remembered, Wanted, BackedUp, AddonsCarriedOver
<1>3. CASE ~ check_prereq
  <2>1. VersionIn[running] = "nowhere" /\ pc' = "done" /\ C' = Nothing
    BY <1>3, Accepted DEF RestoreStart, Cleanup
  <2>2. OnlyOurs'
    BY <2>1 DEF OnlyOurs, Nothing
  <2> QED
    BY <1>1, <2>1, <2>2 DEF CarryInv, Remembered, BackedUp, NoneLost, AddonsCarriedOver
<1> QED
  BY <1>2, <1>3

\* The partition of a file that a script carries over is mounted.
LEMMA CarriedReached ==
    ASSUME Mounted, NEW s, NEW f \in Files, MountFor(s), update' = update, Carries(s, f)'
    PROVE  f \in Reached(slotMounted')
<1>1. CASE Partition[f] \in Separate[update]
  <2>1. Version[s] >= 3 /\ ~ mountFailed'
    BY <1>1 DEF Carries
  <2>2. PICK failed \in SUBSET (Separate[update] \ slotMounted) :
            /\ slotMounted' = Separate[update] \ failed
            /\ mountFailed' = (mountFailed \/ failed # {})
    BY <2>1, MountExtra DEF MountFor, Mounted, TypeOK
  <2>3. failed = {}
    BY <2>1, <2>2 DEF Mounted
  <2> QED
    BY <1>1, <2>2, <2>3 DEF Reached
<1>2. CASE Partition[f] \notin Separate[update]
  BY <1>2 DEF Reached
<1> QED
  BY <1>1, <1>2

\* A partition that could not be mounted stays so: what could not be carried
\* over before is not expected now.
LEMMA CarriesBefore ==
    ASSUME Mounted, NEW s, NEW t, NEW f, MountFor(s), update' = update, Carries(t, f)'
    PROVE  Carries(t, f)
<1>1. mountFailed => mountFailed'
  BY DEF MountFor, mount_extra, Mounted
<1> QED
  BY <1>1 DEF Carries

LEMMA RestoreScriptCarries ==
    ASSUME Mounted, CarryInv, RestoreScript
    PROVE  CarryInv'
<1>1. /\ UNCHANGED world /\ file' = file /\ addon_d' = addon_d /\ running' = running
      /\ update' = update /\ tmpAddon' = tmpAddon /\ pc = "restore" /\ pc' = "restore"
  BY DEF RestoreScript, world
<1>2. PICK s \in todo : s = Script
  BY ScriptToDo DEF RestoreScript, Mounted, TypeOK
<1>3. s \in Scripts /\ Lists[s] \in SUBSET Files
  BY DEF Mounted, TypeOK
<1> DEFINE reached == Reached(slotMounted')
<1>4. /\ MountFor(s) /\ todo' = todo \ {s}
      /\ slotFile' = Restored(Lists[s], reached) /\ C' = Moved(Lists[s], reached)
  BY <1>2 DEF RestoreScript
<1>5. \A g \in Files : Partition[g] \notin Separate[update] => g \in reached
  BY DEF Reached
<1>6. OnlyOurs'
  BY <1>1, <1>3, <1>4, RestoredFiles DEF CarryInv, OnlyOurs
<1> HIDE DEF reached
<1>7. NoneLost'
  <2> SUFFICES ASSUME NEW t \in tmpAddon, NEW f \in Carried(t)
               PROVE  /\ C'[f] = file[f] \/ InPlace(f)'
                      /\ (t \notin todo \/ t = s) /\ Carries(t, f)' => InPlace(f)'
    BY <1>1, <1>4 DEF NoneLost, Carried
  <2>1. /\ C[f] = file[f] \/ InPlace(f)
        /\ t \notin todo /\ Carries(t, f) => InPlace(f)
    BY <1>1 DEF CarryInv, NoneLost
  <2>2. /\ C'[f] = file[f] \/ InPlace(f)'
        /\ InPlace(f) => InPlace(f)'
        /\ f \in Lists[s] \cap reached => InPlace(f)'
    BY <1>1, <1>3, <1>4, <1>5, <2>1, RestoreKeeps DEF CarryInv
  <2>3. CASE t \notin todo /\ Carries(t, f)'
    BY <1>1, <1>4, <2>1, <2>2, <2>3, CarriesBefore
  <2>4. CASE t = s /\ Carries(t, f)'
    <3>1. f \in Files /\ f \in Lists[s]
      BY <2>4, CarriedFiles DEF Carried
    <3>2. f \in reached
      BY <1>1, <1>4, <2>4, <3>1, CarriedReached DEF reached
    <3> QED
      BY <2>2, <3>1, <3>2
  <2> QED
    BY <2>2, <2>3, <2>4
<1> QED
  BY <1>1, <1>6, <1>7 DEF CarryInv, Remembered, Wanted, BackedUp, AddonsCarriedOver

LEMMA RestoreEndCarries ==
    ASSUME Mounted, CarryInv, RestoreEnd
    PROVE  CarryInv'
<1>1. /\ file' = file /\ addon_d' = addon_d /\ running' = running /\ update' = update
      /\ slotFile' = slotFile /\ mountFailed' = mountFailed
      /\ slotAddon' = slotAddon \cup tmpAddon
      /\ pc = "restore" /\ pc' = "done" /\ todo = {} /\ C' = Nothing
  BY DEF RestoreEnd, Cleanup, world
<1>2. OnlyOurs'
  BY <1>1 DEF OnlyOurs, Nothing
<1>3. AddonsCarriedOver'
  <2> SUFFICES ASSUME VersionIn[running] # "nowhere", NEW s \in addon_d, Version[s] >= 2
               PROVE  /\ s \in slotAddon'
                      /\ \A f \in Files : Carries(s, f)' /\ file[f] # NoFile => InPlace(f)'
    BY <1>1 DEF AddonsCarriedOver, InPlace
  <2>1. s \in tmpAddon
    BY <1>1 DEF CarryInv, Remembered, Wanted
  <2>2. ASSUME NEW f \in Files, Carries(s, f)', file[f] # NoFile PROVE InPlace(f)'
    <3>1. Carries(s, f) /\ f \in Carried(s)
      BY <1>1, <2>2 DEF Carries, Carried
    <3>2. InPlace(f)
      BY <1>1, <2>1, <3>1 DEF CarryInv, NoneLost
    <3> QED
      BY <1>1, <3>2 DEF InPlace
  <2> QED
    BY <1>1, <2>1, <2>2
<1> QED
  BY <1>1, <1>2, <1>3 DEF CarryInv, Remembered, BackedUp, NoneLost

LEMMA NextCarries == Mounted /\ CarryInv /\ [Next]_vars => CarryInv'
<1> SUFFICES ASSUME Mounted, CarryInv, [Next]_vars PROVE CarryInv'
  OBVIOUS
<1>1. CASE BackupStart
  BY <1>1, BackupStartCarries
<1>2. CASE BackupScript
  BY <1>2, BackupScriptCarries
<1>3. CASE BackupEnd
  BY <1>3
  DEF BackupEnd, world, slot, tmp, CarryInv, OnlyOurs, Remembered, Wanted, BackedUp, Carried,
      NoneLost, AddonsCarriedOver
<1>4. CASE RestoreStart
  BY <1>4, RestoreStartCarries
<1>5. CASE RestoreScript
  BY <1>5, RestoreScriptCarries
<1>6. CASE RestoreEnd
  BY <1>6, RestoreEndCarries
<1>7. CASE Stop
  BY <1>7, StopCarries DEF Stop, CarryInv, OnlyOurs
<1>8. CASE StopInScript
  <2>1. Lists[Script] \in SUBSET Files
    BY <1>8, ScriptToDo DEF StopInScript, Mounted, TypeOK
  <2>2. PICK mounted \in {{}, Separate[update]}, files \in SUBSET Lists[Script] :
            StopAndStart(Restored(files, Reached(mounted)), Moved(files, Reached(mounted)), slotAddon)
    BY <1>8 DEF StopInScript
  <2>3. \A f \in Files : Moved(files, Reached(mounted))[f] \in {NoFile, file[f]}
    BY <2>1, RestoredFiles DEF CarryInv
  <2> QED
    BY <2>2, <2>3, StopCarries
<1>9. CASE StopInAddonD
  BY <1>9, StopCarries DEF StopInAddonD, CarryInv, OnlyOurs
<1>10. CASE UNCHANGED vars
  BY <1>10
  DEF vars, world, mounts, slot, tmp, history, CarryInv, OnlyOurs, Remembered, Wanted, BackedUp, Carried,
      NoneLost, InPlace, AddonsCarriedOver, Carries
<1> QED
  BY <1>1, <1>2, <1>3, <1>4, <1>5, <1>6, <1>7, <1>8, <1>9, <1>10 DEF Next

\* backuptool_ab.sh restores what it backed up: on a device whose version is
\* accepted, once the script is through, however often it was stopped in
\* between, the updated slot has the scripts of the add-ons and every file they
\* can be relied on to carry over, and not what these files replace.
THEOREM AddonsAreCarriedOver == Spec => []AddonsCarriedOver
<1>1. Init => Mounted /\ CarryInv
  BY InitMounted, InitCarries
<1>2. Mounted /\ CarryInv /\ [Next]_vars => (Mounted /\ CarryInv)'
  BY NextMounted, NextCarries
<1>3. Mounted /\ CarryInv => AddonsCarriedOver
  BY DEF CarryInv
<1> QED
  BY <1>1, <1>2, <1>3, PTL DEF Spec
=============================================================================
