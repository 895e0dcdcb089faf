# A verification project for android_vendor_scandium

The repository is the vendor tree of ScandiumUI, an Android distribution. Most of
it is build configuration, overlays and assets. The programs with state, ordering
and failure in them are `scandiumd` (`src/scandiumd`), the daemon that tunes the device;
the tools that keep add-ons over an update (`prebuilt/common/bin`); and three build tools
written in Python (`build/tools`). This directory holds TLA+ models of all of them, the
TLC configurations that check them, and proofs of their safety properties.

## Inventory

### scandiumd and its surroundings

| Part | State | Operations | Who it talks to |
|---|---|---|---|
| daemon (`ScandiumPerfd.cpp`, `main.cpp`) | edition, mode, base and active profile, game flag and package, `mRunning`, epoll and timer descriptors | start-up, base profile, event loop, gaming profile, throttle, recover, revert, change of edition, shutdown | calls the tuners, reads and sets system properties, is signalled by init |
| init (`scandiumd.rc`) | state of the service, queue of triggered actions | start at boot completed, restart on a set of the level, stop on persistent=false, respawn | starts and kills the daemon; triggered by properties |
| profiles (`PerfProfile.h`, end of `ScandiumPerfd.cpp`) | none (values) | `get_profile`, `get_gaming_profile`, the copy `switch_mode` adjusts | used by the daemon and the tuners |
| thirteen tuners (`*Tuner.cpp`, `GpuSpoof`, `FsOptimizer`, `InterruptBalancer`, `ThermalMonitor`) | none of their own; the kernel's knobs and the properties | `apply` each, two boosts | called by the daemon only |
| foreground detection (`GameDetector.cpp`) | none between scans | a scan of `/proc`: directory entries, `oom_score_adj`, `cmdline`; `is_game` | the kernel's process table, which changes meanwhile; called by the loop |
| temperature readings (`ThermalMonitor.cpp`) | none | CPU, GPU and battery temperature: one file after another | sysfs; called by the loop and by `apply` |
| properties | level, persistent, mode, game survive process and reboot | set by user, daemon; read by daemon, init | everything |

Behaviours that are hard here:

* the process may be killed or signalled between any two of the writes of a call,
  and the properties and the device outlive it;
* init's restart on a new level races the loop's own reading of the level;
* the thermal decision uses the threshold of the active profile, which the decision
  itself replaces;
* a call applies only some of the tuners, so the device is a mixture of the profiles
  of several calls;
* a tuner writes some knobs only for some profiles, so a knob may keep what an
  earlier profile left, and two tuners, or two functions of one, write the same knob.

Correctness: the fields of the daemon agree; each mode has, on the device, the sections it is
meant to have, after any history; the published mode and game are true; the modes follow a
simple protocol (module `PerfModes`); a shutdown ends the process; left alone, the system
converges to what the user set and what is in the foreground; throttling neither fails nor flaps.

### Update tools

| Part | State | Operations | Who it talks to |
|---|---|---|---|
| recovery (`backuptool.sh`, `.functions`) | `/tmp/backupdir`, `/tmp/addon.d`, the mounts; all lost at a reboot | backup, restore; one call of each script of `addon.d` per stage | the updater, which formats and writes between the two; the scripts' own paths |
| A/B (`backuptool_ab.sh`, `.functions`, `backuptool_postinstall.sh`) | the same in a tmpfs under `/postinstall`, and the mounts of the updated slot | backup from the running system, restore into the other slot | the update engine, which may stop the script and run it again |

Hard: power is cut or the script stopped anywhere; a backup of an earlier, refused or failed,
update is still there; partitions are mounted or not by the version of each script; paths lead
through links to other partitions, or to the slot that runs. Correct: add-ons that were there
before an update are there after it; a script in `addon.d` has its files; nothing the running
system uses is unmounted, and nothing is left behind.

### Build tools

| Part | State | Operations | Hard |
|---|---|---|---|
| `repopick.py` | the changes of each project, a pool of threads, the projects' branches | filter, fetch in parallel, pick in parallel but in order within a project | threads in any order; fetches that fail, changes that conflict or are empty; exceptions that nobody reads |
| `roomservice.py` | the local manifest, the source tree | add the device's repository, follow `scandium.dependencies` by recursion, sync | syncs that fail unnoticed, repositories without a branch, shared dependencies and cycles, a second run on what a first one left |
| `merge_dtbs.py` | a set of device trees with the techpacks of each | intersect, split, add | set algebra in several dimensions, the order in which a set is iterated |

### Not modelled

* `prebuilt/common/bin/wipe-frp.sh` writes four areas of a partition and a digest. Who reads the
  partition, and what it makes of a digest that does not match, is not in this repository: there
  is nothing in the source to state a property from.
* Makefiles and product configuration (`config`, `build/core`, `build/target`, `build/tasks`),
  the Soong plug-ins (`build/soong`: straight generation of build rules), `build/envsetup.sh`
  (interactive shell helpers), overlays, boot animation, charger images, the droiddoc templates
  and their JavaScript: no state of their own beyond a build, or data only.
* Of the modelled parts: the values of the profiles that no decision depends on, logging,
  `repopick.py`'s queries and `--pull`, the search for a device's repository in `roomservice.py`,
  and the programs `merge_dtbs.py` runs to write its results (`save`, and the comparison by `__gt__`
  afterwards, which only reports).

## Plan and order

1. `PerfProfile`, `ScandiumPerfd`, `PerfModes`, `ScandiumPerfdProperties`: the daemon with
   init and the world; the abstract modes it implements. **Done.**
2. `Tuners`, `DeviceKnobs`: the values the tuners write, composed with the daemon, on a device
   with every graphics driver the code knows. **Done.**
3. `GameDetector`, `ThermalZones`: what the daemon's inputs are worth. **Done.**
4. `BackupTool`, `BackupToolAB`: both schemes under a cut-off anywhere. **Done.**
5. `MergeDtbs`, `RepoPick`, `RoomService`. **Done.**
6. Proofs: the daemon's types, modes, refinement and device, down to its knobs; the scan and the readings; the
   splitting of device trees; the closure and the depth of dependencies; both backups; the order of
   repopick. Every invariant a passing run checks is proved. **Done.**
7. Open: the search of roomservice for the device's repository; the queries of repopick.

## Modules

| Module | What it holds |
|---|---|
| `PerfProfile` | editions, modes and profiles. A profile is named by its edition and variant (base, gaming, sustained); `Section` says which sections a variant changes |
| `ScandiumPerfd` | the daemon, init and the world: state, actions, fairness |
| `PerfModes` | the abstract specification: alive, edition, mode, game, active profile, one step per call |
| `ScandiumPerfdProperties` | invariants, refinement mapping, liveness |
| `Tuners` | the knobs each tuner writes for a profile, with the conditions of the code |
| `DeviceKnobs` | `ScandiumPerfd` with every write carried out on the knobs |
| `GameDetector` | the scan of `/proc`, one file at a time, while processes change |
| `ThermalZones` | the readings of the thermal zones, one file at a time, while sensors change |
| `BackupTool` | backup and restore in recovery, with the updater, the mounts and cut-offs |
| `BackupToolAB` | the postinstall script between two slots, stopped and run again |
| `RepoPick` | the three rounds of repopick on a pool of threads |
| `RoomService` | the recursion over dependencies, the manifest and what is on disk |
| `MergeDtbs` | the algebra of device tree ids, and the splitting of a set of device trees |
| `MC...` | constants for TLC, one for each of the above that is run |
| `ScandiumPerfd_proofs` | the daemon: types and modes; the refinement; what the device and the properties hold in every mode; the knobs of `DeviceKnobs` |
| `GameDetector_proofs`, `ThermalZones_proofs` | what a scan finds and cannot miss; what a reading is worth |
| `MergeDtbs_proofs` | the techpacks of a device; which devices stay supported |
| `RoomService_proofs` | the closure of the dependencies; the manifest; how deep the recursion goes |
| `RepoPick_proofs` | what is picked of each project, and how its tree is left |
| `BackupTool_proofs`, `BackupToolAB_proofs` | what each backup keeps over an update and at a cut-off; what is mounted between slots |

### How state and actions correspond to the code

Names of the code are kept: `mEdition`, `mCurrentMode`, ... are the members of
`ScandiumPerfd`, `BaseWrites` is the list of tuner calls of `apply_base_profile`.

**Daemon.** It is single-threaded, so nothing of the daemon interleaves with its functions. But a
kill, a signal, a reboot, a set property or a change in the world may fall between any two
writes. A function that writes is therefore one action that makes its assignments and
puts its list of writes in `todo`, followed by one `Write` per tuner call or property, with
`pc = "writing"`; control then goes on at `cont`. `hw[t]` is the profile section that tuner
`t` was last given. One call of a tuner is one step. `pc` follows `run` and `run_event_loop`:
`persistent`, `setup`, `enter`, then `head`, `wait`, `timer`, `foreground`, `edition` for each round
of the loop. `dead` is the absence of a process; its memory is then given the values of a fresh one.

init is a queue of triggered actions, executed in order, and a state of the service. The
`restart` of a service that is not running starts it; `stop` and `restart` kill the process
(init sends SIGKILL); a service whose process ended is started again, since it is not a
`oneshot` one. At boot the property triggers run once for the values at hand, then
`sys.boot_completed`.

**Inputs.** The scan of `/proc` and the readings of the thermal zones, which the daemon's module takes as
inputs that change at any time, have modules of their own at the level of single files. In both,
history variables record what has been true since the call began (`seen`, `steady`;
`held`, `usable`): no definition of the code reads them, the properties relate the result to
them. `GameDetector` reads the directory in ascending order of pids and in pieces of any size, as
`readdir` on procfs does, and a pid is not used twice during one scan.

**Backup.** One call of a script of `addon.d` (all its stages) is one action, since the stages before and
after are stubs in the scripts; a cut-off inside a script or inside `restore_addon_d` has actions
of its own that leave any part of the files done. `Leads` and `Reached` say where a path leads:
to the partition if it is mounted, to a directory of the system where a link says so, or to a
directory of the recovery that is lost. What the updater writes is taken to be on the disk; what is restored is
durable only after the `sync` at `backuptool.sh:196`, so a power cut before it (`CutOffInScript`, `CutOffInAddonD`)
loses any of the files restored since the build was written (`Losing`). `saved`, `mountFailed` and `torn` (scripts that
reached the disk before a file of theirs) are history. Between slots, `IsLink` says where `/postinstall/<partition>` is
a link into the running system, and `Unmount` unmounts what is mounted where the path leads, in either system;
`umount_extra` calls it as the `-L` test lets it. `Cleanup` may find the tmpfs busy (`tmpBusy`). The updater and the
update engine (`Flash`, `Format`, `Write`, `Fail`, `Stop`) are external: what they do between calls
of the tool is left as free as the tool's own comments allow.

**repopick.** A task is a record with the changes it has left; the main thread submits the tasks of a round
one at a time (`Submit`) while the threads already work, and a thread takes the oldest. The changes of
a project are numbered in the order they were sorted in, so a list of them is a set of numbers. A commit is in
`objects` or not; fetching one brings those below it if the changes are stacked. `CherryPick` is
the call of git, `AfterFailure` the code that looks at its result and at `git diff-index`. An exception
ends the task and nothing else, as in `concurrent.futures`. In the first round, before there is a pool, a command
of git that fails ends the program (`Abort`).

**roomservice.** `calls` is Python's stack: the repositories each nested call of `fetch_dependencies` has
still to verify. A sync brings any part of what is in a manifest. `MaxDepth` is the limit of the
interpreter. The world is chosen at the beginning: the dependencies, the repositories without a usable branch, which
entries name a branch or another remote (`pinned`; they are added without a look at their branches, `:219-225`), what the
main manifest and the snippet list (`shipped`), and what is on disk before the first run. `pinned` is of an
entry, not of a repository: two files may name one differently. `StartDepsOnly` is
the program with the argument depsonly, which looks for the device in the local manifests and not on disk.

**merge_dtbs.** A device tree is a function from dimensions (msm-id, board-id, pmic-id, extra ids)
to a set of ids or `Absent`. `Split` is one round of the first loop of `merged_dt_try_add`, in any order;
`Add` is the second loop. `Combinations` are those `combinations_with_replacement` gives.

What is abstracted:

* what the scan of `/proc` finds is one variable, `foreground`, that changes at any time to any
  value; what `read_cpu_temp` returns is `temp`, likewise;
* dropping caches and compacting memory leave no state; nothing reads `daemon.status`,
  `last_apply` and `mode_ts`;
* a SIGTERM before `g_daemon` is set and one between then and the loop have the same effect, none;
* a knob of `Tuners` is a group of files that is always written together; its value is
  the section it was copied from unless some decision depends on the value itself; a write to a
  file that is there never fails;
* a node is named by what tells it from the others (`kgsl`, `5000000.kgsl-3d0` for
  `/sys/class/devfreq/5000000.qcom,kgsl-3d0`), a knob by the last parts of its path;
* `GpuTuner.cpp:94`: the condition of the adrenoboost write is part of the comment before it, so
  the write is modelled without condition (the brace it leaves over keeps the file from
  compiling); `SchedTuner.cpp:51-54` uses fields that `SchedProfile` does not have (that file does
  not compile either), `tune_rt` is left out;
* the switch to BATTERY_SAVER and the functions of the daemon `GameDetector` replaced are never called;
* `backuptool.sh:54` tests `$$P/etc/build.prop`, which is no path, so that only the system's `build.prop`
  counts; every build has one. `sort -n` on paths is an order of strings: scripts are numbered in it.
  `product` is mounted throughout and treated as part of the system in `BackupTool`; odexed apps are those
  whose odex file is on both sides;
* the techpacks of a device tree are a set of numbers, as they are added in order.

## Runs

Each takes less than three minutes with two workers.

| Run | Instance | Shows |
|---|---|---|
| `perfd_safety` | two games, one other application, a sensor that fails (-1), temperatures 26 (recover), 40 (hot for ACADEMY), 50 (hot for all), one setting (of any value, the same one too), one fault; symmetry in the games | type correctness, `GameConsistent`, `BaseIsActive`, `DefaultHardware`, `GamingHardware`, `SustainedHardware`, `PublishedWhileGaming`, `ImplementsPerfModes` |
| `perfd_liveness` | one game, one other application, 26 and 42 (exactly CASUAL's threshold) | `ShutdownCompletes`, `Converges` |
| `perfd_thermal` | one game, one other application, one setting, no fault; 26 (cool), 38, 42 and 50 (exactly the thresholds of ACADEMY, CASUAL and PROFESSIONAL) | `ModeSettles`, `ThermalProtection` |
| `knobs_safety` | one game, 26 and 50, with the knobs, on a device with every node the code looks for but bbr | `BaseRestoresDevice`, `GamingDevice`, `SustainedDevice` |
| `detector` | three processes, one with a low pid; two packages; foreground and persistent | `FoundWasForeground`, `SteadyIsFound`, `ScanEnds`, types |
| `zones_safety` | two zones of any types; below zero, 40 degrees, unreadable, not a number | `ReadingWasHeld`, `UsableZoneIsRead`, types |
| `backup` | three builds (one refused, one with its vendor files in the system), three scripts of versions 1 to 3, two of which list the hosts file, six files, three flashes | `AddonsSurvive`, `ScriptHasItsFiles`, types |
| `backup_ab` | any two of three builds in the slots, with links where the update has fewer partitions, four scripts, two stops | `AddonsCarriedOver`, `RunningStaysMounted`, `NothingIsLeft`, types |
| `repopick` | two threads, projects with three changes and one, stacked or not, some picked before, every outcome, the first round aborted or not | `LikeOneAfterAnother`, `UnfinishedOnlyAfterConflict`, `Finishes`, types |
| `roomservice` | every graph over three dependencies of a device; none or one of them without a branch, pinned, listed in the main manifest or on disk before; three runs, full or depsonly, dry or not | `NeededIsFetched`, `ManifestIsUsable`, `RecursionIffCyclic`, types |
| `merge_dtbs` | five dimensions, two ids in each, four bases (one extra id, none, both), techpacks that narrow one or several dimensions, any three of them | `DevicesGetTheirTechpacks`, `OneDimensionIsComplete`, types |
| `backup_hosts` | violation: builds as `config/version.mk` makes them | `UpgradeBacksUp` does not hold: no backup is ever made |

`MaxSettings` bounds how often the user sets a property, `MaxFaults` how many signals, kills, reboots
and failing system calls there are, `MaxFlashes` the updates, `MaxStops` the stops, `MaxRuns` the runs of roomservice.

Why the bounds are enough: one fault at any step meets every interleaving of a single
fault with a call; after a kill or reboot the process is started with the same memory whatever
came before, so further faults repeat the same situation with other contents of `hw`,
which the proofs cover for any number. One setting on top of three factory settings meets
every pair of editions. Two games are needed for a game to replace a (throttled) game. The
temperatures are one value for each answer of `TooHot` and `CoolDown` at the three
thresholds, and in `perfd_thermal` the thresholds themselves; the one setting makes each edition, and so each threshold,
the one in force. A second game is in `perfd_safety` only. A scan looks at one process at a time, and what it
remembers of the others is one name: a process ahead, one looked at and one behind are
three. A CPU reading depends on zone 0 and on the first other zone that serves; the proofs
cover any number of processes and zones. Three flashes are a refused or failed one, the one that adds to what
it left, and the one that finds what that restored; the scripts are one of each version, so that each pair of
neighbours mounts or unmounts between them. Two threads and two projects meet each pair of steps; in a
project of three changes one fails before, between or after others. Three techpacks overlap in pairs and all
at once; two ids in a dimension are one inside and one outside. For all of these the proofs cover any number.

Every property of a passing run has a mutant: a variant of one definition with a
plausible mistake, under which TLC finds the property violated. Mutants stand before
the definition they vary.

Deadlock is checked where the world can always move; `repopick`, `roomservice`, `merge_dtbs` and `backup_ab` are programs that end.

### Fairness

`Fairness` assumes weak fairness of the daemon (the kernel schedules it), of init's queue and
of init's respawn, and strong fairness of `WaitTimer`: the timer is periodic and the
descriptor stays readable until read, so `epoll_wait` reports it sooner or later although
other returns come in between. `ScanEnds` assumes weak fairness of the scan
alone (the kernel schedules the daemon); pids are finitely many. `Finishes` assumes that each thread of
the pool goes on, that is, that git returns. Nothing is assumed of the world: no application need
change, no temperature fall. `Converges` and the two thermal properties are conditional on a world that
is quiet from some time on, which the formula says itself (`QuietWorld`).

## What the models show of the code

One finding has a run of its own, `backup_hosts`. `check_prereq` looks for `ro.custom.version=16` in `build.prop`
(`backuptool.sh:58`, `backuptool_ab.sh:59`); `config/version.mk:48-57` sets `ro.scandium.` properties and no such one.
So the tools refuse every build of this tree, and the hosts file that `50-scandium.sh:6` says is backed up during an
upgrade is not. All other properties of `backup` and `backup_ab` are about builds the tools accept.

The rest was met while the models were written and holds in them; the properties are stated so as to say what is left:

* A shutdown request that arrives before `run_event_loop` is overwritten by
  `mRunning.store(true)` (`ScandiumPerfd.cpp:262`); `ShutdownCompletes` is about the loop.
* The published mode and game survive a kill and a reboot (`:159-160`); `PublishedWhileGaming` is about games.
* After a recovery, and in every later game, SUSTAINED's thermal settings stay (`:142-148`), as `GamingHardware` says.
* `game exited, reverting to base` (`:166`): knobs that are only ever written in one direction stay (`OneWayKnobs`
  of `DeviceKnobs`: clock floors, power level, hispeed, boosts, `ro.` properties).
* `ThermalMonitor.cpp:48-75`: SUSTAINED's lower threshold never reaches the trip points, which the next call writes over.
* `ThermalMonitor.cpp:122`: zone 0 is the first to be read as the CPU, whatever it measures.
* After `oneshot mode ... exiting` (`ScandiumPerfd.cpp:77`) init starts the process again for ever, since the
  service lacks `oneshot`.
* A battery zone that cannot be read (`ThermalMonitor.cpp:164`) hides the power supply that is its fallback (`:170`).
* `backuptool.sh` calls scripts of version 1 and 2 with the other partitions unmounted. If one of them lists a file of
  such a partition that a script of version 3 keeps too, it backs up or restores what it finds at that path in
  the recovery's own directory, and the file may not be kept: hence the condition on all scripts in `Keeps`.
* `GpuTuner.cpp:217`: `5000000.qcom,kgsl-3d0` is the Adreno's own devfreq node, so `set_generic` writes
  `simple_ondemand` over the `msm-adreno-tz` that `set_adreno` chose and logged.
* `merge_dtbs.py:95` says of a split that "the devices which self matches are still supported". The
  combinations at `:127` are those of some True followed by False only, so where a techpack differs in two dimensions
  some devices are in no part; `OneDimensionIsComplete` has the case in which none is lost. And the filter at `:128`
  takes the names of extra ids for flags, so that with two of them the tree that was to be split stays:
  hence `OneExtraId` in `DevicesGetTheirTechpacks`.
* `repopick.py:723-732`: a cherry-pick of a commit whose fetch failed leaves no difference and is reported as an empty
  change; the later changes of the project are picked without it. `LikeOneAfterAnother` is about projects whose fetches worked.
* `roomservice.py:279-286`: depsonly starts from a device that is in a local manifest, on disk or not. After a run whose sync of
  the device failed it finds no `scandium.dependencies` and ends well with nothing fetched. `NeededIsFetched` and
  `RecursionIffCyclic` are about good runs (`GoodRun`), in which the device's repository is on disk.
* `roomservice.py:217-225`: only entries that name neither a branch nor another remote are looked up; the others are taken at
  their word, as `ManifestIsUsable` says. A remote other than github is taken for one of the `aosp-` ones, the only ones the
  comment at `:184` knows.
* `backuptool.sh:194-196`: `sync` comes after `restore_addon_d` has copied the scripts and after the backup was removed. Cut off
  between, a script may be on the disk and a file of its own not, and the next update does not find the file. `ScriptHasItsFiles`
  allows that for the scripts of this window (`torn`) and for no others.
* `roomservice.py:307` syncs the device's repository in a dry run too, although `:33` says no change will be made.

## Proofs

All hold for any values of the constants, from the named assumptions of each module, which say no more than that names
are distinct, sets have the right members and bounds are naturals (for roomservice also that there are finitely many
repositories and that the limit of recursion is above their number).

* `TypeCorrect`: `Spec => []TypeOK`. `TypeOK` is inductive because it holds that a call under
  way has a write left (`Head` and `Tail` are defined). It is a conjunction of one part for
  each tuple of variables, and `FrameTypes` disposes of the parts a step leaves alone.
* `GameFieldsAgree`, `BaseProfileActive`: the inductive invariant `ModesInv` adds to the two that
  init holds the service to be running exactly while there is a process, and what the memory
  is without one.
* `Refinement`: `Spec => ImplementsPerfModes`. Each call is one step of `PerfModes`; writes and
  control stutter. `ModesInv` is needed for `Recover` (it resumes the game, never DEFAULT), `RevertToBase`
  (the profile is the edition's) and `ReadLevel`.
* `DefaultSections`, `GamingSections`, `SustainedSections`, `PublishedTruth`: the inductive
  invariant `HardwareInv` says of each mode that what a call is to establish holds for every
  tuner and property not among the pending writes. A call begins with a list that covers
  what the mode requires, each write removes one item and establishes its part; in
  GAMING and SUSTAINED the pending writes never touch the tuners only the base profile sets, and
  SUSTAINED's active profile is exactly `SustainedProfile`.
* `BaseRestores`, `GamingKnobsHeld`, `SustainedKnobsHeld`: the same with every write carried out, for a device with
  any of the nodes. `KnobInv` speaks of knobs, not of tuners: several tuners write the same knob, and the last of
  them decides. So it says that in DEFAULT mode the pending tuners are in their order (`DefaultOrder`) and that a knob
  none of them will write again is as on a fresh device, that the boost is pending as long as the CPU's tuner is
  (`GamingOrder`), and that a knob no tuner of this device reaches has its boot value (`UnreachedBoot`), also after a reboot, which
  the properties named `persist.` survive (`Persist`).
  The lemmas about the tuners say which knobs each writes, and what, for every profile.
* `ScanFindsForeground`, `ScanMissesNoSteadyPackage`, `ScanTypeCorrect`: for any processes
  and packages, from the assumptions that pids are naturals and that the filtered names are
  no packages. `ScanInv` says where the scan is (`ScanOrder`) and that each steady process is
  ahead of it, is the one looked at, or is behind and was the best match unless a higher pid was.
* `ReadingHeld`, `UsableRead`, `ReadingTypeCorrect`: for any number of zones. `ReadingInv`
  adds that the history holds what the files say now and that the loop has passed no CPU zone
  that could be read all the time.
* `TechpacksOfADevice`, `MergeTypeCorrect`: for any base, ids, dimensions, techpacks and order of the
  splits. `MergeInv` says that every tree has ids in exactly the dimensions of the base (`Shaped`, which is in `TypeOK`), that once a
  techpack has been looked at each tree is decided for it (all its devices are the techpack's, or none is),
  and that a tree has exactly the techpacks it lies within. Later splits only narrow trees, so
  what was decided stays so.
* `NoDeviceIsLost`: `CompleteInv` adds that every tree lies within the base (`OfTheBase`). Where a techpack narrows one
  dimension only, the parts `__sub__` returns and the intersection together cover the tree.
* `NeededFetched`, `ManifestUsable`, `RoomTypeCorrect`: for any graph of dependencies, any pinned and shipped repositories and any on disk before. `RoomInv` says that a good run
  has a set of visited repositories, the device among them, that are on disk and whose
  dependencies are visited or still pending on the stack; with an empty stack the set is closed
  and so contains everything that is needed.
* `EndsUnlessCyclic`: `DepthInv` adds the chain of repositories that made the nested calls, each reached from all those
  above it (`Nested`), so that without a cycle they are different ones and fewer than the limit; and that those
  whose calls have returned are closed and on no cycle.
* `PickedLikeOneAfterAnother`, `UnfinishedAfterConflict`, `PickTypeCorrect`: for any projects, changes, threads, outcomes and
  failures of git. `PickInv` says which tasks a round has and that round 2 leaves the branches
  alone (`RoundInv`), that in round 3 a project has one task at most, unsent, queued or at a thread (`OneTaskEach`), and how
  far it is (`Progress`): what the task has left is the rest of the changes, what it has picked is what applies of the
  others, and a cherry-pick that stopped says what git made of the next one. So a step of a thread touches no other project.
* `AddonsSurviveUpdates`, `ScriptsHaveTheirFiles`, `BackupTypeCorrect`: for any builds, partitions and add-ons, whose lists may
  overlap, and any number of flashes and cut-offs. `KeepInv` says that a script is in `/tmp/addon.d` with the files it
  keeps, once it has backed up; that the backup of a file that counts is the one of the
  system that was saved last; and that a script that is through restoring has its files in place, so that the scripts a cut leaves in `addon.d` have
  theirs, except those in `torn`. That no script lists
  a file another one replaces is an assumption here, too.
* `AddonsAreCarriedOver`, `RunningKeepsItsPartitions`, `CleanedUp`, `BackupABTypeCorrect`: for any builds, partitions and add-ons and
  any number of stops. `Mounted` says that only partitions of the updated slot are ever mounted, and that those of the running system all stay
  so, because `umount_extra` passes over the links; so `check_prereq` answers the same each time and every file of the running system can be read. `CarryInv` says that
  the backup never holds anything but files of that system (also after a restore that
  was cut off), that the scripts that are through backing up have theirs in it, and that
  while they restore, each of their files is in the backup or in place. That no script lists a file another one replaces is an assumption of the module.

Model-checked only: `ShutdownCompletes`, `Converges`, `ModeSettles`, `ThermalProtection`, `ScanEnds` and `Finishes`, since
fairness and ENABLED are out of the prover's reach, and the violation of `backup_hosts`.
