----------------------------- MODULE RoomService -----------------------------
(***************************************************************************)
(* build/tools/roomservice.py: the repositories a device needs are added   *)
(* to a local manifest and synced, from the device's own repository on     *)
(* along the scandium.dependencies file of each.  The dependencies of a    *)
(* repository are looked up in the repository itself, so it must be synced *)
(* before; `repo sync' may fail, which the program does not notice, and    *)
(* the user may run the program again.                                     *)
(*                                                                         *)
(* fetch_dependencies calls itself for every dependency, whether it was    *)
(* seen before or not; on a cycle of dependencies it ends only with the    *)
(* interpreter's limit of nested calls.  The order of the dependencies in  *)
(* a file is left open.                                                    *)
(***************************************************************************)
EXTENDS Naturals, Sequences, FiniteSets

CONSTANTS Repos,      \* repositories, by their target path
          Device,     \* the device's repository
          Graphs,     \* what the dependencies of each may be
          Branchless, \* the sets of repositories that may lack a usable branch
          Pins,       \* which dependencies of each may name a branch or a remote
          ShippedSets,\* what the main manifest and the snippet may list
          OnDisk,     \* what may be on disk before the first run
          MaxDepth,   \* the interpreter's limit of nested calls
          MaxRuns     \* how often the user runs the program

ASSUME RoomServiceAssumption ==
    /\ Device \in Repos
    /\ IsFiniteSet(Repos)
    /\ Graphs \subseteq [Repos -> SUBSET Repos]
    /\ Pins \subseteq [Repos -> SUBSET Repos]
    /\ ShippedSets \subseteq SUBSET Repos
    /\ OnDisk \subseteq SUBSET Repos
    /\ MaxDepth \in Nat /\ MaxDepth > Cardinality(Repos)
    /\ MaxRuns \in Nat \ {0}

VARIABLES
    \* The world: chosen once.
    dependencies,  \* the scandium.dependencies file of each repository
    branchless,    \* repositories without the default or a fallback branch
    pinned,        \* the dependencies of each whose entry names a branch, or a
                   \* remote other than github
    shipped,       \* repositories in the main manifest or the scandium snippet
    \* The source tree.
    manifest,      \* repositories in the local manifests
    present,       \* repositories that are on disk
    \* The program.
    pc,            \* "start", "fetch", "done", "exited", "recursion"
    calls,         \* the repositories each nested call has still to verify
    dryrun,        \* the environment has ROOMSERVICE_DRYRUN=true
    runs,
    \* History.
    syncFailed     \* a sync of this run left out a repository

world == <<dependencies, branchless, pinned, shipped>>
user  == <<dryrun, runs>>
vars  == <<world, manifest, present, pc, calls, user, syncFailed>>

Init ==
    /\ dependencies \in Graphs
    /\ branchless \in Branchless
    /\ pinned \in Pins
    /\ shipped \in ShippedSets
    /\ manifest = {}
    /\ present \in OnDisk
    /\ pc = "start"
    /\ calls = <<>>
    /\ dryrun \in BOOLEAN
    /\ runs = 1
    /\ syncFailed = FALSE

\* is_in_manifest: the local manifests, the main one and the snippet.
Known == manifest \cup shipped

\* Mutant: repo sync takes repositories that are in no manifest.
SyncAny(repos) ==
    \E synced \in SUBSET repos :
        /\ present' = present \cup synced
        /\ syncFailed' = (syncFailed \/ synced # repos)

\* repo sync of some repositories: only those in a manifest can be synced,
\* any may fail, and the result is not looked at.
Sync(repos) ==
    \E synced \in SUBSET (repos \cap (manifest' \cup shipped)) :
        /\ present' = present \cup synced
        /\ syncFailed' = (syncFailed \/ synced # repos)

-----------------------------------------------------------------------------

\* What a call finds in the file of a repository: nothing if it is not there.
Found(repo) == IF repo \in present THEN dependencies[repo] ELSE {}

\* Mutant: only dependencies that are new are verified.
VerifyNew(repo) == Found(repo) \ Known

\* verify_repos: all the dependencies, new or not.
Verify(repo) == Found(repo)

\* Mutant: a dependency that is in the manifest is not synced.
SyncableNew(repo) == Found(repo) \ Known

\* syncable_repos: the dependencies that are new or not on disk.
Syncable(repo) == Found(repo) \ (Known \cap present)

\* add_to_manifest
AddToManifest(repos) == manifest' = IF dryrun THEN manifest ELSE manifest \cup repos

SyncUnlessDryRun(repos) ==
    IF dryrun THEN UNCHANGED <<present, syncFailed>> ELSE Sync(repos)

\* Mutant: what has a branch is added before the program exits for what has none.
FetchNewUnchecked(repo, rest) ==
    LET fetch_list == Found(repo) \ Known
        checked    == fetch_list \ pinned[repo]
    IN  /\ AddToManifest(fetch_list)
        /\ IF checked \cap branchless # {}
           THEN pc' = "exited" /\ UNCHANGED <<present, calls, syncFailed>>
           ELSE /\ SyncUnlessDryRun(Syncable(repo))
                /\ calls' = Append(rest, Verify(repo))
                /\ UNCHANGED pc

\* fetch_dependencies up to its own calls.  The new dependencies whose entry
\* names neither a branch nor another remote are looked up: sys.exit if one
\* lacks a branch, or its branches cannot be listed.  Else all new ones are
\* added to the manifest and synced.
FetchNew(repo, rest) ==
    LET fetch_list == Found(repo) \ Known
        checked    == fetch_list \ pinned[repo]
    IN  \/ /\ checked # {}
           /\ pc' = "exited"
           /\ UNCHANGED <<manifest, present, calls, syncFailed>>
        \/ /\ checked \cap branchless = {}
           /\ AddToManifest(fetch_list)
           /\ SyncUnlessDryRun(Syncable(repo))
           /\ calls' = Append(rest, Verify(repo))
           /\ UNCHANGED pc

\* The main program: if the device's repository has a usable branch, it is
\* added unless a manifest has it, and synced, in a dry run too.
StartFull ==
    /\ Device \notin branchless
    /\ pc' = "fetch"
    /\ AddToManifest({Device} \ Known)
    /\ Sync({Device})
    /\ calls' = <<{Device}>>

\* It has none, or its branches cannot be listed.
NoBranch ==
    /\ pc' = "exited"
    /\ UNCHANGED <<manifest, present, calls, syncFailed>>

Start ==
    /\ pc = "start"
    /\ StartFull \/ NoBranch
    /\ UNCHANGED <<world, user>>

\* With the argument depsonly: get_from_manifest looks for the device in the
\* local manifests, not on disk.
StartDepsOnly ==
    /\ pc = "start"
    /\ IF Device \in manifest
       THEN pc' = "fetch" /\ calls' = <<{Device}>>
       ELSE pc' = "exited" /\ UNCHANGED calls
    /\ UNCHANGED <<world, manifest, present, user, syncFailed>>

\* The innermost call, and what it has still to verify.
depth == Len(calls)
ToVerify == calls[depth]

\* The loop over verify_repos calls fetch_dependencies.
Call ==
    /\ pc = "fetch"
    /\ calls # <<>>
    /\ \E repo \in ToVerify :
        LET rest == [calls EXCEPT ![depth] = @ \ {repo}]
        IN  IF depth = MaxDepth
            THEN pc' = "recursion" /\ UNCHANGED <<manifest, present, calls, syncFailed>>
            ELSE FetchNew(repo, rest)
    /\ UNCHANGED <<world, user>>

Return ==
    /\ pc = "fetch"
    /\ calls # <<>>
    /\ ToVerify = {}
    /\ calls' = SubSeq(calls, 1, depth - 1)
    /\ UNCHANGED <<world, manifest, present, pc, user, syncFailed>>

End ==
    /\ pc = "fetch"
    /\ calls = <<>>
    /\ pc' = "done"
    /\ UNCHANGED <<world, manifest, present, calls, user, syncFailed>>

Program == Start \/ StartDepsOnly \/ Call \/ Return \/ End

\* The user runs the program again.
RunAgain ==
    /\ pc \in {"done", "exited", "recursion"}
    /\ runs < MaxRuns
    /\ runs' = runs + 1
    /\ dryrun' \in BOOLEAN
    /\ pc' = "start"
    /\ calls' = <<>>
    /\ syncFailed' = FALSE
    /\ UNCHANGED <<world, manifest, present>>

Next == Program \/ RunAgain

Spec == Init /\ [][Next]_vars

-----------------------------------------------------------------------------
(* Properties.                                                             *)

\* The repositories that can be reached from a set of them: the smallest set
\* that contains them and all dependencies of its own.
Closed(repos) == \A r \in repos : dependencies[r] \subseteq repos
Reachable(repos) ==
    {r \in Repos : \A S \in SUBSET Repos : repos \subseteq S /\ Closed(S) => r \in S}

\* What the device needs, and whether any of it depends on itself.
Needed == Reachable({Device})
Cyclic == \E r \in Needed : r \in Reachable(dependencies[r])

\* Type correctness; what is on disk was there before or is in a manifest.
TypeOK ==
    /\ manifest \subseteq Repos
    /\ present \subseteq Repos
    /\ \E before \in OnDisk : present \subseteq before \cup Known
    /\ pc \in {"start", "fetch", "done", "exited", "recursion"}
    /\ calls \in Seq(SUBSET Repos)
    /\ depth <= MaxDepth
    /\ runs \in 1 .. MaxRuns

\* The run is not a dry one, none of its syncs failed, and the device's own
\* repository is on disk: after a sync that failed, depsonly starts without it.
GoodRun == ~ dryrun /\ ~ syncFailed /\ Device \in present

\* A good run that ends well leaves all the device needs in a manifest and on
\* disk, whatever earlier runs that failed left.
NeededIsFetched == pc = "done" /\ GoodRun => Needed \subseteq Known \cap present

\* At all times, a repository is added to the manifest only if the device needs
\* it; and it has a branch to sync, or an entry for it names one or its remote:
\* else every later `repo sync' would fail.
ManifestIsUsable ==
    /\ manifest \subseteq Needed
    /\ \A r \in manifest \cap branchless : \E q \in Needed : r \in dependencies[q] \cap pinned[q]

\* The limit of nested calls is met only on a cycle, whatever was fetched
\* before; and a good run does not end well if what is needed has a cycle.
RecursionIffCyclic ==
    /\ pc = "recursion" => Cyclic
    /\ pc = "done" /\ GoodRun => ~ Cyclic
=============================================================================
