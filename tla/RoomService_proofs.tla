------------------------- MODULE RoomService_proofs -------------------------
(***************************************************************************)
(* What roomservice leaves in the manifest and on disk, and when it ends,  *)
(* for any graph of dependencies, syncs that fail and any number of runs.  *)
(*                                                                         *)
(* The repositories of the nested calls are a chain in which each can be   *)
(* reached from those before it, so that more calls than repositories make *)
(* a cycle; a repository whose call has returned has only dependencies     *)
(* that have returned, itself not among them.                              *)
(***************************************************************************)
EXTENDS RoomService, FiniteSetTheorems, SequenceTheorems, TLAPS

USE RoomServiceAssumption

Types ==
    /\ dependencies \in [Repos -> SUBSET Repos]
    /\ ManifestIsUsable
    /\ present \subseteq Repos
    /\ \E before \in OnDisk : present \subseteq before \cup Known
    /\ pc \in {"start", "fetch", "done", "exited", "recursion"}
    /\ calls \in Seq(SUBSET Needed)
    /\ Len(calls) <= MaxDepth
    /\ runs \in 1 .. MaxRuns

\* A nested call has still to verify the repository.
Pending(repo) == \E k \in 1 .. Len(calls) : repo \in calls[k]

Fetched == Known \cap present

\* The repositories whose dependencies were fetched in this run: each
\* dependency is one of them or pending, and all of these are fetched.
Visited(V) ==
    /\ V \subseteq Fetched
    /\ \A v \in V : dependencies[v] \subseteq Fetched
    /\ \A v \in V : \A r \in dependencies[v] : r \in V \/ Pending(r)
    /\ \A r \in Repos : Pending(r) => r \in Fetched
    /\ Device \in V \/ Pending(Device)

\* In a run without failures so far there is such a set.
Progress == pc = "fetch" /\ GoodRun => \E V \in SUBSET Repos : Visited(V)

\* A run that starts without the device's repository finds no dependencies.
Idle ==
    pc = "fetch" /\ ~ dryrun /\ ~ syncFailed /\ Device \notin present
        => \A r : Pending(r) => r = Device

RoomInv == Types /\ Progress /\ Idle /\ NeededIsFetched

-----------------------------------------------------------------------------

\* At least one call fits.
LEMMA DepthPositive == MaxDepth \in Nat /\ 1 <= MaxDepth
<1>1. Cardinality(Repos) \in Nat
  BY FS_CardinalityType
<1> QED
  BY <1>1

\* The device is needed, and so are the dependencies of what is needed.
LEMMA NeededClosed ==
    ASSUME dependencies \in [Repos -> SUBSET Repos]
    PROVE  /\ Needed \subseteq Repos
           /\ Device \in Needed
           /\ \A r \in Needed : dependencies[r] \subseteq Needed
BY DEF Needed, Reachable, Closed

\* A closed set with the device in it has all that is needed.
LEMMA NeededSmallest ==
    ASSUME NEW V \in SUBSET Repos, Device \in V, Closed(V)
    PROVE  Needed \subseteq V
BY DEF Needed, Reachable

LEMMA FoundNeeded ==
    ASSUME Types, NEW repo \in Needed
    PROVE  Found(repo) \subseteq Needed
BY NeededClosed DEF Types, Found

\* Whatever becomes of a sync, no more is on disk than was or is in the manifest.
LEMMA SyncPresent ==
    ASSUME NEW repos, Sync(repos)
    PROVE  /\ present \subseteq present'
           /\ present' \subseteq present \cup (repos \cap (manifest' \cup shipped))
           /\ ~ syncFailed' => ~ syncFailed /\ repos \subseteq present'
<1>1. PICK synced \in SUBSET (repos \cap (manifest' \cup shipped)) :
          present' = present \cup synced /\ syncFailed' = (syncFailed \/ synced # repos)
  BY DEF Sync
<1>2. ~ syncFailed' => ~ syncFailed /\ synced = repos
  <2>1. ASSUME ~ syncFailed' PROVE ~ (syncFailed \/ synced # repos)
    BY <1>1, <2>1, Zenon
  <2> QED
    BY <2>1, Zenon
<1> QED
  BY <1>1, <1>2

LEMMA RoomInit == Init => RoomInv
<1> SUFFICES ASSUME Init PROVE RoomInv
  OBVIOUS
<1>1. present \in OnDisk /\ manifest = {} /\ calls = <<>> /\ pc = "start" /\ runs = 1
      /\ dependencies \in [Repos -> SUBSET Repos]
  BY DEF Init
<1>2. Types
  BY <1>1 DEF Types, ManifestIsUsable
<1> QED
  BY <1>1, <1>2 DEF RoomInv, Progress, Idle, NeededIsFetched

\* The types do not depend on how far the program is with its calls.
LEMMA TypesStay ==
    ASSUME Types, UNCHANGED <<world, manifest, present>>,
           pc' \in {"start", "fetch", "done", "exited", "recursion"},
           calls' \in Seq(SUBSET Needed), Len(calls') <= MaxDepth, runs' \in 1 .. MaxRuns
    PROVE  Types'
<1>1. /\ dependencies' = dependencies /\ branchless' = branchless /\ pinned' = pinned
      /\ shipped' = shipped /\ manifest' = manifest /\ present' = present
  BY DEF world
<1>2. Needed' = Needed
  BY <1>1 DEF Needed, Reachable, Closed
<1>3. ManifestIsUsable' /\ Known' = Known
  BY <1>1, <1>2 DEF Types, ManifestIsUsable, Known
<1> QED
  BY <1>1, <1>2, <1>3 DEF Types

LEMMA StartStep == ASSUME RoomInv, Start PROVE RoomInv'
<1>1. /\ dependencies' = dependencies /\ branchless' = branchless /\ runs' = runs
      /\ pinned' = pinned /\ shipped' = shipped /\ dryrun' = dryrun
  BY DEF Start, world, user
<1>2. Needed' = Needed
  BY <1>1 DEF Needed, Reachable, Closed
<1>3. CASE NoBranch
  <2>1. Types'
    BY <1>1, <1>3, TypesStay DEF NoBranch, RoomInv, Types, world
  <2> QED
    BY <1>1, <1>3, <2>1 DEF NoBranch, RoomInv, Progress, Idle, NeededIsFetched
<1>4. CASE StartFull
  <2>1. /\ pc' = "fetch" /\ AddToManifest({Device} \ Known) /\ Sync({Device})
        /\ calls' = <<{Device}>> /\ Device \notin branchless
    BY <1>4 DEF StartFull
  <2>2. manifest' = IF dryrun THEN manifest ELSE manifest \cup ({Device} \ Known)
    BY <2>1 DEF AddToManifest
  <2>3. /\ present \subseteq present'
        /\ present' \subseteq present \cup ({Device} \cap (manifest' \cup shipped))
        /\ ~ syncFailed' => Device \in present'
    BY <2>1, SyncPresent
  <2>4. Device \in Needed /\ Needed \subseteq Repos
    BY NeededClosed DEF RoomInv, Types
  <2>5. calls' \in Seq(SUBSET Needed) /\ Len(calls') = 1 /\ calls'[1] = {Device}
    BY <2>1, <2>4
  <2>6. 1 <= MaxDepth
    BY DepthPositive
  <2>7. ManifestIsUsable'
    BY <1>1, <1>2, <2>1, <2>2, <2>4 DEF RoomInv, Types, ManifestIsUsable
  <2>8. \E before \in OnDisk : present' \subseteq before \cup Known'
    BY <1>1, <2>2, <2>3 DEF RoomInv, Types, Known
  <2>9. Types'
    BY <1>1, <1>2, <2>1, <2>3, <2>4, <2>5, <2>6, <2>7, <2>8 DEF RoomInv, Types
  <2>10. \A r : Pending(r)' <=> r = Device
    BY <2>5 DEF Pending
  <2>11. ASSUME GoodRun' PROVE Visited({})'
    <3>1. ~ dryrun /\ Device \in present'
      BY <1>1, <2>11 DEF GoodRun
    <3>2. Device \in Fetched'
      BY <1>1, <2>2, <3>1 DEF Fetched, Known
    <3> QED
      BY <2>10, <3>2 DEF Visited
  <2>12. Progress' /\ Idle'
    BY <2>10, <2>11 DEF Progress, Idle
  <2> QED
    BY <2>1, <2>9, <2>12 DEF RoomInv, NeededIsFetched
<1> QED
  BY <1>3, <1>4 DEF Start

LEMMA StartDepsOnlyStep == ASSUME RoomInv, StartDepsOnly PROVE RoomInv'
<1>1. /\ UNCHANGED <<world, manifest, present>> /\ runs' = runs
      /\ dryrun' = dryrun /\ syncFailed' = syncFailed
      /\ shipped' = shipped /\ manifest' = manifest /\ present' = present
  BY DEF StartDepsOnly, world, user
<1>2. CASE Device \in manifest
  <2>1. pc' = "fetch" /\ calls' = <<{Device}>>
    BY <1>2 DEF StartDepsOnly
  <2>2. Device \in Needed
    BY NeededClosed DEF RoomInv, Types
  <2>3. calls' \in Seq(SUBSET Needed) /\ Len(calls') = 1 /\ calls'[1] = {Device}
    BY <2>1, <2>2
  <2>4. Types'
    BY <1>1, <2>1, <2>3, DepthPositive, TypesStay DEF RoomInv, Types
  <2>5. \A r : Pending(r)' <=> r = Device
    BY <2>3 DEF Pending
  <2>6. GoodRun' => Visited({})'
    BY <1>1, <1>2, <2>5 DEF Visited, GoodRun, Fetched, Known
  <2> QED
    BY <2>1, <2>4, <2>5, <2>6 DEF RoomInv, Progress, Idle, NeededIsFetched
<1>3. CASE Device \notin manifest
  <2>1. pc' = "exited" /\ calls' = calls
    BY <1>3 DEF StartDepsOnly
  <2>2. Types'
    BY <1>1, <2>1, TypesStay DEF RoomInv, Types
  <2> QED
    BY <2>1, <2>2 DEF RoomInv, Progress, Idle, NeededIsFetched
<1> QED
  BY <1>2, <1>3

\* What a call that does not end the program makes of the nested calls: the
\* repository is taken from the innermost one, and has one of its own.
LEMMA CalledCalls ==
    ASSUME Types, Call, pc' = "fetch"
    PROVE  LET n == Len(calls)
           IN  /\ n \in 1 .. MaxDepth - 1
               /\ \E repo \in calls[n] :
                    /\ repo \in Needed
                    /\ AddToManifest(Found(repo) \ Known)
                    /\ SyncUnlessDryRun(Syncable(repo))
                    /\ ((Found(repo) \ Known) \ pinned[repo]) \cap branchless = {}
                    /\ calls' \in Seq(SUBSET Needed) /\ Len(calls') = n + 1
                    /\ calls'[n + 1] = Found(repo)
                    /\ calls'[n] = calls[n] \ {repo}
                    /\ \A k \in 1 .. n - 1 : calls'[k] = calls[k]
<1> DEFINE n == Len(calls)
<1>1. PICK repo \in calls[n] :
        IF n = MaxDepth
        THEN pc' = "recursion" /\ UNCHANGED <<manifest, present, calls, syncFailed>>
        ELSE FetchNew(repo, [calls EXCEPT ![n] = @ \ {repo}])
  BY DEF Call, ToVerify, depth
<1> DEFINE rest == [calls EXCEPT ![n] = @ \ {repo}]
           found == Found(repo)
<1>2. /\ n # MaxDepth
      /\ ((found \ Known) \ pinned[repo]) \cap branchless = {}
      /\ AddToManifest(found \ Known)
      /\ SyncUnlessDryRun(Syncable(repo))
      /\ calls' = Append(rest, found)
  BY <1>1 DEF FetchNew, Verify, Call
<1>3. n \in 1 .. MaxDepth - 1 /\ calls \in Seq(SUBSET Needed) /\ repo \in Needed
  BY <1>1, <1>2 DEF Call, Types
<1>4. found \subseteq Needed
  BY <1>3, FoundNeeded
<1>5. /\ rest \in Seq(SUBSET Needed) /\ Len(rest) = n
      /\ \A k \in 1 .. n : rest[k] = IF k = n THEN calls[n] \ {repo} ELSE calls[k]
  BY <1>3
<1> HIDE DEF rest
<1>6. /\ calls' \in Seq(SUBSET Needed) /\ Len(calls') = n + 1
      /\ calls'[n + 1] = found
      /\ \A k \in 1 .. n : calls'[k] = rest[k]
  BY <1>2, <1>4, <1>5
<1>7. calls'[n] = calls[n] \ {repo} /\ \A k \in 1 .. n - 1 : calls'[k] = calls[k]
  BY <1>3, <1>5, <1>6
<1> QED
  BY <1>2, <1>3, <1>6, <1>7

\* A run that is good after a call was good before it: what it had not got of
\* the device's repository, it does not get by a call.
LEMMA GoodBefore == ASSUME RoomInv, Call, pc' = "fetch", GoodRun' PROVE GoodRun
<1>1. dryrun' = dryrun /\ pc = "fetch"
  BY DEF Call, user
<1>2. ~ dryrun /\ ~ syncFailed' /\ Device \in present'
  BY <1>1 DEF GoodRun
<1>3. PICK repo \in calls[Len(calls)] : SyncUnlessDryRun(Syncable(repo))
  BY CalledCalls DEF RoomInv
<1>4. /\ ~ syncFailed
      /\ present' \subseteq present \cup Syncable(repo)
  BY <1>2, <1>3, SyncPresent DEF SyncUnlessDryRun
<1>5. ASSUME Device \notin present PROVE FALSE
  <2>1. Len(calls) \in 1 .. Len(calls)
    BY CalledCalls DEF RoomInv
  <2>2. repo = Device
    BY <1>1, <1>2, <1>3, <1>4, <1>5, <2>1 DEF RoomInv, Idle, Pending
  <2>3. Syncable(repo) = {}
    BY <1>5, <2>2 DEF Syncable, Found
  <2> QED
    BY <1>2, <1>4, <1>5, <2>3
<1> QED
  BY <1>2, <1>4, <1>5 DEF GoodRun

LEMMA CallStep == ASSUME RoomInv, Call PROVE RoomInv'
<1>1. /\ dependencies' = dependencies /\ branchless' = branchless /\ runs' = runs
      /\ pinned' = pinned /\ shipped' = shipped /\ UNCHANGED world
      /\ dryrun' = dryrun /\ pc = "fetch" /\ calls # <<>>
  BY DEF Call, world, user
<1>2. Needed' = Needed
  BY <1>1 DEF Needed, Reachable, Closed
<1>4. CASE pc' # "fetch"
  <2>1. pc' \in {"recursion", "exited"} /\ UNCHANGED <<manifest, present, calls, syncFailed>>
    BY <1>1, <1>4 DEF Call, FetchNew
  <2>2. Types'
    BY <1>1, <2>1, TypesStay DEF RoomInv, Types
  <2> QED
    BY <2>1, <2>2 DEF RoomInv, Progress, Idle, NeededIsFetched
<1>5. CASE pc' = "fetch"
  <2> DEFINE n == Len(calls)
  <2>1. n \in 1 .. MaxDepth - 1
    BY <1>5, CalledCalls DEF RoomInv
  <2>2. PICK repo \in calls[n] :
            /\ repo \in Needed
            /\ AddToManifest(Found(repo) \ Known)
            /\ SyncUnlessDryRun(Syncable(repo))
            /\ ((Found(repo) \ Known) \ pinned[repo]) \cap branchless = {}
            /\ calls' \in Seq(SUBSET Needed) /\ Len(calls') = n + 1
            /\ calls'[n + 1] = Found(repo)
            /\ calls'[n] = calls[n] \ {repo}
            /\ \A k \in 1 .. n - 1 : calls'[k] = calls[k]
    BY <1>5, CalledCalls DEF RoomInv
  <2> DEFINE found == Found(repo)
  <2>3. found \subseteq Needed /\ found \subseteq dependencies[repo] /\ Needed \subseteq Repos
    BY <2>2, FoundNeeded, NeededClosed DEF RoomInv, Found, Types
  <2>6. manifest' = IF dryrun THEN manifest ELSE manifest \cup (found \ Known)
    BY <2>2 DEF AddToManifest
  <2>7. /\ present \subseteq present' /\ present' \subseteq present \cup found
        /\ present' \subseteq present \cup Known'
        /\ ~ dryrun /\ ~ syncFailed' => ~ syncFailed /\ Syncable(repo) \subseteq present'
    <3>1. CASE dryrun
      BY <1>1, <2>2, <3>1 DEF SyncUnlessDryRun
    <3>2. CASE ~ dryrun
      BY <1>1, <2>2, <3>2, SyncPresent DEF SyncUnlessDryRun, Known, Syncable
    <3> QED
      BY <3>1, <3>2
  <2>4. ManifestIsUsable'
    BY <1>1, <1>2, <2>2, <2>3, <2>6 DEF RoomInv, Types, ManifestIsUsable
  <2>5. /\ Known \subseteq Known'
        /\ \E before \in OnDisk : present' \subseteq before \cup Known'
    BY <1>1, <2>6, <2>7 DEF RoomInv, Types, Known
  <2>8. Types'
    BY <1>1, <1>2, <1>5, <2>1, <2>2, <2>3, <2>4, <2>5, <2>7 DEF RoomInv, Types
  <2>9. ASSUME NEW r PROVE Pending(r) => r = repo \/ Pending(r)'
    <3>1. ASSUME NEW k \in 1 .. n, r \in calls[k], r # repo PROVE Pending(r)'
      <4>1. k \in 1 .. Len(calls') /\ r \in calls'[k]
        BY <2>1, <2>2, <3>1
      <4> QED
        BY <4>1 DEF Pending
    <3> QED
      BY <3>1 DEF Pending
  <2>10. ASSUME NEW r PROVE Pending(r)' => Pending(r) \/ r \in found
    <3>1. ASSUME NEW k \in 1 .. n + 1, r \in calls'[k] PROVE Pending(r) \/ r \in found
      <4>1. CASE k = n + 1
        BY <2>2, <3>1, <4>1
      <4>2. CASE k \in 1 .. n
        <5>1. r \in calls[k]
          BY <2>1, <2>2, <3>1, <4>2
        <5> QED
          BY <4>2, <5>1 DEF Pending
      <4> QED
        BY <2>1, <4>1, <4>2
    <3> QED
      BY <2>2, <3>1 DEF Pending
  <2>11. ASSUME NEW r \in found PROVE Pending(r)'
    <3>1. n + 1 \in 1 .. Len(calls') /\ r \in calls'[n + 1]
      BY <2>1, <2>2
    <3> QED
      BY <3>1 DEF Pending
  <2>12. ASSUME GoodRun' PROVE \E V \in SUBSET Repos : Visited(V)'
    <3>1. GoodRun
      BY <1>5, <2>12, GoodBefore
    <3>2. PICK V \in SUBSET Repos : Visited(V)
      BY <1>1, <3>1 DEF RoomInv, Progress
    <3>3. Pending(repo) /\ repo \in Repos
      BY <2>1, <2>2, <2>3 DEF Pending
    <3>4. repo \in Fetched /\ found = dependencies[repo]
      BY <3>2, <3>3 DEF Visited, Found, Fetched
    <3>5. found \subseteq Fetched' /\ Fetched \subseteq Fetched'
      <4>1. \A r \in found : r \in Syncable(repo) \/ r \in present
        BY DEF Syncable
      <4>2. ~ dryrun /\ ~ syncFailed'
        BY <1>1, <2>12 DEF GoodRun
      <4>3. found \subseteq Known'
        BY <1>1, <2>6, <4>2 DEF Known
      <4> QED
        BY <2>5, <2>7, <4>1, <4>2, <4>3 DEF Fetched
    <3>6. Visited(V \cup {repo})'
      <4>1. V \cup {repo} \subseteq Fetched'
        BY <3>2, <3>4, <3>5 DEF Visited
      <4>2. \A v \in V \cup {repo} : dependencies'[v] \subseteq Fetched'
        BY <1>1, <3>2, <3>4, <3>5 DEF Visited
      <4>3. \A v \in V \cup {repo} : \A r \in dependencies'[v] :
                r \in V \cup {repo} \/ Pending(r)'
        BY <1>1, <2>9, <2>11, <3>2, <3>4 DEF Visited
      <4>4. \A r \in Repos : Pending(r)' => r \in Fetched'
        BY <2>10, <3>2, <3>5 DEF Visited
      <4>5. Device \in V \cup {repo} \/ Pending(Device)'
        BY <2>9, <3>2 DEF Visited
      <4> QED
        BY <4>1, <4>2, <4>3, <4>4, <4>5 DEF Visited
    <3> QED
      BY <3>3, <3>6
  <2>13. ASSUME ~ dryrun', ~ syncFailed', Device \notin present'
         PROVE  \A r : Pending(r)' => r = Device
    <3>1. \A r : Pending(r) => r = Device
      BY <1>1, <2>7, <2>13 DEF RoomInv, Idle
    <3>2. Pending(repo)
      BY <2>1, <2>2 DEF Pending
    <3>3. found = {}
      BY <2>7, <2>13, <3>1, <3>2 DEF Found
    <3> QED
      BY <2>10, <3>1, <3>3
  <2>14. Progress' /\ Idle'
    BY <2>12, <2>13 DEF Progress, Idle
  <2> QED
    BY <1>5, <2>8, <2>14 DEF RoomInv, NeededIsFetched
<1> QED
  BY <1>4, <1>5

\* What a return leaves of the nested calls.
LEMMA ReturnedCalls ==
    ASSUME Types, Return
    PROVE  LET n == Len(calls)
           IN  /\ n \in 1 .. MaxDepth /\ calls[n] = {}
               /\ calls' \in Seq(SUBSET Needed) /\ Len(calls') = n - 1
               /\ \A k \in 1 .. n - 1 : calls'[k] = calls[k]
<1> DEFINE n == Len(calls)
<1>1. calls # <<>> /\ calls[n] = {} /\ calls' = SubSeq(calls, 1, n - 1)
  BY DEF Return, ToVerify, depth
<1>2. calls \in Seq(SUBSET Needed) /\ n \in 1 .. MaxDepth
  BY <1>1 DEF Types
<1>3. n \in Nat /\ Len(calls) = n /\ 1 \in 1 .. n + 1 /\ n - 1 \in 0 .. n
  BY <1>2
<1>4. /\ SubSeq(calls, 1, n - 1) \in Seq(SUBSET Needed)
      /\ Len(SubSeq(calls, 1, n - 1)) = IF 1 <= n - 1 THEN n - 1 - 1 + 1 ELSE 0
      /\ \A k \in 1 .. n - 1 - 1 + 1 : SubSeq(calls, 1, n - 1)[k] = calls[1 + k - 1]
  BY <1>2, <1>3, SubSeqProperties
<1>5. \A k \in 1 .. n - 1 : k \in 1 .. n - 1 - 1 + 1 /\ 1 + k - 1 = k
  BY <1>2
<1>6. (IF 1 <= n - 1 THEN n - 1 - 1 + 1 ELSE 0) = n - 1
  <2>1. n \in Nat /\ 1 <= n
    BY <1>2
  <2> HIDE DEF n
  <2> QED
    BY <2>1
<1> QED
  BY <1>1, <1>2, <1>4, <1>5, <1>6, Zenon

LEMMA ReturnStep == ASSUME RoomInv, Return PROVE RoomInv'
<1> DEFINE n == Len(calls)
<1>1. /\ dependencies' = dependencies /\ branchless' = branchless /\ runs' = runs
      /\ dryrun' = dryrun /\ pc = "fetch" /\ pc' = "fetch" /\ UNCHANGED world
      /\ shipped' = shipped
      /\ manifest' = manifest /\ present' = present /\ syncFailed' = syncFailed
  BY DEF Return, world, user
<1>3. n \in 1 .. MaxDepth /\ calls[n] = {} /\ calls \in Seq(SUBSET Needed)
  BY ReturnedCalls DEF RoomInv, Types
<1>4. /\ calls' \in Seq(SUBSET Needed) /\ Len(calls') = n - 1
      /\ \A k \in 1 .. n - 1 : calls'[k] = calls[k]
  BY ReturnedCalls DEF RoomInv
<1>5. Types'
  BY <1>1, <1>3, <1>4, TypesStay DEF RoomInv, Types
<1>6. \A r : Pending(r)' <=> Pending(r)
  BY <1>1, <1>3, <1>4 DEF Pending
<1>7. \A V : Visited(V)' <=> Visited(V)
  BY <1>1, <1>6 DEF Visited, Fetched, Known
<1>8. Progress' /\ Idle'
  BY <1>1, <1>6, <1>7 DEF RoomInv, Progress, Idle, GoodRun
<1> QED
  BY <1>1, <1>5, <1>8 DEF RoomInv, NeededIsFetched

LEMMA EndStep == ASSUME RoomInv, End PROVE RoomInv'
<1>1. /\ dependencies' = dependencies /\ branchless' = branchless /\ runs' = runs
      /\ dryrun' = dryrun /\ pc = "fetch" /\ pc' = "done" /\ calls = <<>>
      /\ manifest' = manifest /\ present' = present /\ syncFailed' = syncFailed
      /\ calls' = calls /\ UNCHANGED world /\ shipped' = shipped
  BY DEF End, world, user
<1>2. Needed' = Needed
  BY <1>1 DEF Needed, Reachable, Closed
<1>3. Types'
  BY <1>1, TypesStay DEF RoomInv, Types
<1>4. ASSUME GoodRun PROVE Needed \subseteq Fetched
  <2>1. PICK V \in SUBSET Repos : Visited(V)
    BY <1>1, <1>4 DEF RoomInv, Progress
  <2>2. \A r : ~ Pending(r)
    BY <1>1 DEF Pending
  <2>3. Device \in V /\ Closed(V)
    BY <2>1, <2>2 DEF Visited, Closed
  <2>4. Needed \subseteq V
    BY <2>3, NeededSmallest
  <2> QED
    BY <2>1, <2>4 DEF Visited
<1>5. NeededIsFetched'
  BY <1>1, <1>2, <1>4 DEF NeededIsFetched, GoodRun, Fetched, Known
<1> QED
  BY <1>1, <1>3, <1>5 DEF RoomInv, Progress, Idle

LEMMA RunAgainStep == ASSUME RoomInv, RunAgain PROVE RoomInv'
<1>1. /\ dependencies' = dependencies /\ branchless' = branchless
      /\ runs < MaxRuns /\ runs' = runs + 1 /\ pc' = "start" /\ calls' = <<>>
      /\ UNCHANGED <<world, manifest, present>>
  BY DEF RunAgain, world
<1>2. calls' \in Seq(SUBSET Needed) /\ Len(calls') = 0 /\ runs' \in 1 .. MaxRuns
  BY <1>1 DEF RoomInv, Types
<1>3. Types'
  BY <1>1, <1>2, DepthPositive, TypesStay DEF RoomInv
<1> QED
  BY <1>1, <1>3 DEF RoomInv, Progress, Idle, NeededIsFetched

LEMMA RoomStep == RoomInv /\ [Next]_vars => RoomInv'
<1> SUFFICES ASSUME RoomInv, [Next]_vars PROVE RoomInv'
  OBVIOUS
<1>1. CASE Program
  BY <1>1, StartStep, StartDepsOnlyStep, CallStep, ReturnStep, EndStep DEF Program
<1>2. CASE RunAgain
  BY <1>2, RunAgainStep
<1>3. CASE UNCHANGED vars
  <2>1. /\ UNCHANGED <<world, manifest, present>> /\ dependencies' = dependencies
        /\ shipped' = shipped /\ manifest' = manifest /\ present' = present
        /\ dryrun' = dryrun /\ syncFailed' = syncFailed /\ pc' = pc /\ calls' = calls
        /\ runs' = runs
    BY <1>3 DEF vars, world, user
  <2>2. /\ \A r : Pending(r)' <=> Pending(r)
        /\ Known' = Known /\ Fetched' = Fetched /\ (GoodRun' <=> GoodRun)
    BY <2>1 DEF Pending, Known, Fetched, GoodRun
  <2>3. \A V : Visited(V)' <=> Visited(V)
    BY <2>1, <2>2 DEF Visited
  <2>4. Needed' = Needed
    BY <2>1 DEF Needed, Reachable, Closed
  <2>5. Types'
    BY <2>1, TypesStay DEF RoomInv, Types
  <2>6. Progress' /\ Idle'
    BY <2>1, <2>2, <2>3 DEF RoomInv, Progress, Idle
  <2>7. NeededIsFetched'
    BY <2>1, <2>2, <2>4 DEF RoomInv, NeededIsFetched
  <2> QED
    BY <2>5, <2>6, <2>7 DEF RoomInv
<1> QED
  BY <1>1, <1>2, <1>3 DEF Next

LEMMA RoomInvariant == Spec => []RoomInv
BY RoomInit, RoomStep, PTL DEF Spec

\* Type correctness, for any dependencies and any number of runs; what is on
\* disk was there before or is in a manifest.
THEOREM RoomTypeCorrect == Spec => []TypeOK
<1>1. RoomInv => TypeOK
  <2> SUFFICES ASSUME RoomInv PROVE TypeOK
    OBVIOUS
  <2>1. Needed \subseteq Repos
    BY NeededClosed DEF RoomInv, Types
  <2>2. calls \in Seq(SUBSET Repos)
    BY <2>1 DEF RoomInv, Types
  <2> QED
    BY <2>1, <2>2 DEF RoomInv, Types, TypeOK, depth, ManifestIsUsable
<1> QED
  BY <1>1, RoomInvariant, PTL

\* Whatever earlier runs left half done, a run that ends and in which no sync
\* failed leaves all the device needs in a manifest and on disk, unless it began
\* with depsonly without the device's own repository.
THEOREM NeededFetched == Spec => []NeededIsFetched
<1>1. RoomInv => NeededIsFetched
  BY DEF RoomInv
<1> QED
  BY <1>1, RoomInvariant, PTL

\* No repository is added to the manifest that is not needed, or that has no
\* branch to sync unless an entry for it names one or its remote.
THEOREM ManifestUsable == Spec => []ManifestIsUsable
<1>1. RoomInv => ManifestIsUsable
  BY DEF RoomInv, Types
<1> QED
  BY <1>1, RoomInvariant, PTL

-----------------------------------------------------------------------------
(* How a run ends.                                                         *)

\* What a repository needs for itself.
Below(r) == Reachable(dependencies[r])

\* The repositories of the nested calls: chain[k] is the one that has made the
\* call that has calls[k + 1] still to verify.
Chained(chain) ==
    \A k \in 1 .. Len(calls) - 1 :
        /\ calls[k + 1] \subseteq dependencies[chain[k]]
        /\ \A i \in 1 .. k - 1 : chain[k] \in Below(chain[i])

\* The repositories F have returned: so have their dependencies, and the other
\* dependencies of a repository of the chain are still to verify or the next.
Returned(chain, F) ==
    /\ Closed(F)
    /\ \A r \in F : r \notin Below(r)
    /\ \A k \in 1 .. Len(calls) - 1 : \A r \in dependencies[chain[k]] :
        r \in F \/ r \in calls[k + 1] \/ (k + 1 <= Len(calls) - 1 /\ r = chain[k + 1])
    /\ \/ Device \in F
       \/ Len(calls) >= 1 /\ Device \in calls[1]
       \/ Len(calls) >= 2 /\ Device = chain[1]

Nested ==
    pc = "fetch" =>
        \E chain \in [1 .. MaxDepth -> Needed] :
            Chained(chain) /\ (GoodRun => \E F \in SUBSET Repos : Returned(chain, F))

DepthInv == RoomInv /\ Nested /\ RecursionIffCyclic

\* What is reached from repositories has them and all their dependencies, and
\* there is no smaller such set.
LEMMA ReachableClosed ==
    ASSUME dependencies \in [Repos -> SUBSET Repos], NEW S \in SUBSET Repos
    PROVE  /\ S \subseteq Reachable(S)
           /\ Reachable(S) \subseteq Repos
           /\ \A r \in Reachable(S) : dependencies[r] \subseteq Reachable(S)
BY DEF Reachable, Closed

LEMMA ReachableSmallest ==
    ASSUME NEW V \in SUBSET Repos, NEW S \in SUBSET V, Closed(V)
    PROVE  Reachable(S) \subseteq V
BY DEF Reachable

\* What the innermost call has still to verify can be reached from every
\* repository of the chain.
LEMMA ChainReaches ==
    ASSUME Types, NEW chain \in [1 .. MaxDepth -> Needed], Chained(chain),
           calls # <<>>, NEW repo \in calls[Len(calls)], NEW i \in 1 .. Len(calls) - 1
    PROVE  repo \in Below(chain[i])
<1>0. PICK n \in 1 .. MaxDepth : n = Len(calls)
  BY DEF Types
<1>1. i \in 1 .. n - 1 /\ n - 1 \in 1 .. n - 1 /\ n - 1 + 1 = n
  BY <1>0
<1>2. repo \in dependencies[chain[n - 1]]
  BY <1>0, <1>1 DEF Chained
<1>3. \A j \in 1 .. n - 1 : chain[j] \in Repos /\ dependencies[chain[j]] \in SUBSET Repos
  BY <1>1, NeededClosed DEF Types
<1>4. CASE i = n - 1
  <2>1. repo \in dependencies[chain[i]] /\ dependencies[chain[i]] \in SUBSET Repos
    BY <1>1, <1>2, <1>3, <1>4
  <2>2. dependencies[chain[i]] \subseteq Reachable(dependencies[chain[i]])
    BY <2>1, ReachableClosed DEF Types
  <2> QED
    BY <2>1, <2>2 DEF Below
<1>5. CASE i # n - 1
  <2>1. i \in 1 .. n - 1 - 1
    BY <1>1, <1>5
  <2>2. chain[n - 1] \in Below(chain[i])
    BY <1>0, <1>1, <2>1 DEF Chained
  <2> QED
    <3>1. n - 1 \in 1 .. n - 1 /\ dependencies[chain[i]] \in SUBSET Repos
      BY <1>1, <1>3
    <3>2. dependencies[chain[n - 1]] \subseteq Reachable(dependencies[chain[i]])
      BY <2>2, <3>1, ReachableClosed DEF Types, Below
    <3> QED
      BY <1>2, <3>2 DEF Below
<1> QED
  BY <1>4, <1>5

\* There are fewer repositories than nested calls: at the limit, some
\* repository is in the chain twice.
LEMMA LimitIsCyclic ==
    ASSUME Types, NEW chain \in [1 .. MaxDepth -> Needed], Chained(chain),
           Len(calls) = MaxDepth, NEW repo \in calls[MaxDepth]
    PROVE  Cyclic
<1> DEFINE full == [chain EXCEPT ![MaxDepth] = repo]
<1>1. MaxDepth \in Nat /\ 1 <= MaxDepth /\ MaxDepth \in 1 .. MaxDepth
  BY DepthPositive
<1>2. calls # <<>> /\ repo \in Needed /\ Needed \subseteq Repos
  BY <1>1, NeededClosed DEF Types
<1>3. full \in [1 .. MaxDepth -> Repos]
  BY <1>2
<1>4. \A i \in 1 .. MaxDepth : full[i] \in Needed
  BY <1>2
<1>5. ASSUME NEW i \in 1 .. MaxDepth, NEW j \in 1 .. MaxDepth, i < j
      PROVE  full[j] \in Below(full[i])
  <2>1. i \in 1 .. MaxDepth - 1 /\ full[i] = chain[i]
    BY <1>1, <1>5
  <2>2. CASE j = MaxDepth
    BY <1>2, <2>1, <2>2, ChainReaches
  <2>3. CASE j # MaxDepth
    <3>1. j \in 1 .. MaxDepth - 1 /\ i \in 1 .. j - 1 /\ full[j] = chain[j]
      BY <1>1, <1>5, <2>3
    <3> QED
      BY <2>1, <3>1 DEF Chained
  <2> QED
    BY <2>2, <2>3
<1> HIDE DEF full
<1>6. /\ IsFiniteSet(1 .. MaxDepth) /\ IsFiniteSet(Repos)
      /\ Cardinality(1 .. MaxDepth) = MaxDepth
  BY <1>1, FS_Interval
<1>7. PICK i \in 1 .. MaxDepth, j \in 1 .. MaxDepth : i # j /\ full[i] = full[j]
  BY <1>3, <1>6, FS_PigeonHole
<1>8. full[i] \in Below(full[i])
  <2>1. CASE i < j
    BY <1>5, <1>7, <2>1
  <2>2. CASE j < i
    BY <1>5, <1>7, <2>2
  <2> QED
    BY <1>7, <2>1, <2>2
<1> QED
  BY <1>4, <1>8 DEF Cyclic, Below

\* The repositories and what they depend on do not change.
LEMMA WorldStays ==
    ASSUME dependencies' = dependencies
    PROVE  /\ Needed' = Needed
           /\ \A r : Below(r)' = Below(r)
           /\ \A S : Closed(S)' <=> Closed(S)
           /\ Cyclic' <=> Cyclic
BY DEF Needed, Below, Cyclic, Reachable, Closed

LEMMA StartNested ==
    ASSUME Types, dependencies' = dependencies, calls' = <<{Device}>>
    PROVE  Nested' /\ \E chain \in [1 .. MaxDepth -> Needed] : TRUE
<1>1. Device \in Needed /\ Needed' = Needed
  BY NeededClosed, WorldStays DEF Types
<1> DEFINE chain == [k \in 1 .. MaxDepth |-> Device]
<1>2. chain \in [1 .. MaxDepth -> Needed]
  BY <1>1
<1> HIDE DEF chain
<1>3. Len(calls') = 1 /\ calls'[1] = {Device}
  OBVIOUS
<1>4. Chained(chain)' /\ Returned(chain, {})'
  BY <1>3 DEF Chained, Returned, Closed
<1> QED
  BY <1>1, <1>2, <1>4 DEF Nested

LEMMA CallNested ==
    ASSUME DepthInv, Call
    PROVE  Nested' /\ RecursionIffCyclic'
<1>0. PICK n : n = Len(calls)
  OBVIOUS
<1>1. /\ dependencies' = dependencies /\ dryrun' = dryrun /\ pc = "fetch"
      /\ calls # <<>> /\ Types
  BY DEF Call, world, user, DepthInv, RoomInv
<1>2. /\ Needed' = Needed /\ \A r : Below(r)' = Below(r)
      /\ \A S : Closed(S)' <=> Closed(S)
      /\ Cyclic' <=> Cyclic
  BY <1>1, WorldStays
<1>3. PICK chain \in [1 .. MaxDepth -> Needed] :
        Chained(chain) /\ (GoodRun => \E F \in SUBSET Repos : Returned(chain, F))
  BY <1>1 DEF DepthInv, Nested
<1>4. CASE pc' # "fetch"
  <2>1. pc' \in {"recursion", "exited"}
    BY <1>1, <1>4 DEF Call, FetchNew
  <2>2. pc' = "recursion" => Len(calls) = MaxDepth /\ \E repo \in calls[MaxDepth] : TRUE
    BY <1>1 DEF Call, FetchNew, ToVerify, depth
  <2>3. pc' = "recursion" => Cyclic
    BY <1>1, <1>3, <2>2, LimitIsCyclic
  <2> QED
    BY <1>2, <2>1, <2>3 DEF Nested, RecursionIffCyclic
<1>5. CASE pc' = "fetch"
  <2>1. n \in 1 .. MaxDepth - 1
    BY <1>0, <1>1, <1>5, CalledCalls
  <2>2. PICK repo \in calls[n] :
            /\ repo \in Needed
            /\ SyncUnlessDryRun(Syncable(repo))
            /\ Len(calls') = n + 1
            /\ calls'[n + 1] = Found(repo)
            /\ calls'[n] = calls[n] \ {repo}
            /\ \A k \in 1 .. n - 1 : calls'[k] = calls[k]
    BY <1>0, <1>1, <1>5, CalledCalls
  <2> DEFINE longer == [chain EXCEPT ![n] = repo]
  <2>3. /\ longer \in [1 .. MaxDepth -> Needed] /\ longer[n] = repo
        /\ \A k \in 1 .. n - 1 : longer[k] = chain[k]
    BY <2>1, <2>2
  <2> HIDE DEF longer
  <2>4. Chained(longer)'
    <3> SUFFICES ASSUME NEW k \in 1 .. n
                 PROVE  /\ calls'[k + 1] \subseteq dependencies[longer[k]]
                        /\ \A i \in 1 .. k - 1 : longer[k] \in Below(longer[i])
      <4>1. Len(calls') - 1 = n
        BY <2>1, <2>2
      <4> QED
        BY <1>1, <1>2, <4>1 DEF Chained
    <3>1. CASE k = n
      <4>1. calls'[n + 1] \subseteq dependencies[repo]
        BY <2>2 DEF Found
      <4>2. \A i \in 1 .. n - 1 : repo \in Below(chain[i])
        BY <1>0, <1>1, <1>3, ChainReaches
      <4> QED
        BY <2>3, <3>1, <4>1, <4>2
    <3>2. CASE k # n
      <4>1. k \in 1 .. n - 1
        BY <2>1, <3>2
      <4>2. /\ calls[k + 1] \subseteq dependencies[chain[k]]
            /\ \A i \in 1 .. k - 1 : chain[k] \in Below(chain[i])
        BY <1>0, <1>3, <4>1 DEF Chained
      <4>3. calls'[k + 1] \subseteq calls[k + 1]
        <5>1. k + 1 = n \/ k + 1 \in 1 .. n - 1
          BY <2>1, <4>1
        <5> QED
          BY <2>2, <5>1
      <4>4. \A i \in 1 .. k - 1 : i \in 1 .. n - 1
        BY <2>1, <4>1
      <4> QED
        BY <2>3, <4>1, <4>2, <4>3, <4>4
    <3> QED
      BY <3>1, <3>2
  <2>5. ASSUME GoodRun' PROVE \E F \in SUBSET Repos : Returned(longer, F)'
    <3>1. GoodRun
      BY <1>5, <2>5, GoodBefore DEF DepthInv
    <3>2. PICK F \in SUBSET Repos : Returned(chain, F)
      BY <1>3, <3>1
    <3>3. calls'[n + 1] = dependencies[repo]
      <4>1. repo \in Repos /\ Pending(repo)
        BY <1>0, <1>1, <2>1, <2>2, NeededClosed DEF Pending, Types
      <4>2. repo \in present
        BY <1>1, <3>1, <4>1 DEF DepthInv, RoomInv, Progress, Visited, Fetched
      <4> QED
        BY <2>2, <4>2 DEF Found
    <3>4. ASSUME NEW k \in 1 .. n, NEW r \in dependencies[longer[k]]
          PROVE  r \in F \/ r \in calls'[k + 1] \/ (k + 1 <= n /\ r = longer[k + 1])
      <4>1. CASE k = n
        BY <2>3, <3>3, <4>1
      <4>2. CASE k # n
        <5>1. k \in 1 .. n - 1 /\ longer[k] = chain[k]
          BY <2>1, <2>3, <4>2
        <5>2. \/ r \in F
              \/ r \in calls[k + 1]
              \/ k + 1 <= n - 1 /\ r = chain[k + 1]
          BY <1>0, <3>2, <5>1 DEF Returned
        <5>3. CASE k + 1 = n
          BY <2>1, <2>2, <2>3, <5>2, <5>3
        <5>4. CASE k + 1 # n
          <6>1. k + 1 \in 1 .. n - 1 /\ k + 1 <= n
            BY <2>1, <5>1, <5>4
          <6>2. calls'[k + 1] = calls[k + 1] /\ longer[k + 1] = chain[k + 1]
            BY <2>2, <2>3, <6>1
          <6> QED
            BY <5>2, <6>1, <6>2
        <5> QED
          BY <5>3, <5>4
      <4> QED
        BY <4>1, <4>2
    <3>5. Device \in F \/ Device \in calls'[1] \/ Device = longer[1]
      <4>1. \/ Device \in F
            \/ Device \in calls[1]
            \/ n >= 2 /\ Device = chain[1]
        BY <1>0, <3>2 DEF Returned
      <4>2. CASE n = 1
        BY <2>2, <2>3, <4>1, <4>2
      <4>3. CASE n # 1
        <5>1. 1 \in 1 .. n - 1
          BY <2>1, <4>3
        <5> QED
          BY <2>2, <2>3, <4>1, <5>1
      <4> QED
        BY <4>2, <4>3
    <3>6. Returned(longer, F)'
      <4>1. /\ Len(calls') - 1 = n /\ Len(calls') >= 1 /\ Len(calls') >= 2
        BY <2>1, <2>2
      <4>2. Closed(F)' /\ \A r \in F : r \notin Below(r)'
        BY <1>2, <3>2 DEF Returned
      <4> QED
        BY <1>1, <3>4, <3>5, <4>1, <4>2 DEF Returned
    <3> QED
      BY <3>6
  <2> QED
    BY <1>2, <1>5, <2>3, <2>4, <2>5 DEF Nested, RecursionIffCyclic
<1> QED
  BY <1>4, <1>5

LEMMA ReturnNested ==
    ASSUME DepthInv, Return
    PROVE  Nested'
<1>0. PICK n : n = Len(calls)
  OBVIOUS
<1>1. /\ dependencies' = dependencies /\ dryrun' = dryrun /\ syncFailed' = syncFailed
      /\ pc = "fetch" /\ pc' = "fetch" /\ Types
      /\ present' = present
  BY DEF Return, world, user, DepthInv, RoomInv
<1>2. /\ Needed' = Needed /\ \A r : Below(r)' = Below(r)
      /\ \A S : Closed(S)' <=> Closed(S)
  BY <1>1, WorldStays
<1>3. /\ n \in 1 .. MaxDepth /\ calls[n] = {} /\ Len(calls') = n - 1
      /\ \A k \in 1 .. n - 1 : calls'[k] = calls[k]
  BY <1>0, <1>1, ReturnedCalls
<1>4. PICK chain \in [1 .. MaxDepth -> Needed] :
        Chained(chain) /\ (GoodRun => \E F \in SUBSET Repos : Returned(chain, F))
  BY <1>1 DEF DepthInv, Nested
<1>5. Chained(chain)'
  <2> SUFFICES ASSUME NEW k \in 1 .. n - 1 - 1
               PROVE  /\ calls'[k + 1] \subseteq dependencies[chain[k]]
                      /\ \A i \in 1 .. k - 1 : chain[k] \in Below(chain[i])
    BY <1>1, <1>2, <1>3 DEF Chained
  <2>1. k \in 1 .. n - 1 /\ k + 1 \in 1 .. n - 1
    BY <1>3
  <2> QED
    BY <1>0, <1>3, <1>4, <2>1 DEF Chained
<1>6. ASSUME GoodRun' PROVE \E F \in SUBSET Repos : Returned(chain, F)'
  <2>1. PICK F \in SUBSET Repos : Returned(chain, F)
    BY <1>1, <1>4, <1>6 DEF GoodRun
  <2>2. CASE n = 1
    <3>1. Device \in F
      BY <1>0, <1>3, <2>1, <2>2 DEF Returned
    <3>2. Returned(chain, F)'
      <4>1. \A k \in 1 .. Len(calls') - 1 : FALSE
        BY <1>3, <2>2
      <4>2. Closed(F)' /\ \A r \in F : r \notin Below(r)'
        BY <1>2, <2>1 DEF Returned
      <4> QED
        BY <3>1, <4>1, <4>2 DEF Returned
    <3> QED
      BY <3>2
  <2>3. CASE n # 1
    <3> DEFINE c == chain[n - 1]
               G == F \cup {c}
    <3>1. n - 1 \in 1 .. n - 1 /\ n - 1 \in 1 .. MaxDepth /\ n - 1 + 1 = n
      BY <1>3, <2>3
    <3>2. c \in Repos /\ dependencies[c] \in SUBSET Repos
      BY <1>1, <3>1, NeededClosed DEF Types
    <3>3. dependencies[c] \subseteq F
      BY <1>0, <1>3, <2>1, <3>1 DEF Returned
    <3>4. Closed(G)
      BY <2>1, <3>3 DEF Returned, Closed
    <3>5. \A r \in G : r \notin Below(r)
      <4>1. Below(c) \subseteq F
        BY <2>1, <3>3, ReachableSmallest DEF Returned, Below
      <4> QED
        BY <2>1, <4>1 DEF Returned
    <3>6. ASSUME NEW k \in 1 .. n - 1 - 1, NEW r \in dependencies[chain[k]]
          PROVE  r \in G \/ r \in calls'[k + 1] \/ (k + 1 <= n - 1 - 1 /\ r = chain[k + 1])
      <4>1. k \in 1 .. n - 1 /\ k + 1 \in 1 .. n - 1
        BY <1>3
      <4>2. r \in F \/ r \in calls[k + 1] \/ r = chain[k + 1]
        BY <1>0, <2>1, <4>1 DEF Returned
      <4>3. CASE k + 1 = n - 1
        BY <1>3, <4>1, <4>2, <4>3
      <4>4. CASE k + 1 # n - 1
        <5>1. k + 1 <= n - 1 - 1
          BY <1>3, <4>1, <4>4
        <5> QED
          BY <1>3, <4>1, <4>2, <5>1
      <4> QED
        BY <4>3, <4>4
    <3>7. \/ Device \in G
          \/ n - 1 >= 1 /\ Device \in calls'[1]
          \/ n - 1 >= 2 /\ Device = chain[1]
      <4>1. n - 1 >= 1 /\ 1 \in 1 .. n - 1
        BY <1>3, <2>3
      <4>2. Device \in F \/ Device \in calls[1] \/ Device = chain[1]
        BY <2>1 DEF Returned
      <4>3. n - 1 = 1 \/ n - 1 >= 2
        BY <1>3, <2>3
      <4> QED
        BY <1>3, <4>1, <4>2, <4>3
    <3> HIDE DEF c, G
    <3>8. Returned(chain, G)'
      BY <1>1, <1>2, <1>3, <3>4, <3>5, <3>6, <3>7 DEF Returned
    <3>9. G \in SUBSET Repos
      BY <3>2 DEF G
    <3> QED
      BY <3>8, <3>9
  <2> QED
    BY <2>2, <2>3
<1> QED
  BY <1>2, <1>4, <1>5, <1>6 DEF Nested

LEMMA EndNested ==
    ASSUME DepthInv, End
    PROVE  Nested' /\ RecursionIffCyclic'
<1>1. /\ dependencies' = dependencies /\ dryrun' = dryrun /\ syncFailed' = syncFailed
      /\ pc = "fetch" /\ pc' = "done" /\ calls = <<>> /\ Types
      /\ present' = present
  BY DEF End, world, user, DepthInv, RoomInv
<1>2. Cyclic' <=> Cyclic
  BY <1>1, WorldStays
<1>3. ASSUME GoodRun PROVE ~ Cyclic
  <2>1. PICK F \in SUBSET Repos : \E chain : Returned(chain, F)
    BY <1>1, <1>3 DEF DepthInv, Nested
  <2>2. Device \in F /\ Closed(F) /\ \A r \in F : r \notin Below(r)
    BY <1>1, <2>1 DEF Returned
  <2>3. Needed \subseteq F
    BY <2>2, NeededSmallest
  <2> QED
    BY <2>2, <2>3 DEF Cyclic, Below
<1> QED
  BY <1>1, <1>2, <1>3 DEF Nested, RecursionIffCyclic, GoodRun

LEMMA DepthInvariant == Spec => []DepthInv
<1>1. Init => DepthInv
  BY RoomInit DEF Init, DepthInv, Nested, RecursionIffCyclic
<1>2. DepthInv /\ [Next]_vars => DepthInv'
  <2> SUFFICES ASSUME DepthInv, [Next]_vars PROVE DepthInv'
    OBVIOUS
  <2>1. RoomInv'
    BY RoomStep DEF DepthInv
  <2>2. Types
    BY DEF DepthInv, RoomInv
  <2>3. CASE Start
    <3>1. pc' \in {"exited", "fetch"} /\ dependencies' = dependencies
      BY <2>3 DEF Start, StartFull, NoBranch, world
    <3>2. pc' = "fetch" => calls' = <<{Device}>>
      BY <2>3 DEF Start, StartFull, NoBranch
    <3>3. Nested'
      BY <2>2, <3>1, <3>2, StartNested DEF Nested
    <3> QED
      BY <2>1, <3>1, <3>3 DEF DepthInv, RecursionIffCyclic
  <2>4. CASE StartDepsOnly
    <3>1. /\ pc' \in {"exited", "fetch"} /\ dependencies' = dependencies
          /\ pc' = "fetch" => calls' = <<{Device}>>
      BY <2>4 DEF StartDepsOnly, world
    <3>2. Nested'
      BY <2>2, <3>1, StartNested DEF Nested
    <3> QED
      BY <2>1, <3>1, <3>2 DEF DepthInv, RecursionIffCyclic
  <2>5. CASE Call
    BY <2>1, <2>5, CallNested DEF DepthInv
  <2>6. CASE Return
    <3>1. pc' = "fetch"
      BY <2>6 DEF Return
    <3> QED
      BY <2>1, <2>6, <3>1, ReturnNested DEF DepthInv, RecursionIffCyclic
  <2>7. CASE End
    BY <2>1, <2>7, EndNested DEF DepthInv
  <2>8. CASE RunAgain
    <3>1. pc' = "start"
      BY <2>8 DEF RunAgain
    <3> QED
      BY <2>1, <3>1 DEF DepthInv, Nested, RecursionIffCyclic
  <2>9. CASE UNCHANGED vars
    <3>1. /\ dependencies' = dependencies /\ dryrun' = dryrun /\ syncFailed' = syncFailed
          /\ pc' = pc /\ calls' = calls /\ present' = present
      BY <2>9 DEF vars, world, user
    <3>2. /\ Needed' = Needed /\ \A r : Below(r)' = Below(r)
          /\ \A S : Closed(S)' <=> Closed(S)
          /\ Cyclic' <=> Cyclic
      BY <3>1, WorldStays
    <3>3. /\ \A chain : Chained(chain)' <=> Chained(chain)
          /\ \A chain, F : Returned(chain, F)' <=> Returned(chain, F)
      BY <3>1, <3>2 DEF Chained, Returned
    <3>4. Nested'
      BY <3>1, <3>2, <3>3 DEF DepthInv, Nested, GoodRun
    <3>5. RecursionIffCyclic'
      BY <3>1, <3>2 DEF DepthInv, RecursionIffCyclic, GoodRun
    <3> QED
      BY <2>1, <3>4, <3>5 DEF DepthInv
  <2> QED
    BY <2>3, <2>4, <2>5, <2>6, <2>7, <2>8, <2>9 DEF Next, Program
<1> QED
  BY <1>1, <1>2, PTL DEF Spec

\* fetch_dependencies calls itself for every dependency, seen before or not: it
\* meets the interpreter's limit only on a cycle of what the device needs,
\* whatever was fetched before and whatever fails; and on a cycle a run whose
\* syncs all succeed does not end well, if it has the device's repository.
THEOREM EndsUnlessCyclic == Spec => []RecursionIffCyclic
<1>1. DepthInv => RecursionIffCyclic
  BY DEF DepthInv
<1> QED
  BY <1>1, DepthInvariant, PTL
=============================================================================
