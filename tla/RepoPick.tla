------------------------------ MODULE RepoPick ------------------------------
(***************************************************************************)
(* build/tools/repopick.py, from round 1 on: changes of several projects   *)
(* are fetched and picked by a pool of threads, the changes of one project *)
(* by one thread, one after another.  A git command that fails ends its    *)
(* task with an exception that stays, unread, in the task's future: the    *)
(* other tasks go on, and so does the program.  In round 1 there are no    *)
(* threads yet, and it ends the program.                                   *)
(*                                                                         *)
(* The changes of a project are 1, 2, ... in the order they were sorted    *)
(* in, so that a list of them is given by the set of its members; --pull,  *)
(* which replaces cherry-pick, is left out.                                *)
(***************************************************************************)
EXTENDS Integers, Sequences, Functions

CONSTANTS Projects,    \* project paths
          NoProject,
          Place,       \* the place of each project in mergables
          Count,       \* how many changes there are for each project
          Jobs,        \* max_workers
          PickedSets   \* the sets of changes that may be picked before

Changes == UNION {{p} \X (1 .. Count[p]) : p \in Projects}

ASSUME RepoPickAssumption ==
    /\ NoProject \notin Projects
    /\ Place \in [Projects -> Int]
    /\ \A p, q \in Projects : Place[p] = Place[q] => p = q
    /\ Count \in [Projects -> Nat]
    /\ Jobs \in Nat \ {0}
    /\ PickedSets \subseteq SUBSET Changes

\* What git cherry-pick does with a change whose commit is there.
Outcomes == {"applies", "empty", "conflicts"}

VARIABLES
    \* What git finds, and the options: chosen once.
    outcome,    \* of each change
    stacked,    \* the changes of a project are commits on top of each other
    already,    \* the changes a project's branch contains
    reset,      \* the option --reset
    \* The program.
    round,      \* "filter", "fetch", "apply", "done"; "aborted" in round 1
    mergables,  \* the changes to pick of each project
    unsent,     \* the tasks of this round that are still to be submitted
    queue,      \* the tasks submitted and not yet taken
    worker,     \* the threads of the pool
    \* The projects.
    objects,    \* the changes whose commits are there
    heads,      \* the changes picked on top of each branch
    tree        \* "clean", "picking" (a cherry-pick stopped, nothing changed),
                \* "conflicted"

inputs  == <<outcome, stacked, already, reset>>
program == <<round, mergables, unsent, queue, worker>>
git     == <<objects, heads, tree>>
vars    == <<inputs, program, git>>

Workers == 1 .. Jobs

\* A thread without a task, and one with a task: fetch one change, pick several.
Idle == [task |-> "idle", project |-> NoProject, items |-> {}, stopped |-> FALSE]
Task(task, p, items) == [task |-> task, project |-> p, items |-> items, stopped |-> FALSE]

Init ==
    /\ outcome \in [Changes -> Outcomes]
    /\ stacked \in BOOLEAN
    /\ already \in PickedSets
    /\ reset \in BOOLEAN
    /\ round = "filter"
    /\ mergables = [p \in Projects |-> {}]
    /\ unsent = {}
    /\ queue = <<>>
    /\ worker = [w \in Workers |-> Idle]
    /\ objects = already
    /\ heads = [p \in Projects |-> <<>>]
    /\ tree = [p \in Projects |-> "clean"]

-----------------------------------------------------------------------------

\* Mutant: the changes are counted from 0.
NotPickedFromZero(p) == {i \in 0 .. Count[p] - 1 : <<p, i>> \notin already}

\* filter_picked: the changes that are not among the last commits of the branch.
NotPicked(p) == {i \in 1 .. Count[p] : <<p, i>> \notin already}

\* Round 1.  In round 2 each change of each project is fetched by a task.
Filter ==
    /\ round = "filter"
    /\ mergables' = [p \in Projects |-> NotPicked(p)]
    /\ unsent' = UNION {{Task("fetch", p, {i}) : i \in NotPicked(p)} : p \in Projects}
    /\ round' = "fetch"
    /\ UNCHANGED <<inputs, queue, worker, git>>

\* A git command of round 1 fails, or there is no project at a path: nothing is
\* caught, and nothing has been fetched or picked in any project.
Abort ==
    /\ round = "filter"
    /\ round' = "aborted"
    /\ UNCHANGED <<inputs, mergables, unsent, queue, worker, git>>

\* The projects in their order, the changes of one from the last to the first.
Before(t, u) ==
    \/ Place[t.project] < Place[u.project]
    \/ t.project = u.project /\ \A i \in t.items, j \in u.items : i > j

\* The loops around e.submit, while the threads are already at work.
Submit ==
    /\ \E t \in unsent :
          /\ \A u \in unsent \ {t} : Before(t, u)
          /\ unsent' = unsent \ {t}
          /\ queue' = Append(queue, t)
    /\ UNCHANGED <<inputs, round, mergables, worker, git>>

\* A thread takes the task that was submitted first.
Take(w) ==
    /\ worker[w] = Idle
    /\ queue # <<>>
    /\ worker' = [worker EXCEPT ![w] = Head(queue)]
    /\ queue' = Tail(queue)
    /\ UNCHANGED <<inputs, round, mergables, unsent, git>>

EndTask(w) == worker' = [worker EXCEPT ![w] = Idle]

\* The project of a thread's task, and the next change in it (at most one).
Project(w)  == worker[w].project
NextItem(w) == {i \in worker[w].items : \A j \in worker[w].items : i <= j}

\* The commits that come with the one of a change.
Brought(p, i) == IF stacked THEN {<<p, j>> : j \in 1 .. i} ELSE {<<p, i>>}

\* Mutant: the exception of a failed fetch ends the thread, not only the task.
FetchEndsThread(w) ==
    /\ worker[w].task = "fetch"
    /\ \E i \in NextItem(w) :
          \/ <<Project(w), i>> \in objects /\ UNCHANGED objects /\ EndTask(w)
          \/ /\ <<Project(w), i>> \notin objects
             /\ objects' = objects \union Brought(Project(w), i)
             /\ EndTask(w)
          \/ /\ <<Project(w), i>> \notin objects
             /\ worker' = [worker EXCEPT ![w].task = "raised"]
             /\ UNCHANGED objects
    /\ UNCHANGED <<inputs, round, mergables, unsent, queue, heads, tree>>

\* do_git_fetch_pull: a commit that is there is not fetched; one that is
\* fetched brings those below it; both servers may fail.
Fetch(w) ==
    /\ worker[w].task = "fetch"
    /\ \E i \in NextItem(w) :
          \/ UNCHANGED objects
          \/ /\ <<Project(w), i>> \notin objects
             /\ objects' = objects \union Brought(Project(w), i)
    /\ EndTask(w)
    /\ UNCHANGED <<inputs, round, mergables, unsent, queue, heads, tree>>

\* Leaving the block of an executor waits for all its tasks.
AllDone == unsent = {} /\ queue = <<>> /\ \A w \in Workers : worker[w] = Idle

\* Mutant: round 3 starts when the last fetch is taken.
ApplyEarly ==
    /\ round = "fetch"
    /\ unsent = {} /\ queue = <<>>
    /\ unsent' = {Task("pick", p, mergables[p]) : p \in Projects}
    /\ round' = "apply"
    /\ UNCHANGED <<inputs, mergables, queue, worker, git>>

\* Round 3: one task for each project.
Apply ==
    /\ round = "fetch"
    /\ AllDone
    /\ unsent' = {Task("pick", p, mergables[p]) : p \in Projects}
    /\ round' = "apply"
    /\ UNCHANGED <<inputs, mergables, queue, worker, git>>

\* The task goes on, with the changes that are left.
Proceed(w, items, stopped) ==
    worker' = [worker EXCEPT ![w] = [task |-> "pick", project |-> Project(w),
                                     items |-> items, stopped |-> stopped]]

\* git cherry-pick --ff
CherryPick(w) ==
    /\ worker[w].task = "pick" /\ ~ worker[w].stopped
    /\ \E i \in NextItem(w) :
        LET p == Project(w)
            change == <<p, i>>
        IN  IF change \in objects /\ outcome[change] = "applies" /\ tree[p] = "clean"
            THEN /\ heads' = [heads EXCEPT ![p] = Append(@, i)]
                 /\ Proceed(w, worker[w].items \ {i}, FALSE)
                 /\ UNCHANGED tree
            ELSE /\ Proceed(w, worker[w].items, TRUE)
                 /\ tree' = IF change \notin objects \/ tree[p] # "clean" THEN tree
                            ELSE [tree EXCEPT ![p] = IF outcome[change] = "empty"
                                                     THEN "picking" ELSE "conflicted"]
                 /\ UNCHANGED heads
    /\ UNCHANGED <<inputs, round, mergables, unsent, queue, objects>>

\* The next change is picked, after one that left no difference to HEAD.
PassOver(w) == \E i \in NextItem(w) : Proceed(w, worker[w].items \ {i}, FALSE)

\* Mutant: the cherry-pick of an empty change is not aborted.
AfterFailureNoAbort(w) ==
    LET p == Project(w)
    IN  /\ worker[w].task = "pick" /\ worker[w].stopped
        /\ IF tree[p] # "conflicted"
           THEN PassOver(w) /\ UNCHANGED tree
           ELSE /\ tree' = IF reset THEN [tree EXCEPT ![p] = "clean"] ELSE tree
                /\ EndTask(w)
        /\ UNCHANGED <<inputs, round, mergables, unsent, queue, objects, heads>>

\* A cherry-pick that failed: without a difference to HEAD (git diff-index) it
\* is aborted and the next change is picked, also when there was no commit to
\* pick; with one, the task ends, after an abort if there is --reset.
AfterFailure(w) ==
    LET p == Project(w)
    IN  /\ worker[w].task = "pick" /\ worker[w].stopped
        /\ IF tree[p] # "conflicted"
           THEN PassOver(w) /\ tree' = [tree EXCEPT ![p] = "clean"]
           ELSE /\ tree' = IF reset THEN [tree EXCEPT ![p] = "clean"] ELSE tree
                /\ EndTask(w)
        /\ UNCHANGED <<inputs, round, mergables, unsent, queue, objects, heads>>

\* The last change of a project has been looked at.
EndPick(w) ==
    /\ worker[w].task = "pick"
    /\ worker[w].items = {}
    /\ EndTask(w)
    /\ UNCHANGED <<inputs, round, mergables, unsent, queue, git>>

End ==
    /\ round = "apply"
    /\ AllDone
    /\ round' = "done"
    /\ UNCHANGED <<inputs, mergables, unsent, queue, worker, git>>

Thread(w) == Take(w) \/ Fetch(w) \/ CherryPick(w) \/ AfterFailure(w) \/ EndPick(w)

\* The main thread.
Main == Filter \/ Abort \/ Submit \/ Apply \/ End

Next == Main \/ \E w \in Workers : Thread(w)

Spec == Init /\ [][Next]_vars

\* git commands return, and a thread that can run does.
FairSpec == Spec /\ WF_vars(Main) /\ \A w \in Workers : WF_vars(Thread(w))

-----------------------------------------------------------------------------
(* Properties.                                                             *)

\* A task only names changes there are.
TaskType ==
    {t \in [task : {"idle", "fetch", "pick"}, project : Projects \union {NoProject},
            items : SUBSET Nat, stopped : BOOLEAN] :
        t.task # "idle" => t.project \in Projects /\ t.items \subseteq 1 .. Count[t.project]}

\* Type correctness, of what the main thread, the pool and git hold.
TypeOK ==
    /\ round \in {"filter", "fetch", "apply", "done", "aborted"}
    /\ mergables \in [Projects -> SUBSET Nat]
    /\ \A p \in Projects : mergables[p] \subseteq 1 .. Count[p]
    /\ worker \in [Workers -> TaskType]
    /\ queue \in Seq(TaskType) /\ unsent \subseteq TaskType
    /\ objects \subseteq Changes
    /\ heads \in [Projects -> Seq(Nat)]
    /\ tree \in [Projects -> {"clean", "picking", "conflicted"}]

\* What picking the changes of a project by hand, one after another, leaves on
\* its branch: those that apply, up to the first conflict, in their order.
OneAfterAnother(p) ==
    {i \in NotPicked(p) :
        /\ outcome[<<p, i>>] = "applies"
        /\ \A j \in NotPicked(p) : j < i => outcome[<<p, j>>] # "conflicts"}

Ascending(seq) == \A j, k \in 1 .. Len(seq) : j < k => seq[j] < seq[k]

Fetched(p) == \A i \in NotPicked(p) : <<p, i>> \in objects

\* However the threads interleave and whatever fails in other projects, a
\* project whose changes could be fetched is on its way to what picking by
\* hand would leave, and there at the end.
LikeOneAfterAnother ==
    \A p \in Projects : round \in {"apply", "done"} /\ Fetched(p) =>
        LET picked == Range(heads[p]) IN
        /\ Ascending(heads[p]) /\ picked \subseteq OneAfterAnother(p)
        /\ \A i \in picked, j \in OneAfterAnother(p) : j < i => j \in picked
        /\ round = "done" => picked = OneAfterAnother(p)

\* A project is left with an unfinished cherry-pick only if a change conflicts
\* and --reset was not given, and never in the middle of its changes.
UnfinishedOnlyAfterConflict ==
    \A p \in Projects :
        tree[p] # "clean" /\ (\A w \in Workers : Project(w) # p)
            => ~ reset /\ tree[p] = "conflicted"

\* The program ends, whatever fails: with every task taken and ended, or before
\* there is one.
Finishes == <>(round \in {"done", "aborted"})
=============================================================================
