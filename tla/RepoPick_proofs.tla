--------------------------- MODULE RepoPick_proofs ---------------------------
(***************************************************************************)
(* What the pool leaves on the branches of the projects, for any projects, *)
(* changes, number of threads, outcomes and failures of git.               *)
(*                                                                         *)
(* A project has one task at most in round 3, and no fetch runs any more.  *)
(* So whatever the threads do, one of them at a time works on a branch,    *)
(* through the changes in their order.                                     *)
(***************************************************************************)
EXTENDS RepoPick, SequenceTheorems, TLAPS

USE RepoPickAssumption

InputTypes ==
    /\ outcome \in [Changes -> Outcomes]
    /\ already \subseteq Changes
    /\ stacked \in BOOLEAN /\ reset \in BOOLEAN

Types == TypeOK /\ InputTypes

-----------------------------------------------------------------------------
(* The inductive invariant.                                                *)

PickTask(t) == t.project \in Projects /\ t = Task("pick", t.project, mergables[t.project])

(* What tasks there are in each round, and that round 2 leaves the         *)
(* branches alone.                                                         *)
RoundInv ==
    /\ \A w \in Workers : worker[w].task = "idle" => worker[w] = Idle
    /\ round \in {"filter", "done", "aborted"} => AllDone
    /\ round \in {"fetch", "apply", "done"} => \A p \in Projects : mergables[p] = NotPicked(p)
    /\ round \in {"filter", "fetch", "aborted"} =>
          /\ \A t \in unsent : t.task = "fetch"
          /\ \A k \in 1 .. Len(queue) : queue[k].task = "fetch"
          /\ \A w \in Workers : worker[w].task # "pick"
          /\ \A p \in Projects : heads[p] = <<>> /\ tree[p] = "clean"
    /\ round = "apply" =>
          /\ \A t \in unsent : PickTask(t)
          /\ \A k \in 1 .. Len(queue) : PickTask(queue[k])
          /\ \A w \in Workers :
                worker[w] # Idle => worker[w].task = "pick" /\ Project(w) \in Projects

(* In round 3 a project has one task at most.                              *)
OneTaskEach ==
    round = "apply" =>
        /\ \A t \in unsent :
              /\ \A k \in 1 .. Len(queue) : queue[k].project # t.project
              /\ \A w \in Workers : Project(w) # t.project
        /\ \A j, k \in 1 .. Len(queue) : j # k => queue[j].project # queue[k].project
        /\ \A k \in 1 .. Len(queue), w \in Workers : queue[k].project # Project(w)
        /\ \A v, w \in Workers :
              v # w /\ worker[v] # Idle /\ worker[w] # Idle => Project(v) # Project(w)

(* Where a thread is with a project: what it has left is the rest of the   *)
(* changes, what it has picked is what applies of the others.              *)
Working(w, p) ==
    LET items == worker[w].items
        done  == NotPicked(p) \ items
    IN  /\ items \subseteq NotPicked(p)
        /\ \A i \in NotPicked(p), j \in items : j < i => i \in items
        /\ Ascending(heads[p]) /\ Range(heads[p]) \subseteq done
        /\ Fetched(p) =>
              /\ Range(heads[p]) = {i \in done : outcome[<<p, i>>] = "applies"}
              /\ \A i \in done : outcome[<<p, i>>] # "conflicts"
        /\ ~ worker[w].stopped => tree[p] = "clean"
        /\ worker[w].stopped =>
              \E i \in NextItem(w) : Fetched(p) =>
                  outcome[<<p, i>>] = IF tree[p] = "conflicted" THEN "conflicts" ELSE "empty"

(* How a project is left.                                                  *)
Ended(p) ==
    /\ Ascending(heads[p])
    /\ Fetched(p) => Range(heads[p]) = OneAfterAnother(p)
    /\ tree[p] = "clean" \/ (tree[p] = "conflicted" /\ ~ reset)

Scheduled(p) ==
    (\E t \in unsent : t.project = p) \/ \E k \in 1 .. Len(queue) : queue[k].project = p

Progress ==
    round \in {"apply", "done"} =>
        \A p \in Projects :
            /\ Scheduled(p) => heads[p] = <<>> /\ tree[p] = "clean"
            /\ \A w \in Workers : Project(w) = p => Working(w, p)
            /\ ~ Scheduled(p) /\ (\A w \in Workers : Project(w) # p) => Ended(p)

PickInv == RoundInv /\ OneTaskEach /\ Progress

-----------------------------------------------------------------------------
(* Types.                                                                  *)

LEMMA ChangesOf ==
    \A p, i : <<p, i>> \in Changes <=> p \in Projects /\ i \in 1 .. Count[p]
BY DEF Changes

LEMMA IdleType == Idle \in TaskType /\ Idle.task = "idle" /\ Idle.project = NoProject
BY DEF Idle, TaskType

LEMMA TaskTypes ==
    ASSUME NEW p \in Projects, NEW items, items \subseteq 1 .. Count[p], NEW t \in {"fetch", "pick"}
    PROVE  /\ Task(t, p, items) \in TaskType
           /\ Task(t, p, items).task = t /\ Task(t, p, items).project = p
           /\ Task(t, p, items).items = items /\ Task(t, p, items).stopped = FALSE
<1>1. items \in SUBSET Nat
  OBVIOUS
<1>. QED  BY <1>1 DEF Task, TaskType

LEMMA InitTypes == Init => Types
<1>. SUFFICES ASSUME Init PROVE Types
  OBVIOUS
<1>1. already \subseteq Changes
  BY DEF Init
<1>2. worker \in [Workers -> TaskType]
  BY IdleType DEF Init
<1>3. queue \in Seq(TaskType) /\ heads \in [Projects -> Seq(Nat)]
  BY DEF Init
<1>. QED  BY <1>1, <1>2, <1>3 DEF Init, Types, TypeOK, InputTypes

LEMMA FilterTasks ==
    ASSUME Filter, NEW t \in unsent'
    PROVE  \E p \in Projects : \E i \in NotPicked(p) : t = Task("fetch", p, {i})
<1>1. t \in UNION {{Task("fetch", p, {i}) : i \in NotPicked(p)} : p \in Projects}
  BY DEF Filter
<1>2. PICK p \in Projects : t \in {Task("fetch", p, {i}) : i \in NotPicked(p)}
  BY <1>1
<1>. QED  BY <1>2

LEMMA FilterTypes == Types /\ Filter => Types'
<1>. SUFFICES ASSUME Types, Filter PROVE Types'
  OBVIOUS
<1>1. \A p \in Projects : NotPicked(p) \subseteq 1 .. Count[p] /\ NotPicked(p) \in SUBSET Nat
  BY DEF NotPicked
<1>2. unsent' \subseteq TaskType
  <2>1. ASSUME NEW p \in Projects, NEW i \in NotPicked(p)
        PROVE  Task("fetch", p, {i}) \in TaskType
    <3>1. {i} \subseteq 1 .. Count[p]
      BY <1>1
    <3>. QED  BY <3>1, TaskTypes
  <2>2. ASSUME NEW t \in unsent' PROVE t \in TaskType
    <3>1. PICK p \in Projects : \E i \in NotPicked(p) : t = Task("fetch", p, {i})
      BY FilterTasks
    <3>. QED  BY <2>1, <3>1
  <2>. QED  BY <2>2
<1>3. /\ mergables' \in [Projects -> SUBSET Nat]
      /\ \A p \in Projects : mergables'[p] \subseteq 1 .. Count[p]
  BY <1>1 DEF Filter
<1>4. round' = "fetch" /\ UNCHANGED <<inputs, queue, worker, git>>
  BY DEF Filter
<1>. QED  BY <1>2, <1>3, <1>4 DEF Types, TypeOK, InputTypes, inputs, git

LEMMA MainTypes == Types /\ (Abort \/ Submit \/ Apply \/ End) => Types'
<1>. SUFFICES ASSUME Types, Abort \/ Submit \/ Apply \/ End PROVE Types'
  OBVIOUS
<1>1. CASE Submit
  <2>1. PICK t \in unsent : unsent' = unsent \ {t} /\ queue' = Append(queue, t)
    BY <1>1 DEF Submit
  <2>2. queue' \in Seq(TaskType) /\ unsent' \subseteq TaskType
    BY <2>1, AppendProperties DEF Types, TypeOK
  <2>3. UNCHANGED <<inputs, round, mergables, worker, git>>
    BY <1>1 DEF Submit
  <2>. QED  BY <2>2, <2>3 DEF Types, TypeOK, InputTypes, inputs, git
<1>2. CASE Apply
  <2>1. ASSUME NEW p \in Projects PROVE Task("pick", p, mergables[p]) \in TaskType
    <3>1. mergables[p] \subseteq 1 .. Count[p]
      BY DEF Types, TypeOK
    <3>. QED  BY <3>1, TaskTypes
  <2>2. unsent' \subseteq TaskType
    BY <1>2, <2>1 DEF Apply
  <2>. QED  BY <1>2, <2>2 DEF Apply, Types, TypeOK, InputTypes, inputs, git
<1>3. CASE End
  BY <1>3 DEF End, Types, TypeOK, InputTypes, inputs, git
<1>4. CASE Abort
  BY <1>4 DEF Abort, Types, TypeOK, InputTypes, inputs, git
<1>. QED  BY <1>1, <1>2, <1>3, <1>4

(* Only the records of the threads, the commits and the branches are left. *)
LEMMA ThreadTypes == ASSUME Types, NEW w \in Workers, Thread(w) PROVE Types'
<1>1. /\ worker \in [Workers -> TaskType] /\ worker[w] \in TaskType
      /\ worker[w].items \subseteq Nat /\ Project(w) \in Projects \union {NoProject}
      /\ queue \in Seq(TaskType)
      /\ heads \in [Projects -> Seq(Nat)]
      /\ tree \in [Projects -> {"clean", "picking", "conflicted"}]
  BY DEF Types, TypeOK, TaskType, Project
<1>2. ASSUME NEW task \in TaskType PROVE [worker EXCEPT ![w] = task] \in [Workers -> TaskType]
  BY <1>1
<1>3. EndTask(w) => worker' \in [Workers -> TaskType]
  BY <1>2, IdleType DEF EndTask
<1>4. ASSUME worker[w].task = "pick", NEW items, items \subseteq worker[w].items,
             NEW stopped \in BOOLEAN, Proceed(w, items, stopped)
      PROVE  worker' \in [Workers -> TaskType]
  <2>1. items \in SUBSET Nat
    BY <1>1, <1>4
  <2>2. Project(w) \in Projects /\ worker[w].items \subseteq 1 .. Count[Project(w)]
    BY <1>1, <1>4 DEF TaskType, Project
  <2>. DEFINE task == [task |-> "pick", project |-> Project(w), items |-> items,
                       stopped |-> stopped]
  <2>3. task \in TaskType
    BY <1>4, <2>1, <2>2 DEF TaskType
  <2>. QED  BY <1>2, <1>4, <2>3 DEF Proceed
<1>6. CASE Take(w)
  <2>1. Head(queue) \in TaskType /\ Tail(queue) \in Seq(TaskType)
    BY <1>1, <1>6, HeadTailProperties, EmptySeq DEF Take
  <2>2. worker' \in [Workers -> TaskType] /\ queue' \in Seq(TaskType)
    BY <1>2, <1>6, <2>1 DEF Take
  <2>. QED  BY <1>6, <2>2 DEF Take, Types, TypeOK, InputTypes, inputs, git
<1>7. CASE Fetch(w)
  <2>1. Project(w) \in Projects /\ worker[w].items \subseteq 1 .. Count[Project(w)]
    BY <1>1, <1>7 DEF Fetch, TaskType, Project
  <2>2. ASSUME NEW i \in NextItem(w) PROVE Brought(Project(w), i) \subseteq Changes
    <3>1. i \in 1 .. Count[Project(w)] /\ Count[Project(w)] \in Nat
      BY <2>1 DEF NextItem
    <3>2. \A j \in 1 .. i : j \in 1 .. Count[Project(w)]
      BY <3>1
    <3>. QED  BY <2>1, <3>1, <3>2, ChangesOf DEF Brought
  <2>3. objects' \subseteq Changes
    BY <1>7, <2>2 DEF Fetch, Types, TypeOK
  <2>. QED  BY <1>3, <1>7, <2>3 DEF Fetch, Types, TypeOK, InputTypes, inputs
<1>8. CASE CherryPick(w)
  <2>1. PICK i \in NextItem(w) :
            IF <<Project(w), i>> \in objects /\ outcome[<<Project(w), i>>] = "applies"
               /\ tree[Project(w)] = "clean"
            THEN /\ heads' = [heads EXCEPT ![Project(w)] = Append(@, i)]
                 /\ Proceed(w, worker[w].items \ {i}, FALSE)
                 /\ UNCHANGED tree
            ELSE /\ Proceed(w, worker[w].items, TRUE)
                 /\ tree' = IF <<Project(w), i>> \notin objects \/ tree[Project(w)] # "clean"
                            THEN tree
                            ELSE [tree EXCEPT ![Project(w)] =
                                     IF outcome[<<Project(w), i>>] = "empty"
                                     THEN "picking" ELSE "conflicted"]
                 /\ UNCHANGED heads
    BY <1>8 DEF CherryPick
  <2>2. worker' \in [Workers -> TaskType]
    BY <1>4, <1>8, <2>1 DEF CherryPick
  <2>3. tree' \in [Projects -> {"clean", "picking", "conflicted"}]
    BY <1>1, <2>1
  <2>4. heads' \in [Projects -> Seq(Nat)]
    <3>1. i \in Nat
      BY <1>1 DEF NextItem
    <3>2. \A p \in Projects : Append(heads[p], i) \in Seq(Nat)
      BY <1>1, <3>1, AppendProperties
    <3>3. CASE heads' = heads
      BY <1>1, <3>3
    <3>4. CASE heads' = [heads EXCEPT ![Project(w)] = Append(@, i)]
      BY <1>1, <3>2, <3>4
    <3>. QED  BY <2>1, <3>3, <3>4
  <2>. QED  BY <1>8, <2>2, <2>3, <2>4 DEF CherryPick, Types, TypeOK, InputTypes, inputs
<1>9. CASE AfterFailure(w)
  <2>1. worker' \in [Workers -> TaskType]
    <3>1. CASE EndTask(w)
      BY <1>3, <3>1
    <3>2. CASE PassOver(w)
      <4>1. PICK i \in NextItem(w) : Proceed(w, worker[w].items \ {i}, FALSE)
        BY <3>2 DEF PassOver
      <4>. QED  BY <1>4, <1>9, <4>1 DEF AfterFailure
    <3>. QED  BY <1>9, <3>1, <3>2 DEF AfterFailure
  <2>2. tree' \in [Projects -> {"clean", "picking", "conflicted"}]
    BY <1>1, <1>9 DEF AfterFailure
  <2>. QED  BY <1>9, <2>1, <2>2 DEF AfterFailure, Types, TypeOK, InputTypes, inputs
<1>10. CASE EndPick(w)
  BY <1>3, <1>10 DEF EndPick, Types, TypeOK, InputTypes, inputs, git
<1>. QED  BY <1>6, <1>7, <1>8, <1>9, <1>10 DEF Thread

LEMMA TypesInductive == Types /\ [Next]_vars => Types'
<1>1. Types /\ UNCHANGED vars => Types'
  BY DEF Types, TypeOK, InputTypes, vars, inputs, program, git
<1>. QED  BY <1>1, FilterTypes, MainTypes, ThreadTypes DEF Next, Main

-----------------------------------------------------------------------------
(* The rounds and their tasks.                                             *)

(* What is kept by all steps but those of Filter: the inputs and what is   *)
(* derived from them.                                                      *)
LEMMA SameInputs ==
    ASSUME UNCHANGED inputs
    PROVE  \A p : /\ NotPicked(p)' = NotPicked(p)
                  /\ OneAfterAnother(p)' = OneAfterAnother(p)
BY DEF inputs, NotPicked, OneAfterAnother

(* A task of the queue.                                                    *)
LEMMA QueueSteps ==
    ASSUME Types
    PROVE  /\ Len(queue) \in Nat
           /\ \A k \in 1 .. Len(queue) : queue[k] \in TaskType
           /\ queue = <<>> <=> Len(queue) = 0
           /\ Submit => \E t \in unsent :
                 /\ unsent' = unsent \ {t} /\ Len(queue') = Len(queue) + 1
                 /\ queue'[Len(queue) + 1] = t
                 /\ \A k \in 1 .. Len(queue) : queue'[k] = queue[k]
           /\ \A w \in Workers : Take(w) =>
                 /\ Len(queue) # 0 /\ Len(queue') = Len(queue) - 1
                 /\ worker'[w] = queue[1]
                 /\ \A v \in Workers \ {w} : worker'[v] = worker[v]
                 /\ \A k \in 1 .. Len(queue') : queue'[k] = queue[k + 1]
<1>1. queue \in Seq(TaskType) /\ unsent \subseteq TaskType /\ worker \in [Workers -> TaskType]
  BY DEF Types, TypeOK
<1>2. /\ Len(queue) \in Nat
      /\ \A k \in 1 .. Len(queue) : queue[k] \in TaskType
      /\ queue = <<>> <=> Len(queue) = 0
  BY <1>1, LenProperties, EmptySeq, ElementOfSeq
<1>3. ASSUME Submit
      PROVE  \E t \in unsent :
                 /\ unsent' = unsent \ {t} /\ Len(queue') = Len(queue) + 1
                 /\ queue'[Len(queue) + 1] = t
                 /\ \A k \in 1 .. Len(queue) : queue'[k] = queue[k]
  <2>1. PICK t \in unsent : unsent' = unsent \ {t} /\ queue' = Append(queue, t)
    BY <1>3 DEF Submit
  <2>. QED  BY <1>1, <2>1, AppendProperties
<1>4. ASSUME NEW w \in Workers, Take(w)
      PROVE  /\ Len(queue) # 0 /\ Len(queue') = Len(queue) - 1
             /\ worker'[w] = queue[1]
             /\ \A v \in Workers \ {w} : worker'[v] = worker[v]
             /\ \A k \in 1 .. Len(queue') : queue'[k] = queue[k + 1]
  <2>1. queue # <<>> /\ queue' = Tail(queue) /\ worker' = [worker EXCEPT ![w] = Head(queue)]
    BY <1>4 DEF Take
  <2>2. /\ Len(Tail(queue)) = Len(queue) - 1 /\ Head(queue) = queue[1]
        /\ \A k \in 1 .. Len(Tail(queue)) : Tail(queue)[k] = queue[k + 1]
    BY <1>1, <2>1, HeadTailProperties, EmptySeq
  <2>. QED  BY <1>1, <1>2, <2>1, <2>2
<1>. QED  BY <1>2, <1>3, <1>4

LEMMA PickTaskIs ==
    ASSUME NEW t, PickTask(t)
    PROVE  /\ t.project \in Projects /\ t.project # NoProject /\ t.task = "pick"
           /\ t.items = mergables[t.project] /\ ~ t.stopped /\ t # Idle
BY DEF PickTask, Task, Idle

(* The main thread.                                                        *)
LEMMA MainRounds == Types /\ RoundInv /\ Main => RoundInv'
<1>. SUFFICES ASSUME Types, RoundInv, Main PROVE RoundInv'
  OBVIOUS
<1>1. UNCHANGED <<inputs, worker, heads, tree>>
  BY DEF Main, Filter, Abort, Submit, Apply, End, git
<1>2. /\ \A p : NotPicked(p)' = NotPicked(p)
      /\ \A w : Project(w)' = Project(w)
  BY <1>1, SameInputs DEF Project
<1>3. CASE Filter
  <2>1. round = "filter" /\ round' = "fetch" /\ mergables' = [p \in Projects |-> NotPicked(p)]
    BY <1>3 DEF Filter
  <2>2. queue' = queue /\ queue = <<>> /\ \A w \in Workers : worker[w] = Idle
    BY <1>3, <2>1 DEF Filter, RoundInv, AllDone
  <2>3. Len(queue') = 0
    BY <2>2
  <2>4. \A t \in unsent' : t.task = "fetch"
    BY <1>3, FilterTasks DEF Task
  <2>5. \A w \in Workers : worker'[w].task = "idle" /\ worker'[w] = Idle
    BY <1>1, <2>2, IdleType
  <2>6. \A p \in Projects : heads'[p] = <<>> /\ tree'[p] = "clean"
    BY <1>1, <2>1 DEF RoundInv
  <2>. QED  BY <1>2, <2>1, <2>3, <2>4, <2>5, <2>6 DEF RoundInv
<1>4. CASE Submit
  <2>1. PICK t \in unsent :
            /\ unsent' = unsent \ {t} /\ Len(queue') = Len(queue) + 1
            /\ queue'[Len(queue) + 1] = t
            /\ \A k \in 1 .. Len(queue) : queue'[k] = queue[k]
    BY <1>4, QueueSteps
  <2>2. \A k \in 1 .. Len(queue') : k \in 1 .. Len(queue) \/ k = Len(queue) + 1
    BY <2>1, QueueSteps
  <2>3. UNCHANGED <<round, mergables>>
    BY <1>4 DEF Submit
  <2>4. round \notin {"filter", "done", "aborted"}
    BY <2>1 DEF RoundInv, AllDone
  <2>5. \A u : PickTask(u)' <=> PickTask(u)
    BY <2>3 DEF PickTask
  <2>6. ASSUME round = "fetch"
        PROVE  /\ \A u \in unsent' : u.task = "fetch"
               /\ \A k \in 1 .. Len(queue') : queue'[k].task = "fetch"
    BY <2>1, <2>2, <2>6 DEF RoundInv
  <2>7. ASSUME round = "apply"
        PROVE  /\ \A u \in unsent' : PickTask(u)'
               /\ \A k \in 1 .. Len(queue') : PickTask(queue'[k])
    BY <2>1, <2>2, <2>5, <2>7 DEF RoundInv
  <2>8. round = "apply" => \A k \in 1 .. Len(queue') : PickTask(queue[k])'
    BY <2>3, <2>7 DEF PickTask
  <2>. QED  BY <1>1, <1>2, <2>3, <2>4, <2>6, <2>7, <2>8 DEF RoundInv
<1>5. CASE Apply
  <2>1. /\ round = "fetch" /\ round' = "apply" /\ UNCHANGED <<mergables, queue>>
        /\ unsent' = {Task("pick", p, mergables[p]) : p \in Projects}
        /\ queue = <<>> /\ \A w \in Workers : worker[w] = Idle
    BY <1>5 DEF Apply, AllDone
  <2>2. \A t \in unsent' : PickTask(t)'
    BY <2>1 DEF PickTask, Task
  <2>3. Len(queue') = 0
    BY <2>1
  <2>. QED  BY <1>1, <1>2, <2>1, <2>2, <2>3 DEF RoundInv
<1>6. CASE Abort
  <2>1. round = "filter" /\ round' = "aborted" /\ UNCHANGED <<mergables, unsent, queue>>
    BY <1>6 DEF Abort
  <2>2. AllDone /\ AllDone'
    BY <1>1, <2>1 DEF RoundInv, AllDone
  <2>. QED  BY <1>1, <1>2, <2>1, <2>2 DEF RoundInv
<1>7. CASE End
  <2>1. round' = "done" /\ UNCHANGED <<mergables, unsent, queue>> /\ AllDone
    BY <1>7 DEF End
  <2>2. AllDone'
    BY <1>1, <2>1 DEF AllDone
  <2>3. round = "apply"
    BY <1>7 DEF End
  <2>. QED  BY <1>1, <1>2, <2>1, <2>2, <2>3 DEF RoundInv
<1>. QED  BY <1>3, <1>4, <1>5, <1>6, <1>7 DEF Main

(* What a thread makes of its record: another task only by Take.           *)
LEMMA ThreadFrame ==
    ASSUME Types, NEW w \in Workers, Thread(w)
    PROVE  /\ UNCHANGED <<inputs, round, mergables, unsent>>
           /\ \A v \in Workers \ {w} : worker'[v] = worker[v]
           /\ ~ Take(w) => /\ worker[w] # Idle /\ UNCHANGED queue
                           /\ \/ worker'[w] = Idle
                              \/ /\ worker[w].task = "pick" /\ worker'[w].task = "pick"
                                 /\ worker'[w].project = worker[w].project
           /\ worker[w].task # "pick" => UNCHANGED <<heads, tree>>
           /\ worker[w].task # "fetch" => UNCHANGED objects
<1>1. worker \in [Workers -> TaskType]
  BY DEF Types, TypeOK
<1>2. EndTask(w) => worker'[w] = Idle /\ \A v \in Workers \ {w} : worker'[v] = worker[v]
  BY <1>1 DEF EndTask
<1>3. ASSUME NEW items, NEW stopped, Proceed(w, items, stopped)
      PROVE  /\ worker'[w].task = "pick" /\ worker'[w].project = worker[w].project
             /\ \A v \in Workers \ {w} : worker'[v] = worker[v]
  BY <1>1, <1>3 DEF Proceed, Project
<1>4. CASE Take(w)
  BY <1>4, QueueSteps, IdleType DEF Take, git
<1>5. CASE Fetch(w)
  BY <1>2, <1>5, IdleType DEF Fetch
<1>6. CASE CherryPick(w)
  <2>1. \E items, stopped : Proceed(w, items, stopped)
    BY <1>6 DEF CherryPick
  <2>. QED  BY <1>3, <1>6, <2>1, IdleType DEF CherryPick
<1>7. CASE AfterFailure(w)
  <2>1. EndTask(w) \/ \E items, stopped : Proceed(w, items, stopped)
    BY <1>7 DEF AfterFailure, PassOver
  <2>. QED  BY <1>2, <1>3, <1>7, <2>1, IdleType DEF AfterFailure
<1>8. CASE EndPick(w)
  BY <1>2, <1>8, IdleType DEF EndPick, git
<1>. QED  BY <1>4, <1>5, <1>6, <1>7, <1>8 DEF Thread

LEMMA ThreadRounds ==
    ASSUME Types, RoundInv, NEW w \in Workers, Thread(w)
    PROVE  RoundInv'
<1>1. /\ UNCHANGED <<inputs, round, mergables, unsent>>
      /\ \A v \in Workers \ {w} : worker'[v] = worker[v]
  BY ThreadFrame
<1>2. /\ \A p : NotPicked(p)' = NotPicked(p)
      /\ \A t : PickTask(t)' <=> PickTask(t)
  BY <1>1, SameInputs DEF PickTask
<1>3. round \notin {"filter", "done", "aborted"}
  <2>1. CASE Take(w)
    BY <2>1 DEF RoundInv, AllDone, Take
  <2>2. CASE ~ Take(w)
    BY <2>2, ThreadFrame DEF RoundInv, AllDone
  <2>. QED  BY <2>1, <2>2
<1>4. /\ Len(queue') \in Nat
      /\ \A k \in 1 .. Len(queue') : \E j \in 1 .. Len(queue) : queue'[k] = queue[j]
  <2>1. CASE Take(w)
    <3>1. \A k \in 1 .. Len(queue') : k + 1 \in 1 .. Len(queue) /\ queue'[k] = queue[k + 1]
      BY <2>1, QueueSteps
    <3>2. Len(queue') \in Nat
      BY <2>1, QueueSteps
    <3>. QED  BY <3>1, <3>2
  <2>2. CASE ~ Take(w)
    BY <2>2, ThreadFrame, QueueSteps
  <2>. QED  BY <2>1, <2>2
<1>5. \/ worker'[w] = Idle
      \/ /\ worker[w].task = "pick" /\ worker'[w].task = "pick"
         /\ worker'[w].project = worker[w].project
      \/ \E k \in 1 .. Len(queue) : worker'[w] = queue[k]
  <2>1. Take(w) => 1 \in 1 .. Len(queue) /\ worker'[w] = queue[1]
    BY QueueSteps
  <2>. QED  BY <2>1, ThreadFrame
<1>6. CASE round = "fetch"
  <2>1. /\ \A t \in unsent : t.task = "fetch"
        /\ \A k \in 1 .. Len(queue) : queue[k].task = "fetch"
        /\ \A v \in Workers : worker[v].task # "pick"
        /\ \A p \in Projects : heads[p] = <<>> /\ tree[p] = "clean"
        /\ \A v \in Workers : worker[v].task = "idle" => worker[v] = Idle
        /\ \A p \in Projects : mergables[p] = NotPicked(p)
    BY <1>6 DEF RoundInv
  <2>2. UNCHANGED <<heads, tree>>
    BY <2>1, ThreadFrame
  <2>3. worker'[w] = Idle \/ worker'[w].task = "fetch"
    BY <1>5, <2>1
  <2>4. \A v \in Workers : worker'[v].task # "pick" /\ (worker'[v].task = "idle" => worker'[v] = Idle)
    BY <1>1, <2>1, <2>3, IdleType
  <2>5. \A k \in 1 .. Len(queue') : queue'[k].task = "fetch"
    BY <1>4, <2>1
  <2>. QED  BY <1>1, <1>2, <1>6, <2>1, <2>2, <2>4, <2>5 DEF RoundInv
<1>7. CASE round = "apply"
  <2>1. /\ \A t \in unsent : PickTask(t)
        /\ \A k \in 1 .. Len(queue) : PickTask(queue[k])
        /\ \A v \in Workers :
              worker[v] # Idle => worker[v].task = "pick" /\ worker[v].project \in Projects
        /\ \A p \in Projects : mergables[p] = NotPicked(p)
    BY <1>7 DEF RoundInv, Project
  <2>2. worker'[w] # Idle => worker'[w].task = "pick" /\ worker'[w].project \in Projects
    BY <1>5, <2>1, PickTaskIs, IdleType
  <2>3. \A v \in Workers :
            worker'[v] # Idle => worker'[v].task = "pick" /\ worker'[v].project \in Projects
    BY <1>1, <2>1, <2>2
  <2>4. \A k \in 1 .. Len(queue') : PickTask(queue'[k])
    BY <1>4, <2>1
  <2>5. \A t \in unsent' : PickTask(t)'
    BY <1>1, <1>2, <2>1
  <2>6. \A k \in 1 .. Len(queue') : PickTask(queue[k])'
    BY <1>1, <2>4 DEF PickTask
  <2>. QED  BY <1>1, <1>2, <1>7, <2>1, <2>3, <2>5, <2>6 DEF RoundInv, Project
<1>8. round \in {"filter", "fetch", "apply", "done", "aborted"}
  BY DEF Types, TypeOK
<1>. QED  BY <1>3, <1>6, <1>7, <1>8

(* A project has one task at most in round 3: Apply makes one of each.     *)
LEMMA MainOneTask == Types /\ RoundInv /\ OneTaskEach /\ Main => OneTaskEach'
<1>. SUFFICES ASSUME Types, RoundInv, OneTaskEach, Main, round' = "apply" PROVE OneTaskEach'
  BY DEF OneTaskEach
<1>1. CASE Apply
  <2>1. /\ unsent' = {Task("pick", p, mergables[p]) : p \in Projects}
        /\ queue' = <<>> /\ worker' = worker /\ \A w \in Workers : worker[w] = Idle
    BY <1>1 DEF Apply, AllDone
  <2>2. Len(queue') = 0
    BY <2>1
  <2>3. \A t \in unsent' : t.project \in Projects
    BY <2>1 DEF Task
  <2>4. \A w \in Workers : worker'[w] = Idle /\ worker'[w].project = NoProject
    BY <2>1, IdleType
  <2>. QED  BY <2>2, <2>3, <2>4 DEF OneTaskEach, Project
<1>2. CASE Submit
  <2>1. PICK t \in unsent :
            /\ unsent' = unsent \ {t} /\ Len(queue') = Len(queue) + 1
            /\ queue'[Len(queue) + 1] = t
            /\ \A k \in 1 .. Len(queue) : queue'[k] = queue[k]
    BY <1>2, QueueSteps
  <2>2. UNCHANGED <<round, worker>> /\ round = "apply"
    BY <1>2 DEF Submit
  <2>3. /\ \A k \in 1 .. Len(queue') : k \in 1 .. Len(queue) \/ k = Len(queue) + 1
        /\ Len(queue) \in Nat
    BY <2>1, QueueSteps
  <2>4. \A u \in unsent' : u \in unsent /\ u.project # t.project
    <3>1. \A u \in unsent : u.project = t.project => u = t
      BY <2>2 DEF RoundInv, PickTask
    <3>. QED  BY <2>1, <3>1
  <2>5. \A u \in unsent' : /\ \A k \in 1 .. Len(queue') : queue'[k].project # u.project
                           /\ \A w \in Workers : worker'[w].project # u.project
    BY <2>1, <2>2, <2>3, <2>4 DEF OneTaskEach, Project
  <2>6. \A j, k \in 1 .. Len(queue') : j # k => queue'[j].project # queue'[k].project
    BY <2>1, <2>2, <2>3 DEF OneTaskEach
  <2>7. \A k \in 1 .. Len(queue'), w \in Workers : queue'[k].project # worker'[w].project
    BY <2>1, <2>2, <2>3 DEF OneTaskEach, Project
  <2>. QED  BY <2>2, <2>5, <2>6, <2>7 DEF OneTaskEach, Project
<1>3. ~ Filter /\ ~ Abort /\ ~ End
  BY DEF Filter, Abort, End
<1>. QED  BY <1>1, <1>2, <1>3 DEF Main

LEMMA ThreadOneTask ==
    ASSUME Types, RoundInv, OneTaskEach, NEW w \in Workers, Thread(w)
    PROVE  OneTaskEach'
<1>1. /\ UNCHANGED <<inputs, round, mergables, unsent>>
      /\ \A v \in Workers \ {w} : worker'[v] = worker[v]
  BY ThreadFrame
<1>. SUFFICES ASSUME round = "apply" PROVE OneTaskEach'
  BY <1>1 DEF OneTaskEach
<1>2. /\ \A t \in unsent :
            /\ \A k \in 1 .. Len(queue) : queue[k].project # t.project
            /\ \A v \in Workers : worker[v].project # t.project
      /\ \A j, k \in 1 .. Len(queue) : j # k => queue[j].project # queue[k].project
      /\ \A k \in 1 .. Len(queue), v \in Workers : queue[k].project # worker[v].project
      /\ \A v, u \in Workers : v # u /\ worker[v] # Idle /\ worker[u] # Idle
             => worker[v].project # worker[u].project
  BY DEF OneTaskEach, Project
<1>3. \A t \in unsent : t.project # NoProject
  BY PickTaskIs DEF RoundInv
<1>4. \A k \in 1 .. Len(queue) : queue[k].project # NoProject /\ queue[k] # Idle
  BY PickTaskIs DEF RoundInv
<1>5. CASE Take(w)
  <2>1. /\ Len(queue) \in Nat \ {0} /\ Len(queue') = Len(queue) - 1
        /\ worker'[w] = queue[1]
        /\ \A k \in 1 .. Len(queue') : queue'[k] = queue[k + 1]
    BY <1>5, QueueSteps
  <2>2. 1 \in 1 .. Len(queue) /\ \A k \in 1 .. Len(queue') : k + 1 \in 1 .. Len(queue) /\ k + 1 # 1
    BY <2>1
  <2>3. \A k \in 1 .. Len(queue') :
            \E j \in 1 .. Len(queue) : j = k + 1 /\ j # 1 /\ queue'[k] = queue[j]
    BY <2>1, <2>2
  <2>4. \A v \in Workers : worker'[v] = worker[v] \/ (v = w /\ worker'[v] = queue[1])
    BY <1>1, <2>1
  <2>5. ASSUME NEW t \in unsent'
        PROVE  /\ \A k \in 1 .. Len(queue') : queue'[k].project # t.project
               /\ \A v \in Workers : worker'[v].project # t.project
    <3>1. t \in unsent
      BY <1>1
    <3>2. \A k \in 1 .. Len(queue) : queue[k].project # t.project
      BY <1>2, <3>1
    <3>3. \A v \in Workers : worker[v].project # t.project
      BY <1>2, <3>1
    <3>4. \A k \in 1 .. Len(queue') : queue'[k].project # t.project
      BY <2>3, <3>2
    <3>5. \A v \in Workers : worker'[v].project # t.project
      BY <2>2, <2>4, <3>2, <3>3
    <3>. QED  BY <3>4, <3>5
  <2>6. ASSUME NEW j \in 1 .. Len(queue'), NEW k \in 1 .. Len(queue'), j # k
        PROVE  queue'[j].project # queue'[k].project
    <3>1. j \in Int /\ k \in Int
      OBVIOUS
    <3>2. PICK a \in 1 .. Len(queue) : a = j + 1 /\ queue'[j] = queue[a]
      BY <2>3
    <3>3. PICK b \in 1 .. Len(queue) : b = k + 1 /\ queue'[k] = queue[b]
      BY <2>3
    <3>4. a # b
      BY <2>6, <3>1, <3>2, <3>3
    <3>5. queue[a].project # queue[b].project
      BY <1>2, <3>4
    <3>. QED  BY <3>2, <3>3, <3>5
  <2>7. ASSUME NEW k \in 1 .. Len(queue'), NEW v \in Workers
        PROVE  queue'[k].project # worker'[v].project
    <3>1. PICK a \in 1 .. Len(queue) : a # 1 /\ queue'[k] = queue[a]
      BY <2>3
    <3>2. queue[a].project # worker[v].project /\ queue[a].project # queue[1].project
      BY <1>2, <2>2, <3>1
    <3>. QED  BY <2>4, <3>1, <3>2
  <2>8. ASSUME NEW v \in Workers, NEW u \in Workers, v # u, worker'[v] # Idle, worker'[u] # Idle
        PROVE  worker'[v].project # worker'[u].project
    <3>1. queue[1].project # worker[v].project /\ queue[1].project # worker[u].project
      BY <1>2, <2>2
    <3>2. worker[v] # Idle /\ worker[u] # Idle => worker[v].project # worker[u].project
      BY <1>2, <2>8
    <3>. QED  BY <2>4, <2>8, <3>1, <3>2
  <2>. QED  BY <1>1, <2>5, <2>6, <2>7, <2>8 DEF OneTaskEach, Project
<1>6. CASE ~ Take(w)
  <2>1. /\ queue' = queue /\ worker[w] # Idle
        /\ worker'[w] = Idle \/ worker'[w].project = worker[w].project
    BY <1>6, ThreadFrame
  <2>2. \A v \in Workers :
            \/ worker'[v].project = worker[v].project
            \/ worker'[v] = Idle /\ worker'[v].project = NoProject
    BY <1>1, <2>1, IdleType
  <2>3. \A v \in Workers : worker'[v] # Idle =>
            worker[v] # Idle /\ worker'[v].project = worker[v].project
    BY <1>1, <2>1
  <2>4. \A t \in unsent' : /\ \A k \in 1 .. Len(queue') : queue'[k].project # t.project
                           /\ \A v \in Workers : worker'[v].project # t.project
    BY <1>1, <1>2, <1>3, <2>1, <2>2
  <2>5. \A j, k \in 1 .. Len(queue') : j # k => queue'[j].project # queue'[k].project
    BY <1>2, <2>1
  <2>6. \A k \in 1 .. Len(queue'), v \in Workers : queue'[k].project # worker'[v].project
    BY <1>2, <1>4, <2>1, <2>2
  <2>7. \A v, u \in Workers : v # u /\ worker'[v] # Idle /\ worker'[u] # Idle
             => worker'[v].project # worker'[u].project
    BY <1>2, <2>3
  <2>. QED  BY <1>1, <2>4, <2>5, <2>6, <2>7 DEF OneTaskEach, Project
<1>. QED  BY <1>5, <1>6

-----------------------------------------------------------------------------
(* The progress of a project.                                              *)

LEMMA SameProject ==
    ASSUME UNCHANGED <<inputs, objects>>, NEW p, heads'[p] = heads[p], tree'[p] = tree[p]
    PROVE  /\ Ended(p)' <=> Ended(p)
           /\ \A w : worker'[w] = worker[w] => (Working(w, p)' <=> Working(w, p))
<1>1. /\ NotPicked(p)' = NotPicked(p) /\ OneAfterAnother(p)' = OneAfterAnother(p)
      /\ UNCHANGED <<outcome, reset, objects>>
  BY SameInputs DEF inputs
<1>2. /\ Fetched(p)' <=> Fetched(p)
      /\ Ascending(heads[p])' <=> Ascending(heads[p])
      /\ Range(heads[p])' = Range(heads[p])
  BY <1>1 DEF Fetched, Ascending, Range
<1>3. Ended(p)' <=> Ended(p)
  BY <1>1, <1>2 DEF Ended
<1>4. ASSUME NEW w, worker'[w] = worker[w] PROVE Working(w, p)' <=> Working(w, p)
  <2>. DEFINE Stop == \E i \in NextItem(w) : Fetched(p) =>
                   outcome[<<p, i>>] = IF tree[p] = "conflicted" THEN "conflicts" ELSE "empty"
  <2>1. NextItem(w)' = NextItem(w)
    BY <1>4 DEF NextItem
  <2>2. Stop' <=> Stop
    BY <1>1, <1>2, <2>1
  <2>. QED  BY <1>1, <1>2, <1>4, <2>1, <2>2 DEF Working
<1>. QED  BY <1>3, <1>4

LEMMA EmptyBranch ==
    ASSUME NEW seq, seq = <<>> PROVE Ascending(seq) /\ Range(seq) = {}
<1>1. Len(seq) = 0 /\ DOMAIN seq = {}
  OBVIOUS
<1>. QED  BY <1>1 DEF Ascending, Range

LEMMA MainProgress == Types /\ RoundInv /\ Progress /\ Main => Progress'
<1>. SUFFICES ASSUME Types, RoundInv, Progress, Main, round' \in {"apply", "done"}
              PROVE  Progress'
  BY DEF Progress
<1>1. UNCHANGED <<inputs, worker, objects, heads, tree>>
  BY DEF Main, Filter, Abort, Submit, Apply, End, git
<1>2. \A p : /\ Ended(p)' <=> Ended(p)
             /\ \A w : Working(w, p)' <=> Working(w, p)
             /\ \A w : Project(w)' = Project(w)
  BY <1>1, SameProject DEF Project
<1>3. CASE Apply
  <2>1. /\ unsent' = {Task("pick", p, mergables[p]) : p \in Projects}
        /\ round = "fetch" /\ \A w \in Workers : worker[w] = Idle
    BY <1>3 DEF Apply, AllDone
  <2>2. \A p \in Projects : /\ Scheduled(p)' /\ heads'[p] = <<>> /\ tree'[p] = "clean"
                            /\ \A w \in Workers : Project(w)' # p
    <3>1. \A p \in Projects : Task("pick", p, mergables[p]).project = p
      BY DEF Task
    <3>2. \A p \in Projects : Scheduled(p)'
      BY <2>1, <3>1 DEF Scheduled
    <3>. QED  BY <1>1, <2>1, <3>2, IdleType DEF RoundInv, Project
  <2>. QED  BY <2>2 DEF Progress
<1>4. CASE Submit
  <2>1. PICK t \in unsent :
            /\ unsent' = unsent \ {t} /\ Len(queue') = Len(queue) + 1
            /\ queue'[Len(queue) + 1] = t
            /\ \A k \in 1 .. Len(queue) : queue'[k] = queue[k]
    BY <1>4, QueueSteps
  <2>2. /\ \A k \in 1 .. Len(queue') : k \in 1 .. Len(queue) \/ k = Len(queue) + 1
        /\ \A k \in 1 .. Len(queue) : k \in 1 .. Len(queue')
        /\ Len(queue) + 1 \in 1 .. Len(queue')
    BY <2>1, QueueSteps
  <2>3. \A p : Scheduled(p)' <=> Scheduled(p)
    BY <2>1, <2>2 DEF Scheduled
  <2>4. round' = round
    BY <1>4 DEF Submit
  <2>. QED  BY <1>1, <1>2, <2>3, <2>4 DEF Progress
<1>5. CASE End
  <2>1. round = "apply" /\ UNCHANGED <<unsent, queue>>
    BY <1>5 DEF End
  <2>2. \A p : Scheduled(p)' <=> Scheduled(p)
    BY <2>1 DEF Scheduled
  <2>. QED  BY <1>1, <1>2, <2>1, <2>2 DEF Progress
<1>6. ~ Filter /\ ~ Abort
  BY DEF Filter, Abort
<1>. QED  BY <1>3, <1>4, <1>5, <1>6 DEF Main

(* A thread takes a project: everything is still to be done.               *)
LEMMA TakeProgress ==
    ASSUME Types, RoundInv, OneTaskEach, Progress, round = "apply", NEW w \in Workers, Take(w)
    PROVE  Progress'
<1>1. /\ Len(queue) \in Nat \ {0} /\ Len(queue') = Len(queue) - 1
      /\ worker[w] = Idle /\ worker'[w] = queue[1]
      /\ \A v \in Workers \ {w} : worker'[v] = worker[v]
      /\ \A k \in 1 .. Len(queue') : queue'[k] = queue[k + 1]
      /\ UNCHANGED <<inputs, round, mergables, unsent, objects, heads, tree>>
  BY QueueSteps DEF Take, git
<1>2. PICK p0 \in Projects : queue[1].project = p0
  BY <1>1, PickTaskIs DEF RoundInv
<1>3. /\ \A k \in 1 .. Len(queue') : k + 1 \in 2 .. Len(queue)
      /\ \A k \in 2 .. Len(queue) : k - 1 \in 1 .. Len(queue') /\ queue'[k - 1] = queue[k]
      /\ 1 \in 1 .. Len(queue) /\ \A k \in 2 .. Len(queue) : k \in 1 .. Len(queue) /\ k # 1
      /\ \A k \in 1 .. Len(queue) : k = 1 \/ k \in 2 .. Len(queue)
  BY <1>1
<1>4. ~ Scheduled(p0)' /\ Scheduled(p0) /\ \A v \in Workers : Project(v) # p0
  <2>1. \A t \in unsent : t.project # p0
    BY <1>2, <1>3 DEF OneTaskEach
  <2>2. \A k \in 2 .. Len(queue) : queue[k].project # p0
    BY <1>2, <1>3 DEF OneTaskEach
  <2>3. ASSUME NEW k \in 1 .. Len(queue') PROVE queue'[k].project # p0
    <3>1. k + 1 \in 2 .. Len(queue)
      BY <1>3
    <3>2. queue'[k] = queue[k + 1]
      BY <1>1
    <3>. QED  BY <2>2, <3>1, <3>2
  <2>4. \A v \in Workers : Project(v) # p0
    BY <1>2, <1>3 DEF OneTaskEach
  <2>. QED  BY <1>1, <1>2, <1>3, <2>1, <2>3, <2>4 DEF Scheduled
<1>5. ASSUME NEW p \in Projects, p # p0 PROVE Scheduled(p)' <=> Scheduled(p)
  <2>1. ASSUME NEW k \in 1 .. Len(queue), queue[k].project = p
        PROVE  \E j \in 1 .. Len(queue') : queue'[j].project = p
    <3>1. k \in 2 .. Len(queue)
      BY <1>2, <1>3, <1>5, <2>1
    <3>. QED  BY <1>3, <2>1, <3>1
  <2>2. ASSUME NEW k \in 1 .. Len(queue'), queue'[k].project = p
        PROVE  \E j \in 1 .. Len(queue) : queue[j].project = p
    BY <1>1, <1>3, <2>2
  <2>. QED  BY <1>1, <2>1, <2>2 DEF Scheduled
<1>6. \A v \in Workers \ {w} : Project(v)' = Project(v)
  BY <1>1 DEF Project
<1>7. Project(w)' = p0 /\ Project(w) = NoProject
  BY <1>1, <1>2, IdleType DEF Project
<1>8. \A p \in Projects :
         /\ Ended(p)' <=> Ended(p)
         /\ \A v \in Workers \ {w} : Working(v, p)' <=> Working(v, p)
  BY <1>1, SameProject
<1>9. Working(w, p0)'
  <2>1. /\ worker'[w].items = NotPicked(p0)' /\ ~ worker'[w].stopped
    <3>1. worker'[w].items = mergables[p0] /\ ~ worker'[w].stopped
      BY <1>1, <1>2, <1>3, PickTaskIs DEF RoundInv
    <3>2. NotPicked(p0)' = NotPicked(p0)
      BY <1>1, SameInputs
    <3>. QED  BY <3>1, <3>2 DEF RoundInv
  <2>2. heads'[p0] = <<>> /\ tree'[p0] = "clean"
    BY <1>1, <1>4 DEF Progress
  <2>3. Ascending(heads[p0])' /\ Range(heads[p0])' = {}
    BY <2>2, EmptyBranch
  <2>. QED  BY <2>1, <2>2, <2>3 DEF Working
<1>10. ASSUME NEW p \in Projects
       PROVE  /\ Scheduled(p)' => heads'[p] = <<>> /\ tree'[p] = "clean"
              /\ \A v \in Workers : Project(v)' = p => Working(v, p)'
              /\ ~ Scheduled(p)' /\ (\A v \in Workers : Project(v)' # p) => Ended(p)'
  <2>1. CASE p = p0
    <3>1. \A v \in Workers : Project(v)' = p0 => v = w
      BY <1>4, <1>6
    <3>. QED  BY <1>4, <1>7, <1>9, <2>1, <3>1
  <2>2. CASE p # p0
    <3>1. Scheduled(p)' <=> Scheduled(p)
      BY <1>5, <2>2
    <3>2. ASSUME NEW v \in Workers, Project(v)' = p PROVE Working(v, p)'
      <4>1. v # w /\ Project(v) = p
        BY <1>6, <1>7, <2>2, <3>2
      <4>. QED  BY <1>8, <4>1 DEF Progress
    <3>3. (\A v \in Workers : Project(v)' # p) => \A v \in Workers : Project(v) # p
      BY <1>6, <1>7
    <3>. QED  BY <1>1, <1>8, <3>1, <3>2, <3>3 DEF Progress
  <2>. QED  BY <2>1, <2>2
<1>. QED  BY <1>10 DEF Progress

(* A thread works on its project, or leaves it.                            *)
LEMMA AtWork ==
    ASSUME RoundInv, OneTaskEach, Progress, round = "apply",
           NEW w \in Workers, NEW p0 \in Projects, Project(w) = p0, worker[w] # Idle,
           UNCHANGED <<inputs, round, unsent, queue, objects>>,
           \A v \in Workers \ {w} : worker'[v] = worker[v],
           \A p \in Projects \ {p0} : heads'[p] = heads[p] /\ tree'[p] = tree[p],
           \/ worker'[w] = Idle /\ Ended(p0)'
           \/ worker'[w].project = p0 /\ Working(w, p0)'
    PROVE  Progress'
<1>1. \A p : Scheduled(p)' <=> Scheduled(p)
  BY DEF Scheduled
<1>2. ~ Scheduled(p0)
  <2>1. \A t \in unsent : t.project # p0
    BY DEF OneTaskEach
  <2>2. \A k \in 1 .. Len(queue) : queue[k].project # p0
    BY DEF OneTaskEach
  <2>. QED  BY <2>1, <2>2 DEF Scheduled
<1>3. \A v \in Workers \ {w} : Project(v)' = Project(v) /\ Project(v) # p0
  <2>1. \A v \in Workers \ {w} : worker[v] # Idle => Project(v) # p0
    BY DEF OneTaskEach
  <2>2. \A v \in Workers : worker[v] = Idle => Project(v) # p0
    BY IdleType DEF Project
  <2>. QED  BY <2>1, <2>2 DEF Project
<1>4. Project(w)' = p0 => Working(w, p0)'
  BY IdleType DEF Project
<1>5. Project(w)' # p0 => Ended(p0)'
  BY DEF Project
<1>6. Project(w)' \in {p0, NoProject}
  BY IdleType DEF Project
<1>7. ASSUME NEW p \in Projects
      PROVE  /\ Scheduled(p)' => heads'[p] = <<>> /\ tree'[p] = "clean"
             /\ \A v \in Workers : Project(v)' = p => Working(v, p)'
             /\ ~ Scheduled(p)' /\ (\A v \in Workers : Project(v)' # p) => Ended(p)'
  <2>1. CASE p = p0
    <3>1. \A v \in Workers : Project(v)' = p => v = w
      BY <1>3, <2>1
    <3>. QED  BY <1>1, <1>2, <1>4, <1>5, <2>1, <3>1
  <2>2. CASE p # p0
    <3>1. /\ Ended(p)' <=> Ended(p)
          /\ \A v \in Workers \ {w} : Working(v, p)' <=> Working(v, p)
          /\ heads'[p] = heads[p] /\ tree'[p] = tree[p]
      BY <2>2, SameProject
    <3>2. ASSUME NEW v \in Workers, Project(v)' = p PROVE Working(v, p)'
      <4>1. v # w /\ Project(v) = p
        BY <1>3, <1>6, <2>2, <3>2
      <4>. QED  BY <3>1, <4>1 DEF Progress
    <3>3. (\A v \in Workers : Project(v)' # p) => \A v \in Workers : Project(v) # p
      BY <1>3, <2>2
    <3>. QED  BY <1>1, <3>1, <3>2, <3>3 DEF Progress
  <2>. QED  BY <2>1, <2>2
<1>. QED  BY <1>7 DEF Progress


(* What is known of a thread with a task of round 3.                       *)
LEMMA AtTask ==
    ASSUME Types, RoundInv, Progress, round = "apply", NEW w \in Workers, worker[w].task = "pick"
    PROVE  /\ Project(w) \in Projects /\ worker[w] # Idle /\ Working(w, Project(w))
           /\ worker[w].items \subseteq Nat /\ NotPicked(Project(w)) \subseteq Nat
           /\ \A i \in NotPicked(Project(w)) : outcome[<<Project(w), i>>] \in Outcomes
<1>1. worker[w] # Idle
  BY IdleType
<1>2. Project(w) \in Projects
  BY <1>1 DEF RoundInv
<1>3. Working(w, Project(w))
  BY <1>2 DEF Progress
<1>4. \A i \in NotPicked(Project(w)) : i \in Nat /\ <<Project(w), i>> \in Changes
  BY <1>2, ChangesOf DEF NotPicked
<1>5. worker[w].items \subseteq Nat
  BY DEF Types, TypeOK, TaskType
<1>. QED  BY <1>1, <1>2, <1>3, <1>4, <1>5 DEF Types, InputTypes

LEMMA Appended ==
    ASSUME NEW seq \in Seq(Nat), NEW i \in Nat, Ascending(seq), \A j \in Range(seq) : j < i
    PROVE  /\ Ascending(Append(seq, i))
           /\ Range(Append(seq, i)) = Range(seq) \union {i}
<1>1. /\ Len(seq) \in Nat /\ DOMAIN seq = 1 .. Len(seq)
      /\ \A k \in 1 .. Len(seq) : seq[k] \in Nat
  BY LenProperties, ElementOfSeq
<1>. DEFINE long == Append(seq, i)
<1>2. /\ long \in Seq(Nat) /\ Len(long) = Len(seq) + 1 /\ long[Len(seq) + 1] = i
      /\ \A k \in 1 .. Len(seq) : long[k] = seq[k]
  BY AppendProperties
<1>3. DOMAIN long = 1 .. Len(seq) + 1
  BY <1>2, LenProperties
<1>4. \A k \in 1 .. Len(long) : k \in 1 .. Len(seq) \/ k = Len(seq) + 1
  BY <1>1, <1>2
<1>. HIDE DEF long
<1>5. Range(long) = Range(seq) \union {i}
  <2>1. \A k \in 1 .. Len(seq) : k \in 1 .. Len(seq) + 1
    BY <1>1
  <2>2. Len(seq) + 1 \in 1 .. Len(seq) + 1
    BY <1>1
  <2>3. ASSUME NEW x \in Range(long) PROVE x \in Range(seq) \union {i}
    <3>1. PICK k \in 1 .. Len(seq) + 1 : x = long[k]
      BY <1>3 DEF Range
    <3>. QED  BY <1>1, <1>2, <1>4, <3>1 DEF Range
  <2>4. ASSUME NEW x \in Range(seq) PROVE x \in Range(long)
    <3>1. PICK k \in 1 .. Len(seq) : x = seq[k]
      BY <1>1 DEF Range
    <3>. QED  BY <1>2, <1>3, <2>1, <3>1 DEF Range
  <2>5. i \in Range(long)
    BY <1>2, <1>3, <2>2 DEF Range
  <2>. QED  BY <2>3, <2>4, <2>5
<1>6. ASSUME NEW j \in 1 .. Len(long), NEW k \in 1 .. Len(long), j < k PROVE long[j] < long[k]
  <2>1. j \in 1 .. Len(seq)
    BY <1>1, <1>2, <1>6
  <2>2. CASE k \in 1 .. Len(seq)
    BY <1>2, <1>6, <2>1, <2>2 DEF Ascending
  <2>3. CASE k = Len(seq) + 1
    <3>1. seq[j] \in Range(seq)
      BY <1>1, <2>1 DEF Range
    <3>. QED  BY <1>2, <2>1, <2>3, <3>1
  <2>. QED  BY <1>4, <2>2, <2>3
<1>7. Ascending(long)
  BY <1>6 DEF Ascending
<1>. QED  BY <1>5, <1>7 DEF long

LEMMA Proceeded ==
    ASSUME Types, NEW w \in Workers, NEW items, NEW stopped, Proceed(w, items, stopped)
    PROVE  /\ worker'[w].project = Project(w) /\ worker'[w].items = items
           /\ worker'[w].stopped = stopped
           /\ NextItem(w)' = {i \in items : \A j \in items : i <= j}
           /\ \A v \in Workers \ {w} : worker'[v] = worker[v]
<1>1. worker \in [Workers -> TaskType]
  BY DEF Types, TypeOK
<1>2. worker'[w] = [task |-> "pick", project |-> Project(w), items |-> items, stopped |-> stopped]
  BY <1>1 DEF Proceed
<1>3. \A v \in Workers \ {w} : worker'[v] = worker[v]
  BY <1>1 DEF Proceed
<1>. QED  BY <1>2, <1>3 DEF NextItem

(* One more change is behind a thread: it is picked, or it has left no     *)
(* difference, or there was nothing to pick.                               *)
LEMMA OneMore ==
    ASSUME Types, UNCHANGED <<inputs, objects>>, NEW w \in Workers, NEW p \in Projects,
           Project(w) = p, Working(w, p),
           NEW i \in NextItem(w), Proceed(w, worker[w].items \ {i}, FALSE), tree'[p] = "clean",
           Fetched(p) => outcome[<<p, i>>] # "conflicts",
           \/ heads'[p] = heads[p] /\ (Fetched(p) => outcome[<<p, i>>] # "applies")
           \/ heads'[p] = Append(heads[p], i) /\ outcome[<<p, i>>] = "applies"
    PROVE  worker'[w].project = p /\ Working(w, p)'
<1>. DEFINE items == worker[w].items
            left  == worker[w].items \ {i}
            done  == NotPicked(p) \ items
            more  == NotPicked(p) \ left
<1>1. /\ NotPicked(p)' = NotPicked(p) /\ outcome' = outcome
      /\ Fetched(p)' <=> Fetched(p)
  BY SameInputs DEF inputs, Fetched
<1>2. worker'[w].project = p /\ worker'[w].items = left /\ ~ worker'[w].stopped
  BY Proceeded
<1>3. /\ items \subseteq NotPicked(p) /\ NotPicked(p) \subseteq Nat /\ heads[p] \in Seq(Nat)
      /\ \A k \in NotPicked(p), j \in items : j < k => k \in items
      /\ Ascending(heads[p]) /\ Range(heads[p]) \subseteq done
      /\ Fetched(p) => /\ Range(heads[p]) = {k \in done : outcome[<<p, k>>] = "applies"}
                       /\ \A k \in done : outcome[<<p, k>>] # "conflicts"
  <2>1. NotPicked(p) \subseteq Nat
    BY DEF NotPicked
  <2>2. heads[p] \in Seq(Nat)
    BY DEF Types, TypeOK
  <2>. QED  BY <2>1, <2>2 DEF Working
<1>4. i \in items /\ i \in Nat /\ (\A j \in items : i <= j) /\ more = done \union {i}
  BY <1>3 DEF NextItem
<1>5. left \subseteq NotPicked(p)
  BY <1>3
<1>6. \A k \in NotPicked(p), j \in left : j < k => k \in left
  <2>. SUFFICES ASSUME NEW k \in NotPicked(p), NEW j \in left, j < k PROVE k \in left
    OBVIOUS
  <2>1. j \in items /\ i <= j /\ j \in Nat /\ k \in Nat
    BY <1>3, <1>4
  <2>2. k \in items /\ k # i
    BY <1>3, <1>4, <2>1
  <2>. QED  BY <2>2
<1>7. \A j \in Range(heads[p]) : j < i
  <2>. SUFFICES ASSUME NEW j \in Range(heads[p]) PROVE j < i
    OBVIOUS
  <2>1. j \in NotPicked(p) /\ j \in Nat /\ j \notin items
    BY <1>3
  <2>2. ~ (i < j) /\ j # i
    BY <1>3, <1>4, <2>1
  <2>. QED  BY <1>4, <2>1, <2>2
<1>8. Ascending(heads'[p]) /\ Range(heads'[p]) \subseteq more
  <2>1. CASE heads'[p] = heads[p]
    BY <1>3, <1>4, <2>1
  <2>2. CASE heads'[p] = Append(heads[p], i)
    <3>1. Ascending(heads'[p]) /\ Range(heads'[p]) = Range(heads[p]) \union {i}
      BY <1>3, <1>4, <1>7, <2>2, Appended
    <3>. QED  BY <1>3, <1>4, <3>1
  <2>. QED  BY <2>1, <2>2
<1>9. ASSUME Fetched(p)
      PROVE  /\ Range(heads'[p]) = {k \in more : outcome[<<p, k>>] = "applies"}
             /\ \A k \in more : outcome[<<p, k>>] # "conflicts"
  <2>1. \A k \in more : outcome[<<p, k>>] # "conflicts"
    BY <1>3, <1>4, <1>9
  <2>2. CASE heads'[p] = heads[p] /\ outcome[<<p, i>>] # "applies"
    BY <1>3, <1>4, <1>9, <2>1, <2>2
  <2>3. CASE heads'[p] = Append(heads[p], i) /\ outcome[<<p, i>>] = "applies"
    <3>1. Range(heads'[p]) = Range(heads[p]) \union {i}
      BY <1>3, <1>4, <1>7, <2>3, Appended
    <3>. QED  BY <1>3, <1>4, <1>9, <2>1, <2>3, <3>1
  <2>. QED  BY <1>9, <2>2, <2>3
<1>10. Ascending(heads[p])' /\ Range(heads[p])' = Range(heads'[p])
  BY <1>8 DEF Ascending, Range
<1>. QED  BY <1>1, <1>2, <1>5, <1>6, <1>8, <1>9, <1>10 DEF Working

(* The next change stops the cherry-pick, and says with what.              *)
LEMMA Stops ==
    ASSUME Types, UNCHANGED <<inputs, objects, heads>>, NEW w \in Workers, NEW p \in Projects,
           Project(w) = p, Working(w, p),
           NEW i \in NextItem(w), Proceed(w, worker[w].items, TRUE),
           Fetched(p) => outcome[<<p, i>>] =
               IF tree'[p] = "conflicted" THEN "conflicts" ELSE "empty"
    PROVE  worker'[w].project = p /\ Working(w, p)'
<1>1. /\ NotPicked(p)' = NotPicked(p) /\ outcome' = outcome
      /\ Fetched(p)' <=> Fetched(p)
  BY SameInputs DEF inputs, Fetched
<1>2. /\ worker'[w].project = p /\ worker'[w].items = worker[w].items
      /\ worker'[w].stopped
  BY Proceeded
<1>5. NextItem(w)' = NextItem(w)
  BY <1>2 DEF NextItem
<1>3. Ascending(heads[p])' <=> Ascending(heads[p])
  BY DEF Ascending
<1>4. Range(heads[p])' = Range(heads[p])
  BY DEF Range
<1>. QED  BY <1>1, <1>2, <1>3, <1>4, <1>5 DEF Working

LEMMA CherryPickWork ==
    ASSUME Types, RoundInv, Progress, round = "apply", NEW w \in Workers, CherryPick(w),
           NEW p \in Projects, Project(w) = p
    PROVE  /\ worker'[w].project = p /\ Working(w, p)'
           /\ \A v \in Workers \ {w} : worker'[v] = worker[v]
           /\ \A q \in Projects \ {p} : heads'[q] = heads[q] /\ tree'[q] = tree[q]
<1>1. Project(w) = p
  OBVIOUS
<1>2. /\ Working(w, p) /\ NotPicked(p) \subseteq Nat /\ ~ worker[w].stopped
      /\ \A i \in NotPicked(p) : outcome[<<p, i>>] \in Outcomes
  BY <1>1, AtTask DEF CherryPick
<1>3. tree[p] = "clean" /\ worker[w].items \subseteq NotPicked(p)
  BY <1>2 DEF Working
<1>4. UNCHANGED <<inputs, objects>> /\ p \in DOMAIN heads /\ p \in DOMAIN tree
  BY DEF CherryPick, Types, TypeOK
<1>5. PICK i \in NextItem(w) :
          IF <<p, i>> \in objects /\ outcome[<<p, i>>] = "applies" /\ tree[p] = "clean"
          THEN /\ heads' = [heads EXCEPT ![p] = Append(@, i)]
               /\ Proceed(w, worker[w].items \ {i}, FALSE)
               /\ UNCHANGED tree
          ELSE /\ Proceed(w, worker[w].items, TRUE)
               /\ tree' = IF <<p, i>> \notin objects \/ tree[p] # "clean" THEN tree
                          ELSE [tree EXCEPT ![p] = IF outcome[<<p, i>>] = "empty"
                                                   THEN "picking" ELSE "conflicted"]
               /\ UNCHANGED heads
  BY <1>1 DEF CherryPick
<1>6. i \in NotPicked(p) /\ outcome[<<p, i>>] \in Outcomes
  BY <1>2, <1>3 DEF NextItem
<1>7. Fetched(p) => <<p, i>> \in objects
  BY <1>6 DEF Fetched
<1>8. CASE <<p, i>> \in objects /\ outcome[<<p, i>>] = "applies"
  <2>1. /\ heads' = [heads EXCEPT ![p] = Append(@, i)] /\ tree' = tree
        /\ Proceed(w, worker[w].items \ {i}, FALSE)
    BY <1>3, <1>5, <1>8
  <2>2. heads'[p] = Append(heads[p], i)
    BY <1>4, <2>1
  <2>3. worker'[w].project = p /\ Working(w, p)'
    BY <1>1, <1>2, <1>3, <1>4, <1>8, <2>1, <2>2, OneMore
  <2>4. \A q \in Projects \ {p} : heads'[q] = heads[q] /\ tree'[q] = tree[q]
    BY <2>1 DEF Types, TypeOK
  <2>. QED  BY <2>1, <2>3, <2>4, Proceeded
<1>9. CASE ~ (<<p, i>> \in objects /\ outcome[<<p, i>>] = "applies")
  <2>1. /\ Proceed(w, worker[w].items, TRUE) /\ heads' = heads
        /\ tree' = IF <<p, i>> \notin objects THEN tree
                   ELSE [tree EXCEPT ![p] = IF outcome[<<p, i>>] = "empty"
                                            THEN "picking" ELSE "conflicted"]
    BY <1>3, <1>5, <1>9
  <2>2. Fetched(p) => outcome[<<p, i>>] = IF tree'[p] = "conflicted" THEN "conflicts" ELSE "empty"
    BY <1>4, <1>6, <1>7, <1>9, <2>1 DEF Outcomes
  <2>3. worker'[w].project = p /\ Working(w, p)'
    BY <1>1, <1>2, <1>4, <2>1, <2>2, Stops
  <2>4. \A q \in Projects \ {p} : heads'[q] = heads[q] /\ tree'[q] = tree[q]
    BY <2>1 DEF Types, TypeOK
  <2>. QED  BY <2>1, <2>3, <2>4, Proceeded
<1>. QED  BY <1>8, <1>9

LEMMA AfterFailureWork ==
    ASSUME Types, RoundInv, Progress, round = "apply", NEW w \in Workers, AfterFailure(w),
           NEW p \in Projects, Project(w) = p
    PROVE  /\ \/ worker'[w] = Idle /\ Ended(p)'
              \/ worker'[w].project = p /\ Working(w, p)'
           /\ \A v \in Workers \ {w} : worker'[v] = worker[v]
           /\ \A q \in Projects \ {p} : heads'[q] = heads[q] /\ tree'[q] = tree[q]
<1>1. Project(w) = p
  OBVIOUS
<1>2. /\ Working(w, p) /\ NotPicked(p) \subseteq Nat /\ worker[w].stopped
      /\ \A i \in NotPicked(p) : outcome[<<p, i>>] \in Outcomes
  BY <1>1, AtTask DEF AfterFailure
<1>3. PICK i \in NextItem(w) : Fetched(p) =>
          outcome[<<p, i>>] = IF tree[p] = "conflicted" THEN "conflicts" ELSE "empty"
  BY <1>2 DEF Working
<1>4. worker[w].items \subseteq NotPicked(p) /\ i \in NotPicked(p) /\ i \in Nat
  BY <1>2, <1>3 DEF Working, NextItem
<1>5. UNCHANGED <<inputs, objects, heads>> /\ p \in DOMAIN tree /\ w \in DOMAIN worker
  BY DEF AfterFailure, Types, TypeOK
<1>6. CASE tree[p] # "conflicted"
  <2>1. PassOver(w) /\ tree' = [tree EXCEPT ![p] = "clean"]
    BY <1>1, <1>6 DEF AfterFailure
  <2>2. PICK k \in NextItem(w) : Proceed(w, worker[w].items \ {k}, FALSE)
    BY <2>1 DEF PassOver
  <2>3. k = i
    BY <1>2, <1>3, <1>4, <2>2 DEF NextItem
  <2>4. Fetched(p) => outcome[<<p, k>>] = "empty"
    BY <1>3, <1>6, <2>3
  <2>5. tree'[p] = "clean" /\ heads'[p] = heads[p]
    BY <1>5, <2>1
  <2>6. worker'[w].project = p /\ Working(w, p)'
    BY <1>1, <1>2, <1>5, <2>2, <2>4, <2>5, OneMore
  <2>7. \A v \in Workers \ {w} : worker'[v] = worker[v]
    BY <2>2, Proceeded
  <2>8. \A q \in Projects \ {p} : heads'[q] = heads[q] /\ tree'[q] = tree[q]
    BY <1>5, <2>1 DEF Types, TypeOK
  <2>. QED  BY <2>6, <2>7, <2>8
<1>7. CASE tree[p] = "conflicted"
  <2>1. tree' = (IF reset THEN [tree EXCEPT ![p] = "clean"] ELSE tree) /\ EndTask(w)
    BY <1>1, <1>7 DEF AfterFailure
  <2>2. tree'[p] = "clean" \/ (tree'[p] = "conflicted" /\ ~ reset')
    BY <1>5, <1>7, <2>1 DEF inputs
  <2>3. Fetched(p) => Range(heads[p]) = OneAfterAnother(p)
    <3>. SUFFICES ASSUME Fetched(p) PROVE Range(heads[p]) = OneAfterAnother(p)
      OBVIOUS
    <3>1. /\ Range(heads[p]) = {k \in NotPicked(p) \ worker[w].items : outcome[<<p, k>>] = "applies"}
          /\ \A k \in NotPicked(p) \ worker[w].items : outcome[<<p, k>>] # "conflicts"
          /\ \A k \in NotPicked(p), j \in worker[w].items : j < k => k \in worker[w].items
      BY <1>2 DEF Working
    <3>2. outcome[<<p, i>>] = "conflicts" /\ i \in worker[w].items
      BY <1>3, <1>7 DEF NextItem
    <3>3. ASSUME NEW k \in OneAfterAnother(p) PROVE k \in Range(heads[p])
      <4>1. /\ k \in NotPicked(p) /\ outcome[<<p, k>>] = "applies"
            /\ \A j \in NotPicked(p) : j < k => outcome[<<p, j>>] # "conflicts"
        BY DEF OneAfterAnother
      <4>2. k \in Nat /\ k # i /\ ~ (i < k)
        BY <1>2, <1>4, <3>2, <4>1
      <4>3. k \in worker[w].items => i <= k
        BY <1>3 DEF NextItem
      <4>4. k \notin worker[w].items
        BY <1>4, <4>2, <4>3
      <4>. QED  BY <3>1, <4>1, <4>4
    <3>4. ASSUME NEW k \in Range(heads[p]) PROVE k \in OneAfterAnother(p)
      <4>1. k \in NotPicked(p) /\ k \notin worker[w].items /\ outcome[<<p, k>>] = "applies"
        BY <3>1
      <4>2. ASSUME NEW j \in NotPicked(p), j < k PROVE outcome[<<p, j>>] # "conflicts"
        BY <3>1, <4>1, <4>2
      <4>. QED  BY <4>1, <4>2 DEF OneAfterAnother
    <3>. QED  BY <3>3, <3>4
  <2>4. Ascending(heads[p])
    BY <1>2 DEF Working
  <2>5. Ended(p)'
    <3>1. (Fetched(p)' <=> Fetched(p)) /\ OneAfterAnother(p)' = OneAfterAnother(p)
      BY <1>5, SameInputs DEF Fetched
    <3>2. (Ascending(heads[p])' <=> Ascending(heads[p])) /\ Range(heads[p])' = Range(heads[p])
      BY <1>5 DEF Ascending, Range
    <3>. QED  BY <2>2, <2>3, <2>4, <3>1, <3>2 DEF Ended
  <2>6. worker'[w] = Idle /\ \A v \in Workers \ {w} : worker'[v] = worker[v]
    BY <1>5, <2>1 DEF EndTask, Types, TypeOK
  <2>8. \A q \in Projects \ {p} : heads'[q] = heads[q] /\ tree'[q] = tree[q]
    BY <1>5, <2>1 DEF Types, TypeOK
  <2>. QED  BY <2>5, <2>6, <2>8
<1>. QED  BY <1>6, <1>7

(* The last change of a project has been looked at: none of them conflicts.*)
LEMMA EndPickWork ==
    ASSUME Types, RoundInv, Progress, round = "apply", NEW w \in Workers, EndPick(w),
           NEW p \in Projects, Project(w) = p
    PROVE  /\ worker'[w] = Idle /\ Ended(p)'
           /\ \A v \in Workers \ {w} : worker'[v] = worker[v]
           /\ \A q \in Projects : heads'[q] = heads[q] /\ tree'[q] = tree[q]
<1>1. Working(w, p) /\ NotPicked(p) \subseteq Nat /\ worker[w].items = {}
  BY AtTask DEF EndPick
<1>2. UNCHANGED <<inputs, objects, heads, tree>> /\ w \in DOMAIN worker /\ EndTask(w)
  BY DEF EndPick, git, Types, TypeOK
<1>3. tree[p] = "clean" /\ Ascending(heads[p])
  BY <1>1 DEF Working, NextItem
<1>4. Fetched(p) => Range(heads[p]) = OneAfterAnother(p)
  BY <1>1 DEF Working, OneAfterAnother
<1>5. Ended(p)'
  <2>1. Ended(p)
    BY <1>3, <1>4 DEF Ended
  <2>. QED  BY <1>2, <2>1, SameProject
<1>6. worker'[w] = Idle /\ \A v \in Workers \ {w} : worker'[v] = worker[v]
  BY <1>2 DEF EndTask, Types, TypeOK
<1>. QED  BY <1>2, <1>5, <1>6

LEMMA ThreadProgress ==
    ASSUME Types, RoundInv, OneTaskEach, Progress, NEW w \in Workers, Thread(w)
    PROVE  Progress'
<1>1. /\ UNCHANGED <<inputs, round, mergables, unsent>>
      /\ \A v \in Workers \ {w} : worker'[v] = worker[v]
      /\ ~ Take(w) => /\ worker[w] # Idle /\ UNCHANGED queue
      /\ worker[w].task # "fetch" => UNCHANGED objects
  BY ThreadFrame
<1>2. round # "done"
  <2>1. Take(w) => queue # <<>>
    BY DEF Take
  <2>. QED  BY <1>1, <2>1 DEF RoundInv, AllDone
<1>3. CASE round = "apply" /\ ~ Take(w)
  <2>1. worker[w].task = "pick" /\ UNCHANGED <<queue, objects>> /\ worker[w] # Idle
    BY <1>1, <1>3 DEF RoundInv
  <2>2. PICK p \in Projects : Project(w) = p
    BY <1>3, <2>1 DEF RoundInv
  <2>3. ~ Fetch(w)
    BY <2>1 DEF Fetch
  <2>4. /\ \/ worker'[w] = Idle /\ Ended(p)'
           \/ worker'[w].project = p /\ Working(w, p)'
        /\ \A q \in Projects \ {p} : heads'[q] = heads[q] /\ tree'[q] = tree[q]
    <3>1. CASE CherryPick(w)
      BY <1>3, <2>2, <3>1, CherryPickWork
    <3>2. CASE AfterFailure(w)
      BY <1>3, <2>2, <3>2, AfterFailureWork
    <3>3. CASE EndPick(w)
      BY <1>3, <2>2, <3>3, EndPickWork
    <3>. QED  BY <1>3, <2>3, <3>1, <3>2, <3>3 DEF Thread
  <2>. QED  BY <1>1, <1>3, <2>1, <2>2, <2>4, AtWork
<1>4. CASE round = "apply" /\ Take(w)
  BY <1>4, TakeProgress
<1>5. CASE round # "apply"
  BY <1>1, <1>2, <1>5 DEF Progress
<1>. QED  BY <1>3, <1>4, <1>5

LEMMA Stuttering == PickInv /\ UNCHANGED vars => PickInv'
<1>. SUFFICES ASSUME PickInv, UNCHANGED vars PROVE PickInv'
  OBVIOUS
<1>1. UNCHANGED <<inputs, round, mergables, unsent, queue, worker, objects, heads, tree>>
  BY DEF vars, program, git
<1>2. \A p : /\ NotPicked(p)' = NotPicked(p) /\ (Ended(p)' <=> Ended(p))
             /\ \A w : Working(w, p)' <=> Working(w, p)
             /\ Scheduled(p)' <=> Scheduled(p)
  BY <1>1, SameInputs, SameProject DEF Scheduled
<1>3. RoundInv'
  BY <1>1, <1>2 DEF PickInv, RoundInv, PickTask, AllDone, Project
<1>4. OneTaskEach'
  BY <1>1 DEF PickInv, OneTaskEach, Project
<1>5. Progress'
  BY <1>1, <1>2 DEF PickInv, Progress, Project
<1>. QED  BY <1>3, <1>4, <1>5 DEF PickInv

-----------------------------------------------------------------------------
(* The theorems.                                                           *)

LEMMA InitInv == Init => PickInv
<1>. SUFFICES ASSUME Init PROVE PickInv
  OBVIOUS
<1>1. /\ round = "filter" /\ unsent = {} /\ queue = <<>> /\ Len(queue) = 0
      /\ \A w \in Workers : worker[w] = Idle /\ worker[w].task = "idle"
      /\ \A p \in Projects : heads[p] = <<>> /\ tree[p] = "clean"
  BY IdleType DEF Init
<1>2. RoundInv
  BY <1>1 DEF RoundInv, AllDone
<1>. QED  BY <1>1, <1>2 DEF PickInv, OneTaskEach, Progress

(* The invariant: types, the tasks of a round, one task for each project   *)
(* in round 3, and how far that task is.                                   *)
THEOREM PickInductive == Spec => [](Types /\ PickInv)
<1>1. Init => Types /\ PickInv
  BY InitTypes, InitInv
<1>2. Types /\ PickInv /\ [Next]_vars => (Types /\ PickInv)'
  <2>. SUFFICES ASSUME Types, PickInv, [Next]_vars PROVE (Types /\ PickInv)'
    OBVIOUS
  <2>1. Types'
    BY TypesInductive
  <2>2. CASE Main
    BY <2>1, <2>2, MainRounds, MainOneTask, MainProgress DEF PickInv
  <2>3. ASSUME NEW w \in Workers, Thread(w) PROVE PickInv'
    BY <2>3, ThreadRounds, ThreadOneTask, ThreadProgress DEF PickInv
  <2>4. CASE UNCHANGED vars
    BY <2>1, <2>4, Stuttering
  <2>. QED  BY <2>1, <2>2, <2>3, <2>4 DEF Next
<1>. QED  BY <1>1, <1>2, PTL DEF Spec

(* The main thread, the pool and git hold what they should: a thread's     *)
(* task names changes of its project only.                                 *)
THEOREM PickTypeCorrect == Spec => []TypeOK
<1>1. Types => TypeOK
  BY DEF Types
<1>. QED  BY <1>1, PickInductive, PTL

(* A project whose changes could be fetched gets what picking them by      *)
(* hand, one after another, leaves, in the same order, up to where its     *)
(* task is, and to the end when the program is done.                       *)
THEOREM PickedLikeOneAfterAnother == Spec => []LikeOneAfterAnother
<1>1. ASSUME Types, PickInv, NEW p \in Projects, round \in {"apply", "done"}, Fetched(p)
      PROVE  /\ Ascending(heads[p]) /\ Range(heads[p]) \subseteq OneAfterAnother(p)
             /\ \A i \in Range(heads[p]), j \in OneAfterAnother(p) :
                   j < i => j \in Range(heads[p])
             /\ round = "done" => Range(heads[p]) = OneAfterAnother(p)
  <2>1. CASE Scheduled(p)
    <3>1. heads[p] = <<>>
      BY <1>1, <2>1 DEF PickInv, Progress
    <3>2. round # "done"
      <4>1. queue = <<>> => Len(queue) = 0
        OBVIOUS
      <4>. QED  BY <1>1, <2>1, <4>1 DEF PickInv, RoundInv, AllDone, Scheduled
    <3>. QED  BY <3>1, <3>2, EmptyBranch
  <2>2. ASSUME NEW w \in Workers, Project(w) = p
        PROVE  /\ Ascending(heads[p]) /\ Range(heads[p]) \subseteq OneAfterAnother(p)
               /\ \A i \in Range(heads[p]), j \in OneAfterAnother(p) :
                     j < i => j \in Range(heads[p])
               /\ round = "done" => Range(heads[p]) = OneAfterAnother(p)
    <3>1. Working(w, p)
      BY <1>1, <2>2 DEF PickInv, Progress
    <3>2. round # "done"
      BY <1>1, <2>2, IdleType DEF PickInv, RoundInv, AllDone, Project
    <3>3. /\ Range(heads[p]) = {i \in NotPicked(p) \ worker[w].items : outcome[<<p, i>>] = "applies"}
          /\ \A i \in NotPicked(p) \ worker[w].items : outcome[<<p, i>>] # "conflicts"
          /\ \A i \in NotPicked(p), j \in worker[w].items : j < i => i \in worker[w].items
      BY <1>1, <3>1 DEF Working
    <3>4. Ascending(heads[p])
      BY <3>1 DEF Working
    <3>5. ASSUME NEW i \in Range(heads[p]) PROVE i \in OneAfterAnother(p)
      <4>1. i \in NotPicked(p) /\ i \notin worker[w].items /\ outcome[<<p, i>>] = "applies"
        BY <3>3
      <4>2. ASSUME NEW j \in NotPicked(p), j < i PROVE outcome[<<p, j>>] # "conflicts"
        BY <3>3, <4>1, <4>2
      <4>. QED  BY <4>1, <4>2 DEF OneAfterAnother
    <3>6. ASSUME NEW i \in Range(heads[p]), NEW j \in OneAfterAnother(p), j < i
          PROVE  j \in Range(heads[p])
      <4>1. i \in NotPicked(p) /\ i \notin worker[w].items
        BY <3>3
      <4>2. j \in NotPicked(p) /\ outcome[<<p, j>>] = "applies"
        BY DEF OneAfterAnother
      <4>. QED  BY <3>3, <3>6, <4>1, <4>2
    <3>. QED  BY <3>2, <3>4, <3>5, <3>6
  <2>3. CASE ~ Scheduled(p) /\ \A w \in Workers : Project(w) # p
    <3>1. Ended(p)
      BY <1>1, <2>3 DEF PickInv, Progress
    <3>. QED  BY <1>1, <3>1 DEF Ended
  <2>. QED  BY <2>1, <2>2, <2>3
<1>2. Types /\ PickInv => LikeOneAfterAnother
  BY <1>1 DEF LikeOneAfterAnother
<1>. QED  BY <1>2, PickInductive, PTL

(* No thread leaves a project with an unfinished cherry-pick, but after a  *)
(* conflict and without --reset.                                           *)
THEOREM UnfinishedAfterConflict == Spec => []UnfinishedOnlyAfterConflict
<1>1. ASSUME Types, PickInv, NEW p \in Projects, tree[p] # "clean",
             \A w \in Workers : Project(w) # p
      PROVE  ~ reset /\ tree[p] = "conflicted"
  <2>1. round \in {"apply", "done"}
    BY <1>1 DEF PickInv, RoundInv, Types, TypeOK
  <2>2. Ended(p)
    BY <1>1, <2>1 DEF PickInv, Progress
  <2>. QED  BY <1>1, <2>2 DEF Ended
<1>2. Types /\ PickInv => UnfinishedOnlyAfterConflict
  BY <1>1 DEF UnfinishedOnlyAfterConflict
<1>. QED  BY <1>2, PickInductive, PTL
=============================================================================
