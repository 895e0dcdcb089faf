---------------------------- MODULE GameDetector ----------------------------
(***************************************************************************)
(* GameDetector::detect_foreground_package (GameDetector.cpp): the scan of *)
(* /proc for the package in the foreground, while processes are forked,    *)
(* given their package, moved to and from the foreground, and end.         *)
(*                                                                         *)
(* The scan opens a directory, takes one entry after another and reads two *)
(* files of each process; anything may happen in between.  The result is   *)
(* what ScandiumPerfd calls foreground: there it is any value at all.      *)
(***************************************************************************)
EXTENDS Integers

CONSTANTS
    Pids,       \* process ids
    Packages,   \* command lines the filters of the scan let through
    Filtered,   \* those they do not: paths, "package:process", system_server, ...
    Zygote,     \* the command line of a process that is not yet specialized
    NoApp,      \* the empty string
    Adjs        \* values of oom_score_adj; 0 is the foreground

ASSUME PidsAssumption == Pids \subseteq Nat
ASSUME NamesAssumption ==
    /\ Packages \intersect Filtered = {}
    /\ Zygote \in Filtered
    /\ NoApp \notin Packages \union Filtered
ASSUME AdjsAssumption == Adjs \subseteq Int

VARIABLES
    name, adj,  \* of each process; name[p] = NoApp when there is no process p
    retired,    \* processes that ended during the scan
    pc,         \* where the scan is
    entries,    \* directory entries read ahead
    pos,        \* the last entry read from the directory
    pid,        \* the process being looked at
    best_pkg,   \* the result
    (* History: what has been true since the scan began. *)
    seen,       \* <<p, n>>: process p had adj 0 before it was, or when it was, named n
    touched,    \* processes that have had adj 0 at some time
    steady      \* processes that have been foreground packages at all times

table   == <<name, adj>>
scan    == <<pc, entries, pos, pid, best_pkg>>
history == <<seen, touched, steady>>
vars    == <<table, retired, scan, history>>

Live == {p \in Pids : name[p] # NoApp}

(* The processes the scan looks for.                                       *)
Foreground == {p \in Live : p > 100 /\ adj[p] = 0}
ForegroundPackages == {p \in Foreground : name[p] \in Packages}

(* What the history remembers of the state a step leads to.                *)
Remember ==
    /\ touched' = touched \union Foreground'
    /\ seen' = seen \union {<<p, name'[p]>> : p \in touched' \intersect Live'}
    /\ steady' = steady \intersect ForegroundPackages'

-----------------------------------------------------------------------------
(* The processes.                                                          *)

(* A pid is not used again while one scan lasts: the kernel hands them out *)
(* in turn.                                                                *)
Fork(p) ==
    /\ p \notin Live \union retired
    /\ name' = [name EXCEPT ![p] = Zygote]
    /\ \E a \in Adjs : adj' = [adj EXCEPT ![p] = a]
    /\ UNCHANGED retired

(* The process takes on the name of what it was forked for.                *)
Specialize(p) ==
    /\ p \in Live /\ name[p] = Zygote
    /\ \E n \in (Packages \union Filtered) \ {Zygote} : name' = [name EXCEPT ![p] = n]
    /\ UNCHANGED <<adj, retired>>

(* The activity manager moves it to or from the foreground.                *)
SetAdj(p) ==
    /\ p \in Live
    /\ \E a \in Adjs \ {adj[p]} : adj' = [adj EXCEPT ![p] = a]
    /\ UNCHANGED <<name, retired>>

Exit(p) ==
    /\ p \in Live
    /\ name' = [name EXCEPT ![p] = NoApp]
    /\ retired' = IF pc = "idle" THEN retired ELSE retired \union {p}
    /\ UNCHANGED adj

Processes ==
    /\ \E p \in Pids : Fork(p) \/ Specialize(p) \/ SetAdj(p) \/ Exit(p)
    /\ Remember
    /\ UNCHANGED scan

-----------------------------------------------------------------------------
(* The scan.                                                               *)

(* opendir; it may fail, and the result is then empty.                     *)
Open ==
    /\ pc = "idle"
    /\ best_pkg' = NoApp
    /\ entries' = {} /\ pos' = 0
    /\ pc' \in {"next", "idle"}
    /\ retired' = {}
    /\ touched' = Foreground
    /\ seen' = {<<p, name[p]>> : p \in Foreground}
    /\ steady' = ForegroundPackages
    /\ pid' = 0
    /\ UNCHANGED table

(* readdir fills its buffer with some of the entries that follow, in the   *)
(* order of the pids: an initial part of the processes there are now.      *)
ReadDirectory ==
    LET rest == {p \in Live : p > pos} IN
    /\ pc = "next" /\ entries = {}
    /\ \E filled \in (SUBSET rest) \ {{}} :
         /\ \A p \in filled, q \in rest \ filled : p < q
         /\ entries' = filled
         /\ \E last \in filled : pos' = last /\ \A p \in filled : p <= last
    /\ UNCHANGED <<table, retired, pc, pid, best_pkg, history>>

(* readdir returns the next entry; low pids are skipped.                   *)
NextEntry ==
    /\ pc = "next"
    /\ \E p \in entries :
         /\ \A q \in entries : p <= q
         /\ entries' = entries \ {p}
         /\ IF p <= 100 THEN UNCHANGED <<pc, pid>>
                        ELSE pc' = "oom" /\ pid' = p
    /\ UNCHANGED <<table, retired, pos, best_pkg, history>>

(* Mutant: any process that is not in the background is looked at.         *)
ReadOomNotPositive ==
    /\ pc = "oom"
    /\ pc' = IF pid \in Live /\ adj[pid] <= 0 THEN "cmdline" ELSE "next"
    /\ UNCHANGED <<table, retired, entries, pos, pid, best_pkg, history>>

(* Mutant: a process that has ended ends the scan.                         *)
ReadOomGivesUp ==
    /\ pc = "oom"
    /\ pc' = IF pid \notin Live THEN "done" ELSE IF adj[pid] = 0 THEN "cmdline" ELSE "next"
    /\ UNCHANGED <<table, retired, entries, pos, pid, best_pkg, history>>

(* Mutant: a file that cannot be read is tried again.                      *)
ReadOomAgain ==
    /\ pc = "oom"
    /\ pid \in Live
    /\ pc' = IF adj[pid] = 0 THEN "cmdline" ELSE "next"
    /\ UNCHANGED <<table, retired, entries, pos, pid, best_pkg, history>>

(* oom_score_adj; a process that has ended meanwhile has no such file.     *)
ReadOom ==
    /\ pc = "oom"
    /\ pc' = IF pid \in Live /\ adj[pid] = 0 THEN "cmdline" ELSE "next"
    /\ UNCHANGED <<table, retired, entries, pos, pid, best_pkg, history>>

(* Mutant: without the filters.                                            *)
ReadCmdlineUnfiltered ==
    /\ pc = "cmdline"
    /\ best_pkg' = IF name[pid] # NoApp THEN name[pid] ELSE best_pkg
    /\ pc' = "next"
    /\ UNCHANGED <<table, retired, entries, pos, pid, history>>

(* read_cmdline, and the filters on what it returns.                       *)
ReadCmdline ==
    /\ pc = "cmdline"
    /\ best_pkg' = IF name[pid] \in Packages THEN name[pid] ELSE best_pkg
    /\ pc' = "next"
    /\ UNCHANGED <<table, retired, entries, pos, pid, history>>

(* readdir finds no more: closedir, and the last match is the result.      *)
EndOfDirectory ==
    /\ pc = "next" /\ entries = {}
    /\ \A p \in Live : p <= pos
    /\ pc' = "done"
    /\ UNCHANGED <<table, retired, entries, pos, pid, best_pkg, history>>

Return ==
    /\ pc = "done"
    /\ pc' = "idle"
    /\ UNCHANGED <<table, retired, entries, pos, pid, best_pkg, history>>

Scan == ReadDirectory \/ NextEntry \/ ReadOom \/ ReadCmdline \/ EndOfDirectory \/ Return

-----------------------------------------------------------------------------

Init ==
    /\ name \in [Pids -> Packages \union Filtered \union {NoApp}]
    /\ adj \in [Pids -> Adjs]
    /\ retired = {}
    /\ pc = "idle" /\ entries = {} /\ pos = 0 /\ pid = 0 /\ best_pkg = NoApp
    /\ seen = {} /\ touched = {} /\ steady = {}

Next == Processes \/ Open \/ Scan

Spec == Init /\ [][Next]_vars

(* The kernel schedules the daemon.                                        *)
FairSpec == Spec /\ WF_vars(Scan)

-----------------------------------------------------------------------------

TypeOK ==
    /\ name \in [Pids -> Packages \union Filtered \union {NoApp}]
    /\ adj \in [Pids -> Adjs]
    /\ retired \subseteq Pids
    /\ pc \in {"idle", "next", "oom", "cmdline", "done"}
    /\ entries \subseteq Pids
    /\ pos \in Nat /\ pid \in Nat
    /\ pc \in {"oom", "cmdline"} => pid \in Pids
    /\ best_pkg \in Packages \union {NoApp}
    /\ seen \subseteq Pids \X (Packages \union Filtered)
    /\ touched \subseteq Pids
    /\ steady \subseteq Pids

(* A package the scan finds belonged to a process that was in the          *)
(* foreground at some time during the scan, although the two files are     *)
(* read at different times and processes come and go.                      *)
FoundWasForeground ==
    pc = "done" /\ best_pkg # NoApp => \E p \in touched : <<p, best_pkg>> \in seen

(* A package that is in the foreground during the whole scan is found,     *)
(* unless one with a higher pid is.                                        *)
SteadyIsFound ==
    pc = "done" =>
        \A p \in steady : \/ best_pkg = name[p]
                          \/ \E q \in touched : q > p /\ <<q, best_pkg>> \in seen

(* A scan comes to its end, whatever processes do meanwhile.               *)
ScanEnds == pc = "next" ~> pc = "done"
=============================================================================
