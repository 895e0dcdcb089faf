------------------------- MODULE GameDetector_proofs -------------------------
(***************************************************************************)
(* What the scan of /proc finds, for every set of processes, of packages   *)
(* and of oom_score_adj values.                                            *)
(*                                                                         *)
(* The two results about the end of a scan need to know where it is while  *)
(* it lasts: ScanOrder says that the pids it has yet to look at are above  *)
(* the one it looks at, SteadyAccounted that each process that has been a  *)
(* foreground package all along is ahead of the scan, is the one it looks  *)
(* at, or is behind it and was the best match unless a higher pid was.     *)
(***************************************************************************)
EXTENDS GameDetector, TLAPS

(* The history holds what is in the foreground now.                        *)
HistoryUpToDate ==
    /\ pc # "idle" => Foreground \subseteq touched
    /\ \A p \in touched \intersect Live : <<p, name[p]>> \in seen
    /\ steady \subseteq ForegroundPackages

(* The command line is read of a process that has been in the foreground.  *)
CandidateTouched ==
    /\ pc \in {"oom", "cmdline"} => pid > 100
    /\ pc = "cmdline" => pid \in touched

BestSeen ==
    best_pkg # NoApp => \E p \in touched : <<p, best_pkg>> \in seen

(* The scan goes through the pids in ascending order.                      *)
ScanOrder ==
    pc # "idle" =>
        /\ pid <= pos
        /\ \A e \in entries : pid < e /\ e <= pos

Accounted(p) == \/ best_pkg = name[p]
                \/ \E q \in touched : q > p /\ <<q, best_pkg>> \in seen

SteadyAccounted ==
    /\ pc \in {"next", "oom", "cmdline"} =>
           \A p \in steady : \/ p > pos
                             \/ p \in entries
                             \/ pc # "next" /\ p = pid
                             \/ p <= pid /\ Accounted(p)
    /\ pc = "done" => \A p \in steady : Accounted(p)

ScanInv == /\ TypeOK
           /\ HistoryUpToDate
           /\ CandidateTouched
           /\ BestSeen
           /\ ScanOrder
           /\ SteadyAccounted

USE PidsAssumption, NamesAssumption, AdjsAssumption

LEMMA ScanInit == Init => ScanInv
BY DEF Init, ScanInv, TypeOK, HistoryUpToDate, CandidateTouched, BestSeen,
       ScanOrder, SteadyAccounted

(* A process that has been a foreground package all along keeps its name.  *)
LEMMA ProcessesStep == ScanInv /\ Processes => ScanInv'
<1> SUFFICES ASSUME ScanInv, Processes PROVE ScanInv'
  OBVIOUS
<1> USE DEF ScanInv
<1>1. UNCHANGED <<pc, entries, pos, pid, best_pkg>>
  BY DEF Processes, scan
<1>2. Remember
  BY DEF Processes
<1>3. /\ name' \in [Pids -> Packages \union Filtered \union {NoApp}]
      /\ adj' \in [Pids -> Adjs]
      /\ retired' \subseteq Pids
  <2>1. PICK p \in Pids : Fork(p) \/ Specialize(p) \/ SetAdj(p) \/ Exit(p)
    BY DEF Processes
  <2>2. CASE Fork(p)
    <3>1. PICK a \in Adjs : adj' = [adj EXCEPT ![p] = a]
      BY <2>2 DEF Fork
    <3> QED
      BY <2>2, <3>1 DEF Fork, TypeOK
  <2>3. CASE Specialize(p)
    BY <2>3 DEF Specialize, TypeOK
  <2>4. CASE SetAdj(p)
    BY <2>4 DEF SetAdj, TypeOK
  <2>5. CASE Exit(p)
    BY <2>5 DEF Exit, TypeOK
  <2> QED
    BY <2>1, <2>2, <2>3, <2>4, <2>5
<1>4. \A p \in Pids : name'[p] = name[p] \/ name[p] \notin Packages \/ name'[p] \notin Packages
  BY DEF Processes, Fork, Specialize, SetAdj, Exit, TypeOK, Live
<1>5. \A p \in steady' : p \in steady /\ name'[p] = name[p]
  BY <1>2, <1>4 DEF Remember, HistoryUpToDate, ForegroundPackages, Foreground, Live
<1>6. touched \subseteq touched' /\ seen \subseteq seen' /\ steady' \subseteq steady
  BY <1>2 DEF Remember
<1>7. \A p \in Live' : p \in Pids /\ name'[p] \in Packages \union Filtered
  BY <1>3 DEF Live
<1>8. TypeOK'
  <2>1. touched' \subseteq Pids /\ steady' \subseteq Pids
    BY <1>2 DEF TypeOK, Remember, Foreground, Live
  <2>2. seen' \subseteq Pids \X (Packages \union Filtered)
    <3>1. seen' = seen \union {<<p, name'[p]>> : p \in touched' \intersect Live'}
      BY <1>2 DEF Remember
    <3> HIDE DEF ScanInv
    <3>2. seen \subseteq Pids \X (Packages \union Filtered)
      BY DEF ScanInv, TypeOK
    <3> QED
      BY <1>7, <3>1, <3>2
  <2> QED
    BY <1>1, <1>3, <2>1, <2>2 DEF TypeOK
<1>9. HistoryUpToDate'
  BY <1>2 DEF HistoryUpToDate, Remember
<1>10. CandidateTouched'
  BY <1>1, <1>6 DEF CandidateTouched
<1>11. BestSeen'
  BY <1>1, <1>6 DEF BestSeen
<1>12. ScanOrder'
  BY <1>1 DEF ScanOrder
<1>13. \A p \in steady' : Accounted(p) => Accounted(p)'
  BY <1>1, <1>5, <1>6 DEF Accounted
<1>14. SteadyAccounted'
  BY <1>1, <1>6, <1>13 DEF SteadyAccounted
<1> QED
  BY <1>8, <1>9, <1>10, <1>11, <1>12, <1>14

LEMMA OpenStep == ScanInv /\ Open => ScanInv'
<1> SUFFICES ASSUME ScanInv, Open PROVE ScanInv'
  OBVIOUS
<1> USE DEF ScanInv, Open, table
<1>1. \A p \in Live : name[p] \in Packages \union Filtered
  BY DEF Live, TypeOK
<1>2. TypeOK'
  <2>1. Foreground \subseteq Pids /\ ForegroundPackages \subseteq Pids
    BY DEF ForegroundPackages, Foreground, Live
  <2>2. \A p \in Foreground : p \in Pids /\ name[p] \in Packages \union Filtered
    BY <1>1 DEF Foreground, Live
  <2>3. seen' \subseteq Pids \X (Packages \union Filtered)
    <3> HIDE DEF Open
    <3>1. seen' = {<<p, name[p]>> : p \in Foreground}
      BY DEF Open
    <3> QED
      BY <2>2, <3>1
  <2>4. /\ touched' \subseteq Pids /\ steady' \subseteq Pids
        /\ retired' \subseteq Pids /\ entries' \subseteq Pids
    BY <2>1
  <2>5. /\ pc' \in {"next", "idle"} /\ pos' = 0 /\ pid' = 0 /\ best_pkg' = NoApp
        /\ name' = name /\ adj' = adj
    OBVIOUS
  <2> QED
    <3> HIDE DEF Open
    <3> QED
      BY <2>3, <2>4, <2>5 DEF TypeOK
<1>3. HistoryUpToDate'
  BY DEF HistoryUpToDate, ForegroundPackages, Foreground, Live
<1>4. CandidateTouched' /\ BestSeen' /\ ScanOrder'
  BY DEF CandidateTouched, BestSeen, ScanOrder
<1>5. SteadyAccounted'
  BY DEF SteadyAccounted, ForegroundPackages, Foreground, Live, TypeOK
<1> QED
  BY <1>2, <1>3, <1>4, <1>5

(* A step of the scan that leaves the result alone.                        *)
LEMMA QuietHistory ==
    ASSUME ScanInv, UNCHANGED <<table, history, best_pkg>>, pc # "idle"
    PROVE  /\ HistoryUpToDate'
           /\ BestSeen'
           /\ \A p : Accounted(p)' <=> Accounted(p)
BY DEF ScanInv, HistoryUpToDate, BestSeen, Accounted, ForegroundPackages, Foreground,
       Live, table, history

LEMMA ReadDirectoryStep == ScanInv /\ ReadDirectory => ScanInv'
<1> SUFFICES ASSUME ScanInv, ReadDirectory PROVE ScanInv'
  OBVIOUS
<1> USE DEF ScanInv
<1> DEFINE rest == {p \in Live : p > pos}
<1>1. PICK filled \in (SUBSET rest) \ {{}} :
        /\ \A p \in filled, q \in rest \ filled : p < q
        /\ entries' = filled
        /\ \E last \in filled : pos' = last /\ \A p \in filled : p <= last
  BY DEF ReadDirectory
<1>2. /\ pc = "next" /\ pc' = "next" /\ entries = {}
      /\ UNCHANGED <<table, retired, pid, best_pkg, history>>
  BY DEF ReadDirectory
<1>3. /\ pos' \in filled /\ \A p \in filled : p \in Pids /\ pos < p /\ p <= pos'
      /\ pos \in Nat /\ pid \in Nat
  BY <1>1 DEF Live, TypeOK
<1>4. TypeOK'
  BY <1>1, <1>2, <1>3 DEF TypeOK, table, history
<1>5. HistoryUpToDate' /\ BestSeen' /\ \A p : Accounted(p)' <=> Accounted(p)
  BY <1>2, QuietHistory
<1>6. CandidateTouched'
  BY <1>2 DEF CandidateTouched
<1>7. ScanOrder'
  <2>1. pid <= pos
    BY <1>2 DEF ScanOrder
  <2>2. \A p \in filled : p \in Nat /\ pos < p /\ p <= pos'
    BY <1>3
  <2>3. pos \in Nat /\ pid \in Nat /\ pos' \in Nat /\ pos < pos'
    BY <1>3, <2>2
  <2>4. \A p \in filled : pid < p
    BY <2>1, <2>2, <2>3
  <2>5. pid <= pos'
    BY <2>1, <2>3
  <2> QED
    BY <1>1, <1>2, <2>2, <2>4, <2>5 DEF ScanOrder
<1>8. \A p \in steady : p > pos => p \in filled \/ p > pos'
  <2> TAKE p \in steady
  <2>1. p \in Live
    BY DEF HistoryUpToDate, ForegroundPackages, Foreground
  <2> QED
    BY <2>1, <1>1, <1>3
<1>9. SteadyAccounted'
  BY <1>1, <1>2, <1>5, <1>8 DEF SteadyAccounted, history
<1> QED
  BY <1>4, <1>5, <1>6, <1>7, <1>9

LEMMA NextEntryStep == ScanInv /\ NextEntry => ScanInv'
<1> SUFFICES ASSUME ScanInv, NextEntry PROVE ScanInv'
  OBVIOUS
<1> USE DEF ScanInv
<1>1. PICK e \in entries :
        /\ \A q \in entries : e <= q
        /\ entries' = entries \ {e}
        /\ IF e <= 100 THEN UNCHANGED <<pc, pid>> ELSE pc' = "oom" /\ pid' = e
  BY DEF NextEntry
<1>2. pc = "next" /\ UNCHANGED <<table, retired, pos, best_pkg, history>>
  BY DEF NextEntry
<1>3. e \in Nat /\ pid \in Nat /\ pos \in Nat /\ entries \subseteq Nat
  BY DEF TypeOK
<1>4. TypeOK'
  BY <1>1, <1>2, <1>3 DEF TypeOK, table, history
<1>5. HistoryUpToDate' /\ BestSeen' /\ \A p : Accounted(p)' <=> Accounted(p)
  BY <1>2, QuietHistory
<1>6. CandidateTouched'
  BY <1>1, <1>2, <1>3 DEF CandidateTouched
<1>7. ScanOrder'
  <2>1. pid <= pos /\ \A q \in entries : pid < q /\ q <= pos
    BY <1>2 DEF ScanOrder
  <2>2. \A q \in entries' : q \in entries /\ e < q
    BY <1>1, <1>3
  <2>3. pid' = pid \/ pid' = e
    BY <1>1
  <2>4. pos' = pos
    BY <1>2
  <2>5. pid' <= pos'
    BY <2>1, <2>3, <2>4
  <2>6. \A q \in entries' : pid' < q /\ q <= pos'
    BY <2>1, <2>2, <2>3, <2>4
  <2> QED
    BY <2>5, <2>6 DEF ScanOrder
<1>8. \A p \in steady : p \in Nat /\ p > 100
  BY DEF HistoryUpToDate, ForegroundPackages, Foreground, Live
<1>9. pid < e
  BY <1>1, <1>2 DEF ScanOrder
<1>10. SteadyAccounted'
  BY <1>1, <1>2, <1>3, <1>5, <1>8, <1>9 DEF SteadyAccounted, history
<1> QED
  BY <1>4, <1>5, <1>6, <1>7, <1>10

LEMMA ReadOomStep == ScanInv /\ ReadOom => ScanInv'
<1> SUFFICES ASSUME ScanInv, ReadOom PROVE ScanInv'
  OBVIOUS
<1> USE DEF ScanInv
<1>1. /\ pc = "oom"
      /\ pc' = IF pid \in Live /\ adj[pid] = 0 THEN "cmdline" ELSE "next"
      /\ UNCHANGED <<table, retired, entries, pos, pid, best_pkg, history>>
  BY DEF ReadOom
<1>2. TypeOK'
  BY <1>1 DEF TypeOK, table, history
<1>3. HistoryUpToDate' /\ BestSeen' /\ \A p : Accounted(p)' <=> Accounted(p)
  BY <1>1, QuietHistory
<1>4. CandidateTouched'
  BY <1>1 DEF CandidateTouched, HistoryUpToDate, Foreground, history
<1>5. ScanOrder'
  BY <1>1 DEF ScanOrder
<1>6. pid \in steady => pid \in Live /\ adj[pid] = 0
  BY DEF HistoryUpToDate, ForegroundPackages, Foreground
<1>7. SteadyAccounted'
  BY <1>1, <1>3, <1>6 DEF SteadyAccounted, history
<1> QED
  BY <1>2, <1>3, <1>4, <1>5, <1>7

(* The one step that changes the result: what was the best match before    *)
(* had a lower pid.                                                        *)
LEMMA ReadCmdlineStep == ScanInv /\ ReadCmdline => ScanInv'
<1> SUFFICES ASSUME ScanInv, ReadCmdline PROVE ScanInv'
  OBVIOUS
<1> USE DEF ScanInv
<1>1. /\ pc = "cmdline" /\ pc' = "next"
      /\ best_pkg' = IF name[pid] \in Packages THEN name[pid] ELSE best_pkg
      /\ UNCHANGED <<table, retired, entries, pos, pid, history>>
  BY DEF ReadCmdline
<1>2. TypeOK'
  BY <1>1 DEF TypeOK, table, history
<1>3. HistoryUpToDate' /\ CandidateTouched' /\ ScanOrder'
  BY <1>1 DEF HistoryUpToDate, CandidateTouched, ScanOrder, ForegroundPackages,
              Foreground, Live, table, history
<1>4. pid \in touched /\ pid \in Pids /\ pid \in Nat
  BY <1>1 DEF CandidateTouched, TypeOK
<1>5. name[pid] \in Packages => <<pid, name[pid]>> \in seen
  BY <1>4 DEF HistoryUpToDate, Live
<1>6. BestSeen'
  BY <1>1, <1>4, <1>5 DEF BestSeen, history
<1>7. ASSUME NEW p \in steady, p <= pid, p # pid, Accounted(p)
      PROVE  Accounted(p)'
  BY <1>1, <1>4, <1>5, <1>7 DEF Accounted, history, table, TypeOK
<1>8. pid \in steady => Accounted(pid)'
  BY <1>1 DEF Accounted, HistoryUpToDate, ForegroundPackages, table
<1>9. SteadyAccounted'
  BY <1>1, <1>4, <1>7, <1>8 DEF SteadyAccounted, history
<1> QED
  BY <1>2, <1>3, <1>6, <1>9

LEMMA EndStep == ScanInv /\ (EndOfDirectory \/ Return) => ScanInv'
<1> SUFFICES ASSUME ScanInv, EndOfDirectory \/ Return PROVE ScanInv'
  OBVIOUS
<1> USE DEF ScanInv
<1>1. /\ UNCHANGED <<table, retired, entries, pos, pid, best_pkg, history>>
      /\ \/ pc = "next" /\ pc' = "done" /\ entries = {} /\ \A p \in Live : p <= pos
         \/ pc = "done" /\ pc' = "idle"
  BY DEF EndOfDirectory, Return
<1>2. TypeOK' /\ CandidateTouched' /\ ScanOrder'
  BY <1>1 DEF TypeOK, CandidateTouched, ScanOrder, table, history
<1>3. HistoryUpToDate' /\ BestSeen' /\ \A p : Accounted(p)' <=> Accounted(p)
  BY <1>1, QuietHistory
<1>4. \A p \in steady : p \in Live /\ p \in Nat
  BY DEF HistoryUpToDate, ForegroundPackages, Foreground, Live
<1>5. SteadyAccounted'
  BY <1>1, <1>3, <1>4 DEF SteadyAccounted, history, TypeOK
<1> QED
  BY <1>2, <1>3, <1>5

LEMMA ScanStep == ScanInv /\ [Next]_vars => ScanInv'
<1>1. ASSUME ScanInv, UNCHANGED vars PROVE ScanInv'
  BY <1>1 DEF ScanInv, TypeOK, HistoryUpToDate, CandidateTouched, BestSeen, ScanOrder,
              SteadyAccounted, Accounted, ForegroundPackages, Foreground, Live,
              vars, table, scan, history
<1> QED
  BY <1>1, ProcessesStep, OpenStep, ReadDirectoryStep, NextEntryStep, ReadOomStep,
     ReadCmdlineStep, EndStep DEF Next, Scan

(* The state of the scan is always what its types say; in particular only  *)
(* a command line that passes the filters is ever returned.                *)
THEOREM ScanTypeCorrect == Spec => []TypeOK
<1>1. ScanInv => TypeOK
  BY DEF ScanInv
<1> QED
  BY <1>1, ScanInit, ScanStep, PTL DEF Spec

(* What a scan returns was in the foreground at some time while it lasted, *)
(* although oom_score_adj and cmdline are two reads and the process may    *)
(* leave the foreground, change its name or end between them.              *)
THEOREM ScanFindsForeground == Spec => []FoundWasForeground
<1>1. ScanInv => FoundWasForeground
  BY DEF ScanInv, BestSeen, FoundWasForeground
<1> QED
  BY <1>1, ScanInit, ScanStep, PTL DEF Spec

(* The scan misses no package that stays in the foreground, except for one *)
(* with a higher pid.                                                      *)
THEOREM ScanMissesNoSteadyPackage == Spec => []SteadyIsFound
<1>1. ScanInv => SteadyIsFound
  BY DEF ScanInv, SteadyAccounted, SteadyIsFound, Accounted
<1> QED
  BY <1>1, ScanInit, ScanStep, PTL DEF Spec
=============================================================================
