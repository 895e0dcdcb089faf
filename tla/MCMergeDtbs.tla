----------------------------- MODULE MCMergeDtbs -----------------------------
(***************************************************************************)
(* Instances of the merge for TLC: two ids in five dimensions.             *)
(***************************************************************************)
EXTENDS MergeDtbs

Both == {1, 2}

(* Base device trees with one of the extra ids, with none and with both.    *)
MCBases ==
    {<<Both, Both, Both, Both, Absent>>, <<Both, Both, Absent, Absent, Both>>,
     <<{1}, Both, Both, Absent, Absent>>, <<Both, Absent, Absent, Both, Both>>}

(* Any dimension narrowed to the first id, two of them, one an extra id     *)
(* perhaps, and some for the second id or for several at once.              *)
MCTechpacks ==
    {t \in [Dims -> {Absent, {1}}] :
        LET constrained == {d \in Dims : t[d] # Absent}
        IN  \/ Cardinality(constrained) = 1
            \/ Cardinality(constrained) = 2 /\ constrained \subseteq {1, 2, 4}}
    \cup {<<{1}, {1}, {1}, {1}, {1}>>, <<{2}, Both, {1}, {2}, Both>>,
          <<{2}, Absent, Absent, Absent, Absent>>, <<Absent, {2}, {1}, Absent, {2}>>}
=============================================================================
