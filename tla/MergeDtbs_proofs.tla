-------------------------- MODULE MergeDtbs_proofs --------------------------
(***************************************************************************)
(* Which techpacks the merged device trees have, and which devices they    *)
(* are for, for any base, any techpacks, any number of them, and any order *)
(* of the splits.                                                          *)
(*                                                                         *)
(* The argument: once a techpack has been looked at, each device tree is   *)
(* either for devices of the techpack only or for none of them, and later  *)
(* splits, which only take ids away, keep it so.                           *)
(***************************************************************************)
EXTENDS MergeDtbs, TLAPS, FiniteSetTheorems

USE MergeDtbsAssumption

\* All its devices are the techpack's, or none is.
Within(t, tp) == Common(tp) # {} /\ \A d \in Common(tp) : t[d] \subseteq tp[d]
Apart(t, tp)  == Common(tp) = {} \/ \E d \in Common(tp) : t[d] \cap tp[d] = {}
Decided(t, tp) == Within(t, tp) \/ Apart(t, tp)

\* u is for no more devices than t.
Narrower(u, t) == \A d \in Dims : base[d] # Absent => u[d] \subseteq t[d]

Inputs ==
    /\ base \in Bases
    /\ techpacks \in [1 .. MaxTechpacks -> Techpacks]
    /\ current \in 1 .. MaxTechpacks + 1

Trees ==
    /\ \A t \in DOMAIN merged : Shaped(t)
    /\ left \subseteq DOMAIN merged
    /\ \A t \in DOMAIN merged : merged[t] \subseteq 1 .. current - 1

Techpacked ==
    \A t \in DOMAIN merged : \A i \in 1 .. current - 1 :
        /\ Decided(t, techpacks[i])
        /\ i \in merged[t] <=> Within(t, techpacks[i])

Looked ==
    current <= MaxTechpacks => \A t \in DOMAIN merged \ left : Decided(t, techpack)

MergeInv == Inputs /\ Trees /\ (OneExtraId => Techpacked /\ Looked)

-----------------------------------------------------------------------------

\* The parts of a device tree have the shape of the base.
LEMMA ShapedIds ==
    ASSUME NEW t, Shaped(t), NEW d \in Dims, base[d] # Absent
    PROVE  t[d] \in SUBSET Values /\ t[d] # {} /\ t[d] # Absent
BY DEF Shaped, DeviceTreeInfo

LEMMA CommonIds ==
    ASSUME base \in Bases, NEW tp \in Techpacks, NEW d \in Common(tp)
    PROVE  /\ d \in Dims /\ base[d] # Absent /\ tp[d] # Absent
           /\ tp[d] \in SUBSET Values /\ tp[d] # {}
BY DEF Common, DeviceTreeInfo

\* The intersection with a techpack: ids in the common dimensions only.
LEMMA Intersection ==
    ASSUME base \in Bases, NEW tp \in Techpacks, NEW t, Shaped(t), NEW d \in Dims
    PROVE  /\ d \in Common(tp) => /\ And(tp, t)[d] = tp[d] \cap t[d]
                                  /\ And(tp, t)[d] # Absent
           /\ d \notin Common(tp) => And(tp, t)[d] = Absent
<1>1. And(tp, t)[d] = IF Absent \in {tp[d], t[d]} THEN Absent ELSE tp[d] \cap t[d]
  BY DEF And
<1>2. d \in Common(tp) <=> tp[d] # Absent /\ t[d] # Absent
  BY DEF Common, Shaped
<1>3. ASSUME d \in Common(tp)
      PROVE  tp[d] \cap t[d] \in SUBSET Values
  BY <1>3, CommonIds
<1> QED
  BY <1>1, <1>2, <1>3

\* The test of merged_dt_try_add and try_add: the intersection is empty nowhere.
LEMMA OverlapTest ==
    ASSUME base \in Bases, NEW tp \in Techpacks, NEW t, Shaped(t)
    PROVE  Contains(t, And(tp, t)) <=> ~ Apart(t, tp)
<1> DEFINE u == And(tp, t)
<1>1. \A d \in Common(tp) : u[d] = tp[d] \cap t[d] /\ u[d] # Absent /\ d \in Dims
                            /\ t[d] # Absent
  BY Intersection, CommonIds, ShapedIds
<1>2. \A d \in Dims : d \notin Common(tp) => u[d] = Absent
  BY Intersection
<1>3. ASSUME Contains(t, u) PROVE ~ Apart(t, tp)
  <2>1. PICK e \in Dims : u[e] \notin {Absent, {}}
    BY <1>3 DEF Contains, has_any_properties
  <2>2. e \in Common(tp)
    BY <1>2, <2>1
  <2>3. \A d \in Common(tp) : u[d] # {}
    BY <1>1, <1>3 DEF Contains
  <2> QED
    BY <1>1, <2>2, <2>3 DEF Apart
<1>4. ASSUME ~ Apart(t, tp) PROVE Contains(t, u)
  <2>1. \A d \in Common(tp) : u[d] # {}
    BY <1>1, <1>4 DEF Apart
  <2>2. has_any_properties(u)
    BY <1>1, <1>4, <2>1 DEF Apart, has_any_properties
  <2>3. \A d \in Dims : u[d] = Absent \/ (t[d] # Absent /\ u[d] # {} /\ u[d] \subseteq t[d])
    BY <1>1, <1>2, <2>1
  <2> QED
    BY <2>2, <2>3 DEF Contains
<1> QED
  BY <1>3, <1>4

\* What the two kinds of parts are, dimension by dimension.
LEMMA ExactPart ==
    ASSUME base \in Bases, NEW tp \in Techpacks, NEW t, Shaped(t), ~ Apart(t, tp)
    PROVE  LET p == Exact(t, And(tp, t))
           IN  Shaped(p) /\ Narrower(p, t) /\ Within(p, tp)
<1> DEFINE u == And(tp, t)
           p == Exact(t, u)
<1>1. \A d \in Common(tp) : /\ d \in Dims /\ u[d] = tp[d] \cap t[d] /\ u[d] # Absent
                            /\ base[d] # Absent /\ t[d] # Absent
  BY Intersection, CommonIds, ShapedIds
<1>2. \A d \in Dims : d \notin Common(tp) => u[d] = Absent
  BY Intersection
<1>3. \A d \in Dims : p[d] = IF d \in New(t, u) THEN u[d] ELSE t[d]
  BY DEF Exact
<1>4. \A d \in Common(tp) : p[d] = tp[d] \cap t[d]
  BY <1>1, <1>3 DEF New
<1>5. \A d \in Dims : d \notin Common(tp) => p[d] = t[d]
  BY <1>2, <1>3 DEF New
<1>6. \A d \in Common(tp) : p[d] # {}
  BY <1>4 DEF Apart
<1>7. Shaped(p)
  <2>1. p = [d \in Dims |-> p[d]]
    BY DEF Exact
  <2>2. ASSUME NEW d \in Dims
        PROVE  /\ p[d] \in {Absent} \cup ((SUBSET Values) \ {{}})
               /\ p[d] = Absent <=> base[d] = Absent
    <3>1. CASE d \in Common(tp)
      <4>1. p[d] \in SUBSET Values /\ p[d] # {}
        BY <1>4, <1>6, <3>1, CommonIds
      <4> QED
        BY <1>1, <3>1, <4>1
    <3>2. CASE d \notin Common(tp)
      BY <1>5, <3>2 DEF Shaped, DeviceTreeInfo
    <3> QED
      BY <3>1, <3>2
  <2> HIDE DEF p
  <2>3. p \in DeviceTreeInfo
    BY <2>1, <2>2 DEF DeviceTreeInfo
  <2> QED
    BY <2>2, <2>3 DEF Shaped
<1>8. Narrower(p, t)
  BY <1>4, <1>5 DEF Narrower
<1>9. Within(p, tp)
  BY <1>4 DEF Within, Apart
<1> QED
  BY <1>7, <1>8, <1>9

\* The parts without the techpack: t itself only if nothing is new, or if
\* there is a second extra id.
LEMMA OtherPart ==
    ASSUME base \in Bases, NEW tp \in Techpacks, NEW t, Shaped(t), ~ Apart(t, tp),
           NEW k \in Combinations(t, And(tp, t)), New(t, And(tp, t)) # {}
    PROVE  LET p == Without(t, And(tp, t), k)
           IN  Shaped(p) /\ Narrower(p, t) /\ (OneExtraId => Apart(p, tp))
<1> DEFINE u == And(tp, t)
           p == Without(t, u, k)
<1>1. \A d \in Common(tp) : /\ d \in Dims /\ u[d] = tp[d] \cap t[d] /\ u[d] # Absent
                            /\ base[d] # Absent /\ t[d] # Absent /\ t[d] \in SUBSET Values
                            /\ u[d] # {}
  BY Intersection, CommonIds, ShapedIds DEF Apart
<1>2. \A d \in Dims : d \notin Common(tp) => u[d] = Absent
  BY Intersection
<1>3. \A d \in New(t, u) : d \in Common(tp) /\ t[d] # u[d]
  BY <1>2 DEF New
<1>4. \A d \in Dims : p[d] = IF d <= k /\ d \in New(t, u) THEN t[d] \ u[d] ELSE t[d]
  BY DEF Without
<1>5. ASSUME NEW d \in New(t, u)
      PROVE  t[d] \ u[d] \in SUBSET Values /\ t[d] \ u[d] # {}
  <2>1. u[d] \subseteq t[d] /\ u[d] # t[d] /\ t[d] \in SUBSET Values
    BY <1>1, <1>3
  <2> QED
    BY <2>1
<1>6. Shaped(p)
  <2>1. p = [d \in Dims |-> p[d]]
    BY DEF Without
  <2>2. ASSUME NEW d \in Dims
        PROVE  /\ p[d] \in {Absent} \cup ((SUBSET Values) \ {{}})
               /\ p[d] = Absent <=> base[d] = Absent
    <3>1. CASE d <= k /\ d \in New(t, u)
      <4>1. p[d] \in SUBSET Values /\ p[d] # {}
        BY <1>4, <1>5, <3>1
      <4> QED
        BY <1>1, <1>3, <3>1, <4>1
    <3>2. CASE ~ (d <= k /\ d \in New(t, u))
      BY <1>4, <3>2 DEF Shaped, DeviceTreeInfo
    <3> QED
      BY <3>1, <3>2
  <2> HIDE DEF p
  <2>3. p \in DeviceTreeInfo
    BY <2>1, <2>2 DEF DeviceTreeInfo
  <2> QED
    BY <2>2, <2>3 DEF Shaped
<1>7. Narrower(p, t)
  BY <1>4 DEF Narrower
<1>8. ASSUME OneExtraId PROVE Apart(p, tp)
  <2>1. PICK d \in 1 .. k : d \in New(t, u) \/ (d > 3 /\ t[d] # Absent)
    BY DEF Combinations
  <2>2. PICK e \in New(t, u) : e <= k
    <3>1. CASE d \in New(t, u)
      BY <3>1
    <3>2. CASE d > 3 /\ t[d] # Absent
      <4>1. PICK e \in New(t, u) : TRUE
        OBVIOUS
      <4>2. k \in Dims /\ e \in Dims /\ base[e] # Absent
        BY <1>1, <1>3 DEF Combinations
      <4>3. k \in Int /\ d \in Dims /\ d <= k
        BY <4>2 DEF Dims
      <4>4. base[d] # Absent
        BY <3>2, <4>3 DEF Shaped
      <4>5. CASE e > 3
        BY <1>8, <3>2, <4>2, <4>3, <4>4, <4>5 DEF OneExtraId
      <4>6. CASE ~ e > 3
        BY <3>2, <4>2, <4>3, <4>6 DEF Dims
      <4> QED
        BY <4>5, <4>6
    <3> QED
      BY <2>1, <3>1, <3>2
  <2>3. e \in Common(tp) /\ e \in Dims /\ u[e] = tp[e] \cap t[e]
    BY <1>1, <1>3
  <2>4. p[e] = t[e] \ u[e]
    BY <1>4, <2>2, <2>3
  <2>5. p[e] \cap tp[e] = {}
    BY <2>3, <2>4
  <2> QED
    BY <2>3, <2>5 DEF Apart
<1> QED
  BY <1>6, <1>7, <1>8

\* A device tree that is not split is the techpack's already.
LEMMA NothingNew ==
    ASSUME base \in Bases, NEW tp \in Techpacks, NEW t, Shaped(t), ~ Apart(t, tp),
           Sub(t, And(tp, t)) = {Exact(t, And(tp, t))}
    PROVE  Within(t, tp)
<1> DEFINE u == And(tp, t)
<1>1. \A d \in Common(tp) : /\ d \in Dims /\ u[d] = tp[d] \cap t[d] /\ u[d] # Absent
                            /\ u[d] # {}
  BY Intersection, CommonIds DEF Apart
<1>2. ASSUME NEW e \in New(t, u) PROVE FALSE
  <2>1. e \in Dims /\ e \in 1 .. e
    BY DEF New, Dims
  <2>2. e \in Combinations(t, u)
    BY <2>1 DEF Combinations
  <2>3. Without(t, u, e) = Exact(t, u)
    BY <2>2 DEF Sub
  <2>4. Without(t, u, e)[e] = t[e] \ u[e]
    BY <2>1 DEF Without, Dims
  <2>5. Exact(t, u)[e] = u[e]
    BY <2>1 DEF Exact
  <2>6. e \in Common(tp)
    BY <2>1, Intersection DEF New
  <2> QED
    BY <1>1, <2>3, <2>4, <2>5, <2>6
<1>3. \A d \in Common(tp) : t[d] = tp[d] \cap t[d]
  BY <1>1, <1>2 DEF New
<1> QED
  BY <1>3 DEF Within, Apart

\* Every part that a split replaces t by.
LEMMA Parts ==
    ASSUME base \in Bases, NEW tp \in Techpacks, NEW t, Shaped(t), ~ Apart(t, tp),
           NEW p \in Sub(t, And(tp, t)), Sub(t, And(tp, t)) # {Exact(t, And(tp, t))}
    PROVE  Shaped(p) /\ Narrower(p, t) /\ (OneExtraId => Decided(p, tp))
<1> DEFINE u == And(tp, t)
<1>1. CASE p = Exact(t, u)
  BY <1>1, ExactPart DEF Decided
<1>2. CASE p # Exact(t, u)
  <2>1. PICK k \in Combinations(t, u) : p = Without(t, u, k)
    BY <1>2 DEF Sub
  <2>2. CASE New(t, u) # {}
    BY <2>1, <2>2, OtherPart DEF Decided
  <2>3. CASE New(t, u) = {}
    <3>1. Without(t, u, k) = Exact(t, u)
      BY <2>3 DEF Without, Exact
    <3> QED
      BY <1>2, <2>1, <3>1
  <2> QED
    BY <2>2, <2>3
<1> QED
  BY <1>1, <1>2

\* What has been decided of a device tree stays so for its parts.
LEMMA NarrowerDecided ==
    ASSUME base \in Bases, NEW tp \in Techpacks, NEW t, Shaped(t), NEW p, Narrower(p, t)
    PROVE  /\ Within(t, tp) => Within(p, tp)
           /\ Apart(t, tp) => Apart(p, tp)
<1>1. \A d \in Common(tp) : p[d] \subseteq t[d]
  BY CommonIds DEF Narrower
<1> QED
  BY <1>1 DEF Within, Apart

\* No device tree is both.
LEMMA NotBoth ==
    ASSUME base \in Bases, NEW tp \in Techpacks, NEW t, Shaped(t)
    PROVE  ~ (Within(t, tp) /\ Apart(t, tp))
<1>1. \A d \in Common(tp) : t[d] # {}
  BY CommonIds, ShapedIds
<1> QED
  BY <1>1 DEF Within, Apart

-----------------------------------------------------------------------------

LEMMA MergeInit == Init => MergeInv
<1> SUFFICES ASSUME Init PROVE MergeInv
  OBVIOUS
<1>1. Inputs
  BY DEF Init, Inputs
<1>2. base \in DeviceTreeInfo
  BY DEF Init
<1>3. Trees
  BY <1>2 DEF Init, Trees, Shaped
<1>4. Techpacked /\ Looked
  BY DEF Init, Techpacked, Looked
<1> QED
  BY <1>1, <1>3, <1>4 DEF MergeInv

LEMMA SplitStep == ASSUME MergeInv, NEW t \in left, Split(t) PROVE MergeInv'
<1> DEFINE tp == techpack
           u == And(tp, t)
<1>1. /\ base' = base /\ techpacks' = techpacks /\ current' = current
      /\ current <= MaxTechpacks /\ left' = left \ {t}
  BY DEF Split
<1>2. base \in Bases /\ current \in 1 .. MaxTechpacks /\ tp \in Techpacks
  BY <1>1 DEF MergeInv, Inputs, techpack
<1>3. \A i \in 1 .. current - 1 : techpacks[i] \in Techpacks
  BY <1>2 DEF MergeInv, Inputs
<1>4. Shaped(t) /\ t \in DOMAIN merged
  BY DEF MergeInv, Trees
<1>5. /\ \A p : Shaped(p)' <=> Shaped(p)
      /\ \A p, q : (Within(p, q)' <=> Within(p, q)) /\ (Decided(p, q)' <=> Decided(p, q))
      /\ OneExtraId' <=> OneExtraId
      /\ techpack' = techpack
  BY <1>1 DEF Shaped, Within, Apart, Decided, Common, OneExtraId, techpack
<1>6. Inputs'
  BY <1>1 DEF MergeInv, Inputs
<1>7. CASE ~ (Contains(t, u) /\ Sub(t, u) # {Exact(t, u)})
  <2>1. merged' = merged
    BY <1>7 DEF Split
  <2>2. Decided(t, tp)
    BY <1>2, <1>4, <1>7, OverlapTest, NothingNew DEF Decided
  <2>3. Trees'
    BY <1>1, <1>5, <2>1 DEF MergeInv, Trees
  <2>4. OneExtraId => Techpacked'
    BY <1>1, <1>5, <2>1 DEF MergeInv, Techpacked
  <2>5. OneExtraId => Looked'
    BY <1>1, <1>5, <2>1, <2>2 DEF MergeInv, Looked
  <2> QED
    BY <1>5, <1>6, <2>3, <2>4, <2>5 DEF MergeInv
<1>8. CASE Contains(t, u) /\ Sub(t, u) # {Exact(t, u)}
  <2> DEFINE others == DOMAIN merged \ {t}
             parts == Sub(t, u)
  <2>1. merged' = [p \in others \cup parts |-> IF p \in others THEN merged[p] ELSE merged[t]]
    BY <1>8 DEF Split, Replace
  <2>2. \A p \in parts : Shaped(p) /\ Narrower(p, t) /\ (OneExtraId => Decided(p, tp))
    BY <1>2, <1>4, <1>8, OverlapTest, Parts
  <2> HIDE DEF parts
  <2>3. DOMAIN merged' = others \cup parts
    BY <2>1
  <2>4. \A p \in others : p \in DOMAIN merged /\ merged'[p] = merged[p]
    BY <2>1
  <2>5. \A p \in parts : p \notin others => merged'[p] = merged[t]
    BY <2>1
  <2>6. Trees'
    <3>1. \A p \in DOMAIN merged' : Shaped(p)
      BY <2>2, <2>3, <2>4 DEF MergeInv, Trees
    <3>2. left' \subseteq DOMAIN merged'
      BY <1>1, <2>3 DEF MergeInv, Trees
    <3>3. \A p \in DOMAIN merged' : merged'[p] \subseteq 1 .. current - 1
      BY <1>4, <2>3, <2>4, <2>5 DEF MergeInv, Trees
    <3> QED
      BY <1>1, <1>5, <3>1, <3>2, <3>3 DEF Trees
  <2>7. ASSUME OneExtraId PROVE Techpacked'
    <3>1. ASSUME NEW p \in DOMAIN merged', NEW i \in 1 .. current - 1
          PROVE  /\ Decided(p, techpacks[i])
                 /\ i \in merged'[p] <=> Within(p, techpacks[i])
      <4>1. CASE p \in others
        BY <2>4, <2>7, <4>1 DEF MergeInv, Techpacked
      <4>2. CASE p \notin others
        <5>1. p \in parts /\ merged'[p] = merged[t] /\ Shaped(p) /\ Narrower(p, t)
          BY <2>2, <2>3, <2>5, <4>2
        <5>2. Decided(t, techpacks[i]) /\ (i \in merged[t] <=> Within(t, techpacks[i]))
          BY <1>4, <2>7 DEF MergeInv, Techpacked
        <5>3. /\ Within(t, techpacks[i]) => Within(p, techpacks[i])
              /\ Apart(t, techpacks[i]) => Apart(p, techpacks[i])
          BY <1>2, <1>3, <1>4, <5>1, NarrowerDecided
        <5>4. ~ (Within(p, techpacks[i]) /\ Apart(p, techpacks[i]))
          BY <1>2, <1>3, <5>1, NotBoth
        <5> QED
          BY <5>1, <5>2, <5>3, <5>4 DEF Decided
      <4> QED
        BY <4>1, <4>2
    <3> QED
      BY <1>1, <1>5, <3>1 DEF Techpacked
  <2>8. ASSUME OneExtraId PROVE Looked'
    <3>1. ASSUME NEW p \in DOMAIN merged' \ left' PROVE Decided(p, tp)
      <4>1. CASE p \in parts
        BY <2>2, <2>8, <4>1
      <4>2. CASE p \notin parts
        BY <1>1, <2>3, <2>8, <4>2 DEF MergeInv, Looked
      <4> QED
        BY <4>1, <4>2
    <3> QED
      BY <1>5, <3>1 DEF Looked
  <2> QED
    BY <1>5, <1>6, <2>6, <2>7, <2>8 DEF MergeInv
<1> QED
  BY <1>7, <1>8

LEMMA AddStep == ASSUME MergeInv, Add PROVE MergeInv'
<1> DEFINE tp == techpack
<1>1. /\ base' = base /\ techpacks' = techpacks /\ current' = current + 1
      /\ current <= MaxTechpacks /\ left = {}
      /\ merged' = [t \in DOMAIN merged |-> Added(t)] /\ left' = DOMAIN merged
  BY DEF Add
<1>2. base \in Bases /\ current \in 1 .. MaxTechpacks /\ tp \in Techpacks
      /\ tp = techpacks[current]
  BY <1>1 DEF MergeInv, Inputs, techpack
<1>3. /\ \A p : Shaped(p)' <=> Shaped(p)
      /\ \A p, q : (Within(p, q)' <=> Within(p, q)) /\ (Decided(p, q)' <=> Decided(p, q))
      /\ OneExtraId' <=> OneExtraId
  BY <1>1 DEF Shaped, Within, Apart, Decided, Common, OneExtraId
<1>4. Inputs'
  BY <1>1, <1>2 DEF MergeInv, Inputs
<1>5. DOMAIN merged' = DOMAIN merged
  BY <1>1
<1>6. ASSUME NEW t \in DOMAIN merged
      PROVE  merged'[t] = IF Apart(t, tp) THEN merged[t] ELSE merged[t] \cup {current}
  <2>1. Shaped(t)
    BY DEF MergeInv, Trees
  <2>2. merged'[t] = Added(t)
    BY <1>1
  <2> QED
    BY <1>2, <2>1, <2>2, OverlapTest DEF Added
<1>7. Trees'
  <2>1. ASSUME NEW t \in DOMAIN merged PROVE merged'[t] \subseteq 1 .. current
    <3>1. merged[t] \subseteq 1 .. current - 1 /\ current \in 1 .. current
      BY <1>2 DEF MergeInv, Trees
    <3>2. 1 .. current - 1 \subseteq 1 .. current
      BY <1>2
    <3> QED
      BY <1>6, <3>1, <3>2
  <2>2. current' - 1 = current
    BY <1>1, <1>2
  <2> QED
    BY <1>1, <1>3, <1>5, <2>1, <2>2 DEF MergeInv, Trees
<1>8. ASSUME OneExtraId PROVE Techpacked'
  <2>1. ASSUME NEW t \in DOMAIN merged, NEW i \in 1 .. current
        PROVE  /\ Decided(t, techpacks[i])
               /\ i \in merged'[t] <=> Within(t, techpacks[i])
    <3>1. Shaped(t) /\ merged[t] \subseteq 1 .. current - 1
      BY DEF MergeInv, Trees
    <3>2. CASE i = current
      <4>1. Decided(t, tp)
        BY <1>1, <1>8 DEF MergeInv, Looked
      <4>2. current \notin merged[t]
        BY <1>2, <3>1
      <4>3. ~ (Within(t, tp) /\ Apart(t, tp))
        BY <1>2, <3>1, NotBoth
      <4> QED
        BY <1>2, <1>6, <3>2, <4>1, <4>2, <4>3 DEF Decided
    <3>3. CASE i # current
      <4>1. i \in 1 .. current - 1
        BY <1>2, <3>3
      <4>2. Decided(t, techpacks[i]) /\ (i \in merged[t] <=> Within(t, techpacks[i]))
        BY <1>8, <4>1 DEF MergeInv, Techpacked
      <4>3. merged'[t] \in {merged[t], merged[t] \cup {current}}
        BY <1>6, Zenon
      <4>4. i \in merged'[t] <=> i \in merged[t]
        BY <3>3, <4>3
      <4> QED
        BY <4>2, <4>4
    <3> QED
      BY <3>2, <3>3
  <2>2. current' - 1 = current
    BY <1>1, <1>2
  <2> QED
    BY <1>1, <1>3, <1>5, <2>1, <2>2 DEF Techpacked
<1>9. Looked'
  BY <1>1, <1>5 DEF Looked
<1> QED
  BY <1>3, <1>4, <1>7, <1>8, <1>9 DEF MergeInv

LEMMA MergeStutters == ASSUME MergeInv, UNCHANGED vars PROVE MergeInv'
<1>1. /\ \A p : Shaped(p)' <=> Shaped(p)
      /\ \A p, q : (Within(p, q)' <=> Within(p, q)) /\ (Decided(p, q)' <=> Decided(p, q))
      /\ OneExtraId' <=> OneExtraId
      /\ techpack' = techpack
  BY DEF vars, Shaped, Within, Apart, Decided, Common, OneExtraId, techpack
<1>2. Inputs' <=> Inputs
  BY DEF vars, Inputs
<1>3. Trees' <=> Trees
  BY <1>1 DEF vars, Trees
<1>4. Techpacked' <=> Techpacked
  BY <1>1 DEF vars, Techpacked
<1>5. Looked' <=> Looked
  BY <1>1 DEF vars, Looked
<1> QED
  BY <1>1, <1>2, <1>3, <1>4, <1>5 DEF MergeInv

LEMMA MergeInvariant == Spec => []MergeInv
<1>1. Init => MergeInv
  BY MergeInit
<1>2. MergeInv /\ [Next]_vars => MergeInv'
  BY AddStep, SplitStep, MergeStutters DEF Next
<1> QED
  BY <1>1, <1>2, PTL DEF Spec

\* Type correctness, for any base, any techpacks and any number of them: the
\* device trees of a base that has been split have just the base's properties,
\* each with at least one id.
THEOREM MergeTypeCorrect == Spec => []TypeOK
<1>1. MergeInv => TypeOK
  BY DEF MergeInv, Inputs, Trees, TypeOK
<1> QED
  BY <1>1, MergeInvariant, PTL

\* For a base with one extra id at most, any device tree a device can be
\* given has exactly the techpacks merged so far that are for the device.
THEOREM TechpacksOfADevice == Spec => []DevicesGetTheirTechpacks
<1>1. MergeInv => DevicesGetTheirTechpacks
  <2> SUFFICES ASSUME MergeInv, OneExtraId, NEW t \in DOMAIN merged,
                      NEW device \in Devices, Matches(t, device)
               PROVE  merged[t] = {i \in 1 .. current - 1 : IsFor(techpacks[i], device)}
    BY DEF DevicesGetTheirTechpacks
  <2>1. Shaped(t) /\ base \in Bases /\ merged[t] \subseteq 1 .. current - 1
    BY DEF MergeInv, Inputs, Trees
  <2>2. ASSUME NEW i \in 1 .. current - 1
        PROVE  i \in merged[t] <=> IsFor(techpacks[i], device)
    <3>1. techpacks[i] \in Techpacks
      BY DEF MergeInv, Inputs
    <3>2. Decided(t, techpacks[i]) /\ (i \in merged[t] <=> Within(t, techpacks[i]))
      BY DEF MergeInv, Techpacked
    <3>3. \A d \in Common(techpacks[i]) : device[d] \in t[d]
      BY <2>1, <3>1, CommonIds DEF Matches, Shaped
    <3>4. CASE Within(t, techpacks[i])
      BY <3>2, <3>3, <3>4 DEF Within, IsFor
    <3>5. CASE Apart(t, techpacks[i])
      <4>1. ~ IsFor(techpacks[i], device)
        BY <3>3, <3>5 DEF Apart, IsFor
      <4>2. ~ Within(t, techpacks[i])
        BY <2>1, <3>1, <3>5, NotBoth
      <4> QED
        BY <3>2, <4>1, <4>2
    <3> QED
      BY <3>2, <3>4, <3>5 DEF Decided
  <2> QED
    BY <2>1, <2>2
<1> QED
  BY <1>1, MergeInvariant, PTL

-----------------------------------------------------------------------------
(* No device is lost: each device tree is for some of the base's ids, so a *)
(* techpack that narrows one dimension of the base has no more than that   *)
(* one new in it, and the techpack's part and the part without it are all  *)
(* that a device of the tree may need.                                     *)

OneDimension ==
    \A i \in 1 .. current : i <= MaxTechpacks => Cardinality(Narrowed(techpacks[i])) <= 1

OfTheBase == \A t \in DOMAIN merged : Narrower(t, base)

CompleteInv == MergeInv /\ OfTheBase /\ OneDimensionIsComplete

\* Two dimensions that are narrowed are the same one.
LEMMA OneNarrowed ==
    ASSUME NEW tp, Cardinality(Narrowed(tp)) <= 1, NEW d \in Narrowed(tp), NEW e \in Narrowed(tp)
    PROVE  d = e
<1> SUFFICES ASSUME d # e PROVE FALSE
  OBVIOUS
<1>1. IsFiniteSet(Narrowed(tp)) /\ Cardinality(Narrowed(tp)) \in Nat
  <2>1. IsFiniteSet(Dims)
    BY FS_Interval DEF Dims
  <2>2. Narrowed(tp) \subseteq Dims
    BY DEF Narrowed, Common
  <2> QED
    BY <2>1, <2>2, FS_Subset, FS_CardinalityType
<1>2. IsFiniteSet({d}) /\ Cardinality({d}) = 1
  BY FS_Singleton
<1>3. Cardinality({d} \cup {e}) = 2
  BY <1>2, FS_AddElement
<1>4. Cardinality({d} \cup {e}) <= Cardinality(Narrowed(tp))
  BY <1>1, FS_Subset
<1> QED
  BY <1>1, <1>3, <1>4

\* A device of a tree is one of a part: the techpack's, if the device is for
\* it in the dimension that is new, and the one without the techpack if not.
LEMMA PartForDevice ==
    ASSUME base \in Bases, NEW tp \in Techpacks, NEW t, Shaped(t), Narrower(t, base),
           Cardinality(Narrowed(tp)) <= 1, NEW device \in Devices, Matches(t, device)
    PROVE  \E p \in Sub(t, And(tp, t)) : Matches(p, device)
<1> DEFINE u == And(tp, t)
<1>1. \A d \in Common(tp) : /\ d \in Dims /\ u[d] = tp[d] \cap t[d]
                            /\ base[d] # Absent /\ t[d] # Absent
  BY Intersection, CommonIds, ShapedIds
<1>2. \A d \in Dims : d \notin Common(tp) => u[d] = Absent
  BY Intersection
<1>3. \A d \in New(t, u) : d \in Common(tp) /\ d \in Narrowed(tp)
  <2> SUFFICES ASSUME NEW d \in New(t, u) PROVE d \in Common(tp) /\ d \in Narrowed(tp)
    OBVIOUS
  <2>1. d \in Common(tp) /\ t[d] # tp[d] \cap t[d] /\ t[d] \subseteq base[d]
    BY <1>1, <1>2 DEF New, Narrower
  <2>2. ~ base[d] \subseteq tp[d]
    BY <2>1
  <2> QED
    BY <2>1, <2>2 DEF Narrowed
<1>4. \A d \in Dims : t[d] = Absent \/ device[d] \in t[d]
  BY DEF Matches
<1>5. Exact(t, u) \in Sub(t, u)
  BY DEF Sub
<1>6. \A d \in Dims : Exact(t, u)[d] = IF d \in New(t, u) THEN u[d] ELSE t[d]
  BY DEF Exact
<1> HIDE DEF u
<1>7. CASE \A d \in New(t, u) : device[d] \in u[d]
  <2>1. Matches(Exact(t, u), device)
    BY <1>4, <1>6, <1>7 DEF Matches
  <2> QED
    BY <1>5, <2>1 DEF u
<1>8. CASE \E d \in New(t, u) : device[d] \notin u[d]
  <2>1. PICK d \in New(t, u) : device[d] \notin u[d]
    BY <1>8
  <2>2. d \in Dims /\ device[d] \in t[d] \ u[d]
    BY <1>1, <1>3, <1>4, <2>1
  <2>3. \A e \in New(t, u) : e = d
    BY <1>3, OneNarrowed
  <2>4. \A e \in Dims :
          Without(t, u, d)[e] = IF e <= d /\ e \in New(t, u) THEN t[e] \ u[e] ELSE t[e]
    BY DEF Without
  <2>5. Matches(Without(t, u, d), device)
    BY <1>4, <2>2, <2>3, <2>4 DEF Matches
  <2>6. Without(t, u, d) \in Sub(t, u)
    <3>1. d \in 1 .. d
      BY <2>2 DEF Dims
    <3>2. d \in Combinations(t, u)
      BY <2>1, <2>2, <3>1 DEF Combinations
    <3> QED
      BY <3>2 DEF Sub
  <2> QED
    BY <2>5, <2>6 DEF u
<1> QED
  BY <1>7, <1>8

LEMMA SplitComplete == ASSUME CompleteInv, NEW t \in left, Split(t) PROVE CompleteInv'
<1> DEFINE tp == techpack
           u == And(tp, t)
<1>1. /\ base' = base /\ techpacks' = techpacks /\ current' = current
      /\ current <= MaxTechpacks
  BY DEF Split
<1>2. /\ base \in Bases /\ current \in 1 .. MaxTechpacks /\ tp \in Techpacks
      /\ tp = techpacks[current] /\ Shaped(t) /\ t \in DOMAIN merged /\ Narrower(t, base)
  BY <1>1 DEF CompleteInv, OfTheBase, MergeInv, Inputs, Trees, techpack
<1>3. MergeInv'
  BY SplitStep DEF CompleteInv
<1>4. /\ \A p, q : Narrower(p, q)' <=> Narrower(p, q)
      /\ OneDimension' <=> OneDimension
  BY <1>1 DEF Narrower, OneDimension, Narrowed, Common
<1>5. OneDimension => DevicesStaySupported
  BY DEF CompleteInv, OneDimensionIsComplete, OneDimension
<1>6. CASE ~ (Contains(t, u) /\ Sub(t, u) # {Exact(t, u)})
  <2>1. merged' = merged
    BY <1>6 DEF Split
  <2>2. OfTheBase'
    BY <1>1, <1>4, <2>1 DEF CompleteInv, OfTheBase
  <2>3. DevicesStaySupported' <=> DevicesStaySupported
    BY <1>1, <2>1 DEF DevicesStaySupported, Supported
  <2> QED
    BY <1>3, <1>4, <1>5, <2>2, <2>3 DEF CompleteInv, OneDimensionIsComplete, OneDimension
<1>7. CASE Contains(t, u) /\ Sub(t, u) # {Exact(t, u)}
  <2> DEFINE others == DOMAIN merged \ {t}
             parts == Sub(t, u)
  <2>1. DOMAIN merged' = others \cup parts
    BY <1>7 DEF Split, Replace
  <2>2. \A p \in parts : Narrower(p, t)
    BY <1>2, <1>7, OverlapTest, Parts
  <2>3. OneDimension => \A device \in Devices :
            Matches(t, device) => \E p \in parts : Matches(p, device)
    <3>1. OneDimension => Cardinality(Narrowed(tp)) <= 1
      BY <1>2 DEF OneDimension
    <3> QED
      BY <1>2, <3>1, PartForDevice
  <2> HIDE DEF parts
  <2>4. OfTheBase'
    <3>1. \A p \in parts : Narrower(p, base)
      BY <1>2, <2>2 DEF Narrower
    <3>2. \A p \in others : Narrower(p, base)
      BY DEF CompleteInv, OfTheBase
    <3> QED
      BY <1>1, <1>4, <2>1, <3>1, <3>2 DEF OfTheBase
  <2>5. OneDimension => DevicesStaySupported'
    <3> SUFFICES ASSUME OneDimension, NEW device \in Devices, Matches(base, device)
                 PROVE  \E p \in DOMAIN merged' : Matches(p, device)
      BY <1>1 DEF DevicesStaySupported, Supported
    <3>1. PICK q \in DOMAIN merged : Matches(q, device)
      BY <1>5 DEF DevicesStaySupported, Supported
    <3> QED
      BY <2>1, <2>3, <3>1
  <2> QED
    BY <1>3, <1>4, <2>4, <2>5 DEF CompleteInv, OneDimensionIsComplete, OneDimension
<1> QED
  BY <1>6, <1>7

LEMMA AddComplete == ASSUME CompleteInv, Add PROVE CompleteInv'
<1>1. /\ base' = base /\ techpacks' = techpacks /\ current' = current + 1
      /\ DOMAIN merged' = DOMAIN merged
  BY DEF Add
<1>2. MergeInv' /\ current \in Nat
  BY AddStep DEF CompleteInv, MergeInv, Inputs
<1>3. OfTheBase'
  BY <1>1 DEF CompleteInv, OfTheBase, Narrower
<1>4. OneDimension' => OneDimension
  <2>1. \A i \in 1 .. current : i \in 1 .. current'
    BY <1>1, <1>2
  <2>2. \A tp : Narrowed(tp)' = Narrowed(tp)
    BY <1>1 DEF Narrowed, Common
  <2> QED
    BY <1>1, <2>1, <2>2 DEF OneDimension
<1>5. DevicesStaySupported' <=> DevicesStaySupported
  BY <1>1 DEF DevicesStaySupported, Supported
<1> QED
  BY <1>2, <1>3, <1>4, <1>5 DEF CompleteInv, OneDimensionIsComplete, OneDimension

\* "The devices which self matches are still supported (through 1 or more extra
\* devicetrees)": if every techpack narrows one dimension of the base at most,
\* whichever it is, no split loses a device of the base.
THEOREM NoDeviceIsLost == Spec => []OneDimensionIsComplete
<1>1. Init => CompleteInv
  <2> SUFFICES ASSUME Init PROVE CompleteInv
    OBVIOUS
  <2>1. DOMAIN merged = {base}
    BY DEF Init
  <2>2. OfTheBase
    BY <2>1 DEF OfTheBase, Narrower
  <2>3. DevicesStaySupported
    BY <2>1 DEF DevicesStaySupported, Supported
  <2> QED
    BY <2>2, <2>3, MergeInit DEF CompleteInv, OneDimensionIsComplete
<1>2. CompleteInv /\ [Next]_vars => CompleteInv'
  <2> SUFFICES ASSUME CompleteInv, [Next]_vars PROVE CompleteInv'
    OBVIOUS
  <2>1. CASE Add
    BY <2>1, AddComplete
  <2>2. ASSUME NEW t \in left, Split(t) PROVE CompleteInv'
    BY <2>2, SplitComplete
  <2>3. CASE UNCHANGED vars
    <3>1. MergeInv'
      BY <2>3, MergeStutters DEF CompleteInv
    <3>2. OfTheBase'
      BY <2>3 DEF vars, CompleteInv, OfTheBase, Narrower
    <3>3. OneDimensionIsComplete'
      BY <2>3
      DEF vars, CompleteInv, OneDimensionIsComplete, Narrowed, Common,
          DevicesStaySupported, Supported
    <3> QED
      BY <3>1, <3>2, <3>3 DEF CompleteInv
  <2> QED
    BY <2>1, <2>2, <2>3 DEF Next
<1>3. CompleteInv => OneDimensionIsComplete
  BY DEF CompleteInv
<1> QED
  BY <1>1, <1>2, <1>3, PTL DEF Spec
=============================================================================
