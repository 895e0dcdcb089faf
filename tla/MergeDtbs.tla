------------------------------ MODULE MergeDtbs ------------------------------
(***************************************************************************)
(* build/tools/merge_dtbs.py: the device trees of techpacks are merged     *)
(* into one base device tree.  A device tree says which devices it is for  *)
(* by ids in several dimensions (msm-id, board-id, pmic-id and the extra   *)
(* ids); a techpack that is for some of the devices only splits the        *)
(* device tree it is added to.  The order in which a Python set is         *)
(* iterated is not specified, and left open here.                          *)
(*                                                                         *)
(* The techpacks of a tree are an append-only list in the code; here they  *)
(* are the set of their numbers, since they are added in that order.       *)
(***************************************************************************)
EXTENDS Integers, FiniteSets

CONSTANTS Extras,       \* how many of the extra ids the device trees use
          Values,       \* the ids there are in any dimension
          Absent,       \* None: the device tree does not have the property
          Bases,        \* the base device trees to consider
          Techpacks,    \* the techpacks to consider
          MaxTechpacks  \* how many techpacks are merged

\* The dimensions: 1 is msm-id (plat), 2 board-id, 3 pmic-id, the rest extra ids.
Dims == 1 .. 3 + Extras

\* What a device tree says of the devices it is for.
DeviceTreeInfo == [Dims -> {Absent} \cup ((SUBSET Values) \ {{}})]

ASSUME MergeDtbsAssumption ==
    /\ Extras \in Nat
    /\ \A ids \in SUBSET Values : ids # Absent
    /\ Bases \subseteq DeviceTreeInfo
    /\ Techpacks \subseteq DeviceTreeInfo
    /\ MaxTechpacks \in Nat

VARIABLES base,       \* the base device tree
          techpacks,  \* the techpacks, in the order they are merged
          current,    \* the number of the techpack being merged
          left,       \* the device trees of the copy that are still to be looked at
          merged      \* merged_devicetrees, with the techpacks of each

vars == <<base, techpacks, current, left, merged>>

has_any_properties(t) == \E d \in Dims : t[d] \notin {Absent, {}}

\* __and__: the devices both are for.
And(t, u) == [d \in Dims |-> IF Absent \in {t[d], u[d]} THEN Absent ELSE t[d] \cap u[d]]

\* __contains__: an absent property of the other applies anywhere, an empty one nowhere.
Contains(t, u) ==
    /\ has_any_properties(u)
    /\ \A d \in Dims : \/ u[d] = Absent
                       \/ t[d] # Absent /\ u[d] # {} /\ u[d] \subseteq t[d]

\* The dimensions in which other is for fewer ids than t.
New(t, u) == {d \in Dims : u[d] # Absent /\ t[d] # u[d]}

\* Mutant: other itself, without the properties other does not have.
ExactIsOther(t, u) == u

\* The device tree that matches other exactly.
Exact(t, u) == [d \in Dims |-> IF d \in New(t, u) THEN u[d] ELSE t[d]]

(***************************************************************************)
(* combinations_with_replacement([True, False], n) gives only the n + 1    *)
(* combinations of some True followed by False: with the first k           *)
(* dimensions True, other is taken off in those.  A combination is passed  *)
(* over when none of its dimensions is new; but an extra id that t has     *)
(* counts whether it is new or not, since the test sees its name, and so t *)
(* itself may come out as one of its parts.                                *)
(***************************************************************************)
Without(t, u, k) == [d \in Dims |-> IF d <= k /\ d \in New(t, u) THEN t[d] \ u[d] ELSE t[d]]

Combinations(t, u) ==
    {k \in Dims : \E d \in 1 .. k : d \in New(t, u) \/ (d > 3 /\ t[d] # Absent)}

\* __sub__: t is split into device trees, one of which matches other exactly.
Sub(t, u) == {Exact(t, u)} \cup {Without(t, u, k) : k \in Combinations(t, u)}

techpack == techpacks[current]

Init ==
    /\ base \in Bases
    /\ techpacks \in [1 .. MaxTechpacks -> Techpacks]
    /\ current = 1
    /\ left = {base}
    /\ merged = [t \in {base} |-> {}]

\* Mutant: the parts take the place of all device trees.
ReplaceAll(t, parts) == [p \in parts |-> merged[t]]

\* Mutant: the device tree that was split stays.
ReplaceKeeps(t, parts) ==
    [p \in DOMAIN merged \cup parts |-> IF p \in DOMAIN merged THEN merged[p] ELSE merged[t]]

\* One round of the first loop: t is replaced by the parts the techpack splits
\* it into, when there is more than one.
Replace(t, parts) ==
    LET others == DOMAIN merged \ {t}
    IN  [p \in others \cup parts |-> IF p \in others THEN merged[p] ELSE merged[t]]

Split(t) ==
    LET intersection == And(techpack, t)
    IN  /\ current <= MaxTechpacks
        /\ t \in left
        /\ left' = left \ {t}
        /\ merged' = IF Contains(t, intersection) /\ Sub(t, intersection) # {Exact(t, intersection)}
                     THEN Replace(t, Sub(t, intersection))
                     ELSE merged
        /\ UNCHANGED <<base, techpacks, current>>

\* try_add on one device tree.
Added(t) == IF Contains(t, And(techpack, t)) THEN merged[t] \cup {current} ELSE merged[t]

\* The second loop, then the first loop over a new copy for the next techpack.
Add ==
    /\ current <= MaxTechpacks
    /\ left = {}
    /\ merged' = [t \in DOMAIN merged |-> Added(t)]
    /\ left' = DOMAIN merged
    /\ current' = current + 1
    /\ UNCHANGED <<base, techpacks>>

Next == Add \/ \E t \in left : Split(t)

Spec == Init /\ [][Next]_vars

-----------------------------------------------------------------------------
(* Properties.  A device has one id in every dimension.                    *)

Devices == [Dims -> Values]

\* The devices a device tree is for.
Matches(t, device) == \A d \in Dims : t[d] = Absent \/ device[d] \in t[d]

\* The dimensions in which both the base and the techpack have ids.
Common(t) == {d \in Dims : base[d] # Absent /\ t[d] # Absent}

\* A techpack is for a device, as far as the base can tell devices apart.
IsFor(t, device) == Common(t) # {} /\ \A d \in Common(t) : device[d] \in t[d]

\* A device tree is for some devices, and says so by just the properties of the base.
Shaped(t) == t \in DeviceTreeInfo /\ \A d \in Dims : t[d] = Absent <=> base[d] = Absent

\* Type correctness: however often a device tree is split, its parts are for
\* some devices, and have neither gained nor lost a property.
TypeOK ==
    /\ base \in Bases
    /\ techpacks \in [1 .. MaxTechpacks -> Techpacks]
    /\ current \in 1 .. MaxTechpacks + 1
    /\ \A t \in DOMAIN merged : Shaped(t)
    /\ left \subseteq DOMAIN merged
    /\ \A t \in DOMAIN merged : merged[t] \subseteq 1 .. current - 1

\* The base has one of the extra ids at most.
OneExtraId ==
    \A d, e \in Dims : d > 3 /\ e > 3 /\ base[d] # Absent /\ base[e] # Absent => d = e

\* Whatever device tree a boot loader picks for a device, it has just the
\* techpacks merged so far that are for that device: none that is for other
\* devices, none missing, and no two device trees that disagree about it,
\* however the techpacks overlap and in whatever order the trees were split.
\* (With two extra ids in the base the filter of _get_permutations, which looks
\* at the ids and not at their values, leaves the tree that was to be split.)
DevicesGetTheirTechpacks ==
    OneExtraId =>
        \A t \in DOMAIN merged, device \in Devices :
            Matches(t, device) =>
                merged[t] = {i \in 1 .. current - 1 : IsFor(techpacks[i], device)}

\* The devices that some device tree is for.
Supported == {device \in Devices : \E t \in DOMAIN merged : Matches(t, device)}

\* __sub__ (merge_dtbs.py:95): "The devices which self matches are still
\* supported (through 1 or more extra devicetrees)".
DevicesStaySupported ==
    \A device \in Devices : Matches(base, device) => device \in Supported

\* The dimensions in which a techpack is for some of the base's ids only.
Narrowed(t) == {d \in Common(t) : ~ base[d] \subseteq t[d]}

\* As long as each techpack narrows a single dimension, whichever it is, and
\* however many of them overlap, no split loses a device of the base.
OneDimensionIsComplete ==
    (\A i \in 1 .. current : i <= MaxTechpacks => Cardinality(Narrowed(techpacks[i])) <= 1)
        => DevicesStaySupported
=============================================================================
