------------------------- MODULE ThermalZones_proofs -------------------------
(***************************************************************************)
(* What the readings of the thermal zones are worth, for any number of     *)
(* zones, any types and any contents of the files, however sensors change, *)
(* fail and recover during a call.                                         *)
(***************************************************************************)
EXTENDS ThermalZones, TLAPS

USE ZonesAssumption, ContentsAssumption

(* During a call the history holds what a zone can be read as now.         *)
HeldUpToDate ==
    pc = "scan" => /\ CouldBeReadAs \subseteq held
                   /\ usable \subseteq Usable

(* The loop has left behind no CPU zone that could be read all the time.   *)
NoUsableZonePassed ==
    pc = "scan" /\ what = "cpu" => \A n \in usable : n < z => ~ Matches(n)

ReadingInv == /\ TypeOK
              /\ HeldUpToDate
              /\ NoUsableZonePassed
              /\ ReadingWasHeld
              /\ UsableZoneIsRead

(* A zone that can be read and is not negative has no negative reading.    *)
LEMMA UsableReading ==
    ASSUME TypeOK, NEW n \in Usable
    PROVE  n \in Zones /\ milli[n] # Garbage /\ read_thermal_zone(milli[n]) >= 0
<1>1. n \in Zones /\ milli[n] \in Milli /\ milli[n] \in Int /\ milli[n] >= 0
  BY DEF Usable, TypeOK
<1>2. milli[n] # Garbage /\ milli[n] # Unreadable
  BY DEF Usable
<1>3. read_thermal_zone(milli[n]) >= 0
  BY <1>1, <1>2 DEF read_thermal_zone
<1> QED
  BY <1>1, <1>2, <1>3

LEMMA ReadingTypes ==
    ASSUME TypeOK, NEW n \in Zones, milli[n] # Garbage
    PROVE  /\ read_thermal_zone(milli[n]) \in Temperatures
           /\ <<n, read_thermal_zone(milli[n])>> \in CouldBeReadAs
<1>1. milli[n] = Unreadable \/ milli[n] \in Milli
  BY DEF TypeOK
<1>2. read_thermal_zone(milli[n]) \in Temperatures
  <2>1. CASE milli[n] = Unreadable
    BY <2>1 DEF read_thermal_zone, Temperatures
  <2>2. CASE milli[n] \in Milli
    BY <2>2 DEF Temperatures
  <2> QED
    BY <1>1, <2>1, <2>2
<1> QED
  BY <1>2 DEF CouldBeReadAs

LEMMA HeldTypes == TypeOK => CouldBeReadAs \subseteq Zones \X Temperatures
BY ReadingTypes DEF CouldBeReadAs

LEMMA ReadingInit == Init => ReadingInv
BY DEF Init, ReadingInv, TypeOK, HeldUpToDate, NoUsableZonePassed, ReadingWasHeld,
       UsableZoneIsRead, Temperatures, Sensors

LEMMA CallStep == ReadingInv /\ Call => ReadingInv'
<1> SUFFICES ASSUME ReadingInv, Call PROVE ReadingInv'
  OBVIOUS
<1>1. UNCHANGED sysfs /\ pc' = "scan" /\ z' = 0 /\ result' = -1 /\ what' \in Sensors
      /\ held' = CouldBeReadAs /\ usable' = Usable
  BY DEF Call
<1>2. TypeOK /\ CouldBeReadAs \subseteq Zones \X Temperatures /\ Usable \subseteq Zones
  BY HeldTypes DEF ReadingInv, Usable
<1>3. TypeOK'
  BY <1>1, <1>2 DEF TypeOK, sysfs, Temperatures, Zones
<1>4. HeldUpToDate'
  BY <1>1 DEF HeldUpToDate, CouldBeReadAs, Usable, sysfs
<1>5. NoUsableZonePassed'
  BY <1>1, <1>2 DEF NoUsableZonePassed, Zones
<1>6. ReadingWasHeld' /\ UsableZoneIsRead'
  BY <1>1 DEF ReadingWasHeld, UsableZoneIsRead
<1> QED
  BY <1>3, <1>4, <1>5, <1>6 DEF ReadingInv

(* A step that leaves the files alone, when the loop ends.                 *)
LEMMA EndsTypes ==
    ASSUME ReadingInv, UNCHANGED <<sysfs, what, z, held, usable>>, pc' \in {"done", "dead"},
           result' \in Temperatures
    PROVE  TypeOK' /\ HeldUpToDate' /\ NoUsableZonePassed'
BY DEF ReadingInv, TypeOK, HeldUpToDate, NoUsableZonePassed, sysfs

LEMMA DieStep ==
    ASSUME ReadingInv, Die, UNCHANGED <<sysfs, what, held, usable>>
    PROVE  ReadingInv'
<1>1. pc' = "dead" /\ UNCHANGED <<z, result>> /\ result' \in Temperatures
  BY DEF Die, ReadingInv, TypeOK
<1> QED
  BY <1>1, EndsTypes DEF ReadingInv, ReadingWasHeld, UsableZoneIsRead

LEMMA ReadZoneStep == ReadingInv /\ ReadZone => ReadingInv'
<1> SUFFICES ASSUME ReadingInv, ReadZone PROVE ReadingInv'
  OBVIOUS
<1>1. pc = "scan" /\ MoreZones /\ UNCHANGED <<sysfs, what, held, usable>>
  BY DEF ReadZone
<1>2. TypeOK /\ z \in Zones /\ z \in Int /\ z < Limit /\ z + 1 \in 0 .. Count
  BY <1>1 DEF MoreZones, Zones, ReadingInv, TypeOK
<1>3. CASE NextZone /\ (Matches(z) => what = "cpu" /\ milli[z] # Garbage
                                       /\ read_thermal_zone(milli[z]) < 0)
  <2>1. z' = z + 1 /\ UNCHANGED <<pc, result>>
    BY <1>3 DEF NextZone
  <2>2. TypeOK'
    BY <1>1, <1>2, <2>1 DEF TypeOK, sysfs
  <2>3. HeldUpToDate'
    BY <1>1, <2>1 DEF ReadingInv, HeldUpToDate, CouldBeReadAs, Usable, sysfs
  <2>4. z \in usable => ~ Matches(z)
    <3>1. z \in usable => z \in Usable
      BY <1>1 DEF ReadingInv, HeldUpToDate
    <3>2. z \in usable => read_thermal_zone(milli[z]) >= 0
      BY <1>2, <3>1, UsableReading
    <3>3. \A t \in Temperatures : t \in Int
      BY DEF Temperatures, read_thermal_zone, Tenth
    <3>4. milli[z] # Garbage => read_thermal_zone(milli[z]) \in Int
      BY <1>2, <3>3, ReadingTypes
    <3> QED
      BY <1>3, <3>2, <3>4
  <2>5. NoUsableZonePassed'
    <3> SUFFICES ASSUME what = "cpu", NEW n \in usable, n < z + 1 PROVE ~ Matches(n)
      BY <1>1, <2>1 DEF NoUsableZonePassed, Matches, sysfs
    <3>1. n \in Int /\ (n < z \/ n = z)
      BY <1>2 DEF TypeOK, Zones
    <3> QED
      BY <1>1, <2>4, <3>1 DEF ReadingInv, NoUsableZonePassed
  <2>6. ReadingWasHeld' /\ UsableZoneIsRead'
    BY <1>1, <2>1 DEF ReadingWasHeld, UsableZoneIsRead
  <2> QED
    BY <2>2, <2>3, <2>5, <2>6 DEF ReadingInv
<1>4. CASE Die
  BY <1>1, <1>4, DieStep
<1>5. CASE /\ Matches(z) /\ milli[z] # Garbage
           /\ what = "cpu" => ~ read_thermal_zone(milli[z]) < 0
           /\ Finish(read_thermal_zone(milli[z]))
  <2> DEFINE t == read_thermal_zone(milli[z])
  <2>1. t \in Temperatures /\ <<z, t>> \in held
    BY <1>1, <1>2, <1>5, ReadingTypes DEF ReadingInv, HeldUpToDate
  <2>2. pc' = "done" /\ result' = t /\ UNCHANGED z
    BY <1>5 DEF Finish
  <2>3. \A u \in Temperatures : u \in Int
    BY DEF Temperatures, read_thermal_zone, Tenth
  <2>4. what = "cpu" => t >= 0
    BY <1>5, <2>1, <2>3
  <2>5. ReadingWasHeld'
    BY <1>1, <1>2, <1>5, <2>1, <2>2 DEF ReadingWasHeld, Matches, sysfs
  <2>6. UsableZoneIsRead'
    BY <1>1, <2>2, <2>4 DEF UsableZoneIsRead
  <2> QED
    BY <1>1, <2>1, <2>2, <2>5, <2>6, EndsTypes DEF ReadingInv
<1> QED
  BY <1>3, <1>4, <1>5 DEF ReadZone

(* Where the loop ends no zone beyond its end is reached, and it has       *)
(* passed no usable one.                                                   *)
LEMMA LastResortStep == ReadingInv /\ LastResort => ReadingInv'
<1> SUFFICES ASSUME ReadingInv, LastResort PROVE ReadingInv'
  OBVIOUS
<1>1. pc = "scan" /\ ~ MoreZones /\ UNCHANGED <<sysfs, what, held, usable>>
  BY DEF LastResort
<1>2. TypeOK /\ z \in Int
  BY DEF ReadingInv, TypeOK
<1>3. what = "cpu" => \A n \in usable : ~ (Reached(n) /\ Matches(n))
  <2> SUFFICES ASSUME what = "cpu", NEW n \in usable, Reached(n), Matches(n) PROVE FALSE
    OBVIOUS
  <2>1. n \in Zones /\ n \in Int /\ z >= 0
    BY <1>2 DEF TypeOK, Zones
  <2>2. ~ n < z
    BY <1>1 DEF ReadingInv, NoUsableZonePassed
  <2>3. z \in 0 .. n
    BY <1>2, <2>1, <2>2
  <2>4. z < Limit /\ z < Count /\ type[z] # Unreadable
    BY <1>2, <2>1, <2>3 DEF Reached, Zones
  <2> QED
    BY <1>1, <2>4 DEF MoreZones
<1>4. UsableZoneIsRead'
  BY <1>1, <1>3 DEF UsableZoneIsRead, Reached, Matches, sysfs
<1>5. CASE Die
  BY <1>1, <1>5, DieStep
<1>6. CASE what = "cpu" /\ 0 \in Zones /\ milli[0] # Garbage /\ Finish(read_thermal_zone(milli[0]))
  <2>1. /\ read_thermal_zone(milli[0]) \in Temperatures
        /\ <<0, read_thermal_zone(milli[0])>> \in held
    BY <1>1, <1>2, <1>6, ReadingTypes DEF ReadingInv, HeldUpToDate
  <2>2. pc' = "done" /\ result' = read_thermal_zone(milli[0]) /\ UNCHANGED z
    BY <1>6 DEF Finish
  <2>3. ReadingWasHeld'
    BY <1>1, <1>6, <2>1, <2>2 DEF ReadingWasHeld, Matches, sysfs
  <2> QED
    BY <1>1, <1>4, <2>1, <2>2, <2>3, EndsTypes DEF ReadingInv
<1>7. CASE what = "battery" /\ supply \notin {Unreadable, Garbage} /\ Finish(Tenth(supply))
  <2>1. supply \in Tenths
    BY <1>2, <1>7 DEF TypeOK
  <2>2. pc' = "done" /\ result' = Tenth(supply) /\ UNCHANGED z /\ result' \in Temperatures
    BY <1>7, <2>1 DEF Finish, Temperatures
  <2>3. ReadingWasHeld'
    BY <1>1, <1>7 DEF ReadingWasHeld
  <2> QED
    BY <1>1, <1>4, <2>2, <2>3, EndsTypes DEF ReadingInv
<1>8. CASE Finish(-1)
  <2>1. pc' = "done" /\ result' = -1 /\ UNCHANGED z /\ result' \in Temperatures
    BY <1>8 DEF Finish, Temperatures
  <2>2. ReadingWasHeld'
    BY <2>1 DEF ReadingWasHeld
  <2> QED
    BY <1>1, <1>4, <2>1, <2>2, EndsTypes DEF ReadingInv
<1> QED
  BY <1>5, <1>6, <1>7, <1>8 DEF LastResort

LEMMA ForgetStep == ReadingInv /\ (Return \/ Restart) => ReadingInv'
BY DEF ReadingInv, Return, Restart, Forget, TypeOK, Temperatures, HeldUpToDate,
       NoUsableZonePassed, ReadingWasHeld, UsableZoneIsRead, sysfs, Zones

LEMMA SenseStep == ReadingInv /\ Sense => ReadingInv'
<1> SUFFICES ASSUME ReadingInv, Sense PROVE ReadingInv'
  OBVIOUS
<1>1. UNCHANGED <<type, pc, what, z, result>>
  BY DEF Sense
<1>2. /\ milli' \in [Zones -> Milli \union {Unreadable, Garbage}]
      /\ supply' \in Tenths \union {Unreadable, Garbage}
  BY DEF Sense, ReadingInv, TypeOK
<1>3. CASE pc = "scan"
  <2>1. held' = held \union CouldBeReadAs' /\ usable' = usable \intersect Usable'
    BY <1>3 DEF Sense
  <2>2. CouldBeReadAs' \subseteq Zones \X Temperatures
    <3>1. \A n \in Zones : milli'[n] # Garbage => read_thermal_zone(milli'[n]) \in Temperatures
      <4> TAKE n \in Zones
      <4>1. milli'[n] = Unreadable => read_thermal_zone(milli'[n]) = -1
        BY DEF read_thermal_zone
      <4>2. milli'[n] \in Milli => read_thermal_zone(milli'[n]) \in Temperatures
        BY DEF Temperatures
      <4> QED
        BY <1>2, <4>1, <4>2 DEF Temperatures
    <3> QED
      BY <3>1 DEF CouldBeReadAs
  <2>3. TypeOK'
    BY <1>1, <1>2, <2>1, <2>2 DEF ReadingInv, TypeOK
  <2>4. HeldUpToDate'
    BY <2>1 DEF HeldUpToDate
  <2>5. NoUsableZonePassed'
    BY <1>1, <2>1 DEF ReadingInv, NoUsableZonePassed, Matches
  <2>6. ReadingWasHeld' /\ UsableZoneIsRead'
    BY <1>1, <1>3 DEF ReadingWasHeld, UsableZoneIsRead
  <2> QED
    BY <2>3, <2>4, <2>5, <2>6 DEF ReadingInv
<1>4. CASE pc # "scan"
  <2>1. UNCHANGED <<held, usable>>
    BY <1>4 DEF Sense
  <2> QED
    BY <1>1, <1>2, <1>4, <2>1 DEF ReadingInv, TypeOK, HeldUpToDate, NoUsableZonePassed,
       ReadingWasHeld, UsableZoneIsRead, Reached, Matches
<1> QED
  BY <1>3, <1>4

LEMMA ReadingStep == ReadingInv /\ [Next]_vars => ReadingInv'
<1>1. ASSUME ReadingInv, UNCHANGED vars PROVE ReadingInv'
  BY <1>1 DEF ReadingInv, TypeOK, HeldUpToDate, NoUsableZonePassed, ReadingWasHeld,
              UsableZoneIsRead, CouldBeReadAs, Usable, Reached, Matches, vars, sysfs
<1> QED
  BY <1>1, CallStep, ReadZoneStep, LastResortStep, ForgetStep, SenseStep DEF Next, Read

(* Whatever the files hold, a reading is one their contents can give.      *)
THEOREM ReadingTypeCorrect == Spec => []TypeOK
<1>1. ReadingInv => TypeOK
  BY DEF ReadingInv
<1> QED
  BY <1>1, ReadingInit, ReadingStep, PTL DEF Spec

(* read_cpu_temp and read_gpu_temp return what a zone of the kind, or zone *)
(* 0 for the CPU, could be read as during the call.                        *)
THEOREM ReadingHeld == Spec => []ReadingWasHeld
<1>1. ReadingInv => ReadingWasHeld
  BY DEF ReadingInv
<1> QED
  BY <1>1, ReadingInit, ReadingStep, PTL DEF Spec

(* read_cpu_temp does not fail while a CPU zone it reaches can be read.    *)
THEOREM UsableRead == Spec => []UsableZoneIsRead
<1>1. ReadingInv => UsableZoneIsRead
  BY DEF ReadingInv
<1> QED
  BY <1>1, ReadingInit, ReadingStep, PTL DEF Spec
=============================================================================
