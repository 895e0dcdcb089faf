---------------------------- MODULE ThermalZones ----------------------------
(***************************************************************************)
(* The readings of ThermalMonitor.cpp: read_cpu_temp, read_gpu_temp and    *)
(* read_battery_temp go through the thermal zones of sysfs one file at a   *)
(* time, while temperatures change and sensors fail and recover.           *)
(*                                                                         *)
(* What read_cpu_temp returns is what ScandiumPerfd calls temp.            *)
(***************************************************************************)
EXTENDS Integers

CONSTANTS
    Count,      \* number of thermal zones of the device
    Limit,      \* zones that are looked at; 20 in the code
    Kinds,      \* what the type of a zone says it is
    Milli,      \* contents of a temp file
    Tenths,     \* contents of the battery's temp file under power_supply
    Unreadable, \* a file that is not there or that cannot be read
    Garbage     \* contents that are not a number

ASSUME ZonesAssumption == Count \in Nat /\ Limit \in Nat
ASSUME ContentsAssumption ==
    /\ Milli \subseteq Int /\ Tenths \subseteq Int
    /\ Unreadable \notin Int /\ Garbage \notin Int /\ Unreadable # Garbage
    /\ Unreadable \notin Kinds

Zones == 0 .. Count - 1
Sensors == {"cpu", "gpu", "battery"}

VARIABLES
    type,       \* of each zone; does not change
    milli,      \* contents of each zone's temp file
    supply,     \* contents of /sys/class/power_supply/battery/temp
    pc,         \* where the reading is: "idle", "scan", "done" or "dead"
    what,       \* which of the three functions runs
    z,          \* its loop variable
    result,     \* what it returns
    (* History: since the function was called, *)
    held,       \* <<zone, temperature>>: what the zones could have been read as
    usable      \* zones that could be read, and were not negative, all the time

sysfs == <<type, milli, supply>>
vars  == <<sysfs, pc, what, z, result, held, usable>>

-----------------------------------------------------------------------------

(* read_thermal_zone, of the contents of a temp file that is a number or   *)
(* cannot be read.                                                         *)
read_thermal_zone(contents) ==
    IF contents = Unreadable THEN -1
    ELSE IF contents > 1000 THEN contents \div 1000
    ELSE contents

(* Integer division of C++, which rounds toward zero.                      *)
Tenth(n) == IF n >= 0 THEN n \div 10 ELSE -((-n) \div 10)

CouldBeReadAs == {<<n, read_thermal_zone(milli[n])>> : n \in {m \in Zones : milli[m] # Garbage}}
Usable == {n \in Zones : milli[n] \notin {Unreadable, Garbage} /\ milli[n] >= 0}

(* The test of the type; zone 0 is taken for a CPU whatever its type.      *)
Matches(n) ==
    \/ type[n] = what
    \/ what = "cpu" /\ n = 0

(* std::stoi throws, nothing catches it.                                   *)
Die == pc' = "dead" /\ UNCHANGED <<z, result>>

Finish(temp) == pc' = "done" /\ result' = temp /\ UNCHANGED z

NextZone == z' = z + 1 /\ UNCHANGED <<pc, result>>

MoreZones == z < Limit /\ z < Count /\ type[z] # Unreadable

-----------------------------------------------------------------------------

Call ==
    /\ pc = "idle"
    /\ pc' = "scan" /\ z' = 0 /\ result' = -1
    /\ what' \in Sensors
    /\ held' = CouldBeReadAs /\ usable' = Usable
    /\ UNCHANGED sysfs

(* Mutant: the type is not looked at.                                      *)
ReadZoneAnyType ==
    /\ pc = "scan" /\ MoreZones
    /\ IF milli[z] = Garbage THEN Die
       ELSE Finish(read_thermal_zone(milli[z]))
    /\ UNCHANGED <<sysfs, what, held, usable>>

(* Mutant: millidegrees are returned as they are.                          *)
ReadZoneRaw ==
    /\ pc = "scan" /\ MoreZones
    /\ IF ~ Matches(z) THEN NextZone
       ELSE IF milli[z] = Garbage THEN Die
       ELSE IF what = "cpu" /\ read_thermal_zone(milli[z]) < 0 THEN NextZone
       ELSE Finish(IF milli[z] = Unreadable THEN -1 ELSE milli[z])
    /\ UNCHANGED <<sysfs, what, held, usable>>

(* Mutant: the first CPU zone is the only one.                             *)
ReadZoneFirstOnly ==
    /\ pc = "scan" /\ MoreZones
    /\ IF ~ Matches(z) THEN NextZone
       ELSE IF milli[z] = Garbage THEN Die
       ELSE Finish(read_thermal_zone(milli[z]))
    /\ UNCHANGED <<sysfs, what, held, usable>>

(* One pass of the loop: a CPU zone that cannot be read, or is below zero, *)
(* is passed over; a GPU or battery zone is not.                           *)
ReadZone ==
    /\ pc = "scan" /\ MoreZones
    /\ IF ~ Matches(z) THEN NextZone
       ELSE IF milli[z] = Garbage THEN Die
       ELSE IF what = "cpu" /\ read_thermal_zone(milli[z]) < 0 THEN NextZone
       ELSE Finish(read_thermal_zone(milli[z]))
    /\ UNCHANGED <<sysfs, what, held, usable>>

(* The loop has ended: the CPU's last resort is zone 0, the battery's is   *)
(* the power supply.                                                       *)
LastResort ==
    /\ pc = "scan" /\ ~ MoreZones
    /\ \/ /\ what = "cpu" /\ 0 \in Zones
          /\ IF milli[0] = Garbage THEN Die ELSE Finish(read_thermal_zone(milli[0]))
       \/ /\ what = "battery" /\ supply # Unreadable
          /\ IF supply = Garbage THEN Die ELSE Finish(Tenth(supply))
       \/ /\ \/ what = "gpu"
             \/ what = "cpu" /\ 0 \notin Zones
             \/ what = "battery" /\ supply = Unreadable
          /\ Finish(-1)
    /\ UNCHANGED <<sysfs, what, held, usable>>

Forget == z' = 0 /\ result' = -1 /\ held' = {} /\ usable' = {}

Return ==
    /\ pc = "done"
    /\ pc' = "idle" /\ Forget
    /\ UNCHANGED <<sysfs, what>>

(* A new process after the exception.                                      *)
Restart ==
    /\ pc = "dead"
    /\ pc' = "idle" /\ Forget
    /\ UNCHANGED <<sysfs, what>>

Read == ReadZone \/ LastResort \/ Return

(* A temperature changes, a sensor fails or recovers.                      *)
Sense ==
    /\ \/ \E n \in Zones, contents \in Milli \union {Unreadable, Garbage} :
             milli' = [milli EXCEPT ![n] = contents] /\ UNCHANGED supply
       \/ supply' \in Tenths \union {Unreadable, Garbage} /\ UNCHANGED milli
    /\ IF pc = "scan" THEN /\ held' = held \union CouldBeReadAs'
                           /\ usable' = usable \intersect Usable'
                      ELSE UNCHANGED <<held, usable>>
    /\ UNCHANGED <<type, pc, what, z, result>>

-----------------------------------------------------------------------------

Init ==
    /\ type \in [Zones -> Kinds \union {Unreadable}]
    /\ milli \in [Zones -> Milli \union {Unreadable, Garbage}]
    /\ supply \in Tenths \union {Unreadable, Garbage}
    /\ pc = "idle" /\ what = "cpu" /\ z = 0 /\ result = -1
    /\ held = {} /\ usable = {}

Next == Call \/ Read \/ Restart \/ Sense

Spec == Init /\ [][Next]_vars

-----------------------------------------------------------------------------

Temperatures ==
    {-1} \union {read_thermal_zone(m) : m \in Milli} \union {Tenth(t) : t \in Tenths}

TypeOK ==
    /\ type \in [Zones -> Kinds \union {Unreadable}]
    /\ milli \in [Zones -> Milli \union {Unreadable, Garbage}]
    /\ supply \in Tenths \union {Unreadable, Garbage}
    /\ pc \in {"idle", "scan", "done", "dead"}
    /\ what \in Sensors
    /\ z \in 0 .. Count /\ z <= Limit
    /\ result \in Temperatures
    /\ held \subseteq Zones \X Temperatures
    /\ usable \subseteq Zones

(* A temperature that read_cpu_temp or read_gpu_temp returns is one that a *)
(* zone of the kind, or zone 0 for the CPU, had during the call.           *)
ReadingWasHeld ==
    pc = "done" /\ result >= 0 /\ what # "battery" =>
        \E n \in Zones : Matches(n) /\ <<n, result>> \in held

(* The loop reaches zone n: no type before it is unreadable.               *)
Reached(n) == n < Limit /\ \A m \in 0 .. n : type[m] # Unreadable

(* read_cpu_temp fails only when there is no CPU zone in its reach that    *)
(* can be read all the time: a sensor that fails does not hide the others. *)
UsableZoneIsRead ==
    pc = "done" /\ what = "cpu" /\ (\E n \in usable : Reached(n) /\ Matches(n))
        => result >= 0
=============================================================================
