--------------------------- MODULE PhysFanProofs ---------------------------
(***************************************************************************)
(* The correctness properties of PhysFan hold for every number of FRUs and *)
(* fans, every description, any number of changes of the fans and of       *)
(* operations that fail.  The inductive invariant says, for each of the    *)
(* three functions, what is true of what its loop has visited.             *)
(***************************************************************************)
EXTENDS PhysFan, TLAPS

-----------------------------------------------------------------------------
(* The operators. *)

\* w is the worst status that get_local_fan finds for the fans fs, or "none".
IsWorst(w, fs) ==
  /\ w \in Status /\ \A f \in fs : rec[LocalFan(f)].status <= w
  /\ w = FAND_STATUS_UNINITIALIZED \/ \E f \in fs : rec[LocalFan(f)].status = w

\* get_local_fan finds a fan of the subsystem.
LEMMA LocalFanFound ==
  ASSUME TypeOK, NEW f \in Fan
  PROVE  LocalFan(f) \in Fan
<1>1. hw.last \in Fan
  BY HardwareAssumption DEF TypeOK, Description
<1> QED
  BY <1>1 DEF LocalFan

\* The loop over the fans of a FRU finds the worst of them (physfan.c:88-100).
LEMMA WorstOfIsWorst ==
  ASSUME TypeOK, NEW fs \in SUBSET Fan
  PROVE  IsWorst(WorstOf(fs), fs)
<1> DEFINE found == {rec[LocalFan(f)].status : f \in fs} \cup {FAND_STATUS_UNINITIALIZED}
<1> USE DEF Status, FAND_STATUS_UNINITIALIZED, FAND_STATUS_FAULT
<1>1. \A f \in fs : rec[LocalFan(f)].status \in Status
  BY LocalFanFound DEF TypeOK, Record
<1>2. found \subseteq 0 .. 2 /\ 0 \in found
  BY <1>1
<1>3. \E w \in found : \A s \in found : s <= w
  <2> HIDE DEF found
  <2>1. CASE 2 \in found  BY <1>2, <2>1
  <2>2. CASE 2 \notin found /\ 1 \in found  BY <1>2, <2>2
  <2>3. CASE 2 \notin found /\ 1 \notin found  BY <1>2, <2>3
  <2> QED
    BY <2>1, <2>2, <2>3
<1>4. WorstOf(fs) \in found /\ \A s \in found : s <= WorstOf(fs)
  BY <1>3 DEF WorstOf
<1> QED
  BY <1>2, <1>4 DEF IsWorst

\* The LED value of the worst status is what the LED is to show, if every full
\* name fits the buffer (physfan.c:55-74).
LEMMA WorstIsShown ==
  ASSUME TypeOK, hw.cut = {}, NEW fs \in SUBSET Fan, NEW w, IsWorst(w, fs)
  PROVE  LedValue(w) = Shown(fs)
<1> USE DEF Status, FAND_STATUS_UNINITIALIZED, FAND_STATUS_OK, FAND_STATUS_FAULT
<1>1. \A f \in fs : LocalFan(f) = f /\ rec[f].status \in Status
  BY DEF LocalFan, TypeOK, Record
<1> QED
  BY <1>1 DEF IsWorst, LedValue, Shown

\* An int holds every number that fits, and an int of any other (physfan.c:435).
LEMMA IntsHold ==
  ASSUME NEW x \in Int
  PROVE  AsInt(x) \in Int32 /\ (x \in Int32 => AsInt(x) = x)
<1>1. IntMax \in Nat
  BY HardwareAssumption
<1> DEFINE m == 2 * (IntMax + 1)
           y == x + IntMax + 1
<1>2. m \in Nat \ {0} /\ y \in Int
  BY <1>1
<1>3. y % m \in 0 .. m - 1 /\ (y \in 0 .. m - 1 => y % m = y)
  <2> HIDE DEF m, y
  <2> QED
    BY <1>2
<1> QED
  BY <1>1, <1>3 DEF AsInt, Int32

\* Two bytes make a number of two bytes, and the rpm made of it is an int for any
\* description (physfan.c:263-273, 435-444).
LEMMA RpmFits ==
  ASSUME TypeOK
  PROVE  /\ \A low, high \in Register : Raw(low, high) \in 0 .. Byte * Byte - 1
         /\ \A low \in Register : Raw(low, 0) = low
         /\ \A raw \in 0 .. Byte * Byte - 1 : Rpm(raw) \in Int32
<1>0. Byte \in Nat \ {0}
  BY HardwareAssumption
<1>1. ASSUME NEW low \in Register, NEW high \in Register
      PROVE  Raw(low, high) \in 0 .. Byte * Byte - 1
  <2>1. low \in Nat /\ high \in Nat /\ low <= Byte - 1 /\ high <= Byte - 1
    BY <1>0 DEF Register
  <2>2. Byte * high \in Nat /\ Byte * high <= Byte * (Byte - 1)
    BY <1>0, <2>1
  <2>3. Byte * (Byte - 1) = Byte * Byte - Byte /\ Byte * Byte \in Nat
    BY <1>0
  <2> QED
    BY <1>0, <2>1, <2>2, <2>3 DEF Raw
<1>2. ASSUME NEW low \in Register
      PROVE  Raw(low, 0) = low
  BY <1>0 DEF Raw, Register
<1>3. ASSUME NEW raw \in 0 .. Byte * Byte - 1
      PROVE  Rpm(raw) \in Int32
  <2>1. raw \in Nat
    BY <1>0
  <2>2. hw.numerator \in Int /\ hw.multiplier \in Int
    BY HardwareAssumption DEF TypeOK, Description, Int32
  <2>3. raw * hw.multiplier \in Int
    BY <2>1, <2>2
  <2>4. raw # 0 => Quotient(hw.numerator, raw) \in Int
    BY <2>1, <2>2 DEF Quotient
  <2>5. Calculated(raw) \in Int
    BY <2>1, <2>3, <2>4 DEF Calculated
  <2> QED
    BY <2>5, IntsHold DEF Rpm
<1> QED
  BY <1>1, <1>2, <1>3

-----------------------------------------------------------------------------
(* Types. *)

\* A fan's structure after one of its fields has been set.
LEMMA RecordTypes ==
  ASSUME TypeOK, NEW f \in Fan
  PROVE  /\ \A d \in DirectionString : [rec EXCEPT ![f].direction = d] \in [Fan -> Record]
         /\ \A n \in Int32 : [rec EXCEPT ![f].rpm = n] \in [Fan -> Record]
         /\ \A s \in Status : [rec EXCEPT ![f].status = s] \in [Fan -> Record]
         /\ [rec EXCEPT ![f].status = FAND_STATUS_FAULT, ![f].rpm = 0] \in [Fan -> Record]
<1>1. rec \in [Fan -> Record] /\ rec[f] \in Record
  BY DEF TypeOK
<1>2. FAND_STATUS_FAULT \in Status /\ 0 \in Int32
  BY HardwareAssumption DEF Int32, Status, FAND_STATUS_FAULT, FAND_STATUS_UNINITIALIZED
<1>3. /\ \A d \in DirectionString : [rec[f] EXCEPT !.direction = d] \in Record
      /\ \A n \in Int32 : [rec[f] EXCEPT !.rpm = n] \in Record
      /\ \A s \in Status : [rec[f] EXCEPT !.status = s] \in Record
      /\ [rec[f] EXCEPT !.status = FAND_STATUS_FAULT, !.rpm = 0] \in Record
  BY <1>1, <1>2 DEF Record
<1> QED
  BY <1>1, <1>3

\* What a fan's registers hold is of the right type.
LEMMA ConditionTypes ==
  ASSUME TypeOK, NEW f \in Fan
  PROVE  /\ cond[f].lsb \in Register /\ cond[f].msb \in Register /\ cond[f].fault \in BOOLEAN
         /\ Snapshot(f) \in [plugged : BOOLEAN, fault : BOOLEAN]
<1>1. cond[f] \in Condition
  BY HardwareAssumption DEF TypeOK
<1> QED
  BY <1>1 DEF Condition, Snapshot

\* The functions that set the hardware keep the types.
LEMMA TypeSet ==
  ASSUME TypeOK,
         \/ \E s \in Asked : SetFanspeed(s)
         \/ \E t \in Fru \cup Fan \cup {Board} : WriteControl(t) \/ SkipControl(t)
         \/ SetFanleds \/ (\E u \in Fru : FruLed(u)) \/ BoardLed
         \/ ReadFans \/ PassDone
  PROVE  TypeOK'
<1> USE DEF structs, panel, fans, history, control, Status, FAND_STATUS_UNINITIALIZED,
            FAND_STATUS_FAULT
<1>1. ASSUME NEW s \in Asked, SetFanspeed(s)
      PROVE  TypeOK'
  <2>1. Targets \subseteq Fru \cup Fan \cup {Board}
    BY HardwareAssumption DEF Targets, TypeOK, Description, ControlType
  <2> QED
    BY <1>1, <2>1, HardwareAssumption DEF SetFanspeed, TypeOK
<1>2. ASSUME NEW t \in Fru \cup Fan \cup {Board}, WriteControl(t)
      PROVE  TypeOK'
  <2>1. Setting[speed] \in Nat
    BY HardwareAssumption DEF TypeOK
  <2>2. ctl' \in [Fru \cup Fan \cup {Board} -> Nat]
    BY <1>2, <2>1 DEF WriteControl, TypeOK
  <2> QED
    BY <1>2, <2>2 DEF WriteControl, TypeOK, Succeeds, Fails
<1>3. ASSUME NEW t \in Fru \cup Fan \cup {Board}, SkipControl(t)
      PROVE  TypeOK'
  BY <1>3 DEF SkipControl, AfterMissing, TypeOK
<1>4. CASE SetFanleds \/ ReadFans \/ PassDone
  BY <1>4 DEF SetFanleds, ReadFans, PassDone, TypeOK
<1>5. ASSUME NEW t \in Fru \cup {Board}, NEW st, WriteLed(t, st)
      PROVE  /\ led' \in [Fru \cup {Board} -> {"off", "good", "fault"}]
             /\ dark' \subseteq Fru \cup {Board} /\ failures' \in Nat
  <2>1. LedValue(st) \in {"off", "good", "fault"}
    BY DEF LedValue
  <2> QED
    BY <1>5, <2>1 DEF WriteLed, TypeOK, Succeeds, Fails
<1>6. ASSUME NEW u \in Fru, FruLed(u)
      PROVE  TypeOK'
  <2>1. AggrAfter(u) \in Status
    BY WorstOfIsWorst DEF AggrAfter, Higher, IsWorst, FansIn, TypeOK
  <2> QED
    BY <1>5, <1>6, <2>1 DEF FruLed, TypeOK
<1>7. CASE BoardLed
  BY <1>5, <1>7 DEF BoardLed, TypeOK
<1> QED
  BY <1>1, <1>2, <1>3, <1>4, <1>6, <1>7

\* An operation that fails is counted.
LEMMA FailuresTypes ==
  ASSUME TypeOK, Succeeds \/ Fails
  PROVE  failures' \in Nat
BY DEF TypeOK, Succeeds, Fails

\* The rest of TypeOK while a fan is read.
ReadTypes ==
  /\ rec \in [Fan -> Record]
  /\ pc \in {"fans", "present", "rpm", "msb", "fault"}
  /\ todo \subseteq Fru \cup Fan \cup {Board} /\ at \subseteq Fan /\ lsb \in Register
  /\ seen \subseteq [plugged : BOOLEAN, fault : BOOLEAN]

\* A step of a reading keeps the types if it keeps those of the reading.
LEMMA TypeReadStep ==
  ASSUME TypeOK, ReadTypes', Succeeds \/ Fails, calm' \in BOOLEAN, blind' \in BOOLEAN,
         UNCHANGED <<hw, speed, aggr, panel, fans, changes>>
  PROVE  TypeOK'
<1>1. failures' \in Nat
  BY FailuresTypes
<1> QED
  BY <1>1 DEF ReadTypes, TypeOK, panel, fans

\* So does fand_read_fan_status.
LEMMA TypeRead ==
  ASSUME TypeOK, NEW f \in Fan
  PROVE  \/ ReadDirection(f) \/ ReadPresent(f) \/ ReadAbsent(f)
         \/ ReadLsb(f) \/ ReadMsb(f) \/ ReadFault(f)
         => TypeOK'
<1>0. Byte \in Nat \ {0} /\ 0 \in Register /\ 0 \in 0 .. Byte * Byte - 1
  <2>1. Byte \in Nat \ {0}
    BY HardwareAssumption
  <2>2. 0 \in Register
    BY <2>1 DEF Register
  <2>3. Raw(0, 0) = 0 /\ Raw(0, 0) \in 0 .. Byte * Byte - 1
    BY <2>2, RpmFits
  <2> QED
    BY <2>1, <2>2, <2>3
<1>1. ASSUME ReadDirection(f)
      PROVE  TypeOK'
  <2>1. "f2b" \in DirectionString /\ \A b : Direction(b) \in DirectionString
    BY DEF Direction, DirectionString
  <2>2. PICK d \in DirectionString : rec' = [rec EXCEPT ![f].direction = d]
    BY <1>1, <2>1 DEF ReadDirection
  <2>3. /\ todo' \subseteq todo /\ at' = {f} /\ seen' = {Snapshot(f)} /\ pc' = "present"
        /\ UNCHANGED <<hw, speed, aggr, lsb, panel, fans, changes>>
        /\ Succeeds \/ Fails
    BY <1>1 DEF ReadDirection
  <2>4. calm' \in BOOLEAN /\ blind' \in BOOLEAN
    BY <1>1 DEF ReadDirection
  <2>5. ReadTypes'
    BY <2>2, <2>3, RecordTypes, ConditionTypes DEF TypeOK, ReadTypes
  <2> QED
    BY <2>3, <2>4, <2>5, TypeReadStep
<1>2. ASSUME ReadPresent(f)
      PROVE  TypeOK'
  <2>1. /\ pc' = "rpm" /\ (Succeeds \/ Fails)
        /\ UNCHANGED <<hw, structs, todo, aggr, at, lsb, panel, fans, seen, changes>>
    BY <1>2 DEF ReadPresent
  <2>2. calm' \in BOOLEAN /\ blind' \in BOOLEAN
    BY <1>2 DEF ReadPresent, TypeOK
  <2>3. ReadTypes' /\ UNCHANGED speed
    BY <2>1 DEF TypeOK, ReadTypes, structs
  <2> QED
    BY <2>1, <2>2, <2>3, TypeReadStep
<1>3. ASSUME NEW row \in [Fan -> Record], rec' = row, Return, Succeeds \/ Fails,
             UNCHANGED <<hw, speed, todo, aggr, panel, fans, changes>>
      PROVE  TypeOK'
  <2>1. ReadTypes' /\ calm' \in BOOLEAN /\ blind' \in BOOLEAN
    BY <1>0, <1>3 DEF Return, TypeOK, ReadTypes
  <2> QED
    BY <1>3, <2>1, TypeReadStep
<1>4. ASSUME ReadAbsent(f)
      PROVE  TypeOK'
  BY <1>3, <1>4, RecordTypes DEF ReadAbsent
<1>5. ASSUME NEW n \in Int32, rec' = [rec EXCEPT ![f].rpm = n] \/ rec' = rec,
             pc' \in {"msb", "fault"}, lsb' \in Register, Succeeds \/ Fails,
             calm' \in BOOLEAN,
             UNCHANGED <<hw, speed, todo, aggr, at, panel, fans, seen, blind, changes>>
      PROVE  TypeOK'
  <2>1. [rec EXCEPT ![f].rpm = n] \in [Fan -> Record] /\ rec \in [Fan -> Record]
    BY RecordTypes DEF TypeOK
  <2>5. rec' \in [Fan -> Record]
    BY <1>5, <2>1
  <2>2. ReadTypes'
    BY <1>5, <2>5 DEF TypeOK, ReadTypes
  <2>3. blind' \in BOOLEAN
    BY <1>5 DEF TypeOK
  <2> QED
    BY <1>5, <2>2, <2>3, TypeReadStep
<1>6. ASSUME ReadLsb(f)
      PROVE  TypeOK'
  <2>1. Rpm(0) \in Int32 /\ Rpm(Raw(cond[f].lsb, 0)) \in Int32
    BY <1>0, RpmFits, ConditionTypes
  <2>2. calm' \in BOOLEAN
    BY <1>6 DEF ReadLsb, TypeOK
  <2>3. PICK n \in Int32 : rec' = [rec EXCEPT ![f].rpm = n] \/ rec' = rec
    BY <1>6, <2>1 DEF ReadLsb
  <2>4. lsb' \in Register
    BY <1>6, ConditionTypes DEF ReadLsb, TypeOK
  <2>5. /\ pc' \in {"msb", "fault"} /\ (Succeeds \/ Fails)
        /\ UNCHANGED <<hw, speed, todo, aggr, at, panel, fans, seen, blind, changes>>
    BY <1>6 DEF ReadLsb
  <2> QED
    BY <1>5, <2>2, <2>3, <2>4, <2>5
<1>7. ASSUME ReadMsb(f)
      PROVE  TypeOK'
  <2>1. lsb \in Register
    BY DEF TypeOK
  <2>2. Rpm(0) \in Int32 /\ Rpm(Raw(lsb, cond[f].msb)) \in Int32
    BY <1>0, <2>1, RpmFits, ConditionTypes
  <2>3. calm' \in BOOLEAN
    BY <1>7 DEF ReadMsb, TypeOK
  <2>4. PICK n \in Int32 : rec' = [rec EXCEPT ![f].rpm = n]
    BY <1>7, <2>2 DEF ReadMsb
  <2>5. /\ pc' = "fault" /\ lsb' = 0 /\ (Succeeds \/ Fails)
        /\ UNCHANGED <<hw, speed, todo, aggr, at, panel, fans, seen, blind, changes>>
    BY <1>7 DEF ReadMsb
  <2> QED
    BY <1>0, <1>5, <2>3, <2>4, <2>5
<1>8. ASSUME ReadFault(f)
      PROVE  TypeOK'
  <2>1. StatusUnread \in Status /\ FAND_STATUS_OK \in Status /\ FAND_STATUS_FAULT \in Status
    BY DEF StatusUnread, Status, FAND_STATUS_UNINITIALIZED, FAND_STATUS_OK, FAND_STATUS_FAULT
  <2>2. PICK st \in Status : rec' = [rec EXCEPT ![f].status = st]
    BY <1>8, <2>1 DEF ReadFault
  <2>3. rec' \in [Fan -> Record]
    BY <2>2, RecordTypes
  <2>4. Return /\ (Succeeds \/ Fails) /\ UNCHANGED <<hw, speed, todo, aggr, panel, fans, changes>>
    BY <1>8 DEF ReadFault
  <2> QED
    BY <1>3, <2>3, <2>4
<1> QED
  BY <1>1, <1>2, <1>4, <1>6, <1>7, <1>8

\* And so do the fans.
LEMMA TypeHardware ==
  ASSUME TypeOK, Hardware
  PROVE  TypeOK'
<1>1. /\ UNCHANGED <<hw, structs, control, panel, failures>> /\ Noticed /\ changes' = changes + 1
      /\ there' \subseteq Fru /\ bit' \subseteq Fru
  BY DEF Hardware, FanChanges, Pull, PutIn, TypeOK, Unaffected, Changes
<1>2. cond' \in [Fan -> Conditions]
  BY DEF Hardware, FanChanges, Pull, PutIn, TypeOK
<1>3. at \subseteq Fan /\ seen' = seen \cup {Snapshot(f)' : f \in at} /\ blind' = blind
  BY <1>1 DEF Noticed, TypeOK
<1>4. calm' \in BOOLEAN /\ blind' \in BOOLEAN
  BY <1>1, <1>3 DEF Noticed, TypeOK
<1>5. \A f \in Fan : Snapshot(f)' \in [plugged : BOOLEAN, fault : BOOLEAN]
  <2>1. \A f \in Fan : cond'[f] \in Condition
    BY <1>2, HardwareAssumption
  <2> QED
    BY <2>1 DEF Snapshot, Condition
<1>6. seen' \subseteq [plugged : BOOLEAN, fault : BOOLEAN]
  BY <1>3, <1>5 DEF TypeOK
<1> QED
  BY <1>1, <1>2, <1>4, <1>6 DEF TypeOK, structs, control, panel

\* Everything starts with its type.
LEMMA TypeInit ==
  ASSUME Init
  PROVE  TypeOK
<1>1. FAND_SPEED_SLOW \in Speed /\ Setting[FAND_SPEED_SLOW] \in Nat
  BY HardwareAssumption DEF Speed, FAND_SPEED_SLOW, FAND_SPEED_MAX
<1>2. 0 \in Register /\ 0 \in Int32
  BY HardwareAssumption DEF Register, Int32
<1>3. FAND_STATUS_UNINITIALIZED \in Status /\ "f2b" \in DirectionString
  BY DEF Status, FAND_STATUS_UNINITIALIZED, FAND_STATUS_FAULT, DirectionString
<1>4. rec \in [Fan -> Record]
  BY <1>2, <1>3 DEF Init, Record
<1>5. calm \in BOOLEAN /\ blind \in BOOLEAN
  BY DEF Init
<1>6. there \subseteq Fru
  BY HardwareAssumption DEF Init
<1> QED
  BY <1>1, <1>2, <1>3, <1>4, <1>5, <1>6 DEF Init, TypeOK

\* Every step keeps the types.
LEMMA TypeStep ==
  ASSUME TypeOK, [Next]_vars
  PROVE  TypeOK'
<1>1. CASE UNCHANGED vars
  BY <1>1 DEF TypeOK, vars, structs, control, panel, fans, history
<1> QED
  BY <1>1, TypeSet, TypeRead, TypeHardware DEF Next, Daemon

\* Every variable keeps its type; in particular an rpm is an int, whatever the
\* description makes of it.
THEOREM PhysTypes == Spec => []TypeOK
BY TypeInit, TypeStep, PTL DEF Spec

-----------------------------------------------------------------------------
(* fand_set_fanspeed. *)

\* What the loop has visited, and everything once it is over, holds the speed of
\* the record.
ControlInv ==
  \A t \in (Targets \cap hw.control) \ lost :
    (pc = "speed" /\ t \in todo) \/ ctl[t] = Setting[speed]

\* The loops of fand_set_fanspeed visit FRUs, fans or the subsystem.
LEMMA TargetsTypes ==
  ASSUME TypeOK
  PROVE  Targets \subseteq Fru \cup Fan \cup {Board}
BY HardwareAssumption DEF Targets, TypeOK, Description, ControlType

\* The functions that do not write controls leave them and the record's speed
\* alone.
LEMMA ControlsKept ==
  ASSUME ControlInv, UNCHANGED <<hw, speed, ctl, lost>>, pc # "speed" \/ todo = {}
  PROVE  ControlInv'
BY DEF ControlInv, Targets

\* Every step keeps the controls done at the speed of the record (physfan.c:122-238).
LEMMA ControlStep ==
  ASSUME TypeOK, ControlInv, [Next]_vars
  PROVE  ControlInv'
<1> USE DEF structs, control, panel, fans, history
<1>1. ASSUME NEW s \in Asked, SetFanspeed(s)
      PROVE  ControlInv'
  BY <1>1 DEF SetFanspeed, ControlInv, Targets
<1>2. ASSUME NEW t \in Fru \cup Fan \cup {Board}, WriteControl(t)
      PROVE  ControlInv'
  <2>1. CASE ctl' = [ctl EXCEPT ![t] = Setting[speed]] /\ lost' = lost \ {t}
    <3>1. ctl'[t] = Setting[speed] /\ \A x \in Targets : x # t => ctl'[x] = ctl[x]
      BY <2>1, TargetsTypes DEF TypeOK
    <3> QED
      BY <1>2, <2>1, <3>1 DEF WriteControl, ControlInv, Targets
  <2>2. CASE lost' = lost \cup {t} /\ UNCHANGED ctl
    BY <1>2, <2>2 DEF WriteControl, ControlInv, Targets
  <2> QED
    BY <1>2, <2>1, <2>2 DEF WriteControl
<1>3. ASSUME NEW t \in Fru \cup Fan \cup {Board}, SkipControl(t)
      PROVE  ControlInv'
  BY <1>3 DEF SkipControl, AfterMissing, ControlInv, Targets
<1>4. CASE SetFanleds \/ ReadFans \/ PassDone
  BY <1>4, ControlsKept DEF SetFanleds, ReadFans, PassDone
<1>5. CASE (\E u \in Fru : FruLed(u)) \/ BoardLed
  BY <1>5, ControlsKept DEF FruLed, BoardLed
<1>6. ASSUME NEW f \in Fan,
             \/ ReadDirection(f) \/ ReadPresent(f) \/ ReadAbsent(f)
             \/ ReadLsb(f) \/ ReadMsb(f) \/ ReadFault(f)
      PROVE  ControlInv'
  <2>1. UNCHANGED <<hw, speed, ctl, lost>> /\ pc # "speed"
    BY <1>6 DEF ReadDirection, ReadPresent, ReadAbsent, ReadLsb, ReadMsb, ReadFault
  <2> QED
    BY <2>1, ControlsKept
<1>7. CASE Hardware \/ UNCHANGED vars
  <2>1. UNCHANGED <<hw, speed, ctl, lost, pc, todo>>
    BY <1>7 DEF Hardware, FanChanges, Pull, PutIn, Unaffected, vars
  <2> QED
    BY <2>1 DEF ControlInv, Targets
<1> QED
  BY <1>1, <1>2, <1>3, <1>4, <1>5, <1>6, <1>7 DEF Next, Daemon

\* Outside fand_set_fanspeed every control the description lists holds the speed
\* of the record, unless its last write failed (physfan.c:122-238).
THEOREM ControlsAreSet == Spec => []ControlsFollow
<1>1. Init => ControlInv
  BY TypeInit, TargetsTypes DEF Init, ControlInv
<1>2. TypeOK /\ ControlInv /\ [Next]_vars => ControlInv'
  BY ControlStep
<1>3. ControlInv => ControlsFollow
  BY DEF ControlInv, ControlsFollow
<1> QED
  BY <1>1, <1>2, <1>3, PhysTypes, PTL DEF Spec

-----------------------------------------------------------------------------
(* fand_set_fanleds. *)

\* An LED shows the worst of the fans fs, unless it is dark.
Shows(t, fs) ==
  t \in hw.leds \ dark => \E w \in Status : IsWorst(w, fs) /\ led[t] = LedValue(w)

\* The fans of the FRUs that the loop has visited.
Visited == {f \in Fan : fruOf[f] \notin todo}

LedInv ==
  /\ pc = "leds" => /\ todo \subseteq Fru
                    /\ IsWorst(aggr, Visited)
                    /\ \A u \in Fru \ todo : Shows(u, FansIn(u))
  /\ pc # "leds" => aggr = FAND_STATUS_UNINITIALIZED
  /\ pc = "lit" => Shows(Board, Fan) /\ \A u \in Fru : Shows(u, FansIn(u))

\* The worst of two sets of fans is the higher of the two worst.
LEMMA WorstOfBoth ==
  ASSUME TypeOK, NEW fs \in SUBSET Fan, NEW gs \in SUBSET Fan, NEW v, NEW w,
         IsWorst(v, fs), IsWorst(w, gs)
  PROVE  IsWorst(Higher(v, w), fs \cup gs)
<1> USE DEF Status, FAND_STATUS_UNINITIALIZED, FAND_STATUS_FAULT
<1>1. \A f \in fs \cup gs : rec[LocalFan(f)].status \in Status
  BY LocalFanFound DEF TypeOK, Record
<1> QED
  BY <1>1 DEF IsWorst, Higher

\* Writing one LED makes it show what is written, and leaves the others alone.
LEMMA LedWritten ==
  ASSUME TypeOK, NEW t \in Fru \cup {Board}, NEW st \in Status, WriteLed(t, st)
  PROVE  /\ t \in hw.leds \ dark' => led'[t] = LedValue(st)
         /\ \A x \in hw.leds : x # t => led'[x] = led[x] /\ (x \in dark' <=> x \in dark)
<1>1. hw.leds \subseteq Fru \cup {Board}
  BY HardwareAssumption DEF TypeOK, Description
<1>2. CASE t \notin hw.leds
  BY <1>2 DEF WriteLed
<1>3. CASE led' = [led EXCEPT ![t] = LedValue(st)] /\ dark' = dark \ {t}
  BY <1>1, <1>3 DEF TypeOK
<1>4. CASE dark' = dark \cup {t} /\ UNCHANGED led
  BY <1>1, <1>4
<1> QED
  BY <1>2, <1>3, <1>4 DEF WriteLed

\* Every step keeps the LEDs done at the worst of their fans (physfan.c:75-120).
LEMMA LedStep ==
  ASSUME TypeOK, LedInv, [Next]_vars
  PROVE  LedInv'
<1> USE DEF structs, control, panel, fans, history
<1>1. ASSUME NEW u \in Fru, FruLed(u)
      PROVE  LedInv'
  <2> DEFINE w == WorstOf(FansIn(u))
  <2>1. /\ UNCHANGED <<hw, rec, pc>> /\ pc = "leds" /\ u \in todo /\ todo' = todo \ {u}
        /\ aggr' = Higher(w, aggr) /\ WriteLed(u, w)
    BY <1>1 DEF FruLed, AggrAfter
  <2>2. IsWorst(w, FansIn(u)) /\ w \in Status
    BY WorstOfIsWorst DEF FansIn, IsWorst
  <2> HIDE DEF w
  <2>3. todo \subseteq Fru /\ IsWorst(aggr, Visited) /\ \A x \in Fru \ todo : Shows(x, FansIn(x))
    BY <2>1 DEF LedInv
  <2>4. Visited \in SUBSET Fan /\ FansIn(u) \in SUBSET Fan /\ Visited' = FansIn(u) \cup Visited
    BY <2>1 DEF Visited, FansIn
  <2>5. IsWorst(aggr', Visited')
    BY <2>1, <2>2, <2>3, <2>4, WorstOfBoth
  <2>6. \A fs, v : IsWorst(v, fs)' <=> IsWorst(v, fs)
    BY <2>1 DEF IsWorst, LocalFan
  <2>7. Shows(u, FansIn(u))'
    <3>1. u \in hw.leds \ dark' => led'[u] = LedValue(w)
      BY <2>1, <2>2, LedWritten
    <3> QED
      BY <2>1, <2>2, <3>1 DEF Shows, IsWorst, LocalFan
  <2>8. ASSUME NEW x \in Fru \ todo
        PROVE  Shows(x, FansIn(x))'
    <3>1. x \in hw.leds => led'[x] = led[x] /\ (x \in dark' <=> x \in dark)
      BY <2>1, <2>2, <2>8, LedWritten
    <3> QED
      BY <2>1, <2>3, <2>8, <3>1 DEF Shows, IsWorst, LocalFan
  <2> QED
    BY <2>1, <2>3, <2>5, <2>7, <2>8 DEF LedInv, IsWorst, LocalFan
<1>2. CASE BoardLed
  <2>1. /\ UNCHANGED <<hw, rec, todo>> /\ pc = "leds" /\ todo = {} /\ pc' = "lit"
        /\ aggr' = FAND_STATUS_UNINITIALIZED /\ WriteLed(Board, aggr)
    BY <1>2 DEF BoardLed
  <2>2. IsWorst(aggr, Fan) /\ aggr \in Status /\ \A x \in Fru : Shows(x, FansIn(x))
    BY <2>1 DEF LedInv, Visited, TypeOK
  <2>3. Shows(Board, Fan)'
    <3>1. Board \in hw.leds \ dark' => led'[Board] = LedValue(aggr)
      BY <2>1, <2>2, LedWritten
    <3> QED
      BY <2>1, <2>2, <3>1 DEF Shows, IsWorst, LocalFan
  <2>4. ASSUME NEW x \in Fru
        PROVE  Shows(x, FansIn(x))'
    <3>1. x \in hw.leds => led'[x] = led[x] /\ (x \in dark' <=> x \in dark)
      BY <2>1, <2>2, LedWritten, HardwareAssumption
    <3> QED
      BY <2>1, <2>2, <3>1 DEF Shows, IsWorst, LocalFan
  <2> QED
    BY <2>1, <2>3, <2>4 DEF LedInv
<1>3. CASE SetFanleds
  <2>1. Visited' = {}
    BY <1>3, HardwareAssumption DEF SetFanleds, Visited
  <2>2. aggr' = FAND_STATUS_UNINITIALIZED /\ pc' = "leds" /\ todo' = Fru
    BY <1>3 DEF SetFanleds, LedInv
  <2>3. IsWorst(aggr, Visited)'
    BY <2>1, <2>2 DEF IsWorst, Status, FAND_STATUS_UNINITIALIZED, FAND_STATUS_FAULT
  <2> QED
    BY <2>2, <2>3 DEF LedInv
<1>4. ASSUME pc # "leds", pc' \notin {"leds", "lit"}, UNCHANGED aggr
      PROVE  LedInv'
  BY <1>4 DEF LedInv
<1>5. CASE \E s \in Asked : SetFanspeed(s)
  BY <1>4, <1>5 DEF SetFanspeed
<1>6. CASE \E t \in Fru \cup Fan \cup {Board} : WriteControl(t) \/ SkipControl(t)
  BY <1>4, <1>6 DEF WriteControl, SkipControl
<1>7. CASE ReadFans \/ PassDone
  BY <1>4, <1>7 DEF ReadFans, PassDone
<1>8. ASSUME NEW f \in Fan,
             \/ ReadDirection(f) \/ ReadPresent(f) \/ ReadAbsent(f)
             \/ ReadLsb(f) \/ ReadMsb(f) \/ ReadFault(f)
      PROVE  LedInv'
  <2>1. pc # "leds" /\ pc' \notin {"leds", "lit"} /\ UNCHANGED aggr
    BY <1>8 DEF ReadDirection, ReadPresent, ReadAbsent, ReadLsb, ReadMsb, ReadFault, Return
  <2> QED
    BY <1>4, <2>1
<1>9. CASE Hardware \/ UNCHANGED vars
  <2>1. UNCHANGED <<hw, rec, pc, todo, aggr, led, dark>>
    BY <1>9 DEF Hardware, FanChanges, Pull, PutIn, Unaffected, vars
  <2> QED
    BY <2>1 DEF LedInv, Shows, Visited, IsWorst, LocalFan, FansIn, LedValue
<1> QED
  BY <1>1, <1>2, <1>3, <1>5, <1>6, <1>7, <1>8, <1>9 DEF Next, Daemon

\* When fand_set_fanleds is done, each LED shows the worst of its fans, and the
\* aggregate LED the worst of all (physfan.c:55-120), if every full name fits the
\* buffer of get_local_fan.
THEOREM LedsAreSet == Spec => []LedsShowWorst
<1>1. Init => LedInv
  BY DEF Init, LedInv
<1>2. TypeOK /\ LedInv /\ [Next]_vars => LedInv'
  BY LedStep
<1>3. TypeOK /\ LedInv => LedsShowWorst
  <2> SUFFICES ASSUME TypeOK, LedInv, pc = "lit", hw.cut = {}, NEW t \in hw.leds \ dark
               PROVE  led[t] = Shown(IF t = Board THEN Fan ELSE FansIn(t))
    BY DEF LedsShowWorst
  <2> DEFINE fs == IF t = Board THEN Fan ELSE FansIn(t)
  <2>1. t \in Fru \cup {Board}
    BY HardwareAssumption DEF TypeOK, Description
  <2>2. PICK w \in Status : IsWorst(w, fs) /\ led[t] = LedValue(w)
    BY <2>1 DEF LedInv, Shows
  <2>3. fs \in SUBSET Fan
    BY DEF FansIn
  <2> QED
    BY <2>2, <2>3, WorstIsShown
<1> QED
  BY <1>1, <1>2, <1>3, PhysTypes, PTL DEF Spec

-----------------------------------------------------------------------------
(* fand_read_fan_status. *)

Reading == {"present", "rpm", "msb", "fault"}

Plugged(f) == fruOf[f] \in hw.present => fruOf[f] \in there

\* What has been learnt of a fan that is left alone is what it is.
Learnt(f) ==
  /\ rec[f].direction = Actual(f).direction
  /\ pc # "present" => Plugged(f)
  /\ pc = "msb" => lsb = cond[f].lsb /\ f \in hw.msb
  /\ pc = "fault" => rec[f].rpm = AsInt(Actual(f).rpm)

\* One fan is read at a time; what it is now is among what it has been; and the
\* reading went on because it was plugged in, or for want of knowing.
ReadInv ==
  pc \in Reading => \A f \in at :
    /\ at = {f} /\ Snapshot(f) \in seen
    /\ pc # "present" /\ fruOf[f] \in hw.present => blind \/ \E x \in seen : x.plugged
    /\ calm => Learnt(f)

\* An operation cannot both fail and not be counted.
LEMMA FailsIsCounted ==
  ASSUME TypeOK, Fails
  PROVE  failures' # failures
BY DEF TypeOK, Fails

\* A fan's structure, field by field, after one of its fields has been set.
LEMMA RecordSet ==
  ASSUME TypeOK, NEW f \in Fan
  PROVE  /\ \A d : [rec EXCEPT ![f].direction = d][f].direction = d
         /\ \A n : /\ [rec EXCEPT ![f].rpm = n][f].rpm = n
                   /\ [rec EXCEPT ![f].rpm = n][f].direction = rec[f].direction
         /\ \A s : [rec EXCEPT ![f].status = s][f] =
                   [direction |-> rec[f].direction, rpm |-> rec[f].rpm, status |-> s]
         /\ [rec EXCEPT ![f].status = FAND_STATUS_FAULT, ![f].rpm = 0][f] =
                   [direction |-> rec[f].direction, rpm |-> 0, status |-> FAND_STATUS_FAULT]
<1>1. rec \in [Fan -> Record] /\ rec[f] \in Record
  BY DEF TypeOK
<1> QED
  BY <1>1 DEF Record

\* Starting a reading.
LEMMA ReadStarts ==
  ASSUME TypeOK, NEW f \in Fan, ReadDirection(f)
  PROVE  ReadInv'
<1>1. at' = {f} /\ seen' = {Snapshot(f)} /\ pc' = "present" /\ UNCHANGED <<hw, there, bit, cond>>
  BY DEF ReadDirection, fans
<1>2. ASSUME calm'
      PROVE  rec'[f].direction = Actual(f).direction
  <2> DEFINE d == IF fruOf[f] \in hw.detect THEN Direction(fruOf[f] \in bit) ELSE "f2b"
  <2>1. rec' = [rec EXCEPT ![f].direction = d]
    BY <1>2 DEF ReadDirection
  <2>2. hw.f2b \in BOOLEAN
    BY HardwareAssumption DEF TypeOK, Description
  <2>3. d = Actual(f).direction
    BY <2>2 DEF Actual, Direction
  <2> HIDE DEF d
  <2>4. rec \in [Fan -> Record] /\ rec'[f].direction = d
    BY <2>1 DEF TypeOK, Record
  <2> QED
    BY <2>3, <2>4
<1>3. Snapshot(f)' = Snapshot(f) /\ Actual(f)' = Actual(f)
  BY <1>1 DEF Snapshot, Actual, Calculated
<1> QED
  BY <1>1, <1>2, <1>3 DEF ReadInv, Learnt

\* Learning whether it is plugged in.
LEMMA ReadGoesOn ==
  ASSUME TypeOK, ReadInv, NEW f \in Fan, ReadPresent(f)
  PROVE  ReadInv'
<1>1. /\ f \in at /\ pc = "present" /\ pc' = "rpm"
      /\ UNCHANGED <<hw, rec, at, there, bit, cond, seen>>
  BY DEF ReadPresent, structs, fans
<1>2. at = {f} /\ Snapshot(f) \in seen /\ (calm => Learnt(f))
  BY <1>1 DEF ReadInv, Reading
<1>3. CASE (fruOf[f] \in hw.present => fruOf[f] \in there) /\ UNCHANGED <<calm, blind>>
  <2>1. fruOf[f] \in hw.present => \E x \in seen : x.plugged
    BY <1>2, <1>3 DEF Snapshot
  <2>2. calm' => Learnt(f)'
    BY <1>1, <1>2, <1>3 DEF Learnt, Plugged, Actual, Calculated
  <2> QED
    BY <1>1, <1>2, <2>1, <2>2 DEF ReadInv, Snapshot
<1>4. CASE calm' = FALSE /\ blind' = TRUE
  BY <1>1, <1>2, <1>4 DEF ReadInv, Snapshot
<1> QED
  BY <1>3, <1>4 DEF ReadPresent

\* Learning the rpm.
LEMMA ReadRpm ==
  ASSUME TypeOK, ReadInv, NEW f \in Fan, ReadLsb(f) \/ ReadMsb(f)
  PROVE  ReadInv'
<1>1. /\ f \in at /\ pc \in {"rpm", "msb"} /\ pc' \in {"msb", "fault"}
      /\ UNCHANGED <<hw, at, there, bit, cond, seen, blind>>
  BY DEF ReadLsb, ReadMsb, fans
<1>2. /\ at = {f} /\ Snapshot(f) \in seen /\ (calm => Learnt(f))
      /\ fruOf[f] \in hw.present => blind \/ \E x \in seen : x.plugged
  BY <1>1 DEF ReadInv, Reading
<1>3. Actual(f)' = Actual(f) /\ Plugged(f)' = Plugged(f) /\ Snapshot(f)' = Snapshot(f)
  BY <1>1 DEF Actual, Plugged, Snapshot, Calculated
<1>4. ASSUME calm'
      PROVE  Learnt(f)'
  <2>1. calm /\ Learnt(f) /\ Plugged(f)
    BY <1>1, <1>2, <1>4 DEF ReadLsb, ReadMsb, Learnt
  <2>2. Plugged(f) => Actual(f).rpm =
          Calculated(cond[f].lsb + (IF f \in hw.msb THEN Byte * cond[f].msb ELSE 0))
    BY DEF Actual, Plugged
  <2>3. CASE ReadLsb(f) /\ f \in hw.msb
    BY <1>1, <1>3, <1>4, <2>1, <2>3 DEF ReadLsb, Learnt
  <2>4. CASE ReadLsb(f) /\ f \notin hw.msb
    <3>1. rec' = [rec EXCEPT ![f].rpm = Rpm(Raw(cond[f].lsb, 0))] /\ pc' = "fault"
      BY <1>4, <2>4 DEF ReadLsb
    <3>2. Raw(cond[f].lsb, 0) = cond[f].lsb /\ cond[f].lsb + 0 = cond[f].lsb
      BY RpmFits, ConditionTypes, HardwareAssumption DEF Register
    <3>3. AsInt(Actual(f).rpm) = Rpm(Raw(cond[f].lsb, 0))
      BY <2>1, <2>2, <2>4, <3>2 DEF Rpm
    <3>4. rec'[f].rpm = AsInt(Actual(f).rpm) /\ rec'[f].direction = rec[f].direction
      BY <3>1, <3>3, RecordSet
    <3> QED
      BY <1>3, <2>1, <3>1, <3>4 DEF Learnt
  <2>5. CASE ReadMsb(f)
    <3>1. rec' = [rec EXCEPT ![f].rpm = Rpm(Raw(lsb, cond[f].msb))] /\ pc' = "fault"
          /\ lsb = cond[f].lsb /\ f \in hw.msb
      BY <1>4, <2>1, <2>5 DEF ReadMsb, Learnt
    <3>2. AsInt(Actual(f).rpm) = Rpm(Raw(lsb, cond[f].msb))
      BY <2>1, <2>2, <3>1 DEF Raw, Rpm
    <3>3. rec'[f].rpm = AsInt(Actual(f).rpm) /\ rec'[f].direction = rec[f].direction
      BY <3>1, <3>2, RecordSet
    <3> QED
      BY <1>3, <2>1, <3>1, <3>3 DEF Learnt
  <2> QED
    BY <2>3, <2>4, <2>5
<1> QED
  BY <1>1, <1>2, <1>3, <1>4 DEF ReadInv

\* Every step keeps what the record and the history of a reading say of each other
\* (physfan.c:419-448).
LEMMA ReadStep ==
  ASSUME TypeOK, ReadInv, [Next]_vars
  PROVE  ReadInv'
<1> USE DEF structs, control, panel, fans, history
<1>1. ASSUME pc' \notin Reading
      PROVE  ReadInv'
  BY <1>1 DEF ReadInv
<1>2. CASE \/ \E s \in Asked : SetFanspeed(s)
           \/ \E t \in Fru \cup Fan \cup {Board} : WriteControl(t) \/ SkipControl(t)
           \/ SetFanleds \/ (\E u \in Fru : FruLed(u)) \/ BoardLed
           \/ ReadFans \/ PassDone
  <2>1. pc' \notin Reading
    BY <1>2 DEF SetFanspeed, WriteControl, SkipControl, SetFanleds, FruLed, BoardLed,
                ReadFans, PassDone, Reading
  <2> QED
    BY <1>1, <2>1
<1>3. CASE \E f \in Fan : ReadAbsent(f) \/ ReadFault(f)
  BY <1>1, <1>3 DEF ReadAbsent, ReadFault, Return, Reading
<1>4. CASE \E f \in Fan : ReadDirection(f) \/ ReadPresent(f) \/ ReadLsb(f) \/ ReadMsb(f)
  BY <1>4, ReadStarts, ReadGoesOn, ReadRpm
<1>5. CASE Hardware
  <2>1. UNCHANGED <<hw, rec, pc, at, lsb>> /\ Noticed
    BY <1>5 DEF Hardware, FanChanges, Pull, PutIn, Unaffected
  <2>2. ASSUME NEW f \in at, calm'
        PROVE  /\ calm /\ UNCHANGED <<cond[f], fruOf[f] \in bit>>
               /\ Snapshot(f)' = Snapshot(f)
    BY <2>1, <2>2 DEF Noticed
  <2>3. ASSUME NEW f \in at, calm', Learnt(f)
        PROVE  Learnt(f)'
    <3>1. UNCHANGED <<cond[f], fruOf[f] \in bit>> /\ (fruOf[f] \in there' <=> fruOf[f] \in there)
      BY <2>2, <2>3 DEF Snapshot
    <3>2. Actual(f)' = Actual(f) /\ Plugged(f)' = Plugged(f)
      BY <2>1, <3>1 DEF Actual, Plugged, Calculated
    <3> QED
      BY <2>1, <2>3, <3>1, <3>2 DEF Learnt
  <2>4. seen \subseteq seen' /\ blind' = blind /\ \A f \in at : Snapshot(f)' \in seen'
    BY <2>1 DEF Noticed
  <2> QED
    BY <2>1, <2>2, <2>3, <2>4 DEF ReadInv
<1>6. CASE UNCHANGED vars
  BY <1>6 DEF vars, ReadInv, Learnt, Plugged, Snapshot, Actual, Calculated
<1> QED
  BY <1>2, <1>3, <1>4, <1>5, <1>6 DEF Next, Daemon

\* A reading ends where there is no fan, or with its fault bit.
LEMMA ReadEnds ==
  ASSUME TypeOK, ReadInv, [Next]_vars, NEW f \in Fan, IsRead(f)
  PROVE  ReadAbsent(f) \/ ReadFault(f)
<1>1. at = {f} /\ pc \in {"present", "fault"} /\ pc' = "fans"
  BY DEF IsRead, ReadInv, Reading
<1>2. \E g \in Fan : ReadAbsent(g) \/ ReadFault(g)
  BY <1>1 DEF Next, Daemon, Hardware, SetFanspeed, WriteControl, SkipControl, SetFanleds,
              FruLed, BoardLed, ReadFans, PassDone, ReadDirection, ReadPresent, ReadLsb,
              ReadMsb, FanChanges, Pull, PutIn, Unaffected, control, vars
<1> QED
  BY <1>1, <1>2 DEF ReadAbsent, ReadFault

\* A fan that does not change while it is read, and of which no read fails, is
\* recorded as it is, its rpm as far as an int can hold it (physfan.c:241-448).
THEOREM ReadsAreFaithful == Spec => FaithfulRead
<1>1. Init => ReadInv
  BY DEF Init, ReadInv, Reading
<1>2. TypeOK /\ ReadInv /\ [Next]_vars => ReadInv'
  BY ReadStep
<1>3. TypeOK /\ ReadInv /\ [Next]_vars =>
        \A f \in Fan : IsRead(f) /\ calm /\ failures' = failures =>
          LET is == Actual(f)
          IN  /\ rec'[f].direction = is.direction /\ rec'[f].status = is.status
              /\ is.rpm \in Int32 => rec'[f].rpm = is.rpm
  <2> SUFFICES ASSUME TypeOK, ReadInv, [Next]_vars, NEW f \in Fan,
                      IsRead(f), calm, failures' = failures
               PROVE  LET is == Actual(f)
                      IN  /\ rec'[f].direction = is.direction /\ rec'[f].status = is.status
                          /\ is.rpm \in Int32 => rec'[f].rpm = is.rpm
    OBVIOUS
  <2>1. Learnt(f) /\ ~Fails
    BY FailsIsCounted DEF IsRead, ReadInv, Reading
  <2>2. CASE ReadAbsent(f)
    <3>1. /\ fruOf[f] \in hw.present \ there
          /\ rec' = [rec EXCEPT ![f].status = FAND_STATUS_FAULT, ![f].rpm = 0]
      BY <2>1, <2>2 DEF ReadAbsent
    <3>2. rec'[f] = [direction |-> rec[f].direction, rpm |-> 0, status |-> FAND_STATUS_FAULT]
      BY <3>1, RecordSet
    <3>3. Actual(f) = [direction |-> Actual(f).direction, rpm |-> 0, status |-> FAND_STATUS_FAULT]
      BY <3>1 DEF Actual
    <3> QED
      BY <2>1, <3>2, <3>3 DEF Learnt
  <2>3. CASE ReadFault(f)
    <3> DEFINE st == IF cond[f].fault THEN FAND_STATUS_FAULT ELSE FAND_STATUS_OK
    <3>1. pc = "fault" /\ rec' = [rec EXCEPT ![f].status = st]
      BY <2>1, <2>3 DEF ReadFault
    <3> HIDE DEF st
    <3>2. rec'[f] = [direction |-> rec[f].direction, rpm |-> rec[f].rpm, status |-> st]
      BY <3>1, RecordSet
    <3>3. /\ Plugged(f) /\ rec[f].direction = Actual(f).direction
          /\ rec[f].rpm = AsInt(Actual(f).rpm)
      BY <2>1, <3>1 DEF Learnt
    <3>4. Actual(f) = [direction |-> Actual(f).direction, rpm |-> Actual(f).rpm, status |-> st]
      BY <3>3 DEF Actual, Plugged, st
    <3>5. Actual(f).rpm \in Int32 => AsInt(Actual(f).rpm) = Actual(f).rpm
      BY IntsHold, HardwareAssumption DEF Int32
    <3> QED
      BY <3>2, <3>3, <3>4, <3>5
  <2> QED
    BY <2>2, <2>3, ReadEnds
<1> QED
  BY <1>1, <1>2, <1>3, PhysTypes, PTL DEF Spec, FaithfulRead

\* However a fan changes and whatever fails while it is read, it is recorded as ok
\* only if it was so at some moment of the reading (physfan.c:399-448).
THEOREM OkIsNeverFalse == Spec => NeverFalselyOk
<1>1. Init => ReadInv
  BY DEF Init, ReadInv, Reading
<1>2. TypeOK /\ ReadInv /\ [Next]_vars => ReadInv'
  BY ReadStep
<1>3. TypeOK /\ ReadInv /\ [Next]_vars =>
        \A f \in Fan : IsRead(f) /\ rec'[f].status = FAND_STATUS_OK =>
          /\ \E x \in seen : ~x.fault
          /\ fruOf[f] \in hw.present => blind \/ \E x \in seen : x.plugged
  <2> SUFFICES ASSUME TypeOK, ReadInv, [Next]_vars, NEW f \in Fan,
                      IsRead(f), rec'[f].status = FAND_STATUS_OK
               PROVE  /\ \E x \in seen : ~x.fault
                      /\ fruOf[f] \in hw.present => blind \/ \E x \in seen : x.plugged
    OBVIOUS
  <2>0. /\ FAND_STATUS_OK # FAND_STATUS_FAULT
        /\ FAND_STATUS_OK # FAND_STATUS_UNINITIALIZED
    BY DEF FAND_STATUS_OK, FAND_STATUS_FAULT, FAND_STATUS_UNINITIALIZED
  <2>1. ASSUME ReadAbsent(f)
        PROVE  FALSE
    <3>1. rec' = [rec EXCEPT ![f].status = FAND_STATUS_FAULT, ![f].rpm = 0]
      BY <2>1 DEF ReadAbsent
    <3>2. rec \in [Fan -> Record] /\ rec'[f].status = FAND_STATUS_FAULT
      BY <3>1 DEF TypeOK, Record
    <3> QED
      BY <2>0, <3>2
  <2>2. ReadFault(f) /\ f \in at /\ pc = "fault"
    BY <2>1, ReadEnds DEF ReadFault
  <2>3. /\ Snapshot(f) \in seen
        /\ fruOf[f] \in hw.present => blind \/ \E x \in seen : x.plugged
    BY <2>2 DEF ReadInv, Reading
  <2>4. ~cond[f].fault
    <3>1. PICK st : /\ rec' = [rec EXCEPT ![f].status = st]
                    /\ \/ st = IF cond[f].fault THEN FAND_STATUS_FAULT ELSE FAND_STATUS_OK
                       \/ st = FAND_STATUS_UNINITIALIZED
      BY <2>2 DEF ReadFault, StatusUnread
    <3>2. rec \in [Fan -> Record] /\ rec'[f].status = st
      BY <3>1 DEF TypeOK, Record
    <3> QED
      BY <2>0, <3>1, <3>2
  <2> QED
    BY <2>3, <2>4 DEF Snapshot
<1> QED
  BY <1>1, <1>2, <1>3, PhysTypes, PTL DEF Spec, NeverFalselyOk
=============================================================================
