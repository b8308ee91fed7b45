------------------------------ MODULE PhysFan ------------------------------
(***************************************************************************)
(* The hardware access of one subsystem (physfan.c), I2C operation by I2C  *)
(* operation: fand_set_fanspeed writes the controls, fand_set_fanleds the  *)
(* LEDs, fand_read_fan_status reads a fan.  Any operation may fail, and    *)
(* fans fail, recover, are pulled and put back between any two operations. *)
(*                                                                         *)
(* Fand calls this once per pass, with the writes of one function as one   *)
(* step; the choice of the speed is modelled there.  The FRUs and fans of  *)
(* a loop are taken in any order.                                          *)
(***************************************************************************)
EXTENDS FanEnum

CONSTANTS
  Board,         \* the subsystem itself, as the owner of a control or LED
  Fru, Fan,      \* fan FRUs, fans
  fruOf,         \* fruOf[f]: the FRU that fan f sits in
  Setting,       \* Setting[s]: the register value of speed s
  Asked,         \* the speeds fand_reconfigure asks for in a run
  Descriptions,  \* h/w descriptions
  Byte,          \* a register holds 0 .. Byte - 1
  IntMax,        \* the highest int
  InitThere,     \* sets of FRUs that can be plugged in when the daemon starts
  Conditions,    \* what the tachometer and fault registers of a fan can hold
  MaxChanges,    \* bound on the changes of the fans in a run
  MaxFailures    \* bound on the I2C operations that fail in a run

ControlType == {"SINGLE", "PER_FRU", "PER_FAN", "INVALID"}
Register    == 0 .. Byte - 1
Condition   == [lsb : Register, msb : Register, fault : BOOLEAN]
Int32       == -(IntMax + 1) .. IntMax

\* What a description lists.  control, leds, detect, present and msb are the
\* owners that have such an operation; cut are the fans whose full name does not
\* fit the buffer of get_local_fan, and last the last fan of subsystem_fans.
Description ==
  [type       : ControlType,
   control    : SUBSET (Fru \cup Fan \cup {Board}),
   leds       : SUBSET (Fru \cup {Board}),
   detect     : SUBSET Fru,
   f2b        : BOOLEAN,
   present    : SUBSET Fru,
   msb        : SUBSET Fan,
   multiplier : Int32,
   numerator  : Int32,
   cut        : SUBSET Fan,
   last       : Fan]

ASSUME HardwareAssumption ==
  /\ Fru \cap Fan = {} /\ Board \notin Fru \cup Fan
  /\ fruOf \in [Fan -> Fru]
  /\ Setting \in [Speed -> Nat] /\ Asked \subseteq Speed
  /\ Descriptions \subseteq Description
  /\ Byte \in Nat \ {0} /\ IntMax \in Nat /\ Byte * Byte <= IntMax
  /\ InitThere \subseteq SUBSET Fru /\ Conditions \subseteq Condition
  /\ MaxChanges \in Nat /\ MaxFailures \in Nat

VARIABLES
  hw,        \* the description in use
  \* the daemon's structures
  speed,     \* subsystem->speed
  rec,       \* direction, rpm and status of each struct locl_fan
  \* the daemon
  pc,        \* the function it is in
  todo,      \* what the loop of that function has still to visit
  aggr,      \* aggr_status
  at,        \* {the fan being read} or {}
  lsb,       \* the first byte of its rpm
  \* the hardware
  ctl, led,  \* speed control registers, LEDs
  there,     \* FRUs that are plugged in
  bit,       \* FRUs whose direction bit is set
  cond,      \* what the registers of each fan hold
  \* history
  lost, dark,\* controls and LEDs whose last write failed
  seen,      \* [plugged, fault] of the fan being read since its reading began
  calm,      \* ... has not changed and no read of it failed
  blind,     \* ... the presence was not learnt, the error taken for a result
  \* bounds
  changes, failures

structs == <<speed, rec>>
control == <<pc, todo, aggr, at, lsb>>
panel   == <<ctl, led, lost, dark>>
fans    == <<there, bit, cond>>
history == <<seen, calm, blind>>
vars    == <<hw, structs, control, panel, fans, history, changes, failures>>

Record == [direction : DirectionString, rpm : Int32, status : Status]

Init ==
  /\ hw \in Descriptions
  /\ speed = FAND_SPEED_SLOW
  /\ \E garbage \in Status :
       rec = [f \in Fan |-> [direction |-> "f2b", rpm |-> 0, status |-> garbage]]
  /\ pc = "idle" /\ todo = {} /\ aggr = FAND_STATUS_UNINITIALIZED /\ at = {} /\ lsb = 0
  /\ ctl = [t \in Fru \cup Fan \cup {Board} |-> Setting[FAND_SPEED_SLOW]]
  /\ led = [t \in Fru \cup {Board} |-> "off"]
  /\ there \in InitThere /\ bit = {} /\ cond \in [Fan -> Conditions]
  /\ lost = {} /\ dark = {} /\ seen = {} /\ calm = FALSE /\ blind = FALSE
  /\ changes = 0 /\ failures = 0

Fails   == failures < MaxFailures /\ failures' = failures + 1
Succeeds == failures' = failures

-----------------------------------------------------------------------------
(* fand_set_fanspeed. *)

\* Who may have a control of its own.
Targets ==
  CASE hw.type = "SINGLE"  -> {Board}
    [] hw.type = "PER_FRU" -> Fru
    [] hw.type = "PER_FAN" -> Fan
    [] hw.type = "INVALID" -> {}

\* add_subsystem and fand_reconfigure call it one after the other.
SetFanspeed(s) ==
  /\ pc = "idle" \/ (pc = "speed" /\ todo = {})
  /\ speed' = s
  /\ pc' = "speed" /\ todo' = Targets
  /\ UNCHANGED <<hw, rec, aggr, at, lsb, panel, fans, history, changes, failures>>

\* The result of the write is not looked at.
WriteControl(t) ==
  /\ pc = "speed" /\ t \in todo /\ t \in hw.control
  /\ todo' = todo \ {t}
  /\ \/ Succeeds /\ ctl' = [ctl EXCEPT ![t] = Setting[speed]] /\ lost' = lost \ {t}
     \/ Fails /\ lost' = lost \cup {t} /\ UNCHANGED ctl
  /\ UNCHANGED <<hw, structs, pc, aggr, at, lsb, led, dark, fans, history, changes>>

\* Bug: the first target without a control ends the loop.
AfterMissing_Return(t) == {}

\* What is left of the loop after a target without a control.
AfterMissing(t) == todo \ {t}

SkipControl(t) ==
  /\ pc = "speed" /\ t \in todo /\ t \notin hw.control
  /\ todo' = AfterMissing(t)
  /\ UNCHANGED <<hw, structs, pc, aggr, at, lsb, panel, fans, history, changes, failures>>

-----------------------------------------------------------------------------
(* fand_set_fanleds. *)

Higher(s, t) == IF s > t THEN s ELSE t

\* get_local_fan: the last structure of the table when no name matches.
LocalFan(f) == IF f \in hw.cut THEN hw.last ELSE f

\* The loop over the fans of a FRU.
WorstOf(fs) ==
  LET found == {rec[LocalFan(f)].status : f \in fs} \cup {FAND_STATUS_UNINITIALIZED}
  IN  CHOOSE w \in found : \A s \in found : s <= w

FansIn(u) == {f \in Fan : fruOf[f] = u}

LedValue(status) ==
  CASE status = FAND_STATUS_UNINITIALIZED -> "off"
    [] status = FAND_STATUS_OK            -> "good"
    [] OTHER                              -> "fault"

\* fand_set_led, whose result makes no difference.
WriteLed(t, status) ==
  IF t \in hw.leds
  THEN \/ Succeeds /\ led' = [led EXCEPT ![t] = LedValue(status)] /\ dark' = dark \ {t}
       \/ Fails /\ dark' = dark \cup {t} /\ UNCHANGED led
  ELSE Succeeds /\ UNCHANGED <<led, dark>>

SetFanleds ==
  /\ pc = "speed" /\ todo = {}
  /\ pc' = "leds" /\ todo' = Fru
  /\ UNCHANGED <<hw, structs, aggr, at, lsb, panel, fans, history, changes, failures>>

\* Bug: a FRU without an LED is skipped before it is counted.
AggrAfter_LedsOnly(u) == IF u \in hw.leds THEN Higher(WorstOf(FansIn(u)), aggr) ELSE aggr

AggrAfter(u) == Higher(WorstOf(FansIn(u)), aggr)

FruLed(u) ==
  /\ pc = "leds" /\ u \in todo
  /\ todo' = todo \ {u}
  /\ aggr' = AggrAfter(u)
  /\ WriteLed(u, WorstOf(FansIn(u)))
  /\ UNCHANGED <<hw, structs, pc, at, lsb, ctl, lost, fans, history, changes>>

BoardLed ==
  /\ pc = "leds" /\ todo = {}
  /\ WriteLed(Board, aggr)
  /\ pc' = "lit" /\ aggr' = FAND_STATUS_UNINITIALIZED
  /\ UNCHANGED <<hw, structs, todo, at, lsb, ctl, lost, fans, history, changes>>

-----------------------------------------------------------------------------
(* fand_read_fan_status. *)

\* The status pass, after a reconfiguration or without one.
ReadFans ==
  /\ pc \in {"idle", "lit"}
  /\ pc' = "fans" /\ todo' = Fan
  /\ UNCHANGED <<hw, structs, aggr, at, lsb, panel, fans, history, changes, failures>>

Snapshot(f) == [plugged |-> fruOf[f] \in there, fault |-> cond[f].fault]

Direction(set) == IF set = hw.f2b THEN "f2b" ELSE "b2f"

\* fand_read_direction; a failed read counts as f2b.
ReadDirection(f) ==
  /\ pc = "fans" /\ f \in todo
  /\ todo' = todo \ {f} /\ at' = {f}
  /\ seen' = {Snapshot(f)} /\ blind' = FALSE
  /\ \/ Succeeds /\ calm' = TRUE
        /\ rec' = [rec EXCEPT ![f].direction =
                     IF fruOf[f] \in hw.detect THEN Direction(fruOf[f] \in bit) ELSE "f2b"]
     \/ Fails /\ calm' = FALSE /\ fruOf[f] \in hw.detect
        /\ rec' = [rec EXCEPT ![f].direction = "f2b"]
  /\ pc' = "present"
  /\ UNCHANGED <<hw, speed, aggr, lsb, panel, fans, changes>>

\* fand_read_fan_status returns, and its locals are gone.
Return ==
  /\ pc' = "fans" /\ at' = {} /\ lsb' = 0
  /\ seen' = {} /\ calm' = FALSE /\ blind' = FALSE

\* What fand_read_present makes of the operation: 1 when there is none, 0 after a
\* negative result, and after any other error whatever was on the stack.
ReadPresent(f) ==
  /\ pc = "present" /\ f \in at
  /\ \/ /\ Succeeds /\ UNCHANGED <<calm, blind>>
        /\ fruOf[f] \in hw.present => fruOf[f] \in there
     \/ /\ Fails /\ fruOf[f] \in hw.present
        /\ calm' = FALSE /\ blind' = TRUE
  /\ pc' = "rpm"
  /\ UNCHANGED <<hw, structs, todo, aggr, at, lsb, panel, fans, seen, changes>>

\* The early return.
ReadAbsent(f) ==
  /\ pc = "present" /\ f \in at
  /\ \/ Succeeds /\ fruOf[f] \in hw.present \ there
     \/ Fails /\ fruOf[f] \in hw.present
  /\ rec' = [rec EXCEPT ![f].status = FAND_STATUS_FAULT, ![f].rpm = 0]
  /\ Return
  /\ UNCHANGED <<hw, speed, todo, aggr, panel, fans, changes>>

\* Bug: the most significant byte replaces the other one.
Raw_MsbOnly(low, high) == Byte * high

Raw(low, high) == low + Byte * high

\* Bug: the rpm is kept in an unsigned field.
AsInt_Unsigned(x) == x % (2 * (IntMax + 1))

\* What the int fan->rpm holds: a product that does not fit wraps.
AsInt(x) == ((x + IntMax + 1) % (2 * (IntMax + 1))) - (IntMax + 1)

\* C divides towards 0.
Quotient(n, d) == IF n >= 0 THEN n \div d ELSE -((-n) \div d)

\* The rpm calculation of the description.
Calculated(raw) ==
  IF hw.multiplier # 0 THEN raw * hw.multiplier
  ELSE IF hw.numerator = 0 THEN raw
  ELSE IF raw = 0 THEN 0 ELSE Quotient(hw.numerator, raw)

Rpm(raw) == AsInt(Calculated(raw))

\* fand_read_rpm, the first byte; after a failed read the raw value is 0.
ReadLsb(f) ==
  /\ pc = "rpm" /\ f \in at
  /\ \/ /\ Succeeds /\ UNCHANGED calm
        /\ IF f \in hw.msb
           THEN pc' = "msb" /\ lsb' = cond[f].lsb /\ UNCHANGED rec
           ELSE /\ pc' = "fault" /\ UNCHANGED lsb
                /\ rec' = [rec EXCEPT ![f].rpm = Rpm(Raw(cond[f].lsb, 0))]
     \/ /\ Fails /\ calm' = FALSE
        /\ pc' = "fault" /\ rec' = [rec EXCEPT ![f].rpm = Rpm(0)]
        /\ UNCHANGED lsb
  /\ UNCHANGED <<hw, speed, todo, aggr, at, panel, fans, seen, blind, changes>>

\* ... and the second.
ReadMsb(f) ==
  /\ pc = "msb" /\ f \in at
  /\ \/ /\ Succeeds /\ UNCHANGED calm
        /\ rec' = [rec EXCEPT ![f].rpm = Rpm(Raw(lsb, cond[f].msb))]
     \/ /\ Fails /\ calm' = FALSE
        /\ rec' = [rec EXCEPT ![f].rpm = Rpm(0)]
  /\ pc' = "fault" /\ lsb' = 0
  /\ UNCHANGED <<hw, speed, todo, aggr, at, panel, fans, seen, blind, changes>>

\* Bug: after a failed read the value it was to set decides.
StatusUnread_FromValue == FAND_STATUS_OK

\* fand_read_status after a failed read: 0.
StatusUnread == FAND_STATUS_UNINITIALIZED

ReadFault(f) ==
  /\ pc = "fault" /\ f \in at
  /\ \/ /\ Succeeds
        /\ rec' = [rec EXCEPT ![f].status =
                     IF cond[f].fault THEN FAND_STATUS_FAULT ELSE FAND_STATUS_OK]
     \/ /\ Fails
        /\ rec' = [rec EXCEPT ![f].status = StatusUnread]
  /\ Return
  /\ UNCHANGED <<hw, speed, todo, aggr, panel, fans, changes>>

\* The status pass is over.
PassDone ==
  /\ pc = "fans" /\ todo = {}
  /\ pc' = "idle"
  /\ UNCHANGED <<hw, structs, todo, aggr, at, lsb, panel, fans, history, changes, failures>>

-----------------------------------------------------------------------------
(* The fans. *)

Changes == changes < MaxChanges /\ changes' = changes + 1

\* What the change means for the fan being read.
Noticed ==
  /\ seen' = seen \cup {Snapshot(f)' : f \in at}
  /\ calm' = (calm /\ \A f \in at : UNCHANGED <<Snapshot(f), cond[f], fruOf[f] \in bit>>)
  /\ UNCHANGED blind

Unaffected == UNCHANGED <<hw, structs, control, panel, failures>>

\* A fan turns faster or slower, fails or recovers.
FanChanges(f, c) ==
  /\ Changes /\ cond[f] # c
  /\ cond' = [cond EXCEPT ![f] = c]
  /\ UNCHANGED <<there, bit>> /\ Noticed /\ Unaffected

\* A FRU is pulled, or put in one way or the other.
Pull(u) ==
  /\ Changes /\ u \in there
  /\ there' = there \ {u}
  /\ UNCHANGED <<bit, cond>> /\ Noticed /\ Unaffected

PutIn(u) ==
  /\ Changes /\ u \notin there
  /\ there' = there \cup {u}
  /\ bit' \in {bit \cup {u}, bit \ {u}}
  /\ UNCHANGED cond /\ Noticed /\ Unaffected

-----------------------------------------------------------------------------
Daemon ==
  \/ \E s \in Asked : SetFanspeed(s)
  \/ \E t \in Fru \cup Fan \cup {Board} : WriteControl(t) \/ SkipControl(t)
  \/ SetFanleds \/ (\E u \in Fru : FruLed(u)) \/ BoardLed
  \/ ReadFans
  \/ \E f \in Fan :
       \/ ReadDirection(f) \/ ReadPresent(f) \/ ReadAbsent(f)
       \/ ReadLsb(f) \/ ReadMsb(f) \/ ReadFault(f)
  \/ PassDone

Hardware ==
  \/ \E f \in Fan, c \in Conditions : FanChanges(f, c)
  \/ \E u \in Fru : Pull(u) \/ PutIn(u)

Next == Daemon \/ Hardware

Spec == Init /\ [][Next]_vars

-----------------------------------------------------------------------------
(* Correctness. *)

\* Every variable has its type; an rpm is one that an int can hold.
TypeOK ==
  /\ hw \in Descriptions
  /\ speed \in Speed /\ rec \in [Fan -> Record]
  /\ pc \in {"idle", "speed", "leds", "lit", "fans", "present", "rpm", "msb", "fault"}
  /\ todo \subseteq Fru \cup Fan \cup {Board} /\ aggr \in Status
  /\ at \subseteq Fan /\ lsb \in Register
  /\ ctl \in [Fru \cup Fan \cup {Board} -> Nat]
  /\ led \in [Fru \cup {Board} -> {"off", "good", "fault"}]
  /\ there \subseteq Fru /\ bit \subseteq Fru /\ cond \in [Fan -> Conditions]
  /\ lost \subseteq Fru \cup Fan \cup {Board} /\ dark \subseteq Fru \cup {Board}
  /\ seen \subseteq [plugged : BOOLEAN, fault : BOOLEAN]
  /\ calm \in BOOLEAN /\ blind \in BOOLEAN
  /\ changes \in Nat /\ failures \in Nat

\* Whatever the control type and whichever controls are missing: outside
\* fand_set_fanspeed every control the description lists holds the speed of the
\* record, unless its last write failed.
ControlsFollow ==
  pc # "speed" => \A t \in (Targets \cap hw.control) \ lost : ctl[t] = Setting[speed]

\* What the LED of a set of fans is to show.
Shown(fs) ==
  IF \E f \in fs : rec[f].status = FAND_STATUS_FAULT THEN "fault"
  ELSE IF \E f \in fs : rec[f].status = FAND_STATUS_OK THEN "good" ELSE "off"

\* When fand_set_fanleds is done, each FRU's LED shows the worst of its fans and
\* the aggregate LED the worst of all, the fans of FRUs without an LED included.
LedsShowWorst ==
  pc = "lit" /\ hw.cut = {} =>
    \A t \in hw.leds \ dark : led[t] = Shown(IF t = Board THEN Fan ELSE FansIn(t))

\* The reading of a fan is over.
IsRead(f) == f \in at /\ pc \in {"present", "fault"} /\ pc' = "fans"

\* What a fan that is left alone is.
Actual(f) ==
  LET plugged == fruOf[f] \in hw.present => fruOf[f] \in there
      raw     == cond[f].lsb + (IF f \in hw.msb THEN Byte * cond[f].msb ELSE 0)
  IN  [direction |-> IF fruOf[f] \in hw.detect /\ (fruOf[f] \in bit <=> ~hw.f2b)
                     THEN "b2f" ELSE "f2b",
       rpm       |-> IF plugged THEN Calculated(raw) ELSE 0,
       status    |-> IF plugged /\ ~cond[f].fault THEN FAND_STATUS_OK ELSE FAND_STATUS_FAULT]

\* A fan that does not change while it is read, and of which no read fails, is
\* recorded as it is, its rpm as far as an int can hold it.  (One that does change
\* may be recorded as it never was: rpm is read in two bytes, and the parts of the
\* record one after the other.)
FaithfulRead ==
  [][\A f \in Fan : IsRead(f) /\ calm /\ failures' = failures =>
       LET is == Actual(f)
       IN  /\ rec'[f].direction = is.direction /\ rec'[f].status = is.status
           /\ is.rpm \in Int32 => rec'[f].rpm = is.rpm]_vars

\* However the fan changes and whatever fails while it is read, it is recorded as
\* ok only if it was without fault at some moment of the reading and, where that
\* can be told, plugged in at some moment; unless the error that kept
\* fand_read_present from learning so was not negative.
NeverFalselyOk ==
  [][\A f \in Fan : IsRead(f) /\ rec'[f].status = FAND_STATUS_OK =>
       /\ \E x \in seen : ~x.fault
       /\ fruOf[f] \in hw.present => blind \/ \E x \in seen : x.plugged]_vars
=============================================================================
