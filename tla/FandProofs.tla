----------------------------- MODULE FandProofs -----------------------------
(***************************************************************************)
(* Proofs about the fan daemon of Fand, for every set of rows, names and   *)
(* fans, every description and any number of changes and failures.         *)
(***************************************************************************)
EXTENDS Fand, TLAPS

-----------------------------------------------------------------------------
(* The conversions and the choice of a speed. *)

\* Whatever the string, the speed it converts to is an enumerator, and a proper
\* one exactly for the strings of the table (fanspeed.c:38).
LEMMA SpeedOfString ==
  ASSUME NEW name
  PROVE  /\ fan_speed_string_to_enum(name) \in SpeedEnum
         /\ name \in SpeedString <=> fan_speed_string_to_enum(name) \in Speed
         /\ name \in SpeedString =>
              fan_speed_enum_to_string(fan_speed_string_to_enum(name)) = name
<1>1. CASE name \in SpeedString
  <2>1. PICK i \in Speed : fanspeed_string[i + 1] = name
    BY <1>1 DEF SpeedString
  <2>2. /\ fan_speed_string_to_enum(name) \in Speed
        /\ fanspeed_string[fan_speed_string_to_enum(name) + 1] = name
    BY <1>1, <2>1 DEF fan_speed_string_to_enum
  <2> QED
    BY <1>1, <2>2 DEF SpeedEnum, fan_speed_enum_to_string
<1>2. CASE name \notin SpeedString
  BY <1>2 DEF fan_speed_string_to_enum, SpeedEnum, Speed, FAND_SPEED_NONE,
              FAND_SPEED_SLOW, FAND_SPEED_MAX
<1> QED
  BY <1>1, <1>2

\* Whatever the enumerator, the string it converts to is in the table, and a
\* proper speed converts back from its string (fanspeed.c:57).
LEMMA StringOfSpeed ==
  ASSUME NEW s
  PROVE  /\ fan_speed_enum_to_string(s) \in SpeedString
         /\ s \in Speed => fan_speed_string_to_enum(fan_speed_enum_to_string(s)) = s
<1> USE DEF Speed, FAND_SPEED_SLOW, FAND_SPEED_NORMAL, FAND_SPEED_MAX
<1>1. fan_speed_enum_to_string(s) \in SpeedString
  BY DEF fan_speed_enum_to_string, SpeedString
<1>2. ASSUME s \in Speed
      PROVE  fan_speed_string_to_enum(fan_speed_enum_to_string(s)) = s
  <2>1. \A i, j \in Speed : fanspeed_string[i + 1] = fanspeed_string[j + 1] => i = j
    BY DEF fanspeed_string
  <2>2. fan_speed_enum_to_string(s) = fanspeed_string[s + 1]
    BY <1>2 DEF fan_speed_enum_to_string
  <2> QED
    BY <1>1, <1>2, <2>1, <2>2 DEF fan_speed_string_to_enum
<1> QED
  BY <1>1, <1>2

\* The same for the status (fanstatus.c:55).
LEMMA StringOfStatus ==
  ASSUME NEW s
  PROVE  fan_status_enum_to_string(s) \in StatusString
BY DEF fan_status_enum_to_string, StatusString, Status, FAND_STATUS_UNINITIALIZED,
       FAND_STATUS_FAULT

\* A set of enumerators that holds 0 has a highest one.
LEMMA HighestExists ==
  ASSUME NEW S, S \subseteq -1 .. 4, 0 \in S
  PROVE  \E h \in S : 0 <= h /\ \A s \in S : s <= h
<1>1. CASE 4 \in S  BY <1>1
<1>2. CASE 4 \notin S /\ 3 \in S  BY <1>2
<1>3. CASE 4 \notin S /\ 3 \notin S /\ 2 \in S  BY <1>3
<1>4. CASE 4 \notin S /\ 3 \notin S /\ 2 \notin S /\ 1 \in S  BY <1>4
<1>5. CASE 4 \notin S /\ 3 \notin S /\ 2 \notin S /\ 1 \notin S  BY <1>5
<1> QED
  BY <1>1, <1>2, <1>3, <1>4, <1>5

\* The loop over the temperature sensors ends with a proper speed, which is at
\* least what every sensor asks for and is asked for, or "slow" (fand.c:531).
LEMMA HighestIsASpeed ==
  ASSUME NEW sensors
  PROVE  LET asked == {fan_speed_string_to_enum(s) : s \in sensors} \cup {FAND_SPEED_SLOW}
         IN  /\ HighestBySensor(sensors) \in asked \cap Speed
             /\ \A s \in asked : s <= HighestBySensor(sensors)
<1> DEFINE asked == {fan_speed_string_to_enum(s) : s \in sensors} \cup {FAND_SPEED_SLOW}
<1>1. asked \subseteq -1 .. 4 /\ 0 \in asked
  BY SpeedOfString DEF SpeedEnum, Speed, FAND_SPEED_NONE, FAND_SPEED_SLOW, FAND_SPEED_MAX
<1>2. PICK h \in asked : 0 <= h /\ \A s \in asked : s <= h
  BY <1>1, HighestExists
<1>3. HighestBySensor(sensors) = CHOOSE g \in asked : \A s \in asked : s <= g
  BY DEF HighestBySensor
<1>4. /\ HighestBySensor(sensors) \in asked
      /\ \A s \in asked : s <= HighestBySensor(sensors)
  BY <1>2, <1>3
<1>5. HighestBySensor(sensors) \in Speed
  BY <1>1, <1>4 DEF Speed, FAND_SPEED_SLOW, FAND_SPEED_MAX
<1> QED
  BY <1>4, <1>5

\* fand_set_fanspeed never leaves "no speed" in the record (physfan.c:129).
LEMMA EffectiveIsASpeed ==
  ASSUME NEW bySensor \in SpeedEnum, NEW override \in SpeedEnum
  PROVE  EffectiveSpeed(bySensor, override) \in Speed
BY DEF EffectiveSpeed, SpeedEnum, Speed, FAND_SPEED_NONE, FAND_SPEED_SLOW,
       FAND_SPEED_NORMAL, FAND_SPEED_MAX

\* The speed that fand_reconfigure and fand_set_fanspeed compute between them is
\* the one the row calls for, whatever the sensors report and the key holds.
LEMMA EffectiveIsWanted ==
  ASSUME NEW sub
  PROVE  EffectiveSpeed(HighestBySensor(sub.sensors),
                        fan_speed_string_to_enum(sub.override)) = Wanted(sub)
<1> DEFINE asked == {fan_speed_string_to_enum(s) : s \in sub.sensors} \cup {FAND_SPEED_SLOW}
           high  == HighestBySensor(sub.sensors)
           over  == fan_speed_string_to_enum(sub.override)
<1> USE DEF FAND_SPEED_NONE, FAND_SPEED_SLOW, FAND_SPEED_NORMAL, FAND_SPEED_MAX
<1>1. high \in asked \cap Speed /\ \A s \in asked : s <= high
  BY HighestIsASpeed
<1>2. over \in SpeedEnum /\ (sub.override \in SpeedString <=> over \in Speed)
  BY SpeedOfString
<1>3. \A s \in Speed : s \in asked <=>
         s = FAND_SPEED_SLOW \/ fan_speed_enum_to_string(s) \in sub.sensors
  BY SpeedOfString, StringOfSpeed DEF Speed
<1>4. fan_speed_enum_to_string(FAND_SPEED_MAX) = "max"
  BY DEF fan_speed_enum_to_string, Speed, fanspeed_string
<1>5. "max" \in sub.sensors <=> high = FAND_SPEED_MAX
  BY <1>1, <1>3, <1>4 DEF Speed
<1>6. high = CHOOSE s \in Speed :
               /\ s = FAND_SPEED_SLOW \/ fan_speed_enum_to_string(s) \in sub.sensors
               /\ \A t \in Speed : fan_speed_enum_to_string(t) \in sub.sensors => t <= s
  <2> DEFINE P(s) == /\ s = FAND_SPEED_SLOW \/ fan_speed_enum_to_string(s) \in sub.sensors
                     /\ \A t \in Speed : fan_speed_enum_to_string(t) \in sub.sensors => t <= s
  <2>1. P(high)
    BY <1>1, <1>3
  <2>2. \A s \in Speed : P(s) => s = high
    BY <1>1, <1>3 DEF Speed
  <2> HIDE DEF P
  <2>3. high = CHOOSE s \in Speed : P(s)
    BY <1>1, <2>1, <2>2
  <2> QED
    BY <2>3 DEF P
<1> QED
  BY <1>1, <1>2, <1>5, <1>6 DEF EffectiveSpeed, Wanted, SpeedEnum, Speed

\* The same for the worst status of a subsystem's fans (physfan.c:88).
LEMMA WorstIsAStatus ==
  ASSUME fan \in [Fan -> LocalFan], NEW n \in Name, yamlFans[n] \subseteq Fan
  PROVE  WorstStatus(n) \in Status
<1> DEFINE seen == {fan[f].status : f \in yamlFans[n]} \cup {FAND_STATUS_UNINITIALIZED}
<1>1. seen \subseteq Status
  BY DEF LocalFan, Status, FAND_STATUS_UNINITIALIZED, FAND_STATUS_FAULT
<1>2. PICK w \in seen : \A s \in seen : s <= w
  <2>1. seen \subseteq -1 .. 4 /\ 0 \in seen
    BY <1>1 DEF Status, FAND_STATUS_UNINITIALIZED, FAND_STATUS_FAULT
  <2> QED
    BY <2>1, HighestExists
<1>3. WorstStatus(n) = CHOOSE v \in seen : \A s \in seen : s <= v
  BY DEF WorstStatus
<1> QED
  BY <1>1, <1>2, <1>3

-----------------------------------------------------------------------------
(* Types. *)

\* The server's garbage collection touches Fan rows only.
LEMMA CollectTables ==
  ASSUME NEW d \in Tables
  PROVE  Collect(d) \in Tables /\ Collect(d).live = d.live /\ Collect(d).sub = d.sub
<1>1. BlankFan \in FanRow
  BY DEF BlankFan, FanRow, StatusString, fanstatus_string, Status, SpeedString,
         fanspeed_string, Speed, DirectionString, FAND_STATUS_UNINITIALIZED,
         FAND_STATUS_FAULT, FAND_SPEED_SLOW, FAND_SPEED_MAX
<1> QED
  BY <1>1 DEF Collect, Tables

\* What a process that starts holds is of the right type.
LEMMA BlankTypes ==
  /\ BlankSub \in SubRow /\ BlankFan \in FanRow /\ BlankLocal \in LocalFan
  /\ NoRows \in Tables /\ ClearedFields \in LocalSpeed
<1>1. BlankSub \in SubRow
  BY ConstantAssumption DEF BlankSub, SubRow
<1>2. BlankFan \in FanRow
  BY DEF BlankFan, FanRow, StatusString, fanstatus_string, Status, SpeedString,
         fanspeed_string, Speed, DirectionString, FAND_STATUS_UNINITIALIZED,
         FAND_STATUS_FAULT, FAND_SPEED_SLOW, FAND_SPEED_MAX
<1>3. BlankLocal \in LocalFan
  BY DEF BlankLocal, LocalFan, Speed, Status, DirectionString,
         FAND_STATUS_UNINITIALIZED, FAND_STATUS_FAULT, FAND_SPEED_SLOW, FAND_SPEED_MAX
<1>4. NoRows \in Tables
  BY <1>1, <1>2 DEF NoRows, Tables
<1>5. ClearedFields \in LocalSpeed
  BY DEF ClearedFields, LocalSpeed, Speed, SpeedEnum, FAND_SPEED_SLOW, FAND_SPEED_MAX
<1> QED
  BY <1>1, <1>2, <1>3, <1>4, <1>5

\* The transactions of the daemon leave the server's tables well-formed, and the
\* rows of Subsystem where they are.
LEMMA TransactionTypes ==
  ASSUME TypeOK
  PROVE  /\ WithStatus \in Tables /\ WithStatus.live = db.live /\ WithStatus.sub = db.sub
         /\ CurHwWritten \in {0, 1}
         /\ \A r \in Row : WithFanRows(r) \in Tables /\ WithFanRows(r).live = db.live
<1>1. \A l \in LocalFan : AsRow(l) \in FanRow
  BY StringOfStatus, StringOfSpeed DEF AsRow, LocalFan, FanRow
<1>2. WithStatus \in Tables /\ WithStatus.live = db.live /\ WithStatus.sub = db.sub
  BY <1>1 DEF TypeOK, WithStatus, Tables
<1>3. CurHwWritten \in {0, 1}
  BY DEF TypeOK, CurHwWritten
<1>4. ASSUME NEW r \in Row
      PROVE  WithFanRows(r) \in Tables /\ WithFanRows(r).live = db.live
  <2> DEFINE d == [db EXCEPT
         !.sub[r].fans = yamlFans[nameOf[r]],
         !.fan = [f \in Fan |-> IF f \in yamlFans[nameOf[r]]
                                THEN UninitializedFan(db.fan[f]) ELSE db.fan[f]]]
  <2>1. \A f \in Fan : UninitializedFan(db.fan[f]) \in FanRow
    <3>1. ASSUME NEW row \in FanRow
          PROVE  UninitializedFan(row) \in FanRow
      <4>1. "f2b" \in DirectionString
        BY DEF DirectionString
      <4> QED
        BY <4>1, StringOfStatus, StringOfSpeed DEF UninitializedFan, FanRow
    <3> QED
      BY <3>1 DEF TypeOK, Tables
  <2>2. yamlFans[nameOf[r]] \subseteq Fan
    BY ConstantAssumption
  <2>3. [db.sub[r] EXCEPT !.fans = yamlFans[nameOf[r]]] \in SubRow
    BY <2>2 DEF TypeOK, Tables, SubRow
  <2>4. d \in Tables /\ d.live = db.live
    BY <2>1, <2>3 DEF TypeOK, Tables
  <2>5. WithFanRows(r) = IF r \notin db.live THEN db ELSE Collect(d)
    BY DEF WithFanRows
  <2> HIDE DEF d
  <2>6. Collect(d) \in Tables /\ Collect(d).live = d.live
    BY <2>4, CollectTables
  <2> QED
    BY <2>4, <2>5, <2>6 DEF TypeOK
<1> QED
  BY <1>2, <1>3, <1>4

\* What ovsdb_idl_run leaves in the copy is of the right type.
LEMMA ReplicateTypes ==
  ASSUME TypeOK, NEW new \in Tables, Replicate(new)
  PROVE  /\ idl' \in Tables /\ alert' \in BOOLEAN
         /\ \A t \in StillToVisit(new) : t \subseteq Row
<1>1. idl' \in Tables
  BY DEF Replicate
<1>2. alert' \in BOOLEAN
  BY DEF Replicate, Alerts, TypeOK
<1>3. \A t \in StillToVisit(new) : t \subseteq Row
  BY DEF StillToVisit, InsertedRows, RehashedRows, TypeOK, Tables
<1> QED
  BY <1>1, <1>2, <1>3

\* The record and the register after fand_set_fanspeed.
LEMMA SpeedTypes ==
  ASSUME TypeOK, NEW n \in Name, NEW bySensor \in SpeedEnum, NEW override \in SpeedEnum,
         NEW lost, loc' = [loc EXCEPT ![n] = SpeedFields(bySensor, override)],
         WriteSpeed(n, lost)
  PROVE  /\ loc' \in [Name -> LocalSpeed] /\ reg' \in [Name -> Nat]
         /\ loc'[n].speed = EffectiveSpeed(bySensor, override)
<1>1. EffectiveSpeed(bySensor, override) \in Speed
  BY EffectiveIsASpeed
<1>2. SpeedFields(bySensor, override) \in LocalSpeed
  BY <1>1 DEF SpeedFields, LocalSpeed
<1>3. loc' \in [Name -> LocalSpeed] /\ loc'[n] = SpeedFields(bySensor, override)
  BY <1>2 DEF TypeOK
<1>4. loc'[n].speed = EffectiveSpeed(bySensor, override)
  BY <1>3 DEF SpeedFields
<1>5. Setting[loc'[n].speed] \in Nat
  BY <1>1, <1>4, ConstantAssumption
<1>6. reg' \in [Name -> Nat]
  BY <1>5 DEF WriteSpeed, TypeOK
<1> QED
  BY <1>3, <1>4, <1>6

\* The end of add_subsystem sets the speed of the fields it initialised.
LEMMA InitialSpeedTypes ==
  ASSUME TypeOK, NEW r \in Row, NEW lost, InitialSpeed(r, lost)
  PROVE  loc' \in [Name -> LocalSpeed] /\ reg' \in [Name -> Nat]
<1>1. nameOf[r] \in Name
  BY ConstantAssumption
<1>2. /\ loc[nameOf[r]].fan_speed \in SpeedEnum
      /\ loc[nameOf[r]].fan_speed_override \in SpeedEnum
  BY <1>1 DEF TypeOK, LocalSpeed
<1> QED
  BY <1>1, <1>2, SpeedTypes DEF InitialSpeed

\* Failed register writes are counted.
LEMMA I2cTypes ==
  ASSUME TypeOK, NEW lost, NEW others \in Nat, I2cLoses(lost, others)
  PROVE  faults' \in Nat
BY DEF I2cLoses, TypeOK

\* Whatever way the process ends, what is left is of the right type.
LEMMA EndsTypes ==
  ASSUME TypeOK, NEW where \in Ended, Ends(where)
  PROVE  /\ idl' \in Tables /\ alert' \in BOOLEAN /\ has_lock' \in BOOLEAN
         /\ pc' \in Ended /\ todo' = {} /\ cur' = {}
         /\ known' = {} /\ valid' = {} /\ marked' = {} /\ fan_data' = {}
         /\ loc' \in [Name -> LocalSpeed] /\ fan' \in [Fan -> LocalFan]
         /\ cur_hw_set' \in BOOLEAN /\ pend' = {} /\ pend_hw' \in BOOLEAN
         /\ refused' \in BOOLEAN
BY BlankTypes DEF Ends

\* What the rest of the loop body sets is of the right type (fand.c:531).
LEMMA ConfigureTypes ==
  ASSUME TypeOK, NEW r \in Row, Configure(r)
  PROVE  /\ loc' \in [Name -> LocalSpeed] /\ reg' \in [Name -> Nat]
         /\ led' \in [Name -> {"off", "good", "fault"}] /\ faults' \in Nat
<1> DEFINE n == nameOf[r]
<1>0. n \in Name
  BY ConstantAssumption
<1>1. PICK c \in Contents(r), lost \in SUBSET {"reg", "led"} :
        /\ loc' = [loc EXCEPT ![n] = SpeedFields(HighestBySensor(c.sensors),
                                                fan_speed_string_to_enum(c.override))]
        /\ I2cLoses(lost, 0) /\ WriteSpeed(n, lost) /\ WriteLed(n, lost)
  BY DEF Configure
<1>2. /\ HighestBySensor(c.sensors) \in SpeedEnum
      /\ fan_speed_string_to_enum(c.override) \in SpeedEnum
  BY HighestIsASpeed, SpeedOfString DEF SpeedEnum
<1>3. loc' \in [Name -> LocalSpeed] /\ reg' \in [Name -> Nat]
  BY <1>0, <1>1, <1>2, SpeedTypes
<1>4. LedValue(WorstStatus(n)) \in {"off", "good", "fault"}
  BY DEF LedValue
<1>5. led' \in [Name -> {"off", "good", "fault"}]
  BY <1>1, <1>4 DEF WriteLed, TypeOK
<1> QED
  BY <1>1, <1>3, <1>5, I2cTypes

\* So is what add_subsystem leaves when its transaction fails in any way (fand.c:272).
LEMMA AddFailedTypes ==
  ASSUME TypeOK, NEW r \in Row, AddNotCommitted(r) \/ AddRefused(r)
  PROVE  /\ idl' \in Tables /\ alert' \in BOOLEAN /\ todo' \subseteq Row
         /\ loc' \in [Name -> LocalSpeed] /\ reg' \in [Name -> Nat] /\ faults' \in Nat
<1>1. PICK new \in {idl, db} : Replicate(new) /\ todo' \in StillToVisit(new)
  BY DEF AddNotCommitted, AddRefused
<1>2. PICK lost \in SUBSET {"reg"} : I2cLoses(lost, 1) /\ InitialSpeed(r, lost)
  BY DEF AddNotCommitted, AddRefused
<1> QED
  BY <1>1, <1>2, ReplicateTypes, InitialSpeedTypes, I2cTypes DEF TypeOK

\* The initial states are of the right type.
LEMMA TypeInit == Init => TypeOK
<1> SUFFICES ASSUME Init PROVE TypeOK
  OBVIOUS
<1>1. PICK sub \in [Row -> SubRow] :
        db = [NoRows EXCEPT !.live = InitLive, !.sub = sub]
  BY DEF Init
<1>2. db \in Tables
  BY <1>1, BlankTypes, ConstantAssumption DEF Tables
<1>3. Setting[FAND_SPEED_NORMAL] \in Nat
  BY ConstantAssumption DEF Speed, FAND_SPEED_NORMAL, FAND_SPEED_SLOW, FAND_SPEED_MAX
<1>4. reg \in [Name -> Nat] /\ led \in [Name -> {"off", "good", "fault"}]
  BY <1>3 DEF Init
<1>5. used \subseteq Row /\ edits \in Nat /\ faults \in Nat
  BY ConstantAssumption DEF Init
<1> QED
  BY <1>2, <1>4, <1>5, BlankTypes DEF Init, ProcessInit, TypeOK

\* What fand_read_fan_status stores is of the right type.
LEMMA FansReadTypes ==
  ASSUME TypeOK
  PROVE  FansRead \in [Fan -> LocalFan]
<1>1. ASSUME NEW f \in Fan, NEW n \in Name
      PROVE  ReadFan(f, n) \in LocalFan
  <2>1. sense[f] \in Reading
    BY ConstantAssumption DEF TypeOK
  <2>2. loc[n].speed \in Speed
    BY DEF TypeOK, LocalSpeed
  <2> QED
    BY <2>1, <2>2 DEF ReadFan, LocalFan, Reading
<1>2. ASSUME NEW f \in Fan, \E n \in valid : f \in yamlFans[n]
      PROVE  (CHOOSE n \in valid : f \in yamlFans[n]) \in Name
  BY <1>2 DEF TypeOK
<1> QED
  BY <1>1, <1>2 DEF FansRead, TypeOK

\* A step of the daemon keeps the types.
LEMMA TypeDaemon ==
  ASSUME TypeOK, Daemon \/ WakeWithLock \/ WakeUnheard \/ Restart \/ Failure
  PROVE  TypeOK'
<1> USE DEF server, replica, loop, tables, txn, panel, bounds
<1> DEFINE Pc == {"poll", "scan", "adding", "configure", "read", "publish"}
<1>0. \A r \in Row : nameOf[r] \in Name /\ yamlFans[nameOf[r]] \subseteq Fan
  BY ConstantAssumption
<1>1. CASE Wake \/ WakeWithLock \/ WakeUnheard
  BY <1>1 DEF Wake, WakeWithLock, WakeUnheard, NewsAtLock, Run, UnmarkedAtStart, TypeOK, Tables
<1>2. ASSUME NEW r \in Row, SkipInvalid(r)
      PROVE  TypeOK'
  BY <1>2 DEF SkipInvalid, TypeOK
<1>3. ASSUME NEW r \in Row, AddInvalid(r)
      PROVE  TypeOK'
  BY <1>0, <1>3 DEF AddInvalid, TypeOK
<1>4. ASSUME NEW r \in Row, AddSubsystem(r)
      PROVE  TypeOK'
  <2> DEFINE n == nameOf[r]
  <2>1. loc' \in [Name -> LocalSpeed]
    <3>1. [fan_speed |-> FAND_SPEED_NORMAL,
           fan_speed_override |-> fan_speed_string_to_enum(idl.sub[r].override),
           speed |-> 0] \in LocalSpeed
      BY SpeedOfString DEF LocalSpeed, SpeedEnum, Speed, FAND_SPEED_NORMAL,
                           FAND_SPEED_SLOW, FAND_SPEED_MAX
    <3> QED
      BY <1>4, <3>1 DEF AddSubsystem, TypeOK
  <2>2. fan' \in [Fan -> LocalFan]
    <3>1. PICK garbage \in [yamlFans[n] -> Status] :
            fan' = [f \in Fan |-> IF f \in yamlFans[n]
                                  THEN [BlankLocal EXCEPT !.status = garbage[f]]
                                  ELSE fan[f]]
      BY <1>4 DEF AddSubsystem
    <3>2. \A st \in Status : [BlankLocal EXCEPT !.status = st] \in LocalFan
      BY BlankTypes DEF LocalFan
    <3> QED
      BY <3>1, <3>2 DEF TypeOK
  <2> QED
    BY <1>0, <1>4, <2>1, <2>2 DEF AddSubsystem, TypeOK
<1>5. ASSUME NEW r \in Row, AddCommitted(r)
      PROVE  TypeOK'
  <2>1. db' \in Tables
    BY <1>5, TransactionTypes DEF AddCommitted
  <2>2. /\ idl' \in Tables /\ alert' \in BOOLEAN /\ todo' \subseteq Row
    BY <1>5, <2>1, ReplicateTypes DEF AddCommitted
  <2>3. /\ loc' \in [Name -> LocalSpeed] /\ reg' \in [Name -> Nat] /\ faults' \in Nat
    BY <1>5, InitialSpeedTypes, I2cTypes DEF AddCommitted
  <2> QED
    BY <1>5, <2>1, <2>2, <2>3 DEF AddCommitted, TypeOK
<1>6. ASSUME NEW r \in Row, AddNotLocked(r)
      PROVE  TypeOK'
  <2>1. /\ loc' \in [Name -> LocalSpeed] /\ reg' \in [Name -> Nat] /\ faults' \in Nat
    BY <1>6, InitialSpeedTypes, I2cTypes DEF AddNotLocked
  <2> QED
    BY <1>6, <2>1 DEF AddNotLocked, TypeOK
<1>7. ASSUME NEW r \in Row, AddNotCommitted(r) \/ AddRefused(r)
      PROVE  TypeOK'
  <2>1. db' \in Tables
    BY <1>7, TransactionTypes DEF AddNotCommitted, AddRefused, TypeOK
  <2>2. /\ idl' \in Tables /\ alert' \in BOOLEAN /\ todo' \subseteq Row
        /\ loc' \in [Name -> LocalSpeed] /\ reg' \in [Name -> Nat] /\ faults' \in Nat
    BY <1>7, AddFailedTypes
  <2>3. /\ pc' = "configure" /\ has_lock' \in BOOLEAN
        /\ UNCHANGED <<cur_hw, cur, known, valid, marked, fan_data, fan, txn, led,
                       sense, used, edits>>
    BY <1>7 DEF AddNotCommitted, AddRefused, TypeOK
  <2> QED
    BY <2>1, <2>2, <2>3 DEF TypeOK
<1>8. ASSUME NEW r \in Row, Configure(r)
      PROVE  TypeOK'
  <2>1. todo' \subseteq Row
    BY <1>8 DEF Configure, VisitedUpTo, TypeOK
  <2>2. /\ loc' \in [Name -> LocalSpeed] /\ reg' \in [Name -> Nat]
        /\ led' \in [Name -> {"off", "good", "fault"}] /\ faults' \in Nat
    BY <1>8, ConfigureTypes
  <2>3. /\ marked' = marked \cup {nameOf[r]} /\ marked' \subseteq Name
        /\ pc' = "scan" /\ cur' = {}
        /\ UNCHANGED <<server, replica, known, valid, fan_data, fan, txn, sense, used,
                       edits>>
    BY <1>0, <1>8 DEF Configure, TypeOK
  <2> QED
    BY <2>1, <2>2, <2>3 DEF TypeOK
<1>9. CASE FaultOnFreedRow \/ FaultOnUnknownFan \/ Terminate
  <2>1. PICK where \in Ended : Ends(where)
    BY <1>9 DEF FaultOnFreedRow, FaultOnUnknownFan, Terminate, Ended
  <2>2. faults' \in Nat /\ UNCHANGED <<server, panel, sense, used, edits>>
    BY <1>9 DEF FaultOnFreedRow, FaultOnUnknownFan, Terminate, TypeOK
  <2>3. /\ idl' \in Tables /\ alert' \in BOOLEAN /\ has_lock' \in BOOLEAN
        /\ pc' \in Ended /\ todo' = {} /\ cur' = {}
        /\ known' = {} /\ valid' = {} /\ marked' = {} /\ fan_data' = {}
        /\ loc' \in [Name -> LocalSpeed] /\ fan' \in [Fan -> LocalFan]
        /\ cur_hw_set' \in BOOLEAN /\ pend' = {} /\ pend_hw' \in BOOLEAN
        /\ refused' \in BOOLEAN
    BY <2>1, EndsTypes
  <2> QED
    BY <2>2, <2>3 DEF TypeOK
<1>10. CASE RemoveUnmarked
  <2>1. loc' \in [Name -> LocalSpeed] /\ fan' \in [Fan -> LocalFan]
    BY <1>10, BlankTypes DEF RemoveUnmarked, TypeOK
  <2> QED
    BY <1>10, <2>1 DEF RemoveUnmarked, TypeOK
<1>11. CASE ReadStatus
  <2>1. fan' \in [Fan -> LocalFan]
    BY <1>11, FansReadTypes DEF ReadStatus
  <2>2. FanRows(idl) \subseteq Fan
    BY DEF FanRows, TypeOK, Tables, SubRow
  <2>3. pend' \subseteq Fan
    BY <1>11, <2>2 DEF ReadStatus, ToWrite
  <2> QED
    BY <1>11, <2>1, <2>3 DEF ReadStatus, TypeOK
<1>12. CASE StatusCommitted
  <2>1. db' \in Tables /\ cur_hw' \in {0, 1}
    BY <1>12, TransactionTypes DEF StatusCommitted
  <2>2. idl' \in Tables /\ alert' \in BOOLEAN
    BY <1>12, <2>1, ReplicateTypes DEF StatusCommitted
  <2> QED
    BY <1>12, <2>1, <2>2 DEF StatusCommitted, TxnDone, TypeOK
<1>13. CASE StatusNotCommitted \/ StatusRefused
  <2>1. db' \in Tables /\ cur_hw' \in {0, 1}
    BY <1>13, TransactionTypes DEF StatusNotCommitted, StatusRefused, TypeOK
  <2>2. idl' \in Tables /\ alert' \in BOOLEAN
    <3>1. PICK new \in {idl, db} : Replicate(new)
      BY <1>13 DEF StatusNotCommitted, StatusRefused
    <3> QED
      BY <3>1, ReplicateTypes DEF TypeOK
  <2>3. /\ has_lock' \in {FALSE, has_lock} /\ refused' \in {TRUE, refused}
        /\ faults' = faults + 1 /\ TxnDone
        /\ UNCHANGED <<todo, cur, tables, cur_hw_set, panel, sense, used, edits>>
    BY <1>13 DEF StatusNotCommitted, StatusRefused
  <2>4. has_lock' \in BOOLEAN /\ refused' \in BOOLEAN
    <3>1. has_lock \in BOOLEAN /\ refused \in BOOLEAN
      BY DEF TypeOK
    <3> QED
      BY <2>3, <3>1
  <2>5. /\ faults' \in Nat /\ pc' = "poll" /\ pend' = {} /\ pend_hw' = FALSE
        /\ UNCHANGED <<todo, cur, tables, cur_hw_set, panel, sense, used, edits>>
    BY <2>3 DEF TxnDone, TypeOK
  <2> QED
    BY <2>1, <2>2, <2>4, <2>5 DEF TypeOK
<1>14. CASE StatusNotLocked \/ Restart
  BY <1>14 DEF StatusNotLocked, Restart, TxnDone, TypeOK
<1>15. CASE LoseSession
  <2>1. /\ has_lock' = FALSE /\ faults' \in Nat
        /\ UNCHANGED <<server, idl, alert, loop, tables, txn, panel, sense, used, edits>>
    BY <1>15 DEF LoseSession, TypeOK
  <2> QED
    BY <2>1 DEF TypeOK
<1> QED
  BY <1>1, <1>2, <1>3, <1>4, <1>5, <1>6, <1>7, <1>8, <1>9, <1>10, <1>11, <1>12, <1>13,
     <1>14, <1>15 DEF Daemon, Failure

\* A column of a Subsystem row that takes one of its values leaves a row.
LEMMA RowTypes ==
  ASSUME NEW row \in SubRow
  PROVE  /\ \A b \in BOOLEAN : [row EXCEPT !.dir = b] \in SubRow
         /\ \A s \in SensorSets : [row EXCEPT !.sensors = s] \in SubRow
         /\ \A o \in Overrides : [row EXCEPT !.override = o] \in SubRow
         /\ \A s \in SUBSET Fan : [row EXCEPT !.fans = s] \in SubRow
<1>1. ASSUME NEW b \in BOOLEAN PROVE [row EXCEPT !.dir = b] \in SubRow
  BY ZenonT(20) DEF SubRow
<1>2. ASSUME NEW s \in SensorSets PROVE [row EXCEPT !.sensors = s] \in SubRow
  BY DEF SubRow
<1>3. ASSUME NEW o \in Overrides PROVE [row EXCEPT !.override = o] \in SubRow
  BY DEF SubRow
<1>4. ASSUME NEW s \in SUBSET Fan PROVE [row EXCEPT !.fans = s] \in SubRow
  BY DEF SubRow
<1> QED
  BY <1>1, <1>2, <1>3, <1>4

\* A step of another writer, or of a fan, keeps the types.
LEMMA TypeWriters ==
  ASSUME TypeOK, Writers
  PROVE  TypeOK'
<1> USE DEF server, replica, loop, tables, txn, panel, bounds, Unaffected
<1>0. \A kind : Edit(kind) => edits' \in Nat
  BY DEF Edit, TypeOK
<1>1. ASSUME NEW r \in Row, NEW row \in SubRow
      PROVE  [db EXCEPT !.sub[r] = row] \in Tables
  BY DEF TypeOK, Tables
<1>2. \A r \in Row : db.sub[r] \in SubRow
  BY DEF TypeOK, Tables
<1>3. ASSUME NEW r \in Row, NEW s \in SensorSets, SetSensors(r, s)
      PROVE  TypeOK'
  <2>1. [db.sub[r] EXCEPT !.sensors = s] \in SubRow
    BY <1>2, RowTypes
  <2>2. db' \in Tables
    BY <1>1, <1>3, <2>1 DEF SetSensors
  <2> QED
    BY <1>0, <1>3, <2>2 DEF SetSensors, TypeOK
<1>4. ASSUME NEW r \in Row, NEW o \in Overrides, SetOverride(r, o)
      PROVE  TypeOK'
  <2>1. [db.sub[r] EXCEPT !.override = o] \in SubRow
    BY <1>2, RowTypes
  <2>2. db' \in Tables
    BY <1>1, <1>4, <2>1 DEF SetOverride
  <2> QED
    BY <1>0, <1>4, <2>2 DEF SetOverride, TypeOK
<1>5. ASSUME NEW r \in Row, SetDir(r) \/ ClearDir(r)
      PROVE  TypeOK'
  <2>1. /\ [db.sub[r] EXCEPT !.dir = TRUE] \in SubRow
        /\ [db.sub[r] EXCEPT !.dir = FALSE] \in SubRow
    BY <1>2, RowTypes
  <2>2. db' \in Tables
    BY <1>1, <1>5, <2>1 DEF SetDir, ClearDir
  <2>3. edits' \in Nat /\ UNCHANGED <<sense, used>> /\ Unaffected
    BY <1>0, <1>5 DEF SetDir, ClearDir
  <2> QED
    BY <2>2, <2>3 DEF TypeOK
<1>6. ASSUME NEW r \in Row, InsertRow(r)
      PROVE  TypeOK'
  <2>1. PICK dir \in BOOLEAN, s \in SensorSets :
          db' = [db EXCEPT !.live = @ \cup {r},
                           !.sub[r] = [BlankSub EXCEPT !.dir = dir, !.sensors = s]]
    BY <1>6 DEF InsertRow
  <2>2. [BlankSub EXCEPT !.dir = dir, !.sensors = s] \in SubRow
    <3>1. [BlankSub EXCEPT !.dir = dir] \in SubRow
      BY BlankTypes, RowTypes
    <3>2. [[BlankSub EXCEPT !.dir = dir] EXCEPT !.sensors = s] \in SubRow
      BY <3>1, RowTypes
    <3> QED
      BY <3>2
  <2> DEFINE row == [BlankSub EXCEPT !.dir = dir, !.sensors = s]
  <2>3. row \in SubRow /\ db' = [db EXCEPT !.live = @ \cup {r}, !.sub[r] = row]
    BY <2>1, <2>2
  <2> HIDE DEF row
  <2>4. db' \in Tables
    BY <2>3 DEF TypeOK, Tables
  <2>5. /\ edits' \in Nat /\ used' \subseteq Row /\ sense' = sense /\ Unaffected
    BY <1>0, <1>6 DEF InsertRow, TypeOK
  <2> QED
    BY <2>4, <2>5 DEF TypeOK
<1>7. ASSUME NEW r \in Row, DeleteRow(r)
      PROVE  TypeOK'
  <2>1. [db EXCEPT !.live = @ \ {r}, !.sub[r] = BlankSub] \in Tables
    BY BlankTypes DEF TypeOK, Tables
  <2>2. db' \in Tables
    BY <1>7, <2>1, CollectTables DEF DeleteRow
  <2> QED
    BY <1>0, <1>7, <2>2 DEF DeleteRow, TypeOK
<1>8. ASSUME NEW r \in Row, NEW s \in ForeignSets, SetForeignFans(r, s)
      PROVE  TypeOK'
  <2>1. [db.sub[r] EXCEPT !.fans = s] \in SubRow
    BY <1>2, RowTypes, ConstantAssumption
  <2>2. [db EXCEPT !.sub[r].fans = s] \in Tables
    BY <1>1, <2>1
  <2>3. db' \in Tables
    BY <1>8, <2>2, CollectTables DEF SetForeignFans
  <2> QED
    BY <1>0, <1>8, <2>3 DEF SetForeignFans, TypeOK
<1>9. ASSUME NEW f \in Fan, NEW c \in Readings, FanChanges(f, c)
      PROVE  TypeOK'
  <2>1. /\ sense' \in [Fan -> Readings] /\ edits' \in Nat
        /\ UNCHANGED <<db, used>> /\ Unaffected
    BY <1>0, <1>9 DEF FanChanges, TypeOK
  <2> QED
    BY <2>1 DEF TypeOK
<1> QED
  BY <1>3, <1>4, <1>5, <1>6, <1>7, <1>8, <1>9 DEF Writers

\* Every variable keeps its type, for every value of the constants.
THEOREM TypeCorrect == Spec => []TypeOK
<1>1. TypeOK /\ [Next]_vars => TypeOK'
  <2>1. CASE UNCHANGED vars
    BY <2>1 DEF TypeOK, vars, server, replica, loop, tables, txn, panel, bounds
  <2> QED
    BY <2>1, TypeDaemon, TypeWriters DEF Next
<1> QED
  BY <1>1, TypeInit, PTL DEF Spec
=============================================================================
