-------------------------------- MODULE Fand --------------------------------
(***************************************************************************)
(* The fan daemon (fand.c, with what it calls in physfan.c) between the    *)
(* OVSDB server, the other writers of the database and the fan hardware.   *)
(*                                                                         *)
(* The daemon is one thread.  It gives up control in three places only:    *)
(* poll_block() in main, and the two ovsdb_idl_txn_commit_block() calls in *)
(* add_subsystem and fand_read_status.  What runs between two of these     *)
(* places and is not observable in the middle is one action; pc names the  *)
(* place.  The server, the other writers and the fans move at any time.    *)
(*                                                                         *)
(* The IDL (the library's in-process copy of the database) is modelled     *)
(* from how fand.c uses it: ovsdb_idl_run brings the copy up to date and   *)
(* moves the sequence number when a row appears or goes away or a column   *)
(* registered for alerts changes.                                          *)
(***************************************************************************)
EXTENDS FanEnum, FiniteSets

CONSTANTS
  Row,          \* uuids of rows of the Subsystem table
  Name,         \* values of Subsystem:name
  Fan,          \* full fan names, "<subsystem>-<fan>"
  nameOf,       \* nameOf[r]: the name column of row r
  yamlFans,     \* yamlFans[n]: the fans that the h/w description of n lists
  Setting,      \* Setting[s]: the register value of speed s (fan_speed_settings)
  SensorSets,   \* the sets of fan_state strings the temperature sensors report
  Overrides,    \* the values of other_config:fan_speed_override (NULL: no key)
  Readings,     \* what fand_read_fan_status can find a fan in
  ForeignSets,  \* sets of Fan rows another program puts in Subsystem:fans
  InitLive,     \* Subsystem rows present when the daemon first starts
  Edits,        \* kinds of change the other database writers make in a run
  Faults,       \* kinds of failure that happen in a run
  MaxEdits,     \* bound on the number of those changes
  MaxFaults     \* bound on the number of those failures

EditKinds  == {"sensors", "override", "dir", "nodir", "insert", "delete",
               "race", "foreign", "fan"}
FaultKinds == {"commit", "refused", "session", "i2c", "kill", "rehash"}
Reading    == [direction : DirectionString, rpm : Int, status : Status]

ASSUME ConstantAssumption ==
  /\ nameOf \in [Row -> Name]
  /\ yamlFans \in [Name -> SUBSET Fan]
  /\ \A m, n \in Name : m # n => yamlFans[m] \cap yamlFans[n] = {}
  /\ Setting \in [Speed -> Nat]
  /\ SensorSets \subseteq SUBSET STRING /\ SensorSets # {}
  /\ NULL \in Overrides /\ Overrides \subseteq STRING
  /\ Readings \subseteq Reading /\ Readings # {}
  /\ ForeignSets \subseteq SUBSET Fan
  /\ InitLive \subseteq Row
  /\ \A q, r \in InitLive : nameOf[q] = nameOf[r] => q = r
  /\ Edits \subseteq EditKinds /\ Faults \subseteq FaultKinds
  /\ MaxEdits \in Nat /\ MaxFaults \in Nat

VARIABLES
  \* the OVSDB server
  db,          \* Subsystem and Fan tables
  cur_hw,      \* Daemon["ops-fand"]:cur_hw
  \* the IDL
  idl,         \* the copy of db the daemon reads
  alert,       \* its sequence number differs from idl_seqno
  has_lock,    \* the session is up and holds the lock "ops_fand"
  \* the main loop
  pc,          \* where the daemon is
  todo,        \* rows OVSREC_SUBSYSTEM_FOR_EACH has not visited in this pass
  cur,         \* {the row being added} or {}
  \* the daemon's tables
  known,       \* keys of subsystem_data
  valid,       \* ... whose valid flag is set
  marked,      \* ... whose marked flag is set
  loc,         \* speed fields of each struct locl_subsystem
  fan_data,    \* keys of fan_data
  fan,         \* each struct locl_fan
  cur_hw_set,  \* the static of that name
  pend,        \* Fan rows the transaction in flight writes
  pend_hw,     \* ... and whether it writes cur_hw
  refused,     \* the last one was refused, session and lock kept (for properties)
  \* the hardware
  reg,         \* fan speed control register of each subsystem
  led,         \* fan status LED of each subsystem
  sense,       \* the condition of each fan
  \* bounds
  used,        \* row uuids spent
  edits, faults

server  == <<db, cur_hw>>
replica == <<idl, alert, has_lock>>
loop    == <<pc, todo, cur>>
tables  == <<known, valid, marked, loc, fan_data, fan>>
txn     == <<cur_hw_set, pend, pend_hw, refused>>
panel   == <<reg, led>>
bounds  == <<used, edits, faults>>
vars    == <<server, replica, loop, tables, txn, panel, sense, bounds>>

-----------------------------------------------------------------------------
(* Rows.  The fields of a Subsystem row are its columns as fand.c reads    *)
(* them; dir stands for a hw_desc_dir from which the h/w description       *)
(* loads.  A row that does not exist holds BlankSub, a Fan row BlankFan.   *)

SubRow == [dir : BOOLEAN, sensors : SensorSets, override : Overrides,
           fans : SUBSET Fan]
FanRow == [status : StatusString, speed : SpeedString,
           direction : DirectionString, rpm : SUBSET Int]

BlankSub == [dir |-> FALSE, sensors |-> CHOOSE s \in SensorSets : TRUE,
             override |-> NULL, fans |-> {}]

\* What add_subsystem writes into the columns of a Fan row.  rpm is left alone.
UninitializedFan(row) ==
  [row EXCEPT !.status    = fan_status_enum_to_string(FAND_STATUS_UNINITIALIZED),
              !.direction = "f2b",
              !.speed     = fan_speed_enum_to_string(FAND_SPEED_NORMAL)]

BlankFan == [status |-> "uninitialized", speed |-> "normal",
             direction |-> "f2b", rpm |-> {}]

\* Fan rows exist as long as a Subsystem row refers to them.
FanRows(d) == UNION {d.sub[r].fans : r \in d.live}

\* The server drops the Fan rows nothing refers to.
Collect(d) ==
  [d EXCEPT !.fan = [f \in Fan |-> IF f \in FanRows(d) THEN d.fan[f] ELSE BlankFan]]

-----------------------------------------------------------------------------
(* The speed of a subsystem. *)

\* Bug: the loop starts from the default speed instead of the lowest.
HighestBySensor_FromNormal(sensors) ==
  LET asked == {fan_speed_string_to_enum(s) : s \in sensors} \cup {FAND_SPEED_NORMAL}
  IN  CHOOSE h \in asked : \A s \in asked : s <= h

\* The loop over cfg->temp_sensors.
HighestBySensor(sensors) ==
  LET asked == {fan_speed_string_to_enum(s) : s \in sensors} \cup {FAND_SPEED_SLOW}
  IN  CHOOSE h \in asked : \A s \in asked : s <= h

\* Bug: an override wins even over a sensor that says "max".
EffectiveSpeed_OverrideFirst(bySensor, override) ==
  IF override # FAND_SPEED_NONE THEN override ELSE bySensor

\* What fand_set_fanspeed makes of the sensors' speed and the override.
EffectiveSpeed(bySensor, override) ==
  LET speed == IF override = FAND_SPEED_NONE \/ bySensor = FAND_SPEED_MAX
               THEN bySensor ELSE override
  IN  IF speed = FAND_SPEED_NONE THEN FAND_SPEED_NORMAL ELSE speed

SpeedFields(bySensor, override) ==
  [fan_speed |-> bySensor, fan_speed_override |-> override,
   speed |-> EffectiveSpeed(bySensor, override)]

\* The fields of a structure that has just been cleared.
ClearedFields == [fan_speed |-> 0, fan_speed_override |-> 0, speed |-> 0]

\* A failed register write is ignored by its callers: lost names the writes
\* that do not reach the hardware.  others counts what else fails in the step.
I2cLoses(lost, others) ==
  /\ lost # {} => "i2c" \in Faults /\ faults + others < MaxFaults
  /\ faults' = faults + others + (IF lost = {} THEN 0 ELSE 1)

\* Bug: the register is written before the record is brought up to date.
WriteSpeed_Early(n, lost) ==
  reg' = [reg EXCEPT ![n] = IF "reg" \in lost THEN @ ELSE Setting[loc[n].speed]]

WriteSpeed(n, lost) ==
  reg' = [reg EXCEPT ![n] = IF "reg" \in lost THEN @ ELSE Setting[loc'[n].speed]]

\* fand_set_fanleds: the worst status of the subsystem's fans picks the value.
LedValue(status) ==
  CASE status = FAND_STATUS_UNINITIALIZED -> "off"
    [] status = FAND_STATUS_OK            -> "good"
    [] OTHER                              -> "fault"

WorstStatus(n) ==
  LET seen == {fan[f].status : f \in yamlFans[n]} \cup {FAND_STATUS_UNINITIALIZED}
  IN  CHOOSE w \in seen : \A s \in seen : s <= w

WriteLed(n, lost) ==
  led' = [led EXCEPT ![n] = IF "led" \in lost THEN @ ELSE LedValue(WorstStatus(n))]

-----------------------------------------------------------------------------
(* The process. *)

BlankLocal == [speed |-> 0, direction |-> "f2b", rpm |-> 0,
               status |-> FAND_STATUS_UNINITIALIZED]
NoRows     == [live |-> {}, sub |-> [r \in Row |-> BlankSub],
               fan |-> [f \in Fan |-> BlankFan]]

\* fand_init: empty tables, an IDL that has not seen the server yet.
ProcessInit ==
  /\ idl = NoRows /\ alert = FALSE /\ has_lock = FALSE
  /\ todo = {} /\ cur = {}
  /\ known = {} /\ valid = {} /\ marked = {} /\ fan_data = {}
  /\ loc = [n \in Name |-> ClearedFields]
  /\ fan = [f \in Fan |-> BlankLocal]
  /\ cur_hw_set = FALSE /\ pend = {} /\ pend_hw = FALSE /\ refused = FALSE

Init ==
  /\ ProcessInit
  /\ pc = "poll"
  /\ \E sub \in [Row -> SubRow] :
       /\ \A r \in Row : sub[r].fans = {} /\ (r \notin InitLive => sub[r] = BlankSub)
       /\ db = [NoRows EXCEPT !.live = InitLive, !.sub = sub]
  /\ cur_hw = 0
  /\ reg = [n \in Name |-> Setting[FAND_SPEED_NORMAL]]
  /\ led = [n \in Name |-> "off"]
  /\ sense \in [Fan -> Readings]
  /\ used = InitLive /\ edits = 0 /\ faults = 0

\* The process ends; what it held goes with it.  where tells how: "down" when
\* it was told to, "null" and "freed" when it dereferenced what it should not.
Ends(where) ==
  /\ pc' = where
  /\ idl' = NoRows /\ alert' = FALSE /\ has_lock' = FALSE
  /\ todo' = {} /\ cur' = {}
  /\ known' = {} /\ valid' = {} /\ marked' = {} /\ fan_data' = {}
  /\ loc' = [n \in Name |-> ClearedFields]
  /\ fan' = [f \in Fan |-> BlankLocal]
  /\ cur_hw_set' = FALSE /\ pend' = {} /\ pend_hw' = FALSE /\ refused' = FALSE

-----------------------------------------------------------------------------
(* The IDL. *)

\* Bug: the columns of Subsystem are registered without alerts too.
Alerts_RowsOnly(old, new) == old.live # new.live

\* Subsystem:fans and the Fan columns are registered without alerts, but the
\* appearance or loss of a Fan row is a change of its own.
Alerts(old, new) == old.live # new.live \/ old.sub # new.sub

\* Bug: the sequence number is taken again after the commit.
Replicate_SeqnoTakenAgain(new) == idl' = new /\ alert' = FALSE

\* ovsdb_idl_run with the server at new.
Replicate(new) == idl' = new /\ alert' = (alert \/ Alerts(idl, new))

\* The rows a FOR_EACH may have still to visit when the table changes under it: a
\* row that appeared may hash ahead of the iterator or behind it.
InsertedRows(new) ==
  {(todo \cap new.live) \cup s : s \in SUBSET (new.live \ idl.live)}

\* If that makes the hash table grow, it is rebuilt: the iterator, which is at the
\* row being added, may pass over any row or visit it again.
RehashedRows(new) ==
  IF "rehash" \in Faults /\ ~(new.live \subseteq idl.live)
  THEN {(cur \cap new.live) \cup s : s \in SUBSET (new.live \ cur)}
  ELSE {}

StillToVisit(new) == InsertedRows(new) \cup RehashedRows(new)

-----------------------------------------------------------------------------
(* fand_run and fand_reconfigure. *)

\* Bug: the marks of the last pass are kept.
UnmarkedAtStart_Kept == marked

\* The marks after fand_unmark_subsystems.
UnmarkedAtStart == {}

\* fand_run when it holds the lock: ovsdb_idl_run, then fand_reconfigure as far
\* as fand_unmark_subsystems.  The sequence number is taken before the rows are.
Run(new, news) ==
  /\ idl' = new
  /\ alert' = FALSE
  /\ IF news
     THEN pc' = "scan" /\ todo' = new.live /\ marked' = UnmarkedAtStart
     ELSE pc' = "read" /\ UNCHANGED <<todo, marked>>
  /\ UNCHANGED <<server, cur, known, valid, loc, fan_data, fan, txn, panel, sense,
                 bounds>>

\* poll_block returns: the timer or news from the server.
Wake ==
  /\ pc = "poll" /\ has_lock
  /\ Run(db, alert \/ Alerts(idl, db))
  /\ UNCHANGED has_lock

\* poll_block returns because of the timer, to a daemon whose session is cut but that
\* has not noticed: nothing came in.  (Not a step of Next, where whatever comes in
\* later is a change that is made later.)
WakeUnheard ==
  /\ pc = "poll" /\ has_lock
  /\ Run(idl, alert)
  /\ UNCHANGED has_lock

\* Bug: the daemon goes on from where it was when it lost the lock.
NewsAtLock_Alerts == alert \/ Alerts(idl, db)

\* Whether the first pass with the lock has news.
NewsAtLock == TRUE

\* poll_block returns because the session is (back) up, the lock granted and
\* the reply to the monitor request in: the whole table is news.  Without the
\* lock fand_run returns at once, which changes nothing here.
WakeWithLock ==
  /\ pc = "poll" /\ ~has_lock
  /\ Run(db, NewsAtLock)
  /\ has_lock' = TRUE

\* get_subsystem finds a structure that add_subsystem gave up on.
SkipInvalid(r) ==
  /\ pc = "scan" /\ r \in todo
  /\ nameOf[r] \in known \ valid
  /\ todo' = todo \ {r}
  /\ UNCHANGED <<server, replica, pc, cur, tables, txn, panel, sense, bounds>>

\* add_subsystem, one of the returns before the structure becomes valid.
AddInvalid(r) ==
  /\ pc = "scan" /\ r \in todo
  /\ nameOf[r] \notin known /\ ~idl.sub[r].dir
  /\ known' = known \cup {nameOf[r]}
  /\ todo' = todo \ {r}
  /\ UNCHANGED <<server, replica, pc, cur, valid, marked, loc, fan_data, fan, txn,
                 panel, sense, bounds>>

\* add_subsystem up to the commit.  malloc does not clear the fan structures:
\* their status is whatever the memory held (a value above the last
\* enumerator acts like it).
AddSubsystem(r) ==
  LET n == nameOf[r]
  IN  /\ pc = "scan" /\ r \in todo
      /\ n \notin known /\ idl.sub[r].dir
      /\ pc' = "adding" /\ cur' = {r}
      /\ known' = known \cup {n} /\ valid' = valid \cup {n}
      /\ loc' = [loc EXCEPT ![n] =
                  [fan_speed |-> FAND_SPEED_NORMAL,
                   fan_speed_override |-> fan_speed_string_to_enum(idl.sub[r].override),
                   speed |-> 0]]
      /\ fan_data' = fan_data \cup yamlFans[n]
      /\ \E garbage \in [yamlFans[n] -> Status] :
           fan' = [f \in Fan |-> IF f \in yamlFans[n]
                                 THEN [BlankLocal EXCEPT !.status = garbage[f]]
                                 ELSE fan[f]]
      /\ UNCHANGED <<server, replica, todo, marked, txn, panel, sense, bounds>>

\* The server's tables after the transaction of add_subsystem.  If the Subsystem
\* row is gone its update matches nothing and the new Fan rows are unreferenced.
WithFanRows(r) ==
  IF r \notin db.live THEN db
  ELSE Collect([db EXCEPT
         !.sub[r].fans = yamlFans[nameOf[r]],
         !.fan = [f \in Fan |-> IF f \in yamlFans[nameOf[r]]
                                THEN UninitializedFan(db.fan[f]) ELSE db.fan[f]]])

\* The end of add_subsystem, after the commit: fand_set_fanspeed.
InitialSpeed(r, lost) ==
  LET n == nameOf[r]
  IN  /\ loc' = [loc EXCEPT ![n] = SpeedFields(loc[n].fan_speed, loc[n].fan_speed_override)]
      /\ WriteSpeed(n, lost)

\* ovsdb_idl_txn_commit_block: the transaction is in, and so is its update.
AddCommitted(r) ==
  /\ pc = "adding" /\ r \in cur /\ has_lock
  /\ db' = WithFanRows(r)
  /\ Replicate(db')
  /\ todo' \in StillToVisit(db')
  /\ pc' = "configure"
  /\ \E lost \in SUBSET {"reg"} : I2cLoses(lost, 0) /\ InitialSpeed(r, lost)
  /\ UNCHANGED <<cur_hw, has_lock, cur, known, valid, marked, fan_data, fan, txn, led,
                 sense, used, edits>>

\* The session drops while the transaction is in flight, before or after the
\* server applied it; updates may have come in before.  The result of the commit
\* is not looked at.
AddNotCommitted(r) ==
  /\ pc = "adding" /\ r \in cur /\ has_lock
  /\ "commit" \in Faults /\ faults < MaxFaults
  /\ db' \in {db, WithFanRows(r)}
  /\ \E new \in {idl, db} : Replicate(new) /\ todo' \in StillToVisit(new)
  /\ has_lock' = FALSE
  /\ pc' = "configure"
  /\ \E lost \in SUBSET {"reg"} : I2cLoses(lost, 1) /\ InitialSpeed(r, lost)
  /\ UNCHANGED <<cur_hw, cur, known, valid, marked, fan_data, fan, txn, led, sense,
                 used, edits>>

\* The server refuses the transaction and says so; session and lock stay.  Nor is
\* this result looked at.
AddRefused(r) ==
  /\ pc = "adding" /\ r \in cur /\ has_lock
  /\ "refused" \in Faults /\ faults < MaxFaults
  /\ \E new \in {idl, db} : Replicate(new) /\ todo' \in StillToVisit(new)
  /\ pc' = "configure"
  /\ \E lost \in SUBSET {"reg"} : I2cLoses(lost, 1) /\ InitialSpeed(r, lost)
  /\ UNCHANGED <<server, has_lock, cur, known, valid, marked, fan_data, fan, txn, led,
                 sense, used, edits>>

\* The lock was lost earlier in this pass: the commit gives up at once.
AddNotLocked(r) ==
  /\ pc = "adding" /\ r \in cur /\ ~has_lock
  /\ pc' = "configure"
  /\ \E lost \in SUBSET {"reg"} : I2cLoses(lost, 0) /\ InitialSpeed(r, lost)
  /\ UNCHANGED <<server, replica, todo, cur, known, valid, marked, fan_data, fan, txn,
                 led, sense, used, edits>>

\* What fand_reconfigure reads of cfg.  A row deleted while add_subsystem
\* waited for its commit is freed memory: anything may be in it.
Contents(r) ==
  IF r \in idl.live THEN {idl.sub[r]}
  ELSE [sensors : SensorSets, override : Overrides]

\* ... and anything may follow it in the table.
VisitedUpTo(r) ==
  IF r \in idl.live THEN {todo \ {r}} ELSE SUBSET (todo \ {r})

\* The rest of the loop body, for a subsystem get_subsystem returned: speed by
\* sensors, override, fand_set_fanspeed, fand_set_fanleds, mark.
Configure(r) ==
  LET n == nameOf[r]
  IN  /\ \/ pc = "configure" /\ r \in cur
         \/ pc = "scan" /\ r \in todo /\ n \in valid
      /\ \E c \in Contents(r), lost \in SUBSET {"reg", "led"} :
           /\ loc' = [loc EXCEPT ![n] =
                        SpeedFields(HighestBySensor(c.sensors),
                                    fan_speed_string_to_enum(c.override))]
           /\ I2cLoses(lost, 0)
           /\ WriteSpeed(n, lost)
           /\ WriteLed(n, lost)
      /\ marked' = marked \cup {n}
      /\ todo' \in VisitedUpTo(r)
      /\ pc' = "scan" /\ cur' = {}
      /\ UNCHANGED <<server, replica, known, valid, fan_data, fan, txn, sense, used,
                     edits>>

\* The other outcome of reading a freed row.
FaultOnFreedRow ==
  /\ pc = "configure" /\ cur \cap idl.live = {}
  /\ Ends("freed")
  /\ UNCHANGED <<server, panel, sense, bounds>>

\* Bug: a structure that is not valid is never removed.
Unmarked_ValidOnly == valid \ marked

\* The subsystems to remove.
Unmarked == known \ marked

\* Bugs: their fans stay in fan_data; the whole of fan_data is cleared.
FansOf_Forgotten(names) == {}
FansOf_WholeIndex(names) == IF names = {} THEN {} ELSE fan_data

\* The fans in their subsystem_fans.
FansOf(names) == UNION {yamlFans[n] : n \in names \cap valid}

\* fand_remove_unmarked_subsystems, after the last row.
RemoveUnmarked ==
  LET gone  == Unmarked
      freed == FansOf(gone)
  IN  /\ pc = "scan" /\ todo = {}
      /\ known' = known \ gone /\ valid' = valid \ gone
      /\ loc' = [n \in Name |-> IF n \in gone THEN ClearedFields ELSE loc[n]]
      /\ fan_data' = fan_data \ freed
      /\ fan' = [f \in Fan |-> IF f \in freed THEN BlankLocal ELSE fan[f]]
      /\ pc' = "read"
      /\ UNCHANGED <<server, replica, todo, cur, marked, txn, panel, sense, bounds>>

-----------------------------------------------------------------------------
(* fand_read_status. *)

\* Bug: the speed of the structure is not brought up to date.
ReadFan_SpeedKept(f, n) ==
  [speed |-> fan[f].speed, direction |-> sense[f].direction,
   rpm |-> sense[f].rpm, status |-> sense[f].status]

\* What fand_read_fan_status stores in the structure of fan f of subsystem n.
ReadFan(f, n) ==
  [speed |-> loc[n].speed, direction |-> sense[f].direction,
   rpm |-> sense[f].rpm, status |-> sense[f].status]

\* The structures after fand_read_fan_status of every fan of every subsystem.
FansRead ==
  [f \in Fan |->
    IF \E n \in valid : f \in yamlFans[n]
    THEN ReadFan(f, CHOOSE n \in valid : f \in yamlFans[n])
    ELSE fan[f]]

\* The columns of the Fan row that says what structure l holds.
AsRow(l) ==
  [status    |-> fan_status_enum_to_string(l.status),
   speed     |-> fan_speed_enum_to_string(l.speed),
   direction |-> l.direction,
   rpm       |-> {l.rpm}]

\* Bug: setting cur_hw does not count as a change.
Change_FansOnly == pend' # {}

\* Whether there is anything to commit.
Change == pend' # {} \/ pend_hw'

\* Bug: a row is written when the structure has changed.
ToWrite_IfChanged == {f \in FanRows(idl) : fan[f] # fan'[f]}

\* The rows with a column that differs from the structure.
ToWrite == {f \in FanRows(idl) : idl.fan[f] # AsRow(fan'[f])}

\* Every Fan row is looked up in fan_data and the columns that differ are set.
ReadStatus ==
  /\ pc = "read" /\ FanRows(idl) \subseteq fan_data
  /\ fan' = FansRead
  /\ pend' = ToWrite
  /\ pend_hw' = ~cur_hw_set
  /\ cur_hw_set' = TRUE
  /\ refused' = FALSE
  /\ pc' = IF Change THEN "publish" ELSE "poll"
  /\ UNCHANGED <<server, replica, todo, cur, known, valid, marked, loc, fan_data,
                 panel, sense, bounds>>

\* shash_find returned NULL for the name of a Fan row, and its data is read.
FaultOnUnknownFan ==
  /\ pc = "read" /\ ~(FanRows(idl) \subseteq fan_data)
  /\ Ends("null")
  /\ UNCHANGED <<server, panel, sense, bounds>>

\* The server's tables after the transaction of fand_read_status.
WithStatus ==
  [db EXCEPT !.fan = [f \in Fan |-> IF f \in pend \cap FanRows(db)
                                    THEN AsRow(fan[f]) ELSE db.fan[f]]]

\* Bug: cur_hw is counted up in every transaction.
CurHwWritten_Counted == cur_hw + 1

CurHwWritten == IF pend_hw THEN 1 ELSE cur_hw

TxnDone == pc' = "poll" /\ pend' = {} /\ pend_hw' = FALSE

StatusCommitted ==
  /\ pc = "publish" /\ has_lock
  /\ db' = WithStatus /\ cur_hw' = CurHwWritten
  /\ Replicate(db')
  /\ TxnDone
  /\ UNCHANGED <<has_lock, todo, cur, tables, cur_hw_set, refused, panel, sense, bounds>>

\* The session drops meanwhile, as in AddNotCommitted.
StatusNotCommitted ==
  /\ pc = "publish" /\ has_lock
  /\ "commit" \in Faults /\ faults < MaxFaults
  /\ \/ db' = WithStatus /\ cur_hw' = CurHwWritten
     \/ UNCHANGED server
  /\ \E new \in {idl, db} : Replicate(new)
  /\ has_lock' = FALSE
  /\ faults' = faults + 1
  /\ TxnDone
  /\ UNCHANGED <<todo, cur, tables, cur_hw_set, refused, panel, sense, used, edits>>

\* The server refuses the transaction, as in AddRefused.  cur_hw_set stays set.
StatusRefused ==
  /\ pc = "publish" /\ has_lock
  /\ "refused" \in Faults /\ faults < MaxFaults
  /\ \E new \in {idl, db} : Replicate(new)
  /\ refused' = TRUE
  /\ faults' = faults + 1
  /\ TxnDone
  /\ UNCHANGED <<server, has_lock, todo, cur, tables, cur_hw_set, panel, sense, used,
                 edits>>

StatusNotLocked ==
  /\ pc = "publish" /\ ~has_lock
  /\ TxnDone
  /\ UNCHANGED <<server, replica, todo, cur, tables, cur_hw_set, refused, panel, sense,
                 bounds>>

-----------------------------------------------------------------------------
(* Failures. *)

Ended == {"down", "null", "freed"}

\* The process is killed, or leaves main because of the unixctl command "exit".
Terminate ==
  /\ "kill" \in Faults /\ faults < MaxFaults
  /\ pc \notin Ended
  /\ Ends("down")
  /\ faults' = faults + 1
  /\ UNCHANGED <<server, panel, sense, used, edits>>

\* Started again, by hand or by whoever monitors the daemon.
Restart ==
  /\ pc \in Ended
  /\ pc' = "poll"
  /\ UNCHANGED <<server, replica, todo, cur, tables, txn, panel, sense, bounds>>

\* The session drops between two passes, and the lock with it.
LoseSession ==
  /\ "session" \in Faults /\ faults < MaxFaults
  /\ pc = "poll" /\ has_lock
  /\ has_lock' = FALSE
  /\ faults' = faults + 1
  /\ UNCHANGED <<server, idl, alert, loop, tables, txn, panel, sense, used, edits>>

-----------------------------------------------------------------------------
(* The other writers of the database, and the fans. *)

Edit(kind) == kind \in Edits /\ edits < MaxEdits /\ edits' = edits + 1

Unaffected == UNCHANGED <<cur_hw, replica, loop, tables, txn, panel, faults>>

\* ops-tempd sets Temp_sensor:fan_state.
SetSensors(r, s) ==
  /\ Edit("sensors") /\ r \in db.live /\ db.sub[r].sensors # s
  /\ db' = [db EXCEPT !.sub[r].sensors = s]
  /\ UNCHANGED <<sense, used>> /\ Unaffected

\* The commands "fan-speed" and "no fan-speed", or ovs-vsctl.
SetOverride(r, o) ==
  /\ Edit("override") /\ r \in db.live /\ db.sub[r].override # o
  /\ db' = [db EXCEPT !.sub[r].override = o]
  /\ UNCHANGED <<sense, used>> /\ Unaffected

\* hw_desc_dir is filled in, or emptied.
SetDir(r) ==
  /\ Edit("dir") /\ r \in db.live /\ ~db.sub[r].dir
  /\ db' = [db EXCEPT !.sub[r].dir = TRUE]
  /\ UNCHANGED <<sense, used>> /\ Unaffected

ClearDir(r) ==
  /\ Edit("nodir") /\ r \in db.live /\ db.sub[r].dir
  /\ db' = [db EXCEPT !.sub[r].dir = FALSE]
  /\ UNCHANGED <<sense, used>> /\ Unaffected

\* A Subsystem row comes, under a name no other row has, and goes.
InsertRow(r) ==
  /\ Edit("insert") /\ r \notin used
  /\ \A q \in db.live : nameOf[q] # nameOf[r]
  /\ \E dir \in BOOLEAN, s \in SensorSets :
       db' = [db EXCEPT !.live = @ \cup {r},
                        !.sub[r] = [BlankSub EXCEPT !.dir = dir, !.sensors = s]]
  /\ used' = used \cup {r}
  /\ UNCHANGED sense /\ Unaffected

\* ("race" is the deletion of a row that a pass has read and not yet dealt with.)
DeleteRow(r) ==
  /\ Edit(IF r \in todo THEN "race" ELSE "delete") /\ r \in db.live
  /\ db' = Collect([db EXCEPT !.live = @ \ {r}, !.sub[r] = BlankSub])
  /\ UNCHANGED <<sense, used>> /\ Unaffected

\* Another program replaces Subsystem:fans, as the component tests do with
\* ovs-vsctl.  Only between two passes of the daemon.
SetForeignFans(r, s) ==
  /\ Edit("foreign") /\ pc \in {"poll"} \cup Ended
  /\ r \in db.live /\ db.sub[r].fans # s
  /\ db' = Collect([db EXCEPT !.sub[r].fans = s])
  /\ UNCHANGED <<sense, used>> /\ Unaffected

\* A fan fails, recovers, is pulled or turned round.
FanChanges(f, x) ==
  /\ Edit("fan") /\ sense[f] # x
  /\ sense' = [sense EXCEPT ![f] = x]
  /\ UNCHANGED <<db, used>> /\ Unaffected

-----------------------------------------------------------------------------
Daemon ==
  \/ Wake
  \/ \E r \in Row :
       \/ SkipInvalid(r) \/ AddInvalid(r) \/ AddSubsystem(r)
       \/ AddCommitted(r) \/ AddNotLocked(r) \/ Configure(r)
  \/ FaultOnFreedRow \/ RemoveUnmarked
  \/ ReadStatus \/ FaultOnUnknownFan \/ StatusCommitted \/ StatusNotLocked

Failure ==
  \/ \E r \in Row : AddNotCommitted(r) \/ AddRefused(r)
  \/ StatusNotCommitted \/ StatusRefused \/ Terminate \/ LoseSession

\* The subsystems whose register a step of the daemon writes: those of the row being
\* added, and of a row the loop deals with that has a structure.
Touched ==
  IF pc' \in {"configure", "scan"}
  THEN {nameOf[r] : r \in cur \cup {q \in todo \ todo' : pc = "scan" /\ nameOf[q] \in valid}}
  ELSE {}

Writers ==
  \/ \E r \in Row :
       \/ \E s \in SensorSets : SetSensors(r, s)
       \/ \E o \in Overrides : SetOverride(r, o)
       \/ SetDir(r) \/ ClearDir(r) \/ InsertRow(r) \/ DeleteRow(r)
       \/ \E s \in ForeignSets : SetForeignFans(r, s)
  \/ \E f \in Fan, x \in Readings : FanChanges(f, x)

Next == Daemon \/ WakeWithLock \/ Restart \/ Failure \/ Writers

Spec == Init /\ [][Next]_vars

\* The main loop runs as long as the process does: poll_block returns at the
\* latest after FAN_POLL_INTERVAL, and the server answers a transaction.  A
\* lock that was lost is granted again.  Nothing else has to happen.
Fairness == WF_vars(Daemon) /\ WF_vars(WakeWithLock)

FairSpec == Spec /\ Fairness

-----------------------------------------------------------------------------
(* Correctness. *)

LocalSpeed == [fan_speed : SpeedEnum, fan_speed_override : SpeedEnum, speed : Speed]
LocalFan   == [speed : Speed, direction : DirectionString, rpm : Int, status : Status]
Tables     == [live : SUBSET Row, sub : [Row -> SubRow], fan : [Fan -> FanRow]]

\* Every variable has the type its declaration suggests.
TypeOK ==
  /\ db \in Tables /\ idl \in Tables
  /\ cur_hw \in {0, 1}
  /\ alert \in BOOLEAN /\ has_lock \in BOOLEAN
  /\ pc \in {"poll", "scan", "adding", "configure", "read", "publish"} \cup Ended
  /\ todo \subseteq Row /\ cur \subseteq Row
  /\ known \subseteq Name /\ valid \subseteq Name /\ marked \subseteq Name
  /\ loc \in [Name -> LocalSpeed]
  /\ fan_data \subseteq Fan /\ fan \in [Fan -> LocalFan]
  /\ cur_hw_set \in BOOLEAN /\ pend \subseteq Fan /\ pend_hw \in BOOLEAN
  /\ refused \in BOOLEAN
  /\ reg \in [Name -> Nat] /\ led \in [Name -> {"off", "good", "fault"}]
  /\ sense \in [Fan -> Readings]
  /\ used \subseteq Row /\ edits \in Nat /\ faults \in Nat

\* What physfan.c:129 promises of a Subsystem row: "max" by a sensor wins, then a
\* proper override, then the highest speed a sensor asks for, "slow" if none does.
Wanted(sub) ==
  IF "max" \in sub.sensors THEN FAND_SPEED_MAX
  ELSE IF sub.override \in SpeedString THEN fan_speed_string_to_enum(sub.override)
  ELSE CHOOSE s \in Speed :
         /\ s = FAND_SPEED_SLOW \/ fan_speed_enum_to_string(s) \in sub.sensors
         /\ \A t \in Speed : fan_speed_enum_to_string(t) \in sub.sensors => t <= s

\* Between two passes, when the IDL has told the daemon of no change since the
\* last one began, each subsystem the daemon manages has the speed its row calls
\* for, in the record and (unless register writes fail) in the register.  A
\* change that comes in while add_subsystem waits must not be taken for seen.
SettledSpeed ==
  pc = "poll" /\ ~alert =>
    \A r \in idl.live : nameOf[r] \in valid =>
      LET n == nameOf[r]
      IN  /\ loc[n].speed = Wanted(idl.sub[r])
          /\ "i2c" \notin Faults => reg[n] = Setting[Wanted(idl.sub[r])]

\* And if it has the lock, that speed is the one the Fan rows report, unless the
\* server has just refused to take it: whatever failed before, one pass makes up for.
ReportedSpeed ==
  pc = "poll" /\ ~alert /\ has_lock /\ ~refused =>
    \A r \in idl.live : nameOf[r] \in valid =>
      \A f \in FanRows(db) \cap yamlFans[nameOf[r]] :
        db.fan[f].speed = fan_speed_enum_to_string(Wanted(idl.sub[r]))

\* At the same moments the daemon manages every subsystem whose description
\* loads, one whose hw_desc_dir came late included, and none whose row is gone.
ManagesWhatIsThere ==
  pc = "poll" /\ ~alert =>
    /\ known \subseteq {nameOf[r] : r \in idl.live}
    /\ \A r \in idl.live : idl.sub[r].dir => nameOf[r] \in valid

\* A structure add_subsystem gave up on does not outlive the pass (so the next
\* pass tries again), and fan_data indexes exactly the fans of the valid ones.
TablesAgree ==
  /\ pc \in {"read", "publish", "poll"} => known = valid
  /\ fan_data = UNION {yamlFans[n] : n \in valid}

\* fand_read_status finds every Fan row of the database in fan_data.
EveryFanRowKnown == pc # "null"

\* The row whose pointer fand_reconfigure holds is still there when it reads it.
CfgStillThere == pc = "configure" => cur \subseteq idl.live

\* What the rows whose description loads call for.
Demand(d) ==
  [r \in Row |-> IF r \in d.live /\ d.sub[r].dir THEN Wanted(d.sub[r]) ELSE FAND_SPEED_NONE]

InLoop == pc \in {"scan", "adding", "configure"}

Control == INSTANCE FanControl WITH
  Client <- Row, NoDemand <- FAND_SPEED_NONE, boardOf <- nameOf, Level <- Setting,
  demand <- Demand(db), seen <- Demand(idl), level <- reg,
  settled <- ~InLoop /\ ~alert

\* The daemon is a controller as FanControl describes it: a pass that had news
\* ends with every register as its rows call for, whatever happened meanwhile,
\* and nothing but news, or the end of the process, makes it touch one again.
ImplementsFanControl == Control!Spec

-----------------------------------------------------------------------------
(* What must come about when the process stays up. *)

Up == pc \notin Ended

\* The register of every subsystem follows the database.
HardwareFollows ==
  <>[]Up => <>[](\A r \in db.live :
                   db.sub[r].dir => reg[nameOf[r]] = Setting[Wanted(db.sub[r])])

\* The columns of every Fan row follow the fan and the speed.
StatusFollows ==
  <>[]Up => <>[](\A r \in db.live : \A f \in db.sub[r].fans \cap yamlFans[nameOf[r]] :
                   db.fan[f] = AsRow([speed     |-> Wanted(db.sub[r]),
                                      direction |-> sense[f].direction,
                                      rpm       |-> sense[f].rpm,
                                      status    |-> sense[f].status]))

\* The Fan rows of a subsystem whose description loads are there.
FanRowsAppear ==
  <>[]Up => <>[](\A r \in db.live :
                   db.sub[r].dir => db.sub[r].fans = yamlFans[nameOf[r]])

\* The daemon reports the hardware as handled.
CurHwReported == <>[]Up => <>[](cur_hw = 1)

\* The status LED of every subsystem shows its worst fan.
LedFollows ==
  <>[]Up => <>[](\A r \in db.live : db.sub[r].dir =>
                   \E f \in yamlFans[nameOf[r]] :
                     /\ led[nameOf[r]] = LedValue(sense[f].status)
                     /\ \A g \in yamlFans[nameOf[r]] : sense[g].status <= sense[f].status)
=============================================================================
