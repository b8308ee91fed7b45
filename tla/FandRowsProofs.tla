--------------------------- MODULE FandRowsProofs ---------------------------
(***************************************************************************)
(* fand_read_status dereferences what shash_find returns for the name of   *)
(* every Fan row.  That this never is NULL depends on the surroundings:    *)
(* here it is proved for those in which transactions are neither lost nor  *)
(* refused, the hash table of the rows is not rebuilt under the iterator,  *)
(* no description goes, nobody else writes Subsystem:fans and no row is    *)
(* deleted between the moment a pass reads it and the moment it deals with *)
(* it.  Kills, restarts and lost sessions are allowed.                     *)
(***************************************************************************)
EXTENDS FandSafetyProofs

Calm == /\ Faults \cap {"commit", "refused", "rehash"} = {}
        /\ Edits \cap {"nodir", "race", "foreign"} = {}

\* Rows with fans are there, have a description and the fans it lists.
FansListed(d) ==
  \A r \in Row : d.sub[r].fans # {} =>
    r \in d.live /\ d.sub[r].dir /\ d.sub[r].fans = yamlFans[nameOf[r]]

\* The lock is not lost in the middle of a pass.
LockHeld == pc \notin {"poll"} \cup Ended => has_lock

\* The copy is an older state of the same rows, whose descriptions have stayed.
CopyIsOlder ==
  /\ db.live \subseteq used /\ idl.live \subseteq used
  /\ \A r \in db.live \cap idl.live : idl.sub[r].dir => db.sub[r].dir

\* Fans are written by this daemon only, so while its session lasts it knows of
\* every row that has some.
FansReplicated ==
  has_lock => \A r \in Row : db.sub[r].fans # {} => idl.sub[r].fans = db.sub[r].fans

\* The rows the pass has to visit stay until it has, the one being added included.
ToVisitStay ==
  /\ todo \subseteq db.live
  /\ cur \subseteq todo

\* The daemon manages the subsystem of every row that has fans, or is about to.
FansManaged ==
  \A r \in Row : idl.sub[r].fans # {} =>
    IF InLoop
    THEN nameOf[r] \in marked \/ (r \in todo /\ nameOf[r] \notin known \ valid)
    ELSE nameOf[r] \in valid

\* add_subsystem waits for a commit only for a row with a description.
AddedHasDir == pc = "adding" => \A r \in cur : idl.sub[r].dir

RowsPart ==
  /\ FansListed(db) /\ FansListed(idl)
  /\ LockHeld /\ CopyIsOlder /\ FansReplicated /\ ToVisitStay /\ FansManaged
  /\ AddedHasDir
  /\ pc # "null"

RowsInv == IInv /\ RowsPart

-----------------------------------------------------------------------------
(* The steps of a pass. *)

\* A pass begins with an exact copy and every row to visit.
LEMMA RowsWake ==
  ASSUME RowsInv, Wake \/ WakeWithLock
  PROVE  RowsPart'
<1>1. /\ pc = "poll" /\ todo = {} /\ cur = {} /\ known \ valid = {} /\ has_lock' = TRUE
      /\ UNCHANGED <<db, used, cur, known, valid>>
  BY DEF RowsInv, IInv, LoopShape, FlagShape, InLoop, Wake, WakeWithLock, NewsAtLock, Run,
     server, bounds
<1>2. idl' = db
  BY DEF Wake, WakeWithLock, NewsAtLock, Run
<1>3. /\ FansListed(db)' /\ FansListed(idl)' /\ LockHeld' /\ CopyIsOlder' /\ FansReplicated'
  BY <1>1, <1>2 DEF RowsInv, RowsPart, FansListed, LockHeld, CopyIsOlder, FansReplicated
<1>4. CASE pc' = "scan" /\ todo' = db.live
  BY <1>1, <1>2, <1>3, <1>4 DEF RowsInv, RowsPart, FansListed, ToVisitStay, FansManaged,
     AddedHasDir, InLoop
<1>5. CASE pc' = "read" /\ todo' = todo /\ idl'.sub = idl.sub
  BY <1>1, <1>2, <1>3, <1>5 DEF RowsInv, RowsPart, ToVisitStay, FansManaged, AddedHasDir, InLoop
<1>6. \/ pc' = "scan" /\ todo' = db.live
      \/ pc' = "read" /\ todo' = todo /\ idl'.sub = idl.sub
  <2>1. CASE Run(db, TRUE)
    BY <2>1 DEF Run
  <2>2. CASE Run(db, alert \/ Alerts(idl, db))
    BY <2>2, <1>2 DEF Run, Alerts
  <2> QED
    BY <2>1, <2>2 DEF Wake, WakeWithLock, NewsAtLock
<1> QED
  BY <1>4, <1>5, <1>6

\* A row passed over has no fans.
LEMMA RowsIgnore ==
  ASSUME RowsInv, NEW r \in Row, SkipInvalid(r) \/ AddInvalid(r)
  PROVE  RowsPart'
<1>1. /\ pc = "scan" /\ r \in todo /\ todo' = todo \ {r} /\ cur = {} /\ nameOf[r] \notin valid
      /\ todo \subseteq idl.live
      /\ known' \subseteq known \cup {nameOf[r]}
      /\ UNCHANGED <<db, idl, used, has_lock, pc, cur, valid, marked>>
  BY DEF RowsInv, IInv, LoopShape, FlagShape, InLoop, SkipInvalid, AddInvalid, server,
         replica, tables, bounds
<1>2. ASSUME NEW q \in Row, idl.sub[q].fans # {}
      PROVE  /\ q # r
             /\ q \in todo /\ nameOf[q] \notin known \ valid => nameOf[q] \notin known' \ valid
  <2>1. q \in idl.live /\ idl.sub[q].dir
    BY <1>2 DEF RowsInv, RowsPart, FansListed
  <2>2. CASE SkipInvalid(r)
    <3>1. known' = known /\ nameOf[r] \in known \ valid
      BY <2>2 DEF SkipInvalid, tables
    <3> QED
      BY <1>1, <1>2, <3>1 DEF RowsInv, RowsPart, FansManaged, IInv, FlagShape, InLoop
  <2>3. CASE AddInvalid(r)
    <3>1. q # r /\ r \in idl.live
      BY <1>1, <2>1, <2>3 DEF AddInvalid
    <3>2. nameOf[q] # nameOf[r]
      BY <2>1, <3>1 DEF RowsInv, IInv, NamesUnique
    <3> QED
      BY <1>1, <3>1, <3>2
  <2> QED
    BY <2>2, <2>3
<1>3. FansManaged'
  BY <1>1, <1>2 DEF RowsInv, RowsPart, FansManaged, InLoop
<1> QED
  BY <1>1, <1>3 DEF RowsInv, RowsPart, FansListed, LockHeld, CopyIsOlder, FansReplicated,
     ToVisitStay, AddedHasDir

\* The row being added keeps its place in the loop.
LEMMA RowsAdd ==
  ASSUME RowsInv, NEW r \in Row, AddSubsystem(r)
  PROVE  RowsPart'
<1>1. /\ pc = "scan" /\ r \in todo /\ pc' = "adding" /\ cur' = {r} /\ idl.sub[r].dir
      /\ known' = known \cup {nameOf[r]} /\ valid' = valid \cup {nameOf[r]}
      /\ UNCHANGED <<db, idl, used, has_lock, todo, marked>>
  BY DEF AddSubsystem, server, replica, bounds
<1> QED
  BY <1>1 DEF RowsInv, RowsPart, FansListed, LockHeld, CopyIsOlder, FansReplicated, ToVisitStay,
     FansManaged, AddedHasDir, InLoop, Ended

\* Its transaction gives it the fans of its description, and the copy is exact.
LEMMA RowsAdded ==
  ASSUME Calm, RowsInv, NEW r \in Row, AddCommitted(r)
  PROVE  RowsPart'
<1>1. /\ pc = "adding" /\ cur = {r} /\ has_lock /\ nameOf[r] \in valid /\ pc' = "configure"
      /\ r \in todo /\ todo \subseteq db.live /\ todo \subseteq idl.live /\ idl.sub[r].dir
      /\ idl' = db' /\ db' = WithFanRows(r) /\ todo' \in StillToVisit(db')
      /\ UNCHANGED <<used, has_lock, cur, known, valid, marked>>
  <2>1. pc = "adding" /\ r \in cur
    BY DEF AddCommitted
  <2>2. cur = {r} /\ nameOf[r] \in valid
    BY <2>1 DEF RowsInv, IInv, LoopShape
  <2> QED
    BY <2>1, <2>2 DEF AddCommitted, Replicate, RowsInv, RowsPart, ToVisitStay, AddedHasDir,
       IInv, LoopShape, InLoop
<1> DEFINE d == [db EXCEPT
         !.sub[r].fans = yamlFans[nameOf[r]],
         !.fan = [f \in Fan |-> IF f \in yamlFans[nameOf[r]]
                                THEN UninitializedFan(db.fan[f]) ELSE db.fan[f]]]
<1>2. r \in db.live /\ db' = Collect(d)
  BY <1>1 DEF WithFanRows
<1>3. d.live = db.live /\ d.sub = [db.sub EXCEPT ![r].fans = yamlFans[nameOf[r]]]
  BY DEF RowsInv, IInv, TypeOK, Tables
<1>4. Collect(d).live = d.live /\ Collect(d).sub = d.sub
  <2> HIDE DEF d
  <2> QED
    BY DEF Collect
<1>5. /\ db'.live = db.live
      /\ \A q \in Row : q # r => db'.sub[q] = db.sub[q]
      /\ db'.sub[r].fans = yamlFans[nameOf[r]] /\ db'.sub[r].dir = db.sub[r].dir
  <2>1. db.sub \in [Row -> SubRow]
    BY DEF RowsInv, IInv, TypeOK, Tables
  <2>2. db'.sub = [db.sub EXCEPT ![r].fans = yamlFans[nameOf[r]]] /\ db'.live = db.live
    BY <1>2, <1>3, <1>4
  <2> QED
    BY <2>1, <2>2 DEF SubRow
<1>6. db.sub[r].dir
  BY <1>1 DEF RowsInv, RowsPart, CopyIsOlder
<1>7. FansListed(db)' /\ FansListed(idl)'
  BY <1>1, <1>2, <1>5, <1>6 DEF RowsInv, RowsPart, FansListed
<1>8. todo' \subseteq db.live /\ todo \subseteq todo'
  BY <1>1, <1>5 DEF Calm, StillToVisit, InsertedRows, RehashedRows
<1>9. FansManaged'
  <2>1. ASSUME NEW q \in Row, q # r, db'.sub[q].fans # {}
        PROVE  nameOf[q] \in marked \/ (q \in todo /\ nameOf[q] \notin known \ valid)
    BY <1>1, <1>5, <2>1 DEF RowsInv, RowsPart, FansReplicated, FansManaged, InLoop
  <2> QED
    BY <1>1, <1>8, <2>1 DEF FansManaged, InLoop
<1>10. CopyIsOlder' /\ FansReplicated' /\ LockHeld'
  BY <1>1, <1>5 DEF RowsInv, RowsPart, CopyIsOlder, FansReplicated, LockHeld
<1>11. ToVisitStay' /\ AddedHasDir' /\ pc' # "null"
  BY <1>1, <1>5, <1>8 DEF ToVisitStay, AddedHasDir
<1> QED
  BY <1>7, <1>9, <1>10, <1>11 DEF RowsPart

\* A row dealt with has its subsystem marked, and no other row leaves the loop.
LEMMA RowsConfigure ==
  ASSUME RowsInv, NEW r \in Row, Configure(r)
  PROVE  RowsPart'
<1>1. /\ pc \in {"scan", "configure"} /\ r \in todo /\ todo \subseteq idl.live
      /\ todo' = todo \ {r} /\ pc' = "scan" /\ cur' = {} /\ marked' = marked \cup {nameOf[r]}
      /\ UNCHANGED <<db, idl, used, has_lock, known, valid>>
  <2>1. /\ \/ pc = "configure" /\ r \in cur
           \/ pc = "scan" /\ r \in todo
        /\ todo' \in VisitedUpTo(r) /\ pc' = "scan" /\ cur' = {}
        /\ marked' = marked \cup {nameOf[r]}
        /\ UNCHANGED <<db, idl, used, has_lock, known, valid>>
    BY DEF Configure, server, replica
  <2>2. r \in todo /\ todo \subseteq idl.live
    BY <2>1 DEF RowsInv, RowsPart, ToVisitStay, IInv, LoopShape, InLoop
  <2> QED
    BY <2>1, <2>2 DEF VisitedUpTo
<1> QED
  BY <1>1 DEF RowsInv, RowsPart, FansListed, LockHeld, CopyIsOlder, FansReplicated, ToVisitStay,
     FansManaged, AddedHasDir, InLoop, Ended

\* What is removed has no mark, and every row with fans has one by then.
LEMMA RowsRemove ==
  ASSUME RowsInv, RemoveUnmarked
  PROVE  RowsPart'
<1>1. /\ pc = "scan" /\ todo = {} /\ pc' = "read"
      /\ valid' = valid \ (known \ marked) /\ marked \subseteq valid
      /\ UNCHANGED <<db, idl, used, has_lock, todo, cur, marked>>
  BY DEF RemoveUnmarked, Unmarked, server, replica, bounds, RowsInv, IInv, FlagShape
<1> QED
  BY <1>1 DEF RowsInv, RowsPart, FansListed, LockHeld, CopyIsOlder, FansReplicated, ToVisitStay,
     FansManaged, AddedHasDir, InLoop, Ended

\* After the loop every Fan row of the copy is in fan_data.
LEMMA FanRowsIndexed ==
  ASSUME RowsInv, pc = "read"
  PROVE  FanRows(idl) \subseteq fan_data
<1>1. ASSUME NEW r \in idl.live, NEW f \in idl.sub[r].fans
      PROVE  f \in fan_data
  <2>1. r \in Row
    BY DEF RowsInv, IInv, TypeOK, Tables
  <2>2. nameOf[r] \in valid /\ f \in yamlFans[nameOf[r]]
    BY <1>1, <2>1 DEF RowsInv, RowsPart, FansManaged, FansListed, InLoop
  <2> QED
    BY <2>2 DEF RowsInv, IInv, FansIndexed
<1> QED
  BY <1>1 DEF FanRows

\* The status pass changes Fan columns only.
LEMMA RowsQuiet ==
  ASSUME RowsInv, \/ ReadStatus \/ StatusCommitted \/ StatusNotLocked
                  \/ LoseSession \/ Restart
  PROVE  RowsPart'
<1>1. /\ pc \in {"read", "publish", "poll"} \cup Ended
      /\ pc' \in {"read", "publish", "poll"} /\ (pc' # "poll" => has_lock')
      /\ has_lock' => has_lock
      /\ UNCHANGED <<todo, cur, known, valid, marked, used>>
  BY DEF ReadStatus, StatusCommitted, StatusNotLocked, LoseSession, Restart, TxnDone, tables,
         replica, loop, bounds, RowsInv, RowsPart, LockHeld, Ended
<1>2. todo = {} /\ cur = {} /\ ~InLoop /\ ~InLoop'
  BY <1>1 DEF RowsInv, IInv, LoopShape, InLoop, Ended
<1>3. CASE StatusCommitted
  <2>1. db'.live = db.live /\ db'.sub = db.sub /\ idl' = db' /\ has_lock
    BY <1>3, TransactionTypes DEF StatusCommitted, Replicate, RowsInv, IInv
  <2> QED
    BY <1>1, <1>2, <2>1 DEF RowsInv, RowsPart, FansListed, LockHeld, CopyIsOlder, FansReplicated,
       ToVisitStay, FansManaged, AddedHasDir
<1>4. CASE ReadStatus \/ StatusNotLocked \/ LoseSession \/ Restart
  <2>1. UNCHANGED <<db, idl>>
    BY <1>4 DEF ReadStatus, StatusNotLocked, LoseSession, Restart, server, replica
  <2> QED
    BY <1>1, <1>2, <2>1 DEF RowsInv, RowsPart, FansListed, LockHeld, CopyIsOlder, FansReplicated,
       ToVisitStay, FansManaged, AddedHasDir
<1> QED
  BY <1>3, <1>4

\* A process that ended has no copy.
LEMMA RowsEnd ==
  ASSUME RowsInv, NEW where \in {"down", "freed"}, Ends(where), UNCHANGED <<db, used>>
  PROVE  RowsPart'
<1>1. idl'.live = {} /\ \A r \in Row : idl'.sub[r].fans = {}
  BY DEF Ends, NoRows, BlankSub
<1>2. /\ pc' = where /\ pc' \in Ended /\ has_lock' = FALSE /\ todo' = {} /\ cur' = {}
  BY DEF Ends, Ended
<1> QED
  BY <1>1, <1>2 DEF RowsInv, RowsPart, FansListed, LockHeld, CopyIsOlder, FansReplicated,
     ToVisitStay, FansManaged, AddedHasDir

-----------------------------------------------------------------------------
(* The other writers. *)

\* In calm surroundings they take away no fans but with their row, no row the
\* pass has yet to visit, and no description.
LEMMA RowsWriters ==
  ASSUME Calm, RowsInv, Writers
  PROVE  RowsPart'
<1>1. UNCHANGED <<replica, loop, tables, txn, panel>>
  BY WritersKeepProcess DEF RowsInv, IInv
<1> DEFINE Mild ==
      /\ db'.live \subseteq used' /\ used \subseteq used' /\ todo \subseteq db'.live
      /\ \A q \in Row : db'.sub[q].fans # {} =>
           q \in db'.live /\ db'.sub[q].dir /\ db'.sub[q].fans = db.sub[q].fans
      /\ \A q \in db'.live \cap idl.live : idl.sub[q].dir => db'.sub[q].dir
<1>2. ASSUME Mild
      PROVE  RowsPart'
  <2>1. UNCHANGED <<idl, has_lock, pc, todo, cur, known, valid, marked>>
    BY <1>1 DEF replica, loop, tables
  <2>2. FansListed(db)' /\ FansListed(idl)' /\ FansReplicated' /\ CopyIsOlder' /\ ToVisitStay'
    BY <1>2, <2>1 DEF RowsInv, RowsPart, FansListed, FansReplicated, CopyIsOlder, ToVisitStay
  <2>3. LockHeld' /\ FansManaged' /\ AddedHasDir' /\ pc' # "null"
    BY <2>1 DEF RowsInv, RowsPart, LockHeld, FansManaged, AddedHasDir, InLoop
  <2> QED
    BY <2>2, <2>3 DEF RowsPart
<1>3. /\ db.live \subseteq used /\ todo \subseteq db.live /\ db \in Tables /\ used \subseteq Row
      /\ \A q \in Row : db.sub[q].fans # {} => q \in db.live /\ db.sub[q].dir
      /\ \A q \in db.live \cap idl.live : idl.sub[q].dir => db.sub[q].dir
      /\ idl.live \subseteq used /\ idl.live \subseteq Row
      /\ db.sub \in [Row -> SubRow] /\ db.live \subseteq Row
  BY DEF RowsInv, RowsPart, IInv, TypeOK, Tables, ToVisitStay, CopyIsOlder, FansListed
<1>4. ASSUME NEW r \in Row, NEW row \in SubRow, db' = [db EXCEPT !.sub[r] = row],
             row.fans = db.sub[r].fans, db.sub[r].dir => row.dir, used' = used
      PROVE  Mild
  <2>1. db'.live = db.live /\ db'.sub = [db.sub EXCEPT ![r] = row]
    BY <1>3, <1>4 DEF Tables
  <2>2. \A q \in Row : db'.sub[q].fans = db.sub[q].fans /\ (db.sub[q].dir => db'.sub[q].dir)
    BY <1>3, <1>4, <2>1
  <2> QED
    BY <1>3, <1>4, <2>1, <2>2
<1>5. \A r \in Row : db.sub[r] \in SubRow
  BY <1>3
<1>6. ASSUME NEW r \in Row, NEW s \in SensorSets, SetSensors(r, s)
      PROVE  Mild
  <2>1. [db.sub[r] EXCEPT !.sensors = s] \in SubRow
    BY <1>5, RowTypes
  <2>2. db' = [db EXCEPT !.sub[r] = [db.sub[r] EXCEPT !.sensors = s]] /\ used' = used
    BY <1>6 DEF SetSensors
  <2>3. /\ [db.sub[r] EXCEPT !.sensors = s].fans = db.sub[r].fans
        /\ [db.sub[r] EXCEPT !.sensors = s].dir = db.sub[r].dir
    BY <1>5 DEF SubRow
  <2> QED
    BY <1>4, <2>1, <2>2, <2>3
<1>7. ASSUME NEW r \in Row, NEW o \in Overrides, SetOverride(r, o)
      PROVE  Mild
  <2>1. [db.sub[r] EXCEPT !.override = o] \in SubRow
    BY <1>5, RowTypes
  <2>2. db' = [db EXCEPT !.sub[r] = [db.sub[r] EXCEPT !.override = o]] /\ used' = used
    BY <1>7 DEF SetOverride
  <2>3. /\ [db.sub[r] EXCEPT !.override = o].fans = db.sub[r].fans
        /\ [db.sub[r] EXCEPT !.override = o].dir = db.sub[r].dir
    BY <1>5 DEF SubRow
  <2> QED
    BY <1>4, <2>1, <2>2, <2>3
<1>8. ASSUME NEW r \in Row, SetDir(r)
      PROVE  Mild
  <2>1. [db.sub[r] EXCEPT !.dir = TRUE] \in SubRow
    BY <1>5, RowTypes
  <2>2. db' = [db EXCEPT !.sub[r] = [db.sub[r] EXCEPT !.dir = TRUE]] /\ used' = used
    BY <1>8 DEF SetDir
  <2>3. /\ [db.sub[r] EXCEPT !.dir = TRUE].fans = db.sub[r].fans
        /\ [db.sub[r] EXCEPT !.dir = TRUE].dir
    BY <1>5 DEF SubRow
  <2> QED
    BY <1>4, <2>1, <2>2, <2>3
<1>9. ASSUME NEW r \in Row, InsertRow(r)
      PROVE  Mild
  <2>1. PICK dir \in BOOLEAN, s \in SensorSets :
          db' = [db EXCEPT !.live = @ \cup {r},
                           !.sub[r] = [BlankSub EXCEPT !.dir = dir, !.sensors = s]]
    BY <1>9 DEF InsertRow
  <2> DEFINE row == [BlankSub EXCEPT !.dir = dir, !.sensors = s]
  <2>2. row.fans = {} /\ r \notin used /\ used' = used \cup {r}
    BY <1>9 DEF BlankSub, InsertRow
  <2>3. db'.live = db.live \cup {r} /\ db'.sub = [db.sub EXCEPT ![r] = row]
    BY <1>3, <2>1 DEF Tables
  <2> HIDE DEF row
  <2>4. db'.sub[r].fans = {} /\ \A q \in Row : q # r => db'.sub[q] = db.sub[q]
    BY <1>3, <2>2, <2>3
  <2>5. r \notin idl.live
    BY <1>3, <2>2
  <2> QED
    BY <1>3, <2>2, <2>3, <2>4, <2>5
<1>10. ASSUME NEW r \in Row, DeleteRow(r)
       PROVE  Mild
  <2>1. r \notin todo
    BY <1>10 DEF Calm, DeleteRow, Edit
  <2> DEFINE d == [db EXCEPT !.live = @ \ {r}, !.sub[r] = BlankSub]
  <2>2. db' = Collect(d) /\ used' = used
    BY <1>10 DEF DeleteRow
  <2>3. d.live = db.live \ {r} /\ d.sub = [db.sub EXCEPT ![r] = BlankSub]
    BY <1>3 DEF Tables
  <2>4. Collect(d).live = d.live /\ Collect(d).sub = d.sub
    <3> HIDE DEF d
    <3> QED
      BY DEF Collect
  <2>5. /\ db'.live = db.live \ {r} /\ db'.sub[r].fans = {}
        /\ \A q \in Row : q # r => db'.sub[q] = db.sub[q]
    <3>1. db'.live = db.live \ {r} /\ db'.sub = [db.sub EXCEPT ![r] = BlankSub]
      <4> HIDE DEF d
      <4> QED
        BY <2>2, <2>3, <2>4
    <3>2. BlankSub.fans = {}
      BY DEF BlankSub
    <3> HIDE DEF d
    <3> QED
      BY <1>3, <3>1, <3>2
  <2>6. db'.live \subseteq used' /\ used \subseteq used' /\ todo \subseteq db'.live
    BY <1>3, <2>1, <2>2, <2>5
  <2>7. ASSUME NEW q \in Row, db'.sub[q].fans # {}
        PROVE  q \in db'.live /\ db'.sub[q].dir /\ db'.sub[q].fans = db.sub[q].fans
    <3>1. q # r /\ db'.sub[q] = db.sub[q]
      BY <2>5, <2>7
    <3> QED
      BY <1>3, <2>5, <2>7, <3>1
  <2>8. ASSUME NEW q \in db'.live \cap idl.live, idl.sub[q].dir
        PROVE  db'.sub[q].dir
    <3>1. q # r /\ q \in Row /\ q \in db.live
      BY <1>3, <2>5
    <3> QED
      BY <1>3, <2>5, <2>8, <3>1
  <2> QED
    BY <2>6, <2>7, <2>8
<1>11. ASSUME NEW f \in Fan, NEW x \in Readings, FanChanges(f, x)
       PROVE  Mild
  <2>1. db' = db /\ used' = used
    BY <1>11 DEF FanChanges
  <2> QED
    BY <1>3, <2>1
<1>12. \A r \in Row : ~ClearDir(r) /\ \A s \in ForeignSets : ~SetForeignFans(r, s)
  BY DEF Calm, ClearDir, SetForeignFans, Edit
<1> HIDE DEF Mild
<1> QED
  BY <1>2, <1>6, <1>7, <1>8, <1>9, <1>10, <1>11, <1>12 DEF Writers

-----------------------------------------------------------------------------
\* In calm surroundings fand_read_status finds every Fan row of the database in
\* fan_data (fand.c:462), whatever is killed or disconnected meanwhile.
THEOREM FanRowsKnown ==
  ASSUME Calm
  PROVE  Spec => []EveryFanRowKnown
<1>1. Init => RowsInv
  <2> SUFFICES ASSUME Init PROVE RowsInv
    OBVIOUS
  <2>1. IInv
    BY InitialInvariant
  <2>2. PICK sub \in [Row -> SubRow] :
          /\ \A r \in Row : sub[r].fans = {}
          /\ db = [NoRows EXCEPT !.live = InitLive, !.sub = sub]
    BY DEF Init
  <2>3. db.live = InitLive /\ \A r \in Row : db.sub[r].fans = {}
    BY <2>2 DEF NoRows
  <2> QED
    BY <2>1, <2>3 DEF RowsInv, RowsPart, Init, ProcessInit, NoRows, BlankSub, FansListed, LockHeld,
       CopyIsOlder, FansReplicated, ToVisitStay, FansManaged, AddedHasDir
<1>2. RowsInv /\ [Next]_vars => RowsInv'
  <2> SUFFICES ASSUME RowsInv, [Next]_vars PROVE RowsInv'
    OBVIOUS
  <2>1. IInv'
    BY InductiveStep DEF RowsInv
  <2>2. \A r \in Row : ~AddNotCommitted(r) /\ ~AddRefused(r) /\ ~AddNotLocked(r)
    BY DEF AddNotCommitted, AddRefused, AddNotLocked, Calm, RowsInv, RowsPart, LockHeld, Ended
  <2>3. ~StatusNotCommitted /\ ~StatusRefused /\ ~FaultOnUnknownFan
    BY FanRowsIndexed DEF StatusNotCommitted, StatusRefused, FaultOnUnknownFan, Calm
  <2>4. CASE FaultOnFreedRow \/ Terminate
    <3>1. PICK where \in {"down", "freed"} : Ends(where)
      BY <2>4 DEF FaultOnFreedRow, Terminate
    <3>2. UNCHANGED <<db, used>>
      BY <2>4 DEF FaultOnFreedRow, Terminate, server, bounds
    <3> QED
      BY <2>1, <3>1, <3>2, RowsEnd DEF RowsInv
  <2>5. CASE UNCHANGED vars
    <3>1. UNCHANGED <<db, idl, used, has_lock, pc, todo, cur, known, valid, marked>>
      BY <2>5 DEF vars, server, replica, loop, tables, bounds
    <3> QED
      BY <2>1, <3>1 DEF RowsInv, RowsPart, FansListed, LockHeld, CopyIsOlder, FansReplicated,
         ToVisitStay, FansManaged, AddedHasDir, InLoop
  <2>6. CASE Writers
    BY <2>1, <2>6, RowsWriters DEF RowsInv
  <2>7. CASE Daemon \/ WakeWithLock \/ Restart \/ Failure
    <3>1. RowsPart' \/ FaultOnFreedRow \/ Terminate
      BY <2>2, <2>3, <2>7, RowsWake, RowsIgnore, RowsAdd, RowsAdded, RowsConfigure, RowsRemove,
         RowsQuiet DEF Daemon, Failure
    <3> QED
      BY <2>1, <2>4, <3>1 DEF RowsInv
  <2> QED
    BY <2>5, <2>6, <2>7 DEF Next
<1>3. RowsInv => EveryFanRowKnown
  BY DEF RowsInv, RowsPart, EveryFanRowKnown
<1> QED
  BY <1>1, <1>2, <1>3, PTL DEF Spec
=============================================================================
