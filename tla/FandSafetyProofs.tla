-------------------------- MODULE FandSafetyProofs --------------------------
(***************************************************************************)
(* The safety properties of Fand hold for every value of the constants.    *)
(* None of them is inductive: each speaks of the moments between two       *)
(* passes only.  The inductive invariant says what holds in the middle of  *)
(* a pass, of the rows that the loop over the Subsystem table has visited. *)
(***************************************************************************)
EXTENDS FandProofs

NamesUnique(d) == \A q, r \in d.live : nameOf[q] = nameOf[r] => q = r

\* The rows the pass has dealt with.  Between two passes, every row.
Visited == idl.live \ todo

\* Where the loop is.
LoopShape ==
  /\ IF InLoop THEN todo \subseteq idl.live ELSE todo = {}
  /\ IF pc \in {"adding", "configure"}
     THEN \E r \in Row : cur = {r} /\ nameOf[r] \in valid /\ (~alert => r \in todo)
     ELSE cur = {}

\* How the flags of the structures relate.
FlagShape ==
  /\ marked \subseteq valid /\ valid \subseteq known
  /\ ~InLoop => known = marked

\* The record of a subsystem says what its row calls for.
SettledRow(r) == loc[nameOf[r]].speed = Wanted(idl.sub[r])

\* Unless there is news, every row visited has the speed it calls for ...
VisitedSettled == ~alert => \A r \in Visited : nameOf[r] \in valid => SettledRow(r)

\* ... and those marked are those whose description loads; a structure that is
\* not valid belongs to a row this pass has visited.
VisitedMarked ==
  ~alert => /\ marked \subseteq {nameOf[r] : r \in Visited}
            /\ \A r \in Visited : idl.sub[r].dir => nameOf[r] \in marked
            /\ known \ valid \subseteq {nameOf[r] : r \in Visited}

FansIndexed == fan_data = UNION {yamlFans[n] : n \in valid}

\* This is what the daemon knows by itself.  What it says of the hardware comes
\* apart (RegisterHeld): there another daemon may write too.
IInv ==
  /\ TypeOK
  /\ NamesUnique(db) /\ NamesUnique(idl)
  /\ LoopShape /\ FlagShape
  /\ VisitedSettled /\ VisitedMarked
  /\ FansIndexed

-----------------------------------------------------------------------------
(* The names of the rows. *)

\* No step of the daemon changes which Subsystem rows there are.
LEMMA DaemonKeepsRows ==
  ASSUME TypeOK, Daemon \/ WakeWithLock \/ WakeUnheard \/ Restart \/ Failure
  PROVE  db'.live = db.live
<1>1. ASSUME NEW r \in Row, AddCommitted(r) \/ AddNotCommitted(r) \/ AddRefused(r)
      PROVE  db'.live = db.live
  BY <1>1, TransactionTypes DEF AddCommitted, AddNotCommitted, AddRefused, server
<1>2. CASE StatusCommitted \/ StatusNotCommitted \/ StatusRefused
  BY <1>2, TransactionTypes DEF StatusCommitted, StatusNotCommitted, StatusRefused, server
<1>3. CASE Wake \/ WakeWithLock \/ WakeUnheard
  BY <1>3 DEF Wake, WakeWithLock, WakeUnheard, NewsAtLock, Run, server
<1>4. ASSUME NEW r \in Row, \/ SkipInvalid(r) \/ AddInvalid(r) \/ AddSubsystem(r)
                            \/ AddNotLocked(r) \/ Configure(r)
      PROVE  db' = db
  BY <1>4 DEF SkipInvalid, AddInvalid, AddSubsystem, AddNotLocked, Configure, server
<1>5. CASE \/ FaultOnFreedRow \/ RemoveUnmarked \/ ReadStatus \/ FaultOnUnknownFan
           \/ StatusNotLocked \/ Restart \/ Terminate \/ LoseSession
  BY <1>5 DEF FaultOnFreedRow, RemoveUnmarked, ReadStatus, FaultOnUnknownFan,
              StatusNotLocked, Restart, Terminate, LoseSession, server
<1> QED
  BY <1>1, <1>2, <1>3, <1>4, <1>5 DEF Daemon, Failure

\* The other writers add a row under a new name only, and leave the IDL, the
\* process and the hardware alone.
LEMMA WritersKeepProcess ==
  ASSUME TypeOK, NamesUnique(db), Writers
  PROVE  NamesUnique(db') /\ UNCHANGED <<replica, loop, tables, txn, panel>>
<1>1. UNCHANGED <<replica, loop, tables, txn, panel>>
  BY DEF Writers, Unaffected, SetSensors, SetOverride, SetDir, ClearDir, InsertRow,
         DeleteRow, SetForeignFans, FanChanges
<1>2. ASSUME NEW r \in Row, InsertRow(r)
      PROVE  NamesUnique(db')
  <2>1. db'.live = db.live \cup {r} /\ \A q \in db.live : nameOf[q] # nameOf[r]
    BY <1>2 DEF InsertRow, TypeOK, Tables
  <2> QED
    BY <2>1 DEF NamesUnique
<1>3. ASSUME NEW r \in Row, DeleteRow(r)
      PROVE  NamesUnique(db')
  <2>1. [db EXCEPT !.live = @ \ {r}, !.sub[r] = BlankSub] \in Tables
    BY BlankTypes DEF TypeOK, Tables
  <2>2. db'.live = db.live \ {r}
    BY <1>3, <2>1, CollectTables DEF DeleteRow, Tables, TypeOK
  <2> QED
    BY <2>2 DEF NamesUnique
<1>4. ASSUME NEW r \in Row, NEW s \in ForeignSets, SetForeignFans(r, s)
      PROVE  NamesUnique(db')
  <2>1. [db EXCEPT !.sub[r].fans = s] \in Tables
    <3>1. [db.sub[r] EXCEPT !.fans = s] \in SubRow
      BY RowTypes, ConstantAssumption DEF TypeOK, Tables
    <3> QED
      BY <3>1 DEF TypeOK, Tables
  <2>2. db'.live = db.live
    BY <1>4, <2>1, CollectTables DEF SetForeignFans, Tables, TypeOK
  <2> QED
    BY <2>2 DEF NamesUnique
<1>5. ASSUME db'.live = db.live
      PROVE  NamesUnique(db')
  BY <1>5 DEF NamesUnique
<1>6. ASSUME NEW r \in Row, NEW s \in SensorSets, SetSensors(r, s)
      PROVE  NamesUnique(db')
  BY <1>5, <1>6 DEF SetSensors, TypeOK, Tables
<1>7. ASSUME NEW r \in Row, NEW o \in Overrides, SetOverride(r, o)
      PROVE  NamesUnique(db')
  BY <1>5, <1>7 DEF SetOverride, TypeOK, Tables
<1>8. ASSUME NEW r \in Row, SetDir(r) \/ ClearDir(r)
      PROVE  NamesUnique(db')
  BY <1>5, <1>8 DEF SetDir, ClearDir, TypeOK, Tables
<1>9. ASSUME NEW f \in Fan, NEW c \in Readings, FanChanges(f, c)
      PROVE  NamesUnique(db')
  <2>1. db' = db
    BY <1>9 DEF FanChanges
  <2> QED
    BY <2>1
<1>10. NamesUnique(db')
  BY <1>2, <1>3, <1>4, <1>6, <1>7, <1>8, <1>9 DEF Writers
<1> QED
  BY <1>1, <1>10

\* The copy the daemon reads is an old one, a new one, or none.
LEMMA ReplicaNamesUnique ==
  ASSUME TypeOK, NamesUnique(db), NamesUnique(idl),
         Daemon \/ WakeWithLock \/ WakeUnheard \/ Restart \/ Failure
  PROVE  NamesUnique(idl')
<1>1. db'.live = db.live
  BY DaemonKeepsRows
<1>2. idl' \in {idl, db, db', NoRows}
  <2>1. ASSUME NEW r \in Row, AddCommitted(r) \/ AddNotCommitted(r) \/ AddRefused(r)
        PROVE  idl' \in {idl, db, db'}
    BY <2>1 DEF AddCommitted, AddNotCommitted, AddRefused, Replicate
  <2>2. CASE StatusCommitted \/ StatusNotCommitted \/ StatusRefused
    BY <2>2 DEF StatusCommitted, StatusNotCommitted, StatusRefused, Replicate
  <2>3. CASE Wake \/ WakeWithLock \/ WakeUnheard
    BY <2>3 DEF Wake, WakeWithLock, WakeUnheard, NewsAtLock, Run
  <2>4. ASSUME NEW r \in Row, \/ SkipInvalid(r) \/ AddInvalid(r) \/ AddSubsystem(r)
                              \/ AddNotLocked(r) \/ Configure(r)
        PROVE  idl' = idl
    BY <2>4 DEF SkipInvalid, AddInvalid, AddSubsystem, AddNotLocked, Configure, replica
  <2>5. CASE FaultOnFreedRow \/ FaultOnUnknownFan \/ Terminate
    BY <2>5 DEF FaultOnFreedRow, FaultOnUnknownFan, Terminate, Ends
  <2>6. CASE RemoveUnmarked \/ ReadStatus \/ StatusNotLocked \/ Restart \/ LoseSession
    BY <2>6 DEF RemoveUnmarked, ReadStatus, StatusNotLocked, Restart, LoseSession, replica
  <2> QED
    BY <2>1, <2>2, <2>3, <2>4, <2>5, <2>6 DEF Daemon, Failure
<1> QED
  BY <1>1, <1>2 DEF NamesUnique, NoRows

-----------------------------------------------------------------------------
(* The steps of a pass. *)

\* The register of a subsystem that is marked holds the speed of its record.
RegisterHeld(n) == n \in marked => reg[n] = Setting[loc[n].speed]

\* The part of the inductive invariant that speaks of a pass.
PassInv == LoopShape /\ FlagShape /\ VisitedSettled /\ VisitedMarked /\ FansIndexed

\* An update that brings no news changes no row and leaves the loop its rows.
LEMMA NoNews ==
  ASSUME TypeOK, NEW new \in Tables, Replicate(new), alert' = FALSE
  PROVE  /\ ~alert /\ new.live = idl.live /\ new.sub = idl.sub /\ idl' = new
         /\ \A t \in StillToVisit(new) : t = todo \cap idl.live
<1>1. ~alert /\ ~Alerts(idl, new) /\ idl' = new
  BY DEF Replicate
<1>2. new.live = idl.live /\ new.sub = idl.sub
  BY <1>1 DEF Alerts
<1>3. new.live \ idl.live = {}
  BY <1>2
<1>4. \A t \in StillToVisit(new) : t = todo \cap idl.live
  BY <1>2, <1>3 DEF StillToVisit, InsertedRows, RehashedRows
<1> QED
  BY <1>1, <1>2, <1>4

\* A pass begins with all rows to visit and no mark; without news there is none.
LEMMA WakeStep ==
  ASSUME IInv, Wake \/ WakeWithLock \/ WakeUnheard
  PROVE  PassInv'
<1>1. pc = "poll" /\ todo = {} /\ cur = {} /\ known = marked
  BY DEF IInv, LoopShape, FlagShape, InLoop, Wake, WakeWithLock, WakeUnheard
<1>2. UNCHANGED <<cur, known, valid, loc, fan_data>>
  BY DEF Wake, WakeWithLock, WakeUnheard, NewsAtLock, Run
<1>3. ASSUME NEW new, Run(new, TRUE)
      PROVE  PassInv'
  <2>1. idl' = new /\ todo' = new.live /\ marked' = {} /\ pc' = "scan"
    BY <1>3 DEF Run, UnmarkedAtStart
  <2>2. Visited' = {}
    BY <2>1 DEF Visited
  <2>3. known \subseteq valid
    BY <1>1 DEF IInv, FlagShape
  <2> QED
    BY <1>1, <1>2, <2>1, <2>2, <2>3 DEF PassInv, IInv, LoopShape, FlagShape, VisitedSettled,
       VisitedMarked, FansIndexed, InLoop
<1>4. ASSUME NEW new, Run(new, FALSE), ~alert, ~Alerts(idl, new)
      PROVE  PassInv'
  <2>1. idl' = new /\ pc' = "read" /\ todo' = todo /\ marked' = marked
    BY <1>4 DEF Run
  <2>2. idl'.live = idl.live /\ idl'.sub = idl.sub
    BY <1>4, <2>1 DEF Alerts
  <2>3. Visited' = Visited
    BY <2>1, <2>2 DEF Visited
  <2> QED
    BY <1>1, <1>2, <1>4, <2>1, <2>2, <2>3 DEF PassInv, IInv, LoopShape, FlagShape,
       VisitedSettled, VisitedMarked, FansIndexed, InLoop, SettledRow
<1>5. ASSUME NEW new, Run(new, alert \/ Alerts(idl, new))
      PROVE  PassInv'
  <2>1. CASE alert \/ Alerts(idl, new)
    <3>1. Run(new, TRUE)
      BY <1>5, <2>1 DEF Run
    <3> QED
      BY <1>3, <3>1
  <2>2. CASE ~(alert \/ Alerts(idl, new))
    <3>1. Run(new, FALSE)
      BY <1>5, <2>2 DEF Run
    <3> QED
      BY <1>4, <2>2, <3>1
  <2> QED
    BY <2>1, <2>2
<1>6. CASE WakeUnheard
  <2>1. alert <=> alert \/ Alerts(idl, idl)
    BY DEF Alerts
  <2>2. Run(idl, alert \/ Alerts(idl, idl))
    BY <1>6, <2>1 DEF WakeUnheard, Run
  <2> QED
    BY <1>5, <2>2
<1>7. CASE WakeWithLock
  BY <1>3, <1>7 DEF WakeWithLock, NewsAtLock
<1>8. CASE Wake
  BY <1>5, <1>8 DEF Wake
<1> QED
  BY <1>6, <1>7, <1>8

\* A row whose structure is not valid is passed over.
LEMMA IgnoreStep ==
  ASSUME IInv, NEW r \in Row, SkipInvalid(r) \/ AddInvalid(r)
  PROVE  PassInv'
<1>1. /\ pc = "scan" /\ r \in todo /\ todo' = todo \ {r} /\ nameOf[r] \notin valid
      /\ UNCHANGED <<idl, alert, pc, cur, valid, marked, loc, fan_data>>
  BY DEF IInv, FlagShape, SkipInvalid, AddInvalid, replica, tables
<1>2. r \in idl.live /\ todo \subseteq idl.live
  BY <1>1 DEF IInv, LoopShape, InLoop
<1>3. Visited' = Visited \cup {r}
  BY <1>1, <1>2 DEF Visited
<1>4. known' = known \cup {nameOf[r]}
  BY DEF SkipInvalid, AddInvalid, tables
<1>5. LoopShape' /\ FlagShape'
  BY <1>1, <1>2, <1>4 DEF IInv, LoopShape, FlagShape, InLoop
<1>6. VisitedSettled'
  BY <1>1, <1>3 DEF IInv, VisitedSettled, SettledRow
<1>7. ASSUME ~alert
      PROVE  ~idl.sub[r].dir
  <2>1. CASE AddInvalid(r)
    BY <2>1 DEF AddInvalid
  <2>2. CASE SkipInvalid(r)
    <3>1. nameOf[r] \in known \ valid
      BY <2>2 DEF SkipInvalid
    <3>2. PICK q \in Visited : nameOf[q] = nameOf[r]
      BY <1>7, <3>1 DEF IInv, VisitedMarked
    <3>3. q = r
      BY <1>2, <3>2 DEF IInv, NamesUnique, Visited
    <3> QED
      BY <1>1, <3>2, <3>3 DEF Visited
  <2> QED
    BY <2>1, <2>2
<1>8. VisitedMarked'
  BY <1>1, <1>3, <1>4, <1>7 DEF IInv, VisitedMarked
<1>9. FansIndexed'
  BY <1>1 DEF IInv, FansIndexed
<1> QED
  BY <1>5, <1>6, <1>8, <1>9 DEF PassInv

\* add_subsystem clears the speed of a name that no visited row has.
LEMMA AddStep ==
  ASSUME IInv, NEW r \in Row, AddSubsystem(r)
  PROVE  PassInv'
<1> DEFINE n == nameOf[r]
<1>0. n \in Name
  BY ConstantAssumption
<1>1. /\ pc = "scan" /\ r \in todo /\ n \notin known /\ pc' = "adding" /\ cur' = {r}
      /\ known' = known \cup {n} /\ valid' = valid \cup {n}
      /\ fan_data' = fan_data \cup yamlFans[n]
      /\ UNCHANGED <<idl, alert, todo, marked>>
  BY DEF AddSubsystem, replica
<1>2. r \in idl.live /\ todo \subseteq idl.live
  BY <1>1 DEF IInv, LoopShape, InLoop
<1>3. Visited' = Visited
  BY <1>1 DEF Visited
<1>4. \A q \in Visited : nameOf[q] # n
  BY <1>1, <1>2 DEF IInv, NamesUnique, Visited
<1>5. \A m \in Name : m # n => loc'[m] = loc[m]
  BY DEF AddSubsystem, IInv, TypeOK
<1>6. LoopShape'
  BY <1>1, <1>2 DEF LoopShape, InLoop
<1>7. FlagShape'
  BY <1>1 DEF IInv, FlagShape, InLoop
<1>8. VisitedSettled'
  <2>1. Visited \subseteq Row
    BY DEF Visited, IInv, TypeOK, Tables
  <2>2. \A q \in Visited : nameOf[q] \in Name
    BY <2>1, ConstantAssumption
  <2> QED
    BY <1>1, <1>3, <1>4, <1>5, <2>2 DEF IInv, VisitedSettled, SettledRow
<1>9. VisitedMarked'
  BY <1>1, <1>3 DEF IInv, VisitedMarked
<1>10. FansIndexed'
  BY <1>1 DEF IInv, FansIndexed
<1> QED
  BY <1>6, <1>7, <1>8, <1>9, <1>10 DEF PassInv

\* The end of add_subsystem sets the speed of the same name; what came in while
\* it waited either is news or leaves the rows as they were.
LEMMA AddedStep ==
  ASSUME IInv, NEW r \in Row,
         AddCommitted(r) \/ AddNotCommitted(r) \/ AddRefused(r) \/ AddNotLocked(r)
  PROVE  PassInv'
<1> DEFINE n == nameOf[r]
<1>0. n \in Name
  BY ConstantAssumption
<1>1. /\ pc = "adding" /\ cur = {r} /\ n \in valid /\ pc' = "configure"
      /\ ~alert => r \in todo
      /\ todo \subseteq idl.live
      /\ UNCHANGED <<cur, known, valid, marked, fan_data>>
  <2>1. /\ pc = "adding" /\ r \in cur /\ pc' = "configure"
        /\ UNCHANGED <<cur, known, valid, marked, fan_data>>
    BY DEF AddCommitted, AddNotCommitted, AddRefused, AddNotLocked
  <2> QED
    BY <2>1 DEF IInv, LoopShape, InLoop
<1>2. PICK lost : InitialSpeed(r, lost)
  BY DEF AddCommitted, AddNotCommitted, AddRefused, AddNotLocked
<1>3. \A m \in Name : m # n => loc'[m] = loc[m]
  BY <1>2 DEF InitialSpeed, IInv, TypeOK
<1>4. /\ todo' \subseteq idl'.live
      /\ alert' = FALSE => /\ ~alert /\ idl'.live = idl.live /\ idl'.sub = idl.sub
                           /\ todo' = todo
  <2>1. CASE AddNotLocked(r)
    BY <1>1, <2>1 DEF AddNotLocked, replica
  <2>2. CASE AddCommitted(r) \/ AddNotCommitted(r) \/ AddRefused(r)
    <3>1. PICK new \in Tables : Replicate(new) /\ todo' \in StillToVisit(new)
      <4>1. WithFanRows(r) \in Tables /\ idl \in Tables /\ db \in Tables
        BY TransactionTypes DEF IInv, TypeOK
      <4> QED
        BY <2>2, <4>1 DEF AddCommitted, AddNotCommitted, AddRefused
    <3>2. idl' = new /\ todo' \subseteq new.live
      BY <3>1 DEF Replicate, StillToVisit, InsertedRows, RehashedRows
    <3> QED
      BY <1>1, <3>1, <3>2, NoNews DEF IInv
  <2> QED
    BY <2>1, <2>2
<1>5. alert' \in BOOLEAN
  BY TypeDaemon DEF IInv, TypeOK, Daemon, Failure
<1>6. LoopShape' /\ FlagShape'
  BY <1>1, <1>4, <1>5 DEF IInv, LoopShape, FlagShape, InLoop
<1>7. ASSUME alert' = FALSE
      PROVE  /\ Visited' = Visited /\ Visited \subseteq Row
             /\ \A q \in Visited : nameOf[q] \in Name /\ nameOf[q] # n
  <2>1. Visited' = Visited /\ Visited \subseteq Row
    BY <1>4, <1>7 DEF Visited, IInv, TypeOK, Tables
  <2>2. r \in todo /\ r \in idl.live
    BY <1>1, <1>4, <1>7
  <2> QED
    BY <2>1, <2>2, ConstantAssumption DEF IInv, NamesUnique, Visited
<1>8. VisitedSettled'
  BY <1>1, <1>3, <1>4, <1>5, <1>7 DEF IInv, VisitedSettled, SettledRow
<1>9. VisitedMarked'
  BY <1>1, <1>4, <1>5, <1>7 DEF IInv, VisitedMarked
<1>10. FansIndexed'
  BY <1>1 DEF IInv, FansIndexed
<1> QED
  BY <1>6, <1>8, <1>9, <1>10 DEF PassInv

\* The rest of the loop body: without news the row is still there, it is the only
\* one of its name, and its subsystem gets the speed it calls for.
LEMMA ConfigureStep ==
  ASSUME IInv, NEW r \in Row, Configure(r)
  PROVE  PassInv'
<1> DEFINE n == nameOf[r]
<1>0. n \in Name
  BY ConstantAssumption
<1>1. /\ pc \in {"scan", "configure"} /\ n \in valid
      /\ ~alert => r \in todo
      /\ todo \subseteq idl.live
      /\ todo' \in VisitedUpTo(r) /\ pc' = "scan" /\ cur' = {}
      /\ marked' = marked \cup {n}
      /\ UNCHANGED <<idl, alert, known, valid, fan_data>>
  <2>1. /\ \/ pc = "configure" /\ r \in cur
           \/ pc = "scan" /\ r \in todo /\ n \in valid
        /\ todo' \in VisitedUpTo(r) /\ pc' = "scan" /\ cur' = {}
        /\ marked' = marked \cup {n}
        /\ UNCHANGED <<idl, alert, known, valid, fan_data>>
    BY DEF Configure, replica
  <2> QED
    BY <2>1 DEF IInv, LoopShape, InLoop
<1>2. PICK c \in Contents(r) :
        loc' = [loc EXCEPT ![n] = SpeedFields(HighestBySensor(c.sensors),
                                              fan_speed_string_to_enum(c.override))]
  BY DEF Configure
<1>3. \A m \in Name : m # n => loc'[m] = loc[m]
  BY <1>2 DEF IInv, TypeOK
<1>4. LoopShape' /\ FlagShape'
  BY <1>1 DEF IInv, LoopShape, FlagShape, InLoop, VisitedUpTo
<1>5. ASSUME ~alert
      PROVE  /\ Visited' = Visited \cup {r} /\ Visited \subseteq Row
             /\ \A q \in Visited : nameOf[q] \in Name /\ nameOf[q] # n
             /\ c = idl.sub[r]
  <2>1. r \in todo /\ r \in idl.live
    BY <1>1, <1>5
  <2>2. todo' = todo \ {r} /\ c = idl.sub[r]
    BY <1>1, <1>2, <2>1 DEF VisitedUpTo, Contents
  <2>3. Visited' = Visited \cup {r} /\ Visited \subseteq Row
    BY <1>1, <2>1, <2>2 DEF Visited, IInv, TypeOK, Tables
  <2> QED
    BY <2>1, <2>2, <2>3, ConstantAssumption DEF IInv, NamesUnique, Visited
<1>6. ASSUME ~alert
      PROVE  SettledRow(r)'
  <2>1. loc'[n].speed = EffectiveSpeed(HighestBySensor(c.sensors),
                                       fan_speed_string_to_enum(c.override))
    BY <1>0, <1>2 DEF SpeedFields, IInv, TypeOK
  <2>2. loc'[n].speed = Wanted(idl.sub[r])
    BY <1>5, <1>6, <2>1, EffectiveIsWanted
  <2>3. (idl.sub[r])' = idl.sub[r]
    BY <1>1
  <2>4. Wanted(idl.sub[r])' = Wanted(idl.sub[r])
    BY <2>3 DEF Wanted
  <2> QED
    BY <2>2, <2>4 DEF SettledRow
<1>7. VisitedSettled'
  <2>1. ASSUME ~alert, NEW q \in Visited, nameOf[q] \in valid
        PROVE  SettledRow(q)'
    BY <1>1, <1>3, <1>5, <2>1 DEF IInv, VisitedSettled, SettledRow
  <2> QED
    BY <1>1, <1>5, <1>6, <2>1 DEF VisitedSettled
<1>8. VisitedMarked'
  BY <1>1, <1>5 DEF IInv, VisitedMarked
<1>9. FansIndexed'
  BY <1>1 DEF IInv, FansIndexed
<1> QED
  BY <1>4, <1>7, <1>8, <1>9 DEF PassInv

\* A process that ended holds nothing.
LEMMA EndStep ==
  ASSUME IInv, FaultOnFreedRow \/ FaultOnUnknownFan \/ Terminate
  PROVE  PassInv'
<1>1. PICK where \in Ended : Ends(where)
  BY DEF FaultOnFreedRow, FaultOnUnknownFan, Terminate, Ended
<1>2. Visited' = {}
  BY <1>1 DEF Ends, NoRows, Visited
<1>3. /\ pc' \in Ended /\ todo' = {} /\ cur' = {} /\ known' = {} /\ valid' = {} /\ marked' = {}
      /\ fan_data' = {}
  BY <1>1 DEF Ends
<1> QED
  BY <1>2, <1>3 DEF PassInv, LoopShape, FlagShape, VisitedSettled, VisitedMarked, FansIndexed,
     InLoop, Ended

\* What is removed is what no row visited: the fans of the others stay indexed,
\* for no two names share a fan.
LEMMA RemoveStep ==
  ASSUME IInv, RemoveUnmarked
  PROVE  PassInv'
<1>1. /\ pc = "scan" /\ todo = {} /\ pc' = "read"
      /\ known' = known \ (known \ marked) /\ valid' = valid \ (known \ marked)
      /\ loc' = [n \in Name |-> IF n \in known \ marked THEN ClearedFields ELSE loc[n]]
      /\ fan_data' = fan_data \ UNION {yamlFans[n] : n \in (known \ marked) \cap valid}
      /\ UNCHANGED <<idl, alert, todo, cur, marked>>
  BY DEF RemoveUnmarked, Unmarked, FansOf, replica
<1>2. marked \subseteq valid /\ valid \subseteq known /\ valid \subseteq Name /\ cur = {}
  BY <1>1 DEF IInv, FlagShape, TypeOK, LoopShape
<1>3. known' = marked /\ valid' = marked
  BY <1>1, <1>2
<1>4. Visited' = Visited
  BY <1>1 DEF Visited
<1>5. LoopShape' /\ FlagShape'
  BY <1>1, <1>2, <1>3 DEF LoopShape, FlagShape, InLoop
<1>6. VisitedSettled'
  BY <1>1, <1>2, <1>3, <1>4 DEF IInv, VisitedSettled, SettledRow
<1>7. VisitedMarked'
  BY <1>1, <1>3, <1>4 DEF IInv, VisitedMarked
<1>8. FansIndexed'
  <2>1. fan_data = UNION {yamlFans[n] : n \in valid}
    BY DEF IInv, FansIndexed
  <2>2. \A m \in marked, n \in (known \ marked) \cap valid : yamlFans[m] \cap yamlFans[n] = {}
    BY <1>2, ConstantAssumption
  <2>3. fan_data' = UNION {yamlFans[n] : n \in marked}
    BY <1>1, <1>2, <2>1, <2>2
  <2> QED
    BY <1>3, <2>3 DEF FansIndexed
<1> QED
  BY <1>5, <1>6, <1>7, <1>8 DEF PassInv

\* fand_read_status and what goes on between two passes touch neither the flags
\* nor the speeds, and change the rows only with news.
LEMMA QuietStep ==
  ASSUME IInv, \/ ReadStatus \/ StatusCommitted \/ StatusNotCommitted \/ StatusRefused
               \/ StatusNotLocked \/ LoseSession \/ Restart
  PROVE  PassInv'
<1>1. /\ pc \in {"read", "publish", "poll"} \cup Ended
      /\ pc' \in {"read", "publish", "poll"} \cup Ended
      /\ UNCHANGED <<todo, cur, known, valid, marked, loc, fan_data>>
  BY DEF ReadStatus, StatusCommitted, StatusNotCommitted, StatusRefused, StatusNotLocked,
         LoseSession, Restart, TxnDone, tables, loop, Ended
<1>2. todo = {} /\ cur = {} /\ ~InLoop /\ ~InLoop'
  BY <1>1 DEF IInv, LoopShape, InLoop, Ended
<1>3. alert' = FALSE => ~alert /\ idl'.live = idl.live /\ idl'.sub = idl.sub
  <2>1. CASE StatusCommitted \/ StatusNotCommitted \/ StatusRefused
    <3>1. WithStatus \in Tables /\ idl \in Tables /\ db \in Tables
      BY TransactionTypes DEF IInv, TypeOK
    <3>2. PICK new \in Tables : Replicate(new)
      BY <2>1, <3>1 DEF StatusCommitted, StatusNotCommitted, StatusRefused
    <3> QED
      BY <3>2, NoNews DEF IInv
  <2>2. CASE ReadStatus \/ StatusNotLocked \/ LoseSession \/ Restart
    BY <2>2 DEF ReadStatus, StatusNotLocked, LoseSession, Restart, replica
  <2> QED
    BY <2>1, <2>2
<1>4. alert' \in BOOLEAN
  BY TypeDaemon DEF IInv, TypeOK, Daemon, Failure
<1>5. alert' = FALSE => Visited' = Visited
  BY <1>1, <1>3 DEF Visited
<1>6. LoopShape' /\ FlagShape' /\ FansIndexed'
  BY <1>1, <1>2 DEF IInv, LoopShape, FlagShape, FansIndexed, InLoop
<1>7. VisitedSettled'
  BY <1>1, <1>3, <1>4, <1>5 DEF IInv, VisitedSettled, SettledRow
<1>8. VisitedMarked'
  BY <1>1, <1>3, <1>4, <1>5 DEF IInv, VisitedMarked
<1> QED
  BY <1>6, <1>7, <1>8 DEF PassInv

-----------------------------------------------------------------------------
(* The registers. *)

\* The rest of the loop body touches its own subsystem and no other.
LEMMA ConfigureTouches ==
  ASSUME IInv, NEW r \in Row, Configure(r)
  PROVE  Touched = {nameOf[r]}
<1>1. pc' = "scan"
  BY DEF Configure
<1>2. CASE pc = "configure"
  <2>1. cur = {r}
    BY <1>2 DEF Configure, IInv, LoopShape
  <2> QED
    BY <1>1, <1>2, <2>1 DEF Touched
<1>3. CASE pc = "scan"
  <2>1. r \in todo /\ nameOf[r] \in valid /\ todo' \in VisitedUpTo(r)
    BY <1>3 DEF Configure
  <2>2. cur = {} /\ todo \subseteq idl.live
    BY <1>3 DEF IInv, LoopShape, InLoop
  <2>3. todo \ todo' = {r}
    BY <2>1, <2>2 DEF VisitedUpTo
  <2> QED
    BY <1>1, <1>3, <2>1, <2>2, <2>3 DEF Touched
<1> QED
  BY <1>2, <1>3 DEF Configure

\* A step leaves the register of a subsystem it does not touch alone, and with a
\* mark the record.
LEMMA Untouched ==
  ASSUME IInv, NEW n \in Name, n \notin Touched,
         Daemon \/ WakeWithLock \/ WakeUnheard \/ Restart \/ Failure
  PROVE  /\ reg'[n] = reg[n]
         /\ RegisterHeld(n) => RegisterHeld(n)'
<1>1. ASSUME NEW r \in Row, SkipInvalid(r) \/ AddInvalid(r)
      PROVE  UNCHANGED <<reg, marked, loc>>
  BY <1>1 DEF SkipInvalid, AddInvalid, tables, panel
<1>2. ASSUME NEW r \in Row, AddSubsystem(r)
      PROVE  UNCHANGED <<reg, marked>> /\ (n \in marked => loc'[n] = loc[n])
  <2>1. UNCHANGED <<reg, marked>> /\ nameOf[r] \notin marked
    BY <1>2 DEF AddSubsystem, panel, IInv, FlagShape
  <2>2. n # nameOf[r] => loc'[n] = loc[n]
    BY <1>2 DEF AddSubsystem, IInv, TypeOK
  <2> QED
    BY <2>1, <2>2
<1>3. ASSUME NEW r \in Row, \/ AddCommitted(r) \/ AddNotCommitted(r) \/ AddRefused(r)
                            \/ AddNotLocked(r)
      PROVE  reg'[n] = reg[n] /\ loc'[n] = loc[n] /\ marked' = marked
  <2>1. r \in cur /\ pc' = "configure" /\ marked' = marked
    BY <1>3 DEF AddCommitted, AddNotCommitted, AddRefused, AddNotLocked
  <2>2. n # nameOf[r]
    BY <2>1 DEF Touched
  <2>3. PICK lost : InitialSpeed(r, lost)
    BY <1>3 DEF AddCommitted, AddNotCommitted, AddRefused, AddNotLocked
  <2> QED
    BY <2>1, <2>2, <2>3 DEF InitialSpeed, WriteSpeed, IInv, TypeOK
<1>4. ASSUME NEW r \in Row, Configure(r)
      PROVE  reg'[n] = reg[n] /\ loc'[n] = loc[n] /\ (n \in marked' => n \in marked)
  <2>1. n # nameOf[r]
    BY <1>4, ConfigureTouches
  <2>2. PICK c \in Contents(r), lost \in SUBSET {"reg", "led"} :
          /\ loc' = [loc EXCEPT ![nameOf[r]] = SpeedFields(HighestBySensor(c.sensors),
                                                fan_speed_string_to_enum(c.override))]
          /\ WriteSpeed(nameOf[r], lost) /\ marked' = marked \cup {nameOf[r]}
    BY <1>4 DEF Configure
  <2> QED
    BY <2>1, <2>2 DEF WriteSpeed, IInv, TypeOK
<1>5. CASE Wake \/ WakeWithLock \/ WakeUnheard
  BY <1>5 DEF Wake, WakeWithLock, WakeUnheard, NewsAtLock, Run, UnmarkedAtStart, panel,
              RegisterHeld
<1>6. CASE FaultOnFreedRow \/ FaultOnUnknownFan \/ Terminate
  <2>1. marked' = {} /\ reg' = reg
    BY <1>6 DEF FaultOnFreedRow, FaultOnUnknownFan, Terminate, Ends, panel
  <2> QED
    BY <2>1 DEF RegisterHeld
<1>7. CASE RemoveUnmarked
  <2>1. UNCHANGED <<reg, marked>> /\ (n \in marked => loc'[n] = loc[n])
    BY <1>7 DEF RemoveUnmarked, Unmarked, panel
  <2> QED
    BY <2>1 DEF RegisterHeld
<1>8. CASE \/ ReadStatus \/ StatusCommitted \/ StatusNotCommitted \/ StatusRefused
           \/ StatusNotLocked \/ LoseSession \/ Restart
  <2>1. UNCHANGED <<reg, marked, loc>>
    BY <1>8 DEF ReadStatus, StatusCommitted, StatusNotCommitted, StatusRefused,
                StatusNotLocked, LoseSession, Restart, TxnDone, tables, panel
  <2> QED
    BY <2>1 DEF RegisterHeld
<1>9. ASSUME reg'[n] = reg[n], n \in marked' => n \in marked /\ loc'[n] = loc[n]
      PROVE  RegisterHeld(n) => RegisterHeld(n)'
  BY <1>9 DEF RegisterHeld
<1> QED
  BY <1>1, <1>2, <1>3, <1>4, <1>5, <1>6, <1>7, <1>8, <1>9 DEF Daemon, Failure

\* A register it touches holds the speed of the record afterwards.
LEMMA TouchedIsHeld ==
  ASSUME IInv, NEW n \in Name, n \in Touched,
         Daemon \/ WakeWithLock \/ WakeUnheard \/ Restart \/ Failure,
         "i2c" \notin Faults
  PROVE  RegisterHeld(n)'
<1>1. ASSUME NEW r \in Row, SkipInvalid(r) \/ AddInvalid(r)
      PROVE  FALSE
  <2>1. pc = "scan" /\ todo' = todo \ {r} /\ nameOf[r] \notin valid /\ cur = {}
    BY <1>1 DEF SkipInvalid, AddInvalid, IInv, FlagShape, LoopShape
  <2> QED
    BY <2>1 DEF Touched
<1>2. ASSUME NEW r \in Row, \/ AddCommitted(r) \/ AddNotCommitted(r) \/ AddRefused(r)
                            \/ AddNotLocked(r)
      PROVE  RegisterHeld(n)'
  <2>1. n = nameOf[r]
    <3>1. pc = "adding" /\ r \in cur
      BY <1>2 DEF AddCommitted, AddNotCommitted, AddRefused, AddNotLocked
    <3>2. cur = {r}
      BY <3>1 DEF IInv, LoopShape
    <3> QED
      BY <3>1, <3>2 DEF Touched
  <2>2. InitialSpeed(r, {})
    BY <1>2 DEF AddCommitted, AddNotCommitted, AddRefused, AddNotLocked, I2cLoses
  <2>3. reg'[n] = Setting[loc'[n].speed]
    BY <2>1, <2>2 DEF InitialSpeed, WriteSpeed, IInv, TypeOK
  <2> QED
    BY <2>3 DEF RegisterHeld
<1>3. ASSUME NEW r \in Row, Configure(r)
      PROVE  RegisterHeld(n)'
  <2>1. n = nameOf[r]
    BY <1>3, ConfigureTouches
  <2>2. PICK lost : I2cLoses(lost, 0) /\ WriteSpeed(n, lost)
    BY <1>3, <2>1 DEF Configure
  <2>3. reg'[n] = Setting[loc'[n].speed]
    BY <2>2 DEF I2cLoses, WriteSpeed, IInv, TypeOK
  <2> QED
    BY <2>3 DEF RegisterHeld
<1>4. CASE Wake \/ WakeWithLock \/ WakeUnheard
  <2>1. pc = "poll" /\ cur = {}
    BY <1>4 DEF Wake, WakeWithLock, WakeUnheard, IInv, LoopShape
  <2> QED
    BY <2>1 DEF Touched
<1>5. pc' \in {"configure", "scan"}
  BY DEF Touched
<1>6. ASSUME NEW r \in Row
      PROVE  ~AddSubsystem(r)
  BY <1>5 DEF AddSubsystem
<1>7. ~(FaultOnFreedRow \/ FaultOnUnknownFan \/ Terminate \/ Restart \/ RemoveUnmarked)
  BY <1>5 DEF FaultOnFreedRow, FaultOnUnknownFan, Terminate, Ends, Restart, RemoveUnmarked
<1>8. ~(\/ ReadStatus \/ StatusCommitted \/ StatusNotCommitted \/ StatusRefused
        \/ StatusNotLocked)
  BY <1>5 DEF ReadStatus, StatusCommitted, StatusNotCommitted, StatusRefused,
              StatusNotLocked, TxnDone
<1>9. ~LoseSession
  BY <1>5 DEF LoseSession, loop
<1> QED
  BY <1>1, <1>2, <1>3, <1>4, <1>6, <1>7, <1>8, <1>9 DEF Daemon, Failure

-----------------------------------------------------------------------------
(* The lock and the database. *)

\* The lock is had by waking up with it.
LEMMA LockIsKeptOrLost ==
  ASSUME Daemon \/ WakeUnheard \/ Restart \/ Failure, has_lock'
  PROVE  has_lock
<1>1. ASSUME NEW r \in Row, \/ SkipInvalid(r) \/ AddInvalid(r) \/ AddSubsystem(r)
                            \/ AddCommitted(r) \/ AddNotCommitted(r) \/ AddRefused(r)
                            \/ AddNotLocked(r) \/ Configure(r)
      PROVE  has_lock
  BY <1>1 DEF SkipInvalid, AddInvalid, AddSubsystem, AddCommitted, AddNotCommitted,
              AddRefused, AddNotLocked, Configure, replica
<1>2. CASE Wake \/ WakeUnheard \/ FaultOnFreedRow \/ FaultOnUnknownFan \/ Terminate
  BY <1>2 DEF Wake, WakeUnheard, FaultOnFreedRow, FaultOnUnknownFan, Terminate, Ends
<1>3. CASE \/ RemoveUnmarked \/ ReadStatus \/ StatusCommitted \/ StatusNotLocked
           \/ StatusNotCommitted \/ StatusRefused \/ LoseSession \/ Restart
  BY <1>3 DEF RemoveUnmarked, ReadStatus, StatusCommitted, StatusNotLocked,
              StatusNotCommitted, StatusRefused, LoseSession, Restart, replica
<1> QED
  BY <1>1, <1>2, <1>3 DEF Daemon, Failure

\* The database is written by a commit, which waits for the server and needs the lock.
LEMMA OnlyCommitsWrite ==
  ASSUME \/ Daemon \/ WakeWithLock \/ WakeUnheard \/ Restart \/ Terminate \/ LoseSession
         \/ StatusRefused \/ \E r \in Row : AddRefused(r),
         has_lock => pc \notin {"adding", "publish"}
  PROVE  UNCHANGED db
<1>1. ASSUME NEW r \in Row, \/ SkipInvalid(r) \/ AddInvalid(r) \/ AddSubsystem(r)
                            \/ AddCommitted(r) \/ AddNotLocked(r) \/ Configure(r)
      PROVE  UNCHANGED db
  BY <1>1 DEF SkipInvalid, AddInvalid, AddSubsystem, AddCommitted, AddNotLocked, Configure,
              server
<1>2. CASE \/ Wake \/ WakeWithLock \/ FaultOnFreedRow \/ FaultOnUnknownFan \/ Terminate
           \/ RemoveUnmarked \/ ReadStatus \/ StatusCommitted \/ StatusNotLocked
           \/ LoseSession \/ Restart
  BY <1>2 DEF Wake, WakeWithLock, NewsAtLock, Run, FaultOnFreedRow, FaultOnUnknownFan,
              Terminate, RemoveUnmarked, ReadStatus, StatusCommitted, StatusNotLocked,
              LoseSession, Restart, server
<1>3. CASE WakeUnheard \/ StatusRefused \/ \E r \in Row : AddRefused(r)
  BY <1>3 DEF WakeUnheard, Run, StatusRefused, AddRefused, server
<1> QED
  BY <1>1, <1>2, <1>3 DEF Daemon

-----------------------------------------------------------------------------
(* The Fan rows. *)

\* The copy knows the Fan row of f and what is in it; once the status pass has read
\* the fan the row says what the structure holds, or the transaction in flight will
\* make it so, or the server refused to take it.
RowSeen(f) ==
  /\ f \in FanRows(idl) /\ idl.fan[f] = db.fan[f]
  /\ pc = "publish" => f \in pend \/ db.fan[f] = AsRow(fan[f])
  /\ pc \in {"poll"} \cup Ended => refused \/ db.fan[f] = AsRow(fan[f])

RowsSeen == \A f \in FanRows(db) : RowSeen(f)

\* Getting the lock the daemon has an exact copy, and a pass to do.
LEMMA SeenWithLock ==
  ASSUME WakeWithLock
  PROVE  RowsSeen'
BY DEF WakeWithLock, NewsAtLock, Run, server, RowsSeen, RowSeen, Ended

\* Fan rows are of fans.
LEMMA FanRowsAreFans ==
  ASSUME NEW d \in Tables
  PROVE  FanRows(d) \subseteq Fan
<1>1. \A r \in d.live : d.sub[r] \in SubRow
  BY DEF Tables
<1> QED
  BY <1>1 DEF FanRows, SubRow

\* While it keeps the lock it keeps sight of the rows: only it writes them.
LEMMA SeenStep ==
  ASSUME TypeOK, RowsSeen, Daemon \/ WakeUnheard \/ Restart \/ Failure, has_lock'
  PROVE  RowsSeen'
<1>1. has_lock
  BY LockIsKeptOrLost
<1>2. ASSUME NEW r \in Row, \/ SkipInvalid(r) \/ AddInvalid(r) \/ AddSubsystem(r)
                            \/ Configure(r)
      PROVE  RowsSeen'
  <2>1. UNCHANGED <<db, idl>> /\ pc' \in {"scan", "adding"}
    BY <1>2 DEF SkipInvalid, AddInvalid, AddSubsystem, Configure, server, replica
  <2> QED
    BY <2>1 DEF RowsSeen, RowSeen, Ended
<1>3. ASSUME NEW r \in Row, AddCommitted(r) \/ AddRefused(r)
      PROVE  RowsSeen'
  BY <1>3 DEF AddCommitted, AddRefused, server, Replicate, RowsSeen, RowSeen, Ended
<1>4. CASE Wake \/ WakeUnheard
  BY <1>4 DEF Wake, WakeUnheard, Run, server, RowsSeen, RowSeen, Ended
<1>5. CASE RemoveUnmarked
  BY <1>5 DEF RemoveUnmarked, server, replica, RowsSeen, RowSeen, Ended
<1>6. CASE ReadStatus
  <2>1. UNCHANGED <<db, idl>> /\ pc' \in {"publish", "poll"} /\ (pc' = "poll" => pend' = {})
    BY <1>6 DEF ReadStatus, Change, server, replica
  <2>2. \A f \in FanRows(idl) : f \in pend' \/ idl.fan[f] = AsRow(fan'[f])
    BY <1>6 DEF ReadStatus, ToWrite
  <2> QED
    BY <2>1, <2>2 DEF RowsSeen, RowSeen, AsRow, Ended
<1>7. CASE StatusCommitted
  <2>1. db' = WithStatus /\ idl' = db' /\ fan' = fan /\ pc = "publish" /\ pc' = "poll"
    BY <1>7 DEF StatusCommitted, Replicate, TxnDone, tables
  <2>2. FanRows(db') = FanRows(db)
    BY <2>1, TransactionTypes DEF FanRows
  <2>3. \A f \in FanRows(db) : db'.fan[f] = IF f \in pend THEN AsRow(fan[f]) ELSE db.fan[f]
    BY <2>1, FanRowsAreFans DEF WithStatus, TypeOK, Tables
  <2>4. \A f \in FanRows(db') : db'.fan[f] = AsRow(fan'[f])
    BY <2>1, <2>2, <2>3 DEF RowsSeen, RowSeen
  <2> QED
    BY <2>1, <2>4 DEF RowsSeen, RowSeen, AsRow
<1>8. CASE Restart
  BY <1>8 DEF Restart, server, replica, tables, txn, RowsSeen, RowSeen
<1>11. CASE StatusRefused
  BY <1>11 DEF StatusRefused, Replicate, TxnDone, server, RowsSeen, RowSeen
<1>9. ASSUME NEW r \in Row
      PROVE  ~AddNotLocked(r) /\ ~AddNotCommitted(r)
  BY <1>1 DEF AddNotLocked, AddNotCommitted
<1>10. ~(\/ FaultOnFreedRow \/ FaultOnUnknownFan \/ Terminate \/ StatusNotLocked
         \/ StatusNotCommitted \/ LoseSession)
  BY <1>1 DEF FaultOnFreedRow, FaultOnUnknownFan, Terminate, Ends, StatusNotLocked,
              StatusNotCommitted, LoseSession
<1> QED
  BY <1>2, <1>3, <1>4, <1>5, <1>6, <1>7, <1>8, <1>9, <1>10, <1>11 DEF Daemon, Failure

\* The other writers take Fan rows away, with their Subsystem row, and do no more to
\* them, unless they set Subsystem:fans.
LEMMA WritersOnlyTakeRows ==
  ASSUME TypeOK, Writers, "foreign" \notin Edits
  PROVE  \A f \in FanRows(db') : f \in FanRows(db) /\ db'.fan[f] = db.fan[f]
<1>1. db \in Tables /\ db.sub \in [Row -> SubRow] /\ \A r \in Row : db.sub[r] \in SubRow
  BY DEF TypeOK, Tables
<1>2. ASSUME NEW r \in Row, NEW row, row.fans = db.sub[r].fans, db' = [db EXCEPT !.sub[r] = row]
      PROVE  FanRows(db') = FanRows(db) /\ db'.fan = db.fan
  <2>1. db'.live = db.live /\ db'.fan = db.fan /\ db'.sub = [db.sub EXCEPT ![r] = row]
    BY <1>1, <1>2 DEF Tables
  <2>2. \A q \in Row : db'.sub[q].fans = db.sub[q].fans
    BY <1>1, <1>2, <2>1
  <2>3. db.live \subseteq Row
    BY <1>1 DEF Tables
  <2> QED
    BY <2>1, <2>2, <2>3 DEF FanRows
<1>3. ASSUME NEW r \in Row, NEW s \in SensorSets, SetSensors(r, s)
      PROVE  FanRows(db') = FanRows(db) /\ db'.fan = db.fan
  <2>1. db' = [db EXCEPT !.sub[r] = [db.sub[r] EXCEPT !.sensors = s]]
    BY <1>3 DEF SetSensors
  <2> QED
    BY <1>1, <1>2, <2>1 DEF SubRow
<1>4. ASSUME NEW r \in Row, NEW o \in Overrides, SetOverride(r, o)
      PROVE  FanRows(db') = FanRows(db) /\ db'.fan = db.fan
  <2>1. db' = [db EXCEPT !.sub[r] = [db.sub[r] EXCEPT !.override = o]]
    BY <1>4 DEF SetOverride
  <2> QED
    BY <1>1, <1>2, <2>1 DEF SubRow
<1>5. ASSUME NEW r \in Row, SetDir(r) \/ ClearDir(r)
      PROVE  FanRows(db') = FanRows(db) /\ db'.fan = db.fan
  <2>1. PICK b \in BOOLEAN : db' = [db EXCEPT !.sub[r] = [db.sub[r] EXCEPT !.dir = b]]
    BY <1>5 DEF SetDir, ClearDir
  <2> QED
    BY <1>1, <1>2, <2>1 DEF SubRow
<1>6. ASSUME NEW r \in Row, InsertRow(r)
      PROVE  \A f \in FanRows(db') : f \in FanRows(db) /\ db'.fan[f] = db.fan[f]
  <2>1. PICK row : row.fans = {} /\ db' = [db EXCEPT !.live = @ \cup {r}, !.sub[r] = row]
    BY <1>6 DEF InsertRow, BlankSub
  <2>2. /\ db'.live = db.live \cup {r} /\ db'.sub = [db.sub EXCEPT ![r] = row]
        /\ db'.fan = db.fan
    BY <1>1, <2>1 DEF Tables
  <2>3. db'.sub[r].fans = {} /\ \A q \in Row : q # r => db'.sub[q] = db.sub[q]
    BY <1>1, <2>1, <2>2
  <2>4. db.live \subseteq Row
    BY <1>1 DEF Tables
  <2> QED
    BY <2>2, <2>3, <2>4 DEF FanRows
<1>7. ASSUME NEW r \in Row, DeleteRow(r)
      PROVE  \A f \in FanRows(db') : f \in FanRows(db) /\ db'.fan[f] = db.fan[f]
  <2> DEFINE d == [db EXCEPT !.live = @ \ {r}, !.sub[r] = BlankSub]
  <2>1. db' = Collect(d)
    BY <1>7 DEF DeleteRow
  <2>2. /\ d \in Tables /\ d.live = db.live \ {r} /\ d.fan = db.fan
        /\ \A q \in Row : q # r => d.sub[q] = db.sub[q]
    BY <1>1, BlankTypes DEF Tables
  <2> HIDE DEF d
  <2>3. FanRows(d) \subseteq FanRows(db) /\ FanRows(d) \subseteq Fan
    BY <1>1, <2>2, FanRowsAreFans DEF FanRows, Tables
  <2>4. FanRows(db') = FanRows(d)
    BY <2>1, <2>2, CollectTables DEF FanRows
  <2>5. \A f \in FanRows(d) : Collect(d).fan[f] = d.fan[f]
    BY <2>2, <2>3 DEF Collect, Tables
  <2> QED
    BY <2>1, <2>2, <2>3, <2>4, <2>5
<1>8. ASSUME NEW f \in Fan, NEW x \in Readings, FanChanges(f, x)
      PROVE  db' = db
  BY <1>8 DEF FanChanges
<1>9. \A r \in Row, s \in ForeignSets : ~SetForeignFans(r, s)
  BY DEF SetForeignFans, Edit
<1> QED
  BY <1>3, <1>4, <1>5, <1>6, <1>7, <1>8, <1>9 DEF Writers

\* The other writers change no row the daemon's copy shows, unless they make Fan rows
\* of their own.
LEMMA SeenWriters ==
  ASSUME TypeOK, NamesUnique(db), Writers, "foreign" \notin Edits, RowsSeen
  PROVE  RowsSeen'
<1>1. UNCHANGED <<idl, pc, pend, refused, fan>>
  BY WritersKeepProcess DEF replica, loop, txn, tables
<1> QED
  BY <1>1, WritersOnlyTakeRows DEF RowsSeen, RowSeen, AsRow

-----------------------------------------------------------------------------
(* The theorems. *)

\* A step of the daemon or a failure keeps the inductive invariant.
LEMMA DaemonStep ==
  ASSUME IInv, Daemon \/ WakeWithLock \/ WakeUnheard \/ Restart \/ Failure
  PROVE  IInv'
<1>1. TypeOK'
  BY TypeDaemon DEF IInv
<1>2. NamesUnique(db)' /\ NamesUnique(idl)'
  BY DaemonKeepsRows, ReplicaNamesUnique DEF IInv, NamesUnique
<1>3. PassInv'
  BY WakeStep, IgnoreStep, AddStep, AddedStep, ConfigureStep, EndStep, RemoveStep, QuietStep
     DEF Daemon, Failure
<1> QED
  BY <1>1, <1>2, <1>3 DEF IInv, PassInv

\* What happens outside the daemon does not reach what it knows by itself.
LEMMA SameProcess ==
  ASSUME IInv, UNCHANGED <<replica, loop, tables>>
  PROVE  PassInv'
BY DEF IInv, PassInv, LoopShape, FlagShape, VisitedSettled, VisitedMarked, FansIndexed,
       InLoop, Visited, SettledRow, replica, loop, tables

\* It holds at the start ...
LEMMA InitialInvariant ==
  ASSUME Init
  PROVE  IInv
<1>1. TypeOK
  BY TypeInit
<1>2. NamesUnique(db) /\ NamesUnique(idl)
  <2>1. db.live = InitLive
    BY BlankTypes DEF Init, Tables
  <2> QED
    BY <2>1, ConstantAssumption DEF Init, ProcessInit, NoRows, NamesUnique
<1>3. PassInv
  BY DEF PassInv, Init, ProcessInit, NoRows, LoopShape, FlagShape, VisitedSettled,
         VisitedMarked, FansIndexed, InLoop, Visited
<1> QED
  BY <1>1, <1>2, <1>3 DEF IInv, PassInv

\* ... and every step keeps it.
LEMMA InductiveStep ==
  ASSUME IInv, [Next]_vars
  PROVE  IInv'
<1>1. CASE Writers
  BY <1>1, TypeWriters, WritersKeepProcess, SameProcess DEF IInv, PassInv, NamesUnique, replica
<1>2. CASE UNCHANGED vars
  <2>1. TypeOK'
    BY <1>2 DEF IInv, TypeOK, vars, server, replica, loop, tables, txn, panel, bounds
  <2>2. PassInv' /\ UNCHANGED <<db, idl>>
    BY <1>2, SameProcess DEF vars, server, replica
  <2> QED
    BY <2>1, <2>2 DEF IInv, PassInv, NamesUnique
<1> QED
  BY <1>1, <1>2, DaemonStep DEF Next

\* The inductive invariant is an invariant.
THEOREM InductiveInvariant == Spec => []IInv
BY InitialInvariant, InductiveStep, PTL DEF Spec

\* With it, the registers, if no write to them is lost.
RegistersHeld == "i2c" \notin Faults => \A n \in Name : RegisterHeld(n)

\* The register of every subsystem that a pass has marked holds the speed of its
\* record, inside a pass too (physfan.c:186-238).
THEOREM RegistersAreHeld == Spec => []RegistersHeld
<1>1. Init => RegistersHeld
  BY DEF Init, ProcessInit, RegistersHeld, RegisterHeld
<1>2. IInv /\ RegistersHeld /\ [Next]_vars => RegistersHeld'
  <2> SUFFICES ASSUME IInv, [Next]_vars, "i2c" \notin Faults, NEW n \in Name, RegisterHeld(n)
               PROVE  RegisterHeld(n)'
    BY DEF RegistersHeld
  <2>1. CASE Daemon \/ WakeWithLock \/ Restart \/ Failure
    BY <2>1, Untouched, TouchedIsHeld
  <2>2. CASE Writers
    BY <2>2, WritersKeepProcess DEF IInv, RegisterHeld, tables, panel
  <2>3. CASE UNCHANGED vars
    BY <2>3 DEF RegisterHeld, vars, tables, panel
  <2> QED
    BY <2>1, <2>2, <2>3 DEF Next
<1> QED
  BY <1>1, <1>2, InductiveInvariant, PTL DEF Spec

\* Whenever the daemon has caught up with the database, the speed of every
\* subsystem it manages is the one its row calls for (fand.c:505-513: the sequence
\* number is taken before the rows are read, so no change is taken for seen).
THEOREM SpeedsSettle == Spec => []SettledSpeed
<1>1. IInv /\ RegistersHeld => SettledSpeed
  <2> SUFFICES ASSUME IInv, RegistersHeld, pc = "poll", ~alert,
                      NEW r \in idl.live, nameOf[r] \in valid
               PROVE  /\ loc[nameOf[r]].speed = Wanted(idl.sub[r])
                      /\ "i2c" \notin Faults => reg[nameOf[r]] = Setting[Wanted(idl.sub[r])]
    BY DEF SettledSpeed
  <2>1. loc[nameOf[r]].speed = Wanted(idl.sub[r])
    BY DEF IInv, LoopShape, VisitedSettled, SettledRow, InLoop, Visited
  <2>2. nameOf[r] \in marked /\ nameOf[r] \in Name
    BY DEF IInv, FlagShape, InLoop, TypeOK
  <2> QED
    BY <2>1, <2>2 DEF RegistersHeld, RegisterHeld
<1> QED
  BY <1>1, InductiveInvariant, RegistersAreHeld, PTL

\* Whenever it has caught up, it manages every subsystem whose description loads
\* and none whose row is gone (fand.c:320-350).
THEOREM ManagedAreThere == Spec => []ManagesWhatIsThere
<1>1. IInv => ManagesWhatIsThere
  BY DEF IInv, LoopShape, FlagShape, VisitedMarked, ManagesWhatIsThere, InLoop, Visited
<1> QED
  BY <1>1, InductiveInvariant, PTL

\* No structure outlives the pass that gave up on it, and fan_data indexes exactly
\* the fans of the valid subsystems (fand.c:243-250, 331-341).
THEOREM TablesStayInStep == Spec => []TablesAgree
<1>1. IInv => TablesAgree
  BY DEF IInv, FlagShape, FansIndexed, TablesAgree, InLoop
<1> QED
  BY <1>1, InductiveInvariant, PTL

\* While it has the lock, and nobody else writes Subsystem:fans, the daemon's copy
\* shows every Fan row as it is; between two passes the row says what the structure
\* of the fan holds, unless the server refused the last transaction (fand.c:449-490).
THEOREM LockSeesRows ==
  ASSUME "foreign" \notin Edits
  PROVE  Spec => [](has_lock => RowsSeen)
<1>1. Init => (has_lock => RowsSeen)
  BY DEF Init, ProcessInit
<1>2. IInv /\ (has_lock => RowsSeen) /\ [Next]_vars => (has_lock => RowsSeen)'
  <2> SUFFICES ASSUME IInv, has_lock => RowsSeen, [Next]_vars, has_lock'
               PROVE  RowsSeen'
    OBVIOUS
  <2>1. CASE Daemon \/ Restart \/ Failure
    BY <2>1, LockIsKeptOrLost, SeenStep DEF IInv
  <2>2. CASE WakeWithLock
    BY <2>2, SeenWithLock
  <2>3. CASE Writers
    BY <2>3, WritersKeepProcess, SeenWriters DEF IInv, replica
  <2>4. CASE UNCHANGED vars
    BY <2>4 DEF vars, server, replica, loop, txn, tables, RowsSeen, RowSeen, AsRow
  <2> QED
    BY <2>1, <2>2, <2>3, <2>4 DEF Next
<1> QED
  BY <1>1, <1>2, InductiveInvariant, PTL DEF Spec

\* Once the status pass has read the fans, each structure says the speed of its
\* subsystem.
FansToldSpeed ==
  pc \in {"publish", "poll"} \cup Ended =>
    \A n \in valid : \A f \in yamlFans[n] : fan[f].speed = loc[n].speed

\* The status pass finds the subsystem of each fan, for no two share one.
LEMMA ReadTellsSpeed ==
  ASSUME TypeOK, ReadStatus
  PROVE  FansToldSpeed'
<1>1. fan' = FansRead /\ UNCHANGED <<valid, loc>>
  BY DEF ReadStatus
<1>2. ASSUME NEW n \in valid, NEW f \in yamlFans[n]
      PROVE  fan'[f].speed = loc[n].speed
  <2>1. n \in Name /\ f \in Fan
    BY ConstantAssumption DEF TypeOK
  <2>2. \A m \in valid : f \in yamlFans[m] => m = n
    BY <2>1, ConstantAssumption DEF TypeOK
  <2>3. fan'[f] = ReadFan(f, n)
    <3>1. (CHOOSE m \in valid : f \in yamlFans[m]) = n
      BY <2>2
    <3> QED
      BY <1>1, <2>1, <3>1 DEF FansRead
  <2> QED
    BY <2>3 DEF ReadFan
<1> QED
  BY <1>1, <1>2 DEF FansToldSpeed

\* Every step keeps the structures up to date with the speed: reading the fans copies it
\* (physfan.c:419-448), and a pass that changes it comes back to reading.
LEMMA ToldSpeedStep ==
  ASSUME IInv, FansToldSpeed, [Next]_vars
  PROVE  FansToldSpeed'
<1>1. ASSUME NEW r \in Row, \/ SkipInvalid(r) \/ AddInvalid(r) \/ AddSubsystem(r)
                            \/ AddCommitted(r) \/ AddNotCommitted(r) \/ AddRefused(r)
                            \/ AddNotLocked(r) \/ Configure(r)
      PROVE  pc' \in {"scan", "adding", "configure"}
  BY <1>1 DEF SkipInvalid, AddInvalid, AddSubsystem, AddCommitted, AddNotCommitted,
              AddRefused, AddNotLocked, Configure
<1>2. CASE Wake \/ WakeWithLock \/ RemoveUnmarked
  <2>1. pc' \in {"scan", "read"}
    BY <1>2 DEF Wake, WakeWithLock, Run, RemoveUnmarked
  <2> QED
    BY <2>1 DEF FansToldSpeed, Ended
<1>3. CASE FaultOnFreedRow \/ FaultOnUnknownFan \/ Terminate
  <2>1. valid' = {}
    BY <1>3 DEF FaultOnFreedRow, FaultOnUnknownFan, Terminate, Ends
  <2> QED
    BY <2>1 DEF FansToldSpeed
<1>4. CASE \/ StatusCommitted \/ StatusNotCommitted \/ StatusRefused \/ StatusNotLocked
           \/ LoseSession \/ Restart
  <2>1. UNCHANGED <<valid, loc, fan>> /\ pc \in {"publish", "poll"} \cup Ended
    BY <1>4 DEF StatusCommitted, StatusNotCommitted, StatusRefused, StatusNotLocked,
                LoseSession, Restart, tables
  <2> QED
    BY <2>1 DEF FansToldSpeed
<1>5. CASE ReadStatus
  BY <1>5, ReadTellsSpeed DEF IInv
<1>6. CASE Writers
  BY <1>6, WritersKeepProcess DEF IInv, FansToldSpeed, loop, tables
<1>7. CASE UNCHANGED vars
  BY <1>7 DEF FansToldSpeed, vars, loop, tables
<1>8. pc' \in {"scan", "adding", "configure"} => FansToldSpeed'
  BY DEF FansToldSpeed, Ended
<1> QED
  BY <1>1, <1>2, <1>3, <1>4, <1>5, <1>6, <1>7, <1>8 DEF Next, Daemon, Failure

\* Whenever the daemon has the lock and has caught up, the Fan rows of the subsystems
\* it manages report the speed that the sensors and the override call for, unless the
\* server refused the last transaction, and as long as nobody else writes
\* Subsystem:fans (fand.c:423-499, 501-559).
THEOREM SpeedIsReported ==
  ASSUME "foreign" \notin Edits
  PROVE  Spec => []ReportedSpeed
<1>1. Init => FansToldSpeed
  BY DEF Init, ProcessInit, FansToldSpeed
<1>2. IInv /\ FansToldSpeed /\ [Next]_vars => FansToldSpeed'
  BY ToldSpeedStep
<1>3. IInv /\ FansToldSpeed /\ (has_lock => RowsSeen) => ReportedSpeed
  <2> SUFFICES ASSUME IInv, FansToldSpeed, RowsSeen, pc = "poll", ~alert,
                      ~refused,
                      NEW r \in idl.live, nameOf[r] \in valid,
                      NEW f \in FanRows(db), f \in yamlFans[nameOf[r]]
               PROVE  db.fan[f].speed = fan_speed_enum_to_string(Wanted(idl.sub[r]))
    BY DEF ReportedSpeed
  <2>1. loc[nameOf[r]].speed = Wanted(idl.sub[r])
    BY DEF IInv, LoopShape, VisitedSettled, SettledRow, InLoop, Visited
  <2>2. fan[f].speed = Wanted(idl.sub[r])
    BY <2>1 DEF FansToldSpeed
  <2>3. db.fan[f] = AsRow(fan[f])
    BY DEF RowsSeen, RowSeen
  <2> QED
    BY <2>2, <2>3 DEF AsRow
<1> QED
  BY <1>1, <1>2, <1>3, InductiveInvariant, LockSeesRows, PTL DEF Spec
=============================================================================
