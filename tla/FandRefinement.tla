--------------------------- MODULE FandRefinement ---------------------------
(***************************************************************************)
(* The daemon implements FanControl: every step of Fand is a step of       *)
(* FanControl, or leaves its variables alone, as long as no register write *)
(* is lost.                                                                *)
(***************************************************************************)
EXTENDS FandSafetyProofs

\* The row that counts for a demand, by the columns that make it up.
SameDemandRows(d, e) ==
  /\ d.live = e.live
  /\ \A r \in Row : /\ d.sub[r].dir = e.sub[r].dir
                    /\ d.sub[r].sensors = e.sub[r].sensors
                    /\ d.sub[r].override = e.sub[r].override

\* Copies that agree on those columns ask for the same.
LEMMA SameDemand ==
  ASSUME NEW d, NEW e, SameDemandRows(d, e)
  PROVE  Demand(d) = Demand(e)
<1>1. ASSUME NEW r \in Row PROVE Wanted(d.sub[r]) = Wanted(e.sub[r])
  <2>1. d.sub[r].sensors = e.sub[r].sensors /\ d.sub[r].override = e.sub[r].override
    BY DEF SameDemandRows
  <2> QED
    BY <2>1, EffectiveIsWanted
<1> QED
  BY <1>1 DEF SameDemandRows, Demand

\* What a row calls for is a speed, whatever its strings say.
LEMMA WantedIsASpeed ==
  ASSUME NEW sub
  PROVE  Wanted(sub) \in Speed
<1>1. /\ HighestBySensor(sub.sensors) \in SpeedEnum
      /\ fan_speed_string_to_enum(sub.override) \in SpeedEnum
  BY HighestIsASpeed, SpeedOfString DEF SpeedEnum
<1> QED
  BY <1>1, EffectiveIsASpeed, EffectiveIsWanted

\* What a copy of the tables asks for is a demand.
LEMMA DemandType ==
  ASSUME NEW d
  PROVE  Demand(d) \in [Row -> Speed \cup {FAND_SPEED_NONE}]
BY WantedIsASpeed DEF Demand

\* A daemon without a copy of the tables has seen nothing asked for.
LEMMA NoRowsNoDemand == Demand(NoRows) = Control!Nothing
BY DEF Demand, NoRows, Control!Nothing

\* No transaction of the daemon writes a column a demand is made of.
LEMMA DaemonKeepsDemand ==
  ASSUME TypeOK, Daemon \/ WakeWithLock \/ Restart \/ Failure
  PROVE  Demand(db') = Demand(db)
<1>1. \A r \in Row : Demand(WithFanRows(r)) = Demand(db)
  <2> SUFFICES ASSUME NEW r \in Row, r \in db.live
               PROVE  SameDemandRows(WithFanRows(r), db)
    <3>1. \A r \in Row : r \notin db.live => WithFanRows(r) = db
      BY DEF WithFanRows
    <3> QED
      BY <3>1, SameDemand
  <2>1. db.live \subseteq Row /\ db.sub \in [Row -> SubRow]
    BY DEF TypeOK, Tables
  <2>2. /\ WithFanRows(r).live = db.live
        /\ WithFanRows(r).sub = [db.sub EXCEPT ![r].fans = yamlFans[nameOf[r]]]
    BY <2>1 DEF WithFanRows, Collect, TypeOK, Tables
  <2>3. \A q \in Row : WithFanRows(r).sub[q] =
          IF q = r THEN [db.sub[q] EXCEPT !.fans = yamlFans[nameOf[r]]] ELSE db.sub[q]
    BY <2>1, <2>2
  <2> QED
    BY <2>1, <2>2, <2>3 DEF SameDemandRows, SubRow
<1>2. Demand(WithStatus) = Demand(db)
  BY TransactionTypes, SameDemand DEF SameDemandRows
<1>3. \/ db' = db \/ db' = WithStatus \/ \E r \in Row : db' = WithFanRows(r)
  <2>1. ASSUME NEW r \in Row, AddCommitted(r) \/ AddNotCommitted(r)
        PROVE  db' \in {db, WithFanRows(r)}
    BY <2>1 DEF AddCommitted, AddNotCommitted
  <2>2. CASE StatusCommitted \/ StatusNotCommitted \/ StatusRefused
    BY <2>2 DEF StatusCommitted, StatusNotCommitted, StatusRefused, server
  <2>3. CASE Wake \/ WakeWithLock
    BY <2>3 DEF Wake, WakeWithLock, NewsAtLock, Run, server
  <2>4. ASSUME NEW r \in Row, \/ SkipInvalid(r) \/ AddInvalid(r) \/ AddSubsystem(r)
                              \/ AddRefused(r) \/ AddNotLocked(r) \/ Configure(r)
        PROVE  db' = db
    BY <2>4 DEF SkipInvalid, AddInvalid, AddSubsystem, AddRefused, AddNotLocked, Configure,
                server
  <2>5. CASE \/ FaultOnFreedRow \/ RemoveUnmarked \/ ReadStatus \/ FaultOnUnknownFan
             \/ StatusNotLocked \/ Restart \/ Terminate \/ LoseSession
    BY <2>5 DEF FaultOnFreedRow, RemoveUnmarked, ReadStatus, FaultOnUnknownFan,
                StatusNotLocked, Restart, Terminate, LoseSession, server
  <2> QED
    BY <2>1, <2>2, <2>3, <2>4, <2>5 DEF Daemon, Failure
<1> QED
  BY <1>1, <1>2, <1>3

-----------------------------------------------------------------------------
(* The steps. *)

\* A step inside a pass works on the levels.
LEMMA LoopWorks ==
  ASSUME IInv, NEW r \in Row,
         \/ SkipInvalid(r) \/ AddInvalid(r) \/ AddSubsystem(r) \/ AddCommitted(r)
         \/ AddNotCommitted(r) \/ AddRefused(r) \/ AddNotLocked(r) \/ Configure(r)
  PROVE  Control!Work
<1>1. InLoop /\ InLoop'
  BY DEF InLoop, SkipInvalid, AddInvalid, AddSubsystem, AddCommitted, AddNotCommitted,
         AddRefused, AddNotLocked, Configure
<1>2. Demand(db') = Demand(db)
  BY DaemonKeepsDemand DEF IInv, Daemon, Failure
<1>3. Demand(idl') \in {Demand(idl), Demand(db)}
  <2>1. idl' \in {idl, db, db'}
    <3>1. CASE AddCommitted(r) \/ AddNotCommitted(r) \/ AddRefused(r)
      BY <3>1 DEF AddCommitted, AddNotCommitted, AddRefused, Replicate
    <3>2. CASE \/ SkipInvalid(r) \/ AddInvalid(r) \/ AddSubsystem(r) \/ AddNotLocked(r)
               \/ Configure(r)
      BY <3>2 DEF SkipInvalid, AddInvalid, AddSubsystem, AddNotLocked, Configure, replica
    <3> QED
      BY <3>1, <3>2
  <2> QED
    BY <1>2, <2>1
<1>4. \A n \in DOMAIN reg : reg'[n] # reg[n] => \E s \in Speed : reg'[n] = Setting[s]
  <2>1. nameOf[r] \in Name /\ DOMAIN reg = Name
    BY ConstantAssumption DEF IInv, TypeOK
  <2>2. loc' \in [Name -> LocalSpeed]
    BY TypeDaemon DEF IInv, TypeOK, Daemon, Failure
  <2>3. \/ UNCHANGED reg
        \/ \E lost : WriteSpeed(nameOf[r], lost)
    BY DEF SkipInvalid, AddInvalid, AddSubsystem, AddCommitted, AddNotCommitted,
           AddRefused, AddNotLocked, Configure, panel, InitialSpeed
  <2>4. ASSUME NEW lost, WriteSpeed(nameOf[r], lost), NEW n \in Name, reg'[n] # reg[n]
        PROVE  reg'[n] = Setting[loc'[nameOf[r]].speed] /\ loc'[nameOf[r]].speed \in Speed
    BY <2>1, <2>2, <2>4 DEF WriteSpeed, LocalSpeed, IInv, TypeOK
  <2> QED
    BY <2>1, <2>3, <2>4
<1> QED
  BY <1>1, <1>2, <1>3, <1>4 DEF Control!Work

\* Waking up with news stirs a controller that had settled.
LEMMA WakeStirs ==
  ASSUME IInv, Wake \/ WakeWithLock
  PROVE  Control!Stir \/ Control!Work \/ UNCHANGED Control!vars
<1>1. pc = "poll" /\ ~InLoop /\ UNCHANGED <<db, reg>> /\ idl' = db /\ alert' = FALSE
  BY DEF Wake, WakeWithLock, NewsAtLock, Run, server, panel, InLoop
<1>2. CASE pc' = "scan"
  <2>1. InLoop'
    BY <1>2 DEF InLoop
  <2> QED
    BY <1>1, <2>1 DEF Control!Stir, Control!Work
<1>3. CASE pc' # "scan"
  <2>1. ~alert /\ ~Alerts(idl, db) /\ pc' = "read"
    BY <1>3 DEF Wake, WakeWithLock, NewsAtLock, Run
  <2>2. Demand(idl') = Demand(idl) /\ ~InLoop'
    BY <1>1, <2>1, SameDemand DEF Alerts, SameDemandRows, InLoop
  <2> QED
    BY <1>1, <2>1, <2>2 DEF Control!vars
<1> QED
  BY <1>2, <1>3

\* The end of a pass settles what no news has unsettled meanwhile.
LEMMA RemoveSettles ==
  ASSUME IInv, RegistersHeld, RemoveUnmarked, "i2c" \notin Faults
  PROVE  Control!Settle \/ Control!Work
<1>1. InLoop /\ ~InLoop' /\ UNCHANGED <<db, idl, alert, reg>>
  BY DEF RemoveUnmarked, InLoop, server, replica, panel
<1>2. CASE alert
  BY <1>1, <1>2 DEF Control!Work
<1>3. CASE ~alert
  <2>1. IInv'
    BY DaemonStep DEF Daemon
  <2>2. ~alert' /\ Visited' = idl.live /\ marked' \subseteq valid'
    BY <1>1, <1>3, <2>1 DEF IInv, LoopShape, FlagShape, Visited
  <2>3. ASSUME NEW r \in Row, Demand(idl)[r] # FAND_SPEED_NONE
        PROVE  reg[nameOf[r]] = Setting[Demand(idl)[r]]
    <3>1. r \in idl.live /\ idl.sub[r].dir /\ Demand(idl)[r] = Wanted(idl.sub[r])
      BY <2>3 DEF Demand
    <3>2. nameOf[r] \in marked' /\ nameOf[r] \in valid' /\ nameOf[r] \in Name
      BY <1>1, <2>1, <2>2, <3>1, ConstantAssumption DEF IInv, VisitedMarked
    <3>3. SettledRow(r)'
      BY <2>1, <2>2, <3>1, <3>2 DEF IInv, VisitedSettled
    <3>4. nameOf[r] \in marked /\ (loc[nameOf[r]])' = loc[nameOf[r]]
      BY <3>2 DEF RemoveUnmarked, Unmarked
    <3> QED
      BY <1>1, <3>1, <3>2, <3>3, <3>4 DEF SettledRow, Wanted, RegistersHeld, RegisterHeld
  <2>4. Control!Serves(Demand(idl))
    BY <2>3 DEF Control!Serves
  <2> QED
    BY <1>1, <1>3, <2>2, <2>4 DEF Control!Settle
<1> QED
  BY <1>2, <1>3

\* The status pass and what goes on between two passes leave the levels alone.
LEMMA QuietStirs ==
  ASSUME IInv, \/ ReadStatus \/ StatusCommitted \/ StatusNotCommitted \/ StatusRefused
               \/ StatusNotLocked \/ LoseSession \/ Restart
  PROVE  Control!Stir \/ Control!Work \/ UNCHANGED Control!vars
<1>1. ~InLoop /\ ~InLoop' /\ UNCHANGED reg
  BY DEF ReadStatus, StatusCommitted, StatusNotCommitted, StatusRefused, StatusNotLocked,
         LoseSession, Restart, TxnDone, panel, loop, Ended, InLoop
<1>2. Demand(db') = Demand(db)
  BY DaemonKeepsDemand DEF IInv, Daemon, Failure
<1>3. alert \in BOOLEAN /\ alert' \in BOOLEAN
  BY TypeDaemon DEF IInv, TypeOK, Daemon, Failure
<1>4. CASE ReadStatus \/ StatusNotLocked \/ LoseSession \/ Restart
  <2>1. UNCHANGED <<idl, alert>>
    BY <1>4 DEF ReadStatus, StatusNotLocked, LoseSession, Restart, replica
  <2> QED
    BY <1>1, <1>2, <2>1 DEF Control!vars
<1>5. CASE StatusCommitted \/ StatusNotCommitted \/ StatusRefused
  <2>1. PICK new \in Tables : Replicate(new) /\ new \in {idl, db, db'}
    BY <1>5, TransactionTypes DEF StatusCommitted, StatusNotCommitted, StatusRefused, IInv,
       TypeOK
  <2>2. Demand(idl') \in {Demand(idl), Demand(db)} /\ (alert => alert')
    BY <1>2, <2>1 DEF Replicate
  <2>3. ~alert' => Demand(idl') = Demand(idl)
    BY <1>3, <2>1, NoNews, SameDemand DEF SameDemandRows, IInv
  <2>4. CASE alert
    BY <1>1, <1>2, <2>2, <2>4 DEF Control!Work
  <2>5. CASE ~alert /\ alert'
    BY <1>1, <1>2, <2>2, <2>5 DEF Control!Stir
  <2>6. CASE ~alert /\ ~alert'
    BY <1>1, <1>2, <2>3, <2>6 DEF Control!vars
  <2> QED
    BY <2>4, <2>5, <2>6
<1> QED
  BY <1>4, <1>5

\* A process that ends forgets what it has seen.
LEMMA EndForgets ==
  ASSUME IInv, FaultOnFreedRow \/ FaultOnUnknownFan \/ Terminate
  PROVE  Control!Forget
<1>1. PICK where \in Ended : Ends(where)
  BY DEF FaultOnFreedRow, FaultOnUnknownFan, Terminate, Ended
<1>2. idl' = NoRows /\ alert' = FALSE /\ ~InLoop'
  BY <1>1 DEF Ends, Ended, InLoop
<1>3. UNCHANGED <<db, reg>>
  BY DEF FaultOnFreedRow, FaultOnUnknownFan, Terminate, server, panel
<1> QED
  BY <1>2, <1>3, NoRowsNoDemand DEF Control!Forget

\* The other writers, and the fans, do no more than ask.
LEMMA WritersAsk ==
  ASSUME IInv, Writers
  PROVE  Control!Ask
<1>1. UNCHANGED <<idl, alert, pc, reg>>
  BY WritersKeepProcess DEF IInv, replica, loop, panel
<1> QED
  BY <1>1, DemandType DEF Control!Ask, InLoop

-----------------------------------------------------------------------------
\* The daemon is the controller FanControl describes (fand.c:501-559 with
\* physfan.c:122-238), for any rows, names, fans and speeds and whatever the other
\* writers do, if register writes reach the hardware.
THEOREM DaemonImplementsControl ==
  ASSUME "i2c" \notin Faults
  PROVE  Spec => ImplementsFanControl
<1>1. Init => Control!Init
  <2> SUFFICES ASSUME Init PROVE Control!Init
    OBVIOUS
  <2>1. idl = NoRows /\ alert = FALSE /\ ~InLoop
    BY DEF Init, ProcessInit, InLoop
  <2> QED
    BY <2>1, DemandType, NoRowsNoDemand DEF Control!Init
<1>2. IInv /\ RegistersHeld /\ [Next]_vars => [Control!Next]_(Control!vars)
  <2> SUFFICES ASSUME IInv, RegistersHeld, [Next]_vars
               PROVE  Control!Next \/ UNCHANGED Control!vars
    OBVIOUS
  <2>1. CASE Writers
    BY <2>1, WritersAsk DEF Control!Next
  <2>2. CASE Daemon \/ WakeWithLock \/ Restart \/ Failure
    BY <2>2, LoopWorks, WakeStirs, RemoveSettles, QuietStirs, EndForgets
       DEF Daemon, Failure, Control!Next
  <2>3. CASE UNCHANGED vars
    BY <2>3 DEF vars, server, replica, loop, panel, Control!vars, InLoop
  <2> QED
    BY <2>1, <2>2, <2>3 DEF Next
<1> QED
  BY <1>1, <1>2, InductiveInvariant, RegistersAreHeld, PTL
     DEF Spec, ImplementsFanControl, Control!Spec

\* What FanControl promises, on its own: a controller that has settled has every level
\* as it has seen asked for, and none moves before it stirs.
Served == ~InLoop /\ ~alert => Control!Serves(Demand(idl))
Rests  == ~InLoop /\ ~alert /\ (~InLoop /\ ~alert)' => reg' = reg

\* FanControl keeps that promise: only work moves a level, and work ends by serving.
LEMMA ControlServes == Control!Spec => []Served /\ [][Rests]_(Control!vars)
<1>1. Control!Init => Served
  BY DEF Control!Init, Control!Nothing, Control!Serves, Served
<1>2. Served /\ [Control!Next]_(Control!vars) => Served'
  <2> SUFFICES ASSUME Served, [Control!Next]_(Control!vars), (~InLoop /\ ~alert)'
               PROVE  Control!Serves(Demand(idl))'
    BY DEF Served
  <2>1. CASE Control!Ask \/ UNCHANGED Control!vars
    BY <2>1 DEF Control!Ask, Control!vars, Control!Serves, Served
  <2>2. CASE Control!Settle
    BY <2>2 DEF Control!Settle, Control!Serves
  <2>3. CASE Control!Forget
    BY <2>3 DEF Control!Forget, Control!Nothing, Control!Serves
  <2> QED
    BY <2>1, <2>2, <2>3 DEF Control!Next, Control!Stir, Control!Work
<1>3. [Control!Next]_(Control!vars) => [Rests]_(Control!vars)
  BY DEF Control!Next, Control!Ask, Control!Stir, Control!Work, Control!Settle,
         Control!Forget, Control!vars, Rests
<1> QED
  BY <1>1, <1>2, <1>3, PTL DEF Control!Spec

\* So does the daemon (fand.c:501-559): outside the loop over the rows and without
\* news, every register is as the daemon's copy calls for, rows whose structure it has
\* just made and a daemon that waits for the status commit included; and until there
\* is news it does not touch one.
THEOREM DaemonServes ==
  ASSUME "i2c" \notin Faults
  PROVE  Spec => []Served /\ [][Rests]_(Control!vars)
BY DaemonImplementsControl, ControlServes, PTL DEF ImplementsFanControl
=============================================================================
