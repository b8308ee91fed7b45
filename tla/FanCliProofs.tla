---------------------------- MODULE FanCliProofs ----------------------------
(***************************************************************************)
(* The correctness properties of FanCli hold for any number of sessions,   *)
(* rows, words, commands and changes by others.  The invariant says that a *)
(* transaction under way is the edit of the copy as it still is, and that  *)
(* what counts as a session's own setting is in force.                     *)
(***************************************************************************)
EXTENDS FanCli, TLAPS

\* There is one first row, or none: no two rows have the same place.
LEMMA OneFirst ==
  ASSUME NEW d \in Tables, NEW q \in First(d), NEW r \in First(d)
  PROVE  q = r
<1>1. q \in Row /\ r \in Row /\ place[q] <= place[r] /\ place[r] <= place[q]
  BY DEF First, Tables
<1>2. place[q] \in Nat /\ place[r] \in Nat
  BY <1>1, CliAssumption
<1> QED
  BY <1>1, <1>2, CliAssumption

\* A row with nothing configured is a configuration.
LEMMA BlankTypes == Blank \in Config
BY CliAssumption DEF Blank, Config

\* Editing the override of a configuration sets it and keeps the other keys
\* (fan_vty.c:73-86).
LEMMA EditedTypes ==
  ASSUME NEW c \in Config, NEW w \in Words \cup {NULL}
  PROVE  /\ Edited(c, w) \in Config
         /\ Edited(c, w).override = w /\ Edited(c, w).rest = c.rest
BY DEF Edited, Config

-----------------------------------------------------------------------------
(* Types. *)

\* A transaction leaves tables.
LEMMA AppliedTypes ==
  ASSUME TypeOK, NEW t \in Txn
  PROVE  Applied(t) \in Tables
BY DEF TypeOK, Tables, Txn, Applied

\* The tables start as tables, the sessions without a transaction.
LEMMA TypeInit ==
  ASSUME Init
  PROVE  TypeOK
<1>1. db \in Tables
  BY BlankTypes, CliAssumption DEF Init, Tables
<1> QED
  BY <1>1 DEF Init, TypeOK

\* Every step of a vtysh session keeps the types.
LEMMA TypeSession ==
  ASSUME TypeOK, NEW s \in Session,
         \/ \E w \in Words \cup {NULL} : FanSpeed(s, w)
         \/ Commits(s) \/ Unchanged(s) \/ NotCommitted(s)
         \/ ShowSystemFan(s) \/ ShowFaults(s) \/ ShowRunningConfig(s)
         \/ Refresh(s) \/ LogIn(s)
  PROVE  TypeOK'
<1>1. ASSUME NEW w \in Words \cup {NULL}, FanSpeed(s, w)
      PROVE  TypeOK'
  <2>1. PICK r \in First(copy[s]) :
          txn' = [txn EXCEPT ![s] = {[row |-> r, asked |-> w,
                                      config |-> Edited(copy[s].config[r], w)]}]
    BY <1>1 DEF FanSpeed
  <2>2. r \in Row /\ copy[s].config[r] \in Config
    BY DEF First, TypeOK, Tables
  <2>3. [row |-> r, asked |-> w, config |-> Edited(copy[s].config[r], w)] \in Txn
    BY <2>2, EditedTypes DEF Txn
  <2>4. /\ txn' \in [Session -> SUBSET Txn]
        /\ \A p \in Session : \A t, u \in txn'[p] : t = u
    BY <2>1, <2>3 DEF TypeOK
  <2> QED
    BY <1>1, <2>4 DEF FanSpeed, TypeOK
<1>2. [txn EXCEPT ![s] = {}] \in [Session -> SUBSET Txn]
      /\ \A p \in Session : \A t, u \in [txn EXCEPT ![s] = {}][p] : t = u
  BY DEF TypeOK
<1>3. CASE Commits(s)
  <2>1. PICK t \in txn[s] :
          /\ db' = Applied(t)
          /\ mine' = [p \in Session |-> IF p = s THEN {t.asked} \cap InForce(db') ELSE {}]
    BY <1>3 DEF Commits
  <2>2. t \in Txn /\ t.asked \in Words \cup {NULL}
    BY DEF TypeOK, Txn
  <2>3. db' \in Tables /\ mine' \in [Session -> SUBSET (Words \cup {NULL})]
    BY <2>1, <2>2, AppliedTypes
  <2> QED
    BY <1>2, <1>3, <2>3 DEF Commits, TypeOK
<1>4. CASE Unchanged(s)
  <2>1. PICK t \in txn[s] : mine' = [mine EXCEPT ![s] = {t.asked} \cap InForce(db)]
    BY <1>4 DEF Unchanged
  <2>2. t.asked \in Words \cup {NULL}
    BY DEF TypeOK, Txn
  <2>3. mine' \in [Session -> SUBSET (Words \cup {NULL})]
    BY <2>1, <2>2 DEF TypeOK
  <2> QED
    BY <1>2, <1>4, <2>3 DEF Unchanged, TypeOK
<1>5. CASE NotCommitted(s)
  <2>1. PICK t \in txn[s] : db' \in {db, Applied(t)}
    BY <1>5 DEF NotCommitted
  <2>2. t \in Txn /\ db' \in Tables
    BY <2>1, AppliedTypes DEF TypeOK
  <2> QED
    BY <1>2, <1>5, <2>2 DEF NotCommitted, Touched, TypeOK
<1>6. CASE ShowSystemFan(s)
  <2>1. OverrideShown(copy[s]) \subseteq Words \cup {NULL}
    BY DEF OverrideShown, First, TypeOK, Tables, Config
  <2> QED
    BY <1>6, <2>1 DEF ShowSystemFan, TypeOK
<1>7. CASE ShowFaults(s) \/ Refresh(s) \/ LogIn(s)
  BY <1>7 DEF ShowFaults, Refresh, LogIn, TypeOK
<1>8. CASE ShowRunningConfig(s)
  <2>1. RunningConfig(copy[s]) \subseteq Words \cup {NULL}
    BY DEF RunningConfig, Line, First, TypeOK, Tables, Config
  <2> QED
    BY <1>8, <2>1 DEF ShowRunningConfig, TypeOK
<1> QED
  BY <1>1, <1>3, <1>4, <1>5, <1>6, <1>7, <1>8

\* What the other writers do.
Others ==
  \/ \E r \in Row :
       (\E m \in Rest : SetRest(r, m)) \/ SubsystemComes(r) \/ SubsystemGoes(r)
  \/ \E f \in Fan : FanComes(f) \/ FanRead(f)

\* Tables with one of their parts replaced.
LEMMA TablesWith ==
  ASSUME NEW d \in Tables, NEW live \in SUBSET Row, NEW config \in [Row -> Config],
         NEW fans \in SUBSET Fan, NEW rpm \in SUBSET Fan
  PROVE  [live |-> live, config |-> config, fans |-> fans, rpm |-> rpm] \in Tables
BY DEF Tables

\* The other writers leave tables.
LEMMA OthersTypes ==
  ASSUME TypeOK, Others
  PROVE  db' \in Tables
<1>0. /\ db \in Tables /\ db.live \in SUBSET Row /\ db.config \in [Row -> Config]
      /\ db.fans \in SUBSET Fan /\ db.rpm \in SUBSET Fan
      /\ db = [live |-> db.live, config |-> db.config, fans |-> db.fans, rpm |-> db.rpm]
  BY DEF TypeOK, Tables
<1>1. ASSUME NEW r \in Row, NEW m \in Rest, SetRest(r, m)
      PROVE  db' \in Tables
  <2>1. [db.config[r] EXCEPT !.rest = m] \in Config
    BY <1>0 DEF Config
  <2>2. [db.config EXCEPT ![r].rest = m] \in [Row -> Config]
    BY <1>0, <2>1
  <2>3. db' = [live |-> db.live, config |-> [db.config EXCEPT ![r].rest = m],
               fans |-> db.fans, rpm |-> db.rpm]
    BY <1>0, <1>1 DEF SetRest, Tables
  <2> QED
    BY <1>0, <2>2, <2>3, TablesWith
<1>2. ASSUME NEW r \in Row, SubsystemComes(r)
      PROVE  db' \in Tables
  BY <1>2 DEF SubsystemComes, TypeOK, Tables
<1>3. ASSUME NEW r \in Row, SubsystemGoes(r)
      PROVE  db' \in Tables
  <2>1. PICK fans \in {{}, db.fans} :
          db' = [db EXCEPT !.live = @ \ {r}, !.config[r] = Blank, !.fans = fans,
                           !.rpm = @ \cap fans]
    BY <1>3 DEF SubsystemGoes
  <2>2. db' = [live |-> db.live \ {r}, config |-> [db.config EXCEPT ![r] = Blank],
               fans |-> fans, rpm |-> db.rpm \cap fans]
    BY <1>0, <2>1 DEF Tables
  <2>3. [db.config EXCEPT ![r] = Blank] \in [Row -> Config]
    BY <1>0, BlankTypes
  <2>4. db.live \ {r} \in SUBSET Row /\ fans \in SUBSET Fan /\ db.rpm \cap fans \in SUBSET Fan
    BY <1>0
  <2> QED
    BY <1>0, <2>2, <2>3, <2>4, TablesWith
<1>4. ASSUME NEW f \in Fan, FanComes(f) \/ FanRead(f)
      PROVE  db' \in Tables
  <2>1. CASE FanComes(f)
    BY <1>0, <2>1 DEF FanComes, Tables
  <2>2. CASE FanRead(f)
    BY <1>0, <2>2 DEF FanRead, Tables
  <2> QED
    BY <1>4, <2>1, <2>2
<1> QED
  BY <1>1, <1>2, <1>3, <1>4 DEF Others

\* Every step keeps the types.
LEMMA TypeStep ==
  ASSUME TypeOK, [Next]_vars
  PROVE  TypeOK'
<1>1. CASE Others
  <2>1. Changes /\ (Touched \/ UNCHANGED mine)
    BY <1>1 DEF Others, SetRest, SubsystemComes, SubsystemGoes, FanComes, FanRead
  <2>2. mine' \in [Session -> SUBSET (Words \cup {NULL})]
    BY <2>1 DEF Touched, TypeOK
  <2> QED
    BY <1>1, <2>1, <2>2, OthersTypes DEF Changes, TypeOK
<1>2. CASE UNCHANGED vars
  BY <1>2 DEF vars, TypeOK
<1> QED
  BY <1>1, <1>2, TypeSession DEF Next, Others

\* Every variable keeps its type.
THEOREM CliTypes == Spec => []TypeOK
BY TypeInit, TypeStep, PTL DEF Spec

-----------------------------------------------------------------------------
(* The invariant. *)

EditsTheCopy ==
  \A s \in Session : \A t \in txn[s] :
    t.row \in First(copy[s]) /\ t.config = Edited(copy[s].config[t.row], t.asked)

IdleWhenDown == \A s \in Session \ up : txn[s] = {}

MineIsInForce ==
  \A s \in Session : mine[s] # {} => mine[s] = InForce(db) /\ mine[s] = InForce(copy[s])

CliInv == TypeOK /\ EditsTheCopy /\ IdleWhenDown /\ MineIsInForce

\* There is one first row, so one override in force.
LEMMA OneInForce ==
  ASSUME NEW d \in Tables, NEW w, {w} \cap InForce(d) # {}
  PROVE  {w} \cap InForce(d) = InForce(d)
BY OneFirst DEF InForce

\* A transaction and the copy it edits change together.
LEMMA EditsStep ==
  ASSUME CliInv, [Next]_vars
  PROVE  EditsTheCopy' /\ IdleWhenDown'
<1> USE DEF CliInv, EditsTheCopy, IdleWhenDown
<1>1. ASSUME NEW s \in Session, NEW w \in Words \cup {NULL}, FanSpeed(s, w)
      PROVE  EditsTheCopy' /\ IdleWhenDown'
  <2>1. PICK r \in First(copy[s]) :
          txn' = [txn EXCEPT ![s] = {[row |-> r, asked |-> w,
                                      config |-> Edited(copy[s].config[r], w)]}]
    BY <1>1 DEF FanSpeed
  <2>2. UNCHANGED <<copy, up>> /\ s \in up
    BY <1>1 DEF FanSpeed
  <2>3. \A p \in Session : p # s => txn'[p] = txn[p]
    BY <2>1 DEF TypeOK
  <2>4. \A t \in txn'[s] : t.row = r /\ t.config = Edited(copy[s].config[r], t.asked)
    BY <2>1 DEF TypeOK
  <2> QED
    BY <2>2, <2>3, <2>4
<1>2. ASSUME NEW s \in Session, txn' = [txn EXCEPT ![s] = {}],
             \A p \in Session : p # s => copy'[p] = copy[p], up \subseteq up'
      PROVE  EditsTheCopy' /\ IdleWhenDown'
  <2>1. txn'[s] = {} /\ \A p \in Session : p # s => txn'[p] = txn[p]
    BY <1>2 DEF TypeOK
  <2> QED
    BY <1>2, <2>1
<1>3. ASSUME NEW s \in Session, Commits(s) \/ Unchanged(s) \/ NotCommitted(s)
      PROVE  EditsTheCopy' /\ IdleWhenDown'
  <2>1. /\ txn' = [txn EXCEPT ![s] = {}] /\ up' = up
        /\ copy' = copy \/ copy' = [copy EXCEPT ![s] = db']
    BY <1>3 DEF Commits, Unchanged, NotCommitted
  <2>2. \A p \in Session : p # s => copy'[p] = copy[p]
    BY <2>1 DEF TypeOK
  <2> QED
    BY <1>2, <2>1, <2>2
<1>4. ASSUME NEW s \in Session,
             \/ ShowSystemFan(s) \/ ShowFaults(s) \/ ShowRunningConfig(s)
             \/ Refresh(s) \/ LogIn(s)
      PROVE  EditsTheCopy' /\ IdleWhenDown'
  <2>1. /\ txn' = txn /\ txn[s] = {} /\ up \ {s} \subseteq up'
        /\ copy' = copy \/ copy' = [copy EXCEPT ![s] = db]
    BY <1>4 DEF ShowSystemFan, ShowFaults, ShowRunningConfig, Refresh, LogIn
  <2>2. \A p \in Session : p # s => copy'[p] = copy[p]
    BY <2>1 DEF TypeOK
  <2> QED
    BY <2>1, <2>2
<1>5. CASE Others \/ UNCHANGED vars
  <2>1. UNCHANGED <<txn, copy, up>>
    BY <1>5 DEF Others, SetRest, SubsystemComes, SubsystemGoes, FanComes, FanRead, Changes, vars
  <2> QED
    BY <2>1
<1> QED
  BY <1>1, <1>3, <1>4, <1>5 DEF Next, Others

\* Setting another key, or a Fan row, leaves the overrides in force.
LEMMA InForceKept ==
  ASSUME TypeOK, \/ \E r \in Row, m \in Rest : SetRest(r, m)
                 \/ \E f \in Fan : FanComes(f) \/ FanRead(f)
  PROVE  InForce(db') = InForce(db)
<1>1. /\ db'.live = db.live
      /\ \A r \in Row : db'.config[r].override = db.config[r].override
  <2>1. CASE \E f \in Fan : FanComes(f) \/ FanRead(f)
    BY <2>1 DEF FanComes, FanRead, TypeOK, Tables
  <2>2. ASSUME NEW r \in Row, NEW m \in Rest, SetRest(r, m)
        PROVE  /\ db'.live = db.live
               /\ \A q \in Row : db'.config[q].override = db.config[q].override
    <3>1. db' = [db EXCEPT !.config[r].rest = m]
      BY <2>2 DEF SetRest
    <3>2. db.config \in [Row -> Config] /\ db.config[r] \in Config
      BY DEF TypeOK, Tables
    <3>3. db'.live = db.live /\ db'.config = [db.config EXCEPT ![r].rest = m]
      BY <3>1 DEF TypeOK, Tables
    <3>4. [db.config[r] EXCEPT !.rest = m].override = db.config[r].override
      BY <3>2 DEF Config
    <3> QED
      BY <3>2, <3>3, <3>4
  <2> QED
    BY <2>1, <2>2
<1>2. First(db') = First(db) /\ First(db) \subseteq Row
  BY <1>1 DEF First, TypeOK, Tables
<1> QED
  BY <1>1, <1>2 DEF InForce

\* What a session set stays in force until others touch the rows (fan_vty.c:69).
LEMMA MineStep ==
  ASSUME CliInv, [Next]_vars
  PROVE  MineIsInForce'
<1> USE DEF CliInv, MineIsInForce
<1>0. TypeOK'
  BY TypeStep
<1>1. ASSUME NEW s \in Session, Commits(s)
      PROVE  MineIsInForce'
  <2>1. PICK t \in txn[s] :
          mine' = [p \in Session |-> IF p = s THEN {t.asked} \cap InForce(db') ELSE {}]
    BY <1>1 DEF Commits
  <2>2. copy'[s] = db' /\ db' \in Tables
    BY <1>0, <1>1 DEF Commits, TypeOK
  <2>3. mine'[s] # {} => mine'[s] = InForce(db')
    BY <2>1, <2>2, OneInForce
  <2>4. InForce(copy'[s]) = InForce(db')
    BY <2>2
  <2> QED
    BY <2>1, <2>3, <2>4
<1>2. ASSUME NEW s \in Session, Unchanged(s)
      PROVE  MineIsInForce'
  <2>1. PICK t \in txn[s] : /\ ~Differs(s, t)
                           /\ mine' = [mine EXCEPT ![s] = {t.asked} \cap InForce(db)]
    BY <1>2 DEF Unchanged
  <2>2. /\ UNCHANGED <<db, copy>> /\ db \in Tables /\ copy[s] \in Tables /\ t \in Txn
        /\ mine'[s] = {t.asked} \cap InForce(db) /\ \A p \in Session : p # s => mine'[p] = mine[p]
    BY <1>2, <2>1 DEF Unchanged, TypeOK
  <2>3. t.row \in First(copy[s]) /\ copy[s].config[t.row] = Edited(copy[s].config[t.row], t.asked)
    BY <2>1 DEF Differs, EditsTheCopy
  <2>4. copy[s].config[t.row].override = t.asked
    BY <2>2, <2>3, EditedTypes DEF Tables, Txn
  <2>5. {t.asked} \cap InForce(copy[s]) # {}
    BY <2>3, <2>4 DEF InForce
  <2>6. {t.asked} = InForce(copy[s])
    BY <2>2, <2>5, OneInForce
  <2>7. mine'[s] # {} => mine'[s] = InForce(db) /\ mine'[s] = {t.asked}
    BY <2>2, OneInForce
  <2> QED
    BY <2>2, <2>6, <2>7
<1>3. ASSUME mine' = [s \in Session |-> {}]
      PROVE  MineIsInForce'
  BY <1>3
<1>4. ASSUME NEW s \in Session, NotCommitted(s)
      PROVE  MineIsInForce'
  BY <1>3, <1>4 DEF NotCommitted, Touched
<1>5. ASSUME NEW s \in Session, Refresh(s)
      PROVE  MineIsInForce'
  <2>1. /\ UNCHANGED <<db, mine>> /\ copy'[s] = db
        /\ \A p \in Session : p # s => copy'[p] = copy[p]
    BY <1>5 DEF Refresh, TypeOK
  <2>2. InForce(copy'[s]) = InForce(db)
    BY <2>1
  <2>3. /\ InForce(db') = InForce(db)
        /\ \A p \in Session : p # s => InForce(copy'[p]) = InForce(copy[p])
    BY <2>1
  <2> QED
    BY <2>1, <2>2, <2>3
<1>6. ASSUME NEW s \in Session, LogIn(s)
      PROVE  MineIsInForce'
  <2>1. /\ db' = db /\ mine'[s] = {}
        /\ \A p \in Session : p # s => copy'[p] = copy[p] /\ mine'[p] = mine[p]
    BY <1>6 DEF LogIn, TypeOK
  <2> QED
    BY <2>1
<1>7. CASE \E r \in Row : SubsystemComes(r) \/ SubsystemGoes(r)
  BY <1>3, <1>7 DEF SubsystemComes, SubsystemGoes, Touched
<1>8. CASE \/ \E r \in Row, m \in Rest : SetRest(r, m)
           \/ \E f \in Fan : FanComes(f) \/ FanRead(f)
  <2>1. UNCHANGED <<copy, mine>>
    BY <1>8 DEF SetRest, FanComes, FanRead, Changes
  <2>2. InForce(db') = InForce(db)
    BY <1>8, InForceKept
  <2> QED
    BY <2>1, <2>2
<1>9. CASE \/ \E s \in Session : \/ \E w \in Words \cup {NULL} : FanSpeed(s, w)
                              \/ ShowSystemFan(s) \/ ShowFaults(s) \/ ShowRunningConfig(s)
           \/ UNCHANGED vars
  BY <1>9 DEF FanSpeed, ShowSystemFan, ShowFaults, ShowRunningConfig, vars
<1> QED
  BY <1>1, <1>2, <1>4, <1>5, <1>6, <1>7, <1>8, <1>9 DEF Next

\* What is known of commands in flight holds throughout.
LEMMA CliStep == Spec => []CliInv
<1>1. Init => CliInv
  BY TypeInit DEF Init, CliInv, EditsTheCopy, IdleWhenDown, MineIsInForce
<1>2. CliInv /\ [Next]_vars => CliInv'
  BY TypeStep, EditsStep, MineStep DEF CliInv
<1> QED
  BY <1>1, <1>2, PTL DEF Spec

-----------------------------------------------------------------------------
(* The properties. *)

\* A command is over with one of the results of the commit.
LEMMA CommandEnds ==
  ASSUME TypeOK, [Next]_vars, NEW s \in Session, NEW t \in txn[s], t \notin txn'[s]
  PROVE  Commits(s) \/ Unchanged(s) \/ NotCommitted(s)
<1>1. ASSUME NEW p \in Session, NEW w \in Words \cup {NULL}, FanSpeed(p, w)
      PROVE  FALSE
  <2>1. txn[p] = {} /\ p # s
    BY <1>1 DEF FanSpeed
  <2>2. txn'[s] = txn[s]
    BY <1>1, <2>1 DEF FanSpeed, TypeOK
  <2> QED
    BY <2>2
<1>2. ASSUME NEW p \in Session, p # s, Commits(p) \/ Unchanged(p) \/ NotCommitted(p)
      PROVE  FALSE
  <2>1. txn' = [txn EXCEPT ![p] = {}]
    BY <1>2 DEF Commits, Unchanged, NotCommitted
  <2>2. txn'[s] = txn[s]
    BY <1>2, <2>1 DEF TypeOK
  <2> QED
    BY <2>2
<1>3. ASSUME txn' = txn
      PROVE  FALSE
  BY <1>3
<1>4. CASE Others \/ UNCHANGED vars
  BY <1>3, <1>4 DEF Others, SetRest, SubsystemComes, SubsystemGoes, FanComes, FanRead, Changes, vars
<1>5. ASSUME NEW p \in Session,
             \/ ShowSystemFan(p) \/ ShowFaults(p) \/ ShowRunningConfig(p)
             \/ Refresh(p) \/ LogIn(p)
      PROVE  FALSE
  BY <1>3, <1>5 DEF ShowSystemFan, ShowFaults, ShowRunningConfig, Refresh, LogIn
<1> QED
  BY <1>1, <1>2, <1>4, <1>5 DEF Next, Others

\* What the end of a command can leave behind.
LEMMA CommandResult ==
  ASSUME CliInv, [Next]_vars, NEW s \in Session, NEW t \in txn[s], t \notin txn'[s]
  PROVE  /\ t.row \in Row /\ t.config \in Config
         /\ t.config.override = t.asked /\ t.config.rest = copy[s].config[t.row].rest
         /\ \/ db' = Applied(t)
            \/ db' = db /\ (failures' # failures \/ t.config = copy[s].config[t.row])
<1>1. t \in Txn /\ copy[s] \in Tables /\ \A u \in txn[s] : u = t
  BY DEF CliInv, TypeOK
<1>2. t.row \in Row /\ t.config = Edited(copy[s].config[t.row], t.asked)
  BY <1>1 DEF CliInv, EditsTheCopy, Txn
<1>3. copy[s].config[t.row] \in Config /\ t.asked \in Words \cup {NULL} /\ t.config \in Config
  BY <1>1, <1>2 DEF Tables, Txn
<1>4. t.config.override = t.asked /\ t.config.rest = copy[s].config[t.row].rest
  BY <1>2, <1>3, EditedTypes
<1>5. CASE Commits(s)
  BY <1>1, <1>2, <1>3, <1>4, <1>5 DEF Commits
<1>6. CASE Unchanged(s)
  BY <1>1, <1>2, <1>3, <1>4, <1>6 DEF Unchanged, Differs
<1>7. CASE NotCommitted(s)
  <2>1. failures' # failures
    BY <1>7 DEF NotCommitted, CliInv, TypeOK
  <2> QED
    BY <1>1, <1>2, <1>3, <1>4, <1>7, <2>1 DEF NotCommitted
<1> QED
  BY <1>5, <1>6, <1>7, CommandEnds DEF CliInv

\* The tables after a transaction, row by row.
LEMMA AppliedRows ==
  ASSUME TypeOK, NEW t, t.row \in Row
  PROVE  /\ t.row \in db.live => Applied(t).config[t.row] = t.config
         /\ t.row \notin db.live => Applied(t).config[t.row] = db.config[t.row]
         /\ \A r \in Row : r # t.row => Applied(t).config[r] = db.config[r]
BY DEF Applied, TypeOK, Tables

\* A command that reports success has set what it was given (fan_vty.c:53-99).
THEOREM SuccessIsReal == Spec => SuccessMeansSet
<1>1. CliInv /\ [Next]_vars =>
        \A s \in Session : \A t \in txn[s] \ txn'[s] :
          failures' = failures /\ t.row \in db.live =>
            \/ db'.config[t.row].override = t.asked
            \/ db' = db /\ copy[s].config[t.row] # db.config[t.row]
  <2> SUFFICES ASSUME CliInv, [Next]_vars, NEW s \in Session, NEW t \in txn[s],
                      t \notin txn'[s], failures' = failures, t.row \in db.live
               PROVE  \/ db'.config[t.row].override = t.asked
                      \/ db' = db /\ copy[s].config[t.row] # db.config[t.row]
    OBVIOUS
  <2>1. CASE db' = Applied(t)
    <3>1. db'.config[t.row] = t.config
      BY <2>1, AppliedRows, CommandResult DEF CliInv
    <3> QED
      BY <3>1, CommandResult
  <2>2. CASE db' = db /\ t.config = copy[s].config[t.row]
    BY <2>2, CommandResult
  <2> QED
    BY <2>1, <2>2, CommandResult
<1> QED
  BY <1>1, CliStep, PTL DEF Spec, SuccessMeansSet

\* A command changes nothing else, unless the other keys of the row have changed
\* since they were read (fan_vty.c:76-86).
THEOREM CommandsKeepOthers == Spec => OthersKept
<1>1. CliInv /\ [Next]_vars =>
        \A s \in Session : \A t \in txn[s] \ txn'[s] :
          copy[s].config[t.row].rest = db.config[t.row].rest =>
            \A r \in Row : /\ db'.config[r].rest = db.config[r].rest
                           /\ r # t.row => db'.config[r] = db.config[r]
  <2> SUFFICES ASSUME CliInv, [Next]_vars, NEW s \in Session, NEW t \in txn[s],
                      t \notin txn'[s], copy[s].config[t.row].rest = db.config[t.row].rest,
                      NEW r \in Row
               PROVE  /\ db'.config[r].rest = db.config[r].rest
                      /\ r # t.row => db'.config[r] = db.config[r]
    OBVIOUS
  <2>1. CASE db' = Applied(t)
    <3>1. t.row \in Row /\ t.config.rest = db.config[t.row].rest
      BY CommandResult
    <3>2. CASE r = t.row
      <4>1. db'.config[r] = t.config \/ db'.config[r] = db.config[r]
        BY <2>1, <3>1, <3>2, AppliedRows DEF CliInv
      <4> QED
        BY <3>1, <3>2, <4>1
    <3>3. CASE r # t.row
      <4>1. db'.config[r] = db.config[r]
        BY <2>1, <3>1, <3>3, AppliedRows DEF CliInv
      <4> QED
        BY <4>1, <3>3
    <3> QED
      BY <3>2, <3>3
  <2>2. CASE db' = db
    BY <2>2
  <2> QED
    BY <2>1, <2>2, CommandResult
<1> QED
  BY <1>1, CliStep, PTL DEF Spec, OthersKept

\* What is printed for the running configuration is the override in force, where
\* it is one that is printed (vtysh_ovsdb_fan_context.c:42-85).
LEMMA RunningInForce ==
  ASSUME NEW d
  PROVE  RunningConfig(d) = InForce(d) \ {NULL, "normal"}
BY DEF RunningConfig, Line, InForce

\* A session sees its own setting until somebody else changes it (fan_vty.c:133-172).
THEOREM ShowIsTrue == Spec => ShowsWhatWasSet
<1>1. CliInv =>
        \A s \in Session : mine[s] # {} =>
          /\ ShowSystemFan(s) => shown'[s] = mine[s]
          /\ ShowRunningConfig(s) => shown'[s] = mine[s] \ {NULL, "normal"}
  <2> SUFFICES ASSUME CliInv, NEW s \in Session, mine[s] # {}
               PROVE  /\ ShowSystemFan(s) => shown'[s] = mine[s]
                      /\ ShowRunningConfig(s) => shown'[s] = mine[s] \ {NULL, "normal"}
    OBVIOUS
  <2>1. mine[s] = InForce(copy[s]) /\ s \in DOMAIN shown
    BY DEF CliInv, TypeOK, MineIsInForce
  <2>2. ASSUME ShowSystemFan(s)
        PROVE  shown'[s] = mine[s]
    BY <2>1, <2>2 DEF ShowSystemFan, OverrideShown, InForce
  <2>3. ASSUME ShowRunningConfig(s)
        PROVE  shown'[s] = mine[s] \ {NULL, "normal"}
    BY <2>1, <2>3, RunningInForce DEF ShowRunningConfig
  <2> QED
    BY <2>2, <2>3
<1> QED
  BY <1>1, CliStep, PTL DEF Spec, ShowsWhatWasSet
=============================================================================
