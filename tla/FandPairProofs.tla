--------------------------- MODULE FandPairProofs ---------------------------
(***************************************************************************)
(* What the daemon that holds the lock vouches for, proved from what is    *)
(* proved of one daemon (FandSafetyProofs) for each of the two.            *)
(***************************************************************************)
EXTENDS FandPair, TLAPS

\* The lemmas about one daemon, for each of the two.
P1 == INSTANCE FandSafetyProofs WITH
  idl <- idl1, alert <- alert1, has_lock <- has_lock1, pc <- pc1, todo <- todo1,
  cur <- cur1, known <- known1, valid <- valid1, marked <- marked1, loc <- loc1,
  fan_data <- fan_data1, fan <- fan1, cur_hw_set <- cur_hw_set1, pend <- pend1,
  pend_hw <- pend_hw1, refused <- refused1

P2 == INSTANCE FandSafetyProofs WITH
  idl <- idl2, alert <- alert2, has_lock <- has_lock2, pc <- pc2, todo <- todo2,
  cur <- cur2, known <- known2, valid <- valid2, marked <- marked2, loc <- loc2,
  fan_data <- fan_data2, fan <- fan2, cur_hw_set <- cur_hw_set2, pend <- pend2,
  pend_hw <- pend_hw2, refused <- refused2

-----------------------------------------------------------------------------
(* One and P1, Two and P2 instantiate the same definitions with the same   *)
(* variables: what they call by one name is one thing.                     *)

\* Both daemons meet the assumptions of Fand.
LEMMA Assumed == P1!ConstantAssumption /\ P2!ConstantAssumption
BY PairAssumption
   DEF One!NULL, P1!NULL, P2!NULL, One!FAND_SPEED_SLOW, P1!FAND_SPEED_SLOW,
       P2!FAND_SPEED_SLOW, One!FAND_SPEED_MAX, P1!FAND_SPEED_MAX, P2!FAND_SPEED_MAX,
       One!Speed, P1!Speed, P2!Speed, One!FAND_STATUS_UNINITIALIZED,
       P1!FAND_STATUS_UNINITIALIZED, P2!FAND_STATUS_UNINITIALIZED,
       One!FAND_STATUS_FAULT, P1!FAND_STATUS_FAULT, P2!FAND_STATUS_FAULT, One!Status,
       P1!Status, P2!Status, One!DirectionString, P1!DirectionString,
       P2!DirectionString, One!EditKinds, P1!EditKinds, P2!EditKinds, One!FaultKinds,
       P1!FaultKinds, P2!FaultKinds, One!Reading, P1!Reading, P2!Reading,
       One!ConstantAssumption, P1!ConstantAssumption, P2!ConstantAssumption

\* The steps of the first daemon, and of the other writers.
LEMMA Same1 ==
  /\ One!Daemon <=> P1!Daemon
  /\ One!WakeWithLock <=> P1!WakeWithLock
  /\ One!Restart <=> P1!Restart
  /\ One!Terminate <=> P1!Terminate
  /\ One!LoseSession <=> P1!LoseSession
  /\ One!StatusNotCommitted <=> P1!StatusNotCommitted
  /\ One!StatusRefused <=> P1!StatusRefused
  /\ One!WakeUnheard <=> P1!WakeUnheard
  /\ One!Writers <=> P1!Writers
  /\ \A r \in Row : One!AddNotCommitted(r) <=> P1!AddNotCommitted(r)
  /\ \A r \in Row : One!AddRefused(r) <=> P1!AddRefused(r)
  /\ One!Touched = P1!Touched
BY DEF One!NULL, P1!NULL, One!FAND_SPEED_NONE, P1!FAND_SPEED_NONE,
       One!FAND_SPEED_SLOW, P1!FAND_SPEED_SLOW, One!FAND_SPEED_NORMAL,
       P1!FAND_SPEED_NORMAL, One!FAND_SPEED_MAX, P1!FAND_SPEED_MAX, One!Speed,
       P1!Speed, One!fanspeed_string, P1!fanspeed_string, One!SpeedString,
       P1!SpeedString, One!fan_speed_string_to_enum, P1!fan_speed_string_to_enum,
       One!fan_speed_enum_to_string, P1!fan_speed_enum_to_string,
       One!FAND_STATUS_UNINITIALIZED, P1!FAND_STATUS_UNINITIALIZED,
       One!FAND_STATUS_OK, P1!FAND_STATUS_OK, One!FAND_STATUS_FAULT,
       P1!FAND_STATUS_FAULT, One!Status, P1!Status, One!fanstatus_string,
       P1!fanstatus_string, One!fan_status_enum_to_string,
       P1!fan_status_enum_to_string, One!server, P1!server, One!replica, P1!replica,
       One!loop, P1!loop, One!tables, P1!tables, One!txn, P1!txn, One!panel, P1!panel,
       One!bounds, P1!bounds, One!BlankSub, P1!BlankSub, One!UninitializedFan,
       P1!UninitializedFan, One!BlankFan, P1!BlankFan, One!FanRows, P1!FanRows,
       One!Collect, P1!Collect, One!HighestBySensor, P1!HighestBySensor,
       One!EffectiveSpeed, P1!EffectiveSpeed, One!SpeedFields, P1!SpeedFields,
       One!ClearedFields, P1!ClearedFields, One!I2cLoses, P1!I2cLoses, One!WriteSpeed,
       P1!WriteSpeed, One!LedValue, P1!LedValue, One!WorstStatus, P1!WorstStatus,
       One!WriteLed, P1!WriteLed, One!BlankLocal, P1!BlankLocal, One!NoRows,
       P1!NoRows, One!Ends, P1!Ends, One!Alerts, P1!Alerts, One!Replicate,
       P1!Replicate, One!StillToVisit, P1!StillToVisit, One!UnmarkedAtStart,
       P1!UnmarkedAtStart, One!Run, P1!Run, One!Wake, P1!Wake, One!NewsAtLock,
       P1!NewsAtLock, One!WakeWithLock, P1!WakeWithLock, One!SkipInvalid,
       P1!SkipInvalid, One!AddInvalid, P1!AddInvalid, One!AddSubsystem,
       P1!AddSubsystem, One!WithFanRows, P1!WithFanRows, One!InitialSpeed,
       P1!InitialSpeed, One!AddCommitted, P1!AddCommitted, One!AddNotCommitted,
       P1!AddNotCommitted, One!AddNotLocked, P1!AddNotLocked, One!Contents,
       P1!Contents, One!VisitedUpTo, P1!VisitedUpTo, One!Configure, P1!Configure,
       One!FaultOnFreedRow, P1!FaultOnFreedRow, One!Unmarked, P1!Unmarked, One!FansOf,
       P1!FansOf, One!RemoveUnmarked, P1!RemoveUnmarked, One!ReadFan, P1!ReadFan,
       One!FansRead, P1!FansRead, One!AsRow, P1!AsRow, One!Change, P1!Change,
       One!ToWrite, P1!ToWrite, One!ReadStatus, P1!ReadStatus, One!FaultOnUnknownFan,
       P1!FaultOnUnknownFan, One!WithStatus, P1!WithStatus, One!CurHwWritten,
       P1!CurHwWritten, One!TxnDone, P1!TxnDone, One!StatusCommitted,
       P1!StatusCommitted, One!StatusNotCommitted, P1!StatusNotCommitted,
       One!StatusNotLocked, P1!StatusNotLocked, One!Ended, P1!Ended, One!Terminate,
       P1!Terminate, One!Restart, P1!Restart, One!LoseSession, P1!LoseSession,
       One!Edit, P1!Edit, One!Unaffected, P1!Unaffected, One!SetSensors,
       P1!SetSensors, One!SetOverride, P1!SetOverride, One!SetDir, P1!SetDir,
       One!ClearDir, P1!ClearDir, One!InsertRow, P1!InsertRow, One!DeleteRow,
       P1!DeleteRow, One!SetForeignFans, P1!SetForeignFans, One!FanChanges,
       P1!FanChanges, One!Daemon, P1!Daemon, One!Touched, P1!Touched, One!Writers,
       P1!Writers,
       One!InsertedRows, P1!InsertedRows, One!RehashedRows, P1!RehashedRows,
       One!WakeUnheard, P1!WakeUnheard, One!AddRefused, P1!AddRefused,
       One!StatusRefused, P1!StatusRefused

\* The steps of the second daemon.
LEMMA Same2 ==
  /\ Two!Daemon <=> P2!Daemon
  /\ Two!WakeWithLock <=> P2!WakeWithLock
  /\ Two!Restart <=> P2!Restart
  /\ Two!Terminate <=> P2!Terminate
  /\ Two!LoseSession <=> P2!LoseSession
  /\ Two!StatusNotCommitted <=> P2!StatusNotCommitted
  /\ Two!StatusRefused <=> P2!StatusRefused
  /\ Two!WakeUnheard <=> P2!WakeUnheard
  /\ \A r \in Row : Two!AddNotCommitted(r) <=> P2!AddNotCommitted(r)
  /\ \A r \in Row : Two!AddRefused(r) <=> P2!AddRefused(r)
  /\ Two!Touched = P2!Touched
BY DEF Two!NULL, P2!NULL, Two!FAND_SPEED_NONE, P2!FAND_SPEED_NONE,
       Two!FAND_SPEED_SLOW, P2!FAND_SPEED_SLOW, Two!FAND_SPEED_NORMAL,
       P2!FAND_SPEED_NORMAL, Two!FAND_SPEED_MAX, P2!FAND_SPEED_MAX, Two!Speed,
       P2!Speed, Two!fanspeed_string, P2!fanspeed_string, Two!SpeedString,
       P2!SpeedString, Two!fan_speed_string_to_enum, P2!fan_speed_string_to_enum,
       Two!fan_speed_enum_to_string, P2!fan_speed_enum_to_string,
       Two!FAND_STATUS_UNINITIALIZED, P2!FAND_STATUS_UNINITIALIZED,
       Two!FAND_STATUS_OK, P2!FAND_STATUS_OK, Two!FAND_STATUS_FAULT,
       P2!FAND_STATUS_FAULT, Two!Status, P2!Status, Two!fanstatus_string,
       P2!fanstatus_string, Two!fan_status_enum_to_string,
       P2!fan_status_enum_to_string, Two!server, P2!server, Two!replica, P2!replica,
       Two!loop, P2!loop, Two!tables, P2!tables, Two!txn, P2!txn, Two!panel, P2!panel,
       Two!bounds, P2!bounds, Two!BlankSub, P2!BlankSub, Two!UninitializedFan,
       P2!UninitializedFan, Two!BlankFan, P2!BlankFan, Two!FanRows, P2!FanRows,
       Two!Collect, P2!Collect, Two!HighestBySensor, P2!HighestBySensor,
       Two!EffectiveSpeed, P2!EffectiveSpeed, Two!SpeedFields, P2!SpeedFields,
       Two!ClearedFields, P2!ClearedFields, Two!I2cLoses, P2!I2cLoses, Two!WriteSpeed,
       P2!WriteSpeed, Two!LedValue, P2!LedValue, Two!WorstStatus, P2!WorstStatus,
       Two!WriteLed, P2!WriteLed, Two!BlankLocal, P2!BlankLocal, Two!NoRows,
       P2!NoRows, Two!Ends, P2!Ends, Two!Alerts, P2!Alerts, Two!Replicate,
       P2!Replicate, Two!StillToVisit, P2!StillToVisit, Two!UnmarkedAtStart,
       P2!UnmarkedAtStart, Two!Run, P2!Run, Two!Wake, P2!Wake, Two!NewsAtLock,
       P2!NewsAtLock, Two!WakeWithLock, P2!WakeWithLock, Two!SkipInvalid,
       P2!SkipInvalid, Two!AddInvalid, P2!AddInvalid, Two!AddSubsystem,
       P2!AddSubsystem, Two!WithFanRows, P2!WithFanRows, Two!InitialSpeed,
       P2!InitialSpeed, Two!AddCommitted, P2!AddCommitted, Two!AddNotCommitted,
       P2!AddNotCommitted, Two!AddNotLocked, P2!AddNotLocked, Two!Contents,
       P2!Contents, Two!VisitedUpTo, P2!VisitedUpTo, Two!Configure, P2!Configure,
       Two!FaultOnFreedRow, P2!FaultOnFreedRow, Two!Unmarked, P2!Unmarked, Two!FansOf,
       P2!FansOf, Two!RemoveUnmarked, P2!RemoveUnmarked, Two!ReadFan, P2!ReadFan,
       Two!FansRead, P2!FansRead, Two!AsRow, P2!AsRow, Two!Change, P2!Change,
       Two!ToWrite, P2!ToWrite, Two!ReadStatus, P2!ReadStatus, Two!FaultOnUnknownFan,
       P2!FaultOnUnknownFan, Two!WithStatus, P2!WithStatus, Two!CurHwWritten,
       P2!CurHwWritten, Two!TxnDone, P2!TxnDone, Two!StatusCommitted,
       P2!StatusCommitted, Two!StatusNotCommitted, P2!StatusNotCommitted,
       Two!StatusNotLocked, P2!StatusNotLocked, Two!Ended, P2!Ended, Two!Terminate,
       P2!Terminate, Two!Restart, P2!Restart, Two!LoseSession, P2!LoseSession,
       Two!Daemon, P2!Daemon, Two!Touched, P2!Touched,
       Two!InsertedRows, P2!InsertedRows, Two!RehashedRows, P2!RehashedRows,
       Two!WakeUnheard, P2!WakeUnheard, Two!AddRefused, P2!AddRefused,
       Two!StatusRefused, P2!StatusRefused

\* The pair starts with two daemons that have just been started (fand.c:353-368).
LEMMA SameInit ==
  ASSUME Init
  PROVE  P1!Init /\ P2!Init
<1>1. P1!Init
  BY DEF Init, One!NULL, P1!NULL, One!FAND_SPEED_NORMAL, P1!FAND_SPEED_NORMAL,
         One!FAND_STATUS_UNINITIALIZED, P1!FAND_STATUS_UNINITIALIZED, One!SubRow,
         P1!SubRow, One!BlankSub, P1!BlankSub, One!BlankFan, P1!BlankFan,
         One!ClearedFields, P1!ClearedFields, One!BlankLocal, P1!BlankLocal,
         One!NoRows, P1!NoRows, One!ProcessInit, P1!ProcessInit, One!Init, P1!Init
<1>2. P2!ProcessInit
  BY DEF Init, Two!NULL, P2!NULL, Two!FAND_STATUS_UNINITIALIZED,
         P2!FAND_STATUS_UNINITIALIZED, Two!BlankSub, P2!BlankSub, Two!BlankFan,
         P2!BlankFan, Two!ClearedFields, P2!ClearedFields, Two!BlankLocal,
         P2!BlankLocal, Two!NoRows, P2!NoRows, Two!ProcessInit, P2!ProcessInit
<1>3. P2!Init
  BY <1>2 DEF Init, One!NULL, P2!NULL, One!FAND_SPEED_NORMAL, P2!FAND_SPEED_NORMAL,
         One!FAND_STATUS_UNINITIALIZED, P2!FAND_STATUS_UNINITIALIZED, One!SubRow,
         P2!SubRow, One!BlankSub, P2!BlankSub, One!BlankFan, P2!BlankFan, One!NoRows,
         P2!NoRows, One!Init, P2!Init
<1> QED
  BY <1>1, <1>3

\* The types of what the daemons share, and of what each keeps.
LEMMA SameTypes ==
  /\ P1!Tables = P2!Tables
  /\ P1!Ended = P2!Ended /\ P1!LocalSpeed = P2!LocalSpeed /\ P1!LocalFan = P2!LocalFan
BY DEF P1!FAND_SPEED_NONE, P2!FAND_SPEED_NONE, P1!FAND_SPEED_SLOW, P2!FAND_SPEED_SLOW,
       P1!FAND_SPEED_MAX, P2!FAND_SPEED_MAX, P1!Speed, P2!Speed, P1!SpeedEnum,
       P2!SpeedEnum, P1!fanspeed_string, P2!fanspeed_string, P1!SpeedString,
       P2!SpeedString, P1!FAND_STATUS_UNINITIALIZED, P2!FAND_STATUS_UNINITIALIZED,
       P1!FAND_STATUS_FAULT, P2!FAND_STATUS_FAULT, P1!Status, P2!Status,
       P1!fanstatus_string, P2!fanstatus_string, P1!StatusString, P2!StatusString,
       P1!DirectionString, P2!DirectionString, P1!SubRow, P2!SubRow, P1!FanRow,
       P2!FanRow, P1!Ended, P2!Ended, P1!LocalSpeed, P2!LocalSpeed, P1!LocalFan,
       P2!LocalFan, P1!Tables, P2!Tables

\* The Fan rows and what a structure says of its fan.
LEMMA SameRows ==
  /\ \A d : One!FanRows(d) = P1!FanRows(d) /\ Two!FanRows(d) = P2!FanRows(d)
  /\ \A l : One!AsRow(l) = P1!AsRow(l) /\ Two!AsRow(l) = P2!AsRow(l)
BY DEF One!FAND_SPEED_SLOW, P1!FAND_SPEED_SLOW, Two!FAND_SPEED_SLOW,
       P2!FAND_SPEED_SLOW, One!FAND_SPEED_NORMAL, P1!FAND_SPEED_NORMAL,
       Two!FAND_SPEED_NORMAL, P2!FAND_SPEED_NORMAL, One!FAND_SPEED_MAX,
       P1!FAND_SPEED_MAX, Two!FAND_SPEED_MAX, P2!FAND_SPEED_MAX, One!Speed, P1!Speed,
       Two!Speed, P2!Speed, One!fanspeed_string, P1!fanspeed_string,
       Two!fanspeed_string, P2!fanspeed_string, One!fan_speed_enum_to_string,
       P1!fan_speed_enum_to_string, Two!fan_speed_enum_to_string,
       P2!fan_speed_enum_to_string, One!FAND_STATUS_UNINITIALIZED,
       P1!FAND_STATUS_UNINITIALIZED, Two!FAND_STATUS_UNINITIALIZED,
       P2!FAND_STATUS_UNINITIALIZED, One!FAND_STATUS_FAULT, P1!FAND_STATUS_FAULT,
       Two!FAND_STATUS_FAULT, P2!FAND_STATUS_FAULT, One!Status, P1!Status, Two!Status,
       P2!Status, One!fanstatus_string, P1!fanstatus_string, Two!fanstatus_string,
       P2!fanstatus_string, One!fan_status_enum_to_string,
       P1!fan_status_enum_to_string, Two!fan_status_enum_to_string,
       P2!fan_status_enum_to_string, One!FanRows, P1!FanRows, Two!FanRows, P2!FanRows,
       One!AsRow, P1!AsRow, Two!AsRow, P2!AsRow

\* The speed a row calls for.
LEMMA SameWanted ==
  /\ \A sub : One!Wanted(sub) = P1!Wanted(sub)
  /\ \A sub : Two!Wanted(sub) = P2!Wanted(sub)
BY DEF One!FAND_SPEED_NONE, P1!FAND_SPEED_NONE, Two!FAND_SPEED_NONE,
       P2!FAND_SPEED_NONE, One!FAND_SPEED_SLOW, P1!FAND_SPEED_SLOW,
       Two!FAND_SPEED_SLOW, P2!FAND_SPEED_SLOW, One!FAND_SPEED_NORMAL,
       P1!FAND_SPEED_NORMAL, Two!FAND_SPEED_NORMAL, P2!FAND_SPEED_NORMAL,
       One!FAND_SPEED_MAX, P1!FAND_SPEED_MAX, Two!FAND_SPEED_MAX, P2!FAND_SPEED_MAX,
       One!Speed, P1!Speed, Two!Speed, P2!Speed, One!fanspeed_string,
       P1!fanspeed_string, Two!fanspeed_string, P2!fanspeed_string, One!SpeedString,
       P1!SpeedString, Two!SpeedString, P2!SpeedString, One!fan_speed_string_to_enum,
       P1!fan_speed_string_to_enum, Two!fan_speed_string_to_enum,
       P2!fan_speed_string_to_enum, One!fan_speed_enum_to_string,
       P1!fan_speed_enum_to_string, Two!fan_speed_enum_to_string,
       P2!fan_speed_enum_to_string, One!Wanted, P1!Wanted, Two!Wanted, P2!Wanted

-----------------------------------------------------------------------------
(* What a step of one daemon is to the lock, to the database and to the other. *)

Owners == {{}, {1}, {2}}

\* A step of the first daemon gets the free lock, or keeps or gives up the one it has;
\* while the other has it, the database stays as it is (fand.c:577).
LEMMA FirstActs ==
  ASSUME First, owner \in Owners
  PROVE  /\ \/ P1!WakeWithLock /\ owner = {} /\ owner' = {1}
            \/ /\ P1!Daemon \/ P1!WakeUnheard \/ P1!Restart \/ P1!Failure
               /\ owner' \subseteq owner
         /\ stray' = IF owner' = {1} THEN stray \ P1!Touched ELSE stray \cup P1!Touched
         /\ UNCHANGED second
         /\ owner = {2} => UNCHANGED db
<1>1. UNCHANGED second /\ stray' = IF owner' = {1} THEN stray \ P1!Touched
                                                   ELSE stray \cup P1!Touched
  BY Same1 DEF First, Strays
<1>2. CASE /\ One!Daemon \/ Refused1 \/ One!Terminate \/ One!Restart
           /\ Cut(1, has_lock1) => pc1 \notin Waiting \/ One!Terminate
           /\ owner' = Released(has_lock1', has_lock2)
  <2>1. \/ P1!Daemon \/ P1!Terminate \/ P1!Restart
        \/ P1!StatusRefused \/ \E r \in Row : P1!AddRefused(r)
    BY <1>2, Same1 DEF Refused1
  <2>2. owner = {2} => UNCHANGED db
    <3>1. ASSUME P1!Terminate PROVE UNCHANGED db
      BY <3>1 DEF P1!Terminate, P1!server
    <3>2. ASSUME owner = {2}, ~P1!Terminate PROVE has_lock1 => pc1 \notin {"adding", "publish"}
      BY <1>2, <3>2, Same1 DEF Cut, Waiting
    <3> QED
      BY <2>1, <3>1, <3>2, P1!OnlyCommitsWrite, Assumed
  <2> QED
    BY <1>1, <1>2, <2>1, <2>2 DEF Released, P1!Failure
<1>3. CASE /\ Loses1
           /\ Cut(1, has_lock1) => db' = db /\ cur_hw' = cur_hw /\ idl1' = idl1
           /\ owner' = Released(FALSE, has_lock2)
  <2>1. P1!Failure
    BY <1>3, Same1 DEF Loses1, P1!Failure
  <2>2. has_lock1
    BY <1>3, Same1 DEF Loses1, P1!AddNotCommitted, P1!StatusNotCommitted, P1!LoseSession
  <2> QED
    BY <1>1, <1>3, <2>1, <2>2 DEF Released, Cut
<1>4. CASE One!WakeWithLock /\ owner = {} /\ owner' = {1}
  BY <1>1, <1>4, Same1
<1>5. CASE One!WakeUnheard /\ UNCHANGED owner
  <2>1. P1!WakeUnheard /\ UNCHANGED db
    BY <1>5, Same1 DEF P1!WakeUnheard, P1!Run, P1!server
  <2> QED
    BY <1>1, <1>5, <2>1
<1> QED
  BY <1>2, <1>3, <1>4, <1>5 DEF First

\* The same of the second daemon.
LEMMA SecondActs ==
  ASSUME Second, owner \in Owners
  PROVE  /\ \/ P2!WakeWithLock /\ owner = {} /\ owner' = {2}
            \/ /\ P2!Daemon \/ P2!WakeUnheard \/ P2!Restart \/ P2!Failure
               /\ owner' \subseteq owner
         /\ stray' = IF owner' = {2} THEN stray \ P2!Touched ELSE stray \cup P2!Touched
         /\ UNCHANGED first
         /\ owner = {1} => UNCHANGED db
<1>1. UNCHANGED first /\ stray' = IF owner' = {2} THEN stray \ P2!Touched
                                                  ELSE stray \cup P2!Touched
  BY Same2 DEF Second, Strays
<1>2. CASE /\ Two!Daemon \/ Refused2 \/ Two!Terminate \/ Two!Restart
           /\ Cut(2, has_lock2) => pc2 \notin Waiting \/ Two!Terminate
           /\ owner' = Released(has_lock1, has_lock2')
  <2>1. \/ P2!Daemon \/ P2!Terminate \/ P2!Restart
        \/ P2!StatusRefused \/ \E r \in Row : P2!AddRefused(r)
    BY <1>2, Same2 DEF Refused2
  <2>2. owner = {1} => UNCHANGED db
    <3>1. ASSUME P2!Terminate PROVE UNCHANGED db
      BY <3>1 DEF P2!Terminate, P2!server
    <3>2. ASSUME owner = {1}, ~P2!Terminate PROVE has_lock2 => pc2 \notin {"adding", "publish"}
      BY <1>2, <3>2, Same2 DEF Cut, Waiting
    <3> QED
      BY <2>1, <3>1, <3>2, P2!OnlyCommitsWrite, Assumed
  <2> QED
    BY <1>1, <1>2, <2>1, <2>2 DEF Released, P2!Failure
<1>3. CASE /\ Loses2
           /\ Cut(2, has_lock2) => db' = db /\ cur_hw' = cur_hw /\ idl2' = idl2
           /\ owner' = Released(has_lock1, FALSE)
  <2>1. P2!Failure
    BY <1>3, Same2 DEF Loses2, P2!Failure
  <2>2. has_lock2
    BY <1>3, Same2 DEF Loses2, P2!AddNotCommitted, P2!StatusNotCommitted, P2!LoseSession
  <2> QED
    BY <1>1, <1>3, <2>1, <2>2 DEF Released, Cut
<1>4. CASE Two!WakeWithLock /\ owner = {} /\ owner' = {2}
  BY <1>1, <1>4, Same2
<1>5. CASE Two!WakeUnheard /\ UNCHANGED owner
  <2>1. P2!WakeUnheard /\ UNCHANGED db
    BY <1>5, Same2 DEF P2!WakeUnheard, P2!Run, P2!server
  <2> QED
    BY <1>1, <1>5, <2>1
<1> QED
  BY <1>2, <1>3, <1>4, <1>5 DEF Second

-----------------------------------------------------------------------------
(* The invariants. *)

\* What each daemon knows by itself is true of it beside the other too.
PairInv == P1!IInv /\ P2!IInv /\ owner \in Owners

\* The daemon that has the lock answers for every register it has set in this pass,
\* or in the last one, but those the other has written to without the lock.
Registers1 == owner = {1} /\ has_lock1 => \A n \in Name \ stray : P1!RegisterHeld(n)
Registers2 == owner = {2} /\ has_lock2 => \A n \in Name \ stray : P2!RegisterHeld(n)

\* Its copy shows every Fan row, and the rows what its structures hold.
Rows1 == owner = {1} /\ has_lock1 => P1!RowsSeen
Rows2 == owner = {2} /\ has_lock2 => P2!RowsSeen

-----------------------------------------------------------------------------
(* Each daemon keeps what it knows. *)

\* What the other daemon and the other writers do reaches a daemon through the
\* database only.
LEMMA FirstUndisturbed ==
  ASSUME P1!IInv, P2!TypeOK', P2!NamesUnique(db'), UNCHANGED first
  PROVE  P1!IInv'
<1>1. P1!TypeOK'
  BY SameTypes DEF P1!IInv, P1!TypeOK, P2!TypeOK, first
<1>2. P1!PassInv' /\ UNCHANGED idl1
  BY P1!SameProcess, Assumed DEF first, P1!replica, P1!loop, P1!tables
<1> QED
  BY <1>1, <1>2 DEF P1!IInv, P1!PassInv, P1!NamesUnique, P2!NamesUnique

\* The same of the second daemon.
LEMMA SecondUndisturbed ==
  ASSUME P2!IInv, P1!TypeOK', P1!NamesUnique(db'), UNCHANGED second
  PROVE  P2!IInv'
<1>1. P2!TypeOK'
  BY SameTypes DEF P2!IInv, P1!TypeOK, P2!TypeOK, second
<1>2. P2!PassInv' /\ UNCHANGED idl2
  BY P2!SameProcess, Assumed DEF second, P2!replica, P2!loop, P2!tables
<1> QED
  BY <1>1, <1>2 DEF P2!IInv, P2!PassInv, P1!NamesUnique, P2!NamesUnique

\* Every step keeps the invariants of both daemons.
LEMMA PairStep ==
  ASSUME PairInv, [Next]_vars
  PROVE  PairInv'
<1>1. CASE First
  <2>1. P1!IInv' /\ UNCHANGED second /\ owner' \in Owners
    BY <1>1, FirstActs, P1!DaemonStep, Assumed DEF PairInv, Owners
  <2>2. P1!TypeOK' /\ P1!NamesUnique(db')
    BY <2>1 DEF P1!IInv, P1!NamesUnique
  <2> QED
    BY <2>1, <2>2, SecondUndisturbed DEF PairInv
<1>2. CASE Second
  <2>1. P2!IInv' /\ UNCHANGED first /\ owner' \in Owners
    BY <1>2, SecondActs, P2!DaemonStep, Assumed DEF PairInv, Owners
  <2>2. P2!TypeOK' /\ P2!NamesUnique(db')
    BY <2>1 DEF P2!IInv, P2!NamesUnique
  <2> QED
    BY <2>1, <2>2, FirstUndisturbed DEF PairInv
<1>3. CASE Writers
  <2>1. P1!Writers /\ UNCHANGED second /\ owner' = owner
    BY <1>3, Same1 DEF Writers
  <2>2. P1!IInv'
    BY <2>1, P1!InductiveStep, Assumed DEF PairInv, P1!Next
  <2>3. P1!TypeOK' /\ P1!NamesUnique(db')
    BY <2>2 DEF P1!IInv, P1!NamesUnique
  <2> QED
    BY <2>1, <2>2, <2>3, SecondUndisturbed DEF PairInv
<1>4. CASE CutSession \/ UNCHANGED vars
  <2>1. UNCHANGED P1!vars /\ UNCHANGED P2!vars /\ owner' \in Owners
    BY <1>4 DEF CutSession, vars, shared, first, second, PairInv, Owners, P1!vars, P2!vars,
       P1!server, P1!replica, P1!loop, P1!tables, P1!txn, P1!panel, P1!bounds,
       P2!server, P2!replica, P2!loop, P2!tables, P2!txn, P2!panel, P2!bounds
  <2> QED
    BY <2>1, P1!InductiveStep, P2!InductiveStep, Assumed DEF PairInv
<1> QED
  BY <1>1, <1>2, <1>3, <1>4 DEF Next

\* Both daemons start in their invariant, over tables without Fan rows.
LEMMA PairStart ==
  ASSUME Init
  PROVE  PairInv
BY SameInit, P1!InitialInvariant, P2!InitialInvariant, Assumed DEF Init, PairInv, Owners

\* What holds of one daemon in any environment (IInv) holds of each of two that share
\* the server and the fans: neither breaks the pass of the other (fand.c:501-583),
\* whatever the lock does.
THEOREM PairInvariant == Spec => []PairInv
BY PairStart, PairStep, PTL DEF Spec

-----------------------------------------------------------------------------
(* The registers. *)

\* A step of the daemon that has the lock keeps what it answers for, and adds what it
\* touches; getting the lock it starts from nothing.
LEMMA FirstKeepsRegisters ==
  ASSUME PairInv, First, "i2c" \notin Faults, Registers1
  PROVE  Registers1'
<1> SUFFICES ASSUME owner' = {1}, has_lock1', NEW n \in Name, n \notin stray'
             PROVE  P1!RegisterHeld(n)'
  BY DEF Registers1
<1>1. CASE P1!WakeWithLock
  <2>1. marked1' = {}
    BY <1>1 DEF P1!WakeWithLock, P1!NewsAtLock, P1!Run, P1!UnmarkedAtStart
  <2> QED
    BY <2>1 DEF P1!RegisterHeld
<1>2. CASE /\ P1!Daemon \/ P1!WakeUnheard \/ P1!Restart \/ P1!Failure
           /\ owner' \subseteq owner
  <2>1. owner = {1} /\ has_lock1
    BY <1>2, P1!LockIsKeptOrLost, Assumed DEF PairInv, Owners
  <2>2. CASE n \in P1!Touched
    BY <1>2, <2>2, P1!TouchedIsHeld, Assumed DEF PairInv
  <2>3. CASE n \notin P1!Touched
    <3>1. n \notin stray
      BY <2>3, FirstActs DEF PairInv
    <3> QED
      BY <1>2, <2>1, <2>3, <3>1, P1!Untouched, Assumed DEF PairInv, Registers1
  <2> QED
    BY <2>2, <2>3
<1> QED
  BY <1>1, <1>2, FirstActs DEF PairInv

\* The same of the second daemon.
LEMMA SecondKeepsRegisters ==
  ASSUME PairInv, Second, "i2c" \notin Faults, Registers2
  PROVE  Registers2'
<1> SUFFICES ASSUME owner' = {2}, has_lock2', NEW n \in Name, n \notin stray'
             PROVE  P2!RegisterHeld(n)'
  BY DEF Registers2
<1>1. CASE P2!WakeWithLock
  <2>1. marked2' = {}
    BY <1>1 DEF P2!WakeWithLock, P2!NewsAtLock, P2!Run, P2!UnmarkedAtStart
  <2> QED
    BY <2>1 DEF P2!RegisterHeld
<1>2. CASE /\ P2!Daemon \/ P2!WakeUnheard \/ P2!Restart \/ P2!Failure
           /\ owner' \subseteq owner
  <2>1. owner = {2} /\ has_lock2
    BY <1>2, P2!LockIsKeptOrLost, Assumed DEF PairInv, Owners
  <2>2. CASE n \in P2!Touched
    BY <1>2, <2>2, P2!TouchedIsHeld, Assumed DEF PairInv
  <2>3. CASE n \notin P2!Touched
    <3>1. n \notin stray
      BY <2>3, SecondActs DEF PairInv
    <3> QED
      BY <1>2, <2>1, <2>3, <3>1, P2!Untouched, Assumed DEF PairInv, Registers2
  <2> QED
    BY <2>2, <2>3
<1> QED
  BY <1>1, <1>2, SecondActs DEF PairInv

\* A step of the other daemon puts among stray what it touches.
LEMMA SecondLeavesRegisters ==
  ASSUME PairInv, Second, Registers1
  PROVE  Registers1'
<1> SUFFICES ASSUME owner' = {1}, has_lock1', NEW n \in Name, n \notin stray'
             PROVE  P1!RegisterHeld(n)'
  BY DEF Registers1
<1>1. /\ P2!Daemon \/ P2!WakeWithLock \/ P2!WakeUnheard \/ P2!Restart \/ P2!Failure
      /\ owner = {1} /\ n \notin stray /\ n \notin P2!Touched
      /\ UNCHANGED first
  BY SecondActs DEF PairInv, Owners
<1>2. reg'[n] = reg[n] /\ P1!RegisterHeld(n)
  BY <1>1, P2!Untouched, Assumed DEF PairInv, Registers1, first
<1> QED
  BY <1>1, <1>2 DEF P1!RegisterHeld, first

\* The same, with the daemons exchanged.
LEMMA FirstLeavesRegisters ==
  ASSUME PairInv, First, Registers2
  PROVE  Registers2'
<1> SUFFICES ASSUME owner' = {2}, has_lock2', NEW n \in Name, n \notin stray'
             PROVE  P2!RegisterHeld(n)'
  BY DEF Registers2
<1>1. /\ P1!Daemon \/ P1!WakeWithLock \/ P1!WakeUnheard \/ P1!Restart \/ P1!Failure
      /\ owner = {2} /\ n \notin stray /\ n \notin P1!Touched
      /\ UNCHANGED second
  BY FirstActs DEF PairInv, Owners
<1>2. reg'[n] = reg[n] /\ P2!RegisterHeld(n)
  BY <1>1, P1!Untouched, Assumed DEF PairInv, Registers2, second
<1> QED
  BY <1>1, <1>2 DEF P2!RegisterHeld, second

\* With the lock, no news and a pass behind it, the daemon has set the register of
\* every subsystem it manages; nobody has touched it since, unless without the lock,
\* or to say the same (fand.c:561-583, 501-559).
THEOREM HolderIsSettled ==
  ASSUME "i2c" \notin Faults
  PROVE  Spec => []HolderSettled
<1>1. Init => Registers1 /\ Registers2
  BY DEF Init, Registers1, Registers2
<1>2. PairInv /\ Registers1 /\ Registers2 /\ [Next]_vars => (Registers1 /\ Registers2)'
  <2> SUFFICES ASSUME PairInv, Registers1, Registers2, [Next]_vars
               PROVE  (Registers1 /\ Registers2)'
    OBVIOUS
  <2>1. CASE First
    BY <2>1, FirstKeepsRegisters, FirstLeavesRegisters
  <2>2. CASE Second
    BY <2>2, SecondKeepsRegisters, SecondLeavesRegisters
  <2>3. CASE Writers \/ CutSession \/ UNCHANGED vars
    <3>1. CASE owner' = {}
      BY <3>1 DEF Registers1, Registers2
    <3>2. CASE owner' # {}
      <4>1. UNCHANGED <<owner, stray, has_lock1, has_lock2, marked1, marked2, loc1, loc2, reg>>
        <5>1. CASE Writers
          BY <5>1, Same1, P1!WritersKeepProcess, Assumed DEF Writers, second, PairInv,
             P1!IInv, P1!replica, P1!tables, P1!panel
        <5>2. CASE UNCHANGED vars
          BY <5>2 DEF vars, shared, first, second
        <5> QED
          BY <2>3, <3>2, <5>1, <5>2 DEF CutSession
      <4> QED
        BY <4>1 DEF Registers1, Registers2, P1!RegisterHeld, P2!RegisterHeld
    <3> QED
      BY <3>1, <3>2
  <2> QED
    BY <2>1, <2>2, <2>3 DEF Next
<1>3. PairInv /\ Registers1 /\ Registers2 => HolderSettled
  <2> SUFFICES ASSUME PairInv, Registers1, Registers2
               PROVE  HolderSettled
    OBVIOUS
  <2>1. ASSUME InCharge(1, has_lock1, pc1, alert1),
               NEW r \in idl1.live, nameOf[r] \in valid1 \ stray
        PROVE  reg[nameOf[r]] = Setting[One!Wanted(idl1.sub[r])]
    <3>1. loc1[nameOf[r]].speed = P1!Wanted(idl1.sub[r])
      BY <2>1 DEF InCharge, PairInv, P1!IInv, P1!LoopShape, P1!VisitedSettled, P1!SettledRow,
         P1!InLoop, P1!Visited
    <3>2. nameOf[r] \in marked1 /\ nameOf[r] \in Name
      BY <2>1 DEF InCharge, PairInv, P1!IInv, P1!FlagShape, P1!InLoop, P1!TypeOK
    <3> QED
      BY <2>1, <3>1, <3>2, SameWanted DEF InCharge, Registers1, P1!RegisterHeld
  <2>2. ASSUME InCharge(2, has_lock2, pc2, alert2),
               NEW r \in idl2.live, nameOf[r] \in valid2 \ stray
        PROVE  reg[nameOf[r]] = Setting[Two!Wanted(idl2.sub[r])]
    <3>1. loc2[nameOf[r]].speed = P2!Wanted(idl2.sub[r])
      BY <2>2 DEF InCharge, PairInv, P2!IInv, P2!LoopShape, P2!VisitedSettled, P2!SettledRow,
         P2!InLoop, P2!Visited
    <3>2. nameOf[r] \in marked2 /\ nameOf[r] \in Name
      BY <2>2 DEF InCharge, PairInv, P2!IInv, P2!FlagShape, P2!InLoop, P2!TypeOK
    <3> QED
      BY <2>2, <3>1, <3>2, SameWanted DEF InCharge, Registers2, P2!RegisterHeld
  <2> QED
    BY <2>1, <2>2 DEF HolderSettled
<1> QED
  BY <1>1, <1>2, <1>3, PairInvariant, PTL DEF Spec

-----------------------------------------------------------------------------
(* The Fan rows. *)

\* The daemon that has the lock is the only one to write them.
LEMMA FirstKeepsRows ==
  ASSUME PairInv, First, Rows1
  PROVE  Rows1'
<1> SUFFICES ASSUME owner' = {1}, has_lock1'
             PROVE  P1!RowsSeen'
  BY DEF Rows1
<1>1. CASE P1!WakeWithLock
  BY <1>1, P1!SeenWithLock, Assumed
<1>2. CASE /\ P1!Daemon \/ P1!WakeUnheard \/ P1!Restart \/ P1!Failure
           /\ owner' \subseteq owner
  <2>1. owner = {1} /\ has_lock1
    BY <1>2, P1!LockIsKeptOrLost, Assumed DEF PairInv, Owners
  <2> QED
    BY <1>2, <2>1, P1!SeenStep, Assumed DEF PairInv, P1!IInv, Rows1
<1> QED
  BY <1>1, <1>2, FirstActs DEF PairInv

\* The same of the second daemon.
LEMMA SecondKeepsRows ==
  ASSUME PairInv, Second, Rows2
  PROVE  Rows2'
<1> SUFFICES ASSUME owner' = {2}, has_lock2'
             PROVE  P2!RowsSeen'
  BY DEF Rows2
<1>1. CASE P2!WakeWithLock
  BY <1>1, P2!SeenWithLock, Assumed
<1>2. CASE /\ P2!Daemon \/ P2!WakeUnheard \/ P2!Restart \/ P2!Failure
           /\ owner' \subseteq owner
  <2>1. owner = {2} /\ has_lock2
    BY <1>2, P2!LockIsKeptOrLost, Assumed DEF PairInv, Owners
  <2> QED
    BY <1>2, <2>1, P2!SeenStep, Assumed DEF PairInv, P2!IInv, Rows2
<1> QED
  BY <1>1, <1>2, SecondActs DEF PairInv

\* The other one, which may still think that it has it, changes nothing of them.
LEMMA SecondLeavesRows ==
  ASSUME PairInv, Second, Rows1
  PROVE  Rows1'
<1> SUFFICES ASSUME owner' = {1}, has_lock1'
             PROVE  P1!RowsSeen'
  BY DEF Rows1
<1>1. owner = {1} /\ UNCHANGED <<db, first>>
  BY SecondActs DEF PairInv, Owners
<1> QED
  BY <1>1 DEF Rows1, first, P1!RowsSeen, P1!RowSeen, P1!AsRow

\* The same, with the daemons exchanged.
LEMMA FirstLeavesRows ==
  ASSUME PairInv, First, Rows2
  PROVE  Rows2'
<1> SUFFICES ASSUME owner' = {2}, has_lock2'
             PROVE  P2!RowsSeen'
  BY DEF Rows2
<1>1. owner = {2} /\ UNCHANGED <<db, second>>
  BY FirstActs DEF PairInv, Owners
<1> QED
  BY <1>1 DEF Rows2, second, P2!RowsSeen, P2!RowSeen, P2!AsRow

\* With the lock and a pass behind it the daemon has made every Fan row say what its
\* structures hold, whichever daemon wrote the row before, unless the server refused
\* its last transaction, and as long as nobody else writes Subsystem:fans
\* (fand.c:423-499, 561-583).
THEOREM HolderReports ==
  ASSUME "foreign" \notin Edits
  PROVE  Spec => []HolderReported
<1>1. Init => Rows1 /\ Rows2
  BY DEF Init, Rows1, Rows2
<1>2. PairInv /\ Rows1 /\ Rows2 /\ [Next]_vars => (Rows1 /\ Rows2)'
  <2> SUFFICES ASSUME PairInv, Rows1, Rows2, [Next]_vars
               PROVE  (Rows1 /\ Rows2)'
    OBVIOUS
  <2>1. CASE First
    BY <2>1, FirstKeepsRows, FirstLeavesRows
  <2>2. CASE Second
    BY <2>2, SecondKeepsRows, SecondLeavesRows
  <2>3. CASE Writers
    <3>1. P1!Writers /\ UNCHANGED <<second, owner>> /\ P1!TypeOK /\ P1!NamesUnique(db)
      BY <2>3, Same1 DEF Writers, PairInv, P1!IInv
    <3>2. UNCHANGED has_lock1
      BY <3>1, P1!WritersKeepProcess, Assumed DEF P1!replica
    <3>3. Rows1'
      BY <3>1, <3>2, P1!SeenWriters, Assumed DEF Rows1
    <3>4. ASSUME P2!RowsSeen PROVE P2!RowsSeen'
      <4>1. \A f \in P2!FanRows(db') : f \in P2!FanRows(db) /\ db'.fan[f] = db.fan[f]
        BY <3>1, P1!WritersOnlyTakeRows, Assumed DEF P1!FanRows, P2!FanRows
      <4> QED
        BY <3>1, <3>4, <4>1 DEF second, P2!RowsSeen, P2!RowSeen, P2!AsRow
    <3> QED
      BY <3>1, <3>3, <3>4 DEF Rows2, second
  <2>4. CASE CutSession
    BY <2>4 DEF CutSession, Rows1, Rows2
  <2>5. CASE UNCHANGED vars
    BY <2>5 DEF vars, shared, first, second, Rows1, Rows2, P1!RowsSeen, P1!RowSeen, P1!AsRow,
       P2!RowsSeen, P2!RowSeen, P2!AsRow
  <2> QED
    BY <2>1, <2>2, <2>3, <2>4, <2>5 DEF Next
<1>3. Rows1 /\ Rows2 => HolderReported
  BY SameRows DEF HolderReported, InCharge, Rows1, Rows2, P1!RowsSeen, P1!RowSeen,
     P2!RowsSeen, P2!RowSeen
<1> QED
  BY <1>1, <1>2, <1>3, PairInvariant, PTL DEF Spec

=============================================================================
