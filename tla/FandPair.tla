------------------------------ MODULE FandPair ------------------------------
(***************************************************************************)
(* Two fan daemons on one switch.  Each is Fand; they share the server and *)
(* the fan hardware.  The lock "ops_fand" keeps one of them out of its     *)
(* passes and out of the database, but not out of the hardware: a daemon   *)
(* that loses the lock inside a pass does the rest of that pass.           *)
(*                                                                         *)
(* The server may find out that a session is gone, and grant the lock to   *)
(* the other daemon, before the daemon whose session it was does.          *)
(***************************************************************************)
EXTENDS FanEnum, FiniteSets

CONSTANTS Row, Name, Fan, nameOf, yamlFans, Setting, SensorSets, Overrides, Readings,
          ForeignSets, InitLive, Edits, Faults, MaxEdits, MaxFaults   \* as in Fand

VARIABLES
  db, cur_hw, reg, led, sense, used, edits, faults,   \* shared: as in Fand
  idl1, alert1, has_lock1, pc1, todo1, cur1, known1, valid1, marked1, loc1, fan_data1,
  fan1, cur_hw_set1, pend1, pend_hw1, refused1,                 \* of the first daemon
  idl2, alert2, has_lock2, pc2, todo2, cur2, known2, valid2, marked2, loc2, fan_data2,
  fan2, cur_hw_set2, pend2, pend_hw2, refused2,                 \* of the second
  owner,   \* {the daemon the server has granted the lock} or {}
  stray    \* subsystems whose register was last written by a daemon without it

One == INSTANCE Fand WITH
  idl <- idl1, alert <- alert1, has_lock <- has_lock1, pc <- pc1, todo <- todo1,
  cur <- cur1, known <- known1, valid <- valid1, marked <- marked1, loc <- loc1,
  fan_data <- fan_data1, fan <- fan1, cur_hw_set <- cur_hw_set1, pend <- pend1,
  pend_hw <- pend_hw1, refused <- refused1

Two == INSTANCE Fand WITH
  idl <- idl2, alert <- alert2, has_lock <- has_lock2, pc <- pc2, todo <- todo2,
  cur <- cur2, known <- known2, valid <- valid2, marked <- marked2, loc <- loc2,
  fan_data <- fan_data2, fan <- fan2, cur_hw_set <- cur_hw_set2, pend <- pend2,
  pend_hw <- pend_hw2, refused <- refused2

ASSUME PairAssumption == One!ConstantAssumption

shared == <<db, cur_hw, reg, led, sense, used, edits, faults>>
first  == <<idl1, alert1, has_lock1, pc1, todo1, cur1, known1, valid1, marked1, loc1,
            fan_data1, fan1, cur_hw_set1, pend1, pend_hw1, refused1>>
second == <<idl2, alert2, has_lock2, pc2, todo2, cur2, known2, valid2, marked2, loc2,
            fan_data2, fan2, cur_hw_set2, pend2, pend_hw2, refused2>>
vars   == <<shared, first, second, owner, stray>>

Init == One!Init /\ Two!ProcessInit /\ pc2 = "poll" /\ owner = {} /\ stray = {}

-----------------------------------------------------------------------------
(* The lock. *)

\* Where a daemon talks to the server, and is told that its session is gone.
Waiting == {"poll", "adding", "publish"}

\* A session that ends frees its lock.
Released(lock1, lock2) ==
  {p \in owner : (p = 1 => lock1) /\ (p = 2 => lock2)}

\* The session of a daemon is cut; it has yet to notice.
Cut(p, lock) == lock /\ owner # {p}

CutSession ==
  /\ "session" \in Faults /\ faults < MaxFaults
  /\ owner # {} /\ owner' = {}
  /\ UNCHANGED <<shared, first, second, stray>>

\* What a step of daemon p does to stray.
Strays(p, names) == stray' = IF owner' = {p} THEN stray \ names ELSE stray \cup names

-----------------------------------------------------------------------------
(* The steps of the two daemons.                                           *)
(* A pass goes on without a word from the server until it has to wait for  *)
(* it, and the timer starts one without a word; what a daemon whose        *)
(* session is cut sends does not arrive, and nor does what is sent to it.  *)

Refused1 == (\E r \in Row : One!AddRefused(r)) \/ One!StatusRefused
Refused2 == (\E r \in Row : Two!AddRefused(r)) \/ Two!StatusRefused

Loses1 == (\E r \in Row : One!AddNotCommitted(r)) \/ One!StatusNotCommitted \/ One!LoseSession
Loses2 == (\E r \in Row : Two!AddNotCommitted(r)) \/ Two!StatusNotCommitted \/ Two!LoseSession

First ==
  /\ \/ /\ One!Daemon \/ Refused1 \/ One!Terminate \/ One!Restart
        /\ Cut(1, has_lock1) => pc1 \notin Waiting \/ One!Terminate
        /\ owner' = Released(has_lock1', has_lock2)
     \/ /\ One!WakeUnheard
        /\ Cut(1, has_lock1) /\ UNCHANGED owner
     \/ /\ Loses1
        /\ Cut(1, has_lock1) => db' = db /\ cur_hw' = cur_hw /\ idl1' = idl1
        /\ owner' = Released(FALSE, has_lock2)
     \/ /\ One!WakeWithLock
        /\ owner = {} /\ owner' = {1}
  /\ Strays(1, One!Touched)
  /\ UNCHANGED second

Second ==
  /\ \/ /\ Two!Daemon \/ Refused2 \/ Two!Terminate \/ Two!Restart
        /\ Cut(2, has_lock2) => pc2 \notin Waiting \/ Two!Terminate
        /\ owner' = Released(has_lock1, has_lock2')
     \/ /\ Two!WakeUnheard
        /\ Cut(2, has_lock2) /\ UNCHANGED owner
     \/ /\ Loses2
        /\ Cut(2, has_lock2) => db' = db /\ cur_hw' = cur_hw /\ idl2' = idl2
        /\ owner' = Released(has_lock1, FALSE)
     \/ /\ Two!WakeWithLock
        /\ owner = {} /\ owner' = {2}
  /\ Strays(2, Two!Touched)
  /\ UNCHANGED first

Writers == One!Writers /\ UNCHANGED <<second, owner, stray>>

Next == First \/ Second \/ CutSession \/ Writers

Spec == Init /\ [][Next]_vars

-----------------------------------------------------------------------------
(* Correctness. *)

\* The daemon that has the lock has done a pass, and its copy has brought no news.
\* (lock, at and news are its has_lock, pc and alert.)
InCharge(p, lock, at, news) == owner = {p} /\ lock /\ at = "poll" /\ ~news

\* The daemon in charge vouches for the hardware, what the other one left behind
\* included: every register holds the speed the row calls for, unless the other
\* daemon wrote it when the lock was no longer its own.
HolderSettled ==
  /\ InCharge(1, has_lock1, pc1, alert1) =>
       \A r \in {q \in idl1.live : nameOf[q] \in valid1 \ stray} :
         reg[nameOf[r]] = Setting[One!Wanted(idl1.sub[r])]
  /\ InCharge(2, has_lock2, pc2, alert2) =>
       \A r \in {q \in idl2.live : nameOf[q] \in valid2 \ stray} :
         reg[nameOf[r]] = Setting[Two!Wanted(idl2.sub[r])]

\* It vouches for the Fan rows too: they say what its structures hold, whichever
\* daemon wrote them last, unless the server has just refused its transaction.
HolderReported ==
  /\ InCharge(1, has_lock1, pc1, alert1) /\ ~refused1 =>
       \A f \in One!FanRows(db) \cap fan_data1 : db.fan[f] = One!AsRow(fan1[f])
  /\ InCharge(2, has_lock2, pc2, alert2) /\ ~refused2 =>
       \A f \in Two!FanRows(db) \cap fan_data2 : db.fan[f] = Two!AsRow(fan2[f])
=============================================================================
