------------------------------- MODULE FanCli -------------------------------
(***************************************************************************)
(* The fan commands of vtysh (fan_vty.c, vtysh_ovsdb_fan_context.c): any   *)
(* number of sessions, each with a copy of the database of its own, among  *)
(* the other writers of the tables they use.                               *)
(*                                                                         *)
(* A command edits the copy's other_config of the first Subsystem row and  *)
(* sends the whole column, without a check that it is still what was read. *)
(* The copy comes up to date between two commands, sooner or later.        *)
(***************************************************************************)
EXTENDS FanEnum

CONSTANTS
  Row,         \* uuids of Subsystem rows
  place,       \* place[r]: where row r comes in the IDL's table
  Fan,         \* names of Fan rows
  Session,     \* vtysh sessions
  Words,       \* the speeds given to fan-speed in a run
  Rest,        \* what the other keys of other_config can hold, taken together
  InitLive,    \* the Subsystem rows there are at first
  MaxCommands, \* bound on the commands that write
  MaxChanges,  \* bound on what the other writers do
  MaxFailures  \* bound on the transactions that fail

ASSUME CliAssumption ==
  /\ place \in [Row -> Nat] /\ \A q, r \in Row : place[q] = place[r] => q = r
  /\ Words \subseteq SpeedString /\ Rest # {} /\ InitLive \subseteq Row
  /\ MaxCommands \in Nat /\ MaxChanges \in Nat /\ MaxFailures \in Nat

VARIABLES
  db,      \* the tables, as far as these commands use them
  copy,    \* copy[s]: the IDL of session s
  txn,     \* txn[s]: {the transaction of the command s is in} or {}
  up,      \* the sessions whose process lives
  shown,   \* shown[s]: {the override the last show printed} or {}
  mine,    \* history: {the override s set and nobody has touched since} or {}
  commands, changes, failures

vars == <<db, copy, txn, up, shown, mine, commands, changes, failures>>

Config == [override : Words \cup {NULL}, rest : Rest]
Tables == [live : SUBSET Row, config : [Row -> Config], fans : SUBSET Fan, rpm : SUBSET Fan]
Txn    == [row : Row, asked : Words \cup {NULL}, config : Config]

Blank == [override |-> NULL, rest |-> CHOOSE m \in Rest : TRUE]

Init ==
  /\ db = [live |-> InitLive, config |-> [r \in Row |-> Blank], fans |-> {}, rpm |-> {}]
  /\ copy = [s \in Session |-> db]
  /\ txn = [s \in Session |-> {}] /\ up = Session
  /\ shown = [s \in Session |-> {}] /\ mine = [s \in Session |-> {}]
  /\ commands = 0 /\ changes = 0 /\ failures = 0

\* ovsrec_subsystem_first.
First(d) == {r \in d.live : \A q \in d.live : place[r] <= place[q]}

-----------------------------------------------------------------------------
(* fan-speed and no fan-speed. *)

\* Bugs: the column is built anew; a key that is there is not replaced; the key is
\* emptied, not removed.
Edited_Anew(config, word) == [Blank EXCEPT !.override = word]
Edited_AddOnce(config, word) ==
  [config EXCEPT !.override = IF @ = NULL \/ word = NULL THEN word ELSE @]
Edited_Emptied(config, word) ==
  [config EXCEPT !.override = IF word = NULL THEN "" ELSE word]

\* smap_replace with a word, smap_remove without one.
Edited(config, word) == [config EXCEPT !.override = word]

\* vtysh_ovsdb_fan_speed_set up to the commit.  Without a Subsystem row it fails.
FanSpeed(s, word) ==
  /\ s \in up /\ txn[s] = {} /\ commands < MaxCommands
  /\ \E r \in First(copy[s]) :
       txn' = [txn EXCEPT ![s] = {[row |-> r, asked |-> word,
                                   config |-> Edited(copy[s].config[r], word)]}]
  /\ commands' = commands + 1
  /\ UNCHANGED <<db, copy, up, shown, mine, changes, failures>>

\* The server's tables after the transaction; a row that is gone matches nothing.
Applied(t) == IF t.row \in db.live THEN [db EXCEPT !.config[t.row] = t.config] ELSE db

\* Whether the transaction changes the copy: if not it is not sent at all.
Differs(s, t) == t.config # copy[s].config[t.row]

\* What a session has set is its own until somebody else touches the rows.
InForce(d) == {d.config[r].override : r \in First(d)}
Touched    == mine' = [s \in Session |-> {}]

\* TXN_SUCCESS.
Commits(s) ==
  /\ s \in up
  /\ \E t \in txn[s] :
       /\ Differs(s, t)
       /\ db' = Applied(t)
       /\ mine' = [p \in Session |-> IF p = s THEN {t.asked} \cap InForce(db') ELSE {}]
  /\ copy' = [copy EXCEPT ![s] = db']
  /\ txn' = [txn EXCEPT ![s] = {}]
  /\ UNCHANGED <<up, shown, commands, changes, failures>>

\* TXN_UNCHANGED, which is a success too.
Unchanged(s) ==
  /\ s \in up
  /\ \E t \in txn[s] :
       /\ ~Differs(s, t)
       /\ mine' = [mine EXCEPT ![s] = {t.asked} \cap InForce(db)]
  /\ txn' = [txn EXCEPT ![s] = {}]
  /\ UNCHANGED <<db, copy, up, shown, commands, changes, failures>>

\* Any other result: the transaction is refused, or the session with the server
\* drops before or after it is applied.
NotCommitted(s) ==
  /\ s \in up /\ failures < MaxFailures /\ failures' = failures + 1
  /\ \E t \in txn[s] : Differs(s, t) /\ db' \in {db, Applied(t)}
  /\ txn' = [txn EXCEPT ![s] = {}]
  /\ Touched
  /\ UNCHANGED <<copy, up, shown, commands, changes>>

-----------------------------------------------------------------------------
(* show system fan and show running-config. *)

\* Bug: the override of a row of any subsystem is printed.
OverrideShown_AnyRow(d) == {d.config[r].override : r \in d.live}

OverrideShown(d) == {d.config[r].override : r \in First(d)}

\* vtysh_ovsdb_fan_show: every Fan row, and the override of the first Subsystem
\* row.  Each Fan row is expected to have an rpm.
ShowSystemFan(s) ==
  /\ s \in up /\ txn[s] = {}
  /\ First(copy[s]) # {} => copy[s].fans \subseteq copy[s].rpm
  /\ shown' = [shown EXCEPT ![s] = OverrideShown(copy[s])]
  /\ UNCHANGED <<db, copy, txn, up, mine, commands, changes, failures>>

\* The first value of an empty rpm column is read.
ShowFaults(s) ==
  /\ s \in up /\ txn[s] = {}
  /\ First(copy[s]) # {} /\ ~(copy[s].fans \subseteq copy[s].rpm)
  /\ up' = up \ {s}
  /\ UNCHANGED <<db, copy, txn, shown, mine, commands, changes, failures>>

\* vtysh_ovsdb_subsystemtable_parse_othercfg: the words of the fan-speed lines.
Line(word) == IF word # NULL /\ word # "normal" THEN {word} ELSE {}

\* What vtysh_config_context_fan_clientcallback prints.
RunningConfig(d) == UNION {Line(d.config[r].override) : r \in First(d)}

\* show running-config.
ShowRunningConfig(s) ==
  /\ s \in up /\ txn[s] = {}
  /\ shown' = [shown EXCEPT ![s] = RunningConfig(copy[s])]
  /\ UNCHANGED <<db, copy, txn, up, mine, commands, changes, failures>>

-----------------------------------------------------------------------------
(* The sessions' copies, and the other writers. *)

\* The copy of a session comes up to date.
Refresh(s) ==
  /\ s \in up /\ txn[s] = {} /\ copy[s] # db
  /\ copy' = [copy EXCEPT ![s] = db]
  /\ UNCHANGED <<db, txn, up, shown, mine, commands, changes, failures>>

\* A user logs in again.
LogIn(s) ==
  /\ s \notin up
  /\ up' = up \cup {s} /\ copy' = [copy EXCEPT ![s] = db]
  /\ shown' = [shown EXCEPT ![s] = {}] /\ mine' = [mine EXCEPT ![s] = {}]
  /\ UNCHANGED <<db, txn, commands, changes, failures>>

Changes ==
  /\ changes < MaxChanges /\ changes' = changes + 1
  /\ UNCHANGED <<copy, txn, up, shown, commands, failures>>

\* Another program sets another key of other_config.
SetRest(r, m) ==
  /\ r \in db.live /\ db.config[r].rest # m
  /\ db' = [db EXCEPT !.config[r].rest = m]
  /\ UNCHANGED mine /\ Changes

\* A Subsystem row comes, or goes.  With the last one go all Fan rows.
SubsystemComes(r) ==
  /\ r \notin db.live /\ db' = [db EXCEPT !.live = @ \cup {r}]
  /\ Touched /\ Changes

SubsystemGoes(r) ==
  /\ r \in db.live
  /\ \E fans \in {{}, db.fans} :
       /\ db.live = {r} => fans = {}
       /\ db' = [db EXCEPT !.live = @ \ {r}, !.config[r] = Blank,
                          !.fans = fans, !.rpm = @ \cap fans]
  /\ Touched /\ Changes

\* The fan daemon adds a Fan row, without an rpm, and later sets it.
FanComes(f) ==
  /\ f \notin db.fans /\ db.live # {}
  /\ db' = [db EXCEPT !.fans = @ \cup {f}]
  /\ UNCHANGED mine /\ Changes

FanRead(f) ==
  /\ f \in db.fans \ db.rpm
  /\ db' = [db EXCEPT !.rpm = @ \cup {f}]
  /\ UNCHANGED mine /\ Changes

-----------------------------------------------------------------------------
Next ==
  \/ \E s \in Session :
       \/ \E w \in Words \cup {NULL} : FanSpeed(s, w)
       \/ Commits(s) \/ Unchanged(s) \/ NotCommitted(s)
       \/ ShowSystemFan(s) \/ ShowFaults(s) \/ ShowRunningConfig(s)
       \/ Refresh(s) \/ LogIn(s)
  \/ \E r \in Row :
       (\E m \in Rest : SetRest(r, m)) \/ SubsystemComes(r) \/ SubsystemGoes(r)
  \/ \E f \in Fan : FanComes(f) \/ FanRead(f)

Spec == Init /\ [][Next]_vars

-----------------------------------------------------------------------------
(* Correctness. *)

\* Every variable has its type; one session is in one transaction.
TypeOK ==
  /\ db \in Tables /\ copy \in [Session -> Tables]
  /\ txn \in [Session -> SUBSET Txn]
  /\ \A s \in Session : \A t, u \in txn[s] : t = u
  /\ up \subseteq Session
  /\ shown \in [Session -> SUBSET (Words \cup {NULL})]
  /\ mine \in [Session -> SUBSET (Words \cup {NULL})]
  /\ commands \in Nat /\ changes \in Nat /\ failures \in Nat

\* A command that reports success has set the override it was given in the row it
\* was about, whatever the other sessions did since it was read.  (The exception is
\* a command that was not sent, as nothing in an old copy called for it.)
SuccessMeansSet ==
  [][\A s \in Session : \A t \in txn[s] \ txn'[s] :
       failures' = failures /\ t.row \in db.live =>
         \/ db'.config[t.row].override = t.asked
         \/ db' = db /\ copy[s].config[t.row] # db.config[t.row]]_vars

\* A command changes nothing but the override of one row, unless somebody changed
\* the other keys of that row since the session read them: other_config is
\* written back whole, and that change is lost.
OthersKept ==
  [][\A s \in Session : \A t \in txn[s] \ txn'[s] :
       copy[s].config[t.row].rest = db.config[t.row].rest =>
         \A r \in Row : /\ db'.config[r].rest = db.config[r].rest
                        /\ r # t.row => db'.config[r] = db.config[r]]_vars

\* If nobody else has touched the Subsystem rows since a session set the override,
\* "show system fan" prints that override, and "show running-config" the line that
\* sets it, but no line for "normal", as for no override at all.
ShowsWhatWasSet ==
  [][\A s \in Session : mine[s] # {} =>
       /\ ShowSystemFan(s) => shown'[s] = mine[s]
       /\ ShowRunningConfig(s) => shown'[s] = mine[s] \ {NULL, "normal"}]_vars
=============================================================================
