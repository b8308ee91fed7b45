# A TLA+ model of the OpenSwitch fan daemon (ops-fand)

The daemon reads what the temperature sensors and the operator ask for from the OVSDB
database, sets the fan speed registers and status LEDs over I2C, reads the fans back
and publishes what it read in the `Fan` table.

## Inventory

| Component | State | Operations | Correct when |
|---|---|---|---|
| Reconfiguration pass, `src/src/fand.c` 93-351, 501-559 | `subsystem_data` (valid, marked, speed fields), `fan_data`, `idl_seqno`, the iterator of `OVSREC_SUBSYSTEM_FOR_EACH` | `fand_reconfigure`, `get_subsystem`, `add_subsystem`, `fand_unmark_subsystems`, `fand_remove_unmarked_subsystems` | every change of a row is acted on; tables match the rows and each other |
| Status pass, `fand.c` 423-499 | `struct locl_fan`, `cur_hw_set`, the transaction | `fand_read_status` | Fan columns follow the fans, no Fan row is unknown, `cur_hw` is reported |
| Main loop, session, process, `fand.c` 353-421, 561-590, 644-688 | the IDL, the lock `ops_fand` | `fand_init`, `fand_run`, `fand_wait`, `main`, `ops_fand_exit` | survives loss of the session and restarts |
| Hardware access, `src/src/physfan.c` | registers, LEDs | `fand_set_fanspeed`, `fand_set_fanleds`, `fand_read_fan_status` | `max` by a sensor beats an override, which beats the sensors; LEDs show the worst fan |
| Enumerations, `fanspeed.c`, `fanstatus.c`, `fandirection.c` | none | string conversions | conversions agree |
| CLI, `src/src/cli/fan_vty.c` | `Subsystem:other_config` | `fan-speed`, `no fan-speed`, `show system fan` | changes its own key only, on every subsystem |
| Running configuration, `vtysh_ovsdb_fan_context.c` | none | `vtysh_config_context_fan_clientcallback` | it prints what is configured |
| unixctl `ops-fand/dump`, option parsing | none | formatting | see *Not modelled* |
| External: ovsdb-server, IDL, config-yaml, ops-tempd | database, h/w descriptions | | modelled from how `fand.c` uses them |

The parts meet in the database and in the fan hardware only. The daemon is one thread;
it gives up control in three places: `poll_block` in `main`, and
`ovsdb_idl_txn_commit_block` in `add_subsystem` (in the middle of the loop over the
Subsystem table) and in `fand_read_status`. The hard behaviours are what the other
writers do at those three places, transactions that are lost with the session or
refused without it, restarts over a database that still holds the rows of the last
process, register writes that fail, and a table that is rebuilt while it is iterated
over.
A second daemon is kept out of the database by the lock, but not out of the hardware.
The vtysh sessions work on copies that may be old. `PROJECT.json` lists each such
hazard at its line.

## Modules

* `FanEnum` - enumerators and conversions.
* `Fand` - the daemon between the server, the other writers and the fans.
* `FanControl` - the abstract specification of a controller, which `Fand` implements.
* `PhysFan` - the hardware access, one I2C operation per step.
* `FandPair` - two instances of `Fand` that share the server and the hardware.
* `FanCli` - vtysh sessions among the other writers.
* `MCFand`, `MCPhysFan`, `MCFandPair`, `MCFanCli` - the constants of the instances TLC
  checks.
* `FandProofs` - lemmas on the choice of a speed, and type correctness.
* `FandSafetyProofs` - the inductive invariant and the safety theorems.
* `FandRefinement` - `Fand` implements `FanControl`.
* `FandRowsProofs` - every Fan row is known, and when.
* `FandPairProofs` - the properties of `FandPair`, from the lemmas on one daemon.
* `PhysFanProofs`, `FanCliProofs` - the properties of `PhysFan` and `FanCli`.

### How `Fand` corresponds to the code

What runs between two places where the daemon may block, and cannot be observed in the
middle, is one action; `pc` names the place.

| `pc` | where | actions |
|---|---|---|
| `poll` | `poll_block` | `Wake` and `WakeWithLock` (`ovsdb_idl_run`, the sequence number, unmarking), `LoseSession` |
| `scan` | head of the loop over Subsystem rows | `SkipInvalid`, `AddInvalid`, `AddSubsystem`, `Configure`, `RemoveUnmarked` |
| `adding` | inside the commit of `add_subsystem` | `AddCommitted`, `AddNotCommitted`, `AddRefused`, `AddNotLocked` |
| `configure` | just after it | `Configure`, `FaultOnFreedRow` |
| `read` | start of `fand_read_status` | `ReadStatus`, `FaultOnUnknownFan` |
| `publish` | inside its commit | `StatusCommitted`, `StatusNotCommitted`, `StatusRefused`, `StatusNotLocked` |
| `down`, `null`, `freed` | the process has ended: told to, NULL dereferenced, freed row dereferenced | `Restart` |

`known`, `valid`, `marked` are the keys of `subsystem_data` and its two flags, `loc`
the speed fields, `fan_data` and `fan` the fan table and its structures, `todo` the
rows the iterator has still to visit, `cur` the row being added. `db` is the server's
copy of the tables, `idl` the daemon's, `alert` says that the IDL's sequence number
differs from `idl_seqno`. `pend` and `pend_hw` are the writes of the transaction in
flight; `refused` is history: the last status transaction was refused.

The code looks at the result of neither commit (`fand.c:272`, `fand.c:489`). There are
four outcomes of each: the transaction is in; the session drops meanwhile, and with it
the lock (`AddNotCommitted`, `StatusNotCommitted`); the server refuses it and the
daemon goes on with session and lock (`AddRefused`, `StatusRefused`), so that it may
be at `poll` with the lock, no news and a row that says something else; or there was
no lock to begin with (`AddNotLocked`, `StatusNotLocked`).

### `FanControl`

Clients ask for speeds; a controller that sees the demands stirs (`Stir`), works on
the levels of the fans (`Work`) and settles (`Settle`) when they are what it has seen
asked for; it may die (`Forget`). `Fand` maps `demand` to what the rows of the server
whose description loads call for, `seen` to the same of the daemon's copy, `level` to
the registers and `settled` to *not in the loop over the rows and no news*.

### How `PhysFan` corresponds to the code

`Fand` takes the writes of one function as one step; here each I2C operation is a
step, may fail, and fans change between any two. `pc` is the function: `SetFanspeed`,
`WriteControl`, `SkipControl` are `fand_set_fanspeed` (`Targets` are the FRUs, fans or
subsystem its loops visit); `SetFanleds`, `FruLed`, `BoardLed` are `fand_set_fanleds`;
`ReadFans`, `ReadDirection`, `ReadPresent`/`ReadAbsent`, `ReadLsb`, `ReadMsb`,
`ReadFault`, `PassDone` are the loop of `fand_read_status` and `fand_read_fan_status`.
`fand_read_present` treats an error as an absent fan only when it is negative;
otherwise an uninitialised variable decides, which is a choice between `ReadPresent`
and `ReadAbsent`. `lost`, `dark`, `seen`, `calm` and `blind` are history: which writes
failed, and what the fan being read was like meanwhile. A loop visits its FRUs in any
order. The speed itself is asked for by `Fand`.

### How `FandPair` corresponds to the code

`One` and `Two` are `Fand` with its daemon variables renamed; the server's tables, the
registers, LEDs and fans are the same ones. `owner` is whom the server has granted the
lock. `CutSession` is the server's view of a lost session: the lock is free before the
daemon knows, and until it does, nothing it sends arrives and nothing is sent to it. Its
timer starts passes all the same (`WakeUnheard`), and these write the hardware.
`stray` are the subsystems whose register was last written by a daemon without the
lock; `Touched` of `Fand` says which registers a step writes, and the lemma
`Untouched` proves that it misses none.

### How `FanCli` corresponds to the code

`FanSpeed` is `vtysh_ovsdb_fan_speed_set` up to the commit: it clones `other_config`
of the first row of the session's copy, edits one key and writes the column.
`Commits`, `Unchanged`, `NotCommitted` are the outcomes; the first two report success.
`ShowSystemFan` is `show system fan`, `ShowFaults` the same over a Fan row whose
optional `rpm` is empty, where the first key of an empty datum is read.
`ShowRunningConfig` is `show running-config`, as far as the fan callback prints it. A
session's copy comes up to date between commands (`Refresh`), sooner or later. The
IDL's table is in the order of a hash of the row's uuid, hence `place`.

### Assumptions about what is outside the repository

* `ovsdb_idl_run` brings the copy fully up to date, and moves the sequence number when
  a row of any table appears or goes away or a column without `omit_alert` changes.
  The daemon may also be behind: every change may come after it.
* A committed transaction's own update arrives before its reply. A transaction whose
  session drops was applied or was not. Without the lock it fails at once.
* An update of a row that is gone does nothing. Fan rows nothing refers to are dropped
  by the server.
* After a reconnect the whole database counts as news, and the lock is granted after
  the monitor reply.
* A freed row holds anything: the loop may go on with any contents and any successor,
  or crash.
* A row that comes in during the loop may be visited or not (`InsertedRows`). If it
  makes the table grow, the hash table is rebuilt and the loop may pass over any row,
  or visit one again (`RehashedRows`, with `"rehash"` in `Faults`). Any insertion may
  do so in the model; in the library it depends on the size of the table.
* Fan rows are modelled by name, and no two subsystems share a full fan name
  (assumption `ConstantAssumption`): `a-b`+`c` and `a`+`b-c` would clash in the code.
* The `Daemon` row `ops-fand` exists. Rows put into `Subsystem:fans` by others (the
  component test does so) are put there between two passes.
* malloc'ed structures hold any status until read.

### Abstractions

In `Fand`: one speed register and one LED per subsystem, an atomic write of each that
may be lost; a description that loads or does not; all fans read at one moment.
`PhysFan` takes these apart, with registers of `Byte` values (256 in the code, 2 in
the run) and an int of at most `IntMax`. In `FanCli`: the other keys of `other_config`
are one value. Strings outside the tables of the enumerations are covered by the
theorem `EffectiveIsWanted`, not by the instances.

## Properties

* `SettledSpeed` - whenever the daemon has caught up, record and register hold the
  speed that the row calls for. `Wanted` states it independently of the code.
* `ReportedSpeed` - if it has the lock too, the Fan rows report that speed, unless the
  server has just refused the transaction that says so.
* `ManagesWhatIsThere` - at the same moments it manages every subsystem whose
  description loads, one filled in late included, and none whose row is gone.
* `TablesAgree` - nothing invalid outlives a pass; `fan_data` matches the valid
  subsystems.
* `EveryFanRowKnown` - no Fan row makes `shash_find` return NULL.
* `ImplementsFanControl` - `Fand` implements `FanControl`: a pass that had news ends
  with every register as its rows call for, and the daemon then leaves the registers
  alone until there is news or the process ends.
* `CfgStillThere` - the row pointer the loop holds is valid.
* `HardwareFollows`, `StatusFollows`, `FanRowsAppear`, `CurHwReported`, `LedFollows` -
  in the long run, if the process stays up, the hardware, the Fan columns, the Fan
  rows, `cur_hw` and the LED are right.
* `ControlsFollow` - whichever controls are missing, every other one holds the speed
  of the record unless its last write failed.
* `LedsShowWorst` - each FRU's LED shows its worst fan, the aggregate LED the worst of
  all, fans of FRUs without an LED included.
* `FaithfulRead` - a fan that is left alone and read without failure is recorded as it
  is, its rpm as far as an int can hold it.
* `NeverFalselyOk` - whatever changes and fails, a fan is recorded as ok only if it
  was free of fault, and plugged in, at some moment of the reading.
* `HolderSettled`, `HolderReported` - the daemon that holds the lock and has no news
  vouches for the registers and, unless its transaction was just refused, for the Fan
  rows, whoever wrote them last.
* `SuccessMeansSet`, `OthersKept` - what a command that returns has set, and what it
  has left alone; `ShowsWhatWasSet` - a session sees its own setting in both shows,
  `normal` in the running configuration apart.

Each states its exceptions. They are not caution but what the code does: without them
the property fails. For `HolderSettled`, without the exclusion of `stray`, TLC finds a
daemon that loses the lock inside a pass, goes on with that pass and writes an old
speed after the new holder has settled; the holder has no news and does not correct it
(`fand.c:569` speaks of "disabling this process until it goes away"). `OthersKept`
fails when another key of `other_config` has changed since the copy was read
(`fan_vty.c:76`). `SuccessMeansSet` fails when the copy already says what is asked and
the database does not (`TXN_UNCHANGED`, `fan_vty.c:90`). `ReportedSpeed` and
`HolderReported` fail right after a refused transaction, until the next pass compares
row and structure again (`StatusFollows` says that it makes up for it). `NeverFalselyOk`
fails when a non-negative error of reading the presence bit leaves its value
uninitialised (`blind`). `ShowsWhatWasSet` says that no line is printed for an override
of `normal`, as that is what `vtysh_ovsdb_fan_context.c:55` does, although it is not the
same as none to the daemon.

## Runs

Two subsystem names with one fan each; rows `r1`, `r2` have the first name, so that it
can go and come back as another row; `MaxEdits` and `MaxFaults` bound the changes and
failures of a run and `used` makes every row identifier come once. Three changes are
enough for the longest scenario of interest (a row goes, comes back, changes; or rows
come before and during the loop and one changes), and each may fall at any point of
any pass. Rows inserted have no override until one is set.

| Run | Changes and failures | Shows |
|---|---|---|
| `fand_safety` | rows, sensors, overrides, descriptions, deletion of the row being added, a table rebuilt; one of: transaction lost or refused, session loss, kill | `TypeOK`, `SettledSpeed`, `ReportedSpeed`, `ManagesWhatIsThere`, `TablesAgree`, `ImplementsFanControl` hold |
| `fand_live` | one subsystem name: rows, sensors, overrides, descriptions that come and go, foreign Fan rows, fans that change; one failure as in `fand_safety` | registers and Fan columns follow |
| `fand_rows` | rows and late descriptions; kill and lost session, twice | Fan rows known and complete, `cur_hw` reported |
| `fand_led` | one fan changes | the LED does **not** follow: it is set only when the database changes (`DESIGN.md` sets it every turn) |
| `fand_i2c` | one lost register write | the register stays wrong for good (`DESIGN.md` sets it every turn) |
| `fand_reinsert` | one row deleted, one of the same name inserted | the new row never gets Fan rows |
| `fand_null` | a description goes, the process restarts | NULL dereference in every pass |
| `fand_freed` | the row being added is deleted | `cfg` is used after it was freed |
| `fand_rehash` | three subsystems; two rows come, the second makes the table grow | a subsystem passed over is removed, its Fan rows are unknown: NULL dereference |
| `phys_fan` | a fan changes or a FRU is pulled; an I2C operation fails | `TypeOK`, `ControlsFollow`, `LedsShowWorst`, `FaithfulRead`, `NeverFalselyOk` |
| `fand_pair` | an override or a description; two of: session cut or lost, kill, transaction lost or refused | `HolderSettled`, `HolderReported` |
| `fan_cli` | three commands, two changes by others, one failing transaction | `TypeOK`, `SuccessMeansSet`, `OthersKept`, `ShowsWhatWasSet` |

`phys_fan` has two FRUs with two fans and one, and five descriptions: each control
type with some controls, LEDs, presence bits or high bytes missing, each rpm
calculation, one whose product an int of the run does not hold, and a cut name; one of
the FRUs may be missing at first. One speed is asked for, not the one the fans start
with. One change and one failure reach every outcome of a reading, as a reading is one
fan's and each property is about one reading or one loop. `fand_pair` has one
subsystem with one fan: the lock changes hands at most twice, enough for a daemon to
lose it, the other to take over and the first to come back. `fan_cli` has two sessions
and two rows of which the one that comes later is the first of the table.

`FanRowsAppear` and `CurHwReported` fail after a failing commit, whose result nobody
looks at (`fand.c:272`, `fand.c:489`). `EveryFanRowKnown` fails when the table is
rebuilt under the iterator or a description goes (`fand_rehash`, `fand_null`), under
foreign Fan rows and under deletion of a row in the pass that adds it. `fand_rows`
leaves all of these out. `fand_safety` has the rebuilt table: a daemon that survives it
has speeds and subsystems right once it has caught up, as the insertion is news.

Fairness (of `Fand`; the other modules state safety only): weak fairness of the
daemon's own steps, because `poll_block` returns at the latest after
`FAN_POLL_INTERVAL` and the server answers; and of `WakeWithLock`, because a session
is re-established and no other daemon holds the lock for ever. Nothing else must
happen; a restart in particular need not, hence `<>[]Up`.

## Proofs

For every set of rows, names, fans and descriptions and any bounds:

* `TypeCorrect` - `Spec => []TypeOK`.
* `EffectiveIsWanted` - for any set of sensor strings and any override string, what
  `fand_reconfigure` and `fand_set_fanspeed` compute between them is `Wanted`.
* `SpeedsSettle`, `ManagedAreThere`, `TablesStayInStep`, `SpeedIsReported` - the
  safety invariants of `fand_safety`.

None of these is inductive, as each speaks of the moments between two passes. `IInv`
says what holds inside, of the process and its copy alone: names are unique in both
copies; the loop has its shape (`LoopShape`); `marked`, `valid`, `known` are nested
(`FlagShape`); and, unless there is news, every row *visited* so far has its speed
(`VisitedSettled`) and its mark (`VisitedMarked`). Between two passes all rows are
visited. The key step is `AddedStep`: what came in during the commit is either news,
which ends all obligations of this pass, or changed no row. `RemoveStep` needs that no
two names share a fan. The assumptions are `ConstantAssumption` only. TLC checks the
same invariants on small instances.

Two more invariants relate the process to what others can write, and are kept apart
from `IInv` because they need more:

* `RegistersAreHeld` - if no register write is lost (`"i2c" \notin Faults`), the
  register of every *marked* subsystem holds the speed of its record. A record's speed
  changes in the steps that write its register only (`TouchedIsHeld`, `Untouched`), so
  this holds in the middle of a pass as well.
* `LockSeesRows` - if nobody else sets `Subsystem:fans` (`"foreign" \notin Edits`), a
  daemon that has the lock sees every Fan row the server has, with its contents, and
  after the status pass a row says what the structure says, is in the transaction in
  flight, or was in one the server has just refused (`RowSeen`). Only a commit writes a
  row, and a commit that arrives brings its own update; one whose session drops costs
  the daemon the lock, and getting it again means a whole new copy and a new pass; one
  that is refused changes no Fan row, and the next pass finds the same difference.

`SpeedIsReported` puts three of them together: the row says what the structure says,
the structure what the record says (`FansToldSpeed`), and the record what the sensors
and the override call for.

`DaemonImplementsControl` (`FandRefinement`) - `Fand` implements `FanControl`, if no
register write fails. It rests on `IInv` and `RegistersHeld`: initial states map to
initial states, and each action of `Fand` to one of `FanControl` or a stutter. The end
of the loop is `Settle`, and there `VisitedSettled` with all rows visited is
`Serves(seen)`; if news came in during the loop the daemon stays unsettled and the
step is `Work`. `ControlServes` proves of `FanControl` alone that a settled controller
serves what it has seen and rests until it stirs; with the refinement, `DaemonServes`
says so of the daemon, also while it reads and publishes the status.

`FanRowsKnown` (`FandRowsProofs`) - `EveryFanRowKnown` under `Calm`: no transaction is
lost or refused, the table is not rebuilt under the iterator, descriptions do not
vanish, nobody else sets `Subsystem:fans` and no row goes in the pass that has still
to deal with it; kills, restarts and lost sessions are allowed. Its invariant says
that the Fan rows of the daemon's copy are those of subsystems it manages or, during
the loop, has still to visit. The runs `fand_rehash` and `fand_null`
show what happens outside the condition.

`PhysTypes`, `ControlsAreSet`, `LedsAreSet`, `ReadsAreFaithful`, `OkIsNeverFalse`
(`PhysFanProofs`) - the properties of `phys_fan`, for any FRUs, fans, descriptions,
register width and any number of changes and failures, under `HardwareAssumption` (two
bytes fit an int). Nothing is assumed of the multiplier and numerator: the product is
what an int keeps of it (`AsInt`), and `ReadsAreFaithful` promises the rpm only where
that is all of it. Each has an invariant that says what is done of the loop, or of the
reading: which controls are set and which are still to do, that the aggregate is the
worst of the FRUs visited, that a `calm` fan's record so far is the actual one, and
that the record's parts come from moments in `seen`.

`CliTypes`, `SuccessIsReal`, `CommandsKeepOthers`, `ShowIsTrue` (`FanCliProofs`) - the
properties of `fan_cli`, for any number of sessions, rows and writers, under
`CliAssumption`. The invariants say that a transaction in flight is the edit of the
copy it was made from, and that `mine` is what the first row of the database, and of
the session's copy, holds.

`PairInvariant`, `HolderIsSettled`, `HolderReports` (`FandPairProofs`) - two daemons.
The lemmas on one daemon are instantiated twice (`P1`, `P2`) rather than proved again.
They may be, because each states what a single step of a daemon does to its own
process, whatever the server and the hardware hold: a step of the other daemon changes
only what `IInv` says little about (`FirstUndisturbed`), so `IInv` holds of both,
sessions that are cut unnoticed included. Then, with the holder of the lock,

* `Registers1`, `Registers2` - the register of every subsystem it has marked, and that
  is not `stray`, is held; a step of the other daemon makes what it touches `stray`
  (`SecondLeavesRegisters`). `HolderSettled` follows if no register write is lost. The
  hypothesis is the same as for one daemon: a lost write is not retried.
* `Rows1`, `Rows2` - the holder sees every Fan row. Without the lock the other daemon
  cannot change the database (`SecondActs`); a holder whose session is cut no longer
  has the lock at the server, and gets it again with a new copy only. `HolderReported`
  follows if nobody else sets `Subsystem:fans`, as a row set by others appears without
  a pass.

Not proved, only model-checked: the liveness properties, as liveness under fairness is
out of the prover's reach.

## Not modelled

* The unixctl command `ops-fand/dump`: it reads the tables between two passes and
  changes nothing.
* The command line and logging; build files and tests.
* Loading a startup configuration: the program that does it is not in the repository.
* The libraries (OVSDB server, IDL, config-yaml) beyond what the code relies on.

## Disagreements

The runs that expect a violation are listed as findings, with what they contradict:

* a fan whose status changes while nothing else does never reaches the LED
  (`fand_led`), and a failed register write is not repeated (`fand_i2c`), against the
  main loop of `DESIGN.md`;
* a Subsystem row that replaces one of its name gets no Fan rows (`fand_reinsert`),
  against the list in `DESIGN.md` of what the daemon writes;
* the loop over the rows goes on after a wait, with a row that may be gone
  (`fand_freed`) or a table that may have been rebuilt (`fand_rehash`), and every Fan
  row is taken for one of a managed subsystem (`fand_null`), against the comments of
  `fand_reconfigure`.

Three more were met that no run is about:

* a failed transaction of `add_subsystem`, or the one with `cur_hw`, is never made up
  for, against the same list of `DESIGN.md`;
* `vtysh_ovsdb_fan_context.c:55` prints nothing for an override of `normal`, against
  `src/tests/test_vtysh_ct_fan.py:124-125`, "Test to verify if the fan-speed config is
  reflected in show running config";
* only the first row is written and shown, against "Set fan speed globally"
  (`fan_vty.c:47`).

## Plan

1. The pass of `Fand` with the steps of `PhysFan` in place of its atomic writes.
2. `EveryFanRowKnown` for two daemons: whether one meets rows the other made.
