------------------------------- MODULE MCFand -------------------------------
(***************************************************************************)
(* Instances of Fand for TLC.  Rows r1 and r2 have the same name, so that  *)
(* it can be deleted and come back as another row; r3 and r4, where a run  *)
(* has them, have names of their own.                                      *)
(***************************************************************************)
EXTENDS Fand

CONSTANTS r1, r2, r3, r4, base, line, last, f1, f2, f3

MCNameOf   == [r \in Row |-> CASE r = r3 -> line [] r = r4 -> last [] OTHER -> base]
MCYamlFans == [n \in Name |-> CASE n = base -> {f1} [] n = line -> {f2} [] n = last -> {f3}]
MCSetting  == [s \in Speed |-> 10 * (s + 1)]

MCSensorSets == {{"slow"}, {"medium", "max"}}
MCOverrides  == {NULL, "normal"}

Turning == [direction |-> "f2b", rpm |-> 9, status |-> FAND_STATUS_OK]
Failed  == [direction |-> "f2b", rpm |-> 0, status |-> FAND_STATUS_FAULT]

MCReadings    == {Turning, Failed}
MCOneReading  == {Turning}
=============================================================================
