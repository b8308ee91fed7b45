----------------------------- MODULE MCFandPair -----------------------------
(***************************************************************************)
(* An instance of FandPair for TLC: one subsystem with one fan.            *)
(***************************************************************************)
EXTENDS FandPair

CONSTANTS r1, base, f1

MCNameOf   == [r \in Row |-> base]
MCYamlFans == [n \in Name |-> {f1}]
MCSetting  == [s \in Speed |-> 10 * (s + 1)]

MCSensorSets == {{"slow"}}
MCOverrides  == {NULL, "normal"}
MCReadings   == {[direction |-> "f2b", rpm |-> 9, status |-> FAND_STATUS_OK]}
=============================================================================
