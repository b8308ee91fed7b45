------------------------------ MODULE MCFanCli ------------------------------
(***************************************************************************)
(* An instance of FanCli for TLC: two sessions, two Subsystem rows of      *)
(* which the second comes first in the table, and one fan.                 *)
(***************************************************************************)
EXTENDS FanCli

CONSTANTS r1, r2

MCPlace == [r \in Row |-> IF r = r1 THEN 2 ELSE 1]
=============================================================================
