----------------------------- MODULE MCPhysFan -----------------------------
(***************************************************************************)
(* An instance of PhysFan for TLC: two FRUs with two fans and one, and the *)
(* shapes a description can have.  Registers hold a bit, and an int of -8  *)
(* to 7 does not hold every product with the multiplier 5.                 *)
(***************************************************************************)
EXTENDS PhysFan

CONSTANTS u1, u2, f1, f2, f3

MCFruOf   == [f \in Fan |-> IF f = f3 THEN u2 ELSE u1]
MCSetting == [s \in Speed |-> 10 * (s + 1)]

Plain ==
  [type |-> "SINGLE", control |-> {Board}, leds |-> {u1, u2, Board}, detect |-> {u1, u2},
   f2b |-> TRUE, present |-> {u1, u2}, msb |-> Fan, multiplier |-> 2, numerator |-> 0,
   cut |-> {}, last |-> f1]

MCInitThere == {{u1, u2}, {u1}}

MCDescriptions ==
  {Plain,
   [Plain EXCEPT !.control = {}, !.leds = {Board, u2}, !.multiplier = 0],
   [Plain EXCEPT !.type = "PER_FRU", !.control = {u2}, !.leds = {Board}, !.f2b = FALSE,
                 !.present = {u2}, !.multiplier = 0, !.numerator = 6],
   [Plain EXCEPT !.type = "PER_FAN", !.control = {f2, f3}, !.leds = {u1}, !.detect = {},
                 !.msb = {f1}, !.multiplier = 5],
   [Plain EXCEPT !.type = "INVALID", !.control = {Board}, !.cut = {f3}]}

MCConditions ==
  {[lsb |-> 1, msb |-> 0, fault |-> FALSE], [lsb |-> 0, msb |-> 1, fault |-> TRUE]}
=============================================================================
