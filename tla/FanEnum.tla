------------------------------ MODULE FanEnum ------------------------------
(***************************************************************************)
(* The three enumerations the daemon and the database share (fan speed,    *)
(* fan status, air-flow direction) and the conversions between an          *)
(* enumerator and the string that stands for it in a database column:      *)
(* fanspeed.c, fanstatus.c and fandirection.c.                             *)
(***************************************************************************)
EXTENDS Integers, Sequences

\* A string pointer that is NULL: smap_get found no such key.  It is not in any
\* of the tables below, so a lookup treats it like a string nobody knows.
NULL == "NULL"

-----------------------------------------------------------------------------
(* Speed.  FAND_SPEED_NONE means "no override". *)

FAND_SPEED_NONE   == -1
FAND_SPEED_SLOW   == 0
FAND_SPEED_NORMAL == 1
FAND_SPEED_MEDIUM == 2
FAND_SPEED_FAST   == 3
FAND_SPEED_MAX    == 4

Speed     == FAND_SPEED_SLOW .. FAND_SPEED_MAX
SpeedEnum == Speed \cup {FAND_SPEED_NONE}

fanspeed_string == <<"slow", "normal", "medium", "fast", "max">>
SpeedString     == {fanspeed_string[i + 1] : i \in Speed}

fan_speed_string_to_enum(name) ==
  IF name \in SpeedString
  THEN CHOOSE i \in Speed : fanspeed_string[i + 1] = name
  ELSE FAND_SPEED_NONE

\* Any value outside the table, FAND_SPEED_NONE included, reads "normal".
fan_speed_enum_to_string(speed) ==
  fanspeed_string[(IF speed \in Speed THEN speed ELSE FAND_SPEED_NORMAL) + 1]

-----------------------------------------------------------------------------
(* Status. *)

FAND_STATUS_UNINITIALIZED == 0
FAND_STATUS_OK            == 1
FAND_STATUS_FAULT         == 2

Status == FAND_STATUS_UNINITIALIZED .. FAND_STATUS_FAULT

fanstatus_string == <<"uninitialized", "ok", "fault">>
StatusString     == {fanstatus_string[i + 1] : i \in Status}

fan_status_enum_to_string(status) ==
  fanstatus_string[
    (IF status \in Status THEN status ELSE FAND_STATUS_UNINITIALIZED) + 1]

-----------------------------------------------------------------------------
(* Direction. *)

FAND_DIRECTION_F2B == 0
FAND_DIRECTION_B2F == 1

fandirection_string == <<"f2b", "b2f">>
DirectionString     == {"f2b", "b2f"}

fan_direction_enum_to_string(direction) ==
  fandirection_string[
    (IF direction \in {FAND_DIRECTION_F2B, FAND_DIRECTION_B2F}
     THEN direction ELSE FAND_DIRECTION_F2B) + 1]

=============================================================================
