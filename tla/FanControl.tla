----------------------------- MODULE FanControl -----------------------------
(***************************************************************************)
(* What the fan daemon promises, without how it does it: subsystems ask    *)
(* for speeds; a controller that sees what they ask for now and then works *)
(* on the fans until the level of each is the one it has seen asked for,   *)
(* and touches none of them again before it has seen something new.        *)
(***************************************************************************)
CONSTANTS
  Client,     \* who may ask
  NoDemand,   \* the demand of a client that asks for nothing
  Speed,      \* what can be asked for
  boardOf,    \* boardOf[c]: the board whose fans c asks about
  Level       \* Level[s]: the level that makes a fan turn at speed s

VARIABLES
  demand,     \* what each client asks for
  seen,       \* ... as far as the controller knows
  level,      \* of the fans of each board
  settled     \* the controller vouches for the levels

vars == <<demand, seen, level, settled>>

Nothing == [c \in Client |-> NoDemand]

\* The boards of all clients are at the level d asks for.
Serves(d) == \A c \in Client : d[c] # NoDemand => level[boardOf[c]] = Level[d[c]]

Init ==
  /\ demand \in [Client -> Speed \cup {NoDemand}]
  /\ seen = Nothing
  /\ settled = TRUE

Ask ==
  /\ demand' \in [Client -> Speed \cup {NoDemand}]
  /\ UNCHANGED <<seen, level, settled>>

\* There may be news.
Stir ==
  /\ settled /\ settled' = FALSE
  /\ seen' \in {seen, demand}
  /\ UNCHANGED <<demand, level>>

\* On the way levels may be wrong, but each is one that belongs to a speed.
Work ==
  /\ ~settled /\ settled' = FALSE
  /\ seen' \in {seen, demand}
  /\ \A b \in DOMAIN level : level'[b] # level[b] => \E s \in Speed : level'[b] = Level[s]
  /\ UNCHANGED demand

Settle ==
  /\ ~settled /\ settled' = TRUE
  /\ Serves(seen)
  /\ UNCHANGED <<demand, seen, level>>

\* The controller dies.  The fans keep turning as they are.
Forget ==
  /\ seen' = Nothing /\ settled' = TRUE
  /\ UNCHANGED <<demand, level>>

Next == Ask \/ Stir \/ Work \/ Settle \/ Forget

Spec == Init /\ [][Next]_vars
=============================================================================
