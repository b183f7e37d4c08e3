------------------------------ MODULE Settings ------------------------------
(***************************************************************************)
(* How the services read their configuration: every setting has a smallest *)
(* and a largest accepted value and a default, an environment is a partial *)
(* function from settings to values, and a process refuses to start when   *)
(* one value is out of bounds or two of them do not go together.           *)
(*                                                                         *)
(* Units: milliseconds, and for sizes the unit its table names.  A setting *)
(* that is a text the loader validates is Valid: 1 stands for a text that  *)
(* passes the validation and 0 for one that does not.                      *)
(***************************************************************************)
EXTENDS Integers, TLC

Second == 1000
Minute == 60 * Second
Hour   == 60 * Minute
Day    == 24 * Hour

(* The bound of a setting that the code does not bound from above. *)
Unlimited == 2000000000

Range_(lo, hi, def) == [lo |-> lo, hi |-> hi, def |-> def]
Valid == Range_(1, 1, 1)
Flag  == Range_(0, 1, 0)

(* What a process reads: the environment's value, or the default. *)
read(table, env) ==
  [s \in DOMAIN table |-> IF s \in DOMAIN env THEN env[s] ELSE table[s].def]

InBounds(table, c) ==
  \A s \in DOMAIN table : /\ table[s].lo =< c[s]
                          /\ c[s] =< table[s].hi

(* A refused environment: nothing was loaded. *)
Refused == << >>

(* The loader of a table with its cross checks: the settings, or Refused. *)
Loaded(table, Checks(_), env) ==
  LET c == read(table, env)
  IN IF InBounds(table, c) /\ Checks(c) THEN c ELSE Refused

(* The values at and next to the bounds of a setting. *)
Edges(table, s) ==
  {table[s].lo - 1, table[s].lo, table[s].hi, table[s].hi + 1}
=============================================================================
