------------------------------ MODULE IOUnits -------------------------------
(***************************************************************************)
(* The simple performance model (simple_ftl.c, and again in kv_ftl.c): a   *)
(* command keeps one I/O unit after the other busy, from the one its first *)
(* block belongs to.  A key-value command always starts at unit 0.         *)
(*                                                                         *)
(* Times are relative to the present, and a unit that became idle in the   *)
(* past counts as idle since now.                                          *)
(***************************************************************************)
EXTENDS Integers, FiniteSetsExt

CONSTANTS
    nr_io_units,    \* at least 1
    Latencies,  \* the settings of reads and writes [delay, time, trailing]
    MaxLen,     \* bound: length of a command, in I/O units
    MaxBusy     \* bound: commands are sent while no unit is busy for longer

ASSUME UnitsAssumption ==
    /\ nr_io_units \in Nat \ {0} /\ MaxLen \in Nat /\ MaxBusy \in Nat
    /\ Latencies \subseteq [delay : Nat, time : Nat, trailing : Nat]

Units == 0 .. nr_io_units - 1

VARIABLES
    io_unit_stat,   \* when each unit is idle
    promised        \* the latest target time of the commands since, and with,
                    \* the last one that is longer than a unit

unitVars == <<io_unit_stat, promised>>

InitUnits ==
    /\ io_unit_stat = [u \in Units |-> 0]
    /\ promised = 0

\* units a command of length n keeps busy, the same one again when it is longer
\* than all of them; a command without data takes one, too
rounds(n) == Max({n, 1})

\* the target time after i rounds
latest(u, i, t) == io_unit_stat[u] + t.delay + i * t.time

\* the last round in which a command of length n that starts at u visits x
last_round(u, n, x) == Max({i \in 1 .. rounds(n) : (u + i - 1) % nr_io_units = x} \cup {0})

\* when x is idle after the command: the trailing time is added in the first
\* rounds only
busy_until(u, n, t, x) ==
    LET i == last_round(u, n, x)
    IN  IF i = 0 THEN io_unit_stat[x]
        ELSE latest(u, i, t) + (IF i <= Min({nr_io_units, n}) THEN t.trailing ELSE 0)

\* a command that starts now at unit u
schedule_io_units(u, n, t) ==
    LET target == latest(u, rounds(n), t)
    IN  /\ \A x \in Units : io_unit_stat[x] <= MaxBusy
        /\ io_unit_stat' = [x \in Units |-> busy_until(u, n, t, x)]
        /\ promised' = IF n > 1 THEN target ELSE Max({promised, target})

\* mutant: the last unit is left out
schedule_flush_but_last == Max({io_unit_stat[u] : u \in Units \ {nr_io_units - 1}} \cup {0})

\* the target time of a flush
schedule_flush == Max({io_unit_stat[u] : u \in Units})

tick ==
    /\ io_unit_stat' = [u \in Units |-> Max({io_unit_stat[u] - 1, 0})]
    /\ promised' = Max({promised - 1, 0})

NextUnits ==
    \/ \E u \in Units, n \in 0 .. MaxLen, t \in Latencies : schedule_io_units(u, n, t)
    \/ tick

UnitsSpec == InitUnits /\ [][NextUnits]_unitVars

(***************************************************************************)
(* Properties.                                                             *)
(***************************************************************************)
\* a flush does not end before the last command that was longer than a unit, nor
\* before any command after it.  (More cannot be said: a long command sets the
\* times of the units behind its first, also back to an earlier time)
FlushCovers ==
    /\ io_unit_stat \in [Units -> Nat] /\ promised \in Nat
    /\ schedule_flush >= promised
=============================================================================
