------------------------------ MODULE Retention ------------------------------
(***************************************************************************)
(* The history of the telemetry (services.retention.RetentionService and   *)
(* the three telemetry tables of db): raw samples, minutes rolled up from  *)
(* them, hours rolled up from the minutes, each pruned at its own age.     *)
(*                                                                         *)
(* Time is counted in samples.  A rollup row holds averages; here it is    *)
(* the set of the samples they were made from.                             *)
(***************************************************************************)
EXTENDS Naturals

CONSTANTS
  Minute,   \* samples in a minute, at least one
  Hour,     \* samples in an hour, a number of minutes
  Period,   \* PERIOD_S, in samples
  KeepRaw,  \* raw_days, in samples
  Keep1m,   \* rollup_1m_days
  Keep1h,   \* rollup_1h_days
  MaxTime   \* bound: the time of the last sample

VARIABLES
  now,
  telemetry,     \* the raw samples
  telemetry_1m,  \* the minutes that have a row, with what is in it
  telemetry_1h,  \* the hours
  pass,          \* how far the retention task is in its tick
  started,       \* the time that tick began, and its now
  recorded       \* history: every sample there ever was

tables == <<telemetry, telemetry_1m, telemetry_1h>>
vars == <<now, tables, pass, started, recorded>>

Time == 0..MaxTime
Start(size) == {t \in Time : t % size = 0}
Of(start, size) == start..start + size - 1
Before(t, age) == IF t > age THEN t - age ELSE 0

(* INSERT OR REPLACE ... SELECT ... GROUP BY: rows, a function from starts  *)
(* of buckets, gets a row for every start that some has something for.      *)
Replaced(rows, some) ==
  [b \in DOMAIN rows |-> IF some[b] # {} THEN some[b] ELSE rows[b]]

Init ==
  /\ now = 0 /\ telemetry = {} /\ recorded = {}
  /\ telemetry_1m = [m \in Start(Minute) |-> {}]
  /\ telemetry_1h = [h \in Start(Hour) |-> {}]
  /\ pass = "1m" /\ started = 0

(* write_telemetry, or a time with no sample, the link being down.  The task*)
(* keeps up: a tick takes less than a sample, and is never late.            *)
Sample ==
  /\ now < MaxTime /\ now' = now + 1
  /\ pass = "asleep" /\ now < started + Period
  /\ \E new \in {{}, {now}} :
       telemetry' = telemetry \cup new /\ recorded' = recorded \cup new
  /\ UNCHANGED <<telemetry_1m, telemetry_1h, pass, started>>

(* The service restarts, in less than a sample: the task ticks at once. *)
Restart ==
  /\ pass' = "1m" /\ started' = now
  /\ UNCHANGED <<now, tables, recorded>>

Wake ==
  /\ pass = "asleep" /\ now = started + Period
  /\ pass' = "1m" /\ started' = now
  /\ UNCHANGED <<now, tables, recorded>>

Rollup1m ==
  LET window == {t \in telemetry : Before(started, Hour) <= t /\ t < Before(started, Minute)}
      some == [m \in Start(Minute) |-> window \cap Of(m, Minute)]
  IN  /\ pass = "1m" /\ pass' = "1h"
      /\ telemetry_1m' = Replaced(telemetry_1m, some)
      /\ UNCHANGED <<now, telemetry, telemetry_1h, started, recorded>>

Rollup1h ==
  LET window == {m \in Start(Minute) : Before(started, 2 * Hour) <= m /\ m < started}
      some == [h \in Start(Hour) |-> UNION {telemetry_1m[m] : m \in window \cap Of(h, Hour)}]
  IN  /\ pass = "1h" /\ pass' = "prune"
      /\ telemetry_1h' = Replaced(telemetry_1h, some)
      /\ UNCHANGED <<now, telemetry, telemetry_1m, started, recorded>>

Pruned(rows, age) == [b \in DOMAIN rows |-> IF b < Before(started, age) THEN {} ELSE rows[b]]
Prune ==
  /\ pass = "prune" /\ pass' = "asleep"
  /\ telemetry' = {t \in telemetry : t >= Before(started, KeepRaw)}
  /\ telemetry_1m' = Pruned(telemetry_1m, Keep1m)
  /\ telemetry_1h' = IF Keep1h > 0 THEN Pruned(telemetry_1h, Keep1h) ELSE telemetry_1h
  /\ UNCHANGED <<now, started, recorded>>

Next == Sample \/ Restart \/ Wake \/ Rollup1m \/ Rollup1h \/ Prune

Spec == Init /\ [][Next]_vars

-----------------------------------------------------------------------------
(* The row of an hour that no later tick will look at is made from every    *)
(* sample of that hour, unless it is so old that it was pruned.             *)
HourlyRowIsWhole ==
  \A h \in Start(Hour) :
    telemetry_1h[h] # {} /\ h + Hour <= Before(started, 2 * Hour) =>
      telemetry_1h[h] = recorded \cap Of(h, Hour)
=============================================================================
