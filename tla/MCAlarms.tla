------------------------------ MODULE MCAlarms ------------------------------
(***************************************************************************)
(* The instance of Alarms that TLC checks: a debounced code that is hidden *)
(* while the engine cools down, a plain code and one range alarm.          *)
(***************************************************************************)
EXTENDS Alarms

MCMinPoll == [c \in Code |-> IF c = "PHASE_ROTATION" THEN 2 ELSE 1]
MCSuppress == [c \in Code |-> IF c = "PHASE_ROTATION" THEN {"cooling"} ELSE {}]
=============================================================================
