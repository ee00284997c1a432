--------------------------- MODULE DurableCounter ---------------------------
(***************************************************************************)
(* What transfer_count_lifetime promises GenWatch (ICD 8.2): it is         *)
(* monotonically non-decreasing across reads, whatever crash or power cut  *)
(* falls in between, as long as the disk takes every save.  A count that   *)
(* no read has shown yet may be lost.                                      *)
(***************************************************************************)
EXTENDS Naturals

VARIABLES
  count,  \* the lifetime count
  served, \* the last count a read showed
  failed  \* a save has failed

vars == <<count, served, failed>>

Init == count = 0 /\ served = 0 /\ failed = FALSE

Increment == count' = count + 1 /\ UNCHANGED <<served, failed>>

Read == served' = count /\ UNCHANGED <<count, failed>>

Crash ==
  /\ count' \in (IF failed THEN 0 ELSE served) .. count
  /\ UNCHANGED <<served, failed>>

Fail == failed' = TRUE /\ UNCHANGED <<count, served>>

Next == Increment \/ Read \/ Crash \/ Fail

Spec == Init /\ [][Next]_vars
=============================================================================
