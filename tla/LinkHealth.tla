----------------------------- MODULE LinkHealth -----------------------------
(***************************************************************************)
(* What a poller promises the readers of its CommsHealth, who may look at  *)
(* it at any time, in the middle of a poll too: a failed sample shows at   *)
(* once, a good one is never taken for a loss, and a lost link stays lost  *)
(* until a sample is good.  Poller implements it; AtsLink builds on it.    *)
(***************************************************************************)
VARIABLES
  comms,  \* CommsHealth.state
  failing \* consecutive_failures is not 0

vars == <<comms, failing>>

Init == comms = "healthy" /\ failing = FALSE

Good == failing' = FALSE /\ comms' \in {"healthy", "degraded"}

Bad ==
  /\ failing' = TRUE
  /\ comms' \in IF comms = "lost" THEN {"lost"} ELSE {"degraded", "lost"}

(* The watchdog heard nothing good for too long. *)
Lose == comms # "lost" /\ comms' = "lost" /\ failing' = TRUE

Next == Good \/ Bad \/ Lose

Spec == Init /\ [][Next]_vars
=============================================================================
