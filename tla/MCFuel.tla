------------------------------- MODULE MCFuel -------------------------------
(***************************************************************************)
(* The instance of Fuel that TLC checks: two tiers whose bands overlap,    *)
(* settings that no check refuses (the critical line above the other, no   *)
(* hysteresis) and that turn the drop detector off, and the monitor off.   *)
(***************************************************************************)
EXTENDS Fuel

Usual == [enabled |-> TRUE, warn |-> 2, critical |-> 1, hysteresis |-> 2, drop |-> 2]

MCConfigs ==
  {Usual,
   [Usual EXCEPT !.critical = 3, !.hysteresis = 0, !.drop = 0],
   [Usual EXCEPT !.enabled = FALSE]}
=============================================================================
