--------------------------- MODULE MCRemoteControl --------------------------
(***************************************************************************)
(* The instance of RemoteControl that TLC checks: the views of the two     *)
(* devices that decide a gate one way or the other.                        *)
(***************************************************************************)
EXTENDS RemoteControl

Up == [comms |-> "healthy", fresh |-> TRUE, auto |-> TRUE, engine |-> "stopped", alarm |-> TRUE]

MCH100Views == {Up, [Up EXCEPT !.comms = "lost"]}

Good == [comms |-> "healthy", trusted |-> TRUE, fault |-> FALSE, normal |-> TRUE]

MCAtsViews == {Good, [Good EXCEPT !.comms = "lost", !.trusted = FALSE]}
=============================================================================
