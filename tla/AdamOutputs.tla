---------------------------- MODULE AdamOutputs ----------------------------
(***************************************************************************)
(* How the ADAM driver drives its relays (IOAdamDriver.drive_outputs):     *)
(* the F1 gate on the module's hardware fail-safe, which every reconnect   *)
(* reads back while other tasks go on, the pulses and the tasks that end   *)
(* them, the stuck-relay check, and the OUTPUT_FAULT bit the dispatch      *)
(* tasks and the sampling loop publish (RegisterStore.set_output_fault).   *)
(*                                                                         *)
(* The story begins after the startup release of the relays, with the      *)
(* fail-safe verified or not.  Who may command what is CommandPath's.      *)
(***************************************************************************)
CONSTANTS
  Pulsed,    \* outputs driven for a moment: test, bypass_delay
  Held,      \* outputs driven until released: inhibit, force_transfer
  Required,  \* io.adam.require_hw_watchdog
  Task,      \* bound: dispatch and release tasks and reconnects of the
             \* sampling loop alive at once
  NoTask     \* an empty release slot

ASSUME OutputAssumption   == Pulsed \cap Held = {}
ASSUME RequiredAssumption == Required \in BOOLEAN
ASSUME TaskAssumption     == NoTask \notin Task

VARIABLES
  link,       \* IOAdamDriver._connected
  verified,   \* IOAdamDriver._hw_watchdog_ok
  relay,      \* the physical outputs
  commanded,  \* _commanded_do: the value last recorded for each
  settling,   \* outputs commanded less than OUTPUT_SETTLING_S ago
  task,       \* the dispatch and release tasks, the sampling loop's reconnect
  pulse,      \* _test_release_task, _bypass_release_task
  outputFault \* FAULT_OUTPUT

linkVars == <<link, verified>>
vars == <<linkVars, relay, commanded, settling, task, pulse, outputFault>>

Output   == Pulsed \cup Held
AllOff   == [d \in Output |-> FALSE]
Finished == [job |-> "none", at |-> "idle", do |-> "none", on |-> FALSE]

Job(t) == task[t].job
At(t)  == task[t].at
Do(t)  == task[t].do

(* _verify_hw_watchdog: what the module's registers say, FALSE also when    *)
(* they cannot be read, or the waiver.                                      *)
Verdicts == IF Required THEN BOOLEAN ELSE {TRUE}

Init ==
  /\ link = "up" /\ verified \in Verdicts
  /\ relay = AllOff /\ commanded = AllOff /\ settling = {}
  /\ task = [t \in Task |-> Finished] /\ pulse = [d \in Pulsed |-> NoTask]
  /\ outputFault = ~verified

Record(d, on) ==
  /\ commanded' = [commanded EXCEPT ![d] = on]
  /\ settling' = settling \cup {d}

Goes(t, where) == task' = [task EXCEPT ![t].at = where]

-----------------------------------------------------------------------------
(* The connection.  _ensure_connected writes at once on a live one; else it *)
(* closes the old client under every write that waits on it and connects.   *)
(* _connected is set as soon as the socket is open; the fail-safe is read   *)
(* back after that, and until it is, everyone goes by the old verdict.      *)

Ensure == IF link = "up" THEN "write" ELSE "connect"

Cut(u) == IF link = "down" /\ At(u) = "write" THEN [task[u] EXCEPT !.at = "lost"] ELSE task[u]

Starts(t, new) == task' = [u \in Task |-> IF u = t THEN new ELSE Cut(u)]

(* Connected: a command or a release writes, the sampling loop is back to   *)
(* its reads.                                                               *)
Resumes(t) ==
  task' = [task EXCEPT ![t] = IF Job(t) = "sample" THEN Finished ELSE [@ EXCEPT !.at = "write"]]

Connects(t) ==
  /\ At(t) = "connect"
  /\ link' = "up"
  /\ IF Required THEN Goes(t, "verify") ELSE Resumes(t)
  /\ UNCHANGED <<verified, relay, commanded, settling, pulse, outputFault>>

(* A task that is not connected, or cannot write: the command's reports it, *)
(* a release retries, the sampling loop has nothing this time.              *)
Fails(t) ==
  /\ IF Job(t) = "release" THEN Goes(t, "retry") ELSE task' = [task EXCEPT ![t] = Finished]
  /\ outputFault' = (Job(t) = "drive" \/ outputFault)
  /\ UNCHANGED <<commanded, settling, pulse>>

ConnectFails(t) ==
  /\ At(t) = "connect"
  /\ link' = "down"
  /\ Fails(t)
  /\ UNCHANGED <<verified, relay>>

(* The verdict is in.  A command that passed the gate writes whatever it    *)
(* says, unless the link was lost meanwhile.                                *)
Verifies(t) ==
  /\ At(t) = "verify"
  /\ link = "up"
  /\ verified' \in Verdicts
  /\ Resumes(t)
  /\ UNCHANGED <<link, relay, commanded, settling, pulse, outputFault>>

VerifiesTooLate(t) ==
  /\ At(t) = "verify"
  /\ link = "down"
  /\ verified' \in Verdicts
  /\ Fails(t)
  /\ UNCHANGED <<link, relay>>

-----------------------------------------------------------------------------
(* A command's task starts: drive_outputs up to its first await. *)

RefusedByGate_ifConnected(d, on) == link = "up" /\ ~verified /\ on
RefusedByGate(d, on) == ~verified /\ on

Begin(t, d, on) ==
  /\ Job(t) = "none"
  /\ d \in Pulsed => on
  /\ IF RefusedByGate(d, on) \/ (d \in Pulsed /\ pulse[d] # NoTask)
       THEN outputFault' = RefusedByGate(d, on) /\ UNCHANGED task
       ELSE /\ Starts(t, [job |-> "drive", at |-> Ensure, do |-> d, on |-> on])
            /\ UNCHANGED outputFault
  /\ UNCHANGED <<linkVars, relay, commanded, settling, pulse>>

-----------------------------------------------------------------------------
(* The write. *)

Lands(t) == relay' = [relay EXCEPT ![Do(t)] = task[t].on]

(* No answer, or the socket closed: the write may have landed all the same. *)
WriteUnanswered(t) ==
  /\ At(t) \in {"write", "lost"}
  /\ Lands(t) \/ UNCHANGED relay
  /\ link' = "down"
  /\ Fails(t)
  /\ UNCHANGED verified

(* The module answers with a Modbus error. *)
WriteRejected(t) ==
  /\ At(t) = "write"
  /\ Fails(t)
  /\ UNCHANGED <<linkVars, relay>>

-----------------------------------------------------------------------------
(* The write is acknowledged. *)

HeldDriven(t) ==
  /\ At(t) = "write" /\ Job(t) = "drive" /\ Do(t) \in Held
  /\ Lands(t)
  /\ Record(Do(t), task[t].on)
  /\ task' = [task EXCEPT ![t] = Finished]
  /\ outputFault' = FALSE
  /\ UNCHANGED <<linkVars, pulse>>

(* A pulse is on: its release task takes over. *)
PulseDriven_noTask(t) ==
  /\ At(t) = "write" /\ Job(t) = "drive" /\ Do(t) \in Pulsed
  /\ Lands(t)
  /\ Record(Do(t), TRUE)
  /\ task' = [task EXCEPT ![t] = IF pulse[Do(t)] = NoTask
                                   THEN [@ EXCEPT !.job = "release", !.at = "pulsing"]
                                   ELSE Finished]
  /\ pulse' = [pulse EXCEPT ![Do(t)] = t]
  /\ outputFault' = FALSE
  /\ UNCHANGED linkVars
PulseDriven(t) ==
  /\ At(t) = "write" /\ Job(t) = "drive" /\ Do(t) \in Pulsed
  /\ Lands(t)
  /\ Record(Do(t), TRUE)
  /\ task' = [task EXCEPT ![t].job = "release", ![t].at = "pulsing"]
  /\ pulse' = [pulse EXCEPT ![Do(t)] = t]
  /\ outputFault' = FALSE
  /\ UNCHANGED linkVars

(* _release: the window is over, off is recorded before it is written. *)
WindowElapses(t) ==
  /\ At(t) = "pulsing"
  /\ Record(Do(t), FALSE)
  /\ Starts(t, [task[t] EXCEPT !.at = Ensure, !.on = FALSE])
  /\ UNCHANGED <<linkVars, relay, pulse, outputFault>>

Retry_gaveUp(t) ==
  /\ At(t) = "retry"
  /\ task' = [task EXCEPT ![t] = Finished]
  /\ UNCHANGED <<linkVars, relay, commanded, settling, pulse, outputFault>>
Retry(t) ==
  /\ At(t) = "retry"
  /\ Starts(t, [task[t] EXCEPT !.at = Ensure])
  /\ UNCHANGED <<linkVars, relay, commanded, settling, pulse, outputFault>>

PulseReleased(t) ==
  /\ At(t) = "write" /\ Job(t) = "release"
  /\ Lands(t)
  /\ task' = [task EXCEPT ![t] = Finished]
  /\ pulse' = [pulse EXCEPT ![Do(t)] = IF @ = t THEN NoTask ELSE @]
  /\ UNCHANGED <<linkVars, commanded, settling, outputFault>>

-----------------------------------------------------------------------------
(* The sampling loop. *)

Reading == \A t \in Task : Job(t) # "sample"

SampleConnects(t) ==
  /\ Reading /\ link = "down" /\ Job(t) = "none"
  /\ Starts(t, [job |-> "sample", at |-> "connect", do |-> "none", on |-> FALSE])
  /\ UNCHANGED <<linkVars, relay, commanded, settling, pulse, outputFault>>

(* A read goes unanswered. *)
SampleFails ==
  /\ Reading
  /\ link' = "down"
  /\ UNCHANGED <<verified, relay, commanded, settling, task, pulse, outputFault>>

Consistent == \A d \in Output \ settling : relay[d] = commanded[d]

Sample_gateOnly ==
  /\ Reading /\ link = "up"
  /\ outputFault' = (~verified \/ outputFault)
  /\ UNCHANGED <<linkVars, relay, commanded, settling, task, pulse>>
Sample ==
  /\ Reading /\ link = "up"
  /\ outputFault' = (~verified \/ ~Consistent \/ outputFault)
  /\ UNCHANGED <<linkVars, relay, commanded, settling, task, pulse>>

Settle(d) ==
  /\ d \in settling
  /\ settling' = settling \ {d}
  /\ UNCHANGED <<linkVars, relay, commanded, task, pulse, outputFault>>

(* While nothing talks to it, the module's host watchdog may drop the       *)
(* relays, or somebody may power-cycle it.                                  *)
AdamResets ==
  /\ link = "down"
  /\ relay' = AllOff
  /\ UNCHANGED <<linkVars, commanded, settling, task, pulse, outputFault>>

-----------------------------------------------------------------------------
Steps(t) ==
  \/ Connects(t) \/ ConnectFails(t) \/ Verifies(t) \/ VerifiesTooLate(t)
  \/ WriteUnanswered(t) \/ WriteRejected(t)
  \/ HeldDriven(t) \/ PulseDriven(t)
  \/ WindowElapses(t) \/ Retry(t) \/ PulseReleased(t)

Next ==
  \/ \E t \in Task, d \in Output, on \in BOOLEAN : Begin(t, d, on)
  \/ \E t \in Task : SampleConnects(t) \/ Steps(t)
  \/ SampleFails \/ Sample
  \/ \E d \in Output : Settle(d)
  \/ AdamResets

(* Timers fire, the loop runs what is ready and every await on the module   *)
(* ends.  A module that is asked again and again accepts a connection, lets *)
(* its registers be read before the link is lost, and takes a write.        *)
Fairness ==
  /\ \A t \in Task : WF_vars(Steps(t)) /\ SF_vars(Connects(t)) /\ SF_vars(Verifies(t))
  /\ \A d \in Pulsed : SF_vars(\E t \in Task : Do(t) = d /\ PulseReleased(t))
  /\ WF_vars(Sample)
  /\ \A d \in Output : WF_vars(Settle(d))

Spec     == Init /\ [][Next]_vars
FairSpec == Spec /\ Fairness

-----------------------------------------------------------------------------
(* Properties. *)

Waiting      == {"connect", "verify", "write", "lost"}
HeldDrives   == [job : {"drive"}, at : Waiting, do : Held, on : BOOLEAN]
PulsedDrives == [job : {"drive"}, at : Waiting, do : Pulsed, on : {TRUE}]
Pulses       == [job : {"release"}, at : {"pulsing"}, do : Pulsed, on : {TRUE}]
Releases     == [job : {"release"}, at : Waiting \cup {"retry"}, do : Pulsed, on : {FALSE}]
Reconnects   == [job : {"sample"}, at : {"connect", "verify"}, do : {"none"}, on : {FALSE}]
Jobs == HeldDrives \cup PulsedDrives \cup Pulses \cup Releases \cup Reconnects \cup {Finished}

TypeOK ==
  /\ link \in {"up", "down"} /\ verified \in BOOLEAN
  /\ relay \in [Output -> BOOLEAN] /\ commanded \in [Output -> BOOLEAN]
  /\ settling \subseteq Output
  /\ task \in [Task -> Jobs]
  /\ pulse \in [Pulsed -> Task \cup {NoTask}]
  /\ outputFault \in BOOLEAN

(* A pulsed relay the driver turned on always has a task alive that will    *)
(* turn it off, even when two commands pulse it at once.                    *)
PulseHasRelease ==
  \A d \in Pulsed : commanded[d] =>
    \E t \in Task : Job(t) = "release" /\ At(t) = "pulsing" /\ Do(t) = d

(* What the driver's tasks may never do together: forget the end of a pulse. *)
OutputSafety == TypeOK /\ PulseHasRelease

(* A pulse that was acknowledged ends, through failed writes, reconnects    *)
(* and the pulses that race with it.                                        *)
PulseIsReleased ==
  \A t \in Task, d \in Pulsed : (At(t) = "pulsing" /\ Do(t) = d) ~> ~relay[d]

(* While the module is reached, an output that stays other than commanded   *)
(* keeps being reported, however often a command that succeeds clears the   *)
(* fault.                                                                   *)
StuckIsReported ==
  <>[](link = "up") =>
    \A d \in Output : <>[](relay[d] # commanded[d]) => []<>outputFault

(* A module found without its fail-safe for good is left alone: the asserts *)
(* still under way on the old verdict run out, and no relay goes on again.  *)
DisarmedIsLeftAlone ==
  <>[](~verified) => <>[][\A d \in Output : relay'[d] => relay[d]]_vars

(* "A pulsed relay (test, bypass) MUST drop when its window elapses"        *)
(* (PULSE_RELEASE_RETRY_S).                                                 *)
PulsedRelayDrops == \A d \in Pulsed : relay[d] ~> ~relay[d]

(* "never ASSERT an ATS output while the ADAM's hardware fail-safe is       *)
(* unverified" (drive_outputs).                                             *)
NoUnverifiedAssert ==
  [][\A d \in Output : relay'[d] /\ ~relay[d] => verified]_vars
=============================================================================
