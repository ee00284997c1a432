---------------------------- MODULE CommandPath ----------------------------
(***************************************************************************)
(* The path a maintained command takes through the ATS-Pi companion        *)
(* service: Modbus connections (server.ConnectionTracker) -> mode gate     *)
(* (RegisterStore.can_write/write_register) -> one dispatch task per       *)
(* command (__main__._dispatch_command) -> the ADAM relay, read back by    *)
(* the sampling loop; and the comms-loss watchdog (safety.SafetyWatchdog)  *)
(* that must take the command back when its commander falls silent.        *)
(*                                                                         *)
(* One asyncio loop runs everything, so a step is what runs between two    *)
(* awaits.  Pulsed commands, the fault word and the driver's reconnects    *)
(* are AdamOutputs' subject; here a pulsed write only speaks.              *)
(***************************************************************************)
EXTENDS Naturals, FiniteSets, Functions

CONSTANTS
  Conn,         \* identities a Modbus TCP connection can have
  GenWatch,     \* those that write commands; the others only read
  NoConn,       \* ConnectionTracker._commander is None
  AssumedModes, \* io.adam.assumed_mode as the operator may configure it
  Timeout,      \* TIMEOUT_S in units of CHECK_INTERVAL_S
  MaxTries,     \* ADAM_RETRIES + 1 attempts of one Modbus request
  Slot          \* bound: dispatch tasks that can be alive at once

ASSUME ConnAssumption    == GenWatch \subseteq Conn /\ NoConn \notin Conn
ASSUME ModeAssumption    == AssumedModes \subseteq {"auto", "manual", "test", "unknown"}
ASSUME TimeoutAssumption == Timeout \in Nat
ASSUME TriesAssumption   == MaxTries \in Nat \ {0}

VARIABLES
  commander,  \* the authoritative connection, or NoConn
  hung,       \* its peer has gone without closing: it sends nothing more
  silence,    \* checks since _last_read_monotonic, saturating past Timeout
  gone,       \* SafetyWatchdog._commander_gone
  released,   \* SafetyWatchdog._released
  wd,         \* where the watchdog coroutine is: asleep, or writing a relay
  wdTries,    \* attempts left of the write it awaits
  sampler,    \* where the sampling loop is
  seen,       \* coils it has read and not yet applied
  atsMode,    \* snapshot.ats_mode
  assumed,    \* the configured mode of this process, which every sample reports
  readBack,   \* snapshot.cmd_inhibit_active, cmd_force_transfer_active
  tasks,      \* dispatch tasks in flight: the write each slot's task awaits
  relay,      \* the physical relays
  asked       \* history: relays this process has accepted an assert for

trackerVars == <<commander, hung, silence, gone, released>>
wdVars      == <<wd, wdTries>>
sampleVars  == <<sampler, seen, atsMode, assumed>>
vars == <<trackerVars, wdVars, sampleVars, readBack, tasks, relay, asked>>

Maintained == {"inhibit", "force_transfer"}
AllOff     == [d \in Maintained |-> FALSE]
Intent     == [do : Maintained, on : BOOLEAN, tries : 1 .. MaxTries]
NoTask     == [do |-> "none", on |-> FALSE, tries |-> 0]
NoTasks    == [s \in Slot |-> NoTask]
Idle       == {s \in Slot : tasks[s] = NoTask}
Busy       == Slot \ Idle

(* The modes a maintained command is permitted in. *)
AllowedModes(d) == IF d = "inhibit" THEN {"auto", "manual"} ELSE {"auto"}

(* One holding-register write: a value for each maintained register it      *)
(* covers (none if it only covers pulsed registers).                        *)
Blocks == UNION {[ds -> {"on", "off", "bad"}] : ds \in SUBSET Maintained}

(* The sampling loop starts with a one-shot release of every relay. *)
Resetting(d) == IF d = "inhibit" THEN "reset_inhibit" ELSE "reset_force_transfer"
PastReset    == sampler \in {"read", "apply"}

Init ==
  /\ commander = NoConn /\ hung = FALSE /\ silence = 0 /\ gone = FALSE /\ released = FALSE
  /\ wd = "sleep" /\ wdTries = MaxTries
  /\ sampler = Resetting("force_transfer") /\ seen = AllOff /\ atsMode = "unknown"
  /\ assumed \in AssumedModes
  /\ readBack = AllOff /\ tasks = NoTasks /\ asked = {}
  /\ relay \in [Maintained -> BOOLEAN]

-----------------------------------------------------------------------------
(* Requests. *)

NoteModbusRead == silence' = 0 /\ gone' = FALSE /\ released' = FALSE

(* ConnectionTracker.note_request for anything but a command write. *)
NoteRead_anyoneRearms(c) == NoteModbusRead /\ UNCHANGED <<commander, hung>>
NoteRead(c) ==
  /\ IF commander \in {NoConn, c}
       THEN NoteModbusRead
       ELSE UNCHANGED <<silence, gone, released>>
  /\ UNCHANGED <<commander, hung>>

Speaks(c) == c = commander => ~hung

Read(c) ==
  /\ Speaks(c)
  /\ NoteRead(c)
  /\ UNCHANGED <<wdVars, sampleVars, readBack, tasks, relay, asked>>

(* A write is refused as a whole if one register is not permitted. *)
CanWrite(block) == \A d \in DOMAIN block : atsMode \in AllowedModes(d)

Accepted(block) == {d \in DOMAIN block : CanWrite(block) /\ block[d] # "bad"}

(* A command write makes its connection the commander even when it is       *)
(* refused; each register of an accepted one becomes a dispatch task.       *)
WriteCommand(c, block) ==
  /\ Speaks(c)
  /\ commander' = c /\ hung' = FALSE
  /\ NoteModbusRead
  /\ \E slot \in Injection(Accepted(block), Idle) :
       tasks' = [s \in Slot |->
         IF \E d \in Accepted(block) : slot[d] = s
           THEN LET d == CHOOSE d \in Accepted(block) : slot[d] = s
                IN  [do |-> d, on |-> block[d] = "on", tries |-> MaxTries]
           ELSE tasks[s]]
  /\ asked' = asked \cup {d \in Accepted(block) : block[d] = "on"}
  /\ UNCHANGED <<wdVars, sampleVars, readBack, relay>>

(* A closed connection; a later one of the same name is a fresh handler. *)
Disconnect(c) ==
  /\ c = commander
  /\ commander' = NoConn /\ hung' = FALSE
  /\ gone' = TRUE
  /\ UNCHANGED <<silence, released, wdVars, sampleVars, readBack, tasks, relay, asked>>

(* The commander's peer loses power or its network: nothing closes. *)
Hang ==
  /\ commander # NoConn
  /\ hung' = TRUE
  /\ UNCHANGED <<commander, silence, gone, released, wdVars, sampleVars, readBack, tasks, relay, asked>>

-----------------------------------------------------------------------------
(* One request to the ADAM is up to MaxTries attempts; the client's lock is *)
(* held for one attempt and given up in between.  A timed-out attempt may   *)
(* have reached the relay.                                                  *)

Lands(d, on) == relay' = [relay EXCEPT ![d] = on]

Finished(s) == tasks' = [tasks EXCEPT ![s] = NoTask]

DispatchAck(s) ==
  /\ Lands(tasks[s].do, tasks[s].on)
  /\ Finished(s)
  /\ UNCHANGED <<trackerVars, wdVars, sampleVars, readBack, asked>>

DispatchTimeout(s) ==
  /\ Lands(tasks[s].do, tasks[s].on) \/ UNCHANGED relay
  /\ IF tasks[s].tries > 1
       THEN tasks' = [tasks EXCEPT ![s].tries = @ - 1]
       ELSE Finished(s)
  /\ UNCHANGED <<trackerVars, wdVars, sampleVars, readBack, asked>>

(* Unreachable, refused by the ADAM, or refused by the F1 gate. *)
DispatchError(s) ==
  /\ Finished(s)
  /\ UNCHANGED <<trackerVars, wdVars, sampleVars, readBack, relay, asked>>

-----------------------------------------------------------------------------
(* SafetyWatchdog.run. *)

(* CHECK_INTERVAL_S goes by while the watchdog awaits a write ... *)
Elapse == silence' = IF silence > Timeout THEN silence ELSE silence + 1

TimePasses ==
  /\ wd # "sleep"
  /\ Elapse
  /\ UNCHANGED <<commander, hung, gone, released, wdVars, sampleVars, readBack, tasks, relay, asked>>

(* ... or while it sleeps, and then it checks. *)
WatchdogCheck ==
  /\ wd = "sleep"
  /\ Elapse
  /\ IF (silence' > Timeout \/ gone) /\ ~released
       THEN wd' = "inhibit" /\ readBack' = AllOff
       ELSE UNCHANGED <<wd, readBack>>
  /\ UNCHANGED <<commander, hung, gone, released, wdTries, sampleVars, tasks, relay, asked>>

(* drive_outputs(inhibit=False, force_transfer=False) writes them in turn. *)
WatchdogAck(d) ==
  /\ wd = d
  /\ Lands(d, FALSE)
  /\ wdTries' = MaxTries
  /\ IF d = "inhibit"
       THEN wd' = "force_transfer" /\ UNCHANGED released
       ELSE wd' = "sleep" /\ released' = TRUE
  /\ UNCHANGED <<commander, hung, silence, gone, sampleVars, readBack, tasks, asked>>

(* A failed write ends the release unlatched: the next check starts over. *)
GiveUp == wd' = "sleep" /\ wdTries' = MaxTries /\ UNCHANGED released

WatchdogTimeout ==
  /\ wd # "sleep"
  /\ Lands(wd, FALSE) \/ UNCHANGED relay
  /\ IF wdTries > 1
       THEN wdTries' = wdTries - 1 /\ UNCHANGED <<wd, released>>
       ELSE GiveUp
  /\ UNCHANGED <<commander, hung, silence, gone, sampleVars, readBack, tasks, asked>>

WatchdogError ==
  /\ wd # "sleep"
  /\ GiveUp
  /\ UNCHANGED <<commander, hung, silence, gone, sampleVars, readBack, tasks, relay, asked>>

-----------------------------------------------------------------------------
(* _sampling_loop.  A failed read leaves the loop where it is.  *)

(* release_all_outputs, once per process, before anything is read. *)
ResetAck_forceOnly(d) ==
  /\ sampler = Resetting(d)
  /\ Lands(d, FALSE)
  /\ sampler' = "read"
  /\ UNCHANGED <<trackerVars, wdVars, seen, atsMode, assumed, readBack, tasks, asked>>
ResetAck(d) ==
  /\ sampler = Resetting(d)
  /\ Lands(d, FALSE)
  /\ sampler' = IF d = "force_transfer" THEN Resetting("inhibit") ELSE "read"
  /\ UNCHANGED <<trackerVars, wdVars, seen, atsMode, assumed, readBack, tasks, asked>>

ResetFail(d) ==
  /\ sampler = Resetting(d)
  /\ Lands(d, FALSE) \/ UNCHANGED relay
  /\ sampler' = Resetting("force_transfer")
  /\ UNCHANGED <<trackerVars, wdVars, seen, atsMode, assumed, readBack, tasks, asked>>

(* The coils as the ADAM answers; applied when the coroutine runs again. *)
SampleRead ==
  /\ sampler = "read"
  /\ seen' = relay
  /\ sampler' = "apply"
  /\ UNCHANGED <<trackerVars, wdVars, atsMode, assumed, readBack, tasks, relay, asked>>

SampleApply_inputsOnly ==
  /\ sampler = "apply"
  /\ atsMode' = assumed
  /\ sampler' = "read" /\ seen' = AllOff
  /\ UNCHANGED <<trackerVars, wdVars, assumed, readBack, tasks, relay, asked>>
SampleApply ==
  /\ sampler = "apply"
  /\ atsMode' = assumed
  /\ readBack' = seen
  /\ sampler' = "read" /\ seen' = AllOff
  /\ UNCHANGED <<trackerVars, wdVars, assumed, tasks, relay, asked>>

(* The process dies and systemd starts another.  Relays keep their state,   *)
(* unless the ADAM's own host watchdog drops them in between.               *)
Restart ==
  /\ commander' = NoConn /\ hung' = FALSE /\ silence' = 0 /\ gone' = FALSE /\ released' = FALSE
  /\ wd' = "sleep" /\ wdTries' = MaxTries
  /\ sampler' = Resetting("force_transfer") /\ seen' = AllOff /\ atsMode' = "unknown"
  /\ assumed' \in AssumedModes
  /\ readBack' = AllOff /\ tasks' = NoTasks /\ asked' = {}
  /\ relay' \in {relay, AllOff}

-----------------------------------------------------------------------------
Dispatch(s) == s \in Busy /\ (DispatchAck(s) \/ DispatchTimeout(s) \/ DispatchError(s))

Next ==
  \/ \E c \in Conn : Read(c)
  \/ \E c \in GenWatch, block \in Blocks : WriteCommand(c, block)
  \/ \E c \in Conn : Disconnect(c)
  \/ Hang
  \/ \E s \in Busy : DispatchAck(s)
  \/ \E s \in Busy : DispatchTimeout(s)
  \/ \E s \in Busy : DispatchError(s)
  \/ TimePasses \/ WatchdogCheck \/ WatchdogTimeout \/ WatchdogError
  \/ \E d \in Maintained : WatchdogAck(d)
  \/ \E d \in Maintained : ResetAck(d)
  \/ \E d \in Maintained : ResetFail(d)
  \/ SampleRead \/ SampleApply
  \/ Restart

(* The loop runs whatever is ready, and time passes.  An ADAM that answers  *)
(* again and again eventually acknowledges each write: SF for the writes    *)
(* that are retried for ever (the watchdog's, the startup release).         *)
Fairness ==
  /\ WF_vars(WatchdogCheck)
  /\ \A d \in Maintained : SF_vars(WatchdogAck(d)) /\ SF_vars(ResetAck(d))
  /\ WF_vars(SampleRead)
  /\ WF_vars(SampleApply)
  /\ \A s \in Slot : WF_vars(Dispatch(s))

Spec     == Init /\ [][Next]_vars
FairSpec == Spec /\ Fairness

-----------------------------------------------------------------------------
(* Properties. *)

TypeOK ==
  /\ commander \in Conn \cup {NoConn} /\ hung \in BOOLEAN
  /\ silence \in 0 .. Timeout + 1
  /\ gone \in BOOLEAN /\ released \in BOOLEAN
  /\ wd \in Maintained \cup {"sleep"}
  /\ wdTries \in 1 .. MaxTries
  /\ sampler \in {"reset_force_transfer", "reset_inhibit", "read", "apply"}
  /\ assumed \in AssumedModes
  /\ atsMode \in {"unknown", assumed}
  /\ seen \in [Maintained -> BOOLEAN]
  /\ readBack \in [Maintained -> BOOLEAN]
  /\ relay \in [Maintained -> BOOLEAN]
  /\ tasks \in [Slot -> Intent \cup {NoTask}]
  /\ asked \subseteq Maintained

(* No command reaches the driver before the startup release of the relays   *)
(* is done: nothing gates on that release, only on a mode that stays        *)
(* "unknown" until the first sample after it.                               *)
CommandsWaitForReset == ~PastReset => tasks = NoTasks /\ asked = {}

(* After the startup release, a relay that is on, or reads back as on, was  *)
(* commanded in this process's life, through whatever crash and stale       *)
(* coil read there was: a restarted ATS-Pi comes up with no command         *)
(* asserted and none reappears (ICD 9.3).                                   *)
NoInheritedCommand ==
  PastReset => \A d \in Maintained :
    (relay[d] \/ seen[d] \/ readBack[d]) => d \in asked

(* A relay is never on in a mode that forbids its command, not even one     *)
(* left on by a process configured with another mode (ICD 6).               *)
ModePolicy ==
  PastReset => \A d \in Maintained : relay[d] => assumed \in AllowedModes(d)

(* What ICD 6 and 9.3 promise of the relays, whoever commands: nothing      *)
(* before the startup release, nothing inherited, nothing its mode forbids. *)
RelaySafety ==
  TypeOK /\ CommandsWaitForReset /\ NoInheritedCommand /\ ModePolicy

(* The watchdog calls a release done only when its last write has opened    *)
(* the relay, never after a write that failed.                              *)
LatchedOnlyWhenOpen ==
  [][~released /\ released' => ~relay'["force_transfer"]]_vars

(* A commander that hangs for good, with no dispatch or release under way,  *)
(* loses its commands: whatever other connections read, every maintained    *)
(* relay opens and stays open (ICD 8.3).                                    *)
Unlatched == wd = "sleep" /\ tasks = NoTasks /\ ~released
HungCommanderIsReleased == (Unlatched /\ []hung) ~> [](relay = AllOff)

(* The read-back registers end up showing what the relays are, although     *)
(* the watchdog clears them on its own and an old coil read may come late.  *)
ReadBackFollowsRelay ==
  \A d \in Maintained : <>[]PastReset =>
    /\ <>[]relay[d] => []<>readBack[d]
    /\ <>[](~relay[d]) => <>[](~readBack[d])

(* "A drop of the commanding connection triggers an immediate release"      *)
(* (ConnectionTracker): a relay that was on when its commander dropped,     *)
(* with no write under way, opens unless somebody takes command - whoever   *)
(* else reads.                                                              *)
DropReleases ==
  \A d \in Maintained :
    (gone /\ ~released /\ wd = "sleep" /\ tasks = NoTasks /\ relay[d])
      ~> (~relay[d] \/ commander # NoConn)

(* ICD 8.3: with no read from GenWatch for the timeout, every maintained    *)
(* output is released.                                                      *)
SilenceReleases ==
  \A d \in Maintained : (silence > Timeout /\ relay[d]) ~> (~relay[d] \/ silence = 0)
=============================================================================
