------------------------------ MODULE AtsLink ------------------------------
(***************************************************************************)
(* GenWatch's view of the ATS-Pi (services.ats.AtsService): every poll     *)
(* ends in on_poll, which diffs what was read with the previous snapshot   *)
(* and tells the operator; is_authoritative, asked at any time, says       *)
(* whether the position may be shown and commands sent.                    *)
(*                                                                         *)
(* The poller appears as the health it promises (LinkHealth), its prime    *)
(* poll as two batches, because on_poll runs after the second with what    *)
(* the first has read.  The snapshot and the poller share one CommsHealth  *)
(* object, so the health of the snapshot is always the current one.        *)
(*                                                                         *)
(* Of the registers there are a position fault, the read-back of one       *)
(* maintained command and the unit id, which stands for the ICD version    *)
(* as well.                                                                *)
(***************************************************************************)
CONSTANTS
  Unit,    \* devices that may answer at the ATS-Pi's address
  Expected \* the one that should: ats.expected_unit_id, EXPECTED_ICD_MAJOR

ASSUME UnitAssumption == Expected \in Unit /\ "none" \notin Unit

VARIABLES
  comms, failing, \* the poller's CommsHealth (LinkHealth)
  poll,      \* the batch the prime poll awaits; "seed" during start()
  core,      \* what its first batch has read of the faults
  snap,      \* AtsService.snap
  echo,      \* _cmd_write_monotonic: values written in the last 10 s
  cmd,       \* the command write under way
  row,       \* the fault's row in the database's active alarms
  acked,     \* history: an operator has deleted that row since it was raised
  toldCmd,   \* what the operator was last told of the command
  ats,       \* environment: the ATS-Pi that answers
  link       \* environment: reads succeed, or some do

Link == INSTANCE LinkHealth

linkVars == <<comms, failing>>
tellVars == <<row, acked, toldCmd>>
envVars  == <<ats, link>>
vars == <<linkVars, poll, core, snap, echo, cmd, tellVars, envVars>>

Level == {"on", "off"}

NoSnapshot ==
  [fault |-> "clear", readBack |-> "off", unit |-> "none", based |-> FALSE, polled |-> FALSE]

Device == [fault : {"clear", "set"}, readBack : Level, unit : Unit]

Started ==
  /\ Link!Init
  /\ poll = "seed" /\ core = "missed"
  /\ snap = NoSnapshot /\ echo = {} /\ cmd = "none"
  /\ toldCmd = "nothing"

Init == Started /\ row = FALSE /\ acked = FALSE /\ ats \in Device /\ link \in {"up", "bad"}

Authoritative_unlessLost ==
  comms # "lost" /\ snap.based /\ snap.unit = Expected /\ snap.fault = "clear"
Authoritative_faultBlind == comms = "healthy" /\ snap.based /\ snap.unit = Expected
Authoritative ==
  comms = "healthy" /\ snap.based /\ snap.unit = Expected /\ snap.fault = "clear"

-----------------------------------------------------------------------------
(* _update, with what the poll has read; a value that was missed stays in   *)
(* the image until it is evicted, and the fault word reads as 0 then.       *)

Faults_sticky(read) == IF read = "missed" \/ snap.fault = "set" THEN {snap.fault} ELSE {read}
Faults(read) == IF read = "missed" THEN {snap.fault, "clear"} ELSE {read}

KeptOr(read, old) == IF read = "missed" THEN old ELSE read

UnitSeen_once(read) == IF snap.unit # "none" THEN snap.unit ELSE KeptOr(read, snap.unit)
UnitSeen(read) == KeptOr(read, snap.unit)

(* Alarm rows follow the difference of two snapshots: a fault that stays is *)
(* not raised again.                                                        *)
Raises(fault) == fault = "set" /\ snap.fault = "clear"
Clears(fault) == fault = "clear" /\ snap.fault = "set"

NoteFault_fromBaseline(fault) ==
  /\ row' = ((row \/ (Raises(fault) /\ snap.polled)) /\ ~Clears(fault))
  /\ acked' = (acked /\ ~Raises(fault) /\ ~Clears(fault))
NoteFault(fault) ==
  /\ row' = ((row \/ Raises(fault)) /\ ~Clears(fault))
  /\ acked' = (acked /\ ~Raises(fault) /\ ~Clears(fault))

(* An edge of the read-back that is not the echo of a write of ours is      *)
(* reported, unless there is no snapshot to compare with.                   *)
NoteReadBack_risingOnly(level) ==
  toldCmd' = IF snap.polled /\ level = "on" /\ snap.readBack = "off" /\ level \notin echo
             THEN level ELSE toldCmd
NoteReadBack(level) ==
  toldCmd' = IF snap.polled /\ level # snap.readBack /\ level \notin echo THEN level
             ELSE toldCmd

Update(tier, faultRead, levelRead, unitRead) ==
  \E fault \in IF tier = "prime" THEN Faults(faultRead) ELSE {snap.fault} :
    LET level == KeptOr(levelRead, snap.readBack)
    IN  /\ NoteFault(fault) /\ NoteReadBack(level)
        /\ snap' = [fault |-> fault, readBack |-> level, unit |-> UnitSeen(unitRead),
                    based |-> snap.based \/ tier = "base", polled |-> TRUE]

-----------------------------------------------------------------------------
(* The polls.  A batch is read whole, without the register in question, or  *)
(* not at all.                                                              *)

Outcomes == IF link = "up" THEN {"whole"} ELSE {"whole", "part", "none"}

Sampled(outcome) == IF outcome = "none" THEN Link!Bad ELSE Link!Good

Read(outcome, value) == IF outcome = "whole" THEN value ELSE "missed"

CoreSample ==
  /\ poll = "core"
  /\ \E outcome \in Outcomes : Sampled(outcome) /\ core' = Read(outcome, ats.fault)
  /\ poll' = "read-back"
  /\ UNCHANGED <<snap, echo, cmd, tellVars, envVars>>

ReadBackSample ==
  /\ poll = "read-back"
  /\ \E outcome \in Outcomes :
       /\ Sampled(outcome)
       /\ Update("prime", core, Read(outcome, ats.readBack), "missed")
  /\ poll' = "core" /\ core' = "missed"
  /\ UNCHANGED <<echo, cmd, envVars>>

(* The seed poll of start() is a base poll too: the loops begin after it. *)
BasePoll ==
  /\ \E outcome \in Outcomes :
       /\ Sampled(outcome)
       /\ Update("base", "missed", "missed", Read(outcome, ats.unit))
  /\ poll' = IF poll = "seed" THEN "core" ELSE poll
  /\ UNCHANGED <<core, echo, cmd, envVars>>

SeedTimesOut ==
  /\ poll = "seed" /\ poll' = "core"
  /\ UNCHANGED <<linkVars, core, snap, echo, cmd, tellVars, envVars>>

(* A base poll has several batches: this is one before the last. *)
BaseSample ==
  /\ \E outcome \in Outcomes : Sampled(outcome)
  /\ UNCHANGED <<poll, core, snap, echo, cmd, tellVars, envVars>>

Watchdog ==
  /\ poll # "seed" /\ Link!Lose
  /\ UNCHANGED <<poll, core, snap, echo, cmd, tellVars, envVars>>

-----------------------------------------------------------------------------
(* Commands (AtsControlService.execute): an assert needs authority, a       *)
(* release only a link.                                                     *)

Command(level) ==
  /\ cmd = "none" /\ comms # "lost"
  /\ level = "on" => Authoritative
  /\ cmd' = level
  /\ UNCHANGED <<linkVars, poll, core, snap, echo, tellVars, envVars>>

Drives(level) == ats' = [ats EXCEPT !.readBack = level]

Answered ==
  /\ cmd # "none" /\ cmd' = "none"
  /\ Drives(cmd)
  /\ echo' = echo \cup {cmd} /\ toldCmd' = cmd
  /\ UNCHANGED <<linkVars, poll, core, snap, row, acked, link>>

(* The attempt may have landed; another may follow. *)
Unanswered ==
  /\ cmd # "none"
  /\ Drives(cmd) \/ UNCHANGED ats
  /\ \/ UNCHANGED <<cmd, toldCmd>>
     \/ cmd' = "none" /\ toldCmd' = "nothing"
  /\ UNCHANGED <<linkVars, poll, core, snap, echo, row, acked, link>>

EchoExpires(level) ==
  /\ level \in echo /\ echo' = echo \ {level}
  /\ UNCHANGED <<linkVars, poll, core, snap, cmd, tellVars, envVars>>

(* ack_alarm of api.events: its write goes to the generator's controller,   *)
(* and the row is deleted here whoever had raised it.                       *)
Acknowledge ==
  /\ row /\ row' = FALSE /\ acked' = TRUE
  /\ UNCHANGED <<linkVars, poll, core, snap, echo, cmd, toldCmd, envVars>>

-----------------------------------------------------------------------------
(* The environment, and GenWatch's restarts. *)

LinkChanges ==
  /\ link' \in {"up", "bad"}
  /\ UNCHANGED <<linkVars, poll, core, snap, echo, cmd, tellVars, ats>>

FaultChanges ==
  /\ ats' = [ats EXCEPT !.fault = IF @ = "set" THEN "clear" ELSE "set"]
  /\ UNCHANGED <<linkVars, poll, core, snap, echo, cmd, tellVars, link>>

UnitChanges ==
  /\ \E u \in Unit : ats' = [ats EXCEPT !.unit = u]
  /\ UNCHANGED <<linkVars, poll, core, snap, echo, cmd, tellVars, link>>

(* The companion releases by itself when its commander's connection drops,  *)
(* after 30 s without a read (ICD 8.3) and when it restarts: at any moment, *)
(* the 10 s after a write of ours included.                                 *)
AutoRelease ==
  /\ Drives("off")
  /\ UNCHANGED <<linkVars, poll, core, snap, echo, cmd, tellVars, link>>

Restart ==
  /\ comms' = "healthy" /\ failing' = FALSE
  /\ poll' = "seed" /\ core' = "missed"
  /\ snap' = NoSnapshot /\ echo' = {} /\ cmd' = "none"
  /\ toldCmd' = "nothing"
  /\ UNCHANGED <<row, acked, ats, link>>

-----------------------------------------------------------------------------
Next ==
  \/ CoreSample \/ ReadBackSample \/ BasePoll \/ BaseSample \/ SeedTimesOut \/ Watchdog
  \/ (\E level \in Level : Command(level)) \/ Answered \/ Unanswered
  \/ \E level \in Level : EchoExpires(level)
  \/ Acknowledge \/ LinkChanges \/ FaultChanges \/ UnitChanges \/ AutoRelease \/ Restart

(* start() returns, the poller's loops run, and reads and writes end.  A     *)
(* base poll may change nothing: fairness is about those that do, the link  *)
(* being up.                                                                *)
Fairness ==
  /\ WF_vars(SeedTimesOut) /\ WF_vars(CoreSample) /\ WF_vars(ReadBackSample)
  /\ WF_vars(BasePoll /\ link = "up" /\ snap' # snap)
  /\ WF_vars((Answered \/ Unanswered) /\ cmd' = "none")

Spec     == Init /\ [][Next]_vars
FairSpec == Spec /\ Fairness

QuietSpec == Init /\ [][Next /\ cmd' = cmd /\ ats'.readBack = ats.readBack]_vars

-----------------------------------------------------------------------------
(* Properties. *)

TypeOK ==
  /\ comms \in {"healthy", "degraded", "lost"} /\ failing \in BOOLEAN
  /\ poll \in {"seed", "core", "read-back"}
  /\ core \in {"missed", "clear", "set"}
  /\ snap \in [fault : {"clear", "set"}, readBack : Level, unit : Unit \cup {"none"},
               based : BOOLEAN, polled : BOOLEAN]
  /\ echo \subseteq Level /\ cmd \in Level \cup {"none"}
  /\ row \in BOOLEAN /\ acked \in BOOLEAN
  /\ toldCmd \in Level \cup {"nothing"}
  /\ ats \in Device /\ link \in {"up", "bad"}

(* The position is not trusted, and no assert begins, between a failed      *)
(* batch and the next good one, even within the poll (ICD 10): the shared   *)
(* health object makes the loss of authority immediate.                     *)
NoAuthorityWhileFailing == Authoritative => ~failing

(* Authority is what it is taken for at every moment between two polls.     *)
AuthoritySafety == TypeOK /\ NoAuthorityWhileFailing

(* GenWatch stops being restarted. *)
Settled == <>[][~Restart]_vars

(* An ATS-Pi that goes on saying that its position is not to be trusted     *)
(* loses its authority, through whatever restarts and evictions.            *)
FaultEndsAuthority ==
  <>[](link = "up" /\ ats.fault = "set") /\ Settled => <>[]~Authoritative

(* One that answers at the address of another does so too, although its     *)
(* unit id is read by the slow polls only.                                  *)
WrongUnitLosesAuthority ==
  <>[](link = "up" /\ ats.unit # Expected) => <>[]~Authoritative

(* Authority comes back, and stays, with a healthy link to the right unit   *)
(* that reports no fault.                                                   *)
AuthorityReturns ==
  /\ <>[](link = "up" /\ comms = "healthy" /\ ats.fault = "clear" /\ ats.unit = Expected)
  /\ Settled
  => <>[]Authoritative

(* A fault that persists has its alarm, whether it came before, after or    *)
(* between GenWatch's restarts, evictions and link losses, unless somebody  *)
(* has acknowledged that alarm since it was last raised (on_poll).          *)
FaultIsRaised ==
  <>[](link = "up" /\ ats.fault = "set") /\ Settled => <>[](row \/ acked)

(* A command that the operator was told is on, and that the read-back has   *)
(* shown on, is not released by the ATS-Pi behind the operator's back, even *)
(* right after the assert: once the link is up, GenWatch tells of it (ICD   *)
(* 9.1), when no release of ours is recent enough to be taken for it.       *)
AutoReleaseIsTold ==
  <>[](link = "up" /\ ats.readBack = "off")
  => (toldCmd = "on" /\ snap.readBack = "on" /\ "off" \notin echo ~> toldCmd # "on")

-----------------------------------------------------------------------------
(* What the source says and the code does not do.                           *)

(* api/events.py: "a re-raise on the next poll is harmless".  The ATS fault *)
(* of an acknowledged alarm is not raised again while it stays.             *)
FaultStaysRaised ==
  <>[](link = "up" /\ ats.fault = "set") /\ Settled => <>[]row

(* ats.py: "an operator who asserted Inhibit ... must see that it dropped". *)
(* Off, on again and the companion's release, all within 10 s: the edge     *)
(* passes for the echo of the first write.                                  *)
EveryReleaseIsTold ==
  <>[](link = "up" /\ ats.readBack = "off")
  => (toldCmd = "on" /\ snap.readBack = "on" ~> toldCmd # "on")

(* ICD 9.1: loss of the ATS link raises a comms event.                      *)
(* The first snapshot has a CommsHealth of its own, which says healthy; the *)
(* others have the poller's, and its state is no news to them: a link that  *)
(* is lost time and again is not told of.                                   *)
NotesComms == ~snap.polled /\ snap'.polled /\ comms' # "healthy"

CommsIsAnnounced ==
  []<>(comms = "lost") /\ []<>(comms = "healthy") /\ Settled => []<><<NotesComms>>_vars

(* ats.py: "a command legitimately asserted before our restart would        *)
(* otherwise warn spuriously".  With no command from GenWatch and no change *)
(* of the read-back, there would be nothing to tell (QuietSpec).            *)
BootIsQuiet == toldCmd = "nothing"
=============================================================================
