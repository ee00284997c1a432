------------------------- MODULE CommandPath_proofs -------------------------
(***************************************************************************)
(* The command path's safety, for any number of connections and dispatch   *)
(* tasks, any timeout and any number of attempts.                          *)
(*                                                                         *)
(* None of the three properties is inductive: that no command precedes the *)
(* startup release rests on the mode staying "unknown" until the first     *)
(* sample; that no command is inherited rests on the order of the startup  *)
(* release and on every asserting task having been asked for.              *)
(***************************************************************************)
EXTENDS CommandPath, TLAPS

(* Until the startup release is done nothing has been sampled. *)
NothingSampled ==
  ~PastReset => atsMode = "unknown" /\ seen = AllOff /\ readBack = AllOff

(* The startup release opens force_transfer before it turns to inhibit. *)
HalfReset == sampler = "reset_inhibit" => ~relay["force_transfer"]

(* A task that asserts a relay was accepted in this process's life. *)
TasksAsked == \A s \in Busy : tasks[s].on => tasks[s].do \in asked

(* What was accepted was permitted in the configured mode. *)
AskedPermitted == \A d \in asked : assumed \in AllowedModes(d)

Inv ==
  /\ TypeOK
  /\ CommandsWaitForReset
  /\ NothingSampled
  /\ HalfReset
  /\ TasksAsked
  /\ AskedPermitted
  /\ NoInheritedCommand

(* A block is accepted register by register only as a whole, in a mode that *)
(* permits each of its registers.                                           *)
LEMMA AcceptedIsPermitted ==
  ASSUME NEW block \in Blocks, NEW d \in Accepted(block)
  PROVE  d \in Maintained /\ d \in DOMAIN block /\ atsMode \in AllowedModes(d)
BY DEF Accepted, Blocks, CanWrite

(* Nothing is accepted while the mode is unknown. *)
LEMMA UnknownAcceptsNothing ==
  ASSUME NEW block \in Blocks, atsMode = "unknown"
  PROVE  Accepted(block) = {}
BY AcceptedIsPermitted DEF AllowedModes

(* A new task is one of the block's accepted commands, an old one stays.    *)
LEMMA NewTasks ==
  ASSUME TypeOK, NEW c \in GenWatch, NEW block \in Blocks, WriteCommand(c, block),
         NEW s \in Slot, tasks'[s] # tasks[s]
  PROVE  \E d \in Accepted(block) :
           tasks'[s] = [do |-> d, on |-> block[d] = "on", tries |-> MaxTries]
<1>1. PICK slot \in Injection(Accepted(block), Idle) :
        tasks' = [t \in Slot |->
          IF \E d \in Accepted(block) : slot[d] = t
            THEN LET d == CHOOSE d \in Accepted(block) : slot[d] = t
                 IN  [do |-> d, on |-> block[d] = "on", tries |-> MaxTries]
            ELSE tasks[t]]
  BY DEF WriteCommand
<1>2. \E d \in Accepted(block) : slot[d] = s
  BY <1>1 DEF TypeOK
<1> DEFINE e == CHOOSE d \in Accepted(block) : slot[d] = s
<1>3. e \in Accepted(block)
  BY <1>2
<1>4. tasks'[s] = [do |-> e, on |-> block[e] = "on", tries |-> MaxTries]
  BY <1>1, <1>2
<1> QED BY <1>3, <1>4

(* The initial states satisfy the invariant, whatever the relays are. *)
LEMMA InitInv == Init => Inv
<1> SUFFICES ASSUME Init PROVE Inv
  OBVIOUS
<1>1. TypeOK
  <2>1. AllOff \in [Maintained -> BOOLEAN] /\ NoTasks \in [Slot -> Intent \cup {NoTask}]
    BY DEF AllOff, NoTasks
  <2>2. 0 \in 0 .. Timeout + 1 /\ MaxTries \in 1 .. MaxTries
    BY TriesAssumption, TimeoutAssumption
  <2> QED BY <2>1, <2>2 DEF Init, TypeOK, Resetting
<1>2. ~PastReset
  BY DEF Init, PastReset, Resetting
<1>3. Busy = {}
  BY DEF Init, Busy, Idle, NoTasks
<1> QED
  BY <1>1, <1>2, <1>3
  DEF Init, Inv, CommandsWaitForReset, NothingSampled, HalfReset, TasksAsked,
      AskedPermitted, NoInheritedCommand, Resetting

(* What the ADAM does to one relay keeps the relays well typed, and opening *)
(* one asserts none.                                                        *)
LEMMA LandsTyped ==
  ASSUME relay \in [Maintained -> BOOLEAN], NEW d \in Maintained, NEW on \in BOOLEAN,
         Lands(d, on) \/ UNCHANGED relay
  PROVE  /\ relay' \in [Maintained -> BOOLEAN]
         /\ \A e \in Maintained : relay'[e] => relay[e] \/ (e = d /\ on)
BY DEF Lands

(* A write command changes the tasks and who commands, never a relay. *)
LEMMA WriteCommandInv ==
  ASSUME Inv, NEW c \in GenWatch, NEW block \in Blocks, WriteCommand(c, block)
  PROVE  Inv'
<1> USE DEF Inv
<1>1. \A d \in Accepted(block) : d \in Maintained /\ (block[d] = "on") \in BOOLEAN
  BY AcceptedIsPermitted
<1>2. tasks' \in [Slot -> Intent \cup {NoTask}]
  <2>1. ASSUME NEW s \in Slot PROVE tasks'[s] \in Intent \cup {NoTask}
    <3>1. CASE tasks'[s] = tasks[s]
      BY <3>1 DEF TypeOK
    <3>2. CASE tasks'[s] # tasks[s]
      <4>1. PICK d \in Accepted(block) :
              tasks'[s] = [do |-> d, on |-> block[d] = "on", tries |-> MaxTries]
        BY <3>2, NewTasks
      <4>2. d \in Maintained /\ (block[d] = "on") \in BOOLEAN /\ MaxTries \in 1 .. MaxTries
        BY <1>1, TriesAssumption
      <4> QED BY <4>1, <4>2 DEF Intent
    <3> QED BY <3>1, <3>2
  <2>2. tasks' = [s \in Slot |-> tasks'[s]]
    BY DEF WriteCommand
  <2> QED BY <2>1, <2>2
<1>3. asked' = asked \cup {d \in Accepted(block) : block[d] = "on"}
  BY DEF WriteCommand
<1>4. UNCHANGED <<wd, wdTries, sampler, seen, atsMode, assumed, readBack, relay>>
  BY DEF WriteCommand, wdVars, sampleVars
<1>5. TypeOK'
  <2>1. commander' = c /\ hung' = FALSE /\ silence' = 0 /\ gone' = FALSE /\ released' = FALSE
    BY DEF WriteCommand, NoteModbusRead
  <2>2. asked' \subseteq Maintained
    BY <1>1, <1>3 DEF TypeOK
  <2>3. commander' \in Conn \cup {NoConn} /\ silence' \in 0 .. Timeout + 1
    BY <2>1, ConnAssumption, TimeoutAssumption
  <2> QED BY <1>2, <1>4, <2>1, <2>2, <2>3 DEF TypeOK
<1>6. CommandsWaitForReset'
  <2> SUFFICES ASSUME ~PastReset' PROVE tasks' = NoTasks /\ asked' = {}
    BY DEF CommandsWaitForReset
  <2>1. ~PastReset
    BY <1>4 DEF PastReset
  <2>2. Accepted(block) = {}
    BY <2>1, UnknownAcceptsNothing DEF NothingSampled
  <2>3. \A s \in Slot : tasks'[s] = tasks[s]
    BY <2>2, NewTasks
  <2>4. tasks' = tasks
    BY <2>3, <1>2 DEF TypeOK
  <2> QED BY <1>3, <2>1, <2>2, <2>4 DEF CommandsWaitForReset
<1>7. NothingSampled' /\ HalfReset'
  BY <1>4 DEF NothingSampled, HalfReset, PastReset
<1>8. TasksAsked'
  <2> SUFFICES ASSUME NEW s \in Slot, tasks'[s] # NoTask, tasks'[s].on
               PROVE  tasks'[s].do \in asked'
    BY DEF TasksAsked, Busy, Idle
  <2>1. CASE tasks'[s] = tasks[s]
    BY <2>1, <1>3 DEF TasksAsked, Busy, Idle
  <2>2. CASE tasks'[s] # tasks[s]
    <3>1. PICK d \in Accepted(block) :
            tasks'[s] = [do |-> d, on |-> block[d] = "on", tries |-> MaxTries]
      BY <2>2, NewTasks
    <3>2. tasks'[s].do = d
      BY <3>1
    <3>3. block[d] = "on"
      <4> DEFINE b == block[d] = "on"
      <4>1. tasks'[s] = [do |-> d, on |-> b, tries |-> MaxTries]
        BY <3>1
      <4> HIDE DEF b
      <4>2. tasks'[s].on = b
        BY <4>1
      <4>3. b
        BY <4>2, Zenon
      <4> QED BY <4>3 DEF b
    <3>4. d \in asked'
      BY <3>3, <1>3
    <3> QED BY <3>2, <3>4
  <2> QED BY <2>1, <2>2
<1>9. AskedPermitted'
  BY <1>3, <1>4, AcceptedIsPermitted DEF AskedPermitted, AllowedModes, TypeOK
<1>10. NoInheritedCommand'
  BY <1>3, <1>4 DEF NoInheritedCommand, PastReset
<1> QED BY <1>5, <1>6, <1>7, <1>8, <1>9, <1>10

(* A dispatched write asserts only what was asked for. *)
LEMMA DispatchInv ==
  ASSUME Inv, NEW s \in Busy,
         DispatchAck(s) \/ DispatchTimeout(s) \/ DispatchError(s)
  PROVE  Inv'
<1> USE DEF Inv
<1>1. s \in Slot /\ tasks[s] \in Intent
  BY DEF Busy, Idle, TypeOK
<1>2. UNCHANGED <<trackerVars, wdVars, sampleVars, readBack, asked>>
  BY DEF DispatchAck, DispatchTimeout, DispatchError
<1>3. Lands(tasks[s].do, tasks[s].on) \/ UNCHANGED relay
  BY DEF DispatchAck, DispatchTimeout, DispatchError
<1>4. tasks[s].do \in Maintained /\ tasks[s].on \in BOOLEAN /\ tasks[s].tries \in 1 .. MaxTries
  BY <1>1 DEF Intent
<1>5. /\ relay' \in [Maintained -> BOOLEAN]
      /\ \A e \in Maintained : relay'[e] => relay[e] \/ (e = tasks[s].do /\ tasks[s].on)
  BY <1>3, <1>4, LandsTyped DEF TypeOK
<1>6. \/ tasks' = [tasks EXCEPT ![s] = NoTask]
      \/ tasks[s].tries > 1 /\ tasks' = [tasks EXCEPT ![s].tries = @ - 1]
  BY DEF DispatchAck, DispatchTimeout, DispatchError, Finished
<1>7. /\ tasks' \in [Slot -> Intent \cup {NoTask}]
      /\ \A t \in Busy' : t \in Busy /\ tasks'[t].do = tasks[t].do /\ tasks'[t].on = tasks[t].on
  <2>1. CASE tasks' = [tasks EXCEPT ![s] = NoTask]
    BY <1>1, <2>1 DEF TypeOK, Busy, Idle
  <2>2. CASE tasks[s].tries > 1 /\ tasks' = [tasks EXCEPT ![s].tries = @ - 1]
    <3> DEFINE retried == [tasks[s] EXCEPT !.tries = @ - 1]
    <3>1. retried \in Intent /\ retried.do = tasks[s].do /\ retried.on = tasks[s].on
      BY <1>1, <1>4, <2>2, TriesAssumption DEF Intent
    <3>2. tasks' = [tasks EXCEPT ![s] = retried]
      BY <2>2, <1>1 DEF TypeOK
    <3> HIDE DEF retried
    <3> QED BY <1>1, <3>1, <3>2 DEF TypeOK, Busy, Idle
  <2> QED BY <1>6, <2>1, <2>2
<1>8. PastReset
  BY DEF CommandsWaitForReset, NoTasks, Busy, Idle
<1>9. UNCHANGED <<commander, hung, silence, gone, released, wd, wdTries, sampler, seen, atsMode,
                  assumed, readBack, asked>>
  BY <1>2 DEF trackerVars, wdVars, sampleVars
<1>10. TypeOK'
  BY <1>5, <1>7, <1>9 DEF TypeOK
<1>11. PastReset' /\ sampler' # "reset_inhibit"
  BY <1>8, <1>9 DEF PastReset
<1>12. TasksAsked'
  BY <1>7, <1>9 DEF TasksAsked
<1>13. NoInheritedCommand'
  BY <1>5, <1>8, <1>9 DEF NoInheritedCommand, TasksAsked
<1> QED
  BY <1>9, <1>10, <1>11, <1>12, <1>13
  DEF CommandsWaitForReset, NothingSampled, HalfReset, AskedPermitted

(* The watchdog only ever opens relays and clears read-backs. *)
LEMMA WatchdogInv ==
  ASSUME Inv,
         \/ TimePasses \/ WatchdogCheck \/ WatchdogTimeout \/ WatchdogError
         \/ \E d \in Maintained : WatchdogAck(d)
  PROVE  Inv'
<1> USE DEF Inv
<1>1. UNCHANGED <<sampler, seen, atsMode, assumed, tasks, asked, commander, hung, gone>>
  BY DEF TimePasses, WatchdogCheck, WatchdogTimeout, WatchdogError, WatchdogAck, wdVars, sampleVars
<1>2. readBack' = AllOff \/ UNCHANGED readBack
  BY DEF TimePasses, WatchdogCheck, WatchdogTimeout, WatchdogError, WatchdogAck
<1>3. \/ UNCHANGED relay
      \/ wd \in Maintained /\ Lands(wd, FALSE)
  BY DEF TimePasses, WatchdogCheck, WatchdogTimeout, WatchdogError, WatchdogAck, TypeOK
<1>4. /\ relay' \in [Maintained -> BOOLEAN]
      /\ \A e \in Maintained : relay'[e] => relay[e]
  BY <1>3, LandsTyped DEF TypeOK
<1>5. /\ readBack' \in [Maintained -> BOOLEAN]
      /\ \A e \in Maintained : readBack'[e] => readBack[e]
  BY <1>2 DEF TypeOK, AllOff
<1>6. silence' \in 0 .. Timeout + 1 /\ released' \in BOOLEAN
  <2>1. Elapse \/ UNCHANGED silence
    BY DEF TimePasses, WatchdogCheck, WatchdogTimeout, WatchdogError, WatchdogAck
  <2>2. released' = TRUE \/ UNCHANGED released
    BY DEF TimePasses, WatchdogCheck, WatchdogTimeout, WatchdogError, WatchdogAck, GiveUp
  <2>3. silence \in 0 .. Timeout + 1
    BY DEF TypeOK
  <2>4. silence' \in 0 .. Timeout + 1
    BY <2>1, <2>3, TimeoutAssumption DEF Elapse
  <2> QED BY <2>2, <2>4 DEF TypeOK
<1>7. wd' \in Maintained \cup {"sleep"} /\ wdTries' \in 1 .. MaxTries
  <2>1. wd' \in {wd, "sleep", "inhibit", "force_transfer"}
    BY DEF TimePasses, WatchdogCheck, WatchdogTimeout, WatchdogError, WatchdogAck, GiveUp, wdVars
  <2>2. wdTries' \in {wdTries, MaxTries} \/ (wdTries > 1 /\ wdTries' = wdTries - 1)
    BY DEF TimePasses, WatchdogCheck, WatchdogTimeout, WatchdogError, WatchdogAck, GiveUp, wdVars
  <2>3. wdTries \in 1 .. MaxTries
    BY DEF TypeOK
  <2>4. wdTries' \in 1 .. MaxTries
    BY <2>2, <2>3, TriesAssumption
  <2> QED BY <2>1, <2>4 DEF TypeOK, Maintained
<1>8. TypeOK'
  BY <1>1, <1>4, <1>5, <1>6, <1>7 DEF TypeOK
<1>9. NothingSampled'
  BY <1>1, <1>2 DEF NothingSampled, PastReset
<1>10. HalfReset'
  BY <1>1, <1>4 DEF HalfReset, Maintained
<1>11. NoInheritedCommand'
  BY <1>1, <1>4, <1>5 DEF NoInheritedCommand, PastReset
<1> QED
  BY <1>1, <1>8, <1>9, <1>10, <1>11
  DEF CommandsWaitForReset, TasksAsked, AskedPermitted, PastReset, Busy, Idle

(* The startup release: no task, no sample, and both relays open at its end. *)
LEMMA ResetInv ==
  ASSUME Inv, NEW d \in Maintained, ResetAck(d) \/ ResetFail(d)
  PROVE  Inv'
<1> USE DEF Inv
<1>1. UNCHANGED <<commander, hung, silence, gone, released, wd, wdTries, seen, atsMode, assumed,
                  readBack, tasks, asked>>
  BY DEF ResetAck, ResetFail, trackerVars, wdVars
<1>2. ~PastReset
  BY DEF ResetAck, ResetFail, Resetting, PastReset
<1>3. seen = AllOff /\ readBack = AllOff /\ tasks = NoTasks /\ asked = {} /\ atsMode = "unknown"
  BY <1>2 DEF NothingSampled, CommandsWaitForReset
<1>4. /\ relay' \in [Maintained -> BOOLEAN]
      /\ \A e \in Maintained : relay'[e] => relay[e]
  BY LandsTyped DEF TypeOK, ResetAck, ResetFail
<1>5. sampler' \in {"reset_force_transfer", "reset_inhibit", "read"}
  BY DEF ResetAck, ResetFail, Resetting
<1>6. TypeOK'
  BY <1>1, <1>4, <1>5 DEF TypeOK
<1>7. CommandsWaitForReset' /\ NothingSampled' /\ TasksAsked' /\ AskedPermitted'
  BY <1>1, <1>3
  DEF CommandsWaitForReset, NothingSampled, TasksAsked, AskedPermitted, Busy, Idle, NoTasks, AllOff
<1>8. HalfReset' /\ NoInheritedCommand'
  <2>1. CASE ResetAck("force_transfer")
    <3>1. sampler' = "reset_inhibit" /\ ~relay'["force_transfer"]
      BY <2>1 DEF ResetAck, Resetting, Lands, TypeOK, Maintained
    <3> QED BY <3>1 DEF HalfReset, NoInheritedCommand, PastReset
  <2>2. CASE ResetAck("inhibit")
    <3>1. sampler = "reset_inhibit" /\ sampler' = "read" /\ ~relay'["inhibit"]
      BY <2>2 DEF ResetAck, Resetting, Lands, TypeOK, Maintained
    <3>2. ~relay'["force_transfer"]
      BY <3>1, <1>4 DEF HalfReset, Maintained
    <3>3. \A e \in Maintained : ~relay'[e] /\ ~seen'[e] /\ ~readBack'[e]
      BY <3>1, <3>2, <1>1, <1>3 DEF Maintained, AllOff
    <3> QED BY <3>1, <3>3 DEF HalfReset, NoInheritedCommand
  <2>3. CASE ResetFail(d)
    <3>1. sampler' = "reset_force_transfer"
      BY <2>3 DEF ResetFail, Resetting
    <3> QED BY <3>1 DEF HalfReset, NoInheritedCommand, PastReset
  <2> QED BY <2>1, <2>2, <2>3 DEF Maintained
<1> QED BY <1>6, <1>7, <1>8

(* Reading the coils and applying them. *)
LEMMA SampleInv ==
  ASSUME Inv, SampleRead \/ SampleApply
  PROVE  Inv'
<1> USE DEF Inv
<1>1. UNCHANGED <<commander, hung, silence, gone, released, wd, wdTries, assumed, tasks, relay, asked>>
  BY DEF SampleRead, SampleApply, trackerVars, wdVars
<1>2. PastReset /\ PastReset' /\ sampler' \in {"read", "apply"}
  BY DEF SampleRead, SampleApply, PastReset
<1>3. atsMode' \in {"unknown", assumed'}
  BY <1>1 DEF SampleRead, SampleApply, TypeOK
<1>4. seen' \in {relay, AllOff} /\ readBack' \in {readBack, seen}
  BY DEF SampleRead, SampleApply
<1>5. TypeOK'
  BY <1>1, <1>2, <1>3, <1>4 DEF TypeOK, AllOff
<1>6. NoInheritedCommand'
  BY <1>1, <1>2, <1>4 DEF NoInheritedCommand, AllOff
<1> QED
  BY <1>1, <1>2, <1>5, <1>6
  DEF CommandsWaitForReset, NothingSampled, HalfReset, TasksAsked, AskedPermitted, Busy, Idle,
      PastReset

(* A restart leaves nothing but the relays. *)
LEMMA RestartInv ==
  ASSUME Inv, Restart
  PROVE  Inv'
<1>1. relay' \in [Maintained -> BOOLEAN]
  BY DEF Inv, Restart, TypeOK, AllOff
<1>2. TypeOK'
  <2>1. AllOff \in [Maintained -> BOOLEAN] /\ NoTasks \in [Slot -> Intent \cup {NoTask}]
    BY DEF AllOff, NoTasks
  <2>2. 0 \in 0 .. Timeout + 1 /\ MaxTries \in 1 .. MaxTries
    BY TriesAssumption, TimeoutAssumption
  <2> QED BY <1>1, <2>1, <2>2 DEF Restart, TypeOK, Resetting
<1>3. ~PastReset' /\ Busy' = {} /\ sampler' # "reset_inhibit"
  BY DEF Restart, PastReset, Resetting, Busy, Idle, NoTasks
<1> QED
  BY <1>2, <1>3
  DEF Restart, Inv, CommandsWaitForReset, NothingSampled, HalfReset, TasksAsked, AskedPermitted,
      NoInheritedCommand

(* Requests that only read, and a connection that closes or hangs, touch    *)
(* the tracker only.                                                        *)
LEMMA TrackerInv ==
  ASSUME Inv, NEW c \in Conn, Read(c) \/ Disconnect(c) \/ Hang
  PROVE  Inv'
<1> USE DEF Inv
<1>1. UNCHANGED <<wd, wdTries, sampler, seen, atsMode, assumed, readBack, tasks, relay, asked>>
  BY DEF Read, Disconnect, Hang, wdVars, sampleVars
<1>2. /\ commander' \in Conn \cup {NoConn} /\ silence' \in 0 .. Timeout + 1
      /\ gone' \in BOOLEAN /\ released' \in BOOLEAN /\ hung' \in BOOLEAN
  <2>1. commander' \in {commander, NoConn} /\ silence' \in {silence, 0}
        /\ gone' \in {gone, TRUE, FALSE} /\ released' \in {released, FALSE}
        /\ hung' \in {hung, TRUE, FALSE}
    BY DEF Read, NoteRead, NoteModbusRead, Disconnect, Hang
  <2>2. 0 \in 0 .. Timeout + 1
    BY TimeoutAssumption
  <2> QED BY <2>1, <2>2 DEF TypeOK
<1>3. TypeOK'
  BY <1>1, <1>2 DEF TypeOK
<1> QED
  BY <1>1, <1>3
  DEF CommandsWaitForReset, NothingSampled, HalfReset, TasksAsked, AskedPermitted,
      NoInheritedCommand, PastReset, Busy, Idle

(* Every step, and stuttering, keeps the invariant. *)
LEMMA NextInv == Inv /\ [Next]_vars => Inv'
<1> SUFFICES ASSUME Inv, [Next]_vars PROVE Inv'
  OBVIOUS
<1>1. CASE UNCHANGED vars
  BY <1>1
  DEF vars, trackerVars, wdVars, sampleVars, Inv, TypeOK, CommandsWaitForReset, NothingSampled,
      HalfReset, TasksAsked, AskedPermitted, NoInheritedCommand, PastReset, Busy, Idle
<1>2. ASSUME NEW c \in Conn, Read(c) \/ Disconnect(c) \/ Hang PROVE Inv'
  BY <1>2, TrackerInv
<1>3. ASSUME NEW c \in GenWatch, NEW block \in Blocks, WriteCommand(c, block) PROVE Inv'
  BY <1>3, WriteCommandInv
<1>4. ASSUME NEW s \in Busy, DispatchAck(s) \/ DispatchTimeout(s) \/ DispatchError(s) PROVE Inv'
  BY <1>4, DispatchInv
<1>5. CASE \/ TimePasses \/ WatchdogCheck \/ WatchdogTimeout \/ WatchdogError
           \/ \E d \in Maintained : WatchdogAck(d)
  BY <1>5, WatchdogInv
<1>6. ASSUME NEW d \in Maintained, ResetAck(d) \/ ResetFail(d) PROVE Inv'
  BY <1>6, ResetInv
<1>7. CASE SampleRead \/ SampleApply
  BY <1>7, SampleInv
<1>8. CASE Restart
  BY <1>8, RestartInv
<1>9. CASE Hang
  <2>1. PICK c \in Conn : TRUE BY <1>9 DEF Hang, Inv, TypeOK
  <2> QED BY <1>9, <1>2
<1> QED BY <1>1, <1>2, <1>3, <1>4, <1>5, <1>6, <1>7, <1>8, <1>9 DEF Next

(* The invariant holds throughout. *)
THEOREM Invariance == Spec => []Inv
BY InitInv, NextInv, PTL DEF Spec

(* Every variable keeps its type. *)
THEOREM TypeCorrect == Spec => []TypeOK
<1>1. Inv => TypeOK
  BY DEF Inv
<1> QED BY <1>1, Invariance, PTL

(* No command reaches the driver before the startup release is done. *)
THEOREM CommandsWait == Spec => []CommandsWaitForReset
<1>1. Inv => CommandsWaitForReset
  BY DEF Inv
<1> QED BY <1>1, Invariance, PTL

(* A restarted ATS-Pi has no relay on, and reads none back as on, that it   *)
(* was not commanded to assert since (ICD 9.3).                             *)
THEOREM NothingInherited == Spec => []NoInheritedCommand
<1>1. Inv => NoInheritedCommand
  BY DEF Inv
<1> QED BY <1>1, Invariance, PTL

(* After the startup release no relay is on in a mode that forbids it. *)
THEOREM ModePolicyKept == Spec => []ModePolicy
<1>1. Inv => ModePolicy
  BY DEF Inv, NoInheritedCommand, AskedPermitted, ModePolicy
<1> QED BY <1>1, Invariance, PTL

(* Only the last write of a release latches it, and that write opens the    *)
(* relay it was for.                                                        *)
LEMMA LatchStep ==
  ASSUME Inv, [Next]_vars, ~released, released'
  PROVE  ~relay'["force_transfer"]
<1>1. ASSUME NEW d \in Maintained, WatchdogAck(d) PROVE ~relay'["force_transfer"]
  <2>1. CASE d = "inhibit" BY <1>1, <2>1 DEF WatchdogAck
  <2>2. CASE d = "force_transfer"
    BY <1>1, <2>2 DEF WatchdogAck, Lands, Inv, TypeOK, Maintained
  <2> QED BY <2>1, <2>2 DEF Maintained
<1>2. \A c \in Conn : ~Read(c)
  BY DEF Read, NoteRead, NoteModbusRead
<1>3. \A c \in GenWatch, block \in Blocks : ~WriteCommand(c, block)
  BY DEF WriteCommand, NoteModbusRead
<1>4. ~Hang /\ (\A c \in Conn : ~Disconnect(c)) /\ ~Restart
  BY DEF Hang, Disconnect, Restart
<1>5. \A s \in Busy : ~DispatchAck(s) /\ ~DispatchTimeout(s) /\ ~DispatchError(s)
  BY DEF DispatchAck, DispatchTimeout, DispatchError, trackerVars
<1>6. ~TimePasses /\ ~WatchdogCheck /\ ~WatchdogTimeout /\ ~WatchdogError
  BY DEF TimePasses, WatchdogCheck, WatchdogTimeout, WatchdogError, GiveUp
<1>7. \A d \in Maintained : ~ResetAck(d) /\ ~ResetFail(d)
  BY DEF ResetAck, ResetFail, trackerVars
<1>8. ~SampleRead /\ ~SampleApply
  BY DEF SampleRead, SampleApply, trackerVars
<1>9. ~UNCHANGED vars BY DEF vars, trackerVars
<1> QED BY <1>1, <1>2, <1>3, <1>4, <1>5, <1>6, <1>7, <1>8, <1>9 DEF Next

(* The watchdog calls a release done only when its last write has opened    *)
(* the relay.                                                               *)
THEOREM ReleaseIsReal == Spec => LatchedOnlyWhenOpen
<1>1. Inv /\ [Next]_vars => [~released /\ released' => ~relay'["force_transfer"]]_vars
  BY LatchStep
<1> QED BY <1>1, Invariance, PTL DEF Spec, LatchedOnlyWhenOpen

(* The relays' safety, for any connections, modes, timeout and attempts.    *)
THEOREM RelaysAreSafe == Spec => []RelaySafety
BY TypeCorrect, CommandsWait, NothingInherited, ModePolicyKept, PTL DEF RelaySafety
=============================================================================
