------------------------- MODULE AdamOutputs_proofs -------------------------
(***************************************************************************)
(* The driver's safety for any outputs, any number of tasks, with the      *)
(* fail-safe check required or waived.  Types and the release in hand for  *)
(* every pulse are inductive together.                                     *)
(***************************************************************************)
EXTENDS AdamOutputs, TLAPS

Inv == TypeOK /\ PulseHasRelease

-----------------------------------------------------------------------------
(* What a task's record says, job by job. *)

LEMMA JobsTyped ==
  ASSUME NEW j \in Jobs
  PROVE  /\ j.job = "drive"   => j \in HeldDrives \cup PulsedDrives /\ j.at \in Waiting
         /\ j.job = "release" => j \in Pulses \cup Releases /\ j.do \in Pulsed
         /\ j.job = "sample"  => j \in Reconnects
         /\ j.at = "pulsing"  => j \in Pulses
         /\ j.at = "retry"    => j \in Releases
         /\ j.at \in Waiting => j \in HeldDrives \cup PulsedDrives \cup Releases \cup Reconnects
         /\ j.at \in {"write", "lost"} => j \in HeldDrives \cup PulsedDrives \cup Releases
         /\ j.job = "none"    => j.at = "idle"
         /\ j.on \in BOOLEAN
<1>1. CASE j = Finished BY <1>1 DEF Finished, Waiting
<1>2. CASE j \in HeldDrives BY <1>2 DEF HeldDrives, Waiting
<1>3. CASE j \in PulsedDrives BY <1>3 DEF PulsedDrives, Waiting
<1>4. CASE j \in Pulses BY <1>4 DEF Pulses, Waiting
<1>5. CASE j \in Releases BY <1>5 DEF Releases, Waiting
<1>6. CASE j \in Reconnects BY <1>6 DEF Reconnects, Waiting
<1> QED BY <1>1, <1>2, <1>3, <1>4, <1>5, <1>6 DEF Jobs

(* Moving a waiting task along keeps its record one of a task.              *)
LEMMA MovesTyped ==
  ASSUME NEW j \in HeldDrives \cup PulsedDrives \cup Releases, NEW a \in Waiting
  PROVE  [j EXCEPT !.at = a] \in Jobs
<1>1. CASE j \in HeldDrives BY <1>1 DEF HeldDrives, Jobs
<1>2. CASE j \in PulsedDrives BY <1>2 DEF PulsedDrives, Jobs
<1>3. CASE j \in Releases BY <1>3 DEF Releases, Jobs
<1> QED BY <1>1, <1>2, <1>3

LEMMA FinishedTyped == Finished \in Jobs
BY DEF Jobs

-----------------------------------------------------------------------------
(* How the actions move the tasks. *)

(* One task moves on, every other keeps its place.                          *)
OnlyMoves(t) ==
  /\ task' \in [Task -> Jobs]
  /\ \A u \in Task \ {t} : task'[u] = task[u]

LEMMA PutTyped ==
  ASSUME TypeOK, NEW t \in Task, NEW new \in Jobs, task' = [task EXCEPT ![t] = new]
  PROVE  OnlyMoves(t) /\ task'[t] = new
BY DEF TypeOK, OnlyMoves

LEMMA CutTyped ==
  ASSUME TypeOK, NEW u \in Task
  PROVE  Cut(u) \in Jobs /\ (At(u) = "pulsing" => Cut(u) = task[u])
<1>1. task[u] \in Jobs BY DEF TypeOK
<1>2. CASE At(u) = "write"
  <2>1. task[u] \in HeldDrives \cup PulsedDrives \cup Releases
    BY <1>1, <1>2, JobsTyped DEF At
  <2>2. [task[u] EXCEPT !.at = "lost"] \in Jobs BY <2>1, MovesTyped DEF Waiting
  <2> QED BY <1>1, <1>2, <2>2 DEF Cut
<1>3. CASE At(u) # "write" BY <1>1, <1>3 DEF Cut
<1> QED BY <1>2, <1>3

LEMMA StartsTyped ==
  ASSUME TypeOK, NEW t \in Task, NEW new \in Jobs, Starts(t, new)
  PROVE  /\ task' \in [Task -> Jobs]
         /\ \A u \in Task \ {t} : At(u) = "pulsing" => task'[u] = task[u]
<1>1. task' = [u \in Task |-> IF u = t THEN new ELSE Cut(u)] BY DEF Starts
<1> QED BY <1>1, CutTyped

LEMMA ResumesTyped ==
  ASSUME TypeOK, NEW t \in Task, At(t) \in {"connect", "verify"}, Resumes(t)
  PROVE  OnlyMoves(t)
<1>1. task[t] \in Jobs BY DEF TypeOK
<1>2. CASE Job(t) = "sample"
  <2>1. task' = [task EXCEPT ![t] = Finished] BY <1>2 DEF Resumes
  <2> QED BY <2>1, FinishedTyped, PutTyped
<1>3. CASE Job(t) # "sample"
  <2> DEFINE new == [task[t] EXCEPT !.at = "write"]
  <2>1. task' = [task EXCEPT ![t] = new] BY <1>3 DEF Resumes, TypeOK
  <2>2. task[t] \in HeldDrives \cup PulsedDrives \cup Releases
    BY <1>1, <1>3, JobsTyped DEF At, Job, Waiting, Reconnects
  <2>3. new \in Jobs BY <2>2, MovesTyped DEF Waiting
  <2> HIDE DEF new
  <2> QED BY <2>1, <2>3, PutTyped
<1> QED BY <1>2, <1>3

LEMMA FailsTyped ==
  ASSUME TypeOK, NEW t \in Task, At(t) \in Waiting, Fails(t)
  PROVE  OnlyMoves(t) /\ outputFault' \in BOOLEAN /\ UNCHANGED <<commanded, settling, pulse>>
<1>1. task[t] \in Jobs BY DEF TypeOK
<1>2. outputFault' \in BOOLEAN
  <2>1. outputFault' = (Job(t) = "drive" \/ outputFault) BY DEF Fails
  <2>2. outputFault \in BOOLEAN BY DEF TypeOK
  <2> QED BY <2>1, <2>2
<1>3. CASE Job(t) = "release"
  <2> DEFINE new == [task[t] EXCEPT !.at = "retry"]
  <2>1. task' = [task EXCEPT ![t] = new] BY <1>3 DEF Fails, Goes, TypeOK
  <2>2. task[t] \in Releases
    BY <1>1, <1>3, JobsTyped DEF At, Job, Waiting, Pulses
  <2>3. new \in Jobs BY <2>2 DEF Jobs, Releases
  <2> HIDE DEF new
  <2>4. OnlyMoves(t) BY <2>1, <2>3, PutTyped
  <2> QED BY <1>2, <2>4 DEF Fails
<1>4. CASE Job(t) # "release"
  <2>1. task' = [task EXCEPT ![t] = Finished] BY <1>4 DEF Fails
  <2>2. OnlyMoves(t) BY <2>1, FinishedTyped, PutTyped
  <2> QED BY <1>2, <2>2 DEF Fails
<1> QED BY <1>3, <1>4

(* What is typed after a step, the tasks apart.                             *)
RestTyped ==
  /\ link \in {"up", "down"} /\ verified \in BOOLEAN
  /\ relay \in [Output -> BOOLEAN] /\ commanded \in [Output -> BOOLEAN]
  /\ settling \subseteq Output
  /\ pulse \in [Pulsed -> Task \cup {NoTask}]
  /\ outputFault \in BOOLEAN

(* A step that records no pulse, and touches no task in charge of one that  *)
(* is still recorded, leaves every pulse its release.                       *)
LEMMA NoPulseStarts ==
  ASSUME Inv, RestTyped', task' \in [Task -> Jobs],
         \A d \in Pulsed : commanded'[d] => commanded[d],
         \A u \in Task : At(u) = "pulsing" /\ commanded'[Do(u)] => task'[u] = task[u]
  PROVE  Inv'
<1>1. TypeOK' BY DEF TypeOK, RestTyped
<1>2. ASSUME NEW d \in Pulsed, commanded'[d]
      PROVE  \E u \in Task : (Job(u) = "release" /\ At(u) = "pulsing" /\ Do(u) = d)'
  <2>1. PICK u \in Task : Job(u) = "release" /\ At(u) = "pulsing" /\ Do(u) = d
    BY <1>2 DEF Inv, PulseHasRelease
  <2>2. task'[u] = task[u] BY <1>2, <2>1
  <2> QED BY <2>1, <2>2 DEF Job, At, Do
<1> QED BY <1>1, <1>2 DEF Inv, PulseHasRelease

LEMMA LandsTyped ==
  ASSUME TypeOK, NEW t \in Task, Lands(t) \/ UNCHANGED relay
  PROVE  relay' \in [Output -> BOOLEAN]
<1>1. task[t] \in Jobs /\ relay \in [Output -> BOOLEAN] BY DEF TypeOK
<1>2. task[t].on \in BOOLEAN BY <1>1, JobsTyped
<1> QED BY <1>1, <1>2 DEF Lands

-----------------------------------------------------------------------------
(* Every step keeps the invariant. *)

LEMMA InitInv == Init => Inv
<1> SUFFICES ASSUME Init PROVE Inv OBVIOUS
<1>1. verified \in BOOLEAN BY DEF Init, Verdicts
<1>2. AllOff \in [Output -> BOOLEAN] BY DEF AllOff
<1>3. TypeOK BY <1>1, <1>2, FinishedTyped DEF Init, TypeOK
<1>4. PulseHasRelease BY DEF Init, PulseHasRelease, AllOff, Output
<1> QED BY <1>3, <1>4 DEF Inv

LEMMA BeginInv ==
  ASSUME Inv, NEW t \in Task, NEW d \in Output, NEW on \in BOOLEAN, Begin(t, d, on)
  PROVE  Inv'
<1>1. UNCHANGED <<link, verified, relay, commanded, settling, pulse>>
  BY DEF Begin, linkVars
<1>2. TypeOK /\ outputFault' \in BOOLEAN
  BY DEF Begin, RefusedByGate, Inv, TypeOK
<1>3. RestTyped' BY <1>1, <1>2 DEF TypeOK, RestTyped
<1>4. CASE UNCHANGED task
  <2>1. task' \in [Task -> Jobs] BY <1>2, <1>4 DEF TypeOK
  <2> QED BY <1>1, <1>3, <1>4, <2>1, NoPulseStarts
<1>5. CASE task' # task
  <2> DEFINE new == [job |-> "drive", at |-> Ensure, do |-> d, on |-> on]
  <2>1. Starts(t, new) /\ Job(t) = "none" BY <1>5 DEF Begin
  <2>2. new \in Jobs
    <3>1. CASE d \in Held BY <3>1 DEF Jobs, HeldDrives, Waiting, Ensure
    <3>2. CASE d \in Pulsed BY <3>2 DEF Jobs, PulsedDrives, Waiting, Ensure, Begin
    <3> QED BY <3>1, <3>2 DEF Output
  <2> HIDE DEF new
  <2>3. At(t) # "pulsing" BY <1>2, <2>1, JobsTyped DEF TypeOK, Job, At
  <2>4. /\ task' \in [Task -> Jobs]
        /\ \A u \in Task \ {t} : At(u) = "pulsing" => task'[u] = task[u]
    BY <1>2, <2>1, <2>2, StartsTyped
  <2> QED BY <1>1, <1>3, <2>3, <2>4, NoPulseStarts
<1> QED BY <1>4, <1>5

LEMMA ConnectsInv ==
  ASSUME Inv, NEW t \in Task, Connects(t) \/ Verifies(t)
  PROVE  Inv'
<1>1. /\ TypeOK /\ link' \in {"up", "down"} /\ verified' \in BOOLEAN
      /\ UNCHANGED <<relay, commanded, settling, pulse, outputFault>>
  BY DEF Connects, Verifies, Verdicts, Inv, TypeOK
<1>2. RestTyped' BY <1>1 DEF TypeOK, RestTyped
<1>3. At(t) \in {"connect", "verify"} BY DEF Connects, Verifies
<1>4. OnlyMoves(t)
  <2>1. CASE Resumes(t) BY <1>1, <1>3, <2>1, ResumesTyped
  <2>2. CASE Connects(t) /\ Required
    <3> DEFINE new == [task[t] EXCEPT !.at = "verify"]
    <3>1. task' = [task EXCEPT ![t] = new] BY <1>1, <2>2 DEF Connects, Goes, TypeOK
    <3>2. task[t] \in HeldDrives \cup PulsedDrives \cup Releases \cup Reconnects
      BY <1>1, <1>3, JobsTyped DEF TypeOK, At, Waiting
    <3>3. new \in Jobs
      <4>1. CASE task[t] \in Reconnects BY <4>1 DEF Jobs, Reconnects
      <4> QED BY <3>2, <4>1, MovesTyped DEF Waiting
    <3> HIDE DEF new
    <3> QED BY <1>1, <3>1, <3>3, PutTyped
  <2> QED BY <2>1, <2>2 DEF Connects, Verifies
<1> QED BY <1>1, <1>2, <1>3, <1>4, NoPulseStarts DEF OnlyMoves

LEMMA FailsInv ==
  ASSUME Inv, NEW t \in Task,
         \/ ConnectFails(t) \/ VerifiesTooLate(t)
         \/ WriteUnanswered(t) \/ WriteRejected(t)
  PROVE  Inv'
<1>1. /\ TypeOK /\ At(t) \in Waiting /\ Fails(t)
      /\ link' \in {"up", "down"} /\ verified' \in BOOLEAN
  BY DEF ConnectFails, VerifiesTooLate, WriteUnanswered, WriteRejected, Verdicts,
         linkVars, Waiting, Inv, TypeOK
<1>2. relay' \in [Output -> BOOLEAN]
  <2>1. Lands(t) \/ UNCHANGED relay
    BY DEF ConnectFails, VerifiesTooLate, WriteUnanswered, WriteRejected
  <2> QED BY <1>1, <2>1, LandsTyped
<1>3. OnlyMoves(t) /\ outputFault' \in BOOLEAN /\ UNCHANGED <<commanded, settling, pulse>>
  BY <1>1, FailsTyped
<1>4. RestTyped' BY <1>1, <1>2, <1>3 DEF TypeOK, RestTyped
<1>5. At(t) # "pulsing" BY <1>1 DEF Waiting
<1> QED BY <1>3, <1>4, <1>5, NoPulseStarts DEF OnlyMoves

LEMMA HeldDrivenInv ==
  ASSUME Inv, NEW t \in Task, HeldDriven(t)
  PROVE  Inv'
<1>1. /\ At(t) = "write" /\ Do(t) \in Held /\ Lands(t)
      /\ Record(Do(t), task[t].on) /\ task' = [task EXCEPT ![t] = Finished]
      /\ UNCHANGED <<link, verified, pulse>> /\ outputFault' = FALSE
  BY DEF HeldDriven, linkVars
<1>2. TypeOK /\ task[t].on \in BOOLEAN BY JobsTyped DEF Inv, TypeOK
<1>3. /\ commanded' \in [Output -> BOOLEAN] /\ settling' \subseteq Output
      /\ \A d \in Pulsed : commanded'[d] = commanded[d]
  BY <1>1, <1>2, OutputAssumption DEF Record, TypeOK, Output
<1>4. relay' \in [Output -> BOOLEAN] BY <1>1, <1>2, LandsTyped
<1>5. RestTyped' BY <1>1, <1>2, <1>3, <1>4 DEF TypeOK, RestTyped
<1>6. OnlyMoves(t) BY <1>1, <1>2, FinishedTyped, PutTyped
<1>7. At(t) # "pulsing" BY <1>1
<1> QED BY <1>3, <1>5, <1>6, <1>7, NoPulseStarts DEF OnlyMoves

LEMMA PulseDrivenInv ==
  ASSUME Inv, NEW t \in Task, PulseDriven(t)
  PROVE  Inv'
<1> DEFINE new == [task[t] EXCEPT !.job = "release", !.at = "pulsing"]
<1>1. /\ At(t) = "write" /\ Job(t) = "drive" /\ Do(t) \in Pulsed /\ Lands(t)
      /\ Record(Do(t), TRUE) /\ pulse' = [pulse EXCEPT ![Do(t)] = t]
      /\ UNCHANGED <<link, verified>> /\ outputFault' = FALSE
  BY DEF PulseDriven, linkVars
<1>2. TypeOK /\ task' = [task EXCEPT ![t] = new]
  BY DEF PulseDriven, Inv, TypeOK
<1>3. task[t] \in PulsedDrives
  BY <1>1, <1>2, JobsTyped, OutputAssumption DEF TypeOK, HeldDrives, Job, Do
<1>4. new \in Jobs /\ new.job = "release" /\ new.at = "pulsing" /\ new.do = Do(t)
  BY <1>3 DEF Jobs, PulsedDrives, Pulses, Do
<1> HIDE DEF new
<1>5. OnlyMoves(t) /\ task'[t] = new BY <1>2, <1>4, PutTyped
<1>6. TypeOK'
  <2>1. relay' \in [Output -> BOOLEAN] BY <1>1, <1>2, LandsTyped
  <2>2. commanded' \in [Output -> BOOLEAN] /\ settling' \subseteq Output
    BY <1>1, <1>2 DEF Record, TypeOK, Output
  <2> QED BY <1>1, <1>2, <1>5, <2>1, <2>2 DEF TypeOK, OnlyMoves
<1>7. PulseHasRelease'
  <2>1. \A d \in Pulsed : d # Do(t) => commanded'[d] = commanded[d]
    BY <1>1, <1>2 DEF Record, TypeOK, Output
  <2>2. At(t) # "pulsing" BY <1>1
  <2>3. ASSUME NEW d \in Pulsed, commanded'[d], d # Do(t)
        PROVE  \E u \in Task : (Job(u) = "release" /\ At(u) = "pulsing" /\ Do(u) = d)'
    <3>1. PICK u \in Task : Job(u) = "release" /\ At(u) = "pulsing" /\ Do(u) = d
      BY <2>1, <2>3 DEF Inv, PulseHasRelease
    <3> QED BY <1>5, <2>2, <3>1 DEF OnlyMoves, Job, At, Do
  <2>4. (Job(t) = "release" /\ At(t) = "pulsing")' /\ Do(t)' = Do(t)
    BY <1>4, <1>5 DEF Job, At, Do
  <2> QED BY <2>3, <2>4 DEF PulseHasRelease
<1> QED BY <1>6, <1>7 DEF Inv

LEMMA WindowElapsesInv ==
  ASSUME Inv, NEW t \in Task, WindowElapses(t)
  PROVE  Inv'
<1> DEFINE new == [task[t] EXCEPT !.at = Ensure, !.on = FALSE]
<1>1. /\ At(t) = "pulsing" /\ Record(Do(t), FALSE) /\ Starts(t, new)
      /\ UNCHANGED <<link, verified, relay, pulse, outputFault>>
  BY DEF WindowElapses, linkVars
<1>2. TypeOK /\ task[t] \in Pulses BY <1>1, JobsTyped DEF Inv, TypeOK, At
<1>3. Do(t) \in Pulsed /\ new \in Jobs
  BY <1>2 DEF Pulses, Releases, Jobs, Ensure, Waiting, Do
<1> HIDE DEF new
<1>4. /\ task' \in [Task -> Jobs]
      /\ \A u \in Task \ {t} : At(u) = "pulsing" => task'[u] = task[u]
  BY <1>1, <1>2, <1>3, StartsTyped
<1>5. /\ commanded' \in [Output -> BOOLEAN] /\ settling' \subseteq Output
      /\ ~commanded'[Do(t)] /\ \A d \in Pulsed : commanded'[d] => commanded[d]
  BY <1>1, <1>2, <1>3 DEF Record, TypeOK, Output
<1>6. RestTyped' BY <1>1, <1>2, <1>5 DEF TypeOK, RestTyped
<1> QED BY <1>4, <1>5, <1>6, NoPulseStarts

(* The release that tries again and the sampling loop that reconnects.      *)
LEMMA StartsInv ==
  ASSUME Inv, NEW t \in Task, Retry(t) \/ SampleConnects(t)
  PROVE  Inv'
<1>1. TypeOK /\ UNCHANGED <<link, verified, relay, commanded, settling, pulse, outputFault>>
  BY DEF Retry, SampleConnects, linkVars, Inv
<1>2. RestTyped' BY <1>1 DEF TypeOK, RestTyped
<1>3. At(t) # "pulsing"
  BY <1>1, JobsTyped DEF Retry, SampleConnects, TypeOK, Job, At
<1>4. PICK new \in Jobs : Starts(t, new)
  <2>1. CASE Retry(t)
    <3>1. task[t] \in Releases BY <1>1, <2>1, JobsTyped DEF Retry, TypeOK, At
    <3>2. [task[t] EXCEPT !.at = Ensure] \in Jobs BY <3>1, MovesTyped DEF Ensure, Waiting
    <3> QED BY <2>1, <3>2 DEF Retry
  <2>2. CASE SampleConnects(t)
    <3>1. [job |-> "sample", at |-> "connect", do |-> "none", on |-> FALSE] \in Jobs
      BY DEF Jobs, Reconnects
    <3> QED BY <2>2, <3>1 DEF SampleConnects
  <2> QED BY <2>1, <2>2
<1>5. /\ task' \in [Task -> Jobs]
      /\ \A u \in Task \ {t} : At(u) = "pulsing" => task'[u] = task[u]
  BY <1>1, <1>4, StartsTyped
<1> QED BY <1>1, <1>2, <1>3, <1>5, NoPulseStarts

LEMMA PulseReleasedInv ==
  ASSUME Inv, NEW t \in Task, PulseReleased(t)
  PROVE  Inv'
<1>1. /\ At(t) = "write" /\ Lands(t)
      /\ task' = [task EXCEPT ![t] = Finished]
      /\ pulse' = [pulse EXCEPT ![Do(t)] = IF @ = t THEN NoTask ELSE @]
      /\ UNCHANGED <<link, verified, commanded, settling, outputFault>>
  BY DEF PulseReleased, linkVars
<1>2. TypeOK BY DEF Inv
<1>3. relay' \in [Output -> BOOLEAN] BY <1>1, <1>2, LandsTyped
<1>4. pulse' \in [Pulsed -> Task \cup {NoTask}] BY <1>1, <1>2 DEF TypeOK
<1>5. RestTyped' BY <1>1, <1>2, <1>3, <1>4 DEF TypeOK, RestTyped
<1>6. OnlyMoves(t) BY <1>1, <1>2, FinishedTyped, PutTyped
<1>7. At(t) # "pulsing" BY <1>1
<1> QED BY <1>1, <1>5, <1>6, <1>7, NoPulseStarts DEF OnlyMoves

(* What the sampling loop, time and the module do leaves every task alone.  *)
LEMMA SampleInv ==
  ASSUME Inv, \/ SampleFails \/ Sample \/ AdamResets
              \/ \E d \in Output : Settle(d)
              \/ UNCHANGED vars
  PROVE  Inv'
<1>1. UNCHANGED <<verified, commanded, task, pulse>>
  BY DEF SampleFails, Sample, AdamResets, Settle, vars, linkVars
<1>2. TypeOK /\ link' \in {"up", "down"} /\ settling' \subseteq Output
  BY DEF SampleFails, Sample, AdamResets, Settle, vars, linkVars, Inv, TypeOK
<1>3. relay' \in [Output -> BOOLEAN]
  BY DEF SampleFails, Sample, AdamResets, Settle, vars, AllOff, Inv, TypeOK
<1>4. outputFault' \in BOOLEAN
  BY Zenon DEF SampleFails, Sample, AdamResets, Settle, vars, Inv, TypeOK
<1>5. RestTyped' /\ task' \in [Task -> Jobs]
  BY <1>1, <1>2, <1>3, <1>4 DEF TypeOK, RestTyped
<1> QED BY <1>1, <1>5, NoPulseStarts

LEMMA NextInv == Inv /\ [Next]_vars => Inv'
<1> SUFFICES ASSUME Inv, [Next]_vars PROVE Inv' OBVIOUS
<1>1. ASSUME NEW t \in Task, NEW d \in Output, NEW on \in BOOLEAN, Begin(t, d, on)
      PROVE  Inv'
  BY <1>1, BeginInv
<1>2. ASSUME NEW t \in Task, Steps(t) PROVE Inv'
  <2>1. CASE Connects(t) \/ Verifies(t) BY <2>1, ConnectsInv
  <2>2. CASE \/ ConnectFails(t) \/ VerifiesTooLate(t)
             \/ WriteUnanswered(t) \/ WriteRejected(t)
    BY <2>2, FailsInv
  <2>3. CASE HeldDriven(t) BY <2>3, HeldDrivenInv
  <2>4. CASE PulseDriven(t) BY <2>4, PulseDrivenInv
  <2>5. CASE WindowElapses(t) BY <2>5, WindowElapsesInv
  <2>6. CASE Retry(t) BY <2>6, StartsInv
  <2>7. CASE PulseReleased(t) BY <2>7, PulseReleasedInv
  <2> QED BY <1>2, <2>1, <2>2, <2>3, <2>4, <2>5, <2>6, <2>7 DEF Steps
<1>3. ASSUME NEW t \in Task, SampleConnects(t) PROVE Inv' BY <1>3, StartsInv
<1>4. CASE \/ SampleFails \/ Sample \/ AdamResets
           \/ \E d \in Output : Settle(d)
           \/ UNCHANGED vars
  BY <1>4, SampleInv
<1> QED BY <1>1, <1>2, <1>3, <1>4 DEF Next

-----------------------------------------------------------------------------
(* The inductive invariant holds throughout.                                *)
THEOREM Invariance == Spec => []Inv
BY InitInv, NextInv, PTL DEF Spec

(* Every variable keeps its type.                                           *)
THEOREM TypeCorrect == Spec => []TypeOK
<1>1. Inv => TypeOK BY DEF Inv
<1> QED BY <1>1, Invariance, PTL

(* A pulsed relay the driver turned on has a task alive that turns it off.  *)
THEOREM PulsesAreReleased == Spec => []PulseHasRelease
<1>1. Inv => PulseHasRelease BY DEF Inv
<1> QED BY <1>1, Invariance, PTL

(* The driver's safety, for any outputs and any number of tasks.            *)
THEOREM OutputsAreSafe == Spec => []OutputSafety
BY TypeCorrect, PulsesAreReleased, PTL DEF OutputSafety
=============================================================================
