--------------------------- MODULE TransferStore ---------------------------
(***************************************************************************)
(* How a transfer of the switch becomes a durable count: the position the  *)
(* ADAM driver senses (IOAdamDriver.read_inputs), the transition rules of  *)
(* RegisterStore.apply_input_snapshot, the synchronous and the executor    *)
(* saves of StateFile, and what a restart or a power cut leaves of them.   *)
(*                                                                         *)
(* The switch is the environment.  It is assumed to end a stroke within    *)
(* TRANSFERRING_HOLD_S of the Load Disconnect pulse; the constants say     *)
(* what is assumed of the disk.                                            *)
(***************************************************************************)
EXTENDS Naturals, Sequences

CONSTANTS
  Window,      \* ROLLING_WINDOW_S
  DiskKeepsUp, \* saves in the executor do not outlast a stroke
  WritesBack,  \* a rename is on disk by the time systemd restarts the service
  MaxStrokes,  \* bound: strokes to the generator
  MaxTime      \* bound: the wall clock

ASSUME WindowAssumption == Window \in Nat
ASSUME DiskAssumption   == {DiskKeepsUp, WritesBack} \subseteq BOOLEAN
ASSUME BoundAssumption  == MaxStrokes \in Nat /\ MaxTime \in Nat \ {0}

VARIABLES
  at,       \* the rail the debounced aux contacts are closed on
  phase,    \* of a stroke: Load Disconnect pulsing, then the switch moving
  strokes,  \* history: strokes to the generator that happened
  now,      \* time.time()
  held,     \* the driver still holds "transferring" after the pulse
  position, \* snapshot.position
  store,    \* the persisted fields as the store has them in memory
  loop,     \* what the event loop is blocked in: nothing, or a save
  jobs,     \* executor saves in flight, one step each
  file,     \* the state file's contents
  onDisk,   \* the contents a power cut may leave: not fsynced since
  failed,   \* history: a save raised OSError, or skipped the fsync
  served,   \* transfer_count_lifetime as GenWatch last read it
  counted   \* history: when each counted transfer was, as far as it survives

switchVars == <<at, phase, strokes>>
diskVars   == <<jobs, file, onDisk, failed>>
vars == <<switchVars, now, held, position, store, loop, diskVars, served, counted>>

Zeros == [count |-> 0, toGen |-> 0, toUtil |-> 0, recent |-> << >>]

Init ==
  /\ at = "utility" /\ phase = "rest" /\ strokes = 0
  /\ now = 1
  /\ held = FALSE /\ position = "unknown"
  /\ store = Zeros /\ loop = "free"
  /\ jobs = {} /\ file = Zeros /\ onDisk = {Zeros} /\ failed = FALSE
  /\ served = 0 /\ counted = << >>

-----------------------------------------------------------------------------
(* The switch, and time. *)

LoadDisconnect ==
  /\ phase = "rest"
  /\ phase' = "pulsing"
  /\ UNCHANGED <<at, strokes, now, held, position, store, loop, diskVars, served, counted>>

PulseEnds ==
  /\ phase = "pulsing"
  /\ phase' = "moving"
  /\ UNCHANGED <<at, strokes, now, held, position, store, loop, diskVars, served, counted>>

Stroke ==
  /\ phase # "rest"
  /\ phase' = "rest"
  /\ IF at = "utility"
       THEN /\ strokes < MaxStrokes
            /\ DiskKeepsUp => jobs = {}
            /\ at' = "generator" /\ strokes' = strokes + 1
       ELSE at' = "utility" /\ UNCHANGED strokes
  /\ UNCHANGED <<now, held, position, store, loop, diskVars, served, counted>>

(* TRANSFERRING_HOLD_S outlasts the stroke it was started by. *)
HoldEnds ==
  /\ held /\ phase = "rest"
  /\ held' = FALSE
  /\ UNCHANGED <<switchVars, now, position, store, loop, diskVars, served, counted>>

Tick ==
  /\ now < MaxTime
  /\ now' = now + 1
  /\ UNCHANGED <<switchVars, held, position, store, loop, diskVars, served, counted>>

-----------------------------------------------------------------------------
(* apply_input_snapshot. *)

(* What _evict_old_transfers leaves: the oldest are popped until one is in  *)
(* the window.  The file's list is in order, so that filtering it on the    *)
(* start leaves the same.                                                   *)
Recent(stamps) ==
  LET oldest == CHOOSE n \in 1 .. Len(stamps) + 1 :
                  /\ \A i \in 1 .. n - 1 : stamps[i] + Window < now
                  /\ n <= Len(stamps) => stamps[n] + Window >= now
  IN  SubSeq(stamps, oldest, Len(stamps))

(* What read_inputs can report: the hold wins over the contacts, and both   *)
(* contacts open read as unknown.                                           *)
Readings == IF held' THEN {"transferring"} ELSE {at, "unknown"}

TransferredToGen_fromUnknown(p) == p = "generator" /\ position # "generator"
TransferredToGen(p) == p = "generator" /\ position \in {"utility", "transferring"}

RetransferredToUtil(p) == p = "utility" /\ position \in {"generator", "transferring"}

Counting(p) ==
  LET arrived == TransferredToGen(p)
  IN  [count  |-> IF arrived THEN store.count + 1 ELSE store.count,
       toGen  |-> IF arrived THEN now ELSE store.toGen,
       toUtil |-> IF RetransferredToUtil(p) THEN now ELSE store.toUtil,
       recent |-> Recent(IF arrived THEN Append(store.recent, now) ELSE store.recent)]

(* An increment blocks the loop until it is saved; a retransfer is saved by *)
(* the executor while the loop goes on.                                     *)
Sample_asyncIncrement ==
  /\ loop = "free"
  /\ held' = (held \/ phase = "pulsing")
  /\ \E p \in Readings :
       /\ position' = p
       /\ store' = Counting(p)
       /\ counted' = IF TransferredToGen(p) THEN Append(counted, now) ELSE counted
       /\ loop' = loop
       /\ jobs' = IF TransferredToGen(p) \/ RetransferredToUtil(p)
                    THEN jobs \cup {[saves |-> store', step |-> "replace"]}
                    ELSE jobs
  /\ UNCHANGED <<switchVars, now, file, onDisk, failed, served>>
Sample ==
  /\ loop = "free"
  /\ held' = (held \/ phase = "pulsing")
  /\ \E p \in Readings :
       /\ position' = p
       /\ store' = Counting(p)
       /\ counted' = IF TransferredToGen(p) THEN Append(counted, now) ELSE counted
       /\ loop' = IF TransferredToGen(p) THEN "replace" ELSE loop
       /\ jobs' = IF RetransferredToUtil(p)
                    THEN jobs \cup {[saves |-> store', step |-> "replace"]}
                    ELSE jobs
  /\ UNCHANGED <<switchVars, now, file, onDisk, failed, served>>

(* A register read is served between two handlers, never inside one. *)
GenWatchRead ==
  /\ loop = "free"
  /\ served' = store.count
  /\ UNCHANGED <<switchVars, now, held, position, store, loop, diskVars, counted>>

-----------------------------------------------------------------------------
(* StateFile.save: the rename, then the fsync of the directory. *)

Rename(s) == file' = s /\ onDisk' = onDisk \cup {s}
Fsync     == file' = file /\ onDisk' = {file}

SaveRenames ==
  /\ loop = "replace"
  /\ Rename(store)
  /\ loop' = "fsync"
  /\ UNCHANGED <<switchVars, now, held, position, store, jobs, failed, served, counted>>

SaveFsyncs ==
  /\ loop = "fsync"
  /\ Fsync
  /\ loop' = "free"
  /\ UNCHANGED <<switchVars, now, held, position, store, jobs, failed, served, counted>>

(* _save_blocking swallows a failed save, save() a failed directory fsync. *)
SaveFails ==
  /\ loop # "free"
  /\ loop' = "free" /\ failed' = TRUE
  /\ UNCHANGED <<switchVars, now, held, position, store, jobs, file, onDisk, served, counted>>

JobRenames(j) ==
  /\ j.step = "replace"
  /\ Rename(j.saves)
  /\ jobs' = (jobs \ {j}) \cup {[saves |-> j.saves, step |-> "fsync"]}
  /\ UNCHANGED <<switchVars, now, held, position, store, loop, failed, served, counted>>

JobFsyncs(j) ==
  /\ j.step = "fsync"
  /\ Fsync
  /\ jobs' = jobs \ {j}
  /\ UNCHANGED <<switchVars, now, held, position, store, loop, failed, served, counted>>

JobFails(j) ==
  /\ jobs' = jobs \ {j} /\ failed' = TRUE
  /\ UNCHANGED <<switchVars, now, held, position, store, loop, file, onDisk, served, counted>>

-----------------------------------------------------------------------------
(* RegisterStore.__init__ on what StateFile.load returns. *)
StartFrom_emptyWindow(s) ==
  /\ file' = s
  /\ store' = [count |-> s.count, toGen |-> s.toGen, toUtil |-> s.toUtil,
               recent |-> << >>]
  /\ counted' = SubSeq(counted, 1, s.count)
  /\ held' = FALSE /\ position' = "unknown"
  /\ loop' = "free" /\ jobs' = {}
  /\ UNCHANGED <<switchVars, now, failed, served>>
StartFrom(s) ==
  /\ file' = s
  /\ store' = [count |-> s.count, toGen |-> s.toGen, toUtil |-> s.toUtil,
               recent |-> Recent(s.recent)]
  /\ counted' = SubSeq(counted, 1, s.count)
  /\ held' = FALSE /\ position' = "unknown"
  /\ loop' = "free" /\ jobs' = {}
  /\ UNCHANGED <<switchVars, now, failed, served>>

Restart == StartFrom(file) /\ onDisk' = IF WritesBack THEN {file} ELSE onDisk

PowerCut == \E s \in onDisk : StartFrom(s) /\ onDisk' = {s}

-----------------------------------------------------------------------------
Next ==
  \/ LoadDisconnect \/ PulseEnds \/ Stroke \/ HoldEnds \/ Tick
  \/ Sample \/ GenWatchRead
  \/ SaveRenames \/ SaveFsyncs \/ SaveFails
  \/ \E j \in jobs : JobRenames(j) \/ JobFsyncs(j) \/ JobFails(j)
  \/ Restart \/ PowerCut

Spec == Init /\ [][Next]_vars

-----------------------------------------------------------------------------
(* Properties. *)

Saved == [count  : 0 .. MaxStrokes, toGen : 0 .. MaxTime,
          toUtil : 0 .. MaxTime,    recent : Seq(1 .. MaxTime)]

TypeOK ==
  /\ at \in {"utility", "generator"} /\ phase \in {"rest", "pulsing", "moving"}
  /\ strokes \in 0 .. MaxStrokes /\ now \in 1 .. MaxTime
  /\ held \in BOOLEAN
  /\ position \in {"unknown", "utility", "transferring", "generator"}
  /\ store \in Saved /\ file \in Saved
  /\ loop \in {"free", "replace", "fsync"}
  /\ jobs \subseteq [saves : Saved, step : {"replace", "fsync"}]
  /\ onDisk \subseteq Saved /\ file \in onDisk
  /\ served \in 0 .. MaxStrokes /\ counted \in Seq(1 .. MaxTime)

(* GenWatch never sees the lifetime count go back: what it read is durable, *)
(* even if the disk loses every rename that was not fsynced (ICD 8.2),      *)
(* until a save fails.                                                      *)
ServedIsDurable ==
  ~failed => served <= store.count /\ \A s \in onDisk : served <= s.count

(* The count never runs ahead of the switch: reboots on the generator,      *)
(* contact glitches, and the pulse of a retransfer are not transfers (the   *)
(* two hazards apply_input_snapshot's comment names).                       *)
NeverOvercounts == store.count <= strokes

(* The three persisted fields describe the same transfers after whatever    *)
(* sequence of saves and crashes: the deque holds those of the window, and  *)
(* last_transfer_to_gen_ts is the last of them.                             *)
FieldsAgree ==
  /\ store.count = Len(counted)
  /\ store.toGen = IF counted = << >> THEN 0 ELSE counted[Len(counted)]
  /\ Recent(store.recent) = Recent(counted)

(* What a reader of the lifetime count relies on (ICD 8.2): it neither goes *)
(* back nor runs ahead of the switch.                                       *)
CountSafety == ServedIsDurable /\ NeverOvercounts

(* What the store persists is well-formed, and its fields agree.            *)
RecordSafety == TypeOK /\ FieldsAgree

(* The abstract counter, and what it says of a read that was answered. *)
Counter == INSTANCE DurableCounter WITH count <- store.count
CountIsDurable == Counter!Spec
=============================================================================
