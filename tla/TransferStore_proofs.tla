------------------------ MODULE TransferStore_proofs ------------------------
(***************************************************************************)
(* For any window, any number of strokes and any clock, if executor saves  *)
(* do not outlast a stroke and a rename is on disk before the service is   *)
(* started again: the lifetime count never runs ahead of the switch, what  *)
(* GenWatch read is durable, the store implements DurableCounter, and the  *)
(* fields it persists agree.                                               *)
(***************************************************************************)
EXTENDS TransferStore, SequenceTheorems, WellFoundedInduction, TLAPS

(* What the counts are: every version of the file that can still surface    *)
(* holds at most the count in memory.                                       *)
Counts ==
  /\ store.count \in Nat /\ strokes \in Nat /\ served \in Nat
  /\ failed \in BOOLEAN
  /\ file \in onDisk
  /\ \A s \in onDisk : s.count \in Nat /\ s.count <= store.count
  /\ \A j \in jobs : j.saves.count \in Nat /\ j.saves.count <= store.count

(* No save in the executor while a stroke to the generator can be counted.  *)
Quiet ==
  /\ loop \in {"free", "replace", "fsync"}
  /\ at \in {"utility", "generator"}
  /\ at = "generator" \/ loop # "free" => jobs = {}

(* How far the disk is behind: not at all between two handlers, by the one  *)
(* transfer being saved within one.                                         *)
Durable ==
  ~failed =>
    /\ served <= store.count
    /\ \A j \in jobs : j.saves.count = store.count
    /\ loop = "free" => \A s \in onDisk : s.count = store.count
    /\ loop = "replace" => \A s \in onDisk : s.count + 1 = store.count
    /\ loop = "fsync" => /\ file.count = store.count
                         /\ \A s \in onDisk : s.count + 1 \in {store.count, store.count + 1}
    /\ loop # "free" => served < store.count

(* A position that precedes a transfer, seen while the switch is already on *)
(* the generator, is owed a count, unless it is the hold of a retransfer.   *)
Owed ==
  /\ held => position = "transferring"
  /\ store.count <= strokes
  /\ at = "generator" /\ position \in {"utility", "transferring"} =>
       \/ store.count < strokes
       \/ position = "transferring" /\ held /\ phase # "rest"

Inv == Counts /\ Quiet /\ Durable /\ Owed

-----------------------------------------------------------------------------
LEMMA InitInv == Init => Inv
<1> SUFFICES ASSUME Init PROVE Inv OBVIOUS
<1>1. /\ store.count = 0 /\ file.count = 0 /\ onDisk = {file}
      /\ jobs = {} /\ loop = "free" /\ failed = FALSE
      /\ strokes = 0 /\ served = 0
  BY DEF Init, Zeros
<1>2. at = "utility" /\ position = "unknown" /\ held = FALSE
  BY DEF Init
<1>3. Counts
  <2>1. failed \in BOOLEAN /\ file \in onDisk BY <1>1
  <2>2. \A s \in onDisk : s.count \in Nat /\ s.count <= store.count BY <1>1
  <2> QED BY <1>1, <2>1, <2>2 DEF Counts
<1>4. Quiet   BY <1>1, <1>2 DEF Quiet
<1>5. Durable BY <1>1 DEF Durable
<1>6. Owed    BY <1>1, <1>2 DEF Owed
<1> QED BY <1>3, <1>4, <1>5, <1>6 DEF Inv

LEMMA SwitchStep ==
  ASSUME Inv, DiskKeepsUp, LoadDisconnect \/ PulseEnds \/ Stroke \/ HoldEnds \/ Tick
  PROVE  Inv'
<1> USE DEF Inv, Counts, Quiet, Durable, Owed, diskVars, switchVars
<1>1. CASE LoadDisconnect BY <1>1 DEF LoadDisconnect
<1>2. CASE PulseEnds      BY <1>2 DEF PulseEnds
<1>3. CASE Stroke
  <2>1. CASE at = "utility"   BY <1>3, <2>1 DEF Stroke
  <2>2. CASE at = "generator" BY <1>3, <2>2 DEF Stroke
  <2> QED BY <2>1, <2>2
<1>4. CASE HoldEnds BY <1>4 DEF HoldEnds
<1>5. CASE Tick     BY <1>5 DEF Tick
<1> QED BY <1>1, <1>2, <1>3, <1>4, <1>5

LEMMA SampleStep ==
  ASSUME Inv, Sample
  PROVE  Inv'
<1>1. PICK p \in Readings :
        /\ position' = p
        /\ store' = Counting(p)
        /\ loop' = IF TransferredToGen(p) THEN "replace" ELSE loop
        /\ jobs' = IF RetransferredToUtil(p)
                     THEN jobs \cup {[saves |-> store', step |-> "replace"]}
                     ELSE jobs
  BY DEF Sample
<1>2. /\ loop = "free" /\ held' = (held \/ phase = "pulsing")
      /\ UNCHANGED <<at, phase, strokes, file, onDisk, failed, served>>
  BY DEF Sample, switchVars
<1>3. IF held' THEN p = "transferring" ELSE p \in {at, "unknown"}
  BY DEF Readings
<1>4. store'.count = IF TransferredToGen(p) THEN store.count + 1 ELSE store.count
  BY <1>1 DEF Counting
<1>5. TransferredToGen(p) => at = "generator" /\ ~held' /\ jobs = {} /\ store.count < strokes
  BY <1>2, <1>1 DEF TransferredToGen, Readings, Inv, Owed, Quiet
<1>6. RetransferredToUtil(p) => at = "utility" /\ ~TransferredToGen(p)
  BY <1>1, <1>2 DEF RetransferredToUtil, TransferredToGen, Readings
<1>7. Counts'
  BY <1>1, <1>2, <1>4, <1>5 DEF Inv, Counts
<1>8. Quiet'
  BY <1>1, <1>2, <1>5, <1>6 DEF Inv, Quiet
<1>9. Durable'
  BY <1>1, <1>2, <1>4, <1>5 DEF Inv, Counts, Durable
<1>10. Owed'
  <2>1. CASE held'
    <3>1. position' = "transferring" /\ ~TransferredToGen(p)
      BY <1>1, <1>3, <2>1 DEF TransferredToGen
    <3>2. store.count < strokes \/ phase # "rest" \/ at # "generator"
      BY <1>2, <2>1 DEF Inv, Owed
    <3> QED BY <1>2, <1>4, <2>1, <3>1, <3>2 DEF Inv, Owed
  <2>2. CASE ~held'
    <3>1. at = "generator" => position' \notin {"utility", "transferring"}
      BY <1>1, <1>3, <2>2
    <3>2. store'.count <= strokes'
      BY <1>2, <1>4, <1>5 DEF Inv, Counts, Owed
    <3> QED BY <1>2, <2>2, <3>1, <3>2 DEF Owed
  <2> QED BY <2>1, <2>2
<1> QED BY <1>7, <1>8, <1>9, <1>10 DEF Inv

LEMMA SaveStep ==
  ASSUME Inv, SaveRenames \/ SaveFsyncs \/ SaveFails
  PROVE  Inv'
<1> USE DEF Inv, Counts, Quiet, Durable, Owed, switchVars
<1>1. CASE SaveRenames BY <1>1 DEF SaveRenames, Rename
<1>2. CASE SaveFsyncs  BY <1>2 DEF SaveFsyncs, Fsync
<1>3. CASE SaveFails   BY <1>3 DEF SaveFails
<1> QED BY <1>1, <1>2, <1>3

LEMMA JobStep ==
  ASSUME Inv, NEW j \in jobs, JobRenames(j) \/ JobFsyncs(j) \/ JobFails(j)
  PROVE  Inv'
<1> USE DEF Inv, Counts, Quiet, Durable, Owed, switchVars
<1>1. CASE JobRenames(j) BY <1>1 DEF JobRenames, Rename
<1>2. CASE JobFsyncs(j)  BY <1>2 DEF JobFsyncs, Fsync
<1>3. CASE JobFails(j)   BY <1>3 DEF JobFails
<1> QED BY <1>1, <1>2, <1>3

(* Whatever version the process starts from, the disk then holds only it.   *)
LEMMA StartStep ==
  ASSUME Inv, NEW s \in onDisk, StartFrom(s), onDisk' = {s}
  PROVE  Inv'
<1>1. /\ store'.count = s.count /\ file' = s /\ loop' = "free" /\ jobs' = {}
      /\ held' = FALSE /\ position' = "unknown"
      /\ UNCHANGED <<at, phase, strokes, failed, served>>
  BY DEF StartFrom, switchVars
<1>2. Counts' BY <1>1 DEF Inv, Counts
<1>3. Quiet'  BY <1>1 DEF Inv, Quiet
<1>4. Durable'
  <2>1. ~failed => served <= s.count
    BY DEF Inv, Counts, Quiet, Durable
  <2> QED BY <1>1, <2>1 DEF Durable
<1>5. Owed'   BY <1>1 DEF Inv, Counts, Owed
<1> QED BY <1>2, <1>3, <1>4, <1>5 DEF Inv

LEMMA CrashStep ==
  ASSUME Inv, WritesBack, Restart \/ PowerCut
  PROVE  Inv'
<1>1. CASE Restart
  <2>1. file \in onDisk /\ StartFrom(file) /\ onDisk' = {file}
    BY <1>1 DEF Restart, Inv, Counts
  <2> QED BY <2>1, StartStep
<1>2. CASE PowerCut
  <2>1. PICK s \in onDisk : StartFrom(s) /\ onDisk' = {s} BY <1>2 DEF PowerCut
  <2> QED BY <2>1, StartStep
<1> QED BY <1>1, <1>2

LEMMA Stutter == Inv /\ UNCHANGED vars => Inv'
  BY DEF vars, diskVars, switchVars, Inv, Counts, Quiet, Durable, Owed

LEMMA ReadStep == Inv /\ GenWatchRead => Inv'
  BY DEF GenWatchRead, diskVars, switchVars, Inv, Counts, Quiet, Durable, Owed

LEMMA NextInv ==
  ASSUME DiskKeepsUp, WritesBack, Inv, [Next]_vars
  PROVE  Inv'
<1>1. CASE LoadDisconnect \/ PulseEnds \/ Stroke \/ HoldEnds \/ Tick BY <1>1, SwitchStep
<1>2. CASE Sample BY <1>2, SampleStep
<1>3. CASE GenWatchRead BY <1>3, ReadStep
<1>4. CASE SaveRenames \/ SaveFsyncs \/ SaveFails BY <1>4, SaveStep
<1>5. CASE \E j \in jobs : JobRenames(j) \/ JobFsyncs(j) \/ JobFails(j) BY <1>5, JobStep
<1>6. CASE Restart \/ PowerCut BY <1>6, CrashStep
<1>7. CASE UNCHANGED vars BY <1>7, Stutter
<1> QED BY <1>1, <1>2, <1>3, <1>4, <1>5, <1>6, <1>7 DEF Next

(* The inductive invariant holds of every behaviour.                        *)
THEOREM Invariance ==
  ASSUME DiskKeepsUp, WritesBack
  PROVE  Spec => []Inv
<1>1. Inv /\ [Next]_vars => Inv' BY NextInv
<1> QED BY <1>1, InitInv, PTL DEF Spec

-----------------------------------------------------------------------------
(* What GenWatch read survives every crash and power cut (ICD 8.2).         *)
THEOREM ReadsAreDurable ==
  ASSUME DiskKeepsUp, WritesBack
  PROVE  Spec => []ServedIsDurable
<1>1. Inv => ServedIsDurable
  BY DEF Inv, Counts, Quiet, Durable, ServedIsDurable
<1> QED BY <1>1, Invariance, PTL

(* The lifetime count never runs ahead of the switch, across reboots.       *)
THEOREM CountsNoPhantom ==
  ASSUME DiskKeepsUp, WritesBack
  PROVE  Spec => []NeverOvercounts
<1>1. Inv => NeverOvercounts BY DEF Inv, Owed, NeverOvercounts
<1> QED BY <1>1, Invariance, PTL

-----------------------------------------------------------------------------
(* A process that starts from a surviving version is a crash of the counter.*)
LEMMA StartRefines ==
  ASSUME Inv, NEW s \in onDisk, StartFrom(s)
  PROVE  Counter!Crash
<1>1. store'.count = s.count /\ UNCHANGED <<served, failed>> BY DEF StartFrom
<1>2. ~failed => served <= s.count BY DEF Inv, Counts, Quiet, Durable
<1> QED BY <1>1, <1>2 DEF Counter!Crash, Inv, Counts

LEMMA StepRefines ==
  ASSUME Inv, [Next]_vars
  PROVE  [Counter!Next]_Counter!vars
<1> USE DEF Counter!vars, diskVars
<1>1. CASE LoadDisconnect \/ PulseEnds \/ Stroke \/ HoldEnds \/ Tick
  BY <1>1 DEF LoadDisconnect, PulseEnds, Stroke, HoldEnds, Tick
<1>2. CASE Sample
  <2>1. PICK p : store' = Counting(p) /\ UNCHANGED <<served, failed>> BY <1>2 DEF Sample
  <2>2. store'.count \in {store.count, store.count + 1} BY <2>1 DEF Counting
  <2> QED BY <2>1, <2>2 DEF Counter!Next, Counter!Increment
<1>3. CASE GenWatchRead BY <1>3 DEF GenWatchRead, Counter!Next, Counter!Read
<1>4. CASE SaveRenames \/ SaveFsyncs \/ SaveFails
  BY <1>4 DEF SaveRenames, SaveFsyncs, SaveFails, Counter!Next, Counter!Fail
<1>5. CASE \E j \in jobs : JobRenames(j) \/ JobFsyncs(j) \/ JobFails(j)
  BY <1>5 DEF JobRenames, JobFsyncs, JobFails, Counter!Next, Counter!Fail
<1>6. CASE Restart \/ PowerCut
  <2>1. PICK s \in onDisk : StartFrom(s) BY <1>6 DEF Restart, PowerCut, Inv, Counts
  <2> QED BY <2>1, StartRefines DEF Counter!Next
<1>7. CASE UNCHANGED vars BY <1>7 DEF vars
<1> QED BY <1>1, <1>2, <1>3, <1>4, <1>5, <1>6, <1>7 DEF Next

(* The store, the saves and the crashes implement the durable counter that  *)
(* ICD 8.2 promises GenWatch.                                               *)
THEOREM ImplementsCounter ==
  ASSUME DiskKeepsUp, WritesBack
  PROVE  Spec => CountIsDurable
<1>1. Init => Counter!Init BY DEF Init, Zeros, Counter!Init
<1>2. Inv /\ [Next]_vars => [Counter!Next]_Counter!vars BY StepRefines
<1> QED BY <1>1, <1>2, Invariance, PTL DEF Spec, CountIsDurable, Counter!Spec

(* A served count survives, and none is a phantom.                          *)
THEOREM CountIsSafe ==
  ASSUME DiskKeepsUp, WritesBack
  PROVE  Spec => []CountSafety
BY ReadsAreDurable, CountsNoPhantom, PTL DEF CountSafety
-----------------------------------------------------------------------------
(* The persisted fields: every version of them that is in memory, on disk   *)
(* or in a save describes a prefix of the transfers that were counted.      *)

LEMMA LeastOf ==
  ASSUME NEW T, T \subseteq Nat, T # {}
  PROVE  \E n \in T : \A m \in T : n <= m
<1> DEFINE R == {ss \in Nat \X Nat : ss[1] < ss[2]}
<1>1. IsWellFoundedOn(R, Nat)
  BY NatLessThanWellFounded DEF OpToRel
<1>2. \A m, n \in Nat : m < n => <<m, n>> \in R
  OBVIOUS
<1> HIDE DEF R
<1>3. PICK n \in T : \A m \in T : ~(<<m, n>> \in R)
  BY <1>1, WFMin
<1>4. ASSUME NEW m \in T PROVE n <= m
  <2>1. ~(m < n) BY <1>2, <1>3
  <2> QED BY <2>1
<1> QED BY <1>4

(* Where the window begins in a list of timestamps.                         *)
Oldest(stamps, n) ==
  /\ n \in 1 .. Len(stamps) + 1
  /\ \A i \in 1 .. n - 1 : stamps[i] + Window < now
  /\ n <= Len(stamps) => stamps[n] + Window >= now

LEMMA WindowBegins ==
  ASSUME NEW stamps \in Seq(1 .. MaxTime), now \in Nat
  PROVE  \E n : Oldest(stamps, n)
<1> DEFINE T == {n \in Nat : n \in 1 .. Len(stamps) + 1
                             /\ (n <= Len(stamps) => stamps[n] + Window >= now)}
<1>1. Len(stamps) \in Nat /\ \A i \in 1 .. Len(stamps) : stamps[i] \in Nat
  BY LenProperties, ElementOfSeq, BoundAssumption
<1>2. Len(stamps) + 1 \in T BY <1>1
<1>3. T \subseteq Nat OBVIOUS
<1> HIDE DEF T
<1>4. PICK n \in T : \A m \in T : n <= m BY <1>2, <1>3, LeastOf
<1>5. n \in 1 .. Len(stamps) + 1 /\ (n <= Len(stamps) => stamps[n] + Window >= now)
  BY <1>4 DEF T
<1>6. ASSUME NEW i \in 1 .. n - 1 PROVE stamps[i] + Window < now
  <2>1. i \in 1 .. Len(stamps) /\ i \in Nat /\ i < n BY <1>1, <1>5
  <2>2. i \notin T BY <1>4, <1>5, <2>1
  <2>3. ~(stamps[i] + Window >= now) BY <1>1, <2>1, <2>2 DEF T
  <2>4. stamps[i] \in Nat BY <1>1, <2>1
  <2> QED BY <2>3, <2>4, WindowAssumption
<1> QED BY <1>5, <1>6 DEF Oldest

LEMMA RecentIs ==
  ASSUME NEW stamps \in Seq(1 .. MaxTime), now \in Nat, NEW n, Oldest(stamps, n)
  PROVE  /\ Recent(stamps) = SubSeq(stamps, n, Len(stamps))
         /\ Recent(stamps) \in Seq(1 .. MaxTime)
         /\ Len(Recent(stamps)) = Len(stamps) + 1 - n
         /\ \A i \in 1 .. Len(stamps) + 1 - n : Recent(stamps)[i] = stamps[i + n - 1]
<1>1. Len(stamps) \in Nat /\ \A i \in 1 .. Len(stamps) : stamps[i] \in Nat
  BY LenProperties, ElementOfSeq, BoundAssumption
<1>2. ASSUME NEW m, Oldest(stamps, m) PROVE m = n
  <2>1. m \in 1 .. Len(stamps) + 1 /\ n \in 1 .. Len(stamps) + 1 BY <1>2 DEF Oldest
  <2>2. ~(m < n)
    <3> SUFFICES ASSUME m < n PROVE FALSE OBVIOUS
    <3>1. m \in 1 .. n - 1 /\ m \in 1 .. Len(stamps) BY <1>1, <2>1
    <3>2. stamps[m] + Window < now /\ stamps[m] + Window >= now BY <1>2, <3>1 DEF Oldest
    <3> QED BY <1>1, <3>1, <3>2, WindowAssumption
  <2>3. ~(n < m)
    <3> SUFFICES ASSUME n < m PROVE FALSE OBVIOUS
    <3>1. n \in 1 .. m - 1 /\ n \in 1 .. Len(stamps) BY <1>1, <2>1
    <3>2. stamps[n] + Window < now /\ stamps[n] + Window >= now BY <1>2, <3>1 DEF Oldest
    <3> QED BY <1>1, <3>1, <3>2, WindowAssumption
  <2> QED BY <1>1, <2>1, <2>2, <2>3
<1>3. Recent(stamps) = SubSeq(stamps, n, Len(stamps))
  <2>1. (CHOOSE m \in 1 .. Len(stamps) + 1 :
           /\ \A i \in 1 .. m - 1 : stamps[i] + Window < now
           /\ m <= Len(stamps) => stamps[m] + Window >= now) = n
    BY <1>2 DEF Oldest
  <2>2. Recent(stamps) =
          SubSeq(stamps, CHOOSE m \in 1 .. Len(stamps) + 1 :
                           /\ \A i \in 1 .. m - 1 : stamps[i] + Window < now
                           /\ m <= Len(stamps) => stamps[m] + Window >= now, Len(stamps))
    BY Zenon DEF Recent
  <2> QED BY <2>1, <2>2, Zenon
<1>4. n \in 1 .. Len(stamps) + 1 /\ n \in Int /\ Len(stamps) \in Int BY <1>1 DEF Oldest
<1>5. ASSUME NEW i \in n .. Len(stamps) PROVE stamps[i] \in 1 .. MaxTime
  <2>1. i \in 1 .. Len(stamps) BY <1>1, <1>4
  <2> QED BY <2>1, ElementOfSeq
<1> DEFINE last == Len(stamps)
<1>6. \A i \in n .. last : stamps[i] \in 1 .. MaxTime BY <1>1, <1>5
<1>7. n \in Int /\ last \in Int BY <1>4
<1> HIDE DEF last
<1>8. SubSeq(stamps, n, last) \in Seq(1 .. MaxTime) BY <1>6, <1>7, SubSeqProperties
<1>9. Len(SubSeq(stamps, n, last)) = IF n <= last THEN last - n + 1 ELSE 0
  BY <1>6, <1>7, SubSeqProperties
<1>10. \A i \in 1 .. last - n + 1 : SubSeq(stamps, n, last)[i] = stamps[n + i - 1]
  BY <1>6, <1>7, SubSeqProperties
<1> QED BY <1>1, <1>3, <1>4, <1>8, <1>9, <1>10 DEF last

(* A list that has the first n of the counted transfers, but for some that  *)
(* have left the window.                                                    *)
Begins(recent, stamps, n, k) ==
  /\ k \in 0 .. n /\ Len(recent) = n - k
  /\ \A i \in 1 .. n - k : recent[i] = stamps[i + k]
  /\ \A i \in 1 .. k : stamps[i] + Window < now
Follows(recent, stamps, n) == \E k : Begins(recent, stamps, n, k)

(* Popping the oldest loses none of the window.                             *)
LEMMA RecentFollows ==
  ASSUME NEW recent \in Seq(1 .. MaxTime), NEW stamps, NEW n \in Nat, now \in Nat,
         Follows(recent, stamps, n)
  PROVE  Follows(Recent(recent), stamps, n) /\ Recent(recent) \in Seq(1 .. MaxTime)
<1>1. PICK k : Begins(recent, stamps, n, k) BY DEF Follows
<1>2. PICK m : Oldest(recent, m) BY WindowBegins
<1>3. Len(recent) \in Nat BY LenProperties
<1>4. /\ Recent(recent) \in Seq(1 .. MaxTime) /\ Len(Recent(recent)) = Len(recent) + 1 - m
      /\ \A i \in 1 .. Len(recent) + 1 - m : Recent(recent)[i] = recent[i + m - 1]
  BY <1>2, RecentIs
<1>5. k \in 0 .. n /\ Len(recent) = n - k /\ m \in 1 .. n - k + 1
  BY <1>1, <1>2 DEF Begins, Oldest
<1> DEFINE d == k + m - 1
<1>6. d \in 0 .. n /\ n - d = Len(recent) + 1 - m BY <1>5
<1>7. \A i \in 1 .. n - d : Recent(recent)[i] = stamps[i + d]
  <2> SUFFICES ASSUME NEW i \in 1 .. n - d PROVE Recent(recent)[i] = stamps[i + d] OBVIOUS
  <2>1. i + m - 1 \in 1 .. n - k /\ i \in 1 .. Len(recent) + 1 - m BY <1>5, <1>6
  <2>2. Recent(recent)[i] = recent[i + m - 1] BY <1>4, <2>1
  <2>3. recent[i + m - 1] = stamps[i + m - 1 + k] BY <1>1, <2>1 DEF Begins
  <2>4. i + m - 1 + k = i + d BY <1>5
  <2> QED BY <2>2, <2>3, <2>4
<1>8. \A i \in 1 .. d : stamps[i] + Window < now
  <2> SUFFICES ASSUME NEW i \in 1 .. d PROVE stamps[i] + Window < now OBVIOUS
  <2>1. CASE i <= k
    <3>1. i \in 1 .. k BY <1>5, <2>1
    <3> QED BY <1>1, <3>1 DEF Begins
  <2>2. CASE i > k
    <3>1. i - k \in 1 .. m - 1 /\ i - k \in 1 .. n - k /\ (i - k) + k = i BY <1>5, <2>2
    <3>2. recent[i - k] + Window < now BY <1>2, <3>1 DEF Oldest
    <3>3. recent[i - k] = stamps[i] BY <1>1, <3>1 DEF Begins
    <3> QED BY <3>2, <3>3
  <2> QED BY <1>5, <2>1, <2>2
<1> HIDE DEF d
<1>9. Begins(Recent(recent), stamps, n, d) BY <1>4, <1>6, <1>7, <1>8 DEF Begins
<1> QED BY <1>4, <1>9 DEF Follows

(* A list that follows all of the counted transfers has the same window.    *)
LEMMA SameWindow ==
  ASSUME NEW recent \in Seq(1 .. MaxTime), NEW stamps \in Seq(1 .. MaxTime), now \in Nat,
         Follows(recent, stamps, Len(stamps))
  PROVE  Recent(recent) = Recent(stamps)
<1> DEFINE n == Len(stamps)
<1>1. PICK k : Begins(recent, stamps, n, k) BY DEF Follows
<1>2. PICK m : Oldest(stamps, m) BY WindowBegins
<1>3. n \in Nat /\ \A i \in 1 .. n : stamps[i] \in Nat BY LenProperties, ElementOfSeq, BoundAssumption
<1> HIDE DEF n
<1>4. k \in 0 .. n /\ Len(recent) = n - k /\ m \in 1 .. n + 1
  BY <1>1, <1>2 DEF Begins, Oldest, n
<1>5. m > k
  <2> SUFFICES ASSUME ~(m > k) PROVE FALSE OBVIOUS
  <2>1. m \in 1 .. k /\ m \in 1 .. n /\ m <= n BY <1>3, <1>4
  <2>2. stamps[m] + Window < now /\ stamps[m] + Window >= now
    BY <1>1, <1>2, <2>1 DEF Begins, Oldest, n
  <2>3. stamps[m] \in Nat BY <1>3, <2>1
  <2> QED BY <2>2, <2>3, WindowAssumption
<1> DEFINE d == m - k
<1>6. d \in 1 .. Len(recent) + 1 /\ d + k = m /\ Len(recent) + 1 - d = n + 1 - m
  BY <1>3, <1>4, <1>5
<1>7. \A i \in 1 .. d - 1 : recent[i] + Window < now
  <2> SUFFICES ASSUME NEW i \in 1 .. d - 1 PROVE recent[i] + Window < now OBVIOUS
  <2>1. i \in 1 .. n - k /\ i + k \in 1 .. m - 1 BY <1>3, <1>4, <1>6
  <2> QED BY <1>1, <1>2, <2>1 DEF Begins, Oldest
<1>8. d <= Len(recent) => recent[d] + Window >= now
  <2> SUFFICES ASSUME d <= Len(recent) PROVE recent[d] + Window >= now OBVIOUS
  <2>1. d \in 1 .. n - k /\ m <= n BY <1>3, <1>4, <1>6
  <2>2. recent[d] = stamps[m] BY <1>1, <1>6, <2>1 DEF Begins
  <2> QED BY <1>2, <2>1, <2>2 DEF Oldest, n
<1> HIDE DEF d
<1>9. Oldest(recent, d) BY <1>6, <1>7, <1>8 DEF Oldest
<1>10. /\ Recent(recent) \in Seq(1 .. MaxTime) /\ Len(Recent(recent)) = Len(recent) + 1 - d
       /\ \A i \in 1 .. Len(recent) + 1 - d : Recent(recent)[i] = recent[i + d - 1]
  BY <1>9, RecentIs
<1>11. /\ Recent(stamps) \in Seq(1 .. MaxTime) /\ Len(Recent(stamps)) = n + 1 - m
       /\ \A i \in 1 .. n + 1 - m : Recent(stamps)[i] = stamps[i + m - 1]
  BY <1>2, RecentIs DEF n
<1>12. ASSUME NEW i \in 1 .. n + 1 - m PROVE Recent(recent)[i] = Recent(stamps)[i]
  <2>1. i + d - 1 \in 1 .. n - k /\ (i + d - 1) + k = i + m - 1
    BY <1>3, <1>4, <1>6, <1>12
  <2>2. recent[i + d - 1] = stamps[i + m - 1] BY <1>1, <2>1 DEF Begins
  <2> QED BY <1>6, <1>10, <1>11, <2>2
<1> QED BY <1>6, <1>10, <1>11, <1>12, SeqEqual

(* What a version of the fields says is what was counted up to it.          *)
Version(s) ==
  /\ s \in Saved /\ s.count <= Len(counted)
  /\ s.toGen = IF s.count = 0 THEN 0 ELSE counted[s.count]
  /\ Follows(s.recent, counted, s.count)

Records ==
  /\ TypeOK /\ Len(counted) = store.count /\ Version(store)
  /\ \A s \in onDisk : Version(s)
  /\ \A j \in jobs : Version(j.saves)

LEMMA InitRecords == Init => Records
<1> SUFFICES ASSUME Init PROVE Records OBVIOUS
<1> USE DEF Init
<1>1. Zeros \in Saved
  <2>1. << >> \in Seq(1 .. MaxTime) BY EmptySeq
  <2> QED BY <2>1, BoundAssumption DEF Saved, Zeros
<1>2. TypeOK
  <2>1. counted \in Seq(1 .. MaxTime) BY EmptySeq
  <2>2. held \in BOOLEAN OBVIOUS
  <2>3. strokes \in 0 .. MaxStrokes /\ served \in 0 .. MaxStrokes /\ now \in 1 .. MaxTime
    BY BoundAssumption
  <2>4. /\ store \in Saved /\ file \in Saved /\ file \in onDisk /\ onDisk \subseteq Saved
        /\ jobs \subseteq [saves : Saved, step : {"replace", "fsync"}]
    BY <1>1
  <2> QED BY <2>1, <2>2, <2>3, <2>4 DEF TypeOK
<1>3. Version(Zeros)
  <2>1. Begins(<< >>, << >>, 0, 0) BY DEF Begins
  <2> QED BY <1>1, <2>1 DEF Version, Follows, Zeros
<1> QED BY <1>2, <1>3 DEF Records, Zeros

(* Time passes, and more is counted: what was counted up to a version stays.*)
LEMMA VersionStays ==
  ASSUME TypeOK, NEW s, Version(s), now' \in Nat, now' >= now,
         s.count <= Len(counted'), \A i \in 1 .. s.count : counted'[i] = counted[i]
  PROVE  Version(s)'
<1>1. /\ s \in Saved /\ s.count \in Nat /\ s.count <= Len(counted)
      /\ s.toGen = IF s.count = 0 THEN 0 ELSE counted[s.count]
  BY BoundAssumption DEF Version, Saved
<1>2. s.toGen = IF s.count = 0 THEN 0 ELSE counted'[s.count]
  BY <1>1
<1>3. PICK k : Begins(s.recent, counted, s.count, k) BY DEF Version, Follows
<1>4. \A i \in 1 .. Len(counted) : counted[i] \in Nat
  BY BoundAssumption, ElementOfSeq DEF TypeOK
<1>5. k \in 0 .. s.count /\ now \in Nat /\ Len(counted) \in Nat
  BY <1>3, LenProperties, BoundAssumption DEF Begins, TypeOK
<1>6. \A i \in 1 .. s.count - k : s.recent[i] = counted'[i + k]
  BY <1>1, <1>3, <1>5 DEF Begins
<1>7. \A i \in 1 .. k : counted'[i] + Window < now'
  <2> SUFFICES ASSUME NEW i \in 1 .. k PROVE counted'[i] + Window < now' OBVIOUS
  <2>1. i \in 1 .. s.count /\ i \in 1 .. Len(counted) BY <1>1, <1>5
  <2>2. counted[i] + Window < now /\ counted[i] \in Nat BY <1>3, <1>4, <2>1 DEF Begins
  <2>3. counted'[i] = counted[i] BY <2>1
  <2>4. counted[i] + Window < now' BY <1>5, <2>2, WindowAssumption
  <2> QED BY <2>3, <2>4
<1>8. Follows(s.recent, counted, s.count)'
  <2>1. Len(s.recent) = s.count - k BY <1>3 DEF Begins
  <2> QED BY <1>5, <1>6, <1>7, <2>1 DEF Follows, Begins
<1> QED BY <1>1, <1>2, <1>8 DEF Version

(* Most steps leave the fields and what was counted alone.                  *)
LEMMA VersionsStay ==
  ASSUME Records, TypeOK', now' >= now, UNCHANGED <<store, counted>>,
         onDisk' \subseteq onDisk \cup {file, store} \cup {j.saves : j \in jobs},
         \A j \in jobs' : j.saves \in {i.saves : i \in jobs}
  PROVE  Records'
<1>1. now' \in Nat BY BoundAssumption DEF TypeOK
<1>2. ASSUME NEW s, Version(s) PROVE Version(s)'
  <2>1. TypeOK BY DEF Records
  <2>2. s.count <= Len(counted') /\ \A i \in 1 .. s.count : counted'[i] = counted[i]
    BY <1>2 DEF Version
  <2> QED BY <1>1, <1>2, <2>1, <2>2, VersionStays
<1>3. Version(store)' BY <1>2 DEF Records, Version
<1>4. \A s \in onDisk' : Version(s)'
  <2>1. \A s \in onDisk' : Version(s) BY DEF Records, TypeOK
  <2> QED BY <1>2, <2>1
<1>5. ASSUME NEW j \in jobs' PROVE Version(j.saves)'
  <2>1. Version(j.saves) BY DEF Records
  <2> QED BY <1>2, <2>1
<1> QED BY <1>3, <1>4, <1>5 DEF Records

LEMMA QuietRecords ==
  ASSUME Records,
         \/ LoadDisconnect \/ PulseEnds \/ Stroke \/ HoldEnds \/ Tick \/ GenWatchRead
         \/ SaveRenames \/ SaveFsyncs \/ SaveFails
         \/ \E j \in jobs : JobRenames(j) \/ JobFsyncs(j) \/ JobFails(j)
  PROVE  Records'
<1> DEFINE Copies == /\ TypeOK' /\ now' >= now /\ UNCHANGED <<store, counted>>
                     /\ onDisk' \subseteq onDisk \cup {file, store} \cup {j.saves : j \in jobs}
                     /\ \A j \in jobs' : j.saves \in {i.saves : i \in jobs}
<1>1. Copies
  <2> USE BoundAssumption DEF Records, TypeOK, diskVars, switchVars
  <2>1. CASE LoadDisconnect BY <2>1 DEF LoadDisconnect
  <2>2. CASE PulseEnds BY <2>2 DEF PulseEnds
  <2>3. CASE Stroke BY <2>3 DEF Stroke
  <2>4. CASE HoldEnds
    <3>1. /\ held' = FALSE
          /\ UNCHANGED <<at, phase, strokes, now, position, store, loop, jobs, file, onDisk,
                         failed, served, counted>>
      BY <2>4 DEF HoldEnds
    <3>2. held' \in BOOLEAN BY <3>1
    <3>3. now' >= now BY <3>1
    <3>4. TypeOK' BY <3>1, <3>2
    <3> QED BY <3>1, <3>3, <3>4
  <2>5. CASE Tick BY <2>5 DEF Tick
  <2>6. CASE GenWatchRead BY <2>6 DEF GenWatchRead, Saved
  <2>7. CASE SaveRenames BY <2>7 DEF SaveRenames, Rename
  <2>8. CASE SaveFsyncs BY <2>8 DEF SaveFsyncs, Fsync
  <2>9. CASE SaveFails BY <2>9 DEF SaveFails
  <2>10. ASSUME NEW j \in jobs, JobRenames(j) PROVE Copies
    BY <2>10 DEF JobRenames, Rename
  <2>11. ASSUME NEW j \in jobs, JobFsyncs(j) PROVE Copies
    BY <2>11 DEF JobFsyncs, Fsync
  <2>12. ASSUME NEW j \in jobs, JobFails(j) PROVE Copies
    BY <2>12 DEF JobFails
  <2> QED BY <2>1, <2>2, <2>3, <2>4, <2>5, <2>6, <2>7, <2>8, <2>9, <2>10, <2>11, <2>12
<1> QED BY <1>1, VersionsStay

(* A transfer is appended to what was counted and to the list at once.      *)
LEMMA SampleRecords ==
  ASSUME Records, Inv', Sample
  PROVE  Records'
<1>1. PICK p \in Readings :
        /\ position' = p /\ store' = Counting(p)
        /\ counted' = IF TransferredToGen(p) THEN Append(counted, now) ELSE counted
        /\ loop' = IF TransferredToGen(p) THEN "replace" ELSE loop
        /\ jobs' = IF RetransferredToUtil(p)
                     THEN jobs \cup {[saves |-> store', step |-> "replace"]}
                     ELSE jobs
  BY DEF Sample
<1>2. UNCHANGED <<at, phase, strokes, now, file, onDisk, failed, served>>
      /\ held' = (held \/ phase = "pulsing")
  BY DEF Sample, switchVars
<1>3. TypeOK /\ Len(counted) = store.count /\ Version(store) /\ store \in Saved
  BY DEF Records, TypeOK
<1>4. /\ now \in 1 .. MaxTime /\ now \in Nat /\ store.count \in Nat /\ counted \in Seq(1 .. MaxTime)
      /\ store.recent \in Seq(1 .. MaxTime) /\ store.toGen \in 0 .. MaxTime
      /\ store.toUtil \in 0 .. MaxTime /\ MaxTime \in Nat
  BY <1>3, BoundAssumption DEF TypeOK, Saved
<1> DEFINE arrived == TransferredToGen(p)
           list == IF arrived THEN Append(store.recent, now) ELSE store.recent
           n == IF arrived THEN store.count + 1 ELSE store.count
<1>5. /\ store'.count = n /\ store'.toGen = IF arrived THEN now ELSE store.toGen
      /\ store'.toUtil = IF RetransferredToUtil(p) THEN now ELSE store.toUtil
      /\ store'.recent = Recent(list)
      /\ store' = [count |-> store'.count, toGen |-> store'.toGen,
                   toUtil |-> store'.toUtil, recent |-> store'.recent]
  BY <1>1 DEF Counting
<1>6. arrived \in BOOLEAN BY DEF TransferredToGen
<1>7. counted' = IF arrived THEN Append(counted, now) ELSE counted BY <1>1
<1> HIDE DEF arrived
<1>8. /\ n \in Nat /\ n >= store.count /\ n <= store.count + 1
      /\ n > store.count => arrived
  BY <1>4, <1>6
<1>9. /\ counted' \in Seq(1 .. MaxTime)
      /\ Len(counted') = IF arrived THEN Len(counted) + 1 ELSE Len(counted)
      /\ \A i \in 1 .. Len(counted) : counted'[i] = counted[i]
      /\ arrived => counted'[Len(counted) + 1] = now
  <2>1. CASE arrived
    <3>1. counted' = Append(counted, now) BY <1>7, <2>1
    <3> QED BY <1>4, <2>1, <3>1, AppendProperties
  <2>2. CASE ~arrived
    <3>1. counted' = counted BY <1>7, <2>2
    <3> QED BY <1>4, <2>2, <3>1
  <2> QED BY <2>1, <2>2
<1>10. /\ list \in Seq(1 .. MaxTime) /\ Len(store.recent) \in Nat
       /\ Len(list) = IF arrived THEN Len(store.recent) + 1 ELSE Len(store.recent)
       /\ \A i \in 1 .. Len(store.recent) : list[i] = store.recent[i]
       /\ arrived => list[Len(store.recent) + 1] = now
  <2>1. Len(store.recent) \in Nat BY <1>4, LenProperties
  <2>2. CASE arrived
    <3>1. list = Append(store.recent, now) BY <2>2
    <3> QED BY <1>4, <2>1, <2>2, <3>1, AppendProperties
  <2>3. CASE ~arrived
    <3>1. list = store.recent BY <2>3
    <3> QED BY <1>4, <2>1, <2>3, <3>1
  <2> QED BY <2>2, <2>3
<1> HIDE DEF list
<1>11. counted' \in Seq(1 .. MaxTime) /\ Len(counted') = n /\ list \in Seq(1 .. MaxTime)
  BY <1>3, <1>9, <1>10
<1>12. \A i \in 1 .. Len(counted) : counted'[i] = counted[i]
  BY <1>9
<1>13. arrived => counted'[n] = now
  BY <1>3, <1>9
<1>14. Follows(list, counted', n)
  <2>1. PICK k : Begins(store.recent, counted, store.count, k)
    BY <1>3 DEF Version, Follows
  <2>2. k \in 0 .. store.count /\ Len(store.recent) = store.count - k
    BY <2>1 DEF Begins
  <2>3. ASSUME NEW i \in 1 .. k PROVE counted'[i] + Window < now
    <3>1. i \in 1 .. Len(counted) BY <1>3, <1>4, <2>2
    <3>2. counted[i] + Window < now BY <2>1 DEF Begins
    <3> QED BY <1>12, <3>1, <3>2
  <2>4. Len(list) = n - k BY <1>4, <1>10, <2>2
  <2>5. ASSUME NEW i \in 1 .. n - k PROVE list[i] = counted'[i + k]
    <3>1. CASE i \in 1 .. store.count - k
      <4>1. list[i] = store.recent[i] BY <1>10, <2>2, <3>1
      <4>2. store.recent[i] = counted[i + k] BY <2>1, <3>1 DEF Begins
      <4>3. i + k \in 1 .. Len(counted) BY <1>3, <1>4, <2>2, <3>1
      <4> QED BY <1>12, <4>1, <4>2, <4>3
    <3>2. CASE i \notin 1 .. store.count - k
      <4>1. arrived /\ i = store.count - k + 1 /\ i + k = n
        <5> HIDE DEF n
        <5>1. i \in Nat /\ i >= 1 /\ i <= n - k BY <1>8, <2>2, <2>5
        <5>2. ~(i <= store.count - k) BY <1>4, <2>2, <3>2, <5>1
        <5>3. store.count \in Nat /\ k \in Nat /\ k <= store.count BY <1>4, <2>2
        <5>4. i > store.count - k /\ i <= n - k /\ n \in Nat /\ n <= store.count + 1
          BY <1>8, <5>1, <5>2, <5>3
        <5>5. i = store.count - k + 1 /\ i + k = n /\ n > store.count
          BY <5>1, <5>3, <5>4
        <5> QED BY <1>8, <5>5
      <4>2. list[i] = now BY <1>10, <2>2, <4>1
      <4> QED BY <1>13, <4>1, <4>2
    <3> QED BY <3>1, <3>2
  <2>6. k \in 0 .. n BY <1>4, <2>2
  <2> QED BY <2>3, <2>4, <2>5, <2>6 DEF Follows, Begins
<1>15. n \in Nat BY <1>4
<1> HIDE DEF n
<1>16. Follows(Recent(list), counted', n) /\ Recent(list) \in Seq(1 .. MaxTime)
  BY <1>4, <1>11, <1>14, <1>15, RecentFollows
<1>17. store' \in Saved
  <2>1. store'.count \in 0 .. MaxStrokes
    <3>1. store'.count <= strokes' BY DEF Inv, Owed
    <3>2. strokes' \in 0 .. MaxStrokes BY <1>2, <1>3 DEF TypeOK
    <3> QED BY <1>5, <1>15, <3>1, <3>2, BoundAssumption
  <2>2. store'.toGen \in 0 .. MaxTime /\ store'.toUtil \in 0 .. MaxTime
    BY <1>4, <1>5
  <2>3. store'.recent \in Seq(1 .. MaxTime) BY <1>5, <1>16
  <2> QED BY <1>5, <2>1, <2>2, <2>3 DEF Saved
<1>18. TypeOK'
  <2>1. position' \in {"unknown", "utility", "transferring", "generator"}
    BY <1>1, <1>2, <1>3 DEF Readings, TypeOK
  <2>2. jobs' \subseteq [saves : Saved, step : {"replace", "fsync"}]
    BY <1>1, <1>3, <1>17 DEF TypeOK
  <2> QED BY <1>1, <1>2, <1>3, <1>11, <1>17, <2>1, <2>2 DEF TypeOK
<1>19. Version(store)'
  <2>1. store'.toGen = IF n = 0 THEN 0 ELSE counted'[n]
    <3>1. CASE arrived
      <4>1. n # 0 BY <1>4, <3>1 DEF n
      <4> QED BY <1>5, <1>13, <3>1, <4>1
    <3>2. CASE ~arrived BY <1>3, <1>5, <1>7, <3>2 DEF n, Version
    <3> QED BY <3>1, <3>2
  <2>2. Follows(store.recent, counted, store.count)'
    BY <1>2, <1>5, <1>16 DEF Follows, Begins
  <2> QED BY <1>5, <1>11, <1>15, <1>17, <2>1, <2>2 DEF Version
<1>20. ASSUME NEW s, Version(s) PROVE Version(s)'
  <2>1. s.count \in Nat /\ s.count <= store.count
    BY <1>3, <1>20, BoundAssumption DEF Version, Saved
  <2>2. s.count <= Len(counted') /\ \A i \in 1 .. s.count : counted'[i] = counted[i]
    <3>1. s.count <= n /\ 1 .. s.count \subseteq 1 .. Len(counted)
      BY <1>3, <1>4, <1>8, <2>1
    <3> QED BY <1>11, <1>12, <3>1
  <2> QED BY <1>2, <1>3, <1>4, <1>20, <2>2, VersionStays
<1>21. \A s \in onDisk' : Version(s)' BY <1>2, <1>20 DEF Records
<1>22. ASSUME NEW j \in jobs' PROVE Version(j.saves)'
  <2>1. CASE j \in jobs BY <1>20, <2>1 DEF Records
  <2>2. CASE j \notin jobs
    <3>1. j.saves = store' BY <1>1, <2>2
    <3> QED BY <1>19, <3>1 DEF Version
  <2> QED BY <2>1, <2>2
<1> QED BY <1>5, <1>11, <1>18, <1>19, <1>21, <1>22 DEF Records

(* A process starts from a version, and what was counted after it is lost.  *)
LEMMA StartRecords ==
  ASSUME Records, NEW s \in onDisk, StartFrom(s), onDisk' = {s}
  PROVE  Records'
<1>1. /\ file' = s /\ counted' = SubSeq(counted, 1, s.count)
      /\ store' = [count |-> s.count, toGen |-> s.toGen, toUtil |-> s.toUtil,
                   recent |-> Recent(s.recent)]
      /\ held' = FALSE /\ position' = "unknown" /\ loop' = "free" /\ jobs' = {}
      /\ UNCHANGED <<at, phase, strokes, now, failed, served>>
  BY DEF StartFrom, switchVars
<1>2. TypeOK /\ Version(s) /\ s \in Saved BY DEF Records, TypeOK
<1>3. /\ s.count \in Nat /\ s.count \in 0 .. MaxStrokes /\ s.count <= Len(counted)
      /\ now \in Nat /\ s.recent \in Seq(1 .. MaxTime) /\ counted \in Seq(1 .. MaxTime)
      /\ s.toGen \in 0 .. MaxTime /\ s.toUtil \in 0 .. MaxTime
  BY <1>2, BoundAssumption DEF TypeOK, Saved, Version
<1>4. /\ counted' \in Seq(1 .. MaxTime) /\ Len(counted') = s.count
      /\ \A i \in 1 .. s.count : counted'[i] = counted[i]
  <2>1. \A i \in 1 .. s.count : counted[i] \in 1 .. MaxTime
    <3>1. Len(counted) \in Nat BY <1>3, LenProperties
    <3>2. 1 .. s.count \subseteq 1 .. Len(counted) BY <1>3, <3>1
    <3> QED BY <1>3, <3>2, ElementOfSeq
  <2>2. 1 \in Int /\ s.count \in Int BY <1>3
  <2>3. SubSeq(counted, 1, s.count) \in Seq(1 .. MaxTime) BY <2>1, <2>2, SubSeqProperties
  <2>4. Len(SubSeq(counted, 1, s.count)) = IF 1 <= s.count THEN s.count - 1 + 1 ELSE 0
    BY <2>1, <2>2, SubSeqProperties
  <2>5. \A i \in 1 .. s.count - 1 + 1 : SubSeq(counted, 1, s.count)[i] = counted[1 + i - 1]
    BY <2>1, <2>2, SubSeqProperties
  <2> QED BY <1>1, <1>3, <2>3, <2>4, <2>5
<1>5. Version(s)'
  <2>1. now' \in Nat /\ now' >= now /\ s.count <= Len(counted')
    BY <1>1, <1>3, <1>4
  <2> QED BY <1>2, <1>4, <2>1, VersionStays
<1>6. Follows(s.recent, counted', s.count)
  BY <1>1, <1>5 DEF Version, Follows, Begins
<1>7. Follows(Recent(s.recent), counted', s.count) /\ Recent(s.recent) \in Seq(1 .. MaxTime)
  BY <1>3, <1>6, RecentFollows
<1>8. store' \in Saved BY <1>1, <1>3, <1>7 DEF Saved
<1>9. Version(store)'
  <2>1. Follows(store.recent, counted, store.count)'
    BY <1>1, <1>7 DEF Follows, Begins
  <2>2. store'.count = s.count /\ store'.toGen = s.toGen BY <1>1
  <2> QED BY <1>4, <1>5, <1>8, <2>1, <2>2 DEF Version
<1>10. TypeOK' BY <1>1, <1>2, <1>4, <1>8 DEF TypeOK
<1> QED BY <1>1, <1>4, <1>5, <1>9, <1>10 DEF Records

LEMMA NextRecords ==
  ASSUME WritesBack, Records, Inv', [Next]_vars
  PROVE  Records'
<1>1. CASE \/ LoadDisconnect \/ PulseEnds \/ Stroke \/ HoldEnds \/ Tick \/ GenWatchRead
           \/ SaveRenames \/ SaveFsyncs \/ SaveFails
           \/ \E j \in jobs : JobRenames(j) \/ JobFsyncs(j) \/ JobFails(j)
  BY <1>1, QuietRecords
<1>2. CASE Sample BY <1>2, SampleRecords
<1>3. CASE Restart
  <2>1. file \in onDisk /\ StartFrom(file) /\ onDisk' = {file}
    BY <1>3 DEF Restart, Records, TypeOK
  <2> QED BY <2>1, StartRecords
<1>4. CASE PowerCut BY <1>4, StartRecords DEF PowerCut
<1>5. CASE UNCHANGED vars
  <2>1. /\ UNCHANGED <<at, phase, strokes, now, held, position, store, loop, jobs, file, onDisk,
                      failed, served, counted>>
        /\ TypeOK
    BY <1>5 DEF vars, diskVars, switchVars, Records
  <2>2. TypeOK' BY <2>1 DEF TypeOK
  <2>3. now' >= now BY <2>1, BoundAssumption DEF TypeOK
  <2> QED BY <2>1, <2>2, <2>3, VersionsStay
<1> QED BY <1>1, <1>2, <1>3, <1>4, <1>5 DEF Next

(* The count, the timestamp of the last transfer and the 24 h window that   *)
(* the store persists describe the same transfers, after any sequence of    *)
(* saves, kills and power cuts (apply_input_snapshot, StateFile.load).      *)
THEOREM RecordsAgree ==
  ASSUME DiskKeepsUp, WritesBack
  PROVE  Spec => []RecordSafety
<1>1. Inv /\ Inv' /\ Records /\ [Next]_vars => Records' BY NextRecords
<1>2. Records => RecordSafety
  <2> SUFFICES ASSUME Records PROVE RecordSafety OBVIOUS
  <2>1. /\ TypeOK /\ Len(counted) = store.count /\ Version(store)
        /\ counted \in Seq(1 .. MaxTime) /\ store.recent \in Seq(1 .. MaxTime) /\ now \in Nat
    BY BoundAssumption DEF Records, TypeOK, Saved
  <2>2. Recent(store.recent) = Recent(counted)
    BY <2>1, SameWindow DEF Version
  <2>3. store.toGen = IF counted = << >> THEN 0 ELSE counted[Len(counted)]
    <3>1. counted = << >> <=> store.count = 0 BY <2>1, EmptySeq
    <3> QED BY <2>1, <3>1 DEF Version
  <2> QED BY <2>1, <2>2, <2>3 DEF RecordSafety, FieldsAgree
<1> QED BY <1>1, <1>2, InitRecords, Invariance, PTL DEF Spec

=============================================================================
