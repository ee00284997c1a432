---------------------------- MODULE Poller_proofs ----------------------------
(***************************************************************************)
(* What a link's health promises whoever reads it in the middle of a poll, *)
(* for any number of batches and any thresholds.                           *)
(*                                                                         *)
(* The step to watch is the short way back: it is open to a link that is   *)
(* not flapping, and a link that is healthy cannot start to flap without   *)
(* being lost first, so the window only has to vouch for it afterwards.    *)
(***************************************************************************)
EXTENDS Poller, TLAPS

Inv == TypeOK /\ FlappingEarnsHealth /\ FailureIsSeen

-----------------------------------------------------------------------------
LEMMA Constants ==
  /\ PrimeBatches \in Nat /\ BaseBatches \in Nat
  /\ LostAfter \in Nat /\ Streak \in Nat /\ EpisodesKept \in Nat /\ Window \in Nat
  /\ LostAfter > 0 /\ Streak > 0 /\ Window > 0
  /\ FlapMax \in Nat /\ FlapMax > 0
  /\ \A t \in Tier : Batches(t) \in Nat /\ Batches(t) >= 1
BY BatchAssumption, HealthAssumption, FlapAssumption DEF Batches

LEMMA InitInv == Init => Inv
<1> SUFFICES ASSUME Init PROVE Inv OBVIOUS
<1>1. TypeOK
  <2>1. awaits \in [Tier -> Nat] BY DEF Init
  <2>2. \A t \in Tier : awaits[t] <= Batches(t)
    BY BatchAssumption DEF Init, Batches, Tier
  <2>3. window \in Seq(BOOLEAN) /\ Len(window) <= Window
    BY HealthAssumption DEF Init
  <2>4. failures \in 0 .. LostAfter /\ successes \in 0 .. Streak /\ episodes \in 0 .. EpisodesKept
    BY HealthAssumption DEF Init
  <2>5. /\ comms = "healthy" /\ primeGood = "never" /\ running = FALSE
        /\ read = {} /\ link \in Links
    BY DEF Init
  <2> QED BY <2>1, <2>2, <2>3, <2>4, <2>5 DEF TypeOK
<1>2. ~Flapping BY FlapAssumption DEF Init, Flapping
<1> QED BY <1>1, <1>2 DEF Init, Inv, FlappingEarnsHealth, FailureIsSeen

(* The window slides: it never outgrows its length. *)
LEMMA SlideTyped ==
  ASSUME TypeOK, NEW ok \in BOOLEAN
  PROVE  Slide(ok) \in Seq(BOOLEAN) /\ Len(Slide(ok)) <= Window
<1>1. window \in Seq(BOOLEAN) /\ Len(window) <= Window /\ Window \in Nat \ {0}
  BY HealthAssumption DEF TypeOK
<1>2. CASE Len(window) < Window
  <2>1. Slide(ok) = Append(window, ok) BY <1>2 DEF Slide
  <2> QED BY <1>1, <1>2, <2>1
<1>3. CASE Len(window) >= Window
  <2>1. Slide(ok) = Append(Tail(window), ok) BY <1>1, <1>3 DEF Slide
  <2>2. window # << >> BY <1>1, <1>3
  <2>3. Tail(window) \in Seq(BOOLEAN) /\ Len(Tail(window)) = Len(window) - 1
    BY <1>1, <2>2
  <2> QED BY <1>1, <1>3, <2>1, <2>3
<1> QED BY <1>1, <1>2, <1>3

(* A sample leaves health that is what it claims to be. *)
LEMMA RecordInv ==
  ASSUME Inv, NEW ok \in BOOLEAN, Record(ok)
  PROVE  /\ comms' \in {"healthy", "degraded", "lost"}
         /\ failures' \in 0 .. LostAfter /\ successes' \in 0 .. Streak
         /\ window' \in Seq(BOOLEAN) /\ Len(window') <= Window
         /\ episodes' \in 0 .. EpisodesKept
         /\ FlappingEarnsHealth' /\ FailureIsSeen'
<1>1. /\ failures \in 0 .. LostAfter /\ successes \in 0 .. Streak
      /\ episodes \in 0 .. EpisodesKept
      /\ LostAfter \in Nat \ {0} /\ Streak \in Nat \ {0} /\ EpisodesKept \in Nat \ {0}
  BY HealthAssumption DEF Inv, TypeOK
<1>2. /\ failures' = IF ok THEN 0 ELSE AtMost(LostAfter, failures + 1)
      /\ successes' = IF ok THEN AtMost(Streak, successes + 1) ELSE 0
      /\ window' = Slide(ok)
      /\ comms' = Classify(failures', successes', window')
      /\ IF comms' = "lost" /\ comms # "lost" THEN NoteLost ELSE UNCHANGED episodes
  BY DEF Record
<1>3. failures' \in 0 .. LostAfter /\ successes' \in 0 .. Streak
  BY <1>1, <1>2 DEF AtMost
<1>4. window' \in Seq(BOOLEAN) /\ Len(window') <= Window
  BY <1>2, SlideTyped DEF Inv
<1>5. comms' \in {"healthy", "degraded", "lost"} BY <1>2 DEF Classify
<1>6. episodes' \in 0 .. EpisodesKept BY <1>1, <1>2 DEF NoteLost, AtMost
<1>7. FlappingEarnsHealth'
  <2> SUFFICES ASSUME comms' = "healthy", Flapping' PROVE MostlyGood(window')
    BY DEF FlappingEarnsHealth, MostlyGood, Failed
  <2>1. episodes' = episodes BY <1>2
  <2>2. Flapping BY <2>1 DEF Flapping
  <2> QED BY <1>2, <2>2 DEF Classify
<1>8. FailureIsSeen'
  <2> SUFFICES ASSUME failures' > 0 PROVE comms' # "healthy" BY DEF FailureIsSeen
  <2>1. ~ok BY <1>2
  <2>2. successes' = 0 /\ ~(successes' >= Streak) BY <1>1, <1>2, <2>1
  <2> QED BY <1>2, <2>2 DEF Classify
<1> QED BY <1>3, <1>4, <1>5, <1>6, <1>7, <1>8

-----------------------------------------------------------------------------
(* A poll moves within its batches. *)
LEMMA AwaitsTyped ==
  ASSUME TypeOK, NEW t \in Tier, NEW n \in 0 .. Batches(t),
         awaits' = [awaits EXCEPT ![t] = n]
  PROVE  awaits' \in [Tier -> Nat] /\ \A u \in Tier : awaits'[u] <= Batches(u)
<1>1. awaits \in [Tier -> Nat] /\ \A u \in Tier : awaits[u] <= Batches(u) BY DEF TypeOK
<1>2. n \in Nat /\ n <= Batches(t) BY Constants
<1>3. awaits' \in [Tier -> Nat] BY <1>1, <1>2
<1>4. ASSUME NEW u \in Tier PROVE awaits'[u] <= Batches(u)
  <2>1. CASE u = t BY <1>1, <1>2, <2>1
  <2>2. CASE u # t BY <1>1, <2>2
  <2> QED BY <2>1, <2>2
<1> QED BY <1>3, <1>4

LEMMA SampleInv ==
  ASSUME Inv, NEW t \in Tier, Sample(t)
  PROVE  Inv'
<1>1. PICK outcome \in Outcomes(t) :
        LET b  == awaits[t]
            bs == IF t = "prime" /\ Brings(b, outcome) THEN read \cup {b} ELSE read
        IN  /\ Record(outcome # "none")
            /\ IF b < Batches(t)
                 THEN /\ awaits' = [awaits EXCEPT ![t] = b + 1]
                      /\ read' = bs
                      /\ UNCHANGED <<primeGood, running>>
                 ELSE /\ awaits' = [awaits EXCEPT ![t] = 0]
                      /\ read' = IF t = "prime" THEN {} ELSE read
                      /\ primeGood' = Stamp(t, bs)
                      /\ running' = TRUE
  BY DEF Sample
<1>2. awaits[t] # 0 /\ UNCHANGED link BY DEF Sample
<1>3. /\ awaits \in [Tier -> Nat] /\ \A u \in Tier : awaits[u] <= Batches(u)
      /\ read \subseteq 1 .. PrimeBatches /\ running \in BOOLEAN /\ link \in Links
      /\ primeGood \in {"never", "recently", "too long ago"}
  BY DEF Inv, TypeOK
<1>4. PrimeBatches \in Nat BY Constants
<1>5. awaits[t] \in 1 .. Batches(t) /\ Batches(t) \in Nat
  <2>1. awaits[t] \in Nat /\ awaits[t] <= Batches(t) BY <1>3
  <2> QED BY <1>2, <2>1, Constants
<1>6. awaits' \in [Tier -> Nat] /\ \A u \in Tier : awaits'[u] <= Batches(u)
  <2>1. PICK n \in 0 .. Batches(t) : awaits' = [awaits EXCEPT ![t] = n]
    BY <1>1, <1>5
  <2> QED BY <2>1, AwaitsTyped DEF Inv
<1>7. read' \subseteq 1 .. PrimeBatches
  <2>1. t = "prime" => awaits[t] \in 1 .. PrimeBatches BY <1>5 DEF Batches
  <2> QED BY <1>1, <1>3, <2>1
<1>8. primeGood' \in {"never", "recently", "too long ago"} /\ running' \in BOOLEAN
  BY <1>1, <1>3 DEF Stamp
<1>9. (outcome # "none") \in BOOLEAN OBVIOUS
<1>10. /\ comms' \in {"healthy", "degraded", "lost"}
       /\ failures' \in 0 .. LostAfter /\ successes' \in 0 .. Streak
       /\ window' \in Seq(BOOLEAN) /\ Len(window') <= Window
       /\ episodes' \in 0 .. EpisodesKept
       /\ FlappingEarnsHealth' /\ FailureIsSeen'
  BY <1>1, <1>9, RecordInv
<1> QED BY <1>2, <1>3, <1>6, <1>7, <1>8, <1>10 DEF Inv, TypeOK

LEMMA WatchdogInv ==
  ASSUME Inv, Watchdog
  PROVE  Inv'
<1>1. comms' = "lost" /\ failures' = LostAfter /\ successes' = 0 /\ NoteLost
  BY DEF Watchdog
<1>2. UNCHANGED <<window, primeGood, running, awaits, read, link>> BY DEF Watchdog
<1>3. episodes' \in 0 .. EpisodesKept
  <2>1. episodes \in 0 .. EpisodesKept BY DEF Inv, TypeOK
  <2> QED BY <1>1, <2>1, Constants DEF NoteLost, AtMost
<1>4. failures' \in 0 .. LostAfter /\ successes' \in 0 .. Streak
  BY <1>1, Constants
<1>5. TypeOK' BY <1>1, <1>2, <1>3, <1>4 DEF Inv, TypeOK
<1> QED BY <1>1, <1>5 DEF Inv, FlappingEarnsHealth, FailureIsSeen

(* An episode that is forgotten can only end the flapping. *)
LEMMA EpisodeAgesInv ==
  ASSUME Inv, EpisodeAges
  PROVE  Inv'
<1>1. episodes \in 0 .. EpisodesKept /\ episodes > 0 /\ episodes' = episodes - 1
  BY DEF EpisodeAges, Inv, TypeOK
<1>2. UNCHANGED <<comms, failures, successes, window, primeGood, running, awaits, read, link>>
  BY DEF EpisodeAges
<1>3. TypeOK'
  <2>1. episodes' \in 0 .. EpisodesKept BY <1>1, Constants
  <2> QED BY <1>2, <2>1 DEF Inv, TypeOK
<1>4. Flapping' => Flapping BY <1>1, Constants DEF Flapping
<1> QED BY <1>2, <1>3, <1>4
        DEF Inv, FlappingEarnsHealth, FailureIsSeen, MostlyGood, Failed

(* The steps that leave the health alone. *)
LEMMA QuietInv ==
  ASSUME Inv, UNCHANGED healthVars,
         awaits' \in [Tier -> Nat], \A t \in Tier : awaits'[t] <= Batches(t),
         read' = read, running' \in BOOLEAN, link' \in Links,
         primeGood' \in {"never", "recently", "too long ago"}
  PROVE  Inv'
BY DEF Inv, TypeOK, healthVars, FlappingEarnsHealth, FailureIsSeen, Flapping, MostlyGood, Failed

LEMMA NextInv == Inv /\ [Next]_vars => Inv'
<1> SUFFICES ASSUME Inv, [Next]_vars PROVE Inv' OBVIOUS
<1>1. /\ awaits \in [Tier -> Nat] /\ \A t \in Tier : awaits[t] <= Batches(t)
      /\ running \in BOOLEAN /\ link \in Links
      /\ primeGood \in {"never", "recently", "too long ago"}
  BY DEF Inv, TypeOK
<1>2. \A t \in Tier : Batches(t) \in Nat /\ Batches(t) >= 1 BY Constants
<1>3. ASSUME NEW t \in Tier, Begin(t) PROVE Inv'
  <2>1. /\ awaits' \in [Tier -> Nat] /\ \A u \in Tier : awaits'[u] <= Batches(u)
        /\ UNCHANGED <<healthVars, primeGood, running, read, link>>
    <3>1. /\ awaits' = [awaits EXCEPT ![t] = 1]
          /\ UNCHANGED <<healthVars, primeGood, running, read, link>>
      BY <1>3 DEF Begin
    <3>2. 1 \in 0 .. Batches(t) BY <1>2
    <3> QED BY <3>1, <3>2, AwaitsTyped DEF Inv
  <2> QED BY <1>1, <2>1, QuietInv
<1>4. ASSUME NEW t \in Tier, Sample(t) PROVE Inv' BY <1>4, SampleInv
<1>5. CASE SeedTimesOut
  <2>1. /\ awaits' \in [Tier -> Nat] /\ \A u \in Tier : awaits'[u] <= Batches(u)
        /\ running' = TRUE /\ UNCHANGED <<healthVars, primeGood, read, link>>
    <3>1. /\ awaits' = [awaits EXCEPT !["base"] = 0]
          /\ running' = TRUE /\ UNCHANGED <<healthVars, primeGood, read, link>>
      BY <1>5 DEF SeedTimesOut
    <3>2. "base" \in Tier BY DEF Tier
    <3>3. 0 \in 0 .. Batches("base") BY <1>2, <3>2
    <3> QED BY <3>1, <3>2, <3>3, AwaitsTyped DEF Inv
  <2> QED BY <1>1, <2>1, QuietInv
<1>6. CASE PrimeFallsSilent BY <1>1, <1>6, QuietInv DEF PrimeFallsSilent
<1>7. CASE EpisodeAges BY <1>7, EpisodeAgesInv
<1>8. CASE Watchdog BY <1>8, WatchdogInv
<1>9. CASE LinkChanges BY <1>1, <1>9, QuietInv DEF LinkChanges
<1>10. CASE UNCHANGED vars BY <1>1, <1>10, QuietInv DEF vars
<1> QED BY <1>3, <1>4, <1>5, <1>6, <1>7, <1>8, <1>9, <1>10 DEF Next

(* The strengthened invariant holds of every behaviour. *)
THEOREM Invariance == Spec => []Inv
<1> QED BY InitInv, NextInv, PTL DEF Spec

(* The poller keeps its types, whatever its thresholds. *)
THEOREM TypeCorrect == Spec => []TypeOK
<1>1. Inv => TypeOK BY DEF Inv
<1> QED BY <1>1, Invariance, PTL

(* A link that flaps is healthy only with a window that says so: the short  *)
(* way back stays closed to it.                                             *)
THEOREM FlapGate == Spec => []FlappingEarnsHealth
<1>1. Inv => FlappingEarnsHealth BY DEF Inv
<1> QED BY <1>1, Invariance, PTL

(* No link is healthy between a failed batch and the next good one.         *)
THEOREM FailuresShow == Spec => []FailureIsSeen
<1>1. Inv => FailureIsSeen BY DEF Inv
<1> QED BY <1>1, Invariance, PTL

-----------------------------------------------------------------------------
(* A lost link has its failures at the threshold, whether samples or the    *)
(* watchdog lost it: that is why one more failure leaves it lost.           *)
LostCounted == comms = "lost" => failures = LostAfter

LEMMA RecordCounts ==
  ASSUME Inv, NEW ok \in BOOLEAN, Record(ok)
  PROVE  LostCounted'
<1>1. failures' \in 0 .. LostAfter /\ LostAfter \in Nat
  BY RecordInv, Constants
<1>2. comms' = Classify(failures', successes', window') BY DEF Record
<1>3. ASSUME comms' = "lost" PROVE failures' >= LostAfter
  BY <1>2, <1>3 DEF Classify
<1> QED BY <1>1, <1>3 DEF LostCounted

LEMMA NextCounts == Inv /\ LostCounted /\ [Next]_vars => LostCounted'
<1> SUFFICES ASSUME Inv, LostCounted, [Next]_vars PROVE LostCounted' OBVIOUS
<1>1. ASSUME NEW t \in Tier, Sample(t) PROVE LostCounted'
  <2>1. PICK outcome \in Outcomes(t) : Record(outcome # "none") BY <1>1 DEF Sample
  <2>2. (outcome # "none") \in BOOLEAN OBVIOUS
  <2> QED BY <2>1, <2>2, RecordCounts
<1>2. CASE Watchdog BY <1>2 DEF Watchdog, LostCounted
<1>3. CASE UNCHANGED <<comms, failures>> BY <1>3 DEF LostCounted
<1>4. CASE \/ \E t \in Tier : Begin(t)
           \/ SeedTimesOut \/ PrimeFallsSilent \/ EpisodeAges \/ LinkChanges
           \/ UNCHANGED vars
  BY <1>3, <1>4
     DEF Begin, SeedTimesOut, PrimeFallsSilent, EpisodeAges, LinkChanges, vars, healthVars
<1> QED BY <1>1, <1>2, <1>4 DEF Next

(* A sample is a good or a bad one to the reader of the health.             *)
LEMMA RecordRefines ==
  ASSUME Inv, LostCounted, NEW ok \in BOOLEAN, Record(ok)
  PROVE  Health!Next
<1>1. failures \in 0 .. LostAfter /\ failures' \in 0 .. LostAfter /\ LostAfter \in Nat /\ LostAfter > 0
  BY RecordInv, Constants DEF Inv, TypeOK
<1>2. comms' \in {"healthy", "degraded", "lost"} /\ FailureIsSeen' BY RecordInv
<1>3. /\ failures' = IF ok THEN 0 ELSE AtMost(LostAfter, failures + 1)
      /\ comms' = Classify(failures', successes', window')
  BY DEF Record
<1>4. CASE ok
  <2>1. failures' = 0 BY <1>3, <1>4
  <2>2. comms' # "lost" BY <1>1, <1>3, <2>1 DEF Classify
  <2> QED BY <1>2, <2>1, <2>2 DEF Health!Next, Health!Good
<1>5. CASE ~ok
  <2>1. failures' > 0 BY <1>1, <1>3, <1>5 DEF AtMost
  <2>2. comms' \in {"degraded", "lost"} BY <1>2, <2>1 DEF FailureIsSeen
  <2>3. ASSUME comms = "lost" PROVE comms' = "lost"
    <3>1. failures' = LostAfter BY <1>1, <1>3, <1>5, <2>3 DEF LostCounted, AtMost
    <3> QED BY <1>1, <1>3, <3>1 DEF Classify
  <2> QED BY <2>1, <2>2, <2>3 DEF Health!Next, Health!Bad
<1> QED BY <1>4, <1>5

LEMMA StepRefines ==
  Inv /\ LostCounted /\ [Next]_vars => [Health!Next]_Health!vars
<1> SUFFICES ASSUME Inv, LostCounted, [Next]_vars PROVE [Health!Next]_Health!vars OBVIOUS
<1>1. ASSUME NEW t \in Tier, Sample(t) PROVE Health!Next
  <2>1. PICK outcome \in Outcomes(t) : Record(outcome # "none") BY <1>1 DEF Sample
  <2>2. (outcome # "none") \in BOOLEAN OBVIOUS
  <2> QED BY <2>1, <2>2, RecordRefines
<1>2. CASE Watchdog
  <2>1. comms # "lost" /\ comms' = "lost" /\ failures' > 0 BY <1>2, Constants DEF Watchdog
  <2> QED BY <2>1 DEF Health!Next, Health!Lose
<1>3. CASE UNCHANGED <<comms, failures>> BY <1>3 DEF Health!vars
<1>4. CASE \/ \E t \in Tier : Begin(t)
           \/ SeedTimesOut \/ PrimeFallsSilent \/ EpisodeAges \/ LinkChanges
           \/ UNCHANGED vars
  BY <1>3, <1>4
     DEF Begin, SeedTimesOut, PrimeFallsSilent, EpisodeAges, LinkChanges, vars, healthVars
<1> QED BY <1>1, <1>2, <1>4 DEF Next

(* The poller implements the health its readers rely on.                    *)
THEOREM ImplementsHealth == Spec => HealthIsPromised
<1>1. Init => Health!Init /\ LostCounted BY DEF Init, Health!Init, LostCounted
<1>2. Inv /\ LostCounted /\ [Next]_vars => LostCounted' BY NextCounts
<1>3. Inv /\ LostCounted /\ [Next]_vars => [Health!Next]_Health!vars BY StepRefines
<1> QED BY <1>1, <1>2, <1>3, Invariance, PTL DEF Spec, HealthIsPromised, Health!Spec

(* The health's safety, for any batches, thresholds and window.             *)
THEOREM HealthIsSafe == Spec => []HealthSafety
BY TypeCorrect, FlapGate, FailuresShow, PTL DEF HealthSafety
=============================================================================
