------------------------------- MODULE Poller -------------------------------
(***************************************************************************)
(* GenWatch's two-tier Modbus poller and the health it publishes for a     *)
(* link (modbus.poller.Poller, CommsHealth): the prime and the base loop,  *)
(* each awaiting one batch read after another, record a sample per batch;  *)
(* a watchdog declares the link lost when no prime poll was good for a     *)
(* while.  Every GenWatch instance runs one for the generator's controller *)
(* and one for the ATS-Pi.                                                 *)
(*                                                                         *)
(* What is read is not here, only whether it was.  A step is what runs     *)
(* between two awaits; the end of a poll is part of its last sample.       *)
(***************************************************************************)
EXTENDS Naturals, Sequences, FiniteSets

CONSTANTS
  PrimeBatches, \* batch reads of a prime poll
  BaseBatches,  \* and of a base poll
  StateBatches, \* prime batches with the engine-state registers (none: ATS-Pi)
  LostAfter,    \* consecutive failures that make the link lost: 3
  Streak,       \* HEALTHY_RECOVERY_STREAK
  Window,       \* maxlen of the rolling window
  Ratio,        \* 95 %: one failure in so many samples is tolerated
  FlapMax,      \* FLAP_MAX_EPISODES
  EpisodesKept  \* maxlen of the episode list

Tier       == {"prime", "base"}
Batches(t) == IF t = "prime" THEN PrimeBatches ELSE BaseBatches

ASSUME BatchAssumption  == {PrimeBatches, BaseBatches} \subseteq Nat \ {0}
ASSUME StateAssumption  == StateBatches \subseteq 1 .. PrimeBatches
ASSUME HealthAssumption == {LostAfter, Streak, Window, Ratio, EpisodesKept} \subseteq Nat \ {0}
ASSUME FlapAssumption   == FlapMax \in 1 .. EpisodesKept

VARIABLES
  comms,     \* CommsHealth.state
  failures,  \* consecutive_failures, saturating at LostAfter
  successes, \* consecutive_successes, saturating at Streak
  window,    \* the last samples, oldest first
  episodes,  \* entries of _lost_episodes younger than FLAP_WINDOW_S
  primeGood, \* last_prime_good_monotonic: never, recently, or too long ago
  running,   \* start()'s seed poll is over
  awaits,    \* the batch each tier's poll awaits, 0 between polls
  read,      \* batches of the prime poll that brought what they were read for
  link       \* environment: which reads succeed

healthVars == <<comms, failures, successes, window, episodes>>
vars == <<healthVars, primeGood, running, awaits, read, link>>

(* All reads, none, those of the base tier, or some now and then. *)
Links == {"up", "down", "base only", "mixed"}

(* start() begins with a base poll of its own. *)
Init ==
  /\ comms = "healthy" /\ failures = 0 /\ successes = 0
  /\ window = << >> /\ episodes = 0
  /\ primeGood = "never" /\ running = FALSE
  /\ awaits = [t \in Tier |-> IF t = "base" THEN 1 ELSE 0]
  /\ read = {}
  /\ link \in Links

AtMost(bound, n) == IF n > bound THEN bound ELSE n

-----------------------------------------------------------------------------
(* _record and _classify. *)

Failed(samples) == {i \in DOMAIN samples : ~samples[i]}

(* success_pct >= 95 *)
MostlyGood(samples) == Cardinality(Failed(samples)) * Ratio <= Len(samples)

Slide(ok) == Append(IF Len(window) < Window THEN window ELSE Tail(window), ok)

(* A flapping link does not take the short way back. *)
Flapping == episodes >= FlapMax

Classify_noGate(fails, goods, samples) ==
  IF fails >= LostAfter THEN "lost"
  ELSE IF goods >= Streak THEN "healthy"
  ELSE IF ~MostlyGood(samples) \/ fails > 0 THEN "degraded"
  ELSE "healthy"
Classify_degradedFirst(fails, goods, samples) ==
  IF goods >= Streak /\ ~Flapping THEN "healthy"
  ELSE IF ~MostlyGood(samples) \/ fails > 0 THEN "degraded"
  ELSE IF fails >= LostAfter THEN "lost"
  ELSE "healthy"
Classify_streakOnly(fails, goods, samples) ==
  IF fails >= LostAfter THEN "lost"
  ELSE IF goods >= Streak /\ ~Flapping THEN "healthy"
  ELSE "degraded"
Classify(fails, goods, samples) ==
  IF fails >= LostAfter THEN "lost"
  ELSE IF goods >= Streak /\ ~Flapping THEN "healthy"
  ELSE IF ~MostlyGood(samples) \/ fails > 0 THEN "degraded"
  ELSE "healthy"

NoteLost == episodes' = AtMost(EpisodesKept, episodes + 1)

Record(ok) ==
  /\ failures'  = IF ok THEN 0 ELSE AtMost(LostAfter, failures + 1)
  /\ successes' = IF ok THEN AtMost(Streak, successes + 1) ELSE 0
  /\ window' = Slide(ok)
  /\ comms' = Classify(failures', successes', window')
  /\ IF comms' = "lost" /\ comms # "lost" THEN NoteLost ELSE UNCHANGED episodes

-----------------------------------------------------------------------------
(* The loops. *)

Begin(t) ==
  /\ running /\ awaits[t] = 0
  /\ awaits' = [awaits EXCEPT ![t] = 1]
  /\ UNCHANGED <<healthVars, primeGood, running, read, link>>

(* A batch is read whole, in part (a failed batch is read again register by *)
(* register), or not at all; a batch read in part counts as a success.      *)
Outcomes(t) ==
  CASE link = "up" \/ (link = "base only" /\ t = "base")      -> {"whole"}
    [] link = "down" \/ (link = "base only" /\ t = "prime") -> {"none"}
    [] link = "mixed" -> {"whole", "part", "none"}

(* What a prime poll must bring to be good: the engine-state registers, or  *)
(* anything if the map has none.                                            *)
Brings(b, outcome) ==
  outcome = "whole" \/ (outcome = "part" /\ b \notin StateBatches)

GoodPoll(bs) == IF StateBatches = {} THEN bs # {} ELSE StateBatches \subseteq bs

(* The heartbeat is stamped by a good prime poll. *)
Stamp_anyTier(t, bs) ==
  IF t = "base" \/ GoodPoll(bs) THEN "recently" ELSE primeGood
Stamp(t, bs) ==
  IF t = "prime" /\ GoodPoll(bs) THEN "recently" ELSE primeGood

(* One batch has been tried; a poll ends with its last.  The loops start    *)
(* when the seed poll is over.                                              *)
Sample(t) ==
  /\ awaits[t] # 0
  /\ \E outcome \in Outcomes(t) :
       LET b   == awaits[t]
           bs  == IF t = "prime" /\ Brings(b, outcome) THEN read \cup {b} ELSE read
       IN  /\ Record(outcome # "none")
           /\ IF b < Batches(t)
                THEN /\ awaits' = [awaits EXCEPT ![t] = b + 1]
                     /\ read' = bs
                     /\ UNCHANGED <<primeGood, running>>
                ELSE /\ awaits' = [awaits EXCEPT ![t] = 0]
                     /\ read' = IF t = "prime" THEN {} ELSE read
                     /\ primeGood' = Stamp(t, bs)
                     /\ running' = TRUE
  /\ UNCHANGED link

(* SEED_BASE_POLL_TIMEOUT_S cancels the seed poll. *)
SeedTimesOut ==
  /\ ~running
  /\ running' = TRUE
  /\ awaits' = [awaits EXCEPT !["base"] = 0]
  /\ UNCHANGED <<healthVars, primeGood, read, link>>

-----------------------------------------------------------------------------
(* Time, the watchdog, and the environment. *)

(* Three prime cadences without a good prime poll. *)
PrimeFallsSilent ==
  /\ primeGood = "recently"
  /\ primeGood' = "too long ago"
  /\ UNCHANGED <<healthVars, running, awaits, read, link>>

EpisodeAges ==
  /\ episodes > 0
  /\ episodes' = episodes - 1
  /\ UNCHANGED <<comms, failures, successes, window, primeGood, running, awaits, read, link>>

Watchdog ==
  /\ running /\ primeGood = "too long ago" /\ comms # "lost"
  /\ comms' = "lost"
  /\ failures' = LostAfter /\ successes' = 0
  /\ NoteLost
  /\ UNCHANGED <<window, primeGood, running, awaits, read, link>>

LinkChanges ==
  /\ link' \in Links
  /\ UNCHANGED <<healthVars, primeGood, running, awaits, read>>

-----------------------------------------------------------------------------
Next ==
  \/ \E t \in Tier : Begin(t)
  \/ \E t \in Tier : Sample(t)
  \/ SeedTimesOut
  \/ PrimeFallsSilent \/ EpisodeAges \/ Watchdog
  \/ LinkChanges

(* The loops run, every read is answered or given up, the watchdog wakes;   *)
(* three cadences go by when no prime poll can be good.                     *)
Fairness ==
  /\ \A t \in Tier : WF_vars(Begin(t)) /\ WF_vars(Sample(t))
  /\ WF_vars(Watchdog)
  /\ WF_vars(PrimeFallsSilent /\ link \in {"down", "base only"})

Spec     == Init /\ [][Next]_vars
FairSpec == Spec /\ Fairness

-----------------------------------------------------------------------------
(* Properties. *)

TypeOK ==
  /\ comms \in {"healthy", "degraded", "lost"}
  /\ failures \in 0 .. LostAfter /\ successes \in 0 .. Streak
  /\ window \in Seq(BOOLEAN) /\ Len(window) <= Window
  /\ episodes \in 0 .. EpisodesKept
  /\ primeGood \in {"never", "recently", "too long ago"}
  /\ running \in BOOLEAN
  /\ awaits \in [Tier -> Nat] /\ \A t \in Tier : awaits[t] <= Batches(t)
  /\ read \subseteq 1 .. PrimeBatches
  /\ link \in Links

(* A flapping link is healthy only with a window that says so: neither      *)
(* tier's polls, nor the watchdog between them, nor an episode that comes   *)
(* while another is forgotten, make the short way back available to it      *)
(* (FLAP_MAX_EPISODES).                                                     *)
FlappingEarnsHealth == comms = "healthy" /\ Flapping => MostlyGood(window)

(* Whoever looks at the health in the middle of a poll sees its failures:   *)
(* no link is healthy after a failed batch, whichever tier's it was.        *)
FailureIsSeen == failures > 0 => comms # "healthy"

(* What the health never says: that a flapping or a failing link is well.   *)
HealthSafety == TypeOK /\ FlappingEarnsHealth /\ FailureIsSeen

(* The readers of a health see what LinkHealth promises: a failure at once, *)
(* no loss in a good sample, no way out of a loss but by one.               *)
Health == INSTANCE LinkHealth WITH failing <- failures > 0
HealthIsPromised == Health!Spec

(* A link that stays up becomes healthy again and stays so, however much it *)
(* flapped before, unless its prime polls take too long.                    *)
GoodLinkHeals ==
  <>[](link = "up" /\ primeGood # "too long ago") => <>[](comms = "healthy")

(* A dead link is found out, even one that was dead from the start, where   *)
(* the watchdog has nothing to compare with.                                *)
DeadLinkIsLost == <>[](link = "down") => <>[](comms = "lost")

(* A link that only serves the base tier any more is declared lost again    *)
(* and again, although every good base poll takes that back.                *)
SilentPrimeIsLost ==
  <>[](link = "base only" /\ primeGood # "never") => []<>(comms = "lost")

(* "a single later success can't immediately un-LOST the link - it must     *)
(* rebuild the streak" (Poller._watchdog).                                  *)
LostRebuildsStreak ==
  [][comms = "lost" /\ comms' = "healthy" => successes' = Streak]_vars
=============================================================================
