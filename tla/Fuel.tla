-------------------------------- MODULE Fuel --------------------------------
(***************************************************************************)
(* The fuel monitor (services.fuel.FuelMonitor), fed by every poll of the  *)
(* generator (state.StateMachine._check_fuel), and what its events tell    *)
(* Slack (slack.alert_fuel).  Its settings may be changed while it runs    *)
(* (api.settings.update_config), and a restart forgets all it knew.        *)
(*                                                                         *)
(* Time is counted in polls.  A poll may find no level: the register was   *)
(* evicted, or says something that no tank can hold.                       *)
(***************************************************************************)
EXTENDS Integers, Sequences, FiniteSets

CONSTANTS
  Configs,   \* FuelConfig: the settings that may be in force
  Muted,     \* messages whose alert_on_fuel flag is off
  MaxLevel,  \* the level of a full tank
  Renotify,  \* renotify_hours, 0 for never
  Window,    \* drop_window_minutes
  Capacity   \* maxlen of _history

Level == 0..MaxLevel
FuelEngine == {"burning", "stopped"}
Config == [enabled : BOOLEAN, warn : Int, critical : Int, hysteresis : Nat, drop : Nat]
Message == {"warn", "critical", "recovered", "reminder"}

(* FuelConfig asks nothing of the lines: the critical one may be the higher, *)
(* and the hysteresis 0, to which _classify raises a negative one.  Neither  *)
(* drop_only_when_stopped nor alert_on_fuel_drop is changed from its default *)
(* here.                                                                     *)
ASSUME FuelAssumption ==
  /\ Configs \subseteq Config /\ Muted \subseteq Message
  /\ MaxLevel \in Nat /\ Renotify \in Nat
  /\ Window \in Nat \ {0} /\ Capacity \in Nat \ {0}

VARIABLES
  cfg,
  status,   \* FuelMonitor.status
  spoke,    \* time since _notified_at, up to Renotify
  samples,  \* _history: level and age of each sample
  alerted,  \* time since _last_drop_at, up to Window
  told,     \* environment: the status the last message about the level named
  isLow,    \* history: whether the level counts as that low, by each line alone
  past      \* history: what the drop detector was shown by the last polls

monitor == <<status, spoke, samples, alerted>>
fuelVars == <<cfg, monitor, told, isLow, past>>

Tier == {"warn", "critical"}
NoLevel == -1
Found(pct, engine) == [pct |-> pct, engine |-> engine]

AtMost(bound, n) == IF n < bound THEN n ELSE bound
Last(s, n) == SubSeq(s, Len(s) - AtMost(n, Len(s)) + 1, Len(s))

Fresh == status = "unknown" /\ spoke = Renotify /\ samples = << >> /\ alerted = Window

FuelInit ==
  /\ cfg \in Configs /\ Fresh
  /\ told = "none" /\ isLow = [t \in Tier |-> FALSE] /\ past = << >>

-----------------------------------------------------------------------------
(* _classify: the bare line on the way down, the line and the hysteresis on *)
(* the way up.                                                              *)
Down(pct) == IF pct <= cfg.critical THEN "critical"
             ELSE IF pct <= cfg.warn THEN "warn" ELSE "ok"
Clears(tier, pct) == pct >= cfg[tier] + cfg.hysteresis
Classify_noOverlap(pct) ==
  IF status \in Tier /\ ~Clears(status, pct) /\ pct > cfg.critical THEN status ELSE Down(pct)
Classify(pct) ==
  CASE status = "critical" /\ ~Clears("critical", pct) -> "critical"
    [] status = "warn" /\ pct <= cfg.critical -> "critical"
    [] status \in {"ok", "unknown"} -> Down(pct)
    [] OTHER -> IF Clears("warn", pct) THEN "ok" ELSE "warn"

(* A new status is spoken of, but for the first look at a tank that is not  *)
(* low; so is an old one, now and then, while the tank is low.              *)
Reminds(new) == new = status /\ new \in Tier /\ Renotify > 0 /\ spoke + 1 >= Renotify
Speaks(new) == new # status /\ (new \in Tier \/ status \in Tier)

MessageOf(new) ==
  IF Reminds(new) THEN "reminder"
  ELSE IF new = "ok" \/ (new = "warn" /\ status = "critical") THEN "recovered" ELSE new

(* alert_fuel posts what its flags let through.                             *)
AlertFuel(new) ==
  told' = IF (Speaks(new) \/ Reminds(new)) /\ MessageOf(new) \notin Muted THEN new ELSE told

Spoken(new) ==
  /\ status' = new
  /\ spoke' = IF new # status \/ Reminds(new) THEN 0 ELSE AtMost(Renotify, spoke + 1)
  /\ AlertFuel(new)

-----------------------------------------------------------------------------
(* _check_drop.                                                             *)
Aged == [i \in DOMAIN samples |-> [samples[i] EXCEPT !.age = AtMost(Window + 1, @ + 1)]]
Sampled(pct) == Last(Append(Aged, [pct |-> pct, age |-> 0]), Capacity)

(* The oldest are popped until one is in the window.                        *)
InWindow(s) ==
  LET oldest == CHOOSE n \in 1..Len(s) + 1 :
                  /\ \A i \in 1..n - 1 : s[i].age > Window
                  /\ n <= Len(s) => s[n].age <= Window
  IN  SubSeq(s, oldest, Len(s))

(* A burning engine draws the tank down: its level is the new baseline.     *)
Baseline_kept(pct) == InWindow(Sampled(pct))
Baseline(pct) == << [pct |-> pct, age |-> 0] >>

(* The peak of the window lies so far above the level.                      *)
Fell(s, pct) == \E i \in DOMAIN s : s[i].pct - pct >= cfg.drop
Suppressed == alerted + 1 < Window

CheckDrop(pct, engine) ==
  IF cfg.drop = 0 THEN samples' = Aged /\ alerted' = AtMost(Window, alerted + 1)
  ELSE /\ samples' = IF engine = "burning" THEN Baseline(pct) ELSE InWindow(Sampled(pct))
       /\ alerted' = IF engine = "stopped" /\ Fell(samples', pct) /\ ~Suppressed
                     THEN 0 ELSE AtMost(Window, alerted + 1)

-----------------------------------------------------------------------------
(* A line is passed on the way down and cleared by the hysteresis above it; *)
(* whoever is critical is low.                                              *)
Crosses(tier, pct) == IF isLow[tier] THEN ~Clears(tier, pct) ELSE pct <= cfg[tier]

Watch(pct) ==
  isLow' = [critical |-> Crosses("critical", pct),
            warn |-> Crosses("warn", pct) \/ Crosses("critical", pct)]

Remember(found) == past' = Last(Append(past, found), Window + 1)

(* A poll that finds a level.                                               *)
FuelUpdate(pct, engine) ==
  /\ cfg.enabled
  /\ Spoken(Classify(pct))
  /\ CheckDrop(pct, engine)
  /\ Watch(pct)
  /\ Remember(Found(IF cfg.drop = 0 THEN NoLevel ELSE pct, engine))
  /\ UNCHANGED cfg

(* A poll that finds none, or is not applicable: time passes.               *)
Blind(engine) ==
  /\ spoke' = AtMost(Renotify, spoke + 1) /\ alerted' = AtMost(Window, alerted + 1)
  /\ samples' = Aged
  /\ Remember(Found(NoLevel, engine))
  /\ UNCHANGED <<cfg, status, told, isLow>>

(* PUT /api/config: the monitor keeps what it knows.                        *)
UpdateConfig(c) ==
  /\ c # cfg /\ cfg' = c
  /\ UNCHANGED <<monitor, told, isLow, past>>

FuelRestart ==
  /\ status' = "unknown" /\ spoke' = Renotify /\ samples' = << >> /\ alerted' = Window
  /\ isLow' = [t \in Tier |-> FALSE] /\ past' = << >>
  /\ UNCHANGED <<cfg, told>>

(* _check_fuel, of every poll.                                              *)
CheckFuel(engine) == Blind(engine) \/ \E pct \in Level : FuelUpdate(pct, engine)

FuelNext ==
  \/ \E engine \in FuelEngine : CheckFuel(engine)
  \/ \E c \in Configs : UpdateConfig(c)
  \/ FuelRestart

FuelSpec == FuelInit /\ [][FuelNext]_fuelVars

-----------------------------------------------------------------------------
FuelTypeOK ==
  /\ cfg \in Configs /\ status \in Tier \cup {"unknown", "ok"}
  /\ spoke \in 0..Renotify /\ alerted \in 0..Window
  /\ \A i \in DOMAIN samples : samples[i].pct \in Level /\ samples[i].age \in 0..Window + 1
  /\ Len(samples) <= Capacity /\ told \in Tier \cup {"none", "ok"}

(* The one status is what two lines with a hysteresis each say, where their *)
(* bands overlap, after the lines were moved, and also when the critical    *)
(* line is the higher one or there is no hysteresis (_classify).            *)
StatusIsTwoLines ==
  status \notin {"unknown"} =>
    status = IF isLow["critical"] THEN "critical" ELSE IF isLow["warn"] THEN "warn" ELSE "ok"

(* Slack knows of a low tank what the monitor knows, but for what its flags *)
(* keep from it (update, alert_fuel).                                       *)
LowIsTold ==
  status \in Tier =>
    told = status \/ status \in Muted \/ (status = "warn" /\ "recovered" \in Muted)

(* The level may be compared with that of k polls ago if neither the engine *)
(* was seen burning since nor the sample has left the deque.                *)
Since(k) == past[Len(past) - k]
Comparable(k) == \A i \in 0..k - 1 : ~(Since(i).engine = "burning" /\ Since(i).pct # NoLevel)
Readings(k) == Cardinality({i \in 0..k : Since(i).pct # NoLevel})
Lost(pct) ==
  \E k \in 0..Len(past) - 1 :
    /\ Comparable(k) /\ Readings(k) <= Capacity
    /\ Since(k).pct # NoLevel /\ Since(k).pct - pct >= cfg.drop

(* A drop with the engine stopped has been told within the window: at the   *)
(* poll that found it, or as one before it (_check_drop).                   *)
DropIsTold ==
  [][\A pct \in Level :
       FuelUpdate(pct, "stopped") /\ cfg.drop > 0 /\ Lost(pct)' => alerted' < Window]_fuelVars

FuelSafety == FuelTypeOK /\ StatusIsTwoLines /\ LowIsTold

(* A drop is told only of a fall within the window that no poll with a      *)
(* level and a burning engine interrupts, and once per window.              *)
DropIsReal ==
  [][\A pct \in Level, e \in FuelEngine :
       FuelUpdate(pct, e) /\ alerted' = 0 =>
         e = "stopped" /\ alerted + 1 >= Window /\ Lost(pct)']_fuelVars

(* Drops are told, and only drops (_check_drop).                            *)
DropAlerts == DropIsTold /\ DropIsReal

-----------------------------------------------------------------------------
(* What the source says and the code does not do.                           *)

(* fuel.py: "a sender oscillating around 25% warns once and then stays      *)
(* quiet".  Without a hysteresis, which the settings allow, a level that    *)
(* rests on a line passes and clears it at every other poll.                *)
LineIsQuiet ==
  [][\A pct \in Level, engine \in FuelEngine :
       FuelUpdate(pct, engine) /\ status = Down(pct) => status' = status]_fuelVars

(* fuel.py: "a comparison can never span a period when consumption was      *)
(* legitimate".  A run during which the level could not be read leaves the  *)
(* level before it in the window.                                           *)
SpansNoRun ==
  [][\A pct \in Level :
       FuelUpdate(pct, "stopped") /\ alerted' = 0 =>
         \E k \in 0..Len(past') - 1 :
           /\ \A i \in 0..k - 1 : past'[Len(past') - i].engine = "stopped"
           /\ past'[Len(past') - k].pct >= pct + cfg.drop]_fuelVars
=============================================================================
