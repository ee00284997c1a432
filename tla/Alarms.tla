------------------------------- MODULE Alarms -------------------------------
(***************************************************************************)
(* The alarms of services.state.StateMachine and the table alarms_active   *)
(* (db.raise_alarm, clear_alarm).  One poll runs three pipelines in a row: *)
(* the H-100's alarm bits (debounced and hidden in some engine states),    *)
(* the numeric range alarms (_check_numeric_ranges) and the disagreement   *)
(* of the transfer switch with the generator's output                      *)
(* (_check_loadsource_disagreement).  An operator may acknowledge an alarm *)
(* (api.events.ack_alarm), which deletes its row after an awaited write;   *)
(* the register map may be reloaded; the service may restart, which keeps  *)
(* the rows and nothing else.                                              *)
(*                                                                         *)
(* Every poll, prime or base, ends in update() with one image of all       *)
(* registers (modbus.poller._poll_tier).  Only a prime poll reads the      *)
(* alarm registers again; the others, and a prime poll that cannot read    *)
(* them, find what the image retains, until a register is evicted from it. *)
(***************************************************************************)
EXTENDS Naturals

CONSTANTS
  Code,       \* codes of the register map's alarm_bits
  Numeric,      \* codes of the numeric range alarms
  MinPoll,    \* min_poll_count of a code
  Suppress,   \* suppress_in_states of a code
  RangePolls, \* NUMERIC_ALARM_MIN_POLLS
  DisagreePolls, \* LOADSOURCE_DISAGREE_DEBOUNCE_POLLS
  States,     \* engine states that polls find
  MaxEvents   \* bound: acknowledgements, reloads, restarts and outages

Disagree == "ATS_LOADSOURCE_DISAGREE"
Alarm == Code \cup Numeric \cup {Disagree}
Engine == {"unknown", "stopped", "cranking", "running", "exercising", "cooling", "alarm"}
Producing == {"running", "exercising"}

ASSUME AlarmsAssumption ==
  /\ Code \cap Numeric = {} /\ Disagree \notin Code \cup Numeric
  /\ MinPoll \in [Code -> Nat \ {0}] /\ Suppress \in [Code -> SUBSET Engine]
  /\ RangePolls \in Nat \ {0} /\ DisagreePolls \in Nat \ {0} /\ MaxEvents \in Nat
  /\ States \subseteq Engine \ {"unknown"}

VARIABLES
  latched,    \* environment: the alarm bits the H-100 has set
  lost,       \* environment: the H-100 does not answer
  image,      \* the alarm bits of Poller.reading, none when evicted
  rules,      \* codes that the register map in force defines
  numericOn,  \* its numeric_alarms_enabled
  engine,     \* snap.engine_state
  shown,      \* snap.active_alarms
  count,      \* _alarm_poll_counts, up to MinPoll
  raised,     \* _raised_this_session
  rangeCount, \* _numeric_poll_counts, up to RangePolls
  rangeRaised,\* _numeric_raised
  disCount,   \* _loadsource_disagree_count, up to DisagreePolls
  disRaised,  \* _loadsource_disagree_raised
  rows,       \* the table alarms_active
  ack,        \* acknowledgements whose write is awaited
  acked,      \* history: alarms on display whose row was deleted by an ack
  left,       \* history: rows of an earlier process that this one has not raised
  streak,     \* history: polls in a row whose image had the bit, under these rules
  events

device == <<latched, lost>>
read == <<image, engine>>
map == <<rules, numericOn>>
ranges == <<rangeCount, rangeRaised>>
dis == <<disCount, disRaised>>
history == <<acked, left, streak>>
vars == <<device, map, read, shown, count, raised, ranges, dis, rows, ack, history, events>>

UpTo(bound, n) == IF n < bound THEN n ELSE bound
Counted(counts, found, bound) ==
  [c \in DOMAIN counts |-> IF c \in found THEN UpTo(bound[c], counts[c] + 1) ELSE 0]

Init ==
  /\ latched \in SUBSET Code /\ lost = FALSE
  /\ rules = Code /\ numericOn = TRUE
  /\ image = {} /\ engine = "unknown" /\ shown = {} /\ count = [c \in Code |-> 0] /\ raised = {}
  /\ rangeCount = [c \in Numeric |-> 0] /\ rangeRaised = {}
  /\ disCount = 0 /\ disRaised = FALSE
  /\ rows = {} /\ ack = {}
  /\ acked = {} /\ left = {} /\ streak = [c \in Code |-> 0] /\ events = 0

-----------------------------------------------------------------------------
(* The parts of update(), each from what the one before it left.            *)

(* Alarm bits: the counters follow the raw bits, the display hides what is  *)
(* young or suppressed, and a code that was raised is cleared when its raw  *)
(* bit is not found - whatever the display shows.                           *)
Effective_once(raw, state) ==
  {c \in raw \ raised : count'[c] >= MinPoll[c] /\ state \notin Suppress[c]}
Effective(raw, state) ==
  {c \in raw : count'[c] >= MinPoll[c] /\ state \notin Suppress[c]}

ClearedBits_defined(held, raw, effective) == (held \cap rules) \ raw
ClearedBits(held, raw, effective) == held \ raw

BitAlarms(raw, effective) ==
  LET new == effective \ shown
      cleared == ClearedBits(raised \cup new, raw, effective)
  IN  [rows |-> (rows \cup new) \ cleared, raised |-> (raised \cup new) \ cleared, new |-> new]

(* Range alarms: only while the engine produces, and only when enabled.     *)
RangeAlarms(out, before) ==
  LET late == {c \in out : rangeCount'[c] >= RangePolls} \ rangeRaised
      cleared == rangeRaised \ out
  IN  [rows |-> (before \cup late) \ cleared, raised |-> (rangeRaised \cup late) \ cleared]

(* Disagreement: undefined without authority or load, held through a        *)
(* transfer, counted while the two differ.                                  *)
Comparison == {"undefined", "held", "agree", "differ"}

DisagreeCount(seen) ==
  CASE seen = "differ" -> UpTo(DisagreePolls, disCount + 1)
    [] seen = "held" -> disCount
    [] OTHER -> 0

DisagreeRaised(seen) ==
  CASE seen = "differ" -> disRaised \/ DisagreeCount(seen) >= DisagreePolls
    [] seen = "held" -> disRaised
    [] OTHER -> FALSE

(* An alarm that leaves the flag takes its row along, an alarm that stays   *)
(* does not write it again.                                                 *)
DisagreeRows(seen, before) ==
  IF DisagreeRaised(seen) = disRaised THEN before
  ELSE IF disRaised THEN before \ {Disagree} ELSE before \cup {Disagree}

-----------------------------------------------------------------------------
(* update() of a poll that leaves these bits in the image, an engine state, *)
(* the range alarms out of their band and a comparison of the two sources.  *)
Update(bits, state, out, seen) ==
  /\ image' = bits /\ engine' = state
  /\ LET raw == bits \cap rules
         effective == Effective(raw, state)
         codes == BitAlarms(raw, effective)
         outNow == IF state \in Producing THEN out ELSE {}
     IN  /\ count' = Counted(count, raw, MinPoll)
         /\ raised' = codes.raised
         /\ IF numericOn
            THEN /\ rangeCount' = Counted(rangeCount, outNow, [c \in Numeric |-> RangePolls])
                 /\ rangeRaised' = RangeAlarms(outNow, codes.rows).raised
                 /\ rows' = DisagreeRows(seen, RangeAlarms(outNow, codes.rows).rows)
            ELSE UNCHANGED ranges /\ rows' = DisagreeRows(seen, codes.rows)
         /\ disCount' = DisagreeCount(seen) /\ disRaised' = DisagreeRaised(seen)
         /\ shown' = effective \cup rangeRaised' \cup (IF disRaised' THEN {Disagree} ELSE {})
         /\ left' = (left \cap rows') \ (codes.new \cup rangeRaised' \cup
                                         (IF disRaised' THEN {Disagree} ELSE {}))
         /\ acked' = (acked \cap shown') \ rows'
  /\ streak' = Counted(streak, bits \cap rules, MinPoll)

(* A prime poll that is answered. *)
Poll(state, out, seen) ==
  /\ ~lost
  /\ Update(latched, state, out, seen)
  /\ UNCHANGED <<device, map, ack, events>>

(* A base poll, or a prime poll that could not read these registers. *)
StalePoll(out, seen) ==
  /\ Update(image, engine, out, seen)
  /\ UNCHANGED <<device, map, ack, events>>

(* ... for three cadences: they are evicted; the engine state is kept. *)
EvictingPoll(out, seen) ==
  /\ lost
  /\ Update({}, engine, out, seen)
  /\ UNCHANGED <<device, map, ack, events>>

-----------------------------------------------------------------------------
(* ack_alarm: a row is needed; the row goes after an acknowledged write.    *)
AckBegins(a) ==
  /\ events < MaxEvents /\ events' = events + 1
  /\ a \in rows \ ack /\ ~lost
  /\ ack' = ack \cup {a}
  /\ UNCHANGED <<device, map, read, shown, count, raised, ranges, dis, rows, history>>

AckEnds(a, ok) ==
  /\ a \in ack /\ ack' = ack \ {a}
  /\ rows' = IF ok THEN rows \ {a} ELSE rows
  /\ acked' = IF ok THEN acked \cup ({a} \cap shown) ELSE acked
  /\ left' = left \cap rows'
  /\ UNCHANGED <<device, map, read, shown, count, raised, ranges, dis, streak, events>>

(* apply_regmap: the counters of the bit alarms are reset, those of the     *)
(* range alarms are not, and what was raised stays to be cleared.           *)
ResetCount_kept == count
ResetCount == [c \in Code |-> 0]
KeepRaised_forgotten == {}
KeepRaised == raised

Reload(codes, numeric) ==
  /\ events < MaxEvents /\ events' = events + 1
  /\ rules' = codes /\ numericOn' = numeric
  /\ count' = ResetCount /\ streak' = [c \in Code |-> 0]
  /\ raised' = KeepRaised
  /\ UNCHANGED <<device, read, shown, ranges, dis, rows, ack, acked, left>>

(* A restart: the rows are in the database, all else is gone.               *)
Restart ==
  /\ events < MaxEvents /\ events' = events + 1
  /\ image' = {} /\ engine' = "unknown" /\ shown' = {} /\ count' = [c \in Code |-> 0] /\ raised' = {}
  /\ rangeCount' = [c \in Numeric |-> 0] /\ rangeRaised' = {}
  /\ disCount' = 0 /\ disRaised' = FALSE /\ ack' = {}
  /\ acked' = {} /\ left' = rows /\ streak' = [c \in Code |-> 0]
  /\ UNCHANGED <<device, map, rows>>

(* The H-100 sets and releases its bits; its link goes and comes back.      *)
BitChanges(c) ==
  /\ latched' = IF c \in latched THEN latched \ {c} ELSE latched \cup {c}
  /\ UNCHANGED <<lost, map, read, shown, count, raised, ranges, dis, rows, ack, history, events>>

LinkLost ==
  /\ ~lost /\ events < MaxEvents /\ events' = events + 1 /\ lost' = TRUE
  /\ UNCHANGED <<latched, map, read, shown, count, raised, ranges, dis, rows, ack, history>>

LinkBack ==
  /\ lost /\ lost' = FALSE
  /\ UNCHANGED <<latched, map, read, shown, count, raised, ranges, dis, rows, ack, history, events>>

PrimePoll ==
  \E state \in States, out \in SUBSET Numeric, seen \in Comparison : Poll(state, out, seen)
OtherPoll ==
  \E out \in SUBSET Numeric, seen \in Comparison : StalePoll(out, seen) \/ EvictingPoll(out, seen)

Next ==
  \/ PrimePoll \/ OtherPoll
  \/ \E a \in Alarm : AckBegins(a) \/ \E ok \in BOOLEAN : AckEnds(a, ok)
  \/ \E codes \in SUBSET Code, numeric \in BOOLEAN : Reload(codes, numeric)
  \/ Restart
  \/ \E c \in Code : BitChanges(c)
  \/ LinkLost \/ LinkBack

Spec == Init /\ [][Next]_vars

(* The prime poll runs every prime_poll_ms, and an outage ends.             *)
FairSpec == Spec /\ WF_vars(PrimePoll) /\ WF_vars(LinkBack)

-----------------------------------------------------------------------------
TypeOK ==
  /\ latched \subseteq Code /\ lost \in BOOLEAN /\ image \subseteq Code
  /\ rules \subseteq Code /\ numericOn \in BOOLEAN
  /\ engine \in Engine /\ shown \subseteq Alarm
  /\ count \in [Code -> Nat] /\ (\A c \in Code : count[c] <= MinPoll[c])
  /\ raised \subseteq Code
  /\ rangeCount \in [Numeric -> 0..RangePolls] /\ rangeRaised \subseteq Numeric
  /\ disCount \in 0..DisagreePolls /\ disRaised \in BOOLEAN
  /\ rows \subseteq Alarm /\ ack \subseteq Alarm
  /\ acked \subseteq Alarm /\ left \subseteq Alarm
  /\ streak \in [Code -> Nat] /\ (\A c \in Code : streak[c] <= MinPoll[c])
  /\ events \in 0..MaxEvents

(* What the console shows as active has its row, unless an operator         *)
(* acknowledged it: three pipelines write the display and the table, and    *)
(* none of them looks at the table when it decides.                         *)
ShownHasRow == shown \subseteq rows \cup acked

(* Every row has an owner that will delete it, unless a restart left it     *)
(* behind: a reload of the map and a suppressed state leak no row           *)
(* (apply_regmap, update).                                                  *)
Owned == raised \cup rangeRaised \cup (IF disRaised THEN {Disagree} ELSE {})
RowsAreOwned == rows \subseteq Owned \cup left

(* The display, the table and the in-memory sets agree on what is active.   *)
AlarmSafety == TypeOK /\ ShownHasRow /\ RowsAreOwned

(* An alarm appears only when the last prime poll that read its bit found   *)
(* it set, and after min_poll_count polls in a row, of either tier, whose   *)
(* image had it under the map in force; its row goes only when the bit was  *)
(* low, undefined or unreadable, or by an acknowledgement (update,          *)
(* apply_regmap, ack_alarm).                                                *)
AlarmsAreEarned ==
  [][\A c \in Code :
       /\ c \in shown' \ shown => c \in image' /\ streak'[c] >= MinPoll[c]
       /\ c \in rows \ rows' => c \notin latched \cap rules \/ lost \/ c \in ack \ ack']_vars

(* A bit that stays set is shown in the end and stays shown, whatever was   *)
(* reloaded, acknowledged or restarted before (update).                     *)
PersistentAlarmIsShown ==
  \A c \in Code :
    <>[](c \in latched \cap rules /\ engine \notin Suppress[c]) => <>[](c \in shown)

(* A bit that stays low leaves the display, and the table unless the row is *)
(* of an earlier process: also when its rule was removed by a reload, and   *)
(* when the engine state hid it (update, apply_regmap).                     *)
SettledAlarmIsDropped ==
  \A c \in Code :
    <>[](c \notin latched) => <>[](c \notin shown /\ (c \in rows => c \in left))

-----------------------------------------------------------------------------
(* What the source says and the code does not do.                           *)

(* state.py: an alarm is cleared "only when the underlying BIT goes low".   *)
(* api/events.py: "the active set is held from the last good poll" while    *)
(* the link is LOST.  An outage evicts the registers, and clears the alarm. *)
ClearedOnlyWhenLow ==
  [][\A c \in Code : c \in rows \ rows' /\ c \notin ack \ ack' =>
       c \notin latched \cap rules]_vars

(* api/events.py: clearing the row is harmless since "a re-raise on the     *)
(* next poll" follows while the bit is set.  What is already on display is  *)
(* not raised again.                                                        *)
AckedAlarmComesBack ==
  \A c \in Code : <>[](c \in latched \cap rules /\ engine \notin Suppress[c]) => <>[](c \in rows)

(* AlarmBit: min_poll_count is "how many consecutive prime polls the bit    *)
(* must remain set before the alarm is raised".  Base polls count as well,  *)
(* and so do prime polls that read nothing, with what the image retains.    *)
PrimePollsRaise == [][(shown' \ shown) \cap Code # {} => PrimePoll]_vars

(* _check_numeric_ranges: "Debounced NUMERIC_ALARM_MIN_POLLS consecutive    *)
(* polls".  The counters are kept while the range alarms are disabled.      *)
RangeCountIsDropped == [][numericOn /\ ~numericOn' => rangeCount' = [c \in Numeric |-> 0]]_vars
=============================================================================
