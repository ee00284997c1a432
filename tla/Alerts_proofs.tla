---------------------------- MODULE Alerts_proofs ----------------------------
(***************************************************************************)
(* The two monitors of the state machine, each for any values of its       *)
(* constants.  Alarms: display, table and in-memory sets agree, for any    *)
(* codes, ranges, debounce counts, suppressed states and number of events. *)
(* Fuel: the status is that of the two lines, and the drop detector tells  *)
(* of every fall within the window and of nothing else, for any settings,  *)
(* also those that make no sense, and any size of the deque.               *)
(***************************************************************************)
EXTENDS Alarms, Fuel, SequenceTheorems, FunctionTheorems, FiniteSetTheorems,
        WellFoundedInduction, TLAPS


(* What a pipeline has raised is on display: the row that its owner will    *)
(* delete, or the acknowledgement that did, is accounted for by the display.*)
RaisedIsShown == rangeRaised \subseteq shown /\ (disRaised => Disagree \in shown)

(* Bits that were raised are in the image that the next poll may find again.*)
RaisedIsRead == raised \subseteq image

Inv == TypeOK /\ ShownHasRow /\ RowsAreOwned /\ RaisedIsShown /\ RaisedIsRead

-----------------------------------------------------------------------------
(* A counter goes up to its bound, or starts again. *)
LEMMA CountedTyped ==
  ASSUME NEW S, NEW counts \in [S -> Nat], NEW bound \in [S -> Nat \ {0}], NEW found,
         \A c \in S : counts[c] <= bound[c]
  PROVE  /\ Counted(counts, found, bound) \in [S -> Nat]
         /\ \A c \in S : Counted(counts, found, bound)[c] <= bound[c]
<1> DEFINE new == Counted(counts, found, bound)
<1>1. new = [c \in S |-> IF c \in found THEN UpTo(bound[c], counts[c] + 1) ELSE 0]
  BY DEF Counted
<1>2. ASSUME NEW c \in S
      PROVE  new[c] \in Nat /\ new[c] <= bound[c]
  <2>1. counts[c] \in Nat /\ bound[c] \in Nat OBVIOUS
  <2> QED BY <1>1, <2>1 DEF UpTo
<1> QED BY <1>1, <1>2

LEMMA ZeroTyped ==
  /\ [c \in Code |-> 0] \in [Code -> Nat]
  /\ \A c \in Code : [d \in Code |-> 0][c] <= MinPoll[c]
  /\ [c \in Numeric |-> 0] \in [Numeric -> 0..RangePolls]
  /\ 0 \in 0..DisagreePolls
<1>1. \A c \in Code : MinPoll[c] \in Nat BY AlarmsAssumption
<1>2. RangePolls \in Nat /\ DisagreePolls \in Nat BY AlarmsAssumption
<1> QED BY <1>1, <1>2

LEMMA InitInv == Init => Inv
<1> SUFFICES ASSUME Init PROVE Inv OBVIOUS
<1>1. TypeOK
  <2>1. /\ count \in [Code -> Nat] /\ \A c \in Code : count[c] <= MinPoll[c]
        /\ streak \in [Code -> Nat] /\ \A c \in Code : streak[c] <= MinPoll[c]
        /\ rangeCount \in [Numeric -> 0..RangePolls] /\ disCount \in 0..DisagreePolls
    BY ZeroTyped DEF Init
  <2>2. events \in 0..MaxEvents BY AlarmsAssumption DEF Init
  <2> QED BY <2>1, <2>2 DEF Init, TypeOK, Engine
<1> QED BY <1>1 DEF Init, Inv, ShownHasRow, RowsAreOwned, Owned, RaisedIsShown, RaisedIsRead

-----------------------------------------------------------------------------
(* The three pipelines of a poll, one after the other.                      *)

(* Bits: what is shown has a row, and every row of a code its owner.        *)
LEMMA BitsAgree ==
  ASSUME Inv, NEW raw \in SUBSET Code, NEW effective \in SUBSET raw
  PROVE  LET bits == BitAlarms(raw, effective)
         IN  /\ bits.raised \subseteq Code /\ bits.new \subseteq bits.raised
             /\ bits.new \subseteq effective
             /\ bits.rows \subseteq Alarm /\ effective \subseteq bits.rows \cup acked
             /\ bits.rows \subseteq rows \cup bits.new
             /\ bits.rows \cap raised \subseteq bits.raised
             /\ bits.rows \ Code = rows \ Code
             /\ bits.raised \subseteq raw
<1> DEFINE new == effective \ shown
           cleared == ClearedBits(raised \cup new, raw, effective)
<1>1. BitAlarms(raw, effective) =
        [rows |-> (rows \cup new) \ cleared, raised |-> (raised \cup new) \ cleared, new |-> new]
  BY DEF BitAlarms
<1>2. /\ cleared \subseteq Code /\ cleared \cap effective = {}
      /\ (raised \cup new) \ cleared \subseteq raw
  BY DEF ClearedBits, Inv, TypeOK
<1>3. raised \subseteq Code /\ rows \subseteq Alarm /\ Code \subseteq Alarm /\ new \subseteq Code
  BY DEF Inv, TypeOK, Alarm
<1>4. effective \subseteq (rows \cup acked) \cup new BY DEF Inv, ShownHasRow
<1> HIDE DEF cleared
<1> QED BY <1>1, <1>2, <1>3, <1>4

(* Ranges: they touch rows of ranges only.                                  *)
LEMMA RangesAgree ==
  ASSUME Inv, NEW out \in SUBSET Numeric, NEW before \in SUBSET Alarm,
         before \ Code = rows \ Code
  PROVE  LET r == RangeAlarms(out, before)
         IN  /\ r.raised \subseteq Numeric /\ r.rows \subseteq Alarm
             /\ r.raised \subseteq r.rows \cup acked
             /\ r.rows \ Numeric = before \ Numeric
             /\ r.rows \cap Numeric \subseteq r.raised \cup left
<1> DEFINE late == {c \in out : rangeCount'[c] >= RangePolls} \ rangeRaised
           cleared == rangeRaised \ out
<1>1. RangeAlarms(out, before) =
        [rows |-> (before \cup late) \ cleared, raised |-> (rangeRaised \cup late) \ cleared]
  BY DEF RangeAlarms
<1>2. late \subseteq Numeric /\ rangeRaised \subseteq Numeric /\ Numeric \subseteq Alarm
  BY DEF Inv, TypeOK, Alarm
<1>3. rangeRaised \subseteq before \cup acked
  <2>1. rangeRaised \subseteq rows \cup acked BY DEF Inv, RaisedIsShown, ShownHasRow
  <2>2. rangeRaised \cap Code = {} BY <1>2, AlarmsAssumption
  <2> QED BY <2>1, <2>2
<1>4. before \cap Numeric \subseteq rangeRaised \cup left
  <2>1. before \cap Numeric \subseteq rows BY AlarmsAssumption
  <2>2. (raised \cup {Disagree}) \cap Numeric = {} BY AlarmsAssumption DEF Inv, TypeOK
  <2>3. rows \subseteq raised \cup rangeRaised \cup {Disagree} \cup left
    BY DEF Inv, RowsAreOwned, Owned
  <2> QED BY <2>1, <2>2, <2>3
<1> HIDE DEF late
<1> QED BY <1>1, <1>2, <1>3, <1>4

(* Disagreement: it touches its own row only.                               *)
LEMMA DisagreeAgrees ==
  ASSUME Inv, NEW seen, NEW before \in SUBSET Alarm,
         Disagree \in before <=> Disagree \in rows
  PROVE  LET now == DisagreeRows(seen, before)
         IN  /\ now \subseteq Alarm /\ now \ {Disagree} = before \ {Disagree}
             /\ DisagreeRaised(seen) => Disagree \in now \cup acked
             /\ Disagree \in now => DisagreeRaised(seen) \/ Disagree \in left
<1>1. Disagree \in Alarm BY DEF Alarm
<1>2. disRaised => Disagree \in rows \cup acked
  BY DEF Inv, RaisedIsShown, ShownHasRow
<1>3. Disagree \in rows => disRaised \/ Disagree \in left
  BY AlarmsAssumption DEF Inv, TypeOK, RowsAreOwned, Owned
<1>4. disRaised \in BOOLEAN /\ DisagreeRaised(seen) \in BOOLEAN
  BY DEF Inv, TypeOK, DisagreeRaised
<1> QED BY <1>1, <1>2, <1>3, <1>4 DEF DisagreeRows

(* A poll: the pipelines own disjoint rows, so what each leaves the next    *)
(* leaves alone.                                                            *)
LEMMA UpdateInv ==
  ASSUME Inv, NEW found \in SUBSET Code, NEW state \in Engine, NEW out \in SUBSET Numeric,
         NEW seen, Update(found, state, out, seen), UNCHANGED <<device, map, ack, events>>
  PROVE  Inv'
<1> DEFINE raw == found \cap rules
           effective == Effective(raw, state)
           bits == BitAlarms(raw, effective)
           outNow == IF state \in Producing THEN out ELSE {}
           rng == RangeAlarms(outNow, bits.rows)
           mid == IF numericOn THEN rng.rows ELSE bits.rows
           disNow == IF disRaised' THEN {Disagree} ELSE {}
<1>1. /\ raw \subseteq found /\ raw \subseteq Code
      /\ effective \subseteq raw /\ effective \subseteq Code /\ outNow \subseteq Numeric
  BY DEF Effective
<1>2. /\ raised' = bits.raised /\ rows' = DisagreeRows(seen, mid)
      /\ rangeRaised' = IF numericOn THEN rng.raised ELSE rangeRaised
      /\ disRaised' = DisagreeRaised(seen)
      /\ shown' = effective \cup rangeRaised' \cup disNow
      /\ left' = (left \cap rows') \ (bits.new \cup rangeRaised' \cup disNow)
      /\ acked' = (acked \cap shown') \ rows'
  BY DEF Update, ranges
<1>3. /\ bits.raised \subseteq Code /\ bits.raised \subseteq raw
      /\ bits.new \subseteq bits.raised
      /\ bits.new \subseteq effective
      /\ bits.rows \subseteq Alarm /\ effective \subseteq bits.rows \cup acked
      /\ bits.rows \subseteq rows \cup bits.new
      /\ bits.rows \cap raised \subseteq bits.raised
      /\ bits.rows \ Code = rows \ Code
  BY <1>1, BitsAgree
<1>4. /\ rangeRaised' \subseteq Numeric /\ mid \subseteq Alarm
      /\ rangeRaised' \subseteq mid \cup acked
      /\ mid \ Numeric = bits.rows \ Numeric
      /\ mid \cap Numeric \subseteq rangeRaised' \cup left
  <2>1. CASE numericOn BY <1>1, <1>2, <1>3, <2>1, RangesAgree
  <2>2. CASE ~numericOn
    <3>1. rangeRaised \subseteq rows \cup acked /\ rangeRaised \subseteq Numeric
      BY DEF Inv, TypeOK, RaisedIsShown, ShownHasRow
    <3>2. rows \subseteq raised \cup rangeRaised \cup {Disagree} \cup left
      BY DEF Inv, RowsAreOwned, Owned
    <3>3. raised \subseteq Code BY DEF Inv, TypeOK
    <3>4. rangeRaised' = rangeRaised /\ mid = bits.rows BY <1>2, <2>2
    <3> HIDE DEF mid, bits
    <3>5. bits.rows \cap Numeric \subseteq rows BY <1>3, AlarmsAssumption
    <3>6. rangeRaised \subseteq bits.rows \cup acked BY <1>3, <3>1, AlarmsAssumption
    <3> QED BY <1>3, <3>1, <3>2, <3>3, <3>4, <3>5, <3>6, AlarmsAssumption
  <2> QED BY <2>1, <2>2
<1> HIDE DEF mid, bits, effective, raw
<1>5. Disagree \in mid <=> Disagree \in rows BY <1>3, <1>4, AlarmsAssumption
<1>6. /\ rows' \subseteq Alarm /\ rows' \ {Disagree} = mid \ {Disagree}
      /\ disRaised' => Disagree \in rows' \cup acked
      /\ Disagree \in rows' => disRaised' \/ Disagree \in left
  BY <1>2, <1>4, <1>5, DisagreeAgrees
<1>7. TypeOK'
  <2>1. MinPoll \in [Code -> Nat \ {0}] /\ [c \in Numeric |-> RangePolls] \in [Numeric -> Nat \ {0}]
    BY AlarmsAssumption
  <2>2. /\ count' \in [Code -> Nat] /\ \A c \in Code : count'[c] <= MinPoll[c]
        /\ streak' \in [Code -> Nat] /\ \A c \in Code : streak'[c] <= MinPoll[c]
    BY <2>1, CountedTyped DEF Update, Inv, TypeOK
  <2>3. rangeCount' \in [Numeric -> 0..RangePolls]
    <3>1. CASE numericOn
      <4>1. rangeCount' = Counted(rangeCount, outNow, [c \in Numeric |-> RangePolls])
        BY <3>1 DEF Update
      <4>2. rangeCount \in [Numeric -> Nat] /\ \A c \in Numeric : rangeCount[c] <= RangePolls
        BY AlarmsAssumption DEF Inv, TypeOK
      <4>3. rangeCount' \in [Numeric -> Nat] /\ \A c \in Numeric : rangeCount'[c] <= RangePolls
        <5> HIDE DEF outNow
        <5> QED BY <2>1, <4>1, <4>2, CountedTyped
      <4> QED BY <4>3, AlarmsAssumption
    <3>2. CASE ~numericOn BY <3>2 DEF Update, ranges, Inv, TypeOK
    <3> QED BY <3>1, <3>2
  <2>4. disCount' \in 0..DisagreePolls /\ disRaised' \in BOOLEAN
    <3>1. disCount \in 0..DisagreePolls /\ disRaised \in BOOLEAN BY DEF Inv, TypeOK
    <3>2. disCount' = DisagreeCount(seen) /\ disRaised' = DisagreeRaised(seen) BY DEF Update
    <3>3. DisagreeCount(seen) \in 0..DisagreePolls
      BY <3>1, AlarmsAssumption DEF DisagreeCount, UpTo
    <3>4. DisagreeRaised(seen) \in BOOLEAN BY <3>1 DEF DisagreeRaised
    <3> QED BY <3>2, <3>3, <3>4
  <2>5. /\ shown' \subseteq Alarm /\ acked' \subseteq Alarm /\ left' \subseteq Alarm
        /\ raised' \subseteq Code
    BY <1>1, <1>2, <1>3, <1>4, <1>6 DEF Alarm
  <2>6. engine' \in Engine /\ image' \subseteq Code BY DEF Update
  <2> QED BY <1>4, <1>6, <2>2, <2>3, <2>4, <2>5, <2>6 DEF device, map, Inv, TypeOK
<1>8. ShownHasRow'
  <2>1. effective \subseteq rows' \cup acked
    <3>1. effective \cap (Numeric \cup {Disagree}) = {} BY <1>1, AlarmsAssumption
    <3> QED BY <1>3, <1>4, <1>6, <3>1
  <2>2. rangeRaised' \subseteq rows' \cup acked
    BY <1>4, <1>6, AlarmsAssumption
  <2> QED BY <1>2, <1>6, <2>1, <2>2 DEF ShownHasRow
<1>9. RowsAreOwned'
  <2> SUFFICES ASSUME NEW a \in rows', a \notin left'
               PROVE  a \in raised' \cup rangeRaised' \cup disNow
    BY DEF RowsAreOwned, Owned
  <2>1. a \in left => a \in bits.new \cup rangeRaised' \cup disNow BY <1>2
  <2>2. CASE a = Disagree BY <1>2, <1>3, <1>6, <2>1, <2>2
  <2>3. CASE a \in Numeric /\ a # Disagree
    BY <1>2, <1>3, <1>4, <1>6, <2>1, <2>3
  <2>4. CASE a \notin Numeric /\ a # Disagree
    <3>1. a \in bits.rows BY <1>4, <1>6, <2>4
    <3>2. a \in rows \cup bits.new BY <1>3, <3>1
    <3>3. a \in rows => a \in raised \cup left
      BY <2>4 DEF Inv, TypeOK, RowsAreOwned, Owned
    <3> QED BY <1>2, <1>3, <2>1, <3>1, <3>2, <3>3
  <2> QED BY <2>2, <2>3, <2>4
<1>10. RaisedIsShown' BY <1>2 DEF RaisedIsShown
<1>11. RaisedIsRead' BY <1>1, <1>2, <1>3 DEF Update, RaisedIsRead
<1> QED BY <1>7, <1>8, <1>9, <1>10, <1>11 DEF Inv

-----------------------------------------------------------------------------
(* An acknowledgement deletes the row of what is shown, and says so.        *)
LEMMA AckInv ==
  ASSUME Inv, NEW a \in Alarm, NEW ok \in BOOLEAN, AckBegins(a) \/ AckEnds(a, ok)
  PROVE  Inv'
<1>1. CASE AckBegins(a)
  <2>1. TypeOK' BY <1>1, AlarmsAssumption
                DEF AckBegins, device, map, read, ranges, dis, history, Inv, TypeOK
  <2> QED BY <1>1, <2>1
      DEF AckBegins, ranges, dis, history, Inv, ShownHasRow, RowsAreOwned, Owned, RaisedIsShown,
        RaisedIsRead, read
<1>2. CASE AckEnds(a, ok)
  <2>1. TypeOK' BY <1>2 DEF AckEnds, device, map, read, ranges, dis, Inv, TypeOK
  <2>2. ShownHasRow' BY <1>2 DEF AckEnds, Inv, ShownHasRow
  <2>3. RowsAreOwned' BY <1>2 DEF AckEnds, ranges, dis, Inv, RowsAreOwned, Owned
  <2>4. RaisedIsShown' BY <1>2 DEF AckEnds, ranges, dis, Inv, RaisedIsShown
  <2>5. RaisedIsRead' BY <1>2 DEF AckEnds, read, Inv, RaisedIsRead
  <2> QED BY <2>1, <2>2, <2>3, <2>4, <2>5 DEF Inv
<1> QED BY <1>1, <1>2

(* A reload forgets counts and keeps what was raised. *)
LEMMA ReloadInv ==
  ASSUME Inv, NEW codes \in SUBSET Code, NEW numeric \in BOOLEAN, Reload(codes, numeric)
  PROVE  Inv'
<1>1. TypeOK'
  BY ZeroTyped, AlarmsAssumption
     DEF Reload, ResetCount, KeepRaised, device, read, ranges, dis, Inv, TypeOK
<1> QED BY <1>1
    DEF Reload, KeepRaised, ranges, dis, Inv, ShownHasRow, RowsAreOwned, Owned, RaisedIsShown,
        RaisedIsRead, read

(* A restart shows nothing, and leaves every row behind.                    *)
LEMMA RestartInv ==
  ASSUME Inv, Restart
  PROVE  Inv'
<1>1. TypeOK'
  <2>1. /\ count' \in [Code -> Nat] /\ \A c \in Code : count'[c] <= MinPoll[c]
        /\ streak' \in [Code -> Nat] /\ \A c \in Code : streak'[c] <= MinPoll[c]
        /\ rangeCount' \in [Numeric -> 0..RangePolls] /\ disCount' \in 0..DisagreePolls
    BY ZeroTyped DEF Restart
  <2>2. events' \in 0..MaxEvents BY AlarmsAssumption DEF Restart, Inv, TypeOK
  <2> QED BY <2>1, <2>2 DEF Restart, device, map, Inv, TypeOK, Engine
<1> QED BY <1>1 DEF Restart, Inv, ShownHasRow, RowsAreOwned, Owned, RaisedIsShown,
        RaisedIsRead, read

LEMMA DeviceInv ==
  ASSUME Inv, (\E c \in Code : BitChanges(c)) \/ LinkLost \/ LinkBack
  PROVE  Inv'
<1>1. UNCHANGED <<map, read, shown, count, raised, ranges, dis, rows, ack, history>>
  BY DEF BitChanges, LinkLost, LinkBack
<1>2. latched' \subseteq Code
  BY DEF BitChanges, LinkLost, LinkBack, Inv, TypeOK
<1>3. lost' \in BOOLEAN BY DEF BitChanges, LinkLost, LinkBack, Inv, TypeOK
<1>4. events' \in 0..MaxEvents
  BY AlarmsAssumption DEF BitChanges, LinkLost, LinkBack, Inv, TypeOK
<1>5. TypeOK' BY <1>1, <1>2, <1>3, <1>4 DEF map, read, ranges, dis, history, Inv, TypeOK
<1> QED BY <1>1, <1>5
    DEF ranges, dis, history, Inv, ShownHasRow, RowsAreOwned, Owned, RaisedIsShown,
        RaisedIsRead, read

-----------------------------------------------------------------------------
LEMMA NextInv == Inv /\ [Next]_vars => Inv'
<1> SUFFICES ASSUME Inv, [Next]_vars PROVE Inv' OBVIOUS
<1>0. image \in SUBSET Code /\ latched \in SUBSET Code /\ engine \in Engine BY DEF Inv, TypeOK
<1>1. ASSUME NEW out \in SUBSET Numeric, NEW seen \in Comparison,
             StalePoll(out, seen) \/ EvictingPoll(out, seen)
      PROVE  Inv'
  <2>1. CASE StalePoll(out, seen) BY <1>0, <2>1, UpdateInv DEF StalePoll
  <2>2. CASE EvictingPoll(out, seen)
    <3>1. {} \in SUBSET Code OBVIOUS
    <3>2. Update({}, engine, out, seen) /\ UNCHANGED <<device, map, ack, events>>
      BY <2>2 DEF EvictingPoll
    <3> QED BY <1>0, <3>1, <3>2, UpdateInv
  <2> QED BY <1>1, <2>1, <2>2
<1>2. ASSUME NEW out \in SUBSET Numeric, NEW seen \in Comparison, NEW state \in States,
             Poll(state, out, seen)
      PROVE  Inv'
  <2>1. state \in Engine BY AlarmsAssumption
  <2> QED BY <1>0, <1>2, <2>1, UpdateInv DEF Poll
<1>3. ASSUME NEW a \in Alarm, AckBegins(a) \/ \E ok \in BOOLEAN : AckEnds(a, ok) PROVE Inv'
  BY <1>3, AckInv
<1>4. ASSUME NEW codes \in SUBSET Code, NEW numeric \in BOOLEAN, Reload(codes, numeric)
      PROVE  Inv'
  BY <1>4, ReloadInv
<1>5. CASE Restart BY <1>5, RestartInv
<1>6. CASE (\E c \in Code : BitChanges(c)) \/ LinkLost \/ LinkBack BY <1>6, DeviceInv
<1>7. CASE UNCHANGED vars
  <2>1. TypeOK' BY <1>7 DEF vars, device, map, read, ranges, dis, history, Inv, TypeOK
  <2> QED BY <1>7, <2>1
      DEF vars, ranges, dis, history, Inv, ShownHasRow, RowsAreOwned, Owned, RaisedIsShown,
        RaisedIsRead, read
<1> QED BY <1>1, <1>2, <1>3, <1>4, <1>5, <1>6, <1>7 DEF Next, PrimePoll, OtherPoll

(* The strengthening is an invariant: a raised range or disagreement alarm  *)
(* is on display (state.StateMachine.update).                               *)
THEOREM Invariance == Spec => []Inv
<1> QED BY InitInv, NextInv, PTL DEF Spec

(* What is shown has its row unless it was acknowledged, and every row has  *)
(* an owner that will delete it unless a restart left it behind             *)
(* (update, apply_regmap, ack_alarm).                                       *)
THEOREM AlarmsAreSafe == Spec => []AlarmSafety
<1>1. Inv => AlarmSafety BY DEF Inv, AlarmSafety
<1> QED BY <1>1, Invariance, PTL

-----------------------------------------------------------------------------
(* What a step of a poll does to one code, and that a counter counts the    *)
(* polls in a row whose image had the bit.                                  *)
Earned == count = streak
Fairly(c) ==
  /\ c \in shown' \ shown => c \in image' /\ streak'[c] >= MinPoll[c]
  /\ c \in rows \ rows' => c \notin latched \cap rules \/ lost \/ c \in ack \ ack'

LEMMA EarnedKept == (Init => Earned) /\ (Earned /\ [Next]_vars => Earned')
<1>1. Init => Earned BY DEF Init, Earned
<1>2. ASSUME Earned, [Next]_vars PROVE Earned'
  <2>1. ASSUME NEW raw, NEW state, NEW out, NEW seen, Update(raw, state, out, seen)
        PROVE  Earned'
    BY <1>2, <2>1 DEF Update, Earned
  <2>2. CASE PrimePoll \/ OtherPoll
    BY <2>1, <2>2 DEF PrimePoll, OtherPoll, Poll, StalePoll, EvictingPoll
  <2>3. ASSUME NEW codes, NEW numeric, Reload(codes, numeric) PROVE Earned'
    BY <2>3 DEF Reload, ResetCount, Earned
  <2>4. CASE Restart BY <2>4 DEF Restart, Earned
  <2>5. CASE UNCHANGED <<count, history>> BY <1>2, <2>5 DEF Earned, history
  <2>6. ASSUME NEW a, NEW ok, AckEnds(a, ok) PROVE Earned'
    BY <1>2, <2>6 DEF AckEnds, Earned
  <2>7. ASSUME NEW a, AckBegins(a) PROVE UNCHANGED <<count, history>>
    BY <2>7 DEF AckBegins
  <2>8. ASSUME NEW c, BitChanges(c) PROVE UNCHANGED <<count, history>>
    BY <2>8 DEF BitChanges
  <2>9. CASE LinkLost \/ LinkBack \/ UNCHANGED vars
    <3>1. UNCHANGED <<count, history>> BY <2>9 DEF LinkLost, LinkBack, vars
    <3> QED BY <3>1, <2>5
  <2> QED BY <1>2, <2>2, <2>3, <2>4, <2>5, <2>6, <2>7, <2>8, <2>9 DEF Next
<1> QED BY <1>1, <1>2

LEMMA PollIsFair ==
  ASSUME Inv, Inv', Earned', NEW found \in SUBSET Code, NEW state, NEW out \in SUBSET Numeric,
         NEW seen, Update(found, state, out, seen), NEW c \in Code
  PROVE  /\ c \in shown' \ shown => c \in image' /\ streak'[c] >= MinPoll[c]
         /\ c \in rows \ rows' => c \in raised /\ c \notin found \cap rules
<1> DEFINE raw == found \cap rules
           effective == Effective(raw, state)
           bits == BitAlarms(raw, effective)
           outNow == IF state \in Producing THEN out ELSE {}
           rng == RangeAlarms(outNow, bits.rows)
           mid == IF numericOn THEN rng.rows ELSE bits.rows
<1>1. /\ rows' = DisagreeRows(seen, mid)
      /\ shown' = effective \cup rangeRaised' \cup (IF disRaised' THEN {Disagree} ELSE {})
  BY DEF Update
<1>2. c \notin Numeric /\ c # Disagree BY AlarmsAssumption
<1>3. rangeRaised' \subseteq Numeric /\ rangeRaised \subseteq Numeric BY DEF Inv, TypeOK
<1>4. c \in shown' => c \in image' /\ streak'[c] >= MinPoll[c]
  <2>1. c \in shown' => c \in effective BY <1>1, <1>2, <1>3
  <2>2. image' = found BY DEF Update
  <2>3. effective = {d \in raw : count'[d] >= MinPoll[d] /\ state \notin Suppress[d]}
    BY DEF Effective
  <2> HIDE DEF effective
  <2> QED BY <2>1, <2>2, <2>3 DEF Earned
<1>5. c \in rows' <=> c \in mid BY <1>1, <1>2 DEF DisagreeRows
<1>6. c \in mid <=> c \in bits.rows BY <1>2, <1>3 DEF RangeAlarms
<1>7. c \in rows /\ c \notin bits.rows => c \in raised /\ c \notin raw
  <2>1. effective \subseteq raw BY DEF Effective
  <2> QED BY <2>1 DEF BitAlarms, ClearedBits
<1> QED BY <1>4, <1>5, <1>6, <1>7

LEMMA StepIsFair ==
  ASSUME Inv, Inv', Earned', [Next]_vars, NEW c \in Code
  PROVE  Fairly(c)
<1>0. image \in SUBSET Code /\ latched \in SUBSET Code /\ raised \subseteq image
  BY DEF Inv, TypeOK, RaisedIsRead
<1>1. ASSUME NEW out \in SUBSET Numeric, NEW seen, EvictingPoll(out, seen) PROVE Fairly(c)
  <2>1. {} \in SUBSET Code /\ lost /\ Update({}, engine, out, seen) BY <1>1 DEF EvictingPoll
  <2> QED BY <2>1, PollIsFair DEF Fairly
<1>2. ASSUME NEW out \in SUBSET Numeric, NEW seen, NEW state, Poll(state, out, seen) PROVE Fairly(c)
  BY <1>0, <1>2, PollIsFair DEF Poll, Fairly
<1>10. ASSUME NEW out \in SUBSET Numeric, NEW seen, StalePoll(out, seen) PROVE Fairly(c)
  BY <1>0, <1>10, PollIsFair DEF StalePoll, Fairly
<1>3. ASSUME NEW a, NEW ok, AckEnds(a, ok) PROVE Fairly(c) BY <1>3 DEF AckEnds, Fairly
<1>4. CASE Restart BY <1>4 DEF Restart, Fairly
<1>5. CASE UNCHANGED <<shown, rows>> BY <1>5 DEF Fairly
<1>6. ASSUME NEW a, AckBegins(a) PROVE UNCHANGED <<shown, rows>> BY <1>6 DEF AckBegins
<1>7. ASSUME NEW codes, NEW numeric, Reload(codes, numeric) PROVE UNCHANGED <<shown, rows>>
  BY <1>7 DEF Reload
<1>8. ASSUME NEW d, BitChanges(d) PROVE UNCHANGED <<shown, rows>> BY <1>8 DEF BitChanges
<1>9. CASE LinkLost \/ LinkBack \/ UNCHANGED vars
  <2>1. UNCHANGED <<shown, rows>> BY <1>9 DEF LinkLost, LinkBack, vars
  <2> QED BY <2>1, <1>5
<1> QED BY <1>1, <1>2, <1>3, <1>4, <1>5, <1>6, <1>7, <1>8, <1>9, <1>10 DEF Next, PrimePoll, OtherPoll

(* An alarm appears only when the last prime poll that read its bit found   *)
(* it set, after min_poll_count polls in a row, of either tier, whose image *)
(* had it under the map in force, and its row goes only when the bit was    *)
(* low, undefined or unreadable, or by an acknowledgement (update,          *)
(* apply_regmap, ack_alarm).                                                *)
THEOREM AlarmsAreFair == Spec => AlarmsAreEarned
<1>1. Spec => []Earned BY EarnedKept, PTL DEF Spec
<1>2. Inv /\ Inv' /\ Earned' /\ [Next]_vars => [\A c \in Code : Fairly(c)]_vars
  BY StepIsFair
<1>3. [][\A c \in Code : Fairly(c)]_vars => AlarmsAreEarned
  BY PTL DEF AlarmsAreEarned, Fairly
<1> QED BY <1>1, <1>2, <1>3, Invariance, PTL DEF Spec

-----------------------------------------------------------------------------
(* Fuel. *)

(* A line is low only with the one above it, and nothing is low before the  *)
(* first level: with the types of what is remembered, all that the safety   *)
(* of the status needs.                                                     *)
LinesAreNested ==
  /\ isLow \in [Tier -> BOOLEAN]
  /\ isLow["critical"] => isLow["warn"]
  /\ status = "unknown" => ~isLow["warn"]

SampleRecord == [pct : Level, age : 0..Window + 1]
FoundRecord == [pct : Level \cup {NoLevel}, engine : FuelEngine]

Remembered ==
  /\ samples \in Seq(SampleRecord) /\ Len(samples) <= Capacity
  /\ past \in Seq(FoundRecord) /\ Len(past) <= Window + 1

(* A sample of the window is the reading of as many polls ago, with no burn *)
(* since, and it has as many samples behind it as there were readings; each *)
(* reading that may be compared is still among the samples.                 *)
Behind(j) == samples[Len(samples) - j]
SamplesAreReadings ==
  \A j \in 0..Len(samples) - 1, k \in 0..Window :
    Behind(j).age = k => /\ k \in 0..Len(past) - 1 /\ Since(k).pct = Behind(j).pct
                         /\ Comparable(k) /\ Readings(k) = j + 1
SamplesAreInOrder ==
  \A i, j \in 0..Len(samples) - 1 : i <= j => Behind(i).age <= Behind(j).age
ReadingsAreSampled ==
  \A k \in 0..Len(past) - 1 :
    Since(k).pct # NoLevel /\ Comparable(k) /\ Readings(k) <= Capacity =>
      \E j \in 0..Len(samples) - 1 : Behind(j).age = k
Kept == SamplesAreReadings /\ SamplesAreInOrder /\ ReadingsAreSampled

FuelInv ==
  /\ cfg \in Configs /\ status \in Tier \cup {"unknown", "ok"}
  /\ spoke \in 0..Renotify /\ alerted \in 0..Window
  /\ told \in Tier \cup {"none", "ok"}
  /\ LinesAreNested /\ StatusIsTwoLines /\ LowIsTold /\ Remembered /\ Kept

LEMMA Bounds ==
  /\ MaxLevel \in Nat /\ Renotify \in Nat /\ Window \in Nat \ {0} /\ Capacity \in Nat \ {0}
  /\ \A c \in Configs : /\ c.warn \in Int /\ c.critical \in Int /\ c.drop \in Nat
                        /\ c.hysteresis \in Nat
                        /\ c["warn"] = c.warn /\ c["critical"] = c.critical
BY FuelAssumption DEF Config

(* AtMost, and the tail of a sequence that is kept.                         *)
LEMMA AtMostIs ==
  ASSUME NEW bound \in Nat, NEW n \in Nat
  PROVE  /\ AtMost(bound, n) \in 0..bound /\ AtMost(bound, n) <= n
         /\ n <= bound => AtMost(bound, n) = n
         /\ n >= bound => AtMost(bound, n) = bound
BY DEF AtMost

LEMMA LastIs ==
  ASSUME NEW S, NEW s \in Seq(S), NEW n \in Nat
  PROVE  /\ Last(s, n) \in Seq(S) /\ Len(Last(s, n)) = AtMost(n, Len(s))
         /\ \A i \in 0..AtMost(n, Len(s)) - 1 : Last(s, n)[Len(Last(s, n)) - i] = s[Len(s) - i]
<1> DEFINE k == AtMost(n, Len(s))
<1>1. Len(s) \in Nat BY LenProperties
<1>2. k \in Nat /\ k <= Len(s) /\ k <= n BY <1>1, AtMostIs
<1>3. Last(s, n) = SubSeq(s, Len(s) - k + 1, Len(s)) BY DEF Last
<1> HIDE DEF k
<1>4. \A i \in 1..Len(s) : s[i] \in S BY ElementOfSeq
<1>5. \A i \in Len(s) - k + 1..Len(s) : s[i] \in S BY <1>1, <1>2, <1>4
<1>6. /\ Last(s, n) \in Seq(S)
      /\ Len(Last(s, n)) = IF Len(s) - k + 1 <= Len(s) THEN Len(s) - (Len(s) - k + 1) + 1 ELSE 0
      /\ \A i \in 1..Len(s) - (Len(s) - k + 1) + 1 : Last(s, n)[i] = s[Len(s) - k + 1 + i - 1]
  <2>1. Len(s) - k + 1 \in Int /\ Len(s) \in Int BY <1>1, <1>2
  <2> QED BY <1>3, <1>5, <2>1, SubSeqProperties
<1>7. Len(Last(s, n)) = k BY <1>1, <1>2, <1>6
<1>8. ASSUME NEW i \in 0..k - 1 PROVE Last(s, n)[k - i] = s[Len(s) - i]
  <2>1. k - i \in 1..Len(s) - (Len(s) - k + 1) + 1 BY <1>1, <1>2
  <2>2. Last(s, n)[k - i] = s[Len(s) - k + 1 + (k - i) - 1] BY <1>6, <2>1
  <2>3. Len(s) - k + 1 + (k - i) - 1 = Len(s) - i BY <1>1, <1>2
  <2> QED BY <2>2, <2>3
<1> QED BY <1>6, <1>7, <1>8 DEF k

(* A poll is added to what is remembered of them, and all others are one    *)
(* poll older.                                                              *)
LEMMA PastMoves ==
  ASSUME past \in Seq(FoundRecord), Len(past) <= Window + 1, NEW f \in FoundRecord, Remember(f)
  PROVE  /\ past' \in Seq(FoundRecord) /\ Len(past') = AtMost(Window + 1, Len(past) + 1)
         /\ Since(0)' = f
         /\ \A k \in Nat : k + 1 < Len(past') => k < Len(past) /\ Since(k + 1)' = Since(k)
<1> DEFINE h == Append(past, f)
<1>1. Len(past) \in Nat /\ Window + 1 \in Nat BY LenProperties, Bounds
<1>2. /\ h \in Seq(FoundRecord) /\ Len(h) = Len(past) + 1 /\ h[Len(past) + 1] = f
      /\ \A i \in 1..Len(past) : h[i] = past[i]
  BY AppendProperties
<1>3. past' = Last(h, Window + 1) BY DEF Remember
<1> HIDE DEF h
<1>4. /\ past' \in Seq(FoundRecord) /\ Len(past') = AtMost(Window + 1, Len(past) + 1)
      /\ \A i \in 0..AtMost(Window + 1, Len(past) + 1) - 1 : past'[Len(past') - i] = h[Len(past) + 1 - i]
  <2> DEFINE n == Window + 1
             t == Last(h, n)
  <2>1. n \in Nat /\ past' = t BY <1>1, <1>3
  <2> HIDE DEF n
  <2>2. /\ t \in Seq(FoundRecord) /\ Len(t) = AtMost(n, Len(h))
        /\ \A i \in 0..AtMost(n, Len(h)) - 1 : t[Len(t) - i] = h[Len(h) - i]
    BY <1>2, <2>1, LastIs
  <2> HIDE DEF t
  <2> DEFINE m == Len(h)
  <2> HIDE DEF m
  <2>3. m = Len(past) + 1 BY <1>2 DEF m
  <2>4. /\ past' \in Seq(FoundRecord) /\ Len(past') = AtMost(n, m)
        /\ \A i \in 0..AtMost(n, m) - 1 : past'[Len(past') - i] = h[m - i]
    BY <2>1, <2>2, Zenon DEF m
  <2> QED BY <2>3, <2>4 DEF n
<1>5. Len(past') >= 1 /\ Len(past') <= Len(past) + 1 /\ Len(past') \in Nat
  BY <1>1, <1>4, Bounds DEF AtMost
<1>6. Since(0)' = f
  <2>1. past'[Len(past') - 0] = h[Len(past) + 1 - 0] BY <1>4, <1>5
  <2> QED BY <1>1, <1>2, <2>1 DEF Since
<1>7. ASSUME NEW k \in Nat, k + 1 < Len(past') PROVE k < Len(past) /\ Since(k + 1)' = Since(k)
  <2>1. past'[Len(past') - (k + 1)] = h[Len(past) + 1 - (k + 1)] BY <1>4, <1>5, <1>7
  <2>2. Len(past) + 1 - (k + 1) = Len(past) - k /\ Len(past) - k \in 1..Len(past)
    BY <1>1, <1>5, <1>7
  <2>3. h[Len(past) - k] = past[Len(past) - k] BY <1>2, <2>2
  <2> QED BY <1>1, <1>5, <1>7, <2>1, <2>2, <2>3 DEF Since
<1> QED BY <1>4, <1>6, <1>7

Levels(k) == {i \in 0..k : Since(i).pct # NoLevel}

LEMMA LevelsAreFinite ==
  ASSUME NEW k \in Nat
  PROVE  IsFiniteSet(Levels(k)) /\ Readings(k) = Cardinality(Levels(k)) /\ Readings(k) \in Nat
<1>1. IsFiniteSet(0..k) BY FS_Interval
<1>2. IsFiniteSet(Levels(k)) BY <1>1, FS_Subset DEF Levels
<1> QED BY <1>2, FS_CardinalityType DEF Levels, Readings

LEMMA ReadingsMove ==
  ASSUME NEW k \in Nat, \A i \in 0..k : Since(i + 1)' = Since(i)
  PROVE  /\ Readings(k + 1)' = Readings(k) + IF Since(0)'.pct # NoLevel THEN 1 ELSE 0
         /\ Comparable(k + 1)' <=> /\ Comparable(k)
                                   /\ ~(Since(0)'.engine = "burning" /\ Since(0)'.pct # NoLevel)
<1> DEFINE Later == {i + 1 : i \in Levels(k)}
           f == [i \in Levels(k) |-> i + 1]
<1>1. IsFiniteSet(Levels(k)) /\ Readings(k) = Cardinality(Levels(k)) /\ Readings(k) \in Nat
  BY LevelsAreFinite
<1>2. Levels(k) \subseteq 0..k BY DEF Levels
<1>3. f \in Bijection(Levels(k), Later)
  <2>1. f \in [Levels(k) -> Later] OBVIOUS
  <2>2. \A a, b \in Levels(k) : f[a] = f[b] => a = b BY <1>2
  <2>3. \A t \in Later : \E s \in Levels(k) : f[s] = t OBVIOUS
  <2> QED BY <2>1, <2>2, <2>3, Fun_IsBij
<1>4. IsFiniteSet(Later) /\ Cardinality(Later) = Readings(k)
  BY <1>1, <1>3, FS_Bijection DEF ExistsBijection
<1>5. Levels(k + 1)' = Later \cup IF Since(0)'.pct # NoLevel THEN {0} ELSE {}
  <2>1. ASSUME NEW i \in 0..k + 1
        PROVE  i \in Levels(k + 1)' <=> IF i = 0 THEN Since(0)'.pct # NoLevel ELSE i - 1 \in Levels(k)
    <3>1. i \in Levels(k + 1)' <=> Since(i)'.pct # NoLevel BY DEF Levels
    <3>2. CASE i = 0 BY <3>1, <3>2
    <3>3. CASE i # 0
      <4>1. i - 1 \in 0..k BY <3>3
      <4>2. Since(i - 1 + 1)' = Since(i - 1) BY <4>1
      <4>3. i - 1 + 1 = i OBVIOUS
      <4>4. Since(i)' = Since(i - 1) BY <4>2, <4>3
      <4> QED BY <3>1, <3>3, <4>1, <4>4 DEF Levels
    <3> QED BY <3>2, <3>3
  <2>2. Levels(k + 1)' \subseteq 0..k + 1 BY DEF Levels
  <2>3. ASSUME NEW i \in 0..k + 1
        PROVE  i \in Later <=> i # 0 /\ i - 1 \in Levels(k)
    <3>1. i \in Later => i # 0 /\ i - 1 \in Levels(k) BY <1>2
    <3>2. i # 0 /\ i - 1 \in Levels(k) => i \in Later
      <4>1. i = (i - 1) + 1 OBVIOUS
      <4> QED BY <4>1
    <3> QED BY <3>1, <3>2
  <2>4. Later \subseteq 0..k + 1 BY <1>2
  <2> HIDE DEF Later
  <2>5. \A i : i \in Levels(k + 1)' <=> i \in Later \cup IF Since(0)'.pct # NoLevel THEN {0} ELSE {}
    <3>1. 0 \in 0..k + 1 OBVIOUS
    <3>2. ASSUME NEW i PROVE i \in Levels(k + 1)' <=> i \in Later \cup IF Since(0)'.pct # NoLevel THEN {0} ELSE {}
      <4>1. CASE i \notin 0..k + 1 BY <2>2, <2>4, <3>1, <4>1
      <4>2. CASE i = 0
        <5>1. i \in Levels(k + 1)' <=> Since(0)'.pct # NoLevel BY <2>1, <3>1, <4>2
        <5>2. i \notin Later BY <2>3, <3>1, <4>2
        <5> QED BY <4>2, <5>1, <5>2
      <4>3. CASE i \in 0..k + 1 /\ i # 0 BY <2>1, <2>3, <4>3
      <4> QED BY <4>1, <4>2, <4>3
    <3> QED BY <3>2
  <2> QED BY <2>5
<1>6. 0 \notin Later BY <1>2
<1>7. Readings(k + 1)' = Cardinality(Levels(k + 1)') BY DEF Readings, Levels
<1>8. Readings(k + 1)' = Readings(k) + IF Since(0)'.pct # NoLevel THEN 1 ELSE 0
  <2> HIDE DEF Later
  <2>1. CASE Since(0)'.pct # NoLevel
    <3>1. Levels(k + 1)' = Later \cup {0} BY <1>5, <2>1
    <3>2. Cardinality(Later \cup {0}) = Cardinality(Later) + 1 BY <1>4, <1>6, FS_AddElement
    <3> QED BY <1>4, <1>7, <2>1, <3>1, <3>2
  <2>2. CASE Since(0)'.pct = NoLevel
    <3>1. Levels(k + 1)' = Later BY <1>5, <2>2
    <3> QED BY <1>1, <1>4, <1>7, <2>2, <3>1
  <2> QED BY <2>1, <2>2
<1>9. Comparable(k + 1)' <=> /\ Comparable(k)
                             /\ ~(Since(0)'.engine = "burning" /\ Since(0)'.pct # NoLevel)
  <2> DEFINE Burnt(i) == Since(i).engine = "burning" /\ Since(i).pct # NoLevel
  <2>1. \A i \in 0..k - 1 : Since(i + 1)' = Since(i) OBVIOUS
  <2>2. \A i \in 0..k - 1 : Burnt(i + 1)' <=> Burnt(i) BY <2>1
  <2>3. Comparable(k) <=> \A i \in 0..k - 1 : ~Burnt(i) BY DEF Comparable
  <2>4. Comparable(k + 1)' <=> \A i \in 0..k + 1 - 1 : ~Burnt(i)' BY DEF Comparable
  <2>5. Burnt(0)' <=> Since(0)'.engine = "burning" /\ Since(0)'.pct # NoLevel OBVIOUS
  <2> HIDE DEF Burnt
  <2>6. (\A i \in 0..k + 1 - 1 : ~Burnt(i)') <=> ~Burnt(0)' /\ \A i \in 0..k - 1 : ~Burnt(i + 1)'
    <3>1. ASSUME ~Burnt(0)', \A i \in 0..k - 1 : ~Burnt(i + 1)', NEW i \in 0..k + 1 - 1
          PROVE  ~Burnt(i)'
      <4>1. CASE i = 0 BY <3>1, <4>1
      <4>2. CASE i # 0
        <5>1. i - 1 \in 0..k - 1 /\ i - 1 + 1 = i BY <4>2
        <5> QED BY <3>1, <5>1
      <4> QED BY <4>1, <4>2
    <3>2. ASSUME \A i \in 0..k + 1 - 1 : ~Burnt(i)', NEW i \in 0..k - 1
          PROVE  ~Burnt(i + 1)'
      <4>1. i + 1 \in 0..k + 1 - 1 OBVIOUS
      <4> QED BY <3>2, <4>1
    <3>3. (\A i \in 0..k + 1 - 1 : ~Burnt(i)') => ~Burnt(0)' OBVIOUS
    <3> QED BY <3>1, <3>2, <3>3
  <2> QED BY <2>2, <2>3, <2>4, <2>5, <2>6
<1> QED BY <1>8, <1>9

LEMMA NewestReading ==
  /\ Readings(0)' = IF Since(0)'.pct # NoLevel THEN 1 ELSE 0
  /\ Comparable(0)'
<1>1. Levels(0)' = IF Since(0)'.pct # NoLevel THEN {0} ELSE {} BY DEF Levels
<1>2. Cardinality({0}) = 1 /\ Cardinality({}) = 0 BY FS_Singleton, FS_EmptySet
<1>3. Readings(0)' = Cardinality(Levels(0)') BY DEF Readings, Levels
<1> QED BY <1>1, <1>2, <1>3 DEF Comparable

-----------------------------------------------------------------------------
(* The samples and what they are samples of move together: when n new ones  *)
(* (none, or one) come in, the others age, and only those leave that are    *)
(* out of the window or that the deque has no room for.                     *)
Older(x) == [pct |-> x.pct, age |-> AtMost(Window + 1, x.age + 1)]

SamplesMove(n) ==
  /\ \A j \in Nat : j + n < Len(samples') => j < Len(samples) /\ Behind(j + n)' = Older(Behind(j))
  /\ \A j \in 0..Len(samples) - 1 :
       j + n < Len(samples') \/ Behind(j).age >= Window \/ (n = 1 /\ j + 1 >= Capacity)

LEMMA SampleTypes ==
  ASSUME Remembered, NEW j \in 0..Len(samples) - 1
  PROVE  Behind(j) \in SampleRecord /\ Behind(j).age \in 0..Window + 1 /\ Behind(j).pct \in Level
<1>1. Len(samples) \in Nat BY LenProperties DEF Remembered
<1>2. Len(samples) - j \in 1..Len(samples) BY <1>1
<1>3. Behind(j) \in SampleRecord BY <1>2, ElementOfSeq DEF Remembered, Behind
<1> QED BY <1>3 DEF SampleRecord

LEMMA KeptMoves ==
  ASSUME Remembered, Kept, NEW f \in FoundRecord, Remember(f), samples' \in Seq(SampleRecord),
         NEW n \in {0, 1}, n = 1 <=> f.pct # NoLevel,
         n = 1 => f.engine # "burning" /\ Len(samples') > 0
                  /\ Behind(0)'.pct = f.pct /\ Behind(0)'.age = 0,
         SamplesMove(n)
  PROVE  Kept'
<1>1. /\ past' \in Seq(FoundRecord) /\ Len(past') = AtMost(Window + 1, Len(past) + 1)
      /\ Since(0)' = f
      /\ \A k \in Nat : k + 1 < Len(past') => k < Len(past) /\ Since(k + 1)' = Since(k)
  BY PastMoves DEF Remembered
<1>2. /\ Len(past) \in Nat /\ Len(samples) \in Nat /\ Len(samples') \in Nat
      /\ Window \in Nat /\ Capacity \in Nat /\ Window >= 1 /\ Capacity >= 1
  BY LenProperties, Bounds DEF Remembered
<1>3. Len(past') \in Nat /\ Len(past') >= 1 /\ Len(past') <= Window + 1 /\ Len(past') <= Len(past) + 1
      /\ \A k \in Nat : k < Len(past) /\ k + 1 <= Window => k + 1 < Len(past')
  <2>1. Len(past) + 1 \in Nat /\ Window + 1 \in Nat BY <1>2
  <2>2. Len(past') = IF Len(past) + 1 < Window + 1 THEN Len(past) + 1 ELSE Window + 1 BY <1>1 DEF AtMost
  <2> QED BY <1>2, <2>1, <2>2
<1>4. ASSUME NEW k \in Nat, k + 1 < Len(past')
      PROVE  /\ k \in 0..Len(past) - 1 /\ Since(k + 1)' = Since(k)
             /\ Readings(k + 1)' = Readings(k) + n /\ Readings(k) \in Nat
             /\ Comparable(k + 1)' <=> Comparable(k)
  <2>1. k < Len(past) /\ Since(k + 1)' = Since(k) BY <1>1, <1>4
  <2>2. \A i \in 0..k : Since(i + 1)' = Since(i)
    <3>1. \A i \in 0..k : i \in Nat /\ i + 1 < Len(past') BY <1>3, <1>4
    <3> QED BY <1>1, <3>1
  <2>3. /\ Readings(k + 1)' = Readings(k) + IF Since(0)'.pct # NoLevel THEN 1 ELSE 0
        /\ Comparable(k + 1)' <=> /\ Comparable(k)
                                  /\ ~(Since(0)'.engine = "burning" /\ Since(0)'.pct # NoLevel)
    BY <2>2, ReadingsMove
  <2>4. Readings(k) \in Nat BY LevelsAreFinite
  <2>5. n = IF Since(0)'.pct # NoLevel THEN 1 ELSE 0 BY <1>1
  <2>6. ~(Since(0)'.engine = "burning" /\ Since(0)'.pct # NoLevel) BY <1>1
  <2>7. k \in 0..Len(past) - 1 BY <1>2, <2>1
  <2> QED BY <2>1, <2>3, <2>4, <2>5, <2>6, <2>7
<1>5. \A j \in 0..Len(samples) - 1 : Behind(j).age \in 0..Window + 1 BY SampleTypes
<1>6. ASSUME NEW j \in Nat, j + n < Len(samples')
      PROVE  /\ j \in 0..Len(samples) - 1
             /\ Behind(j + n)'.pct = Behind(j).pct
             /\ Behind(j + n)'.age = IF Behind(j).age <= Window THEN Behind(j).age + 1 ELSE Window + 1
  <2>1. j < Len(samples) /\ Behind(j + n)' = Older(Behind(j)) BY <1>6 DEF SamplesMove
  <2>2. j \in 0..Len(samples) - 1 /\ Behind(j).age \in 0..Window + 1
    <3>1. j \in 0..Len(samples) - 1 BY <1>2, <2>1
    <3> QED BY <1>5, <3>1
  <2>3. /\ Behind(j + n)'.pct = Behind(j).pct
        /\ Behind(j + n)'.age = AtMost(Window + 1, Behind(j).age + 1)
    BY <2>1 DEF Older
  <2>4. AtMost(Window + 1, Behind(j).age + 1) =
          IF Behind(j).age <= Window THEN Behind(j).age + 1 ELSE Window + 1
    <3>1. ASSUME NEW a \in 0..Window + 1
          PROVE  AtMost(Window + 1, a + 1) = IF a <= Window THEN a + 1 ELSE Window + 1
      BY <1>2 DEF AtMost
    <3> QED BY <2>2, <3>1
  <2> QED BY <2>2, <2>3, <2>4
<1>7. SamplesAreReadings'
  <2> SUFFICES ASSUME NEW j \in 0..Len(samples') - 1, NEW k \in 0..Window, Behind(j)'.age = k
               PROVE  /\ k \in 0..Len(past') - 1 /\ Since(k)'.pct = Behind(j)'.pct
                      /\ Comparable(k)' /\ Readings(k)' = j + 1
    BY DEF SamplesAreReadings
  <2>1. CASE n = 1 /\ j = 0
    <3>1. k = 0 /\ Since(k)'.pct = Behind(j)'.pct BY <1>1, <2>1
    <3>2. k \in 0..Len(past') - 1 BY <1>3, <3>1
    <3> QED BY <1>1, <2>1, <3>1, <3>2, NewestReading
  <2>2. CASE ~(n = 1 /\ j = 0)
    <3>1. PICK i \in Nat : j = i + n
      <4>1. j - n \in Nat /\ j = (j - n) + n BY <2>2
      <4> QED BY <4>1
    <3>2. i + n < Len(samples') BY <1>2, <3>1
    <3>3. /\ i \in 0..Len(samples) - 1 /\ Behind(j)'.pct = Behind(i).pct
          /\ k = IF Behind(i).age <= Window THEN Behind(i).age + 1 ELSE Window + 1
      BY <1>6, <3>1, <3>2
    <3>4. PICK m \in 0..Window : Behind(i).age = m /\ k = m + 1
      <4>1. Behind(i).age \in 0..Window + 1 BY <1>5, <3>3
      <4>2. Behind(i).age <= Window
        <5>1. Window + 1 > Window BY <1>2
        <5> QED BY <1>2, <3>3, <4>1, <5>1
      <4>3. Behind(i).age \in 0..Window BY <1>2, <4>1, <4>2
      <4> QED BY <3>3, <4>2, <4>3
    <3>5. /\ m \in 0..Len(past) - 1 /\ Since(m).pct = Behind(i).pct
          /\ Comparable(m) /\ Readings(m) = i + 1
      BY <3>3, <3>4 DEF Kept, SamplesAreReadings
    <3>6. m \in Nat /\ m + 1 < Len(past') BY <1>2, <1>3, <3>4, <3>5
    <3>7. Since(k)' = Since(m) /\ Readings(k)' = Readings(m) + n /\ Comparable(k)'
      BY <1>4, <3>4, <3>5, <3>6
    <3>8. k \in 0..Len(past') - 1 BY <1>3, <3>4, <3>6
    <3>9. Readings(k)' = j + 1 BY <3>1, <3>5, <3>7
    <3> QED BY <3>3, <3>5, <3>7, <3>8, <3>9
  <2> QED BY <2>1, <2>2
<1>8. SamplesAreInOrder'
  <2> SUFFICES ASSUME NEW i \in 0..Len(samples') - 1, NEW j \in 0..Len(samples') - 1, i <= j
               PROVE  Behind(i)'.age <= Behind(j)'.age
    BY DEF SamplesAreInOrder
  <2>1. ASSUME NEW b \in 0..Len(samples') - 1 PROVE Behind(b)'.age \in 0..Window + 1
    <3>1. Len(samples') - b \in 1..Len(samples') BY <1>2
    <3>2. Behind(b)' \in SampleRecord BY <3>1, ElementOfSeq DEF Behind
    <3> QED BY <3>2 DEF SampleRecord
  <2>2. CASE n = 1 /\ i = 0
    BY <1>2, <2>1, <2>2
  <2>3. CASE ~(n = 1 /\ i = 0)
    <3>1. /\ i - n \in Nat /\ i = (i - n) + n /\ j - n \in Nat /\ j = (j - n) + n
      BY <2>3
    <3>2. PICK a \in Nat, b \in Nat : i = a + n /\ j = b + n /\ a <= b BY <3>1
    <3>3. a + n < Len(samples') /\ b + n < Len(samples') BY <1>2, <3>2
    <3>4. /\ a \in 0..Len(samples) - 1 /\ b \in 0..Len(samples) - 1
          /\ Behind(i)'.age = IF Behind(a).age <= Window THEN Behind(a).age + 1 ELSE Window + 1
          /\ Behind(j)'.age = IF Behind(b).age <= Window THEN Behind(b).age + 1 ELSE Window + 1
      BY <1>6, <3>2, <3>3
    <3>5. Behind(a).age <= Behind(b).age BY <3>2, <3>4 DEF Kept, SamplesAreInOrder
    <3>6. Behind(a).age \in 0..Window + 1 /\ Behind(b).age \in 0..Window + 1 BY <1>5, <3>4
    <3>7. ASSUME NEW x \in 0..Window + 1, NEW y \in 0..Window + 1, x <= y
          PROVE  (IF x <= Window THEN x + 1 ELSE Window + 1) <= IF y <= Window THEN y + 1 ELSE Window + 1
      <4>1. CASE y <= Window
        <5>1. x <= Window BY <1>2, <3>7, <4>1
        <5> QED BY <3>7, <4>1, <5>1
      <4>2. CASE ~(y <= Window)
        <5>1. x + 1 <= Window + 1 \/ ~(x <= Window) BY <1>2
        <5> QED BY <1>2, <4>2, <5>1
      <4> QED BY <4>1, <4>2
    <3> QED BY <3>4, <3>5, <3>6, <3>7
  <2> QED BY <2>2, <2>3
<1>9. ReadingsAreSampled'
  <2> SUFFICES ASSUME NEW k \in 0..Len(past') - 1, Since(k)'.pct # NoLevel, Comparable(k)',
                      Readings(k)' <= Capacity
               PROVE  \E j \in 0..Len(samples') - 1 : Behind(j)'.age = k
    BY DEF ReadingsAreSampled
  <2>1. CASE k = 0
    <3>1. n = 1 BY <1>1, <2>1
    <3>2. 0 \in 0..Len(samples') - 1 /\ Behind(0)'.age = 0 BY <1>2, <3>1
    <3> QED BY <2>1, <3>2
  <2>2. CASE k # 0
    <3>1. PICK m \in Nat : k = m + 1
      <4>1. k - 1 \in Nat /\ k = (k - 1) + 1 BY <1>3, <2>2
      <4> QED BY <4>1
    <3>2. m + 1 < Len(past') BY <1>3, <3>1
    <3>3. /\ m \in 0..Len(past) - 1 /\ Since(k)' = Since(m)
          /\ Readings(k)' = Readings(m) + n /\ Readings(m) \in Nat /\ Comparable(m)
      BY <1>4, <3>1, <3>2
    <3>4. Readings(m) + n <= Capacity /\ Readings(m) <= Capacity BY <1>2, <3>3
    <3>5. PICK j \in 0..Len(samples) - 1 : Behind(j).age = m
      BY <3>3, <3>4 DEF Kept, ReadingsAreSampled
    <3>6. m + 1 <= Window /\ m \in 0..Window BY <1>2, <1>3, <3>2
    <3>7. Readings(m) = j + 1 BY <3>5, <3>6 DEF Kept, SamplesAreReadings
    <3>8. ~(Behind(j).age >= Window) /\ ~(n = 1 /\ j + 1 >= Capacity)
      BY <1>2, <3>4, <3>5, <3>6, <3>7
    <3>9. j \in Nat /\ j + n < Len(samples')
      <4>1. \A b \in 0..Len(samples) - 1 :
              b + n < Len(samples') \/ Behind(b).age >= Window \/ (n = 1 /\ b + 1 >= Capacity)
        BY DEF SamplesMove
      <4>2. j + n < Len(samples') BY <3>8, <4>1
      <4>3. j \in Nat BY <1>2
      <4> QED BY <4>2, <4>3
    <3>10. Behind(j + n)'.age = m + 1 BY <1>2, <1>6, <3>5, <3>6, <3>9
    <3>11. j + n \in 0..Len(samples') - 1 BY <1>2, <3>9
    <3> QED BY <3>1, <3>10, <3>11
  <2> QED BY <2>1, <2>2
<1> QED BY <1>7, <1>8, <1>9 DEF Kept

-----------------------------------------------------------------------------
(* What _check_drop makes of the samples.                                   *)
LEMMA AgedIs ==
  ASSUME Remembered
  PROVE  /\ Aged \in Seq(SampleRecord) /\ Len(Aged) = Len(samples)
         /\ \A j \in 0..Len(samples) - 1 : Aged[Len(samples) - j] = Older(Behind(j))
<1>1. Len(samples) \in Nat /\ DOMAIN samples = 1..Len(samples) BY LenProperties DEF Remembered
<1>2. ASSUME NEW i \in 1..Len(samples)
      PROVE  samples[i] \in SampleRecord /\ Aged[i] = Older(samples[i]) /\ Aged[i] \in SampleRecord
  <2>1. samples[i] \in SampleRecord BY <1>2, ElementOfSeq DEF Remembered
  <2>2. Aged[i] = [samples[i] EXCEPT !.age = AtMost(Window + 1, samples[i].age + 1)] BY <1>1, <1>2 DEF Aged
  <2>3. Aged[i] = Older(samples[i]) BY <2>1, <2>2 DEF SampleRecord, Older
  <2>4. AtMost(Window + 1, samples[i].age + 1) \in 0..Window + 1
    <3>1. samples[i].age \in 0..Window + 1 BY <2>1 DEF SampleRecord
    <3>2. samples[i].age + 1 \in Nat /\ Window + 1 \in Nat BY <3>1, Bounds
    <3> QED BY <3>2, AtMostIs
  <2> QED BY <2>1, <2>3, <2>4 DEF SampleRecord, Older
<1>3. Aged \in [1..Len(samples) -> SampleRecord] BY <1>1, <1>2 DEF Aged
<1>4. Aged \in Seq(SampleRecord) /\ Len(Aged) = Len(samples) BY <1>1, <1>3, IsASeq, LenProperties
<1>5. ASSUME NEW j \in 0..Len(samples) - 1 PROVE Aged[Len(samples) - j] = Older(Behind(j))
  <2>1. Len(samples) - j \in 1..Len(samples) BY <1>1
  <2> QED BY <1>2, <2>1 DEF Behind
<1> QED BY <1>4, <1>5

LEMMA SampledIs ==
  ASSUME Remembered, NEW pct \in Level
  PROVE  LET s == Sampled(pct)
         IN  /\ s \in Seq(SampleRecord) /\ Len(s) = AtMost(Capacity, Len(samples) + 1)
             /\ s[Len(s)] = [pct |-> pct, age |-> 0]
             /\ \A j \in 0..Len(samples) - 1 :
                  j + 1 < Len(s) => s[Len(s) - (j + 1)] = Older(Behind(j))
<1> DEFINE new == [pct |-> pct, age |-> 0]
           h == Append(Aged, new)
           s == Sampled(pct)
<1>1. Len(samples) \in Nat /\ Capacity \in Nat /\ Capacity >= 1 /\ Window \in Nat
  BY LenProperties, Bounds DEF Remembered
<1>2. new \in SampleRecord BY <1>1 DEF SampleRecord
<1>3. /\ Aged \in Seq(SampleRecord) /\ Len(Aged) = Len(samples)
      /\ \A j \in 0..Len(samples) - 1 : Aged[Len(samples) - j] = Older(Behind(j))
  BY AgedIs
<1> HIDE DEF new
<1>4. /\ h \in Seq(SampleRecord) /\ Len(h) = Len(samples) + 1 /\ h[Len(samples) + 1] = new
      /\ \A i \in 1..Len(samples) : h[i] = Aged[i]
  BY <1>2, <1>3, AppendProperties
<1>5. s = Last(h, Capacity) BY DEF Sampled, new
<1> HIDE DEF h, s
<1>6. /\ s \in Seq(SampleRecord) /\ Len(s) = AtMost(Capacity, Len(samples) + 1)
      /\ \A i \in 0..Len(s) - 1 : s[Len(s) - i] = h[Len(samples) + 1 - i]
  <2>1. /\ Last(h, Capacity) \in Seq(SampleRecord) /\ Len(Last(h, Capacity)) = AtMost(Capacity, Len(h))
        /\ \A i \in 0..AtMost(Capacity, Len(h)) - 1 :
             Last(h, Capacity)[Len(Last(h, Capacity)) - i] = h[Len(h) - i]
    BY <1>1, <1>4, LastIs
  <2> QED BY <1>4, <1>5, <2>1
<1>7. Len(s) \in Nat /\ Len(s) >= 1 /\ Len(s) <= Len(samples) + 1
  <2>1. Len(s) = IF Len(samples) + 1 < Capacity THEN Len(samples) + 1 ELSE Capacity BY <1>6 DEF AtMost
  <2> QED BY <1>1, <2>1
<1>8. s[Len(s)] = new
  <2>1. s[Len(s) - 0] = h[Len(samples) + 1 - 0] BY <1>6, <1>7
  <2>2. Len(s) - 0 = Len(s) /\ Len(samples) + 1 - 0 = Len(samples) + 1 BY <1>1, <1>7
  <2> QED BY <1>4, <2>1, <2>2
<1>9. ASSUME NEW j \in 0..Len(samples) - 1, j + 1 < Len(s)
      PROVE  s[Len(s) - (j + 1)] = Older(Behind(j))
  <2>1. j + 1 \in 0..Len(s) - 1 BY <1>1, <1>7, <1>9
  <2>2. s[Len(s) - (j + 1)] = h[Len(samples) + 1 - (j + 1)] BY <1>6, <2>1
  <2>3. Len(samples) + 1 - (j + 1) = Len(samples) - j /\ Len(samples) - j \in 1..Len(samples) BY <1>1
  <2> QED BY <1>3, <1>4, <2>2, <2>3
<1> QED BY <1>6, <1>8, <1>9 DEF s, new

LEMMA LeastOf ==
  ASSUME NEW T, T \subseteq Nat, T # {}
  PROVE  \E n \in T : \A m \in T : n <= m
<1> DEFINE R == {ss \in Nat \X Nat : ss[1] < ss[2]}
<1>1. IsWellFoundedOn(R, Nat)
  BY NatLessThanWellFounded DEF OpToRel
<1>2. \A m, n \in Nat : m < n => <<m, n>> \in R
  OBVIOUS
<1> HIDE DEF R
<1>3. PICK n \in T : \A m \in T : ~(<<m, n>> \in R)
  BY <1>1, WFMin
<1>4. ASSUME NEW m \in T PROVE n <= m
  <2>1. ~(m < n) BY <1>2, <1>3
  <2> QED BY <2>1
<1> QED BY <1>4

WindowFrom(s, n) ==
  /\ n \in 1..Len(s) + 1
  /\ \A i \in 1..n - 1 : s[i].age > Window
  /\ n <= Len(s) => s[n].age <= Window

LEMMA WindowBegins ==
  ASSUME NEW s \in Seq(SampleRecord)
  PROVE  \E n : WindowFrom(s, n)
<1> DEFINE T == {n \in Nat : n \in 1..Len(s) + 1 /\ (n <= Len(s) => s[n].age <= Window)}
<1>1. Len(s) \in Nat /\ Window \in Nat BY LenProperties, Bounds
<1>2. Len(s) + 1 \in T BY <1>1
<1>3. PICK n \in T : \A m \in T : n <= m BY <1>2, LeastOf
<1>4. ASSUME NEW i \in 1..n - 1 PROVE s[i].age > Window
  <2>1. i \in Nat /\ i \in 1..Len(s) /\ i < n BY <1>1, <1>3
  <2>2. i \notin T BY <1>3, <2>1
  <2>3. ~(s[i].age <= Window) BY <1>1, <2>1, <2>2
  <2>4. s[i] \in SampleRecord BY <2>1, ElementOfSeq
  <2>5. s[i].age \in 0..Window + 1 BY <2>4 DEF SampleRecord
  <2> QED BY <1>1, <2>3, <2>5
<1> QED BY <1>3, <1>4 DEF WindowFrom

LEMMA InWindowIs ==
  ASSUME NEW s \in Seq(SampleRecord)
  PROVE  LET w == InWindow(s)
         IN  /\ w \in Seq(SampleRecord) /\ Len(w) <= Len(s)
             /\ \A j \in 0..Len(w) - 1 : w[Len(w) - j] = s[Len(s) - j]
             /\ \A j \in 0..Len(s) - 1 : j >= Len(w) => s[Len(s) - j].age > Window
             /\ Len(w) > 0 => w[1].age <= Window
<1> DEFINE w == InWindow(s)
           n == CHOOSE m \in 1..Len(s) + 1 : /\ \A i \in 1..m - 1 : s[i].age > Window
                                             /\ m <= Len(s) => s[m].age <= Window
           end == Len(s)
<1>1. end \in Nat BY LenProperties
<1>2. \E m \in 1..Len(s) + 1 : /\ \A i \in 1..m - 1 : s[i].age > Window
                               /\ m <= Len(s) => s[m].age <= Window
  BY WindowBegins DEF WindowFrom
<1>3. /\ n \in 1..end + 1 /\ \A i \in 1..n - 1 : s[i].age > Window
      /\ n <= end => s[n].age <= Window
  <2> HIDE DEF n
  <2> QED BY <1>2 DEF n
<1>4. w = SubSeq(s, n, end) BY DEF InWindow
<1> HIDE DEF n, w
<1>5. \A i \in n..end : s[i] \in SampleRecord
  <2>1. \A i \in n..end : i \in 1..Len(s) BY <1>1, <1>3
  <2> QED BY <2>1, ElementOfSeq
<1>6. n \in Int /\ end \in Int BY <1>1, <1>3
<1> HIDE DEF end
<1>7. /\ w \in Seq(SampleRecord) /\ Len(w) = IF n <= end THEN end - n + 1 ELSE 0
      /\ \A i \in 1..end - n + 1 : w[i] = s[n + i - 1]
  BY <1>4, <1>5, <1>6, SubSeqProperties
<1>8. Len(w) = end + 1 - n BY <1>1, <1>3, <1>7
<1>9. ASSUME NEW j \in 0..Len(w) - 1 PROVE w[Len(w) - j] = s[end - j]
  <2>1. Len(w) - j \in 1..end - n + 1
    <3>1. Len(w) \in Int /\ end - n + 1 = Len(w) BY <1>1, <1>6, <1>8
    <3> QED BY <3>1
  <2>2. n + (Len(w) - j) - 1 = end - j BY <1>1, <1>3, <1>8
  <2> QED BY <1>7, <2>1, <2>2
<1>10. ASSUME NEW j \in 0..end - 1, j >= Len(w) PROVE s[end - j].age > Window
  <2>1. end - j \in 1..n - 1 BY <1>1, <1>3, <1>8, <1>10
  <2> QED BY <1>3, <2>1
<1>11. Len(w) > 0 => w[1].age <= Window
  <2>1. ASSUME Len(w) > 0 PROVE w[1].age <= Window
    <3>1. n <= end /\ 1 \in 1..end - n + 1 /\ n + 1 - 1 = n BY <1>1, <1>3, <1>8, <2>1
    <3>2. w[1] = s[n] BY <1>7, <3>1
    <3> QED BY <1>3, <3>1, <3>2
  <2> QED BY <2>1
<1>12. Len(w) <= end BY <1>1, <1>3, <1>8
<1> QED BY <1>7, <1>9, <1>10, <1>11, <1>12 DEF w, end

-----------------------------------------------------------------------------
(* A poll that the drop detector does not look at ages the samples.         *)
LEMMA QuietPoll ==
  ASSUME Remembered, Kept, NEW e \in FuelEngine,
         Remember(Found(NoLevel, e)), samples' = Aged
  PROVE  Remembered' /\ Kept'
<1> DEFINE f == Found(NoLevel, e)
<1>1. f \in FoundRecord /\ f.pct = NoLevel BY DEF Found, FoundRecord
<1>2. /\ samples' \in Seq(SampleRecord) /\ Len(samples') = Len(samples)
      /\ \A j \in 0..Len(samples) - 1 : Behind(j)' = Older(Behind(j))
  <2>1. /\ samples' \in Seq(SampleRecord) /\ Len(samples') = Len(samples)
        /\ \A j \in 0..Len(samples) - 1 : samples'[Len(samples') - j] = Older(Behind(j))
    BY AgedIs
  <2> QED BY <2>1 DEF Behind
<1> HIDE DEF f
<1>3. Remembered'
  <2>1. past' \in Seq(FoundRecord) /\ Len(past') = AtMost(Window + 1, Len(past) + 1)
    BY <1>1, PastMoves DEF Remembered, f
  <2>2. Len(past) + 1 \in Nat /\ Window + 1 \in Nat BY LenProperties, Bounds DEF Remembered
  <2>3. Len(past') <= Window + 1 BY <2>1, <2>2 DEF AtMost
  <2> QED BY <1>2, <2>1, <2>3 DEF Remembered
<1>4. SamplesMove(0)
  <2>1. Len(samples) \in Nat BY LenProperties DEF Remembered
  <2>2. \A j \in Nat : j < Len(samples) => j \in 0..Len(samples) - 1 /\ j + 0 = j BY <2>1
  <2>3. ASSUME NEW j \in Nat, j + 0 < Len(samples')
        PROVE  j < Len(samples) /\ Behind(j + 0)' = Older(Behind(j))
    <3>1. j + 0 = j OBVIOUS
    <3>2. j < Len(samples) BY <1>2, <2>3, <3>1
    <3>3. Behind(j)' = Older(Behind(j)) BY <1>2, <2>2, <3>2
    <3> QED BY <3>1, <3>2, <3>3
  <2>4. \A j \in 0..Len(samples) - 1 : j + 0 < Len(samples') BY <1>2, <2>1
  <2> QED BY <2>3, <2>4 DEF SamplesMove
<1>5. Kept' BY <1>1, <1>2, <1>4, KeptMoves DEF f
<1> QED BY <1>3, <1>5

(* A poll whose level is compared with the window's.                        *)
LEMMA ComparedPoll ==
  ASSUME Remembered, Kept, NEW e \in FuelEngine, e # "burning", NEW pct \in Level,
         Remember(Found(pct, e)), samples' = InWindow(Sampled(pct))
  PROVE  /\ Remembered' /\ Kept'
         /\ \A j \in 0..Len(samples') - 1 : Behind(j)'.age \in 0..Window
<1> DEFINE f == Found(pct, e)
           s == Sampled(pct)
<1>1. f \in FoundRecord /\ f.pct = pct /\ f.engine = e BY DEF Found, FoundRecord
<1>2. pct # NoLevel BY Bounds DEF Level, NoLevel
<1>3. /\ Len(samples) \in Nat /\ Len(samples) <= Capacity /\ Window \in Nat /\ Capacity \in Nat
      /\ Capacity >= 1
  BY LenProperties, Bounds DEF Remembered
<1>4. /\ s \in Seq(SampleRecord) /\ Len(s) = AtMost(Capacity, Len(samples) + 1)
      /\ s[Len(s)] = [pct |-> pct, age |-> 0]
      /\ \A j \in 0..Len(samples) - 1 :
           j + 1 < Len(s) => s[Len(s) - (j + 1)] = Older(Behind(j))
  BY SampledIs
<1>5. /\ samples' \in Seq(SampleRecord) /\ Len(samples') <= Len(s)
      /\ \A j \in 0..Len(samples') - 1 : samples'[Len(samples') - j] = s[Len(s) - j]
      /\ \A j \in 0..Len(s) - 1 : j >= Len(samples') => s[Len(s) - j].age > Window
      /\ Len(samples') > 0 => samples'[1].age <= Window
  BY <1>4, InWindowIs
<1> HIDE DEF f, s
<1>6. /\ Len(s) \in Nat /\ Len(s) >= 1 /\ Len(samples') \in Nat
      /\ Len(s) <= Capacity /\ Len(s) <= Len(samples) + 1
      /\ \A j \in 0..Len(samples) - 1 : j + 1 >= Len(s) => j + 1 >= Capacity
  <2>1. Len(s) = IF Len(samples) + 1 < Capacity THEN Len(samples) + 1 ELSE Capacity
    BY <1>4 DEF AtMost
  <2>2. Len(samples') \in Nat BY <1>5, LenProperties
  <2> QED BY <1>3, <2>1, <2>2
<1>7. Len(samples') > 0
  <2>1. Len(s) - 0 = Len(s) /\ 0 \in 0..Len(s) - 1 BY <1>6
  <2>2. s[Len(s) - 0].age = 0 BY <1>4, <2>1
  <2>3. ~(s[Len(s) - 0].age > Window) BY <1>3, <2>2
  <2>4. ~(0 >= Len(samples')) BY <1>5, <2>1, <2>3
  <2> QED BY <1>6, <2>4
<1>8. Behind(0)'.pct = f.pct /\ Behind(0)'.age = 0
  <2>1. 0 \in 0..Len(samples') - 1 BY <1>6, <1>7
  <2>2. samples'[Len(samples') - 0] = s[Len(s) - 0] BY <1>5, <2>1
  <2>3. Len(s) - 0 = Len(s) BY <1>6
  <2>4. Behind(0)' = s[Len(s)] BY <2>2, <2>3 DEF Behind
  <2> QED BY <1>1, <1>4, <2>4
<1>9. Remembered'
  <2>1. past' \in Seq(FoundRecord) /\ Len(past') = AtMost(Window + 1, Len(past) + 1)
    BY <1>1, PastMoves DEF Remembered, f
  <2>2. Len(past) + 1 \in Nat /\ Window + 1 \in Nat BY LenProperties, Bounds DEF Remembered
  <2>3. Len(past') <= Window + 1 BY <2>1, <2>2 DEF AtMost
  <2>4. Len(samples') <= Capacity BY <1>3, <1>5, <1>6
  <2> QED BY <1>5, <2>1, <2>3, <2>4 DEF Remembered
<1>10. SamplesMove(1)
  <2>1. ASSUME NEW j \in Nat, j + 1 < Len(samples')
        PROVE  j < Len(samples) /\ Behind(j + 1)' = Older(Behind(j))
    <3>1. j + 1 \in 0..Len(samples') - 1 /\ j \in 0..Len(samples) - 1 /\ j + 1 < Len(s)
      BY <1>3, <1>5, <1>6, <2>1
    <3>2. samples'[Len(samples') - (j + 1)] = s[Len(s) - (j + 1)] BY <1>5, <3>1
    <3>3. s[Len(s) - (j + 1)] = Older(Behind(j)) BY <1>4, <3>1
    <3>4. Behind(j + 1)' = Older(Behind(j)) BY <3>2, <3>3 DEF Behind
    <3> QED BY <3>1, <3>4
  <2>2. ASSUME NEW j \in 0..Len(samples) - 1
        PROVE  j + 1 < Len(samples') \/ Behind(j).age >= Window \/ (1 = 1 /\ j + 1 >= Capacity)
    <3>1. CASE j + 1 >= Len(s) BY <1>6, <3>1
    <3>2. CASE j + 1 < Len(s) /\ j + 1 >= Len(samples')
      <4>1. j + 1 \in 0..Len(s) - 1 BY <1>6, <3>2
      <4>2. s[Len(s) - (j + 1)].age > Window BY <1>5, <3>2, <4>1
      <4>3. AtMost(Window + 1, Behind(j).age + 1) > Window
        <5>1. s[Len(s) - (j + 1)] = Older(Behind(j)) BY <1>4, <3>2
        <5>2. Older(Behind(j)).age = AtMost(Window + 1, Behind(j).age + 1) BY DEF Older
        <5> QED BY <4>2, <5>1, <5>2
      <4>4. Behind(j).age \in 0..Window + 1 BY SampleTypes
      <4>5. Behind(j).age >= Window
        <5>1. ASSUME NEW a \in 0..Window + 1, AtMost(Window + 1, a + 1) > Window PROVE a >= Window
          BY <1>3, <5>1 DEF AtMost
        <5> QED BY <4>3, <4>4, <5>1
      <4> QED BY <4>5
    <3>3. CASE j + 1 < Len(samples') BY <3>3
    <3> QED BY <1>3, <1>6, <3>1, <3>2, <3>3
  <2> QED BY <2>1, <2>2 DEF SamplesMove
<1>11. Kept'
  <2>1. 1 \in {0, 1} /\ (1 = 1 <=> f.pct # NoLevel) BY <1>1, <1>2
  <2>2. 1 = 1 => f.engine # "burning" /\ Len(samples') > 0 /\ Behind(0)'.pct = f.pct /\ Behind(0)'.age = 0
    BY <1>1, <1>7, <1>8
  <2>3. Remember(f) BY DEF f
  <2> QED BY <1>1, <1>5, <1>10, <2>1, <2>2, <2>3, KeptMoves
<1>12. ASSUME NEW j \in 0..Len(samples') - 1 PROVE Behind(j)'.age \in 0..Window
  <2>1. /\ j \in 0..Len(samples') - 1 /\ Len(samples') - 1 \in 0..Len(samples') - 1
        /\ j <= Len(samples') - 1 /\ Len(samples') - (Len(samples') - 1) = 1
    BY <1>6, <1>7
  <2>2. Behind(j)'.age <= samples'[1].age BY <1>11, <2>1 DEF Kept, SamplesAreInOrder, Behind
  <2>3. Len(samples') - j \in 1..Len(samples') /\ 1 \in 1..Len(samples') BY <1>6, <1>7
  <2>4. samples'[Len(samples') - j] \in SampleRecord /\ samples'[1] \in SampleRecord
    BY <1>5, <2>3, ElementOfSeq
  <2>5. Behind(j)'.age \in 0..Window + 1 /\ samples'[1].age \in 0..Window + 1
    BY <2>4 DEF SampleRecord, Behind
  <2>6. samples'[1].age <= Window BY <1>5, <1>7
  <2> QED BY <1>3, <2>2, <2>5, <2>6
<1> QED BY <1>9, <1>11, <1>12

(* A poll of a burning engine starts the window afresh.                     *)
LEMMA BurningPoll ==
  ASSUME Remembered, Kept, NEW pct \in Level,
         Remember(Found(pct, "burning")), samples' = Baseline(pct)
  PROVE  Remembered' /\ Kept'
<1> DEFINE f == Found(pct, "burning")
           new == [pct |-> pct, age |-> 0]
<1>1. f \in FoundRecord /\ f.pct = pct /\ f.engine = "burning" BY DEF Found, FoundRecord, FuelEngine
<1>2. pct # NoLevel /\ Window \in Nat /\ Capacity \in Nat /\ Capacity >= 1
  BY Bounds DEF Level, NoLevel
<1>3. new \in SampleRecord /\ new.pct = pct /\ new.age = 0 BY <1>2 DEF SampleRecord
<1>4. samples' = <<new>> BY DEF Baseline
<1> HIDE DEF f, new
<1>5. samples' \in Seq(SampleRecord) /\ Len(samples') = 1 /\ samples'[1] = new BY <1>3, <1>4
<1>6. /\ past' \in Seq(FoundRecord) /\ Len(past') = AtMost(Window + 1, Len(past) + 1)
      /\ Since(0)' = f
  BY <1>1, PastMoves DEF Remembered, f
<1>7. Len(past') \in Nat /\ Len(past') >= 1 /\ Len(past') <= Window + 1
  <2>1. Len(past) + 1 \in Nat /\ Len(past) + 1 >= 1 BY LenProperties DEF Remembered
  <2> QED BY <1>2, <1>6, <2>1 DEF AtMost
<1>8. Remembered' BY <1>2, <1>5, <1>6, <1>7 DEF Remembered
<1>9. Behind(0)' = new /\ \A j \in 0..Len(samples') - 1 : j = 0
  BY <1>5 DEF Behind
<1>10. SamplesAreReadings'
  <2> SUFFICES ASSUME NEW j \in 0..Len(samples') - 1, NEW k \in 0..Window, Behind(j)'.age = k
               PROVE  /\ k \in 0..Len(past') - 1 /\ Since(k)'.pct = Behind(j)'.pct
                      /\ Comparable(k)' /\ Readings(k)' = j + 1
    BY DEF SamplesAreReadings
  <2>1. j = 0 /\ k = 0 BY <1>3, <1>9
  <2>2. k \in 0..Len(past') - 1 BY <1>7, <2>1
  <2> QED BY <1>1, <1>2, <1>3, <1>6, <1>9, <2>1, <2>2, NewestReading
<1>11. SamplesAreInOrder'
  <2> SUFFICES ASSUME NEW i \in 0..Len(samples') - 1, NEW j \in 0..Len(samples') - 1, i <= j
               PROVE  Behind(i)'.age <= Behind(j)'.age
    BY DEF SamplesAreInOrder
  <2>1. i = 0 /\ j = 0 BY <1>9
  <2> QED BY <1>3, <1>9, <2>1
<1>12. ReadingsAreSampled'
  <2> SUFFICES ASSUME NEW k \in 0..Len(past') - 1, Comparable(k)'
               PROVE  \E j \in 0..Len(samples') - 1 : Behind(j)'.age = k
    BY DEF ReadingsAreSampled
  <2>1. k = 0
    <3>1. SUFFICES ASSUME k # 0 PROVE FALSE OBVIOUS
    <3>2. 0 \in 0..k - 1 BY <1>7, <3>1
    <3>3. ~(Since(0)'.engine = "burning" /\ Since(0)'.pct # NoLevel) BY <3>2 DEF Comparable
    <3> QED BY <1>1, <1>2, <1>6, <3>3
  <2>2. 0 \in 0..Len(samples') - 1 BY <1>5
  <2> QED BY <1>3, <1>9, <2>1, <2>2
<1> QED BY <1>8, <1>10, <1>11, <1>12 DEF Kept

-----------------------------------------------------------------------------
LEMMA FuelInitInv == FuelInit => FuelInv
<1> SUFFICES ASSUME FuelInit PROVE FuelInv OBVIOUS
<1>1. /\ cfg \in Configs /\ status = "unknown" /\ spoke = Renotify /\ samples = << >>
      /\ alerted = Window /\ told = "none" /\ isLow = [t \in Tier |-> FALSE] /\ past = << >>
  BY DEF FuelInit, Fresh
<1>2. Len(samples) = 0 /\ Len(past) = 0 BY <1>1, EmptySeq
<1>3. Remembered BY <1>1, <1>2, Bounds, EmptySeq DEF Remembered
<1>4. Kept
  <2>1. \A j \in 0..0 - 1 : FALSE OBVIOUS
  <2> QED BY <1>2, <2>1 DEF Kept, SamplesAreReadings, SamplesAreInOrder, ReadingsAreSampled
<1>5. LinesAreNested BY <1>1 DEF LinesAreNested, Tier
<1>6. StatusIsTwoLines /\ LowIsTold BY <1>1 DEF StatusIsTwoLines, LowIsTold, Tier
<1> QED BY <1>1, <1>3, <1>4, <1>5, <1>6, Bounds DEF FuelInv

(* The status that _classify finds is that of the two lines.                *)
LEMMA StatusFollows ==
  ASSUME FuelInv, NEW pct \in Level,
         Watch(pct),
         Spoken(Classify(pct))
  PROVE  /\ status' \in Tier \cup {"ok"} /\ told' \in Tier \cup {"none", "ok"}
         /\ LinesAreNested' /\ StatusIsTwoLines' /\ LowIsTold'
<1>1. /\ pct \in Nat /\ cfg.warn \in Int /\ cfg.critical \in Int
      /\ cfg.hysteresis \in Nat
      /\ cfg["warn"] = cfg.warn /\ cfg["critical"] = cfg.critical
  BY Bounds DEF FuelInv, Level
<1> DEFINE w == isLow["warn"]
           c == isLow["critical"]
           w2 == isLow'["warn"]
           c2 == isLow'["critical"]
           cw == pct >= cfg.warn + cfg.hysteresis
           cc == pct >= cfg.critical + cfg.hysteresis
           uw == pct <= cfg.warn
           uc == pct <= cfg.critical
<1>4. w \in BOOLEAN /\ c \in BOOLEAN /\ (c => w) /\ (status = "unknown" => ~w)
  BY DEF FuelInv, LinesAreNested, Tier
<1>2. /\ isLow' = [critical |-> Crosses("critical", pct),
                   warn |-> Crosses("warn", pct) \/ Crosses("critical", pct)]
      /\ Crosses("critical", pct) = (IF c THEN ~cc ELSE uc)
      /\ Crosses("warn", pct) = (IF w THEN ~cw ELSE uw)
  BY <1>1 DEF Watch, Crosses, Clears
<1>3. c2 = (IF c THEN ~cc ELSE uc) /\ w2 = ((IF w THEN ~cw ELSE uw) \/ c2)
  BY <1>2
<1>5. cw \in BOOLEAN /\ cc \in BOOLEAN /\ uw \in BOOLEAN /\ uc \in BOOLEAN
  OBVIOUS
<1>6. /\ status = "unknown" \/ status = IF c THEN "critical" ELSE IF w THEN "warn" ELSE "ok"
      /\ status \in {"warn", "critical", "unknown", "ok"} /\ told \in Tier \cup {"none", "ok"}
  BY DEF FuelInv, StatusIsTwoLines, LowIsTold, Tier
<1>7. /\ Down(pct) = IF uc THEN "critical" ELSE IF uw THEN "warn" ELSE "ok"
      /\ Clears("critical", pct) = cc /\ Clears("warn", pct) = cw
  BY <1>1 DEF Down, Clears
<1> HIDE DEF w, c, w2, c2, cw, cc, uw, uc
<1>8. Classify(pct) = IF c2 THEN "critical" ELSE IF w2 THEN "warn" ELSE "ok"
  <2>1. CASE status = "critical" /\ ~cc
    <3>1. Classify(pct) = "critical" BY <1>7, <2>1 DEF Classify, uc
    <3>2. c BY <1>6, <2>1
    <3> QED BY <1>3, <2>1, <3>1, <3>2
  <2>2. CASE status = "critical" /\ cc
    <3>1. Classify(pct) = IF cw THEN "ok" ELSE "warn" BY <1>7, <2>2 DEF Classify
    <3>2. c /\ w BY <1>4, <1>6, <2>2
    <3> QED BY <1>3, <1>5, <2>2, <3>1, <3>2
  <2>3. CASE status = "warn" /\ uc
    <3>1. Classify(pct) = "critical" BY <1>7, <2>3 DEF Classify, uc
    <3>2. ~c BY <1>6, <2>3
    <3> QED BY <1>3, <2>3, <3>1, <3>2
  <2>4. CASE status = "warn" /\ ~uc
    <3>1. Classify(pct) = IF cw THEN "ok" ELSE "warn" BY <1>7, <2>4 DEF Classify, uc
    <3>2. ~c /\ w BY <1>6, <2>4
    <3> QED BY <1>3, <1>5, <2>4, <3>1, <3>2
  <2>5. CASE status \in {"ok", "unknown"}
    <3>1. Classify(pct) = Down(pct) BY <2>5 DEF Classify
    <3>2. ~c /\ ~w BY <1>4, <1>6, <2>5
    <3> QED BY <1>3, <1>7, <3>1, <3>2
  <2> QED BY <1>6, <2>1, <2>2, <2>3, <2>4, <2>5
<1>9. (c2 => w2) /\ c2 \in BOOLEAN /\ w2 \in BOOLEAN BY <1>3, <1>4, <1>5
<1> DEFINE new == Classify(pct)
<1>10. new \in Tier \cup {"ok"} BY <1>8 DEF Tier
<1> HIDE DEF new
<1>11. /\ status' = new
       /\ told' = IF (Speaks(new) \/ Reminds(new)) /\ MessageOf(new) \notin Muted
                  THEN new ELSE told
  BY DEF Spoken, AlertFuel, new
<1>12. LowIsTold' /\ told' \in Tier \cup {"none", "ok"}
  <2>1. LowIsTold BY DEF FuelInv
  <2>2. CASE new # status
    <3>1. new \in Tier => Speaks(new) BY <2>2 DEF Speaks
    <3>2. new \in Tier => MessageOf(new) = new
                          \/ (new = "warn" /\ MessageOf(new) = "recovered")
      BY <2>2 DEF MessageOf, Reminds, Tier
    <3> QED BY <1>6, <1>10, <1>11, <3>1, <3>2 DEF LowIsTold
  <2>3. CASE new = status BY <1>6, <1>10, <1>11, <2>1, <2>3 DEF LowIsTold
  <2> QED BY <2>2, <2>3
<1>13. LinesAreNested'
  <2>1. isLow' \in [Tier -> BOOLEAN]
    <3>1. /\ isLow' = [critical |-> isLow'["critical"], warn |-> isLow'["warn"]]
          /\ isLow'["critical"] \in BOOLEAN /\ isLow'["warn"] \in BOOLEAN
      BY <1>2, <1>9 DEF w2, c2
    <3> QED BY <3>1 DEF Tier
  <2> QED BY <1>9, <1>10, <1>11, <2>1 DEF LinesAreNested, Tier, w2, c2
<1>14. StatusIsTwoLines' BY <1>8, <1>11 DEF StatusIsTwoLines, w2, c2, new
<1> QED BY <1>10, <1>11, <1>12, <1>13, <1>14

(* What a poll that finds a level makes of the samples.                     *)
LEMMA LevelIsKept ==
  ASSUME FuelInv, NEW pct \in Level, NEW e \in FuelEngine, FuelUpdate(pct, e)
  PROVE  Remembered' /\ Kept'
<1>1. Remembered /\ Kept BY DEF FuelInv
<1>2. CASE cfg.drop = 0
  <2>1. Remember(Found(NoLevel, e)) /\ samples' = Aged BY <1>2 DEF FuelUpdate, CheckDrop
  <2> QED BY <1>1, <2>1, QuietPoll
<1>3. CASE cfg.drop # 0 /\ e = "burning"
  <2>1. Remember(Found(pct, "burning")) /\ samples' = Baseline(pct)
    BY <1>3 DEF FuelUpdate, CheckDrop
  <2> QED BY <1>1, <2>1, BurningPoll
<1>4. CASE cfg.drop # 0 /\ e # "burning"
  <2>1. Remember(Found(pct, e)) /\ samples' = InWindow(Sampled(pct))
    BY <1>4 DEF FuelUpdate, CheckDrop
  <2> QED BY <1>1, <1>4, <2>1, ComparedPoll
<1> QED BY <1>2, <1>3, <1>4

LEMMA TimersKeep ==
  ASSUME spoke \in 0..Renotify, alerted \in 0..Window
  PROVE  /\ AtMost(Renotify, spoke + 1) \in 0..Renotify
         /\ AtMost(Window, alerted + 1) \in 0..Window /\ AtMost(Window, alerted + 1) # 0
BY Bounds DEF AtMost

LEMMA SamplesStay ==
  ASSUME UNCHANGED <<samples, past>>
  PROVE  (Remembered => Remembered') /\ (Kept => Kept')
<1>1. ASSUME NEW k PROVE Since(k)' = Since(k) /\ Behind(k)' = Behind(k) BY DEF Since, Behind
<1>2. ASSUME NEW k PROVE Comparable(k)' <=> Comparable(k) BY DEF Since, Comparable
<1>3. ASSUME NEW k PROVE Readings(k)' = Readings(k)
  <2>1. Levels(k)' = Levels(k) BY <1>1 DEF Levels
  <2> QED BY <2>1 DEF Readings, Levels
<1>4. SamplesAreReadings => SamplesAreReadings' BY <1>1, <1>2, <1>3 DEF SamplesAreReadings
<1>5. SamplesAreInOrder => SamplesAreInOrder' BY <1>1 DEF SamplesAreInOrder
<1>6. ReadingsAreSampled => ReadingsAreSampled' BY <1>1, <1>2, <1>3 DEF ReadingsAreSampled
<1> QED BY <1>4, <1>5, <1>6 DEF Kept, Remembered

LEMMA FuelNextInv == FuelInv /\ [FuelNext]_fuelVars => FuelInv'
<1> SUFFICES ASSUME FuelInv, [FuelNext]_fuelVars PROVE FuelInv' OBVIOUS
<1> USE DEF monitor
<1>1. ASSUME NEW pct \in Level, NEW e \in FuelEngine, FuelUpdate(pct, e) PROVE FuelInv'
  <2>1. Remembered' /\ Kept' BY <1>1, LevelIsKept
  <2>2. /\ status' \in Tier \cup {"ok"} /\ told' \in Tier \cup {"none", "ok"}
        /\ LinesAreNested' /\ StatusIsTwoLines' /\ LowIsTold'
    BY <1>1, StatusFollows DEF FuelUpdate
  <2>3. cfg' = cfg BY <1>1 DEF FuelUpdate
  <2>4. spoke' \in 0..Renotify
    <3>1. 0 \in 0..Renotify BY Bounds
    <3>2. AtMost(Renotify, spoke + 1) \in 0..Renotify BY TimersKeep DEF FuelInv
    <3> QED BY <1>1, <3>1, <3>2 DEF FuelUpdate, Spoken
  <2>5. alerted' \in 0..Window
    <3>1. 0 \in 0..Window BY Bounds
    <3>2. AtMost(Window, alerted + 1) \in 0..Window BY TimersKeep DEF FuelInv
    <3> QED BY <1>1, <3>1, <3>2 DEF FuelUpdate, CheckDrop
  <2> QED BY <2>1, <2>2, <2>3, <2>4, <2>5 DEF FuelInv
<1>2. ASSUME NEW e \in FuelEngine, Blind(e) PROVE FuelInv'
  <2>1. Remembered' /\ Kept' BY <1>2, QuietPoll DEF FuelInv, Blind
  <2>2. spoke' \in 0..Renotify /\ alerted' \in 0..Window BY <1>2, TimersKeep DEF FuelInv, Blind
  <2> QED BY <1>2, <2>1, <2>2
      DEF FuelInv, Blind, LinesAreNested, StatusIsTwoLines, LowIsTold
<1>3. ASSUME NEW c \in Configs, UpdateConfig(c) PROVE FuelInv'
  <2>1. Remembered' /\ Kept' BY <1>3, SamplesStay DEF FuelInv, UpdateConfig
  <2> QED BY <1>3, <2>1 DEF FuelInv, UpdateConfig, LinesAreNested, StatusIsTwoLines, LowIsTold
<1>4. CASE FuelRestart
  <2>1. /\ cfg' \in Configs /\ status' = "unknown" /\ spoke' = Renotify /\ samples' = << >>
        /\ alerted' = Window /\ told' \in Tier \cup {"none", "ok"}
        /\ isLow' = [t \in Tier |-> FALSE] /\ past' = << >>
    BY <1>4 DEF FuelInv, FuelRestart
  <2>2. Len(samples') = 0 /\ Len(past') = 0 BY <2>1, EmptySeq
  <2>3. Remembered' BY <2>1, <2>2, Bounds, EmptySeq DEF Remembered
  <2>4. Kept'
    <3>1. \A j \in 0..0 - 1 : FALSE OBVIOUS
    <3> QED BY <2>2, <3>1 DEF Kept, SamplesAreReadings, SamplesAreInOrder, ReadingsAreSampled
  <2>5. LinesAreNested' BY <2>1 DEF LinesAreNested, Tier
  <2>6. StatusIsTwoLines' /\ LowIsTold' BY <2>1 DEF StatusIsTwoLines, LowIsTold, Tier
  <2> QED BY <2>1, <2>3, <2>4, <2>5, <2>6, Bounds DEF FuelInv
<1>5. CASE UNCHANGED fuelVars
  <2>1. Remembered' /\ Kept' BY <1>5, SamplesStay DEF FuelInv, fuelVars
  <2> QED BY <1>5, <2>1 DEF FuelInv, fuelVars, LinesAreNested, StatusIsTwoLines, LowIsTold
<1> QED BY <1>1, <1>2, <1>3, <1>4, <1>5 DEF FuelNext, CheckFuel

(* What the fuel monitor remembers stays true, whatever the levels, the    *)
(* settings and the times of the polls.                                     *)
THEOREM FuelInvariance == FuelSpec => []FuelInv
BY FuelInitInv, FuelNextInv, PTL DEF FuelSpec

(* The monitor's status is that of two lines with a hysteresis each, and    *)
(* Slack was told of a low tank what the monitor knows (_classify, update,  *)
(* alert_fuel), for any settings between which it may change.               *)
THEOREM FuelIsSafe == FuelSpec => []FuelSafety
<1>1. FuelInv => FuelSafety
  <2> SUFFICES ASSUME FuelInv PROVE FuelSafety OBVIOUS
  <2>1. ASSUME NEW i \in DOMAIN samples
        PROVE  samples[i].pct \in Level /\ samples[i].age \in 0..Window + 1
    <3>1. samples \in Seq(SampleRecord) BY DEF FuelInv, Remembered
    <3>2. i \in 1..Len(samples) BY <3>1, LenProperties
    <3>3. samples[i] \in SampleRecord BY <3>1, <3>2, ElementOfSeq
    <3> QED BY <3>3 DEF SampleRecord
  <2>2. FuelTypeOK BY <2>1 DEF FuelInv, FuelTypeOK, Remembered
  <2> QED BY <2>2 DEF FuelInv, FuelSafety
<1> QED BY <1>1, FuelInvariance, PTL

(* A drop is told if and only if the level fell: what is compared with the  *)
(* level is in the window, of a poll since which no engine was seen to burn *)
(* (_check_drop).                                                           *)
LEMMA ComparedWith ==
  ASSUME FuelInv, FuelInv', NEW pct \in Level, FuelUpdate(pct, "stopped"), cfg.drop > 0
  PROVE  Fell(samples', pct) <=> Lost(pct)'
<1>1. Remembered /\ Kept /\ Remembered' /\ Kept' /\ cfg' = cfg BY DEF FuelInv, FuelUpdate
<1>2. cfg.drop # 0 /\ cfg.drop \in Nat /\ Window \in Nat /\ Capacity \in Nat BY Bounds DEF FuelInv
<1>3. Remember(Found(pct, "stopped")) /\ samples' = InWindow(Sampled(pct))
  BY <1>2 DEF FuelUpdate, CheckDrop
<1>4. \A j \in 0..Len(samples') - 1 : Behind(j)'.age \in 0..Window
  <2>1. "stopped" \in FuelEngine /\ "stopped" # "burning" BY DEF FuelEngine
  <2> QED BY <1>1, <1>3, <2>1, ComparedPoll
<1>5. /\ Len(samples') \in Nat /\ DOMAIN samples' = 1..Len(samples') /\ Len(samples') <= Capacity
      /\ Len(past') \in Nat /\ Len(past') <= Window + 1
  BY <1>1, LenProperties DEF Remembered
<1>6. ASSUME Fell(samples', pct) PROVE Lost(pct)'
  <2>1. PICK i \in 1..Len(samples') : samples'[i].pct - pct >= cfg.drop
    BY <1>5, <1>6 DEF Fell
  <2>2. PICK j \in 0..Len(samples') - 1 : i = Len(samples') - j
    <3>1. Len(samples') - i \in 0..Len(samples') - 1 /\ i = Len(samples') - (Len(samples') - i) BY <1>5
    <3> QED BY <3>1
  <2>3. Behind(j)'.pct - pct >= cfg.drop BY <2>1, <2>2 DEF Behind
  <2>4. PICK k \in 0..Window : Behind(j)'.age = k BY <1>4
  <2>5. /\ k \in 0..Len(past') - 1 /\ Since(k)'.pct = Behind(j)'.pct
        /\ Comparable(k)' /\ Readings(k)' = j + 1
    BY <1>1, <2>4 DEF Kept, SamplesAreReadings
  <2>6. Readings(k)' <= Capacity BY <1>2, <1>5, <2>5
  <2>7. Since(k)'.pct # NoLevel
    <3>1. i \in 1..Len(samples') /\ samples' \in Seq(SampleRecord) BY <1>1 DEF Remembered
    <3>2. samples'[i] \in SampleRecord BY <3>1, ElementOfSeq
    <3>3. Behind(j)'.pct \in Level BY <2>2, <3>2 DEF SampleRecord, Behind
    <3> QED BY <2>5, <3>3, Bounds DEF Level, NoLevel
  <2> QED BY <1>1, <2>3, <2>5, <2>6, <2>7 DEF Lost
<1>7. ASSUME Lost(pct)' PROVE Fell(samples', pct)
  <2>1. PICK k \in 0..Len(past') - 1 : /\ Comparable(k)' /\ Readings(k)' <= Capacity
                                       /\ Since(k)'.pct # NoLevel /\ Since(k)'.pct - pct >= cfg.drop
    BY <1>1, <1>7 DEF Lost
  <2>2. PICK j \in 0..Len(samples') - 1 : Behind(j)'.age = k
    BY <1>1, <2>1 DEF Kept, ReadingsAreSampled
  <2>3. k \in 0..Window BY <1>2, <1>5
  <2>4. Since(k)'.pct = Behind(j)'.pct BY <1>1, <2>2, <2>3 DEF Kept, SamplesAreReadings
  <2>5. Len(samples') - j \in DOMAIN samples' BY <1>5
  <2> QED BY <2>1, <2>4, <2>5 DEF Fell, Behind
<1> QED BY <1>6, <1>7

(* Within a window of any length and a deque of any size, a fall is told,   *)
(* once, and nothing else is (_check_drop).                                 *)
THEOREM DropsAreTold == FuelSpec => DropAlerts
<1> DEFINE Told == \A pct \in Level :
                     FuelUpdate(pct, "stopped") /\ cfg.drop > 0 /\ Lost(pct)' => alerted' < Window
           Real == \A pct \in Level, e \in FuelEngine :
                     FuelUpdate(pct, e) /\ alerted' = 0 =>
                       e = "stopped" /\ alerted + 1 >= Window /\ Lost(pct)'
<1>1. ASSUME FuelInv, FuelInv' PROVE Told
  <2> SUFFICES ASSUME NEW pct \in Level, FuelUpdate(pct, "stopped"), cfg.drop > 0, Lost(pct)'
               PROVE  alerted' < Window
    OBVIOUS
  <2>1. Fell(samples', pct) BY <1>1, ComparedWith
  <2>2. /\ cfg.drop # 0 /\ Window \in Nat /\ Window >= 1 /\ alerted \in 0..Window
    BY <1>1, Bounds DEF FuelInv
  <2>3. alerted' = IF ~Suppressed THEN 0 ELSE AtMost(Window, alerted + 1)
    BY <2>1, <2>2 DEF FuelUpdate, CheckDrop
  <2> QED BY <2>2, <2>3 DEF Suppressed, AtMost
<1>2. ASSUME FuelInv, FuelInv' PROVE Real
  <2> SUFFICES ASSUME NEW pct \in Level, NEW e \in FuelEngine,
                      FuelUpdate(pct, e), alerted' = 0
               PROVE  e = "stopped" /\ alerted + 1 >= Window /\ Lost(pct)'
    OBVIOUS
  <2>1. AtMost(Window, alerted + 1) # 0 BY <1>2, TimersKeep DEF FuelInv
  <2>2. cfg.drop # 0 /\ e = "stopped" /\ Fell(samples', pct) /\ ~Suppressed
    BY <2>1 DEF FuelUpdate, CheckDrop
  <2>3. cfg.drop \in Nat /\ Window \in Nat /\ alerted \in 0..Window BY <1>2, Bounds DEF FuelInv
  <2>4. cfg.drop > 0 /\ alerted + 1 >= Window BY <2>2, <2>3 DEF Suppressed
  <2>5. Lost(pct)' BY <1>2, <2>2, <2>4, ComparedWith
  <2> QED BY <2>2, <2>4, <2>5
<1>3. [FuelNext]_fuelVars /\ FuelInv /\ FuelInv' => [Told]_fuelVars /\ [Real]_fuelVars
  BY <1>1, <1>2
<1>4. DropAlerts <=> [][Told]_fuelVars /\ [][Real]_fuelVars
  BY PTL DEF DropAlerts, DropIsTold, DropIsReal
<1> HIDE DEF Told, Real
<1>5. FuelSpec => [][Told]_fuelVars /\ [][Real]_fuelVars
  BY <1>3, FuelInvariance, PTL DEF FuelSpec
<1> QED BY <1>4, <1>5
=============================================================================
