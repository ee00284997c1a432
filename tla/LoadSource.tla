----------------------------- MODULE LoadSource -----------------------------
(***************************************************************************)
(* From the transfer switch to the people: the position that the ATS poll  *)
(* reads (services.ats.AtsService), the load source that the state machine *)
(* derives from it or from the generator's output (services.state), the    *)
(* debounced Slack alert (services.slack.alert_load_source_change) and the *)
(* retained MQTT status (services.mqtt.publish_generator_status, with the  *)
(* queue of Publisher), routed by main.on_poll and AtsService._update.     *)
(*                                                                         *)
(* Three loops run side by side: the ATS poll, the prime poll and the base *)
(* poll of the H-100.  A base poll forwards what it found only after its   *)
(* telemetry was written by a worker thread; the others may overtake it.   *)
(***************************************************************************)
EXTENDS Publisher

CONSTANTS
  Quiet,     \* destinations whose per-direction Slack flag is off
  Debounce,  \* load_source_debounce_s > 0
  Readings,  \* what the H-100's registers come to say
  MaxMoves   \* bound: changes of the switch, its link and the generator

Source == {"utility", "generator", "transferring", "unknown"}
Side == {"utility", "generator"}
Rating == {"healthy", "degraded", "lost"}

(* What the H-100's registers say of the load: the engine's state is not    *)
(* known, excludes a load, or leaves it to current and power, which are     *)
(* absent, both above LOAD_ON_*, both below LOAD_OFF_*, or neither.         *)
Evidence == {"unknown", "idle", "absent", "loaded", "unloaded", "between"}

ASSUME LoadSourceAssumption ==
  Quiet \subseteq Side /\ Debounce \in BOOLEAN /\ Readings \subseteq Evidence /\ MaxMoves \in Nat

VARIABLES
  pos,       \* environment: the position the companion reports
  rated,     \* environment: the link to the companion, as the ATS poller rates it
  trusted,   \* environment: version and unit match, no position fault
  evidence,  \* environment: what the H-100's registers say
  seen,      \* AtsService.snap.position
  believed,  \* whether AtsService.snap matches and shows no position fault
  load,      \* StateMachine.snap.load_source
  held,      \* the event of a base poll whose telemetry is being written
  announced, \* SlackNotifier._ls_announced
  pending,   \* SlackNotifier._ls_pending, with its from and to
  posted,    \* the last load-source message handed to Slack's queue
  status,    \* MqttPublisher._last_state
  newest,    \* number of publishes queued
  told,      \* history: where the last event of the log put the load
  heard,     \* history: the last destination that passed Slack's flags
  before,    \* history: authority at the last H-100 poll
  firmed,    \* history: whether the switch's last change was the suppressed one
  moves

device == <<pos, rated, trusted, evidence>>
slackVars == <<announced, pending, posted, heard>>
mqttVars == <<status, newest, queue, given>>
pubRest == <<sending, waiting, retained, retried, failures>>
loadVars == <<device, seen, believed, load, held, slackVars, mqttVars, pubRest, told, before, firmed, moves>>

NoEvent == {}
Event(old, new) == {[from |-> old, to |-> new]}

LoadInit ==
  /\ pos \in Side /\ rated = "healthy" /\ trusted = TRUE /\ evidence = "idle"
  /\ seen = "unknown" /\ believed = FALSE /\ load = "unknown" /\ held = NoEvent
  /\ announced = "none" /\ pending = NoEvent /\ posted = NoEvent
  /\ status = "none" /\ newest = 0
  /\ told = "unknown" /\ heard = "none" /\ before = FALSE /\ firmed = "fresh" /\ moves = 0
  /\ PubInit

-----------------------------------------------------------------------------
(* alert_load_source_change.                                                *)

(* The boot-time firming and the flags come before everything else.         *)
Passes(e) == ~(e.from = "unknown" /\ e.to = "utility") /\ e.to \notin Quiet

(* A pending alert is superseded, and its `from` is what Slack was told.    *)
Anchor_event(e) == e.from
Anchor(e) == IF announced = "none" THEN e.from ELSE announced
Superseded_never(e) == pending # NoEvent
Superseded(e) == FALSE

Alert(e) ==
  /\ heard' = e.to
  /\ IF Debounce
     THEN /\ announced' = IF announced = "none" THEN e.from ELSE announced
          /\ pending' = IF Superseded(e) THEN pending ELSE Event(Anchor(e), e.to)
          /\ posted' = posted
     ELSE announced' = e.to /\ posted' = Event(e.from, e.to) /\ pending' = pending

ToSlack(es) ==
  IF \E e \in es : Passes(e) THEN \A e \in es : Alert(e) ELSE UNCHANGED slackVars

(* _load_source_after: silent when the load came back in the meantime.      *)
DebounceEnds ==
  /\ pending # NoEvent /\ pending' = NoEvent
  /\ \E e \in pending :
       IF e.to = announced THEN UNCHANGED <<announced, posted>>
       ELSE announced' = e.to /\ posted' = {e}
  /\ UNCHANGED <<device, seen, believed, load, held, heard, mqttVars, pubRest, told, before, firmed, moves>>

-----------------------------------------------------------------------------
(* publish_generator_status: equal states are not published twice.          *)
StatusOf(source) == IF source = "generator" THEN "on" ELSE "off"

ToMqtt(es) ==
  IF \E e \in es : e.to \in Side /\ StatusOf(e.to) # status
  THEN \E e \in es :
         /\ status' = StatusOf(e.to) /\ newest' = newest + 1
         /\ Enqueue([id |-> newest + 1, status |-> StatusOf(e.to), attempt |-> 0])
  ELSE UNCHANGED mqttVars

(* main._forward_to_mqtt drops the firming, AtsService never emits it.      *)
Firming(e) == e.from = "unknown" /\ e.to = "utility"

-----------------------------------------------------------------------------
(* AtsService._update: a change is an event, whoever has the authority; the *)
(* registers of a lost link are as they were.                               *)
PositionEvent(old, new) ==
  IF old = new \/ Firming([from |-> old, to |-> new]) THEN NoEvent ELSE Event(old, new)

AtsPoll ==
  LET read == IF rated = "lost" THEN seen ELSE pos
      event == PositionEvent(seen, read)
  IN  /\ seen' = read
      /\ believed' = IF rated = "lost" THEN believed ELSE trusted
      /\ told' = IF event = NoEvent THEN told ELSE read
      /\ firmed' = CASE read = seen -> firmed [] event # NoEvent -> "no"
                     [] OTHER -> IF firmed = "fresh" THEN "boot" ELSE "late"
      /\ ToSlack({e \in event : e.to \in Side})
      /\ ToMqtt(event)
  /\ UNCHANGED <<device, load, held, before, pubRest, moves>>

-----------------------------------------------------------------------------
(* is_authoritative: the link's health is the poller's own object and may   *)
(* change between two polls of the companion.                               *)
Authority == rated = "healthy" /\ believed

(* _derive_load_source and _derive_load_source_from_telemetry.              *)
FromTelemetry ==
  CASE evidence = "unknown" -> load
    [] evidence = "absent" -> IF load = "unknown" THEN "utility" ELSE load
    [] evidence = "loaded" -> "generator"
    [] evidence = "between" /\ load = "generator" -> "generator"
    [] OTHER -> "utility"

Derived == IF Authority /\ seen # "unknown" THEN seen ELSE FromTelemetry

(* The event is left to the ATS path while that is authoritative.           *)
LoadEvent_companion == NoEvent
LoadEvent == IF Authority THEN NoEvent ELSE Event(load, Derived)

(* The log's row of the firming is suppressed too (_load_source_event).     *)
UpdateLoad ==
  /\ load' = Derived /\ before' = Authority
  /\ told' = IF Derived # load /\ LoadEvent # NoEvent /\ \A e \in LoadEvent : ~Firming(e)
             THEN Derived ELSE told

Emitted == IF Derived = load THEN NoEvent ELSE LoadEvent

Forward(es) == ToSlack(es) /\ ToMqtt({e \in es : ~Firming(e)})

PrimePoll ==
  /\ UpdateLoad /\ Forward(Emitted)
  /\ UNCHANGED <<device, seen, believed, held, firmed, pubRest, moves>>

(* A base poll.                                                             *)
TelemetryPoll ==
  /\ held = NoEvent /\ UpdateLoad /\ held' = Emitted
  /\ UNCHANGED <<device, seen, believed, slackVars, mqttVars, firmed, pubRest, moves>>

TelemetryWritten ==
  /\ held # NoEvent /\ held' = NoEvent /\ Forward(held)
  /\ UNCHANGED <<device, seen, believed, load, pubRest, told, before, firmed, moves>>

-----------------------------------------------------------------------------
(* The switch moves, its companion is trusted or not, links come and go,    *)
(* the generator is loaded or not.                                          *)
Move ==
  /\ moves < MaxMoves /\ moves' = moves + 1
  /\ \/ pos' \in Source \ {pos} /\ UNCHANGED <<rated, trusted, evidence>>
     \/ rated' \in Rating \ {rated} /\ UNCHANGED <<pos, trusted, evidence>>
     \/ trusted' = ~trusted /\ UNCHANGED <<pos, rated, evidence>>
     \/ evidence' \in Readings \ {evidence} /\ UNCHANGED <<pos, rated, trusted>>
  /\ UNCHANGED <<seen, believed, load, held, slackVars, mqttVars, pubRest, told, before, firmed>>

others == <<device, seen, believed, load, held, slackVars, status, newest, told, before, firmed, moves>>

LoadNext ==
  \/ Move
  \/ AtsPoll \/ PrimePoll \/ TelemetryPoll \/ TelemetryWritten
  \/ DebounceEnds
  \/ PubNext /\ UNCHANGED others

LoadSpec == LoadInit /\ [][LoadNext]_loadVars

(* The delayed alert wakes and the worker goes on; a send ends by its       *)
(* socket's timeout.  Nothing is asked of the polls.                        *)
LoadFairSpec == LoadSpec /\ WF_loadVars(DebounceEnds) /\ WF_loadVars(PubNext /\ UNCHANGED others)

-----------------------------------------------------------------------------
Events == [from : Source, to : Source]

LoadTypeOK ==
  /\ pos \in Source /\ rated \in Rating /\ trusted \in BOOLEAN /\ evidence \in Evidence
  /\ seen \in Source /\ believed \in BOOLEAN /\ load \in Source
  /\ held \subseteq Events /\ pending \subseteq Events /\ posted \subseteq Events
  /\ announced \in Source \cup {"none"} /\ heard \in Source \cup {"none"}
  /\ status \in {"none", "on", "off"} /\ newest \in Nat /\ told \in Source
  /\ before \in BOOLEAN /\ firmed \in {"fresh", "no", "boot", "late"} /\ moves \in 0..MaxMoves
  /\ PubTypeOK

(* The newest status is on the broker, on its way, or was dropped for good; *)
(* an older one has replaced it only after a retry (_worker, _enqueue,      *)
(* _requeue_after).                                                         *)
StatusIsAccounted ==
  newest > 0 =>
    \/ retained.id = newest
    \/ newest \in {m.id : m \in InPipeline} \cup given
    \/ retained.id \in retried

(* What waits for the debounce would tell Slack something new or fall       *)
(* silent, never something already past: it leads from what Slack was told  *)
(* last to where the last event that passed the flags put the load.         *)
PendingIsCurrent ==
  Debounce => /\ \A e \in pending : e.from = announced /\ e.to = heard
              /\ pending = NoEvent => announced \in {heard, "none"}

LoadSafety == LoadTypeOK /\ StatusIsAccounted /\ PendingIsCurrent

(* Slack's messages form a chain: each starts where the one before it ended *)
(* and goes somewhere else, whatever flapped in the window and whichever of *)
(* the two paths reported it (alert_load_source_change).                    *)
MessagesFormAChain ==
  [][Debounce /\ posted' # posted =>
       \A e \in posted' : e.from # e.to /\ \A last \in posted : e.from = last.to]_loadVars

(* The load source changes without an event only where an event is held     *)
(* back: at the firming from unknown, while the switch says unknown, and    *)
(* when authority is new since the last H-100 poll.                         *)
SilenceIsExplained ==
  [][load' # load /\ told' = told /\ told # load' =>
       seen = "unknown" \/ ~before \/ (load' = "utility" /\ (load = "unknown" \/ firmed \in {"boot", "late"}))]_loadVars

(* A load that stays where an alert put it is announced, and a status that  *)
(* was queued leaves the queue.                                             *)
SettledIsAnnounced ==
  <>[](InPipeline = {} /\ (Debounce /\ heard # "none" => announced = heard))

-----------------------------------------------------------------------------
(* What the source says and the code does not do.                           *)

(* ats.py: "Suppresses the boot-time `unknown -> utility` transition".  The *)
(* switch also passes through unknown on its way back from the generator,   *)
(* and then nobody is told of the return.                                   *)
ReturnIsPublished ==
  firmed # "boot" /\ Authority /\ seen = "utility" /\ load = "utility" /\ held = NoEvent => status # "on"

(* state.py: an event is held back because the ATS-Pi "has already emitted" *)
(* one "for the same physical transition".  A switch that says unknown      *)
(* keeps its authority, and an outage that the generator's output shows is  *)
(* told to nobody.                                                          *)
OutageIsPublished == load = "generator" /\ held = NoEvent => status = "on"

(* mqtt.py: the retained message tells the "current state" to whoever       *)
(* connects.  A base poll's event that waits for its telemetry is overtaken *)
(* by the prime polls and is then forwarded although the load is elsewhere. *)
HeldIsCurrent == \A e \in held : e.to = load

(* ... and a publish that is tried again overtakes a newer one that was not *)
(* dropped.                                                                 *)
RetainedIsNewest == InPipeline = {} /\ newest \notin given => retained.id = newest
=============================================================================
