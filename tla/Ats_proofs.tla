----------------------------- MODULE Ats_proofs -----------------------------
(***************************************************************************)
(* Two parts that follow the ATS-Pi, proved for all values of their        *)
(* constants.                                                              *)
(*                                                                         *)
(* AtsLink: a link that fails has no authority, whichever devices answer.  *)
(*                                                                         *)
(* LoadSource: where a status message can be, what Slack was told last,    *)
(* and what the load is against what the switch said.  The publisher's     *)
(* queue is a queue only for messages that never failed; that they are in  *)
(* order, newer than all that failed, and end in the newest is what its    *)
(* safety rests on.                                                        *)
(***************************************************************************)
EXTENDS AtsLink, LoadSource, SequenceTheorems, TLAPS

-----------------------------------------------------------------------------
(* AtsLink. *)

(* Authority asks for a healthy link, and no step leaves a failing link     *)
(* healthy.                                                                 *)
FailureShows == comms = "healthy" => ~failing

Inv == TypeOK /\ FailureShows


LEMMA InitInv == Init => Inv
<1> SUFFICES ASSUME Init PROVE Inv
  OBVIOUS
<1> USE DEF Init, Started, Link!Init
<1>1. NoSnapshot \in [fault : {"clear", "set"}, readBack : Level,
                     unit : Unit \cup {"none"}, based : BOOLEAN, polled : BOOLEAN]
  BY DEF NoSnapshot, Level
<1>2. comms \in {"healthy", "degraded", "lost"} /\ failing \in BOOLEAN
  OBVIOUS
<1>3. TypeOK
  BY <1>1, <1>2 DEF TypeOK
<1>4. FailureShows
  BY DEF FailureShows
<1> QED BY <1>3, <1>4 DEF Inv

-----------------------------------------------------------------------------
(* The polls. *)

LEMMA SampledKeeps ==
  ASSUME NEW outcome, Sampled(outcome)
  PROVE  /\ comms' \in {"healthy", "degraded", "lost"} /\ failing' \in BOOLEAN
         /\ FailureShows'
  BY DEF Sampled, Link!Good, Link!Bad, FailureShows

LEMMA UpdateKeeps ==
  ASSUME TypeOK, comms' \in {"healthy", "degraded", "lost"},
         NEW tier,
         NEW faultRead \in {"missed", "clear", "set"},
         NEW levelRead \in Level \cup {"missed"},
         NEW unitRead \in Unit \cup {"missed"},
         Update(tier, faultRead, levelRead, unitRead)
  PROVE  /\ snap' \in [fault : {"clear", "set"}, readBack : Level,
                       unit : Unit \cup {"none"}, based : BOOLEAN, polled : BOOLEAN]
         /\ row' \in BOOLEAN /\ acked' \in BOOLEAN
         /\ toldCmd' \in Level \cup {"nothing"}
<1>1. PICK fault \in IF tier = "prime" THEN Faults(faultRead) ELSE {snap.fault} :
        LET level == KeptOr(levelRead, snap.readBack)
        IN  /\ NoteFault(fault) /\ NoteReadBack(level)
            /\ snap' = [fault |-> fault, readBack |-> level, unit |-> UnitSeen(unitRead),
                        based |-> snap.based \/ tier = "base", polled |-> TRUE]
  BY DEF Update
<1>2. fault \in {"clear", "set"}
  BY <1>1 DEF TypeOK, Faults
<1>3. KeptOr(levelRead, snap.readBack) \in Level
  BY DEF TypeOK, KeptOr
<1>4. UnitSeen(unitRead) \in Unit \cup {"none"}
  BY DEF TypeOK, UnitSeen, KeptOr
<1>5. snap' \in [fault : {"clear", "set"}, readBack : Level,
                 unit : Unit \cup {"none"}, based : BOOLEAN, polled : BOOLEAN]
  BY <1>1, <1>2, <1>3, <1>4 DEF TypeOK
<1>6. row' \in BOOLEAN
  BY <1>1 DEF TypeOK, NoteFault
<1>7. acked' \in BOOLEAN
  BY <1>1 DEF TypeOK, NoteFault
<1>8. toldCmd' \in Level \cup {"nothing"}
  BY <1>1, <1>3 DEF TypeOK, NoteReadBack
<1> QED BY <1>5, <1>6, <1>7, <1>8

LEMMA PollsKeep ==
  ASSUME Inv, CoreSample \/ ReadBackSample \/ BasePoll \/ BaseSample \/ SeedTimesOut \/ Watchdog
  PROVE  Inv'
<1> USE DEF Inv
<1>1. CASE CoreSample
  <2>1. PICK outcome \in Outcomes : Sampled(outcome) /\ core' = Read(outcome, ats.fault)
    BY <1>1 DEF CoreSample
  <2>2. core' \in {"missed", "clear", "set"}
    BY <2>1 DEF Read, TypeOK, Device
  <2> QED BY <1>1, <2>1, <2>2, SampledKeeps DEF CoreSample, TypeOK, tellVars, envVars
<1>2. CASE ReadBackSample
  <2>1. PICK outcome \in Outcomes :
          Sampled(outcome) /\ Update("prime", core, Read(outcome, ats.readBack), "missed")
    BY <1>2 DEF ReadBackSample
  <2>2. Read(outcome, ats.readBack) \in Level \cup {"missed"}
    BY DEF Read, TypeOK, Device
  <2>3. comms' \in {"healthy", "degraded", "lost"} /\ failing' \in BOOLEAN /\ FailureShows'
    BY <2>1, SampledKeeps
  <2>4. core \in {"missed", "clear", "set"}
    BY DEF TypeOK
  <2>5. /\ snap' \in [fault : {"clear", "set"}, readBack : Level,
                      unit : Unit \cup {"none"}, based : BOOLEAN, polled : BOOLEAN]
        /\ row' \in BOOLEAN /\ acked' \in BOOLEAN /\ toldCmd' \in Level \cup {"nothing"}
    BY <2>1, <2>2, <2>3, <2>4, UpdateKeeps
  <2> QED BY <1>2, <2>3, <2>5 DEF ReadBackSample, TypeOK, envVars
<1>3. CASE BasePoll
  <2>1. PICK outcome \in Outcomes :
          Sampled(outcome) /\ Update("base", "missed", "missed", Read(outcome, ats.unit))
    BY <1>3 DEF BasePoll
  <2>2. Read(outcome, ats.unit) \in Unit \cup {"missed"}
    BY DEF Read, TypeOK, Device
  <2>3. comms' \in {"healthy", "degraded", "lost"} /\ failing' \in BOOLEAN /\ FailureShows'
    BY <2>1, SampledKeeps
  <2>4. /\ snap' \in [fault : {"clear", "set"}, readBack : Level,
                      unit : Unit \cup {"none"}, based : BOOLEAN, polled : BOOLEAN]
        /\ row' \in BOOLEAN /\ acked' \in BOOLEAN /\ toldCmd' \in Level \cup {"nothing"}
    BY <2>1, <2>2, <2>3, UpdateKeeps
  <2> QED BY <1>3, <2>3, <2>4 DEF BasePoll, TypeOK, envVars
<1>4. CASE BaseSample
  BY <1>4, SampledKeeps DEF BaseSample, TypeOK, tellVars, envVars
<1>5. CASE SeedTimesOut
  BY <1>5 DEF SeedTimesOut, TypeOK, FailureShows, linkVars, tellVars, envVars
<1>6. CASE Watchdog
  BY <1>6 DEF Watchdog, Link!Lose, TypeOK, FailureShows, tellVars, envVars
<1> QED BY <1>1, <1>2, <1>3, <1>4, <1>5, <1>6

-----------------------------------------------------------------------------
(* Commands, the environment, restarts. *)

LEMMA CommandsKeep ==
  ASSUME Inv,
         \/ \E level \in Level : Command(level) \/ EchoExpires(level)
         \/ Answered \/ Unanswered \/ Acknowledge \/ AutoRelease
  PROVE  Inv'
<1> USE DEF Inv, TypeOK, FailureShows, linkVars, tellVars, envVars, Drives, Device
<1>1. CASE \E level \in Level : Command(level)
  BY <1>1 DEF Command
<1>2. CASE \E level \in Level : EchoExpires(level)
  BY <1>2 DEF EchoExpires
<1>3. CASE Answered
  BY <1>3 DEF Answered
<1>4. CASE Unanswered
  BY <1>4 DEF Unanswered
<1>5. CASE Acknowledge
  <2>1. row' = FALSE /\ acked' = TRUE BY <1>5 DEF Acknowledge
  <2>2. UNCHANGED <<comms, failing, poll, core, snap, echo, cmd, toldCmd, ats, link>>
    BY <1>5 DEF Acknowledge
  <2>3. FailureShows' BY <2>2
  <2>4. row' \in BOOLEAN /\ acked' \in BOOLEAN BY <2>1
  <2>5. TypeOK' BY <2>2, <2>4
  <2> QED BY <2>3, <2>5
<1>6. CASE AutoRelease
  BY <1>6 DEF AutoRelease, Level
<1> QED BY <1>1, <1>2, <1>3, <1>4, <1>5, <1>6

LEMMA RestKeeps ==
  ASSUME Inv, LinkChanges \/ FaultChanges \/ UnitChanges \/ Restart
  PROVE  Inv'
<1> USE DEF Inv, TypeOK, FailureShows, linkVars, tellVars, envVars, Device
<1>1. CASE LinkChanges
  BY <1>1 DEF LinkChanges
<1>2. CASE FaultChanges
  BY <1>2 DEF FaultChanges
<1>3. CASE UnitChanges
  BY <1>3 DEF UnitChanges
<1>4. CASE Restart
  BY <1>4 DEF Restart, NoSnapshot, Level
<1> QED BY <1>1, <1>2, <1>3, <1>4

(* Init and every step keep the types and show a failure in the health.     *)
THEOREM Invariance == Spec => []Inv
<1>1. Init => Inv
  BY InitInv
<1>2. Inv /\ [Next]_vars => Inv'
  <2> SUFFICES ASSUME Inv, [Next]_vars PROVE Inv'
    OBVIOUS
  <2>1. CASE UNCHANGED vars
    BY <2>1 DEF vars, linkVars, tellVars, envVars, Inv, TypeOK, FailureShows
  <2>2. CASE Next
    BY <2>2, PollsKeep, CommandsKeep, RestKeeps DEF Next
  <2> QED BY <2>1, <2>2
<1> QED BY <1>1, <1>2, PTL DEF Spec

(* The service's state has its type (AtsSnapshot, the alarm row, the echo   *)
(* window).                                                                 *)
THEOREM TypeCorrect == Spec => []TypeOK
<1>1. Inv => TypeOK
  BY DEF Inv
<1> QED BY <1>1, Invariance, PTL

(* is_authoritative never holds on a link whose last sample failed.         *)
THEOREM NoFailingAuthority == Spec => []NoAuthorityWhileFailing
<1>1. Inv => NoAuthorityWhileFailing
  BY DEF Inv, FailureShows, NoAuthorityWhileFailing, Authoritative
<1> QED BY <1>1, Invariance, PTL

(* The safety of authority, for any devices that may answer.                *)
THEOREM AuthorityIsSafe == Spec => []AuthoritySafety
BY TypeCorrect, NoFailingAuthority, PTL DEF AuthoritySafety

-----------------------------------------------------------------------------
(* LoadSource: the publisher.  A message in its queue, in its worker or in  *)
(* its backoff.                                                             *)
Message == [id : Nat \ {0}, status : {"on", "off"}, attempt : 0..MaxAttempts - 1]

Sends ==
  /\ queue \in Seq(Message) /\ Len(queue) <= MaxQueue
  /\ sending \subseteq Message /\ (\A m, n \in sending : m = n)
  /\ waiting \subseteq Message
  /\ failures \in 0..MaxFailures /\ newest \in Nat

(* A message that never failed is fresh.  The fresh ones are sent in the    *)
(* order they were queued in: whatever failed before is older than they,    *)
(* and the newest message is behind them, or was dropped.                   *)
Fresh(m) == m.id \notin retried
Front == sending \cup InQueue

Numbered ==
  /\ \A m \in InPipeline : m.id \in 1..newest
  /\ retried \subseteq 1..newest
  /\ \A m \in waiting : ~Fresh(m)

InOrder(q, old) ==
  \A i, j \in 1..Len(q) : i < j /\ q[i].id \notin old /\ q[j].id \notin old => q[i].id < q[j].id

FreshInOrder ==
  /\ InOrder(queue, retried)
  /\ \A m \in sending, n \in InQueue : Fresh(m) /\ Fresh(n) => m.id < n.id

FreshIsNewer ==
  \A m \in Front : Fresh(m) => /\ \A r \in retried : r < m.id
                               /\ newest \in {n.id : n \in InPipeline} \cup given

PubInv == Sends /\ Numbered /\ FreshInOrder /\ FreshIsNewer /\ StatusIsAccounted

(* The last message to Slack ended where Slack was told the load is.        *)
LastIsAnnounced == Debounce => \A last \in posted : last.to = announced

(* What the switch said since the last poll of the H-100 that had authority *)
(* is what the load is, or was told, or was the suppressed firming.         *)
AuthorityIsTold ==
  before => \/ seen = "unknown" \/ load = seen \/ told = seen
            \/ seen = "utility" /\ firmed \in {"boot", "late"}

-----------------------------------------------------------------------------
(* The queue.                                                               *)
Elements(q) == {q[i] : i \in DOMAIN q}

LEMMA AppendIs ==
  ASSUME NEW q \in Seq(Message), NEW m \in Message
  PROVE  /\ Append(q, m) \in Seq(Message) /\ Len(Append(q, m)) = Len(q) + 1 /\ Len(q) \in Nat
         /\ \A i \in 1..Len(q) : Append(q, m)[i] = q[i]
         /\ Append(q, m)[Len(q) + 1] = m
         /\ Elements(Append(q, m)) = Elements(q) \cup {m}
<1> DEFINE h == Append(q, m)
<1>1. /\ h \in Seq(Message) /\ Len(h) = Len(q) + 1 /\ h[Len(q) + 1] = m
      /\ \A i \in 1..Len(q) : h[i] = q[i]
  BY AppendProperties
<1>2. Len(q) \in Nat /\ DOMAIN q = 1..Len(q) /\ DOMAIN h = 1..Len(h) BY <1>1, LenProperties
<1> HIDE DEF h
<1>3. Elements(h) \subseteq Elements(q) \cup {m}
  <2>1. ASSUME NEW i \in 1..Len(h) PROVE h[i] \in Elements(q) \cup {m}
    <3>1. CASE i = Len(q) + 1 BY <1>1, <3>1
    <3>2. CASE i # Len(q) + 1
      <4>1. i \in 1..Len(q) BY <1>1, <1>2, <3>2
      <4> QED BY <1>1, <1>2, <4>1 DEF Elements
    <3> QED BY <3>1, <3>2
  <2> QED BY <1>2, <2>1 DEF Elements
<1>4. Elements(q) \cup {m} \subseteq Elements(h)
  <2>1. 1..Len(q) \subseteq 1..Len(h) /\ Len(q) + 1 \in 1..Len(h) BY <1>1, <1>2
  <2> QED BY <1>1, <1>2, <2>1 DEF Elements
<1> QED BY <1>1, <1>2, <1>3, <1>4 DEF h

LEMMA TailIs ==
  ASSUME NEW q \in Seq(Message), q # << >>
  PROVE  /\ Tail(q) \in Seq(Message) /\ Len(Tail(q)) = Len(q) - 1 /\ Len(q) \in Nat \ {0}
         /\ \A i \in 1..Len(q) - 1 : Tail(q)[i] = q[i + 1]
         /\ Head(q) = q[1] /\ Head(q) \in Message
         /\ Elements(q) = {Head(q)} \cup Elements(Tail(q))
<1> DEFINE t == Tail(q)
<1>1. /\ t \in Seq(Message) /\ Len(t) = Len(q) - 1 /\ Head(q) \in Message
      /\ \A i \in 1..Len(q) - 1 : t[i] = q[i + 1]
  BY HeadTailProperties
<1>2. Head(q) = q[1] BY DEF Head
<1>3. Len(q) \in Nat \ {0} /\ DOMAIN q = 1..Len(q) /\ DOMAIN t = 1..Len(t)
  BY <1>1, LenProperties, EmptySeq
<1> HIDE DEF t
<1>4. Elements(q) \subseteq {q[1]} \cup Elements(t)
  <2>1. ASSUME NEW i \in 1..Len(q) PROVE q[i] \in {q[1]} \cup Elements(t)
    <3>1. CASE i = 1 BY <3>1
    <3>2. CASE i # 1
      <4>1. i - 1 \in 1..Len(q) - 1 /\ i - 1 + 1 = i /\ i - 1 \in DOMAIN t BY <1>1, <1>3, <3>2
      <4> QED BY <1>1, <4>1 DEF Elements
    <3> QED BY <3>1, <3>2
  <2> QED BY <1>3, <2>1 DEF Elements
<1>5. {q[1]} \cup Elements(t) \subseteq Elements(q)
  <2>1. 1 \in 1..Len(q) /\ \A i \in 1..Len(q) - 1 : i + 1 \in 1..Len(q) BY <1>3
  <2> QED BY <1>1, <1>3, <2>1 DEF Elements
<1> QED BY <1>1, <1>2, <1>3, <1>4, <1>5 DEF t

LEMMA OrderOfTail ==
  ASSUME NEW q \in Seq(Message), q # << >>, NEW old, InOrder(q, old)
  PROVE  /\ InOrder(Tail(q), old)
         /\ \A n \in Elements(Tail(q)) :
              Head(q).id \notin old /\ n.id \notin old => Head(q).id < n.id
<1>1. /\ Len(Tail(q)) = Len(q) - 1 /\ Len(q) \in Nat \ {0} /\ Tail(q) \in Seq(Message)
      /\ \A i \in 1..Len(q) - 1 : Tail(q)[i] = q[i + 1]
      /\ Head(q) = q[1]
  BY TailIs
<1>2. ASSUME NEW i \in 1..Len(Tail(q)) PROVE i + 1 \in 1..Len(q) /\ Tail(q)[i] = q[i + 1] /\ 1 < i + 1
  BY <1>1
<1>3. InOrder(Tail(q), old)
  <2> SUFFICES ASSUME NEW i \in 1..Len(Tail(q)), NEW j \in 1..Len(Tail(q)), i < j,
                      Tail(q)[i].id \notin old, Tail(q)[j].id \notin old
               PROVE  Tail(q)[i].id < Tail(q)[j].id
    BY DEF InOrder
  <2>1. i + 1 < j + 1 OBVIOUS
  <2> QED BY <1>2, <2>1 DEF InOrder
<1>4. DOMAIN Tail(q) = 1..Len(Tail(q)) BY <1>1, LenProperties
<1>5. 1 \in 1..Len(q) BY <1>1
<1>6. ASSUME NEW i \in 1..Len(Tail(q)), Head(q).id \notin old, Tail(q)[i].id \notin old
      PROVE  Head(q).id < Tail(q)[i].id
  BY <1>1, <1>2, <1>5, <1>6 DEF InOrder
<1> QED BY <1>3, <1>4, <1>6 DEF Elements

LEMMA OrderOfAppend ==
  ASSUME NEW q \in Seq(Message), NEW m \in Message, NEW old, InOrder(q, old),
         m.id \in old \/ \A n \in Elements(q) : n.id < m.id
  PROVE  InOrder(Append(q, m), old)
<1> DEFINE h == Append(q, m)
<1>1. /\ Len(h) = Len(q) + 1 /\ Len(q) \in Nat
      /\ \A i \in 1..Len(q) : h[i] = q[i]
      /\ h[Len(q) + 1] = m
  BY AppendIs
<1>2. DOMAIN q = 1..Len(q) BY LenProperties
<1> HIDE DEF h
<1> SUFFICES ASSUME NEW i \in 1..Len(h), NEW j \in 1..Len(h), i < j,
                    h[i].id \notin old, h[j].id \notin old
             PROVE  h[i].id < h[j].id
  BY DEF InOrder, h
<1>3. i \in 1..Len(q) /\ h[i] = q[i] BY <1>1
<1>4. CASE j = Len(q) + 1
  <2>1. h[j] = m BY <1>1, <1>4
  <2>2. q[i] \in Elements(q) BY <1>2, <1>3 DEF Elements
  <2> QED BY <1>3, <2>1, <2>2
<1>5. CASE j # Len(q) + 1
  <2>1. j \in 1..Len(q) /\ h[j] = q[j] BY <1>1, <1>5
  <2> QED BY <1>3, <2>1 DEF InOrder
<1> QED BY <1>4, <1>5

-----------------------------------------------------------------------------
(* The worker.                                                              *)

(* What is sent is older than what is queued and never failed.              *)
LEMMA SentIsOlder ==
  ASSUME PubInv, NEW m \in sending, NEW n \in InQueue, Fresh(n)
  PROVE  m.id < n.id /\ m.id < newest
<1>1. m.id < n.id
  <2>1. CASE Fresh(m) BY <2>1 DEF PubInv, FreshInOrder
  <2>2. CASE ~Fresh(m) BY <2>2 DEF PubInv, FreshIsNewer, Front, Fresh
  <2> QED BY <2>1, <2>2
<1>2. m.id \in 1..newest /\ n.id \in 1..newest /\ newest \in Nat
  BY DEF PubInv, Numbered, InPipeline, Sends
<1> QED BY <1>1, <1>2

LEMMA TakeKeeps ==
  ASSUME PubInv, Take, newest' = newest
  PROVE  PubInv'
<1>1. /\ sending = {} /\ queue # << >> /\ sending' = {Head(queue)} /\ queue' = Tail(queue)
      /\ UNCHANGED <<waiting, retained, given, retried, failures>>
  BY DEF Take
<1>2. queue \in Seq(Message) BY DEF PubInv, Sends
<1>3. /\ queue' \in Seq(Message) /\ Len(queue') = Len(queue) - 1 /\ Len(queue) \in Nat \ {0}
      /\ Head(queue) \in Message
      /\ InQueue = {Head(queue)} \cup InQueue'
  BY <1>1, <1>2, TailIs DEF Elements, InQueue
<1>4. InPipeline' = InPipeline /\ Front' = Front BY <1>1, <1>3 DEF InPipeline, Front
<1>5. Sends'
  <2>1. Len(queue') <= MaxQueue BY <1>3, PublisherAssumption DEF PubInv, Sends
  <2> QED BY <1>1, <1>3, <2>1 DEF PubInv, Sends
<1>6. Numbered' BY <1>1, <1>4 DEF PubInv, Numbered, Fresh
<1>7. FreshInOrder'
  <2>1. /\ InOrder(Tail(queue), retried)
        /\ \A n \in Elements(Tail(queue)) :
             Head(queue).id \notin retried /\ n.id \notin retried => Head(queue).id < n.id
    BY <1>1, <1>2, OrderOfTail DEF PubInv, FreshInOrder
  <2>2. Elements(Tail(queue)) = InQueue' BY <1>1 DEF Elements, InQueue
  <2> QED BY <1>1, <2>1, <2>2 DEF FreshInOrder, Fresh, InOrder
<1>8. FreshIsNewer' BY <1>1, <1>4 DEF PubInv, FreshIsNewer, Fresh
<1>9. StatusIsAccounted' BY <1>1, <1>4 DEF PubInv, StatusIsAccounted
<1> QED BY <1>5, <1>6, <1>7, <1>8, <1>9 DEF PubInv

LEMMA SentKeeps ==
  ASSUME PubInv, NEW m, Sent(m), newest' = newest
  PROVE  PubInv'
<1>1. /\ m \in sending /\ sending' = {} /\ retained' = m
      /\ UNCHANGED <<queue, waiting, given, retried, failures>>
  BY DEF Sent
<1>2. InQueue' = InQueue BY <1>1 DEF InQueue
<1>3. /\ InPipeline' \subseteq InPipeline /\ InPipeline = InPipeline' \cup {m} /\ Front' = InQueue
  BY <1>1, <1>2 DEF InPipeline, Front, PubInv, Sends
<1>4. Sends' BY <1>1 DEF PubInv, Sends
<1>5. Numbered' BY <1>1, <1>3 DEF PubInv, Numbered, Fresh
<1>6. FreshInOrder' BY <1>1 DEF PubInv, FreshInOrder, InOrder
<1>7. FreshIsNewer'
  <2> SUFFICES ASSUME NEW n \in InQueue, Fresh(n)
               PROVE  /\ \A r \in retried : r < n.id
                      /\ newest \in {x.id : x \in InPipeline'} \cup given
    BY <1>1, <1>3 DEF FreshIsNewer, Fresh
  <2>1. /\ \A r \in retried : r < n.id
        /\ newest \in {x.id : x \in InPipeline} \cup given
    BY DEF PubInv, FreshIsNewer, Front
  <2>2. newest \in Nat /\ m.id \in Nat BY <1>1 DEF PubInv, Sends, Message
  <2>3. m.id < newest BY <1>1, SentIsOlder
  <2>4. m.id # newest BY <2>2, <2>3
  <2> QED BY <1>3, <2>1, <2>4
<1>8. StatusIsAccounted'
  <2> SUFFICES ASSUME newest > 0
               PROVE  \/ m.id = newest
                      \/ newest \in {x.id : x \in InPipeline'} \cup given
                      \/ m.id \in retried
    BY <1>1 DEF StatusIsAccounted
  <2>1. CASE newest \in {x.id : x \in InPipeline} \cup given BY <1>3, <2>1
  <2>2. CASE newest \notin {x.id : x \in InPipeline} \cup given
    BY <1>1, <2>2 DEF PubInv, FreshIsNewer, Front, Fresh
  <2> QED BY <2>1, <2>2
<1> QED BY <1>4, <1>5, <1>6, <1>7, <1>8 DEF PubInv

(* A message that failed is older than everything behind it that did not.   *)
LEMMA FailedKeeps ==
  ASSUME PubInv, NEW m, NEW landed \in BOOLEAN, NEW old \in BOOLEAN, Failed(m, landed, old),
         newest' = newest
  PROVE  PubInv'
<1> DEFINE next == [m EXCEPT !.attempt = @ + 1]
<1>1. /\ m \in sending /\ sending' = {} /\ queue' = queue
      /\ failures < MaxFailures /\ failures' = failures + 1
      /\ retained' = IF landed THEN m ELSE retained
      /\ \/ /\ Retries(m, old) /\ waiting' = waiting \cup {next}
            /\ retried' = retried \cup {m.id} /\ given' = given
         \/ given' = given \cup {m.id} /\ waiting' = waiting /\ retried' = retried
  BY DEF Failed
<1>2. /\ m \in Message /\ sending = {m} /\ m.id \in Nat /\ m.attempt \in Nat
      /\ failures \in 0..MaxFailures /\ newest \in Nat
  BY <1>1 DEF PubInv, Sends, Message
<1>3. next.id = m.id BY <1>2 DEF Message
<1>4. Retries(m, old) => next \in Message
  BY <1>2, PublisherAssumption DEF Message, Retries
<1> HIDE DEF next
<1>5. /\ InQueue' = InQueue /\ Front' = InQueue
      /\ InPipeline = InQueue \cup {m} \cup waiting /\ InPipeline' = InQueue \cup waiting'
  BY <1>1, <1>2 DEF InQueue, Front, InPipeline
<1>6. retried \subseteq retried' /\ retried' \subseteq retried \cup {m.id} BY <1>1
<1>7. {x.id : x \in InPipeline'} \cup given' = {x.id : x \in InPipeline} \cup given
  BY <1>1, <1>3, <1>5
<1>8. Sends'
  <2>1. failures' \in 0..MaxFailures BY <1>1, <1>2, PublisherAssumption
  <2> QED BY <1>1, <1>4, <2>1 DEF PubInv, Sends
<1>9. Numbered'
  <2>1. \A x \in InPipeline : x.id \in 1..newest BY DEF PubInv, Numbered
  <2>2. m.id \in 1..newest BY <1>5, <2>1
  <2>3. \A x \in InPipeline' : x.id \in 1..newest BY <1>1, <1>3, <1>5, <2>1, <2>2
  <2>4. \A x \in waiting' : x.id \in retried' BY <1>1, <1>3, <1>6 DEF PubInv, Numbered, Fresh
  <2> QED BY <1>6, <2>2, <2>3, <2>4 DEF PubInv, Numbered, Fresh
<1>10. FreshInOrder' BY <1>1, <1>6 DEF PubInv, FreshInOrder, InOrder
<1>11. FreshIsNewer'
  <2> SUFFICES ASSUME NEW n \in InQueue, n.id \notin retried'
               PROVE  /\ \A r \in retried' : r < n.id
                      /\ newest \in {x.id : x \in InPipeline'} \cup given'
    BY <1>5 DEF FreshIsNewer, Fresh
  <2>1. Fresh(n) BY <1>6 DEF Fresh
  <2>2. /\ \A r \in retried : r < n.id
        /\ newest \in {x.id : x \in InPipeline} \cup given
    BY <2>1 DEF PubInv, FreshIsNewer, Front
  <2>3. m.id < n.id BY <1>1, <2>1, SentIsOlder
  <2> QED BY <1>6, <1>7, <2>2, <2>3
<1>12. StatusIsAccounted'
  <2> SUFFICES ASSUME newest > 0
               PROVE  \/ retained'.id = newest
                      \/ newest \in {x.id : x \in InPipeline'} \cup given'
                      \/ retained'.id \in retried'
    BY <1>1 DEF StatusIsAccounted
  <2>1. CASE newest \in {x.id : x \in InPipeline} \cup given BY <1>7, <2>1
  <2>2. CASE newest \notin {x.id : x \in InPipeline} \cup given
    <3>1. m.id \in retried BY <1>1, <2>2 DEF PubInv, FreshIsNewer, Front, Fresh
    <3>2. retained.id = newest \/ retained.id \in retried
      BY <2>2 DEF PubInv, StatusIsAccounted
    <3> QED BY <1>1, <1>6, <3>1, <3>2
  <2> QED BY <2>1, <2>2
<1> QED BY <1>8, <1>9, <1>10, <1>11, <1>12 DEF PubInv

(* What comes back from its backoff has failed.                             *)
LEMMA BackoffKeeps ==
  ASSUME PubInv, NEW m \in waiting, BackoffEnds(m), newest' = newest
  PROVE  PubInv'
<1>1. /\ waiting' = waiting \ {m} /\ UNCHANGED <<sending, retained, retried, failures>>
      /\ \/ Len(queue) < MaxQueue /\ queue' = Append(queue, m) /\ given' = given
         \/ queue' = queue /\ given' = given \cup {m.id}
  BY DEF BackoffEnds, Requeue
<1>2. m \in Message /\ m.id \in retried /\ queue \in Seq(Message) /\ Len(queue) <= MaxQueue
  BY DEF PubInv, Sends, Numbered, Fresh
<1>3. queue' \in Seq(Message) /\ Len(queue') <= MaxQueue
      /\ InQueue' \subseteq InQueue \cup {m} /\ InQueue \subseteq InQueue'
      /\ (queue' = queue \/ m \in InQueue')
  <2>1. CASE queue' = queue BY <1>2, <2>1 DEF InQueue
  <2>2. CASE Len(queue) < MaxQueue /\ queue' = Append(queue, m)
    <3>1. /\ queue' \in Seq(Message) /\ Len(queue') = Len(queue) + 1 /\ Len(queue) \in Nat
          /\ InQueue' = InQueue \cup {m}
      BY <1>2, <2>2, AppendIs DEF Elements, InQueue
    <3> QED BY <2>2, <3>1, PublisherAssumption
  <2> QED BY <1>1, <2>1, <2>2
<1>4. /\ InPipeline' \subseteq InPipeline /\ Front \subseteq Front' /\ Front' \subseteq Front \cup {m}
      /\ {x.id : x \in InPipeline} \cup given \subseteq {x.id : x \in InPipeline'} \cup given'
  <2>1. InPipeline' \subseteq InPipeline /\ Front \subseteq Front' /\ Front' \subseteq Front \cup {m}
    BY <1>1, <1>3 DEF InPipeline, Front
  <2>2. InPipeline \subseteq InPipeline' \cup {m} BY <1>1, <1>3 DEF InPipeline
  <2>3. m \in InPipeline' \/ m.id \in given' BY <1>1, <1>3 DEF InPipeline
  <2>4. given \subseteq given' BY <1>1
  <2> QED BY <2>1, <2>2, <2>3, <2>4
<1>5. Sends' BY <1>1, <1>3 DEF PubInv, Sends
<1>6. Numbered' BY <1>1, <1>4 DEF PubInv, Numbered, Fresh
<1>7. FreshInOrder'
  <2>1. InOrder(queue', retried)
    <3>1. CASE queue' = queue BY <3>1 DEF PubInv, FreshInOrder
    <3>2. CASE queue' = Append(queue, m)
      BY <1>2, <3>2, OrderOfAppend DEF PubInv, FreshInOrder
    <3> QED BY <1>1, <3>1, <3>2
  <2> QED BY <1>1, <1>2, <1>3, <2>1 DEF PubInv, FreshInOrder, Fresh, InOrder
<1>8. FreshIsNewer'
  <2> SUFFICES ASSUME NEW n \in Front', n.id \notin retried
               PROVE  /\ \A r \in retried : r < n.id
                      /\ newest \in {x.id : x \in InPipeline'} \cup given'
    BY <1>1 DEF FreshIsNewer, Fresh
  <2>1. n \in Front BY <1>2, <1>4
  <2> QED BY <1>4, <2>1 DEF PubInv, FreshIsNewer, Fresh
<1>9. StatusIsAccounted' BY <1>1, <1>4 DEF PubInv, StatusIsAccounted
<1> QED BY <1>5, <1>6, <1>7, <1>8, <1>9 DEF PubInv

(* A new status is newer than all there are.                                *)
LEMMA EnqueueKeeps ==
  ASSUME PubInv, NEW s \in {"on", "off"}, newest' = newest + 1,
         Enqueue([id |-> newest + 1, status |-> s, attempt |-> 0]),
         UNCHANGED pubRest
  PROVE  PubInv'
<1> DEFINE m == [id |-> newest + 1, status |-> s, attempt |-> 0]
           rest == IF Len(queue) < MaxQueue THEN queue ELSE Tail(queue)
<1>1. newest \in Nat /\ m.id = newest + 1 BY DEF PubInv, Sends
<1>2. m \in Message BY <1>1, PublisherAssumption DEF Message
<1>3. /\ queue' = Append(rest, m)
      /\ rest = queue \/ (Len(queue) >= MaxQueue /\ rest = Tail(queue))
      /\ given \subseteq given'
      /\ UNCHANGED <<sending, waiting, retained, retried, failures>>
  <2>1. Enqueue(m) BY DEF Enqueue
  <2>2. /\ queue' = Append(rest, m) /\ given \subseteq given'
    BY <2>1 DEF Enqueue
  <2>3. Len(queue) \in Nat BY LenProperties DEF PubInv, Sends
  <2> QED BY <2>2, <2>3, PublisherAssumption DEF pubRest
<1> HIDE DEF m
<1>4. queue \in Seq(Message) /\ Len(queue) <= MaxQueue /\ InOrder(queue, retried)
  BY DEF PubInv, Sends, FreshInOrder
<1>5. /\ rest \in Seq(Message) /\ Len(rest) < MaxQueue /\ InOrder(rest, retried)
      /\ Elements(rest) \subseteq InQueue
  <2>1. CASE Len(queue) < MaxQueue BY <1>4, <2>1 DEF Elements, InQueue
  <2>2. CASE ~(Len(queue) < MaxQueue)
    <3>1. Len(queue) \in Nat /\ rest = Tail(queue) /\ queue # << >>
      BY <1>4, <2>2, PublisherAssumption, LenProperties, EmptySeq
    <3>2. /\ rest \in Seq(Message) /\ Len(rest) = Len(queue) - 1
          /\ Elements(queue) = {Head(queue)} \cup Elements(rest)
      BY <1>4, <3>1, TailIs
    <3>3. InOrder(rest, retried) BY <1>4, <3>1, OrderOfTail
    <3>4. Len(rest) < MaxQueue BY <1>4, <3>1, <3>2, PublisherAssumption
    <3>5. Elements(queue) = InQueue BY DEF Elements, InQueue
    <3> QED BY <3>2, <3>3, <3>4, <3>5
  <2> QED BY <2>1, <2>2
<1> HIDE DEF rest
<1>6. /\ queue' \in Seq(Message) /\ Len(queue') = Len(rest) + 1 /\ Len(rest) \in Nat
      /\ InQueue' = Elements(rest) \cup {m}
  BY <1>2, <1>3, <1>5, AppendIs DEF Elements, InQueue
<1>7. /\ InPipeline' \subseteq InPipeline \cup {m} /\ m \in InPipeline'
      /\ Front' \subseteq Front \cup {m}
  BY <1>3, <1>5, <1>6 DEF InPipeline, Front
<1>8. /\ \A n \in InPipeline : n.id \in 1..newest
      /\ retried \subseteq 1..newest
      /\ Front \subseteq InPipeline /\ InQueue \subseteq InPipeline /\ sending \subseteq InPipeline
  BY DEF PubInv, Numbered, InPipeline, Front
<1>9. Sends'
  <2>1. Len(queue') <= MaxQueue BY <1>5, <1>6, PublisherAssumption
  <2>2. newest' \in Nat BY <1>1
  <2> QED BY <1>3, <1>6, <2>1, <2>2 DEF PubInv, Sends
<1>10. Numbered'
  <2>1. 1..newest \subseteq 1..newest' /\ m.id \in 1..newest' BY <1>1
  <2> QED BY <1>3, <1>7, <1>8, <2>1 DEF PubInv, Numbered, Fresh
<1>11. \A n \in Elements(rest) \cup sending : n.id < m.id
  BY <1>1, <1>5, <1>8
<1>12. FreshInOrder'
  <2>1. InOrder(queue', retried) BY <1>2, <1>3, <1>5, <1>11, OrderOfAppend
  <2>2. ASSUME NEW x \in sending, NEW n \in InQueue', Fresh(x), Fresh(n) PROVE x.id < n.id
    <3>1. CASE n = m BY <1>11, <3>1
    <3>2. CASE n \in InQueue BY <2>2, <3>2 DEF PubInv, FreshInOrder
    <3> QED BY <1>5, <1>6, <3>1, <3>2
  <2> QED BY <1>3, <2>1, <2>2 DEF FreshInOrder, Fresh, InOrder
<1>13. FreshIsNewer'
  <2>1. \A r \in retried : r < m.id BY <1>1, <1>8
  <2>2. ASSUME NEW n \in Front', n.id \notin retried PROVE \A r \in retried : r < n.id
    <3>1. CASE n = m BY <2>1, <3>1
    <3>2. CASE n \in Front BY <2>2, <3>2 DEF PubInv, FreshIsNewer, Fresh
    <3> QED BY <1>7, <3>1, <3>2
  <2>3. newest' \in {x.id : x \in InPipeline'} BY <1>1, <1>7
  <2> QED BY <1>3, <2>2, <2>3 DEF FreshIsNewer, Fresh
<1>14. StatusIsAccounted' BY <1>1, <1>7 DEF StatusIsAccounted
<1> QED BY <1>9, <1>10, <1>12, <1>13, <1>14 DEF PubInv

LEMMA StillKeeps ==
  ASSUME PubInv, UNCHANGED <<mqttVars, pubRest>>
  PROVE  PubInv'
<1>1. /\ UNCHANGED <<queue, sending, waiting, retained, given, retried, failures, newest>>
  BY DEF mqttVars, pubRest
<1>2. InQueue' = InQueue BY <1>1 DEF InQueue
<1>3. InPipeline' = InPipeline /\ Front' = Front BY <1>1, <1>2 DEF InPipeline, Front
<1>4. Sends' /\ Numbered' BY <1>1, <1>3 DEF PubInv, Sends, Numbered, Fresh
<1>5. FreshInOrder' BY <1>1, <1>2 DEF PubInv, FreshInOrder, Fresh, InOrder
<1>6. FreshIsNewer' /\ StatusIsAccounted'
  BY <1>1, <1>3 DEF PubInv, FreshIsNewer, Fresh, StatusIsAccounted
<1> QED BY <1>4, <1>5, <1>6 DEF PubInv

LEMMA WorkerKeeps ==
  ASSUME PubInv, PubNext, newest' = newest
  PROVE  PubInv'
<1>1. CASE Take BY <1>1, TakeKeeps
<1>2. CASE SendEnds BY <1>2, SentKeeps, FailedKeeps DEF SendEnds
<1>3. CASE \E m \in waiting : BackoffEnds(m) BY <1>3, BackoffKeeps
<1> QED BY <1>1, <1>2, <1>3 DEF PubNext

(* publish_generator_status, whichever loop calls it.                       *)
LEMMA PublishKeeps ==
  ASSUME PubInv, NEW es, ToMqtt(es), UNCHANGED pubRest
  PROVE  PubInv'
<1>1. CASE \E e \in es : e.to \in Side /\ StatusOf(e.to) # status
  <2>1. PICK e \in es : /\ newest' = newest + 1
                        /\ Enqueue([id |-> newest + 1, status |-> StatusOf(e.to), attempt |-> 0])
    BY <1>1 DEF ToMqtt
  <2>2. StatusOf(e.to) \in {"on", "off"} BY DEF StatusOf
  <2> QED BY <2>1, <2>2, EnqueueKeeps
<1>2. CASE ~\E e \in es : e.to \in Side /\ StatusOf(e.to) # status
  BY <1>2, StillKeeps DEF ToMqtt
<1> QED BY <1>1, <1>2

LEMMA PubStarts ==
  ASSUME PubInit, newest = 0
  PROVE  PubInv
<1>1. /\ queue = << >> /\ sending = {} /\ waiting = {} /\ retained = None /\ given = {}
      /\ retried = {} /\ failures = 0
  BY DEF PubInit
<1>2. Len(queue) = 0 /\ DOMAIN queue = {} /\ queue \in Seq(Message) BY <1>1
<1>3. InQueue = {} BY <1>2 DEF InQueue
<1>4. InPipeline = {} /\ Front = {} BY <1>1, <1>3 DEF InPipeline, Front
<1>5. Sends BY <1>1, <1>2, PublisherAssumption DEF Sends
<1>6. Numbered /\ FreshIsNewer BY <1>1, <1>4 DEF Numbered, FreshIsNewer
<1>7. FreshInOrder BY <1>1, <1>2 DEF FreshInOrder, InOrder
<1>8. StatusIsAccounted BY DEF StatusIsAccounted
<1> QED BY <1>5, <1>6, <1>7, <1>8 DEF PubInv

LEMMA PubIsTyped ==
  ASSUME PubInv
  PROVE  PubTypeOK /\ newest \in Nat
<1>1. InPipeline \subseteq Message
  <2>1. InQueue \subseteq Message BY LenProperties, ElementOfSeq DEF PubInv, Sends, InQueue
  <2> QED BY <2>1 DEF PubInv, Sends, InPipeline
<1> QED BY <1>1 DEF PubInv, Sends, PubTypeOK, Message

-----------------------------------------------------------------------------
(* Slack.                                                                   *)
SlackTyped ==
  /\ pending \subseteq Events /\ posted \subseteq Events
  /\ announced \in Source \cup {"none"} /\ heard \in Source \cup {"none"}

SlackInv == SlackTyped /\ PendingIsCurrent /\ LastIsAnnounced

LEMMA EventIs ==
  ASSUME NEW e \in Events
  PROVE  e.from \in Source /\ e.to \in Source /\ e.from # "none" /\ e.to # "none"
BY DEF Events, Source

LEMMA EventsAre ==
  ASSUME NEW a \in Source, NEW b \in Source
  PROVE  /\ Event(a, b) \subseteq Events /\ Event(a, b) # NoEvent
         /\ \A e \in Event(a, b) : e.from = a /\ e.to = b
<1>1. Event(a, b) = {[from |-> a, to |-> b]} BY DEF Event
<1>2. [from |-> a, to |-> b] \in Events BY DEF Events
<1> QED BY <1>1, <1>2 DEF NoEvent

LEMMA ToSlackKeeps ==
  ASSUME SlackInv, NEW es \in SUBSET Events, ToSlack(es)
  PROVE  SlackInv' /\ (Debounce => posted' = posted)
<1>1. CASE UNCHANGED slackVars
  BY <1>1 DEF SlackInv, SlackTyped, PendingIsCurrent, LastIsAnnounced, slackVars
<1>2. CASE \E e \in es : Alert(e)
  <2>1. PICK e \in es : Alert(e) BY <1>2
  <2>2. e \in Events /\ e.from \in Source /\ e.to \in Source BY EventIs
  <2>3. CASE Debounce
    <3>1. /\ heard' = e.to /\ announced' = Anchor(e) /\ posted' = posted
          /\ pending' = Event(Anchor(e), e.to)
      BY <2>1, <2>3 DEF Alert, Anchor, Superseded
    <3>2. Anchor(e) \in Source BY <2>2 DEF Anchor, SlackInv, SlackTyped
    <3>3. /\ pending' \subseteq Events /\ pending' # NoEvent
          /\ \A x \in pending' : x.from = announced' /\ x.to = heard'
      BY <2>2, <3>1, <3>2, EventsAre
    <3>4. \A last \in posted : last.to = announced /\ last.to # "none"
      BY <2>3, EventIs DEF SlackInv, SlackTyped, LastIsAnnounced
    <3>5. SlackTyped' BY <2>2, <3>1, <3>2, <3>3 DEF SlackInv, SlackTyped
    <3>6. PendingIsCurrent' BY <3>3 DEF PendingIsCurrent
    <3>7. LastIsAnnounced' BY <3>1, <3>4 DEF LastIsAnnounced, Anchor
    <3> QED BY <3>1, <3>5, <3>6, <3>7 DEF SlackInv
  <2>4. CASE ~Debounce
    <3>1. /\ heard' = e.to /\ announced' = e.to /\ pending' = pending
          /\ posted' = Event(e.from, e.to)
      BY <2>1, <2>4 DEF Alert
    <3>2. posted' \subseteq Events BY <2>2, <3>1, EventsAre
    <3> QED BY <2>2, <2>4, <3>1, <3>2
         DEF SlackInv, SlackTyped, PendingIsCurrent, LastIsAnnounced
  <2> QED BY <2>3, <2>4
<1> QED BY <1>1, <1>2 DEF ToSlack

(* What is posted when the debounce ends continues the chain.               *)
LEMMA DebounceEndsKeeps ==
  ASSUME SlackInv, DebounceEnds
  PROVE  /\ SlackInv'
         /\ Debounce /\ posted' # posted =>
              \A e \in posted' : e.from # e.to /\ \A last \in posted : e.from = last.to
<1>1. pending' = {} /\ heard' = heard BY DEF DebounceEnds, NoEvent
<1>2. PICK e \in pending :
        IF e.to = announced THEN UNCHANGED <<announced, posted>>
        ELSE announced' = e.to /\ posted' = {e}
  BY DEF DebounceEnds
<1>3. e \in Events /\ e.to \in Source BY EventIs DEF SlackInv, SlackTyped
<1>4. Debounce => e.from = announced /\ e.to = heard
  BY DEF SlackInv, PendingIsCurrent
<1>5. SlackTyped' BY <1>1, <1>2, <1>3 DEF SlackInv, SlackTyped
<1>6. PendingIsCurrent' BY <1>1, <1>2, <1>4 DEF PendingIsCurrent
<1>7. LastIsAnnounced' BY <1>2 DEF SlackInv, LastIsAnnounced
<1>8. ASSUME Debounce, posted' # posted
      PROVE  \A x \in posted' : x.from # x.to /\ \A last \in posted : x.from = last.to
  <2>1. posted' = {e} /\ e.to # announced BY <1>2, <1>8
  <2> QED BY <1>4, <1>8, <2>1 DEF SlackInv, LastIsAnnounced
<1> QED BY <1>5, <1>6, <1>7, <1>8 DEF SlackInv

-----------------------------------------------------------------------------
(* The load.                                                                *)
LEMMA DerivedIs ==
  ASSUME seen \in Source, load \in Source, evidence \in Evidence
  PROVE  /\ Derived \in Source
         /\ Authority /\ seen # "unknown" => Derived = seen
<1>1. FromTelemetry \in Source BY DEF FromTelemetry, Evidence, Source
<1> QED BY <1>1 DEF Derived

LEMMA EmittedIs ==
  ASSUME Derived \in Source, load \in Source
  PROVE  Emitted \subseteq Events /\ (~Authority => LoadEvent = Event(load, Derived))
<1>1. LoadEvent \subseteq Events BY EventsAre DEF LoadEvent, NoEvent
<1> QED BY <1>1 DEF Emitted, LoadEvent, NoEvent

LEMMA UpdateLoadKeeps ==
  ASSUME LoadTypeOK, AuthorityIsTold, UpdateLoad, UNCHANGED <<seen, firmed>>
  PROVE  /\ load' \in Source /\ told' \in Source /\ before' \in BOOLEAN
         /\ AuthorityIsTold'
<1>1. /\ load' = Derived /\ before' = Authority /\ (told' = told \/ told' = Derived)
  BY DEF UpdateLoad
<1>2. /\ Derived \in Source /\ (Authority /\ seen # "unknown" => Derived = seen)
      /\ told \in Source
  BY DerivedIs DEF LoadTypeOK
<1>3. Authority \in BOOLEAN BY DEF Authority, LoadTypeOK
<1> QED BY <1>1, <1>2, <1>3 DEF AuthorityIsTold

(* A poll of the H-100 that moves the load tells of it, or has a reason.    *)
LEMMA UpdateLoadTells ==
  ASSUME LoadTypeOK, AuthorityIsTold, UpdateLoad,
         load' # load, told' = told, told # load'
  PROVE  seen = "unknown" \/ ~before
         \/ (load' = "utility" /\ (load = "unknown" \/ firmed \in {"boot", "late"}))
<1>1. load' = Derived BY DEF UpdateLoad
<1>2. /\ Derived \in Source /\ (Authority /\ seen # "unknown" => Derived = seen)
      /\ load \in Source
  BY DerivedIs DEF LoadTypeOK
<1>3. CASE Authority BY <1>1, <1>2, <1>3 DEF AuthorityIsTold
<1>4. CASE ~Authority
  <2>1. LoadEvent = Event(load, Derived) BY <1>4 DEF LoadEvent
  <2>2. /\ LoadEvent # NoEvent
        /\ \A e \in LoadEvent : e.from = load /\ e.to = Derived
    BY <1>2, <2>1, EventsAre
  <2>3. ~\A e \in LoadEvent : ~Firming(e) BY <1>1, <2>2 DEF UpdateLoad
  <2>4. load = "unknown" /\ Derived = "utility" BY <2>2, <2>3 DEF Firming
  <2> QED BY <1>1, <2>4
<1> QED BY <1>3, <1>4

-----------------------------------------------------------------------------
LoadInv == LoadTypeOK /\ PubInv /\ SlackInv /\ AuthorityIsTold

WorldTyped == pos \in Source /\ rated \in Rating /\ trusted \in BOOLEAN /\ evidence \in Evidence
              /\ moves \in 0..MaxMoves
KnownTyped == /\ seen \in Source /\ believed \in BOOLEAN /\ load \in Source
              /\ held \subseteq Events /\ told \in Source /\ before \in BOOLEAN
              /\ firmed \in {"fresh", "no", "boot", "late"}
StatusTyped == status \in {"none", "on", "off"}

LEMMA TypesAre ==
  PubInv => (LoadTypeOK <=> WorldTyped /\ KnownTyped /\ SlackTyped /\ StatusTyped)
BY PubIsTyped DEF LoadTypeOK, WorldTyped, KnownTyped, SlackTyped, StatusTyped

LEMMA TypesAreNext ==
  PubInv' => (LoadTypeOK' <=> WorldTyped' /\ KnownTyped' /\ SlackTyped' /\ StatusTyped')
<1>1. PubInv => PubTypeOK /\ newest \in Nat BY PubIsTyped
<1>2. PubInv' => PubTypeOK' /\ (newest \in Nat)' BY <1>1, PTL
<1> QED BY <1>2 DEF LoadTypeOK, WorldTyped, KnownTyped, SlackTyped, StatusTyped

LEMMA ToMqttIsTyped ==
  ASSUME StatusTyped, NEW es, ToMqtt(es)
  PROVE  StatusTyped'
BY DEF StatusTyped, ToMqtt, StatusOf, mqttVars

LEMMA LoadStarts == LoadInit => LoadInv
<1> SUFFICES ASSUME LoadInit PROVE LoadInv OBVIOUS
<1>1. PubInv BY PubStarts DEF LoadInit
<1>2. SlackInv BY DEF LoadInit, SlackInv, SlackTyped, PendingIsCurrent, LastIsAnnounced, NoEvent
<1>3. AuthorityIsTold BY DEF LoadInit, AuthorityIsTold
<1>4. WorldTyped
  <2>1. 0 \in 0..MaxMoves BY LoadSourceAssumption
  <2> QED BY <2>1 DEF LoadInit, WorldTyped, Source, Side, Rating, Evidence
<1>5. KnownTyped /\ StatusTyped BY DEF LoadInit, KnownTyped, StatusTyped, Source, NoEvent
<1> QED BY <1>1, <1>2, <1>3, <1>4, <1>5, TypesAre DEF LoadInv, SlackInv

(* The ATS poll: a change is told, or is the suppressed firming.            *)
LEMMA AtsPollKeeps ==
  ASSUME LoadInv, AtsPoll
  PROVE  LoadInv' /\ load' = load /\ (Debounce => posted' = posted)
<1> DEFINE read == IF rated = "lost" THEN seen ELSE pos
           event == PositionEvent(seen, read)
<1>1. /\ seen' = read /\ believed' = IF rated = "lost" THEN believed ELSE trusted
      /\ told' = IF event = NoEvent THEN told ELSE read
      /\ firmed' = CASE read = seen -> firmed [] event # NoEvent -> "no"
                     [] OTHER -> IF firmed = "fresh" THEN "boot" ELSE "late"
      /\ ToSlack({e \in event : e.to \in Side})
      /\ ToMqtt(event)
      /\ UNCHANGED <<device, load, held, before, pubRest, moves>>
  BY DEF AtsPoll
<1>2. /\ WorldTyped /\ KnownTyped /\ StatusTyped /\ read \in Source
  BY TypesAre DEF LoadInv, WorldTyped, KnownTyped
<1>3. event \subseteq Events
  <2>1. seen \in Source BY <1>2 DEF KnownTyped
  <2> QED BY <1>2, <2>1, EventsAre DEF PositionEvent, NoEvent
<1>4. event = NoEvent => read = seen \/ (seen = "unknown" /\ read = "utility")
  <2>1. seen \in Source BY <1>2 DEF KnownTyped
  <2>2. Event(seen, read) # NoEvent BY <1>2, <2>1, EventsAre
  <2> QED BY <2>2 DEF PositionEvent, Firming
<1>5. read = seen => event = NoEvent BY DEF PositionEvent
<1> HIDE DEF read, event
<1>6. PubInv' BY <1>1, PublishKeeps DEF LoadInv
<1>7. SlackInv' /\ (Debounce => posted' = posted)
  BY <1>1, <1>3, ToSlackKeeps DEF LoadInv
<1>8. StatusTyped' BY <1>1, <1>2, ToMqttIsTyped
<1>9. WorldTyped' BY <1>1, <1>2 DEF WorldTyped, device
<1>10. believed' \in BOOLEAN BY <1>1, <1>2 DEF KnownTyped, WorldTyped
<1>11. firmed' \in {"fresh", "no", "boot", "late"}
       /\ (read = seen => firmed' = firmed)
       /\ (read # seen /\ event = NoEvent => firmed' \in {"boot", "late"})
  <2>0. firmed \in {"fresh", "no", "boot", "late"} BY <1>2 DEF KnownTyped
  <2>1. CASE read = seen BY <1>1, <1>5, <2>0, <2>1
  <2>2. CASE read # seen /\ event # NoEvent BY <1>1, <2>2
  <2>3. CASE read # seen /\ event = NoEvent BY <1>1, <2>3
  <2> QED BY <2>1, <2>2, <2>3
<1>12. KnownTyped' BY <1>1, <1>2, <1>10, <1>11 DEF KnownTyped
<1>13. AuthorityIsTold'
  <2>1. CASE read = seen
    BY <1>1, <1>5, <1>11, <2>1 DEF LoadInv, AuthorityIsTold
  <2>2. CASE event # NoEvent BY <1>1, <2>2 DEF AuthorityIsTold
  <2>3. CASE read # seen /\ event = NoEvent
    BY <1>1, <1>4, <1>11, <2>3 DEF AuthorityIsTold
  <2> QED BY <2>1, <2>2, <2>3
<1>14. LoadTypeOK' BY <1>6, <1>7, <1>8, <1>9, <1>12, TypesAreNext DEF SlackInv
<1> QED BY <1>1, <1>6, <1>7, <1>13, <1>14 DEF LoadInv

LEMMA PrimePollKeeps ==
  ASSUME LoadInv, PrimePoll
  PROVE  LoadInv' /\ (Debounce => posted' = posted)
<1>1. /\ UpdateLoad /\ ToSlack(Emitted) /\ ToMqtt({e \in Emitted : ~Firming(e)})
      /\ UNCHANGED <<device, seen, believed, held, firmed, pubRest, moves>>
  BY DEF PrimePoll, Forward
<1>2. WorldTyped /\ KnownTyped /\ StatusTyped BY TypesAre DEF LoadInv
<1>3. load' \in Source /\ told' \in Source /\ before' \in BOOLEAN /\ AuthorityIsTold'
  BY <1>1, UpdateLoadKeeps DEF LoadInv
<1>4. Emitted \subseteq Events
  BY <1>2, DerivedIs, EmittedIs DEF WorldTyped, KnownTyped
<1>5. PubInv' BY <1>1, PublishKeeps DEF LoadInv
<1>6. SlackInv' /\ (Debounce => posted' = posted) BY <1>1, <1>4, ToSlackKeeps DEF LoadInv
<1>7. StatusTyped' BY <1>1, <1>2, ToMqttIsTyped
<1>8. WorldTyped' /\ KnownTyped' BY <1>1, <1>2, <1>3 DEF WorldTyped, KnownTyped, device
<1> QED BY <1>3, <1>5, <1>6, <1>7, <1>8, TypesAreNext DEF LoadInv, SlackInv

LEMMA TelemetryPollKeeps ==
  ASSUME LoadInv, TelemetryPoll
  PROVE  LoadInv' /\ posted' = posted
<1>1. /\ UpdateLoad /\ held' = Emitted
      /\ UNCHANGED <<device, seen, believed, slackVars, mqttVars, firmed, pubRest, moves>>
  BY DEF TelemetryPoll
<1>2. WorldTyped /\ KnownTyped /\ StatusTyped BY TypesAre DEF LoadInv
<1>3. load' \in Source /\ told' \in Source /\ before' \in BOOLEAN /\ AuthorityIsTold'
  BY <1>1, UpdateLoadKeeps DEF LoadInv
<1>4. Emitted \subseteq Events
  BY <1>2, DerivedIs, EmittedIs DEF WorldTyped, KnownTyped
<1>5. PubInv' BY <1>1, StillKeeps DEF LoadInv
<1>6. SlackInv' BY <1>1
  DEF LoadInv, SlackInv, SlackTyped, PendingIsCurrent, LastIsAnnounced, slackVars
<1>7. StatusTyped' BY <1>1, <1>2 DEF StatusTyped, mqttVars
<1>8. WorldTyped' /\ KnownTyped' BY <1>1, <1>2, <1>3, <1>4 DEF WorldTyped, KnownTyped, device
<1> QED BY <1>1, <1>3, <1>5, <1>6, <1>7, <1>8, TypesAreNext DEF LoadInv, SlackInv, slackVars

LEMMA TelemetryWrittenKeeps ==
  ASSUME LoadInv, TelemetryWritten
  PROVE  LoadInv' /\ load' = load /\ (Debounce => posted' = posted)
<1>1. /\ held' = NoEvent /\ ToSlack(held) /\ ToMqtt({e \in held : ~Firming(e)})
      /\ UNCHANGED <<device, seen, believed, load, pubRest, told, before, firmed, moves>>
  BY DEF TelemetryWritten, Forward
<1>2. WorldTyped /\ KnownTyped /\ StatusTyped BY TypesAre DEF LoadInv
<1>3. held \subseteq Events BY <1>2 DEF KnownTyped
<1>4. PubInv' BY <1>1, PublishKeeps DEF LoadInv
<1>5. SlackInv' /\ (Debounce => posted' = posted) BY <1>1, <1>3, ToSlackKeeps DEF LoadInv
<1>6. StatusTyped' BY <1>1, <1>2, ToMqttIsTyped
<1>7. WorldTyped' /\ KnownTyped' BY <1>1, <1>2 DEF WorldTyped, KnownTyped, device, NoEvent
<1>8. AuthorityIsTold' BY <1>1 DEF LoadInv, AuthorityIsTold
<1> QED BY <1>1, <1>4, <1>5, <1>6, <1>7, <1>8, TypesAreNext DEF LoadInv, SlackInv

(* The steps that touch neither the load nor what is known of it.           *)
Elsewhere == Move \/ DebounceEnds \/ (PubNext /\ UNCHANGED others) \/ UNCHANGED loadVars

LEMMA OtherStepsKeep ==
  ASSUME LoadInv, Elsewhere
  PROVE  /\ LoadInv' /\ load' = load
         /\ Debounce /\ posted' # posted =>
              \A e \in posted' : e.from # e.to /\ \A last \in posted : e.from = last.to
<1>1. WorldTyped /\ KnownTyped /\ StatusTyped BY TypesAre DEF LoadInv
<1>2. CASE Move
  <2>1. UNCHANGED <<seen, believed, load, held, slackVars, mqttVars, pubRest, told, before, firmed>>
    BY <1>2 DEF Move
  <2>2. WorldTyped'
    <3>1. moves' \in 0..MaxMoves
      <4>1. moves \in 0..MaxMoves /\ moves < MaxMoves /\ moves' = moves + 1
        BY <1>1, <1>2 DEF WorldTyped, Move
      <4> QED BY <4>1, LoadSourceAssumption
    <3>2. /\ pos' \in Source /\ rated' \in Rating /\ trusted' \in BOOLEAN /\ evidence' \in Evidence
      <4>1. Readings \subseteq Evidence BY LoadSourceAssumption
      <4> QED BY <1>1, <1>2, <4>1 DEF WorldTyped, Move
    <3> QED BY <3>1, <3>2 DEF WorldTyped
  <2>3. PubInv' BY <2>1, StillKeeps DEF LoadInv
  <2>4. SlackInv' /\ posted' = posted BY <2>1
    DEF LoadInv, SlackInv, SlackTyped, PendingIsCurrent, LastIsAnnounced, slackVars
  <2>5. KnownTyped' /\ StatusTyped' /\ AuthorityIsTold'
    BY <1>1, <2>1 DEF KnownTyped, StatusTyped, LoadInv, AuthorityIsTold, mqttVars
  <2> QED BY <2>1, <2>2, <2>3, <2>4, <2>5, TypesAreNext DEF LoadInv, SlackInv
<1>3. CASE DebounceEnds
  <2>1. UNCHANGED <<device, seen, believed, load, held, mqttVars, pubRest, told, before, firmed, moves>>
    BY <1>3 DEF DebounceEnds
  <2>2. PubInv' BY <2>1, StillKeeps DEF LoadInv
  <2>3. /\ SlackInv'
        /\ Debounce /\ posted' # posted =>
             \A e \in posted' : e.from # e.to /\ \A last \in posted : e.from = last.to
    BY <1>3, DebounceEndsKeeps DEF LoadInv
  <2>4. WorldTyped' /\ KnownTyped' /\ StatusTyped' /\ AuthorityIsTold'
    BY <1>1, <2>1 DEF WorldTyped, KnownTyped, StatusTyped, LoadInv, AuthorityIsTold, mqttVars, device
  <2> QED BY <2>1, <2>2, <2>3, <2>4, TypesAreNext DEF LoadInv, SlackInv
<1>4. CASE UNCHANGED others /\ (PubNext \/ UNCHANGED loadVars)
  <2>1. UNCHANGED <<device, seen, believed, load, held, slackVars, status, newest, told, before, firmed, moves>>
    BY <1>4 DEF others
  <2>2. PubInv'
    <3>1. CASE PubNext BY <2>1, <3>1, WorkerKeeps DEF LoadInv
    <3>2. CASE UNCHANGED loadVars BY <3>2, StillKeeps DEF LoadInv, loadVars
    <3> QED BY <1>4, <3>1, <3>2
  <2>3. SlackInv' /\ posted' = posted BY <2>1
    DEF LoadInv, SlackInv, SlackTyped, PendingIsCurrent, LastIsAnnounced, slackVars
  <2>4. WorldTyped' /\ KnownTyped' /\ StatusTyped' /\ AuthorityIsTold'
    BY <1>1, <2>1 DEF WorldTyped, KnownTyped, StatusTyped, LoadInv, AuthorityIsTold, device
  <2> QED BY <2>1, <2>2, <2>3, <2>4, TypesAreNext DEF LoadInv, SlackInv
<1>5. UNCHANGED loadVars => UNCHANGED others BY DEF loadVars, others, mqttVars
<1> QED BY <1>2, <1>3, <1>4, <1>5 DEF Elsewhere

LEMMA StepsAre ==
  [LoadNext]_loadVars =>
    \/ AtsPoll \/ PrimePoll \/ TelemetryPoll \/ TelemetryWritten
    \/ Elsewhere
BY DEF LoadNext, Elsewhere

LEMMA LoadStep == LoadInv /\ [LoadNext]_loadVars => LoadInv'
<1> SUFFICES ASSUME LoadInv, [LoadNext]_loadVars PROVE LoadInv' OBVIOUS
<1> QED BY StepsAre, AtsPollKeeps, PrimePollKeeps, TelemetryPollKeeps, TelemetryWrittenKeeps, OtherStepsKeep

(* What is true of the load, of Slack and of the queue stays true, in any   *)
(* order of the three loops, the worker and the delayed alert.              *)
THEOREM LoadInvariance == LoadSpec => []LoadInv
BY LoadStarts, LoadStep, PTL DEF LoadSpec

(* Types; the newest status is on the broker, on its way, dropped for good  *)
(* or overtaken by a retry; a pending Slack message would tell what is true *)
(* (_enqueue, _worker, _requeue_after, alert_load_source_change).           *)
THEOREM LoadIsSafe == LoadSpec => []LoadSafety
<1>1. LoadInv => LoadSafety BY DEF LoadInv, LoadSafety, PubInv, SlackInv
<1> QED BY <1>1, LoadInvariance, PTL

(* Slack's messages form a chain, for any debounce, flags and flapping      *)
(* (alert_load_source_change, _load_source_after).                          *)
THEOREM MessagesAreAChain == LoadSpec => MessagesFormAChain
<1> DEFINE Chained == Debounce /\ posted' # posted =>
       \A e \in posted' : e.from # e.to /\ \A last \in posted : e.from = last.to
<1>1. LoadInv /\ [LoadNext]_loadVars => [Chained]_loadVars
  <2> SUFFICES ASSUME LoadInv, [LoadNext]_loadVars PROVE Chained OBVIOUS
  <2> QED BY StepsAre, AtsPollKeeps, PrimePollKeeps, TelemetryPollKeeps, TelemetryWrittenKeeps, OtherStepsKeep
<1>2. LoadSpec => [][Chained]_loadVars
  <2> HIDE DEF Chained
  <2> QED BY <1>1, LoadInvariance, PTL DEF LoadSpec
<1> QED BY <1>2, PTL DEF MessagesFormAChain, Chained

(* The load moves without an event only where the code holds one back       *)
(* (StateMachine._derive_load_source, AtsService._update).                  *)
THEOREM SilenceHasAReason == LoadSpec => SilenceIsExplained
<1> DEFINE Explained == load' # load /\ told' = told /\ told # load' =>
       seen = "unknown" \/ ~before \/ (load' = "utility" /\ (load = "unknown" \/ firmed \in {"boot", "late"}))
<1>1. LoadInv /\ [LoadNext]_loadVars => [Explained]_loadVars
  <2> SUFFICES ASSUME LoadInv, [LoadNext]_loadVars PROVE Explained OBVIOUS
  <2>1. CASE UpdateLoad BY <2>1, UpdateLoadTells DEF LoadInv
  <2>2. CASE load' = load BY <2>2
  <2>3. UpdateLoad \/ load' = load
    BY StepsAre, AtsPollKeeps, TelemetryWrittenKeeps, OtherStepsKeep DEF PrimePoll, TelemetryPoll
  <2> QED BY <2>1, <2>2, <2>3
<1>2. LoadSpec => [][Explained]_loadVars
  <2> HIDE DEF Explained
  <2> QED BY <1>1, LoadInvariance, PTL DEF LoadSpec
<1> QED BY <1>2, PTL DEF SilenceIsExplained, Explained
=============================================================================
