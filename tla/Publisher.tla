----------------------------- MODULE Publisher -----------------------------
(***************************************************************************)
(* The queue of services.mqtt.MqttPublisher, whose worker, backoff and     *)
(* eviction services.slack.SlackNotifier shares line by line: one worker   *)
(* sends the head, a failed send waits for its backoff in a task of its    *)
(* own and goes to the tail again.  A message is numbered when it is       *)
(* queued; the broker keeps the last one it got (retain).                  *)
(***************************************************************************)
EXTENDS Naturals, Sequences

CONSTANTS
  MaxQueue,     \* MAX_QUEUE
  MaxAttempts,  \* MAX_ATTEMPTS
  MaxFailures   \* bound: sends that fail

ASSUME PublisherAssumption ==
  MaxQueue \in Nat \ {0} /\ MaxAttempts \in Nat \ {0} /\ MaxFailures \in Nat

VARIABLES
  queue,     \* _queue
  sending,   \* the message the worker has taken, in a set
  waiting,   \* _retry_tasks: messages in their backoff
  retained,  \* environment: the last message the broker got
  given,     \* history: messages dropped, for whatever reason
  retried,   \* history: messages that failed and were kept
  failures

pipeline == <<queue, sending, waiting>>
pubVars == <<pipeline, retained, given, retried, failures>>

None == [id |-> 0, status |-> "none", attempt |-> 0]

PubInit ==
  /\ queue = << >> /\ sending = {} /\ waiting = {}
  /\ retained = None /\ given = {} /\ retried = {} /\ failures = 0

InQueue == {queue[i] : i \in DOMAIN queue}
InPipeline == InQueue \cup sending \cup waiting

(* _enqueue: the freshest message gets in, a full queue loses its oldest.   *)
Enqueue(m) ==
  IF Len(queue) < MaxQueue THEN queue' = Append(queue, m) /\ given' = given
  ELSE queue' = Append(Tail(queue), m) /\ given' = given \cup {Head(queue).id}

(* _worker: one message at a time.                                          *)
Take ==
  /\ sending = {} /\ queue # << >>
  /\ sending' = {Head(queue)} /\ queue' = Tail(queue)
  /\ UNCHANGED <<waiting, retained, given, retried, failures>>

Sent(m) ==
  /\ m \in sending /\ sending' = {} /\ retained' = m
  /\ UNCHANGED <<queue, waiting, given, retried, failures>>

(* A send fails before or after the broker has the message.  It is tried    *)
(* again until its attempts, or its age, are spent; a refusal is final.     *)
Retries(m, old) == m.attempt + 1 < MaxAttempts /\ ~old

Failed(m, landed, old) ==
  /\ m \in sending /\ sending' = {} /\ failures < MaxFailures /\ failures' = failures + 1
  /\ retained' = IF landed THEN m ELSE retained
  /\ IF Retries(m, old)
     THEN /\ waiting' = waiting \cup {[m EXCEPT !.attempt = @ + 1]}
          /\ retried' = retried \cup {m.id} /\ given' = given
     ELSE given' = given \cup {m.id} /\ UNCHANGED <<waiting, retried>>
  /\ queue' = queue

(* _requeue_after: a retry that finds the queue full is dropped.            *)
Requeue_forgets(m) == queue' = queue /\ given' = given
Requeue(m) ==
  IF Len(queue) < MaxQueue THEN queue' = Append(queue, m) /\ given' = given
                           ELSE queue' = queue /\ given' = given \cup {m.id}

BackoffEnds(m) ==
  /\ m \in waiting /\ waiting' = waiting \ {m}
  /\ Requeue(m)
  /\ UNCHANGED <<sending, retained, retried, failures>>

(* Either outcome of a send is the end of its thread; refusals are among    *)
(* the failures that are too old.                                           *)
SendEnds ==
  \E m \in sending : Sent(m) \/ \E landed, old \in BOOLEAN : Failed(m, landed, old)

PubNext == Take \/ SendEnds \/ \E m \in waiting : BackoffEnds(m)

PubTypeOK ==
  /\ \A m \in InPipeline : m.id \in Nat \ {0} /\ m.attempt \in 0..MaxAttempts - 1
  /\ Len(queue) <= MaxQueue /\ (\A m, n \in sending : m = n)
  /\ failures \in 0..MaxFailures
=============================================================================
