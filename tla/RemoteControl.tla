--------------------------- MODULE RemoteControl ---------------------------
(***************************************************************************)
(* Commands from the console (services.control.ControlService, services.   *)
(* ats_control.AtsControlService, api.control, api.ats and the alarm ack   *)
(* of api.events): an operator fetches a confirm token, submits a command  *)
(* with it, and the service checks its gates, spends the token and writes  *)
(* a register.                                                             *)
(*                                                                         *)
(* Each request is a task of its own.  It awaits three times: the lock of  *)
(* its service, the token store's lock (for an ATS command or an ack) and  *)
(* the wire.  Between two awaits a handler is one step; everything else,   *)
(* polls included, happens between the steps.                              *)
(*                                                                         *)
(* What the polls show of the generator and of the transfer switch is      *)
(* drawn from H100Views and AtsViews, so the bound of the data is there.   *)
(***************************************************************************)
EXTENDS Naturals, FiniteSets

CONSTANTS
  MaxRequest, \* bound: requests that reach the server
  MaxToken,  \* bound: confirm tokens issued
  Admin,     \* operators of the admin role
  Plain,     \* operators of the operator role
  Action,    \* actions submitted: keys of Allowed and AtsSpec, and "ack"
  Scope,     \* what tokens are asked for: actions, and "any"
  H100Views, \* what a poll may show of the generator
  AtsViews,  \* what a poll may show of the ATS-Pi
  Burst,     \* capacity of the command rate limiter
  MaxRefill, \* bound: tokens that time puts back in a limiter's bucket
  MaxPolls   \* bound: polls that change a view

Operator == Admin \cup Plain

(* Requests and tokens are numbered in the order they come; 0 is nobody.    *)
Request == 1..MaxRequest
Token == 1..MaxToken

(* ALLOWED, and ATS_COMMAND_SPECS as far as it decides anything. *)
Allowed == [
  start    |-> {"stopped"},
  stop     |-> {"running", "exercising", "cranking", "cooling", "alarm"},
  exercise |-> {"stopped"},
  transfer |-> {"running"}]

AtsSpec == [
  test           |-> [kind |-> "momentary",  admin |-> FALSE],
  inhibit        |-> [kind |-> "maintained", admin |-> FALSE],
  force_transfer |-> [kind |-> "maintained", admin |-> TRUE],
  bypass_delay   |-> [kind |-> "momentary",  admin |-> FALSE]]

Verb == DOMAIN Allowed
Command == DOMAIN AtsSpec
Maintained == {c \in Command \cap Action : AtsSpec[c].kind = "maintained"}

(* comms; the registers behind engine state and panel mode are fresh; the   *)
(* key switch is in AUTO; the engine's state; the alarm to acknowledge.     *)
H100View == [comms : {"healthy", "degraded", "lost"}, fresh : BOOLEAN, auto : BOOLEAN,
             engine : UNION {Allowed[v] : v \in Verb} \cup {"unknown"}, alarm : BOOLEAN]

(* comms, is_authoritative(), a fault that blocks asserts, normal_available. *)
AtsView == [comms : {"healthy", "degraded", "lost"}, trusted : BOOLEAN,
            fault : BOOLEAN, normal : BOOLEAN]

ASSUME ControlAssumption ==
  /\ Admin \cap Plain = {}
  /\ Action \subseteq Verb \cup Command \cup {"ack"}
  /\ Scope \subseteq Action \cup {"any"}
  /\ H100Views \subseteq H100View /\ AtsViews \subseteq AtsView
  /\ MaxRequest \in Nat /\ MaxToken \in Nat /\ Burst \in Nat \ {0}
  /\ MaxRefill \in Nat /\ MaxPolls \in Nat

VARIABLES
  token,    \* ControlService._tokens, with what became of each token
  req,      \* the requests: what they ask and how far they are
  ctl,      \* who holds ControlService._lock
  ats,      \* who holds AtsControlService._lock
  bucket,   \* RateLimiter: the tokens left to an operator
  h100,     \* the state machine's snapshot
  atsView,  \* AtsService.snap
  relay,    \* environment: the companion's maintained outputs
  shown,    \* their read-back in AtsService.snap
  echo,     \* _cmd_write_monotonic: writes acknowledged in the last 10 s
  aged,     \* history: acknowledged writes that were longer ago than that
  mover,    \* who last moved a maintained output
  polls, refills

locks == <<ctl, ats>>
echoes == <<echo, aged>>
atsVars == <<relay, shown, echoes, mover>>
bounds == <<polls, refills>>
vars == <<token, req, locks, bucket, h100, atsView, atsVars, bounds>>

Unissued == [st |-> "unissued"]
Spent(t) == [st |-> "gone", owner |-> token[t].owner, for |-> token[t].for]
Idle == [at |-> "idle"]

(* A request that was refused, and one whose write was sent. *)
Refused(r) == [at |-> "refused"]
At(r, stage) == [req[r] EXCEPT !.at = stage]

Init ==
  /\ token = [t \in Token |-> Unissued]
  /\ req = [r \in Request |-> Idle]
  /\ ctl = 0 /\ ats = 0
  /\ bucket = [o \in Operator |-> Burst]
  /\ h100 \in H100Views /\ atsView \in AtsViews
  /\ relay = [c \in Maintained |-> FALSE] /\ shown = relay
  /\ echo = {} /\ aged = {} /\ mover = [c \in Maintained |-> 0]
  /\ polls = 0 /\ refills = 0

-----------------------------------------------------------------------------
(* The token store.  A token that has expired is as good as spent: it is    *)
(* evicted by the next use of the store, whoever makes it.                  *)

(* GET /api/control/confirm; the lock is held for the length of the step. *)
IssueToken(t, o, verb) ==
  /\ ctl = 0 /\ token[t] = Unissued /\ \A u \in 1..t-1 : token[u] # Unissued
  /\ token' = [token EXCEPT ![t] = [st |-> "live", owner |-> o, for |-> verb]]
  /\ UNCHANGED <<req, locks, bucket, h100, atsView, atsVars, bounds>>

TokenExpires(t) ==
  /\ token[t].st = "live"
  /\ token' = [token EXCEPT ![t] = Spent(t)]
  /\ UNCHANGED <<req, locks, bucket, h100, atsView, atsVars, bounds>>

(* _consume_token_locked pops the token first: a mismatch spends it too. *)
Consume_reusable(t, o, verb) == token' = token
Consume(t, o, verb) == token' = [token EXCEPT ![t] = Spent(t)]

Accepts(t, o, verb) ==
  token[t].st = "live" /\ token[t].owner = o /\ token[t].for \in {verb, "any"}

-----------------------------------------------------------------------------
(* A request arrives.  The routes ask for a role, and the ATS routes for a  *)
(* token of the operator's rate limiter, before the service is entered.     *)

MayAsk(o, act) == act \in Command /\ AtsSpec[act].admin => o \in Admin

Submit(r, o, act, t, on, override) ==
  /\ token[t] # Unissued /\ req[r] = Idle /\ (\A q \in 1..r-1 : req[q] # Idle) /\ MayAsk(o, act)
  /\ act \notin Maintained => on
  /\ ~(act = "force_transfer" /\ on) => ~override
  /\ IF act \in Command
     THEN IF bucket[o] > 0
          THEN /\ bucket' = [bucket EXCEPT ![o] = @ - 1]
               /\ req' = [req EXCEPT ![r] =
                    [at |-> "wait", by |-> o, act |-> act, tok |-> t, on |-> on, over |-> override]]
          ELSE bucket' = bucket /\ req' = [req EXCEPT ![r] = Refused(r)]
     ELSE /\ bucket' = bucket
          /\ req' = [req EXCEPT ![r] =
               [at |-> "wait", by |-> o, act |-> act, tok |-> t, on |-> on, over |-> override]]
  /\ UNCHANGED <<token, locks, h100, atsView, atsVars, bounds>>

(* Time fills a bucket, to its capacity and no further. *)
Refill(o) == bucket[o] < Burst /\ bucket' = [bucket EXCEPT ![o] = @ + 1]

BucketFills(o) ==
  /\ refills < MaxRefill /\ Refill(o) /\ refills' = refills + 1
  /\ UNCHANGED <<token, req, locks, h100, atsView, atsVars, polls>>

-----------------------------------------------------------------------------
(* ControlService.execute: gates, token and write under one lock. *)

H100Gates(r) ==
  /\ h100.comms = "healthy" /\ h100.fresh /\ h100.auto
  /\ h100.engine \in Allowed[req[r].act]

Waits(r, what) == req[r].at = "wait" /\ req[r].act \in what

ExecuteVerb(r) ==
  /\ Waits(r, Verb) /\ ctl = 0
  /\ \/ /\ ~H100Gates(r)
        /\ req' = [req EXCEPT ![r] = Refused(r)] /\ UNCHANGED <<token, ctl>>
     \/ /\ H100Gates(r)
        /\ Consume(req[r].tok, req[r].by, req[r].act)
        /\ IF Accepts(req[r].tok, req[r].by, req[r].act)
           THEN req' = [req EXCEPT ![r] = At(r, "wire")] /\ ctl' = r
           ELSE req' = [req EXCEPT ![r] = Refused(r)] /\ ctl' = ctl
  /\ UNCHANGED <<ats, bucket, h100, atsView, atsVars, bounds>>

(* The lock is released whether the write is answered or fails; a write that*)
(* was not answered may have landed, which matters for the ATS alone.       *)
Outcome == {"acknowledged", "failed"}
Ended == Outcome \cup {"unanswered"}

WriteVerb(r, outcome) ==
  /\ req[r].at = "wire" /\ req[r].act \in Verb
  /\ req' = [req EXCEPT ![r] = At(r, outcome)]
  /\ ctl' = 0
  /\ UNCHANGED <<token, ats, bucket, h100, atsView, atsVars, bounds>>

-----------------------------------------------------------------------------
(* AtsControlService.execute: its own lock, and the token store's inside.   *)

IsAssert(r) == req[r].act \notin Maintained \/ req[r].on

AtsGates(r) ==
  /\ atsView.comms # "lost"
  /\ IsAssert(r) =>
       /\ atsView.trusted /\ ~atsView.fault
       /\ req[r].act = "force_transfer" /\ ~req[r].over => ~atsView.normal

(* consume_token: the lock is taken and given back within a step. *)
SpendOn(r, next) ==
  /\ Consume(req[r].tok, req[r].by, req[r].act)
  /\ req' = [req EXCEPT ![r] =
       IF Accepts(req[r].tok, req[r].by, req[r].act) THEN At(r, next) ELSE Refused(r)]

LeaveIfRefused_never(r) == ats' = r
LeaveIfRefused(r) == ats' = IF Accepts(req[r].tok, req[r].by, req[r].act) THEN r ELSE 0

ExecuteCommand(r) ==
  /\ Waits(r, Command) /\ ats = 0
  /\ \/ /\ ~AtsGates(r)
        /\ req' = [req EXCEPT ![r] = Refused(r)] /\ UNCHANGED <<token, ats>>
     \/ /\ AtsGates(r) /\ ctl # 0
        /\ req' = [req EXCEPT ![r] = At(r, "token")] /\ ats' = r /\ token' = token
     \/ AtsGates(r) /\ ctl = 0 /\ SpendOn(r, "wire") /\ LeaveIfRefused(r)
  /\ UNCHANGED <<ctl, bucket, h100, atsView, atsVars, bounds>>

TakeToken(r) ==
  /\ req[r].at = "token" /\ ctl = 0
  /\ SpendOn(r, "wire")
  /\ IF req[r].act \in Command THEN LeaveIfRefused(r) ELSE ats' = ats
  /\ UNCHANGED <<ctl, bucket, h100, atsView, atsVars, bounds>>

(* note_command_write follows an acknowledged write at once. *)
NoteWrite_skipped(c, on) == UNCHANGED echoes
NoteWrite(c, on) == echo' = echo \cup {<<c, on>>} /\ aged' = aged \ {<<c, on>>}

(* The companion drives the output before it answers; the client's lock is  *)
(* held until the answer or the timeout.                                    *)
CommandLands(r) ==
  /\ req[r].at = "wire" /\ req[r].act \in Command
  /\ req' = [req EXCEPT ![r] = At(r, "landed")]
  /\ IF req[r].act \in Maintained /\ relay[req[r].act] # req[r].on
     THEN /\ relay' = [relay EXCEPT ![req[r].act] = req[r].on]
          /\ mover' = [mover EXCEPT ![req[r].act] = r]
     ELSE UNCHANGED <<relay, mover>>
  /\ UNCHANGED <<token, locks, bucket, h100, atsView, shown, echoes, bounds>>

EndCommand(r, outcome) ==
  /\ req[r].at = IF outcome = "failed" THEN "wire" ELSE "landed"
  /\ req[r].act \in Command
  /\ req' = [req EXCEPT ![r] = At(r, outcome)]
  /\ ats' = 0
  /\ IF outcome = "acknowledged" /\ req[r].act \in Maintained
     THEN NoteWrite(req[r].act, req[r].on) ELSE UNCHANGED echoes
  /\ UNCHANGED <<token, ctl, bucket, h100, atsView, relay, shown, mover, bounds>>

-----------------------------------------------------------------------------
(* ack_alarm: no lock of its own.  The link is checked before the token and *)
(* the alarm's row is deleted after an acknowledged write.                  *)

AckAlarm(r) ==
  /\ Waits(r, {"ack"})
  /\ IF h100.alarm /\ h100.comms # "lost"
     THEN IF ctl = 0 THEN SpendOn(r, "wire")
                          ELSE req' = [req EXCEPT ![r] = At(r, "token")] /\ token' = token
     ELSE req' = [req EXCEPT ![r] = Refused(r)] /\ token' = token
  /\ UNCHANGED <<locks, bucket, h100, atsView, atsVars, bounds>>

WriteAck(r, outcome) ==
  /\ req[r].at = "wire" /\ req[r].act = "ack"
  /\ req' = [req EXCEPT ![r] = At(r, outcome)]
  /\ h100' = IF outcome = "acknowledged" THEN [h100 EXCEPT !.alarm = FALSE] ELSE h100
  /\ UNCHANGED <<token, locks, bucket, atsView, atsVars, bounds>>

-----------------------------------------------------------------------------
(* Polls, and what moves the companion's outputs besides GenWatch.          *)

PollH100(view) ==
  /\ polls < MaxPolls /\ view # h100 /\ h100' = view
  /\ polls' = polls + 1
  /\ UNCHANGED <<token, req, locks, bucket, atsView, atsVars, refills>>

AtsChanges(view) ==
  /\ polls < MaxPolls /\ view # atsView /\ atsView' = view /\ polls' = polls + 1
  /\ UNCHANGED <<token, req, locks, bucket, h100, atsVars, refills>>

(* A foreign client, the watchdog's release or a restart of the companion. *)
StrangerMoves(c) ==
  /\ polls < MaxPolls /\ polls' = polls + 1
  /\ relay' = [relay EXCEPT ![c] = ~@] /\ mover' = [mover EXCEPT ![c] = 0]
  /\ UNCHANGED <<token, req, locks, bucket, h100, atsView, shown, echoes, refills>>

(* _check_maintained_cmd_edges: an edge that echoes no write is reported. *)
Reported(c) == relay[c] # shown[c] /\ <<c, relay[c]>> \notin echo

(* The poll and the write share the client's lock, so neither overlaps the  *)
(* other; the read-back is not refreshed while the link is lost.            *)
WireFree == \A r \in Request : req[r].at # "landed"

PollAts ==
  /\ WireFree
  /\ atsView.comms # "lost" /\ shown # relay
  /\ shown' = relay
  /\ UNCHANGED <<token, req, locks, bucket, h100, atsView, relay, echoes, mover, bounds>>

(* _CMD_ECHO_WINDOW_S: 10 s later the write is forgotten, whether a poll    *)
(* has shown it or not.                                                     *)
EchoAges(c, on) ==
  /\ <<c, on>> \in echo
  /\ echo' = echo \ {<<c, on>>} /\ aged' = aged \cup {<<c, on>>}
  /\ UNCHANGED <<token, req, locks, bucket, h100, atsView, relay, shown, mover, bounds>>

-----------------------------------------------------------------------------
Handle(r) ==
  \/ ExecuteVerb(r)
  \/ ExecuteCommand(r)
  \/ AckAlarm(r)
  \/ TakeToken(r)
  \/ CommandLands(r)
  \/ \E outcome \in Outcome : WriteVerb(r, outcome) \/ WriteAck(r, outcome)
  \/ \E outcome \in Ended : EndCommand(r, outcome)

Next ==
  \/ \E t \in Token, o \in Operator, verb \in Scope : IssueToken(t, o, verb)
  \/ \E t \in Token : TokenExpires(t)
  \/ \E r \in Request, o \in Operator, act \in Action, t \in Token, on, override \in BOOLEAN :
       Submit(r, o, act, t, on, override)
  \/ \E o \in Operator : BucketFills(o)
  \/ \E r \in Request : Handle(r)
  \/ \E view \in H100Views : PollH100(view)
  \/ \E view \in AtsViews : AtsChanges(view)
  \/ \E c \in Maintained : StrangerMoves(c) \/ \E on \in BOOLEAN : EchoAges(c, on)
  \/ PollAts

Spec == Init /\ [][Next]_vars

(* The loop runs a handler that can go on, and a write ends by its answer   *)
(* or by its timeout.  That it is each one's turn some time (asyncio.Lock   *)
(* serves its waiters in order) is not needed for a bounded number.         *)
FairSpec == Spec /\ WF_vars(\E r \in Request : Handle(r))

-----------------------------------------------------------------------------
Written == {"wire", "landed"} \cup Ended

Asked == [at : {"wait", "token"} \cup Written, by : Operator, act : Action, tok : Token,
          on : BOOLEAN, over : BOOLEAN]

TypeOK ==
  /\ token \in [Token -> {Unissued} \cup
       [st : {"live", "gone"}, owner : Operator, for : Scope]]
  /\ req \in [Request -> {Idle} \cup [at : {"refused"}] \cup Asked]
  /\ ctl \in Request \cup {0} /\ ats \in Request \cup {0}
  /\ bucket \in [Operator -> 0..Burst]
  /\ h100 \in H100View /\ atsView \in AtsView
  /\ relay \in [Maintained -> BOOLEAN] /\ shown \in [Maintained -> BOOLEAN]
  /\ echo \subseteq Maintained \X BOOLEAN /\ aged \subseteq Maintained \X BOOLEAN
  /\ mover \in [Maintained -> Request \cup {0}]
  /\ polls \in 0..MaxPolls /\ refills \in 0..MaxRefill

(* A token pays for one write: two requests that reach a wire, on whichever *)
(* surface, were confirmed separately.  The store is shared by three        *)
(* services and an ATS command takes its token after other awaits.          *)
OneWritePerToken ==
  \A r, q \in Request :
    req[r].at \in Written /\ req[q].at \in Written /\ r # q => req[r].tok # req[q].tok

(* What reaches a wire was confirmed by the operator who asks for it and    *)
(* for this action, however long it queued between the two.                 *)
WriteWasConfirmed ==
  \A r \in Request : req[r].at \in Written =>
    /\ token[req[r].tok].st = "gone"
    /\ token[req[r].tok].owner = req[r].by
    /\ token[req[r].tok].for \in {req[r].act, "any"}

(* Between its gates and the end of its write a command is alone on its     *)
(* surface: no other has passed the gates on the same snapshot.             *)
AloneOnSurface ==
  \A r, q \in Request : \A surface \in {Verb, Command} :
    /\ req[r].at \in {"wire", "landed"} /\ req[r].act \in surface
    /\ req[q].at \in {"token", "wire", "landed"} /\ req[q].act \in surface
    => r = q

(* The lock of a service is held by a request of that service that has not  *)
(* ended, so that no outcome leaves a lock behind.                          *)
LockIsInUse ==
  /\ ctl # 0 => req[ctl].at = "wire" /\ req[ctl].act \in Verb
  /\ ats # 0 => req[ats].at \in {"token", "wire", "landed"} /\ req[ats].act \in Command

(* An operator's ATS commands on the wire never outnumber the limiter's     *)
(* burst and what time has given back since (api.ats._run, RateLimiter).    *)
RateIsBounded ==
  \A o \in Operator :
    bucket[o] + Cardinality({r \in Request : req[r].at \in Written /\ req[r].by = o
                                              /\ req[r].act \in Command}) <= Burst + refills

(* Commands are confirmed once, by the right operator, one at a time and no *)
(* faster than the limiter allows (execute, consume_token, ats._run).      *)
CommandSafety ==
  TypeOK /\ OneWritePerToken /\ WriteWasConfirmed /\ AloneOnSurface
  /\ LockIsInUse /\ RateIsBounded

(* The change a poll finds is not reported as a stranger's when it is the   *)
(* echo of a write that the companion has acknowledged within the window,   *)
(* or may still acknowledge: the write is noted after its await, and no     *)
(* poll comes between the two (note_command_write,                          *)
(* _check_maintained_cmd_edges).                                            *)
Acknowledged(c) == mover[c] # 0 /\ req[mover[c]].at # "unanswered"

OwnEchoIsKnown ==
  [][PollAts => \A c \in Maintained :
       Reported(c) => ~Acknowledged(c) \/ <<c, relay[c]>> \in aged]_vars

(* Every request ends, written or refused, and then none is under way: the  *)
(* ATS lock is held while waiting for the store's lock, and nobody waits    *)
(* the other way round or keeps a lock behind.                              *)
EveryRequestEnds ==
  []<>(\A r \in Request : req[r].at \in {"idle", "refused"} \cup Ended)

-----------------------------------------------------------------------------
(* What the source says and the code does not do.                           *)

(* ats.py: the window has "generous slack for a degraded link", and edges   *)
(* outside it "were initiated by something else".  A link may be lost for   *)
(* longer and come back: the next poll then takes our own command for a     *)
(* stranger's.                                                              *)
OwnEchoIsNeverReported ==
  [][PollAts => \A c \in Maintained : Reported(c) => ~Acknowledged(c)]_vars

(* control.py: under the lock "the gate is evaluated against the latest     *)
(* poll result".  What a poll finds between the gates and the write, which  *)
(* may wait long for the client, stops nothing.                             *)
GatesHoldAtWrite ==
  [][\A r \in Request : req[r].at = "wire" /\ req'[r].at \in {"landed", "acknowledged"} =>
       /\ req[r].act \in Verb => H100Gates(r)
       /\ req[r].act \in Command => AtsGates(r)]_vars

(* control.py: without the lock two operators could "both end up writing    *)
(* remote_start".  They still do: the second is gated on an engine state    *)
(* that no poll has read since the first was written.                       *)
SecondStartIsRefused ==
  LET starts == {r \in Request : req[r].at = "acknowledged" /\ req[r].act = "start"}
  IN  polls = 0 => \A r, q \in starts : r = q
=============================================================================
