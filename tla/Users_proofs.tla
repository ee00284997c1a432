---------------------------- MODULE Users_proofs ----------------------------
(***************************************************************************)
(* What services.users and services.session promise of accounts, for any   *)
(* accounts, sessions, limits and operations.                              *)
(*                                                                         *)
(* Accounts: a statement of one process falls between any two of the       *)
(* other's, so the invariant says of each job what its statements that are *)
(* left rest on: that its account's epoch has not gone back, that the      *)
(* sessions somebody was told of are revoked or will be by this job, that  *)
(* a removal that has passed the last-admin check still leaves an admin.   *)
(* Each kind of statement and each request has one lemma for the part of   *)
(* the invariant it can disturb.                                           *)
(*                                                                         *)
(* SignIn: a code that was spent is behind the last counter or out of the  *)
(* recovery codes.                                                         *)
(***************************************************************************)
EXTENDS Accounts, SignIn, TLAPS

(* Types: the rows of the two tables, and the jobs.                         *)
UserRow == [there : BOOLEAN, admin : BOOLEAN, disabled : BOOLEAN, epoch : Nat, pw : Nat]
SessionRow ==
  [row : {"live", "revoked"}, user : Account, epoch : Nat, pw : Nat, raced : BOOLEAN,
   remember : BOOLEAN, left : Nat, quiet : Nat, away : Nat]
(* The statements a job may still have to run: its list's suffixes.         *)
Plan(op) ==
  CASE op = "password" -> {<<"set_password", "revoke_all">>, <<"revoke_all">>}
    [] op = "change" -> {<<"set_password", "revoke_all", "reread", "open">>,
                         <<"revoke_all", "reread", "open">>, <<"reread", "open">>, <<"open">>}
    [] op = "login" -> {<<"reread", "open">>, <<"open">>}
    [] op = "renew" -> {<<"reread", "extend">>, <<"extend">>}
    [] op = "disable" -> {<<"check", "set_disabled", "revoke_all", "bump">>,
                          <<"set_disabled", "revoke_all", "bump">>, <<"revoke_all", "bump">>,
                          <<"bump">>}
    [] op = "revoke" -> {<<"revoke_all", "bump">>, <<"bump">>}
    [] op = "demote" -> {<<"check", "demote">>, <<"demote">>}
    [] op = "delete" -> {<<"check", "delete">>, <<"delete">>}
    [] op = "enable" -> {<<"enable">>}
    [] op = "promote" -> {<<"promote">>}

Pending(p) == IF job[p] = NoJob THEN {} ELSE {job[p].todo[i] : i \in DOMAIN job[p].todo}

Op == Operation \cup {"login", "change", "renew"}
JobRow ==
  [op : Op, user : Account, todo : UNION {Plan(op) : op \in Op}, jti : Session \cup {0},
   keep : BOOLEAN, admin : BOOLEAN, epoch : Nat, pw : Nat, told : SUBSET Session]

JobsTyped ==
  /\ job \in [Process -> JobRow \cup {NoJob}]
  /\ \A p \in Process : job[p] # NoJob => job[p].todo \in Plan(job[p].op)
  /\ job["cli"] # NoJob => job["cli"].op \in Operation

SessionsTyped == session \in [Session -> SessionRow \cup {Unborn, Deleted}]

Typed ==
  /\ users \in [Account -> UserRow] /\ SessionsTyped /\ JobsTyped
  /\ ticket \in {NoTicket} \cup [jti : Session, user : Account, admin : BOOLEAN]
  /\ bumps \in 0..MaxBumps /\ ended \subseteq Session /\ overlap \in BOOLEAN

(* The bumps that are counted cover the epochs of the accounts and the ones *)
(* that jobs have still to make.                                            *)
Owes(p, u) ==
  IF Pending(p) \cap {"set_password", "bump"} # {} /\ job[p].user = u THEN 1 ELSE 0
EpochsCovered ==
  \A u \in Account : /\ users[u].epoch + Owes("server", u) + Owes("cli", u) <= bumps
                     /\ users[u].pw <= users[u].epoch

(* A session has an account, and was opened no later than its epoch; so has *)
(* a job, and a renewal is of its own account's remembered session.         *)
RowBelongs(j) ==
  Row(j) =>
    /\ session[j].left <= Lifetime(session[j].remember)
    /\ users[session[j].user].there /\ session[j].epoch <= users[session[j].user].epoch
JobBelongs(p) ==
  Pending(p) # {} =>
    /\ users[job[p].user].there => job[p].epoch <= users[job[p].user].epoch
    /\ job[p].op = "renew" =>
         /\ job[p].jti \in Session /\ session[job[p].jti] # Unborn
         /\ Row(job[p].jti) => /\ session[job[p].jti].user = job[p].user
                               /\ session[job[p].jti].remember
RowsBelong == (\A j \in Session : RowBelongs(j)) /\ (\A p \in Process : JobBelongs(p))

(* A session that was declared over is revoked, deleted or fails validation *)
(* in every other way; one that a job says it ends will be by that job.     *)
Gone(j) == session[j].row \in {"revoked", "deleted"}
EndedIsOver == \A j \in ended : Gone(j) \/ Over(session[j])
ToldIsEnded ==
  \A p \in Process : Pending(p) # {} =>
    \A j \in job[p].told :
      /\ session[j] # Unborn
      /\ Row(j) => session[j].user = job[p].user
      /\ "revoke_all" \in Pending(p) \/ Gone(j)

(* A live session of the account's epoch was opened with today's password,  *)
(* unless the job that set the password is about to revoke it; a renewal in *)
(* progress extends no other.                                               *)
Sets == {"password", "change"}
OfToday(j) == session[j].raced \/ session[j].pw = users[session[j].user].pw
Resetting(j) ==
  \E p \in Process : /\ "revoke_all" \in Pending(p) /\ "set_password" \notin Pending(p)
                     /\ job[p].op \in Sets /\ j \in job[p].told
Live(j) == session[j].row = "live"
LiveIsCurrent ==
  \A j \in Session : Live(j) /\ session[j].epoch = users[session[j].user].epoch =>
    OfToday(j) \/ Resetting(j)
Renews(j) == Pending("server") # {} /\ job["server"].op = "renew" /\ job["server"].jti = j
RenewsCurrent ==
  \A j \in Session : Live(j) /\ Renews(j) =>
    /\ "reread" \in Pending("server") => OfToday(j) \/ Resetting(j)
    /\ "reread" \notin Pending("server") /\ job["server"].epoch = users[session[j].user].epoch =>
         OfToday(j) \/ Resetting(j)
RenewalIsTold ==
  \A p \in Process : "set_password" \in Pending(p) =>
    \A j \in Session : Live(j) /\ session[j].user = job[p].user /\ j \notin job[p].told =>
      /\ ~Renews(j)
      /\ session[j].remember => session[j].left = Long

(* A removal that has passed the check, or will not be checked, leaves an   *)
(* enabled admin.                                                           *)
OtherAdmin(u) == \E v \in Account \ {u} : EnabledAdmin(v)
RemovalIsSafe ==
  \A p \in Process : Pending(p) # {} =>
    /\ job[p].admin => "check" \in Pending(p)
    /\ Pending(p) \cap Removal # {} /\ ~job[p].admin => overlap \/ OtherAdmin(job[p].user)

(* A remembered session in use has more than half of its life left, or is   *)
(* being renewed, or its account is being disabled from the shell.          *)
Disabling(u) ==
  /\ "revoke_all" \in Pending("cli") /\ "set_disabled" \notin Pending("cli")
  /\ job["cli"].op = "disable" /\ job["cli"].user = u
RenewsInTime ==
  \A j \in Session : Live(j) /\ session[j].remember /\ session[j].away <= Habit =>
    /\ session[j].left > 0
    /\ session[j].left + session[j].away > Habit \/ Renews(j) \/ Disabling(session[j].user)
RenewsEnabled ==
  \A j \in Session : Live(j) /\ Renews(j) =>
    ~users[session[j].user].disabled \/ Disabling(session[j].user)

Inv == /\ Typed /\ EpochsCovered /\ RowsBelong /\ EndedIsOver /\ ToldIsEnded
       /\ LiveIsCurrent /\ RenewsCurrent /\ RenewalIsTold
       /\ AdminRemains /\ RemovalIsSafe /\ RenewsInTime /\ RenewsEnabled

-----------------------------------------------------------------------------
(* The statements that a job has still to run: an element of Plan, as a set *)
(* and as a sequence.                                                       *)
Elements(t) == {t[i] : i \in DOMAIN t}

LEMMA Tuples ==
  /\ Elements(<<"set_password", "revoke_all">>) = {"set_password", "revoke_all"}
  /\ Elements(<<"revoke_all">>) = {"revoke_all"}
  /\ Elements(<<"set_password", "revoke_all", "reread", "open">>) = {"set_password", "revoke_all", "reread", "open"}
  /\ Elements(<<"revoke_all", "reread", "open">>) = {"revoke_all", "reread", "open"}
  /\ Elements(<<"reread", "open">>) = {"reread", "open"}
  /\ Elements(<<"open">>) = {"open"}
  /\ Elements(<<"reread", "extend">>) = {"reread", "extend"}
  /\ Elements(<<"extend">>) = {"extend"}
  /\ Elements(<<"check", "set_disabled", "revoke_all", "bump">>) = {"check", "set_disabled", "revoke_all", "bump"}
  /\ Elements(<<"set_disabled", "revoke_all", "bump">>) = {"set_disabled", "revoke_all", "bump"}
  /\ Elements(<<"revoke_all", "bump">>) = {"revoke_all", "bump"}
  /\ Elements(<<"bump">>) = {"bump"}
  /\ Elements(<<"check", "demote">>) = {"check", "demote"}
  /\ Elements(<<"demote">>) = {"demote"}
  /\ Elements(<<"check", "delete">>) = {"check", "delete"}
  /\ Elements(<<"delete">>) = {"delete"}
  /\ Elements(<<"enable">>) = {"enable"}
  /\ Elements(<<"promote">>) = {"promote"}
BY DEF Elements

(* What is left of a job says which operation it is, and how far it is.     *)
Ordered(s, left) ==
  /\ s \in left
  /\ "set_password" \in left => s = "set_password"
  /\ "check" \in left => s = "check"
  /\ "revoke_all" \in left => s \in {"set_password", "check", "set_disabled", "revoke_all"}
  /\ "set_disabled" \in left => s \in {"check", "set_disabled"}
  /\ "reread" \in left => s \in {"set_password", "revoke_all", "reread"}

Fits(op, left) ==
  /\ "set_password" \in left => op \in {"password", "change"} /\ "revoke_all" \in left
  /\ "revoke_all" \in left => op \in {"password", "change", "disable", "revoke"}
  /\ "bump" \in left => op \in {"disable", "revoke"} /\ "set_password" \notin left
  /\ "check" \in left => op \in {"disable", "demote", "delete"}
  /\ "set_disabled" \in left => op = "disable" /\ "revoke_all" \in left
  /\ "demote" \in left => op = "demote"
  /\ "delete" \in left => op = "delete"
  /\ "enable" \in left => op = "enable"
  /\ "promote" \in left => op = "promote"
  /\ "reread" \in left => op \in {"change", "login", "renew"}
  /\ "open" \in left => op \in {"change", "login"}
  /\ "extend" \in left => op = "renew"
  /\ op = "renew" => "extend" \in left
  /\ "check" \in left => left \cap Removal # {}

Step(op, t) ==
  /\ Ordered(Head(t), Elements(t)) /\ Fits(op, Elements(t))
  /\ Tail(t) = << >> => Elements(t) = {Head(t)}
  /\ Tail(t) # << >> => Tail(t) \in Plan(op) /\ Elements(Tail(t)) = Elements(t) \ {Head(t)}

LEMMA Plans ==
  ASSUME NEW op \in Op, NEW t \in Plan(op)
  PROVE  Step(op, t)
<1>1. CASE op = "password"
  <2>1. Plan(op) = {<<"set_password", "revoke_all">>,
                    <<"revoke_all">>}
    BY <1>1 DEF Plan
  <2>2. Step(op, <<"set_password", "revoke_all">>)
    BY <1>1, <2>1, Tuples DEF Step, Ordered, Fits, Removal
  <2>3. Step(op, <<"revoke_all">>)
    BY <1>1, <2>1, Tuples DEF Step, Ordered, Fits, Removal
  <2> QED BY <2>1, <2>2, <2>3
<1>2. CASE op = "change"
  <2>1. Plan(op) = {<<"set_password", "revoke_all", "reread", "open">>,
                    <<"revoke_all", "reread", "open">>,
                    <<"reread", "open">>,
                    <<"open">>}
    BY <1>2 DEF Plan
  <2>2. Step(op, <<"set_password", "revoke_all", "reread", "open">>)
    BY <1>2, <2>1, Tuples DEF Step, Ordered, Fits, Removal
  <2>3. Step(op, <<"revoke_all", "reread", "open">>)
    BY <1>2, <2>1, Tuples DEF Step, Ordered, Fits, Removal
  <2>4. Step(op, <<"reread", "open">>)
    BY <1>2, <2>1, Tuples DEF Step, Ordered, Fits, Removal
  <2>5. Step(op, <<"open">>)
    BY <1>2, <2>1, Tuples DEF Step, Ordered, Fits, Removal
  <2> QED BY <2>1, <2>2, <2>3, <2>4, <2>5
<1>3. CASE op = "login"
  <2>1. Plan(op) = {<<"reread", "open">>,
                    <<"open">>}
    BY <1>3 DEF Plan
  <2>2. Step(op, <<"reread", "open">>)
    BY <1>3, <2>1, Tuples DEF Step, Ordered, Fits, Removal
  <2>3. Step(op, <<"open">>)
    BY <1>3, <2>1, Tuples DEF Step, Ordered, Fits, Removal
  <2> QED BY <2>1, <2>2, <2>3
<1>4. CASE op = "renew"
  <2>1. Plan(op) = {<<"reread", "extend">>,
                    <<"extend">>}
    BY <1>4 DEF Plan
  <2>2. Step(op, <<"reread", "extend">>)
    BY <1>4, <2>1, Tuples DEF Step, Ordered, Fits, Removal
  <2>3. Step(op, <<"extend">>)
    BY <1>4, <2>1, Tuples DEF Step, Ordered, Fits, Removal
  <2> QED BY <2>1, <2>2, <2>3
<1>5. CASE op = "disable"
  <2>1. Plan(op) = {<<"check", "set_disabled", "revoke_all", "bump">>,
                    <<"set_disabled", "revoke_all", "bump">>,
                    <<"revoke_all", "bump">>,
                    <<"bump">>}
    BY <1>5 DEF Plan
  <2>2. Step(op, <<"check", "set_disabled", "revoke_all", "bump">>)
    BY <1>5, <2>1, Tuples DEF Step, Ordered, Fits, Removal
  <2>3. Step(op, <<"set_disabled", "revoke_all", "bump">>)
    BY <1>5, <2>1, Tuples DEF Step, Ordered, Fits, Removal
  <2>4. Step(op, <<"revoke_all", "bump">>)
    BY <1>5, <2>1, Tuples DEF Step, Ordered, Fits, Removal
  <2>5. Step(op, <<"bump">>)
    BY <1>5, <2>1, Tuples DEF Step, Ordered, Fits, Removal
  <2> QED BY <2>1, <2>2, <2>3, <2>4, <2>5
<1>6. CASE op = "revoke"
  <2>1. Plan(op) = {<<"revoke_all", "bump">>,
                    <<"bump">>}
    BY <1>6 DEF Plan
  <2>2. Step(op, <<"revoke_all", "bump">>)
    BY <1>6, <2>1, Tuples DEF Step, Ordered, Fits, Removal
  <2>3. Step(op, <<"bump">>)
    BY <1>6, <2>1, Tuples DEF Step, Ordered, Fits, Removal
  <2> QED BY <2>1, <2>2, <2>3
<1>7. CASE op = "demote"
  <2>1. Plan(op) = {<<"check", "demote">>,
                    <<"demote">>}
    BY <1>7 DEF Plan
  <2>2. Step(op, <<"check", "demote">>)
    BY <1>7, <2>1, Tuples DEF Step, Ordered, Fits, Removal
  <2>3. Step(op, <<"demote">>)
    BY <1>7, <2>1, Tuples DEF Step, Ordered, Fits, Removal
  <2> QED BY <2>1, <2>2, <2>3
<1>8. CASE op = "delete"
  <2>1. Plan(op) = {<<"check", "delete">>,
                    <<"delete">>}
    BY <1>8 DEF Plan
  <2>2. Step(op, <<"check", "delete">>)
    BY <1>8, <2>1, Tuples DEF Step, Ordered, Fits, Removal
  <2>3. Step(op, <<"delete">>)
    BY <1>8, <2>1, Tuples DEF Step, Ordered, Fits, Removal
  <2> QED BY <2>1, <2>2, <2>3
<1>9. CASE op = "enable"
  <2>1. Plan(op) = {<<"enable">>}
    BY <1>9 DEF Plan
  <2>2. Step(op, <<"enable">>)
    BY <1>9, <2>1, Tuples DEF Step, Ordered, Fits, Removal
  <2> QED BY <2>1, <2>2
<1>10. CASE op = "promote"
  <2>1. Plan(op) = {<<"promote">>}
    BY <1>10 DEF Plan
  <2>2. Step(op, <<"promote">>)
    BY <1>10, <2>1, Tuples DEF Step, Ordered, Fits, Removal
  <2> QED BY <2>1, <2>2
<1> QED BY <1>1, <1>2, <1>3, <1>4, <1>5, <1>6, <1>7, <1>8, <1>9, <1>10 DEF Op, Operation

(* A job that has begun is at one of its stages. *)
LEMMA JobStage ==
  ASSUME JobsTyped, NEW p \in Process
  PROVE  /\ job[p] = NoJob <=> Pending(p) = {}
         /\ Pending(p) # {} => /\ job[p] \in JobRow /\ Fits(job[p].op, Pending(p))
                               /\ p = "cli" => job[p].op \in Operation
                               /\ Step(job[p].op, job[p].todo)
                               /\ job[p].todo \in Plan(job[p].op)
                               /\ Pending(p) = Elements(job[p].todo)
                               /\ Ordered(Head(job[p].todo), Pending(p))
<1>1. CASE job[p] = NoJob BY <1>1 DEF Pending
<1>2. CASE job[p] # NoJob
  <2>1. job[p] \in JobRow /\ job[p].todo \in Plan(job[p].op)
        /\ (p = "cli" => job[p].op \in Operation)
    BY <1>2 DEF JobsTyped
  <2>2. Pending(p) = Elements(job[p].todo) BY <1>2 DEF Pending, Elements
  <2>3. job[p].op \in Op BY <2>1 DEF JobRow
  <2>4. Step(job[p].op, job[p].todo) BY <2>1, <2>3, Plans
  <2> QED BY <1>2, <2>1, <2>2, <2>4 DEF Ordered, Step
<1> QED BY <1>1, <1>2

(* The next statement is the head of what is pending.                       *)
LEMMA NextStatement ==
  ASSUME JobsTyped, NEW p \in Process, NEW s, At(p, s)
  PROVE  /\ s \in Pending(p) /\ Ordered(s, Pending(p)) /\ Fits(job[p].op, Pending(p))
         /\ job[p] \in JobRow /\ (p = "cli" => job[p].op \in Operation)
<1>1. job[p] # NoJob /\ Head(job[p].todo) = s BY DEF At
<1> QED BY <1>1, JobStage DEF Ordered

-----------------------------------------------------------------------------
(* What a step does to the jobs.                                            *)
OthersGoOn(p) == \A q \in Process \ {p} : job'[q] = job[q] /\ Pending(q)' = Pending(q)

(* Process p has run statement s of its job, or has given it up.            *)
Moves(p, s) ==
  /\ OthersGoOn(p)
  /\ Pending(p)' # {} =>
       /\ Pending(p)' = Pending(p) \ {s}
       /\ job'[p].op = job[p].op /\ job'[p].user = job[p].user
       /\ job'[p].jti = job[p].jti /\ job'[p].told = job[p].told

LEMMA JobSet ==
  ASSUME JobsTyped, NEW p \in Process, NEW x \in JobRow \cup {NoJob},
         x # NoJob => x.todo \in Plan(x.op) /\ (p = "cli" => x.op \in Operation),
         job' = [job EXCEPT ![p] = x]
  PROVE  /\ JobsTyped' /\ OthersGoOn(p) /\ job'[p] = x
         /\ Pending(p)' = IF x = NoJob THEN {} ELSE Elements(x.todo)
<1>1. job'[p] = x /\ \A q \in Process \ {p} : job'[q] = job[q] BY DEF JobsTyped
<1>2. JobsTyped'
  <2>1. job' \in [Process -> JobRow \cup {NoJob}] BY DEF JobsTyped
  <2>2. \A q \in Process : job'[q] # NoJob => job'[q].todo \in Plan(job'[q].op)
    BY <1>1 DEF JobsTyped
  <2>3. job'["cli"] # NoJob => job'["cli"].op \in Operation BY <1>1 DEF JobsTyped, Process
  <2> QED BY <2>1, <2>2, <2>3 DEF JobsTyped
<1> QED BY <1>1, <1>2 DEF OthersGoOn, Pending, Elements

LEMMA NoRow == \A x \in JobRow : x # NoJob
<1> SUFFICES ASSUME NEW x \in JobRow, x = NoJob PROVE FALSE OBVIOUS
<1>1. x.op \in Op BY DEF JobRow
<1> QED BY <1>1 DEF Op, Operation, NoJob

LEMMA GoesOn ==
  ASSUME JobsTyped, NEW p \in Process, NEW s, At(p, s), NEW j \in JobRow,
         j.op = job[p].op, j.todo = job[p].todo, GoOn(p, j)
  PROVE  /\ JobsTyped' /\ OthersGoOn(p) /\ Pending(p)' = Pending(p) \ {s}
         /\ Pending(p)' # {} =>
              /\ job'[p].op = j.op /\ job'[p].user = j.user /\ job'[p].jti = j.jti
              /\ job'[p].keep = j.keep /\ job'[p].admin = j.admin /\ job'[p].epoch = j.epoch
              /\ job'[p].pw = j.pw /\ job'[p].told = j.told
         /\ ended' = IF Pending(p)' = {} THEN ended \cup j.told ELSE ended
<1>1. /\ Step(j.op, j.todo) /\ Pending(p) = Elements(j.todo) /\ Head(j.todo) = s
      /\ p = "cli" => j.op \in Operation
  BY NextStatement, JobStage DEF At
<1>2. CASE Tail(j.todo) = << >>
  <2>1. job' = [job EXCEPT ![p] = NoJob] /\ ended' = ended \cup j.told BY <1>2 DEF GoOn
  <2>2. JobsTyped' /\ OthersGoOn(p) /\ Pending(p)' = {} BY <2>1, JobSet
  <2> QED BY <1>1, <1>2, <2>1, <2>2 DEF Step
<1>3. CASE Tail(j.todo) # << >>
  <2> DEFINE x == [j EXCEPT !.todo = Tail(j.todo)]
  <2>1. job' = [job EXCEPT ![p] = x] /\ ended' = ended BY <1>3 DEF GoOn
  <2>2. Tail(j.todo) \in Plan(j.op) /\ j.op \in Op BY <1>1, <1>3 DEF Step, JobRow
  <2>3. Tail(j.todo) \in UNION {Plan(op) : op \in Op} BY <2>2
  <2>4. /\ x \in JobRow /\ x.todo = Tail(j.todo) /\ x.op = j.op /\ x.user = j.user
        /\ x.jti = j.jti /\ x.keep = j.keep /\ x.admin = j.admin /\ x.epoch = j.epoch
        /\ x.pw = j.pw /\ x.told = j.told
    BY <2>3 DEF JobRow
  <2> HIDE DEF x
  <2>5. /\ JobsTyped' /\ OthersGoOn(p) /\ job'[p] = x
        /\ Pending(p)' = IF x = NoJob THEN {} ELSE Elements(x.todo)
    BY <1>1, <2>1, <2>2, <2>4, JobSet
  <2>6. Pending(p)' = Pending(p) \ {s} BY <1>1, <1>3, <2>4, <2>5, NoRow DEF Step
  <2>7. Pending(p)' # {}
    <3>1. Step(x.op, x.todo) BY <2>2, <2>4, Plans
    <3> QED BY <2>4, <2>5, <3>1, NoRow DEF Step, Ordered
  <2> QED BY <2>1, <2>4, <2>5, <2>6, <2>7
<1> QED BY <1>2, <1>3

LEMMA GivesUp ==
  ASSUME JobsTyped, NEW p \in Process, Abort(p)
  PROVE  JobsTyped' /\ OthersGoOn(p) /\ Pending(p)' = {} /\ ended' = ended
BY JobSet DEF Abort

LEMMA JobsStay ==
  ASSUME JobsTyped, UNCHANGED job
  PROVE  JobsTyped' /\ \A q \in Process : job'[q] = job[q] /\ Pending(q)' = Pending(q)
BY DEF JobsTyped, Pending

(* The jobs that begin. *)
LEMMA Lists ==
  /\ \A op \in Operation : Statements(op) \in Plan(op)
  /\ <<"reread", "open">> \in Plan("login") /\ <<"reread", "extend">> \in Plan("renew")
  /\ <<"set_password", "revoke_all", "reread", "open">> \in Plan("change")
<1>1. ASSUME NEW op \in Operation PROVE Statements(op) \in Plan(op)
  <2>1. CASE op = "password" BY <2>1 DEF Statements, Plan
  <2>2. CASE op = "disable" BY <2>2 DEF Statements, Plan
  <2>3. CASE op = "revoke" BY <2>3 DEF Statements, Plan
  <2>4. CASE op = "demote" BY <2>4 DEF Statements, Plan
  <2>5. CASE op = "delete" BY <2>5 DEF Statements, Plan
  <2>6. CASE op = "enable" BY <2>6 DEF Statements, Plan
  <2>7. CASE op = "promote" BY <2>7 DEF Statements, Plan
  <2> QED BY <2>1, <2>2, <2>3, <2>4, <2>5, <2>6, <2>7 DEF Operation
<1> QED BY <1>1 DEF Plan

Starts(p, op, u, left) ==
  /\ OthersGoOn(p) /\ Pending(p) = {} /\ Pending(p)' = left
  /\ job'[p].op = op /\ job'[p].user = u /\ job'[p].epoch = 0
  /\ job'[p].told = IF op \in Ends \cup {"change"} THEN Own(u) ELSE {}
  /\ job'[p].admin = ("check" \in left /\ EnabledAdmin(u))

LEMMA JobStarts ==
  ASSUME Typed, NEW p \in Process, NEW op \in Op, NEW u \in Account, NEW todo \in Plan(op),
         p = "cli" => op \in Operation, job[p] = NoJob,
         NEW keep \in BOOLEAN, NEW jti \in Session \cup {0},
         job' = [job EXCEPT ![p] = Job(op, u, todo, keep, jti)]
  PROVE  JobsTyped' /\ Starts(p, op, u, Elements(todo)) /\ job'[p].jti = jti
<1> DEFINE x == Job(op, u, todo, keep, jti)
<1>1. users[u].pw \in Nat /\ Own(u) \subseteq Session BY DEF Typed, UserRow, Own
<1>2. todo \in UNION {Plan(o) : o \in Op} OBVIOUS
<1>3. /\ x.op = op /\ x.user = u /\ x.todo = todo /\ x.jti = jti /\ x.epoch = 0
      /\ x.told = IF op \in Ends \cup {"change"} THEN Own(u) ELSE {}
      /\ x.admin = ("check" \in Elements(todo) /\ EnabledAdmin(u))
  BY DEF Job, Elements
<1>4. x \in JobRow
  <2>1. IF op \in {"login", "change"} THEN users[u].pw \in Nat ELSE 0 \in Nat BY <1>1
  <2>2. ("check" \in {todo[i] : i \in DOMAIN todo} /\ EnabledAdmin(u)) \in BOOLEAN OBVIOUS
  <2>3. (IF op \in Ends \cup {"change"} THEN Own(u) ELSE {}) \in SUBSET Session BY <1>1
  <2> QED BY <1>2, <2>1, <2>2, <2>3 DEF Job, JobRow
<1> HIDE DEF x
<1>5. JobsTyped /\ Pending(p) = {} BY DEF Typed, Pending
<1>6. /\ JobsTyped' /\ OthersGoOn(p) /\ job'[p] = x
      /\ Pending(p)' = IF x = NoJob THEN {} ELSE Elements(x.todo)
  <2>1. job' = [job EXCEPT ![p] = x] BY DEF x
  <2> QED BY <1>3, <1>4, <1>5, <2>1, JobSet
<1> QED BY <1>3, <1>4, <1>5, <1>6, NoRow DEF Starts
-----------------------------------------------------------------------------
(* What a step does to the rows.                                            *)
Persists(j) ==
  /\ session[j] # Unborn => session'[j] # Unborn
  /\ session[j] # Unborn /\ Row(j)' =>
       /\ Row(j) /\ session'[j].user = session[j].user
       /\ session'[j].remember = session[j].remember
  /\ Gone(j) => Gone(j)'
  /\ Over(session[j]) => Gone(j)' \/ Over(session'[j])

(* Row j is as it was, or over. *)
Steady(j) ==
  \/ session'[j] = session[j]
  \/ /\ Gone(j)' /\ Row(j)
     /\ Row(j)' => /\ session'[j].user = session[j].user
                   /\ session'[j].remember = session[j].remember
                   /\ session'[j].epoch = session[j].epoch /\ session'[j].left = 0

(* Only the clocks of row j may differ. *)
Clocked(j) ==
  /\ Gone(j)' = Gone(j) /\ Row(j)' = Row(j) /\ Live(j)' = Live(j)
  /\ (session'[j] = Unborn) = (session[j] = Unborn)
  /\ Row(j) => /\ session'[j].user = session[j].user /\ session'[j].epoch = session[j].epoch
               /\ session'[j].pw = session[j].pw /\ session'[j].raced = session[j].raced
               /\ session'[j].remember = session[j].remember
               /\ session'[j].left <= session[j].left

LEMMA Kinds ==
  /\ \A r \in SessionRow : r # Unborn /\ r # Deleted
  /\ Unborn # Deleted /\ Unborn.row = "unborn" /\ Deleted.row = "deleted"
<1>1. Unborn.row = "unborn" /\ Deleted.row = "deleted" BY DEF Unborn, Deleted
<1>2. \A r \in SessionRow : r.row \in {"live", "revoked"} BY DEF SessionRow
<1> QED BY <1>1, <1>2

LEMMA RowKinds ==
  ASSUME SessionsTyped, NEW j \in Session
  PROVE  /\ Row(j) => session[j] \in SessionRow
         /\ session[j] \in SessionRow => Row(j)
         /\ Row(j) => ~(session[j] = Unborn) /\ ~(session[j] = Deleted)
         /\ session[j] = Unborn => ~Row(j) /\ ~Gone(j)
         /\ session[j] = Deleted => ~Row(j) /\ Gone(j)
         /\ Live(j) => Row(j) /\ ~Gone(j)
         /\ Row(j) /\ ~Gone(j) => Live(j)
         /\ session[j] # Unborn => Row(j) \/ Gone(j)
<1>1. session[j] \in SessionRow \cup {Unborn, Deleted} BY DEF SessionsTyped
<1>2. \A r \in SessionRow : r.row \in {"live", "revoked"} BY DEF SessionRow
<1> QED BY <1>1, <1>2, Kinds DEF Row, Gone, Live

LEMMA RevokedRow ==
  ASSUME NEW r \in SessionRow
  PROVE  /\ Revoked(r) \in SessionRow /\ Revoked(r).row = "revoked" /\ Revoked(r).user = r.user
         /\ Revoked(r).remember = r.remember /\ Revoked(r).epoch = r.epoch
         /\ Revoked(r).left = 0
BY DEF Revoked, SessionRow

LEMMA SteadyRows ==
  ASSUME SessionsTyped, SessionsTyped', NEW j \in Session, Steady(j)
  PROVE  /\ Persists(j)
         /\ Live(j)' => session'[j] = session[j] /\ Live(j)
         /\ Row(j)' => Row(j) /\ session'[j].epoch = session[j].epoch
                       /\ (session'[j].left = session[j].left \/ session'[j].left = 0)
<1>1. /\ Live(j) => Row(j) /\ ~Gone(j)
      /\ session[j] # Unborn => Row(j) \/ Gone(j)
      /\ Row(j) => session[j].left \in Nat /\ session[j] # Unborn
  BY RowKinds DEF SessionRow
<1>2. /\ Live(j)' => ~Gone(j)'
      /\ Gone(j)' => session'[j] # Unborn
  BY Kinds DEF Live, Gone
<1>3. CASE session'[j] = session[j]
  BY <1>1, <1>3 DEF Persists, Row, Gone, Live, Over
<1>4. CASE session'[j] # session[j]
  BY <1>1, <1>2, <1>4 DEF Steady, Persists
<1> QED BY <1>3, <1>4

(* Revoking some rows, or deleting them. *)
LEMMA RowsRevoked ==
  ASSUME SessionsTyped, NEW S \in SUBSET Session, \A j \in S : Row(j),
         session' = [j \in Session |-> IF j \in S THEN Revoked(session[j]) ELSE session[j]]
  PROVE  /\ SessionsTyped' /\ \A j \in Session : Steady(j)
         /\ \A j \in S : Gone(j)'
<1>1. \A j \in S : session'[j] = Revoked(session[j]) /\ session[j] \in SessionRow BY RowKinds
<1>2. \A j \in Session \ S : session'[j] = session[j] BY DEF SessionsTyped
<1>3. \A j \in S : Gone(j)' /\ Steady(j) /\ session'[j] \in SessionRow
  BY <1>1, RevokedRow DEF Gone, Steady, Row
<1>4. SessionsTyped' BY <1>2, <1>3 DEF SessionsTyped
<1> QED BY <1>2, <1>3, <1>4 DEF Steady

LEMMA RowsDeleted ==
  ASSUME SessionsTyped, NEW S \in SUBSET Session, \A j \in S : Row(j),
         session' = [j \in Session |-> IF j \in S THEN Deleted ELSE session[j]]
  PROVE  /\ SessionsTyped' /\ \A j \in Session : Steady(j)
         /\ \A j \in S : ~Row(j)'
<1>1. \A j \in S : session'[j] = Deleted OBVIOUS
<1>2. \A j \in Session \ S : session'[j] = session[j] BY DEF SessionsTyped
<1>3. \A j \in S : Gone(j)' /\ ~Row(j)' /\ Steady(j) BY <1>1, Kinds DEF Gone, Steady, Row
<1>4. SessionsTyped' BY <1>1, <1>2 DEF SessionsTyped
<1> QED BY <1>2, <1>3, <1>4 DEF Steady

LEMMA RowsStay ==
  ASSUME SessionsTyped, UNCHANGED session
  PROVE  SessionsTyped' /\ \A j \in Session : Steady(j)
BY DEF SessionsTyped, Steady

LEMMA AgedRow ==
  ASSUME NEW r \in SessionRow, r.row = "live"
  PROVE  /\ Aged(r) \in SessionRow /\ Aged(r).row = "live"
         /\ Aged(r).user = r.user /\ Aged(r).epoch = r.epoch /\ Aged(r).pw = r.pw
         /\ Aged(r).raced = r.raced /\ Aged(r).remember = r.remember
         /\ Aged(r).left = IF r.left > 0 THEN r.left - 1 ELSE 0
         /\ r.remember => Aged(r).away = IF r.away <= Habit THEN r.away + 1 ELSE r.away
         /\ ~r.remember => Aged(r).quiet = IF r.quiet <= Idle THEN r.quiet + 1 ELSE r.quiet
<1> DEFINE left == IF r.left > 0 THEN r.left - 1 ELSE 0
           away == IF r.away <= Habit THEN r.away + 1 ELSE r.away
           quiet == IF r.quiet <= Idle THEN r.quiet + 1 ELSE r.quiet
<1>1. left \in Nat /\ away \in Nat /\ quiet \in Nat
  <2>1. r.left \in Nat /\ r.away \in Nat /\ r.quiet \in Nat BY DEF SessionRow
  <2> QED BY <2>1
<1>2. CASE r.remember
  <2>1. Aged(r) = [r EXCEPT !.left = left, !.away = away] BY <1>2 DEF Aged
  <2> HIDE DEF left, away, quiet
  <2>2. /\ Aged(r) \in SessionRow /\ Aged(r).row = "live"
        /\ Aged(r).user = r.user /\ Aged(r).epoch = r.epoch /\ Aged(r).pw = r.pw
        /\ Aged(r).raced = r.raced /\ Aged(r).remember = r.remember
        /\ Aged(r).left = left /\ Aged(r).away = away
    BY <1>1, <2>1 DEF SessionRow
  <2> QED BY <1>2, <2>2 DEF left, away
<1>3. CASE ~r.remember
  <2>1. Aged(r) = [r EXCEPT !.left = left, !.quiet = quiet] BY <1>3 DEF Aged
  <2> HIDE DEF left, away, quiet
  <2>2. /\ Aged(r) \in SessionRow /\ Aged(r).row = "live"
        /\ Aged(r).user = r.user /\ Aged(r).epoch = r.epoch /\ Aged(r).pw = r.pw
        /\ Aged(r).raced = r.raced /\ Aged(r).remember = r.remember
        /\ Aged(r).left = left /\ Aged(r).quiet = quiet
    BY <1>1, <2>1 DEF SessionRow
  <2> QED BY <1>3, <2>2 DEF left, quiet
<1> QED BY <1>2, <1>3

LEMMA OtherRow == \A r : r.row # "live" => Aged(r) = r
BY DEF Aged

(* A unit of time, and a use. *)
LEMMA RowsAge ==
  ASSUME SessionsTyped, session' = [j \in Session |-> Aged(session[j])]
  PROVE  /\ SessionsTyped' /\ \A j \in Session : Clocked(j) /\ Persists(j)
         /\ \A j \in Session : Live(j)' /\ session'[j].remember /\ session'[j].away <= Habit =>
                /\ session[j].away <= Habit /\ session'[j].away = session[j].away + 1
                /\ session'[j].left = IF session[j].left > 0 THEN session[j].left - 1 ELSE 0
<1> SUFFICES ASSUME NEW j \in Session
    PROVE  /\ session'[j] \in SessionRow \cup {Unborn, Deleted}
           /\ Clocked(j) /\ Persists(j)
           /\ Live(j)' /\ session'[j].remember /\ session'[j].away <= Habit =>
                /\ session[j].away <= Habit /\ session'[j].away = session[j].away + 1
                /\ session'[j].left = IF session[j].left > 0 THEN session[j].left - 1 ELSE 0
  BY DEF SessionsTyped
<1>1. session'[j] = Aged(session[j]) OBVIOUS
<1>2. CASE session[j].row # "live"
  <2>1. session'[j] = session[j] BY <1>1, <1>2, OtherRow
  <2>2. session[j] \in SessionRow \cup {Unborn, Deleted} BY DEF SessionsTyped
  <2>3. Row(j) => session[j].left \in Nat BY RowKinds DEF SessionRow
  <2> QED BY <1>2, <2>1, <2>2, <2>3 DEF Clocked, Persists, Gone, Row, Live, Over
<1>3. CASE session[j].row = "live"
  <2>1. session[j] \in SessionRow BY <1>3, RowKinds DEF Live
  <2>2. /\ session[j].left \in Nat /\ session[j].quiet \in Nat /\ session[j].away \in Nat
        /\ session[j].remember \in BOOLEAN
    BY <2>1 DEF SessionRow
  <2>3. Idle \in Nat /\ Long \in Nat /\ Habit \in Nat BY AccountsAssumption DEF Habit
  <2>4. /\ session'[j] \in SessionRow /\ session'[j].row = "live"
        /\ session'[j].user = session[j].user /\ session'[j].epoch = session[j].epoch
        /\ session'[j].pw = session[j].pw /\ session'[j].raced = session[j].raced
        /\ session'[j].remember = session[j].remember
        /\ session'[j].left = IF session[j].left > 0 THEN session[j].left - 1 ELSE 0
        /\ session[j].remember => session'[j].away = IF session[j].away <= Habit THEN session[j].away + 1 ELSE session[j].away
        /\ ~session[j].remember => session'[j].quiet = IF session[j].quiet <= Idle THEN session[j].quiet + 1 ELSE session[j].quiet
    BY <1>1, <1>3, <2>1, AgedRow
  <2>5. Clocked(j) BY <1>3, <2>1, <2>2, <2>4, Kinds DEF Clocked, Gone, Row, Live
  <2>6. Persists(j) BY <1>3, <2>1, <2>2, <2>3, <2>4, Kinds DEF Persists, Gone, Row, Live, Over
  <2> QED BY <1>3, <2>2, <2>3, <2>4, <2>5, <2>6
<1> QED BY <1>2, <1>3

LEMMA RowTouched ==
  ASSUME SessionsTyped, NEW j \in Session, Valid(j), NEW away \in {session[j].away, 0},
         session' = [Touched(j) EXCEPT ![j].away = away]
  PROVE  /\ SessionsTyped' /\ \A k \in Session : Clocked(k) /\ Persists(k)
         /\ \A k \in Session \ {j} : session'[k] = session[k]
         /\ Live(j)' /\ session'[j].left = session[j].left /\ session'[j].away = away
<1>1. Live(j) /\ session[j] \in SessionRow /\ session[j].left > 0 /\ ~Over(session[j])
  <2>1. Live(j) /\ session[j].left > 0 /\ (session[j].remember \/ ~(session[j].quiet > Idle))
    BY DEF Valid, Accepted, Live, Idled
  <2>2. session[j] \in SessionRow BY <2>1, RowKinds
  <2>3. session[j].left \in Nat BY <2>2 DEF SessionRow
  <2> QED BY <2>1, <2>2, <2>3 DEF Over
<1>2. session'[j] = [session[j] EXCEPT !.quiet = 0, !.away = away] BY DEF SessionsTyped, Touched
<1>3. \A k \in Session \ {j} : session'[k] = session[k] BY DEF SessionsTyped, Touched
<1>4. /\ session'[j] \in SessionRow /\ session'[j].row = "live"
      /\ session'[j].user = session[j].user /\ session'[j].epoch = session[j].epoch
      /\ session'[j].pw = session[j].pw /\ session'[j].raced = session[j].raced
      /\ session'[j].remember = session[j].remember /\ session'[j].left = session[j].left
      /\ session'[j].away = away
  <2>1. away \in Nat BY <1>1 DEF SessionRow
  <2>2. session'[j] = [session[j] EXCEPT !.quiet = 0, !.away = away] BY <1>2
  <2> DEFINE x == session'[j]
             r == session[j]
  <2>3. x = [r EXCEPT !.quiet = 0, !.away = away] /\ r \in SessionRow /\ r.row = "live"
    BY <1>1, <2>2 DEF Live
  <2> HIDE DEF x, r
  <2>4. /\ x \in SessionRow /\ x.row = r.row /\ x.user = r.user /\ x.epoch = r.epoch
        /\ x.pw = r.pw /\ x.raced = r.raced /\ x.remember = r.remember
        /\ x.left = r.left /\ x.away = away
    BY <2>1, <2>3 DEF SessionRow
  <2> QED BY <2>3, <2>4 DEF x, r
<1>5. SessionsTyped'
  <2>1. session' \in [Session -> SessionRow \cup {Unborn, Deleted}]
    <3>1. DOMAIN session' = Session BY DEF SessionsTyped, Touched
    <3>2. session' = [k \in Session |-> session'[k]] BY <3>1 DEF SessionsTyped, Touched
    <3>3. \A k \in Session : session'[k] \in SessionRow \cup {Unborn, Deleted}
      BY <1>3, <1>4 DEF SessionsTyped
    <3> QED BY <3>2, <3>3
  <2> QED BY <2>1 DEF SessionsTyped
<1>6. Clocked(j) /\ Persists(j)
  <2>1. session[j].left \in Nat BY <1>1 DEF SessionRow
  <2> QED BY <1>1, <1>4, <2>1, Kinds DEF Clocked, Persists, Gone, Row, Live
<1>7. \A k \in Session \ {j} : Clocked(k) /\ Persists(k)
  <2> SUFFICES ASSUME NEW k \in Session \ {j} PROVE Clocked(k) /\ Persists(k) OBVIOUS
  <2>1. Row(k) => session[k].left \in Nat BY RowKinds DEF SessionRow
  <2> QED BY <1>3, <2>1 DEF Clocked, Persists, Gone, Row, Live
<1> QED BY <1>1, <1>3, <1>4, <1>5, <1>6, <1>7 DEF Live
-----------------------------------------------------------------------------
(* The statements of a job.                                                 *)
Bound == UNCHANGED <<ticket, bumps>>

(* Process p has run statement s, or given the job up at it.                *)
Runs(p, s) ==
  /\ Moves(p, s) /\ Bound /\ s \in Pending(p) /\ Ordered(s, Pending(p))
  /\ Fits(job[p].op, Pending(p)) /\ job[p] \in JobRow
  /\ p = "cli" => job[p].op \in Operation
  /\ \A j \in ended' : j \in ended \/ (j \in job[p].told /\ Pending(p) = {s})

LEMMA RunsOn ==
  ASSUME Typed, NEW p \in Process, NEW s, At(p, s), NEW j \in JobRow,
         j.op = job[p].op, j.todo = job[p].todo, j.user = job[p].user,
         j.jti = job[p].jti, j.told = job[p].told, GoOn(p, j), Bound
  PROVE  /\ JobsTyped' /\ Runs(p, s) /\ Pending(p)' = Pending(p) \ {s}
         /\ Pending(p)' # {} => job'[p].admin = j.admin /\ job'[p].epoch = j.epoch
         /\ ended' \subseteq Session
<1>1. JobsTyped /\ ended \subseteq Session BY DEF Typed
<1>2. /\ s \in Pending(p) /\ Ordered(s, Pending(p)) /\ Fits(job[p].op, Pending(p))
      /\ job[p] \in JobRow /\ (p = "cli" => job[p].op \in Operation)
  BY <1>1, NextStatement
<1>3. /\ JobsTyped' /\ OthersGoOn(p) /\ Pending(p)' = Pending(p) \ {s}
      /\ Pending(p)' # {} =>
           /\ job'[p].op = j.op /\ job'[p].user = j.user /\ job'[p].jti = j.jti
           /\ job'[p].admin = j.admin /\ job'[p].epoch = j.epoch
           /\ job'[p].told = j.told
      /\ ended' = IF Pending(p)' = {} THEN ended \cup j.told ELSE ended
  BY <1>1, GoesOn
<1>4. j.told \subseteq Session BY DEF JobRow
<1> QED BY <1>1, <1>2, <1>3, <1>4 DEF Runs, Moves

LEMMA GivenUp ==
  ASSUME Typed, NEW p \in Process, NEW s, At(p, s), Abort(p), Bound
  PROVE  JobsTyped' /\ Runs(p, s) /\ Pending(p)' = {} /\ ended' \subseteq Session
<1>1. JobsTyped /\ ended \subseteq Session BY DEF Typed
<1>2. /\ s \in Pending(p) /\ Ordered(s, Pending(p)) /\ Fits(job[p].op, Pending(p))
      /\ job[p] \in JobRow /\ (p = "cli" => job[p].op \in Operation)
  BY <1>1, NextStatement
<1>3. JobsTyped' /\ OthersGoOn(p) /\ Pending(p)' = {} /\ ended' = ended BY <1>1, GivesUp
<1> QED BY <1>1, <1>2, <1>3 DEF Runs, Moves

LEMMA CheckDoes ==
  ASSUME Typed, NEW p \in Process, Check(p)
  PROVE  /\ Typed' /\ Runs(p, "check") /\ UNCHANGED <<users, session, overlap>>
         /\ Pending(p)' # {} => /\ Pending(p)' = Pending(p) \ {"check"}
                                /\ ~job'[p].admin /\ job'[p].epoch = job[p].epoch
                                /\ ~job[p].admin \/ OtherAdmin(job[p].user)
<1> DEFINE alone == \A v \in Account \ {job[p].user} : ~EnabledAdmin(v)
<1>1. At(p, "check") /\ UNCHANGED <<users, session, ticket, bumps, overlap>> /\ Bound
      /\ IF job[p].admin /\ alone THEN Abort(p) ELSE GoOn(p, [job[p] EXCEPT !.admin = FALSE])
  BY DEF Check, Bound
<1>2. job[p] \in JobRow BY <1>1, NextStatement DEF Typed
<1>3. JobsTyped' /\ ended' \subseteq Session => Typed' BY <1>1 DEF Typed, SessionsTyped
<1>4. CASE job[p].admin /\ alone BY <1>1, <1>3, <1>4, GivenUp
<1>5. CASE ~(job[p].admin /\ alone)
  <2> DEFINE x == [job[p] EXCEPT !.admin = FALSE]
  <2>1. /\ x \in JobRow /\ x.op = job[p].op /\ x.todo = job[p].todo /\ x.user = job[p].user
        /\ x.jti = job[p].jti /\ x.told = job[p].told /\ x.admin = FALSE
        /\ x.epoch = job[p].epoch
    BY <1>2 DEF JobRow
  <2>2. GoOn(p, x) BY <1>1, <1>5
  <2>3. ~job[p].admin \/ OtherAdmin(job[p].user) BY <1>5 DEF OtherAdmin
  <2> HIDE DEF x, alone
  <2>4. /\ JobsTyped' /\ Runs(p, "check") /\ Pending(p)' = Pending(p) \ {"check"}
        /\ Pending(p)' # {} => job'[p].admin = x.admin /\ job'[p].epoch = x.epoch
        /\ ended' \subseteq Session
    BY <1>1, <2>1, <2>2, RunsOn
  <2> QED BY <1>1, <1>3, <2>1, <2>3, <2>4
<1> QED BY <1>4, <1>5

LEMMA RevokeRowsDoes ==
  ASSUME Typed, NEW p \in Process, RevokeRows(p)
  PROVE  /\ Typed' /\ Runs(p, "revoke_all") /\ UNCHANGED <<users, overlap>>
         /\ Pending(p)' = Pending(p) \ {"revoke_all"}
         /\ Pending(p)' # {} => job'[p].admin = job[p].admin /\ job'[p].epoch = job[p].epoch
         /\ \A j \in Session : Steady(j)
         /\ \A j \in Own(job[p].user) : Gone(j)'
<1>1. /\ At(p, "revoke_all") /\ UNCHANGED <<users, ticket, bumps, overlap>> /\ Bound
      /\ GoOn(p, job[p]) /\ session' = RevokeAll(job[p].user, {})
  BY DEF RevokeRows, Bound
<1>2. job[p] \in JobRow BY <1>1, NextStatement DEF Typed
<1>3. /\ JobsTyped' /\ Runs(p, "revoke_all") /\ Pending(p)' = Pending(p) \ {"revoke_all"}
      /\ Pending(p)' # {} => job'[p].admin = job[p].admin /\ job'[p].epoch = job[p].epoch
      /\ ended' \subseteq Session
  BY <1>1, <1>2, RunsOn
<1> DEFINE S == Own(job[p].user)
<1>4. S \subseteq Session /\ \A j \in S : Row(j) BY DEF Own
<1>5. session' = [j \in Session |-> IF j \in S THEN Revoked(session[j]) ELSE session[j]]
  BY <1>1 DEF RevokeAll
<1> HIDE DEF S
<1>6. SessionsTyped' /\ (\A j \in Session : Steady(j)) /\ \A j \in S : Gone(j)'
  BY <1>4, <1>5, RowsRevoked DEF Typed
<1>7. Typed' BY <1>1, <1>3, <1>6 DEF Typed
<1> QED BY <1>1, <1>3, <1>6, <1>7 DEF S

Writes == {"set_password", "bump", "set_disabled", "enable", "demote", "promote"}
Became(r, x, s) ==
  /\ x.there = r.there
  /\ x.epoch = IF s \in {"set_password", "bump"} THEN r.epoch + 1 ELSE r.epoch
  /\ x.pw = IF s = "set_password" THEN r.pw + 1 ELSE r.pw
  /\ x.disabled = (IF s = "set_disabled" THEN TRUE ELSE IF s = "enable" THEN FALSE ELSE r.disabled)
  /\ x.admin = (IF s = "promote" THEN TRUE ELSE IF s = "demote" THEN FALSE ELSE r.admin)

LEMMA UpdatedRow ==
  ASSUME NEW r \in UserRow,
         NEW s \in Writes
  PROVE  Updated(r, s) \in UserRow /\ Became(r, Updated(r, s), s)
<1>1. CASE s = "set_password"
  <2> DEFINE epoch == r.epoch + 1
             pw == r.pw + 1
  <2>1. epoch \in Nat /\ pw \in Nat BY DEF UserRow
  <2>2. Updated(r, s) = [r EXCEPT !.epoch = epoch, !.pw = pw] BY <1>1 DEF Updated
  <2> HIDE DEF epoch, pw
  <2>3. /\ Updated(r, s) \in UserRow /\ Updated(r, s).there = r.there
        /\ Updated(r, s).epoch = epoch /\ Updated(r, s).pw = pw
        /\ Updated(r, s).disabled = r.disabled /\ Updated(r, s).admin = r.admin
    BY <2>1, <2>2 DEF UserRow
  <2> QED BY <1>1, <2>3 DEF epoch, pw, Became
<1>2. CASE s = "bump" BY <1>2 DEF Updated, UserRow, Became
<1>3. CASE s = "set_disabled" BY <1>3 DEF Updated, UserRow, Became
<1>4. CASE s = "enable" BY <1>4 DEF Updated, UserRow, Became
<1>5. CASE s = "demote" BY <1>5 DEF Updated, UserRow, Became
<1>6. CASE s = "promote" BY <1>6 DEF Updated, UserRow, Became
<1> QED BY <1>1, <1>2, <1>3, <1>4, <1>5, <1>6 DEF Writes

Wrote(p, s) ==
  LET u == job[p].user IN
  /\ Runs(p, s) /\ UNCHANGED session /\ Pending(p)' = Pending(p) \ {s}
  /\ Pending(p)' # {} => job'[p].admin = job[p].admin /\ job'[p].epoch = job[p].epoch
  /\ \A v \in Account \ {u} : users'[v] = users[v]
  /\ IF users[u].there THEN Became(users[u], users'[u], s) ELSE users'[u] = users[u]
  /\ overlap' = (overlap \/ (s \in Removal /\ Overlaps(p)))

LEMMA UpdateDoes ==
  ASSUME Typed, NEW p \in Process, Update(p)
  PROVE  Typed' /\ \E s \in Writes : Wrote(p, s)
<1> DEFINE u == job[p].user
<1>1. PICK s \in Writes :
        /\ At(p, s) /\ Bound /\ UNCHANGED session
        /\ users' = [users EXCEPT ![u] = IF @.there THEN Updated(@, s) ELSE @]
        /\ GoOn(p, [job[p] EXCEPT !.pw = IF job[p].op = "change" THEN users[u].pw + 1 ELSE @])
        /\ overlap' = (overlap \/ (s \in Removal /\ Overlaps(p)))
  BY DEF Update, Writes, Bound
<1>2. job[p] \in JobRow BY <1>1, NextStatement DEF Typed
<1>3. u \in Account /\ users[u] \in UserRow BY <1>2 DEF JobRow, Typed
<1> DEFINE pw == IF job[p].op = "change" THEN users[u].pw + 1 ELSE job[p].pw
           x == [job[p] EXCEPT !.pw = pw]
<1>4. pw \in Nat BY <1>2, <1>3 DEF JobRow, UserRow
<1>5. GoOn(p, x) BY <1>1
<1>6. users' \in [Account -> UserRow] /\ (\A v \in Account \ {u} : users'[v] = users[v])
      /\ IF users[u].there THEN Became(users[u], users'[u], s) ELSE users'[u] = users[u]
  <2>1. Updated(users[u], s) \in UserRow /\ Became(users[u], Updated(users[u], s), s)
    BY <1>1, <1>3, UpdatedRow
  <2>2. users' = [users EXCEPT ![u] = IF users[u].there THEN Updated(users[u], s) ELSE users[u]]
    BY <1>1
  <2> HIDE DEF u
  <2> QED BY <1>3, <2>1, <2>2 DEF Typed
<1> HIDE DEF pw
<1>7. /\ x \in JobRow /\ x.op = job[p].op /\ x.todo = job[p].todo /\ x.user = job[p].user
      /\ x.jti = job[p].jti /\ x.told = job[p].told /\ x.admin = job[p].admin
      /\ x.epoch = job[p].epoch
  BY <1>2, <1>4 DEF JobRow
<1> HIDE DEF x
<1>8. /\ JobsTyped' /\ Runs(p, s) /\ Pending(p)' = Pending(p) \ {s}
      /\ Pending(p)' # {} => job'[p].admin = x.admin /\ job'[p].epoch = x.epoch
      /\ ended' \subseteq Session
  BY <1>1, <1>5, <1>7, RunsOn
<1>9. Typed' BY <1>1, <1>6, <1>8 DEF Typed, SessionsTyped, Bound
<1> QED BY <1>1, <1>6, <1>7, <1>8, <1>9 DEF Wrote

LEMMA DeleteDoes ==
  ASSUME Typed, NEW p \in Process, Delete(p)
  PROVE  /\ Typed' /\ Runs(p, "delete") /\ Pending(p)' = Pending(p) \ {"delete"}
         /\ Pending(p)' # {} => job'[p].admin = job[p].admin /\ job'[p].epoch = job[p].epoch
         /\ \A v \in Account \ {job[p].user} : users'[v] = users[v]
         /\ users'[job[p].user] = Nobody
         /\ \A j \in Session : Steady(j)
         /\ \A j \in Own(job[p].user) : ~Row(j)'
         /\ overlap' = (overlap \/ Overlaps(p))
<1> DEFINE u == job[p].user
           S == Own(u)
<1>1. /\ At(p, "delete") /\ Bound /\ GoOn(p, job[p])
      /\ users' = [users EXCEPT ![u] = Nobody]
      /\ session' = [j \in Session |-> IF j \in S THEN Deleted ELSE session[j]]
      /\ overlap' = (overlap \/ Overlaps(p))
  BY DEF Delete, Bound
<1>2. job[p] \in JobRow BY <1>1, NextStatement DEF Typed
<1>3. u \in Account /\ Nobody \in UserRow BY <1>2 DEF JobRow, Nobody, UserRow
<1>4. /\ JobsTyped' /\ Runs(p, "delete") /\ Pending(p)' = Pending(p) \ {"delete"}
      /\ Pending(p)' # {} => job'[p].admin = job[p].admin /\ job'[p].epoch = job[p].epoch
      /\ ended' \subseteq Session
  BY <1>1, <1>2, RunsOn
<1>5. /\ users' \in [Account -> UserRow] /\ users'[u] = Nobody
      /\ \A v \in Account \ {u} : users'[v] = users[v]
  BY <1>1, <1>3 DEF Typed
<1>6. S \subseteq Session /\ \A j \in S : Row(j) BY DEF Own
<1> HIDE DEF S
<1>7. SessionsTyped' /\ (\A j \in Session : Steady(j)) /\ \A j \in S : ~Row(j)'
  BY <1>1, <1>6, RowsDeleted DEF Typed
<1>8. Typed' BY <1>1, <1>4, <1>5, <1>7 DEF Typed, Bound
<1> QED BY <1>1, <1>4, <1>5, <1>7, <1>8 DEF S

LEMMA RereadDoes ==
  ASSUME Typed, NEW p \in Process, Reread(p)
  PROVE  /\ Typed' /\ Runs(p, "reread") /\ UNCHANGED <<users, session, overlap>>
         /\ IF users[job[p].user].there /\ (job[p].op = "renew" => ~users[job[p].user].disabled)
            THEN /\ Pending(p)' = Pending(p) \ {"reread"}
                 /\ Pending(p)' # {} => /\ job'[p].admin = job[p].admin
                                        /\ job'[p].epoch = users[job[p].user].epoch
            ELSE Pending(p)' = {}
<1> DEFINE u == job[p].user
           good == users[u].there /\ (job[p].op = "renew" => ~users[u].disabled)
<1>1. At(p, "reread") /\ UNCHANGED <<users, session, ticket, bumps, overlap>> /\ Bound
      /\ IF good THEN GoOn(p, [job[p] EXCEPT !.epoch = users[u].epoch]) ELSE Abort(p)
  BY DEF Reread, Bound
<1>2. job[p] \in JobRow BY <1>1, NextStatement DEF Typed
<1>3. JobsTyped' /\ ended' \subseteq Session => Typed' BY <1>1 DEF Typed, SessionsTyped
<1>4. CASE ~good BY <1>1, <1>3, <1>4, GivenUp
<1>5. CASE good
  <2> DEFINE epoch == users[u].epoch
             x == [job[p] EXCEPT !.epoch = epoch]
  <2>1. epoch \in Nat BY <1>2 DEF JobRow, Typed, UserRow
  <2>2. GoOn(p, x) BY <1>1, <1>5
  <2> HIDE DEF epoch, good
  <2>3. /\ x \in JobRow /\ x.op = job[p].op /\ x.todo = job[p].todo /\ x.user = job[p].user
        /\ x.jti = job[p].jti /\ x.told = job[p].told /\ x.admin = job[p].admin
        /\ x.epoch = epoch
    BY <1>2, <2>1 DEF JobRow
  <2> HIDE DEF x
  <2>4. /\ JobsTyped' /\ Runs(p, "reread") /\ Pending(p)' = Pending(p) \ {"reread"}
        /\ Pending(p)' # {} => job'[p].admin = x.admin /\ job'[p].epoch = x.epoch
        /\ ended' \subseteq Session
    BY <1>1, <2>2, <2>3, RunsOn
  <2>5. Typed' BY <1>3, <2>4
  <2> USE DEF good, epoch
  <2> QED BY <1>1, <1>5, <2>3, <2>4, <2>5
<1> QED BY <1>4, <1>5

(* A session has been opened for a row that was not there.                  *)
Opened(p, j) ==
  LET u == job[p].user IN
  /\ session[j] = Unborn /\ Live(j)' /\ session'[j].user = u
  /\ session'[j].epoch = job[p].epoch /\ session'[j].pw = job[p].pw
  /\ session'[j].raced = (job[p].pw # users[u].pw)
  /\ session'[j].remember = job[p].keep /\ session'[j].left = Lifetime(job[p].keep)
  /\ session'[j].away = 0
  /\ \A k \in Session \ {j} : session'[k] = session[k]

LEMMA OpenDoes ==
  ASSUME Typed, NEW p \in Process, Open(p)
  PROVE  /\ Typed' /\ Runs(p, "open") /\ UNCHANGED <<users, overlap>>
         /\ Pending(p)' # {} => /\ Pending(p)' = Pending(p) \ {"open"}
                                /\ job'[p].admin = job[p].admin /\ job'[p].epoch = job[p].epoch
         /\ \/ UNCHANGED session
            \/ users[job[p].user].there /\ \E j \in Session : Opened(p, j)
<1> DEFINE u == job[p].user
<1>1. /\ At(p, "open") /\ UNCHANGED <<users, ticket, bumps, overlap>> /\ Bound
  BY DEF Open, Bound
<1>2. job[p] \in JobRow BY <1>1, NextStatement DEF Typed
<1>3. CASE ~users[u].there
  <2>1. Abort(p) /\ UNCHANGED session BY <1>3 DEF Open
  <2>2. JobsTyped' /\ Runs(p, "open") /\ Pending(p)' = {} /\ ended' \subseteq Session
    BY <1>1, <2>1, GivenUp
  <2>3. Typed' BY <1>1, <2>1, <2>2 DEF Typed, SessionsTyped
  <2> QED BY <1>1, <2>1, <2>2, <2>3
<1>4. CASE users[u].there
  <2> DEFINE row == [row |-> "live", user |-> u, epoch |-> job[p].epoch, pw |-> job[p].pw,
                     raced |-> job[p].pw # users[u].pw, remember |-> job[p].keep,
                     left |-> Lifetime(job[p].keep), quiet |-> 0, away |-> 0]
  <2>1. PICK j \in Session : session[j] = Unborn /\ session' = [session EXCEPT ![j] = row]
    BY <1>4 DEF Open
  <2>2. GoOn(p, job[p]) BY <1>4 DEF Open
  <2>3. row \in SessionRow
    <3>1. Lifetime(job[p].keep) \in Nat BY AccountsAssumption DEF Lifetime
    <3>2. (job[p].pw # users[u].pw) \in BOOLEAN OBVIOUS
    <3>3. u \in Account /\ job[p].epoch \in Nat /\ job[p].pw \in Nat /\ job[p].keep \in BOOLEAN
      BY <1>2 DEF JobRow
    <3> QED BY <3>1, <3>2, <3>3 DEF SessionRow
  <2>4. /\ row.row = "live" /\ row.user = u /\ row.epoch = job[p].epoch /\ row.pw = job[p].pw
        /\ row.raced = (job[p].pw # users[u].pw) /\ row.remember = job[p].keep
        /\ row.left = Lifetime(job[p].keep) /\ row.away = 0
    OBVIOUS
  <2> HIDE DEF row
  <2>5. SessionsTyped' /\ session'[j] = row /\ \A k \in Session \ {j} : session'[k] = session[k]
    BY <2>1, <2>3 DEF Typed, SessionsTyped
  <2>6. /\ JobsTyped' /\ Runs(p, "open") /\ Pending(p)' = Pending(p) \ {"open"}
        /\ Pending(p)' # {} => job'[p].admin = job[p].admin /\ job'[p].epoch = job[p].epoch
        /\ ended' \subseteq Session
    BY <1>1, <1>2, <2>2, RunsOn
  <2>7. Opened(p, j) BY <2>1, <2>4, <2>5 DEF Opened, Live
  <2>8. Typed' BY <1>1, <2>5, <2>6 DEF Typed
  <2> QED BY <1>1, <1>4, <2>6, <2>7, <2>8
<1> QED BY <1>3, <1>4

(* Session j has been renewed, if it was still there. *)
Renewed(p, j) ==
  /\ \A k \in Session : k # j => session'[k] = session[k]
  /\ IF j \in Session /\ Live(j) /\ session[j].left > 0
     THEN /\ Live(j)' /\ session'[j].user = session[j].user /\ session'[j].pw = session[j].pw
          /\ session'[j].raced = session[j].raced
          /\ session'[j].remember = session[j].remember
          /\ session'[j].epoch = job[p].epoch /\ session'[j].left = Long
          /\ session'[j].away = session[j].away
     ELSE UNCHANGED session

LEMMA ExtendDoes ==
  ASSUME Typed, NEW p \in Process, Extend(p), NEW j \in Session, j = job[p].jti
  PROVE  /\ Typed' /\ Runs(p, "extend") /\ UNCHANGED <<users, overlap>>
         /\ Pending(p)' = Pending(p) \ {"extend"}
         /\ Pending(p)' # {} => job'[p].admin = job[p].admin /\ job'[p].epoch = job[p].epoch
         /\ Renewed(p, j)
<1>1. /\ At(p, "extend") /\ UNCHANGED <<users, ticket, bumps, overlap>> /\ Bound
      /\ GoOn(p, job[p])
  BY DEF Extend, Bound
<1>2. job[p] \in JobRow BY <1>1, NextStatement DEF Typed
<1>3. /\ JobsTyped' /\ Runs(p, "extend") /\ Pending(p)' = Pending(p) \ {"extend"}
      /\ Pending(p)' # {} => job'[p].admin = job[p].admin /\ job'[p].epoch = job[p].epoch
      /\ ended' \subseteq Session
  BY <1>1, <1>2, RunsOn
<1>4. SessionsTyped' /\ Renewed(p, j)
  <2>1. CASE session[j].row = "live" /\ session[j].left > 0
    <3> DEFINE epoch == job[p].epoch
               r == session[j]
               x == session'[j]
    <3>1. session' = [session EXCEPT ![j].left = Long, ![j].epoch = epoch]
      BY <2>1 DEF Extend
    <3>2. r \in SessionRow BY <2>1, RowKinds DEF Typed, Live
    <3>3. epoch \in Nat /\ Long \in Nat BY <1>2, AccountsAssumption DEF JobRow
    <3> HIDE DEF epoch
    <3>4. x = [r EXCEPT !.left = Long, !.epoch = epoch] BY <3>1 DEF Typed, SessionsTyped
    <3>5. \A k \in Session \ {j} : session'[k] = session[k] BY <3>1 DEF Typed, SessionsTyped
    <3>6. DOMAIN session' = Session /\ session' = [k \in Session |-> session'[k]]
      BY <3>1 DEF Typed, SessionsTyped
    <3> HIDE DEF r, x
    <3>7. /\ x \in SessionRow /\ x.row = r.row /\ x.user = r.user /\ x.epoch = epoch
          /\ x.pw = r.pw /\ x.raced = r.raced /\ x.remember = r.remember
          /\ x.left = Long /\ x.away = r.away
      BY <3>2, <3>3, <3>4 DEF SessionRow
    <3>8. SessionsTyped'
      <4>1. \A k \in Session : session'[k] \in SessionRow \cup {Unborn, Deleted}
        BY <3>5, <3>7 DEF Typed, SessionsTyped, x
      <4> QED BY <3>6, <4>1 DEF SessionsTyped
    <3>9. Live(j)' /\ Live(j) /\ session[j].left > 0 BY <2>1, <3>7 DEF Live, x, r
    <3> QED BY <3>5, <3>7, <3>8, <3>9 DEF Renewed, x, r, epoch
  <2>2. CASE ~(session[j].row = "live" /\ session[j].left > 0)
    <3>1. UNCHANGED session BY <2>2 DEF Extend
    <3> QED BY <2>2, <3>1 DEF Renewed, Live, Typed, SessionsTyped
  <2> QED BY <2>1, <2>2
<1>5. Typed' BY <1>1, <1>3, <1>4 DEF Typed
<1> QED BY <1>1, <1>3, <1>4, <1>5

-----------------------------------------------------------------------------
(* The jobs that begin, and what else happens between them.                 *)
Whole(op, left) ==
  /\ op \in Ends \cup {"change"} => "revoke_all" \in left
  /\ left \cap Removal # {} => "check" \in left
  /\ left # {}

LEMMA WholeLists ==
  /\ \A op \in Operation : Whole(op, Elements(Statements(op)))
  /\ Whole("login", Elements(<<"reread", "open">>))
  /\ Whole("change", Elements(<<"set_password", "revoke_all", "reread", "open">>))
<1>1. ASSUME NEW op \in Operation PROVE Whole(op, Elements(Statements(op)))
  <2>1. CASE op = "password"
    <3>1. Statements(op) = <<"set_password", "revoke_all">> BY <2>1 DEF Statements
    <3> QED BY <2>1, <3>1, Tuples DEF Whole, Removal
  <2>2. CASE op = "disable"
    <3>1. Statements(op) = <<"check", "set_disabled", "revoke_all", "bump">>
      BY <2>2 DEF Statements
    <3> QED BY <2>2, <3>1, Tuples DEF Whole, Removal
  <2>3. CASE op = "revoke"
    <3>1. Statements(op) = <<"revoke_all", "bump">> BY <2>3 DEF Statements
    <3> QED BY <2>3, <3>1, Tuples DEF Whole, Removal
  <2>4. CASE op = "demote"
    <3>1. Statements(op) = <<"check", "demote">> BY <2>4 DEF Statements
    <3> QED BY <2>4, <3>1, Tuples DEF Whole, Removal, Ends
  <2>5. CASE op = "delete"
    <3>1. Statements(op) = <<"check", "delete">> BY <2>5 DEF Statements
    <3> QED BY <2>5, <3>1, Tuples DEF Whole, Removal, Ends
  <2>6. CASE op = "enable"
    <3>1. Statements(op) = <<"enable">> BY <2>6 DEF Statements
    <3> QED BY <2>6, <3>1, Tuples DEF Whole, Removal, Ends
  <2>7. CASE op = "promote"
    <3>1. Statements(op) = <<"promote">> BY <2>7 DEF Statements
    <3> QED BY <2>7, <3>1, Tuples DEF Whole, Removal, Ends
  <2> QED BY <2>1, <2>2, <2>3, <2>4, <2>5, <2>6, <2>7 DEF Operation
<1>2. Whole("login", Elements(<<"reread", "open">>)) BY Tuples DEF Whole, Removal, Ends
<1>3. Whole("change", Elements(<<"set_password", "revoke_all", "reread", "open">>))
  BY Tuples DEF Whole, Removal
<1> QED BY <1>1, <1>2, <1>3

(* Process p has begun operation op on account u. *)
Begun(p, op, u) ==
  /\ UNCHANGED <<users, session, ended, overlap>>
  /\ op \in Op \ {"renew"} /\ u \in Account /\ users[u].there
  /\ p = "cli" => op \in Operation
  /\ OthersGoOn(p) /\ Pending(p) = {} /\ Whole(op, Pending(p)') /\ Fits(op, Pending(p)')
  /\ job'[p].op = op /\ job'[p].user = u /\ job'[p].epoch = 0
  /\ job'[p].told = IF op \in Ends \cup {"change"} THEN Own(u) ELSE {}
  /\ job'[p].admin = ("check" \in Pending(p)' /\ EnabledAdmin(u))
  /\ bumps' = IF op \in Ends \cup {"change"} THEN bumps + 1 ELSE bumps

LEMMA BeginDoes ==
  ASSUME Typed, NEW p \in Process, NEW op \in Op \ {"renew"}, NEW u \in Account,
         NEW todo \in Plan(op), Whole(op, Elements(todo)), p = "cli" => op \in Operation,
         NEW keep \in BOOLEAN,
         Begin(p, Job(op, u, todo, keep, 0)),
         UNCHANGED <<users, session, ended, overlap>>,
         ticket' \in {NoTicket, ticket}
  PROVE  Typed' /\ Begun(p, op, u)
<1> DEFINE x == Job(op, u, todo, keep, 0)
<1>1. x.user = u /\ x.op = op BY DEF Job
<1>2. /\ job[p] = NoJob /\ users[u].there /\ job' = [job EXCEPT ![p] = x]
      /\ IF op \in Ends \cup {"change"} THEN bumps < MaxBumps /\ bumps' = bumps + 1
                                        ELSE bumps' = bumps
  BY <1>1 DEF Begin
<1>3. JobsTyped' /\ Starts(p, op, u, Elements(todo))
  <2>1. op \in Op /\ 0 \in Session \cup {0} OBVIOUS
  <2> QED BY <1>2, <2>1, JobStarts
<1>4. Fits(op, Elements(todo)) BY Plans DEF Step
<1>5. Typed'
  <2>1. bumps' \in 0..MaxBumps BY <1>2, AccountsAssumption DEF Typed
  <2> HIDE DEF x
  <2>2. SessionsTyped' BY DEF Typed, SessionsTyped
  <2> QED BY <1>3, <2>1, <2>2 DEF Typed
<1> QED BY <1>2, <1>3, <1>4, <1>5 DEF Begun, Starts

LEMMA BeginnersDo ==
  ASSUME Typed, NEW u \in Account, NEW keep \in BOOLEAN, NEW op \in Operation,
         Login(u, keep) \/ Administer(u, op) \/ ChangePassword \/ Command(u, op)
  PROVE  Typed' /\ \E p \in Process, o \in Op, v \in Account : Begun(p, o, v)
<1>1. op \in Operation /\ op \in Op \ {"renew"} /\ {"login", "change"} \subseteq Op \ {"renew"}
  BY DEF Op, Operation
<1>2. "server" \in Process /\ "cli" \in Process BY DEF Process
<1>3. CASE Login(u, keep)
  <2>1. Begin("server", Job("login", u, <<"reread", "open">>, keep, 0))
    BY <1>3 DEF Login
  <2>2. UNCHANGED <<users, session, ended, overlap>> /\ ticket' = ticket BY <1>3 DEF Login
  <2>3. Typed' /\ Begun("server", "login", u)
    BY <1>1, <1>2, <2>1, <2>2, Lists, WholeLists, BeginDoes
  <2> QED BY <1>1, <1>2, <2>3
<1>4. CASE Administer(u, op)
  <2>1. Begin("server", Job(op, u, Statements(op), FALSE, 0))
    BY <1>4 DEF Administer
  <2>2. UNCHANGED <<users, session, ended, overlap>> /\ ticket' = NoTicket
    BY <1>4 DEF Administer
  <2>3. Typed' /\ Begun("server", op, u)
    BY <1>1, <1>2, <2>1, <2>2, Lists, WholeLists, BeginDoes
  <2> QED BY <1>1, <1>2, <2>3
<1>5. CASE ChangePassword
  <2> DEFINE v == ticket.user
             kept == Row(ticket.jti) /\ session[ticket.jti].remember
             todo == <<"set_password", "revoke_all", "reread", "open">>
  <2>1. ticket.jti # 0 /\ UNCHANGED <<users, session, ended, overlap>> /\ ticket' = NoTicket
        /\ Begin("server", Job("change", v, todo, kept, 0))
    BY <1>5 DEF ChangePassword
  <2>2. ticket \in [jti : Session, user : Account, admin : BOOLEAN]
    BY <2>1 DEF Typed, NoTicket
  <2>3. v \in Account /\ ticket.jti \in Session BY <2>2
  <2>4. kept \in BOOLEAN
    <3>1. Row(ticket.jti) => session[ticket.jti].remember \in BOOLEAN
      BY <2>3, RowKinds DEF Typed, SessionRow
    <3> QED BY <3>1 DEF Row
  <2> HIDE DEF v, kept
  <2>6. Typed' /\ Begun("server", "change", v)
    <3>1. todo \in Plan("change") /\ Whole("change", Elements(todo)) BY Lists, WholeLists
    <3> HIDE DEF todo
    <3> QED BY <1>1, <1>2, <2>1, <2>3, <2>4, <3>1, BeginDoes
  <2> QED BY <1>1, <1>2, <2>3, <2>6
<1>6. CASE Command(u, op)
  <2>1. Begin("cli", Job(op, u, Statements(op), FALSE, 0))
    BY <1>6 DEF Command
  <2>2. UNCHANGED <<users, session, ended, overlap>> /\ ticket' = ticket
    BY <1>6 DEF Command
  <2>3. Typed' /\ Begun("cli", op, u)
    BY <1>1, <1>2, <2>1, <2>2, Lists, WholeLists, BeginDoes
  <2> QED BY <1>1, <1>2, <2>3
<1> QED BY <1>3, <1>4, <1>5, <1>6

(* Some sessions are over, or none; nobody runs a statement. *)
Struck ==
  /\ UNCHANGED <<users, job, bumps, overlap>>
  /\ \A j \in Session : Steady(j)
  /\ \A j \in ended' : j \in ended \/ Gone(j)'

LEMMA StrikeDoes ==
  ASSUME Typed, NEW j,
         \/ j \in Session /\ (FindIdle(j) \/ Logout(j))
         \/ RevokeOthers \/ Answer
  PROVE  Typed' /\ Struck
<1>1. ASSUME NEW S \in SUBSET Session, \A k \in S : Row(k),
             session' = [k \in Session |-> IF k \in S THEN Revoked(session[k]) ELSE session[k]],
             UNCHANGED <<users, job, bumps, overlap>>,
             ended' \subseteq ended \cup S, ticket' \in {NoTicket, ticket}
      PROVE  Typed' /\ Struck
  <2>1. SessionsTyped' /\ (\A k \in Session : Steady(k)) /\ \A k \in S : Gone(k)'
    BY <1>1, RowsRevoked DEF Typed
  <2>2. JobsTyped' BY <1>1, JobsStay DEF Typed
  <2>3. ended' \subseteq Session BY <1>1 DEF Typed
  <2>4. Typed' BY <1>1, <2>1, <2>2, <2>3 DEF Typed
  <2> QED BY <1>1, <2>1, <2>4 DEF Struck
<1>2. ASSUME j \in Session, FindIdle(j) \/ Logout(j) PROVE Typed' /\ Struck
  <2>1. Row(j) BY <1>2 DEF FindIdle, Logout, Valid, Accepted, Row
  <2>2. session' = [session EXCEPT ![j] = Revoked(session[j])]
    BY <1>2 DEF FindIdle, Logout
  <2> DEFINE S == {j}
  <2>3. /\ session' = [k \in Session |-> IF k \in S THEN Revoked(session[k]) ELSE session[k]]
        /\ S \in SUBSET Session /\ \A k \in S : Row(k)
    BY <1>2, <2>1, <2>2 DEF Typed, SessionsTyped
  <2>4. UNCHANGED <<users, job, bumps, overlap>> /\ ended' \subseteq ended \cup S
        /\ ticket' = ticket
    BY <1>2 DEF FindIdle, Logout
  <2> HIDE DEF S
  <2> QED BY <1>1, <2>3, <2>4
<1>3. CASE RevokeOthers
  <2> DEFINE S == Own(ticket.user) \ {ticket.jti}
  <2>1. S \in SUBSET Session /\ \A k \in S : Row(k) BY DEF Own
  <2>2. /\ session' = [k \in Session |-> IF k \in S THEN Revoked(session[k]) ELSE session[k]]
        /\ UNCHANGED <<users, job, bumps, overlap>>
        /\ ended' = ended \cup S /\ ticket' = NoTicket
    BY <1>3 DEF RevokeOthers, RevokeAll
  <2> HIDE DEF S
  <2> QED BY <1>1, <2>1, <2>2
<1>4. CASE Answer
  <2>1. UNCHANGED <<users, session, job, bumps, ended, overlap>> /\ ticket' = NoTicket
    BY <1>4 DEF Answer
  <2>2. SessionsTyped' /\ \A k \in Session : Steady(k) BY <2>1, RowsStay DEF Typed
  <2>3. JobsTyped' BY <2>1, JobsStay DEF Typed
  <2> QED BY <2>1, <2>2, <2>3 DEF Typed, Struck
<1> QED BY <1>2, <1>3, <1>4

(* Session j has been used. *)
Used(j) ==
  /\ \A k \in Session : Clocked(k) /\ Persists(k)
  /\ \A k \in Session \ {j} : session'[k] = session[k]
  /\ Live(j) /\ Live(j)' /\ session'[j].left = session[j].left
  /\ session[j].left > 0 /\ ~users[session[j].user].disabled
  /\ session[j].epoch = users[session[j].user].epoch /\ users[session[j].user].there
  /\ UNCHANGED <<users, bumps, ended, overlap>>

LEMMA AdmitDoes ==
  ASSUME Typed, NEW j \in Session, Admit(j)
  PROVE  Typed' /\ Used(j) /\ UNCHANGED job /\ session'[j].away = session[j].away
<1>1. /\ ticket' = [jti |-> j, user |-> session[j].user, admin |-> users[session[j].user].admin]
      /\ session' = Touched(j) /\ Valid(j) /\ UNCHANGED <<users, job, bumps, ended, overlap>>
  BY DEF Admit
<1>2. Live(j) /\ session[j] \in SessionRow BY <1>1, RowKinds DEF Valid, Accepted, Live, Typed
<1>3. session' = [Touched(j) EXCEPT ![j].away = session[j].away]
  <2> DEFINE r == session[j]
             x == [r EXCEPT !.quiet = 0]
  <2>1. r \in SessionRow BY <1>2
  <2>2. Touched(j) = [session EXCEPT ![j] = x] BY DEF Touched
  <2>3. x.away = r.away /\ DOMAIN x = DOMAIN r BY <2>1 DEF SessionRow
  <2>4. [x EXCEPT !.away = r.away] = x
    <3> HIDE DEF r
    <3> QED BY <2>1 DEF SessionRow
  <2> HIDE DEF x, r
  <2>5. [Touched(j) EXCEPT ![j] = [Touched(j)[j] EXCEPT !.away = r.away]] = Touched(j)
    BY <2>2, <2>4 DEF Typed, SessionsTyped
  <2> QED BY <1>1, <2>5 DEF r
<1>4. /\ SessionsTyped' /\ \A k \in Session : Clocked(k) /\ Persists(k)
      /\ \A k \in Session \ {j} : session'[k] = session[k]
      /\ Live(j)' /\ session'[j].left = session[j].left /\ session'[j].away = session[j].away
  BY <1>1, <1>3, RowTouched DEF Typed
<1>5. ticket' \in [jti : Session, user : Account, admin : BOOLEAN]
  <2>1. session[j].user \in Account /\ users[session[j].user].admin \in BOOLEAN
    BY <1>2 DEF Typed, SessionRow, UserRow
  <2> QED BY <1>1, <2>1
<1>6. JobsTyped' BY <1>1, JobsStay DEF Typed
<1>7. Typed' BY <1>1, <1>4, <1>5, <1>6 DEF Typed
<1> QED BY <1>1, <1>2, <1>4, <1>7 DEF Used, Valid, Accepted

LEMMA MeDoes ==
  ASSUME Typed, NEW j \in Session, Me(j)
  PROVE  /\ Typed' /\ Used(j) /\ Pending("server") = {}
         /\ session'[j].away = IF session[j].away <= Habit THEN 0 ELSE session[j].away
         /\ IF session[j].remember /\ Due(j)
            THEN /\ OthersGoOn("server") /\ Pending("server")' = {"reread", "extend"}
                 /\ job'["server"].op = "renew" /\ job'["server"].user = session[j].user
                 /\ job'["server"].epoch = 0 /\ job'["server"].told = {}
                 /\ ~job'["server"].admin /\ job'["server"].jti = j
            ELSE UNCHANGED job
<1> DEFINE away == IF session[j].away <= Habit THEN 0 ELSE session[j].away
           u == session[j].user
<1>1. /\ job["server"] = NoJob /\ Valid(j) /\ UNCHANGED <<users, ticket, bumps, ended, overlap>>
      /\ job' = IF session[j].remember /\ Due(j)
                THEN [job EXCEPT !["server"] = Job("renew", u, <<"reread", "extend">>, FALSE, j)]
                ELSE job
  BY DEF Me
<1>2. Live(j) /\ session[j] \in SessionRow BY <1>1, RowKinds DEF Valid, Accepted, Live, Typed
<1>3. session' = [Touched(j) EXCEPT ![j].away = away]
  <2>1. Touched(j)[j].away = session[j].away
    <3>1. Touched(j)[j] = [session[j] EXCEPT !.quiet = 0]
      BY DEF Touched, Typed, SessionsTyped
    <3> QED BY <1>2, <3>1 DEF SessionRow
  <2> QED BY <2>1 DEF Me
<1>4. away \in {session[j].away, 0} OBVIOUS
<1> HIDE DEF away
<1>5. /\ SessionsTyped' /\ \A k \in Session : Clocked(k) /\ Persists(k)
      /\ \A k \in Session \ {j} : session'[k] = session[k]
      /\ Live(j)' /\ session'[j].left = session[j].left /\ session'[j].away = away
  BY <1>1, <1>3, <1>4, RowTouched DEF Typed
<1>6. Used(j) BY <1>1, <1>2, <1>5 DEF Used, Valid, Accepted
<1>7. Pending("server") = {} BY <1>1 DEF Pending
<1>8. CASE session[j].remember /\ Due(j)
  <2>1. u \in Account /\ "renew" \in Op /\ "server" \in Process
    BY <1>2 DEF SessionRow, Op, Process
  <2>2. job' = [job EXCEPT !["server"] = Job("renew", u, <<"reread", "extend">>, FALSE, j)]
    BY <1>1, <1>8
  <2> HIDE DEF u
  <2>3. /\ JobsTyped' /\ Starts("server", "renew", u, Elements(<<"reread", "extend">>))
        /\ job'["server"].jti = j
    BY <1>1, <2>1, <2>2, Lists, JobStarts
  <2>4. /\ OthersGoOn("server") /\ Pending("server")' = {"reread", "extend"}
        /\ job'["server"].op = "renew" /\ job'["server"].user = u
        /\ job'["server"].epoch = 0 /\ job'["server"].told = {} /\ ~job'["server"].admin
    BY <2>3, Tuples DEF Starts, Ends
  <2>5. Typed' BY <1>1, <1>5, <2>3 DEF Typed
  <2> QED BY <1>5, <1>6, <1>7, <1>8, <2>3, <2>4, <2>5 DEF u, away
<1>9. CASE ~(session[j].remember /\ Due(j))
  <2>1. UNCHANGED job BY <1>1, <1>9
  <2>2. JobsTyped' BY <2>1, JobsStay DEF Typed
  <2>3. Typed' BY <1>1, <1>5, <2>2 DEF Typed
  <2> QED BY <1>5, <1>6, <1>7, <1>9, <2>1, <2>3 DEF away
<1> QED BY <1>8, <1>9

LEMMA TickDoes ==
  ASSUME Typed, Tick
  PROVE  /\ Typed' /\ UNCHANGED <<users, job, bumps, overlap>>
         /\ \A p \in Process : Pending(p) = {}
         /\ \A j \in Session : Clocked(j) /\ Persists(j)
         /\ \A j \in Session : Live(j)' /\ session'[j].remember /\ session'[j].away <= Habit =>
                /\ session[j].away <= Habit /\ session'[j].away = session[j].away + 1
                /\ session'[j].left = IF session[j].left > 0 THEN session[j].left - 1 ELSE 0
         /\ \A j \in ended' : j \in ended \/ Over(session'[j])
<1>1. /\ job = [p \in Process |-> NoJob] /\ session' = [j \in Session |-> Aged(session[j])]
      /\ ended' = ended \cup {j \in Session : Over(session'[j])}
      /\ UNCHANGED <<users, job, bumps, ticket, overlap>>
  BY DEF Tick
<1>2. \A p \in Process : Pending(p) = {} BY <1>1 DEF Pending
<1>3. /\ SessionsTyped' /\ \A j \in Session : Clocked(j) /\ Persists(j)
      /\ \A j \in Session : Live(j)' /\ session'[j].remember /\ session'[j].away <= Habit =>
                /\ session[j].away <= Habit /\ session'[j].away = session[j].away + 1
                /\ session'[j].left = IF session[j].left > 0 THEN session[j].left - 1 ELSE 0
  BY <1>1, RowsAge DEF Typed
<1>4. JobsTyped' BY <1>1, JobsStay DEF Typed
<1>5. Typed' BY <1>1, <1>3, <1>4 DEF Typed
<1> QED BY <1>1, <1>2, <1>3, <1>5

-----------------------------------------------------------------------------
(* What has been said to be over is over, and what is about to be said is   *)
(* over by then.                                                            *)
SaidIsOver == EndedIsOver /\ ToldIsEnded

LEMMA OverAfterRun ==
  ASSUME Inv, NEW p \in Process, NEW s, Runs(p, s), \A j \in Session : Persists(j),
         s = "revoke_all" => \A j \in Own(job[p].user) : Gone(j)'
  PROVE  SaidIsOver'
<1>1. /\ Moves(p, s) /\ s \in Pending(p) /\ job[p] \in JobRow
      /\ \A j \in ended' : j \in ended \/ (j \in job[p].told /\ Pending(p) = {s})
  BY DEF Runs
<1>2. ended \subseteq Session /\ SessionsTyped /\ JobsTyped BY DEF Inv, Typed
<1>3. ASSUME NEW j \in job[p].told
      PROVE  /\ session[j] # Unborn /\ (Row(j) => session[j].user = job[p].user)
             /\ "revoke_all" \notin Pending(p) \/ s = "revoke_all" => Gone(j)'
             /\ j \in Session
  <2>1. /\ session[j] # Unborn /\ (Row(j) => session[j].user = job[p].user)
        /\ "revoke_all" \in Pending(p) \/ Gone(j)
    BY <1>1 DEF Inv, ToldIsEnded
  <2>2. j \in Session BY <1>1 DEF JobRow
  <2>3. Row(j) \/ Gone(j) BY <1>2, <2>1, <2>2, RowKinds
  <2> QED BY <2>1, <2>2, <2>3 DEF Persists, Own
<1>4. EndedIsOver'
  <2> SUFFICES ASSUME NEW j \in ended' PROVE Gone(j)' \/ Over(session'[j])
    BY DEF EndedIsOver
  <2>1. CASE j \in ended BY <1>2, <2>1 DEF Inv, EndedIsOver, Persists
  <2>2. CASE j \notin ended BY <1>1, <1>3, <2>2
  <2> QED BY <2>1, <2>2
<1>5. ToldIsEnded'
  <2> SUFFICES ASSUME NEW q \in Process, Pending(q)' # {}, NEW j \in job'[q].told
        PROVE  /\ session'[j] # Unborn
               /\ Row(j)' => session'[j].user = job'[q].user
               /\ "revoke_all" \in Pending(q)' \/ Gone(j)'
    BY DEF ToldIsEnded
  <2>1. CASE q = p
    <3>1. /\ Pending(p)' = Pending(p) \ {s} /\ job'[p].user = job[p].user
          /\ job'[p].told = job[p].told
      BY <1>1, <2>1 DEF Moves
    <3> QED BY <1>3, <2>1, <3>1 DEF Persists
  <2>2. CASE q # p
    <3>1. job'[q] = job[q] /\ Pending(q)' = Pending(q) BY <1>1, <2>2 DEF Moves, OthersGoOn
    <3>2. job[q] \in JobRow BY <1>2, <3>1, JobStage
    <3>3. j \in job[q].told /\ j \in Session BY <3>1, <3>2 DEF JobRow
    <3>4. /\ session[j] # Unborn /\ (Row(j) => session[j].user = job[q].user)
          /\ "revoke_all" \in Pending(q) \/ Gone(j)
      BY <3>1, <3>3 DEF Inv, ToldIsEnded
    <3> QED BY <3>1, <3>3, <3>4 DEF Persists
  <2> QED BY <2>1, <2>2
<1> QED BY <1>4, <1>5 DEF SaidIsOver

(* The same, where no job moves, or one begins. *)
LEMMA OverBetween ==
  ASSUME Inv, \A j \in Session : Persists(j),
         \A j \in ended' : j \in ended \/ Gone(j)' \/ Over(session'[j]),
         \A q \in Process : \/ /\ Pending(q)' = Pending(q) /\ job'[q] = job[q]
                            \/ /\ \A j \in job'[q].told :
                                    /\ "revoke_all" \in Pending(q)' /\ j \in Own(job'[q].user)
  PROVE  SaidIsOver'
<1>2. ended \subseteq Session /\ SessionsTyped /\ JobsTyped BY DEF Inv, Typed
<1>4. EndedIsOver'
  <2> SUFFICES ASSUME NEW j \in ended' PROVE Gone(j)' \/ Over(session'[j])
    BY DEF EndedIsOver
  <2>1. CASE j \in ended BY <1>2, <2>1 DEF Inv, EndedIsOver, Persists
  <2> QED BY <2>1
<1>5. ToldIsEnded'
  <2> SUFFICES ASSUME NEW q \in Process, Pending(q)' # {}, NEW j \in job'[q].told
        PROVE  /\ session'[j] # Unborn
               /\ Row(j)' => session'[j].user = job'[q].user
               /\ "revoke_all" \in Pending(q)' \/ Gone(j)'
    BY DEF ToldIsEnded
  <2>1. CASE Pending(q)' = Pending(q) /\ job'[q] = job[q]
    <3>2. job[q] \in JobRow BY <1>2, <2>1, JobStage
    <3>3. j \in job[q].told /\ j \in Session BY <2>1, <3>2 DEF JobRow
    <3>4. /\ session[j] # Unborn /\ (Row(j) => session[j].user = job[q].user)
          /\ "revoke_all" \in Pending(q) \/ Gone(j)
      BY <2>1, <3>3 DEF Inv, ToldIsEnded
    <3> QED BY <2>1, <3>3, <3>4 DEF Persists
  <2>2. CASE ~(Pending(q)' = Pending(q) /\ job'[q] = job[q])
    <3>1. "revoke_all" \in Pending(q)' BY <2>2
    <3>2. j \in Session /\ Row(j) /\ session[j].user = job'[q].user BY <2>2 DEF Own
    <3>3. session[j] # Unborn BY <1>2, <3>2, RowKinds
    <3> QED BY <3>1, <3>2, <3>3 DEF Persists
  <2> QED BY <2>1, <2>2
<1> QED BY <1>4, <1>5 DEF SaidIsOver

-----------------------------------------------------------------------------
(* An enabled admin remains.                                                *)
AdminsLeft == AdminRemains /\ RemovalIsSafe

LEMMA AdminsAfterRun ==
  ASSUME Inv, NEW p \in Process, NEW s, Runs(p, s), UNCHANGED overlap,
         \A v \in Account : EnabledAdmin(v) => EnabledAdmin(v)',
         Pending(p)' # {} =>
           /\ job'[p].admin => job[p].admin /\ s # "check"
           /\ ~job'[p].admin => ~job[p].admin \/ OtherAdmin(job[p].user)
  PROVE  AdminsLeft'
<1>1. AdminRemains' BY DEF Inv, AdminRemains
<1>2. \A u : OtherAdmin(u) => (\E v \in Account \ {u} : EnabledAdmin(v)')
  BY DEF OtherAdmin
<1>3. RemovalIsSafe'
  <2> SUFFICES ASSUME NEW q \in Process, Pending(q)' # {}
        PROVE  /\ job'[q].admin => "check" \in Pending(q)'
               /\ Pending(q)' \cap Removal # {} /\ ~job'[q].admin =>
                    overlap' \/ \E v \in Account \ {job'[q].user} : EnabledAdmin(v)'
    BY DEF RemovalIsSafe, OtherAdmin
  <2>1. CASE q = p
    <3>1. /\ Pending(p)' = Pending(p) \ {s} /\ job'[p].user = job[p].user /\ Pending(p) # {}
      BY <2>1 DEF Runs, Moves
    <3>2. /\ job[p].admin => "check" \in Pending(p)
          /\ Pending(p) \cap Removal # {} /\ ~job[p].admin => overlap \/ OtherAdmin(job[p].user)
      BY <3>1 DEF Inv, RemovalIsSafe
    <3> QED BY <1>2, <2>1, <3>1, <3>2
  <2>2. CASE q # p
    <3>1. job'[q] = job[q] /\ Pending(q)' = Pending(q) BY <2>2 DEF Runs, Moves, OthersGoOn
    <3>2. /\ job[q].admin => "check" \in Pending(q)
          /\ Pending(q) \cap Removal # {} /\ ~job[q].admin => overlap \/ OtherAdmin(job[q].user)
      BY <3>1 DEF Inv, RemovalIsSafe
    <3> QED BY <1>2, <3>1, <3>2
  <2> QED BY <2>1, <2>2
<1> QED BY <1>1, <1>3 DEF AdminsLeft

LEMMA AdminsAfterRemoval ==
  ASSUME Inv, NEW p \in Process, NEW s \in Removal, Runs(p, s),
         Pending(p)' # {} => job'[p].admin = job[p].admin,
         \A v \in Account \ {job[p].user} : users'[v] = users[v],
         overlap' = (overlap \/ Overlaps(p))
  PROVE  AdminsLeft'
<1>1. /\ s \in Pending(p) /\ Moves(p, s) /\ Ordered(s, Pending(p)) /\ Fits(job[p].op, Pending(p))
  BY DEF Runs
<1>2. /\ job[p].admin => "check" \in Pending(p)
      /\ ~job[p].admin => overlap \/ OtherAdmin(job[p].user)
  BY <1>1 DEF Inv, RemovalIsSafe
<1>3. ~job[p].admin BY <1>1, <1>2 DEF Ordered, Removal
<1>4. AdminRemains'
  <2>1. \A v \in Account \ {job[p].user} : EnabledAdmin(v) => EnabledAdmin(v)'
    BY DEF EnabledAdmin
  <2>2. overlap => overlap' OBVIOUS
  <2> QED BY <1>2, <1>3, <2>1, <2>2 DEF AdminRemains, OtherAdmin
<1>5. ASSUME NEW q \in Process \ {p}, Pending(q) \cap Removal # {} PROVE overlap'
  BY <1>5 DEF Overlaps, Pending
<1>6. RemovalIsSafe'
  <2> SUFFICES ASSUME NEW q \in Process, Pending(q)' # {}
        PROVE  /\ job'[q].admin => "check" \in Pending(q)'
               /\ Pending(q)' \cap Removal # {} => overlap'
    BY DEF RemovalIsSafe
  <2>1. CASE q = p
    <3>1. Pending(p)' = Pending(p) \ {s} BY <1>1, <2>1 DEF Moves
    <3>2. Pending(p)' \cap Removal = {} BY <1>1, <3>1 DEF Fits, Removal
    <3> QED BY <1>3, <2>1, <3>2
  <2>2. CASE q # p
    <3>1. job'[q] = job[q] /\ Pending(q)' = Pending(q) BY <2>2 DEF Runs, Moves, OthersGoOn
    <3>2. job[q].admin => "check" \in Pending(q) BY <3>1 DEF Inv, RemovalIsSafe
    <3> QED BY <1>5, <2>2, <3>1, <3>2
  <2> QED BY <2>1, <2>2
<1> QED BY <1>4, <1>6 DEF AdminsLeft

LEMMA AdminsBetween ==
  ASSUME Inv, UNCHANGED <<users, overlap>>,
         \A q \in Process : \/ Pending(q)' = Pending(q) /\ job'[q] = job[q]
                            \/ /\ job'[q].admin => "check" \in Pending(q)'
                               /\ Pending(q)' \cap Removal = {}
                            \/ /\ Pending(q)' \cap Removal # {} => "check" \in Pending(q)'
                               /\ job'[q].admin =
                                    ("check" \in Pending(q)' /\ EnabledAdmin(job'[q].user))
  PROVE  AdminsLeft'
<1>1. AdminRemains' BY DEF Inv, AdminRemains, EnabledAdmin
<1>2. \A v \in Account : EnabledAdmin(v)' <=> EnabledAdmin(v) BY DEF EnabledAdmin
<1>3. RemovalIsSafe'
  <2> SUFFICES ASSUME NEW q \in Process, Pending(q)' # {}
        PROVE  /\ job'[q].admin => "check" \in Pending(q)'
               /\ Pending(q)' \cap Removal # {} /\ ~job'[q].admin =>
                    overlap' \/ \E v \in Account \ {job'[q].user} : EnabledAdmin(v)'
    BY DEF RemovalIsSafe, OtherAdmin
  <2>1. CASE Pending(q)' = Pending(q) /\ job'[q] = job[q]
    <3>1. /\ job[q].admin => "check" \in Pending(q)
          /\ Pending(q) \cap Removal # {} /\ ~job[q].admin => overlap \/ OtherAdmin(job[q].user)
      BY <2>1 DEF Inv, RemovalIsSafe
    <3> QED BY <1>2, <2>1, <3>1 DEF OtherAdmin
  <2>2. CASE ~(Pending(q)' = Pending(q) /\ job'[q] = job[q])
    BY <1>1, <1>2, <2>2 DEF AdminRemains
  <2> QED BY <2>1, <2>2
<1> QED BY <1>1, <1>3 DEF AdminsLeft

-----------------------------------------------------------------------------
(* Every bump of an epoch has been counted when its job began.              *)
LEMMA EpochsAfterRun ==
  ASSUME Inv, Typed', NEW p \in Process, NEW s, Runs(p, s),
         \A u \in Account :
           /\ users'[u].pw <= users'[u].epoch
           /\ \/ users'[u].epoch <= users[u].epoch
              \/ /\ users'[u].epoch = users[u].epoch + 1 /\ u = job[p].user
                 /\ s \in {"set_password", "bump"} /\ Pending(p)' = Pending(p) \ {s}
  PROVE  EpochsCovered'
<1> SUFFICES ASSUME NEW u \in Account
    PROVE  users'[u].epoch + Owes("server", u)' + Owes("cli", u)' <= bumps'
  BY DEF EpochsCovered
<1>1. /\ s \in Pending(p) /\ Moves(p, s) /\ Fits(job[p].op, Pending(p)) /\ bumps' = bumps
  BY DEF Runs, Bound
<1>2. \A q \in Process : Owes(q, u) \in {0, 1} /\ Owes(q, u)' \in {0, 1} BY DEF Owes
<1>3. \A q \in Process \ {p} : Owes(q, u)' = Owes(q, u) BY <1>1 DEF Moves, OthersGoOn, Owes
<1>4. Owes(p, u)' <= Owes(p, u)
  <2>1. CASE Pending(p)' = {} BY <1>2, <2>1 DEF Owes
  <2>2. CASE Pending(p)' # {}
    <3>1. Pending(p)' \subseteq Pending(p) /\ job'[p].user = job[p].user BY <1>1, <2>2 DEF Moves
    <3> QED BY <1>2, <3>1 DEF Owes
  <2> QED BY <2>1, <2>2
<1>5. ASSUME u = job[p].user, s \in {"set_password", "bump"}, Pending(p)' = Pending(p) \ {s}
      PROVE  Owes(p, u) = 1 /\ Owes(p, u)' = 0
  <2>1. Owes(p, u) = 1 BY <1>1, <1>5 DEF Owes
  <2>2. Pending(p)' \cap {"set_password", "bump"} = {} BY <1>1, <1>5 DEF Fits
  <2> QED BY <2>1, <2>2 DEF Owes
<1>6. users[u].epoch \in Nat /\ users'[u].epoch \in Nat /\ bumps \in Nat
  BY DEF Inv, Typed, UserRow
<1>7. users[u].epoch + Owes("server", u) + Owes("cli", u) <= bumps
  BY DEF Inv, EpochsCovered
<1>8. users'[u].epoch + Owes(p, u)' <= users[u].epoch + Owes(p, u)
  BY <1>2, <1>4, <1>5, <1>6
<1>9. CASE p = "server" BY <1>1, <1>2, <1>3, <1>6, <1>7, <1>8, <1>9 DEF Process
<1>10. CASE p = "cli" BY <1>1, <1>2, <1>3, <1>6, <1>7, <1>8, <1>10 DEF Process
<1> QED BY <1>9, <1>10 DEF Process

LEMMA EpochsAtBegin ==
  ASSUME Inv, Typed', NEW p \in Process, NEW op, NEW v, Begun(p, op, v)
  PROVE  EpochsCovered'
<1> SUFFICES ASSUME NEW u \in Account
    PROVE  /\ users'[u].epoch + Owes("server", u)' + Owes("cli", u)' <= bumps'
           /\ users'[u].pw <= users'[u].epoch
  BY DEF EpochsCovered
<1>1. \A q \in Process : Owes(q, u) \in {0, 1} /\ Owes(q, u)' \in {0, 1} BY DEF Owes
<1>2. \A q \in Process \ {p} : Owes(q, u)' = Owes(q, u) BY DEF Begun, OthersGoOn, Owes
<1>3. Owes(p, u) = 0 BY DEF Begun, Owes
<1>4. IF op \in Ends \cup {"change"} THEN bumps' = bumps + 1
                                     ELSE bumps' = bumps /\ Owes(p, u)' = 0
  <2>1. CASE op \in Ends \cup {"change"} BY <2>1 DEF Begun
  <2>2. CASE op \notin Ends \cup {"change"}
    <3>1. Pending(p)' \cap {"set_password", "bump"} = {} BY <2>2 DEF Begun, Fits, Ends
    <3> QED BY <2>2, <3>1 DEF Begun, Owes
  <2> QED BY <2>1, <2>2
<1>5. users[u].epoch \in Nat /\ bumps \in Nat /\ users' = users BY DEF Inv, Typed, UserRow, Begun
<1>6. users[u].epoch + Owes("server", u) + Owes("cli", u) <= bumps
      /\ users[u].pw <= users[u].epoch
  BY DEF Inv, EpochsCovered
<1>7. CASE p = "server" BY <1>1, <1>2, <1>3, <1>4, <1>5, <1>6, <1>7 DEF Process
<1>8. CASE p = "cli" BY <1>1, <1>2, <1>3, <1>4, <1>5, <1>6, <1>8 DEF Process
<1> QED BY <1>7, <1>8 DEF Process

LEMMA EpochsBetween ==
  ASSUME Inv, UNCHANGED <<users, bumps>>,
         \A q \in Process : \/ Pending(q)' = Pending(q) /\ job'[q] = job[q]
                            \/ Pending(q)' \cap {"set_password", "bump"} = {}
  PROVE  EpochsCovered'
<1> SUFFICES ASSUME NEW u \in Account
    PROVE  /\ users[u].epoch + Owes("server", u)' + Owes("cli", u)' <= bumps
           /\ users[u].pw <= users[u].epoch
  BY DEF EpochsCovered
<1>1. \A q \in Process : Owes(q, u) \in {0, 1} /\ Owes(q, u)' \in {0, 1} BY DEF Owes
<1>2. \A q \in Process : Owes(q, u)' = Owes(q, u) \/ Owes(q, u)' = 0 BY DEF Owes
<1>3. users[u].epoch \in Nat /\ bumps \in Nat BY DEF Inv, Typed, UserRow
<1>4. users[u].epoch + Owes("server", u) + Owes("cli", u) <= bumps
      /\ users[u].pw <= users[u].epoch
  BY DEF Inv, EpochsCovered
<1> QED BY <1>1, <1>2, <1>3, <1>4 DEF Process

-----------------------------------------------------------------------------
(* A row belongs to an account that is there.                               *)
UsersGrow ==
  \A u \in Account : users'[u].there => users[u].there /\ users[u].epoch <= users'[u].epoch

LEMMA BelongsAfterRun ==
  ASSUME Inv, Typed', NEW p \in Process, NEW s, Runs(p, s), UsersGrow,
         \A j \in Session : Persists(j) /\ RowBelongs(j)',
         Pending(p)' # {} => job'[p].epoch = job[p].epoch
                             \/ job'[p].epoch = users[job[p].user].epoch
  PROVE  RowsBelong'
<1> SUFFICES ASSUME NEW q \in Process, Pending(q)' # {}
    PROVE  /\ users'[job'[q].user].there => job'[q].epoch <= users'[job'[q].user].epoch
           /\ job'[q].op = "renew" =>
                /\ job'[q].jti \in Session /\ session'[job'[q].jti] # Unborn
                /\ session'[job'[q].jti].row \in {"live", "revoked"} =>
                     /\ session'[job'[q].jti].user = job'[q].user
                     /\ session'[job'[q].jti].remember
  BY DEF RowsBelong, JobBelongs, Row
<1>1. /\ Pending(q) # {} /\ job'[q].user = job[q].user /\ job'[q].op = job[q].op
      /\ job'[q].jti = job[q].jti
      /\ job'[q].epoch = job[q].epoch \/ job'[q].epoch = users[job[q].user].epoch
  BY DEF Runs, Moves, OthersGoOn
<1>2. job[q] \in JobRow BY <1>1, JobStage DEF Inv, Typed
<1>3. JobBelongs(q) BY DEF Inv, RowsBelong
<1> DEFINE u == job[q].user
<1>4. /\ u \in Account /\ users[u].epoch \in Nat /\ users'[u].epoch \in Nat /\ job[q].epoch \in Nat
  BY <1>2 DEF JobRow, Inv, Typed, UserRow
<1>5. users'[u].there => job'[q].epoch <= users'[u].epoch
  BY <1>1, <1>3, <1>4 DEF UsersGrow, JobBelongs
<1>6. ASSUME job[q].op = "renew", NEW j, j = job[q].jti
      PROVE  /\ j \in Session /\ session'[j] # Unborn
             /\ Row(j)' => session'[j].user = u /\ session'[j].remember
  BY <1>1, <1>3, <1>6 DEF JobBelongs, Persists
<1> QED BY <1>1, <1>5, <1>6 DEF Row

LEMMA BelongsBetween ==
  ASSUME Inv, UNCHANGED users, \A j \in Session : Persists(j) /\ RowBelongs(j)',
         \A q \in Process : \/ Pending(q)' = Pending(q) /\ job'[q] = job[q]
                            \/ /\ job'[q].epoch = 0 /\ job'[q].user \in Account
                               /\ job'[q].op = "renew" =>
                                    /\ job'[q].jti \in Session /\ Live(job'[q].jti)
                                    /\ session[job'[q].jti].user = job'[q].user
                                    /\ session[job'[q].jti].remember
  PROVE  RowsBelong'
<1> SUFFICES ASSUME NEW q \in Process, Pending(q)' # {}
    PROVE  /\ users[job'[q].user].there => job'[q].epoch <= users[job'[q].user].epoch
           /\ job'[q].op = "renew" =>
                /\ job'[q].jti \in Session /\ session'[job'[q].jti] # Unborn
                /\ session'[job'[q].jti].row \in {"live", "revoked"} =>
                     /\ session'[job'[q].jti].user = job'[q].user
                     /\ session'[job'[q].jti].remember
  BY DEF RowsBelong, JobBelongs, Row
<1>1. CASE Pending(q)' = Pending(q) /\ job'[q] = job[q]
  <2>1. JobBelongs(q) BY DEF Inv, RowsBelong
  <2> QED BY <1>1, <2>1 DEF JobBelongs, Persists, Row
<1>2. CASE ~(Pending(q)' = Pending(q) /\ job'[q] = job[q])
  <2>1. users[job'[q].user].epoch \in Nat BY <1>2 DEF Inv, Typed, UserRow
  <2>2. job'[q].op = "renew" => session[job'[q].jti] # Unborn
    BY <1>2, RowKinds DEF Inv, Typed
  <2> QED BY <1>2, <2>1, <2>2 DEF Persists, Row
<1> QED BY <1>1, <1>2

(* The rows. *)
LEMMA SteadyBelongs ==
  ASSUME Inv, Typed', UsersGrow, NEW j \in Session, Steady(j),
         Row(j)' => users'[session[j].user].there
  PROVE  Persists(j) /\ RowBelongs(j)'
<1>1. /\ Persists(j)
      /\ Row(j)' => Row(j) /\ session'[j].epoch = session[j].epoch
                    /\ (session'[j].left = session[j].left \/ session'[j].left = 0)
  BY SteadyRows DEF Inv, Typed
<1>2. ASSUME Row(j)'
      PROVE  /\ session'[j].left <= Lifetime(session'[j].remember)
             /\ users'[session'[j].user].there
             /\ session'[j].epoch <= users'[session'[j].user].epoch
  <2>1. Row(j) /\ session[j] \in SessionRow BY <1>1, <1>2, RowKinds DEF Inv, Typed
  <2>2. session'[j].user = session[j].user /\ session'[j].remember = session[j].remember
    BY <1>1, <1>2, <2>1, RowKinds DEF Persists, Inv, Typed
  <2>3. /\ session[j].left \in Nat /\ session[j].user \in Account /\ session[j].epoch \in Nat
        /\ Lifetime(session[j].remember) \in Nat
    BY <2>1, AccountsAssumption DEF SessionRow, Lifetime
  <2>4. /\ session[j].left <= Lifetime(session[j].remember)
        /\ session[j].epoch <= users[session[j].user].epoch
    BY <2>1 DEF Inv, RowsBelong, RowBelongs
  <2>5. users[session[j].user].epoch \in Nat /\ users'[session[j].user].epoch \in Nat
    BY <2>3 DEF Inv, Typed, UserRow
  <2> QED BY <1>1, <1>2, <2>2, <2>3, <2>4, <2>5 DEF UsersGrow
<1> QED BY <1>1, <1>2 DEF RowBelongs

LEMMA ClockedBelongs ==
  ASSUME Inv, Typed', UNCHANGED users, NEW j \in Session, Clocked(j)
  PROVE  RowBelongs(j)'
<1> SUFFICES ASSUME Row(j)'
    PROVE  /\ session'[j].left <= Lifetime(session'[j].remember)
           /\ users[session'[j].user].there
           /\ session'[j].epoch <= users[session'[j].user].epoch
  BY DEF RowBelongs
<1>1. Row(j) /\ session[j] \in SessionRow BY RowKinds DEF Inv, Typed, Clocked
<1>2. session[j].left \in Nat /\ Lifetime(session[j].remember) \in Nat
  BY <1>1, AccountsAssumption DEF SessionRow, Lifetime
<1>3. session'[j] \in SessionRow
  <2>1. session'[j] \in SessionRow \cup {Unborn, Deleted} BY DEF Typed, SessionsTyped
  <2> QED BY <2>1, Kinds DEF Row
<1>4. session'[j].left \in Nat BY <1>3 DEF SessionRow
<1>5. RowBelongs(j) BY DEF Inv, RowsBelong
<1> QED BY <1>1, <1>2, <1>4, <1>5 DEF Clocked, RowBelongs

-----------------------------------------------------------------------------
(* What is accepted, and what is renewed.                                   *)
Fresh == LiveIsCurrent /\ RenewsCurrent /\ RenewalIsTold
InTime == RenewsInTime /\ RenewsEnabled

(* Statement s of process p leaves the epoch of account v, or raises it.    *)
Raises(p, s, v) ==
  users'[v].there =>
    /\ \/ users'[v].epoch = users[v].epoch /\ users'[v].pw = users[v].pw
       \/ /\ users'[v].epoch > users[v].epoch
          /\ users'[v].pw = users[v].pw \/ (s = "set_password" /\ v = job[p].user)
    /\ users'[v].disabled => users[v].disabled \/ (s = "set_disabled" /\ v = job[p].user)

SteadyRun(p, s) ==
  /\ s \in Writes \cup {"check", "revoke_all", "delete", "reread"}
  /\ Runs(p, s)
  /\ s # "check" /\ s # "reread" => Pending(p)' = Pending(p) \ {s}
  /\ s = "reread" /\ Pending(p)' = {} /\ job[p].op = "renew" =>
       ~users[job[p].user].there \/ users[job[p].user].disabled
  /\ \A v \in Account : Raises(p, s, v)
  /\ \A j \in Session : Steady(j) /\ RowBelongs(j)'
  /\ s = "revoke_all" => \A j \in Own(job[p].user) : Gone(j)'

LEMMA ResettingStays ==
  ASSUME Inv, NEW p \in Process, NEW s, Runs(p, s), NEW j \in Session, Live(j), Live(j)',
         s = "revoke_all" => \A k \in Own(job[p].user) : Gone(k)',
         Resetting(j)
  PROVE  Resetting(j)'
<1>1. PICK q \in Process : /\ "revoke_all" \in Pending(q) /\ "set_password" \notin Pending(q)
                           /\ job[q].op \in Sets /\ j \in job[q].told
  BY DEF Resetting
<1>2. q # p
  <2> SUFFICES ASSUME q = p PROVE FALSE OBVIOUS
  <2>1. s = "revoke_all" BY <1>1 DEF Runs, Ordered, Fits, Sets
  <2>2. Row(j) /\ session[j].user = job[p].user
    BY <1>1 DEF Inv, ToldIsEnded, Live, Row
  <2>3. Gone(j)' BY <2>1, <2>2 DEF Own
  <2> QED BY <2>3 DEF Gone, Live
<1>3. job'[q] = job[q] /\ Pending(q)' = Pending(q) BY <1>2 DEF Runs, Moves, OthersGoOn
<1> QED BY <1>1, <1>3 DEF Resetting

LEMMA DisablingStays ==
  ASSUME Inv, NEW p \in Process, NEW s, Runs(p, s), NEW j \in Session, Live(j), Live(j)',
         s = "revoke_all" => \A k \in Own(job[p].user) : Gone(k)',
         NEW u, u = session[j].user, Disabling(u)
  PROVE  Disabling(u)'
<1>1. /\ "revoke_all" \in Pending("cli") /\ "set_disabled" \notin Pending("cli")
      /\ job["cli"].op = "disable" /\ job["cli"].user = u
  BY DEF Disabling
<1>2. p # "cli"
  <2> SUFFICES ASSUME p = "cli" PROVE FALSE OBVIOUS
  <2>1. s = "revoke_all" BY <1>1 DEF Runs, Ordered, Fits, Removal
  <2>2. Gone(j)' BY <1>1, <2>1 DEF Own, Live, Row
  <2> QED BY <2>2 DEF Gone, Live
<1>3. "cli" \in Process BY DEF Process
<1>4. job'["cli"] = job["cli"] /\ Pending("cli")' = Pending("cli")
  BY <1>2, <1>3 DEF Runs, Moves, OthersGoOn
<1> QED BY <1>1, <1>4 DEF Disabling

LEMMA RenewsStays ==
  ASSUME NEW p \in Process, NEW s, Runs(p, s), NEW j \in Session
  PROVE  /\ Renews(j)' => Renews(j)
         /\ Renews(j) => \/ Renews(j)' \/ (p = "server" /\ Pending(p)' = {})
<1>1. "server" \in Process BY DEF Process
<1> QED BY <1>1 DEF Renews, Runs, Moves, OthersGoOn

LEMMA FreshAfterRun ==
  ASSUME Inv, Typed', NEW p \in Process, NEW s, SteadyRun(p, s),
         s = "reread" => UNCHANGED users
  PROVE  Fresh'
<1> USE DEF SteadyRun
<1>1. ASSUME NEW j \in Session, Live(j)'
      PROVE  /\ Live(j) /\ session'[j] = session[j] /\ session[j].user \in Account
             /\ users'[session[j].user].there
             /\ session[j].epoch <= users[session[j].user].epoch
             /\ session[j].epoch \in Nat
             /\ users[session[j].user].epoch \in Nat /\ users'[session[j].user].epoch \in Nat
             /\ Resetting(j) => Resetting(j)'
  <2>1. Live(j) /\ session'[j] = session[j] BY <1>1, SteadyRows DEF Inv, Typed
  <2>2. session[j] \in SessionRow /\ Row(j) /\ Row(j)' BY <2>1, RowKinds DEF Inv, Typed, Row
  <2>3. users'[session[j].user].there BY <2>1, <2>2 DEF RowBelongs
  <2>4. session[j].epoch <= users[session[j].user].epoch BY <2>2 DEF Inv, RowsBelong, RowBelongs
  <2>5. session[j].user \in Account /\ session[j].epoch \in Nat BY <2>2 DEF SessionRow
  <2>6. users[session[j].user].epoch \in Nat /\ users'[session[j].user].epoch \in Nat
    BY <2>5 DEF Inv, Typed, UserRow
  <2>7. Resetting(j) => Resetting(j)' BY <1>1, <2>1, ResettingStays
  <2> QED BY <2>1, <2>3, <2>4, <2>5, <2>6, <2>7
<1>2. LiveIsCurrent'
  <2> SUFFICES ASSUME NEW j \in Session, Live(j)',
                      session'[j].epoch = users'[session'[j].user].epoch
        PROVE  OfToday(j)' \/ Resetting(j)'
    BY DEF LiveIsCurrent
  <2> DEFINE u == session[j].user
  <2>1. users'[u].epoch = users[u].epoch /\ users'[u].pw = users[u].pw BY <1>1 DEF Raises
  <2>2. OfToday(j) \/ Resetting(j) BY <1>1, <2>1 DEF Inv, LiveIsCurrent
  <2> QED BY <1>1, <2>1, <2>2 DEF OfToday
<1>3. RenewsCurrent'
  <2> SUFFICES ASSUME NEW j \in Session, Live(j)', Renews(j)'
        PROVE  /\ "reread" \in Pending("server")' => OfToday(j)' \/ Resetting(j)'
               /\ "reread" \notin Pending("server")'
                    /\ job'["server"].epoch = users'[session'[j].user].epoch =>
                      OfToday(j)' \/ Resetting(j)'
    BY DEF RenewsCurrent
  <2> DEFINE u == session[j].user
             good == OfToday(j) \/ Resetting(j)
  <2>1. /\ Renews(j) /\ Pending("server") # {} /\ job["server"].op = "renew"
        /\ job["server"].jti = j /\ "server" \in Process
    BY RenewsStays DEF Renews, Process
  <2>2. JobBelongs("server") BY <2>1 DEF Inv, RowsBelong
  <2>3. job["server"].user = u /\ job["server"].epoch <= users[u].epoch
    <3>1. Row(j) /\ RowBelongs(j) BY <1>1 DEF Live, Row, Inv, RowsBelong
    <3> QED BY <2>1, <2>2, <3>1 DEF JobBelongs, RowBelongs
  <2>4. /\ "reread" \in Pending("server") => good
        /\ "reread" \notin Pending("server") /\ job["server"].epoch = users[u].epoch => good
    BY <1>1, <2>1 DEF Inv, RenewsCurrent
  <2>5. job["server"].epoch \in Nat BY <2>1, JobStage DEF JobRow, Inv, Typed
  <2>6. CASE p = "server"
    <3>1. s = "reread" BY <2>1, <2>6 DEF Runs, Fits, Writes
    <3>2. UNCHANGED users /\ good BY <2>4, <2>6, <3>1 DEF Runs
    <3> QED BY <1>1, <3>2 DEF OfToday
  <2>7. CASE p # "server"
    <3>1. job'["server"] = job["server"] /\ Pending("server")' = Pending("server")
      BY <2>1, <2>7 DEF Runs, Moves, OthersGoOn
    <3>2. CASE users'[u].pw = users[u].pw
      <4>1. good => OfToday(j)' \/ Resetting(j)' BY <1>1, <3>2 DEF OfToday
      <4>2. users'[u].epoch >= users[u].epoch BY <1>1 DEF Raises
      <4> QED BY <1>1, <2>3, <2>4, <2>5, <3>1, <4>1, <4>2
    <3>3. CASE users'[u].pw # users[u].pw
      <4>1. s = "set_password" /\ u = job[p].user BY <1>1, <3>3 DEF Raises
      <4>2. "set_password" \in Pending(p) /\ "revoke_all" \in Pending(p)
            /\ job[p].op \in Sets
        BY <4>1 DEF Runs, Fits, Sets
      <4>3. j \in job[p].told BY <1>1, <2>1, <4>1, <4>2 DEF Inv, RenewalIsTold
      <4>4. /\ Pending(p)' = Pending(p) \ {s} /\ "revoke_all" \in Pending(p)'
            /\ "set_password" \notin Pending(p)'
        BY <4>1, <4>2
      <4>5. job'[p].op = job[p].op /\ job'[p].told = job[p].told BY <4>4 DEF Runs, Moves
      <4> QED BY <4>2, <4>3, <4>4, <4>5 DEF Resetting
    <3> QED BY <3>2, <3>3
  <2> QED BY <2>6, <2>7
<1>4. RenewalIsTold'
  <2> SUFFICES ASSUME NEW q \in Process, "set_password" \in Pending(q)', NEW j \in Session,
                      Live(j)', session'[j].user = job'[q].user, j \notin job'[q].told
        PROVE  ~Renews(j)' /\ (session'[j].remember => session'[j].left = Long)
    BY DEF RenewalIsTold
  <2>1. "set_password" \in Pending(q) /\ job'[q].user = job[q].user /\ job'[q].told = job[q].told
    BY DEF Runs, Moves, OthersGoOn
  <2>2. ~Renews(j) /\ (session[j].remember => session[j].left = Long)
    BY <1>1, <2>1 DEF Inv, RenewalIsTold
  <2> QED BY <1>1, <2>2, RenewsStays
<1> QED BY <1>2, <1>3, <1>4 DEF Fresh

LEMMA InTimeAfterRun ==
  ASSUME Inv, Typed', NEW p \in Process, NEW s, SteadyRun(p, s)
  PROVE  InTime'
<1> USE DEF SteadyRun
<1>1. ASSUME NEW j \in Session, Live(j)'
      PROVE  /\ Live(j) /\ session'[j] = session[j] /\ session[j].user \in Account
             /\ users'[session[j].user].there /\ users[session[j].user].there
             /\ Disabling(session[j].user) => Disabling(session[j].user)'
  <2>1. Live(j) /\ session'[j] = session[j] BY <1>1, SteadyRows DEF Inv, Typed
  <2>2. session[j] \in SessionRow /\ Row(j) /\ Row(j)' BY <2>1, RowKinds DEF Inv, Typed, Row
  <2>3. users'[session[j].user].there BY <2>1, <2>2 DEF RowBelongs
  <2>4. users[session[j].user].there BY <2>2 DEF Inv, RowsBelong, RowBelongs
  <2>5. session[j].user \in Account BY <2>2 DEF SessionRow
  <2>6. ASSUME NEW u, u = session[j].user, Disabling(u) PROVE Disabling(session[j].user)'
    <3>1. Disabling(u)' BY <1>1, <2>1, <2>6, DisablingStays
    <3> QED BY <2>1, <2>6, <3>1 DEF Disabling
  <2> QED BY <2>1, <2>3, <2>4, <2>5, <2>6
<1>2. RenewsEnabled'
  <2> SUFFICES ASSUME NEW j \in Session, Live(j)', Renews(j)'
        PROVE  ~users'[session'[j].user].disabled \/ Disabling(session[j].user)'
    BY DEF RenewsEnabled
  <2> DEFINE u == session[j].user
  <2>1. Renews(j) BY RenewsStays
  <2>2. ~users[u].disabled \/ Disabling(u) BY <1>1, <2>1 DEF Inv, RenewsEnabled
  <2>3. CASE users[u].disabled \/ ~users'[u].disabled BY <1>1, <2>2, <2>3
  <2>4. CASE ~users[u].disabled /\ users'[u].disabled
    <3>1. s = "set_disabled" /\ u = job[p].user BY <1>1, <2>4 DEF Raises
    <3>2. /\ job[p].op = "disable" /\ "revoke_all" \in Pending(p)
          /\ Pending(p)' = Pending(p) \ {s}
      BY <3>1 DEF Runs, Fits
    <3>3. job'[p].op = job[p].op /\ job'[p].user = job[p].user BY <3>1, <3>2 DEF Runs, Moves
    <3>4. p = "cli" BY <3>2, <2>1 DEF Renews, Process
    <3> QED BY <1>1, <3>1, <3>2, <3>3, <3>4 DEF Disabling
  <2> QED BY <2>3, <2>4
<1>3. RenewsInTime'
  <2> SUFFICES ASSUME NEW j \in Session, Live(j)', session'[j].remember, session'[j].away <= Habit
        PROVE  /\ session'[j].left > 0
               /\ session'[j].left + session'[j].away > Habit
                  \/ Renews(j)' \/ Disabling(session[j].user)'
    BY DEF RenewsInTime
  <2> DEFINE u == session[j].user
  <2>1. /\ session[j].left > 0
        /\ session[j].left + session[j].away > Habit \/ Renews(j) \/ Disabling(u)
    BY <1>1 DEF Inv, RenewsInTime
  <2>2. ASSUME Renews(j), ~Renews(j)' PROVE Disabling(u)
    <3>1. p = "server" /\ Pending(p)' = {} /\ "server" \in Process BY <2>2, RenewsStays
    <3>2. job[p].op = "renew" /\ job[p].jti = j /\ Pending(p) # {} BY <2>2, <3>1 DEF Renews
    <3>3. s = "reread" BY <3>1, <3>2 DEF Runs, Fits, Writes
    <3>4. job[p].user = u
      <4>1. JobBelongs(p) /\ Row(j) BY <1>1 DEF Inv, RowsBelong, Live, Row
      <4> QED BY <3>2, <4>1 DEF JobBelongs
    <3>5. users[u].disabled BY <1>1, <3>1, <3>2, <3>3, <3>4
    <3> QED BY <1>1, <2>2, <3>5 DEF Inv, RenewsEnabled
  <2> QED BY <1>1, <2>1, <2>2
<1> QED BY <1>2, <1>3 DEF InTime

(* Between the statements: a job begins, a session is used or over, time    *)
(* passes.                                                                  *)
Alike(j) ==
  /\ Live(j) /\ session[j] \in SessionRow /\ session'[j].user = session[j].user
  /\ session'[j].epoch = session[j].epoch /\ session'[j].pw = session[j].pw
  /\ session'[j].raced = session[j].raced /\ session'[j].remember = session[j].remember

Same(q) == Pending(q)' = Pending(q) /\ job'[q] = job[q]
Renewing(q) ==
  /\ q = "server" /\ Pending(q)' = {"reread", "extend"}
  /\ \A j \in Session : Live(j)' /\ job'[q].jti = j =>
       /\ session[j].epoch = users[session[j].user].epoch /\ session[j].remember
       /\ session[j].left # Long /\ ~users[session[j].user].disabled
NextJob(q) ==
  \/ Same(q)
  \/ /\ Pending(q) = {}
     /\ \/ /\ job'[q].op # "renew"
           /\ "set_password" \in Pending(q)' => job'[q].told = Own(job'[q].user)
        \/ Renewing(q)

LEMMA AlikeRows ==
  ASSUME SessionsTyped, SessionsTyped', NEW j \in Session, Clocked(j) \/ Steady(j), Live(j)'
  PROVE  Alike(j)
<1>1. CASE Steady(j)
  <2>1. session'[j] = session[j] /\ Live(j) BY <1>1, SteadyRows
  <2>2. session[j] \in SessionRow BY <2>1, RowKinds
  <2> QED BY <2>1, <2>2 DEF Alike
<1>2. CASE Clocked(j)
  <2>1. Live(j) /\ Row(j) BY <1>2, RowKinds DEF Clocked
  <2>2. session[j] \in SessionRow BY <2>1, RowKinds
  <2> QED BY <1>2, <2>1, <2>2 DEF Alike, Clocked
<1> QED BY <1>1, <1>2

LEMMA FreshBetween ==
  ASSUME Inv, UNCHANGED users, \A q \in Process : NextJob(q),
         \A j \in Session : Live(j)' => Alike(j),
         \A j \in Session : Live(j)' => \/ session'[j].left = session[j].left
                                        \/ \A q \in Process : Pending(q)' = {}
  PROVE  Fresh'
<1>1. ASSUME NEW j \in Session, Live(j)'
      PROVE  OfToday(j) \/ Resetting(j) => OfToday(j)' \/ Resetting(j)'
  <2>1. CASE OfToday(j) BY <1>1, <2>1 DEF OfToday, Alike
  <2>2. CASE Resetting(j)
    <3>1. PICK q \in Process : /\ "revoke_all" \in Pending(q) /\ "set_password" \notin Pending(q)
                               /\ job[q].op \in Sets /\ j \in job[q].told
      BY <2>2 DEF Resetting
    <3>2. Same(q) BY <3>1 DEF NextJob
    <3> QED BY <3>1, <3>2 DEF Resetting, Same
  <2> QED BY <2>1, <2>2
<1>2. LiveIsCurrent'
  <2> SUFFICES ASSUME NEW j \in Session, Live(j)',
                      session'[j].epoch = users'[session'[j].user].epoch
        PROVE  OfToday(j)' \/ Resetting(j)'
    BY DEF LiveIsCurrent
  <2>1. OfToday(j) \/ Resetting(j) BY DEF Inv, LiveIsCurrent, Alike
  <2> QED BY <1>1, <2>1
<1>3. "server" \in Process BY DEF Process
<1>4. RenewsCurrent'
  <2> SUFFICES ASSUME NEW j \in Session, Live(j)', Renews(j)'
        PROVE  /\ "reread" \in Pending("server")' => OfToday(j)' \/ Resetting(j)'
               /\ "reread" \notin Pending("server")'
                    /\ job'["server"].epoch = users'[session'[j].user].epoch =>
                      OfToday(j)' \/ Resetting(j)'
    BY DEF RenewsCurrent
  <2>1. CASE Same("server")
    <3>1. Renews(j) BY <2>1 DEF Renews, Same
    <3>2. /\ "reread" \in Pending("server") => OfToday(j) \/ Resetting(j)
          /\ "reread" \notin Pending("server")
               /\ job["server"].epoch = users[session[j].user].epoch =>
                    OfToday(j) \/ Resetting(j)
      BY <3>1 DEF Inv, RenewsCurrent, Alike
    <3> QED BY <1>1, <2>1, <3>2 DEF Same, Alike
  <2>2. CASE ~Same("server")
    <3>1. Renewing("server") /\ job'["server"].jti = j
      BY <1>3, <2>2 DEF NextJob, Renews
    <3>2. OfToday(j) \/ Resetting(j)
      BY <3>1 DEF Renewing, Inv, LiveIsCurrent, Alike
    <3> QED BY <1>1, <3>2
  <2> QED BY <2>1, <2>2
<1>5. RenewalIsTold'
  <2> SUFFICES ASSUME NEW q \in Process, "set_password" \in Pending(q)', NEW j \in Session,
                      Live(j)', session'[j].user = job'[q].user, j \notin job'[q].told
        PROVE  ~Renews(j)' /\ (session'[j].remember => session'[j].left = Long)
    BY DEF RenewalIsTold
  <2>1. Same(q)
    <3>1. ~Renewing(q) BY DEF Renewing
    <3>2. j \in Own(session'[j].user) BY DEF Alike, Own, Row, Live
    <3> QED BY <3>1, <3>2 DEF NextJob
  <2>2. ~Renews(j) /\ (session[j].remember => session[j].left = Long)
    BY <2>1 DEF Inv, RenewalIsTold, Alike, Same
  <2>3. session'[j].remember => session'[j].left = Long BY <2>2 DEF Alike
  <2>4. ~Renews(j)'
    <3>1. CASE Same("server") BY <2>2, <3>1 DEF Renews, Same
    <3>2. CASE ~Same("server")
      <4> SUFFICES ASSUME Renews(j)' PROVE FALSE OBVIOUS
      <4>1. Renewing("server") /\ job'["server"].jti = j
        BY <1>3, <3>2 DEF NextJob, Renews
      <4> QED BY <2>2, <4>1 DEF Renewing
    <3> QED BY <3>1, <3>2
  <2> QED BY <2>3, <2>4
<1> QED BY <1>2, <1>4, <1>5 DEF Fresh

LEMMA InTimeBetween ==
  ASSUME Inv, UNCHANGED users, \A q \in Process : NextJob(q),
         \A j \in Session : Live(j)' => Alike(j),
         \A j \in Session : Live(j)' /\ session'[j].remember /\ session'[j].away <= Habit =>
           /\ session'[j].left > 0
           /\ \/ session'[j].left + session'[j].away > Habit
              \/ Renews(j) \/ Renews(j)' \/ Disabling(session[j].user)
  PROVE  InTime'
<1>1. "server" \in Process /\ "cli" \in Process BY DEF Process
<1>2. ASSUME NEW j \in Session PROVE Renews(j) => Renews(j)'
  BY <1>1 DEF NextJob, Renews, Same
<1>3. ASSUME NEW j \in Session, Live(j)', Disabling(session[j].user)
      PROVE  Disabling(session[j].user)'
  <2>1. Same("cli") BY <1>1, <1>3 DEF NextJob, Disabling
  <2> QED BY <1>3, <2>1 DEF Same, Disabling, Alike
<1>4. RenewsEnabled'
  <2> SUFFICES ASSUME NEW j \in Session, Live(j)', Renews(j)'
        PROVE  ~users'[session'[j].user].disabled \/ Disabling(session[j].user)'
    BY DEF RenewsEnabled
  <2>1. CASE Same("server")
    <3>1. Renews(j) BY <2>1 DEF Renews, Same
    <3>2. ~users[session[j].user].disabled \/ Disabling(session[j].user)
      BY <3>1 DEF Inv, RenewsEnabled, Alike
    <3> QED BY <1>3, <3>2 DEF Alike
  <2>2. CASE ~Same("server")
    <3>1. Renewing("server") /\ job'["server"].jti = j
      BY <1>1, <2>2 DEF NextJob, Renews
    <3> QED BY <3>1 DEF Renewing, Alike
  <2> QED BY <2>1, <2>2
<1>5. RenewsInTime' BY <1>2, <1>3 DEF RenewsInTime
<1> QED BY <1>4, <1>5 DEF InTime

LEMMA HabitIsHalf == Habit \in Nat /\ Long \in Nat /\ Habit < Long /\ 2 * Habit <= Long
                     /\ Long <= 2 * Habit + 1
BY AccountsAssumption DEF Habit

(* A session is opened, or renewed: a row that is not k stays as it is.     *)
LEMMA AfterOpen ==
  ASSUME Inv, Typed', NEW p \in Process, Runs(p, "open"), UNCHANGED users,
         UNCHANGED session \/ (users[job[p].user].there /\ \E j \in Session : Opened(p, j))
  PROVE  Fresh' /\ InTime'
<1>1. "server" \in Process /\ p = "server" /\ job[p].op # "renew"
  BY DEF Runs, Fits, Operation, Process
<1>2. \A k \in Session : ~Renews(k) /\ ~Renews(k)'
  BY <1>1, RenewsStays DEF Renews
<1>3. ASSUME NEW k \in Session, Live(k)'
      PROVE  \/ /\ session'[k] = session[k] /\ Live(k) /\ session[k] \in SessionRow
                /\ Resetting(k) => Resetting(k)'
                /\ Disabling(session[k].user) => Disabling(session[k].user)'
             \/ /\ OfToday(k)' /\ session'[k].left = Lifetime(session'[k].remember)
                /\ session'[k].away = 0
  <2>1. CASE session'[k] = session[k]
    <3>1. Live(k) /\ session[k] \in SessionRow BY <1>3, <2>1, RowKinds DEF Live, Inv, Typed
    <3>2. Resetting(k) => Resetting(k)' BY <1>3, <3>1, ResettingStays
    <3>3. ASSUME NEW u, u = session[k].user, Disabling(u) PROVE Disabling(session[k].user)'
      <4>1. Disabling(u)' BY <1>3, <3>1, <3>3, DisablingStays
      <4> QED BY <2>1, <3>3, <4>1 DEF Disabling
    <3> QED BY <2>1, <3>1, <3>2, <3>3
  <2>2. CASE session'[k] # session[k]
    <3>1. Opened(p, k) BY <2>2 DEF Opened
    <3>2. OfToday(k)'
      <4>1. users'[session'[k].user] = users[job[p].user] BY <3>1 DEF Opened
      <4> QED BY <3>1, <4>1 DEF Opened, OfToday
    <3> QED BY <3>1, <3>2 DEF Opened
  <2> QED BY <2>1, <2>2
<1>4. LiveIsCurrent'
  <2> SUFFICES ASSUME NEW j \in Session, Live(j)',
                      session'[j].epoch = users'[session'[j].user].epoch
        PROVE  OfToday(j)' \/ Resetting(j)'
    BY DEF LiveIsCurrent
  <2>1. CASE OfToday(j)' BY <2>1
  <2>2. CASE ~OfToday(j)'
    <3>1. session'[j] = session[j] /\ Live(j) /\ (Resetting(j) => Resetting(j)') BY <1>3, <2>2
    <3>2. OfToday(j) \/ Resetting(j) BY <3>1 DEF Inv, LiveIsCurrent
    <3> QED BY <3>1, <3>2 DEF OfToday
  <2> QED BY <2>1, <2>2
<1>5. RenewsCurrent' BY <1>2 DEF RenewsCurrent
<1>6. RenewalIsTold'
  <2> SUFFICES ASSUME NEW q \in Process, "set_password" \in Pending(q)', NEW j \in Session,
                      Live(j)', session'[j].user = job'[q].user, j \notin job'[q].told
        PROVE  session'[j].remember => session'[j].left = Long
    BY <1>2 DEF RenewalIsTold
  <2>1. "set_password" \in Pending(q) /\ job'[q].user = job[q].user /\ job'[q].told = job[q].told
    BY DEF Runs, Moves, OthersGoOn
  <2> QED BY <1>3, <2>1 DEF Inv, RenewalIsTold, Lifetime
<1>7. RenewsEnabled' BY <1>2 DEF RenewsEnabled
<1>8. RenewsInTime'
  <2> SUFFICES ASSUME NEW j \in Session, Live(j)', session'[j].remember, session'[j].away <= Habit
        PROVE  /\ session'[j].left > 0
               /\ session'[j].left + session'[j].away > Habit \/ Disabling(session[j].user)'
    BY DEF RenewsInTime
  <2>1. CASE session'[j].left = Lifetime(session'[j].remember) /\ session'[j].away = 0
    BY <2>1, HabitIsHalf DEF Lifetime
  <2>2. CASE ~(session'[j].left = Lifetime(session'[j].remember) /\ session'[j].away = 0)
    BY <1>2, <1>3, <2>2 DEF Inv, RenewsInTime
  <2> QED BY <2>1, <2>2
<1> QED BY <1>4, <1>5, <1>6, <1>7, <1>8 DEF Fresh, InTime

LEMMA AfterExtend ==
  ASSUME Inv, Typed', NEW p \in Process, Runs(p, "extend"), UNCHANGED users,
         NEW k \in Session, k = job[p].jti, Renewed(p, k),
         Pending(p)' # {} => job'[p].epoch = job[p].epoch
  PROVE  Fresh' /\ InTime'
<1>1. /\ "server" \in Process /\ p = "server" /\ job[p].op = "renew" /\ Renews(k)
      /\ "reread" \notin Pending(p)
  BY DEF Runs, Ordered, Fits, Operation, Process, Renews
<1>2. \A j \in Session : Renews(j) => j = k BY <1>1 DEF Renews
<1>3. ASSUME NEW j \in Session, Live(j)'
      PROVE  /\ Live(j) /\ session'[j].user = session[j].user /\ session'[j].pw = session[j].pw
             /\ session'[j].raced = session[j].raced
             /\ session'[j].remember = session[j].remember
             /\ session'[j].away = session[j].away
             /\ OfToday(j) \/ Resetting(j) => OfToday(j)' \/ Resetting(j)'
             /\ Disabling(session[j].user) => Disabling(session[j].user)'
             /\ \/ session'[j] = session[j]
                \/ /\ j = k /\ session'[j].left = Long /\ session'[j].epoch = job[p].epoch
             /\ j = k => \/ session'[j].left = Long \/ ~(session[j].left > 0)
  <2>1. /\ Live(j) /\ session'[j].user = session[j].user /\ session'[j].pw = session[j].pw
        /\ session'[j].raced = session[j].raced
        /\ session'[j].remember = session[j].remember
        /\ session'[j].away = session[j].away
        /\ \/ session'[j] = session[j]
           \/ j = k /\ session'[j].left = Long /\ session'[j].epoch = job[p].epoch
        /\ j = k => \/ session'[j].left = Long \/ ~(session[j].left > 0)
    BY <1>3 DEF Renewed, Live
  <2>2. Resetting(j) => Resetting(j)' BY <1>3, <2>1, ResettingStays
  <2>3. OfToday(j) => OfToday(j)' BY <2>1 DEF OfToday
  <2>4. ASSUME NEW u, u = session[j].user, Disabling(u) PROVE Disabling(session[j].user)'
    <3>1. Disabling(u)' BY <1>3, <2>1, <2>4, DisablingStays
    <3> QED BY <2>1, <2>4, <3>1 DEF Disabling
  <2> QED BY <2>1, <2>2, <2>3, <2>4
<1>4. ASSUME Live(k), job[p].epoch = users[session[k].user].epoch
      PROVE  OfToday(k) \/ Resetting(k)
  BY <1>1, <1>4 DEF Inv, RenewsCurrent
<1>5. LiveIsCurrent'
  <2> SUFFICES ASSUME NEW j \in Session, Live(j)',
                      session'[j].epoch = users[session'[j].user].epoch
        PROVE  OfToday(j)' \/ Resetting(j)'
    BY DEF LiveIsCurrent
  <2>1. CASE session'[j] = session[j] BY <1>3, <2>1 DEF Inv, LiveIsCurrent
  <2>2. CASE session'[j] # session[j] BY <1>3, <1>4, <2>2
  <2> QED BY <2>1, <2>2
<1>6. RenewsCurrent'
  <2> SUFFICES ASSUME NEW j \in Session, Live(j)', Renews(j)',
                      job'["server"].epoch = users[session'[j].user].epoch
        PROVE  OfToday(j)' \/ Resetting(j)'
    <3>1. ASSUME NEW j \in Session, Renews(j)' PROVE "reread" \notin Pending("server")'
      BY <1>1, <3>1 DEF Renews, Runs, Moves
    <3> QED BY <3>1 DEF RenewsCurrent
  <2>1. j = k /\ Pending(p)' # {} BY <1>1, <1>2, RenewsStays DEF Renews
  <2> QED BY <1>1, <1>3, <1>4, <2>1
<1>7. RenewalIsTold'
  <2> SUFFICES ASSUME NEW q \in Process, "set_password" \in Pending(q)', NEW j \in Session,
                      Live(j)', session'[j].user = job'[q].user, j \notin job'[q].told
        PROVE  ~Renews(j)' /\ (session'[j].remember => session'[j].left = Long)
    BY DEF RenewalIsTold
  <2>1. "set_password" \in Pending(q) /\ job'[q].user = job[q].user /\ job'[q].told = job[q].told
    BY DEF Runs, Moves, OthersGoOn
  <2>2. ~Renews(j) /\ (session[j].remember => session[j].left = Long)
    BY <1>3, <2>1 DEF Inv, RenewalIsTold
  <2>3. session'[j] = session[j] BY <1>1, <1>3, <2>2
  <2> QED BY <2>2, <2>3, RenewsStays
<1>8. RenewsEnabled'
  <2> SUFFICES ASSUME NEW j \in Session, Live(j)', Renews(j)'
        PROVE  ~users[session'[j].user].disabled \/ Disabling(session[j].user)'
    BY DEF RenewsEnabled
  <2>1. Renews(j) BY RenewsStays
  <2> QED BY <1>3, <2>1 DEF Inv, RenewsEnabled
<1>9. RenewsInTime'
  <2> SUFFICES ASSUME NEW j \in Session, Live(j)', session'[j].remember, session'[j].away <= Habit
        PROVE  /\ session'[j].left > 0
               /\ session'[j].left + session'[j].away > Habit \/ Disabling(session[j].user)'
    BY DEF RenewsInTime
  <2>1. /\ session[j].left > 0
        /\ session[j].left + session[j].away > Habit \/ Renews(j) \/ Disabling(session[j].user)
    BY <1>3 DEF Inv, RenewsInTime
  <2>2. CASE j = k
    <3>1. session[j] \in SessionRow BY <1>3, RowKinds DEF Inv, Typed
    <3>2. session'[j].away \in Nat BY <1>3, <3>1 DEF SessionRow
    <3> QED BY <1>3, <2>1, <2>2, <3>2, HabitIsHalf
  <2>3. CASE j # k BY <1>2, <1>3, <2>1, <2>3
  <2> QED BY <2>2, <2>3
<1> QED BY <1>5, <1>6, <1>7, <1>8, <1>9 DEF Fresh, InTime

-----------------------------------------------------------------------------
(* Each step keeps all of it.                                               *)
LEMMA Parts ==
  /\ Inv <=> /\ Typed /\ EpochsCovered /\ RowsBelong /\ SaidIsOver
             /\ Fresh /\ AdminsLeft /\ InTime
  /\ Inv' <=> /\ Typed' /\ EpochsCovered' /\ RowsBelong' /\ SaidIsOver'
              /\ Fresh' /\ AdminsLeft' /\ InTime'
BY DEF Inv, SaidIsOver, Fresh, AdminsLeft, InTime

LEMMA SameUsers ==
  ASSUME Inv, UNCHANGED users, NEW p, NEW s
  PROVE  /\ UsersGrow /\ \A v \in Account : Raises(p, s, v)
         /\ \A v \in Account : EnabledAdmin(v) => EnabledAdmin(v)'
         /\ \A v \in Account : users'[v].pw <= users'[v].epoch /\ users'[v].epoch <= users[v].epoch
         /\ \A j \in Session : Row(j) => users'[session[j].user].there
<1>1. \A v \in Account : users[v].epoch \in Nat BY DEF Inv, Typed, UserRow
<1>2. \A j \in Session : Row(j) => users[session[j].user].there
  BY DEF Inv, RowsBelong, RowBelongs
<1> QED BY <1>1, <1>2 DEF UsersGrow, Raises, EnabledAdmin, Inv, EpochsCovered

LEMMA SteadyRunKeeps ==
  ASSUME Inv, Typed', NEW p \in Process, NEW s, SteadyRun(p, s), UsersGrow,
         s = "reread" => UNCHANGED users,
         Pending(p)' # {} => job'[p].epoch = job[p].epoch
                             \/ job'[p].epoch = users[job[p].user].epoch
  PROVE  RowsBelong' /\ SaidIsOver' /\ Fresh' /\ InTime'
<1>1. \A j \in Session : Persists(j) /\ RowBelongs(j)'
  BY SteadyRows DEF SteadyRun, Inv, Typed
<1>2. Runs(p, s) /\ (s = "revoke_all" => \A j \in Own(job[p].user) : Gone(j)')
  BY DEF SteadyRun
<1>3. RowsBelong' BY <1>1, <1>2, BelongsAfterRun
<1>4. SaidIsOver' BY <1>1, <1>2, OverAfterRun
<1> QED BY <1>3, <1>4, FreshAfterRun, InTimeAfterRun

LEMMA CheckInv ==
  ASSUME Inv, NEW p \in Process, Check(p)
  PROVE  Inv'
<1>1. /\ Typed' /\ Runs(p, "check") /\ UNCHANGED <<users, session, overlap>>
      /\ Pending(p)' # {} => /\ Pending(p)' = Pending(p) \ {"check"}
                             /\ ~job'[p].admin /\ job'[p].epoch = job[p].epoch
                             /\ ~job[p].admin \/ OtherAdmin(job[p].user)
  BY CheckDoes DEF Inv
<1>2. SteadyRun(p, "check") /\ UsersGrow
  <2>1. \A j \in Session : Steady(j) BY <1>1, RowsStay DEF Inv, Typed
  <2>2. \A j \in Session : RowBelongs(j)'
    BY <1>1, <2>1, SameUsers, SteadyBelongs DEF Row
  <2> QED BY <1>1, <2>1, <2>2, SameUsers DEF SteadyRun
<1>3. RowsBelong' /\ SaidIsOver' /\ Fresh' /\ InTime' BY <1>1, <1>2, SteadyRunKeeps
<1>4. EpochsCovered' BY <1>1, SameUsers, EpochsAfterRun
<1>5. AdminsLeft' BY <1>1, SameUsers, AdminsAfterRun
<1> QED BY <1>1, <1>3, <1>4, <1>5, Parts

LEMMA UpdateInv ==
  ASSUME Inv, NEW p \in Process, Update(p)
  PROVE  Inv'
<1>1. Typed' BY UpdateDoes DEF Inv
<1>2. PICK s \in Writes : Wrote(p, s) BY UpdateDoes DEF Inv
<1> DEFINE u == job[p].user
<1>3. /\ Runs(p, s) /\ UNCHANGED session /\ Pending(p)' = Pending(p) \ {s}
      /\ Pending(p)' # {} => job'[p].admin = job[p].admin /\ job'[p].epoch = job[p].epoch
      /\ \A v \in Account : v # u => users'[v] = users[v]
      /\ IF users[u].there THEN Became(users[u], users'[u], s) ELSE users'[u] = users[u]
      /\ overlap' = (overlap \/ (s \in Removal /\ Overlaps(p)))
      /\ u \in Account
  BY <1>2 DEF Wrote, Runs, JobRow
<1>4. \A v \in Account : /\ users[v].epoch \in Nat /\ users[v].pw \in Nat
                         /\ users[v].pw <= users[v].epoch
  BY DEF Inv, Typed, UserRow, EpochsCovered
<1>5. ASSUME NEW v \in Account
      PROVE  /\ users'[v].there = users[v].there
             /\ \/ users'[v].epoch = users[v].epoch /\ users'[v].pw = users[v].pw
                \/ /\ users'[v].epoch = users[v].epoch + 1 /\ v = u
                   /\ s \in {"set_password", "bump"}
                   /\ users'[v].pw = users[v].pw
                      \/ (s = "set_password" /\ users'[v].pw = users[v].pw + 1)
             /\ users'[v].disabled => users[v].disabled \/ (s = "set_disabled" /\ v = u)
             /\ EnabledAdmin(v) => EnabledAdmin(v)' \/ (s \in Removal /\ v = u)
  <2>1. CASE v # u \/ ~users[u].there BY <1>3, <2>1 DEF EnabledAdmin
  <2>2. CASE v = u /\ users[u].there
    BY <1>2, <1>3, <2>2 DEF EnabledAdmin, Became, Writes, Removal
  <2> QED BY <2>1, <2>2
<1> HIDE DEF u
<1>6. UsersGrow /\ \A v \in Account : Raises(p, s, v) BY <1>4, <1>5 DEF UsersGrow, Raises, u
<1>7. SteadyRun(p, s)
  <2>1. \A j \in Session : Steady(j) BY <1>3, RowsStay DEF Inv, Typed
  <2>2. \A j \in Session : RowBelongs(j)'
    <3>1. ASSUME NEW j \in Session, Row(j) PROVE users'[session[j].user].there
      <4>1. session[j].user \in Account BY <3>1, RowKinds DEF SessionRow, Inv, Typed
      <4>2. users[session[j].user].there BY <3>1 DEF Inv, RowsBelong, RowBelongs
      <4> QED BY <1>5, <4>1, <4>2
    <3> QED BY <1>1, <1>3, <1>6, <2>1, <3>1, SteadyBelongs DEF Row
  <2>3. s # "revoke_all" /\ s # "reread" BY <1>2 DEF Writes
  <2> QED BY <1>2, <1>3, <1>6, <2>1, <2>2, <2>3 DEF SteadyRun
<1>8. RowsBelong' /\ SaidIsOver' /\ Fresh' /\ InTime'
  <2>1. s # "reread" BY <1>2 DEF Writes
  <2> QED BY <1>1, <1>3, <1>6, <1>7, <2>1, SteadyRunKeeps
<1>9. EpochsCovered'
  <2>1. \A v \in Account :
           /\ users'[v].pw <= users'[v].epoch
           /\ \/ users'[v].epoch <= users[v].epoch
              \/ /\ users'[v].epoch = users[v].epoch + 1 /\ v = job[p].user
                 /\ s \in {"set_password", "bump"} /\ Pending(p)' = Pending(p) \ {s}
    BY <1>3, <1>4, <1>5 DEF u
  <2> QED BY <1>1, <1>3, <2>1, EpochsAfterRun
<1>10. AdminsLeft'
  <2>1. CASE s \in Removal
    <3>1. overlap' = (overlap \/ Overlaps(p)) BY <1>3, <2>1
    <3>2. \A v \in Account \ {job[p].user} : users'[v] = users[v] BY <1>3 DEF u
    <3> QED BY <1>3, <2>1, <3>1, <3>2, AdminsAfterRemoval
  <2>2. CASE s \notin Removal
    <3>1. overlap' = overlap BY <1>3, <2>2 DEF Inv, Typed
    <3>2. s # "check" BY <1>2 DEF Writes
    <3>3. \A v \in Account : EnabledAdmin(v) => EnabledAdmin(v)' BY <1>5, <2>2
    <3> QED BY <1>3, <3>1, <3>2, <3>3, AdminsAfterRun
  <2> QED BY <2>1, <2>2
<1> QED BY <1>1, <1>8, <1>9, <1>10, Parts

LEMMA DeleteInv ==
  ASSUME Inv, NEW p \in Process, Delete(p)
  PROVE  Inv'
<1> DEFINE u == job[p].user
<1>1. /\ Typed' /\ Runs(p, "delete") /\ Pending(p)' = Pending(p) \ {"delete"}
      /\ Pending(p)' # {} => job'[p].admin = job[p].admin /\ job'[p].epoch = job[p].epoch
      /\ \A v \in Account \ {u} : users'[v] = users[v]
      /\ users'[u] = Nobody /\ \A j \in Session : Steady(j)
      /\ \A j \in Own(u) : ~Row(j)'
      /\ overlap' = (overlap \/ Overlaps(p))
  BY DeleteDoes DEF Inv
<1>2. \A v \in Account : /\ users[v].epoch \in Nat /\ users[v].pw \in Nat
                         /\ users[v].pw <= users[v].epoch
  BY DEF Inv, Typed, UserRow, EpochsCovered
<1>3. UsersGrow /\ \A v \in Account : Raises(p, "delete", v)
  BY <1>1, <1>2 DEF UsersGrow, Raises, Nobody
<1>4. SteadyRun(p, "delete")
  <2>1. ASSUME NEW j \in Session, Row(j)' PROVE users'[session[j].user].there
    <3>1. Row(j) BY <1>1, <2>1, SteadyRows DEF Inv, Typed
    <3>2. session[j].user # u BY <1>1, <2>1, <3>1 DEF Own
    <3>3. session[j].user \in Account BY <3>1, RowKinds DEF SessionRow, Inv, Typed
    <3>4. users[session[j].user].there BY <3>1 DEF Inv, RowsBelong, RowBelongs
    <3> QED BY <1>1, <3>2, <3>3, <3>4
  <2>2. \A j \in Session : RowBelongs(j)' BY <1>1, <1>3, <2>1, SteadyBelongs
  <2> QED BY <1>1, <1>3, <2>2 DEF SteadyRun
<1>5. RowsBelong' /\ SaidIsOver' /\ Fresh' /\ InTime' BY <1>1, <1>3, <1>4, SteadyRunKeeps
<1>6. EpochsCovered'
  <2>1. \A v \in Account : users'[v].pw <= users'[v].epoch /\ users'[v].epoch <= users[v].epoch
    BY <1>1, <1>2 DEF Nobody
  <2> QED BY <1>1, <2>1, EpochsAfterRun
<1>7. AdminsLeft' BY <1>1, AdminsAfterRemoval DEF Removal
<1> QED BY <1>1, <1>5, <1>6, <1>7, Parts

LEMMA RevokeRowsInv ==
  ASSUME Inv, NEW p \in Process, RevokeRows(p)
  PROVE  Inv'
<1>1. /\ Typed' /\ Runs(p, "revoke_all") /\ UNCHANGED <<users, overlap>>
      /\ Pending(p)' = Pending(p) \ {"revoke_all"}
      /\ Pending(p)' # {} => job'[p].admin = job[p].admin /\ job'[p].epoch = job[p].epoch
      /\ \A j \in Session : Steady(j)
      /\ \A j \in Own(job[p].user) : Gone(j)'
  BY RevokeRowsDoes DEF Inv
<1>2. SteadyRun(p, "revoke_all") /\ UsersGrow
  <2>1. \A j \in Session : Row(j)' => Row(j) BY <1>1, SteadyRows DEF Inv, Typed
  <2>2. \A j \in Session : RowBelongs(j)' BY <1>1, <2>1, SameUsers, SteadyBelongs
  <2> QED BY <1>1, <2>2, SameUsers DEF SteadyRun
<1>3. RowsBelong' /\ SaidIsOver' /\ Fresh' /\ InTime' BY <1>1, <1>2, SteadyRunKeeps
<1>4. EpochsCovered' BY <1>1, SameUsers, EpochsAfterRun
<1>5. AdminsLeft' BY <1>1, SameUsers, AdminsAfterRun
<1> QED BY <1>1, <1>3, <1>4, <1>5, Parts

LEMMA RereadInv ==
  ASSUME Inv, NEW p \in Process, Reread(p)
  PROVE  Inv'
<1>1. /\ Typed' /\ Runs(p, "reread") /\ UNCHANGED <<users, session, overlap>>
      /\ Pending(p)' # {} =>
           /\ job'[p].admin = job[p].admin /\ job'[p].epoch = users[job[p].user].epoch
      /\ Pending(p)' = {} /\ job[p].op = "renew" =>
           \/ ~users[job[p].user].there \/ users[job[p].user].disabled
           \/ Pending(p) = {"reread"}
  <2> DEFINE good == users[job[p].user].there
                     /\ (job[p].op = "renew" => ~users[job[p].user].disabled)
  <2>1. /\ Typed' /\ Runs(p, "reread") /\ UNCHANGED <<users, session, overlap>>
        /\ IF good THEN /\ Pending(p)' = Pending(p) \ {"reread"}
                        /\ Pending(p)' # {} => /\ job'[p].admin = job[p].admin
                                               /\ job'[p].epoch = users[job[p].user].epoch
                   ELSE Pending(p)' = {}
    BY RereadDoes DEF Inv
  <2>2. "reread" \in Pending(p) BY <2>1 DEF Runs
  <2>3. CASE good BY <2>1, <2>2, <2>3
  <2>4. CASE ~good BY <2>1, <2>4
  <2> QED BY <2>3, <2>4
<1>2. job[p].op = "renew" => Pending(p) # {"reread"} BY <1>1 DEF Runs, Fits
<1>3. SteadyRun(p, "reread") /\ UsersGrow
  <2>1. \A j \in Session : Steady(j) BY <1>1, RowsStay DEF Inv, Typed
  <2>2. \A j \in Session : RowBelongs(j)'
    BY <1>1, <2>1, SameUsers, SteadyBelongs DEF Row
  <2> QED BY <1>1, <1>2, <2>1, <2>2, SameUsers DEF SteadyRun
<1>4. RowsBelong' /\ SaidIsOver' /\ Fresh' /\ InTime' BY <1>1, <1>3, SteadyRunKeeps
<1>5. EpochsCovered' BY <1>1, SameUsers, EpochsAfterRun
<1>6. AdminsLeft' BY <1>1, SameUsers, AdminsAfterRun
<1> QED BY <1>1, <1>4, <1>5, <1>6, Parts

LEMMA OpenInv ==
  ASSUME Inv, NEW p \in Process, Open(p)
  PROVE  Inv'
<1>1. /\ Typed' /\ Runs(p, "open") /\ UNCHANGED <<users, overlap>>
      /\ Pending(p)' # {} => /\ Pending(p)' = Pending(p) \ {"open"}
                             /\ job'[p].admin = job[p].admin /\ job'[p].epoch = job[p].epoch
      /\ \/ UNCHANGED session
         \/ users[job[p].user].there /\ \E j \in Session : Opened(p, j)
  BY OpenDoes DEF Inv
<1>2. ASSUME NEW j \in Session PROVE Persists(j) /\ RowBelongs(j)'
  <2>1. CASE session'[j] = session[j]
    <3>1. Steady(j) BY <2>1 DEF Steady
    <3> QED BY <1>1, <2>1, <3>1, SameUsers, SteadyBelongs DEF Row
  <2>2. CASE session'[j] # session[j]
    <3>1. Opened(p, j) /\ users[job[p].user].there BY <1>1, <2>2 DEF Opened
    <3>2. Persists(j)
      <4>1. session[j].row = "unborn" BY <3>1, Kinds DEF Opened
      <4> QED BY <3>1, <4>1 DEF Opened, Persists, Gone, Over
    <3>3. RowBelongs(j)'
      <4>1. Pending(p) # {} /\ JobBelongs(p) /\ job[p] \in JobRow
        BY <1>1 DEF Runs, Inv, RowsBelong
      <4>2. job[p].epoch <= users[job[p].user].epoch BY <3>1, <4>1 DEF JobBelongs
      <4>3. Lifetime(job[p].keep) \in Nat BY AccountsAssumption DEF Lifetime
      <4>4. /\ session'[j].left <= Lifetime(session'[j].remember)
            /\ users'[session'[j].user].there
            /\ session'[j].epoch <= users'[session'[j].user].epoch
        BY <1>1, <3>1, <4>2, <4>3 DEF Opened
      <4> QED BY <4>4 DEF RowBelongs
    <3> QED BY <3>2, <3>3
  <2> QED BY <2>1, <2>2
<1>3. RowsBelong' BY <1>1, <1>2, SameUsers, BelongsAfterRun
<1>4. SaidIsOver' BY <1>1, <1>2, OverAfterRun
<1>5. EpochsCovered' BY <1>1, SameUsers, EpochsAfterRun
<1>6. AdminsLeft' BY <1>1, SameUsers, AdminsAfterRun
<1>7. Fresh' /\ InTime' BY <1>1, AfterOpen
<1> QED BY <1>1, <1>3, <1>4, <1>5, <1>6, <1>7, Parts

LEMMA ExtendInv ==
  ASSUME Inv, NEW p \in Process, Extend(p)
  PROVE  Inv'
<1>1. /\ job[p].op = "renew" /\ Pending(p) # {} /\ job[p] \in JobRow
  <2>1. At(p, "extend") BY DEF Extend
  <2> QED BY <2>1, NextStatement DEF Inv, Typed, Fits
<1>2. JobBelongs(p) BY DEF Inv, RowsBelong
<1>3. PICK k \in Session : k = job[p].jti BY <1>1, <1>2 DEF JobBelongs
<1>4. /\ Typed' /\ Runs(p, "extend") /\ UNCHANGED <<users, overlap>>
      /\ Pending(p)' = Pending(p) \ {"extend"}
      /\ Pending(p)' # {} => job'[p].admin = job[p].admin /\ job'[p].epoch = job[p].epoch
      /\ Renewed(p, k)
  BY <1>3, ExtendDoes DEF Inv
<1>5. ASSUME NEW j \in Session PROVE Persists(j) /\ RowBelongs(j)'
  <2>1. CASE session'[j] = session[j]
    <3>1. Steady(j) BY <2>1 DEF Steady
    <3> QED BY <1>4, <2>1, <3>1, SameUsers, SteadyBelongs DEF Row
  <2>2. CASE session'[j] # session[j]
    <3>1. /\ j = k /\ Live(k) /\ session[k].left > 0 /\ Live(k)'
          /\ session'[k].user = session[k].user /\ session'[k].remember = session[k].remember
          /\ session'[k].epoch = job[p].epoch /\ session'[k].left = Long
      BY <1>4, <2>2 DEF Renewed
    <3>2. /\ Row(k) /\ session[k] \in SessionRow /\ ~Gone(k)
      BY <3>1, RowKinds DEF Inv, Typed
    <3>3. session[k].user = job[p].user /\ session[k].remember
      BY <1>1, <1>2, <1>3, <3>2 DEF JobBelongs
    <3>4. users[job[p].user].there BY <3>2, <3>3 DEF Inv, RowsBelong, RowBelongs
    <3>5. job[p].epoch <= users[job[p].user].epoch BY <1>1, <1>2, <3>4 DEF JobBelongs
    <3>6. ~Over(session[k])
      <4>1. session[k].left \in Nat BY <3>2 DEF SessionRow
      <4> QED BY <3>1, <3>3, <4>1 DEF Over
    <3>7. Persists(j) BY <3>1, <3>2, <3>6, Kinds DEF Persists, Live
    <3>8. RowBelongs(j)'
      <4>1. /\ session'[j].left <= Lifetime(session'[j].remember)
            /\ users'[session'[j].user].there
            /\ session'[j].epoch <= users'[session'[j].user].epoch
        BY <1>4, <3>1, <3>3, <3>4, <3>5, HabitIsHalf DEF Lifetime
      <4> QED BY <4>1 DEF RowBelongs
    <3> QED BY <3>7, <3>8
  <2> QED BY <2>1, <2>2
<1>6. RowsBelong' BY <1>4, <1>5, SameUsers, BelongsAfterRun
<1>7. SaidIsOver' BY <1>4, <1>5, OverAfterRun
<1>8. EpochsCovered' BY <1>4, SameUsers, EpochsAfterRun
<1>9. AdminsLeft' BY <1>4, SameUsers, AdminsAfterRun
<1>10. Fresh' /\ InTime' BY <1>3, <1>4, AfterExtend
<1> QED BY <1>4, <1>6, <1>7, <1>8, <1>9, <1>10, Parts

LEMMA BeginInv ==
  ASSUME Inv, NEW p \in Process, NEW op, NEW u, Begun(p, op, u), Typed'
  PROVE  Inv'
<1>1. /\ UNCHANGED <<users, session, ended, overlap>>
      /\ op \in Op \ {"renew"} /\ u \in Account
      /\ OthersGoOn(p) /\ Pending(p) = {} /\ Whole(op, Pending(p)') /\ Fits(op, Pending(p)')
      /\ job'[p].op = op /\ job'[p].user = u /\ job'[p].epoch = 0
      /\ job'[p].told = IF op \in Ends \cup {"change"} THEN Own(u) ELSE {}
      /\ job'[p].admin = ("check" \in Pending(p)' /\ EnabledAdmin(u))
  BY DEF Begun
<1>2. \A q \in Process : q # p => Same(q) BY <1>1 DEF OthersGoOn, Same
<1>3. \A j \in Session : Steady(j) /\ Persists(j) /\ RowBelongs(j)'
  <2>1. \A j \in Session : Steady(j) BY <1>1, RowsStay DEF Inv, Typed
  <2> QED BY <1>1, <2>1, SameUsers, SteadyBelongs DEF Row
<1>4. \A j \in Session : Live(j)' => Alike(j) /\ session'[j] = session[j]
  BY <1>1, <1>3, AlikeRows DEF Inv, Typed
<1>5. \A q \in Process : NextJob(q)
  <2>1. "set_password" \in Pending(p)' => job'[p].told = Own(job'[p].user)
    BY <1>1 DEF Fits, Ends
  <2> QED BY <1>1, <1>2, <2>1 DEF NextJob
<1>6. Fresh' BY <1>1, <1>4, <1>5, FreshBetween
<1>7. InTime'
  <2>1. \A j \in Session : Live(j)' /\ session'[j].remember /\ session'[j].away <= Habit =>
          /\ session'[j].left > 0
          /\ session'[j].left + session'[j].away > Habit \/ Renews(j) \/ Disabling(session[j].user)
    BY <1>4 DEF Inv, RenewsInTime, Alike
  <2> QED BY <1>1, <1>4, <1>5, <2>1, InTimeBetween
<1>8. SaidIsOver'
  <2>1. \A j \in job'[p].told : "revoke_all" \in Pending(p)' /\ j \in Own(job'[p].user)
    BY <1>1 DEF Whole
  <2>2. \A j \in ended' : j \in ended \/ Gone(j)' \/ Over(session'[j]) BY <1>1
  <2> QED BY <1>2, <1>3, <2>1, <2>2, OverBetween DEF Same
<1>9. RowsBelong'
  <2>1. \A q \in Process : \/ Pending(q)' = Pending(q) /\ job'[q] = job[q]
                           \/ /\ job'[q].epoch = 0 /\ job'[q].user \in Account
                              /\ job'[q].op # "renew"
    BY <1>1, <1>2 DEF Same
  <2> QED BY <1>1, <1>3, <2>1, BelongsBetween
<1>10. EpochsCovered' BY EpochsAtBegin
<1>11. AdminsLeft'
  <2>1. /\ Pending(p)' \cap Removal # {} => "check" \in Pending(p)'
        /\ job'[p].admin = ("check" \in Pending(p)' /\ EnabledAdmin(job'[p].user))
    BY <1>1 DEF Whole
  <2>2. UNCHANGED <<users, overlap>> BY <1>1
  <2> QED BY <1>2, <2>1, <2>2, AdminsBetween DEF Same
<1> QED BY <1>6, <1>7, <1>8, <1>9, <1>10, <1>11, Parts

(* Where no statement runs and none begins. *)
LEMMA QuietInv ==
  ASSUME Inv, Typed', UNCHANGED <<users, job, bumps, overlap>>,
         \A j \in Session : Persists(j) /\ (Clocked(j) \/ Steady(j)),
         \A j \in ended' : j \in ended \/ Gone(j)' \/ Over(session'[j]),
         \A j \in Session : Live(j)' => \/ session'[j].left = session[j].left
                                        \/ \A q \in Process : Pending(q)' = {},
         \A j \in Session : Live(j)' /\ session'[j].remember /\ session'[j].away <= Habit =>
           /\ session'[j].left > 0
           /\ \/ session'[j].left + session'[j].away > Habit
              \/ Renews(j) \/ Disabling(session[j].user)
  PROVE  Inv'
<1>1. \A q \in Process : Same(q) BY JobsStay DEF Inv, Typed, Same
<1>2. \A q \in Process : NextJob(q) BY <1>1 DEF NextJob
<1>3. \A j \in Session : Live(j)' => Alike(j) BY AlikeRows DEF Inv, Typed
<1>4. Fresh' BY <1>2, <1>3, FreshBetween
<1>5. InTime' BY <1>2, <1>3, InTimeBetween
<1>6. SaidIsOver' BY <1>1, OverBetween DEF Same
<1>7. RowsBelong'
  <2>1. ASSUME NEW j \in Session PROVE RowBelongs(j)'
    <3>1. CASE Clocked(j) BY <3>1, ClockedBelongs
    <3>2. CASE Steady(j)
      <4>1. Row(j)' => Row(j) BY <3>2, SteadyRows DEF Inv, Typed
      <4> QED BY <3>2, <4>1, SameUsers, SteadyBelongs
    <3> QED BY <3>1, <3>2
  <2> QED BY <1>1, <2>1, BelongsBetween DEF Same
<1>8. EpochsCovered' BY <1>1, EpochsBetween DEF Same
<1>9. AdminsLeft' BY <1>1, AdminsBetween DEF Same
<1> QED BY <1>4, <1>5, <1>6, <1>7, <1>8, <1>9, Parts

LEMMA StrikeInv ==
  ASSUME Inv, Typed', Struck
  PROVE  Inv'
<1>1. \A j \in Session : Steady(j) /\ Persists(j) BY SteadyRows DEF Struck, Inv, Typed
<1>2. \A j \in Session : Live(j)' => Live(j) /\ session'[j] = session[j]
  BY <1>1, SteadyRows DEF Inv, Typed
<1>3. \A j \in Session : Live(j)' /\ session'[j].remember /\ session'[j].away <= Habit =>
        /\ session'[j].left > 0
        /\ \/ session'[j].left + session'[j].away > Habit
           \/ Renews(j) \/ Disabling(session[j].user)
  BY <1>2 DEF Inv, RenewsInTime
<1> QED BY <1>1, <1>2, <1>3, QuietInv DEF Struck

LEMMA AdmitInv ==
  ASSUME Inv, NEW j \in Session, Admit(j)
  PROVE  Inv'
<1>1. Typed' /\ Used(j) /\ UNCHANGED job /\ session'[j].away = session[j].away
  BY AdmitDoes DEF Inv
<1>2. \A k \in Session : Live(k)' => Alike(k) BY <1>1, AlikeRows DEF Used, Inv, Typed
<1>3. \A k \in Session : session'[k].left = session[k].left /\ session'[k].away = session[k].away
  BY <1>1 DEF Used
<1>4. \A k \in Session : Live(k)' /\ session'[k].remember /\ session'[k].away <= Habit =>
        /\ session'[k].left > 0
        /\ \/ session'[k].left + session'[k].away > Habit
           \/ Renews(k) \/ Disabling(session[k].user)
  BY <1>2, <1>3 DEF Inv, RenewsInTime, Alike
<1> QED BY <1>1, <1>3, <1>4, QuietInv DEF Used

LEMMA TickInv ==
  ASSUME Inv, Tick
  PROVE  Inv'
<1>1. /\ Typed' /\ UNCHANGED <<users, job, bumps, overlap>>
      /\ \A p \in Process : Pending(p) = {}
      /\ \A j \in Session : Clocked(j) /\ Persists(j)
      /\ \A j \in Session : Live(j)' /\ session'[j].remember /\ session'[j].away <= Habit =>
             /\ session[j].away <= Habit /\ session'[j].away = session[j].away + 1
             /\ session'[j].left = IF session[j].left > 0 THEN session[j].left - 1 ELSE 0
      /\ \A j \in ended' : j \in ended \/ Over(session'[j])
  BY TickDoes DEF Inv
<1>2. \A j \in Session : Live(j)' => Alike(j) BY <1>1, AlikeRows DEF Inv, Typed
<1>3. \A q \in Process : Pending(q)' = {} BY <1>1, JobsStay DEF Inv, Typed
<1>4. ASSUME NEW j \in Session, Live(j)', session'[j].remember, session'[j].away <= Habit
      PROVE  session'[j].left > 0 /\ session'[j].left + session'[j].away > Habit
  <2>1. /\ Live(j) /\ session[j] \in SessionRow /\ session[j].remember
        /\ session[j].away <= Habit
        /\ session'[j].away = session[j].away + 1
        /\ session'[j].left = IF session[j].left > 0 THEN session[j].left - 1 ELSE 0
    BY <1>1, <1>2, <1>4 DEF Alike
  <2>2. ~Renews(j) /\ ~Disabling(session[j].user) BY <1>1 DEF Renews, Disabling, Process
  <2>3. session[j].left > 0 /\ session[j].left + session[j].away > Habit
    BY <2>1, <2>2 DEF Inv, RenewsInTime
  <2>4. session[j].left \in Nat /\ session[j].away \in Nat BY <2>1 DEF SessionRow
  <2> QED BY <1>4, <2>1, <2>3, <2>4, HabitIsHalf
<1> QED BY <1>1, <1>3, <1>4, QuietInv

LEMMA MeInv ==
  ASSUME Inv, NEW j \in Session, Me(j)
  PROVE  Inv'
<1>1. /\ Typed' /\ Used(j) /\ Pending("server") = {}
      /\ session'[j].away = IF session[j].away <= Habit THEN 0 ELSE session[j].away
      /\ IF session[j].remember /\ Due(j)
         THEN /\ OthersGoOn("server") /\ Pending("server")' = {"reread", "extend"}
              /\ job'["server"].op = "renew" /\ job'["server"].user = session[j].user
              /\ job'["server"].epoch = 0 /\ job'["server"].told = {}
              /\ ~job'["server"].admin /\ job'["server"].jti = j
         ELSE UNCHANGED job
  BY MeDoes DEF Inv
<1>2. "server" \in Process BY DEF Process
<1>3. session[j] \in SessionRow BY <1>1, RowKinds DEF Used, Inv, Typed
<1>4. \A k \in Session : Live(k)' => Alike(k) BY <1>1, AlikeRows DEF Used, Inv, Typed
<1>5. \A k \in Session : session'[k].left = session[k].left BY <1>1 DEF Used
<1>6. \A q \in Process : q # "server" => Same(q)
  BY <1>1, JobsStay DEF OthersGoOn, Same, Inv, Typed
<1>7. session[j].remember /\ Due(j) => Renews(j)' BY <1>1 DEF Renews
<1>8. Due(j) => session[j].left # Long
  <2>1. Long \in Nat \ {0} BY AccountsAssumption
  <2> QED BY <2>1 DEF Due
<1>9. \A q \in Process : NextJob(q)
  <2>1. CASE session[j].remember /\ Due(j)
    <3>1. Renewing("server") BY <1>1, <1>8, <2>1 DEF Renewing, Used
    <3> QED BY <1>1, <1>6, <3>1 DEF NextJob
  <2>2. CASE ~(session[j].remember /\ Due(j))
    <3>1. Same("server") BY <1>1, <1>2, <2>2, JobsStay DEF Same, Inv, Typed
    <3> QED BY <1>6, <3>1 DEF NextJob
  <2> QED BY <2>1, <2>2
<1>10. UNCHANGED <<users, bumps, ended, overlap>> /\ \A k \in Session : Clocked(k) /\ Persists(k)
  BY <1>1 DEF Used
<1>11. Fresh' BY <1>4, <1>5, <1>9, <1>10, FreshBetween
<1>12. InTime'
  <2> SUFFICES ASSUME NEW k \in Session, Live(k)', session'[k].remember, session'[k].away <= Habit
        PROVE  /\ session'[k].left > 0
               /\ \/ session'[k].left + session'[k].away > Habit
                  \/ Renews(k) \/ Renews(k)' \/ Disabling(session[k].user)
    BY <1>4, <1>9, <1>10, InTimeBetween
  <2>1. CASE k # j
    <3>1. session'[k] = session[k] /\ Live(k) BY <1>1, <1>4, <2>1 DEF Used, Alike
    <3> QED BY <3>1 DEF Inv, RenewsInTime
  <2>2. CASE k = j
    <3>1. session[j].left \in Nat /\ session[j].left > 0 /\ session[j].remember
      BY <1>1, <1>3, <1>4, <2>2 DEF Used, SessionRow, Alike
    <3>2. session'[j].away = 0 BY <1>1, <2>2
    <3>3. CASE Due(j) BY <1>5, <1>7, <2>2, <3>1, <3>3
    <3>4. CASE ~Due(j)
      <4>1. session[j].left > Habit BY <3>1, <3>4, HabitIsHalf DEF Due
      <4> QED BY <1>5, <2>2, <3>1, <3>2, <4>1
    <3> QED BY <3>3, <3>4
  <2> QED BY <2>1, <2>2
<1>13. SaidIsOver'
  <2>1. \A q \in Process : Same(q) \/ job'[q].told = {} BY <1>1, <1>6, <1>2, JobsStay DEF Same, Inv, Typed
  <2> QED BY <1>10, <2>1, OverBetween DEF Same
<1>14. RowsBelong'
  <2>1. \A k \in Session : RowBelongs(k)' BY <1>1, <1>10, ClockedBelongs
  <2>2. \A q \in Process :
          \/ Same(q)
          \/ /\ job'[q].epoch = 0 /\ job'[q].user \in Account /\ job'[q].jti \in Session
             /\ Live(job'[q].jti) /\ session[job'[q].jti].user = job'[q].user
             /\ session[job'[q].jti].remember
    BY <1>1, <1>3, <1>6, <1>2, JobsStay DEF Same, Inv, Typed, Used, SessionRow
  <2> QED BY <1>10, <2>1, <2>2, BelongsBetween DEF Same
<1>15. EpochsCovered'
  <2>1. \A q \in Process : Same(q) \/ Pending(q)' \cap {"set_password", "bump"} = {}
    BY <1>1, <1>6, <1>2, JobsStay DEF Same, Inv, Typed
  <2> QED BY <1>10, <2>1, EpochsBetween DEF Same
<1>16. AdminsLeft'
  <2>1. \A q \in Process : Same(q) \/ (~job'[q].admin /\ Pending(q)' \cap Removal = {})
    BY <1>1, <1>6, <1>2, JobsStay DEF Same, Inv, Typed, Removal
  <2> QED BY <1>10, <2>1, AdminsBetween DEF Same
<1> QED BY <1>1, <1>11, <1>12, <1>13, <1>14, <1>15, <1>16, Parts

-----------------------------------------------------------------------------
LEMMA InitInv == Init => Inv
<1> SUFFICES ASSUME Init PROVE Inv OBVIOUS
<1>1. /\ users = [u \in Account |-> [there |-> TRUE, admin |-> u \in Admins,
                                      disabled |-> FALSE, epoch |-> 0, pw |-> 0]]
      /\ session = [j \in Session |-> Unborn] /\ job = [p \in Process |-> NoJob]
      /\ ticket = NoTicket /\ bumps = 0 /\ ended = {} /\ overlap = FALSE
  BY DEF Init
<1>2. \A p \in Process : Pending(p) = {} BY <1>1 DEF Pending
<1>3. "server" \in Process /\ "cli" \in Process BY DEF Process
<1>4. \A j \in Session : session[j] = Unborn /\ ~Row(j) /\ ~Live(j)
  BY <1>1, Kinds DEF Row, Live
<1>5. Typed
  <2>1. users \in [Account -> UserRow] BY <1>1 DEF UserRow
  <2>2. SessionsTyped BY <1>1 DEF SessionsTyped
  <2>3. JobsTyped BY <1>1, <1>3 DEF JobsTyped
  <2>4. bumps \in 0..MaxBumps BY <1>1, AccountsAssumption
  <2> QED BY <1>1, <2>1, <2>2, <2>3, <2>4 DEF Typed
<1>6. EpochsCovered
  <2>1. \A p \in Process, u \in Account : Owes(p, u) = 0 BY <1>2 DEF Owes
  <2>2. \A u \in Account : users[u].epoch = 0 /\ users[u].pw = 0 BY <1>1
  <2> QED BY <1>1, <1>3, <2>1, <2>2 DEF EpochsCovered
<1>7. RowsBelong BY <1>2, <1>4 DEF RowsBelong, RowBelongs, JobBelongs
<1>8. SaidIsOver BY <1>1, <1>2 DEF SaidIsOver, EndedIsOver, ToldIsEnded
<1>9. Fresh BY <1>2, <1>4 DEF Fresh, LiveIsCurrent, RenewsCurrent, RenewalIsTold
<1>10. AdminsLeft
  <2>1. PICK u \in Account : u \in Admins BY AccountsAssumption
  <2>2. EnabledAdmin(u) BY <1>1, <2>1 DEF EnabledAdmin
  <2> QED BY <1>2, <2>2 DEF AdminsLeft, AdminRemains, RemovalIsSafe
<1>11. InTime BY <1>4 DEF InTime, RenewsInTime, RenewsEnabled
<1> QED BY <1>5, <1>6, <1>7, <1>8, <1>9, <1>10, <1>11, Parts

LEMMA NextInv == Inv /\ [Next]_vars => Inv'
<1> SUFFICES ASSUME Inv, [Next]_vars PROVE Inv' OBVIOUS
<1>1. ASSUME NEW p \in Process, Statement(p) PROVE Inv'
  BY <1>1, CheckInv, UpdateInv, DeleteInv, RevokeRowsInv, RereadInv, OpenInv, ExtendInv
     DEF Statement
<1>2. ASSUME NEW u \in Account, NEW keep \in BOOLEAN, NEW op \in Operation,
             Login(u, keep) \/ Administer(u, op) \/ ChangePassword \/ Command(u, op)
      PROVE  Inv'
  <2>1. Typed' BY <1>2, BeginnersDo DEF Inv
  <2>2. PICK p \in Process, o \in Op, v \in Account : Begun(p, o, v)
    BY <1>2, BeginnersDo DEF Inv
  <2> QED BY <2>1, <2>2, BeginInv
<1>3. ASSUME NEW j, \/ j \in Session /\ (FindIdle(j) \/ Logout(j))
                    \/ RevokeOthers \/ Answer
      PROVE  Inv'
  BY <1>3, StrikeDoes, StrikeInv DEF Inv
<1>4. ASSUME NEW j \in Session, Admit(j) \/ Me(j) PROVE Inv' BY <1>4, AdmitInv, MeInv
<1>5. CASE Tick BY <1>5, TickInv
<1>6. CASE UNCHANGED vars
  <2>1. UNCHANGED <<users, session, job, ticket, bumps, ended, overlap>> BY <1>6 DEF vars
  <2>2. Typed'
    <3>1. SessionsTyped' /\ JobsTyped' BY <2>1, RowsStay, JobsStay DEF Inv, Typed
    <3> QED BY <2>1, <3>1 DEF Inv, Typed
  <2>3. \A j \in Session : Steady(j) BY <2>1, RowsStay DEF Inv, Typed
  <2>4. Struck BY <2>1, <2>3 DEF Struck
  <2> QED BY <2>2, <2>4, StrikeInv
<1>7. CASE \E u \in Account : \/ \E keep \in BOOLEAN : Login(u, keep)
                               \/ \E op \in AdminOp : Administer(u, op) \/ Command(u, op)
  <2>1. AdminOp \subseteq Operation /\ "enable" \in Operation /\ TRUE \in BOOLEAN
    BY AccountsAssumption DEF Operation
  <2> QED BY <1>2, <1>7, <2>1
<1>8. CASE ChangePassword
  <2>1. "enable" \in Operation /\ TRUE \in BOOLEAN BY DEF Operation
  <2>2. PICK u \in Account : TRUE BY AccountsAssumption
  <2> QED BY <1>2, <1>8, <2>1, <2>2
<1>9. CASE RevokeOthers \/ Answer BY <1>3, <1>9
<1>10. CASE \E j \in Session : Admit(j) \/ FindIdle(j) \/ Logout(j) \/ Me(j)
  BY <1>3, <1>4, <1>10
<1> QED BY <1>1, <1>5, <1>6, <1>7, <1>8, <1>9, <1>10 DEF Next

LEMMA Invariance == Spec => []Inv
BY InitInv, NextInv, PTL DEF Spec

(* What was said to be over is never accepted again, and what is accepted   *)
(* was opened with the password of today, or raced its setting, or is about *)
(* to be revoked by the job that set it.                                    *)
THEOREM SessionsAreSafe == Spec => []SessionSafety
<1>1. Inv => SessionSafety
  <2> SUFFICES ASSUME Inv PROVE SessionSafety OBVIOUS
  <2>1. TypeOK
    <3>1. ASSUME NEW u \in Account
          PROVE  users[u].epoch \in 0..MaxBumps /\ users[u].pw \in 0..users[u].epoch
      <4>1. users[u].epoch \in Nat /\ users[u].pw \in Nat /\ bumps \in 0..MaxBumps
        BY DEF Inv, Typed, UserRow
      <4>2. Owes("server", u) \in {0, 1} /\ Owes("cli", u) \in {0, 1} BY DEF Owes
      <4>3. /\ users[u].epoch + Owes("server", u) + Owes("cli", u) <= bumps
            /\ users[u].pw <= users[u].epoch
        BY DEF Inv, EpochsCovered
      <4> QED BY <4>1, <4>2, <4>3, AccountsAssumption
    <3>2. ASSUME NEW j \in Session, Row(j)
          PROVE  session[j].left \in 0..Lifetime(session[j].remember) /\ session[j].user \in Account
      <4>1. session[j] \in SessionRow BY <3>2, RowKinds DEF Inv, Typed
      <4>2. session[j].left <= Lifetime(session[j].remember)
        BY <3>2 DEF Inv, RowsBelong, RowBelongs
      <4>3. Lifetime(session[j].remember) \in Nat BY AccountsAssumption DEF Lifetime
      <4> QED BY <4>1, <4>2, <4>3 DEF SessionRow
    <3>3. ended \subseteq Session /\ (ticket.jti = 0 \/ ticket.jti \in Session)
      BY DEF Inv, Typed, NoTicket
    <3> QED BY <3>1, <3>2, <3>3 DEF TypeOK
  <2>2. EndedStaysEnded
    <3>1. ASSUME NEW j \in ended, Valid(j) PROVE FALSE
      <4>1. Over(session[j]) /\ j \in Session
        BY <3>1 DEF Inv, Typed, EndedIsOver, Gone, Valid, Accepted
      <4>2. session[j] \in SessionRow BY <3>1, <4>1, RowKinds DEF Inv, Typed, Over, Live
      <4>3. session[j].left \in Nat BY <4>2 DEF SessionRow
      <4> QED BY <3>1, <4>1, <4>3 DEF Over, Valid, Accepted, Idled
    <3> QED BY <3>1 DEF EndedStaysEnded
  <2>3. SessionsAreCurrent
    <3> SUFFICES ASSUME NEW j \in Session, Valid(j)
          PROVE  \/ OfToday(j) \/ \E p \in Process : job[p] # NoJob /\ j \in job[p].told
      BY DEF SessionsAreCurrent, OfToday
    <3>1. OfToday(j) \/ Resetting(j) BY DEF Inv, LiveIsCurrent, Live, Valid, Accepted
    <3> QED BY <3>1 DEF Resetting, Pending
  <2> QED BY <2>1, <2>2, <2>3 DEF SessionSafety
<1> QED BY <1>1, Invariance, PTL

(* The last enabled admin is never taken away, except by two processes that *)
(* each take one between the other's check and its write.                   *)
THEOREM AnAdminRemains == Spec => []AdminRemains
<1>1. Inv => AdminRemains BY DEF Inv
<1> QED BY <1>1, Invariance, PTL

(* A remembered session in use at least once per half of remember_me_days   *)
(* never runs out: each renewal that the keepalive begins is finished, or   *)
(* its account is being disabled.                                           *)
THEOREM ConsolesStaySignedIn == Spec => []StaysSignedIn
<1>1. Inv => StaysSignedIn BY DEF Inv, RenewsInTime, StaysSignedIn, Live
<1> QED BY <1>1, Invariance, PTL
-----------------------------------------------------------------------------


(* The last counter is past every spent code of the secret in force, and no *)
(* secret comes back.                                                       *)
SpentIsPast ==
  \A c \in spent : c.kind = "totp" => c.of <= made /\ (c.of = secret => c.at <= last)

SpentIsUsedUp == spent \cap recovery = {}

CodesInv == SignInTypeOK /\ SpentIsPast /\ SpentIsUsedUp /\ CodesAreSpentOnce

-----------------------------------------------------------------------------
(* The two kinds of code are apart. *)
LEMMA CodeKinds ==
  /\ \A c \in Totp : c.kind = "totp" /\ c.of \in 1..MaxSecret /\ c.at \in Window
  /\ \A c \in RecoveryCode : c.kind = "recovery"
BY DEF Totp, RecoveryCode

(* From the threshold on a failure locks for the base at least, and never   *)
(* for more than the cap.                                                   *)
LEMMA Locks ==
  ASSUME NEW n \in Nat
  PROVE  /\ LockFor(n) \in 0..Cap
         /\ n >= Threshold => LockFor(n) >= Base
<1>1. CASE n < Threshold BY <1>1, SignInAssumption DEF LockFor
<1>2. CASE ~(n < Threshold)
  <2> DEFINE i == 1 + Least(n - Threshold, 10)
             d == Doubled[i]
  <2>1. i \in 1..11 BY <1>2, SignInAssumption DEF Least
  <2>2. d \in Nat /\ d >= 1
    <3> HIDE DEF i
    <3> QED BY <2>1 DEF Doubled
  <2>3. LockFor(n) = Least(Cap, Base * d) BY <1>2 DEF LockFor
  <2> HIDE DEF d
  <2>4. Base * d \in Nat /\ Base * d >= Base BY <2>2, SignInAssumption
  <2> DEFINE b == Base * d
  <2>5. Least(Cap, b) \in 0..Cap /\ Least(Cap, b) >= Base
    <3>1. b \in Nat /\ b >= Base BY <2>4
    <3> HIDE DEF b
    <3> QED BY <3>1, SignInAssumption DEF Least
  <2> QED BY <2>3, <2>5
<1> QED BY <1>1, <1>2

(* A failure shortens no lock.                                              *)
LEMMA FailureTyped ==
  ASSUME failed \in 0..Enough, lock \in 0..Cap, RecordFailure
  PROVE  failed' \in 0..Enough /\ lock' \in 0..Cap /\ lock' >= lock
<1>1. Enough \in Nat /\ Cap \in Nat BY SignInAssumption DEF Enough
<1>2. failed' \in 0..Enough BY <1>1 DEF RecordFailure, Least
<1>3. failed + 1 \in Nat BY <1>1
<1>4. LockFor(failed + 1) \in 0..Cap BY <1>3, Locks
<1>5. lock' \in 0..Cap /\ lock' >= lock BY <1>1, <1>4 DEF RecordFailure, Most
<1> QED BY <1>2, <1>5

(* A code that matches was not spent.                                       *)
LEMMA MatchIsNew ==
  ASSUME CodesInv, NEW c \in Totp, Matches(c)
  PROVE  c \notin spent /\ \A d \in spent : d.kind = "totp" /\ d.of = secret => d.at <= c.at
<1>1. c.at \in Int /\ last \in Int BY SignInAssumption, CodeKinds DEF Window, CodesInv, SignInTypeOK, Never
<1>2. \A d \in spent : d.kind = "totp" => d.at \in Int
  BY CodeKinds, SignInAssumption DEF CodesInv, SignInTypeOK, Window
<1> QED BY <1>1, <1>2 DEF CodesInv, SpentIsPast, Matches

-----------------------------------------------------------------------------
LEMMA CodesInitInv == SignInInit => CodesInv
BY SignInAssumption
   DEF SignInInit, CodesInv, SignInTypeOK, SpentIsPast, SpentIsUsedUp, CodesAreSpentOnce, Never, Enough

(* Failures and lockouts touch no code.                                     *)
LEMMA FailureInv ==
  ASSUME CodesInv, Miss \/ LockedOut
  PROVE  CodesInv'
<1>1. UNCHANGED <<factor, spent, replayed>> /\ (RecordFailure \/ UNCHANGED lockout)
  BY DEF Miss, WrongPassword, WrongCode, CountsAsFailure, LockedOut, Told, history
<1>2. failed' \in 0..Enough /\ lock' \in 0..Cap
  BY <1>1, FailureTyped DEF CodesInv, SignInTypeOK, lockout
<1> QED BY <1>1, <1>2
    DEF CodesInv, SignInTypeOK, SpentIsPast, SpentIsUsedUp, CodesAreSpentOnce, factor

LEMMA ForgiveInv ==
  ASSUME CodesInv, PasswordOnly \/ Unlock
  PROVE  CodesInv'
<1>1. failed' \in 0..Enough /\ lock' \in 0..Cap
  BY SignInAssumption DEF PasswordOnly, Unlock, Forgive, Enough
<1>2. UNCHANGED <<factor, spent, replayed>> BY DEF PasswordOnly, Unlock
<1> QED BY <1>1, <1>2
    DEF CodesInv, SignInTypeOK, SpentIsPast, SpentIsUsedUp, CodesAreSpentOnce, factor

LEMMA CodeAcceptedInv ==
  ASSUME CodesInv, NEW c \in Totp, CodeAccepted(c)
  PROVE  CodesInv'
<1>1. Matches(c) BY DEF CodeAccepted
<1>2. SignInTypeOK'
  BY SignInAssumption, CodeKinds
     DEF CodeAccepted, Forgive, Spend, CodesInv, SignInTypeOK, Window, Never, Enough
<1>3. CodesAreSpentOnce'
  BY <1>1, MatchIsNew DEF CodeAccepted, Spend, CodesInv, CodesAreSpentOnce
<1>4. SpentIsUsedUp'
  BY CodeKinds DEF CodeAccepted, Spend, CodesInv, SignInTypeOK, SpentIsUsedUp
<1>5. SpentIsPast'
  <2>1. c.of = secret /\ secret <= made /\ c.at <= c.at
    BY <1>1, CodeKinds, SignInAssumption DEF Matches, CodesInv, SignInTypeOK, Window
  <2> QED BY <1>1, <2>1, MatchIsNew DEF CodeAccepted, Spend, CodesInv, SpentIsPast
<1> QED BY <1>2, <1>3, <1>4, <1>5 DEF CodesInv

LEMMA ConfirmInv ==
  ASSUME CodesInv, NEW c \in Totp, Confirm(c)
  PROVE  CodesInv'
<1>1. Matches(c) BY DEF Confirm
<1>2. SignInTypeOK'
  BY SignInAssumption, CodeKinds DEF Confirm, lockout, CodesInv, SignInTypeOK, Window, Never
<1>3. CodesAreSpentOnce'
  BY <1>1, MatchIsNew DEF Confirm, CodesInv, CodesAreSpentOnce
<1>4. SpentIsUsedUp' BY CodeKinds DEF Confirm, SpentIsUsedUp
<1>5. SpentIsPast'
  <2>1. c.of = secret /\ secret <= made /\ c.at <= c.at
    BY <1>1, CodeKinds, SignInAssumption DEF Matches, CodesInv, SignInTypeOK, Window
  <2> QED BY <1>1, <2>1, MatchIsNew DEF Confirm, CodesInv, SpentIsPast
<1> QED BY <1>2, <1>3, <1>4, <1>5 DEF CodesInv

LEMMA RecoveryAcceptedInv ==
  ASSUME CodesInv, NEW c \in RecoveryCode, RecoveryAccepted(c)
  PROVE  CodesInv'
<1>1. SignInTypeOK'
  BY SignInAssumption DEF RecoveryAccepted, Forgive, Spend, CodesInv, SignInTypeOK, Enough
<1>2. CodesAreSpentOnce'
  BY DEF RecoveryAccepted, Spend, CodesInv, CodesAreSpentOnce, SpentIsUsedUp
<1>3. SpentIsUsedUp' BY DEF RecoveryAccepted, Spend, CodesInv, SpentIsUsedUp
<1>4. SpentIsPast' BY CodeKinds DEF RecoveryAccepted, Spend, CodesInv, SpentIsPast
<1> QED BY <1>1, <1>2, <1>3, <1>4 DEF CodesInv

(* A new secret is of a number no spent code is of; none is of number 0.    *)
LEMMA EnrolmentInv ==
  ASSUME CodesInv, Enroll \/ Disable
  PROVE  CodesInv'
<1>1. made \in Nat /\ \A c \in spent : c.kind = "totp" => c.of \in 1..MaxSecret
  BY CodeKinds, SignInAssumption DEF CodesInv, SignInTypeOK
<1>2. CASE Enroll
  <2>1. SignInTypeOK' BY <1>1, <1>2, SignInAssumption
                DEF Enroll, lockout, history, CodesInv, SignInTypeOK, Never
  <2>2. SpentIsPast' BY <1>1, <1>2 DEF Enroll, history, CodesInv, SpentIsPast
  <2> QED BY <1>2, <2>1, <2>2 DEF Enroll, history, CodesInv, SpentIsUsedUp, CodesAreSpentOnce
<1>3. CASE Disable
  <2>1. SignInTypeOK' BY <1>1, <1>3, SignInAssumption
                DEF Disable, lockout, history, CodesInv, SignInTypeOK, Never
  <2>2. SpentIsPast' BY <1>1, <1>3 DEF Disable, history, CodesInv, SpentIsPast
  <2> QED BY <1>3, <2>1, <2>2 DEF Disable, history, CodesInv, SpentIsUsedUp, CodesAreSpentOnce
<1> QED BY <1>2, <1>3

(* The last counter and the spent codes grow old together; what leaves the  *)
(* window matches no more.                                                  *)
LEMMA SignInTickInv ==
  ASSUME CodesInv, SignInTick
  PROVE  CodesInv'
<1> DEFINE Kept == {c \in spent : c.kind # "totp"}
           Recent == {d \in spent : d.kind = "totp" /\ d.at > -Drift}
           Older(c) == [c EXCEPT !.at = @ - 1]
<1>1. spent' = Kept \cup {Older(c) : c \in Recent} BY DEF SignInTick
<1>2. Kept \subseteq RecoveryCode /\ Kept \subseteq spent
  BY CodeKinds DEF CodesInv, SignInTypeOK
<1>3. ASSUME NEW c \in Recent
      PROVE  /\ Older(c) \in Totp /\ Older(c).kind = "totp" /\ c \in spent
             /\ Older(c).of = c.of /\ Older(c).at = c.at - 1 /\ c.at \in Int
  <2>1. c \in Totp /\ c.at > -Drift /\ c \in spent BY CodeKinds DEF CodesInv, SignInTypeOK
  <2>2. c.at \in Window /\ c.at - 1 \in Window /\ c.at \in Int
    BY <2>1, CodeKinds, SignInAssumption DEF Window
  <2> QED BY <2>1, <2>2 DEF Totp
<1>4. /\ last \in Int /\ last' \in Int /\ last' \in Never..Drift /\ last - 1 <= last'
  BY SignInAssumption DEF SignInTick, Most, CodesInv, SignInTypeOK, Never
<1>5. lock' \in 0..Cap BY SignInAssumption DEF SignInTick, Most, CodesInv, SignInTypeOK
<1>6. spent' \subseteq Totp \cup RecoveryCode BY <1>1, <1>2, <1>3
<1>7. SignInTypeOK' BY <1>4, <1>5, <1>6 DEF SignInTick, CodesInv, SignInTypeOK
<1>8. SpentIsPast'
  <2>1. ASSUME NEW c \in Recent
        PROVE  Older(c).of <= made /\ (Older(c).of = secret => Older(c).at <= last')
    <3>1. c.of <= made /\ (c.of = secret => c.at <= last) BY DEF CodesInv, SpentIsPast
    <3> HIDE DEF Older
    <3> QED BY <1>3, <1>4, <3>1
  <2>2. UNCHANGED <<secret, made>> BY DEF SignInTick
  <2> HIDE DEF Older, Recent
  <2> QED BY <1>1, <2>1, <2>2 DEF SpentIsPast
<1>9. SpentIsUsedUp'
  BY <1>1, <1>2, <1>3, CodeKinds DEF SignInTick, CodesInv, SignInTypeOK, SpentIsUsedUp
<1> QED BY <1>7, <1>8, <1>9 DEF SignInTick, CodesInv, CodesAreSpentOnce

-----------------------------------------------------------------------------
LEMMA CodesNextInv == CodesInv /\ [SignInNext]_signInVars => CodesInv'
<1> SUFFICES ASSUME CodesInv, [SignInNext]_signInVars PROVE CodesInv' OBVIOUS
<1>1. CASE Miss \/ LockedOut BY <1>1, FailureInv
<1>2. CASE PasswordOnly \/ Unlock BY <1>2, ForgiveInv
<1>3. ASSUME NEW c \in Totp, CodeAccepted(c) PROVE CodesInv' BY <1>3, CodeAcceptedInv
<1>4. ASSUME NEW c \in Totp, Confirm(c) PROVE CodesInv' BY <1>4, ConfirmInv
<1>5. ASSUME NEW c \in RecoveryCode, RecoveryAccepted(c) PROVE CodesInv'
  BY <1>5, RecoveryAcceptedInv
<1>6. CASE Enroll \/ Disable BY <1>6, EnrolmentInv
<1>7. CASE SignInTick BY <1>7, SignInTickInv
<1>8. CASE UNCHANGED signInVars
  BY <1>8 DEF signInVars, lockout, factor, history, CodesInv, SignInTypeOK, SpentIsPast, SpentIsUsedUp,
              CodesAreSpentOnce
<1> QED BY <1>1, <1>2, <1>3, <1>4, <1>5, <1>6, <1>7, <1>8 DEF SignInNext

(* The strengthening is an invariant: what has been spent is behind `last`  *)
(* or out of `recovery` (totp.verify, recovery_code_consume).               *)
THEOREM CodesInvariance == SignInSpec => []CodesInv
<1> QED BY CodesInitInv, CodesNextInv, PTL DEF SignInSpec

(* No code is accepted twice, for two logins or for the enrolment and a     *)
(* login (UserService.authenticate, confirm_totp_enrollment).               *)
THEOREM SignInIsSafe == SignInSpec => []SignInSafety
<1>1. CodesInv => SignInSafety BY DEF CodesInv, SignInSafety
<1> QED BY <1>1, CodesInvariance, PTL

-----------------------------------------------------------------------------
(* Wrong codes are among the failures; once they are as many as the         *)
(* threshold, what is left of the lock and what passed since the last of    *)
(* them make a whole lockout.                                               *)
GuessInv ==
  /\ SignInTypeOK
  /\ misses \in 0..Threshold /\ rest \in 0..Base /\ misses <= failed
  /\ misses = Threshold => lock + rest >= Base

LEMMA GuessInitInv == SignInInit => GuessInv
<1>1. SignInInit => SignInTypeOK BY CodesInitInv DEF CodesInv
<1> QED BY <1>1, SignInAssumption DEF SignInInit, GuessInv

LEMMA WrongCodeWaits ==
  ASSUME GuessInv, NEW c, WrongCode(c)
  PROVE  /\ misses' \in 0..Threshold /\ rest' \in 0..Base /\ misses' <= failed'
         /\ misses' = Threshold => lock' + rest' >= Base
<1>1. /\ RecordFailure /\ misses' = Least(misses + 1, Threshold) /\ rest' = 0
  BY DEF WrongCode, CountsAsFailure
<1>2. /\ failed \in 0..Enough /\ lock \in 0..Cap /\ misses \in 0..Threshold /\ misses <= failed
      /\ Enough \in Nat /\ Enough >= Threshold /\ Threshold \in Nat
  BY SignInAssumption DEF GuessInv, SignInTypeOK, Enough
<1>3. misses' \in 0..Threshold /\ misses' <= misses + 1 BY <1>1, <1>2 DEF Least
<1>4. failed' = Least(failed + 1, Enough) /\ lock' = Most(lock, LockFor(failed + 1))
  BY <1>1 DEF RecordFailure
<1>5. misses' <= failed' BY <1>2, <1>3, <1>4 DEF Least
<1>6. ASSUME misses' = Threshold PROVE lock' >= Base
  <2>1. failed + 1 \in Nat /\ failed + 1 >= Threshold BY <1>2, <1>3, <1>6
  <2>2. LockFor(failed + 1) \in 0..Cap /\ LockFor(failed + 1) >= Base BY <2>1, Locks
  <2> QED BY <1>2, <1>4, <2>2, SignInAssumption DEF Most
<1>7. lock' \in 0..Cap BY <1>1, <1>2, FailureTyped
<1>8. rest' \in 0..Base /\ lock' + rest' = lock'
  <2>1. lock' \in Int BY <1>7, SignInAssumption
  <2>2. \A a \in Int : a + 0 = a OBVIOUS
  <2>3. 0 \in 0..Base BY SignInAssumption
  <2>4. lock' + 0 = lock' BY <2>1, <2>2
  <2> QED BY <1>1, <2>3, <2>4
<1> QED BY <1>3, <1>5, <1>6, <1>8

LEMMA GuessNextInv == CodesInv /\ GuessInv /\ [SignInNext]_signInVars => GuessInv'
<1> SUFFICES ASSUME CodesInv, GuessInv, [SignInNext]_signInVars PROVE GuessInv' OBVIOUS
<1>1. SignInTypeOK'
  <2>1. CodesInv' BY CodesNextInv
  <2> QED BY <2>1 DEF CodesInv
<1>2. /\ failed \in 0..Enough /\ lock \in 0..Cap /\ misses \in 0..Threshold /\ rest \in 0..Base
      /\ Enough \in Nat /\ Enough >= Threshold /\ Threshold \in Nat \ {0}
      /\ Base \in Nat \ {0} /\ Cap \in Nat
  BY SignInAssumption DEF GuessInv, SignInTypeOK, Enough
<1>3. CASE WrongPassword
  <2>1. RecordFailure /\ UNCHANGED <<misses, rest>> BY <1>3 DEF WrongPassword
  <2>2. lock' \in 0..Cap /\ lock' >= lock BY <1>2, <2>1, FailureTyped
  <2>3. misses' <= failed' BY <1>2, <2>1 DEF RecordFailure, Least, GuessInv
  <2>4. misses' = Threshold => lock' + rest' >= Base
    <3>1. misses = Threshold => lock + rest >= Base BY DEF GuessInv
    <3>2. lock' + rest >= lock + rest
      <4>1. \A a, b, c \in Int : a >= b => a + c >= b + c OBVIOUS
      <4>2. lock' \in Int /\ lock \in Int /\ rest \in Int BY <1>2, <2>2
      <4> QED BY <2>2, <4>1, <4>2
    <3>3. lock' + rest \in Int /\ lock + rest \in Int /\ Base \in Int BY <1>2, <2>2
    <3> QED BY <2>1, <3>1, <3>2, <3>3
  <2> QED BY <1>1, <1>2, <2>1, <2>3, <2>4 DEF GuessInv
<1>4. ASSUME NEW c, WrongCode(c) PROVE GuessInv' BY <1>1, <1>4, WrongCodeWaits DEF GuessInv
<1>5. CASE misses' = 0 /\ rest' = Base /\ failed' = 0
  BY <1>1, <1>2, <1>5 DEF GuessInv
<1>6. CASE UNCHANGED <<failed, lock, misses, rest>>
  BY <1>1, <1>6 DEF GuessInv
<1>7. CASE SignInTick
  <2>1. /\ lock' = Most(lock - 1, 0) /\ rest' = Least(rest + 1, Base)
        /\ UNCHANGED <<failed, misses>>
    BY <1>7 DEF SignInTick
  <2>2. rest' \in 0..Base BY <1>2, <2>1 DEF Least
  <2>3. lock + rest >= Base => lock' + rest' >= Base BY <1>2, <2>1 DEF Least, Most
  <2> QED BY <1>1, <2>1, <2>2, <2>3 DEF GuessInv
<1>8. \/ WrongPassword \/ (\E c : WrongCode(c)) \/ SignInTick
      \/ misses' = 0 /\ rest' = Base /\ failed' = 0
      \/ UNCHANGED <<failed, lock, misses, rest>>
  <2>1. CASE Miss BY <2>1 DEF Miss
  <2>2. CASE LockedOut BY <2>2 DEF LockedOut, Told, lockout, history
  <2>3. CASE PasswordOnly \/ Unlock BY <2>3 DEF PasswordOnly, Unlock, Forgive
  <2>4. CASE \E c \in Totp : CodeAccepted(c) \/ Confirm(c)
    BY <2>4 DEF CodeAccepted, Confirm, Forgive, lockout
  <2>5. CASE \E c \in RecoveryCode : RecoveryAccepted(c) BY <2>5 DEF RecoveryAccepted, Forgive
  <2>6. CASE Enroll \/ Disable BY <2>6 DEF Enroll, Disable, lockout, history
  <2>7. CASE UNCHANGED signInVars BY <2>7 DEF signInVars, lockout, history
  <2> QED BY <2>1, <2>2, <2>3, <2>4, <2>5, <2>6, <2>7 DEF SignInNext
<1> QED BY <1>3, <1>4, <1>5, <1>6, <1>7, <1>8

(* Guesses at the code are a lockout apart once there were as many as the   *)
(* threshold, whatever else is tried between them (_record_failure).        *)
THEOREM GuessesWait == SignInSpec => GuessesAreSpaced
<1> DEFINE Spaced == \A c \in Totp \cup RecoveryCode \cup {Garbage} :
       WrongCode(c) /\ misses = Threshold => rest = Base
<1>1. SignInSpec => []GuessInv
  BY GuessInitInv, GuessNextInv, CodesInvariance, PTL DEF SignInSpec
<1>2. GuessInv => [Spaced]_signInVars
  <2> SUFFICES ASSUME GuessInv, NEW c, WrongCode(c), misses = Threshold PROVE rest = Base
    OBVIOUS
  <2>1. lock = 0 BY DEF WrongCode
  <2> QED BY <2>1, SignInAssumption DEF GuessInv
<1>3. SignInSpec => [][Spaced]_signInVars
  <2> HIDE DEF Spaced
  <2> QED BY <1>1, <1>2, PTL
<1> QED BY <1>3, PTL DEF GuessesAreSpaced, Spaced
=============================================================================
