------------------------------ MODULE Accounts ------------------------------
(***************************************************************************)
(* Accounts and sessions (services.users, services.session, api.auth,      *)
(* api.users, the user commands of genwatch.__main__ and the two tables of *)
(* db they share).                                                         *)
(*                                                                         *)
(* Two processes write the tables: the server, whose handlers run one at a *)
(* time on the event loop, and the shell commands.  Each does its job      *)
(* statement by statement, and the other's statements fall between them.   *)
(* A request is admitted (deps.get_principal) on a thread of its own and   *)
(* waits for the event loop, so its principal may be out of date when its  *)
(* handler runs.                                                           *)
(*                                                                         *)
(* Time is a clock that ticks once for every unit of idle_timeout,         *)
(* session_hours and remember_me_days; a job takes less than a unit.       *)
(***************************************************************************)
EXTENDS Naturals, Sequences, FiniteSets

CONSTANTS
  Account,  \* accounts there are at first, enabled
  Admins,   \* those of the admin role
  Session,  \* session ids (jti)
  Idle,     \* idle_timeout_minutes
  Life,     \* session_hours
  Long,     \* remember_me_days
  AdminOp,  \* what is done to accounts: some of Operation
  MaxBumps  \* bound: times a token_epoch is bumped

Operation == {"password", "disable", "enable", "revoke", "demote", "promote", "delete"}
Process == {"server", "cli"}
Habit == Long \div 2

ASSUME AccountsAssumption ==
  /\ Admins \subseteq Account /\ Admins # {} /\ AdminOp \subseteq Operation
  /\ Idle \in Nat \ {0} /\ Life \in Nat \ {0} /\ Long \in Nat \ {0} /\ MaxBumps \in Nat

VARIABLES
  users,    \* table users
  session,  \* table sessions, and the token its holder has
  job,      \* the statements a process has still to run
  ticket,   \* the principal of the request that waits for the event loop
  bumps,    \* token_epoch bumps so far
  ended,    \* history: sessions somebody has been told are over
  overlap   \* history: an account lost its admin role, or worse, by one
            \* process between the other's last-admin check and its write

vars == <<users, session, job, ticket, bumps, ended, overlap>>

Nobody == [there |-> FALSE, admin |-> FALSE, disabled |-> FALSE, epoch |-> 0, pw |-> 0]
Unborn == [row |-> "unborn"]
Deleted == [row |-> "deleted"]
NoJob == [op |-> "none"]
NoTicket == [jti |-> 0]

Row(j) == session[j].row \in {"live", "revoked"}
Own(u) == {j \in Session : Row(j) /\ session[j].user = u}
EnabledAdmin(u) == users[u].there /\ users[u].admin /\ ~users[u].disabled

Init ==
  /\ users = [u \in Account |-> [there |-> TRUE, admin |-> u \in Admins,
                                 disabled |-> FALSE, epoch |-> 0, pw |-> 0]]
  /\ session = [j \in Session |-> Unborn]
  /\ job = [p \in Process |-> NoJob]
  /\ ticket = NoTicket /\ bumps = 0 /\ ended = {} /\ overlap = FALSE

-----------------------------------------------------------------------------
(* session.validate, over one reading of the two tables.                    *)
Idled(j) == ~session[j].remember /\ session[j].quiet > Idle
Accepted(j) ==
  /\ session[j].row = "live" /\ session[j].left > 0
  /\ LET u == users[session[j].user]
     IN  u.there /\ ~u.disabled /\ session[j].epoch = u.epoch
Valid(j) == Accepted(j) /\ ~Idled(j)

(* A use of session j, and a session that is over.                          *)
Touched(j) == [session EXCEPT ![j].quiet = 0]
Revoked(r) == [r EXCEPT !.row = "revoked", !.left = 0, !.quiet = 0, !.away = 0]

(* revoke_all_for_user, but for the caller's own session if he keeps it.    *)
RevokeAll(u, kept) ==
  [j \in Session |-> IF j \in Own(u) \ kept THEN Revoked(session[j]) ELSE session[j]]

-----------------------------------------------------------------------------
(* The operations of UserService: the statements of each, in order.  The    *)
(* first reads the account's row and is done when the job begins.           *)
Statements_unchecked(op) ==
  CASE op = "password" -> <<"set_password", "revoke_all">>
    [] op = "disable"  -> <<"set_disabled", "revoke_all", "bump">>
    [] op = "revoke"   -> <<"revoke_all", "bump">>
    [] OTHER           -> <<op>>
Statements_epochOnly(op) ==
  CASE op = "password" -> <<"set_password">>
    [] op = "disable"  -> <<"check", "set_disabled", "revoke_all", "bump">>
    [] op = "revoke"   -> <<"revoke_all", "bump">>
    [] op \in {"demote", "delete"} -> <<"check", op>>
    [] op \in {"enable", "promote"} -> <<op>>
Statements(op) ==
  CASE op = "password" -> <<"set_password", "revoke_all">>
    [] op = "disable"  -> <<"check", "set_disabled", "revoke_all", "bump">>
    [] op = "revoke"   -> <<"revoke_all", "bump">>
    [] op \in {"demote", "delete"} -> <<"check", op>>
    [] op \in {"enable", "promote"} -> <<op>>

Ends == {"password", "disable", "revoke"}
Removal == {"set_disabled", "demote", "delete"}

Job(op, u, todo, keep, jti) ==
  [op |-> op, user |-> u, todo |-> todo, keep |-> keep, jti |-> jti,
   admin |-> "check" \in {todo[i] : i \in DOMAIN todo} /\ EnabledAdmin(u),
   epoch |-> 0, pw |-> IF op \in {"login", "change"} THEN users[u].pw ELSE 0,
   told |-> IF op \in Ends \cup {"change"} THEN Own(u) ELSE {}]

Begin(p, j) ==
  /\ job[p] = NoJob /\ users[j.user].there
  /\ IF j.op \in Ends \cup {"change"} THEN bumps < MaxBumps /\ bumps' = bumps + 1
                                      ELSE bumps' = bumps
  /\ job' = [job EXCEPT ![p] = j]

(* The job goes on to its next statement, or is done and answers.           *)
GoOn(p, j) ==
  LET todo == Tail(j.todo) IN
  IF todo = << >> THEN /\ job' = [job EXCEPT ![p] = NoJob]
                       /\ ended' = ended \cup j.told
                  ELSE /\ job' = [job EXCEPT ![p] = [j EXCEPT !.todo = todo]]
                       /\ ended' = ended
Abort(p) == job' = [job EXCEPT ![p] = NoJob] /\ ended' = ended

At(p, s) == job[p] # NoJob /\ Head(job[p].todo) = s

(* _assert_not_last_admin: the row it was given, the others as they are.    *)
Check(p) ==
  LET u == job[p].user
      alone == \A v \in Account \ {u} : ~EnabledAdmin(v)
  IN  /\ At(p, "check")
      /\ IF job[p].admin /\ alone THEN Abort(p) ELSE GoOn(p, [job[p] EXCEPT !.admin = FALSE])
      /\ UNCHANGED <<users, session, ticket, bumps, overlap>>

(* One UPDATE of the account's row; none if the row is gone.                *)
Updated(r, s) ==
  CASE s = "set_password" -> [r EXCEPT !.epoch = @ + 1, !.pw = @ + 1]
    [] s = "bump"         -> [r EXCEPT !.epoch = @ + 1]
    [] s = "set_disabled" -> [r EXCEPT !.disabled = TRUE]
    [] s = "enable"       -> [r EXCEPT !.disabled = FALSE]
    [] s = "demote"       -> [r EXCEPT !.admin = FALSE]
    [] s = "promote"      -> [r EXCEPT !.admin = TRUE]

(* Somebody else has read the row, or the others, and has still to write.   *)
Overlaps(p) == \E q \in Process \ {p} :
  job[q] # NoJob /\ \E i \in DOMAIN job[q].todo : job[q].todo[i] \in Removal

Update(p) ==
  \E s \in {"set_password", "bump", "set_disabled", "enable", "demote", "promote"} :
    LET u == job[p].user IN
    /\ At(p, s)
    /\ users' = [users EXCEPT ![u] = IF @.there THEN Updated(@, s) ELSE @]
    /\ GoOn(p, [job[p] EXCEPT !.pw = IF job[p].op = "change" THEN users[u].pw + 1 ELSE @])
    /\ overlap' = (overlap \/ (s \in Removal /\ Overlaps(p)))
    /\ UNCHANGED <<session, ticket, bumps>>

(* DELETE of the account; its sessions go with it (ON DELETE CASCADE).      *)
Delete(p) ==
  LET u == job[p].user IN
  /\ At(p, "delete")
  /\ users' = [users EXCEPT ![u] = Nobody]
  /\ session' = [j \in Session |-> IF j \in Own(u) THEN Deleted ELSE session[j]]
  /\ overlap' = (overlap \/ Overlaps(p))
  /\ GoOn(p, job[p]) /\ UNCHANGED <<ticket, bumps>>

RevokeRows(p) ==
  /\ At(p, "revoke_all")
  /\ session' = RevokeAll(job[p].user, {})
  /\ GoOn(p, job[p]) /\ UNCHANGED <<users, ticket, bumps, overlap>>

(* The account is read again, for the epoch the new token will carry.       *)
Reread(p) ==
  LET u == job[p].user IN
  /\ At(p, "reread")
  /\ IF users[u].there /\ (job[p].op = "renew" => ~users[u].disabled)
     THEN GoOn(p, [job[p] EXCEPT !.epoch = users[u].epoch])
     ELSE Abort(p)
  /\ UNCHANGED <<users, session, ticket, bumps, overlap>>

(* start_session: the token is minted from the row as it was read, and its  *)
(* row inserted; there is no insertion for an account that is gone.         *)
Lifetime(keep) == IF keep THEN Long ELSE Life
Open(p) ==
  LET u == job[p].user IN
  /\ At(p, "open")
  /\ IF ~users[u].there THEN Abort(p) /\ UNCHANGED session
     ELSE \E j \in Session :
       /\ session[j] = Unborn /\ \A k \in Session : k < j => session[k] # Unborn
       /\ session' = [session EXCEPT ![j] =
            [row |-> "live", user |-> u, epoch |-> job[p].epoch, pw |-> job[p].pw,
             raced |-> job[p].pw # users[u].pw, remember |-> job[p].keep,
             left |-> Lifetime(job[p].keep), quiet |-> 0, away |-> 0]]
       /\ GoOn(p, job[p])
  /\ UNCHANGED <<users, ticket, bumps, overlap>>

(* session_extend, for a row that is neither revoked nor expired; the       *)
(* holder's cookie is replaced by the token of the same id.                 *)
Extend(p) ==
  LET j == job[p].jti IN
  /\ At(p, "extend")
  /\ session' = IF session[j].row = "live" /\ session[j].left > 0
                THEN [session EXCEPT ![j].left = Long, ![j].epoch = job[p].epoch]
                ELSE session
  /\ GoOn(p, job[p]) /\ UNCHANGED <<users, ticket, bumps, overlap>>

Statement(p) ==
  Check(p) \/ Update(p) \/ Delete(p) \/ RevokeRows(p) \/ Reread(p) \/ Open(p) \/ Extend(p)

-----------------------------------------------------------------------------
(* The server.                                                              *)

(* POST /api/auth/login with the password of the day: authenticate reads    *)
(* the row, spends a quarter of a second on bcrypt, and reads it again.     *)
Login(u, keep) ==
  /\ ~users[u].disabled /\ \E j \in Session : session[j] = Unborn
  /\ Begin("server", Job("login", u, <<"reread", "open">>, keep, 0))
  /\ UNCHANGED <<users, session, ticket, ended, overlap>>

(* get_principal for a request that carries session j.  A session found     *)
(* idle is revoked.                                                         *)
Admit(j) ==
  /\ ticket = NoTicket /\ Valid(j)
  /\ ticket' = [jti |-> j, user |-> session[j].user, admin |-> users[session[j].user].admin]
  /\ session' = Touched(j)
  /\ UNCHANGED <<users, job, bumps, ended, overlap>>

FindIdle(j) ==
  /\ Accepted(j) /\ Idled(j)
  /\ session' = [session EXCEPT ![j] = Revoked(@)]
  /\ UNCHANGED <<users, job, bumps, ticket, ended, overlap>>

(* api.users: an admin's request about account v.  He may not delete,       *)
(* disable or demote himself.                                               *)
Administer(v, op) ==
  /\ ticket.jti # 0 /\ ticket.admin
  /\ v = ticket.user => op \notin {"delete", "disable", "demote"}
  /\ Begin("server", Job(op, v, Statements(op), FALSE, 0)) /\ ticket' = NoTicket
  /\ UNCHANGED <<users, session, ended, overlap>>

(* POST /api/auth/password; the session that asked is replaced by a new one.*)
ChangePassword ==
  /\ ticket.jti # 0 /\ \E j \in Session : session[j] = Unborn
  /\ LET u == ticket.user
         todo == <<"set_password", "revoke_all", "reread", "open">>
         keep == Row(ticket.jti) /\ session[ticket.jti].remember
     IN  Begin("server", Job("change", u, todo, keep, 0))
  /\ ticket' = NoTicket
  /\ UNCHANGED <<users, session, ended, overlap>>

(* DELETE /api/auth/sessions. *)
RevokeOthers ==
  LET u == ticket.user IN
  /\ job["server"] = NoJob /\ ticket.jti # 0
  /\ session' = RevokeAll(u, {ticket.jti})
  /\ ended' = ended \cup (Own(u) \ {ticket.jti}) /\ ticket' = NoTicket
  /\ UNCHANGED <<users, job, bumps, overlap>>

(* A request that only reads, or is refused by its handler. *)
Answer ==
  /\ job["server"] = NoJob /\ ticket.jti # 0 /\ ticket' = NoTicket
  /\ UNCHANGED <<users, session, job, bumps, ended, overlap>>

(* POST /api/auth/logout. *)
Logout(j) ==
  /\ job["server"] = NoJob /\ Valid(j)
  /\ session' = [session EXCEPT ![j] = Revoked(@)] /\ ended' = ended \cup {j}
  /\ UNCHANGED <<users, job, bumps, ticket, overlap>>

(* GET /api/auth/me, the keepalive of a console in use: it renews a         *)
(* remembered session with no more than half of its life left.              *)
Due_late(j) == session[j].left * 4 <= Long
Due(j) == session[j].left * 2 <= Long
Me(j) ==
  /\ job["server"] = NoJob /\ Valid(j)
  /\ session' = [Touched(j) EXCEPT ![j].away = IF @ <= Habit THEN 0 ELSE @]
  /\ job' = IF session[j].remember /\ Due(j)
            THEN [job EXCEPT !["server"] =
                    Job("renew", session[j].user, <<"reread", "extend">>, FALSE, j)]
            ELSE job
  /\ UNCHANGED <<users, ticket, bumps, ended, overlap>>

(* The shell. *)
Command(u, op) ==
  /\ Begin("cli", Job(op, u, Statements(op), FALSE, 0))
  /\ UNCHANGED <<users, session, ticket, ended, overlap>>

(* A unit of time.  For a remembered session, away counts the units since   *)
(* the console last called /me, and stays above Habit once it has been.     *)
Aged(r) ==
  IF r.row # "live" THEN r
  ELSE IF r.remember
       THEN [r EXCEPT !.left = IF @ > 0 THEN @ - 1 ELSE 0,
                      !.away = IF @ <= Habit THEN @ + 1 ELSE @]
       ELSE [r EXCEPT !.left = IF @ > 0 THEN @ - 1 ELSE 0,
                      !.quiet = IF @ <= Idle THEN @ + 1 ELSE @]
Over(r) == r.row = "live" /\ (r.left = 0 \/ (~r.remember /\ r.quiet > Idle))
Tick ==
  /\ job = [p \in Process |-> NoJob]
  /\ session' = [j \in Session |-> Aged(session[j])]
  /\ ended' = ended \cup {j \in Session : Over(session'[j])}
  /\ UNCHANGED <<users, job, bumps, ticket, overlap>>

Next ==
  \/ \E p \in Process : Statement(p)
  \/ \E u \in Account : \/ \E keep \in BOOLEAN : Login(u, keep)
                        \/ \E op \in AdminOp : Administer(u, op) \/ Command(u, op)
  \/ \E j \in Session : Admit(j) \/ FindIdle(j) \/ Logout(j) \/ Me(j)
  \/ ChangePassword \/ RevokeOthers \/ Answer \/ Tick

Spec == Init /\ [][Next]_vars

-----------------------------------------------------------------------------
TypeOK ==
  /\ \A u \in Account : users[u].there =>
       users[u].epoch \in 0..MaxBumps /\ users[u].pw \in 0..users[u].epoch
  /\ \A j \in Session : Row(j) =>
       session[j].left \in 0..Lifetime(session[j].remember) /\ session[j].user \in Account
  /\ ended \subseteq Session /\ (ticket.jti = 0 \/ ticket.jti \in Session)

(* A session that somebody was told is over (a logout, a password set, an   *)
(* account disabled, its sessions revoked, by the console or the shell; its *)
(* time run out) is never accepted again: neither by a renewal that was     *)
(* under way nor when the account is enabled later.                         *)
EndedStaysEnded == \A j \in ended : ~Valid(j)

(* An accepted session was opened with the password of today, unless the    *)
(* password was set while that login ran, or is being set and the session   *)
(* is about to be revoked.                                                  *)
SessionsAreCurrent ==
  \A j \in Session : Row(j) /\ Valid(j) =>
    \/ session[j].raced \/ session[j].pw = users[session[j].user].pw
    \/ \E p \in Process : job[p] # NoJob /\ j \in job[p].told

SessionSafety == TypeOK /\ EndedStaysEnded /\ SessionsAreCurrent

(* An enabled admin remains, unless both processes took one away at once.   *)
AdminRemains == overlap \/ \E u \in Account : EnabledAdmin(u)

(* A remembered session whose console calls /me at least once in half of    *)
(* remember_me_days is still there, unless it was revoked.                  *)
StaysSignedIn ==
  \A j \in Session :
    session[j].row = "live" /\ session[j].remember /\ session[j].away <= Habit =>
      session[j].left > 0

(* Refuted: what session.renew_if_due and config.py say of a device used at *)
(* least once per remember_me_days (with Habit == Long - 1, StaysSignedIn), *)
(* and what api.users says of `genwatch userdel`.                           *)
SomeAdmin == \E u \in Account : EnabledAdmin(u)
=============================================================================
