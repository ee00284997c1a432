------------------------------- MODULE SignIn -------------------------------
(***************************************************************************)
(* The login decision of one account that is enabled and whose password    *)
(* does not change (services.users.UserService.authenticate, the TOTP      *)
(* operations beside it, services.totp and their statements in db).        *)
(* authenticate runs to its end on the event loop, so each attempt is one  *)
(* step; the shell's unlock, usertotp and usertotp-off are the same steps. *)
(*                                                                         *)
(* The clock ticks once per TOTP period; lockouts are counted in the same  *)
(* unit.  Every time is kept relative to now, so the clock has no bound: a *)
(* TOTP code is the secret it is of and the period it is of, -1 being the  *)
(* last one and 1 the next.                                                *)
(***************************************************************************)
EXTENDS Integers, FiniteSets

CONSTANTS
  Threshold,  \* lockout_threshold
  Base,       \* lockout_seconds
  Cap,        \* lockout_max_seconds
  Drift,      \* DEFAULT_DRIFT_STEPS
  Required,   \* auth.require_totp
  MaxSecret   \* bound: secrets generated

ASSUME SignInAssumption ==
  /\ Threshold \in Nat \ {0} /\ Base \in Nat \ {0} /\ Cap \in Nat /\ Cap >= Base
  /\ Drift \in Nat /\ Required \in BOOLEAN /\ MaxSecret \in Nat \ {0}

VARIABLES
  failed,    \* failed_attempts, up to where it makes no difference
  lock,      \* locked_until, less now
  secret,    \* totp_secret: how many were generated, 0 for none
  made,      \* secrets generated so far
  enabled,   \* totp_enabled
  last,      \* totp_last_counter, less now
  recovery,  \* the unused rows of user_recovery_codes
  spent,     \* history: codes that were accepted
  replayed,  \* history: one was accepted again
  misses,    \* history: wrong codes since the attempts were last forgiven
  rest,      \* history: time since the last of them
  wrong      \* history: turns with every wrong password or code

lockout == <<failed, lock>>
factor == <<secret, made, enabled, last, recovery>>
history == <<spent, replayed, misses, rest, wrong>>
signInVars == <<lockout, factor, history>>

Never == -Drift - 1  \* a period no code can be of any more
Window == -Drift..Drift

(* What may be typed for a code: a TOTP code, a recovery code of the batch  *)
(* in force, or neither.                                                    *)
Totp == [kind : {"totp"}, of : 1..MaxSecret, at : Window]
RecoveryCode == [kind : {"recovery"}, of : {0}, at : {1, 2}]
Garbage == [kind |-> "garbage", of |-> 0, at |-> 0]

SignInInit ==
  /\ failed = 0 /\ lock = 0
  /\ secret = 0 /\ made = 0 /\ enabled = FALSE /\ last = Never /\ recovery = {}
  /\ spent = {} /\ replayed = FALSE /\ misses = 0 /\ rest = Base
  /\ wrong = FALSE

-----------------------------------------------------------------------------
(* _record_failure: from the threshold on every failure locks, twice as     *)
(* long each time, ten times at most.                                       *)
Least(a, b) == IF a < b THEN a ELSE b
Most(a, b) == IF a < b THEN b ELSE a
Doubled == <<1, 2, 4, 8, 16, 32, 64, 128, 256, 512, 1024>>
LockFor(n) ==
  IF n < Threshold THEN 0 ELSE Least(Cap, Base * Doubled[1 + Least(n - Threshold, 10)])

(* Failures beyond this one lock for no longer.                             *)
Enough == Threshold + Cap
RecordFailure ==
  /\ failed' = Least(failed + 1, Enough)
  /\ lock' = Most(lock, LockFor(failed + 1))

(* user_record_login_ok, user_set_password and unlock.                      *)
Forgive == failed' = 0 /\ lock' = 0 /\ misses' = 0 /\ rest' = Base

(* totp.verify: a code of the window, past the last counter that was spent. *)
Matches_sameCounter(c) ==
  c.kind = "totp" /\ c.of = secret /\ c.at \in Window /\ c.at >= last
Matches(c) ==
  c.kind = "totp" /\ c.of = secret /\ c.at \in Window /\ c.at > last

Spend(c) == spent' = spent \cup {c} /\ replayed' = (replayed \/ c \in spent)

-----------------------------------------------------------------------------
(* authenticate.  A wrong password counts, locked or not.                   *)
WrongPassword ==
  /\ RecordFailure /\ wrong' = ~wrong
  /\ UNCHANGED <<factor, spent, replayed, misses, rest>>

(* The right one, while locked, is told so and counts for nothing.          *)
Told_counted == RecordFailure
Told == UNCHANGED lockout
LockedOut == lock > 0 /\ Told /\ UNCHANGED <<factor, history>>

NeedsCode == enabled \/ Required

PasswordOnly ==
  /\ lock = 0 /\ ~NeedsCode
  /\ Forgive /\ UNCHANGED <<factor, spent, replayed, wrong>>

CodeAccepted(c) ==
  /\ lock = 0 /\ enabled /\ Matches(c)
  /\ last' = c.at /\ Spend(c) /\ Forgive
  /\ UNCHANGED <<secret, made, enabled, recovery, wrong>>

(* recovery_code_consume. *)
RecoveryAccepted(c) ==
  /\ lock = 0 /\ enabled /\ c \in recovery
  /\ recovery' = recovery \ {c} /\ Spend(c) /\ Forgive
  /\ UNCHANGED <<secret, made, enabled, last, wrong>>

(* A wrong code counts as a wrong password does.                            *)
CountsAsFailure_never == UNCHANGED lockout
CountsAsFailure == RecordFailure
WrongCode(c) ==
  /\ lock = 0 /\ enabled /\ ~Matches(c) /\ c \notin recovery
  /\ CountsAsFailure /\ wrong' = ~wrong
  /\ misses' = Least(misses + 1, Threshold) /\ rest' = 0
  /\ UNCHANGED <<factor, spent, replayed>>

Miss == WrongPassword \/ \E c \in Totp \cup RecoveryCode \cup {Garbage} : WrongCode(c)

-----------------------------------------------------------------------------
(* begin_totp_enrollment; of an account that has a second factor, too.      *)
Enroll ==
  /\ made < MaxSecret
  /\ made' = made + 1 /\ secret' = made + 1 /\ enabled' = FALSE /\ last' = Never
  /\ UNCHANGED <<recovery, lockout, history>>

(* confirm_totp_enrollment: new recovery codes, and the code is spent.      *)
Confirm(c) ==
  /\ secret # 0 /\ Matches(c)
  /\ enabled' = TRUE /\ last' = c.at /\ recovery' = RecoveryCode
  /\ spent' = (spent \ RecoveryCode) \cup {c} /\ replayed' = (replayed \/ c \in spent)
  /\ UNCHANGED <<secret, made, lockout, misses, rest, wrong>>

Disable ==
  /\ secret' = 0 /\ enabled' = FALSE /\ last' = Never /\ recovery' = {}
  /\ UNCHANGED <<made, lockout, history>>

Unlock == Forgive /\ UNCHANGED <<factor, spent, replayed, wrong>>

SignInTick ==
  /\ lock' = Most(lock - 1, 0) /\ last' = Most(last - 1, Never)
  /\ spent' = {c \in spent : c.kind # "totp"} \cup
              {[c EXCEPT !.at = @ - 1] : c \in {d \in spent : d.kind = "totp" /\ d.at > -Drift}}
  /\ rest' = Least(rest + 1, Base)
  /\ UNCHANGED <<failed, secret, made, enabled, recovery, replayed, misses, wrong>>

SignInNext ==
  \/ Miss \/ LockedOut \/ PasswordOnly
  \/ \E c \in Totp : CodeAccepted(c) \/ Confirm(c)
  \/ \E c \in RecoveryCode : RecoveryAccepted(c)
  \/ Enroll \/ Disable \/ Unlock \/ SignInTick

SignInSpec == SignInInit /\ [][SignInNext]_signInVars

(* Time passes. *)
FairSpec == SignInSpec /\ WF_signInVars(SignInTick)

-----------------------------------------------------------------------------
SignInTypeOK ==
  /\ failed \in 0..Enough /\ lock \in 0..Cap
  /\ made \in 0..MaxSecret /\ secret \in 0..made /\ last \in Never..Drift
  /\ recovery \subseteq RecoveryCode /\ spent \subseteq Totp \cup RecoveryCode

(* No code, of the authenticator or for recovery, is accepted twice: not    *)
(* for two logins, nor for the enrolment and a login.                       *)
CodesAreSpentOnce == ~replayed

SignInSafety == SignInTypeOK /\ CodesAreSpentOnce

(* Whoever has the password and guesses the code: after Threshold wrong     *)
(* codes, with no login and no unlock since, the next one is looked at no   *)
(* sooner than a lockout after the one before.                              *)
GuessesAreSpaced ==
  [][\A c \in Totp \cup RecoveryCode \cup {Garbage} :
       WrongCode(c) /\ misses = Threshold => rest = Base]_signInVars

(* Its holder may sign in: with the password and a code of the moment.      *)
MaySignIn ==
  lock = 0 /\ (NeedsCode => enabled /\ \E c \in Totp : Matches(c))

(* Unless wrong passwords or codes keep coming, the holder may sign in again*)
(* and again, however often he tries while locked out.                      *)
HolderGetsIn == []<><<wrong' # wrong>>_signInVars \/ []<>MaySignIn

(* Refuted, when a second factor is Required: api.auth.totp_enroll says a   *)
(* failed scan cannot lock the operator out, but enrolling again takes the  *)
(* factor he has away until he confirms.                                    *)
EnrollKeepsAccess ==
  [][Enroll => (NeedsCode /\ ~enabled) \/ ~(NeedsCode' /\ ~enabled')]_signInVars
=============================================================================
