------------------------ MODULE RemoteControl_proofs ------------------------
(***************************************************************************)
(* The safety of commands for any number of requests, tokens, operators    *)
(* and any views of the two devices: single use of a token, confirmation,  *)
(* exclusion on a surface, locks in use and the rate bound.                *)
(***************************************************************************)
EXTENDS RemoteControl, FiniteSetTheorems, TLAPS

Stage == {"wait", "token"} \cup Written
Live(r) == req[r].at \notin {"idle", "refused"}

(* Who holds which lock, read from the requests' side.                      *)
HoldsLock(r) ==
  /\ req[r].at = "token" => req[r].act \notin Verb
  /\ req[r].at = "landed" => req[r].act \in Command
  /\ req[r].at = "wire" /\ req[r].act \in Verb => ctl = r
  /\ req[r].at \in {"token", "wire", "landed"} /\ req[r].act \in Command => ats = r

Holders == \A r \in Request : HoldsLock(r)
AskedWithToken == \A r \in Request : Live(r) => token[req[r].tok] # Unissued

(* Every ATS request that was let in has taken a token of its operator's    *)
(* bucket, whether it has written yet or not.                               *)
Charged(o) == {r \in Request : Live(r) /\ req[r].by = o /\ req[r].act \in Command}
Charge == \A o \in Operator : bucket[o] + Cardinality(Charged(o)) <= Burst + refills

Inv == /\ TypeOK /\ OneWritePerToken /\ WriteWasConfirmed /\ LockIsInUse
       /\ Holders /\ AskedWithToken /\ Charge

-----------------------------------------------------------------------------
(* The three surfaces are apart.                                            *)
LEMMA Surfaces ==
  /\ Verb = {"start", "stop", "exercise", "transfer"}
  /\ Command = {"test", "inhibit", "force_transfer", "bypass_delay"}
  /\ Action \subseteq Verb \cup Command \cup {"ack"}
  /\ Maintained \subseteq Command /\ Maintained \subseteq Action
BY ControlAssumption DEF Verb, Command, Allowed, AtsSpec, Maintained

LEMMA ZeroIsNobody == 0 \notin Request
BY DEF Request

LEMMA LiveAsked ==
  ASSUME TypeOK, NEW r \in Request, Live(r)
  PROVE  req[r] \in Asked
BY DEF TypeOK, Live, Idle

LEMMA StageTyped ==
  ASSUME NEW x \in Asked, NEW s \in Stage
  PROVE  LET y == [x EXCEPT !.at = s]
         IN  y \in Asked /\ y.at = s /\ y.by = x.by /\ y.act = x.act /\ y.tok = x.tok /\ y.on = x.on
BY DEF Asked, Stage

LEMMA ChargedFinite == \A o : IsFiniteSet(Charged(o)) /\ Cardinality(Charged(o)) \in Nat
<1>1. IsFiniteSet(Request) BY ControlAssumption, FS_Interval DEF Request
<1>2. \A o : Charged(o) \subseteq Request BY DEF Charged
<1> QED BY <1>1, <1>2, FS_Subset, FS_CardinalityType

LEMMA OneMore ==
  ASSUME NEW S, IsFiniteSet(S), NEW y, NEW T, T \subseteq S \cup {y}
  PROVE  Cardinality(T) \in Nat /\ Cardinality(T) <= Cardinality(S) + 1
<1>1. Cardinality(S) \in Nat BY FS_CardinalityType
<1>2. IsFiniteSet(S \cup {y}) BY FS_AddElement
<1>3. Cardinality(S \cup {y}) = IF y \in S THEN Cardinality(S) ELSE Cardinality(S) + 1
  BY FS_AddElement
<1>4. Cardinality(S \cup {y}) \in Nat BY <1>2, FS_CardinalityType
<1>5. Cardinality(T) <= Cardinality(S \cup {y}) /\ IsFiniteSet(T) BY <1>2, FS_Subset
<1>6. Cardinality(T) \in Nat BY <1>5, FS_CardinalityType
<1> QED BY <1>1, <1>3, <1>4, <1>5, <1>6

(* Who is charged stays or is refused, and a bucket only fills with time.   *)
LEMMA ChargeKept ==
  ASSUME Charge, TypeOK, \A o \in Operator : Charged(o)' \subseteq Charged(o),
         bucket' = bucket, refills' = refills
  PROVE  Charge'
<1> SUFFICES ASSUME NEW o \in Operator
             PROVE  bucket'[o] + Cardinality(Charged(o)') <= Burst + refills'
  BY DEF Charge
<1>1. Cardinality(Charged(o)') <= Cardinality(Charged(o)) /\ Cardinality(Charged(o)') \in Nat
  BY ChargedFinite, FS_Subset, FS_CardinalityType
<1>2. bucket[o] \in Nat /\ refills \in Nat /\ Burst \in Nat BY ControlAssumption DEF TypeOK
<1> QED BY <1>1, <1>2, ChargedFinite DEF Charge

(* A step of a request's handler changes how far it is, or refuses it.      *)
LEMMA Moves ==
  ASSUME Inv, NEW r \in Request, Live(r), NEW x,
         x = Refused(r) \/ \E s \in Stage : x = At(r, s),
         req' = [req EXCEPT ![r] = x]
  PROVE  /\ req' \in [Request -> {Idle} \cup [at : {"refused"}] \cup Asked]
         /\ req'[r] = x /\ \A q \in Request \ {r} : req'[q] = req[q]
         /\ x.at # "refused" => /\ x \in Asked /\ x.at \in Stage
                                /\ x.by = req[r].by /\ x.act = req[r].act /\ x.tok = req[r].tok
         /\ bucket' = bucket /\ refills' = refills => Charge'
<1>1. req \in [Request -> {Idle} \cup [at : {"refused"}] \cup Asked] BY DEF Inv, TypeOK
<1>2. req[r] \in Asked BY LiveAsked DEF Inv
<1>3. CASE x = Refused(r)
  <2>1. x \in [at : {"refused"}] /\ x.at = "refused" BY <1>3 DEF Refused
  <2>2. req' \in [Request -> {Idle} \cup [at : {"refused"}] \cup Asked] BY <1>1, <2>1
  <2>3. req'[r] = x /\ \A q \in Request \ {r} : req'[q] = req[q] BY <1>1
  <2>4. \A o \in Operator : Charged(o)' \subseteq Charged(o) BY <2>1, <2>3 DEF Charged, Live
  <2> QED BY <2>1, <2>2, <2>3, <2>4, ChargeKept DEF Inv
<1>4. CASE \E s \in Stage : x = At(r, s)
  <2>1. PICK s \in Stage : x = [req[r] EXCEPT !.at = s] BY <1>4 DEF At
  <2>2. /\ x \in Asked /\ x.at = s
        /\ x.by = req[r].by /\ x.act = req[r].act /\ x.tok = req[r].tok
    BY <1>2, <2>1, StageTyped
  <2>3. req' \in [Request -> {Idle} \cup [at : {"refused"}] \cup Asked] BY <1>1, <2>2
  <2>4. req'[r] = x /\ \A q \in Request \ {r} : req'[q] = req[q] BY <1>1
  <2>5. \A o \in Operator : Charged(o)' \subseteq Charged(o) BY <2>2, <2>4 DEF Charged, Live
  <2> QED BY <2>2, <2>3, <2>4, <2>5, ChargeKept DEF Inv
<1> QED BY <1>3, <1>4

(* Spending a token keeps whose it was and what for.                        *)
LEMMA Spends ==
  ASSUME TypeOK, NEW t \in Token, token[t] # Unissued,
         token' = [token EXCEPT ![t] = Spent(t)]
  PROVE  /\ token' \in [Token -> {Unissued} \cup [st : {"live", "gone"}, owner : Operator, for : Scope]]
         /\ \A u \in Token \ {t} : token'[u] = token[u]
         /\ token'[t].st = "gone" /\ token'[t] # Unissued
         /\ token'[t].owner = token[t].owner /\ token'[t].for = token[t].for
<1>1. token \in [Token -> {Unissued} \cup [st : {"live", "gone"}, owner : Operator, for : Scope]]
  BY DEF TypeOK
<1>2. token[t] \in [st : {"live", "gone"}, owner : Operator, for : Scope] BY <1>1
<1>3. /\ Spent(t) \in [st : {"live", "gone"}, owner : Operator, for : Scope]
      /\ Spent(t).st = "gone" /\ Spent(t).owner = token[t].owner /\ Spent(t).for = token[t].for
  BY <1>2 DEF Spent
<1>4. Spent(t) # Unissued BY <1>3 DEF Unissued
<1> QED BY <1>1, <1>3, <1>4

(* A move that writes nothing new leaves every write with its own token.    *)
LEMMA MoveKeepsTokens ==
  ASSUME Inv, NEW r \in Request, Live(r), NEW x,
         x = Refused(r) \/ \E s \in Stage : x = At(r, s),
         req' = [req EXCEPT ![r] = x], token' = token,
         x.at \in Written => req[r].at \in Written
  PROVE  OneWritePerToken' /\ WriteWasConfirmed' /\ AskedWithToken'
<1>1. /\ req'[r] = x /\ \A q \in Request \ {r} : req'[q] = req[q]
      /\ x.at # "refused" => x.by = req[r].by /\ x.act = req[r].act /\ x.tok = req[r].tok
  BY Moves
<1>2. \A q \in Request : req'[q].at \in Written =>
        /\ req[q].at \in Written
        /\ req'[q].by = req[q].by /\ req'[q].act = req[q].act /\ req'[q].tok = req[q].tok
  BY <1>1 DEF Written, Ended, Outcome
<1>3. OneWritePerToken' BY <1>2 DEF Inv, OneWritePerToken
<1>4. WriteWasConfirmed' BY <1>2 DEF Inv, WriteWasConfirmed
<1>5. AskedWithToken' BY <1>1 DEF Inv, AskedWithToken, Live
<1> QED BY <1>3, <1>4, <1>5

(* A request that spends its token writes only if the token was live, and   *)
(* no earlier write has a live token.                                       *)
LEMMA SpendKeepsTokens ==
  ASSUME Inv, NEW r \in Request, Live(r), NEW x,
         x = Refused(r) \/ \E s \in Stage : x = At(r, s),
         req' = [req EXCEPT ![r] = x],
         Consume(req[r].tok, req[r].by, req[r].act),
         x.at \in Written => Accepts(req[r].tok, req[r].by, req[r].act)
  PROVE  /\ OneWritePerToken' /\ WriteWasConfirmed' /\ AskedWithToken'
         /\ token' \in [Token -> {Unissued} \cup [st : {"live", "gone"}, owner : Operator, for : Scope]]
<1> DEFINE t == req[r].tok
<1>1. /\ req'[r] = x /\ \A q \in Request \ {r} : req'[q] = req[q]
      /\ x.at # "refused" => x.by = req[r].by /\ x.act = req[r].act /\ x.tok = req[r].tok
  BY Moves
<1>2. t \in Token /\ token[t] # Unissued BY LiveAsked DEF Inv, AskedWithToken, Asked
<1>3. /\ token' \in [Token -> {Unissued} \cup [st : {"live", "gone"}, owner : Operator, for : Scope]]
      /\ \A u \in Token \ {t} : token'[u] = token[u]
      /\ token'[t].st = "gone" /\ token'[t] # Unissued
      /\ token'[t].owner = token[t].owner /\ token'[t].for = token[t].for
  BY <1>2, Spends DEF Inv, Consume
<1>4. \A q \in Request : Live(q) => req[q].tok \in Token BY LiveAsked DEF Inv, Asked
<1>5. \A q \in Request : req[q].at \in Written => Live(q) BY DEF Live, Written, Ended, Outcome
<1>6. x.at \in Written => \A q \in Request : req[q].at \in Written => req[q].tok # t
  BY DEF Inv, WriteWasConfirmed, Accepts
<1>7. x.at \in Written => x.at # "refused" BY DEF Written, Ended, Outcome
<1>8. OneWritePerToken' BY <1>1, <1>6, <1>7 DEF Inv, OneWritePerToken
<1>9. WriteWasConfirmed'
  <2> SUFFICES ASSUME NEW q \in Request, req'[q].at \in Written
               PROVE  /\ token'[req'[q].tok].st = "gone"
                      /\ token'[req'[q].tok].owner = req'[q].by
                      /\ token'[req'[q].tok].for \in {req'[q].act, "any"}
    BY DEF WriteWasConfirmed
  <2>1. CASE q = r BY <1>1, <1>3, <1>7, <2>1 DEF Accepts
  <2>2. CASE q # r
    <3>1. req'[q] = req[q] BY <1>1, <2>2
    <3>2. /\ token[req[q].tok].st = "gone" /\ token[req[q].tok].owner = req[q].by
          /\ token[req[q].tok].for \in {req[q].act, "any"} /\ req[q].tok \in Token
      BY <3>1, <1>4, <1>5 DEF Inv, WriteWasConfirmed
    <3> QED BY <3>1, <3>2, <1>3
  <2> QED BY <2>1, <2>2
<1>10. AskedWithToken'
  <2> SUFFICES ASSUME NEW q \in Request, req'[q].at \notin {"idle", "refused"}
               PROVE  token'[req'[q].tok] # Unissued
    BY DEF AskedWithToken, Live
  <2>1. CASE q = r BY <1>1, <1>3, <2>1
  <2>2. CASE q # r
    <3>1. req'[q] = req[q] BY <1>1, <2>2
    <3>2. token[req[q].tok] # Unissued /\ req[q].tok \in Token
      BY <3>1, <1>4 DEF Inv, AskedWithToken, Live
    <3> QED BY <3>1, <3>2, <1>3
  <2> QED BY <2>1, <2>2
<1> QED BY <1>3, <1>8, <1>9, <1>10

-----------------------------------------------------------------------------
LEMMA InitInv == Init => Inv
<1> SUFFICES ASSUME Init PROVE Inv OBVIOUS
<1>1. TypeOK BY ControlAssumption DEF Init, TypeOK
<1>2. \A r \in Request : req[r].at = "idle" BY DEF Init, Idle
<1>3. /\ OneWritePerToken /\ WriteWasConfirmed /\ LockIsInUse
      /\ Holders /\ AskedWithToken
  BY <1>2 DEF Init, OneWritePerToken, WriteWasConfirmed, LockIsInUse, Holders, HoldsLock,
              AskedWithToken, Live, Written, Ended, Outcome
<1>4. Charge
  <2>1. \A o : Charged(o) = {} BY <1>2 DEF Charged, Live
  <2>2. refills = 0 /\ bucket = [o \in Operator |-> Burst] BY DEF Init
  <2>3. Cardinality({}) = 0 BY FS_EmptySet
  <2>4. Burst \in Nat BY ControlAssumption
  <2> QED BY <2>1, <2>2, <2>3, <2>4 DEF Charge
<1> QED BY <1>1, <1>3, <1>4 DEF Inv

-----------------------------------------------------------------------------
(* The token store and the arrival of a request. *)

LEMMA IssueTokenInv ==
  ASSUME Inv, NEW t \in Token, NEW o \in Operator, NEW verb \in Scope, IssueToken(t, o, verb)
  PROVE  Inv'
<1> DEFINE new == [st |-> "live", owner |-> o, for |-> verb]
<1>1. /\ token[t] = Unissued /\ token' = [token EXCEPT ![t] = new]
      /\ UNCHANGED <<req, ctl, ats, bucket, h100, atsView, relay, shown, echo, aged, mover, polls, refills>>
  BY DEF IssueToken, locks, atsVars, echoes, bounds
<1>2. TypeOK' BY <1>1 DEF Inv, TypeOK
<1>3. new # Unissued BY DEF Unissued
<1>4. \A r \in Request : Live(r) => req[r].tok # t /\ req[r].tok \in Token
  BY <1>1, LiveAsked DEF Inv, AskedWithToken, Asked
<1>5. \A r \in Request : Live(r) => token'[req[r].tok] = token[req[r].tok]
  BY <1>1, <1>4 DEF Inv, TypeOK
<1>6. WriteWasConfirmed'
  BY <1>1, <1>5 DEF Inv, WriteWasConfirmed, Live, Written, Ended, Outcome
<1>7. AskedWithToken' BY <1>1, <1>5 DEF Inv, AskedWithToken, Live
<1> QED BY <1>1, <1>2, <1>6, <1>7
    DEF Inv, OneWritePerToken, LockIsInUse, Holders, HoldsLock, Charge, Charged, Live

LEMMA TokenExpiresInv ==
  ASSUME Inv, NEW t \in Token, TokenExpires(t)
  PROVE  Inv'
<1>1. /\ token[t].st = "live" /\ token' = [token EXCEPT ![t] = Spent(t)]
      /\ UNCHANGED <<req, ctl, ats, bucket, h100, atsView, relay, shown, echo, aged, mover, polls, refills>>
  BY DEF TokenExpires, locks, atsVars, echoes, bounds
<1>2. token[t] # Unissued BY <1>1 DEF Unissued
<1>3. /\ token' \in [Token -> {Unissued} \cup [st : {"live", "gone"}, owner : Operator, for : Scope]]
      /\ \A u \in Token \ {t} : token'[u] = token[u]
      /\ token'[t].st = "gone" /\ token'[t] # Unissued
      /\ token'[t].owner = token[t].owner /\ token'[t].for = token[t].for
  BY <1>1, <1>2, Spends DEF Inv
<1>4. TypeOK' BY <1>1, <1>3 DEF Inv, TypeOK
<1>5. \A r \in Request : Live(r) => req[r].tok \in Token BY LiveAsked DEF Inv, Asked
<1>6. WriteWasConfirmed'
  BY <1>1, <1>3, <1>5 DEF Inv, WriteWasConfirmed, Live, Written, Ended, Outcome
<1>7. AskedWithToken' BY <1>1, <1>3, <1>5 DEF Inv, AskedWithToken, Live
<1> QED BY <1>1, <1>4, <1>6, <1>7
    DEF Inv, OneWritePerToken, LockIsInUse, Holders, HoldsLock, Charge, Charged, Live

(* An ATS request is charged to its operator when it is let in; any other   *)
(* is charged to nobody.                                                    *)
LEMMA SubmitInv ==
  ASSUME Inv, NEW r \in Request, NEW o \in Operator, NEW act \in Action, NEW t \in Token,
         NEW on \in BOOLEAN, NEW override \in BOOLEAN, Submit(r, o, act, t, on, override)
  PROVE  Inv'
<1> DEFINE new == [at |-> "wait", by |-> o, act |-> act, tok |-> t, on |-> on, over |-> override]
           charged == act \in Command /\ bucket[o] > 0
           x == IF act \in Command /\ ~charged THEN Refused(r) ELSE new
<1>1. /\ token[t] # Unissued /\ req[r] = Idle /\ req' = [req EXCEPT ![r] = x]
      /\ bucket' = IF charged THEN [bucket EXCEPT ![o] = @ - 1] ELSE bucket
      /\ UNCHANGED <<token, ctl, ats, h100, atsView, relay, shown, echo, aged, mover, polls, refills>>
  BY DEF Submit, locks, atsVars, echoes, bounds
<1>2. new \in Asked BY DEF Asked
<1>3. x \in [at : {"refused"}] \cup Asked /\ x.at \in {"refused", "wait"} BY <1>2 DEF Refused
<1>4. TypeOK /\ req \in [Request -> {Idle} \cup [at : {"refused"}] \cup Asked] BY DEF Inv, TypeOK
<1>5. req' \in [Request -> {Idle} \cup [at : {"refused"}] \cup Asked] BY <1>1, <1>3, <1>4
<1>6. req'[r] = x /\ \A q \in Request \ {r} : req'[q] = req[q] BY <1>1, <1>4
<1>7. bucket' \in [Operator -> 0..Burst]
  BY <1>1, ControlAssumption DEF Inv, TypeOK
<1>8. TypeOK' BY <1>1, <1>5, <1>7, <1>4 DEF TypeOK
<1>9. req[r].at = "idle" BY <1>1 DEF Idle
<1>10. \A q \in Request : req'[q].at \in Written \cup {"token"} => q # r /\ req'[q] = req[q]
  BY <1>3, <1>6 DEF Written, Ended, Outcome
<1>11. OneWritePerToken' /\ WriteWasConfirmed'
  BY <1>1, <1>10 DEF Inv, OneWritePerToken, WriteWasConfirmed
<1>12. Holders' BY <1>1, <1>10 DEF Inv, Holders, HoldsLock, Written, Ended, Outcome
<1>13. LockIsInUse'
  <2>1. ctl # 0 => ctl # r BY <1>9 DEF Inv, LockIsInUse
  <2>2. ats # 0 => ats # r BY <1>9 DEF Inv, LockIsInUse
  <2> QED BY <1>1, <1>4, <1>6, <2>1, <2>2 DEF Inv, LockIsInUse, TypeOK
<1>14. AskedWithToken'
  <2>1. x.at # "refused" => x.tok = t BY <1>3 DEF Refused
  <2> QED BY <1>1, <1>6, <2>1 DEF Inv, AskedWithToken, Live
<1>15. Charge'
  <2> SUFFICES ASSUME NEW p \in Operator
               PROVE  bucket'[p] + Cardinality(Charged(p)') <= Burst + refills'
    BY DEF Charge
  <2>1. /\ bucket[p] \in Nat /\ refills \in Nat /\ Burst \in Nat /\ refills' = refills
        /\ bucket[p] + Cardinality(Charged(p)) <= Burst + refills
    BY <1>1, <1>4, ControlAssumption DEF TypeOK, Inv, Charge
  <2>2. IsFiniteSet(Charged(p)) /\ Cardinality(Charged(p)) \in Nat BY ChargedFinite
  <2>3. CASE charged /\ p = o
    <3>1. x = new BY <2>3
    <3>2. Charged(p)' \subseteq Charged(p) \cup {r} BY <1>6 DEF Charged, Live
    <3>3. Cardinality(Charged(p)') \in Nat /\ Cardinality(Charged(p)') <= Cardinality(Charged(p)) + 1
      BY <2>2, <3>2, OneMore
    <3>4. bucket'[p] = bucket[p] - 1 BY <1>1, <1>4, <2>3 DEF TypeOK
    <3> QED BY <2>1, <2>2, <3>3, <3>4
  <2>4. CASE ~(charged /\ p = o)
    <3>1. bucket'[p] = bucket[p] BY <1>1, <1>4, <2>4 DEF TypeOK
    <3>2. x.at = "refused" \/ x.act \notin Command \/ x.by # p
      BY <2>4 DEF Refused
    <3>3. Charged(p)' \subseteq Charged(p) BY <1>6, <3>2 DEF Charged, Live
    <3>4. Cardinality(Charged(p)') <= Cardinality(Charged(p)) /\ Cardinality(Charged(p)') \in Nat
      BY <2>2, <3>3, FS_Subset, FS_CardinalityType
    <3> QED BY <2>1, <2>2, <3>1, <3>4
  <2> QED BY <2>3, <2>4
<1> QED BY <1>8, <1>11, <1>12, <1>13, <1>14, <1>15 DEF Inv

LEMMA BucketFillsInv ==
  ASSUME Inv, NEW o \in Operator, BucketFills(o)
  PROVE  Inv'
<1>1. /\ refills' = refills + 1 /\ refills < MaxRefill /\ bucket[o] < Burst
      /\ bucket' = [bucket EXCEPT ![o] = @ + 1]
      /\ UNCHANGED <<token, req, ctl, ats, h100, atsView, relay, shown, echo, aged, mover, polls>>
  BY DEF BucketFills, Refill, locks, atsVars, echoes
<1>2. TypeOK' BY <1>1, ControlAssumption DEF Inv, TypeOK
<1>3. Charge'
  <2> SUFFICES ASSUME NEW p \in Operator
               PROVE  bucket'[p] + Cardinality(Charged(p)') <= Burst + refills'
    BY DEF Charge
  <2>1. Charged(p)' = Charged(p) BY <1>1 DEF Charged, Live
  <2>2. /\ bucket[p] \in Nat /\ refills \in Nat /\ Burst \in Nat /\ Cardinality(Charged(p)) \in Nat
        /\ bucket[p] + Cardinality(Charged(p)) <= Burst + refills
    BY ControlAssumption, ChargedFinite DEF TypeOK, Inv, Charge
  <2>3. bucket'[p] <= bucket[p] + 1 /\ bucket'[p] \in Nat BY <1>1, <2>2 DEF Inv, TypeOK
  <2> QED BY <1>1, <2>1, <2>2, <2>3
<1> QED BY <1>1, <1>2, <1>3
    DEF Inv, OneWritePerToken, WriteWasConfirmed, LockIsInUse, Holders, HoldsLock, AskedWithToken, Live

-----------------------------------------------------------------------------
(* What the steps of a handler have in common. *)

(* Spending the token on the way to the wire, from wherever the handler is. *)
LEMMA SpendOnInv ==
  ASSUME Inv, NEW r \in Request, Live(r), SpendOn(r, "wire"),
         UNCHANGED <<bucket, refills>>
  PROVE  LET ok == Accepts(req[r].tok, req[r].by, req[r].act)
         IN  /\ req' \in [Request -> {Idle} \cup [at : {"refused"}] \cup Asked]
             /\ token' \in [Token -> {Unissued} \cup [st : {"live", "gone"}, owner : Operator, for : Scope]]
             /\ \A q \in Request \ {r} : req'[q] = req[q]
             /\ req'[r].at = IF ok THEN "wire" ELSE "refused"
             /\ ok => req'[r].act = req[r].act
             /\ OneWritePerToken' /\ WriteWasConfirmed' /\ AskedWithToken' /\ Charge'
<1> DEFINE ok == Accepts(req[r].tok, req[r].by, req[r].act)
           x == IF ok THEN At(r, "wire") ELSE Refused(r)
<1>1. /\ Consume(req[r].tok, req[r].by, req[r].act) /\ req' = [req EXCEPT ![r] = x]
  BY DEF SpendOn
<1>2. x = Refused(r) \/ \E s \in Stage : x = At(r, s) BY DEF Stage, Written
<1>3. IF ok THEN x.at = "wire" ELSE x.at = "refused"
  BY LiveAsked, StageTyped DEF Inv, At, Refused, Stage, Written
<1> HIDE DEF x
<1>4. /\ req' \in [Request -> {Idle} \cup [at : {"refused"}] \cup Asked]
      /\ req'[r] = x
      /\ \A q \in Request \ {r} : req'[q] = req[q]
      /\ x.at # "refused" => x.act = req[r].act
      /\ Charge'
  BY <1>1, <1>2, Moves
<1>5. /\ OneWritePerToken' /\ WriteWasConfirmed' /\ AskedWithToken'
      /\ token' \in [Token -> {Unissued} \cup [st : {"live", "gone"}, owner : Operator, for : Scope]]
  BY <1>1, <1>2, <1>3, SpendKeepsTokens DEF Written, Ended, Outcome
<1> QED BY <1>3, <1>4, <1>5

(* A move that spends nothing and writes nothing.                           *)
LEMMA MoveInv ==
  ASSUME Inv, NEW r \in Request, Live(r), NEW s \in Stage, s \in Written => req[r].at \in Written,
         req' = [req EXCEPT ![r] = At(r, s)], UNCHANGED <<token, bucket, refills>>
  PROVE  /\ req' \in [Request -> {Idle} \cup [at : {"refused"}] \cup Asked]
         /\ \A q \in Request \ {r} : req'[q] = req[q]
         /\ req'[r].at = s /\ req'[r].act = req[r].act
         /\ OneWritePerToken' /\ WriteWasConfirmed' /\ AskedWithToken' /\ Charge'
<1> DEFINE x == At(r, s)
<1>1. x.at = s /\ x.act = req[r].act BY LiveAsked, StageTyped DEF Inv, At
<1> HIDE DEF x
<1>2. x = Refused(r) \/ \E z \in Stage : x = At(r, z) BY DEF x
<1>3. req' = [req EXCEPT ![r] = x] BY DEF x
<1>4. /\ req' \in [Request -> {Idle} \cup [at : {"refused"}] \cup Asked]
      /\ req'[r] = x
      /\ \A q \in Request \ {r} : req'[q] = req[q]
      /\ Charge'
  BY <1>2, <1>3, Moves
<1>5. OneWritePerToken' /\ WriteWasConfirmed' /\ AskedWithToken'
  BY <1>1, <1>2, <1>3, MoveKeepsTokens
<1> QED BY <1>1, <1>4, <1>5

LEMMA RefuseInv ==
  ASSUME Inv, NEW r \in Request, Live(r),
         req' = [req EXCEPT ![r] = Refused(r)], UNCHANGED <<token, bucket, refills>>
  PROVE  /\ req' \in [Request -> {Idle} \cup [at : {"refused"}] \cup Asked]
         /\ \A q \in Request \ {r} : req'[q] = req[q]
         /\ req'[r].at = "refused"
         /\ OneWritePerToken' /\ WriteWasConfirmed' /\ AskedWithToken' /\ Charge'
<1> DEFINE x == Refused(r)
<1>1. x.at = "refused" BY DEF Refused
<1> HIDE DEF x
<1>2. x = Refused(r) \/ \E z \in Stage : x = At(r, z) BY DEF x
<1>3. req' = [req EXCEPT ![r] = x] BY DEF x
<1>4. /\ req' \in [Request -> {Idle} \cup [at : {"refused"}] \cup Asked]
      /\ req'[r] = x
      /\ \A q \in Request \ {r} : req'[q] = req[q]
      /\ Charge'
  BY <1>2, <1>3, Moves
<1>5. OneWritePerToken' /\ WriteWasConfirmed' /\ AskedWithToken'
  BY <1>1, <1>2, <1>3, MoveKeepsTokens DEF Written, Ended, Outcome
<1> QED BY <1>1, <1>4, <1>5

-----------------------------------------------------------------------------
(* The handlers.  What a surface holds is left alone by the other surfaces. *)

LEMMA ExecuteVerbInv ==
  ASSUME Inv, NEW r \in Request, ExecuteVerb(r)
  PROVE  Inv'
<1>1. /\ req[r].at = "wait" /\ req[r].act \in Verb /\ ctl = 0
      /\ UNCHANGED <<ats, bucket, h100, atsView, relay, shown, echo, aged, mover, polls, refills>>
  BY DEF ExecuteVerb, Waits, atsVars, echoes, bounds
<1>2. Live(r) BY <1>1 DEF Live
<1>3. TypeOK /\ req[r].act \notin Command BY <1>1, Surfaces DEF Inv
<1>4. CASE ~H100Gates(r)
  <2>1. req' = [req EXCEPT ![r] = Refused(r)] /\ UNCHANGED <<token, ctl>>
    BY <1>4 DEF ExecuteVerb
  <2>2. /\ req' \in [Request -> {Idle} \cup [at : {"refused"}] \cup Asked]
        /\ \A q \in Request \ {r} : req'[q] = req[q]
        /\ req'[r].at = "refused"
        /\ OneWritePerToken' /\ WriteWasConfirmed' /\ AskedWithToken' /\ Charge'
    BY <1>1, <1>2, <2>1, RefuseInv
  <2>3. TypeOK' BY <1>1, <1>3, <2>1, <2>2 DEF TypeOK
  <2>4. LockIsInUse' /\ Holders'
    BY <1>1, <1>3, <2>1, <2>2 DEF Inv, TypeOK, LockIsInUse, Holders, HoldsLock
  <2> QED BY <2>2, <2>3, <2>4 DEF Inv
<1>5. CASE H100Gates(r)
  <2> DEFINE ok == Accepts(req[r].tok, req[r].by, req[r].act)
  <2>1. SpendOn(r, "wire") /\ ctl' = IF ok THEN r ELSE ctl
    BY <1>5 DEF ExecuteVerb, SpendOn
  <2>2. /\ req' \in [Request -> {Idle} \cup [at : {"refused"}] \cup Asked]
        /\ token' \in [Token -> {Unissued} \cup [st : {"live", "gone"}, owner : Operator, for : Scope]]
        /\ \A q \in Request \ {r} : req'[q] = req[q]
        /\ req'[r].at = IF ok THEN "wire" ELSE "refused"
        /\ ok => req'[r].act = req[r].act
        /\ OneWritePerToken' /\ WriteWasConfirmed' /\ AskedWithToken' /\ Charge'
    BY <1>1, <1>2, <2>1, SpendOnInv
  <2>3. TypeOK' BY <1>1, <1>3, <2>1, <2>2 DEF TypeOK
  <2>4. LockIsInUse' BY <1>1, <1>3, <2>1, <2>2 DEF Inv, TypeOK, LockIsInUse
  <2>5. Holders' BY <1>1, <1>3, <2>1, <2>2, ZeroIsNobody DEF Inv, Holders, HoldsLock
  <2> QED BY <2>2, <2>3, <2>4, <2>5 DEF Inv
<1> QED BY <1>4, <1>5

LEMMA WriteVerbInv ==
  ASSUME Inv, NEW r \in Request, NEW outcome \in Outcome, WriteVerb(r, outcome)
  PROVE  Inv'
<1>1. /\ req[r].at = "wire" /\ req[r].act \in Verb
      /\ req' = [req EXCEPT ![r] = At(r, outcome)] /\ ctl' = 0
      /\ UNCHANGED <<token, ats, bucket, h100, atsView, relay, shown, echo, aged, mover, polls, refills>>
  BY DEF WriteVerb, atsVars, echoes, bounds
<1>2. TypeOK /\ req[r].act \notin Command BY <1>1, Surfaces DEF Inv
<1>3. /\ req' \in [Request -> {Idle} \cup [at : {"refused"}] \cup Asked]
      /\ \A q \in Request \ {r} : req'[q] = req[q]
      /\ req'[r].at = outcome /\ req'[r].act = req[r].act
      /\ OneWritePerToken' /\ WriteWasConfirmed' /\ AskedWithToken' /\ Charge'
  BY <1>1, MoveInv DEF Live, Stage, Written, Ended
<1>4. TypeOK' BY <1>1, <1>2, <1>3 DEF TypeOK
<1>5. LockIsInUse' BY <1>1, <1>2, <1>3 DEF Inv, TypeOK, LockIsInUse
<1>6. Holders' BY <1>1, <1>2, <1>3 DEF Inv, Holders, HoldsLock, Outcome
<1> QED BY <1>3, <1>4, <1>5, <1>6 DEF Inv

LEMMA ExecuteCommandInv ==
  ASSUME Inv, NEW r \in Request, ExecuteCommand(r)
  PROVE  Inv'
<1>1. /\ req[r].at = "wait" /\ req[r].act \in Command /\ ats = 0
      /\ UNCHANGED <<ctl, bucket, h100, atsView, relay, shown, echo, aged, mover, polls, refills>>
  BY DEF ExecuteCommand, Waits, atsVars, echoes, bounds
<1>2. Live(r) BY <1>1 DEF Live
<1>3. TypeOK /\ req[r].act \notin Verb BY <1>1, Surfaces DEF Inv
<1>4. CASE ~AtsGates(r)
  <2>1. req' = [req EXCEPT ![r] = Refused(r)] /\ UNCHANGED <<token, ats>>
    BY <1>4 DEF ExecuteCommand
  <2>2. /\ req' \in [Request -> {Idle} \cup [at : {"refused"}] \cup Asked]
        /\ \A q \in Request \ {r} : req'[q] = req[q]
        /\ req'[r].at = "refused"
        /\ OneWritePerToken' /\ WriteWasConfirmed' /\ AskedWithToken' /\ Charge'
    BY <1>1, <1>2, <2>1, RefuseInv
  <2>3. TypeOK' BY <1>1, <1>3, <2>1, <2>2 DEF TypeOK
  <2>4. LockIsInUse' /\ Holders'
    BY <1>1, <1>3, <2>1, <2>2 DEF Inv, TypeOK, LockIsInUse, Holders, HoldsLock
  <2> QED BY <2>2, <2>3, <2>4 DEF Inv
<1>5. CASE AtsGates(r) /\ ctl # 0
  <2>1. req' = [req EXCEPT ![r] = At(r, "token")] /\ ats' = r /\ token' = token
    BY <1>5 DEF ExecuteCommand
  <2>2. /\ req' \in [Request -> {Idle} \cup [at : {"refused"}] \cup Asked]
        /\ \A q \in Request \ {r} : req'[q] = req[q]
        /\ req'[r].at = "token" /\ req'[r].act = req[r].act
        /\ OneWritePerToken' /\ WriteWasConfirmed' /\ AskedWithToken' /\ Charge'
    BY <1>1, <1>2, <2>1, MoveInv DEF Stage, Written, Ended, Outcome
  <2>3. TypeOK' BY <1>1, <1>3, <2>1, <2>2 DEF TypeOK
  <2>4. LockIsInUse' BY <1>1, <1>3, <2>1, <2>2 DEF Inv, TypeOK, LockIsInUse
  <2>5. Holders' BY <1>1, <1>3, <2>1, <2>2, ZeroIsNobody DEF Inv, Holders, HoldsLock
  <2> QED BY <2>2, <2>3, <2>4, <2>5 DEF Inv
<1>6. CASE AtsGates(r) /\ ctl = 0
  <2> DEFINE ok == Accepts(req[r].tok, req[r].by, req[r].act)
  <2>1. SpendOn(r, "wire") /\ ats' = IF ok THEN r ELSE 0
    BY <1>6 DEF ExecuteCommand, LeaveIfRefused
  <2>2. /\ req' \in [Request -> {Idle} \cup [at : {"refused"}] \cup Asked]
        /\ token' \in [Token -> {Unissued} \cup [st : {"live", "gone"}, owner : Operator, for : Scope]]
        /\ \A q \in Request \ {r} : req'[q] = req[q]
        /\ req'[r].at = IF ok THEN "wire" ELSE "refused"
        /\ ok => req'[r].act = req[r].act
        /\ OneWritePerToken' /\ WriteWasConfirmed' /\ AskedWithToken' /\ Charge'
    BY <1>1, <1>2, <2>1, SpendOnInv
  <2>3. TypeOK' BY <1>1, <1>3, <2>1, <2>2 DEF TypeOK
  <2>4. LockIsInUse' BY <1>1, <1>3, <2>1, <2>2 DEF Inv, TypeOK, LockIsInUse
  <2>5. Holders' BY <1>1, <1>3, <2>1, <2>2, ZeroIsNobody DEF Inv, Holders, HoldsLock
  <2> QED BY <2>2, <2>3, <2>4, <2>5 DEF Inv
<1> QED BY <1>4, <1>5, <1>6

LEMMA TakeTokenInv ==
  ASSUME Inv, NEW r \in Request, TakeToken(r)
  PROVE  Inv'
<1> DEFINE ok == Accepts(req[r].tok, req[r].by, req[r].act)
<1>1. /\ req[r].at = "token" /\ SpendOn(r, "wire")
      /\ ats' = IF req[r].act \in Command THEN IF ok THEN r ELSE 0 ELSE ats
      /\ UNCHANGED <<ctl, bucket, h100, atsView, relay, shown, echo, aged, mover, polls, refills>>
  BY DEF TakeToken, LeaveIfRefused, atsVars, echoes, bounds
<1>2. Live(r) BY <1>1 DEF Live
<1>3. /\ TypeOK /\ req[r].act \notin Verb
      /\ req[r].act \in Command => ats = r
  BY <1>1 DEF Inv, Holders, HoldsLock
<1>4. /\ req' \in [Request -> {Idle} \cup [at : {"refused"}] \cup Asked]
      /\ token' \in [Token -> {Unissued} \cup [st : {"live", "gone"}, owner : Operator, for : Scope]]
      /\ \A q \in Request \ {r} : req'[q] = req[q]
      /\ req'[r].at = IF ok THEN "wire" ELSE "refused"
      /\ ok => req'[r].act = req[r].act
      /\ OneWritePerToken' /\ WriteWasConfirmed' /\ AskedWithToken' /\ Charge'
  BY <1>1, <1>2, SpendOnInv
<1>5. TypeOK' BY <1>1, <1>3, <1>4 DEF TypeOK
<1>6. LockIsInUse' BY <1>1, <1>3, <1>4 DEF Inv, TypeOK, LockIsInUse
<1>7. Holders' BY <1>1, <1>3, <1>4 DEF Inv, Holders, HoldsLock
<1> QED BY <1>4, <1>5, <1>6, <1>7 DEF Inv

LEMMA CommandLandsInv ==
  ASSUME Inv, NEW r \in Request, CommandLands(r)
  PROVE  Inv'
<1>1. /\ req[r].at = "wire" /\ req[r].act \in Command
      /\ req' = [req EXCEPT ![r] = At(r, "landed")]
      /\ UNCHANGED <<token, ctl, ats, bucket, h100, atsView, shown, echo, aged, polls, refills>>
  BY DEF CommandLands, locks, echoes, bounds
<1>2. Live(r) /\ TypeOK /\ req[r].act \notin Verb BY <1>1, Surfaces DEF Inv, Live
<1>3. /\ req' \in [Request -> {Idle} \cup [at : {"refused"}] \cup Asked]
      /\ \A q \in Request \ {r} : req'[q] = req[q]
      /\ req'[r].at = "landed" /\ req'[r].act = req[r].act
      /\ OneWritePerToken' /\ WriteWasConfirmed' /\ AskedWithToken' /\ Charge'
  BY <1>1, <1>2, MoveInv DEF Stage, Written
<1>4. req[r].on \in BOOLEAN BY <1>2, LiveAsked DEF Asked
<1>5. relay' \in [Maintained -> BOOLEAN] /\ mover' \in [Maintained -> Request \cup {0}]
  BY <1>2, <1>4 DEF CommandLands, TypeOK
<1>6. TypeOK' BY <1>1, <1>2, <1>3, <1>5 DEF TypeOK
<1>7. LockIsInUse' BY <1>1, <1>2, <1>3 DEF Inv, TypeOK, LockIsInUse
<1>8. Holders' BY <1>1, <1>2, <1>3 DEF Inv, Holders, HoldsLock
<1> QED BY <1>3, <1>6, <1>7, <1>8 DEF Inv

LEMMA EndCommandInv ==
  ASSUME Inv, NEW r \in Request, NEW outcome \in Ended, EndCommand(r, outcome)
  PROVE  Inv'
<1>1. /\ req[r].at \in {"wire", "landed"} /\ req[r].act \in Command
      /\ req' = [req EXCEPT ![r] = At(r, outcome)] /\ ats' = 0
      /\ UNCHANGED <<token, ctl, bucket, h100, atsView, relay, shown, mover, polls, refills>>
  BY DEF EndCommand, bounds
<1>2. Live(r) /\ TypeOK /\ req[r].act \notin Verb BY <1>1, Surfaces DEF Inv, Live
<1>3. /\ req' \in [Request -> {Idle} \cup [at : {"refused"}] \cup Asked]
      /\ \A q \in Request \ {r} : req'[q] = req[q]
      /\ req'[r].at = outcome /\ req'[r].act = req[r].act
      /\ OneWritePerToken' /\ WriteWasConfirmed' /\ AskedWithToken' /\ Charge'
  BY <1>1, <1>2, MoveInv DEF Stage, Written
<1>4. req[r].on \in BOOLEAN BY <1>2, LiveAsked DEF Asked
<1>5. echo' \subseteq Maintained \X BOOLEAN /\ aged' \subseteq Maintained \X BOOLEAN
  BY <1>2, <1>4 DEF EndCommand, NoteWrite, echoes, TypeOK
<1>6. TypeOK' BY <1>1, <1>2, <1>3, <1>5 DEF TypeOK
<1>7. ats = r BY <1>1 DEF Inv, Holders, HoldsLock
<1>8. LockIsInUse' BY <1>1, <1>2, <1>3 DEF Inv, TypeOK, LockIsInUse
<1>9. Holders' BY <1>1, <1>2, <1>3, <1>7 DEF Inv, Holders, HoldsLock, Ended, Outcome
<1> QED BY <1>3, <1>6, <1>8, <1>9 DEF Inv

LEMMA AckAlarmInv ==
  ASSUME Inv, NEW r \in Request, AckAlarm(r)
  PROVE  Inv'
<1>1. /\ req[r].at = "wait" /\ req[r].act = "ack"
      /\ UNCHANGED <<ctl, ats, bucket, h100, atsView, relay, shown, echo, aged, mover, polls, refills>>
  BY DEF AckAlarm, Waits, locks, atsVars, echoes, bounds
<1>2. Live(r) /\ TypeOK /\ req[r].act \notin Verb \cup Command BY <1>1, Surfaces DEF Inv, Live
<1>3. CASE req' = [req EXCEPT ![r] = Refused(r)] /\ token' = token
  <2>1. /\ req' \in [Request -> {Idle} \cup [at : {"refused"}] \cup Asked]
        /\ \A q \in Request \ {r} : req'[q] = req[q]
        /\ req'[r].at = "refused"
        /\ OneWritePerToken' /\ WriteWasConfirmed' /\ AskedWithToken' /\ Charge'
    BY <1>1, <1>2, <1>3, RefuseInv
  <2>2. TypeOK' BY <1>1, <1>2, <1>3, <2>1 DEF TypeOK
  <2>3. LockIsInUse' /\ Holders'
    BY <1>1, <1>2, <2>1 DEF Inv, TypeOK, LockIsInUse, Holders, HoldsLock
  <2> QED BY <2>1, <2>2, <2>3 DEF Inv
<1>4. CASE req' = [req EXCEPT ![r] = At(r, "token")] /\ token' = token
  <2>1. /\ req' \in [Request -> {Idle} \cup [at : {"refused"}] \cup Asked]
        /\ \A q \in Request \ {r} : req'[q] = req[q]
        /\ req'[r].at = "token" /\ req'[r].act = req[r].act
        /\ OneWritePerToken' /\ WriteWasConfirmed' /\ AskedWithToken' /\ Charge'
    BY <1>1, <1>2, <1>4, MoveInv DEF Stage, Written, Ended, Outcome
  <2>2. TypeOK' BY <1>1, <1>2, <1>4, <2>1 DEF TypeOK
  <2>3. LockIsInUse' /\ Holders'
    BY <1>1, <1>2, <2>1 DEF Inv, TypeOK, LockIsInUse, Holders, HoldsLock
  <2> QED BY <2>1, <2>2, <2>3 DEF Inv
<1>5. CASE SpendOn(r, "wire")
  <2> DEFINE ok == Accepts(req[r].tok, req[r].by, req[r].act)
  <2>1. /\ req' \in [Request -> {Idle} \cup [at : {"refused"}] \cup Asked]
        /\ token' \in [Token -> {Unissued} \cup [st : {"live", "gone"}, owner : Operator, for : Scope]]
        /\ \A q \in Request \ {r} : req'[q] = req[q]
        /\ req'[r].at = IF ok THEN "wire" ELSE "refused"
        /\ ok => req'[r].act = req[r].act
        /\ OneWritePerToken' /\ WriteWasConfirmed' /\ AskedWithToken' /\ Charge'
    BY <1>1, <1>2, <1>5, SpendOnInv
  <2>2. TypeOK' BY <1>1, <1>2, <2>1 DEF TypeOK
  <2>3. LockIsInUse' BY <1>1, <1>2, <2>1 DEF Inv, TypeOK, LockIsInUse
  <2>4. Holders' BY <1>1, <1>2, <2>1 DEF Inv, Holders, HoldsLock
  <2> QED BY <2>1, <2>2, <2>3, <2>4 DEF Inv
<1> QED BY <1>3, <1>4, <1>5 DEF AckAlarm

LEMMA WriteAckInv ==
  ASSUME Inv, NEW r \in Request, NEW outcome \in Outcome, WriteAck(r, outcome)
  PROVE  Inv'
<1>1. /\ req[r].at = "wire" /\ req[r].act = "ack"
      /\ req' = [req EXCEPT ![r] = At(r, outcome)]
      /\ UNCHANGED <<token, ctl, ats, bucket, atsView, relay, shown, echo, aged, mover, polls, refills>>
  BY DEF WriteAck, locks, atsVars, echoes, bounds
<1>2. Live(r) /\ TypeOK /\ req[r].act \notin Verb \cup Command BY <1>1, Surfaces DEF Inv, Live
<1>3. /\ req' \in [Request -> {Idle} \cup [at : {"refused"}] \cup Asked]
      /\ \A q \in Request \ {r} : req'[q] = req[q]
      /\ req'[r].at = outcome /\ req'[r].act = req[r].act
      /\ OneWritePerToken' /\ WriteWasConfirmed' /\ AskedWithToken' /\ Charge'
  BY <1>1, <1>2, MoveInv DEF Stage, Written, Ended
<1>4. h100' \in H100View BY <1>2 DEF WriteAck, TypeOK, H100View
<1>5. TypeOK' BY <1>1, <1>2, <1>3, <1>4 DEF TypeOK
<1>6. LockIsInUse' BY <1>1, <1>2, <1>3 DEF Inv, TypeOK, LockIsInUse
<1>7. Holders'
  <2>1. UNCHANGED <<ctl, ats>> /\ req'[r].act \notin Verb \cup Command /\ req'[r].at \notin {"token", "landed"}
    BY <1>1, <1>2, <1>3 DEF Outcome
  <2>2. \A q \in Request : HoldsLock(q)' BY <1>3, <2>1 DEF Inv, Holders, HoldsLock
  <2> QED BY <2>2 DEF Holders
<1> QED BY <1>3, <1>5, <1>6, <1>7 DEF Inv

(* Polls, strangers and the echo window leave requests and tokens alone.    *)
LEMMA EnvironmentInv ==
  ASSUME Inv, UNCHANGED <<token, req, ctl, ats, bucket, refills>>, TypeOK'
  PROVE  Inv'
BY DEF Inv, OneWritePerToken, WriteWasConfirmed, LockIsInUse, Holders, HoldsLock,
       AskedWithToken, Live, Charge, Charged

LEMMA NextInv == Inv /\ [Next]_vars => Inv'
<1> SUFFICES ASSUME Inv, [Next]_vars PROVE Inv' OBVIOUS
<1>1. ASSUME NEW t \in Token, NEW o \in Operator, NEW verb \in Scope, IssueToken(t, o, verb)
      PROVE  Inv'
  BY <1>1, IssueTokenInv
<1>2. ASSUME NEW t \in Token, TokenExpires(t) PROVE Inv'
  BY <1>2, TokenExpiresInv
<1>3. ASSUME NEW r \in Request, NEW o \in Operator, NEW act \in Action, NEW t \in Token,
             NEW on \in BOOLEAN, NEW override \in BOOLEAN, Submit(r, o, act, t, on, override)
      PROVE  Inv'
  BY <1>3, SubmitInv
<1>4. ASSUME NEW o \in Operator, BucketFills(o) PROVE Inv'
  BY <1>4, BucketFillsInv
<1>5. ASSUME NEW r \in Request, Handle(r) PROVE Inv'
  <2>1. CASE ExecuteVerb(r) BY <2>1, ExecuteVerbInv
  <2>2. CASE ExecuteCommand(r) BY <2>2, ExecuteCommandInv
  <2>3. CASE AckAlarm(r) BY <2>3, AckAlarmInv
  <2>4. CASE TakeToken(r) BY <2>4, TakeTokenInv
  <2>5. CASE CommandLands(r) BY <2>5, CommandLandsInv
  <2>6. ASSUME NEW outcome \in Outcome, WriteVerb(r, outcome) \/ WriteAck(r, outcome) PROVE Inv'
    BY <2>6, WriteVerbInv, WriteAckInv
  <2>7. ASSUME NEW outcome \in Ended, EndCommand(r, outcome) PROVE Inv'
    BY <2>7, EndCommandInv
  <2> QED BY <1>5, <2>1, <2>2, <2>3, <2>4, <2>5, <2>6, <2>7 DEF Handle
<1>6. ASSUME NEW view \in H100Views, PollH100(view) PROVE Inv'
  <2>1. TypeOK' BY <1>6, ControlAssumption DEF PollH100, locks, atsVars, echoes, Inv, TypeOK
  <2> QED BY <1>6, <2>1, EnvironmentInv DEF PollH100, locks
<1>7. ASSUME NEW view \in AtsViews, AtsChanges(view) PROVE Inv'
  <2>1. TypeOK' BY <1>7, ControlAssumption DEF AtsChanges, locks, atsVars, echoes, Inv, TypeOK
  <2> QED BY <1>7, <2>1, EnvironmentInv DEF AtsChanges, locks
<1>8. ASSUME NEW c \in Maintained, StrangerMoves(c) PROVE Inv'
  <2>1. polls' \in 0..MaxPolls BY <1>8, ControlAssumption DEF StrangerMoves, Inv, TypeOK
  <2>2. relay' \in [Maintained -> BOOLEAN] /\ mover' \in [Maintained -> Request \cup {0}]
    BY <1>8 DEF StrangerMoves, Inv, TypeOK
  <2>3. UNCHANGED <<token, req, ctl, ats, bucket, h100, atsView, shown, echo, aged, refills>>
    BY <1>8 DEF StrangerMoves, locks, echoes
  <2>4. TypeOK' BY <2>1, <2>2, <2>3 DEF Inv, TypeOK
  <2> QED BY <2>3, <2>4, EnvironmentInv
<1>9. ASSUME NEW c \in Maintained, NEW on \in BOOLEAN, EchoAges(c, on) PROVE Inv'
  <2>1. TypeOK' BY <1>9 DEF EchoAges, locks, bounds, Inv, TypeOK
  <2> QED BY <1>9, <2>1, EnvironmentInv DEF EchoAges, locks, bounds
<1>10. CASE PollAts
  <2>1. TypeOK' BY <1>10 DEF PollAts, locks, echoes, bounds, Inv, TypeOK
  <2> QED BY <1>10, <2>1, EnvironmentInv DEF PollAts, locks, bounds
<1>11. CASE UNCHANGED vars
  <2>1. TypeOK' BY <1>11 DEF vars, locks, atsVars, echoes, bounds, Inv, TypeOK
  <2> QED BY <1>11, <2>1, EnvironmentInv DEF vars, locks, bounds
<1> QED BY <1>1, <1>2, <1>3, <1>4, <1>5, <1>6, <1>7, <1>8, <1>9, <1>10, <1>11 DEF Next

(* The strengthening is an invariant: who holds a lock, that only issued    *)
(* tokens are asked with, and that every ATS request let in is charged      *)
(* (ControlService.execute, AtsControlService.execute, the rate limiter).   *)
THEOREM Invariance == Spec => []Inv
<1> QED BY InitInv, NextInv, PTL DEF Spec

-----------------------------------------------------------------------------
(* What the invariant says of a surface and of the limiter.                 *)

LEMMA HoldersAreAlone == Inv => AloneOnSurface
<1> SUFFICES ASSUME Inv, NEW r \in Request, NEW q \in Request, NEW surface \in {Verb, Command},
                    req[r].at \in {"wire", "landed"}, req[r].act \in surface,
                    req[q].at \in {"token", "wire", "landed"}, req[q].act \in surface
             PROVE  r = q
  BY DEF AloneOnSurface
<1>1. HoldsLock(r) /\ HoldsLock(q) BY DEF Inv, Holders
<1>2. Verb \cap Command = {} BY Surfaces
<1>3. CASE surface = Verb BY <1>1, <1>2, <1>3 DEF HoldsLock
<1>4. CASE surface = Command BY <1>1, <1>2, <1>4 DEF HoldsLock
<1> QED BY <1>3, <1>4

LEMMA ChargeBounds == Inv => RateIsBounded
<1> SUFFICES ASSUME Inv, NEW o \in Operator
             PROVE  bucket[o] + Cardinality({r \in Request : req[r].at \in Written /\ req[r].by = o
                                                               /\ req[r].act \in Command})
                    <= Burst + refills
  BY DEF RateIsBounded
<1> DEFINE W == {r \in Request : req[r].at \in Written /\ req[r].by = o /\ req[r].act \in Command}
<1>1. W \subseteq Charged(o) BY DEF Charged, Live, Written, Ended, Outcome
<1> HIDE DEF W
<1>2. Cardinality(W) <= Cardinality(Charged(o)) /\ Cardinality(W) \in Nat
  BY <1>1, ChargedFinite, FS_Subset, FS_CardinalityType
<1>3. /\ bucket[o] \in Nat /\ refills \in Nat /\ Burst \in Nat
      /\ bucket[o] + Cardinality(Charged(o)) <= Burst + refills
  BY ControlAssumption DEF Inv, TypeOK, Charge
<1>4. bucket[o] + Cardinality(W) <= Burst + refills BY <1>2, <1>3, ChargedFinite
<1> QED BY <1>4 DEF W

(* No two writes, on whichever surface, were paid for with one token, and   *)
(* each was confirmed by its operator and for its action: of services.      *)
(* control.consume_token and the three services that call it.               *)
THEOREM WritesAreConfirmed == Spec => [](OneWritePerToken /\ WriteWasConfirmed)
<1>1. Inv => OneWritePerToken /\ WriteWasConfirmed BY DEF Inv
<1> QED BY <1>1, Invariance, PTL

(* The services' locks exclude: a command that has passed its gates has its *)
(* surface to itself until its write has ended.                             *)
THEOREM SurfacesExclude == Spec => []AloneOnSurface
<1> QED BY HoldersAreAlone, Invariance, PTL

(* All that the run checks of requests, tokens, locks and the limiter.      *)
THEOREM CommandsAreSafe == Spec => []CommandSafety
<1>1. Inv => CommandSafety BY HoldersAreAlone, ChargeBounds DEF Inv, CommandSafety
<1> QED BY <1>1, Invariance, PTL
-----------------------------------------------------------------------------
(* A maintained output that was last moved by one of our writes has the     *)
(* value that was written; once the write is acknowledged it is known as    *)
(* an echo until it is older than the window.                               *)
Drove == {"landed", "acknowledged", "unanswered"}
EchoKnown ==
  \A c \in Maintained : mover[c] # 0 =>
    /\ req[mover[c]].at \in Drove
    /\ req[mover[c]].act = c /\ req[mover[c]].on = relay[c]
    /\ req[mover[c]].at = "acknowledged" => <<c, relay[c]>> \in echo \cup aged

(* A request that has not driven an output may be anywhere.                 *)
LEMMA OthersMove ==
  ASSUME EchoKnown, TypeOK, UNCHANGED <<relay, shown, echo, aged, mover>>,
         NEW r \in Request, NEW x, req' = [req EXCEPT ![r] = x], req[r].at \notin Drove
  PROVE  EchoKnown'
<1> SUFFICES ASSUME NEW c \in Maintained, mover[c] # 0
             PROVE  req'[mover[c]] = req[mover[c]]
  BY DEF EchoKnown
<1>1. mover[c] \in Request BY DEF TypeOK
<1>2. mover[c] # r BY DEF EchoKnown
<1> QED BY <1>1, <1>2 DEF TypeOK

LEMMA LandsEcho ==
  ASSUME Inv, EchoKnown, NEW r \in Request, CommandLands(r)
  PROVE  EchoKnown'
<1> DEFINE act == req[r].act
           moves == act \in Maintained /\ relay[act] # req[r].on
           x == At(r, "landed")
<1>1. /\ req[r].at = "wire" /\ act \in Command /\ UNCHANGED <<shown, echo, aged>>
      /\ req' = [req EXCEPT ![r] = x]
  BY DEF CommandLands, echoes
<1>2. req[r] \in Asked BY <1>1, LiveAsked DEF Live, Inv
<1>3. x.at = "landed" /\ x.act = act /\ x.on = req[r].on
  BY <1>2, StageTyped DEF At, Stage, Written
<1>4. TypeOK BY DEF Inv
<1>5. CASE ~moves
  <2>1. UNCHANGED <<relay, mover>> BY <1>5 DEF CommandLands
  <2> HIDE DEF x
  <2> QED BY <1>1, <1>4, <2>1, OthersMove DEF Drove
<1>6. CASE moves
  <2>1. /\ relay' = [relay EXCEPT ![act] = req[r].on] /\ mover' = [mover EXCEPT ![act] = r]
        /\ act \in Maintained
    BY <1>6 DEF CommandLands
  <2> HIDE DEF x
  <2>2. req'[r] = x /\ \A q \in Request \ {r} : req'[q] = req[q] BY <1>1, <1>4 DEF TypeOK
  <2> SUFFICES ASSUME NEW c \in Maintained, mover'[c] # 0
               PROVE  /\ req'[mover'[c]].at \in Drove
                      /\ req'[mover'[c]].act = c /\ req'[mover'[c]].on = relay'[c]
                      /\ req'[mover'[c]].at = "acknowledged"
                         => <<c, relay'[c]>> \in echo' \cup aged'
    BY DEF EchoKnown
  <2>3. CASE c = act
    <3>1. mover'[c] = r /\ relay'[c] = req[r].on BY <1>4, <2>1, <2>3 DEF TypeOK
    <3> QED BY <1>3, <2>2, <2>3, <3>1 DEF Drove
  <2>4. CASE c # act
    <3>1. mover'[c] = mover[c] /\ relay'[c] = relay[c] BY <1>4, <2>1, <2>4 DEF TypeOK
    <3>2. mover[c] \in Request BY <1>4, <3>1 DEF TypeOK
    <3>3. req[mover[c]].at \in Drove BY <3>1 DEF EchoKnown
    <3>4. mover[c] # r BY <1>1, <3>3 DEF Drove
    <3>5. req'[mover[c]] = req[mover[c]] BY <2>2, <3>2, <3>4
    <3> QED BY <1>1, <3>1, <3>5 DEF EchoKnown
  <2> QED BY <2>3, <2>4
<1> QED BY <1>5, <1>6

(* An acknowledged write is noted in the step that acknowledges it.         *)
LEMMA EndEcho ==
  ASSUME Inv, EchoKnown, NEW r \in Request, NEW outcome \in Ended, EndCommand(r, outcome)
  PROVE  EchoKnown'
<1> DEFINE act == req[r].act
           x == At(r, outcome)
<1>1. /\ req[r].at \in {"wire", "landed"} /\ act \in Command /\ UNCHANGED <<relay, shown, mover>>
      /\ req' = [req EXCEPT ![r] = x]
      /\ outcome # "failed" => req[r].at = "landed"
      /\ outcome = "failed" => req[r].at = "wire"
      /\ echo \cup aged \subseteq echo' \cup aged'
  BY DEF EndCommand, NoteWrite, echoes
<1>2. req[r] \in Asked BY <1>1, LiveAsked DEF Live, Inv
<1>3. x.at = outcome /\ x.act = act /\ x.on = req[r].on
  BY <1>2, StageTyped DEF At, Stage, Written
<1>4. TypeOK BY DEF Inv
<1> HIDE DEF x
<1>5. CASE outcome = "failed"
  <2>1. echo' = echo /\ aged' = aged BY <1>5 DEF EndCommand, echoes
  <2>2. req[r].at \notin Drove BY <1>1, <1>5 DEF Drove
  <2> QED BY <1>1, <1>4, <2>1, <2>2, OthersMove
<1>6. CASE outcome # "failed"
  <2>1. req'[r] = x /\ \A q \in Request \ {r} : req'[q] = req[q] BY <1>1, <1>4 DEF TypeOK
  <2>2. outcome \in Drove BY <1>6 DEF Drove, Ended, Outcome
  <2> SUFFICES ASSUME NEW c \in Maintained, mover[c] # 0
               PROVE  /\ req'[mover[c]].at \in Drove
                      /\ req'[mover[c]].act = c /\ req'[mover[c]].on = relay[c]
                      /\ req'[mover[c]].at = "acknowledged"
                         => <<c, relay[c]>> \in echo' \cup aged'
    BY <1>1 DEF EchoKnown
  <2>3. mover[c] \in Request BY <1>4 DEF TypeOK
  <2>4. CASE mover[c] = r
    <3>1. act = c /\ req[r].on = relay[c] BY <2>4 DEF EchoKnown
    <3>2. outcome = "acknowledged" => <<c, relay[c]>> \in echo'
      BY <3>1 DEF EndCommand, NoteWrite
    <3> QED BY <1>3, <2>1, <2>2, <2>4, <3>1, <3>2
  <2>5. CASE mover[c] # r
    <3>1. req'[mover[c]] = req[mover[c]] BY <2>1, <2>3, <2>5
    <3> QED BY <1>1, <3>1 DEF EchoKnown
  <2> QED BY <2>4, <2>5
<1> QED BY <1>5, <1>6

LEMMA HandleEcho ==
  ASSUME Inv, EchoKnown, NEW r \in Request, Handle(r)
  PROVE  EchoKnown'
<1>1. CASE CommandLands(r) BY <1>1, LandsEcho
<1>2. CASE \E outcome \in Ended : EndCommand(r, outcome) BY <1>2, EndEcho
<1>3. CASE ~CommandLands(r) /\ ~\E outcome \in Ended : EndCommand(r, outcome)
  <2>1. /\ req[r].at \notin Drove /\ UNCHANGED <<relay, shown, echo, aged, mover>>
        /\ \E x : req' = [req EXCEPT ![r] = x]
    <3>1. CASE ExecuteVerb(r) BY <3>1 DEF ExecuteVerb, Waits, atsVars, echoes, Drove
    <3>2. CASE ExecuteCommand(r) BY <3>2 DEF ExecuteCommand, SpendOn, Waits, atsVars, echoes, Drove
    <3>3. CASE AckAlarm(r) BY <3>3 DEF AckAlarm, SpendOn, Waits, atsVars, echoes, Drove
    <3>4. CASE TakeToken(r) BY <3>4 DEF TakeToken, SpendOn, atsVars, echoes, Drove
    <3>5. CASE \E outcome \in Outcome : WriteVerb(r, outcome) BY <3>5 DEF WriteVerb, atsVars, echoes, Drove
    <3>6. CASE \E outcome \in Outcome : WriteAck(r, outcome) BY <3>6 DEF WriteAck, atsVars, echoes, Drove
    <3> QED BY <1>3, <3>1, <3>2, <3>3, <3>4, <3>5, <3>6 DEF Handle
  <2> QED BY <2>1, OthersMove DEF Inv
<1> QED BY <1>1, <1>2, <1>3

LEMMA NextEcho == Inv /\ EchoKnown /\ [Next]_vars => EchoKnown'
<1> SUFFICES ASSUME Inv, EchoKnown, [Next]_vars PROVE EchoKnown' OBVIOUS
<1>1. ASSUME NEW r \in Request, NEW o \in Operator, NEW act \in Action, NEW t \in Token,
             NEW on \in BOOLEAN, NEW override \in BOOLEAN, Submit(r, o, act, t, on, override)
      PROVE  EchoKnown'
  <2>1. req[r].at = "idle" BY <1>1 DEF Submit, Idle
  <2>2. \E x : req' = [req EXCEPT ![r] = x] BY <1>1 DEF Submit
  <2> QED BY <1>1, <2>1, <2>2, OthersMove DEF Submit, atsVars, echoes, Inv, Drove
<1>2. ASSUME NEW r \in Request, Handle(r) PROVE EchoKnown' BY <1>2, HandleEcho
<1>3. ASSUME UNCHANGED <<req, relay, shown, echo, aged, mover>> PROVE EchoKnown'
  BY <1>3 DEF EchoKnown
<1>4. ASSUME NEW c \in Maintained, StrangerMoves(c) PROVE EchoKnown'
  <2>1. /\ relay' = [relay EXCEPT ![c] = ~@] /\ mover' = [mover EXCEPT ![c] = 0]
        /\ UNCHANGED <<req, shown, echo, aged>>
    BY <1>4 DEF StrangerMoves, echoes
  <2>2. mover'[c] = 0 /\ \A d \in Maintained \ {c} : mover'[d] = mover[d] /\ relay'[d] = relay[d]
    BY <2>1 DEF Inv, TypeOK
  <2> QED BY <2>1, <2>2 DEF EchoKnown
<1>5. ASSUME NEW c \in Maintained, NEW on \in BOOLEAN, EchoAges(c, on) PROVE EchoKnown'
  <2>1. /\ echo \cup aged \subseteq echo' \cup aged'
        /\ UNCHANGED <<req, relay, shown, mover>>
    BY <1>5 DEF EchoAges
  <2> QED BY <2>1 DEF EchoKnown
<1>6. CASE PollAts
  BY <1>6 DEF PollAts, echoes, EchoKnown
<1>7. \/ \E r \in Request, o \in Operator, act \in Action, t \in Token, on, override \in BOOLEAN :
           Submit(r, o, act, t, on, override)
      \/ \E r \in Request : Handle(r)
      \/ \E c \in Maintained : StrangerMoves(c)
      \/ \E c \in Maintained, on \in BOOLEAN : EchoAges(c, on)
      \/ PollAts \/ UNCHANGED <<req, relay, shown, echo, aged, mover>>
  BY DEF Next, IssueToken, TokenExpires, BucketFills, PollH100, AtsChanges, atsVars, echoes, vars
<1> QED BY <1>1, <1>2, <1>3, <1>4, <1>5, <1>6, <1>7

(* A change that a poll reports is a stranger's, of a write that was not    *)
(* answered, or of one that is older than the echo window                   *)
(* (note_command_write, _check_maintained_cmd_edges).                       *)
THEOREM EchoesAreKnown == Spec => OwnEchoIsKnown
<1> DEFINE Known == PollAts => \A c \in Maintained :
                      Reported(c) => ~Acknowledged(c) \/ <<c, relay[c]>> \in aged
<1>1. Init => EchoKnown BY DEF Init, EchoKnown
<1>2. TypeOK /\ EchoKnown /\ PollAts => Known
  <2> SUFFICES ASSUME TypeOK, EchoKnown, PollAts, NEW c \in Maintained,
                      Reported(c), Acknowledged(c)
               PROVE  <<c, relay[c]>> \in aged
    OBVIOUS
  <2>1. mover[c] \in Request BY DEF TypeOK, Acknowledged
  <2>2. req[mover[c]].at # "landed" BY <2>1 DEF PollAts, WireFree
  <2>3. req[mover[c]].at = "acknowledged"
    BY <2>2 DEF EchoKnown, Drove, Acknowledged
  <2> QED BY <2>3 DEF EchoKnown, Reported, Acknowledged
<1>3. TypeOK /\ EchoKnown => [Known]_vars BY <1>2
<1> HIDE DEF Known
<1>4. Spec => []EchoKnown BY <1>1, NextEcho, Invariance, PTL DEF Spec
<1>5. Spec => []TypeOK
  <2>1. Inv => TypeOK BY DEF Inv
  <2> QED BY <2>1, Invariance, PTL
<1>6. Spec => [][Known]_vars BY <1>3, <1>4, <1>5, PTL DEF Spec
<1> QED BY <1>6 DEF OwnEchoIsKnown, Known

=============================================================================
