-------------------------- MODULE OfflineRefillProofs --------------------------
(***************************************************************************)
(* Proofs about OfflineRefill for every OTP function, any number of        *)
(* machines and any counts of the attachment, however their requests mix   *)
(* and die.  The argument is about the true counter of the token: count,   *)
(* or while a refill has set count back, the value it is going to restore. *)
(* Until a use of the counter was interfered with, whatever was handed     *)
(* out, let through or taken in payment lies behind it.                    *)
(***************************************************************************)
EXTENDS OfflineRefill, HotpTokenProofs

(***************************************************************************)
(* The requests by their step                                              *)
(***************************************************************************)

LoginToRotate   == [step : {"rotate"}, kind : {"login"}, amount : Nat \ {0}]
LoginToHandout  == [step : {"handout"}, kind : {"login"}, amount : Nat \ {0},
                    token : 0 .. refilltoken]
RefillToRestore == [step : {"restore"}, current : Nat, used : Nat, amount : Nat \ {0}]
RefillToHandout == [step : {"handout"}, kind : {"refill"}, used : Nat, amount : Nat \ {0}]
LoginToIncrease == [step : {"increase"}, kind : {"login"}, amount : Nat \ {0},
                    first : Nat, token : 0 .. refilltoken]
RefillToIncrease == [step : {"increase"}, kind : {"refill"}, amount : Nat \ {0},
                     first : Nat, used : Nat]
RefillToRotate  == [step : {"rotate"}, kind : {"refill"}, otps : SUBSET handed]
ToReply         == [step : {"reply"}, otps : SUBSET handed, token : 0 .. refilltoken]

JobTypes == {Idle} \cup LoginToRotate \cup LoginToHandout \cup RefillToRestore
              \cup RefillToHandout \cup LoginToIncrease \cup RefillToIncrease
              \cup RefillToRotate \cup ToReply

OfflineTypes == OfflineTypeOK /\ job \in [Clients -> JobTypes]

\* A request of a type is found in the step of its type, whatever the shown
\* fields are.
LEMMA JobByStep ==
    ASSUME OfflineTypes, NEW cl \in Clients
    PROVE  /\ job[cl].step = "restore" => job[cl] \in RefillToRestore
           /\ job[cl].step = "handout" => job[cl] \in LoginToHandout \cup RefillToHandout
           /\ job[cl].step = "increase" => job[cl] \in LoginToIncrease \cup RefillToIncrease
           /\ job[cl].step = "rotate" => job[cl] \in LoginToRotate \cup RefillToRotate
           /\ job[cl].step = "reply" => job[cl] \in ToReply
           /\ job[cl].step \in {"idle", "restore", "handout", "increase", "rotate", "reply"}
           /\ job[cl].step = "idle" => job[cl] = Idle
<1>1. job[cl] \in JobTypes
  BY DEF OfflineTypes
<1>2. QED
  BY <1>1 DEF JobTypes, Idle, LoginToRotate, LoginToHandout, RefillToRestore,
              RefillToHandout, LoginToIncrease, RefillToIncrease, RefillToRotate, ToReply

-----------------------------------------------------------------------------
(***************************************************************************)
(* What the calls on the token do to the counter                           *)
(***************************************************************************)

\* Nothing is let through and the counter stays, or one counter that was not
\* passed yet is let through and passed.
Passes ==
    \/ count' = count /\ accepted' = accepted
    \/ \E c \in Nat : /\ count <= c
                      /\ count' = c + 1
                      /\ accepted' = Append(accepted, c)

\* check_otp of an authentication.
LEMMA PresentOtpPasses ==
    ASSUME TypeOK, NEW v, PresentOtp(v)
    PROVE  TypeOK' /\ Passes /\ ~locked /\ locked' = locked
<1> DEFINE r == CheckOtp(v, count, CountWindow)
<1>1. count \in Nat /\ CountWindow \in Nat
  BY HotpAssumption DEF TypeOK, HotpAssumption
<1>2. /\ r.res = NotFound \/ (r.res \in Nat /\ count <= r.res)
      /\ r.otp1c \in Nat \cup {Absent}
      /\ r.dueDate \in Nat \cup {Absent}
  BY <1>1, CheckOtpResult
<1>3. /\ ~locked
      /\ otp1c' = r.otp1c /\ dueDate' = r.dueDate
      /\ count' = IF r.res # NotFound THEN r.res + 1 ELSE count
      /\ accepted' = IF r.res # NotFound THEN Append(accepted, r.res) ELSE accepted
      /\ secret' = secret /\ locked' = locked /\ now' = now
  BY DEF PresentOtp
<1> HIDE DEF r
<1>4. QED BY <1>2, <1>3 DEF TypeOK, Passes

\* check_otp_exist of an administrator's search.
LEMMA FindByOtpPasses ==
    ASSUME TypeOK, NEW v, FindByOtp(v)
    PROVE  TypeOK' /\ Passes /\ ~locked /\ locked' = locked
<1> DEFINE res == CheckOtpWindow(secret, v, count, FindWindow)
<1>1. count \in Nat /\ FindWindow \in Nat
  BY HotpAssumption DEF TypeOK, HotpAssumption
<1>2. res \in Nat /\ count <= res
  BY <1>1, CheckOtpWindowResult DEF FindByOtp
<1>3. IncOtpCounter(res, 1) = res + 1
  BY <1>1, <1>2 DEF IncOtpCounter
<1>4. /\ ~locked
      /\ count' = res + 1 /\ accepted' = Append(accepted, res)
      /\ UNCHANGED <<secret, otp1c, dueDate, locked, now>>
  BY <1>3 DEF FindByOtp
<1> HIDE DEF res
<1>5. QED BY <1>2, <1>4 DEF TypeOK, Passes

\* The clock and a revocation leave the counter and the offline part alone.
LEMMA ElsewhereStays ==
    ASSUME TypeOK, Elsewhere
    PROVE  TypeOK' /\ UNCHANGED <<count, accepted, offlineVars>>
<1>1. CASE Tick
  BY <1>1 DEF Elsewhere, Tick, TypeOK
<1>2. CASE Revoke
  <2>1. locked' \in BOOLEAN
    BY <1>2, Zenon DEF Revoke
  <2>2. QED BY <1>2, <2>1 DEF Elsewhere, Revoke, TypeOK
<1>3. QED BY <1>1, <1>2 DEF Elsewhere

-----------------------------------------------------------------------------
(***************************************************************************)
(* The types                                                               *)
(***************************************************************************)

LEMMA OfflineTypesInit == OfflineInit => OfflineTypes
<1> SUFFICES ASSUME OfflineInit PROVE OfflineTypes
  OBVIOUS
<1>1. TypeOK
  BY HotpInvInit DEF OfflineInit, HotpInv
<1>2. job \in [Clients -> JobTypes]
  BY DEF OfflineInit, JobTypes
<1>3. attached \in BOOLEAN /\ raised \in BOOLEAN /\ disturbed \in BOOLEAN
  BY Zenon DEF OfflineInit
<1>4. /\ stock \in Stocks /\ refilltoken \in Nat
      /\ clientToken \in [Clients -> 0 .. refilltoken]
      /\ cache \in [Clients -> SUBSET handed] /\ handed \subseteq Nat
      /\ paid \in Seq(Nat)
  BY DEF OfflineInit
<1>5. QED BY <1>1, <1>2, <1>3, <1>4 DEF OfflineTypes, OfflineTypeOK

\* New refill tokens and new values handed out only widen the types.
LEMMA OfflineTypesWiden ==
    ASSUME OfflineTypes, NEW cl \in Clients, NEW new,
           TypeOK', attached' = attached, stock' = stock, raised' = raised,
           disturbed' \in BOOLEAN, refilltoken' \in Nat, refilltoken <= refilltoken',
           handed' \subseteq Nat, handed \subseteq handed',
           paid' \in Seq(Nat), cache' = cache, clientToken' = clientToken,
           new \in JobTypes', job' = [job EXCEPT ![cl] = new]
    PROVE  OfflineTypes'
<1>1. 0 .. refilltoken \subseteq 0 .. refilltoken'
  BY DEF OfflineTypes, OfflineTypeOK
<1>2. JobTypes \subseteq JobTypes'
  <2>1. LoginToHandout \subseteq LoginToHandout'
    BY <1>1 DEF LoginToHandout
  <2>2. LoginToIncrease \subseteq LoginToIncrease'
    BY <1>1 DEF LoginToIncrease
  <2>3. RefillToRotate \subseteq RefillToRotate'
    BY DEF RefillToRotate
  <2>4. ToReply \subseteq ToReply'
    BY <1>1 DEF ToReply
  <2>5. QED BY <2>1, <2>2, <2>3, <2>4
           DEF JobTypes, LoginToRotate, RefillToRestore, RefillToHandout, RefillToIncrease
<1>3. job' \in [Clients -> JobTypes']
  BY <1>2 DEF OfflineTypes
<1>4. /\ clientToken' \in [Clients -> 0 .. refilltoken']
      /\ cache' \in [Clients -> SUBSET handed']
  BY <1>1 DEF OfflineTypes, OfflineTypeOK
<1>5. QED BY <1>3, <1>4 DEF OfflineTypes, OfflineTypeOK

\* The request of one machine takes a step that leaves the rest alone.
LEMMA OfflineTypesJob ==
    ASSUME OfflineTypes, NEW cl \in Clients, NEW new \in JobTypes, TypeOK',
           UNCHANGED <<attached, stock, refilltoken, clientToken, cache, handed, paid, raised>>,
           disturbed' \in BOOLEAN, job' = [job EXCEPT ![cl] = new]
    PROVE  OfflineTypes'
<1>1. JobTypes' = JobTypes
  BY DEF JobTypes, LoginToRotate, LoginToHandout, RefillToRestore, RefillToHandout,
         LoginToIncrease, RefillToIncrease, RefillToRotate, ToReply
<1>2. job' \in [Clients -> JobTypes']
  BY <1>1 DEF OfflineTypes
<1>3. QED BY <1>2 DEF OfflineTypes, OfflineTypeOK

\* The requests stay as they are.
LEMMA OfflineTypesNoJob ==
    ASSUME OfflineTypes, OfflineTypeOK', UNCHANGED <<refilltoken, handed, job>>
    PROVE  OfflineTypes'
<1>1. JobTypes' = JobTypes
  BY DEF JobTypes, LoginToRotate, LoginToHandout, RefillToRestore, RefillToHandout,
         LoginToIncrease, RefillToIncrease, RefillToRotate, ToReply
<1>2. QED BY <1>1 DEF OfflineTypes

\* An interference is noted or not.
LEMMA DisturbedType ==
    ASSUME OfflineTypes, [OfflineNext]_allVars
    PROVE  disturbed' \in BOOLEAN /\ (~disturbed' => ~disturbed)
<1>1. disturbed \in BOOLEAN
  BY DEF OfflineTypes, OfflineTypeOK
<1>2. \/ disturbed' = disturbed
      \/ \E own \in SUBSET Clients : disturbed' = Interfering(own)
      \/ \E cl \in Clients : disturbed' = (disturbed \/ job[cl].step = "restore")
  <2>1. {} \in SUBSET Clients /\ \A cl \in Clients : {cl} \in SUBSET Clients
    OBVIOUS
  <2>2. CASE UNCHANGED allVars
    BY <2>2 DEF allVars, offlineVars
  <2>3. ASSUME NEW cl \in Clients, NEW v \in Values, Login(cl, v) \/ Refill(cl, v)
        PROVE  disturbed' = disturbed \/ disturbed' = Interfering({cl})
    BY <2>3, Zenon DEF Login, Refill
  <2>4. ASSUME NEW cl \in Clients, Restore(cl) \/ Handout(cl) \/ Increase(cl)
        PROVE  disturbed' = Interfering({cl})
    BY <2>4, Zenon DEF Restore, Handout, Increase
  <2>5. ASSUME NEW cl \in Clients, Abort(cl)
        PROVE  disturbed' = (disturbed \/ job[cl].step = "restore")
    BY <2>5, Zenon DEF Abort
  <2>6. ASSUME NEW cl \in Clients, Rotate(cl) \/ Receive(cl) \/ \E c \in cache[cl] : UseOffline(cl, c)
        PROVE  disturbed' = disturbed
    BY <2>6 DEF Rotate, Receive, UseOffline
  <2>7. ASSUME ToggleAttachment \/ (\E n \in Stocks : SetStock(n)) \/ Elsewhere
        PROVE  disturbed' = disturbed
    BY <2>7 DEF ToggleAttachment, SetStock, Elsewhere, offlineVars
  <2>8. ASSUME NEW v \in Values, Search(v) PROVE disturbed' = Interfering({})
    BY <2>8, Zenon DEF Search
  <2>9. QED BY <2>1, <2>2, <2>3, <2>4, <2>5, <2>6, <2>7, <2>8, Zenon DEF OfflineNext
<1>3. QED BY <1>1, <1>2, Zenon DEF Interfering

\* Every step keeps the types, also with requests that mix and die halfway.
LEMMA OfflineTypesStep == OfflineTypes /\ [OfflineNext]_allVars => OfflineTypes'
<1> SUFFICES ASSUME OfflineTypes, [OfflineNext]_allVars PROVE OfflineTypes'
  OBVIOUS
<1>1. /\ TypeOK /\ OfflineTypeOK /\ stock \in Nat \ {0} /\ count \in Nat
      /\ handed \subseteq Nat /\ Stocks \subseteq Nat \ {0} /\ disturbed' \in BOOLEAN
  BY OfflineAssumption, DisturbedType DEF OfflineTypes, OfflineTypeOK, TypeOK
<1>2. ASSUME NEW cl \in Clients, NEW v \in Values, Login(cl, v) PROVE OfflineTypes'
  <2> DEFINE new == IF attached /\ accepted' # accepted
                      THEN [step |-> "rotate", kind |-> "login", amount |-> stock]
                      ELSE job[cl]
  <2>1. TypeOK'
    BY <1>1, <1>2, PresentOtpPasses DEF Login
  <2>2. new \in JobTypes
    <3>1. [step |-> "rotate", kind |-> "login", amount |-> stock] \in JobTypes
      BY <1>1 DEF JobTypes, LoginToRotate
    <3>2. QED BY <3>1 DEF OfflineTypes
  <2>3. job' = [job EXCEPT ![cl] = new]
    BY <1>2 DEF Login, OfflineTypes
  <2>4. UNCHANGED <<attached, stock, refilltoken, clientToken, cache, handed, paid, raised>>
    BY <1>2 DEF Login
  <2> HIDE DEF new
  <2>5. QED BY <1>1, <2>1, <2>2, <2>3, <2>4, OfflineTypesJob
<1>3. ASSUME NEW cl \in Clients, NEW v \in Values, Refill(cl, v) PROVE OfflineTypes'
  <2> DEFINE first == FirstOfflineCounter(count)
             r     == CheckOtp(v, first, stock)
             new   == IF r.res = NotFound THEN job[cl]
                      ELSE [step |-> "restore", current |-> count, used |-> r.res,
                            amount |-> RefillAmount(r.res, first)]
  <2>1. first \in Nat
    BY <1>1 DEF FirstOfflineCounter
  <2>2. /\ r.res = NotFound \/ (r.res \in Nat /\ first <= r.res)
        /\ r.otp1c \in Nat \cup {Absent}
        /\ r.dueDate \in Nat \cup {Absent}
    BY <1>1, <2>1, CheckOtpResult
  <2>3. /\ otp1c' = r.otp1c /\ dueDate' = r.dueDate
        /\ IF r.res = NotFound THEN UNCHANGED <<count, job>>
             ELSE count' = r.res + 1 /\ job' = [job EXCEPT ![cl] = new]
        /\ UNCHANGED <<secret, locked, now, accepted, attached, stock, refilltoken,
                       clientToken, cache, handed, paid, raised>>
    BY <1>3 DEF Refill
  <2>4. new \in JobTypes
    <3>1. CASE r.res = NotFound
      BY <3>1 DEF OfflineTypes
    <3>2. CASE r.res # NotFound
      <4> HIDE DEF first, r
      <4>1. RefillAmount(r.res, first) \in Nat \ {0}
        BY <2>1, <2>2, <3>2 DEF RefillAmount
      <4>2. QED BY <1>1, <2>2, <3>2, <4>1 DEF JobTypes, RefillToRestore
    <3>3. QED BY <3>1, <3>2
  <2>5. job' = [job EXCEPT ![cl] = new]
    BY <2>3 DEF OfflineTypes
  <2> HIDE DEF first, r, new
  <2>6. TypeOK'
    BY <1>1, <2>2, <2>3 DEF TypeOK
  <2>7. QED BY <1>1, <2>3, <2>4, <2>5, <2>6, OfflineTypesJob
<1>4. ASSUME NEW cl \in Clients, Restore(cl) PROVE OfflineTypes'
  <2> DEFINE new == [step |-> "handout", kind |-> "refill",
                     amount |-> job[cl].amount, used |-> job[cl].used]
  <2>1. job[cl] \in RefillToRestore
    BY <1>4, JobByStep DEF Restore
  <2>2. new \in JobTypes
    BY <2>1 DEF JobTypes, RefillToRestore, RefillToHandout
  <2>3. TypeOK'
    BY <1>1, <1>4, <2>1 DEF Restore, TypeOK, RefillToRestore
  <2>4. job' = [job EXCEPT ![cl] = new]
    BY <1>4 DEF Restore
  <2>5. QED BY <1>1, <1>4, <2>2, <2>3, <2>4, OfflineTypesJob DEF Restore
<1>5. ASSUME NEW cl \in Clients, Handout(cl) PROVE OfflineTypes'
  <2> DEFINE new == IF job[cl].kind = "login"
                      THEN [step |-> "increase", kind |-> "login", amount |-> job[cl].amount,
                            first |-> count, token |-> job[cl].token]
                      ELSE [step |-> "increase", kind |-> "refill", amount |-> job[cl].amount,
                            first |-> count, used |-> job[cl].used]
  <2>1. job[cl] \in LoginToHandout \cup RefillToHandout
    BY <1>5, JobByStep DEF Handout
  <2>2. new \in JobTypes
    <3>1. CASE job[cl].kind = "login"
      <4>1. job[cl] \in LoginToHandout
        BY <2>1, <3>1 DEF RefillToHandout
      <4>2. new \in LoginToIncrease
        BY <1>1, <3>1, <4>1 DEF LoginToHandout, LoginToIncrease
      <4>3. QED BY <4>2 DEF JobTypes
    <3>2. CASE job[cl].kind # "login"
      <4>1. job[cl] \in RefillToHandout
        BY <2>1, <3>2 DEF LoginToHandout
      <4>2. new \in RefillToIncrease
        BY <1>1, <3>2, <4>1 DEF RefillToHandout, RefillToIncrease
      <4>3. QED BY <4>2 DEF JobTypes
    <3>3. QED BY <3>1, <3>2
  <2>3. /\ job' = [job EXCEPT ![cl] = new]
        /\ UNCHANGED <<hotpVars, attached, stock, refilltoken, clientToken, cache, handed,
                       paid, raised>>
    BY <1>5 DEF Handout
  <2> HIDE DEF new
  <2>4. TypeOK'
    BY <1>1, <2>3 DEF TypeOK, hotpVars
  <2>5. QED BY <1>1, <2>2, <2>3, <2>4, OfflineTypesJob
<1>6. ASSUME NEW cl \in Clients, Increase(cl) PROVE OfflineTypes'
  <2> DEFINE otps == job[cl].first .. (job[cl].first + job[cl].amount - 1)
             new  == IF job[cl].kind = "login"
                       THEN [step |-> "reply", otps |-> otps, token |-> job[cl].token]
                       ELSE [step |-> "rotate", kind |-> "refill", otps |-> otps]
  <2>1. job[cl] \in LoginToIncrease \cup RefillToIncrease
    BY <1>6, JobByStep DEF Increase
  <2>2. job[cl].amount \in Nat /\ job[cl].first \in Nat
    BY <2>1 DEF LoginToIncrease, RefillToIncrease
  <2>3. otps \subseteq Nat /\ otps \subseteq handed' /\ handed' = handed \cup otps
    BY <1>1, <1>6, <2>2 DEF Increase
  <2>4. /\ count' = job[cl].first + job[cl].amount
        /\ job' = [job EXCEPT ![cl] = new]
        /\ paid' = IF job[cl].kind = "refill" THEN Append(paid, job[cl].used) ELSE paid
        /\ UNCHANGED <<secret, otp1c, dueDate, locked, now, accepted, attached, stock,
                       refilltoken, clientToken, cache, raised>>
    BY <1>6 DEF Increase
  <2> HIDE DEF otps
  <2>5. new \in JobTypes'
    <3>1. CASE job[cl].kind = "login"
      <4>1. job[cl] \in LoginToIncrease
        BY <2>1, <3>1 DEF RefillToIncrease
      <4>2. new \in ToReply'
        BY <2>3, <2>4, <3>1, <4>1 DEF LoginToIncrease, ToReply
      <4>3. QED BY <4>2 DEF JobTypes
    <3>2. CASE job[cl].kind # "login"
      <4>1. new \in RefillToRotate'
        BY <2>3, <3>2 DEF RefillToRotate
      <4>2. QED BY <4>1 DEF JobTypes
    <3>3. QED BY <3>1, <3>2
  <2>6. paid' \in Seq(Nat)
    <3>1. CASE job[cl].kind = "refill"
      <4>1. job[cl].used \in Nat
        BY <2>1, <3>1 DEF LoginToIncrease, RefillToIncrease
      <4>2. QED BY <1>1, <2>4, <3>1, <4>1 DEF OfflineTypeOK
    <3>2. QED BY <1>1, <2>4, <3>1 DEF OfflineTypeOK
  <2>7. TypeOK'
    BY <1>1, <2>2, <2>4 DEF TypeOK
  <2>8. refilltoken \in Nat /\ refilltoken' \in Nat /\ refilltoken <= refilltoken'
    BY <1>1, <2>4 DEF OfflineTypeOK
  <2>9. handed' \subseteq Nat /\ handed \subseteq handed'
    BY <1>1, <2>3
  <2> HIDE DEF new
  <2>10. QED BY <1>1, <2>4, <2>5, <2>6, <2>7, <2>8, <2>9, OfflineTypesWiden
<1>7. ASSUME NEW cl \in Clients, Rotate(cl) PROVE OfflineTypes'
  <2> DEFINE new == IF job[cl].kind = "login"
                      THEN [step |-> "handout", kind |-> "login", amount |-> job[cl].amount,
                            token |-> refilltoken + 1]
                      ELSE [step |-> "reply", otps |-> job[cl].otps,
                            token |-> refilltoken + 1]
  <2>1. job[cl] \in LoginToRotate \cup RefillToRotate
    BY <1>7, JobByStep DEF Rotate
  <2>2. /\ refilltoken' = refilltoken + 1
        /\ job' = [job EXCEPT ![cl] = new]
        /\ UNCHANGED <<hotpVars, attached, stock, clientToken, cache, handed, paid, raised>>
    BY <1>7 DEF Rotate
  <2>3. refilltoken' \in Nat /\ refilltoken <= refilltoken'
    BY <1>1, <2>2 DEF OfflineTypeOK
  <2>4. new \in JobTypes'
    <3>1. CASE job[cl].kind = "login"
      <4>1. job[cl] \in LoginToRotate
        BY <2>1, <3>1 DEF RefillToRotate
      <4>2. new \in LoginToHandout'
        BY <2>2, <2>3, <3>1, <4>1 DEF LoginToRotate, LoginToHandout
      <4>3. QED BY <4>2 DEF JobTypes
    <3>2. CASE job[cl].kind # "login"
      <4>1. job[cl] \in RefillToRotate
        BY <2>1, <3>2 DEF LoginToRotate
      <4>2. new \in ToReply'
        BY <2>2, <2>3, <3>2, <4>1 DEF RefillToRotate, ToReply
      <4>3. QED BY <4>2 DEF JobTypes
    <3>3. QED BY <3>1, <3>2
  <2>5. TypeOK'
    BY <1>1, <2>2 DEF TypeOK, hotpVars
  <2>6. handed' \subseteq Nat /\ handed \subseteq handed' /\ paid' \in Seq(Nat)
    BY <1>1, <2>2 DEF OfflineTypeOK
  <2> HIDE DEF new
  <2>7. QED BY <1>1, <2>2, <2>3, <2>4, <2>5, <2>6, OfflineTypesWiden
<1>8. ASSUME NEW cl \in Clients, Receive(cl) PROVE OfflineTypes'
  <2>1. job[cl] \in ToReply
    BY <1>8, JobByStep DEF Receive
  <2>2. job[cl].otps \subseteq handed /\ job[cl].token \in 0 .. refilltoken
    BY <2>1 DEF ToReply
  <2>3. TypeOK'
    BY <1>1, <1>8 DEF Receive, TypeOK, hotpVars
  <2>4. OfflineTypeOK'
    BY <1>1, <1>8, <2>2, <2>3 DEF Receive, OfflineTypeOK
  <2>5. JobTypes' = JobTypes
    BY <1>8 DEF Receive, JobTypes, LoginToRotate, LoginToHandout, RefillToRestore,
                RefillToHandout, LoginToIncrease, RefillToIncrease, RefillToRotate, ToReply
  <2>6. job' \in [Clients -> JobTypes]
    BY <1>8 DEF Receive, OfflineTypes, JobTypes
  <2>7. QED BY <2>4, <2>5, <2>6 DEF OfflineTypes
<1>9. ASSUME NEW cl \in Clients, Abort(cl) PROVE OfflineTypes'
  <2>1. TypeOK'
    BY <1>1, <1>9 DEF Abort, TypeOK, hotpVars
  <2>2. Idle \in JobTypes
    BY DEF JobTypes
  <2>3. QED BY <1>1, <1>9, <2>1, <2>2, OfflineTypesJob DEF Abort
<1>10. ASSUME NEW cl \in Clients, NEW c \in cache[cl], UseOffline(cl, c) PROVE OfflineTypes'
  <2>1. TypeOK'
    BY <1>1, <1>10 DEF UseOffline, TypeOK, hotpVars
  <2>2. OfflineTypeOK'
    BY <1>1, <1>10, <2>1 DEF UseOffline, OfflineTypeOK
  <2>3. QED BY <1>10, <2>2, OfflineTypesNoJob DEF UseOffline
<1>11. CASE ToggleAttachment
  <2>1. TypeOK'
    BY <1>1, <1>11 DEF ToggleAttachment, TypeOK, hotpVars
  <2>2. attached' \in BOOLEAN
    BY <1>1, <1>11, Zenon DEF ToggleAttachment, OfflineTypeOK
  <2>3. OfflineTypeOK'
    BY <1>1, <1>11, <2>1, <2>2 DEF ToggleAttachment, OfflineTypeOK
  <2>4. QED BY <1>11, <2>3, OfflineTypesNoJob DEF ToggleAttachment
<1>12. ASSUME NEW n \in Stocks, SetStock(n) PROVE OfflineTypes'
  <2>1. TypeOK'
    BY <1>1, <1>12 DEF SetStock, TypeOK, hotpVars
  <2>2. raised' \in BOOLEAN
    BY <1>12, Zenon DEF SetStock
  <2>3. OfflineTypeOK'
    BY <1>1, <1>12, <2>1, <2>2 DEF SetStock, OfflineTypeOK
  <2>4. QED BY <1>12, <2>3, OfflineTypesNoJob DEF SetStock
<1>13. ASSUME NEW v \in Values, Search(v) PROVE OfflineTypes'
  <2>1. TypeOK'
    BY <1>1, <1>13, FindByOtpPasses DEF Search
  <2>2. OfflineTypeOK'
    BY <1>1, <1>13, <2>1 DEF Search, OfflineTypeOK
  <2>3. QED BY <1>13, <2>2, OfflineTypesNoJob DEF Search
<1>14. CASE Elsewhere
  <2>1. TypeOK' /\ UNCHANGED offlineVars
    BY <1>1, <1>14, ElsewhereStays
  <2>2. OfflineTypeOK'
    BY <1>1, <2>1 DEF OfflineTypeOK, offlineVars
  <2>3. QED BY <2>1, <2>2, OfflineTypesNoJob DEF offlineVars
<1>15. CASE UNCHANGED allVars
  <2>1. TypeOK'
    BY <1>1, <1>15 DEF allVars, hotpVars, TypeOK
  <2>2. OfflineTypeOK'
    BY <1>1, <1>15, <2>1 DEF allVars, offlineVars, OfflineTypeOK
  <2>3. QED BY <1>15, <2>2, OfflineTypesNoJob DEF allVars, offlineVars
<1>16. QED
  BY <1>2, <1>3, <1>4, <1>5, <1>6, <1>7, <1>8, <1>9, <1>10, <1>11, <1>12, <1>13, <1>14,
     <1>15
  DEF OfflineNext

-----------------------------------------------------------------------------
(***************************************************************************)
(* The invariant while no use of the counter was interfered with           *)
(***************************************************************************)

Restoring(cl) == job[cl].step = "restore"

LoginGoesOn(j) == j.step \in {"rotate", "handout", "increase"} /\ j.kind = "login"
ToPay(j) == j.step = "restore" \/ (j.step \in {"handout", "increase"} /\ j.kind = "refill")
HoldsOtps(j) == j.step = "reply" \/ (j.step = "rotate" /\ j.kind = "refill")

\* What was handed out and what was let through lies behind the counter n.
UsedBehind(n) ==
    /\ \A h \in handed : h < n
    /\ \A i \in 1 .. Len(accepted) : accepted[i] < n

\* A machine that can buy a refill was handed a whole stock before, and what was
\* taken in payment lies behind the window the next refill is searched in.
PaidBehind(n) ==
    /\ \A cl \in Clients : clientToken[cl] # 0 => stock <= n
    /\ \A i \in 1 .. Len(paid) : paid[i] < n - stock

\* What a request under way will do to the window of the next refill: a login
\* moves it on by a stock or more, a refill past the value that pays.
Pays(j, n) ==
    /\ LoginGoesOn(j) => stock <= j.amount
    /\ ToPay(j) \/ HoldsOtps(j) => stock <= n
    /\ ToPay(j) => /\ j.used < n + j.amount - stock
                   /\ \A i \in 1 .. Len(paid) : paid[i] < j.used

Behind(n) ==
    /\ UsedBehind(n)
    /\ ~raised => PaidBehind(n) /\ \A cl \in Clients : Pays(job[cl], n)

\* The counter of the token is count, or what a refill is going to restore.
TrueCounterAhead ==
    /\ (\A cl \in Clients : ~Restoring(cl)) => Behind(count)
    /\ \A cl \in Clients : Restoring(cl) => Behind(job[cl].current)

OneCritical ==
    \A cl, other \in Clients : Critical(job[cl]) /\ Critical(job[other]) => cl = other

\* What was loaded before the values were hashed is still the counter.
IncreaseAtCounter == \A cl \in Clients : job[cl].step = "increase" => job[cl].first = count

\* What is on its way to a machine is on no other one and on no other way.
OtpsOnTheWay ==
    \A cl, other \in Clients :
      cl # other /\ HoldsOtps(job[cl]) =>
        /\ job[cl].otps \cap cache[other] = {}
        /\ HoldsOtps(job[other]) => job[cl].otps \cap job[other].otps = {}

\* The properties, of a state in which nothing was interfered with.
NeverOnline == \A i \in 1 .. Len(accepted) : accepted[i] \notin handed
PaidGrows == ~raised => \A i, j \in 1 .. Len(paid) : i < j => paid[i] < paid[j]
Disjoint == \A cl, other \in Clients : cl # other => cache[cl] \cap cache[other] = {}

Orderly ==
    /\ OneCritical
    /\ IncreaseAtCounter
    /\ TrueCounterAhead
    /\ OtpsOnTheWay
    /\ NeverOnline
    /\ PaidGrows
    /\ Disjoint

OrderlyInv == ~disturbed => Orderly

LEMMA OrderlyInit == OfflineInit => Orderly
<1> SUFFICES ASSUME OfflineInit PROVE Orderly
  OBVIOUS
<1>1. /\ handed = {} /\ accepted = <<>> /\ paid = <<>>
      /\ \A cl \in Clients : job[cl] = Idle /\ cache[cl] = {} /\ clientToken[cl] = 0
  BY DEF OfflineInit, Init
<1>2. 1 .. Len(accepted) = {} /\ 1 .. Len(paid) = {}
  BY <1>1
<1>3. \A cl \in Clients : /\ ~Restoring(cl) /\ ~HoldsOtps(job[cl]) /\ Pays(job[cl], count)
                          /\ ~Critical(job[cl]) /\ job[cl].step # "increase"
  BY <1>1 DEF Restoring, HoldsOtps, Pays, LoginGoesOn, ToPay, Critical, Idle
<1>4. TrueCounterAhead
  BY <1>1, <1>2, <1>3 DEF TrueCounterAhead, Behind, UsedBehind, PaidBehind
<1>5. OneCritical /\ IncreaseAtCounter /\ OtpsOnTheWay /\ Disjoint
  BY <1>1, <1>3 DEF OneCritical, IncreaseAtCounter, OtpsOnTheWay, Disjoint
<1>6. NeverOnline /\ PaidGrows
  BY <1>2 DEF NeverOnline, PaidGrows
<1>7. QED BY <1>4, <1>5, <1>6 DEF Orderly

\* An idle request holds nothing and relies on nothing.
LEMMA IdleJob ==
    /\ ~HoldsOtps(Idle) /\ ~Critical(Idle) /\ Idle.step \notin {"restore", "increase"}
    /\ ~LoginGoesOn(Idle) /\ ~ToPay(Idle)
  BY DEF LoginGoesOn, ToPay, HoldsOtps, Critical, Idle

\* If no interference is noted after a use of the counter, there was none.
LEMMA NotInterfered ==
    ASSUME NEW own, disturbed' = Interfering(own), ~disturbed'
    PROVE  \A other \in Clients \ own : ~Critical(job[other])
  BY Zenon DEF Interfering

\* With no request about to restore, count is the counter.
LEMMA CountIsCounter ==
    ASSUME Orderly, NEW cl \in Clients, ~Restoring(cl),
           \A other \in Clients \ {cl} : ~Critical(job[other])
    PROVE  Behind(count)
<1>1. \A other \in Clients : ~Restoring(other)
  BY DEF Critical, Restoring
<1>2. QED BY <1>1 DEF Orderly, TrueCounterAhead

\* A request that relies on nothing is not in the way of a counter that grows.
LEMMA BystanderPays ==
    ASSUME NEW n \in Nat, NEW m \in Nat, n <= m, stock \in Nat, stock' = stock,
           NEW cl \in Clients, job'[cl] = job[cl], ~Critical(job[cl]), Pays(job[cl], n)
    PROVE  Pays(job[cl], m)'
<1>1. ~ToPay(job[cl])
  BY DEF Critical, ToPay
<1>2. QED BY <1>1 DEF Pays, LoginGoesOn, ToPay, HoldsOtps

\* A machine uses the counter while nobody else relies on it: what has to be
\* shown of the counter n and the machine.
LEMMA UserAhead ==
    ASSUME NEW cl \in Clients, NEW n,
           \A other \in Clients \ {cl} : job'[other] = job[other] /\ ~Critical(job[other]),
           n = IF job'[cl].step = "restore" THEN job'[cl].current ELSE count',
           job'[cl].step = "increase" => job'[cl].first = count',
           UsedBehind(n)',
           ~raised' => /\ PaidBehind(n)' /\ Pays(job[cl], n)'
                       /\ \A other \in Clients \ {cl} : Pays(job[other], n)'
    PROVE  OneCritical' /\ IncreaseAtCounter' /\ TrueCounterAhead'
<1>1. \A other \in Clients \ {cl} : ~Critical(job'[other])
  OBVIOUS
<1>2. \A other \in Clients \ {cl} : ~Restoring(other)' /\ job'[other].step # "increase"
  BY <1>1 DEF Critical, Restoring
<1>3. Behind(n)'
  BY DEF Behind
<1>4. TrueCounterAhead'
  <2>1. CASE job'[cl].step = "restore"
    BY <1>2, <1>3, <2>1 DEF TrueCounterAhead, Restoring
  <2>2. CASE job'[cl].step # "restore"
    BY <1>2, <1>3, <2>2 DEF TrueCounterAhead, Restoring
  <2>3. QED BY <2>1, <2>2
<1>5. QED BY <1>1, <1>2, <1>4 DEF OneCritical, IncreaseAtCounter

\* A machine takes a step while others may rely on the counter, which stays.
LEMMA CounterStays ==
    ASSUME Orderly, OfflineTypes, OfflineTypes', NEW cl \in Clients, count' = count,
           \A other \in Clients \ {cl} : job'[other] = job[other],
           ~Restoring(cl), ~Critical(job'[cl]),
           \A n \in Nat : Behind(n) => Behind(n)'
    PROVE  OneCritical' /\ IncreaseAtCounter' /\ TrueCounterAhead'
<1>1. ~Restoring(cl)' /\ job'[cl].step # "increase"
  BY DEF Critical, Restoring
<1>2. OneCritical' /\ IncreaseAtCounter'
  BY <1>1 DEF Orderly, OneCritical, IncreaseAtCounter
<1>3. \A other \in Clients : Restoring(other)' => /\ other # cl /\ Restoring(other)
                                                  /\ job'[other].current = job[other].current
                                                  /\ job[other].current \in Nat
  <2>1. \A other \in Clients : Restoring(other) => job[other].current \in Nat
    BY JobByStep DEF Restoring, RefillToRestore
  <2>2. QED BY <1>1, <2>1 DEF Restoring
<1>4. \A other \in Clients : Restoring(other) => Restoring(other)'
  BY DEF Restoring
<1>5. count \in Nat
  BY DEF OfflineTypes, OfflineTypeOK, TypeOK
<1>6. TrueCounterAhead'
  <2>1. ASSUME \A other \in Clients : ~Restoring(other)' PROVE Behind(count)'
    <3>1. PICK n : n = count
      OBVIOUS
    <3>2. Behind(n)'
      BY <1>4, <1>5, <2>1, <3>1 DEF Orderly, TrueCounterAhead
    <3>3. QED BY <3>1, <3>2 DEF Behind, UsedBehind, PaidBehind, Pays
  <2>2. ASSUME NEW other \in Clients, Restoring(other)' PROVE Behind(job[other].current)'
    <3>1. PICK n : n = job[other].current
      OBVIOUS
    <3>2. Behind(n)'
      BY <1>3, <2>2, <3>1 DEF Orderly, TrueCounterAhead
    <3>3. n = job'[other].current
      BY <1>3, <2>2, <3>1
    <3>4. QED BY <3>2, <3>3 DEF Behind, UsedBehind, PaidBehind, Pays
  <2>3. QED BY <2>1, <2>2 DEF TrueCounterAhead
<1>7. QED BY <1>2, <1>6

\* The requests and the counter stay.
LEMMA JobsStay ==
    ASSUME Orderly, OfflineTypes, UNCHANGED <<count, job>>,
           \A n \in Nat : Behind(n) => Behind(n)'
    PROVE  OneCritical' /\ IncreaseAtCounter' /\ TrueCounterAhead'
<1>1. OneCritical' /\ IncreaseAtCounter'
  BY DEF Orderly, OneCritical, IncreaseAtCounter
<1>2. \A cl \in Clients : Restoring(cl) => job[cl].current \in Nat
  BY JobByStep DEF Restoring, RefillToRestore
<1>3. count \in Nat /\ \A cl \in Clients : Restoring(cl)' <=> Restoring(cl)
  BY DEF OfflineTypes, OfflineTypeOK, TypeOK, Restoring
<1>4. TrueCounterAhead'
  <2>1. ASSUME \A cl \in Clients : ~Restoring(cl)' PROVE Behind(count)'
    <3>1. PICK n : n = count
      OBVIOUS
    <3>2. Behind(n)'
      BY <1>3, <2>1, <3>1 DEF Orderly, TrueCounterAhead
    <3>3. QED BY <3>1, <3>2 DEF Behind, UsedBehind, PaidBehind, Pays
  <2>2. ASSUME NEW cl \in Clients, Restoring(cl)' PROVE Behind(job[cl].current)'
    <3>1. PICK n : n = job[cl].current
      OBVIOUS
    <3>2. Behind(n)'
      BY <1>2, <1>3, <2>2, <3>1 DEF Orderly, TrueCounterAhead
    <3>3. QED BY <3>1, <3>2 DEF Behind, UsedBehind, PaidBehind, Pays
  <2>3. QED BY <2>1, <2>2 DEF TrueCounterAhead
<1>5. QED BY <1>1, <1>4

\* A call on the token that lets at most one counter through, behind nothing.
LEMMA PassesKeepsBehind ==
    ASSUME OfflineTypes, Passes, UNCHANGED <<stock, clientToken, handed, paid, raised>>,
           NeverOnline, Behind(count)
    PROVE  /\ NeverOnline'
           /\ UsedBehind(count)'
           /\ ~raised' => PaidBehind(count)'
           /\ count <= count'
<1>1. /\ count \in Nat /\ accepted \in Seq(Nat) /\ handed \subseteq Nat /\ stock \in Nat
      /\ paid \in Seq(Nat)
  BY OfflineAssumption DEF OfflineTypes, OfflineTypeOK, TypeOK
<1>2. CASE count' = count /\ accepted' = accepted
  BY <1>1, <1>2 DEF Behind, UsedBehind, PaidBehind, NeverOnline
<1>3. ASSUME NEW c \in Nat, count <= c, count' = c + 1, accepted' = Append(accepted, c)
      PROVE  /\ NeverOnline'
             /\ UsedBehind(count)'
             /\ ~raised' => PaidBehind(count)'
             /\ count <= count'
  <2>1. \A i \in 1 .. Len(accepted') :
          accepted'[i] = c \/ (i \in 1 .. Len(accepted) /\ accepted'[i] = accepted[i])
    BY <1>1, <1>3
  <2>2. \A h \in handed : h \in Nat /\ h < count
    BY <1>1 DEF Behind, UsedBehind
  <2>3. \A i \in 1 .. Len(accepted) : accepted[i] \in Nat /\ accepted[i] < count
    BY <1>1 DEF Behind, UsedBehind
  <2>4. NeverOnline'
    BY <1>1, <1>3, <2>1, <2>2 DEF NeverOnline
  <2>5. UsedBehind(count)'
    BY <1>1, <1>3, <2>1, <2>2, <2>3 DEF UsedBehind
  <2>6. ASSUME ~raised' PROVE PaidBehind(count)'
    <3>1. PaidBehind(count) /\ \A i \in 1 .. Len(paid) : paid[i] \in Nat
      BY <1>1, <2>6 DEF Behind
    <3>2. QED BY <1>1, <1>3, <3>1 DEF PaidBehind
  <2>7. QED BY <1>1, <1>3, <2>4, <2>5, <2>6
<1>4. QED BY <1>2, <1>3 DEF Passes

\* A login that is let through asks for a stock; a refused one changes nothing.
LEMMA LoginOrderly ==
    ASSUME OfflineTypes, OfflineTypes', Orderly, ~disturbed',
           NEW cl \in Clients, NEW v \in Values, Login(cl, v)
    PROVE  Orderly'
<1> DEFINE new == IF attached
                    THEN [step |-> "rotate", kind |-> "login", amount |-> stock]
                    ELSE Idle
<1>1. /\ job[cl] = Idle
      /\ UNCHANGED <<attached, stock, refilltoken, clientToken, cache, handed, paid, raised>>
  BY DEF Login
<1>2. /\ Passes /\ count \in Nat /\ count' \in Nat /\ stock \in Nat
      /\ accepted \in Seq(Nat)
  BY PresentOtpPasses, OfflineAssumption DEF Login, OfflineTypes, OfflineTypeOK, TypeOK
<1>3. OtpsOnTheWay' /\ PaidGrows' /\ Disjoint'
  <2>1. job' = job \/ \E j : ~HoldsOtps(j) /\ job' = [job EXCEPT ![cl] = j]
    <3>1. ~HoldsOtps([step |-> "rotate", kind |-> "login", amount |-> stock])
      BY DEF HoldsOtps
    <3>2. QED BY <3>1 DEF Login
  <2>2. \A c \in Clients : HoldsOtps(job'[c]) => job'[c] = job[c]
    BY <2>1 DEF OfflineTypes
  <2>3. QED BY <1>1, <2>2 DEF Orderly, OtpsOnTheWay, PaidGrows, Disjoint
<1>4. CASE accepted' = accepted
  <2>1. count' = count /\ job' = job
    <3>1. count' = count
      BY <1>2, <1>4 DEF Passes
    <3>2. QED BY <1>4, <3>1 DEF Login
  <2>2. \A n \in Nat : Behind(n) => Behind(n)'
    BY <1>1, <1>4, <2>1
    DEF Behind, UsedBehind, PaidBehind, Pays, LoginGoesOn, ToPay, HoldsOtps
  <2>3. NeverOnline'
    BY <1>1, <1>4 DEF Orderly, NeverOnline
  <2>4. QED BY <1>3, <2>1, <2>2, <2>3, JobsStay DEF Orderly
<1>5. CASE accepted' # accepted
  <2>1. disturbed' = Interfering({cl}) /\ job' = [job EXCEPT ![cl] = new]
    <3>1. disturbed' = Interfering({cl})
      BY <1>5, Zenon DEF Login
    <3>2. job' = [job EXCEPT ![cl] = new]
      BY <1>1, <1>5 DEF Login, OfflineTypes
    <3>3. QED BY <3>1, <3>2
  <2>2. \A other \in Clients \ {cl} : job'[other] = job[other] /\ ~Critical(job[other])
    BY <2>1, NotInterfered DEF OfflineTypes
  <2>3. Behind(count)
    <3>1. ~Restoring(cl)
      BY <1>1, IdleJob DEF Restoring
    <3>2. QED BY <2>2, <3>1, CountIsCounter
  <2>4. /\ NeverOnline' /\ UsedBehind(count)'
        /\ ~raised' => PaidBehind(count)'
        /\ count <= count'
    BY <1>1, <1>2, <2>3, PassesKeepsBehind DEF Orderly
  <2>5. PICK n : n = count'
    OBVIOUS
  <2>6. /\ job'[cl].step \notin {"restore", "increase"}
        /\ Pays(job[cl], n)'
    <3>1. job'[cl] = new
      BY <2>1 DEF OfflineTypes
    <3>2. CASE attached
      BY <1>1, <1>2, <3>1, <3>2 DEF Pays, LoginGoesOn, ToPay, HoldsOtps
    <3>3. CASE ~attached
      <4>1. job'[cl] = Idle
        BY <3>1, <3>3
      <4>2. QED BY <4>1 DEF Pays, LoginGoesOn, ToPay, HoldsOtps, Idle
    <3>4. QED BY <3>2, <3>3
  <2> HIDE DEF new
  <2>7. ASSUME ~raised', NEW other \in Clients \ {cl} PROVE Pays(job[other], n)'
    <3>1. Pays(job[other], count)
      BY <1>1, <2>3, <2>7 DEF Behind
    <3>2. PICK m : m = count
      OBVIOUS
    <3>3. m \in Nat /\ n \in Nat /\ m <= n /\ Pays(job[other], m)
      BY <1>2, <2>4, <2>5, <3>1, <3>2
    <3>4. QED BY <1>1, <1>2, <2>2, <3>3, BystanderPays
  <2>8. UsedBehind(n)' /\ (~raised' => PaidBehind(n)')
    BY <2>4, <2>5 DEF UsedBehind, PaidBehind
  <2>9. OneCritical' /\ IncreaseAtCounter' /\ TrueCounterAhead'
    BY <2>2, <2>5, <2>6, <2>7, <2>8, UserAhead
  <2>10. QED BY <1>3, <2>4, <2>9 DEF Orderly
<1>6. QED BY <1>4, <1>5

\* A refill keeps the counter in mind while check_otp sets count back, and takes
\* a value in payment that no earlier refill reached.
LEMMA RefillOrderly ==
    ASSUME OfflineTypes, OfflineTypes', Orderly, ~disturbed',
           NEW cl \in Clients, NEW v \in Values, Refill(cl, v)
    PROVE  Orderly'
<1> DEFINE first == FirstOfflineCounter(count)
           r     == CheckOtp(v, first, stock)
           new   == [step |-> "restore", current |-> count, used |-> r.res,
                     amount |-> RefillAmount(r.res, first)]
<1>1. /\ job[cl] = Idle /\ clientToken[cl] # 0
      /\ UNCHANGED <<accepted, stock, clientToken, cache, handed, paid, raised>>
  BY DEF Refill, OfflineTypes, OfflineTypeOK
<1>2. count \in Nat /\ stock \in Nat /\ paid \in Seq(Nat)
  BY OfflineAssumption DEF OfflineTypes, OfflineTypeOK, TypeOK
<1>3. first \in Nat /\ (stock <= count => first = count - stock)
  BY <1>2 DEF FirstOfflineCounter
<1>4. r.res = NotFound \/ (r.res \in Nat /\ first <= r.res)
  BY <1>2, <1>3, CheckOtpResult DEF OfflineTypes, OfflineTypeOK
<1>5. NeverOnline' /\ PaidGrows' /\ Disjoint'
  BY <1>1 DEF Orderly, NeverOnline, PaidGrows, Disjoint
<1>6. CASE r.res = NotFound
  <2>1. UNCHANGED <<count, job>>
    BY <1>6 DEF Refill
  <2>2. \A n \in Nat : Behind(n) => Behind(n)'
    BY <1>1, <2>1 DEF Behind, UsedBehind, PaidBehind, Pays, LoginGoesOn, ToPay, HoldsOtps
  <2>3. OtpsOnTheWay'
    BY <1>1, <2>1 DEF Orderly, OtpsOnTheWay
  <2>4. QED BY <1>5, <2>1, <2>2, <2>3, JobsStay DEF Orderly
<1>7. CASE r.res # NotFound
  <2>1. disturbed' = Interfering({cl}) /\ job' = [job EXCEPT ![cl] = new]
    <3>1. disturbed' = Interfering({cl})
      BY <1>7, Zenon DEF Refill
    <3>2. job' = [job EXCEPT ![cl] = new]
      BY <1>7 DEF Refill
    <3>3. QED BY <3>1, <3>2
  <2>2. \A other \in Clients \ {cl} : job'[other] = job[other] /\ ~Critical(job[other])
    BY <2>1, NotInterfered DEF OfflineTypes
  <2>3. Behind(count)
    <3>1. ~Restoring(cl)
      BY <1>1, IdleJob DEF Restoring
    <3>2. QED BY <2>2, <3>1, CountIsCounter
  <2>4. job'[cl] = new
    BY <2>1 DEF OfflineTypes
  <2>5. PICK n : n = count
    OBVIOUS
  <2>6. UsedBehind(n)' /\ (~raised' => PaidBehind(n)')
    BY <1>1, <2>3, <2>5 DEF Behind, UsedBehind, PaidBehind
  <2>7. ASSUME ~raised' PROVE Pays(job[cl], n)'
    <3>1. stock <= n /\ \A i \in 1 .. Len(paid) : paid[i] \in Nat /\ paid[i] < n - stock
      BY <1>1, <1>2, <2>3, <2>5, <2>7 DEF Behind, PaidBehind
    <3>2. first = n - stock /\ first <= r.res /\ r.res \in Nat
      BY <1>2, <1>3, <1>4, <1>7, <2>5, <3>1
    <3> HIDE DEF first, r
    <3>3. /\ r.res < n + RefillAmount(r.res, first) - stock
          /\ \A i \in 1 .. Len(paid) : paid[i] < r.res
      BY <1>2, <2>5, <3>1, <3>2 DEF RefillAmount
    <3>4. QED BY <1>1, <2>4, <3>1, <3>3 DEF Pays, LoginGoesOn, ToPay, HoldsOtps
  <2>8. /\ ~HoldsOtps(job'[cl])
        /\ n = IF job'[cl].step = "restore" THEN job'[cl].current ELSE count'
        /\ job'[cl].step # "increase"
    BY <2>4, <2>5 DEF HoldsOtps
  <2> HIDE DEF first, r, new
  <2>9. ASSUME ~raised', NEW other \in Clients \ {cl} PROVE Pays(job[other], n)'
    <3>1. Pays(job[other], n)
      BY <1>1, <2>3, <2>5, <2>9 DEF Behind
    <3>2. QED BY <1>1, <2>2, <3>1 DEF Pays, LoginGoesOn, ToPay, HoldsOtps
  <2>10. OneCritical' /\ IncreaseAtCounter' /\ TrueCounterAhead'
    BY <2>2, <2>6, <2>7, <2>8, <2>9, UserAhead
  <2>11. OtpsOnTheWay'
    BY <1>1, <2>2, <2>8 DEF Orderly, OtpsOnTheWay
  <2>12. QED BY <1>5, <2>10, <2>11 DEF Orderly
<1>8. QED BY <1>6, <1>7

\* The counter is set to what the refill kept in mind.
LEMMA RestoreOrderly ==
    ASSUME OfflineTypes, OfflineTypes', Orderly, ~disturbed', NEW cl \in Clients, Restore(cl)
    PROVE  Orderly'
<1> DEFINE new == [step |-> "handout", kind |-> "refill",
                   amount |-> job[cl].amount, used |-> job[cl].used]
<1>1. /\ Restoring(cl) /\ count' = job[cl].current
      /\ UNCHANGED <<accepted, stock, clientToken, cache, handed, paid, raised>>
  BY DEF Restore, Restoring
<1>2. disturbed' = Interfering({cl}) /\ job' = [job EXCEPT ![cl] = new]
  <2>1. disturbed' = Interfering({cl})
    BY Zenon DEF Restore
  <2>2. job' = [job EXCEPT ![cl] = new]
    BY DEF Restore
  <2>3. QED BY <2>1, <2>2
<1>3. \A other \in Clients \ {cl} : job'[other] = job[other] /\ ~Critical(job[other])
  BY <1>2, NotInterfered DEF OfflineTypes
<1>4. job'[cl] = new /\ ~HoldsOtps(job'[cl])
  BY <1>2 DEF OfflineTypes, HoldsOtps
<1>5. PICK n : n = count'
  OBVIOUS
<1>6. Behind(n)
  BY <1>1, <1>5 DEF Orderly, TrueCounterAhead
<1>7. UsedBehind(n)' /\ (~raised' => PaidBehind(n)')
  BY <1>1, <1>6 DEF Behind, UsedBehind, PaidBehind
<1>8. ASSUME ~raised' PROVE /\ Pays(job[cl], n)'
                            /\ \A other \in Clients \ {cl} : Pays(job[other], n)'
  <2>1. \A other \in Clients : Pays(job[other], n)
    BY <1>1, <1>6, <1>8 DEF Behind
  <2>2. Pays(job[cl], n)'
    BY <1>1, <1>4, <2>1 DEF Pays, LoginGoesOn, ToPay, HoldsOtps, Restoring
  <2>3. ASSUME NEW other \in Clients \ {cl} PROVE Pays(job[other], n)'
    BY <1>1, <1>3, <2>1 DEF Pays, LoginGoesOn, ToPay, HoldsOtps
  <2>4. QED BY <2>2, <2>3
<1>9. OneCritical' /\ IncreaseAtCounter' /\ TrueCounterAhead'
  <2>1. job'[cl].step \notin {"restore", "increase"}
    BY <1>4
  <2>2. QED BY <1>3, <1>5, <1>7, <1>8, <2>1, UserAhead
<1>10. OtpsOnTheWay'
  BY <1>1, <1>3, <1>4 DEF Orderly, OtpsOnTheWay
<1>11. NeverOnline' /\ PaidGrows' /\ Disjoint'
  BY <1>1 DEF Orderly, NeverOnline, PaidGrows, Disjoint
<1>12. QED BY <1>9, <1>10, <1>11 DEF Orderly

\* What is loaded is the counter, as nobody is about to restore another one.
LEMMA HandoutOrderly ==
    ASSUME OfflineTypes, OfflineTypes', Orderly, ~disturbed', NEW cl \in Clients, Handout(cl)
    PROVE  Orderly'
<1>1. /\ job[cl].step = "handout"
      /\ UNCHANGED <<count, accepted, stock, clientToken, cache, handed, paid, raised>>
  BY DEF Handout, hotpVars
<1>2. disturbed' = Interfering({cl})
  BY Zenon DEF Handout
<1>3. \A other \in Clients \ {cl} : job'[other] = job[other] /\ ~Critical(job[other])
  BY <1>2, NotInterfered DEF Handout, OfflineTypes
<1>4. /\ job'[cl].step = "increase" /\ job'[cl].first = count
      /\ job'[cl].kind = job[cl].kind /\ job'[cl].amount = job[cl].amount
      /\ job[cl].kind = "refill" => job'[cl].used = job[cl].used
  <2>1. job[cl].kind \in {"login", "refill"}
    BY <1>1, JobByStep DEF LoginToHandout, RefillToHandout
  <2>2. QED BY <2>1 DEF Handout, OfflineTypes
<1>5. PICK n : n = count
  OBVIOUS
<1>6. Behind(n)
  <2>1. ~Restoring(cl)
    BY <1>1 DEF Restoring
  <2>2. QED BY <1>3, <1>5, <2>1, CountIsCounter
<1>7. UsedBehind(n)' /\ (~raised' => PaidBehind(n)')
  BY <1>1, <1>6 DEF Behind, UsedBehind, PaidBehind
<1>8. ASSUME ~raised' PROVE /\ Pays(job[cl], n)'
                            /\ \A other \in Clients \ {cl} : Pays(job[other], n)'
  <2>1. \A other \in Clients : Pays(job[other], n)
    BY <1>1, <1>6, <1>8 DEF Behind
  <2>2. Pays(job[cl], n)'
    BY <1>1, <1>4, <2>1 DEF Pays, LoginGoesOn, ToPay, HoldsOtps
  <2>3. ASSUME NEW other \in Clients \ {cl} PROVE Pays(job[other], n)'
    BY <1>1, <1>3, <2>1 DEF Pays, LoginGoesOn, ToPay, HoldsOtps
  <2>4. QED BY <2>2, <2>3
<1>9. OneCritical' /\ IncreaseAtCounter' /\ TrueCounterAhead'
  BY <1>1, <1>3, <1>4, <1>5, <1>7, <1>8, UserAhead
<1>10. OtpsOnTheWay'
  <2>1. ~HoldsOtps(job'[cl])
    BY <1>4 DEF HoldsOtps
  <2>2. QED BY <1>1, <1>3, <2>1 DEF Orderly, OtpsOnTheWay
<1>11. NeverOnline' /\ PaidGrows' /\ Disjoint'
  BY <1>1 DEF Orderly, NeverOnline, PaidGrows, Disjoint
<1>12. QED BY <1>9, <1>10, <1>11 DEF Orderly

\* What is handed out lies at the counter and above it, where nothing was handed
\* out, let through or paid, and the counter moves past it.
LEMMA IncreaseOrderly ==
    ASSUME OfflineTypes, OfflineTypes', Orderly, ~disturbed', NEW cl \in Clients, Increase(cl)
    PROVE  Orderly'
<1> DEFINE amount == job[cl].amount
           otps   == job[cl].first .. (job[cl].first + amount - 1)
           new    == IF job[cl].kind = "login"
                       THEN [step |-> "reply", otps |-> otps, token |-> job[cl].token]
                       ELSE [step |-> "rotate", kind |-> "refill", otps |-> otps]
<1>1. /\ job[cl] \in LoginToIncrease \cup RefillToIncrease
      /\ job[cl].step = "increase" /\ ~Restoring(cl)
  BY JobByStep DEF Increase, Restoring
<1>2. /\ amount \in Nat \ {0} /\ count \in Nat /\ stock \in Nat /\ handed \subseteq Nat
      /\ accepted \in Seq(Nat) /\ paid \in Seq(Nat)
      /\ cache \in [Clients -> SUBSET handed]
  BY <1>1, OfflineAssumption
  DEF LoginToIncrease, RefillToIncrease, OfflineTypes, OfflineTypeOK, TypeOK
<1>3. job[cl].first = count
  BY <1>1 DEF Orderly, IncreaseAtCounter
<1>4. /\ count' = count + amount
      /\ handed' = handed \cup otps
      /\ paid' = IF job[cl].kind = "refill" THEN Append(paid, job[cl].used) ELSE paid
      /\ job' = [job EXCEPT ![cl] = new]
      /\ UNCHANGED <<accepted, stock, clientToken, cache, raised>>
  BY <1>3 DEF Increase
<1>5. disturbed' = Interfering({cl})
  BY Zenon DEF Increase
<1>6. \A other \in Clients \ {cl} : job'[other] = job[other] /\ ~Critical(job[other])
  BY <1>4, <1>5, NotInterfered DEF OfflineTypes
<1>7. Behind(count)
  BY <1>1, <1>6, CountIsCounter
<1>8. \A c \in otps : c \in Nat /\ count <= c /\ c < count'
  BY <1>2, <1>3, <1>4
<1>9. new.otps = otps /\ (new.step = "reply" \/ (new.step = "rotate" /\ new.kind = "refill"))
  OBVIOUS
<1>10. /\ new.step \notin {"restore", "increase"}
       /\ HoldsOtps(new) /\ ~LoginGoesOn(new) /\ ~ToPay(new)
  BY DEF HoldsOtps, LoginGoesOn, ToPay
<1> HIDE DEF amount, otps, new
<1>11. job'[cl] = new
  BY <1>4 DEF OfflineTypes
<1>12. UsedBehind(count)'
  <2>1. \A h \in handed : h \in Nat /\ h < count
    BY <1>2, <1>7 DEF Behind, UsedBehind
  <2>2. \A i \in 1 .. Len(accepted) : accepted[i] \in Nat /\ accepted[i] < count
    BY <1>2, <1>7 DEF Behind, UsedBehind
  <2>3. QED BY <1>2, <1>4, <1>8, <2>1, <2>2 DEF UsedBehind
<1>13. NeverOnline'
  <2>1. \A i \in 1 .. Len(accepted) : accepted[i] \in Nat /\ accepted[i] < count
    BY <1>2, <1>7 DEF Behind, UsedBehind
  <2>2. \A i \in 1 .. Len(accepted) : accepted[i] \notin otps
    BY <1>2, <1>8, <2>1
  <2>3. QED BY <1>4, <2>2 DEF Orderly, NeverOnline
<1>14. ASSUME ~raised
       PROVE  /\ PaidBehind(count)' /\ Pays(job[cl], count)'
              /\ \A i, j \in 1 .. Len(paid') : i < j => paid'[i] < paid'[j]
  <2>1. PaidBehind(count) /\ Pays(job[cl], count)
    BY <1>7, <1>14 DEF Behind
  <2>2. \A i, j \in 1 .. Len(paid) : i < j => paid[i] < paid[j]
    BY <1>14 DEF Orderly, PaidGrows
  <2>3. CASE job[cl].kind = "login"
    <3>1. stock <= amount
      BY <1>1, <2>1, <2>3 DEF Pays, LoginGoesOn, amount
    <3>2. paid' = paid /\ \A i \in 1 .. Len(paid) : paid[i] \in Nat /\ paid[i] < count - stock
      BY <1>2, <1>4, <2>1, <2>3 DEF PaidBehind
    <3>3. stock' <= count' /\ count - stock <= count' - stock'
      BY <1>2, <1>4, <3>1
    <3>4. PaidBehind(count)'
      BY <1>2, <1>4, <2>1, <3>2, <3>3 DEF PaidBehind
    <3>5. Pays(job[cl], count)'
      BY <1>10, <1>11, <3>3 DEF Pays
    <3>6. QED BY <2>2, <3>2, <3>4, <3>5
  <2>4. CASE job[cl].kind # "login"
    <3>1. job[cl] \in RefillToIncrease
      BY <1>1, <2>4 DEF LoginToIncrease
    <3>2. job[cl].used \in Nat /\ job[cl].kind = "refill" /\ ToPay(job[cl])
      BY <1>1, <3>1 DEF RefillToIncrease, ToPay
    <3> DEFINE used == job[cl].used
    <3>3. /\ stock <= count /\ used < count + amount - stock
          /\ \A i \in 1 .. Len(paid) : paid[i] < used
      BY <2>1, <3>2 DEF Pays, amount
    <3>4. paid' = Append(paid, used) /\ used \in Nat
      BY <1>4, <3>2
    <3> HIDE DEF used
    <3>5. /\ paid' \in Seq(Nat)
          /\ \A i \in 1 .. Len(paid') : paid'[i] < used + 1
          /\ \A i, j \in 1 .. Len(paid') : i < j => paid'[i] < paid'[j]
      <4>1. used + 1 \in Nat /\ used < used + 1 /\ used <= used
        BY <3>4
      <4>2. QED BY <1>2, <2>2, <3>3, <3>4, <4>1, AppendKeepsOrder
    <3>6. used + 1 <= count' - stock' /\ stock' <= count' /\ count' - stock' \in Nat
      BY <1>2, <1>4, <3>3, <3>4
    <3>7. \A i \in 1 .. Len(paid') : paid'[i] < count' - stock'
      <4>1. \A i \in 1 .. Len(paid') : paid'[i] \in Nat
        BY <3>5
      <4>2. QED BY <3>4, <3>5, <3>6, <4>1
    <3>8. PaidBehind(count)'
      BY <3>6, <3>7 DEF PaidBehind
    <3>9. Pays(job[cl], count)'
      BY <1>10, <1>11, <3>6 DEF Pays
    <3>10. QED BY <3>5, <3>8, <3>9
  <2>5. QED BY <2>3, <2>4
<1>15. OneCritical' /\ IncreaseAtCounter' /\ TrueCounterAhead'
  <2>1. PICK n : n = count'
    OBVIOUS
  <2>2. UsedBehind(n)' /\ (~raised' => PaidBehind(n)' /\ Pays(job[cl], n)')
    BY <1>4, <1>12, <1>14, <2>1 DEF UsedBehind, PaidBehind, Pays
  <2>3. ASSUME ~raised', NEW other \in Clients \ {cl} PROVE Pays(job[other], n)'
    <3>1. PICK m : m = count
      OBVIOUS
    <3>2. m \in Nat /\ n \in Nat /\ m <= n /\ Pays(job[other], m)
      BY <1>2, <1>4, <1>7, <2>1, <2>3, <3>1 DEF Behind
    <3>3. QED BY <1>2, <1>4, <1>6, <3>2, BystanderPays
  <2>4. QED BY <1>6, <1>10, <1>11, <2>1, <2>2, <2>3, UserAhead
<1>16. OtpsOnTheWay'
  <2>1. \A h \in handed : h < count
    BY <1>7 DEF Behind, UsedBehind
  <2>2. otps \cap handed = {}
    BY <1>2, <1>8, <2>1
  <2>3. \A other \in Clients : otps \cap cache'[other] = {}
    BY <1>2, <1>4, <2>2
  <2>4. \A other \in Clients : HoldsOtps(job[other]) => job[other].otps \subseteq handed
    BY JobByStep
    DEF HoldsOtps, ToReply, RefillToRotate, LoginToRotate
  <2>5. \A other \in Clients \ {cl} : HoldsOtps(job[other]) => job[other].otps \cap otps = {}
    BY <2>2, <2>4
  <2>6. job'[cl].otps = otps
    BY <1>9, <1>11
  <2>7. QED BY <1>4, <1>6, <2>3, <2>5, <2>6 DEF Orderly, OtpsOnTheWay
<1>17. PaidGrows' /\ Disjoint'
  BY <1>4, <1>14 DEF Orderly, PaidGrows, Disjoint
<1>18. QED BY <1>13, <1>15, <1>16, <1>17 DEF Orderly

\* A new refill token: a login goes on to its handout, a refill to its answer.
LEMMA RotateOrderly ==
    ASSUME OfflineTypes, OfflineTypes', Orderly, NEW cl \in Clients, Rotate(cl)
    PROVE  Orderly'
<1>1. UNCHANGED <<count, accepted, stock, clientToken, cache, handed, paid, raised>>
  BY DEF Rotate, hotpVars
<1>2. \A other \in Clients \ {cl} : job'[other] = job[other]
  BY DEF Rotate, OfflineTypes
<1>3. job[cl].step = "rotate" /\ job[cl].kind \in {"login", "refill"}
  BY JobByStep DEF Rotate, LoginToRotate, RefillToRotate
<1>4. job'[cl] = IF job[cl].kind = "login"
                   THEN [step |-> "handout", kind |-> "login", amount |-> job[cl].amount,
                         token |-> refilltoken + 1]
                   ELSE [step |-> "reply", otps |-> job[cl].otps, token |-> refilltoken + 1]
  BY DEF Rotate, OfflineTypes
<1>5. /\ ~Restoring(cl) /\ ~Critical(job'[cl]) /\ ~ToPay(job'[cl])
      /\ LoginGoesOn(job'[cl]) => LoginGoesOn(job[cl]) /\ job'[cl].amount = job[cl].amount
      /\ HoldsOtps(job'[cl]) => HoldsOtps(job[cl]) /\ job'[cl].otps = job[cl].otps
  BY <1>3, <1>4 DEF Restoring, Critical, ToPay, LoginGoesOn, HoldsOtps
<1>6. \A n \in Nat : Behind(n) => Behind(n)'
  <2>1. ASSUME NEW n \in Nat, Behind(n), ~raised', NEW other \in Clients
        PROVE  Pays(job[other], n)'
    <3>1. Pays(job[other], n) /\ Pays(job[cl], n)
      BY <1>1, <2>1 DEF Behind
    <3>2. CASE other = cl
      BY <1>1, <1>5, <3>1, <3>2 DEF Pays
    <3>3. CASE other # cl
      BY <1>1, <1>2, <3>1, <3>3 DEF Pays, LoginGoesOn, ToPay, HoldsOtps
    <3>4. QED BY <3>2, <3>3
  <2>2. ASSUME NEW n \in Nat, Behind(n)
        PROVE  UsedBehind(n)' /\ (~raised' => PaidBehind(n)')
    BY <1>1, <2>2 DEF Behind, UsedBehind, PaidBehind
  <2>3. QED BY <2>1, <2>2 DEF Behind
<1>7. OneCritical' /\ IncreaseAtCounter' /\ TrueCounterAhead'
  BY <1>1, <1>2, <1>5, <1>6, CounterStays
<1>8. OtpsOnTheWay'
  <2>1. \A other \in Clients : HoldsOtps(job'[other]) =>
          HoldsOtps(job[other]) /\ job'[other].otps = job[other].otps
    BY <1>2, <1>5
  <2>2. QED BY <1>1, <2>1 DEF Orderly, OtpsOnTheWay
<1>9. NeverOnline' /\ PaidGrows' /\ Disjoint'
  BY <1>1 DEF Orderly, NeverOnline, PaidGrows, Disjoint
<1>10. QED BY <1>7, <1>8, <1>9 DEF Orderly

\* The machine stores values no other one has; what it received makes it one
\* that can buy a refill.
LEMMA ReceiveOrderly ==
    ASSUME OfflineTypes, OfflineTypes', Orderly, NEW cl \in Clients, Receive(cl)
    PROVE  Orderly'
<1>1. /\ job[cl].step = "reply" /\ ~Restoring(cl) /\ HoldsOtps(job[cl])
      /\ UNCHANGED <<count, accepted, stock, handed, paid, raised>>
  BY DEF Receive, Restoring, HoldsOtps, hotpVars
<1>2. job'[cl] = Idle /\ \A other \in Clients \ {cl} : job'[other] = job[other]
  BY DEF Receive, OfflineTypes
<1>3. \A other \in Clients :
        /\ cache'[other] = IF other = cl THEN cache[cl] \cup job[cl].otps ELSE cache[other]
        /\ clientToken'[other] # 0 => other = cl \/ clientToken[other] # 0
  BY DEF Receive, OfflineTypes, OfflineTypeOK
<1>4. \A n \in Nat : Behind(n) => Behind(n)'
  <2>1. ASSUME NEW n \in Nat, Behind(n), ~raised'
        PROVE  PaidBehind(n)' /\ \A other \in Clients : Pays(job[other], n)'
    <3>1. PaidBehind(n) /\ \A other \in Clients : Pays(job[other], n)
      BY <1>1, <2>1 DEF Behind
    <3>2. stock <= n
      BY <1>1, <3>1 DEF Pays
    <3>3. PaidBehind(n)'
      BY <1>1, <1>3, <3>1, <3>2 DEF PaidBehind
    <3>4. Pays(job[cl], n)'
      BY <1>2 DEF Pays, LoginGoesOn, ToPay, HoldsOtps, Idle
    <3>5. ASSUME NEW other \in Clients \ {cl} PROVE Pays(job[other], n)'
      BY <1>1, <1>2, <3>1 DEF Pays, LoginGoesOn, ToPay, HoldsOtps
    <3>6. QED BY <3>3, <3>4, <3>5
  <2>2. ASSUME NEW n \in Nat, Behind(n) PROVE UsedBehind(n)'
    BY <1>1, <2>2 DEF Behind, UsedBehind
  <2>3. QED BY <2>1, <2>2 DEF Behind
<1>5. OneCritical' /\ IncreaseAtCounter' /\ TrueCounterAhead'
  <2>1. ~Critical(job'[cl])
    BY <1>2, IdleJob
  <2>2. QED BY <1>1, <1>2, <1>4, <2>1, CounterStays
<1>6. OtpsOnTheWay'
  <2>1. \A other \in Clients : HoldsOtps(job'[other]) =>
          /\ other # cl /\ HoldsOtps(job[other]) /\ job'[other].otps = job[other].otps
          /\ job[other].otps \cap job[cl].otps = {}
    BY <1>1, <1>2, IdleJob DEF Orderly, OtpsOnTheWay
  <2>2. QED BY <1>3, <2>1 DEF Orderly, OtpsOnTheWay
<1>7. Disjoint'
  <2>1. \A other \in Clients \ {cl} : job[cl].otps \cap cache[other] = {}
    BY <1>1 DEF Orderly, OtpsOnTheWay
  <2>2. QED BY <1>3, <2>1 DEF Orderly, Disjoint
<1>8. NeverOnline' /\ PaidGrows'
  BY <1>1 DEF Orderly, NeverOnline, PaidGrows
<1>9. QED BY <1>5, <1>6, <1>7, <1>8 DEF Orderly

\* A request that dies leaves the counter where it is, and that is the counter
\* unless it was a refill that had not restored it.
LEMMA AbortOrderly ==
    ASSUME OfflineTypes, OfflineTypes', Orderly, ~disturbed', NEW cl \in Clients, Abort(cl)
    PROVE  Orderly'
<1>1. UNCHANGED <<count, accepted, stock, clientToken, cache, handed, paid, raised>>
  BY DEF Abort, hotpVars
<1>2. ~Restoring(cl)
  BY Zenon DEF Abort, Restoring
<1>3. job'[cl] = Idle /\ \A other \in Clients \ {cl} : job'[other] = job[other]
  BY DEF Abort, OfflineTypes
<1>4. \A n \in Nat : Behind(n) => Behind(n)'
  <2>1. ASSUME NEW n \in Nat, Behind(n), ~raised', NEW other \in Clients
        PROVE  Pays(job[other], n)'
    <3>1. CASE other = cl
      BY <1>3, <3>1 DEF Pays, LoginGoesOn, ToPay, HoldsOtps, Idle
    <3>2. CASE other # cl
      BY <1>1, <1>3, <2>1, <3>2 DEF Behind, Pays, LoginGoesOn, ToPay, HoldsOtps
    <3>3. QED BY <3>1, <3>2
  <2>2. ASSUME NEW n \in Nat, Behind(n)
        PROVE  UsedBehind(n)' /\ (~raised' => PaidBehind(n)')
    BY <1>1, <2>2 DEF Behind, UsedBehind, PaidBehind
  <2>3. QED BY <2>1, <2>2 DEF Behind
<1>5. OneCritical' /\ IncreaseAtCounter' /\ TrueCounterAhead'
  <2>1. ~Critical(job'[cl])
    BY <1>3, IdleJob
  <2>2. QED BY <1>1, <1>2, <1>3, <1>4, <2>1, CounterStays
<1>6. OtpsOnTheWay'
  <2>1. \A other \in Clients : HoldsOtps(job'[other]) => job'[other] = job[other]
    BY <1>3, IdleJob
  <2>2. QED BY <1>1, <2>1 DEF Orderly, OtpsOnTheWay
<1>7. NeverOnline' /\ PaidGrows' /\ Disjoint'
  BY <1>1 DEF Orderly, NeverOnline, PaidGrows, Disjoint
<1>8. QED BY <1>5, <1>6, <1>7 DEF Orderly

\* A search lets a counter through while nobody relies on it.
LEMMA SearchOrderly ==
    ASSUME OfflineTypes, OfflineTypes', Orderly, ~disturbed', NEW v \in Values, Search(v)
    PROVE  Orderly'
<1>1. UNCHANGED <<stock, job, clientToken, cache, handed, paid, raised>>
  BY DEF Search
<1>2. Passes /\ count \in Nat /\ count' \in Nat /\ stock \in Nat
  BY FindByOtpPasses, OfflineAssumption DEF Search, OfflineTypes, OfflineTypeOK, TypeOK
<1>3. \A cl \in Clients : ~Critical(job[cl])
  <2>1. disturbed' = Interfering({})
    BY Zenon DEF Search
  <2>2. QED BY <2>1, NotInterfered
<1>4. \A cl \in Clients : ~Restoring(cl) /\ job[cl].step # "increase"
  BY <1>3 DEF Critical, Restoring
<1>5. Behind(count)
  BY <1>4 DEF Orderly, TrueCounterAhead
<1>6. /\ NeverOnline' /\ UsedBehind(count)'
      /\ ~raised' => PaidBehind(count)'
      /\ count <= count'
  BY <1>1, <1>2, <1>5, PassesKeepsBehind DEF Orderly
<1>7. TrueCounterAhead'
  <2>1. PICK n : n = count'
    OBVIOUS
  <2>2. ASSUME ~raised', NEW cl \in Clients PROVE Pays(job[cl], n)'
    <3>1. PICK m : m = count
      OBVIOUS
    <3>2. m \in Nat /\ n \in Nat /\ m <= n /\ Pays(job[cl], m)
      BY <1>1, <1>2, <1>5, <1>6, <2>1, <2>2, <3>1 DEF Behind
    <3>3. job'[cl] = job[cl]
      BY <1>1
    <3>4. QED BY <1>1, <1>2, <1>3, <3>2, <3>3, BystanderPays
  <2>3. Behind(n)'
    BY <1>6, <2>1, <2>2 DEF Behind, UsedBehind, PaidBehind
  <2>4. \A cl \in Clients : ~Restoring(cl)'
    BY <1>1, <1>4 DEF Restoring
  <2>5. Behind(count)'
    BY <2>1, <2>3 DEF Behind, UsedBehind, PaidBehind, Pays
  <2>6. QED BY <2>4, <2>5 DEF TrueCounterAhead
<1>8. OneCritical' /\ IncreaseAtCounter' /\ OtpsOnTheWay' /\ PaidGrows' /\ Disjoint'
  BY <1>1, <1>4
  DEF Orderly, OneCritical, IncreaseAtCounter, OtpsOnTheWay, PaidGrows, Disjoint
<1>9. QED BY <1>6, <1>7, <1>8 DEF Orderly

\* The count of the attachment changes; lowered, also while requests are under
\* way, it moves the window of the next refill further up.
LEMMA SetStockOrderly ==
    ASSUME OfflineTypes, OfflineTypes', Orderly, NEW new \in Stocks, SetStock(new)
    PROVE  Orderly'
<1>1. /\ stock' = new
      /\ raised' = (raised \/ new > stock)
      /\ UNCHANGED <<count, accepted, job, clientToken, cache, handed, paid>>
  BY DEF SetStock, hotpVars
<1>2. new \in Nat /\ stock \in Nat /\ paid \in Seq(Nat)
  BY OfflineAssumption DEF OfflineTypes, OfflineTypeOK
<1>3. ~raised' => ~raised /\ new <= stock
  <2>1. ~raised' => ~raised /\ ~ (new > stock)
    BY <1>1, Zenon
  <2>2. QED BY <1>2, <2>1
<1>4. \A n \in Nat : Behind(n) => Behind(n)'
  <2>1. ASSUME NEW n \in Nat, Behind(n), ~raised'
        PROVE  PaidBehind(n)' /\ \A cl \in Clients : Pays(job[cl], n)'
    <3>1. /\ stock' <= stock
          /\ PaidBehind(n) /\ \A cl \in Clients : Pays(job[cl], n)
          /\ \A i \in 1 .. Len(paid) : paid[i] \in Nat
      BY <1>1, <1>2, <1>3, <2>1 DEF Behind
    <3>2. PaidBehind(n)'
      BY <1>1, <1>2, <3>1 DEF PaidBehind
    <3>3. ASSUME NEW cl \in Clients PROVE Pays(job[cl], n)'
      <4>1. LoginGoesOn(job[cl]) => job[cl].amount \in Nat
        BY JobByStep
        DEF LoginGoesOn, LoginToRotate, LoginToHandout, LoginToIncrease, RefillToRotate,
            RefillToHandout, RefillToIncrease
      <4>2. ToPay(job[cl]) => job[cl].amount \in Nat /\ job[cl].used \in Nat
        BY JobByStep
        DEF ToPay, RefillToRestore, RefillToHandout, RefillToIncrease, LoginToHandout,
            LoginToIncrease
      <4>3. LoginGoesOn(job[cl]) => stock' <= job[cl].amount
        BY <1>1, <1>2, <3>1, <4>1 DEF Pays
      <4>4. ToPay(job[cl]) \/ HoldsOtps(job[cl]) => stock' <= n
        BY <1>1, <1>2, <3>1 DEF Pays
      <4>5. ASSUME ToPay(job[cl]) PROVE job[cl].used < n + job[cl].amount - stock'
        <5>1. job[cl].used < n + job[cl].amount - stock
          BY <3>1, <4>5 DEF Pays
        <5>2. stock' \in Nat /\ stock' <= stock
          BY <1>1, <1>2, <3>1
        <5>3. job[cl].amount \in Nat /\ job[cl].used \in Nat
          BY <4>2, <4>5
        <5>4. QED BY <1>2, <5>1, <5>2, <5>3
      <4>6. QED BY <1>1, <3>1, <4>3, <4>4, <4>5 DEF Pays, LoginGoesOn, ToPay, HoldsOtps
    <3>4. QED BY <3>2, <3>3
  <2>2. ASSUME NEW n \in Nat, Behind(n) PROVE UsedBehind(n)'
    BY <1>1, <2>2 DEF Behind, UsedBehind
  <2>3. QED BY <2>1, <2>2 DEF Behind
<1>5. OneCritical' /\ IncreaseAtCounter' /\ TrueCounterAhead'
  BY <1>1, <1>4, JobsStay
<1>6. OtpsOnTheWay' /\ NeverOnline' /\ PaidGrows' /\ Disjoint'
  BY <1>1, <1>3 DEF Orderly, OtpsOnTheWay, NeverOnline, PaidGrows, Disjoint
<1>7. QED BY <1>5, <1>6 DEF Orderly

\* Steps the invariant does not look at, or that take values off a machine.
LEMMA OtherOrderly ==
    ASSUME OfflineTypes, Orderly,
           UNCHANGED <<count, accepted, stock, job, clientToken, handed, paid, raised>>,
           \A cl \in Clients : cache'[cl] \subseteq cache[cl]
    PROVE  Orderly'
<1>1. \A n \in Nat : Behind(n) => Behind(n)'
  BY DEF Behind, UsedBehind, PaidBehind, Pays, LoginGoesOn, ToPay, HoldsOtps
<1>2. OneCritical' /\ IncreaseAtCounter' /\ TrueCounterAhead'
  BY <1>1, JobsStay
<1>3. OtpsOnTheWay' /\ NeverOnline' /\ PaidGrows' /\ Disjoint'
  BY DEF Orderly, OtpsOnTheWay, HoldsOtps, NeverOnline, PaidGrows, Disjoint
<1>4. QED BY <1>2, <1>3 DEF Orderly

LEMMA OrderlyStep ==
    OfflineTypes /\ OfflineTypes' /\ OrderlyInv /\ [OfflineNext]_allVars => OrderlyInv'
<1> SUFFICES ASSUME OfflineTypes, OfflineTypes', OrderlyInv, [OfflineNext]_allVars, ~disturbed'
             PROVE  Orderly'
  BY DEF OrderlyInv
<1>1. Orderly
  BY DisturbedType DEF OrderlyInv
<1>2. ASSUME NEW cl \in Clients, NEW v \in Values, Login(cl, v) \/ Refill(cl, v)
      PROVE  Orderly'
  BY <1>1, <1>2, LoginOrderly, RefillOrderly
<1>3. ASSUME NEW cl \in Clients, Restore(cl) \/ Handout(cl) \/ Increase(cl)
      PROVE  Orderly'
  BY <1>1, <1>3, RestoreOrderly, HandoutOrderly, IncreaseOrderly
<1>4. ASSUME NEW cl \in Clients, Rotate(cl) \/ Receive(cl) \/ Abort(cl)
      PROVE  Orderly'
  BY <1>1, <1>4, RotateOrderly, ReceiveOrderly, AbortOrderly
<1>5. ASSUME NEW cl \in Clients, NEW c \in cache[cl], UseOffline(cl, c) PROVE Orderly'
  <2>1. \A other \in Clients : cache'[other] \subseteq cache[other]
    BY <1>5 DEF UseOffline, OfflineTypes, OfflineTypeOK
  <2>2. QED BY <1>1, <1>5, <2>1, OtherOrderly DEF UseOffline, hotpVars
<1>6. CASE ToggleAttachment
  BY <1>1, <1>6, OtherOrderly DEF ToggleAttachment, hotpVars
<1>7. ASSUME NEW n \in Stocks, SetStock(n) PROVE Orderly'
  BY <1>1, <1>7, SetStockOrderly
<1>8. ASSUME NEW v \in Values, Search(v) PROVE Orderly'
  BY <1>1, <1>8, SearchOrderly
<1>9. CASE Elsewhere
  <2>1. UNCHANGED <<count, accepted, offlineVars>>
    BY <1>9, ElsewhereStays DEF OfflineTypes, OfflineTypeOK
  <2>2. QED BY <1>1, <2>1, OtherOrderly DEF offlineVars
<1>10. CASE UNCHANGED allVars
  BY <1>1, <1>10, OtherOrderly DEF allVars, offlineVars, hotpVars
<1>11. QED
  BY <1>2, <1>3, <1>4, <1>5, <1>6, <1>7, <1>8, <1>9, <1>10 DEF OfflineNext

-----------------------------------------------------------------------------
(***************************************************************************)
(* The theorems                                                            *)
(***************************************************************************)

LEMMA OfflineTypesInvariant == OfflineSpec => []OfflineTypes
  BY OfflineTypesInit, OfflineTypesStep, PTL DEF OfflineSpec

\* The attachment, the refill tokens and the stocks of the machines stay well
\* typed, and no machine stores a value the server did not hand out, however
\* requests mix, die and lose their answers.
THEOREM OfflineTypeCorrect == OfflineSpec => []OfflineTypeOK
<1>1. OfflineTypes => OfflineTypeOK
  BY DEF OfflineTypes
<1>2. QED BY <1>1, OfflineTypesInvariant, PTL

LEMMA OrderlyInvariant == OfflineSpec => []OrderlyInv
<1>1. OfflineInit => OrderlyInv
  BY OrderlyInit DEF OrderlyInv
<1>2. QED BY <1>1, OrderlyStep, OfflineTypesInvariant, PTL DEF OfflineSpec

\* Until a use of the counter is interfered with, a value handed out for offline
\* use is never let through online: get_offline_otps moves the counter past it,
\* and get_refill restores the counter it has set back.
THEOREM HandedStaysOffline == OfflineSpec => []HandedNeverOnline
<1>1. OrderlyInv => HandedNeverOnline
  BY DEF OrderlyInv, Orderly, NeverOnline, HandedNeverOnline
<1>2. QED BY <1>1, OrderlyInvariant, PTL

\* Until a use of the counter is interfered with or somebody raises the count of
\* the attachment, the values that buy refills only grow: no value buys two.
THEOREM RefillPaidOnce == OfflineSpec => []PaidOnce
<1>1. OrderlyInv => PaidOnce
  BY DEF OrderlyInv, Orderly, PaidGrows, PaidOnce
<1>2. QED BY <1>1, OrderlyInvariant, PTL

\* Until a use of the counter is interfered with, no two machines store the same
\* value, whichever order their answers arrive in.
THEOREM MachinesDisjoint == OfflineSpec => []CachesDisjoint
<1>1. OrderlyInv => CachesDisjoint
  BY DEF OrderlyInv, Orderly, Disjoint, CachesDisjoint
<1>2. QED BY <1>1, OrderlyInvariant, PTL
===============================================================================
