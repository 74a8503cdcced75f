---------------------------- MODULE TotpTokenProofs ----------------------------
(***************************************************************************)
(* Proofs about TotpToken for every OTP function, every time step, every   *)
(* window and any course of the clock, and about TotpDrift for any course  *)
(* of the clock of the device.                                             *)
(***************************************************************************)
EXTENDS TotpDrift, WellFoundedInduction, TLAPS

(***************************************************************************)
(* What the searches return                                                *)
(***************************************************************************)

\* The centre of the windows is a whole number.
LEMMA CentreTyped == TotpTypeOK => Centre \in Int
  BY TotpAssumption DEF TotpTypeOK, Centre

LEMMA WindowTyped == CheckWindow \in Nat
  BY TotpAssumption DEF CheckWindow

\* A set of counters that is not empty has a smallest one, the first match of a
\* search: the order of the counters is well founded.
LEMMA LeastNatural ==
  ASSUME NEW S, S \subseteq Nat, S # {}
  PROVE  \E c \in S : \A d \in S : c <= d
  <1>1. PICK R : /\ IsWellFoundedOn(R, Nat)
                 /\ \A x, y \in Nat : <<x, y>> \in R <=> x < y
    <2>1. \A x, y \in Nat : <<x, y>> \in OpToRel(<, Nat) <=> x < y
      BY DEF OpToRel
    <2> QED BY <2>1, NatLessThanWellFounded
  <1>2. PICK c \in S : \A d \in S : ~ (<<d, c>> \in R)
    <2>1. IsWellFoundedOn(R, Nat)
      BY <1>1
    <2> QED BY <2>1, WFMin, Zenon
  <1>3. \A d \in S : d \in Nat /\ c \in Nat /\ ~ (d < c)
    BY <1>1, <1>2
  <1> QED BY <1>3

\* Far from 1970 a search finds nothing or a counter above zero.
LEMMA SearchResult ==
  ASSUME NEW v, NEW centre \in Int, NEW window \in Nat, centre - window > 0
  PROVE  Search(v, centre, window) \in (Nat \ {0}) \cup {NotFound}
  <1> DEFINE matching == Matching(v, centre, window)
  <1>1. matching \subseteq Nat \ {0}
    BY DEF Matching
  <1>2. CASE matching = {}
    BY <1>2 DEF Search
  <1>3. CASE matching # {}
    <2>1. \E c \in matching : \A d \in matching : c <= d
      <3> HIDE DEF matching
      <3> QED BY <1>1, <1>3, LeastNatural
    <2>2. Search(v, centre, window) \in matching
      BY <1>3, <2>1 DEF Search
    <2> QED BY <1>1, <2>2
  <1> QED BY <1>2, <1>3

\* check_otp finds nothing, or a counter above the one used last: its own window,
\* and the automatic resynchronisation, compare what they found with it.
LEMMA CheckOtpResult ==
  ASSUME TotpTypeOK, NEW v, NEW window \in Nat, EpochFar(window), EpochFar(SyncWindow)
  PROVE  LET r == CheckOtp(v, window) IN
           /\ r.res = NotFound \/ (r.res \in Nat \ {0} /\ r.res > count)
           /\ r.otp1c \in Nat \cup {Absent}
  <1> DEFINE far == Search(v, Centre + window, SyncWindow)
             near == Search(v, Centre, window)
  <1>1. /\ far \in (Nat \ {0}) \cup {NotFound}
        /\ near \in (Nat \ {0}) \cup {NotFound}
    <2>1. /\ Centre \in Int /\ SyncWindow \in Nat /\ Centre + window \in Int
          /\ Centre - window > 0 /\ Centre + window - SyncWindow > 0
      BY CentreTyped, TotpAssumption DEF EpochFar
    <2> QED BY <2>1, SearchResult
  <1>2. /\ AutoResync \in BOOLEAN
        /\ count \in Nat
        /\ otp1c \in Nat \cup {Absent}
    BY TotpAssumption DEF TotpTypeOK
  <1>3. LET r == Autosync(v, Centre + window) IN
          /\ r.res = NotFound \/ (r.res \in Nat \ {0} /\ r.res > count)
          /\ r.otp1c \in Nat \cup {Absent}
    <2>1. Autosync(v, Centre + window) =
            CASE ~AutoResync \/ far = NotFound -> [res |-> NotFound, otp1c |-> otp1c]
              [] AutoResync /\ far # NotFound /\ otp1c # Absent ->
                   [res   |-> IF otp1c + 1 = far /\ far > count THEN far ELSE NotFound,
                    otp1c |-> Absent]
              [] AutoResync /\ far # NotFound /\ otp1c = Absent ->
                   [res |-> NotFound, otp1c |-> far]
      BY DEF Autosync
    <2> HIDE DEF far
    <2>2. CASE ~AutoResync \/ far = NotFound
      BY <1>2, <2>1, <2>2
    <2>3. CASE AutoResync /\ far # NotFound /\ otp1c # Absent
      BY <1>1, <1>2, <2>1, <2>3
    <2>4. CASE AutoResync /\ far # NotFound /\ otp1c = Absent
      BY <1>1, <1>2, <2>1, <2>4
    <2> QED BY <1>2, <2>2, <2>3, <2>4
  <1>4. CheckOtp(v, window) =
          CASE near = NotFound -> Autosync(v, Centre + window)
            [] near # NotFound /\ count # 0 /\ near <= count ->
                 [res |-> NotFound, otp1c |-> otp1c]
            [] near # NotFound /\ (count = 0 \/ near > count) ->
                 [res |-> near, otp1c |-> otp1c]
    BY DEF CheckOtp
  <1> HIDE DEF near
  <1>5. CASE near = NotFound
    BY <1>3, <1>4, <1>5
  <1>6. CASE near # NotFound /\ count # 0 /\ near <= count
    BY <1>1, <1>2, <1>4, <1>6
  <1>7. CASE near # NotFound /\ (count = 0 \/ near > count)
    <2>1. near > count
      BY <1>1, <1>2, <1>7
    <2> QED BY <1>1, <1>2, <1>4, <1>7, <2>1
  <1> QED BY <1>1, <1>2, <1>5, <1>6, <1>7

-----------------------------------------------------------------------------
(***************************************************************************)
(* Types and refinement                                                    *)
(***************************************************************************)

\* A call of check_otp lets nothing through and leaves the counter, or lets a
\* counter through that is above the one used last, and stores it or the next.
LEMMA CheckStep ==
  ASSUME TotpTypeOK, NEW v, NEW window \in Nat, NEW inc \in {0, 1}, Check(v, window, inc)
  PROVE  /\ secret' = secret /\ now' = now
         /\ otp1c' \in Nat \cup {Absent}
         /\ \/ UNCHANGED <<count, timeShift, accepted>>
            \/ \E c \in Nat \ {0} :
                 /\ c > count
                 /\ count' \in {c, c + 1}
                 /\ accepted' = Append(accepted, c)
                 /\ timeShift' \in Int
  <1> DEFINE r == CheckOtp(v, window)
  <1>1. EpochFar(window) /\ EpochFar(SyncWindow)
    BY DEF Check
  <1>2. /\ r.res = NotFound \/ (r.res \in Nat \ {0} /\ r.res > count)
        /\ r.otp1c \in Nat \cup {Absent}
    BY <1>1, CheckOtpResult
  <1>3. /\ otp1c' = r.otp1c
        /\ IF r.res # NotFound
             THEN /\ count' = r.res + inc
                  /\ timeShift' = r.res * TimeStep - now
                  /\ accepted' = Append(accepted, r.res)
             ELSE UNCHANGED <<count, timeShift, accepted>>
        /\ UNCHANGED <<secret, now>>
    BY DEF Check
  <1>4. now \in Int /\ TimeStep \in Int
    BY TotpAssumption DEF TotpTypeOK
  <1> HIDE DEF r
  <1>5. CASE r.res = NotFound
    BY <1>2, <1>3, <1>5
  <1>6. CASE r.res # NotFound
    <2>1. r.res \in Nat \ {0} /\ r.res > count
      BY <1>2, <1>6
    <2>2. r.res * TimeStep - now \in Int
      BY <1>4, <2>1
    <2>3. count' \in {r.res, r.res + 1}
      BY <1>3, <1>6, <2>1
    <2> QED BY <1>2, <1>3, <1>6, <2>1, <2>2, <2>3
  <1> QED BY <1>5, <1>6

\* A resynchronisation lets its second counter through, which is above the one
\* used last, and stores the counter behind it.
LEMMA ResyncStep ==
  ASSUME TotpTypeOK, NEW v1, NEW v2, Resync(v1, v2)
  PROVE  /\ UNCHANGED <<secret, otp1c, now>>
         /\ timeShift' \in Int
         /\ \E c \in Nat \ {0} : /\ c > count
                               /\ count' = c + 1
                               /\ accepted' = Append(accepted, c)
  <1> DEFINE res2 == Search(v2, Centre, SyncWindow)
             res1 == Search(v1, Centre - 1, SyncWindow)
  <1>1. /\ Centre - SyncWindow > 1
        /\ res1 # NotFound
        /\ res1 >= count
        /\ res1 + 1 = res2
        /\ count' = res2 + 1
        /\ timeShift' = res2 * TimeStep + (TimeStep \div 2) - now
        /\ accepted' = Append(accepted, res2)
        /\ UNCHANGED <<secret, otp1c, now>>
    BY DEF Resync, EpochFar
  <1>2. Centre \in Int /\ SyncWindow \in Nat /\ Centre - 1 \in Int
    BY CentreTyped, TotpAssumption
  <1>3. Centre - 1 - SyncWindow > 0
    BY <1>1, <1>2
  <1>4. res1 \in (Nat \ {0}) \cup {NotFound}
    BY <1>2, <1>3, SearchResult
  <1>5. /\ count \in Nat
        /\ now \in Int
        /\ TimeStep \in Nat \ {0}
    BY TotpAssumption DEF TotpTypeOK
  <1> HIDE DEF res1, res2
  <1>6. res2 \in Nat \ {0} /\ res2 > count
    BY <1>1, <1>4, <1>5
  <1>7. res2 * TimeStep + (TimeStep \div 2) - now \in Int
    BY <1>5, <1>6
  <1> QED BY <1>1, <1>6, <1>7

LEMMA TypesInit == Init => TotpTypeOK
  BY TotpAssumption DEF Init, TotpTypeOK

LEMMA TypesStep == TotpTypeOK /\ [Next]_totpVars => TotpTypeOK'
  <1> SUFFICES ASSUME TotpTypeOK, [Next]_totpVars PROVE TotpTypeOK'
    OBVIOUS
  <1>1. ASSUME NEW v \in Values, NEW window \in Nat, NEW inc \in {0, 1},
               Check(v, window, inc)
        PROVE  TotpTypeOK'
    <2>1. /\ secret' = secret /\ now' = now
          /\ otp1c' \in Nat \cup {Absent}
          /\ \/ UNCHANGED <<count, timeShift, accepted>>
             \/ \E c \in Nat : /\ count' \in {c, c + 1}
                               /\ accepted' = Append(accepted, c)
                               /\ timeShift' \in Int
      BY <1>1, CheckStep
    <2>2. CASE UNCHANGED <<count, timeShift, accepted>>
      BY <2>1, <2>2 DEF TotpTypeOK
    <2>3. CASE \E c \in Nat : /\ count' \in {c, c + 1}
                              /\ accepted' = Append(accepted, c)
                              /\ timeShift' \in Int
      BY <2>1, <2>3 DEF TotpTypeOK
    <2> QED BY <2>1, <2>2, <2>3
  <1>2. ASSUME NEW v \in Values, PresentOtp(v) \/ FindByOtp(v) \/ FindInList(v)
        PROVE  TotpTypeOK'
    BY <1>1, <1>2, WindowTyped, TotpAssumption DEF PresentOtp, FindByOtp, FindInList
  <1>3. ASSUME NEW v1 \in Values, NEW v2 \in Values, Resync(v1, v2)
        PROVE  TotpTypeOK'
    <2>1. UNCHANGED <<secret, otp1c, now>> /\ timeShift' \in Int
      BY <1>3, ResyncStep
    <2>2. PICK c \in Nat : count' = c + 1 /\ accepted' = Append(accepted, c)
      BY <1>3, ResyncStep
    <2> QED BY <2>1, <2>2 DEF TotpTypeOK
  <1>4. ASSUME NEW key \in Keys, Reenroll(key) PROVE TotpTypeOK'
    BY <1>4 DEF Reenroll, TotpTypeOK
  <1>5. CASE Tick \/ UNCHANGED totpVars
    BY <1>5 DEF Tick, totpVars, TotpTypeOK
  <1> QED BY <1>2, <1>3, <1>4, <1>5 DEF Next

\* The variables of the TOTP token keep their types: no call stores the -1 of a
\* search that found nothing.
THEOREM TotpTypeCorrect == Spec => []TotpTypeOK
  BY TypesInit, TypesStep, PTL DEF Spec

\* Every call is a step OneTimeUse allows: a check or a resynchronisation is an
\* Accept or changes nothing there, a new enrolment is a NewSecret.
LEMMA StepOneTime ==
    TotpTypeOK /\ [Next]_totpVars => [OneTime!AbstractNext]_(OneTime!abstractVars)
  <1> USE DEF OneTime!AbstractNext, OneTime!abstractVars
  <1> SUFFICES ASSUME TotpTypeOK, [Next]_totpVars
               PROVE  OneTime!AbstractNext \/ UNCHANGED OneTime!abstractVars
    OBVIOUS
  <1>1. count \in Nat /\ accepted \in Seq(Nat)
    BY DEF TotpTypeOK
  <1>2. ASSUME NEW c \in Nat \ {0}, c > count, accepted' = Append(accepted, c),
               count' \in {c, c + 1}
        PROVE  OneTime!Accept
    <2>1. accepted' # <<>> /\ accepted'[Len(accepted')] = c
      BY <1>1, <1>2
    <2>2. c >= (IF count = 0 THEN 0 ELSE count + 1)
      BY <1>1, <1>2
    <2>3. (IF count' = 0 THEN 0 ELSE count' + 1) > c
      <3>1. count' = c \/ count' = c + 1
        BY <1>2
      <3>2. c \in Nat /\ c # 0 /\ c + 1 # 0
        OBVIOUS
      <3>3. CASE count' = c
        BY <3>2, <3>3
      <3>4. CASE count' = c + 1
        BY <3>2, <3>4
      <3> QED BY <3>1, <3>3, <3>4
    <2> QED BY <1>2, <2>1, <2>2, <2>3 DEF OneTime!Accept
  <1>3. ASSUME NEW v \in Values, NEW window \in Nat, NEW inc \in {0, 1},
               Check(v, window, inc)
        PROVE  OneTime!Accept \/ UNCHANGED OneTime!abstractVars
    <2>1. CASE UNCHANGED <<count, timeShift, accepted>>
      BY <2>1
    <2>2. CASE \E c \in Nat \ {0} : /\ c > count
                                  /\ count' \in {c, c + 1}
                                  /\ accepted' = Append(accepted, c)
      BY <1>2, <2>2
    <2> QED BY <1>3, <2>1, <2>2, CheckStep
  <1>4. ASSUME NEW v \in Values, PresentOtp(v) \/ FindByOtp(v) \/ FindInList(v)
        PROVE  OneTime!Accept \/ UNCHANGED OneTime!abstractVars
    BY <1>3, <1>4, WindowTyped, TotpAssumption DEF PresentOtp, FindByOtp, FindInList
  <1>5. ASSUME NEW v1 \in Values, NEW v2 \in Values, Resync(v1, v2)
        PROVE  OneTime!Accept
    <2>1. PICK c \in Nat \ {0} : /\ c > count
                                /\ count' = c + 1
                                /\ accepted' = Append(accepted, c)
      BY <1>5, ResyncStep
    <2> QED BY <1>2, <2>1
  <1>6. ASSUME NEW key \in Keys, Reenroll(key) PROVE OneTime!NewSecret
    BY <1>6 DEF Reenroll, OneTime!NewSecret
  <1>7. CASE Tick \/ UNCHANGED totpVars
    BY <1>7 DEF Tick, totpVars
  <1> QED BY <1>4, <1>5, <1>6, <1>7 DEF Next

\* The TOTP token implements the promise of one time use, as the HOTP token does
\* with a counter of another meaning.
THEOREM TotpIsOneTimeUse == Spec => TotpImplementsOneTimeUse
  <1>1. Init => OneTime!AbstractInit
    BY DEF Init, OneTime!AbstractInit
  <1> QED BY <1>1, StepOneTime, TotpTypeCorrect, PTL
      DEF Spec, TotpImplementsOneTimeUse, OneTime!AbstractSpec

-----------------------------------------------------------------------------
(***************************************************************************)
(* The clock of the device                                                 *)
(***************************************************************************)

\* What a whole number of steps leaves over.
LEMMA StepBounds ==
  ASSUME NEW time \in Int
  PROVE  /\ time \div TimeStep \in Int
         /\ (time \div TimeStep) * TimeStep <= time
         /\ time < (time \div TimeStep) * TimeStep + TimeStep
  BY TotpAssumption

\* Fewer seconds make no more steps.
LEMMA FewerSteps ==
  ASSUME NEW m \in Int, NEW n \in Int, m * TimeStep < n * TimeStep
  PROVE  m < n
  <1> SUFFICES ASSUME n <= m PROVE FALSE
    OBVIOUS
  <1>1. TimeStep \in Nat
    BY TotpAssumption
  <1>2. m - n \in Nat /\ (m - n) * TimeStep \in Nat
    BY <1>1
  <1>3. (m - n) * TimeStep = m * TimeStep - n * TimeStep
    BY <1>1
  <1> QED BY <1>1, <1>2, <1>3

\* No two counters of one window have the same value.
ValuesDiffer ==
  \A key \in Keys : \A c, d \in Int :
    /\ Totp(key, c) = Totp(key, d)
    /\ c - d \in -(2 * CheckWindow) .. 2 * CheckWindow
    => c = d

\* After the device passed, the shift is no step behind what its clock was ahead
\* then, and no half step before it.
ShiftTaken ==
  /\ drift \in -MaxDrift .. MaxDrift
  /\ inSync # Never =>
       /\ inSync \in Int
       /\ timeShift - inSync > -TimeStep
       /\ timeShift - inSync <= TimeStep \div 2

\* The history does not change what the token does.
LEMMA DriftIsTotp == DriftSpec => Spec
  <1>1. [DriftNext]_driftVars => [Next]_totpVars
    BY DEF DriftNext, Next, driftVars, totpVars
  <1>2. DriftInit => Init
    BY DEF DriftInit
  <1> QED BY <1>1, <1>2, PTL DEF DriftSpec, Spec

\* So the token keeps its promise however the clock of the device runs.
THEOREM DriftIsOneTimeUse == DriftSpec => TotpImplementsOneTimeUse
  BY DriftIsTotp, TotpIsOneTimeUse, PTL

\* A shift taken when the device is at its counter.
LEMMA ShiftAtPass ==
  ASSUME TotpTypeOK, ShiftTaken, NEW half \in 0 .. TimeStep \div 2,
         timeShift' = DeviceCounter * TimeStep + half - now
  PROVE  timeShift' - drift > -TimeStep /\ timeShift' - drift <= TimeStep \div 2
  <1>1. now \in Int /\ drift \in Int /\ TimeStep \in Nat \ {0} /\ TimeStep \div 2 \in Int
    BY TotpAssumption, DriftAssumption DEF TotpTypeOK, ShiftTaken
  <1> DEFINE seconds == DeviceCounter * TimeStep
  <1>2. seconds <= now + drift /\ now + drift < seconds + TimeStep /\ seconds \in Int
    BY <1>1, StepBounds DEF DeviceCounter
  <1>3. timeShift' = seconds + half - now
    OBVIOUS
  <1> HIDE DEF seconds
  <1> QED BY <1>1, <1>2, <1>3

\* Every step keeps the shift near what the clock of the device was ahead.
LEMMA ShiftStep == TotpTypeOK /\ ShiftTaken /\ [DriftNext]_driftVars => ShiftTaken'
  <1> SUFFICES ASSUME TotpTypeOK, ShiftTaken, [DriftNext]_driftVars PROVE ShiftTaken'
    OBVIOUS
  <1>1. /\ TimeStep \in Nat \ {0} /\ TimeStep \div 2 \in Nat /\ now \in Int
        /\ count \in Nat /\ accepted \in Seq(Nat) /\ drift \in Int
    BY TotpAssumption, DriftAssumption DEF TotpTypeOK, ShiftTaken
  \* The value passes at counter c.
  <1>2. ASSUME NEW c \in Nat, NEW half \in 0 .. TimeStep \div 2, count' # count,
               accepted' = Append(accepted, c),
               timeShift' = c * TimeStep + half - now, Heard, UNCHANGED drift
        PROVE  ShiftTaken'
    <2>1. accepted'[Len(accepted')] = c
      BY <1>1, <1>2
    <2>2. CASE c = DeviceCounter
      <3>1. inSync' = drift
        BY <1>2, <2>1, <2>2 DEF Heard
      <3>2. timeShift' - drift > -TimeStep /\ timeShift' - drift <= TimeStep \div 2
        BY <1>2, <2>2, ShiftAtPass
      <3> QED BY <1>1, <1>2, <3>1, <3>2 DEF ShiftTaken
    <2>3. CASE c # DeviceCounter
      <3>1. inSync' = Never
        BY <1>2, <2>1, <2>3 DEF Heard
      <3> QED BY <1>2, <3>1 DEF ShiftTaken, Never
    <2> QED BY <2>2, <2>3
  <1>3. ASSUME UNCHANGED <<timeShift, drift>>, inSync' \in {inSync, Never} PROVE ShiftTaken'
    BY <1>3 DEF ShiftTaken, Never
  <1>4. ASSUME NEW v, NEW window \in Nat, NEW inc \in {0, 1}, Check(v, window, inc),
               Heard, UNCHANGED drift
        PROVE  ShiftTaken'
    <2> DEFINE r == CheckOtp(v, window)
    <2>1. r.res = NotFound \/ (r.res \in Nat \ {0} /\ r.res > count)
      BY <1>4, CheckOtpResult DEF Check
    <2>2. IF r.res # NotFound
            THEN /\ count' = r.res + inc
                 /\ timeShift' = r.res * TimeStep - now
                 /\ accepted' = Append(accepted, r.res)
            ELSE UNCHANGED <<count, timeShift, accepted>>
      BY <1>4 DEF Check
    <2> HIDE DEF r
    <2>3. CASE r.res = NotFound
      BY <1>3, <1>4, <2>2, <2>3 DEF Heard
    <2>4. CASE r.res # NotFound
      <3>1. count' # count /\ r.res \in Nat /\ accepted' = Append(accepted, r.res)
        BY <1>1, <2>1, <2>2, <2>4
      <3>2. 0 \in 0 .. TimeStep \div 2 /\ timeShift' = r.res * TimeStep + 0 - now
        BY <1>1, <2>2, <2>4, <3>1
      <3> QED BY <1>2, <1>4, <3>1, <3>2
    <2> QED BY <2>3, <2>4
  <1>5. ASSUME NEW v \in Values, PresentOtp(v) \/ FindByOtp(v) \/ FindInList(v),
               Heard, UNCHANGED drift
        PROVE  ShiftTaken'
    BY <1>4, <1>5, WindowTyped, TotpAssumption DEF PresentOtp, FindByOtp, FindInList
  <1>6. ASSUME NEW v1 \in Values, NEW v2 \in Values, Resync(v1, v2), Heard, UNCHANGED drift
        PROVE  ShiftTaken'
    <2> DEFINE res2 == Search(v2, Centre, SyncWindow)
    <2>1. PICK c \in Nat \ {0} : /\ c > count
                                /\ count' = c + 1
                                /\ accepted' = Append(accepted, c)
      BY <1>6, ResyncStep
    <2>2. accepted' = Append(accepted, res2) /\ count' = res2 + 1
          /\ timeShift' = res2 * TimeStep + (TimeStep \div 2) - now
      BY <1>6 DEF Resync
    <2> HIDE DEF res2
    <2>3. c = res2
      <3>1. Append(accepted, c)[Len(accepted) + 1] = c
        BY <1>1
      <3>2. Append(accepted, res2)[Len(accepted) + 1] = res2
        BY <1>1
      <3> QED BY <2>1, <2>2, <3>1, <3>2
    <2>4. count' # count /\ TimeStep \div 2 \in 0 .. TimeStep \div 2
      BY <1>1, <2>1
    <2> QED BY <1>2, <1>6, <2>1, <2>2, <2>3, <2>4
  <1>7. ASSUME NEW key \in Keys, Reenroll(key), inSync' = Never, UNCHANGED drift
        PROVE  ShiftTaken'
    BY <1>3, <1>7 DEF Reenroll
  <1>8. CASE Tick /\ UNCHANGED <<inSync, drift>>
    BY <1>3, <1>8 DEF Tick
  <1>9. CASE /\ drift' \in {drift - 1, drift + 1} \cap (-MaxDrift .. MaxDrift)
             /\ UNCHANGED <<totpVars, inSync>>
    BY <1>9 DEF ShiftTaken, totpVars, Never
  <1>10. CASE UNCHANGED driftVars
    BY <1>3, <1>10 DEF driftVars, totpVars
  <1> QED BY <1>5, <1>6, <1>7, <1>8, <1>9, <1>10 DEF DriftNext

\* As long as the clocks moved apart by no more than the tolerance, the counter of
\* the device is in the window around the counter the server expects.
LEMMA DeviceInWindow ==
  ASSUME TotpTypeOK, ShiftTaken, inSync # Never, drift - inSync \in -Tolerance .. Tolerance
  PROVE  /\ DeviceCounter \in Int
         /\ DeviceCounter < Centre + CheckWindow /\ DeviceCounter > Centre - CheckWindow
  <1>1. /\ TimeStep \in Nat \ {0} /\ now \in Int /\ timeShift \in Int /\ drift \in Int
        /\ inSync \in Int /\ CheckWindow \in Nat /\ Centre \in Int
        /\ timeShift - inSync > -TimeStep /\ timeShift - inSync <= TimeStep \div 2
        /\ TimeStep \div 2 \in Int /\ TimeStep \div 2 <= TimeStep
    BY TotpAssumption, DriftAssumption, WindowTyped, CentreTyped DEF TotpTypeOK, ShiftTaken
  <1> DEFINE device == DeviceCounter * TimeStep
             server == Centre * TimeStep
             window == CheckWindow * TimeStep
  <1>2. /\ DeviceCounter \in Int /\ device \in Int
        /\ device <= now + drift /\ now + drift < device + TimeStep
    BY <1>1, StepBounds DEF DeviceCounter
  <1>3. /\ server \in Int
        /\ server <= now + timeShift /\ now + timeShift < server + TimeStep
    BY <1>1, StepBounds DEF Centre
  <1>4. window \in Int /\ Tolerance = window - 2 * TimeStep
    BY <1>1 DEF Tolerance
  <1>5. device < server + window /\ server - window < device
    <2> HIDE DEF device, server, window
    <2>1. drift - inSync <= window - 2 * TimeStep /\ drift - inSync >= -(window - 2 * TimeStep)
      BY <1>1, <1>4
    <2> QED BY <1>1, <1>2, <1>3, <1>4, <2>1
  <1>6. (Centre + CheckWindow) * TimeStep = server + window
        /\ (Centre - CheckWindow) * TimeStep = server - window
    BY <1>1
  <1>7. DeviceCounter < Centre + CheckWindow
    BY <1>1, <1>2, <1>5, <1>6, FewerSteps
  <1>8. Centre - CheckWindow < DeviceCounter
    BY <1>1, <1>2, <1>5, <1>6, FewerSteps
  <1> QED BY <1>1, <1>2, <1>7, <1>8

\* The value of a counter of the window is found at that counter.
LEMMA SearchFinds ==
  ASSUME ValuesDiffer, secret \in Keys, Centre \in Int, NEW c \in Int,
         c < Centre + CheckWindow, c > Centre - CheckWindow
  PROVE  Search(Totp(secret, c), Centre, CheckWindow) = c
  <1> DEFINE matching == Matching(Totp(secret, c), Centre, CheckWindow)
  <1>1. CheckWindow \in Nat
    BY WindowTyped
  <1>2. c \in matching
    BY <1>1 DEF Matching
  <1>3. ASSUME NEW d \in matching PROVE d = c
    <2>1. d \in (Centre - CheckWindow) .. (Centre + CheckWindow - 1)
          /\ Totp(secret, d) = Totp(secret, c)
      BY DEF Matching
    <2>2. d \in Int /\ d - c \in -(2 * CheckWindow) .. 2 * CheckWindow
      BY <1>1, <2>1
    <2> QED BY <2>1, <2>2 DEF ValuesDiffer
  <1>4. matching = {c}
    BY <1>2, <1>3
  <1>5. Search(Totp(secret, c), Centre, CheckWindow) = CHOOSE e \in matching : \A d \in matching : e <= d
    BY <1>2 DEF Search
  <1> HIDE DEF matching
  <1>6. (CHOOSE e \in matching : \A d \in matching : e <= d) = c
    BY <1>4
  <1> QED BY <1>5, <1>6 DEF matching

\* When the values of a window differ, the value on a device that passed before
\* passes, for its own counter, as long as the clocks moved apart by no more than
\* the tolerance since: whatever came in between, and however far they are apart.
THEOREM DevicePasses == ValuesDiffer /\ DriftSpec => []SyncedDevicePasses
  <1> SUFFICES ASSUME ValuesDiffer PROVE DriftSpec => []SyncedDevicePasses
    OBVIOUS
  <1>1. DriftInit => Init /\ ShiftTaken
    BY DriftAssumption DEF DriftInit, ShiftTaken, Never
  <1>2. TotpTypeOK /\ ShiftTaken => SyncedDevicePasses
    <2> SUFFICES ASSUME TotpTypeOK, ShiftTaken, inSync # Never,
                        drift - inSync \in -Tolerance .. Tolerance, DeviceCounter > count
                 PROVE  CheckOtp(DeviceValue, CheckWindow).res = DeviceCounter
      BY DEF SyncedDevicePasses
    <2>1. /\ DeviceCounter \in Int
          /\ DeviceCounter < Centre + CheckWindow /\ DeviceCounter > Centre - CheckWindow
      BY DeviceInWindow
    <2>2. secret \in Keys /\ Centre \in Int /\ count \in Nat
      BY CentreTyped DEF TotpTypeOK
    <2>3. Search(DeviceValue, Centre, CheckWindow) = DeviceCounter
      BY <2>1, <2>2, SearchFinds DEF DeviceValue
    <2>4. DeviceCounter # NotFound /\ ~(DeviceCounter <= count)
      BY <2>1, <2>2 DEF NotFound
    <2> QED BY <2>3, <2>4 DEF CheckOtp
  <1>3. DriftSpec => []TotpTypeOK
    BY DriftIsTotp, TotpTypeCorrect, PTL
  <1> QED BY <1>1, <1>2, <1>3, ShiftStep, PTL DEF DriftSpec
===============================================================================
