------------------------------- MODULE TotpToken -------------------------------
(***************************************************************************)
(* The time based token (TOTP) of privacyIDEA, one request at a time:      *)
(* src/privacyidea/privacyidea/lib/tokens/totptoken.py with the window of  *)
(* HmacOtp.checkOtp (lib/tokens/HMAC.py).  A counter is a time step.  The  *)
(* row keeps the counter used last, unlike that of an HOTP token, and the  *)
(* tokeninfo how far the clock of the device is from the server's          *)
(* (timeShift) and the first value of an automatic resynchronisation       *)
(* (otp1c).  Time is in whole seconds.                                     *)
(***************************************************************************)
EXTENDS Integers, Sequences

CONSTANTS
    Keys,          \* the secrets a token can be enrolled with
    Values,        \* the OTP values a client can send
    Totp(_, _),    \* Totp(key, counter): the OTP value
    TimeStep,      \* tokeninfo "timeStep"
    TimeWindow,    \* tokeninfo "timeWindow", in seconds
    SyncWindow,    \* token.sync_window, in steps
    FindWindow,    \* the window of get_serial_by_otp, in steps
    AutoResync,    \* the AutoResync setting
    StartTime,     \* the time of the enrolment
    MaxTime        \* bound of the clock

ASSUME TotpAssumption ==
    /\ Keys # {}
    /\ TimeStep \in Nat \ {0}
    /\ TimeWindow \in Nat
    /\ SyncWindow \in Nat
    /\ FindWindow \in Nat
    /\ AutoResync \in BOOLEAN
    /\ StartTime \in Nat
    /\ MaxTime \in Nat

VARIABLES
    secret,      \* token.key_enc
    count,       \* token.count: the counter used last, 0 for none
    timeShift,   \* tokeninfo "timeShift", in seconds
    otp1c,       \* tokeninfo "otp1c"
    now,         \* time.time()
    accepted     \* history: the counters let through since set_otpkey

totpVars == <<secret, count, timeShift, otp1c, now, accepted>>

NotFound == -1
Absent == -1

CheckWindow == TimeWindow \div TimeStep

-----------------------------------------------------------------------------
(* The calls that search an OTP value *)

\* The time step of the device, as far as the server knows.
Centre == (now + timeShift) \div TimeStep

\* The symmetric window of HmacOtp.checkOtp, whose end is not part of it.
Matching(v, centre, window) ==
    {c \in (centre - window) .. (centre + window - 1) : Totp(secret, c) = v}

\* HmacOtp.checkOtp with symetric set: the first counter that gives this value.
\* A search that finds nothing leaves the counter of the HmacOtp object at the end
\* of its window, which is centre + window.
Search(v, centre, window) ==
    LET matching == Matching(v, centre, window) IN
      IF matching = {} THEN NotFound
                       ELSE CHOOSE c \in matching : \A d \in matching : c <= d

\* The clocks never come near 1970: no window starts before the first counter.
EpochFar(window) == Centre - window > 1

\* TotpTokenClass._autosync with an HmacOtp object that stands at centre: the
\* counter it returns and the otp1c it leaves.  A first value is remembered without
\* a time limit.
Autosync(v, centre) ==
    LET res == Search(v, centre, SyncWindow) IN
      CASE ~AutoResync \/ res = NotFound -> [res |-> NotFound, otp1c |-> otp1c]
        [] AutoResync /\ res # NotFound /\ otp1c # Absent ->
             [res   |-> IF otp1c + 1 = res /\ res > count THEN res ELSE NotFound,
              otp1c |-> Absent]
        [] AutoResync /\ res # NotFound /\ otp1c = Absent ->
             [res |-> NotFound, otp1c |-> res]

\* Mutant: only counters before the last one count as used.
CheckOtpLastAgain(v, window) ==
    LET res == Search(v, Centre, window) IN
      CASE res = NotFound -> Autosync(v, Centre + window)
        [] res # NotFound /\ count # 0 /\ res < count ->
             [res |-> NotFound, otp1c |-> otp1c]
        [] res # NotFound /\ (count = 0 \/ res >= count) ->
             [res |-> res, otp1c |-> otp1c]

\* What check_otp finds.  A value that was used before, or one that collides
\* with it, is refused without an automatic resynchronisation, which goes on with
\* the HmacOtp object of the failed search.
CheckOtp(v, window) ==
    LET res == Search(v, Centre, window) IN
      CASE res = NotFound -> Autosync(v, Centre + window)
        [] res # NotFound /\ count # 0 /\ res <= count ->
             [res |-> NotFound, otp1c |-> otp1c]
        [] res # NotFound /\ (count = 0 \/ res > count) ->
             [res |-> res, otp1c |-> otp1c]

-----------------------------------------------------------------------------
Init ==
    /\ secret \in Keys
    /\ count = 0
    /\ timeShift = 0
    /\ otp1c = Absent
    /\ now = StartTime
    /\ accepted = <<>>

\* Mutant: the shift is taken from the shifted time.
CheckShiftsAgain(v, window, inc) ==
    LET r == CheckOtp(v, window) IN
      /\ EpochFar(window)
      /\ EpochFar(SyncWindow)
      /\ otp1c' = r.otp1c
      /\ IF r.res # NotFound
           THEN /\ count' = r.res + inc
                /\ timeShift' = r.res * TimeStep - (now + timeShift)
                /\ accepted' = Append(accepted, r.res)
           ELSE UNCHANGED <<count, timeShift, accepted>>
      /\ UNCHANGED <<secret, now>>

\* Mutant: -1 is taken for a match, as a truth value it is one.
CheckTruthTest(v, window, inc) ==
    LET r == CheckOtp(v, window) IN
      /\ EpochFar(window)
      /\ EpochFar(SyncWindow)
      /\ otp1c' = r.otp1c
      /\ count' = r.res + inc
      /\ timeShift' = r.res * TimeStep - now
      /\ accepted' = Append(accepted, r.res)
      /\ UNCHANGED <<secret, now>>

\* TotpTokenClass.check_otp: a match is stored as the counter used last, and the
\* time it stands for tells the new shift.  The caller adds inc to the counter.
Check(v, window, inc) ==
    LET r == CheckOtp(v, window) IN
      /\ EpochFar(window)
      /\ EpochFar(SyncWindow)
      /\ otp1c' = r.otp1c
      /\ IF r.res # NotFound
           THEN /\ count' = r.res + inc
                /\ timeShift' = r.res * TimeStep - now
                /\ accepted' = Append(accepted, r.res)
           ELSE UNCHANGED <<count, timeShift, accepted>>
      /\ UNCHANGED <<secret, now>>

\* check_otp as an authentication calls it.
PresentOtp(v) == Check(v, CheckWindow, 0)

\* check_otp_exist with its default inc_counter, as get_token_by_otp calls it: the
\* value is used up, and inc_otp_counter gives up the one after it too.
FindByOtp(v) == Check(v, FindWindow, 1)

\* check_otp_exist as get_serial_by_otp_list calls it: inc_counter=False does not
\* keep check_otp from using the value up.
FindInList(v) == Check(v, FindWindow, 0)

\* resync with two OTP values: the first is searched one step earlier and may be
\* the value used last, the second is let through, and one more is given up.
Resync(v1, v2) ==
    LET res2 == Search(v2, Centre, SyncWindow)
        res1 == Search(v1, Centre - 1, SyncWindow)
    IN  /\ EpochFar(SyncWindow)
        /\ res1 # NotFound
        /\ res1 >= count
        /\ res1 + 1 = res2
        /\ count' = res2 + 1
        /\ timeShift' = res2 * TimeStep + (TimeStep \div 2) - now
        /\ accepted' = Append(accepted, res2)
        /\ UNCHANGED <<secret, otp1c, now>>

\* init_token on an existing serial; the tokeninfo stays.
Reenroll(key) ==
    /\ secret' = key
    /\ count' = 0
    /\ accepted' = <<>>
    /\ UNCHANGED <<timeShift, otp1c, now>>

Tick ==
    /\ now < MaxTime
    /\ now' = now + 1
    /\ UNCHANGED <<secret, count, timeShift, otp1c, accepted>>

Next ==
    \/ \E v \in Values : PresentOtp(v) \/ FindByOtp(v) \/ FindInList(v)
    \/ \E v1, v2 \in Values : Resync(v1, v2)
    \/ \E key \in Keys : Reenroll(key)
    \/ Tick

Spec == Init /\ [][Next]_totpVars

-----------------------------------------------------------------------------
(* Properties *)

TotpTypeOK ==
    /\ secret \in Keys
    /\ count \in Nat
    /\ timeShift \in Int
    /\ otp1c \in Nat \cup {Absent}
    /\ now \in Nat
    /\ accepted \in Seq(Nat)

\* The TOTP token keeps the promise of OneTimeUse: the smallest counter it may
\* still let through is the one after the counter used last.  The first value of
\* a manual resynchronisation does not count as let through.
OneTime == INSTANCE OneTimeUse WITH next <- IF count = 0 THEN 0 ELSE count + 1
TotpImplementsOneTimeUse == OneTime!AbstractSpec

\* Neither of the two values of a resynchronisation was let through before: "a
\* previous OTP value was used again" (resync, at the comparison with oCount).
ResyncValuesFresh ==
    [][\A v1, v2 \in Values :
         Resync(v1, v2) =>
           \A i \in 1 .. Len(accepted) : accepted[i] < accepted'[Len(accepted')] - 1]_totpVars
===============================================================================
