------------------------------- MODULE HotpToken -------------------------------
(***************************************************************************)
(* The event based token (HOTP) of privacyIDEA as one request at a time    *)
(* sees it: src/privacyidea/privacyidea/lib/tokens/hotptoken.py with the   *)
(* counter search of lib/tokens/HMAC.py and the counter operations of      *)
(* lib/tokenclass.py.  The state is the token's row (secret, count,        *)
(* locked) and the two tokeninfo entries of the automatic                  *)
(* resynchronisation (otp1c, dueDate).  An OTP value is an opaque value;   *)
(* the truncated HMAC is the constant operator Hotp, which need not be     *)
(* injective.  Each action is one whole call.                              *)
(***************************************************************************)
EXTENDS Integers, Sequences, FiniteSets

CONSTANTS
    Keys,          \* the secrets a token can be enrolled with
    Values,        \* the OTP values a client can send
    Hotp(_, _),    \* Hotp(key, counter): the OTP value
    CountWindow,   \* token.count_window
    SyncWindow,    \* token.sync_window
    FindWindow,    \* the window of get_serial_by_otp
    SyncTimeout,   \* AutoResyncTimeout
    AutoResync,    \* the AutoResync setting
    MaxTime        \* bound of the clock

ASSUME HotpAssumption ==
    /\ Keys # {}
    /\ CountWindow \in Nat
    /\ SyncWindow \in Nat
    /\ FindWindow \in Nat
    /\ SyncTimeout \in Nat
    /\ AutoResync \in BOOLEAN
    /\ MaxTime \in Nat

VARIABLES
    secret,     \* token.key_enc
    count,      \* token.count: the next counter to look at
    otp1c,      \* tokeninfo "otp1c": first OTP of an automatic resync
    dueDate,    \* tokeninfo "dueDate" of that first OTP
    locked,     \* token.locked
    now,        \* int(time.time())
    accepted    \* history: the counters let through since set_otpkey

hotpVars == <<secret, count, otp1c, dueDate, locked, now, accepted>>

NotFound == -1     \* check_otp and checkOtp return -1
Absent   == -1     \* the tokeninfo entry does not exist

-----------------------------------------------------------------------------
(* The calls that search an OTP value *)

Matching(key, v, first, window) ==
    {c \in first .. (first + window - 1) : Hotp(key, c) = v}

\* HmacOtp.checkOtp: the first counter of the window that gives this value.  It
\* generates with inc_counter=True, so a search that finds nothing leaves the
\* counter of the HmacOtp object at the end of the window.
CheckOtpWindow(key, v, first, window) ==
    LET matching == Matching(key, v, first, window) IN
      IF matching = {} THEN NotFound
                       ELSE CHOOSE c \in matching : \A d \in matching : c <= d

\* Mutant: the due date of the first value is not looked at.
AutosyncIgnoresDueDate(v, first) ==
    LET res == CheckOtpWindow(secret, v, first, SyncWindow) IN
      CASE ~AutoResync \/ res = NotFound ->
             [res |-> NotFound, otp1c |-> otp1c, dueDate |-> dueDate]
        [] AutoResync /\ res # NotFound /\ otp1c # Absent ->
             [res     |-> IF otp1c + 1 = res THEN res ELSE NotFound,
              otp1c   |-> Absent,
              dueDate |-> Absent]
        [] AutoResync /\ res # NotFound /\ otp1c = Absent ->
             [res |-> NotFound, otp1c |-> res, dueDate |-> now + SyncTimeout]

\* What HotpTokenClass._autosync returns and leaves in the tokeninfo when the
\* HmacOtp object it searches with stands at counter first.
Autosync(v, first) ==
    LET res == CheckOtpWindow(secret, v, first, SyncWindow)
        second == otp1c + 1 = res /\ now < dueDate
    IN  CASE ~AutoResync \/ res = NotFound ->
               [res |-> NotFound, otp1c |-> otp1c, dueDate |-> dueDate]
          [] AutoResync /\ res # NotFound /\ otp1c # Absent ->
               [res     |-> IF second THEN res ELSE NotFound,
                otp1c   |-> Absent,
                dueDate |-> Absent]
          [] AutoResync /\ res # NotFound /\ otp1c = Absent ->
               [res |-> NotFound, otp1c |-> res, dueDate |-> now + SyncTimeout]

\* HotpTokenClass.check_otp up to the new counter, which is for the caller.  The
\* resynchronisation goes on with the same HmacOtp object, behind the window.
CheckOtp(v, first, window) ==
    LET res == CheckOtpWindow(secret, v, first, window) IN
      IF res # NotFound
        THEN [res |-> res, otp1c |-> otp1c, dueDate |-> dueDate]
        ELSE Autosync(v, first + window)

\* Mutant: the given counter is forgotten, only the increment is added.
IncOtpCounterIgnoresCounter(counter, increment) == count + increment

\* TokenClass.inc_otp_counter: the counter is only set if it is not 0.
IncOtpCounter(counter, increment) ==
    (IF counter # 0 THEN counter ELSE count) + increment

-----------------------------------------------------------------------------
Init ==
    /\ secret \in Keys
    /\ count = 0
    /\ otp1c = Absent
    /\ dueDate = Absent
    /\ locked = FALSE
    /\ now = 0
    /\ accepted = <<>>

\* Mutant: -1 is taken for a match, as a truth value it is one.
PresentOtpTruthTest(v) ==
    LET r == CheckOtp(v, count, CountWindow) IN
      /\ ~locked
      /\ otp1c' = r.otp1c
      /\ dueDate' = r.dueDate
      /\ count' = r.res + 1
      /\ accepted' = Append(accepted, r.res)
      /\ UNCHANGED <<secret, locked, now>>

\* Mutant: the matched counter itself is stored, not the next one.
PresentOtpKeepsCounter(v) ==
    LET r == CheckOtp(v, count, CountWindow) IN
      /\ ~locked
      /\ otp1c' = r.otp1c
      /\ dueDate' = r.dueDate
      /\ count' = IF r.res # NotFound THEN r.res ELSE count
      /\ accepted' = IF r.res # NotFound THEN Append(accepted, r.res) ELSE accepted
      /\ UNCHANGED <<secret, locked, now>>

\* check_otp as an authentication calls it.  A locked token raises instead.
PresentOtp(v) ==
    LET r == CheckOtp(v, count, CountWindow) IN
      /\ ~locked
      /\ otp1c' = r.otp1c
      /\ dueDate' = r.dueDate
      /\ count' = IF r.res # NotFound THEN r.res + 1 ELSE count
      /\ accepted' = IF r.res # NotFound THEN Append(accepted, r.res) ELSE accepted
      /\ UNCHANGED <<secret, locked, now>>

\* check_otp_exist with its default inc_counter: finding the token an OTP value
\* belongs to uses the value up.  On a locked token inc_otp_counter raises.
FindByOtp(v) ==
    LET res == CheckOtpWindow(secret, v, count, FindWindow) IN
      /\ ~locked
      /\ res # NotFound
      /\ count' = IncOtpCounter(res, 1)
      /\ accepted' = Append(accepted, res)
      /\ UNCHANGED <<secret, otp1c, dueDate, locked, now>>

\* resync with two OTP values the user reads off the device.
Resync(v1, v2) ==
    LET counter == CheckOtpWindow(secret, v1, count, SyncWindow) IN
      /\ ~locked
      /\ counter # NotFound
      /\ Hotp(secret, counter + 1) = v2
      /\ count' = IncOtpCounter(counter + 1, 1)
      /\ accepted' = Append(Append(accepted, counter), counter + 1)
      /\ UNCHANGED <<secret, otp1c, dueDate, locked, now>>

\* init_token on an existing serial that update does not refuse: a new otpkey is
\* set.  The tokeninfo entries of a resynchronisation that was under way stay.
\* On a locked token add_init_details raises before.
Reenroll(key) ==
    /\ ~locked
    /\ secret' = key
    /\ count' = 0
    /\ accepted' = <<>>
    /\ UNCHANGED <<otp1c, dueDate, locked, now>>

Revoke ==
    /\ locked' = TRUE
    /\ UNCHANGED <<secret, count, otp1c, dueDate, now, accepted>>

Tick ==
    /\ now < MaxTime
    /\ now' = now + 1
    /\ UNCHANGED <<secret, count, otp1c, dueDate, locked, accepted>>

Next ==
    \/ \E v \in Values : PresentOtp(v)
    \/ \E v \in Values : FindByOtp(v)
    \/ \E v1, v2 \in Values : Resync(v1, v2)
    \/ \E key \in Keys : Reenroll(key)
    \/ Revoke
    \/ Tick

Spec == Init /\ [][Next]_hotpVars

-----------------------------------------------------------------------------
(* Properties *)

TypeOK ==
    /\ secret \in Keys
    /\ count \in Nat
    /\ otp1c \in Nat \cup {Absent}
    /\ dueDate \in Nat \cup {Absent}
    /\ locked \in BOOLEAN
    /\ now \in Nat
    /\ accepted \in Seq(Nat)

\* Everything that was let through lies behind the counter of the token, in the
\* order it was let through: with it, no search starting at count can find a
\* used counter again (check_otp, check_otp_exist and resync all start there).
UsedBehindCount ==
    /\ \A i \in 1 .. Len(accepted) : accepted[i] < count
    /\ \A i, j \in 1 .. Len(accepted) : i < j => accepted[i] < accepted[j]

\* The HOTP token keeps the promise of OneTimeUse, its counter being the
\* smallest acceptable one.
OneTime == INSTANCE OneTimeUse WITH next <- count
ImplementsOneTimeUse == OneTime!AbstractSpec
===============================================================================
