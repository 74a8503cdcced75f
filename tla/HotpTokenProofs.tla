---------------------------- MODULE HotpTokenProofs ----------------------------
(***************************************************************************)
(* Proofs about HotpToken for every OTP function, every window and every   *)
(* timeout.  The argument: the searches return nothing below the counter   *)
(* they start at (CheckOtpWindowResult, CheckOtpResult), so every call     *)
(* either lets nothing through and does not set the counter back, or lets  *)
(* a counter through that was not passed yet and passes it.  The last part *)
(* is about HotpAutosync: what the automatic resynchronisation asks for.   *)
(***************************************************************************)
EXTENDS HotpAutosync, WellFoundedInduction, TLAPS

(***************************************************************************)
(* What the searches return                                                *)
(***************************************************************************)

\* A set of counters that is not empty has a smallest one: the order of the
\* counters is well founded.
LEMMA LeastNatural ==
    ASSUME NEW S, S \subseteq Nat, S # {}
    PROVE  \E c \in S : \A d \in S : c <= d
<1>1. PICK R : /\ IsWellFoundedOn(R, Nat)
               /\ \A x, y \in Nat : <<x, y>> \in R <=> x < y
  <2>1. \A x, y \in Nat : <<x, y>> \in OpToRel(<, Nat) <=> x < y
    BY DEF OpToRel
  <2>2. QED BY <2>1, NatLessThanWellFounded
<1>2. PICK c \in S : \A d \in S : ~ (<<d, c>> \in R)
  <2>1. IsWellFoundedOn(R, Nat)
    BY <1>1
  <2>2. QED BY <2>1, WFMin, Zenon
<1>3. \A d \in S : d \in Nat /\ c \in Nat /\ ~ (d < c)
  BY <1>1, <1>2
<1>4. QED BY <1>3

\* HmacOtp.checkOtp returns -1 or a counter of its window that gives the value.
LEMMA CheckOtpWindowResult ==
    ASSUME NEW key, NEW v, NEW first \in Nat, NEW window \in Nat
    PROVE  LET r == CheckOtpWindow(key, v, first, window) IN
             r = NotFound \/ (r \in Nat /\ first <= r /\ r < first + window /\ Hotp(key, r) = v)
<1> DEFINE matching == Matching(key, v, first, window)
<1>1. CASE matching = {}
  BY <1>1 DEF CheckOtpWindow
<1>2. CASE matching # {}
  <2>1. matching \subseteq Nat
    BY DEF Matching
  <2>2. \E c \in matching : \A d \in matching : c <= d
    <3> HIDE DEF matching
    <3> QED BY <1>2, <2>1, LeastNatural
  <2>3. CheckOtpWindow(key, v, first, window) \in matching
    BY <1>2, <2>2 DEF CheckOtpWindow
  <2>4. QED BY <2>3, <2>1 DEF Matching
<1>3. QED BY <1>1, <1>2

\* check_otp, its automatic resynchronisation included, returns -1 or a counter
\* that is not below the one it starts at, and leaves the tokeninfo well typed.
LEMMA CheckOtpResult ==
    ASSUME TypeOK, NEW v, NEW first \in Nat, NEW window \in Nat
    PROVE  LET r == CheckOtp(v, first, window) IN
             /\ r.res = NotFound \/ (r.res \in Nat /\ first <= r.res)
             /\ r.otp1c \in Nat \cup {Absent}
             /\ r.dueDate \in Nat \cup {Absent}
<1> DEFINE near == CheckOtpWindow(secret, v, first, window)
           far  == CheckOtpWindow(secret, v, first + window, SyncWindow)
<1>1. near = NotFound \/ (near \in Nat /\ first <= near)
  BY CheckOtpWindowResult
<1>2. far = NotFound \/ (far \in Nat /\ first <= far)
  <2>1. first + window \in Nat /\ SyncWindow \in Nat
    BY HotpAssumption
  <2>2. far = NotFound \/ (far \in Nat /\ first + window <= far)
    BY <2>1, CheckOtpWindowResult
  <2> HIDE DEF far
  <2>3. QED BY <2>2
<1>3. CASE near # NotFound
  BY <1>1, <1>3 DEF CheckOtp, TypeOK
<1>4. CASE near = NotFound
  <2>1. CheckOtp(v, first, window) = Autosync(v, first + window)
    BY <1>4 DEF CheckOtp
  <2>2. CASE ~AutoResync \/ far = NotFound
    <3>1. Autosync(v, first + window) =
            [res |-> NotFound, otp1c |-> otp1c, dueDate |-> dueDate]
      BY <2>2 DEF Autosync
    <3>2. QED BY <2>1, <3>1 DEF TypeOK
  <2>3. CASE AutoResync /\ far # NotFound /\ otp1c # Absent
    <3>1. Autosync(v, first + window) =
            [res     |-> IF otp1c + 1 = far /\ now < dueDate THEN far ELSE NotFound,
             otp1c   |-> Absent,
             dueDate |-> Absent]
      BY <2>3 DEF Autosync
    <3>2. QED BY <2>1, <2>3, <3>1, <1>2
  <2>4. CASE AutoResync /\ far # NotFound /\ otp1c = Absent
    <3>1. Autosync(v, first + window) =
            [res |-> NotFound, otp1c |-> far, dueDate |-> now + SyncTimeout]
      BY <2>4 DEF Autosync
    <3>2. QED BY <2>1, <2>4, <3>1, <1>2, HotpAssumption DEF TypeOK, HotpAssumption
  <2>5. QED BY <2>2, <2>3, <2>4, HotpAssumption DEF HotpAssumption
<1>5. QED BY <1>3, <1>4

-----------------------------------------------------------------------------
(***************************************************************************)
(* The inductive invariant                                                 *)
(***************************************************************************)

HotpInv == TypeOK /\ UsedBehindCount

\* Appending a counter that was not passed yet, and passing it, keeps the order.
LEMMA AppendKeepsOrder ==
    ASSUME NEW seq \in Seq(Nat), NEW next \in Nat, NEW c \in Nat, NEW later \in Nat,
           \A i \in 1 .. Len(seq) : seq[i] < next,
           \A i, j \in 1 .. Len(seq) : i < j => seq[i] < seq[j],
           next <= c, c < later
    PROVE  /\ Append(seq, c) \in Seq(Nat)
           /\ \A i \in 1 .. Len(Append(seq, c)) : Append(seq, c)[i] < later
           /\ \A i, j \in 1 .. Len(Append(seq, c)) :
                i < j => Append(seq, c)[i] < Append(seq, c)[j]
<1> DEFINE new == Append(seq, c)
<1>1. new \in Seq(Nat) /\ Len(seq) \in Nat /\ Len(new) = Len(seq) + 1
  OBVIOUS
<1>2. \A i \in 1 .. Len(seq) : new[i] = seq[i] /\ seq[i] \in Nat
  OBVIOUS
<1>3. new[Len(seq) + 1] = c
  OBVIOUS
<1> HIDE DEF new
<1>4. \A i \in 1 .. Len(new) : i \in 1 .. Len(seq) \/ i = Len(seq) + 1
  BY <1>1
<1>5. ASSUME NEW i \in 1 .. Len(new)
      PROVE  new[i] < later
  <2>1. CASE i \in 1 .. Len(seq)
    BY <2>1, <1>2
  <2>2. CASE i = Len(seq) + 1
    BY <2>2, <1>3
  <2>3. QED BY <2>1, <2>2, <1>4
<1>6. ASSUME NEW i \in 1 .. Len(new), NEW j \in 1 .. Len(new), i < j
      PROVE  new[i] < new[j]
  <2>1. i \in 1 .. Len(seq)
    BY <1>1, <1>4, <1>6
  <2>2. CASE j \in 1 .. Len(seq)
    BY <2>1, <2>2, <1>2, <1>6
  <2>3. CASE j = Len(seq) + 1
    BY <2>1, <2>3, <1>2, <1>3
  <2>4. QED BY <2>2, <2>3, <1>4
<1>7. QED BY <1>1, <1>5, <1>6 DEF new

\* A token just enrolled has let nothing through.
LEMMA HotpInvInit == Init => HotpInv
<1>1. ASSUME Init PROVE TypeOK
  <2>1. locked \in BOOLEAN
    BY <1>1, Zenon DEF Init
  <2>2. accepted \in Seq(Nat)
    BY <1>1 DEF Init
  <2>3. /\ secret \in Keys
        /\ count \in Nat /\ now \in Nat
        /\ otp1c \in Nat \cup {Absent} /\ dueDate \in Nat \cup {Absent}
    BY <1>1 DEF Init
  <2>4. QED BY <2>1, <2>2, <2>3 DEF TypeOK
<1>2. ASSUME Init PROVE UsedBehindCount
  <2>1. accepted = <<>> /\ 1 .. Len(accepted) = {}
    BY <1>2 DEF Init
  <2>2. QED BY <2>1 DEF UsedBehindCount
<1>3. QED BY <1>1, <1>2 DEF HotpInv

\* Nothing was let through and the counter did not go back.
LEMMA InvKeptWithoutAccept ==
    ASSUME HotpInv, TypeOK', accepted' = accepted, count <= count'
    PROVE  HotpInv'
<1>1. \A i \in 1 .. Len(accepted) : accepted[i] \in Nat /\ accepted[i] < count
  BY DEF HotpInv, TypeOK, UsedBehindCount
<1>2. UsedBehindCount'
  BY <1>1 DEF HotpInv, TypeOK, UsedBehindCount
<1>3. QED BY <1>2 DEF HotpInv

\* One counter that was not passed yet was let through and passed.
LEMMA InvKeptByAccept ==
    ASSUME HotpInv, NEW c \in Nat, count <= c, accepted' = Append(accepted, c), count' = c + 1,
           secret' = secret, locked' = locked, now' = now,
           otp1c' \in Nat \cup {Absent}, dueDate' \in Nat \cup {Absent}
    PROVE  HotpInv'
<1>1. /\ accepted' \in Seq(Nat)
      /\ \A i \in 1 .. Len(accepted') : accepted'[i] < count'
      /\ \A i, j \in 1 .. Len(accepted') : i < j => accepted'[i] < accepted'[j]
  <2>1. /\ accepted \in Seq(Nat) /\ count \in Nat /\ c < c + 1 /\ c + 1 \in Nat
        /\ \A i \in 1 .. Len(accepted) : accepted[i] < count
        /\ \A i, j \in 1 .. Len(accepted) : i < j => accepted[i] < accepted[j]
    BY DEF HotpInv, TypeOK, UsedBehindCount
  <2>2. QED BY <2>1, AppendKeepsOrder
<1>2. TypeOK'
  BY <1>1 DEF HotpInv, TypeOK
<1>3. QED BY <1>1, <1>2 DEF HotpInv, UsedBehindCount

\* Every call keeps the invariant.
LEMMA HotpInvStep == HotpInv /\ [Next]_hotpVars => HotpInv'
<1> SUFFICES ASSUME HotpInv, [Next]_hotpVars PROVE HotpInv'
  OBVIOUS
<1>1. TypeOK /\ UsedBehindCount /\ count \in Nat /\ CountWindow \in Nat
  BY HotpAssumption DEF HotpInv, TypeOK, HotpAssumption
<1>2. ASSUME NEW v \in Values, PresentOtp(v) PROVE HotpInv'
  <2> DEFINE r == CheckOtp(v, count, CountWindow)
  <2>1. /\ r.res = NotFound \/ (r.res \in Nat /\ count <= r.res)
        /\ r.otp1c \in Nat \cup {Absent}
        /\ r.dueDate \in Nat \cup {Absent}
    BY <1>1, CheckOtpResult
  <2>2. /\ otp1c' = r.otp1c /\ dueDate' = r.dueDate
        /\ count' = IF r.res # NotFound THEN r.res + 1 ELSE count
        /\ accepted' = IF r.res # NotFound THEN Append(accepted, r.res) ELSE accepted
        /\ secret' = secret /\ locked' = locked /\ now' = now
    BY <1>2 DEF PresentOtp
  <2> HIDE DEF r
  <2>3. CASE r.res # NotFound
    BY <2>1, <2>2, <2>3, InvKeptByAccept
  <2>4. CASE r.res = NotFound
    <3>1. TypeOK'
      BY <2>1, <2>2, <2>4, <1>1 DEF TypeOK
    <3>2. QED BY <2>2, <2>4, <3>1, <1>1, InvKeptWithoutAccept
  <2>5. QED BY <2>3, <2>4
<1>3. ASSUME NEW v \in Values, FindByOtp(v) PROVE HotpInv'
  <2> DEFINE res == CheckOtpWindow(secret, v, count, FindWindow)
  <2>1. res \in Nat /\ count <= res
    BY <1>1, <1>3, CheckOtpWindowResult, HotpAssumption DEF HotpAssumption, FindByOtp
  <2>2. IncOtpCounter(res, 1) = res + 1
    BY <1>1, <2>1 DEF IncOtpCounter
  <2>3. /\ count' = res + 1 /\ accepted' = Append(accepted, res)
        /\ secret' = secret /\ locked' = locked /\ now' = now
        /\ otp1c' = otp1c /\ dueDate' = dueDate
    BY <1>3, <2>2 DEF FindByOtp
  <2> HIDE DEF res
  <2>4. QED BY <2>1, <2>3, <1>1, InvKeptByAccept DEF TypeOK
<1>4. ASSUME NEW v1 \in Values, NEW v2 \in Values, Resync(v1, v2) PROVE HotpInv'
  <2> DEFINE c    == CheckOtpWindow(secret, v1, count, SyncWindow)
             once == Append(accepted, c)
  <2>1. c \in Nat /\ count <= c
    BY <1>1, <1>4, CheckOtpWindowResult, HotpAssumption DEF HotpAssumption, Resync
  <2>2. IncOtpCounter(c + 1, 1) = c + 2
    BY <2>1 DEF IncOtpCounter
  <2>3. /\ count' = c + 2 /\ accepted' = Append(once, c + 1)
        /\ secret' = secret /\ locked' = locked /\ now' = now
        /\ otp1c' = otp1c /\ dueDate' = dueDate
    BY <1>4, <2>2 DEF Resync
  <2> HIDE DEF c
  <2>4. /\ once \in Seq(Nat)
        /\ \A i \in 1 .. Len(once) : once[i] < c + 1
        /\ \A i, j \in 1 .. Len(once) : i < j => once[i] < once[j]
    <3>1. /\ accepted \in Seq(Nat) /\ count \in Nat /\ c < c + 1 /\ c + 1 \in Nat
          /\ \A i \in 1 .. Len(accepted) : accepted[i] < count
          /\ \A i, j \in 1 .. Len(accepted) : i < j => accepted[i] < accepted[j]
      BY <1>1, <2>1 DEF TypeOK, UsedBehindCount
    <3>2. QED BY <2>1, <3>1, AppendKeepsOrder
  <2> HIDE DEF once
  <2>5. /\ accepted' \in Seq(Nat)
        /\ \A i \in 1 .. Len(accepted') : accepted'[i] < count'
        /\ \A i, j \in 1 .. Len(accepted') : i < j => accepted'[i] < accepted'[j]
    <3>1. c + 1 \in Nat /\ c + 2 \in Nat /\ c + 1 <= c + 1 /\ c + 1 < c + 2
      BY <2>1
    <3>2. QED BY <2>3, <2>4, <3>1, AppendKeepsOrder
  <2>6. TypeOK'
    BY <1>1, <2>1, <2>3, <2>5 DEF TypeOK
  <2>7. QED BY <2>5, <2>6 DEF HotpInv, UsedBehindCount
<1>5. ASSUME NEW key \in Keys, Reenroll(key) PROVE HotpInv'
  <2>1. accepted' = <<>> /\ accepted' \in Seq(Nat) /\ 1 .. Len(accepted') = {}
    BY <1>5 DEF Reenroll
  <2>2. TypeOK'
    BY <1>1, <1>5, <2>1 DEF Reenroll, TypeOK
  <2>3. QED BY <2>1, <2>2 DEF HotpInv, UsedBehindCount
<1>6. CASE Revoke
  <2>1. locked' \in BOOLEAN
    BY <1>6, Zenon DEF Revoke
  <2>2. TypeOK'
    BY <1>1, <1>6, <2>1 DEF Revoke, TypeOK
  <2>3. QED BY <1>1, <1>6, <2>2, InvKeptWithoutAccept DEF Revoke
<1>7. CASE Tick
  <2>1. TypeOK'
    BY <1>1, <1>7 DEF Tick, TypeOK
  <2>2. QED BY <1>1, <1>7, <2>1, InvKeptWithoutAccept DEF Tick
<1>8. CASE UNCHANGED hotpVars
  <2>1. TypeOK'
    BY <1>1, <1>8 DEF hotpVars, TypeOK
  <2>2. QED BY <1>1, <1>8, <2>1, InvKeptWithoutAccept DEF hotpVars
<1>9. QED BY <1>2, <1>3, <1>4, <1>5, <1>6, <1>7, <1>8 DEF Next

-----------------------------------------------------------------------------
(***************************************************************************)
(* The theorems                                                            *)
(***************************************************************************)

\* The invariant of every run.
LEMMA HotpInvariant == Spec => []HotpInv
<1>1. QED BY HotpInvInit, HotpInvStep, PTL DEF Spec

\* The columns of the token row and its tokeninfo stay well typed.
THEOREM HotpTypeCorrect == Spec => []TypeOK
<1>1. HotpInv => TypeOK
  BY DEF HotpInv
<1>2. QED BY <1>1, HotpInvariant, PTL

\* Whatever the windows, the timeout and the OTP function are, the counter of the
\* token stays ahead of every counter check_otp, check_otp_exist and resync let
\* through, and these are let through in increasing order.
THEOREM HotpUsedBehindCount == Spec => []UsedBehindCount
<1>1. HotpInv => UsedBehindCount
  BY DEF HotpInv
<1>2. QED BY <1>1, HotpInvariant, PTL

-----------------------------------------------------------------------------
(***************************************************************************)
(* Refinement: every call of the HOTP token is a step OneTimeUse allows    *)
(***************************************************************************)

\* PresentOtp and FindByOtp are Accept or Skip steps, Resync is AcceptPair,
\* Reenroll is NewSecret, and the rest does not touch the counter.
LEMMA StepOneTime == HotpInv /\ [Next]_hotpVars => [OneTime!AbstractNext]_(OneTime!abstractVars)
<1> USE DEF OneTime!AbstractNext, OneTime!abstractVars
<1> SUFFICES ASSUME HotpInv, [Next]_hotpVars
             PROVE  OneTime!AbstractNext \/ UNCHANGED OneTime!abstractVars
  OBVIOUS
<1>1. TypeOK /\ count \in Nat /\ accepted \in Seq(Nat) /\ CountWindow \in Nat
  BY HotpAssumption DEF HotpInv, TypeOK, HotpAssumption
<1>2. ASSUME NEW c \in Nat, count <= c, accepted' = Append(accepted, c), count' = c + 1
      PROVE  OneTime!Accept
  <2>1. accepted' # <<>> /\ accepted'[Len(accepted')] = c
    BY <1>1, <1>2
  <2>2. QED BY <2>1, <1>2 DEF OneTime!Accept
<1>3. ASSUME NEW v \in Values, PresentOtp(v)
      PROVE  OneTime!AbstractNext \/ UNCHANGED OneTime!abstractVars
  <2> DEFINE r == CheckOtp(v, count, CountWindow)
  <2>1. r.res = NotFound \/ (r.res \in Nat /\ count <= r.res)
    BY <1>1, CheckOtpResult
  <2>2. /\ count' = IF r.res # NotFound THEN r.res + 1 ELSE count
        /\ accepted' = IF r.res # NotFound THEN Append(accepted, r.res) ELSE accepted
    BY <1>3 DEF PresentOtp
  <2> HIDE DEF r
  <2>3. QED BY <2>1, <2>2, <1>2
<1>4. ASSUME NEW v \in Values, FindByOtp(v) PROVE OneTime!Accept
  <2> DEFINE res == CheckOtpWindow(secret, v, count, FindWindow)
  <2>1. res \in Nat /\ count <= res
    BY <1>1, <1>4, CheckOtpWindowResult, HotpAssumption DEF HotpAssumption, FindByOtp
  <2>2. IncOtpCounter(res, 1) = res + 1
    BY <1>1, <2>1 DEF IncOtpCounter
  <2>3. count' = res + 1 /\ accepted' = Append(accepted, res)
    BY <1>4, <2>2 DEF FindByOtp
  <2> HIDE DEF res
  <2>4. QED BY <2>1, <2>3, <1>2
<1>5. ASSUME NEW v1 \in Values, NEW v2 \in Values, Resync(v1, v2) PROVE OneTime!AcceptPair
  <2> DEFINE c    == CheckOtpWindow(secret, v1, count, SyncWindow)
             once == Append(accepted, c)
  <2>1. c \in Nat /\ count <= c
    BY <1>1, <1>5, CheckOtpWindowResult, HotpAssumption DEF HotpAssumption, Resync
  <2>2. IncOtpCounter(c + 1, 1) = c + 2
    BY <2>1 DEF IncOtpCounter
  <2>3. count' = c + 2 /\ accepted' = Append(once, c + 1)
    BY <1>5, <2>2 DEF Resync
  <2> HIDE DEF c
  <2>4. /\ once \in Seq(Nat) /\ Len(once) = Len(accepted) + 1 /\ Len(accepted) \in Nat
        /\ once[Len(once)] = c
    BY <1>1, <2>1
  <2>5. /\ Len(accepted') = Len(once) + 1
        /\ accepted'[Len(accepted') - 1] = c
    <3> HIDE DEF once
    <3>1. Len(Append(once, c + 1)) = Len(once) + 1
      BY <2>1, <2>4
    <3>2. Append(once, c + 1)[Len(once)] = once[Len(once)]
      BY <2>1, <2>4
    <3>3. QED BY <2>3, <2>4, <3>1, <3>2
  <2>6. QED BY <2>1, <2>3, <2>4, <2>5 DEF OneTime!AcceptPair
<1>6. ASSUME NEW key \in Keys, Reenroll(key) PROVE OneTime!NewSecret
  BY <1>6 DEF Reenroll, OneTime!NewSecret
<1>7. ASSUME Revoke \/ Tick \/ UNCHANGED hotpVars PROVE UNCHANGED OneTime!abstractVars
  BY <1>7 DEF Revoke, Tick, hotpVars
<1>8. QED BY <1>3, <1>4, <1>5, <1>6, <1>7 DEF Next

\* The HOTP token implements the promise of one time use: under one secret the
\* calls let through each counter at most once, in increasing order.
THEOREM HotpIsOneTimeUse == Spec => ImplementsOneTimeUse
<1>1. Init => OneTime!AbstractInit
  BY DEF Init, OneTime!AbstractInit
<1>2. QED BY <1>1, StepOneTime, HotpInvariant, PTL
            DEF Spec, ImplementsOneTimeUse, OneTime!AbstractSpec

-----------------------------------------------------------------------------
(***************************************************************************)
(* Automatic resynchronisation                                             *)
(***************************************************************************)

\* The history does not change what the token does.
LEMMA AutosyncIsHotp == AutosyncSpec => Spec
<1>1. [AutosyncNext]_autosyncVars => [Next]_hotpVars
  BY DEF AutosyncNext, Next, autosyncVars, hotpVars
<1>2. AutosyncInit => Init
  BY DEF AutosyncInit
<1>3. QED BY <1>1, <1>2, PTL DEF AutosyncSpec, Spec

\* So the token keeps its promise with the history as well.
THEOREM AutosyncIsOneTimeUse == AutosyncSpec => ImplementsOneTimeUse /\ []UsedBehindCount
  BY AutosyncIsHotp, HotpIsOneTimeUse, HotpUsedBehindCount, PTL

\* A first value that is not overdue was presented, and that so lately that it
\* still counts.
AutosyncInv ==
    /\ \A h \in heard : h.at \in Nat /\ h.at <= now
    /\ (otp1c # Absent /\ now < dueDate) =>
         \E h \in heard : h.val = Hotp(h.key, otp1c) /\ dueDate <= h.at + SyncTimeout

\* check_otp remembers no first value, or the one it was remembering, or the value
\* it is asked for, until the timeout is over.
LEMMA CheckOtpRemembers ==
    ASSUME TypeOK, NEW v, NEW first \in Nat, NEW window \in Nat
    PROVE  LET r == CheckOtp(v, first, window) IN
             \/ r.otp1c = Absent
             \/ r.otp1c = otp1c /\ r.dueDate = dueDate
             \/ Hotp(secret, r.otp1c) = v /\ r.dueDate = now + SyncTimeout
<1> DEFINE near == CheckOtpWindow(secret, v, first, window)
           far  == CheckOtpWindow(secret, v, first + window, SyncWindow)
<1>1. far = NotFound \/ Hotp(secret, far) = v
  <2>1. first + window \in Nat /\ SyncWindow \in Nat
    BY HotpAssumption
  <2>2. QED BY <2>1, CheckOtpWindowResult
<1>2. CASE near # NotFound
  BY <1>2 DEF CheckOtp
<1>3. CASE near = NotFound
  <2>1. CheckOtp(v, first, window) = Autosync(v, first + window)
    BY <1>3 DEF CheckOtp
  <2>2. CASE ~AutoResync \/ far = NotFound
    <3>1. Autosync(v, first + window) =
            [res |-> NotFound, otp1c |-> otp1c, dueDate |-> dueDate]
      BY <2>2 DEF Autosync
    <3>2. QED BY <2>1, <3>1
  <2>3. CASE AutoResync /\ far # NotFound /\ otp1c # Absent
    <3>1. Autosync(v, first + window) =
            [res     |-> IF otp1c + 1 = far /\ now < dueDate THEN far ELSE NotFound,
             otp1c   |-> Absent,
             dueDate |-> Absent]
      BY <2>3 DEF Autosync
    <3>2. QED BY <2>1, <3>1
  <2>4. CASE AutoResync /\ far # NotFound /\ otp1c = Absent
    <3>1. Autosync(v, first + window) =
            [res |-> NotFound, otp1c |-> far, dueDate |-> now + SyncTimeout]
      BY <2>4 DEF Autosync
    <3>2. QED BY <1>1, <2>1, <2>4, <3>1
  <2>5. QED BY <2>2, <2>3, <2>4
<1>4. QED BY <1>2, <1>3

\* A counter check_otp finds behind its window follows a first value that is not
\* overdue.
LEMMA FarNeedsFirst ==
    ASSUME TypeOK, NEW v, NEW first \in Nat, NEW window \in Nat,
           CheckOtp(v, first, window).res # NotFound,
           CheckOtp(v, first, window).res >= first + window
    PROVE  /\ otp1c # Absent /\ now < dueDate
           /\ CheckOtp(v, first, window).res = otp1c + 1
<1> DEFINE near == CheckOtpWindow(secret, v, first, window)
           far  == CheckOtpWindow(secret, v, first + window, SyncWindow)
           r    == CheckOtp(v, first, window)
<1>1. near = NotFound \/ (near \in Nat /\ near < first + window)
  BY CheckOtpWindowResult
<1>2. near = NotFound
  <2>1. CASE near # NotFound
    <3>1. r.res = near
      BY <2>1 DEF CheckOtp
    <3> HIDE DEF near, r
    <3>2. QED BY <1>1, <2>1, <3>1 DEF r
  <2>2. QED BY <2>1
<1>3. r = Autosync(v, first + window)
  BY <1>2 DEF CheckOtp
<1>4. CASE ~AutoResync \/ far = NotFound
  BY <1>3, <1>4 DEF Autosync
<1>5. CASE AutoResync /\ far # NotFound /\ otp1c # Absent
  <2>1. r = [res     |-> IF otp1c + 1 = far /\ now < dueDate THEN far ELSE NotFound,
             otp1c   |-> Absent,
             dueDate |-> Absent]
    BY <1>3, <1>5 DEF Autosync
  <2>2. otp1c + 1 = far /\ now < dueDate /\ r.res = far
    BY <2>1
  <2>3. QED BY <1>5, <2>2
<1>6. CASE AutoResync /\ far # NotFound /\ otp1c = Absent
  BY <1>3, <1>6 DEF Autosync
<1>7. QED BY <1>4, <1>5, <1>6

\* Every step keeps a first value that is not overdue among those presented lately.
LEMMA AutosyncInvStep ==
    TypeOK /\ AutosyncInv /\ [AutosyncNext]_autosyncVars => AutosyncInv'
<1> SUFFICES ASSUME TypeOK, AutosyncInv, [AutosyncNext]_autosyncVars PROVE AutosyncInv'
  OBVIOUS
<1>1. now \in Nat /\ count \in Nat /\ SyncTimeout \in Nat /\ CountWindow \in Nat
  BY HotpAssumption DEF TypeOK
<1>2. ASSUME NEW v \in Values, PresentOtp(v), heard' = Hear(v) PROVE AutosyncInv'
  <2> DEFINE r  == CheckOtp(v, count, CountWindow)
             hv == [key |-> secret, val |-> v, at |-> now]
  <2>1. hv \in heard' /\ hv.key = secret /\ hv.val = v /\ hv.at = now
    BY <1>2 DEF Hear
  <2>2. /\ \A h \in heard' : h = hv \/ h \in heard
        /\ \A h \in heard : h \in heard' \/ (h.key = secret /\ h.val = v)
    BY <1>2 DEF Hear
  <2>3. \/ r.otp1c = Absent
        \/ r.otp1c = otp1c /\ r.dueDate = dueDate
        \/ Hotp(secret, r.otp1c) = v /\ r.dueDate = now + SyncTimeout
    BY <1>1, CheckOtpRemembers
  <2>4. otp1c' = r.otp1c /\ dueDate' = r.dueDate /\ now' = now
    BY <1>2 DEF PresentOtp
  <2> HIDE DEF r, hv
  <2>5. \A h \in heard' : h.at \in Nat /\ h.at <= now'
    BY <1>1, <2>1, <2>2, <2>4 DEF AutosyncInv
  <2>6. ASSUME otp1c' # Absent, now' < dueDate'
        PROVE  \E h \in heard' : h.val = Hotp(h.key, otp1c') /\ dueDate' <= h.at + SyncTimeout
    <3>1. CASE Hotp(secret, otp1c') = v /\ dueDate' = now + SyncTimeout
      BY <1>1, <2>1, <3>1
    <3>2. CASE otp1c' = otp1c /\ dueDate' = dueDate
      <4>1. PICK h \in heard : h.val = Hotp(h.key, otp1c) /\ dueDate <= h.at + SyncTimeout
        BY <2>4, <2>6, <3>2 DEF AutosyncInv
      <4>2. CASE h \in heard'
        BY <3>2, <4>1, <4>2
      <4>3. CASE h.key = secret /\ h.val = v
        <5>1. hv.val = Hotp(hv.key, otp1c')
          BY <2>1, <3>2, <4>1, <4>3
        <5>2. h.at \in Nat /\ h.at <= now /\ dueDate \in Nat \cup {Absent}
          BY DEF AutosyncInv, TypeOK
        <5>3. dueDate' <= hv.at + SyncTimeout
          BY <1>1, <2>1, <3>2, <4>1, <5>2 DEF Absent
        <5>4. QED BY <2>1, <5>1, <5>3
      <4>4. QED BY <2>2, <4>2, <4>3
    <3>3. QED BY <2>3, <2>4, <2>6, <3>1, <3>2
  <2>7. QED BY <2>5, <2>6 DEF AutosyncInv
<1>3. CASE Tick /\ heard' = {h \in heard : Recent(h, now')}
  <2>1. now' = now + 1 /\ otp1c' = otp1c /\ dueDate' = dueDate
    BY <1>3 DEF Tick
  <2>2. \A h \in heard' : h.at \in Nat /\ h.at <= now'
    BY <1>1, <1>3, <2>1 DEF AutosyncInv
  <2>3. ASSUME otp1c' # Absent, now' < dueDate'
        PROVE  \E h \in heard' : h.val = Hotp(h.key, otp1c') /\ dueDate' <= h.at + SyncTimeout
    <3>1. dueDate \in Nat \cup {Absent}
      BY DEF TypeOK
    <3>2. now < dueDate
      BY <1>1, <2>1, <2>3, <3>1 DEF Absent
    <3>3. PICK h \in heard : h.val = Hotp(h.key, otp1c) /\ dueDate <= h.at + SyncTimeout
      BY <2>1, <2>3, <3>2 DEF AutosyncInv
    <3>4. h.at \in Nat
      BY DEF AutosyncInv
    <3>5. Recent(h, now')
      BY <1>1, <2>1, <2>3, <3>1, <3>3, <3>4 DEF Recent, Absent
    <3>6. QED BY <1>3, <2>1, <3>3, <3>5
  <2>4. QED BY <2>2, <2>3 DEF AutosyncInv
<1>4. ASSUME UNCHANGED <<otp1c, dueDate, now, heard>> PROVE AutosyncInv'
  BY <1>4 DEF AutosyncInv
<1>5. QED
  BY <1>2, <1>3, <1>4
  DEF AutosyncNext, FindByOtp, Resync, Reenroll, Revoke, autosyncVars, hotpVars

\* A value behind both windows is let through only after its predecessor was
\* presented within the timeout: one far value alone never gets in (_autosync).
THEOREM AutosyncPredecessor == AutosyncSpec => AutosyncNeedsPredecessor
<1>1. AutosyncInit => AutosyncInv
  BY DEF AutosyncInit, Init, AutosyncInv
<1>2. AutosyncSpec => []TypeOK
  BY AutosyncIsHotp, HotpTypeCorrect, PTL
<1>3. TypeOK /\ AutosyncInv /\ [AutosyncNext]_autosyncVars =>
        [AheadOfWindow => PredecessorHeard(accepted'[Len(accepted')])]_autosyncVars
  <2> SUFFICES ASSUME TypeOK, AutosyncInv, AutosyncNext, AheadOfWindow
               PROVE  PredecessorHeard(accepted'[Len(accepted')])
    OBVIOUS
  <2>1. /\ now \in Nat /\ count \in Nat /\ SyncTimeout \in Nat /\ CountWindow \in Nat
        /\ FindWindow \in Nat /\ SyncWindow \in Nat /\ accepted \in Seq(Nat)
        /\ otp1c \in Nat \cup {Absent} /\ dueDate \in Nat \cup {Absent}
    BY HotpAssumption DEF TypeOK
  <2>2. ASSUME NEW v \in Values, PresentOtp(v)
        PROVE  PredecessorHeard(accepted'[Len(accepted')])
    <3> DEFINE res == CheckOtp(v, count, CountWindow).res
    <3>1. res # NotFound /\ accepted' = Append(accepted, res)
      <4>1. accepted' = IF res # NotFound THEN Append(accepted, res) ELSE accepted
        BY <2>2 DEF PresentOtp
      <4> HIDE DEF res
      <4>2. QED BY <2>1, <4>1 DEF AheadOfWindow
    <3>2. res \in Nat
      BY <2>1, <3>1, CheckOtpResult
    <3>3. accepted'[Len(accepted')] = res
      <4> HIDE DEF res
      <4>1. QED BY <2>1, <3>1, <3>2
    <3>4. res >= count + CountWindow
      BY <3>3 DEF AheadOfWindow
    <3>5. otp1c # Absent /\ now < dueDate /\ res = otp1c + 1
      BY <2>1, <3>1, <3>4, FarNeedsFirst
    <3> HIDE DEF res
    <3>6. res - 1 = otp1c
      BY <2>1, <3>5
    <3>7. PICK h \in heard : h.val = Hotp(h.key, otp1c) /\ dueDate <= h.at + SyncTimeout
      BY <3>5 DEF AutosyncInv
    <3>8. h.at \in Nat
      BY DEF AutosyncInv
    <3>9. Recent(h, now)
      BY <2>1, <3>5, <3>7, <3>8 DEF Recent, Absent
    <3>10. QED BY <3>3, <3>6, <3>7, <3>9 DEF PredecessorHeard
  <2>3. ASSUME NEW v \in Values PROVE ~FindByOtp(v)
    <3> SUFFICES ASSUME FindByOtp(v) PROVE FALSE
      OBVIOUS
    <3> DEFINE res == CheckOtpWindow(secret, v, count, FindWindow)
    <3>1. res \in Nat /\ res < count + FindWindow
      BY <2>1, CheckOtpWindowResult DEF FindByOtp
    <3>2. accepted' = Append(accepted, res)
      BY DEF FindByOtp
    <3> HIDE DEF res
    <3>3. accepted'[Len(accepted')] = res
      BY <2>1, <3>1, <3>2
    <3>4. QED BY <2>1, <3>1, <3>3 DEF AheadOfWindow
  <2>4. ASSUME NEW v1 \in Values, NEW v2 \in Values PROVE ~Resync(v1, v2)
    <3> SUFFICES ASSUME Resync(v1, v2) PROVE FALSE
      OBVIOUS
    <3> DEFINE c    == CheckOtpWindow(secret, v1, count, SyncWindow)
               once == Append(accepted, c)
    <3>1. c \in Nat /\ accepted' = Append(once, c + 1)
      BY <2>1, CheckOtpWindowResult DEF Resync
    <3> HIDE DEF c
    <3>2. once \in Seq(Nat) /\ Len(once) = Len(accepted) + 1 /\ Len(accepted) \in Nat
      BY <2>1, <3>1
    <3> HIDE DEF once
    <3>3. Len(accepted') = Len(accepted) + 2
      BY <3>1, <3>2
    <3>4. QED BY <3>2, <3>3 DEF AheadOfWindow
  <2>5. ASSUME accepted' = <<>> \/ accepted' = accepted PROVE FALSE
    BY <2>1, <2>5 DEF AheadOfWindow
  <2>6. QED
    BY <2>2, <2>3, <2>4, <2>5 DEF AutosyncNext, Reenroll, Revoke, Tick
<1>4. QED
  BY <1>1, <1>2, <1>3, AutosyncInvStep, PTL DEF AutosyncSpec, AutosyncNeedsPredecessor
===============================================================================
