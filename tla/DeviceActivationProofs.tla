------------------------ MODULE DeviceActivationProofs ------------------------
(***************************************************************************)
(* Proofs about DeviceActivation for any number of devices, of overlapping *)
(* validations and of secrets.                                             *)
(***************************************************************************)
EXTENDS DeviceActivation, TLAPS

\* What a validation at its await holds on to: a secret generated for its device,
\* and a right code was presented in time.
CallsHoldOwnSecret ==
    \A c \in Calls :
      call[c] # Idle =>
        /\ call[c].of \in Devices
        /\ call[c].secret \in 1 .. secrets
        /\ requested[call[c].secret] = call[c].of
        /\ call[c].code = call[c].secret => call[c].secret \in timely

\* A pending secret was generated for the device it is pending for.
PendingIsOwn ==
    \A d \in Devices :
      pending[d] # NoSecret => pending[d] \in 1 .. secrets /\ requested[pending[d]] = d

DeviceInv ==
    /\ DeviceTypeOK
    /\ CallsHoldOwnSecret
    /\ PendingIsOwn
    /\ ActivatedNotPending
    /\ UsedNotPending
    /\ ActivatedByTimelyCode

-----------------------------------------------------------------------------
(* The initial state and each action *)

LEMMA InitInv == Init => DeviceInv
  BY DeviceAssumption
  DEF Init, DeviceInv, DeviceTypeOK, CallsHoldOwnSecret, PendingIsOwn,
      ActivatedNotPending, UsedNotPending, ActivatedByTimelyCode, Secrets,
      NoSecret, NoDevice, Registered, Activated, Idle

\* A request takes a secret nobody has seen and replaces what the device had.
LEMMA RequestInv ==
  ASSUME DeviceInv, NEW d \in Devices, Request(d)
  PROVE  DeviceInv'
  <1> USE DEF NoSecret, NoDevice, Registered, Activated, Idle
  <1> DEFINE s == secrets + 1
  <1>1. /\ s \in Secrets
        /\ secrets \in Nat
        /\ secrets' = s
        /\ pending' = [pending EXCEPT ![d] = s]
        /\ device' = [device EXCEPT ![d] = Registered]
        /\ requested' = [requested EXCEPT ![s] = d]
        /\ by' = [by EXCEPT ![d] = NoSecret]
        /\ age' = [age EXCEPT ![s] = 0]
        /\ UNCHANGED <<call, timely, used>>
    BY DeviceAssumption DEF DeviceInv, DeviceTypeOK, Request, Secrets
  <1>2. DeviceTypeOK'
    BY <1>1, DeviceAssumption DEF DeviceInv, DeviceTypeOK, Secrets
  <1>3. CallsHoldOwnSecret'
    BY <1>1 DEF DeviceInv, DeviceTypeOK, CallsHoldOwnSecret, Secrets
  <1>4. PendingIsOwn'
    BY <1>1 DEF DeviceInv, DeviceTypeOK, PendingIsOwn, Secrets
  <1>5. ActivatedNotPending'
    BY <1>1 DEF DeviceInv, DeviceTypeOK, ActivatedNotPending
  <1>6. UsedNotPending'
    BY <1>1 DEF DeviceInv, DeviceTypeOK, UsedNotPending
  <1>7. ActivatedByTimelyCode'
    BY <1>1 DEF DeviceInv, DeviceTypeOK, ActivatedByTimelyCode, Secrets
  <1> QED BY <1>2, <1>3, <1>4, <1>5, <1>6, <1>7 DEF DeviceInv

\* A validation that reaches its await took a pending, hence own, secret that
\* has not expired: a right code is timely.
LEMMA ValidateInv ==
  ASSUME DeviceInv, NEW c \in Calls, NEW d \in Devices, NEW code \in 0 .. secrets,
         Validate(c, d, code)
  PROVE  DeviceInv'
  <1> USE DEF NoSecret, NoDevice, Registered, Activated, Idle
  <1>1. /\ UNCHANGED <<secrets, age, device, requested, by, used>>
        /\ pending[d] # NoSecret
        /\ secrets \in Nat
    BY DEF Validate, DeviceInv, DeviceTypeOK
  <1>2. timely \subseteq timely' /\ timely' \subseteq 1 .. secrets
    BY DEF Validate, Present, DeviceInv, DeviceTypeOK
  <1>3. pending' = pending \/ pending' = [pending EXCEPT ![d] = NoSecret]
    BY DEF Validate
  <1>4. pending[d] \in 1 .. secrets /\ requested[pending[d]] = d
    BY <1>1 DEF DeviceInv, PendingIsOwn
  <1>5. \/ call' = call
        \/ /\ call' = [call EXCEPT ![c] =
                          [of |-> d, secret |-> pending[d], code |-> code]]
           /\ code = pending[d] => code \in timely'
    <2>1. CASE age[pending[d]] > Expiry
      BY <2>1 DEF Validate
    <2>2. CASE ~(age[pending[d]] > Expiry)
      <3>1. age[pending[d]] \in Nat
        BY <1>1, <1>4, DeviceAssumption DEF DeviceInv, DeviceTypeOK, Secrets
      <3>2. age[pending[d]] <= Expiry
        BY <2>2, <3>1, DeviceAssumption
      <3>3. code = pending[d] => code \in timely'
        BY <1>1, <1>4, <3>2 DEF Validate, Present
      <3> QED BY <2>2, <3>3 DEF Validate
    <2> QED BY <2>1, <2>2
  <1>6. DeviceTypeOK'
    BY <1>1, <1>2, <1>3, <1>4, <1>5 DEF DeviceInv, DeviceTypeOK
  <1>7. CallsHoldOwnSecret'
    BY <1>1, <1>2, <1>4, <1>5 DEF DeviceInv, DeviceTypeOK, CallsHoldOwnSecret
  <1>8. PendingIsOwn' /\ ActivatedNotPending' /\ UsedNotPending'
    BY <1>1, <1>3
    DEF DeviceInv, DeviceTypeOK, PendingIsOwn, ActivatedNotPending, UsedNotPending
  <1>9. ActivatedByTimelyCode'
    BY <1>1, <1>2 DEF DeviceInv, ActivatedByTimelyCode
  <1> QED BY <1>6, <1>7, <1>8, <1>9 DEF DeviceInv

\* A right code activates the device its secret was generated for; no other
\* device can have that secret pending, and this one has none afterwards.
LEMMA FinishInv ==
  ASSUME DeviceInv, NEW c \in Calls, Finish(c)
  PROVE  DeviceInv'
  <1> USE DEF NoSecret, NoDevice, Registered, Activated, Idle
  <1> DEFINE d == call[c].of
             s == call[c].secret
  <1>1. /\ d \in Devices
        /\ s \in 1 .. secrets
        /\ requested[s] = d
        /\ call[c].code = s => s \in timely
        /\ secrets \in Nat
    BY DEF Finish, DeviceInv, DeviceTypeOK, CallsHoldOwnSecret
  <1>2. /\ UNCHANGED <<secrets, age, requested, timely>>
        /\ call' = [call EXCEPT ![c] = Idle]
    BY DEF Finish
  <1>3. CallsHoldOwnSecret'
    BY <1>2 DEF DeviceInv, DeviceTypeOK, CallsHoldOwnSecret
  <1>4. CASE call[c].code = s /\ device[d] # NoDevice
    <2>1. /\ device' = [device EXCEPT ![d] = Activated]
          /\ pending' = [pending EXCEPT ![d] = NoSecret]
          /\ by' = [by EXCEPT ![d] = s]
          /\ used' = used \cup {s}
          /\ s \in timely
      BY <1>1, <1>4 DEF Finish
    <2>2. DeviceTypeOK'
      <3>1. call' \in [Calls -> [of : Devices \cup {NoDevice}, secret : 0 .. secrets,
                                 code : 0 .. secrets]]
        BY <1>1, <1>2 DEF DeviceInv, DeviceTypeOK
      <3>2. /\ pending' \in [Devices -> 0 .. secrets]
            /\ device' \in [Devices -> {NoDevice, Registered, Activated}]
            /\ by' \in [Devices -> 0 .. secrets]
            /\ used' \subseteq 1 .. secrets
        <4>1. NoSecret \in 0 .. secrets /\ s \in 0 .. secrets
          BY <1>1
        <4> HIDE DEF NoSecret, d, s
        <4>2. pending' \in [Devices -> 0 .. secrets]
          BY <2>1, <4>1 DEF DeviceInv, DeviceTypeOK
        <4>3. device' \in [Devices -> {NoDevice, Registered, Activated}]
          BY <2>1 DEF DeviceInv, DeviceTypeOK
        <4>4. by' \in [Devices -> 0 .. secrets]
          BY <2>1, <4>1 DEF DeviceInv, DeviceTypeOK
        <4>5. used' \subseteq 1 .. secrets
          BY <1>1, <2>1 DEF DeviceInv, DeviceTypeOK
        <4> QED BY <4>2, <4>3, <4>4, <4>5
      <3>3. ASSUME NEW e \in Devices
            PROVE  by'[e] # NoSecret <=> device'[e] = Activated
        <4>1. CASE e = d
          <5>1. by'[e] = s /\ device'[e] = Activated
            BY <2>1, <4>1 DEF DeviceInv, DeviceTypeOK
          <5>2. s # NoSecret
            BY <1>1
          <5> QED BY <5>1, <5>2
        <4>2. CASE e # d
          <5>1. by'[e] = by[e] /\ device'[e] = device[e]
            BY <2>1, <4>2 DEF DeviceInv, DeviceTypeOK
          <5> QED BY <5>1 DEF DeviceInv, DeviceTypeOK
        <4> QED BY <4>1, <4>2
      <3>4. /\ secrets' \in 0 .. MaxSecrets
            /\ age' \in [Secrets -> 0 .. Expiry + 1]
            /\ requested' \in [Secrets -> Devices \cup {NoDevice}]
            /\ timely' \subseteq 1 .. secrets
        BY <1>2 DEF DeviceInv, DeviceTypeOK
      <3>5. secrets' = secrets
        BY <1>2
      <3> HIDE DEF NoSecret, NoDevice, Registered, Activated, Idle, d, s
      <3> QED BY <3>1, <3>2, <3>3, <3>4, <3>5 DEF DeviceTypeOK
    <2>3. PendingIsOwn' /\ ActivatedNotPending' /\ ActivatedByTimelyCode'
      BY <1>1, <1>2, <2>1
      DEF DeviceInv, DeviceTypeOK, PendingIsOwn, ActivatedNotPending, ActivatedByTimelyCode
    <2>4. UsedNotPending'
      BY <1>1, <1>2, <2>1 DEF DeviceInv, DeviceTypeOK, PendingIsOwn, UsedNotPending
    <2> QED BY <1>3, <2>2, <2>3, <2>4 DEF DeviceInv
  <1>5. CASE ~(call[c].code = s /\ device[d] # NoDevice)
    <2>1. UNCHANGED <<device, pending, by, used>>
      BY <1>5 DEF Finish
    <2>2. DeviceTypeOK'
      BY <1>1, <1>2, <2>1 DEF DeviceInv, DeviceTypeOK
    <2> QED BY <1>2, <1>3, <2>1, <2>2
        DEF DeviceInv, PendingIsOwn, ActivatedNotPending, UsedNotPending,
            ActivatedByTimelyCode
  <1> QED BY <1>4, <1>5

\* What is left only takes activations away, or lets time pass.
LEMMA OtherInv ==
  ASSUME DeviceInv,
         (\E d \in Devices : Deactivate(d)) \/ Clear \/ Tick \/ UNCHANGED deviceVars
  PROVE  DeviceInv'
  <1> USE DEF NoSecret, NoDevice, Registered, Activated, Idle
  <1>1. ASSUME NEW d \in Devices, Deactivate(d) PROVE DeviceInv'
    BY <1>1
    DEF DeviceInv, DeviceTypeOK, CallsHoldOwnSecret, PendingIsOwn, ActivatedNotPending,
        UsedNotPending, ActivatedByTimelyCode, Deactivate
  <1>2. CASE Clear
    BY <1>2
    DEF DeviceInv, DeviceTypeOK, CallsHoldOwnSecret, PendingIsOwn, ActivatedNotPending,
        UsedNotPending, ActivatedByTimelyCode, Clear
  <1>3. CASE Tick
    <2>1. age' \in [Secrets -> 0 .. Expiry + 1]
      BY <1>3, DeviceAssumption DEF Tick, DeviceInv, DeviceTypeOK
    <2> QED BY <1>3, <2>1
        DEF DeviceInv, DeviceTypeOK, CallsHoldOwnSecret, PendingIsOwn, ActivatedNotPending,
            UsedNotPending, ActivatedByTimelyCode, Tick
  <1>4. CASE UNCHANGED deviceVars
    BY <1>4
    DEF DeviceInv, DeviceTypeOK, CallsHoldOwnSecret, PendingIsOwn, ActivatedNotPending,
        UsedNotPending, ActivatedByTimelyCode, deviceVars
  <1> QED BY <1>1, <1>2, <1>3, <1>4

\* DeviceInv holds throughout.
LEMMA SpecInv == Spec => []DeviceInv
  <1>1. DeviceInv /\ [Next]_deviceVars => DeviceInv'
    BY RequestInv, ValidateInv, FinishInv, OtherInv DEF Next
  <1> QED BY InitInv, <1>1, PTL DEF Spec

-----------------------------------------------------------------------------
(* The theorems *)

\* The variables keep their types, and a device has an activation token exactly
\* while it is activated.
THEOREM DeviceTypes == Spec => []DeviceTypeOK
  BY SpecInv, PTL DEF DeviceInv

\* An activated device is closed to codes until the next request, however many
\* validations overlap (validateDeviceActivation).
THEOREM ActivatedClosed == Spec => []ActivatedNotPending
  BY SpecInv, PTL DEF DeviceInv

\* A secret that activated a device is never pending again.
THEOREM SecretSpent == Spec => []UsedNotPending
  BY SpecInv, PTL DEF DeviceInv

\* Every activation goes back to a code for this device presented in time.
THEOREM TimelyActivation == Spec => []ActivatedByTimelyCode
  BY SpecInv, PTL DEF DeviceInv
===============================================================================
