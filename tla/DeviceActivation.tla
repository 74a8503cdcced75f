--------------------------- MODULE DeviceActivation ---------------------------
(***************************************************************************)
(* Activation of devices by DeviceManagementService                        *)
(* (src/nodejs_package/two-factor-auth/src/services).  A request stores a  *)
(* new secret for a device, and a code of that secret activates the        *)
(* device.  The code is checked behind an await: the secret is read from   *)
(* the pending map before it, the device written after it, and every other *)
(* call may run in between.  A secret is a number, a code the secret it is *)
(* made of, or 0 for a code of no secret.                                  *)
(***************************************************************************)
EXTENDS Naturals

CONSTANTS
    Devices,      \* the device ids
    Calls,        \* the validations that can be under way at once
    Expiry,       \* activationExpiryMinutes, in ticks of the clock
    MaxSecrets    \* bound of the activation requests

ASSUME DeviceAssumption == Expiry \in Nat /\ MaxSecrets \in Nat

VARIABLES
    secrets,      \* the number of secrets generated so far
    age,          \* age[s]: ticks since secret s was generated, Expiry + 1 at most
    pending,      \* pendingActivations: the secret of a device, 0 for none
    device,       \* the devices map: what is known of a device
    call,         \* the secret and the code of a validation at its await
    requested,    \* history: the device each secret was generated for
    timely,       \* history: the secrets a right code was presented for in time
    by,           \* activationToken, as the secret it was issued for; 0 for none
    used          \* history: the secrets that ever activated a device

deviceVars == <<secrets, age, pending, device, call, requested, timely, by,
                used>>

NoSecret == 0
NoDevice == "absent"
Registered == "registered"     \* isActivated is false, no activationToken
Activated == "activated"       \* isActivated is true, with an activationToken
Idle == [of |-> NoDevice, secret |-> NoSecret, code |-> NoSecret]
Secrets == 1 .. MaxSecrets

Init ==
    /\ secrets = 0
    /\ age = [s \in Secrets |-> 0]
    /\ pending = [d \in Devices |-> NoSecret]
    /\ device = [d \in Devices |-> NoDevice]
    /\ call = [c \in Calls |-> Idle]
    /\ requested = [s \in Secrets |-> NoDevice]
    /\ timely = {}
    /\ by = [d \in Devices |-> NoSecret]
    /\ used = {}

\* Mutant: a device that is activated stays so until the new code is entered.
RequestKeepsDevice(d) ==
    LET s == secrets + 1 IN
      /\ s <= MaxSecrets
      /\ secrets' = s
      /\ age' = [age EXCEPT ![s] = 0]
      /\ pending' = [pending EXCEPT ![d] = s]
      /\ device' = [device EXCEPT ![d] = IF @ = NoDevice THEN Registered ELSE @]
      /\ requested' = [requested EXCEPT ![s] = d]
      /\ UNCHANGED <<call, timely, by, used>>

\* requestDeviceActivation: the pending activation and the device entry are
\* replaced, whatever they were.
Request(d) ==
    LET s == secrets + 1 IN
      /\ s <= MaxSecrets
      /\ secrets' = s
      /\ age' = [age EXCEPT ![s] = 0]
      /\ pending' = [pending EXCEPT ![d] = s]
      /\ device' = [device EXCEPT ![d] = Registered]
      /\ requested' = [requested EXCEPT ![s] = d]
      /\ by' = [by EXCEPT ![d] = NoSecret]
      /\ UNCHANGED <<call, timely, used>>

\* What the specification remembers of the code at its arrival, by the age of
\* the secret and not by what the service has stored.
Present(d, code) ==
    timely' = IF code # NoSecret /\ requested[code] = d /\ age[code] <= Expiry
                THEN timely \cup {code} ELSE timely

\* Mutant: an expired request is not refused.
ValidateExpired(c, d, code) ==
    /\ call[c] = Idle
    /\ pending[d] # NoSecret
    /\ call' = [call EXCEPT ![c] = [of |-> d, secret |-> pending[d], code |-> code]]
    /\ Present(d, code)
    /\ UNCHANGED <<secrets, age, pending, device, requested, by, used>>

\* validateDeviceActivation up to its await.  Without a pending activation the
\* call returns and changes nothing.
Validate(c, d, code) ==
    /\ call[c] = Idle
    /\ pending[d] # NoSecret
    /\ IF age[pending[d]] > Expiry
         THEN /\ pending' = [pending EXCEPT ![d] = NoSecret]
              /\ UNCHANGED call
         ELSE /\ call' = [call EXCEPT ![c] =
                            [of |-> d, secret |-> pending[d], code |-> code]]
              /\ UNCHANGED pending
    /\ Present(d, code)
    /\ UNCHANGED <<secrets, age, device, requested, by, used>>

\* Mutant: the activation stays pending after its success.
FinishKeepsPending(c) ==
    /\ call[c] # Idle
    /\ call' = [call EXCEPT ![c] = Idle]
    /\ LET d == call[c].of
           right == call[c].code = call[c].secret IN
         IF right /\ device[d] # NoDevice
           THEN /\ device' = [device EXCEPT ![d] = Activated]
                /\ by' = [by EXCEPT ![d] = call[c].secret]
                /\ used' = used \cup {call[c].secret}
           ELSE UNCHANGED <<device, by, used>>
    /\ UNCHANGED <<secrets, age, pending, requested, timely>>

\* The rest of the call, after validateTotp: a right code activates whatever
\* entry the device has now, and ends whatever activation is pending now.
Finish(c) ==
    /\ call[c] # Idle
    /\ call' = [call EXCEPT ![c] = Idle]
    /\ LET d == call[c].of
           right == call[c].code = call[c].secret IN
         IF right /\ device[d] # NoDevice
           THEN /\ device' = [device EXCEPT ![d] = Activated]
                /\ pending' = [pending EXCEPT ![d] = NoSecret]
                /\ by' = [by EXCEPT ![d] = call[c].secret]
                /\ used' = used \cup {call[c].secret}
           ELSE UNCHANGED <<device, pending, by, used>>
    /\ UNCHANGED <<secrets, age, requested, timely>>

\* Mutant: the activation token outlives the activation.
DeactivateKeepsToken(d) ==
    /\ device[d] # NoDevice
    /\ device' = [device EXCEPT ![d] = Registered]
    /\ UNCHANGED <<secrets, age, pending, call, requested, timely, by, used>>

\* deactivateDevice: a pending activation and a validation under way go on.
Deactivate(d) ==
    /\ device[d] # NoDevice
    /\ device' = [device EXCEPT ![d] = Registered]
    /\ by' = [by EXCEPT ![d] = NoSecret]
    /\ UNCHANGED <<secrets, age, pending, call, requested, timely, used>>

\* clearAllDevices; the validations under way hold on to their secrets.
Clear ==
    /\ device' = [d \in Devices |-> NoDevice]
    /\ pending' = [d \in Devices |-> NoSecret]
    /\ by' = [d \in Devices |-> NoSecret]
    /\ UNCHANGED <<secrets, age, call, requested, timely, used>>

Tick ==
    /\ age' = [s \in Secrets |->
                 IF s <= secrets /\ age[s] <= Expiry THEN age[s] + 1 ELSE age[s]]
    /\ UNCHANGED <<secrets, pending, device, call, requested, timely, by, used>>

Next ==
    \/ \E d \in Devices : Request(d) \/ Deactivate(d)
    \/ \E c \in Calls, d \in Devices, code \in 0 .. secrets : Validate(c, d, code)
    \/ \E c \in Calls : Finish(c)
    \/ Clear
    \/ Tick

Spec == Init /\ [][Next]_deviceVars

-----------------------------------------------------------------------------
(* Properties *)

\* The types, and that a device has an activation token exactly while it is
\* activated.
DeviceTypeOK ==
    /\ secrets \in 0 .. MaxSecrets
    /\ age \in [Secrets -> 0 .. Expiry + 1]
    /\ pending \in [Devices -> 0 .. secrets]
    /\ device \in [Devices -> {NoDevice, Registered, Activated}]
    /\ call \in [Calls -> [of : Devices \cup {NoDevice}, secret : 0 .. secrets,
                           code : 0 .. secrets]]
    /\ requested \in [Secrets -> Devices \cup {NoDevice}]
    /\ timely \subseteq 1 .. secrets
    /\ by \in [Devices -> 0 .. secrets]
    /\ used \subseteq 1 .. secrets
    /\ \A d \in Devices : by[d] # NoSecret <=> device[d] = Activated

\* An activated device has no activation pending, so that the next request, and
\* nothing before it, opens it to a code again: through every overlap of
\* requests, validations, deactivations and clearings (the two maps of the
\* service are written by different calls around the await).
ActivatedNotPending ==
    \A d \in Devices : device[d] = Activated => pending[d] = NoSecret

\* A secret that ever activated a device is pending for none: whoever presents
\* its code once more, after the device was deactivated or asked for again, is
\* refused, unless his validation was at its await at the first success.
UsedNotPending == \A d \in Devices : pending[d] \notin used

\* A device is activated only by a code of a secret that was generated for this
\* very device, presented before the secret expired; the request for it may have
\* been replaced, and the device deactivated or cleared, since.
ActivatedByTimelyCode ==
    \A d \in Devices :
      device[d] = Activated => by[d] \in timely /\ requested[by[d]] = d
===============================================================================
