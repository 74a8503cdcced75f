------------------------------- MODULE TotpDrift -------------------------------
(***************************************************************************)
(* TotpToken with the clock of the device, which runs at a speed of its    *)
(* own, to say what the time shift is for: a device that logs in often     *)
(* enough keeps passing however far its clock gets from the server's.      *)
(***************************************************************************)
EXTENDS TotpToken

CONSTANTS MaxDrift      \* bound of the difference of the clocks

ASSUME DriftAssumption == MaxDrift \in Nat

VARIABLES
    drift,     \* the seconds the clock of the device is ahead
    inSync     \* history: the drift when the value on the device last passed

driftVars == <<totpVars, drift, inSync>>

Never == MaxDrift + 1

DeviceCounter == (now + drift) \div TimeStep
DeviceValue == Totp(secret, DeviceCounter)

\* The difference of the clocks may grow by the steps of the window but two: one
\* for the beginning of the step, one for the end of the window.  What the time
\* window has beyond whole steps is no use.
Tolerance == (CheckWindow - 2) * TimeStep

DriftInit == Init /\ drift = 0 /\ inSync = Never

\* A value that passes for another counter than that of the device puts the shift
\* off.
Heard == inSync' = IF count' = count THEN inSync ELSE
                   IF accepted'[Len(accepted')] = DeviceCounter THEN drift ELSE Never

DriftNext ==
    \/ /\ \/ /\ \/ \E v \in Values : PresentOtp(v) \/ FindByOtp(v) \/ FindInList(v)
                \/ \E v1, v2 \in Values : Resync(v1, v2)
             /\ Heard
          \/ (\E key \in Keys : Reenroll(key)) /\ inSync' = Never
          \/ Tick /\ UNCHANGED inSync
       /\ UNCHANGED drift
    \/ /\ drift' \in {drift - 1, drift + 1} \cap (-MaxDrift .. MaxDrift)
       /\ UNCHANGED <<totpVars, inSync>>

DriftSpec == DriftInit /\ [][DriftNext]_driftVars

\* After the value on the device passed, by an authentication, a search or either
\* resynchronisation, the value it shows passes again as soon as it is a new one
\* and as long as the clocks moved apart by no more than the tolerance: whatever
\* was refused in between, and however far the clocks are apart by then
\* (timeShift of check_otp, _autosync and resync; the window of checkOtp).
SyncedDevicePasses ==
    /\ inSync # Never
    /\ drift - inSync \in -Tolerance .. Tolerance
    /\ DeviceCounter > count
    => CheckOtp(DeviceValue, CheckWindow).res = DeviceCounter
===============================================================================
