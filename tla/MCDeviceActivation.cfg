SPECIFICATION Spec
CONSTANTS
    Devices = {d1, d2}
    Calls = {c1, c2}
    Expiry = 1
    MaxSecrets = 3
INVARIANTS
    DeviceTypeOK
    ActivatedNotPending
    UsedNotPending
    ActivatedByTimelyCode
