SPECIFICATION PatientSpec
CONSTANTS
    Entries = {e1, e2, e3}
    None = None
    Slots = {s1, s2}
    MaxQueue = 2
    MaxTimers = 2
    MaxCalls = 2
CHECK_DEADLOCK FALSE
INVARIANTS TypeOK QueueInv
PROPERTIES TransferEnds LineSpec
