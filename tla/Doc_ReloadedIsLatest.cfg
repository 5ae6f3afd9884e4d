SPECIFICATION Spec
CONSTANTS
    Senders = {s}
    ObjectSlots = 2
    SessionSlots = 1
    SessionHandles = 1
    MaxGap = 1
    MaxVirtual = 2
    Objects = {a}
    MaxSessions = 0
    MaxVersion = 3
INVARIANT ReloadedIsLatest
SYMMETRY Symmetry
CHECK_DEADLOCK FALSE
