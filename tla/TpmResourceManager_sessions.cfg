SPECIFICATION Spec
CONSTANTS
    Senders = {s, t}
    ObjectSlots = 2
    SessionSlots = 2
    SessionHandles = 3
    MaxGap = 5
    MaxVirtual = 1
    Objects = {}
    MaxSessions = 5
    MaxVersion = 0
INVARIANTS TypeOK LiveSessionsWork SessionsAgree
SYMMETRY Symmetry
CHECK_DEADLOCK FALSE
