SPECIFICATION Spec
CONSTANTS
    Senders = {s}
    ObjectSlots = 2
    SessionSlots = 1
    SessionHandles = 1
    MaxGap = 1
    MaxVirtual = 4
    Objects = {a, b, c}
    MaxSessions = 0
    MaxVersion = 0
INVARIANTS RightObjects LiveObjectsWork MapsAgree
SYMMETRY Symmetry
CHECK_DEADLOCK FALSE
