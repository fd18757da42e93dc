SPECIFICATION Spec
CONSTANTS
    a1 = a1
    a2 = a2
    f = f
    Clients = {a1, a2, f}
    Service <- MCService
    Sizes <- MCSizes
    MaxEvents = 2
    RecvMax = 4
    MinSize = 2
    MaxUnread <- MCMaxUnread
CHECK_DEADLOCK FALSE
INVARIANTS
    TypeOK
    SlotsCurrent
    EventsCurrent
    LossHasCause
    OnlyCrowdedGarbled
