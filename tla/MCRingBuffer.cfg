CONSTANTS
    Capacity = 4
    CounterMod = 8
    Event = {e1, e2}
    NoEvent = NoEvent
    Torn = Torn
SPECIFICATION Spec
INVARIANTS TypeOK NoSlotRace
PROPERTY FifoSpec
