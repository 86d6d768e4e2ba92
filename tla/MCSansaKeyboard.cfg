CONSTANTS
    QLEN <- MCQLen
    SCROLL_MOD <- MCScrollMod
    b1 = b1
    r1 = r1
    hold = hold
    Buttons = {b1}
    HOLD = hold
    Readers = {r1}
    None = None
    BootPins = {}
    MaxChanges = 3
    MaxWant = 2
SPECIFICATION LiveSpec
INVARIANTS
    TypeOK
    NoLostWakeup
    EventsAddUp
    ButtonsTracked
PROPERTIES
    EventQueueSpec
    EventsWakeReader
CHECK_DEADLOCK FALSE
