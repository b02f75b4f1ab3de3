CONSTANTS
    BUFFERS = 2
    FRAMES = 3
    COMMANDS = 3
    DISCONNECTS = 1
    SUSPENDS = 1
    TICKS = 2
SPECIFICATION ThreadSpec
INVARIANTS
    FramesShownInOrder
    CommandsInOrder
    InputNeverStalls
PROPERTIES
    CommandsAreServed
    FifoIsRead
    ListensAgain
