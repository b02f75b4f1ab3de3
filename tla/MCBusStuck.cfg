CONSTANTS
    BUFFERS = 2
    FRAMES = 3
    COMMANDS = 0
    DISCONNECTS = 0
    SUSPENDS = 0
    TICKS = 1
SPECIFICATION ThreadSpec
PROPERTIES
    FramesGetOut
