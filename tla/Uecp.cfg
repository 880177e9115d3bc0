SPECIFICATION Spec
CONSTANTS
    PROGRAMS = 2
    Dsns = {0, 1, 2, 254, 255}
    Repeats = {0, 2}
    StreamCounts = {1, 2, 3}
    MaxCommands = 3
PROPERTIES NamedOnly BuffersRotate
