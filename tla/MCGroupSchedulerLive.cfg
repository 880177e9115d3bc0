SPECIFICATION Spec
CONSTANTS
    PROGRAMS = 2
    SqcSize = 1
    Zeros = 1
    IndexMod = 3
    Codes <- MCLiveCodes
    GrpSeqs <- MCLiveGrpSeqs
    StreamCounts <- MCLiveStreamCounts
    PtyBits = {}
    Minutes = 2
    MaxCommands = 2
    MaxTicks = 1
PROPERTIES CustomDrains SlotsRecur
