SPECIFICATION Spec
CONSTANTS
    PROGRAMS = 2
    SqcSize = 2
    Zeros = 1
    IndexMod = 4
    Codes <- MCCodes
    GrpSeqs <- MCGrpSeqs
    StreamCounts <- MCStreamCounts
    PtyBits = {1}
    Minutes = 2
    MaxCommands = 2
    MaxTicks = 1
INVARIANTS TypeOK SwitchSpoilsOne TunnelFresh
PROPERTIES CtOncePerMinute CustomOnce MinuteTickOnChange
