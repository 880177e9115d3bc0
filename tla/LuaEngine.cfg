SPECIFICATION Spec
CONSTANTS
    UdpPort = TRUE
    MaxCalls = 3
    MaxCommands = 3
INVARIANTS OneThreadInLua DefaultsNotNested SavedAlone
PROPERTIES CommandHandled GroupsGoOn StopEnds
CHECK_DEADLOCK FALSE
