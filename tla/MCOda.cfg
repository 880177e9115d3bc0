SPECIFICATION Spec
CONSTANTS
    PROGRAMS = 2
    Clients = {"af", "ert", "rtp", "ertp"}
    Temps = {"temp1", "temp2"}
    Sequences <- MCSequences
    Saved <- MCSaved
    MaxCommands = 4
    MaxResets = 1
INVARIANTS HolderKnowsSlot
PROPERTIES TakenOut TurnComes EveryKind TempAnnounced
