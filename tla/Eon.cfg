SPECIFICATION RotaSpec
CONSTANTS
    IndexMod = 8
    EONs = 3
    Ghosts = {3}
    MaxAfs = 3
    MaxCommands = 3
PROPERTIES NextInTurn NetworksRecur DisabledLeaves AfsRecur
