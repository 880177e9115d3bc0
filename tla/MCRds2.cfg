SPECIFICATION Spec
CONSTANTS
    file1 = file1
    file2 = file2
    file3 = file3
    file4 = file4
    script = script
    Files <- MCFiles
    Plain = {script}
    Orders <- MCOrders
    AtStart <- MCStart
    StartOrder <- MCStartOrder
    CRCEVERY = 1
    MODESEGS = 2
    AIDCOUNT = 4
    StreamCounts = {1, 2}
    MaxCommands = 2
PROPERTIES OnceWhole AllRecur
