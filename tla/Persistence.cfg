SPECIFICATION SavesSpec
CONSTANTS
    Settings = {s1, s2, s3}
    Down = Down
    Nothing = Nothing
    Torn = Torn
    OpenFails = TRUE
    RenameFails = TRUE
    WriteFails = FALSE
INVARIANTS StopKeepsSettings
PROPERTIES  Durable
