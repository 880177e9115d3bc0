SPECIFICATION Spec
CONSTANTS
    Segments = 3
    MaxTexts = 3
    MaxResets = 1
    Length <- MCLength
INVARIANTS AddressInText NoMixedText
PROPERTIES LastTextShown BroadcastSpec
