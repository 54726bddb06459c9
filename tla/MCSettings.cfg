SPECIFICATION MCSpec
CONSTANTS
    Blank = Blank
    Ids = {a, b}
    MergeTexts = {t, u}
    MaxConfigured = 2
    MaxFound = 3
    MaxText = 3
    Base = 8
    Word = 5
    Single = 4
    Double = 5
    Instances = 512
    Mantissa = 512
    Units = {1, 2, 4, 8, 16, 32, 64}
    Utf8 <- MCUtf8
    MaxBytes = 6
    Current = 3
    Old <- MCOld
    Preferences = {choice1, choice2}
    NoFile = NoFile
    Unreadable = Unreadable
CHECK_DEADLOCK FALSE
INVARIANTS
    ShownIsInForce
    MergeCorrect
    NamesSound
    ScalarsDecoded
PROPERTIES
    SecretsOnlyIfRemembered
    RestartKeepsSettings
