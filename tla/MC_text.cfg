SPECIFICATION TextSpec
CONSTANTS
    MaxBody = 7
    Heads <- MCHeads
    Bodies <- MCBodies
    Numbers <- MCNumbers
    Lines <- MCLines
    MaxLine = 3
    Section <- MCSection
    Key <- MCKey
INVARIANTS
    TextTypeOK
    CutAnswerIsRefused
    SettingIsTheSections
CHECK_DEADLOCK FALSE
