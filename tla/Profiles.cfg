CONSTANTS
    NoLogin = NoLogin
    None = None
    Files <- MCFiles
    Edits <- MCEdits
    Companion <- MCCompanion
    MaxLife = 2
SPECIFICATION Spec
INVARIANTS
    NothingInherited
    SavedEditsStand
    UntouchedFollowsFile
PROPERTY OnlyKeepableLogins
CHECK_DEADLOCK FALSE
