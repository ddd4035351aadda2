CONSTANTS
    NoLogin = NoLogin
    Bits = 8
    Address <- MCAddress
    Byte = 8
    MaxLogLines = 4
    Files <- MCFiles
    Portals <- MCPortals
    Links <- MCLinks
    Loads <- MCLoads
    Repairs <- MCRepairs
    Messages <- MCMessages
    Exchanges <- MCExchanges
    Sweeps <- MCSweeps
SPECIFICATION Spec
INVARIANTS
    
    ImportSurvivesEditing
    OwnSecretChosen
    RepairSparesTheLiving
    NothingLostOnTheWire
    EveryEventReturned
    UpMeansAnswered
