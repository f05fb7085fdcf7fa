SPECIFICATION FairSpec
CONSTANTS
    Procs = {p1, p2}
    Nobody = nobody
    MaxRows = 1
    MaxFiles = 2
    MaxMade = 2
    MaxBackups = 1
    MaxBytes = 3
    MaxTrouble = 2
    CanRenameOpen = FALSE
INVARIANTS
    TypeOK
    ReturnedBackupExists
PROPERTIES
    IsVaultButForLog
    LastSnapshotStays
    EveryCallReturns
