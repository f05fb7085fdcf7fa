SPECIFICATION Spec
CONSTANTS
    Tasks = {t1}
    Workers = {}
    Regenerators = {g1, g2}
    Publishers = {p1, p2}
    Dues = {}
    WeekLength = 2
    Retention = 2
    MaxVersion = 1
    MaxTime = 2
    NoFile = NoFile
SYMMETRY MCSymmetry
INVARIANTS
    TypeOK
    FilesMatchRun
    PublishedIsRemote
    OnlyConfirmedIsRemote
