SPECIFICATION Spec
CONSTANTS
    Tasks = {t1, t2}
    Workers = {w1}
    Regenerators = {}
    Publishers = {p1, p2}
    Dues = {0}
    WeekLength = 1
    Retention = 0
    MaxVersion = 3
    MaxTime = 0
    NoFile = NoFile
SYMMETRY MCSymmetry
INVARIANTS
    ArchivedIsPublished
PROPERTIES
    CleanedWasPublished
