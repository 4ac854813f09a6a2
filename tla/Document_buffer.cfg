SPECIFICATION Spec
CONSTANTS
    Texts = {e, t}
    Names = {a, b}
    NoName = NoName
    NoText = NoText
    Empty = e
    MaxUndo = 2
    MaxClock = 1
    IOFaults = TRUE
INVARIANTS
    CleanMeansSaved
    
    BackupIsCurrent
    SavePointIsSaved
SYMMETRY NameSymmetry
