SPECIFICATION FairSpec
CONSTANTS
    Texts = {e, t}
    Names = {a}
    NoName = NoName
    NoText = NoText
    Empty = e
    MaxUndo = 2
    MaxClock = 3
    IOFaults = FALSE
INVARIANTS
    NoFalseAlarm
    ForeignIsNoticed
PROPERTIES
    EditIsMarked
    
