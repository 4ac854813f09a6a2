SPECIFICATION Spec
CONSTANTS
    Files = {a, b}
    NoName = NoName
    MaxFiles = 3
    MaxData = 2
INVARIANTS
    HasDocument
    

    
SYMMETRY FileSymmetry
