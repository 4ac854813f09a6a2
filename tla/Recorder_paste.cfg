SPECIFICATION Spec
CONSTANTS
    Tab = {t1, t2}
    None = None
    MaxLen = 2
    MaxList = 2
    MaxSteps = 8
INVARIANT PlayGivesSame
SYMMETRY Symmetry
CHECK_DEADLOCK FALSE
