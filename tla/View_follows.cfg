SPECIFICATION Spec
CONSTANTS
    NearShare = 2
    Strings <- MCStrings
    MaxLen <- MCMaxLen
    MaxSteps <- MCMaxSteps
    Indicators = {0, 8}
    MaxHeight = 2
INVARIANTS
    LinesFollowText
    MarkerFollowsText
    IndicatorsFollowText
    CurrentIsAlive
    FoldsFollowLines
    RowsMatchLines
    FoldKeepsItsMarker
CHECK_DEADLOCK FALSE
