SPECIFICATION Spec
CONSTANTS
    Letter = "a"
    Texts <- MCTexts
    Strings <- MCStrings
    MaxLen = 3
    MaxActs = 5
    Lengths = {1}
    Eols <- MCEols
    MaxBatch = 1
    MaxLeaks = 1
INVARIANTS
    ConvertedEols
    CleanIsSaved
    GroupIsOneStep
    GroupsMatch
PROPERTY
    IsHistory
