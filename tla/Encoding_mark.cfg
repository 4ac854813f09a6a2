SPECIFICATION Spec
CONSTANTS
    MAX_UTF8_BYTES = 3
    Bytes <- MCBytes
    MaxBytes = 4
    Files <- MCFiles
    MaxText = 3
    MaxDisk = 10
    Letter = 65
INVARIANTS
    Mark8IsKept
