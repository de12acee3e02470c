CONSTANTS
    Args <- MCArgs
    Offsets <- MCOffsets
    Counts <- MCCounts
    InitTexts <- MCInitTexts
    MaxBytes <- MCMaxBytes

SPECIFICATION Spec

INVARIANT ValidUTF8

PROPERTY Refinement
