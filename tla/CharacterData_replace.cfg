CONSTANTS
    Args <- MCArgs
    Offsets <- MCOffsets
    Counts <- MCCounts
    InitTexts <- MCInitTexts
    MaxBytes <- MCMaxBytes

SPECIFICATION SpecReplaceAny

INVARIANT ValidUTF8
