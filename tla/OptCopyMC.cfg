SPECIFICATION Spec
CONSTANTS
    BlockIds <- OptBlocks
    Entry = 1
    Exit = 2
    NoControl = none
    Width = 3
    Bits <- OptBits
    Unsigned = {"U"}
    Global = {"k", "m", "v"}
    Address <- OptAddress
    Stride = 100
    MaxBlocks = 40
    Programs <- CopyPrograms
    Inputs <- OptInputs
    MaxCalls = 80
PROPERTY EffectKept
CHECK_DEADLOCK FALSE
