SPECIFICATION FairI2cSpec
CONSTANTS
    Values = {0}
    BufferSize = 3
    ByteMod = 5
    Timeouts = {1}
PROPERTIES CallBlocksForTimeout
