SPECIFICATION FairI2cSpec
CONSTANTS
    Values = {0, 1}
    BufferSize = 3
    ByteMod = 5
    Timeouts = {1, 2}
INVARIANTS I2cTypeOK InsideBuffer FreeBetweenCalls
PROPERTIES CallReturns ImplementsTransfer
