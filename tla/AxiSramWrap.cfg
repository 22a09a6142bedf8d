CONSTANTS
    Lane = {l1}
    Byte = {0, 1}
    CntMod = 16
    Depth = 4
    None = None
    Requests <- WrapRequests
SPECIFICATION Spec
PROPERTY ImplementsBurstMemory
