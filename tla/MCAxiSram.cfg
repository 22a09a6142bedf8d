CONSTANTS
    Lane = {l1}
    Byte = {0, 1}
    CntMod = 4
    Depth = 3
    None = None
    Requests <- UsedRequests
SPECIFICATION FairSpec
INVARIANT BurstInv
PROPERTIES ImplementsBurstMemory ReadsEnd WritesEnd
CHECK_DEADLOCK TRUE
