CONSTANTS
    NbBanks = 2
    BankLen = 3
    Depth = 2
    Lane = {0, 1}
    Byte = {0, 1}
    CntMod = 3
    None = None
    Requests <- MCRequests
    Data <- MCData
    Strobes <- MCStrobes
SPECIFICATION FairCim
PROPERTIES BeatsAreWords WritesConfined BurstsEnd
