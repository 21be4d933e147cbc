SPECIFICATION FairSpec
CONSTANTS
    SPACE = 16
    PAGESIZE = 4
    ptable_hash <- MCHash
    Byte <- MCByte
    ZeroByte = 0
    NULL_ADDR = 0
    IO_CHAR_ADDR = 15
    RET_FROM_MAIN_ADDR = 12
    seg_start_addr <- MCStarts
    seg_prot <- MCProts
    code_order = "L_ENDIAN"
    data_order = "L_ENDIAN"
    Files <- MCFiles
    Missing = Missing
    Widths = {1, 3}
    LONG = 3
    Words <- MCWords
    FETCH = 1
    ReadAddrs = {0, 3, 14, 15}
    WriteAddrs = {0, 3, 6, 12, 14, 15}
    FetchAddrs = {2, 4, 12}
    MAX_NUM_INSTR = 3
    MaxArgs = 2
CHECK_DEADLOCK FALSE
INVARIANTS
    TypeOK
    PagesDistinct
    ImageLoaded
    OutputLogged
    FatalIsLast
PROPERTIES
    ImplementsFlat
    Terminates
