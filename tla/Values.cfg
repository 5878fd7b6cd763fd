SPECIFICATION Spec
CONSTANTS
    c1 = c1
    c2 = c2
    Clients = {c1, c2}
    Have <- MCHave
    PhpValues <- MCPhpValues
    Pieces <- MCPieces
    Offsets <- MCOffsets
    Initials <- MCInitials
    IniFiles <- MCIniFiles
    OptionCalls <- MCOptionCalls
    LongMax = 7
    Precision = 6
    Threshold = 10
    Factor = 130
    Size <- MCSize
    PackedSize <- MCPackedSize
    UserFlagsMax = 3
    FirstCas = 6
    MaxStores = 2
    MaxOptionChanges = 2
INVARIANTS
    TypeOK
    ReadsBack
    UserFlagsKept
    ReadsOwnValues
    CasIsExact
    CounterAgrees
CHECK_DEADLOCK FALSE
