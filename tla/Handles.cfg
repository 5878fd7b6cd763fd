SPECIFICATION Spec
CONSTANTS
    NoId = NoId
    NULL = NULL
    Objects = {o1, o2, o3}
    Ids = {a, b}
    MaxHandles = 3
    MaxDepth = 3
SYMMETRY Symmetry
INVARIANTS
    TypeOK
    NoDangling
    NoLeak
    NoCredentialsLeft
    OnNewOnce
    PristineMeansMine
CHECK_DEADLOCK FALSE
