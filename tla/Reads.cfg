SPECIFICATION Spec
CONSTANTS
    Keys = {k1, k2}
    SupportCas = FALSE
    Failures = TRUE
    MaxDepth = 2
SYMMETRY Symmetry
INVARIANTS
    TypeOK
    CasOnRequest
    NoLeftovers
    SuccessIsComplete
