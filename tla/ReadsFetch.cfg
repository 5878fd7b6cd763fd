SPECIFICATION Spec
CONSTANTS
    Keys = {k1, k2}
    SupportCas = FALSE
    Failures = FALSE
    MaxDepth = 1
INVARIANT
    FetchKeepsResults
