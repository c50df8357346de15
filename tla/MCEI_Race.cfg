SPECIFICATION Spec
CONSTANTS
    r1 = r1
    r2 = r2
    r3 = r3
    r4 = r4
    c1 = c1
    c2 = c2
    k1 = k1
    None = None
    Correlations = {c1, c2}
    Keys = {k1}
    Key <- MCKey
    Enabled = TRUE
    Requests = {r1, r2}
    Corr <- PairCorr
INVARIANTS
    OneEventPerCorrelation
CHECK_DEADLOCK FALSE
