SPECIFICATION Spec
CONSTANTS
    v1 = v1
    v2 = v2
    All = All
    N = 3
    Values = {v1, v2}
    Owner <- MCOwner
    Deployments <- MCDeployments
SYMMETRY MCSymmetry
INVARIANTS AckedKept DeleteClears ReaderSees NoDuplicate
