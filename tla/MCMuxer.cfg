SPECIFICATION Spec
CONSTANTS
    Fds = {1, 2, 3}
    Sids = {10, 20}
    Masks <- MCMasks
    Size = 2
INVARIANTS
    TypeOK
    Sorted
    
PROPERTY
    MuxRefinement
