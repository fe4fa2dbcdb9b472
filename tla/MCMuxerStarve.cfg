SPECIFICATION FairSpec
CONSTANTS
    Fds = {1, 2}
    Sids = {10}
    Masks <- MCMasksIn
    Size = 1
PROPERTY
    ReadyReported
