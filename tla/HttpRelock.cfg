SPECIFICATION Spec
CONSTANTS
    Downloads = {d}
    Auths = {}
    Pieces = 2
    Relock = "blocks"
INVARIANT FailureLeaves
CHECK_DEADLOCK FALSE
