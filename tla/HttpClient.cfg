SPECIFICATION Spec
CONSTANTS
    Downloads = {d}
    Auths = {a}
    Pieces = 3
    Relock = "passes"
INVARIANTS AuthOnce SignedSuccess NotForgotten FileHoldsTheBody QuietAfterCancel
CHECK_DEADLOCK FALSE
