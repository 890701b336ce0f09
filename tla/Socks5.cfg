SPECIFICATION FairSpec
CONSTANTS
    ConnectReplies = {"IPv4", "Host", "IPv6", "Other"}
    HostLengths = {0, 4, 6, 7, 127, 128, 248, 249, 252, 255}
    SignedChar = TRUE
    Cuts = {1, 2, 3, 5}
INVARIANTS OneVerdict SuccessIsWhole
PROPERTIES EndsOrSplits
CHECK_DEADLOCK FALSE
