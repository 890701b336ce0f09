SPECIFICATION Spec
CONSTANTS
    Urls <- MCUrls
    OffMod = 65536
    PortMax = 65535
INVARIANTS FieldsPartition ConnectsToHost
CHECK_DEADLOCK FALSE
