SPECIFICATION Spec
CONSTANTS
    Types = {"RESPONSE", "BOTH"}
    StartLines <- MCStartLines
    FieldLines <- MCFieldLines
    ChunkLines <- MCChunkLines
    BodyBytes <- MCBodyBytes
    ULLONG_MAX = 63
    HTTP_MAX_HEADER_SIZE = 50
    Answers <- MCAnswers
    MaxLines = 2
    MaxParts = 3
    MaxCuts = 1
    MaxAnswers = 1
    MaxMessages = 2
INVARIANTS AssertsHold CutsDoNotShow LengthIsExact BodyIsWhole NotificationsInOrder
CHECK_DEADLOCK FALSE
