SPECIFICATION Spec
CONSTANTS
    JavaThreads = {j}
    NativeThreads = {n}
    Members = {"app", "method", "field"}
    MaxFaults = 4
CHECK_DEADLOCK FALSE
INVARIANTS CallbackExceptionsEnd NotifiesArrive HelpersKeepNothing
