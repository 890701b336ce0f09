SPECIFICATION FairSpec
CONSTANTS
    Platforms = {"win", "android"}
    Workers = {w}
    Others = {o}
    Main = Main
    Tasks = {t1, t2}
    StopTask = StopTask
    Delays = {0, 1}
    MaxTime = 1
CHECK_DEADLOCK FALSE
INVARIANTS NoLostWakeup
PROPERTIES NothingStartsAfterStop ImplementsQueue WaitingIsServed UnintMessageLoopReturns
