SPECIFICATION FairSpec
CONSTANTS
    Threads = {w1, w2}
    Clients = {c1}
    Posters = {c1}
    Stoppers = {c1}
    Tasks = {t1, t2}
    Delays = {1, 2}
    MaxTime = 2
    StopTask = StopTask
CHECK_DEADLOCK FALSE
PROPERTIES ImplementsQueue AcceptedIsServed StopReturns
