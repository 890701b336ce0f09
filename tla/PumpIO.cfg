SPECIFICATION Spec
CONSTANTS
    Threads = {w1}
    Clients = {c1, c2}
    Posters = {c1, c2, w1}
    Stoppers = {c1}
    Tasks = {t1, t2, t3}
    Delays = {0, 1}
    MaxTime = 1
    StopTask = StopTask
CHECK_DEADLOCK FALSE
SYMMETRY TaskSymmetry
INVARIANTS TypeOK NoLostWakeup ExactlyOnce RunsInOrder QuietStopDrains
