SPECIFICATION FairSpec
CONSTANTS
    t1 = t1  t2 = t2  t3 = t3  t4 = t4
    Tasks = {t1, t2, t3, t4}
    Limit = 2
INVARIANTS TypeOK SemaphoreInv DrainCovers NothingAfterClose
PROPERTIES ShutdownEnds EveryTaskEnds
CHECK_DEADLOCK FALSE
