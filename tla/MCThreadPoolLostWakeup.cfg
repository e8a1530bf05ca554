CONSTANTS
    t1 = t1
    t2 = t2
    Thread = {t1, t2}
    PoolSize = 1
SPECIFICATION FairSpec
PROPERTY WaitTerminates
