CONSTANTS
    t1 = t1
    t2 = t2
    t3 = t3
    Thread = {t1, t2, t3}
    PoolSize = 2
SPECIFICATION FairSpec
INVARIANTS TypeOK CountersExact QuietAfterDestruction
PROPERTIES ImplementsTaskSlots SlotsComeBack PoolSizeTasksFinish
