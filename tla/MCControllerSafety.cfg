CONSTANTS
    Task <- AllTasks
    DependencyChoices <- AllShapes
    Programs <- SmallPrograms
    OptionChoices <- Runs
    Escaping = {"GraphMergeTask"}
    PoolSize = 2
SPECIFICATION FairProgramSpec
INVARIANTS ProgramTypeOK EmptyFuturesMeansIdle NoUseAfterDelete LogInOrder
PROPERTIES NothingStartsAfterFailure ImplementsDependencySchedule ImplementsAnalysisPipeline ExecutionTerminates
CHECK_DEADLOCK FALSE
