CONSTANTS
    Task <- AllTasks
    Programs <- AllPrograms
    OptionChoices <- OrderedCommandLines
SPECIFICATION Spec
CONSTRAINT Explored
INVARIANTS TypeOK TablesOrdered RaceFree InputsPresent DumpComplete UDMFollowsProfile GenealogyKept
