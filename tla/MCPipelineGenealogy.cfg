CONSTANTS
    Task <- AllTasks
    Programs <- AllPrograms
    OptionChoices <- WithCleaning
SPECIFICATION Spec
INVARIANTS GenealogyKept
