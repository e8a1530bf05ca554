CONSTANTS
    Task <- AllTasks
    Programs <- AllPrograms
    OptionChoices <- WithoutRules
SPECIFICATION Spec
INVARIANTS UDMFollowsProfile
