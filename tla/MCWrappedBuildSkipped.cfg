CONSTANTS
    Call <- MCCall
    NoCall <- MCNoCall
    Tool <- MCCall
    NoTool <- MCNoCall
    Parent <- MCParent
    Settings <- MCSettings
    Jobs <- MCJobs
    Driver <- MCDriver
    Compiler <- MCCompiler
    InputsOf <- MCInputsOf
    Pid = {1, 2}
    MaxKills = 0
    Builds <- MCUsualBuilds
SPECIFICATION Spec
INVARIANT NothingSkipped
