CONSTANTS
    Call <- MCCall
    NoCall <- MCNoCall
    Tool <- MCCall
    NoTool <- MCNoCall
    Parent <- MCParent
    Settings <- MCSettings
    Jobs <- MCJobs
    Driver <- MCDriver
    Compiler <- MCCompiler
    InputsOf <- MCInputsOf
    Pid = {1, 2}
    MaxKills = 1
    Builds <- MCBuilds
SPECIFICATION FairSpec
INVARIANTS TypeOK ConfigKept InputsOwn AnalysedOnce ExitTransparent
PROPERTY CallsReturn
