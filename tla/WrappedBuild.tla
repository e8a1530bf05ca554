---------------------------- MODULE WrappedBuild ----------------------------
(***************************************************************************)
(* A parallel build whose programs are wrapped: the calls of exewrapper     *)
(* (ExeWrapper) and the wrapper tools that they run (WrapperTools).         *)
(*                                                                         *)
(* The build program may make any calls at the same time that do not wait   *)
(* for each other's outputs: a call starts when the outputs that it links   *)
(* or archives have been made.                                              *)
(***************************************************************************)
EXTENDS ExeWrapper, WrapperTools

CONSTANT Builds    \* the builds considered: what they call, with which settings

ASSUME BuildsAssumption == Builds \subseteq [calls : SUBSET Call, setting : Settings]
ASSUME OneToolPerCall == Tool = Call /\ NoTool = NoCall

VARIABLE build     \* the calls of this build

vars == <<callVars, toolVars, build>>

TypeOK == /\ ExeTypeOK /\ ToolTypeOK
          /\ [calls |-> build, setting |-> setting] \in Builds

Init == /\ ExeInit /\ ToolInit
        /\ \E b \in Builds : build = b.calls /\ setting = b.setting

Outermost(c) == Parent[c] = NoCall

\* Calls on whose outputs c depends and that this build makes.
Needs(c) == (InputsOf[c] \ {c}) \cap build

Start(c) == /\ c \in build
            /\ \A d \in Needs(c) : step[d] = "done"
            /\ Enter(c) \/ EnterFails(c)
            /\ UNCHANGED <<toolVars, build>>

RunTool(c) == /\ RunToolFirst(c) \/ RunToolAfter(c)
              /\ Spawn(c)
              /\ UNCHANGED build

CallStep(c) == /\ \/ NoToolFirst(c) \/ NoToolAfter(c) \/ Leave(c)
                  \/ \E code \in Codes : OrigReturns(c, code)
               /\ UNCHANGED <<toolVars, build>>

ToolWorks(c) == ToolStep(c) /\ UNCHANGED <<callVars, build>>

\* run() returns when the wrapper tool's process has gone.
ToolEnds(c) == /\ ToolExits(c)
               /\ ToolReturns(c, ToolCode(c))
               /\ UNCHANGED build

ToolKilled(c) == /\ Kill(c)
                 /\ ToolReturns(c, 1)
                 /\ UNCHANGED build

\* The build is over, or stops after a failure.
Over == /\ \A c \in Call : step[c] \in {"absent", "done"}
        /\ UNCHANGED vars

Next == \/ \E c \in Call : \/ Start(c) \/ RunTool(c) \/ CallStep(c)
                           \/ ToolWorks(c) \/ ToolEnds(c) \/ ToolKilled(c)
        \/ Over

Spec == Init /\ [][Next]_vars

\* The system runs every process that can run, and the programs and tools end.
Fairness == \A c \in Call : WF_vars(RunTool(c) \/ CallStep(c) \/ ToolWorks(c) \/ ToolEnds(c))

FairSpec == Spec /\ Fairness

-----------------------------------------------------------------------------
(***************************************************************************)
(* Properties.                                                              *)
(***************************************************************************)

\* What a program and the programs that it starts do is analysed once, by the
\* tool of the outermost call, and is in each list once; with the settings of
\* a usual build only if the original program has succeeded.
AnalysedOnce ==
    \A c \in Call :
        /\ tool[c] # "absent" =>
               /\ Outermost(c)
               /\ (setting.runOrig /\ ~ setting.first /\ ~ setting.always) => origRet[c] = 0
        /\ \A l \in ListNames : lists[l][c] =< 1

\* A build behaves as it does without exewrapper: a call returns what the
\* original program has returned, unless a setting says otherwise.
ExitTransparent ==
    \A c \in Call :
        (step[c] = "done" /\ setting.runOrig /\ ~ setting.pretend) =>
            \/ ret[c] = origRet[c]
            \/ setting.causesError /\ (c \in failed \/ tool[c] = "killed")
            \/ ret[c] = 1 /\ ~ inWrapper[c] /\ ~ doWrapp[c]    \* the program was not found

\* Every call returns, even when a tool is killed that holds the lock.
CallsReturn == <>[](\A c \in Call : step[c] \in {"absent", "done"})

=============================================================================
