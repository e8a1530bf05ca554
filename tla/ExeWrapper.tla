----------------------------- MODULE ExeWrapper -----------------------------
(***************************************************************************)
(* exewrapper stands in for the compilers, linkers and archivers of a       *)
(* build.  It runs the original program and, when that succeeded, a wrapper *)
(* tool that analyses what the program has built.                           *)
(*                                                                         *)
(* An original program may start further programs that are wrapped, too: a  *)
(* compiler driver starts the linker.  The environment variable             *)
(* OSA_INEXEWRAPPER keeps their wrapper tools from running: what they do is *)
(* analysed on behalf of the outermost call.                                *)
(*                                                                         *)
(* A call is one process of exewrapper.  The wrapper tool is left open here *)
(* (it may return anything); WrappedBuild puts WrapperTools in its place.   *)
(***************************************************************************)
EXTENDS Naturals

CONSTANTS Call,      \* the calls of wrapped programs that a build may make
          NoCall,
          Parent,    \* the call whose original program makes this one, or NoCall
          Settings   \* the settings of a program that are considered

ASSUME ParentAssumption == /\ NoCall \notin Call
                           /\ Parent \in [Call -> Call \cup {NoCall}]

\* runOrig, first, always: WRAPPEDTOOL_RUN, WRAPPERTOOL_RUN_FIRST and
\* WRAPPERTOOL_ALWAYS_RUN; pretend: WRAPPEDTOOL_RETURN_SUCCESSFUL is 0;
\* wanted: a wrapper tool is configured for the program and no filter excludes
\* the call; causesError: WRAPPER_CAN_CAUSE_ERROR; disabled: the environment
\* has OSA_DISABLE_ANALYSIS.
SettingsType == [runOrig : BOOLEAN, first : BOOLEAN, always : BOOLEAN, pretend : BOOLEAN,
                 wanted : BOOLEAN, causesError : BOOLEAN, disabled : BOOLEAN]

ASSUME SettingsAssumption == Settings \subseteq SettingsType

VARIABLES
    setting,   \* the section of the configuration, the same for all programs
    step,      \* where each call is in main()
    inWrapper, \* OSA_INEXEWRAPPER is set in the environment of the process
    doWrapp,   \* the variable of this name
    origRet,   \* what the original program returned (0 before it was run)
    wrRet,     \* wr_ret
    ret        \* ret, and at the end the exit code of the call

callVars == <<setting, step, inWrapper, doWrapp, origRet, wrRet, ret>>

\* absent   not called            first    about to run the wrapper tool first
\* orig     original program runs after    about to decide on the wrapper tool
\* wrap     wrapper tool runs     leave    about to return
Steps == {"absent", "first", "orig", "after", "wrap", "leave", "done"}

\* Exit codes: 0 and anything else.
Codes == {0, 1}

ExeTypeOK == /\ setting \in Settings
             /\ step \in [Call -> Steps]
             /\ inWrapper \in [Call -> BOOLEAN]
             /\ doWrapp \in [Call -> BOOLEAN]
             /\ origRet \in [Call -> Codes]
             /\ wrRet \in [Call -> Codes]
             /\ ret \in [Call -> Codes]

StepTo(c, s) == step' = [step EXCEPT ![c] = s]

Children(c) == {d \in Call : Parent[d] = c}

\* A process is started by another one that is still there.
CanStart(c) == \/ Parent[c] = NoCall
               \/ Parent[c] # NoCall /\ step[Parent[c]] = "orig"

\* The environment that the process inherits.
Inherited(c) == Parent[c] # NoCall /\ inWrapper[Parent[c]]

RunsTool(c) == doWrapp[c] /\ setting.wanted

-----------------------------------------------------------------------------
(* Slips that the runs must notice; none of these is part of a Spec. *)

\* The variable is looked up but never set.
EnterUnmarked(c) ==
    /\ step[c] = "absent"
    /\ CanStart(c)
    /\ inWrapper' = [inWrapper EXCEPT ![c] = Inherited(c)]
    /\ doWrapp' = [doWrapp EXCEPT ![c] = ~ Inherited(c) /\ ~ setting.disabled]
    /\ StepTo(c, IF setting.runOrig /\ ~ setting.first THEN "orig" ELSE "first")
    /\ UNCHANGED <<setting, origRet, wrRet, ret>>

\* The wrapper tool's code is the call's.
LeaveWithToolCode(c) ==
    /\ step[c] = "leave"
    /\ inWrapper' = [inWrapper EXCEPT ![c] = @ /\ ~ doWrapp[c]]
    /\ ret' = [ret EXCEPT ![c] = IF wrRet[c] # 0 THEN wrRet[c] ELSE @]
    /\ StepTo(c, "done")
    /\ UNCHANGED <<setting, doWrapp, origRet, wrRet>>

-----------------------------------------------------------------------------
ExeInit == /\ setting \in Settings
           /\ step = [c \in Call |-> "absent"]
           /\ inWrapper = [c \in Call |-> FALSE]
           /\ doWrapp = [c \in Call |-> FALSE]
           /\ origRet = [c \in Call |-> 0]
           /\ wrRet = [c \in Call |-> 0]
           /\ ret = [c \in Call |-> 0]

\* From the start of main() to the first program it runs.
Enter(c) ==
    /\ step[c] = "absent"
    /\ CanStart(c)
    /\ inWrapper' = [inWrapper EXCEPT ![c] = TRUE]
    /\ doWrapp' = [doWrapp EXCEPT ![c] = ~ Inherited(c) /\ ~ setting.disabled]
    /\ StepTo(c, IF setting.runOrig /\ ~ setting.first THEN "orig" ELSE "first")
    /\ UNCHANGED <<setting, origRet, wrRet, ret>>

\* The original program is not found.
EnterFails(c) ==
    /\ step[c] = "absent"
    /\ CanStart(c)
    /\ ret' = [ret EXCEPT ![c] = 1]
    /\ StepTo(c, "done")
    /\ UNCHANGED <<setting, inWrapper, doWrapp, origRet, wrRet>>

\* The wrapper tool is run first, or alone.
RunToolFirst(c) == /\ step[c] = "first"
                   /\ RunsTool(c)
                   /\ StepTo(c, "wrap")
                   /\ UNCHANGED <<setting, inWrapper, doWrapp, origRet, wrRet, ret>>

NoToolFirst(c) == /\ step[c] = "first"
                  /\ ~ RunsTool(c)
                  /\ StepTo(c, IF setting.runOrig THEN "orig" ELSE "leave")
                  /\ UNCHANGED <<setting, inWrapper, doWrapp, origRet, wrRet, ret>>

\* The original program returns.  It waits for the programs it has started.
OrigReturns(c, code) == /\ step[c] = "orig"
                        /\ \A d \in Children(c) : step[d] \in {"absent", "done"}
                        /\ origRet' = [origRet EXCEPT ![c] = code]
                        /\ ret' = [ret EXCEPT ![c] = IF setting.pretend THEN 0 ELSE code]
                        /\ StepTo(c, "after")
                        /\ UNCHANGED <<setting, inWrapper, doWrapp, wrRet>>

WantedAfter(c) == /\ RunsTool(c)
                  /\ ~ setting.first
                  /\ origRet[c] = 0 \/ setting.always

RunToolAfter(c) == /\ step[c] = "after"
                   /\ WantedAfter(c)
                   /\ StepTo(c, "wrap")
                   /\ UNCHANGED <<setting, inWrapper, doWrapp, origRet, wrRet, ret>>

NoToolAfter(c) == /\ step[c] = "after"
                  /\ ~ WantedAfter(c)
                  /\ StepTo(c, "leave")
                  /\ UNCHANGED <<setting, inWrapper, doWrapp, origRet, wrRet, ret>>

\* The wrapper tool returns; its code is the call's when there is no other.
ToolReturns(c, code) ==
    /\ step[c] = "wrap"
    /\ wrRet' = [wrRet EXCEPT ![c] = code]
    /\ ret' = [ret EXCEPT ![c] = IF setting.runOrig THEN @ ELSE code]
    /\ StepTo(c, IF setting.runOrig /\ setting.first THEN "orig" ELSE "leave")
    /\ UNCHANGED <<setting, inWrapper, doWrapp, origRet>>

Leave(c) ==
    /\ step[c] = "leave"
    /\ inWrapper' = [inWrapper EXCEPT ![c] = @ /\ ~ doWrapp[c]]
    /\ ret' = [ret EXCEPT ![c] = IF setting.causesError /\ wrRet[c] # 0 THEN wrRet[c] ELSE @]
    /\ StepTo(c, "done")
    /\ UNCHANGED <<setting, doWrapp, origRet, wrRet>>

=============================================================================
