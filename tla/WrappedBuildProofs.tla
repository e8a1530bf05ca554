------------------------- MODULE WrappedBuildProofs -------------------------
(***************************************************************************)
(* Proofs about WrappedBuild, for any calls, settings and builds: types,    *)
(* what becomes of the configuration (ConfigKept), who is analysed          *)
(* (AnalysedOnce) and what a call returns (ExitTransparent).                *)
(***************************************************************************)
EXTENDS WrappedBuild, TLAPS

LEMMA NobodyIsNoTool == NoTool \notin Tool
  BY ParentAssumption, OneToolPerCall

(***************************************************************************)
(* Types.  The lock is exact because only the tools in InLock hold it.      *)
(***************************************************************************)
LockExact == {c \in Tool : tool[c] \in InLock} = {lock} \ {NoTool}

\* A tool that has written its inputs knows under which number.
PidKnown == \A c \in Tool : tool[c] \in {"runLinker", "runArchiver"} => pid[c] \in Pid

DataTyped == /\ [settings |-> settings, versions |-> versions] \in Content
             /\ copy \in Content
             /\ needed \in [Tool -> SUBSET AllJobs]
             /\ failed \subseteq Tool
             /\ generated \subseteq Tool
             /\ lists \in [ListNames -> [Tool -> Nat]]
             /\ pid \in [Tool -> Pid \cup {0}]
             /\ inputs \in [Pid -> SUBSET Tool]
             /\ fed \in [Tool -> SUBSET Tool]
             /\ found \subseteq {Compiler[c] : c \in Tool}
             /\ skipped \in [Tool -> SUBSET AllJobs]
             /\ lost \in BOOLEAN
             /\ kills \in 0 .. MaxKills

ToolTyped == /\ tool \in [Tool -> ToolStates]
             /\ LockExact
             /\ PidKnown
             /\ DataTyped

LEMMA ToolTypedIsTypeOK == ToolTyped => ToolTypeOK
  BY DEF ToolTyped, ToolTypeOK, LockExact, DataTyped

\* A step of one tool that neither takes nor gives back the lock.
LEMMA MoveTyped ==
    ASSUME tool \in [Tool -> ToolStates], LockExact, PidKnown, NEW c \in Tool,
           NEW s \in ToolStates, ToolTo(c, s), tool[c] \in InLock <=> s \in InLock,
           s \in {"runLinker", "runArchiver"} => pid'[c] \in Pid,
           pid \in [Tool -> Pid \cup {0}],
           \A d \in Tool \ {c} : pid'[d] = pid[d], UNCHANGED lock
    PROVE  tool' \in [Tool -> ToolStates] /\ LockExact' /\ PidKnown'
<1>1. tool' = [tool EXCEPT ![c] = s]
  BY DEF ToolTo
<1>2. \A d \in Tool : tool'[d] = IF d = c THEN s ELSE tool[d]
  BY <1>1
<1>3. {d \in Tool : tool'[d] \in InLock} = {d \in Tool : tool[d] \in InLock}
  BY <1>2
<1> QED
  BY <1>1, <1>2, <1>3 DEF LockExact, PidKnown

\* The states in which a tool has neither the lock nor a list of inputs at work.
Apart == ToolStates \ (InLock \cup {"runLinker", "runArchiver"})

LEMMA ApartStates ==
    /\ {"absent", "ended", "killed", "readCompiler", "readLinker", "readArchive", "lock",
        "compile", "listAst", "link", "listComponent", "archive", "listArchive", "remove",
        "exit"} \subseteq Apart
    /\ \A c \in Tool : AfterCompile(c) \in Apart /\ AfterVersion(c) \in Apart /\ FirstState(c) \in Apart
    /\ Apart \subseteq ToolStates /\ InLock \subseteq ToolStates
  BY DEF Apart, ToolStates, Gone, InLock, AfterCompile, AfterVersion, FirstState

\* A step from one such state into another one.
LEMMA ApartTyped ==
    ASSUME ToolTyped, NEW c \in Tool, NEW s \in Apart, ToolTo(c, s), tool[c] \notin InLock,
           \A d \in Tool \ {c} : pid'[d] = pid[d], UNCHANGED lock
    PROVE  tool' \in [Tool -> ToolStates] /\ LockExact' /\ PidKnown'
  BY MoveTyped DEF ToolTyped, DataTyped, Apart

LEMMA SpawnTyped ==
    ASSUME ToolTyped, NEW c \in Tool, Spawn(c)
    PROVE  ToolTyped'
<1>1. FirstState(c) \in Apart
  BY ApartStates
<1>2. tool' \in [Tool -> ToolStates] /\ LockExact' /\ PidKnown'
  BY <1>1, ApartTyped DEF Spawn, fileVars, listVars, InLock
<1> QED
  BY <1>2 DEF ToolTyped, DataTyped, Spawn, fileVars, workVars, listVars

LEMMA ReadTyped ==
    ASSUME ToolTyped, NEW c \in Tool, NEW from, NEW job \in AllJobs, NEW next \in Apart,
           from \notin InLock, ReadSection(c, from, job, next)
    PROVE  ToolTyped'
<1>1. tool' \in [Tool -> ToolStates] /\ LockExact' /\ PidKnown'
  BY ApartTyped DEF ReadSection, fileVars, listVars
<1>2. needed' \in [Tool -> SUBSET AllJobs]
  BY DEF ToolTyped, DataTyped, ReadSection
<1> QED
  BY <1>1, <1>2 DEF ToolTyped, DataTyped, ReadSection, fileVars, listVars

LEMMA ReadsTyped ==
    ASSUME ToolTyped, NEW c \in Tool,
           ReadCompilerSection(c) \/ ReadLinkerSection(c) \/ ReadArchiveSection(c)
    PROVE  ToolTyped'
<1>1. CASE ReadCompilerSection(c)
  BY <1>1, ReadTyped, ApartStates DEF ReadCompilerSection, AllJobs, InLock
<1>2. CASE ReadLinkerSection(c)
  <2>1. (IF c \in Driver THEN "lock" ELSE "link") \in Apart
    BY ApartStates
  <2> QED
    BY <1>2, <2>1, ReadTyped DEF ReadLinkerSection, AllJobs, InLock
<1>3. CASE ReadArchiveSection(c)
  BY <1>3, ReadTyped, ApartStates DEF ReadArchiveSection, AllJobs, InLock
<1> QED
  BY <1>1, <1>2, <1>3

LEMMA TakeLockTyped ==
    ASSUME ToolTyped, NEW c \in Tool, TakeLock(c)
    PROVE  ToolTyped'
<1>1. tool' = [tool EXCEPT ![c] = "look"] /\ lock = NoTool /\ lock' = c /\ tool[c] = "lock"
  BY DEF TakeLock, ToolTo
<1>2. tool' \in [Tool -> ToolStates] /\ \A d \in Tool : tool'[d] = IF d = c THEN "look" ELSE tool[d]
  BY <1>1 DEF ToolTyped, ToolStates
<1>3. {d \in Tool : tool[d] \in InLock} = {}
  BY <1>1 DEF ToolTyped, LockExact
<1>4. LockExact'
  BY <1>1, <1>2, <1>3, NobodyIsNoTool DEF LockExact, InLock
<1>5. PidKnown'
  BY <1>2 DEF TakeLock, listVars, ToolTyped, PidKnown
<1> QED
  BY <1>2, <1>4, <1>5 DEF ToolTyped, DataTyped, TakeLock, workVars, listVars

LEMMA HolderIsLock ==
    ASSUME ToolTyped, NEW c \in Tool, tool[c] \in InLock
    PROVE  lock = c /\ \A d \in Tool \ {c} : tool[d] \notin InLock
  BY DEF ToolTyped, LockExact

\* The holder of the lock gives it back.
LEMMA ReleaseTyped ==
    ASSUME ToolTyped, NEW c \in Tool, NEW s \in Apart, tool[c] \in InLock, ToolTo(c, s),
           lock' = NoTool, UNCHANGED pid
    PROVE  tool' \in [Tool -> ToolStates] /\ LockExact' /\ PidKnown'
<1>1. tool' \in [Tool -> ToolStates] /\ \A d \in Tool : tool'[d] = IF d = c THEN s ELSE tool[d]
  BY DEF ToolTyped, ToolTo, Apart
<1>2. LockExact'
  BY <1>1, HolderIsLock DEF LockExact, Apart
<1> QED
  BY <1>1, <1>2 DEF ToolTyped, PidKnown, Apart

LEMMA VersionTyped ==
    ASSUME ToolTyped, NEW c \in Tool,
           VersionInConfig(c) \/ VersionMissing(c) \/ AskFails(c) \/ AskSucceeds(c) \/ Rewrite(c)
    PROVE  ToolTyped'
<1> USE DEF InLock
<1>1. CASE VersionInConfig(c) \/ AskFails(c)
  <2>1. tool' \in [Tool -> ToolStates] /\ LockExact' /\ PidKnown'
    BY <1>1, ReleaseTyped, ApartStates DEF VersionInConfig, AskFails, listVars
  <2> QED
    BY <1>1, <2>1 DEF ToolTyped, DataTyped, VersionInConfig, AskFails, workVars, listVars
<1>2. CASE VersionMissing(c)
  <2>1. tool' \in [Tool -> ToolStates] /\ LockExact' /\ PidKnown'
    BY <1>2, MoveTyped, ApartStates DEF ToolTyped, DataTyped, VersionMissing, fileVars, listVars
  <2> QED
    BY <1>2, <2>1 DEF ToolTyped, DataTyped, VersionMissing, fileVars, workVars, listVars
<1>3. CASE AskSucceeds(c)
  <2>1. tool' \in [Tool -> ToolStates] /\ LockExact' /\ PidKnown'
    BY <1>3, MoveTyped, ApartStates DEF ToolTyped, DataTyped, AskSucceeds, listVars
  <2>2. copy' \in Content /\ [settings |-> settings', versions |-> versions'] \in Content
    BY <1>3 DEF ToolTyped, DataTyped, AskSucceeds, Content
  <2> QED
    BY <1>3, <2>1, <2>2 DEF ToolTyped, DataTyped, AskSucceeds, workVars, listVars
<1>4. CASE Rewrite(c)
  <2>1. tool' \in [Tool -> ToolStates] /\ LockExact' /\ PidKnown'
    BY <1>4, ReleaseTyped, ApartStates DEF Rewrite, listVars
  <2>2. /\ copy' \in Content /\ [settings |-> settings', versions |-> versions'] \in Content
        /\ found' \subseteq {Compiler[d] : d \in Tool}
    BY <1>4 DEF ToolTyped, DataTyped, Rewrite, Content, NoContent
  <2> QED
    BY <1>4, <2>1, <2>2 DEF ToolTyped, DataTyped, Rewrite, workVars, listVars
<1> QED
  BY <1>1, <1>2, <1>3, <1>4

LEMMA SkipTyped ==
    ASSUME ToolTyped, NEW c \in Tool, SkipCompile(c) \/ SkipLink(c) \/ SkipArchive(c)
    PROVE  ToolTyped'
<1>1. PICK job \in AllJobs, next \in Apart : Skip(c, job, next)
  <2>1. CASE SkipCompile(c)
    BY <2>1, ApartStates DEF SkipCompile, AllJobs
  <2>2. CASE SkipLink(c)
    BY <2>2, ApartStates DEF SkipLink, AllJobs
  <2>3. CASE SkipArchive(c)
    BY <2>3, ApartStates DEF SkipArchive, AllJobs
  <2> QED
    BY <2>1, <2>2, <2>3
<1>2. tool' \in [Tool -> ToolStates] /\ LockExact' /\ PidKnown'
  BY <1>1, ApartTyped DEF Skip, fileVars, listVars, AllJobs, InLock
<1>3. skipped' \in [Tool -> SUBSET AllJobs]
  BY <1>1 DEF ToolTyped, DataTyped, Skip
<1> QED
  BY <1>1, <1>2, <1>3 DEF ToolTyped, DataTyped, Skip, fileVars, listVars

LEMMA CompileTyped ==
    ASSUME ToolTyped, NEW c \in Tool, CompileFails(c) \/ CompileSucceeds(c) \/ ListAst(c)
    PROVE  ToolTyped'
<1>1. AfterCompile(c) \in Apart /\ "listAst" \in Apart
  BY ApartStates
<1>2. tool' \in [Tool -> ToolStates] /\ LockExact' /\ PidKnown'
  BY <1>1, ApartTyped DEF CompileFails, CompileSucceeds, ListAst, fileVars, listVars, InLock
<1>3. lists' \in [ListNames -> [Tool -> Nat]]
  BY DEF ToolTyped, DataTyped, CompileFails, CompileSucceeds, ListAst, listVars, AddLine, ListNames
<1>4. generated' \subseteq Tool /\ failed' \subseteq Tool
  BY DEF ToolTyped, DataTyped, CompileFails, CompileSucceeds, ListAst, workVars
<1> QED
  BY <1>2, <1>3, <1>4
     DEF ToolTyped, DataTyped, CompileFails, CompileSucceeds, ListAst, fileVars, workVars, listVars

LEMMA WriteInputsTyped ==
    ASSUME ToolTyped, NEW c \in Tool, LinkInputs(c) \/ ArchiveInputs(c)
    PROVE  ToolTyped'
<1>1. PICK kept \in [Pid -> SUBSET Tool], next \in {"runLinker", "runArchiver"} :
          WriteInputs(c, kept, next)
  <2>1. [p \in Pid |-> {}] \in [Pid -> SUBSET Tool]
    OBVIOUS
  <2> QED
    BY <2>1 DEF LinkInputs, ArchiveInputs, ToolTyped, DataTyped
<1>2. PICK p \in Pid : /\ pid' = [pid EXCEPT ![c] = p]
                       /\ inputs' = [inputs EXCEPT ![p] = kept[p] \cup Inputs(c)]
                       /\ ToolTo(c, next)
                       /\ UNCHANGED <<fileVars, workVars, lists, fed, kills>>
  BY <1>1 DEF WriteInputs, FreePids
<1>3. tool[c] \notin InLock /\ next \in ToolStates \ InLock
  BY DEF LinkInputs, ArchiveInputs, InLock, ToolStates
<1>4. tool' \in [Tool -> ToolStates] /\ LockExact' /\ PidKnown'
  BY <1>2, <1>3, MoveTyped DEF ToolTyped, DataTyped, fileVars
<1>5. Inputs(c) \subseteq Tool
  BY InputsAssumption DEF Inputs
<1>6. pid' \in [Tool -> Pid \cup {0}] /\ inputs' \in [Pid -> SUBSET Tool]
  BY <1>2, <1>5 DEF ToolTyped, DataTyped
<1> QED
  BY <1>2, <1>4, <1>6 DEF ToolTyped, DataTyped, fileVars, workVars

LEMMA RunTyped ==
    ASSUME ToolTyped, NEW c \in Tool, RunFails(c) \/ LinkSucceeds(c) \/ ArchiveSucceeds(c)
    PROVE  ToolTyped'
<1>1. PICK s \in Apart : /\ tool[c] \in {"runLinker", "runArchiver"}
                         /\ ToolTo(c, s)
                         /\ fed' = [fed EXCEPT ![c] = inputs[pid[c]]]
                         /\ failed' \subseteq failed \cup {c}
                         /\ UNCHANGED <<fileVars, needed, generated, skipped, lists, pid, inputs, kills>>
  <2>1. CASE RunFails(c)
    BY <2>1, ApartStates DEF RunFails
  <2>2. CASE LinkSucceeds(c)
    BY <2>2, ApartStates DEF LinkSucceeds, RunSucceeds, workVars
  <2>3. CASE ArchiveSucceeds(c)
    BY <2>3, ApartStates DEF ArchiveSucceeds, RunSucceeds, workVars
  <2> QED
    BY <2>1, <2>2, <2>3
<1>2. tool' \in [Tool -> ToolStates] /\ LockExact' /\ PidKnown'
  BY <1>1, ApartTyped DEF fileVars, InLock
<1>3. fed' \in [Tool -> SUBSET Tool] /\ failed' \subseteq Tool
  BY <1>1 DEF ToolTyped, DataTyped, PidKnown
<1> QED
  BY <1>1, <1>2, <1>3 DEF ToolTyped, DataTyped, fileVars

LEMMA RestTyped ==
    ASSUME ToolTyped, NEW c \in Tool,
           NothingToLink(c) \/ ListComponent(c) \/ ListArchive(c) \/ RemoveInputs(c) \/ ToolExits(c)
    PROVE  ToolTyped'
<1> USE DEF NothingToLink, ListComponent, ListArchive, ListOutput, RemoveInputs, ToolExits
<1>1. PICK s \in Apart : ToolTo(c, s) /\ tool[c] \notin InLock
  BY ApartStates DEF InLock
<1>2. tool' \in [Tool -> ToolStates] /\ LockExact' /\ PidKnown'
  BY <1>1, ApartTyped DEF fileVars, listVars
<1>3. lists' \in [ListNames -> [Tool -> Nat]]
  BY DEF ToolTyped, DataTyped, listVars, AddLine, ListNames
<1>4. inputs' \in [Pid -> SUBSET Tool]
  BY DEF ToolTyped, DataTyped, listVars
<1> QED
  BY <1>2, <1>3, <1>4 DEF ToolTyped, DataTyped, fileVars, workVars, listVars

LEMMA KillTyped ==
    ASSUME ToolTyped, NEW c \in Tool, Kill(c)
    PROVE  ToolTyped'
<1>1. "killed" \in Apart
  BY ApartStates
<1>2. CASE tool[c] \in InLock
  <2>1. tool' \in [Tool -> ToolStates] /\ LockExact' /\ PidKnown'
    BY <1>1, <1>2, ReleaseTyped, HolderIsLock DEF Kill, listVars
  <2> QED
    BY <2>1, BoundAssumption DEF ToolTyped, DataTyped, Kill, workVars, listVars
<1>3. CASE tool[c] \notin InLock
  <2>1. lock # c
    BY <1>3, NobodyIsNoTool DEF ToolTyped, LockExact
  <2>2. tool' \in [Tool -> ToolStates] /\ LockExact' /\ PidKnown'
    BY <1>1, <1>3, <2>1, ApartTyped DEF Kill, listVars
  <2> QED
    BY <2>2, BoundAssumption DEF ToolTyped, DataTyped, Kill, workVars, listVars
<1> QED
  BY <1>2, <1>3

LEMMA ToolStepTyped ==
    ASSUME ToolTyped, NEW c \in Tool, ToolStep(c) \/ Spawn(c) \/ ToolExits(c) \/ Kill(c)
    PROVE  ToolTyped'
  BY ReadsTyped, TakeLockTyped, VersionTyped, SkipTyped, CompileTyped, WriteInputsTyped, RunTyped,
     RestTyped, KillTyped, SpawnTyped DEF ToolStep

LEMMA CallStepTyped ==
    ASSUME ExeTypeOK, NEW c \in Call,
           \/ Enter(c) \/ EnterFails(c) \/ RunToolFirst(c) \/ NoToolFirst(c)
           \/ RunToolAfter(c) \/ NoToolAfter(c) \/ Leave(c)
           \/ \E code \in Codes : OrigReturns(c, code) \/ ToolReturns(c, code)
    PROVE  ExeTypeOK'
<1> USE DEF ExeTypeOK, Steps, StepTo
<1>1. CASE Enter(c)
  BY <1>1 DEF Enter, Inherited
<1>2. CASE EnterFails(c)
  BY <1>2 DEF EnterFails, Codes
<1>3. CASE RunToolFirst(c) \/ NoToolFirst(c) \/ RunToolAfter(c) \/ NoToolAfter(c)
  BY <1>3 DEF RunToolFirst, NoToolFirst, RunToolAfter, NoToolAfter
<1>4. CASE Leave(c)
  BY <1>4 DEF Leave
<1>5. ASSUME NEW code \in Codes, OrigReturns(c, code) PROVE ExeTypeOK'
  BY <1>5 DEF OrigReturns, Codes
<1>6. ASSUME NEW code \in Codes, ToolReturns(c, code) PROVE ExeTypeOK'
  BY <1>6 DEF ToolReturns
<1> QED
  BY <1>1, <1>2, <1>3, <1>4, <1>5, <1>6

Typed == /\ ExeTypeOK /\ ToolTyped
         /\ [calls |-> build, setting |-> setting] \in Builds

LEMMA TypedInit == Init => Typed
<1> SUFFICES ASSUME Init PROVE Typed
  OBVIOUS
<1>1. PICK b \in Builds : build = b.calls /\ setting = b.setting
  BY DEF Init
<1>2. [calls |-> build, setting |-> setting] = b
  BY <1>1, BuildsAssumption
<1>3. ExeTypeOK
  BY DEF Init, ExeInit, ExeTypeOK, Steps, Codes
<1>4. LockExact /\ PidKnown
  BY NobodyIsNoTool DEF Init, ToolInit, LockExact, PidKnown, InLock
<1>5. DataTyped
  <2>1. [settings |-> settings, versions |-> versions] \in Content /\ copy \in Content
    BY DEF Init, ToolInit, Content, NoContent
  <2>2. /\ needed \in [Tool -> SUBSET AllJobs] /\ skipped \in [Tool -> SUBSET AllJobs]
        /\ pid \in [Tool -> Pid \cup {0}] /\ fed \in [Tool -> SUBSET Tool]
        /\ inputs \in [Pid -> SUBSET Tool]
    BY DEF Init, ToolInit
  <2>3. lists \in [ListNames -> [Tool -> Nat]]
    BY DEF Init, ToolInit
  <2>4. /\ failed \subseteq Tool /\ generated \subseteq Tool
        /\ found \subseteq {Compiler[c] : c \in Tool} /\ lost \in BOOLEAN
    BY DEF Init, ToolInit
  <2>5. kills \in 0 .. MaxKills
    BY BoundAssumption DEF Init, ToolInit
  <2> QED
    BY <2>1, <2>2, <2>3, <2>4, <2>5 DEF DataTyped
<1>6. tool \in [Tool -> ToolStates]
  BY DEF Init, ToolInit, ToolStates, Gone
<1> QED
  BY <1>2, <1>3, <1>4, <1>5, <1>6 DEF Typed, ToolTyped

\* What a step of the build is to a call and to its tool.
CallMoves(c) == \/ Enter(c) \/ EnterFails(c) \/ NoToolFirst(c) \/ NoToolAfter(c) \/ Leave(c)
                \/ \E code \in Codes : OrigReturns(c, code)

LEMMA StepCases ==
    ASSUME Next
    PROVE  \/ \E c \in Call :
                /\ setting' = setting /\ build' = build
                /\ \/ CallMoves(c) /\ UNCHANGED toolVars
                   \/ (RunToolFirst(c) \/ RunToolAfter(c)) /\ Spawn(c)
                   \/ ToolStep(c) /\ UNCHANGED callVars
                   \/ ToolExits(c) /\ ToolReturns(c, ToolCode(c))
                   \/ Kill(c) /\ ToolReturns(c, 1)
           \/ UNCHANGED vars
  BY DEF Next, Start, RunTool, CallStep, ToolWorks, ToolEnds, ToolKilled, Over, CallMoves, callVars,
         Enter, EnterFails, NoToolFirst, NoToolAfter, Leave, OrigReturns, RunToolFirst, RunToolAfter,
         ToolReturns

LEMMA TypedStep == Typed /\ [Next]_vars => Typed'
<1> SUFFICES ASSUME Typed, [Next]_vars PROVE Typed'
  OBVIOUS
<1>1. CASE UNCHANGED vars
  <2>1. ExeTypeOK'
    BY <1>1 DEF Typed, vars, callVars, ExeTypeOK
  <2>2. ToolTyped'
    BY <1>1 DEF Typed, vars, toolVars, fileVars, workVars, listVars, ToolTyped, LockExact, PidKnown,
                DataTyped
  <2> QED
    BY <1>1, <2>1, <2>2 DEF Typed, vars, callVars
<1>2. ASSUME NEW c \in Call, setting' = setting, build' = build,
             CallMoves(c), UNCHANGED toolVars
      PROVE  Typed'
  <2>1. ExeTypeOK'
    BY <1>2, CallStepTyped DEF Typed, CallMoves
  <2>2. ToolTyped'
    BY <1>2 DEF Typed, toolVars, fileVars, workVars, listVars, ToolTyped, LockExact, PidKnown, DataTyped
  <2> QED
    BY <1>2, <2>1, <2>2 DEF Typed
<1>3. ASSUME NEW c \in Call, setting' = setting, build' = build,
             RunToolFirst(c) \/ RunToolAfter(c), Spawn(c)
      PROVE  Typed'
  BY <1>3, CallStepTyped, ToolStepTyped, OneToolPerCall DEF Typed
<1>4. ASSUME NEW c \in Call, setting' = setting, build' = build, ToolStep(c), UNCHANGED callVars
      PROVE  Typed'
  <2>1. ExeTypeOK'
    BY <1>4 DEF Typed, callVars, ExeTypeOK
  <2> QED
    BY <1>4, <2>1, ToolStepTyped, OneToolPerCall DEF Typed
<1>5. ASSUME NEW c \in Call, setting' = setting, build' = build,
             \/ ToolExits(c) /\ ToolReturns(c, ToolCode(c))
             \/ Kill(c) /\ ToolReturns(c, 1)
      PROVE  Typed'
  <2>1. ToolCode(c) \in Codes /\ 1 \in Codes
    BY DEF ToolCode, Codes
  <2> QED
    BY <1>5, <2>1, CallStepTyped, ToolStepTyped, OneToolPerCall DEF Typed
<1> QED
  BY <1>1, <1>2, <1>3, <1>4, <1>5, StepCases

\* Every reachable state of the calls, the tools and the shared files is well
\* typed, and the lock of the configuration is held by the tool that is at work
\* on it and by no other one.
THEOREM TypeCorrect == Spec => []TypeOK
<1>1. Spec => []Typed
  BY TypedInit, TypedStep, PTL DEF Spec
<1>2. Typed => TypeOK
  BY ToolTypedIsTypeOK DEF Typed, TypeOK
<1> QED
  BY <1>1, <1>2, PTL

(***************************************************************************)
(* The configuration.  While the file is empty the copy has all of it, and   *)
(* the lock keeps everyone else from copying or writing it.                 *)
(***************************************************************************)
ConfigExact ==
    ~ lost => /\ (\A c \in Tool : tool[c] # "rewrite") => settings /\ versions = found
              /\ \A c \in Tool : tool[c] = "rewrite" => /\ copy.settings
                                                        /\ copy.versions = found \cup {Compiler[c]}

ToolMoves(c) == ToolStep(c) \/ Spawn(c) \/ ToolExits(c) \/ Kill(c)

\* All steps but two leave the file alone.
LEMMA FileSteps ==
    ASSUME ToolTyped, NEW c \in Tool, ToolMoves(c)
    PROVE  \/ AskSucceeds(c) \/ Rewrite(c)
           \/ /\ UNCHANGED <<settings, versions, copy, found>>
              /\ \E s \in ToolStates \ {"rewrite"} : ToolTo(c, s)
              /\ \/ tool[c] # "rewrite" /\ lost' = lost
                 \/ lost'
<1> USE DEF fileVars, ToolStates, Gone
<1>1. CASE Spawn(c) \/ ToolExits(c) \/ Kill(c)
  <2>1. CASE Spawn(c)
    <3>1. FirstState(c) \in ToolStates \ {"rewrite"}
      BY DEF FirstState
    <3> QED
      BY <2>1, <3>1 DEF Spawn
  <2>2. CASE ToolExits(c)
    BY <2>2 DEF ToolExits
  <2>3. CASE Kill(c)
    <3>1. lost \in BOOLEAN
      BY DEF ToolTyped, DataTyped
    <3>2. CASE tool[c] = "rewrite"
      BY <2>3, <3>2 DEF Kill
    <3>3. CASE tool[c] # "rewrite"
      BY <2>3, <3>1, <3>3 DEF Kill
    <3> QED
      BY <3>2, <3>3
  <2> QED
    BY <1>1, <2>1, <2>2, <2>3
<1>2. CASE ReadCompilerSection(c) \/ ReadLinkerSection(c) \/ ReadArchiveSection(c)
  BY <1>2 DEF ReadCompilerSection, ReadLinkerSection, ReadArchiveSection, ReadSection
<1>3. CASE TakeLock(c) \/ VersionInConfig(c) \/ VersionMissing(c) \/ AskFails(c)
  BY <1>3 DEF TakeLock, VersionInConfig, VersionMissing, AskFails, AfterVersion
<1>4. CASE SkipCompile(c) \/ SkipLink(c) \/ SkipArchive(c)
  BY <1>4 DEF SkipCompile, SkipLink, SkipArchive, Skip, AfterCompile
<1>5. CASE CompileFails(c) \/ CompileSucceeds(c) \/ ListAst(c)
  BY <1>5 DEF CompileFails, CompileSucceeds, ListAst, AfterCompile
<1>6. CASE NothingToLink(c) \/ LinkInputs(c) \/ ArchiveInputs(c)
  BY <1>6 DEF NothingToLink, LinkInputs, ArchiveInputs, WriteInputs
<1>7. CASE RunFails(c) \/ LinkSucceeds(c) \/ ArchiveSucceeds(c)
  BY <1>7 DEF RunFails, LinkSucceeds, ArchiveSucceeds, RunSucceeds
<1>8. CASE ListComponent(c) \/ ListArchive(c) \/ RemoveInputs(c)
  BY <1>8 DEF ListComponent, ListArchive, ListOutput, RemoveInputs
<1> QED
  BY <1>1, <1>2, <1>3, <1>4, <1>5, <1>6, <1>7, <1>8 DEF ToolMoves, ToolStep

LEMMA ConfigToolStep ==
    ASSUME ToolTyped, ConfigExact, NEW c \in Tool, ToolMoves(c)
    PROVE  ConfigExact'
<1>1. CASE AskSucceeds(c)
  <2>1. \A d \in Tool : tool[d] # "rewrite" /\ tool'[d] = IF d = c THEN "rewrite" ELSE tool[d]
    BY <1>1, HolderIsLock DEF AskSucceeds, ToolTo, InLock, ToolTyped
  <2>2. copy'.settings = settings /\ copy'.versions = versions \cup {Compiler[c]}
    BY <1>1 DEF AskSucceeds
  <2> QED
    BY <1>1, <2>1, <2>2 DEF ConfigExact, AskSucceeds
<1>2. CASE Rewrite(c)
  <2>1. tool[c] = "rewrite" /\ \A d \in Tool : tool'[d] # "rewrite"
    BY <1>2, HolderIsLock DEF Rewrite, ToolTo, InLock, ToolTyped, AfterVersion
  <2> QED
    BY <1>2, <2>1 DEF ConfigExact, Rewrite
<1>3. CASE /\ UNCHANGED <<settings, versions, copy, found>>
           /\ \E s \in ToolStates \ {"rewrite"} : ToolTo(c, s)
           /\ tool[c] # "rewrite" /\ lost' = lost
  <2>1. \A d \in Tool : tool'[d] = "rewrite" <=> tool[d] = "rewrite"
    BY <1>3 DEF ToolTo, ToolTyped
  <2> QED
    BY <1>3, <2>1 DEF ConfigExact
<1>4. CASE lost'
  BY <1>4 DEF ConfigExact
<1> QED
  BY <1>1, <1>2, <1>3, <1>4, FileSteps

\* Whatever a step of the build does to a tool.
LEMMA ToolCases ==
    ASSUME Next
    PROVE  (\E c \in Tool : ToolMoves(c)) \/ UNCHANGED toolVars
  BY StepCases, OneToolPerCall DEF ToolMoves, vars

LEMMA ConfigStep ==
    ASSUME Typed, ConfigExact, [Next]_vars
    PROVE  ConfigExact'
<1>1. CASE UNCHANGED toolVars
  BY <1>1 DEF toolVars, fileVars, ConfigExact
<1>2. CASE \E c \in Tool : ToolMoves(c)
  BY <1>2, ConfigToolStep DEF Typed
<1> QED
  BY <1>1, <1>2, ToolCases DEF vars

\* Whatever the tools of a parallel build do at the same time, and whichever of
\* them is killed, neither the user's settings nor the version of a compiler is
\* lost from the configuration, unless one is killed between emptying the file
\* and filling it again.
THEOREM ConfigIsKept == Spec => []ConfigKept
<1>1. Init => ConfigExact
  BY DEF Init, ToolInit, ConfigExact
<1>2. Typed /\ ConfigExact /\ [Next]_vars => ConfigExact'
  BY ConfigStep
<1>3. Spec => [](Typed /\ ConfigExact)
  BY <1>1, <1>2, TypedInit, TypedStep, PTL DEF Spec
<1>4. Typed /\ ConfigExact => ConfigKept
  BY DEF ConfigExact, ConfigKept
<1> QED
  BY <1>3, <1>4, PTL

(***************************************************************************)
(* Who is analysed.  The environment of every call that has a process says  *)
(* that it is inside a wrapper, and only an outermost call may run a tool.  *)
(***************************************************************************)
Inside(c) == step[c] \in {"first", "orig", "after", "wrap", "leave"}

Marked == \A c \in Call : /\ Inside(c) => inWrapper[c]
                          /\ doWrapp[c] => Outermost(c)
                          /\ tool[c] # "absent" => Outermost(c)

UsualOrder == setting.runOrig /\ ~ setting.first /\ ~ setting.always

InOrder == \A c \in Call :
    /\ step[c] = "absent" => origRet[c] = 0 /\ tool[c] = "absent"
    /\ UsualOrder => /\ step[c] # "first"
                     /\ tool[c] # "absent" => /\ step[c] \in {"wrap", "leave", "done"}
                                              /\ origRet[c] = 0

\* A tool that is at work stays a tool that has been run.
LEMMA ToolStays ==
    ASSUME ToolTyped, NEW c \in Tool, ToolStep(c) \/ ToolExits(c) \/ Kill(c)
    PROVE  /\ tool[c] \notin Gone
           /\ \A d \in Tool : (tool'[d] = "absent") <=> (tool[d] = "absent")
<1> USE DEF Gone
<1>1. \A s : ToolTo(c, s) /\ s # "absent" /\ tool[c] # "absent" =>
          \A d \in Tool : (tool'[d] = "absent") <=> (tool[d] = "absent")
  BY DEF ToolTo, ToolTyped
<1>2. CASE ToolExits(c) \/ Kill(c)
  BY <1>1, <1>2 DEF ToolExits, Kill, Running
<1>3. CASE ReadCompilerSection(c) \/ ReadLinkerSection(c) \/ ReadArchiveSection(c)
  BY <1>1, <1>3 DEF ReadCompilerSection, ReadLinkerSection, ReadArchiveSection, ReadSection
<1>4. CASE TakeLock(c) \/ VersionInConfig(c) \/ VersionMissing(c) \/ AskFails(c)
  BY <1>1, <1>4 DEF TakeLock, VersionInConfig, VersionMissing, AskFails, AfterVersion
<1>5. CASE AskSucceeds(c) \/ Rewrite(c)
  BY <1>1, <1>5 DEF AskSucceeds, Rewrite, AfterVersion
<1>6. CASE SkipCompile(c) \/ SkipLink(c) \/ SkipArchive(c)
  BY <1>1, <1>6 DEF SkipCompile, SkipLink, SkipArchive, Skip, AfterCompile
<1>7. CASE CompileFails(c) \/ CompileSucceeds(c) \/ ListAst(c)
  BY <1>1, <1>7 DEF CompileFails, CompileSucceeds, ListAst, AfterCompile
<1>8. CASE NothingToLink(c) \/ LinkInputs(c) \/ ArchiveInputs(c)
  BY <1>1, <1>8 DEF NothingToLink, LinkInputs, ArchiveInputs, WriteInputs
<1>9. CASE RunFails(c) \/ LinkSucceeds(c) \/ ArchiveSucceeds(c)
  BY <1>1, <1>9 DEF RunFails, LinkSucceeds, ArchiveSucceeds, RunSucceeds
<1>10. CASE ListComponent(c) \/ ListArchive(c) \/ RemoveInputs(c)
  BY <1>1, <1>10 DEF ListComponent, ListArchive, ListOutput, RemoveInputs
<1> QED
  BY <1>2, <1>3, <1>4, <1>5, <1>6, <1>7, <1>8, <1>9, <1>10 DEF ToolStep

LEMMA MarkedStep ==
    ASSUME Typed, Marked, [Next]_vars
    PROVE  Marked'
<1> USE DEF Typed, ExeTypeOK, Marked, Inside, StepTo, Outermost
<1>1. ASSUME NEW c \in Call, CallMoves(c), UNCHANGED toolVars
      PROVE  Marked'
  <2> tool' = tool
    BY <1>1 DEF toolVars
  <2>1. CASE Enter(c)
    <3>1. Parent[c] # NoCall => Inherited(c)
      BY <2>1, ParentAssumption DEF Enter, CanStart, Inherited
    <3>2. doWrapp'[c] => Outermost(c)
      BY <2>1, <3>1 DEF Enter
    <3> QED
      BY <2>1, <3>2 DEF Enter
  <2>2. CASE EnterFails(c)
    BY <2>2 DEF EnterFails
  <2>3. CASE NoToolFirst(c) \/ NoToolAfter(c)
    BY <2>3 DEF NoToolFirst, NoToolAfter
  <2>4. CASE Leave(c)
    BY <2>4 DEF Leave
  <2>5. CASE \E code \in Codes : OrigReturns(c, code)
    BY <2>5 DEF OrigReturns
  <2> QED
    BY <1>1, <2>1, <2>2, <2>3, <2>4, <2>5 DEF CallMoves
<1>2. ASSUME NEW c \in Call, RunToolFirst(c) \/ RunToolAfter(c), Spawn(c)
      PROVE  Marked'
  <2>1. doWrapp[c]
    BY <1>2 DEF RunToolFirst, RunToolAfter, WantedAfter, RunsTool
  <2>2. \A d \in Call \ {c} : tool'[d] = tool[d]
    BY <1>2, OneToolPerCall DEF Spawn, ToolTo, ToolTyped
  <2> QED
    BY <1>2, <2>1, <2>2 DEF RunToolFirst, RunToolAfter
<1>3. ASSUME NEW c \in Call, ToolStep(c), UNCHANGED callVars
      PROVE  Marked'
  BY <1>3, ToolStays, OneToolPerCall DEF callVars
<1>4. ASSUME NEW c \in Call, NEW code \in Codes, ToolExits(c) \/ Kill(c), ToolReturns(c, code)
      PROVE  Marked'
  BY <1>4, ToolStays, OneToolPerCall DEF ToolReturns
<1>5. CASE UNCHANGED vars
  BY <1>5 DEF vars, callVars, toolVars
<1>6. \A c \in Call : ToolCode(c) \in Codes /\ 1 \in Codes
  BY DEF ToolCode, Codes
<1> QED
  BY <1>1, <1>2, <1>3, <1>4, <1>5, <1>6, StepCases

LEMMA InOrderStep ==
    ASSUME Typed, InOrder, [Next]_vars
    PROVE  InOrder'
<1> USE DEF Typed, ExeTypeOK, InOrder, StepTo, UsualOrder
<1>1. ASSUME NEW c \in Call, CallMoves(c), UNCHANGED toolVars
      PROVE  InOrder'
  <2> tool' = tool
    BY <1>1 DEF toolVars
  <2>1. CASE Enter(c)
    BY <2>1 DEF Enter
  <2>2. CASE EnterFails(c)
    BY <2>2 DEF EnterFails
  <2>3. CASE NoToolFirst(c) \/ NoToolAfter(c)
    BY <2>3 DEF NoToolFirst, NoToolAfter
  <2>4. CASE Leave(c)
    BY <2>4 DEF Leave
  <2>5. CASE \E code \in Codes : OrigReturns(c, code)
    BY <2>5 DEF OrigReturns
  <2> QED
    BY <1>1, <2>1, <2>2, <2>3, <2>4, <2>5 DEF CallMoves
<1>2. ASSUME NEW c \in Call, RunToolFirst(c) \/ RunToolAfter(c), Spawn(c)
      PROVE  InOrder'
  <2>1. \A d \in Call \ {c} : tool'[d] = tool[d]
    BY <1>2, OneToolPerCall DEF Spawn, ToolTo, ToolTyped
  <2> QED
    BY <1>2, <2>1 DEF RunToolFirst, RunToolAfter, WantedAfter
<1>3. ASSUME NEW c \in Call, ToolStep(c), UNCHANGED callVars
      PROVE  InOrder'
  BY <1>3, ToolStays, OneToolPerCall DEF callVars
<1>4. ASSUME NEW c \in Call, NEW code \in Codes, ToolExits(c) \/ Kill(c), ToolReturns(c, code)
      PROVE  InOrder'
  BY <1>4, ToolStays, OneToolPerCall DEF ToolReturns
<1>5. CASE UNCHANGED vars
  BY <1>5 DEF vars, callVars, toolVars
<1>6. \A c \in Call : ToolCode(c) \in Codes /\ 1 \in Codes
  BY DEF ToolCode, Codes
<1> QED
  BY <1>1, <1>2, <1>3, <1>4, <1>5, <1>6, StepCases

(***************************************************************************)
(* The lists.  A tool is before its line or behind it, and never goes back. *)
(***************************************************************************)
BeforeCompile == {"absent", "readCompiler", "readLinker", "readArchive", "lock", "look", "ask",
                  "rewrite", "compile"}
BeforeLine(l) == IF l = "ast" THEN BeforeCompile \cup {"listAst"}
                 ELSE BeforeCompile \cup {"listAst", "link", "runLinker", "listComponent",
                                          "archive", "runArchiver", "listArchive"}

ListedOnce == \A l \in ListNames : \A c \in Tool :
                  /\ lists[l][c] =< 1
                  /\ tool[c] \in BeforeLine(l) => lists[l][c] = 0

\* A step that adds no line.
LEMMA NoLine ==
    ASSUME ToolTyped, ListedOnce, NEW c \in Tool, NEW s, ToolTo(c, s), UNCHANGED lists,
           \A l \in ListNames : s \in BeforeLine(l) => tool[c] \in BeforeLine(l)
    PROVE  ListedOnce'
<1>1. \A d \in Tool : tool'[d] = IF d = c THEN s ELSE tool[d]
  BY DEF ToolTyped, ToolTo
<1> QED
  BY <1>1 DEF ListedOnce

\* A step that adds the one.
LEMMA OneLine ==
    ASSUME ToolTyped, ListedOnce, NEW c \in Tool, NEW l \in ListNames, NEW s, ToolTo(c, s),
           AddLine(l, c), tool[c] \in BeforeLine(l), s \notin BeforeLine(l),
           \A k \in ListNames : s \in BeforeLine(k) => tool[c] \in BeforeLine(k)
    PROVE  ListedOnce'
<1>1. \A d \in Tool : tool'[d] = IF d = c THEN s ELSE tool[d]
  BY DEF ToolTyped, ToolTo
<1>2. lists \in [ListNames -> [Tool -> Nat]]
  BY DEF ToolTyped, DataTyped
<1>3. \A k \in ListNames : \A d \in Tool :
          lists'[k][d] = IF k = l /\ d = c THEN lists[k][d] + 1 ELSE lists[k][d]
  BY <1>2 DEF AddLine
<1>4. lists[l][c] = 0
  BY DEF ListedOnce
<1> QED
  BY <1>1, <1>2, <1>3, <1>4 DEF ListedOnce

LEMMA ListedToolStep ==
    ASSUME ToolTyped, ListedOnce, NEW c \in Tool, ToolMoves(c)
    PROVE  ListedOnce'
<1> USE DEF BeforeLine, BeforeCompile, ListNames, listVars
<1>1. CASE Spawn(c) \/ ToolExits(c) \/ Kill(c)
  <2>1. FirstState(c) \in BeforeCompile
    BY DEF FirstState
  <2>2. CASE Spawn(c)
    BY <2>1, <2>2, NoLine DEF Spawn
  <2>3. CASE ToolExits(c)
    BY <2>3, NoLine DEF ToolExits
  <2>4. CASE Kill(c)
    BY <2>4, NoLine DEF Kill
  <2> QED
    BY <1>1, <2>2, <2>3, <2>4
<1>2. CASE ReadCompilerSection(c)
  BY <1>2, NoLine DEF ReadCompilerSection, ReadSection
<1>3. CASE ReadLinkerSection(c)
  <2>1. CASE c \in Driver
    BY <1>3, <2>1, NoLine DEF ReadLinkerSection, ReadSection
  <2>2. CASE c \notin Driver
    BY <1>3, <2>2, NoLine DEF ReadLinkerSection, ReadSection
  <2> QED
    BY <2>1, <2>2
<1>4. CASE ReadArchiveSection(c)
  BY <1>4, NoLine DEF ReadArchiveSection, ReadSection
<1>5. CASE TakeLock(c) \/ VersionInConfig(c) \/ VersionMissing(c)
  BY <1>5, NoLine DEF TakeLock, VersionInConfig, VersionMissing
<1>6. CASE AskFails(c) \/ AskSucceeds(c) \/ Rewrite(c)
  BY <1>6, NoLine DEF AskFails, AskSucceeds, Rewrite
<1>7. AfterCompile(c) \in {"link", "exit"}
  BY DEF AfterCompile
<1>8. CASE SkipCompile(c) \/ SkipLink(c) \/ SkipArchive(c)
  BY <1>7, <1>8, NoLine DEF SkipCompile, SkipLink, SkipArchive, Skip
<1>9. CASE CompileFails(c) \/ CompileSucceeds(c)
  BY <1>7, <1>9, NoLine DEF CompileFails, CompileSucceeds
<1>10. CASE ListAst(c)
  BY <1>7, <1>10, OneLine DEF ListAst
<1>11. CASE NothingToLink(c) \/ LinkInputs(c) \/ ArchiveInputs(c)
  BY <1>11, NoLine DEF NothingToLink, LinkInputs, ArchiveInputs, WriteInputs
<1>12. CASE RunFails(c) \/ LinkSucceeds(c) \/ ArchiveSucceeds(c)
  BY <1>12, NoLine DEF RunFails, LinkSucceeds, ArchiveSucceeds, RunSucceeds
<1>13. CASE ListComponent(c) \/ ListArchive(c)
  BY <1>13, OneLine DEF ListComponent, ListArchive, ListOutput
<1>14. CASE RemoveInputs(c)
  BY <1>14, NoLine DEF RemoveInputs
<1> QED
  BY <1>1, <1>2, <1>3, <1>4, <1>5, <1>6, <1>8, <1>9, <1>10, <1>11, <1>12, <1>13, <1>14
     DEF ToolMoves, ToolStep

LEMMA ListedStep ==
    ASSUME Typed, ListedOnce, [Next]_vars
    PROVE  ListedOnce'
<1>1. CASE UNCHANGED toolVars
  BY <1>1 DEF toolVars, listVars, ListedOnce
<1>2. CASE \E c \in Tool : ToolMoves(c)
  BY <1>2, ListedToolStep DEF Typed
<1> QED
  BY <1>1, <1>2, ToolCases DEF vars

\* However the calls of a build are nested and interleaved, a tool runs for an
\* outermost call only, in the usual order only after a success, and adds at
\* most one line to each list.
THEOREM EverythingAnalysedOnce == Spec => []AnalysedOnce
<1>1. Init => Marked /\ InOrder /\ ListedOnce
  <2> SUFFICES ASSUME Init PROVE Marked /\ InOrder /\ ListedOnce
    OBVIOUS
  <2>1. Marked /\ InOrder
    BY OneToolPerCall DEF Init, ExeInit, ToolInit, Marked, InOrder, Inside
  <2>2. ListedOnce
    BY DEF Init, ToolInit, ListedOnce
  <2> QED
    BY <2>1, <2>2
<1>2. Typed /\ (Marked /\ InOrder /\ ListedOnce) /\ [Next]_vars => (Marked /\ InOrder /\ ListedOnce)'
  BY MarkedStep, InOrderStep, ListedStep
<1>3. Spec => [](Typed /\ Marked /\ InOrder /\ ListedOnce)
  BY <1>1, <1>2, TypedInit, TypedStep, PTL DEF Spec
<1>4. Marked /\ InOrder /\ ListedOnce => AnalysedOnce
  BY OneToolPerCall DEF Marked, InOrder, ListedOnce, AnalysedOnce, UsualOrder
<1> QED
  BY <1>3, <1>4, PTL

(***************************************************************************)
(* What a call returns.                                                     *)
(***************************************************************************)
CodesRight == \A c \in Call :
    /\ wrRet[c] # 0 => c \in failed \/ tool[c] = "killed"
    /\ (setting.runOrig /\ ~ setting.pretend /\ step[c] # "done") => ret[c] = origRet[c]
    /\ step[c] = "absent" => ~ inWrapper[c] /\ ~ doWrapp[c]

LEMMA FailedStays ==
    ASSUME NEW c \in Tool, ToolMoves(c)
    PROVE  failed \subseteq failed'
<1> USE DEF workVars
<1>1. CASE Spawn(c) \/ ToolExits(c) \/ Kill(c)
  BY <1>1 DEF Spawn, ToolExits, Kill
<1>2. CASE ReadCompilerSection(c) \/ ReadLinkerSection(c) \/ ReadArchiveSection(c)
  BY <1>2 DEF ReadCompilerSection, ReadLinkerSection, ReadArchiveSection, ReadSection
<1>3. CASE \/ TakeLock(c) \/ VersionInConfig(c) \/ VersionMissing(c)
           \/ AskFails(c) \/ AskSucceeds(c) \/ Rewrite(c)
  BY <1>3 DEF TakeLock, VersionInConfig, VersionMissing, AskFails, AskSucceeds, Rewrite
<1>4. CASE SkipCompile(c) \/ SkipLink(c) \/ SkipArchive(c)
  BY <1>4 DEF SkipCompile, SkipLink, SkipArchive, Skip
<1>5. CASE CompileFails(c) \/ CompileSucceeds(c) \/ ListAst(c)
  BY <1>5 DEF CompileFails, CompileSucceeds, ListAst
<1>6. CASE NothingToLink(c) \/ LinkInputs(c) \/ ArchiveInputs(c)
  BY <1>6 DEF NothingToLink, LinkInputs, ArchiveInputs, WriteInputs
<1>7. CASE RunFails(c) \/ LinkSucceeds(c) \/ ArchiveSucceeds(c)
  BY <1>7 DEF RunFails, LinkSucceeds, ArchiveSucceeds, RunSucceeds
<1>8. CASE ListComponent(c) \/ ListArchive(c) \/ RemoveInputs(c)
  BY <1>8 DEF ListComponent, ListArchive, ListOutput, RemoveInputs
<1> QED
  BY <1>1, <1>2, <1>3, <1>4, <1>5, <1>6, <1>7, <1>8 DEF ToolMoves, ToolStep

\* A tool that was killed stays so, and so does one that was never run.
LEMMA KilledStays ==
    ASSUME ToolTyped, NEW c \in Tool, ToolStep(c) \/ ToolExits(c) \/ Kill(c)
    PROVE  \A d \in Tool : /\ tool[d] = "killed" => tool'[d] = "killed"
                           /\ tool[d] = "absent" => tool'[d] = "absent"
                           /\ d \in failed => d \in failed'
<1>1. tool[c] \notin Gone /\ \A d \in Tool : (tool'[d] = "absent") <=> (tool[d] = "absent")
  BY ToolStays
<1>2. failed \subseteq failed'
  BY FailedStays DEF ToolMoves
<1>3. \E s : ToolTo(c, s)
  BY FileSteps DEF ToolMoves, AskSucceeds, Rewrite, ToolStep, Kill, ToolExits,
                   ReadCompilerSection, ReadLinkerSection, ReadArchiveSection, ReadSection, TakeLock,
                   VersionInConfig, VersionMissing, AskFails, SkipCompile, SkipLink, SkipArchive, Skip,
                   CompileFails, CompileSucceeds, ListAst, NothingToLink, LinkInputs, ArchiveInputs,
                   WriteInputs, RunFails, LinkSucceeds, ArchiveSucceeds, RunSucceeds, ListComponent,
                   ListArchive, ListOutput, RemoveInputs
<1>4. \A d \in Tool \ {c} : tool'[d] = tool[d]
  BY <1>3 DEF ToolTo, ToolTyped
<1> QED
  BY <1>1, <1>2, <1>4 DEF Gone

ExitInv == InOrder /\ CodesRight /\ ExitTransparent

LEMMA ExitStep ==
    ASSUME Typed, ExitInv, [Next]_vars
    PROVE  CodesRight' /\ ExitTransparent'
<1> USE DEF Typed, ExeTypeOK, ExitInv, InOrder, CodesRight, ExitTransparent, StepTo
<1>1. ASSUME NEW c \in Call, CallMoves(c), UNCHANGED toolVars
      PROVE  CodesRight' /\ ExitTransparent'
  <2> tool' = tool /\ failed' = failed
    BY <1>1 DEF toolVars, workVars
  <2>1. CASE Enter(c)
    BY <2>1 DEF Enter
  <2>2. CASE EnterFails(c)
    BY <2>2 DEF EnterFails
  <2>3. CASE NoToolFirst(c) \/ NoToolAfter(c)
    BY <2>3 DEF NoToolFirst, NoToolAfter
  <2>4. CASE Leave(c)
    BY <2>4 DEF Leave
  <2>5. CASE \E code \in Codes : OrigReturns(c, code)
    BY <2>5 DEF OrigReturns
  <2> QED
    BY <1>1, <2>1, <2>2, <2>3, <2>4, <2>5 DEF CallMoves
<1>2. ASSUME NEW c \in Call, RunToolFirst(c) \/ RunToolAfter(c), Spawn(c)
      PROVE  CodesRight' /\ ExitTransparent'
  <2>1. failed' = failed /\ \A d \in Call \ {c} : tool'[d] = tool[d]
    BY <1>2, OneToolPerCall DEF Spawn, ToolTo, ToolTyped, workVars
  <2>2. tool[c] = "absent"
    BY <1>2 DEF Spawn
  <2> QED
    BY <1>2, <2>1, <2>2 DEF RunToolFirst, RunToolAfter
<1>3. ASSUME NEW c \in Call, ToolStep(c), UNCHANGED callVars
      PROVE  CodesRight' /\ ExitTransparent'
  BY <1>3, KilledStays, OneToolPerCall DEF callVars
<1>4. ASSUME NEW c \in Call, ToolExits(c), ToolReturns(c, ToolCode(c))
      PROVE  CodesRight' /\ ExitTransparent'
  <2>1. tool[c] = "exit" /\ ToolCode(c) \in Codes /\ (ToolCode(c) # 0 => c \in failed)
    BY <1>4 DEF ToolExits, ToolCode, Codes
  <2> QED
    BY <1>4, <2>1, KilledStays, OneToolPerCall DEF ToolReturns
<1>5. ASSUME NEW c \in Call, Kill(c), ToolReturns(c, 1)
      PROVE  CodesRight' /\ ExitTransparent'
  <2>1. tool'[c] = "killed"
    BY <1>5, OneToolPerCall DEF Kill, ToolTo, ToolTyped
  <2> QED
    BY <1>5, <2>1, KilledStays, OneToolPerCall DEF ToolReturns
<1>6. CASE UNCHANGED vars
  BY <1>6 DEF vars, callVars, toolVars, workVars
<1> QED
  BY <1>1, <1>2, <1>3, <1>4, <1>5, <1>6, StepCases

\* Whatever the analysis does, a call returns what the original program has
\* returned, unless the settings say otherwise or there is no such program.
THEOREM CallsAreTransparent == Spec => []ExitTransparent
<1>1. Init => ExitInv
  <2> SUFFICES ASSUME Init PROVE ExitInv
    OBVIOUS
  <2> QED
    BY OneToolPerCall DEF Init, ExeInit, ToolInit, ExitInv, InOrder, CodesRight, ExitTransparent
<1>2. Typed /\ ExitInv /\ [Next]_vars => ExitInv'
  BY ExitStep, InOrderStep DEF ExitInv
<1>3. Spec => [](Typed /\ ExitInv)
  BY <1>1, <1>2, TypedInit, TypedStep, PTL DEF Spec
<1>4. ExitInv => ExitTransparent
  BY DEF ExitInv
<1> QED
  BY <1>3, <1>4, PTL

(***************************************************************************)
(* The lists of inputs.  A file under the number of a process is either the *)
(* list of the tool that has the number or what a dead one has left.        *)
(***************************************************************************)
\* A tool that has not yet made a list, and one that has not yet deleted it.
Early == {"absent", "readCompiler", "readLinker", "readArchive", "lock", "look", "ask", "rewrite",
          "compile", "listAst", "link", "archive"}
Busy == {"runLinker", "listComponent", "runArchiver", "listArchive", "remove"}

ArchiverStates == {"absent", "readArchive", "archive", "runArchiver", "listArchive", "remove",
                   "exit", "ended", "killed"}

\* What InputsOwn says of a list that is or was given to the linker or archiver of c.
ListRight(c, list) ==
    /\ Inputs(c) \subseteq list
    /\ "archive" \in Jobs[c] => list = Inputs(c)
    /\ \A x \in list \ Inputs(c) :
           \E d \in Tool \ {c} : /\ pid[d] = pid[c]
                                 /\ d \in failed \/ tool[d] = "killed"
                                 /\ x \in Inputs(d)

NumbersOwn ==
    /\ \A c \in Tool : tool[c] \in Early => pid[c] = 0 /\ fed[c] = {}
    /\ \A c, d \in Tool : (Running(c) /\ Running(d) /\ pid[c] # 0 /\ pid[c] = pid[d]) => c = d
    /\ \A c \in Tool : fed[c] # {} => pid[c] \in Pid

ArchiversApart == \A c \in Tool : "archive" \in Jobs[c] => tool[c] \in ArchiverStates

ListsRight ==
    /\ \A c \in Tool : tool[c] \in {"runLinker", "runArchiver"} => ListRight(c, inputs[pid[c]])
    /\ \A c \in Tool : fed[c] # {} => ListRight(c, fed[c])

LeftBehind ==
    \A p \in Pid : \A x \in inputs[p] :
        \E d \in Tool : /\ pid[d] = p
                        /\ x \in Inputs(d)
                        /\ tool[d] \in Busy \/ d \in failed \/ tool[d] = "killed"

OwnInv == NumbersOwn /\ ArchiversApart /\ ListsRight /\ LeftBehind

\* A step that leaves the lists of inputs alone.
Quiet(c) ==
    /\ UNCHANGED <<pid, inputs, fed>>
    /\ generated \subseteq generated' /\ \A d \in generated' \ generated : d = c
    /\ tool[c] \notin Early => generated' = generated
    /\ tool[c] \notin {"ended", "killed"}
    /\ \E s \in ToolStates : /\ ToolTo(c, s)
                             /\ s \in Early => tool[c] \in Early
                             /\ s \notin {"runLinker", "runArchiver"}
                             /\ tool[c] \in Busy => s \in Busy \/ s = "killed"
                             /\ tool[c] \in ArchiverStates \ {"absent"} => s \in ArchiverStates
                             /\ tool[c] = "absent" => s = FirstState(c)

\* Most steps are such steps.
LEMMA QuietSteps ==
    ASSUME ToolTyped, NEW c \in Tool, ToolMoves(c)
    PROVE  \/ Quiet(c)
           \/ LinkInputs(c) \/ ArchiveInputs(c)
           \/ RunFails(c) \/ LinkSucceeds(c) \/ ArchiveSucceeds(c)
           \/ RemoveInputs(c)
<1> USE DEF Quiet, fileVars, workVars, listVars, ToolStates, Gone, Early, Busy, ArchiverStates
<1>1. CASE Spawn(c)
  BY <1>1 DEF Spawn, FirstState
<1>2. CASE ToolExits(c)
  BY <1>2 DEF ToolExits
<1>3. CASE Kill(c)
  BY <1>3 DEF Kill, Running
<1>4. CASE ReadCompilerSection(c) \/ ReadLinkerSection(c) \/ ReadArchiveSection(c)
  BY <1>4 DEF ReadCompilerSection, ReadLinkerSection, ReadArchiveSection, ReadSection
<1>5. CASE TakeLock(c) \/ VersionInConfig(c) \/ VersionMissing(c)
  BY <1>5 DEF TakeLock, VersionInConfig, VersionMissing, AfterVersion
<1>6. CASE AskFails(c) \/ AskSucceeds(c) \/ Rewrite(c)
  BY <1>6 DEF AskFails, AskSucceeds, Rewrite, AfterVersion
<1>7. CASE SkipCompile(c) \/ SkipLink(c) \/ SkipArchive(c)
  BY <1>7 DEF SkipCompile, SkipLink, SkipArchive, Skip, AfterCompile
<1>8. CASE CompileFails(c) \/ CompileSucceeds(c) \/ ListAst(c)
  BY <1>8 DEF CompileFails, CompileSucceeds, ListAst, AfterCompile
<1>9. CASE NothingToLink(c) \/ ListComponent(c) \/ ListArchive(c)
  BY <1>9 DEF NothingToLink, ListComponent, ListArchive, ListOutput
<1> QED
  BY <1>1, <1>2, <1>3, <1>4, <1>5, <1>6, <1>7, <1>8, <1>9 DEF ToolMoves, ToolStep

\* The inputs of a tool may only grow, and not once it has made its list.
LEMMA InputsStay ==
    ASSUME NEW c \in Tool, Quiet(c), NEW d \in Tool
    PROVE  /\ Inputs(d) \subseteq Inputs(d)'
           /\ d # c \/ tool[d] \notin Early => Inputs(d)' = Inputs(d)
BY DEF Quiet, Inputs

\* A list that is right stays so while its tool and those that had its number keep
\* it, and the dead stay dead.
LEMMA ListStays ==
    ASSUME NEW e \in Tool, NEW list, ListRight(e, list),
           pid'[e] = pid[e], Inputs(e)' = Inputs(e),
           \A d \in Tool : pid[d] = pid[e] =>
               /\ pid'[d] = pid[d] /\ Inputs(d) \subseteq Inputs(d)'
               /\ d \in failed => d \in failed'
               /\ tool[d] = "killed" => tool'[d] = "killed"
    PROVE  /\ Inputs(e)' \subseteq list
           /\ "archive" \in Jobs[e] => list = Inputs(e)'
           /\ \A x \in list \ Inputs(e)' :
                  \E d \in Tool \ {e} : /\ pid'[d] = pid'[e]
                                        /\ d \in failed' \/ tool'[d] = "killed"
                                        /\ x \in Inputs(d)'
BY DEF ListRight

\* A step that leaves the lists alone leaves them right.
LEMMA QuietOwn ==
    ASSUME ToolTyped, OwnInv, NEW c \in Tool, Quiet(c), failed \subseteq failed'
    PROVE  OwnInv'
<1>1. PICK s \in ToolStates : /\ ToolTo(c, s)
                              /\ s \in Early => tool[c] \in Early
                              /\ s \notin {"runLinker", "runArchiver"}
                              /\ tool[c] \in Busy => s \in Busy \/ s = "killed"
                              /\ tool[c] \in ArchiverStates \ {"absent"} => s \in ArchiverStates
                              /\ tool[c] = "absent" => s = FirstState(c)
  BY DEF Quiet
<1>2. \A d \in Tool : tool'[d] = IF d = c THEN s ELSE tool[d]
  BY <1>1 DEF ToolTo, ToolTyped
<1>3. pid' = pid /\ inputs' = inputs /\ fed' = fed /\ tool[c] \notin {"ended", "killed"}
  BY DEF Quiet
<1>4. NumbersOwn'
  <2>1. \A d \in Tool : Running(d)' => Running(d) \/ pid[d] = 0
    BY <1>2, <1>3 DEF Running, Gone, OwnInv, NumbersOwn, Early
  <2> QED
    BY <1>1, <1>2, <1>3, <2>1 DEF OwnInv, NumbersOwn
<1>5. ArchiversApart'
  <2>1. "archive" \in Jobs[c] => FirstState(c) \in ArchiverStates
    BY DriverAssumption DEF FirstState, ArchiverStates
  <2> QED
    BY <1>1, <1>2, <2>1 DEF OwnInv, ArchiversApart
<1>6. ASSUME NEW e \in Tool, NEW list, tool[e] \notin Early, ListRight(e, list)
      PROVE  ListRight(e, list)'
  <2>1. \A d \in Tool : Inputs(d) \subseteq Inputs(d)'
    BY InputsStay
  <2>2. Inputs(e)' = Inputs(e)
    BY <1>6, InputsStay
  <2>3. \A d \in Tool : tool[d] = "killed" => tool'[d] = "killed"
    BY <1>2, <1>3
  <2> QED
    BY <1>3, <1>6, <2>1, <2>2, <2>3, ListStays DEF ListRight
<1>7. ListsRight'
  <2>1. \A e \in Tool : tool'[e] \in {"runLinker", "runArchiver"}
            => tool[e] \in {"runLinker", "runArchiver"} /\ tool[e] \notin Early
    BY <1>1, <1>2 DEF Early
  <2>2. \A e \in Tool : fed'[e] # {} => fed[e] # {} /\ tool[e] \notin Early
    BY <1>3 DEF OwnInv, NumbersOwn
  <2> QED
    BY <1>3, <1>6, <2>1, <2>2 DEF OwnInv, ListsRight
<1>8. LeftBehind'
  <2>1. \A d \in Tool : Inputs(d) \subseteq Inputs(d)'
    BY InputsStay
  <2> QED
    BY <1>1, <1>2, <1>3, <2>1 DEF OwnInv, LeftBehind
<1> QED
  BY <1>4, <1>5, <1>7, <1>8 DEF OwnInv

\* The number of a new list is no running tool's, so what is there already is what
\* dead tools have left; the archiver's list is emptied first.
LEMMA WriteOwn ==
    ASSUME ToolTyped, OwnInv, NEW c \in Tool, LinkInputs(c) \/ ArchiveInputs(c)
    PROVE  OwnInv'
<1>1. PICK p \in FreePids, kept \in [Pid -> SUBSET Tool], next \in {"runLinker", "runArchiver"} :
          /\ pid' = [pid EXCEPT ![c] = p]
          /\ inputs' = [inputs EXCEPT ![p] = kept[p] \cup Inputs(c)]
          /\ ToolTo(c, next)
          /\ \/ kept = inputs /\ tool[c] = "link"
             \/ kept[p] = {} /\ tool[c] = "archive" /\ next = "runArchiver"
  <2>1. CASE LinkInputs(c)
    BY <2>1 DEF LinkInputs, WriteInputs, ToolTyped, DataTyped
  <2>2. CASE ArchiveInputs(c)
    <3>1. [q \in Pid |-> {}] \in [Pid -> SUBSET Tool]
      OBVIOUS
    <3> QED
      BY <2>2, <3>1 DEF ArchiveInputs, WriteInputs, FreePids
  <2> QED
    BY <2>1, <2>2
<1>2. /\ p \in Pid /\ p # 0 /\ pid[c] = 0 /\ fed[c] = {} /\ tool[c] \in Early /\ Running(c)
      /\ \A d \in Tool : Running(d) => pid[d] # p
  BY <1>1, PidAssumption DEF FreePids, OwnInv, NumbersOwn, Early, Running, Gone
<1>3. /\ \A d \in Tool : tool'[d] = IF d = c THEN next ELSE tool[d]
      /\ \A d \in Tool : pid'[d] = IF d = c THEN p ELSE pid[d]
      /\ \A q \in Pid : inputs'[q] = IF q = p THEN kept[p] \cup Inputs(c) ELSE inputs[q]
  BY <1>1, <1>2 DEF ToolTo, ToolTyped, DataTyped
<1>4. fed' = fed /\ failed' = failed /\ generated' = generated
  BY DEF LinkInputs, ArchiveInputs, WriteInputs, workVars
<1>5. \A d \in Tool : Inputs(d)' = Inputs(d)
  BY <1>4 DEF Inputs
<1>6. NumbersOwn'
  BY <1>1, <1>2, <1>3, <1>4 DEF OwnInv, NumbersOwn, Running, Gone, Early
<1>7. ArchiversApart'
  BY <1>1, <1>3 DEF OwnInv, ArchiversApart, ArchiverStates
<1>8. ASSUME NEW e \in Tool \ {c}, NEW list, pid[e] \in Pid, ListRight(e, list)
      PROVE  ListRight(e, list)'
  <2>1. pid[e] # 0
    BY <1>8, PidAssumption
  <2>2. pid'[e] = pid[e] /\ Inputs(e)' = Inputs(e)
    BY <1>3, <1>5
  <2>3. \A d \in Tool : pid[d] = pid[e] =>
            /\ pid'[d] = pid[d] /\ Inputs(d) \subseteq Inputs(d)'
            /\ d \in failed => d \in failed'
            /\ tool[d] = "killed" => tool'[d] = "killed"
    BY <1>2, <1>3, <1>4, <1>5, <2>1
  <2>4. /\ Inputs(e)' \subseteq list
        /\ "archive" \in Jobs[e] => list = Inputs(e)'
        /\ \A x \in list \ Inputs(e)' :
               \E d \in Tool \ {e} : /\ pid'[d] = pid'[e]
                                     /\ d \in failed' \/ tool'[d] = "killed"
                                     /\ x \in Inputs(d)'
    BY <1>8, <2>2, <2>3, ListStays
  <2> QED
    BY <2>4 DEF ListRight
<1>9. ListRight(c, inputs[pid[c]])'
  <2>1. Inputs(c) \subseteq inputs'[p]
    BY <1>2, <1>3
  <2>2. "archive" \in Jobs[c] => inputs'[p] = Inputs(c)
    <3>1. "archive" \in Jobs[c] => tool[c] # "link"
      BY DEF OwnInv, ArchiversApart, ArchiverStates
    <3> QED
      BY <1>1, <1>2, <1>3, <3>1
  <2>3. ASSUME NEW x \in inputs'[p] \ Inputs(c)
        PROVE  \E d \in Tool \ {c} : pid[d] = p /\ (d \in failed \/ tool[d] = "killed")
                                     /\ x \in Inputs(d)
    <3>1. x \in inputs[p]
      BY <1>1, <1>2, <1>3, <2>3
    <3>2. PICK d \in Tool : /\ pid[d] = p /\ x \in Inputs(d)
                            /\ tool[d] \in Busy \/ d \in failed \/ tool[d] = "killed"
      BY <1>2, <3>1 DEF OwnInv, LeftBehind
    <3>3. tool[d] \notin Busy /\ d # c
      BY <1>2, <3>2 DEF Busy, Running, Gone
    <3> QED
      BY <3>2, <3>3
  <2>4. /\ Inputs(c)' = Inputs(c) /\ pid'[c] = p /\ failed' = failed
        /\ \A d \in Tool \ {c} : pid'[d] = pid[d] /\ tool'[d] = tool[d] /\ Inputs(d)' = Inputs(d)
    BY <1>3, <1>4, <1>5
  <2>5. \A x \in inputs'[p] \ Inputs(c) :
            \E d \in Tool \ {c} : /\ pid'[d] = pid'[c]
                                  /\ d \in failed' \/ tool'[d] = "killed"
                                  /\ x \in Inputs(d)'
    BY <2>3, <2>4
  <2> QED
    BY <2>1, <2>2, <2>4, <2>5 DEF ListRight
<1>10. ListsRight'
  <2>1. ASSUME NEW e \in Tool, tool'[e] \in {"runLinker", "runArchiver"}
        PROVE  ListRight(e, inputs[pid[e]])'
    <3>1. CASE e = c
      BY <1>9, <3>1
    <3>2. CASE e # c
      <4>1. tool[e] \in {"runLinker", "runArchiver"} /\ pid[e] \in Pid /\ pid[e] # p
        BY <1>2, <1>3, <2>1, <3>2 DEF Running, Gone, ToolTyped, PidKnown
      <4>2. ListRight(e, inputs[pid[e]])
        BY <4>1 DEF OwnInv, ListsRight
      <4>3. inputs'[pid'[e]] = inputs[pid[e]]
        BY <1>3, <3>2, <4>1
      <4> QED
        BY <1>8, <3>2, <4>1, <4>2, <4>3
    <3> QED
      BY <3>1, <3>2
  <2>2. ASSUME NEW e \in Tool, fed'[e] # {} PROVE ListRight(e, fed[e])'
    <3>1. e # c /\ fed[e] # {} /\ pid[e] \in Pid /\ ListRight(e, fed[e])
      BY <1>2, <1>4, <2>2 DEF OwnInv, NumbersOwn, ListsRight
    <3> QED
      BY <1>4, <1>8, <3>1
  <2> QED
    BY <2>1, <2>2 DEF ListsRight
<1>11. LeftBehind'
  <2> SUFFICES ASSUME NEW q \in Pid, NEW x \in inputs'[q]
               PROVE  \E d \in Tool : /\ pid'[d] = q /\ x \in Inputs(d)
                                      /\ tool'[d] \in Busy \/ d \in failed \/ tool'[d] = "killed"
    BY <1>4, <1>5 DEF LeftBehind
  <2>1. CASE q = p /\ x \in Inputs(c)
    BY <1>1, <1>3, <2>1 DEF Busy
  <2>2. CASE ~ (q = p /\ x \in Inputs(c))
    <3>1. x \in inputs[q]
      BY <1>1, <1>3, <2>2
    <3>2. PICK d \in Tool : /\ pid[d] = q /\ x \in Inputs(d)
                            /\ tool[d] \in Busy \/ d \in failed \/ tool[d] = "killed"
      BY <3>1 DEF OwnInv, LeftBehind
    <3>3. d # c
      BY <1>2, <3>2, PidAssumption
    <3> QED
      BY <1>3, <3>2, <3>3
  <2> QED
    BY <2>1, <2>2
<1> QED
  BY <1>6, <1>7, <1>10, <1>11 DEF OwnInv

\* What is given to the linker or archiver is the list as it is; if that fails the
\* list stays behind.
LEMMA RunOwn ==
    ASSUME ToolTyped, OwnInv, NEW c \in Tool, RunFails(c) \/ LinkSucceeds(c) \/ ArchiveSucceeds(c)
    PROVE  OwnInv'
<1> DEFINE list == inputs[pid[c]]
<1>1. PICK s \in {"exit", "listComponent", "listArchive"} :
          /\ tool[c] \in {"runLinker", "runArchiver"} /\ ToolTo(c, s)
          /\ s = "listComponent" => tool[c] = "runLinker"
          /\ s = "exit" => failed' = failed \cup {c}
  BY DEF RunFails, LinkSucceeds, ArchiveSucceeds, RunSucceeds
<1>2. /\ fed' = [fed EXCEPT ![c] = list] /\ failed \subseteq failed'
      /\ UNCHANGED <<generated, pid, inputs>>
  BY DEF RunFails, LinkSucceeds, ArchiveSucceeds, RunSucceeds, workVars
<1>3. /\ \A d \in Tool : tool'[d] = IF d = c THEN s ELSE tool[d]
      /\ \A d \in Tool : fed'[d] = IF d = c THEN list ELSE fed[d]
  BY <1>1, <1>2 DEF ToolTo, ToolTyped, DataTyped
<1>4. \A d \in Tool : Inputs(d)' = Inputs(d)
  BY <1>2 DEF Inputs
<1>5. pid[c] \in Pid /\ tool[c] \notin Early /\ Running(c)
  BY <1>1 DEF ToolTyped, PidKnown, Early, Running, Gone
<1>6. NumbersOwn'
  BY <1>1, <1>2, <1>3, <1>5 DEF OwnInv, NumbersOwn, Running, Gone, Early
<1>7. ArchiversApart'
  BY <1>1, <1>3 DEF OwnInv, ArchiversApart, ArchiverStates
<1>8. ASSUME NEW e \in Tool, NEW l, ListRight(e, l) PROVE ListRight(e, l)'
  <2>1. \A d \in Tool : /\ pid'[d] = pid[d] /\ Inputs(d)' = Inputs(d)
                        /\ d \in failed => d \in failed'
                        /\ tool[d] = "killed" => tool'[d] = "killed"
    BY <1>1, <1>2, <1>3, <1>4
  <2>2. /\ Inputs(e)' \subseteq l
        /\ "archive" \in Jobs[e] => l = Inputs(e)'
        /\ \A x \in l \ Inputs(e)' :
               \E d \in Tool \ {e} : /\ pid'[d] = pid'[e]
                                     /\ d \in failed' \/ tool'[d] = "killed"
                                     /\ x \in Inputs(d)'
    BY <1>8, <2>1, ListStays
  <2> QED
    BY <2>2 DEF ListRight
<1>9. ListsRight'
  <2>1. ListRight(c, list)
    BY <1>1 DEF OwnInv, ListsRight
  <2>2. ASSUME NEW e \in Tool, tool'[e] \in {"runLinker", "runArchiver"}
        PROVE  ListRight(e, inputs[pid[e]])'
    <3>1. tool[e] \in {"runLinker", "runArchiver"}
      BY <1>1, <1>3, <2>2
    <3> QED
      BY <1>2, <1>8, <3>1 DEF OwnInv, ListsRight
  <2>3. ASSUME NEW e \in Tool, fed'[e] # {} PROVE ListRight(e, fed[e])'
    BY <1>3, <1>8, <2>1, <2>3 DEF OwnInv, ListsRight
  <2> QED
    BY <2>2, <2>3 DEF ListsRight
<1>10. LeftBehind'
  BY <1>1, <1>2, <1>3, <1>4 DEF OwnInv, LeftBehind, Busy
<1> QED
  BY <1>6, <1>7, <1>9, <1>10 DEF OwnInv

\* A tool deletes its own list.
LEMMA RemoveOwn ==
    ASSUME ToolTyped, OwnInv, NEW c \in Tool, RemoveInputs(c)
    PROVE  OwnInv'
<1>1. /\ tool[c] = "remove" /\ ToolTo(c, "exit") /\ inputs' = [inputs EXCEPT ![pid[c]] = {}]
      /\ UNCHANGED <<failed, generated, pid, fed>>
  BY DEF RemoveInputs, workVars
<1>2. /\ \A d \in Tool : tool'[d] = IF d = c THEN "exit" ELSE tool[d]
      /\ \A q \in Pid : inputs'[q] = IF q = pid[c] THEN {} ELSE inputs[q]
  BY <1>1 DEF ToolTo, ToolTyped, DataTyped
<1>3. \A d \in Tool : Inputs(d)' = Inputs(d)
  BY <1>1 DEF Inputs
<1>4. NumbersOwn'
  BY <1>1, <1>2 DEF OwnInv, NumbersOwn, Running, Gone, Early
<1>5. ArchiversApart'
  BY <1>1, <1>2 DEF OwnInv, ArchiversApart, ArchiverStates
<1>6. ASSUME NEW e \in Tool, NEW l, ListRight(e, l) PROVE ListRight(e, l)'
  BY <1>1, <1>2, <1>3, <1>6, ListStays DEF ListRight
<1>7. ListsRight'
  <2>1. ASSUME NEW e \in Tool, tool'[e] \in {"runLinker", "runArchiver"}
        PROVE  ListRight(e, inputs[pid[e]])'
    <3>1. tool[e] \in {"runLinker", "runArchiver"} /\ e # c /\ pid[e] \in Pid
      BY <1>2, <2>1 DEF ToolTyped, PidKnown
    <3>2. Running(e) /\ Running(c)
      BY <1>1, <3>1 DEF Running, Gone
    <3>3. pid[e] # pid[c]
      BY <3>1, <3>2, PidAssumption DEF OwnInv, NumbersOwn
    <3>4. inputs'[pid'[e]] = inputs[pid[e]]
      BY <1>1, <1>2, <3>1, <3>3
    <3> QED
      BY <1>6, <3>1, <3>4 DEF OwnInv, ListsRight
  <2>2. ASSUME NEW e \in Tool, fed'[e] # {} PROVE ListRight(e, fed[e])'
    BY <1>1, <1>6, <2>2 DEF OwnInv, ListsRight
  <2> QED
    BY <2>1, <2>2 DEF ListsRight
<1>8. LeftBehind'
  BY <1>1, <1>2, <1>3 DEF OwnInv, LeftBehind
<1> QED
  BY <1>4, <1>5, <1>7, <1>8 DEF OwnInv

\* Whatever a step of the build does, the lists stay right.
LEMMA OwnStep ==
    ASSUME Typed, OwnInv, [Next]_vars
    PROVE  OwnInv'
<1>1. CASE UNCHANGED toolVars
  BY <1>1 DEF toolVars, workVars, listVars, OwnInv, NumbersOwn, ArchiversApart, ListsRight,
              LeftBehind, ListRight, Inputs, Running
<1>2. ASSUME NEW c \in Tool, ToolMoves(c) PROVE OwnInv'
  BY <1>2, QuietSteps, FailedStays, QuietOwn, WriteOwn, RunOwn, RemoveOwn DEF Typed
<1> QED
  BY <1>1, <1>2, ToolCases DEF vars

\* Whatever numbers the processes of a parallel build get, the linker and the archiver
\* of a tool are given all of the tool's inputs; an archiver is given nothing else, a
\* linker only what a tool that had the same number and failed or was killed has left.
THEOREM InputsAreOwn == Spec => []InputsOwn
<1>1. Init => OwnInv
  <2> SUFFICES ASSUME Init PROVE OwnInv
    OBVIOUS
  <2>1. \A c \in Tool : tool[c] = "absent" /\ pid[c] = 0 /\ fed[c] = {}
    BY DEF Init, ToolInit
  <2>2. \A p \in Pid : inputs[p] = {}
    BY DEF Init, ToolInit
  <2> QED
    BY <2>1, <2>2 DEF OwnInv, NumbersOwn, ArchiversApart, ListsRight, LeftBehind, Running, Gone,
                      ArchiverStates
<1>2. Typed /\ OwnInv /\ [Next]_vars => OwnInv'
  BY OwnStep
<1>3. OwnInv => InputsOwn
  BY DEF OwnInv, ListsRight, ListRight, InputsOwn
<1> QED
  BY <1>1, <1>2, <1>3, TypedInit, TypedStep, PTL DEF Spec

=============================================================================
