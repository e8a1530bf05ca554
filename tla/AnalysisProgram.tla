--------------------------- MODULE AnalysisProgram ---------------------------
(***************************************************************************)
(* runAnalyzeMode of an OpenStaticAnalyzer<Language> program as a whole:    *)
(* the tasks of its table, run by the controller on threads of the pool,    *)
(* with the files and the fields of Properties that execute() reads and     *)
(* writes on these threads.                                                 *)
(*                                                                         *)
(* A task that has been started may wait for its slot for a long time, and  *)
(* reads when it has got it; other tasks end and write in the meantime.     *)
(* AnalysisPipeline, where a task reads when it is started, is implemented  *)
(* all the same, if the table puts conflicting tasks in order.              *)
(***************************************************************************)
EXTENDS Controller

CONSTANTS Programs,        \* as in AnalysisPipeline
          OptionChoices

VARIABLES options,    \* the chosen program and its options
          runUDM,     \* props.runUDM
          skipped,    \* UDM, when it found that it had nothing to do
          content,    \* file -> tasks whose work is in it
          seen,       \* task -> tasks whose work it has read
          begun       \* tasks that have looked at what they need

dataVars == <<options, runUDM, skipped, content, seen, begun>>
programVars == <<vars, dataVars>>

\* The table: what is registered, and what each task reads, writes and removes.
Table == INSTANCE AnalysisPipeline
             WITH status <- [t \in Task |-> StatusOf(t)],
                  stopped <- failed,
                  verdict <- ret

ASSUME ProgramAssumption ==
    /\ Task = UNION {DOMAIN Programs[p].tasks : p \in DOMAIN Programs}
    /\ DependencyChoices = {Table!DependsOnIn(p) : p \in DOMAIN Programs}

\* As AnalysisPipeline assumes.
ASSUME OptionAssumption ==
    \A o \in OptionChoices : /\ o.program \in DOMAIN Programs
                             /\ o.runUDM \in BOOLEAN
                             /\ o.profileHasUDM \in BOOLEAN
ASSUME NameAssumption == Table!UDM \in Task /\ "earlier run" \notin Task

ToRegister == Table!Registered(options)

-----------------------------------------------------------------------------
ProgramInit == /\ Init
               /\ options \in OptionChoices
               /\ dependsOn = Table!DependsOnIn(options.program)
               /\ Table!DataInit
               /\ begun = {}

\* runAnalyzeMode registers the tasks that the options ask for, then runs them.
RegisterTask(t) == /\ t \in ToRegister
                   /\ AddTask(t)
                   /\ UNCHANGED dataVars

RunTasks == /\ registered = ToRegister
            /\ ExecuteTasks
            /\ UNCHANGED dataVars

\* Slip: a task reads in its constructor.
MayLookAtOnce(t) == main = "setup" /\ t \in registered

\* Worker::operator() has called execute().
MayLook(t) == pc[t] = "run" /\ worker[t] = "execute"

LookAround(t) == /\ MayLook(t)
                 /\ t \notin begun
                 /\ Table!Look(t)
                 /\ begun' = begun \cup {t}
                 /\ UNCHANGED vars

\* execute() returns.
Perform(t) == /\ t \in begun
              /\ Execute(t)
              /\ t = Table!Profile /\ Table!ProfileFails => result'[t].criticalError
              /\ Table!HandOver(t, ~ IsFailure(executionMode, result'[t]))
              /\ UNCHANGED begun

Control == MainStep /\ UNCHANGED dataVars

\* The other steps of a thread.
RunThread(t) == AroundExecute(t) /\ UNCHANGED dataVars

WakeUp(t) == SpuriousWakeup(t) /\ UNCHANGED dataVars

End == Stopped /\ UNCHANGED dataVars

-----------------------------------------------------------------------------
TaskThread(t) == LookAround(t) \/ Perform(t) \/ RunThread(t)

ProgramNext == \/ \E t \in Task : RegisterTask(t) \/ TaskThread(t) \/ WakeUp(t)
               \/ RunTasks
               \/ Control
               \/ End

ProgramSpec == ProgramInit /\ [][ProgramNext]_programVars

\* The operating system runs every thread that can run, and tasks end.
Fairness == /\ WF_programVars(Control)
            /\ \A t \in Task : WF_programVars(TaskThread(t))

FairProgramSpec == ProgramSpec /\ Fairness

-----------------------------------------------------------------------------
\* Type invariant of the whole program.
ProgramTypeOK == /\ TypeOK
                 /\ options \in OptionChoices
                 /\ runUDM \in BOOLEAN
                 /\ skipped \subseteq begun \cap {Table!UDM}
                 /\ content \in [Table!Files -> SUBSET (Task \cup {"earlier run"})]
                 /\ seen \in [Task -> SUBSET (Task \cup {"earlier run"})]
                 /\ begun \subseteq Started

\* Started, and still to look at what it needs.
Pending(t) == StatusOf(t) = "running" /\ t \notin begun

\* What a pending task is going to find is there already.
SeenSoFar == [t \in Task |-> IF Pending(t) /\ ~ (t = Table!UDM /\ ~ runUDM)
                             THEN Table!Read(t)
                             ELSE seen[t]]

SkippedSoFar == skipped \cup {t \in Task \cap {Table!UDM} : Pending(t) /\ ~ runUDM}

\* A table with a cycle is rejected, and nothing is executed.
Pipeline == INSTANCE AnalysisPipeline
                WITH registered <- ToRegister,
                     status <- [t \in Task |-> StatusOf(t)],
                     stopped <- failed,
                     verdict <- IF ret = "rejected" THEN "none" ELSE ret,
                     skipped <- SkippedSoFar,
                     seen <- SeenSoFar

\* The program implements AnalysisPipeline: whatever the threads do between the
\* start of a task and its end, a task works on what was there when it was started,
\* which is the work of all that it depends on; nobody overwrites it meanwhile.
ImplementsAnalysisPipeline == Pipeline!Spec

=============================================================================
