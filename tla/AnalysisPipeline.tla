-------------------------- MODULE AnalysisPipeline --------------------------
(***************************************************************************)
(* The tasks that runAnalyzeMode of an OpenStaticAnalyzer<Language> program *)
(* registers, and the data they hand to each other: files under the result  *)
(* directory and fields of the global Properties object.                    *)
(*                                                                         *)
(* The tasks run as DependencySchedule says, which is what Controller.tla   *)
(* is shown to do.  What keeps the hand-over right is only the table of     *)
(* dependencies; the tables of the four languages are the modules           *)
(* JavaTasks, JavaScriptTasks, PythonTasks and CSharpTasks.                 *)
(*                                                                         *)
(* The content of a file is the set of tasks whose work has gone into it.   *)
(* A task reads when it starts and writes when it ends, so two tasks that   *)
(* rewrite the same file at the same time lose an update.  In the program a *)
(* started task reads later than that; AnalysisProgram.tla has it that way, *)
(* and is shown to implement this specification where the table is RaceFree.*)
(***************************************************************************)
EXTENDS Integers, FiniteSets

CONSTANTS Task,            \* names of the tasks of all programs
          Programs,        \* name -> [tasks: task -> entry, always]
          OptionChoices    \* programs, command lines and profiles to start with

ASSUME TableAssumption == Task = UNION {DOMAIN Programs[p].tasks : p \in DOMAIN Programs}

UDM == "UserDefinedMetricsTask"
Profile == "ProfileTask"
Merge == "GraphMergeTask"
Dump == "GraphDumpTask"
Dcf == "DcfTask"

FilesOf(e) == e.reads \cup e.uses \cup e.writes \cup e.clears

Files == UNION {UNION {FilesOf(Programs[p].tasks[t]) : t \in DOMAIN Programs[p].tasks} :
                    p \in DOMAIN Programs}

\* A command line names one of the programs; each of them has a task for user
\* defined metrics; what an earlier run left is not the work of a task.
ASSUME OptionAssumption ==
    \A o \in OptionChoices : /\ o.program \in DOMAIN Programs
                             /\ o.runUDM \in BOOLEAN
                             /\ o.profileHasUDM \in BOOLEAN
ASSUME NameAssumption == UDM \in Task /\ "earlier run" \notin Task

VARIABLES registered, dependsOn, status, stopped, verdict,   \* DependencySchedule
          options,    \* the chosen program and its options
          runUDM,     \* props.runUDM
          skipped,    \* UDM, when it found that it had nothing to do
          content,    \* file -> tasks whose work is in it
          seen        \* task -> tasks whose work it has read

scheduleVars == <<registered, dependsOn, status, stopped, verdict>>
dataVars == <<runUDM, skipped, content, seen>>
vars == <<scheduleVars, options, dataVars>>

DependsOnIn(p) == [t \in Task |-> IF t \in DOMAIN Programs[p].tasks
                                  THEN Programs[p].tasks[t].after
                                  ELSE {}]

Schedule == INSTANCE DependencySchedule
                WITH DependencyChoices <- {DependsOnIn(p) : p \in DOMAIN Programs}

Pipeline == Programs[options.program].tasks

\* What runAnalyzeMode registers: most tasks have a switch of their own.
Registered(o) ==
    LET wanted == Programs[o.program].always
                    \cup o.tools
                    \cup (IF o.cleanResults # -1 THEN {"CleanResultsTask"} ELSE {})
                    \cup (IF ~ o.runUDMExplicit \/ o.runUDM THEN {UDM} ELSE {})
    IN  wanted \cap DOMAIN Programs[o.program].tasks

\* The genealogy file is touched only on demand: by the clone detector with
\* -cloneGenealogy, by the cleaning task with -cleanResults:0.
Unused(t) == IF \/ t = Dcf /\ ~ options.cloneGenealogy
                \/ t # Dcf /\ options.cleanResults # 0
             THEN {"gsi"}
             ELSE {}

Reads(t) == Pipeline[t].reads                        \* must be there
Inputs(t) == Reads(t) \cup (Pipeline[t].uses \ Unused(t))
Clears(t) == Pipeline[t].clears \ Unused(t)
Writes(t) == Pipeline[t].writes \ Unused(t)

-----------------------------------------------------------------------------
\* What the tasks will find: the command line's switch, the genealogy of earlier
\* runs, and nothing else.
DataInit == /\ runUDM = options.runUDM
            /\ skipped = {}
            /\ content = [f \in Files |-> IF f = "gsi" THEN {"earlier run"} ELSE {}]
            /\ seen = [t \in Task |-> {}]

Init == /\ options \in OptionChoices
        /\ registered = Registered(options)
        /\ dependsOn = DependsOnIn(options.program)
        /\ status = [t \in Task |-> "waiting"]
        /\ stopped = FALSE
        /\ verdict = "none"
        /\ DataInit

\* What t reads of the files.
Read(t) == UNION {content[f] : f \in Inputs(t)}

\* Slip: every task looks at the switch.
LookUnasked(t) ==
    /\ IF ~ runUDM
       THEN skipped' = skipped \cup {t} /\ UNCHANGED seen
       ELSE seen' = [seen EXCEPT ![t] = Read(t)] /\ UNCHANGED skipped
    /\ UNCHANGED <<options, runUDM, content>>

\* UserDefinedMetricsTask looks at props.runUDM first.
Look(t) ==
    /\ IF t = UDM /\ ~ runUDM
       THEN skipped' = skipped \cup {t} /\ UNCHANGED seen
       ELSE seen' = [seen EXCEPT ![t] = Read(t)] /\ UNCHANGED skipped
    /\ UNCHANGED <<options, runUDM, content>>

Begin(t) == Schedule!Launch(t) /\ Look(t)

\* An explicit -runUDM:true without metrics in the profile is an exception.
ProfileFails == options.runUDMExplicit /\ options.runUDM /\ ~ options.profileHasUDM

ContentAfter(t) == [f \in Files |-> IF f \in Clears(t) THEN {}
                                    ELSE IF f \in Writes(t) THEN seen[t] \cup {t}
                                    ELSE content[f]]

\* What t leaves behind when its result is known: its work, if it is any good.
HandOver(t, good) ==
    /\ content' = IF good /\ t \notin skipped THEN ContentAfter(t) ELSE content
    /\ runUDM' = IF good /\ t = Profile /\ ~ options.runUDMExplicit
                 THEN options.profileHasUDM
                 ELSE runUDM
    /\ UNCHANGED <<options, skipped, seen>>

End(t) == /\ Schedule!Finish(t)
          /\ t = Profile /\ ProfileFails => status'[t] = "bad"
          /\ HandOver(t, status'[t] = "good")

Controlled == /\ Schedule!NoticeFailure \/ Schedule!Conclude
              /\ UNCHANGED <<options, dataVars>>

\* runAnalyzeMode returns.
Over == verdict # "none" /\ UNCHANGED vars

Next == \/ \E t \in Task : Begin(t) \/ End(t)
        \/ Controlled
        \/ Over

Spec == Init /\ [][Next]_vars

-----------------------------------------------------------------------------
Running == {t \in Task : status[t] = "running"}
Worked == {t \in Task : status[t] # "waiting"} \ skipped

\* What a task that runs touches, and what of it it changes.
Modified(t) == IF t \in skipped THEN {} ELSE Clears(t) \cup Writes(t)
Touched(t) == IF t \in skipped THEN {"props.runUDM"} ELSE Inputs(t) \cup Modified(t)

ShouldRunUDM == IF options.runUDMExplicit THEN options.runUDM ELSE options.profileHasUDM

\* The tasks whose results belong into the merged graph.
Contributors == {t \in registered : /\ Writes(t) \cap ({"graph"} \cup Inputs(Merge)) # {}
                                    /\ t = UDM => ShouldRunUDM}

\* Type invariant.
TypeOK == /\ registered \subseteq Task
          /\ status \in [Task -> Schedule!Statuses]
          /\ stopped \in BOOLEAN
          /\ verdict \in {"none", "failure", "success"}
          /\ options \in OptionChoices
          /\ runUDM \in BOOLEAN
          /\ skipped \subseteq {UDM}
          /\ content \in [Files -> SUBSET (Task \cup {"earlier run"})]
          /\ seen \in [Task -> SUBSET (Task \cup {"earlier run"})]

\* No task changes a file or a property that another running task touches.
RaceFree == \A t, u \in Running : t # u => Modified(t) \cap Touched(u) = {}

\* While a task runs, the files it cannot do without are there.
InputsPresent ==
    \A t \in Running \ skipped : \A f \in Reads(t) : content[f] # {}

\* The dump that users see is made from a graph with the results of every
\* enabled tool.
DumpComplete == Dump \in Worked => Contributors \subseteq seen[Dump]

\* main.cpp: "otherwise, we run it, and it exits, if there was nothing to do
\* according to the profile"; the default of -runUDM "is dependent on the
\* presence of custom metric definitions in the profile xml".
UDMFollowsProfile == status[UDM] # "waiting" => (UDM \in skipped <=> ~ ShouldRunUDM)

\* The genealogy of the clones of this run is kept for the next revision, and
\* -cleanResults:0 makes it start afresh.
GenealogyKept ==
    (Dcf \in registered /\ options.cloneGenealogy) =>
        /\ verdict = "success" => Dcf \in content["gsi"]
        /\ Dcf \in Worked /\ options.cleanResults = 0 => "earlier run" \notin seen[Dcf]

=============================================================================
