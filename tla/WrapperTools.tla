---------------------------- MODULE WrapperTools ----------------------------
(***************************************************************************)
(* The wrapper tools (ClangWrapper, ClWrapper, LdWrapper, LinkWrapper,      *)
(* ArWrapper, LibWrapper), one process for each analysed call of a build.   *)
(* The processes of a parallel build share                                  *)
(*   - analyzer_wrapper_config.ini, which they read without a lock, and     *)
(*     into which the compilers' wrappers write the version of the compiler *)
(*     under an exclusive lock, by truncating the file and writing it anew; *)
(*   - ast.list, aast.list and component.list, to which each adds a line    *)
(*     for what it has produced;                                            *)
(*   - the directory in which each makes a list of the inputs of the linker *)
(*     or archiver, under a name made of the number of its process.         *)
(*                                                                         *)
(* The line of a list is added under a lock that is held for nothing else,  *)
(* so adding it is one step.  The system releases a dead process's locks.   *)
(***************************************************************************)
EXTENDS Naturals, FiniteSets

CONSTANTS Tool,        \* the tools, one for each call of a wrapped program
          NoTool,
          Jobs,        \* what each tool is asked for: "compile", "link", "archive"
          Driver,      \* the tools of calls of compilers, which need not compile
          Compiler,    \* the compiler of each of these
          InputsOf,    \* the tools whose outputs a tool links or archives
          Pid,         \* numbers of processes
          MaxKills     \* bound: how many tools are killed

AllJobs == {"compile", "link", "archive"}

ASSUME JobsAssumption == /\ Jobs \in [Tool -> (SUBSET AllJobs) \ {{}}]
                         /\ \A c \in Tool : "archive" \in Jobs[c] => Jobs[c] = {"archive"}
ASSUME DriverAssumption == /\ Driver \subseteq Tool
                           /\ \A c \in Tool : "compile" \in Jobs[c] => c \in Driver
                           /\ \A c \in Driver : "archive" \notin Jobs[c]
ASSUME InputsAssumption == InputsOf \in [Tool -> SUBSET Tool]
ASSUME PidAssumption == 0 \notin Pid
ASSUME BoundAssumption == MaxKills \in Nat

VARIABLES
    tool,       \* where each tool is
    settings,   \* the configuration file contains the user's settings
    versions,   \* the compilers whose versions the configuration file contains
    lock,       \* the tool that holds the configuration's lock, or NoTool
    copy,       \* what that tool is about to write into the file
    needed,     \* for each tool the sections in which it has read NEED_TO_RUN=1
    failed,     \* the tools that return 1
    generated,  \* the tools that have handed a file to CAN (generated_files)
    lists,      \* the lines of the lists: how often each tool's output is in it
    pid,        \* the number of each process that has made a list of inputs
    inputs,     \* the lists of inputs, by number; empty: there is none
    fed,        \* history: for each tool the list that was given to the linker or archiver
    found,      \* history: the compilers whose versions have been written
    skipped,    \* history: the jobs that were left out "by configuration"
    lost,       \* history: a tool was killed while the configuration was truncated
    kills       \* history: how many tools were killed

fileVars == <<settings, versions, lock, copy, found, lost>>
workVars == <<needed, failed, generated, skipped>>
listVars == <<lists, pid, inputs, fed>>
toolVars == <<tool, fileVars, workVars, listVars, kills>>

\* absent, ended, killed   no process
\* readCompiler, readLinker, readArchive   about to read a section
\* lock, look, ask, rewrite                readCompilerVersion
\* compile, listAst                        executeCompiler
\* link, runLinker, listComponent          executeLinker
\* archive, runArchiver, listArchive       executeArchive
\* remove                                  about to delete the list of inputs
\* exit                                    about to return
Gone == {"absent", "ended", "killed"}
ToolStates == Gone \cup {"readCompiler", "readLinker", "readArchive",
                         "lock", "look", "ask", "rewrite",
                         "compile", "listAst", "link", "runLinker", "listComponent",
                         "archive", "runArchiver", "listArchive", "remove", "exit"}

\* Where a tool holds the lock of the configuration.
InLock == {"look", "ask", "rewrite"}

ListNames == {"ast", "aast", "component"}
Content == [settings : BOOLEAN, versions : SUBSET {Compiler[c] : c \in Tool}]
NoContent == [settings |-> FALSE, versions |-> {}]

ToolTypeOK == /\ tool \in [Tool -> ToolStates]
              /\ [settings |-> settings, versions |-> versions] \in Content
              /\ {c \in Tool : tool[c] \in InLock} = {lock} \ {NoTool}
              /\ copy \in Content
              /\ needed \in [Tool -> SUBSET AllJobs]
              /\ failed \subseteq Tool
              /\ generated \subseteq Tool
              /\ lists \in [ListNames -> [Tool -> Nat]]
              /\ pid \in [Tool -> Pid \cup {0}]
              /\ inputs \in [Pid -> SUBSET Tool]
              /\ fed \in [Tool -> SUBSET Tool]
              /\ found \subseteq {Compiler[c] : c \in Tool}
              /\ skipped \in [Tool -> SUBSET AllJobs]
              /\ lost \in BOOLEAN
              /\ kills \in 0 .. MaxKills

ToolTo(c, s) == tool' = [tool EXCEPT ![c] = s]

Running(c) == tool[c] \notin Gone

FirstState(c) == IF c \in Driver THEN "readCompiler"
                 ELSE IF "archive" \in Jobs[c] THEN "readArchive" ELSE "readLinker"

\* The lines that the tool writes into its list of inputs.
Inputs(c) == InputsOf[c] \cup (IF c \in generated THEN {c} ELSE {})

FreePids == {p \in Pid : \A d \in Tool : Running(d) => pid[d] # p}

AddLine(list, c) == lists' = [lists EXCEPT ![list][c] = @ + 1]

-----------------------------------------------------------------------------
(* Slips that the runs must notice; none of these is part of a Spec. *)

\* The lock of the configuration is not waited for.
TakeLockAnyway(c) == /\ tool[c] = "lock"
                     /\ lock' = c
                     /\ ToolTo(c, "look")
                     /\ UNCHANGED <<settings, versions, copy, found, lost,
                                    workVars, listVars, kills>>

\* A version that cannot be found out is asked for again.
AskFailsRetries(c) == /\ tool[c] = "ask"
                      /\ lock' = NoTool
                      /\ ToolTo(c, "lock")
                      /\ UNCHANGED <<settings, versions, copy, found, lost,
                                     workVars, listVars, kills>>

\* The copy is made of the sections only that the tool itself knows.
AskSucceedsAlone(c) == /\ tool[c] = "ask"
                       /\ copy' = [settings |-> settings, versions |-> {Compiler[c]}]
                       /\ settings' = FALSE
                       /\ versions' = {}
                       /\ ToolTo(c, "rewrite")
                       /\ UNCHANGED <<lock, found, lost, workVars, listVars, kills>>

\* Nothing is deleted.
RemoveNothing(c) == /\ tool[c] = "remove"
                    /\ ToolTo(c, "exit")
                    /\ UNCHANGED <<fileVars, workVars, listVars, kills>>

-----------------------------------------------------------------------------
ToolInit == /\ tool = [c \in Tool |-> "absent"]
            /\ settings = TRUE
            /\ versions = {}
            /\ lock = NoTool
            /\ copy = NoContent
            /\ needed = [c \in Tool |-> {}]
            /\ failed = {}
            /\ generated = {}
            /\ lists = [l \in ListNames |-> [c \in Tool |-> 0]]
            /\ pid = [c \in Tool |-> 0]
            /\ inputs = [p \in Pid |-> {}]
            /\ fed = [c \in Tool |-> {}]
            /\ found = {}
            /\ skipped = [c \in Tool |-> {}]
            /\ lost = FALSE
            /\ kills = 0

Spawn(c) == /\ tool[c] = "absent"
            /\ ToolTo(c, FirstState(c))
            /\ UNCHANGED <<fileVars, workVars, listVars, kills>>

(***************************************************************************)
(* The constructors: readConfig opens the file and looks for the section    *)
(* and the key; the default of NEED_TO_RUN is 0.                            *)
(***************************************************************************)
ReadSection(c, from, job, next) ==
    /\ tool[c] = from
    /\ needed' = [needed EXCEPT ![c] = IF settings THEN @ \cup {job} ELSE @]
    /\ ToolTo(c, next)
    /\ UNCHANGED <<fileVars, failed, generated, skipped, listVars, kills>>

ReadCompilerSection(c) == ReadSection(c, "readCompiler", "compile", "readLinker")

ReadLinkerSection(c) ==
    ReadSection(c, "readLinker", "link", IF c \in Driver THEN "lock" ELSE "link")

ReadArchiveSection(c) == ReadSection(c, "readArchive", "archive", "archive")

(***************************************************************************)
(* readCompilerVersion and setCompilerVersion.  The compiler's wrapper calls *)
(* them before it knows whether its call compiles or only links.            *)
(***************************************************************************)
AfterVersion(c) == IF "compile" \in Jobs[c] THEN "compile" ELSE "link"

TakeLock(c) == /\ tool[c] = "lock"
               /\ lock = NoTool
               /\ lock' = c
               /\ ToolTo(c, "look")
               /\ UNCHANGED <<settings, versions, copy, found, lost,
                              workVars, listVars, kills>>

VersionInConfig(c) == /\ tool[c] = "look"
                      /\ Compiler[c] \in versions
                      /\ lock' = NoTool
                      /\ ToolTo(c, AfterVersion(c))
                      /\ UNCHANGED <<settings, versions, copy, found, lost,
                                     workVars, listVars, kills>>

VersionMissing(c) == /\ tool[c] = "look"
                     /\ Compiler[c] \notin versions
                     /\ ToolTo(c, "ask")
                     /\ UNCHANGED <<fileVars, workVars, listVars, kills>>

AskFails(c) == /\ tool[c] = "ask"
               /\ lock' = NoTool
               /\ ToolTo(c, AfterVersion(c))
               /\ UNCHANGED <<settings, versions, copy, found, lost,
                              workVars, listVars, kills>>

\* writePrivateProfileString makes a copy with the version in it, then opens
\* the file for writing, which empties it, ...
AskSucceeds(c) == /\ tool[c] = "ask"
                  /\ copy' = [settings |-> settings, versions |-> versions \cup {Compiler[c]}]
                  /\ settings' = FALSE
                  /\ versions' = {}
                  /\ ToolTo(c, "rewrite")
                  /\ UNCHANGED <<lock, found, lost, workVars, listVars, kills>>

\* ... and fills it from the copy.
Rewrite(c) == /\ tool[c] = "rewrite"
              /\ settings' = copy.settings
              /\ versions' = copy.versions
              /\ copy' = NoContent
              /\ found' = found \cup {Compiler[c]}
              /\ lock' = NoTool
              /\ ToolTo(c, AfterVersion(c))
              /\ UNCHANGED <<lost, workVars, listVars, kills>>

(***************************************************************************)
(* A job that the configuration does not ask for is left out with a warning *)
(* and counts as done.                                                      *)
(***************************************************************************)
AfterCompile(c) == IF "link" \in Jobs[c] THEN "link" ELSE "exit"

Skip(c, job, next) == /\ tool[c] = job
                      /\ job \in Jobs[c]
                      /\ job \notin needed[c]
                      /\ job = "link" => Inputs(c) # {}
                      /\ skipped' = [skipped EXCEPT ![c] = @ \cup {job}]
                      /\ ToolTo(c, next)
                      /\ UNCHANGED <<fileVars, needed, failed, generated, listVars, kills>>

SkipCompile(c) == Skip(c, "compile", AfterCompile(c))
SkipLink(c) == Skip(c, "link", "exit")
SkipArchive(c) == Skip(c, "archive", "exit")

\* CAN fails; that counts unless the file is filtered out.  Its output is
\* among the generated files all the same.
CompileFails(c) == /\ tool[c] = "compile"
                   /\ "compile" \in needed[c]
                   /\ generated' = generated \cup {c}
                   /\ failed' \in {failed, failed \cup {c}}
                   /\ ToolTo(c, AfterCompile(c))
                   /\ UNCHANGED <<fileVars, needed, skipped, listVars, kills>>

\* CAN succeeds; cppcheck, which may run after it, need not.
CompileSucceeds(c) == /\ tool[c] = "compile"
                      /\ "compile" \in needed[c]
                      /\ generated' = generated \cup {c}
                      /\ failed' \in {failed, failed \cup {c}}
                      /\ ToolTo(c, "listAst")
                      /\ UNCHANGED <<fileVars, needed, skipped, listVars, kills>>

ListAst(c) == /\ tool[c] = "listAst"
              /\ AddLine("ast", c)
              /\ ToolTo(c, AfterCompile(c))
              /\ UNCHANGED <<fileVars, workVars, pid, inputs, fed, kills>>

(***************************************************************************)
(* executeLinker appends to its list of inputs, executeArchive empties it   *)
(* first.  The number of the process may be that of an earlier one.         *)
(***************************************************************************)
NothingToLink(c) == /\ tool[c] = "link"
                    /\ Inputs(c) = {}
                    /\ ToolTo(c, "exit")
                    /\ UNCHANGED <<fileVars, workVars, listVars, kills>>

WriteInputs(c, kept, next) ==
    \E p \in FreePids :
        /\ pid' = [pid EXCEPT ![c] = p]
        /\ inputs' = [inputs EXCEPT ![p] = kept[p] \cup Inputs(c)]
        /\ ToolTo(c, next)
        /\ UNCHANGED <<fileVars, workVars, lists, fed, kills>>

LinkInputs(c) == /\ tool[c] = "link"
                 /\ "link" \in needed[c]
                 /\ Inputs(c) # {}
                 /\ WriteInputs(c, inputs, "runLinker")

ArchiveInputs(c) == /\ tool[c] = "archive"
                    /\ "archive" \in needed[c]
                    /\ WriteInputs(c, [p \in Pid |-> {}], "runArchiver")

\* CANLink or CANLib reads the list and fails: the list is left behind.
RunFails(c) == /\ tool[c] \in {"runLinker", "runArchiver"}
               /\ fed' = [fed EXCEPT ![c] = inputs[pid[c]]]
               /\ failed' = failed \cup {c}
               /\ ToolTo(c, "exit")
               /\ UNCHANGED <<fileVars, needed, generated, skipped, lists, pid, inputs, kills>>

RunSucceeds(c, from, next) ==
    /\ tool[c] = from
    /\ fed' = [fed EXCEPT ![c] = inputs[pid[c]]]
    /\ ToolTo(c, next)
    /\ UNCHANGED <<fileVars, workVars, lists, pid, inputs, kills>>

LinkSucceeds(c) == RunSucceeds(c, "runLinker", "listComponent")
ArchiveSucceeds(c) == RunSucceeds(c, "runArchiver", "listArchive")

ListOutput(c, from, list) == /\ tool[c] = from
                             /\ AddLine(list, c)
                             /\ ToolTo(c, "remove")
                             /\ UNCHANGED <<fileVars, workVars, pid, inputs, fed, kills>>

ListComponent(c) == ListOutput(c, "listComponent", "component")
ListArchive(c) == ListOutput(c, "listArchive", "aast")

RemoveInputs(c) == /\ tool[c] = "remove"
                   /\ inputs' = [inputs EXCEPT ![pid[c]] = {}]
                   /\ ToolTo(c, "exit")
                   /\ UNCHANGED <<fileVars, workVars, lists, pid, fed, kills>>

ToolExits(c) == /\ tool[c] = "exit"
                /\ ToolTo(c, "ended")
                /\ UNCHANGED <<fileVars, workVars, listVars, kills>>

\* The process is killed, wherever it is.  Its lock is released.
Kill(c) == /\ kills < MaxKills
           /\ Running(c)
           /\ kills' = kills + 1
           /\ lock' = IF lock = c THEN NoTool ELSE lock
           /\ lost' = (lost \/ tool[c] = "rewrite")
           /\ ToolTo(c, "killed")
           /\ UNCHANGED <<settings, versions, copy, found, workVars, listVars>>

\* main() of the wrapper tools returns 1 when process() returns false.
ToolCode(c) == IF tool[c] = "killed" \/ c \in failed THEN 1 ELSE 0

ToolStep(c) == \/ ReadCompilerSection(c) \/ ReadLinkerSection(c) \/ ReadArchiveSection(c)
               \/ TakeLock(c) \/ VersionInConfig(c) \/ VersionMissing(c)
               \/ AskFails(c) \/ AskSucceeds(c) \/ Rewrite(c)
               \/ SkipCompile(c) \/ SkipLink(c) \/ SkipArchive(c)
               \/ CompileFails(c) \/ CompileSucceeds(c) \/ ListAst(c)
               \/ NothingToLink(c) \/ LinkInputs(c) \/ ArchiveInputs(c)
               \/ RunFails(c) \/ LinkSucceeds(c) \/ ArchiveSucceeds(c)
               \/ ListComponent(c) \/ ListArchive(c) \/ RemoveInputs(c)

-----------------------------------------------------------------------------
(***************************************************************************)
(* Properties.                                                              *)
(***************************************************************************)

\* Whatever the tools of a parallel build do at the same time, rewriting the
\* configuration loses neither the user's settings nor the version of another
\* compiler (writePrivateProfileString copies the whole file, twice).  Only a
\* tool that is killed between emptying and filling the file can lose them.
ConfigKept ==
    ~ lost => /\ (\A c \in Tool : tool[c] # "rewrite") => settings /\ versions = found
              /\ \A c \in Tool : tool[c] = "rewrite" => /\ copy.settings
                                                        /\ found \subseteq copy.versions

\* What the linker or the archiver is given is what its own command line asks
\* for.  The exception is the linker's list being appended to: when a tool that
\* failed or was killed had the same number, its inputs are in the list, too.
InputsOwn ==
    \A c \in Tool : fed[c] # {} =>
        /\ Inputs(c) \subseteq fed[c]
        /\ "archive" \in Jobs[c] => fed[c] = Inputs(c)
        /\ \A x \in fed[c] \ Inputs(c) :
               \E d \in Tool \ {c} : /\ pid[d] = pid[c]
                                     /\ d \in failed \/ tool[d] = "killed"
                                     /\ x \in Inputs(d)

\* messages.h: "Don't have to compile by configuration!"; AbstractCompiler.h on
\* comp_needtorun: "compiling needed or not from config".  The configuration of
\* these builds asks for every job.
NothingSkipped == \A c \in Tool : skipped[c] = {}

=============================================================================
