----------------------------- MODULE Controller -----------------------------
(***************************************************************************)
(* lib/controller: Controller::executeTasks, its Worker, the dependency     *)
(* graph it consumes and the thread pool it runs the tasks on, as used by   *)
(* runAnalyzeMode of the four OpenStaticAnalyzer<Language> programs.        *)
(*                                                                         *)
(* Actors: the main thread, and one thread per started task.  The main      *)
(* thread owns the task map, the graph and the vector of futures; it shares *)
(* with the workers the promises behind the futures, controler.txt (every   *)
(* line of a worker is written under _exclusive_task_lock) and the pool.    *)
(*                                                                         *)
(* Names of tasks are values without an order, so the loops over the        *)
(* name-ordered std::map and over the lists of edges visit their elements   *)
(* in every order: the model covers every way of naming the tasks.          *)
(* The log file of each task and the texts of all lines are left out.       *)
(***************************************************************************)
EXTENDS Naturals, Sequences, FiniteSets

CONSTANTS Task,                \* names of the tasks a program may register
          DependencyChoices,   \* what Task::dependsOn may hold, per task
          Escaping,            \* tasks whose execute() may let an exception out
          PoolSize             \* maxThreads

ASSUME TaskAssumption == IsFiniteSet(Task)
ASSUME DependencyAssumption == DependencyChoices \subseteq [Task -> SUBSET Task]
ASSUME PoolAssumption == PoolSize \in Nat

VARIABLES
    runnum, errors, threads, pc, owner, joined, thrown,   \* the ThreadPool
    registered,        \* keys of Controller::tasks
    dependsOn,         \* Task::dependsOn of every task
    executionMode,     \* the argument of executeTasks
    dependencyGraph,   \* nodeMap of the graph
    main,              \* where the main thread is
    toBuild,           \* buildGraph: tasks it has not visited yet
    edgesToAdd,        \* buildGraph: dependencies of the visited task still to add
    toStart,           \* tasks the running "start what is ready" loop has to visit
    futures,           \* tasks whose future is in the vector
    failed,            \* executeTasks' local variable
    ret,               \* what executeTasks returned
    worker,            \* where Worker::operator() of each task is
    result,            \* ExecutionResult of each executed task
    starts,            \* history: how often executeTask started each task
    log                \* lines of controler.txt

poolVars == <<runnum, errors, threads, pc, owner, joined, thrown>>
setupVars == <<registered, dependsOn, executionMode>>
loopVars == <<toBuild, edgesToAdd, toStart, futures, failed>>
workerVars == <<worker, result, log>>

vars == <<poolVars, setupVars, dependencyGraph, main, loopVars, ret, workerVars, starts>>

Pool == INSTANCE ThreadPool WITH Thread <- Task
Graph == INSTANCE DependencyGraph WITH Key <- Task, nodeMap <- dependencyGraph

ExecutionModes == {"EM_FAIL_ON_ANY_ERROR", "EM_FAIL_ON_CRITICAL_ERROR_ONLY"}

\* setCriticalError sets the error flag as well; warnings decide nothing.
ExecutionResults == {r \in [error : BOOLEAN, criticalError : BOOLEAN] :
                        r.criticalError => r.error}

NoResult == [error |-> FALSE, criticalError |-> FALSE]

MainStates == {"setup", "build", "start", "loop", "returned", "freed"}

\* before logStart the worker may still be waiting for its slot
WorkerStates == {"none", "logStart", "execute", "logEnd", "setValue", "returned"}

IsFailure(mode, r) == \/ r.criticalError
                      \/ r.error /\ mode = "EM_FAIL_ON_ANY_ERROR"

(* Slips that the runs must notice are named here and below, each before the
   definition it would replace; none of them is part of Spec. *)

\* The promise is fulfilled before the line about the end is written.
FutureReadyEarly(t) == worker[t] \in {"logEnd", "setValue", "returned"}

\* p.set_value has been called.
FutureReady(t) == worker[t] = "returned"

\* One unfinished dependency is overlooked.
IsReadyLoosely(t) == /\ t \in DOMAIN dependencyGraph
                     /\ Cardinality(dependencyGraph[t].inEdges) <= 1

IsReady(t) == /\ t \in DOMAIN dependencyGraph
              /\ dependencyGraph[t].inEdges = {}

WorkerGoto(t, s) == worker' = [worker EXCEPT ![t] = s]

WriteToLog(line) == log' = Append(log, line)

-----------------------------------------------------------------------------
Init == /\ Pool!Init
        /\ Graph!Init
        /\ registered = {}
        /\ dependsOn \in DependencyChoices
        /\ executionMode \in ExecutionModes
        /\ main = "setup"
        /\ toBuild = {}
        /\ edgesToAdd = {}
        /\ toStart = {}
        /\ futures = {}
        /\ failed = FALSE
        /\ ret = "none"
        /\ worker = [t \in Task |-> "none"]
        /\ result = [t \in Task |-> NoResult]
        /\ starts = [t \in Task |-> 0]
        /\ log = <<>>

(* ---- the main thread: registration and buildGraph ---------------------- *)

AddTask(t) == /\ main = "setup"
              /\ t \notin registered
              /\ registered' = registered \cup {t}
              /\ UNCHANGED <<poolVars, dependsOn, executionMode, dependencyGraph, main,
                             loopVars, ret, workerVars, starts>>

ExecuteTasks == /\ main = "setup"
                /\ main' = "build"
                /\ toBuild' = registered
                /\ UNCHANGED <<poolVars, setupVars, dependencyGraph, edgesToAdd, toStart,
                               futures, failed, ret, workerVars, starts>>

\* Slip: dependencies on tasks that are not registered are kept.
BuildNodeKeepsAll(t) ==
    /\ main = "build"
    /\ edgesToAdd = {}
    /\ t \in toBuild
    /\ toBuild' = toBuild \ {t}
    /\ edgesToAdd' = {<<d, t>> : d \in dependsOn[t]}
    /\ Graph!AddNode(t)
    /\ UNCHANGED <<poolVars, setupVars, main, toStart, futures, failed, ret, workerVars, starts>>

\* Dependencies on tasks that are not registered are skipped.
BuildNode(t) == /\ main = "build"
                /\ edgesToAdd = {}
                /\ t \in toBuild
                /\ toBuild' = toBuild \ {t}
                /\ edgesToAdd' = {<<d, t>> : d \in dependsOn[t] \cap registered}
                /\ Graph!AddNode(t)
                /\ UNCHANGED <<poolVars, setupVars, main, toStart, futures, failed, ret,
                               workerVars, starts>>

BuildEdge(d, t) ==
    /\ main = "build"
    /\ <<d, t>> \in edgesToAdd
    /\ edgesToAdd' = edgesToAdd \ {<<d, t>>}
    /\ Graph!AddEdge(d, t)
    /\ IF Graph!AddEdgeResult(dependencyGraph, d, t) = "EDGE_INTRODUCES_CYCLE"
       THEN main' = "returned" /\ ret' = "rejected"
       ELSE UNCHANGED <<main, ret>>
    /\ UNCHANGED <<poolVars, setupVars, toBuild, toStart, futures, failed, workerVars, starts>>

BuildDone == /\ main = "build"
             /\ edgesToAdd = {}
             /\ toBuild = {}
             /\ main' = "start"
             /\ toStart' = registered
             /\ UNCHANGED <<poolVars, setupVars, dependencyGraph, toBuild, edgesToAdd,
                            futures, failed, ret, workerVars, starts>>

(* ---- the main thread: starting tasks and processing results ------------ *)

\* executeTask: the future goes into the vector, a thread into the pool.
\* A second start of a task would need a thread of its own; it is recorded in
\* starts, where StatusOf makes of it what DependencySchedule does not allow, and
\* not followed any further.
ExecuteTask(t) == /\ futures' = futures \cup {t}
                  /\ starts' = [starts EXCEPT ![t] = @ + 1]
                  /\ IF pc[t] = "absent"
                     THEN Pool!Add(t) /\ WorkerGoto(t, "logStart")
                     ELSE UNCHANGED <<poolVars, worker>>
                  /\ UNCHANGED <<result, log>>

\* One iteration of "if (isReady(...)) executeTask(...)".
Visit(t) == /\ main = "start"
            /\ t \in toStart
            /\ toStart' = toStart \ {t}
            /\ IF IsReady(t)
               THEN ExecuteTask(t)
               ELSE UNCHANGED <<poolVars, futures, workerVars, starts>>
            /\ UNCHANGED <<setupVars, dependencyGraph, main, toBuild, edgesToAdd, failed, ret>>

VisitedAll == /\ main = "start"
              /\ toStart = {}
              /\ main' = "loop"
              /\ UNCHANGED <<poolVars, setupVars, dependencyGraph, loopVars, ret,
                             workerVars, starts>>

\* wait_for_any and get returned the result of t: the vector keeps "rest", the
\* flag becomes "nowFailed", and if "goOn" the node of t is removed and the
\* tasks in "next" are visited.
TakeResult(t, rest, nowFailed, goOn, next) ==
    /\ main = "loop"
    /\ t \in futures
    /\ FutureReady(t)
    /\ futures' = rest
    /\ failed' = nowFailed
    /\ IF goOn /\ t \in DOMAIN dependencyGraph
       THEN /\ toStart' = next
            /\ Graph!RemoveNode(t)
            /\ main' = "start"
       ELSE UNCHANGED <<toStart, dependencyGraph, main>>
    /\ UNCHANGED <<poolVars, setupVars, toBuild, edgesToAdd, ret, workerVars, starts>>

FailedBy(t) == failed \/ IsFailure(executionMode, result[t])

Dependents(t) == dependencyGraph[t].outEdges

\* Slip: the dependents of a failed task are started all the same.
ProcessResultGoesOn(t) ==
    TakeResult(t, futures \ {t}, FailedBy(t), TRUE, Dependents(t))

\* Slip: the future stays in the vector.
ProcessResultKeepsFuture(t) ==
    TakeResult(t, futures, FailedBy(t), ~ FailedBy(t), Dependents(t))

\* Slip: all tasks are visited, so those that still run are started once more.
ProcessResultVisitsAll(t) ==
    TakeResult(t, futures \ {t}, FailedBy(t), ~ FailedBy(t), registered)

\* One iteration of the while loop, up to the visit of the dependents.
ProcessResult(t) ==
    TakeResult(t, futures \ {t}, FailedBy(t), ~ FailedBy(t), Dependents(t))

\* Slip: the loop is left at the first failure.
LoopEndsOnFailure ==
    /\ main = "loop"
    /\ futures = {} \/ failed
    /\ main' = "returned"
    /\ ret' = IF failed THEN "failure" ELSE "success"
    /\ WriteToLog(<<"verdict", ret'>>)
    /\ UNCHANGED <<poolVars, setupVars, dependencyGraph, loopVars, worker, result, starts>>

LoopEnds == /\ main = "loop"
            /\ futures = {}
            /\ main' = "returned"
            /\ ret' = IF failed THEN "failure" ELSE "success"
            /\ WriteToLog(<<"verdict", ret'>>)
            /\ UNCHANGED <<poolVars, setupVars, dependencyGraph, loopVars, worker, result, starts>>

(* ---- the main thread: end of runAnalyzeMode ---------------------------- *)

\* ~Controller deletes the tasks; it runs before ~ThreadPool.
DeleteTasks == /\ main = "returned"
               /\ main' = "freed"
               /\ UNCHANGED <<poolVars, setupVars, dependencyGraph, loopVars, ret,
                              workerVars, starts>>

mainVars == <<setupVars, dependencyGraph, main, loopVars, ret>>

DestroyPool == /\ main = "freed"
               /\ Pool!CallWait("destroying")
               /\ UNCHANGED <<mainVars, workerVars, starts>>

JoinThreads == /\ Pool!JoinNext \/ Pool!WaitReturns
               /\ UNCHANGED <<mainVars, workerVars, starts>>

(* ---- the workers ------------------------------------------------------- *)

LogStart(t) == /\ pc[t] = "run"
               /\ worker[t] = "logStart"
               /\ WriteToLog(<<"start", t>>)
               /\ WorkerGoto(t, "execute")
               /\ UNCHANGED <<poolVars, mainVars, result, starts>>

Execute(t) == /\ pc[t] = "run"
              /\ worker[t] = "execute"
              /\ \E r \in ExecutionResults : result' = [result EXCEPT ![t] = r]
              /\ WorkerGoto(t, "logEnd")
              /\ UNCHANGED <<poolVars, mainVars, starts, log>>

LogEnd(t) == /\ pc[t] = "run"
             /\ worker[t] = "logEnd"
             /\ WriteToLog(<<"end", t>>)
             /\ WorkerGoto(t, "setValue")
             /\ UNCHANGED <<poolVars, mainVars, result, starts>>

SetValue(t) == /\ pc[t] = "run"
               /\ worker[t] = "setValue"
               /\ WorkerGoto(t, "returned")
               /\ UNCHANGED <<poolVars, mainVars, result, starts, log>>

\* The pool catches the exception; the promise is never set.
ExecuteThrows(t) == /\ t \in Escaping
                    /\ worker[t] = "execute"
                    /\ Pool!TaskThrows(t)
                    /\ UNCHANGED <<mainVars, workerVars, starts>>

WorkerReturns(t) == /\ worker[t] = "returned"
                    /\ Pool!TaskReturns(t)
                    /\ UNCHANGED <<mainVars, workerVars, starts>>

\* What the pool's code does around the task.
PoolStep(t) == /\ \/ Pool!TakeSlot(t) \/ Pool!SeeFull(t) \/ Pool!Sleep(t)
                  \/ Pool!CountError(t) \/ Pool!ReleaseSlot(t) \/ Pool!NotifyAll(t)
               /\ UNCHANGED <<mainVars, workerVars, starts>>

SpuriousWakeup(t) == /\ Pool!SpuriousWakeup(t)
                     /\ UNCHANGED <<mainVars, workerVars, starts>>

\* main() returns.
Stopped == owner = "destroyed" /\ UNCHANGED vars

-----------------------------------------------------------------------------
MainStep == \/ \E t \in Task : BuildNode(t) \/ Visit(t) \/ ProcessResult(t)
            \/ \E d, t \in Task : BuildEdge(d, t)
            \/ BuildDone
            \/ VisitedAll
            \/ LoopEnds
            \/ DeleteTasks
            \/ DestroyPool
            \/ JoinThreads

\* What a thread does before and after the task returns from execute().
AroundExecute(t) == \/ LogStart(t) \/ LogEnd(t) \/ SetValue(t)
                    \/ ExecuteThrows(t) \/ WorkerReturns(t) \/ PoolStep(t)

ThreadStep(t) == Execute(t) \/ AroundExecute(t)

Next == \/ \E t \in Task : AddTask(t)
        \/ ExecuteTasks
        \/ MainStep
        \/ \E t \in Task : ThreadStep(t) \/ SpuriousWakeup(t)
        \/ Stopped

Spec == Init /\ [][Next]_vars

-----------------------------------------------------------------------------
DependenciesOf(t) == (dependsOn[t] \cap registered) \ {t}

Started == {t \in Task : starts[t] > 0}

\* The task object is or will be used by its Worker.
InUse(t) == worker[t] \notin {"none", "returned"}

\* Type invariant of the controller's and the workers' variables.
TypeOK == /\ Pool!TypeOK
          /\ Graph!TypeOK
          /\ registered \subseteq Task
          /\ dependsOn \in [Task -> SUBSET Task]
          /\ executionMode \in ExecutionModes
          /\ main \in MainStates
          /\ toBuild \subseteq registered
          /\ edgesToAdd \subseteq registered \X registered
          /\ toStart \subseteq registered
          /\ futures \subseteq registered
          /\ failed \in BOOLEAN
          /\ ret \in {"none", "rejected", "failure", "success"}
          /\ worker \in [Task -> WorkerStates]
          /\ result \in [Task -> ExecutionResults]
          /\ starts \in [Task -> Nat]

\* Controller.cpp: "futures will be empty only if there are no tasks running
\* and no results waiting to be processed" -- so the loop may end there.
EmptyFuturesMeansIdle ==
    (main \in {"loop", "returned", "freed"} /\ futures = {})
        => \A t \in Started : ~ InUse(t)

\* The Controller deletes the tasks while threads of the pool may still be
\* between the end of their task and their own end: none of them touches a
\* task any more.
NoUseAfterDelete == main = "freed" => \A t \in Task : ~ InUse(t)

\* The lines of controler.txt above the i-th.
Above(i) == {log[j] : j \in 1 .. i - 1}

\* The lines of controler.txt tell the order of events: a task's dependencies
\* have ended above the line where it starts, that line is above the one where it
\* ends, nothing is told twice, and nothing follows the verdict.
LogInOrder ==
    \A i \in 1 .. Len(log) :
        /\ log[i] \notin Above(i)
        /\ log[i][1] = "verdict" => i = Len(log)
        /\ log[i][1] = "start" => \A d \in DependenciesOf(log[i][2]) : <<"end", d>> \in Above(i)
        /\ log[i][1] = "end" => <<"start", log[i][2]>> \in Above(i)

\* Once a failure has been processed nothing new is started.
NothingStartsAfterFailure == [][failed => starts' = starts]_vars

\* What became of t in the eyes of DependencySchedule, which knows no second start.
StatusOf(t) == IF starts[t] = 0 THEN "waiting"
               ELSE IF starts[t] > 1 THEN "startedTwice"
               ELSE IF worker[t] \in {"logStart", "execute"} THEN "running"
               ELSE IF IsFailure(executionMode, result[t]) THEN "bad"
               ELSE "good"

Schedule == INSTANCE DependencySchedule
                WITH status <- [t \in Task |-> StatusOf(t)],
                     stopped <- failed,
                     verdict <- ret

\* The controller implements DependencySchedule: above all, a task starts only after
\* every registered task it depends on has delivered a result that is no failure in
\* the chosen mode (the tasks communicate through files and read what their
\* dependencies wrote), and the execution ends as the results say.
ImplementsDependencySchedule == Schedule!Spec

\* executeTasks returns and the program ends: no task, result or thread is
\* waited for in vain, unless the pool loses a wakeup (which takes a thread that
\* finds no free slot) or a task throws (its promise is never set).
ExecutionTerminates ==
    [](\A t \in Task : pc[t] \notin {"full", "threw"})
        => ((main = "build") ~> (owner = "destroyed"))

=============================================================================
