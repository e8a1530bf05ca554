-------------------------- MODULE ControllerProofs --------------------------
(***************************************************************************)
(* Proofs about the task controller, for every finite set of tasks, every   *)
(* choice of dependencies and every size of the pool.                       *)
(*                                                                         *)
(* The controller is composed of a thread pool and a graph.  What is proved *)
(* about these two on their own holds for the pool and the graph inside of  *)
(* the controller, because each step of the controller is, seen from the    *)
(* pool and from the graph, a step of theirs or a stuttering step.          *)
(***************************************************************************)
EXTENDS AnalysisProgram, TLAPS

PP == INSTANCE ThreadPoolProofs WITH Thread <- Task
GP == INSTANCE DependencyGraphProofs WITH Key <- Task, nodeMap <- dependencyGraph

-----------------------------------------------------------------------------
(* The pool and the graph inside of the controller. *)

\* Every step of the controller is a step of the thread pool or leaves the pool
\* alone.
LEMMA StepOfPool ==
    ASSUME [Next]_vars
    PROVE  [PP!Next]_(PP!vars)
<1>1. ASSUME UNCHANGED poolVars PROVE UNCHANGED PP!vars
    BY <1>1 DEF poolVars, PP!vars
<1>2. CASE UNCHANGED vars
    BY <1>1, <1>2 DEF vars
<1>3. CASE \/ \E t \in Task : AddTask(t) \/ BuildNode(t) \/ ProcessResult(t)
           \/ \E d, t \in Task : BuildEdge(d, t)
           \/ ExecuteTasks \/ BuildDone \/ VisitedAll \/ LoopEnds \/ DeleteTasks
    BY <1>1, <1>3 DEF AddTask, BuildNode, ProcessResult, TakeResult, BuildEdge, ExecuteTasks,
                      BuildDone, VisitedAll, LoopEnds, DeleteTasks
<1>4. ASSUME NEW t \in Task, Visit(t) PROVE PP!Next \/ UNCHANGED PP!vars
    BY <1>1, <1>4 DEF Visit, ExecuteTask, Pool!Add, Pool!Create, Pool!Goto,
                      PP!Next, PP!Add, PP!Create, PP!Goto
<1>5. CASE DestroyPool
    BY <1>5 DEF DestroyPool, Pool!CallWait, PP!Next, PP!CallWait
<1>6. CASE JoinThreads
    BY <1>6 DEF JoinThreads, Pool!JoinNext, Pool!WaitReturns, PP!Next, PP!JoinNext, PP!WaitReturns
<1>7. ASSUME NEW t \in Task, LogStart(t) \/ Execute(t) \/ LogEnd(t) \/ SetValue(t)
      PROVE  UNCHANGED PP!vars
    BY <1>1, <1>7 DEF LogStart, Execute, LogEnd, SetValue
<1>8. ASSUME NEW t \in Task,
             ExecuteThrows(t) \/ WorkerReturns(t) \/ PoolStep(t) \/ SpuriousWakeup(t)
      PROVE  PP!Next
  <2>1. CASE ExecuteThrows(t)
      BY <2>1 DEF ExecuteThrows, Pool!TaskThrows, Pool!Alive, Pool!Goto,
                  PP!Next, PP!ThreadStep, PP!TaskThrows, PP!Alive, PP!Goto
  <2>2. CASE WorkerReturns(t)
      BY <2>2 DEF WorkerReturns, Pool!TaskReturns, Pool!Alive, Pool!Goto,
                  PP!Next, PP!ThreadStep, PP!TaskReturns, PP!Alive, PP!Goto
  <2>3. CASE SpuriousWakeup(t)
      BY <2>3 DEF SpuriousWakeup, Pool!SpuriousWakeup, Pool!Alive, Pool!Goto,
                  PP!Next, PP!SpuriousWakeup, PP!Alive, PP!Goto
  <2>4. CASE PoolStep(t)
    <3>1. \/ PP!TakeSlot(t) \/ PP!SeeFull(t) \/ PP!Sleep(t)
          \/ PP!CountError(t) \/ PP!ReleaseSlot(t) \/ PP!NotifyAll(t)
        BY <2>4 DEF PoolStep, Pool!TakeSlot, Pool!SeeFull, Pool!Sleep, Pool!CountError,
                    Pool!ReleaseSlot, Pool!NotifyAll, Pool!Alive, Pool!HasRoom, Pool!Goto,
                    PP!TakeSlot, PP!SeeFull, PP!Sleep, PP!CountError,
                    PP!ReleaseSlot, PP!NotifyAll, PP!Alive, PP!HasRoom, PP!Goto
    <3> QED BY <3>1 DEF PP!Next, PP!ThreadStep
  <2> QED BY <1>8, <2>1, <2>2, <2>3, <2>4
<1> QED BY <1>1, <1>2, <1>3, <1>4, <1>5, <1>6, <1>7, <1>8
        DEF Next, MainStep, ThreadStep, AroundExecute, Stopped, vars

\* addEdge is the same in the two instances of the graph.
LEMMA SameAddEdge ==
    ASSUME NEW m, NEW from, NEW to
    PROVE  /\ Graph!AddEdgeResult(m, from, to) = GP!AddEdgeResult(m, from, to)
           /\ Graph!AfterAddEdge(m, from, to) = GP!AfterAddEdge(m, from, to)
<1>1. Graph!CheckForCycle(m, from, to) = GP!CheckForCycle(m, from, to)
    BY DEF Graph!CheckForCycle, GP!CheckForCycle, Graph!Finds, GP!Finds
<1>2. Graph!WithEdge(m, from, to) = GP!WithEdge(m, from, to)
    BY DEF Graph!WithEdge, GP!WithEdge, Graph!Touch, GP!Touch, Graph!NoEdges, GP!NoEdges
<1> QED BY <1>1, <1>2 DEF Graph!AddEdgeResult, GP!AddEdgeResult,
                          Graph!AfterAddEdge, GP!AfterAddEdge

\* ... and a step of the graph, or leaves the graph alone.
LEMMA StepOfGraph ==
    ASSUME [Next]_vars
    PROVE  [GP!Next]_dependencyGraph
<1>1. CASE UNCHANGED vars
    BY <1>1 DEF vars
<1>2. CASE \/ \E t \in Task : AddTask(t) \/ Visit(t)
           \/ ExecuteTasks \/ BuildDone \/ VisitedAll \/ LoopEnds \/ DeleteTasks
           \/ DestroyPool \/ JoinThreads
    BY <1>2 DEF AddTask, Visit, ExecuteTasks, BuildDone, VisitedAll, LoopEnds, DeleteTasks,
                DestroyPool, JoinThreads, mainVars
<1>3. ASSUME NEW t \in Task, ThreadStep(t) \/ SpuriousWakeup(t)
      PROVE  UNCHANGED dependencyGraph
    BY <1>3 DEF ThreadStep, AroundExecute, LogStart, Execute, LogEnd, SetValue, ExecuteThrows, WorkerReturns,
                PoolStep, SpuriousWakeup, mainVars
<1>4. ASSUME NEW t \in Task, BuildNode(t) PROVE GP!Next
    BY <1>4 DEF BuildNode, Graph!AddNode, Graph!Touch, Graph!NoEdges,
                GP!Next, GP!AddNode, GP!Touch, GP!NoEdges
<1>5. ASSUME NEW t \in Task, ProcessResult(t) PROVE GP!Next \/ UNCHANGED dependencyGraph
    BY <1>5 DEF ProcessResult, TakeResult, Graph!RemoveNode, Graph!AfterRemoveNode,
                GP!Next, GP!RemoveNode, GP!AfterRemoveNode
<1>6. ASSUME NEW d \in Task, NEW t \in Task, BuildEdge(d, t) PROVE GP!Next
    BY <1>6, SameAddEdge DEF BuildEdge, Graph!AddEdge, GP!Next, GP!AddEdge
<1> QED BY <1>1, <1>2, <1>3, <1>4, <1>5, <1>6 DEF Next, MainStep, Stopped, vars

\* So what is proved about the pool and about the graph holds here.
LEMMA PoolHolds == Spec => []PP!PoolInv
<1>1. PP!IsFiniteSet(Task)
    BY TaskAssumption DEF PP!IsFiniteSet, IsFiniteSet
<1>2. PP!Spec => []PP!PoolInv
    BY <1>1, PP!PoolInvariant, PoolAssumption
<1>3. Init => PP!Init
    BY DEF Init, Pool!Init, PP!Init
<1> QED BY <1>2, <1>3, StepOfPool, PTL DEF Spec, PP!Spec

\* The graph of the controller has no cycle and both halves of every edge.
LEMMA GraphHolds == Spec => [](GP!GoodMap(dependencyGraph) /\ GP!Keys \subseteq Task)
<1>1. Init => GP!Init
    BY DEF Init, Graph!Init, GP!Init, Graph!NoEdges, GP!NoEdges
<1> QED BY <1>1, GP!GraphInvariant, StepOfGraph, PTL DEF Spec, GP!Spec

-----------------------------------------------------------------------------
(* The inductive invariant of the controller. *)

InGraph == DOMAIN dependencyGraph

InEdges(t) == dependencyGraph[t].inEdges

IsOver == main \in {"returned", "freed"}

\* The lines that are written to controler.txt.
Lines == ({"start", "end"} \X Task) \cup ({"verdict"} \X {"failure", "success"})

\* The types of the variables that the controller adds to those of the pool
\* and of the graph.
OwnTypes == /\ registered \subseteq Task
            /\ dependsOn \in [Task -> SUBSET Task]
            /\ executionMode \in ExecutionModes
            /\ main \in MainStates
            /\ toBuild \subseteq registered
            /\ edgesToAdd \subseteq registered \X registered
            /\ toStart \subseteq registered
            /\ futures \subseteq registered
            /\ failed \in BOOLEAN
            /\ ret \in {"none", "rejected", "failure", "success"}
            /\ worker \in [Task -> WorkerStates]
            /\ result \in [Task -> ExecutionResults]
            /\ starts \in [Task -> {0, 1}]
            /\ log \in Seq(Lines)

\* Where executeTasks is tells what it has done so far.
Progress ==
    /\ main = "setup" => InGraph = {} /\ edgesToAdd = {}
    /\ main \in {"setup", "build"} => log = <<>> /\ \A t \in Task : starts[t] = 0
    /\ ret = "none" <=> ~ IsOver
    /\ failed => main = "loop" \/ IsOver
    /\ IsOver => futures = {}

\* A task has a thread and a worker as soon as it has been started; only a
\* registered task is; its future is in the vector until its worker is done.
WorkersFollow ==
    \A t \in Task :
        /\ starts[t] = 0 <=> worker[t] = "none"
        /\ starts[t] = 0 <=> pc[t] = "absent"
        /\ starts[t] = 1 => t \in registered /\ (t \in futures \/ worker[t] = "returned")
        /\ t \in futures => starts[t] = 1

\* buildGraph: the graph holds the dependencies of the visited tasks, but for
\* those that are still to add.
GraphGrows ==
    main = "build" =>
        /\ registered \ toBuild \subseteq InGraph
        /\ InGraph \subseteq registered
        /\ \A d, t \in registered :
              <<d, t>> \in edgesToAdd => t \notin toBuild /\ d \in dependsOn[t]
        /\ \A t \in InGraph : \A d \in Task :
              d \in InEdges(t) <=> /\ t \notin toBuild
                                   /\ d \in DependenciesOf(t)
                                   /\ <<d, t>> \notin edgesToAdd

\* The result of t has been processed: the node is removed.
Accepted(t) == /\ t \notin futures
               /\ worker[t] = "returned"
               /\ ~ IsFailure(executionMode, result[t])

\* The loop of executeTasks: the graph is what remains of the dependencies once
\* the accepted tasks are taken out of it.  What has been started was ready;
\* what is ready has been started or is about to be.
GraphShrinks ==
    main \in {"start", "loop"} =>
        /\ Schedule!Satisfiable
        /\ InGraph \subseteq registered
        /\ \A t \in registered \ InGraph : Accepted(t)
        /\ \A t \in InGraph :
              /\ InEdges(t) = DependenciesOf(t) \cap InGraph
              /\ starts[t] = 1 => InEdges(t) = {} /\ (t \in futures \/ failed)
              /\ main = "start" /\ t \in toStart => starts[t] = 0
              /\ InEdges(t) = {} /\ ~ failed => \/ starts[t] = 1
                                                \/ main = "start" /\ t \in toStart

\* The lines of controler.txt.
Written == {log[j] : j \in 1 .. Len(log)}

\* What the lines of controler.txt stand for, and the order they keep.
LogFollows ==
    /\ \A t \in Task :
          /\ <<"start", t>> \in Written <=> worker[t] \notin {"none", "logStart"}
          /\ <<"end", t>> \in Written <=> worker[t] \in {"setValue", "returned"}
    /\ \A t \in Task : starts[t] = 1 => \A d \in DependenciesOf(t) : worker[d] = "returned"
    /\ \A i \in 1 .. Len(log) : log[i][1] = "verdict" => IsOver
    /\ LogInOrder

ConInv == OwnTypes /\ Progress /\ WorkersFollow /\ GraphGrows /\ GraphShrinks /\ LogFollows

\* What is known of the pool and of the graph in the controller.
PartsInv == PP!TypeOK /\ GP!GoodMap(dependencyGraph) /\ GP!Keys \subseteq Task

\* The invariant holds before main() registers a task.
LEMMA InitConInv == Init => ConInv
<1> SUFFICES ASSUME Init PROVE ConInv
    OBVIOUS
<1>1. dependsOn \in [Task -> SUBSET Task]
    BY DependencyAssumption DEF Init
<1>2. OwnTypes
  <2>1. NoResult \in ExecutionResults
      BY DEF NoResult, ExecutionResults
  <2>2. log \in Seq(Lines)
      BY DEF Init
  <2> QED BY <1>1, <2>1, <2>2 DEF Init, OwnTypes, MainStates, WorkerStates
<1>3. Progress
    BY DEF Init, Progress, Graph!Init, InGraph, IsOver
<1>4. WorkersFollow
    BY DEF Init, WorkersFollow, Pool!Init
<1>5. GraphGrows /\ GraphShrinks
    BY DEF Init, GraphGrows, GraphShrinks
<1>6. LogFollows
    BY DEF Init, LogFollows, LogInOrder, Written
<1> QED BY <1>2, <1>3, <1>4, <1>5, <1>6 DEF ConInv

-----------------------------------------------------------------------------
(* The controller's steps before anything runs. *)

\* As long as nothing has been started the log is empty and says nothing.
LEMMA LogOfSetup ==
    ASSUME ConInv, main \in {"setup", "build"}, log' = log, starts' = starts, worker' = worker
    PROVE  LogFollows'
BY DEF ConInv, Progress, WorkersFollow, OwnTypes, LogFollows, LogInOrder, Written

\* The order of the lines stays what it is when nothing is written.
LEMMA LogLinesKept ==
    ASSUME LogInOrder, UNCHANGED <<log, registered, dependsOn>>
    PROVE  LogInOrder' /\ Written' = Written
<1>1. Written' = Written /\ \A i \in Nat : Above(i)' = Above(i)
    BY Zenon DEF Written, Above
<1>2. \A t : DependenciesOf(t)' = DependenciesOf(t)
    BY DEF DependenciesOf
<1> QED BY <1>1, <1>2 DEF LogInOrder

\* What has been written stays written, above the new line.
LEMMA LinesStay ==
    ASSUME log \in Seq(Lines), NEW line, log' = Append(log, line)
    PROVE  /\ Len(log) \in Nat /\ Len(log') = Len(log) + 1
           /\ log'[Len(log) + 1] = line
           /\ \A i \in 1 .. Len(log) : log'[i] = log[i] /\ Above(i)' = Above(i)
           /\ \A i \in Nat : i = Len(log) + 1 => Above(i)' = Written
           /\ Written' = Written \cup {line}
<1>1. /\ Len(log') = Len(log) + 1 /\ Len(log) \in Nat
      /\ \A i \in 1 .. Len(log) : log'[i] = log[i]
      /\ log'[Len(log) + 1] = line
    OBVIOUS
<1>2. ASSUME NEW i \in 1 .. Len(log) PROVE Above(i)' = Above(i)
  <2>1. \A j \in 1 .. i - 1 : log'[j] = log[j]
      BY <1>1
  <2> QED BY <2>1, Zenon DEF Above
<1>3. ASSUME NEW i \in Nat, i = Len(log) + 1 PROVE Above(i)' = Written
  <2>1. 1 .. i - 1 = 1 .. Len(log)
      BY <1>1, <1>3
  <2> QED BY <1>1, <2>1 DEF Above, Written
<1>4. Written' = Written \cup {line}
  <2>1. 1 .. Len(log') = (1 .. Len(log)) \cup {Len(log) + 1}
      BY <1>1
  <2> QED BY <1>1, <2>1 DEF Written
<1> QED BY <1>1, <1>2, <1>3, <1>4

\* A line can be added when no verdict has been written, if it is a new one and,
\* for the start of a task, the tasks it depends on have ended above it, for the
\* end of a task, the task has started above it.
LEMMA AppendKeepsOrder ==
    ASSUME LogInOrder, log \in Seq(Lines), NEW line, log' = Append(log, line),
           UNCHANGED <<registered, dependsOn>>,
           \A i \in 1 .. Len(log) : log[i][1] # "verdict",
           line \notin Written,
           line[1] = "start" => \A d \in DependenciesOf(line[2]) : <<"end", d>> \in Written,
           line[1] = "end" => <<"start", line[2]>> \in Written
    PROVE  LogInOrder'
<1> SUFFICES ASSUME NEW i \in 1 .. Len(log')
             PROVE  /\ log'[i] \notin Above(i)'
                    /\ log'[i][1] = "verdict" => i = Len(log')
                    /\ log'[i][1] = "start" =>
                          \A d \in DependenciesOf(log'[i][2]) : <<"end", d>> \in Above(i)'
                    /\ log'[i][1] = "end" => <<"start", log'[i][2]>> \in Above(i)'
    BY DEF LogInOrder, Above, DependenciesOf
<1>1. CASE i \in 1 .. Len(log)
  <2>1. log'[i] = log[i] /\ Above(i)' = Above(i)
      BY <1>1, LinesStay
  <2>2. /\ log[i] \notin Above(i)
        /\ log[i][1] # "verdict"
        /\ log[i][1] = "start" => \A d \in DependenciesOf(log[i][2]) : <<"end", d>> \in Above(i)
        /\ log[i][1] = "end" => <<"start", log[i][2]>> \in Above(i)
      BY <1>1, Zenon DEF LogInOrder
  <2> QED BY <2>1, <2>2
<1>2. CASE i = Len(log) + 1
  <2>1. log'[i] = line /\ Above(i)' = Written /\ Len(log') = i
      BY <1>2, LinesStay
  <2> QED BY <2>1
<1>3. i \in 1 .. Len(log) \/ i = Len(log) + 1
    BY LinesStay
<1> QED BY <1>1, <1>2, <1>3

\* Registration touches neither the graph nor the pool.
LEMMA AddTaskStep ==
    ASSUME ConInv, NEW t \in Task, AddTask(t)
    PROVE  ConInv'
<1> USE DEF AddTask, poolVars, loopVars, workerVars
<1>1. OwnTypes'
    BY DEF ConInv, OwnTypes
<1>2. Progress'
    BY DEF ConInv, Progress, InGraph, IsOver
<1>3. WorkersFollow'
    BY DEF ConInv, WorkersFollow
<1>4. GraphGrows' /\ GraphShrinks'
    BY DEF GraphGrows, GraphShrinks
<1> QED BY <1>1, <1>2, <1>3, <1>4, LogOfSetup DEF ConInv

\* executeTasks begins with an empty graph.
LEMMA ExecuteTasksStep ==
    ASSUME ConInv, ExecuteTasks
    PROVE  ConInv'
<1> USE DEF ExecuteTasks, poolVars, setupVars, workerVars
<1>1. OwnTypes'
    BY DEF ConInv, OwnTypes, MainStates
<1>2. Progress'
    BY DEF ConInv, Progress, IsOver
<1>3. WorkersFollow'
    BY DEF ConInv, WorkersFollow
<1>4. GraphGrows' /\ GraphShrinks'
    BY DEF ConInv, Progress, GraphGrows, GraphShrinks, InGraph
<1> QED BY <1>1, <1>2, <1>3, <1>4, LogOfSetup DEF ConInv

\* A visited task has all its registered dependencies still to add.
LEMMA BuildNodeStep ==
    ASSUME ConInv, PartsInv, NEW t \in Task, BuildNode(t)
    PROVE  ConInv'
<1> USE DEF BuildNode, poolVars, setupVars, workerVars
<1>1. OwnTypes'
    BY DEF ConInv, OwnTypes
<1>2. Progress'
    BY DEF ConInv, Progress, IsOver
<1>3. WorkersFollow'
    BY DEF ConInv, WorkersFollow
<1>4. /\ InGraph' = InGraph \cup {t}
      /\ \A u \in InGraph : InEdges(u)' = InEdges(u)
      /\ t \notin InGraph => InEdges(t)' = {}
    BY DEF Graph!AddNode, Graph!Touch, Graph!NoEdges, InGraph, InEdges
<1>5. GraphGrows'
  <2> USE DEF ConInv, GraphGrows
  <2>1. registered' \ toBuild' \subseteq InGraph' /\ InGraph' \subseteq registered'
      BY <1>4 DEF OwnTypes
  <2>2. \A d, u \in registered' :
            (<<d, u>> \in edgesToAdd)' => u \notin toBuild' /\ d \in (dependsOn[u])'
      OBVIOUS
  <2>3. ASSUME NEW u \in InGraph', NEW d \in Task
        PROVE  d \in InEdges(u)' <=> /\ u \notin toBuild'
                                     /\ d \in DependenciesOf(u)'
                                     /\ <<d, u>> \notin edgesToAdd'
    <3>1. CASE u = t
      <4>1. d \notin InEdges(t)'
          BY <1>4 DEF ConInv, GraphGrows
      <4>2. d \in DependenciesOf(t)' => <<d, t>> \in edgesToAdd'
          BY DEF DependenciesOf
      <4> QED BY <3>1, <4>1, <4>2
    <3>2. CASE u # t
      <4>1. u \in InGraph /\ InEdges(u)' = InEdges(u)
          BY <1>4, <3>2
      <4>2. DependenciesOf(u)' = DependenciesOf(u) /\ <<d, u>> \notin edgesToAdd'
          BY <3>2 DEF DependenciesOf
      <4> QED BY <3>2, <4>1, <4>2
    <3> QED BY <3>1, <3>2
  <2> QED BY <2>1, <2>2, <2>3
<1>6. GraphShrinks'
    BY DEF GraphShrinks
<1> QED BY <1>1, <1>2, <1>3, <1>5, <1>6, LogOfSetup DEF ConInv

\* An edge that buildGraph is about to add is not in the graph yet, so addEdge
\* never finds it there already.
LEMMA EdgeIsNew ==
    ASSUME ConInv, PartsInv, NEW d \in Task, NEW t \in Task, BuildEdge(d, t)
    PROVE  /\ d \in registered /\ t \in registered \ toBuild /\ d \in dependsOn[t]
           /\ t \in InGraph /\ d \notin InEdges(t)
           /\ \/ d = t
              \/ GP!AddEdgeResult(dependencyGraph, d, t) = "EDGE_ADDED"
              \/ /\ GP!AddEdgeResult(dependencyGraph, d, t) = "EDGE_INTRODUCES_CYCLE"
                 /\ d # t /\ d \in InGraph
                 /\ GP!CheckForCycle(dependencyGraph, d, t)
<1>1. main = "build" /\ <<d, t>> \in edgesToAdd
    BY DEF BuildEdge
<1>2. d \in registered /\ t \in registered \ toBuild /\ d \in dependsOn[t]
    BY <1>1 DEF ConInv, OwnTypes, GraphGrows
<1>3. t \in InGraph /\ d \notin InEdges(t)
    BY <1>1, <1>2 DEF ConInv, GraphGrows
<1>4. d \in InGraph => t \notin dependencyGraph[d].outEdges
    BY <1>3 DEF PartsInv, GP!GoodMap, GP!MirroredMap, InGraph, InEdges
<1> QED BY <1>2, <1>3, <1>4, Zenon DEF GP!AddEdgeResult, InGraph

\* What addEdge does to the graph, as buildGraph sees it.
LEMMA GraphAfterBuildEdge ==
    ASSUME ConInv, PartsInv, NEW d \in Task, NEW t \in Task, BuildEdge(d, t), main' = "build"
    PROVE  /\ InGraph' = InGraph \cup (IF d = t THEN {} ELSE {d})
           /\ \A u \in InGraph :
                InEdges(u)' = InEdges(u) \cup (IF u = t /\ d # t THEN {d} ELSE {})
           /\ d \notin InGraph => InEdges(d)' = {}
<1>1. dependencyGraph' = GP!AfterAddEdge(dependencyGraph, d, t)
    BY SameAddEdge DEF BuildEdge, Graph!AddEdge
<1>2. GP!AddEdgeResult(dependencyGraph, d, t) # "EDGE_INTRODUCES_CYCLE"
    BY SameAddEdge DEF BuildEdge
<1>3. CASE d = t
  <2>1. GP!AddEdgeResult(dependencyGraph, d, t) # "EDGE_ADDED"
      BY <1>3 DEF GP!AddEdgeResult
  <2> QED BY <1>1, <1>3, <2>1, EdgeIsNew DEF GP!AfterAddEdge, InGraph, InEdges
<1>4. CASE d # t
  <2>1. dependencyGraph' = GP!WithEdge(dependencyGraph, d, t) /\ t \in InGraph
      BY <1>1, <1>2, <1>4, EdgeIsNew DEF GP!AfterAddEdge
  <2> QED BY <2>1, <1>4 DEF GP!WithEdge, GP!Touch, GP!NoEdges, InGraph, InEdges
<1> QED BY <1>3, <1>4

\* One dependency more is in the graph, or the task depends on itself, or the
\* tasks are rejected.
LEMMA BuildEdgeStep ==
    ASSUME ConInv, PartsInv, NEW d \in Task, NEW t \in Task, BuildEdge(d, t)
    PROVE  ConInv'
<1> USE DEF BuildEdge, poolVars, setupVars, workerVars
<1>1. OwnTypes'
    BY DEF ConInv, OwnTypes, MainStates
<1>2. Progress'
  <2>1. futures = {}
      BY DEF ConInv, Progress, WorkersFollow, OwnTypes
  <2> QED BY <2>1 DEF ConInv, Progress, IsOver
<1>3. WorkersFollow'
    BY DEF ConInv, WorkersFollow
<1>4. GraphGrows'
  <2> SUFFICES ASSUME main' = "build" PROVE GraphGrows'
      BY DEF GraphGrows
  <2>1. /\ d \in registered /\ t \in registered \ toBuild /\ d \in dependsOn[t]
        /\ t \in InGraph
      BY EdgeIsNew
  <2>2. GraphGrows /\ main = "build"
      BY DEF ConInv
  <2>3. registered' \ toBuild' \subseteq InGraph' /\ InGraph' \subseteq registered'
      BY <2>1, <2>2, GraphAfterBuildEdge DEF GraphGrows
  <2>4. \A c, u \in registered' :
            (<<c, u>> \in edgesToAdd)' => u \notin toBuild' /\ c \in (dependsOn[u])'
      BY <2>2 DEF GraphGrows
  <2>5. ASSUME NEW u \in InGraph', NEW c \in Task
        PROVE  c \in InEdges(u)' <=> /\ u \notin toBuild'
                                     /\ c \in DependenciesOf(u)'
                                     /\ <<c, u>> \notin edgesToAdd'
    <3>1. DependenciesOf(u)' = DependenciesOf(u) /\ toBuild' = toBuild
        BY DEF DependenciesOf
    <3>2. <<c, u>> \in edgesToAdd' <=> <<c, u>> \in edgesToAdd /\ ~ (c = d /\ u = t)
        OBVIOUS
    <3>3. CASE u \in InGraph
      <4>1. c \in InEdges(u)' <=> c \in InEdges(u) \/ (u = t /\ c = d /\ d # t)
          BY <3>3, GraphAfterBuildEdge
      <4>2. c \in InEdges(u) <=> /\ u \notin toBuild
                                 /\ c \in DependenciesOf(u)
                                 /\ <<c, u>> \notin edgesToAdd
          BY <2>2, <3>3 DEF GraphGrows
      <4>3. d \in DependenciesOf(t) <=> d # t
          BY <2>1 DEF DependenciesOf
      <4> QED BY <2>1, <3>1, <3>2, <4>1, <4>2, <4>3
    <3>4. CASE u \notin InGraph
      <4>1. u = d /\ d # t /\ InEdges(u)' = {}
          BY <3>4, GraphAfterBuildEdge
      <4>2. u \in toBuild
          BY <2>1, <2>2, <3>4, <4>1 DEF GraphGrows
      <4> QED BY <3>1, <4>1, <4>2
    <3> QED BY <3>3, <3>4
  <2> QED BY <2>3, <2>4, <2>5 DEF GraphGrows
<1>5. GraphShrinks'
    BY DEF GraphShrinks
<1> QED BY <1>1, <1>2, <1>3, <1>4, <1>5, LogOfSetup DEF ConInv

\* A graph without a cycle that holds all dependencies can be met.
LEMMA BuildDoneStep ==
    ASSUME ConInv, PartsInv, BuildDone
    PROVE  ConInv'
<1> USE DEF BuildDone, poolVars, setupVars, workerVars
<1>1. OwnTypes'
    BY DEF ConInv, OwnTypes, MainStates
<1>2. Progress'
    BY DEF ConInv, Progress, IsOver
<1>3. WorkersFollow'
    BY DEF ConInv, WorkersFollow
<1>4. GraphGrows'
    BY DEF GraphGrows
<1>5. InGraph = registered /\ \A t \in registered : InEdges(t) = DependenciesOf(t)
  <2>1. InGraph = registered
      BY DEF ConInv, GraphGrows
  <2>2. ASSUME NEW t \in registered PROVE InEdges(t) = DependenciesOf(t)
    <3>1. InEdges(t) \subseteq Task /\ DependenciesOf(t) \subseteq Task
        BY <2>1 DEF PartsInv, GP!GoodMap, GP!IsGraph, GP!Keys, InGraph, InEdges,
                    ConInv, OwnTypes, DependenciesOf
    <3>2. \A d \in Task : d \in InEdges(t) <=> d \in DependenciesOf(t)
        BY <2>1 DEF ConInv, GraphGrows
    <3> QED BY <3>1, <3>2
  <2> QED BY <2>1, <2>2
<1>6. Schedule!Satisfiable
    BY <1>5 DEF PartsInv, GP!GoodMap, GP!AcyclicMap, Schedule!Satisfiable,
                Schedule!DependenciesOf, DependenciesOf, InGraph, InEdges
<1>7. GraphShrinks'
  <2>1. /\ Schedule!Satisfiable'
        /\ InGraph' = registered'
        /\ \A t \in registered : InEdges(t)' = InEdges(t) /\ DependenciesOf(t)' = DependenciesOf(t)
      BY <1>5, <1>6 DEF InGraph, InEdges, DependenciesOf, Schedule!Satisfiable,
                        Schedule!DependenciesOf
  <2>2. \A t \in registered : starts'[t] = 0
      BY DEF ConInv, Progress, OwnTypes
  <2>3. \A t \in registered : DependenciesOf(t) = DependenciesOf(t) \cap registered
      BY DEF DependenciesOf
  <2> QED BY <1>5, <2>1, <2>2, <2>3 DEF GraphShrinks
<1> QED BY <1>1, <1>2, <1>3, <1>4, <1>7, LogOfSetup DEF ConInv

-----------------------------------------------------------------------------
(* The loop of executeTasks. *)

\* The visit of a ready task starts it for the first time, and the tasks it
\* depends on have all been accepted.
LEMMA ReadyTask ==
    ASSUME ConInv, NEW t \in Task, Visit(t), IsReady(t)
    PROVE  /\ t \in registered /\ starts[t] = 0 /\ worker[t] = "none" /\ pc[t] = "absent"
           /\ \A d \in DependenciesOf(t) : Accepted(d) /\ starts[d] = 1
<1>1. main = "start" /\ t \in toStart /\ t \in InGraph /\ InEdges(t) = {}
    BY DEF Visit, IsReady, InGraph, InEdges
<1>2. t \in registered /\ starts[t] = 0 /\ worker[t] = "none" /\ pc[t] = "absent"
    BY <1>1 DEF ConInv, GraphShrinks, WorkersFollow
<1>3. ASSUME NEW d \in DependenciesOf(t) PROVE Accepted(d) /\ starts[d] = 1
  <2>1. d \in registered \ InGraph /\ d \in Task
      BY <1>1 DEF ConInv, GraphShrinks, OwnTypes, DependenciesOf
  <2>2. Accepted(d)
      BY <1>1, <2>1 DEF ConInv, GraphShrinks
  <2>3. starts[d] # 0
      BY <2>1, <2>2 DEF ConInv, WorkersFollow, Accepted
  <2> QED BY <2>1, <2>2, <2>3 DEF ConInv, OwnTypes
<1> QED BY <1>2, <1>3

\* What the start of a task changes.
LEMMA StartedTask ==
    ASSUME ConInv, PartsInv, NEW t \in Task, Visit(t), IsReady(t)
    PROVE  /\ futures' = futures \cup {t}
           /\ starts' = [starts EXCEPT ![t] = 1]
           /\ worker' = [worker EXCEPT ![t] = "logStart"]
           /\ pc' = [pc EXCEPT ![t] = "check"]
           /\ UNCHANGED <<result, log>>
BY ReadyTask DEF Visit, ExecuteTask, Pool!Add, Pool!Create, Pool!Goto, WorkerGoto,
                 ConInv, OwnTypes

\* A visit starts a ready task and leaves the others to a later visit.
LEMMA VisitStep ==
    ASSUME ConInv, PartsInv, NEW t \in Task, Visit(t)
    PROVE  ConInv'
<1>1. /\ main = "start" /\ t \in toStart /\ toStart' = toStart \ {t}
      /\ UNCHANGED <<registered, dependsOn, executionMode, dependencyGraph, main, toBuild,
                     edgesToAdd, failed, ret>>
    BY DEF Visit, setupVars
<1>2. /\ \A u \in Task : DependenciesOf(u)' = DependenciesOf(u) /\ InEdges(u)' = InEdges(u)
      /\ InGraph' = InGraph
      /\ IsOver' <=> IsOver
      /\ Schedule!Satisfiable' <=> Schedule!Satisfiable
    BY <1>1 DEF DependenciesOf, InEdges, InGraph, IsOver, Schedule!Satisfiable,
                Schedule!DependenciesOf
<1>3. GraphGrows'
    BY <1>1 DEF GraphGrows
<1>4. CASE IsReady(t)
  <2>1. pc \in [Task -> PP!ThreadStates]
      BY DEF PartsInv, PP!TypeOK
  <2>2. /\ t \in registered /\ starts[t] = 0 /\ worker[t] = "none" /\ pc[t] = "absent"
        /\ \A d \in DependenciesOf(t) : Accepted(d) /\ starts[d] = 1
      BY <1>4, ReadyTask
  <2>3. /\ futures' = futures \cup {t}
        /\ starts' = [starts EXCEPT ![t] = 1]
        /\ worker' = [worker EXCEPT ![t] = "logStart"]
        /\ pc' = [pc EXCEPT ![t] = "check"]
        /\ UNCHANGED <<result, log>>
      BY <1>4, StartedTask
  <2>4. OwnTypes'
      BY <1>1, <2>2, <2>3 DEF ConInv, OwnTypes, WorkerStates
  <2>5. Progress'
      BY <1>1, <1>2, <2>3 DEF ConInv, Progress, IsOver
  <2>6. WorkersFollow'
      BY <1>1, <2>1, <2>2, <2>3 DEF ConInv, OwnTypes, WorkersFollow
  <2>7. GraphShrinks'
    <3>1. \A u \in registered \ InGraph : Accepted(u)'
      <4>1. t \notin registered \ InGraph
          BY <1>4 DEF IsReady, InGraph
      <4>2. ASSUME NEW u \in registered \ InGraph PROVE Accepted(u)'
          BY <1>1, <2>3, <4>1 DEF ConInv, OwnTypes, GraphShrinks, Accepted, IsFailure
      <4> QED BY <4>2
    <3>2. ASSUME NEW u \in InGraph
          PROVE  /\ InEdges(u)' = DependenciesOf(u)' \cap InGraph'
                 /\ starts'[u] = 1 => InEdges(u)' = {} /\ (u \in futures' \/ failed')
                 /\ u \in toStart' => starts'[u] = 0
                 /\ InEdges(u)' = {} /\ ~ failed' => starts'[u] = 1 \/ u \in toStart'
      <4>1. u \in Task
          BY <1>1 DEF ConInv, OwnTypes, GraphShrinks
      <4> QED BY <1>1, <1>2, <1>4, <2>2, <2>3, <4>1
              DEF ConInv, OwnTypes, GraphShrinks, IsReady, InEdges
    <3> QED BY <1>1, <1>2, <3>1, <3>2 DEF ConInv, GraphShrinks
  <2>8. LogFollows'
    <3>1. \A u \in Task : worker'[u] = worker[u] \/ {worker[u], worker'[u]} = {"none", "logStart"}
        BY <2>2, <2>3 DEF ConInv, OwnTypes
    <3>2. \A u \in Task : worker[u] = "returned" => worker'[u] = "returned"
        BY <2>2, <2>3 DEF ConInv, OwnTypes
    <3>3. ASSUME NEW u \in Task, starts'[u] = 1, NEW d \in DependenciesOf(u)
          PROVE  worker'[d] = "returned"
      <4>1. d \in Task /\ (u # t => starts[u] = 1)
          BY <2>3, <3>3 DEF ConInv, OwnTypes, DependenciesOf
      <4>2. worker[d] = "returned"
          BY <2>2, <3>3, <4>1 DEF ConInv, LogFollows, Accepted
      <4> QED BY <3>2, <4>1, <4>2
    <3>4. LogInOrder' /\ Written' = Written
        BY <1>1, <2>3, LogLinesKept DEF ConInv, LogFollows
    <3> QED BY <1>2, <2>3, <3>1, <3>3, <3>4 DEF ConInv, LogFollows
  <2> QED BY <1>3, <2>4, <2>5, <2>6, <2>7, <2>8 DEF ConInv
<1>5. CASE ~ IsReady(t)
  <2>1. UNCHANGED <<pc, futures, worker, result, log, starts>>
      BY <1>5 DEF Visit, poolVars, workerVars
  <2>2. OwnTypes'
      BY <1>1, <2>1 DEF ConInv, OwnTypes
  <2>3. Progress'
      BY <1>1, <1>2, <2>1 DEF ConInv, Progress
  <2>4. WorkersFollow'
      BY <1>1, <2>1 DEF ConInv, WorkersFollow
  <2>5. GraphShrinks'
    <3>1. \A u \in registered \ InGraph : Accepted(u)'
        BY <1>1, <2>1 DEF ConInv, GraphShrinks, Accepted, IsFailure
    <3>2. \A u \in InGraph : u = t => InEdges(u) # {}
        BY <1>5 DEF IsReady, InEdges, InGraph
    <3>3. \A u \in InGraph : u \in Task
        BY <1>1 DEF ConInv, OwnTypes, GraphShrinks
    <3> QED BY <1>1, <1>2, <2>1, <3>1, <3>2, <3>3 DEF ConInv, GraphShrinks
  <2>6. LogFollows'
      BY <1>1, <1>2, <2>1, LogLinesKept DEF ConInv, LogFollows
  <2> QED BY <1>3, <2>2, <2>3, <2>4, <2>5, <2>6 DEF ConInv
<1> QED BY <1>4, <1>5

\* Once all are visited no ready task is left that has not been started.
LEMMA VisitedAllStep ==
    ASSUME ConInv, PartsInv, VisitedAll
    PROVE  ConInv'
<1> USE DEF VisitedAll, poolVars, setupVars, loopVars, workerVars
<1>1. OwnTypes'
    BY DEF ConInv, OwnTypes, MainStates
<1>2. Progress'
    BY DEF ConInv, Progress, IsOver
<1>3. WorkersFollow'
    BY DEF ConInv, WorkersFollow
<1>4. GraphGrows'
    BY DEF GraphGrows
<1>5. GraphShrinks'
  <2>1. /\ InGraph' = InGraph
        /\ \A t \in InGraph : InEdges(t)' = InEdges(t) /\ DependenciesOf(t)' = DependenciesOf(t)
        /\ \A t \in registered : Accepted(t)' <=> Accepted(t)
        /\ Schedule!Satisfiable' <=> Schedule!Satisfiable
      BY DEF InGraph, InEdges, DependenciesOf, Accepted, IsFailure, Schedule!Satisfiable,
             Schedule!DependenciesOf
  <2> QED BY <2>1 DEF ConInv, GraphShrinks
<1>6. LogFollows'
    BY LogLinesKept DEF ConInv, LogFollows, DependenciesOf, IsOver
<1> QED BY <1>1, <1>2, <1>3, <1>4, <1>5, <1>6 DEF ConInv

\* The result that is taken is that of a task of the graph that has no
\* dependencies left.
LEMMA TakenTask ==
    ASSUME ConInv, NEW t \in Task, ProcessResult(t)
    PROVE  /\ main = "loop" /\ t \in futures /\ worker[t] = "returned"
           /\ starts[t] = 1 /\ t \in InGraph /\ InEdges(t) = {}
BY DEF ProcessResult, TakeResult, FutureReady, ConInv, OwnTypes, WorkersFollow, GraphShrinks,
       Accepted

\* A good result takes the node of its task out of the graph, and the tasks that
\* become ready are those that are visited next.
LEMMA GoodResultStep ==
    ASSUME ConInv, PartsInv, NEW t \in Task, ProcessResult(t), ~ FailedBy(t)
    PROVE  ConInv'
<1>1. /\ main = "loop" /\ t \in futures /\ worker[t] = "returned"
      /\ starts[t] = 1 /\ t \in InGraph /\ InEdges(t) = {}
    BY TakenTask
<1>2. /\ futures' = futures \ {t} /\ failed' = FALSE /\ failed = FALSE
      /\ toStart' = dependencyGraph[t].outEdges /\ main' = "start"
      /\ dependencyGraph' = Graph!AfterRemoveNode(dependencyGraph, t)
      /\ UNCHANGED <<pc, registered, dependsOn, executionMode, toBuild, edgesToAdd, ret,
                     worker, result, log, starts>>
      /\ ~ IsFailure(executionMode, result[t])
    BY <1>1 DEF ProcessResult, TakeResult, FailedBy, Dependents, Graph!RemoveNode, InGraph,
                poolVars, setupVars, workerVars, ConInv, OwnTypes
<1>3. /\ InGraph' = InGraph \ {t}
      /\ \A u \in InGraph \ {t} : InEdges(u)' = InEdges(u) \ {t}
      /\ \A u \in InGraph : u \in toStart' <=> t \in InEdges(u)
      /\ toStart' \subseteq InGraph
  <2>1. /\ toStart' \subseteq InGraph
        /\ \A u \in InGraph : u \in toStart' <=> t \in InEdges(u)
      BY <1>1, <1>2 DEF PartsInv, GP!GoodMap, GP!IsGraph, GP!MirroredMap, InGraph, InEdges
  <2> QED BY <1>1, <1>2, <2>1 DEF Graph!AfterRemoveNode, InGraph, InEdges
<1>4. /\ \A u \in Task : DependenciesOf(u)' = DependenciesOf(u)
      /\ Schedule!Satisfiable' <=> Schedule!Satisfiable
      /\ ~ IsOver /\ ~ IsOver'
    BY <1>1, <1>2 DEF DependenciesOf, Schedule!Satisfiable, Schedule!DependenciesOf, IsOver
<1>5. InGraph \subseteq registered /\ registered \subseteq Task
    BY <1>1 DEF ConInv, GraphShrinks, OwnTypes
<1>6. OwnTypes'
    BY <1>2, <1>3, <1>5 DEF ConInv, OwnTypes, MainStates
<1>7. Progress'
    BY <1>1, <1>2, <1>4 DEF ConInv, Progress
<1>8. WorkersFollow'
    BY <1>1, <1>2 DEF ConInv, WorkersFollow
<1>9. GraphGrows'
    BY <1>2 DEF GraphGrows
<1>10. GraphShrinks'
  <2>1. Schedule!Satisfiable'
      BY <1>1, <1>4 DEF ConInv, GraphShrinks
  <2>2. ASSUME NEW u \in registered' \ InGraph' PROVE Accepted(u)'
      BY <1>1, <1>2, <1>3 DEF ConInv, GraphShrinks, Accepted, IsFailure
  <2>3. ASSUME NEW u \in InGraph'
        PROVE  /\ InEdges(u)' = DependenciesOf(u)' \cap InGraph'
               /\ starts'[u] = 1 => InEdges(u)' = {} /\ (u \in futures' \/ failed')
               /\ u \in toStart' => starts'[u] = 0
               /\ InEdges(u)' = {} => starts'[u] = 1 \/ u \in toStart'
    <3>1. u \in InGraph /\ u # t /\ u \in Task /\ starts[u] \in {0, 1}
        BY <1>3, <1>5 DEF ConInv, OwnTypes
    <3>2. /\ InEdges(u) = DependenciesOf(u) \cap InGraph
          /\ starts[u] = 1 => InEdges(u) = {} /\ (u \in futures \/ failed)
          /\ InEdges(u) = {} => starts[u] = 1
        BY <1>1, <1>2, <3>1 DEF ConInv, GraphShrinks
    <3>3. InEdges(u)' = InEdges(u) \ {t} /\ (u \in toStart' <=> t \in InEdges(u))
        BY <1>3, <3>1
    <3> QED BY <1>2, <1>3, <1>4, <3>1, <3>2, <3>3
  <2> QED BY <1>2, <1>3, <1>5, <2>1, <2>2, <2>3 DEF GraphShrinks
<1>11. LogFollows'
    BY <1>2, <1>4, LogLinesKept DEF ConInv, LogFollows
<1> QED BY <1>6, <1>7, <1>8, <1>9, <1>10, <1>11 DEF ConInv

\* After a failure the graph is left alone.
LEMMA BadResultStep ==
    ASSUME ConInv, PartsInv, NEW t \in Task, ProcessResult(t), FailedBy(t)
    PROVE  ConInv'
<1>1. /\ main = "loop" /\ t \in futures /\ worker[t] = "returned"
      /\ starts[t] = 1 /\ t \in InGraph /\ InEdges(t) = {}
    BY TakenTask
<1>2. /\ futures' = futures \ {t} /\ failed' = TRUE
      /\ UNCHANGED <<pc, registered, dependsOn, executionMode, dependencyGraph, main, toStart,
                     toBuild, edgesToAdd, ret, worker, result, log, starts>>
    BY <1>1 DEF ProcessResult, TakeResult, FailedBy, poolVars, setupVars, workerVars,
                ConInv, OwnTypes, IsFailure
<1>3. /\ InGraph' = InGraph
      /\ \A u \in Task : DependenciesOf(u)' = DependenciesOf(u) /\ InEdges(u)' = InEdges(u)
      /\ Schedule!Satisfiable' <=> Schedule!Satisfiable
      /\ ~ IsOver /\ ~ IsOver'
    BY <1>1, <1>2 DEF DependenciesOf, InGraph, InEdges, Schedule!Satisfiable,
                      Schedule!DependenciesOf, IsOver
<1>4. OwnTypes'
    BY <1>2 DEF ConInv, OwnTypes
<1>5. Progress'
    BY <1>1, <1>2, <1>3 DEF ConInv, Progress
<1>6. WorkersFollow'
    BY <1>1, <1>2 DEF ConInv, WorkersFollow
<1>7. GraphGrows'
    BY <1>1, <1>2 DEF GraphGrows
<1>8. GraphShrinks'
  <2>1. ASSUME NEW u \in registered' \ InGraph' PROVE Accepted(u)'
      BY <1>1, <1>2, <1>3 DEF ConInv, GraphShrinks, Accepted, IsFailure
  <2>2. InGraph \subseteq registered /\ registered \subseteq Task
      BY <1>1 DEF ConInv, GraphShrinks, OwnTypes
  <2>3. ASSUME NEW u \in InGraph'
        PROVE  /\ InEdges(u)' = DependenciesOf(u)' \cap InGraph'
               /\ starts'[u] = 1 => InEdges(u)' = {}
      BY <1>1, <1>2, <1>3, <2>2 DEF ConInv, GraphShrinks
  <2> QED BY <1>1, <1>2, <1>3, <2>1, <2>2, <2>3 DEF ConInv, GraphShrinks
<1>9. LogFollows'
    BY <1>2, <1>3, LogLinesKept DEF ConInv, LogFollows
<1> QED BY <1>4, <1>5, <1>6, <1>7, <1>8, <1>9 DEF ConInv

\* When the vector is empty the worker of every started task has returned: this
\* is what the comment in executeTasks relies on.
LEMMA NoFutureMeansIdle ==
    ASSUME ConInv, futures = {}, NEW t \in Task
    PROVE  ~ InUse(t)
BY DEF ConInv, WorkersFollow, OwnTypes, InUse

\* The verdict is the last line: no worker is left to write another.
LEMMA LoopEndsStep ==
    ASSUME ConInv, PartsInv, LoopEnds
    PROVE  ConInv'
<1>1. /\ main = "loop" /\ futures = {} /\ main' = "returned"
      /\ ret' = IF failed THEN "failure" ELSE "success"
      /\ log' = Append(log, <<"verdict", ret'>>)
      /\ UNCHANGED <<pc, registered, dependsOn, executionMode, dependencyGraph, toBuild,
                     edgesToAdd, toStart, futures, failed, worker, result, starts>>
    BY DEF LoopEnds, WriteToLog, poolVars, setupVars, loopVars
<1>2. log \in Seq(Lines) /\ <<"verdict", ret'>> \in Lines
    BY <1>1 DEF ConInv, OwnTypes, Lines
<1>3. OwnTypes'
    BY <1>1, <1>2 DEF ConInv, OwnTypes, MainStates
<1>4. Progress'
    BY <1>1 DEF ConInv, Progress, IsOver
<1>5. WorkersFollow'
    BY <1>1 DEF ConInv, WorkersFollow
<1>6. GraphGrows' /\ GraphShrinks'
    BY <1>1 DEF GraphGrows, GraphShrinks
<1>7. LogFollows'
  <2>1. /\ Len(log') = Len(log) + 1 /\ Len(log) \in Nat
        /\ \A i \in 1 .. Len(log) : log'[i] = log[i]
        /\ log'[Len(log) + 1][1] = "verdict"
      BY <1>1, <1>2
  <2>2. \A i \in 1 .. Len(log) : log[i][1] # "verdict"
      BY <1>1 DEF ConInv, LogFollows, IsOver
  <2>3. Written' = Written \cup {<<"verdict", ret'>>}
      BY <1>1, <1>2, LinesStay
  <2>4. \A t \in Task : DependenciesOf(t)' = DependenciesOf(t)
      BY <1>1 DEF DependenciesOf
  <2>5. LogInOrder'
    <3> DEFINE line == <<"verdict", ret'>>
    <3>1. line[1] \notin {"start", "end"} /\ log' = Append(log, line) /\ LogInOrder
        BY <1>1 DEF ConInv, LogFollows
    <3>2. line \notin Written
        BY <2>2 DEF Written
    <3> HIDE DEF line
    <3> QED BY <1>1, <1>2, <2>2, <3>1, <3>2, AppendKeepsOrder
  <2> QED BY <1>1, <2>1, <2>3, <2>4, <2>5 DEF ConInv, LogFollows, IsOver
<1> QED BY <1>3, <1>4, <1>5, <1>6, <1>7 DEF ConInv

\* ~Controller changes nothing that is read later.
LEMMA DeleteTasksStep ==
    ASSUME ConInv, PartsInv, DeleteTasks
    PROVE  ConInv'
<1> USE DEF DeleteTasks, poolVars, setupVars, loopVars, workerVars
<1>1. OwnTypes'
    BY DEF ConInv, OwnTypes, MainStates
<1>2. Progress'
    BY DEF ConInv, Progress, IsOver
<1>3. WorkersFollow'
    BY DEF ConInv, WorkersFollow
<1>4. GraphGrows' /\ GraphShrinks'
    BY DEF GraphGrows, GraphShrinks
<1>5. LogFollows'
    BY LogLinesKept DEF ConInv, LogFollows, DependenciesOf, IsOver
<1> QED BY <1>1, <1>2, <1>3, <1>4, <1>5 DEF ConInv

-----------------------------------------------------------------------------
(* The steps of the threads. *)

\* While the worker of a task is busy the main thread is in its loop.
LEMMA BusyMeansLooping ==
    ASSUME ConInv, NEW t \in Task, InUse(t)
    PROVE  /\ starts[t] = 1 /\ t \in futures /\ t \in registered
           /\ ~ IsOver /\ main \in {"start", "loop"} /\ t \in InGraph
<1>1. starts[t] = 1 /\ t \in futures /\ t \in registered
    BY DEF ConInv, OwnTypes, WorkersFollow, InUse
<1>2. ~ IsOver /\ main \in {"start", "loop"}
    BY <1>1 DEF ConInv, OwnTypes, Progress, IsOver, MainStates
<1>3. t \in InGraph
    BY <1>1, <1>2 DEF ConInv, GraphShrinks, Accepted
<1> QED BY <1>1, <1>2, <1>3

\* A worker goes on: nothing that the main thread owns changes.
LEMMA WorkerMoves ==
    ASSUME ConInv, NEW t \in Task, InUse(t),
           NEW s \in WorkerStates \ {"none"}, worker' = [worker EXCEPT ![t] = s],
           result' \in [Task -> ExecutionResults], \A u \in Task : u # t => result'[u] = result[u],
           UNCHANGED <<poolVars, mainVars, starts>>, log' \in Seq(Lines), LogFollows'
    PROVE  ConInv'
<1>1. UNCHANGED <<pc, registered, dependsOn, executionMode, dependencyGraph, main, toBuild,
                  edgesToAdd, toStart, futures, failed, ret, starts>>
    BY DEF poolVars, mainVars, setupVars, loopVars
<1>2. OwnTypes'
    BY <1>1 DEF ConInv, OwnTypes
<1>3. Progress'
  <2>1. main \notin {"setup", "build"}
      BY BusyMeansLooping
  <2> QED BY <1>1, <2>1 DEF ConInv, Progress, IsOver, InGraph
<1>4. WorkersFollow'
    BY <1>1, BusyMeansLooping DEF ConInv, OwnTypes, WorkersFollow
<1>5. GraphGrows'
  <2>1. main # "build"
      BY BusyMeansLooping
  <2> QED BY <1>1, <2>1 DEF GraphGrows
<1>6. GraphShrinks'
  <2>1. main \in {"start", "loop"} /\ t \in InGraph
      BY BusyMeansLooping
  <2>2. \A u \in registered \ InGraph : Accepted(u)'
      BY <1>1, <2>1 DEF ConInv, OwnTypes, GraphShrinks, Accepted, IsFailure
  <2>3. /\ InGraph' = InGraph
        /\ \A u \in InGraph : InEdges(u)' = InEdges(u) /\ DependenciesOf(u)' = DependenciesOf(u)
        /\ Schedule!Satisfiable' <=> Schedule!Satisfiable
      BY <1>1 DEF InGraph, InEdges, DependenciesOf, Schedule!Satisfiable,
                  Schedule!DependenciesOf
  <2> QED BY <1>1, <2>1, <2>2, <2>3 DEF ConInv, GraphShrinks
<1> QED BY <1>2, <1>3, <1>4, <1>5, <1>6 DEF ConInv

\* A worker that has not yet fulfilled its promise writes a line or none.
LEMMA LogOfWorker ==
    ASSUME ConInv, NEW t \in Task, InUse(t),
           NEW s \in WorkerStates \ {"none"}, worker' = [worker EXCEPT ![t] = s],
           UNCHANGED <<mainVars, starts>>,
           \/ worker[t] = "logStart" /\ s = "execute" /\ log' = Append(log, <<"start", t>>)
           \/ worker[t] = "execute" /\ s = "logEnd" /\ log' = log
           \/ worker[t] = "logEnd" /\ s = "setValue" /\ log' = Append(log, <<"end", t>>)
           \/ worker[t] = "setValue" /\ s = "returned" /\ log' = log
    PROVE  log' \in Seq(Lines) /\ LogFollows'
<1>1. UNCHANGED <<registered, dependsOn, main, starts>>
    BY DEF mainVars, setupVars
<1>2. log \in Seq(Lines) /\ <<"start", t>> \in Lines /\ <<"end", t>> \in Lines
    BY DEF ConInv, OwnTypes, Lines
<1>3. log' \in Seq(Lines)
  <2>1. ASSUME NEW l \in Lines PROVE Append(log, l) \in Seq(Lines)
      BY <1>2
  <2> QED BY <1>2, <2>1, Zenon
<1>4. /\ starts[t] = 1 /\ ~ IsOver
      /\ \A i \in 1 .. Len(log) : log[i][1] # "verdict"
    BY BusyMeansLooping DEF ConInv, LogFollows
<1>5. /\ log' = log => Written' = Written
      /\ \A k \in {"start", "end"} :
            log' = Append(log, <<k, t>>) => Written' = Written \cup {<<k, t>>}
    BY <1>2, LinesStay DEF Written
<1>6. ASSUME NEW u \in Task
      PROVE  /\ <<"start", u>> \in Written' <=> worker'[u] \notin {"none", "logStart"}
             /\ <<"end", u>> \in Written' <=> worker'[u] \in {"setValue", "returned"}
  <2>1. /\ <<"start", u>> \in Written <=> worker[u] \notin {"none", "logStart"}
        /\ <<"end", u>> \in Written <=> worker[u] \in {"setValue", "returned"}
      BY DEF ConInv, LogFollows
  <2>2. worker'[t] = s /\ (u # t => worker'[u] = worker[u])
      BY DEF ConInv, OwnTypes
  <2>3. CASE u = t
      BY <1>5, <2>1, <2>2, <2>3
  <2>4. CASE u # t
      BY <1>5, <2>1, <2>2, <2>4
  <2> QED BY <2>3, <2>4
<1>7. ASSUME NEW u \in Task, starts'[u] = 1, NEW d \in DependenciesOf(u)'
      PROVE  worker'[d] = "returned"
  <2>1. worker[d] = "returned" /\ d \in Task
      BY <1>1, <1>7 DEF ConInv, OwnTypes, LogFollows, DependenciesOf
  <2> QED BY <2>1 DEF InUse, ConInv, OwnTypes
<1>8. \A i \in 1 .. Len(log') : log'[i][1] # "verdict"
    BY <1>2, <1>4
<1>9. LogInOrder'
  <2>1. LogInOrder
      BY DEF ConInv, LogFollows
  <2>2. \A d \in DependenciesOf(t) : <<"end", d>> \in Written
    <3>1. ASSUME NEW d \in DependenciesOf(t) PROVE d \in Task /\ worker[d] = "returned"
        BY <1>4 DEF ConInv, OwnTypes, LogFollows, DependenciesOf
    <3> QED BY <3>1 DEF ConInv, LogFollows
  <2>3. CASE log' = log
      BY <2>1, <2>3, <1>1, LogLinesKept
  <2>4. ASSUME NEW k \in {"start", "end"}, log' = Append(log, <<k, t>>),
               <<k, t>> \notin Written, k = "end" => <<"start", t>> \in Written
        PROVE  LogInOrder'
    <3> DEFINE line == <<k, t>>
    <3>1. /\ line[1] = k /\ line[2] = t /\ log' = Append(log, line)
          /\ line \notin Written
        BY <2>4
    <3> HIDE DEF line
    <3> QED BY <1>1, <1>2, <1>4, <2>1, <2>2, <2>4, <3>1, AppendKeepsOrder
  <2>5. CASE worker[t] = "logStart" /\ log' = Append(log, <<"start", t>>)
    <3>1. <<"start", t>> \notin Written
        BY <2>5 DEF ConInv, LogFollows
    <3> QED BY <2>4, <2>5, <3>1
  <2>6. CASE worker[t] = "logEnd" /\ log' = Append(log, <<"end", t>>)
    <3>1. <<"end", t>> \notin Written /\ <<"start", t>> \in Written
        BY <2>6 DEF ConInv, LogFollows
    <3> QED BY <2>4, <2>6, <3>1
  <2> QED BY <2>3, <2>5, <2>6
<1> QED BY <1>1, <1>3, <1>6, <1>7, <1>8, <1>9 DEF LogFollows

\* The four steps of Worker::operator().
LEMMA WorkerStep ==
    ASSUME ConInv, NEW t \in Task, LogStart(t) \/ Execute(t) \/ LogEnd(t) \/ SetValue(t)
    PROVE  ConInv'
<1>1. InUse(t)
    BY DEF LogStart, Execute, LogEnd, SetValue, InUse
<1>2. UNCHANGED <<poolVars, mainVars, starts>>
    BY DEF LogStart, Execute, LogEnd, SetValue
<1>3. result \in [Task -> ExecutionResults]
    BY DEF ConInv, OwnTypes
<1>4. CASE LogStart(t)
    BY <1>1, <1>2, <1>3, <1>4, WorkerMoves, LogOfWorker
       DEF LogStart, WriteToLog, WorkerGoto, WorkerStates
<1>5. CASE Execute(t)
    BY <1>1, <1>2, <1>3, <1>5, WorkerMoves, LogOfWorker DEF Execute, WorkerGoto, WorkerStates
<1>6. CASE LogEnd(t)
    BY <1>1, <1>2, <1>3, <1>6, WorkerMoves, LogOfWorker
       DEF LogEnd, WriteToLog, WorkerGoto, WorkerStates
<1>7. CASE SetValue(t)
    BY <1>1, <1>2, <1>3, <1>7, WorkerMoves, LogOfWorker DEF SetValue, WorkerGoto, WorkerStates
<1> QED BY <1>4, <1>5, <1>6, <1>7

\* A step of the pool moves threads, but creates none.
LEMMA PoolMoves ==
    ASSUME ConInv, PartsInv, UNCHANGED <<mainVars, workerVars, starts>>,
           \A u \in Task : pc'[u] = "absent" <=> pc[u] = "absent"
    PROVE  ConInv'
<1>1. UNCHANGED <<registered, dependsOn, executionMode, dependencyGraph, main, toBuild,
                  edgesToAdd, toStart, futures, failed, ret, starts, worker, result, log>>
    BY DEF mainVars, setupVars, loopVars, workerVars
<1>2. OwnTypes'
    BY <1>1 DEF ConInv, OwnTypes
<1>3. Progress'
    BY <1>1 DEF ConInv, Progress, IsOver, InGraph
<1>4. WorkersFollow'
    BY <1>1 DEF ConInv, WorkersFollow
<1>5. GraphGrows'
    BY <1>1 DEF ConInv, GraphGrows, InGraph, InEdges, DependenciesOf
<1>6. GraphShrinks'
    BY <1>1 DEF ConInv, GraphShrinks, InGraph, InEdges, DependenciesOf, Accepted, IsFailure,
                Schedule!Satisfiable, Schedule!DependenciesOf
<1>7. LogFollows'
    BY <1>1, LogLinesKept DEF ConInv, LogFollows, DependenciesOf, IsOver
<1> QED BY <1>2, <1>3, <1>4, <1>5, <1>6, <1>7 DEF ConInv

\* The pool's own steps around a task.
LEMMA ThreadMovesOn ==
    ASSUME PartsInv, NEW t \in Task,
           ExecuteThrows(t) \/ WorkerReturns(t) \/ PoolStep(t) \/ SpuriousWakeup(t)
    PROVE  /\ UNCHANGED <<mainVars, workerVars, starts>>
           /\ \A u \in Task : pc'[u] = "absent" <=> pc[u] = "absent"
<1>1. pc \in [Task -> PP!ThreadStates]
    BY DEF PartsInv, PP!TypeOK
<1>2. CASE ExecuteThrows(t) \/ WorkerReturns(t) \/ SpuriousWakeup(t)
    BY <1>1, <1>2 DEF ExecuteThrows, WorkerReturns, SpuriousWakeup, Pool!TaskThrows,
                      Pool!TaskReturns, Pool!SpuriousWakeup, Pool!Goto
<1>3. CASE PoolStep(t)
    BY <1>1, <1>3 DEF PoolStep, Pool!TakeSlot, Pool!SeeFull, Pool!Sleep, Pool!CountError,
                      Pool!ReleaseSlot, Pool!NotifyAll, Pool!Goto
<1> QED BY <1>2, <1>3

\* The destructor of the pool.
LEMMA OwnerMovesOn ==
    ASSUME DestroyPool \/ JoinThreads
    PROVE  UNCHANGED <<mainVars, workerVars, starts, pc>>
BY DEF DestroyPool, JoinThreads, Pool!CallWait, Pool!JoinNext, Pool!WaitReturns

-----------------------------------------------------------------------------
(* The theorems. *)

\* Every step of the controller keeps the invariant.
LEMMA NextConInv ==
    ASSUME ConInv, PartsInv, [Next]_vars
    PROVE  ConInv'
<1>1. ASSUME UNCHANGED vars PROVE ConInv'
    BY <1>1, PoolMoves DEF vars, poolVars, mainVars
<1>2. ASSUME NEW t \in Task, AddTask(t) \/ BuildNode(t) \/ Visit(t) \/ ProcessResult(t)
      PROVE  ConInv'
    BY <1>2, AddTaskStep, BuildNodeStep, VisitStep, GoodResultStep, BadResultStep
<1>3. ASSUME NEW d \in Task, NEW t \in Task, BuildEdge(d, t) PROVE ConInv'
    BY <1>3, BuildEdgeStep
<1>4. CASE ExecuteTasks \/ BuildDone \/ VisitedAll \/ LoopEnds \/ DeleteTasks
    BY <1>4, ExecuteTasksStep, BuildDoneStep, VisitedAllStep, LoopEndsStep, DeleteTasksStep
<1>5. CASE DestroyPool \/ JoinThreads
    BY <1>5, OwnerMovesOn, PoolMoves
<1>6. ASSUME NEW t \in Task, ThreadStep(t) \/ SpuriousWakeup(t) PROVE ConInv'
  <2>1. CASE LogStart(t) \/ Execute(t) \/ LogEnd(t) \/ SetValue(t)
      BY <2>1, WorkerStep
  <2>2. CASE ExecuteThrows(t) \/ WorkerReturns(t) \/ PoolStep(t) \/ SpuriousWakeup(t)
      BY <2>2, ThreadMovesOn, PoolMoves
  <2> QED BY <1>6, <2>1, <2>2 DEF ThreadStep, AroundExecute
<1> QED BY <1>1, <1>2, <1>3, <1>4, <1>5, <1>6 DEF Next, MainStep, Stopped

\* What is known of the two parts, together.
LEMMA PartsHold == Spec => []PartsInv
<1>1. PP!PoolInv => PP!TypeOK
    BY DEF PP!PoolInv
<1> QED BY <1>1, PoolHolds, GraphHolds, PTL DEF PartsInv

\* The invariant of the controller.
THEOREM ControllerInvariant == Spec => []ConInv
BY InitConInv, NextConInv, PartsHold, PTL DEF Spec

\* All variables keep their types; the edges of the graph lead to its keys.
THEOREM ControllerTypeCorrect == Spec => []TypeOK
<1>1. PP!TypeOK => Pool!TypeOK
    BY DEF PP!TypeOK, Pool!TypeOK, PP!ThreadStates, Pool!ThreadStates,
           PP!OwnerStates, Pool!OwnerStates
<1>2. GP!GoodMap(dependencyGraph) /\ GP!Keys \subseteq Task => Graph!TypeOK
    BY DEF GP!GoodMap, GP!IsGraph, GP!Keys, Graph!TypeOK, Graph!Keys
<1>3. OwnTypes => starts \in [Task -> Nat]
    BY DEF OwnTypes
<1>4. ConInv /\ PartsInv => TypeOK
    BY <1>1, <1>2, <1>3 DEF ConInv, PartsInv, OwnTypes, TypeOK
<1> QED BY <1>4, ControllerInvariant, PartsHold, PTL

\* The loop ends only when no worker is busy any more.
THEOREM EmptyVectorMeansIdle == Spec => []EmptyFuturesMeansIdle
<1>1. ConInv => EmptyFuturesMeansIdle
    BY NoFutureMeansIdle DEF EmptyFuturesMeansIdle, Started
<1> QED BY <1>1, ControllerInvariant, PTL

\* No worker touches a task after the Controller has deleted it.
THEOREM DeletedTasksUnused == Spec => []NoUseAfterDelete
<1>1. ConInv => NoUseAfterDelete
    BY NoFutureMeansIdle DEF NoUseAfterDelete, ConInv, Progress, IsOver
<1> QED BY <1>1, ControllerInvariant, PTL

\* controler.txt tells the order of events.
THEOREM LogTellsOrder == Spec => []LogInOrder
<1>1. ConInv => LogInOrder
    BY DEF ConInv, LogFollows
<1> QED BY <1>1, ControllerInvariant, PTL

\* No task is started once a failure has been processed.
THEOREM FailureStopsStarts == Spec => NothingStartsAfterFailure
<1>1. ConInv /\ [Next]_vars => [failed => starts' = starts]_vars
  <2> SUFFICES ASSUME ConInv, [Next]_vars, failed PROVE starts' = starts
      OBVIOUS
  <2>1. main # "start"
      BY DEF ConInv, Progress, IsOver
  <2>2. \A t \in Task : ~ Visit(t)
      BY <2>1 DEF Visit
  <2> QED BY <2>2 DEF Next, MainStep, ThreadStep, AroundExecute, vars, Stopped, AddTask, ExecuteTasks, BuildNode,
                      ProcessResult, TakeResult, BuildEdge, BuildDone, VisitedAll, LoopEnds,
                      DeleteTasks, DestroyPool, JoinThreads, LogStart, Execute, LogEnd, SetValue,
                      ExecuteThrows, WorkerReturns, PoolStep, SpuriousWakeup
<1> QED BY <1>1, ControllerInvariant, PTL DEF Spec, NothingStartsAfterFailure

\* The pool in the controller counts its slots exactly, runs at most PoolSize
\* tasks at once, and leaves no thread behind when it is destroyed.
THEOREM ControllerPoolIsSafe == Spec => [](PP!SlotsExact /\ PP!QuietAfterDestruction)
<1>1. PP!IsFiniteSet(Task)
    BY TaskAssumption DEF PP!IsFiniteSet, IsFiniteSet
<1>2. PP!Spec => []PP!QuietAfterDestruction
    BY <1>1, PP!QuietOnceDestroyed, PoolAssumption
<1>3. Init => PP!Init
    BY DEF Init, Pool!Init, PP!Init
<1>4. PP!PoolInv => PP!SlotsExact
    BY DEF PP!PoolInv
<1> QED BY <1>2, <1>3, <1>4, PoolHolds, StepOfPool, PTL DEF Spec, PP!Spec

-----------------------------------------------------------------------------
(* The controller implements DependencySchedule. *)

\* Nothing is registered, nothing has run.
LEMMA ScheduleInit == Init => Schedule!Init
BY DEF Init, Schedule!Init, StatusOf

\* Nothing of what the schedule is about changes.
LEMMA ScheduleStutters ==
    ASSUME UNCHANGED <<registered, dependsOn, executionMode, starts, worker, result, failed, ret>>
    PROVE  UNCHANGED Schedule!vars
BY DEF Schedule!vars, StatusOf, IsFailure

\* As long as nothing has been started all tasks wait.
LEMMA AllWait ==
    ASSUME ConInv, main \in {"setup", "build"}
    PROVE  /\ \A t \in Task : starts[t] = 0 /\ StatusOf(t) = "waiting"
           /\ ret = "none"
BY DEF ConInv, Progress, StatusOf, IsOver

\* Registration is registration.
LEMMA AddTaskRefines ==
    ASSUME ConInv, NEW t \in Task, AddTask(t)
    PROVE  Schedule!Register(t)
<1>1. main = "setup" /\ UNCHANGED <<dependsOn, executionMode, worker, result, starts, failed, ret>>
    BY DEF AddTask, loopVars, workerVars
<1>2. \A u \in Task : StatusOf(u)' = StatusOf(u)
    BY <1>1 DEF StatusOf, IsFailure
<1> QED BY <1>1, <1>2, AllWait DEF AddTask, Schedule!Register

\* buildGraph returns false only when the dependencies cannot be met: the edge
\* that is refused would close a cycle, and all edges are dependencies.
LEMMA BuildEdgeRefines ==
    ASSUME ConInv, PartsInv, NEW d \in Task, NEW t \in Task, BuildEdge(d, t)
    PROVE  Schedule!Reject \/ UNCHANGED Schedule!vars
<1>1. /\ main = "build"
      /\ UNCHANGED <<registered, dependsOn, executionMode, worker, result, starts, failed>>
    BY DEF BuildEdge, setupVars, workerVars
<1>2. CASE GP!AddEdgeResult(dependencyGraph, d, t) # "EDGE_INTRODUCES_CYCLE"
  <2>1. ret' = ret
      BY <1>2, SameAddEdge DEF BuildEdge
  <2> QED BY <1>1, <2>1, ScheduleStutters
<1>3. CASE GP!AddEdgeResult(dependencyGraph, d, t) = "EDGE_INTRODUCES_CYCLE"
  <2>1. ret' = "rejected"
      BY <1>3, SameAddEdge DEF BuildEdge
  <2>2. /\ t \in InGraph /\ d \in InGraph /\ d # t
        /\ GP!CheckForCycle(dependencyGraph, d, t)
        /\ d \in DependenciesOf(t)
    <3>1. d # t
        BY <1>3 DEF GP!AddEdgeResult
    <3> QED BY <1>3, <3>1, EdgeIsNew DEF DependenciesOf
  <2> DEFINE w == GP!WithEdge(dependencyGraph, d, t)
  <2>3. ~ GP!AcyclicMap(w)
      BY <2>2, GP!RefusedEdgeClosesCycle DEF PartsInv, GP!GoodMap, InGraph
  <2>4. /\ DOMAIN w = InGraph
        /\ \A u \in InGraph : w[u].inEdges = InEdges(u) \cup (IF u = t THEN {d} ELSE {})
      BY <2>2 DEF GP!WithEdge, GP!Touch, InGraph, InEdges
  <2>5. InGraph \subseteq registered /\ registered \subseteq Task
      BY <1>1 DEF ConInv, OwnTypes, GraphGrows
  <2>6. ASSUME NEW u \in InGraph PROVE w[u].inEdges \subseteq DependenciesOf(u)
    <3>1. InEdges(u) \subseteq Task
        BY DEF PartsInv, GP!GoodMap, GP!IsGraph, GP!Keys, InGraph, InEdges
    <3>2. InEdges(u) \subseteq DependenciesOf(u)
        BY <1>1, <3>1 DEF ConInv, GraphGrows
    <3> QED BY <2>2, <2>4, <3>2
  <2> HIDE DEF w
  <2>7. PICK S \in SUBSET InGraph : S # {} /\ \A u \in S : w[u].inEdges \cap S # {}
      BY <2>3, <2>4 DEF GP!AcyclicMap
  <2>8. \A u \in S : DependenciesOf(u) \cap S # {}
      BY <2>6, <2>7
  <2>9. ~ Schedule!Satisfiable
      BY <2>5, <2>7, <2>8 DEF Schedule!Satisfiable, Schedule!DependenciesOf, DependenciesOf
  <2>10. \A u \in Task : StatusOf(u)' = StatusOf(u)
      BY <1>1 DEF StatusOf, IsFailure
  <2>11. Schedule!Reject
      BY <1>1, <2>1, <2>9, <2>10, AllWait DEF Schedule!Reject
  <2> QED BY <2>11
<1> QED BY <1>2, <1>3

\* A task is started when all it depends on is good.
LEMMA VisitRefines ==
    ASSUME ConInv, PartsInv, NEW t \in Task, Visit(t)
    PROVE  Schedule!Start(t) \/ UNCHANGED Schedule!vars
<1>1. /\ main = "start"
      /\ UNCHANGED <<registered, dependsOn, executionMode, failed, ret>>
    BY DEF Visit, setupVars
<1>2. CASE ~ IsReady(t)
  <2>1. UNCHANGED <<starts, worker, result>>
      BY <1>2 DEF Visit, workerVars
  <2> QED BY <1>1, <2>1, ScheduleStutters
<1>3. CASE IsReady(t)
  <2>1. /\ t \in registered /\ starts[t] = 0
        /\ \A d \in DependenciesOf(t) : Accepted(d) /\ starts[d] = 1
      BY <1>3, ReadyTask
  <2>2. /\ starts' = [starts EXCEPT ![t] = 1]
        /\ worker' = [worker EXCEPT ![t] = "logStart"]
        /\ result' = result
      BY <1>3, StartedTask
  <2>3. starts \in [Task -> {0, 1}] /\ worker \in [Task -> WorkerStates]
      BY DEF ConInv, OwnTypes
  <2>4. Schedule!Satisfiable /\ ~ failed /\ ret = "none"
      BY <1>1 DEF ConInv, GraphShrinks, Progress, IsOver
  <2>5. \A d \in DependenciesOf(t) : d \in Task /\ StatusOf(d) = "good"
      BY <2>1, <2>3 DEF StatusOf, Accepted, ConInv, OwnTypes, DependenciesOf
  <2>6. StatusOf(t) = "waiting" /\ StatusOf(t)' = "running"
      BY <2>1, <2>2, <2>3 DEF StatusOf
  <2>7. \A u \in Task : u # t => StatusOf(u)' = StatusOf(u)
      BY <1>1, <2>2, <2>3 DEF StatusOf, IsFailure
  <2>8. Schedule!Launch(t)
      BY <1>1, <2>1, <2>4, <2>5, <2>6, <2>7
         DEF Schedule!Launch, Schedule!Become, Schedule!DependenciesOf, DependenciesOf
  <2> QED BY <2>4, <2>8 DEF Schedule!Start
<1> QED BY <1>2, <1>3

\* The loop notices a failure when it takes the result, and a good result
\* changes nothing that has not been known.
LEMMA ProcessResultRefines ==
    ASSUME ConInv, PartsInv, NEW t \in Task, ProcessResult(t)
    PROVE  Schedule!NoticeFailure \/ UNCHANGED Schedule!vars
<1>1. /\ UNCHANGED <<registered, dependsOn, executionMode, starts, worker, result, ret>>
      /\ failed' = FailedBy(t) /\ failed \in BOOLEAN
    BY DEF ProcessResult, TakeResult, setupVars, workerVars, ConInv, OwnTypes
<1>2. CASE failed \/ ~ IsFailure(executionMode, result[t])
  <2>1. failed' = failed
      BY <1>1, <1>2 DEF FailedBy
  <2> QED BY <1>1, <2>1, ScheduleStutters
<1>3. CASE ~ failed /\ IsFailure(executionMode, result[t])
  <2>1. failed' = TRUE
      BY <1>1, <1>3 DEF FailedBy
  <2>2. worker[t] = "returned" /\ starts[t] = 1 /\ t \in registered
      BY TakenTask DEF ConInv, OwnTypes, WorkersFollow
  <2>3. StatusOf(t) = "bad"
      BY <1>3, <2>2 DEF StatusOf
  <2>4. \A u \in Task : StatusOf(u)' = StatusOf(u)
      BY <1>1 DEF StatusOf, IsFailure
  <2>5. Schedule!NoticeFailure
      BY <1>1, <2>1, <2>2, <2>3, <2>4 DEF Schedule!NoticeFailure
  <2> QED BY <2>5
<1> QED BY <1>2, <1>3

\* When the vector is empty and nothing has failed, the graph is empty: a graph
\* without a cycle that has nodes has a ready one, and its future would be in
\* the vector.
LEMMA AllAccepted ==
    ASSUME ConInv, PartsInv, main = "loop", futures = {}, ~ failed
    PROVE  \A t \in registered : Accepted(t)
<1>1. ASSUME InGraph # {} PROVE FALSE
  <2>1. PICK t \in InGraph : InEdges(t) \cap InGraph = {}
      BY <1>1 DEF PartsInv, GP!GoodMap, GP!AcyclicMap, InGraph, InEdges
  <2>2. InEdges(t) = {}
      BY <2>1 DEF ConInv, GraphShrinks
  <2> QED BY <2>2 DEF ConInv, GraphShrinks
<1> QED BY <1>1 DEF ConInv, GraphShrinks

\* The verdict follows from the results.
LEMMA LoopEndsRefines ==
    ASSUME ConInv, PartsInv, LoopEnds
    PROVE  Schedule!Conclude
<1>1. /\ main = "loop" /\ futures = {}
      /\ ret' = IF failed THEN "failure" ELSE "success"
      /\ UNCHANGED <<registered, dependsOn, executionMode, starts, worker, result, failed>>
    BY DEF LoopEnds, setupVars, loopVars
<1>2. ret = "none"
    BY <1>1 DEF ConInv, Progress, IsOver
<1>3. \A t \in Task : StatusOf(t)' = StatusOf(t)
    BY <1>1 DEF StatusOf, IsFailure
<1>4. registered \subseteq Task
    BY DEF ConInv, OwnTypes
<1>5. \A t \in registered : StatusOf(t) # "running"
    BY <1>1, <1>4, NoFutureMeansIdle, Zenon DEF StatusOf, InUse
<1>6. ~ failed => \A t \in registered : StatusOf(t) = "good"
  <2> SUFFICES ASSUME ~ failed, NEW t \in registered PROVE StatusOf(t) = "good"
      OBVIOUS
  <2>1. Accepted(t)
      BY <1>1, AllAccepted
  <2>2. starts[t] = 1
      BY <1>4, <2>1 DEF Accepted, ConInv, OwnTypes, WorkersFollow
  <2> QED BY <2>1, <2>2 DEF StatusOf, Accepted
<1> QED BY <1>1, <1>2, <1>3, <1>4, <1>5, <1>6 DEF Schedule!Conclude

\* A task finishes when its result is known, before its promise is fulfilled.
LEMMA ExecuteRefines ==
    ASSUME ConInv, NEW t \in Task, Execute(t)
    PROVE  /\ Schedule!Finish(t)
           /\ StatusOf(t) = "running"
           /\ StatusOf(t)' = IF IsFailure(executionMode, result'[t]) THEN "bad" ELSE "good"
           /\ \A u \in Task : u # t => StatusOf(u)' = StatusOf(u)
<1>1. UNCHANGED <<registered, dependsOn, executionMode, failed, ret, starts>>
    BY DEF Execute, mainVars, setupVars, loopVars
<1>2. worker \in [Task -> WorkerStates] /\ result \in [Task -> ExecutionResults]
    BY DEF ConInv, OwnTypes
<1>3. starts[t] = 1
    BY BusyMeansLooping DEF Execute, InUse
<1>4. /\ worker' = [worker EXCEPT ![t] = "logEnd"] /\ worker[t] = "execute"
      /\ \A u \in Task : u # t => result'[u] = result[u]
    BY <1>2 DEF Execute, WorkerGoto
<1>5. /\ StatusOf(t) = "running"
      /\ StatusOf(t)' = IF IsFailure(executionMode, result'[t]) THEN "bad" ELSE "good"
    BY <1>1, <1>2, <1>3, <1>4 DEF StatusOf, IsFailure
<1>6. \A u \in Task : u # t => StatusOf(u)' = StatusOf(u)
    BY <1>1, <1>2, <1>4 DEF StatusOf, IsFailure
<1>7. Schedule!Finish(t)
    BY <1>1, <1>5, <1>6 DEF Schedule!Finish, Schedule!Become
<1> QED BY <1>5, <1>6, <1>7

\* The other steps of a worker decide nothing.
LEMMA WorkerRefines ==
    ASSUME ConInv, NEW t \in Task, LogStart(t) \/ LogEnd(t) \/ SetValue(t)
    PROVE  UNCHANGED Schedule!vars
<1>1. UNCHANGED <<registered, dependsOn, executionMode, failed, ret, starts, result>>
    BY DEF LogStart, LogEnd, SetValue, mainVars, setupVars, loopVars
<1>2. worker \in [Task -> WorkerStates]
    BY DEF ConInv, OwnTypes
<1>3. \A u \in Task : StatusOf(u)' = StatusOf(u)
    BY <1>1, <1>2 DEF LogStart, LogEnd, SetValue, WorkerGoto, StatusOf, IsFailure
<1> QED BY <1>1, <1>3 DEF Schedule!vars

\* Nor do those of its thread.
LEMMA AroundExecuteRefines ==
    ASSUME ConInv, NEW t \in Task, AroundExecute(t) \/ SpuriousWakeup(t)
    PROVE  UNCHANGED Schedule!vars
<1>1. CASE LogStart(t) \/ LogEnd(t) \/ SetValue(t)
    BY <1>1, WorkerRefines
<1>2. CASE ExecuteThrows(t) \/ WorkerReturns(t) \/ PoolStep(t) \/ SpuriousWakeup(t)
  <2>1. UNCHANGED <<mainVars, workerVars, starts>>
      BY <1>2 DEF ExecuteThrows, WorkerReturns, PoolStep, SpuriousWakeup
  <2> QED BY <2>1, ScheduleStutters DEF mainVars, setupVars, loopVars, workerVars
<1> QED BY <1>1, <1>2 DEF AroundExecute

\* Nor do these steps of the main thread.
LEMMA MainStutters ==
    ASSUME \/ \E t \in Task : BuildNode(t)
           \/ ExecuteTasks \/ BuildDone \/ VisitedAll \/ DeleteTasks
           \/ DestroyPool \/ JoinThreads
    PROVE  UNCHANGED Schedule!vars
<1>1. CASE \/ \E t \in Task : BuildNode(t)
           \/ ExecuteTasks \/ BuildDone \/ VisitedAll \/ DeleteTasks
    BY <1>1, ScheduleStutters DEF BuildNode, ExecuteTasks, BuildDone, VisitedAll, DeleteTasks,
                                  setupVars, loopVars, workerVars
<1>2. CASE DestroyPool \/ JoinThreads
    BY <1>2, OwnerMovesOn, ScheduleStutters DEF mainVars, setupVars, loopVars, workerVars
<1> QED BY <1>1, <1>2

\* The controller implements the abstract specification: every step is a step of
\* the schedule or changes nothing that the schedule is about.
THEOREM ControllerImplementsSchedule == Spec => ImplementsDependencySchedule
<1>1. ConInv /\ PartsInv /\ [Next]_vars => [Schedule!Next]_(Schedule!vars)
  <2> SUFFICES ASSUME ConInv, PartsInv, [Next]_vars PROVE [Schedule!Next]_(Schedule!vars)
      OBVIOUS
  <2>1. CASE UNCHANGED vars
      BY <2>1, ScheduleStutters DEF vars, setupVars, loopVars, workerVars
  <2>2. ASSUME NEW t \in Task, AddTask(t) PROVE Schedule!Next
      BY <2>2, AddTaskRefines DEF Schedule!Next
  <2>3. ASSUME NEW t \in Task, Visit(t) \/ ProcessResult(t)
        PROVE  [Schedule!Next]_(Schedule!vars)
      BY <2>3, VisitRefines, ProcessResultRefines DEF Schedule!Next
  <2>4. ASSUME NEW d \in Task, NEW t \in Task, BuildEdge(d, t)
        PROVE  [Schedule!Next]_(Schedule!vars)
      BY <2>4, BuildEdgeRefines DEF Schedule!Next
  <2>5. CASE LoopEnds
      BY <2>5, LoopEndsRefines DEF Schedule!Next
  <2>6. CASE \/ \E t \in Task : BuildNode(t)
             \/ ExecuteTasks \/ BuildDone \/ VisitedAll \/ DeleteTasks
             \/ DestroyPool \/ JoinThreads
      BY <2>6, MainStutters
  <2>7. ASSUME NEW t \in Task, ThreadStep(t) \/ SpuriousWakeup(t)
        PROVE  [Schedule!Next]_(Schedule!vars)
      BY <2>7, ExecuteRefines, AroundExecuteRefines DEF ThreadStep, Schedule!Next
  <2> QED BY <2>1, <2>2, <2>3, <2>4, <2>5, <2>6, <2>7 DEF Next, MainStep, Stopped
<1> QED BY <1>1, ScheduleInit, ControllerInvariant, PartsHold, PTL
        DEF Spec, Schedule!Spec, ImplementsDependencySchedule

-----------------------------------------------------------------------------
(* The whole program: each step of it is one of the controller's, or a task   *)
(* looks at what it needs.                                                    *)

PL == INSTANCE PipelineProofs
          WITH registered <- ToRegister,
               status <- [t \in Task |-> StatusOf(t)],
               stopped <- failed,
               verdict <- IF ret = "rejected" THEN "none" ELSE ret,
               skipped <- SkippedSoFar,
               seen <- SeenSoFar

\* The controller's part of a step.
LEMMA ProgramSteps ==
    ASSUME [ProgramNext]_programVars
    PROVE  [Next]_vars
<1>1. ASSUME NEW t \in Task, RegisterTask(t) \/ TaskThread(t) \/ WakeUp(t)
      PROVE  Next \/ UNCHANGED vars
    BY <1>1 DEF RegisterTask, TaskThread, LookAround, Perform, RunThread, WakeUp, Next, ThreadStep
<1>2. CASE RunTasks \/ Control \/ End
    BY <1>2 DEF RunTasks, Control, End, Next
<1> QED BY <1>1, <1>2 DEF ProgramNext, programVars

\* What is proved of the controller holds in the program.
THEOREM ProgramIsController == ProgramSpec => Spec
BY ProgramSteps, PTL DEF ProgramSpec, ProgramInit, Spec

\* The instances of the pipeline call the tasks by the same names.
LEMMA SameNames ==
    /\ PL!UDM = Table!UDM /\ Pipeline!UDM = Table!UDM
    /\ PL!Profile = Table!Profile /\ Pipeline!Profile = Table!Profile
BY DEF PL!UDM, Pipeline!UDM, Table!UDM, PL!Profile, Pipeline!Profile, Table!Profile

\* What the pipeline assumes of the names holds.
LEMMA PipelineNames ==
    /\ Task = UNION {DOMAIN Programs[p].tasks : p \in DOMAIN Programs}
    /\ PL!UDM \in Task /\ "earlier run" \notin Task
BY SameNames, ProgramAssumption, NameAssumption, Zenon

\* ... and about the same files.
LEMMA SameFiles ==
    /\ PL!Files = Table!Files /\ Pipeline!Files = Table!Files
    /\ \A t : /\ PL!Inputs(t) = Table!Inputs(t) /\ Pipeline!Inputs(t) = Table!Inputs(t)
              /\ PL!Clears(t) = Table!Clears(t) /\ Pipeline!Clears(t) = Table!Clears(t)
              /\ PL!Writes(t) = Table!Writes(t) /\ Pipeline!Writes(t) = Table!Writes(t)
              /\ Pipeline!Read(t) = Table!Read(t) /\ PL!Read(t) = Table!Read(t)
<1>1. PL!Files = Table!Files /\ Pipeline!Files = Table!Files
    BY DEF PL!Files, Pipeline!Files, Table!Files, PL!FilesOf, Pipeline!FilesOf, Table!FilesOf
<1>2. \A t : PL!Unused(t) = Table!Unused(t) /\ Pipeline!Unused(t) = Table!Unused(t)
    BY DEF PL!Unused, Pipeline!Unused, Table!Unused, PL!Dcf, Pipeline!Dcf, Table!Dcf
<1>3. PL!Pipeline = Table!Pipeline /\ Pipeline!Pipeline = Table!Pipeline
    BY DEF PL!Pipeline, Pipeline!Pipeline, Table!Pipeline
<1>4. \A t : /\ PL!Inputs(t) = Table!Inputs(t) /\ Pipeline!Inputs(t) = Table!Inputs(t)
             /\ PL!Clears(t) = Table!Clears(t) /\ Pipeline!Clears(t) = Table!Clears(t)
             /\ PL!Writes(t) = Table!Writes(t) /\ Pipeline!Writes(t) = Table!Writes(t)
    BY <1>2, <1>3 DEF PL!Inputs, Pipeline!Inputs, Table!Inputs, PL!Reads, Pipeline!Reads,
                      Table!Reads, PL!Clears, Pipeline!Clears, Table!Clears,
                      PL!Writes, Pipeline!Writes, Table!Writes
<1> QED BY <1>1, <1>4 DEF Pipeline!Read, Table!Read, PL!Read

\* A step of the pipeline is one in both instances.
LEMMA SamePipeline ==
    /\ Pipeline!Init => PL!Init
    /\ [Pipeline!Next]_(Pipeline!vars) => [PL!Next]_(PL!vars)
<1>1. Pipeline!Init => PL!Init
  <2>1. PL!Registered(options) = Pipeline!Registered(options)
      BY DEF PL!Registered, Pipeline!Registered, PL!UDM, Pipeline!UDM
  <2>2. PL!DependsOnIn(options.program) = Pipeline!DependsOnIn(options.program)
      BY SameNames DEF PL!DependsOnIn, Pipeline!DependsOnIn
  <2>3. Pipeline!DataInit => PL!DataInit
    <3> DEFINE before(files) == [f \in files |-> IF f = "gsi" THEN {"earlier run"} ELSE {}]
    <3>1. before(PL!Files) = before(Pipeline!Files)
      <4> HIDE DEF before
      <4> QED BY SameFiles
    <3> QED BY <3>1, Zenon DEF PL!DataInit, Pipeline!DataInit
  <2> QED BY <2>1, <2>2, <2>3, SameNames DEF PL!Init, Pipeline!Init
<1>2. ASSUME NEW t \in Task, Pipeline!Begin(t) PROVE PL!Begin(t)
  <2>1. PL!Schedule!Launch(t)
      BY <1>2 DEF Pipeline!Begin, PL!Schedule!Launch, Pipeline!Schedule!Launch,
                  PL!Schedule!DependenciesOf, Pipeline!Schedule!DependenciesOf,
                  PL!Schedule!Become, Pipeline!Schedule!Become
  <2>2. PL!Look(t)
      BY <1>2, SameNames, SameFiles, Zenon DEF Pipeline!Begin, PL!Look, Pipeline!Look
  <2> QED BY <2>1, <2>2 DEF PL!Begin
<1>3. ASSUME NEW t \in Task, Pipeline!End(t) PROVE PL!End(t)
  <2>1. PL!Schedule!Finish(t)
      BY <1>3 DEF Pipeline!End, PL!Schedule!Finish, Pipeline!Schedule!Finish,
                  PL!Schedule!Become, Pipeline!Schedule!Become
  <2>2. PL!ContentAfter(t) = Pipeline!ContentAfter(t)
      BY SameFiles DEF PL!ContentAfter, Pipeline!ContentAfter
  <2>3. ASSUME NEW good, Pipeline!HandOver(t, good) PROVE PL!HandOver(t, good)
      BY <2>2, <2>3, SameNames, Zenon DEF PL!HandOver, Pipeline!HandOver
  <2>4. PL!ProfileFails <=> Pipeline!ProfileFails
      BY DEF PL!ProfileFails, Pipeline!ProfileFails
  <2> QED BY <1>3, <2>1, <2>3, <2>4, SameNames, Zenon DEF PL!End, Pipeline!End
<1>4. Pipeline!Controlled => PL!Controlled
    BY DEF PL!Controlled, Pipeline!Controlled, PL!Schedule!NoticeFailure,
           Pipeline!Schedule!NoticeFailure, PL!Schedule!Conclude, Pipeline!Schedule!Conclude,
           PL!dataVars, Pipeline!dataVars
<1>5. Pipeline!Over => PL!Over
    BY DEF PL!Over, Pipeline!Over, PL!vars, Pipeline!vars, PL!scheduleVars,
           Pipeline!scheduleVars, PL!dataVars, Pipeline!dataVars
<1>6. Pipeline!Next => PL!Next
    BY <1>2, <1>3, <1>4, <1>5, SameNames DEF PL!Next, Pipeline!Next
<1>7. UNCHANGED Pipeline!vars => UNCHANGED PL!vars
    BY DEF PL!vars, Pipeline!vars, PL!scheduleVars, Pipeline!scheduleVars,
           PL!dataVars, Pipeline!dataVars
<1> QED BY <1>1, <1>6, <1>7

ChosenTable == Table!DependsOnIn(options.program)

\* What runAnalyzeMode has settled before it calls executeTasks.
Settled ==
    /\ options \in OptionChoices
    /\ registered \subseteq ToRegister
    /\ main # "setup" => registered = ToRegister
    /\ dependsOn = ChosenTable

\* A task looks between the start of execute() and its end.
Looked ==
    /\ begun \subseteq Task
    /\ \A t \in Task : t \in begun => worker[t] \notin {"none", "logStart"}
    /\ \A t \in Task : worker[t] \in {"logEnd", "setValue", "returned"} => t \in begun

\* Only UserDefinedMetricsTask finds that it has nothing to do.
OnlyUDMSkips == skipped \subseteq begun \cap {Table!UDM}

LookInv == Settled /\ Looked /\ OnlyUDMSkips

\* Nothing has been registered and nobody has looked when runAnalyzeMode is called.
LEMMA InitLookInv == ProgramInit => LookInv
<1> SUFFICES ASSUME ProgramInit PROVE LookInv
    OBVIOUS
<1>1. /\ options \in OptionChoices /\ registered = {} /\ main = "setup"
      /\ dependsOn = ChosenTable
      /\ begun = {} /\ skipped = {} /\ worker = [t \in Task |-> "none"]
    BY Zenon DEF ProgramInit, Init, Table!DataInit, ChosenTable
<1> QED BY <1>1 DEF LookInv, Settled, Looked, OnlyUDMSkips

\* What follows from the options stays.
LEMMA OptionsFixed ==
    ASSUME options' = options
    PROVE  ToRegister' = ToRegister /\ ChosenTable' = ChosenTable
<1>1. ToRegister' = ToRegister
    BY DEF ToRegister, Table!Registered
<1>2. ChosenTable' = ChosenTable
    BY DEF ChosenTable, Table!DependsOnIn
<1> QED BY <1>1, <1>2

\* Once executeTasks is called nothing is registered any more.
LEMMA SettledStays ==
    ASSUME Settled, UNCHANGED <<options, registered, dependsOn>>,
           main' # "setup" => main # "setup"
    PROVE  Settled'
<1>1. ToRegister' = ToRegister /\ ChosenTable' = ChosenTable
    BY OptionsFixed
<1> QED BY <1>1 DEF Settled

\* The steps of the main thread settle nothing; a worker that it makes has done
\* nothing.
LEMMA ControlMoves ==
    ASSUME ConInv, PartsInv, MainStep
    PROVE  /\ UNCHANGED <<registered, dependsOn, executionMode, result>>
           /\ main' # "setup" => main # "setup"
           /\ \/ worker' = worker
              \/ \E t \in Task : /\ worker[t] = "none"
                                 /\ worker' = [worker EXCEPT ![t] = "logStart"]
<1>1. CASE \/ \E t \in Task : BuildNode(t) \/ ProcessResult(t)
           \/ \E d, t \in Task : BuildEdge(d, t)
           \/ BuildDone \/ VisitedAll \/ LoopEnds \/ DeleteTasks
    BY <1>1 DEF BuildNode, ProcessResult, TakeResult, BuildEdge, BuildDone, VisitedAll, LoopEnds,
                DeleteTasks, setupVars, workerVars
<1>2. CASE DestroyPool \/ JoinThreads
    BY <1>2, OwnerMovesOn DEF mainVars, setupVars, workerVars
<1>3. ASSUME NEW t \in Task, Visit(t)
      PROVE  /\ UNCHANGED <<registered, dependsOn, executionMode, result, main>>
             /\ \/ worker' = worker
                \/ worker[t] = "none" /\ worker' = [worker EXCEPT ![t] = "logStart"]
  <2>1. CASE IsReady(t)
    <3>1. UNCHANGED <<registered, dependsOn, executionMode, main>>
        BY <1>3 DEF Visit, setupVars
    <3>2. /\ result' = result /\ worker[t] = "none"
          /\ worker' = [worker EXCEPT ![t] = "logStart"]
        BY <1>3, <2>1, ReadyTask, StartedTask
    <3> QED BY <3>1, <3>2
  <2>2. CASE ~ IsReady(t)
      BY <1>3, <2>2 DEF Visit, setupVars, workerVars
  <2> QED BY <2>1, <2>2
<1>4. CASE \E t \in Task : Visit(t)
    BY <1>3, <1>4
<1>5. MainStep => \/ \E t \in Task : BuildNode(t) \/ ProcessResult(t)
                  \/ \E d, t \in Task : BuildEdge(d, t)
                  \/ BuildDone \/ VisitedAll \/ LoopEnds \/ DeleteTasks
                  \/ DestroyPool \/ JoinThreads
                  \/ \E t \in Task : Visit(t)
    BY DEF MainStep
<1> QED BY <1>1, <1>2, <1>4, <1>5

\* Only the steps of a worker move it.
LEMMA ThreadMoves ==
    ASSUME NEW t \in Task, AroundExecute(t) \/ SpuriousWakeup(t)
    PROVE  /\ UNCHANGED mainVars
           /\ \/ worker' = worker
              \/ /\ worker[t] = "logStart"
                 /\ worker' = [worker EXCEPT ![t] = "execute"]
              \/ /\ worker[t] \in {"logEnd", "setValue"}
                 /\ \E s \in {"setValue", "returned"} : worker' = [worker EXCEPT ![t] = s]
BY DEF AroundExecute, LogStart, LogEnd, SetValue, WorkerGoto, ExecuteThrows, WorkerReturns,
       PoolStep, SpuriousWakeup, workerVars

\* A worker that goes on, from anywhere but execute(), has not looked before it
\* gets there and has looked after it.
LEMMA WorkerMovesOn ==
    ASSUME Looked, worker \in [Task -> WorkerStates], begun' = begun,
           \/ worker' = worker
           \/ \E t \in Task : /\ worker[t] = "none"
                              /\ worker' = [worker EXCEPT ![t] = "logStart"]
           \/ \E t \in Task : /\ worker[t] = "logStart"
                              /\ worker' = [worker EXCEPT ![t] = "execute"]
           \/ \E t \in Task : /\ worker[t] \in {"logEnd", "setValue"}
                              /\ \E s \in {"setValue", "returned"} :
                                     worker' = [worker EXCEPT ![t] = s]
    PROVE  Looked'
BY DEF Looked

\* Every step keeps this.
LEMMA NextLookInv ==
    ASSUME ConInv, PartsInv, LookInv, [ProgramNext]_programVars
    PROVE  LookInv'
<1>1. worker \in [Task -> WorkerStates] /\ Settled /\ Looked /\ OnlyUDMSkips
    BY DEF ConInv, OwnTypes, LookInv
<1>2. ASSUME UNCHANGED <<skipped, begun>> PROVE OnlyUDMSkips'
    BY <1>1, <1>2 DEF OnlyUDMSkips, Table!UDM
<1>3. ASSUME UNCHANGED <<worker, begun>> PROVE Looked'
    BY <1>1, <1>3 DEF Looked
<1>4. ASSUME NEW t \in Task, RegisterTask(t) PROVE LookInv'
  <2>1. /\ t \in ToRegister /\ registered' = registered \cup {t} /\ main = "setup"
        /\ UNCHANGED <<dependsOn, main, worker, options, skipped, begun>>
      BY <1>4 DEF RegisterTask, AddTask, workerVars, dataVars
  <2>2. ToRegister' = ToRegister /\ ChosenTable' = ChosenTable
      BY <2>1, OptionsFixed
  <2>3. Settled'
      BY <1>1, <2>1, <2>2 DEF Settled
  <2> QED BY <1>2, <1>3, <2>1, <2>3 DEF LookInv
<1>5. CASE RunTasks
  <2>1. /\ registered = ToRegister
        /\ UNCHANGED <<registered, dependsOn, worker, options, skipped, begun>>
      BY <1>5 DEF RunTasks, ExecuteTasks, setupVars, workerVars, dataVars
  <2>2. ToRegister' = ToRegister /\ ChosenTable' = ChosenTable
      BY <2>1, OptionsFixed
  <2>3. Settled'
      BY <1>1, <2>1, <2>2 DEF Settled
  <2> QED BY <1>2, <1>3, <2>1, <2>3 DEF LookInv
<1>6. CASE Control
  <2>1. UNCHANGED <<options, skipped, begun>> /\ MainStep
      BY <1>6 DEF Control, dataVars
  <2>2. Settled'
      BY <1>1, <2>1, ControlMoves, SettledStays
  <2>3. Looked'
      BY <1>1, <2>1, ControlMoves, WorkerMovesOn
  <2> QED BY <1>2, <2>1, <2>2, <2>3 DEF LookInv
<1>7. ASSUME NEW t \in Task, RunThread(t) \/ WakeUp(t) PROVE LookInv'
  <2>1. UNCHANGED <<options, skipped, begun>> /\ (AroundExecute(t) \/ SpuriousWakeup(t))
      BY <1>7 DEF RunThread, WakeUp, dataVars
  <2>2. UNCHANGED <<registered, dependsOn, main>>
      BY <2>1, ThreadMoves DEF mainVars, setupVars
  <2>3. Settled'
      BY <1>1, <2>1, <2>2, SettledStays
  <2>4. Looked'
      BY <1>1, <2>1, ThreadMoves, WorkerMovesOn
  <2> QED BY <1>2, <2>1, <2>3, <2>4 DEF LookInv
<1>8. ASSUME NEW t \in Task, LookAround(t) PROVE LookInv'
  <2>1. /\ UNCHANGED <<options, registered, dependsOn, main, worker>>
        /\ begun' = begun \cup {t} /\ worker[t] = "execute"
        /\ (skipped' = skipped \/ (t = Table!UDM /\ skipped' = skipped \cup {t}))
      BY <1>8 DEF LookAround, MayLook, Table!Look, vars, setupVars, workerVars
  <2>2. Settled'
      BY <1>1, <2>1, SettledStays
  <2>3. Looked'
      BY <1>1, <2>1 DEF Looked
  <2>4. OnlyUDMSkips'
      BY <1>1, <2>1 DEF OnlyUDMSkips, Table!UDM
  <2> QED BY <2>2, <2>3, <2>4 DEF LookInv
<1>9. ASSUME NEW t \in Task, Perform(t) PROVE LookInv'
  <2>1. /\ UNCHANGED <<options, registered, dependsOn, main, skipped, begun>> /\ t \in begun
        /\ worker' = [worker EXCEPT ![t] = "logEnd"]
      BY <1>9 DEF Perform, Execute, WorkerGoto, Table!HandOver, mainVars, setupVars
  <2>2. Settled'
      BY <1>1, <2>1, SettledStays
  <2>3. Looked'
      BY <1>1, <2>1 DEF Looked
  <2> QED BY <1>2, <2>1, <2>2, <2>3 DEF LookInv
<1>10. CASE UNCHANGED programVars \/ End
  <2>1. UNCHANGED <<options, registered, dependsOn, main, worker, skipped, begun>>
      BY <1>10 DEF programVars, vars, setupVars, workerVars, dataVars, End, Stopped
  <2>2. Settled'
      BY <1>1, <2>1, SettledStays
  <2> QED BY <1>2, <1>3, <2>1, <2>2 DEF LookInv
<1> QED BY <1>4, <1>5, <1>6, <1>7, <1>8, <1>9, <1>10 DEF ProgramNext, TaskThread

\* Whose work may be in a file.
Origins == Task \cup {"earlier run"}

\* The types of what is handed over.
DataTypes == /\ runUDM \in BOOLEAN
             /\ content \in [Table!Files -> SUBSET Origins]
             /\ seen \in [Task -> SUBSET Origins]

\* A registered task reads and writes files of the table.
LEMMA FilesOfTable ==
    ASSUME Settled, NEW t \in registered
    PROVE  Table!Inputs(t) \subseteq Table!Files
<1>1. options.program \in DOMAIN Programs /\ t \in DOMAIN Programs[options.program].tasks
    BY OptionAssumption DEF Settled, ToRegister, Table!Registered
<1>2. Table!FilesOf(Table!Pipeline[t]) \subseteq Table!Files
    BY <1>1 DEF Table!Files, Table!Pipeline
<1> QED BY <1>2 DEF Table!FilesOf, Table!Inputs, Table!Reads

\* The files are empty but for the genealogy of an earlier run.
LEMMA InitDataTypes == ProgramInit => DataTypes
<1> SUFFICES ASSUME ProgramInit PROVE DataTypes
    OBVIOUS
<1>1. options.runUDM \in BOOLEAN
    BY OptionAssumption DEF ProgramInit
<1>2. /\ runUDM = options.runUDM
      /\ content = [f \in Table!Files |-> IF f = "gsi" THEN {"earlier run"} ELSE {}]
      /\ seen = [t \in Task |-> {}]
    BY SameNames, Zenon DEF ProgramInit, Table!DataInit
<1>3. {"earlier run"} \in SUBSET Origins /\ {} \in SUBSET Origins
    BY DEF Origins
<1>4. content \in [Table!Files -> SUBSET Origins]
    BY <1>2, <1>3, Zenon
<1> QED BY <1>1, <1>2, <1>3, <1>4, Zenon DEF DataTypes

\* Every step keeps the types.
LEMMA NextDataTypes ==
    ASSUME ConInv, LookInv, DataTypes, [ProgramNext]_programVars
    PROVE  DataTypes'
<1>1. ASSUME UNCHANGED <<runUDM, content, seen>> PROVE DataTypes'
    BY <1>1 DEF DataTypes, Table!Files
<1>2. ASSUME NEW t \in Task, LookAround(t) PROVE DataTypes'
  <2>1. t \in registered
    <3>1. worker[t] # "none"
        BY <1>2 DEF LookAround, MayLook
    <3> QED BY <3>1 DEF ConInv, WorkersFollow, OwnTypes
  <2>2. \A f \in Table!Inputs(t) : content[f] \subseteq Origins
      BY <2>1, FilesOfTable DEF DataTypes, LookInv
  <2>3. Table!Read(t) \in SUBSET Origins
      BY <2>2 DEF Table!Read
  <2>4. /\ UNCHANGED <<runUDM, content>>
        /\ (seen' = seen \/ seen' = [seen EXCEPT ![t] = Table!Read(t)])
      BY <1>2 DEF LookAround, Table!Look
  <2> QED BY <2>3, <2>4 DEF DataTypes, Table!Files
<1>3. ASSUME NEW t \in Task, Perform(t) PROVE DataTypes'
  <2>1. options.profileHasUDM \in BOOLEAN
      BY OptionAssumption DEF LookInv, Settled
  <2>2. Table!ContentAfter(t) \in [Table!Files -> SUBSET Origins]
    <3>1. t \in Origins
        BY Zenon DEF Origins
    <3> QED BY <3>1 DEF DataTypes, Table!ContentAfter
  <2>3. /\ content' \in {content, Table!ContentAfter(t)}
        /\ runUDM' \in {runUDM, options.profileHasUDM}
        /\ seen' = seen
      BY <1>3 DEF Perform, Table!HandOver
  <2> QED BY <2>1, <2>2, <2>3 DEF DataTypes, Table!Files
<1>4. ASSUME \/ \E t \in Task : RegisterTask(t) \/ RunThread(t) \/ WakeUp(t)
             \/ RunTasks \/ Control \/ End \/ UNCHANGED programVars
      PROVE  UNCHANGED <<runUDM, content, seen>>
    BY <1>4 DEF RegisterTask, RunThread, WakeUp, RunTasks, Control, End, programVars, dataVars
<1> QED BY <1>1, <1>2, <1>3, <1>4 DEF ProgramNext, TaskThread

\* The invariant of the program's own variables.
LEMMA ProgramInvariant == ProgramSpec => [](ConInv /\ PartsInv /\ LookInv /\ DataTypes)
<1>1. ProgramSpec => [](ConInv /\ PartsInv)
    BY ProgramIsController, ControllerInvariant, PartsHold, PTL
<1>2. ConInv /\ PartsInv /\ LookInv /\ [ProgramNext]_programVars => LookInv'
    BY NextLookInv
<1>3. ConInv /\ LookInv /\ DataTypes /\ [ProgramNext]_programVars => DataTypes'
    BY NextDataTypes
<1> QED BY <1>1, <1>2, <1>3, InitLookInv, InitDataTypes, PTL DEF ProgramSpec

\* All variables of the program keep their types, only started tasks have looked
\* at anything, and only UserDefinedMetricsTask finds that it has nothing to do.
THEOREM ProgramTypeCorrect == ProgramSpec => []ProgramTypeOK
<1>1. ASSUME ConInv, LookInv PROVE begun \subseteq Started
    BY <1>1 DEF ConInv, WorkersFollow, OwnTypes, LookInv, Looked, Started
<1>2. ASSUME TypeOK, ConInv, LookInv, DataTypes PROVE ProgramTypeOK
    BY <1>1, <1>2, Zenon DEF LookInv, Settled, OnlyUDMSkips, DataTypes, Origins, ProgramTypeOK
<1> QED BY <1>2, ProgramInvariant, ProgramIsController, ControllerTypeCorrect, PTL

-----------------------------------------------------------------------------
(* The program implements AnalysisPipeline where the table is in order. *)

\* The options decide which files a task reads.
LEMMA InputsFixed ==
    ASSUME options' = options
    PROVE  \A t : Table!Inputs(t)' = Table!Inputs(t)
BY DEF Table!Inputs, Table!Reads, Table!Pipeline, Table!Unused, Table!Dcf

\* What a task finds stays as long as nobody changes the files it reads.
LEMMA ReadStays ==
    ASSUME options' = options, NEW t, \A f \in Table!Inputs(t) : content'[f] = content[f]
    PROVE  Table!Read(t)' = Table!Read(t)
<1>1. Table!Inputs(t)' = Table!Inputs(t)
    BY InputsFixed
<1> QED BY <1>1 DEF Table!Read

\* A pending task keeps what it is going to find, the others what they found.
LEMMA SightStays ==
    ASSUME options' = options, UNCHANGED <<skipped, seen, begun>>,
           \A t \in Task : StatusOf(t)' = "running" <=> StatusOf(t) = "running",
           \A t \in Task : Pending(t) /\ t = Table!UDM => runUDM' = runUDM,
           \A t \in Task : Pending(t) /\ ~ (t = Table!UDM /\ ~ runUDM)
               => \A f \in Table!Inputs(t) : content'[f] = content[f]
    PROVE  SkippedSoFar' = SkippedSoFar /\ SeenSoFar' = SeenSoFar
<1>1. \A t \in Task : Pending(t)' <=> Pending(t)
    BY DEF Pending
<1>2. SkippedSoFar' = SkippedSoFar
    BY <1>1 DEF SkippedSoFar, Table!UDM
<1>3. ASSUME NEW t \in Task
      PROVE  (IF Pending(t) /\ ~ (t = Table!UDM /\ ~ runUDM) THEN Table!Read(t) ELSE seen[t])'
               = IF Pending(t) /\ ~ (t = Table!UDM /\ ~ runUDM) THEN Table!Read(t) ELSE seen[t]
  <2>1. CASE Pending(t) /\ ~ (t = Table!UDM /\ ~ runUDM)
    <3>1. Table!Read(t)' = Table!Read(t)
        BY <2>1, ReadStays
    <3> QED BY <1>1, <2>1, <3>1 DEF Table!UDM
  <2>2. CASE ~ (Pending(t) /\ ~ (t = Table!UDM /\ ~ runUDM))
      BY <1>1, <2>2 DEF Table!UDM
  <2> QED BY <2>1, <2>2
<1>4. SeenSoFar' = SeenSoFar
    BY <1>3 DEF SeenSoFar
<1> QED BY <1>2, <1>4

\* A step that neither moves a task nor touches the data changes nothing that the
\* pipeline is about.
LEMMA PipelineStutters ==
    ASSUME UNCHANGED <<options, runUDM, skipped, content, seen, begun, dependsOn, failed>>,
           \A t \in Task : StatusOf(t)' = StatusOf(t),
           ret' = ret \/ (ret = "none" /\ ret' = "rejected")
    PROVE  UNCHANGED Pipeline!vars
<1>1. SkippedSoFar' = SkippedSoFar /\ SeenSoFar' = SeenSoFar
    BY SightStays
<1>2. ToRegister' = ToRegister
    BY OptionsFixed
<1>3. UNCHANGED [t \in Task |-> StatusOf(t)]
    OBVIOUS
<1>4. UNCHANGED (IF ret = "rejected" THEN "none" ELSE ret)
    OBVIOUS
<1> QED BY <1>1, <1>2, <1>3, <1>4
        DEF Pipeline!vars, Pipeline!scheduleVars, Pipeline!dataVars

\* What the schedule says of a step.
LEMMA ScheduleSteps ==
    /\ UNCHANGED Schedule!vars
          => /\ UNCHANGED <<registered, dependsOn, failed, ret>>
             /\ \A t \in Task : StatusOf(t)' = StatusOf(t)
    /\ \A t \in Task : Schedule!Launch(t)
          => /\ ret = "none" /\ ~ failed /\ t \in registered /\ StatusOf(t) = "waiting"
             /\ \A d \in DependenciesOf(t) : d \in Task => StatusOf(d) = "good"
             /\ StatusOf(t)' = "running"
             /\ \A u \in Task : u # t => StatusOf(u)' = StatusOf(u)
             /\ UNCHANGED <<registered, dependsOn, failed, ret>>
<1> DEFINE st == [t \in Task |-> StatusOf(t)]
<1>1. \A t \in Task : st[t] = StatusOf(t)
    OBVIOUS
<1>2. \A t \in Task : st'[t] = StatusOf(t)'
    OBVIOUS
<1>3. ASSUME UNCHANGED Schedule!vars
      PROVE  /\ UNCHANGED <<registered, dependsOn, failed, ret>>
             /\ st' = st
    BY <1>3 DEF Schedule!vars
<1>4. ASSUME NEW t \in Task, Schedule!Launch(t)
      PROVE  /\ ret = "none" /\ ~ failed /\ t \in registered /\ st[t] = "waiting"
             /\ \A d \in DependenciesOf(t) : st[d] = "good"
             /\ st' = [st EXCEPT ![t] = "running"]
             /\ UNCHANGED <<registered, dependsOn, failed, ret>>
    BY <1>4 DEF Schedule!Launch, Schedule!Become, Schedule!DependenciesOf, DependenciesOf
<1>5. DOMAIN st = Task
    OBVIOUS
<1> HIDE DEF st
<1> QED BY <1>1, <1>2, <1>3, <1>4, <1>5

\* A task that is started is pending: it has not looked yet, and what it is
\* going to find is what the pipeline lets it read.
LEMMA VisitBegins ==
    ASSUME ConInv, PartsInv, LookInv, NEW t \in Task, Visit(t), UNCHANGED dataVars
    PROVE  Pipeline!Begin(t) \/ UNCHANGED Pipeline!vars
<1>1. UNCHANGED <<options, runUDM, skipped, content, seen, begun>>
    BY DEF dataVars
<1>2. CASE UNCHANGED Schedule!vars
    BY <1>1, <1>2, ScheduleSteps, PipelineStutters
<1>3. CASE Schedule!Start(t)
  <2>1. Schedule!Launch(t)
      BY <1>3 DEF Schedule!Start
  <2>2. /\ ret = "none" /\ ~ failed /\ t \in registered /\ StatusOf(t) = "waiting"
        /\ StatusOf(t)' = "running"
        /\ \A u \in Task : u # t => StatusOf(u)' = StatusOf(u)
        /\ UNCHANGED <<registered, dependsOn, failed, ret>>
      BY <2>1, ScheduleSteps
  <2>3. registered = ToRegister /\ ToRegister' = ToRegister
      BY <1>1, OptionsFixed DEF Visit, LookInv, Settled
  <2>4. Pipeline!Schedule!Launch(t)
      BY <2>1, <2>2, <2>3 DEF Schedule!Launch, Schedule!Become, Schedule!DependenciesOf,
         Pipeline!Schedule!Launch, Pipeline!Schedule!Become, Pipeline!Schedule!DependenciesOf
  <2>5. t \notin begun
    <3>1. worker[t] = "none"
        BY <2>2 DEF StatusOf, ConInv, WorkersFollow
    <3> QED BY <3>1 DEF LookInv, Looked
  <2>6. ~ Pending(t) /\ Pending(t)' /\ \A u \in Task : u # t => (Pending(u)' <=> Pending(u))
      BY <1>1, <2>2, <2>5 DEF Pending
  <2>7. \A u \in Task : Table!Read(u)' = Table!Read(u)
      BY <1>1, ReadStays
  <2>8. CASE t = Table!UDM /\ ~ runUDM
    <3>1. SkippedSoFar' = SkippedSoFar \cup {t}
        BY <1>1, <2>6, <2>8 DEF SkippedSoFar, Table!UDM
    <3>2. SeenSoFar' = SeenSoFar
        BY <1>1, <2>6, <2>7, <2>8 DEF SeenSoFar, Table!UDM
    <3> QED BY <1>1, <2>4, <2>8, <3>1, <3>2, SameNames DEF Pipeline!Begin, Pipeline!Look
  <2>9. CASE ~ (t = Table!UDM /\ ~ runUDM)
    <3>1. SkippedSoFar' = SkippedSoFar
        BY <1>1, <2>6, <2>9 DEF SkippedSoFar, Table!UDM
    <3>2. SeenSoFar' = [SeenSoFar EXCEPT ![t] = Table!Read(t)]
        BY <1>1, <2>6, <2>7, <2>9 DEF SeenSoFar, Table!UDM
    <3> QED BY <1>1, <2>4, <2>9, <3>1, <3>2, SameNames, SameFiles
            DEF Pipeline!Begin, Pipeline!Look
  <2> QED BY <2>8, <2>9
<1> QED BY <1>2, <1>3, VisitRefines

\* When a task has looked it has seen what it was going to find.
LEMMA LookStutters ==
    ASSUME ConInv, DataTypes, NEW t \in Task, LookAround(t)
    PROVE  UNCHANGED Pipeline!vars
<1>1. /\ UNCHANGED <<vars, options, runUDM, content>> /\ t \notin begun
      /\ begun' = begun \cup {t} /\ worker[t] = "execute"
      /\ IF t = Table!UDM /\ ~ runUDM
         THEN skipped' = skipped \cup {t} /\ seen' = seen
         ELSE seen' = [seen EXCEPT ![t] = Table!Read(t)] /\ skipped' = skipped
    BY DEF LookAround, MayLook, Table!Look
<1>2. UNCHANGED <<registered, dependsOn, executionMode, starts, worker, result, failed, ret>>
    BY <1>1 DEF vars, setupVars, loopVars, workerVars
<1>3. \A u \in Task : StatusOf(u)' = StatusOf(u)
    BY <1>2 DEF StatusOf, IsFailure
<1>4. StatusOf(t) = "running"
    BY <1>1 DEF StatusOf, ConInv, OwnTypes, WorkersFollow
<1>5. Pending(t) /\ ~ Pending(t)' /\ \A u \in Task : u # t => (Pending(u)' <=> Pending(u))
    BY <1>1, <1>3, <1>4 DEF Pending
<1>6. \A u \in Task : Table!Read(u)' = Table!Read(u)
    BY <1>1, ReadStays
<1>7. SkippedSoFar' = SkippedSoFar
    BY <1>1, <1>5 DEF SkippedSoFar, Table!UDM
<1>8. SeenSoFar' = SeenSoFar
    BY <1>1, <1>5, <1>6 DEF SeenSoFar, DataTypes, Table!UDM
<1>9. ToRegister' = ToRegister
    BY <1>1, OptionsFixed
<1>10. UNCHANGED [u \in Task |-> StatusOf(u)]
    BY <1>3
<1>11. UNCHANGED (IF ret = "rejected" THEN "none" ELSE ret)
    BY <1>2
<1> QED BY <1>1, <1>2, <1>7, <1>8, <1>9, <1>10, <1>11
        DEF Pipeline!vars, Pipeline!scheduleVars, Pipeline!dataVars

\* What the table must say for the program to work as the pipeline does: a task
\* may look long after its start, so nobody may change meanwhile what it needs.
TableSafe == PL!ConflictsOrdered /\ PL!ProfileBeforeUDM

PipelineInv == PL!TypeOK /\ PL!OrderInv /\ TableSafe

\* A task that runs, seen from the pipeline.
LEMMA RunningTasks ==
    ASSUME ConInv, LookInv, NEW t \in Task, StatusOf(t) = "running"
    PROVE  t \in registered /\ t \in ToRegister /\ t \in PL!Running /\ t \in PL!Begun
<1>1. t \in registered
    BY DEF StatusOf, ConInv, WorkersFollow, OwnTypes
<1>2. t \in ToRegister
    BY <1>1 DEF LookInv, Settled
<1>3. [u \in Task |-> StatusOf(u)][t] = "running"
    OBVIOUS
<1> QED BY <1>1, <1>2, <1>3, SameNames DEF PL!Running, PL!Begun

\* While t runs, the files that a pending task is going to read do not change.
LEMMA FilesOfPending ==
    ASSUME ConInv, LookInv, DataTypes, PipelineInv,
           NEW t \in Task, StatusOf(t) = "running", t \in begun, t \notin skipped,
           NEW u \in Task, Pending(u), ~ (u = Table!UDM /\ ~ runUDM),
           NEW f \in Table!Inputs(u)
    PROVE  Table!ContentAfter(t)[f] = content[f]
<1>1. PL!RaceFree
    BY PL!RaceFreedom, PipelineNames, OptionAssumption, Zenon DEF PipelineInv, TableSafe
<1>2. u # t /\ u \in PL!Running /\ t \in PL!Running /\ u \in registered
    BY RunningTasks DEF Pending
<1>3. t \notin SkippedSoFar /\ u \notin SkippedSoFar
    BY DEF SkippedSoFar, Pending, LookInv, OnlyUDMSkips
<1>4. PL!Modified(t) = Table!Clears(t) \cup Table!Writes(t)
    BY <1>3, SameFiles DEF PL!Modified
<1>5. f \in PL!Touched(u)
    BY <1>3, SameFiles DEF PL!Touched
<1>6. f \notin Table!Clears(t) /\ f \notin Table!Writes(t)
    BY <1>1, <1>2, <1>4, <1>5 DEF PL!RaceFree
<1>7. f \in Table!Files
    BY <1>2, FilesOfTable DEF LookInv
<1> QED BY <1>6, <1>7 DEF Table!ContentAfter

\* ... nor does the switch that UserDefinedMetricsTask is going to look at:
\* ProfileTask has ended before.
LEMMA SwitchOfPending ==
    ASSUME ConInv, LookInv, PipelineInv,
           Table!UDM \in Task, Pending(Table!UDM), ~ options.runUDMExplicit
    PROVE  StatusOf(Table!Profile) # "running" \/ Table!Profile \notin Task
<1> DEFINE st == [u \in Task |-> StatusOf(u)]
<1> SUFFICES ASSUME Table!Profile \in Task PROVE StatusOf(Table!Profile) # "running"
    OBVIOUS
<1>1. PL!UDM \in ToRegister /\ PL!UDM \in PL!Begun
    BY RunningTasks, SameNames DEF Pending
<1>2. PL!WaitsFor(PL!UDM, PL!Profile)
    BY <1>1 DEF PipelineInv, TableSafe, PL!ProfileBeforeUDM
<1>3. st[PL!Profile] = "good"
    BY <1>1, <1>2, PL!GoodBefore, PipelineNames, OptionAssumption, Zenon DEF PipelineInv
<1> QED BY <1>3, SameNames

\* What a task hands over when execute() returns is what the pipeline says, and
\* no pending task is disturbed.
LEMMA PerformEnds ==
    ASSUME ConInv, LookInv, DataTypes, PipelineInv, NEW t \in Task, Perform(t)
    PROVE  Pipeline!End(t)
<1> DEFINE good == ~ IsFailure(executionMode, result'[t])
<1>1. /\ Execute(t) /\ t \in begun
      /\ t = Table!Profile /\ Table!ProfileFails => result'[t].criticalError
      /\ content' = IF good /\ t \notin skipped THEN Table!ContentAfter(t) ELSE content
      /\ runUDM' = IF good /\ t = Table!Profile /\ ~ options.runUDMExplicit
                   THEN options.profileHasUDM ELSE runUDM
      /\ UNCHANGED <<options, skipped, seen, begun>>
    BY DEF Perform, Table!HandOver
<1>2. /\ Schedule!Finish(t)
      /\ StatusOf(t) = "running"
      /\ StatusOf(t)' = IF good THEN "good" ELSE "bad"
      /\ \A u \in Task : u # t => StatusOf(u)' = StatusOf(u)
    BY <1>1, ExecuteRefines
<1> HIDE DEF good
<1>3. ~ Pending(t) /\ ~ Pending(t)' /\ \A u \in Task : u # t => (Pending(u)' <=> Pending(u))
    BY <1>1, <1>2 DEF Pending
<1>4. \A u \in Task : Pending(u) /\ ~ (u = Table!UDM /\ ~ runUDM)
          => Table!Read(u)' = Table!Read(u)
  <2> SUFFICES ASSUME NEW u \in Task, Pending(u), ~ (u = Table!UDM /\ ~ runUDM)
               PROVE  Table!Read(u)' = Table!Read(u)
      OBVIOUS
  <2>1. \A f \in Table!Inputs(u) : content'[f] = content[f]
      BY <1>1, <1>2, FilesOfPending
  <2> QED BY <1>1, <2>1, ReadStays
<1>5. \A u \in Task : Pending(u) /\ u = Table!UDM => runUDM' = runUDM
    BY <1>1, <1>2, SwitchOfPending
<1>6. SkippedSoFar' = SkippedSoFar
    BY <1>1, <1>3, <1>5 DEF SkippedSoFar, Table!UDM
<1>7. SeenSoFar' = SeenSoFar
    BY <1>1, <1>3, <1>4, <1>5 DEF SeenSoFar, Table!UDM
<1>8. SeenSoFar[t] = seen[t] /\ (t \in SkippedSoFar <=> t \in skipped)
    BY <1>3 DEF SeenSoFar, SkippedSoFar
<1>9. Pipeline!ContentAfter(t) = Table!ContentAfter(t)
    BY <1>8, SameFiles DEF Pipeline!ContentAfter, Table!ContentAfter
<1>10. Pipeline!HandOver(t, good)
    BY <1>1, <1>6, <1>7, <1>8, <1>9, SameNames DEF Pipeline!HandOver
<1>11. ToRegister' = ToRegister
    BY <1>1, OptionsFixed
<1>12. Pipeline!Schedule!Finish(t)
    BY <1>2, <1>11 DEF Schedule!Finish, Schedule!Become,
                      Pipeline!Schedule!Finish, Pipeline!Schedule!Become
<1>13. [u \in Task |-> StatusOf(u)]'[t] = StatusOf(t)'
    OBVIOUS
<1>14. t = Pipeline!Profile /\ Pipeline!ProfileFails => ~ good
    BY <1>1, SameNames DEF Pipeline!ProfileFails, Table!ProfileFails, IsFailure, good
<1>15. good \in BOOLEAN
    BY DEF good
<1> QED BY <1>2, <1>10, <1>12, <1>13, <1>14, <1>15 DEF Pipeline!End

\* When no task moves and no data is touched, the sight of the tasks stays.
LEMMA DataStays ==
    ASSUME UNCHANGED <<options, runUDM, skipped, content, seen, begun>>,
           \A t \in Task : StatusOf(t)' = StatusOf(t)
    PROVE  /\ UNCHANGED <<options, Pipeline!dataVars>>
           /\ ToRegister' = ToRegister
<1>1. SkippedSoFar' = SkippedSoFar /\ SeenSoFar' = SeenSoFar
    BY SightStays
<1>2. ToRegister' = ToRegister
    BY OptionsFixed
<1> QED BY <1>1, <1>2 DEF Pipeline!dataVars

\* The main thread's own decisions are those of the pipeline; that a table is
\* rejected the pipeline need not know, because nothing begins then.
LEMMA ControlRefines ==
    ASSUME ConInv, PartsInv, LookInv, Control
    PROVE  Pipeline!Next \/ UNCHANGED Pipeline!vars
<1>1. MainStep /\ UNCHANGED dataVars /\ UNCHANGED <<options, runUDM, skipped, content, seen, begun>>
    BY DEF Control, dataVars
<1>2. ASSUME UNCHANGED Schedule!vars PROVE UNCHANGED Pipeline!vars
    BY <1>1, <1>2, ScheduleSteps, PipelineStutters
<1> DEFINE st == [t \in Task |-> StatusOf(t)]
<1>3. ASSUME st' = st PROVE \A t \in Task : StatusOf(t)' = StatusOf(t)
  <2>1. \A t \in Task : st[t] = StatusOf(t) /\ st'[t] = StatusOf(t)'
      OBVIOUS
  <2> HIDE DEF st
  <2> QED BY <1>3, <2>1
<1>4. ASSUME Schedule!Reject PROVE UNCHANGED Pipeline!vars
  <2>1. ret = "none" /\ ret' = "rejected" /\ st' = st /\ UNCHANGED <<dependsOn, failed>>
      BY <1>4 DEF Schedule!Reject
  <2> QED BY <1>1, <1>3, <2>1, PipelineStutters
<1>5. ASSUME Schedule!NoticeFailure PROVE Pipeline!Controlled
  <2>1. /\ \E t \in registered : st[t] = "bad"
        /\ failed' = TRUE /\ st' = st /\ UNCHANGED <<dependsOn, ret>>
      BY <1>5 DEF Schedule!NoticeFailure
  <2>2. UNCHANGED <<options, Pipeline!dataVars>> /\ ToRegister' = ToRegister
      BY <1>1, <1>3, <2>1, DataStays
  <2>3. registered \subseteq ToRegister
      BY DEF LookInv, Settled
  <2>4. Pipeline!Schedule!NoticeFailure
      BY <2>1, <2>2, <2>3 DEF Pipeline!Schedule!NoticeFailure
  <2> QED BY <2>2, <2>4 DEF Pipeline!Controlled
<1>6. ASSUME LoopEnds PROVE Pipeline!Controlled
  <2>1. /\ ret = "none" /\ ret' = IF failed THEN "failure" ELSE "success"
        /\ failed => \A t \in registered : st[t] # "running"
        /\ ~ failed => \A t \in registered : st[t] = "good"
        /\ st' = st /\ UNCHANGED <<dependsOn, failed>>
      BY <1>6, LoopEndsRefines DEF Schedule!Conclude
  <2>2. UNCHANGED <<options, Pipeline!dataVars>> /\ ToRegister' = ToRegister
      BY <1>1, <1>3, <2>1, DataStays
  <2>3. registered = ToRegister
      BY <1>6 DEF LoopEnds, LookInv, Settled
  <2>4. Pipeline!Schedule!Conclude
      BY <2>1, <2>2, <2>3 DEF Pipeline!Schedule!Conclude
  <2> QED BY <2>2, <2>4 DEF Pipeline!Controlled
<1>7. ASSUME NEW t \in Task, Visit(t) \/ ProcessResult(t) \/ BuildNode(t)
      PROVE  Pipeline!Next \/ UNCHANGED Pipeline!vars
    BY <1>1, <1>2, <1>5, <1>7, VisitBegins, ProcessResultRefines, MainStutters, SameNames
       DEF Pipeline!Next
<1>8. ASSUME NEW d \in Task, NEW t \in Task, BuildEdge(d, t)
      PROVE  UNCHANGED Pipeline!vars
    BY <1>2, <1>4, <1>8, BuildEdgeRefines
<1>9. CASE BuildDone \/ VisitedAll \/ DeleteTasks \/ DestroyPool \/ JoinThreads
    BY <1>2, <1>9, MainStutters
<1> QED BY <1>1, <1>6, <1>7, <1>8, <1>9 DEF MainStep, Pipeline!Next

\* Every step of the program is a step of the pipeline or changes nothing that
\* the pipeline is about.
LEMMA ProgramRefines ==
    ASSUME ConInv, PartsInv, LookInv, DataTypes, PipelineInv, [ProgramNext]_programVars
    PROVE  [Pipeline!Next]_(Pipeline!vars)
<1>1. ASSUME UNCHANGED Schedule!vars, UNCHANGED dataVars PROVE UNCHANGED Pipeline!vars
    BY <1>1, ScheduleSteps, PipelineStutters DEF dataVars
<1>2. ASSUME NEW t \in Task, RegisterTask(t) PROVE UNCHANGED Pipeline!vars
  <2>1. /\ UNCHANGED dataVars
        /\ UNCHANGED <<dependsOn, executionMode, starts, worker, result, failed, ret>>
      BY <1>2 DEF RegisterTask, AddTask, loopVars, workerVars
  <2>2. \A u \in Task : StatusOf(u)' = StatusOf(u)
      BY <2>1 DEF StatusOf, IsFailure
  <2> QED BY <2>1, <2>2, PipelineStutters DEF dataVars
<1>3. CASE RunTasks
    BY <1>1, <1>3, MainStutters DEF RunTasks
<1>4. CASE Control
    BY <1>4, ControlRefines
<1>5. ASSUME NEW t \in Task, RunThread(t) \/ WakeUp(t) PROVE UNCHANGED Pipeline!vars
    BY <1>1, <1>5, AroundExecuteRefines DEF RunThread, WakeUp
<1>6. ASSUME NEW t \in Task, LookAround(t) PROVE UNCHANGED Pipeline!vars
    BY <1>6, LookStutters
<1>7. ASSUME NEW t \in Task, Perform(t) PROVE Pipeline!Next
    BY <1>7, PerformEnds, SameNames DEF Pipeline!Next
<1>8. CASE UNCHANGED programVars \/ End
  <2>1. UNCHANGED <<vars, dataVars>>
      BY <1>8 DEF programVars, End, Stopped
  <2> QED BY <1>1, <2>1, ScheduleStutters DEF vars, setupVars, loopVars, workerVars
<1> QED BY <1>2, <1>3, <1>4, <1>5, <1>6, <1>7, <1>8 DEF ProgramNext, TaskThread

\* A run of the program begins where one of the pipeline begins.
LEMMA ProgramInitRefines == ProgramInit => Pipeline!Init
<1> SUFFICES ASSUME ProgramInit PROVE Pipeline!Init
    OBVIOUS
<1>1. /\ Init /\ options \in OptionChoices /\ dependsOn = ChosenTable
      /\ runUDM = options.runUDM /\ skipped = {} /\ seen = [t \in Task |-> {}]
    BY SameNames, Zenon DEF ProgramInit, Table!DataInit, ChosenTable
<1>2. /\ failed = FALSE /\ ret = "none" /\ \A t \in Task : StatusOf(t) = "waiting"
    BY <1>1 DEF Init, StatusOf
<1>3. \A t \in Task : ~ Pending(t)
    BY <1>2 DEF Pending
<1>4. SkippedSoFar = {} /\ SeenSoFar = [t \in Task |-> {}]
    BY <1>1, <1>3 DEF SkippedSoFar, SeenSoFar
<1>5. content = [f \in Pipeline!Files |-> IF f = "gsi" THEN {"earlier run"} ELSE {}]
  <2> DEFINE before(files) == [f \in files |-> IF f = "gsi" THEN {"earlier run"} ELSE {}]
  <2>1. content = before(Table!Files)
      BY Zenon DEF ProgramInit, Table!DataInit
  <2>2. before(Table!Files) = before(Pipeline!Files)
    <3> HIDE DEF before
    <3> QED BY SameFiles
  <2> QED BY <2>1, <2>2, Zenon
<1>6. Pipeline!DataInit
    BY <1>1, <1>4, <1>5, SameNames, Zenon DEF Pipeline!DataInit
<1>7. ToRegister = Pipeline!Registered(options)
    BY DEF ToRegister, Table!Registered, Pipeline!Registered, Table!UDM, Pipeline!UDM
<1>8. ChosenTable = Pipeline!DependsOnIn(options.program)
    BY SameNames DEF ChosenTable, Table!DependsOnIn, Pipeline!DependsOnIn
<1>9. [t \in Task |-> StatusOf(t)] = [t \in Task |-> "waiting"]
    BY <1>2, SameNames
<1> QED BY <1>1, <1>2, <1>6, <1>7, <1>8, <1>9 DEF Pipeline!Init

\* The pipeline's invariants hold in the program, step by step.
LEMMA NextPipelineInv ==
    ASSUME PipelineInv, [Pipeline!Next]_(Pipeline!vars)
    PROVE  PipelineInv'
<1>1. [PL!Next]_(PL!vars) /\ PL!TypeOK /\ PL!OrderInv /\ TableSafe
    BY SamePipeline DEF PipelineInv
<1>2. PL!TypeOK'
    BY <1>1, PL!NextTypeOK, PipelineNames, OptionAssumption, Zenon DEF PL!OrderInv
<1>3. PL!OrderInv'
    BY <1>1, PL!NextOrderInv, PipelineNames, OptionAssumption, Zenon
<1>4. TableSafe'
    BY <1>1, PL!OrderFixed, PipelineNames, OptionAssumption, Zenon DEF TableSafe
<1> QED BY <1>2, <1>3, <1>4 DEF PipelineInv

\* The whole program keeps the pipeline's invariants and does its steps.
LEMMA ProgramSimulates ==
    ProgramSpec /\ TableSafe => []PipelineInv /\ Pipeline!Spec
<1>1. ProgramInit /\ TableSafe => PipelineInv /\ Pipeline!Init
  <2>1. ProgramInit => PL!Init
      BY ProgramInitRefines, SamePipeline
  <2>2. PL!Init => PL!TypeOK /\ PL!OrderInv
      BY PL!InitTypeOK, PL!InitOrderInv, PipelineNames, OptionAssumption, Zenon
  <2> QED BY <2>1, <2>2, ProgramInitRefines DEF PipelineInv
<1>2. /\ ConInv /\ PartsInv /\ LookInv /\ DataTypes /\ PipelineInv /\ [ProgramNext]_programVars
          => [Pipeline!Next]_(Pipeline!vars)
    BY ProgramRefines
<1>3. PipelineInv /\ [Pipeline!Next]_(Pipeline!vars) => PipelineInv'
    BY NextPipelineInv
<1> QED BY <1>1, <1>2, <1>3, ProgramInvariant, PTL DEF ProgramSpec, Pipeline!Spec

\* Where the table orders the tasks that conflict, the program does what the pipeline
\* does: it makes no difference when, between its start and its end, a task reads.
THEOREM ProgramImplementsPipeline ==
    ProgramSpec /\ PL!ConflictsOrdered /\ PL!ProfileBeforeUDM => ImplementsAnalysisPipeline
BY ProgramSimulates, PTL DEF TableSafe, ImplementsAnalysisPipeline

\* A program whose table is in order works on the right data from beginning to end,
\* on all its threads: no task changes what another one touches, each task finds its
\* files, the dump holds the results of every tool, user defined metrics follow the
\* profile and the genealogy is kept.
THEOREM ProgramHandsOver ==
    ProgramSpec /\ PL!TableOrdered
        => [](PL!RaceFree /\ PL!InputsPresent /\ PL!DumpComplete
               /\ PL!UDMFollowsProfile /\ PL!GenealogyKept)
<1>1. PL!TableOrdered => TableSafe
    BY DEF PL!TableOrdered, TableSafe
<1>2. Pipeline!Spec => PL!Spec
    BY SamePipeline, PTL DEF Pipeline!Spec, PL!Spec
<1>3. PL!Spec /\ PL!TableOrdered
        => [](PL!RaceFree /\ PL!InputsPresent /\ PL!DumpComplete
               /\ PL!UDMFollowsProfile /\ PL!GenealogyKept)
    BY PL!OrderedRunsHandOver, PipelineNames, OptionAssumption, Zenon
<1> QED BY <1>1, <1>2, <1>3, ProgramSimulates, PTL

\* The same, told of what the tasks do on their threads: a task that has looked had
\* its files and still has them, the dump was made from the results of every enabled
\* tool, and user defined metrics were skipped for a good reason only.
WellInformed ==
    /\ \A t \in begun \ skipped :
           StatusOf(t) = "running" => \A f \in Table!Reads(t) : content[f] # {}
    /\ Table!Dump \in begun => Table!Contributors \subseteq seen[Table!Dump]
    /\ Table!UDM \in begun => (Table!UDM \in skipped <=> ~ Table!ShouldRunUDM)

\* In a program whose table is in order no task works on less than it needs.
THEOREM TasksAreWellInformed == ProgramSpec /\ PL!TableOrdered => []WellInformed
<1> DEFINE st == [t \in Task |-> StatusOf(t)]
<1>1. ASSUME ConInv, LookInv, NEW t \in begun
      PROVE  /\ t \in Task /\ st[t] = StatusOf(t) /\ st[t] # "waiting"
             /\ registered = ToRegister
             /\ t \in SkippedSoFar <=> t \in skipped
             /\ SeenSoFar[t] = seen[t]
  <2>1. t \in Task /\ worker[t] # "none"
      BY <1>1 DEF LookInv, Looked
  <2>2. StatusOf(t) # "waiting" /\ starts[t] # 0
      BY <1>1, <2>1 DEF StatusOf, ConInv, WorkersFollow
  <2>3. registered = ToRegister
    <3>1. main # "setup"
        BY <1>1, <2>1, <2>2 DEF ConInv, Progress
    <3> QED BY <1>1, <3>1 DEF LookInv, Settled
  <2>4. ~ Pending(t)
      BY <1>1 DEF Pending
  <2> QED BY <2>1, <2>2, <2>3, <2>4 DEF SkippedSoFar, SeenSoFar
<1>2. \A t : PL!Reads(t) = Table!Reads(t)
    BY DEF PL!Reads, Table!Reads, PL!Pipeline, Table!Pipeline
<1>3. PL!ShouldRunUDM <=> Table!ShouldRunUDM
    BY DEF PL!ShouldRunUDM, Table!ShouldRunUDM
<1>4. PL!Dump = Table!Dump
    BY DEF PL!Dump, Table!Dump
<1>5. ASSUME registered = ToRegister PROVE Table!Contributors = PL!Contributors
  <2>1. PL!Merge = Table!Merge
      BY DEF PL!Merge, Table!Merge
  <2> QED BY <1>3, <1>5, <2>1, SameNames, SameFiles DEF Table!Contributors, PL!Contributors
<1>6. ASSUME ConInv, LookInv, PL!InputsPresent, NEW t \in begun \ skipped, StatusOf(t) = "running",
             NEW f \in Table!Reads(t)
      PROVE  content[f] # {}
  <2>1. t \in PL!Running \ SkippedSoFar
      BY <1>1, <1>6, SameNames DEF PL!Running
  <2> QED BY <1>2, <1>6, <2>1 DEF PL!InputsPresent
<1>7. ASSUME ConInv, LookInv, PL!DumpComplete, PL!TypeOK, Table!Dump \in begun
      PROVE  Table!Contributors \subseteq seen[Table!Dump]
  <2>1. Table!Dump \notin SkippedSoFar
    <3>1. SkippedSoFar \subseteq {PL!UDM}
        BY <1>7, Zenon DEF PL!TypeOK
    <3> QED BY <3>1 DEF Table!Dump, PL!UDM
  <2>2. PL!Dump \in PL!Worked
      BY <1>1, <1>4, <1>7, <2>1, SameNames DEF PL!Worked
  <2> QED BY <1>1, <1>4, <1>5, <1>7, <2>2 DEF PL!DumpComplete
<1>8. ASSUME ConInv, LookInv, PL!UDMFollowsProfile, Table!UDM \in begun
      PROVE  Table!UDM \in skipped <=> ~ Table!ShouldRunUDM
    BY <1>1, <1>3, <1>8, SameNames DEF PL!UDMFollowsProfile
<1>9. PipelineInv => PL!TypeOK
    BY DEF PipelineInv
<1>10. PL!TableOrdered => TableSafe
    BY DEF PL!TableOrdered, TableSafe
<1>11. ASSUME ConInv, LookInv, PipelineInv,
              PL!InputsPresent, PL!DumpComplete, PL!UDMFollowsProfile
       PROVE  WellInformed
  <2>1. \A t \in begun \ skipped :
            StatusOf(t) = "running" => \A f \in Table!Reads(t) : content[f] # {}
      BY <1>6, <1>11
  <2>2. Table!Dump \in begun => Table!Contributors \subseteq seen[Table!Dump]
      BY <1>7, <1>9, <1>11
  <2>3. Table!UDM \in begun => (Table!UDM \in skipped <=> ~ Table!ShouldRunUDM)
      BY <1>8, <1>11
  <2> QED BY <2>1, <2>2, <2>3 DEF WellInformed
<1> QED BY <1>10, <1>11, ProgramHandsOver, ProgramSimulates, ProgramInvariant, PTL

=============================================================================
