# OpenStaticAnalyzer: a verification project

OpenStaticAnalyzer analyses Java, JavaScript, Python and C# projects. A program
per language (`src/cl/OpenStaticAnalyzer<Language>`) runs a pipeline of some
fifteen external tools, as tasks with dependencies on a thread pool; every tool
reads files that earlier ones wrote and writes files for later ones; what they hand
on is a graph of results. C and C++ are analysed while they are built, by wrappers
around the compilers, linkers and archivers of the build (`src/wrapper`). This
directory holds TLA+ models of that machinery, the TLC configurations that check
them on small instances, and proofs that TLAPS checks for instances of any size.

`PROJECT.json` says for every definition which lines of the code it stands for.

## 1. Inventory

| part | state it keeps | operations | interacts with |
|---|---|---|---|
| thread pool (`lib/threadpool`) | `_runnum`, `_errors`, `_threads`, two mutexes, a condition variable | `add`, `addSingleThread`, `wait`, destructor; the loop of each thread | owner and threads share all of it |
| dependency graph (`lib/controller`, `DirectedAcyclicGraph`) | `nodeMap`: for each node its incoming and outgoing edges | `addNode`, `addEdge` with its search for cycles, `removeEdge`, `removeNode` | owned by the controller |
| controller (`lib/controller`, `Controller`) | the tasks, the graph, the futures, `failed`, `controler.txt` | `addTask`, `executeTasks`, the `Worker` on each thread, destructor | pool, graph, tasks; promises and futures between the threads |
| tasks (`lib/controller`, `Task`) | `dependsOn`, a log stream, an `ExecutionResult` | `execute`, `addDependsOn`, `checkedExec` | processes, files |
| the four pipelines (`cl/OpenStaticAnalyzer*`) | `Properties` (global), the files in the result directory, the genealogy of clones of earlier runs | `runAnalyzeMode` and some fifteen tasks each | controller; the tools through files |
| profile (`cl/GenericConfig`) | thresholds, rule switches, custom metrics, pattern options | parsed and applied by `ProfileTask` | the other tasks through `tempDir` and `Properties` |
| string table (`lib/strtable`) | buckets of strings with types, a counter per bucket, references | `set`, `get`, `setType`, `save`, `load` | every model and graph |
| result graph (`lib/graph`, `lib/graphsupport`, `cl/GraphMerge`) | nodes by name, edges and their pairs, attributes | build, merge, save, load, dump | written by the converters, merged by GraphMerge, rewritten by later tools |
| rules (`lib/rul`) | rules, configurations, priorities | look-up along inherited configurations | `ProfileTask`, converters |
| genealogy of clones (`lib/genealogy`, `DuplicatedCodeMiner`) | nodes with string keys, a string table, the file of the previous run | load, exchange of the table, create, set, destroy, save | string table; the file that `CleanResultsTask` may remove |
| clone detection (`cl/DuplicatedCodeFinder`, `lib/suffixarray`) | suffix array, clone classes | detect, map to the previous revision | genealogy |
| models and metrics (`lib/lim*`, `cl/LIM2Metrics`, `MetricHunter`, `UserDefinedMetrics`, `LIM2Patterns`) | one model or graph | sequential computations | files |
| front ends and converters (`JAN`, `JSAN`, `PAN`, `CSAN`, `*2Lim`, `*2Graph`) | one syntax tree or report | sequential visitors | files |
| syntax tree libraries (`lib/java`, `javascript`, `python`, `csharp`) | generated | generated | front ends |
| `exewrapper` (`src/wrapper/exewrapper`) | one process per call: codes, an environment variable that nested calls inherit | run the original program and a wrapper tool, in an order and under conditions that the configuration sets | build program, wrapper tools |
| wrapper tools (`src/wrapper/AbstractWrapperLib`, `ClangWrapper`, ...) | `analyzer_wrapper_config.ini`, lists of outputs, a list of inputs per process | find out the compiler's version, analyse, link, archive | each other, through these files and a lock |

Where the behaviour is hard:

* **Pool.** Threads race for slots and sleep without a predicate; a notification
  can be lost. A task that throws must not cost a slot. A thread still uses the
  pool after it has given back its slot, when nobody counts it any more.
* **Graph.** Two maps describe one set of edges. The search for cycles ends only
  because the graph has none, which is what the search is there to ensure.
* **Controller.** Results arrive in any order; the graph is consumed along the
  way; the loop stops when no future is left. Failures are noticed late, while
  other tasks run. Tasks are deleted before the pool is destroyed.
* **Pipelines.** Tasks know of each other only by name; that a file is there when
  a tool reads it, that no two tools rewrite one file at a time, that a switch in
  `Properties` has its final value when it is read, follows from a table of
  dependencies that each language writes down by hand and from the options that
  say which of these tasks are registered at all.
* **Genealogy.** The only data that live from one analysis to the next. Keys are
  16-bit numbers per bucket that are never given back, in a table that is filtered
  when it is saved, loaded by the next run and exchanged for a new one; nodes and
  strings are saved apart and meet again by their keys only.
* **Wrappers.** A parallel build is a set of processes that share files. The
  configuration is read without the lock under which another process empties and
  refills it. Lists of inputs are named by the numbers of processes, which are used
  again. A compiler starts a linker that is wrapped, too, and what it does must not be
  analysed twice. Tools fail or are killed; the build must not notice unless the user
  wants it to.
* **Merging graphs.** A node is met by the iterator and as the end of edges, in an
  order that the files decide, and its numbers must be added once. An edge looks for
  its like among edges that were noted down before the graph changed. An edge and its
  pair are two objects that refer to each other, and are created, joined and passed
  over in different branches for each kind of edge.

`PROJECT.json` lists these hazards at their lines, each with the properties that
would notice them.

## 2. Modules

```
TaskSlots  <-- implemented by --  ThreadPool  <- proofs - ThreadPoolProofs
                                      |
DependencyGraph <- proofs - DependencyGraphProofs
      |                               |
      +---------- Controller ---------+       <- proofs - ControllerProofs
                 |         |
   implements DependencySchedule   AnalysisProgram  (runAnalyzeMode: controller and data)
                 |         |
                 |     implements
                 |         |
               AnalysisPipeline  (of a table of tasks)  <-  TaskOrder  <- proofs - PipelineProofs
                      |
      JavaTasks  JavaScriptTasks  PythonTasks  CSharpTasks   (TaskTables)

StringTable <- proofs - StringTableProofs
      |                        |
GenealogyStore <- proofs - GenealogyProofs

ExeWrapper   WrapperTools
      |           |
      WrappedBuild <- proofs - WrappedBuildProofs

ResultGraph
      |
GraphMerge -- implements --> NodeUnion
      |
GraphMergeProofs
```

`MC*` modules and their `.cfg` files instantiate these for TLC.

Definitions called "slip" are plausible bugs: a run replaces the definition they
follow by one of them to show that a property would notice. No specification
uses them.

### ThreadPool (`ThreadPool.cpp`, `ThreadPool.h`)

One `pc` per thread for the position in `ThreadPoolTask::operator()`; `runnum`,
`errors` and `threads` are the fields; `owner` is the thread that owns the pool.
A critical section under `_running_lock` is one step. `_mutex_queue` is held
only around the wait, never by a notifier, and so excludes nothing; the look at
`_runnum` (`SeeFull`) and the wait (`Sleep`) are two steps, between which a
`notify_all` is lost. Spurious wakeups are steps. An exception of a task added
by `addSingleThread` has no handler and ends the process (`owner = "aborted"`).

`TaskSlots` is the promise: tasks wait for one of `PoolSize` slots, run once,
finish; `wait()` returns when all have finished.

### DependencyGraph (`DirectedAcyclicGraph.cpp`, `.h`)

`nodeMap` maps keys to records of two sets of keys. The lists of the code are
sets: `addEdge` refuses an edge that exists. `checkForCycle` is a recursive
function over the nodes; it is well-defined because the graph is acyclic, which
is an invariant and not an assumption.

### Controller (`Controller.cpp`, with pool and graph)

Instances of `ThreadPool` and `DependencyGraph` share their variables with the
controller. The main thread builds the graph edge by edge, starts what is ready,
takes results in any order in which their futures are fulfilled, removes nodes,
visits dependents; each worker writes its two lines to `controler.txt`, executes,
and fulfils its promise, before its thread gives back the slot. The loops over
name-ordered maps visit in any order, so every way of naming tasks is covered.
The end of `runAnalyzeMode` is included: the controller is destroyed, then the
pool. `Escaping` are tasks whose `execute` lets an exception out.

`DependencySchedule` is the promise: a task starts at most once and after all it
depends on ended well; after a failure has been noticed nothing starts; the
verdict is success only if all ended well. `StatusOf` maps a task that has been
started a second time to `"startedTwice"`, a status that the abstract specification does
not know: no step of it leads there.

### AnalysisPipeline and the tables (`Task.cpp`, `main.cpp` of the four languages)

An entry of a table is one subclass of `Task`: what its constructor passes to
`addDependsOn`, which files and switches `execute` hands to its tools. The tasks
run as `DependencySchedule` says (`Schedule!Launch`, `Finish`, `NoticeFailure`,
`Conclude`), which is what the controller implements. The content of a file is
the set of tasks whose work is in it; a task reads when it begins (`Look`) and writes
when it ends (`HandOver`), so that concurrent rewriting loses an update. `runAnalyzeMode`
is the set of registered tasks as a function of the options. `ProfileTask` sets
`props.runUDM`; `UserDefinedMetricsTask` reads it when it begins.

Names of files are shortened in `TaskTables`; outputs that no other task reads
are left out, and so are log files and directories that are created before any
task runs.

`TaskOrder` says what of all this can be read off a table and the options before a task
has run: `WaitsFor` is the order that the registered dependencies make, by the same walk
over the same graph as `buildGraph` and `checkForCycle`; conflicting tasks wait for each
other, what a task needs is written by one it waits for, results are handed over through
files that only accumulate. `PipelineProofs` shows for any table that this is enough
whatever the schedule, and the run `pipelines` that the four tables say it
(`TablesOrdered`). A table is judged before its first step, so every command line can
be.

### AnalysisProgram (`runAnalyzeMode`, `Worker::operator()`, `execute()` of the tasks)

The parts put together: `Controller`, with its pool, graph and threads, runs the tasks of
a table and carries the data of `AnalysisPipeline`. It uses that module twice. `Table` is
its vocabulary: what is registered, what a task reads, writes and clears, and what
`Look` and `HandOver` do to the files and the switch. `Pipeline` is its specification, which
the program is shown to implement.

The two differ in when a task reads. `AnalysisPipeline` lets it read in the step that
starts it. In the code `executeTask` only creates a thread; the thread may wait for its slot
for as long as other tasks run, end and write, and `execute()` looks at files and switches after
that (`LookAround`, one step between the worker's line in the log and the end of
`execute()`, in `Perform`). The refinement mapping gives a task that has been started and has
still to look what it would find now (`SeenSoFar`, `SkippedSoFar`); that this does not change
until it looks is what makes the implementation right, and it is the dependencies of
the table that see to it. `RegisterTask` and `RunTasks` are the calls of `runAnalyzeMode`, all
other steps are the controller's and leave the data alone.

### StringTable (`StrTable.cpp`, `StrTable.h`)

The table is a value and its operations are operators, because programs have
several tables at a time. A key is the pair of the hash and the number that the
bucket gives out; `Incremented` wraps around like the `unsigned short`, and `Insert`
then does what `std::map::insert` does with a key that is taken: nothing. `warned`
is not a field of the class: it remembers which buckets "is full" has been written
for. The hash is any function.

### GenealogyStore (`dcm.cpp`, `lib/genealogy/src/Factory.cpp`, `nodes/Component.cpp`)

A run of the clone detector goes through the phases `swap`, `work` and `save`, and
may end in any of them; then the next one begins with what is in `file`. A node
stands for the string attribute of a node in the project's tree; `SwapNode`
exchanges the keys of one node, so that the half-way states are there. `name` is a
history variable: the text that a node was given, whichever run that was in. A file
that is cut off (`partial`) makes loading throw an `IOException`, which nobody
catches; one of another version (`foreign`) makes it throw a `GenealogyException`,
after which the run starts over with nothing.

### ExeWrapper, WrapperTools, WrappedBuild (`exewrapper/main.cpp`, `AbstractWrapperLib`)

`ExeWrapper` is `main()` of `exewrapper` for each call of a wrapped program: `step` is
where the process is, the other variables are its local ones. `inWrapper` is the
environment variable `OSA_INEXEWRAPPER`; a call whose `Parent` is inside its original
program inherits it. Without a wrapper tool to run, the steps are taken as the code
takes them; `ToolReturns` is left open.

`WrapperTools` is what the tools for `clang`, `cl`, `ld`, `link`, `ar` and `lib` do, one
process each: read the sections of the configuration, find the version of the
compiler under the lock (`Driver` are the tools of calls of compilers: they look the version
up even if the call only links), hand the file to CAN, write and use the list of inputs, add a
line to `ast.list`, `aast.list` or `component.list`. The configuration file is two
things: whether the user's settings are in it, and which compilers' versions.
`writePrivateProfileString` is two steps (`AskSucceeds` empties the file, `Rewrite`
fills it). `Kill` may end a tool anywhere; the system then releases its lock. `fed`,
`found`, `skipped` and `lost` are history variables.

`WrappedBuild` puts the two together, conjoining the step of a call that runs its
tool with the tool's first step, and the tool's end with the return to its call. The
build program starts a call when the calls whose outputs it uses are done.

### ResultGraph, GraphMerge (`lib/graph/src/BGraph.cpp`, `cl/GraphMerge/main.cpp`)

`ResultGraph` says what a file holds and which graph it becomes when `loadBinary` reads
it. The identity of an edge, an address in the code, is the file, the entry and the half
of it (edge, bidirectional twin, reverse edge); a bidirectional entry gets a reverse
edge besides its twin, whose own pair stays the twin. `UnitedAttributes` is what merging
does to the attributes of two elements with the modes that GraphMerge passes.

`GraphMerge` is the tool: `VisitNode` and `VisitEdge` are the bodies of the two
loops of `Graph::merge`, which take nodes and edges in any order, because in the code it
follows from how the graphs were built. `targets` is `oldNodeTargets`, noted
down when the node is visited. `in` is the incoming graph, which is a variable because the
code adds attributes to it (`JoinDirected`, see below). A node that is not there when an
edge is created makes the code throw or drop the edge; both are modelled, and
`WellFormed` says that they do not happen. Only edges of the same direction are alike
(`EdgeType` compares it), so the branches for a bidirectional edge that meets a
directional one have no action.

`NodeUnion` is the promise: the nodes of each file are united with the graph's once, all at the
same time.

## 3. Runs

Bounds: three threads are enough for two to hold the slots while one waits, and for one to
be woken while another takes the slot it was woken for. Four keys make cycles of length
four, and cycles that avoid a node. Three tasks make chains, forks, joins, shortcuts and
cycles; each of them writes a file of its own and uses those of the tasks it depends on, in
two shapes all three rewrite one file, and the switch for user defined metrics is set by the
profile, by the command line, or against the profile. That makes 394,010 states, which is
why three tasks are all. The pipelines are checked in full, with all their tasks; only the
choices of options are a selection. Two buckets with a counter of four values are enough for
one bucket to overflow with three of its strings while the other one must not with its
single string, however often that is deleted and inserted; two nodes share a string or do
not, and are on both sides of the exchange. A run of the clone detector may be followed by
any number of others. `pipelines` begins with every subset of the tools and every value of
the switches that a table can tell apart, in so far as they meet the conditions below, and
judges their tables; its constraint `Explored` lets only those of `Usual` go on from there.
Three calls are a compilation, a link within it and one more process in its way; two numbers
for two or three processes are used again; one link is made by the compiler, which
looks its version up for that as well; a kill may hit any tool at any of its steps. Two
nodes have edges both ways, parallel ones and loops, and eight files put them together with
isolated nodes and pairs of both kinds; the third file meets edges which have been joined
already.

| run | question | bounds |
|---|---|---|
| `thread_pool` | are the counters exact, is the pool quiet when it is gone, does it implement `TaskSlots`, do slots come back, do at least as many tasks finish as there are slots? | 3 threads, 2 slots |
| `pool_lost_wakeup` | does `wait()` always return? It does not. | 2 threads, 1 slot |
| `graph_safety` | are edges mirrored, is the graph acyclic, are exactly the right edges refused? | 4 keys |
| `controller_safety` | are results awaited, tasks alive while they are used and lines of the log in order; does nothing start after a failure; does the controller implement `DependencySchedule` and the program `AnalysisPipeline`, although tasks read late; does the program end? | 3 tasks (profile, merge of graphs, user defined metrics), 5 shapes with their files, 9 command lines, 2 slots, one task may let an exception out |
| `pipelines` | are files, switches and the genealogy handed over in order; do the tables say what has to be said for that under every command line? | all tasks of the four programs; 204 choices of options are run, 12,264 command lines judged |
| `java_without_rules` | ... without PMD and FindBugs? They are not. | 6 choices |
| `genealogy_cleaning` | ... with `-cleanResults:0` in Python or C#? They are not. | 12 choices |
| `genealogy_safety` | do texts survive from run to run, has the file exactly the strings of its nodes, do counters stay low? | 4 strings, 2 buckets, counters of 4 values, 2 nodes |
| `wrapped_build` | does the configuration survive, is each tool fed its own inputs, is everything analysed once, does the build get the original codes, does every call return? | 5 builds of 2 or 3 calls with the usual setting, one with 6 other settings, 2 numbers of processes, 1 kill |
| `wrapped_build_skipped` | is every program analysed that the configuration asks for? Not always. | a build of 3 calls, usual setting, no kill |
| `graph_merge` | does the graph stay well-formed, has each node what every file says of it, and is it counted once, is no edge lost or doubled? | 2 or 3 of 8 files; 2 nodes, 1 type, 2 strings, 1 number |
| `graph_merge_attributes` | do the attributes of all edges arrive? They do not. | the same |

Deadlock is checked in all of them but `controller_safety`. There the main thread
does wait for ever when a task lets an exception out, for a promise that nobody
fulfils: the functor with the promise lives on in the finished thread's data, so the
promise is not broken either; and three tasks on two slots can lose a wakeup.
`ExecutionTerminates` says that these are the only reasons: where no task throws and
no thread finds the pool full, the program ends. No task of the four languages lets an
exception out, so that is a hazard of the library and no finding about the programs.

### What the violated properties show

* **Lost wakeup** (`ThreadPool.cpp:79-104`). The waiter looks at `_runnum` under
  one mutex and waits with another; the notifier uses neither around
  `notify_all`. In the controller a single chain of tasks is enough: the
  dependent's thread is created when the promise of its dependency is fulfilled,
  while the dependency's thread still holds the slot. It needs fewer slots than
  threads that exist at a time, so `-maximumThreads:1` is the worst case. (The same
  overlap shows that `maxThreads` bounds the tasks that run, not the threads.)
* **Java** (`Task.cpp:771`), and in the same way JavaScript without ESLint, Python without
  Pylint and C# without FxCop: `UserDefinedMetricsTask` is ordered after `ProfileTask` only
  through a rule-based tool. Without one it may read `props.runUDM` too early (and
  `MetricHunterTask` its thresholds).
* **Python** (`Task.cpp:422`) and **C#** (`Task.cpp:434`): nothing orders
  `CleanResultsTask` and `DcfTask`, which share the genealogy file.
* **Wrappers** (`AbstractCompiler.cpp:107`): a tool that looks for `NEED_TO_RUN` while
  another one has emptied the configuration to write a version into it finds the
  default, 0, and leaves the program out with return code 0. This can
  happen only while versions are still being found out, so it takes a parallel build
  and its first calls.
* **Merging edges** (`BGraph.cpp:2999`): the arguments of `convertEdgeAttribute` are
  exchanged on the branches for an edge without a reverse; what the second file says of
  such an edge is added to the graph that is thrown away.

Seen while modelling, without a run of their own: the JavaScript `GraphDumpTask` does not
depend on `UserDefinedMetricsTask` (`Task.cpp:507`), only `LIM2PatternsTask` orders the
two; `ProfileTask` of C# reads the profile in a block that is compiled for Windows only
(`Task.cpp:138`); after the warning "Genalogy will not be saved!" (`dcm.cpp:1981`) the clone
detector saves it all the same.

The passing run of the pipelines states the conditions under which all is well. In
`MCPipeline` they are `ProfileAwaited` (at least one tool that depends on `ProfileTask` is
registered: PMD or FindBugs, ESLint, Pylint, FxCop; needed if the user defined metrics may
run or a rewriter of the merged graph does), `MetricsPassedOn` (LIM2Patterns for JavaScript
if the user defined metrics may run) and `CleaningAwaited` (no `-cleanResults:0` together
with `-cloneGenealogy` for Python and C#). 12,264 of the 20,736 command lines meet them, and
all five predicates hold for each of these. They are not necessary for each predicate:
of all command lines 8,472 leave two conflicting tasks unordered, which is every one that
does not meet them; 4,248 have a task whose input nobody provides in time, 2,688
do not order the profile and the metrics, 1,152 may lose results on the way to the dump, 576
may lose the genealogy.

## 4. Fairness

Weak fairness of every thread's steps (`ThreadStep(t)` of the pool, `TaskThread(t)` of the
program), of the main thread (`Control`) and of the owner's joins: the operating system runs
every thread that can run, and every task ends. Spurious wakeups are possible and never
owed. Options are chosen by users: no fairness on `Add`, `RegisterTask`, `RunTasks` or
`CallWait`. A mutex is a step, so fairness of lock acquisition is implied by that of the
thread.

In `WrappedBuild` weak fairness of the steps of each call together with its tool: the
system runs every process, and the programs they start end. Nothing is owed by the build
program (`Start`) or by whoever kills tools. `TakeLock` has no fairness of its own: that a
tool which waits gets the lock follows in the model because each tool takes it
at most once.

## 5. Proofs

`ThreadPoolProofs`, for any finite set of threads and any pool size
(`ThreadAssumption`, `PoolSizeAssumption`):

* `TypeCorrect` and `CountersAreExact` (its halves are `SlotsAreExact` and `ErrorsAreExact`)
  from the invariant `PoolInv`. It adds to the properties that the recorded exceptions
  belong to threads that are past their task (`ThrownHandled`): without it `CountError`
  could count a thread that had been counted already.
* `QuietOnceDestroyed` from `JoinInvariant`: every created thread is in `threads`,
  and all that were joined are done. So when the last one is joined none is left.
* `PoolImplementsTaskSlots`: initial states map to initial states, each step to a
  step of `TaskSlots` or a stutter; taking a slot needs `SlotsExact`, the return of
  `wait()` needs `JoinInvariant`.

`DependencyGraphProofs`, for any finite or infinite set of keys:

* `GraphInvariant`: `nodeMap` is a graph over its own nodes, mirrored and acyclic,
  after any sequence of operations; `GraphTypeCorrect`, `GraphMirrored` and
  `GraphAcyclic` are its parts.
* `GraphCycleCheckExact`: `checkForCycle` is right about every pair of nodes. The
  recursive function is compared with the least set of nodes that contains the
  target and is closed under the edges (`Least`); an acyclic graph has only one
  function that satisfies the recursion (`FindsSolves`, `FindsEquation`). This
  replaces an induction over the length of paths.

`ControllerProofs`, for any finite set of tasks, any dependencies (cyclic ones, too), any pool
size, results and execution mode:

* The pool and the graph are parts. Every step of the controller is a step of the pool or
  leaves it alone (`StepOfPool`), and the same for the graph (`StepOfGraph`), so what is
  proved above of each holds inside the controller (`PoolHolds`, `GraphHolds`,
  `ControllerPoolIsSafe`).
* `ControllerInvariant`: what is under way in each stage of `executeTasks`. While the graph is
  built it has the dependencies of the visited tasks but for those still to add
  (`GraphGrows`), so that at the end it has them all and is acyclic. In the loop it is what
  remains of them without the accepted tasks; a task is started exactly if
  none of its edges is left (`GraphShrinks`). A started task keeps its future until its
  worker is done (`WorkersFollow`), and the lines of the log are exactly those that the workers
  have come past (`LogFollows`), so that none can be written twice.
* `ControllerTypeCorrect`, `EmptyVectorMeansIdle`, `DeletedTasksUnused`, `LogTellsOrder` and
  `FailureStopsStarts` follow from it.
* `ControllerImplementsSchedule`: the refinement of `DependencySchedule`. A task is waiting
  until it is started, running until its worker has a result, good or bad afterwards; that it is
  never started again is in the invariant (`OwnTypes`: `starts[t]` is 0 or 1). That
  success is reported only if every task ended well needs that the graph is empty then, for
  which acyclicity is used: of the tasks that are left one has no edge, and was started.

`PipelineProofs`, for any table of tasks and any options
(`TableAssumption`, `OptionAssumption`, `NameAssumption`):

* `PipelineOrder` (`OrderInv`): what a task depends on has ended well when it begins, so the
  tasks that have begun depend on each other without a cycle, even in a table that has one.
  Hence all that a task waits for, directly or not, has ended well. `WaitsFor` is a
  recursive function of `DependencyGraph`, and `WaitsForEquation` is where its recursion is
  used.
* Five theorems whose hypothesis is a predicate of `TaskOrder` about the run's own table,
  and whose conclusion is a property of its schedules: `OrderedRunsAreRaceFree`,
  `OrderedUDMFollowsProfile` (with `SwitchInv`), `OrderedRunsHaveInputs` (`WrittenInv`: what
  has been written is there unless a task that need not come first has cleared it),
  `OrderedRunsDumpEverything` (`CarriedInv`: the work of a task is in each file that it
  wrote and that accumulates, and in the work of those who read it),
  `OrderedRunsKeepGenealogy` (`CarriedInv` and `FreshInv`: nobody but the clone detector's
  file has what an earlier run left, until it is cleared); `OrderedRunsHandOver` puts them
  together. With `TablesOrdered` they hold of the four programs under every command line
  that meets the three conditions, which is far more than could be run.

`ControllerProofs` goes on with the whole program, `AnalysisProgram`, for any table whose tasks
are those of the controller (`ProgramAssumption`), any options, files, results, number of
slots and interleaving:

* `ProgramIsController`: each step of the program is a step of the controller, or a task looks
  around and the controller stutters. So everything above holds of the program.
* `ProgramTypeCorrect` from the controller's invariant, `LookInv` (what was registered is what the
  options ask for; a task has looked when it ends, and not before its line in the log; only
  `UserDefinedMetricsTask` finds nothing to do) and `DataTypes`.
* `ProgramImplementsPipeline`: the refinement of `AnalysisPipeline`, for tables with
  `ConflictsOrdered` and `ProfileBeforeUDM`. Starting a task is the pipeline's `Begin`, its look
  is a stutter, its end is `End`. A step that ends one task must not touch what another one,
  started and still to look, is going to read: seen from the pipeline that task is running
  already, and the tables' `RaceFree` forbids the write (`FilesOfPending`). In the same way the
  profile has ended well before `UserDefinedMetricsTask` is started, so the switch does not
  change under it (`SwitchOfPending`). Thus two theorems about the abstract pipeline carry the
  refinement of the pipeline itself; `ProgramSimulates` shows both by one induction over the
  steps. Without the hypothesis the refinement fails: a task could then see the work of
  another one that ends between its start and its look.
* `ProgramHandsOver`: the five properties of the pipeline, of the program under the mapping, for
  tables with `TableOrdered`, which the four programs' tables have (`TablesOrdered`).
* `TasksAreWellInformed`: the same without the mapping. What a task has read when it looked is
  there, the dump has seen the work of every enabled tool, and the metrics were skipped exactly if
  there was nothing to do.

`StringTableProofs`, for any strings, any hash, any number of buckets and any width
of the counters above two values: as long as no bucket is reported full, `set()`
returns a key under which the string is found, and all keys given out before keep
their strings (`SetSound`); marking a set of keys, saving and loading keeps exactly
their strings (`ReloadSound`). The invariant is `Sound`: keys consist of the hash of
their string and a number below the bucket's counter, and no string has two. Types
hold after an overflow, too; that the search in `get` has a lowest key then needs
that the natural numbers are well-founded (`LeastNumber`).

`GenealogyProofs`, for any set of nodes: `GenealogyTypeCorrect`,
`GenealogyNamesKept` and `GenealogyFileExact` from `GenealogyInv`. To the three
properties it adds that both tables are sound and have
no marked string, that nodes which are gone have left no key behind, that the map of
exchanged keys relates keys of equal text, and that a complete file would load into
a sound table. The last two theorems are about runs in which no bucket has been
reported full. `GenealogyNeverFull` says that this does not happen while the strings fit:
by `CountersInv` the counter of such a bucket is one more than the number of strings
that the table has in it, in the new table and, once the tables are exchanged, in the
run's own. The table that was loaded is not among them, which is why it is exchanged.

`WrappedBuildProofs`, for any set of calls, any nesting of them, any settings, any numbers of
processes and any number of kills:

* `TypeCorrect` from `Typed`, which adds to `TypeOK` that a tool which has written its inputs
  knows its number. The lock belongs to exactly the one tool that is in the critical section
  (`LockExact`, part of the type invariant).
* `ConfigIsKept` from `ConfigExact`: as long as no tool is killed halfway, the
  file holds exactly the versions that were found, or the copy does.
* `EverythingAnalysedOnce` from three invariants: a call inside a wrapped program is
  marked and runs no tool (`Marked`), with the usual settings tools run after the original
  program only (`InOrder`), and a tool adds its line when it leaves the states before it
  (`ListedOnce`).
* `InputsAreOwn` from `OwnInv`: for each number of a process, what is in its list has been
  put there by the tool that has the number, or left behind by one that had it, and only by
  tools that failed or were killed (`LeftBehind`, `ListsRight`); numbers are used by one
  process at a time (`NumbersOwn`), and archivers, whose list is made new each time, have
  steps of their own (`ArchiversApart`).
  `PidAssumption` says that 0 is not the number of a process; the model uses it for none.
* `CallsAreTransparent`: the codes of each call at each of its steps are what the
  original program and the tool have returned so far. A call that returned because its program
  was not found is told from others by never having been inside.

`GraphMergeProofs`, for any names, types, attributes and any sequence of files:

* `MergedGraphWellFormed` from `IInv`. It adds to `WellFormed` what a merge under way relies on
  (`Merging`): the incoming graph has changed in its attributes only, what has been visited is
  converted, edges are passed over together with their pairs (`SeenClosed`);
  and that identities are not used twice (`Used`), without which a reverse edge could take the
  place of another one. That nothing throws follows because the node at an edge's end is
  converted before the edge.
* `NodesAreUnited`: the refinement of `NodeUnion`. The mapping `finalNodes` is what the
  nodes will be when the merge is over; beginning a merge is the step, and everything else
  stutters because a node that is converted moves from one side of the union to the other.
* `NodesAreComplete`: from the same mapping, once a merge has ended each node of the graph has
  the strings and metrics of all files it is in, and the sums of their numbers. `SumsOf` is
  a recursive function over the files; that its recursion has a solution is shown by the
  least number for which it has none (`SumsReach`, `SumsAgree`, `SumsOfEquation`).
* `EdgesAreUnited` from `EdgeInv`: for each pair of nodes, type and direction, the edges
  are the very ones that the first file with any of them has (`FirstKept`), so that their
  numbers agree without being counted. Edges of a kind that no earlier file has are in
  the graph or still to be met (`NewComing`, `VisitOrder`), an edge finds its like exactly if
  an earlier file had one (`LikeFound`), and a way back that some file has is there or
  still to be met (`WaysBack`).

Only model-checked:

* liveness under fairness, which is out of TLAPS's reach: `SlotsComeBack`,
  `PoolSizeTasksFinish`, `ExecutionTerminates`, `CallsReturn`;
* what follows an overflow of a counter in the string table (proved are the types, then);
* that the tables of the four programs meet the hypotheses of `PipelineProofs`, which is
  a finite question that `TablesOrdered` answers in full.

The properties of the runs that expect a violation are false, and have no proof.

## 6. Not modelled

Parsing of options and profiles, the formats of files, processes and pipes, the
texts of log lines, the file systems' failures (a failing tool is a task with a
bad result). Sequential tools (front ends, converters, metrics, clone detection)
are seen only through the files they read and write. Generated and vendored
libraries are left alone: the visitors, algorithms and nodes of `lib/java`, `javascript`,
`python`, `csharp`, `lim` and `exprtk.hpp` are most of the repository's lines; they
have one pattern per kind of node and no state that outlives a call.

Of the string table `setType` by text, copying and the references of
`RefDistributorStrTable` are left out, of the genealogy its edges, its numbers and the
search for the previous revision of a clone.

Of the wrappers the rewriting of options, the tools for `as`, `ln`, `cp` and `mv`,
`VsbuildWrapper`, instrumentation, and the programs that write the configuration are
left out; filters are a setting (a call is wanted or not). A crash of the machine is
not modelled: nothing in this code recovers from one.

Of the graph the modes of merging that GraphMerge does not use, deletion (no tool
deletes a node or an edge), schemas, XML, CSV, JSON and GML, and the summary graph are
left out. One of those modes, `nmmDropOldAttributes`, drops the new number as well
(`BGraph.cpp:2845`); no tool passes it.

## 7. Plan

Done: pool, graph, controller, pipelines, the program that consists of them, string table,
the life of the genealogy, compiler wrappers and the merging of graphs, with proofs of all
the invariants that runs check but for `TablesOrdered`, which is about four tables.

Left:

1. `Rules` (inherited configurations) and what `ProfileTask` makes of them.
2. The edges of the genealogy and the search for the previous revision of a clone; a file of
   the genealogy that is cut off and what may follow it.
3. Deletion in the graph, and iterators that survive it.
