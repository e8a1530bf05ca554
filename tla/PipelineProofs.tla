--------------------------- MODULE PipelineProofs ---------------------------
(***************************************************************************)
(* Proofs about the hand-over of data between the tasks of a program, for   *)
(* every table of tasks and every command line: what TaskOrder asks of the  *)
(* table is enough, whatever the schedule.                                  *)
(***************************************************************************)
EXTENDS TaskOrder, TLAPS

GP == INSTANCE DependencyGraphProofs WITH Key <- Task, nodeMap <- Table

Deps(t) == Schedule!DependenciesOf(t)

\* The registered tasks that have been started.
Begun == {t \in registered : status[t] # "waiting"}

-----------------------------------------------------------------------------
(* Steps. *)

\* What a task that starts changes.
LEMMA BeginChanges ==
    ASSUME TypeOK, NEW t \in Task, Begin(t)
    PROVE  /\ t \in registered /\ status[t] = "waiting" /\ verdict = "none"
           /\ \A d \in Deps(t) : status[d] = "good"
           /\ status' = [status EXCEPT ![t] = "running"]
           /\ \/ /\ t = UDM /\ ~ runUDM
                 /\ skipped' = skipped \cup {t} /\ seen' = seen
              \/ /\ t = UDM => runUDM
                 /\ skipped' = skipped
                 /\ seen' = [seen EXCEPT ![t] = UNION {content[f] : f \in Inputs(t)}]
           /\ UNCHANGED <<registered, dependsOn, stopped, verdict, options, runUDM, content>>
BY DEF Begin, Look, Read, Schedule!Launch, Schedule!Become, Deps, TypeOK

\* A task that starts reads, or it finds that it has nothing to do.
LEMMA BeginReads ==
    ASSUME TypeOK, NEW t \in Task, Begin(t)
    PROVE  /\ \A u \in Task \ {t} : seen'[u] = seen[u]
           /\ \/ seen'[t] = UNION {content[f] : f \in Inputs(t)} /\ skipped' = skipped
              \/ seen'[t] = seen[t] /\ skipped' = skipped \cup {t}
<1> DEFINE read == UNION {content[f] : f \in Inputs(t)}
<1>1. \/ seen' = [seen EXCEPT ![t] = read] /\ skipped' = skipped
      \/ seen' = seen /\ skipped' = skipped \cup {t}
    BY BeginChanges
<1> HIDE DEF read
<1>2. /\ \A u \in Task \ {t} : seen'[u] = seen[u]
      /\ \/ seen'[t] = read /\ skipped' = skipped
         \/ seen'[t] = seen[t] /\ skipped' = skipped \cup {t}
    BY <1>1 DEF TypeOK
<1> QED BY <1>2 DEF read

\* What a task that ends changes.
LEMMA EndChanges ==
    ASSUME TypeOK, NEW t \in Task, End(t)
    PROVE  /\ status[t] = "running"
           /\ \E s \in {"good", "bad"} : status' = [status EXCEPT ![t] = s]
           /\ content' = IF status'[t] = "good" /\ t \notin skipped
                         THEN ContentAfter(t) ELSE content
           /\ runUDM' = IF t = Profile /\ status'[t] = "good" /\ ~ options.runUDMExplicit
                        THEN options.profileHasUDM ELSE runUDM
           /\ UNCHANGED <<registered, dependsOn, stopped, verdict, options, skipped, seen>>
BY DEF End, HandOver, Schedule!Finish, Schedule!Become

\* What the controller's own steps change.
LEMMA ControlledChanges ==
    ASSUME Controlled
    PROVE  /\ UNCHANGED <<registered, dependsOn, status, options, runUDM, skipped, content, seen>>
           /\ \/ verdict' = verdict
              \/ verdict' = "failure"
              \/ verdict' = "success" /\ \A t \in registered : status[t] = "good"
           /\ stopped' \in {stopped, TRUE}
BY DEF Controlled, Schedule!NoticeFailure, Schedule!Conclude, dataVars

\* The options and the table do not change during a run, nor what follows from
\* them.
LEMMA TableFixed ==
    ASSUME [Next]_vars, TypeOK
    PROVE  /\ UNCHANGED <<registered, dependsOn, options>>
           /\ \A t : Deps(t)' = Deps(t)
           /\ \A t : /\ Inputs(t)' = Inputs(t) /\ Writes(t)' = Writes(t)
                     /\ Clears(t)' = Clears(t) /\ Reads(t)' = Reads(t)
           /\ \A t, d : WaitsFor(t, d)' <=> WaitsFor(t, d)
<1>1. UNCHANGED <<registered, dependsOn, options>>
    BY BeginChanges, EndChanges, ControlledChanges
       DEF Next, Over, vars, scheduleVars, dataVars
<1>2. \A t : Deps(t)' = Deps(t)
    BY <1>1 DEF Deps, Schedule!DependenciesOf
<1>3. Table' = Table
    BY <1>1, <1>2 DEF Table, Deps
<1>4. \A t, d : WaitsFor(t, d)' <=> WaitsFor(t, d)
    BY <1>2, <1>3 DEF WaitsFor, Deps
<1>5. \A t : /\ Inputs(t)' = Inputs(t) /\ Writes(t)' = Writes(t)
             /\ Clears(t)' = Clears(t) /\ Reads(t)' = Reads(t)
    BY <1>1 DEF Inputs, Writes, Clears, Reads, Pipeline, Unused
<1> QED BY <1>1, <1>2, <1>4, <1>5

\* The files that a registered task names are files of the model.
LEMMA FilesNamed ==
    ASSUME TypeOK, registered \subseteq DOMAIN Pipeline, NEW t \in registered
    PROVE  /\ Reads(t) \subseteq Files /\ Inputs(t) \subseteq Files
           /\ Writes(t) \subseteq Files /\ Clears(t) \subseteq Files
<1>1. options.program \in DOMAIN Programs
    BY OptionAssumption DEF TypeOK
<1>2. FilesOf(Pipeline[t]) \subseteq Files
    BY <1>1 DEF Files, Pipeline
<1> QED BY <1>2 DEF FilesOf, Reads, Inputs, Writes, Clears

-----------------------------------------------------------------------------
(* Types, and the order in which tasks begin. *)

\* A run begins with values of the right types.
LEMMA InitTypeOK == Init => TypeOK
<1> SUFFICES ASSUME Init PROVE TypeOK
    OBVIOUS
<1>1. options.program \in DOMAIN Programs /\ options.runUDM \in BOOLEAN
    BY OptionAssumption DEF Init, DataInit
<1>2. registered \subseteq Task
    BY <1>1, TableAssumption DEF Init, Registered
<1> QED BY <1>1, <1>2 DEF Init, DataInit, TypeOK, Schedule!Statuses

\* Every step keeps the types.
LEMMA NextTypeOK ==
    ASSUME TypeOK, registered \subseteq DOMAIN Pipeline, [Next]_vars
    PROVE  TypeOK'
<1>1. ASSUME NEW t \in Task, Begin(t) PROVE TypeOK'
  <2> DEFINE read == UNION {content[f] : f \in Inputs(t)}
  <2>1. read \subseteq Task \cup {"earlier run"}
    <3>1. t \in registered /\ Inputs(t) \subseteq Files
        BY <1>1, BeginChanges, FilesNamed
    <3>2. \A f \in Inputs(t) : content[f] \subseteq Task \cup {"earlier run"}
        BY <3>1 DEF TypeOK
    <3> QED BY <3>2
  <2>2. seen' \in [Task -> SUBSET (Task \cup {"earlier run"})] /\ skipped' \subseteq {UDM}
    <3>1. seen' \in {seen, [seen EXCEPT ![t] = read]} /\ skipped' \subseteq {UDM}
        BY <1>1, BeginChanges DEF TypeOK
    <3> HIDE DEF read
    <3> QED BY <2>1, <3>1 DEF TypeOK
  <2>3. status' \in [Task -> Schedule!Statuses]
      BY <1>1, BeginChanges DEF TypeOK, Schedule!Statuses
  <2> QED BY <1>1, <2>2, <2>3, BeginChanges DEF TypeOK
<1>2. ASSUME NEW t \in Task, End(t) PROVE TypeOK'
  <2>1. ContentAfter(t) \in [Files -> SUBSET (Task \cup {"earlier run"})]
      BY DEF ContentAfter, TypeOK
  <2>2. options.profileHasUDM \in BOOLEAN
      BY OptionAssumption DEF TypeOK
  <2> QED BY <1>2, <2>1, <2>2, EndChanges DEF TypeOK, Schedule!Statuses
<1>3. CASE Controlled
    BY <1>3, ControlledChanges DEF TypeOK
<1>4. CASE UNCHANGED vars
    BY <1>4 DEF vars, scheduleVars, dataVars, TypeOK
<1> QED BY <1>1, <1>2, <1>3, <1>4 DEF Next, Over

\* A task begins after those it depends on have ended well, so the tasks that
\* have begun depend on each other without a cycle, whatever the table says.
OrderInv ==
    /\ registered \subseteq DOMAIN Pipeline
    /\ \A t \in Task \ registered : status[t] = "waiting"
    /\ \A t \in Begun : \A d \in Deps(t) : status[d] = "good"
    /\ \A S \in SUBSET Begun : S # {} => \E t \in S : Deps(t) \cap S = {}
    /\ verdict = "success" => \A t \in registered : status[t] = "good"
    /\ \A t \in skipped : status[t] # "waiting"

\* Nothing has begun.
LEMMA InitOrderInv == Init => OrderInv
<1> SUFFICES ASSUME Init PROVE OrderInv
    OBVIOUS
<1>1. registered \subseteq DOMAIN Pipeline
    BY DEF Init, Registered, Pipeline
<1>2. Begun = {}
  <2>1. registered \subseteq Task
      BY InitTypeOK DEF TypeOK
  <2> QED BY <2>1 DEF Init, Begun
<1> QED BY <1>1, <1>2 DEF Init, DataInit, OrderInv

\* The task that begins last is nobody's dependency: the others that have begun
\* have all that they depend on behind them.
LEMMA BeginOrderInv ==
    ASSUME TypeOK, OrderInv, NEW t \in Task, Begin(t)
    PROVE  OrderInv'
<1>1. /\ t \in registered /\ status[t] = "waiting" /\ verdict = "none" /\ verdict' = verdict
      /\ \A d \in Deps(t) : status[d] = "good"
      /\ status' = [status EXCEPT ![t] = "running"]
      /\ skipped' \subseteq skipped \cup {t}
      /\ UNCHANGED <<registered, options>>
    BY BeginChanges
<1>2. \A u : Deps(u)' = Deps(u) /\ Deps(u) \subseteq Task
    BY TableFixed DEF Next, Deps, Schedule!DependenciesOf, TypeOK
<1>3. Begun' = Begun \cup {t} /\ t \notin Begun /\ Begun \subseteq Task
    BY <1>1 DEF Begun, TypeOK
<1>4. \A d \in Task : status[d] = "good" => d # t /\ status'[d] = "good"
    BY <1>1 DEF TypeOK
<1>5. \A u \in Begun' : \A d \in Deps(u)' : status'[d] = "good"
    BY <1>1, <1>2, <1>3, <1>4 DEF OrderInv
<1>6. ASSUME NEW S \in SUBSET Begun', S # {} PROVE \E u \in S : Deps(u)' \cap S = {}
  <2>1. CASE S \ {t} = {}
    <3>1. S = {t} /\ t \notin Deps(t)
        BY <1>6, <2>1 DEF Deps, Schedule!DependenciesOf
    <3> QED BY <1>2, <3>1
  <2>2. CASE S \ {t} # {}
    <3>1. PICK u \in S \ {t} : Deps(u) \cap (S \ {t}) = {}
        BY <1>3, <2>2 DEF OrderInv
    <3>2. t \notin Deps(u)
        BY <1>1, <1>3, <3>1 DEF OrderInv
    <3> QED BY <1>2, <3>1, <3>2
  <2> QED BY <2>1, <2>2
<1>7. registered' \subseteq (DOMAIN Pipeline)'
    BY <1>1 DEF OrderInv, Pipeline
<1>8. \A u \in Task \ registered' : status'[u] = "waiting"
    BY <1>1 DEF OrderInv, TypeOK
<1>9. \A u \in skipped' : status'[u] # "waiting"
  <2>1. skipped \subseteq Task /\ DOMAIN status = Task /\ \A u \in skipped : status[u] # "waiting"
      BY NameAssumption DEF TypeOK, OrderInv
  <2>2. \A u \in Task : status'[u] = IF u = t THEN "running" ELSE status[u]
      BY <1>1, <2>1
  <2> QED BY <1>1, <2>1, <2>2
<1> QED BY <1>1, <1>5, <1>6, <1>7, <1>8, <1>9 DEF OrderInv

\* A task that ends has begun.
LEMMA EndOrderInv ==
    ASSUME TypeOK, OrderInv, NEW t \in Task, End(t)
    PROVE  OrderInv'
<1>1. PICK s \in {"good", "bad"} : status' = [status EXCEPT ![t] = s]
    BY EndChanges
<1>2. status[t] = "running" /\ UNCHANGED <<registered, options, verdict, skipped>>
    BY EndChanges
<1>3. \A u : Deps(u)' = Deps(u) /\ Deps(u) \subseteq Task
    BY TableFixed DEF Next, Deps, Schedule!DependenciesOf, TypeOK
<1>4. Begun' = Begun /\ t \in registered
    BY <1>1, <1>2 DEF Begun, TypeOK, OrderInv
<1>5. \A d \in Task : status[d] = "good" => status'[d] = "good"
    BY <1>1, <1>2 DEF TypeOK
<1>6. verdict # "success"
    BY <1>2, <1>4 DEF OrderInv
<1>7. \A u \in Begun' : \A d \in Deps(u)' : status'[d] = "good"
    BY <1>3, <1>4, <1>5 DEF OrderInv
<1>8. \A S \in SUBSET Begun' : S # {} => \E u \in S : Deps(u)' \cap S = {}
    BY <1>3, <1>4 DEF OrderInv
<1>9. registered' \subseteq (DOMAIN Pipeline)'
    BY <1>2 DEF OrderInv, Pipeline
<1>10. \A u \in Task \ registered' : status'[u] = "waiting"
    BY <1>1, <1>2, <1>4 DEF OrderInv, TypeOK
<1>11. \A u \in skipped' : status'[u] # "waiting"
  <2>1. skipped \subseteq Task
      BY NameAssumption DEF TypeOK
  <2> QED BY <1>1, <1>2, <2>1 DEF OrderInv, TypeOK
<1> QED BY <1>2, <1>6, <1>7, <1>8, <1>9, <1>10, <1>11 DEF OrderInv

\* Every step keeps the order.
LEMMA NextOrderInv ==
    ASSUME TypeOK, OrderInv, [Next]_vars
    PROVE  OrderInv'
<1>1. CASE Controlled
  <2>1. /\ UNCHANGED <<registered, status, options, skipped>>
        /\ verdict' = "success" => \A t \in registered : status[t] = "good"
      BY <1>1, ControlledChanges DEF OrderInv
  <2>2. Begun' = Begun /\ \A t : Deps(t)' = Deps(t)
      BY <1>1, <2>1, TableFixed DEF Next, Begun
  <2> QED BY <2>1, <2>2 DEF OrderInv, Pipeline
<1>2. CASE UNCHANGED vars
    BY <1>2 DEF vars, scheduleVars, dataVars, OrderInv, Begun, Deps, Schedule!DependenciesOf,
                Pipeline
<1> QED BY <1>1, <1>2, BeginOrderInv, EndOrderInv DEF Next, Over

\* What a task waits for, one dependency at a time.
LEMMA WaitsForEquation ==
    ASSUME NEW t \in registered, NEW d
    PROVE  WaitsFor(t, d) <=> \E e \in Deps(t) : e = d \/ WaitsFor(e, d)
<1>1. GP!IsGraph(Table)
    BY DEF GP!IsGraph, Table, Schedule!DependenciesOf
<1>2. \A e : Graph!CheckForCycle(Table, e, d) = GP!CheckForCycle(Table, e, d)
    BY DEF Graph!CheckForCycle, GP!CheckForCycle, Graph!Finds, GP!Finds
<1>3. ASSUME NEW e \in Deps(t)
      PROVE  Graph!CheckForCycle(Table, e, d) <=> e = d \/ WaitsFor(e, d)
  <2>1. e \in registered /\ e \in DOMAIN Table
      BY DEF Deps, Schedule!DependenciesOf, Table
  <2>2. GP!CheckForCycle(Table, e, d)
          <=> (e = d \/ \E n \in Table[e].inEdges : GP!CheckForCycle(Table, n, d))
      BY <1>1, <2>1, GP!FindsEquation
  <2>3. Table[e].inEdges = Schedule!DependenciesOf(e)
      BY <2>1 DEF Table
  <2> QED BY <1>2, <2>2, <2>3 DEF WaitsFor
<1> QED BY <1>3 DEF WaitsFor, Deps

\* A task that has begun has everything behind it that it waits for: the first
\* one of which this is not true has a dependency that is not good.
LEMMA GoodBefore ==
    ASSUME TypeOK, OrderInv, NEW t \in Begun, NEW d, WaitsFor(t, d)
    PROVE  status[d] = "good"
<1> DEFINE X == {u \in Begun : WaitsFor(u, d)}
<1> SUFFICES ASSUME status[d] # "good" PROVE FALSE
    OBVIOUS
<1>1. PICK u \in X : Deps(u) \cap X = {}
    BY DEF OrderInv
<1>2. PICK e \in Deps(u) : e = d \/ WaitsFor(e, d)
    BY <1>1, WaitsForEquation DEF Begun
<1>3. status[e] = "good" /\ e \in registered
    BY <1>1, <1>2 DEF OrderInv, Deps, Schedule!DependenciesOf
<1>4. e \in X
    BY <1>2, <1>3 DEF Begun
<1> QED BY <1>1, <1>2, <1>4

\* The types and the order hold throughout a run.
THEOREM PipelineOrder == Spec => [](TypeOK /\ OrderInv)
<1>1. TypeOK /\ OrderInv /\ [Next]_vars => TypeOK' /\ OrderInv'
    BY NextTypeOK, NextOrderInv DEF OrderInv
<1> QED BY <1>1, InitTypeOK, InitOrderInv, PTL DEF Spec

\* All variables keep their types.
THEOREM PipelineTypeCorrect == Spec => []TypeOK
BY PipelineOrder, PTL

\* Where the table orders the conflicting tasks, one of two that conflict has ended
\* when the other one begins.
LEMMA RaceFreedom ==
    ASSUME TypeOK, OrderInv, ConflictsOrdered
    PROVE  RaceFree
<1> SUFFICES ASSUME NEW t \in Running, NEW u \in Running, t # u,
                    Modified(t) \cap Touched(u) # {}
             PROVE  FALSE
    BY DEF RaceFree
<1>1. t \in Begun /\ u \in Begun /\ t \in registered /\ u \in registered
    BY DEF Running, Begun, OrderInv
<1>2. Modified(t) \subseteq MayModify(t) /\ Touched(u) \subseteq MayTouch(u)
    BY DEF Modified, Touched, MayModify, MayTouch, TypeOK
<1>3. WaitsFor(t, u) \/ WaitsFor(u, t)
    BY <1>1, <1>2 DEF ConflictsOrdered
<1> QED BY <1>1, <1>3, GoodBefore DEF Running

\* In a run whose table orders the conflicting tasks, no task changes what another
\* running task touches.
THEOREM OrderedRunsAreRaceFree == Spec => [](ConflictsOrdered => RaceFree)
BY RaceFreedom, PipelineOrder, PTL

-----------------------------------------------------------------------------
(* User defined metrics. *)

\* When a task begins, everything that it waits for is good already.
LEMMA GoodAtBegin ==
    ASSUME TypeOK, OrderInv, NEW t \in Task, Begin(t), NEW d, WaitsFor(t, d)
    PROVE  status[d] = "good"
<1>1. t \in registered /\ \A e \in Deps(t) : status[e] = "good"
    BY BeginChanges
<1>2. PICK e \in Deps(t) : e = d \/ WaitsFor(e, d)
    BY <1>1, WaitsForEquation
<1>3. e \in Begun
    BY <1>1 DEF Begun, Deps, Schedule!DependenciesOf
<1> QED BY <1>1, <1>2, <1>3, GoodBefore

\* What the tables say stays as it is.
LEMMA OrderFixed ==
    ASSUME [Next]_vars, TypeOK
    PROVE  /\ InputsProvided' <=> InputsProvided
           /\ ProfileBeforeUDM' <=> ProfileBeforeUDM
           /\ \A f : Accumulates(f)' <=> Accumulates(f)
           /\ GenealogyOrdered' <=> GenealogyOrdered
           /\ ConflictsOrdered' <=> ConflictsOrdered
<1>1. InputsProvided' <=> InputsProvided
    BY TableFixed DEF InputsProvided
<1>2. ProfileBeforeUDM' <=> ProfileBeforeUDM
    BY TableFixed DEF ProfileBeforeUDM
<1>3. \A f : Accumulates(f)' <=> Accumulates(f)
    BY TableFixed DEF Accumulates
<1>4. GenealogyOrdered' <=> GenealogyOrdered
    BY <1>3, TableFixed DEF GenealogyOrdered
<1>5. ConflictsOrdered' <=> ConflictsOrdered
    BY TableFixed DEF ConflictsOrdered, MayModify, MayTouch
<1> QED BY <1>1, <1>2, <1>3, <1>4, <1>5

\* props.runUDM is that of the command line until ProfileTask has ended; where
\* the user defined metrics wait for that, they are skipped for a good reason.
SwitchInv ==
    /\ runUDM = IF Profile \in registered /\ status[Profile] = "good" /\ ~ options.runUDMExplicit
                THEN options.profileHasUDM
                ELSE options.runUDM
    /\ ProfileBeforeUDM => UDMFollowsProfile

\* The switch begins as the command line has it.
LEMMA InitSwitchInv == Init => SwitchInv
<1> SUFFICES ASSUME Init PROVE SwitchInv
    OBVIOUS
<1>1. registered \subseteq Task
    BY InitTypeOK DEF TypeOK
<1> QED BY <1>1, NameAssumption DEF Init, DataInit, SwitchInv, UDMFollowsProfile

\* Only the end of ProfileTask changes the switch, and only the task for user
\* defined metrics looks at it.
LEMMA NextSwitchInv ==
    ASSUME TypeOK, OrderInv, SwitchInv, [Next]_vars
    PROVE  SwitchInv'
<1> USE DEF SwitchInv
<1>1. /\ registered' = registered /\ options' = options
      /\ ProfileBeforeUDM' <=> ProfileBeforeUDM
      /\ ShouldRunUDM' <=> ShouldRunUDM
    BY TableFixed, OrderFixed DEF ShouldRunUDM
<1>2. registered \subseteq Task /\ UDM \in Task /\ DOMAIN status = Task
    BY NameAssumption DEF TypeOK
<1>3. ASSUME NEW t \in Task, Begin(t) PROVE SwitchInv'
  <2>1. /\ t \in registered /\ status[t] = "waiting" /\ runUDM' = runUDM
        /\ status' = [status EXCEPT ![t] = "running"]
        /\ \/ t = UDM /\ ~ runUDM /\ skipped' = skipped \cup {t}
           \/ (t = UDM => runUDM) /\ skipped' = skipped
      BY <1>3, BeginChanges
  <2>2. \A u \in Task : status'[u] = IF u = t THEN "running" ELSE status[u]
      BY <1>2, <2>1
  <2>3. runUDM' = IF Profile \in registered' /\ status'[Profile] = "good"
                     /\ ~ options'.runUDMExplicit
                  THEN options'.profileHasUDM ELSE options'.runUDM
      BY <1>1, <1>2, <2>1, <2>2
  <2>4. ASSUME ProfileBeforeUDM, status'[UDM] # "waiting"
        PROVE  UDM \in skipped' <=> ~ ShouldRunUDM
    <3>1. CASE t = UDM
      <4>1. ~ options.runUDMExplicit => Profile \in registered /\ status[Profile] = "good"
          BY <1>3, <2>1, <2>4, <3>1, GoodAtBegin DEF ProfileBeforeUDM
      <4>2. runUDM <=> ShouldRunUDM
          BY <4>1 DEF ShouldRunUDM
      <4>3. UDM \notin skipped
          BY <2>1, <3>1 DEF OrderInv
      <4> QED BY <2>1, <3>1, <4>2, <4>3
    <3>2. CASE t # UDM
        BY <1>2, <2>1, <2>2, <2>4, <3>2 DEF UDMFollowsProfile
    <3> QED BY <3>1, <3>2
  <2> QED BY <1>1, <2>3, <2>4 DEF UDMFollowsProfile
<1>4. ASSUME NEW t \in Task, End(t) PROVE SwitchInv'
  <2>1. PICK s \in {"good", "bad"} : status' = [status EXCEPT ![t] = s]
      BY <1>4, EndChanges
  <2>2. /\ status[t] = "running" /\ skipped' = skipped
        /\ runUDM' = IF t = Profile /\ status'[t] = "good" /\ ~ options.runUDMExplicit
                     THEN options.profileHasUDM ELSE runUDM
      BY <1>4, EndChanges
  <2>3. \A u \in Task : status'[u] = IF u = t THEN s ELSE status[u]
      BY <1>2, <2>1
  <2>4. t \in registered
      BY <2>2 DEF OrderInv
  <2>5. runUDM' = IF Profile \in registered' /\ status'[Profile] = "good"
                     /\ ~ options'.runUDMExplicit
                  THEN options'.profileHasUDM ELSE options'.runUDM
      BY <1>1, <1>2, <2>2, <2>3, <2>4
  <2>6. status'[UDM] # "waiting" => status[UDM] # "waiting"
      BY <1>2, <2>2, <2>3
  <2> QED BY <1>1, <2>2, <2>5, <2>6 DEF UDMFollowsProfile
<1>5. CASE Controlled
    BY <1>1, <1>5, ControlledChanges DEF UDMFollowsProfile
<1>6. CASE UNCHANGED vars
    BY <1>1, <1>6 DEF vars, scheduleVars, dataVars, UDMFollowsProfile
<1> QED BY <1>3, <1>4, <1>5, <1>6 DEF Next, Over

\* In a run whose table makes the user defined metrics wait for the profile, they
\* are computed exactly if the command line or else the profile wants them.
THEOREM OrderedUDMFollowsProfile == Spec => [](ProfileBeforeUDM => UDMFollowsProfile)
<1>1. TypeOK /\ OrderInv /\ SwitchInv /\ [Next]_vars => SwitchInv'
    BY NextSwitchInv
<1>2. SwitchInv => (ProfileBeforeUDM => UDMFollowsProfile)
    BY DEF SwitchInv
<1> QED BY <1>1, <1>2, InitSwitchInv, PipelineOrder, PTL DEF Spec

-----------------------------------------------------------------------------
(* Files. *)

\* What a task leaves in the files when it ends well, and that nothing changes
\* them otherwise.
LEMMA ContentChanges ==
    ASSUME TypeOK, OrderInv, NEW t \in Task, End(t)
    PROVE  /\ t \in registered /\ status[t] = "running"
           /\ \A u \in Task \ {t} : status'[u] = status[u]
           /\ status'[t] \in {"good", "bad"}
           /\ \A f \in Files : content'[f] =
                  IF status'[t] # "good" \/ t \in skipped THEN content[f]
                  ELSE IF f \in Clears(t) THEN {}
                  ELSE IF f \in Writes(t) THEN seen[t] \cup {t}
                  ELSE content[f]
           /\ skipped' = skipped /\ seen' = seen
<1>1. PICK s \in {"good", "bad"} : status' = [status EXCEPT ![t] = s]
    BY EndChanges
<1>2. /\ status[t] = "running" /\ skipped' = skipped /\ seen' = seen
      /\ content' = IF status'[t] = "good" /\ t \notin skipped THEN ContentAfter(t) ELSE content
    BY EndChanges
<1>3. \A u \in Task : status'[u] = IF u = t THEN s ELSE status[u]
    BY <1>1 DEF TypeOK
<1>4. t \in registered
    BY <1>2 DEF OrderInv
<1> QED BY <1>2, <1>3, <1>4 DEF ContentAfter

\* What a task that has ended well has written is there, unless a task has cleared
\* it that need not come first.
WrittenInv ==
    \A w \in registered \ {UDM} : \A f \in Writes(w) \ Clears(w) :
        status[w] = "good" =>
            \/ content[f] # {}
            \/ \E c \in registered : /\ status[c] = "good" /\ f \in Clears(c)
                                     /\ ~ WaitsFor(w, c)

\* No task has ended when a run begins.
LEMMA InitWrittenInv == Init => WrittenInv
<1> SUFFICES ASSUME Init PROVE WrittenInv
    OBVIOUS
<1>1. registered \subseteq Task
    BY InitTypeOK DEF TypeOK
<1> QED BY <1>1 DEF Init, DataInit, WrittenInv

\* A task that clears what another has written was not one that it had to wait for.
LEMMA NextWrittenInv ==
    ASSUME TypeOK, OrderInv, WrittenInv, [Next]_vars
    PROVE  WrittenInv'
<1>1. /\ registered' = registered /\ registered \subseteq Task
      /\ \A t : Writes(t)' = Writes(t) /\ Clears(t)' = Clears(t)
      /\ \A t, d : WaitsFor(t, d)' <=> WaitsFor(t, d)
    BY TableFixed DEF TypeOK
<1>2. ASSUME NEW t \in Task, Begin(t) PROVE WrittenInv'
  <2>1. status[t] = "waiting" /\ status' = [status EXCEPT ![t] = "running"] /\ content' = content
      BY <1>2, BeginChanges
  <2>2. \A u \in Task : status'[u] = "good" <=> status[u] = "good"
      BY <2>1 DEF TypeOK
  <2> QED BY <1>1, <2>1, <2>2 DEF WrittenInv
<1>3. ASSUME NEW t \in Task, End(t) PROVE WrittenInv'
  <2>1. SUFFICES ASSUME NEW w \in registered, w # UDM, NEW f \in Writes(w) \ Clears(w),
                        status'[w] = "good", content'[f] = {}
                 PROVE  \E c \in registered : /\ status'[c] = "good" /\ f \in Clears(c)
                                              /\ ~ WaitsFor(w, c)
      BY <1>1 DEF WrittenInv
  <2>2. f \in Files /\ w \in Task
      BY <1>1, FilesNamed DEF OrderInv
  <2>3. w \notin skipped
      BY <2>1 DEF TypeOK
  <2>4. w # t
      BY <1>3, <2>1, <2>2, <2>3, ContentChanges
  <2>5. status[w] = "good" /\ w \in Begun
      BY <1>3, <2>1, <2>2, <2>4, ContentChanges DEF Begun
  <2>6. CASE content[f] # {}
    <3>1. status'[t] = "good" /\ f \in Clears(t) /\ t \in registered /\ status[t] = "running"
        BY <1>3, <2>1, <2>2, <2>6, ContentChanges
    <3>2. ~ WaitsFor(w, t)
        BY <2>5, <3>1, GoodBefore
    <3> QED BY <3>1, <3>2
  <2>7. CASE content[f] = {}
    <3>1. PICK c \in registered : status[c] = "good" /\ f \in Clears(c) /\ ~ WaitsFor(w, c)
        BY <2>1, <2>5, <2>7 DEF WrittenInv
    <3>2. status'[c] = "good"
        BY <1>1, <1>3, <3>1, ContentChanges
    <3> QED BY <3>1, <3>2
  <2> QED BY <2>6, <2>7
<1>4. CASE Controlled
    BY <1>1, <1>4, ControlledChanges DEF WrittenInv
<1>5. CASE UNCHANGED vars
    BY <1>1, <1>5 DEF vars, scheduleVars, dataVars, WrittenInv
<1> QED BY <1>2, <1>3, <1>4, <1>5 DEF Next, Over

\* In a run whose table provides for the inputs, a task that runs has the files
\* that it cannot do without, until it ends.
THEOREM OrderedRunsHaveInputs == Spec => [](InputsProvided => InputsPresent)
<1>1. TypeOK /\ OrderInv /\ WrittenInv => (InputsProvided => InputsPresent)
  <2> SUFFICES ASSUME TypeOK, OrderInv, WrittenInv, InputsProvided,
                      NEW t \in Running \ skipped, NEW f \in Reads(t), content[f] = {}
               PROVE  FALSE
      BY DEF InputsPresent
  <2>1. t \in registered /\ t \in Begun /\ status[t] = "running"
      BY DEF Running, Begun, OrderInv
  <2>2. PICK w \in registered \ {UDM} :
            /\ WaitsFor(t, w)
            /\ f \in Writes(w) \ Clears(w)
            /\ \A c \in registered : f \in Clears(c) => WaitsFor(w, c) \/ WaitsFor(c, t)
      BY <2>1 DEF InputsProvided
  <2>3. status[w] = "good"
      BY <2>1, <2>2, GoodBefore
  <2>4. PICK c \in registered : status[c] = "good" /\ f \in Clears(c) /\ ~ WaitsFor(w, c)
      BY <2>2, <2>3 DEF WrittenInv
  <2>5. WaitsFor(c, t) /\ c \in Begun
      BY <2>2, <2>4 DEF Begun
  <2> QED BY <2>1, <2>5, GoodBefore
<1>2. TypeOK /\ OrderInv /\ WrittenInv /\ [Next]_vars => WrittenInv'
    BY NextWrittenInv
<1> QED BY <1>1, <1>2, InitWrittenInv, PipelineOrder, PTL DEF Spec

-----------------------------------------------------------------------------
(* Results. *)

\* What has gone into the work of w is in each file that accumulates and that w has
\* written, and in the work of each task that waits for w and reads such a file.
CarriedInv ==
    \A w \in registered \ skipped : \A f \in Writes(w) :
        Accumulates(f) =>
            /\ status[w] = "good" => seen[w] \cup {w} \subseteq content[f]
            /\ \A t \in Begun \ skipped :
                   WaitsFor(t, w) /\ f \in Inputs(t) => seen[w] \cup {w} \subseteq seen[t]

\* Nothing has been done when a run begins.
LEMMA InitCarriedInv == Init => CarriedInv
<1> SUFFICES ASSUME Init PROVE CarriedInv
    OBVIOUS
<1>1. registered \subseteq Task
    BY InitTypeOK DEF TypeOK
<1> QED BY <1>1 DEF Init, DataInit, CarriedInv, Begun

\* A task that begins reads the files that those it waits for have written.
LEMMA BeginCarriedInv ==
    ASSUME TypeOK, OrderInv, CarriedInv, NEW u \in Task, Begin(u)
    PROVE  CarriedInv'
<1>1. /\ registered' = registered /\ registered \subseteq Task
      /\ \A t : Writes(t)' = Writes(t) /\ Clears(t)' = Clears(t) /\ Inputs(t)' = Inputs(t)
      /\ \A t, d : WaitsFor(t, d)' <=> WaitsFor(t, d)
      /\ \A f : Accumulates(f)' <=> Accumulates(f)
    BY TableFixed, OrderFixed DEF TypeOK, Next
<1>2. /\ u \in registered /\ status[u] = "waiting"
      /\ status' = [status EXCEPT ![u] = "running"] /\ content' = content
    BY BeginChanges
<1>3. /\ skipped \subseteq skipped' /\ skipped' \subseteq skipped \cup {u}
      /\ u \notin skipped' => seen'[u] = UNION {content[f] : f \in Inputs(u)}
      /\ \A t \in Task \ {u} : seen'[t] = seen[t]
    BY BeginReads
<1>4. \A t \in Task : status'[t] = IF t = u THEN "running" ELSE status[t]
    BY <1>2 DEF TypeOK
<1>5. Begun' \subseteq Begun \cup {u}
    BY <1>1, <1>4 DEF Begun
<1> SUFFICES ASSUME NEW w \in registered \ skipped', NEW f \in Writes(w), Accumulates(f)
             PROVE  /\ status'[w] = "good" => seen'[w] \cup {w} \subseteq content'[f]
                    /\ \A t \in Begun' \ skipped' :
                           WaitsFor(t, w) /\ f \in Inputs(t) => seen'[w] \cup {w} \subseteq seen'[t]
    BY <1>1 DEF CarriedInv
<1>6. w \in registered \ skipped /\ (status[w] = "good" => w # u)
    BY <1>2, <1>3
<1>7. status[w] = "good" => seen[w] \cup {w} \subseteq content[f] /\ seen'[w] = seen[w]
    BY <1>1, <1>3, <1>6 DEF CarriedInv
<1>8. status'[w] = "good" => seen'[w] \cup {w} \subseteq content'[f]
    BY <1>1, <1>2, <1>4, <1>7
<1>9. ASSUME NEW t \in Begun' \ skipped', WaitsFor(t, w), f \in Inputs(t)
      PROVE  seen'[w] \cup {w} \subseteq seen'[t]
  <2>1. CASE t = u
    <3>1. status[w] = "good"
        BY <1>9, <2>1, GoodAtBegin
    <3>2. seen'[u] = UNION {content[g] : g \in Inputs(u)}
        BY <1>3, <1>9, <2>1
    <3>3. content[f] \subseteq seen'[u]
        BY <1>9, <2>1, <3>2
    <3> QED BY <1>7, <2>1, <3>1, <3>3
  <2>2. CASE t # u
    <3>1. t \in Begun \ skipped
        BY <1>3, <1>5, <1>9, <2>2
    <3>2. status[w] = "good"
        BY <1>9, <3>1, GoodBefore
    <3>3. seen[w] \cup {w} \subseteq seen[t]
        BY <1>6, <1>9, <3>1 DEF CarriedInv
    <3>4. seen'[t] = seen[t]
        BY <1>1, <1>3, <2>2, <3>1 DEF Begun
    <3> QED BY <1>7, <3>2, <3>3, <3>4
  <2> QED BY <2>1, <2>2
<1> QED BY <1>8, <1>9

\* A task that ends has read what the others that write the file have left in it.
LEMMA EndCarriedInv ==
    ASSUME TypeOK, OrderInv, CarriedInv, NEW u \in Task, End(u)
    PROVE  CarriedInv'
<1>1. /\ registered' = registered /\ registered \subseteq Task
      /\ \A t : Writes(t)' = Writes(t) /\ Clears(t)' = Clears(t) /\ Inputs(t)' = Inputs(t)
      /\ \A t, d : WaitsFor(t, d)' <=> WaitsFor(t, d)
      /\ \A f : Accumulates(f)' <=> Accumulates(f)
    BY TableFixed, OrderFixed DEF TypeOK, Next
<1>2. /\ u \in registered /\ status[u] = "running" /\ status'[u] \in {"good", "bad"}
      /\ \A t \in Task \ {u} : status'[t] = status[t]
      /\ skipped' = skipped /\ seen' = seen
    BY ContentChanges
<1>3. Begun' = Begun /\ u \in Begun
    BY <1>1, <1>2 DEF Begun
<1> SUFFICES ASSUME NEW w \in registered \ skipped, NEW f \in Writes(w), Accumulates(f),
                    status'[w] = "good"
             PROVE  seen[w] \cup {w} \subseteq content'[f]
    BY <1>1, <1>2, <1>3 DEF CarriedInv
<1>4. f \in Files
    BY FilesNamed DEF OrderInv
<1>5. CASE w = u
  <2>1. f \notin Clears(w)
      BY DEF Accumulates
  <2> QED BY <1>4, <1>5, <2>1, ContentChanges
<1>6. CASE w # u
  <2>1. status[w] = "good" /\ w \in Begun
      BY <1>1, <1>2, <1>6 DEF Begun
  <2>2. seen[w] \cup {w} \subseteq content[f] /\ ~ WaitsFor(w, u)
      BY <1>2, <2>1, GoodBefore DEF CarriedInv
  <2>3. f \notin Clears(u)
      BY <1>2, <2>2 DEF Accumulates
  <2>4. CASE f \notin Writes(u) \/ status'[u] # "good" \/ u \in skipped
      BY <1>4, <2>2, <2>3, <2>4, ContentChanges
  <2>5. CASE f \in Writes(u) /\ status'[u] = "good" /\ u \notin skipped
    <3>1. WaitsFor(u, w) /\ f \in Inputs(u)
        BY <1>2, <1>6, <2>2, <2>5 DEF Accumulates
    <3>2. seen[w] \cup {w} \subseteq seen[u]
        BY <1>3, <2>5, <3>1 DEF CarriedInv
    <3>3. content'[f] = seen[u] \cup {u}
        BY <1>4, <2>3, <2>5, ContentChanges
    <3> QED BY <3>2, <3>3
  <2> QED BY <2>4, <2>5
<1> QED BY <1>5, <1>6

\* Every step carries the results on.
LEMMA NextCarriedInv ==
    ASSUME TypeOK, OrderInv, CarriedInv, [Next]_vars
    PROVE  CarriedInv'
<1>1. ASSUME UNCHANGED <<status, skipped, content, seen>> PROVE CarriedInv'
  <2>1. /\ registered' = registered
        /\ \A t : Writes(t)' = Writes(t) /\ Inputs(t)' = Inputs(t)
        /\ \A t, d : WaitsFor(t, d)' <=> WaitsFor(t, d)
        /\ \A f : Accumulates(f)' <=> Accumulates(f)
      BY TableFixed, OrderFixed
  <2>2. Begun' = Begun
      BY <1>1, <2>1 DEF Begun
  <2> QED BY <1>1, <2>1, <2>2 DEF CarriedInv
<1>2. CASE Controlled
    BY <1>1, <1>2, ControlledChanges
<1>3. CASE UNCHANGED vars
    BY <1>1, <1>3 DEF vars, scheduleVars, dataVars
<1> QED BY <1>2, <1>3, BeginCarriedInv, EndCarriedInv DEF Next, Over

\* What a task that has begun was handed over by one that it waits for.
LEMMA HandedOver ==
    ASSUME TypeOK, OrderInv, CarriedInv, NEW t \in Begun \ skipped,
           NEW w \in registered \ skipped, HandsOver(w, t)
    PROVE  seen[w] \cup {w} \subseteq seen[t]
BY DEF HandsOver, CarriedInv

\* In a run whose table leads the results of every task to the dump, the dump is
\* made from a graph with all of them, whatever the order in which they came.
THEOREM OrderedRunsDumpEverything ==
    Spec => [](ProfileBeforeUDM /\ ResultsReachDump => DumpComplete)
<1>1. TypeOK /\ OrderInv /\ SwitchInv /\ CarriedInv
          => (ProfileBeforeUDM /\ ResultsReachDump => DumpComplete)
  <2> SUFFICES ASSUME TypeOK, OrderInv, SwitchInv, CarriedInv,
                      ProfileBeforeUDM, ResultsReachDump, Dump \in Worked, NEW t \in Contributors
               PROVE  t \in seen[Dump]
      BY DEF DumpComplete
  <2>1. Dump \in registered /\ Dump \in Begun \ skipped
      BY DEF Worked, Begun, OrderInv
  <2>2. t \in registered \ skipped
    <3>1. CASE t = UDM
      <4>1. UDM \in skipped => status[UDM] # "waiting"
          BY DEF OrderInv
      <4> QED BY <3>1, <4>1 DEF SwitchInv, UDMFollowsProfile, Contributors
    <3>2. CASE t # UDM
        BY <3>2 DEF TypeOK, Contributors
    <3> QED BY <3>1, <3>2
  <2>3. CASE HandsOver(t, Dump)
      BY <2>1, <2>2, <2>3, HandedOver
  <2>4. CASE Merge \in registered /\ HandsOver(t, Merge) /\ HandsOver(Merge, Dump)
    <3>1. status[Merge] = "good"
        BY <2>1, <2>4, GoodBefore DEF HandsOver
    <3>2. Merge \notin skipped
        BY DEF TypeOK, Merge, UDM
    <3>3. Merge \in Begun
        BY <2>4, <3>1 DEF Begun
    <3>4. t \in seen[Merge]
        BY <2>2, <2>4, <3>2, <3>3, HandedOver
    <3>5. seen[Merge] \subseteq seen[Dump]
        BY <2>1, <2>4, <3>2, HandedOver
    <3> QED BY <3>4, <3>5
  <2> QED BY <2>1, <2>3, <2>4 DEF ResultsReachDump
<1>2. TypeOK /\ OrderInv /\ CarriedInv /\ [Next]_vars => CarriedInv'
    BY NextCarriedInv
<1>3. TypeOK /\ OrderInv /\ SwitchInv /\ [Next]_vars => SwitchInv'
    BY NextSwitchInv
<1> QED BY <1>1, <1>2, <1>3, InitCarriedInv, InitSwitchInv, PipelineOrder, PTL DEF Spec

-----------------------------------------------------------------------------
(* The genealogy. *)

\* With -cleanResults:0 the genealogy of an earlier run is in its own file only,
\* until the first task that removes it, and nobody has read it.
FreshInv ==
    (/\ GenealogyOrdered /\ Dcf \in registered
     /\ options.cloneGenealogy /\ options.cleanResults = 0) =>
        /\ \A f \in Files : "earlier run" \in content[f] =>
               /\ f = "gsi"
               /\ \A c \in registered \ {UDM} : "gsi" \in Clears(c) => status[c] # "good"
        /\ \A t \in Task : "earlier run" \notin seen[t]

\* Nothing has been cleared and nothing read when a run begins.
LEMMA InitFreshInv == Init => FreshInv
<1> SUFFICES ASSUME Init PROVE FreshInv
    OBVIOUS
<1>1. registered \subseteq Task
    BY InitTypeOK DEF TypeOK
<1> QED BY <1>1 DEF Init, DataInit, FreshInv

\* The clone detector reads the file after it has been cleared.
LEMMA NextFreshInv ==
    ASSUME TypeOK, OrderInv, FreshInv, [Next]_vars
    PROVE  FreshInv'
<1>1. /\ registered' = registered /\ registered \subseteq Task /\ options' = options
      /\ \A t : Clears(t)' = Clears(t)
      /\ GenealogyOrdered' <=> GenealogyOrdered
    BY TableFixed, OrderFixed DEF TypeOK
<1> SUFFICES ASSUME GenealogyOrdered, Dcf \in registered,
                    options.cloneGenealogy, options.cleanResults = 0
             PROVE  /\ \A f \in Files : "earlier run" \in content'[f] =>
                        /\ f = "gsi"
                        /\ \A c \in registered \ {UDM} :
                               "gsi" \in Clears(c) => status'[c] # "good"
                    /\ \A t \in Task : "earlier run" \notin seen'[t]
    BY <1>1 DEF FreshInv
<1>2. /\ \A f \in Files : "earlier run" \in content[f] =>
             /\ f = "gsi"
             /\ \A c \in registered \ {UDM} : "gsi" \in Clears(c) => status[c] # "good"
      /\ \A t \in Task : "earlier run" \notin seen[t]
    BY DEF FreshInv
<1>3. ASSUME NEW t \in Task, Begin(t)
      PROVE  /\ \A f \in Files : "earlier run" \in content'[f] =>
                  /\ f = "gsi"
                  /\ \A c \in registered \ {UDM} : "gsi" \in Clears(c) => status'[c] # "good"
             /\ \A u \in Task : "earlier run" \notin seen'[u]
  <2>1. /\ t \in registered /\ status' = [status EXCEPT ![t] = "running"] /\ content' = content
      BY <1>3, BeginChanges
  <2>2. \A u \in Task : status'[u] = "good" => status[u] = "good"
      BY <2>1 DEF TypeOK
  <2>3. ASSUME NEW f \in Inputs(t) PROVE "earlier run" \notin content[f]
    <3>1. f \in Files
        BY <2>1, FilesNamed DEF OrderInv
    <3>2. CASE f # "gsi"
        BY <1>2, <3>1, <3>2
    <3>3. CASE f = "gsi"
      <4>1. t = Dcf
          BY <2>1, <3>3 DEF GenealogyOrdered
      <4>2. PICK c \in registered \ {UDM} : "gsi" \in Clears(c) /\ WaitsFor(Dcf, c)
          BY DEF GenealogyOrdered
      <4>3. status[c] = "good"
          BY <1>3, <4>1, <4>2, GoodAtBegin
      <4> QED BY <1>2, <3>1, <4>2, <4>3
    <3> QED BY <3>2, <3>3
  <2>4. \A u \in Task : "earlier run" \notin seen'[u]
    <3>1. "earlier run" \notin UNION {content[f] : f \in Inputs(t)}
        BY <2>3
    <3>2. seen'[t] \in {seen[t], UNION {content[f] : f \in Inputs(t)}}
        BY <1>3, BeginReads
    <3>3. "earlier run" \notin seen'[t]
        BY <1>2, <3>1, <3>2
    <3> QED BY <1>2, <1>3, <3>3, BeginReads
  <2> QED BY <1>1, <1>2, <2>1, <2>2, <2>4
<1>4. ASSUME NEW t \in Task, End(t)
      PROVE  /\ \A f \in Files : "earlier run" \in content'[f] =>
                  /\ f = "gsi"
                  /\ \A c \in registered \ {UDM} : "gsi" \in Clears(c) => status'[c] # "good"
             /\ \A u \in Task : "earlier run" \notin seen'[u]
  <2>1. "earlier run" \notin seen[t] \cup {t}
      BY <1>2, NameAssumption
  <2>2. ASSUME NEW f \in Files, "earlier run" \in content'[f]
        PROVE  /\ "earlier run" \in content[f]
               /\ status'[t] = "good" /\ t \notin skipped => f \notin Clears(t)
      BY <1>4, <2>1, <2>2, ContentChanges
  <2>3. \A c \in registered \ {UDM} : c \notin skipped /\ c \in Task
      BY <1>1 DEF TypeOK
  <2> QED BY <1>2, <1>4, <2>2, <2>3, ContentChanges
<1>5. CASE Controlled
    BY <1>2, <1>5, ControlledChanges
<1>6. CASE UNCHANGED vars
    BY <1>2, <1>6 DEF vars, scheduleVars, dataVars
<1> QED BY <1>3, <1>4, <1>5, <1>6 DEF Next, Over

\* In a run whose table orders the tasks that touch the genealogy, a run that
\* succeeds leaves this run's clones in it, and -cleanResults:0 hides the old ones.
THEOREM OrderedRunsKeepGenealogy == Spec => [](GenealogyOrdered => GenealogyKept)
<1>1. TypeOK /\ OrderInv /\ CarriedInv /\ FreshInv => (GenealogyOrdered => GenealogyKept)
  <2> SUFFICES ASSUME TypeOK, OrderInv, CarriedInv, FreshInv, GenealogyOrdered,
                      Dcf \in registered, options.cloneGenealogy
               PROVE  /\ verdict = "success" => Dcf \in content["gsi"]
                      /\ Dcf \in Worked /\ options.cleanResults = 0
                             => "earlier run" \notin seen[Dcf]
      BY DEF GenealogyKept
  <2>1. ASSUME verdict = "success" PROVE Dcf \in content["gsi"]
    <3>1. status[Dcf] = "good" /\ Dcf \notin skipped
        BY <2>1 DEF OrderInv, TypeOK, Dcf, UDM
    <3>2. "gsi" \in Writes(Dcf) /\ Accumulates("gsi")
        BY DEF GenealogyOrdered
    <3> QED BY <3>1, <3>2 DEF CarriedInv
  <2>2. Dcf \in Task
      BY DEF TypeOK
  <2> QED BY <2>1, <2>2 DEF FreshInv
<1>2. TypeOK /\ OrderInv /\ CarriedInv /\ [Next]_vars => CarriedInv'
    BY NextCarriedInv
<1>3. TypeOK /\ OrderInv /\ FreshInv /\ [Next]_vars => FreshInv'
    BY NextFreshInv
<1> QED BY <1>1, <1>2, <1>3, InitCarriedInv, InitFreshInv, PipelineOrder, PTL DEF Spec

-----------------------------------------------------------------------------
(* All together. *)

\* A table that is in order stays so.
LEMMA TableStaysOrdered ==
    ASSUME [Next]_vars, TypeOK
    PROVE  TableOrdered' <=> TableOrdered
<1>1. UNCHANGED <<registered, options>> /\ ShouldRunUDM' = ShouldRunUDM
    BY TableFixed DEF ShouldRunUDM
<1>2. Contributors' = Contributors
    BY <1>1, TableFixed DEF Contributors
<1>3. \A w, t : HandsOver(w, t)' <=> HandsOver(w, t)
    BY TableFixed, OrderFixed DEF HandsOver
<1>4. ResultsReachDump' <=> ResultsReachDump
    BY <1>1, <1>2, <1>3 DEF ResultsReachDump
<1> QED BY <1>4, OrderFixed DEF TableOrdered

\* A run whose table is in order works on the right data from beginning to end.
THEOREM OrderedRunsHandOver ==
    Spec /\ TableOrdered
        => [](RaceFree /\ InputsPresent /\ DumpComplete /\ UDMFollowsProfile /\ GenealogyKept)
<1>1. TableOrdered => /\ ConflictsOrdered /\ InputsProvided /\ ProfileBeforeUDM
                      /\ ResultsReachDump /\ GenealogyOrdered
    BY DEF TableOrdered
<1>2. Spec /\ TableOrdered => []TableOrdered
    BY TableStaysOrdered, PipelineTypeCorrect, PTL DEF Spec
<1> QED BY <1>1, <1>2, OrderedRunsAreRaceFree, OrderedRunsHaveInputs, OrderedRunsDumpEverything,
           OrderedUDMFollowsProfile, OrderedRunsKeepGenealogy, PTL

=============================================================================
