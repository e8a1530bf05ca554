------------------------- MODULE DependencySchedule -------------------------
(***************************************************************************)
(* What executing a set of tasks with dependencies means, without threads,  *)
(* futures or a graph that is consumed along the way.                       *)
(*                                                                         *)
(* A task may start when every registered task it depends on has ended      *)
(* acceptably; a task starts at most once; the execution ends well only     *)
(* when all registered tasks ended acceptably.  Once an unacceptable result *)
(* has been noticed nothing starts any more, and the execution ends badly.  *)
(* Controller.tla is shown to implement this specification.                 *)
(***************************************************************************)
CONSTANTS Task,                \* names of tasks
          DependencyChoices    \* possible dependencies: subset of [Task -> SUBSET Task]

VARIABLES registered,   \* the tasks to execute
          dependsOn,    \* [Task -> SUBSET Task]
          status,       \* [Task -> what became of the task]
          stopped,      \* an unacceptable result has been noticed
          verdict       \* "none", "rejected", "failure" or "success"

vars == <<registered, dependsOn, status, stopped, verdict>>

Statuses == {"waiting", "running", "good", "bad"}

DependenciesOf(t) == (dependsOn[t] \cap registered) \ {t}

\* Dependencies can be met iff no set of registered tasks depends on itself.
Satisfiable == \A S \in SUBSET registered :
                    S # {} => \E t \in S : DependenciesOf(t) \cap S = {}

-----------------------------------------------------------------------------
Init == /\ registered = {}
        /\ dependsOn \in DependencyChoices
        /\ status = [t \in Task |-> "waiting"]
        /\ stopped = FALSE
        /\ verdict = "none"

Become(t, s) == status' = [status EXCEPT ![t] = s]

Register(t) == /\ verdict = "none"
               /\ \A u \in Task : status[u] = "waiting"
               /\ t \notin registered
               /\ registered' = registered \cup {t}
               /\ UNCHANGED <<dependsOn, status, stopped, verdict>>

Reject == /\ verdict = "none"
          /\ ~ Satisfiable
          /\ \A t \in Task : status[t] = "waiting"
          /\ verdict' = "rejected"
          /\ UNCHANGED <<registered, dependsOn, status, stopped>>

\* Start, but for the check that buildGraph made once for all tasks.
Launch(t) == /\ verdict = "none"
             /\ ~ stopped
             /\ t \in registered
             /\ status[t] = "waiting"
             /\ \A d \in DependenciesOf(t) : status[d] = "good"
             /\ Become(t, "running")
             /\ UNCHANGED <<registered, dependsOn, stopped, verdict>>

Start(t) == Satisfiable /\ Launch(t)

Finish(t) == /\ status[t] = "running"
             /\ \E s \in {"good", "bad"} : Become(t, s)
             /\ UNCHANGED <<registered, dependsOn, stopped, verdict>>

NoticeFailure == /\ \E t \in registered : status[t] = "bad"
                 /\ stopped' = TRUE
                 /\ UNCHANGED <<registered, dependsOn, status, verdict>>

Conclude == /\ verdict = "none"
            /\ IF stopped
               THEN /\ \A t \in registered : status[t] # "running"
                    /\ verdict' = "failure"
               ELSE /\ \A t \in registered : status[t] = "good"
                    /\ verdict' = "success"
            /\ UNCHANGED <<registered, dependsOn, status, stopped>>

Next == \/ \E t \in Task : Register(t) \/ Start(t) \/ Finish(t)
        \/ Reject
        \/ NoticeFailure
        \/ Conclude

Spec == Init /\ [][Next]_vars

=============================================================================
