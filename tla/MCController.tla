---------------------------- MODULE MCController ----------------------------
(* Programs of three tasks, with dependency graphs of different shapes. *)
EXTENDS AnalysisProgram, TaskTables, Integers, TLC

t1 == "ProfileTask"
t2 == "GraphMergeTask"
t3 == "UserDefinedMetricsTask"

AllTasks == {t1, t2, t3}

Depends(f1, f2, f3) == (t1 :> f1) @@ (t2 :> f2) @@ (t3 :> f3)

Shapes == [chain    |-> Depends({}, {t1}, {t2}),          \* t1 -> t2 -> t3
           fork     |-> Depends({}, {t1}, {t1}),
           join     |-> Depends({}, {}, {t1, t2, t3}),    \* ... and on itself
           shortcut |-> Depends({}, {t1}, {t1, t2}),
           cycle    |-> Depends({}, {t3}, {t1, t2})]      \* t2 <-> t3

\* Each task writes a file of its own and uses those of the tasks it depends on; in
\* a chain, all of them rewrite one file.
FileOf == (t1 :> "UDM.rul") @@ (t2 :> "graph") @@ (t3 :> "metrics")

SmallProgram(depends, shared) ==
    [always |-> {},
     tasks |-> [t \in AllTasks |-> Entry(depends[t], {}, {FileOf[d] : d \in depends[t]} \cup shared,
                                         {FileOf[t]} \cup shared)]]

SmallPrograms ==
    [s \in DOMAIN Shapes |->
        SmallProgram(Shapes[s], IF s \in {"chain", "shortcut"} THEN {"summary"} ELSE {})]

AllShapes == {[t \in AllTasks |-> Shapes[s][t]] : s \in DOMAIN Shapes}

Run(program, tools, explicit, run, has) ==
    [program |-> program, tools |-> tools, cleanResults |-> -1, cloneGenealogy |-> TRUE,
     runUDMExplicit |-> explicit, runUDM |-> run, profileHasUDM |-> has]

\* All tasks, and the profile has the last word; a part of them, as the command line
\* says; and a command line that the profile does not live up to.
Runs == {Run(s, {t1, t2}, FALSE, FALSE, s \in {"chain", "join"}) : s \in DOMAIN Shapes}
            \cup {Run("fork", {t1, t2}, TRUE, FALSE, TRUE), Run("chain", {t2}, TRUE, TRUE, TRUE),
                  Run("shortcut", {t1}, FALSE, FALSE, TRUE), Run("fork", {t1}, TRUE, TRUE, FALSE)}

=============================================================================
