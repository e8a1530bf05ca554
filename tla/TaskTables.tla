----------------------------- MODULE TaskTables -----------------------------
(***************************************************************************)
(* What the tables of tasks of the four languages have in common.  An entry *)
(* describes one subclass of controller::Task: "after" are the names that   *)
(* its constructor passes to addDependsOn, the others are what execute()    *)
(* hands to the tools it runs.                                              *)
(*                                                                         *)
(* Names of files are short: "lim" is asgDir/<project>.lim, "X.graph" is    *)
(* graphDir/<project>-X.graph, "graph" and "summary" are the merged graphs  *)
(* in the result directory, "gsi" is the genealogy of the clones, which     *)
(* outlives a run, "X.rul", "X.threshold" are in tempDir, "props.x" are     *)
(* fields of Properties.  Outputs that no other task reads are left out.    *)
(***************************************************************************)

\* reads: must be there; uses: read when it is there.
Entry(after, reads, uses, writes) ==
    [after |-> after, reads |-> reads, uses |-> uses, writes |-> writes, clears |-> {}]

\* A task that removes files.
Cleaner(after, clears) ==
    [after |-> after, reads |-> {}, uses |-> {}, writes |-> {}, clears |-> clears]

ToolOptions == {"props.runUDM", "UDM.rul", "MetricHunter.threshold", "props.patterns"}

=============================================================================
