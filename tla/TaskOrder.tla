------------------------------ MODULE TaskOrder ------------------------------
(***************************************************************************)
(* What a table of tasks must say, for the options of a run, so that the    *)
(* hand-over of data is right whatever the schedule.  Everything here can   *)
(* be read off the table and the options before a task has run, so it can   *)
(* be checked for every command line; PipelineProofs.tla proves that it is  *)
(* enough.                                                                  *)
(***************************************************************************)
EXTENDS AnalysisPipeline

\* The graph that buildGraph makes of the registered tasks, with the edges that
\* its walk for cycles follows.
Table == [t \in registered |-> [inEdges  |-> Schedule!DependenciesOf(t),
                                outEdges |-> {}]]

Graph == INSTANCE DependencyGraph WITH Key <- Task, nodeMap <- Table

\* t starts after d has ended well: it depends on it, directly or not.
WaitsFor(t, d) == \E e \in Schedule!DependenciesOf(t) : Graph!CheckForCycle(Table, e, d)

MayModify(t) == Clears(t) \cup Writes(t)

MayTouch(t) == Inputs(t) \cup MayModify(t) \cup (IF t = UDM THEN {"props.runUDM"} ELSE {})

\* Two tasks wait, one for the other, if one changes what the other touches: a
\* table that forgets it lets them lose each other's updates.
ConflictsOrdered ==
    \A t, u \in registered :
        (t # u /\ MayModify(t) \cap MayTouch(u) # {}) => WaitsFor(t, u) \/ WaitsFor(u, t)

\* Each file that a task cannot do without is written by a task it waits for, and
\* is cleared before that or after the task has ended.
InputsProvided ==
    \A t \in registered : \A f \in Reads(t) :
        \E w \in registered \ {UDM} :
            /\ WaitsFor(t, w)
            /\ f \in Writes(w) \ Clears(w)
            /\ \A c \in registered : f \in Clears(c) => WaitsFor(w, c) \/ WaitsFor(c, t)

\* UserDefinedMetricsTask looks at props.runUDM after ProfileTask has set it.
ProfileBeforeUDM ==
    (UDM \in registered /\ ~ options.runUDMExplicit)
        => Profile \in registered /\ WaitsFor(UDM, Profile)

\* Of two tasks that write f the later one reads what the earlier one has
\* written, and nothing clears f once it is written.
Accumulates(f) ==
    /\ \A v, w \in registered :
            (v # w /\ f \in Writes(v) \cap Writes(w))
                => \/ WaitsFor(w, v) /\ f \in Inputs(w)
                   \/ WaitsFor(v, w) /\ f \in Inputs(v)
    /\ \A c, w \in registered : f \in Clears(c) \cap Writes(w) => WaitsFor(w, c)
    /\ \A w \in registered : f \notin Clears(w) \cap Writes(w)

\* What has gone into the work of w has gone into that of t when t starts.
HandsOver(w, t) == /\ WaitsFor(t, w)
                   /\ \E f \in Writes(w) \cap Inputs(t) : Accumulates(f)

\* The results of every enabled tool find their way to the dump, through the
\* merge or by a change of the merged graph.
ResultsReachDump ==
    Dump \in registered =>
        \A t \in Contributors : \/ HandsOver(t, Dump)
                                \/ /\ Merge \in registered
                                   /\ HandsOver(t, Merge)
                                   /\ HandsOver(Merge, Dump)

\* The genealogy is written by the clone detector and not cleared after it; with
\* -cleanResults:0 it is cleared before, and nobody else carries the old one on.
GenealogyOrdered ==
    (Dcf \in registered /\ options.cloneGenealogy) =>
        /\ "gsi" \in Writes(Dcf)
        /\ Accumulates("gsi")
        /\ options.cleanResults = 0 =>
              /\ \E c \in registered \ {UDM} : "gsi" \in Clears(c) /\ WaitsFor(Dcf, c)
              /\ \A t \in registered \ {Dcf} : "gsi" \notin Inputs(t)

\* All of this: whatever runs of this table do, they do it in a right order.
TableOrdered == /\ ConflictsOrdered
                /\ InputsProvided
                /\ ProfileBeforeUDM
                /\ ResultsReachDump
                /\ GenealogyOrdered

=============================================================================
