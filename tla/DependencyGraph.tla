--------------------------- MODULE DependencyGraph ---------------------------
(***************************************************************************)
(* lib/controller's DirectedAcyclicGraph<string>: a map from keys to nodes  *)
(* that hold their incoming and their outgoing edges.                       *)
(*                                                                         *)
(* The two std::list's of a node are modelled as sets: addEdge refuses an   *)
(* edge that exists already and creates both halves of a new one, so a list *)
(* never holds a key twice, and nothing depends on the order of a list but  *)
(* the order in which a caller visits it.                                   *)
(***************************************************************************)
CONSTANT Key

VARIABLE nodeMap

NoEdges == [inEdges |-> {}, outEdges |-> {}]

Keys == DOMAIN nodeMap

\* std::map::operator[]: the entry of k, created when there is none.
Touch(m, k) == [x \in DOMAIN m \cup {k} |-> IF x \in DOMAIN m THEN m[x] ELSE NoEdges]

-----------------------------------------------------------------------------
(* Slips that the runs must notice; none of these is part of Spec. *)

\* The walk follows the outgoing edges, and so the wrong way.
CheckForCycleForwards(m, dependency, potentialDependent) ==
    LET finds[k \in DOMAIN m] == \/ k = potentialDependent
                                 \/ \E n \in m[k].outEdges : finds[n]
    IN  finds[dependency]

\* The walk looks at the direct dependencies only.
CheckForCycleShallow(m, dependency, potentialDependent) ==
    \/ dependency = potentialDependent
    \/ potentialDependent \in m[dependency].inEdges

\* The second half of the edge is forgotten.
WithHalfEdge(m, from, to) ==
    [x \in DOMAIN Touch(Touch(m, from), to) |->
        [inEdges  |-> Touch(Touch(m, from), to)[x].inEdges,
         outEdges |-> Touch(Touch(m, from), to)[x].outEdges
                        \cup (IF x = from THEN {to} ELSE {})]]

\* The incoming edge is recorded although the node of "from" was not created.
WithDanglingEdge(m, from, to) ==
    [x \in DOMAIN Touch(m, to) |->
        [inEdges  |-> Touch(m, to)[x].inEdges \cup (IF x = to THEN {from} ELSE {}),
         outEdges |-> Touch(m, to)[x].outEdges \cup (IF x = from THEN {to} ELSE {})]]
-----------------------------------------------------------------------------

(***************************************************************************)
(* checkForCycle: walk from "dependency" against the edges and look for     *)
(* "potentialDependent".  The walk ends because the graph has no cycle yet. *)
(***************************************************************************)
Finds(m, potentialDependent) ==
    LET finds[k \in DOMAIN m] == \/ k = potentialDependent
                                 \/ \E n \in m[k].inEdges : finds[n]
    IN  finds

CheckForCycle(m, dependency, potentialDependent) == Finds(m, potentialDependent)[dependency]

WithEdge(m, from, to) ==
    [x \in DOMAIN Touch(Touch(m, from), to) |->
        [inEdges  |-> Touch(Touch(m, from), to)[x].inEdges
                        \cup (IF x = to THEN {from} ELSE {}),
         outEdges |-> Touch(Touch(m, from), to)[x].outEdges
                        \cup (IF x = from THEN {to} ELSE {})]]

WithoutEdge(m, from, to) ==
    [x \in DOMAIN m |->
        [inEdges  |-> m[x].inEdges \ (IF x = to THEN {from} ELSE {}),
         outEdges |-> m[x].outEdges \ (IF x = from THEN {to} ELSE {})]]

\* The errorType that addEdge returns, its tests in the order of the code.
AddEdgeResult(m, from, to) ==
    CASE from = to ->
            "NODE_CANNOT_HAVE_EDGE_TO_ITSELF"
      [] from # to /\ {from, to} \subseteq DOMAIN m /\ to \in m[from].outEdges ->
            "EDGE_ALREADY_EXISTS"
      [] from # to /\ {from, to} \subseteq DOMAIN m /\ to \notin m[from].outEdges
                   /\ CheckForCycle(m, from, to) ->
            "EDGE_INTRODUCES_CYCLE"
      [] OTHER ->
            "EDGE_ADDED"

AfterAddEdge(m, from, to) ==
    IF AddEdgeResult(m, from, to) = "EDGE_ADDED" THEN WithEdge(m, from, to) ELSE m

\* removeNode removes the edges that the node itself lists, then the node.
AfterRemoveNode(m, k) ==
    IF k \notin DOMAIN m
    THEN m
    ELSE [x \in DOMAIN m \ {k} |->
            [inEdges  |-> m[x].inEdges \ (IF x \in m[k].outEdges THEN {k} ELSE {}),
             outEdges |-> m[x].outEdges \ (IF x \in m[k].inEdges THEN {k} ELSE {})]]

Init == nodeMap = [k \in {} |-> NoEdges]

AddNode(k) == nodeMap' = Touch(nodeMap, k)

AddEdge(from, to) == nodeMap' = AfterAddEdge(nodeMap, from, to)

RemoveEdge(from, to) ==
    nodeMap' = IF {from, to} \subseteq Keys THEN WithoutEdge(nodeMap, from, to) ELSE nodeMap

RemoveNode(k) == nodeMap' = AfterRemoveNode(nodeMap, k)

Next == \/ \E k \in Key : AddNode(k) \/ RemoveNode(k)
        \/ \E from, to \in Key : AddEdge(from, to) \/ RemoveEdge(from, to)

Spec == Init /\ [][Next]_nodeMap

-----------------------------------------------------------------------------
\* Type invariant: edges lead to keys of the map, so no walk leaves it.
TypeOK == /\ Keys \subseteq Key
          /\ nodeMap \in [Keys -> [inEdges : SUBSET Keys, outEdges : SUBSET Keys]]

\* The two halves of every edge are there or neither is: removeNode relies on
\* it to leave no edge behind that leads to or from the removed node.
EdgesMirrored ==
    \A from, to \in Keys : to \in nodeMap[from].outEdges <=> from \in nodeMap[to].inEdges

\* A graph has no cycle iff in every set of its nodes one has no
\* predecessor in that set.
AcyclicMap(m) == \A S \in SUBSET DOMAIN m :
                    S # {} => \E k \in S : m[k].inEdges \cap S = {}

\* The graph is what its name says after every sequence of operations: the
\* scheduler's progress (some unfinished task is always ready) depends on it.
Acyclic == AcyclicMap(nodeMap)

\* addEdge answers EDGE_INTRODUCES_CYCLE for exactly the edges that would
\* close a cycle: it never rejects a dependency that could be met.
CycleCheckExact ==
    \A from, to \in Keys :
        (from # to /\ to \notin nodeMap[from].outEdges)
            => (AddEdgeResult(nodeMap, from, to) = "EDGE_INTRODUCES_CYCLE"
                  <=> ~ AcyclicMap(WithEdge(nodeMap, from, to)))

=============================================================================
