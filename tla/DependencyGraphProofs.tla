------------------------ MODULE DependencyGraphProofs ------------------------
(***************************************************************************)
(* Proofs about DirectedAcyclicGraph, for every set of keys and every       *)
(* sequence of operations.                                                  *)
(***************************************************************************)
EXTENDS DependencyGraph, TLAPS

IsGraph(m) == m \in [DOMAIN m -> [inEdges : SUBSET DOMAIN m, outEdges : SUBSET DOMAIN m]]

\* The equation that the recursion of checkForCycle solves.
Solves(f, m, target) ==
    f = [k \in DOMAIN m |-> k = target \/ \E n \in m[k].inEdges : f[n]]

\* The recursive function of the walk has its defining equation as soon as any
\* function has it.
LEMMA FindsChosen ==
    ASSUME NEW m, NEW target
    PROVE  Finds(m, target) = CHOOSE f : Solves(f, m, target)
BY DEF Finds, Solves

(***************************************************************************)
(* The equation has a solution: the nodes from which the walk reaches the   *)
(* target form the least set that holds the target and every node with a    *)
(* predecessor in the set.                                                  *)
(***************************************************************************)
Closed(X, m, target) ==
    /\ target \in DOMAIN m => target \in X
    /\ \A k \in DOMAIN m : (\E n \in m[k].inEdges : n \in X) => k \in X

Least(m, target) ==
    {k \in DOMAIN m : \A X \in SUBSET DOMAIN m : Closed(X, m, target) => k \in X}

\* The least closed set of nodes is closed.
LEMMA LeastIsClosed ==
    ASSUME NEW m, NEW target
    PROVE  Closed(Least(m, target), m, target)
BY DEF Closed, Least

\* ... and holds nothing that closedness does not force into it.
LEMMA LeastIsFounded ==
    ASSUME NEW m, NEW target, NEW k \in Least(m, target), k # target
    PROVE  \E n \in m[k].inEdges : n \in Least(m, target)
<1> DEFINE L == Least(m, target)
           X == {x \in L : x = target \/ \E n \in m[x].inEdges : n \in L}
<1>1. Closed(L, m, target) /\ L \subseteq DOMAIN m
    BY LeastIsClosed DEF Least
<1>2. Closed(X, m, target)
    BY <1>1 DEF Closed
<1>3. L \subseteq X
    BY <1>1, <1>2 DEF Least
<1> QED BY <1>3

\* Some function has the equation: the characteristic function of that set.
LEMMA FindsSolves ==
    ASSUME NEW m, IsGraph(m), NEW target
    PROVE  Solves(Finds(m, target), m, target)
<1> DEFINE L == Least(m, target)
           f == [k \in DOMAIN m |-> k \in L]
<1>1. ASSUME NEW k \in DOMAIN m
      PROVE  k \in L <=> (k = target \/ \E n \in m[k].inEdges : n \in L)
  <2>1. k \in L => (k = target \/ \E n \in m[k].inEdges : n \in L)
      BY LeastIsFounded
  <2>2. (k = target \/ \E n \in m[k].inEdges : n \in L) => k \in L
      BY LeastIsClosed DEF Closed
  <2> QED BY <2>1, <2>2
<1>2. ASSUME NEW k \in DOMAIN m
      PROVE  \A n \in m[k].inEdges : n \in DOMAIN m
    BY DEF IsGraph
<1>3. ASSUME NEW k \in DOMAIN m
      PROVE  f[k] = (k = target \/ \E n \in m[k].inEdges : f[n])
  <2>1. \A n \in m[k].inEdges : f[n] <=> n \in L
      BY <1>2, Zenon
  <2>2. k \in L <=> (k = target \/ \E n \in m[k].inEdges : f[n])
      BY <1>1, <2>1, Zenon
  <2>3. (k \in L) = (k = target \/ \E n \in m[k].inEdges : f[n])
      BY <2>2
  <2> QED BY <2>3, Zenon
<1>4. Solves(f, m, target)
    BY <1>3, Zenon DEF Solves
<1> QED BY <1>4, FindsChosen

\* What checkForCycle computes, as the two facts the rest is built on: it finds
\* the target itself, and it finds whatever has a predecessor that it finds.
LEMMA FindsEquation ==
    ASSUME NEW m, IsGraph(m), NEW target, NEW k \in DOMAIN m
    PROVE  CheckForCycle(m, k, target)
              <=> (k = target \/ \E n \in m[k].inEdges : CheckForCycle(m, n, target))
<1>1. Solves(Finds(m, target), m, target)
    BY FindsSolves
<1>2. Finds(m, target)[k] = (k = target \/ \E n \in m[k].inEdges : Finds(m, target)[n])
    BY <1>1 DEF Solves
<1> QED BY <1>2 DEF CheckForCycle

-----------------------------------------------------------------------------
(* addEdge. *)

\* An edge into a set of nodes that is closed under the edges, from a node
\* outside of it, closes no cycle: a set of nodes that is not inside R has its
\* first node among those outside of R.
LEMMA EdgeIntoClosedSet ==
    ASSUME NEW m, AcyclicMap(m),
           NEW from \in DOMAIN m, NEW to \in DOMAIN m,
           NEW R \in SUBSET DOMAIN m, to \in R, from \notin R,
           \A k \in DOMAIN m : \A n \in m[k].inEdges : n \in R => k \in R
    PROVE  AcyclicMap(WithEdge(m, from, to))
<1> DEFINE w == WithEdge(m, from, to)
<1>1. /\ DOMAIN w = DOMAIN m
      /\ \A k \in DOMAIN m : w[k].inEdges = m[k].inEdges \cup (IF k = to THEN {from} ELSE {})
    BY DEF WithEdge, Touch
<1> SUFFICES ASSUME NEW S \in SUBSET DOMAIN m, S # {}
             PROVE  \E k \in S : w[k].inEdges \cap S = {}
    BY <1>1 DEF AcyclicMap
<1> HIDE DEF w
<1>2. CASE S \subseteq R
  <2>1. PICK k \in S : m[k].inEdges \cap S = {}
      BY DEF AcyclicMap
  <2> QED BY <2>1, <1>1, <1>2
<1>3. CASE ~ (S \subseteq R)
  <2>1. PICK k \in S \ R : m[k].inEdges \cap (S \ R) = {}
      BY <1>3 DEF AcyclicMap
  <2>2. \A n \in m[k].inEdges : n \notin R
      OBVIOUS
  <2> QED BY <2>1, <2>2, <1>1
<1> QED BY <1>2, <1>3

\* The nodes that checkForCycle finds for "to" are such a set.
LEMMA AcceptedEdgeKeepsAcyclic ==
    ASSUME NEW m, IsGraph(m), AcyclicMap(m),
           NEW from \in DOMAIN m, NEW to \in DOMAIN m, ~ CheckForCycle(m, from, to)
    PROVE  AcyclicMap(WithEdge(m, from, to))
<1> DEFINE R == {k \in DOMAIN m : CheckForCycle(m, k, to)}
<1>1. to \in R /\ from \notin R
    BY FindsEquation
<1>2. ASSUME NEW k \in DOMAIN m, NEW n \in m[k].inEdges, n \in R PROVE k \in R
    BY <1>2, FindsEquation
<1> HIDE DEF R
<1>3. R \in SUBSET DOMAIN m
    BY DEF R
<1> QED BY <1>1, <1>2, <1>3, EdgeIntoClosedSet

\* An edge that checkForCycle refuses would close one: every node that the walk
\* finds then has a predecessor that the walk finds.
LEMMA RefusedEdgeClosesCycle ==
    ASSUME NEW m, IsGraph(m),
           NEW from \in DOMAIN m, NEW to \in DOMAIN m, CheckForCycle(m, from, to)
    PROVE  ~ AcyclicMap(WithEdge(m, from, to))
<1> DEFINE R == {k \in DOMAIN m : CheckForCycle(m, k, to)}
           w == WithEdge(m, from, to)
<1>1. /\ DOMAIN w = DOMAIN m
      /\ \A k \in DOMAIN m : w[k].inEdges = m[k].inEdges \cup (IF k = to THEN {from} ELSE {})
    BY DEF WithEdge, Touch
<1>2. from \in R
    OBVIOUS
<1>3. ASSUME NEW k \in R PROVE w[k].inEdges \cap R # {}
  <2>1. CASE k = to
      BY <2>1, <1>1, <1>2
  <2>2. CASE k # to
    <3>1. PICK n \in m[k].inEdges : CheckForCycle(m, n, to)
        BY <2>2, FindsEquation
    <3>2. n \in R
        BY <3>1 DEF IsGraph
    <3> QED BY <3>2, <1>1
  <2> QED BY <2>1, <2>2
<1> HIDE DEF R, w
<1>4. R \in SUBSET DOMAIN w
    BY <1>1 DEF R
<1> QED BY <1>2, <1>3, <1>4 DEF AcyclicMap, w

-----------------------------------------------------------------------------
(* The operations keep a graph a graph. *)

MirroredMap(m) == \A from, to \in DOMAIN m : to \in m[from].outEdges <=> from \in m[to].inEdges

GoodMap(m) == IsGraph(m) /\ MirroredMap(m) /\ AcyclicMap(m)

\* Taking nodes or edges away closes no cycle.
LEMMA FewerEdgesKeepAcyclic ==
    ASSUME NEW m, AcyclicMap(m), NEW w, DOMAIN w \subseteq DOMAIN m,
           \A k \in DOMAIN w : w[k].inEdges \subseteq m[k].inEdges
    PROVE  AcyclicMap(w)
<1> SUFFICES ASSUME NEW S \in SUBSET DOMAIN w, S # {}
             PROVE  \E k \in S : w[k].inEdges \cap S = {}
    BY DEF AcyclicMap
<1>1. PICK k \in S : m[k].inEdges \cap S = {}
    BY DEF AcyclicMap
<1> QED BY <1>1

\* A node without edges can be added to a graph.
LEMMA TouchGood ==
    ASSUME NEW m, GoodMap(m), NEW k
    PROVE  GoodMap(Touch(m, k))
<1> DEFINE w == Touch(m, k)
<1>1. /\ DOMAIN w = DOMAIN m \cup {k}
      /\ \A x \in DOMAIN m : w[x] = m[x]
      /\ k \notin DOMAIN m => w[k] = NoEdges
      /\ w = [x \in DOMAIN w |-> w[x]]
    BY DEF Touch
<1> HIDE DEF w
<1>2. \A x \in DOMAIN m : m[x].inEdges \subseteq DOMAIN m /\ m[x].outEdges \subseteq DOMAIN m
                        /\ m[x] \in [inEdges : SUBSET DOMAIN m, outEdges : SUBSET DOMAIN m]
    BY DEF GoodMap, IsGraph
<1>3. \A x \in DOMAIN w : w[x] \in [inEdges : SUBSET DOMAIN w, outEdges : SUBSET DOMAIN w]
    BY <1>1, <1>2 DEF NoEdges
<1>4. IsGraph(w)
    BY <1>1, <1>3 DEF IsGraph
<1>5. MirroredMap(w)
    BY <1>1, <1>2 DEF MirroredMap, GoodMap, NoEdges
<1>6. AcyclicMap(w)
  <2> SUFFICES ASSUME NEW S \in SUBSET DOMAIN w, S # {}
               PROVE  \E x \in S : w[x].inEdges \cap S = {}
      BY DEF AcyclicMap
  <2>1. CASE k \in S /\ k \notin DOMAIN m
      BY <2>1, <1>1 DEF NoEdges
  <2>2. CASE ~ (k \in S /\ k \notin DOMAIN m)
      BY <2>2, <1>1 DEF GoodMap, AcyclicMap
  <2> QED BY <2>1, <2>2
<1> QED BY <1>4, <1>5, <1>6 DEF GoodMap, w

\* The new edge has both its halves.
LEMMA WithEdgeGood ==
    ASSUME NEW m, GoodMap(m), NEW from \in DOMAIN m, NEW to \in DOMAIN m,
           AcyclicMap(WithEdge(m, from, to))
    PROVE  GoodMap(WithEdge(m, from, to))
<1> DEFINE w == WithEdge(m, from, to)
<1>1. /\ DOMAIN w = DOMAIN m
      /\ w = [x \in DOMAIN w |-> w[x]]
      /\ \A x \in DOMAIN m :
            w[x] = [inEdges  |-> m[x].inEdges \cup (IF x = to THEN {from} ELSE {}),
                    outEdges |-> m[x].outEdges \cup (IF x = from THEN {to} ELSE {})]
    BY DEF WithEdge, Touch
<1> HIDE DEF w
<1>2. \A x \in DOMAIN m : m[x].inEdges \subseteq DOMAIN m /\ m[x].outEdges \subseteq DOMAIN m
    BY DEF GoodMap, IsGraph
<1>3. \A x \in DOMAIN m : w[x] \in [inEdges : SUBSET DOMAIN m, outEdges : SUBSET DOMAIN m]
    BY <1>1, <1>2
<1>4. IsGraph(w)
    BY <1>1, <1>3 DEF IsGraph
<1>5. MirroredMap(w)
    BY <1>1 DEF GoodMap, MirroredMap
<1> QED BY <1>4, <1>5 DEF GoodMap, w

\* A node that is missing is created first, and then closes no cycle: a new
\* source has no predecessor, a new target no successor.
LEMMA AddEdgeGood ==
    ASSUME NEW m, GoodMap(m), NEW from, NEW to
    PROVE  GoodMap(AfterAddEdge(m, from, to))
<1> DEFINE n == Touch(Touch(m, from), to)
           w == WithEdge(m, from, to)
<1> SUFFICES ASSUME AddEdgeResult(m, from, to) = "EDGE_ADDED"
             PROVE  GoodMap(w)
    BY DEF AfterAddEdge
<1>1. /\ from # to
      /\ {from, to} \subseteq DOMAIN m => ~ CheckForCycle(m, from, to)
    BY DEF AddEdgeResult
<1>2. GoodMap(n)
    BY TouchGood
<1>3. /\ DOMAIN n = DOMAIN m \cup {from, to}
      /\ \A x \in DOMAIN m : n[x] = m[x]
      /\ \A x \in {from, to} \ DOMAIN m : n[x] = NoEdges
    BY DEF Touch
<1>4. w = WithEdge(n, from, to)
  <2>1. Touch(Touch(n, from), to) = n
      BY DEF Touch
  <2> QED BY <2>1 DEF WithEdge
<1>5. AcyclicMap(WithEdge(n, from, to))
  <2>1. CASE {from, to} \subseteq DOMAIN m
    <3>1. n = m
        BY <2>1 DEF Touch, GoodMap, IsGraph
    <3> QED BY <3>1, <1>1, <2>1, AcceptedEdgeKeepsAcyclic DEF GoodMap
  <2>2. CASE from \notin DOMAIN m
    <3>1. n[from].inEdges = {}
        BY <1>3, <2>2 DEF NoEdges
    <3>2. ~ CheckForCycle(n, from, to)
        BY <3>1, <1>1, <1>2, <1>3, FindsEquation DEF GoodMap
    <3> QED BY <3>2, <1>2, <1>3, AcceptedEdgeKeepsAcyclic DEF GoodMap
  <2>3. CASE to \notin DOMAIN m
    <3>1. \A k \in DOMAIN n : to \notin n[k].inEdges
        BY <1>3, <2>3 DEF NoEdges, GoodMap, IsGraph
    <3> HIDE DEF n
    <3> DEFINE R == {to}
    <3>2. \A k \in DOMAIN n : \A x \in n[k].inEdges : x \in R => k \in R
        BY <3>1
    <3>3. R \in SUBSET DOMAIN n /\ to \in R /\ from \notin R
        BY <1>1, <1>3
    <3> HIDE DEF R
    <3> QED BY <3>2, <3>3, <1>2, <1>3, EdgeIntoClosedSet DEF GoodMap
  <2> QED BY <2>1, <2>2, <2>3
<1> HIDE DEF n
<1>6. GoodMap(WithEdge(n, from, to))
    BY <1>2, <1>3, <1>5, WithEdgeGood
<1> QED BY <1>4, <1>6

\* removeEdge takes both halves of an edge away.
LEMMA WithoutEdgeGood ==
    ASSUME NEW m, GoodMap(m), NEW from, NEW to
    PROVE  GoodMap(WithoutEdge(m, from, to))
<1> DEFINE w == WithoutEdge(m, from, to)
<1>1. /\ DOMAIN w = DOMAIN m
      /\ w = [x \in DOMAIN w |-> w[x]]
      /\ \A x \in DOMAIN m :
            w[x] = [inEdges  |-> m[x].inEdges \ (IF x = to THEN {from} ELSE {}),
                    outEdges |-> m[x].outEdges \ (IF x = from THEN {to} ELSE {})]
    BY DEF WithoutEdge
<1> HIDE DEF w
<1>2. \A x \in DOMAIN m : m[x].inEdges \subseteq DOMAIN m /\ m[x].outEdges \subseteq DOMAIN m
    BY DEF GoodMap, IsGraph
<1>3. \A x \in DOMAIN m : w[x] \in [inEdges : SUBSET DOMAIN m, outEdges : SUBSET DOMAIN m]
    BY <1>1, <1>2
<1>4. IsGraph(w)
    BY <1>1, <1>3 DEF IsGraph
<1>5. MirroredMap(w)
    BY <1>1 DEF GoodMap, MirroredMap
<1>6. AcyclicMap(w)
    BY <1>1, FewerEdgesKeepAcyclic DEF GoodMap
<1> QED BY <1>4, <1>5, <1>6 DEF GoodMap, w

\* removeNode finds all edges of the node in its own two lists, because every
\* edge has both halves; nothing leads to the removed node afterwards.
LEMMA RemoveNodeGood ==
    ASSUME NEW m, GoodMap(m), NEW k
    PROVE  GoodMap(AfterRemoveNode(m, k))
<1> DEFINE w == AfterRemoveNode(m, k)
<1> SUFFICES ASSUME k \in DOMAIN m PROVE GoodMap(w)
    BY DEF AfterRemoveNode
<1>1. /\ DOMAIN w = DOMAIN m \ {k}
      /\ w = [x \in DOMAIN w |-> w[x]]
      /\ \A x \in DOMAIN m \ {k} :
            w[x] = [inEdges  |-> m[x].inEdges \ (IF x \in m[k].outEdges THEN {k} ELSE {}),
                    outEdges |-> m[x].outEdges \ (IF x \in m[k].inEdges THEN {k} ELSE {})]
    BY DEF AfterRemoveNode
<1> HIDE DEF w
<1>2. \A x \in DOMAIN m : m[x].inEdges \subseteq DOMAIN m /\ m[x].outEdges \subseteq DOMAIN m
    BY DEF GoodMap, IsGraph
<1>3. \A x \in DOMAIN w : /\ w[x].inEdges = m[x].inEdges \ {k}
                         /\ w[x].outEdges = m[x].outEdges \ {k}
    BY <1>1 DEF GoodMap, MirroredMap
<1>4. \A x \in DOMAIN w : w[x] \in [inEdges : SUBSET DOMAIN w, outEdges : SUBSET DOMAIN w]
    BY <1>1, <1>2, <1>3
<1>5. IsGraph(w)
    BY <1>1, <1>4 DEF IsGraph
<1>6. MirroredMap(w)
    BY <1>1, <1>3 DEF GoodMap, MirroredMap
<1>7. AcyclicMap(w)
    BY <1>1, <1>3, FewerEdgesKeepAcyclic DEF GoodMap
<1> QED BY <1>5, <1>6, <1>7 DEF GoodMap, w

-----------------------------------------------------------------------------
(* The theorems. *)

\* After any sequence of operations the map is a graph over the keys, with both
\* halves of every edge and without a cycle.
THEOREM GraphInvariant == Spec => [](GoodMap(nodeMap) /\ Keys \subseteq Key)
<1> DEFINE Inv == GoodMap(nodeMap) /\ Keys \subseteq Key
<1>1. Init => Inv
    BY DEF Init, Keys, GoodMap, IsGraph, MirroredMap, AcyclicMap
<1>2. Inv /\ [Next]_nodeMap => Inv'
  <2> SUFFICES ASSUME Inv, [Next]_nodeMap PROVE Inv'
      OBVIOUS
  <2>1. CASE \E k \in Key : AddNode(k)
    <3>1. PICK k \in Key : nodeMap' = Touch(nodeMap, k)
        BY <2>1 DEF AddNode
    <3>2. DOMAIN Touch(nodeMap, k) \subseteq Key
        BY DEF Touch, Keys
    <3> QED BY <3>1, <3>2, TouchGood DEF Keys
  <2>2. CASE \E k \in Key : RemoveNode(k)
    <3>1. PICK k \in Key : nodeMap' = AfterRemoveNode(nodeMap, k)
        BY <2>2 DEF RemoveNode
    <3>2. DOMAIN AfterRemoveNode(nodeMap, k) \subseteq Key
        BY DEF AfterRemoveNode, Keys
    <3> QED BY <3>1, <3>2, RemoveNodeGood DEF Keys
  <2>3. CASE \E from, to \in Key : AddEdge(from, to)
    <3>1. PICK from \in Key, to \in Key : nodeMap' = AfterAddEdge(nodeMap, from, to)
        BY <2>3 DEF AddEdge
    <3>2. DOMAIN AfterAddEdge(nodeMap, from, to) \subseteq Key
        BY DEF AfterAddEdge, WithEdge, Touch, Keys
    <3> QED BY <3>1, <3>2, AddEdgeGood DEF Keys
  <2>4. CASE \E from, to \in Key : RemoveEdge(from, to)
    <3>1. PICK from \in Key, to \in Key :
              nodeMap' = WithoutEdge(nodeMap, from, to) \/ nodeMap' = nodeMap
        BY <2>4 DEF RemoveEdge
    <3>2. DOMAIN WithoutEdge(nodeMap, from, to) \subseteq Key
        BY DEF WithoutEdge, Keys
    <3> QED BY <3>1, <3>2, WithoutEdgeGood DEF Keys
  <2>5. CASE UNCHANGED nodeMap
      BY <2>5 DEF Keys
  <2> QED BY <2>1, <2>2, <2>3, <2>4, <2>5 DEF Next
<1> QED BY <1>1, <1>2, PTL DEF Spec

\* Edges always lead to keys of the map.
THEOREM GraphTypeCorrect == Spec => []TypeOK
<1>1. GoodMap(nodeMap) /\ Keys \subseteq Key => TypeOK
    BY DEF GoodMap, IsGraph, TypeOK, Keys
<1> QED BY <1>1, GraphInvariant, PTL

\* Every edge is recorded at both of its ends or at neither.
THEOREM GraphMirrored == Spec => []EdgesMirrored
<1>1. GoodMap(nodeMap) /\ Keys \subseteq Key => EdgesMirrored
    BY DEF GoodMap, MirroredMap, EdgesMirrored, Keys
<1> QED BY <1>1, GraphInvariant, PTL

\* No sequence of operations produces a cycle.
THEOREM GraphAcyclic == Spec => []Acyclic
<1>1. GoodMap(nodeMap) /\ Keys \subseteq Key => Acyclic
    BY DEF GoodMap, Acyclic
<1> QED BY <1>1, GraphInvariant, PTL

\* addEdge refuses an edge for a cycle if and only if it would close one.
THEOREM GraphCycleCheckExact == Spec => []CycleCheckExact
<1>1. GoodMap(nodeMap) /\ Keys \subseteq Key => CycleCheckExact
  <2> SUFFICES ASSUME GoodMap(nodeMap), NEW from \in Keys, NEW to \in Keys,
                      from # to, to \notin nodeMap[from].outEdges
               PROVE  AddEdgeResult(nodeMap, from, to) = "EDGE_INTRODUCES_CYCLE"
                         <=> ~ AcyclicMap(WithEdge(nodeMap, from, to))
      BY DEF CycleCheckExact
  <2>1. AddEdgeResult(nodeMap, from, to) = "EDGE_INTRODUCES_CYCLE"
           <=> CheckForCycle(nodeMap, from, to)
      BY DEF AddEdgeResult, Keys
  <2> QED BY <2>1, AcceptedEdgeKeepsAcyclic, RefusedEdgeClosesCycle DEF GoodMap, Keys
<1> QED BY <1>1, GraphInvariant, PTL

=============================================================================
