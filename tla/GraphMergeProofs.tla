-------------------------- MODULE GraphMergeProofs --------------------------
(***************************************************************************)
(* Proofs about GraphMerge: whatever files are merged, in whatever order   *)
(* nodes and edges are met, the merged graph stays a graph and has the     *)
(* nodes, the sums of their numbers and the edges that it should have.     *)
(*                                                                         *)
(* That every edge is anchored rests on the order within a step of the     *)
(* edge iterator (first the node, then the edge) and on what the merge has *)
(* visited; that pairs stay mutual rests on the identities of new edges    *)
(* being new, hence on seenEdges holding with each edge its pair.          *)
(***************************************************************************)
EXTENDS GraphMerge, WellFoundedInduction, TLAPS

(***************************************************************************)
(* Graphs in general.                                                      *)
(***************************************************************************)
GoodGraph(N, g, p) ==
    /\ \A e \in DOMAIN g : {g[e].from, g[e].to} \subseteq N
    /\ \A e \in DOMAIN p : e \in DOMAIN g /\ p[e] \in DOMAIN g /\ Reversed(g, e, p[e])
    /\ \A e \in DOMAIN p : g[e].dir # "Reverse" => p[e] \in DOMAIN p /\ p[p[e]] = e
    /\ \A e \in DOMAIN g : g[e].dir \in {"Reverse", "Bidirectional"} => e \in DOMAIN p
    /\ \A e \in DOMAIN g : g[e].dir = "Directional" => e[3] = "edge"

SameShape(g, h) ==
    /\ DOMAIN h = DOMAIN g
    /\ \A e \in DOMAIN g : /\ h[e].from = g[e].from /\ h[e].to = g[e].to
                           /\ h[e].type = g[e].type /\ h[e].dir = g[e].dir

LEMMA GoodLarger ==
    ASSUME NEW N, NEW M, NEW g, NEW p, GoodGraph(N, g, p), N \subseteq M
    PROVE  GoodGraph(M, g, p)
BY DEF GoodGraph

LEMMA GoodSameShape ==
    ASSUME NEW N, NEW g, NEW h, NEW p, GoodGraph(N, g, p), SameShape(g, h)
    PROVE  GoodGraph(N, h, p)
BY DEF GoodGraph, SameShape, Reversed

\* A directed edge is added.
LEMMA GoodSingle ==
    ASSUME NEW N, NEW g, NEW p, NEW h, NEW e, GoodGraph(N, g, p),
           e \notin DOMAIN g, DOMAIN h = DOMAIN g \cup {e},
           \A x \in DOMAIN g : h[x] = g[x],
           {h[e].from, h[e].to} \subseteq N, h[e].dir = "Directional", e[3] = "edge"
    PROVE  GoodGraph(N, h, p)
BY DEF GoodGraph, Reversed

\* An edge and its pair are added.
LEMMA GoodPair ==
    ASSUME NEW N, NEW g, NEW p, NEW h, NEW r, NEW e, NEW q, GoodGraph(N, g, p),
           e \notin DOMAIN g, q \notin DOMAIN g, e # q,
           DOMAIN h = DOMAIN g \cup {e, q}, \A x \in DOMAIN g : h[x] = g[x],
           DOMAIN r = DOMAIN p \cup {e, q}, \A x \in DOMAIN p : r[x] = p[x],
           r[e] = q, r[q] = e, Reversed(h, e, q),
           {h[e].from, h[e].to} \subseteq N,
           \A x \in {e, q} : h[x].dir = "Directional" => x[3] = "edge"
    PROVE  GoodGraph(N, h, r)
<1>1. \A x \in DOMAIN p : x \in DOMAIN g /\ p[x] \in DOMAIN g /\ x \notin {e, q}
  BY DEF GoodGraph
<1>2. Reversed(h, q, e)
  BY DEF Reversed
<1>3. \A x \in DOMAIN h : {h[x].from, h[x].to} \subseteq N
  BY DEF GoodGraph, Reversed
<1>4. \A x \in DOMAIN r : x \in DOMAIN h /\ r[x] \in DOMAIN h /\ Reversed(h, x, r[x])
  <2>1. \A x \in DOMAIN p : Reversed(h, x, r[x])
    BY <1>1 DEF GoodGraph, Reversed
  <2> QED
    BY <1>1, <1>2, <2>1
<1>5. \A x \in DOMAIN r : h[x].dir # "Reverse" => r[x] \in DOMAIN r /\ r[r[x]] = x
  BY <1>1 DEF GoodGraph
<1>6. \A x \in DOMAIN h : h[x].dir \in {"Reverse", "Bidirectional"} => x \in DOMAIN r
  BY DEF GoodGraph
<1>7. \A x \in DOMAIN h : h[x].dir = "Directional" => x[3] = "edge"
  BY DEF GoodGraph
<1> QED
  BY <1>3, <1>4, <1>5, <1>6, <1>7 DEF GoodGraph

\* An edge that is there gets a reverse edge.
LEMMA GoodReverse ==
    ASSUME NEW N, NEW g, NEW p, NEW h, NEW r, NEW e, NEW q, GoodGraph(N, g, p),
           e \in DOMAIN g, e \notin DOMAIN p, q \notin DOMAIN g,
           DOMAIN h = DOMAIN g \cup {q}, \A x \in DOMAIN g : h[x] = g[x],
           DOMAIN r = DOMAIN p \cup {e, q}, \A x \in DOMAIN p : r[x] = p[x],
           r[e] = q, r[q] = e, Reversed(h, e, q), h[q].dir = "Reverse"
    PROVE  GoodGraph(N, h, r)
<1>1. \A x \in DOMAIN p : x \in DOMAIN g /\ p[x] \in DOMAIN g /\ x \notin {e, q}
  BY DEF GoodGraph
<1>2. Reversed(h, q, e)
  BY DEF Reversed
<1>3. \A x \in DOMAIN h : {h[x].from, h[x].to} \subseteq N
  BY DEF GoodGraph, Reversed
<1>4. \A x \in DOMAIN r : x \in DOMAIN h /\ r[x] \in DOMAIN h /\ Reversed(h, x, r[x])
  <2>1. \A x \in DOMAIN p : Reversed(h, x, r[x])
    BY <1>1 DEF GoodGraph, Reversed
  <2> QED
    BY <1>1, <1>2, <2>1
<1>5. \A x \in DOMAIN r : h[x].dir # "Reverse" => r[x] \in DOMAIN r /\ r[r[x]] = x
  BY <1>1 DEF GoodGraph
<1>6. \A x \in DOMAIN h : h[x].dir \in {"Reverse", "Bidirectional"} => x \in DOMAIN r
  BY DEF GoodGraph
<1>7. \A x \in DOMAIN h : h[x].dir = "Directional" => x[3] = "edge"
  BY DEF GoodGraph
<1> QED
  BY <1>3, <1>4, <1>5, <1>6, <1>7 DEF GoodGraph

(***************************************************************************)
(* Graphs that are read.                                                   *)
(***************************************************************************)
LEMMA LoadedTyped ==
    ASSUME NEW n \in Nat, NEW f, IsFile(f)
    PROVE  /\ LoadedIds(n, f) \subseteq EdgeId
           /\ LoadedEdges(n, f) \in [LoadedIds(n, f) -> Edge]
           /\ DOMAIN LoadedPairs(n, f) \subseteq LoadedIds(n, f)
           /\ LoadedPairs(n, f) \in [DOMAIN LoadedPairs(n, f) -> LoadedIds(n, f)]
           /\ \A e \in LoadedIds(n, f) : e[1] = n /\ e[3] # "added"
<1>1. \A e \in LoadedIds(n, f) :
        /\ e[1] = n /\ e[2] \in DOMAIN f.entries /\ e[3] \in HalvesOf(f.entries[e[2]])
        /\ e = <<n, e[2], e[3]>> /\ f.entries[e[2]] \in Entry /\ e[3] \in Half
  BY DEF LoadedIds, IsFile
<1>2. LoadedIds(n, f) \subseteq EdgeId
  BY DEF LoadedIds, EdgeId, IsFile
<1>3. NoAttributes \in Attributes
  BY DEF NoAttributes, Attributes
<1>4. \A e \in LoadedIds(n, f) : LoadedEdge(f.entries[e[2]], e[3]) \in Edge
  BY <1>1, <1>3 DEF LoadedEdge, Entry, Edge, Direction
<1>5. \A e \in LoadedIds(n, f) : f.entries[e[2]].hasPair =>
        <<n, e[2], PairHalf(f.entries[e[2]], e[3])>> \in LoadedIds(n, f)
  BY <1>1 DEF LoadedIds, PairHalf, HalvesOf, Half
<1>6. \A e \in LoadedIds(n, f) : e[3] # "added"
  BY <1>1 DEF HalvesOf
<1> QED
  BY <1>1, <1>2, <1>4, <1>5, <1>6 DEF LoadedEdges, LoadedPairs

LEMMA LoadedGood ==
    ASSUME NEW n \in Nat, NEW f, IsFile(f)
    PROVE  GoodGraph(DOMAIN f.nodes, LoadedEdges(n, f), LoadedPairs(n, f))
<1> DEFINE L == LoadedEdges(n, f)
           P == LoadedPairs(n, f)
<1>1. \A e \in LoadedIds(n, f) :
        /\ e[1] = n /\ e[2] \in DOMAIN f.entries /\ e[3] \in HalvesOf(f.entries[e[2]])
        /\ e = <<n, e[2], e[3]>> /\ f.entries[e[2]] \in Entry
  BY DEF LoadedIds, IsFile
<1>2. /\ DOMAIN L = LoadedIds(n, f)
      /\ \A e \in LoadedIds(n, f) : L[e] = LoadedEdge(f.entries[e[2]], e[3])
  BY DEF LoadedEdges
<1>3. \A e \in DOMAIN P :
        /\ e \in LoadedIds(n, f) /\ P[e] \in LoadedIds(n, f) /\ f.entries[e[2]].hasPair
        /\ P[e] = <<n, e[2], PairHalf(f.entries[e[2]], e[3])>>
  <2>1. DOMAIN P \subseteq LoadedIds(n, f) /\ P \in [DOMAIN P -> LoadedIds(n, f)]
    BY LoadedTyped
  <2>2. \A e \in DOMAIN P : /\ f.entries[e[2]].hasPair
                            /\ P[e] = <<n, e[2], PairHalf(f.entries[e[2]], e[3])>>
    BY DEF LoadedPairs
  <2> QED
    BY <2>1, <2>2
<1>4. \A e \in LoadedIds(n, f) : f.entries[e[2]].hasPair <=> e \in DOMAIN P
  BY DEF LoadedPairs
<1>5. \A e \in DOMAIN L : {L[e].from, L[e].to} \subseteq DOMAIN f.nodes
  BY <1>1, <1>2 DEF LoadedEdge, IsFile
<1>6. \A e \in DOMAIN P : e \in DOMAIN L /\ P[e] \in DOMAIN L /\ Reversed(L, e, P[e])
  BY <1>1, <1>2, <1>3 DEF LoadedEdge, PairHalf, Reversed
<1>7. \A e \in DOMAIN P : L[e].dir # "Reverse" => P[e] \in DOMAIN P /\ P[P[e]] = e
  <2> SUFFICES ASSUME NEW e \in DOMAIN P, L[e].dir # "Reverse"
               PROVE  P[e] \in DOMAIN P /\ P[P[e]] = e
    OBVIOUS
  <2>1. e[3] \in {"edge", "twin"}
    BY <1>1, <1>2, <1>3 DEF LoadedEdge, HalvesOf
  <2>2. P[e] \in DOMAIN P
    BY <1>3, <1>4
  <2>3. e[3] = "twin" => f.entries[e[2]].dir = "Bidirectional"
    BY <1>1, <1>3 DEF HalvesOf
  <2>4. PairHalf(f.entries[e[2]], PairHalf(f.entries[e[2]], e[3])) = e[3]
    BY <2>1, <2>3 DEF PairHalf
  <2>5. P[P[e]] = <<n, e[2], e[3]>>
    BY <1>3, <2>2, <2>4
  <2> QED
    BY <1>1, <1>3, <2>2, <2>5
<1>8. \A e \in DOMAIN L : L[e].dir \in {"Reverse", "Bidirectional"} => e \in DOMAIN P
  BY <1>1, <1>2, <1>4 DEF LoadedEdge, HalvesOf, IsFile, Entry
<1>9. \A e \in DOMAIN L : L[e].dir = "Directional" => e[3] = "edge"
  BY <1>1, <1>2 DEF LoadedEdge
<1> QED
  BY <1>5, <1>6, <1>7, <1>8, <1>9 DEF GoodGraph

(***************************************************************************)
(* The invariant.                                                          *)
(***************************************************************************)
SeenClosed == \A e \in seenEdges : e \in DOMAIN inPairs => inPairs[e] \in seenEdges

\* While files[k] is merged: the incoming graph has changed in attributes only,
\* what is visited is converted, and the edges at hand start at a visited node.
Merging == Scanning =>
    /\ k > 0
    /\ SameShape(LoadedEdges(k, file), in)
    /\ todo \subseteq DOMAIN file.nodes
    /\ DOMAIN file.nodes \subseteq todo \cup seenNodes
    /\ seenNodes \subseteq DOMAIN file.nodes \cap DOMAIN nodes
    /\ SeenClosed
    /\ pc = "edges" => \A e \in out : in[e].from \in seenNodes

\* Which identities are in use: those of files read before, those of the edges of
\* this one that are visited, and one for each reverse edge that was added.
Used == \A e \in DOMAIN edges :
    /\ e[1] \in 0 .. k
    /\ Scanning /\ e[1] = k => e \in seenEdges \/ e[3] = "added"
    /\ e[3] = "added" => <<e[1], e[2], "edge">> \in DOMAIN pairs

Unread == k = 0 => targets = {} /\ DOMAIN nodes = {}

IInv == TypeOK /\ Unread /\ Merging /\ Used /\ GoodGraph(DOMAIN nodes, edges, pairs) /\ pc # "threw"

LEMMA FilesTyped ==
    ASSUME TypeOK, NEW i \in 1 .. Len(files)
    PROVE  IsFile(files[i])
BY InputsAssumption DEF TypeOK

LEMMA UnitedTyped ==
    ASSUME NEW a \in Attributes, NEW b \in Attributes
    PROVE  UnitedAttributes(a, b) \in Attributes
BY DEF UnitedAttributes, Attributes

\* What holds of the incoming graph while it is merged.
LEMMA Incoming ==
    ASSUME IInv, Scanning
    PROVE  /\ k \in Nat \ {0} /\ IsFile(file)
           /\ DOMAIN in = LoadedIds(k, file)
           /\ GoodGraph(DOMAIN file.nodes, in, inPairs)
           /\ DOMAIN inPairs \subseteq DOMAIN in
           /\ \A e \in DOMAIN in : e[1] = k /\ e[3] # "added" /\ e \in EdgeId /\ in[e] \in Edge
<1>1. k \in Nat \ {0} /\ k \in 1 .. Len(files) /\ k \in Nat
  <2>1. Len(files) \in Nat
    BY InputsAssumption DEF IInv, TypeOK
  <2> QED
    BY <2>1 DEF IInv, TypeOK, Merging
<1>2. IsFile(file)
  BY <1>1, FilesTyped DEF IInv, file
<1>3. SameShape(LoadedEdges(k, file), in)
  BY DEF IInv, Merging
<1>4. DOMAIN in = LoadedIds(k, file)
  BY <1>3 DEF SameShape, LoadedEdges
<1>5. GoodGraph(DOMAIN file.nodes, in, inPairs)
  BY <1>1, <1>2, <1>3, LoadedGood, GoodSameShape DEF inPairs
<1>6. \A e \in LoadedIds(k, file) : e[1] = k /\ e[3] # "added" /\ e \in EdgeId
  BY <1>1, <1>2, LoadedTyped
<1>7. DOMAIN inPairs \subseteq DOMAIN in
  BY <1>5 DEF GoodGraph
<1>8. \A e \in DOMAIN in : in[e] \in Edge
  BY DEF IInv, TypeOK
<1> QED
  BY <1>1, <1>2, <1>4, <1>5, <1>6, <1>7, <1>8

\* The conversion of a node of the file.
LEMMA Converted ==
    ASSUME IInv, Scanning, NEW n \in DOMAIN file.nodes
    PROVE  /\ DOMAIN NodesWith(n) = DOMAIN nodes \cup {n}
           /\ DOMAIN NodesWith(n) \subseteq Node
           /\ NodesWith(n) \in [DOMAIN NodesWith(n) -> Attributes]
<1>1. IsFile(file)
  BY Incoming
<1>2. n \in Node /\ file.nodes[n] \in Attributes
  BY <1>1 DEF IsFile
<1>3. n \in seenNodes => n \in DOMAIN nodes
  BY DEF IInv, Merging
<1>4. DOMAIN nodes \subseteq Node /\ nodes \in [DOMAIN nodes -> Attributes]
  BY DEF IInv, TypeOK
<1>5. CASE n \in seenNodes
  BY <1>2, <1>3, <1>4, <1>5 DEF NodesWith
<1>6. CASE n \notin seenNodes /\ n \in DOMAIN nodes
  <2>1. UnitedAttributes(nodes[n], file.nodes[n]) \in Attributes
    BY <1>2, <1>4, <1>6, UnitedTyped
  <2> QED
    BY <1>2, <1>4, <1>6, <2>1 DEF NodesWith
<1>7. CASE n \notin seenNodes /\ n \notin DOMAIN nodes
  BY <1>2, <1>4, <1>7 DEF NodesWith
<1> QED
  BY <1>5, <1>6, <1>7

LEMMA InitInv == Init => IInv
<1> SUFFICES ASSUME Init PROVE IInv
  OBVIOUS
<1>1. files \in Inputs /\ Len(files) \in Nat
  BY InputsAssumption DEF Init
<1>2. TypeOK
  BY <1>1 DEF Init, TypeOK
<1>3. Merging /\ Used /\ Unread
  BY DEF Init, Merging, Scanning, Used, Unread
<1>4. GoodGraph(DOMAIN nodes, edges, pairs)
  BY DEF Init, GoodGraph
<1> QED
  BY <1>2, <1>3, <1>4 DEF IInv, Init

LEMMA LoadFirstInv == IInv /\ LoadFirst => IInv'
<1> SUFFICES ASSUME IInv, LoadFirst PROVE IInv'
  OBVIOUS
<1> USE DEF LoadFirst
<1>1. Len(files) \in Nat \ {0} /\ IsFile(files[1]) /\ 1 \in Nat
  BY InputsAssumption DEF IInv, TypeOK
<1>2. TypeOK'
  <2>1. DOMAIN nodes' \subseteq Node /\ nodes' \in [DOMAIN nodes' -> Attributes]
    BY <1>1 DEF IsFile
  <2>2. DOMAIN edges' \subseteq EdgeId /\ edges' \in [DOMAIN edges' -> Edge]
    <3>1. LoadedIds(1, files[1]) \subseteq EdgeId /\ edges' \in [LoadedIds(1, files[1]) -> Edge]
      BY <1>1, LoadedTyped
    <3> QED
      BY <3>1
  <2>3. DOMAIN pairs' \subseteq EdgeId /\ pairs' \in [DOMAIN pairs' -> EdgeId]
    <3>1. /\ LoadedIds(1, files[1]) \subseteq EdgeId
          /\ DOMAIN pairs' \subseteq LoadedIds(1, files[1])
          /\ pairs' \in [DOMAIN pairs' -> LoadedIds(1, files[1])]
      BY <1>1, LoadedTyped
    <3> QED
      BY <3>1
  <2>4. targets' = {}
    BY DEF mergeVars, IInv, Unread
  <2> QED
    BY <1>1, <2>1, <2>2, <2>3, <2>4 DEF IInv, TypeOK, mergeVars
<1>3. Merging'
  BY DEF Merging, Scanning
<1>4. Used'
  <2>1. \A e \in LoadedIds(1, files[1]) : e[1] = 1 /\ e[3] # "added"
    BY <1>1, LoadedTyped
  <2> QED
    BY <2>1 DEF Used, Scanning, LoadedEdges
<1>5. GoodGraph(DOMAIN nodes', edges', pairs')
  BY <1>1, LoadedGood
<1>6. Unread'
  BY DEF Unread
<1> QED
  BY <1>2, <1>3, <1>4, <1>5, <1>6 DEF IInv

LEMMA BeginMergeInv == IInv /\ BeginMerge => IInv'
<1> SUFFICES ASSUME IInv, BeginMerge PROVE IInv'
  OBVIOUS
<1> USE DEF BeginMerge
<1>1. Len(files) \in Nat /\ k \in Nat /\ k + 1 \in Nat /\ k + 1 \in 1 .. Len(files)
  BY InputsAssumption DEF IInv, TypeOK
<1>2. IsFile(files[k + 1])
  BY <1>1, FilesTyped DEF IInv
<1>3. TypeOK'
  <2>1. DOMAIN in' \subseteq EdgeId /\ in' \in [DOMAIN in' -> Edge]
    BY <1>1, <1>2, LoadedTyped
  <2>2. todo' \subseteq Node
    BY <1>2 DEF IsFile
  <2> QED
    BY <1>1, <2>1, <2>2 DEF IInv, TypeOK, graphVars
<1>4. Merging'
  <2>1. SameShape(LoadedEdges(k', file'), in')
    BY DEF SameShape, file
  <2>2. SeenClosed'
    BY DEF SeenClosed
  <2>3. k' > 0
    BY <1>1
  <2> QED
    BY <2>1, <2>2, <2>3 DEF Merging, file
<1>5. Used'
  <2>1. \A e \in DOMAIN edges : e[1] \in 0 .. k
    BY DEF IInv, Used
  <2>2. \A e \in DOMAIN edges : e[1] \in 0 .. (k + 1) /\ e[1] # k + 1
    BY <1>1, <2>1
  <2> QED
    BY <2>2 DEF IInv, Used, graphVars
<1> QED
  BY <1>1, <1>3, <1>4, <1>5 DEF IInv, Unread, graphVars

LEMMA VisitNodeInv == IInv /\ VisitNode => IInv'
<1> SUFFICES ASSUME IInv, pc = "nodes", pc' = "edges", NEW n \in todo,
                    todo' = todo \ {n}, nodes' = NodesWith(n), seenNodes' = seenNodes \cup {n},
                    out' = OutEdges(in, n), targets' = OutEdges(edges, n),
                    UNCHANGED <<files, k, edges, pairs, in, seenEdges>>
             PROVE  IInv'
  BY DEF VisitNode
<1>1. Scanning
  BY DEF Scanning
<1>2. n \in DOMAIN file.nodes /\ k \in Nat \ {0}
  BY <1>1, Incoming DEF IInv, Merging
<1>3. /\ DOMAIN nodes' = DOMAIN nodes \cup {n} /\ DOMAIN nodes' \subseteq Node
      /\ nodes' \in [DOMAIN nodes' -> Attributes]
  BY <1>1, <1>2, Converted
<1>4. TypeOK'
  <2>1. n \in Node /\ out' \subseteq DOMAIN in /\ targets' \subseteq DOMAIN edges
    BY <1>3 DEF OutEdges
  <2> QED
    BY <1>3, <2>1 DEF IInv, TypeOK
<1>5. Merging'
  <2>1. SeenClosed'
    BY <1>1 DEF IInv, Merging, SeenClosed, inPairs, file
  <2>2. \A e \in out' : in'[e].from \in seenNodes'
    BY DEF OutEdges
  <2>3. seenNodes' \subseteq DOMAIN file.nodes \cap DOMAIN nodes'
    BY <1>1, <1>2, <1>3 DEF IInv, Merging
  <2> QED
    BY <1>1, <2>1, <2>2, <2>3 DEF IInv, Merging, file
<1>6. Used'
  BY <1>1 DEF IInv, Used
<1>7. GoodGraph(DOMAIN nodes', edges', pairs')
  BY <1>3, GoodLarger DEF IInv
<1> QED
  BY <1>2, <1>4, <1>5, <1>6, <1>7 DEF IInv, Unread

(***************************************************************************)
(* The merge of one edge e, whose end has been converted.                  *)
(***************************************************************************)
AtEdge(e) ==
    /\ pc = "edges" /\ e \in out
    /\ in[e].dir # "Reverse" /\ e \notin seenEdges
    /\ nodes' = NodesWith(in[e].to)
    /\ seenEdges' = seenEdges \cup {e}
                      \cup (IF e \in DOMAIN inPairs THEN {inPairs[e]} ELSE {})
    /\ UNCHANGED <<files, k>>

EdgeMerged ==
    /\ pc' = pc
    /\ DOMAIN edges' \subseteq EdgeId /\ edges' \in [DOMAIN edges' -> Edge]
    /\ DOMAIN pairs' \subseteq EdgeId /\ pairs' \in [DOMAIN pairs' -> EdgeId]
    /\ DOMAIN edges \subseteq DOMAIN edges'
    /\ in' \in [DOMAIN in -> Edge] /\ SameShape(in, in')
    /\ GoodGraph(DOMAIN nodes', edges', pairs')
    /\ Used'

\* Both ends are in the graph; the edge and its pair are visited together, so
\* that neither has been met when the edge has not.
LEMMA AtEdgeFacts ==
    ASSUME IInv, NEW e, AtEdge(e)
    PROVE  /\ Scanning /\ e \in DOMAIN in /\ in[e] \in Edge
           /\ DOMAIN nodes' = DOMAIN nodes \cup {in[e].to}
           /\ {in[e].from, in[e].to} \subseteq DOMAIN nodes'
           /\ in[e].to \in DOMAIN file.nodes
           /\ e \in EdgeId /\ e \notin DOMAIN edges
           /\ e \in DOMAIN inPairs =>
                /\ inPairs[e] \in DOMAIN in /\ inPairs[e] \in EdgeId /\ inPairs[e] # e
                /\ inPairs[e] \notin DOMAIN edges /\ inPairs[e] \in DOMAIN inPairs
                /\ inPairs[inPairs[e]] = e /\ inPairs[e] \notin seenEdges
                /\ Reversed(in, e, inPairs[e])
                /\ in[inPairs[e]].dir = "Directional" => inPairs[e][3] = "edge"
           /\ in[e].dir = "Directional" => e[3] = "edge"
           /\ seenEdges' \subseteq DOMAIN in
           /\ SeenClosed'
<1> USE DEF AtEdge
<1>1. Scanning /\ e \in DOMAIN in
  BY DEF Scanning, IInv, TypeOK
<1>2. /\ GoodGraph(DOMAIN file.nodes, in, inPairs)
      /\ DOMAIN inPairs \subseteq DOMAIN in
      /\ \A x \in DOMAIN in : x[1] = k /\ x[3] # "added" /\ x \in EdgeId /\ in[x] \in Edge
  BY <1>1, Incoming
<1>3. {in[e].from, in[e].to} \subseteq DOMAIN file.nodes
  BY <1>1, <1>2 DEF GoodGraph
<1>4. DOMAIN nodes' = DOMAIN nodes \cup {in[e].to}
  BY <1>1, <1>3, Converted
<1>5. in[e].from \in DOMAIN nodes
  BY <1>1 DEF IInv, Merging
<1>6. \A x \in DOMAIN in : x \notin seenEdges => x \notin DOMAIN edges
  BY <1>1, <1>2 DEF IInv, Used
<1>7. ASSUME e \in DOMAIN inPairs
      PROVE  /\ inPairs[e] \in DOMAIN in /\ inPairs[e] \in DOMAIN inPairs
             /\ inPairs[inPairs[e]] = e /\ Reversed(in, e, inPairs[e])
             /\ inPairs[e] \notin seenEdges
  <2>1. inPairs[e] \in DOMAIN in /\ inPairs[e] \in DOMAIN inPairs /\ inPairs[inPairs[e]] = e
    BY <1>2, <1>7 DEF GoodGraph
  <2>2. Reversed(in, e, inPairs[e])
    BY <1>2, <1>7 DEF GoodGraph
  <2>3. inPairs[e] \notin seenEdges
    BY <1>1, <2>1 DEF IInv, Merging, SeenClosed
  <2> QED
    BY <2>1, <2>2, <2>3
<1>8. e \in DOMAIN inPairs => inPairs[e] # e
  <2>1. SUFFICES ASSUME e \in DOMAIN inPairs PROVE inPairs[e] # e
    OBVIOUS
  <2>2. inPairs[e] = <<k, e[2], PairHalf(file.entries[e[2]], e[3])>> /\ e[3] \in Half
    BY <2>1, <1>2 DEF inPairs, LoadedPairs, LoadedIds
  <2>3. PairHalf(file.entries[e[2]], e[3]) # e[3]
    BY DEF PairHalf
  <2> QED
    BY <2>2, <2>3
<1>9. seenEdges' \subseteq DOMAIN in
  BY <1>1, <1>7 DEF IInv, TypeOK
<1>10. SeenClosed'
  <2>1. inPairs' = inPairs
    BY DEF inPairs, file
  <2>2. \A x \in seenEdges : x \in DOMAIN inPairs => inPairs[x] \in seenEdges
    BY <1>1 DEF IInv, Merging, SeenClosed
  <2> QED
    BY <1>7, <2>1, <2>2 DEF SeenClosed
<1>11. \A x \in DOMAIN in : in[x].dir = "Directional" => x[3] = "edge"
  BY <1>2 DEF GoodGraph
<1> QED
  BY <1>1, <1>2, <1>3, <1>4, <1>5, <1>6, <1>7, <1>8, <1>9, <1>10, <1>11

LEMMA SameShapeRefl == ASSUME NEW g PROVE SameShape(g, g)
BY DEF SameShape

LEMMA CreateMerged ==
    ASSUME IInv, NEW e, AtEdge(e), CreateEdge(e)
    PROVE  EdgeMerged
<1> DEFINE q == inPairs[e]
<1>1. /\ Scanning /\ e \in DOMAIN in /\ in[e] \in Edge /\ e \in EdgeId /\ e \notin DOMAIN edges
      /\ {in[e].from, in[e].to} \subseteq DOMAIN nodes'
      /\ DOMAIN nodes' = DOMAIN nodes \cup {in[e].to}
      /\ in[e].dir = "Directional" => e[3] = "edge"
  BY AtEdgeFacts
<1>2. e \in DOMAIN inPairs =>
        /\ q \in DOMAIN in /\ q \in EdgeId /\ q # e /\ q \notin DOMAIN edges
        /\ q \in DOMAIN inPairs /\ Reversed(in, e, q)
        /\ in[q].dir = "Directional" => q[3] = "edge"
  BY AtEdgeFacts
<1>3. GoodGraph(DOMAIN nodes', edges, pairs)
  BY <1>1, GoodLarger DEF IInv
<1>4. \A x \in DOMAIN in : x[1] = k /\ x[3] # "added" /\ in[x] \in Edge
  BY <1>1, Incoming
<1>5. /\ DOMAIN edges \subseteq EdgeId /\ edges \in [DOMAIN edges -> Edge]
      /\ DOMAIN pairs \subseteq EdgeId /\ pairs \in [DOMAIN pairs -> EdgeId]
      /\ in \in [DOMAIN in -> Edge]
      /\ \A x \in DOMAIN pairs : x \in DOMAIN edges
      /\ k \in Nat
  BY <1>1, Incoming DEF IInv, TypeOK, GoodGraph
<1>6. UNCHANGED <<pc, in>> /\ SameShape(in, in')
  BY <1>1, SameShapeRefl DEF CreateEdge
<1>7. CASE e \notin DOMAIN inPairs
  <2>1. edges' = [x \in DOMAIN edges \cup {e} |-> IF x \in {e} THEN in[x] ELSE edges[x]]
    BY <1>1, <1>7 DEF CreateEdge
  <2>2. pairs' = [x \in DOMAIN pairs |-> IF x \notin {e} THEN pairs[x] ELSE pairs'[x]]
    BY <1>1, <1>5, <1>7 DEF CreateEdge
  <2>3. pairs' = pairs
    BY <1>1, <1>5, <2>2
  <2>4. in[e].dir = "Directional"
    <3>1. GoodGraph(DOMAIN file.nodes, in, inPairs)
      BY <1>1, Incoming
    <3> QED
      BY <1>1, <1>7, <3>1 DEF GoodGraph, Edge, Direction
  <2>5. GoodGraph(DOMAIN nodes', edges', pairs)
    <3>1. DOMAIN edges' = DOMAIN edges \cup {e} /\ edges'[e] = in[e]
      BY <2>1
    <3>2. \A x \in DOMAIN edges : edges'[x] = edges[x]
      BY <1>1, <2>1
    <3> QED
      BY <1>1, <1>3, <2>4, <3>1, <3>2, GoodSingle
  <2>6. Used'
    <3>1. \A x \in DOMAIN edges' : x \in DOMAIN edges \/ x = e
      BY <2>1
    <3>2. e[1] \in 0 .. k /\ e \in seenEdges' /\ e[3] # "added"
      BY <1>1, <1>4, <1>5 DEF AtEdge
    <3> QED
      BY <1>1, <2>3, <3>1, <3>2 DEF IInv, Used, AtEdge
  <2>7. DOMAIN edges' \subseteq EdgeId /\ edges' \in [DOMAIN edges' -> Edge]
    BY <1>1, <1>5, <2>1
  <2> QED
    BY <1>5, <1>6, <2>1, <2>3, <2>5, <2>6, <2>7 DEF EdgeMerged
<1>8. CASE e \in DOMAIN inPairs
  <2>1. edges' = [x \in DOMAIN edges \cup {e, q} |-> IF x \in {e, q} THEN in[x] ELSE edges[x]]
    BY <1>1, <1>8 DEF CreateEdge
  <2>2. {e, q} \cap DOMAIN inPairs = {e, q}
    BY <1>2, <1>8
  <2>3. pairs' = [x \in DOMAIN pairs \cup {e, q} |->
                    IF x \notin {e, q} THEN pairs[x] ELSE IF x = e THEN q ELSE e]
    BY <1>1, <1>8, <2>2 DEF CreateEdge
  <2>4. GoodGraph(DOMAIN nodes', edges', pairs')
    <3>1. DOMAIN edges' = DOMAIN edges \cup {e, q} /\ edges'[e] = in[e] /\ edges'[q] = in[q]
      BY <2>1
    <3>2. \A x \in DOMAIN edges : edges'[x] = edges[x]
      BY <1>1, <1>2, <1>8, <2>1
    <3>3. DOMAIN pairs' = DOMAIN pairs \cup {e, q} /\ pairs'[e] = q /\ pairs'[q] = e
      BY <1>2, <1>8, <2>3
    <3>4. \A x \in DOMAIN pairs : pairs'[x] = pairs[x]
      BY <1>1, <1>2, <1>5, <1>8, <2>3
    <3>5. Reversed(edges', e, q)
      BY <1>2, <1>8, <3>1 DEF Reversed
    <3> QED
      BY <1>1, <1>2, <1>3, <1>8, <3>1, <3>2, <3>3, <3>4, <3>5, GoodPair
  <2>5. Used'
    <3>1. \A x \in DOMAIN edges' : x \in DOMAIN edges \/ x \in {e, q}
      BY <2>1
    <3>2. \A x \in {e, q} : x[1] \in 0 .. k /\ x \in seenEdges' /\ x[3] # "added"
      BY <1>1, <1>2, <1>4, <1>5, <1>8 DEF AtEdge
    <3>3. DOMAIN pairs \subseteq DOMAIN pairs'
      BY <2>3
    <3> QED
      BY <1>1, <3>1, <3>2, <3>3 DEF IInv, Used, AtEdge
  <2>6. DOMAIN edges' \subseteq EdgeId /\ edges' \in [DOMAIN edges' -> Edge]
    BY <1>1, <1>2, <1>4, <1>5, <1>8, <2>1
  <2>7. DOMAIN pairs' \subseteq EdgeId /\ pairs' \in [DOMAIN pairs' -> EdgeId]
    BY <1>1, <1>2, <1>5, <1>8, <2>3
  <2> QED
    BY <1>5, <1>6, <2>1, <2>4, <2>5, <2>6, <2>7 DEF EdgeMerged
<1> QED
  BY <1>7, <1>8

\* Attributes of a merged edge change and nothing else of the merged graph.
LEMMA OnlyAttributes ==
    ASSUME IInv, NEW e, AtEdge(e), SameShape(edges, edges'), UNCHANGED <<pc, in, pairs>>,
           edges' \in [DOMAIN edges -> Edge]
    PROVE  EdgeMerged
<1>1. GoodGraph(DOMAIN nodes', edges', pairs')
  <2>1. GoodGraph(DOMAIN nodes', edges, pairs)
    BY AtEdgeFacts, GoodLarger DEF IInv
  <2> QED
    BY <2>1, GoodSameShape
<1>2. Used'
  BY DEF IInv, Used, SameShape, AtEdge, Scanning
<1>3. SameShape(in, in')
  BY SameShapeRefl
<1> QED
  BY <1>1, <1>2, <1>3 DEF EdgeMerged, IInv, TypeOK, SameShape

LEMMA DirectedMerged ==
    ASSUME IInv, NEW e, AtEdge(e), NEW o \in Alike(e), JoinDirected(e, o), UNCHANGED pc
    PROVE  EdgeMerged
<1>1. e \in DOMAIN in /\ in[e] \in Edge /\ o \in DOMAIN edges /\ edges[o] \in Edge
  BY AtEdgeFacts DEF Alike, IInv, TypeOK
<1>2. UnitedAttributes(in[e].attr, edges[o].attr) \in Attributes
  BY <1>1, UnitedTyped DEF Edge
<1>3. in' = [in EXCEPT ![e].attr = UnitedAttributes(in[e].attr, edges[o].attr)]
  BY DEF JoinDirected
<1>4. in' \in [DOMAIN in -> Edge] /\ SameShape(in, in')
  <2>1. in \in [DOMAIN in -> Edge]
    BY DEF IInv, TypeOK
  <2>2. [in[e] EXCEPT !.attr = UnitedAttributes(in[e].attr, edges[o].attr)] \in Edge
    BY <1>1, <1>2 DEF Edge
  <2> QED
    BY <1>1, <1>3, <2>1, <2>2 DEF SameShape, Edge
<1>5. GoodGraph(DOMAIN nodes', edges', pairs')
  BY AtEdgeFacts, GoodLarger DEF IInv, JoinDirected
<1>6. Used'
  BY DEF IInv, Used, AtEdge, Scanning, JoinDirected
<1> QED
  BY <1>4, <1>5, <1>6 DEF EdgeMerged, IInv, TypeOK, JoinDirected

LEMMA BidirectionalMerged ==
    ASSUME IInv, NEW e, AtEdge(e), in[e].dir = "Bidirectional", NEW o \in Alike(e),
           JoinBidirectional(e, o), UNCHANGED pc
    PROVE  EdgeMerged
<1> DEFINE halves == [x \in {o, pairs[o]} |-> IF x = o THEN e ELSE inPairs[e]]
<1>1. Scanning /\ e \in DOMAIN in
  BY AtEdgeFacts
<1>2. e \in DOMAIN inPairs /\ inPairs[e] \in DOMAIN in
  <2>1. GoodGraph(DOMAIN file.nodes, in, inPairs)
    BY <1>1, Incoming
  <2> QED
    BY <1>1, <2>1 DEF GoodGraph
<1>3. \A x \in DOMAIN halves : halves[x] \in DOMAIN in
  BY <1>1, <1>2
<1>4. edges' = [x \in DOMAIN edges |->
                  IF x \in DOMAIN halves
                  THEN [edges[x] EXCEPT !.attr = UnitedAttributes(@, in[halves[x]].attr)]
                  ELSE edges[x]]
  BY DEF JoinBidirectional
<1>5. \A x \in DOMAIN edges : edges[x] \in Edge
  BY DEF IInv, TypeOK
<1>6. \A x \in DOMAIN in : in[x] \in Edge
  BY DEF IInv, TypeOK
<1>7. ASSUME NEW x \in DOMAIN edges, x \in DOMAIN halves
      PROVE  [edges[x] EXCEPT !.attr = UnitedAttributes(@, in[halves[x]].attr)] \in Edge
  <2>1. UnitedAttributes(edges[x].attr, in[halves[x]].attr) \in Attributes
    BY <1>3, <1>5, <1>6, <1>7, UnitedTyped DEF Edge
  <2> QED
    BY <1>5, <2>1 DEF Edge
<1>8. edges' \in [DOMAIN edges -> Edge]
  BY <1>4, <1>5, <1>7
<1>9. SameShape(edges, edges')
  BY <1>4, <1>5 DEF SameShape, Edge
<1> QED
  BY <1>8, <1>9, OnlyAttributes DEF JoinBidirectional

LEMMA PairedMerged ==
    ASSUME IInv, NEW e, AtEdge(e), in[e].dir = "Directional", e \in DOMAIN inPairs,
           NEW o \in Alike(e), JoinPaired(e, o), UNCHANGED pc
    PROVE  EdgeMerged
<1> DEFINE both == UnitedAttributes(UnitedAttributes(edges[o].attr, in[e].attr),
                                    in[inPairs[e]].attr)
           a == Added(o)
<1>1. /\ Scanning /\ e \in DOMAIN in /\ inPairs[e] \in DOMAIN in
      /\ DOMAIN nodes' = DOMAIN nodes \cup {in[e].to}
  BY AtEdgeFacts
<1>2. o \in DOMAIN edges /\ edges[o].dir = "Directional"
  BY DEF Alike, IInv, TypeOK
<1>3. /\ \A x \in DOMAIN edges : edges[x] \in Edge
      /\ \A x \in DOMAIN in : in[x] \in Edge
      /\ o \in EdgeId /\ k \in Nat
  BY <1>1, <1>2, Incoming DEF IInv, TypeOK
<1>4. both \in Attributes
  BY <1>1, <1>2, <1>3, UnitedTyped DEF Edge
<1>5. CASE o \in DOMAIN pairs
  <2>1. edges' = [edges EXCEPT ![o].attr = both] /\ UNCHANGED <<pairs, in>>
    BY <1>5 DEF JoinPaired
  <2>2. [edges[o] EXCEPT !.attr = both] \in Edge
    BY <1>2, <1>3, <1>4 DEF Edge
  <2>3. edges' \in [DOMAIN edges -> Edge] /\ SameShape(edges, edges')
    BY <1>2, <1>3, <2>1, <2>2 DEF IInv, TypeOK, SameShape, Edge
  <2> QED
    BY <2>1, <2>3, OnlyAttributes
<1>6. CASE o \notin DOMAIN pairs
  <2> DEFINE g == WithReverse(o)
  <2>1. edges' = [g EXCEPT ![o].attr = both] /\ in' = in
    BY <1>6 DEF JoinPaired
  <2>2. pairs' = [x \in DOMAIN pairs \cup {o, a} |->
                    IF x = o THEN a ELSE IF x = a THEN o ELSE pairs[x]]
    BY <1>6 DEF JoinPaired
  <2>3. o[3] = "edge" /\ o = <<o[1], o[2], "edge">>
    BY <1>2, <1>3 DEF IInv, GoodGraph, EdgeId
  <2>4. a \in EdgeId /\ a[1] = o[1] /\ a[2] = o[2] /\ a[3] = "added" /\ a # o
    BY <1>3, <2>3 DEF Added, EdgeId, Half
  <2>5. a \notin DOMAIN edges
    BY <1>6, <2>3, <2>4 DEF IInv, Used
  <2>6. /\ DOMAIN g = DOMAIN edges \cup {a}
        /\ \A x \in DOMAIN edges : g[x] = edges[x]
        /\ g[a] = [from |-> edges[o].to, to |-> edges[o].from, type |-> edges[o].type,
                   dir |-> "Reverse", attr |-> NoAttributes]
    BY <2>5 DEF WithReverse
  <2>7. \A x \in DOMAIN g : g[x] \in Edge
    <3>1. NoAttributes \in Attributes
      BY DEF NoAttributes, Attributes
    <3>2. g[a] \in Edge
      BY <1>2, <1>3, <2>6, <3>1 DEF Edge, Direction
    <3> QED
      BY <1>3, <2>6, <3>2
  <2>8. GoodGraph(DOMAIN nodes', g, pairs')
    <3>1. GoodGraph(DOMAIN nodes', edges, pairs)
      BY <1>1, GoodLarger DEF IInv
    <3>2. DOMAIN pairs' = DOMAIN pairs \cup {o, a} /\ pairs'[o] = a /\ pairs'[a] = o
      BY <2>2, <2>4
    <3>3. \A x \in DOMAIN pairs : pairs'[x] = pairs[x]
      BY <1>6, <2>2, <2>5 DEF IInv, GoodGraph
    <3>4. Reversed(g, o, a) /\ g[a].dir = "Reverse"
      BY <1>2, <2>6 DEF Reversed
    <3> QED
      BY <1>2, <1>6, <2>5, <2>6, <3>1, <3>2, <3>3, <3>4, GoodReverse
  <2>9. edges' \in [DOMAIN g -> Edge] /\ SameShape(g, edges')
    <3>1. [g[o] EXCEPT !.attr = both] \in Edge
      BY <1>2, <1>4, <2>6, <2>7 DEF Edge
    <3>2. edges' = [x \in DOMAIN g |-> IF x = o THEN [g[o] EXCEPT !.attr = both] ELSE g[x]]
      BY <1>2, <2>1, <2>6 DEF WithReverse
    <3> QED
      BY <2>7, <3>1, <3>2 DEF SameShape, Edge
  <2>10. GoodGraph(DOMAIN nodes', edges', pairs')
    BY <2>8, <2>9, GoodSameShape
  <2>11. Used'
    <3>1. \A x \in DOMAIN edges' : x \in DOMAIN edges \/ x = a
      BY <2>6, <2>9
    <3>2. a[1] \in 0 .. k /\ <<a[1], a[2], "edge">> \in DOMAIN pairs'
      BY <1>2, <2>2, <2>3, <2>4 DEF IInv, Used
    <3>3. DOMAIN pairs \subseteq DOMAIN pairs'
      BY <2>2
    <3>4. k' = k /\ Scanning' = Scanning /\ seenEdges \subseteq seenEdges'
      BY DEF AtEdge, Scanning
    <3> QED
      BY <2>4, <3>1, <3>2, <3>3, <3>4 DEF IInv, Used
  <2>12. DOMAIN pairs' \subseteq EdgeId /\ pairs' \in [DOMAIN pairs' -> EdgeId]
    BY <1>3, <2>2, <2>4 DEF IInv, TypeOK
  <2>13. DOMAIN edges' \subseteq EdgeId /\ edges' \in [DOMAIN edges' -> Edge]
    BY <2>4, <2>6, <2>9 DEF IInv, TypeOK
  <2> QED
    BY <2>1, <2>6, <2>9, <2>10, <2>11, <2>12, <2>13, SameShapeRefl
       DEF EdgeMerged, IInv, TypeOK
<1> QED
  BY <1>5, <1>6

LEMMA MergeEdgeMerged ==
    ASSUME IInv, NEW e, AtEdge(e), MergeEdge(e)
    PROVE  EdgeMerged
<1>1. CASE CreateEdge(e)
  BY <1>1, CreateMerged
<1>2. CASE \E o \in Alike(e) : JoinEdge(e, o)
  <2> PICK o \in Alike(e) : JoinEdge(e, o)
    BY <1>2
  <2>1. JoinBidirectional(e, o) \/ JoinPaired(e, o) \/ JoinDirected(e, o)
    BY DEF JoinEdge
  <2>2. UNCHANGED pc
    BY DEF JoinEdge
  <2>3. CASE in[e].dir = "Bidirectional"
    <3>1. ~ (e \in DOMAIN inPairs /\ in[e].dir = "Directional")
      BY <2>3
    <3>2. JoinBidirectional(e, o)
      BY <2>3, <3>1 DEF JoinEdge
    <3> QED
      BY <2>2, <2>3, <3>2, BidirectionalMerged
  <2>4. CASE e \in DOMAIN inPairs /\ in[e].dir = "Directional"
    <3>1. JoinPaired(e, o)
      BY <2>4 DEF JoinEdge
    <3> QED
      BY <2>2, <2>4, <3>1, PairedMerged
  <2>5. CASE in[e].dir # "Bidirectional" /\ ~ (e \in DOMAIN inPairs /\ in[e].dir = "Directional")
    <3>1. JoinDirected(e, o)
      BY <2>5 DEF JoinEdge
    <3> QED
      BY <2>2, <3>1, DirectedMerged
  <2> QED
    BY <2>3, <2>4, <2>5
<1> QED
  BY <1>1, <1>2 DEF MergeEdge

LEMMA VisitEdgeInv == IInv /\ VisitEdge => IInv'
<1> SUFFICES ASSUME IInv, pc = "edges", NEW e \in out, out' = out \ {e},
                    nodes' = NodesWith(in[e].to), seenNodes' = seenNodes \cup {in[e].to},
                    IF in[e].dir = "Reverse" \/ e \in seenEdges
                    THEN UNCHANGED <<pc, edges, pairs, in, seenEdges>>
                    ELSE MergeEdge(e),
                    UNCHANGED <<files, k, todo, targets>>
             PROVE  IInv'
  BY DEF VisitEdge
<1>1. Scanning /\ e \in DOMAIN in
  BY DEF Scanning, IInv, TypeOK
<1>2. in[e].to \in DOMAIN file.nodes /\ k \in Nat \ {0}
  BY <1>1, Incoming DEF GoodGraph
<1>3. /\ DOMAIN nodes' = DOMAIN nodes \cup {in[e].to} /\ DOMAIN nodes' \subseteq Node
      /\ nodes' \in [DOMAIN nodes' -> Attributes]
  BY <1>1, <1>2, Converted
<1>4. EdgeMerged /\ seenEdges' \subseteq DOMAIN in /\ SeenClosed'
  <2>1. CASE in[e].dir = "Reverse" \/ e \in seenEdges
    <3>1. GoodGraph(DOMAIN nodes', edges', pairs')
      BY <1>3, <2>1, GoodLarger DEF IInv
    <3>2. Used'
      BY <2>1 DEF IInv, Used, Scanning
    <3>3. SeenClosed'
      BY <1>1, <2>1 DEF IInv, Merging, SeenClosed, inPairs, file
    <3> QED
      BY <2>1, <3>1, <3>2, <3>3, SameShapeRefl DEF EdgeMerged, IInv, TypeOK
  <2>2. CASE ~ (in[e].dir = "Reverse" \/ e \in seenEdges)
    <3>1. MergeEdge(e) /\ AtEdge(e)
      BY <2>2 DEF MergeEdge, AtEdge
    <3> QED
      BY <3>1, MergeEdgeMerged, AtEdgeFacts
  <2> QED
    BY <2>1, <2>2
<1>5. TypeOK'
  <2>1. in[e].to \in Node
    BY <1>3
  <2>2. DOMAIN in' = DOMAIN in
    BY <1>4 DEF EdgeMerged
  <2>3. DOMAIN in' \subseteq EdgeId /\ in' \in [DOMAIN in' -> Edge]
    BY <1>4, <2>2 DEF EdgeMerged, IInv, TypeOK
  <2>4. targets' \subseteq DOMAIN edges'
    BY <1>4 DEF EdgeMerged, IInv, TypeOK
  <2>5. /\ DOMAIN edges' \subseteq EdgeId /\ edges' \in [DOMAIN edges' -> Edge]
        /\ DOMAIN pairs' \subseteq EdgeId /\ pairs' \in [DOMAIN pairs' -> EdgeId]
        /\ pc' = pc
    BY <1>4 DEF EdgeMerged
  <2> QED
    BY <1>3, <1>4, <2>1, <2>2, <2>3, <2>4, <2>5 DEF IInv, TypeOK
<1>6. Merging'
  <2>1. SameShape(LoadedEdges(k, file), in)
    BY <1>1 DEF IInv, Merging
  <2>2. SameShape(LoadedEdges(k', file'), in')
    BY <1>4, <2>1 DEF EdgeMerged, SameShape, file
  <2>3. seenNodes' \subseteq DOMAIN file.nodes \cap DOMAIN nodes'
    BY <1>1, <1>2, <1>3 DEF IInv, Merging
  <2>4. \A x \in out' : in'[x].from \in seenNodes'
    <3>1. \A x \in out : in[x].from \in seenNodes /\ x \in DOMAIN in
      BY <1>1 DEF IInv, Merging, TypeOK
    <3> QED
      BY <1>4, <3>1 DEF EdgeMerged, SameShape
  <2> QED
    BY <1>1, <1>4, <2>2, <2>3, <2>4 DEF IInv, Merging, EdgeMerged, Scanning, file
<1> QED
  BY <1>2, <1>4, <1>5, <1>6 DEF IInv, EdgeMerged, Unread

\* The steps that change neither a graph nor what is visited.
LEMMA PassInv ==
    ASSUME IInv, UNCHANGED <<files, k, graphVars, mergeVars>>,
           pc' \in {"load", "nodes", "done"}, pc' = "nodes" => Scanning, k = 0 => pc' = "load"
    PROVE  IInv'
<1> USE DEF graphVars, mergeVars
<1>1. TypeOK'
  BY DEF IInv, TypeOK
<1>2. Merging'
  BY DEF IInv, Merging, Scanning, SeenClosed, inPairs, file
<1>3. Used'
  BY DEF IInv, Used, Scanning
<1> QED
  BY <1>1, <1>2, <1>3 DEF IInv, Unread

LEMMA StepInv == IInv /\ [Next]_vars => IInv'
<1> SUFFICES ASSUME IInv, [Next]_vars PROVE IInv'
  OBVIOUS
<1>1. CASE LoadFirst
  BY <1>1, LoadFirstInv
<1>2. CASE BeginMerge
  BY <1>2, BeginMergeInv
<1>3. CASE VisitNode
  BY <1>3, VisitNodeInv
<1>4. CASE VisitEdge
  BY <1>4, VisitEdgeInv
<1>5. CASE NodeDone
  BY <1>5, PassInv DEF NodeDone, Scanning, IInv, TypeOK
<1>6. CASE EndMerge
  BY <1>6, PassInv DEF EndMerge
<1>7. CASE Save
  <2>1. k # 0
    BY <1>7, InputsAssumption DEF Save, IInv, TypeOK
  <2> QED
    BY <1>7, <2>1, PassInv DEF Save
<1>8. CASE Ended \/ UNCHANGED vars
  <2>1. UNCHANGED vars
    BY <1>8 DEF Ended
  <2>2. TypeOK' /\ Unread'
    BY <2>1 DEF IInv, TypeOK, Unread, vars, graphVars, mergeVars
  <2>3. Merging'
    BY <2>1 DEF IInv, Merging, Scanning, SeenClosed, inPairs, file, vars, graphVars, mergeVars
  <2>4. Used'
    BY <2>1 DEF IInv, Used, Scanning, vars, graphVars, mergeVars
  <2> QED
    BY <2>1, <2>2, <2>3, <2>4 DEF IInv, vars, graphVars, mergeVars
<1> QED
  BY <1>1, <1>2, <1>3, <1>4, <1>5, <1>6, <1>7, <1>8 DEF Next

LEMMA Invariant == Spec => []IInv
<1> QED
  BY InitInv, StepInv, PTL DEF Spec

\* The types are kept.
THEOREM TypeCorrect == Spec => []TypeOK
<1>1. IInv => TypeOK
  BY DEF IInv
<1> QED
  BY <1>1, Invariant, PTL

\* Whatever files are merged, every edge of the merged graph stays between two of
\* its nodes, pairs lead back to each other, every Reverse edge is a pair, and the
\* merge never throws (Graph::merge with convertNodeMerge and convertEdgeMerge).
THEOREM MergedGraphWellFormed == Spec => []WellFormed
<1>1. IInv => WellFormed
  BY DEF IInv, GoodGraph, WellFormed, Anchored, PairsLive, PairsMutual
<1> QED
  BY <1>1, Invariant, PTL

(***************************************************************************)
(* Refinement.  A step that converts a node changes nothing of what it     *)
(* will be in the end.                                                     *)
(***************************************************************************)
LEMMA ConversionIsStutter ==
    ASSUME IInv, Scanning, Scanning', NEW n \in DOMAIN file.nodes, nodes' = NodesWith(n),
           seenNodes' = seenNodes \cup {n}, UNCHANGED <<files, k>>
    PROVE  finalNodes' = finalNodes
<1>1. file' = file /\ unvisited = DOMAIN file.nodes \ seenNodes
      /\ unvisited' = unvisited \ {n}
  BY DEF file, unvisited
<1>2. DOMAIN nodes' = DOMAIN nodes \cup {n}
  BY Converted
<1>3. n \in seenNodes => n \in DOMAIN nodes
  BY DEF IInv, Merging
<1>4. DOMAIN nodes' \cup unvisited' = DOMAIN nodes \cup unvisited
  BY <1>1, <1>2, <1>3
<1>5. nodes \in [DOMAIN nodes -> Attributes]
  BY DEF IInv, TypeOK
<1>6. \A m \in DOMAIN nodes \cup unvisited :
        (IF m \notin DOMAIN nodes' THEN file.nodes[m]
         ELSE IF m \notin unvisited' THEN nodes'[m]
         ELSE UnitedAttributes(nodes'[m], file.nodes[m]))
        = (IF m \notin DOMAIN nodes THEN file.nodes[m]
           ELSE IF m \notin unvisited THEN nodes[m]
           ELSE UnitedAttributes(nodes[m], file.nodes[m]))
  <2>1. CASE n \in seenNodes
    BY <1>1, <1>2, <1>3, <2>1 DEF NodesWith
  <2>2. CASE n \notin seenNodes /\ n \in DOMAIN nodes
    <3>1. nodes'[n] = UnitedAttributes(nodes[n], file.nodes[n])
      BY <1>5, <2>2 DEF NodesWith
    <3>2. \A m \in DOMAIN nodes : m # n => nodes'[m] = nodes[m]
      BY <1>5, <2>2 DEF NodesWith
    <3>3. n \in unvisited
      BY <1>1, <2>2
    <3> QED
      BY <1>1, <1>2, <2>2, <3>1, <3>2, <3>3
  <2>3. CASE n \notin seenNodes /\ n \notin DOMAIN nodes
    <3>1. nodes'[n] = file.nodes[n] /\ \A m \in DOMAIN nodes : nodes'[m] = nodes[m]
      BY <2>3 DEF NodesWith
    <3> QED
      BY <1>1, <1>2, <2>3, <3>1
  <2> QED
    BY <2>1, <2>2, <2>3
<1> QED
  BY <1>1, <1>4, <1>6 DEF finalNodes

\* Outside a merge the nodes are what they will be.
LEMMA FinalOutside ==
    ASSUME IInv, unvisited = {}
    PROVE  finalNodes = nodes
BY DEF finalNodes, IInv, TypeOK

LEMMA RefinesInit == Init => Union!Init
BY DEF Init, Union!Init, finalNodes, unvisited, Scanning

LEMMA RefinesLoadFirst == IInv /\ LoadFirst /\ IInv' => Union!Read
<1> SUFFICES ASSUME IInv, LoadFirst, IInv' PROVE Union!Read
  OBVIOUS
<1>1. nodes = finalNodes /\ nodes' = finalNodes'
  <2>1. unvisited = {} /\ unvisited' = {}
    BY DEF LoadFirst, unvisited, Scanning
  <2>2. nodes' = [n \in DOMAIN nodes' |-> nodes'[n]]
    BY DEF IInv, TypeOK
  <2>3. finalNodes' = nodes'
    BY <2>1, <2>2 DEF finalNodes
  <2> QED
    BY <2>1, <2>3, FinalOutside
<1>2. DOMAIN nodes = {}
  BY DEF LoadFirst, IInv, Unread
<1>3. nodes' = files[1].nodes /\ nodes' = [n \in DOMAIN nodes' |-> nodes'[n]]
  BY DEF LoadFirst, IInv, TypeOK
<1>4. Union!UnitedNodes(nodes, files[1].nodes) = files[1].nodes
  BY <1>2, <1>3 DEF Union!UnitedNodes
<1>5. k = 0 /\ k' = 1 /\ 0 < Len(files) /\ UNCHANGED files
  BY InputsAssumption DEF LoadFirst, IInv, TypeOK
<1> QED
  BY <1>1, <1>3, <1>4, <1>5 DEF Union!Read

LEMMA RefinesBeginMerge == IInv /\ BeginMerge => Union!Read
<1> SUFFICES ASSUME IInv, BeginMerge PROVE Union!Read
  OBVIOUS
<1>1. finalNodes = nodes
  BY FinalOutside DEF BeginMerge, unvisited, Scanning
<1>2. unvisited' = DOMAIN files[k + 1].nodes /\ file' = files[k + 1] /\ nodes' = nodes
  BY DEF BeginMerge, unvisited, Scanning, file, graphVars
<1>3. finalNodes' = Union!UnitedNodes(nodes, files[k + 1].nodes)
  BY <1>2 DEF finalNodes, Union!UnitedNodes, UnitedAttributes, Union!UnitedAttributes
<1> QED
  BY <1>1, <1>3 DEF BeginMerge, Union!Read

LEMMA RefinesStep == IInv /\ [Next]_vars /\ IInv' => [Union!Read]_(Union!vars)
<1> SUFFICES ASSUME IInv, [Next]_vars, IInv'
             PROVE  Union!Read \/ UNCHANGED <<files, k, finalNodes>>
  BY DEF Union!vars
<1>1. CASE LoadFirst
  BY <1>1, RefinesLoadFirst
<1>2. CASE BeginMerge
  BY <1>2, RefinesBeginMerge
<1>3. CASE VisitNode
  <2> PICK n \in todo : /\ nodes' = NodesWith(n) /\ seenNodes' = seenNodes \cup {n}
                        /\ pc' = "edges" /\ UNCHANGED <<files, k>>
    BY <1>3 DEF VisitNode
  <2>1. Scanning /\ Scanning'
    BY <1>3 DEF VisitNode, Scanning
  <2>2. n \in DOMAIN file.nodes
    BY <2>1 DEF IInv, Merging
  <2> QED
    BY <2>1, <2>2, ConversionIsStutter
<1>4. CASE VisitEdge
  <2> PICK e \in out : /\ nodes' = NodesWith(in[e].to) /\ seenNodes' = seenNodes \cup {in[e].to}
                       /\ UNCHANGED <<files, k>>
    BY <1>4 DEF VisitEdge
  <2>1. Scanning /\ e \in DOMAIN in
    BY <1>4 DEF VisitEdge, Scanning, IInv, TypeOK
  <2>2. pc' = "edges"
    <3>1. pc' \in {"edges", "threw"}
      BY <1>4 DEF VisitEdge, MergeEdge, CreateEdge, JoinEdge
    <3> QED
      BY <3>1 DEF IInv
  <2>3. in[e].to \in DOMAIN file.nodes
    BY <2>1, Incoming DEF GoodGraph
  <2> QED
    BY <2>1, <2>2, <2>3, ConversionIsStutter DEF Scanning
<1>5. CASE NodeDone
  BY <1>5 DEF NodeDone, finalNodes, unvisited, Scanning, file, graphVars, mergeVars
<1>6. CASE EndMerge
  <2>1. unvisited = {} /\ unvisited' = {}
    BY <1>6 DEF EndMerge, unvisited, Scanning, IInv, Merging
  <2> QED
    BY <1>6, <2>1 DEF EndMerge, finalNodes, file, graphVars, mergeVars
<1>7. CASE Save
  BY <1>7 DEF Save, finalNodes, unvisited, Scanning, file, graphVars, mergeVars
<1>8. CASE Ended \/ UNCHANGED vars
  BY <1>8 DEF Ended, vars, finalNodes, unvisited, Scanning, file, graphVars, mergeVars
<1> QED
  BY <1>1, <1>2, <1>3, <1>4, <1>5, <1>6, <1>7, <1>8 DEF Next

\* Merging files unites their nodes: each file's attributes are taken over exactly
\* once, whatever the order in which the iterators come across the nodes.
THEOREM NodesAreUnited == Spec => ImplementsNodeUnion
<1> QED
  BY RefinesInit, RefinesStep, Invariant, PTL DEF Spec, ImplementsNodeUnion, Union!Spec

(***************************************************************************)
(* Sums.  SumsOf is recursive; that some function solves its equation is   *)
(* shown from the least number for which none does, because the theorems   *)
(* about recursive functions of the library cannot be used here.           *)
(***************************************************************************)
\* What the first i files count, given what those before the last one count.
NextSum(n, m, i, before) ==
    IF i = 0 THEN 0
    ELSE IF n \in DOMAIN files[i].nodes THEN before + files[i].nodes[n].value[m]
    ELSE before

SumSolves(f, n, m, D) == f = [i \in D |-> NextSum(n, m, i, f[i - 1])]

LEMMA LeastOf ==
    ASSUME NEW N \in SUBSET Nat, N # {}
    PROVE  \E i \in N : \A j \in N : i <= j
<1> DEFINE R == OpToRel(<, Nat)
<1>1. \A i, j \in Nat : i < j => <<i, j>> \in R
  BY DEF OpToRel
<1>2. \E i \in N : \A j \in N : ~ (<<j, i>> \in R)
  BY WFMin, NatLessThanWellFounded, Zenon
<1> HIDE DEF R
<1>3. PICK i \in N : \A j \in N : ~ (<<j, i>> \in R)
  BY <1>2
<1>4. \A j \in N : ~ (j < i)
  BY <1>1, <1>3
<1> QED
  BY <1>4

\* Two solutions agree as far as both go.
LEMMA SumsAgree ==
    ASSUME NEW n, NEW m, NEW p \in Nat, NEW q \in Nat, NEW g, NEW h,
           SumSolves(g, n, m, 0 .. p), SumSolves(h, n, m, 0 .. q)
    PROVE  \A i \in (0 .. p) \cap (0 .. q) : g[i] = h[i]
<1> DEFINE S == {i \in Nat : i <= p /\ i <= q /\ g[i] # h[i]}
<1> SUFFICES ASSUME S # {} PROVE FALSE
  OBVIOUS
<1>1. PICK i \in S : \A j \in S : i <= j
  BY LeastOf
<1>2. g[i] = NextSum(n, m, i, g[i - 1]) /\ h[i] = NextSum(n, m, i, h[i - 1])
  BY DEF SumSolves
<1>3. i # 0
  BY <1>2 DEF NextSum
<1>4. g[i - 1] = h[i - 1]
  BY <1>1, <1>3
<1> QED
  BY <1>2, <1>4

\* There is a solution up to any number.
LEMMA SumsReach ==
    ASSUME NEW n, NEW m, NEW p \in Nat
    PROVE  \E g : SumSolves(g, n, m, 0 .. p)
<1> DEFINE S == {q \in Nat : ~ \E g : SumSolves(g, n, m, 0 .. q)}
<1> SUFFICES ASSUME S # {} PROVE FALSE
  OBVIOUS
<1>1. PICK q \in S : \A j \in S : q <= j
  <2> HIDE DEF S
  <2>1. S \in SUBSET Nat
    BY DEF S
  <2> QED
    BY <2>1, LeastOf
<1>2. CASE q = 0
  <2> DEFINE g == [i \in 0 .. 0 |-> 0]
  <2>1. SumSolves(g, n, m, 0 .. 0)
    BY DEF SumSolves, NextSum
  <2> QED
    BY <1>2, <2>1
<1>3. CASE q # 0
  <2>1. q - 1 \in Nat /\ q - 1 \notin S
    BY <1>1, <1>3
  <2>2. PICK g : SumSolves(g, n, m, 0 .. (q - 1))
    BY <2>1
  <2> DEFINE h == [i \in 0 .. q |-> IF i = q THEN NextSum(n, m, q, g[q - 1]) ELSE g[i]]
  <2>3. ASSUME NEW i \in 0 .. q
        PROVE  h[i] = NextSum(n, m, i, h[i - 1])
    <3>1. CASE i = q
      <4>1. h[i - 1] = g[q - 1]
        BY <3>1, <2>1, <1>3
      <4> QED
        BY <3>1, <4>1
    <3>2. CASE i = 0
      <4>1. h[0] = g[0]
        BY <1>3, <3>2
      <4>2. g[0] = NextSum(n, m, 0, g[0 - 1])
        BY <2>1, <2>2 DEF SumSolves
      <4> QED
        BY <3>2, <4>1, <4>2 DEF NextSum
    <3>3. CASE i # q /\ i # 0
      <4>1. i \in 0 .. (q - 1) /\ i - 1 \in 0 .. q /\ i - 1 # q
        BY <3>3
      <4>2. h[i] = g[i] /\ h[i - 1] = g[i - 1]
        BY <4>1, <3>3
      <4>3. g[i] = NextSum(n, m, i, g[i - 1])
        BY <4>1, <2>2 DEF SumSolves
      <4> QED
        BY <4>2, <4>3
    <3> QED
      BY <3>1, <3>2, <3>3
  <2>4. SumSolves(h, n, m, 0 .. q)
    BY <2>3, Zenon DEF SumSolves
  <2> QED
    BY <2>4
<1> QED
  BY <1>2, <1>3

\* The recursion of SumsOf.
LEMMA SumsOfEquation ==
    ASSUME NEW n, NEW m, NEW i \in Nat
    PROVE  SumsOf(n, m)[i] = NextSum(n, m, i, SumsOf(n, m)[i - 1])
<1> DEFINE P(q) == CHOOSE g : SumSolves(g, n, m, 0 .. q)
           f == [q \in Nat |-> P(q)[q]]
<1>1. ASSUME NEW q \in Nat PROVE SumSolves(P(q), n, m, 0 .. q)
  BY SumsReach
<1>2. ASSUME NEW q \in Nat PROVE f[q] = NextSum(n, m, q, f[q - 1])
  <2>1. P(q)[q] = NextSum(n, m, q, P(q)[q - 1])
    <3> HIDE DEF P
    <3> QED
      BY <1>1 DEF SumSolves
  <2>2. CASE q = 0
    BY <2>1, <2>2 DEF NextSum
  <2>3. CASE q # 0
    <3>1. q - 1 \in Nat /\ q - 1 \in (0 .. q) \cap (0 .. (q - 1))
      BY <2>3
    <3>2. P(q)[q - 1] = P(q - 1)[q - 1]
      <4> HIDE DEF P
      <4>1. SumSolves(P(q), n, m, 0 .. q) /\ SumSolves(P(q - 1), n, m, 0 .. (q - 1))
        BY <1>1, <3>1
      <4> QED
        BY <3>1, <4>1, SumsAgree
    <3> QED
      BY <2>1, <3>1, <3>2
  <2> QED
    BY <2>2, <2>3
<1>3. SumSolves(f, n, m, Nat)
  <2> HIDE DEF P
  <2> QED
    BY <1>2, Zenon DEF SumSolves
<1>4. SumsOf(n, m) = CHOOSE g : SumSolves(g, n, m, Nat)
  BY DEF SumsOf, SumSolves, NextSum
<1>5. SumSolves(SumsOf(n, m), n, m, Nat)
  <2> HIDE DEF f
  <2> QED
    BY <1>3, <1>4
<1> QED
  BY <1>5 DEF SumSolves

\* Seen through finalNodes the nodes are always those of the files read so far.
NodeInv ==
    /\ DOMAIN finalNodes = {n \in Node : With(n) # {}}
    /\ \A n \in DOMAIN finalNodes :
         /\ finalNodes[n].text = UNION {files[i].nodes[n].text : i \in With(n)}
         /\ finalNodes[n].metrics = UNION {files[i].nodes[n].metrics : i \in With(n)}
         /\ finalNodes[n].value = [m \in Metric |-> SumsOf(n, m)[k]]
    /\ \A n \in Node \ DOMAIN finalNodes : \A m \in Metric : SumsOf(n, m)[k] = 0

LEMMA ReadUnites ==
    ASSUME IInv, NodeInv, Union!Read
    PROVE  NodeInv'
<1> DEFINE new == files[k + 1].nodes
<1>1. k \in Nat /\ k + 1 \in 1 .. Len(files) /\ k' = k + 1 /\ files' = files
      /\ finalNodes' = Union!UnitedNodes(finalNodes, new)
  BY InputsAssumption DEF Union!Read, IInv, TypeOK
<1>2. DOMAIN new \subseteq Node
  BY <1>1, FilesTyped DEF IInv, IsFile
<1>3. \A n : With(n)' = With(n) \cup (IF n \in DOMAIN new THEN {k + 1} ELSE {})
  BY <1>1 DEF With
<1>4. DOMAIN finalNodes' = DOMAIN finalNodes \cup DOMAIN new
  BY <1>1 DEF Union!UnitedNodes
<1>5. DOMAIN finalNodes' = {n \in Node : With(n)' # {}}
  BY <1>2, <1>3, <1>4 DEF NodeInv
<1>6. ASSUME NEW n, NEW m
      PROVE  SumsOf(n, m)'[k + 1] = IF n \in DOMAIN new THEN SumsOf(n, m)[k] + new[n].value[m]
                                    ELSE SumsOf(n, m)[k]
  <2>1. SumsOf(n, m)' = SumsOf(n, m)
    BY <1>1 DEF SumsOf
  <2>2. SumsOf(n, m)[k + 1] = NextSum(n, m, k + 1, SumsOf(n, m)[k])
    <3>1. k + 1 \in Nat /\ (k + 1) - 1 = k
      BY <1>1
    <3>2. SumsOf(n, m)[k + 1] = NextSum(n, m, k + 1, SumsOf(n, m)[(k + 1) - 1])
      BY <3>1, SumsOfEquation
    <3> QED
      BY <3>1, <3>2
  <2>3. k + 1 # 0
    BY <1>1
  <2> QED
    BY <2>1, <2>2, <2>3 DEF NextSum
<1>7. ASSUME NEW n \in DOMAIN new
      PROVE  /\ new[n].value = [m \in Metric |-> new[n].value[m]]
             /\ \A m \in Metric : new[n].value[m] \in Int
  <2>1. new[n].value \in [Metric -> Int]
    BY <1>1, FilesTyped DEF IInv, IsFile, Attributes
  <2> QED
    BY <2>1
<1>8. ASSUME NEW n \in DOMAIN finalNodes'
      PROVE  /\ finalNodes'[n].text = UNION {files[i].nodes[n].text : i \in With(n)'}
             /\ finalNodes'[n].metrics = UNION {files[i].nodes[n].metrics : i \in With(n)'}
             /\ finalNodes'[n].value = [m \in Metric |-> SumsOf(n, m)'[k + 1]]
  <2> n \in Node
    BY <1>5
  <2>1. CASE n \notin DOMAIN new
    <3>1. finalNodes'[n] = finalNodes[n] /\ With(n)' = With(n) /\ n \in DOMAIN finalNodes
      BY <1>1, <1>3, <1>4, <2>1 DEF Union!UnitedNodes
    <3>2. \A m \in Metric : SumsOf(n, m)'[k + 1] = SumsOf(n, m)[k]
      BY <2>1, <1>6
    <3>3. finalNodes[n].value = [m \in Metric |-> SumsOf(n, m)'[k + 1]]
      BY <3>1, <3>2 DEF NodeInv
    <3> QED
      BY <3>1, <3>3 DEF NodeInv
  <2>2. CASE n \in DOMAIN new /\ n \notin DOMAIN finalNodes
    <3>1. finalNodes'[n] = new[n]
      BY <1>1, <2>2 DEF Union!UnitedNodes
    <3>2. With(n)' = {k + 1}
      BY <1>2, <1>3, <2>2 DEF NodeInv
    <3>3. ASSUME NEW m \in Metric PROVE new[n].value[m] = SumsOf(n, m)'[k + 1]
      <4>1. SumsOf(n, m)[k] = 0 /\ new[n].value[m] \in Int
        BY <2>2, <1>7 DEF NodeInv
      <4> QED
        BY <4>1, <2>2, <1>6
    <3>4. new[n].value = [m \in Metric |-> SumsOf(n, m)'[k + 1]]
      BY <3>3, <2>2, <1>7, Zenon
    <3> QED
      BY <3>1, <3>2, <3>4
  <2>3. CASE n \in DOMAIN new /\ n \in DOMAIN finalNodes
    <3>1. finalNodes'[n] = UnitedAttributes(finalNodes[n], new[n])
      BY <1>1, <2>3 DEF Union!UnitedNodes, UnitedAttributes, Union!UnitedAttributes
    <3>2. /\ finalNodes'[n].text = finalNodes[n].text \cup new[n].text
          /\ finalNodes'[n].metrics = finalNodes[n].metrics \cup new[n].metrics
          /\ finalNodes'[n].value =
                 [m \in Metric |-> finalNodes[n].value[m] + new[n].value[m]]
      BY <3>1 DEF UnitedAttributes
    <3>3. With(n)' = With(n) \cup {k + 1}
      BY <1>3, <2>3
    <3>4. /\ finalNodes[n].text = UNION {files[i].nodes[n].text : i \in With(n)}
          /\ finalNodes[n].metrics = UNION {files[i].nodes[n].metrics : i \in With(n)}
      BY <2>3 DEF NodeInv
    <3>5. ASSUME NEW m \in Metric
          PROVE  finalNodes[n].value[m] + new[n].value[m] = SumsOf(n, m)'[k + 1]
      BY <2>3, <1>6 DEF NodeInv
    <3>6. finalNodes'[n].value = [m \in Metric |-> SumsOf(n, m)'[k + 1]]
      BY <3>2, <3>5, Zenon
    <3> QED
      BY <3>2, <3>3, <3>4, <3>6
  <2> QED
    BY <2>1, <2>2, <2>3
<1>9. ASSUME NEW n \in Node \ DOMAIN finalNodes', NEW m \in Metric
      PROVE  SumsOf(n, m)'[k + 1] = 0
  <2>1. n \notin DOMAIN new /\ n \in Node \ DOMAIN finalNodes
    BY <1>4
  <2> QED
    BY <2>1, <1>6 DEF NodeInv
<1> QED
  BY <1>1, <1>5, <1>8, <1>9 DEF NodeInv

\* Between two merges the graph has exactly the nodes of the files read so far, with
\* all their strings and metrics and the sums of their numbers (Graph::merge with
\* convertNodeMerge).
THEOREM NodesAreComplete == Spec => []NodesUnited
<1>1. Init => NodeInv
  <2> SUFFICES ASSUME Init PROVE NodeInv
    OBVIOUS
  <2>1. DOMAIN finalNodes = {}
    BY DEF Init, finalNodes, unvisited, Scanning
  <2>2. \A n : With(n) = {}
    BY DEF Init, With
  <2>3. \A n, m : SumsOf(n, m)[k] = 0
    BY SumsOfEquation DEF Init, NextSum
  <2> QED
    BY <2>1, <2>2, <2>3 DEF NodeInv
<1>2. IInv /\ NodeInv /\ [Next]_vars /\ IInv' => NodeInv'
  <2> SUFFICES ASSUME IInv, NodeInv, [Union!Read]_(Union!vars) PROVE NodeInv'
    BY RefinesStep
  <2>1. CASE Union!Read
    BY <2>1, ReadUnites
  <2>2. CASE UNCHANGED <<files, k, finalNodes>>
    BY <2>2 DEF NodeInv, With, SumsOf
  <2> QED
    BY <2>1, <2>2 DEF Union!vars
<1>3. IInv /\ NodeInv => NodesUnited
  <2> SUFFICES ASSUME IInv, NodeInv, pc \in {"load", "done"} PROVE NodesUnited
    BY DEF NodesUnited
  <2>1. finalNodes = nodes
    BY FinalOutside DEF unvisited, Scanning
  <2> QED
    BY <2>1 DEF NodeInv, NodesUnited
<1> QED
  BY <1>1, <1>2, <1>3, Invariant, PTL DEF Spec

(***************************************************************************)
(* The edges.  Between two nodes a merge decides once, by what was there   *)
(* before it began: either all edges of a type and a direction that the    *)
(* file has find their like, or none does and all of them are created.     *)
(***************************************************************************)
Loaded(i) == LoadedEdges(i, files[i])
Has(i, end) == Between(Loaded(i), end) # {}

\* The files that were read before the merge under way.
Before == IF Scanning THEN 1 .. (k - 1) ELSE 1 .. k
Earlier(end) == \E i \in Before : Has(i, end)

EndOf(e) == [from |-> in[e].from, to |-> in[e].to, type |-> in[e].type, dir |-> in[e].dir]

\* The iterators have yet to come across e.
Waiting(e) == (in[e].from \in todo \/ e \in out) /\ e \notin seenEdges

FirstKept == \A end \in Ends : Earlier(end) =>
    \E i \in Before : /\ Has(i, end)
                      /\ \A j \in Before : Has(j, end) => i <= j
                      /\ Between(edges, end) = Between(Loaded(i), end)

NewComing == \A end \in Ends : ~ Earlier(end) =>
    IF Scanning THEN /\ Between(edges, end) \subseteq Between(in, end)
                     /\ \A e \in Between(in, end) : e \in Between(edges, end) \/ Waiting(e)
                ELSE Between(edges, end) = {}

Walkable(end) == Between(edges, end) \cap DOMAIN pairs # {}

WaysBack == \A end \in Ends : end.dir = "Directional" =>
    /\ \A i \in Before :
         Between(Loaded(i), end) \cap DOMAIN LoadedPairs(i, files[i]) # {} => Walkable(end)
    /\ Scanning =>
         \A e \in Between(in, end) \cap DOMAIN inPairs : Waiting(e) \/ Walkable(end)

\* What has been visited: an edge that is not directed may have been visited from
\* its other end, too.
VisitOrder == Scanning =>
    /\ pc = "nodes" => out = {}
    /\ \A e \in out : in[e].from \notin todo
    /\ \A e \in DOMAIN in : in[e].dir # "Reverse" => e \in seenEdges \/ Waiting(e)
    /\ \A e \in seenEdges :
         /\ in[e].dir = "Directional" => in[e].from \notin todo
         /\ in[e].dir = "Bidirectional" => ~ {in[e].from, in[e].to} \subseteq todo

\* An edge finds its like if an earlier file had one, and only then.
LikeFound == pc = "edges" => \A e \in out :
    in[e].dir # "Reverse" /\ e \notin seenEdges =>
        Alike(e) = IF Earlier(EndOf(e)) THEN Between(edges, EndOf(e)) ELSE {}

EdgeInv == FirstKept /\ NewComing /\ WaysBack /\ VisitOrder /\ LikeFound

LEMMA SameBetween ==
    ASSUME NEW g, NEW h, SameShape(g, h), NEW end
    PROVE  Between(h, end) = Between(g, end)
BY DEF SameShape, Between

\* The edges of g are in h, between the same nodes.
KeptShape(g, h) ==
    \A e \in DOMAIN g : /\ e \in DOMAIN h
                        /\ h[e].from = g[e].from /\ h[e].to = g[e].to
                        /\ h[e].type = g[e].type /\ h[e].dir = g[e].dir

\* The other half of a bidirectional edge is bidirectional, that of a directed one
\* can only be walked to.
LEMMA LoadedHalves ==
    ASSUME NEW n \in Nat, NEW f, IsFile(f), NEW e \in DOMAIN LoadedPairs(n, f)
    PROVE  LET L == LoadedEdges(n, f)
               other == LoadedPairs(n, f)[e]
           IN  /\ L[e].dir = "Bidirectional" => L[other].dir = "Bidirectional"
               /\ L[e].dir = "Directional" => L[other].dir = "Reverse"
<1> DEFINE entry == f.entries[e[2]]
           other == LoadedPairs(n, f)[e]
           L == LoadedEdges(n, f)
<1>1. /\ e \in LoadedIds(n, f) /\ entry \in Entry
      /\ other = <<n, e[2], PairHalf(entry, e[3])>>
  BY DEF LoadedPairs, LoadedIds, IsFile
<1>2. other \in LoadedIds(n, f)
  BY LoadedTyped
<1>3. /\ L[e] = LoadedEdge(entry, e[3])
      /\ L[other] = LoadedEdge(entry, PairHalf(entry, e[3]))
  BY <1>1, <1>2 DEF LoadedEdges
<1>4. e[3] \in HalvesOf(entry)
  BY <1>1 DEF LoadedIds
<1> QED
  BY <1>1, <1>3, <1>4 DEF LoadedEdge, PairHalf, HalvesOf, Entry, Direction

\* The same edges, seen from their other end.
Flipped(end) == [from |-> end.to, to |-> end.from, type |-> end.type, dir |-> end.dir]

LEMMA HasFlipped ==
    ASSUME NEW n \in Nat, NEW f, IsFile(f), NEW end \in Ends, end.dir = "Bidirectional",
           Between(LoadedEdges(n, f), end) # {}
    PROVE  Between(LoadedEdges(n, f), Flipped(end)) # {}
<1> PICK e \in Between(LoadedEdges(n, f), end) : TRUE
  OBVIOUS
<1>1. e \in DOMAIN LoadedEdges(n, f) /\ LoadedEdges(n, f)[e].dir = "Bidirectional"
  BY DEF Between
<1>2. /\ e \in DOMAIN LoadedPairs(n, f)
      /\ LoadedPairs(n, f)[e] \in DOMAIN LoadedEdges(n, f)
      /\ Reversed(LoadedEdges(n, f), e, LoadedPairs(n, f)[e])
  BY <1>1, LoadedGood DEF GoodGraph
<1>3. LoadedEdges(n, f)[LoadedPairs(n, f)[e]].dir = "Bidirectional"
  BY <1>1, <1>2, LoadedHalves
<1>4. LoadedPairs(n, f)[e] \in Between(LoadedEdges(n, f), Flipped(end))
  BY <1>2, <1>3 DEF Between, Flipped, Reversed
<1> QED
  BY <1>4

LEMMA BeforeTyped ==
    ASSUME IInv
    PROVE  /\ k \in Nat /\ Before \subseteq 1 .. Len(files) /\ Before \subseteq 1 .. k
           /\ \A i \in Before : i \in Nat /\ IsFile(files[i])
<1>1. Len(files) \in Nat /\ k \in Nat /\ k <= Len(files)
  BY InputsAssumption DEF IInv, TypeOK
<1>2. Before \subseteq 1 .. Len(files) /\ Before \subseteq 1 .. k
  BY <1>1 DEF Before
<1> QED
  BY <1>1, <1>2, FilesTyped DEF IInv

LEMMA EarlierFlipped ==
    ASSUME IInv, NEW end \in Ends, end.dir = "Bidirectional", Earlier(Flipped(end))
    PROVE  Earlier(end)
<1>1. Flipped(end) \in Ends /\ Flipped(end).dir = "Bidirectional" /\ Flipped(Flipped(end)) = end
  BY DEF Flipped, Ends
<1>2. PICK i \in Before : Has(i, Flipped(end))
  BY DEF Earlier
<1>3. Has(i, Flipped(Flipped(end)))
  BY <1>1, <1>2, BeforeTyped, HasFlipped DEF Has, Loaded
<1> QED
  BY <1>1, <1>3 DEF Earlier

\* What is merged together with e.
Met(e) == {e} \cup (IF e \in DOMAIN inPairs THEN {inPairs[e]} ELSE {})

\* The pair of an edge that is merged is between the same nodes, the other way, or
\* none of the edges that count.
LEMMA MetSides ==
    ASSUME IInv, NEW e, AtEdge(e)
    PROVE  /\ EndOf(e) \in Ends
           /\ \A x \in Met(e) :
                /\ x \in DOMAIN in /\ x \notin DOMAIN edges /\ x \notin seenEdges
                /\ x # e => /\ in[x].from = in[e].to /\ in[x].to = in[e].from
                            /\ in[x].type = in[e].type
                            /\ in[x].dir = IF in[e].dir = "Bidirectional"
                                           THEN "Bidirectional" ELSE "Reverse"
           /\ in[e].dir \in {"Bidirectional", "Directional"}
           /\ in[e].dir = "Bidirectional" => Met(e) \subseteq DOMAIN inPairs
           /\ seenEdges' = seenEdges \cup Met(e)
<1>1. /\ Scanning /\ e \in DOMAIN in /\ in[e] \in Edge /\ e \notin DOMAIN edges
      /\ e \in DOMAIN inPairs =>
           /\ inPairs[e] \in DOMAIN in /\ inPairs[e] \notin DOMAIN edges
           /\ inPairs[e] \notin seenEdges /\ inPairs[e] \in DOMAIN inPairs
           /\ Reversed(in, e, inPairs[e])
  BY AtEdgeFacts
<1>2. in[e].dir \in {"Bidirectional", "Directional"}
  BY <1>1 DEF AtEdge, Edge, Direction
<1>3. EndOf(e) \in Ends
  BY <1>1, <1>2 DEF EndOf, Ends, Edge, Direction
<1>4. e \in DOMAIN inPairs =>
        in[inPairs[e]].dir = IF in[e].dir = "Bidirectional" THEN "Bidirectional" ELSE "Reverse"
  <2>1. SUFFICES ASSUME e \in DOMAIN inPairs
                 PROVE  in[inPairs[e]].dir = IF in[e].dir = "Bidirectional"
                                             THEN "Bidirectional" ELSE "Reverse"
    OBVIOUS
  <2>2. SameShape(LoadedEdges(k, file), in) /\ k \in Nat /\ IsFile(file)
    BY <1>1, Incoming DEF IInv, Merging
  <2>3. /\ LoadedEdges(k, file)[e].dir = in[e].dir
        /\ LoadedEdges(k, file)[inPairs[e]].dir = in[inPairs[e]].dir
    BY <1>1, <2>1, <2>2 DEF SameShape
  <2> QED
    BY <1>2, <2>1, <2>2, <2>3, LoadedHalves DEF inPairs
<1>5. in[e].dir = "Bidirectional" => e \in DOMAIN inPairs
  BY <1>1, Incoming DEF GoodGraph
<1> QED
  BY <1>1, <1>2, <1>3, <1>4, <1>5 DEF Met, AtEdge, Reversed

LEMMA CreateEffect ==
    ASSUME IInv, NEW e, AtEdge(e), CreateEdge(e)
    PROVE  /\ in' = in
           /\ DOMAIN pairs' = DOMAIN pairs \cup (Met(e) \cap DOMAIN inPairs)
           /\ KeptShape(edges, edges')
           /\ \A end \in Ends : Between(edges', end) =
                  Between(edges, end) \cup (Met(e) \cap Between(in, end))
<1>1. /\ in' = in
      /\ edges' = [x \in DOMAIN edges \cup Met(e) |-> IF x \in Met(e) THEN in[x] ELSE edges[x]]
      /\ DOMAIN pairs' = DOMAIN pairs \cup (Met(e) \cap DOMAIN inPairs)
  BY AtEdgeFacts DEF CreateEdge, Met
<1>2. \A x \in Met(e) : x \in DOMAIN in /\ x \notin DOMAIN edges
  BY MetSides
<1>3. /\ DOMAIN edges' = DOMAIN edges \cup Met(e)
      /\ \A x \in Met(e) : edges'[x] = in[x]
      /\ \A x \in DOMAIN edges : edges'[x] = edges[x]
  BY <1>1, <1>2
<1>4. ASSUME NEW end \in Ends
      PROVE  Between(edges', end) = Between(edges, end) \cup (Met(e) \cap Between(in, end))
  BY <1>2, <1>3 DEF Between
<1> QED
  BY <1>1, <1>3, <1>4 DEF KeptShape

\* Between which nodes an edge is does not change when its like is met.
LEMMA JoinEffect ==
    ASSUME IInv, NEW e, AtEdge(e), NEW o \in Alike(e), JoinEdge(e, o)
    PROVE  /\ SameShape(in, in') /\ KeptShape(edges, edges')
           /\ DOMAIN pairs \subseteq DOMAIN pairs'
           /\ in[e].dir = "Directional" /\ e \in DOMAIN inPairs => o \in DOMAIN pairs'
           /\ \A end \in Ends : Between(edges', end) = Between(edges, end)
<1>1. SameShape(in, in')
  BY MergeEdgeMerged DEF MergeEdge, AtEdge, EdgeMerged
<1>2. o \in DOMAIN edges /\ edges[o] \in Edge /\ edges[o].dir = in[e].dir
  BY DEF Alike, IInv, TypeOK
<1>3. \A x \in DOMAIN edges : edges[x] \in Edge
  BY DEF IInv, TypeOK
<1>4. CASE in[e].dir = "Bidirectional"
  <2>1. JoinBidirectional(e, o)
    BY <1>4 DEF JoinEdge
  <2>2. SameShape(edges, edges') /\ pairs' = pairs
    BY <1>3, <2>1 DEF JoinBidirectional, SameShape, Edge
  <2> QED
    BY <1>1, <1>4, <2>2, SameBetween DEF SameShape, KeptShape
<1>5. CASE in[e].dir = "Directional" /\ e \in DOMAIN inPairs
  <2> DEFINE both == UnitedAttributes(UnitedAttributes(edges[o].attr, in[e].attr),
                                      in[inPairs[e]].attr)
             g == IF o \in DOMAIN pairs THEN edges ELSE WithReverse(o)
  <2>1. JoinPaired(e, o)
    BY <1>5 DEF JoinEdge
  <2>2. edges' = [g EXCEPT ![o].attr = both]
    BY <2>1 DEF JoinPaired
  <2>3. DOMAIN pairs \subseteq DOMAIN pairs' /\ o \in DOMAIN pairs'
    BY <2>1 DEF JoinPaired
  <2>4. /\ o \in DOMAIN g /\ g[o] = edges[o]
        /\ \A end \in Ends : Between(g, end) = Between(edges, end)
        /\ KeptShape(edges, g)
    <3>1. CASE o \in DOMAIN pairs
      BY <1>2, <3>1 DEF KeptShape
    <3>2. CASE o \notin DOMAIN pairs
      <4> DEFINE a == Added(o)
      <4>1. o[3] = "edge" /\ o = <<o[1], o[2], "edge">>
        BY <1>2, <1>5 DEF IInv, GoodGraph, EdgeId, TypeOK
      <4>2. a = <<o[1], o[2], "added">> /\ a[1] = o[1] /\ a[2] = o[2] /\ a[3] = "added"
        BY DEF Added
      <4>3. a \notin DOMAIN edges
        BY <3>2, <4>1, <4>2 DEF IInv, Used
      <4>4. /\ DOMAIN g = DOMAIN edges \cup {a} /\ g[a].dir = "Reverse"
            /\ \A x \in DOMAIN edges : g[x] = edges[x]
        BY <3>2, <4>3 DEF WithReverse
      <4> HIDE DEF a, g
      <4>5. \A end \in Ends : Between(g, end) = Between(edges, end)
        BY <4>3, <4>4 DEF Between, Ends
      <4> QED
        BY <1>2, <4>4, <4>5 DEF KeptShape
    <3> QED
      BY <3>1, <3>2
  <2>5. DOMAIN edges' = DOMAIN g /\ \A x \in DOMAIN g : x # o => edges'[x] = g[x]
    BY <2>2, <2>4 DEF WithReverse
  <2>6. edges'[o] = [edges[o] EXCEPT !.attr = both]
    BY <2>2, <2>4 DEF WithReverse
  <2> HIDE DEF g, both
  <2>7. SameShape(g, edges')
    BY <1>2, <2>4, <2>5, <2>6 DEF SameShape, Edge
  <2>8. \A end \in Ends : Between(edges', end) = Between(edges, end)
    BY <2>4, <2>7, SameBetween
  <2>9. KeptShape(edges, edges')
    BY <2>4, <2>7 DEF KeptShape, SameShape
  <2> QED
    BY <1>1, <2>3, <2>8, <2>9
<1>6. CASE in[e].dir # "Bidirectional" /\ ~ (in[e].dir = "Directional" /\ e \in DOMAIN inPairs)
  <2>1. JoinDirected(e, o)
    BY <1>6 DEF JoinEdge
  <2> QED
    BY <1>1, <1>6, <2>1 DEF JoinDirected, KeptShape
<1> QED
  BY <1>4, <1>5, <1>6

\* Of the step of the edge iterator all that the lists of edges depend on.
EdgeStep(e) ==
    /\ Scanning /\ pc = "edges" /\ pc' = "edges" /\ e \in out /\ e \in DOMAIN in
    /\ UNCHANGED <<files, k, todo, targets>>
    /\ out' = out \ {e}
    /\ SameShape(in, in') /\ KeptShape(edges, edges')
    /\ DOMAIN pairs \subseteq DOMAIN pairs'

Passed(e) == /\ in[e].dir = "Reverse" \/ e \in seenEdges
             /\ UNCHANGED <<edges, pairs, in, seenEdges>>

Created(e) == /\ AtEdge(e) /\ Alike(e) = {}
              /\ DOMAIN pairs' = DOMAIN pairs \cup (Met(e) \cap DOMAIN inPairs)
              /\ \A end \in Ends : Between(edges', end) =
                     Between(edges, end) \cup (Met(e) \cap Between(in, end))

Joined(e) == /\ AtEdge(e)
             /\ \E o \in Alike(e) :
                    in[e].dir = "Directional" /\ e \in DOMAIN inPairs => o \in DOMAIN pairs'
             /\ \A end \in Ends : Between(edges', end) = Between(edges, end)

LEMMA EdgeSteps ==
    ASSUME IInv, VisitEdge
    PROVE  \E e \in out : EdgeStep(e) /\ (Passed(e) \/ Created(e) \/ Joined(e))
<1>1. PICK e \in out : /\ out' = out \ {e} /\ nodes' = NodesWith(in[e].to)
                       /\ IF in[e].dir = "Reverse" \/ e \in seenEdges
                          THEN UNCHANGED <<pc, edges, pairs, in, seenEdges>>
                          ELSE MergeEdge(e)
  BY DEF VisitEdge
<1>2. /\ pc = "edges" /\ Scanning /\ UNCHANGED <<files, k, todo, targets>> /\ e \in DOMAIN in
  BY <1>1 DEF VisitEdge, Scanning, IInv, TypeOK
<1>3. CASE in[e].dir = "Reverse" \/ e \in seenEdges
  <2>1. SameShape(in, in') /\ KeptShape(edges, edges')
    BY <1>1, <1>3, SameShapeRefl DEF KeptShape
  <2>2. EdgeStep(e) /\ Passed(e)
    BY <1>1, <1>2, <1>3, <2>1 DEF EdgeStep, Passed
  <2> QED
    BY <2>2
<1>4. CASE ~ (in[e].dir = "Reverse" \/ e \in seenEdges)
  <2>1. AtEdge(e) /\ MergeEdge(e)
    BY <1>1, <1>2, <1>4 DEF AtEdge, MergeEdge
  <2>2. pc' = "edges" /\ SameShape(in, in')
    BY <1>2, <2>1, MergeEdgeMerged DEF EdgeMerged
  <2>3. CASE Alike(e) = {} /\ CreateEdge(e)
    <3>1. EdgeStep(e) /\ Created(e)
      BY <1>1, <1>2, <2>1, <2>2, <2>3, CreateEffect DEF EdgeStep, Created
    <3> QED
      BY <3>1
  <2>4. CASE \E o \in Alike(e) : JoinEdge(e, o)
    <3> PICK o \in Alike(e) : JoinEdge(e, o)
      BY <2>4
    <3>1. EdgeStep(e) /\ Joined(e)
      BY <1>1, <1>2, <2>1, <2>2, JoinEffect DEF EdgeStep, Joined
    <3> QED
      BY <3>1
  <2> QED
    BY <2>1, <2>3, <2>4 DEF MergeEdge
<1> QED
  BY <1>3, <1>4

LEMMA EarlierStays ==
    ASSUME UNCHANGED <<files, k>>, Scanning' = Scanning
    PROVE  /\ Before' = Before
           /\ \A i, end : Has(i, end)' <=> Has(i, end)
           /\ \A end : Earlier(end)' <=> Earlier(end)
           /\ \A i : Loaded(i)' = Loaded(i)
BY DEF Before, Earlier, Has, Loaded

LEMMA IncomingBetween ==
    ASSUME IInv, NEW e \in DOMAIN in, in[e].dir # "Reverse", Scanning
    PROVE  /\ EndOf(e) \in Ends
           /\ \A end \in Ends : e \in Between(in, end) <=> end = EndOf(e)
<1>1. in[e] \in Edge
  BY DEF IInv, TypeOK
<1> QED
  BY <1>1 DEF EndOf, Ends, Edge, Direction, Between

\* If an edge finds its like no other edge of an earlier file's end is new; if not
\* neither the edge nor its pair has a like.
LEMMA MetNew ==
    ASSUME IInv, FirstKept, LikeFound, NEW e, AtEdge(e)
    PROVE  /\ Alike(e) = {} <=> ~ Earlier(EndOf(e))
           /\ \A end \in Ends : Met(e) \cap Between(in, end) # {} => (Earlier(end) <=> Earlier(EndOf(e)))
<1>1. /\ EndOf(e) \in Ends
      /\ \A x \in Met(e) : /\ x \in DOMAIN in
                           /\ x # e => /\ in[x].from = in[e].to /\ in[x].to = in[e].from
                                       /\ in[x].type = in[e].type
                                       /\ in[x].dir = IF in[e].dir = "Bidirectional"
                                                      THEN "Bidirectional" ELSE "Reverse"
  BY MetSides
<1>2. Alike(e) = IF Earlier(EndOf(e)) THEN Between(edges, EndOf(e)) ELSE {}
  BY DEF LikeFound, AtEdge
<1>3. Earlier(EndOf(e)) => Between(edges, EndOf(e)) # {}
  BY <1>1 DEF FirstKept, Has
<1>4. ASSUME NEW end \in Ends, NEW x \in Met(e), x \in Between(in, end)
      PROVE  Earlier(end) <=> Earlier(EndOf(e))
  <2>1. /\ in[x].from = end.from /\ in[x].to = end.to /\ in[x].type = end.type
        /\ in[x].dir = end.dir /\ end.dir # "Reverse"
    BY <1>4 DEF Between, Ends
  <2>2. CASE x = e
    <3>1. end = EndOf(e)
      BY <2>1, <2>2 DEF EndOf, Ends
    <3> QED
      BY <3>1
  <2>3. CASE x # e
    <3>1. in[e].dir = "Bidirectional" /\ end.dir = "Bidirectional"
      BY <1>1, <2>1, <2>3
    <3>2. end = Flipped(EndOf(e)) /\ EndOf(e) = Flipped(end) /\ EndOf(e).dir = "Bidirectional"
      BY <1>1, <2>1, <2>3, <3>1 DEF EndOf, Flipped, Ends
    <3> QED
      BY <1>1, <3>1, <3>2, EarlierFlipped
  <2> QED
    BY <2>2, <2>3
<1> QED
  BY <1>2, <1>3, <1>4

LEMMA VisitEdgeOrder ==
    ASSUME IInv, EdgeInv, NEW e, EdgeStep(e), Passed(e) \/ Created(e) \/ Joined(e)
    PROVE  VisitOrder'
<1> USE DEF EdgeStep
<1>1. /\ DOMAIN in' = DOMAIN in
      /\ \A x \in DOMAIN in : /\ in'[x].from = in[x].from /\ in'[x].to = in[x].to
                              /\ in'[x].dir = in[x].dir
  BY DEF SameShape
<1>2. /\ \A x \in out : in[x].from \notin todo
      /\ \A x \in DOMAIN in : in[x].dir # "Reverse" => x \in seenEdges \/ Waiting(x)
      /\ \A x \in seenEdges :
           /\ in[x].dir = "Directional" => in[x].from \notin todo
           /\ in[x].dir = "Bidirectional" => ~ {in[x].from, in[x].to} \subseteq todo
  BY DEF EdgeInv, VisitOrder
<1>3. out \subseteq DOMAIN in /\ seenEdges \subseteq DOMAIN in
  BY DEF IInv, TypeOK
<1>4. CASE Passed(e)
  <2>1. seenEdges' = seenEdges /\ (in[e].dir = "Reverse" \/ e \in seenEdges)
    BY <1>4 DEF Passed
  <2> QED
    BY <1>1, <1>2, <1>3, <2>1 DEF VisitOrder, Waiting
<1>5. CASE Created(e) \/ Joined(e)
  <2>1. AtEdge(e)
    BY <1>5 DEF Created, Joined
  <2>2. /\ seenEdges' = seenEdges \cup Met(e) /\ e \in Met(e)
        /\ \A x \in Met(e) : /\ x \in DOMAIN in
                             /\ x # e => /\ in[x].from = in[e].to /\ in[x].to = in[e].from
                                         /\ in[x].dir = IF in[e].dir = "Bidirectional"
                                                        THEN "Bidirectional" ELSE "Reverse"
    BY <2>1, MetSides DEF Met
  <2>3. in[e].from \notin todo
    BY <1>2
  <2>4. \A x \in DOMAIN in : in[x].dir # "Reverse" =>
            x \in seenEdges' \/ in[x].from \in todo \/ x \in out'
    BY <1>2, <2>2 DEF Waiting
  <2>5. \A x \in Met(e) : /\ in[x].dir = "Directional" => in[x].from \notin todo
                          /\ in[x].dir = "Bidirectional" => ~ {in[x].from, in[x].to} \subseteq todo
    BY <2>2, <2>3
  <2> QED
    BY <1>1, <1>2, <1>3, <2>2, <2>4, <2>5 DEF VisitOrder, Waiting
<1> QED
  BY <1>4, <1>5

LEMMA EarlierKept ==
    ASSUME IInv, EdgeInv, NEW e, EdgeStep(e), Passed(e) \/ Created(e) \/ Joined(e),
           NEW end \in Ends, Earlier(end)
    PROVE  Between(edges', end) = Between(edges, end)
<1>1. CASE Created(e)
  <2>1. AtEdge(e) /\ ~ Earlier(EndOf(e))
    BY <1>1, MetNew DEF Created, EdgeInv
  <2>2. Met(e) \cap Between(in, end) = {}
    BY <2>1, MetNew DEF EdgeInv
  <2> QED
    BY <1>1, <2>2 DEF Created
<1> QED
  BY <1>1 DEF Passed, Joined

LEMMA VisitEdgeKept ==
    ASSUME IInv, EdgeInv, NEW e, EdgeStep(e), Passed(e) \/ Created(e) \/ Joined(e)
    PROVE  FirstKept' /\ NewComing'
<1> USE DEF EdgeStep
<1>1. Scanning' = Scanning /\ Scanning /\ k' = k /\ files' = files
  BY DEF Scanning
<1>2. /\ Before' = Before
      /\ \A i, end : Has(i, end)' <=> Has(i, end)
      /\ \A end : Earlier(end)' <=> Earlier(end)
      /\ \A i : Loaded(i)' = Loaded(i)
  BY <1>1, EarlierStays
<1>3. \A end : Between(in', end) = Between(in, end)
  BY SameBetween
<1>4. \A x \in DOMAIN in : in'[x].from = in[x].from
  BY DEF SameShape
<1>5. \A end \in Ends : Earlier(end) => Between(edges', end) = Between(edges, end)
  BY EarlierKept
<1>6. FirstKept'
  BY <1>2, <1>5 DEF EdgeInv, FirstKept
<1>7. ASSUME NEW end \in Ends, ~ Earlier(end)
      PROVE  /\ Between(edges', end) \subseteq Between(in, end)
             /\ \A x \in Between(in, end) :
                    x \in Between(edges', end)
                      \/ ((in[x].from \in todo \/ x \in out \ {e}) /\ x \notin seenEdges')
  <2>1. /\ Between(edges, end) \subseteq Between(in, end)
        /\ \A x \in Between(in, end) : x \in Between(edges, end) \/ Waiting(x)
    BY <1>1, <1>7 DEF EdgeInv, NewComing
  <2>2. CASE Passed(e)
    <3>1. e \notin Between(in, end) \/ ~ Waiting(e)
      BY <2>2 DEF Passed, Waiting, Between, Ends
    <3> QED
      BY <2>1, <2>2, <3>1 DEF Passed, Waiting
  <2>3. CASE Created(e)
    <3>1. seenEdges' = seenEdges \cup Met(e) /\ e \in Met(e)
      BY <2>3, MetSides DEF Created, Met
    <3> QED
      BY <2>1, <2>3, <3>1 DEF Created, Waiting
  <2>4. CASE Joined(e)
    <3>1. AtEdge(e) /\ Earlier(EndOf(e))
      BY <2>4, MetNew DEF Joined, EdgeInv
    <3>2. seenEdges' = seenEdges \cup Met(e) /\ e \in Met(e)
      BY <3>1, MetSides DEF Met
    <3>3. Met(e) \cap Between(in, end) = {}
      BY <1>7, <3>1, MetNew DEF EdgeInv
    <3> QED
      BY <2>1, <2>4, <3>2, <3>3 DEF Joined, Waiting
  <2> QED
    BY <2>2, <2>3, <2>4
<1>8. NewComing'
  <2> SUFFICES ASSUME NEW end \in Ends, ~ Earlier(end)'
               PROVE  /\ Between(edges', end) \subseteq Between(in', end)
                      /\ \A x \in Between(in', end) : x \in Between(edges', end) \/ Waiting(x)'
    BY <1>1 DEF NewComing
  <2>1. \A x \in Between(in, end) : x \in DOMAIN in
    BY DEF Between
  <2> QED
    BY <1>2, <1>3, <1>4, <1>7, <2>1 DEF Waiting
<1> QED
  BY <1>6, <1>8

LEMMA VisitEdgeLike ==
    ASSUME IInv, EdgeInv, NEW e, EdgeStep(e), Passed(e) \/ Created(e) \/ Joined(e)
    PROVE  LikeFound'
<1> USE DEF EdgeStep
<1>1. Scanning' = Scanning /\ Scanning /\ k' = k /\ files' = files
  BY DEF Scanning
<1>2. \A end : Earlier(end)' <=> Earlier(end)
  BY <1>1, EarlierStays
<1>3. DOMAIN in' = DOMAIN in /\ \A x \in DOMAIN in : EndOf(x)' = EndOf(x) /\ in'[x].dir = in[x].dir
  BY DEF SameShape, EndOf
<1>4. out \subseteq DOMAIN in /\ targets \subseteq DOMAIN edges
  BY DEF IInv, TypeOK
<1>5. seenEdges \subseteq seenEdges'
  BY MetSides DEF Passed, Created, Joined
<1>6. \A end \in Ends : Earlier(end) => Between(edges', end) = Between(edges, end)
  BY EarlierKept
<1>7. ASSUME NEW x \in out', (in[x].dir # "Reverse")', x \notin seenEdges'
      PROVE  Alike(x)' = IF Earlier(EndOf(x))' THEN Between(edges', EndOf(x)') ELSE {}
  <2>1. x \in out /\ x \in DOMAIN in /\ in[x].dir # "Reverse" /\ x \notin seenEdges
    BY <1>3, <1>4, <1>5, <1>7
  <2>2. EndOf(x) \in Ends /\ EndOf(x)' = EndOf(x)
    BY <1>1, <1>3, <2>1, IncomingBetween
  <2>3. Alike(x)' = Alike(x)
    <3>1. \A o \in targets : /\ edges'[o].to = edges[o].to /\ edges'[o].type = edges[o].type
                             /\ edges'[o].dir = edges[o].dir
      BY <1>4 DEF KeptShape
    <3>2. in'[x].to = in[x].to /\ in'[x].type = in[x].type /\ in'[x].dir = in[x].dir
      BY <2>1 DEF SameShape
    <3> QED
      BY <3>1, <3>2 DEF Alike
  <2>4. Alike(x) = IF Earlier(EndOf(x)) THEN Between(edges, EndOf(x)) ELSE {}
    BY <2>1 DEF EdgeInv, LikeFound
  <2>5. Earlier(EndOf(x))' <=> Earlier(EndOf(x))
    BY <1>1, <2>2 DEF Earlier, Before, Has, Loaded
  <2> QED
    BY <1>6, <2>2, <2>3, <2>4, <2>5
<1> QED
  BY <1>7 DEF LikeFound

LEMMA VisitEdgeBack ==
    ASSUME IInv, EdgeInv, NEW e, EdgeStep(e), Passed(e) \/ Created(e) \/ Joined(e)
    PROVE  WaysBack'
<1> USE DEF EdgeStep
<1>1. Scanning' = Scanning /\ Scanning /\ k' = k /\ files' = files
  BY DEF Scanning
<1>2. Before' = Before /\ \A i : Loaded(i)' = Loaded(i)
  BY <1>1, EarlierStays
<1>3. /\ \A end : Between(in', end) = Between(in, end)
      /\ \A x \in DOMAIN in : in'[x].from = in[x].from
      /\ inPairs' = inPairs
  BY <1>1, SameBetween DEF SameShape, inPairs, file
<1>4. \A end \in Ends : Between(edges, end) \subseteq Between(edges', end)
  BY DEF Passed, Created, Joined
<1>5. \A end \in Ends : Walkable(end) => Walkable(end)'
  BY <1>4 DEF Walkable
<1>6. ASSUME NEW end \in Ends, end.dir = "Directional", NEW x \in Between(in, end) \cap DOMAIN inPairs
      PROVE  \/ (in[x].from \in todo \/ x \in out \ {e}) /\ x \notin seenEdges'
             \/ Walkable(end)'
  <2>1. Waiting(x) \/ Walkable(end)'
    BY <1>1, <1>5, <1>6 DEF EdgeInv, WaysBack
  <2>2. CASE Passed(e)
    <3>1. x # e \/ ~ Waiting(x)
      BY <1>6, <2>2 DEF Passed, Waiting, Between
    <3> QED
      BY <2>1, <2>2, <3>1 DEF Passed, Waiting
  <2>3. CASE (Created(e) \/ Joined(e)) /\ x \notin Met(e)
    <3>1. seenEdges' = seenEdges \cup Met(e) /\ e \in Met(e)
      BY <2>3, MetSides DEF Created, Joined, Met
    <3> QED
      BY <2>1, <2>3, <3>1 DEF Waiting
  <2>4. CASE Created(e) /\ x \in Met(e)
    <3>1. x \in Between(edges', end) \cap DOMAIN pairs'
      BY <1>6, <2>4 DEF Created
    <3> QED
      BY <3>1 DEF Walkable
  <2>5. CASE Joined(e) /\ x \in Met(e)
    <3>1. in[x].dir = "Directional"
      BY <1>6 DEF Between
    <3>2. x = e
      BY <2>5, <3>1, MetSides DEF Joined
    <3>3. end = EndOf(e) /\ AtEdge(e)
      BY <1>1, <1>6, <2>5, <3>1, <3>2, IncomingBetween DEF Joined
    <3>4. PICK o \in Alike(e) : o \in DOMAIN pairs'
      BY <1>6, <2>5, <3>1, <3>2 DEF Joined
    <3>5. o \in Between(edges, end)
      BY <3>3 DEF EdgeInv, LikeFound, AtEdge
    <3> QED
      BY <1>4, <3>4, <3>5 DEF Walkable
  <2> QED
    BY <2>2, <2>3, <2>4, <2>5
<1>7. ASSUME NEW end \in Ends, end.dir = "Directional", NEW i \in Before,
             Between(Loaded(i), end) \cap DOMAIN LoadedPairs(i, files[i]) # {}
      PROVE  Walkable(end)'
  BY <1>5, <1>7 DEF EdgeInv, WaysBack
<1>8. ASSUME NEW end \in Ends, end.dir = "Directional", NEW x \in Between(in', end) \cap DOMAIN inPairs'
      PROVE  Waiting(x)' \/ Walkable(end)'
  <2>1. x \in Between(in, end) \cap DOMAIN inPairs /\ x \in DOMAIN in
    BY <1>3, <1>8 DEF Between
  <2> QED
    BY <1>3, <1>6, <1>8, <2>1 DEF Waiting
<1> QED
  BY <1>1, <1>2, <1>7, <1>8 DEF WaysBack

LEMMA VisitEdgeEdges ==
    ASSUME IInv, EdgeInv, VisitEdge
    PROVE  EdgeInv'
BY EdgeSteps, VisitEdgeOrder, VisitEdgeKept, VisitEdgeLike, VisitEdgeBack DEF EdgeInv

\* When the turn of a node comes nothing of this file starts there yet, but for the
\* bidirectional edges that came with those of the other end, which are visited.
LEMMA NothingYet ==
    ASSUME IInv, EdgeInv, pc = "nodes", NEW n \in todo, NEW e \in DOMAIN in, in[e].from = n,
           in[e].dir # "Reverse", e \notin seenEdges, ~ Earlier(EndOf(e))
    PROVE  Between(edges, EndOf(e)) = {}
<1> SUFFICES ASSUME NEW o \in Between(edges, EndOf(e)) PROVE FALSE
  OBVIOUS
<1>1. Scanning /\ out = {}
  BY DEF Scanning, EdgeInv, VisitOrder
<1>2. EndOf(e) \in Ends /\ in[e] \in Edge
  BY <1>1, IncomingBetween DEF IInv, TypeOK
<1>3. o \in Between(in, EndOf(e)) /\ o \in DOMAIN edges
  BY <1>1, <1>2 DEF EdgeInv, NewComing, Between
<1>4. /\ o \in DOMAIN in /\ in[o].from = n /\ in[o].to = in[e].to /\ in[o].dir = in[e].dir
  BY <1>3 DEF Between, EndOf
<1>5. o \in seenEdges
  BY <1>1, <1>3, <1>4, Incoming DEF IInv, Used
<1>6. in[o].dir = "Bidirectional" /\ in[o].to \notin todo
  BY <1>1, <1>2, <1>4, <1>5 DEF EdgeInv, VisitOrder, Edge, Direction
<1>7. /\ e \in DOMAIN inPairs /\ inPairs[e] \in DOMAIN in /\ inPairs[e] \in DOMAIN inPairs
      /\ inPairs[inPairs[e]] = e /\ in[inPairs[e]].from = in[e].to
  BY <1>1, <1>4, <1>6, Incoming DEF GoodGraph, Reversed
<1>8. in[inPairs[e]].dir = "Bidirectional"
  <2>1. SameShape(LoadedEdges(k, file), in) /\ k \in Nat /\ IsFile(file)
    BY <1>1, Incoming DEF IInv, Merging
  <2>2. /\ LoadedEdges(k, file)[e].dir = in[e].dir
        /\ LoadedEdges(k, file)[inPairs[e]].dir = in[inPairs[e]].dir
    BY <1>7, <2>1 DEF SameShape
  <2> QED
    BY <1>4, <1>6, <1>7, <2>1, <2>2, LoadedHalves DEF inPairs
<1>9. inPairs[e] \in seenEdges
  BY <1>1, <1>4, <1>6, <1>7, <1>8 DEF EdgeInv, VisitOrder, Waiting
<1> QED
  BY <1>1, <1>7, <1>9 DEF IInv, Merging, SeenClosed

LEMMA VisitNodeEdges ==
    ASSUME IInv, EdgeInv, VisitNode
    PROVE  EdgeInv'
<1>1. PICK n \in todo : /\ todo' = todo \ {n} /\ out' = OutEdges(in, n)
                        /\ targets' = OutEdges(edges, n)
  BY DEF VisitNode
<1>2. /\ pc = "nodes" /\ pc' = "edges" /\ Scanning /\ Scanning'
      /\ UNCHANGED <<files, k, edges, pairs, in, seenEdges>>
  BY DEF VisitNode, Scanning
<1>3. /\ Before' = Before
      /\ \A i, end : Has(i, end)' <=> Has(i, end)
      /\ \A end : Earlier(end)' <=> Earlier(end)
      /\ \A i : Loaded(i)' = Loaded(i)
  BY <1>2, EarlierStays
<1>4. out = {}
  BY <1>2 DEF EdgeInv, VisitOrder
<1>5. \A x \in DOMAIN in : Waiting(x) => Waiting(x)'
  BY <1>1, <1>2, <1>4 DEF Waiting, OutEdges
<1>6. FirstKept'
  BY <1>2, <1>3 DEF EdgeInv, FirstKept
<1>7. NewComing'
  <2>1. \A end : \A x \in Between(in, end) : x \in DOMAIN in
    BY DEF Between
  <2> QED
    BY <1>2, <1>3, <1>5, <2>1 DEF EdgeInv, NewComing
<1>8. WaysBack'
  <2>1. inPairs' = inPairs
    BY <1>2 DEF inPairs, file
  <2>2. \A end : Walkable(end)' <=> Walkable(end)
    BY <1>2 DEF Walkable
  <2>3. \A end : \A x \in Between(in, end) : x \in DOMAIN in
    BY DEF Between
  <2> QED
    BY <1>2, <1>3, <1>5, <2>1, <2>2, <2>3 DEF EdgeInv, WaysBack
<1>9. VisitOrder'
  <2>1. /\ \A x \in DOMAIN in : in[x].dir # "Reverse" => x \in seenEdges \/ Waiting(x)
        /\ \A x \in seenEdges :
             /\ in[x].dir = "Directional" => in[x].from \notin todo
             /\ in[x].dir = "Bidirectional" => ~ {in[x].from, in[x].to} \subseteq todo
    BY <1>2 DEF EdgeInv, VisitOrder
  <2>2. \A x \in out' : in[x].from \notin todo'
    BY <1>1 DEF OutEdges
  <2> QED
    BY <1>1, <1>2, <1>5, <2>1, <2>2 DEF VisitOrder
<1>10. LikeFound'
  <2> SUFFICES ASSUME NEW x \in out', in[x].dir # "Reverse", x \notin seenEdges
               PROVE  Alike(x)' = IF Earlier(EndOf(x))' THEN Between(edges', EndOf(x)') ELSE {}
    BY <1>2 DEF LikeFound
  <2>1. x \in DOMAIN in /\ in[x].from = n
    BY <1>1 DEF OutEdges
  <2>2. EndOf(x)' = EndOf(x)
    BY <1>2 DEF EndOf
  <2>3. Alike(x)' = Between(edges, EndOf(x))
    BY <1>1, <1>2, <2>1 DEF Alike, OutEdges, Between, EndOf
  <2>4. Earlier(EndOf(x))' <=> Earlier(EndOf(x))
    BY <1>2, <2>2 DEF Earlier, Before, Has, Loaded
  <2>5. ~ Earlier(EndOf(x)) => Between(edges, EndOf(x)) = {}
    BY <1>2, <2>1, NothingYet
  <2> QED
    BY <1>2, <2>2, <2>3, <2>4, <2>5
<1> QED
  BY <1>6, <1>7, <1>8, <1>9, <1>10 DEF EdgeInv

LEMMA LoadFirstEdges ==
    ASSUME IInv, LoadFirst
    PROVE  EdgeInv'
<1>1. /\ files' = files /\ k = 0 /\ k' = 1 /\ ~ Scanning /\ ~ Scanning' /\ pc' = "load"
      /\ edges' = LoadedEdges(1, files[1]) /\ pairs' = LoadedPairs(1, files[1])
  BY DEF LoadFirst, Scanning
<1>2. Before' = {1} /\ Loaded(1)' = edges'
  BY <1>1 DEF Before, Loaded
<1>3. FirstKept' /\ NewComing'
  BY <1>1, <1>2 DEF FirstKept, NewComing, Earlier, Has
<1>4. WaysBack'
  BY <1>1, <1>2 DEF WaysBack, Walkable
<1>5. VisitOrder' /\ LikeFound'
  BY <1>1 DEF VisitOrder, LikeFound
<1> QED
  BY <1>3, <1>4, <1>5 DEF EdgeInv

LEMMA BeginMergeEdges ==
    ASSUME IInv, EdgeInv, BeginMerge
    PROVE  EdgeInv'
<1>1. /\ ~ Scanning /\ Scanning' /\ k \in Nat /\ k' = k + 1 /\ pc' = "nodes"
      /\ todo' = DOMAIN files[k + 1].nodes /\ seenEdges' = {} /\ out' = {}
      /\ in' = LoadedEdges(k + 1, files[k + 1])
      /\ UNCHANGED <<files, edges, pairs>>
  BY BeforeTyped DEF BeginMerge, Scanning, graphVars
<1>2. Before' = Before
  BY <1>1 DEF Before
<1>3. /\ \A i : Loaded(i)' = Loaded(i)
      /\ \A i, end : Has(i, end)' <=> Has(i, end)
      /\ \A end : Earlier(end)' <=> Earlier(end)
  BY <1>1, <1>2 DEF Loaded, Has, Earlier
<1>4. \A x \in DOMAIN in' : in'[x].from \in todo' /\ Waiting(x)'
  <2>1. k + 1 \in Nat /\ k + 1 \in 1 .. Len(files)
    BY <1>1, InputsAssumption DEF BeginMerge, IInv, TypeOK
  <2>2. IsFile(files[k + 1])
    BY <2>1, FilesTyped DEF IInv
  <2>3. GoodGraph(DOMAIN files[k + 1].nodes, in', LoadedPairs(k + 1, files[k + 1]))
    BY <1>1, <2>1, <2>2, LoadedGood
  <2> QED
    BY <1>1, <2>3 DEF GoodGraph, Waiting
<1>5. FirstKept'
  BY <1>1, <1>2, <1>3 DEF EdgeInv, FirstKept
<1>6. NewComing'
  <2>1. \A end \in Ends : ~ Earlier(end) => Between(edges, end) = {}
    BY <1>1 DEF EdgeInv, NewComing
  <2>2. \A end : \A x \in Between(in', end) : x \in DOMAIN in'
    BY DEF Between
  <2> QED
    BY <1>1, <1>3, <1>4, <2>1, <2>2 DEF NewComing
<1>7. WaysBack'
  <2>1. \A end : Walkable(end)' <=> Walkable(end)
    BY <1>1 DEF Walkable
  <2>2. \A end : \A x \in Between(in', end) : x \in DOMAIN in'
    BY DEF Between
  <2> QED
    BY <1>1, <1>2, <1>3, <1>4, <2>1, <2>2 DEF EdgeInv, WaysBack
<1>8. VisitOrder' /\ LikeFound'
  BY <1>1, <1>4 DEF VisitOrder, LikeFound
<1> QED
  BY <1>5, <1>6, <1>7, <1>8 DEF EdgeInv

\* When the last node is visited no edge is waiting: the file is one of the files read.
LEMMA EndMergeEdges ==
    ASSUME IInv, EdgeInv, EndMerge
    PROVE  EdgeInv'
<1>1. /\ Scanning /\ ~ Scanning' /\ pc = "nodes" /\ pc' = "load" /\ todo = {} /\ out = {}
      /\ UNCHANGED <<files, k, edges, pairs>>
  BY DEF EndMerge, Scanning, graphVars, EdgeInv, VisitOrder
<1>2. k \in Nat \ {0}
  BY <1>1, Incoming
<1>3. Before = 1 .. (k - 1) /\ Before' = 1 .. k /\ Before' = Before \cup {k} /\ k \in Before'
  BY <1>1, <1>2 DEF Before
<1>4. /\ \A i : Loaded(i)' = Loaded(i)
      /\ \A i, end : Has(i, end)' <=> Has(i, end)
  BY <1>1 DEF Loaded, Has
<1>5. \A end \in Ends : Between(Loaded(k), end) = Between(in, end)
  BY <1>1, SameBetween DEF IInv, Merging, Loaded, file
<1>6. \A x : ~ Waiting(x)
  BY <1>1 DEF Waiting
<1>7. ASSUME NEW end \in Ends, ~ Earlier(end)
      PROVE  Between(edges, end) = Between(Loaded(k), end)
  BY <1>1, <1>5, <1>6, <1>7 DEF EdgeInv, NewComing
<1>8. FirstKept'
  <2> SUFFICES ASSUME NEW end \in Ends, Earlier(end)'
               PROVE  \E i \in Before' : /\ Has(i, end)
                                         /\ \A j \in Before' : Has(j, end) => i <= j
                                         /\ Between(edges, end) = Between(Loaded(i), end)
    BY <1>1, <1>4 DEF FirstKept
  <2>1. CASE Earlier(end)
    <3>1. PICK i \in Before : /\ Has(i, end)
                              /\ \A j \in Before : Has(j, end) => i <= j
                              /\ Between(edges, end) = Between(Loaded(i), end)
      BY <2>1 DEF EdgeInv, FirstKept
    <3>2. i <= k
      BY <1>2, <1>3
    <3> QED
      BY <1>3, <3>1, <3>2
  <2>2. CASE ~ Earlier(end)
    <3>1. Has(k, end) /\ \A j \in Before' : Has(j, end) => j = k
      BY <1>3, <1>4, <2>2 DEF Earlier
    <3> QED
      BY <1>2, <1>3, <1>7, <2>2, <3>1
  <2> QED
    BY <2>1, <2>2
<1>9. NewComing'
  <2>1. \A end \in Ends : ~ Earlier(end)' => ~ Earlier(end) /\ ~ Has(k, end)
    BY <1>3, <1>4 DEF Earlier
  <2> QED
    BY <1>1, <1>7, <2>1 DEF NewComing, Has
<1>10. WaysBack'
  <2>1. \A end : Walkable(end)' <=> Walkable(end)
    BY <1>1 DEF Walkable
  <2>2. inPairs = LoadedPairs(k, files[k])
    BY DEF inPairs, file
  <2>3. ASSUME NEW end \in Ends, end.dir = "Directional", NEW i \in Before',
               Between(Loaded(i), end) \cap DOMAIN LoadedPairs(i, files[i]) # {}
        PROVE  Walkable(end)
    <3>1. CASE i \in Before
      BY <2>3, <3>1 DEF EdgeInv, WaysBack
    <3>2. CASE i = k
      BY <1>1, <1>5, <1>6, <2>2, <2>3, <3>2 DEF EdgeInv, WaysBack
    <3> QED
      BY <1>3, <3>1, <3>2
  <2> QED
    BY <1>1, <1>4, <2>1, <2>3 DEF WaysBack
<1>11. VisitOrder' /\ LikeFound'
  BY <1>1 DEF VisitOrder, LikeFound
<1> QED
  BY <1>8, <1>9, <1>10, <1>11 DEF EdgeInv

\* The steps that leave the graphs and what is visited alone.
LEMMA PassEdges ==
    ASSUME EdgeInv, UNCHANGED <<files, k, graphVars, mergeVars>>, Scanning' = Scanning,
           pc' = pc \/ (pc' = "nodes" /\ out = {}) \/ pc' = "done"
    PROVE  EdgeInv'
<1> USE DEF graphVars, mergeVars
<1>1. /\ Before' = Before
      /\ \A i, end : Has(i, end)' <=> Has(i, end)
      /\ \A end : Earlier(end)' <=> Earlier(end)
      /\ \A i : Loaded(i)' = Loaded(i)
  BY EarlierStays
<1>2. \A x : Waiting(x)' <=> Waiting(x)
  BY DEF Waiting
<1>3. FirstKept' /\ NewComing'
  BY <1>1, <1>2 DEF EdgeInv, FirstKept, NewComing
<1>4. WaysBack'
  BY <1>1, <1>2 DEF EdgeInv, WaysBack, Walkable, inPairs, file
<1>5. VisitOrder'
  BY <1>2 DEF EdgeInv, VisitOrder
<1>6. LikeFound'
  <2>1. \A x : Alike(x)' = Alike(x) /\ EndOf(x)' = EndOf(x)
    BY DEF Alike, EndOf
  <2>2. \A x : Earlier(EndOf(x))' <=> Earlier(EndOf(x))
    BY <2>1 DEF Earlier, Before, Has, Loaded
  <2> QED
    BY <2>1, <2>2 DEF EdgeInv, LikeFound
<1> QED
  BY <1>3, <1>4, <1>5, <1>6 DEF EdgeInv

LEMMA EdgeInvStep == IInv /\ EdgeInv /\ [Next]_vars => EdgeInv'
<1> SUFFICES ASSUME IInv, EdgeInv, [Next]_vars PROVE EdgeInv'
  OBVIOUS
<1>1. CASE NodeDone
  BY <1>1, PassEdges DEF NodeDone, Scanning
<1>2. CASE Save
  BY <1>2, PassEdges DEF Save, Scanning
<1>3. CASE Ended \/ UNCHANGED vars
  <2>1. UNCHANGED <<files, pc, k, graphVars, mergeVars>>
    BY <1>3 DEF Ended, vars
  <2> QED
    BY <2>1, PassEdges DEF Scanning
<1> QED
  BY <1>1, <1>2, <1>3, LoadFirstEdges, BeginMergeEdges, VisitNodeEdges, VisitEdgeEdges,
     EndMergeEdges DEF Next

\* However the iterators come across the nodes and edges, the merge decides rightly
\* for each edge whether it is new (the search of convertEdgeMerge among the targets
\* that Graph::merge has copied): no edge is lost, none is doubled, and an edge that
\* can be walked backwards stays one.
THEOREM EdgesAreUnited == Spec => []EdgesUnited
<1>1. Init => EdgeInv
  <2> SUFFICES ASSUME Init PROVE EdgeInv
    OBVIOUS
  <2>1. Before = {} /\ ~ Scanning /\ pc = "load" /\ DOMAIN edges = {}
    BY DEF Init, Before, Scanning
  <2> QED
    BY <2>1 DEF EdgeInv, FirstKept, NewComing, WaysBack, VisitOrder, LikeFound, Earlier, Between
<1>2. IInv /\ EdgeInv => EdgesUnited
  <2> SUFFICES ASSUME IInv, EdgeInv, pc \in {"load", "done"}, NEW end \in Ends
               PROVE  LET has == {i \in 1 .. k : Has(i, end)}
                          first == CHOOSE i \in has : \A j \in has : i <= j
                      IN  /\ has = {} => Between(edges, end) = {}
                          /\ has # {} => Cardinality(Between(edges, end))
                                            = Cardinality(Between(Loaded(first), end))
                          /\ (\E i \in has : Between(Loaded(i), end)
                                                 \cap DOMAIN LoadedPairs(i, files[i]) # {})
                                => Walkable(end)
    BY DEF EdgesUnited, Has, Loaded, Walkable
  <2> DEFINE has == {i \in 1 .. k : Has(i, end)}
             first == CHOOSE i \in has : \A j \in has : i <= j
  <2>1. ~ Scanning /\ Before = 1 .. k /\ k \in Nat
    BY BeforeTyped DEF Scanning, Before
  <2>2. Earlier(end) <=> has # {}
    BY <2>1 DEF Earlier
  <2>3. has = {} => Between(edges, end) = {}
    BY <2>1, <2>2 DEF EdgeInv, NewComing
  <2>4. ASSUME has # {}
        PROVE  /\ Between(edges, end) = Between(Loaded(first), end)
               /\ Between(edges, end) # {}
    <3>1. PICK i \in has : /\ \A j \in has : i <= j
                           /\ Between(edges, end) = Between(Loaded(i), end)
      BY <2>1, <2>2, <2>4 DEF EdgeInv, FirstKept
    <3>2. first \in has /\ \A j \in has : first <= j
      BY <3>1
    <3>3. first = i
      BY <2>1, <3>1, <3>2
    <3> QED
      BY <3>1, <3>3 DEF Has
  <2>5. ASSUME NEW i \in has,
               Between(Loaded(i), end) \cap DOMAIN LoadedPairs(i, files[i]) # {}
        PROVE  Walkable(end)
    <3>1. CASE end.dir = "Directional"
      BY <2>1, <2>5, <3>1 DEF EdgeInv, WaysBack
    <3>2. CASE end.dir = "Bidirectional"
      <4>1. PICK o \in Between(edges, end) : TRUE
        BY <2>4, <2>5
      <4>2. o \in DOMAIN pairs
        BY <3>2, <4>1 DEF Between, IInv, GoodGraph
      <4> QED
        BY <4>1, <4>2 DEF Walkable
    <3> QED
      BY <3>1, <3>2 DEF Ends, Direction
  <2> QED
    BY <2>3, <2>4, <2>5
<1> QED
  BY <1>1, <1>2, EdgeInvStep, Invariant, PTL DEF Spec

=============================================================================
