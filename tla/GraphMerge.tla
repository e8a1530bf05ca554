----------------------------- MODULE GraphMerge -----------------------------
(***************************************************************************)
(* GraphMerge: the first file is read as it is, every other one is read    *)
(* into a graph of its own that is merged into the first, with the modes   *)
(* the tool uses: attributes united, numbers summed.                       *)
(*                                                                         *)
(* A merge goes through the nodes of the incoming graph and, at each node, *)
(* through its out-edges.  An edge looks for its like (same ends, type and *)
(* direction) among the out-edges the merged graph's node had when its     *)
(* turn came.  Nodes and edges come in any order.  Only edges of the same  *)
(* direction are alike, so the code's branches for a bidirectional edge    *)
(* that meets a directional one are never taken.                           *)
(***************************************************************************)
EXTENDS ResultGraph, FiniteSets

CONSTANT Inputs    \* the sequences of files the tool may be started with

ASSUME InputsAssumption ==
    \A s \in Inputs : /\ Len(s) \in Nat \ {0}
                      /\ \A i \in 1 .. Len(s) : IsFile(s[i])

VARIABLES
    files,      \* the files of this run of the tool
    pc,         \* "load", "nodes", "edges", "done", "threw"
    k,          \* how many files are read
    nodes,      \* the merged graph
    edges,
    pairs,
    in,         \* the edges of the incoming graph
    todo,       \* its nodes the iterator has not reached
    out,        \* the out-edges of the node it is at, not reached either
    targets,    \* oldNodeTargets: the merged graph's out-edges of that node
    seenNodes,  \* visitedNodes
    seenEdges   \* visitedEdges

graphVars == <<nodes, edges, pairs>>
mergeVars == <<in, todo, out, targets, seenNodes, seenEdges>>
vars == <<files, pc, k, graphVars, mergeVars>>

file == files[k]
inPairs == LoadedPairs(k, file)

Scanning == pc \in {"nodes", "edges"}

TypeOK ==
    /\ files \in Inputs
    /\ pc \in {"load", "nodes", "edges", "done", "threw"}
    /\ k \in 0 .. Len(files)
    /\ k = 0 => pc = "load"
    /\ DOMAIN nodes \subseteq Node /\ nodes \in [DOMAIN nodes -> Attributes]
    /\ DOMAIN edges \subseteq EdgeId /\ edges \in [DOMAIN edges -> Edge]
    /\ DOMAIN pairs \subseteq EdgeId /\ pairs \in [DOMAIN pairs -> EdgeId]
    /\ DOMAIN in \subseteq EdgeId /\ in \in [DOMAIN in -> Edge]
    /\ todo \subseteq Node /\ seenNodes \subseteq Node
    /\ out \subseteq DOMAIN in /\ seenEdges \subseteq DOMAIN in
    /\ targets \subseteq DOMAIN edges

Init ==
    /\ files \in Inputs
    /\ pc = "load" /\ k = 0
    /\ nodes = <<>> /\ edges = <<>> /\ pairs = <<>>
    /\ in = <<>> /\ todo = {} /\ out = {} /\ targets = {}
    /\ seenNodes = {} /\ seenEdges = {}

\* The first file becomes the graph.
LoadFirst ==
    /\ pc = "load" /\ k = 0
    /\ k' = 1
    /\ nodes' = files[1].nodes
    /\ edges' = LoadedEdges(1, files[1])
    /\ pairs' = LoadedPairs(1, files[1])
    /\ UNCHANGED <<files, pc, mergeVars>>

\* The next file is read and its merge begins.
BeginMerge ==
    /\ pc = "load" /\ k > 0 /\ k < Len(files)
    /\ k' = k + 1
    /\ pc' = "nodes"
    /\ in' = LoadedEdges(k + 1, files[k + 1])
    /\ todo' = DOMAIN files[k + 1].nodes
    /\ seenNodes' = {} /\ seenEdges' = {} /\ out' = {} /\ targets' = {}
    /\ UNCHANGED <<files, graphVars>>

\* A slip: a node is converted whenever it is met.
NodesWithAgain(n) ==
    IF n \in DOMAIN nodes
    THEN [nodes EXCEPT ![n] = UnitedAttributes(@, file.nodes[n])]
    ELSE [m \in DOMAIN nodes \cup {n} |-> IF m = n THEN file.nodes[n] ELSE nodes[m]]

\* convertNodeMerge, unless the node has been converted: a new node is copied,
\* one that is there gets the attributes.
NodesWith(n) ==
    IF n \in seenNodes THEN nodes
    ELSE IF n \in DOMAIN nodes
         THEN [nodes EXCEPT ![n] = UnitedAttributes(@, file.nodes[n])]
         ELSE [m \in DOMAIN nodes \cup {n} |-> IF m = n THEN file.nodes[n] ELSE nodes[m]]

OutEdges(g, n) == {e \in DOMAIN g : g[e].from = n}

\* A slip: the targets are those of the incoming node.
VisitNodeOwnTargets ==
    /\ pc = "nodes"
    /\ \E n \in todo :
         /\ todo' = todo \ {n}
         /\ nodes' = NodesWith(n)
         /\ seenNodes' = seenNodes \cup {n}
         /\ out' = OutEdges(in, n)
         /\ targets' = OutEdges(in, n)
    /\ pc' = "edges"
    /\ UNCHANGED <<files, k, edges, pairs, in, seenEdges>>

\* The node iterator's next node.
VisitNode ==
    /\ pc = "nodes"
    /\ \E n \in todo :
         /\ todo' = todo \ {n}
         /\ nodes' = NodesWith(n)
         /\ seenNodes' = seenNodes \cup {n}
         /\ out' = OutEdges(in, n)
         /\ targets' = OutEdges(edges, n)
    /\ pc' = "edges"
    /\ UNCHANGED <<files, k, edges, pairs, in, seenEdges>>

\* A slip: the edges the node has by now are searched, not those it had.
AlikeNow(e) == {o \in OutEdges(edges, in[e].from) : /\ edges[o].to = in[e].to
                                                   /\ edges[o].type = in[e].type
                                                   /\ edges[o].dir = in[e].dir}

\* The edges among which an incoming edge looks for its like.
Alike(e) == {o \in targets : /\ edges[o].to = in[e].to
                             /\ edges[o].type = in[e].type
                             /\ edges[o].dir = in[e].dir}

\* An edge without its like is created, with its pair if it has one.  If a node
\* is missing nothing is created, and asking that for its pair, or adding an
\* attribute to it, throws.
CreateEdge(e) ==
    LET new == {e} \cup (IF e \in DOMAIN inPairs THEN {inPairs[e]} ELSE {})
        complete == {in[e].from, in[e].to} \subseteq DOMAIN nodes'
    IN  IF complete
        THEN /\ edges' = [x \in DOMAIN edges \cup new |-> IF x \in new THEN in[x] ELSE edges[x]]
             /\ pairs' = [x \in DOMAIN pairs \cup (new \cap DOMAIN inPairs) |->
                            IF x \notin new THEN pairs[x]
                            ELSE IF x = e THEN inPairs[e] ELSE e]
             /\ UNCHANGED <<pc, in>>
        ELSE /\ pc' = IF e \in DOMAIN inPairs \/ in[e].attr # NoAttributes THEN "threw" ELSE pc
             /\ UNCHANGED <<edges, pairs, in>>

\* createReservePair: an edge that is there gets a reverse edge.
Added(o) == <<o[1], o[2], "added">>

WithReverse(o) ==
    [x \in DOMAIN edges \cup {Added(o)} |->
        IF x = Added(o) THEN [from |-> edges[o].to, to |-> edges[o].from,
                              type |-> edges[o].type, dir |-> "Reverse", attr |-> NoAttributes]
        ELSE edges[x]]

\* A directed edge that meets its like: the arguments of convertEdgeAttribute are
\* exchanged, so the incoming edge gets the attributes of the merged one.
JoinDirected(e, o) ==
    /\ in' = [in EXCEPT ![e].attr = UnitedAttributes(@, edges[o].attr)]
    /\ UNCHANGED <<edges, pairs>>

\* A bidirectional edge that meets its like: each half goes to its half.
JoinBidirectional(e, o) ==
    LET halves == [x \in {o, pairs[o]} |-> IF x = o THEN e ELSE inPairs[e]]
    IN  /\ edges' = [x \in DOMAIN edges |->
                       IF x \in DOMAIN halves
                       THEN [edges[x] EXCEPT !.attr = UnitedAttributes(@, in[halves[x]].attr)]
                       ELSE edges[x]]
        /\ UNCHANGED <<in, pairs>>

\* A slip: the new reverse edge is not told whose pair it is.
JoinPairedOneWay(e, o) ==
    LET both == UnitedAttributes(UnitedAttributes(edges[o].attr, in[e].attr), in[inPairs[e]].attr)
        reversed == IF o \in DOMAIN pairs THEN edges ELSE WithReverse(o)
    IN  /\ edges' = [reversed EXCEPT ![o].attr = both]
        /\ pairs' = IF o \in DOMAIN pairs THEN pairs
                    ELSE [x \in DOMAIN pairs \cup {o} |-> IF x = o THEN Added(o) ELSE pairs[x]]
        /\ UNCHANGED in

\* A directional edge with a reverse that meets its like: that one gets a reverse
\* if it has none; the attributes of both incoming edges go to the edge itself.
JoinPaired(e, o) ==
    LET both == UnitedAttributes(UnitedAttributes(edges[o].attr, in[e].attr), in[inPairs[e]].attr)
        reversed == IF o \in DOMAIN pairs THEN edges ELSE WithReverse(o)
    IN  /\ edges' = [reversed EXCEPT ![o].attr = both]
        /\ pairs' = IF o \in DOMAIN pairs THEN pairs
                    ELSE [x \in DOMAIN pairs \cup {o, Added(o)} |->
                            IF x = o THEN Added(o) ELSE IF x = Added(o) THEN o ELSE pairs[x]]
        /\ UNCHANGED in

JoinEdge(e, o) ==
    /\ CASE in[e].dir = "Bidirectional" -> JoinBidirectional(e, o)
         [] e \in DOMAIN inPairs /\ in[e].dir = "Directional" -> JoinPaired(e, o)
         [] OTHER -> JoinDirected(e, o)
    /\ UNCHANGED pc

\* convertEdgeMerge
MergeEdge(e) ==
    /\ seenEdges' = seenEdges \cup {e}
                      \cup (IF e \in DOMAIN inPairs THEN {inPairs[e]} ELSE {})
    /\ \/ Alike(e) = {} /\ CreateEdge(e)
       \/ \E o \in Alike(e) : JoinEdge(e, o)

\* The edge iterator's next edge.  The node at its end is converted first; a
\* Reverse edge and the pair of an edge that was merged are passed over.
VisitEdge ==
    /\ pc = "edges"
    /\ \E e \in out :
         /\ out' = out \ {e}
         /\ nodes' = NodesWith(in[e].to)
         /\ seenNodes' = seenNodes \cup {in[e].to}
         /\ IF in[e].dir = "Reverse" \/ e \in seenEdges
            THEN UNCHANGED <<pc, edges, pairs, in, seenEdges>>
            ELSE MergeEdge(e)
    /\ UNCHANGED <<files, k, todo, targets>>

NodeDone ==
    /\ pc = "edges" /\ out = {}
    /\ pc' = "nodes"
    /\ UNCHANGED <<files, k, graphVars, mergeVars>>

\* A slip: the iterator ends before the last node.
EndMergeEarly ==
    /\ pc = "nodes" /\ Cardinality(todo) <= 1
    /\ pc' = "load"
    /\ UNCHANGED <<files, k, graphVars, mergeVars>>

EndMerge ==
    /\ pc = "nodes" /\ todo = {}
    /\ pc' = "load"
    /\ UNCHANGED <<files, k, graphVars, mergeVars>>

\* All files are read: the graph is saved.
Save ==
    /\ pc = "load" /\ k = Len(files)
    /\ pc' = "done"
    /\ UNCHANGED <<files, k, graphVars, mergeVars>>

\* The program ends, after an exception too.
Ended == pc \in {"done", "threw"} /\ UNCHANGED vars

Next == \/ LoadFirst \/ BeginMerge \/ VisitNode \/ VisitEdge \/ NodeDone \/ EndMerge
        \/ Save \/ Ended

Spec == Init /\ [][Next]_vars

(***************************************************************************)
(* Properties.                                                             *)
(***************************************************************************)
Reversed(g, e, p) == /\ g[p].from = g[e].to
                     /\ g[p].to = g[e].from
                     /\ g[p].type = g[e].type

Anchored == \A e \in DOMAIN edges : {edges[e].from, edges[e].to} \subseteq DOMAIN nodes

PairsLive == \A e \in DOMAIN pairs : /\ {e, pairs[e]} \subseteq DOMAIN edges
                                     /\ Reversed(edges, e, pairs[e])

\* Whoever walks to the pair of an edge and back is at the edge again; the reverse
\* edge made for a bidirectional one when it is read is the exception.
PairsMutual ==
    \A e \in DOMAIN pairs : edges[e].dir # "Reverse" =>
        /\ pairs[e] \in DOMAIN pairs
        /\ pairs[pairs[e]] = e

\* The graph stays one: between any two steps of a merge both ends of every edge are
\* nodes, every pair runs between the same two nodes the other way and leads back,
\* every Reverse edge is a pair, and nothing throws.
WellFormed ==
    /\ Anchored /\ PairsLive /\ PairsMutual
    /\ \A e \in DOMAIN edges : edges[e].dir = "Reverse" => e \in DOMAIN pairs
    /\ pc # "threw"

With(n) == {i \in 1 .. k : n \in DOMAIN files[i].nodes}

\* What the first i files count for metric m of node n.
SumsOf(n, m) ==
    LET sum[i \in Nat] ==
            IF i = 0 THEN 0
            ELSE IF n \in DOMAIN files[i].nodes THEN sum[i - 1] + files[i].nodes[n].value[m]
            ELSE sum[i - 1]
    IN  sum

\* Between two merges the graph has the nodes of the files read so far, each with
\* the strings and metrics of all of them and the sums of their values: every file counts
\* once, however often its merge comes across a node, in whatever order.
NodesUnited ==
    pc \in {"load", "done"} =>
        /\ DOMAIN nodes = {n \in Node : With(n) # {}}
        /\ \A n \in DOMAIN nodes :
             /\ nodes[n].text = UNION {files[i].nodes[n].text : i \in With(n)}
             /\ nodes[n].metrics = UNION {files[i].nodes[n].metrics : i \in With(n)}
             /\ nodes[n].value = [m \in Metric |-> SumsOf(n, m)[k]]

\* What the nodes will be at the end of the merge under way.
unvisited == IF Scanning THEN DOMAIN file.nodes \ seenNodes ELSE {}

finalNodes ==
    [n \in DOMAIN nodes \cup unvisited |->
        IF n \notin DOMAIN nodes THEN file.nodes[n]
        ELSE IF n \notin unvisited THEN nodes[n]
        ELSE UnitedAttributes(nodes[n], file.nodes[n])]

Union == INSTANCE NodeUnion WITH nodes <- finalNodes

\* GraphMerge implements NodeUnion: seen through what each node will be when the
\* merge is over, a file counts as a whole when its merge begins, and no step of
\* the iterators changes that.
ImplementsNodeUnion == Union!Spec

Ends == [from : Node, to : Node, type : Type, dir : Direction \ {"Reverse"}]

Between(g, end) == {e \in DOMAIN g : /\ g[e].from = end.from /\ g[e].to = end.to
                                     /\ g[e].type = end.type /\ g[e].dir = end.dir}

\* Between two merges there are, between two nodes, as many edges of a type and a
\* direction as in the first file that has any: parallel edges of one file do not
\* fall together, those of a later file are not added.  One of them can be walked
\* backwards if a file has one that can.
EdgesUnited ==
    pc \in {"load", "done"} => \A end \in Ends :
        LET fileEdges(i) == LoadedEdges(i, files[i])
            has == {i \in 1 .. k : Between(fileEdges(i), end) # {}}
        IN  /\ has = {} => Between(edges, end) = {}
            /\ has # {} =>
                 LET first == CHOOSE i \in has : \A j \in has : i <= j
                 IN  Cardinality(Between(edges, end)) = Cardinality(Between(fileEdges(first), end))
            /\ (\E i \in has : Between(fileEdges(i), end) \cap DOMAIN LoadedPairs(i, files[i]) # {})
                 => Between(edges, end) \cap DOMAIN pairs # {}

\* csmmUnionNewAttributes "add[s] new attributes to element": between two merges
\* every string of every file's edges is on an edge between the same nodes.
EdgeAttributesAdded ==
    pc \in {"load", "done"} => \A i \in 1 .. k : \A e \in LoadedIds(i, files[i]) :
        LET edge == LoadedEdges(i, files[i])[e] IN
        edge.dir # "Reverse" =>
            edge.attr.text \subseteq UNION {edges[o].attr.text :
                o \in Between(edges, [from |-> edge.from, to |-> edge.to,
                                      type |-> edge.type, dir |-> edge.dir])}

=============================================================================
