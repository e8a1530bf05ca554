---------------------------- MODULE ResultGraph ----------------------------
(***************************************************************************)
(* The graph in which the tools hand their results to each other: nodes    *)
(* with a unique name, typed edges, attributes on both, and for an edge    *)
(* that can be walked backwards a second edge, its pair.  A graph is       *)
(*   nodes   the attributes of each node, by its name (UID);               *)
(*   edges   the record of each edge, by its identity;                     *)
(*   pairs   the pair of each edge that has one (edgePairMap).             *)
(* This module says what a graph's file contains and what graph it becomes *)
(* when it is read, and how the attributes of two elements are united.     *)
(*                                                                         *)
(* The identity of an edge, in the code an address, names the file and the *)
(* entry it was first read from and the half of that entry it stands for.  *)
(* The types of nodes are left out: merging neither compares nor changes   *)
(* them, and no schema is loaded.                                          *)
(***************************************************************************)
EXTENDS Integers, Sequences

CONSTANTS Node,    \* names of nodes
          Type,    \* types of edges
          Text,    \* string and composite attributes
          Metric   \* names of numeric attributes

\* A Reverse edge exists only as the pair of another one.
Direction == {"Bidirectional", "Directional", "Reverse"}

\* An element has each string attribute at most once and one value of a metric;
\* the value of a metric it does not have is 0.
Attributes == [text : SUBSET Text, metrics : SUBSET Metric, value : [Metric -> Int]]

NoAttributes == [text |-> {}, metrics |-> {}, value |-> [m \in Metric |-> 0]]

Edge == [from : Node, to : Node, type : Type, dir : Direction, attr : Attributes]

\* The halves of an entry: the edge itself, its bidirectional twin, the reverse
\* edge that is made for it, and the reverse edge it gets later in a merge.
Half == {"edge", "twin", "reverse", "added"}

EdgeId == Nat \X Nat \X Half

(***************************************************************************)
(* Files.  An edge and its pair are one entry, written at whichever of the *)
(* two is met first and is not a Reverse edge.                             *)
(***************************************************************************)
Entry == [from : Node, to : Node, type : Type, dir : Direction \ {"Reverse"},
          attr : Attributes, hasPair : BOOLEAN, pairAttr : Attributes]

IsFile(f) == /\ DOMAIN f.nodes \subseteq Node
             /\ f.nodes \in [DOMAIN f.nodes -> Attributes]
             /\ f.entries \in Seq(Entry)
             /\ \A i \in DOMAIN f.entries :
                  /\ {f.entries[i].from, f.entries[i].to} \subseteq DOMAIN f.nodes
                  /\ f.entries[i].dir = "Bidirectional" => f.entries[i].hasPair

\* A bidirectional entry becomes an edge and its twin, and then, because it has
\* a pair, a reverse edge as well, to which the pair's attributes go.
HalvesOf(entry) == {"edge"}
                     \cup (IF entry.dir = "Bidirectional" THEN {"twin"} ELSE {})
                     \cup (IF entry.hasPair THEN {"reverse"} ELSE {})

LoadedIds(n, f) ==
    {id \in {n} \X (DOMAIN f.entries) \X Half : id[3] \in HalvesOf(f.entries[id[2]])}

LoadedEdge(entry, half) ==
    IF half = "edge"
    THEN [from |-> entry.from, to |-> entry.to, type |-> entry.type, dir |-> entry.dir,
          attr |-> entry.attr]
    ELSE [from |-> entry.to, to |-> entry.from, type |-> entry.type,
          dir |-> IF half = "twin" THEN "Bidirectional" ELSE "Reverse",
          attr |-> IF half = "twin" THEN NoAttributes ELSE entry.pairAttr]

LoadedEdges(n, f) ==
    [id \in LoadedIds(n, f) |-> LoadedEdge(f.entries[id[2]], id[3])]

\* The reverse edge of a bidirectional entry points to the edge, whose own pair
\* stays the twin: a pair that is there is not replaced.
PairHalf(entry, half) == CASE half # "edge" -> "edge"
                           [] half = "edge" /\ entry.dir = "Bidirectional" -> "twin"
                           [] OTHER -> "reverse"

LoadedPairs(n, f) ==
    [id \in {x \in LoadedIds(n, f) : f.entries[x[2]].hasPair} |->
        <<n, id[2], PairHalf(f.entries[id[2]], id[3])>>]

(***************************************************************************)
(* Two elements' attributes, united: the strings that are missing are      *)
(* added, numbers are summed.                                              *)
(***************************************************************************)
UnitedAttributes(old, new) ==
    [text    |-> old.text \cup new.text,
     metrics |-> old.metrics \cup new.metrics,
     value   |-> [m \in Metric |-> old.value[m] + new.value[m]]]

=============================================================================
