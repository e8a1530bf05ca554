---------------------------- MODULE MCGraphMerge ----------------------------
(* Two and three small files with two nodes and edges of every kind. *)
EXTENDS GraphMerge

Attr(t, v) == [text |-> t, metrics |-> Metric, value |-> [m \in Metric |-> v]]
Strings(t) == [NoAttributes EXCEPT !.text = t]

Directed(a, b, t) == [from |-> a, to |-> b, type |-> "use", dir |-> "Directional",
                      attr |-> Strings(t), hasPair |-> FALSE, pairAttr |-> NoAttributes]
Paired(a, b, t, u) == [Directed(a, b, t) EXCEPT !.hasPair = TRUE, !.pairAttr = Strings(u)]
Both(a, b, t, u) == [Paired(a, b, t, u) EXCEPT !.dir = "Bidirectional"]

AB == [n \in {"a", "b"} |-> IF n = "a" THEN Attr({"x"}, 1) ELSE Strings({"y"})]
BA == [n \in {"a", "b"} |-> IF n = "b" THEN Attr({"x"}, 2) ELSE Attr({}, 3)]
OnlyB == [n \in {"b"} |-> Attr({"x", "y"}, 5)]

MCFiles == {[nodes |-> OnlyB, entries |-> <<>>],
            [nodes |-> AB, entries |-> <<Directed("a", "b", {"x"})>>],
            [nodes |-> BA, entries |-> <<Directed("a", "b", {"y"}), Directed("a", "b", {"x"})>>],
            [nodes |-> BA, entries |-> <<Paired("a", "b", {"x"}, {"y"})>>],
            [nodes |-> AB, entries |-> <<Directed("b", "a", {}), Paired("a", "b", {}, {})>>],
            [nodes |-> AB, entries |-> <<Both("a", "b", {"x"}, {"y"}), Both("b", "a", {}, {})>>],
            [nodes |-> BA, entries |-> <<Both("a", "b", {"x"}, {"x"}), Paired("a", "a", {"y"}, {})>>],
            [nodes |-> OnlyB, entries |-> <<Both("b", "b", {"y"}, {"x"}), Directed("b", "b", {})>>]}

MCInputs == {<<f, g>> : f \in MCFiles, g \in MCFiles}
              \cup {<<f, g, h>> : f \in MCFiles, g \in MCFiles, h \in MCFiles}

=============================================================================
