CONSTANTS
    Node = {"a", "b"}
    Type = {"use"}
    Text = {"x", "y"}
    Metric = {"lines"}
    Inputs <- MCInputs
SPECIFICATION Spec
INVARIANTS TypeOK WellFormed NodesUnited EdgesUnited
PROPERTY ImplementsNodeUnion
