----------------------------- MODULE NodeUnion -----------------------------
(***************************************************************************)
(* What merging files means for the nodes: a file is read and its nodes    *)
(* are united with those there are, each exactly once and all at the same  *)
(* time.  GraphMerge, which comes across a node several times and in any   *)
(* order, is shown to implement this.                                      *)
(***************************************************************************)
EXTENDS ResultGraph

CONSTANT Inputs

VARIABLES files,   \* the files to merge
          k,       \* how many are read
          nodes    \* the union of their nodes

vars == <<files, k, nodes>>

UnitedNodes(a, b) ==
    [n \in DOMAIN a \cup DOMAIN b |->
        IF n \notin DOMAIN a THEN b[n]
        ELSE IF n \notin DOMAIN b THEN a[n]
        ELSE UnitedAttributes(a[n], b[n])]

Init == /\ files \in Inputs
        /\ k = 0
        /\ nodes = <<>>

Read == /\ k < Len(files)
        /\ k' = k + 1
        /\ nodes' = UnitedNodes(nodes, files[k + 1].nodes)
        /\ UNCHANGED files

Spec == Init /\ [][Read]_vars

=============================================================================
