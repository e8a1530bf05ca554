CONSTANTS
    String = {"a", "b", "c", "d"}
    NoString = ""
    HashOf <- HashValues
    NoBuckets = 2
    NumberSpace = 4
    n1 = n1
    n2 = n2
    Node = {n1, n2}
SPECIFICATION Spec
INVARIANTS TypeOK NamesKept FileExact NeverFull
