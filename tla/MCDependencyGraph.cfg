CONSTANTS
    a = a
    b = b
    c = c
    d = d
    Key = {a, b, c, d}
SPECIFICATION Spec
INVARIANTS TypeOK EdgesMirrored Acyclic CycleCheckExact
