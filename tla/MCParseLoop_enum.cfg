\* A column for an enum that may be null, with null as the last branch.
SPECIFICATION Spec
CONSTANTS
    Cases <- EnumOrNullCases
    IntBits = 3
    Nodes <- AllNodes
    Depth <- AllDepths
INVARIANTS
    RowExact
