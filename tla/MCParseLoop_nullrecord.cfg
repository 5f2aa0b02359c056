\* A union of null and a record.
SPECIFICATION Spec
CONSTANTS
    Cases <- NullFirstCases
    IntBits = 3
    Nodes <- AllNodes
    Depth <- AllDepths
INVARIANTS
    Aligned
