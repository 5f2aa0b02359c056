\* An array of elements that may be null.
SPECIFICATION Spec
CONSTANTS
    Cases <- OptionalsCases
    IntBits = 3
    Nodes <- AllNodes
    Depth <- AllDepths
INVARIANTS
    Aligned
