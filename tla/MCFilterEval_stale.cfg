\* An optional field of the records in an array.
SPECIFICATION Spec
CONSTANTS
    Cases <- StaleCases
    Strings <- FewStrings
    IntBits = 3
    Nodes <- AllNodes
    Depth <- AllDepths
INVARIANTS
    Verdict
