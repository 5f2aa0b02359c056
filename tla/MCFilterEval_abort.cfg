\* Filters that end the process.
SPECIFICATION Spec
CONSTANTS
    Cases <- AbortCases
    Strings <- FewStrings
    IntBits = 3
    Nodes <- AllNodes
    Depth <- AllDepths
INVARIANTS
    Reported
