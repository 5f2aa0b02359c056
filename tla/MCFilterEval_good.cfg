\* Filters on plain and optional fields of all types, arrays, and records in
\* arrays; texts that mean nothing.
SPECIFICATION Spec
CONSTANTS
    Cases <- GoodCases
    Strings <- FewStrings
    IntBits = 3
    Nodes <- AllNodes
    Depth <- AllDepths
INVARIANTS
    TypeOK
    Verdict
    Understood
    Reported
