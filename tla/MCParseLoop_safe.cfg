\* Schemas on which the loop and the recursive reading agree.
SPECIFICATION Spec
CONSTANTS
    Cases <- SafeCases
    IntBits = 3
    Nodes <- AllNodes
    Depth <- AllDepths
INVARIANTS
    TypeOK
    NumbersDistinct
    Aligned
    SameCalls
    RecordsEvaluatedLast
    RowExact
    JsonExact
    FoolExact
    Sound
