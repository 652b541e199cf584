CONSTANT BlockCount = 4
SPECIFICATION Spec
INVARIANTS
    TypeOK
    ListIsFree
PROPERTY ImplementsPool
