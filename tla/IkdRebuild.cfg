SPECIFICATION Spec
CONSTANTS
    Points = {0, 1, 2, 3}
    Below = {0, 1}
    Size = 3
    Copies = 1
    MaxOps = 3
    Readers = {r1}
    Null = Null
INVARIANTS TypeOK ContentKept CountedSearchIsSafe
PROPERTIES OperationsEnd
CHECK_DEADLOCK FALSE
