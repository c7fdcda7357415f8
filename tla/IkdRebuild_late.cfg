SPECIFICATION Spec
CONSTANTS
    Points = {0, 1, 2}
    Below = {0, 1}
    Size = 3
    Copies = 1
    MaxOps = 4
    Readers = {}
    Null = Null
INVARIANT LogIsEmptyAtStart
CHECK_DEADLOCK FALSE
