SPECIFICATION Spec
CONSTANTS
    c1 = c1
    c2 = c2
    i1 = i1
    i2 = i2
    Client <- MCClient
    Instance <- MCInstance
    MaxXid = 3
    MaxId = 3
SYMMETRY Symmetry
PROPERTIES
    NothingBehindTheCursor
CHECK_DEADLOCK FALSE
