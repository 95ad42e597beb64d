CONSTANTS
    ORDER_MAP_SIZE = 4
    Ids = {1, 2, 3, 4}
    Slots = {0, 1}
    MaxEntries = 3
SPECIFICATION Spec
INVARIANT TableSound
PROPERTY ImplementsIndex
