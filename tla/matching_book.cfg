CONSTANTS
    Ids = {i1, i2, i3, i4}
    Price = {1, 2, 3}
    Qty = {0, 1, 3}
SYMMETRY MCSymmetry
SPECIFICATION EngineSpec
INVARIANTS BookSound SameBook
PROPERTY ImplementsAuction
