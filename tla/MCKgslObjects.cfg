SPECIFICATION Spec
CONSTANTS
    Ctx = {c1, c2}
    Makers = {c1}
    BlobIds = {b1}
    ResIds = {r1, r2}
    Pages = {p1, p2}
    Sizes = {1, 2}
    NumSlices = 2
    SliceSize = 2
    MaxMems = 3
SYMMETRY Symm
INVARIANTS
    SlicesIsolated
    LiveRangesBound
    NoStaleOwnRange
PROPERTIES
    CompletedFromOwnPages
