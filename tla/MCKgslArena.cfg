SPECIFICATION Spec
CONSTANTS
    Ctx = {c1, c2, c3}
    Res = {r1, r2}
    Size = 12
    Guard = 2
    PageSize = 2
    BlobSizes = {1, 4, 5}
SYMMETRY Symm
INVARIANTS
    ArenaConsistent
    RefsCountHolders
