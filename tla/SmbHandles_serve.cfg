SPECIFICATION ServeSpec
CHECK_DEADLOCK FALSE
CONSTANTS
    MaxHandles = 2
    MaxTransfers = 2
    dir = dir
    inner = inner
    outer = outer
    root = root
    nopath = nopath
    c1 = c1
    c2 = c2
    Clients = {c1, c2}
    Paths = {dir, inner, outer}
    Names <- MCNames
    NameOf <- MCNameOf
    ParentOf <- MCParentOf
    Root = root
    NoPath = nopath
    Chunks = {1}
    MaxBytes = 3
    MaxConnects = 2
SYMMETRY Symmetry
INVARIANTS TableInv LogInv LogTellsTrue
PROPERTIES LogMovesForward
