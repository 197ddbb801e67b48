SPECIFICATION Spec
CONSTANTS
    j1 = j1
    j2 = j2
    naruto = naruto
    bleach = bleach
    season = season
    bonus = bonus
    ep1 = ep1
    ep2 = ep2
    None = None
    Jobs = {j1, j2}
    Entries = {naruto, bleach}
    Files = {ep1, ep2}
    Folders = {season}
    Walk <- Twins
    Chunks = 2
    MaxLosses = 1
    MaxCrashes = 1
    MaxOverlaps = 1
    MaxRefusals = 2
    MaxTroubles = 2
INVARIANTS FilesAreWhole
PROPERTIES WholeFilesStay JobEnds
