SPECIFICATION Spec
CONSTANTS
    j1 = j1
    j2 = j2
    naruto = naruto
    bleach = bleach
    season = season
    bonus = bonus
    ep1 = ep1
    ep2 = ep2
    None = None
    Jobs = {j1}
    Entries = {naruto}
    Files = {ep1, ep2}
    Folders = {season, bonus}
    Walk <- Nested
    Chunks = 2
    MaxLosses = 1
    MaxCrashes = 0
    MaxOverlaps = 0
    MaxRefusals = 0
    MaxTroubles = 1
INVARIANTS OkIsComplete
