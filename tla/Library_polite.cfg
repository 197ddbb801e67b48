SPECIFICATION PoliteSpec
CONSTANTS
    naruto = naruto
    season = season
    copy = copy
    hit = hit
    miss = miss
    r1 = r1
    t1 = t1
    t2 = t2
    None = None
    Broken = Broken
    Roots = {r1}
    Ids = {naruto, copy}
    Mals = {hit, miss}
    Tasks = {t1, t2}
    Stem <- StemOf
    Inside <- InsideOf
    Title <- TitleOf
    Finds <- FindsOf
    Passes = 2
    MaxEdits = 1
    MaxCrashes = 1
INVARIANTS CardsAreTrue
PROPERTIES LinksKept TasksEnd
