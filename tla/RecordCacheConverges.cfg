SPECIFICATION FairSpec
CONSTANTS
    loop = loop
    ui = ui
    Record = {1}
    Zone = {1}
    ZoneOf <- OneZone
    Content = {c1, c2}
    Comment = {none}
    NoComment = none
    Syncer = {loop, ui}
    Loop = loop
    Worker = {w1}
    PageSize = 1
    ReuseIds = TRUE
    MaxOps = 2
INVARIANTS TypeOK CachedContentWasAccepted NoOrphanRows
PROPERTIES Converges
