SPECIFICATION Spec
CONSTANTS
    loop = loop
    ui = ui
    Record = {1, 2}
    Zone = {1}
    ZoneOf <- OneZone
    Content = {c1}
    Comment = {none, note}
    NoComment = none
    Syncer = {loop}
    Loop = loop
    Worker = {w1, w2}
    PageSize = 2
    ReuseIds = FALSE
    MaxOps = 3
PROPERTIES CommentsSurviveSync
SYMMETRY Symmetry
