SPECIFICATION Spec
CONSTANTS
    Session <- Sessions
    Forms <- FormsOf
    Token = {t1, t2}
    Chat = {c1}
    Proxy = {p1}
    None = None
    MaxPosts = 5
INVARIANTS TypeOK LastSavedStands BelongsTogether
CHECK_DEADLOCK FALSE
