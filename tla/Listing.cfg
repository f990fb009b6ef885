SPECIFICATION FairSpec
CONSTANTS
    Place <- Places
    PerPage = {0, 2}
    MaxChanges = 3
INVARIANTS TypeOK NoneMissed SaysWhatItShows
PROPERTY WalkEnds
CHECK_DEADLOCK FALSE
