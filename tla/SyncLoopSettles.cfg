SPECIFICATION FairSpec
CONSTANTS
    Cloudflare = {c1}
    Atw = {a1}
    Ovh = {o1}
    User = {u1}
    Service = {s1}
    MaxChanges = 1
    MaxRequests = 2
    MaxFaults = 1
INVARIANTS TypeOK NothingWithoutAccount
PROPERTIES Settles
CHECK_DEADLOCK FALSE
