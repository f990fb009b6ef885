SPECIFICATION FairSpec
CONSTANTS
    Kind = "ping"
    Addr = {a1, a2}
    Unresolved = unresolved
    Failure = {f1}
    Warning = {}
    Unreachable = f1
    Cron = {cron}
    Request = {cron}
    MaxChanges = 3
    MaxSwitches = 0
    MaxFaults = 2
INVARIANTS StateOnlyForListed
PROPERTIES AlertsAreDeduplicated ImplementsChannel Settles
CHECK_DEADLOCK FALSE
