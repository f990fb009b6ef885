SPECIFICATION Spec
CONSTANTS
    Kind = "ssl"
    Addr = {a1}
    Unresolved = unresolved
    Failure = {f1, f2}
    Warning = {w1}
    Unreachable = f1
    Cron = {cron}
    Request = {cron}
    MaxChanges = 3
    MaxSwitches = 0
    MaxFaults = 0
SYMMETRY Symmetry
PROPERTIES RecoveryIsAnnounced
CHECK_DEADLOCK FALSE
