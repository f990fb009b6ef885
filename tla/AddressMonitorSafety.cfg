SPECIFICATION Spec
CONSTANTS
    Kind = "ssl"
    Addr = {a1}
    Unresolved = unresolved
    Failure = {f1}
    Warning = {w1}
    Unreachable = f1
    Cron = {cron}
    Request = {ui}
    MaxChanges = 2
    MaxSwitches = 1
    MaxFaults = 1
SYMMETRY Symmetry
INVARIANTS TypeOK RecordedAlertWasDelivered
PROPERTIES RecoveryRefersToAlert
CHECK_DEADLOCK FALSE
