SPECIFICATION Spec
CONSTANTS
    Rec = {r1, r2}
    Cron = {cron}
    Request = {ui}
    MaxChanges = 0
    MaxSwitches = 0
    MaxFaults = 1
SYMMETRY Symmetry
PROPERTIES OnlyBrokenGivenUp
CHECK_DEADLOCK FALSE
