SPECIFICATION FairSpec
CONSTANTS
    Rec = {r1}
    Cron = {cron}
    Request = {cron}
    MaxChanges = 2
    MaxSwitches = 2
    MaxFaults = 2
INVARIANTS TypeOK DirectFollowsGet NothingLeftWhenOff RecordedFailureWasDelivered
PROPERTIES AlertsAreDeduplicated ImplementsChannel Settles
CHECK_DEADLOCK FALSE
