SPECIFICATION FairSpec
CONSTANTS
    Service = {s1}
    Server = {s1}
    Fact <- Facts
    Day = 2
    Thresholds = {1, 2}
    Session = {loop}
    Latest = 5
    Horizon = 3
    MaxChanges = 1
    MaxFaults = 2
INVARIANTS TypeOK RemindsOfTightestWindow
PROPERTIES RepeatsOnlyAfterCause ImplementsChannel RemindersSettle
CHECK_DEADLOCK FALSE
