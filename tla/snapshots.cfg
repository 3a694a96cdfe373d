SPECIFICATION Spec
CONSTANTS
    None = None
    sales = sales  v1 = v1  v2 = v2
    Report = {sales}
    modeOf <- modes
    SlotsPerDay = 2
    DaysInWeek = 7
    DaysInMonth = 3
    Viewer = {v1, v2}
    presetsOf <- presets
    SchedulePresets = {"TODAY_TO_NOW"}
    Intervals = {1}
    RetentionSlots = 3
    HistorySlots = 3
    LinkSlots = 2
    MaxBackground = 2
    MaxDashboard = 2
    MaxRuns = 2
    MaxRequests = 2
    MaxEdits = 1
    LastSlot = 3
INVARIANTS TypeOK SnapshotIsOfCurrentSource AwaitedRunIsServed OneRefreshPerInterval
    DetailRowsStay DeliveredLinkWorks
CHECK_DEADLOCK FALSE
