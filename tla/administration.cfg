SPECIFICATION MCSpec
CONSTANTS
    None = None
    t1 = t1  r1 = r1  r2 = r2  u1 = u1  u2 = u2  s1 = s1  sales = sales  stock = stock
    Report = {sales, stock}
    modeOf <- modes
    SlotsPerDay = 2
    DaysInWeek = 2
    DaysInMonth = 3
    Tenant = {t1}
    Recipient = {r1, r2}
    LineUser = {u1, u2}
    AccessEnds = {2, 9}
    PermissionSets <- permissionSets
    InvitationSlots = 2
    Schedule = {s1}
    storeOf <- stores
    Plans <- plans
    SmartPeriods = TRUE
    MaxTests = 1
    MaxEdits = 4
    LastSlot = 4
INVARIANTS TypeOK BoundIdentityStaysActive OpenInvitationIsPending ActiveScheduleIsServable
    ArchivedTenantStaysQuiet NoOccurrenceSkipped NextOccurrenceIsNew
PROPERTY VersionStandsForContent
CHECK_DEADLOCK FALSE
