SPECIFICATION UserSpec
CONSTANTS
    Type = {morning}
    Hours = 2
    Time <- BothHours
    Zone = {0, 1}
    Editor = {e1, e2}
    LastTick = 2
    MaxEdits = 2
    MaxFails = 0
    morning = morning
    e1 = e1
    e2 = e2
    Window <- Windows
    Minute = {482, 1436}
    Lag = {0, 400}
    Phone = {p1, p2}
    Job = {j1}
    Opener = {o1, o2}
    Needy = {o2}
    LastDay = 3
CONSTRAINT Uncrossed
SYMMETRY PlanSymmetry
INVARIANTS
    StalePlanHasCause
    CallsPerDay
    DroppedStaysDropped
    DueInWindow
    BudgetHolds
    StreakEarned
PROPERTY NoRepeat
CHECK_DEADLOCK FALSE
