SPECIFICATION PacedSpec
CONSTANTS
    r1 = r1
    r2 = r2
    r3 = r3
    p1 = p1
    p2 = p2
    Runs = {r1, r2, r3}
    JudgedRuns = {r1, r2, r3}
    Models = {m1}
    Projects = {p1, p2}
    NoProject = none
    Project <- MixedProjects
    Size <- TwoAndOne
    Price = 1
    CallCost = 1
    OnExceed = "block"
    MaxPerRun = 2
    MaxPerSubject = 2
    MonthlyBudget = 1
    MaxAttempts = 1
    MaxFaults = 1
    MaxCrashes = 0
    MaxToggles = 0
    Overlap = 2
INVARIANTS
    WithinLimits
PROPERTY RunEnds
CHECK_DEADLOCK FALSE
